--------------------------- MODULE ToolCall_proofs ---------------------------
(***************************************************************************)
(* What ToolCall checks on small words and short lists, proved for words   *)
(* of every width, arguments of every length and any number of callers,    *)
(* grants and capabilities within the assumptions.                         *)
(*                                                                         *)
(* The codec comes first, from the varint up to the frame: what is written *)
(* is read as it was, what follows it is left alone, and what is cut off   *)
(* is not read.  Then the calls: what the Ward and keeperd read of them,   *)
(* and what the capabilities answer.  Last the inductive invariant, that   *)
(* it is one, and what follows from it.                                    *)
(*                                                                         *)
(* Induction is over a set of numbers, not over a predicate: a set that    *)
(* has 0 and the successor of each of its members has every number,        *)
(* because < is well-founded and so its complement would have a least      *)
(* member.                                                                 *)
(***************************************************************************)
EXTENDS ToolCall, WellFoundedInduction, SequenceTheorems, TLAPS

-----------------------------------------------------------------------------
(* Numbers.                                                                *)

(* Numbers do not descend for ever.                                        *)
LEMMA NatLess == IsWellFoundedOn({ss \in Nat \X Nat : ss[1] < ss[2]}, Nat)
BY NatLessThanWellFounded DEF OpToRel

(* A set of numbers has a least member.                                    *)
LEMMA Least ==
  ASSUME NEW T \in SUBSET Nat, T # {}
  PROVE  \E x \in T : \A y \in T : x <= y
<1> DEFINE R == {ss \in Nat \X Nat : ss[1] < ss[2]}
<1>1. IsWellFoundedOn(R, Nat)
  BY NatLess
<1>2. \E x \in T : \A y \in T : <<y, x>> \notin R
  <2> HIDE DEF R
  <2> QED
    BY <1>1, WFMin
<1>3. PICK x \in T : \A y \in T : <<y, x>> \notin R
  BY <1>2
<1>4. \A y \in T : ~(y < x)
  BY <1>3
<1> QED
  BY <1>4

(* Induction, over the set of the numbers that have a property.            *)
LEMMA Induction ==
  ASSUME NEW T, 0 \in T, \A n \in Nat : n \in T => n + 1 \in T
  PROVE  Nat \subseteq T
<1> SUFFICES ASSUME Nat \ T # {} PROVE FALSE
  OBVIOUS
<1>1. PICK x \in Nat \ T : \A y \in Nat \ T : x <= y
  BY Least
<1>2. x # 0
  OBVIOUS
<1>3. x - 1 \in Nat /\ x - 1 \in T
  BY <1>1, <1>2
<1> QED
  BY <1>3

(* Min is what its name says.                                              *)
LEMMA MinFacts ==
  ASSUME NEW S \in SUBSET Nat, S # {}
  PROVE  Min(S) \in S /\ \A y \in S : Min(S) <= y
BY Least DEF Min

(* The powers of two up to the width of a word, and beyond it.             *)
LEMMA PowerFacts ==
  /\ 2 ^ 0 = 1
  /\ \A n \in 0..(Width + Group + 1) : 2 ^ n \in Nat \ {0}
  /\ \A n \in 0..(Width + Group) : 2 ^ (n + 1) = 2 * 2 ^ n
<1> DEFINE T == {n \in Nat : n <= Width + Group + 1 => 2 ^ n \in Nat \ {0}}
<1>0. 2 ^ 0 = 1
  OBVIOUS
<1>1. 0 \in T
  BY <1>0
<1>2. ASSUME NEW n \in Nat, n \in T PROVE n + 1 \in T
  <2> SUFFICES ASSUME n + 1 <= Width + Group + 1 PROVE 2 ^ (n + 1) \in Nat \ {0}
    OBVIOUS
  <2>1. n \in 0..(Width + Group) /\ 2 ^ n \in Nat \ {0}
    BY <1>2, CodecAssumption
  <2>2. 2 ^ (n + 1) = 2 * 2 ^ n
    BY <2>1, PowerAssumption
  <2> HIDE DEF T
  <2> QED
    BY <2>1, <2>2
<1>3. Nat \subseteq T
  <2> HIDE DEF T
  <2> QED
    BY <1>1, <1>2, Induction
<1> QED
  BY <1>0, <1>3, CodecAssumption, PowerAssumption

(* Induction up to a number.                                               *)
LEMMA InductionUpTo ==
  ASSUME NEW n \in Nat, NEW T, 0 \in T, \A k \in 0..(n - 1) : k \in T => k + 1 \in T
  PROVE  0..n \subseteq T
<1> DEFINE U == {k \in Nat : k <= n => k \in T}
<1>1. 0 \in U
  OBVIOUS
<1>2. \A k \in Nat : k \in U => k + 1 \in U
  OBVIOUS
<1>3. Nat \subseteq U
  <2> HIDE DEF U
  <2> QED
    BY <1>1, <1>2, Induction
<1> QED
  BY <1>3

(* What there is to know of words: they begin with 0, and dividing by the  *)
(* base of a group makes them smaller.                                     *)
LEMMA WordFacts ==
  /\ Base \in Nat /\ Base > 1 /\ Words = 0..(2 ^ Width - 1) /\ 2 ^ Width \in Nat \ {0}
  /\ Words \subseteq Nat
  /\ \A w \in Words : \A v \in Nat : v <= w => v \in Words
  /\ \A w \in Words : w >= Base => w \div Base \in Words /\ w \div Base < w /\ w \div Base > 0
  /\ \A w \in Words : w % Base \in 0..(Base - 1) /\ w = Base * (w \div Base) + (w % Base)
<1>1. 2 ^ Width \in Nat \ {0}
  BY PowerFacts, CodecAssumption
<1>2. Group - 1 \in 0..(Width + Group) /\ Group - 1 \in 0..(Width + Group + 1) /\ (Group - 1) + 1 = Group
  BY CodecAssumption
<1>3. 2 ^ Group = 2 * 2 ^ (Group - 1) /\ 2 ^ (Group - 1) \in Nat \ {0}
  <2>1. 2 ^ ((Group - 1) + 1) = 2 * 2 ^ (Group - 1)
    BY <1>2, PowerFacts
  <2>2. 2 ^ (Group - 1) \in Nat \ {0}
    BY <1>2, PowerFacts
  <2> QED
    BY <1>2, <2>1, <2>2
<1>4. Base \in Nat /\ Base > 1
  BY <1>3 DEF Base
<1>5. Words = 0..(2 ^ Width - 1)
  BY DEF Words
<1>6. \A w \in Nat : /\ w >= Base => w \div Base \in Nat /\ w \div Base < w /\ w \div Base > 0
                     /\ w % Base \in 0..(Base - 1) /\ w = Base * (w \div Base) + (w % Base)
  BY <1>4
<1>7. \A w \in Words : w \in Nat /\ w <= 2 ^ Width - 1 /\ \A v \in Nat : v <= w => v \in Words
  BY <1>1, <1>5
<1>8. \A w \in Words : w >= Base => w \div Base \in Words
  BY <1>4, <1>6, <1>7
<1> QED
  BY <1>1, <1>4, <1>5, <1>6, <1>7, <1>8

(* A group more is a factor of the base more.                              *)
LEMMA PowerSum ==
  \A m \in 0..Width : 2 ^ (m + Group) = Base * 2 ^ m
<1> DEFINE T == {m \in 0..Width : 2 ^ (m + Group) = Base * 2 ^ m}
<1>1. 0 \in T
  BY PowerFacts, CodecAssumption, WordFacts DEF Base
<1>2. ASSUME NEW m \in 0..(Width - 1), m \in T PROVE m + 1 \in T
  <2>1. 2 ^ (m + 1) = 2 * 2 ^ m /\ 2 ^ m \in Nat
    BY PowerFacts, CodecAssumption
  <2>2. m + Group \in 0..(Width + Group) /\ (m + 1) + Group = (m + Group) + 1
    BY CodecAssumption
  <2>3. 2 ^ ((m + 1) + Group) = 2 * 2 ^ (m + Group)
    BY <2>2, PowerFacts
  <2>4. 2 * (Base * 2 ^ m) = Base * (2 * 2 ^ m)
    BY <2>1, WordFacts
  <2> QED
    BY <1>2, <2>1, <2>3, <2>4, CodecAssumption
<1> HIDE DEF T
<1>3. 0..Width \subseteq T
  BY <1>1, <1>2, InductionUpTo, CodecAssumption
<1> QED
  BY <1>3 DEF T

VarintLaw(f, m) ==
  /\ f \in [0..m -> Seq(Bytes)]
  /\ \A w \in 0..m : f[w] = IF w < Base THEN <<w>> ELSE <<(w % Base) + Base>> \o f[w \div Base]

(* A function that obeys the law up to m extends to m + 1.                 *)
LEMMA VarintLawStep ==
  ASSUME NEW m \in Nat, m + 1 \in Words, NEW f, VarintLaw(f, m)
  PROVE  \E g : VarintLaw(g, m + 1)
<1> DEFINE n == m + 1
           b == IF n < Base THEN <<n>> ELSE <<(n % Base) + Base>> \o f[n \div Base]
           g == [w \in 0..n |-> IF w = n THEN b ELSE f[w]]
<1>1. n >= Base => n \div Base \in 0..m /\ (n % Base) + Base \in Bytes
  BY WordFacts DEF Bytes
<1>2. b \in Seq(Bytes)
  <2>1. CASE n < Base
    BY <2>1, WordFacts DEF Bytes
  <2>2. CASE n >= Base
    <3>1. f[n \div Base] \in Seq(Bytes) /\ <<(n % Base) + Base>> \in Seq(Bytes)
      BY <1>1, <2>2 DEF VarintLaw
    <3>2. b = <<(n % Base) + Base>> \o f[n \div Base]
      <4>1. ~(n < Base)
        BY <2>2, WordFacts
      <4> QED
        BY <4>1
    <3> HIDE DEF b, n
    <3> QED
      BY <3>1, <3>2
  <2> QED
    BY <2>1, <2>2, WordFacts
<1>3. g \in [0..n -> Seq(Bytes)]
  <2>1. \A w \in 0..n : w # n => w \in 0..m
    OBVIOUS
  <2>2. f \in [0..m -> Seq(Bytes)]
    BY DEF VarintLaw
  <2> HIDE DEF b, n
  <2> QED
    BY <1>2, <2>1, <2>2
<1>4. ASSUME NEW w \in 0..n
      PROVE  g[w] = IF w < Base THEN <<w>> ELSE <<(w % Base) + Base>> \o g[w \div Base]
  <2>1. w \in Words /\ (w >= Base => w \div Base \in 0..m)
    <3>1. w \in Words
      BY WordFacts
    <3>2. w >= Base => w \div Base \in Nat /\ w \div Base < w
      BY <3>1, WordFacts
    <3> QED
      BY <3>1, <3>2
  <2>2. w >= Base => g[w \div Base] = f[w \div Base]
    <3> HIDE DEF b
    <3> QED
      BY <2>1
  <2>3. CASE w = n
    <3>1. g[w] = b
      BY <2>3
    <3>2. b = IF w < Base THEN <<w>> ELSE <<(w % Base) + Base>> \o f[w \div Base]
      BY <2>3
    <3> HIDE DEF b, g, n
    <3> QED
      BY <3>1, <3>2, <2>1, <2>2, WordFacts
  <2>4. CASE w # n
    <3>1. w \in 0..m /\ g[w] = f[w]
      BY <2>4
    <3>2. f[w] = IF w < Base THEN <<w>> ELSE <<(w % Base) + Base>> \o f[w \div Base]
      BY <3>1 DEF VarintLaw
    <3> HIDE DEF b, g, n
    <3> QED
      BY <3>1, <3>2, <2>1, <2>2, WordFacts
  <2> QED
    BY <2>3, <2>4
<1>5. VarintLaw(g, n)
  <2> HIDE DEF g, b, n
  <2> QED
    BY <1>3, <1>4 DEF VarintLaw
<1> QED
  BY <1>5

(* The recursive function exists, and obeys its definition.                *)
LEMMA VarintBytesIs ==
  /\ VarintBytes \in [Words -> Seq(Bytes)]
  /\ \A w \in Words : VarintBytes[w] =
       IF w < Base THEN <<w>> ELSE <<(w % Base) + Base>> \o VarintBytes[w \div Base]
<1> DEFINE top == 2 ^ Width - 1
           T == {m \in 0..top : \E f : VarintLaw(f, m)}
<1>0. top \in Nat /\ Words = 0..top
  BY WordFacts
<1>1. 0 \in T
  <2>1. VarintLaw([w \in 0..0 |-> <<0>>], 0)
    BY WordFacts DEF Bytes, VarintLaw
  <2> QED
    BY <1>0, <2>1
<1>2. ASSUME NEW m \in 0..(top - 1), m \in T PROVE m + 1 \in T
  <2>1. PICK f : VarintLaw(f, m)
    BY <1>2
  <2>2. \E g : VarintLaw(g, m + 1)
    BY <1>0, <2>1, VarintLawStep
  <2> QED
    BY <1>0, <2>2
<1>3. top \in T
  <2> HIDE DEF T
  <2> QED
    BY <1>0, <1>1, <1>2, InductionUpTo
<1>4. PICK f : VarintLaw(f, top)
  BY <1>3
<1>5. /\ f \in [Words -> Seq(Bytes)]
      /\ f = [w \in Words |-> IF w < Base THEN <<w>> ELSE <<(w % Base) + Base>> \o f[w \div Base]]
  BY <1>0, <1>4 DEF VarintLaw
<1>6. VarintBytes =
        [w \in Words |-> IF w < Base THEN <<w>> ELSE <<(w % Base) + Base>> \o VarintBytes[w \div Base]]
  BY <1>5 DEF VarintBytes
<1> DEFINE U == {m \in 0..top : \A w \in 0..m : VarintBytes[w] \in Seq(Bytes)}
<1>7. 0 \in U
  <2>1. 0 \in Words /\ 0 < Base /\ 0 \in Bytes
    BY <1>0, WordFacts DEF Bytes
  <2>2. VarintBytes[0] = <<0>>
    BY <1>6, <2>1
  <2>3. VarintBytes[0] \in Seq(Bytes)
    BY <2>1, <2>2
  <2>4. \A w \in 0..0 : w = 0
    OBVIOUS
  <2> QED
    BY <1>0, <2>3, <2>4
<1>8. ASSUME NEW m \in 0..(top - 1), m \in U PROVE m + 1 \in U
  <2> DEFINE n == m + 1
  <2>1. n \in Words
    BY <1>0
  <2>2. VarintBytes[n] = IF n < Base THEN <<n>> ELSE <<(n % Base) + Base>> \o VarintBytes[n \div Base]
    BY <1>6, <2>1
  <2>3. VarintBytes[n] \in Seq(Bytes)
    <3>1. CASE n < Base
      <4>1. <<n>> \in Seq(Bytes)
        BY <2>1, <3>1, WordFacts DEF Bytes
      <4> HIDE DEF n
      <4> QED
        BY <2>2, <3>1, <4>1
    <3>2. CASE ~(n < Base)
      <4>1. n \div Base \in 0..m /\ <<(n % Base) + Base>> \in Seq(Bytes)
        BY <2>1, <3>2, WordFacts DEF Bytes
      <4>2. VarintBytes[n \div Base] \in Seq(Bytes)
        BY <1>8, <4>1
      <4> HIDE DEF n
      <4> QED
        BY <2>2, <3>2, <4>1, <4>2
    <3> QED
      BY <3>1, <3>2
  <2>4. \A w \in 0..n : w # n => w \in 0..m
    OBVIOUS
  <2>5. \A w \in 0..n : VarintBytes[w] \in Seq(Bytes)
    <3> HIDE DEF n
    <3> QED
      BY <1>8, <2>3, <2>4
  <2> QED
    BY <1>0, <2>5
<1>9. top \in U
  <2> HIDE DEF U
  <2> QED
    BY <1>0, <1>7, <1>8, InductionUpTo
<1> QED
  BY <1>0, <1>6, <1>9

(* What every varint looks like.                                           *)
Shaped(e) ==
  /\ e \in Seq(Bytes) /\ Len(e) \in Nat \ {0}
  /\ \A i \in 1..(Len(e) - 1) : e[i] >= Base
  /\ e[Len(e)] < Base

(* Induction up to a number, from all that are smaller.                    *)
LEMMA StrongInduction ==
  ASSUME NEW n \in Nat, NEW T,
         \A k \in 0..n : (\A j \in 0..n : j < k => j \in T) => k \in T
  PROVE  0..n \subseteq T
<1> DEFINE U == {k \in 0..n : \A j \in 0..k : j \in T}
<1>1. 0 \in U
  <2>1. 0 \in T
    OBVIOUS
  <2> QED
    BY <2>1
<1>2. ASSUME NEW k \in 0..(n - 1), k \in U PROVE k + 1 \in U
  <2>1. \A j \in 0..n : j < k + 1 => j \in T
    BY <1>2
  <2>2. k + 1 \in T /\ k + 1 \in 0..n
    BY <2>1
  <2>3. \A j \in 0..(k + 1) : j = k + 1 \/ j \in 0..k
    OBVIOUS
  <2> QED
    BY <1>2, <2>2, <2>3
<1>3. 0..n \subseteq U
  <2> HIDE DEF U
  <2> QED
    BY <1>1, <1>2, InductionUpTo
<1> QED
  BY <1>3

(* Induction over words.                                                   *)
LEMMA WordInduction ==
  ASSUME NEW T, \A w \in Words : (\A v \in Words : v < w => v \in T) => w \in T
  PROVE  Words \subseteq T
<1>0. PICK top \in Nat : Words = 0..top
  BY WordFacts
<1>2. \A k \in 0..top : (\A j \in 0..top : j < k => j \in T) => k \in T
  BY <1>0
<1> QED
  BY <1>0, <1>2, StrongInduction

(* A varint is one byte, or one byte and the varint of the rest.           *)
LEMMA VarintCases ==
  ASSUME NEW w \in Words
  PROVE  /\ w < Base => VarintBytes[w] = <<w>> /\ w \in Bytes
         /\ ~(w < Base) =>
              /\ w \div Base \in Words /\ w \div Base < w /\ w \div Base > 0
              /\ (w % Base) + Base \in Bytes
              /\ VarintBytes[w] = <<(w % Base) + Base>> \o VarintBytes[w \div Base]
              /\ VarintBytes[w \div Base] \in Seq(Bytes)
<1>1. VarintBytes[w] = IF w < Base THEN <<w>> ELSE <<(w % Base) + Base>> \o VarintBytes[w \div Base]
  BY VarintBytesIs
<1>2. w < Base => w \in Bytes
  BY WordFacts DEF Bytes
<1>3. ~(w < Base) => w \div Base \in Words /\ w \div Base < w /\ w \div Base > 0
  BY WordFacts
<1>4. (w % Base) + Base \in Bytes
  BY WordFacts DEF Bytes
<1>5. ~(w < Base) => VarintBytes[w \div Base] \in Seq(Bytes)
  BY <1>3, VarintBytesIs
<1> QED
  BY <1>1, <1>2, <1>3, <1>4, <1>5

(* A sequence with one more element in front.                              *)
LEMMA ConsFacts ==
  ASSUME NEW S, NEW b \in S, NEW s \in Seq(S)
  PROVE  /\ <<b>> \o s \in Seq(S) /\ Len(<<b>> \o s) = Len(s) + 1
         /\ (<<b>> \o s)[1] = b
         /\ \A i \in 1..Len(s) : (<<b>> \o s)[i + 1] = s[i]
<1>1. <<b>> \in Seq(S) /\ Len(<<b>>) = 1
  OBVIOUS
<1>2. Len(s) \in Nat
  OBVIOUS
<1>3. /\ <<b>> \o s \in Seq(S) /\ Len(<<b>> \o s) = Len(<<b>>) + Len(s)
      /\ \A i \in 1..(Len(<<b>>) + Len(s)) : (<<b>> \o s)[i] = IF i <= Len(<<b>>) THEN <<b>>[i] ELSE s[i - Len(<<b>>)]
  BY <1>1, ConcatProperties
<1> QED
  BY <1>1, <1>2, <1>3

(* Every varint is of this shape: only its last byte is below the base.    *)
LEMMA VarintShape == \A w \in Words : Shaped(VarintBytes[w])
<1> DEFINE T == {w \in Words : Shaped(VarintBytes[w])}
<1>1. ASSUME NEW w \in Words, \A v \in Words : v < w => v \in T PROVE w \in T
  <2>1. CASE w < Base
    <3>1. VarintBytes[w] = <<w>> /\ w \in Bytes
      BY <2>1, VarintCases
    <3>2. Shaped(<<w>>)
      BY <2>1, <3>1 DEF Shaped
    <3> QED
      BY <3>1, <3>2
  <2>2. CASE ~(w < Base)
    <3> DEFINE e == VarintBytes[w \div Base]
               b == (w % Base) + Base
    <3>1. Shaped(e) /\ b \in Bytes /\ VarintBytes[w] = <<b>> \o e
      BY <1>1, <2>2, VarintCases
    <3>2. b >= Base
      BY WordFacts
    <3> HIDE DEF b, e
    <3>3. e \in Seq(Bytes) /\ Len(e) \in Nat \ {0}
      BY <3>1 DEF Shaped
    <3>4. /\ <<b>> \o e \in Seq(Bytes) /\ Len(<<b>> \o e) = Len(e) + 1
          /\ (<<b>> \o e)[1] = b
          /\ \A i \in 1..Len(e) : (<<b>> \o e)[i + 1] = e[i]
      BY <3>1, <3>3, ConsFacts
    <3>5. (<<b>> \o e)[Len(e) + 1] < Base
      BY <3>1, <3>3, <3>4 DEF Shaped
    <3>6. ASSUME NEW i \in 1..Len(e) PROVE (<<b>> \o e)[i] >= Base
      <4>1. CASE i = 1
        BY <4>1, <3>2, <3>4
      <4>2. CASE i # 1
        <5>1. i - 1 \in 1..Len(e) /\ i - 1 \in 1..(Len(e) - 1) /\ (i - 1) + 1 = i
          BY <4>2, <3>3
        <5>2. (<<b>> \o e)[(i - 1) + 1] = e[i - 1]
          BY <5>1, <3>4
        <5> QED
          BY <5>1, <5>2, <3>1 DEF Shaped
      <4> QED
        BY <4>1, <4>2
    <3>7. Shaped(<<b>> \o e)
      BY <3>3, <3>4, <3>5, <3>6 DEF Shaped
    <3> QED
      BY <3>1, <3>7
  <2> QED
    BY <2>1, <2>2
<1> HIDE DEF T
<1>2. Words \subseteq T
  BY <1>1, WordInduction
<1> QED
  BY <1>2 DEF T

(* Powers grow with their exponent.                                        *)
LEMMA PowerMonotone ==
  \A a, b \in 0..(Width + Group) : a <= b => 2 ^ a <= 2 ^ b
<1> DEFINE top == Width + Group
<1> SUFFICES ASSUME NEW a \in 0..top PROVE \A b \in 0..top : a <= b => 2 ^ a <= 2 ^ b
  OBVIOUS
<1>0. top \in Nat
  BY CodecAssumption
<1> DEFINE T == {b \in 0..top : a <= b => 2 ^ a <= 2 ^ b}
<1>1. 0 \in T
  <2>1. a <= 0 => a = 0
    BY <1>0
  <2>2. a = 0 => 2 ^ a = 2 ^ 0
    BY Zenon
  <2>3. a = 0 => 2 ^ a <= 2 ^ 0
    BY <2>2
  <2> QED
    BY <1>0, <2>1, <2>3
<1>2. ASSUME NEW b \in 0..(top - 1), b \in T PROVE b + 1 \in T
  <2>1. 2 ^ (b + 1) = 2 * 2 ^ b /\ 2 ^ b \in Nat /\ 2 ^ a \in Nat /\ b \in Int /\ b + 1 \in 0..top
    BY <1>0, PowerFacts, CodecAssumption
  <2>2. CASE a <= b
    BY <1>2, <2>1, <2>2
  <2>3. CASE ~(a <= b)
    <3>1. a <= b + 1 => a = b + 1
      BY <2>1, <2>3
    <3> QED
      BY <2>1, <3>1
  <2> QED
    BY <2>2, <2>3
<1> HIDE DEF T, top
<1>3. 0..top \subseteq T
  BY <1>0, <1>1, <1>2, InductionUpTo
<1> QED
  BY <1>3 DEF T

(* The number of bits of a word.                                           *)
HasBits(w, n) == n \in 0..Width /\ w < 2 ^ n /\ (n = 0 \/ w >= 2 ^ (n - 1))

(* Every word has a number of bits, ...                                    *)
LEMMA BitsExist ==
  \A w \in Words : \E n \in 0..Width : HasBits(w, n)
<1> TAKE w \in Words
<1> DEFINE T == {n \in 0..Width : w < 2 ^ n}
<1>1. Width \in T /\ T \in SUBSET Nat
  BY WordFacts, CodecAssumption
<1>2. PICK n \in T : \A y \in T : n <= y
  BY <1>1, Least
<1>3. CASE n = 0
  BY <1>2, <1>3 DEF HasBits
<1>4. CASE n # 0
  <2>0. n \in 0..Width
    BY <1>2
  <2>1. n - 1 \in 0..Width /\ n - 1 \notin T
    <3> HIDE DEF T
    <3> QED
      BY <1>2, <1>4, <2>0, CodecAssumption
  <2>2. 2 ^ (n - 1) \in Nat /\ w \in Nat
    BY <2>1, PowerFacts, WordFacts, CodecAssumption
  <2> QED
    BY <1>2, <2>1, <2>2 DEF HasBits
<1> QED
  BY <1>3, <1>4

(* ... and only one.                                                       *)
LEMMA BitsUnique ==
  ASSUME NEW w \in Words, NEW m, NEW n, HasBits(w, m), HasBits(w, n)
  PROVE  m = n
<1>1. ASSUME NEW a \in 0..Width, NEW b \in 0..Width, HasBits(w, a), HasBits(w, b), a < b PROVE FALSE
  <2>1. b - 1 \in 0..Width /\ a <= b - 1
    BY <1>1, CodecAssumption
  <2>2. 2 ^ a <= 2 ^ (b - 1) /\ 2 ^ a \in Nat /\ 2 ^ (b - 1) \in Nat /\ w \in Nat
    BY <2>1, PowerMonotone, PowerFacts, WordFacts, CodecAssumption, SMTT(30)
  <2> QED
    BY <1>1, <2>2 DEF HasBits
<1>2. m \in 0..Width /\ n \in 0..Width
  BY DEF HasBits
<1> QED
  BY <1>1, <1>2, CodecAssumption

(* How many groups a number of bits takes.                                 *)
LEMMA DivFacts ==
  ASSUME NEW n \in Nat, n >= 1
  PROVE  /\ n <= Group => (n + Group - 1) \div Group = 1
         /\ n > Group => (n + Group - 1) \div Group = ((n - Group) + Group - 1) \div Group + 1
         /\ \A m \in Nat : n <= m => (n + Group - 1) \div Group <= (m + Group - 1) \div Group
<1>1. Group \in Nat /\ Group > 0
  BY CodecAssumption
<1> QED
  BY <1>1

(* A varint has as many bytes as its bits have groups.                     *)
LEMMA VarintLength ==
  \A w \in Words : \A n \in 1..Width : HasBits(w, n) => Len(VarintBytes[w]) = (n + Group - 1) \div Group
<1> DEFINE T == {w \in Words : \A n \in 1..Width : HasBits(w, n) =>
                   Len(VarintBytes[w]) = (n + Group - 1) \div Group}
<1>1. ASSUME NEW w \in Words, \A v \in Words : v < w => v \in T PROVE w \in T
  <2> SUFFICES ASSUME NEW n \in 1..Width, HasBits(w, n)
               PROVE  Len(VarintBytes[w]) = (n + Group - 1) \div Group
    OBVIOUS
  <2>0. /\ Group \in Nat \ {0} /\ Width \in Nat /\ w \in Nat
        /\ \A k \in 0..Width : 2 ^ k \in Nat \ {0}
    BY CodecAssumption, WordFacts, PowerFacts
  <2>1. w < 2 ^ n /\ w >= 2 ^ (n - 1) /\ n \in 0..Width /\ n - 1 \in 0..Width
    BY CodecAssumption DEF HasBits
  <2>2. CASE w < Base
    <3>1. n <= Group
      <4> SUFFICES ASSUME n > Group PROVE FALSE
        BY <2>0
      <4>1. Group \in 0..Width /\ Group <= n - 1
        BY <2>0, <2>1
      <4>2. 2 ^ Group <= 2 ^ (n - 1)
        BY <4>1, <2>0, <2>1, PowerMonotone
      <4> QED
        BY <4>1, <4>2, <2>0, <2>1, <2>2 DEF Base
    <3>2. Len(VarintBytes[w]) = 1
      <4>1. VarintBytes[w] = <<w>>
        BY <2>2, VarintCases
      <4> QED
        BY <4>1
    <3> QED
      BY <3>1, <3>2, DivFacts
  <2>3. CASE ~(w < Base)
    <3> DEFINE v == w \div Base
    <3>1. v \in Words /\ v < w /\ v > 0 /\ Len(VarintBytes[w]) = Len(VarintBytes[v]) + 1
      <4> DEFINE b == (w % Base) + Base
      <4>1. /\ v \in Words /\ v < w /\ v > 0 /\ b \in Bytes
            /\ VarintBytes[w] = <<b>> \o VarintBytes[v] /\ VarintBytes[v] \in Seq(Bytes)
        BY <2>3, VarintCases
      <4> HIDE DEF b, v
      <4> QED
        BY <4>1, ConsFacts
    <3>2. n > Group
      <4> SUFFICES ASSUME n <= Group PROVE FALSE
        BY <2>0
      <4>1. 2 ^ n <= 2 ^ Group
        <5>1. n \in 0..(Width + Group) /\ Group \in 0..(Width + Group)
          BY <2>0
        <5> QED
          BY <5>1, PowerMonotone
      <4> QED
        BY <4>1, <2>0, <2>1, <2>3, WordFacts DEF Base
    <3>3. n - Group \in 1..Width /\ n - Group \in 0..Width /\ (n - Group) + Group = n
      BY <3>2, <2>0
    <3>4. 2 ^ n = Base * 2 ^ (n - Group)
      BY <3>3, PowerSum
    <3>5. 2 ^ (n - 1) = Base * 2 ^ ((n - Group) - 1)
      <4>1. (n - Group) - 1 \in 0..Width /\ ((n - Group) - 1) + Group = n - 1
        BY <3>3, <2>0
      <4> QED
        BY <4>1, PowerSum
    <3>6. w = Base * v + (w % Base) /\ w % Base \in 0..(Base - 1) /\ Base \in Nat /\ Base > 1
      BY WordFacts
    <3>7. v < 2 ^ (n - Group)
      <4> SUFFICES ASSUME v >= 2 ^ (n - Group) PROVE FALSE
        BY <3>1, <3>3, <2>0, WordFacts
      <4> HIDE DEF v
      <4>1. v \in Nat /\ 2 ^ (n - Group) \in Nat
        BY <3>1, <3>3, <2>0, WordFacts
      <4>2. Base * v >= Base * 2 ^ (n - Group)
        BY <4>1, <3>6
      <4> QED
        BY <4>1, <4>2, <3>4, <3>6, <2>0, <2>1
    <3>8. v >= 2 ^ ((n - Group) - 1)
      <4> DEFINE p == 2 ^ ((n - Group) - 1)
      <4>1. p \in Nat /\ v \in Nat
        BY <3>1, <3>3, <2>0, WordFacts
      <4> SUFFICES ASSUME v + 1 <= p PROVE FALSE
        BY <4>1
      <4>3. Base * p <= w
        BY <3>5, <2>1
      <4> HIDE DEF p, v
      <4>2. Base * (v + 1) <= Base * p /\ Base * (v + 1) = Base * v + Base
        BY <4>1, <3>6
      <4> QED
        BY <4>1, <4>2, <4>3, <3>6, <2>0
    <3>9. HasBits(v, n - Group)
      BY <3>3, <3>7, <3>8 DEF HasBits
    <3>10. Len(VarintBytes[v]) = ((n - Group) + Group - 1) \div Group
      BY <1>1, <3>1, <3>3, <3>9
    <3> QED
      BY <3>1, <3>2, <3>10, DivFacts
  <2> QED
    BY <2>2, <2>3
<1> HIDE DEF T
<1>2. Words \subseteq T
  BY <1>1, WordInduction
<1> QED
  BY <1>2 DEF T

(* The length that SizeMUS and the router charge for a varint is the number*)
(* of bytes that are written, and never more than MaxVarintBytes.          *)
THEOREM VarintLenIs ==
  \A w \in Words : VarintLen(w) = Len(VarintBytes[w]) /\ Len(VarintBytes[w]) <= MaxVarintBytes
<1> TAKE w \in Words
<1>0. Group \in Nat \ {0} /\ Width \in Nat \ {0} /\ w \in Nat
  BY CodecAssumption, WordFacts
<1>1. PICK n \in 0..Width : HasBits(w, n)
  BY BitsExist
<1>2. CASE w = 0
  <2>1. Len(VarintBytes[w]) = 1
    <3>1. w < Base
      BY <1>2, WordFacts
    <3>2. VarintBytes[w] = <<w>>
      BY <3>1, VarintCases
    <3> QED
      BY <3>2
  <2>2. MaxVarintBytes >= 1
    BY <1>0 DEF MaxVarintBytes
  <2> QED
    BY <1>2, <2>1, <2>2 DEF VarintLen
<1>3. CASE w # 0
  <2>1. n \in 1..Width
    <3>1. n # 0
      <4> SUFFICES ASSUME n = 0 PROVE FALSE
        OBVIOUS
      <4>1. w < 2 ^ 0
        BY <1>1 DEF HasBits
      <4> QED
        BY <4>1, <1>0, <1>3, PowerFacts
    <3> QED
      BY <3>1, <1>0
  <2>2. Len(VarintBytes[w]) = (n + Group - 1) \div Group
    BY <1>1, <2>1, VarintLength
  <2> DEFINE bits == CHOOSE k \in 0..Width : w < 2 ^ k /\ (k = 0 \/ w >= 2 ^ (k - 1))
  <2>3. HasBits(w, bits)
    BY <1>1 DEF HasBits
  <2>4. bits = n
    <3> HIDE DEF bits
    <3> QED
      BY <1>1, <2>3, BitsUnique
  <2>5. VarintLen(w) = (bits + Group - 1) \div Group
    BY <1>3 DEF VarintLen
  <2>6. (n + Group - 1) \div Group <= MaxVarintBytes
    BY <1>0, <2>1, DivFacts DEF MaxVarintBytes
  <2> QED
    BY <2>2, <2>4, <2>5, <2>6
<1> QED
  BY <1>2, <1>3

(* Remainders of what is smaller, and of what is one base larger.          *)
LEMMA ModFacts ==
  ASSUME NEW b \in Nat, b > 0
  PROVE  /\ \A a \in Nat : a % b \in 0..(b - 1) /\ (a < b => a % b = a)
         /\ \A a \in 0..(b - 1) : (a + b) % b = a
OBVIOUS

(* The payload of a byte with and without its continuation bit.            *)
LEMMA ByteFacts ==
  /\ \A b \in Bytes : b \in Nat /\ b % Base \in Nat
  /\ \A w \in Nat : w < Base => w % Base = w
  /\ \A w \in Words : w % Base \in Nat /\ ((w % Base) + Base) % Base = w % Base
  /\ \A w \in Words : w % (2 ^ Width) = w
  /\ \A n \in Nat : n % (2 ^ Width) \in Words
<1>1. Base \in Nat /\ Base > 0
  BY WordFacts
<1>2. \A b \in Bytes : b \in Nat
  BY <1>1 DEF Bytes
<1>3. \A n \in Nat : n % Base \in 0..(Base - 1) /\ (n < Base => n % Base = n)
  BY <1>1, ModFacts
<1>4. \A n \in 0..(Base - 1) : (n + Base) % Base = n
  BY <1>1, ModFacts
<1>5. PICK m \in Nat : m = 2 ^ Width /\ m > 0 /\ Words = 0..(m - 1)
  BY WordFacts
<1>6. \A n \in Nat : n % m \in 0..(m - 1) /\ (n < m => n % m = n)
  BY <1>5, ModFacts
<1>7. \A w \in Words : w \in Nat /\ w < m
  BY <1>5
<1>8. \A w \in Words : w % Base \in Nat /\ ((w % Base) + Base) % Base = w % Base
  <2> TAKE w \in Words
  <2>1. PICK x \in 0..(Base - 1) : x = w % Base
    BY <1>3, <1>7
  <2>2. (x + Base) % Base = x
    BY <1>4
  <2> QED
    BY <2>1, <2>2
<1>9. \A w \in Words : w % m = w
  BY <1>6, <1>7
<1>10. \A n \in Nat : n % m \in Words
  BY <1>5, <1>6
<1>11. \A b \in Bytes : b % Base \in Nat
  BY <1>1, <1>2, <1>3
<1> QED
  BY <1>2, <1>3, <1>5, <1>8, <1>9, <1>10, <1>11

(* The smaller of two.                                                     *)
LEMMA MinOfTwo ==
  ASSUME NEW a \in Nat, NEW b \in Nat
  PROVE  /\ Min({a, b}) \in Nat /\ Min({a, b}) <= a /\ Min({a, b}) <= b
         /\ Min({a, b}) \in {a, b}
<1>1. {a, b} \in SUBSET Nat /\ {a, b} # {}
  OBVIOUS
<1>2. Min({a, b}) \in {a, b} /\ \A y \in {a, b} : Min({a, b}) <= y
  BY <1>1, MinFacts
<1> QED
  BY <1>2

(* The groups of a varint, joined from the last one back to one at lo.     *)
JoinedFrom(f, r, n, lo) ==
  /\ f \in [lo..n -> Nat]
  /\ \A i \in lo..n : f[i] = (r[i] % Base) + IF i = n THEN 0 ELSE Base * f[i + 1]

(* A joint of groups extends by one more group in front.                   *)
LEMMA JoinedStep ==
  ASSUME NEW r \in Seq(Bytes), NEW n \in 1..Len(r), NEW lo \in 2..n, NEW f, JoinedFrom(f, r, n, lo)
  PROVE  \E g : JoinedFrom(g, r, n, lo - 1)
<1> DEFINE l == lo - 1
           g == [i \in l..n |-> IF i = l THEN (r[l] % Base) + Base * f[lo] ELSE f[i]]
<1>0. n \in Nat /\ lo \in Nat /\ l \in 1..n /\ l # n /\ l + 1 = lo
  OBVIOUS
<1>1. \A i \in l..n : i # l => i \in lo..n
  BY <1>0
<1>2. r[l] \in Nat /\ r[l] % Base \in Nat
  <2>1. l \in 1..Len(r)
    BY <1>0
  <2>2. r[l] \in Bytes
    BY <2>1
  <2> QED
    BY <2>2, WordFacts, SMTT(30) DEF Bytes
<1>3. f \in [lo..n -> Nat] /\ f[lo] \in Nat
  BY <1>0 DEF JoinedFrom
<1>4. Base * f[lo] \in Nat
  BY <1>3, WordFacts
<1>5. g \in [l..n -> Nat]
  BY <1>1, <1>2, <1>3, <1>4
<1>6. ASSUME NEW i \in l..n
      PROVE  g[i] = (r[i] % Base) + IF i = n THEN 0 ELSE Base * g[i + 1]
  <2>1. CASE i = l
    <3>1. g[l] = (r[l] % Base) + Base * f[lo] /\ g[l + 1] = f[lo]
      BY <1>0
    <3> HIDE DEF g
    <3> QED
      BY <1>0, <2>1, <3>1
  <2>2. CASE i # l
    <3>1. i \in lo..n /\ g[i] = f[i] /\ (i # n => i + 1 \in lo..n /\ g[i + 1] = f[i + 1])
      BY <1>0, <1>1, <2>2
    <3>2. f[i] = (r[i] % Base) + IF i = n THEN 0 ELSE Base * f[i + 1]
      BY <3>1 DEF JoinedFrom
    <3> HIDE DEF g
    <3> QED
      BY <3>1, <3>2
  <2> QED
    BY <2>1, <2>2
<1>7. JoinedFrom(g, r, n, l)
  <2> HIDE DEF g, l
  <2> QED
    BY <1>5, <1>6 DEF JoinedFrom
<1> QED
  BY <1>7

(* Joined is the first value of such a joint.                              *)
LEMMA JoinedIs ==
  ASSUME NEW r \in Seq(Bytes), NEW n \in 1..Len(r)
  PROVE  \E f : JoinedFrom(f, r, n, 1) /\ Joined(r, n) = f[1]
<1>0. n \in Nat /\ n >= 1
  OBVIOUS
<1> DEFINE T == {k \in 0..(n - 1) : \E f : JoinedFrom(f, r, n, n - k)}
<1>1. 0 \in T
  <2> DEFINE f == [i \in n..n |-> r[n] % Base]
  <2>1. r[n] \in Bytes
    OBVIOUS
  <2>2. r[n] % Base \in Nat
    BY <2>1, ByteFacts
  <2>3. JoinedFrom(f, r, n, n)
    BY <2>2 DEF JoinedFrom
  <2> HIDE DEF f
  <2> QED
    BY <2>3
<1>2. ASSUME NEW k \in 0..((n - 1) - 1), k \in T PROVE k + 1 \in T
  <2>1. PICK f : JoinedFrom(f, r, n, n - k)
    BY <1>2
  <2>2. n - k \in 2..n
    BY <1>0
  <2>3. \E g : JoinedFrom(g, r, n, (n - k) - 1)
    BY <2>1, <2>2, JoinedStep
  <2>4. (n - k) - 1 = n - (k + 1)
    BY <1>0
  <2> QED
    BY <1>0, <2>3, <2>4
<1> HIDE DEF T
<1>3. n - 1 \in T
  <2>1. n - 1 \in Nat
    BY <1>0
  <2>2. 0..(n - 1) \subseteq T
    BY <2>1, <1>1, <1>2, InductionUpTo
  <2> QED
    BY <2>1, <2>2
<1>4. PICK f : JoinedFrom(f, r, n, 1)
  BY <1>3 DEF T
<1>5. f = [i \in 1..n |-> (r[i] % Base) + IF i = n THEN 0 ELSE Base * f[i + 1]]
  BY <1>4 DEF JoinedFrom
<1> DEFINE Fix == CHOOSE from : from = [i \in 1..n |-> (r[i] % Base) + IF i = n THEN 0 ELSE Base * from[i + 1]]
<1>6. Fix = [i \in 1..n |-> (r[i] % Base) + IF i = n THEN 0 ELSE Base * Fix[i + 1]]
  BY <1>5
<1>7. Joined(r, n) = Fix[1]
  BY DEF Joined
<1> HIDE DEF Fix
<1> DEFINE U == {k \in 0..(n - 1) : Fix[n - k] = f[n - k]}
<1>8. 0 \in U
  <2>1. Fix[n] = f[n]
    BY <1>0, <1>5, <1>6
  <2> QED
    BY <1>0, <2>1
<1>9. ASSUME NEW k \in 0..((n - 1) - 1), k \in U PROVE k + 1 \in U
  <2>1. n - (k + 1) \in 1..n /\ n - (k + 1) # n /\ (n - (k + 1)) + 1 = n - k
    BY <1>0
  <2>2. Fix[n - (k + 1)] = (r[n - (k + 1)] % Base) + Base * Fix[(n - (k + 1)) + 1]
    BY <1>6, <2>1
  <2>3. f[n - (k + 1)] = (r[n - (k + 1)] % Base) + Base * f[(n - (k + 1)) + 1]
    BY <1>5, <2>1
  <2> QED
    BY <1>0, <1>9, <2>1, <2>2, <2>3
<1> HIDE DEF U
<1>10. n - 1 \in U
  <2>1. n - 1 \in Nat
    BY <1>0
  <2>2. 0..(n - 1) \subseteq U
    BY <2>1, <1>8, <1>9, InductionUpTo
  <2> QED
    BY <2>1, <2>2
<1>11. Fix[1] = f[1]
  <2>1. n - (n - 1) = 1
    BY <1>0
  <2> QED
    BY <1>10, <2>1 DEF U
<1> QED
  BY <1>4, <1>7, <1>11

(* The varint of w stands in the first n bytes, after k of them.           *)
StandsAt(r, n, w, k) ==
  /\ k + Len(VarintBytes[w]) = n
  /\ \A i \in 1..Len(VarintBytes[w]) : r[k + i] = VarintBytes[w][i]

(* The bytes of a varint, wherever they stand, join to the word.           *)
LEMMA JoinedWord ==
  ASSUME NEW r \in Seq(Bytes), NEW n \in 1..Len(r), NEW f, JoinedFrom(f, r, n, 1)
  PROVE  \A w \in Words : \A k \in 0..(n - 1) : StandsAt(r, n, w, k) => f[k + 1] = w
<1> DEFINE Here(w, k) == /\ k + Len(VarintBytes[w]) = n
                         /\ \A i \in 1..Len(VarintBytes[w]) : r[k + i] = VarintBytes[w][i]
           T == {w \in Words : \A k \in 0..(n - 1) : Here(w, k) => f[k + 1] = w}
<1>0. n \in Nat /\ n >= 1
  OBVIOUS
<1>1. ASSUME NEW w \in Words, \A v \in Words : v < w => v \in T PROVE w \in T
  <2> SUFFICES ASSUME NEW k \in 0..(n - 1), Here(w, k) PROVE f[k + 1] = w
    OBVIOUS
  <2>0. w \in Nat /\ k + 1 \in 1..n
    BY <1>0, WordFacts
  <2>1. f[k + 1] = (r[k + 1] % Base) + IF k + 1 = n THEN 0 ELSE Base * f[(k + 1) + 1]
    BY <2>0 DEF JoinedFrom
  <2>2. CASE w < Base
    <3>1. VarintBytes[w] = <<w>>
      BY <2>2, VarintCases
    <3>2. Len(VarintBytes[w]) = 1 /\ VarintBytes[w][1] = w
      BY <3>1
    <3>3. k + 1 = n /\ r[k + 1] = w
      BY <3>2
    <3>4. w % Base = w
      BY <2>0, <2>2, ByteFacts
    <3> QED
      BY <2>0, <2>1, <3>3, <3>4
  <2>3. CASE ~(w < Base)
    <3> DEFINE v == w \div Base
               b == (w % Base) + Base
               e == VarintBytes[v]
    <3>1. v \in Words /\ v < w /\ b \in Bytes /\ e \in Seq(Bytes) /\ VarintBytes[w] = <<b>> \o e
      BY <2>3, VarintCases
    <3>2. Len(e) \in Nat \ {0}
      BY <3>1, VarintShape DEF Shaped
    <3>3. b % Base = w % Base /\ w = Base * v + (w % Base) /\ w % Base \in Nat
      <4>1. w = Base * v + (w % Base)
        BY WordFacts
      <4>2. b % Base = w % Base /\ w % Base \in Nat
        BY ByteFacts
      <4> HIDE DEF b, v
      <4> QED
        BY <4>1, <4>2
    <3> HIDE DEF v, b, e
    <3>4. /\ Len(VarintBytes[w]) = Len(e) + 1 /\ VarintBytes[w][1] = b
          /\ \A i \in 1..Len(e) : VarintBytes[w][i + 1] = e[i]
      BY <3>1, ConsFacts
    <3>5. r[k + 1] = b /\ k + 1 # n
      BY <2>0, <3>2, <3>4
    <3>6. Here(v, k + 1)
      <4>1. (k + 1) + Len(e) = n
        BY <2>0, <3>2, <3>4
      <4>2. ASSUME NEW i \in 1..Len(e) PROVE r[(k + 1) + i] = e[i]
        <5>1. i + 1 \in 1..Len(VarintBytes[w]) /\ k + (i + 1) = (k + 1) + i
          BY <2>0, <3>2, <3>4
        <5>2. r[k + (i + 1)] = VarintBytes[w][i + 1]
          BY <5>1
        <5> QED
          BY <5>1, <5>2, <3>4
      <4> QED
        BY <4>1, <4>2 DEF e
    <3>7. k + 1 \in 0..(n - 1)
      BY <2>0, <3>5
    <3>8. f[(k + 1) + 1] = v
      <4>1. v \in T
        BY <1>1, <3>1
      <4> HIDE DEF Here
      <4> QED
        BY <4>1, <3>6, <3>7
    <3>9. v \in Nat /\ Base * v \in Nat
      BY <3>1, WordFacts
    <3> QED
      BY <2>0, <2>1, <3>3, <3>5, <3>8, <3>9
  <2> QED
    BY <2>2, <2>3
<1> HIDE DEF T
<1>2. Words \subseteq T
  BY <1>1, WordInduction
<1> QED
  BY <1>2 DEF T, StandsAt

(* The bytes of a varint, wherever they stand, join to its word.           *)
LEMMA JoinedHead ==
  ASSUME NEW r \in Seq(Bytes), NEW w \in Words, Len(VarintBytes[w]) \in 1..Len(r),
         \A i \in 1..Len(VarintBytes[w]) : r[i] = VarintBytes[w][i]
  PROVE  Joined(r, Len(VarintBytes[w])) = w
<1>0. PICK n \in 1..Len(r) : n = Len(VarintBytes[w])
  OBVIOUS
<1>1. PICK f : JoinedFrom(f, r, n, 1) /\ Joined(r, n) = f[1]
  BY JoinedIs
<1>2. \A u \in Words : \A k \in 0..(n - 1) : StandsAt(r, n, u, k) => f[k + 1] = u
  BY <1>1, JoinedWord
<1>3. 0 \in 0..(n - 1) /\ 0 + n = n
  OBVIOUS
<1>4. StandsAt(r, n, w, 0)
  BY <1>0 DEF StandsAt
<1>5. f[0 + 1] = w
  BY <1>2, <1>3, <1>4
<1> QED
  BY <1>0, <1>1, <1>5

-----------------------------------------------------------------------------
(* Sequences that begin with another.                                      *)

(* A prefix of two strings of bytes is a prefix of the first, or the first *)
(* with a prefix of the second.                                            *)
LEMMA Split ==
  ASSUME NEW S, NEW a \in Seq(S), NEW b \in Seq(S)
  PROVE  /\ a \o b \in Seq(S) /\ Len(a \o b) = Len(a) + Len(b)
         /\ Len(a) \in Nat /\ Len(b) \in Nat
         /\ \A i \in 1..Len(a) : (a \o b)[i] = a[i]
         /\ \A i \in 1..Len(b) : (a \o b)[Len(a) + i] = b[i]
         /\ SubSeq(a \o b, 1, Len(a)) = a
         /\ SubSeq(a \o b, Len(a) + 1, Len(a \o b)) = b
<1>0. Len(a) \in Nat /\ Len(b) \in Nat
  OBVIOUS
<1>1. /\ a \o b \in Seq(S) /\ Len(a \o b) = Len(a) + Len(b)
      /\ \A i \in 1..(Len(a) + Len(b)) : (a \o b)[i] = IF i <= Len(a) THEN a[i] ELSE b[i - Len(a)]
  BY ConcatProperties
<1>2. \A i \in 1..Len(a) : (a \o b)[i] = a[i]
  BY <1>0, <1>1
<1>3. \A i \in 1..Len(b) : (a \o b)[Len(a) + i] = b[i]
  BY <1>0, <1>1
<1> DEFINE c == a \o b
<1>4. \A i \in 1..Len(c) : c[i] \in S
  BY <1>1
<1> HIDE DEF c
<1>5. SubSeq(c, 1, Len(a)) = a
  <2>1. \A i \in 1..Len(a) : c[i] \in S
    BY <1>0, <1>1, <1>4 DEF c
  <2>2. /\ SubSeq(c, 1, Len(a)) \in Seq(S) /\ Len(SubSeq(c, 1, Len(a))) = Len(a)
        /\ \A i \in 1..Len(a) : SubSeq(c, 1, Len(a))[i] = c[i]
    <3>1. /\ SubSeq(c, 1, Len(a)) \in Seq(S)
          /\ Len(SubSeq(c, 1, Len(a))) = IF 1 <= Len(a) THEN Len(a) - 1 + 1 ELSE 0
          /\ \A i \in 1..(Len(a) - 1 + 1) : SubSeq(c, 1, Len(a))[i] = c[1 + i - 1]
      BY <1>0, <2>1, SubSeqProperties
    <3> QED
      BY <1>0, <3>1
  <2>3. \A i \in 1..Len(SubSeq(c, 1, Len(a))) : SubSeq(c, 1, Len(a))[i] = a[i]
    BY <1>2, <2>2 DEF c
  <2> QED
    BY <2>2, <2>3, SeqEqual
<1>6. SubSeq(c, Len(a) + 1, Len(c)) = b
  <2>0. Len(c) = Len(a) + Len(b) /\ Len(c) \in Nat
    BY <1>0, <1>1 DEF c
  <2>1. \A i \in (Len(a) + 1)..Len(c) : c[i] \in S
    BY <1>0, <1>4
  <2> DEFINE d == SubSeq(c, Len(a) + 1, Len(c))
  <2>2. /\ d \in Seq(S) /\ Len(d) = Len(b)
        /\ \A i \in 1..Len(b) : d[i] = c[Len(a) + i]
    <3>1. /\ d \in Seq(S)
          /\ Len(d) = IF Len(a) + 1 <= Len(c) THEN Len(c) - (Len(a) + 1) + 1 ELSE 0
          /\ \A i \in 1..(Len(c) - (Len(a) + 1) + 1) : d[i] = c[(Len(a) + 1) + i - 1]
      BY <1>0, <2>0, <2>1, SubSeqProperties
    <3> HIDE DEF d
    <3> QED
      BY <1>0, <2>0, <3>1
  <2> HIDE DEF d
  <2>3. \A i \in 1..Len(d) : d[i] = b[i]
    BY <1>3, <2>2 DEF c
  <2>4. d = b
    BY <2>2, <2>3, SeqEqual
  <2> QED
    BY <2>4 DEF d
<1> QED
  BY <1>0, <1>1, <1>2, <1>3, <1>5, <1>6 DEF c

(* A sequence is the concatenation of two if it has their elements.        *)
LEMMA IsConcat ==
  ASSUME NEW S, NEW a \in Seq(S), NEW b \in Seq(S), NEW d \in Seq(S),
         Len(d) = Len(a) + Len(b),
         \A i \in 1..Len(a) : d[i] = a[i],
         \A i \in 1..Len(b) : d[Len(a) + i] = b[i]
  PROVE  d = a \o b
<1>0. Len(a) \in Nat /\ Len(b) \in Nat
  OBVIOUS
<1>1. a \o b \in Seq(S) /\ Len(a \o b) = Len(a) + Len(b)
  BY Split
<1>2. ASSUME NEW i \in 1..Len(d) PROVE d[i] = (a \o b)[i]
  <2>0. i \in Nat
    BY <1>0
  <2>1. CASE i <= Len(a)
    <3>1. i \in 1..Len(a)
      BY <1>0, <2>0, <2>1
    <3>2. (a \o b)[i] = a[i]
      BY <3>1, Split
    <3> QED
      BY <3>1, <3>2
  <2>2. CASE ~(i <= Len(a))
    <3>1. i - Len(a) \in 1..Len(b) /\ Len(a) + (i - Len(a)) = i
      BY <1>0, <2>0, <2>2
    <3>2. (a \o b)[Len(a) + (i - Len(a))] = b[i - Len(a)]
      BY <3>1, Split
    <3>3. d[Len(a) + (i - Len(a))] = b[i - Len(a)]
      BY <3>1
    <3> QED
      BY <3>1, <3>2, <3>3
  <2> QED
    BY <2>1, <2>2
<1> QED
  BY <1>1, <1>2, SeqEqual

(* Cutting off the end of two sequences cuts the first, or only the second. *)
LEMMA CutOfTwo ==
  ASSUME NEW S, NEW a \in Seq(S), NEW b \in Seq(S), NEW k \in 0..(Len(a) + Len(b) - 1)
  PROVE  \/ k < Len(a) /\ SubSeq(a \o b, 1, k) = SubSeq(a, 1, k) /\ k \in 0..(Len(a) - 1)
         \/ /\ k >= Len(a) /\ k - Len(a) \in 0..(Len(b) - 1)
            /\ SubSeq(a \o b, 1, k) = a \o SubSeq(b, 1, k - Len(a))
<1>0. Len(a) \in Nat /\ Len(b) \in Nat /\ k \in Nat
  OBVIOUS
<1> DEFINE c == a \o b
           d == SubSeq(c, 1, k)
<1>1. /\ c \in Seq(S) /\ Len(c) = Len(a) + Len(b)
      /\ \A i \in 1..Len(a) : c[i] = a[i]
      /\ \A i \in 1..Len(b) : c[Len(a) + i] = b[i]
  BY Split
<1> HIDE DEF c
<1>2. /\ d \in Seq(S) /\ Len(d) = k
      /\ \A i \in 1..k : d[i] = c[i]
  <2>1. \A i \in 1..k : c[i] \in S
    BY <1>0, <1>1
  <2>2. /\ d \in Seq(S) /\ Len(d) = IF 1 <= k THEN k - 1 + 1 ELSE 0
        /\ \A i \in 1..(k - 1 + 1) : d[i] = c[1 + i - 1]
    BY <1>0, <2>1, SubSeqProperties
  <2> HIDE DEF d
  <2> QED
    BY <1>0, <2>2
<1> HIDE DEF d
<1>3. CASE k < Len(a)
  <2> DEFINE e == SubSeq(a, 1, k)
  <2>1. \A i \in 1..k : a[i] \in S
    BY <1>0, <1>3
  <2>2. /\ e \in Seq(S) /\ Len(e) = k /\ \A i \in 1..k : e[i] = a[i]
    <3>1. /\ e \in Seq(S) /\ Len(e) = IF 1 <= k THEN k - 1 + 1 ELSE 0
          /\ \A i \in 1..(k - 1 + 1) : e[i] = a[1 + i - 1]
      BY <1>0, <2>1, SubSeqProperties
    <3> HIDE DEF e
    <3> QED
      BY <1>0, <3>1
  <2> HIDE DEF e
  <2>3. \A i \in 1..Len(d) : d[i] = e[i]
    <3>1. \A i \in 1..k : i \in 1..Len(a)
      BY <1>0, <1>3
    <3> QED
      BY <1>1, <1>2, <2>2, <3>1
  <2>4. d = e
    BY <1>2, <2>2, <2>3, SeqEqual
  <2> QED
    BY <1>0, <1>3, <2>4 DEF d, e, c
<1>4. CASE k >= Len(a)
  <2> DEFINE j == k - Len(a)
             e == SubSeq(b, 1, j)
  <2>0. j \in Nat /\ j < Len(b) /\ k = Len(a) + j
    BY <1>0, <1>4
  <2> HIDE DEF j
  <2>1. \A i \in 1..j : b[i] \in S
    BY <1>0, <2>0
  <2>2. /\ e \in Seq(S) /\ Len(e) = j /\ \A i \in 1..j : e[i] = b[i]
    <3>1. /\ e \in Seq(S) /\ Len(e) = IF 1 <= j THEN j - 1 + 1 ELSE 0
          /\ \A i \in 1..(j - 1 + 1) : e[i] = b[1 + i - 1]
      BY <1>0, <2>0, <2>1, SubSeqProperties
    <3> HIDE DEF e
    <3> QED
      BY <1>0, <2>0, <3>1
  <2> HIDE DEF e
  <2>3. ASSUME NEW i \in 1..Len(e) PROVE d[Len(a) + i] = e[i]
    <3>1. Len(a) + i \in 1..k /\ i \in 1..Len(b) /\ i \in 1..j
      BY <1>0, <2>0, <2>2
    <3> QED
      BY <1>1, <1>2, <2>2, <3>1
  <2>4. \A i \in 1..Len(a) : d[i] = a[i]
    <3>1. \A i \in 1..Len(a) : i \in 1..k
      BY <1>0, <1>4
    <3> QED
      BY <1>1, <1>2, <3>1
  <2>5. d = a \o e
    <3>1. Len(d) = Len(a) + Len(e) /\ e \in Seq(S)
      BY <1>2, <2>0, <2>2
    <3>2. \A i \in 1..Len(e) : d[Len(a) + i] = e[i]
      BY <2>3
    <3> QED
      BY <1>2, <2>4, <3>1, <3>2, IsConcat
  <2>6. j \in 0..(Len(b) - 1)
    BY <2>0, <1>0
  <2> QED
    BY <1>0, <1>4, <2>5, <2>6 DEF d, c, e, j
<1> QED
  BY <1>0, <1>3, <1>4, SMTT(30)

(* What can be said of any read.                                           *)
LEMMA ReadFacts ==
  /\ \A v, rest : Read(v, rest).ok /\ Read(v, rest).val = v /\ Read(v, rest).rest = rest
  /\ \A e : ~Failed(e).ok
BY DEF Read, Failed

(* The room that is made for a read makes it fail in another way at most.  *)
LEMMA AllocatedIs ==
  ASSUME NEW n, NEW x
  PROVE  /\ x.ok => Allocated(n, x) = x
         /\ Allocated(n, x).ok => x.ok
BY ReadFacts DEF Allocated

-----------------------------------------------------------------------------
(* A varint is read as the word that was written, and what follows it is   *)
(* left alone; cut off anywhere, it is not read.                           *)

(* A varint is read as the word that was written, and what follows it is   *)
(* left alone.                                                             *)
THEOREM VarintRoundTrip ==
  ASSUME NEW w \in Words, NEW rest \in Seq(Bytes)
  PROVE  ReadVarint(VarintBytes[w] \o rest) = Read(w, rest)
<1> DEFINE e == VarintBytes[w]
           r == e \o rest
           n == Len(e)
           ends == {i \in 1..Min({MaxVarintBytes, Len(r)}) : r[i] < Base}
<1>1. Shaped(e) /\ n <= MaxVarintBytes
  BY VarintShape, VarintLenIs
<1>2. e \in Seq(Bytes) /\ n \in Nat \ {0} /\ (\A i \in 1..(n - 1) : e[i] >= Base) /\ e[n] < Base
  BY <1>1 DEF Shaped
<1> HIDE DEF e
<1>3. /\ r \in Seq(Bytes) /\ Len(r) = n + Len(rest) /\ Len(rest) \in Nat /\ Len(r) \in Nat
      /\ \A i \in 1..n : r[i] = e[i]
      /\ SubSeq(r, n + 1, Len(r)) = rest
  BY <1>2, Split
<1>4. MaxVarintBytes \in Nat
  BY CodecAssumption DEF MaxVarintBytes
<1> HIDE DEF r, n
<1>5. Min({MaxVarintBytes, Len(r)}) \in Nat /\ Min({MaxVarintBytes, Len(r)}) >= n
      /\ Min({MaxVarintBytes, Len(r)}) <= Len(r)
  <2>1. n <= MaxVarintBytes /\ n <= Len(r) /\ n \in Nat
    BY <1>1, <1>2, <1>3 DEF n, e
  <2>2. /\ Min({MaxVarintBytes, Len(r)}) \in Nat /\ Min({MaxVarintBytes, Len(r)}) <= Len(r)
        /\ Min({MaxVarintBytes, Len(r)}) \in {MaxVarintBytes, Len(r)}
    BY <1>3, <1>4, MinOfTwo
  <2> QED
    BY <2>1, <2>2
<1> DEFINE m == Min({MaxVarintBytes, Len(r)})
<1> HIDE DEF m
<1>6. n \in ends /\ ends \in SUBSET Nat
  <2>1. n \in 1..m
    BY <1>2, <1>5 DEF m
  <2>2. r[n] < Base
    BY <1>2, <1>3
  <2> QED
    BY <2>1, <2>2, <1>5 DEF m
<1>7. \A i \in ends : i >= n
  <2> SUFFICES ASSUME NEW i \in ends, ~(i >= n) PROVE FALSE
    OBVIOUS
  <2>1. i \in Nat /\ i >= 1 /\ r[i] < Base /\ i \in 1..(n - 1) /\ i \in 1..n
    BY <1>2, <1>5 DEF m, n
  <2>2. e[i] \in Nat
    <3>1. e[i] \in Bytes
      BY <1>2, <2>1 DEF n
    <3> QED
      BY <3>1, ByteFacts
  <2>3. e[i] >= Base /\ r[i] = e[i]
    BY <1>2, <1>3, <2>1 DEF n
  <2> QED
    BY <2>1, <2>2, <2>3, WordFacts
<1> HIDE DEF ends
<1>8. ends # {} /\ Min(ends) = n
  <2>1. Min(ends) \in ends /\ Min(ends) <= n
    BY <1>6, MinFacts
  <2>2. Min(ends) >= n /\ Min(ends) \in Nat /\ n \in Nat
    BY <1>6, <1>7, <2>1
  <2> QED
    BY <1>6, <2>1, <2>2
<1>9. n \in 1..Len(r)
  BY <1>2, <1>3
<1>10. Joined(r, n) = w
  <2>1. /\ Len(VarintBytes[w]) \in 1..Len(r) /\ Len(VarintBytes[w]) = n
        /\ \A i \in 1..Len(VarintBytes[w]) : r[i] = VarintBytes[w][i]
    BY <1>3, <1>9 DEF n, e
  <2> QED
    BY <1>3, <2>1, JoinedHead
<1>11. w % (2 ^ Width) = w
  BY ByteFacts
<1>12. ReadVarint(r) = Read(Joined(r, n) % (2 ^ Width), SubSeq(r, n + 1, Len(r)))
  BY <1>8 DEF ReadVarint, ends
<1> QED
  BY <1>3, <1>10, <1>11, <1>12 DEF r, e

(* A varint that is cut off is not read.                                   *)
LEMMA VarintCut ==
  ASSUME NEW w \in Words, NEW k \in 0..(Len(VarintBytes[w]) - 1)
  PROVE  ~ReadVarint(SubSeq(VarintBytes[w], 1, k)).ok
<1> DEFINE e == VarintBytes[w]
           r == SubSeq(e, 1, k)
<1>1. e \in Seq(Bytes) /\ Len(e) \in Nat \ {0} /\ (\A i \in 1..(Len(e) - 1) : e[i] >= Base) /\ k \in 0..(Len(e) - 1)
  BY VarintShape DEF Shaped
<1> HIDE DEF e
<1>2. Len(r) = k /\ \A i \in 1..k : r[i] = e[i]
  BY <1>1
<1> HIDE DEF r
<1>3. PICK m \in Nat : m = Min({MaxVarintBytes, Len(r)}) /\ m <= k
  <2>1. MaxVarintBytes \in Nat
    BY CodecAssumption DEF MaxVarintBytes
  <2>2. Len(r) \in Nat /\ Len(r) = k
    BY <1>1, <1>2
  <2> QED
    BY <2>1, <2>2, MinOfTwo
<1>5. \A i \in 1..Min({MaxVarintBytes, Len(r)}) : ~(r[i] < Base)
  <2> SUFFICES ASSUME NEW i \in 1..m PROVE ~(r[i] < Base)
    BY <1>3
  <2>1. i \in 1..k /\ i \in 1..(Len(e) - 1) /\ i \in 1..Len(e)
    BY <1>1, <1>3
  <2>2. e[i] \in Bytes
    BY <1>1, <2>1
  <2>3. r[i] = e[i] /\ e[i] >= Base /\ e[i] \in Nat
    BY <1>1, <1>2, <2>1, <2>2, ByteFacts
  <2> QED
    BY <2>3, WordFacts
<1>6. {i \in 1..Min({MaxVarintBytes, Len(r)}) : r[i] < Base} = {}
  BY <1>5
<1>7. ~ReadVarint(r).ok
  BY <1>6, ReadFacts DEF ReadVarint
<1> QED
  BY <1>7 DEF r, e

(* Whatever the bytes are, what is read is a word.                         *)
LEMMA VarintTyped ==
  ASSUME NEW r \in Seq(Bytes), ReadVarint(r).ok
  PROVE  \E w \in Words, rest \in Seq(Bytes) : ReadVarint(r) = Read(w, rest) /\ Len(rest) <= Len(r)
<1> DEFINE ends == {i \in 1..Min({MaxVarintBytes, Len(r)}) : r[i] < Base}
           n == Min(ends)
<1>0. Len(r) \in Nat /\ MaxVarintBytes \in Nat
  BY CodecAssumption DEF MaxVarintBytes
<1>1. Min({MaxVarintBytes, Len(r)}) \in Nat /\ Min({MaxVarintBytes, Len(r)}) <= Len(r)
  BY <1>0, MinOfTwo
<1>2. ends # {}
  BY ReadFacts DEF ReadVarint
<1>3. ReadVarint(r) = Read(Joined(r, n) % (2 ^ Width), SubSeq(r, n + 1, Len(r)))
  BY <1>2 DEF ReadVarint
<1>4. n \in 1..Len(r)
  <2>1. ends \in SUBSET Nat
    BY <1>1
  <2>2. n \in ends
    <3> HIDE DEF ends
    <3> QED
      BY <1>2, <2>1, MinFacts
  <2> HIDE DEF n
  <2> QED
    BY <1>0, <1>1, <2>2
<1> HIDE DEF n
<1>5. Joined(r, n) \in Nat
  <2>1. PICK f : JoinedFrom(f, r, n, 1) /\ Joined(r, n) = f[1]
    BY <1>4, JoinedIs
  <2>2. 1 \in 1..n
    BY <1>4
  <2> QED
    BY <2>1, <2>2 DEF JoinedFrom
<1>6. Joined(r, n) % (2 ^ Width) \in Words
  BY <1>5, WordFacts, SMTT(30)
<1>7. SubSeq(r, n + 1, Len(r)) \in Seq(Bytes) /\ Len(SubSeq(r, n + 1, Len(r))) <= Len(r)
  BY <1>0, <1>4
<1> QED
  BY <1>3, <1>6, <1>7

(* What is in a successful read.                                           *)
LEMMA ReadIs ==
  ASSUME NEW r, NEW v, NEW rest, r = Read(v, rest)
  PROVE  r.ok /\ r.val = v /\ r.rest = rest
BY ReadFacts

(* Concatenation of bytes is associative, ...                              *)
LEMMA Assoc ==
  ASSUME NEW a \in Seq(Bytes), NEW b \in Seq(Bytes), NEW c \in Seq(Bytes)
  PROVE  /\ (a \o b) \o c = a \o (b \o c) /\ a \o b \in Seq(Bytes)
         /\ a \o (b \o c) \in Seq(Bytes)
         /\ <<>> \o a = a /\ a \o <<>> = a
<1>1. (a \o b) \o c = a \o (b \o c)
  BY ConcatAssociative
<1>2. <<>> \o a = a /\ a \o <<>> = a
  BY ConcatEmptySeq
<1>3. a \o b \in Seq(Bytes) /\ b \o c \in Seq(Bytes)
  BY ConcatProperties
<1>4. a \o (b \o c) \in Seq(Bytes)
  BY <1>3, ConcatProperties
<1> QED
  BY <1>1, <1>2, <1>3, <1>4

(* ... gives bytes, ...                                                    *)
LEMMA Closed ==
  ASSUME NEW a \in Seq(Bytes), NEW b \in Seq(Bytes)
  PROVE  a \o b \in Seq(Bytes)
BY ConcatProperties

(* ... for three ...                                                       *)
LEMMA Assoc3 ==
  ASSUME NEW a \in Seq(Bytes), NEW b \in Seq(Bytes), NEW c \in Seq(Bytes)
  PROVE  (a \o b) \o c = a \o (b \o c)
BY ConcatAssociative

(* ... and for four parts.                                                 *)
LEMMA Assoc4 ==
  ASSUME NEW a \in Seq(Bytes), NEW b \in Seq(Bytes), NEW c \in Seq(Bytes), NEW d \in Seq(Bytes)
  PROVE  /\ (a \o (b \o c)) \o d = a \o (b \o (c \o d))
         /\ a \o (b \o c) \in Seq(Bytes) /\ b \o (c \o d) \in Seq(Bytes)
         /\ a \o (b \o (c \o d)) \in Seq(Bytes)
<1>1. PICK x \in Seq(Bytes) : x = b \o c
  BY Closed
<1>2. c \o d \in Seq(Bytes) /\ x \o d \in Seq(Bytes)
  BY Closed
<1>3. x \o d = b \o (c \o d)
  BY <1>1, Assoc3
<1>4. (a \o x) \o d = a \o (x \o d) /\ a \o x \in Seq(Bytes) /\ a \o (x \o d) \in Seq(Bytes)
  BY <1>2, Assoc3, Closed
<1> QED
  BY <1>1, <1>2, <1>3, <1>4

-----------------------------------------------------------------------------
(* Taking bytes.                                                           *)

(* Of bytes in front as many are taken, and the rest remains.              *)
LEMMA TakeRoundTrip ==
  ASSUME NEW a \in Seq(Bytes), NEW rest \in Seq(Bytes), NEW n, n = Len(a)
  PROVE  Take(a \o rest, n) = Read(a, rest)
<1>1. /\ Len(a \o rest) = Len(a) + Len(rest) /\ Len(a) \in Nat /\ Len(rest) \in Nat
      /\ SubSeq(a \o rest, 1, Len(a)) = a
      /\ SubSeq(a \o rest, Len(a) + 1, Len(a \o rest)) = rest
  BY Split
<1>2. n <= Len(a \o rest)
  BY <1>1
<1> QED
  BY <1>1, <1>2 DEF Take

(* What is taken has the length that was asked for, and the rest is what   *)
(* remains.                                                                *)
LEMMA TakeTyped ==
  ASSUME NEW r \in Seq(Bytes), NEW n \in Nat, Take(r, n).ok
  PROVE  \E a \in Seq(Bytes), rest \in Seq(Bytes) :
           /\ Take(r, n) = Read(a, rest) /\ Len(a) = n /\ Len(r) = n + Len(rest)
<1>1. n <= Len(r) /\ Take(r, n) = Read(SubSeq(r, 1, n), SubSeq(r, n + 1, Len(r)))
  BY ReadFacts DEF Take
<1>2. SubSeq(r, 1, n) \in Seq(Bytes) /\ SubSeq(r, n + 1, Len(r)) \in Seq(Bytes)
  BY <1>1
<1>3. Len(SubSeq(r, 1, n)) = n /\ Len(r) = n + Len(SubSeq(r, n + 1, Len(r)))
  BY <1>1
<1> QED
  BY <1>1, <1>2, <1>3

(* Of fewer bytes nothing is taken.                                        *)
LEMMA TakeCut ==
  ASSUME NEW a \in Seq(Bytes), NEW k \in 0..(Len(a) - 1)
  PROVE  ~Take(SubSeq(a, 1, k), Len(a)).ok
<1>1. Len(SubSeq(a, 1, k)) = k /\ k < Len(a)
  OBVIOUS
<1> QED
  BY <1>1, ReadFacts DEF Take

-----------------------------------------------------------------------------
(* Strings.  A text is what a variable of Go can hold: its length is an    *)
(* int.                                                                    *)
Str(s) == VarintBytes[Len(s)] \o s

(* The bytes of a text: more than its own, by a varint at most.            *)
LEMMA TextFacts ==
  ASSUME NEW s, IsText(s)
  PROVE  /\ s \in Seq(Bytes) /\ Len(s) \in Words /\ Len(s) \in Nat
         /\ VarintBytes[Len(s)] \in Seq(Bytes)
         /\ Str(s) \in Seq(Bytes) /\ Len(Str(s)) = Len(VarintBytes[Len(s)]) + Len(s)
         /\ Len(Str(s)) \in Nat /\ Len(Str(s)) > Len(s)
         /\ Len(Str(s)) <= MaxVarintBytes + Len(s)
<1>1. s \in Seq(Bytes) /\ Len(s) \in Words /\ Len(s) \in Nat
  BY DEF IsText
<1>2. /\ VarintBytes[Len(s)] \in Seq(Bytes) /\ Len(VarintBytes[Len(s)]) \in Nat \ {0}
      /\ Len(VarintBytes[Len(s)]) <= MaxVarintBytes
  BY <1>1, VarintShape, VarintLenIs DEF Shaped
<1>3. Str(s) \in Seq(Bytes) /\ Len(Str(s)) = Len(VarintBytes[Len(s)]) + Len(s)
  BY <1>1, <1>2, Split DEF Str
<1>4. MaxVarintBytes \in Nat
  BY CodecAssumption DEF MaxVarintBytes
<1> QED
  BY <1>1, <1>2, <1>3, <1>4

(* AppendString appends the bytes of the text.                             *)
LEMMA AppendStringIs ==
  ASSUME NEW b \in Seq(Bytes), NEW s, IsText(s)
  PROVE  AppendString(b, s) = b \o Str(s) /\ b \o Str(s) \in Seq(Bytes)
<1>1. s \in Seq(Bytes) /\ VarintBytes[Len(s)] \in Seq(Bytes)
  BY TextFacts
<1>2. AppendString(b, s) = (b \o VarintBytes[Len(s)]) \o s
  BY DEF AppendString, AppendVarint
<1> QED
  BY <1>1, <1>2, Assoc DEF Str

(* A string is read as it was written if it is not over the limit of the   *)
(* reader, and not at all otherwise.                                       *)
LEMMA StringRoundTrip ==
  ASSUME NEW s, IsText(s), NEW rest \in Seq(Bytes), NEW max \in Nat
  PROVE  /\ Len(s) <= max => ReadString(Str(s) \o rest, max) = Read(s, rest)
         /\ Len(s) > max => ~ReadString(Str(s) \o rest, max).ok
<1>1. /\ s \in Seq(Bytes) /\ VarintBytes[Len(s)] \in Seq(Bytes) /\ Len(s) \in Words /\ Len(s) \in Nat
  BY TextFacts
<1>2. Str(s) \o rest = VarintBytes[Len(s)] \o (s \o rest) /\ s \o rest \in Seq(Bytes)
  BY <1>1, Assoc3, Closed DEF Str
<1>3. ReadVarint(Str(s) \o rest) = Read(Len(s), s \o rest)
  BY <1>1, <1>2, VarintRoundTrip
<1> DEFINE v == ReadVarint(Str(s) \o rest)
<1>4. v.ok /\ v.val = Len(s) /\ v.rest = s \o rest
  BY <1>3, ReadIs
<1>5. ReadString(Str(s) \o rest, max) =
        IF v.ok THEN IF v.val > max THEN Failed("too long") ELSE Take(v.rest, v.val) ELSE v
  BY DEF ReadString, Then
<1> HIDE DEF v
<1>6. ReadString(Str(s) \o rest, max) = IF Len(s) > max THEN Failed("too long") ELSE Take(s \o rest, Len(s))
  BY <1>4, <1>5
<1>7. Take(s \o rest, Len(s)) = Read(s, rest)
  BY <1>1, TakeRoundTrip
<1>8. CASE Len(s) <= max
  <2>1. ~(Len(s) > max)
    BY <1>1, <1>8
  <2> QED
    BY <1>6, <1>7, <2>1
<1>9. CASE Len(s) > max
  <2>1. ~(Len(s) <= max)
    BY <1>1, <1>9
  <2>2. ReadString(Str(s) \o rest, max) = Failed("too long")
    BY <1>6, <1>9
  <2>3. ~ReadString(Str(s) \o rest, max).ok
    BY <2>2, ReadFacts
  <2> QED
    BY <2>1, <2>3
<1> QED
  BY <1>1, <1>8, <1>9

(* Bytes are read as they were written.                                    *)
LEMMA BytesRoundTrip ==
  ASSUME NEW s, IsText(s), NEW rest \in Seq(Bytes)
  PROVE  ReadBytes(Str(s) \o rest) = Read(s, rest)
<1>1. /\ s \in Seq(Bytes) /\ VarintBytes[Len(s)] \in Seq(Bytes) /\ Len(s) \in Words
  BY TextFacts
<1>2. Str(s) \o rest = VarintBytes[Len(s)] \o (s \o rest) /\ s \o rest \in Seq(Bytes)
  BY <1>1, Assoc3, Closed DEF Str
<1>3. ReadVarint(Str(s) \o rest) = Read(Len(s), s \o rest)
  BY <1>1, <1>2, VarintRoundTrip
<1>4. ReadBytes(Str(s) \o rest) = Allocated(Len(s), Take(s \o rest, Len(s)))
  BY <1>3, ReadFacts DEF ReadBytes, Then
<1>5. Take(s \o rest, Len(s)) = Read(s, rest)
  BY <1>1, TakeRoundTrip
<1>6. Allocated(Len(s), Read(s, rest)) = Read(s, rest)
  BY AllocatedIs, ReadFacts
<1> QED
  BY <1>4, <1>5, <1>6

(* Cut off anywhere, neither is read.                                      *)
LEMMA StringCut ==
  ASSUME NEW s, IsText(s), NEW k \in 0..(Len(Str(s)) - 1)
  PROVE  /\ \A max \in Nat : ~ReadString(SubSeq(Str(s), 1, k), max).ok
         /\ ~ReadBytes(SubSeq(Str(s), 1, k)).ok
<1> DEFINE v == VarintBytes[Len(s)]
           r == SubSeq(Str(s), 1, k)
<1>1. s \in Seq(Bytes) /\ v \in Seq(Bytes) /\ Len(s) \in Words /\ Len(Str(s)) = Len(v) + Len(s)
  BY TextFacts
<1>2. k \in 0..(Len(v) + Len(s) - 1) /\ Str(s) = v \o s
  BY <1>1 DEF Str
<1>3. \/ r = SubSeq(v, 1, k) /\ k \in 0..(Len(v) - 1)
      \/ k - Len(v) \in 0..(Len(s) - 1) /\ r = v \o SubSeq(s, 1, k - Len(v))
  <2> HIDE DEF v
  <2> QED
    BY <1>1, <1>2, CutOfTwo
<1>4. CASE r = SubSeq(v, 1, k) /\ k \in 0..(Len(v) - 1)
  <2>1. ~ReadVarint(r).ok
    BY <1>1, <1>4, VarintCut
  <2> QED
    BY <2>1 DEF ReadString, ReadBytes, Then
<1>5. CASE k - Len(v) \in 0..(Len(s) - 1) /\ r = v \o SubSeq(s, 1, k - Len(v))
  <2> DEFINE t == SubSeq(s, 1, k - Len(v))
  <2>1. t \in Seq(Bytes)
    BY <1>1, <1>5
  <2>2. ~Take(t, Len(s)).ok
    BY <1>1, <1>5, TakeCut
  <2>3. ReadVarint(r) = Read(Len(s), t)
    BY <1>1, <1>5, <2>1, VarintRoundTrip
  <2> HIDE DEF r, t
  <2>4. ReadVarint(r).ok /\ ReadVarint(r).val = Len(s) /\ ReadVarint(r).rest = t
    BY <2>3, ReadFacts
  <2>5. ~ReadBytes(r).ok
    <3>1. ReadBytes(r) = Allocated(Len(s), Take(t, Len(s)))
      BY <2>4 DEF ReadBytes, Then
    <3> QED
      BY <2>2, <3>1, AllocatedIs
  <2>6. ASSUME NEW max \in Nat PROVE ~ReadString(r, max).ok
    BY <2>2, <2>4, ReadFacts DEF ReadString, Then
  <2> QED
    BY <2>5, <2>6 DEF r
<1> QED
  BY <1>3, <1>4, <1>5

(* What is read is a text within the limit, and never longer than what it  *)
(* was read from.                                                          *)
LEMMA StringTyped ==
  ASSUME NEW r \in Seq(Bytes), NEW max \in Nat, ReadString(r, max).ok
  PROVE  \E s \in Seq(Bytes), rest \in Seq(Bytes) :
           ReadString(r, max) = Read(s, rest) /\ Len(s) <= max /\ Len(s) + Len(rest) <= Len(r)
<1>1. ReadVarint(r).ok
  BY DEF ReadString, Then
<1>2. PICK n \in Words, t \in Seq(Bytes) : ReadVarint(r) = Read(n, t) /\ Len(t) <= Len(r)
  BY <1>1, VarintTyped
<1> DEFINE v == ReadVarint(r)
<1>3. v.ok /\ v.val = n /\ v.rest = t
  BY <1>2, ReadFacts
<1>4. ReadString(r, max) =
        IF v.ok THEN IF v.val > max THEN Failed("too long") ELSE Take(v.rest, v.val) ELSE v
  BY DEF ReadString, Then
<1> HIDE DEF v
<1>5. ReadString(r, max) = IF n > max THEN Failed("too long") ELSE Take(t, n)
  BY <1>3, <1>4
<1>6. n <= max /\ ReadString(r, max) = Take(t, n) /\ n \in Nat
  <2>1. n \in Nat
    BY WordFacts
  <2>2. ~(n > max)
    BY <1>5, ReadFacts
  <2> QED
    BY <1>5, <2>1, <2>2
<1>7. PICK a \in Seq(Bytes), rest \in Seq(Bytes) :
        Take(t, n) = Read(a, rest) /\ Len(a) = n /\ Len(t) = n + Len(rest)
  BY <1>6, TakeTyped
<1> QED
  BY <1>2, <1>6, <1>7

(* The same of bytes.                                                      *)
LEMMA BytesTyped ==
  ASSUME NEW r \in Seq(Bytes), ReadBytes(r).ok
  PROVE  \E s \in Seq(Bytes), rest \in Seq(Bytes) :
           ReadBytes(r) = Read(s, rest) /\ Len(s) \in Words /\ Len(s) + Len(rest) <= Len(r)
<1>1. ReadVarint(r).ok
  BY DEF ReadBytes, Then
<1>2. PICK n \in Words, t \in Seq(Bytes) : ReadVarint(r) = Read(n, t) /\ Len(t) <= Len(r)
  BY <1>1, VarintTyped
<1>4. ReadBytes(r) = Take(t, n) /\ n \in Nat
  <2>1. ReadBytes(r) = Allocated(n, Take(t, n)) /\ n \in Nat
    BY <1>2, ReadFacts, WordFacts DEF ReadBytes, Then
  <2> QED
    BY <2>1, AllocatedIs
<1>5. PICK a \in Seq(Bytes), rest \in Seq(Bytes) :
        Take(t, n) = Read(a, rest) /\ Len(a) = n /\ Len(t) = n + Len(rest)
  BY <1>4, TakeTyped
<1> QED
  BY <1>2, <1>4, <1>5

(* What FlattenSeq has joined after each of the sequences.                 *)
FlattenSoFar(f, s, m) ==
  f = [i \in 1..m |-> IF i = 1 THEN s[i] ELSE f[i - 1] \o s[i]]

(* Strings of bytes, one after another.                                    *)
ByteStrings(enc, n) ==
  Len(enc) = n /\ (\A k \in 1..n : enc[k] \in Seq(Bytes)) /\ (n = 0 => enc = <<>>)

(* FlattenSeq is the last value of that function.                          *)
LEMMA FlattenIs ==
  ASSUME NEW s, Len(s) \in Nat \ {0}
  PROVE  \E f : FlattenSoFar(f, s, Len(s)) /\ FlattenSeq(s) = f[Len(s)]
<1>0. PICK n \in Nat \ {0} : n = Len(s)
  OBVIOUS
<1> DEFINE T == {m \in 0..n : \E f : FlattenSoFar(f, s, m)}
<1>1. 0 \in T
  <2>1. FlattenSoFar([i \in 1..0 |-> s[i]], s, 0)
    BY DEF FlattenSoFar
  <2> QED
    BY <2>1
<1>2. ASSUME NEW m \in 0..(n - 1), m \in T PROVE m + 1 \in T
  <2>1. PICK f : FlattenSoFar(f, s, m)
    BY <1>2
  <2> DEFINE g == [i \in 1..(m + 1) |-> IF i = m + 1 THEN IF i = 1 THEN s[i] ELSE f[m] \o s[i] ELSE f[i]]
  <2>2. ASSUME NEW i \in 1..(m + 1) PROVE g[i] = IF i = 1 THEN s[i] ELSE g[i - 1] \o s[i]
    <3>1. CASE i = m + 1
      <4>1. i # 1 => i - 1 \in 1..(m + 1) /\ i - 1 # m + 1 /\ i - 1 = m
        BY <3>1
      <4>2. i # 1 => g[i - 1] = f[m]
        BY <4>1
      <4> QED
        BY <3>1, <4>2
    <3>2. CASE i # m + 1
      <4>1. i \in 1..m /\ g[i] = f[i]
        BY <3>2
      <4>2. i # 1 => i - 1 \in 1..(m + 1) /\ i - 1 # m + 1
        BY <3>2
      <4>3. i # 1 => g[i - 1] = f[i - 1]
        BY <4>2
      <4>4. f[i] = IF i = 1 THEN s[i] ELSE f[i - 1] \o s[i]
        BY <2>1, <4>1 DEF FlattenSoFar
      <4> HIDE DEF g
      <4> QED
        BY <4>1, <4>3, <4>4
    <3> QED
      BY <3>1, <3>2
  <2>3. g = [i \in 1..(m + 1) |-> g[i]]
    OBVIOUS
  <2>4. FlattenSoFar(g, s, m + 1)
    <3> HIDE DEF g
    <3> QED
      BY <2>2, <2>3 DEF FlattenSoFar
  <2> QED
    BY <2>4
<1> HIDE DEF T
<1>3. n \in T
  <2>1. 0..n \subseteq T
    BY <1>1, <1>2, InductionUpTo
  <2> QED
    BY <2>1
<1>4. PICK f : FlattenSoFar(f, s, n)
  BY <1>3 DEF T
<1> DEFINE Fix == CHOOSE flatten : flatten = [i \in 1..Len(s) |-> IF i = 1 THEN s[i] ELSE flatten[i - 1] \o s[i]]
<1>5. Fix = [i \in 1..Len(s) |-> IF i = 1 THEN s[i] ELSE Fix[i - 1] \o s[i]]
  BY <1>0, <1>4 DEF FlattenSoFar
<1>6. FlattenSeq(s) = Fix[Len(s)]
  BY <1>0 DEF FlattenSeq
<1> HIDE DEF Fix
<1>7. FlattenSoFar(Fix, s, Len(s))
  BY <1>5 DEF FlattenSoFar
<1> QED
  BY <1>6, <1>7

(* What is left of joined sequences, and of what follows them, after each  *)
(* of the sequences.                                                       *)
Tails(g, s, n, rest) ==
  /\ g \in [0..n -> Seq(Bytes)] /\ g[n] = rest
  /\ \A k \in 1..n : g[k - 1] = s[k] \o g[k]

(* One more sequence at the end.                                           *)
LEMMA TailsStep ==
  ASSUME NEW s, NEW m \in Nat, s[m + 1] \in Seq(Bytes), NEW rest \in Seq(Bytes),
         NEW g, Tails(g, s, m, s[m + 1] \o rest)
  PROVE  \E h : Tails(h, s, m + 1, rest) /\ h[0] = g[0]
<1> DEFINE h == [k \in 0..(m + 1) |-> IF k = m + 1 THEN rest ELSE g[k]]
<1>1. h \in [0..(m + 1) -> Seq(Bytes)]
  <2>1. g \in [0..m -> Seq(Bytes)]
    BY DEF Tails
  <2>2. \A k \in 0..(m + 1) : k # m + 1 => k \in 0..m
    OBVIOUS
  <2> QED
    BY <2>1, <2>2
<1>2. h[m + 1] = rest /\ h[0] = g[0]
  OBVIOUS
<1>3. ASSUME NEW k \in 1..(m + 1) PROVE h[k - 1] = s[k] \o h[k]
  <2>1. k - 1 \in 0..m /\ h[k - 1] = g[k - 1]
    OBVIOUS
  <2>2. CASE k = m + 1
    <3>1. g[m] = s[m + 1] \o rest
      BY DEF Tails
    <3>2. k - 1 = m /\ h[k] = rest
      BY <1>2, <2>2
    <3>3. h[k - 1] = g[m]
      BY <2>1, <3>2
    <3> HIDE DEF h
    <3> QED
      BY <2>2, <3>1, <3>2, <3>3
  <2>3. CASE k # m + 1
    <3>1. k \in 1..m /\ h[k] = g[k]
      BY <2>3
    <3>2. g[k - 1] = s[k] \o g[k]
      BY <3>1 DEF Tails
    <3> HIDE DEF h
    <3> QED
      BY <2>1, <3>1, <3>2
  <2> QED
    BY <2>2, <2>3
<1> HIDE DEF h
<1>4. Tails(h, s, m + 1, rest)
  BY <1>1, <1>2, <1>3 DEF Tails
<1> QED
  BY <1>2, <1>4

(* The first m of the sequences joined are x.                              *)
JoinTo(x, s, m) ==
  x \in Seq(Bytes) /\ \A rest \in Seq(Bytes) : \E g : Tails(g, s, m, rest) /\ g[0] = x \o rest

(* The first sequence, joined, is itself.                                  *)
LEMMA TailsStart ==
  ASSUME NEW s, s[1] \in Seq(Bytes)
  PROVE  JoinTo(s[1], s, 1)
<1> SUFFICES ASSUME NEW rest \in Seq(Bytes) PROVE \E g : Tails(g, s, 1, rest) /\ g[0] = s[1] \o rest
  BY DEF JoinTo
<1>1. s[1] \o rest \in Seq(Bytes)
  BY Closed
<1> DEFINE g == [k \in 0..0 |-> s[1] \o rest]
<1>2. Tails(g, s, 0, s[1] \o rest) /\ g[0] = s[1] \o rest
  BY <1>1 DEF Tails
<1> HIDE DEF g
<1>3. 0 + 1 = 1 /\ 0 \in Nat
  OBVIOUS
<1>4. s[0 + 1] \in Seq(Bytes) /\ Tails(g, s, 0, s[0 + 1] \o rest)
  BY <1>2, <1>3
<1>5. \E h : Tails(h, s, 0 + 1, rest) /\ h[0] = g[0]
  BY <1>3, <1>4, TailsStep
<1> QED
  BY <1>2, <1>3, <1>5

(* One more sequence is appended to what was joined.                       *)
LEMMA TailsGrow ==
  ASSUME NEW s, NEW m \in Nat, s[m + 1] \in Seq(Bytes), NEW x, JoinTo(x, s, m)
  PROVE  JoinTo(x \o s[m + 1], s, m + 1)
<1>0. x \in Seq(Bytes) /\ x \o s[m + 1] \in Seq(Bytes)
  BY Closed DEF JoinTo
<1> SUFFICES ASSUME NEW rest \in Seq(Bytes)
             PROVE  \E g : Tails(g, s, m + 1, rest) /\ g[0] = (x \o s[m + 1]) \o rest
  BY <1>0 DEF JoinTo
<1>1. s[m + 1] \o rest \in Seq(Bytes)
  BY Closed
<1>2. PICK g : Tails(g, s, m, s[m + 1] \o rest) /\ g[0] = x \o (s[m + 1] \o rest)
  BY <1>1 DEF JoinTo
<1>3. Tails(g, s, m, s[m + 1] \o rest)
  BY <1>2
<1>4. PICK h : Tails(h, s, m + 1, rest) /\ h[0] = g[0]
  BY <1>3, TailsStep
<1>5. (x \o s[m + 1]) \o rest = x \o (s[m + 1] \o rest)
  BY <1>0, Assoc3
<1> QED
  BY <1>2, <1>4, <1>5

(* FlattenSeq of strings of bytes is their joint.                          *)
LEMMA FlattenTails ==
  ASSUME NEW n \in Nat, NEW s, Len(s) = n, \A k \in 1..n : s[k] \in Seq(Bytes),
         n = 0 => s = <<>>
  PROVE  /\ FlattenSeq(s) \in Seq(Bytes)
         /\ \A rest \in Seq(Bytes) : \E g : Tails(g, s, n, rest) /\ g[0] = FlattenSeq(s) \o rest
<1>1. CASE n = 0
  <2>1. FlattenSeq(s) = <<>>
    BY <1>1 DEF FlattenSeq
  <2>2. ASSUME NEW rest \in Seq(Bytes) PROVE \E g : Tails(g, s, n, rest) /\ g[0] = FlattenSeq(s) \o rest
    <3> DEFINE g == [k \in 0..0 |-> rest]
    <3>1. Tails(g, s, n, rest) /\ g[0] = rest
      BY <1>1 DEF Tails
    <3>2. <<>> \o rest = rest
      BY ConcatEmptySeq
    <3> HIDE DEF g
    <3> QED
      BY <2>1, <3>1, <3>2
  <2> QED
    BY <2>1, <2>2
<1>2. CASE n # 0
  <2>1. PICK f : FlattenSoFar(f, s, n) /\ FlattenSeq(s) = f[n]
    BY <1>2, FlattenIs
  <2>2. \A i \in 1..n : f[i] = IF i = 1 THEN s[i] ELSE f[i - 1] \o s[i]
    BY <2>1 DEF FlattenSoFar
  <2> DEFINE T == {m \in 0..n : m # 0 => JoinTo(f[m], s, m)}
  <2>3. 0 \in T
    OBVIOUS
  <2>4. ASSUME NEW m \in 0..(n - 1), m \in T PROVE m + 1 \in T
    <3>0. m + 1 \in 1..n /\ s[m + 1] \in Seq(Bytes) /\ m \in Nat
      OBVIOUS
    <3>1. CASE m = 0
      <4>1. f[m + 1] = s[m + 1] /\ m + 1 = 1
        BY <2>2, <3>0, <3>1
      <4>2. JoinTo(s[1], s, 1)
        BY <3>0, <4>1, TailsStart
      <4>3. f[m + 1] = s[1]
        BY <4>1
      <4>4. JoinTo(f[m + 1], s, m + 1)
        BY <4>1, <4>2, <4>3
      <4> QED
        BY <3>0, <4>4
    <3>2. CASE m # 0
      <4>0. JoinTo(f[m], s, m)
        BY <2>4, <3>2
      <4>1. f[m + 1] = f[m] \o s[m + 1]
        <5>1. m + 1 # 1 /\ (m + 1) - 1 = m
          BY <3>0, <3>2
        <5> QED
          BY <2>2, <3>0, <5>1
      <4>2. JoinTo(f[m] \o s[m + 1], s, m + 1)
        BY <3>0, <4>0, TailsGrow
      <4>3. JoinTo(f[m + 1], s, m + 1)
        BY <4>1, <4>2
      <4> QED
        BY <3>0, <4>3
    <3> QED
      BY <3>1, <3>2
  <2> HIDE DEF T
  <2>5. 0..n \subseteq T
    BY <2>3, <2>4, InductionUpTo
  <2>6. JoinTo(f[n], s, n)
    BY <1>2, <2>5 DEF T
  <2> QED
    BY <2>1, <2>6 DEF JoinTo
<1> QED
  BY <1>1, <1>2

(* What is left is never longer than what there was.                       *)
LEMMA TailsShrink ==
  ASSUME NEW n \in Nat, NEW s, ByteStrings(s, n), NEW rest, NEW g, Tails(g, s, n, rest), NEW k \in 1..n
  PROVE  Len(s[k]) <= Len(g[0])
<1>1. \A j \in 1..n : s[j] \in Seq(Bytes)
  BY DEF ByteStrings
<1>2. g \in [0..n -> Seq(Bytes)] /\ \A j \in 1..n : g[j - 1] = s[j] \o g[j]
  BY DEF Tails
<1>3. \A j \in 0..n : g[j] \in Seq(Bytes) /\ Len(g[j]) \in Nat
  BY <1>2
<1>4. ASSUME NEW j \in 1..n PROVE Len(g[j - 1]) = Len(s[j]) + Len(g[j]) /\ Len(s[j]) \in Nat
  <2>1. PICK a \in Seq(Bytes), b \in Seq(Bytes) : a = s[j] /\ b = g[j]
    BY <1>3, <1>1
  <2>2. Len(a \o b) = Len(a) + Len(b) /\ Len(a) \in Nat
    BY Split
  <2> QED
    BY <1>2, <2>1, <2>2
<1> DEFINE T == {j \in 0..n : Len(g[j]) <= Len(g[0])}
<1>5. 0 \in T
  BY <1>3
<1>6. ASSUME NEW j \in 0..(n - 1), j \in T PROVE j + 1 \in T
  <2>1. j + 1 \in 1..n /\ j + 1 \in 0..n /\ (j + 1) - 1 = j
    OBVIOUS
  <2>2. PICK a \in Nat, b \in Nat : a = Len(s[j + 1]) /\ b = Len(g[j + 1])
    BY <1>3, <1>4, <2>1
  <2>3. PICK c \in Nat, d \in Nat : c = Len(g[j]) /\ d = Len(g[0]) /\ c <= d
    BY <1>3, <1>6
  <2>4. c = a + b
    <3>1. Len(g[(j + 1) - 1]) = Len(s[j + 1]) + Len(g[j + 1])
      BY <1>4, <2>1
    <3> QED
      BY <2>1, <2>2, <2>3, <3>1
  <2>5. Len(g[j + 1]) <= Len(g[0])
    <3>1. b <= d
      BY <2>3, <2>4
    <3> QED
      BY <2>2, <2>3, <3>1
  <2> QED
    BY <2>1, <2>5
<1> HIDE DEF T
<1>7. 0..n \subseteq T
  BY <1>5, <1>6, InductionUpTo
<1>8. \A j \in 0..n : Len(g[j]) <= Len(g[0])
  BY <1>7 DEF T
<1>9. k - 1 \in 0..n /\ k \in 0..n /\ 0 \in 0..n
  OBVIOUS
<1>10. PICK w \in Nat, x \in Nat, y \in Nat, z \in Nat :
        w = Len(g[k - 1]) /\ x = Len(s[k]) /\ y = Len(g[k]) /\ z = Len(g[0])
  BY <1>3, <1>4, <1>9
<1>11. w <= z /\ w = x + y
  BY <1>4, <1>8, <1>9, <1>10
<1>12. x <= z
  BY <1>11
<1> QED
  BY <1>10, <1>12

EachStep(read, k, before) ==
  IF before.ok
  THEN IF read[k][before.rest].ok
       THEN Read(Append(before.val, read[k][before.rest].val), read[k][before.rest].rest)
       ELSE read[k][before.rest]
  ELSE before

(* What ReadEach has after each of its readers.                            *)
EachSoFar(u, read, n, r) ==
  u = [k \in 0..n |-> IF k = 0 THEN Read(<<>>, r) ELSE EachStep(read, k, u[k - 1])]

(* ReadEach is the last value of that function.                            *)
LEMMA EachIs ==
  ASSUME NEW read, NEW n \in Nat, NEW r
  PROVE  \E u : EachSoFar(u, read, n, r) /\ ReadEach(read, n, r) = u[n]
<1> DEFINE T == {m \in 0..n : \E u : EachSoFar(u, read, m, r)}
<1>1. 0 \in T
  <2> DEFINE u == [k \in 0..0 |-> Read(<<>>, r)]
  <2>1. EachSoFar(u, read, 0, r)
    BY DEF EachSoFar
  <2> HIDE DEF u
  <2> QED
    BY <2>1
<1>2. ASSUME NEW m \in 0..(n - 1), m \in T PROVE m + 1 \in T
  <2>1. PICK u : EachSoFar(u, read, m, r)
    BY <1>2
  <2> DEFINE g == [k \in 0..(m + 1) |-> IF k = m + 1 THEN EachStep(read, k, u[m]) ELSE u[k]]
  <2>2. ASSUME NEW k \in 0..(m + 1)
        PROVE  g[k] = IF k = 0 THEN Read(<<>>, r) ELSE EachStep(read, k, g[k - 1])
    <3>1. CASE k = m + 1
      <4>1. k # 0 /\ k - 1 = m /\ k - 1 \in 0..(m + 1) /\ k - 1 # m + 1
        BY <3>1
      <4>2. g[k] = EachStep(read, k, u[m]) /\ g[k - 1] = u[m]
        BY <3>1, <4>1
      <4> HIDE DEF g
      <4> QED
        BY <4>1, <4>2
    <3>2. CASE k # m + 1
      <4>1. k \in 0..m /\ g[k] = u[k]
        BY <3>2
      <4>2. k # 0 => k - 1 \in 0..(m + 1) /\ k - 1 # m + 1
        BY <3>2
      <4>3. k # 0 => g[k - 1] = u[k - 1]
        BY <4>2
      <4>4. u[k] = IF k = 0 THEN Read(<<>>, r) ELSE EachStep(read, k, u[k - 1])
        BY <2>1, <4>1 DEF EachSoFar
      <4> HIDE DEF g
      <4> QED
        BY <4>1, <4>3, <4>4
    <3> QED
      BY <3>1, <3>2
  <2>3. g = [k \in 0..(m + 1) |-> g[k]]
    OBVIOUS
  <2>4. EachSoFar(g, read, m + 1, r)
    <3> HIDE DEF g
    <3> QED
      BY <2>2, <2>3 DEF EachSoFar
  <2> QED
    BY <2>4
<1> HIDE DEF T
<1>3. n \in T
  <2>1. 0..n \subseteq T
    BY <1>1, <1>2, InductionUpTo
  <2> QED
    BY <2>1
<1>4. PICK u : EachSoFar(u, read, n, r)
  BY <1>3 DEF T
<1> DEFINE Fix == CHOOSE upTo : upTo = [k \in 0..n |->
                  IF k = 0 THEN Read(<<>>, r)
                  ELSE IF upTo[k - 1].ok
                       THEN IF read[k][upTo[k - 1].rest].ok
                            THEN Read(Append(upTo[k - 1].val, read[k][upTo[k - 1].rest].val),
                                      read[k][upTo[k - 1].rest].rest)
                            ELSE read[k][upTo[k - 1].rest]
                       ELSE upTo[k - 1]]
<1>5. Fix = [k \in 0..n |->
                  IF k = 0 THEN Read(<<>>, r)
                  ELSE IF Fix[k - 1].ok
                       THEN IF read[k][Fix[k - 1].rest].ok
                            THEN Read(Append(Fix[k - 1].val, read[k][Fix[k - 1].rest].val),
                                      read[k][Fix[k - 1].rest].rest)
                            ELSE read[k][Fix[k - 1].rest]
                       ELSE Fix[k - 1]]
  BY <1>4 DEF EachSoFar, EachStep
<1>6. ReadEach(read, n, r) = Fix[n]
  BY DEF ReadEach, Then
<1> HIDE DEF Fix
<1>7. EachSoFar(Fix, read, n, r)
  BY <1>5 DEF EachSoFar, EachStep
<1> QED
  BY <1>6, <1>7

(* A prefix with the next element is the next prefix.                      *)
LEMMA AppendNext ==
  ASSUME NEW S, NEW s \in Seq(S), NEW k \in 0..(Len(s) - 1)
  PROVE  Append(SubSeq(s, 1, k), s[k + 1]) = SubSeq(s, 1, k + 1)
OBVIOUS

(* Reading one after another what was written one after another.           *)
EachReads(read, g, vs) == \A k \in 1..Len(vs) : read[k][g[k - 1]] = Read(vs[k], g[k])

(* Readers that read the values one after another give all of them.        *)
LEMMA EachRoundTrip ==
  ASSUME NEW S, NEW vs \in Seq(S), NEW read, NEW g, EachReads(read, g, vs)
  PROVE  ReadEach(read, Len(vs), g[0]) = Read(vs, g[Len(vs)])
<1>0. PICK n \in Nat : n = Len(vs)
  OBVIOUS
<1>1. PICK u : EachSoFar(u, read, n, g[0]) /\ ReadEach(read, n, g[0]) = u[n]
  BY EachIs
<1>2. \A k \in 0..n : u[k] = IF k = 0 THEN Read(<<>>, g[0]) ELSE EachStep(read, k, u[k - 1])
  BY <1>1 DEF EachSoFar
<1> DEFINE T == {k \in 0..n : u[k] = Read(SubSeq(vs, 1, k), g[k])}
<1>3. 0 \in T
  <2>1. SubSeq(vs, 1, 0) = <<>>
    OBVIOUS
  <2>2. u[0] = Read(<<>>, g[0])
    BY <1>2
  <2>3. u[0] = Read(SubSeq(vs, 1, 0), g[0])
    BY <2>1, <2>2
  <2> QED
    BY <2>3
<1>4. ASSUME NEW k \in 0..(n - 1), k \in T PROVE k + 1 \in T
  <2>0. k + 1 \in 0..n /\ k + 1 # 0 /\ (k + 1) - 1 = k /\ k + 1 \in 1..Len(vs) /\ k \in 0..(Len(vs) - 1)
    BY <1>0
  <2>1. u[k + 1] = EachStep(read, k + 1, u[k])
    BY <1>2, <2>0
  <2>2. PICK s : s = SubSeq(vs, 1, k)
    OBVIOUS
  <2>3. u[k] = Read(s, g[k])
    BY <1>4, <2>2
  <2>4. u[k].ok /\ u[k].val = s /\ u[k].rest = g[k]
    BY <2>3, ReadIs
  <2>5. read[k + 1][g[(k + 1) - 1]] = Read(vs[k + 1], g[k + 1])
    BY <2>0 DEF EachReads
  <2> DEFINE this == read[k + 1][g[k]]
  <2>6. this.ok /\ this.val = vs[k + 1] /\ this.rest = g[k + 1]
    BY <2>0, <2>5, ReadIs
  <2>7. EachStep(read, k + 1, u[k]) = IF u[k].ok THEN IF read[k + 1][u[k].rest].ok
           THEN Read(Append(u[k].val, read[k + 1][u[k].rest].val), read[k + 1][u[k].rest].rest)
           ELSE read[k + 1][u[k].rest] ELSE u[k]
    BY DEF EachStep
  <2>8. read[k + 1][u[k].rest] = this
    BY <2>4
  <2> HIDE DEF this
  <2>9. u[k + 1] = Read(Append(s, vs[k + 1]), g[k + 1])
    BY <2>1, <2>4, <2>6, <2>7, <2>8
  <2>10. Append(s, vs[k + 1]) = SubSeq(vs, 1, k + 1)
    BY <2>0, <2>2, AppendNext
  <2> QED
    BY <2>0, <2>9, <2>10
<1> HIDE DEF T
<1>5. 0..n \subseteq T
  BY <1>3, <1>4, InductionUpTo
<1>6. u[n] = Read(SubSeq(vs, 1, n), g[n])
  BY <1>5 DEF T
<1>7. SubSeq(vs, 1, n) = vs
  BY <1>0
<1> QED
  BY <1>0, <1>1, <1>6, <1>7

(* Whatever the bytes are, what is read has the types that the readers     *)
(* return.                                                                 *)
EachOf(vals, kinds, m) ==
  \E S : vals \in Seq(S) /\ Len(vals) = m /\ \A k \in 1..m : vals[k] \in kinds[k]

(* One more value of its type.                                             *)
LEMMA EachOfGrows ==
  ASSUME NEW kinds, NEW m \in Nat, NEW vals, EachOf(vals, kinds, m), NEW x, x \in kinds[m + 1]
  PROVE  EachOf(Append(vals, x), kinds, m + 1)
<1>1. PICK S : vals \in Seq(S) /\ Len(vals) = m /\ \A k \in 1..m : vals[k] \in kinds[k]
  BY DEF EachOf
<1> DEFINE R == S \cup {x}
<1>2. vals \in Seq(R)
  BY <1>1, SeqMonotonic
<1>3. x \in R
  OBVIOUS
<1> HIDE DEF R
<1>4. /\ Append(vals, x) \in Seq(R) /\ Len(Append(vals, x)) = m + 1
      /\ \A k \in 1..m : Append(vals, x)[k] = vals[k]
      /\ Append(vals, x)[m + 1] = x
  BY <1>1, <1>2, <1>3, AppendProperties
<1>5. \A k \in 1..(m + 1) : k = m + 1 \/ k \in 1..m
  OBVIOUS
<1>6. \A k \in 1..(m + 1) : Append(vals, x)[k] \in kinds[k]
  BY <1>1, <1>4, <1>5
<1> QED
  BY <1>4, <1>6 DEF EachOf

(* What is read has the types of the readers.                              *)
LEMMA EachTyped ==
  ASSUME NEW read, NEW n \in Nat, NEW r \in Seq(Bytes), NEW kinds,
         \A k \in 1..n : \A s \in Seq(Bytes) : read[k][s].ok =>
           read[k][s].val \in kinds[k] /\ read[k][s].rest \in Seq(Bytes),
         ReadEach(read, n, r).ok
  PROVE  EachOf(ReadEach(read, n, r).val, kinds, n)
<1>1. PICK u : EachSoFar(u, read, n, r) /\ ReadEach(read, n, r) = u[n]
  BY EachIs
<1>2. \A k \in 0..n : u[k] = IF k = 0 THEN Read(<<>>, r) ELSE EachStep(read, k, u[k - 1])
  BY <1>1 DEF EachSoFar
<1> DEFINE T == {k \in 0..n : u[k].ok => EachOf(u[k].val, kinds, k) /\ u[k].rest \in Seq(Bytes)}
<1>3. 0 \in T
  <2>1. u[0] = Read(<<>>, r)
    BY <1>2
  <2>2. u[0].val = <<>> /\ u[0].rest = r
    BY <2>1, ReadIs
  <2>3. EachOf(<<>>, kinds, 0)
    <3>1. <<>> \in Seq({}) /\ Len(<<>>) = 0
      OBVIOUS
    <3> QED
      BY <3>1 DEF EachOf
  <2> QED
    BY <2>2, <2>3
<1>4. ASSUME NEW k \in 0..(n - 1), k \in T PROVE k + 1 \in T
  <2>0. k + 1 \in 0..n /\ k + 1 # 0 /\ (k + 1) - 1 = k /\ k + 1 \in 1..n /\ k \in Nat
    OBVIOUS
  <2>1. u[k + 1] = EachStep(read, k + 1, u[k])
    BY <1>2, <2>0
  <2> SUFFICES ASSUME u[k + 1].ok
               PROVE  EachOf(u[k + 1].val, kinds, k + 1) /\ u[k + 1].rest \in Seq(Bytes)
    BY <2>0
  <2> DEFINE this == read[k + 1][u[k].rest]
  <2>2. EachStep(read, k + 1, u[k]) = IF u[k].ok THEN IF this.ok
           THEN Read(Append(u[k].val, this.val), this.rest) ELSE this ELSE u[k]
    BY DEF EachStep
  <2> HIDE DEF this
  <2>3. u[k].ok
    BY <2>1, <2>2
  <2>4. EachOf(u[k].val, kinds, k) /\ u[k].rest \in Seq(Bytes)
    BY <1>4, <2>3
  <2>5. this.ok
    BY <2>1, <2>3, <2>2
  <2>6. this.val \in kinds[k + 1] /\ this.rest \in Seq(Bytes)
    BY <2>0, <2>4, <2>5 DEF this
  <2>7. u[k + 1] = Read(Append(u[k].val, this.val), this.rest)
    BY <2>1, <2>3, <2>5, <2>2
  <2>8. PICK a, b : a = Append(u[k].val, this.val) /\ b = this.rest
    OBVIOUS
  <2>9. u[k + 1] = Read(a, b)
    BY <2>7, <2>8
  <2>10. u[k + 1].val = Append(u[k].val, this.val) /\ u[k + 1].rest = this.rest
    BY <2>8, <2>9 DEF Read
  <2>11. EachOf(Append(u[k].val, this.val), kinds, k + 1)
    BY <2>0, <2>4, <2>6, EachOfGrows
  <2> QED
    BY <2>6, <2>10, <2>11
<1> HIDE DEF T
<1>5. 0..n \subseteq T
  BY <1>3, <1>4, InductionUpTo
<1>6. u[n].ok => EachOf(u[n].val, kinds, n)
  BY <1>5 DEF T
<1> QED
  BY <1>1, <1>6

(* Elements and the bytes of each: reading from the joined bytes.          *)
Decodes(read, enc, vs) ==
  /\ Len(enc) = Len(vs)
  /\ \A k \in 1..Len(vs) : enc[k] \in Seq(Bytes)
  /\ Len(vs) = 0 => enc = <<>>
  /\ \A k \in 1..Len(vs) : \A t \in Seq(Bytes) : read[k][enc[k] \o t] = Read(vs[k], t)

(* Joined bytes are read as the elements that they were written from.      *)
LEMMA JoinedRoundTrip ==
  ASSUME NEW S, NEW vs \in Seq(S), NEW enc, NEW read, Decodes(read, enc, vs), NEW rest \in Seq(Bytes)
  PROVE  ReadEach(read, Len(vs), FlattenSeq(enc) \o rest) = Read(vs, rest)
<1>0. PICK n \in Nat : n = Len(vs)
  OBVIOUS
<1>1. Len(enc) = n /\ (\A k \in 1..n : enc[k] \in Seq(Bytes)) /\ (n = 0 => enc = <<>>)
  BY <1>0 DEF Decodes
<1>2. \A r \in Seq(Bytes) : \E g : Tails(g, enc, n, r) /\ g[0] = FlattenSeq(enc) \o r
  BY <1>1, FlattenTails
<1>3. PICK g : Tails(g, enc, n, rest) /\ g[0] = FlattenSeq(enc) \o rest
  BY <1>2
<1>4. g[n] = rest
  BY <1>3 DEF Tails
<1>5. ASSUME NEW k \in 1..Len(vs) PROVE read[k][g[k - 1]] = Read(vs[k], g[k])
  <2>1. g \in [0..n -> Seq(Bytes)] /\ g[k - 1] = enc[k] \o g[k]
    BY <1>0, <1>3 DEF Tails
  <2>2. g[k] \in Seq(Bytes)
    BY <1>0, <2>1
  <2>3. read[k][enc[k] \o g[k]] = Read(vs[k], g[k])
    BY <2>2 DEF Decodes
  <2> QED
    BY <2>1, <2>3
<1>6. ReadEach(read, Len(vs), g[0]) = Read(vs, g[Len(vs)])
  <2>1. EachReads(read, g, vs)
    BY <1>5 DEF EachReads
  <2> QED
    BY <2>1, EachRoundTrip
<1> QED
  BY <1>0, <1>3, <1>4, <1>6

(* No element has more bytes than all together.                            *)
LEMMA JoinedSize ==
  ASSUME NEW n \in Nat, NEW enc, ByteStrings(enc, n)
  PROVE  /\ FlattenSeq(enc) \in Seq(Bytes) /\ Len(FlattenSeq(enc)) \in Nat
         /\ \A k \in 1..n : Len(enc[k]) <= Len(FlattenSeq(enc))
<1>0. Len(enc) = n /\ (\A k \in 1..n : enc[k] \in Seq(Bytes)) /\ (n = 0 => enc = <<>>)
  BY DEF ByteStrings
<1>1. /\ FlattenSeq(enc) \in Seq(Bytes)
      /\ \A rest \in Seq(Bytes) : \E g : Tails(g, enc, n, rest) /\ g[0] = FlattenSeq(enc) \o rest
  BY <1>0, FlattenTails
<1>2. <<>> \in Seq(Bytes)
  OBVIOUS
<1>3. PICK g : Tails(g, enc, n, <<>>) /\ g[0] = FlattenSeq(enc) \o <<>>
  BY <1>1, <1>2
<1>4. g[0] = FlattenSeq(enc)
  BY <1>1, <1>3, ConcatEmptySeq
<1>5. ASSUME NEW k \in 1..n PROVE Len(enc[k]) <= Len(FlattenSeq(enc))
  <2>1. PICK e : e = <<>> /\ Tails(g, enc, n, e)
    BY <1>3
  <2>2. Len(enc[k]) <= Len(g[0])
    BY <2>1, TailsShrink
  <2> QED
    BY <1>4, <2>2
<1>6. Len(FlattenSeq(enc)) \in Nat
  BY <1>1
<1> QED
  BY <1>1, <1>5, <1>6

(* A varint appended to nothing.                                           *)
LEMMA AppendVarintIs ==
  ASSUME NEW w \in Words
  PROVE  AppendVarint(<<>>, w) = VarintBytes[w] /\ VarintBytes[w] \in Seq(Bytes)
<1>1. VarintBytes[w] \in Seq(Bytes)
  BY VarintShape DEF Shaped
<1> QED
  BY <1>1, ConcatEmptySeq DEF AppendVarint

(* A string appended to nothing.                                           *)
LEMMA StrIs ==
  ASSUME NEW s, IsText(s)
  PROVE  AppendString(<<>>, s) = Str(s) /\ Str(s) \in Seq(Bytes)
<1>1. Str(s) \in Seq(Bytes) /\ <<>> \in Seq(Bytes)
  BY TextFacts
<1>2. AppendString(<<>>, s) = <<>> \o Str(s)
  BY <1>1, AppendStringIs
<1> QED
  BY <1>1, <1>2, ConcatEmptySeq

(* A list on the wire: the count, and the bytes of the elements.           *)
ListBytes(enc, n) == VarintBytes[n] \o FlattenSeq(enc)

(* No element of a list has more bytes than the list.                      *)
LEMMA ListSize ==
  ASSUME NEW n \in Words, NEW enc, ByteStrings(enc, n)
  PROVE  /\ ListBytes(enc, n) \in Seq(Bytes) /\ FlattenSeq(enc) \in Seq(Bytes)
         /\ \A k \in 1..n : Len(enc[k]) <= Len(ListBytes(enc, n))
<1>0. n \in Nat
  BY WordFacts
<1>1. FlattenSeq(enc) \in Seq(Bytes) /\ \A k \in 1..n : Len(enc[k]) <= Len(FlattenSeq(enc))
  BY <1>0, JoinedSize
<1>2. PICK v \in Seq(Bytes), f \in Seq(Bytes) : v = VarintBytes[n] /\ f = FlattenSeq(enc)
  BY <1>1, AppendVarintIs
<1>3. v \o f \in Seq(Bytes) /\ Len(v \o f) = Len(v) + Len(f) /\ Len(v) \in Nat /\ Len(f) \in Nat
  BY Split, Closed
<1>4. Len(f) <= Len(v \o f)
  BY <1>3
<1>5. ListBytes(enc, n) = v \o f
  BY <1>2 DEF ListBytes
<1>6. PICK a, c \in Nat : a = Len(v \o f) /\ c = Len(f) /\ a \in Nat /\ c <= a
  BY <1>3, <1>4
<1>7. ASSUME NEW k \in 1..n PROVE Len(enc[k]) <= Len(ListBytes(enc, n))
  <2>1. Len(enc[k]) <= c /\ Len(enc[k]) \in Nat
    <3>1. enc[k] \in Seq(Bytes)
      BY DEF ByteStrings
    <3>2. PICK s \in Seq(Bytes) : s = enc[k]
      BY <3>1
    <3>3. Len(s) \in Nat
      OBVIOUS
    <3> QED
      BY <1>1, <1>2, <1>6, <3>2, <3>3, Zenon
  <2>2. PICK b \in Nat : b = Len(enc[k]) /\ b <= c
    BY <2>1
  <2>3. b <= a
    BY <1>6, <2>2
  <2> QED
    BY <1>5, <1>6, <2>2, <2>3, Zenon
<1> QED
  BY <1>1, <1>2, <1>3, <1>5, <1>7, Zenon

(* The count and the elements of a list are read as they were written.     *)
LEMMA ListRoundTrip ==
  ASSUME NEW S, NEW vs \in Seq(S), Len(vs) \in Words, NEW enc, NEW read, Decodes(read, enc, vs),
         NEW rest \in Seq(Bytes)
  PROVE  \E r : /\ ReadVarint(ListBytes(enc, Len(vs)) \o rest) = Read(Len(vs), r)
                /\ ReadEach(read, Len(vs), r) = Read(vs, rest)
<1>1. ByteStrings(enc, Len(vs))
  BY DEF Decodes, ByteStrings
<1>2. PICK f \in Seq(Bytes) : f = FlattenSeq(enc)
  BY <1>1, ListSize
<1>3. PICK n \in Words : n = Len(vs)
  OBVIOUS
<1>4. PICK v \in Seq(Bytes), t \in Seq(Bytes) : v = VarintBytes[n] /\ t = f \o rest
  BY AppendVarintIs, Closed
<1>5. (v \o f) \o rest = v \o t
  BY <1>4, Assoc3
<1>6. ReadVarint(v \o t) = Read(n, t)
  BY <1>4, VarintRoundTrip
<1>7. ListBytes(enc, Len(vs)) = v \o f
  BY <1>2, <1>3, <1>4 DEF ListBytes
<1>8. ReadEach(read, Len(vs), t) = Read(vs, rest)
  BY <1>2, <1>4, JoinedRoundTrip
<1> QED
  BY <1>3, <1>5, <1>6, <1>7, <1>8

-----------------------------------------------------------------------------
(* Lists of strings, and lists of those.                                   *)
Strs(ss) == [i \in DOMAIN ss |-> Str(ss[i])]
Texts(ss) == ListBytes(Strs(ss), Len(ss))
StringReaders(n) == [i \in 1..n |-> [s \in Seq(Bytes) |-> ReadString(s, MaxPayloadBytes)]]
ReadTexts(r) ==
  IF ReadVarint(r).ok
  THEN Allocated(ReadVarint(r).val, ReadEach(StringReaders(ReadVarint(r).val), ReadVarint(r).val, ReadVarint(r).rest))
  ELSE ReadVarint(r)

(* What a list of strings is made of.                                      *)
LEMMA TextsAre ==
  ASSUME NEW ss, IsTexts(ss)
  PROVE  /\ ss \in Seq(Seq(Bytes)) /\ Len(ss) \in Words /\ Len(ss) \in Nat
         /\ \A i \in 1..Len(ss) : IsText(ss[i]) /\ Strs(ss)[i] = Str(ss[i])
         /\ ByteStrings(Strs(ss), Len(ss))
         /\ Texts(ss) \in Seq(Bytes) /\ Len(Texts(ss)) \in Nat
         /\ \A i \in 1..Len(ss) : Len(ss[i]) < Len(Texts(ss))
<1>1. ss \in Seq(Seq(Bytes)) /\ Len(ss) \in Words /\ DOMAIN ss = 1..Len(ss)
  BY DEF IsTexts
<1>2. PICK n \in Nat : n = Len(ss) /\ n \in Words
  BY <1>1, WordFacts
<1>3. \A i \in 1..n : IsText(ss[i]) /\ Strs(ss)[i] = Str(ss[i])
  BY <1>1, <1>2 DEF IsTexts, Strs
<1>4. \A i \in 1..n : Str(ss[i]) \in Seq(Bytes) /\ Len(Str(ss[i])) > Len(ss[i]) /\ Len(Str(ss[i])) \in Nat
                      /\ Len(ss[i]) \in Nat
  BY <1>3, TextFacts
<1>5. ByteStrings(Strs(ss), n)
  <2>1. Len(Strs(ss)) = n /\ (n = 0 => Strs(ss) = <<>>)
    BY <1>1, <1>2 DEF Strs
  <2>2. \A i \in 1..n : Strs(ss)[i] \in Seq(Bytes)
    BY <1>3, <1>4
  <2> QED
    BY <2>1, <2>2 DEF ByteStrings
<1>6. /\ ListBytes(Strs(ss), n) \in Seq(Bytes)
      /\ \A i \in 1..n : Len(Strs(ss)[i]) <= Len(ListBytes(Strs(ss), n))
  BY <1>2, <1>5, ListSize
<1>7. Texts(ss) \in Seq(Bytes) /\ Texts(ss) = ListBytes(Strs(ss), n)
  BY <1>2, <1>6 DEF Texts
<1>8. PICK a \in Nat : a = Len(Texts(ss))
  BY <1>7
<1>9. ASSUME NEW i \in 1..n PROVE Len(ss[i]) < a
  <2>1. Len(Str(ss[i])) <= a
    BY <1>3, <1>6, <1>7, <1>8
  <2> QED
    BY <1>4, <2>1
<1> QED
  BY <1>1, <1>2, <1>3, <1>5, <1>7, <1>8, <1>9

(* A list of strings is read as it was written.                            *)
LEMMA TextsRoundTrip ==
  ASSUME NEW ss, IsTexts(ss), Len(Texts(ss)) <= MaxPayloadBytes, NEW rest \in Seq(Bytes)
  PROVE  ReadTexts(Texts(ss) \o rest) = Read(ss, rest)
<1>1. /\ ss \in Seq(Seq(Bytes)) /\ Len(ss) \in Words /\ Len(ss) \in Nat
      /\ \A i \in 1..Len(ss) : IsText(ss[i]) /\ Strs(ss)[i] = Str(ss[i])
      /\ ByteStrings(Strs(ss), Len(ss)) /\ Len(Texts(ss)) \in Nat
      /\ \A i \in 1..Len(ss) : Len(ss[i]) < Len(Texts(ss))
  BY TextsAre
<1>0. MaxPayloadBytes \in Nat
  BY CodecAssumption, WordFacts
<1>2. ASSUME NEW i \in 1..Len(ss), NEW t \in Seq(Bytes)
      PROVE  StringReaders(Len(ss))[i][Strs(ss)[i] \o t] = Read(ss[i], t)
  <2>1. PICK s, e \in Seq(Bytes) : s = ss[i] /\ e = Str(s) /\ e = Strs(ss)[i] /\ IsText(s)
    BY <1>1, TextFacts
  <2>2. Len(s) <= MaxPayloadBytes
    <3>1. Len(s) < Len(Texts(ss)) /\ Len(s) \in Nat
      BY <1>1, <2>1, TextFacts
    <3> QED
      BY <1>0, <1>1, <3>1
  <2>3. ReadString(e \o t, MaxPayloadBytes) = Read(s, t)
    BY <1>0, <2>1, <2>2, StringRoundTrip
  <2>4. PICK b \in Seq(Bytes) : b = e \o t
    BY <2>1, Closed
  <2>5. StringReaders(Len(ss))[i][b] = ReadString(b, MaxPayloadBytes)
    BY <1>1 DEF StringReaders
  <2> QED
    BY <2>1, <2>3, <2>4, <2>5
<1>3. Decodes(StringReaders(Len(ss)), Strs(ss), ss)
  BY <1>1, <1>2 DEF Decodes, ByteStrings
<1>4. PICK r : /\ ReadVarint(Texts(ss) \o rest) = Read(Len(ss), r)
               /\ ReadEach(StringReaders(Len(ss)), Len(ss), r) = Read(ss, rest)
  BY <1>1, <1>3, ListRoundTrip DEF Texts
<1>5. PICK x : x = ReadVarint(Texts(ss) \o rest)
  OBVIOUS
<1>6. x.ok /\ x.val = Len(ss) /\ x.rest = r
  BY <1>4, <1>5 DEF Read
<1>7. ReadTexts(Texts(ss) \o rest) = Allocated(Len(ss), Read(ss, rest))
  BY <1>4, <1>5, <1>6 DEF ReadTexts
<1> QED
  BY <1>7, AllocatedIs, ReadFacts

Rows(m) == [i \in DOMAIN m |-> Texts(m[i])]
Matrix(m) == ListBytes(Rows(m), Len(m))
RowReaders(n) == [i \in 1..n |-> [s \in Seq(Bytes) |-> ReadTexts(s)]]
ReadMatrix(r) ==
  IF ReadVarint(r).ok
  THEN Allocated(ReadVarint(r).val, ReadEach(RowReaders(ReadVarint(r).val), ReadVarint(r).val, ReadVarint(r).rest))
  ELSE ReadVarint(r)
IsMatrix(m) == m \in Seq(Seq(Seq(Bytes))) /\ Len(m) \in Words /\ \A i \in DOMAIN m : IsTexts(m[i])

(* What a list of lists of strings is made of.                             *)
LEMMA MatrixIs ==
  ASSUME NEW m, IsMatrix(m)
  PROVE  /\ Len(m) \in Words /\ Len(m) \in Nat
         /\ \A i \in 1..Len(m) : IsTexts(m[i]) /\ Rows(m)[i] = Texts(m[i])
         /\ ByteStrings(Rows(m), Len(m))
         /\ Matrix(m) \in Seq(Bytes) /\ Len(Matrix(m)) \in Nat
         /\ \A i \in 1..Len(m) : Len(Texts(m[i])) <= Len(Matrix(m))
<1>1. m \in Seq(Seq(Seq(Bytes))) /\ Len(m) \in Words /\ DOMAIN m = 1..Len(m)
  BY DEF IsMatrix
<1>2. PICK n \in Nat : n = Len(m) /\ n \in Words
  BY <1>1, WordFacts
<1>3. \A i \in 1..n : IsTexts(m[i]) /\ Rows(m)[i] = Texts(m[i])
  BY <1>1, <1>2 DEF IsMatrix, Rows
<1>4. \A i \in 1..n : Texts(m[i]) \in Seq(Bytes)
  BY <1>3, TextsAre
<1>5. ByteStrings(Rows(m), n)
  <2>1. Len(Rows(m)) = n /\ (n = 0 => Rows(m) = <<>>)
    BY <1>1, <1>2 DEF Rows
  <2>2. \A i \in 1..n : Rows(m)[i] \in Seq(Bytes)
    BY <1>3, <1>4
  <2> QED
    BY <2>1, <2>2 DEF ByteStrings
<1>6. /\ ListBytes(Rows(m), n) \in Seq(Bytes)
      /\ \A i \in 1..n : Len(Rows(m)[i]) <= Len(ListBytes(Rows(m), n))
  BY <1>2, <1>5, ListSize
<1>7. Matrix(m) \in Seq(Bytes) /\ Matrix(m) = ListBytes(Rows(m), n)
  BY <1>2, <1>6 DEF Matrix
<1>8. Len(Matrix(m)) \in Nat
  BY <1>7
<1>9. \A i \in 1..n : Len(Texts(m[i])) <= Len(Matrix(m))
  BY <1>3, <1>6, <1>7, Zenon
<1> QED
  BY <1>1, <1>2, <1>3, <1>5, <1>7, <1>8, <1>9, Zenon

(* A list of lists of strings is read as it was written.                   *)
LEMMA MatrixRoundTrip ==
  ASSUME NEW m, IsMatrix(m), Len(Matrix(m)) <= MaxPayloadBytes, NEW rest \in Seq(Bytes)
  PROVE  ReadMatrix(Matrix(m) \o rest) = Read(m, rest)
<1>1. /\ Len(m) \in Words /\ Len(m) \in Nat
      /\ \A i \in 1..Len(m) : IsTexts(m[i]) /\ Rows(m)[i] = Texts(m[i])
      /\ ByteStrings(Rows(m), Len(m)) /\ Len(Matrix(m)) \in Nat
      /\ \A i \in 1..Len(m) : Len(Texts(m[i])) <= Len(Matrix(m))
  BY MatrixIs
<1>2. MaxPayloadBytes \in Nat
  BY CodecAssumption, WordFacts
<1>3. ASSUME NEW i \in 1..Len(m), NEW t \in Seq(Bytes)
      PROVE  RowReaders(Len(m))[i][Rows(m)[i] \o t] = Read(m[i], t)
  <2>0. Texts(m[i]) \in Seq(Bytes)
    BY <1>1, TextsAre
  <2>1. PICK s : s = m[i] /\ IsTexts(s)
    BY <1>1
  <2>2. PICK e \in Seq(Bytes) : e = Texts(s) /\ e = Rows(m)[i]
    BY <1>1, <2>0, <2>1
  <2>3. Len(Texts(s)) <= MaxPayloadBytes
    <3>1. Len(Texts(s)) <= Len(Matrix(m)) /\ Len(Texts(s)) \in Nat
      BY <1>1, <2>1, TextsAre
    <3> QED
      BY <1>2, <1>1, <3>1
  <2>4. ReadTexts(e \o t) = Read(s, t)
    BY <2>1, <2>2, <2>3, TextsRoundTrip
  <2>5. PICK b \in Seq(Bytes) : b = e \o t
    BY <2>2, Closed
  <2>6. RowReaders(Len(m))[i][b] = ReadTexts(b)
    BY <1>1 DEF RowReaders
  <2> QED
    BY <2>1, <2>2, <2>4, <2>5, <2>6
<1>4. Decodes(RowReaders(Len(m)), Rows(m), m)
  BY <1>1, <1>3 DEF Decodes, ByteStrings
<1>5. m \in Seq(Seq(Seq(Bytes)))
  BY DEF IsMatrix
<1>6. PICK r : /\ ReadVarint(Matrix(m) \o rest) = Read(Len(m), r)
               /\ ReadEach(RowReaders(Len(m)), Len(m), r) = Read(m, rest)
  BY <1>1, <1>4, <1>5, ListRoundTrip DEF Matrix
<1>7. PICK x : x = ReadVarint(Matrix(m) \o rest)
  OBVIOUS
<1>8. x.ok /\ x.val = Len(m) /\ x.rest = r
  BY <1>6, <1>7 DEF Read
<1>9. ReadMatrix(Matrix(m) \o rest) = Allocated(Len(m), Read(m, rest))
  BY <1>6, <1>7, <1>8 DEF ReadMatrix
<1> QED
  BY <1>9, AllocatedIs, ReadFacts

-----------------------------------------------------------------------------
(* MarshalField and UnmarshalField, type by type.                          *)
Types == {"string", "object", "int", "bool", "list<string>", "list<object>", "list<list<string>>"}

(* Which codec the fields of a type have: strings, ...                     *)
LEMMA FieldString ==
  ASSUME NEW type \in {"string", "object"}, NEW v
  PROVE  /\ MarshalField(type, v) = AppendString(<<>>, v)
         /\ \A r : UnmarshalField(type, r) = ReadString(r, MaxPayloadBytes)
BY DEF MarshalField, UnmarshalField

(* ... lists of strings ...                                                *)
LEMMA FieldTexts ==
  ASSUME NEW type \in {"list<string>", "list<object>"}, NEW v, IsTexts(v)
  PROVE  /\ MarshalField(type, v) = Texts(v)
         /\ \A r : UnmarshalField(type, r) = ReadTexts(r)
<1>1. MarshalField(type, v) = AppendVarint(<<>>, Len(v)) \o FlattenSeq([i \in DOMAIN v |-> AppendString(<<>>, v[i])])
  BY DEF MarshalField, AppendList
<1>2. [i \in DOMAIN v |-> AppendString(<<>>, v[i])] = Strs(v)
  <2>1. \A i \in DOMAIN v : AppendString(<<>>, v[i]) = Str(v[i])
    BY StrIs DEF IsTexts
  <2> QED
    BY <2>1 DEF Strs
<1>3. AppendVarint(<<>>, Len(v)) = VarintBytes[Len(v)]
  BY AppendVarintIs DEF IsTexts
<1>4. ASSUME NEW r PROVE UnmarshalField(type, r) = ReadTexts(r)
  BY DEF UnmarshalField, ReadList, Then, ReadTexts, StringReaders
<1> QED
  BY <1>1, <1>2, <1>3, <1>4 DEF Texts, ListBytes

(* ... and lists of those.                                                 *)
LEMMA FieldMatrix ==
  ASSUME NEW v, IsMatrix(v)
  PROVE  /\ MarshalField("list<list<string>>", v) = Matrix(v)
         /\ \A r : UnmarshalField("list<list<string>>", r) = ReadMatrix(r)
<1>1. MarshalField("list<list<string>>", v) = AppendVarint(<<>>, Len(v)) \o
         FlattenSeq([i \in DOMAIN v |-> AppendVarint(<<>>, Len(v[i])) \o
           FlattenSeq([j \in DOMAIN v[i] |-> AppendString(<<>>, v[i][j])])])
  BY DEF MarshalField, AppendList
<1>2. \A i \in DOMAIN v : AppendVarint(<<>>, Len(v[i])) \o
           FlattenSeq([j \in DOMAIN v[i] |-> AppendString(<<>>, v[i][j])]) = Texts(v[i])
  <2> TAKE i \in DOMAIN v
  <2>1. PICK x : x = v[i] /\ IsTexts(x)
    BY DEF IsMatrix
  <2>2. MarshalField("list<string>", x) = AppendVarint(<<>>, Len(x)) \o
           FlattenSeq([j \in DOMAIN x |-> AppendString(<<>>, x[j])])
    BY DEF MarshalField, AppendList
  <2>3. MarshalField("list<string>", x) = Texts(x)
    BY <2>1, FieldTexts
  <2> QED
    BY <2>1, <2>2, <2>3
<1>3. [i \in DOMAIN v |-> AppendVarint(<<>>, Len(v[i])) \o
           FlattenSeq([j \in DOMAIN v[i] |-> AppendString(<<>>, v[i][j])])] = Rows(v)
  BY <1>2 DEF Rows
<1>4. AppendVarint(<<>>, Len(v)) = VarintBytes[Len(v)]
  BY AppendVarintIs DEF IsMatrix
<1>5. ASSUME NEW r PROVE UnmarshalField("list<list<string>>", r) = ReadMatrix(r)
  BY DEF UnmarshalField, ReadList, Then, ReadMatrix, RowReaders, ReadTexts, StringReaders
<1> QED
  BY <1>1, <1>3, <1>4, <1>5 DEF Matrix, ListBytes

(* A negative number wraps to the word above.                              *)
LEMMA ModBelow ==
  ASSUME NEW b \in Nat, b > 0, NEW a \in 0..(b - 1)
  PROVE  (a - b) % b = a
OBVIOUS

(* The two's complement.                                                   *)
LEMMA IntRoundTrip ==
  ASSUME NEW v, IsInt(v)
  PROVE  ToUint(v) \in Words /\ ToInt(ToUint(v)) = v
<1>1. Width - 1 \in 0..(Width + Group) /\ (Width - 1) + 1 = Width /\ Width \in Nat /\ Width - 1 \in Nat
  BY CodecAssumption
<1>2. 2 ^ Width \in Nat \ {0} /\ 2 ^ (Width - 1) \in Nat \ {0} /\ 2 ^ Width = 2 * 2 ^ (Width - 1)
  <2>1. PICK n \in 0..(Width + Group) : n = Width - 1 /\ n + 1 = Width
    BY <1>1
  <2>2. 2 ^ (n + 1) = 2 * 2 ^ n
    BY PowerFacts
  <2>3. n \in 0..(Width + Group + 1) /\ Width \in 0..(Width + Group + 1)
    BY CodecAssumption
  <2>4. 2 ^ n \in Nat \ {0} /\ 2 ^ Width \in Nat \ {0}
    BY <2>3, PowerFacts
  <2> QED
    BY <2>1, <2>2, <2>4, Zenon
<1>3. PICK h \in Nat \ {0}, m \in Nat \ {0} : h = 2 ^ (Width - 1) /\ m = 2 ^ Width /\ m = 2 * h
  BY <1>1, <1>2
<1>4. v \in Int /\ -h <= v /\ v <= h - 1
  BY <1>3 DEF IsInt
<1>5. CASE v >= 0
  <2>1. v \in Nat /\ v < m
    BY <1>3, <1>4, <1>5
  <2>2. v % m = v
    BY <2>1, ModFacts
  <2>3. ToUint(v) = v
    BY <2>2, <1>3 DEF ToUint
  <2>4. v \in 0..(m - 1) /\ v < h
    BY <2>1, <1>4, <1>3
  <2> QED
    BY <2>3, <2>4, <1>3 DEF ToInt, Words
<1>6. CASE v < 0
  <2>1. v % m = v + m
    <3>1. v + m \in 0..(m - 1) /\ (v + m) - m = v
      BY <1>3, <1>4, <1>6
    <3> QED
      BY <3>1, ModBelow
  <2>2. ToUint(v) = v + m
    BY <2>1, <1>3 DEF ToUint
  <2>3. v + m \in 0..(m - 1) /\ ~(v + m < h) /\ (v + m) - m = v
    BY <1>3, <1>4, <1>6
  <2> QED
    BY <2>2, <2>3, <1>3 DEF ToInt, Words
<1> QED
  BY <1>4, <1>5, <1>6

(* Every type: what MarshalField wrote, UnmarshalField reads.              *)
FieldOK(type, v) ==
  /\ MarshalField(type, v) \in Seq(Bytes)
  /\ Len(MarshalField(type, v)) <= MaxPayloadBytes =>
       \A rest \in Seq(Bytes) : UnmarshalField(type, MarshalField(type, v) \o rest) = Read(v, rest)

(* The limits are numbers.                                                 *)
LEMMA PayloadNat == MaxPayloadBytes \in Nat /\ MaxIDLen \in Nat
BY CodecAssumption, WordFacts

(* A field of a string, ...                                                *)
LEMMA FieldStringOK ==
  ASSUME NEW type \in {"string", "object"}, NEW v, IsText(v)
  PROVE  FieldOK(type, v)
<1>1. MarshalField(type, v) = Str(v) /\ Str(v) \in Seq(Bytes)
  BY FieldString, StrIs
<1>2. ASSUME Len(Str(v)) <= MaxPayloadBytes, NEW rest \in Seq(Bytes)
      PROVE  UnmarshalField(type, Str(v) \o rest) = Read(v, rest)
  <2>1. Len(v) <= MaxPayloadBytes
    BY <1>2, TextFacts, PayloadNat
  <2> QED
    BY <2>1, FieldString, StringRoundTrip, PayloadNat
<1> QED
  BY <1>1, <1>2 DEF FieldOK

(* ... of a list of strings, ...                                           *)
LEMMA FieldTextsOK ==
  ASSUME NEW type \in {"list<string>", "list<object>"}, NEW v, IsTexts(v)
  PROVE  FieldOK(type, v)
<1>1. MarshalField(type, v) = Texts(v) /\ Texts(v) \in Seq(Bytes)
  BY FieldTexts, TextsAre
<1>2. ASSUME Len(Texts(v)) <= MaxPayloadBytes, NEW rest \in Seq(Bytes)
      PROVE  UnmarshalField(type, Texts(v) \o rest) = Read(v, rest)
  BY <1>2, FieldTexts, TextsRoundTrip
<1> QED
  BY <1>1, <1>2 DEF FieldOK

(* ... of a list of those, ...                                             *)
LEMMA FieldMatrixOK ==
  ASSUME NEW v, IsMatrix(v)
  PROVE  FieldOK("list<list<string>>", v)
<1>1. MarshalField("list<list<string>>", v) = Matrix(v) /\ Matrix(v) \in Seq(Bytes)
  BY FieldMatrix, MatrixIs
<1>2. ASSUME Len(Matrix(v)) <= MaxPayloadBytes, NEW rest \in Seq(Bytes)
      PROVE  UnmarshalField("list<list<string>>", Matrix(v) \o rest) = Read(v, rest)
  BY <1>2, FieldMatrix, MatrixRoundTrip
<1> QED
  BY <1>1, <1>2 DEF FieldOK

(* ... of an integer, negative ones as large words, ...                    *)
LEMMA FieldIntOK ==
  ASSUME NEW v, IsInt(v)
  PROVE  FieldOK("int", v)
<1>0. PICK w \in Words : w = ToUint(v) /\ ToInt(w) = v
  BY IntRoundTrip
<1>1. MarshalField("int", v) = VarintBytes[w] /\ VarintBytes[w] \in Seq(Bytes)
  BY <1>0, AppendVarintIs DEF MarshalField
<1>2. ASSUME NEW rest \in Seq(Bytes)
      PROVE  UnmarshalField("int", VarintBytes[w] \o rest) = Read(v, rest)
  <2>1. PICK r : r = VarintBytes[w] \o rest
    OBVIOUS
  <2>2. ReadVarint(r) = Read(w, rest)
    BY <2>1, VarintRoundTrip
  <2>3. ReadVarint(r).ok /\ ReadVarint(r).val = w /\ ReadVarint(r).rest = rest
    BY <2>2 DEF Read
  <2>4. UnmarshalField("int", r) = IF ReadVarint(r).ok THEN Read(ToInt(ReadVarint(r).val), ReadVarint(r).rest)
                                   ELSE ReadVarint(r)
    BY DEF UnmarshalField, Then
  <2> QED
    BY <1>0, <2>1, <2>3, <2>4
<1> QED
  BY <1>1, <1>2 DEF FieldOK

(* A boolean is one byte.                                                  *)
LEMMA BoolRoundTrip ==
  ASSUME NEW v \in BOOLEAN, NEW rest \in Seq(Bytes)
  PROVE  /\ <<IF v THEN 1 ELSE 0>> \in Seq(Bytes) /\ Len(<<IF v THEN 1 ELSE 0>>) = 1
         /\ ReadBool(<<IF v THEN 1 ELSE 0>> \o rest) = Read(v, rest)
<1>1. PICK n \in {0, 1} : n = (IF v THEN 1 ELSE 0) /\ (v <=> n # 0)
  OBVIOUS
<1>2. n \in Bytes
  BY WordFacts DEF Bytes
<1>3. <<n>> \in Seq(Bytes) /\ Len(<<n>>) = 1 /\ <<n>>[1] = n
  BY <1>2
<1>4. PICK a \in Seq(Bytes) : a = <<n>> /\ Len(a) = 1 /\ a[1] = n
  BY <1>3
<1>5. Take(a \o rest, 1) = Read(a, rest)
  BY <1>4, TakeRoundTrip
<1>6. PICK r : r = a \o rest
  OBVIOUS
<1>7. Take(r, 1).ok /\ Take(r, 1).val = a /\ Take(r, 1).rest = rest
  BY <1>5, <1>6 DEF Read
<1>8. ReadBool(r) = Read(a[1] # 0, rest)
  BY <1>7 DEF ReadBool, Then
<1>9. (a[1] # 0) = v
  BY <1>1, <1>4
<1> QED
  BY <1>1, <1>4, <1>6, <1>8, <1>9

(* ... and of a boolean: each is read as it was written.                   *)
LEMMA FieldBoolOK ==
  ASSUME NEW v \in BOOLEAN
  PROVE  FieldOK("bool", v)
<1>1. MarshalField("bool", v) = <<IF v THEN 1 ELSE 0>>
  BY DEF MarshalField
<1>2. PICK b : b = <<IF v THEN 1 ELSE 0>>
  OBVIOUS
<1>3. b \in Seq(Bytes)
  <2>1. <<>> \in Seq(Bytes)
    OBVIOUS
  <2> QED
    BY <1>2, <2>1, BoolRoundTrip
<1>4. \A r : UnmarshalField("bool", r) = ReadBool(r)
  BY DEF UnmarshalField
<1>5. \A rest \in Seq(Bytes) : UnmarshalField("bool", b \o rest) = Read(v, rest)
  BY <1>2, <1>4, BoolRoundTrip
<1> QED
  BY <1>1, <1>2, <1>3, <1>5 DEF FieldOK

(* A field of any type of the schemas is read as it was written, if its    *)
(* bytes are no more than a payload may have.                              *)
THEOREM FieldRoundTrip ==
  ASSUME NEW type \in Types, NEW v, IsOf(type, v)
  PROVE  FieldOK(type, v)
<1>1. CASE type \in {"string", "object"}
  BY <1>1, FieldStringOK DEF IsOf
<1>2. CASE type = "int"
  BY <1>2, FieldIntOK DEF IsOf
<1>3. CASE type = "bool"
  BY <1>3, FieldBoolOK DEF IsOf
<1>4. CASE type \in {"list<string>", "list<object>"}
  BY <1>4, FieldTextsOK DEF IsOf
<1>5. CASE type = "list<list<string>>"
  <2>1. IsMatrix(v)
    BY <1>5 DEF IsOf, IsMatrix
  <2> QED
    BY <1>5, <2>1, FieldMatrixOK
<1> QED
  BY <1>1, <1>2, <1>3, <1>4, <1>5 DEF Types

Fields(fs) == Len(fs) \in Nat /\ DOMAIN fs = 1..Len(fs)
Returns == {"object", "list<object>", "string", "bool", "bytes", "list<list<string>>"}
InfoOK(x) ==
  /\ Fields(x.args) /\ \A i \in DOMAIN x.args : x.args[i].type \in Types
  /\ Fields(x.result) /\ x.returns \in Returns

(* Every capability, family by family.                                     *)
LEMMA InfosOK ==
  \A c \in Capability : InfoOK(Info(c))
<1>1. InfoOK(Browser_Form_Submit) /\ InfoOK(Browser_Link_List) /\
      InfoOK(Browser_Page_GetTitle) /\ InfoOK(Browser_Page_Read) /\
      InfoOK(Browser_Page_Screenshot)
  BY DEF Browser_Form_Submit, Browser_Link_List, Browser_Page_GetTitle, Browser_Page_Read,
         Browser_Page_Screenshot, InfoOK, Fields, Returns, Types, Req, Opt, OneOf,
         OptOneOf, Field, F
<1>2. InfoOK(Calendar_Event_Create) /\ InfoOK(Calendar_Event_List) /\
      InfoOK(Calendar_Event_Read) /\ InfoOK(Calendar_Slot_Find)
  BY DEF Calendar_Event_Create, Calendar_Event_List, Calendar_Event_Read,
         Calendar_Slot_Find, InfoOK, Fields, Returns, Types, Req, Opt, OneOf, OptOneOf,
         Field, F
<1>3. InfoOK(Code_Lint_Run) /\ InfoOK(Code_Script_Exec) /\ InfoOK(Code_Test_Run) /\
      InfoOK(Database_Query_Exec) /\ InfoOK(Database_Schema_Read) /\
      InfoOK(Database_Table_List)
  BY DEF Code_Lint_Run, Code_Script_Exec, Code_Test_Run, Database_Query_Exec,
         Database_Schema_Read, Database_Table_List, InfoOK, Fields, Returns, Types, Req,
         Opt, OneOf, OptOneOf, Field, F
<1>4. InfoOK(Document_Content_Append) /\ InfoOK(Document_Content_Read) /\
      InfoOK(Document_Content_Replace) /\ InfoOK(Document_Doc_List)
  BY DEF Document_Content_Append, Document_Content_Read, Document_Content_Replace,
         Document_Doc_List, InfoOK, Fields, Returns, Types, Req, Opt, OneOf, OptOneOf,
         Field, F
<1>5. InfoOK(Email_Message_Create) /\ InfoOK(Email_Message_List) /\
      InfoOK(Email_Message_Read) /\ InfoOK(Email_Message_Send)
  BY DEF Email_Message_Create, Email_Message_List, Email_Message_Read, Email_Message_Send,
         InfoOK, Fields, Returns, Types, Req, Opt, OneOf, OptOneOf, Field, F
<1>6. InfoOK(Filesystem_Dir_Create) /\ InfoOK(Filesystem_Dir_List) /\
      InfoOK(Filesystem_File_Delete) /\ InfoOK(Filesystem_File_Move) /\
      InfoOK(Filesystem_File_Read) /\ InfoOK(Filesystem_File_Write)
  BY DEF Filesystem_Dir_Create, Filesystem_Dir_List, Filesystem_File_Delete,
         Filesystem_File_Move, Filesystem_File_Read, Filesystem_File_Write, InfoOK, Fields,
         Returns, Types, Req, Opt, OneOf, OptOneOf, Field, F
<1>7. InfoOK(Media_Audio_Transcribe) /\ InfoOK(Media_Image_Analyze) /\
      InfoOK(Memory_Fact_Delete) /\ InfoOK(Memory_Fact_List) /\
      InfoOK(Memory_Fact_Search) /\ InfoOK(Memory_Fact_Store)
  BY DEF Media_Audio_Transcribe, Media_Image_Analyze, Memory_Fact_Delete, Memory_Fact_List,
         Memory_Fact_Search, Memory_Fact_Store, InfoOK, Fields, Returns, Types, Req, Opt,
         OneOf, OptOneOf, Field, F
<1>8. InfoOK(Search_Corpus_Query) /\ InfoOK(Search_Web_Query) /\
      InfoOK(Spreadsheet_Range_Read) /\ InfoOK(Spreadsheet_Range_Update) /\
      InfoOK(Spreadsheet_Row_Create) /\ InfoOK(Spreadsheet_Sheet_List)
  BY DEF Search_Corpus_Query, Search_Web_Query, Spreadsheet_Range_Read,
         Spreadsheet_Range_Update, Spreadsheet_Row_Create, Spreadsheet_Sheet_List, InfoOK,
         Fields, Returns, Types, Req, Opt, OneOf, OptOneOf, Field, F
<1>9. InfoOK(Swarm_Agent_List) /\ InfoOK(Swarm_Group_Send) /\ InfoOK(Swarm_Message_Send) /\
      InfoOK(System_Process_Exec) /\ InfoOK(System_Process_Kill) /\
      InfoOK(System_Process_List)
  BY DEF Swarm_Agent_List, Swarm_Group_Send, Swarm_Message_Send, System_Process_Exec,
         System_Process_Kill, System_Process_List, InfoOK, Fields, Returns, Types, Req,
         Opt, OneOf, OptOneOf, Field, F
<1>10. InfoOK(VersionControl_Branch_Create) /\ InfoOK(VersionControl_Branch_List) /\
      InfoOK(VersionControl_Commit_Create) /\ InfoOK(VersionControl_Diff_Read) /\
      InfoOK(VersionControl_Log_List) /\ InfoOK(VersionControl_Remote_Push)
  BY DEF VersionControl_Branch_Create, VersionControl_Branch_List,
         VersionControl_Commit_Create, VersionControl_Diff_Read, VersionControl_Log_List,
         VersionControl_Remote_Push, InfoOK, Fields, Returns, Types, Req, Opt, OneOf,
         OptOneOf, Field, F
<1>11. InfoOK(VersionControl_Status_Read)
  BY DEF VersionControl_Status_Read, InfoOK, Fields, Returns, Types, Req, Opt, OneOf,
         OptOneOf, Field, F
<1>12. Capability = 1..54
  BY DEF Capability, GeneratedCapabilityInfoRegistry
<1> QED
  BY <1>1, <1>2, <1>3, <1>4, <1>5, <1>6, <1>7, <1>8, <1>9, <1>10, <1>11, <1>12 DEF Info, GeneratedCapabilityInfoRegistry

-----------------------------------------------------------------------------
(* Records: each field as it decodes, if the whole is not too long.        *)
DecodesWithin(read, enc, v, n) ==
  \A k \in 1..n : Len(enc[k]) <= MaxPayloadBytes =>
    \A t \in Seq(Bytes) : read[k][enc[k] \o t] = Read(v[k], t)

IsRecord(v, n) == v = [i \in 1..n |-> v[i]]

(* Fields that are each read as they were written make a record that is.   *)
LEMMA RecordRoundTrip ==
  ASSUME NEW n \in Nat, NEW v, IsRecord(v, n), NEW enc, ByteStrings(enc, n),
         NEW read, DecodesWithin(read, enc, v, n)
  PROVE  /\ FlattenSeq(enc) \in Seq(Bytes) /\ Len(FlattenSeq(enc)) \in Nat
         /\ Len(FlattenSeq(enc)) <= MaxPayloadBytes =>
              \A rest \in Seq(Bytes) : ReadEach(read, n, FlattenSeq(enc) \o rest) = Read(v, rest)
<1>1. /\ FlattenSeq(enc) \in Seq(Bytes) /\ Len(FlattenSeq(enc)) \in Nat
      /\ \A k \in 1..n : Len(enc[k]) <= Len(FlattenSeq(enc))
  BY JoinedSize
<1>2. ASSUME Len(FlattenSeq(enc)) <= MaxPayloadBytes, NEW rest \in Seq(Bytes)
      PROVE  ReadEach(read, n, FlattenSeq(enc) \o rest) = Read(v, rest)
  <2> DEFINE S == {v[i] : i \in 1..n}
  <2>1. v \in Seq(S) /\ Len(v) = n
    <3>1. v \in [1..n -> S]
      <4>1. \A i \in 1..n : v[i] \in S
        OBVIOUS
      <4> HIDE DEF S
      <4> QED
        BY <4>1 DEF IsRecord
    <3> HIDE DEF S
    <3> QED
      BY <3>1
  <2> HIDE DEF S
  <2>2. \A k \in 1..n : enc[k] \in Seq(Bytes)
    BY DEF ByteStrings
  <2>3. ASSUME NEW k \in 1..n PROVE Len(enc[k]) <= MaxPayloadBytes
    <3>1. PICK a \in Seq(Bytes) : a = enc[k]
      BY <2>2
    <3>2. Len(a) \in Nat /\ Len(a) <= Len(FlattenSeq(enc))
      BY <1>1, <3>1
    <3> QED
      BY <1>1, <1>2, <3>1, <3>2, PayloadNat
  <2>4. \A k \in 1..n : \A t \in Seq(Bytes) : read[k][enc[k] \o t] = Read(v[k], t)
    BY <2>3, Zenon DEF DecodesWithin
  <2>5. Len(enc) = Len(v) /\ (Len(v) = 0 => enc = <<>>)
    BY <2>1 DEF ByteStrings
  <2>6. Decodes(read, enc, v)
    BY <2>1, <2>2, <2>4, <2>5, Zenon DEF Decodes
  <2> QED
    BY <2>1, <2>6, JoinedRoundTrip
<1> QED
  BY <1>1, <1>2

(* The arguments of a capability.                                          *)
IsArgs(c, v) ==
  /\ v = [i \in DOMAIN Info(c).args |-> v[i]]
  /\ \A i \in DOMAIN Info(c).args : IsOf(Info(c).args[i].type, v[i])

(* The arguments of any capability are read as they were written, and what *)
(* follows them is left alone.                                             *)
THEOREM ArgsRoundTrip ==
  ASSUME NEW c \in Capability, NEW v, IsArgs(c, v)
  PROVE  /\ MarshalArgs(c, v) \in Seq(Bytes) /\ Len(MarshalArgs(c, v)) \in Nat
         /\ Len(MarshalArgs(c, v)) <= MaxPayloadBytes =>
              \A rest \in Seq(Bytes) : UnmarshalArgs(c, MarshalArgs(c, v) \o rest) = Read(v, rest)
<1> DEFINE fields == Info(c).args
           enc == [i \in DOMAIN v |-> MarshalField(Info(c).args[i].type, v[i])]
           read == [i \in DOMAIN fields |-> [s \in Seq(Bytes) |-> UnmarshalField(fields[i].type, s)]]
<1>1. PICK n \in Nat : n = Len(fields) /\ DOMAIN fields = 1..n /\ \A i \in 1..n : fields[i].type \in Types
  BY InfosOK DEF InfoOK, Fields
<1>2. v = [i \in 1..n |-> v[i]] /\ DOMAIN v = 1..n /\ \A i \in 1..n : IsOf(fields[i].type, v[i])
  BY <1>1 DEF IsArgs
<1>3. MarshalArgs(c, v) = FlattenSeq(enc)
  BY DEF MarshalArgs
<1>4. \A r : UnmarshalArgs(c, r) = ReadEach(read, n, r)
  BY <1>1 DEF UnmarshalArgs
<1>5. \A i \in 1..n : FieldOK(fields[i].type, v[i])
  BY <1>1, <1>2, FieldRoundTrip
<1>6. \A i \in 1..n : enc[i] = MarshalField(fields[i].type, v[i])
  BY <1>2
<1>7. \A i \in 1..n : \A s \in Seq(Bytes) : read[i][s] = UnmarshalField(fields[i].type, s)
  BY <1>1
<1>8. Len(enc) = n /\ (n = 0 => enc = <<>>)
  BY <1>2
<1> HIDE DEF enc, read, fields
<1>9. ByteStrings(enc, n)
  BY <1>5, <1>6, <1>8 DEF ByteStrings, FieldOK
<1>10. ASSUME NEW i \in 1..n, Len(enc[i]) <= MaxPayloadBytes, NEW t \in Seq(Bytes)
       PROVE  read[i][enc[i] \o t] = Read(v[i], t)
  <2>1. PICK e \in Seq(Bytes) : e = enc[i] /\ e = MarshalField(fields[i].type, v[i])
    BY <1>5, <1>6 DEF FieldOK
  <2>2. PICK b \in Seq(Bytes) : b = e \o t
    BY Closed
  <2>3. UnmarshalField(fields[i].type, b) = Read(v[i], t)
    BY <1>5, <1>10, <2>1, <2>2 DEF FieldOK
  <2> QED
    BY <1>7, <2>1, <2>2, <2>3
<1>11. DecodesWithin(read, enc, v, n)
  BY <1>10 DEF DecodesWithin
<1>12. /\ FlattenSeq(enc) \in Seq(Bytes) /\ Len(FlattenSeq(enc)) \in Nat
       /\ Len(FlattenSeq(enc)) <= MaxPayloadBytes =>
            \A rest \in Seq(Bytes) : ReadEach(read, n, FlattenSeq(enc) \o rest) = Read(v, rest)
  <2>1. IsRecord(v, n)
    BY <1>2 DEF IsRecord
  <2> QED
    BY <2>1, <1>9, <1>11, RecordRoundTrip
<1> QED
  BY <1>3, <1>4, <1>12, Zenon

-----------------------------------------------------------------------------
(* The results of a capability.  Fields that are lists are not carried.    *)
IsItem(fields, x) == \A i \in DOMAIN fields : OnTheWire(fields[i]) => IsOf(fields[i].type, x[i])
Item(fields, x) ==
  [i \in DOMAIN fields |-> IF OnTheWire(fields[i]) THEN x[i] ELSE ZeroValue(fields[i].type)]

(* An object of a result is read as it was written, but for the fields     *)
(* without a line in MarshalMUS.                                           *)
LEMMA ItemRoundTrip ==
  ASSUME NEW fields, Fields(fields), NEW x, IsItem(fields, x)
  PROVE  /\ MarshalResult(fields, x) \in Seq(Bytes) /\ Len(MarshalResult(fields, x)) \in Nat
         /\ Len(MarshalResult(fields, x)) <= MaxPayloadBytes =>
              \A rest \in Seq(Bytes) :
                UnmarshalResult(fields, MarshalResult(fields, x) \o rest) = Read(Item(fields, x), rest)
<1> DEFINE v == Item(fields, x)
           enc == [i \in DOMAIN fields |->
                    IF OnTheWire(fields[i]) THEN MarshalField(fields[i].type, x[i]) ELSE <<>>]
           read == [i \in DOMAIN fields |-> [s \in Seq(Bytes) |->
                 IF OnTheWire(fields[i]) THEN UnmarshalField(fields[i].type, s)
                 ELSE Read(ZeroValue(fields[i].type), s)]]
<1>1. PICK n \in Nat : n = Len(fields) /\ DOMAIN fields = 1..n
  BY DEF Fields
<1>2. IsRecord(v, n)
  BY <1>1 DEF IsRecord, Item
<1>3. MarshalResult(fields, x) = FlattenSeq(enc)
  BY DEF MarshalResult
<1>4. \A r : UnmarshalResult(fields, r) = ReadEach(read, n, r)
  BY <1>1 DEF UnmarshalResult
<1>5. \A i \in 1..n : OnTheWire(fields[i]) => FieldOK(fields[i].type, x[i])
  BY <1>1, FieldRoundTrip DEF OnTheWire, Types, IsItem
<1>6. \A i \in 1..n : /\ OnTheWire(fields[i]) => enc[i] = MarshalField(fields[i].type, x[i]) /\ v[i] = x[i]
                      /\ ~OnTheWire(fields[i]) => enc[i] = <<>> /\ v[i] = ZeroValue(fields[i].type)
  BY <1>1 DEF Item
<1>7. \A i \in 1..n : \A s \in Seq(Bytes) :
         /\ OnTheWire(fields[i]) => read[i][s] = UnmarshalField(fields[i].type, s)
         /\ ~OnTheWire(fields[i]) => read[i][s] = Read(ZeroValue(fields[i].type), s)
  BY <1>1
<1>8. Len(enc) = n /\ (n = 0 => enc = <<>>)
  BY <1>1
<1> HIDE DEF enc, read, v
<1>9. ByteStrings(enc, n)
  <2>1. <<>> \in Seq(Bytes)
    OBVIOUS
  <2> QED
    BY <2>1, <1>5, <1>6, <1>8 DEF ByteStrings, FieldOK
<1>10. ASSUME NEW i \in 1..n, Len(enc[i]) <= MaxPayloadBytes, NEW t \in Seq(Bytes)
       PROVE  read[i][enc[i] \o t] = Read(v[i], t)
  <2>0. CASE ~OnTheWire(fields[i])
    <3>1. enc[i] \o t = t
      <4>1. PICK e : e = <<>> /\ enc[i] = e
        BY <1>6, <2>0
      <4>2. e \o t = t
        BY <4>1, ConcatEmptySeq
      <4> QED
        BY <4>1, <4>2
    <3> QED
      BY <1>6, <1>7, <2>0, <3>1
  <2>1. CASE OnTheWire(fields[i])
    <3>1. PICK e \in Seq(Bytes) : e = enc[i] /\ e = MarshalField(fields[i].type, x[i])
      BY <1>5, <1>6, <2>1 DEF FieldOK
    <3>2. PICK b \in Seq(Bytes) : b = e \o t
      BY Closed
    <3>3. UnmarshalField(fields[i].type, b) = Read(x[i], t)
      BY <1>5, <1>10, <2>1, <3>1, <3>2 DEF FieldOK
    <3> QED
      BY <1>6, <1>7, <2>1, <3>1, <3>2, <3>3
  <2> QED
    BY <2>0, <2>1
<1>11. DecodesWithin(read, enc, v, n)
  BY <1>10 DEF DecodesWithin
<1>12. /\ FlattenSeq(enc) \in Seq(Bytes) /\ Len(FlattenSeq(enc)) \in Nat
       /\ Len(FlattenSeq(enc)) <= MaxPayloadBytes =>
            \A rest \in Seq(Bytes) : ReadEach(read, n, FlattenSeq(enc) \o rest) = Read(v, rest)
  BY <1>2, <1>9, <1>11, RecordRoundTrip
<1> QED
  BY <1>3, <1>4, <1>12, Zenon DEF v

-----------------------------------------------------------------------------
Items(fields, v) == [i \in DOMAIN v |-> MarshalResult(fields, v[i])]
CarriedItems(fields, v) == [i \in DOMAIN v |-> Item(fields, v[i])]
ItemReaders(fields, n) == [i \in 1..n |-> [s \in Seq(Bytes) |-> UnmarshalResult(fields, s)]]
IsItems(fields, v) ==
  Fields(v) /\ Len(v) \in Words /\ \A i \in DOMAIN v : IsItem(fields, v[i])

(* A list of such objects likewise.                                        *)
LEMMA ItemsRoundTrip ==
  ASSUME NEW fields, Fields(fields), NEW v, IsItems(fields, v)
  PROVE  /\ ListBytes(Items(fields, v), Len(v)) \in Seq(Bytes)
         /\ Len(ListBytes(Items(fields, v), Len(v))) <= MaxPayloadBytes =>
              \A rest \in Seq(Bytes) : \E r :
                /\ ReadVarint(ListBytes(Items(fields, v), Len(v)) \o rest) = Read(Len(v), r)
                /\ ReadEach(ItemReaders(fields, Len(v)), Len(v), r) = Read(CarriedItems(fields, v), rest)
<1>1. PICK n \in Nat : n = Len(v) /\ DOMAIN v = 1..n /\ n \in Words
  BY DEF IsItems, Fields
<1> DEFINE enc == Items(fields, v)
           cs == CarriedItems(fields, v)
           b == ListBytes(enc, n)
<1>2. \A i \in 1..n : /\ enc[i] = MarshalResult(fields, v[i]) /\ cs[i] = Item(fields, v[i])
                      /\ IsItem(fields, v[i])
  BY <1>1 DEF Items, CarriedItems, IsItems
<1>3. \A i \in 1..n : enc[i] \in Seq(Bytes)
  BY <1>2, ItemRoundTrip
<1>4. Len(enc) = n /\ (n = 0 => enc = <<>>)
  BY <1>1 DEF Items
<1>5. ByteStrings(enc, n)
  BY <1>3, <1>4 DEF ByteStrings
<1>6. b \in Seq(Bytes) /\ \A k \in 1..n : Len(enc[k]) <= Len(b)
  BY <1>1, <1>5, ListSize
<1>7. ASSUME Len(b) <= MaxPayloadBytes, NEW rest \in Seq(Bytes)
      PROVE  \E r : /\ ReadVarint(b \o rest) = Read(n, r)
                    /\ ReadEach(ItemReaders(fields, n), n, r) = Read(cs, rest)
  <2> DEFINE S == {cs[i] : i \in 1..n}
  <2>1. cs \in Seq(S) /\ Len(cs) = n
    <3>1. cs \in [1..n -> S]
      BY <1>1 DEF CarriedItems
    <3> HIDE DEF S, cs
    <3> QED
      BY <3>1
  <2> HIDE DEF S
  <2>2. ASSUME NEW k \in 1..n, NEW t \in Seq(Bytes)
        PROVE  ItemReaders(fields, n)[k][enc[k] \o t] = Read(cs[k], t)
    <3>1. PICK e, x : /\ e \in Seq(Bytes) /\ e = enc[k] /\ x = v[k]
                      /\ e = MarshalResult(fields, x) /\ IsItem(fields, x)
      BY <1>2, <1>3
    <3>2. Len(e) <= MaxPayloadBytes
      <4> HIDE DEF enc, b, cs
      <4>1. Len(e) \in Nat /\ Len(b) \in Nat
        <5>1. b \in Seq(Bytes)
          BY <1>6
        <5>2. PICK y \in Seq(Bytes) : y = b
          BY <5>1
        <5>3. Len(y) \in Nat /\ Len(e) \in Nat
          OBVIOUS
        <5> QED
          BY <5>2, <5>3
      <4>2. Len(e) <= Len(b)
        <5>1. Len(enc[k]) <= Len(b)
          BY <1>6
        <5> QED
          BY <3>1, <5>1, Zenon
      <4> QED
        BY <4>1, <4>2, <1>7, PayloadNat
    <3>3. UnmarshalResult(fields, e \o t) = Read(Item(fields, x), t)
      BY <3>1, <3>2, ItemRoundTrip
    <3>4. PICK y \in Seq(Bytes) : y = e \o t
      <4>1. e \in Seq(Bytes)
        BY <3>1
      <4> QED
        BY <4>1, Closed
    <3>5. ItemReaders(fields, n)[k][y] = UnmarshalResult(fields, y)
      BY DEF ItemReaders
    <3>6. cs[k] = Item(fields, x)
      BY <1>2, <3>1
    <3> HIDE DEF enc, cs, b
    <3> QED
      BY <3>1, <3>3, <3>4, <3>5, <3>6, Zenon
  <2> HIDE DEF enc, cs, b
  <2>3. Decodes(ItemReaders(fields, n), enc, cs)
    BY <1>3, <1>4, <2>1, <2>2 DEF Decodes
  <2>4. \E r : /\ ReadVarint(ListBytes(enc, n) \o rest) = Read(n, r)
               /\ ReadEach(ItemReaders(fields, n), n, r) = Read(cs, rest)
    BY <1>1, <2>1, <2>3, ListRoundTrip
  <2> QED
    BY <2>4 DEF b
<1> QED
  BY <1>1, <1>6, <1>7

(* The empty string of bytes.                                              *)
LEMMA NoBytes == <<>> \in Seq(Bytes) /\ \A b \in Seq(Bytes) : b \o <<>> = b
<1>1. <<>> \in Seq(Bytes)
  OBVIOUS
<1>2. \A b \in Seq(Bytes) : b \o <<>> = b
  BY ConcatEmptySeq
<1> QED
  BY <1>1, <1>2

IsResultOf(c, v) ==
  CASE Info(c).returns = "object" -> IsItem(Info(c).result, v)
    [] Info(c).returns = "list<object>" -> IsItems(Info(c).result, v)
    [] OTHER -> IsOf(Info(c).returns, v)

ResultOK(c, v) ==
  /\ EncodeResult(c, v) \in Seq(Bytes)
  /\ Len(EncodeResult(c, v)) <= MaxPayloadBytes =>
       /\ DecodeResult(c, EncodeResult(c, v)).ok
       /\ DecodeResult(c, EncodeResult(c, v)).val = Carried(c, v)

(* The result of a capability that returns an object, ...                  *)
LEMMA ResultObject ==
  ASSUME NEW c \in Capability, Info(c).returns = "object", NEW v, IsResultOf(c, v)
  PROVE  ResultOK(c, v)
<1>1. Fields(Info(c).result) /\ IsItem(Info(c).result, v)
  BY InfosOK DEF InfoOK, IsResultOf
<1>2. PICK fields : fields = Info(c).result
  OBVIOUS
<1>3. EncodeResult(c, v) = MarshalResult(fields, v) /\ Carried(c, v) = Item(fields, v)
  BY <1>2 DEF EncodeResult, Carried, Item
<1>4. \A d : DecodeResult(c, d) = UnmarshalResult(fields, d)
  BY <1>2 DEF DecodeResult
<1>5. PICK m \in Seq(Bytes) : m = MarshalResult(fields, v)
  BY <1>1, <1>2, ItemRoundTrip
<1>6. ASSUME Len(m) <= MaxPayloadBytes
      PROVE  UnmarshalResult(fields, m) = Read(Item(fields, v), <<>>)
  <2>1. PICK e \in Seq(Bytes) : e = <<>>
    BY NoBytes
  <2>2. UnmarshalResult(fields, m \o e) = Read(Item(fields, v), e)
    BY <1>1, <1>2, <1>5, <1>6, ItemRoundTrip
  <2>3. m \o e = m
    BY <2>1, ConcatEmptySeq
  <2> QED
    BY <2>1, <2>2, <2>3
<1>7. ASSUME Len(m) <= MaxPayloadBytes
      PROVE  UnmarshalResult(fields, m).ok /\ UnmarshalResult(fields, m).val = Item(fields, v)
  BY <1>6, <1>7, ReadIs
<1> QED
  BY <1>3, <1>4, <1>5, <1>7 DEF ResultOK

(* ... a list of objects, ...                                              *)
LEMMA ResultObjects ==
  ASSUME NEW c \in Capability, Info(c).returns = "list<object>", NEW v, IsResultOf(c, v)
  PROVE  ResultOK(c, v)
<1>1. Fields(Info(c).result) /\ IsItems(Info(c).result, v)
  BY InfosOK DEF InfoOK, IsResultOf
<1>2. PICK fields : fields = Info(c).result
  OBVIOUS
<1>3. Len(v) \in Words
  BY <1>1 DEF IsItems
<1>4. PICK b : b = ListBytes(Items(fields, v), Len(v))
  OBVIOUS
<1>5. EncodeResult(c, v) = b
  <2>1. EncodeResult(c, v) = AppendVarint(<<>>, Len(v)) \o FlattenSeq([i \in DOMAIN v |-> MarshalResult(fields, v[i])])
    BY <1>2 DEF EncodeResult, AppendList
  <2>2. AppendVarint(<<>>, Len(v)) = VarintBytes[Len(v)]
    BY <1>3, AppendVarintIs
  <2> QED
    BY <1>4, <2>1, <2>2 DEF ListBytes, Items
<1>6. Carried(c, v) = CarriedItems(fields, v)
  BY <1>2 DEF Carried, CarriedItems, Item
<1>7. \A d : DecodeResult(c, d) = IF ReadVarint(d).ok
               THEN Allocated(ReadVarint(d).val,
                      ReadEach(ItemReaders(fields, ReadVarint(d).val), ReadVarint(d).val, ReadVarint(d).rest))
               ELSE ReadVarint(d)
  BY <1>2 DEF DecodeResult, ReadList, Then, ItemReaders
<1>8. /\ b \in Seq(Bytes)
      /\ Len(b) <= MaxPayloadBytes => \A rest \in Seq(Bytes) : \E r :
                /\ ReadVarint(b \o rest) = Read(Len(v), r)
                /\ ReadEach(ItemReaders(fields, Len(v)), Len(v), r) = Read(CarriedItems(fields, v), rest)
  BY <1>1, <1>2, <1>4, ItemsRoundTrip
<1>9. ASSUME Len(b) <= MaxPayloadBytes
      PROVE  DecodeResult(c, b).ok /\ DecodeResult(c, b).val = CarriedItems(fields, v)
  <2>1. PICK e \in Seq(Bytes) : e = <<>> /\ b \o e = b
    BY <1>8, NoBytes
  <2>2. PICK r : /\ ReadVarint(b \o e) = Read(Len(v), r)
                 /\ ReadEach(ItemReaders(fields, Len(v)), Len(v), r) = Read(CarriedItems(fields, v), e)
    BY <1>8, <1>9, <2>1
  <2>3. ReadVarint(b).ok /\ ReadVarint(b).val = Len(v) /\ ReadVarint(b).rest = r
    BY <2>1, <2>2, ReadIs
  <2>4. DecodeResult(c, b) = Read(CarriedItems(fields, v), e)
    <3>1. DecodeResult(c, b) = Allocated(Len(v), Read(CarriedItems(fields, v), e))
      BY <1>7, <2>2, <2>3
    <3> QED
      BY <3>1, AllocatedIs, ReadFacts
  <2> QED
    BY <2>4, ReadIs
<1> QED
  BY <1>5, <1>6, <1>8, <1>9 DEF ResultOK

(* ... or a plain value: ...                                               *)
LEMMA ResultPlain ==
  ASSUME NEW c \in Capability, Info(c).returns \in {"string", "bool", "bytes", "list<list<string>>"},
         NEW v, IsResultOf(c, v)
  PROVE  ResultOK(c, v)
<1> DEFINE type == Info(c).returns
<1>1. IsOf(type, v) /\ Carried(c, v) = v
  BY DEF IsResultOf, Carried
<1>2. CASE type = "bytes"
  <2>1. EncodeResult(c, v) = v /\ DecodeResult(c, v) = Read(v, <<>>)
    BY <1>2 DEF EncodeResult, DecodeResult
  <2>2. v \in Seq(Bytes)
    BY <1>1, <1>2 DEF IsOf, IsText
  <2>3. DecodeResult(c, v).ok /\ DecodeResult(c, v).val = v
    BY <2>1, ReadIs
  <2> QED
    BY <1>1, <2>1, <2>2, <2>3 DEF ResultOK
<1>3. CASE type # "bytes"
  <2>1. PICK m : m = EncodeResult(c, v) /\ m = MarshalField(type, v)
    BY <1>3 DEF EncodeResult
  <2>2. FieldOK(type, v)
    BY <1>1, <1>3, FieldRoundTrip DEF Types
  <2>3. PICK e \in Seq(Bytes) : e = <<>>
    BY NoBytes
  <2>4. m \in Seq(Bytes)
    BY <2>1, <2>2 DEF FieldOK
  <2>5. m \o e = m
    BY <2>3, <2>4, ConcatEmptySeq
  <2>6. ASSUME Len(m) <= MaxPayloadBytes PROVE UnmarshalField(type, m) = Read(v, e)
    BY <2>1, <2>2, <2>5, <2>6 DEF FieldOK
  <2>7. ASSUME Len(m) <= MaxPayloadBytes PROVE DecodeResult(c, m) = Read(v, e)
    <3>1. CASE type = "string"
      <4>1. DecodeResult(c, m) = ReadString(m, MaxPayloadBytes)
        BY <3>1 DEF DecodeResult
      <4> QED
        BY <2>6, <2>7, <3>1, <4>1, FieldString
    <3>2. CASE type = "bool"
      <4>1. v \in BOOLEAN
        BY <1>1, <3>2 DEF IsOf
      <4>2. m = <<IF v THEN 1 ELSE 0>>
        BY <2>1, <3>2 DEF MarshalField
      <4>3. Len(m) = 1
        BY <2>3, <4>1, <4>2, BoolRoundTrip
      <4>4. DecodeResult(c, m) = ReadBool(m)
        BY <3>2, <4>3 DEF DecodeResult
      <4>5. UnmarshalField(type, m) = ReadBool(m)
        BY <3>2 DEF UnmarshalField
      <4> QED
        BY <2>6, <2>7, <4>4, <4>5
    <3>3. CASE type = "list<list<string>>"
      <4>1. PICK u : u = UnmarshalField("list<list<string>>", m)
        OBVIOUS
      <4>2. u.ok /\ u.rest = <<>> /\ u = Read(v, e)
        BY <2>3, <2>6, <2>7, <3>3, <4>1, ReadIs
      <4>3. DecodeResult(c, m) = u
        BY <3>3, <4>1, <4>2 DEF DecodeResult, DecodeStringMatrix, Then
      <4> QED
        BY <4>2, <4>3
    <3> QED
      BY <1>3, <3>1, <3>2, <3>3
  <2>8. ASSUME Len(m) <= MaxPayloadBytes PROVE DecodeResult(c, m).ok /\ DecodeResult(c, m).val = v
    BY <2>7, <2>8, ReadIs
  <2> QED
    BY <1>1, <2>1, <2>4, <2>8 DEF ResultOK
<1> QED
  BY <1>2, <1>3

(* ... it is decoded to what Carried says, if its bytes are no more than a *)
(* payload may have.                                                       *)
THEOREM ResultRoundTrip ==
  ASSUME NEW c \in Capability, NEW v, IsResultOf(c, v)
  PROVE  ResultOK(c, v)
<1>1. Info(c).returns \in Returns
  BY InfosOK DEF InfoOK
<1> QED
  BY <1>1, ResultObject, ResultObjects, ResultPlain DEF Returns

-----------------------------------------------------------------------------
(* The payloads.                                                           *)
LEMMA OneByte ==
  ASSUME NEW n \in Bytes
  PROVE  <<n>> \in Seq(Bytes) /\ Len(<<n>>) = 1 /\ <<n>>[1] = n
OBVIOUS

(* What is cut off is bytes.                                               *)
LEMMA CutTyped ==
  ASSUME NEW b \in Seq(Bytes), NEW k \in 0..(Len(b) - 1)
  PROVE  SubSeq(b, 1, k) \in Seq(Bytes)
OBVIOUS

(* One byte, and what follows it.                                          *)
LEMMA TakeOne ==
  ASSUME NEW m \in Seq(Bytes), Len(m) = 1, NEW rest \in Seq(Bytes)
  PROVE  Take(m \o rest, 1) = Read(m, rest)
<1>1. PICK n : n = Len(m) /\ n = 1
  OBVIOUS
<1>2. Take(m \o rest, n) = Read(m, rest)
  BY <1>1, TakeRoundTrip
<1> QED
  BY <1>1, <1>2

IsToolRequest(p) ==
  /\ IsText(p.capability) /\ Len(p.capability) <= MaxIDLen
  /\ p.mode \in Bytes /\ IsText(p.args)

(* A request of a tool is read as it was written, and not before its last  *)
(* byte is there.                                                          *)
LEMMA ToolRequestParts ==
  ASSUME NEW p, IsToolRequest(p)
  PROVE  \E a \in Seq(Bytes), m \in Seq(Bytes), b \in Seq(Bytes) :
           /\ a = Str(p.capability) /\ m = <<p.mode>> /\ b = Str(p.args)
           /\ Len(m) = 1 /\ m[1] = p.mode
           /\ MarshalToolRequest(p) = a \o (m \o b) /\ m \o b \in Seq(Bytes)
           /\ MarshalToolRequest(p) \in Seq(Bytes)
<1>1. PICK a \in Seq(Bytes), b \in Seq(Bytes), v \in Seq(Bytes), s \in Seq(Bytes) :
        /\ a = Str(p.capability) /\ b = Str(p.args) /\ s = p.args
        /\ v = VarintBytes[Len(p.args)] /\ b = v \o s
  BY TextFacts DEF IsToolRequest, Str
<1>2. PICK m \in Seq(Bytes) : m = <<p.mode>> /\ Len(m) = 1 /\ m[1] = p.mode
  BY OneByte DEF IsToolRequest
<1>3. AppendString(<<>>, p.capability) = a
  BY <1>1, StrIs DEF IsToolRequest
<1>4. MarshalToolRequest(p) = ((a \o m) \o v) \o s
  BY <1>1, <1>2, <1>3 DEF MarshalToolRequest, AppendVarint
<1>5. a \o m \in Seq(Bytes) /\ m \o b \in Seq(Bytes) /\ a \o (m \o b) \in Seq(Bytes)
  BY Closed
<1>6. ((a \o m) \o v) \o s = (a \o m) \o (v \o s)
  BY <1>5, Assoc3, SMTT(30)
<1>7. (a \o m) \o b = a \o (m \o b)
  BY Assoc3
<1>8. MarshalToolRequest(p) = a \o (m \o b)
  BY <1>1, <1>4, <1>6, <1>7
<1> QED
  BY <1>1, <1>2, <1>5, <1>8

(* How a request of a tool is read, part by part.                          *)
LEMMA ToolRequestRead ==
  ASSUME NEW r
  PROVE  UnmarshalToolRequest(r) =
           IF ReadString(r, MaxIDLen).ok
           THEN IF Take(ReadString(r, MaxIDLen).rest, 1).ok
                THEN IF ReadBytes(Take(ReadString(r, MaxIDLen).rest, 1).rest).ok
                     THEN Read([capability |-> ReadString(r, MaxIDLen).val,
                                mode |-> Take(ReadString(r, MaxIDLen).rest, 1).val[1],
                                args |-> ReadBytes(Take(ReadString(r, MaxIDLen).rest, 1).rest).val],
                               ReadBytes(Take(ReadString(r, MaxIDLen).rest, 1).rest).rest)
                     ELSE ReadBytes(Take(ReadString(r, MaxIDLen).rest, 1).rest)
                ELSE Take(ReadString(r, MaxIDLen).rest, 1)
           ELSE ReadString(r, MaxIDLen)
BY DEF UnmarshalToolRequest, Then

(* A request of a tool is read as it was written.                          *)
THEOREM ToolRequestRoundTrip ==
  ASSUME NEW p, IsToolRequest(p)
  PROVE  /\ MarshalToolRequest(p) \in Seq(Bytes)
         /\ UnmarshalToolRequest(MarshalToolRequest(p)) =
              Read([capability |-> p.capability, mode |-> p.mode, args |-> p.args], <<>>)
<1>1. PICK a \in Seq(Bytes), m \in Seq(Bytes), b \in Seq(Bytes) :
           /\ a = Str(p.capability) /\ m = <<p.mode>> /\ b = Str(p.args)
           /\ Len(m) = 1 /\ m[1] = p.mode
           /\ MarshalToolRequest(p) = a \o (m \o b) /\ m \o b \in Seq(Bytes)
           /\ MarshalToolRequest(p) \in Seq(Bytes)
  BY ToolRequestParts
<1>2. PICK r, mb \in Seq(Bytes), e \in Seq(Bytes) : r = a \o mb /\ mb = m \o b /\ e = <<>> /\ b \o e = b
  BY <1>1, NoBytes
<1>3. ReadString(r, MaxIDLen) = Read(p.capability, mb)
  BY <1>1, <1>2, StringRoundTrip, PayloadNat DEF IsToolRequest
<1>4. Take(mb, 1) = Read(m, b)
  BY <1>1, <1>2, TakeOne
<1>5. ReadBytes(b) = Read(p.args, e)
  BY <1>1, <1>2, BytesRoundTrip DEF IsToolRequest
<1>6. /\ ReadString(r, MaxIDLen).ok /\ ReadString(r, MaxIDLen).val = p.capability
      /\ ReadString(r, MaxIDLen).rest = mb
  BY <1>3, ReadIs
<1>7. Take(mb, 1).ok /\ Take(mb, 1).val = m /\ Take(mb, 1).rest = b
  BY <1>4, ReadIs
<1>8. ReadBytes(b).ok /\ ReadBytes(b).val = p.args /\ ReadBytes(b).rest = e
  BY <1>5, ReadIs
<1>9. UnmarshalToolRequest(r) = Read([capability |-> p.capability, mode |-> m[1], args |-> p.args], e)
  BY <1>6, <1>7, <1>8, ToolRequestRead
<1> QED
  BY <1>1, <1>2, <1>9

(* A request of a tool that is cut off is not read, wherever the cut is.   *)
THEOREM ToolRequestCut ==
  ASSUME NEW p, IsToolRequest(p), NEW k \in 0..(Len(MarshalToolRequest(p)) - 1)
  PROVE  ~UnmarshalToolRequest(SubSeq(MarshalToolRequest(p), 1, k)).ok
<1>1. PICK a \in Seq(Bytes), m \in Seq(Bytes), b \in Seq(Bytes) :
           /\ a = Str(p.capability) /\ m = <<p.mode>> /\ b = Str(p.args)
           /\ Len(m) = 1 /\ m[1] = p.mode
           /\ MarshalToolRequest(p) = a \o (m \o b) /\ m \o b \in Seq(Bytes)
           /\ MarshalToolRequest(p) \in Seq(Bytes)
  BY ToolRequestParts
<1>2. PICK mb \in Seq(Bytes) : mb = m \o b
  BY <1>1
<1>3. k \in 0..(Len(a) + Len(mb) - 1)
  <2>1. Len(a \o mb) = Len(a) + Len(mb)
    BY Split
  <2>2. MarshalToolRequest(p) = a \o mb
    BY <1>1, <1>2
  <2> QED
    BY <2>1, <2>2
<1>4. PICK r : r = SubSeq(a \o mb, 1, k) /\ r = SubSeq(MarshalToolRequest(p), 1, k)
  BY <1>1, <1>2
<1>5. \/ k < Len(a) /\ r = SubSeq(a, 1, k) /\ k \in 0..(Len(a) - 1)
      \/ k - Len(a) \in 0..(Len(mb) - 1) /\ r = a \o SubSeq(mb, 1, k - Len(a))
  BY <1>3, <1>4, CutOfTwo
<1>6. ~UnmarshalToolRequest(r).ok
  <2>1. CASE k < Len(a) /\ r = SubSeq(a, 1, k) /\ k \in 0..(Len(a) - 1)
    <3>1. ~ReadString(r, MaxIDLen).ok
      BY <1>1, <2>1, StringCut, PayloadNat DEF IsToolRequest
    <3> QED
      BY <3>1, ToolRequestRead
  <2>2. CASE k - Len(a) \in 0..(Len(mb) - 1) /\ r = a \o SubSeq(mb, 1, k - Len(a))
    <3>1. PICK j : j = k - Len(a) /\ j \in 0..(Len(mb) - 1)
      BY <2>2
    <3>2. PICK t \in Seq(Bytes) : t = SubSeq(mb, 1, j)
      BY <3>1, CutTyped
    <3>3. ReadString(r, MaxIDLen) = Read(p.capability, t)
      BY <1>1, <2>2, <3>1, <3>2, StringRoundTrip, PayloadNat DEF IsToolRequest
    <3>4. ReadString(r, MaxIDLen).ok /\ ReadString(r, MaxIDLen).rest = t
      BY <3>3, ReadIs
    <3>5. j \in 0..(Len(m) + Len(b) - 1)
      <4>1. Len(m \o b) = Len(m) + Len(b)
        BY Split
      <4> QED
        BY <1>2, <3>1, <4>1
    <3>6. \/ j < Len(m) /\ t = SubSeq(m, 1, j) /\ j \in 0..(Len(m) - 1)
          \/ j - Len(m) \in 0..(Len(b) - 1) /\ t = m \o SubSeq(b, 1, j - Len(m))
      BY <1>2, <3>2, <3>5, CutOfTwo
    <3>7. CASE j < Len(m) /\ t = SubSeq(m, 1, j) /\ j \in 0..(Len(m) - 1)
      <4>1. ~Take(t, 1).ok
        BY <1>1, <3>7, TakeCut
      <4> QED
        BY <3>4, <4>1, ToolRequestRead
    <3>8. CASE j - Len(m) \in 0..(Len(b) - 1) /\ t = m \o SubSeq(b, 1, j - Len(m))
      <4>1. PICK i : i = j - Len(m) /\ i \in 0..(Len(b) - 1)
        BY <3>8
      <4>2. PICK u \in Seq(Bytes) : u = SubSeq(b, 1, i)
        BY <4>1, CutTyped
      <4>3. Take(t, 1) = Read(m, u)
        BY <1>1, <3>8, <4>1, <4>2, TakeOne
      <4>4. Take(t, 1).ok /\ Take(t, 1).rest = u
        BY <4>3, ReadIs
      <4>5. ~ReadBytes(u).ok
        BY <1>1, <4>1, <4>2, StringCut DEF IsToolRequest
      <4> QED
        BY <3>4, <4>4, <4>5, ToolRequestRead
    <3> QED
      BY <3>6, <3>7, <3>8
  <2> QED
    BY <1>5, <2>1, <2>2
<1> QED
  BY <1>4, <1>6

(* Two strings of bytes in a row.                                          *)
LEMMA Two ==
  ASSUME NEW a \in Seq(Bytes), NEW b \in Seq(Bytes)
  PROVE  \E c \in Seq(Bytes) : c = a \o b /\ Len(c) = Len(a) + Len(b)
<1>1. a \o b \in Seq(Bytes) /\ Len(a \o b) = Len(a) + Len(b)
  BY Split
<1> QED
  BY <1>1

(* Whatever bytes a client sends: what is taken from them is no longer     *)
(* than they are.                                                          *)
LEMMA ToolRequestTyped ==
  ASSUME NEW r \in Seq(Bytes), UnmarshalToolRequest(r).ok
  PROVE  /\ IsText(UnmarshalToolRequest(r).val.args)
         /\ UnmarshalToolRequest(r).val.capability \in Seq(Bytes)
         /\ Len(UnmarshalToolRequest(r).val.capability) <= MaxIDLen
         /\ Len(UnmarshalToolRequest(r).val.capability) + Len(UnmarshalToolRequest(r).val.args) <= Len(r)
<1>1. ReadString(r, MaxIDLen).ok
  BY ToolRequestRead
<1>2. PICK c \in Seq(Bytes), s \in Seq(Bytes) :
        ReadString(r, MaxIDLen) = Read(c, s) /\ Len(c) <= MaxIDLen /\ Len(c) + Len(s) <= Len(r)
  BY <1>1, StringTyped, PayloadNat
<1>3. ReadString(r, MaxIDLen).val = c /\ ReadString(r, MaxIDLen).rest = s
  BY <1>2, ReadIs
<1>4. Take(s, 1).ok
  BY <1>1, <1>3, ToolRequestRead
<1>5. PICK m \in Seq(Bytes), t \in Seq(Bytes) : Take(s, 1) = Read(m, t) /\ Len(m) = 1 /\ Len(s) = 1 + Len(t)
  BY <1>4, TakeTyped, ZenonT(60)
<1>6. Take(s, 1).val = m /\ Take(s, 1).rest = t
  BY <1>5, ReadIs
<1>7. ReadBytes(t).ok
  BY <1>1, <1>3, <1>4, <1>6, ToolRequestRead
<1>8. PICK a \in Seq(Bytes), u \in Seq(Bytes) :
        ReadBytes(t) = Read(a, u) /\ Len(a) \in Words /\ Len(a) + Len(u) <= Len(t)
  BY <1>7, BytesTyped
<1>9. ReadBytes(t).val = a /\ ReadBytes(t).rest = u
  BY <1>8, ReadIs
<1>10. UnmarshalToolRequest(r) = Read([capability |-> c, mode |-> m[1], args |-> a], u)
  BY <1>1, <1>3, <1>4, <1>6, <1>7, <1>9, ToolRequestRead
<1>11. UnmarshalToolRequest(r).val = [capability |-> c, mode |-> m[1], args |-> a]
  BY <1>10, ReadIs
<1>12. UnmarshalToolRequest(r).val.capability = c /\ UnmarshalToolRequest(r).val.args = a
  BY <1>11
<1>13. Len(c) \in Nat /\ Len(s) \in Nat /\ Len(t) \in Nat /\ Len(a) \in Nat /\ Len(u) \in Nat /\ Len(r) \in Nat
  OBVIOUS
<1>14. Len(c) + Len(a) <= Len(r)
  BY <1>2, <1>5, <1>8, <1>13
<1>15. IsText(a)
  BY <1>8 DEF IsText
<1> QED
  BY <1>2, <1>12, <1>14, <1>15

-----------------------------------------------------------------------------
IsCapabilityRequest(p) ==
  IsText(p.capability) /\ Len(p.capability) <= MaxIDLen /\ IsText(p.args)

(* A request to keeperd is read as it was written, and has few bytes more  *)
(* than its parts.                                                         *)
THEOREM CapabilityRequestRoundTrip ==
  ASSUME NEW p, IsCapabilityRequest(p)
  PROVE  /\ MarshalCapabilityRequest(p) \in Seq(Bytes)
         /\ Len(MarshalCapabilityRequest(p)) <=
              (Len(p.capability) + Len(p.args)) + (MaxVarintBytes + MaxVarintBytes)
         /\ UnmarshalCapabilityRequest(MarshalCapabilityRequest(p)).ok
         /\ UnmarshalCapabilityRequest(MarshalCapabilityRequest(p)).val =
              [capability |-> p.capability, args |-> p.args]
<1>1. PICK a \in Seq(Bytes), b \in Seq(Bytes), v \in Seq(Bytes), s \in Seq(Bytes) :
        /\ a = Str(p.capability) /\ b = Str(p.args) /\ s = p.args
        /\ v = VarintBytes[Len(p.args)] /\ b = v \o s
        /\ Len(a) <= MaxVarintBytes + Len(p.capability) /\ Len(b) <= MaxVarintBytes + Len(p.args)
        /\ Len(p.capability) \in Nat /\ Len(p.args) \in Nat
  BY TextFacts DEF IsCapabilityRequest, Str
<1>2. AppendString(<<>>, p.capability) = a
  BY <1>1, StrIs DEF IsCapabilityRequest
<1>3. MarshalCapabilityRequest(p) = (a \o v) \o s
  BY <1>1, <1>2 DEF MarshalCapabilityRequest, AppendVarint
<1>4. (a \o v) \o s = a \o (v \o s)
  BY Assoc3
<1>5. PICK r \in Seq(Bytes), e \in Seq(Bytes) :
        r = a \o b /\ e = <<>> /\ b \o e = b /\ Len(r) = Len(a) + Len(b)
  BY Split, NoBytes, ZenonT(60)
<1>6. MarshalCapabilityRequest(p) = r
  BY <1>1, <1>3, <1>4, <1>5
<1>7. Len(r) <= (Len(p.capability) + Len(p.args)) + (MaxVarintBytes + MaxVarintBytes)
  <2>1. Len(a) \in Nat /\ Len(b) \in Nat /\ MaxVarintBytes \in Int
    BY CodecAssumption DEF MaxVarintBytes
  <2>2. /\ Len(a) <= MaxVarintBytes + Len(p.capability) /\ Len(b) <= MaxVarintBytes + Len(p.args)
        /\ Len(p.capability) \in Nat /\ Len(p.args) \in Nat
    BY <1>1, Zenon
  <2>3. Len(r) = Len(a) + Len(b)
    BY <1>5, Zenon
  <2>4. \A i, j, k, l, n \in Int : i <= n + k /\ j <= n + l => i + j <= (k + l) + (n + n)
    OBVIOUS
  <2>5. Len(a) \in Int /\ Len(b) \in Int /\ Len(p.capability) \in Int /\ Len(p.args) \in Int
    BY <2>1, <2>2
  <2>6. Len(a) + Len(b) <= (Len(p.capability) + Len(p.args)) + (MaxVarintBytes + MaxVarintBytes)
    BY <2>1, <2>2, <2>4, <2>5, Zenon
  <2> QED
    BY <2>3, <2>6, Zenon
<1>8. ReadString(r, MaxIDLen) = Read(p.capability, b)
  BY <1>1, <1>5, StringRoundTrip, PayloadNat DEF IsCapabilityRequest
<1>9. ReadBytes(b) = Read(p.args, e)
  BY <1>1, <1>5, BytesRoundTrip DEF IsCapabilityRequest
<1>10. /\ ReadString(r, MaxIDLen).ok /\ ReadString(r, MaxIDLen).val = p.capability
       /\ ReadString(r, MaxIDLen).rest = b
  BY <1>8, ReadIs
<1>11. ReadBytes(b).ok /\ ReadBytes(b).val = p.args /\ ReadBytes(b).rest = e
  BY <1>9, ReadIs
<1>12. UnmarshalCapabilityRequest(r) = Read([capability |-> p.capability, args |-> p.args], e)
  BY <1>10, <1>11 DEF UnmarshalCapabilityRequest, Then
<1>13. /\ UnmarshalCapabilityRequest(r).ok
       /\ UnmarshalCapabilityRequest(r).val = [capability |-> p.capability, args |-> p.args]
  BY <1>12, ReadIs
<1> QED
  BY <1>6, <1>7, <1>13

-----------------------------------------------------------------------------
IsResponse(p) ==
  /\ p.ok \in BOOLEAN /\ IsText(p.data) /\ IsText(p.code) /\ IsText(p.detail)
  /\ Len(p.code) <= MaxIDLen

Regrouped(o, d, c, x, cx, dcx, all) ==
  /\ all = ((o \o d) \o c) \o x /\ all = o \o dcx /\ dcx = d \o cx /\ cx = c \o x
  /\ Len(all) = Len(o) + Len(dcx) /\ Len(dcx) = Len(d) + Len(cx)

(* Four parts, grouped as they are read.                                   *)
LEMMA Regroup ==
  ASSUME NEW o \in Seq(Bytes), NEW d \in Seq(Bytes), NEW c \in Seq(Bytes), NEW x \in Seq(Bytes)
  PROVE  \E cx \in Seq(Bytes), dcx \in Seq(Bytes), all \in Seq(Bytes) :
           Regrouped(o, d, c, x, cx, dcx, all)
<1>1. \A od \in Seq(Bytes) : (od \o c) \o x = od \o (c \o x)
  BY Assoc3, SMTT(30)
<1>2. \A cx \in Seq(Bytes) : (o \o d) \o cx = o \o (d \o cx)
  BY Assoc3
<1>3. o \o d \in Seq(Bytes)
  BY Closed
<1>4. PICK cx \in Seq(Bytes) : cx = c \o x
  BY Two
<1>5. PICK dcx \in Seq(Bytes) : dcx = d \o cx /\ Len(dcx) = Len(d) + Len(cx)
  BY Two
<1>6. PICK all \in Seq(Bytes) : all = o \o dcx /\ Len(all) = Len(o) + Len(dcx)
  BY Two
<1>7. all = ((o \o d) \o c) \o x
  BY <1>1, <1>2, <1>3, <1>4, <1>5, <1>6, Zenon
<1>8. Regrouped(o, d, c, x, cx, dcx, all)
  BY <1>4, <1>5, <1>6, <1>7, Zenon DEF Regrouped
<1> QED
  BY <1>8

ResponseIs(p, o, d, c, x, cx, dcx, all) ==
  /\ o = <<IF p.ok THEN 1 ELSE 0>> /\ d = Str(p.data) /\ c = Str(p.code) /\ x = Str(p.detail)
  /\ all = MarshalResponse(p) /\ all = o \o dcx /\ dcx = d \o cx /\ cx = c \o x
  /\ Len(all) = Len(o) + Len(dcx) /\ Len(dcx) = Len(d) + Len(cx)

(* The parts of a response.                                                *)
LEMMA ResponseParts ==
  ASSUME NEW p, IsResponse(p)
  PROVE  \E o \in Seq(Bytes), d \in Seq(Bytes), c \in Seq(Bytes), x \in Seq(Bytes),
            cx \in Seq(Bytes), dcx \in Seq(Bytes), all \in Seq(Bytes) :
           ResponseIs(p, o, d, c, x, cx, dcx, all)
<1>1. PICK d \in Seq(Bytes), c \in Seq(Bytes), x \in Seq(Bytes), v \in Seq(Bytes), s \in Seq(Bytes) :
        /\ d = Str(p.data) /\ c = Str(p.code) /\ x = Str(p.detail)
        /\ s = p.data /\ v = VarintBytes[Len(p.data)] /\ d = v \o s
  BY TextFacts DEF IsResponse, Str
<1>2. PICK o \in Seq(Bytes) : o = <<IF p.ok THEN 1 ELSE 0>>
  BY NoBytes, BoolRoundTrip DEF IsResponse
<1>3. PICK h : h = AppendVarint(<<IF p.ok THEN 1 ELSE 0>>, Len(p.data)) \o p.data
  OBVIOUS
<1>4. h = (o \o v) \o s
  BY <1>1, <1>2, <1>3 DEF AppendVarint
<1>5. (o \o v) \o s = o \o (v \o s)
  BY Assoc3
<1>6. h = o \o d
  BY <1>1, <1>4, <1>5, Zenon
<1>7. h \in Seq(Bytes)
  BY <1>6, Closed
<1>8. AppendString(h, p.code) = h \o c /\ h \o c \in Seq(Bytes)
  BY <1>1, <1>7, AppendStringIs DEF IsResponse
<1>9. AppendString(h \o c, p.detail) = (h \o c) \o x
  BY <1>1, <1>8, AppendStringIs DEF IsResponse
<1>10. MarshalResponse(p) = ((o \o d) \o c) \o x
  BY <1>3, <1>6, <1>8, <1>9, Zenon DEF MarshalResponse
<1>11. PICK cx \in Seq(Bytes), dcx \in Seq(Bytes), all \in Seq(Bytes) :
         Regrouped(o, d, c, x, cx, dcx, all)
  BY Regroup
<1>12. all = MarshalResponse(p)
  BY <1>10, <1>11, Zenon DEF Regrouped
<1>13. ResponseIs(p, o, d, c, x, cx, dcx, all)
  BY <1>1, <1>2, <1>11, <1>12, Zenon DEF Regrouped, ResponseIs
<1> QED
  BY <1>13

(* How a response is read, part by part.                                   *)
LEMMA ResponseRead ==
  ASSUME NEW r, NEW o, NEW d, NEW c, NEW r1, NEW r2, NEW r3,
         ReadBool(r) = Read(o, r1), ReadBytes(r1) = Read(d, r2), ReadString(r2, MaxIDLen) = Read(c, r3)
  PROVE  /\ ~ReadString(r3, MaxDetail).ok => ~UnmarshalResponse(r).ok
         /\ \A x, e : ReadString(r3, MaxDetail) = Read(x, e) =>
              UnmarshalResponse(r) = Read([ok |-> o, data |-> d, code |-> c, detail |-> x], e)
<1>1. ReadBool(r).ok /\ ReadBool(r).val = o /\ ReadBool(r).rest = r1
  BY ReadIs
<1>2. ReadBytes(r1).ok /\ ReadBytes(r1).val = d /\ ReadBytes(r1).rest = r2
  BY ReadIs
<1>3. ReadString(r2, MaxIDLen).ok /\ ReadString(r2, MaxIDLen).val = c /\ ReadString(r2, MaxIDLen).rest = r3
  BY ReadIs
<1>4. UnmarshalResponse(r) =
        IF ReadString(r3, MaxDetail).ok
        THEN Read([ok |-> o, data |-> d, code |-> c, detail |-> ReadString(r3, MaxDetail).val],
                  ReadString(r3, MaxDetail).rest)
        ELSE ReadString(r3, MaxDetail)
  BY <1>1, <1>2, <1>3 DEF UnmarshalResponse, Then
<1>5. ASSUME NEW x, NEW e, ReadString(r3, MaxDetail) = Read(x, e)
      PROVE  ReadString(r3, MaxDetail).ok /\ ReadString(r3, MaxDetail).val = x /\ ReadString(r3, MaxDetail).rest = e
  BY <1>5, ReadIs
<1> QED
  BY <1>4, <1>5

(* A response is read as it was written, unless its detail is too long.    *)
THEOREM ResponseRoundTrip ==
  ASSUME NEW p, IsResponse(p), MaxDetail \in Nat
  PROVE  /\ MarshalResponse(p) \in Seq(Bytes) /\ MarshalResponse(p) # <<>>
         /\ Len(MarshalResponse(p)) \in Nat /\ Len(p.data) < Len(MarshalResponse(p))
         /\ Len(p.detail) > MaxDetail => ~UnmarshalResponse(MarshalResponse(p)).ok
         /\ Len(p.detail) <= MaxDetail =>
              /\ UnmarshalResponse(MarshalResponse(p)).ok
              /\ UnmarshalResponse(MarshalResponse(p)).val =
                   [ok |-> p.ok, data |-> p.data, code |-> p.code, detail |-> p.detail]
<1>1. PICK o \in Seq(Bytes), d \in Seq(Bytes), c \in Seq(Bytes), x \in Seq(Bytes),
           r2 \in Seq(Bytes), r1 \in Seq(Bytes), r \in Seq(Bytes) :
           ResponseIs(p, o, d, c, x, r2, r1, r)
  BY ResponseParts
<1>2. /\ o = <<IF p.ok THEN 1 ELSE 0>> /\ d = Str(p.data) /\ c = Str(p.code) /\ x = Str(p.detail)
      /\ r = MarshalResponse(p)
  BY <1>1 DEF ResponseIs
<1>3. r = o \o r1 /\ r1 = d \o r2 /\ r2 = c \o x
  BY <1>1 DEF ResponseIs
<1>4. Len(r) = Len(o) + Len(r1) /\ Len(r1) = Len(d) + Len(r2)
  BY <1>1 DEF ResponseIs
<1>5. PICK e \in Seq(Bytes) : e = <<>> /\ x \o e = x
  BY NoBytes
<1>6. ReadBool(r) = Read(p.ok, r1)
  BY <1>2, <1>3, BoolRoundTrip DEF IsResponse
<1>7. ReadBytes(r1) = Read(p.data, r2)
  BY <1>2, <1>3, BytesRoundTrip DEF IsResponse
<1>8. ReadString(r2, MaxIDLen) = Read(p.code, x)
  BY <1>2, <1>3, StringRoundTrip, PayloadNat DEF IsResponse
<1>9. /\ Len(p.detail) <= MaxDetail => ReadString(x, MaxDetail) = Read(p.detail, e)
      /\ Len(p.detail) > MaxDetail => ~ReadString(x, MaxDetail).ok
  BY <1>2, <1>5, StringRoundTrip DEF IsResponse
<1>10. Len(p.detail) > MaxDetail => ~UnmarshalResponse(r).ok
  BY <1>6, <1>7, <1>8, <1>9, ResponseRead
<1>11. ASSUME Len(p.detail) <= MaxDetail
      PROVE  UnmarshalResponse(r) = Read([ok |-> p.ok, data |-> p.data, code |-> p.code, detail |-> p.detail], e)
  BY <1>6, <1>7, <1>8, <1>9, <1>11, ResponseRead
<1>12. ASSUME Len(p.detail) <= MaxDetail
      PROVE  /\ UnmarshalResponse(r).ok
             /\ UnmarshalResponse(r).val = [ok |-> p.ok, data |-> p.data, code |-> p.code, detail |-> p.detail]
  BY <1>11, <1>12, ReadIs
<1>13. Len(p.data) < Len(r) /\ Len(r) \in Nat
  <2>1. Len(o) \in Nat /\ Len(d) \in Nat /\ Len(r1) \in Nat /\ Len(r2) \in Nat
    OBVIOUS
  <2>2. Len(d) > Len(p.data) /\ Len(p.data) \in Nat
    BY <1>2, TextFacts DEF IsResponse
  <2> QED
    BY <1>4, <2>1, <2>2
<1>14. r # <<>>
  <2>1. Len(p.data) \in Nat
    BY TextFacts DEF IsResponse
  <2>2. Len(r) # 0
    BY <1>13, <2>1
  <2> QED
    BY <2>2
<1> QED
  BY <1>2, <1>10, <1>12, <1>13, <1>14

-----------------------------------------------------------------------------
(* What is cut off somewhere in a concatenation.                           *)
CutOf(r, a) == \E j \in 0..(Len(a) - 1) : r = SubSeq(a, 1, j)

(* What is cut off in a row ends in its first part, or in the others.      *)
LEMMA CutStep ==
  ASSUME NEW a \in Seq(Bytes), NEW w \in Seq(Bytes), NEW r, CutOf(r, a \o w)
  PROVE  CutOf(r, a) \/ \E u \in Seq(Bytes) : CutOf(u, w) /\ r = a \o u
<1>1. Len(a \o w) = Len(a) + Len(w)
  BY Split
<1>2. PICK k \in 0..(Len(a) + Len(w) - 1) : r = SubSeq(a \o w, 1, k)
  BY <1>1 DEF CutOf
<1>3. \/ k < Len(a) /\ r = SubSeq(a, 1, k) /\ k \in 0..(Len(a) - 1)
      \/ k - Len(a) \in 0..(Len(w) - 1) /\ r = a \o SubSeq(w, 1, k - Len(a))
  BY <1>2, CutOfTwo
<1>4. CASE k < Len(a) /\ r = SubSeq(a, 1, k) /\ k \in 0..(Len(a) - 1)
  BY <1>4 DEF CutOf
<1>5. CASE k - Len(a) \in 0..(Len(w) - 1) /\ r = a \o SubSeq(w, 1, k - Len(a))
  <2>1. PICK j : j = k - Len(a) /\ j \in 0..(Len(w) - 1)
    BY <1>5
  <2>2. PICK u \in Seq(Bytes) : u = SubSeq(w, 1, j)
    BY <2>1, CutTyped
  <2>3. CutOf(u, w)
    BY <2>1, <2>2 DEF CutOf
  <2>4. r = a \o u
    BY <1>5, <2>1, <2>2, Zenon
  <2> QED
    BY <2>3, <2>4
<1> QED
  BY <1>3, <1>4, <1>5

(* No part that is cut off is read.                                        *)
LEMMA CutFails ==
  /\ \A s, r : IsText(s) /\ CutOf(r, Str(s)) => ~ReadString(r, MaxIDLen).ok
  /\ \A w \in Words : \A r : CutOf(r, VarintBytes[w]) => ~ReadVarint(r).ok
  /\ \A a \in Seq(Bytes) : \A r : CutOf(r, a) => ~Take(r, Len(a)).ok
<1>1. ASSUME NEW s, NEW r, IsText(s), CutOf(r, Str(s)) PROVE ~ReadString(r, MaxIDLen).ok
  BY <1>1, StringCut, PayloadNat DEF CutOf
<1>2. ASSUME NEW w \in Words, NEW r, CutOf(r, VarintBytes[w]) PROVE ~ReadVarint(r).ok
  BY <1>2, VarintCut DEF CutOf
<1>3. ASSUME NEW a \in Seq(Bytes), NEW r, CutOf(r, a) PROVE ~Take(r, Len(a)).ok
  BY <1>3, TakeCut DEF CutOf
<1> QED
  BY <1>1, <1>2, <1>3

-----------------------------------------------------------------------------
(* Headers.                                                                *)
IsHeader(h) ==
  /\ h.version \in Bytes /\ h.type \in Bytes
  /\ IsText(h.from) /\ Len(h.from) <= MaxIDLen /\ IsText(h.to) /\ Len(h.to) <= MaxIDLen
  /\ h.seq \in Words /\ h.payloadLen \in Words

HeaderIs(h, t, a, b, s, l) ==
  /\ t = <<h.version, h.type>> /\ a = Str(h.from) /\ b = Str(h.to)
  /\ s = VarintBytes[h.seq] /\ l = VarintBytes[h.payloadLen]
  /\ Len(t) = 2 /\ t[1] = h.version /\ t[2] = h.type

FiveIs(t, a, b, s, l) == (((t \o a) \o b) \o s) \o l = t \o (a \o (b \o (s \o l)))

(* Five parts in a row.                                                    *)
LEMMA FiveOf ==
  ASSUME NEW t \in Seq(Bytes), NEW a \in Seq(Bytes), NEW b \in Seq(Bytes), NEW s \in Seq(Bytes),
         NEW l \in Seq(Bytes)
  PROVE  FiveIs(t, a, b, s, l)
<1>1. \A d \in Seq(Bytes) : (d \o s) \o l = d \o (s \o l)
  BY Assoc3, SMTT(30)
<1>2. \A d \in Seq(Bytes) : (t \o a) \o d = t \o (a \o d)
  BY Assoc3
<1>3. PICK p \in Seq(Bytes) : p = t \o a
  BY Two
<1>4. \A d \in Seq(Bytes) : (p \o b) \o d = p \o (b \o d)
  BY Assoc3
<1>5. PICK q \in Seq(Bytes) : q = p \o b
  BY Two
<1>6. PICK w \in Seq(Bytes) : w = s \o l
  BY Two
<1>7. PICK y \in Seq(Bytes) : y = b \o w
  BY Two
<1>8. (q \o s) \o l = q \o w
  BY <1>1, <1>6, Zenon
<1>9. q \o w = p \o y
  BY <1>4, <1>5, <1>7, Zenon
<1>10. p \o y = t \o (a \o y)
  BY <1>2, <1>3, Zenon
<1> QED
  BY <1>3, <1>5, <1>6, <1>7, <1>8, <1>9, <1>10, Zenon DEF FiveIs

Chain(H, t, a, b, s, l, z, y1, y2, y3, y4) ==
  H \o z = t \o y1 /\ y1 = a \o y2 /\ y2 = b \o y3 /\ y3 = s \o y4 /\ y4 = l \o z

(* They can be read from the front, and something may follow.              *)
LEMMA ChainOf ==
  ASSUME NEW t \in Seq(Bytes), NEW a \in Seq(Bytes), NEW b \in Seq(Bytes), NEW s \in Seq(Bytes),
         NEW l \in Seq(Bytes), NEW z \in Seq(Bytes), NEW H, H = t \o (a \o (b \o (s \o l)))
  PROVE  /\ H \in Seq(Bytes) /\ Len(H) = Len(t) + (Len(a) + (Len(b) + (Len(s) + Len(l))))
         /\ \E y1 \in Seq(Bytes), y2 \in Seq(Bytes), y3 \in Seq(Bytes), y4 \in Seq(Bytes) :
              Chain(H, t, a, b, s, l, z, y1, y2, y3, y4)
<1>1. ASSUME NEW c \in Seq(Bytes), NEW d \in Seq(Bytes) PROVE (c \o d) \o z = c \o (d \o z)
  BY Assoc3, ZenonT(60)
<1>2. \A c, d \in Seq(Bytes) : c \o d \in Seq(Bytes) /\ Len(c \o d) = Len(c) + Len(d)
  BY Split
<1>3. PICK x4 \in Seq(Bytes) : x4 = s \o l /\ Len(x4) = Len(s) + Len(l)
  BY Two
<1>4. PICK x3 \in Seq(Bytes) : x3 = b \o x4 /\ Len(x3) = Len(b) + Len(x4)
  BY <1>2
<1>5. PICK x2 \in Seq(Bytes) : x2 = a \o x3 /\ Len(x2) = Len(a) + Len(x3)
  BY <1>2
<1>6. H = t \o x2
  BY <1>3, <1>4, <1>5, Zenon
<1>7. H \in Seq(Bytes) /\ Len(H) = Len(t) + Len(x2)
  BY <1>6, <1>2, Zenon
<1>8. PICK y4 \in Seq(Bytes) : y4 = l \o z
  BY <1>2
<1>9. PICK y3 \in Seq(Bytes) : y3 = s \o y4
  BY <1>2, Zenon
<1>10. PICK y2 \in Seq(Bytes) : y2 = b \o y3
  BY <1>2, Zenon
<1>11. PICK y1 \in Seq(Bytes) : y1 = a \o y2
  BY <1>2, Zenon
<1>12. x4 \o z = y3
  BY <1>1, <1>3, <1>8, <1>9, Zenon
<1>13. x3 \o z = y2
  BY <1>1, <1>4, <1>10, <1>12, Zenon
<1>14. x2 \o z = y1
  BY <1>1, <1>5, <1>11, <1>13, Zenon
<1>15. H \o z = t \o y1
  <2>1. (t \o x2) \o z = t \o (x2 \o z)
    BY <1>1, Zenon
  <2> QED
    BY <2>1, <1>6, <1>14, Zenon
<1>16. Chain(H, t, a, b, s, l, z, y1, y2, y3, y4)
  BY <1>8, <1>9, <1>10, <1>11, <1>15, Zenon DEF Chain
<1>17. Len(H) = Len(t) + (Len(a) + (Len(b) + (Len(s) + Len(l))))
  BY <1>3, <1>4, <1>5, <1>7, Zenon
<1> QED
  BY <1>7, <1>16, <1>17

HeaderReads(r, t, f, to, q, n, y1, y2, y3, y4, z) ==
  /\ Take(r, 2) = Read(t, y1) /\ ReadString(y1, MaxIDLen) = Read(f, y2)
  /\ ReadString(y2, MaxIDLen) = Read(to, y3) /\ ReadVarint(y3) = Read(q, y4)
  /\ ReadVarint(y4) = Read(n, z)

(* How a header is read, part by part.                                     *)
LEMMA HeaderRead ==
  ASSUME NEW r, NEW t, NEW f, NEW to, NEW q, NEW n, NEW y1, NEW y2, NEW y3, NEW y4, NEW z,
         HeaderReads(r, t, f, to, q, n, y1, y2, y3, y4, z)
  PROVE  UnmarshalHeader(r) =
           IF n > MaxPayloadBytes THEN Failed("payload too large")
           ELSE Read([version |-> t[1], type |-> t[2], from |-> f, to |-> to, seq |-> q, payloadLen |-> n], z)
<1>1. Take(r, 2).ok /\ Take(r, 2).val = t /\ Take(r, 2).rest = y1
  BY ReadIs DEF HeaderReads
<1>2. ReadString(y1, MaxIDLen).ok /\ ReadString(y1, MaxIDLen).val = f /\ ReadString(y1, MaxIDLen).rest = y2
  BY ReadIs DEF HeaderReads
<1>3. ReadString(y2, MaxIDLen).ok /\ ReadString(y2, MaxIDLen).val = to /\ ReadString(y2, MaxIDLen).rest = y3
  BY ReadIs DEF HeaderReads
<1>4. ReadVarint(y3).ok /\ ReadVarint(y3).val = q /\ ReadVarint(y3).rest = y4
  BY ReadIs DEF HeaderReads
<1>5. ReadVarint(y4).ok /\ ReadVarint(y4).val = n /\ ReadVarint(y4).rest = z
  BY ReadIs DEF HeaderReads
<1> QED
  BY <1>1, <1>2, <1>3, <1>4, <1>5 DEF UnmarshalHeader, Then

(* It is not read when a part of it is not.                                *)
LEMMA HeaderFails ==
  ASSUME NEW r
  PROVE  /\ ~Take(r, 2).ok => ~UnmarshalHeader(r).ok
         /\ \A t, y1 : Take(r, 2) = Read(t, y1) =>
              /\ ~ReadString(y1, MaxIDLen).ok => ~UnmarshalHeader(r).ok
              /\ \A f, y2 : ReadString(y1, MaxIDLen) = Read(f, y2) =>
                   /\ ~ReadString(y2, MaxIDLen).ok => ~UnmarshalHeader(r).ok
                   /\ \A to, y3 : ReadString(y2, MaxIDLen) = Read(to, y3) =>
                        /\ ~ReadVarint(y3).ok => ~UnmarshalHeader(r).ok
                        /\ \A q, y4 : ReadVarint(y3) = Read(q, y4) =>
                             (~ReadVarint(y4).ok => ~UnmarshalHeader(r).ok)
<1>1. ~Take(r, 2).ok => ~UnmarshalHeader(r).ok
  BY DEF UnmarshalHeader, Then
<1>2. ASSUME NEW t, NEW y1, Take(r, 2) = Read(t, y1)
      PROVE  Take(r, 2).ok /\ Take(r, 2).rest = y1
  BY <1>2, ReadIs
<1>3. ASSUME NEW t, NEW y1, Take(r, 2) = Read(t, y1), ~ReadString(y1, MaxIDLen).ok
      PROVE  ~UnmarshalHeader(r).ok
  <2>1. Take(r, 2).ok /\ Take(r, 2).rest = y1
    BY <1>2, <1>3
  <2> QED
    BY <2>1, <1>3 DEF UnmarshalHeader, Then
<1>4. ASSUME NEW t, NEW y1, Take(r, 2) = Read(t, y1), NEW f, NEW y2, ReadString(y1, MaxIDLen) = Read(f, y2)
      PROVE  /\ Take(r, 2).ok /\ Take(r, 2).rest = y1
             /\ ReadString(y1, MaxIDLen).ok /\ ReadString(y1, MaxIDLen).rest = y2
  BY <1>2, <1>4, ReadIs
<1>5. ASSUME NEW t, NEW y1, Take(r, 2) = Read(t, y1), NEW f, NEW y2, ReadString(y1, MaxIDLen) = Read(f, y2),
             ~ReadString(y2, MaxIDLen).ok
      PROVE  ~UnmarshalHeader(r).ok
  <2>1. /\ Take(r, 2).ok /\ Take(r, 2).rest = y1
        /\ ReadString(y1, MaxIDLen).ok /\ ReadString(y1, MaxIDLen).rest = y2
    BY <1>4, <1>5
  <2> QED
    BY <2>1, <1>5 DEF UnmarshalHeader, Then
<1>6. ASSUME NEW t, NEW y1, Take(r, 2) = Read(t, y1), NEW f, NEW y2, ReadString(y1, MaxIDLen) = Read(f, y2),
             NEW to, NEW y3, ReadString(y2, MaxIDLen) = Read(to, y3), ~ReadVarint(y3).ok
      PROVE  ~UnmarshalHeader(r).ok
  <2>1. /\ Take(r, 2).ok /\ Take(r, 2).rest = y1
        /\ ReadString(y1, MaxIDLen).ok /\ ReadString(y1, MaxIDLen).rest = y2
    BY <1>4, <1>6
  <2>2. ReadString(y2, MaxIDLen).ok /\ ReadString(y2, MaxIDLen).rest = y3
    BY <1>6, ReadIs
  <2> QED
    BY <2>1, <2>2, <1>6 DEF UnmarshalHeader, Then
<1>7. ASSUME NEW t, NEW y1, Take(r, 2) = Read(t, y1), NEW f, NEW y2, ReadString(y1, MaxIDLen) = Read(f, y2),
             NEW to, NEW y3, ReadString(y2, MaxIDLen) = Read(to, y3),
             NEW q, NEW y4, ReadVarint(y3) = Read(q, y4), ~ReadVarint(y4).ok
      PROVE  ~UnmarshalHeader(r).ok
  <2>1. /\ Take(r, 2).ok /\ Take(r, 2).rest = y1
        /\ ReadString(y1, MaxIDLen).ok /\ ReadString(y1, MaxIDLen).rest = y2
    BY <1>4, <1>7
  <2>2. ReadString(y2, MaxIDLen).ok /\ ReadString(y2, MaxIDLen).rest = y3
    BY <1>7, ReadIs
  <2>3. ReadVarint(y3).ok /\ ReadVarint(y3).rest = y4
    BY <1>7, ReadIs
  <2> QED
    BY <2>1, <2>2, <2>3, <1>7 DEF UnmarshalHeader, Then
<1> QED
  BY <1>1, <1>3, <1>5, <1>6, <1>7

(* Two bytes, and what follows them.                                       *)
LEMMA TakeTwo ==
  ASSUME NEW m \in Seq(Bytes), Len(m) = 2, NEW rest \in Seq(Bytes)
  PROVE  Take(m \o rest, 2) = Read(m, rest)
<1>1. PICK n : n = Len(m) /\ n = 2
  OBVIOUS
<1>2. Take(m \o rest, n) = Read(m, rest)
  BY <1>1, TakeRoundTrip
<1> QED
  BY <1>1, <1>2

(* Two bytes are a string of bytes.                                        *)
LEMMA TwoBytes ==
  ASSUME NEW m \in Bytes, NEW n \in Bytes
  PROVE  <<m, n>> \in Seq(Bytes) /\ Len(<<m, n>>) = 2 /\ <<m, n>>[1] = m /\ <<m, n>>[2] = n
OBVIOUS

(* A sum may be grouped in any way.                                        *)
LEMMA Sum6 ==
  ASSUME NEW a \in Nat, NEW b \in Nat, NEW c \in Nat, NEW d \in Nat, NEW e \in Nat, NEW f \in Nat
  PROVE  2 + ((a + b) + ((c + d) + (e + f))) = 2 + a + b + c + d + e + f
OBVIOUS

(* The parts of a header.                                                  *)
LEMMA HeaderParts ==
  ASSUME NEW h, IsHeader(h)
  PROVE  \E t \in Seq(Bytes), a \in Seq(Bytes), b \in Seq(Bytes), s \in Seq(Bytes), l \in Seq(Bytes) :
           HeaderIs(h, t, a, b, s, l) /\ MarshalHeader(h) = t \o (a \o (b \o (s \o l)))
<1>1. PICK t \in Seq(Bytes) : t = <<h.version, h.type>> /\ Len(t) = 2 /\ t[1] = h.version /\ t[2] = h.type
  <2>1. h.version \in Bytes /\ h.type \in Bytes
    BY DEF IsHeader
  <2>2. /\ <<h.version, h.type>> \in Seq(Bytes) /\ Len(<<h.version, h.type>>) = 2
        /\ <<h.version, h.type>>[1] = h.version /\ <<h.version, h.type>>[2] = h.type
    BY <2>1, TwoBytes
  <2> QED
    BY <2>2
<1>2. IsText(h.from) /\ IsText(h.to) /\ h.seq \in Words /\ h.payloadLen \in Words
  BY DEF IsHeader
<1>3. PICK a \in Seq(Bytes) : a = Str(h.from)
  BY <1>2, TextFacts
<1>4. PICK b \in Seq(Bytes) : b = Str(h.to)
  BY <1>2, TextFacts
<1>5. PICK s \in Seq(Bytes) : s = VarintBytes[h.seq]
  BY <1>2, AppendVarintIs
<1>6. PICK l \in Seq(Bytes) : l = VarintBytes[h.payloadLen]
  BY <1>2, AppendVarintIs
<1>12. FiveIs(t, a, b, s, l)
  BY FiveOf
<1>7. AppendString(t, h.from) = t \o a /\ t \o a \in Seq(Bytes)
  BY <1>2, <1>3, AppendStringIs
<1>8. PICK ta \in Seq(Bytes) : ta = t \o a
  BY <1>7
<1>9. AppendString(ta, h.to) = ta \o b
  BY <1>2, <1>4, AppendStringIs
<1>10. MarshalHeader(h) = ((ta \o b) \o s) \o l
  BY <1>1, <1>5, <1>6, <1>7, <1>8, <1>9, Zenon DEF MarshalHeader, AppendVarint
<1>11. MarshalHeader(h) = (((t \o a) \o b) \o s) \o l
  BY <1>8, <1>10, Zenon
<1>13. MarshalHeader(h) = t \o (a \o (b \o (s \o l)))
  BY <1>11, <1>12, Zenon DEF FiveIs
<1>14. HeaderIs(h, t, a, b, s, l)
  BY <1>1, <1>3, <1>4, <1>5, <1>6 DEF HeaderIs
<1> QED
  BY <1>13, <1>14

Same(h) == [version |-> h.version, type |-> h.type, from |-> h.from, to |-> h.to,
            seq |-> h.seq, payloadLen |-> h.payloadLen]

(* A header is read as it was written, and HeaderSize is its length.       *)
THEOREM HeaderRoundTrip ==
  ASSUME NEW h, IsHeader(h), NEW z \in Seq(Bytes)
  PROVE  /\ MarshalHeader(h) \in Seq(Bytes) /\ Len(MarshalHeader(h)) = HeaderSize(h)
         /\ h.payloadLen <= MaxPayloadBytes =>
              UnmarshalHeader(MarshalHeader(h) \o z) = Read(Same(h), z)
         /\ h.payloadLen > MaxPayloadBytes => ~UnmarshalHeader(MarshalHeader(h) \o z).ok
<1>1. PICK t \in Seq(Bytes), a \in Seq(Bytes), b \in Seq(Bytes), s \in Seq(Bytes), l \in Seq(Bytes) :
        HeaderIs(h, t, a, b, s, l) /\ MarshalHeader(h) = t \o (a \o (b \o (s \o l)))
  BY HeaderParts
<1>2. /\ a = Str(h.from) /\ b = Str(h.to) /\ s = VarintBytes[h.seq] /\ l = VarintBytes[h.payloadLen]
      /\ Len(t) = 2 /\ t[1] = h.version /\ t[2] = h.type
  BY <1>1 DEF HeaderIs
<1>3. /\ IsText(h.from) /\ IsText(h.to) /\ h.seq \in Words /\ h.payloadLen \in Words
      /\ Len(h.from) <= MaxIDLen /\ Len(h.to) <= MaxIDLen
  BY DEF IsHeader
<1>4. PICK H : H = MarshalHeader(h) /\ H = t \o (a \o (b \o (s \o l)))
  BY <1>1
<1>5. /\ H \in Seq(Bytes) /\ Len(H) = Len(t) + (Len(a) + (Len(b) + (Len(s) + Len(l))))
      /\ \E y1 \in Seq(Bytes), y2 \in Seq(Bytes), y3 \in Seq(Bytes), y4 \in Seq(Bytes) :
              Chain(H, t, a, b, s, l, z, y1, y2, y3, y4)
  BY <1>4, ChainOf, Zenon
<1>6. PICK y1 \in Seq(Bytes), y2 \in Seq(Bytes), y3 \in Seq(Bytes), y4 \in Seq(Bytes) :
              Chain(H, t, a, b, s, l, z, y1, y2, y3, y4)
  BY <1>5
<1>7. PICK r : r = H \o z
  OBVIOUS
<1>8. Take(r, 2) = Read(t, y1)
  <2>1. r = t \o y1
    BY <1>6, <1>7 DEF Chain
  <2>2. Take(t \o y1, 2) = Read(t, y1)
    BY <1>2, TakeTwo
  <2> QED
    BY <2>1, <2>2, Zenon
<1>9. ReadString(y1, MaxIDLen) = Read(h.from, y2)
  BY <1>2, <1>3, <1>6, StringRoundTrip, PayloadNat DEF Chain
<1>10. ReadString(y2, MaxIDLen) = Read(h.to, y3)
  BY <1>2, <1>3, <1>6, StringRoundTrip, PayloadNat DEF Chain
<1>11. ReadVarint(y3) = Read(h.seq, y4)
  BY <1>2, <1>3, <1>6, VarintRoundTrip DEF Chain
<1>12. ReadVarint(y4) = Read(h.payloadLen, z)
  BY <1>2, <1>3, <1>6, VarintRoundTrip DEF Chain
<1>13. UnmarshalHeader(r) = IF h.payloadLen > MaxPayloadBytes THEN Failed("payload too large")
                            ELSE Read(Same(h), z)
  <2>1. UnmarshalHeader(r) = IF h.payloadLen > MaxPayloadBytes THEN Failed("payload too large")
           ELSE Read([version |-> t[1], type |-> t[2], from |-> h.from, to |-> h.to,
                      seq |-> h.seq, payloadLen |-> h.payloadLen], z)
    <3>1. HeaderReads(r, t, h.from, h.to, h.seq, h.payloadLen, y1, y2, y3, y4, z)
      BY <1>8, <1>9, <1>10, <1>11, <1>12 DEF HeaderReads
    <3> QED
      BY <3>1, HeaderRead
  <2> QED
    BY <1>2, <2>1 DEF Same
<1>14. h.payloadLen \in Nat
  BY <1>3, WordFacts
<1>15. h.payloadLen <= MaxPayloadBytes => UnmarshalHeader(r) = Read(Same(h), z)
  <2>1. h.payloadLen <= MaxPayloadBytes => ~(h.payloadLen > MaxPayloadBytes)
    BY <1>14, PayloadNat
  <2> QED
    BY <1>13, <2>1
<1>16. h.payloadLen > MaxPayloadBytes => ~UnmarshalHeader(r).ok
  BY <1>13, ReadFacts
<1>17. Len(H) = HeaderSize(h)
  <2>1. /\ Len(a) = VarintLen(Len(h.from)) + Len(h.from) /\ Len(b) = VarintLen(Len(h.to)) + Len(h.to)
        /\ Len(s) = VarintLen(h.seq) /\ Len(l) = VarintLen(h.payloadLen)
    <3>1. /\ Len(a) = Len(VarintBytes[Len(h.from)]) + Len(h.from) /\ Len(h.from) \in Words
          /\ Len(b) = Len(VarintBytes[Len(h.to)]) + Len(h.to) /\ Len(h.to) \in Words
      BY <1>2, <1>3, TextFacts
    <3> QED
      BY <1>2, <1>3, <3>1, VarintLenIs, Zenon
  <2>2. Len(h.from) \in Nat /\ Len(h.to) \in Nat
    BY <1>3, TextFacts
  <2>3. VarintLen(Len(h.from)) \in Nat /\ VarintLen(Len(h.to)) \in Nat /\ VarintLen(h.seq) \in Nat
        /\ VarintLen(h.payloadLen) \in Nat
    <3>1. ASSUME NEW w \in Words PROVE VarintLen(w) \in Nat
      <4>1. VarintLen(w) = Len(VarintBytes[w]) /\ VarintBytes[w] \in Seq(Bytes)
        BY VarintLenIs, AppendVarintIs
      <4> QED
        BY <4>1
    <3>2. Len(h.from) \in Words /\ Len(h.to) \in Words
      BY <1>3, TextFacts
    <3> QED
      BY <1>3, <3>1, <3>2
  <2>4. Len(H) = 2 + (Len(a) + (Len(b) + (Len(s) + Len(l))))
    BY <1>5, <1>2
  <2>5. /\ VarintLen(Len(h.from)) \in Nat /\ VarintLen(Len(h.to)) \in Nat /\ VarintLen(h.seq) \in Nat
        /\ VarintLen(h.payloadLen) \in Nat
    BY <2>3
  <2>6. PICK m1 \in Nat, m2 \in Nat, n1 \in Nat, n2 \in Nat, s1 \in Nat, l1 \in Nat :
          /\ m1 = VarintLen(Len(h.from)) /\ m2 = Len(h.from) /\ n1 = VarintLen(Len(h.to)) /\ n2 = Len(h.to)
          /\ s1 = VarintLen(h.seq) /\ l1 = VarintLen(h.payloadLen)
    BY <2>2, <2>5
  <2>7. Len(H) = 2 + ((m1 + m2) + ((n1 + n2) + (s1 + l1)))
    BY <2>1, <2>4, <2>6, Zenon
  <2>8. HeaderSize(h) = 2 + m1 + m2 + n1 + n2 + s1 + l1
    BY <2>6, Zenon DEF HeaderSize
  <2>9. 2 + ((m1 + m2) + ((n1 + n2) + (s1 + l1))) = 2 + m1 + m2 + n1 + n2 + s1 + l1
    BY Sum6
  <2> QED
    BY <2>7, <2>8, <2>9, Zenon
<1> QED
  BY <1>4, <1>5, <1>7, <1>15, <1>16, <1>17, Zenon

(* A header that is cut off is not read.                                   *)
LEMMA HeaderCut ==
  ASSUME NEW h, IsHeader(h), NEW r, CutOf(r, MarshalHeader(h))
  PROVE  ~UnmarshalHeader(r).ok
<1>1. PICK t \in Seq(Bytes), a \in Seq(Bytes), b \in Seq(Bytes), s \in Seq(Bytes), l \in Seq(Bytes) :
        HeaderIs(h, t, a, b, s, l) /\ MarshalHeader(h) = t \o (a \o (b \o (s \o l)))
  BY HeaderParts
<1>2. /\ a = Str(h.from) /\ b = Str(h.to) /\ s = VarintBytes[h.seq] /\ l = VarintBytes[h.payloadLen]
      /\ Len(t) = 2
  BY <1>1 DEF HeaderIs
<1>3. /\ IsText(h.from) /\ IsText(h.to) /\ h.seq \in Words /\ h.payloadLen \in Words
      /\ Len(h.from) <= MaxIDLen /\ Len(h.to) <= MaxIDLen
  BY DEF IsHeader
<1>4. PICK w3 \in Seq(Bytes) : w3 = s \o l
  BY Two
<1>5. PICK w2 \in Seq(Bytes) : w2 = b \o w3
  BY Two
<1>6. PICK w1 \in Seq(Bytes) : w1 = a \o w2
  BY Two
<1>7. CutOf(r, t \o w1)
  BY <1>1, <1>4, <1>5, <1>6, Zenon
<1>8. CASE CutOf(r, t)
  <2>1. ~Take(r, Len(t)).ok
    BY <1>8, CutFails
  <2>2. ~Take(r, 2).ok
    BY <1>2, <2>1
  <2> QED
    BY <2>2, HeaderFails
<1>9. ASSUME NEW u1 \in Seq(Bytes), CutOf(u1, w1), r = t \o u1
      PROVE  ~UnmarshalHeader(r).ok
  <2>1. Take(r, 2) = Read(t, u1)
    <3>1. Take(t \o u1, 2) = Read(t, u1)
      BY <1>2, TakeTwo
    <3> QED
      BY <1>9, <3>1, Zenon
  <2>2. CutOf(u1, a \o w2)
    BY <1>6, <1>9, Zenon
  <2>3. CASE CutOf(u1, a)
    <3>1. ~ReadString(u1, MaxIDLen).ok
      BY <1>2, <1>3, <2>3, CutFails
    <3> QED
      BY <2>1, <3>1, HeaderFails
  <2>4. ASSUME NEW u2 \in Seq(Bytes), CutOf(u2, w2), u1 = a \o u2
        PROVE  ~UnmarshalHeader(r).ok
    <3>1. ReadString(u1, MaxIDLen) = Read(h.from, u2)
      BY <1>2, <1>3, <2>4, StringRoundTrip, PayloadNat
    <3>2. CutOf(u2, b \o w3)
      BY <1>5, <2>4, Zenon
    <3>3. CASE CutOf(u2, b)
      <4>1. ~ReadString(u2, MaxIDLen).ok
        BY <1>2, <1>3, <3>3, CutFails
      <4> QED
        BY <2>1, <3>1, <4>1, HeaderFails
    <3>4. ASSUME NEW u3 \in Seq(Bytes), CutOf(u3, w3), u2 = b \o u3
          PROVE  ~UnmarshalHeader(r).ok
      <4>1. ReadString(u2, MaxIDLen) = Read(h.to, u3)
        BY <1>2, <1>3, <3>4, StringRoundTrip, PayloadNat
      <4>2. CutOf(u3, s \o l)
        BY <1>4, <3>4, Zenon
      <4>3. CASE CutOf(u3, s)
        <5>1. ~ReadVarint(u3).ok
          BY <1>2, <1>3, <4>3, CutFails
        <5> QED
          BY <2>1, <3>1, <4>1, <5>1, HeaderFails
      <4>4. ASSUME NEW u4 \in Seq(Bytes), CutOf(u4, l), u3 = s \o u4
            PROVE  ~UnmarshalHeader(r).ok
        <5>1. ReadVarint(u3) = Read(h.seq, u4)
          BY <1>2, <1>3, <4>4, VarintRoundTrip
        <5>2. ~ReadVarint(u4).ok
          BY <1>2, <1>3, <4>4, CutFails
        <5> QED
          BY <2>1, <3>1, <4>1, <5>1, <5>2, HeaderFails
      <4> QED
        BY <4>2, <4>3, <4>4, CutStep
    <3> QED
      BY <3>2, <3>3, <3>4, CutStep
  <2> QED
    BY <2>2, <2>3, <2>4, CutStep
<1> QED
  BY <1>7, <1>8, <1>9, CutStep

-----------------------------------------------------------------------------
(* Frames.                                                                 *)
HeaderOf(type, from, to, payload) ==
  [version |-> 0, type |-> type, from |-> from, to |-> to, seq |-> SeqNo, payloadLen |-> Len(payload)]

IsFrame(type, from, to, payload) ==
  /\ type \in Bytes /\ IsText(from) /\ Len(from) <= MaxIDLen /\ IsText(to) /\ Len(to) <= MaxIDLen
  /\ SeqNo \in Words /\ IsText(payload)

(* The header of a frame.                                                  *)
LEMMA FrameHeader ==
  ASSUME NEW type, NEW from, NEW to, NEW payload, IsFrame(type, from, to, payload)
  PROVE  /\ IsHeader(HeaderOf(type, from, to, payload))
         /\ Same(HeaderOf(type, from, to, payload)) = HeaderOf(type, from, to, payload)
         /\ Frame(type, from, to, payload) = MarshalHeader(HeaderOf(type, from, to, payload)) \o payload
<1>1. 0 \in Bytes
  BY WordFacts DEF Bytes
<1>2. Len(payload) \in Words
  BY DEF IsFrame, IsText
<1>3. IsHeader(HeaderOf(type, from, to, payload))
  BY <1>1, <1>2 DEF IsHeader, HeaderOf, IsFrame
<1>4. Same(HeaderOf(type, from, to, payload)) = HeaderOf(type, from, to, payload)
  BY DEF Same, HeaderOf
<1>5. [[version |-> 0, type |-> type, from |-> from, to |-> to, seq |-> SeqNo, payloadLen |-> 0]
         EXCEPT !.payloadLen = Len(payload)] = HeaderOf(type, from, to, payload)
  BY DEF HeaderOf
<1>6. Frame(type, from, to, payload) = MarshalHeader(HeaderOf(type, from, to, payload)) \o payload
  BY <1>5 DEF Frame, WriteFrame
<1> QED
  BY <1>3, <1>4, <1>6

(* How a frame is read, header first.                                      *)
LEMMA FrameRead ==
  ASSUME NEW r
  PROVE  /\ ~UnmarshalHeader(r).ok => ~ReadFrame(r).ok
         /\ \A h, z : UnmarshalHeader(r) = Read(h, z) =>
              /\ ~Take(z, h.payloadLen).ok => ~ReadFrame(r).ok
              /\ \A p, e : Take(z, h.payloadLen) = Read(p, e) =>
                   ReadFrame(r) = Read([header |-> h, payload |-> p], e)
<1>1. ~UnmarshalHeader(r).ok => ~ReadFrame(r).ok
  BY DEF ReadFrame, Then
<1>2. ASSUME NEW h, NEW z, UnmarshalHeader(r) = Read(h, z)
      PROVE  UnmarshalHeader(r).ok /\ UnmarshalHeader(r).val = h /\ UnmarshalHeader(r).rest = z
  BY <1>2, ReadIs
<1>3. ASSUME NEW h, NEW z, UnmarshalHeader(r) = Read(h, z), ~Take(z, h.payloadLen).ok
      PROVE  ~ReadFrame(r).ok
  <2>1. UnmarshalHeader(r).ok /\ UnmarshalHeader(r).val = h /\ UnmarshalHeader(r).rest = z
    BY <1>2, <1>3
  <2> QED
    BY <2>1, <1>3 DEF ReadFrame, Then
<1>4. ASSUME NEW h, NEW z, UnmarshalHeader(r) = Read(h, z), NEW p, NEW e,
             Take(z, h.payloadLen) = Read(p, e)
      PROVE  ReadFrame(r) = Read([header |-> h, payload |-> p], e)
  <2>1. UnmarshalHeader(r).ok /\ UnmarshalHeader(r).val = h /\ UnmarshalHeader(r).rest = z
    BY <1>2, <1>4
  <2>2. Take(z, h.payloadLen).ok /\ Take(z, h.payloadLen).val = p /\ Take(z, h.payloadLen).rest = e
    BY <1>4, ReadIs
  <2> QED
    BY <2>1, <2>2 DEF ReadFrame, Then
<1> QED
  BY <1>1, <1>3, <1>4

(* A frame is read as it was written, and the next one begins behind it.   *)
THEOREM FrameRoundTrip ==
  ASSUME NEW type, NEW from, NEW to, NEW payload, IsFrame(type, from, to, payload),
         Len(payload) <= MaxPayloadBytes, NEW rest \in Seq(Bytes)
  PROVE  ReadFrame(Frame(type, from, to, payload) \o rest) =
           Read([header |-> HeaderOf(type, from, to, payload), payload |-> payload], rest)
<1>1. PICK h : h = HeaderOf(type, from, to, payload) /\ IsHeader(h) /\ Same(h) = h
              /\ Frame(type, from, to, payload) = MarshalHeader(h) \o payload
  BY FrameHeader
<1>2. h.payloadLen = Len(payload)
  BY <1>1 DEF HeaderOf
<1>3. PICK p \in Seq(Bytes) : p = payload
  BY DEF IsFrame, IsText
<1>4. PICK z \in Seq(Bytes) : z = p \o rest
  BY Two
<1>5. PICK H \in Seq(Bytes) : H = MarshalHeader(h)
  BY <1>1, <1>4, HeaderRoundTrip
<1>6. UnmarshalHeader(H \o z) = Read(h, z)
  BY <1>1, <1>2, <1>5, HeaderRoundTrip
<1>7. Take(z, h.payloadLen) = Read(p, rest)
  BY <1>2, <1>3, <1>4, TakeRoundTrip
<1>8. (H \o p) \o rest = H \o (p \o rest)
  BY Assoc3
<1>9. PICK r : r = H \o z
  OBVIOUS
<1>10. ReadFrame(r) = Read([header |-> h, payload |-> p], rest)
  BY <1>6, <1>7, <1>9, FrameRead
<1>11. Frame(type, from, to, payload) \o rest = r
  BY <1>1, <1>3, <1>4, <1>5, <1>8, <1>9, Zenon
<1> QED
  BY <1>1, <1>3, <1>10, <1>11, Zenon

(* A header is not empty.                                                  *)
LEMMA HeaderLong ==
  ASSUME NEW h, IsHeader(h)
  PROVE  MarshalHeader(h) \in Seq(Bytes) /\ Len(MarshalHeader(h)) > 0
<1>1. PICK t \in Seq(Bytes), a \in Seq(Bytes), b \in Seq(Bytes), s \in Seq(Bytes), l \in Seq(Bytes) :
        HeaderIs(h, t, a, b, s, l) /\ MarshalHeader(h) = t \o (a \o (b \o (s \o l)))
  BY HeaderParts
<1>2. PICK w3 \in Seq(Bytes) : w3 = s \o l
  BY Two
<1>3. PICK w2 \in Seq(Bytes) : w2 = b \o w3
  BY Two
<1>4. PICK w1 \in Seq(Bytes) : w1 = a \o w2
  BY Two
<1>5. PICK H \in Seq(Bytes) : H = t \o w1 /\ Len(H) = Len(t) + Len(w1)
  BY Two
<1>6. MarshalHeader(h) = H
  BY <1>1, <1>2, <1>3, <1>4, <1>5, Zenon
<1>7. Len(t) = 2
  BY <1>1 DEF HeaderIs
<1>8. Len(H) = Len(t) + Len(w1)
  BY <1>5, Zenon
<1>9. Len(w1) \in Nat
  OBVIOUS
<1>10. Len(H) > 0
  BY <1>7, <1>8, <1>9
<1> QED
  BY <1>6, <1>10

(* What the router charges for a frame is its length.                      *)
THEOREM FrameSize ==
  ASSUME NEW type, NEW from, NEW to, NEW payload, IsFrame(type, from, to, payload)
  PROVE  /\ Frame(type, from, to, payload) \in Seq(Bytes)
         /\ Len(Frame(type, from, to, payload)) = HeaderSize(HeaderOf(type, from, to, payload)) + Len(payload)
         /\ Frame(type, from, to, payload) # <<>>
<1>1. PICK h : h = HeaderOf(type, from, to, payload) /\ IsHeader(h)
              /\ Frame(type, from, to, payload) = MarshalHeader(h) \o payload
  BY FrameHeader
<1>2. PICK p \in Seq(Bytes) : p = payload
  BY DEF IsFrame, IsText
<1>3. PICK H \in Seq(Bytes) : H = MarshalHeader(h) /\ Len(H) = HeaderSize(h)
  BY <1>1, NoBytes, HeaderRoundTrip
<1>4. PICK f \in Seq(Bytes) : f = H \o p /\ Len(f) = Len(H) + Len(p)
  BY Two
<1>5. Frame(type, from, to, payload) = f
  BY <1>1, <1>2, <1>3, <1>4, Zenon
<1>6. f # <<>>
  <2>1. Len(H) > 0
    BY <1>1, <1>3, HeaderLong
  <2>2. Len(f) = Len(H) + Len(p)
    BY <1>4, Zenon
  <2>3. Len(p) \in Nat /\ Len(H) \in Nat
    OBVIOUS
  <2>4. Len(f) # 0
    BY <2>1, <2>2, <2>3
  <2> QED
    BY <2>4
<1> QED
  BY <1>1, <1>2, <1>3, <1>4, <1>5, <1>6, Zenon

(* A frame is not read before its last byte is there.                      *)
THEOREM FrameCut ==
  ASSUME NEW type, NEW from, NEW to, NEW payload, IsFrame(type, from, to, payload),
         NEW r, CutOf(r, Frame(type, from, to, payload))
  PROVE  ~ReadFrame(r).ok
<1>1. PICK h : h = HeaderOf(type, from, to, payload) /\ IsHeader(h) /\ Same(h) = h
              /\ Frame(type, from, to, payload) = MarshalHeader(h) \o payload
  BY FrameHeader
<1>2. h.payloadLen = Len(payload) /\ h.payloadLen \in Nat
  BY <1>1, WordFacts DEF HeaderOf, IsFrame, IsText
<1>3. PICK p \in Seq(Bytes) : p = payload
  BY DEF IsFrame, IsText
<1>4. PICK H \in Seq(Bytes) : H = MarshalHeader(h)
  BY <1>1, NoBytes, HeaderRoundTrip
<1>5. CutOf(r, H \o p)
  BY <1>1, <1>3, <1>4, Zenon
<1>6. CASE CutOf(r, H)
  <2>1. ~UnmarshalHeader(r).ok
    BY <1>1, <1>4, <1>6, HeaderCut
  <2> QED
    BY <2>1, FrameRead
<1>7. ASSUME NEW u \in Seq(Bytes), CutOf(u, p), r = H \o u PROVE ~ReadFrame(r).ok
  <2>1. CASE h.payloadLen <= MaxPayloadBytes
    <3>1. UnmarshalHeader(H \o u) = Read(h, u)
      BY <1>1, <1>4, <2>1, HeaderRoundTrip
    <3>2. UnmarshalHeader(r) = Read(h, u)
      BY <1>7, <3>1, Zenon
    <3>3. ~Take(u, h.payloadLen).ok
      BY <1>2, <1>3, <1>7, CutFails
    <3> QED
      BY <3>2, <3>3, FrameRead
  <2>2. CASE h.payloadLen > MaxPayloadBytes
    <3>1. ~UnmarshalHeader(H \o u).ok
      BY <1>1, <1>4, <2>2, HeaderRoundTrip
    <3> QED
      BY <1>7, <3>1, FrameRead
  <2> QED
    BY <1>2, <2>1, <2>2, PayloadNat
<1> QED
  BY <1>5, <1>6, <1>7, CutStep

(* A frame whose payload is over the limit is not read.                    *)
THEOREM FrameTooLong ==
  ASSUME NEW type, NEW from, NEW to, NEW payload, IsFrame(type, from, to, payload),
         Len(payload) > MaxPayloadBytes
  PROVE  ~ReadFrame(Frame(type, from, to, payload)).ok
<1>1. PICK h : h = HeaderOf(type, from, to, payload) /\ IsHeader(h)
              /\ Frame(type, from, to, payload) = MarshalHeader(h) \o payload
  BY FrameHeader
<1>2. PICK p \in Seq(Bytes) : p = payload
  BY DEF IsFrame, IsText
<1>3. h.payloadLen > MaxPayloadBytes
  BY <1>1 DEF HeaderOf
<1>4. ~UnmarshalHeader(MarshalHeader(h) \o p).ok
  BY <1>1, <1>3, HeaderRoundTrip
<1> QED
  BY <1>1, <1>2, <1>4, FrameRead

-----------------------------------------------------------------------------
(* Names and codes.                                                        *)

(* Quotient and remainder.                                                 *)
LEMMA Divided ==
  ASSUME NEW d \in Nat, d > 0
  PROVE  \A i \in Nat : i \div d \in Nat /\ i % d \in 0..(d - 1) /\ i = d * (i \div d) + (i % d)
<1>1. ASSUME NEW i \in Nat PROVE i % d \in 0..(d - 1)
  OBVIOUS
<1>2. ASSUME NEW i \in Nat PROVE i \div d \in Nat
  OBVIOUS
<1>3. ASSUME NEW i \in Nat PROVE i = d * (i \div d) + (i % d)
  OBVIOUS
<1> QED
  BY <1>1, <1>2, <1>3

(* What a quotient is below.                                               *)
LEMMA SmallQuotient ==
  ASSUME NEW d \in Nat, d > 0, NEW i \in Nat, i < d * d
  PROVE  i \div d < d
<1>1. PICK q \in Nat, m \in 0..(d - 1) : q = i \div d /\ i = d * q + m
  BY Divided
<1> SUFFICES ASSUME q >= d PROVE FALSE
  BY <1>1
<1>2. d * q >= d * d
  OBVIOUS
<1> QED
  BY <1>1, <1>2

Names == 0..Len(GeneratedCapabilityInfoRegistry)

(* The registry has 54 capabilities, few enough for names of two bytes.    *)
LEMMA NameFacts ==
  /\ Capability = 1..54 /\ Names = 0..54
  /\ \A c \in Capability : c \in Names
  /\ 0 \in Names /\ 1..11 \subseteq Names
  /\ 54 < 4 * Base * Base
<1>1. Len(GeneratedCapabilityInfoRegistry) = 54 /\ Capability = 1..54
  BY DEF Capability, GeneratedCapabilityInfoRegistry
<1> QED
  BY <1>1, LimitAssumption DEF Names

(* A name is a text of two bytes.                                          *)
LEMMA TextIs ==
  \A i \in Names : /\ IsText(Text(i)) /\ Len(Text(i)) = 2 /\ Len(Text(i)) <= MaxIDLen
                   /\ Text(i) # <<>> /\ Text(i) \in Seq(Bytes)
<1> TAKE i \in Names
<1>0. Base \in Nat /\ Base > 0
  BY WordFacts
<1>1. PICK d \in Nat : d = 2 * Base /\ d > 0 /\ d * d = 4 * Base * Base
  BY <1>0
<1>2. i \in Nat /\ i < d * d
  BY <1>1, NameFacts
<1>3. i \div d \in 0..(d - 1)
  BY <1>1, <1>2, SmallQuotient, Divided
<1>4. i % d \in 0..(d - 1)
  BY <1>1, <1>2, Divided
<1>5. Text(i) = <<i \div d, i % d>> /\ Bytes = 0..(d - 1)
  BY <1>1 DEF Text, Bytes
<1>6. Text(i) \in Seq(Bytes) /\ Len(Text(i)) = 2 /\ Text(i) # <<>>
  BY <1>3, <1>4, <1>5
<1>7. 2 \in Words
  <2>1. MaxVarintBytes \in Nat /\ MaxDetail \in Nat
    BY CodecAssumption, LimitAssumption DEF MaxVarintBytes
  <2>2. MaxDetail + 6 * MaxVarintBytes + 8 \in Words
    BY LimitAssumption DEF Fits
  <2>3. PICK m \in Nat : Words = 0..m
    BY WordFacts DEF Words
  <2> QED
    BY <2>1, <2>2, <2>3
<1> QED
  BY <1>6, <1>7, LimitAssumption DEF IsText

(* No two names are the same text.                                         *)
LEMMA TextInjective ==
  \A i, j \in Nat : Text(i) = Text(j) => i = j
<1> SUFFICES ASSUME NEW i \in Nat, NEW j \in Nat, Text(i) = Text(j) PROVE i = j
  OBVIOUS
<1>1. PICK d \in Nat : d = 2 * Base /\ d > 0
  BY WordFacts
<1>2. Text(i) = <<i \div d, i % d>> /\ Text(j) = <<j \div d, j % d>>
  BY <1>1 DEF Text
<1>3. i \div d = j \div d /\ i % d = j % d
  <2>1. PICK a, b, e, f : a = i \div d /\ b = i % d /\ e = j \div d /\ f = j % d
    OBVIOUS
  <2>2. <<a, b>> = <<e, f>>
    BY <1>2, <2>1
  <2>3. a = e /\ b = f
    BY <2>2
  <2> QED
    BY <2>1, <2>3
<1>4. i = d * (i \div d) + (i % d)
  BY <1>1, Divided
<1>5. j = d * (j \div d) + (j % d)
  BY <1>1, Divided
<1> QED
  BY <1>3, <1>4, <1>5, Zenon

(* The code at each place of the list.                                     *)
LEMMA CodesAre ==
  /\ Code("capability_denied") = Text(1) /\ Code("fs_error") = Text(2)
  /\ Code("unavailable") = Text(3) /\ Code("chrome_error") = Text(4)
  /\ Code("bad_request") = Text(5) /\ Code("not_found") = Text(6)
  /\ Code("loop_detected") = Text(7) /\ Code("schema_invalid") = Text(8)
  /\ Code("pipe_error") = Text(9) /\ Code("timeout") = Text(10) /\ Code("decode_error") = Text(11)
<1>1. DOMAIN Codes = 1..11
  BY DEF Codes
<1>2. /\ Codes[1] = "capability_denied" /\ Codes[2] = "fs_error" /\ Codes[3] = "unavailable"
      /\ Codes[4] = "chrome_error" /\ Codes[5] = "bad_request" /\ Codes[6] = "not_found"
      /\ Codes[7] = "loop_detected" /\ Codes[8] = "schema_invalid" /\ Codes[9] = "pipe_error"
      /\ Codes[10] = "timeout" /\ Codes[11] = "decode_error"
  BY DEF Codes
<1>3. \A i \in 1..11 : i = 1 \/ i = 2 \/ i = 3 \/ i = 4 \/ i = 5 \/ i = 6 \/ i = 7 \/ i = 8 \/ i = 9
                       \/ i = 10 \/ i = 11
  OBVIOUS
<1>4. ASSUME NEW k \in 1..11 PROVE Code(Codes[k]) = Text(k)
  <2>1. \A i \in 1..11 : Codes[i] = Codes[k] => i = k
    BY <1>2, <1>3
  <2>2. (CHOOSE i \in DOMAIN Codes : Codes[i] = Codes[k]) = k
    BY <1>1, <2>1
  <2> QED
    BY <2>2 DEF Code
<1>5. /\ Code(Codes[1]) = Text(1) /\ Code(Codes[2]) = Text(2) /\ Code(Codes[3]) = Text(3)
      /\ Code(Codes[4]) = Text(4) /\ Code(Codes[5]) = Text(5) /\ Code(Codes[6]) = Text(6)
      /\ Code(Codes[7]) = Text(7) /\ Code(Codes[8]) = Text(8) /\ Code(Codes[9]) = Text(9)
      /\ Code(Codes[10]) = Text(10) /\ Code(Codes[11]) = Text(11)
  BY <1>4
<1> HIDE DEF Codes
<1> QED
  BY <1>2, <1>5

CodesOfKeeper == {Code(n) : n \in {"capability_denied", "fs_error", "unavailable", "chrome_error"}}
CodesOfWard == {Code(n) : n \in {"bad_request", "not_found", "loop_detected", "schema_invalid",
                                 "pipe_error"}}

(* No code means two things, and a success has none.                       *)
LEMMA CodesApart ==
  /\ CodesOfKeeper \cap CodesOfWard = {}
  /\ Code("timeout") \notin CodesOfKeeper \cup CodesOfWard
  /\ Code("decode_error") \notin CodesOfKeeper \cup CodesOfWard
  /\ Code("timeout") # Code("decode_error")
  /\ Code("capability_denied") # Code("fs_error") /\ Code("capability_denied") # <<>>
<1>1. CodesOfKeeper = {Text(1), Text(2), Text(3), Text(4)}
  BY CodesAre DEF CodesOfKeeper
<1>2. CodesOfWard = {Text(5), Text(6), Text(7), Text(8), Text(9)}
  BY CodesAre DEF CodesOfWard
<1>3. \A i, j \in 1..11 : i # j => Text(i) # Text(j)
  BY TextInjective
<1>4. Text(1) # <<>>
  BY TextIs, NameFacts
<1> QED
  BY <1>1, <1>2, <1>3, <1>4, CodesAre

-----------------------------------------------------------------------------
(* The callers.                                                            *)

(* A name names one capability.                                            *)
LEMMA NamedIs ==
  ASSUME NEW c \in Capability
  PROVE  Named(Text(c)) = {c}
<1>1. \A e \in Capability : e \in Nat
  BY NameFacts
<1> QED
  BY <1>1, TextInjective DEF Named

(* Max is what its name says.                                              *)
LEMMA Greatest ==
  ASSUME NEW n \in Nat, NEW S \in SUBSET (1..n), S # {}
  PROVE  Max(S) \in S
<1> DEFINE T == {n - x : x \in S}
<1>0. \A x \in S : n - x \in Nat
  OBVIOUS
<1>1. T \in SUBSET Nat /\ T # {}
  BY <1>0
<1>2. PICK t \in T : \A u \in T : t <= u
  BY <1>1, Least
<1>3. PICK x \in S : t = n - x
  BY <1>2
<1>4. \A y \in S : n - x <= n - y
  BY <1>2, <1>3
<1>5. \A y \in S : x >= y
  BY <1>4
<1> QED
  BY <1>5 DEF Max

(* The last of several flags is a word like each of them.                  *)
LEMMA RawIsWord ==
  ASSUME NEW argv, IsLine(argv), NEW n \in Given(argv)
  PROVE  IsWord(RawArg(argv, n))
<1>1. DOMAIN argv = 1..Len(argv) /\ Len(argv) \in Nat
  BY DEF IsLine
<1>2. FlagsNamed(argv, n) \in SUBSET (1..Len(argv)) /\ FlagsNamed(argv, n) # {}
  BY <1>1 DEF FlagsNamed, Given
<1>3. PICK i : i = Max(FlagsNamed(argv, n)) /\ i \in FlagsNamed(argv, n)
  BY <1>1, <1>2, Greatest
<1>4. i \in DOMAIN argv /\ IsFlag(argv[i])
  BY <1>3 DEF FlagsNamed
<1>5. RawArg(argv, n) = WordOf(argv, i)
  BY <1>3 DEF RawArg
<1> QED
  BY <1>4, <1>5 DEF IsLine

(* The zero value of a type is of the type.                                *)
LEMMA ZeroIs ==
  ASSUME NEW type \in Types
  PROVE  IsOf(type, ZeroValue(type))
<1>1. 0 \in Words
  BY WordFacts
<1>2. <<>> \in Seq(Bytes) /\ <<>> \in Seq(Seq(Bytes)) /\ <<>> \in Seq(Seq(Seq(Bytes)))
      /\ Len(<<>>) = 0 /\ DOMAIN <<>> = {}
  OBVIOUS
<1>3. IsInt(0)
  <2>1. 2 ^ (Width - 1) \in Nat \ {0}
    BY PowerFacts, CodecAssumption
  <2> QED
    BY <2>1 DEF IsInt
<1> QED
  BY <1>1, <1>2, <1>3 DEF Types, IsOf, ZeroValue, IsText, IsTexts

(* What capwrap makes of its flags has the types of the schema, given or   *)
(* not.                                                                    *)
LEMMA ArgsTyped ==
  ASSUME NEW c, NEW argv, IsLine(argv), Buildable(c, argv)
  PROVE  c \in Capability /\ IsArgs(c, TypedArgs(c, argv))
<1>1. c \in Capability
  BY DEF Buildable
<1> DEFINE v == TypedArgs(c, argv)
<1>2. v = [i \in DOMAIN Info(c).args |-> v[i]]
  BY DEF TypedArgs
<1>3. ASSUME NEW i \in DOMAIN Info(c).args
      PROVE  IsOf(Info(c).args[i].type, v[i])
  <2>1. PICK f : f = Info(c).args[i]
    OBVIOUS
  <2>2. f.type \in Types
    BY <1>1, <1>3, <2>1, InfosOK DEF InfoOK, Fields
  <2>3. CASE f.name \in Given(argv)
    <3>1. PICK w : w = RawArg(argv, f.name) /\ IsWord(w)
      BY <2>3, RawIsWord
    <3>2. Accepts(f, w)
      BY <2>1, <2>3, <3>1 DEF Buildable
    <3>3. v[i] = CoerceFieldValue(f, w)
      BY <2>1, <2>3, <3>1 DEF TypedArgs
    <3>4. CASE f.type = "string"
      <4>1. v[i] = ThroughJSON(w.text)
        BY <3>3, <3>4 DEF CoerceFieldValue
      <4>2. IsText(v[i])
        BY <3>1, <4>1 DEF IsWord
      <4> QED
        BY <2>1, <3>4, <4>2 DEF IsOf
    <3>5. CASE f.type # "string"
      <4>1. v[i] = w.as[f.type] /\ f.type \in DOMAIN w.as
        BY <3>2, <3>3, <3>5 DEF CoerceFieldValue, Accepts
      <4> QED
        BY <2>1, <3>1, <4>1 DEF IsWord
    <3> QED
      BY <3>4, <3>5
  <2>4. CASE f.name \notin Given(argv)
    <3>1. v[i] = ZeroValue(f.type)
      BY <2>1, <2>4 DEF TypedArgs
    <3>2. IsOf(f.type, ZeroValue(f.type))
      BY <2>2, ZeroIs
    <3> QED
      BY <2>1, <3>1, <3>2
  <2> QED
    BY <2>3, <2>4
<1> HIDE DEF v
<1> QED
  BY <1>1, <1>2, <1>3 DEF IsArgs, v

-----------------------------------------------------------------------------
(* The requests.                                                           *)

Asking(c, argv) ==
  [capability |-> Text(c), mode |-> Invoke, args |-> MarshalArgs(c, TypedArgs(c, argv))]
AskingSchema(c) == [capability |-> Text(c), mode |-> Schema, args |-> <<>>]

(* The request that capwrap writes.                                        *)
LEMMA CapwrapAsks ==
  ASSUME NEW c \in Calls, c.by = "capwrap", Buildable(c.cap, c.argv)
  PROVE  /\ c.cap \in Capability /\ IsArgs(c.cap, TypedArgs(c.cap, c.argv))
         /\ IsToolRequest(Asking(c.cap, c.argv))
         /\ Invocation(c.cap, c.argv) = MarshalToolRequest(Asking(c.cap, c.argv))
<1>1. IsCall(c)
  BY CallAssumption
<1>2. IsLine(c.argv) /\ Len(MarshalArgs(c.cap, TypedArgs(c.cap, c.argv))) \in Words
  BY <1>1 DEF IsCall
<1>3. c.cap \in Capability /\ IsArgs(c.cap, TypedArgs(c.cap, c.argv))
  BY <1>2, ArgsTyped
<1>4. IsText(MarshalArgs(c.cap, TypedArgs(c.cap, c.argv)))
  BY <1>2, <1>3, ArgsRoundTrip DEF IsText
<1>5. IsText(Text(c.cap)) /\ Len(Text(c.cap)) <= MaxIDLen
  BY <1>3, NameFacts, TextIs
<1>6. Invoke \in Bytes
  BY WordFacts DEF Invoke, Bytes
<1>7. IsToolRequest(Asking(c.cap, c.argv))
  BY <1>4, <1>5, <1>6 DEF IsToolRequest, Asking
<1>8. Invocation(c.cap, c.argv) = MarshalToolRequest(Asking(c.cap, c.argv))
  BY DEF Invocation, Asking
<1> QED
  BY <1>3, <1>7, <1>8

(* The request that --help writes.                                         *)
LEMMA HelpAsks ==
  ASSUME NEW c \in Calls, c.by = "help"
  PROVE  IsToolRequest(AskingSchema(c.cap)) /\ Text(c.cap) # <<>>
<1>1. IsCall(c)
  BY CallAssumption
<1>2. c.cap \in {0} \cup Capability
  BY <1>1 DEF IsCall
<1>3. IsText(Text(c.cap)) /\ Len(Text(c.cap)) <= MaxIDLen /\ Text(c.cap) # <<>>
  BY <1>2, NameFacts, TextIs
<1>4. Schema \in Bytes
  BY WordFacts DEF Schema, Bytes
<1>5. IsText(<<>>)
  BY WordFacts DEF IsText
<1> QED
  BY <1>3, <1>4, <1>5 DEF IsToolRequest, AskingSchema

-----------------------------------------------------------------------------
(* What the Ward makes of the bytes on the socket.                         *)

(* What the tool wrote is what its command line asks for.                  *)
RequestOf(c, bytes) ==
  CASE c.by = "capwrap" -> Buildable(c.cap, c.argv) /\ bytes = Invocation(c.cap, c.argv)
    [] c.by = "help" -> bytes = MarshalToolRequest(AskingSchema(c.cap))
    [] OTHER -> bytes = c.bytes

(* Every request is bytes.                                                 *)
LEMMA RequestTyped ==
  ASSUME NEW c \in Calls, NEW r, RequestOf(c, r)
  PROVE  r \in Seq(Bytes)
<1>1. IsCall(c)
  BY CallAssumption
<1>2. CASE c.by = "capwrap"
  <2>1. Buildable(c.cap, c.argv) /\ r = Invocation(c.cap, c.argv)
    BY <1>2 DEF RequestOf
  <2> QED
    BY <1>2, <2>1, CapwrapAsks, ToolRequestRoundTrip
<1>3. CASE c.by = "help"
  <2>1. r = MarshalToolRequest(AskingSchema(c.cap))
    BY <1>3 DEF RequestOf
  <2> QED
    BY <1>3, <2>1, HelpAsks, ToolRequestRoundTrip
<1>4. CASE c.by \notin {"capwrap", "help"}
  <2>1. r = c.bytes
    BY <1>4 DEF RequestOf
  <2> QED
    BY <1>1, <1>4, <2>1 DEF IsCall
<1> QED
  BY <1>2, <1>3, <1>4

ReadUpTo(r) == SubSeq(r, 1, Min({Len(r), MaxRequest}))

(* The limits are numbers, and what the Ward reads fits a payload.         *)
LEMMA Limits ==
  /\ MaxRequest \in Nat /\ MaxRequest <= MaxPayloadBytes /\ MaxPayloadBytes \in Nat
  /\ MaxVarintBytes \in Nat /\ MaxDetail \in Nat /\ MaxIDLen \in Nat
  /\ MaxRequest + 2 * MaxVarintBytes <= MaxPayloadBytes
<1>1. MaxVarintBytes \in Nat
  BY CodecAssumption DEF MaxVarintBytes
<1> QED
  BY <1>1, LimitAssumption, PayloadNat

(* A prefix has the length that was asked for.                             *)
LEMMA CutSize ==
  ASSUME NEW r \in Seq(Bytes), NEW m \in 0..Len(r)
  PROVE  SubSeq(r, 1, m) \in Seq(Bytes) /\ Len(SubSeq(r, 1, m)) = m
OBVIOUS

(* The Ward reads a request whole, or a part that is cut off.              *)
LEMMA UpTo ==
  ASSUME NEW r \in Seq(Bytes)
  PROVE  /\ ReadUpTo(r) \in Seq(Bytes) /\ Len(ReadUpTo(r)) <= MaxRequest /\ Len(ReadUpTo(r)) <= Len(r)
         /\ Len(ReadUpTo(r)) \in Nat
         /\ Len(r) <= MaxRequest => ReadUpTo(r) = r
         /\ Len(r) > MaxRequest => \E k \in 0..(Len(r) - 1) : ReadUpTo(r) = SubSeq(r, 1, k)
<1>1. Len(r) \in Nat /\ MaxRequest \in Nat
  BY LimitAssumption
<1>2. PICK m \in Nat : /\ m = Min({Len(r), MaxRequest}) /\ m <= Len(r) /\ m <= MaxRequest
                       /\ m \in {Len(r), MaxRequest}
  BY <1>1, MinOfTwo
<1>3. ReadUpTo(r) = SubSeq(r, 1, m)
  BY <1>2 DEF ReadUpTo
<1>4. SubSeq(r, 1, m) \in Seq(Bytes) /\ Len(SubSeq(r, 1, m)) = m
  <2>1. m \in 0..Len(r)
    BY <1>1, <1>2
  <2> QED
    BY <2>1, CutSize
<1>5. SubSeq(r, 1, Len(r)) = r
  OBVIOUS
<1>6. Len(r) <= MaxRequest => m = Len(r)
  BY <1>1, <1>2
<1>7. Len(r) > MaxRequest => m \in 0..(Len(r) - 1)
  BY <1>1, <1>2
<1> QED
  BY <1>1, <1>2, <1>3, <1>4, <1>5, <1>6, <1>7

(* What the Ward reads, in these terms.                                    *)
LEMMA ReceivedIs == Received = UnmarshalToolRequest(ReadUpTo(request))
BY DEF Received, ReadUpTo

(* Whatever client wrote it, what was read is a request for keeperd, and   *)
(* within the limit.                                                       *)
LEMMA ReceivedTyped ==
  ASSUME request \in Seq(Bytes), Received.ok
  PROVE  /\ IsCapabilityRequest(Received.val)
         /\ Len(Received.val.capability) + Len(Received.val.args) <= MaxRequest
         /\ Len(Received.val.args) <= Len(request)
<1>1. PICK r \in Seq(Bytes) : r = ReadUpTo(request) /\ Len(r) <= MaxRequest /\ Len(r) <= Len(request)
  BY UpTo
<1>2. Received = UnmarshalToolRequest(r)
  BY <1>1, ReceivedIs
<1>3. /\ IsText(Received.val.args) /\ Received.val.capability \in Seq(Bytes)
      /\ Len(Received.val.capability) <= MaxIDLen
      /\ Len(Received.val.capability) + Len(Received.val.args) <= Len(r)
  BY <1>2, ToolRequestTyped
<1>4. Len(Received.val.capability) \in Nat /\ Len(Received.val.args) \in Nat /\ Len(r) \in Nat
      /\ MaxRequest \in Nat /\ Len(request) \in Nat
  BY <1>3, LimitAssumption DEF IsText
<1>5. \A i, j, k, m, n \in Nat : i + j <= k /\ k <= m /\ k <= n => i + j <= m /\ j <= n /\ i <= m
  OBVIOUS
<1>6. /\ Len(Received.val.capability) + Len(Received.val.args) <= MaxRequest
      /\ Len(Received.val.args) <= Len(request) /\ Len(Received.val.capability) <= MaxRequest
  BY <1>1, <1>3, <1>4, <1>5
<1>7. Len(Received.val.capability) \in Words
  <2>1. Len(Received.val.capability) <= MaxPayloadBytes
    BY <1>4, <1>6, Limits
  <2> QED
    BY <1>4, <2>1, WordFacts, CodecAssumption
<1> QED
  BY <1>3, <1>6, <1>7 DEF IsCapabilityRequest, IsText

(* A request of a tool is received as it was made, or not at all.          *)
LEMMA ReceivedOf ==
  ASSUME NEW p, IsToolRequest(p), request = MarshalToolRequest(p)
  PROVE  /\ Len(request) <= MaxRequest =>
              Received.ok /\ Received.val = [capability |-> p.capability, mode |-> p.mode, args |-> p.args]
         /\ Len(request) > MaxRequest => ~Received.ok
<1>1. request \in Seq(Bytes) /\ UnmarshalToolRequest(request) =
        Read([capability |-> p.capability, mode |-> p.mode, args |-> p.args], <<>>)
  BY ToolRequestRoundTrip
<1>2. ASSUME Len(request) <= MaxRequest
      PROVE  Received.ok /\ Received.val = [capability |-> p.capability, mode |-> p.mode, args |-> p.args]
  <2>1. Received = UnmarshalToolRequest(request)
    BY <1>1, <1>2, UpTo, ReceivedIs
  <2> QED
    BY <1>1, <2>1, ReadIs
<1>3. ASSUME Len(request) > MaxRequest PROVE ~Received.ok
  <2>1. PICK k \in 0..(Len(request) - 1) : ReadUpTo(request) = SubSeq(request, 1, k)
    BY <1>1, <1>3, UpTo
  <2> QED
    BY <2>1, ReceivedIs, ToolRequestCut
<1> QED
  BY <1>2, <1>3

(* The Ward finds nothing to object to in a call that capwrap has built,   *)
(* and its arguments are read as they were typed.                          *)
THEOREM CapwrapReceived ==
  ASSUME call \in Calls, call.by = "capwrap", RequestOf(call, request), Received.ok
  PROVE  /\ call.cap \in Capability /\ Len(request) <= MaxRequest
         /\ Received.val.capability = Text(call.cap) /\ Received.val.mode = Invoke
         /\ IsArgs(call.cap, TypedArgs(call.cap, call.argv))
         /\ UnmarshalArgs(call.cap, Received.val.args) = Read(TypedArgs(call.cap, call.argv), <<>>)
<1>1. Buildable(call.cap, call.argv) /\ request = Invocation(call.cap, call.argv)
  BY DEF RequestOf
<1>2. PICK p : p = Asking(call.cap, call.argv) /\ IsToolRequest(p) /\ request = MarshalToolRequest(p)
  BY <1>1, CapwrapAsks
<1>3. request \in Seq(Bytes) /\ Len(request) \in Nat /\ MaxRequest \in Nat
  BY RequestTyped, LimitAssumption
<1>4. Len(request) <= MaxRequest
  <2>1. ~(Len(request) > MaxRequest)
    BY <1>2, ReceivedOf
  <2> QED
    BY <1>3, <2>1
<1>5. Received.val = [capability |-> p.capability, mode |-> p.mode, args |-> p.args]
  BY <1>2, <1>4, ReceivedOf
<1>6. PICK v : v = TypedArgs(call.cap, call.argv) /\ call.cap \in Capability /\ IsArgs(call.cap, v)
  BY <1>1, CapwrapAsks
<1>7. PICK m \in Seq(Bytes) : m = MarshalArgs(call.cap, v)
  BY <1>6, ArgsRoundTrip
<1>8. /\ Received.val.capability = Text(call.cap) /\ Received.val.mode = Invoke
      /\ Received.val.args = m
  BY <1>2, <1>5, <1>6, <1>7 DEF Asking
<1>9. Len(m) <= MaxPayloadBytes
  <2>1. Len(m) <= Len(request) /\ Len(m) \in Nat
    BY <1>3, <1>8, ReceivedTyped
  <2> QED
    BY <1>3, <1>4, <2>1, Limits
<1>10. PICK e \in Seq(Bytes) : e = <<>> /\ m \o e = m
  BY NoBytes
<1>11. UnmarshalArgs(call.cap, m \o e) = Read(v, e)
  BY <1>6, <1>7, <1>9, ArgsRoundTrip
<1> QED
  BY <1>4, <1>6, <1>8, <1>10, <1>11

(* The Ward reads what --help asks.                                        *)
LEMMA HelpReceived ==
  ASSUME call \in Calls, call.by = "help", RequestOf(call, request)
  PROVE  /\ Received.ok => /\ Received.val.capability # <<>> /\ Received.val.mode = Schema
         /\ Len(request) <= MaxRequest => Received.ok
<1>1. PICK p : p = AskingSchema(call.cap) /\ IsToolRequest(p) /\ request = MarshalToolRequest(p)
               /\ Text(call.cap) # <<>>
  BY HelpAsks DEF RequestOf
<1>2. request \in Seq(Bytes) /\ Len(request) \in Nat /\ MaxRequest \in Nat
  BY RequestTyped, LimitAssumption
<1>3. Received.ok => Len(request) <= MaxRequest
  <2>1. Received.ok => ~(Len(request) > MaxRequest)
    BY <1>1, ReceivedOf
  <2> QED
    BY <1>2, <2>1
<1>4. Len(request) <= MaxRequest =>
         Received.ok /\ Received.val = [capability |-> p.capability, mode |-> p.mode, args |-> p.args]
  BY <1>1, ReceivedOf
<1> QED
  BY <1>1, <1>3, <1>4 DEF AskingSchema

-----------------------------------------------------------------------------
(* What the arguments of the two built-in capabilities decode to.          *)

(* What was there is a prefix of what it was appended to.                  *)
LEMMA PrefixOf ==
  ASSUME NEW a \in Seq(Bytes), NEW b \in Seq(Bytes)
  PROVE  IsPrefix(a, a \o b)
<1>0. a \o b \in Seq(Bytes) /\ Len(a \o b) = Len(a) + Len(b) /\ SubSeq(a \o b, 1, Len(a)) = a
  BY Split
<1>1. PICK d \in Seq(Bytes) : d = a \o b /\ Len(d) = Len(a) + Len(b) /\ SubSeq(d, 1, Len(a)) = a
  BY <1>0, Zenon
<1>2. Len(a) <= Len(d) /\ SubSeq(a, 1, Len(a)) = a
  BY <1>1
<1> QED
  BY <1>1, <1>2 DEF IsPrefix

(* A suffix, by its elements.                                              *)
LEMMA SuffixItself ==
  ASSUME NEW d \in Seq(Bytes), NEW b \in Seq(Bytes), Len(d) >= Len(b),
         \A i \in 1..Len(b) : d[(Len(d) - Len(b)) + i] = b[i]
  PROVE  IsSuffix(b, d)
<1>1. PICK m \in Nat, n \in Nat : m = Len(b) /\ n = Len(d) /\ m <= n
  OBVIOUS
<1>2. \A i \in 1..m : (n - m) + ((m - i) + 1) = (n - i) + 1 /\ (m - i) + 1 \in 1..m /\ (n - i) + 1 \in 1..n
  BY <1>1
<1>3. PICK rb : rb = Reverse(b) /\ rb = [i \in 1..m |-> b[(m - i) + 1]]
  BY <1>1 DEF Reverse
<1>4. PICK rd : rd = Reverse(d) /\ rd = [i \in 1..n |-> d[(n - i) + 1]]
  BY <1>1 DEF Reverse
<1>5. \A i \in 1..m : rd[i] = rb[i]
  <2> TAKE i \in 1..m
  <2>1. rb[i] = b[(m - i) + 1]
    BY <1>3
  <2>2. rd[i] = d[(n - i) + 1]
    BY <1>1, <1>4
  <2>3. d[(n - m) + ((m - i) + 1)] = b[(m - i) + 1]
    BY <1>1, <1>2
  <2> QED
    BY <1>2, <2>1, <2>2, <2>3
<1>6. Len(rb) = m /\ Len(rd) = n /\ rb \in Seq(Bytes) /\ rd \in Seq(Bytes)
  <2>1. \A i \in 1..m : b[(m - i) + 1] \in Bytes
    BY <1>1, <1>2
  <2>2. \A i \in 1..n : d[(n - i) + 1] \in Bytes
    <3>1. \A i \in 1..n : (n - i) + 1 \in 1..n
      BY <1>1
    <3> QED
      BY <1>1, <3>1
  <2> QED
    BY <1>3, <1>4, <2>1, <2>2
<1>7. SubSeq(rb, 1, m) = SubSeq(rd, 1, m)
  BY <1>1, <1>5, <1>6
<1>8. IsPrefix(rb, rd)
  BY <1>1, <1>6, <1>7 DEF IsPrefix
<1> QED
  BY <1>3, <1>4, <1>8 DEF IsSuffix

(* What was appended is a suffix.                                          *)
LEMMA SuffixOf ==
  ASSUME NEW a \in Seq(Bytes), NEW b \in Seq(Bytes)
  PROVE  IsSuffix(b, a \o b) /\ IsSuffix(b, b)
<1>0. /\ a \o b \in Seq(Bytes) /\ Len(a \o b) = Len(a) + Len(b)
      /\ \A i \in 1..Len(b) : (a \o b)[Len(a) + i] = b[i]
  BY Split
<1>1. PICK d \in Seq(Bytes) : /\ d = a \o b /\ Len(d) = Len(a) + Len(b)
                              /\ \A i \in 1..Len(b) : d[Len(a) + i] = b[i]
  BY <1>0, Zenon
<1>2. Len(a) \in Nat /\ Len(b) \in Nat
  OBVIOUS
<1>3. Len(d) - Len(b) = Len(a) /\ Len(d) >= Len(b)
  BY <1>1, <1>2
<1>4. IsSuffix(b, d)
  BY <1>1, <1>3, SuffixItself
<1>5. \A i \in 1..Len(b) : b[(Len(b) - Len(b)) + i] = b[i]
  BY <1>2
<1>6. IsSuffix(b, b)
  BY <1>2, <1>5, SuffixItself
<1> QED
  BY <1>1, <1>4, <1>6

-----------------------------------------------------------------------------
KindOf(type) ==
  CASE type = "string" -> {s \in Seq(Bytes) : Len(s) <= MaxPayloadBytes}
    [] type = "bool" -> BOOLEAN
    [] type = "int" -> Int

(* What is read of a simple field has its type, whoever wrote it.          *)
LEMMA FieldTyped ==
  ASSUME NEW type \in {"string", "bool", "int"}, NEW r \in Seq(Bytes), UnmarshalField(type, r).ok
  PROVE  UnmarshalField(type, r).val \in KindOf(type) /\ UnmarshalField(type, r).rest \in Seq(Bytes)
<1>1. CASE type = "string"
  <2>1. UnmarshalField(type, r) = ReadString(r, MaxPayloadBytes)
    BY <1>1 DEF UnmarshalField
  <2>2. PICK s \in Seq(Bytes), rest \in Seq(Bytes) :
          ReadString(r, MaxPayloadBytes) = Read(s, rest) /\ Len(s) <= MaxPayloadBytes
    BY <2>1, StringTyped, PayloadNat
  <2>3. ReadString(r, MaxPayloadBytes).val = s /\ ReadString(r, MaxPayloadBytes).rest = rest
    BY <2>2, ReadIs
  <2> QED
    BY <1>1, <2>1, <2>2, <2>3 DEF KindOf
<1>2. CASE type = "bool"
  <2>1. PICK t : t = Take(r, 1)
    OBVIOUS
  <2>2. UnmarshalField(type, r) = IF t.ok THEN Read(t.val[1] # 0, t.rest) ELSE t
    BY <1>2, <2>1 DEF UnmarshalField, ReadBool, Then
  <2>3. t.ok
    BY <2>2
  <2>4. PICK a \in Seq(Bytes), rest \in Seq(Bytes) : t = Read(a, rest)
    BY <2>1, <2>3, TakeTyped
  <2>5. t.rest = rest
    BY <2>4, ReadIs
  <2>6. UnmarshalField(type, r) = Read(t.val[1] # 0, rest)
    BY <2>2, <2>3, <2>5
  <2>7. UnmarshalField(type, r).val = (t.val[1] # 0) /\ UnmarshalField(type, r).rest = rest
    BY <2>6, ReadIs
  <2> QED
    BY <1>2, <2>7 DEF KindOf
<1>3. CASE type = "int"
  <2>1. PICK w : w = ReadVarint(r)
    OBVIOUS
  <2>2. UnmarshalField(type, r) = IF w.ok THEN Read(ToInt(w.val), w.rest) ELSE w
    BY <1>3, <2>1 DEF UnmarshalField, Then
  <2>3. w.ok
    BY <2>2
  <2>4. PICK n \in Words, rest \in Seq(Bytes) : w = Read(n, rest)
    BY <2>1, <2>3, VarintTyped
  <2>5. w.val = n /\ w.rest = rest
    BY <2>4, ReadIs
  <2>6. UnmarshalField(type, r) = Read(ToInt(n), rest)
    BY <2>2, <2>3, <2>5
  <2>7. UnmarshalField(type, r).val = ToInt(n) /\ UnmarshalField(type, r).rest = rest
    BY <2>6, ReadIs
  <2>8. ToInt(n) \in Int
    BY WordFacts DEF ToInt
  <2> QED
    BY <1>3, <2>7, <2>8 DEF KindOf
<1> QED
  BY <1>1, <1>2, <1>3

Simple(c) == \A i \in DOMAIN Info(c).args : Info(c).args[i].type \in {"string", "bool", "int"}

(* So has what is read of arguments that are all simple.                   *)
LEMMA SimpleArgs ==
  ASSUME NEW c \in Capability, Simple(c), NEW r \in Seq(Bytes), UnmarshalArgs(c, r).ok
  PROVE  \A i \in DOMAIN Info(c).args : UnmarshalArgs(c, r).val[i] \in KindOf(Info(c).args[i].type)
<1>1. PICK n \in Nat : n = Len(Info(c).args) /\ DOMAIN Info(c).args = 1..n
  BY InfosOK DEF InfoOK, Fields
<1>2. PICK kinds : kinds = [i \in 1..n |-> KindOf(Info(c).args[i].type)]
  OBVIOUS
<1>3. PICK read : read = [i \in 1..n |-> [s \in Seq(Bytes) |-> UnmarshalField(Info(c).args[i].type, s)]]
  OBVIOUS
<1>4. UnmarshalArgs(c, r) = ReadEach(read, n, r)
  BY <1>1, <1>3 DEF UnmarshalArgs
<1>5. ASSUME NEW k \in 1..n, NEW s \in Seq(Bytes), read[k][s].ok
      PROVE  read[k][s].val \in kinds[k] /\ read[k][s].rest \in Seq(Bytes)
  <2>1. read[k][s] = UnmarshalField(Info(c).args[k].type, s) /\ kinds[k] = KindOf(Info(c).args[k].type)
    BY <1>2, <1>3
  <2>2. Info(c).args[k].type \in {"string", "bool", "int"}
    BY <1>1 DEF Simple
  <2> QED
    BY <1>5, <2>1, <2>2, FieldTyped
<1>6. EachOf(ReadEach(read, n, r).val, kinds, n)
  BY <1>4, <1>5, EachTyped
<1>7. \A k \in 1..n : UnmarshalArgs(c, r).val[k] \in kinds[k]
  BY <1>4, <1>6 DEF EachOf
<1> QED
  BY <1>1, <1>2, <1>7

(* What Filesystem_File_Write reads as its arguments, whoever wrote them,  *)
(* ...                                                                     *)
LEMMA WriteArgs ==
  ASSUME NEW c \in Capability, Info(c) = Filesystem_File_Write,
         NEW r \in Seq(Bytes), UnmarshalArgs(c, r).ok, NEW v, v = UnmarshalArgs(c, r).val
  PROVE  /\ v[1] \in Seq(Bytes) /\ Len(v[1]) <= MaxPayloadBytes
         /\ v[2] \in Seq(Bytes) /\ Len(v[2]) <= MaxPayloadBytes /\ v[3] \in BOOLEAN
<1>1. /\ DOMAIN Info(c).args = 1..4 /\ Info(c).args[1].type = "string" /\ Info(c).args[2].type = "string"
      /\ Info(c).args[3].type = "bool" /\ Info(c).args[4].type = "string"
  BY DEF Filesystem_File_Write, Req, Opt, OptOneOf, Field
<1>2. Simple(c)
  BY <1>1 DEF Simple
<1>3. \A i \in 1..4 : v[i] \in KindOf(Info(c).args[i].type)
  BY <1>1, <1>2, SimpleArgs
<1> QED
  BY <1>1, <1>3 DEF KindOf

(* ... and what Browser_Page_Read does.                                    *)
LEMMA PageArgs ==
  ASSUME NEW c \in Capability, Info(c) = Browser_Page_Read,
         NEW r \in Seq(Bytes), UnmarshalArgs(c, r).ok, NEW v, v = UnmarshalArgs(c, r).val
  PROVE  v[1] \in Seq(Bytes) /\ Len(v[1]) <= MaxPayloadBytes
<1>1. /\ DOMAIN Info(c).args = 1..3 /\ Info(c).args[1].type = "string" /\ Info(c).args[2].type = "int"
      /\ Info(c).args[3].type = "string"
  BY DEF Browser_Page_Read, Req, Opt, OptOneOf, Field
<1>2. Simple(c)
  BY <1>1 DEF Simple
<1>3. \A i \in 1..3 : v[i] \in KindOf(Info(c).args[i].type)
  BY <1>1, <1>2, SimpleArgs
<1> QED
  BY <1>1, <1>3 DEF KindOf

-----------------------------------------------------------------------------
(* Responses.                                                              *)

(* A response has few bytes more than its parts.                           *)
LEMMA ResponseSize ==
  ASSUME NEW p, IsResponse(p)
  PROVE  Len(MarshalResponse(p)) <=
           ((1 + Len(p.data)) + (Len(p.code) + Len(p.detail)))
             + (MaxVarintBytes + (MaxVarintBytes + MaxVarintBytes))
<1>1. PICK o \in Seq(Bytes), d \in Seq(Bytes), c \in Seq(Bytes), x \in Seq(Bytes),
           r2 \in Seq(Bytes), r1 \in Seq(Bytes), r \in Seq(Bytes) :
           ResponseIs(p, o, d, c, x, r2, r1, r)
  BY ResponseParts
<1>2. /\ Len(r) = Len(o) + Len(r1) /\ Len(r1) = Len(d) + Len(r2) /\ r = MarshalResponse(p)
      /\ d = Str(p.data) /\ c = Str(p.code) /\ x = Str(p.detail)
  BY <1>1 DEF ResponseIs
<1>3. Len(r2) = Len(c) + Len(x)
  <2>1. r2 = c \o x
    BY <1>1 DEF ResponseIs
  <2>2. Len(c \o x) = Len(c) + Len(x)
    BY Split
  <2> QED
    BY <2>1, <2>2, Zenon
<1>4. Len(o) = 1
  <2>1. o = <<IF p.ok THEN 1 ELSE 0>> /\ p.ok \in BOOLEAN
    BY <1>1 DEF ResponseIs, IsResponse
  <2> QED
    BY <2>1
<1>5. /\ Len(d) <= MaxVarintBytes + Len(p.data) /\ Len(p.data) \in Nat
      /\ Len(c) <= MaxVarintBytes + Len(p.code) /\ Len(p.code) \in Nat
      /\ Len(x) <= MaxVarintBytes + Len(p.detail) /\ Len(p.detail) \in Nat
  BY <1>2, TextFacts DEF IsResponse
<1>6. Len(d) \in Nat /\ Len(c) \in Nat /\ Len(x) \in Nat /\ MaxVarintBytes \in Nat
  BY Limits
<1>7. \A d0, c0, x0, m, i, j, k \in Nat :
         d0 <= m + i /\ c0 <= m + j /\ x0 <= m + k =>
           1 + (d0 + (c0 + x0)) <= ((1 + i) + (j + k)) + (m + (m + m))
  OBVIOUS
<1>8. 1 + (Len(d) + (Len(c) + Len(x))) <=
        ((1 + Len(p.data)) + (Len(p.code) + Len(p.detail)))
             + (MaxVarintBytes + (MaxVarintBytes + MaxVarintBytes))
  BY <1>5, <1>6, <1>7
<1>9. Len(r) = 1 + (Len(d) + (Len(c) + Len(x)))
  BY <1>2, <1>3, <1>4, Zenon
<1> QED
  BY <1>2, <1>8, <1>9, Zenon

(* A response as it is written: with all its parts, none of them too long. *)
Whole(p) ==
  /\ p = [ok |-> p.ok, data |-> p.data, code |-> p.code, detail |-> p.detail]
  /\ IsResponse(p) /\ Len(MarshalResponse(p)) \in Words

(* A length is an int if it is that of something that fits, and little     *)
(* more.                                                                   *)
LEMMA Within ==
  ASSUME NEW n, n \in Nat, Fits(n), NEW k \in Nat,
         k <= (n + 1) + (MaxVarintBytes + MaxVarintBytes)
  PROVE  /\ k \in Words
         /\ \A m \in Nat : m <= (k + 3) + (MaxVarintBytes + (MaxVarintBytes + MaxVarintBytes)) => m \in Words
<1>1. PICK v \in Nat : v = MaxVarintBytes
  BY Limits
<1>2. n + 6 * v + 8 \in Words
  BY <1>1 DEF Fits
<1>3. PICK w \in Nat : w = n + 6 * v + 8
  BY <1>1
<1>4. \A m \in Nat : m <= w => m \in Words
  BY <1>2, <1>3, WordFacts
<1>5. k <= w /\ (k + 3) + (v + (v + v)) <= w
  BY <1>1, <1>3
<1>6. ASSUME NEW m \in Nat, m <= (k + 3) + (v + (v + v)) PROVE m <= w
  BY <1>5, <1>6
<1> QED
  BY <1>1, <1>4, <1>5, <1>6

(* A response is whole if its data and its detail fit.                     *)
LEMMA Fitting ==
  ASSUME NEW n \in Nat, Fits(n), NEW ok \in BOOLEAN, NEW data \in Seq(Bytes), NEW detail \in Seq(Bytes),
         NEW code, IsText(code), Len(code) <= 2,
         Len(data) + Len(detail) <= (n + 1) + (MaxVarintBytes + MaxVarintBytes)
  PROVE  Whole([ok |-> ok, data |-> data, code |-> code, detail |-> detail])
<1>1. PICK p : p = [ok |-> ok, data |-> data, code |-> code, detail |-> detail]
  OBVIOUS
<1>2. p.ok = ok /\ p.data = data /\ p.code = code /\ p.detail = detail
  BY <1>1
<1>3. Len(data) \in Nat /\ Len(detail) \in Nat /\ Len(code) \in Nat /\ MaxVarintBytes \in Nat
  BY Limits DEF IsText
<1>4. PICK k \in Nat : k = Len(data) + Len(detail)
  BY <1>3
<1>5. /\ k \in Words
      /\ \A m \in Nat : m <= (k + 3) + (MaxVarintBytes + (MaxVarintBytes + MaxVarintBytes)) => m \in Words
  BY <1>4, Within
<1>6. Len(data) <= k /\ Len(detail) <= k
  BY <1>3, <1>4
<1>7. Len(data) \in Words /\ Len(detail) \in Words
  BY <1>3, <1>5, <1>6, WordFacts
<1>8. Len(code) <= MaxIDLen
  BY <1>3, LimitAssumption, Limits
<1>9. IsResponse(p)
  BY <1>2, <1>7, <1>8 DEF IsResponse, IsText
<1>10. Len(MarshalResponse(p)) \in Nat
  BY <1>9, Limits, ResponseRoundTrip
<1>11. Len(MarshalResponse(p)) <= ((1 + Len(data)) + (Len(code) + Len(detail)))
             + (MaxVarintBytes + (MaxVarintBytes + MaxVarintBytes))
  BY <1>2, <1>9, ResponseSize
<1>12. \A l, i, j, c, v \in Nat : l <= ((1 + i) + (c + j)) + (v + (v + v)) /\ c <= 2 =>
          l <= ((i + j) + 3) + (v + (v + v))
  OBVIOUS
<1>13. Len(MarshalResponse(p)) <= ((Len(data) + Len(detail)) + 3) + (MaxVarintBytes + (MaxVarintBytes + MaxVarintBytes))
  BY <1>3, <1>10, <1>11, <1>12
<1>14. Len(MarshalResponse(p)) \in Words
  BY <1>4, <1>5, <1>10, <1>13
<1> QED
  BY <1>1, <1>2, <1>9, <1>14 DEF Whole

(* There is room for a payload, a detail and a code.                       *)
LEMMA Rooms ==
  /\ Fits(MaxPayloadBytes) /\ Fits(MaxDetail)
  /\ \A name \in {"capability_denied", "fs_error", "unavailable", "chrome_error", "bad_request",
                  "not_found", "loop_detected", "schema_invalid", "pipe_error", "timeout", "decode_error"} :
       IsText(Code(name)) /\ Len(Code(name)) <= 2 /\ Code(name) # <<>>
<1>1. \A i \in 1..11 : IsText(Text(i)) /\ Len(Text(i)) = 2 /\ Text(i) # <<>>
  BY TextIs, NameFacts
<1>2. ASSUME NEW name \in {"capability_denied", "fs_error", "unavailable", "chrome_error", "bad_request",
                  "not_found", "loop_detected", "schema_invalid", "pipe_error", "timeout", "decode_error"}
      PROVE  IsText(Code(name)) /\ Len(Code(name)) <= 2 /\ Code(name) # <<>>
  <2>1. PICK i \in 1..11 : Code(name) = Text(i)
    BY CodesAre
  <2>2. IsText(Text(i)) /\ Len(Text(i)) = 2 /\ Text(i) # <<>>
    BY <1>1
  <2>3. 2 <= 2
    OBVIOUS
  <2> QED
    BY <2>1, <2>2, <2>3, Zenon
<1> QED
  BY <1>2, LimitAssumption

(* The refusals whose detail is a few words, ...                           *)
LEMMA RefusalWhole ==
  ASSUME NEW name \in {"capability_denied", "fs_error", "unavailable", "chrome_error", "bad_request",
                  "not_found", "loop_detected", "schema_invalid", "pipe_error", "timeout", "decode_error"},
         NEW d \in Seq(Bytes), Len(d) <= MaxDetail + 1 \/ Len(d) <= MaxPayloadBytes + 1
  PROVE  /\ Whole(Refusal(name, d)) /\ ~Refusal(name, d).ok
         /\ Refusal(name, d).code = Code(name) /\ Refusal(name, d).detail = d
<1>1. IsText(Code(name)) /\ Len(Code(name)) <= 2
  BY Rooms
<1>2. PICK e \in Seq(Bytes) : e = <<>> /\ Len(e) = 0
  BY NoBytes
<1>3. PICK n \in Nat : Fits(n) /\ Len(d) <= n + 1
  BY Rooms, Limits
<1>4. Len(e) + Len(d) <= (n + 1) + (MaxVarintBytes + MaxVarintBytes)
  <2>1. Len(d) \in Nat /\ MaxVarintBytes \in Nat
    BY Limits
  <2> QED
    BY <1>2, <1>3, <2>1
<1>5. Whole([ok |-> FALSE, data |-> e, code |-> Code(name), detail |-> d])
  BY <1>1, <1>3, <1>4, Fitting
<1> QED
  BY <1>2, <1>5 DEF Refusal

(* ... and the successes, whose data fits.                                 *)
LEMMA SuccessWhole ==
  ASSUME NEW n \in Nat, Fits(n), NEW d \in Seq(Bytes), Len(d) <= (n + 1) + (MaxVarintBytes + MaxVarintBytes)
  PROVE  Whole(OK(d)) /\ OK(d).ok /\ OK(d).data = d /\ OK(d).code = <<>> /\ OK(d).detail = <<>>
<1>1. PICK e \in Seq(Bytes) : e = <<>> /\ Len(e) = 0
  BY NoBytes
<1>2. IsText(e) /\ Len(e) <= 2
  BY <1>1, WordFacts DEF IsText
<1>3. Len(d) + Len(e) <= (n + 1) + (MaxVarintBytes + MaxVarintBytes)
  <2>1. Len(d) \in Nat
    OBVIOUS
  <2>2. Len(d) + Len(e) = Len(d)
    BY <1>1, <2>1
  <2> QED
    BY <2>2
<1>4. Whole([ok |-> TRUE, data |-> d, code |-> e, detail |-> e])
  BY <1>2, <1>3, Fitting
<1> QED
  BY <1>1, <1>4 DEF OK

-----------------------------------------------------------------------------
(* What the capabilities answer with.                                      *)

(* Two strings of bytes, joined.                                           *)
LEMMA TwoJoined ==
  ASSUME NEW a \in Seq(Bytes), NEW b \in Seq(Bytes)
  PROVE  FlattenSeq(<<a, b>>) \in Seq(Bytes) /\ Len(FlattenSeq(<<a, b>>)) = Len(a) + Len(b)
<1>0. ASSUME NEW x, NEW y PROVE Len(<<x, y>>) = 2 /\ <<x, y>>[1] = x /\ <<x, y>>[2] = y
  OBVIOUS
<1>1. Len(<<a, b>>) = 2 /\ <<a, b>>[1] = a /\ <<a, b>>[2] = b
  BY <1>0
<1>2. PICK s : s = <<a, b>> /\ Len(s) = 2 /\ s[1] = a /\ s[2] = b
  BY <1>1
<1>3. PICK e \in Seq(Bytes) : e = <<>> /\ \A x \in Seq(Bytes) : x \o e = x
  BY NoBytes
<1>4. \A k \in 1..2 : s[k] \in Seq(Bytes)
  BY <1>2
<1>5. /\ FlattenSeq(s) \in Seq(Bytes)
      /\ \A rest \in Seq(Bytes) : \E g : Tails(g, s, 2, rest) /\ g[0] = FlattenSeq(s) \o rest
  <2>1. 2 \in Nat /\ Len(s) = 2 /\ (2 = 0 => s = <<>>)
    BY <1>2
  <2> QED
    BY <1>4, <2>1, FlattenTails
<1>6. PICK g : Tails(g, s, 2, e) /\ g[0] = FlattenSeq(s) \o e
  BY <1>3, <1>5
<1>7. g[2] = e /\ g[1] = s[2] \o g[2] /\ g[0] = s[1] \o g[1]
  <2>1. \A k \in 1..2 : g[k - 1] = s[k] \o g[k]
    BY <1>6 DEF Tails
  <2>2. g[2] = e
    BY <1>6 DEF Tails
  <2>3. 1 \in 1..2 /\ 2 \in 1..2 /\ 1 - 1 = 0 /\ 2 - 1 = 1
    OBVIOUS
  <2>4. g[1 - 1] = s[1] \o g[1] /\ g[2 - 1] = s[2] \o g[2]
    BY <2>1, <2>3, Zenon
  <2> QED
    BY <2>2, <2>3, <2>4, Zenon
<1>8. g[1] = b
  BY <1>2, <1>3, <1>7, Zenon
<1>9. FlattenSeq(s) = a \o b
  <2>1. FlattenSeq(s) \o e = FlattenSeq(s)
    BY <1>3, <1>5
  <2> QED
    BY <1>2, <1>6, <1>7, <1>8, <2>1, Zenon
<1>10. PICK f \in Seq(Bytes) : f = a \o b /\ Len(f) = Len(a) + Len(b)
  BY Two
<1> QED
  BY <1>2, <1>9, <1>10, Zenon

(* A detail that mentions a text.                                          *)
LEMMA MentionsIs ==
  ASSUME NEW s \in Seq(Bytes), Len(s) <= MaxPayloadBytes
  PROVE  /\ IsText(Mentions(s)) /\ Len(Mentions(s)) = Len(s) + 1 /\ Mentions(s) \in Seq(Bytes)
         /\ Len(Mentions(s)) <= MaxPayloadBytes + 1
<1>1. 1 \in Bytes
  BY WordFacts DEF Bytes
<1>2. Mentions(s) \in Seq(Bytes) /\ Len(Mentions(s)) = Len(s) + 1
  BY <1>1, ConsFacts DEF Mentions
<1>3. Len(s) \in Nat /\ MaxVarintBytes \in Nat /\ Len(s) + 1 \in Nat
  BY Limits
<1>4. Len(s) + 1 <= (MaxPayloadBytes + 1) + (MaxVarintBytes + MaxVarintBytes)
  BY <1>3, Limits
<1>5. Len(s) + 1 \in Words
  BY <1>3, <1>4, Rooms, Limits, Within
<1>6. Len(s) + 1 <= MaxPayloadBytes + 1
  BY <1>3, Limits
<1> QED
  BY <1>2, <1>5, <1>6 DEF IsText

(* A detail of a few words.                                                *)
LEMMA ShortIs ==
  Short \in Seq(Bytes) /\ Len(Short) = 1 /\ Short = << 1 >> /\ Len(Short) <= MaxDetail + 1
<1>1. 1 \in Bytes
  BY WordFacts DEF Bytes
<1> QED
  BY <1>1, Limits DEF Short

(* A written file is answered for with its path and the number of bytes.   *)
LEMMA WriteResult ==
  ASSUME NEW c \in Capability, Info(c) = Filesystem_File_Write,
         NEW path \in Seq(Bytes), Len(path) <= MaxPayloadBytes,
         NEW content \in Seq(Bytes), Len(content) <= MaxPayloadBytes,
         NEW v, v = <<Mentions(path), Len(content)>>,
         NEW d, d = MarshalResult(Filesystem_File_Write.result, v)
  PROVE  /\ IsResultOf(c, v) /\ d = EncodeResult(c, v) /\ d \in Seq(Bytes)
         /\ Len(d) <= (MaxPayloadBytes + 1) + (MaxVarintBytes + MaxVarintBytes)
<1>1. PICK fields : fields = Filesystem_File_Write.result
  OBVIOUS
<1>2. /\ DOMAIN fields = 1..2 /\ fields[1].type = "string" /\ fields[2].type = "int"
      /\ Info(c).returns = "object" /\ Info(c).result = fields
  BY <1>1 DEF Filesystem_File_Write, F
<1>3. PICK m \in Seq(Bytes) : m = Mentions(path) /\ IsText(m) /\ Len(m) = Len(path) + 1
  BY MentionsIs
<1>4. PICK n \in Nat : n = Len(content) /\ n <= MaxPayloadBytes
  OBVIOUS
<1>5. v[1] = m /\ v[2] = n
  BY <1>3, <1>4
<1>6. IsInt(n) /\ n \in Words
  <2>1. 2 ^ (Width - 1) \in Nat
    BY PowerFacts, CodecAssumption
  <2>2. n < 2 ^ (Width - 1)
    BY <1>4, <2>1, Limits, LimitAssumption
  <2>3. n \in Words
    BY <1>4, WordFacts, CodecAssumption
  <2> QED
    BY <2>1, <2>2, <2>3 DEF IsInt
<1>7. IsResultOf(c, v)
  <2>1. IsOf("string", v[1]) /\ IsOf("int", v[2])
    BY <1>3, <1>5, <1>6 DEF IsOf
  <2>2. IsItem(fields, v)
    BY <1>2, <2>1 DEF IsItem
  <2> QED
    BY <1>2, <2>2 DEF IsResultOf
<1>8. d = EncodeResult(c, v)
  BY <1>1, <1>2 DEF EncodeResult
<1>9. PICK a \in Seq(Bytes) : a = Str(m) /\ a = MarshalField("string", v[1]) /\ Len(a) <= MaxVarintBytes + Len(m)
  BY <1>3, <1>5, FieldString, StrIs, TextFacts
<1>10. PICK b \in Seq(Bytes) : b = MarshalField("int", v[2]) /\ Len(b) <= MaxVarintBytes
  <2>1. ToUint(n) = n
    BY <1>6, ByteFacts DEF ToUint
  <2>2. MarshalField("int", v[2]) = AppendVarint(<<>>, n)
    BY <1>5, <2>1 DEF MarshalField
  <2>3. MarshalField("int", v[2]) = VarintBytes[n] /\ VarintBytes[n] \in Seq(Bytes)
    BY <1>6, <2>2, AppendVarintIs
  <2> QED
    BY <1>6, <2>3, VarintLenIs
<1>11. d = FlattenSeq(<<a, b>>)
  <2>1. [i \in DOMAIN fields |->
           IF OnTheWire(fields[i]) THEN MarshalField(fields[i].type, v[i]) ELSE <<>>] = <<a, b>>
    BY <1>2, <1>9, <1>10 DEF OnTheWire
  <2> QED
    BY <1>1, <2>1 DEF MarshalResult
<1>12. d \in Seq(Bytes) /\ Len(d) = Len(a) + Len(b)
  BY <1>11, TwoJoined
<1>13. Len(d) <= (MaxPayloadBytes + 1) + (MaxVarintBytes + MaxVarintBytes)
  <2>1. \A l, a0, b0, m0, p, M, V \in Nat :
           l = a0 + b0 /\ a0 <= V + m0 /\ m0 = p + 1 /\ p <= M /\ b0 <= V => l <= (M + 1) + (V + V)
    OBVIOUS
  <2>2. Len(d) \in Nat /\ Len(a) \in Nat /\ Len(b) \in Nat /\ Len(m) \in Nat /\ Len(path) \in Nat
    BY <1>12
  <2> QED
    BY <1>3, <1>9, <1>10, <1>12, <2>1, <2>2, Limits
<1> QED
  BY <1>7, <1>8, <1>12, <1>13

(* So is a page that was read.                                             *)
LEMMA PageResult ==
  ASSUME NEW c \in Capability, Info(c) = Browser_Page_Read, NEW t \in PageTexts
  PROVE  /\ IsResultOf(c, t) /\ AppendString(<<>>, t) = EncodeResult(c, t)
         /\ AppendString(<<>>, t) \in Seq(Bytes)
         /\ Fits(Len(t)) /\ Len(t) \in Nat
         /\ Len(AppendString(<<>>, t)) <= (Len(t) + 1) + (MaxVarintBytes + MaxVarintBytes)
<1>1. Info(c).returns = "string"
  BY DEF Browser_Page_Read
<1>2. IsText(t) /\ Fits(Len(t))
  BY ResultAssumption
<1>3. IsResultOf(c, t)
  BY <1>1, <1>2 DEF IsResultOf, IsOf
<1>4. EncodeResult(c, t) = AppendString(<<>>, t)
  BY <1>1, FieldString DEF EncodeResult
<1>5. PICK a \in Seq(Bytes) : a = AppendString(<<>>, t) /\ Len(a) <= MaxVarintBytes + Len(t)
  BY <1>2, StrIs, TextFacts
<1>6. Len(t) \in Nat /\ MaxVarintBytes \in Nat /\ Len(a) \in Nat
  BY <1>2, TextFacts, Limits
<1>7. Len(a) <= (Len(t) + 1) + (MaxVarintBytes + MaxVarintBytes)
  BY <1>5, <1>6
<1> QED
  BY <1>2, <1>3, <1>4, <1>5, <1>6, <1>7

(* Small numbers are words.                                                *)
LEMMA SmallWords == 0 \in Words /\ 1 \in Words /\ 2 \in Words
<1>1. Fits(MaxDetail) /\ MaxDetail \in Nat /\ MaxVarintBytes \in Nat
  BY Rooms, Limits
<1>2. 0 \in Words /\ \A m \in Nat : m <= 3 + (MaxVarintBytes + (MaxVarintBytes + MaxVarintBytes)) => m \in Words
  BY <1>1, Within
<1> QED
  BY <1>1, <1>2

(* The records that a result may have are of its type, ...                 *)
LEMMA RecordsTyped ==
  ASSUME NEW fields, Fields(fields), NEW x \in Records(fields)
  PROVE  IsItem(fields, x)
<1> DEFINE zeros == [i \in DOMAIN fields |-> ZeroValue(fields[i].type)]
<1>1. ASSUME NEW i \in DOMAIN fields, OnTheWire(fields[i])
      PROVE  IsOf(fields[i].type, ZeroValue(fields[i].type))
  <2>1. fields[i].type \in Types
    BY <1>1 DEF OnTheWire, Types
  <2> QED
    BY <2>1, ZeroIs
<1>2. CASE x = zeros
  BY <1>1, <1>2 DEF IsItem
<1>3. ASSUME NEW j \in DOMAIN fields, NEW v \in Samples[fields[j].type], x = [zeros EXCEPT ![j] = v]
      PROVE  IsItem(fields, x)
  <2> SUFFICES ASSUME NEW i \in DOMAIN fields, OnTheWire(fields[i]) PROVE IsOf(fields[i].type, x[i])
    BY DEF IsItem
  <2>1. CASE i # j
    BY <1>1, <1>3, <2>1
  <2>2. CASE i = j
    <3>1. x[i] = v
      BY <1>3, <2>2
    <3>2. fields[j].type \in {"string", "int", "bool"}
      BY <2>2 DEF OnTheWire
    <3> QED
      BY <1>3, <2>2, <3>1, <3>2, ResultAssumption
  <2> QED
    BY <2>1, <2>2
<1>4. x = zeros \/ \E j \in DOMAIN fields : \E v \in Samples[fields[j].type] : x = [zeros EXCEPT ![j] = v]
  BY DEF Records
<1> QED
  BY <1>2, <1>3, <1>4

(* ... and so are the results.                                             *)
LEMMA ResultsTyped ==
  ASSUME NEW c \in Capability, NEW v \in Results(c)
  PROVE  IsResultOf(c, v)
<1>1. InfoOK(Info(c))
  BY InfosOK
<1>2. CASE Info(c).returns = "object"
  BY <1>1, <1>2, RecordsTyped DEF Results, IsResultOf, InfoOK
<1>3. CASE Info(c).returns = "list<object>"
  <2>1. 0 \in Words /\ 1 \in Words /\ 2 \in Words
    BY SmallWords
  <2>2. CASE v = <<>>
    <3>1. Len(v) = 0 /\ DOMAIN v = {} /\ DOMAIN v = 1..0
      BY <2>2
    <3> QED
      BY <1>3, <2>1, <3>1 DEF IsResultOf, IsItems, Fields
  <2>3. ASSUME NEW r \in Records(Info(c).result), v = <<r>> \/ v = <<r, r>>
        PROVE  IsResultOf(c, v)
    <3>1. IsItem(Info(c).result, r)
      BY <1>1, RecordsTyped DEF InfoOK
    <3>2. /\ Len(v) \in {1, 2} /\ DOMAIN v = 1..Len(v) /\ \A i \in DOMAIN v : v[i] = r
      <4>1. CASE v = <<r>>
        BY <4>1
      <4>2. CASE v = <<r, r>>
        BY <4>2
      <4> QED
        BY <2>3, <4>1, <4>2
    <3>3. IsItems(Info(c).result, v)
      BY <2>1, <3>1, <3>2 DEF IsItems, Fields
    <3> QED
      BY <1>3, <3>3 DEF IsResultOf
  <2> QED
    BY <1>3, <2>2, <2>3 DEF Results
<1>4. CASE Info(c).returns \notin {"object", "list<object>"}
  <2>1. v \in Samples[Info(c).returns]
    BY <1>4 DEF Results
  <2>2. Info(c).returns \in {"string", "bool", "bytes", "list<list<string>>"}
    BY <1>1, <1>4 DEF InfoOK, Returns
  <2>3. IsOf(Info(c).returns, v)
    BY <2>1, <2>2, ResultAssumption
  <2> QED
    BY <1>4, <2>3 DEF IsResultOf
<1> QED
  BY <1>2, <1>3, <1>4

(* An allowed write is the only thing that touches the file, and keeps     *)
(* what it is to append to.                                                *)
FileChange(c, v, resp, f) ==
  /\ Info(c) = Filesystem_File_Write
  /\ resp.code # Code("capability_denied")
  /\ v[3] => IsPrefix(<< 1 >>, f)
  /\ resp.ok => IsSuffix(v[2], f)

OutcomeOK(c, v, o) ==
  /\ Whole(o.resp)
  /\ o.resp.ok => IsResultOf(c, o.value) /\ o.resp.data = EncodeResult(c, o.value)
  /\ ~o.resp.ok => o.resp.code \in CodesOfKeeper
  /\ o.file # << 1 >> => FileChange(c, v, o.resp, o.file)

(* A failure keeps the file, ...                                           *)
LEMMA FailOK ==
  ASSUME NEW c, NEW v, file = << 1 >>,
         NEW name \in {"capability_denied", "fs_error", "unavailable", "chrome_error"},
         NEW d \in Seq(Bytes), Len(d) <= MaxDetail + 1 \/ Len(d) <= MaxPayloadBytes + 1,
         NEW o, o = Outcome(Refusal(name, d), None, file)
  PROVE  OutcomeOK(c, v, o)
<1>1. o.resp = Refusal(name, d) /\ o.file = << 1 >>
  BY DEF Outcome
<1>2. Whole(Refusal(name, d)) /\ ~Refusal(name, d).ok /\ Refusal(name, d).code = Code(name)
  BY RefusalWhole
<1>3. Code(name) \in CodesOfKeeper
  BY DEF CodesOfKeeper
<1> QED
  BY <1>1, <1>2, <1>3 DEF OutcomeOK

(* ... so does a denial, ...                                               *)
LEMMA DeniedOK ==
  ASSUME NEW c, NEW v, file = << 1 >>, NEW d \in Seq(Bytes),
         Len(d) <= MaxDetail + 1 \/ Len(d) <= MaxPayloadBytes + 1,
         NEW o \in Denied(d)
  PROVE  OutcomeOK(c, v, o)
<1>1. o = Outcome(Refusal("capability_denied", d), None, file)
  BY DEF Denied, DeniedResponse
<1> QED
  BY <1>1, FailOK

(* ... and so does each of several failures.                               *)
LEMMA FailsOK ==
  ASSUME NEW c, NEW v, file = << 1 >>,
         NEW name \in {"fs_error", "unavailable", "chrome_error"}, NEW details,
         \A d \in details : d \in Seq(Bytes) /\ (Len(d) <= MaxDetail + 1 \/ Len(d) <= MaxPayloadBytes + 1),
         NEW o \in Fails(name, details)
  PROVE  OutcomeOK(c, v, o)
<1>1. PICK d \in details : o = Outcome(Refusal(name, d), None, file)
  BY DEF Fails
<1> QED
  BY <1>1, FailOK

WriteArgsOK(v) ==
  /\ v[1] \in Seq(Bytes) /\ Len(v[1]) <= MaxPayloadBytes
  /\ v[2] \in Seq(Bytes) /\ Len(v[2]) <= MaxPayloadBytes /\ v[3] \in BOOLEAN

(* A write that fails half way keeps what it was to append to.             *)
LEMMA PartlyOK ==
  ASSUME NEW c \in Capability, Info(c) = Filesystem_File_Write, NEW v, WriteArgsOK(v), file = << 1 >>,
         NEW k \in 0..(Len(v[2]) - 1), NEW f, f = Truncated(v, file) \o SubSeq(v[2], 1, k),
         NEW o, o = Outcome(Refusal("fs_error", Mentions(v[1])), None, f)
  PROVE  OutcomeOK(c, v, o)
<1>1. o.resp = Refusal("fs_error", Mentions(v[1])) /\ o.file = f
  BY DEF Outcome
<1>2. PICK d \in Seq(Bytes) : d = Mentions(v[1]) /\ Len(d) <= MaxPayloadBytes + 1
  BY MentionsIs DEF WriteArgsOK
<1>3. /\ Whole(Refusal("fs_error", d)) /\ ~Refusal("fs_error", d).ok
      /\ Refusal("fs_error", d).code = Code("fs_error")
  BY <1>2, RefusalWhole
<1>4. Code("fs_error") \in CodesOfKeeper
  BY DEF CodesOfKeeper
<1>5. ASSUME v[3] PROVE IsPrefix(<< 1 >>, f)
  <2>1. PICK s \in Seq(Bytes) : s = SubSeq(v[2], 1, k)
    BY CutTyped DEF WriteArgsOK
  <2>2. PICK a \in Seq(Bytes) : a = << 1 >>
    BY ShortIs
  <2>3. f = a \o s
    BY <1>5, <2>1, <2>2 DEF Truncated
  <2>4. IsPrefix(a, a \o s)
    BY PrefixOf
  <2> QED
    BY <2>2, <2>3, <2>4, Zenon
<1>6. FileChange(c, v, o.resp, o.file)
  BY <1>1, <1>2, <1>3, <1>5, CodesApart DEF FileChange
<1> QED
  BY <1>1, <1>2, <1>3, <1>4, <1>6 DEF OutcomeOK

(* A write that succeeds has the content at the end of the file.           *)
LEMMA WrittenOK ==
  ASSUME NEW c \in Capability, Info(c) = Filesystem_File_Write, NEW v, WriteArgsOK(v), file = << 1 >>,
         NEW result, result = <<Mentions(v[1]), Len(v[2])>>,
         NEW data, data = MarshalResult(Filesystem_File_Write.result, result),
         NEW o, o = Outcome(OK(data), result, Written(v, file))
  PROVE  OutcomeOK(c, v, o)
<1>1. o.resp = OK(data) /\ o.value = result /\ o.file = Written(v, file)
  BY DEF Outcome
<1>2. /\ IsResultOf(c, result) /\ data = EncodeResult(c, result) /\ data \in Seq(Bytes)
      /\ Len(data) <= (MaxPayloadBytes + 1) + (MaxVarintBytes + MaxVarintBytes)
  BY WriteResult DEF WriteArgsOK
<1>3. Whole(OK(data)) /\ OK(data).ok /\ OK(data).data = data /\ OK(data).code = <<>>
  BY <1>2, SuccessWhole, Rooms, Limits
<1>4. PICK a \in Seq(Bytes) : a = << 1 >>
  BY ShortIs
<1>5. PICK b \in Seq(Bytes) : b = v[2]
  BY DEF WriteArgsOK
<1>6. CASE v[3]
  <2>1. o.file = a \o b
    BY <1>1, <1>4, <1>5, <1>6 DEF Written
  <2>2. IsPrefix(a, a \o b) /\ IsSuffix(b, a \o b)
    BY PrefixOf, SuffixOf
  <2>3. IsPrefix(<< 1 >>, o.file) /\ IsSuffix(v[2], o.file)
    BY <1>4, <1>5, <2>1, <2>2, Zenon
  <2> QED
    BY <1>1, <1>2, <1>3, <2>3, CodesApart DEF FileChange, OutcomeOK
<1>7. CASE ~v[3]
  <2>1. o.file = b
    BY <1>1, <1>5, <1>7 DEF Written
  <2>2. IsSuffix(b, b)
    BY SuffixOf
  <2>3. IsSuffix(v[2], o.file)
    BY <1>5, <2>1, <2>2, Zenon
  <2> QED
    BY <1>1, <1>2, <1>3, <1>7, <2>3, CodesApart DEF FileChange, OutcomeOK
<1> QED
  BY <1>6, <1>7

(* Every outcome of a write is in order, ...                               *)
LEMMA WriteOK ==
  ASSUME NEW c \in Capability, Info(c) = Filesystem_File_Write, NEW v, WriteArgsOK(v), file = << 1 >>,
         NEW scope, NEW o \in WriteOutcomes(v, scope)
  PROVE  OutcomeOK(c, v, o)
<1>1. PICK d \in Seq(Bytes) : d = Mentions(v[1]) /\ Len(d) <= MaxPayloadBytes + 1
  BY MentionsIs DEF WriteArgsOK
<1>2. PICK result : result = <<Mentions(v[1]), Len(v[2])>>
  OBVIOUS
<1>3. PICK data : data = MarshalResult(Filesystem_File_Write.result, result)
  OBVIOUS
<1>4. \/ o \in Denied(Short) \/ o \in Denied(d) \/ o \in Fails("fs_error", {d})
      \/ \E k \in 0..(Len(v[2]) - 1) :
           o = Outcome(Refusal("fs_error", Mentions(v[1])), None, Truncated(v, file) \o SubSeq(v[2], 1, k))
      \/ o = Outcome(OK(data), result, Written(v, file))
  BY <1>1, <1>2, <1>3 DEF WriteOutcomes
<1>5. CASE o \in Denied(Short)
  BY <1>5, ShortIs, DeniedOK
<1>6. CASE o \in Denied(d)
  BY <1>1, <1>6, DeniedOK
<1>7. CASE o \in Fails("fs_error", {d})
  BY <1>1, <1>7, FailsOK
<1>8. ASSUME NEW k \in 0..(Len(v[2]) - 1),
             o = Outcome(Refusal("fs_error", Mentions(v[1])), None, Truncated(v, file) \o SubSeq(v[2], 1, k))
      PROVE  OutcomeOK(c, v, o)
  BY <1>8, PartlyOK
<1>9. CASE o = Outcome(OK(data), result, Written(v, file))
  BY <1>2, <1>3, <1>9, WrittenOK
<1> QED
  BY <1>4, <1>5, <1>6, <1>7, <1>8, <1>9

(* A detail of a length.                                                   *)
LEMMA OnesIs ==
  ASSUME NEW n \in Nat
  PROVE  Ones(n) \in Seq(Bytes) /\ Len(Ones(n)) = n
<1>1. 1 \in Bytes
  BY WordFacts DEF Bytes
<1> QED
  BY <1>1 DEF Ones

(* ... every outcome of the reading of a page is, ...                      *)
LEMMA PageOK ==
  ASSUME NEW c \in Capability, Info(c) = Browser_Page_Read, NEW v, v[1] \in Seq(Bytes),
         Len(v[1]) <= MaxPayloadBytes, file = << 1 >>, NEW scope, NEW o \in ReadOutcomes(v, scope)
  PROVE  OutcomeOK(c, v, o)
<1>1. PICK d \in Seq(Bytes) : d = Mentions(v[1]) /\ Len(d) <= MaxPayloadBytes + 1
  BY MentionsIs
<1>2. \/ o \in Denied(Short) \/ o \in Denied(d) \/ o \in Fails("unavailable", {Short})
      \/ o \in Fails("chrome_error", {Ones(MaxDetail), Ones(MaxDetail + 1)})
      \/ \E t \in PageTexts : o = Outcome(OK(AppendString(<<>>, t)), t, file)
  BY <1>1 DEF ReadOutcomes
<1>3. CASE o \in Denied(Short)
  BY <1>3, ShortIs, DeniedOK
<1>4. CASE o \in Denied(d)
  BY <1>1, <1>4, DeniedOK
<1>5. CASE o \in Fails("unavailable", {Short})
  BY <1>5, ShortIs, FailsOK
<1>6. CASE o \in Fails("chrome_error", {Ones(MaxDetail), Ones(MaxDetail + 1)})
  <2>1. \A x \in {Ones(MaxDetail), Ones(MaxDetail + 1)} : x \in Seq(Bytes) /\ Len(x) <= MaxDetail + 1
    BY OnesIs, Limits
  <2> QED
    BY <1>6, <2>1, FailsOK
<1>7. ASSUME NEW t \in PageTexts, o = Outcome(OK(AppendString(<<>>, t)), t, file)
      PROVE  OutcomeOK(c, v, o)
  <2>1. PICK data : data = AppendString(<<>>, t)
    OBVIOUS
  <2>2. /\ IsResultOf(c, t) /\ data = EncodeResult(c, t) /\ data \in Seq(Bytes)
        /\ Fits(Len(t)) /\ Len(t) \in Nat
        /\ Len(data) <= (Len(t) + 1) + (MaxVarintBytes + MaxVarintBytes)
    BY <2>1, PageResult
  <2>3. Whole(OK(data)) /\ OK(data).ok /\ OK(data).data = data
    BY <2>2, SuccessWhole
  <2>4. o.resp = OK(data) /\ o.value = t /\ o.file = << 1 >>
    BY <1>7, <2>1 DEF Outcome
  <2> QED
    BY <2>2, <2>3, <2>4 DEF OutcomeOK
<1> QED
  BY <1>2, <1>3, <1>4, <1>5, <1>6, <1>7

(* ... and those of the other capabilities are.                            *)
LEMMA OtherOK ==
  ASSUME NEW c \in Registered, NEW v, file = << 1 >>, NEW o \in OtherOutcomes(c)
  PROVE  OutcomeOK(c, v, o)
<1>1. c \in Capability
  BY ResultAssumption
<1>2. PICK x \in Results(c) : o = Outcome(OK(EncodeResult(c, x)), x, file)
  BY DEF OtherOutcomes
<1>3. IsResultOf(c, x)
  BY <1>1, ResultsTyped
<1>4. PICK data \in Seq(Bytes) : data = EncodeResult(c, x)
  BY <1>1, <1>3, ResultRoundTrip DEF ResultOK
<1>5. Fits(Len(data))
  BY <1>4, ResultAssumption
<1>6. Len(data) \in Nat /\ Len(data) <= (Len(data) + 1) + (MaxVarintBytes + MaxVarintBytes)
  BY Limits
<1>7. Whole(OK(data)) /\ OK(data).ok /\ OK(data).data = data
  BY <1>5, <1>6, SuccessWhole
<1>8. o.resp = OK(data) /\ o.value = x /\ o.file = << 1 >>
  BY <1>2, <1>4 DEF Outcome
<1> QED
  BY <1>3, <1>4, <1>7, <1>8 DEF OutcomeOK

(* Whatever a capability answers is in order.                              *)
LEMMA OutcomesOK ==
  ASSUME NEW c \in Registered, NEW r \in Seq(Bytes), file = << 1 >>,
         NEW scope, NEW o \in Outcomes(c, r, scope)
  PROVE  OutcomeOK(c, UnmarshalArgs(c, r).val, o)
<1>1. c \in Capability
  BY ResultAssumption
<1>2. PICK read : read = UnmarshalArgs(c, r)
  OBVIOUS
<1>3. \/ Info(c) = Filesystem_File_Write /\ o \in IF read.ok THEN WriteOutcomes(read.val, scope) ELSE Denied(Short)
      \/ Info(c) = Browser_Page_Read /\ o \in IF read.ok THEN ReadOutcomes(read.val, scope) ELSE Denied(Short)
      \/ o \in OtherOutcomes(c)
  BY <1>2 DEF Outcomes
<1>4. CASE o \in Denied(Short)
  BY <1>4, ShortIs, DeniedOK
<1>5. CASE Info(c) = Filesystem_File_Write /\ read.ok /\ o \in WriteOutcomes(read.val, scope)
  BY <1>1, <1>2, <1>5, WriteArgs, WriteOK DEF WriteArgsOK
<1>6. CASE Info(c) = Browser_Page_Read /\ read.ok /\ o \in ReadOutcomes(read.val, scope)
  BY <1>1, <1>2, <1>6, PageArgs, PageOK
<1>7. CASE o \in OtherOutcomes(c)
  BY <1>7, OtherOK
<1> QED
  BY <1>2, <1>3, <1>4, <1>5, <1>6, <1>7

-----------------------------------------------------------------------------
(* The inductive invariant.                                                *)

Asked ==
  /\ call \in Calls
  /\ tool = "starting" => ward = "idle"
  /\ ward # "idle" => RequestOf(call, request)

(* Nothing has come of the request yet.                                    *)
Fresh ==
  ward \in {"idle", "reading"} =>
    frame = <<>> /\ reply = <<>> /\ verdict = None /\ executed = None /\ answer = <<>>

(* The Ward let the request pass.                                          *)
Passed == Received.ok /\ Received.val.mode # Schema /\ ValidToolArgs(Received.val)

Forwarded ==
  frame # <<>> =>
    /\ ward \notin {"idle", "reading"} /\ Passed
    /\ frame = Frame(MsgType_CapabilityRequest, Agent, Keeper, MarshalCapabilityRequest(Received.val))
    /\ reply = <<>> /\ verdict = None

Replied ==
  reply # <<>> =>
    /\ verdict # None
    /\ reply = Frame(MsgType_CapabilityResponse, Keeper, Agent, MarshalResponse(verdict))

(* A capability ran for the request and with its arguments; a success      *)
(* carries the result.                                                     *)
Ran(e, resp) ==
  /\ Passed
  /\ e.capability \in Registered /\ Text(e.capability) = Received.val.capability
  /\ e.args = UnmarshalArgs(e.capability, Received.val.args).val
  /\ resp.ok => IsResultOf(e.capability, e.result) /\ resp.data = EncodeResult(e.capability, e.result)

Decided ==
  /\ verdict # None =>
       /\ frame = <<>> /\ ward \notin {"idle", "reading"} /\ Whole(verdict)
       /\ verdict.ok => executed # None
       /\ ~verdict.ok => verdict.code \in CodesOfKeeper
  /\ executed # None => verdict # None /\ Ran(executed, verdict)

(* Where an answer comes from: keeperd's response as it was; the Ward, for *)
(* one whose detail it could not read; the Ward, before keeperd saw the    *)
(* call; the Ward, tired of waiting; or the description of a capability.   *)
FromKeeper(resp) ==
  verdict # None /\ resp = verdict /\ Len(MarshalResponse(verdict)) <= MaxPayloadBytes
Unreadable(resp) ==
  /\ ~resp.ok /\ resp.code = Code("decode_error")
  /\ verdict # None /\ Len(verdict.detail) > MaxDetail
FromWard(resp) ==
  ~resp.ok /\ resp.code \in CodesOfWard /\ verdict = None /\ frame = <<>>
Impatient(resp) == ~resp.ok /\ resp.code = Code("timeout")
Described(resp) == resp.ok /\ Received.ok /\ Received.val.mode = Schema

AnswerIs(resp) ==
  /\ Whole(resp) /\ Len(resp.detail) <= MaxDetail
  /\ FromKeeper(resp) \/ Unreadable(resp) \/ FromWard(resp) \/ Impatient(resp) \/ Described(resp)

Answered ==
  answer # <<>> =>
    /\ ward = "closed"
    /\ \E resp : answer = MarshalResponse(resp) /\ AnswerIs(resp)

(* What is shown is what the answer says, and stays so.                    *)
ShownOf(resp) ==
  /\ ~resp.ok => shown = resp
  /\ resp.ok => Printable(resp).ok /\ shown = [ok |-> TRUE, value |-> Printable(resp).val]

Shown ==
  shown # None =>
    /\ ward = "closed" /\ ~late /\ tool \in {"ok", "failed"} /\ answer # <<>>
    /\ ShownOf(UnmarshalResponse(answer).val)

AbortedFor(kind) ==
  /\ kind = "malformed_tool_call" => (Received.ok => Received.val.capability = <<>>)
  /\ kind = "schema_invalid" =>
       Received.ok /\ Received.val.mode # Schema /\ ~ValidToolArgs(Received.val)
Aborted == (ward = "idle" => aborted = "") /\ AbortedFor(aborted)

FileIs ==
  file # << 1 >> => executed # None /\ FileChange(executed.capability, executed.args, verdict, file)

IInv ==
  Asked /\ Fresh /\ Forwarded /\ Replied /\ Decided /\ Answered /\ Shown /\ Aborted /\ FileIs

-----------------------------------------------------------------------------
(* What there is, is not None.                                             *)
LEMMA Nothing == /\ \A e : e = [capability |-> e.capability, args |-> e.args, result |-> e.result] => e # None
                 /\ \A p : Whole(p) => p # None
                 /\ \A p, o : p = [ok |-> TRUE, value |-> o] => p # None
<1>1. ASSUME NEW c, NEW a, NEW r PROVE [capability |-> c, args |-> a, result |-> r] # None
  BY DEF None
<1>2. ASSUME NEW o, NEW d, NEW c, NEW x PROVE [ok |-> o, data |-> d, code |-> c, detail |-> x] # None
  BY DEF None
<1>3. ASSUME NEW o PROVE [ok |-> TRUE, value |-> o] # None
  BY DEF None
<1> QED
  BY <1>1, <1>2, <1>3 DEF Whole

(* A whole response is read again, unless its detail is too long.          *)
LEMMA WholeReads ==
  ASSUME NEW p, Whole(p)
  PROVE  /\ MarshalResponse(p) \in Seq(Bytes) /\ MarshalResponse(p) # <<>>
         /\ Len(p.data) < Len(MarshalResponse(p)) /\ Len(p.detail) \in Nat
         /\ IsText(MarshalResponse(p))
         /\ Len(p.detail) > MaxDetail => ~UnmarshalResponse(MarshalResponse(p)).ok
         /\ Len(p.detail) <= MaxDetail =>
              UnmarshalResponse(MarshalResponse(p)).ok /\ UnmarshalResponse(MarshalResponse(p)).val = p
<1>1. IsResponse(p) /\ p = [ok |-> p.ok, data |-> p.data, code |-> p.code, detail |-> p.detail]
      /\ Len(MarshalResponse(p)) \in Words
  BY DEF Whole
<1>2. Len(p.detail) \in Nat
  BY <1>1 DEF IsResponse, IsText
<1> QED
  BY <1>1, <1>2, Limits, ResponseRoundTrip DEF IsText

(* There is no response in no bytes.                                       *)
LEMMA NoAnswer == ~UnmarshalResponse(<<>>).ok
<1>1. ~Take(<<>>, 1).ok
  BY ReadFacts DEF Take
<1>2. ~ReadBool(<<>>).ok
  BY <1>1 DEF ReadBool, Then
<1> QED
  BY <1>2 DEF UnmarshalResponse, Then

(* The ends of a frame, and its types.                                     *)
LEMMA EndsAre ==
  /\ Agent \in Seq(Bytes) /\ IsText(Agent) /\ Len(Agent) <= MaxIDLen
  /\ Keeper \in Seq(Bytes) /\ IsText(Keeper) /\ Len(Keeper) <= MaxIDLen
  /\ MsgType_CapabilityRequest \in Bytes /\ MsgType_CapabilityResponse \in Bytes
<1>1. 1 \in Bytes /\ 2 \in Bytes
  BY WordFacts DEF Bytes
<1>2. Agent \in Seq(Bytes) /\ Len(Agent) = 1 /\ Keeper \in Seq(Bytes) /\ Len(Keeper) = 1
  BY <1>1 DEF Agent, Keeper
<1>3. 1 \in Words
  BY SmallWords
<1>4. 1 <= MaxIDLen
  BY LimitAssumption, Limits
<1> QED
  BY <1>1, <1>2, <1>3, <1>4 DEF IsText, MsgType_CapabilityRequest, MsgType_CapabilityResponse

(* A whole response makes a frame.                                         *)
LEMMA ResponseFrame ==
  ASSUME NEW p, Whole(p)
  PROVE  IsFrame(MsgType_CapabilityResponse, Keeper, Agent, MarshalResponse(p))
BY WholeReads, EndsAre, LimitAssumption DEF IsFrame

(* What the Ward has received makes a frame that is not too long.          *)
LEMMA RequestFrame ==
  ASSUME request \in Seq(Bytes), Received.ok
  PROVE  /\ IsFrame(MsgType_CapabilityRequest, Agent, Keeper, MarshalCapabilityRequest(Received.val))
         /\ Len(MarshalCapabilityRequest(Received.val)) <= MaxPayloadBytes
         /\ MarshalCapabilityRequest(Received.val) \in Seq(Bytes)
<1>1. IsCapabilityRequest(Received.val) /\ Len(Received.val.capability) + Len(Received.val.args) <= MaxRequest
  BY ReceivedTyped
<1>2. PICK m \in Seq(Bytes) : /\ m = MarshalCapabilityRequest(Received.val)
                              /\ Len(m) <= (Len(Received.val.capability) + Len(Received.val.args))
                                             + (MaxVarintBytes + MaxVarintBytes)
  BY <1>1, CapabilityRequestRoundTrip
<1>3. Len(Received.val.capability) \in Nat /\ Len(Received.val.args) \in Nat /\ Len(m) \in Nat
  BY <1>1 DEF IsCapabilityRequest, IsText
<1>4. \A l, i, j, v, r, M \in Nat : l <= (i + j) + (v + v) /\ i + j <= r /\ r + 2 * v <= M => l <= M
  OBVIOUS
<1>5. Len(m) <= MaxPayloadBytes
  BY <1>1, <1>2, <1>3, <1>4, Limits
<1>6. Len(m) \in Words
  BY <1>3, <1>5, WordFacts, CodecAssumption
<1> QED
  BY <1>2, <1>5, <1>6, EndsAre, LimitAssumption DEF IsFrame, IsText

(* keeperd reads what the Ward forwarded.                                  *)
LEMMA RequestedIs ==
  ASSUME request \in Seq(Bytes), Received.ok,
         frame = Frame(MsgType_CapabilityRequest, Agent, Keeper, MarshalCapabilityRequest(Received.val))
  PROVE  /\ Requested.ok
         /\ Requested.val = [capability |-> Received.val.capability, args |-> Received.val.args]
<1>1. PICK m \in Seq(Bytes) : /\ m = MarshalCapabilityRequest(Received.val) /\ Len(m) <= MaxPayloadBytes
                              /\ IsFrame(MsgType_CapabilityRequest, Agent, Keeper, m)
  BY RequestFrame
<1>2. PICK e \in Seq(Bytes) : e = <<>> /\ \A x \in Seq(Bytes) : x \o e = x
  BY NoBytes
<1>3. PICK f \in Seq(Bytes) : f = Frame(MsgType_CapabilityRequest, Agent, Keeper, m)
  BY <1>1, FrameSize
<1>4. ReadFrame(f \o e) = Read([header |-> HeaderOf(MsgType_CapabilityRequest, Agent, Keeper, m), payload |-> m], e)
  BY <1>1, <1>3, FrameRoundTrip
<1>5. ReadFrame(frame) = Read([header |-> HeaderOf(MsgType_CapabilityRequest, Agent, Keeper, m), payload |-> m], e)
  BY <1>1, <1>2, <1>3, <1>4, Zenon
<1>6. ReadFrame(frame).val = [header |-> HeaderOf(MsgType_CapabilityRequest, Agent, Keeper, m), payload |-> m]
  BY <1>5, ReadIs
<1>7. Requested = UnmarshalCapabilityRequest(m)
  BY <1>6 DEF Requested
<1>8. IsCapabilityRequest(Received.val)
  BY ReceivedTyped
<1> QED
  BY <1>1, <1>7, <1>8, CapabilityRequestRoundTrip

(* The Ward reads what keeperd answered, if it is not too long.            *)
LEMMA ReplyIs ==
  ASSUME NEW p, Whole(p), NEW f, f = Frame(MsgType_CapabilityResponse, Keeper, Agent, MarshalResponse(p))
  PROVE  /\ f # <<>>
         /\ ReadFrame(f).ok => /\ Len(MarshalResponse(p)) <= MaxPayloadBytes
                               /\ ReadFrame(f).val.payload = MarshalResponse(p)
         /\ Len(MarshalResponse(p)) <= MaxPayloadBytes => ReadFrame(f).ok
<1>1. PICK m \in Seq(Bytes) : m = MarshalResponse(p) /\ IsFrame(MsgType_CapabilityResponse, Keeper, Agent, m)
  BY WholeReads, ResponseFrame
<1>2. PICK e \in Seq(Bytes) : e = <<>> /\ \A x \in Seq(Bytes) : x \o e = x
  BY NoBytes
<1>3. f \in Seq(Bytes) /\ f # <<>>
  BY <1>1, FrameSize
<1>4. ASSUME Len(m) <= MaxPayloadBytes
      PROVE  ReadFrame(f) = Read([header |-> HeaderOf(MsgType_CapabilityResponse, Keeper, Agent, m), payload |-> m], e)
  <2>1. ReadFrame(f \o e) = Read([header |-> HeaderOf(MsgType_CapabilityResponse, Keeper, Agent, m), payload |-> m], e)
    BY <1>1, <1>4, FrameRoundTrip
  <2> QED
    BY <1>2, <1>3, <2>1, Zenon
<1>5. ASSUME Len(m) <= MaxPayloadBytes PROVE ReadFrame(f).ok /\ ReadFrame(f).val.payload = m
  <2>1. ReadFrame(f).ok /\ ReadFrame(f).val = [header |-> HeaderOf(MsgType_CapabilityResponse, Keeper, Agent, m), payload |-> m]
    BY <1>4, <1>5, ReadIs
  <2> QED
    BY <2>1
<1>6. ASSUME Len(m) > MaxPayloadBytes PROVE ~ReadFrame(f).ok
  BY <1>1, <1>6, FrameTooLong
<1>7. Len(m) <= MaxPayloadBytes \/ Len(m) > MaxPayloadBytes
  BY Limits
<1> QED
  BY <1>1, <1>3, <1>5, <1>6, <1>7

-----------------------------------------------------------------------------
(* The invariant holds initially, and every step keeps it.                 *)

(* Nothing has happened yet.                                               *)
LEMMA InitIInv == Init => IInv
<1> SUFFICES ASSUME Init PROVE IInv
  OBVIOUS
<1>1. Asked /\ Fresh /\ Forwarded /\ Replied /\ Answered /\ Shown /\ FileIs
  BY DEF Init, Asked, Fresh, Forwarded, Replied, Answered, Shown, FileIs
<1>2. Decided
  BY DEF Init, Decided
<1>3. Aborted
  BY DEF Init, Aborted, AbortedFor
<1> QED
  BY <1>1, <1>2, <1>3 DEF IInv

(* What the Ward received is what the tool wrote, and stays so.            *)
LEMMA Kept ==
  ASSUME request' = request
  PROVE  Received' = Received /\ (Passed <=> Passed')
<1>1. Received' = Received
  BY DEF Received
<1> QED
  BY <1>1 DEF Passed

(* capwrap starts.                                                         *)
LEMMA ConnectKeeps ==
  ASSUME IInv, tool = "starting", NEW bytes, Connect(bytes), RequestOf(call, bytes)
  PROVE  IInv'
<1>1. /\ ward = "idle" /\ frame = <<>> /\ reply = <<>> /\ verdict = None /\ executed = None
      /\ answer = <<>> /\ aborted = "" /\ shown = None /\ file = << 1 >> /\ call \in Calls
  BY DEF IInv, Asked, Fresh, Shown, Aborted, FileIs
<1>2. /\ tool' = "waiting" /\ request' = bytes /\ ward' = "reading" /\ call' = call
      /\ frame' = <<>> /\ reply' = <<>> /\ verdict' = None /\ executed' = None
      /\ answer' = <<>> /\ aborted' = "" /\ shown' = None /\ file' = << 1 >>
  BY <1>1 DEF Connect
<1>3. Asked' /\ Fresh'
  BY <1>1, <1>2 DEF Asked, Fresh
<1>4. Forwarded' /\ Replied' /\ Decided' /\ Answered' /\ Shown' /\ FileIs'
  BY <1>2 DEF Forwarded, Replied, Decided, Answered, Shown, FileIs
<1>5. Aborted'
  BY <1>2 DEF Aborted, AbortedFor
<1> QED
  BY <1>3, <1>4, <1>5 DEF IInv

(* The tool gives up.                                                      *)
LEMMA GiveUpKeeps ==
  ASSUME IInv, GiveUp
  PROVE  IInv'
<1>1. /\ tool' = "failed" /\ ward = "idle"
      /\ UNCHANGED <<call, request, ward, aborted, frame, executed, verdict, reply, answer, shown, late, file>>
  BY DEF GiveUp, IInv, Asked
<1>2. Received' = Received /\ (Passed <=> Passed')
  BY <1>1, Kept
<1>3. Asked' /\ Fresh' /\ Forwarded' /\ Replied'
  BY <1>1, <1>2 DEF IInv, Asked, Fresh, Forwarded, Replied
<1>4. frame = <<>> /\ verdict = None /\ executed = None /\ answer = <<>> /\ shown = None
  BY <1>1 DEF IInv, Fresh, Shown
<1>5. Decided' /\ Answered' /\ Shown'
  BY <1>1, <1>4 DEF Decided, Answered, Shown
<1>6. Aborted' /\ FileIs'
  BY <1>1, <1>2 DEF IInv, Aborted, AbortedFor, FileIs
<1> QED
  BY <1>3, <1>5, <1>6 DEF IInv

(* The Ward finishes, with one answer or another.                          *)
LEMMA FinishKeeps ==
  ASSUME IInv, ward \in {"reading", "waiting"}, NEW resp, Finish(resp), AnswerIs(resp),
         frame' = frame, reply' \in {reply, <<>>}, AbortedFor(aborted')
  PROVE  IInv'
<1>1. /\ ward' = "closed" /\ answer' \in {<<>>, MarshalResponse(resp)}
      /\ UNCHANGED <<call, tool, request, executed, verdict, shown, late, file>>
  BY DEF Finish
<1>2. Received' = Received /\ (Passed <=> Passed')
  BY <1>1, Kept
<1>3. Asked'
  BY <1>1 DEF IInv, Asked
<1>4. Fresh'
  BY <1>1 DEF Fresh
<1>5. Forwarded'
  BY <1>1, <1>2 DEF IInv, Forwarded
<1>6. Replied'
  BY <1>1 DEF IInv, Replied
<1>7. Decided'
  BY <1>1, <1>2 DEF IInv, Decided, Ran
<1>8. Answered'
  <2>1. AnswerIs(resp)'
    BY <1>1, <1>2 DEF AnswerIs, FromKeeper, Unreadable, FromWard, Impatient, Described
  <2> QED
    BY <1>1, <2>1 DEF Answered
<1>9. Shown'
  <2>1. shown = None
    BY DEF IInv, Shown
  <2> QED
    BY <1>1, <2>1 DEF Shown
<1>10. Aborted'
  BY <1>1, <1>2 DEF Aborted, AbortedFor
<1>11. FileIs'
  BY <1>1 DEF IInv, FileIs
<1> QED
  BY <1>3, <1>4, <1>5, <1>6, <1>7, <1>8, <1>9, <1>10, <1>11 DEF IInv

(* The Ward forwards what it received.                                     *)
LEMMA ForwardKeeps ==
  ASSUME IInv, Forward
  PROVE  IInv'
<1>1. /\ ward = "reading" /\ Passed /\ ward' = "waiting"
      /\ frame' = Frame(MsgType_CapabilityRequest, Agent, Keeper, MarshalCapabilityRequest(Received.val))
      /\ UNCHANGED <<call, tool, request, aborted, executed, verdict, reply, answer, shown, late, file>>
  BY DEF Forward, ToExecute, Passed
<1>2. Received' = Received /\ (Passed <=> Passed')
  BY <1>1, Kept
<1>3. reply = <<>> /\ verdict = None /\ executed = None /\ answer = <<>> /\ shown = None
  BY <1>1 DEF IInv, Fresh, Shown
<1>4. Asked' /\ Fresh'
  BY <1>1 DEF IInv, Asked, Fresh
<1>5. Forwarded' /\ Replied' /\ Decided' /\ Answered' /\ Shown'
  BY <1>1, <1>2, <1>3 DEF Forwarded, Replied, Decided, Answered, Shown
<1>6. Aborted' /\ FileIs'
  BY <1>1, <1>2 DEF IInv, Aborted, AbortedFor, FileIs
<1> QED
  BY <1>4, <1>5, <1>6 DEF IInv

(* keeperd answers, whether it ran something or not.                       *)
LEMMA RespondKeeps ==
  ASSUME IInv, frame # <<>>, NEW resp, Respond(resp), Whole(resp),
         \/ ~resp.ok /\ executed' = executed /\ file' = file
         \/ /\ executed' # None /\ Ran(executed', resp)
            /\ file' # << 1 >> => FileChange(executed'.capability, executed'.args, resp, file'),
         ~resp.ok => resp.code \in CodesOfKeeper
  PROVE  IInv'
<1>1. /\ verdict' = resp /\ frame' = <<>>
      /\ reply' = Frame(MsgType_CapabilityResponse, Keeper, Agent, MarshalResponse(resp))
      /\ UNCHANGED <<call, tool, request, ward, aborted, answer, shown, late>>
  BY DEF Respond
<1>2. Received' = Received /\ (Passed <=> Passed')
  BY <1>1, Kept
<1>3. ward \notin {"idle", "reading"} /\ verdict = None /\ reply = <<>> /\ executed = None
  BY DEF IInv, Forwarded, Decided
<1>4. resp # None
  BY Nothing
<1>5. Asked' /\ Fresh' /\ Forwarded'
  BY <1>1, <1>3 DEF IInv, Asked, Fresh, Forwarded
<1>6. Replied'
  BY <1>1, <1>4 DEF Replied
<1>7. Decided'
  <2>1. executed' # None => Ran(executed', resp)
    BY <1>3
  <2>2. executed' # None => Ran(executed, verdict)'
    BY <1>1, <1>2, <2>1 DEF Ran
  <2>3. resp.ok => executed' # None
    BY <1>3
  <2> QED
    BY <1>1, <1>3, <1>4, <2>2, <2>3 DEF Decided
<1>8. Answered'
  <2> SUFFICES ASSUME answer' # <<>> PROVE ward' = "closed" /\ \E r : answer' = MarshalResponse(r) /\ AnswerIs(r)'
    BY DEF Answered
  <2>1. PICK r : ward = "closed" /\ answer = MarshalResponse(r) /\ AnswerIs(r)
    BY <1>1 DEF IInv, Answered
  <2>2. Whole(r) /\ Len(r.detail) <= MaxDetail /\ (Impatient(r) \/ Described(r))
    BY <1>3, <2>1 DEF AnswerIs, FromKeeper, Unreadable, FromWard
  <2>3. AnswerIs(r)'
    BY <1>2, <2>2 DEF AnswerIs, Impatient, Described
  <2> QED
    BY <1>1, <2>1, <2>3
<1>9. Shown'
  BY <1>1 DEF IInv, Shown, ShownOf, Printable
<1>10. Aborted'
  BY <1>1, <1>2 DEF IInv, Aborted, AbortedFor
<1>11. FileIs'
  <2>1. file = << 1 >>
    BY <1>3 DEF IInv, FileIs
  <2> QED
    BY <1>1, <2>1 DEF FileIs
<1> QED
  BY <1>5, <1>6, <1>7, <1>8, <1>9, <1>10, <1>11 DEF IInv

(* The Ward is ended by a frame that is too long.                          *)
LEMMA TooLongKeeps ==
  ASSUME IInv, ReplyTooLong
  PROVE  IInv'
<1>1. /\ ward = "waiting" /\ ward' = "closed" /\ reply' = <<>>
      /\ UNCHANGED <<call, tool, request, aborted, frame, executed, verdict, answer, shown, late, file>>
  BY DEF ReplyTooLong
<1>2. Received' = Received /\ (Passed <=> Passed')
  BY <1>1, Kept
<1>3. answer = <<>> /\ shown = None
  BY <1>1 DEF IInv, Answered, Shown
<1>4. Asked' /\ Fresh' /\ Forwarded' /\ Replied'
  BY <1>1, <1>2 DEF IInv, Asked, Fresh, Forwarded, Replied
<1>5. Decided'
  BY <1>1, <1>2 DEF IInv, Decided, Ran
<1>6. Answered' /\ Shown'
  BY <1>1, <1>3 DEF Answered, Shown
<1>7. Aborted' /\ FileIs'
  BY <1>1, <1>2 DEF IInv, Aborted, AbortedFor, FileIs
<1> QED
  BY <1>4, <1>5, <1>6, <1>7 DEF IInv

(* The Ward is ended by a length that is too long.                         *)
LEMMA WardPanicsKeeps ==
  ASSUME IInv, WardPanics
  PROVE  IInv'
<1>1. /\ ward = "reading" /\ ward' = "closed"
      /\ UNCHANGED <<call, tool, request, aborted, frame, executed, verdict, reply, answer, shown, late, file>>
  BY DEF WardPanics, Panicking, ToExecute
<1>2. Received' = Received /\ (Passed <=> Passed')
  BY <1>1, Kept
<1>3. answer = <<>> /\ shown = None /\ frame = <<>> /\ reply = <<>> /\ verdict = None /\ executed = None
  BY <1>1 DEF IInv, Fresh, Shown
<1>4. Asked' /\ Fresh' /\ Forwarded' /\ Replied'
  BY <1>1, <1>3 DEF IInv, Asked, Fresh, Forwarded, Replied
<1>5. Decided' /\ Answered' /\ Shown'
  BY <1>1, <1>3 DEF Decided, Answered, Shown
<1>6. Aborted' /\ FileIs'
  BY <1>1, <1>2, <1>3 DEF IInv, Aborted, AbortedFor, FileIs
<1> QED
  BY <1>4, <1>5, <1>6 DEF IInv

(* What the tool reads is what was answered.                               *)
LEMMA AnswerRead ==
  ASSUME NEW r, AnswerIs(r), answer = MarshalResponse(r)
  PROVE  UnmarshalResponse(answer).ok /\ UnmarshalResponse(answer).val = r
BY WholeReads DEF AnswerIs

(* Steps of the tool leave the rest as it was.                             *)
LEMMA Unmoved ==
  ASSUME IInv, UNCHANGED <<call, request, ward, aborted, frame, executed, verdict, reply, answer, file>>,
         tool' = tool \/ tool' # "starting"
  PROVE  Asked' /\ Fresh' /\ Forwarded' /\ Replied' /\ Decided' /\ Answered' /\ Aborted' /\ FileIs'
<1>1. Received' = Received /\ (Passed <=> Passed')
  BY Kept
<1>2. Asked'
  BY DEF IInv, Asked
<1>3. Fresh' /\ Forwarded' /\ Replied'
  BY <1>1 DEF IInv, Fresh, Forwarded, Replied
<1>4. Decided'
  BY <1>1 DEF IInv, Decided, Ran
<1>5. Answered'
  <2>1. \A r : AnswerIs(r)' <=> AnswerIs(r)
    BY <1>1 DEF AnswerIs, FromKeeper, Unreadable, FromWard, Impatient, Described
  <2> QED
    BY <2>1 DEF IInv, Answered
<1>6. Aborted' /\ FileIs'
  BY <1>1 DEF IInv, Aborted, AbortedFor, FileIs
<1> QED
  BY <1>2, <1>3, <1>4, <1>5, <1>6

(* The tool reads the answer.                                              *)
LEMMA ReadAnswerKeeps ==
  ASSUME IInv, ReadAnswer
  PROVE  IInv'
<1>1. /\ tool' \in {"ok", "failed"} /\ ward = "closed" /\ ~late
      /\ UNCHANGED <<call, request, ward, aborted, frame, executed, verdict, reply, answer, late, file>>
  BY DEF ReadAnswer
<1>2. Asked' /\ Fresh' /\ Forwarded' /\ Replied' /\ Decided' /\ Answered' /\ Aborted' /\ FileIs'
  BY <1>1, Unmoved
<1>3. Shown'
  <2>1. PICK resp : resp = UnmarshalResponse(answer)
    OBVIOUS
  <2>2. shown' = IF ~resp.ok THEN None
                 ELSE IF ~resp.val.ok THEN resp.val
                 ELSE IF Printable(resp.val).ok THEN [ok |-> TRUE, value |-> Printable(resp.val).val] ELSE None
    BY <2>1 DEF ReadAnswer
  <2>3. \A p : Printable(p)' = Printable(p)
    BY <1>1 DEF Printable
  <2>4. shown' # None => answer # <<>> /\ ShownOf(resp.val)'
    <3>1. shown' # None => resp.ok
      BY <2>2
    <3>2. answer = <<>> => ~resp.ok
      BY <2>1, NoAnswer
    <3>3. shown' # None => ShownOf(resp.val)'
      BY <2>2, <2>3 DEF ShownOf
    <3> QED
      BY <3>1, <3>2, <3>3
  <2> QED
    BY <1>1, <2>1, <2>4 DEF Shown
<1> QED
  BY <1>2, <1>3 DEF IInv

(* The time is up.                                                         *)
LEMMA DeadlineKeeps ==
  ASSUME IInv, Deadline
  PROVE  IInv'
<1>1. /\ tool = "waiting" /\ tool' = "failed" /\ shown' = shown
      /\ UNCHANGED <<call, request, ward, aborted, frame, executed, verdict, reply, answer, file>>
  BY DEF Deadline
<1>2. Asked' /\ Fresh' /\ Forwarded' /\ Replied' /\ Decided' /\ Answered' /\ Aborted' /\ FileIs'
  BY <1>1, Unmoved
<1>3. shown = None
  BY <1>1 DEF IInv, Shown
<1>4. Shown'
  BY <1>1, <1>3 DEF Shown
<1> QED
  BY <1>2, <1>4 DEF IInv

(* Nothing happens.                                                        *)
LEMMA StutterKeeps ==
  ASSUME IInv, UNCHANGED vars
  PROVE  IInv'
<1>1. UNCHANGED <<call, tool, request, ward, aborted, frame, executed, verdict, reply, answer, shown, late, file>>
  BY DEF vars
<1>2. Asked' /\ Fresh' /\ Forwarded' /\ Replied' /\ Decided' /\ Answered' /\ Aborted' /\ FileIs'
  BY <1>1, Unmoved
<1>3. Shown'
  BY <1>1 DEF IInv, Shown, ShownOf, Printable
<1> QED
  BY <1>2, <1>3 DEF IInv

-----------------------------------------------------------------------------
(* The answers the Ward finishes with.                                     *)

(* A refusal in a few words can always be read.                            *)
LEMMA ShortRefusal ==
  ASSUME NEW name \in {"capability_denied", "fs_error", "unavailable", "chrome_error", "bad_request",
                  "not_found", "loop_detected", "schema_invalid", "pipe_error", "timeout", "decode_error"}
  PROVE  /\ Whole(Refusal(name, Short)) /\ ~Refusal(name, Short).ok
         /\ Refusal(name, Short).code = Code(name) /\ Len(Refusal(name, Short).detail) <= MaxDetail
<1>1. Short \in Seq(Bytes) /\ Len(Short) = 1 /\ Len(Short) <= MaxDetail + 1
  BY ShortIs
<1>2. 1 <= MaxDetail
  BY LimitAssumption
<1> QED
  BY <1>1, <1>2, RefusalWhole

(* What the Ward says of itself, before keeperd saw the call.              *)
LEMMA WardRefuses ==
  ASSUME IInv, ward = "reading",
         NEW name \in {"bad_request", "not_found", "loop_detected", "schema_invalid", "pipe_error"}
  PROVE  AnswerIs(Refusal(name, Short))
<1>1. verdict = None /\ frame = <<>>
  BY DEF IInv, Fresh
<1>2. Code(name) \in CodesOfWard
  BY DEF CodesOfWard
<1>3. /\ Whole(Refusal(name, Short)) /\ ~Refusal(name, Short).ok
      /\ Refusal(name, Short).code = Code(name) /\ Len(Refusal(name, Short).detail) <= MaxDetail
  BY ShortRefusal
<1>4. FromWard(Refusal(name, Short))
  BY <1>1, <1>2, <1>3 DEF FromWard
<1> QED
  BY <1>3, <1>4 DEF AnswerIs

(* What the tool wrote.                                                    *)
LEMMA RequestIs ==
  ASSUME IInv, ward # "idle"
  PROVE  call \in Calls /\ RequestOf(call, request) /\ request \in Seq(Bytes)
<1>1. call \in Calls /\ RequestOf(call, request)
  BY DEF IInv, Asked
<1> QED
  BY <1>1, RequestTyped

(* The description of a capability can always be read.                     *)
LEMMA SchemaDescribes ==
  ASSUME request \in Seq(Bytes), Received.ok, Received.val.mode = Schema
  PROVE  AnswerIs(OK(AppendString(<<>>, Received.val.capability)))
<1>1. PICK s \in Seq(Bytes) : s = Received.val.capability /\ IsText(s) /\ Len(s) <= MaxPayloadBytes
  <2>1. IsText(Received.val.capability) /\ IsText(Received.val.args)
        /\ Len(Received.val.capability) + Len(Received.val.args) <= MaxRequest
    BY ReceivedTyped DEF IsCapabilityRequest
  <2>2. Len(Received.val.capability) \in Nat /\ Len(Received.val.args) \in Nat
    BY <2>1 DEF IsText
  <2>3. \A i, j, m, n \in Nat : i + j <= m /\ m <= n => i <= n
    OBVIOUS
  <2>4. Len(Received.val.capability) <= MaxPayloadBytes
    BY <2>1, <2>2, <2>3, Limits
  <2> QED
    BY <2>1, <2>4 DEF IsText
<1>2. PICK d \in Seq(Bytes) : d = AppendString(<<>>, s) /\ Len(d) <= MaxVarintBytes + Len(s)
  BY <1>1, StrIs, TextFacts
<1>3. Len(d) <= (MaxPayloadBytes + 1) + (MaxVarintBytes + MaxVarintBytes)
  <2>1. \A i, j, v, m \in Nat : i <= v + j /\ j <= m => i <= (m + 1) + (v + v)
    OBVIOUS
  <2> QED
    BY <1>1, <1>2, <2>1, Limits
<1>4. Whole(OK(d)) /\ OK(d).ok /\ OK(d).detail = <<>>
  BY <1>2, <1>3, Limits, Rooms, SuccessWhole
<1>5. Len(OK(d).detail) <= MaxDetail
  <2>1. Len(<<>>) = 0
    OBVIOUS
  <2> QED
    BY <1>4, <2>1, Limits
<1>6. Described(OK(d))
  BY <1>4 DEF Described
<1> QED
  BY <1>1, <1>2, <1>4, <1>5, <1>6 DEF AnswerIs

-----------------------------------------------------------------------------
(* capwrap starts.                                                         *)

(* capwrap calls.                                                          *)
LEMMA InvokedKeeps ==
  ASSUME IInv, Invoked
  PROVE  IInv'
<1>1. /\ tool = "starting" /\ call.by = "capwrap" /\ Buildable(call.cap, call.argv)
      /\ Connect(Invocation(call.cap, call.argv))
  BY DEF Invoked
<1>2. RequestOf(call, Invocation(call.cap, call.argv))
  BY <1>1 DEF RequestOf
<1> QED
  BY <1>1, <1>2, ConnectKeeps

(* capwrap asks for a description.                                         *)
LEMMA AskForSchemaKeeps ==
  ASSUME IInv, AskForSchema
  PROVE  IInv'
<1>1. tool = "starting" /\ call.by = "help" /\ Connect(MarshalToolRequest(AskingSchema(call.cap)))
  BY DEF AskForSchema, AskingSchema
<1>2. RequestOf(call, MarshalToolRequest(AskingSchema(call.cap)))
  BY <1>1 DEF RequestOf
<1> QED
  BY <1>1, <1>2, ConnectKeeps

(* Another program calls.                                                  *)
LEMMA OtherClientKeeps ==
  ASSUME IInv, OtherClient
  PROVE  IInv'
<1>1. tool = "starting" /\ call.by = "other" /\ Connect(call.bytes)
  BY DEF OtherClient
<1>2. RequestOf(call, call.bytes)
  BY <1>1 DEF RequestOf
<1> QED
  BY <1>1, <1>2, ConnectKeeps

-----------------------------------------------------------------------------
(* The Ward's handler.                                                     *)

(* Only what cannot be read, or has no name, is malformed.                 *)
LEMMA RejectMalformedKeeps ==
  ASSUME IInv, RejectMalformed
  PROVE  IInv'
<1>1. /\ ward = "reading" /\ (Received.ok => Received.val.capability = <<>>)
      /\ aborted' = "malformed_tool_call" /\ Finish(Refusal("bad_request", Short))
      /\ frame' = frame /\ reply' = reply
  BY DEF RejectMalformed, AbortPrompt
<1>2. AbortedFor(aborted')
  BY <1>1 DEF AbortedFor
<1>3. AnswerIs(Refusal("bad_request", Short))
  BY <1>1, WardRefuses
<1> QED
  BY <1>1, <1>2, <1>3, FinishKeeps

(* A description, or none.                                                 *)
LEMMA AnswerSchemaKeeps ==
  ASSUME IInv, AnswerSchema
  PROVE  IInv'
<1>1. PICK resp : /\ Finish(resp)
                  /\ resp = IF Named(Received.val.capability) = {} THEN Refusal("not_found", Short)
                            ELSE OK(AppendString(<<>>, Received.val.capability))
  BY DEF AnswerSchema
<1>2. /\ ward = "reading" /\ Received.ok /\ Received.val.mode = Schema
      /\ aborted' = aborted /\ frame' = frame /\ reply' = reply
  BY DEF AnswerSchema
<1>3. AbortedFor(aborted')
  BY <1>2 DEF IInv, Aborted
<1>4. AnswerIs(Refusal("not_found", Short))
  BY <1>2, WardRefuses
<1>5. AnswerIs(OK(AppendString(<<>>, Received.val.capability)))
  BY <1>2, RequestIs, SchemaDescribes
<1>6. AnswerIs(resp)
  BY <1>1, <1>4, <1>5
<1> QED
  BY <1>1, <1>2, <1>3, <1>6, FinishKeeps

(* The same call once too often.                                           *)
LEMMA DetectLoopKeeps ==
  ASSUME IInv, DetectLoop
  PROVE  IInv'
<1>1. /\ ward = "reading" /\ aborted' = "loop_detected" /\ Finish(Refusal("loop_detected", Short))
      /\ frame' = frame /\ reply' = reply
  BY DEF DetectLoop, ToExecute, AbortPrompt
<1>2. AbortedFor(aborted')
  BY <1>1 DEF AbortedFor
<1>3. AnswerIs(Refusal("loop_detected", Short))
  BY <1>1, WardRefuses
<1> QED
  BY <1>1, <1>2, <1>3, FinishKeeps

(* Only what does not fit the schema is rejected for it.                   *)
LEMMA RejectArgumentsKeeps ==
  ASSUME IInv, RejectArguments
  PROVE  IInv'
<1>1. /\ ward = "reading" /\ Received.ok /\ Received.val.mode # Schema /\ ~ValidToolArgs(Received.val)
      /\ aborted' = "schema_invalid" /\ Finish(Refusal("schema_invalid", Short))
      /\ frame' = frame /\ reply' = reply
  BY DEF RejectArguments, ToExecute, AbortPrompt
<1>2. AbortedFor(aborted')
  BY <1>1 DEF AbortedFor
<1>3. AnswerIs(Refusal("schema_invalid", Short))
  BY <1>1, WardRefuses
<1> QED
  BY <1>1, <1>2, <1>3, FinishKeeps

(* The Ward cannot write to keeperd.                                       *)
LEMMA ForwardFailsKeeps ==
  ASSUME IInv, ForwardFails
  PROVE  IInv'
<1>1. /\ ward = "reading" /\ aborted' = aborted /\ Finish(Refusal("pipe_error", Short))
      /\ frame' = frame /\ reply' = reply
  BY DEF ForwardFails, ToExecute
<1>2. AbortedFor(aborted')
  BY <1>1 DEF IInv, Aborted
<1>3. AnswerIs(Refusal("pipe_error", Short))
  BY <1>1, WardRefuses
<1> QED
  BY <1>1, <1>2, <1>3, FinishKeeps

(* The Ward waits no longer.                                               *)
LEMMA GiveUpWaitingKeeps ==
  ASSUME IInv, GiveUpWaiting
  PROVE  IInv'
<1>1. /\ ward = "waiting" /\ aborted' = aborted /\ Finish(Refusal("timeout", Short))
      /\ frame' = frame /\ reply' = reply
  BY DEF GiveUpWaiting
<1>2. AbortedFor(aborted')
  BY <1>1 DEF IInv, Aborted
<1>3. AnswerIs(Refusal("timeout", Short))
  BY ShortRefusal DEF AnswerIs, Impatient
<1> QED
  BY <1>1, <1>2, <1>3, FinishKeeps

-----------------------------------------------------------------------------
(* keeperd, and what comes back from it.                                   *)

(* There is no frame in no bytes.                                          *)
LEMMA NoFrame == ~ReadFrame(<<>>).ok
<1>1. ~Take(<<>>, 2).ok
  BY ReadFacts DEF Take
<1>2. ~UnmarshalHeader(<<>>).ok
  BY <1>1 DEF UnmarshalHeader, Then
<1> QED
  BY <1>2 DEF ReadFrame, Then

(* keeperd denies the call.                                                *)
LEMMA DenyKeeps ==
  ASSUME IInv, Deny
  PROVE  IInv'
<1>1. PICK resp : resp = DeniedResponse(Short) /\ Respond(resp)
  BY DEF Deny
<1>2. frame # <<>> /\ executed' = executed /\ file' = file
  BY DEF Deny
<1>3. Whole(resp) /\ ~resp.ok /\ resp.code = Code("capability_denied")
  BY <1>1, ShortRefusal DEF DeniedResponse
<1>4. resp.code \in CodesOfKeeper
  BY <1>3 DEF CodesOfKeeper
<1> QED
  BY <1>1, <1>2, <1>3, <1>4, RespondKeeps

(* keeperd executes the call that was received, with its arguments.        *)
LEMMA ExecuteKeeps ==
  ASSUME IInv, Execute
  PROVE  IInv'
<1>1. PICK c, o : /\ c \in Executable(Requested.val.capability)
                  /\ \E scope : o \in Outcomes(c, Requested.val.args, scope)
                  /\ executed' = [capability |-> c, args |-> UnmarshalArgs(c, Requested.val.args).val,
                                  result |-> o.value]
                  /\ file' = o.file /\ Respond(o.resp)
  BY DEF Execute
<1>2. frame # <<>>
  BY DEF Execute
<1>3. /\ ward # "idle" /\ Passed /\ verdict = None
      /\ frame = Frame(MsgType_CapabilityRequest, Agent, Keeper, MarshalCapabilityRequest(Received.val))
  BY <1>2 DEF IInv, Forwarded
<1>4. request \in Seq(Bytes) /\ Received.ok
  BY <1>3, RequestIs DEF Passed
<1>5. Requested.val.capability = Received.val.capability /\ Requested.val.args = Received.val.args
  BY <1>3, <1>4, RequestedIs
<1>6. PICK args \in Seq(Bytes) : args = Received.val.args
  BY <1>4, ReceivedTyped DEF IsCapabilityRequest, IsText
<1>7. c \in Registered /\ Text(c) = Received.val.capability
  BY <1>1, <1>5 DEF Executable
<1>8. file = << 1 >>
  BY <1>3 DEF IInv, Decided, FileIs
<1>9. OutcomeOK(c, UnmarshalArgs(c, args).val, o)
  BY <1>1, <1>5, <1>6, <1>7, <1>8, OutcomesOK
<1>10. PICK v : v = UnmarshalArgs(c, args).val
  OBVIOUS
<1>11. executed' = [capability |-> c, args |-> v, result |-> o.value]
  BY <1>1, <1>5, <1>6, <1>10
<1>12. PICK e : e = executed' /\ e.capability = c /\ e.args = v /\ e.result = o.value /\ e # None
  BY <1>11, Nothing
<1>13. Ran(e, o.resp)
  BY <1>3, <1>6, <1>7, <1>9, <1>10, <1>12 DEF Ran, OutcomeOK
<1>14. Whole(o.resp) /\ (~o.resp.ok => o.resp.code \in CodesOfKeeper)
       /\ (file' # << 1 >> => FileChange(e.capability, e.args, o.resp, file'))
  BY <1>1, <1>9, <1>10, <1>12 DEF OutcomeOK
<1> QED
  BY <1>1, <1>2, <1>12, <1>13, <1>14, RespondKeeps

(* The answer is keeperd's, or that its detail could not be read.          *)
LEMMA TakeReplyKeeps ==
  ASSUME IInv, TakeReply
  PROVE  IInv'
<1>1. PICK resp, read : /\ read = UnmarshalResponse(ReadFrame(reply).val.payload)
                        /\ resp = IF read.ok THEN read.val ELSE Refusal("decode_error", Short)
                        /\ Finish(resp)
  BY DEF TakeReply
<1>2. ward = "waiting" /\ ReadFrame(reply).ok /\ reply' = <<>> /\ aborted' = aborted /\ frame' = frame
  BY DEF TakeReply
<1>3. reply # <<>>
  BY <1>2, NoFrame
<1>4. verdict # None /\ Whole(verdict)
      /\ reply = Frame(MsgType_CapabilityResponse, Keeper, Agent, MarshalResponse(verdict))
  BY <1>3 DEF IInv, Replied, Decided
<1>5. /\ Len(MarshalResponse(verdict)) <= MaxPayloadBytes
      /\ read = UnmarshalResponse(MarshalResponse(verdict))
  BY <1>1, <1>2, <1>4, ReplyIs
<1>6. Len(verdict.detail) \in Nat /\ MaxDetail \in Nat
  BY <1>4, WholeReads, Limits
<1>7. ASSUME Len(verdict.detail) <= MaxDetail PROVE AnswerIs(resp)
  <2>1. resp = verdict
    BY <1>1, <1>4, <1>5, <1>7, WholeReads
  <2> QED
    BY <1>4, <1>5, <1>7, <2>1 DEF AnswerIs, FromKeeper
<1>8. ASSUME Len(verdict.detail) > MaxDetail PROVE AnswerIs(resp)
  <2>1. resp = Refusal("decode_error", Short)
    BY <1>1, <1>4, <1>5, <1>8, WholeReads
  <2> QED
    BY <1>4, <1>8, <2>1, ShortRefusal DEF AnswerIs, Unreadable
<1>9. AnswerIs(resp)
  BY <1>6, <1>7, <1>8
<1>10. AbortedFor(aborted')
  BY <1>2 DEF IInv, Aborted
<1> QED
  BY <1>1, <1>2, <1>9, <1>10, FinishKeeps

-----------------------------------------------------------------------------
(* Every step keeps the invariant.                                         *)
LEMMA Preserved == IInv /\ [Next]_vars => IInv'
<1> SUFFICES ASSUME IInv, [Next]_vars PROVE IInv'
  OBVIOUS
<1>1. CASE Start
  BY <1>1, InvokedKeeps, AskForSchemaKeeps, OtherClientKeeps, GiveUpKeeps DEF Start
<1>2. CASE RejectMalformed \/ AnswerSchema \/ DetectLoop \/ RejectArguments \/ WardPanics
  BY <1>2, RejectMalformedKeeps, AnswerSchemaKeeps, DetectLoopKeeps, RejectArgumentsKeeps,
     WardPanicsKeeps
<1>3. CASE Forward \/ ForwardFails
  BY <1>3, ForwardKeeps, ForwardFailsKeeps
<1>4. CASE Deny \/ Execute
  BY <1>4, DenyKeeps, ExecuteKeeps
<1>5. CASE TakeReply \/ ReplyTooLong \/ GiveUpWaiting
  BY <1>5, TakeReplyKeeps, TooLongKeeps, GiveUpWaitingKeeps
<1>6. CASE ReadAnswer \/ Deadline
  BY <1>6, ReadAnswerKeeps, DeadlineKeeps
<1>7. CASE UNCHANGED vars
  BY <1>7, StutterKeeps
<1> QED
  BY <1>1, <1>2, <1>3, <1>4, <1>5, <1>6, <1>7 DEF Next

(* The inductive invariant holds, for every instance within the            *)
(* assumptions.                                                            *)
THEOREM Invariance == Spec => []IInv
<1>1. Init => IInv
  BY InitIInv
<1>2. IInv /\ [Next]_vars => IInv'
  BY Preserved
<1> QED
  BY <1>1, <1>2, PTL DEF Spec

-----------------------------------------------------------------------------
(* What follows from the invariant.                                        *)

(* The file, from the capability that ran and what it answered.            *)
LEMMA FileOK == IInv => FileKept
BY DEF IInv, FileIs, FileChange, FileKept

(* The arguments, from what the Ward received.                             *)
LEMMA TypedOK == IInv => ExecutedAsTyped
<1> SUFFICES ASSUME IInv, executed # None, call.by = "capwrap"
             PROVE  executed.capability = call.cap /\ executed.args = TypedArgs(call.cap, call.argv)
  BY DEF ExecutedAsTyped
<1>1. verdict # None /\ ward # "idle" /\ Ran(executed, verdict)
  BY DEF IInv, Decided
<1>2. call \in Calls /\ RequestOf(call, request)
  BY <1>1, RequestIs
<1>3. Received.ok
  BY <1>1 DEF Ran, Passed
<1>4. /\ call.cap \in Capability /\ Received.val.capability = Text(call.cap)
      /\ UnmarshalArgs(call.cap, Received.val.args) = Read(TypedArgs(call.cap, call.argv), <<>>)
  BY <1>2, <1>3, CapwrapReceived
<1>5. /\ executed.capability \in Capability /\ Text(executed.capability) = Received.val.capability
      /\ executed.args = UnmarshalArgs(executed.capability, Received.val.args).val
  BY <1>1, ResultAssumption DEF Ran
<1>6. executed.capability = call.cap
  <2>0. \A c \in Capability : c \in Nat
    <3>1. \A c \in 1..54 : c \in Nat
      OBVIOUS
    <3> QED
      BY <3>1, NameFacts
  <2>1. executed.capability \in Nat /\ call.cap \in Nat
    BY <1>4, <1>5, <2>0
  <2>2. Text(executed.capability) = Text(call.cap)
    BY <1>4, <1>5
  <2> QED
    BY <2>1, <2>2, TextInjective
<1> QED
  BY <1>4, <1>5, <1>6, ReadFacts

(* What a prompt is aborted for, from what the Ward received.              *)
LEMMA InvalidOK == IInv => OnlyTooLongIsInvalid
<1> SUFFICES ASSUME IInv, call.by # "other",
                    aborted \in {"malformed_tool_call", "schema_invalid"} \/ Panicking,
                    ~(Len(request) > MaxRequest)
             PROVE  FALSE
  BY DEF OnlyTooLongIsInvalid
<1>1. ward # "idle" /\ AbortedFor(aborted)
  <2>1. Panicking => ward = "reading"
    BY DEF Panicking, ToExecute
  <2> QED
    BY <2>1 DEF IInv, Aborted
<1>2. call \in Calls /\ RequestOf(call, request) /\ request \in Seq(Bytes)
  BY <1>1, RequestIs
<1>3. Len(request) <= MaxRequest
  BY <1>2, Limits
<1>4. \/ Received.ok => Received.val.capability = <<>>
      \/ Received.ok /\ Received.val.mode # Schema /\ ~ValidToolArgs(Received.val)
      \/ /\ Received.ok /\ Received.val.mode # Schema
         /\ \E c \in Named(Received.val.capability) : ~UnmarshalArgs(c, Received.val.args).ok
  BY <1>1 DEF AbortedFor, Panicking, ToExecute, Panics
<1>5. CASE call.by = "help"
  BY <1>2, <1>3, <1>4, <1>5, HelpReceived
<1>6. CASE call.by = "capwrap"
  <2>1. Buildable(call.cap, call.argv) /\ request = Invocation(call.cap, call.argv)
    BY <1>2, <1>6 DEF RequestOf
  <2>2. PICK p : IsToolRequest(p) /\ request = MarshalToolRequest(p)
    BY <1>2, <1>6, <2>1, CapwrapAsks
  <2>3. Received.ok
    BY <1>3, <2>2, ReceivedOf
  <2>4. /\ call.cap \in Capability /\ Received.val.capability = Text(call.cap)
        /\ UnmarshalArgs(call.cap, Received.val.args) = Read(TypedArgs(call.cap, call.argv), <<>>)
    BY <1>2, <1>6, <2>3, CapwrapReceived
  <2>5. Text(call.cap) # <<>> /\ Named(Text(call.cap)) = {call.cap}
    BY <2>4, NameFacts, TextIs, NamedIs
  <2>6. /\ UnmarshalArgs(call.cap, Received.val.args).ok
        /\ UnmarshalArgs(call.cap, Received.val.args).rest = <<>>
    BY <2>4, ReadFacts
  <2>7. ValidToolArgs(Received.val)
    BY <2>4, <2>5, <2>6 DEF ValidToolArgs
  <2> QED
    BY <1>4, <2>3, <2>4, <2>5, <2>6, <2>7
<1>7. call.by \in {"help", "capwrap"}
  BY <1>2, CallAssumption DEF IsCall
<1> QED
  BY <1>5, <1>6, <1>7

(* What is shown is one of the answers of AnswerIs.                        *)
LEMMA ShownIs ==
  ASSUME IInv, shown # None
  PROVE  \E r : AnswerIs(r) /\ ShownOf(r) /\ ward = "closed" /\ ~late
<1>1. ward = "closed" /\ ~late /\ answer # <<>> /\ ShownOf(UnmarshalResponse(answer).val)
  BY DEF IInv, Shown
<1>2. PICK r : answer = MarshalResponse(r) /\ AnswerIs(r)
  BY <1>1 DEF IInv, Answered
<1>3. UnmarshalResponse(answer).val = r
  BY <1>2, AnswerRead
<1> QED
  BY <1>1, <1>2, <1>3

(* A result, from where the answer came from.                              *)
LEMMA ResultOfAnswer == IInv => ResultShown
<1> SUFFICES ASSUME IInv, shown # None, shown.ok, call.by = "capwrap"
             PROVE  /\ executed # None
                    /\ LET v == Carried(call.cap, executed.result) IN
                       shown.value = IF Info(call.cap).returns = "string" THEN v ELSE ResultToJSON(call.cap, v)
  BY DEF ResultShown
<1>1. PICK r : AnswerIs(r) /\ ShownOf(r) /\ ward = "closed"
  BY ShownIs
<1>2. r.ok /\ Printable(r).ok /\ shown.value = Printable(r).val
  BY <1>1 DEF ShownOf
<1>3. call \in Calls /\ RequestOf(call, request)
  BY <1>1, RequestIs
<1>4. ~Described(r)
  <2>1. Received.ok => Received.val.mode = Invoke
    BY <1>3, CapwrapReceived
  <2> QED
    BY <2>1 DEF Described, Invoke, Schema
<1>5. verdict # None /\ r = verdict /\ Len(MarshalResponse(verdict)) <= MaxPayloadBytes
  BY <1>1, <1>2, <1>4 DEF AnswerIs, FromKeeper, Unreadable, FromWard, Impatient
<1>6. executed # None /\ Ran(executed, verdict) /\ Whole(verdict)
  BY <1>2, <1>5 DEF IInv, Decided
<1>7. executed.capability = call.cap
  BY <1>6, TypedOK DEF ExecutedAsTyped
<1>8. PICK c, v : /\ c \in Capability /\ c = call.cap /\ v = executed.result
                  /\ IsResultOf(c, v) /\ verdict.data = EncodeResult(c, v)
  BY <1>2, <1>5, <1>6, <1>7, ResultAssumption DEF Ran
<1>9. Len(EncodeResult(c, v)) <= MaxPayloadBytes
  <2>1. Len(verdict.data) < Len(MarshalResponse(verdict)) /\ MarshalResponse(verdict) \in Seq(Bytes)
    BY <1>6, WholeReads
  <2>2. EncodeResult(c, v) \in Seq(Bytes)
    BY <1>8, ResultRoundTrip DEF ResultOK
  <2>3. Len(verdict.data) \in Nat /\ Len(MarshalResponse(verdict)) \in Nat
    BY <1>8, <2>1, <2>2
  <2>4. \A i, j, m \in Nat : i < j /\ j <= m => i <= m
    OBVIOUS
  <2> QED
    BY <1>5, <1>8, <2>1, <2>3, <2>4, Limits
<1>10. PICK d : /\ d = DecodeResult(c, EncodeResult(c, v))
                /\ d.ok /\ d.val = Carried(c, v)
  BY <1>8, <1>9, ResultRoundTrip DEF ResultOK
<1>11. CASE Info(c).returns = "string"
  <2>1. d = ReadString(EncodeResult(c, v), MaxPayloadBytes)
    BY <1>10, <1>11 DEF DecodeResult
  <2>2. Printable(r) = d
    BY <1>5, <1>8, <1>11, <2>1 DEF Printable
  <2> QED
    BY <1>2, <1>6, <1>8, <1>10, <1>11, <2>2
<1>12. CASE Info(c).returns # "string"
  <2>1. Printable(r) = DecodeResultToJSON(c, EncodeResult(c, v))
    BY <1>5, <1>8, <1>12 DEF Printable
  <2>2. DecodeResultToJSON(c, EncodeResult(c, v)) = Read(ResultToJSON(c, d.val), d.rest)
    BY <1>10 DEF DecodeResultToJSON, Then
  <2>3. Printable(r).val = ResultToJSON(c, Carried(c, v))
    BY <1>10, <2>1, <2>2, ReadFacts
  <2> QED
    BY <1>2, <1>6, <1>8, <1>12, <2>3
<1> QED
  BY <1>11, <1>12

(* A failure, from where the answer came from.                             *)
LEMMA FailureOfAnswer == IInv => FailureShown
<1> SUFFICES ASSUME IInv, shown # None, ~shown.ok
             PROVE  CASE shown.code = Code("decode_error") -> verdict # None /\ Len(verdict.detail) > MaxDetail
                      [] shown.code \in CodesOfWard -> executed = None
                      [] shown.code = Code("timeout") -> ward = "closed" /\ ~late
                      [] OTHER -> shown = verdict
  BY DEF FailureShown, CodesOfWard
<1>1. PICK r : AnswerIs(r) /\ ShownOf(r) /\ ward = "closed" /\ ~late
  BY ShownIs
<1>2. shown = r /\ ~r.ok
  BY <1>1 DEF ShownOf
<1>3. FromKeeper(r) => verdict # None /\ shown = verdict /\ shown.code \in CodesOfKeeper
  BY <1>2 DEF IInv, Decided, FromKeeper
<1>4. Unreadable(r) => shown.code = Code("decode_error") /\ verdict # None /\ Len(verdict.detail) > MaxDetail
  BY <1>2 DEF Unreadable
<1>5. FromWard(r) => shown.code \in CodesOfWard /\ executed = None
  BY <1>2 DEF IInv, Decided, FromWard
<1>6. Impatient(r) => shown.code = Code("timeout")
  BY <1>2 DEF Impatient
<1>7. FromKeeper(r) \/ Unreadable(r) \/ FromWard(r) \/ Impatient(r)
  BY <1>1, <1>2 DEF AnswerIs, Described
<1>8. /\ CodesOfKeeper \cap CodesOfWard = {}
      /\ Code("timeout") \notin CodesOfKeeper \cup CodesOfWard
      /\ Code("decode_error") \notin CodesOfKeeper \cup CodesOfWard
      /\ Code("timeout") # Code("decode_error")
  BY CodesApart
<1>9. CASE FromKeeper(r)
  BY <1>3, <1>8, <1>9
<1>10. CASE Unreadable(r)
  BY <1>4, <1>8, <1>10
<1>11. CASE FromWard(r)
  BY <1>5, <1>8, <1>11
<1>12. CASE Impatient(r)
  BY <1>1, <1>6, <1>8, <1>12
<1> QED
  BY <1>7, <1>9, <1>10, <1>11, <1>12
(* Any frame on either pipe.                                               *)
LEMMA FrameDelimited ==
  ASSUME NEW type, NEW from, NEW to, NEW payload, IsFrame(type, from, to, payload),
         NEW f, f = Frame(type, from, to, payload)
  PROVE  /\ \A k \in 0..(Len(f) - 1) : ~ReadFrame(SubSeq(f, 1, k)).ok
         /\ Len(payload) <= MaxPayloadBytes =>
              /\ ReadFrame(f).ok /\ ReadFrame(f \o << 1 >>).rest = << 1 >>
              /\ LET header == ReadFrame(f).val.header IN
                 header.seq = SeqNo /\ HeaderSize(header) + header.payloadLen = Len(f)
         /\ Len(payload) \in Nat
         /\ Len(payload) > MaxPayloadBytes => ~ReadFrame(f).ok
<1>1. f \in Seq(Bytes) /\ Len(f) = HeaderSize(HeaderOf(type, from, to, payload)) + Len(payload)
  BY FrameSize
<1>2. ASSUME NEW k \in 0..(Len(f) - 1) PROVE ~ReadFrame(SubSeq(f, 1, k)).ok
  <2>1. CutOf(SubSeq(f, 1, k), f)
    BY DEF CutOf
  <2> QED
    BY <2>1, FrameCut
<1>3. Len(payload) \in Nat
  BY DEF IsFrame, IsText
<1>4. ASSUME Len(payload) <= MaxPayloadBytes
      PROVE  /\ ReadFrame(f).ok /\ ReadFrame(f \o << 1 >>).rest = << 1 >>
             /\ ReadFrame(f).val.header = HeaderOf(type, from, to, payload)
  <2>1. PICK e \in Seq(Bytes) : e = <<>> /\ \A x \in Seq(Bytes) : x \o e = x
    BY NoBytes
  <2>2. PICK one \in Seq(Bytes) : one = << 1 >>
    BY EndsAre DEF Agent
  <2>3. \A rest \in Seq(Bytes) : ReadFrame(f \o rest) =
          Read([header |-> HeaderOf(type, from, to, payload), payload |-> payload], rest)
    BY <1>4, FrameRoundTrip
  <2>4. ReadFrame(f \o one).rest = one
    BY <2>3, ReadFacts
  <2>5. f \o e = f
    BY <1>1, <2>1
  <2>6. ReadFrame(f) = Read([header |-> HeaderOf(type, from, to, payload), payload |-> payload], e)
    BY <2>3, <2>5, Zenon
  <2>7. ReadFrame(f).ok /\ ReadFrame(f).val = [header |-> HeaderOf(type, from, to, payload), payload |-> payload]
    BY <2>6, ReadFacts
  <2>8. ReadFrame(f).val.header = HeaderOf(type, from, to, payload)
    BY <2>7
  <2> QED
    BY <2>2, <2>4, <2>7, <2>8
<1>5. /\ HeaderOf(type, from, to, payload).seq = SeqNo
      /\ HeaderOf(type, from, to, payload).payloadLen = Len(payload)
  BY DEF HeaderOf
<1>6. Len(payload) > MaxPayloadBytes => ~ReadFrame(f).ok
  BY FrameTooLong
<1> QED
  BY <1>1, <1>2, <1>3, <1>4, <1>5, <1>6

(* The frames, from who wrote them.                                        *)
LEMMA FramesOK == IInv => FramesDelimited
<1> SUFFICES ASSUME IInv, NEW bytes \in {frame, reply} \ {<<>>}
             PROVE  /\ \A k \in 0..(Len(bytes) - 1) : ~ReadFrame(SubSeq(bytes, 1, k)).ok
                    /\ ReadFrame(bytes).ok =>
                         /\ ReadFrame(bytes \o << 1 >>).rest = << 1 >>
                         /\ LET header == ReadFrame(bytes).val.header IN
                            header.seq = SeqNo /\ HeaderSize(header) + header.payloadLen = Len(bytes)
                    /\ ~ReadFrame(bytes).ok =>
                         bytes = reply /\ Len(MarshalResponse(verdict)) > MaxPayloadBytes
  BY DEF FramesDelimited
<1>1. CASE bytes = frame
  <2>1. /\ ward # "idle" /\ Received.ok
        /\ frame = Frame(MsgType_CapabilityRequest, Agent, Keeper, MarshalCapabilityRequest(Received.val))
    BY <1>1 DEF IInv, Forwarded, Passed
  <2>2. request \in Seq(Bytes)
    BY <2>1, RequestIs
  <2>3. PICK m : /\ m = MarshalCapabilityRequest(Received.val) /\ Len(m) <= MaxPayloadBytes
                 /\ IsFrame(MsgType_CapabilityRequest, Agent, Keeper, m)
    BY <2>1, <2>2, RequestFrame
  <2>4. bytes = Frame(MsgType_CapabilityRequest, Agent, Keeper, m)
    BY <1>1, <2>1, <2>3
  <2> QED
    BY <2>3, <2>4, FrameDelimited
<1>2. CASE bytes = reply
  <2>1. /\ Whole(verdict)
        /\ reply = Frame(MsgType_CapabilityResponse, Keeper, Agent, MarshalResponse(verdict))
    BY <1>2 DEF IInv, Replied, Decided
  <2>2. PICK m : m = MarshalResponse(verdict) /\ IsFrame(MsgType_CapabilityResponse, Keeper, Agent, m)
    BY <2>1, ResponseFrame
  <2>3. bytes = Frame(MsgType_CapabilityResponse, Keeper, Agent, m)
    BY <1>2, <2>1, <2>2
  <2>4. Len(m) \in Nat /\ (Len(m) <= MaxPayloadBytes \/ Len(m) > MaxPayloadBytes)
    BY <2>2, <2>3, FrameDelimited, Limits
  <2> QED
    BY <1>2, <2>2, <2>3, <2>4, FrameDelimited
<1> QED
  BY <1>1, <1>2

-----------------------------------------------------------------------------
(* The theorems.                                                           *)

(* A file is touched by an allowed write only, whatever the arguments, the *)
(* grant and the outcome; and appending keeps what was there.              *)
THEOREM FileIsKept == Spec => []FileKept
<1>1. IInv => FileKept
  BY FileOK
<1> QED
  BY <1>1, Invariance, PTL

(* What was typed arrives, through two codecs and two validations.         *)
THEOREM ArgumentsArrive == Spec => []ExecutedAsTyped
<1>1. IInv => ExecutedAsTyped
  BY TypedOK
<1> QED
  BY <1>1, Invariance, PTL

(* The Ward and capwrap agree on which calls are valid.                    *)
THEOREM CapwrapIsValid == Spec => []OnlyTooLongIsInvalid
<1>1. IInv => OnlyTooLongIsInvalid
  BY InvalidOK
<1> QED
  BY <1>1, Invariance, PTL

(* What the tool prints as a result is what the capability returned.       *)
THEOREM ResultArrives == Spec => []ResultShown
<1>1. IInv => ResultShown
  BY ResultOfAnswer
<1> QED
  BY <1>1, Invariance, PTL

(* No failure is taken for another one.                                    *)
THEOREM FailureArrives == Spec => []FailureShown
<1>1. IInv => FailureShown
  BY FailureOfAnswer
<1> QED
  BY <1>1, Invariance, PTL

(* A reader of either pipe finds the end of a frame.                       *)
THEOREM FramesAreDelimited == Spec => []FramesDelimited
<1>1. IInv => FramesDelimited
  BY FramesOK
<1> QED
  BY <1>1, Invariance, PTL
=============================================================================
