---------------------------- MODULE ListIOProofs ----------------------------
(***************************************************************************)
(* Proofs about module ListIO, for any number of cells, any word width,    *)
(* any masks, a Temporary of any capacity and a Tape of any length.        *)
(***************************************************************************)
EXTENDS ListIO, FiniteSetTheorems, SequenceTheorems, WellFoundedInduction, TLAPS

-----------------------------------------------------------------------------
(* The invariant.                                                          *)

(* The cells below c, and the bits of a mask below a bit, by number.       *)
RankIn(S, x) == Cardinality({y \in S : y < x})

(* The lower members of S.                                                 *)
Segment(D, S) == D \subseteq S /\ \A d \in D : \A c \in S \ D : d < c

(* The list when the loop began, the cells of it that are done with, the   *)
(* bits of the mask that are through for the cell at hand, and the bits of *)
(* the channel that this makes.                                            *)
Width == Cardinality(mask)
Began == set[FALSE] \cap before.tag
Done == Began \ tag
Passed == mask \ tmp
Used == Cardinality(Done) * Width + Cardinality(Passed)

(* The i-th word of bits, from 0, and the cells that have theirs.          *)
Word(bits, i, m) == {b \in m : bits[i * Cardinality(m) + RankIn(m, b) + 1]}
Received(cells) == [c \in Cells |->
                       IF c \in cells
                       THEN Merge(before.data[c], Word(before.buffer, RankIn(Began, c), mask), mask)
                       ELSE before.data[c]]

(* The j-th bit that a store of cells under m sends.                       *)
BitOf(cells, values, m, j) ==
    \E c \in cells, b \in m : /\ j - 1 = RankIn(cells, c) * Cardinality(m) + RankIn(m, b)
                              /\ b \in values[c]
BitsSent(cells, values, m, len) == [j \in 1 .. len |-> BitOf(cells, values, m, j)]

Types == /\ set \in [BOOLEAN -> SUBSET Cells] /\ tag \in SUBSET Cells
         /\ data = [c \in Cells |-> data[c]] /\ SetsSwapped = FALSE
         /\ tape \in BOOLEAN /\ buffer \in Seq(BOOLEAN) /\ (~tape => Len(buffer) =< Capacity)
         /\ pc \in {"idle", "fetch", "store", "write", "next"}

(* Where a loop is: it has dealt with the first cells of the list, and the *)
(* lowest bits of the mask.                                                *)
Progress ==
    /\ op \in {"fetch", "store"} /\ mask \in Masks \ {{}} /\ tmp \subseteq mask
    /\ before.tag \in SUBSET Cells /\ before.buffer \in Seq(BOOLEAN)
    /\ before.data = [c \in Cells |-> before.data[c]]
    /\ tag = before.tag \ Done
    /\ Segment(Done, Began) /\ Segment(Passed, mask)
    /\ IF pc \in {"fetch", "store"} THEN pc = op /\ tmp # {} /\ (Done = Began => tmp = mask)
                                    ELSE tmp = {} /\ Done # Began
    /\ pc = "write" => op = "fetch"

(* A fetch has taken the bits of the words it has written and begun.       *)
Fetching ==
    /\ output = before.output
    /\ Used =< Len(before.buffer) /\ buffer = SubSeq(before.buffer, Used + 1, Len(before.buffer))
    /\ pc # "next" =>
           inval = {b \in Passed : before.buffer[Cardinality(Done) * Width + RankIn(mask, b) + 1]}
    /\ data = Received(IF pc = "next" THEN Done \cup {Cp!First} ELSE Done)

(* A store has sent the bits of the cells and of the mask behind it.       *)
Storing ==
    LET bits == BitsSent(Began, before.data, mask, Used)
    IN  /\ data = before.data
        /\ IF tape THEN buffer = before.buffer /\ output = bits
                   ELSE buffer = before.buffer \o bits /\ output = before.output

IInv == /\ Types
        /\ pc # "idle" => Progress
        /\ pc # "idle" /\ op = "fetch" => Fetching
        /\ pc # "idle" /\ op = "store" => Storing

-----------------------------------------------------------------------------
(* Numbers.                                                                *)

(* A nonempty set of naturals has a least element.                         *)
LEMMA LeastNat ==
    ASSUME NEW S \in SUBSET Nat, S # {}
    PROVE  \E m \in S : \A n \in S : m =< n
<1>1. PICK m \in S : \A n \in S : ~(<<n, m>> \in OpToRel(<, Nat))
    BY WFMin, NatLessThanWellFounded, Zenon
<1>2. ASSUME NEW n \in S, n < m
      PROVE  <<n, m>> \in OpToRel(<, Nat)
    BY <1>2 DEF OpToRel
<1>3. \A n \in S : ~(n < m)
    BY <1>1, <1>2
<1> QED
    BY <1>3

(* A word more is at least w bits more.                                    *)
LEMMA WordsGrow ==
    ASSUME NEW k \in Nat, NEW l \in Nat, NEW w \in Nat, k < l
    PROVE  /\ k * w \in Nat /\ l * w \in Nat
           /\ (k + 1) * w = k * w + w /\ k * w + w =< l * w
<1>1. PICK d \in Nat : l = k + 1 + d
    <2>1. l - k - 1 \in Nat /\ l = k + 1 + (l - k - 1)
        OBVIOUS
    <2> QED
        BY <2>1
<1>2. l * w = k * w + w + d * w
    BY <1>1
<1>3. d * w \in Nat /\ k * w \in Nat /\ l * w \in Nat /\ (k + 1) * w = k * w + w
    OBVIOUS
<1> QED
    BY <1>2, <1>3

(* A bit has one place.                                                    *)
LEMMA PlaceIsOne ==
    ASSUME NEW k \in Nat, NEW l \in Nat, NEW w \in Nat, NEW r \in Nat, NEW s \in Nat,
           r < w, s < w, k * w + r = l * w + s
    PROVE  k = l /\ r = s
<1>1. CASE k < l
    BY <1>1, WordsGrow
<1>2. CASE l < k
    BY <1>2, WordsGrow
<1>3. CASE k = l
    BY <1>3
<1> QED
    BY <1>1, <1>2, <1>3

(* How many whole words there are.                                         *)
LEMMA WholeWords ==
    ASSUME NEW k \in Nat, NEW w \in Nat, NEW r \in Nat, r < w
    PROVE  (k * w + r) \div w = k
<1>1. PICK n \in Nat : n = k * w + r
    OBVIOUS
<1>2. PICK q \in Nat : q = n \div w
    BY <1>1
<1>3. PICK s \in Nat : s = n % w
    BY <1>1
<1>4. n = q * w + s /\ s < w
    <2>1. n = w * (n \div w) + (n % w) /\ n % w < w
        BY <1>1
    <2> QED
        BY <1>2, <1>3, <2>1
<1>5. q = k
    BY <1>1, <1>4, PlaceIsOne
<1> QED
    BY <1>1, <1>2, <1>5

-----------------------------------------------------------------------------
(* The members of a set of numbers, in order.                              *)

(* What is in a segment has a number below its size.                       *)
LEMMA Ranks ==
    ASSUME NEW S \in SUBSET Nat, IsFiniteSet(S), NEW D, Segment(D, S)
    PROVE  /\ Cardinality(D) \in Nat /\ Cardinality(S) \in Nat /\ Cardinality(D) =< Cardinality(S)
           /\ D = S <=> Cardinality(D) = Cardinality(S)
           /\ \A c \in S : /\ RankIn(S, c) \in Nat
                           /\ c \in D <=> RankIn(S, c) < Cardinality(D)
<1>1. D \in SUBSET S /\ IsFiniteSet(D)
    BY FS_Subset DEF Segment
<1>2. /\ Cardinality(D) \in Nat /\ Cardinality(S) \in Nat /\ Cardinality(D) =< Cardinality(S)
      /\ D = S <=> Cardinality(D) = Cardinality(S)
    BY <1>1, FS_CardinalityType, FS_Subset
<1>3. ASSUME NEW c \in S
      PROVE  RankIn(S, c) \in Nat /\ (c \in D <=> RankIn(S, c) < Cardinality(D))
    <2>1. PICK U : U = {y \in S : y < c}
        OBVIOUS
    <2>2. U \in SUBSET S /\ IsFiniteSet(U) /\ Cardinality(U) \in Nat
        BY <2>1, FS_Subset, FS_CardinalityType
    <2>3. CASE c \in D
        <3>1. \A y \in S : y < c => y \in D \ {c}
            BY <2>3 DEF Segment
        <3>2. U \in SUBSET (D \ {c})
            BY <2>1, <3>1
        <3>3. IsFiniteSet(D \ {c}) /\ Cardinality(D \ {c}) = Cardinality(D) - 1
            BY <1>1, <2>3, FS_RemoveElement
        <3>4. Cardinality(U) =< Cardinality(D \ {c})
            BY <3>2, <3>3, FS_Subset
        <3> QED
            BY <1>2, <2>1, <2>2, <2>3, <3>3, <3>4 DEF RankIn
    <2>4. CASE c \notin D
        <3>1. D \in SUBSET U
            BY <1>1, <2>1, <2>4 DEF Segment
        <3>2. Cardinality(D) =< Cardinality(U)
            BY <2>2, <3>1, FS_Subset
        <3> QED
            BY <1>2, <2>1, <2>2, <2>4, <3>2 DEF RankIn
    <2> QED
        BY <2>3, <2>4
<1> QED
    BY <1>2, <1>3

(* The next member comes behind the segment, and makes a segment with it.  *)
LEMMA NextRank ==
    ASSUME NEW S \in SUBSET Nat, IsFiniteSet(S), NEW D, Segment(D, S),
           NEW x \in S \ D, \A c \in S \ D : x =< c
    PROVE  /\ RankIn(S, x) = Cardinality(D)
           /\ Segment(D \cup {x}, S)
           /\ Cardinality(D \cup {x}) = Cardinality(D) + 1
<1>1. {y \in S : y < x} = D
    <2>1. \A y \in S : y < x <=> y \in D
        BY DEF Segment
    <2>2. D \subseteq S
        BY DEF Segment
    <2> QED
        BY <2>1, <2>2
<1>2. IsFiniteSet(D)
    BY FS_Subset DEF Segment
<1>3. Segment(D \cup {x}, S)
    <2>1. ASSUME NEW d \in D \cup {x}, NEW c \in S \ (D \cup {x})
          PROVE  d < c
        <3>1. c \in S \ D /\ c \in Nat /\ x \in Nat /\ c # x
            OBVIOUS
        <3>2. CASE d = x
            BY <3>1, <3>2
        <3>3. CASE d \in D
            BY <3>1, <3>3 DEF Segment
        <3> QED
            BY <3>2, <3>3
    <2> QED
        BY <2>1 DEF Segment
<1> QED
    BY <1>1, <1>2, <1>3, FS_AddElement DEF RankIn

(* No two members have one number, and every number is below the size.     *)
LEMMA RankIsOne ==
    ASSUME NEW S \in SUBSET Nat, IsFiniteSet(S)
    PROVE  /\ \A c \in S : RankIn(S, c) \in Nat /\ RankIn(S, c) < Cardinality(S)
           /\ \A c, d \in S : RankIn(S, c) = RankIn(S, d) => c = d
<1>1. Segment(S, S)
    BY DEF Segment
<1>2. \A c \in S : RankIn(S, c) \in Nat /\ RankIn(S, c) < Cardinality(S)
    BY <1>1, Ranks
<1>3. ASSUME NEW c \in S, NEW d \in S, c < d
      PROVE  RankIn(S, c) < RankIn(S, d)
    <2>1. PICK D : D = {y \in S : y < d}
        OBVIOUS
    <2>2. Segment(D, S) /\ c \in D
        BY <1>3, <2>1 DEF Segment
    <2> QED
        BY <2>1, <2>2, Ranks DEF RankIn
<1>4. ASSUME NEW c \in S, NEW d \in S, RankIn(S, c) = RankIn(S, d)
      PROVE  c = d
    <2>1. c \in Nat /\ d \in Nat /\ RankIn(S, c) \in Nat
        BY <1>2
    <2>2. ~(c < d)
        BY <1>2, <1>3, <1>4
    <2>3. ~(d < c)
        BY <1>2, <1>3, <1>4
    <2> QED
        BY <2>1, <2>2, <2>3
<1> QED
    BY <1>2, <1>4

-----------------------------------------------------------------------------
(* Bits of a channel.                                                      *)

(* The bit of a cell and of a mask is where its numbers say.               *)
LEMMA BitIs ==
    ASSUME NEW cells \in SUBSET Nat, IsFiniteSet(cells), NEW m \in SUBSET Nat, IsFiniteSet(m),
           NEW values, NEW c \in cells, NEW b \in m, NEW j \in Nat,
           j = RankIn(cells, c) * Cardinality(m) + RankIn(m, b) + 1
    PROVE  BitOf(cells, values, m, j) <=> b \in values[c]
<1>1. \A x \in cells : RankIn(cells, x) \in Nat
    BY RankIsOne
<1>2. Cardinality(m) \in Nat /\ \A y \in m : RankIn(m, y) \in Nat /\ RankIn(m, y) < Cardinality(m)
    BY RankIsOne, FS_CardinalityType
<1>3. ASSUME NEW x \in cells, NEW y \in m,
             j - 1 = RankIn(cells, x) * Cardinality(m) + RankIn(m, y)
      PROVE  x = c /\ y = b
    <2>1. PICK k \in Nat, l \in Nat, w \in Nat, r \in Nat, s \in Nat :
              /\ k = RankIn(cells, x) /\ l = RankIn(cells, c) /\ w = Cardinality(m)
              /\ r = RankIn(m, y) /\ s = RankIn(m, b) /\ r < w /\ s < w
        BY <1>1, <1>2
    <2>2. k * w + r = l * w + s
        BY <1>3, <2>1
    <2>3. k = l /\ r = s
        BY <2>1, <2>2, PlaceIsOne
    <2>4. RankIn(cells, x) = RankIn(cells, c) /\ RankIn(m, y) = RankIn(m, b)
        BY <2>1, <2>3
    <2>5. x = c
        BY <2>4, RankIsOne
    <2>6. y = b
        BY <2>4, RankIsOne
    <2> QED
        BY <2>5, <2>6
<1>4. j - 1 = RankIn(cells, c) * Cardinality(m) + RankIn(m, b)
    BY <1>1, <1>2
<1>5. ASSUME BitOf(cells, values, m, j)
      PROVE  b \in values[c]
    BY <1>3, <1>5 DEF BitOf
<1>6. ASSUME b \in values[c]
      PROVE  BitOf(cells, values, m, j)
    BY <1>4, <1>6 DEF BitOf
<1> QED
    BY <1>5, <1>6

(* A store sends one bit after the other.                                  *)
LEMMA BitsGrow ==
    ASSUME NEW cells, NEW values, NEW m, NEW n \in Nat
    PROVE  /\ BitsSent(cells, values, m, n) \in Seq(BOOLEAN)
           /\ Len(BitsSent(cells, values, m, n)) = n
           /\ BitsSent(cells, values, m, n + 1)
                  = Append(BitsSent(cells, values, m, n), BitOf(cells, values, m, n + 1))
<1>1. \A j : BitOf(cells, values, m, j) \in BOOLEAN
    BY DEF BitOf
<1>2. PICK bits : bits = BitsSent(cells, values, m, n)
    OBVIOUS
<1>3. bits \in [1 .. n -> BOOLEAN]
    BY <1>1, <1>2 DEF BitsSent
<1>4. bits \in Seq(BOOLEAN) /\ Len(bits) = n
    BY <1>3, SeqDef, LenProperties
<1>5. PICK more : more = BitsSent(cells, values, m, n + 1)
    OBVIOUS
<1>6. more \in [1 .. n + 1 -> BOOLEAN]
    BY <1>1, <1>5 DEF BitsSent
<1>7. more \in Seq(BOOLEAN) /\ Len(more) = n + 1
    BY <1>6, SeqDef, LenProperties
<1>8. PICK bit \in BOOLEAN : bit = BitOf(cells, values, m, n + 1)
    BY <1>1
<1>9. Append(bits, bit) \in Seq(BOOLEAN) /\ Len(Append(bits, bit)) = n + 1
    BY <1>4, AppendProperties
<1>10. \A i \in 1 .. n + 1 : more[i] = Append(bits, bit)[i]
    <2>1. \A i \in 1 .. n : more[i] = bits[i]
        BY <1>2, <1>5 DEF BitsSent
    <2>2. more[n + 1] = bit
        BY <1>5, <1>8 DEF BitsSent
    <2>3. \A i \in 1 .. n : Append(bits, bit)[i] = bits[i]
        BY <1>4, AppendProperties
    <2>4. Append(bits, bit)[n + 1] = bit
        BY <1>4, AppendProperties
    <2>5. \A i \in 1 .. n + 1 : i \in 1 .. n \/ i = n + 1
        OBVIOUS
    <2> QED
        BY <2>1, <2>2, <2>3, <2>4, <2>5
<1>11. more = Append(bits, bit)
    BY <1>7, <1>9, <1>10, SeqEqual
<1> QED
    BY <1>2, <1>4, <1>5, <1>8, <1>11

(* What is left of a channel, when one more bit is taken.                  *)
LEMMA OneLess ==
    ASSUME NEW bits \in Seq(BOOLEAN), NEW n \in Nat, n =< Len(bits),
           SubSeq(bits, n + 1, Len(bits)) # <<>>
    PROVE  /\ n < Len(bits)
           /\ Head(SubSeq(bits, n + 1, Len(bits))) = bits[n + 1] /\ bits[n + 1] \in BOOLEAN
           /\ Tail(SubSeq(bits, n + 1, Len(bits))) = SubSeq(bits, n + 2, Len(bits))
<1>1. PICK len \in Nat : len = Len(bits)
    BY LenProperties
<1>2. n < len
    BY <1>1
<1>3. PICK left : left = SubSeq(bits, n + 1, len)
    OBVIOUS
<1>4. left \in Seq(BOOLEAN) /\ Len(left) = len - n /\ \A i \in 1 .. len - n : left[i] = bits[n + i]
    BY <1>1, <1>2, <1>3, SubSeqProperties
<1>5. Head(left) = left[1] /\ left[1] = bits[n + 1] /\ bits[n + 1] \in BOOLEAN
    BY <1>1, <1>2, <1>4, HeadTailProperties
<1>6. /\ Tail(left) \in Seq(BOOLEAN) /\ Len(Tail(left)) = len - n - 1
      /\ \A i \in 1 .. len - n - 1 : Tail(left)[i] = left[i + 1]
    BY <1>2, <1>4, HeadTailProperties
<1>7. PICK rest : rest = SubSeq(bits, n + 2, len)
    OBVIOUS
<1>8. /\ rest \in Seq(BOOLEAN) /\ Len(rest) = len - n - 1
      /\ \A i \in 1 .. len - n - 1 : rest[i] = bits[n + 1 + i]
    BY <1>1, <1>2, <1>7, SubSeqProperties
<1>9. Tail(left) = rest
    BY <1>2, <1>4, <1>6, <1>8, SeqEqual
<1> QED
    BY <1>1, <1>2, <1>3, <1>5, <1>7, <1>9

-----------------------------------------------------------------------------
(* The loops.                                                              *)

(* A mask is a finite nonempty set of numbers.                             *)
LEMMA MasksAre ==
    ASSUME NEW m \in Masks \ {{}}
    PROVE  /\ m \in SUBSET Nat /\ IsFiniteSet(m)
           /\ Cardinality(m) \in Nat /\ Cardinality(m) > 0
<1>1. m \in SUBSET Bits
    BY MasksAssumption DEF Words
<1>2. IsFiniteSet(m) /\ m # {}
    BY <1>1, BitsAssumption, FS_Subset
<1> QED
    BY <1>1, <1>2, BitsAreOrdered, FS_CardinalityType, FS_EmptySet

(* So are cells, or none.                                                  *)
LEMMA CellsAre ==
    ASSUME NEW S \in SUBSET Cells
    PROVE  S \in SUBSET Nat /\ IsFiniteSet(S) /\ Cardinality(S) \in Nat
<1>1. IsFiniteSet(Cells) /\ Cells \subseteq Nat
    BY FS_Interval, NAssumption DEF Cells
<1> QED
    BY <1>1, FS_Subset, FS_CardinalityType

(* The list are the selected and tagged cells.                             *)
LEMMA ListIs == ASSUME Types PROVE List = set[FALSE] \cap tag /\ List \in SUBSET Cells
BY DEF Types, List, Cp!List, Cp!Selected

(* The next cell is the first that is left.                                *)
LEMMA FirstIs ==
    ASSUME Types, List # {}
    PROVE  Cp!First \in List /\ \A c \in List : Cp!First =< c
<1>1. List \in SUBSET Nat /\ \A c \in List : c > 0
    BY ListIs, NAssumption DEF Cells
<1>2. PICK f \in List : \A c \in List : f =< c
    BY <1>1, LeastNat
<1>3. PICK L : L = List
    OBVIOUS
<1>4. Cp!First = CHOOSE d \in L : d > 0 /\ \A e \in L : e > 0 => d =< e
    BY <1>1, <1>2, <1>3 DEF Cp!First, Cp!Following, Cp!Nil, List
<1>5. \E d \in L : d > 0 /\ \A e \in L : e > 0 => d =< e
    BY <1>1, <1>2, <1>3
<1> QED
    BY <1>1, <1>3, <1>4, <1>5

(* The next bit is the lowest that is left.                                *)
LEMMA LowIs ==
    ASSUME tmp \in SUBSET Nat, tmp # {}
    PROVE  Low \in tmp /\ \A b \in tmp : Low =< b
<1>1. \E b \in tmp : \A c \in tmp : b =< c
    BY LeastNat
<1> QED
    BY <1>1 DEF Low

(* Where a loop is, in numbers.                                            *)
LEMMA Place ==
    ASSUME Types, Progress
    PROVE  /\ Began \in SUBSET Cells /\ List = Began \ Done
           /\ Width \in Nat /\ Width > 0 /\ Used \in Nat
           /\ Cardinality(Done) \in Nat /\ Cardinality(Began) \in Nat
           /\ Cardinality(Done) =< Cardinality(Began)
           /\ Done = Began <=> Cardinality(Done) = Cardinality(Began)
           /\ Cardinality(Passed) \in Nat /\ Cardinality(Passed) =< Width
           /\ Passed = mask <=> Cardinality(Passed) = Width
<1>1. Began \in SUBSET Cells /\ Began \in SUBSET Nat /\ IsFiniteSet(Began)
    BY CellsAre DEF Types, Progress, Began
<1>2. List = Began \ Done
    BY ListIs DEF Progress, Began, Done
<1>3. mask \in SUBSET Nat /\ IsFiniteSet(mask) /\ Width \in Nat /\ Width > 0
    BY MasksAre DEF Progress, Width
<1>4. Segment(Done, Began) /\ Segment(Passed, mask)
    BY DEF Progress
<1>5. /\ Cardinality(Done) \in Nat /\ Cardinality(Began) \in Nat
      /\ Cardinality(Done) =< Cardinality(Began)
      /\ Done = Began <=> Cardinality(Done) = Cardinality(Began)
    BY <1>1, <1>4, Ranks
<1>6. /\ Cardinality(Passed) \in Nat /\ Cardinality(Passed) =< Width
      /\ Passed = mask <=> Cardinality(Passed) = Width
    BY <1>3, <1>4, Ranks DEF Width
<1>7. Used \in Nat
    BY <1>3, <1>5, <1>6 DEF Used
<1> QED
    BY <1>1, <1>2, <1>3, <1>5, <1>6, <1>7

(* The next cell has as many before it as are done with.                   *)
LEMMA NextCell ==
    ASSUME Types, Progress, List # {}
    PROVE  /\ Cp!First \in Began \ Done /\ RankIn(Began, Cp!First) = Cardinality(Done)
           /\ Segment(Done \cup {Cp!First}, Began)
           /\ Cardinality(Done \cup {Cp!First}) = Cardinality(Done) + 1
<1>1. Began \in SUBSET Nat /\ IsFiniteSet(Began) /\ Segment(Done, Began) /\ List = Began \ Done
    BY Place, CellsAre DEF Progress
<1>2. PICK f : f = Cp!First
    OBVIOUS
<1>3. f \in Began \ Done /\ \A c \in Began \ Done : f =< c
    BY <1>1, <1>2, FirstIs
<1> QED
    BY <1>1, <1>2, <1>3, NextRank

(* The next bit has as many before it as are through.                      *)
LEMMA NextBit ==
    ASSUME Types, Progress, tmp # {}
    PROVE  /\ Low \in mask \ Passed /\ Low \in tmp /\ RankIn(mask, Low) = Cardinality(Passed)
           /\ Segment(Passed \cup {Low}, mask)
           /\ Cardinality(Passed \cup {Low}) = Cardinality(Passed) + 1
<1>1. mask \in SUBSET Nat /\ IsFiniteSet(mask) /\ Segment(Passed, mask) /\ tmp = mask \ Passed
    BY MasksAre DEF Progress, Passed
<1>2. PICK b : b = Low
    OBVIOUS
<1>3. b \in mask \ Passed /\ \A c \in mask \ Passed : b =< c
    BY <1>1, <1>2, LowIs
<1> QED
    BY <1>1, <1>2, <1>3, NextRank

(* A bit more, in either loop.                                             *)
LEMMA BitMoves ==
    ASSUME Types, Progress, tmp # {}, tmp' = tmp \ {Low}, UNCHANGED <<set, tag, op, mask, before>>
    PROVE  /\ Began' = Began /\ Done' = Done /\ Width' = Width
           /\ Passed' = Passed \cup {Low} /\ Used' = Used + 1
           /\ Segment(Done, Began)' /\ Segment(Passed, mask)'
<1>1. Began' = Began /\ Done' = Done /\ Width' = Width
    BY DEF Began, Done, Width
<1>2. Passed' = Passed \cup {Low}
    BY NextBit DEF Passed
<1>3. Segment(Done, Began)' /\ Segment(Passed, mask)'
    BY <1>1, <1>2, NextBit DEF Segment, Progress
<1>4. Cardinality(Passed') = Cardinality(Passed) + 1
    BY <1>2, NextBit
<1>5. PICK whole : whole = Cardinality(Done) * Width
    OBVIOUS
<1>6. Used = whole + Cardinality(Passed) /\ Used' = whole + Cardinality(Passed')
    BY <1>1, <1>5 DEF Used
<1>7. whole \in Nat /\ Cardinality(Passed) \in Nat
    BY <1>5, Place
<1> QED
    BY <1>1, <1>2, <1>3, <1>4, <1>6, <1>7

(* A cell more.                                                            *)
LEMMA CellMoves ==
    ASSUME Types, Progress, tmp = {}, List # {}, tag' = tag \ {Cp!First}, tmp' = mask,
           UNCHANGED <<set, op, mask, before>>
    PROVE  /\ Began' = Began /\ Done' = Done \cup {Cp!First} /\ Width' = Width
           /\ Passed' = {} /\ Used' = Used
           /\ Segment(Done, Began)' /\ Segment(Passed, mask)'
           /\ tag' = before.tag \ Done'
<1>1. Began' = Began /\ Width' = Width
    BY DEF Began, Width
<1>2. Done' = Done \cup {Cp!First}
    BY <1>1, NextCell DEF Done
<1>3. Passed' = {} /\ Passed = mask
    BY DEF Passed, Progress
<1>4. Segment(Done, Began)' /\ Segment(Passed, mask)'
    BY <1>1, <1>2, <1>3, NextCell DEF Segment
<1>5. tag' = before.tag \ Done'
    BY <1>1, <1>2, NextCell DEF Progress
<1>6. Used' = Used
    <2>1. PICK k \in Nat : k = Cardinality(Done)
        BY Place
    <2>2. PICK w \in Nat : w = Width
        BY Place
    <2>3. Cardinality(Done') = k + 1
        BY <1>2, <2>1, NextCell
    <2>4. Cardinality(Passed') = 0 /\ Cardinality(Passed) = w
        BY <1>3, <2>2, FS_EmptySet DEF Width
    <2>5. k < k + 1
        BY <2>1
    <2>6. (k + 1) * w = k * w + w /\ k * w \in Nat
        BY <2>1, <2>2, <2>5, WordsGrow
    <2> QED
        BY <1>1, <2>1, <2>2, <2>3, <2>4, <2>6 DEF Used
<1> QED
    BY <1>1, <1>2, <1>3, <1>4, <1>5, <1>6

-----------------------------------------------------------------------------
(* The steps.                                                              *)

(* What a channel gives, and takes.                                        *)
LEMMA ReceiveKeeps ==
    ASSUME buffer \in Seq(BOOLEAN), Chan!Receive
    PROVE  buffer' \in Seq(BOOLEAN) /\ Len(buffer') =< Len(buffer) /\ last' \in BOOLEAN
<1>1. buffer # <<>> /\ last' = Head(buffer) /\ buffer' = Tail(buffer)
    BY DEF Chan!Receive
<1>2. Len(buffer) \in Nat
    BY LenProperties
<1> QED
    BY <1>1, <1>2, HeadTailProperties

(* The bit a store is about to send.                                       *)
BitToSend == Low \in data[Cp!First]

(* A bit sent, and what the channel answers.                               *)
LEMMA SendKeeps ==
    ASSUME Types, SendBit
    PROVE  /\ buffer' \in Seq(BOOLEAN) /\ (~tape => Len(buffer') =< Capacity)
           /\ \/ /\ last' = NoError /\ tape /\ output' = Append(output, BitToSend) /\ buffer' = buffer
              \/ /\ last' = NoError /\ ~tape /\ Len(buffer) < Capacity
                 /\ buffer' = Append(buffer, BitToSend) /\ output' = output
              \/ /\ last' = ErrChannelFull /\ ~tape /\ Len(buffer) = Capacity
                 /\ buffer' = buffer /\ output' = output
<1>1. BitToSend \in BOOLEAN
    BY DEF BitToSend
<1>2. Len(buffer) \in Nat /\ Capacity \in Nat /\ buffer \in Seq(BOOLEAN)
    BY LenProperties, ChannelAssumption DEF Types
<1>3. Append(buffer, BitToSend) \in Seq(BOOLEAN) /\ Len(Append(buffer, BitToSend)) = Len(buffer) + 1
    BY <1>1, <1>2, AppendProperties
<1>4. TapeSend(BitToSend) \/ (~tape /\ Chan!Send(BitToSend) /\ UNCHANGED output)
    BY DEF SendBit, BitToSend
<1> QED
    BY <1>1, <1>2, <1>3, <1>4 DEF TapeSend, Chan!Send, Types

(* The other instructions.                                                 *)
LEMMA OperateKeeps ==
    ASSUME Types, Operate, UNCHANGED tape
    PROVE  Types' /\ pc' = "idle"
<1> DEFINE Kept == /\ tag' \in SUBSET Cells /\ set' \in [BOOLEAN -> SUBSET Cells]
                   /\ data' = [c \in Cells |-> data'[c]] /\ SetsSwapped' = SetsSwapped
<1>1. Kept
    <2>1. CASE Cp!ListAll \/ Cp!ListNot
        BY <2>1 DEF Types, Cp!ListAll, Cp!ListNot, Cp!Retag, Cp!Selected
    <2>2. ASSUME NEW o \in Operands, Cp!Select(o[1], o[2])
          PROVE  Kept
        <3>1. {c \in Cp!Cells : Cp!Matches(data[c], o[1], o[2])} \in SUBSET Cells
            BY DEF Cp!Cells, Cells
        <3> QED
            BY <2>2, <3>1 DEF Types, Cp!Select
    <2>3. ASSUME NEW o \in Operands, Cp!WriteFirst(o[1], o[2])
          PROVE  Kept
        BY <2>3 DEF Types, Cp!WriteFirst, Cp!Write, Cp!Cells, Cells
    <2> QED
        BY <2>1, <2>2, <2>3 DEF Operate
<1> QED
    BY <1>1 DEF Operate, Types

(* Every step keeps the types.                                             *)
LEMMA TypesKeep == ASSUME IInv, [Next]_vars PROVE Types'
<1>1. Types
    BY DEF IInv
<1>2. CASE UNCHANGED vars
    BY <1>1, <1>2 DEF vars, cappVars, Types
<1>3. CASE UNCHANGED tape /\ \E m \in Masks : Begin("fetch", m) \/ Begin("store", m)
    BY <1>1, <1>3 DEF Begin, cappVars, Types
<1>4. CASE UNCHANGED tape /\ Operate
    BY <1>1, <1>4, OperateKeeps
<1>5. CASE UNCHANGED tape /\ TakeBit
    <2>1. UNCHANGED <<cappVars, tape>> /\ Chan!Receive /\ pc' \in {"write", "fetch"}
        BY <1>5 DEF TakeBit
    <2>2. Len(buffer) \in Nat /\ Len(buffer') \in Nat
        BY <1>1, <2>1, ReceiveKeeps, LenProperties DEF Types
    <2> QED
        BY <1>1, <2>1, <2>2, ReceiveKeeps, ChannelAssumption DEF cappVars, Types
<1>6. CASE UNCHANGED tape /\ ListFull
    <2>1. UNCHANGED <<cappVars, tape>> /\ pc' = "idle"
        BY <1>6 DEF ListFull, Return
    <2>2. CASE buffer' = buffer
        BY <1>1, <2>1, <2>2 DEF cappVars, Types
    <2>3. CASE Chan!Receive
        <3>1. Len(buffer) \in Nat /\ Len(buffer') \in Nat
            BY <1>1, <2>3, ReceiveKeeps, LenProperties DEF Types
        <3> QED
            BY <1>1, <2>1, <2>3, <3>1, ReceiveKeeps, ChannelAssumption DEF cappVars, Types
    <2> QED
        BY <1>6, <2>2, <2>3 DEF ListFull, TapeBitKept
<1>7. CASE UNCHANGED tape /\ (InputEnds \/ ListEnds)
    BY <1>1, <1>7 DEF InputEnds, ListEnds, Return, cappVars, Types
<1>8. CASE UNCHANGED tape /\ WriteFirst
    BY <1>1, <1>8 DEF WriteFirst, Cp!WriteFirst, Cp!Write, Cp!Cells, Cells, Types
<1>9. CASE UNCHANGED tape /\ SendBit
    <2>1. UNCHANGED <<cappVars, tape>> /\ pc' \in {"idle", "next", "store"}
        BY <1>9 DEF SendBit, Return
    <2>2. buffer' \in Seq(BOOLEAN) /\ (~tape => Len(buffer') =< Capacity)
        BY <1>1, <1>9, SendKeeps
    <2> QED
        BY <1>1, <2>1, <2>2 DEF cappVars, Types
<1>10. CASE UNCHANGED tape /\ ListNext
    <2>1. pc' \in {"fetch", "store"}
        BY <1>10 DEF ListNext, IInv, Progress
    <2>2. tag' \in SUBSET Cells /\ UNCHANGED <<set, data, SetsSwapped, buffer, tape>>
        BY <1>1, <1>10 DEF ListNext, Cp!ListNext, Cp!Retag, Types
    <2> QED
        BY <1>1, <2>1, <2>2 DEF Types
<1> QED
    BY <1>2, <1>3, <1>4, <1>5, <1>6, <1>7, <1>8, <1>9, <1>10 DEF Next, Loop

(* A loop begins before the first cell.                                    *)
LEMMA BeginInv ==
    ASSUME Types, Types', NEW o \in {"fetch", "store"}, NEW m \in Masks, Begin(o, m), UNCHANGED tape
    PROVE  Progress' /\ (op' = "fetch" => Fetching') /\ (op' = "store" => Storing')
<1>1. /\ pc = "idle" /\ m # {} /\ pc' = o /\ op' = o /\ mask' = m /\ tmp' = m /\ inval' = {}
      /\ output' = IF o = "store" /\ tape THEN <<>> ELSE output
      /\ set' = set /\ tag' = tag /\ data' = data /\ buffer' = buffer /\ tape' = tape
    BY DEF Begin, cappVars
<1>2. before'.tag = tag /\ before'.data = data /\ before'.buffer = buffer /\ before'.output = output
    BY DEF Begin
<1>3. Began' = set[FALSE] \cap tag /\ Done' = {} /\ Passed' = {}
    BY <1>1, <1>2 DEF Began, Done, Passed
<1>4. Used' = 0
    <2>1. Width' \in Nat /\ \A w \in Nat : 0 * w + 0 = 0
        <3>1. \A w \in Nat : 0 * w + 0 = 0
            OBVIOUS
        <3> QED
            BY <1>1, <3>1, MasksAre DEF Width
    <2>2. Cardinality(Done') = 0 /\ Cardinality(Passed') = 0
        BY <1>3, FS_EmptySet
    <2> QED
        BY <2>1, <2>2 DEF Used
<1>5. Segment(Done, Began)' /\ Segment(Passed, mask)'
    BY <1>3 DEF Segment
<1>6. Progress'
    BY <1>1, <1>2, <1>3, <1>5 DEF Progress, Types
<1>7. CASE o = "fetch"
    <2>1. Received(Done)' = data
        BY <1>2, <1>3 DEF Received, Types
    <2>2. buffer = SubSeq(buffer, 1, Len(buffer))
        BY SubSeqFull DEF Types
    <2>3. Len(buffer) \in Nat
        BY LenProperties DEF Types
    <2>4. Fetching'
        BY <1>1, <1>2, <1>3, <1>4, <1>7, <2>1, <2>2, <2>3 DEF Fetching
    <2> QED
        BY <1>1, <1>6, <1>7, <2>4
<1>8. CASE o = "store"
    <2>1. PICK bits : bits = BitsSent(Began, before.data, mask, Used)'
        OBVIOUS
    <2>2. bits = <<>>
        <3>1. \A cells, values, w : BitsSent(cells, values, w, 0) = <<>>
            BY BitsGrow, EmptySeq
        <3> QED
            BY <1>4, <2>1, <3>1
    <2>3. buffer \o <<>> = buffer
        BY ConcatEmptySeq DEF Types
    <2>4. Storing'
        BY <1>1, <1>2, <1>8, <2>1, <2>2, <2>3 DEF Storing
    <2> QED
        BY <1>1, <1>6, <1>8, <2>4
<1> QED
    BY <1>7, <1>8

(* A bit taken goes where it belongs.                                      *)
LEMMA TakeBitInv ==
    ASSUME Types, Progress, Fetching, op = "fetch", TakeBit
    PROVE  Progress' /\ Fetching' /\ op' = "fetch"
<1>1. /\ pc = "fetch" /\ List # {} /\ tmp' = tmp \ {Low} /\ pc' = IF tmp' = {} THEN "write" ELSE "fetch"
      /\ inval' = (IF last' THEN inval \cup {Low} ELSE inval)
      /\ UNCHANGED <<set, tag, data, output, op, mask, before>>
    BY DEF TakeBit, cappVars
<1>2. tmp # {} /\ tmp \subseteq mask
    BY <1>1 DEF Progress
<1>3. /\ Began' = Began /\ Done' = Done /\ Width' = Width
      /\ Passed' = Passed \cup {Low} /\ Used' = Used + 1
      /\ Segment(Done, Began)' /\ Segment(Passed, mask)'
    BY <1>1, <1>2, BitMoves
<1>4. Done # Began
    BY <1>1, Place
<1>5. Progress'
    BY <1>1, <1>2, <1>3, <1>4 DEF Progress
<1>6. PICK bits : bits = before.buffer
    OBVIOUS
<1>7. bits \in Seq(BOOLEAN) /\ Used \in Nat /\ Used =< Len(bits) /\ buffer = SubSeq(bits, Used + 1, Len(bits))
    BY <1>6, Place DEF Progress, Fetching
<1>8. buffer # <<>> /\ last' = Head(buffer) /\ buffer' = Tail(buffer)
    BY DEF TakeBit, Chan!Receive
<1>9. Used < Len(bits) /\ last' = bits[Used + 1] /\ last' \in BOOLEAN /\ buffer' = SubSeq(bits, Used + 2, Len(bits))
    BY <1>7, <1>8, OneLess
<1>10. Used' =< Len(bits) /\ buffer' = SubSeq(bits, Used' + 1, Len(bits))
    <2>1. Len(bits) \in Nat
        BY <1>7, LenProperties
    <2>2. Used + 1 + 1 = Used + 2 /\ Used + 1 =< Len(bits)
        BY <1>7, <1>9, <2>1
    <2> QED
        BY <1>3, <1>9, <2>2
<1>11. inval' = {b \in Passed' : bits[Cardinality(Done) * Width + RankIn(mask, b) + 1]}
    <2>1. inval = {b \in Passed : bits[Cardinality(Done) * Width + RankIn(mask, b) + 1]}
        BY <1>1, <1>6 DEF Fetching
    <2>2. Cardinality(Done) * Width + RankIn(mask, Low) + 1 = Used + 1
        BY <1>2, NextBit DEF Used
    <2>3. bits[Cardinality(Done) * Width + RankIn(mask, Low) + 1] = last'
        BY <1>9, <2>2
    <2> QED
        BY <1>1, <1>3, <2>1, <2>3
<1>12. Received(Done)' = Received(Done)
    BY <1>1, <1>3 DEF Received
<1>13. Fetching'
    <2>1. pc' # "next" /\ pc # "next"
        BY <1>1
    <2> QED
        BY <1>1, <1>3, <1>6, <1>10, <1>11, <1>12, <2>1 DEF Fetching
<1> QED
    BY <1>1, <1>5, <1>13

(* A word written to the first cell left.                                  *)
LEMMA WriteFirstInv ==
    ASSUME Types, Progress, Fetching, op = "fetch", WriteFirst
    PROVE  Progress' /\ Fetching' /\ op' = "fetch"
<1>1. /\ pc = "write" /\ pc' = "next" /\ UNCHANGED <<set, tag, SetsSwapped, buffer, output, op, mask, tmp, inval, before>>
      /\ data' = [c \in Cells |-> IF c \in {Cp!First} THEN Merge(data[c], inval, mask) ELSE data[c]]
    BY DEF WriteFirst, Cp!WriteFirst, Cp!Write, loopVars, Cp!Cells, Cells, Cp!Merge, Merge
<1>2. Began' = Began /\ Done' = Done /\ Width' = Width /\ Passed' = Passed /\ Used' = Used
    BY <1>1 DEF Began, Done, Width, Passed, Used
<1>3. Progress'
    BY <1>1, <1>2 DEF Progress
<1>4. tmp = {} /\ Passed = mask /\ List # {}
    <2>1. tmp = {} /\ Done # Began
        BY <1>1 DEF Progress
    <2>2. List = Began \ Done /\ Done \subseteq Began
        BY Place DEF Done
    <2> QED
        BY <2>1, <2>2 DEF Passed
<1>5. PICK f : f = Cp!First
    OBVIOUS
<1>6. (Cp!First)' = f
    BY <1>1, <1>5 DEF Cp!First, Cp!List, Cp!Selected, Cp!Following, Cp!Nil
<1>7. f \in Began \ Done /\ RankIn(Began, f) = Cardinality(Done)
    BY <1>4, <1>5, NextCell
<1>8. inval = Word(before.buffer, RankIn(Began, f), mask)
    BY <1>1, <1>4, <1>7 DEF Fetching, Word, Width
<1>9. data = Received(Done)
    BY <1>1 DEF Fetching
<1>10. data' = Received(Done \cup {f})
    BY <1>1, <1>5, <1>7, <1>8, <1>9 DEF Received
<1>11. Received(Done \cup {f})' = Received(Done \cup {f})
    BY <1>1, <1>2, <1>6 DEF Received
<1>12. Fetching'
    BY <1>1, <1>2, <1>5, <1>6, <1>10, <1>11 DEF Fetching
<1> QED
    BY <1>1, <1>3, <1>12

(* The next bit of the next cell is the next that a store is to send.      *)
LEMMA NextBitOf ==
    ASSUME Types, Progress, List # {}, tmp # {}, data = before.data
    PROVE  BitOf(Began, before.data, mask, Used + 1) <=> BitToSend
<1>1. Began \in SUBSET Nat /\ IsFiniteSet(Began) /\ mask \in SUBSET Nat /\ IsFiniteSet(mask)
    BY Place, CellsAre, MasksAre DEF Progress
<1>2. /\ Cp!First \in Began /\ RankIn(Began, Cp!First) = Cardinality(Done)
      /\ Low \in mask /\ RankIn(mask, Low) = Cardinality(Passed)
    BY NextCell, NextBit
<1>3. Used + 1 \in Nat /\ Used + 1 = Cardinality(Done) * Cardinality(mask) + Cardinality(Passed) + 1
    BY Place DEF Used, Width
<1>4. BitOf(Began, before.data, mask, Used + 1) <=> Low \in before.data[Cp!First]
    <2>1. PICK c \in Began : c = Cp!First
        BY <1>2
    <2>2. PICK b \in mask : b = Low
        BY <1>2
    <2>3. PICK j \in Nat : j = Used + 1
        BY <1>3
    <2>4. j = RankIn(Began, c) * Cardinality(mask) + RankIn(mask, b) + 1
        BY <1>2, <1>3, <2>1, <2>2, <2>3
    <2>5. BitOf(Began, before.data, mask, j) <=> b \in before.data[c]
        BY <1>1, <2>4, BitIs
    <2> QED
        BY <2>1, <2>2, <2>3, <2>5
<1> QED
    BY <1>4 DEF BitToSend

(* A bit appended to the second of two sequences.                          *)
LEMMA ConcatAppend ==
    ASSUME NEW s \in Seq(BOOLEAN), NEW t \in Seq(BOOLEAN), NEW e \in BOOLEAN
    PROVE  Append(s \o t, e) = s \o Append(t, e)
<1>1. <<e>> \in Seq(BOOLEAN) /\ s \o t \in Seq(BOOLEAN)
    BY ConcatProperties
<1>2. Append(s \o t, e) = (s \o t) \o <<e>> /\ Append(t, e) = t \o <<e>>
    BY <1>1, AppendIsConcat
<1> QED
    BY <1>1, <1>2, ConcatAssociative

(* A bit sent comes behind the others.                                     *)
LEMMA SendBitInv ==
    ASSUME Types, Progress, Storing, op = "store", SendBit, last' # ErrChannelFull, UNCHANGED tape
    PROVE  Progress' /\ Storing' /\ op' = "store"
<1>1. /\ pc = "store" /\ List # {} /\ tmp' = tmp \ {Low} /\ pc' = (IF tmp' = {} THEN "next" ELSE "store")
      /\ UNCHANGED <<set, tag, data, SetsSwapped, op, mask, before, tape>>
    BY DEF SendBit, cappVars
<1>2. tmp # {} /\ tmp \subseteq mask
    BY <1>1 DEF Progress
<1>3. /\ Began' = Began /\ Done' = Done /\ Width' = Width
      /\ Passed' = Passed \cup {Low} /\ Used' = Used + 1
      /\ Segment(Done, Began)' /\ Segment(Passed, mask)'
    BY <1>1, <1>2, BitMoves
<1>4. Done # Began
    BY <1>1, Place
<1>5. Progress'
    BY <1>1, <1>2, <1>3, <1>4 DEF Progress
<1>6. PICK bits : bits = BitsSent(Began, before.data, mask, Used)
    OBVIOUS
<1>7. bits \in Seq(BOOLEAN) /\ BitsSent(Began, before.data, mask, Used)' = Append(bits, BitToSend)
    <2>1. BitsSent(Began, before.data, mask, Used)' = BitsSent(Began, before.data, mask, Used + 1)
        BY <1>1, <1>3 DEF BitsSent, BitOf
    <2>2. Used \in Nat
        BY Place
    <2>3. BitsSent(Began, before.data, mask, Used + 1) = Append(bits, BitOf(Began, before.data, mask, Used + 1))
        BY <1>6, <2>2, BitsGrow
    <2>4. BitOf(Began, before.data, mask, Used + 1) = BitToSend
        <3>1. data = before.data
            BY DEF Storing
        <3>2. BitOf(Began, before.data, mask, Used + 1) \in BOOLEAN /\ BitToSend \in BOOLEAN
            BY DEF BitOf, BitToSend
        <3> QED
            BY <1>1, <1>2, <3>1, <3>2, NextBitOf
    <2> QED
        BY <1>6, <2>1, <2>2, <2>3, <2>4, BitsGrow
<1>8. CASE tape
    <2>1. buffer = before.buffer /\ output = bits
        BY <1>6, <1>8 DEF Storing
    <2>2. output' = Append(output, BitToSend) /\ buffer' = buffer
        BY <1>8, SendKeeps
    <2>3. Storing'
        BY <1>1, <1>7, <1>8, <2>1, <2>2 DEF Storing
    <2> QED
        BY <1>1, <1>5, <2>3
<1>9. CASE ~tape
    <2>1. buffer = before.buffer \o bits /\ output = before.output /\ before.buffer \in Seq(BOOLEAN)
        BY <1>6, <1>9 DEF Storing, Progress
    <2>2. buffer' = Append(buffer, BitToSend) /\ output' = output
        BY <1>9, SendKeeps
    <2>3. Append(before.buffer \o bits, BitToSend) = before.buffer \o Append(bits, BitToSend)
        <3>1. BitToSend \in BOOLEAN
            BY DEF BitToSend
        <3> QED
            BY <1>7, <2>1, <3>1, ConcatAppend
    <2>4. Storing'
        BY <1>1, <1>7, <1>9, <2>1, <2>2, <2>3 DEF Storing
    <2> QED
        BY <1>1, <1>5, <2>4
<1> QED
    BY <1>8, <1>9

(* A cell that is done with leaves the list.                               *)
LEMMA ListNextInv ==
    ASSUME Types, Progress, op = "fetch" => Fetching, op = "store" => Storing, ListNext, UNCHANGED tape
    PROVE  Progress' /\ (op' = "fetch" => Fetching') /\ (op' = "store" => Storing')
<1>1. /\ pc = "next" /\ pc' = op /\ tmp' = mask /\ inval' = {} /\ tag' = tag \ {Cp!First}
      /\ UNCHANGED <<set, data, SetsSwapped, buffer, output, op, mask, before>>
    BY DEF ListNext, Cp!ListNext, Cp!Retag
<1>2. tmp = {} /\ Done # Began
    BY <1>1 DEF Progress
<1>3. List # {}
    <2>1. List = Began \ Done /\ Done \subseteq Began
        BY Place DEF Done
    <2> QED
        BY <1>2, <2>1
<1>4. /\ Began' = Began /\ Done' = Done \cup {Cp!First} /\ Width' = Width
      /\ Passed' = {} /\ Used' = Used
      /\ Segment(Done, Began)' /\ Segment(Passed, mask)'
      /\ tag' = before.tag \ Done'
    BY <1>1, <1>2, <1>3, CellMoves
<1>5. Progress'
    BY <1>1, <1>2, <1>4 DEF Progress
<1>6. CASE op = "fetch"
    <2>1. Fetching /\ pc # "fetch" /\ pc' = "fetch"
        BY <1>1, <1>6
    <2>2. Received(Done)' = Received(Done \cup {Cp!First})
        BY <1>1, <1>4 DEF Received
    <2>3. data' = Received(Done)'
        BY <1>1, <2>1, <2>2 DEF Fetching
    <2>4. Fetching'
        BY <1>1, <1>4, <2>1, <2>3 DEF Fetching
    <2> QED
        BY <1>1, <1>5, <1>6, <2>4
<1>7. CASE op = "store"
    <2>1. BitsSent(Began, before.data, mask, Used)' = BitsSent(Began, before.data, mask, Used)
        BY <1>1, <1>4 DEF BitsSent, BitOf
    <2>2. Storing'
        BY <1>1, <1>7, <2>1 DEF Storing
    <2> QED
        BY <1>1, <1>5, <1>7, <2>2
<1> QED
    BY <1>6, <1>7 DEF Progress

(* The invariant holds when the machine starts, and every step keeps it.   *)
LEMMA InitIInv == Init => IInv
<1> SUFFICES ASSUME Init PROVE Types
    BY DEF Init, IInv
<1>1. buffer \in Seq(BOOLEAN) /\ (~tape => Len(buffer) =< Capacity)
    <2>1. CASE tape
        BY <2>1, MasksAssumption DEF Init
    <2>2. CASE ~tape
        BY <2>2, ChannelAssumption, EmptySeq DEF Init
    <2> QED
        BY <2>1, <2>2
<1>2. tag \in SUBSET Cells /\ SetsSwapped = FALSE /\ data = [c \in Cells |-> Bits]
      /\ set = [s \in BOOLEAN |-> IF s THEN {} ELSE Cells]
    BY DEF Init, Cp!Init, Cp!Cells, Cells
<1> QED
    BY <1>1, <1>2 DEF Init, Types

(* One step per action; the loops' ends have nothing to keep.              *)
LEMMA NextIInv == IInv /\ [Next]_vars => IInv'
<1> SUFFICES ASSUME IInv, [Next]_vars PROVE IInv'
    OBVIOUS
<1>1. Types /\ Types'
    BY TypesKeep DEF IInv
<1>2. CASE UNCHANGED vars
    <2>1. UNCHANGED <<set, tag, data, SetsSwapped, tape, buffer, output, pc, op, mask, tmp, inval, before>>
        BY <1>2 DEF vars, cappVars, loopVars
    <2>2. Began' = Began /\ Done' = Done /\ Passed' = Passed /\ Used' = Used /\ Width' = Width
          /\ (Cp!First)' = Cp!First
        BY <2>1 DEF Began, Done, Passed, Used, Width, Cp!First, Cp!List, Cp!Selected, Cp!Following, Cp!Nil
    <2>3. Progress => Progress'
        BY <2>1, <2>2 DEF Progress
    <2>4. Fetching => Fetching'
        <3>1. \A cells : Received(cells)' = Received(cells)
            BY <2>1, <2>2 DEF Received
        <3> QED
            BY <2>1, <2>2, <3>1 DEF Fetching
    <2>5. Storing => Storing'
        BY <2>1, <2>2 DEF Storing, BitsSent, BitOf
    <2> QED
        BY <1>1, <2>1, <2>3, <2>4, <2>5 DEF IInv
<1>3. CASE pc' = "idle"
    BY <1>1, <1>3 DEF IInv
<1>4. ASSUME NEW m \in Masks, Begin("fetch", m) \/ Begin("store", m), UNCHANGED tape
      PROVE  IInv'
    BY <1>1, <1>4, BeginInv DEF IInv
<1>5. CASE UNCHANGED tape /\ TakeBit
    <2>1. pc = "fetch" /\ op = "fetch"
        BY <1>5 DEF TakeBit, IInv, Progress
    <2> QED
        BY <1>1, <1>5, <2>1, TakeBitInv DEF IInv
<1>6. CASE UNCHANGED tape /\ WriteFirst
    <2>1. pc = "write" /\ op = "fetch"
        BY <1>6 DEF WriteFirst, IInv, Progress
    <2> QED
        BY <1>1, <1>6, <2>1, WriteFirstInv DEF IInv
<1>7. CASE UNCHANGED tape /\ SendBit
    <2>1. pc = "store" /\ op = "store"
        BY <1>7 DEF SendBit, IInv, Progress
    <2>2. CASE last' = ErrChannelFull
        BY <1>3, <1>7, <2>2 DEF SendBit, Return
    <2>3. CASE last' # ErrChannelFull
        BY <1>1, <1>7, <2>1, <2>3, SendBitInv DEF IInv
    <2> QED
        BY <2>2, <2>3
<1>8. CASE UNCHANGED tape /\ ListNext
    <2>1. pc = "next"
        BY <1>8 DEF ListNext
    <2> QED
        BY <1>1, <1>8, <2>1, ListNextInv DEF IInv
<1>9. CASE ListFull \/ InputEnds \/ ListEnds \/ Operate
    BY <1>3, <1>9 DEF ListFull, InputEnds, ListEnds, Return, Operate
<1> QED
    BY <1>2, <1>4, <1>5, <1>6, <1>7, <1>8, <1>9 DEF Next, Loop

(* So it always holds.                                                     *)
LEMMA Invariance == Spec => []IInv
BY InitIInv, NextIInv, PTL DEF Spec

(* On a Tape a fetch that the list ends has used the bits of the cells it  *)
(* has filled, and no other, so that the next one continues there          *)
(* (src/cpu/cpu.go:250-283, src/sio/tape.go:35-59).                        *)
THEOREM TapeAlwaysContinues == Spec => TapeContinues
<1>1. ASSUME IInv, ListFull, tape
      PROVE  Len(before.buffer) - Len(buffer')
                 = Cardinality(set[FALSE] \cap before.tag) * Cardinality(mask)
    <2>1. Types /\ Progress /\ Fetching /\ pc = "fetch" /\ tmp # {} /\ List = {}
        BY <1>1 DEF IInv, ListFull, Progress
    <2>2. Done = Began
        BY <2>1, Place DEF Done
    <2>3. tmp = mask
        BY <2>1, <2>2 DEF Progress
    <2>4. Passed = {}
        BY <2>3 DEF Passed
    <2>5. Used = Cardinality(Began) * Width
        <3>1. Cardinality(Passed) = 0
            BY <2>4, FS_EmptySet
        <3>2. PICK whole \in Nat : whole = Cardinality(Began) * Width
            BY <2>1, Place
        <3> QED
            BY <2>2, <3>1, <3>2 DEF Used
    <2>6. buffer' = buffer
        BY <1>1 DEF ListFull, TapeBitKept
    <2>7. Len(buffer) = Len(before.buffer) - Used
        <3>1. PICK bits \in Seq(BOOLEAN) : bits = before.buffer
            BY <2>1 DEF Progress
        <3>2. PICK n \in Nat : n = Used
            BY <2>1, Place
        <3>3. n =< Len(bits) /\ buffer = SubSeq(bits, n + 1, Len(bits)) /\ Len(bits) \in Nat
            BY <2>1, <3>1, <3>2, LenProperties DEF Fetching
        <3>4. Len(SubSeq(bits, n + 1, Len(bits))) = Len(bits) - n
            BY <3>3
        <3> QED
            BY <3>1, <3>2, <3>3, <3>4
    <2>8. PICK len \in Nat : len = Len(before.buffer)
        BY <2>1, LenProperties DEF Progress
    <2>9. PICK n \in Nat : n = Used
        BY <2>1, Place
    <2>10. len - (len - n) = n
        OBVIOUS
    <2> QED
        BY <2>5, <2>6, <2>7, <2>8, <2>9, <2>10 DEF Began, Width
<1> QED
    BY <1>1, Invariance, PTL DEF Spec, TapeContinues

-----------------------------------------------------------------------------
(* The refinement.                                                         *)

(* The operators of ListIOAbs are those of the invariant.                  *)
LEMMA SameOperators ==
    /\ \A S : Atomic!Cardinality(S) = Cardinality(S)
    /\ Atomic!Cells = Cells
    /\ \A S, x : Atomic!Rank(S, x) = RankIn(S, x)
    /\ \A bits, i, m : Atomic!WordAt(bits, i, m) = Word(bits, i, m)
    /\ \A w, v, m : Atomic!Merge(w, v, m) = Merge(w, v, m)
    /\ \A a, b : Atomic!MinOf(a, b) = IF a =< b THEN a ELSE b
<1>1. \A S : Atomic!Cardinality(S) = Cardinality(S)
    BY DEF Atomic!Cardinality, Cardinality
<1>2. \A S, x : Atomic!Rank(S, x) = RankIn(S, x)
    BY <1>1 DEF Atomic!Rank, RankIn
<1>3. \A bits, i, m : Atomic!WordAt(bits, i, m) = Word(bits, i, m)
    BY <1>1, <1>2 DEF Atomic!WordAt, Word
<1> QED
    BY <1>1, <1>2, <1>3 DEF Atomic!Cells, Cells, Atomic!Merge, Merge, Atomic!MinOf

(* A loop begins where ListIOAbs does.                                     *)
LEMMA InitRefines == Init => Atomic!Init
<1> SUFFICES ASSUME Init PROVE Atomic!Init
    OBVIOUS
<1>1. /\ set[FALSE] = Cells /\ tag = Cells /\ data = [c \in Cells |-> Bits]
      /\ tape \in BOOLEAN /\ buffer \in IF tape THEN Tapes ELSE {<<>>}
      /\ output = <<>> /\ err = NoError /\ pc = "idle"
    BY DEF Init, Cp!Init, Cp!Cells, Cells
<1> QED
    BY <1>1, SameOperators DEF Atomic!Init

(* An operation between two loops is one of CappAbs on the list's set.     *)
LEMMA OperateRefines ==
    ASSUME Types, Operate
    PROVE  Atomic!Operate
<1>1. /\ pc = "idle" /\ pc' = "idle" /\ err' = NoError /\ UNCHANGED <<buffer, output>>
      /\ SetsSwapped = FALSE /\ set \in [BOOLEAN -> SUBSET Cells]
    BY DEF Operate, Types
<1>2. PICK uset : uset = [s \in BOOLEAN |-> IF s THEN {} ELSE set[FALSE]]
    OBVIOUS
<1>3. PICK uset1 : uset1 = [s \in BOOLEAN |-> IF s THEN {} ELSE set'[FALSE]]
    OBVIOUS
<1>4. /\ Atomic!User!Cells = Cells /\ Cp!Cells = Cells
      /\ Atomic!User!Selected = Cp!Selected /\ Atomic!User!List = Cp!List
    BY <1>1 DEF Atomic!User!Cells, Cp!Cells, Cells, Atomic!User!Selected, Cp!Selected,
                Atomic!User!List, Cp!List
<1>5. Atomic!User!First = Cp!First
    BY <1>4 DEF Atomic!User!First, Cp!First, Atomic!User!Following, Cp!Following,
                Atomic!User!Nil, Cp!Nil
<1>6. \A w, v, m : /\ Atomic!User!Matches(w, v, m) = Cp!Matches(w, v, m)
                   /\ Atomic!User!Merge(w, v, m) = Cp!Merge(w, v, m)
    BY DEF Atomic!User!Matches, Cp!Matches, Atomic!User!Merge, Cp!Merge
<1>7. set' = set => uset1 = uset
    BY <1>2, <1>3
<1>8. CASE Cp!ListAll
    <2>1. Atomic!User!ListAll
        BY <1>1, <1>2, <1>3, <1>4, <1>7, <1>8 DEF Cp!ListAll, Cp!Retag, Atomic!User!ListAll, Atomic!User!Retag
    <2> QED
        BY <1>1, <2>1 DEF Atomic!Operate
<1>9. CASE Cp!ListNot
    <2>1. Atomic!User!ListNot
        BY <1>1, <1>2, <1>3, <1>4, <1>7, <1>9 DEF Cp!ListNot, Cp!Retag, Atomic!User!ListNot, Atomic!User!Retag
    <2> QED
        BY <1>1, <2>1 DEF Atomic!Operate
<1>10. ASSUME NEW o \in Operands, Cp!Select(o[1], o[2])
       PROVE  Atomic!Operate
    <2>1. PICK hits : hits = {c \in Cells : Cp!Matches(data[c], o[1], o[2])}
        OBVIOUS
    <2>2. set'[FALSE] = hits /\ UNCHANGED <<tag, data, SetsSwapped>>
        BY <1>1, <1>4, <1>10, <2>1 DEF Cp!Select
    <2>3. uset1 = [uset EXCEPT ![FALSE] = hits]
        BY <1>2, <1>3, <2>2
    <2>4. Atomic!User!Select(o[1], o[2])
        BY <1>1, <1>2, <1>3, <1>4, <1>6, <2>1, <2>2, <2>3 DEF Atomic!User!Select
    <2> QED
        BY <1>1, <2>4 DEF Atomic!Operate
<1>11. ASSUME NEW o \in Operands, Cp!WriteFirst(o[1], o[2])
       PROVE  Atomic!Operate
    <2>1. Atomic!User!WriteFirst(o[1], o[2])
        BY <1>1, <1>2, <1>3, <1>4, <1>5, <1>6, <1>7, <1>11
           DEF Cp!WriteFirst, Cp!Write, Atomic!User!WriteFirst, Atomic!User!Write
    <2> QED
        BY <1>1, <2>1 DEF Atomic!Operate
<1> QED
    BY <1>8, <1>9, <1>10, <1>11 DEF Operate

(* The steps of a loop before its end are not seen.                        *)
LEMMA LoopIsHidden ==
    ASSUME Types, pc # "idle" => Progress, UNCHANGED tape,
           \/ \E m \in Masks : Begin("fetch", m) \/ Begin("store", m)
           \/ TakeBit \/ WriteFirst \/ ListNext
           \/ SendBit /\ last' # ErrChannelFull
    PROVE  UNCHANGED Atomic!vars
<1>1. ASSUME NEW m \in Masks, Begin("fetch", m) \/ Begin("store", m)
      PROVE  UNCHANGED Atomic!vars
    <2>1. /\ pc = "idle" /\ pc' # "idle"
          /\ before' = [tag |-> tag, data |-> data, buffer |-> buffer, output |-> output]
          /\ UNCHANGED <<set, err>>
        BY <1>1 DEF Begin, cappVars
    <2> QED
        BY <2>1 DEF Atomic!vars
<1>2. CASE TakeBit \/ WriteFirst \/ ListNext \/ (SendBit /\ last' # ErrChannelFull)
    <2>1. pc # "idle" /\ op # "idle"
        BY <1>2 DEF TakeBit, WriteFirst, ListNext, SendBit, Progress
    <2>2. pc' # "idle" /\ UNCHANGED <<set, err, before>>
        BY <1>2, <2>1 DEF TakeBit, WriteFirst, ListNext, SendBit, cappVars, loopVars,
                          Cp!WriteFirst, Cp!Write, Cp!ListNext, Cp!Retag
    <2> QED
        BY <2>1, <2>2 DEF Atomic!vars
<1> QED
    BY <1>1, <1>2

(* With the bits of k words there are at least k words.                    *)
LEMMA EnoughWords ==
    ASSUME NEW k \in Nat, NEW w \in Nat, w > 0, NEW n \in Nat, k * w =< n
    PROVE  n \div w \in Nat /\ k =< n \div w
<1>1. PICK q \in Nat : q = n \div w
    OBVIOUS
<1>2. PICK s \in Nat : s = n % w
    OBVIOUS
<1>3. n = q * w + s /\ s < w
    <2>1. n = w * (n \div w) + (n % w) /\ n % w < w
        OBVIOUS
    <2> QED
        BY <1>1, <1>2, <2>1
<1>4. ~(q < k)
    <2>1. ASSUME q < k PROVE FALSE
        <3>1. q * w + w =< k * w /\ q * w \in Nat /\ k * w \in Nat
            BY <2>1, WordsGrow
        <3> QED
            BY <1>3, <3>1
    <2> QED
        BY <2>1
<1> QED
    BY <1>1, <1>4

(* Where a loop is when it ends: it has dealt with all cells of the list,  *)
(* or with all bits of the channel.                                        *)
LEMMA AtTheEnd ==
    ASSUME Types, Progress, pc \in {"fetch", "store"}
    PROVE  /\ Cardinality(Passed) < Width
           /\ List = {} => Done = Began /\ Used = Cardinality(Done) * Width
<1>1. tmp # {} /\ tmp \subseteq mask /\ (Done = Began => tmp = mask)
    BY DEF Progress
<1>2. Passed # mask
    BY <1>1 DEF Passed
<1>3. Cardinality(Passed) < Width
    BY <1>2, Place
<1>4. ASSUME List = {}
      PROVE  Done = Began /\ Used = Cardinality(Done) * Width
    <2>1. Done = Began
        BY <1>4, Place DEF Done
    <2>2. Cardinality(Passed) = 0
        BY <1>1, <2>1, FS_EmptySet DEF Passed
    <2>3. PICK whole \in Nat : whole = Cardinality(Done) * Width
        BY Place
    <2> QED
        BY <2>1, <2>2, <2>3 DEF Used
<1> QED
    BY <1>3, <1>4

(* The words that a fetch has written are all that fit.                    *)
LEMMA FittingIs ==
    ASSUME Types, Progress, Fetching, pc = "fetch", List = {} \/ buffer = <<>>
    PROVE  /\ Atomic!List = Began
           /\ Atomic!Fitting(before.buffer, mask) = Cardinality(Done)
           /\ Atomic!Filled(before.buffer, mask) = Done
           /\ Atomic!Refilled(before.buffer, mask) = data
           /\ buffer = <<>> => Used = Len(before.buffer)
<1>1. Atomic!List = Began
    BY DEF Atomic!List, Began
<1>2. PICK k \in Nat, w \in Nat, r \in Nat, len \in Nat :
          /\ k = Cardinality(Done) /\ w = Width /\ r = Cardinality(Passed)
          /\ len = Len(before.buffer)
    BY Place, LenProperties DEF Progress
<1>3. w > 0 /\ r < w /\ Used = k * w + r /\ Used =< len /\ k * w \in Nat /\ k =< Cardinality(Began)
    <2>1. Used =< Len(before.buffer)
        BY DEF Fetching
    <2>2. Used = Cardinality(Done) * Width + Cardinality(Passed)
        BY DEF Used
    <2>3. \A i, j \in Nat : i * j \in Nat
        OBVIOUS
    <2> QED
        BY <1>2, <2>1, <2>2, <2>3, Place, AtTheEnd
<1>4. buffer = <<>> => Used = len
    <2>1. PICK n \in Nat : n = Used
        BY Place
    <2>2. PICK bits \in Seq(BOOLEAN) : bits = before.buffer
        BY DEF Progress
    <2>3. ASSUME n < len PROVE buffer # <<>>
        <3>1. buffer = SubSeq(bits, n + 1, len) /\ Len(bits) = len
            BY <1>2, <2>1, <2>2 DEF Fetching
        <3>2. Len(buffer) = len - n
            BY <2>3, <3>1
        <3> QED
            BY <2>3, <3>2
    <2> QED
        BY <1>3, <2>1, <2>3
<1>5. PICK q : q = len \div w
    OBVIOUS
<1>6. Atomic!Fitting(before.buffer, mask) = IF Cardinality(Began) =< q THEN Cardinality(Began) ELSE q
    BY <1>1, <1>2, <1>5, SameOperators DEF Atomic!Fitting, Width
<1>7. q \in Nat /\ k =< q
    BY <1>3, <1>5, EnoughWords
<1>8. Atomic!Fitting(before.buffer, mask) = k
    <2>1. CASE Done = Began
        BY <1>2, <1>6, <1>7, <2>1
    <2>2. CASE Done # Began
        <3>1. buffer = <<>>
            BY <2>2, AtTheEnd
        <3>2. len = k * w + r
            BY <1>3, <1>4, <3>1
        <3>3. q = k
            BY <1>3, <1>5, <3>2, WholeWords
        <3>4. k # Cardinality(Began) /\ Cardinality(Began) \in Nat
            BY <1>2, <2>2, Place
        <3> QED
            BY <1>3, <1>6, <3>3, <3>4
    <2> QED
        BY <2>1, <2>2
<1>9. Atomic!Filled(before.buffer, mask) = Done
    <2>1. Began \in SUBSET Nat /\ IsFiniteSet(Began) /\ Segment(Done, Began)
        BY Place, CellsAre DEF Progress
    <2>2. \A c \in Began : c \in Done <=> RankIn(Began, c) < Cardinality(Done)
        BY <2>1, Ranks
    <2> QED
        BY <1>1, <1>2, <1>8, <2>2, SameOperators DEF Atomic!Filled, Done
<1>10. Atomic!Refilled(before.buffer, mask) = data
    <2>1. data = Received(Done)
        BY DEF Fetching
    <2> QED
        BY <1>1, <1>9, <2>1, SameOperators DEF Atomic!Refilled, Received
<1> QED
    BY <1>1, <1>2, <1>4, <1>8, <1>9, <1>10

(* What every end of a loop is for ListIOAbs.                              *)
LEMMA Returns ==
    ASSUME pc # "idle", NEW e, Return(e)
    PROVE  /\ pc' = "idle" /\ err' = e /\ UNCHANGED <<set, tag, data>>
           /\ Atomic!List = Began
BY DEF Return, cappVars, Atomic!List, Began

(* A fetch that is over is the Fetch of ListIOAbs.                         *)
LEMMA FetchRefines ==
    ASSUME Types, Progress, Fetching, ListFull \/ InputEnds, UNCHANGED tape
    PROVE  Atomic!Fetch(mask)
<1>1. /\ pc = "fetch" /\ (List = {} \/ buffer = <<>>) /\ Return(NoError) /\ UNCHANGED output
      /\ output = before.output
    BY DEF ListFull, InputEnds, Fetching
<1>2. pc # "idle" /\ pc' = "idle" /\ err' = NoError /\ UNCHANGED <<set, tag, data>>
    BY <1>1, Returns
<1>3. PICK bits \in Seq(BOOLEAN) : bits = before.buffer
    BY DEF Progress
<1>4. PICK k \in Nat, w \in Nat, len \in Nat, n \in Nat, whole \in Nat :
          /\ k = Cardinality(Done) /\ w = Cardinality(mask) /\ len = Len(bits) /\ n = Used
          /\ whole = k * w
    <2>1. \A i, j \in Nat : i * j \in Nat
        OBVIOUS
    <2> QED
        BY <1>3, <2>1, Place, LenProperties DEF Width
<1>5. /\ Atomic!List = Began /\ Atomic!Fitting(bits, mask) = k
      /\ Atomic!Filled(bits, mask) = Done /\ Atomic!Refilled(bits, mask) = data
      /\ buffer = <<>> => n = len
    BY <1>1, <1>3, <1>4, FittingIs
<1>6. buffer = SubSeq(bits, n + 1, len) /\ n =< len
    BY <1>3, <1>4 DEF Fetching
<1>7. tag = before.tag \ Done
    BY DEF Progress
<1>8. List = {} => n = whole /\ k = Cardinality(Began)
    BY <1>1, <1>4, AtTheEnd DEF Width
<1>9. List # {} => k < Cardinality(Began)
    <2>1. k =< Cardinality(Began) /\ (Done = Began <=> k = Cardinality(Began)) /\ Cardinality(Began) \in Nat
        BY <1>4, Place
    <2>2. List # {} => Done # Began
        BY Place
    <2> QED
        BY <2>1, <2>2
<1> DEFINE used == IF k < Cardinality(Began) THEN len
                   ELSE IF tape THEN whole ELSE Atomic!MinOf(whole + 1, len)
<1>10. buffer' = SubSeq(bits, used + 1, len)
    <2>1. CASE InputEnds
        <3>1. buffer = <<>> /\ buffer' = buffer /\ n = len
            BY <1>5, <2>1 DEF InputEnds
        <3>2. used = len
            <4>1. CASE List # {}
                BY <1>9, <4>1
            <4>2. CASE List = {}
                <5>1. whole = len /\ ~(k < Cardinality(Began))
                    BY <1>8, <3>1, <4>2
                <5> QED
                    BY <5>1, SameOperators
            <4> QED
                BY <4>1, <4>2
        <3> QED
            BY <1>6, <3>1, <3>2
    <2>2. CASE ListFull
        <3>1. List = {} /\ buffer # <<>> /\ (TapeBitKept \/ (~tape /\ Chan!Receive))
            BY <2>2 DEF ListFull
        <3>2. n = whole /\ ~(k < Cardinality(Began))
            BY <1>8, <3>1
        <3>3. CASE TapeBitKept
            BY <1>6, <3>2, <3>3 DEF TapeBitKept
        <3>4. CASE ~tape /\ Chan!Receive
            <4>1. buffer' = Tail(buffer)
                BY <3>4 DEF Chan!Receive
            <4>2. n < len /\ buffer' = SubSeq(bits, n + 2, len)
                BY <1>4, <1>6, <3>1, <4>1, OneLess
            <4>3. used = n + 1
                BY <3>2, <3>4, <4>2, SameOperators
            <4>4. n + 1 + 1 = n + 2
                OBVIOUS
            <4> QED
                BY <4>2, <4>3, <4>4
        <3> QED
            BY <3>1, <3>3, <3>4
    <2> QED
        BY <2>1, <2>2
<1> HIDE DEF used
<1>11. used = IF Atomic!Fitting(bits, mask) < Cardinality(Began) THEN len
              ELSE IF tape THEN Atomic!Fitting(bits, mask) * w ELSE Atomic!MinOf(whole + 1, len)
    BY <1>4, <1>5 DEF used
<1> QED
    BY <1>1, <1>2, <1>3, <1>4, <1>5, <1>7, <1>10, SameOperators DEF used, Atomic!Fetch

(* The cells that all their bits are sent of.                              *)
LEMMA SentCells ==
    ASSUME Types, Progress, pc = "store"
    PROVE  {c \in Began : (RankIn(Began, c) + 1) * Width =< Used} = Done
<1>1. Began \in SUBSET Nat /\ IsFiniteSet(Began) /\ Segment(Done, Began)
    BY Place, CellsAre DEF Progress
<1>2. PICK k \in Nat, w \in Nat, r \in Nat : k = Cardinality(Done) /\ w = Width /\ r = Cardinality(Passed)
    BY Place
<1>3. r < w /\ Used = k * w + r
    BY <1>2, AtTheEnd DEF Used
<1>4. ASSUME NEW c \in Began
      PROVE  c \in Done <=> (RankIn(Began, c) + 1) * Width =< Used
    <2>1. PICK rank \in Nat : rank = RankIn(Began, c)
        BY <1>1, Ranks
    <2>2. c \in Done <=> rank < k
        BY <1>1, <1>2, <2>1, Ranks
    <2>3. CASE rank < k
        <3>1. (rank + 1) * w = rank * w + w /\ rank * w + w =< k * w /\ rank * w \in Nat /\ k * w \in Nat
            BY <2>3, WordsGrow
        <3>2. (rank + 1) * w =< k * w + r
            BY <3>1
        <3> QED
            BY <1>2, <1>3, <2>1, <2>2, <2>3, <3>2
    <2>4. CASE ~(rank < k)
        <3>1. k < rank + 1 /\ rank + 1 \in Nat
            BY <2>4
        <3>2. k * w + w =< (rank + 1) * w /\ k * w \in Nat /\ (rank + 1) * w \in Nat
            BY <3>1, WordsGrow
        <3>3. ~((rank + 1) * w =< k * w + r)
            BY <1>3, <3>2
        <3> QED
            BY <1>2, <1>3, <2>1, <2>2, <2>4, <3>3
    <2> QED
        BY <2>3, <2>4
<1> QED
    BY <1>4 DEF Done

(* A store that is over is the Store of ListIOAbs.                         *)
LEMMA StoreRefines ==
    ASSUME Types, Progress, Storing, ListEnds \/ (SendBit /\ last' = ErrChannelFull), UNCHANGED tape
    PROVE  Atomic!Store(mask)
<1>1. /\ pc = "store" /\ UNCHANGED <<buffer, output>>
      /\ Return(IF List = {} THEN NoError ELSE ErrChannelFull)
    <2>1. CASE ListEnds
        BY <2>1 DEF ListEnds
    <2>2. CASE SendBit /\ last' = ErrChannelFull
        <3>1. pc = "store" /\ List # {} /\ Return(ErrChannelFull)
            BY <2>2 DEF SendBit
        <3>2. UNCHANGED <<buffer, output>>
            BY <2>2, SendKeeps, ChannelAssumption
        <3> QED
            BY <3>1, <3>2
    <2> QED
        BY <2>1, <2>2
<1>2. pc # "idle" /\ pc' = "idle" /\ UNCHANGED <<set, tag, data>> /\ Atomic!List = Began
    BY <1>1, Returns
<1>3. err' = IF List = {} THEN NoError ELSE ErrChannelFull
    BY <1>1, <1>2, Returns
<1>4. data = before.data /\ tag = before.tag \ Done
    BY DEF Storing, Progress
<1>5. PICK k \in Nat, l \in Nat, w \in Nat, r \in Nat, sent \in Nat, bits \in Nat :
          /\ k = Cardinality(Done) /\ l = Cardinality(Began) /\ w = Cardinality(mask)
          /\ r = Cardinality(Passed) /\ sent = Used /\ bits = l * w
    <2>1. \A i, j \in Nat : i * j \in Nat
        OBVIOUS
    <2> QED
        BY <2>1, Place DEF Width
<1>6. (List = {} => sent = bits) /\ (List # {} => sent < bits)
    <2>1. CASE List = {}
        BY <1>1, <1>5, <2>1, AtTheEnd DEF Width
    <2>2. CASE List # {}
        <3>1. k < l
            <4>1. k =< l /\ (Done = Began <=> k = l)
                BY <1>5, Place
            <4>2. Done # Began
                BY <2>2, Place
            <4> QED
                BY <4>1, <4>2
        <3>2. k * w + w =< l * w /\ k * w \in Nat /\ l * w \in Nat
            BY <3>1, WordsGrow
        <3>3. r < w /\ sent = k * w + r
            BY <1>1, <1>5, AtTheEnd DEF Used, Width
        <3> QED
            BY <1>5, <2>2, <3>2, <3>3
    <2> QED
        BY <2>1, <2>2
<1>7. \A j : Atomic!BitAt(j, mask) = BitOf(Began, before.data, mask, j)
    BY <1>2, SameOperators DEF Atomic!BitAt, BitOf
<1>8. PICK new : new = BitsSent(Began, before.data, mask, sent)
    OBVIOUS
<1>9. new = [j \in 1 .. sent |-> Atomic!BitAt(j, mask)]
    BY <1>7, <1>8 DEF BitsSent
<1>10. /\ tape => buffer = before.buffer /\ output = new
       /\ ~tape => buffer = before.buffer \o new /\ output = before.output
    BY <1>5, <1>8 DEF Storing
<1>11. sent = IF tape THEN bits ELSE Atomic!MinOf(bits, Capacity - Len(before.buffer))
    <2>1. CASE tape
        <3>1. List = {}
            BY <1>1, <2>1, SendKeeps, ChannelAssumption DEF ListEnds
        <3> QED
            BY <1>6, <2>1, <3>1
    <2>2. CASE ~tape
        <3>1. PICK n \in Nat : n = Len(before.buffer)
            BY LenProperties DEF Progress
        <3>2. Len(buffer) = n + sent
            <4>1. new \in Seq(BOOLEAN) /\ Len(new) = sent /\ before.buffer \in Seq(BOOLEAN)
                BY <1>8, BitsGrow DEF Progress
            <4> QED
                BY <1>10, <2>2, <3>1, <4>1, ConcatProperties
        <3>3. Len(buffer) =< Capacity /\ Capacity \in Nat
            BY <2>2, ChannelAssumption DEF Types
        <3>4. List # {} => Len(buffer) = Capacity
            BY SendKeeps, ChannelAssumption DEF ListEnds
        <3> QED
            BY <1>6, <2>2, <3>1, <3>2, <3>3, <3>4, SameOperators
    <2> QED
        BY <2>1, <2>2
<1>12. {c \in Began : (Atomic!Rank(Began, c) + 1) * w =< sent} = Done
    BY <1>1, <1>5, SentCells, SameOperators DEF Width
<1>13. /\ err' = IF sent < bits THEN ErrChannelFull ELSE NoError
       /\ tag' = before.tag \ Done /\ data' = before.data
    BY <1>2, <1>3, <1>4, <1>6
<1>14. IF tape THEN output' = new /\ buffer' = before.buffer
               ELSE buffer' = before.buffer \o new /\ output' = before.output
    BY <1>1, <1>10
<1> QED
    BY <1>2, <1>5, <1>9, <1>11, <1>12, <1>13, <1>14, SameOperators DEF Atomic!Store

(* Every step of the loops is one of ListIOAbs, or is hidden.              *)
LEMMA NextRefines == IInv /\ [Next]_vars => [Atomic!Next]_(Atomic!vars)
<1> SUFFICES ASSUME IInv, [Next]_vars
             PROVE  Atomic!Next \/ UNCHANGED Atomic!vars
    BY DEF Atomic!vars
<1>1. Types /\ (pc # "idle" => Progress)
    BY DEF IInv
<1>2. CASE UNCHANGED vars
    BY <1>2 DEF vars, cappVars, Atomic!vars
<1>3. CASE /\ UNCHANGED tape
           /\ \/ \E m \in Masks : Begin("fetch", m) \/ Begin("store", m)
              \/ TakeBit \/ WriteFirst \/ ListNext
              \/ SendBit /\ last' # ErrChannelFull
    BY <1>1, <1>3, LoopIsHidden
<1>4. CASE UNCHANGED tape /\ Operate
    BY <1>1, <1>4, OperateRefines DEF Atomic!Next
<1>5. CASE UNCHANGED tape /\ (ListFull \/ InputEnds)
    <2>1. pc = "fetch"
        BY <1>5 DEF ListFull, InputEnds
    <2>2. Progress /\ op = "fetch" /\ mask \in Masks \ {{}}
        BY <1>1, <2>1 DEF Progress
    <2>3. Fetching
        BY <2>1, <2>2 DEF IInv
    <2>4. Atomic!Fetch(mask)
        BY <1>1, <1>5, <2>2, <2>3, FetchRefines
    <2> QED
        BY <1>5, <2>2, <2>4 DEF Atomic!Next
<1>6. CASE UNCHANGED tape /\ (ListEnds \/ (SendBit /\ last' = ErrChannelFull))
    <2>1. pc = "store"
        BY <1>6 DEF ListEnds, SendBit
    <2>2. Progress /\ op = "store" /\ mask \in Masks \ {{}}
        BY <1>1, <2>1 DEF Progress
    <2>3. Storing
        BY <2>1, <2>2 DEF IInv
    <2>4. Atomic!Store(mask)
        BY <1>1, <1>6, <2>2, <2>3, StoreRefines
    <2> QED
        BY <1>6, <2>2, <2>4 DEF Atomic!Next
<1> QED
    BY <1>2, <1>3, <1>4, <1>5, <1>6 DEF Next, Loop

(* Every io instruction does to the cells and to the channel what ListIOAbs*)
(* says, in one step: each bit is put in its place of its cell, a cell     *)
(* leaves the list when all its bits are through, and no bit is lost but   *)
(* the one a Temporary has handed out (src/cpu/cpu.go:250-332).            *)
THEOREM ListIOIsAtomic == Spec => RefinesListIOAbs
<1>1. Init => Atomic!Init
    BY InitRefines
<1> QED
    BY <1>1, Invariance, NextRefines, PTL DEF Spec, RefinesListIOAbs, Atomic!Spec
=============================================================================
