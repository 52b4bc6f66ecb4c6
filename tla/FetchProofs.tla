---------------------------- MODULE FetchProofs -----------------------------
(***************************************************************************)
(* Proofs about module Capp, for every number of cells N, every finite set *)
(* of data bits and every family of images that Import may bring in, and   *)
(* behind them about module Fetch, for any program: these rest on the      *)
(* invariant of the CAPP, which every step of Fetch preserves because it   *)
(* is a step of the CAPP.                                                  *)
(***************************************************************************)
EXTENDS Fetch, FiniteSetTheorems, WellFoundedInduction, TLAPS

-----------------------------------------------------------------------------
(* Following.                                                              *)

(* A nonempty set of naturals has a least element.                         *)
LEMMA LeastNat ==
    ASSUME NEW S \in SUBSET Nat, S # {}
    PROVE  \E m \in S : \A n \in S : m =< n
<1>1. PICK m \in S : \A n \in S : ~(<<n, m>> \in OpToRel(<, Nat))
    BY WFMin, NatLessThanWellFounded, Zenon
<1>2. ASSUME NEW n \in S, n < m
      PROVE  <<n, m>> \in OpToRel(<, Nat)
    BY <1>2 DEF OpToRel
<1>3. \A n \in S : ~(n < m)
    BY <1>1, <1>2
<1> QED
    BY <1>3

(* Cells are positive; Nil is the position before them all.                *)
LEMMA CellsArePositive ==
    /\ Nil = 0
    /\ \A c \in Cells : c \in Nat /\ c > 0 /\ c # Nil
BY NAssumption DEF Cells, Nil

(* Sets of cells are finite.                                               *)
LEMMA CellsFinite ==
    ASSUME NEW S \in SUBSET Cells
    PROVE  IsFiniteSet(S) /\ Cardinality(S) \in Nat
<1>1. IsFiniteSet(Cells)
    BY FS_Interval, NAssumption DEF Cells
<1>2. IsFiniteSet(S)
    BY <1>1, FS_Subset
<1> QED
    BY <1>2, FS_CardinalityType

(* A nonempty set of cells has a greatest element.                         *)
LEMMA GreatestCell ==
    ASSUME NEW S \in SUBSET Cells, S # {}
    PROVE  \E m \in S : \A n \in S : n =< m
<1> DEFINE T == {N - c : c \in S}
<1>1. T \in SUBSET Nat
    <2>1. \A c \in S : N - c \in Nat
        BY NAssumption DEF Cells
    <2> QED
        BY <2>1
<1>0. T # {}
    OBVIOUS
<1>2. PICK t \in T : \A u \in T : t =< u
    BY <1>0, <1>1, LeastNat
<1>3. PICK m \in S : t = N - m
    BY <1>2
<1>4. \A n \in S : N - m =< N - n
    BY <1>2, <1>3
<1> QED
    BY <1>4, NAssumption DEF Cells

(* Following(L, c) is the least member of L after c, or Nil.               *)
LEMMA FollowingIs ==
    ASSUME NEW L \in SUBSET Cells, NEW c \in Nat
    PROVE  \/ /\ Following(L, c) = Nil
              /\ \A d \in L : d =< c
           \/ /\ Following(L, c) \in L
              /\ Following(L, c) > c
              /\ \A e \in L : e > c => Following(L, c) =< e
<1>1. CASE \A d \in L : ~(d > c)
    BY <1>1, NAssumption DEF Following, Cells
<1>2. CASE \E d \in L : d > c
    <2> DEFINE S == {d \in L : d > c}
    <2>0. S \in SUBSET Nat
        BY CellsArePositive
    <2>3. S # {}
        BY <1>2
    <2>1. \E m \in S : \A n \in S : m =< n
        BY <2>0, <2>3, LeastNat
    <2>2. \E d \in L : d > c /\ \A e \in L : e > c => d =< e
        BY <2>1
    <2> QED
        BY <1>2, <2>2 DEF Following
<1> QED
    BY <1>1, <1>2

(* Following stays within the cells of L and Nil.                          *)
LEMMA FollowingType ==
    ASSUME NEW L \in SUBSET Cells, NEW c \in Nat
    PROVE  Following(L, c) \in L \cup {Nil}
BY FollowingIs

(* Following depends only on which cells of the list come after c.         *)
LEMMA FollowingSame ==
    ASSUME NEW L \in SUBSET Cells, NEW M \in SUBSET Cells,
           NEW c \in Nat, NEW d \in Nat,
           \A e \in Cells : (e \in L /\ e > c) <=> (e \in M /\ e > d)
    PROVE  Following(L, c) = Following(M, d)
<1>1. CASE \A e \in L : e =< c
    <2>1. \A e \in L : e \in Nat /\ ~(e > c)
        BY <1>1, CellsArePositive
    <2>2. \A e \in M : e \in Nat /\ ~(e > d)
        BY <2>1, CellsArePositive
    <2>3. Following(L, c) = Nil
        BY <2>1, FollowingIs
    <2>4. Following(M, d) = Nil
        BY <2>2, FollowingIs
    <2> QED
        BY <2>3, <2>4
<1>2. CASE \E e \in L : ~(e =< c)
    <2> DEFINE l == Following(L, c)
               m == Following(M, d)
    <2>1. PICK e \in L : e > c
        BY <1>2, CellsArePositive
    <2>2. e \in M /\ e > d
        BY <2>1
    <2>3. l \in L /\ l > c /\ \A x \in L : x > c => l =< x
        BY <2>1, FollowingIs, CellsArePositive
    <2>4. m \in M /\ m > d /\ \A x \in M : x > d => m =< x
        BY <2>2, FollowingIs, CellsArePositive
    <2>5. m \in L /\ m > c /\ l \in M /\ l > d
        BY <2>3, <2>4
    <2>6. l =< m /\ m =< l
        BY <2>3, <2>4, <2>5
    <2> QED
        BY <2>5, <2>6, CellsArePositive
<1> QED
    BY <1>1, <1>2

(* The link of an unlinked first cell is the new first cell, and the cells *)
(* after it are linked as before.                                          *)
LEMMA FollowingDrop ==
    ASSUME NEW L \in SUBSET Cells, NEW f \in L, f = Following(L, Nil)
    PROVE  /\ Following(L \ {f}, Nil) = Following(L, f)
           /\ \A c \in L \ {f} : Following(L \ {f}, c) = Following(L, c)
<1> DEFINE M == L \ {f}
<1>1. M \in SUBSET Cells /\ f \in Nat /\ Nil \in Nat
    BY CellsArePositive
<1>2. \A e \in L : e \in Nat /\ e > Nil /\ f =< e
    BY <1>1, FollowingIs, CellsArePositive
<1>3. Following(M, Nil) = Following(L, f)
    <2>1. \A e \in M : e > f /\ e > Nil
        BY <1>1, <1>2
    <2>2. \A e \in L : e > f => e \in M
        BY <1>1
    <2> QED
        BY <1>1, <2>1, <2>2, FollowingSame
<1>4. \A c \in M : Following(M, c) = Following(L, c)
    <2> TAKE c \in M
    <2>1. c \in Nat /\ f =< c
        BY <1>1, <1>2
    <2> QED
        BY <1>1, <2>1, FollowingSame, CellsArePositive
<1> QED
    BY <1>3, <1>4

-----------------------------------------------------------------------------
(* The walk along the list.                                                *)

(* When the list is coherent, the walk visits exactly the active cells.    *)
LEMMA CoherentChain ==
    ASSUME TypeOK, ListCoherent
    PROVE  Chain = Active
<1> DEFINE Closed(S) == /\ firstCell \in Cells => firstCell \in S
                        /\ \A c \in S : next[c] \in Cells => next[c] \in S
<1>1. /\ Active \in SUBSET Cells
      /\ Nil \in Nat
      /\ \A c \in Cells : c \in Nat /\ c > Nil /\ c # Nil
    BY CellsArePositive DEF TypeOK, Active, Selected
<1>2. Closed(Active)
    <2>1. firstCell \in Active \cup {Nil}
        BY <1>1, FollowingType DEF ListCoherent
    <2>2. \A c \in Active : next[c] \in Active \cup {Nil}
        BY <1>1, FollowingType DEF ListCoherent
    <2> QED
        BY <1>1, <2>1, <2>2
<1>3. ASSUME NEW S \in SUBSET Cells, Closed(S), NEW x \in Active, x \notin S
      PROVE  FALSE
    <2> DEFINE Missed == Active \ S
    <2>1. Missed \in SUBSET Nat /\ Missed # {}
        BY <1>1, <1>3
    <2>2. PICK m \in Missed : \A n \in Missed : m =< n
        BY <2>1, LeastNat
    <2> DEFINE Before == {c \in Active : c < m}
    <2>3. CASE Before = {}
        <3>1. firstCell = m
            BY <1>1, <2>2, <2>3, FollowingIs DEF ListCoherent
        <3> QED
            BY <1>1, <1>3, <3>1
    <2>4. CASE Before # {}
        <3>1. PICK p \in Before : \A n \in Before : n =< p
            BY <1>1, <2>4, GreatestCell
        <3>2. p \in Active /\ p \in S /\ p < m
            BY <1>1, <2>2, <3>1
        <3>3. \A e \in Active : e > p => m =< e
            BY <1>1, <2>2, <3>1
        <3>4. Following(Active, p) = m
            BY <1>1, <2>2, <3>2, <3>3, FollowingIs
        <3>5. next[p] = m
            BY <3>2, <3>4 DEF ListCoherent
        <3> QED
            BY <1>1, <1>3, <3>2, <3>5
    <2> QED
        BY <2>3, <2>4
<1> QED
    BY <1>1, <1>2, <1>3 DEF Chain

-----------------------------------------------------------------------------
(* Type correctness and coherence of the list.                             *)

IInv == TypeOK /\ ListCoherent

(* A rebuild leaves a well-typed, coherent list, whatever list it found.   *)
LEMMA RelinkCoherent ==
    ASSUME Active' \in SUBSET Cells, Relink
    PROVE  /\ ListCoherent'
           /\ next' \in [Cells -> Cells \cup {Nil}]
           /\ firstCell' \in Cells \cup {Nil}
           /\ count' \in Nat
<1>1. IsFiniteSet(Active') /\ Cardinality(Active') \in Nat
    BY CellsFinite
<1>2. \A c \in Cells \cup {Nil} : Following(Active', c) \in Cells \cup {Nil}
    BY FollowingType, CellsArePositive
<1>3. ListCoherent'
    BY DEF Relink, ListCoherent
<1> QED
    BY <1>1, <1>2, <1>3, CellsArePositive DEF Relink

(* The flips that evaluateAll and the writes count are numbers.            *)
LEMMA DataFlipsType ==
    ASSUME NEW L \in SUBSET Cells
    PROVE  DataFlips(L) \in Nat
<1>1. IsFiniteSet(L)
    BY CellsFinite
<1>2. IsFiniteSet(L \X Bits)
    BY <1>1, BitsAssumption, FS_Product
<1>3. {x \in L \X Bits : x[2] \in SymDiff(data[x[1]], data'[x[1]])} \in SUBSET (L \X Bits)
    OBVIOUS
<1> QED
    BY <1>2, <1>3, FS_Subset, FS_CardinalityType DEF DataFlips

(* The count of the cells that one set has and the other has not is one.  *)
LEMMA SymDiffCardinality ==
    ASSUME NEW S \in SUBSET Cells, NEW T \in SUBSET Cells
    PROVE  Cardinality(SymDiff(S, T)) \in Nat
<1>1. SymDiff(S, T) \in SUBSET Cells
    BY DEF SymDiff
<1> QED
    BY <1>1, CellsFinite

(* So an operation that sets the bits and ends in evaluateAll establishes  *)
(* the invariant.                                                          *)
LEMMA EvaluateAllIInv ==
    ASSUME TypeOK, evaluateAll,
           set' \in [BOOLEAN -> SUBSET Cells], tag' \in SUBSET Cells,
           data' \in [Cells -> Words], SetsSwapped' \in BOOLEAN
    PROVE  IInv'
<1>1. Selected' \in SUBSET Cells /\ set[SetsSwapped'] \in SUBSET Cells
    BY DEF TypeOK, Selected
<1>2. Active' \in SUBSET Cells
    BY DEF Active
<1>3. flipped' \in Nat
    BY <1>1, SymDiffCardinality, DataFlipsType DEF TypeOK, evaluateAll
<1> QED
    BY <1>2, <1>3, RelinkCoherent DEF IInv, TypeOK, evaluateAll

(* A masked write to some cells preserves it: the bits it writes are in no *)
(* way part of the list.                                                   *)
LEMMA WriteCellsIInv ==
    ASSUME IInv, NEW L \in SUBSET Cells, NEW match \in Words, NEW mask \in Words,
           WriteCells(L, match, mask)
    PROVE  IInv'
<1>1. data' \in [Cells -> Words]
    BY DEF IInv, TypeOK, WriteCells, Merge, Words
<1>2. flipped' \in Nat
    BY DataFlipsType DEF WriteCells
<1>3. Active' = Active
    BY DEF WriteCells, Active, Selected
<1> QED
    BY <1>1, <1>2, <1>3 DEF IInv, TypeOK, ListCoherent, WriteCells, listVars

(* LIST_NEXT unlinks the first cell and nothing else.                      *)
LEMMA ListNextIInv ==
    ASSUME IInv, LIST_NEXT
    PROVE  IInv'
<1> USE DEF IInv, TypeOK, ListCoherent
<1>1. Active \in SUBSET Cells
    BY DEF Active, Selected
<1>2. CASE firstCell = Nil
    <2>1. UNCHANGED <<set, tag, data, SetsSwapped, next, firstCell, count>> /\ flipped' = 0
        BY <1>2 DEF LIST_NEXT, bitVars, listVars
    <2>2. Active' = Active
        BY <2>1 DEF Active, Selected
    <2> QED
        BY <2>1, <2>2
<1>3. CASE firstCell # Nil
    <2>1. firstCell \in Active
        BY <1>1, <1>3, FollowingType, CellsArePositive
    <2>2. Active' = Active \ {firstCell}
        BY <1>3 DEF LIST_NEXT, Active, Selected
    <2>3. firstCell' = Following(Active', Nil)
        BY <1>1, <1>3, <2>1, <2>2, FollowingDrop DEF LIST_NEXT
    <2>4. \A c \in Active' : next'[c] = Following(Active', c)
        BY <1>1, <1>3, <2>1, <2>2, FollowingDrop DEF LIST_NEXT
    <2>5. count' = Cardinality(Active') /\ count' \in Nat
        <3>1. Active' \in SUBSET Cells
            BY <1>1, <2>2
        <3> QED
            BY <1>1, <1>3, <2>1, <2>2, <3>1, CellsFinite, FS_RemoveElement DEF LIST_NEXT
    <2>6. TypeOK'
        BY <1>3, <2>5 DEF LIST_NEXT
    <2> QED
        BY <2>3, <2>4, <2>5, <2>6
<1> QED
    BY <1>2, <1>3

(* The CAPP that NewCapp makes is coherent.                                *)
LEMMA InitIInv == Init => IInv
<1> SUFFICES ASSUME Init PROVE IInv
    OBVIOUS
<1>1. Active = Cells
    BY DEF Init, Active, Selected
<1>2. \A c \in Cells \cup {Nil} : Following(Cells, c) \in Cells \cup {Nil}
    BY FollowingType, CellsArePositive
<1>3. Cardinality(Cells) \in Nat
    BY CellsFinite
<1>4. TypeOK
    BY <1>2, <1>3 DEF Init, TypeOK, Words
<1> QED
    BY <1>1, <1>4 DEF Init, IInv, ListCoherent

(* Every operation leaves it coherent.                                     *)
LEMMA NextIInv == IInv /\ [Next]_vars => IInv'
<1> SUFFICES ASSUME IInv, [Next]_vars PROVE IInv'
    OBVIOUS
<1> USE DEF IInv
<1>0. Selected \in SUBSET Cells
    BY DEF TypeOK, Selected
<1>1. CASE SET_SWAP
    BY <1>1, EvaluateAllIInv DEF SET_SWAP, TypeOK
<1>2. CASE LIST_ALL
    BY <1>0, <1>2, EvaluateAllIInv DEF LIST_ALL, TypeOK
<1>3. CASE LIST_NOT
    BY <1>0, <1>3, EvaluateAllIInv DEF LIST_NOT, TypeOK, SymDiff
<1>4. CASE LIST_NEXT
    BY <1>4, ListNextIInv
<1>5. CASE Reset
    <2>1. set' \in [BOOLEAN -> SUBSET Cells] /\ Active' \in SUBSET Cells
        BY <1>5 DEF Reset, TypeOK, Active, Selected
    <2> QED
        BY <1>5, <2>1, RelinkCoherent DEF Reset, TypeOK, Words
<1>6. ASSUME NEW image \in Images, Import(image)
      PROVE  IInv'
    <2>1. /\ set' \in [BOOLEAN -> SUBSET Cells]
          /\ tag' \in SUBSET Cells
          /\ data' \in [Cells -> Words]
          /\ SetsSwapped' \in BOOLEAN
        BY <1>6, ImagesAssumption DEF Import, TypeOK
    <2>2. Active' \in SUBSET Cells
        BY <2>1 DEF Active, Selected
    <2> QED
        BY <1>6, <2>1, <2>2, RelinkCoherent DEF Import, TypeOK
<1>7. ASSUME NEW match \in Words, NEW mask \in Words, SET_OF(match, mask)
      PROVE  IInv'
    BY <1>7, EvaluateAllIInv DEF SET_OF, TypeOK
<1>8. ASSUME NEW match \in Words, NEW mask \in Words, LIST_ONLY(match, mask)
      PROVE  IInv'
    BY <1>8, EvaluateAllIInv DEF LIST_ONLY, TypeOK
<1>9. ASSUME NEW match \in Words, NEW mask \in Words, WRITE_LIST(match, mask)
      PROVE  IInv'
    <2>1. Chain \in SUBSET Cells
        BY DEF Chain
    <2> QED
        BY <1>9, <2>1, WriteCellsIInv DEF WRITE_LIST
<1>10. ASSUME NEW match \in Words, NEW mask \in Words, WRITE_FIRST(match, mask)
       PROVE  IInv'
    <2>1. {firstCell} \ {Nil} \in SUBSET Cells
        BY DEF TypeOK
    <2> QED
        BY <1>10, <2>1, WriteCellsIInv DEF WRITE_FIRST
<1>11. CASE UNCHANGED vars
    BY <1>11 DEF vars, bitVars, listVars, TypeOK, ListCoherent, Active, Selected
<1> QED
    BY <1>1, <1>2, <1>3, <1>4, <1>5, <1>6, <1>7, <1>8, <1>9, <1>10, <1>11 DEF Next

(* Every reachable state has well-typed fields (the uint count never goes  *)
(* below zero), and a cached list that is the set of active cells in cell  *)
(* order, whichever operations led there.                                  *)
THEOREM ListInvariant == Spec => [](TypeOK /\ ListCoherent)
<1>1. Spec => []IInv
    BY InitIInv, NextIInv, PTL DEF Spec
<1> QED
    BY <1>1 DEF IInv

(* Every field keeps its type under every operation; of these the number  *)
(* of cells in the list is what could go wrong: it is a uint that only     *)
(* LIST_NEXT takes one from (src/capp/capp.go:164-176).                    *)
THEOREM FieldsHaveTypes == Spec => []TypeOK
<1>1. IInv => TypeOK
    BY DEF IInv
<1> QED
    BY <1>1, InitIInv, NextIInv, PTL DEF Spec

(* Every reachable list, walked by List() or WRITE_LIST, visits the active *)
(* cells and no other.                                                     *)
THEOREM WalkVisitsActive == Spec => []ChainIsActive
<1>1. IInv => ChainIsActive
    BY CoherentChain DEF IInv, ChainIsActive
<1> QED
    BY <1>1, InitIInv, NextIInv, PTL DEF Spec

-----------------------------------------------------------------------------
(* The bits flipped.                                                       *)

(* The bits of the two sets that the step flips.                           *)
SetFlips == {x \in BOOLEAN \X Cells : x[2] \in SymDiff(set[x[1]], set'[x[1]])}

(* All the bits that the step flips.                                       *)
Flips == Cardinality(SetFlips) + Cardinality(SymDiff(tag, tag')) + DataFlips(Cells)

(* When a step changes one of the two sets at most, the flips of both are  *)
(* the flips of that one.                                                  *)
LEMMA OneSetFlips ==
    ASSUME TypeOK, set' \in [BOOLEAN -> SUBSET Cells],
           NEW s \in BOOLEAN, \A t \in BOOLEAN \ {s} : set'[t] = set[t]
    PROVE  Cardinality(SetFlips) = Cardinality(SymDiff(set[s], set'[s]))
<1> DEFINE D == SymDiff(set[s], set'[s])
<1>1. D \in SUBSET Cells
    BY DEF TypeOK, SymDiff
<1>2. SetFlips = {s} \X D
    <2>1. \A t \in BOOLEAN, c \in Cells : c \in SymDiff(set[t], set'[t]) <=> t = s /\ c \in D
        BY DEF SymDiff
    <2> QED
        BY <1>1, <2>1 DEF SetFlips
<1>3. /\ IsFiniteSet({s}) /\ Cardinality({s}) = 1
      /\ IsFiniteSet(D) /\ Cardinality(D) \in Nat
    BY <1>1, CellsFinite, FS_Singleton
<1>4. Cardinality({s} \X D) = Cardinality({s}) * Cardinality(D)
    BY <1>3, FS_Product
<1> QED
    BY <1>2, <1>3, <1>4

(* A set that has not changed has no flips.                                *)
LEMMA NoFlips == \A S : SymDiff(S, S) = {} /\ Cardinality(SymDiff(S, S)) = 0
BY FS_EmptySet DEF SymDiff

(* evaluateAll looks at one of the sets, and misses nothing of the other   *)
(* when no step changes the one that is not active.                        *)
LEMMA EvaluateAllFlips ==
    ASSUME TypeOK, evaluateAll, set' \in [BOOLEAN -> SUBSET Cells], SetsSwapped' \in BOOLEAN,
           set'[~SetsSwapped'] = set[~SetsSwapped']
    PROVE  flipped' = Flips
<1>1. Selected' = set'[SetsSwapped']
    BY DEF Selected
<1>2. \A t \in BOOLEAN \ {SetsSwapped'} : set'[t] = set[t]
    <2>1. \A t \in BOOLEAN \ {SetsSwapped'} : t = ~SetsSwapped'
        BY Zenon
    <2> QED
        BY <2>1
<1>3. Cardinality(SetFlips) = Cardinality(SymDiff(set[SetsSwapped'], set'[SetsSwapped']))
    BY <1>2, OneSetFlips
<1> QED
    BY <1>1, <1>3 DEF evaluateAll, Flips

(* A step that changes no set flips bits of the tags and the data only.    *)
LEMMA SameSetsFlips ==
    ASSUME TypeOK, set' = set, tag' \in SUBSET Cells
    PROVE  Flips = Cardinality(SymDiff(tag, tag')) + DataFlips(Cells)
<1>1. Cardinality(SetFlips) = 0
    <2>1. Cardinality(SetFlips) = Cardinality(SymDiff(set[TRUE], set'[TRUE]))
        BY OneSetFlips DEF TypeOK
    <2> QED
        BY <2>1, NoFlips
<1>2. Cardinality(SymDiff(tag, tag')) \in Nat
    BY SymDiffCardinality DEF TypeOK
<1>3. DataFlips(Cells) \in Nat
    BY DataFlipsType
<1> QED
    BY <1>1, <1>2, <1>3 DEF Flips

(* LIST_NEXT looks at no bit: it counts the tag of the cell it unlinks.    *)
LEMMA ListNextFlips ==
    ASSUME IInv, LIST_NEXT
    PROVE  flipped' = Flips
<1>1. set' = set /\ data' = data
    BY DEF LIST_NEXT, bitVars
<1>2. DataFlips(Cells) = 0
    <2>1. {x \in Cells \X Bits : x[2] \in SymDiff(data[x[1]], data'[x[1]])} = {}
        BY <1>1, NoFlips
    <2> QED
        BY <2>1, FS_EmptySet DEF DataFlips
<1>3. CASE firstCell = Nil
    BY <1>1, <1>2, <1>3, SameSetsFlips, NoFlips DEF LIST_NEXT, bitVars, IInv, TypeOK
<1>4. CASE firstCell # Nil
    <2>1. firstCell \in Active
        BY <1>4, FollowingType, CellsArePositive DEF IInv, TypeOK, ListCoherent, Active, Selected
    <2>2. SymDiff(tag, tag') = {firstCell}
        BY <1>4, <2>1 DEF LIST_NEXT, SymDiff, Active
    <2>3. Cardinality(SymDiff(tag, tag')) = 1
        BY <2>2, FS_Singleton
    <2> QED
        BY <1>1, <1>2, <1>4, <2>3, SameSetsFlips DEF LIST_NEXT, IInv, TypeOK
<1> QED
    BY <1>3, <1>4

(* A write counts the flips of the cells it writes to; there are no more.  *)
LEMMA WriteCellsFlips ==
    ASSUME TypeOK, NEW L \in SUBSET Cells, NEW match, NEW mask, WriteCells(L, match, mask)
    PROVE  flipped' = Flips
<1>1. set' = set /\ tag' = tag /\ \A c \in Cells \ L : data'[c] = data[c]
    BY DEF WriteCells
<1>2. DataFlips(L) = DataFlips(Cells)
    <2>1. \A c \in Cells \ L : SymDiff(data[c], data'[c]) = {}
        BY <1>1, NoFlips
    <2>2. {x \in L \X Bits : x[2] \in SymDiff(data[x[1]], data'[x[1]])}
          = {x \in Cells \X Bits : x[2] \in SymDiff(data[x[1]], data'[x[1]])}
        BY <2>1
    <2> QED
        BY <2>2 DEF DataFlips
<1>3. DataFlips(Cells) \in Nat
    BY DataFlipsType
<1> QED
    BY <1>1, <1>2, <1>3, SameSetsFlips, NoFlips DEF WriteCells, TypeOK

(* Every operation but Reset and Import counts each bit it flips once: of  *)
(* the two sets, the tags and the data of all the cells, whichever of them *)
(* it has looked at (src/capp/capp.go:92-127, 164-212).                    *)
THEOREM EveryFlipCounts == Spec => FlipsCounted
<1>1. IInv /\ [Next]_vars
      => [flipped' = Flips \/ Reset \/ \E image \in Images : Import(image)]_vars
    <2> SUFFICES ASSUME IInv, Next
                 PROVE  flipped' = Flips \/ Reset \/ \E image \in Images : Import(image)
        OBVIOUS
    <2> USE DEF IInv
    <2>1. ASSUME evaluateAll, set' = set, SetsSwapped' \in BOOLEAN
          PROVE  flipped' = Flips
        BY <2>1, EvaluateAllFlips DEF TypeOK
    <2>2. CASE SET_SWAP
        BY <2>1, <2>2 DEF SET_SWAP, TypeOK
    <2>3. CASE LIST_ALL
        BY <2>1, <2>3 DEF LIST_ALL, TypeOK
    <2>4. CASE LIST_NOT
        BY <2>1, <2>4 DEF LIST_NOT, TypeOK
    <2>5. CASE LIST_NEXT
        BY <2>5, ListNextFlips
    <2>6. ASSUME NEW match \in Words, NEW mask \in Words, SET_OF(match, mask)
          PROVE  flipped' = Flips
        <3>1. /\ evaluateAll /\ SetsSwapped' = SetsSwapped
              /\ set' = [set EXCEPT ![SetsSwapped] = {c \in Cells : Matches(data[c], match, mask)}]
            BY <2>6 DEF SET_OF
        <3>2. set' \in [BOOLEAN -> SUBSET Cells] /\ set'[~SetsSwapped] = set[~SetsSwapped]
            BY <3>1 DEF TypeOK
        <3> QED
            BY <3>1, <3>2, EvaluateAllFlips DEF TypeOK
    <2>7. ASSUME NEW match \in Words, NEW mask \in Words, LIST_ONLY(match, mask)
          PROVE  flipped' = Flips
        BY <2>1, <2>7 DEF LIST_ONLY, TypeOK
    <2>8. ASSUME NEW match \in Words, NEW mask \in Words, WRITE_LIST(match, mask)
          PROVE  flipped' = Flips
        <3>1. Chain \in SUBSET Cells
            BY DEF Chain
        <3> QED
            BY <2>8, <3>1, WriteCellsFlips DEF WRITE_LIST
    <2>9. ASSUME NEW match \in Words, NEW mask \in Words, WRITE_FIRST(match, mask)
          PROVE  flipped' = Flips
        <3>1. {firstCell} \ {Nil} \in SUBSET Cells
            BY DEF TypeOK
        <3> QED
            BY <2>9, <3>1, WriteCellsFlips DEF WRITE_FIRST
    <2> QED
        BY <2>2, <2>3, <2>4, <2>5, <2>6, <2>7, <2>8, <2>9 DEF Next
<1>2. Spec => []IInv
    BY InitIInv, NextIInv, PTL DEF Spec
<1> QED
    BY <1>1, <1>2, PTL DEF Spec, FlipsCounted, Flips, SetFlips

-----------------------------------------------------------------------------
(* The CAPP implements CappAbs.                                            *)

(* In a coherent state firstCell and the walk are the first and all of the *)
(* cells CappAbs lists.                                                    *)
LEMMA CoherentIsAbstract ==
    ASSUME IInv
    PROVE  Abs!First = firstCell /\ Abs!List = Chain
BY CoherentChain DEF IInv, ListCoherent, Abs!First, Abs!List, Abs!Selected, Abs!Following,
   Abs!Nil, Nil, Active, Selected, Following

(* NewCapp makes the CAPP that CappAbs begins with.                        *)
LEMMA InitRefines == Init => Abs!Init
BY DEF Init, Abs!Init, Abs!Cells, Cells

(* Every operation, on a coherent list, is that of CappAbs.                *)
LEMMA NextRefines == IInv /\ [Next]_vars => [Abs!Next]_(Abs!vars)
<1> SUFFICES ASSUME IInv, [Next]_vars PROVE [Abs!Next]_(Abs!vars)
    OBVIOUS
<1>0. /\ Abs!First = firstCell /\ Abs!List = Chain
      /\ Abs!Selected = Selected /\ Abs!Cells = Cells /\ Abs!Words = Words
      /\ \A w, match, mask : /\ Abs!Matches(w, match, mask) = Matches(w, match, mask)
                             /\ Abs!Merge(w, match, mask) = Merge(w, match, mask)
    BY CoherentIsAbstract DEF Abs!Selected, Selected, Abs!Cells, Cells, Abs!Words, Words,
       Abs!Matches, Matches, Abs!Merge, Merge
<1>1. CASE SET_SWAP
    BY <1>1 DEF SET_SWAP, Abs!Next, Abs!Swap
<1>2. CASE LIST_ALL
    BY <1>0, <1>2 DEF LIST_ALL, Abs!Next, Abs!ListAll, Abs!Retag
<1>3. CASE LIST_NOT
    BY <1>0, <1>3 DEF LIST_NOT, SymDiff, Abs!Next, Abs!ListNot, Abs!Retag
<1>4. CASE LIST_NEXT
    <2>1. tag' = tag \ {firstCell} /\ UNCHANGED <<set, data, SetsSwapped>>
        BY <1>4, CellsArePositive DEF LIST_NEXT, bitVars, IInv, TypeOK
    <2> QED
        BY <1>0, <2>1 DEF Abs!Next, Abs!ListNext, Abs!Retag
<1>5. CASE Reset
    BY <1>0, <1>5 DEF Reset, Abs!Next, Abs!Reset
<1>6. ASSUME NEW image \in Images, Import(image)
      PROVE  Abs!Next
    BY <1>6 DEF Import, Abs!Next, Abs!Import
<1>7. ASSUME NEW match \in Words, NEW mask \in Words, SET_OF(match, mask)
      PROVE  Abs!Next
    <2>1. Abs!Select(match, mask)
        BY <1>0, <1>7 DEF SET_OF, Abs!Select
    <2> QED
        BY <1>0, <2>1 DEF Abs!Next
<1>8. ASSUME NEW match \in Words, NEW mask \in Words, LIST_ONLY(match, mask)
      PROVE  Abs!Next
    <2>1. tag' = tag \ {c \in Active : ~Matches(data[c], match, mask)}
        BY <1>8 DEF LIST_ONLY, Active
    <2>2. Abs!ListOnly(match, mask)
        BY <1>0, <1>8, <2>1 DEF LIST_ONLY, Active, Abs!ListOnly, Abs!Retag, Abs!List
    <2> QED
        BY <1>0, <2>2 DEF Abs!Next
<1>9. ASSUME NEW match \in Words, NEW mask \in Words, WRITE_LIST(match, mask)
      PROVE  Abs!Next
    <2>1. Abs!WriteList(match, mask)
        BY <1>0, <1>9 DEF WRITE_LIST, WriteCells, Abs!WriteList, Abs!Write
    <2> QED
        BY <1>0, <2>1 DEF Abs!Next
<1>10. ASSUME NEW match \in Words, NEW mask \in Words, WRITE_FIRST(match, mask)
       PROVE  Abs!Next
    <2>1. \A c \in Cells : c \in {firstCell} \ {Nil} <=> c \in {firstCell}
        BY CellsArePositive
    <2>2. Abs!WriteFirst(match, mask)
        BY <1>0, <1>10, <2>1 DEF WRITE_FIRST, WriteCells, Abs!WriteFirst, Abs!Write
    <2> QED
        BY <1>0, <2>2 DEF Abs!Next
<1>11. CASE UNCHANGED vars
    BY <1>11 DEF vars, bitVars, Abs!vars
<1> QED
    BY <1>1, <1>2, <1>3, <1>4, <1>5, <1>6, <1>7, <1>8, <1>9, <1>10, <1>11 DEF Next

(* The operations of the code, list and all, do to the cells what the CAPP *)
(* promises.                                                               *)
THEOREM CappImplementsCappAbs == Spec => RefinesCappAbs
<1>1. Spec => []IInv
    BY InitIInv, NextIInv, PTL DEF Spec
<1> QED
    BY <1>1, InitRefines, NextRefines, PTL DEF Spec, RefinesCappAbs, Abs!Spec

-----------------------------------------------------------------------------
(* The steps of a fetch.                                                   *)

(* The operations of a fetch, and those of a program, are CAPP operations. *)
LEMMA FetchStepsAreCappSteps ==
    ASSUME key \in Words, [FetchNext]_allVars
    PROVE  [Next]_vars
<1>1. CodeMask \in Words
    BY CodeMaskAssumption
<1>2. CASE \E k \in Keys : Begin(k)
    BY <1>2 DEF Begin, Next
<1>3. CASE Find
    BY <1>1, <1>3 DEF Find, Next
<1>4. CASE Tag
    BY <1>4 DEF Tag, Next
<1>5. CASE Collect
    BY <1>5 DEF Collect, Next
<1>6. CASE Return
    BY <1>6 DEF Return, Next
<1>7. CASE Operate
    <2>1. ASSUME NEW op \in Operands
          PROVE  op[1] \in Words /\ op[2] \in Words
        BY OperandsAssumption
    <2> QED
        BY <1>7, <2>1 DEF Operate, Next
<1>8. CASE UNCHANGED allVars
    BY <1>8 DEF allVars
<1> QED
    BY <1>2, <1>3, <1>4, <1>5, <1>6, <1>7, <1>8 DEF FetchNext, FetchCode

-----------------------------------------------------------------------------
(* The invariant of a fetch under way.                                     *)

(* Outside FetchCode the program's set is active.  Inside it the CPU's is; *)
(* the program's set stands as the program left it, and so do the tags of  *)
(* the cells that are not the instruction's.                               *)
FetchInv ==
    /\ pc \in {"idle", "swapped", "selected", "listed"}
    /\ key \in Keys
    /\ pc = "idle" => ~SetsSwapped
    /\ pc # "idle" => /\ SetsSwapped
                      /\ set[FALSE] = before.set
                      /\ before.tag \in SUBSET Cells
    /\ pc \in {"swapped", "selected"} => tag = before.tag
    /\ pc \in {"selected", "listed"} => set[TRUE] = CodeCells
    /\ pc = "listed" => tag \ CodeCells = before.tag \ CodeCells

(* A key can be an operand of SET_OF.                                      *)
LEMMA KeysAreWords == ASSUME NEW k \in Keys PROVE k \in Words
BY KeysAssumption, CodeMaskAssumption DEF Words

(* Before the first fetch nothing is swapped.                              *)
LEMMA FetchInitInv == FetchInit => IInv /\ FetchInv
<1> SUFFICES ASSUME FetchInit PROVE IInv /\ FetchInv
    OBVIOUS
<1>1. key \in Keys
    BY KeysAssumption DEF FetchInit
<1> QED
    BY <1>1, InitIInv DEF FetchInit, FetchInv, Init

(* Every step of a fetch and of a program keeps the two sets apart.        *)
LEMMA FetchNextInv == IInv /\ FetchInv /\ [FetchNext]_allVars => IInv' /\ FetchInv'
<1> SUFFICES ASSUME IInv, FetchInv, [FetchNext]_allVars PROVE IInv' /\ FetchInv'
    OBVIOUS
<1>1. key \in Words
    BY KeysAreWords DEF FetchInv
<1>2. IInv'
    BY <1>1, FetchStepsAreCappSteps, NextIInv
<1> SUFFICES FetchInv'
    BY <1>2
<1> USE DEF IInv, TypeOK, FetchInv
<1>3. ASSUME NEW k \in Keys, Begin(k)
      PROVE  FetchInv'
    BY <1>3 DEF Begin, SET_SWAP, UserState
<1>4. CASE Find
    BY <1>4 DEF Find, SET_OF, CodeCells
<1>5. CASE Tag
    BY <1>5 DEF Tag, LIST_ALL, CodeCells, Selected
<1>6. CASE Collect
    <2>1. Active = CodeCells \cap tag
        BY <1>6 DEF Collect, Active, Selected
    <2>2. firstCell \in Active \/ firstCell = Nil
        BY <2>1, FollowingType, CellsArePositive DEF ListCoherent, CodeCells
    <2>3. /\ UNCHANGED <<set, data, SetsSwapped, pc, key, before>>
          /\ tag' = tag \ {firstCell} \/ tag' = tag
        BY <1>6 DEF Collect, LIST_NEXT, bitVars, listVars
    <2>4. tag' \ CodeCells = tag \ CodeCells
        BY <2>1, <2>2, <2>3, CellsArePositive
    <2>5. CodeCells' = CodeCells
        BY <2>3 DEF CodeCells
    <2>6. pc = "listed"
        BY <1>6 DEF Collect
    <2> QED
        BY <2>3, <2>4, <2>5, <2>6
<1>7. CASE Return
    BY <1>7 DEF Return, SET_SWAP, CodeCells
<1>8. CASE Operate
    <2>1. UNCHANGED <<SetsSwapped, pc, key, before>> /\ pc = "idle"
        BY <1>8 DEF Operate, LIST_ALL, LIST_NOT, LIST_NEXT, Reset, SET_OF, LIST_ONLY,
           WRITE_LIST, WRITE_FIRST, WriteCells, bitVars, listVars
    <2> QED
        BY <2>1
<1>9. CASE UNCHANGED allVars
    BY <1>9 DEF allVars, vars, bitVars, fetchVars, CodeCells
<1> QED
    BY <1>3, <1>4, <1>5, <1>6, <1>7, <1>8, <1>9 DEF FetchNext, FetchCode

(* Whatever the program does between instructions, and whether or not the  *)
(* fetch finds one, the second set is active exactly during a fetch, which *)
(* leaves the program's set alone.                                         *)
THEOREM FetchSwapsBalance == FetchSpec => []SwapBalanced
<1>1. IInv /\ FetchInv => SwapBalanced
    BY DEF FetchInv, SwapBalanced
<1> QED
    BY <1>1, FetchInitInv, FetchNextInv, PTL DEF FetchSpec

(* A program whose set holds none of the instruction's cells finds its     *)
(* list, after the fetch, as it left it: the same cells in the same order. *)
THEOREM DisjointListIsKept == FetchSpec => DisjointListSurvives
<1>1. IInv => ChainIsActive
    BY CoherentChain DEF IInv, ChainIsActive
<1> DEFINE Kept == Return /\ before.set \cap CodeCells = {}
                   => /\ Chain' = before.set \cap before.tag
                      /\ count' = Cardinality(before.set \cap before.tag)
<1>2. ASSUME IInv, FetchInv, IInv', ChainIsActive'
      PROVE  Kept
    <2> SUFFICES ASSUME Return, before.set \cap CodeCells = {}
                 PROVE  Active' = before.set \cap before.tag
        BY <1>2 DEF ChainIsActive, IInv, ListCoherent
    <2>1. Active' = set[FALSE] \cap tag
        BY <1>2 DEF Return, SET_SWAP, Active, Selected, FetchInv
    <2>2. set[FALSE] = before.set /\ tag \ CodeCells = before.tag \ CodeCells
        BY <1>2 DEF Return, FetchInv
    <2> QED
        BY <2>1, <2>2
<1>3. IInv /\ FetchInv /\ IInv' /\ ChainIsActive' => [Kept]_allVars
    BY <1>2
<1> QED
    BY <1>1, <1>3, FetchInitInv, FetchNextInv, PTL DEF FetchSpec, DisjointListSurvives

-----------------------------------------------------------------------------
(* A fetch is one step of FetchAbs.                                        *)

(* Cardinality means the same in FetchAbs.                                 *)
LEMMA SameCardinality == \A S : Atomic!Cardinality(S) = Cardinality(S)
BY DEF Atomic!Cardinality, Cardinality

(* A cell of C is determined by how many cells of C come before it.        *)
LEMMA NthIs ==
    ASSUME NEW C \in SUBSET Cells, NEW c \in C, NEW i \in Nat,
           Cardinality({d \in C : d < c}) = i - 1
    PROVE  Atomic!Nth(C, i) = c
<1> DEFINE Below(x) == {d \in C : d < x}
<1>1. ASSUME NEW x \in C, NEW y \in C, x < y
      PROVE  Cardinality(Below(x)) # Cardinality(Below(y))
    <2>1. Below(x) \in SUBSET Below(y) /\ x \in Below(y) /\ x \notin Below(x)
        BY <1>1, CellsArePositive
    <2>2. IsFiniteSet(Below(y))
        BY CellsFinite
    <2> QED
        BY <2>1, <2>2, FS_Subset
<1>2. \A x \in C : Cardinality(Below(x)) = i - 1 => x = c
    BY <1>1, CellsArePositive
<1> QED
    BY <1>2, SameCardinality DEF Atomic!Nth

(* While the immediates are collected: the cells collected come before the *)
(* ones left, one is left if there was any, and imms holds their payload.  *)
CollectInv ==
    LET read == CodeCells \ tag
    IN  /\ pc \in {"swapped", "selected"} => imms = <<>>
        /\ pc = "listed" =>
              /\ \A c \in read, d \in CodeCells \cap tag : c < d
              /\ CodeCells # {} => CodeCells \cap tag # {}
              /\ imms = [i \in 1 .. Cardinality(read) |-> Low(data[Atomic!Nth(CodeCells, i)])]

(* One more immediate is collected: the least cell still tagged.           *)
LEMMA CollectStep ==
    ASSUME IInv, FetchInv, CollectInv, Collect
    PROVE  CollectInv'
<1> DEFINE C == CodeCells
           read == C \ tag
           f == firstCell
           n == Cardinality(read)
           P(i) == Low(data[Atomic!Nth(C, i)])
<1>1. pc = "listed" /\ SetsSwapped /\ set[TRUE] = C /\ C \in SUBSET Cells /\ count > 1
    BY DEF Collect, FetchInv, CodeCells
<1>2. Active = C \cap tag
    BY <1>1 DEF Active, Selected
<1>3. Cardinality(C \cap tag) > 1 /\ f = Following(C \cap tag, Nil)
    BY <1>1, <1>2 DEF IInv, ListCoherent
<1>4. C \cap tag # {}
    BY <1>3, FS_EmptySet
<1>5. /\ f \in C \cap tag
      /\ f # Nil
      /\ \A d \in C \cap tag : f =< d
    BY <1>1, <1>3, <1>4, FollowingIs, CellsArePositive
<1>6. /\ UNCHANGED <<set, data, SetsSwapped, pc, key>>
      /\ tag' = tag \ {f}
      /\ imms' = Append(imms, Low(data[f]))
    BY <1>5 DEF Collect, LIST_NEXT, First
<1>7. C' = C
    BY <1>6 DEF CodeCells
<1>8. (C \ tag)' = read \cup {f} /\ (C \cap tag)' = (C \cap tag) \ {f}
    BY <1>5, <1>6, <1>7
<1>9. (C \cap tag) \ {f} # {}
    <2>1. CASE (C \cap tag) = {f}
        BY <1>3, <2>1, FS_Singleton
    <2> QED
        BY <1>5, <2>1
<1>10. \A c \in read \cup {f}, d \in (C \cap tag) \ {f} : c < d
    BY <1>1, <1>5, CellsArePositive DEF CollectInv
<1>11. n \in Nat /\ Cardinality(read \cup {f}) = n + 1
    BY <1>1, <1>5, CellsFinite, FS_AddElement
<1>12. Atomic!Nth(C, n + 1) = f
    <2>1. {d \in C : d < f} = read
        BY <1>1, <1>5, CellsArePositive DEF CollectInv
    <2> QED
        BY <1>1, <1>5, <1>11, <2>1, NthIs
<1>13. imms' = [i \in 1 .. n + 1 |-> P(i)]
    <2>1. imms = [i \in 1 .. n |-> P(i)]
        BY <1>1 DEF CollectInv
    <2>2. imms' = Append(imms, P(n + 1))
        BY <1>6, <1>12
    <2> HIDE DEF P, n
    <2> QED
        BY <1>11, <2>1, <2>2
<1> QED
    BY <1>1, <1>6, <1>7, <1>8, <1>9, <1>10, <1>11, <1>13 DEF CollectInv

(* Every step keeps the cells read and the immediates collected in step.   *)
LEMMA CollectNextInv ==
    IInv /\ FetchInv /\ CollectInv /\ [FetchNext]_allVars => CollectInv'
<1> SUFFICES ASSUME IInv, FetchInv, CollectInv, [FetchNext]_allVars PROVE CollectInv'
    OBVIOUS
<1>1. ASSUME NEW k \in Keys, Begin(k)
      PROVE  CollectInv'
    BY <1>1 DEF Begin, CollectInv
<1>2. CASE Find
    BY <1>2 DEF Find, CollectInv
<1>3. CASE Tag
    <2>1. /\ pc = "selected" /\ pc' = "listed" /\ imms' = <<>>
          /\ UNCHANGED <<set, data, SetsSwapped, key>>
          /\ tag' = tag \cup CodeCells
        BY <1>3 DEF Tag, LIST_ALL, CollectInv, FetchInv, Selected
    <2>2. CodeCells' = CodeCells
        BY <2>1 DEF CodeCells
    <2>3. (CodeCells \ tag)' = {} /\ (CodeCells \cap tag)' = CodeCells
        BY <2>1, <2>2
    <2>4. Cardinality((CodeCells \ tag)') = 0
        BY <2>3, FS_EmptySet
    <2>5. imms' = [i \in 1 .. 0 |-> Low(data'[Atomic!Nth(CodeCells', i)])]
        BY <2>1
    <2> QED
        BY <2>1, <2>2, <2>3, <2>4, <2>5 DEF CollectInv
<1>4. CASE Collect
    BY <1>4, CollectStep
<1>5. CASE Return
    BY <1>5 DEF Return, CollectInv
<1>6. CASE Operate
    BY <1>6 DEF Operate, CollectInv
<1>7. CASE UNCHANGED allVars
    <2>1. UNCHANGED <<pc, imms, tag, data, key>>
        BY <1>7 DEF allVars, vars, bitVars, fetchVars
    <2>2. CodeCells' = CodeCells
        BY <2>1 DEF CodeCells
    <2> QED
        BY <2>1, <2>2 DEF CollectInv
<1> QED
    BY <1>1, <1>2, <1>3, <1>4, <1>5, <1>6, <1>7 DEF FetchNext, FetchCode

(* When the walk is over, the code it returns is the code at the key, and  *)
(* the tags are those FetchAbs promises.                                   *)
LEMMA ReturnIsFetch ==
    ASSUME IInv, FetchInv, CollectInv, Return
    PROVE  Atomic!Fetch(key)
<1> DEFINE C == CodeCells
           read == C \ tag
           f == firstCell
           n == Cardinality(C)
           Last == {c \in C : \A d \in C : d =< c}
<1>1. pc = "listed" /\ SetsSwapped /\ set[TRUE] = C /\ C \in SUBSET Cells /\ count =< 1
    BY DEF Return, FetchInv, CodeCells
<1>2. Active = C \cap tag
    BY <1>1 DEF Active, Selected
<1>3. /\ count = Cardinality(C \cap tag)
      /\ f = Following(C \cap tag, Nil)
      /\ IsFiniteSet(C \cap tag) /\ count \in Nat
    BY <1>1, <1>2, CellsFinite DEF IInv, ListCoherent, TypeOK
<1>4. /\ set' = set /\ tag' = tag /\ data' = data
      /\ pc' = "idle" /\ set[FALSE] = before.set
      /\ tag \ C = before.tag \ C
      /\ code' = IF count = 1 THEN [word |-> Low(First), imms |-> imms] ELSE NoCode
    BY <1>1 DEF Return, SET_SWAP, FetchInv
<1>5. Atomic!CodeCells(key) = C
    BY DEF Atomic!CodeCells, CodeCells, Atomic!Cells, Cells, Atomic!Matches, Matches
<1>6. CASE C = {}
    <2>1. count = 0
        BY <1>3, <1>6, FS_EmptySet
    <2>2. Atomic!CodeAt(key) = NoCode
        BY <1>5, <1>6 DEF Atomic!CodeAt
    <2> QED
        BY <1>1, <1>4, <1>5, <1>6, <2>1, <2>2 DEF Atomic!Fetch
<1>7. CASE C # {}
    <2>1. count = 1
        BY <1>1, <1>3, <1>7, FS_EmptySet DEF CollectInv
    <2>2. PICK g : C \cap tag = {g}
        BY <1>3, <2>1, FS_Singleton
    <2>3. f = g /\ f \in C /\ f \in Cells /\ f # Nil
        BY <1>1, <1>3, <2>2, FollowingIs, CellsArePositive
    <2>4. \A c \in read : c < f
        BY <1>1, <2>2, <2>3 DEF CollectInv
    <2>5. C = read \cup {f} /\ f \notin read
        BY <2>2, <2>3
    <2>6. {d \in C : d < f} = read
        BY <2>3, <2>4, <2>5, CellsArePositive
    <2>7. n \in Nat /\ Cardinality(read) \in Nat /\ n = Cardinality(read) + 1
        BY <1>1, <2>5, CellsFinite, FS_AddElement
    <2>8. Atomic!Nth(C, n) = f
        BY <1>1, <2>3, <2>6, <2>7, NthIs
    <2>9. code' = [word |-> Low(data[f]), imms |-> imms]
        BY <1>4, <2>1, <2>3 DEF First
    <2>10. imms = [i \in 1 .. n - 1 |-> Low(data[Atomic!Nth(C, i)])]
        <3>1. imms = [i \in 1 .. Cardinality(read) |-> Low(data[Atomic!Nth(C, i)])]
            BY <1>1 DEF CollectInv
        <3>2. Cardinality(read) = n - 1
            BY <2>7
        <3> HIDE DEF n, read, C
        <3> QED
            BY <3>1, <3>2
    <2>11. code' = Atomic!CodeAt(key)
        BY <1>5, <1>7, <2>8, <2>9, <2>10, SameCardinality DEF Atomic!CodeAt, Atomic!Low, Low
    <2>12. tag = (before.tag \ C) \cup Last
        <3>1. f \in Last
            <4>1. \A d \in C : d =< f
                BY <1>1, <2>3, <2>4, <2>5, CellsArePositive
            <4> QED
                BY <2>3, <4>1
        <3>2. \A c \in Last : c = f
            <4>1. ASSUME NEW c \in Last, c # f
                  PROVE  FALSE
                <5>1. c \in read /\ c < f /\ f =< c
                    BY <2>3, <2>4, <2>5, <4>1
                <5> QED
                    BY <1>1, <2>3, <5>1, CellsArePositive
            <4> QED
                BY <4>1
        <3>3. Last = {f}
            BY <3>1, <3>2
        <3> QED
            BY <1>4, <2>2, <2>3, <3>3
    <2> QED
        BY <1>1, <1>4, <1>5, <2>11, <2>12 DEF Atomic!Fetch
<1> QED
    BY <1>6, <1>7

(* An operation between two fetches is the operation of CappAbs, on the    *)
(* program's set.                                                          *)
LEMMA OperateIsOperate ==
    ASSUME IInv, FetchInv, Operate
    PROVE  Atomic!Operate
<1> DEFINE uset == [s \in BOOLEAN |-> IF s THEN {} ELSE set[FALSE]]
<1>0. /\ pc = "idle" /\ pc' = "idle" /\ SetsSwapped = FALSE /\ code' = NoCode
      /\ set \in [BOOLEAN -> SUBSET Cells]
    BY DEF Operate, FetchInv, IInv, TypeOK
<1>1. /\ Atomic!User!Cells = Cells
      /\ Atomic!User!Selected = Selected
      /\ Atomic!User!List = Active
      /\ Atomic!User!First = firstCell
      /\ Chain = Active
    <2>1. Atomic!User!Cells = Cells
        BY DEF Atomic!User!Cells, Cells
    <2>2. Atomic!User!Selected = Selected
        BY <1>0 DEF Atomic!User!Selected, Selected
    <2>3. Atomic!User!List = Active
        BY <1>0, <2>2 DEF Atomic!User!List, Active
    <2>4. Atomic!User!Following(Active, Nil) = Following(Active, Nil)
        BY DEF Atomic!User!Following, Following, Atomic!User!Nil, Nil
    <2>5. Atomic!User!First = firstCell
        BY <2>3, <2>4 DEF IInv, ListCoherent, Atomic!User!First, Atomic!User!Nil, Nil
    <2> QED
        BY <2>1, <2>2, <2>3, <2>5, CoherentChain DEF IInv
<1>2. \A w, match, mask : /\ Atomic!User!Matches(w, match, mask) = Matches(w, match, mask)
                          /\ Atomic!User!Merge(w, match, mask) = Merge(w, match, mask)
    BY DEF Atomic!User!Matches, Matches, Atomic!User!Merge, Merge
<1> DEFINE Step == \/ Atomic!User!ListAll \/ Atomic!User!ListNot \/ Atomic!User!ListNext
                   \/ Atomic!User!Reset
                   \/ \E op \in Operands :
                         \/ Atomic!User!Select(op[1], op[2]) \/ Atomic!User!ListOnly(op[1], op[2])
                         \/ Atomic!User!WriteList(op[1], op[2])
                         \/ Atomic!User!WriteFirst(op[1], op[2])
<1>12. /\ [s \in BOOLEAN |-> IF s THEN {} ELSE IF pc = "idle" THEN set[FALSE] ELSE before.set] = uset
       /\ [s \in BOOLEAN |-> IF s THEN {} ELSE IF pc = "idle" THEN set[FALSE] ELSE before.set]' = uset'
       /\ set' = set => uset' = uset
    BY <1>0
<1>3. ASSUME LIST_ALL PROVE Step
    BY <1>0, <1>1, <1>12, <1>3 DEF LIST_ALL, Atomic!User!ListAll, Atomic!User!Retag
<1>4. ASSUME LIST_NOT PROVE Step
    BY <1>0, <1>1, <1>12, <1>4 DEF LIST_NOT, SymDiff, Atomic!User!ListNot, Atomic!User!Retag
<1>5. ASSUME LIST_NEXT PROVE Step
    <2>1. tag' = tag \ {firstCell} /\ UNCHANGED <<set, data, SetsSwapped>>
        BY <1>5, CellsArePositive DEF LIST_NEXT, bitVars, IInv, TypeOK
    <2> QED
        BY <1>0, <1>1, <1>12, <2>1 DEF Atomic!User!ListNext, Atomic!User!Retag
<1>6. ASSUME Reset PROVE Step
    <2>1. uset' = [uset EXCEPT ![FALSE] = Cells]
        BY <1>0, <1>6 DEF Reset
    <2> QED
        BY <1>0, <1>1, <1>12, <1>6, <2>1 DEF Reset, Atomic!User!Reset
<1>7. ASSUME NEW op \in Operands, SET_OF(op[1], op[2])
      PROVE  Step
    <2>1. set'[FALSE] = {c \in Cells : Matches(data[c], op[1], op[2])}
          /\ UNCHANGED <<tag, data>>
        BY <1>0, <1>7 DEF SET_OF
    <2>2. uset' = [uset EXCEPT ![FALSE] = {c \in Cells : Matches(data[c], op[1], op[2])}]
        BY <2>1
    <2>3. Atomic!User!Select(op[1], op[2])
        BY <1>0, <1>1, <1>12, <1>2, <2>1, <2>2 DEF Atomic!User!Select
    <2> QED
        BY <2>3
<1>8. ASSUME NEW op \in Operands, LIST_ONLY(op[1], op[2])
      PROVE  Step
    <2>1. tag' = tag \ {c \in Active : ~Matches(data[c], op[1], op[2])}
        BY <1>8 DEF LIST_ONLY, Active
    <2>2. Atomic!User!ListOnly(op[1], op[2])
        BY <1>0, <1>1, <1>12, <1>2, <1>8, <2>1 DEF LIST_ONLY, Atomic!User!ListOnly, Atomic!User!Retag
    <2> QED
        BY <2>2
<1>9. ASSUME NEW op \in Operands, WRITE_LIST(op[1], op[2])
      PROVE  Step
    <2>1. Atomic!User!WriteList(op[1], op[2])
        BY <1>0, <1>1, <1>12, <1>2, <1>9
           DEF WRITE_LIST, WriteCells, Atomic!User!WriteList, Atomic!User!Write
    <2> QED
        BY <2>1
<1>10. ASSUME NEW op \in Operands, WRITE_FIRST(op[1], op[2])
       PROVE  Step
    <2>1. \A c \in Cells : c \in {firstCell} \ {Nil} <=> c \in {firstCell}
        BY CellsArePositive
    <2>2. Atomic!User!WriteFirst(op[1], op[2])
        BY <1>0, <1>1, <1>12, <1>2, <1>10, <2>1
           DEF WRITE_FIRST, WriteCells, Atomic!User!WriteFirst, Atomic!User!Write
    <2> QED
        BY <2>2
<1>11. Step
    BY <1>3, <1>4, <1>5, <1>6, <1>7, <1>8, <1>9, <1>10 DEF Operate
<1> QED
    BY <1>0, <1>11 DEF Atomic!Operate

(* A fetch begins where FetchAbs does.                                     *)
LEMMA FetchInitRefines == FetchInit => Atomic!Init /\ CollectInv
BY DEF FetchInit, Init, CollectInv, Atomic!Init, Atomic!Cells, Cells

(* The steps of a fetch before its Return are not seen.                    *)
LEMMA FetchNextRefines ==
    IInv /\ FetchInv /\ CollectInv /\ [FetchNext]_allVars => [Atomic!Next]_(Atomic!vars)
<1> SUFFICES ASSUME IInv, FetchInv, CollectInv, [FetchNext]_allVars
             PROVE  [Atomic!Next]_(Atomic!vars)
    OBVIOUS
<1>1. ASSUME NEW k \in Keys, Begin(k)
      PROVE  UNCHANGED Atomic!vars
    BY <1>1 DEF Begin, SET_SWAP, UserState, Atomic!vars
<1>2. CASE Find
    BY <1>2 DEF Find, SET_OF, Atomic!vars
<1>3. CASE Tag
    BY <1>3 DEF Tag, LIST_ALL, Atomic!vars
<1>4. CASE Collect
    BY <1>4 DEF Collect, LIST_NEXT, bitVars, Atomic!vars
<1>5. CASE Return
    BY <1>5, ReturnIsFetch DEF Atomic!Next, FetchInv
<1>6. CASE Operate
    BY <1>6, OperateIsOperate DEF Atomic!Next
<1>7. CASE UNCHANGED allVars
    BY <1>7 DEF allVars, vars, bitVars, fetchVars, Atomic!vars
<1> QED
    BY <1>1, <1>2, <1>3, <1>4, <1>5, <1>6, <1>7 DEF FetchNext, FetchCode

(* Whatever instructions are in the cells and whatever the program does to *)
(* them, a fetch is seen as one step: it returns the instruction at the    *)
(* ip, and changes no tag but its cells'.                                  *)
THEOREM FetchIsAtomic == FetchSpec => RefinesFetchAbs
<1>1. FetchSpec => [](IInv /\ FetchInv /\ CollectInv)
    BY FetchInitInv, FetchInitRefines, FetchNextInv, CollectNextInv, PTL DEF FetchSpec
<1> QED
    BY <1>1, FetchInitRefines, FetchNextRefines, PTL DEF FetchSpec, RefinesFetchAbs, Atomic!Spec
=============================================================================
