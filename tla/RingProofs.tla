----------------------------- MODULE RingProofs -----------------------------
(***************************************************************************)
(* Proofs about module Ring, for bytes of any number of bits, any files,   *)
(* and a ring of any size: what Go chooses for the room of a slice does not*)
(* matter.                                                                 *)
(***************************************************************************)
EXTENDS Ring, SequenceTheorems, TLAPS

-----------------------------------------------------------------------------
(* Bytes.                                                                  *)

LEMMA DivMod ==
    ASSUME NEW n \in Nat
    PROVE  n = B * (n \div B) + (n % B) /\ n % B \in 0 .. (B - 1) /\ n \div B \in Nat
<1> B \in Int /\ B > 0
    BY SizesAssumption
<1>1. n = B * (n \div B) + (n % B)
    BY SMT
<1>2. n % B \in 0 .. (B - 1)
    BY SMT
<1>3. n \div B \in Nat
    BY SMT
<1> QED
    BY <1>1, <1>2, <1>3

LEMMA MulMod == ASSUME NEW k \in Nat PROVE k * B \in Nat /\ (k * B) % B = 0
    BY SizesAssumption

LEMMA MulAtMost ==
    ASSUME NEW j \in Nat, NEW k \in Nat, j * B < (k + 1) * B
    PROVE  j * B =< k * B
<1> B \in Nat \ {0}
    BY SizesAssumption
<1>1. j =< k
    BY SMT
<1> QED
    BY <1>1, SMT

(* RoundUp gives the next whole number of bytes.                           *)
LEMMA RoundUpFits ==
    ASSUME NEW n \in Nat
    PROVE  /\ RoundUp(n) \in Nat /\ RoundUp(n) % B = 0 /\ n =< RoundUp(n)
           /\ \A m \in Nat : n =< m /\ m % B = 0 => RoundUp(n) =< m
<1> DEFINE last == n + B - 1
           k == last \div B
           r == last % B
<1>1. B \in Nat \ {0} /\ last \in Nat
    BY SizesAssumption
<1>2. n + B - 1 = B * k + r /\ r \in 0 .. (B - 1) /\ k \in Nat
    BY <1>1, DivMod
<1>3. RoundUp(n) = k * B /\ k * B = B * k
    BY <1>1, <1>2, SMT DEF RoundUp
<1>4. k * B \in Nat /\ (k * B) % B = 0
    BY <1>2, MulMod
<1> HIDE DEF k, r
<1>5. n =< k * B
    BY <1>1, <1>2, <1>3, <1>4, SMT
<1>6. ASSUME NEW m \in Nat, n =< m, m % B = 0
      PROVE  k * B =< m
    <2> DEFINE j == m \div B
    <2>1. m = B * j /\ j \in Nat
        BY <1>1, <1>6, DivMod, SMT
    <2> HIDE DEF j
    <2>2. k * B < (j + 1) * B
        <3>1. (j + 1) * B = B * j + B
            BY <1>1, <2>1, SMT
        <3> QED
            BY <1>1, <1>2, <1>3, <1>4, <1>6, <2>1, <3>1, SMT
    <2>3. k * B =< j * B /\ j * B = B * j
        BY <1>1, <1>2, <2>1, <2>2, MulAtMost, SMT
    <2> QED
        BY <2>1, <2>3
<1> QED
    BY <1>3, <1>4, <1>5, <1>6

LEMMA OneByteMore ==
    ASSUME NEW n \in Nat, n % B = 0
    PROVE  (n + B) % B = 0
<1> DEFINE j == n \div B
<1>1. B \in Nat \ {0}
    BY SizesAssumption
<1>2. n = B * j /\ j \in Nat
    BY <1>1, DivMod, SMT
<1> HIDE DEF j
<1>3. ((j + 1) * B) % B = 0
    BY <1>2, MulMod
<1>4. (j + 1) * B = n + B
    BY <1>1, <1>2, SMT
<1> QED
    BY <1>3, <1>4

-----------------------------------------------------------------------------
(* The invariant.                                                          *)

(* A file holds whole bytes.                                               *)
IsFile(f) == f \in Seq(BOOLEAN) /\ Len(f) % B = 0

TypeInv == /\ IsFile(Data)
           /\ ReadIndex \in Nat /\ WriteIndex \in 0 .. Len(Data)
           /\ room \in Nat /\ Len(Data) =< room
           /\ file # NoFile => IsFile(file)

(* A ring that is clean has at least the bits of its file.                 *)
CleanInv == ~isDirty => Len(Flushed) =< Len(Data) /\ CleanLosesOnlyOnes

RingInv == TypeInv /\ CleanInv

LEMMA EmptyIsFile == IsFile(<<>>)
<1>1. 0 * B = 0 /\ (0 * B) % B = 0
    BY MulMod, SizesAssumption, SMT
<1> QED
    BY <1>1 DEF IsFile

LEMMA RoomySuffices ==
    ASSUME NEW length \in Nat, Roomy(length)
    PROVE  room' \in Nat /\ length =< room'
<1>1. PICK spare \in Spares : room' = length + spare * B
    BY DEF Roomy
<1>2. spare * B \in Nat
    BY SizesAssumption, MulMod
<1> QED
    BY <1>1, <1>2

(* What Marshal writes is a file, and the index it goes by is within the   *)
(* bytes there are.                                                        *)
LEMMA MarshalledIsFile ==
    ASSUME TypeInv
    PROVE  RoundUp(WriteIndex) \in 0 .. Len(Data) /\ IsFile(Marshalled)
<1> DEFINE end == RoundUp(WriteIndex)
<1>1. end \in 0 .. Len(Data) /\ end % B = 0
    BY RoundUpFits DEF TypeInv, IsFile
<1>2. SubSeq(Data, 1, end) \in Seq(BOOLEAN) /\ Len(SubSeq(Data, 1, end)) = end
    BY <1>1 DEF TypeInv, IsFile
<1> QED
    BY <1>1, <1>2 DEF Marshalled, IsFile

(* A ring with the bits of its file has lost nothing.                      *)
LEMMA SameIsClean ==
    ASSUME NEW d, IsFile(d)
    PROVE  Len(d) =< Len(d) /\ \A i \in DOMAIN d : d[i] = (i =< Len(d) => d[i])
<1>1. Len(d) \in Nat /\ DOMAIN d = 1 .. Len(d)
    BY DEF IsFile
<1>2. ASSUME NEW i \in DOMAIN d
      PROVE  i =< Len(d) /\ d[i] \in BOOLEAN
    BY <1>1, <1>2, ElementOfSeq DEF IsFile
<1> QED
    BY <1>1, <1>2

(* A ring is opened clean, with the bits of its file.                      *)
LEMMA OpenInv ==
    ASSUME NEW f, f # NoFile => IsFile(f), Open(f)
    PROVE  RingInv'
<1>1. Data' = Flushed' /\ IsFile(Data') /\ Len(Data') \in Nat
    <2>1. Data' = Flushed'
        BY DEF Open, Flushed
    <2>2. IsFile(Data')
        BY EmptyIsFile DEF Open
    <2> QED
        BY <2>1, <2>2 DEF IsFile
<1>2. room' \in Nat /\ Len(Data') =< room'
    <2>1. CASE f = NoFile
        BY <2>1, SizesAssumption DEF Open
    <2>2. CASE f # NoFile
        BY <1>1, <2>2, RoomySuffices DEF Open
    <2> QED
        BY <2>1, <2>2
<1>3. TypeInv'
    BY <1>1, <1>2 DEF Open, TypeInv
<1>4. CleanInv'
    <2>1. /\ Len(Flushed') =< Len(Data')
          /\ \A i \in DOMAIN Data' : Data'[i] = (i =< Len(Flushed') => Flushed'[i])
        BY <1>1, SameIsClean
    <2> QED
        BY <2>1 DEF CleanInv, CleanLosesOnlyOnes
<1> QED
    BY <1>3, <1>4 DEF RingInv

LEMMA InitInv == Init => RingInv
<1> SUFFICES ASSUME Init PROVE RingInv
    OBVIOUS
<1>1. /\ Data = Flushed /\ IsFile(Data) /\ Len(Data) \in Nat
      /\ file # NoFile => IsFile(file)
    <2>1. Data = Flushed
        BY DEF Init, Flushed
    <2>2. IsFile(Data) /\ (file # NoFile => IsFile(file))
        <3>1. CASE file = NoFile
            BY <3>1, EmptyIsFile DEF Init
        <3>2. CASE file # NoFile
            <4>1. file \in Contents /\ Data = file
                BY <3>2 DEF Init
            <4> QED
                BY <4>1, ContentsAssumption DEF IsFile
        <3> QED
            BY <3>1, <3>2
    <2> QED
        BY <2>1, <2>2 DEF IsFile
<1>2. room \in Nat /\ Len(Data) =< room
    <2>1. \A spare \in Spares : spare * B \in Nat
        BY SizesAssumption, MulMod
    <2>2. DEFAULT \in Nat /\ Len(<<>>) = 0
        BY SizesAssumption
    <2> QED
        BY <1>1, <2>1, <2>2 DEF Init
<1>3. TypeInv
    BY <1>1, <1>2 DEF Init, TypeInv
<1>4. CleanInv
    <2>1. /\ Len(Flushed) =< Len(Data)
          /\ \A i \in DOMAIN Data : Data[i] = (i =< Len(Flushed) => Flushed[i])
        BY <1>1, SameIsClean
    <2> QED
        BY <2>1 DEF CleanInv, CleanLosesOnlyOnes
<1> QED
    BY <1>3, <1>4 DEF RingInv

(* What Send leaves in the ring: the bits up to the write index and some   *)
(* of those behind it are what they were, and a byte it has added is ones. *)
LEMMA ExtendedFits ==
    ASSUME TypeInv
    PROVE  /\ IsFile(Extended) /\ WriteIndex + 1 \in 1 .. Len(Extended)
           /\ Len(Data) =< Len(Extended)
           /\ \A i \in 1 .. Len(Extended) :
                  /\ i =< Len(Data) => Extended[i] = Data[i]
                  /\ i > Len(Data) => Extended[i] = TRUE
<1> DEFINE ones == [i \in 1 .. B |-> TRUE]
<1>1. /\ B \in Nat \ {0} /\ Data \in Seq(BOOLEAN) /\ Len(Data) \in Nat
      /\ Len(Data) % B = 0 /\ WriteIndex \in 0 .. Len(Data)
    BY SizesAssumption DEF TypeInv, IsFile
<1>2. CASE WriteIndex < Len(Data)
    BY <1>1, <1>2 DEF Extended, IsFile
<1>3. CASE ~(WriteIndex < Len(Data))
    <2>1. ones \in Seq(BOOLEAN) /\ Len(ones) = B
        BY <1>1
    <2>2. Extended = Data \o ones
        BY <1>3 DEF Extended
    <2>3. \A i \in 1 .. B : ones[i] = TRUE
        OBVIOUS
    <2> HIDE DEF ones
    <2>4. /\ Extended \in Seq(BOOLEAN) /\ Len(Extended) = Len(Data) + B
          /\ \A i \in 1 .. (Len(Data) + B) :
                 Extended[i] = IF i =< Len(Data) THEN Data[i] ELSE ones[i - Len(Data)]
        <3>1. Data \o ones \in Seq(BOOLEAN) /\ Len(Data \o ones) = Len(Data) + Len(ones)
            BY <1>1, <2>1
        <3>2. ASSUME NEW i \in 1 .. (Len(Data) + B)
              PROVE  (Data \o ones)[i] = IF i =< Len(Data) THEN Data[i] ELSE ones[i - Len(Data)]
            BY <1>1, <2>1
        <3> QED
            BY <2>1, <2>2, <3>1, <3>2, Zenon
    <2>5. Len(Extended) % B = 0
        BY <1>1, <2>4, OneByteMore
    <2>6. ASSUME NEW i \in 1 .. Len(Extended)
          PROVE  /\ i =< Len(Data) => Extended[i] = Data[i]
                 /\ i > Len(Data) => Extended[i] = TRUE
        <3>1. CASE i =< Len(Data)
            BY <1>1, <2>4, <3>1
        <3>2. CASE i > Len(Data)
            <4>1. i - Len(Data) \in 1 .. B /\ Extended[i] = ones[i - Len(Data)]
                BY <1>1, <2>4, <3>2
            <4> QED
                BY <1>1, <2>3, <3>2, <4>1
        <3> QED
            BY <1>1, <2>4, <3>1, <3>2
    <2>7. WriteIndex + 1 \in 1 .. Len(Extended) /\ Len(Data) =< Len(Extended)
        BY <1>1, <2>4
    <2> QED
        BY <2>4, <2>5, <2>6, <2>7 DEF IsFile
<1> QED
    BY <1>1, <1>2, <1>3

(* A Send that leaves the ring clean has changed no bit: it has at most    *)
(* added ones behind all the bits of the file.                             *)
LEMMA SendInv ==
    ASSUME RingInv, NEW bit \in BOOLEAN, Send(bit)
    PROVE  RingInv'
<1>1. /\ IsFile(Extended) /\ WriteIndex + 1 \in 1 .. Len(Extended)
      /\ Len(Data) =< Len(Extended)
      /\ \A i \in 1 .. Len(Extended) :
             /\ i =< Len(Data) => Extended[i] = Data[i]
             /\ i > Len(Data) => Extended[i] = TRUE
    BY ExtendedFits DEF RingInv
<1>2. IsFile(Data') /\ Len(Data') = Len(Extended)
    BY <1>1, ExceptSeq DEF Send, IsFile
<1>3. room' \in Nat /\ Len(Data') =< room'
    <2>1. Len(Extended) \in Nat
        BY <1>1 DEF IsFile
    <2>2. CASE Len(Extended) > room
        BY <1>2, <2>1, <2>2, RoomySuffices DEF Send
    <2>3. CASE ~(Len(Extended) > room)
        BY <1>2, <2>1, <2>3 DEF Send, RingInv, TypeInv
    <2> QED
        BY <2>2, <2>3
<1>4. TypeInv'
    BY <1>1, <1>2, <1>3 DEF Send, RingInv, TypeInv
<1>5. ASSUME ~isDirty'
      PROVE  Len(Flushed') =< Len(Data') /\ CleanLosesOnlyOnes'
    <2>1. ~isDirty /\ Data' = Extended /\ Flushed' = Flushed
        BY <1>5 DEF Send, Flushed
    <2>2. /\ Len(Flushed) =< Len(Data)
          /\ \A i \in DOMAIN Data : Data[i] = (i =< Len(Flushed) => Flushed[i])
        BY <2>1 DEF RingInv, CleanInv, CleanLosesOnlyOnes
    <2>3. /\ Len(Data) \in Nat /\ Len(Extended) \in Nat /\ Len(Flushed) \in Nat
          /\ DOMAIN Data = 1 .. Len(Data) /\ DOMAIN Extended = 1 .. Len(Extended)
        BY <1>1 DEF RingInv, TypeInv, IsFile, Flushed
    <2>4. ASSUME NEW i \in 1 .. Len(Extended)
          PROVE  Extended[i] = (i =< Len(Flushed) => Flushed[i])
        <3>1. CASE i =< Len(Data)
            <4>1. i \in DOMAIN Data /\ Extended[i] = Data[i]
                BY <1>1, <2>3, <3>1
            <4> QED
                BY <2>2, <4>1, Zenon
        <3>2. CASE ~(i =< Len(Data))
            <4>1. Extended[i] = TRUE /\ ~(i =< Len(Flushed))
                BY <1>1, <2>2, <2>3, <3>2
            <4> QED
                BY <4>1, Zenon
        <3> QED
            BY <3>1, <3>2
    <2> QED
        BY <2>1, <2>2, <2>3, <2>4, <1>1 DEF CleanLosesOnlyOnes
<1> QED
    BY <1>4, <1>5 DEF RingInv, CleanInv

-----------------------------------------------------------------------------
(* Theorems.                                                               *)

LEMMA NextInv == RingInv /\ [Next]_vars => RingInv'
<1> SUFFICES ASSUME RingInv, [Next]_vars PROVE RingInv'
    OBVIOUS
<1>1. /\ IsFile(Data) /\ ReadIndex \in Nat /\ WriteIndex \in 0 .. Len(Data)
      /\ Len(Data) \in Nat /\ room \in Nat /\ Len(Data) =< room
      /\ file # NoFile => IsFile(file)
    BY DEF RingInv, TypeInv, IsFile
<1>2. ASSUME UNCHANGED <<Data, isDirty, room, file>>,
             ReadIndex' \in Nat, WriteIndex' \in 0 .. Len(Data)
      PROVE  RingInv'
    BY <1>1, <1>2 DEF RingInv, TypeInv, CleanInv, CleanLosesOnlyOnes, Flushed
<1>3. CASE Rewind
    BY <1>1, <1>2, <1>3 DEF Rewind
<1>4. CASE Receive
    BY <1>1, <1>2, <1>4 DEF Receive
<1>5. CASE RewindRead
    BY <1>1, <1>2, <1>5 DEF RewindRead
<1>6. CASE RewindWrite
    BY <1>1, <1>2, <1>6 DEF RewindWrite
<1>7. CASE Exit
    <2>1. IsFile(Marshalled)
        BY MarshalledIsFile DEF RingInv
    <2> QED
        BY <1>1, <1>7, <2>1, OpenInv DEF Exit
<1>8. CASE Die
    BY <1>1, <1>8, OpenInv DEF Die
<1>9. CASE \E bit \in BOOLEAN : Send(bit)
    BY <1>9, SendInv
<1>10. ASSUME NEW content \in Contents, Save(content)
       PROVE  RingInv'
    <2>1. IsFile(content) /\ Len(content) \in Nat
        BY ContentsAssumption DEF IsFile
    <2>2. room' \in Nat /\ Len(content) =< room'
        BY <1>10, <2>1, RoomySuffices DEF Save
    <2> QED
        BY <1>1, <1>10, <2>1, <2>2 DEF Save, RingInv, TypeInv, CleanInv
<1>11. CASE UNCHANGED vars
    BY <1>1, <1>2, <1>11 DEF vars
<1> QED
    BY <1>3, <1>4, <1>5, <1>6, <1>7, <1>8, <1>9, <1>10, <1>11 DEF Next

(* The indexes of a ring stay within its bytes, whatever a program, a save *)
(* or the end of a process does to it: no Receive, Send or Marshal panics. *)
THEOREM RingIndexesFit == Spec => []IndexesFit
<1>1. RingInv => IndexesFit
    BY DEF RingInv, TypeInv, IsFile, IndexesFit
<1> QED
    BY <1>1, InitInv, NextInv, PTL DEF Spec

(* All that a ring not written back can lose is ones behind its file.      *)
THEOREM CleanRingLosesOnlyOnes == Spec => []CleanLosesOnlyOnes
<1>1. RingInv => CleanLosesOnlyOnes
    BY DEF RingInv, CleanInv, CleanLosesOnlyOnes
<1> QED
    BY <1>1, InitInv, NextInv, PTL DEF Spec
=============================================================================
