-------------------------------- MODULE Ring --------------------------------
(***************************************************************************)
(* A ring of a drum: src/sio/ring.go, through one process after another.   *)
(* A process finds the ring in its file (Drum.Unmarshal) or makes it new   *)
(* (Drum.selectRing), lets a program read and write it or saves a file     *)
(* into it (Drum.Save), and writes it back when it ends and finds the ring *)
(* dirty; when it fails, it writes nothing (src/cmd/ucapp/main.go).        *)
(*                                                                         *)
(* Data is the sequence of the bits of the slice.  The room Go gives to a  *)
(* slice beyond its length is its choice.                                  *)
(***************************************************************************)
EXTENDS Integers, Sequences

CONSTANTS B,          \* the bits of a byte
          DEFAULT,    \* RING_DEFAULT_CAPACITY, in bits
          Spares,     \* how many bytes Go may give a slice beyond its length
          Contents,   \* the files that may be found, or saved into the ring
          MaxBits,    \* bound of the model: the ring does not grow beyond it
          NoFile

ASSUME SizesAssumption ==
    /\ B \in Nat \ {0} /\ DEFAULT \in Nat /\ DEFAULT % B = 0
    /\ Spares \subseteq Nat /\ Spares # {} /\ MaxBits \in Nat
ASSUME ContentsAssumption == \A c \in Contents : c \in Seq(BOOLEAN) /\ Len(c) % B = 0

VARIABLES Capacity, ReadIndex, WriteIndex, Data, isDirty,
          room,   \* cap(ring.Data), in bits
          file    \* the ring's file, or NoFile

vars == <<Capacity, ReadIndex, WriteIndex, Data, isDirty, room, file>>

(* The bits of the bytes that the first n bits take up.                    *)
RoundUp(n) == ((n + B - 1) \div B) * B

Roomy(length) == room' \in {length + spare * B : spare \in Spares}

(* Marshal: what is written of the ring.                                   *)
Marshalled == SubSeq(Data, 1, RoundUp(WriteIndex))

(* selectRing's Rewind of a new Ring makes its slice; Unmarshal puts that  *)
(* of ReadAll in its place, and leaves the Capacity.                       *)
Open(f) == /\ Capacity' = DEFAULT /\ ReadIndex' = 0 /\ isDirty' = FALSE
           /\ Data' = IF f = NoFile THEN <<>> ELSE f
           /\ WriteIndex' = Len(Data')
           /\ IF f = NoFile THEN room' = DEFAULT ELSE Roomy(Len(f))
           /\ file' = f

(* A process comes to its end, and the next one opens the ring.            *)
Exit == Open(IF isDirty THEN Marshalled ELSE file)

(* A process fails (log.Fatal), and the next one opens the ring.           *)
Die == Open(file)

-----------------------------------------------------------------------------
(* Operations.                                                             *)

(* Mutant of Rewind: the write index goes to the end of the room.          *)
Rewind_toEnd == /\ Capacity' = room
                /\ ReadIndex' = 0 /\ WriteIndex' = room
                /\ UNCHANGED <<Data, isDirty, room, file>>

(* When the CPU is reset.                                                  *)
Rewind == /\ Capacity' = room
          /\ ReadIndex' = 0 /\ WriteIndex' = Len(Data)
          /\ UNCHANGED <<Data, isDirty, room, file>>

Receive == /\ ReadIndex < WriteIndex
           /\ ReadIndex' = ReadIndex + 1
           /\ UNCHANGED <<Capacity, WriteIndex, Data, isDirty, room, file>>

(* The data with another byte, of ones, when the write index is behind it. *)
Extended == IF WriteIndex < Len(Data) THEN Data ELSE Data \o [i \in 1 .. B |-> TRUE]

(* Mutant of Send: a bit in a byte that is new does not make it dirty.     *)
Send_newClean(bit) ==
    /\ WriteIndex < Capacity /\ Len(Extended) =< MaxBits
    /\ Data' = [Extended EXCEPT ![WriteIndex + 1] = bit]
    /\ isDirty' = (isDirty \/ (Extended = Data /\ Data' # Data))
    /\ WriteIndex' = WriteIndex + 1
    /\ IF Len(Extended) > room THEN Roomy(Len(Extended)) ELSE UNCHANGED room
    /\ UNCHANGED <<Capacity, ReadIndex, file>>

(* At the Capacity, ErrChannelFull.  The ring gets dirty when a bit of its *)
(* bytes changes, those just appended included.                            *)
Send(bit) ==
    /\ WriteIndex < Capacity /\ Len(Extended) =< MaxBits
    /\ Data' = [Extended EXCEPT ![WriteIndex + 1] = bit]
    /\ isDirty' = (isDirty \/ Data' # Extended)
    /\ WriteIndex' = WriteIndex + 1
    /\ IF Len(Extended) > room THEN Roomy(Len(Extended)) ELSE UNCHANGED room
    /\ UNCHANGED <<Capacity, ReadIndex, file>>

(* The alerts RING_OP_REWIND_READ and RING_OP_REWIND_WRITE.                *)
RewindRead == ReadIndex' = 0 /\ UNCHANGED <<Capacity, WriteIndex, Data, isDirty, room, file>>

RewindWrite == WriteIndex' = 0 /\ UNCHANGED <<Capacity, ReadIndex, Data, isDirty, room, file>>

(* Drum.Save, into this ring; one that it makes has no capacity.           *)
Save(content) == /\ Data' = content /\ Roomy(Len(content))
                 /\ isDirty' = TRUE
                 /\ ReadIndex' = 0 /\ WriteIndex' = Len(content)
                 /\ Capacity' \in IF file = NoFile THEN {0, Capacity} ELSE {Capacity}
                 /\ UNCHANGED file

Init == /\ Capacity = DEFAULT /\ ReadIndex = 0 /\ isDirty = FALSE
        /\ file \in Contents \cup {NoFile}
        /\ Data = IF file = NoFile THEN <<>> ELSE file
        /\ WriteIndex = Len(Data)
        /\ room \in IF file = NoFile THEN {DEFAULT} ELSE {Len(file) + spare * B : spare \in Spares}

Next == \/ Rewind \/ Receive \/ RewindRead \/ RewindWrite \/ Exit \/ Die
        \/ \E bit \in BOOLEAN : Send(bit)
        \/ \E content \in Contents : Save(content)

Spec == Init /\ [][Next]_vars

-----------------------------------------------------------------------------
(* Properties.                                                             *)

(* No index is beyond the bytes there are, which Go would answer with a    *)
(* panic in Receive, Send or Marshal, and the bytes are in their room.     *)
IndexesFit == /\ ReadIndex \in Nat /\ WriteIndex \in 0 .. Len(Data)
              /\ Len(Data) % B = 0 /\ Len(Data) =< room

Flushed == IF file = NoFile THEN <<>> ELSE file

(* A ring that is not dirty, and so is not written back, agrees with its   *)
(* file but for ones behind it: no zero a program wrote is ever lost, over *)
(* any number of rewinds, processes and failures.                          *)
CleanLosesOnlyOnes ==
    ~isDirty => \A i \in DOMAIN Data : Data[i] = (i =< Len(Flushed) => Flushed[i])

(* src/sio/ring.go: "Dirty returns true if the ring has unflushed changes".*)
(* When a bit has been sent and Marshal would write something else than is *)
(* in the file, the ring is dirty.                                         *)
ChangesAreDirty ==
    [][(\E bit \in BOOLEAN : Send(bit)) /\ Marshalled' # Flushed => isDirty']_vars
=============================================================================
