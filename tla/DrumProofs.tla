----------------------------- MODULE DrumProofs -----------------------------
(***************************************************************************)
(* Proofs about module Drum, for any rings, names of files and contents,   *)
(* and any number of processes, however each of them ends.                 *)
(***************************************************************************)
EXTENDS Drum, SequenceTheorems, WellFoundedInduction, TLAPS

EntryType == [name : Names, ring : Rings \cup {DIR}]
Dirs == Seq(EntryType)
Held == Contents \cup {Empty, NoRing}

Types ==
    /\ dir \in Dirs \cup {Overwritten} /\ rings \in [Rings -> Held]
    /\ disk \in [dir : Dirs \cup {Overwritten}, rings : [Rings -> Held]]
    /\ dirty \subseteq Rings \cup {DIR} /\ todo \subseteq Rings \cup {DIR}
    /\ pc \in {"run", "marshal"}
    /\ \A r \in dirty \ {DIR} : rings[r] # NoRing

(* No two entries of a directory that are not deleted share anything.      *)
Distinct(d) ==
    \A i, j \in Live(d) : i # j => d[i].name # d[j].name /\ d[i].ring # d[j].ring

(* What Marshal has no need to write, or has written.                      *)
Done(ring) == ring \notin dirty \/ (pc = "marshal" /\ ring \notin todo)

Kept == /\ \A r \in Rings : Done(r) => disk.rings[r] = rings[r]
        /\ Done(DIR) => disk.dir = dir
        /\ disk.dir = Overwritten => dir = Overwritten

(* The rings of a name: one, or none.                                      *)
RingsOf(d, name) == {d[i].ring : i \in Entries(d, name)}

(* What keeps the files that a process has not touched: on disk they are   *)
(* as they were, their rings are clean, and the directory of the process   *)
(* has them in the same rings as that on disk.                             *)
Untouched ==
    disk.dir # Overwritten =>
        \A n \in Names \ touched :
            /\ Files(disk.dir, disk.rings)[n] = start[n]
            /\ RingsOf(disk.dir, n) \cap dirty = {}
            /\ dir # Overwritten => RingsOf(dir, n) = RingsOf(disk.dir, n)

AllDistinct == /\ dir # Overwritten => Distinct(dir)
               /\ disk.dir # Overwritten => Distinct(disk.dir)

Inv == Types /\ AllDistinct /\ Kept /\ Untouched

-----------------------------------------------------------------------------
(* Directories.                                                            *)

(* A nonempty set of naturals has a least element.                         *)
LEMMA LeastNat ==
    ASSUME NEW S \in SUBSET Nat, S # {}
    PROVE  Min(S) \in S
<1>1. PICK m \in S : \A n \in S : ~(<<n, m>> \in OpToRel(<, Nat))
    BY WFMin, NatLessThanWellFounded, Zenon
<1>2. ASSUME NEW n \in S, n < m
      PROVE  <<n, m>> \in OpToRel(<, Nat)
    BY <1>2 DEF OpToRel
<1>3. \A n \in S : ~(n < m)
    BY <1>1, <1>2
<1>4. \A n \in S : m =< n
    BY <1>3
<1> QED
    BY <1>4 DEF Min

LEMMA DirIsFunction ==
    ASSUME NEW d \in Dirs
    PROVE  /\ Len(d) \in Nat /\ DOMAIN d = 1 .. Len(d)
           /\ Live(d) \subseteq DOMAIN d /\ Deleted(d) \subseteq DOMAIN d
           /\ \A i \in DOMAIN d : d[i] \in EntryType
           /\ \A i \in Live(d) : d[i].ring \in Rings
           /\ d # Overwritten
<1>1. Len(d) \in Nat /\ DOMAIN d = 1 .. Len(d) /\ \A i \in 1 .. Len(d) : d[i] \in EntryType
    BY DEF Dirs
<1> QED
    BY <1>1, OverwrittenAssumption DEF Live, Deleted, EntryType, Dirs

LEMMA FunctionIsDir ==
    ASSUME NEW n \in Nat, NEW d \in [1 .. n -> EntryType]
    PROVE  d \in Dirs /\ DOMAIN d = 1 .. n
BY SeqDef DEF Dirs

(* In a directory whose entries are distinct, the one of a name is the     *)
(* first of its name.                                                      *)
LEMMA FirstEntry ==
    ASSUME NEW d \in Dirs, Distinct(d), NEW name, Entries(d, name) # {}
    PROVE  /\ Min(Entries(d, name)) \in Entries(d, name)
           /\ Entries(d, name) = {Min(Entries(d, name))}
           /\ RingsOf(d, name) = {d[Min(Entries(d, name))].ring}
<1>1. Entries(d, name) \in SUBSET Nat
    BY DirIsFunction DEF Entries
<1>2. Min(Entries(d, name)) \in Entries(d, name)
    BY <1>1, LeastNat
<1>3. \A i, j \in Entries(d, name) : i = j
    BY DEF Distinct, Entries
<1> QED
    BY <1>2, <1>3 DEF RingsOf

(* What a name stands for depends on its ring alone.                       *)
LEMMA FileByRing ==
    ASSUME NEW d \in Dirs, Distinct(d), NEW r, NEW n \in Names
    PROVE  /\ RingsOf(d, n) = {} => Files(d, r)[n] = NoFile
           /\ \A ring : RingsOf(d, n) = {ring} => Files(d, r)[n] = r[ring]
           /\ RingsOf(d, n) = {} \/ \E ring \in Rings : RingsOf(d, n) = {ring}
<1>1. d # Overwritten
    BY DirIsFunction
<1>2. CASE Entries(d, n) = {}
    BY <1>1, <1>2 DEF RingsOf, Files
<1>3. CASE Entries(d, n) # {}
    <2> DEFINE i == Min(Entries(d, n))
    <2>1. i \in Live(d) /\ RingsOf(d, n) = {d[i].ring}
        BY <1>3, FirstEntry DEF Entries
    <2>2. d[i].ring \in Rings
        BY <2>1, DirIsFunction
    <2>3. Files(d, r)[n] = r[d[i].ring]
        BY <1>1, <1>3 DEF Files
    <2> QED
        BY <2>1, <2>2, <2>3
<1> QED
    BY <1>2, <1>3

(* So files in the same ring with the same content are the same.           *)
LEMMA SameFile ==
    ASSUME NEW d \in Dirs, NEW e \in Dirs, Distinct(d), Distinct(e), NEW r, NEW s,
           NEW n \in Names, RingsOf(d, n) = RingsOf(e, n),
           \A ring \in RingsOf(d, n) : r[ring] = s[ring]
    PROVE  Files(d, r)[n] = Files(e, s)[n]
<1>1. /\ RingsOf(d, n) = {} => Files(d, r)[n] = NoFile
      /\ \A ring : RingsOf(d, n) = {ring} => Files(d, r)[n] = r[ring]
      /\ RingsOf(d, n) = {} \/ \E ring \in Rings : RingsOf(d, n) = {ring}
    BY FileByRing
<1>2. /\ RingsOf(e, n) = {} => Files(e, s)[n] = NoFile
      /\ \A ring : RingsOf(e, n) = {ring} => Files(e, s)[n] = s[ring]
    BY FileByRing
<1>3. CASE RingsOf(d, n) = {}
    BY <1>1, <1>2, <1>3
<1>4. ASSUME NEW ring, RingsOf(d, n) = {ring}
      PROVE  Files(d, r)[n] = Files(e, s)[n]
    BY <1>1, <1>2, <1>4
<1> QED
    BY <1>1, <1>3, <1>4

(* Different names have different rings.                                   *)
LEMMA RingsApart ==
    ASSUME NEW d \in Dirs, Distinct(d), NEW m, NEW n, m # n
    PROVE  RingsOf(d, m) \cap RingsOf(d, n) = {}
BY DEF RingsOf, Entries, Distinct

-----------------------------------------------------------------------------
(* Save and Delete.                                                        *)

AfterSave(name) ==
    [i \in 1 .. IF SlotFor(name) > Len(dir) THEN SlotFor(name) ELSE Len(dir)
        |-> IF i = SlotFor(name) THEN [name |-> name, ring |-> RingFor(name)] ELSE dir[i]]

(* A new entry takes the place of a deleted one, or the next.              *)
LEMMA SlotIsFree ==
    ASSUME dir \in Dirs, NEW name \in Names, Entries(dir, name) = {}
    PROVE  /\ SlotFor(name) \in 1 .. Len(dir) + 1 /\ SlotFor(name) \notin Live(dir)
           /\ SlotFor(name) =< Len(dir) => SlotFor(name) \in Deleted(dir)
<1>1. Len(dir) \in Nat /\ DOMAIN dir = 1 .. Len(dir) /\ Deleted(dir) \subseteq DOMAIN dir
      /\ Live(dir) \subseteq DOMAIN dir
    BY DirIsFunction
<1>2. CASE Deleted(dir) = {}
    BY <1>1, <1>2 DEF SlotFor
<1>3. CASE Deleted(dir) # {}
    <2>1. Min(Deleted(dir)) \in Deleted(dir)
        <3>1. Deleted(dir) \in SUBSET Nat
            BY <1>1
        <3> QED
            BY <3>1, <1>3, LeastNat
    <2>2. SlotFor(name) \in Deleted(dir)
        BY <2>1, <1>3 DEF SlotFor
    <2> QED
        BY <1>1, <2>2 DEF Deleted
<1> QED
    BY <1>2, <1>3

(* A new entry has a ring that no other has, unless there is none.         *)
LEMMA RingIsFree ==
    ASSUME dir \in Dirs, NEW name \in Names, Entries(dir, name) = {}, RingFor(name) # DIR
    PROVE  RingFor(name) \in Rings /\ \A i \in Live(dir) : dir[i].ring # RingFor(name)
<1>1. RingFor(name) = Min(Rings \ Allocated) /\ Rings \ Allocated # {}
    BY DEF RingFor
<1>2. Rings \ Allocated \in SUBSET Nat
    BY RingsAssumption
<1>3. RingFor(name) \in Rings \ Allocated
    BY <1>1, <1>2, LeastNat
<1> QED
    BY <1>3 DEF Allocated

LEMMA SaveChanges ==
    ASSUME dir \in Dirs, Distinct(dir), NEW name \in Names, RingFor(name) # DIR
    PROVE  /\ AfterSave(name) \in Dirs /\ Distinct(AfterSave(name)) /\ RingFor(name) \in Rings
           /\ \A m \in Names \ {name} : /\ RingsOf(AfterSave(name), m) = RingsOf(dir, m)
                                        /\ RingFor(name) \notin RingsOf(dir, m)
<1> DEFINE slot == SlotFor(name)
           entry == [name |-> name, ring |-> RingFor(name)]
           new == AfterSave(name)
<1>1. /\ Len(dir) \in Nat /\ DOMAIN dir = 1 .. Len(dir) /\ Live(dir) \subseteq DOMAIN dir
      /\ \A i \in DOMAIN dir : dir[i] \in EntryType
    BY DirIsFunction
<1>2. CASE Entries(dir, name) # {}
    <2>1. slot \in Entries(dir, name) /\ RingFor(name) = dir[slot].ring
        BY <1>2, FirstEntry DEF SlotFor, RingFor, Entry
    <2>2. slot \in Live(dir) /\ dir[slot].name = name /\ slot \in 1 .. Len(dir)
        BY <1>1, <2>1 DEF Entries
    <2>3. dir[slot] = entry
        BY <1>1, <2>1, <2>2 DEF EntryType
    <2>4. new = [i \in 1 .. Len(dir) |-> dir[i]]
        BY <1>1, <2>2, <2>3 DEF AfterSave
    <2>5. new = dir
        BY <1>1, <2>4 DEF Dirs
    <2>6. RingFor(name) \in Rings
        BY <2>1, <2>2, DirIsFunction
    <2>7. ASSUME NEW m \in Names \ {name}
          PROVE  RingFor(name) \notin RingsOf(dir, m)
        <3>1. RingFor(name) \in RingsOf(dir, name)
            BY <2>1 DEF RingsOf
        <3> QED
            BY <3>1, RingsApart
    <2> QED
        BY <2>5, <2>6, <2>7
<1>3. CASE Entries(dir, name) = {}
    <2>1. /\ slot \in 1 .. Len(dir) + 1 /\ slot \notin Live(dir)
          /\ RingFor(name) \in Rings /\ \A i \in Live(dir) : dir[i].ring # RingFor(name)
        BY <1>3, SlotIsFree, RingIsFree
    <2> DEFINE n == IF slot > Len(dir) THEN slot ELSE Len(dir)
    <2>2. PICK len \in Nat : len = Len(dir)
        BY <1>1
    <2>0. DOMAIN dir = 1 .. len
        BY <1>1, <2>2
    <2>14. n \in Nat /\ (n = len \/ (n = len + 1 /\ slot = n)) /\ slot \in 1 .. n
        BY <2>1, <2>2
    <2>3. entry \in EntryType
        BY <2>1 DEF EntryType
    <2>4. new = [i \in 1 .. n |-> IF i = slot THEN entry ELSE dir[i]]
        BY DEF AfterSave
    <2> HIDE DEF n, entry, new, slot
    <2>5. new \in [1 .. n -> EntryType]
        <3>1. \A i \in 1 .. n : i # slot => i \in 1 .. len
            BY <2>14
        <3>2. \A i \in 1 .. n : i # slot => dir[i] \in EntryType
            BY <1>1, <2>0, <3>1
        <3> QED
            BY <2>3, <2>4, <3>2
    <2>6. new \in Dirs /\ DOMAIN new = 1 .. n
        BY <2>14, <2>5, FunctionIsDir
    <2>7. new[slot] = entry /\ \A i \in DOMAIN dir \ {slot} : i \in DOMAIN new /\ new[i] = dir[i]
        BY <2>0, <2>14, <2>4, <2>6
    <2>8. entry.name = name /\ entry.ring = RingFor(name) /\ RingFor(name) # DIR
        BY DEF entry
    <2>9. DOMAIN new = DOMAIN dir \cup {slot}
        BY <2>0, <2>14, <2>6
    <2>10. Live(new) = Live(dir) \cup {slot} /\ \A i \in Live(dir) : new[i] = dir[i]
        BY <1>1, <2>1, <2>7, <2>8, <2>9 DEF Live
    <2>11. \A i \in Live(dir) : dir[i].name # name
        BY <1>3 DEF Entries
    <2>12. Distinct(new)
        BY <2>1, <2>7, <2>8, <2>10, <2>11 DEF Distinct
    <2>13. ASSUME NEW m \in Names \ {name}
           PROVE  RingsOf(new, m) = RingsOf(dir, m) /\ RingFor(name) \notin RingsOf(dir, m)
        <3>1. Entries(new, m) = Entries(dir, m) /\ \A i \in Entries(dir, m) : new[i] = dir[i]
            BY <2>1, <2>7, <2>8, <2>10 DEF Entries
        <3> QED
            BY <2>1, <3>1 DEF RingsOf, Entries
    <2> QED
        BY <2>1, <2>6, <2>12, <2>13 DEF new
<1> QED
    BY <1>2, <1>3

AfterDelete(name) == [dir EXCEPT ![Entry(name)].ring = DIR]

LEMMA DeleteChanges ==
    ASSUME dir \in Dirs, Distinct(dir), NEW name \in Names, Entries(dir, name) # {}
    PROVE  /\ AfterDelete(name) \in Dirs /\ Distinct(AfterDelete(name))
           /\ \A m \in Names \ {name} : RingsOf(AfterDelete(name), m) = RingsOf(dir, m)
<1> DEFINE slot == Entry(name)
           new == AfterDelete(name)
<1>1. /\ Len(dir) \in Nat /\ DOMAIN dir = 1 .. Len(dir) /\ Live(dir) \subseteq DOMAIN dir
      /\ \A i \in DOMAIN dir : dir[i] \in EntryType
    BY DirIsFunction
<1>2. slot \in Entries(dir, name)
    BY FirstEntry DEF Entry
<1>3. slot \in Live(dir) /\ slot \in 1 .. Len(dir) /\ dir[slot].name = name
    BY <1>1, <1>2 DEF Entries
<1>4. DOMAIN new = 1 .. Len(dir) /\ \A i \in 1 .. Len(dir) : i # slot => new[i] = dir[i]
    BY <1>1, <1>3 DEF AfterDelete
<1>5. new[slot] = [name |-> name, ring |-> DIR]
    BY <1>1, <1>3 DEF AfterDelete, EntryType
<1> HIDE DEF new, slot
<1>6. new[slot] \in EntryType /\ new[slot].ring = DIR
    BY <1>5 DEF EntryType
<1>7. new \in [1 .. Len(dir) -> EntryType]
    <2>1. new = [i \in 1 .. Len(dir) |-> new[i]]
        BY <1>1, <1>3 DEF new, AfterDelete, slot
    <2>2. \A i \in 1 .. Len(dir) : new[i] \in EntryType
        BY <1>1, <1>4, <1>6
    <2> QED
        BY <2>1, <2>2
<1>8. new \in Dirs
    BY <1>1, <1>7, FunctionIsDir
<1>9. Live(new) = Live(dir) \ {slot} /\ \A i \in Live(new) : new[i] = dir[i]
    BY <1>1, <1>4, <1>6 DEF Live
<1>10. Distinct(new)
    BY <1>9 DEF Distinct
<1>11. ASSUME NEW m \in Names \ {name}
       PROVE  RingsOf(new, m) = RingsOf(dir, m)
    <2>1. Entries(new, m) = Entries(dir, m)
        BY <1>3, <1>9 DEF Entries
    <2> QED
        BY <1>9, <2>1 DEF RingsOf, Entries
<1> QED
    BY <1>8, <1>10, <1>11 DEF new

-----------------------------------------------------------------------------
(* The steps.                                                              *)

(* What OneFileAtATime, ExitKeepsFiles and UntouchedSurvive say of a step. *)
OneFileStep(name) ==
    (Delete(name) \/ \E content \in Contents : Save(name, content)) /\ dir' # Overwritten
       => \A n \in Names \ {name} : Files(dir', rings')[n] = Files(dir, rings)[n]

ExitStep == Exit /\ dir # Overwritten => Files(dir', rings') = Files(dir, rings)

UntouchedStep ==
    (Die \/ \E ring \in Rings \cup {DIR} : DieInWrite(ring)) /\ disk.dir # Overwritten
       => \A n \in Names \ touched :
              \/ Files(dir', rings')[n] = start[n]
              \/ DieInWrite(DIR) /\ \A m \in Names : Files(dir', rings')[m] = NoFile

LEMMA InitInv == Init => Inv
<1> SUFFICES ASSUME Init PROVE Inv
    OBVIOUS
<1>1. dir \in Dirs /\ Live(dir) = {} /\ dir # Overwritten /\ disk.dir = dir /\ disk.rings = rings
    <2>1. dir = <<>> /\ disk = [dir |-> dir, rings |-> rings]
        BY DEF Init
    <2>2. dir \in Dirs /\ Live(dir) = {}
        BY <2>1 DEF Dirs, Live
    <2> QED
        BY <2>1, <2>2, DirIsFunction
<1>2. Types
    BY <1>1 DEF Init, Types, Held
<1> QED
    BY <1>1, <1>2 DEF Init, Inv, AllDistinct, Distinct, Kept, Done, Untouched, RingsOf

(* A process begins with what is on disk, whatever there was before it.    *)
LEMMA NewProcess ==
    ASSUME NEW fs \in [dir : Dirs \cup {Overwritten}, rings : [Rings -> Held]],
           fs.dir # Overwritten => Distinct(fs.dir), Unmarshal(fs)
    PROVE  Inv'
<1>1. /\ disk' = fs /\ dir' = disk'.dir /\ rings' = disk'.rings /\ dirty' = {}
      /\ pc' = "run" /\ todo' = {}
      /\ start' = Files(disk'.dir, disk'.rings)
    BY DEF Unmarshal
<1>2. Types'
    BY <1>1 DEF Types
<1>3. AllDistinct' /\ Kept' /\ Untouched'
    BY <1>1 DEF AllDistinct, Kept, Untouched
<1> QED
    BY <1>2, <1>3 DEF Inv

(* A save, a delete or a write, of which the file system knows nothing     *)
(* yet: the ring it writes, or none, is that of no name outside it.        *)
LEMMA Change ==
    ASSUME Inv, pc = "run", dir # Overwritten, dir' \in Dirs, Distinct(dir'),
           NEW S, NEW changed \in SUBSET Rings, touched \cup S \subseteq touched',
           dirty \cup changed \subseteq dirty', dirty' \subseteq dirty \cup changed \cup {DIR},
           rings' \in [Rings -> Held], \A r \in Rings \ changed : rings'[r] = rings[r],
           \A r \in changed : rings'[r] # NoRing,
           DIR \in dirty' \/ dir' = dir,
           \A m \in Names \ S : RingsOf(dir', m) = RingsOf(dir, m) /\ changed \cap RingsOf(dir, m) = {},
           UNCHANGED <<disk, todo, pc, start>>
    PROVE  Inv' /\ \A m \in Names \ S : Files(dir', rings')[m] = Files(dir, rings)[m]
<1>1. dir \in Dirs /\ Distinct(dir)
    BY DEF Inv, Types, AllDistinct
<1>2. Types'
    BY DEF Inv, Types
<1>3. AllDistinct'
    BY DEF Inv, AllDistinct
<1>4. Kept'
    BY DirIsFunction DEF Inv, Kept, Done
<1>5. Untouched'
    <2> SUFFICES ASSUME disk.dir # Overwritten, NEW n \in Names \ touched'
                 PROVE  /\ Files(disk.dir, disk.rings)[n] = start[n]
                        /\ RingsOf(disk.dir, n) \cap dirty' = {}
                        /\ dir' # Overwritten => RingsOf(dir', n) = RingsOf(disk.dir, n)
        BY DEF Untouched
    <2>1. n \in Names \ touched /\ n \in Names \ S
        OBVIOUS
    <2>2. /\ Files(disk.dir, disk.rings)[n] = start[n]
          /\ RingsOf(disk.dir, n) \cap dirty = {}
          /\ RingsOf(dir, n) = RingsOf(disk.dir, n)
        BY <2>1 DEF Inv, Untouched
    <2>3. DIR \notin RingsOf(dir, n)
        BY DEF RingsOf, Entries, Live
    <2> QED
        BY <2>1, <2>2, <2>3
<1>6. ASSUME NEW m \in Names \ S
      PROVE  Files(dir', rings')[m] = Files(dir, rings)[m]
    <2>1. \A r \in RingsOf(dir, m) : r \in Rings
        BY <1>1, DirIsFunction DEF RingsOf, Entries
    <2>2. RingsOf(dir', m) = RingsOf(dir, m) /\ \A r \in RingsOf(dir', m) : rings'[r] = rings[r]
        BY <2>1
    <2> QED
        BY <1>1, <2>2, SameFile
<1> QED
    BY <1>2, <1>3, <1>4, <1>5, <1>6 DEF Inv

LEMMA SaveStep ==
    ASSUME Inv, NEW name \in Names, NEW content \in Contents, Save(name, content)
    PROVE  Inv' /\ OneFileStep(name)
<1>1. /\ dir \in Dirs /\ Distinct(dir) /\ pc = "run" /\ dir # Overwritten
      /\ touched' = touched \cup {name} /\ dirty' = dirty \cup {DIR, RingFor(name)}
      /\ UNCHANGED <<disk, todo, pc, start>>
    BY DEF Save, Running, Inv, Types, AllDistinct
<1>2. CASE RingFor(name) = DIR
    <2>1. dir' = Overwritten /\ rings' = rings
        BY <1>2 DEF Save
    <2>2. Types' /\ AllDistinct'
        BY <1>1, <1>2, <2>1 DEF Inv, Types, AllDistinct
    <2>3. Kept'
        BY <1>1, <1>2, <2>1 DEF Inv, Kept, Done
    <2>4. \A n \in Names : DIR \notin RingsOf(disk.dir, n)
        BY DEF RingsOf, Entries, Live
    <2>5. Untouched'
        BY <1>1, <1>2, <2>1, <2>4 DEF Inv, Untouched
    <2> QED
        BY <2>1, <2>2, <2>3, <2>5 DEF Inv, OneFileStep
<1>3. CASE RingFor(name) # DIR
    <2>1. dir' = AfterSave(name) /\ rings' = [rings EXCEPT ![RingFor(name)] = content]
        BY <1>3 DEF Save, AfterSave
    <2>2. /\ dir' \in Dirs /\ Distinct(dir') /\ RingFor(name) \in Rings
          /\ \A m \in Names \ {name} : /\ RingsOf(dir', m) = RingsOf(dir, m)
                                       /\ RingFor(name) \notin RingsOf(dir, m)
        BY <1>1, <1>3, <2>1, SaveChanges
    <2>3. /\ rings' \in [Rings -> Held] /\ rings'[RingFor(name)] # NoRing
          /\ \A r \in Rings \ {RingFor(name)} : rings'[r] = rings[r]
        BY <2>1, <2>2, ContentsAssumption DEF Inv, Types, Held
    <2>4. Inv' /\ \A m \in Names \ {name} : Files(dir', rings')[m] = Files(dir, rings)[m]
        <3> DEFINE changed == {RingFor(name)}
                   S == {name}
        <3>1. changed \in SUBSET Rings
            BY <2>2
        <3>2. /\ touched \cup S \subseteq touched' /\ dirty \cup changed \subseteq dirty'
              /\ dirty' \subseteq dirty \cup changed \cup {DIR} /\ DIR \in dirty'
            BY <1>1
        <3>3. /\ \A r \in Rings \ changed : rings'[r] = rings[r]
              /\ \A r \in changed : rings'[r] # NoRing
              /\ \A m \in Names \ S : /\ RingsOf(dir', m) = RingsOf(dir, m)
                                      /\ changed \cap RingsOf(dir, m) = {}
            BY <2>2, <2>3
        <3> HIDE DEF changed, S
        <3>4. Inv' /\ \A m \in Names \ S : Files(dir', rings')[m] = Files(dir, rings)[m]
            BY <1>1, <2>2, <2>3, <3>1, <3>2, <3>3, Change
        <3> QED
            BY <3>4 DEF S
    <2> QED
        BY <2>4 DEF OneFileStep
<1> QED
    BY <1>2, <1>3

LEMMA DeleteStep ==
    ASSUME Inv, NEW name \in Names, Delete(name)
    PROVE  Inv' /\ OneFileStep(name)
<1>1. /\ dir \in Dirs /\ Distinct(dir) /\ pc = "run" /\ dir # Overwritten
      /\ Entries(dir, name) # {} /\ dir' = AfterDelete(name)
      /\ touched' = touched \cup {name} /\ dirty' = dirty \cup {DIR}
      /\ rings' \in [Rings -> Held]
      /\ UNCHANGED <<rings, disk, todo, pc, start>>
    BY DEF Delete, Running, Inv, Types, AllDistinct, AfterDelete
<1>2. /\ dir' \in Dirs /\ Distinct(dir')
      /\ \A m \in Names \ {name} : RingsOf(dir', m) = RingsOf(dir, m)
    BY <1>1, DeleteChanges
<1> DEFINE changed == {}
           S == {name}
<1>3. /\ changed \in SUBSET Rings
      /\ touched \cup S \subseteq touched' /\ dirty \cup changed \subseteq dirty'
      /\ dirty' \subseteq dirty \cup changed \cup {DIR} /\ DIR \in dirty'
      /\ \A r \in Rings \ changed : rings'[r] = rings[r]
      /\ \A r \in changed : rings'[r] # NoRing
      /\ \A m \in Names \ S : RingsOf(dir', m) = RingsOf(dir, m) /\ changed \cap RingsOf(dir, m) = {}
    BY <1>1, <1>2
<1> HIDE DEF changed, S
<1>4. Inv' /\ \A m \in Names \ S : Files(dir', rings')[m] = Files(dir, rings)[m]
    BY <1>1, <1>2, <1>3, Change
<1> QED
    BY <1>4 DEF S, OneFileStep

(* Writing to a ring touches the file that has it.                         *)
LEMMA WriteStep ==
    ASSUME Inv, NEW ring \in Rings, NEW content \in Contents, Write(ring, content)
    PROVE  Inv'
<1> DEFINE S == {n \in Names : Entries(dir, n) # {} /\ dir[Entry(n)].ring = ring}
           changed == {ring}
<1>1. /\ dir \in Dirs /\ Distinct(dir) /\ pc = "run" /\ dir # Overwritten /\ dir' = dir
      /\ touched' = touched \cup S /\ dirty' = dirty \cup changed
      /\ rings' = [rings EXCEPT ![ring] = content]
      /\ UNCHANGED <<disk, todo, pc, start>>
    BY DEF Write, Running, Inv, Types, AllDistinct
<1>2. /\ rings' \in [Rings -> Held] /\ \A r \in Rings \ changed : rings'[r] = rings[r]
      /\ \A r \in changed : rings'[r] # NoRing
    BY <1>1, ContentsAssumption DEF Inv, Types, Held
<1>3. ASSUME NEW m \in Names \ S
      PROVE  changed \cap RingsOf(dir, m) = {}
    <2>1. CASE Entries(dir, m) = {}
        BY <2>1 DEF RingsOf
    <2>2. CASE Entries(dir, m) # {}
        BY <1>1, <2>2, FirstEntry DEF Entry
    <2> QED
        BY <2>1, <2>2
<1>4. /\ changed \in SUBSET Rings /\ dir' \in Dirs /\ Distinct(dir')
      /\ touched \cup S \subseteq touched' /\ dirty \cup changed \subseteq dirty'
      /\ dirty' \subseteq dirty \cup changed \cup {DIR}
      /\ \A m \in Names \ S : RingsOf(dir', m) = RingsOf(dir, m) /\ changed \cap RingsOf(dir, m) = {}
    BY <1>1, <1>3
<1> HIDE DEF S, changed
<1>5. Inv' /\ \A m \in Names \ S : Files(dir', rings')[m] = Files(dir, rings)[m]
    BY <1>1, <1>2, <1>4, Change
<1> QED
    BY <1>5

(* Marshal visits every ring that is dirty.                                *)
LEMMA MarshalStep == ASSUME Inv, Marshal PROVE Inv'
<1>1. /\ todo' = {DIR} \cup {r \in Rings : rings[r] # NoRing} /\ pc' = "marshal" /\ pc = "run"
      /\ UNCHANGED <<drum, disk, history>>
    BY DEF Marshal
<1>2. Types' /\ AllDistinct' /\ Untouched'
    BY <1>1 DEF Inv, Types, AllDistinct, Untouched, drum, history
<1>3. \A r \in Rings \cup {DIR} : Done(r)' => Done(r)
    BY <1>1, RingsAssumption DEF Inv, Types, Done, drum
<1>4. Kept'
    BY <1>1, <1>3 DEF Inv, Kept, drum
<1> QED
    BY <1>2, <1>4 DEF Inv

LEMMA MarshalRingStep ==
    ASSUME Inv, NEW ring \in Rings \cup {DIR}, MarshalRing(ring)
    PROVE  Inv'
<1>1. /\ pc = "marshal" /\ todo' = todo \ {ring} /\ UNCHANGED <<dir, rings, dirty, pc, start, touched>>
    BY DEF MarshalRing, drum, history
<1>2. \A r \in Rings \cup {DIR} : r # ring /\ Done(r)' => Done(r)
    BY <1>1 DEF Done
<1>3. CASE ring \notin dirty
    <2>1. disk' = disk /\ Done(ring)
        BY <1>3 DEF MarshalRing, Done
    <2>2. Types' /\ AllDistinct' /\ Untouched'
        BY <1>1, <2>1 DEF Inv, Types, AllDistinct, Untouched
    <2>3. Kept'
        BY <1>1, <1>2, <2>1 DEF Inv, Kept
    <2> QED
        BY <2>2, <2>3 DEF Inv
<1>4. CASE ring \in dirty /\ ring = DIR
    <2>1. disk' = [disk EXCEPT !.dir = dir]
        BY <1>4 DEF MarshalRing, Written
    <2>2. disk'.dir = dir /\ disk'.rings = disk.rings
          /\ disk' \in [dir : Dirs \cup {Overwritten}, rings : [Rings -> Held]]
        BY <2>1 DEF Inv, Types
    <2>3. Types' /\ AllDistinct'
        BY <1>1, <2>2 DEF Inv, Types, AllDistinct
    <2>4. Kept'
        BY <1>1, <1>2, <1>4, <2>2, RingsAssumption DEF Inv, Kept
    <2>5. Untouched'
        <3> SUFFICES ASSUME dir # Overwritten, NEW n \in Names \ touched
                     PROVE  /\ Files(dir, disk.rings)[n] = start[n]
                            /\ RingsOf(dir, n) \cap dirty = {}
            BY <1>1, <2>2 DEF Untouched
        <3>1. disk.dir # Overwritten
            BY DEF Inv, Kept
        <3>2. /\ Files(disk.dir, disk.rings)[n] = start[n]
              /\ RingsOf(disk.dir, n) \cap dirty = {}
              /\ RingsOf(dir, n) = RingsOf(disk.dir, n)
            BY <3>1 DEF Inv, Untouched
        <3>3. dir \in Dirs /\ disk.dir \in Dirs /\ Distinct(dir) /\ Distinct(disk.dir)
            BY <3>1 DEF Inv, Types, AllDistinct
        <3>4. Files(dir, disk.rings)[n] = Files(disk.dir, disk.rings)[n]
            BY <3>2, <3>3, SameFile
        <3> QED
            BY <3>2, <3>4
    <2> QED
        BY <2>3, <2>4, <2>5 DEF Inv
<1>5. CASE ring \in dirty /\ ring # DIR
    <2>1. disk' = [disk EXCEPT !.rings[ring] = rings[ring]]
        BY <1>5 DEF MarshalRing, Written
    <2>2. /\ disk'.dir = disk.dir /\ disk'.rings = [disk.rings EXCEPT ![ring] = rings[ring]]
          /\ disk' \in [dir : Dirs \cup {Overwritten}, rings : [Rings -> Held]]
        BY <1>5, <2>1 DEF Inv, Types
    <2>3. Types' /\ AllDistinct'
        BY <1>1, <2>2 DEF Inv, Types, AllDistinct
    <2>4. Kept'
        BY <1>1, <1>2, <1>5, <2>2 DEF Inv, Kept, Types
    <2>5. Untouched'
        <3> SUFFICES ASSUME disk.dir # Overwritten, NEW n \in Names \ touched
                     PROVE  Files(disk.dir, disk'.rings)[n] = start[n]
            BY <1>1, <2>2 DEF Inv, Untouched
        <3>1. Files(disk.dir, disk.rings)[n] = start[n] /\ RingsOf(disk.dir, n) \cap dirty = {}
            BY DEF Inv, Untouched
        <3>2. disk.dir \in Dirs /\ Distinct(disk.dir)
            BY DEF Inv, Types, AllDistinct
        <3>3. \A r \in RingsOf(disk.dir, n) : r \in Rings /\ r # ring
            BY <1>5, <3>1, <3>2, DirIsFunction DEF RingsOf, Entries
        <3>4. \A r \in RingsOf(disk.dir, n) : disk'.rings[r] = disk.rings[r]
            BY <2>2, <3>3 DEF Inv, Types
        <3> QED
            BY <3>1, <3>2, <3>4, SameFile
    <2> QED
        BY <2>3, <2>4, <2>5 DEF Inv
<1> QED
    BY <1>3, <1>4, <1>5

LEMMA ExitOK == ASSUME Inv, Exit PROVE Inv' /\ ExitStep
<1>1. pc = "marshal" /\ todo = {} /\ Unmarshal(disk)
    BY DEF Exit
<1>2. \A r \in Rings \cup {DIR} : Done(r)
    BY <1>1 DEF Done
<1>3. disk.dir = dir /\ disk.rings = rings
    BY <1>2 DEF Inv, Kept, Types
<1>4. Inv'
    BY <1>1, NewProcess DEF Inv, Types, AllDistinct
<1> QED
    BY <1>1, <1>3, <1>4 DEF ExitStep, Unmarshal

LEMMA DieOK == ASSUME Inv, Die PROVE Inv' /\ UntouchedStep
<1>1. Unmarshal(disk)
    BY DEF Die
<1>2. Inv'
    BY <1>1, NewProcess DEF Inv, Types, AllDistinct
<1>3. dir' = disk.dir /\ rings' = disk.rings
    BY <1>1 DEF Unmarshal
<1> QED
    BY <1>2, <1>3 DEF UntouchedStep, Inv, Untouched

(* The ring whose file is left empty was dirty, and so of a touched file.  *)
LEMMA DieInWriteOK ==
    ASSUME Inv, NEW ring \in Rings \cup {DIR}, DieInWrite(ring)
    PROVE  Inv' /\ UntouchedStep
<1>1. ring \in dirty /\ Unmarshal(Written(ring, IF ring = DIR THEN <<>> ELSE Empty))
    BY DEF DieInWrite
<1>2. CASE ring = DIR
    <2> DEFINE fs == [disk EXCEPT !.dir = <<>>]
    <2>1. Unmarshal(fs)
        BY <1>1, <1>2 DEF Written
    <2>2. fs \in [dir : Dirs \cup {Overwritten}, rings : [Rings -> Held]] /\ fs.dir = <<>>
        <3>1. <<>> \in Dirs
            BY DEF Dirs
        <3> QED
            BY <3>1 DEF Inv, Types
    <2>3. Distinct(fs.dir)
        BY <2>2 DEF Distinct, Live
    <2> HIDE DEF fs
    <2>4. Inv'
        BY <2>1, <2>2, <2>3, NewProcess
    <2>5. dir' = <<>>
        BY <2>1, <2>2 DEF Unmarshal
    <2>6. Files(dir', rings') = [n \in Names |-> NoFile]
        BY <2>5 DEF Files, Entries, Live
    <2> QED
        BY <1>2, <2>4, <2>6 DEF UntouchedStep
<1>3. CASE ring # DIR
    <2> DEFINE fs == [disk EXCEPT !.rings[ring] = Empty]
    <2>1. Unmarshal(fs)
        BY <1>1, <1>3 DEF Written
    <2>2. /\ fs \in [dir : Dirs \cup {Overwritten}, rings : [Rings -> Held]]
          /\ fs.dir = disk.dir /\ fs.rings = [disk.rings EXCEPT ![ring] = Empty]
        BY <1>3 DEF Inv, Types, Held
    <2> HIDE DEF fs
    <2>3. Inv'
        BY <2>1, <2>2, NewProcess DEF Inv, AllDistinct
    <2>4. ASSUME NEW n \in Names \ touched, disk.dir # Overwritten
          PROVE  Files(fs.dir, fs.rings)[n] = start[n]
        <3>1. Files(disk.dir, disk.rings)[n] = start[n] /\ RingsOf(disk.dir, n) \cap dirty = {}
            BY <2>4 DEF Inv, Untouched
        <3>2. disk.dir \in Dirs /\ Distinct(disk.dir)
            BY <2>4 DEF Inv, Types, AllDistinct
        <3>3. \A r \in RingsOf(disk.dir, n) : r \in Rings /\ r # ring
            BY <1>1, <3>1, <3>2, DirIsFunction DEF RingsOf, Entries
        <3>4. \A r \in RingsOf(disk.dir, n) : fs.rings[r] = disk.rings[r]
            BY <2>2, <3>3 DEF Inv, Types
        <3>5. ASSUME NEW held, held = fs.rings
              PROVE  Files(disk.dir, held)[n] = Files(disk.dir, disk.rings)[n]
            BY <3>2, <3>4, <3>5, SameFile
        <3> QED
            BY <2>2, <3>1, <3>5
    <2>5. dir' = fs.dir /\ rings' = fs.rings
        BY <2>1 DEF Unmarshal
    <2> QED
        BY <2>3, <2>4, <2>5 DEF UntouchedStep
<1> QED
    BY <1>2, <1>3

-----------------------------------------------------------------------------
(* The theorems.                                                           *)

LEMMA NextInv == Inv /\ [Next]_vars => Inv'
<1> SUFFICES ASSUME Inv, [Next]_vars PROVE Inv'
    OBVIOUS
<1>1. ASSUME NEW name \in Names, Delete(name) PROVE Inv'
    BY <1>1, DeleteStep
<1>2. ASSUME NEW name \in Names, NEW content \in Contents, Save(name, content) PROVE Inv'
    BY <1>2, SaveStep
<1>3. ASSUME NEW ring \in Rings, NEW content \in Contents, Write(ring, content) PROVE Inv'
    BY <1>3, WriteStep
<1>4. CASE Marshal
    BY <1>4, MarshalStep
<1>5. CASE Exit
    BY <1>5, ExitOK
<1>6. CASE Die
    BY <1>6, DieOK
<1>7. ASSUME NEW ring \in Rings \cup {DIR}, MarshalRing(ring) PROVE Inv'
    BY <1>7, MarshalRingStep
<1>8. ASSUME NEW ring \in Rings \cup {DIR}, DieInWrite(ring) PROVE Inv'
    BY <1>8, DieInWriteOK
<1>9. CASE UNCHANGED vars
    BY <1>9 DEF vars, drum, history, Inv, Types, AllDistinct, Kept, Done, Untouched
<1> QED
    BY <1>1, <1>2, <1>3, <1>4, <1>5, <1>6, <1>7, <1>8, <1>9 DEF Next

LEMMA Invariant == Spec => []Inv
BY InitInv, NextInv, PTL DEF Spec

(* Whatever is saved and deleted, by however many processes, and wherever  *)
(* each of them dies: no two files have the same ring, or the same name    *)
(* (src/sio/drum.go:256-340).                                              *)
THEOREM FilesHaveOwnRings == Spec => []NoSharedRing
<1>1. Inv => NoSharedRing
    BY DEF Inv, AllDistinct, Distinct, NoSharedRing
<1> QED
    BY Invariant, <1>1, PTL

(* Saving or deleting the file of a name changes that of no other          *)
(* (src/sio/drum.go:219-340).                                              *)
THEOREM OneFileChanges == Spec => OneFileAtATime
<1>1. Inv /\ [Next]_vars => \A name \in Names : OneFileStep(name)
    <2> SUFFICES ASSUME Inv, NEW name \in Names PROVE OneFileStep(name)
        OBVIOUS
    <2> QED
        BY SaveStep, DeleteStep DEF OneFileStep
<1> QED
    BY Invariant, <1>1, PTL DEF Spec, OneFileAtATime, OneFileStep

(* A process that ends well leaves its files to the next one, none of its  *)
(* changes being in a ring that is not dirty (src/sio/drum.go:90-130).     *)
THEOREM FilesAreKept == Spec => ExitKeepsFiles
<1>1. Inv /\ [Next]_vars => ExitStep
    BY ExitOK DEF ExitStep
<1> QED
    BY Invariant, <1>1, PTL DEF Spec, ExitKeepsFiles, ExitStep

(* A process that dies, also in the middle of writing the rings back, in   *)
(* any order, or of writing one of them, leaves each file it has not       *)
(* touched as it found it.  If it is the directory that it was writing, it *)
(* leaves no file at all (src/sio/drum.go:90-130).                         *)
THEOREM UntouchedFilesSurvive == Spec => UntouchedSurvive
<1>1. Inv /\ [Next]_vars => UntouchedStep
    <2> SUFFICES ASSUME Inv, Die \/ \E ring \in Rings \cup {DIR} : DieInWrite(ring)
                 PROVE  UntouchedStep
        BY DEF UntouchedStep
    <2>1. CASE Die
        BY <2>1, DieOK
    <2>2. ASSUME NEW ring \in Rings \cup {DIR}, DieInWrite(ring) PROVE UntouchedStep
        BY <2>2, DieInWriteOK
    <2> QED
        BY <2>1, <2>2
<1> QED
    BY Invariant, <1>1, PTL DEF Spec, UntouchedSurvive, UntouchedStep
=============================================================================
