-------------------------------- MODULE Drum --------------------------------
(***************************************************************************)
(* A drum and its files: src/sio/drum.go.  The files are kept in rings,    *)
(* and the last ring is the directory: entries that give the ring of each  *)
(* name.  A process loads the drum from the file system, a file a ring,    *)
(* saves and deletes files and writes to rings, and marshals the dirty     *)
(* rings one by one before it ends (src/cmd/ucapp/main.go).  It may be     *)
(* killed at any time, or fail to write a file it has just created.        *)
(*                                                                         *)
(* What is in a ring is one value here; module Ring has its bits.  No      *)
(* program writes to the directory's ring.                                 *)
(***************************************************************************)
EXTENDS Integers, SequencesExt, FiniteSetsExt

CONSTANTS Rings,      \* the rings that Save may allocate: 1 to 0xfe
          DIR,        \* ring 0xff, the directory; as an entry's ring: deleted
          Names,      \* the names of files, in upper case
          Contents,   \* what a file may hold
          Empty,      \* a file that was created and not written
          NoRing, NoFile, Overwritten

ASSUME RingsAssumption == Rings \subseteq Nat \ {0} /\ DIR \notin Rings \cup {0}
ASSUME ContentsAssumption == {Empty, NoRing, NoFile} \cap Contents = {}
ASSUME OverwrittenAssumption == Overwritten \notin Seq([name : Names, ring : Rings \cup {DIR}])

VARIABLES dir,       \* the entries, or Overwritten by a file
          rings,     \* what each other ring holds, or NoRing
          dirty,     \* the rings whose isDirty is set
          disk,      \* the file system: dir and rings as last written
          todo,      \* the rings that Marshal has still to visit
          pc,        \* "run" or "marshal"
          start,     \* history: the files when the process began
          touched    \* history: those it has saved, deleted or written to

drum == <<dir, rings, dirty>>
history == <<start, touched>>
vars == <<drum, disk, todo, pc, history>>

Live(d) == {i \in DOMAIN d : d[i].ring # DIR}
Deleted(d) == DOMAIN d \ Live(d)

(* The first entry of name, if there is one.                               *)
Entries(d, name) == {i \in Live(d) : d[i].name = name}
Entry(name) == Min(Entries(dir, name))

(* What each name stands for, with the directory d and the rings r.  That a*)
(* file read as a directory may show files is left out.                    *)
Files(d, r) == [n \in Names |-> IF d = Overwritten \/ Entries(d, n) = {} THEN NoFile
                                 ELSE r[d[Min(Entries(d, n))].ring]]

-----------------------------------------------------------------------------
(* Save.                                                                   *)

Allocated == {dir[i].ring : i \in Live(dir)}

(* Mutant of RingFor: the ring of the last entry looked at is not reset.   *)
RingFor_noReset(name) == IF Entries(dir, name) # {} THEN dir[Entry(name)].ring
                         ELSE IF dir # <<>> /\ Last(dir).ring # DIR THEN Last(dir).ring
                         ELSE IF Rings \subseteq Allocated THEN DIR
                         ELSE Min(Rings \ Allocated)

(* The ring for name: its own, or the first that is free, or, when there   *)
(* is none, the directory's: Save takes this for an allocated one.         *)
RingFor(name) == IF Entries(dir, name) # {} THEN dir[Entry(name)].ring
                 ELSE IF Rings \subseteq Allocated THEN DIR
                 ELSE Min(Rings \ Allocated)

(* Mutant of SlotFor: an entry is appended one too early.                  *)
SlotFor_early(name) == IF Entries(dir, name) # {} THEN Entry(name)
                       ELSE IF Deleted(dir) # {} THEN Min(Deleted(dir))
                       ELSE IF dir # <<>> THEN Len(dir) ELSE 1

SlotFor(name) == IF Entries(dir, name) # {} THEN Entry(name)
                 ELSE IF Deleted(dir) # {} THEN Min(Deleted(dir)) ELSE Len(dir) + 1

Running == pc = "run" /\ dir # Overwritten

(* Mutant of Save: the ring of the content is not marked.                  *)
Save_clean(name, content) ==
    LET ring == RingFor(name)
        slot == SlotFor(name)
        entry == [name |-> name, ring |-> ring]
    IN  /\ Running
        /\ IF ring = DIR THEN dir' = Overwritten /\ UNCHANGED rings
           ELSE /\ dir' = [i \in 1 .. IF slot > Len(dir) THEN slot ELSE Len(dir)
                             |-> IF i = slot THEN entry ELSE dir[i]]
                /\ rings' = [rings EXCEPT ![ring] = content]
        /\ dirty' = dirty \cup {DIR}
        /\ touched' = touched \cup {name}
        /\ UNCHANGED <<disk, todo, pc, start>>

(* The entry, and then the content into its ring.                          *)
Save(name, content) ==
    LET ring == RingFor(name)
        slot == SlotFor(name)
        entry == [name |-> name, ring |-> ring]
    IN  /\ Running
        /\ IF ring = DIR THEN dir' = Overwritten /\ UNCHANGED rings
           ELSE /\ dir' = [i \in 1 .. IF slot > Len(dir) THEN slot ELSE Len(dir)
                             |-> IF i = slot THEN entry ELSE dir[i]]
                /\ rings' = [rings EXCEPT ![ring] = content]
        /\ dirty' = dirty \cup {DIR, ring}
        /\ touched' = touched \cup {name}
        /\ UNCHANGED <<disk, todo, pc, start>>

-----------------------------------------------------------------------------
(* Delete, and what a program does.                                        *)

(* The entry is marked, its ring left alone.  Of a name that is missing    *)
(* nothing is changed.                                                     *)
Delete(name) == /\ Running /\ Entries(dir, name) # {}
                /\ dir' = [dir EXCEPT ![Entry(name)].ring = DIR]
                /\ dirty' = dirty \cup {DIR}
                /\ touched' = touched \cup {name}
                /\ UNCHANGED <<rings, disk, todo, pc, start>>

(* selectRing and Send: a program rewrites a ring, any one, and makes it   *)
(* dirty (module Ring has the writes that do not).                         *)
Write(ring, content) ==
    /\ Running /\ rings[ring] # content
    /\ rings' = [rings EXCEPT ![ring] = content]
    /\ dirty' = dirty \cup {ring}
    /\ touched' = touched \cup {n \in Names : Entries(dir, n) # {} /\ dir[Entry(n)].ring = ring}
    /\ UNCHANGED <<dir, disk, todo, pc, start>>

-----------------------------------------------------------------------------
(* The process: Marshal, its end, and the Unmarshal of the next one.       *)

Marshal == /\ pc = "run" /\ dirty # {}
           /\ pc' = "marshal"
           /\ todo' = {DIR} \cup {r \in Rings : rings[r] # NoRing}
           /\ UNCHANGED <<drum, disk, history>>

(* The file system with the file of a ring replaced.                       *)
Written(ring, content) == IF ring = DIR THEN [disk EXCEPT !.dir = content]
                                        ELSE [disk EXCEPT !.rings[ring] = content]

MarshalRing(ring) ==
    /\ pc = "marshal" /\ ring \in todo
    /\ todo' = todo \ {ring}
    /\ disk' = IF ring \in dirty THEN Written(ring, IF ring = DIR THEN dir ELSE rings[ring])
                                 ELSE disk
    /\ UNCHANGED <<drum, pc, history>>

Unmarshal(fs) == /\ disk' = fs
                 /\ dir' = fs.dir /\ rings' = fs.rings /\ dirty' = {}
                 /\ pc' = "run" /\ todo' = {}
                 /\ start' = Files(fs.dir, fs.rings) /\ touched' = {}

Exit == /\ pc = "marshal" /\ todo = {}
        /\ Unmarshal(disk)

(* The process is killed, or has failed before or within Marshal.          *)
Die == Unmarshal(disk)

(* It fails between the creation and the writing of a file.                *)
DieInWrite(ring) == /\ pc = "marshal" /\ ring \in todo \cap dirty
                    /\ Unmarshal(Written(ring, IF ring = DIR THEN <<>> ELSE Empty))

Init == /\ dir = <<>> /\ rings = [r \in Rings |-> NoRing] /\ dirty = {}
        /\ disk = [dir |-> dir, rings |-> rings]
        /\ pc = "run" /\ todo = {}
        /\ start = Files(dir, rings) /\ touched = {}

Next == \/ \E name \in Names : Delete(name) \/ \E content \in Contents : Save(name, content)
        \/ \E ring \in Rings, content \in Contents : Write(ring, content)
        \/ Marshal \/ Exit \/ Die
        \/ \E ring \in Rings \cup {DIR} : MarshalRing(ring) \/ DieInWrite(ring)

Spec == Init /\ [][Next]_vars

-----------------------------------------------------------------------------
(* Properties.                                                             *)

(* No two files share a name or a ring, in the directory of a process or   *)
(* of the file system, whatever was saved and deleted, also by processes   *)
(* that died.                                                              *)
NoSharedRing ==
    \A d \in {dir, disk.dir} \ {Overwritten} :
        \A i, j \in Live(d) : i # j => d[i].name # d[j].name /\ d[i].ring # d[j].ring

(* A process that ends well leaves to the next one the files as they are:  *)
(* all that it changed was dirty.                                          *)
ExitKeepsFiles == [][Exit /\ dir # Overwritten => Files(dir', rings') = Files(dir, rings)]_vars

(* What is done to the file of a name changes the file of no other name.   *)
OneFileAtATime ==
    [][\A name \in Names :
           (Delete(name) \/ \E content \in Contents : Save(name, content)) /\ dir' # Overwritten
           => \A n \in Names \ {name} : Files(dir', rings')[n] = Files(dir, rings)[n]]_vars

(* When a process is killed, also in the middle of Marshal, or any write   *)
(* of it fails, each file it has not touched is as it found it.  The       *)
(* exception is a failed write of the directory, which Create has emptied: *)
(* then no file is left, those it has not touched included.                *)
UntouchedSurvive ==
    [][(Die \/ \E ring \in Rings \cup {DIR} : DieInWrite(ring)) /\ disk.dir # Overwritten
       => \A n \in Names \ touched :
              \/ Files(dir', rings')[n] = start[n]
              \/ DieInWrite(DIR) /\ \A m \in Names : Files(dir', rings')[m] = NoFile]_vars

(* src/sio/drum.go:302 has an error for it, "unable to allocate ring": a   *)
(* file for which there is no ring is not saved.  It goes into the         *)
(* directory's.                                                            *)
FullIsRefused == dir # Overwritten
=============================================================================
