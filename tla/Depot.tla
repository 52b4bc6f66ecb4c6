------------------------------- MODULE Depot -------------------------------
(***************************************************************************)
(* The depot of drums, their rings and the files they come from:           *)
(* src/sio/depot.go and the ring operations of src/sio/drum.go, as the     *)
(* commands `run' and `depot save' use them (src/cmd/ucapp).  A process    *)
(* loads the depot from the file system, runs a program, which alerts the  *)
(* depot to select a drum and a ring and then reads and writes whatever is *)
(* selected, or saves a file, and marshals the dirty rings before it ends. *)
(* It may be killed at any time, or fail to write a file it has created.   *)
(*                                                                         *)
(* A ring holds values here, each sent and received at once; module Ring   *)
(* has the bits and the capacity, module Drum the directory of a drum.     *)
(***************************************************************************)
EXTENDS Integers, SequencesExt

CONSTANTS Drums,     \* the numbers of the drums there are directories for
          Rings,     \* the rings that are ever selected, 0 among them
          Requests,  \* what a program sends in an alert
          RunIds,    \* the --drum of the command line
          Values,    \* what a program sends to a ring
          Ones,      \* the value of a byte that was appended and not written
          Contents,  \* the files that may be saved, or found
          Strays,    \* where the loading of a drum may end, see Loaded
          MaxLen,    \* bound of the model: no ring grows beyond it
          MaxSteps,  \* bound of the model: what programs and `depot save' do in all
          Nil, NoRing, NoFile

DEPOT_OP_DRUM == 8388608      \* 1 << 23
DRUM_OP_RING == 256           \* 1 << 8
RING_OP_MASKED == 128         \* the ring operation is below it
RING_OP_REWIND_READ == 0
RING_OP_REWIND_WRITE == 1
Refused == -1                 \* ^uint32(0)

ASSUME DrumsAssumption == Drums \subseteq 0 .. DEPOT_OP_DRUM - 1 /\ Nil \notin Drums
ASSUME RingsAssumption == Rings \subseteq 0 .. DRUM_OP_RING - 1 /\ 0 \in Rings /\ Nil \notin Rings
ASSUME ContentsAssumption == Contents \subseteq Seq(Values) /\ Ones \in Values /\ {MaxLen, MaxSteps} \subseteq Nat
ASSUME FilesAssumption == NoFile \notin Seq(Values)
VARIABLES depot,   \* the Depot: the drum selected, the ring each drum has selected, the rings
          answer,  \* what the last alert was answered
          disk,    \* the file of each ring, or NoFile
          stray,   \* the ring at which the loading of each drum ends, see Loaded
          pc,      \* "idle", "run", "end" or "marshal"
          todo,    \* the rings that Marshal has still to write
          steps,   \* what has been done
          asked,   \* history: the drum and the rings the program was told it has selected
          wrote,   \* history: the rings it has, so told, sent something to, or saved
          cut      \* history: those whose write index it has rewound, or saved

process == <<pc, todo, steps>>
files == <<disk, stray>>
history == <<asked, wrote, cut>>
vars == <<depot, answer, files, process, history>>

Places == Drums \X Rings

RingType == [data : Seq(Values), read : Nat, write : Nat, isDirty : BOOLEAN]

ASSUME NoRingAssumption == NoRing \notin RingType

(* Mutant of Ring: the write index is at the start.                        *)
Ring_start(data) == [data |-> data, read |-> 0, write |-> 0, isDirty |-> FALSE]

(* A ring that is made, or loaded with the data of its file.               *)
Ring(data) == [data |-> data, read |-> 0, write |-> Len(data), isDirty |-> FALSE]

(* The depot with another ring at a place.                                 *)
Put(dp, place, ring) == [dp EXCEPT !.rings[place] = ring]

-----------------------------------------------------------------------------
(* The channel.                                                            *)

(* Drum.selectRing: a ring that is missing is made.                        *)
SelectRing(dp, r) ==
    LET place == <<dp.drum, r>>
    IN  Put([dp EXCEPT !.ring[dp.drum] = r], place,
            IF dp.rings[place] = NoRing THEN Ring(<<>>) ELSE dp.rings[place])

(* The place of the ring that is selected, and what selects ring 0 when a  *)
(* drum has none.                                                          *)
At(dp) == <<dp.drum, dp.ring[dp.drum]>>
Selected(dp) == dp.rings[At(dp)]
Default(dp) == IF dp.ring[dp.drum] = Nil THEN SelectRing(dp, 0) ELSE dp

IsDrumOp(request) == (request \div DEPOT_OP_DRUM) % 2 = 1
IsRingOp(request) == (request \div DRUM_OP_RING) % 2 = 1
DrumOf(request) == request % DEPOT_OP_DRUM
RingOf(request) == request % DRUM_OP_RING
RingOp(request) == request % RING_OP_MASKED

ASSUME RequestsAssumption ==
    /\ Requests \cup RunIds \subseteq Nat
    /\ \A q \in Requests \cup RunIds : IsDrumOp(q) /\ ~IsRingOp(q) => RingOf(q) \in Rings

(* Mutant of SelectDrum: a drum that is missing leaves the other selected. *)
SelectDrum_keeps(dp, id) == IF id \in Drums THEN [dp EXCEPT !.drum = id] ELSE dp

SelectDrum(dp, id) == [dp EXCEPT !.drum = IF id \in Drums THEN id ELSE Nil]

(* Ring.Alert.                                                             *)
AlertRing(dp, op) ==
    CASE op = RING_OP_REWIND_READ ->
             [depot |-> Put(dp, At(dp), [Selected(dp) EXCEPT !.read = 0]), answer |-> 0]
      [] op = RING_OP_REWIND_WRITE ->
             [depot |-> Put(dp, At(dp), [Selected(dp) EXCEPT !.write = 0]), answer |-> 0]
      [] OTHER -> [depot |-> dp, answer |-> Refused]

(* Drum.Alert; a drum or a ring that is nil refuses.                       *)
AlertDrum(dp, request) ==
    IF dp.drum = Nil THEN [depot |-> dp, answer |-> Refused]
    ELSE IF IsRingOp(request)
    THEN IF dp.ring[dp.drum] = Nil THEN [depot |-> dp, answer |-> Refused]
                                   ELSE AlertRing(dp, RingOp(request))
    ELSE LET selected == SelectRing(dp, RingOf(request))
         IN  [depot |-> selected, answer |-> Len(Selected(selected).data)]

(* Depot.Alert: the depot after it, and the answer.                        *)
AlertDepot(dp, request) ==
    IF IsDrumOp(request) THEN AlertDrum(dp, request)
    ELSE [depot |-> SelectDrum(dp, DrumOf(request)),
          answer |-> IF DrumOf(request) \in Drums THEN 0 ELSE Refused]

(* What is in a ring after value is sent to it.                            *)
Sent(ring, value) ==
    LET data == IF ring.write < Len(ring.data) THEN ring.data ELSE Append(ring.data, Ones)
    IN  [ring EXCEPT !.data = [data EXCEPT ![ring.write + 1] = value],
                     !.write = @ + 1,
                     !.isDirty = @ \/ data[ring.write + 1] # value]

(* Mutant of Rewound: the write index goes where the read index goes.      *)
Rewound_start(ring) == [ring EXCEPT !.read = 0, !.write = 0]

(* Mutant of Rewound: the write index goes to the end of the room.         *)
Rewound_room(ring) == [ring EXCEPT !.read = 0, !.write = Len(ring.data) + 1]

Rewound(ring) == [ring EXCEPT !.read = 0, !.write = Len(ring.data)]

Rewind(dp) ==
    [dp EXCEPT !.rings = [p \in Places |-> IF dp.rings[p] = NoRing THEN NoRing
                                           ELSE Rewound(dp.rings[p])]]

-----------------------------------------------------------------------------
(* What a program is told by the answers to its alerts.                    *)

Told(told, request, reply) ==
    IF reply = Refused
    THEN IF IsDrumOp(request) THEN told ELSE [told EXCEPT !.drum = Nil]
    ELSE IF ~IsDrumOp(request) THEN [told EXCEPT !.drum = DrumOf(request)]
    ELSE IF IsRingOp(request) THEN told
    ELSE [told EXCEPT !.ring[told.drum] = RingOf(request)]

(* The place it so takes for selected: ring 0 of a drum if it has asked    *)
(* for no other.                                                           *)
AskedFor(told) == {<<d, told.ring[d]>> : d \in {told.drum} \ {Nil}}
Asked == AskedFor(asked)

NothingAsked == [drum |-> Nil, ring |-> [d \in Drums |-> 0]]

-----------------------------------------------------------------------------
(* A program.                                                              *)

Step == steps < MaxSteps /\ steps' = steps + 1

Alert(request) ==
    LET result == AlertDepot(depot, request)
    IN  /\ pc = "run" /\ Step
        /\ depot' = result.depot /\ answer' = result.answer
        /\ asked' = Told(asked, request, result.answer)
        /\ cut' = IF /\ result.answer # Refused /\ IsDrumOp(request) /\ IsRingOp(request)
                     /\ RingOp(request) = RING_OP_REWIND_WRITE
                  THEN cut \cup Asked ELSE cut
        /\ UNCHANGED <<files, pc, todo, wrote>>

(* Without a drum, ErrDrumMissing.                                         *)
Send(value) ==
    LET dp == Default(depot)
    IN  /\ pc = "run" /\ Step /\ depot.drum # Nil
        /\ Selected(dp).write < MaxLen
        /\ depot' = Put(dp, At(dp), Sent(Selected(dp), value))
        /\ wrote' = wrote \cup Asked
        /\ UNCHANGED <<answer, files, pc, todo, asked, cut>>

(* Without a drum, or at the write index, nothing is received.             *)
Receive ==
    LET dp == Default(depot)
        ring == Selected(dp)
    IN  /\ pc = "run" /\ Step /\ depot.drum # Nil
        /\ depot' = IF ring.read < ring.write THEN Put(dp, At(dp), [ring EXCEPT !.read = @ + 1])
                                             ELSE dp
        /\ UNCHANGED <<answer, files, pc, todo, history>>

-----------------------------------------------------------------------------
(* The commands.  Of one that fails nothing is left: a new process.        *)

MAX_ID == 16777215   \* 0xff_ffff: only `depot save' checks it

(* `run': the two alerts, and the Reset of the CPU rewinds the depot.      *)
Run(id, r) ==
    LET drum == AlertDepot(depot, id)
        ring == AlertDepot(drum.depot, DEPOT_OP_DRUM + r)
    IN  /\ pc = "idle" /\ drum.answer # Refused /\ ring.answer # Refused
        /\ depot' = Rewind(ring.depot) /\ answer' = ring.answer
        /\ asked' = Told(Told(asked, id, drum.answer), DEPOT_OP_DRUM + r, ring.answer)
        /\ pc' = "run"
        /\ UNCHANGED <<files, todo, steps, wrote, cut>>

(* A ring with the content over what it held.                              *)
Over(ring, content) ==
    LET size == IF Len(content) > Len(ring.data) THEN Len(content) ELSE Len(ring.data)
        data == [i \in 1 .. size |-> IF i =< Len(ring.data) THEN ring.data[i] ELSE Ones]
        over == [i \in 1 .. size |-> IF i =< Len(content) THEN content[i] ELSE data[i]]
    IN  [ring EXCEPT !.data = over, !.write = Len(content), !.isDirty = @ \/ over # data]

(* `depot save 0x..': selectDrum, selectRing, which rewinds the write      *)
(* index, and the content byte for byte.                                   *)
SaveRing(id, r, content) ==
    LET drum == AlertDepot(depot, id)
        ring == AlertDepot(drum.depot, DEPOT_OP_DRUM + r)
    IN  /\ pc = "idle" /\ Step /\ id =< MAX_ID /\ drum.answer # Refused /\ ring.answer # Refused
        /\ depot' = Put(ring.depot, At(ring.depot), Over(Selected(ring.depot), content))
        /\ pc' = "end"
        /\ wrote' = {<<id, r>>} /\ cut' = {<<id, r>>}
        /\ UNCHANGED <<answer, files, todo, asked>>

(* `depot save' of a name: Drum.Save puts the content into the ring of its *)
(* entry.                                                                  *)
SaveFile(id, r, content) ==
    LET drum == AlertDepot(depot, id)
    IN  /\ pc = "idle" /\ Step /\ id =< MAX_ID /\ drum.answer # Refused /\ r # 0
        /\ depot' = Put(drum.depot, <<id, r>>, [Ring(content) EXCEPT !.isDirty = TRUE])
        /\ pc' = "end"
        /\ wrote' = {<<id, r>>} /\ cut' = {<<id, r>>}
        /\ UNCHANGED <<answer, files, todo, asked>>

-----------------------------------------------------------------------------
(* The end of a process, and the next one.                                 *)

Dirty(dp) == {p \in Places : dp.rings[p] # NoRing /\ dp.rings[p].isDirty}

(* Mutant of Marshal: every ring is written.                               *)
Marshal_all == /\ pc \in {"run", "end"}
               /\ pc' = "marshal"
               /\ todo' = {p \in Places : depot.rings[p] # NoRing}
               /\ UNCHANGED <<depot, answer, files, steps, history>>

Marshal == /\ pc \in {"run", "end"}
           /\ pc' = "marshal" /\ todo' = Dirty(depot)
           /\ UNCHANGED <<depot, answer, files, steps, history>>

(* Go ranges over the drums and their rings in any order.                  *)
MarshalRing(p) ==
    LET ring == depot.rings[p]
    IN  /\ pc = "marshal" /\ p \in todo
        /\ disk' = [disk EXCEPT ![p] = SubSeq(ring.data, 1, ring.write)]
        /\ todo' = todo \ {p}
        /\ UNCHANGED <<depot, answer, stray, pc, steps, history>>

(* Unmarshal.  The files of a drum are visited in the order of their       *)
(* names, and the first one that looks like a ring's and is not, such as   *)
(* 01.ur.bak, silently ends it: the rings from there on are not loaded.    *)
Hidden(p) == p[2] >= stray[p[1]]

Loaded(fs) ==
    [drum |-> Nil, ring |-> [d \in Drums |-> Nil],
     rings |-> [p \in Places |-> IF fs[p] = NoFile \/ Hidden(p) THEN NoRing ELSE Ring(fs[p])]]

Start(fs) == /\ disk' = fs /\ depot' = Loaded(fs)
             /\ pc' = "idle" /\ todo' = {} /\ answer' = Refused
             /\ asked' = NothingAsked /\ wrote' = {} /\ cut' = {}
             /\ UNCHANGED <<stray, steps>>

Exit == pc = "marshal" /\ todo = {} /\ Start(disk)

Die == pc # "idle" /\ Start(disk)

(* It fails between the creation and the writing of a file.                *)
DieInWrite(p) == pc = "marshal" /\ p \in todo /\ Start([disk EXCEPT ![p] = <<>>])

Init == /\ disk \in [Places -> Contents \cup {NoFile}]
        /\ stray \in [Drums -> Strays]
        /\ depot = Loaded(disk)
        /\ pc = "idle" /\ todo = {} /\ steps = 0 /\ answer = Refused
        /\ asked = NothingAsked /\ wrote = {} /\ cut = {}

Next == \/ \E request \in Requests : Alert(request)
        \/ \E value \in Values : Send(value)
        \/ Receive
        \/ \E id \in RunIds, r \in Rings :
               \/ Run(id, r)
               \/ \E content \in Contents : SaveRing(id, r, content) \/ SaveFile(id, r, content)
        \/ Marshal \/ Exit \/ Die
        \/ \E p \in Places : MarshalRing(p) \/ DieInWrite(p)

Spec == Init /\ [][Next]_vars

-----------------------------------------------------------------------------
(* Properties.                                                             *)

(* The depot of a process: no index is beyond what a ring holds, a ring    *)
(* that a drum has selected is one of its rings, and only dirty rings wait *)
(* to be written.                                                          *)
RingOK(ring) == /\ ring \in RingType
                /\ ring.write =< Len(ring.data) /\ ring.read =< Len(ring.data)

TypeOK ==
    /\ depot.drum \in Drums \cup {Nil}
    /\ \A d \in Drums : depot.ring[d] # Nil => depot.rings[<<d, depot.ring[d]>>] # NoRing
    /\ \A p \in Places : depot.rings[p] # NoRing => RingOK(depot.rings[p])
    /\ pc \in {"idle", "run", "end", "marshal"} /\ todo \subseteq Dirty(depot)
    /\ disk \in [Places -> Seq(Values) \cup {NoFile}]

(* A program that goes by the answers to its alerts knows which ring is    *)
(* selected, also when it comes back to a drum, or is refused one: what it *)
(* sends, receives and rewinds is that ring, and no other is touched.      *)
OnlyAskedRing ==
    [][pc = "run" /\ pc' = "run" =>
       \A p \in Places : depot'.rings[p] # depot.rings[p] => p \in Asked']_vars

(* However a process ends, only a ring gets another file that its program  *)
(* has written to, or rewound the write index of, or that was saved:       *)
(* looking at rings, rewinding their read index and selecting those that   *)
(* are not there leaves nothing behind.  Nothing is said of a rewind of    *)
(* the write index that no write follows.  By src/sio/README.md:41 the     *)
(* file would have to follow it; src/sio/ring.go:153-155 does not mark the *)
(* ring.                                                                   *)
FilesOnlyWhenWritten ==
    [][\A p \in Places : disk'[p] # disk[p] => p \in wrote \cup cut]_vars

(* src/sio/README.md:25-45: what is stored to a ring is appended.  No step *)
(* of any process makes a file shorter than it was, or other, with three   *)
(* exceptions: the write index of its ring has been rewound, or something  *)
(* saved there; the loading did not get to it; or it is the very file      *)
(* whose writing fails, Create having emptied it.                          *)
NothingCutUnasked ==
    [][\A p \in Places : \/ disk[p] = NoFile \/ p \in cut \/ Hidden(p)
                         \/ DieInWrite(p)
                         \/ IsPrefix(disk[p], disk'[p])]_vars

(* A process that comes to its end passes each dirty ring on to the next,  *)
(* up to the write index, and so to its program's first fetch.             *)
ChangesReachNext ==
    [][Exit => \A p \in Dirty(depot) : Hidden(p) \/
         /\ depot'.rings[p].read = 0 /\ depot'.rings[p].write = Len(depot'.rings[p].data)
         /\ depot'.rings[p].data = SubSeq(depot.rings[p].data, 1, depot.rings[p].write)]_vars
=============================================================================
