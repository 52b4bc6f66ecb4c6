---------------------------- MODULE DepotProofs ----------------------------
(***************************************************************************)
(* Proofs about module Depot, for any drums, rings, files and programs.    *)
(***************************************************************************)
EXTENDS Depot, SequenceTheorems, TLAPS

DepotType == [drum : Drums \cup {Nil}, ring : [Drums -> Rings \cup {Nil}],
              rings : [Places -> RingType \cup {NoRing}]]

DepotOK(dp) ==
    /\ dp \in DepotType
    /\ \A d \in Drums : dp.ring[d] # Nil => dp.rings[<<d, dp.ring[d]>>] # NoRing
    /\ \A p \in Places : dp.rings[p] # NoRing => RingOK(dp.rings[p])

(* The depot has selected what the program was told.                       *)
Agrees(dp, told) ==
    /\ told \in [drum : Drums \cup {Nil}, ring : [Drums -> Rings]]
    /\ dp.drum = told.drum
    /\ \A d \in Drums : told.ring[d] = IF dp.ring[d] = Nil THEN 0 ELSE dp.ring[d]

(* No ring but those of the places in S differs.                           *)
Only(dp, dq, S) == \A p \in Places : dq.rings[p] # dp.rings[p] => p \in S

Inv == /\ DepotOK(depot)
       /\ pc \in {"idle", "run", "end", "marshal"}
       /\ disk \in [Places -> Seq(Values) \cup {NoFile}]
       /\ pc \in {"idle", "run"} => Agrees(depot, asked)
       /\ pc = "idle" => depot.drum = Nil /\ Dirty(depot) = {}
       /\ todo \subseteq Dirty(depot)
       /\ pc # "marshal" => todo = {}
       /\ Dirty(depot) \subseteq wrote

-----------------------------------------------------------------------------
(* Rings.                                                                  *)

LEMMA NewRing ==
    ASSUME NEW data \in Seq(Values)
    PROVE  RingOK(Ring(data)) /\ Ring(data).isDirty = FALSE
<1>1. Len(data) \in Nat
    BY LenProperties
<1> QED
    BY <1>1 DEF Ring, RingOK, RingType

LEMMA RingIsRing == ASSUME NEW ring, RingOK(ring) PROVE ring # NoRing /\ ring \in RingType
BY NoRingAssumption DEF RingOK

Made(data, read, write, dirty) ==
    [data |-> data, read |-> read, write |-> write, isDirty |-> dirty]

LEMMA MadeRing ==
    ASSUME NEW data \in Seq(Values), NEW read \in Nat, NEW write \in Nat, NEW dirty \in BOOLEAN,
           read =< Len(data), write =< Len(data)
    PROVE  RingOK(Made(data, read, write, dirty)) /\ Made(data, read, write, dirty).isDirty = dirty
BY DEF Made, RingOK, RingType

LEMMA RingParts ==
    ASSUME NEW ring, RingOK(ring)
    PROVE  /\ ring.data \in Seq(Values) /\ ring.read \in Nat /\ ring.write \in Nat
           /\ ring.isDirty \in BOOLEAN /\ Len(ring.data) \in Nat
           /\ ring.write =< Len(ring.data) /\ ring.read =< Len(ring.data)
           /\ ring = Made(ring.data, ring.read, ring.write, ring.isDirty)
BY LenProperties DEF RingOK, RingType, Made

LEMMA SentRing ==
    ASSUME NEW ring, RingOK(ring), NEW value \in Values
    PROVE  RingOK(Sent(ring, value))
<1> DEFINE long == ring.write < Len(ring.data)
           data == IF long THEN ring.data ELSE Append(ring.data, Ones)
           new == [data EXCEPT ![ring.write + 1] = value]
<1>1. /\ ring.data \in Seq(Values) /\ ring.write \in Nat /\ ring.read \in Nat
      /\ ring.isDirty \in BOOLEAN /\ Len(ring.data) \in Nat
      /\ ring.write =< Len(ring.data) /\ ring.read =< Len(ring.data)
    BY RingParts
<1>2. /\ data \in Seq(Values) /\ Len(data) \in Nat
      /\ ring.write + 1 \in 1 .. Len(data) /\ ring.read =< Len(data)
    <2>1. CASE long
        BY <1>1, <2>1
    <2>2. CASE ~long
        <3>1. /\ Append(ring.data, Ones) \in Seq(Values)
              /\ Len(Append(ring.data, Ones)) = Len(ring.data) + 1
            BY <1>1, AppendProperties, ContentsAssumption
        <3> QED
            BY <1>1, <2>2, <3>1
    <2> QED
        BY <2>1, <2>2
<1>3. new \in Seq(Values) /\ Len(new) = Len(data)
    <2> HIDE DEF data
    <2> QED
        BY <1>2, ExceptSeq
<1>4. Sent(ring, value) = [ring EXCEPT !.data = new, !.write = @ + 1,
                                       !.isDirty = @ \/ data[ring.write + 1] # value]
    BY DEF Sent
<1> DEFINE dirty == data[ring.write + 1] # value
<1> HIDE DEF new, data, dirty
<1>5. (ring.isDirty \/ dirty) \in BOOLEAN
    OBVIOUS
<1>6. Sent(ring, value) = [ring EXCEPT !.data = new, !.write = @ + 1, !.isDirty = @ \/ dirty]
    BY <1>4 DEF dirty
<1>7. PICK flag \in BOOLEAN : Sent(ring, value) = Made(new, ring.read, ring.write + 1, flag)
    BY <1>5, <1>6 DEF Made, RingOK, RingType
<1> QED
    BY <1>1, <1>2, <1>3, <1>7, MadeRing

(* Moving an index leaves a ring as dirty as it is.                        *)
StillRing(new, ring) == RingOK(new) /\ new.isDirty = ring.isDirty

LEMMA RewoundRing ==
    ASSUME NEW ring, RingOK(ring)
    PROVE  /\ StillRing(Rewound(ring), ring)
           /\ StillRing([ring EXCEPT !.read = 0], ring)
           /\ StillRing([ring EXCEPT !.write = 0], ring)
           /\ ring.read < ring.write => StillRing([ring EXCEPT !.read = @ + 1], ring)
<1>1. /\ [ring EXCEPT !.read = 0] = Made(ring.data, 0, ring.write, ring.isDirty)
      /\ [ring EXCEPT !.write = 0] = Made(ring.data, ring.read, 0, ring.isDirty)
      /\ [ring EXCEPT !.read = @ + 1] = Made(ring.data, ring.read + 1, ring.write, ring.isDirty)
    BY DEF Made, RingOK, RingType
<1>2. ring.read < ring.write => ring.read + 1 =< Len(ring.data) /\ ring.read + 1 \in Nat
    BY RingParts
<1>3. \A r \in Nat, w \in Nat : r =< Len(ring.data) /\ w =< Len(ring.data) =>
          StillRing(Made(ring.data, r, w, ring.isDirty), ring)
    BY RingParts, MadeRing DEF StillRing
<1>4. StillRing(Rewound(ring), ring)
    <2> DEFINE new == Rewound(ring)
    <2>1. PICK n \in Nat : n = Len(ring.data)
        BY RingParts
    <2>2. new = [ring EXCEPT !.read = 0, !.write = n]
        BY <2>1 DEF Rewound
    <2> HIDE DEF new
    <2>3. /\ new \in RingType /\ new.read = 0 /\ new.write = n
          /\ new.isDirty = ring.isDirty /\ new.data = ring.data
        BY <2>2 DEF RingOK, RingType
    <2>4. StillRing(new, ring)
        BY <2>1, <2>3 DEF StillRing, RingOK
    <2> QED
        BY <2>4 DEF new
<1> QED
    BY <1>1, <1>2, <1>3, <1>4, RingParts

LEMMA OverRing ==
    ASSUME NEW ring, RingOK(ring), NEW content \in Seq(Values)
    PROVE  RingOK(Over(ring, content))
<1> DEFINE size == IF Len(content) > Len(ring.data) THEN Len(content) ELSE Len(ring.data)
           data == [i \in 1 .. size |-> IF i =< Len(ring.data) THEN ring.data[i] ELSE Ones]
           over == [i \in 1 .. size |-> IF i =< Len(content) THEN content[i] ELSE data[i]]
<1>1. /\ Len(content) \in Nat /\ Len(ring.data) \in Nat /\ size \in Nat
      /\ Len(content) =< size /\ Len(ring.data) =< size
    BY RingParts, LenProperties
<1>2. \A i \in 1 .. size : data[i] \in Values
    BY <1>1, RingParts, ContentsAssumption, ElementOfSeq
<1>3. over \in Seq(Values) /\ Len(over) = size
    <2>1. \A i \in 1 .. size : over[i] \in Values
        <3> HIDE DEF data
        <3> QED
            BY <1>1, <1>2, ElementOfSeq
    <2> HIDE DEF size
    <2>2. over \in [1 .. size -> Values]
        BY <2>1
    <2>3. DOMAIN over = 1 .. size
        OBVIOUS
    <2> HIDE DEF over
    <2> QED
        BY <1>1, <2>2, <2>3, SeqDef, LenProperties
<1>4. Over(ring, content) = [ring EXCEPT !.data = over, !.write = Len(content),
                                         !.isDirty = @ \/ over # data]
    BY DEF Over
<1> HIDE DEF size, data, over
<1>5. (ring.isDirty \/ over # data) \in BOOLEAN
    OBVIOUS
<1>6. PICK flag \in BOOLEAN : Over(ring, content) = Made(over, ring.read, Len(content), flag)
    BY <1>4, <1>5, RingParts DEF Made
<1> QED
    BY <1>1, <1>3, <1>6, RingParts, MadeRing

-----------------------------------------------------------------------------
(* Depots.                                                                 *)

LEMMA PutRing ==
    ASSUME NEW dp, DepotOK(dp), NEW p \in Places, NEW ring, RingOK(ring)
    PROVE  LET dq == Put(dp, p, ring)
           IN  /\ DepotOK(dq) /\ dq.drum = dp.drum /\ dq.ring = dp.ring
               /\ dq.rings[p] = ring /\ \A q \in Places : q # p => dq.rings[q] = dp.rings[q]
<1> DEFINE dq == Put(dp, p, ring)
<1>1. /\ dq.drum = dp.drum /\ dq.ring = dp.ring
      /\ dq.rings = [dp.rings EXCEPT ![p] = ring]
      /\ dq = [drum |-> dp.drum, ring |-> dp.ring, rings |-> [dp.rings EXCEPT ![p] = ring]]
    BY DEF Put, DepotOK, DepotType
<1>2. ring \in RingType /\ ring # NoRing
    BY RingIsRing
<1>3. dq.rings[p] = ring /\ \A q \in Places : q # p => dq.rings[q] = dp.rings[q]
    BY <1>1 DEF DepotOK, DepotType
<1>4. dq \in DepotType
    BY <1>1, <1>2 DEF DepotOK, DepotType
<1> HIDE DEF dq
<1>5. \A d \in Drums : dq.ring[d] # Nil => dq.rings[<<d, dq.ring[d]>>] # NoRing
    <2> SUFFICES ASSUME NEW d \in Drums, dp.ring[d] # Nil
                 PROVE  dq.rings[<<d, dp.ring[d]>>] # NoRing
        BY <1>1
    <2>1. <<d, dp.ring[d]>> \in Places
        BY DEF DepotOK, DepotType, Places
    <2> QED
        BY <1>2, <1>3, <2>1 DEF DepotOK
<1>6. \A q \in Places : dq.rings[q] # NoRing => RingOK(dq.rings[q])
    BY <1>3 DEF DepotOK
<1>7. DepotOK(dq)
    BY <1>4, <1>5, <1>6 DEF DepotOK
<1> QED
    BY <1>1, <1>3, <1>7 DEF dq

LEMMA SelectedRing ==
    ASSUME NEW dp, DepotOK(dp), dp.drum # Nil, NEW r \in Rings
    PROVE  LET dq == SelectRing(dp, r)
           IN  /\ DepotOK(dq) /\ dq.drum = dp.drum
               /\ dq.ring = [dp.ring EXCEPT ![dp.drum] = r]
               /\ At(dq) = <<dp.drum, r>> /\ At(dq) \in Places /\ RingOK(Selected(dq))
               /\ Only(dp, dq, {At(dq)}) /\ Dirty(dq) = Dirty(dp)
<1> DEFINE place == <<dp.drum, r>>
           da == [dp EXCEPT !.ring[dp.drum] = r]
           made == IF dp.rings[place] = NoRing THEN Ring(<<>>) ELSE dp.rings[place]
           dq == SelectRing(dp, r)
<1>1. place \in Places /\ dp.drum \in Drums
    BY DEF DepotOK, DepotType, Places
<1>2. RingOK(made) /\ (dp.rings[place] = NoRing => ~made.isDirty)
    <2>1. <<>> \in Seq(Values)
        OBVIOUS
    <2> QED
        BY <1>1, <2>1, NewRing DEF DepotOK
<1>3. dq = [drum |-> dp.drum, ring |-> [dp.ring EXCEPT ![dp.drum] = r],
            rings |-> [dp.rings EXCEPT ![place] = made]]
    <2>1. dq = Put(da, place, made)
        BY DEF SelectRing
    <2>2. da = [drum |-> dp.drum, ring |-> [dp.ring EXCEPT ![dp.drum] = r], rings |-> dp.rings]
        BY DEF DepotOK, DepotType
    <2> HIDE DEF da, made, place
    <2> QED
        BY <2>1, <2>2 DEF Put
<1> HIDE DEF made, dq
<1>4. /\ dq.drum = dp.drum /\ dq.ring = [dp.ring EXCEPT ![dp.drum] = r]
      /\ dq.rings = [dp.rings EXCEPT ![place] = made]
    BY <1>3
<1>5. /\ dq.rings[place] = made
      /\ \A q \in Places : q # place => dq.rings[q] = dp.rings[q]
    BY <1>1, <1>4 DEF DepotOK, DepotType
<1>6. dq.ring[dp.drum] = r /\ \A d \in Drums : d # dp.drum => dq.ring[d] = dp.ring[d]
    BY <1>1, <1>4 DEF DepotOK, DepotType
<1>7. At(dq) = place
    BY <1>4, <1>6 DEF At
<1>8. made \in RingType /\ made # NoRing
    BY <1>2, RingIsRing
<1>9. dq \in DepotType
    BY <1>1, <1>3, <1>8 DEF DepotOK, DepotType
<1>10. \A d \in Drums : dq.ring[d] # Nil => dq.rings[<<d, dq.ring[d]>>] # NoRing
    <2> SUFFICES ASSUME NEW d \in Drums, dq.ring[d] # Nil
                 PROVE  dq.rings[<<d, dq.ring[d]>>] # NoRing
        OBVIOUS
    <2>1. <<d, dq.ring[d]>> \in Places
        BY <1>9 DEF DepotType, Places
    <2>2. CASE d = dp.drum
        BY <1>5, <1>6, <1>8, <2>2
    <2>3. CASE d # dp.drum
        BY <1>5, <1>6, <2>1, <2>3 DEF DepotOK
    <2> QED
        BY <2>2, <2>3
<1>11. \A q \in Places : dq.rings[q] # NoRing => RingOK(dq.rings[q])
    BY <1>2, <1>5 DEF DepotOK
<1>12. DepotOK(dq)
    BY <1>9, <1>10, <1>11 DEF DepotOK
<1>13. Dirty(dq) = Dirty(dp)
    BY <1>2, <1>5, <1>8 DEF Dirty, made
<1>14. Only(dp, dq, {At(dq)})
    BY <1>5, <1>7 DEF Only
<1>15. RingOK(Selected(dq))
    BY <1>2, <1>5, <1>7 DEF Selected
<1> QED
    BY <1>1, <1>4, <1>7, <1>12, <1>13, <1>14, <1>15 DEF dq

(* The ring that a program reads and writes is there.                      *)
LEMMA DefaultRing ==
    ASSUME NEW dp, DepotOK(dp), dp.drum # Nil, NEW told, Agrees(dp, told)
    PROVE  LET dq == Default(dp)
           IN  /\ DepotOK(dq) /\ Agrees(dq, told) /\ AskedFor(told) = {At(dq)}
               /\ At(dq) \in Places /\ RingOK(Selected(dq))
               /\ Only(dp, dq, {At(dq)}) /\ Dirty(dq) = Dirty(dp)
<1> DEFINE dq == Default(dp)
<1>1. dp.drum \in Drums /\ dp.drum = told.drum
    BY DEF DepotOK, DepotType, Agrees
<1>2. CASE dp.ring[dp.drum] = Nil
    <2>1. dq = SelectRing(dp, 0)
        BY <1>2 DEF Default
    <2>2. 0 \in Rings
        BY RingsAssumption
    <2> HIDE DEF dq
    <2>3. /\ DepotOK(dq) /\ dq.drum = dp.drum /\ dq.ring = [dp.ring EXCEPT ![dp.drum] = 0]
          /\ At(dq) = <<dp.drum, 0>> /\ At(dq) \in Places /\ RingOK(Selected(dq))
          /\ Only(dp, dq, {At(dq)}) /\ Dirty(dq) = Dirty(dp)
        BY <2>1, <2>2, SelectedRing
    <2>4. told.ring[dp.drum] = 0
        BY <1>1, <1>2 DEF Agrees
    <2>5. \A d \in Drums : told.ring[d] = IF dq.ring[d] = Nil THEN 0 ELSE dq.ring[d]
        BY <2>2, <2>3, <2>4, RingsAssumption DEF Agrees, DepotOK, DepotType
    <2>6. Agrees(dq, told)
        BY <2>3, <2>5 DEF Agrees
    <2>7. AskedFor(told) = {At(dq)}
        BY <1>1, <2>3, <2>4 DEF AskedFor
    <2> QED
        BY <2>3, <2>6, <2>7 DEF dq
<1>3. CASE dp.ring[dp.drum] # Nil
    <2>1. dq = dp
        BY <1>3 DEF Default
    <2>2. At(dp) \in Places /\ RingOK(Selected(dp))
        BY <1>1, <1>3 DEF DepotOK, DepotType, At, Selected, Places
    <2>3. told.ring[told.drum] = dp.ring[dp.drum]
        BY <1>1, <1>3 DEF Agrees
    <2>4. AskedFor(told) = {At(dp)}
        BY <1>1, <2>3 DEF AskedFor, At
    <2>5. Only(dp, dp, {At(dp)})
        BY DEF Only
    <2> QED
        BY <2>1, <2>2, <2>4, <2>5
<1> QED
    BY <1>2, <1>3

(* A ring that is put where one was, as dirty as it.                       *)
LEMMA PutStill ==
    ASSUME NEW dp, DepotOK(dp), NEW p \in Places, RingOK(dp.rings[p]),
           NEW ring, StillRing(ring, dp.rings[p])
    PROVE  LET dq == Put(dp, p, ring)
           IN  /\ DepotOK(dq) /\ dq.drum = dp.drum /\ dq.ring = dp.ring
               /\ Only(dp, dq, {p}) /\ Dirty(dq) = Dirty(dp)
<1> DEFINE dq == Put(dp, p, ring)
<1>1. RingOK(ring) /\ ring.isDirty = dp.rings[p].isDirty
    BY DEF StillRing
<1>2. /\ DepotOK(dq) /\ dq.drum = dp.drum /\ dq.ring = dp.ring
      /\ dq.rings[p] = ring /\ \A q \in Places : q # p => dq.rings[q] = dp.rings[q]
    BY <1>1, PutRing
<1>3. ring # NoRing /\ dp.rings[p] # NoRing
    BY <1>1, RingIsRing
<1> HIDE DEF dq
<1>4. Dirty(dq) = Dirty(dp)
    BY <1>1, <1>2, <1>3 DEF Dirty
<1>5. Only(dp, dq, {p})
    BY <1>2 DEF Only
<1> QED
    BY <1>2, <1>4, <1>5 DEF dq

(* One that is written to: no other gets dirty.                            *)
LEMMA PutWritten ==
    ASSUME NEW dp, DepotOK(dp), NEW p \in Places, NEW ring, RingOK(ring)
    PROVE  LET dq == Put(dp, p, ring)
           IN  /\ DepotOK(dq) /\ dq.drum = dp.drum /\ dq.ring = dp.ring
               /\ Only(dp, dq, {p}) /\ Dirty(dq) \subseteq Dirty(dp) \cup {p}
<1> DEFINE dq == Put(dp, p, ring)
<1>1. /\ DepotOK(dq) /\ dq.drum = dp.drum /\ dq.ring = dp.ring
      /\ \A q \in Places : q # p => dq.rings[q] = dp.rings[q]
    BY PutRing
<1> HIDE DEF dq
<1>2. Only(dp, dq, {p}) /\ Dirty(dq) \subseteq Dirty(dp) \cup {p}
    BY <1>1 DEF Only, Dirty
<1> QED
    BY <1>1, <1>2 DEF dq

LEMMA RewoundDepot ==
    ASSUME NEW dp, DepotOK(dp)
    PROVE  LET dq == Rewind(dp)
           IN  /\ DepotOK(dq) /\ dq.drum = dp.drum /\ dq.ring = dp.ring /\ Dirty(dq) = Dirty(dp)
<1> DEFINE new == [p \in Places |-> IF dp.rings[p] = NoRing THEN NoRing ELSE Rewound(dp.rings[p])]
           dq == Rewind(dp)
<1>1. dq = [drum |-> dp.drum, ring |-> dp.ring, rings |-> new]
    <2>1. dq = [dp EXCEPT !.rings = new]
        BY DEF Rewind
    <2> HIDE DEF new, dq
    <2> QED
        BY <2>1 DEF DepotOK, DepotType
<1> HIDE DEF dq
<1>2. dq.drum = dp.drum /\ dq.ring = dp.ring /\ dq.rings = new
    BY <1>1
<1>3. \A p \in Places : dp.rings[p] # NoRing => StillRing(new[p], dp.rings[p])
    BY RewoundRing DEF DepotOK
<1>4. \A p \in Places : /\ dp.rings[p] = NoRing => new[p] = NoRing
                        /\ dp.rings[p] # NoRing => /\ RingOK(new[p]) /\ new[p] # NoRing
                                                   /\ new[p] \in RingType
                                                   /\ new[p].isDirty = dp.rings[p].isDirty
    BY <1>3, RingIsRing DEF StillRing
<1>5. new \in [Places -> RingType \cup {NoRing}]
    BY <1>4
<1> HIDE DEF new
<1>6. dq \in DepotType
    BY <1>1, <1>5 DEF DepotOK, DepotType
<1>7. \A d \in Drums : dq.ring[d] # Nil => dq.rings[<<d, dq.ring[d]>>] # NoRing
    <2> SUFFICES ASSUME NEW d \in Drums, dp.ring[d] # Nil
                 PROVE  new[<<d, dp.ring[d]>>] # NoRing
        BY <1>2
    <2>1. <<d, dp.ring[d]>> \in Places
        BY DEF DepotOK, DepotType, Places
    <2> QED
        BY <1>4, <2>1 DEF DepotOK
<1>8. DepotOK(dq)
    BY <1>2, <1>4, <1>6, <1>7 DEF DepotOK
<1>9. Dirty(dq) = Dirty(dp)
    BY <1>2, <1>4 DEF Dirty
<1> QED
    BY <1>2, <1>8, <1>9 DEF dq

-----------------------------------------------------------------------------
(* Alerts.                                                                 *)

(* What an alert does, and what its answer tells.                          *)
AlertOK(dp, request, told) ==
    LET result == AlertDepot(dp, request)
        after == Told(told, request, result.answer)
    IN  /\ DepotOK(result.depot) /\ Dirty(result.depot) = Dirty(dp)
        /\ Agrees(result.depot, after)
        /\ Only(dp, result.depot, AskedFor(after))

LEMMA AlertSelects ==
    ASSUME NEW dp, DepotOK(dp), NEW told, Agrees(dp, told), NEW request \in Nat,
           ~IsDrumOp(request)
    PROVE  AlertOK(dp, request, told)
<1> DEFINE id == DrumOf(request)
           drum == IF id \in Drums THEN id ELSE Nil
           dq == SelectDrum(dp, id)
           reply == IF id \in Drums THEN 0 ELSE Refused
<1>1. AlertDepot(dp, request) = [depot |-> dq, answer |-> reply]
    BY DEF AlertDepot
<1>2. dq = [drum |-> drum, ring |-> dp.ring, rings |-> dp.rings]
    BY DEF SelectDrum, DepotOK, DepotType
<1>3. Told(told, request, reply) = [told EXCEPT !.drum = drum]
    BY DEF Told, Refused
<1>4. drum \in Drums \cup {Nil}
    OBVIOUS
<1> HIDE DEF drum, dq, reply, id
<1>5. DepotOK(dq)
    BY <1>2, <1>4 DEF DepotOK, DepotType
<1>6. dq.drum = drum /\ dq.ring = dp.ring /\ dq.rings = dp.rings
    BY <1>2
<1>7. Dirty(dq) = Dirty(dp)
    BY <1>6 DEF Dirty
<1>8. Agrees(dq, [told EXCEPT !.drum = drum])
    BY <1>4, <1>6 DEF Agrees
<1>9. \A S : Only(dp, dq, S)
    BY <1>6 DEF Only
<1> QED
    BY <1>1, <1>3, <1>5, <1>7, <1>8, <1>9 DEF AlertOK

(* An alert that leaves the depot as it is.                                *)
LEMMA AlertRefused ==
    ASSUME NEW dp, DepotOK(dp), NEW told, Agrees(dp, told), NEW request \in Nat,
           IsDrumOp(request), AlertDepot(dp, request) = [depot |-> dp, answer |-> Refused]
    PROVE  AlertOK(dp, request, told)
<1>1. Told(told, request, Refused) = told
    BY DEF Told
<1>2. \A S : Only(dp, dp, S)
    BY DEF Only
<1> QED
    BY <1>1, <1>2 DEF AlertOK

LEMMA AlertRewinds ==
    ASSUME NEW dp, DepotOK(dp), NEW told, Agrees(dp, told), NEW request \in Nat,
           IsDrumOp(request), IsRingOp(request), dp.drum # Nil, dp.ring[dp.drum] # Nil,
           NEW ring, StillRing(ring, Selected(dp)),
           AlertDepot(dp, request) = [depot |-> Put(dp, At(dp), ring), answer |-> 0]
    PROVE  AlertOK(dp, request, told)
<1> DEFINE dq == Put(dp, At(dp), ring)
<1>1. Default(dp) = dp
    BY DEF Default
<1>2. AskedFor(told) = {At(dp)} /\ At(dp) \in Places /\ RingOK(Selected(dp))
    BY <1>1, DefaultRing
<1>3. /\ DepotOK(dq) /\ dq.drum = dp.drum /\ dq.ring = dp.ring
      /\ Only(dp, dq, {At(dp)}) /\ Dirty(dq) = Dirty(dp)
    BY <1>2, PutStill DEF Selected
<1>4. Told(told, request, 0) = told
    BY DEF Told, Refused
<1> HIDE DEF dq
<1>5. Agrees(dq, told)
    BY <1>3 DEF Agrees
<1>6. AlertDepot(dp, request) = [depot |-> dq, answer |-> 0]
    BY DEF dq
<1> QED
    BY <1>2, <1>3, <1>4, <1>5, <1>6 DEF AlertOK

LEMMA AlertSelectsRing ==
    ASSUME NEW dp, DepotOK(dp), NEW told, Agrees(dp, told), NEW request \in Nat,
           IsDrumOp(request), ~IsRingOp(request), RingOf(request) \in Rings, dp.drum # Nil
    PROVE  AlertOK(dp, request, told)
<1> DEFINE r == RingOf(request)
           dq == SelectRing(dp, r)
           reply == Len(Selected(dq).data)
           after == [told EXCEPT !.ring[told.drum] = r]
<1>1. AlertDepot(dp, request) = [depot |-> dq, answer |-> reply]
    BY DEF AlertDepot, AlertDrum
<1>2. /\ DepotOK(dq) /\ dq.drum = dp.drum /\ dq.ring = [dp.ring EXCEPT ![dp.drum] = r]
      /\ At(dq) = <<dp.drum, r>> /\ RingOK(Selected(dq))
      /\ Only(dp, dq, {At(dq)}) /\ Dirty(dq) = Dirty(dp)
    BY SelectedRing
<1> HIDE DEF dq
<1>3. reply \in Nat
    BY <1>2, RingParts
<1>4. Told(told, request, reply) = after
    <2> HIDE DEF reply
    <2> QED
        BY <1>3 DEF Told, Refused
<1>5. dp.drum \in Drums /\ dp.drum = told.drum /\ r \in Rings /\ r # Nil
    BY RingsAssumption DEF DepotOK, DepotType, Agrees
<1> HIDE DEF r, reply
<1>6. /\ after.drum = told.drum /\ after.ring = [told.ring EXCEPT ![told.drum] = r]
      /\ after \in [drum : Drums \cup {Nil}, ring : [Drums -> Rings]]
    BY <1>5 DEF Agrees
<1> HIDE DEF after
<1>7. \A d \in Drums : after.ring[d] = IF dq.ring[d] = Nil THEN 0 ELSE dq.ring[d]
    BY <1>2, <1>5, <1>6 DEF Agrees, DepotOK, DepotType
<1>8. Agrees(dq, after)
    BY <1>2, <1>5, <1>6, <1>7 DEF Agrees
<1>9. AskedFor(after) = {At(dq)}
    <2>1. after.ring[after.drum] = r /\ after.drum # Nil
        BY <1>5, <1>6 DEF Agrees
    <2> QED
        BY <1>2, <1>5, <1>6, <2>1 DEF AskedFor
<1> QED
    BY <1>1, <1>2, <1>4, <1>8, <1>9 DEF AlertOK

(* Every alert that a program or a command sends.                          *)
LEMMA AlertAnswers ==
    ASSUME NEW dp, DepotOK(dp), NEW told, Agrees(dp, told), NEW request \in Nat,
           IsDrumOp(request) /\ ~IsRingOp(request) => RingOf(request) \in Rings
    PROVE  AlertOK(dp, request, told)
<1>1. CASE ~IsDrumOp(request)
    BY <1>1, AlertSelects
<1>2. CASE IsDrumOp(request) /\ dp.drum = Nil
    <2>1. AlertDepot(dp, request) = [depot |-> dp, answer |-> Refused]
        BY <1>2 DEF AlertDepot, AlertDrum
    <2> QED
        BY <1>2, <2>1, AlertRefused
<1>3. CASE IsDrumOp(request) /\ dp.drum # Nil /\ ~IsRingOp(request)
    BY <1>3, AlertSelectsRing
<1>4. CASE IsDrumOp(request) /\ dp.drum # Nil /\ IsRingOp(request) /\ dp.ring[dp.drum] = Nil
    <2>1. AlertDepot(dp, request) = [depot |-> dp, answer |-> Refused]
        BY <1>4 DEF AlertDepot, AlertDrum
    <2> QED
        BY <1>4, <2>1, AlertRefused
<1>5. CASE IsDrumOp(request) /\ dp.drum # Nil /\ IsRingOp(request) /\ dp.ring[dp.drum] # Nil
    <2>1. AlertDepot(dp, request) = AlertRing(dp, RingOp(request))
        BY <1>5 DEF AlertDepot, AlertDrum
    <2>2. RingOK(Selected(dp))
        BY <1>5, DefaultRing DEF Default
    <2>3. CASE RingOp(request) = RING_OP_REWIND_READ
        <3>1. AlertDepot(dp, request) =
                  [depot |-> Put(dp, At(dp), [Selected(dp) EXCEPT !.read = 0]), answer |-> 0]
            BY <2>1, <2>3 DEF AlertRing, RING_OP_REWIND_READ, RING_OP_REWIND_WRITE
        <3>2. StillRing([Selected(dp) EXCEPT !.read = 0], Selected(dp))
            BY <2>2, RewoundRing
        <3> QED
            BY <1>5, <3>1, <3>2, AlertRewinds
    <2>4. CASE RingOp(request) = RING_OP_REWIND_WRITE
        <3>1. AlertDepot(dp, request) =
                  [depot |-> Put(dp, At(dp), [Selected(dp) EXCEPT !.write = 0]), answer |-> 0]
            BY <2>1, <2>4 DEF AlertRing, RING_OP_REWIND_READ, RING_OP_REWIND_WRITE
        <3>2. StillRing([Selected(dp) EXCEPT !.write = 0], Selected(dp))
            BY <2>2, RewoundRing
        <3> QED
            BY <1>5, <3>1, <3>2, AlertRewinds
    <2>5. CASE RingOp(request) \notin {RING_OP_REWIND_READ, RING_OP_REWIND_WRITE}
        <3>1. AlertDepot(dp, request) = [depot |-> dp, answer |-> Refused]
            BY <2>1, <2>5 DEF AlertRing
        <3> QED
            BY <1>5, <3>1, AlertRefused
    <2> QED
        BY <2>3, <2>4, <2>5
<1> QED
    BY <1>1, <1>2, <1>3, <1>4, <1>5

(* The two alerts of a command.                                            *)
LEMMA RingRequest ==
    ASSUME NEW r \in Rings
    PROVE  LET request == DEPOT_OP_DRUM + r
           IN  /\ request \in Nat /\ IsDrumOp(request) /\ ~IsRingOp(request)
               /\ RingOf(request) = r
<1>1. r \in Int /\ 0 =< r /\ r < 256
    BY RingsAssumption DEF DRUM_OP_RING
<1>2. (8388608 + r) \div 8388608 = 1
    BY <1>1
<1>3. (8388608 + r) \div 256 = 32768 /\ (8388608 + r) % 256 = r
    BY <1>1
<1> QED
    BY <1>1, <1>2, <1>3 DEF IsDrumOp, IsRingOp, RingOf, DEPOT_OP_DRUM, DRUM_OP_RING

LEMMA CommandDrum ==
    ASSUME NEW dp, DepotOK(dp), dp.drum = Nil, NEW id \in RunIds,
           AlertDepot(dp, id).answer # Refused
    PROVE  /\ id \in Nat /\ ~IsDrumOp(id) /\ DrumOf(id) \in Drums
           /\ AlertDepot(dp, id).depot.drum = DrumOf(id)
           /\ id =< MAX_ID => DrumOf(id) = id
<1>1. id \in Nat
    BY RequestsAssumption
<1>2. ~IsDrumOp(id)
    BY DEF AlertDepot, AlertDrum
<1>3. /\ AlertDepot(dp, id).answer = IF DrumOf(id) \in Drums THEN 0 ELSE Refused
      /\ AlertDepot(dp, id).depot = SelectDrum(dp, DrumOf(id))
    BY <1>2 DEF AlertDepot
<1>4. DrumOf(id) \in Drums
    BY <1>3
<1>5. SelectDrum(dp, DrumOf(id)).drum = DrumOf(id)
    BY <1>4 DEF SelectDrum, DepotOK, DepotType
<1>6. ASSUME id =< MAX_ID PROVE DrumOf(id) = id
    <2>1. id \div 8388608 \in {0, 1}
        BY <1>1, <1>6 DEF MAX_ID
    <2>2. id \div 8388608 = 0
        BY <1>2, <2>1 DEF IsDrumOp, DEPOT_OP_DRUM
    <2> QED
        BY <1>1, <2>2 DEF DrumOf, DEPOT_OP_DRUM
<1> QED
    BY <1>1, <1>2, <1>3, <1>4, <1>5, <1>6

-----------------------------------------------------------------------------
(* Steps.                                                                  *)

OnlyAskedStep ==
    pc = "run" /\ pc' = "run" =>
        \A p \in Places : depot'.rings[p] # depot.rings[p] => p \in Asked'

FilesStep == \A p \in Places : disk'[p] # disk[p] => p \in wrote

StepOK == Inv' /\ OnlyAskedStep /\ FilesStep

Loadable(fs) == fs \in [Places -> Seq(Values) \cup {NoFile}]

LEMMA LoadedDepot ==
    ASSUME NEW fs, Loadable(fs)
    PROVE  /\ DepotOK(Loaded(fs)) /\ Dirty(Loaded(fs)) = {} /\ Loaded(fs).drum = Nil
           /\ Agrees(Loaded(fs), NothingAsked)
<1> DEFINE dp == Loaded(fs)
           loaded == [p \in Places |-> IF fs[p] = NoFile \/ Hidden(p) THEN NoRing ELSE Ring(fs[p])]
           none == [d \in Drums |-> Nil]
<1>1. dp = [drum |-> Nil, ring |-> none, rings |-> loaded]
    BY DEF Loaded
<1>2. \A p \in Places : loaded[p] # NoRing =>
          RingOK(loaded[p]) /\ loaded[p].isDirty = FALSE /\ loaded[p] \in RingType
    BY NewRing, RingIsRing DEF Loadable
<1>3. loaded \in [Places -> RingType \cup {NoRing}]
    BY <1>2
<1>4. none \in [Drums -> Rings \cup {Nil}] /\ \A d \in Drums : none[d] = Nil
    OBVIOUS
<1> HIDE DEF dp, loaded, none
<1>5. dp.drum = Nil /\ dp.ring = none /\ dp.rings = loaded
    BY <1>1
<1>6. DepotOK(dp)
    BY <1>1, <1>2, <1>3, <1>4, <1>5 DEF DepotOK, DepotType
<1>7. Dirty(dp) = {}
    BY <1>2, <1>5 DEF Dirty
<1>8. Agrees(dp, NothingAsked)
    BY <1>4, <1>5, RingsAssumption DEF Agrees, NothingAsked
<1> QED
    BY <1>5, <1>6, <1>7, <1>8 DEF dp

LEMMA InitInv == Init => Inv
<1> SUFFICES ASSUME Init PROVE Inv
    OBVIOUS
<1>1. Loadable(disk)
    BY ContentsAssumption DEF Init, Loadable
<1>2. /\ DepotOK(depot) /\ Dirty(depot) = {} /\ depot.drum = Nil /\ Agrees(depot, asked)
    BY <1>1, LoadedDepot DEF Init
<1> QED
    BY <1>1, <1>2 DEF Init, Inv, Loadable

LEMMA StartOK ==
    ASSUME NEW fs, Loadable(fs), Start(fs), pc # "run" \/ pc' # "run",
           \A p \in Places : fs[p] # disk[p] => p \in wrote
    PROVE  StepOK
<1>1. /\ DepotOK(depot') /\ Dirty(depot') = {} /\ depot'.drum = Nil /\ Agrees(depot', asked')
    BY LoadedDepot DEF Start
<1> QED
    BY <1>1 DEF Start, StepOK, Inv, OnlyAskedStep, FilesStep, Loadable

LEMMA AlertStep ==
    ASSUME Inv, NEW request \in Requests, Alert(request)
    PROVE  StepOK
<1> DEFINE result == AlertDepot(depot, request)
<1>1. DepotOK(depot) /\ Agrees(depot, asked)
    BY DEF Inv, Alert
<1>2. AlertOK(depot, request, asked)
    BY <1>1, AlertAnswers, RequestsAssumption
<1>3. /\ depot' = result.depot /\ asked' = Told(asked, request, result.answer)
      /\ pc = "run" /\ UNCHANGED <<disk, pc, todo, wrote>>
    BY DEF Alert, files
<1> HIDE DEF result
<1>4. /\ DepotOK(depot') /\ Dirty(depot') = Dirty(depot) /\ Agrees(depot', asked')
      /\ Only(depot, depot', AskedFor(asked'))
    BY <1>2, <1>3 DEF AlertOK, result
<1> QED
    BY <1>3, <1>4 DEF StepOK, Inv, OnlyAskedStep, FilesStep, Only, Asked

(* A program's operation on the ring that is selected, or the default.     *)
LEMMA RingStep ==
    ASSUME Inv, pc = "run", UNCHANGED <<disk, pc, todo, asked>>,
           DepotOK(depot'), depot'.drum = Default(depot).drum, depot'.ring = Default(depot).ring,
           Only(Default(depot), depot', {At(Default(depot))}), depot.drum # Nil,
           Dirty(depot') \subseteq wrote'
    PROVE  StepOK
<1> DEFINE dp == Default(depot)
<1>1. /\ Agrees(dp, asked) /\ AskedFor(asked) = {At(dp)} /\ Only(depot, dp, {At(dp)})
    BY DefaultRing DEF Inv
<1> HIDE DEF dp
<1>2. Agrees(depot', asked')
    BY <1>1 DEF Agrees, dp
<1>3. OnlyAskedStep
    BY <1>1 DEF OnlyAskedStep, Asked, Only, dp
<1> QED
    BY <1>2, <1>3 DEF StepOK, Inv, FilesStep

LEMMA SendStep ==
    ASSUME Inv, NEW value \in Values, Send(value)
    PROVE  StepOK
<1> DEFINE dp == Default(depot)
           ring == Sent(Selected(dp), value)
<1>1. /\ pc = "run" /\ depot.drum # Nil /\ depot' = Put(dp, At(dp), ring)
      /\ UNCHANGED <<disk, pc, todo, asked>> /\ wrote' = wrote \cup Asked
    BY DEF Send, files
<1>2. /\ DepotOK(dp) /\ AskedFor(asked) = {At(dp)} /\ At(dp) \in Places
      /\ RingOK(Selected(dp)) /\ Dirty(dp) = Dirty(depot)
    BY <1>1, DefaultRing DEF Inv
<1>3. RingOK(ring)
    BY <1>2, SentRing
<1> HIDE DEF dp, ring
<1>4. /\ DepotOK(depot') /\ depot'.drum = dp.drum /\ depot'.ring = dp.ring
      /\ Only(dp, depot', {At(dp)}) /\ Dirty(depot') \subseteq Dirty(dp) \cup {At(dp)}
    BY <1>1, <1>2, <1>3, PutWritten
<1>5. Dirty(depot') \subseteq wrote'
    BY <1>1, <1>2, <1>4 DEF Inv, Asked
<1> QED
    BY <1>1, <1>4, <1>5, RingStep DEF dp

LEMMA ReceiveStep ==
    ASSUME Inv, Receive
    PROVE  StepOK
<1> DEFINE dp == Default(depot)
           ring == [Selected(dp) EXCEPT !.read = @ + 1]
           more == Selected(dp).read < Selected(dp).write
<1>1. /\ pc = "run" /\ depot.drum # Nil
      /\ depot' = IF more THEN Put(dp, At(dp), ring) ELSE dp
      /\ UNCHANGED <<disk, pc, todo, asked, wrote>>
    BY DEF Receive, files, history
<1>2. /\ DepotOK(dp) /\ At(dp) \in Places /\ RingOK(Selected(dp)) /\ Dirty(dp) = Dirty(depot)
    BY <1>1, DefaultRing DEF Inv
<1>3. more => StillRing(ring, Selected(dp))
    BY <1>2, RewoundRing
<1> HIDE DEF dp, ring, more
<1>4. /\ DepotOK(depot') /\ depot'.drum = dp.drum /\ depot'.ring = dp.ring
      /\ Only(dp, depot', {At(dp)}) /\ Dirty(depot') = Dirty(dp)
    <2>1. CASE more
        BY <1>1, <1>2, <1>3, <2>1, PutStill DEF Selected
    <2>2. CASE ~more
        BY <1>1, <1>2, <2>2 DEF Only
    <2> QED
        BY <2>1, <2>2
<1>5. Dirty(depot') \subseteq wrote'
    BY <1>1, <1>2, <1>4 DEF Inv
<1> QED
    BY <1>1, <1>2, <1>4, <1>5, RingStep DEF dp

-----------------------------------------------------------------------------
(* What the two alerts of a command come to.                               *)
Chosen(id, r) == AlertDepot(AlertDepot(depot, id).depot, DEPOT_OP_DRUM + r)
ToldBy(id, r) == Told(Told(asked, id, AlertDepot(depot, id).answer), DEPOT_OP_DRUM + r,
                      Chosen(id, r).answer)

LEMMA CommandAlerts ==
    ASSUME Inv, pc = "idle", NEW id \in RunIds, NEW r \in Rings,
           AlertDepot(depot, id).answer # Refused
    PROVE  /\ DepotOK(Chosen(id, r).depot) /\ Dirty(Chosen(id, r).depot) = {}
           /\ Agrees(Chosen(id, r).depot, ToldBy(id, r))
           /\ id =< MAX_ID => /\ At(Chosen(id, r).depot) = <<id, r>> /\ <<id, r>> \in Places
                              /\ RingOK(Selected(Chosen(id, r).depot))
<1> DEFINE dp == AlertDepot(depot, id).depot
           told == Told(asked, id, AlertDepot(depot, id).answer)
           request == DEPOT_OP_DRUM + r
<1>1. /\ DepotOK(depot) /\ Agrees(depot, asked) /\ depot.drum = Nil /\ Dirty(depot) = {}
    BY DEF Inv
<1>2. AlertOK(depot, id, asked)
    BY <1>1, AlertAnswers, RequestsAssumption
<1>3. DepotOK(dp) /\ Dirty(dp) = {} /\ Agrees(dp, told)
    BY <1>1, <1>2 DEF AlertOK
<1>4. /\ request \in Nat /\ IsDrumOp(request) /\ ~IsRingOp(request) /\ RingOf(request) = r
    BY RingRequest
<1>5. dp.drum = DrumOf(id) /\ DrumOf(id) \in Drums /\ (id =< MAX_ID => DrumOf(id) = id)
    BY <1>1, CommandDrum
<1> HIDE DEF dp, told, request
<1>6. AlertOK(dp, request, told)
    BY <1>3, <1>4, AlertAnswers
<1>7. /\ Chosen(id, r) = AlertDepot(dp, request)
      /\ ToldBy(id, r) = Told(told, request, AlertDepot(dp, request).answer)
    BY DEF Chosen, ToldBy, dp, told, request
<1>8. /\ DepotOK(Chosen(id, r).depot) /\ Dirty(Chosen(id, r).depot) = {}
      /\ Agrees(Chosen(id, r).depot, ToldBy(id, r))
    BY <1>3, <1>6, <1>7 DEF AlertOK
<1>9. dp.drum # Nil
    BY <1>5, DrumsAssumption
<1>10. Chosen(id, r).depot = SelectRing(dp, r)
    BY <1>4, <1>7, <1>9 DEF AlertDepot, AlertDrum
<1>11. /\ At(SelectRing(dp, r)) = <<dp.drum, r>> /\ <<dp.drum, r>> \in Places
       /\ RingOK(Selected(SelectRing(dp, r)))
    BY <1>3, <1>9, SelectedRing
<1> QED
    BY <1>5, <1>8, <1>10, <1>11

LEMMA RunStep ==
    ASSUME Inv, NEW id \in RunIds, NEW r \in Rings, Run(id, r)
    PROVE  StepOK
<1> DEFINE dp == Chosen(id, r).depot
<1>1. /\ pc = "idle" /\ AlertDepot(depot, id).answer # Refused
      /\ depot' = Rewind(dp) /\ asked' = ToldBy(id, r)
      /\ pc' = "run" /\ UNCHANGED <<disk, todo, wrote>>
    BY DEF Run, Chosen, ToldBy, files
<1>2. DepotOK(dp) /\ Dirty(dp) = {} /\ Agrees(dp, ToldBy(id, r))
    BY <1>1, CommandAlerts
<1> HIDE DEF dp
<1>3. DepotOK(depot') /\ depot'.drum = dp.drum /\ depot'.ring = dp.ring /\ Dirty(depot') = {}
    BY <1>1, <1>2, RewoundDepot
<1>4. Agrees(depot', asked')
    BY <1>1, <1>2, <1>3 DEF Agrees
<1> QED
    BY <1>1, <1>3, <1>4 DEF StepOK, Inv, OnlyAskedStep, FilesStep

(* A command that saves leaves one dirty ring.                             *)
LEMMA SavedStep ==
    ASSUME Inv, pc = "idle", pc' = "end", UNCHANGED <<disk, todo>>, NEW p \in Places,
           NEW dp, DepotOK(dp), Dirty(dp) = {}, NEW ring, RingOK(ring),
           depot' = Put(dp, p, ring), wrote' = {p}
    PROVE  StepOK
<1>1. DepotOK(depot') /\ Dirty(depot') \subseteq wrote'
    BY PutWritten
<1>2. todo = {}
    BY DEF Inv
<1> QED
    BY <1>1, <1>2 DEF StepOK, Inv, OnlyAskedStep, FilesStep

LEMMA SaveRingStep ==
    ASSUME Inv, NEW id \in RunIds, NEW r \in Rings, NEW content \in Contents,
           SaveRing(id, r, content)
    PROVE  StepOK
<1> DEFINE dp == Chosen(id, r).depot
           ring == Over(Selected(dp), content)
<1>1. /\ pc = "idle" /\ id =< MAX_ID /\ AlertDepot(depot, id).answer # Refused
      /\ depot' = Put(dp, At(dp), ring)
      /\ pc' = "end" /\ wrote' = {<<id, r>>} /\ UNCHANGED <<disk, todo>>
    BY DEF SaveRing, Chosen, files
<1>2. /\ DepotOK(dp) /\ Dirty(dp) = {} /\ At(dp) = <<id, r>> /\ <<id, r>> \in Places
      /\ RingOK(Selected(dp))
    BY <1>1, CommandAlerts
<1>3. RingOK(ring)
    BY <1>2, OverRing, ContentsAssumption
<1> HIDE DEF dp, ring
<1> QED
    BY <1>1, <1>2, <1>3, SavedStep

LEMMA SaveFileStep ==
    ASSUME Inv, NEW id \in RunIds, NEW r \in Rings, NEW content \in Contents,
           SaveFile(id, r, content)
    PROVE  StepOK
<1> DEFINE dp == AlertDepot(depot, id).depot
           ring == [Ring(content) EXCEPT !.isDirty = TRUE]
<1>1. /\ pc = "idle" /\ id =< MAX_ID /\ AlertDepot(depot, id).answer # Refused
      /\ depot' = Put(dp, <<id, r>>, ring)
      /\ pc' = "end" /\ wrote' = {<<id, r>>} /\ UNCHANGED <<disk, todo>>
    BY DEF SaveFile, files
<1>2. DepotOK(depot) /\ Agrees(depot, asked) /\ depot.drum = Nil /\ Dirty(depot) = {}
    BY <1>1 DEF Inv
<1>3. DepotOK(dp) /\ Dirty(dp) = {}
    <2>1. AlertOK(depot, id, asked)
        BY <1>2, AlertAnswers, RequestsAssumption
    <2> QED
        BY <1>2, <2>1 DEF AlertOK
<1>4. <<id, r>> \in Places
    BY <1>1, <1>2, CommandDrum DEF Places
<1>5. RingOK(ring)
    <2>1. RingOK(Ring(content))
        BY ContentsAssumption, NewRing
    <2> QED
        BY <2>1 DEF RingOK, RingType
<1> HIDE DEF dp, ring
<1> QED
    BY <1>1, <1>3, <1>4, <1>5, SavedStep

LEMMA MarshalStep ==
    ASSUME Inv, Marshal
    PROVE  StepOK
BY DEF Inv, Marshal, StepOK, OnlyAskedStep, FilesStep, files, history

LEMMA MarshalRingStep ==
    ASSUME Inv, NEW p \in Places, MarshalRing(p)
    PROVE  StepOK
<1> DEFINE ring == depot.rings[p]
           data == SubSeq(ring.data, 1, ring.write)
<1>1. /\ pc = "marshal" /\ p \in todo /\ disk' = [disk EXCEPT ![p] = data]
      /\ todo' = todo \ {p} /\ UNCHANGED <<depot, pc, wrote>>
    BY DEF MarshalRing, history
<1>2. RingOK(ring)
    BY <1>1 DEF Inv, Dirty, DepotOK
<1>3. data \in Seq(Values)
    BY <1>2, RingParts, SubSeqProperties
<1> HIDE DEF data
<1>4. disk' \in [Places -> Seq(Values) \cup {NoFile}]
    BY <1>1, <1>3 DEF Inv
<1>5. \A q \in Places : disk'[q] # disk[q] => q = p
    BY <1>1 DEF Inv
<1> QED
    BY <1>1, <1>4, <1>5 DEF Inv, StepOK, OnlyAskedStep, FilesStep

LEMMA DieInWriteStep ==
    ASSUME Inv, NEW p \in Places, DieInWrite(p)
    PROVE  StepOK
<1> DEFINE fs == [disk EXCEPT ![p] = <<>>]
<1>1. pc = "marshal" /\ p \in todo /\ Start(fs)
    BY DEF DieInWrite
<1>2. <<>> \in Seq(Values)
    OBVIOUS
<1>3. Loadable(fs)
    BY <1>2 DEF Inv, Loadable
<1>4. \A q \in Places : fs[q] # disk[q] => q \in wrote
    BY <1>1 DEF Inv
<1> HIDE DEF fs
<1> QED
    BY <1>1, <1>3, <1>4, StartOK

LEMMA NextStep == Inv /\ [Next]_vars => StepOK
<1> SUFFICES ASSUME Inv, [Next]_vars PROVE StepOK
    OBVIOUS
<1>1. ASSUME NEW request \in Requests, Alert(request) PROVE StepOK
    BY <1>1, AlertStep
<1>2. ASSUME NEW value \in Values, Send(value) PROVE StepOK
    BY <1>2, SendStep
<1>3. CASE Receive
    BY <1>3, ReceiveStep
<1>4. ASSUME NEW id \in RunIds, NEW r \in Rings, Run(id, r) PROVE StepOK
    BY <1>4, RunStep
<1>5. ASSUME NEW id \in RunIds, NEW r \in Rings, NEW content \in Contents,
             SaveRing(id, r, content) \/ SaveFile(id, r, content)
      PROVE  StepOK
    BY <1>5, SaveRingStep, SaveFileStep
<1>6. CASE Marshal
    BY <1>6, MarshalStep
<1>7. CASE Exit \/ Die
    <2>1. Loadable(disk) /\ Start(disk)
        BY <1>7 DEF Exit, Die, Inv, Loadable
    <2>2. pc' # "run"
        BY <2>1 DEF Start
    <2> QED
        BY <2>1, <2>2, StartOK
<1>8. ASSUME NEW p \in Places, MarshalRing(p) \/ DieInWrite(p) PROVE StepOK
    BY <1>8, MarshalRingStep, DieInWriteStep
<1>9. CASE UNCHANGED vars
    BY <1>9 DEF vars, files, process, history, Inv, StepOK, OnlyAskedStep, FilesStep
<1> QED
    BY <1>1, <1>2, <1>3, <1>4, <1>5, <1>6, <1>7, <1>8, <1>9 DEF Next

-----------------------------------------------------------------------------
(* What reaches the next process.                                          *)

(* What Marshal makes of a ring.                                           *)
Marshaled(ring) == SubSeq(ring.data, 1, ring.write)

(* While Marshal is at work, each dirty ring is in its file or waits.      *)
Written == pc = "marshal" =>
               \A p \in Dirty(depot) \ todo : disk[p] = Marshaled(depot.rings[p])

LEMMA WrittenStep == Inv /\ Written /\ [Next]_vars => Written'
<1> SUFFICES ASSUME Inv, Written, [Next]_vars, pc' = "marshal"
             PROVE  \A p \in Dirty(depot') \ todo' : disk'[p] = Marshaled(depot'.rings[p])
    BY DEF Written
<1>1. CASE Marshal
    BY <1>1 DEF Marshal
<1>2. ASSUME NEW q \in Places, MarshalRing(q)
      PROVE  \A p \in Dirty(depot') \ todo' : disk'[p] = Marshaled(depot'.rings[p])
    <2>1. /\ pc = "marshal" /\ disk' = [disk EXCEPT ![q] = Marshaled(depot.rings[q])]
          /\ todo' = todo \ {q} /\ depot' = depot
        BY <1>2 DEF MarshalRing, Marshaled
    <2>2. disk \in [Places -> Seq(Values) \cup {NoFile}]
        BY DEF Inv
    <2>3. ASSUME NEW p \in Dirty(depot) \ (todo \ {q})
          PROVE  disk'[p] = Marshaled(depot.rings[p])
        <3>1. p \in Places
            BY DEF Dirty
        <3>2. CASE p = q
            BY <2>1, <2>2, <3>1, <3>2
        <3>3. CASE p # q
            <4>1. disk[p] = Marshaled(depot.rings[p])
                BY <2>1, <2>3, <3>3 DEF Written
            <4> QED
                BY <2>1, <2>2, <3>1, <3>3, <4>1
        <3> QED
            BY <3>2, <3>3
    <2> QED
        BY <2>1, <2>3
<1>3. CASE UNCHANGED vars
    BY <1>3 DEF vars, files, process, Written
<1>4. \A request \in Requests : ~Alert(request)
    BY DEF Alert
<1>5. (\A value \in Values : ~Send(value)) /\ ~Receive
    BY DEF Send, Receive
<1>6. \A id \in RunIds, r \in Rings :
          ~Run(id, r) /\ \A content \in Contents : ~SaveRing(id, r, content) /\ ~SaveFile(id, r, content)
    BY DEF Run, SaveRing, SaveFile
<1>7. ~Exit /\ ~Die /\ \A p \in Places : ~DieInWrite(p)
    BY DEF Exit, Die, DieInWrite, Start
<1> QED
    BY <1>1, <1>2, <1>3, <1>4, <1>5, <1>6, <1>7 DEF Next

(* At the end, all of them are in their files, which the next one loads.   *)
LEMMA ExitStep ==
    ASSUME Inv, Written, Exit, NEW p \in Dirty(depot), ~Hidden(p)
    PROVE  depot'.rings[p] = Ring(Marshaled(depot.rings[p]))
<1>1. p \in Places /\ depot.rings[p] # NoRing
    BY DEF Dirty
<1>2. RingOK(depot.rings[p])
    BY <1>1 DEF Inv, DepotOK
<1>3. Marshaled(depot.rings[p]) \in Seq(Values)
    BY <1>2, RingParts, SubSeqProperties DEF Marshaled
<1>4. disk[p] = Marshaled(depot.rings[p]) /\ depot' = Loaded(disk)
    BY DEF Written, Exit, Start
<1>5. disk[p] # NoFile
    BY <1>3, <1>4, FilesAssumption
<1>6. Loaded(disk).rings[p] = Ring(disk[p])
    BY <1>1, <1>5 DEF Loaded
<1> QED
    BY <1>4, <1>6

ChangesStep ==
    Exit => \A p \in Dirty(depot) : Hidden(p) \/
         /\ depot'.rings[p].read = 0 /\ depot'.rings[p].write = Len(depot'.rings[p].data)
         /\ depot'.rings[p].data = SubSeq(depot.rings[p].data, 1, depot.rings[p].write)

-----------------------------------------------------------------------------
(* Files do not get shorter.                                               *)

(* A ring that is still there and still begins with what it held.          *)
Grows(old, new) ==
    old # NoRing => /\ RingOK(new) /\ old.write =< new.write
                    /\ \A i \in 1 .. old.write : new.data[i] = old.data[i]

(* All but those of the places in S.                                       *)
AllGrow(dp, dq, S) == \A p \in Places \ S : Grows(dp.rings[p], dq.rings[p])

Holds(ring, file) == /\ ring # NoRing /\ Len(file) =< ring.write
                     /\ \A i \in 1 .. Len(file) : ring.data[i] = file[i]

(* What a file holds is in its ring, unless the ring has been cut.         *)
Kept == /\ \A p \in Places : \/ disk[p] = NoFile \/ p \in cut \/ Hidden(p)
                             \/ Holds(depot.rings[p], disk[p])
        /\ pc = "idle" => cut = {}

LEMMA SameGrows == ASSUME NEW ring, RingOK(ring) PROVE Grows(ring, ring)
BY RingParts DEF Grows

LEMMA GrowTwice ==
    ASSUME NEW dp, DepotOK(dp), NEW dq, NEW ds, NEW S, AllGrow(dp, dq, {}), AllGrow(dq, ds, S)
    PROVE  AllGrow(dp, ds, S)
<1> SUFFICES ASSUME NEW p \in Places \ S, dp.rings[p] # NoRing
             PROVE  Grows(dp.rings[p], ds.rings[p])
    BY DEF AllGrow, Grows
<1> DEFINE a == dp.rings[p]
           b == dq.rings[p]
           c == ds.rings[p]
<1>1. Grows(a, b) /\ Grows(b, c)
    BY DEF AllGrow
<1>2. RingOK(a) /\ RingOK(b) /\ b # NoRing
    BY <1>1, RingIsRing DEF DepotOK, Grows
<1> HIDE DEF a, b, c
<1>3. RingOK(c) /\ a.write \in Nat /\ b.write \in Nat /\ c.write \in Nat
    BY <1>1, <1>2, RingParts DEF Grows
<1>4. a # NoRing
    BY DEF a
<1>5. \A i \in 1 .. a.write : i \in 1 .. b.write
    BY <1>1, <1>2, <1>3, <1>4 DEF Grows
<1>6. Grows(a, c)
    BY <1>1, <1>2, <1>3, <1>4, <1>5 DEF Grows
<1> QED
    BY <1>6 DEF a, c

(* Where no ring differs but that of p, that ring has to grow.             *)
LEMMA OnlyGrows ==
    ASSUME NEW dp, DepotOK(dp), NEW dq, NEW p \in Places, NEW S,
           Only(dp, dq, {p}), p \in S \/ Grows(dp.rings[p], dq.rings[p])
    PROVE  AllGrow(dp, dq, S)
<1> SUFFICES ASSUME NEW q \in Places \ S, dp.rings[q] # NoRing
             PROVE  Grows(dp.rings[q], dq.rings[q])
    BY DEF AllGrow, Grows
<1>1. CASE q = p
    BY <1>1
<1>2. CASE q # p
    BY <1>2, SameGrows DEF Only, DepotOK
<1> QED
    BY <1>1, <1>2

LEMMA SelectGrows ==
    ASSUME NEW dp, DepotOK(dp), dp.drum # Nil, NEW r \in Rings
    PROVE  AllGrow(dp, SelectRing(dp, r), {})
<1> DEFINE place == <<dp.drum, r>>
           da == [dp EXCEPT !.ring[dp.drum] = r]
           dq == SelectRing(dp, r)
<1>1. /\ At(dq) = place /\ At(dq) \in Places /\ Only(dp, dq, {At(dq)})
    BY SelectedRing
<1>2. ASSUME dp.rings[place] # NoRing
      PROVE  Grows(dp.rings[place], dq.rings[place])
    <2>1. dq = Put(da, place, dp.rings[place])
        BY <1>2 DEF SelectRing
    <2>2. da.rings = dp.rings /\ DOMAIN da = DOMAIN dp /\ dp.rings \in [Places -> RingType \cup {NoRing}]
          /\ "rings" \in DOMAIN dp
        BY DEF DepotOK, DepotType
    <2> HIDE DEF da, place, dq
    <2>3. dq.rings = [dp.rings EXCEPT ![place] = dp.rings[place]]
        BY <2>1, <2>2 DEF Put
    <2>4. dq.rings[place] = dp.rings[place]
        BY <1>1, <2>2, <2>3
    <2> QED
        BY <1>1, <1>2, <2>4, SameGrows DEF DepotOK
<1> QED
    BY <1>1, <1>2, OnlyGrows DEF Grows

LEMMA DefaultGrows ==
    ASSUME NEW dp, DepotOK(dp), dp.drum # Nil
    PROVE  AllGrow(dp, Default(dp), {})
<1>1. CASE dp.ring[dp.drum] = Nil
    BY <1>1, RingsAssumption, SelectGrows DEF Default
<1>2. CASE dp.ring[dp.drum] # Nil
    BY <1>2, SameGrows DEF Default, AllGrow, Grows, DepotOK
<1> QED
    BY <1>1, <1>2

(* Rewinding the write index is the only alert that cuts a ring.           *)
Cuts(dp, request) ==
    /\ AlertDepot(dp, request).answer # Refused /\ IsDrumOp(request) /\ IsRingOp(request)
    /\ RingOp(request) = RING_OP_REWIND_WRITE

LEMMA AlertGrows ==
    ASSUME NEW dp, DepotOK(dp), NEW request \in Nat,
           IsDrumOp(request) /\ ~IsRingOp(request) => RingOf(request) \in Rings
    PROVE  /\ ~Cuts(dp, request) => AllGrow(dp, AlertDepot(dp, request).depot, {})
           /\ Cuts(dp, request) => /\ dp.drum # Nil /\ dp.ring[dp.drum] # Nil
                                   /\ AllGrow(dp, AlertDepot(dp, request).depot, {At(dp)})
<1>1. AllGrow(dp, dp, {})
    BY SameGrows DEF AllGrow, Grows, DepotOK
<1>2. CASE ~IsDrumOp(request)
    <2>1. AlertDepot(dp, request).depot = SelectDrum(dp, DrumOf(request))
        BY <1>2 DEF AlertDepot
    <2>2. SelectDrum(dp, DrumOf(request)).rings = dp.rings
        BY DEF SelectDrum, DepotOK, DepotType
    <2> QED
        BY <1>1, <1>2, <2>1, <2>2 DEF AllGrow, Cuts
<1>3. CASE IsDrumOp(request) /\ (dp.drum = Nil \/ (IsRingOp(request) /\ dp.ring[dp.drum] = Nil))
    <2>1. AlertDepot(dp, request) = [depot |-> dp, answer |-> Refused]
        BY <1>3 DEF AlertDepot, AlertDrum
    <2> QED
        BY <1>1, <2>1 DEF Cuts
<1>4. CASE IsDrumOp(request) /\ dp.drum # Nil /\ ~IsRingOp(request)
    <2>1. AlertDepot(dp, request).depot = SelectRing(dp, RingOf(request))
        BY <1>4 DEF AlertDepot, AlertDrum
    <2> QED
        BY <1>4, <2>1, SelectGrows DEF Cuts
<1>5. CASE IsDrumOp(request) /\ dp.drum # Nil /\ IsRingOp(request) /\ dp.ring[dp.drum] # Nil
    <2> DEFINE ring == Selected(dp)
               op == RingOp(request)
    <2>1. AlertDepot(dp, request) = AlertRing(dp, op)
        BY <1>5 DEF AlertDepot, AlertDrum
    <2>2. At(dp) \in Places /\ RingOK(ring) /\ ring = dp.rings[At(dp)]
        BY <1>5 DEF DepotOK, DepotType, At, Selected, Places
    <2>3. /\ StillRing([ring EXCEPT !.read = 0], ring) /\ StillRing([ring EXCEPT !.write = 0], ring)
          /\ [ring EXCEPT !.read = 0].write = ring.write /\ [ring EXCEPT !.read = 0].data = ring.data
        BY <2>2, RewoundRing DEF RingOK, RingType
    <2> HIDE DEF ring, op
    <2>4. Grows(ring, [ring EXCEPT !.read = 0])
        BY <2>2, <2>3, RingParts DEF Grows, StillRing
    <2>5. CASE op = RING_OP_REWIND_READ
        <3> DEFINE new == [ring EXCEPT !.read = 0]
                   dq == Put(dp, At(dp), new)
        <3>1. AlertDepot(dp, request).depot = dq
            BY <2>1, <2>5 DEF AlertRing, RING_OP_REWIND_READ, RING_OP_REWIND_WRITE, ring
        <3>2. RingOK(new)
            BY <2>3 DEF StillRing
        <3>3. Grows(ring, new)
            BY <2>4
        <3> HIDE DEF new, dq
        <3>4. dq.rings[At(dp)] = new /\ Only(dp, dq, {At(dp)})
            BY <2>2, <3>2, PutRing DEF dq, Only
        <3>5. AllGrow(dp, dq, {})
            BY <2>2, <3>3, <3>4, OnlyGrows
        <3> QED
            BY <2>5, <3>1, <3>5 DEF Cuts, RING_OP_REWIND_READ, RING_OP_REWIND_WRITE, op
    <2>6. CASE op = RING_OP_REWIND_WRITE
        <3> DEFINE new == [ring EXCEPT !.write = 0]
                   dq == Put(dp, At(dp), new)
        <3>1. AlertDepot(dp, request) = [depot |-> dq, answer |-> 0]
            BY <2>1, <2>6 DEF AlertRing, RING_OP_REWIND_READ, RING_OP_REWIND_WRITE, ring
        <3>2. RingOK(new)
            BY <2>3 DEF StillRing
        <3> HIDE DEF new, dq
        <3>3. Only(dp, dq, {At(dp)})
            BY <2>2, <3>2, PutRing DEF dq, Only
        <3>4. AllGrow(dp, dq, {At(dp)})
            BY <2>2, <3>3, OnlyGrows
        <3>5. Cuts(dp, request)
            BY <1>5, <2>6, <3>1 DEF Cuts, Refused, op
        <3> QED
            BY <1>5, <3>1, <3>4, <3>5
    <2>7. CASE op \notin {RING_OP_REWIND_READ, RING_OP_REWIND_WRITE}
        <3>1. AlertDepot(dp, request) = [depot |-> dp, answer |-> Refused]
            BY <2>1, <2>7 DEF AlertRing
        <3> QED
            BY <1>1, <3>1 DEF Cuts
    <2> QED
        BY <2>5, <2>6, <2>7
<1> QED
    BY <1>2, <1>3, <1>4, <1>5

LEMMA GrowKeeps ==
    ASSUME Inv, Kept, UNCHANGED <<disk, stray>>, cut \subseteq cut', AllGrow(depot, depot', cut'),
           pc' # "idle" \/ UNCHANGED <<pc, cut>>
    PROVE  Kept'
<1> SUFFICES ASSUME NEW p \in Places, disk[p] # NoFile, p \notin cut', ~Hidden(p)
             PROVE  Holds(depot'.rings[p], disk[p])
    BY DEF Kept, Hidden
<1> DEFINE a == depot.rings[p]
           b == depot'.rings[p]
           n == Len(disk[p])
<1>1. Holds(a, disk[p]) /\ Grows(a, b)
    BY DEF Kept, AllGrow
<1>2. RingOK(a) /\ n \in Nat
    BY <1>1, LenProperties DEF Inv, DepotOK, Holds
<1> HIDE DEF a, b
<1>3. a # NoRing /\ RingOK(b) /\ a.write \in Nat /\ b.write \in Nat /\ n =< a.write /\ a.write =< b.write
    BY <1>1, <1>2, RingParts DEF Holds, Grows
<1>4. \A i \in 1 .. n : i \in 1 .. a.write
    BY <1>2, <1>3
<1>5. \A i \in 1 .. n : b.data[i] = disk[p][i]
    BY <1>1, <1>3, <1>4 DEF Holds, Grows
<1>6. b # NoRing /\ n =< b.write
    BY <1>2, <1>3, RingIsRing
<1> QED
    BY <1>5, <1>6 DEF Holds, b

LEMMA AlertCuts ==
    ASSUME Inv, Kept, NEW request \in Requests, Alert(request)
    PROVE  Kept'
<1>1. /\ pc = "run" /\ depot' = AlertDepot(depot, request).depot /\ UNCHANGED <<disk, stray, pc>>
      /\ cut' = IF Cuts(depot, request) THEN cut \cup Asked ELSE cut
    BY DEF Alert, Cuts, files
<1>2. DepotOK(depot) /\ Agrees(depot, asked) /\ request \in Nat
      /\ (IsDrumOp(request) /\ ~IsRingOp(request) => RingOf(request) \in Rings)
    BY <1>1, RequestsAssumption DEF Inv
<1>3. CASE ~Cuts(depot, request)
    <2>1. AllGrow(depot, depot', {})
        BY <1>1, <1>2, <1>3, AlertGrows
    <2> QED
        BY <1>1, <1>3, <2>1, GrowKeeps DEF AllGrow
<1>4. CASE Cuts(depot, request)
    <2>1. /\ depot.drum # Nil /\ depot.ring[depot.drum] # Nil
          /\ AllGrow(depot, depot', {At(depot)})
        BY <1>1, <1>2, <1>4, AlertGrows
    <2>2. Asked = {At(depot)}
        BY <1>2, <2>1, DefaultRing DEF Default, Asked
    <2> QED
        BY <1>1, <1>4, <2>1, <2>2, GrowKeeps DEF AllGrow
<1> QED
    BY <1>3, <1>4

LEMMA SentGrows ==
    ASSUME NEW ring, RingOK(ring), NEW value \in Values
    PROVE  Grows(ring, Sent(ring, value))
<1> DEFINE data == IF ring.write < Len(ring.data) THEN ring.data ELSE Append(ring.data, Ones)
           new == [data EXCEPT ![ring.write + 1] = value]
           dirty == data[ring.write + 1] # value
<1>1. /\ ring.data \in Seq(Values) /\ ring.write \in Nat /\ Len(ring.data) \in Nat
      /\ ring.write =< Len(ring.data)
    BY RingParts
<1>2. /\ data \in Seq(Values) /\ Len(data) \in Nat /\ ring.write =< Len(data)
      /\ \A i \in 1 .. ring.write : data[i] = ring.data[i]
    BY <1>1, AppendProperties, ContentsAssumption
<1>3. Sent(ring, value) = [ring EXCEPT !.data = new, !.write = @ + 1, !.isDirty = @ \/ dirty]
    BY DEF Sent
<1>4. \A i \in 1 .. ring.write : new[i] = ring.data[i]
    <2> HIDE DEF data
    <2>1. \A i \in 1 .. ring.write : i \in 1 .. Len(data) /\ i # ring.write + 1
        BY <1>1, <1>2
    <2>2. DOMAIN data = 1 .. Len(data)
        BY <1>2, LenProperties
    <2> QED
        BY <1>2, <2>1, <2>2
<1> HIDE DEF data, new, dirty
<1>5. Sent(ring, value).write = ring.write + 1 /\ Sent(ring, value).data = new
    BY <1>3 DEF RingOK, RingType
<1>6. RingOK(Sent(ring, value))
    BY SentRing
<1> QED
    BY <1>1, <1>4, <1>5, <1>6 DEF Grows

LEMMA SendCuts ==
    ASSUME Inv, Kept, NEW value \in Values, Send(value)
    PROVE  Kept'
<1> DEFINE dp == Default(depot)
           ring == Sent(Selected(dp), value)
<1>1. /\ pc = "run" /\ depot.drum # Nil /\ depot' = Put(dp, At(dp), ring)
      /\ UNCHANGED <<disk, stray, pc, cut>>
    BY DEF Send, files
<1>2. /\ DepotOK(dp) /\ At(dp) \in Places /\ RingOK(Selected(dp))
    BY <1>1, DefaultRing DEF Inv
<1>3. RingOK(ring) /\ Grows(Selected(dp), ring)
    BY <1>2, SentRing, SentGrows
<1>4. AllGrow(depot, dp, {})
    BY <1>1, DefaultGrows DEF Inv
<1> HIDE DEF dp, ring
<1>5. depot'.rings[At(dp)] = ring /\ Only(dp, depot', {At(dp)})
    BY <1>1, <1>2, <1>3, PutRing DEF Only
<1>6. AllGrow(dp, depot', {})
    BY <1>2, <1>3, <1>5, OnlyGrows DEF Selected
<1>7. AllGrow(depot, depot', {})
    BY <1>4, <1>6, GrowTwice DEF Inv
<1> QED
    BY <1>1, <1>7, GrowKeeps DEF AllGrow

LEMMA ReceiveCuts ==
    ASSUME Inv, Kept, Receive
    PROVE  Kept'
<1> DEFINE dp == Default(depot)
           old == Selected(dp)
           ring == [old EXCEPT !.read = @ + 1]
           more == old.read < old.write
<1>1. /\ pc = "run" /\ depot.drum # Nil
      /\ depot' = IF more THEN Put(dp, At(dp), ring) ELSE dp
      /\ UNCHANGED <<disk, stray, pc, cut>>
    BY DEF Receive, files, history
<1>2. DepotOK(dp) /\ At(dp) \in Places /\ RingOK(old) /\ old = dp.rings[At(dp)]
    BY <1>1, DefaultRing DEF Inv, Selected
<1>3. ring.write = old.write /\ ring.data = old.data /\ (more => RingOK(ring))
    BY <1>2, RewoundRing DEF RingOK, RingType, StillRing
<1>4. AllGrow(depot, dp, {})
    BY <1>1, DefaultGrows DEF Inv
<1> HIDE DEF dp, old, ring, more
<1>5. CASE more
    <2>1. depot'.rings[At(dp)] = ring /\ Only(dp, depot', {At(dp)})
        BY <1>1, <1>2, <1>3, <1>5, PutRing DEF Only
    <2>2. Grows(old, ring)
        BY <1>2, <1>3, <1>5, RingParts DEF Grows
    <2>3. AllGrow(dp, depot', {})
        BY <1>2, <2>1, <2>2, OnlyGrows
    <2>4. AllGrow(depot, depot', {})
        BY <1>4, <2>3, GrowTwice DEF Inv
    <2> QED
        BY <1>1, <2>4, GrowKeeps DEF AllGrow
<1>6. CASE ~more
    BY <1>1, <1>4, <1>6, GrowKeeps DEF AllGrow
<1> QED
    BY <1>5, <1>6

(* The alerts of a command cut nothing.                                    *)
LEMMA CommandGrows ==
    ASSUME Inv, pc = "idle", NEW id \in RunIds, NEW r \in Rings,
           AlertDepot(depot, id).answer # Refused
    PROVE  /\ AllGrow(depot, AlertDepot(depot, id).depot, {})
           /\ AllGrow(depot, Chosen(id, r).depot, {})
<1> DEFINE dp == AlertDepot(depot, id).depot
           request == DEPOT_OP_DRUM + r
<1>1. /\ DepotOK(depot) /\ Agrees(depot, asked) /\ depot.drum = Nil
    BY DEF Inv
<1>2. /\ id \in Nat /\ (IsDrumOp(id) /\ ~IsRingOp(id) => RingOf(id) \in Rings)
    BY RequestsAssumption
<1>3. ~Cuts(depot, id) /\ AllGrow(depot, dp, {})
    BY <1>1, <1>2, AlertGrows
<1>4. AlertOK(depot, id, asked)
    BY <1>1, <1>2, AlertAnswers
<1>5. DepotOK(dp)
    BY <1>4 DEF AlertOK
<1>6. request \in Nat /\ IsDrumOp(request) /\ ~IsRingOp(request) /\ RingOf(request) = r
    BY RingRequest
<1> HIDE DEF dp, request
<1>7. AllGrow(dp, AlertDepot(dp, request).depot, {})
    BY <1>5, <1>6, AlertGrows DEF Cuts
<1>8. AllGrow(depot, AlertDepot(dp, request).depot, {})
    BY <1>1, <1>3, <1>7, GrowTwice
<1> QED
    BY <1>3, <1>8 DEF Chosen, dp, request

LEMMA RunCuts ==
    ASSUME Inv, Kept, NEW id \in RunIds, NEW r \in Rings, Run(id, r)
    PROVE  Kept'
<1> DEFINE dp == Chosen(id, r).depot
           new == [p \in Places |-> IF dp.rings[p] = NoRing THEN NoRing ELSE Rewound(dp.rings[p])]
<1>1. /\ pc = "idle" /\ AlertDepot(depot, id).answer # Refused
      /\ depot' = Rewind(dp) /\ pc' = "run" /\ UNCHANGED <<disk, stray, cut>>
    BY DEF Run, Chosen, files
<1>2. DepotOK(dp) /\ AllGrow(depot, dp, {})
    BY <1>1, CommandAlerts, CommandGrows
<1> HIDE DEF dp
<1>3. depot'.rings = new
    <2>1. depot' = [dp EXCEPT !.rings = new]
        BY <1>1 DEF Rewind
    <2> HIDE DEF new
    <2> QED
        BY <1>2, <2>1 DEF DepotOK, DepotType
<1>4. ASSUME NEW p \in Places, dp.rings[p] # NoRing
      PROVE  Grows(dp.rings[p], depot'.rings[p])
    <2> DEFINE ring == dp.rings[p]
    <2>1. RingOK(ring) /\ depot'.rings[p] = Rewound(ring)
        BY <1>2, <1>3, <1>4 DEF DepotOK
    <2> HIDE DEF ring
    <2>2. /\ ring.write =< Len(ring.data) /\ Len(ring.data) \in Nat
        BY <2>1, RingParts
    <2>3. PICK n : n = Len(ring.data)
        OBVIOUS
    <2>4. Rewound(ring) = [ring EXCEPT !.read = 0, !.write = n]
        BY <2>3 DEF Rewound
    <2>5. Rewound(ring).write = n /\ Rewound(ring).data = ring.data
        BY <2>1, <2>4 DEF RingOK, RingType
    <2>6. RingOK(Rewound(ring))
        BY <2>1, RewoundRing DEF StillRing
    <2> QED
        BY <2>1, <2>2, <2>3, <2>5, <2>6 DEF Grows, ring
<1>5. AllGrow(dp, depot', {})
    BY <1>4 DEF AllGrow, Grows
<1>6. AllGrow(depot, depot', {})
    BY <1>2, <1>5, GrowTwice DEF Inv
<1> QED
    BY <1>1, <1>6, GrowKeeps DEF AllGrow

(* A command that saves cuts the ring it saves.                            *)
LEMMA SaveCuts ==
    ASSUME Inv, Kept, NEW id \in RunIds, NEW r \in Rings, NEW content \in Contents,
           SaveRing(id, r, content) \/ SaveFile(id, r, content)
    PROVE  Kept'
<1>1. /\ pc = "idle" /\ id =< MAX_ID /\ AlertDepot(depot, id).answer # Refused
      /\ pc' = "end" /\ cut' = {<<id, r>>} /\ UNCHANGED <<disk, stray>>
    BY DEF SaveRing, SaveFile, files
<1>2. cut = {}
    BY <1>1 DEF Kept
<1>3. \E dp : \E ring : /\ AllGrow(depot, dp, {}) /\ DepotOK(dp) /\ RingOK(ring)
                        /\ <<id, r>> \in Places /\ depot' = Put(dp, <<id, r>>, ring)
    <2>1. CASE SaveRing(id, r, content)
        <3> DEFINE dp == Chosen(id, r).depot
                   ring == Over(Selected(dp), content)
        <3>1. depot' = Put(dp, At(dp), ring)
            BY <2>1 DEF SaveRing, Chosen
        <3>2. /\ DepotOK(dp) /\ At(dp) = <<id, r>> /\ <<id, r>> \in Places /\ RingOK(Selected(dp))
            BY <1>1, CommandAlerts
        <3>3. AllGrow(depot, dp, {})
            BY <1>1, CommandGrows
        <3>4. RingOK(ring)
            BY <3>2, OverRing, ContentsAssumption
        <3> HIDE DEF dp, ring
        <3> QED
            BY <3>1, <3>2, <3>3, <3>4
    <2>2. CASE SaveFile(id, r, content)
        <3> DEFINE dp == AlertDepot(depot, id).depot
                   ring == [Ring(content) EXCEPT !.isDirty = TRUE]
        <3>1. depot' = Put(dp, <<id, r>>, ring)
            BY <2>2 DEF SaveFile
        <3>2. DepotOK(depot) /\ Agrees(depot, asked) /\ depot.drum = Nil
            BY <1>1 DEF Inv
        <3>3. DepotOK(dp)
            BY <3>2, AlertAnswers, RequestsAssumption DEF AlertOK
        <3>4. <<id, r>> \in Places
            BY <1>1, <3>2, CommandDrum DEF Places
        <3>5. RingOK(ring)
            <4>1. RingOK(Ring(content))
                BY ContentsAssumption, NewRing
            <4> QED
                BY <4>1 DEF RingOK, RingType
        <3>6. AllGrow(depot, dp, {})
            BY <1>1, CommandGrows
        <3> HIDE DEF dp, ring
        <3> QED
            BY <3>1, <3>3, <3>4, <3>5, <3>6
    <2> QED
        BY <2>1, <2>2
<1>4. PICK dp, ring : /\ AllGrow(depot, dp, {}) /\ DepotOK(dp) /\ RingOK(ring)
                      /\ <<id, r>> \in Places /\ depot' = Put(dp, <<id, r>>, ring)
    BY <1>3
<1>5. Only(dp, depot', {<<id, r>>})
    BY <1>4, PutRing DEF Only
<1>6. AllGrow(dp, depot', cut')
    BY <1>1, <1>4, <1>5, OnlyGrows
<1>7. AllGrow(depot, depot', cut')
    BY <1>4, <1>6, GrowTwice DEF Inv
<1> QED
    BY <1>1, <1>2, <1>7, GrowKeeps

LEMMA StartKeeps ==
    ASSUME NEW fs, Loadable(fs), Start(fs)
    PROVE  Kept'
<1>1. disk' = fs /\ depot' = Loaded(fs) /\ stray' = stray /\ cut' = {}
    BY DEF Start
<1>2. ASSUME NEW p \in Places, fs[p] # NoFile, ~Hidden(p)
      PROVE  Holds(Loaded(fs).rings[p], fs[p])
    <2>1. fs[p] \in Seq(Values) /\ Loaded(fs).rings[p] = Ring(fs[p])
        BY <1>2 DEF Loadable, Loaded
    <2>2. RingOK(Ring(fs[p]))
        BY <2>1, NewRing
    <2>3. Ring(fs[p]) # NoRing
        BY <2>2, RingIsRing
    <2>4. Len(fs[p]) \in Nat
        BY <2>1, LenProperties
    <2>5. Ring(fs[p]).write = Len(fs[p]) /\ Ring(fs[p]).data = fs[p]
        BY DEF Ring
    <2> QED
        BY <2>1, <2>3, <2>4, <2>5 DEF Holds
<1> QED
    BY <1>1, <1>2 DEF Kept, Hidden

(* What Marshal writes is what the ring holds.                             *)
LEMMA MarshalRingKeeps ==
    ASSUME Inv, Kept, NEW p \in Places, MarshalRing(p)
    PROVE  /\ Kept'
           /\ disk[p] = NoFile \/ p \in cut \/ Hidden(p) \/ IsPrefix(disk[p], disk'[p])
           /\ \A q \in Places : q # p => disk'[q] = disk[q]
<1> DEFINE ring == depot.rings[p]
           file == Marshaled(ring)
<1>1. /\ pc = "marshal" /\ p \in todo /\ disk' = [disk EXCEPT ![p] = file]
      /\ UNCHANGED <<depot, stray, pc, cut>>
    BY DEF MarshalRing, Marshaled, history
<1>2. RingOK(ring) /\ ring # NoRing
    BY <1>1 DEF Inv, Dirty, DepotOK
<1> HIDE DEF ring
<1>3. ring.data \in Seq(Values) /\ ring.write \in Nat /\ ring.write =< Len(ring.data)
      /\ Len(ring.data) \in Nat
    BY <1>2, RingParts
<1>4. /\ file \in Seq(Values) /\ Len(file) = ring.write
      /\ \A i \in 1 .. ring.write : file[i] = ring.data[i]
    BY <1>3, SubSeqProperties, ElementOfSeq DEF Marshaled
<1> HIDE DEF file
<1>5. disk'[p] = file /\ \A q \in Places : q # p => disk'[q] = disk[q]
    BY <1>1 DEF Inv
<1>6. Holds(ring, file)
    BY <1>2, <1>3, <1>4 DEF Holds
<1>7. Kept'
    BY <1>1, <1>5, <1>6 DEF Kept, Hidden, ring
<1>8. ASSUME disk[p] # NoFile, Holds(ring, disk[p])
      PROVE  IsPrefix(disk[p], file)
    <2> DEFINE n == Len(disk[p])
    <2>1. disk[p] \in Seq(Values) /\ n \in Nat /\ n =< ring.write
        BY <1>8, LenProperties DEF Inv, Holds
    <2>2. \A i \in 1 .. n : disk[p][i] = file[i]
        BY <1>3, <1>4, <1>8, <2>1 DEF Holds
    <2>3. /\ SubSeq(disk[p], 1, n) = SubSeq(file, 1, n)
        <3>1. \A i \in 1 .. n : disk[p][i] \in Values /\ file[i] \in Values
            BY <2>1, <2>2, ElementOfSeq
        <3>2. /\ SubSeq(disk[p], 1, n) \in Seq(Values) /\ SubSeq(file, 1, n) \in Seq(Values)
              /\ Len(SubSeq(disk[p], 1, n)) = n /\ Len(SubSeq(file, 1, n)) = n
              /\ \A i \in 1 .. n : SubSeq(disk[p], 1, n)[i] = disk[p][i]
              /\ \A i \in 1 .. n : SubSeq(file, 1, n)[i] = file[i]
            BY <2>1, <3>1, SubSeqProperties
        <3> QED
            BY <2>2, <3>2, SeqEqual
    <2> QED
        BY <1>4, <2>1, <2>3 DEF IsPrefix
<1> QED
    BY <1>5, <1>7, <1>8 DEF Kept, ring

NothingCutStep ==
    \A p \in Places : \/ disk[p] = NoFile \/ p \in cut \/ Hidden(p)
                      \/ DieInWrite(p)
                      \/ IsPrefix(disk[p], disk'[p])

LEMMA SamePrefix == ASSUME NEW s \in Seq(Values) PROVE IsPrefix(s, s)
<1>1. Len(s) \in Nat
    BY LenProperties
<1> QED
    BY <1>1 DEF IsPrefix

LEMMA KeptNext == Inv /\ Kept /\ [Next]_vars => Kept' /\ NothingCutStep
<1> SUFFICES ASSUME Inv, Kept, [Next]_vars PROVE Kept' /\ NothingCutStep
    OBVIOUS
<1>1. UNCHANGED disk => NothingCutStep
    BY SamePrefix DEF Inv, NothingCutStep
<1>2. ASSUME NEW request \in Requests, Alert(request) PROVE Kept' /\ NothingCutStep
    BY <1>1, <1>2, AlertCuts DEF Alert, files
<1>3. ASSUME NEW value \in Values, Send(value) PROVE Kept' /\ NothingCutStep
    BY <1>1, <1>3, SendCuts DEF Send, files
<1>4. CASE Receive
    BY <1>1, <1>4, ReceiveCuts DEF Receive, files
<1>5. ASSUME NEW id \in RunIds, NEW r \in Rings, Run(id, r) PROVE Kept' /\ NothingCutStep
    BY <1>1, <1>5, RunCuts DEF Run, files
<1>6. ASSUME NEW id \in RunIds, NEW r \in Rings, NEW content \in Contents,
             SaveRing(id, r, content) \/ SaveFile(id, r, content)
      PROVE  Kept' /\ NothingCutStep
    BY <1>1, <1>6, SaveCuts DEF SaveRing, SaveFile, files
<1>7. CASE Marshal \/ UNCHANGED vars
    <2>1. UNCHANGED <<disk, stray, depot, cut>> /\ (pc' # "idle" \/ pc' = pc)
        BY <1>7 DEF Marshal, vars, files, process, history
    <2> QED
        BY <1>1, <2>1 DEF Kept, Hidden
<1>8. CASE Exit \/ Die
    <2>1. Loadable(disk) /\ Start(disk)
        BY <1>8 DEF Exit, Die, Inv, Loadable
    <2> QED
        BY <1>1, <2>1, StartKeeps DEF Start
<1>9. ASSUME NEW p \in Places, MarshalRing(p) PROVE Kept' /\ NothingCutStep
    BY <1>9, MarshalRingKeeps, SamePrefix DEF Inv, NothingCutStep
<1>10. ASSUME NEW p \in Places, DieInWrite(p) PROVE Kept' /\ NothingCutStep
    <2> DEFINE fs == [disk EXCEPT ![p] = <<>>]
    <2>1. Start(fs) /\ pc' = "idle"
        BY <1>10 DEF DieInWrite, Start
    <2>2. <<>> \in Seq(Values)
        OBVIOUS
    <2>3. Loadable(fs)
        BY <2>2 DEF Inv, Loadable
    <2>4. ASSUME NEW q \in Places, q # p, disk[q] # NoFile PROVE IsPrefix(disk[q], disk'[q])
        <3>1. disk[q] \in Seq(Values) /\ disk'[q] = disk[q]
            BY <2>1, <2>4 DEF Start, Inv
        <3> QED
            BY <3>1, SamePrefix
    <2> HIDE DEF fs
    <2>5. Kept'
        BY <2>1, <2>3, StartKeeps
    <2> QED
        BY <1>10, <2>4, <2>5 DEF NothingCutStep
<1> QED
    BY <1>2, <1>3, <1>4, <1>5, <1>6, <1>7, <1>8, <1>9, <1>10 DEF Next

-----------------------------------------------------------------------------
(* Theorems.                                                               *)

LEMMA Invariant == Spec => []Inv
<1>1. Inv /\ [Next]_vars => Inv'
    BY NextStep DEF StepOK
<1> QED
    BY InitInv, <1>1, PTL DEF Spec

(* No read or write index of any ring is ever beyond what the ring holds,  *)
(* which Go would answer with a panic, and what waits to be written is     *)
(* dirty (src/sio/ring.go, src/sio/drum.go:98-122).                        *)
THEOREM DepotTypeOK == Spec => []TypeOK
<1>1. Inv => TypeOK
    BY DEF Inv, TypeOK, DepotOK, DepotType
<1> QED
    BY Invariant, <1>1, PTL

(* Whatever a program alerts the depot for and is answered, it knows which *)
(* ring it reads and writes (src/sio/depot.go:133-155).                    *)
THEOREM OnlyAskedRingChanges == Spec => OnlyAskedRing
<1>1. Inv /\ [Next]_vars => OnlyAskedStep
    BY NextStep DEF StepOK
<1> QED
    BY Invariant, <1>1, PTL DEF Spec, OnlyAskedRing, OnlyAskedStep

(* A file changes only if its ring was written to or saved, or its write   *)
(* index rewound: looking at rings leaves nothing behind                   *)
(* (src/sio/drum.go:98-122, src/sio/ring.go:111-143).                      *)
THEOREM FilesChangeOnlyWhenWritten == Spec => FilesOnlyWhenWritten
<1>1. Inv /\ [Next]_vars => \A p \in Places : disk'[p] # disk[p] => p \in wrote \cup cut
    BY NextStep DEF StepOK, FilesStep
<1> QED
    BY Invariant, <1>1, PTL DEF Spec, FilesOnlyWhenWritten

(* What a process has changed is what the next one loads, read and write   *)
(* index included (src/cmd/ucapp/main.go:67-87, src/sio/ring.go:145-200).  *)
THEOREM ChangesAlwaysReachNext == Spec => ChangesReachNext
<1>1. Init => Written
    BY DEF Init, Written
<1>2. Inv /\ Written /\ [Next]_vars => ChangesStep
    <2> SUFFICES ASSUME Inv, Written, Exit, NEW p \in Dirty(depot), ~Hidden(p)
                 PROVE  /\ depot'.rings[p].read = 0
                        /\ depot'.rings[p].write = Len(depot'.rings[p].data)
                        /\ depot'.rings[p].data = Marshaled(depot.rings[p])
        BY DEF ChangesStep, Marshaled
    <2>1. depot'.rings[p] = Ring(Marshaled(depot.rings[p]))
        BY ExitStep
    <2> QED
        BY <2>1 DEF Ring
<1> QED
    BY Invariant, <1>1, WrittenStep, <1>2, PTL DEF Spec, ChangesReachNext, ChangesStep

(* What a file holds stays at its beginning, whatever programs store to    *)
(* their rings and however processes end, until one rewinds a write index, *)
(* something is saved there, or a write of that very file fails, which     *)
(* leaves it empty; files that were not loaded are left out                *)
(* (src/sio/ring.go:111-143, src/sio/drum.go:103-115,                      *)
(* src/sio/README.md:25-45).                                               *)
THEOREM NothingIsCutUnasked == Spec => NothingCutUnasked
<1>1. Init => Kept
    <2> SUFFICES ASSUME Init, NEW p \in Places, disk[p] # NoFile, ~Hidden(p)
                 PROVE  Holds(depot.rings[p], disk[p])
        BY DEF Init, Kept
    <2>1. disk[p] \in Seq(Values) /\ depot.rings[p] = Ring(disk[p])
        BY ContentsAssumption DEF Init, Loaded
    <2>2. Ring(disk[p]) # NoRing /\ Len(disk[p]) \in Nat
        BY <2>1, NewRing, RingIsRing, LenProperties
    <2> QED
        BY <2>1, <2>2 DEF Holds, Ring
<1>2. Inv /\ Kept /\ [Next]_vars => [NothingCutStep]_vars
    BY KeptNext
<1> QED
    BY Invariant, <1>1, KeptNext, <1>2, PTL DEF Spec, NothingCutUnasked, NothingCutStep
=============================================================================
