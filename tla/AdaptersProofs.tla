--------------------------- MODULE AdaptersProofs ---------------------------
(***************************************************************************)
(* Proofs about module Adapters: whatever values and bits are sent to it   *)
(* and received from it, a Temporary of any capacity is a queue of bits,   *)
(* the output of a Tape is what was sent to it, byte by byte, and what     *)
(* ReceiveAs yields are the bits that were in the channel, in their order. *)
(***************************************************************************)
EXTENDS Adapters, FiniteSetTheorems, SequenceTheorems, TLAPS

(* The buffer has a bit at each index; its two indexes are Size apart.     *)
Inv == IndexesFit /\ Data \in [Tmp!Indexes -> BOOLEAN]

(* The queue that the buffer stands for.                                   *)
queue == [i \in 1 .. Size |-> Data[Tmp!At(i)]]

-----------------------------------------------------------------------------
(* The buffer.                                                             *)

(* The bits of the queue are at different indexes, and the index behind    *)
(* them, unless the buffer is full, is none of theirs.                     *)
LEMMA Places ==
    ASSUME Inv, NEW i \in 1 .. Size
    PROVE  /\ Tmp!At(i) \in Tmp!Indexes
           /\ Size < Capacity => Tmp!At(i) # WriteIndex
BY CapacityAssumption DEF Inv, IndexesFit, Tmp!IndexesFit, Tmp!At, Tmp!Indexes

LEMMA QueueBits ==
    ASSUME Inv
    PROVE  /\ Size \in Nat /\ queue \in [1 .. Size -> BOOLEAN]
           /\ queue \in Seq(BOOLEAN) /\ Len(queue) = Size
<1>1. Size \in Nat
    BY CapacityAssumption DEF Inv, IndexesFit, Tmp!IndexesFit
<1>2. queue \in [1 .. Size -> BOOLEAN]
    BY Places DEF Inv, queue
<1> QED
    BY <1>1, <1>2, SeqDef, LenProperties

(* A sequence is what it has at each place.                                *)
LEMMA SequenceOf ==
    ASSUME NEW s \in Seq(BOOLEAN), NEW len, Len(s) = len,
           NEW f, \A i \in 1 .. len : s[i] = f[i]
    PROVE  s = [i \in 1 .. len |-> f[i]]
<1>1. s \in [1 .. len -> BOOLEAN]
    OBVIOUS
<1> QED
    BY <1>1

LEMMA SendStep ==
    ASSUME Inv, NEW bit \in BOOLEAN, Tmp!Send(bit)
    PROVE  /\ Inv'
           /\ IF Size < Capacity THEN queue' = Append(queue, bit) /\ last' = NoError
                                 ELSE queue' = queue /\ last' = ErrChannelFull
<1>1. CASE Size >= Capacity
    BY <1>1, CapacityAssumption
    DEF Tmp!Send, Inv, IndexesFit, Tmp!IndexesFit, Tmp!At, Tmp!Indexes, queue
<1>2. CASE Size < Capacity
    <2>1. /\ Data' = [Data EXCEPT ![WriteIndex] = bit] /\ WriteIndex' = Tmp!Succ(WriteIndex)
          /\ Size' = Size + 1 /\ last' = NoError /\ ReadIndex' = ReadIndex
        BY <1>2, CapacityAssumption DEF Tmp!Send, Inv, IndexesFit, Tmp!IndexesFit
    <2>2. IndexesFit'
        BY <1>2, <2>1, CapacityAssumption
        DEF Inv, IndexesFit, Tmp!IndexesFit, Tmp!At, Tmp!Indexes, Tmp!Succ
    <2>3. Data' \in [Tmp!Indexes -> BOOLEAN]'
        BY <2>1 DEF Inv, Tmp!Indexes
    <2>4. /\ WriteIndex \in Tmp!Indexes /\ WriteIndex = Tmp!At(Size + 1) /\ Size \in Nat
          /\ \A i : Tmp!At(i)' = Tmp!At(i)
        BY <1>2, <2>1, CapacityAssumption DEF Inv, IndexesFit, Tmp!IndexesFit, Tmp!At
    <2>5. \A i \in 1 .. Size : Data'[Tmp!At(i)] = Data[Tmp!At(i)]
        BY <1>2, <2>1, Places DEF Inv
    <2>6. Data'[Tmp!At(Size + 1)] = bit
        BY <2>1, <2>4 DEF Inv
    <2>7. queue' = [i \in 1 .. Size + 1 |-> Data'[Tmp!At(i)]]
        BY <2>1, <2>4 DEF queue
    <2>8. queue \in [1 .. Size -> BOOLEAN] /\ queue \in Seq(BOOLEAN) /\ Len(queue) = Size
        BY QueueBits
    <2>9. \A i \in 1 .. Size : queue[i] = Data[Tmp!At(i)]
        BY DEF queue
    <2>10. /\ Append(queue, bit) \in Seq(BOOLEAN) /\ Len(Append(queue, bit)) = Size + 1
           /\ Append(queue, bit)[Size + 1] = bit
           /\ \A i \in 1 .. Size : Append(queue, bit)[i] = queue[i]
        BY <2>8, AppendProperties
    <2>11. \A i \in 1 .. Size + 1 : Data'[Tmp!At(i)] = Append(queue, bit)[i]
        BY <2>4, <2>5, <2>6, <2>9, <2>10
    <2>12. queue' = [i \in 1 .. Size + 1 |-> Append(queue, bit)[i]]
        BY <2>7, <2>11
    <2>13. queue' = Append(queue, bit)
        <3>1. PICK t \in Seq(BOOLEAN) : t = Append(queue, bit)
            BY <2>10
        <3>2. t = [i \in 1 .. Size + 1 |-> t[i]]
            BY <2>10, <3>1, SequenceOf
        <3> QED
            BY <2>12, <3>1, <3>2
    <2> QED
        BY <1>2, <2>1, <2>2, <2>3, <2>13 DEF Inv
<1> QED
    BY <1>1, <1>2, CapacityAssumption DEF Inv, IndexesFit, Tmp!IndexesFit

LEMMA ReceiveStep ==
    ASSUME Inv, Tmp!Receive
    PROVE  Inv' /\ queue # <<>> /\ queue' = Tail(queue) /\ last' = Head(queue)
<1>1. /\ Size > 0 /\ Size' = Size - 1 /\ ReadIndex' = Tmp!Succ(ReadIndex) /\ last' = Data[ReadIndex]
      /\ WriteIndex' = WriteIndex /\ Data' = Data
    BY DEF Tmp!Receive
<1>2. Inv'
    BY <1>1, CapacityAssumption
    DEF Inv, IndexesFit, Tmp!IndexesFit, Tmp!At, Tmp!Indexes, Tmp!Succ
<1>3. /\ queue \in [1 .. Size -> BOOLEAN] /\ queue \in Seq(BOOLEAN) /\ Len(queue) = Size /\ Size \in Nat
    BY QueueBits
<1>4. /\ Tmp!At(1) = ReadIndex
      /\ \A i \in 1 .. Size - 1 : Tmp!At(i)' = Tmp!At(i + 1)
    BY <1>1, <1>3, CapacityAssumption
    DEF Inv, IndexesFit, Tmp!IndexesFit, Tmp!At, Tmp!Indexes, Tmp!Succ
<1>5. queue[1] = Data[ReadIndex]
    BY <1>1, <1>3, <1>4 DEF queue
<1>6. queue # <<>> /\ Head(queue) = queue[1]
    BY <1>1, <1>3, HeadTailProperties
<1>7. Tail(queue) = [i \in 1 .. Size - 1 |-> queue[i + 1]]
    <2>1. /\ Tail(queue) \in Seq(BOOLEAN) /\ Len(Tail(queue)) = Size - 1
          /\ \A i \in 1 .. Size - 1 : Tail(queue)[i] = queue[i + 1]
        BY <1>3, <1>6, HeadTailProperties
    <2>2. PICK t \in Seq(BOOLEAN) : t = Tail(queue)
        BY <2>1
    <2>3. Len(t) = Size - 1 /\ \A i \in 1 .. Size - 1 : t[i] = queue[i + 1]
        BY <2>1, <2>2
    <2>4. t \in [1 .. Size - 1 -> BOOLEAN]
        BY <2>3
    <2>5. t = [i \in 1 .. Size - 1 |-> queue[i + 1]]
        BY <2>3, <2>4
    <2> QED
        BY <2>2, <2>5
<1>8. \A i \in 1 .. Size - 1 : queue[i + 1] = Data[Tmp!At(i + 1)]
    BY <1>3 DEF queue
<1>9. queue' = [i \in 1 .. Size - 1 |-> Data[Tmp!At(i)']]
    BY <1>1 DEF queue
<1>10. queue' = Tail(queue)
    BY <1>4, <1>7, <1>8, <1>9
<1> QED
    BY <1>1, <1>2, <1>5, <1>6, <1>10

(* What is left of a Rewind is an empty queue.                             *)
LEMMA RewindStep ==
    ASSUME Inv, Tmp!Rewind
    PROVE  Inv' /\ queue' = <<>> /\ last' = NoError
<1>1. /\ ReadIndex' = 0 /\ WriteIndex' = 0 /\ Size' = 0 /\ last' = NoError
      /\ Data' = [i \in Tmp!Indexes |-> FALSE]
    BY DEF Tmp!Rewind
<1>2. Inv'
    BY <1>1, CapacityAssumption DEF Inv, IndexesFit, Tmp!IndexesFit, Tmp!At, Tmp!Indexes
<1>3. queue' = [i \in 1 .. 0 |-> Data'[Tmp!At(i)']]
    BY <1>1 DEF queue
<1> QED
    BY <1>1, <1>2, <1>3

-----------------------------------------------------------------------------
(* The adapters: each step is one of the queue's, or changes nothing of it.*)

QueueStep == \/ queue # <<>> /\ queue' = Tail(queue) /\ last' = Head(queue)
             \/ queue' = <<>> /\ last' = NoError
             \/ \E bit \in BOOLEAN :
                    IF Size < Capacity THEN queue' = Append(queue, bit) /\ last' = NoError
                                       ELSE queue' = queue /\ last' = ErrChannelFull
             \/ UNCHANGED <<queue, last>>

StepOK == Inv' /\ QueueStep

LEMMA Still == ASSUME Inv, UNCHANGED tempVars PROVE StepOK
BY DEF tempVars, Inv, IndexesFit, Tmp!IndexesFit, Tmp!At, Tmp!Indexes, queue, StepOK, QueueStep

LEMMA RoundOK == ASSUME Inv, NEW goesOn, Round(goesOn) PROVE StepOK
<1>1. CASE tape
    BY <1>1, Still DEF Round
<1>2. CASE ~tape
    BY <1>2, ReceiveStep DEF Round, StepOK, QueueStep
<1> QED
    BY <1>1, <1>2

LEMMA SendOK == ASSUME Inv, NEW bit \in BOOLEAN, ChannelSend(bit) PROVE StepOK
<1>1. CASE tape
    BY <1>1, Still DEF ChannelSend
<1>2. CASE ~tape
    BY <1>2, SendStep DEF ChannelSend, StepOK, QueueStep
<1> QED
    BY <1>1, <1>2

LEMMA NextOK == ASSUME Inv, [Next]_vars PROVE StepOK
<1>1. ASSUME NEW s \in Sizes, ReceiveAs(s) PROVE StepOK
    BY <1>1, Still DEF ReceiveAs
<1>2. CASE Collect
    BY <1>2, RoundOK DEF Collect
<1>3. CASE Exhausted
    BY <1>3, Still DEF Exhausted
<1>4. ASSUME NEW goesOn \in BOOLEAN, YieldValue(goesOn) PROVE StepOK
    BY <1>4, RoundOK DEF YieldValue
<1>5. ASSUME NEW v \in Values, SendAs(v[1], v[2]) PROVE StepOK
    BY <1>5, Still DEF SendAs
<1>6. CASE SendNext
    <2>1. ChannelSend(n \in value) /\ (n \in value) \in BOOLEAN
        BY <1>6 DEF SendNext
    <2> QED
        BY <2>1, SendOK, Zenon
<1>7. CASE Reset
    <2>1. CASE tape
        BY <1>7, <2>1, Still DEF Reset
    <2>2. CASE ~tape
        BY <1>7, <2>2, RewindStep DEF Reset, StepOK, QueueStep
    <2> QED
        BY <2>1, <2>2
<1>8. ASSUME NEW bit \in BOOLEAN, SendBit(bit) PROVE StepOK
    BY <1>8, SendOK DEF SendBit
<1>9. CASE UNCHANGED vars
    BY <1>9, Still DEF vars
<1> QED
    BY <1>1, <1>2, <1>3, <1>4, <1>5, <1>6, <1>7, <1>8, <1>9 DEF Next

LEMMA InitInv == Init => Inv /\ queue = <<>> /\ last = NoError
<1> SUFFICES ASSUME Init PROVE Inv /\ queue = <<>> /\ last = NoError
    OBVIOUS
<1>1. /\ ReadIndex = 0 /\ WriteIndex = 0 /\ Size = 0 /\ last = NoError
      /\ Data = [i \in Tmp!Indexes |-> FALSE]
    BY DEF Init, Tmp!Init
<1>2. Inv
    BY <1>1, CapacityAssumption DEF Inv, IndexesFit, Tmp!IndexesFit, Tmp!At, Tmp!Indexes
<1>3. queue = [i \in 1 .. 0 |-> Data[Tmp!At(i)]]
    BY <1>1 DEF queue
<1> QED
    BY <1>1, <1>2, <1>3

LEMMA Invariant == Spec => []Inv
<1>1. Inv /\ [Next]_vars => Inv'
    BY NextOK DEF StepOK
<1>2. Init => Inv
    BY InitInv
<1> QED
    BY <1>1, <1>2, PTL DEF Spec

-----------------------------------------------------------------------------
(* Numbers of a width: division with a remainder.                          *)

LEMMA DivMod ==
    ASSUME NEW q \in Nat, NEW w \in Nat \ {0}, NEW r \in 0 .. w - 1
    PROVE  (q * w + r) \div w = q /\ (q * w + r) % w = r
OBVIOUS

LEMMA DivModOf ==
    ASSUME NEW l \in Nat, NEW w \in Nat \ {0}
    PROVE  l \div w \in Nat /\ (l % w) \in 0 .. w - 1 /\ l = (l \div w) * w + (l % w)
OBVIOUS

(* The next number.                                                        *)
LEMMA DivModNext ==
    ASSUME NEW l \in Nat, NEW w \in Nat \ {0}
    PROVE  IF (l % w) + 1 # w
           THEN (l + 1) \div w = l \div w /\ (l + 1) % w = (l % w) + 1
           ELSE (l + 1) \div w = (l \div w) + 1 /\ (l + 1) % w = 0
<1>1. PICK q \in Nat, r \in 0 .. w - 1 : q = l \div w /\ r = (l % w) /\ l = q * w + r
    BY DivModOf
<1>2. CASE r + 1 # w
    <2>1. r + 1 \in 0 .. w - 1 /\ l + 1 = q * w + (r + 1)
        BY <1>1, <1>2
    <2>2. (q * w + (r + 1)) \div w = q /\ (q * w + (r + 1)) % w = r + 1
        BY <2>1, DivMod
    <2>3. (l + 1) \div w = q /\ (l + 1) % w = r + 1
        BY <2>1, <2>2
    <2> QED
        BY <1>1, <1>2, <2>3
<1>3. CASE r + 1 = w
    <2>1. 0 \in 0 .. w - 1 /\ q + 1 \in Nat /\ (q + 1) * w = q * w + w
        OBVIOUS
    <2>2. l + 1 = (q + 1) * w + 0
        BY <1>1, <1>3, <2>1
    <2>3. ((q + 1) * w + 0) \div w = q + 1 /\ ((q + 1) * w + 0) % w = 0
        BY <2>1, DivMod
    <2>4. (l + 1) \div w = q + 1 /\ (l + 1) % w = 0
        BY <2>2, <2>3
    <2> QED
        BY <1>1, <1>3, <2>4
<1> QED
    BY <1>2, <1>3

(* Where the b-th bit of the n-th of q values is, of w bits each.          *)
LEMMA Place ==
    ASSUME NEW q \in Nat, NEW w \in Nat \ {0}, NEW k \in 1 .. q, NEW b \in 0 .. w - 1
    PROVE  (k - 1) * w + b + 1 \in 1 .. q * w
<1>1. k * w =< q * w /\ (k - 1) * w = k * w - w /\ (k - 1) * w >= 0 /\ k * w \in Nat /\ q * w \in Nat
    <2>1. PICK d \in Nat : q = k + d
        <3>1. q - k \in Nat /\ q = k + (q - k)
            OBVIOUS
        <3> QED
            BY <3>1
    <2>2. PICK e \in Nat : k = e + 1
        <3>1. k - 1 \in Nat /\ k = (k - 1) + 1
            OBVIOUS
        <3> QED
            BY <3>1
    <2>3. (k + d) * w = k * w + d * w /\ d * w \in Nat /\ (e + 1) * w = e * w + w /\ e * w \in Nat
        OBVIOUS
    <2>4. k - 1 = e
        BY <2>2
    <2> QED
        BY <2>1, <2>2, <2>3, <2>4
<1> QED
    BY <1>1

-----------------------------------------------------------------------------
(* The output of a Tape.                                                   *)

OutputInv == /\ sent \in Seq(BOOLEAN) /\ lost \subseteq 1 .. BytesSent
             /\ Output \in Seq(SUBSET (0 .. Width - 1))
             /\ OutputAligned

(* What the bytes sent are does not depend on a bit behind them.           *)
LEMMA BytesStay ==
    ASSUME sent \in Seq(BOOLEAN), NEW bit \in BOOLEAN, sent' = Append(sent, bit)
    PROVE  /\ Len(sent) \in Nat /\ sent' \in Seq(BOOLEAN) /\ Len(sent') = Len(sent) + 1
           /\ BytesSent \in Nat
           /\ \A k \in 1 .. BytesSent : ByteSent(k)' = ByteSent(k)
           /\ \A b \in 0 .. (Len(sent) % Width) - 1 :
                  sent'[BytesSent * Width + b + 1] = sent[BytesSent * Width + b + 1]
           /\ sent'[BytesSent * Width + (Len(sent) % Width) + 1] = bit
<1>1. /\ Len(sent) \in Nat /\ sent' \in Seq(BOOLEAN) /\ Len(sent') = Len(sent) + 1
      /\ \A i \in 1 .. Len(sent) : sent'[i] = sent[i]
      /\ sent'[Len(sent) + 1] = bit
    BY AppendProperties
<1>2. PICK q \in Nat, r \in 0 .. Width - 1 :
          /\ q = BytesSent /\ r = (Len(sent) % Width) /\ Len(sent) = q * Width + r
    BY <1>1, DivModOf, TapeAssumption DEF BytesSent
<1>3. q * Width \in Nat
    BY TapeAssumption
<1>4. ASSUME NEW k \in 1 .. q PROVE ByteSent(k)' = ByteSent(k)
    <2>1. \A b \in 0 .. Width - 1 : (k - 1) * Width + b + 1 \in 1 .. q * Width
        BY Place, TapeAssumption
    <2>2. \A b \in 0 .. Width - 1 : (k - 1) * Width + b + 1 \in 1 .. Len(sent)
        BY <1>2, <1>3, <2>1
    <2>3. \A b \in 0 .. Width - 1 : sent'[(k - 1) * Width + b + 1] = sent[(k - 1) * Width + b + 1]
        BY <1>1, <2>2
    <2> QED
        BY <2>3 DEF ByteSent
<1>5. \A b \in 0 .. r - 1 : q * Width + b + 1 \in 1 .. Len(sent)
    BY <1>2, <1>3, TapeAssumption
<1>6. \A b \in 0 .. r - 1 : sent'[q * Width + b + 1] = sent[q * Width + b + 1]
    BY <1>1, <1>5
<1>7. sent'[q * Width + r + 1] = bit
    BY <1>1, <1>2
<1> QED
    BY <1>1, <1>2, <1>4, <1>6, <1>7

LEMMA WrittenCard ==
    ASSUME NEW k \in Nat
    PROVE  IsFiniteSet(Written(k)) /\ Cardinality(Written(k)) \in Nat
<1>1. IsFiniteSet(1 .. k)
    BY FS_Interval
<1>2. Written(k) \in SUBSET (1 .. k)
    BY DEF Written
<1>3. IsFiniteSet(Written(k))
    BY <1>1, <1>2, FS_Subset
<1> QED
    BY <1>3, FS_CardinalityType

(* A byte that is written has its place in the output.                     *)
LEMMA RankOfByte ==
    ASSUME NEW q \in Nat, NEW k \in Written(q)
    PROVE  Cardinality(Written(k)) \in 1 .. Cardinality(Written(q))
<1>1. k \in Nat /\ k \in Written(k) /\ Written(k) \in SUBSET Written(q)
    BY DEF Written
<1>2. Cardinality(Written(k)) =< Cardinality(Written(q)) /\ Cardinality(Written(q)) \in Nat
    BY <1>1, WrittenCard, FS_Subset
<1>3. Cardinality(Written(k)) \in Nat /\ Cardinality(Written(k)) # 0
    BY <1>1, WrittenCard, FS_EmptySet
<1> QED
    BY <1>2, <1>3

LEMMA TapeSendStep ==
    ASSUME OutputInv, NEW bit \in BOOLEAN, Tp!Send(bit)
    PROVE  OutputInv'
<1>1. PICK q, r, W : q = BytesSent /\ r = (Len(sent) % Width) /\ W = Written(q)
    OBVIOUS
<1>2. /\ sent' = Append(sent, bit) /\ sent \in Seq(BOOLEAN) /\ lost \subseteq 1 .. q
      /\ Output \in Seq(SUBSET (0 .. Width - 1)) /\ Len(Output) = Cardinality(W)
      /\ \A k \in W : Output[Cardinality(Written(k))] = ByteSent(k)
      /\ writeIndex = r
      /\ nextOutput = {b \in 0 .. r - 1 : sent[q * Width + b + 1]}
    BY <1>1 DEF OutputInv, OutputAligned, Tp!Send
<1>3. /\ Len(sent) \in Nat /\ sent' \in Seq(BOOLEAN) /\ Len(sent') = Len(sent) + 1
      /\ q \in Nat
      /\ \A k \in 1 .. q : ByteSent(k)' = ByteSent(k)
      /\ \A b \in 0 .. r - 1 : sent'[q * Width + b + 1] = sent[q * Width + b + 1]
      /\ sent'[q * Width + r + 1] = bit
    BY <1>1, <1>2, BytesStay
<1>4. r \in 0 .. Width - 1 /\ Width \in Nat \ {0}
    BY <1>1, <1>3, DivModOf, TapeAssumption
<1>5. Tp!With(bit) = {b \in 0 .. r : sent'[q * Width + b + 1]}
    <2>1. nextOutput = {b \in 0 .. r - 1 : sent'[q * Width + b + 1]}
        BY <1>2, <1>3
    <2>2. 0 .. r = (0 .. r - 1) \cup {r} /\ r \notin 0 .. r - 1
        BY <1>4
    <2>3. Tp!With(bit) = IF bit THEN nextOutput \cup {r} ELSE nextOutput
        BY <1>2 DEF Tp!With
    <2> QED
        BY <1>3, <2>1, <2>2, <2>3
<1>6. /\ W \subseteq 1 .. q
      /\ \A k \in W : k \in 1 .. q /\ Cardinality(Written(k)) \in 1 .. Len(Output)
    BY <1>1, <1>2, <1>3, RankOfByte DEF Written
<1>7. CASE r + 1 # Width
    <2>1. BytesSent' = q /\ Len(sent') % Width = r + 1
        BY <1>1, <1>3, <1>4, <1>7, DivModNext DEF BytesSent
    <2>2. /\ nextOutput' = Tp!With(bit) /\ writeIndex' = r + 1 /\ Output' = Output /\ lost' = lost
        BY <1>2, <1>7 DEF Tp!Send
    <2>3. \A k : Written(k)' = Written(k)
        BY <2>2 DEF Written
    <2>4. Len(Output') = Cardinality(Written(BytesSent)')
        BY <1>1, <1>2, <2>1, <2>2, <2>3
    <2>5. \A k \in Written(BytesSent)' : Output'[Cardinality(Written(k)')] = ByteSent(k)'
        BY <1>1, <1>2, <1>3, <1>6, <2>1, <2>2, <2>3
    <2>6. nextOutput' = {b \in 0 .. writeIndex' - 1 : sent'[BytesSent' * Width + b + 1]}
        <3>1. 0 .. writeIndex' - 1 = 0 .. r
            BY <1>4, <2>2
        <3> QED
            BY <1>5, <2>1, <2>2, <3>1
    <2> QED
        BY <1>2, <1>3, <2>1, <2>2, <2>4, <2>5, <2>6 DEF OutputInv, OutputAligned
<1>8. CASE r + 1 = Width
    <2>1. BytesSent' = q + 1 /\ Len(sent') % Width = 0 /\ Len(sent') \div Width = q + 1
        <3>1. /\ (Len(sent) + 1) \div Width = (Len(sent) \div Width) + 1
              /\ (Len(sent) + 1) % Width = 0
            BY <1>1, <1>3, <1>4, <1>8, DivModNext
        <3> QED
            BY <1>1, <1>3, <3>1 DEF BytesSent
    <2>2. /\ nextOutput' = {} /\ writeIndex' = 0
          /\ \/ Output' = Append(Output, Tp!With(bit)) /\ lost' = lost
             \/ Output' = Output /\ lost' = lost \cup {q + 1}
        BY <1>2, <1>8, <2>1 DEF Tp!Send
    <2>3. ByteSent(q + 1)' = Tp!With(bit) /\ Tp!With(bit) \in SUBSET (0 .. Width - 1)
        <3>1. 0 .. r = 0 .. Width - 1 /\ (q + 1) - 1 = q
            BY <1>3, <1>4, <1>8
        <3> QED
            BY <1>5, <3>1 DEF ByteSent
    <2>4. \A k \in 1 .. q : Written(k)' = Written(k)
        BY <1>1, <1>3, <2>2 DEF Written
    <2>5. nextOutput' = {b \in 0 .. writeIndex' - 1 : sent'[BytesSent' * Width + b + 1]}
        <3>1. 0 .. writeIndex' - 1 = {}
            BY <2>2
        <3> QED
            BY <2>2, <3>1
    <2>6. IsFiniteSet(W) /\ Cardinality(W) \in Nat
        BY <1>1, <1>3, WrittenCard
    <2>7. CASE Output' = Append(Output, Tp!With(bit)) /\ lost' = lost
        <3>1. /\ Output' \in Seq(SUBSET (0 .. Width - 1)) /\ Len(Output') = Len(Output) + 1
              /\ \A i \in 1 .. Len(Output) : Output'[i] = Output[i]
              /\ Output'[Len(Output) + 1] = Tp!With(bit)
            BY <1>2, <2>3, <2>7, AppendProperties
        <3>2. Written(q + 1)' = W \cup {q + 1} /\ q + 1 \notin W
            BY <1>1, <1>2, <1>3, <2>7 DEF Written
        <3>3. Cardinality(Written(q + 1)') = Cardinality(W) + 1
            BY <2>6, <3>2, FS_AddElement
        <3>4. \A k \in W : Output'[Cardinality(Written(k)')] = ByteSent(k)'
            BY <1>2, <1>3, <1>6, <2>4, <3>1
        <3>5. Output'[Cardinality(Written(q + 1)')] = ByteSent(q + 1)'
            BY <1>2, <2>3, <3>1, <3>3
        <3>6. \A k \in Written(BytesSent)' : Output'[Cardinality(Written(k)')] = ByteSent(k)'
            BY <2>1, <3>2, <3>4, <3>5
        <3>7. Len(Output') = Cardinality(Written(BytesSent)') /\ lost' \subseteq 1 .. BytesSent'
            BY <1>2, <1>3, <2>1, <2>7, <3>1, <3>3
        <3> QED
            BY <1>3, <2>1, <2>2, <2>5, <3>1, <3>6, <3>7 DEF OutputInv, OutputAligned
    <2>8. CASE Output' = Output /\ lost' = lost \cup {q + 1}
        <3>1. Written(q + 1)' = W
            BY <1>1, <1>2, <1>3, <2>8 DEF Written
        <3>2. \A k \in W : Output'[Cardinality(Written(k)')] = ByteSent(k)'
            BY <1>2, <1>3, <1>6, <2>4, <2>8
        <3>3. lost' \subseteq 1 .. q + 1
            BY <1>2, <1>3, <2>8
        <3> QED
            BY <1>3, <1>2, <2>1, <2>2, <2>5, <2>8, <3>1, <3>2, <3>3
            DEF OutputInv, OutputAligned
    <2> QED
        BY <2>2, <2>7, <2>8
<1> QED
    BY <1>7, <1>8

-----------------------------------------------------------------------------
(* The bits of values.                                                     *)

(* Values of bits, one behind the other.                                   *)
LEMMA BitsAre ==
    ASSUME NEW values, NEW w, NEW from, NEW len \in Nat
    PROVE  /\ Tp!BitsOf(values, w, from, len) \in Seq(BOOLEAN)
           /\ Len(Tp!BitsOf(values, w, from, len)) = len
<1>1. PICK f : f = Tp!BitsOf(values, w, from, len)
    OBVIOUS
<1>2. \A i \in 1 .. len : ((from + i - 1) % w \in values[((from + i - 1) \div w) + 1]) \in BOOLEAN
    OBVIOUS
<1>3. f \in [1 .. len -> BOOLEAN]
    BY <1>1, <1>2 DEF Tp!BitsOf
<1>4. f \in Seq(BOOLEAN) /\ DOMAIN f = 1 .. len
    BY <1>3, SeqDef
<1>5. Len(f) = len
    BY <1>4, LenProperties
<1> QED
    BY <1>1, <1>4, <1>5

AreBits(t, values, w, from, len) ==
    \A i \in 1 .. len : \A q \in Nat : \A r \in 0 .. w - 1 :
        from + i - 1 = q * w + r => (t[i] <=> r \in values[q + 1])

LEMMA BitAt ==
    ASSUME NEW values, NEW w \in Nat \ {0}, NEW from \in Nat, NEW len \in Nat
    PROVE  AreBits(Tp!BitsOf(values, w, from, len), values, w, from, len)
<1> USE DEF AreBits
<1> TAKE i \in 1 .. len
<1> TAKE q \in Nat
<1> TAKE r \in 0 .. w - 1
<1> HAVE from + i - 1 = q * w + r
<1>1. (from + i - 1) \div w = q /\ (from + i - 1) % w = r
    BY DivMod
<1>2. Tp!BitsOf(values, w, from, len)[i] = ((from + i - 1) % w \in values[((from + i - 1) \div w) + 1])
    BY DEF Tp!BitsOf
<1> QED
    BY <1>1, <1>2

(* A sequence with one element more, behind it or before it.               *)
Ends(s, t, x) == s = Append(t, x)
Starts(s, x, t) == s = <<x>> \o t

LEMMA Below ==
    ASSUME NEW w \in Nat \ {0}, NEW q \in Nat, NEW r \in 0 .. w - 1,
           NEW len \in Nat, NEW k \in 0 .. w - 1, q * w + r < len * w + k
    PROVE  q < len \/ (q = len /\ r < k)
<1>1. ASSUME q > len PROVE FALSE
    <2>1. PICK d \in Nat : q = len + 1 + d
        <3>1. q - len - 1 \in Nat /\ q = len + 1 + (q - len - 1)
            BY <1>1
        <3> QED
            BY <3>1
    <2>2. (len + 1 + d) * w = len * w + w + d * w /\ d * w \in Nat /\ len * w \in Nat
        OBVIOUS
    <2>3. q * w = len * w + w + d * w
        BY <2>1, <2>2
    <2> QED
        BY <2>2, <2>3
<1> QED
    BY <1>1

(* A bit more, at the end of the value that is collected.                  *)
LEMMA BitMore ==
    ASSUME NEW whole \in Seq(SUBSET Nat), NEW w \in Nat \ {0}, NEW c \in 0 .. w - 1,
           NEW part \in SUBSET (0 .. c - 1), NEW bit \in BOOLEAN,
           NEW len \in Nat, len = Len(whole), NEW values,
           \A k \in 1 .. len : values[k] = whole[k],
           values[len + 1] = IF bit THEN part \cup {c} ELSE part,
           NEW fewer, fewer = len * w + c, NEW more, more = fewer + 1
    PROVE  Ends(Tp!BitsOf(values, w, 0, more), Tp!BitsOf(Append(whole, part), w, 0, fewer), bit)
<1>1. part \in SUBSET Nat /\ 0 \in Nat
    OBVIOUS
<1>2. PICK m \in Nat : m = len * w + c
    OBVIOUS
<1>3. PICK t : t = Tp!BitsOf(values, w, 0, m + 1)
    OBVIOUS
<1>4. PICK v : v = Append(whole, part)
    OBVIOUS
<1>5. PICK given : given = Tp!BitsOf(v, w, 0, m)
    OBVIOUS
<1>6. AreBits(t, values, w, 0, m + 1) /\ AreBits(given, v, w, 0, m)
    <2>1. 0 \in Nat /\ m + 1 \in Nat
        OBVIOUS
    <2> QED
        BY <1>3, <1>5, <2>1, BitAt
<1>7. given \in Seq(BOOLEAN) /\ Len(given) = m /\ t \in Seq(BOOLEAN) /\ Len(t) = m + 1
    BY <1>2, <1>3, <1>5, BitsAre
<1>8. (\A i \in 1 .. m + 1 : t[i] \in BOOLEAN) /\ (\A i \in 1 .. m : given[i] \in BOOLEAN)
    BY <1>7
<1>9. (\A k \in 1 .. len : v[k] = whole[k]) /\ v[len + 1] = part
    BY <1>1, <1>4, AppendProperties
<1>10. ASSUME NEW i \in 1 .. m PROVE t[i] = given[i]
    <2>1. PICK q \in Nat, r \in 0 .. w - 1 : 0 + i - 1 = q * w + r
        <3>1. PICK l \in Nat : l = 0 + i - 1
            BY <1>2
        <3> QED
            BY <1>1, <3>1, DivModOf
    <2>2. q * w + r < len * w + c
        BY <1>2, <2>1
    <2>3. q < len \/ (q = len /\ r < c)
        BY <1>1, <2>2, Below
    <2>4. 0 \in Nat /\ m + 1 \in Nat /\ i \in 1 .. m + 1 /\ w \in Nat \ {0}
        BY <1>1, <1>2
    <2>5. t[i] <=> r \in values[q + 1]
        BY <1>6, <2>1, <2>4 DEF AreBits
    <2>6. given[i] <=> r \in v[q + 1]
        BY <1>6, <2>1 DEF AreBits
    <2>7. CASE q < len
        <3>1. q + 1 \in 1 .. len
            BY <2>7
        <3>2. values[q + 1] = v[q + 1]
            BY <1>9, <3>1
        <3> QED
            BY <1>8, <2>5, <2>6, <2>4, <3>2
    <2>8. CASE q = len /\ r < c
        <3>1. (r \in values[q + 1]) = (r \in v[q + 1])
            BY <1>9, <1>1, <2>8
        <3> QED
            BY <1>8, <2>5, <2>6, <2>4, <3>1
    <2> QED
        BY <2>3, <2>7, <2>8
<1>11. t[m + 1] = bit
    <2>1. PICK i \in Nat : i = m + 1
        OBVIOUS
    <2>2. i \in 1 .. m + 1 /\ 0 + i - 1 = len * w + c /\ m + 1 \in Nat
        BY <1>2, <2>1
    <2>3. t[i] <=> c \in values[len + 1]
        BY <1>6, <2>2 DEF AreBits
    <2>4. (c \in values[len + 1]) = bit
        BY <1>1
    <2> QED
        BY <1>8, <2>1, <2>2, <2>3, <2>4
<1>12. /\ Append(given, bit) \in Seq(BOOLEAN) /\ Len(Append(given, bit)) = m + 1
      /\ \A i \in 1 .. m : Append(given, bit)[i] = given[i]
      /\ Append(given, bit)[m + 1] = bit
    BY <1>7, AppendProperties
<1>13. \A i \in 1 .. m + 1 : t[i] = Append(given, bit)[i]
    <2> TAKE i \in 1 .. m + 1
    <2>1. CASE i = m + 1
        BY <1>11, <1>12, <2>1
    <2>2. CASE i # m + 1
        <3>1. i \in 1 .. m
            BY <1>2, <2>2
        <3> QED
            BY <1>10, <1>12, <3>1
    <2> QED
        BY <2>1, <2>2
<1>14. t = Append(given, bit)
    BY <1>7, <1>12, <1>13, SeqEqual
<1> QED
    BY <1>2, <1>3, <1>4, <1>5, <1>14 DEF Ends

LEMMA FirstAndRest ==
    ASSUME NEW s \in Seq(BOOLEAN), NEW t \in Seq(BOOLEAN), NEW x \in BOOLEAN,
           Len(s) = Len(t) + 1, s[1] = x, \A i \in 1 .. Len(t) : s[i + 1] = t[i]
    PROVE  s = <<x>> \o t
<1>1. <<x>> \in Seq(BOOLEAN) /\ Len(<<x>>) = 1 /\ <<x>>[1] = x /\ Len(t) \in Nat
    OBVIOUS
<1>2. PICK u : u = <<x>> \o t
    OBVIOUS
<1>3. /\ u \in Seq(BOOLEAN) /\ Len(u) = 1 + Len(t)
      /\ \A i \in 1 .. 1 + Len(t) : u[i] = IF i <= 1 THEN <<x>>[i] ELSE t[i - 1]
    BY <1>1, <1>2, ConcatProperties
<1>4. ASSUME NEW i \in 1 .. Len(s) PROVE s[i] = u[i]
    <2>1. CASE i = 1
        BY <1>1, <1>3, <2>1
    <2>2. CASE i # 1
        <3>1. PICK j \in 1 .. Len(t) : i = j + 1
            <4>1. i - 1 \in 1 .. Len(t) /\ i = (i - 1) + 1
                BY <1>1, <2>2
            <4> QED
                BY <4>1
        <3>2. s[i] = t[j]
            BY <3>1
        <3>3. j + 1 \in 1 .. 1 + Len(t) /\ ~(j + 1 <= 1) /\ (j + 1) - 1 = j
            BY <1>1
        <3>4. u[j + 1] = t[j]
            BY <1>3, <3>3
        <3> QED
            BY <3>1, <3>2, <3>4
    <2> QED
        BY <2>1, <2>2
<1>5. s = u
    BY <1>1, <1>3, <1>4, SeqEqual
<1> QED
    BY <1>2, <1>5

(* A bit less, at the start of the value that is read or behind it.        *)
LEMMA BitLess ==
    ASSUME NEW values, NEW w \in Nat \ {0}, NEW r \in 0 .. w - 1, NEW len \in Nat
    PROVE  Tp!BitsOf(values, w, r, len + 1)
               = <<r \in values[1]>> \o Tp!BitsOf(values, w, r + 1, len)
<1>1. PICK s : s = Tp!BitsOf(values, w, r, len + 1)
    OBVIOUS
<1>2. PICK t : t = Tp!BitsOf(values, w, r + 1, len)
    OBVIOUS
<1>3. PICK from \in Nat : from = r + 1
    OBVIOUS
<1>4. s \in Seq(BOOLEAN) /\ Len(s) = len + 1 /\ t \in Seq(BOOLEAN) /\ Len(t) = len
    BY <1>1, <1>2, BitsAre
<1>5. (\A i \in 1 .. len + 1 : s[i] \in BOOLEAN) /\ (\A i \in 1 .. len : t[i] \in BOOLEAN)
    BY <1>4
<1>6. AreBits(s, values, w, r, len + 1) /\ AreBits(t, values, w, from, len)
    <2>1. len + 1 \in Nat /\ r \in Nat
        OBVIOUS
    <2> QED
        BY <1>1, <1>2, <1>3, <2>1, BitAt
<1>7. s[1] = (r \in values[1])
    <2>1. 1 \in 1 .. len + 1 /\ r + 1 - 1 = 0 * w + r /\ len + 1 \in Nat /\ 0 \in Nat /\ 0 + 1 = 1
        OBVIOUS
    <2>2. s[1] <=> r \in values[0 + 1]
        BY <1>6, <2>1 DEF AreBits
    <2> QED
        BY <1>5, <2>1, <2>2
<1>8. ASSUME NEW i \in 1 .. len PROVE s[i + 1] = t[i]
    <2>1. PICK q \in Nat, b \in 0 .. w - 1 : r + i = q * w + b
        <3>1. r + i \in Nat
            OBVIOUS
        <3> QED
            BY <3>1, DivModOf
    <2>2. PICK j \in 1 .. len + 1 : j = i + 1
        OBVIOUS
    <2>3. r + j - 1 = q * w + b /\ from + i - 1 = q * w + b /\ len + 1 \in Nat /\ r \in Nat
        BY <1>3, <2>1, <2>2
    <2>4. s[j] <=> b \in values[q + 1]
        BY <1>6, <2>3 DEF AreBits
    <2>5. t[i] <=> b \in values[q + 1]
        BY <1>6, <2>3 DEF AreBits
    <2> QED
        BY <1>5, <2>2, <2>4, <2>5
<1> QED
    BY <1>1, <1>2, <1>4, <1>7, <1>8, FirstAndRest

LEMMA ValueLess ==
    ASSUME NEW values, NEW rest, NEW w \in Nat \ {0}, NEW len \in Nat,
           \A k \in 1 .. len : rest[k] = values[k + 1],
           NEW top, top = w - 1, NEW fewer, fewer = len * w, NEW more, more = fewer + 1
    PROVE  Starts(Tp!BitsOf(values, w, top, more), top \in values[1], Tp!BitsOf(rest, w, 0, fewer))
<1>1. PICK m \in Nat : m = len * w
    OBVIOUS
<1>2. PICK s : s = Tp!BitsOf(values, w, w - 1, m + 1)
    OBVIOUS
<1>3. PICK t : t = Tp!BitsOf(rest, w, 0, m)
    OBVIOUS
<1>4. PICK from \in Nat : from = w - 1
    OBVIOUS
<1>5. s \in Seq(BOOLEAN) /\ Len(s) = m + 1 /\ t \in Seq(BOOLEAN) /\ Len(t) = m
    BY <1>2, <1>3, BitsAre
<1>6. (\A i \in 1 .. m + 1 : s[i] \in BOOLEAN) /\ (\A i \in 1 .. m : t[i] \in BOOLEAN)
    BY <1>5
<1>7. AreBits(s, values, w, from, m + 1) /\ AreBits(t, rest, w, 0, m)
    <2>1. m + 1 \in Nat /\ 0 \in Nat
        OBVIOUS
    <2> QED
        BY <1>2, <1>3, <1>4, <2>1, BitAt
<1>8. s[1] = (from \in values[1])
    <2>1. 1 \in 1 .. m + 1 /\ from + 1 - 1 = 0 * w + from /\ m + 1 \in Nat /\ 0 \in Nat /\ 0 + 1 = 1
          /\ from \in 0 .. w - 1
        BY <1>4
    <2>2. s[1] <=> from \in values[0 + 1]
        BY <1>7, <2>1 DEF AreBits
    <2> QED
        BY <1>6, <2>1, <2>2
<1>9. ASSUME NEW i \in 1 .. m PROVE s[i + 1] = t[i]
    <2>1. PICK q \in Nat, b \in 0 .. w - 1 : i - 1 = q * w + b
        <3>1. i - 1 \in Nat
            OBVIOUS
        <3> QED
            BY <3>1, DivModOf
    <2>2. PICK j \in 1 .. m + 1 : j = i + 1
        OBVIOUS
    <2>3. from + j - 1 = (q + 1) * w + b
        <3>1. (q + 1) * w = q * w + w
            OBVIOUS
        <3> QED
            BY <1>4, <2>1, <2>2, <3>1
    <2>4. q < len
        <3>1. q * w + b < len * w + 0 /\ 0 \in 0 .. w - 1
            BY <1>1, <2>1
        <3> QED
            BY <3>1, Below
    <2>5. s[j] <=> b \in values[(q + 1) + 1]
        <3>1. q + 1 \in Nat /\ m + 1 \in Nat
            OBVIOUS
        <3> QED
            BY <1>7, <2>3, <3>1 DEF AreBits
    <2>6. t[i] <=> b \in rest[q + 1]
        <3>1. 0 + i - 1 = q * w + b /\ 0 \in Nat
            BY <2>1
        <3> QED
            BY <1>7, <3>1 DEF AreBits
    <2>7. rest[q + 1] = values[(q + 1) + 1]
        <3>1. q + 1 \in 1 .. len
            BY <2>4
        <3> QED
            BY <3>1
    <2> QED
        BY <1>6, <2>2, <2>5, <2>6, <2>7
<1>10. s = <<from \in values[1]>> \o t
    BY <1>5, <1>8, <1>9, FirstAndRest
<1> QED
    BY <1>1, <1>2, <1>3, <1>4, <1>10 DEF Starts

-----------------------------------------------------------------------------
(* The input of a Tape.                                                    *)

(* What the iterator of a Tape goes on with.                               *)
Byte == SUBSET (0 .. Width - 1)
InputTypes == /\ tape \in BOOLEAN /\ Input \in Seq(Byte) /\ lastInput \in Byte
              /\ readIndex \in 0 .. Width - 1 /\ hasInput \in BOOLEAN

Bytes == IF Tp!Reads THEN Input ELSE <<lastInput>> \o Input

LEMMA HeadAndTail ==
    ASSUME NEW S, NEW s \in Seq(S), s # <<>>
    PROVE  /\ s = <<Head(s)>> \o Tail(s) /\ Head(s) = s[1] /\ Head(s) \in S
           /\ Tail(s) \in Seq(S) /\ Len(s) \in Nat \ {0} /\ Len(Tail(s)) = Len(s) - 1
           /\ \A i \in 1 .. Len(Tail(s)) : Tail(s)[i] = s[i + 1]
<1>1. /\ Head(s) \in S /\ Tail(s) \in Seq(S) /\ Len(s) \in Nat \ {0} /\ Len(Tail(s)) = Len(s) - 1
      /\ \A i \in 1 .. Len(Tail(s)) : Tail(s)[i] = s[i + 1]
    BY HeadTailProperties, EmptySeq
<1>2. Head(s) = s[1]
    BY <1>1
<1>3. /\ SubSeq(s, 1, Len(s)) = <<s[1]>> \o SubSeq(s, 2, Len(s)) /\ SubSeq(s, 1, Len(s)) = s
    <2>1. 1 \in 1 .. Len(s) /\ Len(s) \in 1 .. Len(s) /\ 1 + 1 = 2
        BY <1>1
    <2> QED
        BY <2>1, SubSeqFull, SubSeqRecursiveFirst
<1>4. Tail(s) = SubSeq(s, 2, Len(s))
    BY TailIsSubSeq
<1> QED
    BY <1>1, <1>2, <1>3, <1>4

LEMMA ConsOf ==
    ASSUME NEW S, NEW s \in Seq(S), NEW x \in S
    PROVE  /\ <<x>> \o s \in Seq(S) /\ <<x>> \o s # <<>> /\ Len(<<x>> \o s) = Len(s) + 1
           /\ Head(<<x>> \o s) = x /\ Tail(<<x>> \o s) = s
<1>1. <<x>> \in Seq(S) /\ Len(<<x>>) = 1 /\ <<x>>[1] = x /\ Len(s) \in Nat
    OBVIOUS
<1>2. PICK u : u = <<x>> \o s
    OBVIOUS
<1>3. /\ u \in Seq(S) /\ Len(u) = 1 + Len(s)
      /\ \A i \in 1 .. 1 + Len(s) : u[i] = IF i <= 1 THEN <<x>>[i] ELSE s[i - 1]
    BY <1>1, <1>2, ConcatProperties
<1>4. u # <<>>
    BY <1>1, <1>3, EmptySeq
<1>5. Head(u) = x
    BY <1>1, <1>3, <1>4, HeadAndTail
<1>6. /\ Tail(u) \in Seq(S) /\ Len(Tail(u)) = Len(s)
      /\ \A i \in 1 .. Len(s) : Tail(u)[i] = u[i + 1]
    BY <1>1, <1>3, <1>4, HeadAndTail
<1>7. ASSUME NEW i \in 1 .. Len(s) PROVE Tail(u)[i] = s[i]
    <2>1. i + 1 \in 1 .. 1 + Len(s) /\ ~(i + 1 <= 1) /\ (i + 1) - 1 = i
        BY <1>1
    <2>2. u[i + 1] = s[i]
        BY <1>3, <2>1
    <2> QED
        BY <1>6, <2>2
<1>8. Tail(u) = s
    BY <1>6, <1>7, SeqEqual
<1> QED
    BY <1>2, <1>3, <1>4, <1>5, <1>8

LEMMA FrontOfAppend ==
    ASSUME NEW s \in Seq(BOOLEAN), NEW x \in BOOLEAN
    PROVE  Front(Append(s, x)) = s
<1>1. PICK u : u = Append(s, x)
    OBVIOUS
<1>2. /\ u \in Seq(BOOLEAN) /\ Len(u) = Len(s) + 1 /\ Len(s) \in Nat
      /\ \A i \in 1 .. Len(s) : u[i] = s[i] /\ u[i] \in BOOLEAN
    BY <1>1, AppendProperties
<1>3. Front(u) = SubSeq(u, 1, Len(s))
    BY <1>2 DEF Front
<1>4. /\ SubSeq(u, 1, Len(s)) \in Seq(BOOLEAN) /\ Len(SubSeq(u, 1, Len(s))) = Len(s)
      /\ \A i \in 1 .. Len(s) : SubSeq(u, 1, Len(s))[i] = u[i]
    BY <1>2, SubSeqProperties
<1>5. SubSeq(u, 1, Len(s)) = s
    BY <1>2, <1>4, SeqEqual
<1> QED
    BY <1>1, <1>3, <1>5

LEMMA BytesAre ==
    ASSUME InputTypes
    PROVE  /\ Bytes \in Seq(Byte) /\ Len(Bytes) \in Nat
           /\ Len(Bytes) * Width - readIndex \in Nat
           /\ Tp!Left = Tp!BitsOf(Bytes, Width, readIndex, Len(Bytes) * Width - readIndex)
           /\ Tp!Left \in Seq(BOOLEAN)
<1>1. Width \in Nat \ {0} /\ readIndex \in 0 .. Width - 1 /\ Input \in Seq(Byte) /\ lastInput \in Byte
    BY TapeAssumption DEF InputTypes
<1>2. Bytes \in Seq(Byte) /\ Len(Bytes) \in Nat /\ (~Tp!Reads => Len(Bytes) # 0)
    BY <1>1, ConsOf DEF Bytes
<1>3. Tp!Reads => readIndex = 0
    BY DEF Tp!Reads
<1>4. Len(Bytes) * Width - readIndex \in Nat
    <2>1. CASE Tp!Reads
        BY <1>1, <1>2, <1>3, <2>1
    <2>2. CASE ~Tp!Reads
        <3>1. PICK l \in Nat : Len(Bytes) = l + 1
            <4>1. Len(Bytes) - 1 \in Nat /\ Len(Bytes) = (Len(Bytes) - 1) + 1
                BY <1>2, <2>2
            <4> QED
                BY <4>1
        <3>2. (l + 1) * Width = l * Width + Width /\ l * Width \in Nat
            BY <1>1
        <3> QED
            BY <1>1, <3>1, <3>2
    <2> QED
        BY <2>1, <2>2
<1>5. Tp!Left = Tp!BitsOf(Bytes, Width, readIndex, Len(Bytes) * Width - readIndex)
    BY DEF Tp!Left, Bytes
<1> QED
    BY <1>2, <1>4, <1>5, BitsAre

(* A round of it takes a byte, if it has none to go on with.               *)
LEMMA LoadStep ==
    ASSUME InputTypes, Tp!HasBit, Tp!Load
    PROVE  /\ Bytes # <<>> /\ lastInput' = Head(Bytes) /\ Input' = Tail(Bytes)
           /\ Tp!Bit = (readIndex \in Bytes[1])
           /\ <<lastInput'>> \o Input' = Bytes
           /\ Input' \in Seq(Byte) /\ lastInput' \in Byte
<1>1. CASE Tp!Reads
    <2>1. Bytes = Input /\ Input \in Seq(Byte) /\ Input # <<>>
        BY <1>1 DEF Bytes, InputTypes, Tp!HasBit
    <2>2. lastInput' = Head(Input) /\ Input' = Tail(Input) /\ Tp!Bit = (readIndex \in Head(Input))
        BY <1>1 DEF Tp!Load, Tp!Bit
    <2> QED
        BY <2>1, <2>2, HeadAndTail
<1>2. CASE ~Tp!Reads
    <2>1. Bytes = <<lastInput>> \o Input /\ Input \in Seq(Byte) /\ lastInput \in Byte
        BY <1>2 DEF Bytes, InputTypes
    <2>2. lastInput' = lastInput /\ Input' = Input /\ Tp!Bit = (readIndex \in lastInput)
        BY <1>2 DEF Tp!Load, Tp!Bit
    <2>3. Bytes \in Seq(Byte) /\ Bytes # <<>> /\ Head(Bytes) = lastInput /\ Tail(Bytes) = Input
        BY <2>1, ConsOf
    <2>4. Bytes[1] = lastInput
        BY <2>3, HeadAndTail
    <2> QED
        BY <2>1, <2>2, <2>3, <2>4
<1> QED
    BY <1>1, <1>2

LEMMA TapeStop ==
    ASSUME InputTypes, Tp!Stop, tape' = tape
    PROVE  InputTypes' /\ Tp!Left' = Tp!Left
<1>1. /\ Tp!HasBit /\ Tp!Load /\ hasInput' = (hasInput \/ Tp!Reads) /\ readIndex' = readIndex
    BY DEF Tp!Stop
<1>2. InputTypes'
    BY <1>1, LoadStep DEF InputTypes
<1>3. ~Tp!Reads'
    BY <1>1 DEF Tp!Reads
<1>4. Bytes' = Bytes
    BY <1>1, <1>3, LoadStep DEF Bytes
<1>5. Tp!Left' = Tp!BitsOf(Bytes', Width, readIndex', Len(Bytes') * Width - readIndex')
    BY DEF Tp!Left, Bytes
<1> QED
    BY <1>1, <1>2, <1>4, <1>5, BytesAre

LEMMA TapeReceive ==
    ASSUME InputTypes, Tp!Receive, tape' = tape
    PROVE  InputTypes' /\ Tp!Left = <<Tp!Bit>> \o Tp!Left'
<1>1. /\ Tp!HasBit /\ Tp!Load /\ readIndex' = (readIndex + 1) % Width
      /\ hasInput' = ((hasInput \/ Tp!Reads) /\ readIndex + 1 # Width)
    BY DEF Tp!Receive
<1>2. Width \in Nat \ {0} /\ readIndex \in 0 .. Width - 1
    BY TapeAssumption DEF InputTypes
<1>3. readIndex' = IF readIndex + 1 = Width THEN 0 ELSE readIndex + 1
    BY <1>1, <1>2
<1>4. InputTypes'
    BY <1>1, <1>2, <1>3, LoadStep DEF InputTypes
<1>5. PICK bytes : bytes = Bytes
    OBVIOUS
<1>6. PICK r \in 0 .. Width - 1 : r = readIndex
    BY <1>2
<1>7. PICK len \in Nat : Len(bytes) = len + 1
    <2>1. Len(Bytes) \in Nat \ {0}
        BY <1>1, LoadStep, BytesAre, HeadAndTail
    <2>2. Len(Bytes) - 1 \in Nat /\ Len(Bytes) = (Len(Bytes) - 1) + 1
        BY <2>1
    <2> QED
        BY <1>5, <2>2
<1>8. (len + 1) * Width = len * Width + Width /\ len * Width \in Nat
    BY <1>2
<1>9. Tp!Left = Tp!BitsOf(bytes, Width, r, len * Width + Width - r)
    <2>1. Tp!Left = Tp!BitsOf(bytes, Width, r, Len(bytes) * Width - r)
        BY <1>5, <1>6, BytesAre
    <2>2. Len(bytes) * Width - r = len * Width + Width - r
        <3>1. Len(bytes) * Width = (len + 1) * Width
            BY <1>7
        <3> QED
            BY <1>2, <1>8, <3>1
    <2> QED
        BY <2>1, <2>2
<1>10. Tp!Left' = Tp!BitsOf(Bytes', Width, readIndex', Len(Bytes') * Width - readIndex')
    BY DEF Tp!Left, Bytes
<1>11. Tp!Bit = (r \in bytes[1])
    BY <1>1, <1>5, <1>6, LoadStep
<1>12. CASE readIndex + 1 # Width
    <2>1. ~Tp!Reads' /\ readIndex' = r + 1
        BY <1>2, <1>3, <1>6, <1>12 DEF Tp!Reads
    <2>2. Bytes' = bytes
        BY <1>1, <1>5, <2>1, LoadStep DEF Bytes
    <2>3. PICK l \in Nat : l = len * Width + Width - (r + 1)
        <3>1. len * Width + Width - (r + 1) \in Nat
            BY <1>2, <1>8
        <3> QED
            BY <3>1
    <2>4. len * Width + Width - r = l + 1 /\ Len(Bytes') * Width - readIndex' = l
        BY <1>2, <1>7, <1>8, <2>1, <2>2, <2>3
    <2>5. Tp!Left = Tp!BitsOf(bytes, Width, r, l + 1) /\ Tp!Left' = Tp!BitsOf(bytes, Width, r + 1, l)
        BY <1>9, <1>10, <2>1, <2>2, <2>4
    <2> QED
        BY <1>2, <1>4, <1>11, <2>5, BitLess
<1>13. CASE readIndex + 1 = Width
    <2>1. Tp!Reads' /\ readIndex' = 0 /\ r = Width - 1
        <3>1. hasInput' = FALSE
            BY <1>1, <1>13
        <3>2. readIndex' = 0 /\ r = Width - 1
            BY <1>2, <1>3, <1>6, <1>13
        <3> QED
            BY <3>1, <3>2 DEF Tp!Reads
    <2>2. Bytes' = Tail(bytes)
        BY <1>1, <1>5, <2>1, LoadStep DEF Bytes
    <2>3. /\ Len(Tail(bytes)) = len
          /\ \A k \in 1 .. len : Tail(bytes)[k] = bytes[k + 1]
        <3>1. bytes \in Seq(Byte) /\ bytes # <<>>
            BY <1>1, <1>5, LoadStep, BytesAre
        <3> QED
            BY <1>7, <3>1, HeadAndTail
    <2>4. len * Width + Width - r = len * Width + 1 /\ Len(Bytes') * Width - readIndex' = len * Width
        BY <1>2, <1>8, <2>1, <2>2, <2>3
    <2>5. /\ Tp!Left = Tp!BitsOf(bytes, Width, Width - 1, len * Width + 1)
          /\ Tp!Left' = Tp!BitsOf(Tail(bytes), Width, 0, len * Width)
        <3>1. PICK m, k : m = len * Width + 1 /\ k = len * Width
            OBVIOUS
        <3>2. Tp!Left = Tp!BitsOf(bytes, Width, r, m)
            BY <1>9, <2>4, <3>1
        <3>3. Tp!Left' = Tp!BitsOf(Bytes', Width, readIndex', k)
            BY <1>10, <2>4, <3>1
        <3> QED
            BY <2>1, <2>2, <3>1, <3>2, <3>3, Zenon
    <2>6. PICK top, fewer, more, rest :
              /\ top = Width - 1 /\ fewer = len * Width /\ more = fewer + 1
              /\ more = len * Width + 1 /\ rest = Tail(bytes)
        OBVIOUS
    <2>7. Starts(Tp!BitsOf(bytes, Width, top, more), top \in bytes[1], Tp!BitsOf(rest, Width, 0, fewer))
        <3>1. \A k \in 1 .. len : rest[k] = bytes[k + 1]
            BY <2>3, <2>6
        <3> QED
            BY <1>2, <2>6, <3>1, ValueLess, Zenon
    <2>8. Tp!Left = <<top \in bytes[1]>> \o Tp!Left'
        BY <2>5, <2>6, <2>7, Zenon DEF Starts
    <2>9. Tp!Bit = (top \in bytes[1])
        BY <1>11, <2>1, <2>6
    <2> QED
        BY <1>4, <2>8, <2>9, Zenon
<1> QED
    BY <1>12, <1>13

LEMMA LeftBits ==
    ASSUME Inv, InputTypes
    PROVE  Left \in Seq(BOOLEAN)
BY QueueBits, BytesAre DEF Left, queue

(* What is left of the channel behind a round.                             *)
LEMMA RoundStep ==
    ASSUME Inv, InputTypes, NEW goesOn \in BOOLEAN, Yields, Round(goesOn), tape' = tape
    PROVE  /\ InputTypes' /\ Bit \in BOOLEAN
           /\ IF tape /\ ~goesOn THEN Left' = Left ELSE Left = <<Bit>> \o Left'
<1>1. CASE tape
    <2>1. Bit = Tp!Bit /\ Tp!Bit \in BOOLEAN /\ Left = Tp!Left /\ Left' = Tp!Left'
        BY <1>1 DEF Bit, Tp!Bit, Left
    <2>2. CASE goesOn
        BY <1>1, <2>1, <2>2, TapeReceive DEF Round
    <2>3. CASE ~goesOn
        BY <1>1, <2>1, <2>3, TapeStop DEF Round
    <2> QED
        BY <2>2, <2>3
<1>2. CASE ~tape
    <2>1. Tmp!Receive /\ UNCHANGED tapeVars
        BY <1>2 DEF Round
    <2>2. InputTypes'
        BY <2>1 DEF InputTypes, tapeVars, inVars
    <2>3. Left = queue /\ Left' = queue' /\ Bit = last'
        BY <1>2, <2>1 DEF Left, queue, Bit, Tmp!Receive
    <2>4. queue # <<>> /\ queue' = Tail(queue) /\ last' = Head(queue) /\ queue \in Seq(BOOLEAN)
        BY <2>1, ReceiveStep, QueueBits
    <2>5. queue = <<last'>> \o queue' /\ last' \in BOOLEAN
        BY <2>4, HeadAndTail
    <2> QED
        BY <1>2, <2>2, <2>3, <2>5
<1> QED
    BY <1>1, <1>2

-----------------------------------------------------------------------------
(* The values received.                                                    *)

given == Tp!BitsOf(Append(got, value), size, 0, Len(got) * size + n)

LoopTypes == /\ size \in Nat \ {0} /\ n \in 0 .. size - 1 /\ value \in SUBSET (0 .. n - 1)
             /\ got \in Seq(SUBSET Nat)

LoopInv == /\ Inv /\ InputTypes
           /\ pc = "send" => before = NoLoop
           /\ stopped \in BOOLEAN /\ (pc = "receive" => ~stopped)
           /\ pc = "receive" \/ before # NoLoop =>
                  /\ LoopTypes
                  /\ before = (IF tape /\ stopped THEN Front(given) ELSE given) \o Left

LEMMA GivenBits == ASSUME LoopTypes PROVE given \in Seq(BOOLEAN)
<1>1. Len(got) * size + n \in Nat
    BY DEF LoopTypes
<1> QED
    BY <1>1, BitsAre DEF given

(* A bit is given, also when it is the last of its value.                  *)
LEMMA GivenStep ==
    ASSUME LoopTypes, Bit \in BOOLEAN, size' = size,
           \/ n # size - 1 /\ got' = got /\ value' = Collected /\ n' = n + 1
           \/ n = size - 1 /\ got' = Append(got, Collected) /\ value' = {} /\ n' = 0
    PROVE  LoopTypes' /\ given' = Append(given, Bit)
<1>1. /\ size \in Nat \ {0} /\ n \in 0 .. size - 1 /\ value \in SUBSET (0 .. n - 1)
      /\ got \in Seq(SUBSET Nat) /\ Len(got) \in Nat
    BY DEF LoopTypes
<1>2. Collected \in SUBSET (0 .. n) /\ Collected \in SUBSET Nat
    BY <1>1 DEF Collected
<1>3. PICK bit \in BOOLEAN : bit = Bit
    OBVIOUS
<1>4. PICK x \in SUBSET Nat : x = Collected /\ x = IF bit THEN value \cup {n} ELSE value
    BY <1>2, <1>3 DEF Collected
<1>5. /\ Append(got, x) \in Seq(SUBSET Nat) /\ Len(Append(got, x)) = Len(got) + 1
      /\ \A k \in 1 .. Len(got) : Append(got, x)[k] = got[k]
      /\ Append(got, x)[Len(got) + 1] = x
    BY <1>1, AppendProperties
<1>6. PICK w \in Nat \ {0}, c \in 0 .. size - 1, len \in Nat, part \in SUBSET (0 .. n - 1),
           whole \in Seq(SUBSET Nat) :
           w = size /\ c = n /\ len = Len(got) /\ part = value /\ whole = got
    BY <1>1
<1>7. given = Tp!BitsOf(Append(whole, part), w, 0, len * w + c)
    BY <1>6 DEF given
<1>8. ASSUME NEW values, \A k \in 1 .. len : values[k] = whole[k], values[len + 1] = x
      PROVE  Tp!BitsOf(values, w, 0, len * w + c + 1) = Append(given, bit)
    <2>1. c \in 0 .. w - 1 /\ part \in SUBSET (0 .. c - 1)
        BY <1>6
    <2>2. values[len + 1] = IF bit THEN part \cup {c} ELSE part
        BY <1>4, <1>6, <1>8
    <2>3. len = Len(whole)
        BY <1>6
    <2>4. PICK fewer, more : fewer = len * w + c /\ more = fewer + 1 /\ more = len * w + c + 1
        OBVIOUS
    <2>5. Ends(Tp!BitsOf(values, w, 0, more), Tp!BitsOf(Append(whole, part), w, 0, fewer), bit)
        BY <1>8, <2>1, <2>2, <2>3, <2>4, BitMore, Zenon
    <2> QED
        BY <1>7, <2>4, <2>5, Zenon DEF Ends
<1>9. CASE n # size - 1 /\ got' = got /\ value' = Collected /\ n' = n + 1
    <2>1. LoopTypes'
        BY <1>1, <1>2, <1>9 DEF LoopTypes
    <2>2. Tp!BitsOf(Append(whole, x), w, 0, len * w + c + 1) = Append(given, bit)
        BY <1>5, <1>6, <1>8
    <2>3. given' = Tp!BitsOf(Append(whole, x), w, 0, len * w + (c + 1))
        BY <1>4, <1>6, <1>9 DEF given
    <2>4. len * w + (c + 1) = len * w + c + 1
        OBVIOUS
    <2> QED
        BY <1>3, <2>1, <2>2, <2>3, <2>4
<1>10. CASE n = size - 1 /\ got' = Append(got, Collected) /\ value' = {} /\ n' = 0
    <2>1. LoopTypes'
        BY <1>1, <1>4, <1>5, <1>10 DEF LoopTypes
    <2>2. PICK y : y = Append(Append(whole, x), {})
        OBVIOUS
    <2>3. (\A k \in 1 .. len : y[k] = whole[k]) /\ y[len + 1] = x
        <3>1. PICK z \in Seq(SUBSET Nat) : z = Append(whole, x)
            BY <1>5, <1>6
        <3>2. /\ Len(z) = len + 1 /\ z[len + 1] = x
              /\ \A k \in 1 .. len : z[k] = whole[k]
            BY <1>5, <1>6, <3>1
        <3>3. \A k \in 1 .. len + 1 : y[k] = z[k]
            BY <2>2, <3>1, <3>2, AppendProperties
        <3> QED
            BY <3>2, <3>3
    <2>4. Tp!BitsOf(y, w, 0, len * w + c + 1) = Append(given, bit)
        BY <1>8, <2>3
    <2>5. given' = Tp!BitsOf(y, w, 0, Len(Append(whole, x)) * w + 0)
        <3>1. got' = Append(whole, x) /\ value' = {} /\ n' = 0 /\ size' = w
            BY <1>4, <1>6, <1>10
        <3>2. given' = Tp!BitsOf(Append(got', value'), size', 0, Len(got') * size' + n')
            BY DEF given
        <3> QED
            BY <2>2, <3>1, <3>2, Zenon
    <2>6. Len(Append(whole, x)) * w + 0 = len * w + c + 1
        <3>1. (len + 1) * w = len * w + w /\ c = w - 1
            BY <1>6, <1>10
        <3>2. Len(Append(whole, x)) * w = (len + 1) * w
            BY <1>5, <1>6
        <3> QED
            BY <1>6, <3>1, <3>2
    <2> QED
        BY <1>3, <2>1, <2>4, <2>5, <2>6
<1> QED
    BY <1>9, <1>10

-----------------------------------------------------------------------------
(* The steps: the output.                                                  *)

LEMMA OutputStill == ASSUME OutputInv, UNCHANGED outVars PROVE OutputInv'
<1>1. sent' = sent /\ lost' = lost /\ Output' = Output /\ nextOutput' = nextOutput /\ writeIndex' = writeIndex
    BY DEF outVars
<1>2. BytesSent' = BytesSent /\ \A k : Written(k)' = Written(k) /\ ByteSent(k)' = ByteSent(k)
    BY <1>1 DEF BytesSent, Written, ByteSent
<1> QED
    BY <1>1, <1>2 DEF OutputInv, OutputAligned

LEMMA OutputSend == ASSUME OutputInv, NEW bit \in BOOLEAN, ChannelSend(bit) PROVE OutputInv'
<1>1. CASE tape
    BY <1>1, TapeSendStep DEF ChannelSend
<1>2. CASE ~tape
    BY <1>2, OutputStill DEF ChannelSend, tapeVars
<1> QED
    BY <1>1, <1>2

LEMMA OutputNext == ASSUME OutputInv, [Next]_vars PROVE OutputInv'
<1>1. ASSUME NEW s \in Sizes, ReceiveAs(s) PROVE OutputInv'
    BY <1>1, OutputStill DEF ReceiveAs, tapeVars
<1>2. CASE Collect
    BY <1>2, OutputStill DEF Collect, Round, tapeVars
<1>3. CASE Exhausted
    BY <1>3, OutputStill DEF Exhausted, tapeVars
<1>4. ASSUME NEW goesOn \in BOOLEAN, YieldValue(goesOn) PROVE OutputInv'
    BY <1>4, OutputStill DEF YieldValue, Round, tapeVars
<1>5. ASSUME NEW v \in Values, SendAs(v[1], v[2]) PROVE OutputInv'
    BY <1>5, OutputStill DEF SendAs, tapeVars
<1>6. CASE SendNext
    <2>1. ChannelSend(n \in value) /\ (n \in value) \in BOOLEAN
        BY <1>6 DEF SendNext
    <2> QED
        BY <2>1, OutputSend, Zenon
<1>7. CASE Reset
    BY <1>7, OutputStill DEF Reset, tapeVars
<1>8. ASSUME NEW bit \in BOOLEAN, SendBit(bit) PROVE OutputInv'
    BY <1>8, OutputSend DEF SendBit
<1>9. CASE UNCHANGED vars
    BY <1>9, OutputStill DEF vars, tapeVars
<1> QED
    BY <1>1, <1>2, <1>3, <1>4, <1>5, <1>6, <1>7, <1>8, <1>9 DEF Next

LEMMA OutputInit == Init => OutputInv
<1> SUFFICES ASSUME Init PROVE OutputInv
    OBVIOUS
<1>1. sent = <<>> /\ lost = {} /\ Output = <<>> /\ nextOutput = {} /\ writeIndex = 0
    BY DEF Init, Tp!Init
<1>2. sent \in Seq(BOOLEAN) /\ Len(sent) = 0 /\ Output \in Seq(SUBSET (0 .. Width - 1)) /\ Len(Output) = 0
    BY <1>1
<1>3. 0 \div Width = 0 /\ 0 % Width = 0
    BY TapeAssumption
<1>4. BytesSent = 0 /\ Written(0) = {} /\ 0 .. writeIndex - 1 = {}
    BY <1>1, <1>2, <1>3 DEF BytesSent, Written
<1>5. Cardinality(Written(0)) = 0
    BY <1>4, FS_EmptySet
<1> QED
    BY <1>1, <1>2, <1>3, <1>4, <1>5 DEF OutputInv, OutputAligned

-----------------------------------------------------------------------------
(* The steps: the input.                                                   *)

LEMMA LoopStill ==
    ASSUME LoopInv, UNCHANGED <<tape, tempVars, tapeVars, loop, history>>,
           pc' = pc \/ (pc = "receive" /\ pc' = "idle")
    PROVE  LoopInv'
<1>1. /\ tape' = tape /\ size' = size /\ n' = n /\ value' = value
      /\ before' = before /\ got' = got /\ stopped' = stopped
    BY DEF loop, history
<1>2. Inv' /\ InputTypes'
    BY Still, <1>1 DEF LoopInv, StepOK, InputTypes, tapeVars, inVars
<1>3. given' = given /\ LoopTypes' = LoopTypes
    BY <1>1 DEF given, LoopTypes
<1>4. Left' = Left
    BY <1>1 DEF Left, tempVars, tapeVars, inVars, Tp!Left, Tp!Reads, Tmp!At
<1>5. /\ pc' = "send" => pc = "send"
      /\ pc' = "receive" => pc = "receive"
      /\ pc' = "receive" \/ before' # NoLoop => pc = "receive" \/ before # NoLoop
    BY <1>1
<1> QED
    BY <1>1, <1>2, <1>3, <1>4, <1>5 DEF LoopInv

(* What is not a ReceiveAs begins its history anew.                        *)
LEMMA LoopAnew ==
    ASSUME LoopInv, Inv', InputTypes', before' = NoLoop, stopped' \in BOOLEAN, pc' # "receive"
    PROVE  LoopInv'
BY DEF LoopInv

LEMMA LoopBegin == ASSUME LoopInv, NEW s \in Sizes, ReceiveAs(s) PROVE LoopInv'
<1>1. /\ pc' = "receive" /\ size' = s /\ n' = 0 /\ value' = {}
      /\ before' = Left /\ got' = <<>> /\ stopped' = FALSE
      /\ tape' = tape /\ UNCHANGED <<tempVars, tapeVars>>
    BY DEF ReceiveAs
<1>2. Inv' /\ InputTypes'
    BY Still, <1>1 DEF LoopInv, StepOK, InputTypes, tapeVars, inVars
<1>3. LoopTypes'
    <2>1. s \in Nat \ {0}
        BY AdaptersAssumption
    <2>2. got' \in Seq(SUBSET Nat)
        BY <1>1, EmptySeq
    <2> QED
        BY <1>1, <2>1, <2>2 DEF LoopTypes
<1>4. Left' = Left /\ Left \in Seq(BOOLEAN)
    <2>1. Left' = Left
        BY <1>1 DEF Left, tempVars, tapeVars, inVars, Tp!Left, Tp!Reads, Tmp!At
    <2> QED
        BY <2>1, LeftBits DEF LoopInv
<1>5. given' = <<>>
    <2>1. Len(got') * size' + n' = 0
        BY <1>1, <1>3 DEF LoopTypes
    <2>2. given' \in Seq(BOOLEAN) /\ Len(given') = 0
        <3>1. given' = Tp!BitsOf(Append(got', value'), size', 0, Len(got') * size' + n')
            BY DEF given
        <3>2. PICK zero \in Nat : zero = Len(got') * size' + n' /\ zero = 0
            BY <2>1
        <3> QED
            BY <3>1, <3>2, BitsAre
    <2> QED
        BY <2>2
<1>6. before' = given' \o Left'
    BY <1>1, <1>4, <1>5, ConcatEmptySeq
<1> QED
    BY <1>1, <1>2, <1>3, <1>6 DEF LoopInv

LEMMA LeftBitsNext == (Inv /\ InputTypes => Left \in Seq(BOOLEAN))'
<1>1. Inv /\ InputTypes => Left \in Seq(BOOLEAN)
    BY LeftBits
<1> QED
    BY <1>1, PTL

(* A round of ReceiveAs.                                                   *)
LEMMA LoopRound ==
    ASSUME LoopInv, pc = "receive", Yields, NEW goesOn \in BOOLEAN, Round(goesOn),
           tape' = tape, before' = before, size' = size,
           stopped' = ~goesOn, pc' = IF goesOn THEN "receive" ELSE "idle",
           \/ n # size - 1 /\ got' = got /\ value' = Collected /\ n' = n + 1
           \/ n = size - 1 /\ got' = Append(got, Collected) /\ value' = {} /\ n' = 0
    PROVE  LoopInv'
<1>1. Inv /\ InputTypes /\ LoopTypes /\ before = given \o Left
    BY DEF LoopInv
<1>2. /\ Inv' /\ InputTypes' /\ Bit \in BOOLEAN
      /\ IF tape /\ ~goesOn THEN Left' = Left ELSE Left = <<Bit>> \o Left'
    BY <1>1, RoundOK, RoundStep DEF StepOK
<1>3. LoopTypes' /\ given' = Append(given, Bit)
    BY <1>1, <1>2, GivenStep
<1>4. given \in Seq(BOOLEAN) /\ Left \in Seq(BOOLEAN)
    BY <1>1, GivenBits, LeftBits
<1>5. before' = (IF tape' /\ stopped' THEN Front(given') ELSE given') \o Left'
    <2>1. CASE tape /\ ~goesOn
        BY <1>1, <1>2, <1>3, <1>4, <2>1, FrontOfAppend
    <2>2. CASE ~(tape /\ ~goesOn)
        <3>1. Left' \in Seq(BOOLEAN)
            BY <1>2, LeftBitsNext
        <3>2. <<Bit>> \in Seq(BOOLEAN)
            BY <1>2
        <3>3. given \o (<<Bit>> \o Left') = (given \o <<Bit>>) \o Left'
            BY <1>4, <3>1, <3>2, ConcatAssociative
        <3>4. Append(given, Bit) = given \o <<Bit>>
            BY <1>2, <1>4, AppendIsConcat
        <3> QED
            BY <1>1, <1>2, <1>3, <2>2, <3>3, <3>4
    <2> QED
        BY <2>1, <2>2
<1> QED
    BY <1>2, <1>3, <1>5 DEF LoopInv

LEMMA LoopNext == ASSUME LoopInv, [Next]_vars PROVE LoopInv'
<1>1. Inv /\ Inv' /\ InputTypes
    BY NextOK DEF LoopInv, StepOK
<1>2. ASSUME NEW s \in Sizes, ReceiveAs(s) PROVE LoopInv'
    BY <1>2, LoopBegin
<1>3. CASE Collect
    <2>1. Round(TRUE) /\ TRUE \in BOOLEAN /\ stopped' = ~TRUE
        BY <1>3 DEF Collect, history, LoopInv
    <2> QED
        BY <1>3, <2>1, LoopRound DEF Collect, history
<1>4. CASE Exhausted
    BY <1>4, LoopStill DEF Exhausted
<1>5. ASSUME NEW goesOn \in BOOLEAN, YieldValue(goesOn) PROVE LoopInv'
    BY <1>5, LoopRound DEF YieldValue
<1>6. ASSUME NEW v \in Values, SendAs(v[1], v[2]) PROVE LoopInv'
    <2>1. InputTypes'
        BY <1>1, <1>6 DEF SendAs, InputTypes, tapeVars, inVars
    <2> QED
        BY <1>1, <1>6, <2>1, LoopAnew DEF SendAs, NoHistory
<1>7. CASE SendNext
    <2>1. InputTypes'
        BY <1>1, <1>7 DEF SendNext, ChannelSend, InputTypes, tapeVars, inVars
    <2>2. before' = NoLoop /\ stopped' \in BOOLEAN /\ pc' # "receive"
        BY <1>7 DEF SendNext, history, LoopInv
    <2> QED
        BY <1>1, <2>1, <2>2, LoopAnew
<1>8. CASE Reset
    <2>1. InputTypes'
        BY <1>1, <1>8 DEF Reset, InputTypes, tapeVars, inVars
    <2> QED
        BY <1>1, <1>8, <2>1, LoopAnew DEF Reset, NoHistory
<1>9. ASSUME NEW bit \in BOOLEAN, SendBit(bit) PROVE LoopInv'
    <2>1. InputTypes'
        BY <1>1, <1>9 DEF SendBit, ChannelSend, InputTypes, tapeVars, inVars
    <2> QED
        BY <1>1, <1>9, <2>1, LoopAnew DEF SendBit, NoHistory
<1>10. CASE UNCHANGED vars
    BY <1>10, LoopStill DEF vars
<1> QED
    BY <1>2, <1>3, <1>4, <1>5, <1>6, <1>7, <1>8, <1>9, <1>10 DEF Next

LEMMA LoopInit == Init => LoopInv
<1> SUFFICES ASSUME Init PROVE LoopInv
    OBVIOUS
<1>1. /\ tape \in BOOLEAN /\ pc = "idle" /\ before = NoLoop /\ stopped = FALSE
      /\ Input \in Tapes /\ readIndex = 0 /\ hasInput = FALSE /\ lastInput = {}
    BY DEF Init, Tp!Init
<1>2. InputTypes
    <2>1. Input \in Seq(Byte) /\ lastInput \in Byte
        BY <1>1, TapeAssumption DEF Byte
    <2>2. readIndex \in 0 .. Width - 1
        BY <1>1, TapeAssumption
    <2> QED
        BY <1>1, <2>1, <2>2 DEF InputTypes
<1> QED
    BY <1>1, <1>2, InitInv DEF LoopInv

-----------------------------------------------------------------------------
(* The theorems.                                                           *)

(* No index of a Temporary leaves its buffer, and the two are Size apart,  *)
(* whatever its capacity (src/sio/temp.go:35-72).                          *)
THEOREM TemporaryIndexesFit == Spec => []IndexesFit
<1>1. Inv => IndexesFit
    BY DEF Inv
<1> QED
    BY Invariant, <1>1, PTL

(* A Temporary of any capacity is a bounded first-in first-out queue: the  *)
(* circular buffer implements BitQueue (src/sio/temp.go:35-72).            *)
THEOREM TemporaryIsQueue == Spec => RefinesBitQueue
<1>1. Init => Tmp!Queue!Init
    BY InitInv DEF Tmp!Queue!Init, queue
<1>2. Inv /\ [Next]_vars => [Tmp!Queue!Next]_Tmp!Queue!vars
    <2> SUFFICES ASSUME Inv, [Next]_vars PROVE [Tmp!Queue!Next]_Tmp!Queue!vars
        OBVIOUS
    <2>1. QueueStep /\ Len(queue) = Size
        BY NextOK, QueueBits DEF StepOK
    <2> QED
        BY <2>1 DEF QueueStep, queue, Tmp!Queue!Next, Tmp!Queue!vars, Tmp!Queue!Send,
                    Tmp!Queue!Receive, Tmp!Queue!Rewind
<1> QED
    BY <1>1, <1>2, Invariant, PTL DEF Spec, RefinesBitQueue, Tmp!RefinesBitQueue, Tmp!Queue!Spec

(* What a Tape writes is what was sent to it, bytes in their order, the    *)
(* lowest bit first, whatever the width of a byte, the values and the bits *)
(* sent, and the writes that failed (src/sio/tape.go:63-77).               *)
THEOREM TapeOutputAligned == Spec => []OutputAligned
<1>1. OutputInv /\ [Next]_vars => OutputInv'
    BY OutputNext
<1>2. OutputInv => OutputAligned
    BY DEF OutputInv
<1> QED
    BY OutputInit, <1>1, <1>2, PTL DEF Spec

(* ReceiveAs yields the bits that were in the channel, each once and in    *)
(* their order, whatever the sizes and the contents (src/sio/as.go:9-149,  *)
(* src/sio/temp.go:35-54, src/sio/tape.go:35-59).                          *)
THEOREM ReceivedInOrder == Spec => []BytesInOrder
<1>1. LoopInv /\ [Next]_vars => LoopInv'
    BY LoopNext
<1>2. LoopInv => BytesInOrder
    <2> SUFFICES ASSUME LoopInv, before # NoLoop
                 PROVE  /\ value \subseteq 0 .. n - 1
                        /\ before = (IF tape /\ stopped THEN Front(given) ELSE given) \o Left
        BY DEF BytesInOrder, given
    <2> QED
        BY DEF LoopInv, LoopTypes
<1> QED
    BY LoopInit, <1>1, <1>2, PTL DEF Spec
=============================================================================
