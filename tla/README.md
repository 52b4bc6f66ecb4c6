# A TLA+ specification of the μCAPP

This directory specifies the μCAPP machine of this repository: a memory that is
searched by content (the CAPP), a CPU that fetches its instructions out of that
memory and works on a list of its cells, and the channels through which bits go
in and out. It holds TLA+ modules, the TLC configurations that check them on
small instances, and theorems that TLAPS has checked for every instance.
`PROJECT.json` names the source lines behind each definition.

## 1. The system

| Part | Source | State | Operations |
|---|---|---|---|
| CAPP | `src/capp/capp.go` | per cell two set bits, a tag, a 32-bit word; which set counts; a cached list of the selected and tagged cells (`firstCell`, `Next`, `count`); flipped bits | `Action` (nine operations), `Reset`, `Import` |
| Instruction fetch | `FetchCode`, `src/cpu/cpu.go` | the ip; the CAPP's second set | fetch by ip from the CAPP, the stack or the registers |
| List I/O | `listInput`, `listOutput`, `src/cpu/cpu.go` | mask, bits collected so far | `io fetch`, `io store` |
| CPU | `src/cpu/cpu.go`, `stack.go`, `opcode.go` | ip, six registers, stack, `Match`, `Mask`, `Cond`, a Response queue per channel, ticks, power | `Reset`, `Tick` = fetch, `Execute`, trap check |
| Temporary | `src/sio/temp.go` | circular buffer: two indexes and a size | `Send`, `Receive`, `Rewind`, `Alert` |
| Tape | `src/sio/tape.go` | a reader and a writer, one byte of each and a position in it | the same |
| Byte and word adapters | `src/sio/as.go` | none of their own: loops over the bits of a channel | `SendAsUint8`, 16, 32, `ReceiveAsUint8`, 16, 32 |
| ROM and Monitor | `src/sio/rom.go` | the program's words, a trap channel | the same; `Send` refuses |
| Ring | `src/sio/ring.go` | bytes, a read and a write index, a capacity, a dirty mark | the same; `Marshal`, `Unmarshal` |
| Drum | `src/sio/drum.go` | up to 256 rings, one selected; ring 255 is the directory | `Save`, `Delete`, `Marshal`, `Unmarshal`, ring operations |
| Depot | `src/sio/depot.go` | drums, one selected | selection by alerts, drum operations |
| Emulator | `src/emulator/emulator.go` | the CPU, the channels, a program | `Reset` (boot), `Tick` |
| Assembler | `src/cpu/assembler.go` | labels, equates, macros, opcodes, data, ready | `Predefine`, `Clear`, `Parse` (with includes and macros), `Link` |
| Instruction words, programs | `src/cpu/opcode.go`, `program.go` | none | `MakeCode...`, `...Decode`, `Binary` |
| Command line, errors | `src/cmd`, `src/cpu/err.go`, ... | none of their own | - |

How they interact. The command line loads the depot from its files, runs a program or
changes a drum, and writes back what is dirty, unless it fails. To run a
program, the emulator calls `Cpu.Tick` in a loop, in one goroutine.
A tick fetches an instruction, which is a handful of CAPP operations on the
second set, and executes it: CAPP operations on the program's set, ALU and
stack, or a channel. `io fetch` ranges over an iterator that the channel
supplies, `io store` sends bit by bit. `io alert` is a call of the channel,
which answers through a Go channel of eight values, the Response queue;
`io await` takes an answer if there is one and otherwise leaves the ip alone,
so that it is executed again. After each instruction, `Tick` looks for a value
in the Monitor's Response queue: a trap. `Emulator.Reset` rewinds the channels,
puts a bootstrap into the registers and ticks until the ip is one of the CAPP.
The program comes from the assembler, which turns text into instruction words
with addresses, and `Binary` into the words that the Rom hands out when the
bootstrap fetches them: assembler and CPU meet in the layout of an instruction
word, and in what `FetchCode` makes of the cells of an address.

What is hard here is not concurrency between threads, there being one
goroutine. It is state that is shared by two uses or cached: the tag bits by two
sets, the Response queue of the Monitor by answers and traps, the list of cells
by every operation; iterators and loops that stop half way with what they have
used up already gone; limits of queues, stack and buffers; dirty marks that
decide what is written back, and a process that dies while it writes; an assembly
that is refused in the middle of macros and included files; and long
sequences of legal operations, resets among them, that nobody wrote down as a test.

What makes each part correct:

- *CAPP*: the cached list is always the set of cells selected and tagged;
  operations do what their documentation says; each flipped bit counts once.
- *Fetch*: it is one indivisible step to the program, returns the instruction
  whatever it did to the cells, balances its swaps, and ends.
- *List I/O*: bits and cells correspond one to one, in order, for any mask;
  stopping half way loses nothing; it ends.
- *Temporary*: a bounded first-in first-out queue.
- *Tape*: the output is the bits sent, in bytes, whatever else happens.
- *Adapters*: values hold each bit of the channel once and in order.
- *CPU*: booting always works; an await is retried; limits hold; an answer
  reaches the await that wants it.
- *Ring, Drum, Depot*: what was written is read back, also after a save and a
  load; what is unsaved is known to be.
  A program that goes by the answers to its alerts works on the ring it means, and
  reading leaves no traces in the files. A death leaves alone what the
  process has not touched; a failed write loses that file, and with the directory the drum's.
- *Assembler*: labels are the addresses of what follows them; what is assembled is
  what the CPU fetches; macros leave no names behind; nothing comes out of a
  text that was refused.

`PROJECT.json` lists the hazards one by one, with their lines.

## 2. Modules

| Module | What it is |
|---|---|
| `CappWord` | cells, words as sets of bits, matching and merging under a mask |
| `CappAbs` | what the CAPP promises: set bits, tags and words, and no cached list |
| `Capp` | the CAPP as coded, with `firstCell`, `next`, `count` and `flipped` |
| `MCCapp` | instance for TLC |
| `FetchAbs` | a fetch as one step |
| `Fetch` | `FetchCode` on `Capp`, one step per CAPP operation |
| `MCFetch`, `FetchProofs` | instance; proofs, of `Capp` as of `Fetch` |
| `BitQueue` | a bounded queue of bits |
| `Temp` | the circular buffer of a Temporary |
| `Tape` | the two directions of a Tape, a byte at a time to the files, a bit to the program |
| `Adapters` | `SendAs` and `ReceiveAs`, a step per bit, on `Temp` or on `Tape` |
| `MCAdapters`, `AdaptersProofs` | instance; proofs |
| `ListIOAbs` | `io fetch` and `io store` as one step each |
| `ListIO` | their loops, a step per bit, on `CappAbs` and a `BitQueue` or a Tape |
| `MCListIO`, `ListIOProofs` | instance; proofs |
| `Cpu` | `FetchCode` and `Execute` of every class of instruction, the traps of `Tick`, and boot, on `CappAbs` and `ListIOAbs` |
| `MCCpu`, `CpuProofs` | instance; proofs |
| `Ring` | a ring with its indexes, capacity and dirty mark, through one process after another |
| `MCRing`, `RingProofs` | instance; proofs |
| `Drum` | the directory of a drum, its rings and its files, with processes that die |
| `MCDrum`, `DrumProofs` | instance; proofs |
| `Depot` | which drum and ring are selected, what a program is told of it, and what becomes of the rings' files |
| `MCDepot`, `DepotProofs` | instance; proofs |
| `Opcode` | an instruction word: put together, and taken apart |
| `Assembler` | `Clear`, `Parse` a line at a time, `Link`, and the `Binary` of a program |
| `MCAssembler`, `AssemblerProofs` | instance; proofs |

So the layers are stacked by refinement:

    Capp --> CappAbs          Temp --> BitQueue
    Fetch (on Capp) --> FetchAbs (on CappAbs)
    ListIO (on CappAbs, BitQueue) --> ListIOAbs
    Cpu uses CappAbs and ListIOAbs, with a fetch as FetchAbs has it
    Adapters puts Temp and Tape together
    Assembler uses Opcode, which is also what the CPU decodes
    Depot has the content of each ring as a sequence of values, Ring has its bits,
        and Drum has it as one value, and the directory

A module's definitions have the names of the code's functions, operations and
fields. Three conventions run through all of them:

- A *word* is the set of its bits that are 1, so that match, mask, merge and
  complement are set operations. `Cpu` also needs numbers: there a word has W
  bits, and arithmetic is modulo 2^W.
- `set[FALSE]` is the program's set and `set[TRUE]` the CPU's.
- An error is a value, and its wording is left out. `Cpu` tells apart those
  that a caller tells apart.

### The CAPP (`Capp`)

One action per case of `Action`, and `Reset` and `Import`. `evaluateAll(s, t,
d)` is the function of that name, given what the caller's closure writes: it
writes the cells, counts the flips of the active set, of tags and of data, and
rebuilds the list. `LIST_NEXT`, `WRITE_LIST` and `WRITE_FIRST` do not call it:
the first unlinks a cell from the list in place, the others trust the list.
`SET_SWAP` rebuilds the list after it changes `SetsSwapped`.

### Fetch (`Fetch`)

`pc` goes through `Begin` (swap), `Find` (select by key), `Tag` (tag all),
`Collect` (once per immediate: read the first cell, drop it), `Return` (swap
back). `Operate` is any list operation an executed instruction may ask for;
it is what makes the program's list, and the code in the cells, arbitrary.

`FetchAbs` says what this amounts to: the cells that hold the key become
tagged if they are the opcode's and untagged if an immediate's, nothing else
changes, and the code is their low halves in cell order. The two sets share the
tag, so a program's list does change when it holds cells of the instruction:
section 5 below.

### List I/O (`ListIO`)

`Begin` is a call with a mask that is not zero. `TakeBit` is a round of
listInput's loop, `WriteFirst` and `ListNext` the two CAPP operations at the end
of a cell, and `ListFull` the return from within the loop, which comes after the
iterator has handed out a bit: a Temporary has stepped past this bit, a Tape has
not. `SendBit` is a round of listOutput's inner loop and returns on a full
channel, in the middle of a cell. `ListIOAbs` gives the cells, the list, the
channel and the error after the whole instruction.

### Temporary, Tape and adapters (`Temp`, `Tape`, `Adapters`)

`Temp` and `Tape` have the operations of one channel, `Adapters` has the loops of
`as.go` over either. `Receive` is one round of a Go iterator, in which a bit is
yielded to a consumer that goes on or stops there. A Temporary steps
past the bit before the `yield` and a Tape behind it, so that `Tape` has two forms of
a round, `Receive` and `Stop`, and `Temp` one. `Collect` adds a bit to a value,
`YieldValue` completes it and yields it to a caller that goes on or stops, `Exhausted`
is the end of the channel or an error of its reader. `SendNext` sends the next
bit and returns at the first error. `before`, `got` and `stopped` are history
variables: what the channel held, what has come out of it, and how that ended. The
error of a write of a Tape is dropped in the code: `lost` names those bytes.

### Instruction words and the assembler (`Opcode`, `Assembler`)

`MakeCode` is the five `MakeCode...` functions and `Decode` the five `...Decode`
methods, in arithmetic rather than with shifts. `ImmediateNeed` is how many
immediates the operands call for.

A line of text comes split into words, and words are atomic: `Number` says which
of them are numbers and which two halves those have, `Expr` what a `$(...)`
is for each value of the name in it. `Parse` puts a frame for a file on
`frames`, an `.include` another one, and a macro one with the equates to
put back; the top frame's next line is dealt with by the action of its kind.
A text line goes through `parseLine`'s stages in its order: expressions, `.equ`,
labels, macros, and `parseWords`, which is an operator: its result is the
codes, the data, the label to link, or that it is refused. A refused line
fails every Parse in progress at once (`Fail`), as the error returned through
each of them does, with the effects the line has had before it is refused: its
labels are defined, and a refused `if` has its code appended.

The data words are in a Go slice that `Clear` empties and keeps, and that a
linked program shares: `heap` has the arrays and `Data` the slice, so that
`AppendData` writes in place or moves to an array twice as long. `target`,
`written`, `reused`, `failed` and `fileEquate` are history variables.

### The CPU (`Cpu`)

A tick is two steps: `FetchCode` (by the mode of the ip) and `Execute`, which is
one action per class of instruction with its error returns. `Finish` is the
end of `Execute` and `Tick`: left-over immediates are an error *after* the
effects; else the ip is set and, if there was no error, one value of the
Monitor's Response queue is drained as a trap. `Reset` is `Emulator.Reset` up
to its loop and may come between any two ticks; `booting` holds until the ip is
one of the CAPP. `blocked` is a goroutine that waits for ever, in an alert that
answers into a full queue; `BlockedUnawaited` says which queues that can be. The bootstrap
(`Bootstrap`, in `Boot` as words) and the six registers are as in the code; the rest of the
instruction set is a constant (`Decode`). `next_ip` is the sum `ip + 1` as a carry: a bit stays
when one below it is not set, and flips otherwise. `waiting` is a history variable: the await that
found no answer. An `io await` onto the stack pushes without asking `Full`, so
that the stack can get deeper than its limit without any bound; `StackBound`
cuts it off one above. `OnlyAwaitOverflows` says that nothing else gets it
there. `Binary` turns a program into the words of the Rom.

### A ring (`Ring`)

`Data` is the bits of the slice and `room` the capacity Go has given it, which
is Go's choice whenever `append` or `ReadAll` allocates. `Rewind` is what a
reset of the CPU does and takes the room for the capacity. `Save` is what
`Drum.Save` does to a ring. A process opens the ring from its file, or makes it
new, and at its end `Exit` writes back what `Marshal` writes, if the ring is
dirty; `Die` is an end by `log.Fatal`, which writes nothing.

### A drum (`Drum`)

`dir` is the list of entries in ring 255, and `rings` what the others hold.
`Save` finds the entry of a name, or a slot and a ring for a new one; `Delete`
marks the entry and leaves its ring; `Write` is a program that rewrites any
ring. `Marshal` begins the writing of the dirty rings and `MarshalRing` writes
one, in any order, as Go's maps have it. `Die` may come anywhere in between, and
`DieInWrite` is a failed write to a file that `Create` has just emptied; the next
process unmarshals what is there. `start` and `touched` are history variables.
Once `Save` has overwritten the directory (finding 3), that is written back like any
other change, and nothing more happens to the drum: what a directory of arbitrary
bytes stands for is left out, and the properties say nothing of it.

### A depot (`Depot`)

`depot` is the state of the Go objects: the drum selected, the ring that each
drum has selected, the rings. `AlertDepot`, `AlertDrum` and `AlertRing` take a
request apart by its bits as `Depot.Alert`, `Drum.Alert` and `Ring.Alert` do. A
process is idle, runs a program (`Run` is the two alerts of `ucapp run` and the
rewind of the CPU's reset) or saves (`SaveRing`, `SaveFile`), then writes the dirty
rings back one by one, in any order, or dies. `stray` is a file whose name
looks like a ring's and is not, and that ends the loading of its drum there.
`asked` is what a program knows from its requests and their answers alone,
`wrote` the rings it has sent something to, by that knowledge, and `cut` those
it has rewound.

## 3. Runs

| Run | Module, config | Shows |
|---|---|---|
| `capp` | `MCCapp` | types (`count` never wraps), `ListCoherent`, `ChainIsActive`, `FlipsCounted`, and `Capp` implements `CappAbs` |
| `fetch` | `MCFetch` | swaps balance, a fetch is one step, a list that shares no cell with the instruction is kept, every fetch ends |
| `adapters` | `MCAdapters` | the circular buffer is a queue and no index leaves it; a Tape's output is what was sent, lost bytes apart; values hold each bit once and in order, and only a Tape gives one again, to a caller that stopped |
| `listio` | `MCListIO` | each loop is one step of `ListIOAbs` and ends; on a Tape, a fetch cut short continues where it stopped |
| `listio_lost` | `MCListIOLost.cfg` | *violation*: on a Temporary it does not |
| `cpu` | `MCCpu` | booting loads the program, ends, and never fails; an await is retried; the stack's limit holds but for awaits; only an alert whose answers nobody awaits hangs |
| `ring` | `MCRing` | no index leaves the bytes there are; a clean ring differs from its file by ones at its end, if at all |
| `ring_dirty` | `MCRingDirty.cfg` | *violation*: a ring with changes is clean |
| `drum` | `MCDrum` | files have rings of their own; an operation on a file changes no other; an exit keeps all of them, and a death those it did not touch, but for one in a failed write of the directory, which loses all |
| `depot` | `MCDepot` | a program's answers tell it which ring it works on; only rings that were written or saved, or whose write index was rewound, have their files changed; none is cut unless asked to, not loaded, or in a failed write of that file; and what is dirty reaches the next process |
| `assembler` | `MCAssembler` | addresses are contiguous, jumps land on their labels, the CPU fetches what was assembled, macros are hygienic, a program keeps its data until the assembler parses more, a refused text links to nothing |
| `drum_full` | `MCDrumFull.cfg` | *violation*: a save with no ring free overwrites the directory |

Bounds, and why they are enough.

- *capp*: three cells of one bit. A list has a first, a middle and a last cell, so that
  every shape of unlinking and relinking occurs, and words differ or agree with
  a match or not. Matches and masks are all words. The theorems below need no bound.
- *fetch*: three cells, so an opcode with two immediates, or cells of
  data in between; words with an address bit and a value bit; one key, which
  cells come to hold and lose as the program rewrites them. A fetch that finds no cell, one, two or three occurs, on each list of the
  program.
- *adapters*: bytes of two bits, values of one and of two bytes, and single bits in
  between, so that a value begins anywhere in a byte; a Temporary of five bits, odd so that
  it fills up in the middle of a value, around which the indexes wrap without end;
  tapes of no byte to three. `MaxSent` stops the output at two bytes and a half: it is
  state that only grows, and a third byte is written as the second.
- *listio*: two cells of two bits, and a mask of both and one of the upper bit
  alone, so that bits are skipped; a Temporary of three bits fills up in the middle
  of a cell and runs out in the middle of a word, and tapes hold from no bits to
  more than the cells do. Which of the two channels it is is chosen at the start.
- *cpu*: words of ten bits, five of them for an opcode, whose 32 values are a
  table of instructions (`MCIsa`): the bootstrap, one of each class, operation
  and way to fail. The programs are all of three instructions out of ten that
  alert, await, jump (to the start, to an ip of the stack, out of the program)
  and push, and some twenty directed ones for the other instructions. A stack of two and
  queues of two fill up within a program. Reset may come at any tick, so every
  run boots over whatever any program has left behind.
- *ring*: bytes of two bits, a default capacity of one byte, and files of one
  and of two bytes, so that there is a first, a full and a half byte, an append
  within the room and beyond it, and a file longer than the default capacity.
  `MaxBits` stops the ring at two bytes. Every sequence of sends, receives, rewinds,
  saves, exits and deaths is in it.
- *drum*: two rings, so that the drum is empty, half full and full; three names,
  so that there is one to save when it is full and one that takes over a deleted
  entry; two contents, to tell a change. Names and contents are symmetric: no
  definition orders them, and nothing but safety is checked.
- *depot*: two drums of two rings, so that there is another drum and another ring to
  touch by mistake, and a drum that is missing. The requests are one of each kind and
  some with bits that mean nothing, the numbers for `run` and `save` also those with bit 23
  and bit 24. Two values per ring at most (`MaxLen`), so that appending, writing over
  and cutting differ, one of the two values being what new bytes are filled with.
  `MaxSteps` is four operations in all, over any number of processes: enough for one
  to select, write and select again, and for one to leave to the next what it changes.
- *assembler*: a text with every form of statement, labels, equates, macros that call macros
  and an include; each statement alone, and some forty that are refused, one for each way to be;
  all pairs of 16 parts and all triples of the 6 parts with macros, so that definitions
  come before and after uses, twice, or not at all, and in the middle of each other.
  `MaxParses` is two calls of Parse after a Clear; Clear, Link and Predefine come in
  any number and order.

Deadlock is checked where the part can always go on; the CPU stops on an error
when nobody resets it, and for ever when blocked, so its configs turn it off.

Fairness. `FetchCode`, `listInput` and `listOutput` are sequential code without
a wait: once begun, they go on (`WF` of their steps). The emulator ticks in a
loop until an error: `WF` of `FetchCode \/ Execute`. Nothing is assumed about
when a program is reset or what it executes; `BootEnds` supposes that resets do
not go on for ever, each of which starts the boot again.

## 4. Proofs

`FetchProofs`, about `Capp`, for any finite number of cells, any word width and any images:

- `FieldsHaveTypes`: `TypeOK`. `ListInvariant`: `Spec => [](TypeOK /\ ListCoherent)`. The inductive invariant
  `IInv` is their conjunction. It is inductive because `ListCoherent` speaks of
  `next` on active cells only, so that what `LIST_NEXT` leaves behind in a cell
  it drops does not matter, and it needs the types to know that the cells are a finite set
  and that taking one from a non-empty one takes one from its cardinality: `count`
  does not wrap. The operations that rebuild the list share one lemma
  (`EvaluateAllIInv`), the writes another; `LIST_NEXT` has its own, about the successor
  in a set of numbers without its least.
- `WalkVisitsActive`: `ChainIsActive`, from `ListCoherent`: the active cells
  hold firstCell and are closed under `next`, and each set that is contains them all.
- `EveryFlipCounts`: `FlipsCounted`. A sum over cells of the bits each has flipped is the number of
  pairs of a cell and a bit (`DataFlips`), and each operation counts the pairs of one
  of the sets, of the tags and of the data that it writes; what remains to be shown is that it
  changes no other. That is also true of `LIST_NEXT` and `SET_SWAP`, which count without looking.
- `CappImplementsCappAbs`: `Spec => Abs!Spec`. The abstract list is
  computed from the bits; the writes and `LIST_NEXT` act on the cached one, so that the
  invariant is what makes the step match.

`FetchProofs`, about `Fetch`, for any number of cells, any masks, keys and operands:

- `FetchSwapsBalance`: `SwapBalanced`, with `FetchInv`, which adds to `IInv`
  what each value of `pc` means.
- `FetchIsAtomic`: `FetchSpec => Atomic!Spec`. `CollectInv` is what holds
  between the rounds of the loop: the cells with the key, of which those before
  firstCell are untagged and are in `imms` in order. From it and `count = 1` follows
  the whole abstract step. The data do not change, so the key's cells
  are the same throughout.
- `DisjointListIsKept`: `DisjointListSurvives`, from the same.

`ListIOProofs`, for any number of cells, any masks, a Temporary of any capacity and a Tape of any
length:

- `ListIOIsAtomic`: `Spec => Atomic!Spec`. The inductive invariant says where a loop is: it has dealt
  with the lower cells of the list it began with and the lower bits of the mask (`Progress`;
  a cell is done when it has left the list), and has taken from, or sent to, the
  channel as many bits as that makes (`Fetching`, `Storing`). That the next cell and the next bit
  have the numbers that `ListIOAbs` gives them is `NextRank`; that a bit sent has one
  place only, `PlaceIsOne`; and when a loop ends, the whole words in the channel
  (`EnoughWords`, `WholeWords`), or the cells of which all bits fit (`SentCells`), are those it
  has dealt with.
- `TapeAlwaysContinues`: `TapeContinues`, from the same.

`CpuProofs`, for any words, cells, instruction sets and programs:

- `NothingElseOverflows`: `OnlyAwaitOverflows`. `getValue` pushes nothing (`ValuePops`), whatever it
  is asked for, and an ALU operation tests the limit after it has popped its value and
  before it pushes (`AluBelow`).
- `BootAlwaysLoads`: `BootLoads`. The invariant is `CappTypes /\ BootInv`: a boot is at one of the
  six registers, k, and `BootState(k)` says what the CAPP holds there (`BootCells`): all ones,
  then the Rom in the cells that have left the list, then these in the list. It holds after a Reset
  of anything (`ResetBoots`). Each Tick goes on to k + 1: the ip plus one is the next
  register's (`NextRegister`), the fetch returns its word (`BootFetch`), and the action that
  executes it is that of its class (`BootClass`), which does to the cells what `CappAbs` says
  (`BootCapp`), or puts the Rom there (`BootFetches`). That a fetch of all ones puts the Rom's
  words where they are in the program, whole, is `RomFills`: a bit's position in
  `RomBits` is its cell times W plus its number, of which quotient and remainder are taken
  again (`PlaceIs`, `RomBitIs`). That the Rom has words at all is `BinaryIs`, about `FlattenSeq`,
  by the least length of a program for which it would fail. Everything else that holds is
  unchanged by what is left behind: `set[TRUE]`, `Match`, `Mask`, `cond` and the Response queues
  do not occur in it.
- `OnlyUnawaitedBlock`: `BlockedUnawaited`, with `QueueInv`: no queue has more answers than it
  takes, and the Monitor's has one at most, and that only after a Tick that failed, until the first
  Tick of the boot that follows. So an alert of the Monitor finds its queue empty. To know what
  that first Tick is, the invariant of the boot is needed.
- `BootAlwaysClean`: `Spec /\ []AlertsTakeAll => []BootClean`. `CleanInv` adds that the Monitor's
  queue is empty between Ticks. The hypothesis is about the programs: an alert of the Monitor that
  is executed has the immediates it needs and no more. Without it the property does not
  hold (section 5); the programs of the run have it, and alert the Monitor.
- `AwaitAlwaysRetried`: `AwaitRetried`. The invariant, `FetchedAtIp`, is that outside the stack
  mode the code that Execute works on, and the await that waits, are the instruction at the ip
  (`AtIp`). It speaks of the ip, the registers and the words of the cells only, so that
  the tags which the fetch moves do not matter to the next one.

`RingProofs`, for bytes of any width, any files, and any room that Go gives a slice:

- `RingIndexesFit`: `IndexesFit`, with `TypeInv`, which adds that data and file
  are whole bytes. Without it, `Marshal`, which rounds the write index up to a byte,
  could reach beyond the data (`RoundUpFits`).
- `CleanRingLosesOnlyOnes`: `CleanLosesOnlyOnes`, with `CleanInv`: a clean ring also has
  at least as many bits as its file. That makes it inductive: a byte that a Send appends
  without marking the ring lies behind the whole file.

`AssemblerProofs`, for any files, numbers of 32 bits, expressions, predefined names, and any
number of Clears, Parses and Links:

- `AddressesAlwaysContinue`: `AddressesContinue`; `JumpsAlwaysLand`: `JumpsLand`;
  `NeverHalfProgram`: `NoHalfProgram`. The inductive invariant is
  `Shape /\ AddressesContinue /\ LabelsAddress /\ JumpsLand /\ FailureKnown`.
  `LabelsAddress` is what makes jumps land: a label is the address of the
  statement behind it, also while that is the end of the program, and remains so
  when the statement is appended (`AppendKeeps`). That a statement that waits for a
  label has a code to put it into is `StatementCodes`, over every
  statement of `parseWords`; that filling in addresses moves none is
  `LinkedShape`. `FailureKnown`, that an assembler with a failed Parse is not
  ready, carries the last theorem.
- `DataStaysAsWritten`: `DataAsWritten`, from `DataInv`: the assembler's own slice lies
  within its array and holds the words parsed since the last Clear. The step that
  matters is `AppendDataKeeps`, with its two ways of appending.
- `MacrosAreHygienic`: `MacroHygiene`, from `HygieneInv`, about the stack of Parses in
  progress: files include files, macros call macros and are called in files, and the
  first macro on it has saved what the files have equated (`StackOK`). That needs the
  lines that macros collect to be text (`MacroOK`), so that no file is
  ever parsed on top of a macro. Adding a frame, taking one off and going to its next line
  are `PushOK`, `PopOK` and `TopAt`; a refused line goes back to the first
  macro (`FailHygiene`).

- `DecodeEncoded`: what `Decode` takes out of a word is what `MakeCode` put in, for every
  instruction (there are more than a million and a half; no run enumerates them). The
  arithmetic is split by the byte: the low one is a and b, the high one condition,
  class and operation, and the forms of the five bits of the last two are
  pairwise different.
- `AssembledIsFetched`: `ProgramFetches`. The invariant is `CodesInv`: every code, parsed or
  linked, is the word of an instruction with as many immediates as that word calls for
  (`CodeSound`), and the last one of a statement that waits for a label has two.
  `StatementSound` shows it of every statement of `parseWords`, and `LinkedSound` that an address
  put in place of two immediates keeps it. The rest is about `Binary`, a sequence of sequences of
  sequences joined: `JoinedParts` says that every part lies in the whole in one piece and
  nothing else does, and as addresses grow from statement to statement (`AddressesGrow`), no two
  codes of a program have one address (`ProgramCells`), so that the cells which `FetchCode` finds
  under it are those of one code. What is said of any number of joined parts is shown by the
  least number for which it would not hold (`LeastNat`).
- `AssemblerTypeOK`: `TypeOK`, from all of these invariants together.

`DepotProofs`, for any drums, rings, requests, contents, files and stray names:

- `DepotTypeOK`: `TypeOK`; `OnlyAskedRingChanges`: `OnlyAskedRing`;
  `FilesChangeOnlyWhenWritten`: `FilesOnlyWhenWritten`. The inductive invariant says that in an
  idle or running process the depot has selected what the program was told
  (`Agrees`; a drum without a ring counts as ring 0, which the first Send or Receive
  selects), that dirty rings are among those it knows it has written, and that what
  waits to be written is dirty. The lemmas go up with the code: a ring (`SentRing`,
  `RewoundRing`, `OverRing`), a depot with a ring changed (`PutRing`,
  `PutStill`, `PutWritten`), an alert and its answer (`AlertAnswers`), a step.
- `NothingIsCutUnasked`: `NothingCutUnasked`, with `Kept`: what a file holds is what its
  ring begins with, and ends before its write index, in memory as on disk. Each operation makes
  rings grow (`AllGrow`), but for a rewind of the write index and a save (`AlertGrows`). It is about every
  step, the deaths included: a failed write (`DieInWrite`) empties its own file, which
  the property excepts by name, and leaves all others as they are.
- `ChangesAlwaysReachNext`: `ChangesReachNext`, with `Written`: while `Marshal` is at work, each
  dirty ring is in its file or waits.

`DrumProofs`, for any rings, names and contents:

- `FilesHaveOwnRings`: `NoSharedRing`; `OneFileChanges`: `OneFileAtATime`;
  `FilesAreKept`: `ExitKeepsFiles`; `UntouchedFilesSurvive`: `UntouchedSurvive`, which also says what
  it excepts: a failed write of the directory, after which there are no files. The inductive
  invariant adds to the types and to `NoSharedRing`, in memory and on disk, that what is
  not dirty, or has been written, is on disk as in memory, and that of a file which
  has not been touched neither the ring nor the place in the directory is dirty: its
  entry is in the same ring in memory and on disk. That last part is why a death between the
  writing of the directory and that of a ring hurts no other file. A directory that
  has been overwritten (finding 3) is left out, as in the properties.

`AdaptersProofs`, for a Temporary of any capacity and a Tape of any length, bytes and values of
any width, under any use by the adapters:

- `TemporaryIndexesFit`: `IndexesFit`; `TemporaryIsQueue`: `RefinesBitQueue`. The queue is
  the bits from the read index on, around the end of the data; a step of the adapters is a
  send, a receive or a rewind of it (`SendStep`, `ReceiveStep`, `RewindStep`), or
  leaves it alone, and the indexes' agreement with the size is what tells a full one from an empty
  one.
- `TapeOutputAligned`: `OutputAligned`, with `OutputInv`, which adds that only bytes which have
  been completed are lost. The bits of a byte are counted by quotient and remainder
  (`BytesStay`: a bit more changes no byte before it), and where a byte is in the output, by the
  number of those before it that were not lost.
- `ReceivedInOrder`: `BytesInOrder`, with `LoopInv`: it relates what the channel held to
  what has been yielded, what has been collected and what is left in every round of the loop. A bit
  given adds one to the one side and takes the first from the other (`GivenStep`); a value
  completed or yielded moves between the two parts of the same side.

The constants' assumptions are the ones their modules name; they are evaluated by
TLC in the runs. Those of `Cpu` say that a word is of 2 * H bits and has room for the number of a
register (`WidthAssumption`; the code has H = 16), that the words that Reset installs decode to
the six instructions of the bootstrap (`BootAssumption`), that programs consist of words
(`ProgramsAssumption`), that a Response queue takes at least one answer
(`ResponsesAssumption`), and that `NoCode` is no instruction.

Only model-checked: liveness (`FetchEnds`, `LoopEnds`, `BootEnds`), which is out of TLAPS's
reach. What `Num` and `Plus` compute is a fold over the bits of a word, of which the provers cannot
say even what it is for one bit: no theorem is about arithmetic of the ALU, and none needs it.

## 5. Findings

With a run that shows them:

1. `src/cpu/ASSEMBLY.md:320-322` has a fetch that runs out of cells continue where
   it left off. A bit is lost on a Temporary, whose iterator steps before it
   yields (`listio_lost`).
2. `src/sio/ring.go:161` has `Dirty` tell unflushed changes. Bits that a byte has
   already, and ones appended at the end, change what `Marshal` would write and leave
   the ring clean: a ring rewound and written again with the start of what it
   holds keeps its old file (`ring_dirty`).
3. `src/sio/drum.go:302` refuses a save when there is no free ring. The test before it
   is for ring 0, and a search without success leaves 255, the directory,
   which the content then overwrites (`drum_full`).

Met while modelling, without a run of their own. The models do what the code does:

- `src/capp/README.md:44-45` has the dual sets preserve list state between
  execution and decode. They share the tag bits: a list that holds cells of the
  fetched instruction changes. `DisjointListSurvives` is about the others.
- `src/sio/README.md:158-170` has a program await the answer to an alert of the
  Monitor. The tick of the alert drains the answer as a trap.
- `src/cpu/stack.go:3` gives a maximum stack depth, and `io await ch stack`
  ignores it; `OnlyAwaitOverflows` says it is the only one.
- `src/cpu/cpu.go:158` has `Reset` reset all IO channels. It rewinds them, and leaves the answers
  in their Response queues: an `io await` of the next program gets one that the program before
  it has asked for. `BootLoads` and `BootClean` hold all the same.
- `src/cpu/cpu.go:682` has only CAPP ticks count for power, and the condition
  below it counts the others.
- An `io alert monitor` with one immediate too many is refused after its answer has
  been queued and before it can be drained, and the next boot runs into it.
  `BootClean` holds of programs for which `AlertsTakeAll` does.
- A Tape steps past a bit after the `yield`, a Temporary and a Ring before. A
  caller that stops at a whole value gets its last bit again from a Tape (`BytesInOrder`).
- A Tape drops the error of a write, and never writes the bits of a last byte
  that is not full.
- `src/cpu/assembler.go:907-908` overwrites the error for an unknown coprocessor:
  `coproc cp9 ...` is assembled as `cp0`.
- `vcall stack` (`src/cpu/ASSEMBLY.md:379-381`) goes to the address that the call itself has just
  pushed, not to the one that was on the stack.
- `src/cpu/assembler.go:367` keeps the array of the data words, which a linked program
  refers to: what is parsed after a Clear overwrites the program's data.
  `DataAsWritten` holds until then.
- `@` in a macro is replaced by the macro and the line, not by the call: a macro with
  such a label that is called twice is refused for a label defined twice.
- `src/cpu/ASSEMBLY.md` has `?` and `!` for conditions, and a mask for `alu`; the code has `+`
  and `-`, and refuses the mask.
- `src/sio/README.md:41` calls the write pointer of a ring persistent, and the ring's length.
  A rewind of the write index (`src/sio/ring.go:153-155`) does not mark the ring: when
  nothing else is sent behind it, the file stays as it was, and so does the length that the
  next process finds; a reset of the CPU puts the index back to the end of the bytes
  within the same process. `FilesOnlyWhenWritten` leaves such rings out, so that it holds of
  either reading; that a Send may leave a ring clean is finding 2.
- `Create` empties a file before it is written (`src/sio/drum.go:103-115`): a write that
  fails loses the whole file, also of a ring that was only appended to, and, for ring
  255, all files of the drum. `NothingCutUnasked` and `UntouchedSurvive` name these steps.
- The patterns for the names of a depot's files are not anchored, and a name that
  matches without being one ends the loading of its drum without an error
  (`src/sio/drum.go:66`): its rings from there on look empty. `NothingCutUnasked` leaves these out.
- `src/cmd/ucapp/run.go:35-37` reports a ring that does not exist; selecting a ring
  makes it, so that this error does not occur. `run --drum 0x1000000` runs drum 0, and a
  drum with bit 23 set cannot be selected.
- `build` cuts a program of more than 64KB off without an error.

## 6. What is not modelled

- `Capp.Randomize`, which only tests call, and `Cell.Changed`, which only the trace reads.
- The sum in `Power`: it is `BitsFlipped`, which `Capp` has, and a count of the
  bits an ALU result differs in; and the count of ticks. Nothing in the machine reads them.
- `SetChannel` to nil and `Close`, which no caller uses while a program runs,
  and coprocessors: `NewCpu` installs ones that refuse.
- Text below the level of words: comments, blanks, how a number is written, Starlark. The
  panics there (`.macro` without a name, a condition without a statement) are outside the inputs.
- Files that include, and macros that call, themselves: the code overflows Go's
  stack. Programs of more than 0x4000 codes, whose addresses run into the bits that tell
  the arena.
- A program that writes to the ring of the directory, and what a directory of
  arbitrary bytes stands for; directories within a depot, and ones that vanish while a
  process runs.
- The options and messages of the command line, errors and their translation: no
  state that the properties tell apart. Line numbers and debugging in the emulator. The
  operating system in `src/os` is a program for the machine.

## 7. Plan

In this order:

1. The three codes of a `call` (`Assembler`) executed by `Cpu`, with `return`, at any depth of
   the stack, its limit included.
2. A directory that a program reads and writes, in `Depot`.
3. For `Cpu`: answers still owed when an emulator is reset; the wrap of the 14-bit address, with a program long enough to meet it.
