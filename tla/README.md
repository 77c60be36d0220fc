# A verification development of the Tomasulo processor for DLX

The program (`src/src`) simulates a processor that executes DLX programs out of
order, after Tomasulo: instructions are issued in program order to the
reservation stations of five functional units, wait there for their operands,
execute when these have arrived, and hand their result to the waiting stations
and to the register file over a common data bus. This directory holds TLA+
specifications of that program, TLC configurations that check them on small
instances, and proofs of its central invariants for every instance.

The question behind all of it: **does the overlap of instructions ever show?** A
program should behave as if its instructions ran one after the other. The test
programs (`src/Inputs`) sample this with 28 hand written programs; here every
small program is run, four of the tests on the full machine, and it is proved that the
answer is no for every program and every machine, but for three things: a register overwritten
by an older instruction (a finding, section 5), text that is printed while a store to it is in
flight, and an instruction that is fetched before an earlier store to it (section 2.2). A second question is asked of everything around the
processor: does what is in the file, the memory and the lists of the units arrive
there whole?

## 1. The system

### 1.1 Components

| Component | State it keeps | Operations | Module |
|---|---|---|---|
| `Tomasulo` (`Tomasulo.cpp`) | `pc`, `stallIssue`, `halted`, `clockCounter` | `run`, and in each cycle `advanceInstructions`, `issue`, `execute`, `write` | `Tomasulo` |
| `FunctionalUnit` | four lists of stations: idle, issued, executing, writing | `issue`, `execute`, `write`, `advanceInstructions` in order or out of order | `Units`, `FunctionalUnit` (lists as sets), `UnitLists` (lists as lists) |
| `ReservationStation` | the instruction, its state, operands, where they come from, the cycles that remain, the result | `setInstruction`, `clearInstruction`, `setIsExecuting`, `execute`, `setIsWriting`, `write`, `notifyDataBus`, `notifyWriteAccepted` | `ReservationStation` |
| `CommonDataBus` | the writer of this cycle, the listeners | `write` (arbitrates), `addListener`, `commit` | `ReservationStation` |
| `RenameRegisterFile` | register -> station that will write it | `rename`, `clearRename`, `getRenaming`, `getReverseRename` | `RenameRegisterFile` |
| `RegisterFile` | the registers | `read`, `write` | `RegisterFile` |
| `Memory`, `types.h` | bytes | `readByte`, `readUWord`, `readString`, `write`, `writeByte`, `writeUWord`, `clear` | `Types`, `Memory`; `ByteMemory` (alone, any calls) |
| `instructions/*Instruction` | the fields of an instruction, its operands, a branch target | `getDest`, `getArg1`, `getArg2`, `execute`, `getWriteAction` | `Instructions` |
| `InstructionFactory`, `instruction_types` | the instruction made last | `decode` | `Decoder` |
| `main.cpp` | the file, the line read last | `main` with its exits, `parseArgs`, `loadFromFile`, the handler of exceptions | `Loader`; `HexFiles` (what it should load) |

Not modelled: logging (`log.h`) and the dump functions, which observe and change
nothing, and the options that only choose what is logged; `Memory::read` of a
buffer, which nothing calls; `Registers.h` (unused); `run.pl`, which compares text,
and the build files; TCLAP and the other third party code in `deps`.

### 1.2 How they interact

`main` loads a file line by line into a `Memory`, builds a `Tomasulo` on it and calls
`run`; an exception ends either, and `main` then returns 0 all the same.
One thread runs the loop of `Tomasulo::run`. A cycle is

    ++clockCounter
    advanceInstructions   every unit: retire, move to writing, move to executing
    issue                 at most one instruction: fetch at pc, decode, first idle station
    execute               every unit: every executing station
    write                 every unit: every writing station; then commit of the bus

Components call each other against that order. A station that writes calls the
bus; the bus, when it commits, calls the writer back (`notifyWriteAccepted`, in
which a JAL or JALR sets the processor's `pc` and `stallIssue`, to which stations
hold references), then every listening station (`notifyDataBus`), whose return
value decides whether it stays a listener, and last the register file. A station
renames its destination at issue and drops the renaming when its unit retires it,
in a later cycle than the commit.

### 1.3 What is hard

There are no threads. What makes the program hard is that five units and a dozen
stations act on shared state in one cycle, in an order nothing fixes:

* **Order within a cycle.** The units are the values of a
  `std::unordered_map`; in which order their stations execute, and offer results
  to the bus, depends on the library. The specification takes every order.
* **Order between cycles.** Latencies are 1, 2 and 4 cycles, units have 1 to 3
  execution units, and the bus takes one result per cycle: results arrive in an
  order only loosely tied to that of issue.
* **Stale state.** A station looks its operands up once, at issue. Whether what
  it found (a value, or the name of a producer) is still right when it is used
  depends on when renamings are replaced and cleared.
* **Several things that must stay in step**: a station's own state and the list
  its unit has it in; the listeners of the bus and the stations that miss an
  operand; `stallIssue` and the branch in flight.
* **Control.** Issue stops at a branch until it has written. Two places in the
  code let it go on.
* **Aborts.** An exception, or the signal of an integer division, leaves the loop
  in the middle of a phase, with older instructions in flight.
* **Lists.** A station goes round four lists by pushes, pops and removals with side
  effects. Their order is that of issue, which the in-order units rely on and
  nothing checks.
* **Loading.** A `.hex` file may hold anything: comments full of digits, records that
  overlap or do not fit, lines without address or data. A load that stops half-way
  must not start the processor.
* **Boundaries.** Full units, exhausted execution units, unsigned counters that
  would wrap, bounds checks on bytes, words across word boundaries.

`PROJECT.json` lists each of these hazards at its line with the properties that
are about it.

### 1.4 What makes each component correct

| Component | Properties |
|---|---|
| stations and bus | `ListenersWait`, `ProducerInFlight` (no wakeup is lost), `OperandsStable` (none comes twice), `BusGrantsOldest` |
| renaming | `RenamedToYoungest` |
| units | `ListsAgree`, `UnitInOrder`, `UnitsNotOverbooked`, `ExecutedOnce` |
| issue and branches | `StalledByBranch`, `PCStable`, `FetchesInSequence` |
| the whole | `OperandsSequential`, `PrintsInSequence`, `SequentialResult`, `AbortsOnFault`, `DrainedWhenDone`; `EveryIssueRetires`, `StallEnds`, `Terminates` |
| lists of the units | `EveryStationKept`, `SortedByIssue`, `ProcessorSpec`, `OrderUnobservable` |
| memory | `StoredWordReads`, `BigEndian`, `WrittenTextReads`, `StringsEnd` |
| loader | `RecordsLoaded`, `StopsAtBadRecord`, `LoadEnds` |
| test programs | `PrintsExpected` |
| decoder | `DecodesAssembly`, `RegistersExist`, `UnitsReadOwnRegisters` |

## 2. The modules

The processor is built in layers, each module extending the one before:

    Lists                   std::list as a sequence
      ListTheorems            lemmas about sequences
    Types                   bytes and words
      Memory
        ByteMemory            any sequence of calls of Memory
          ByteMemoryProofs      theorems, with the lemmas of MemoryTheorems
        Loader                main and loadFromFile
          HexFiles              documents and what they should load
            LoaderProofs          theorems, with MemoryTheorems and ListTheorems
      Instructions          what an instruction is, reads, writes and computes
        RegisterFile
          RenameRegisterFile
            ReservationStation   with the common data bus (and Memory)
              Units                how the units are set up
                FunctionalUnit       lists as sets
                  Tomasulo             the loop: Init, one action per step, Next, properties
                    TomasuloProofs       theorems, with the lemmas of MemoryTheorems
                    BusOrder             with the clocks at which execution began
                    Lockstep             beside the sequential machine DLX
                      LockstepProofs       theorems, with TomasuloProofs
                UnitLists            lists as lists (and Lists)
                  ListTomasulo         the loop over them; implements Tomasulo
                    ListProofs           theorems, with ListTheorems
                    UnitOrder            two of them with different orders of the units
                    TestPrograms         instance with the machine and the programs of the tests
        DLX                   one instruction after the other
    Decoder                 instruction words; instance of Instructions
      Assembler               what assembly instructions they stand for
        DecoderProofs           theorems

### 2.1 Correspondence with the code

Names are those of the source. The state of the objects becomes functions over
the set `Stations`, so that `state[s]` is the member `state` of station `s`, and
`list[s]` tells in which list of its unit `s` is.

| Action of `Tomasulo` | Code |
|---|---|
| `Advance` | the head of the loop of `run`, `++clockCounter`, `advanceInstructions` of every unit |
| `IssueStalled`, `IssueFault`, `IssueHalt`, `IssueFull`, `Issue(s)` | the five ways through `Tomasulo::issue`; `Issue` includes `FunctionalUnit::issue`, `setInstruction` and the renaming |
| `Execute(s)`, `ExecuteAbort(s)` | one call of `ReservationStation::execute`, that returns or does not |
| `ToWrite` | the end of `Tomasulo::execute` |
| `Write(s)`, `WriteAbort(s)` | one call of `ReservationStation::write` |
| `EndCycle` | `CommonDataBus::commit`, with all its callbacks |
| `Finish`, `Stopped` | the end of `run`; afterwards nothing happens |

`advanceInstructions` of the units touches only each unit's own stations and
renamings of distinct registers, so the units advance in one step. `execute` and
`write` touch shared state (text, memory, the bus, `pc`), so each call is a step
of its own and `todo`, the stations still to be called, lets them come in any order.

`ListTomasulo` has the same actions with an `L` in front, on four sequences per unit.
There `calls` is the sequence of the stations still to be called, units in the order
the map has (`unitOrder`, any of `UnitOrders`, fixed for a run), stations in the order
of their list; the front of the idle list is issued to. Its property `ProcessorSpec`
is `Tomasulo!Spec` under the mapping `list[s]` = the list that holds `s`, `todo` = the
elements of `calls`: each of its steps is a step of `Tomasulo`, so all that is checked
and proved of `Tomasulo` holds of it. `UnitOrder` takes two copies of `ListTomasulo` and
lets them move in turns of one cycle.

| Action of `Loader` | Code |
|---|---|
| `BadArguments`, `NoLogFile` | the two exits of `main` before the file is touched |
| `ShortName`, `WrongName`, `CannotOpen`, `Open` | the name and the opening, at the head of `loadFromFile` |
| `ReadLine`, `ReadFails` | `getline` and the removal of the comment; `ReadFails` when the stream is bad |
| `SkipLine`, `KillLine`, `StoreLine`, `StoreThrows` | the four ways through the rest of the loop: no colon; no digit after it, where `substr` throws what `main` does not catch; `mem.write`, which returns or throws |
| `Run` | the return of `loadFromFile` and the start of the processor |

`Loader` takes a line apart as the streams do: `addresses` is what `>> std::hex` may
leave in `addr` (any word if only blanks stand before the colon: the variable is not
initialized), `buffer` reads two characters at a time. Characters are digits of a base
`D` with two digits to a byte, blanks, colons, hashes, and others. `HexFiles` says the
opposite direction: a document is a sequence of records and other lines,
`lineText` writes a record out, and `Loaded` is the memory its records describe. What an
entry may be is `IsEntry`: the text after the bytes of a record has digits, if any, only behind a
hash, and a line without a record has no colon in front of one. That is the format the comment in
`loadFromFile` gives, and every file under `Inputs` has it.

Where the specification abstracts:

* **Lists are sets** in `FunctionalUnit` and `Tomasulo`, `Older` compares issue clocks,
  and an idle station is chosen freely. `ListTomasulo` does neither, and the run
  `lists` and the theorem `ListsImplementSets` show that it implements them.
* **Bytes have `ByteMod` values** and a word has four of them; signed arithmetic wraps, as
  it does on the machine the program is built for. `MULT`, `ADD`, `SUB`, `ADDI` and the
  moves are computed; bitwise and floating point arithmetic is the uninterpreted
  constant `Alu` (`TestPrograms` defines it). `size_t` has 64 bits, so that no sum in a
  bounds check wraps. A program may load, store, jump and print at any byte address.
* **Decoding** is the constant `RawDecode` in the processor; `Decoder` defines it
  for instruction words and checks that its results suit `Instructions`.
* **`argReady`** is not a variable: the code sets it together with `argSource`.
* **`clearInstruction`** also resets fields that the code leaves and
  `setInstruction` overwrites before anything reads them. This keeps idle stations
  equal.
* **Two kinds of undefined behaviour** are choices: `TRAP 3` of an address outside
  the memory may stop the program or print anything; a line of a file without an
  address is stored anywhere. The order of the units is unspecified, see above.

`DLX` is the meaning of a program, written without looking at the processor's
state: one instruction completes before the next. It is a specification, not a
translation, as is `Assembler`, the encoding read off the `.hex` files.

### 2.2 Lockstep

`Lockstep` runs both: when the processor takes the instruction at its `pc` (or
fails to), DLX executes its next one; all other steps of the processor leave DLX
alone. History variables record what the program has met: a register overwritten
by an older instruction (`overwritten`), text read while a store is in flight
(`textRace`), a word fetched before an earlier store to it (`codeRace`). The
properties are stated up to these three, which the program does not prevent; the
first is a finding (section 5). Others keep, of each instruction in flight, what
sequential execution had when it came to it: its operands (`operand`), the memory
(`image`) and what was printed so far (`printed`); and of each register when the
instruction last written to it was issued (`lastWriter`). They are what the invariant
`LInv` compares the stations with. No history variable is read by a step.

`BusOrder` adds one history variable to `Tomasulo`, `began`, the clock at which each station
last moved to the executing list. It serves to compare the arbitration of the bus, which goes by
the clock of issue, with what the header says of it (section 5).

## 3. The runs

The runs of the processor but `tests` use the machine of `MCMachine`: two stations for each
unit but one for branches, the execution units and latencies of `Tomasulo.cpp`
(integer 1 cycle and 3 units, floating point 4 and 2, memory 2 and 1, trap and
branch 1 and 1), registers R0, R1, R31 and F1, bytes 0..3 and so words 0..255, 32 bytes of
memory, those from 24 on data. A word of a program is one of fifteen instructions that
between them take every path of `issue`, `execute`, `write` and `commit`.

| Run | Checks | Programs |
|---|---|---|
| `tomasulo` | type, inductive invariant, all safety and action properties of `Tomasulo` | all 15^3 programs of three instructions, and all of four out of LF, MULT, MOVFP2I and SW; each followed by TRAP 0 |
| `tomasulo_liveness` | `EveryIssueRetires`, `StallEnds`, `Terminates` | all programs of three out of MULT, MOVFP2I, LW, BEQZ, JAL |
| `lockstep` | the processor against the sequential machine, and the inductive invariant `LInv` of the comparison | all programs of three instructions but J and LF, all of four out of LF, MULT, MOVFP2I and SW, all of four out of ADDI, MOVI2FP, MULT, MOVFP2I and both TRAPs, and one that modifies its own code |
| `lists` | two copies of `ListTomasulo` with different orders of the units: `EveryStationKept`, `SortedByIssue`, that `ListTomasulo` implements `Tomasulo`, and `OrderUnobservable` | all programs of three out of six instructions and seven longer ones, under every pair of three orders, with one execution unit per unit |
| `tests` | `PrintsExpected` | `brUnit6`, `brUnit1`, `fpUnit6` and `intUnit8` from `src/Inputs`, on 29 stations with the latencies and execution units of `Tomasulo.cpp` |
| `byte_memory` | memory in bytes | eight bytes of one bit, every call at every address up to a word behind the end, five buffers |
| `loader` | the loader | all documents of one or two lines out of 33 entries (records that lie apart, overlap, end in the last byte, or lie behind the end; comments, blanks, empty data), every file of one line of up to four characters out of six, and files whose name or contents are refused |
| `decoder` | the decoder against the assembler | every instruction with registers 0, 1, 31 and extreme values; every opcode with unknown codes |
| `last_write` | a sentence of the repository that the code contradicts, section 5 | all programs of three out of ADDI, MOVI2FP and MULT |
| `bus_order` | the same | MULT, SW, MOVFP2I, LF |
| `memory_bound`, `decoder_unknown` | the same | those of `byte_memory` and `decoder` |

**Bounds, and why they suffice.** Three instructions are enough for each pair of
hazards to meet: a producer and two consumers, two writers and a reader of one
register, a branch that waits for its operand with an instruction after it. With
two stations per unit, the third instruction of a kind finds the unit full. In the memory and
the trap unit, with one execution unit, the second waits for it; the integer unit (3) and the
floating point unit (2) have at least as many execution units as stations here and are never short of
them; in `lists` every unit has one execution unit, and `NeverOverbooked` holds for all
numbers. Four are needed where an instruction must be held up by a slow one
and overtaken by another of its unit: a store that waits for a MULT by way of a
move with a load behind it, a load that loses the bus to a MULT and keeps the
execution unit from the next. A program
that jumps back (JALR to R31) loops, so executions are longer than programs, and
falls off its end into data, so instructions read as data and data as
instructions occur. `MaxClock` (40) ends executions of programs that loop; all
others end before it (`Terminates` would fail otherwise). `CycleMod` (8) stands for
2^64, at which the cycle counter would wrap: the smaller it is, the sooner a
counter decremented once too often shows. Stations of one unit are symmetric and
all runs but the one with liveness use that.

In `lists` the units have one execution unit each, so that with two stations the lists
of every unit grow to two and are held up, as in the program, where all units but the branch
unit have more stations than execution units. `tests` runs on the machine as it is;
its words have 16 bits, so the number 5040 that `brUnit6` computes fits, and its
longest program runs for some hundred cycles. It shows what the small runs cannot, that
the model is the program: the outputs are those of the repository. (It also shows
how little the tests see: a bus that grants the youngest result passes them.)
The order of the units is, in `lists`, unobservable but for the text of a TRAP in the
cycle in which another instruction aborts the program. Programs that print a string outside
the memory, which is undefined, are not among its programs. Two lines are enough for
`loader`: a record meets at most one earlier one, and whatever is carried from line to line is
the memory and the position in the file.

**Fairness** is, in `Tomasulo`, weak fairness of `Step`, the whole loop, and nothing finer. The loop
of `run` is the only thread and no call in it blocks, so it goes on while it can;
which station is called next is left open, and no station is assumed to win the
bus: that each one does in the end follows from the arbitration. In `Loader` it is weak
fairness of `Load`, for the same reason; that a file has an end is a fact about the file,
and `LoadEnds` is stated for files that can be read.

**Mutants.** Each property has a mutant of the code that violates it, written beside the
definition it changes ("A mutant of ..."): a dropped stall, an off-by-one, a
renaming that is not cleared, an operand captured twice. No specification uses them.

## 4. The proofs

Everything below is proved for every number of stations and execution units, all
latencies, register sets, memory sizes and programs. `TomasuloProofs`:

| Theorem | States |
|---|---|
| `Invariance` | `Coherent`, the inductive invariant of the processor |
| `TypeCorrect` | every variable keeps its type |
| `ListsAlwaysAgree` | a station's state belongs to the list its unit keeps it in |
| `ListenersAlwaysWait` | the bus notifies exactly the stations that miss an operand |
| `NoLostWakeup` | what a station waits for is an older instruction that will write that register over the bus |
| `RenamesYoungest` | a renaming names the youngest writer in flight |
| `OldestGetsBus` | the bus keeps the oldest offer, in whatever order they come |
| `OneBranchInFlight` | issue is stalled exactly while a branch is unresolved |
| `Drained` | nothing is left behind when `run` returns |
| `OperandsDeliveredOnce` | a delivered operand keeps its value |
| `PCWaitsForBranch` | `pc` stays while a branch is unresolved |

and, by counting stations, of the units:

| Theorem | States |
|---|---|
| `UnitInvariance` | `IInv`: `Coherent` and what holds of the units |
| `NeverOverbooked` | a unit never works on more instructions than it has execution units |
| `InProgramOrder` | in the memory and the trap unit no instruction starts before an older one has left |
| `NeverExecutedTwice` | `execute` is called only while cycles remain; the unsigned counter does not wrap |

`LockstepProofs`, about the processor beside the sequential machine:

| Theorem | States |
|---|---|
| `ProcessorInvariance`, `LockstepInvariance` | `IInv` and `LInv`, the inductive invariants |
| `FetchInOrder` | what is fetched next is what sequential execution executes next |
| `OperandsAsSequential` | every operand delivered is that of sequential execution |
| `PrintsAsSequential` | what is printed is a prefix of what sequential execution prints |
| `SameResult` | whenever nothing is in flight registers, memory and output are those of sequential execution |
| `EndsAsSequential` | the processor aborts only if sequential execution faults, returns only if it halts |

`ListProofs`, about the units with their lists, with `ListTheorems` on sequences:

| Theorem | States |
|---|---|
| `ListInvariance` | `ListInv`, the inductive invariant |
| `StationsKept` | no station of a unit is lost, or in two lists |
| `OrderKept` | the lists are in the order of issue where the advance relies on it |
| `ListsImplementSets` | `ListTomasulo` implements `Tomasulo`: its initial states are initial states, each of its steps is a step |

By the last, the theorems of `TomasuloProofs` hold of the processor with
lists, under every order of the map.

`ByteMemoryProofs`, for every set of buffers and every number of values of a byte:

| Theorem | States |
|---|---|
| `ByteTypeCorrect` | the memory holds bytes |
| `StringsAlwaysEnd` | `readString` finds a zero at every address; its error message is never printed |
| `AlwaysBigEndian` | a word and the next one, a byte further, agree on the bytes they share |
| `StoredReads` | a stored word is read back, and no word that shares no byte with it changes |
| `TextReads` | a string written with its final zero is read back whole by `readString` |

`DecoderProofs`, for every word of 32 bits and every assembly instruction:

| Theorem | States |
|---|---|
| `RegistersAlwaysExist` | also a word that is no instruction decodes to registers that exist, those its name needs; `InvalidRegisterException` is never thrown |
| `UnitsAlwaysReadOwn` | an instruction has registers of the kind its unit computes with |
| `DecodingInvertsAssembly` | an instruction with any registers, any 16 bit immediate, any 26 bit offset is decoded from its encoding: name, registers and value, sign included |

`LoaderProofs`, for digits of every base, memories of every size and files of any length:

| Theorem | States |
|---|---|
| `LoaderTypeCorrect` | whatever characters a file has, what is stored are bytes, and no line is read that the file does not have |
| `RecordsAlwaysLoaded` | the memory is at each moment what the records read so far say: reading the text of a document inverts writing it |
| `OnlyBadRecordsStop` | a document is loaded whole, or stopped at a record that does not fit or has no bytes |

**Assumptions** are those named in the modules: R0 and R31 are registers and NONE is
not, `RawDecode` and `Alu` return fields and words, images are memories of
`MemSize` bytes, `unitOf` gives each station a unit, latencies are at least one and do
not wrap, units have at least one execution unit. The theorems about units, and with them `LockstepProofs`,
also use that there are finitely many stations (`FiniteAssumption`: a unit is created
with a number of them) and that an in-order unit has one execution unit
(`InOrderAssumption`: `Tomasulo.cpp` gives the trap, branch and memory unit one each;
with two, two loads would execute at once). `ListProofs` uses that each unit lists its
stations once and the map has each unit once. `DecoderProofs` uses that the assembly instructions
have one of the twelve forms of `Forms` with register numbers below 32 and values that fit their field
(`SourceAssumption`: what has an encoding at all), `LoaderProofs` that a byte has two digits
(`LoaderAssumption`) and that documents are made of entries (`DocumentAssumption`). TLC evaluates all of them on the instances of
section 3.

**The processor.** No property above is inductive alone. That a wakeup is not
lost (`ProducerInFlight`) rests on renamings naming instructions that
have not completed: at issue, which is the only time renamings are read, every
station named is still to be written to the bus. This holds because `advance`
precedes `issue` and retires every station that completed in the last cycle
(`RetiredBeforeIssue`), clearing its renaming, and only its own, since a younger
writer has replaced it otherwise (`RenamedToYoungest`). "Younger" makes sense because no two stations in
flight share an issue clock (`IssueClocks`). That a commit does not throw a station
back rests on the listeners being exactly those that miss an operand
(`ListenersWait`), which in turn needs the lists and states to agree
(`ListsAgree`), and that the instruction on the bus still writes
(`BusGrantsOldest`, with `TodoInList` for the stations yet to be called). `Coherent` is the
conjunction of these; the proof has one lemma per action or family of actions
(`IssueInv`, `AdvanceInv`, `ExecuteInv`, `WriteInv`, `CommitWriterInv`, ...) and in each one
step per conjunct the action can disturb. The two action properties and `Drained`
follow from it and a step lemma each.

**The units.** `IInv` adds `UnitInv`. That a unit is not overbooked is an argument about
the sizes of sets: those that start are the oldest startable ones, as many as there are free
execution units, by counting for each how many are older. From it, and the single
execution unit of an in-order unit, follows program order: when one starts, the unit is empty,
and it is the oldest of those issued, for it was not held up by an older one. That
`execute` is called only while cycles remain needs two things more: until an instruction completes
a cycle is left (`Countdown`), and the advance leaves nothing completed on the executing list, since
an in-order unit has at most one instruction there (`ExecutingStarts`). The run
`tomasulo` checks `IInv` itself as an invariant.

**The lockstep.** `LInv` says what each piece of state will become, in terms of what
sequential execution had at each instruction (the history variables): an operand is there
or is the value the station it comes from computes (`OperandsComing`); a register not renamed has
its value, and one renamed gets it from the station it is renamed to (`RegistersComing`); the result of a
station is the value of its instruction (`ResultsSequential`); `pc` is the next
address, or the branch in flight will make it so (`FetchComing`); and for memory and
output, the instructions in flight form chains: the oldest access sees the memory as it
is, each store leaves the memory the next access needs, the youngest leaves that of
sequential execution (`MemoryComing`, `OutputComing`). Three things make it delicate.
A late result may still overwrite a register that a younger instruction has written
(the finding of section 5), so `RegistersComing` has to say who could, namely only
instructions older than the last writer, and the flag `overwritten` catches it. Text is printed
from the memory as it is, so `TextStays` says that, without the race, no store is
pending meanwhile. And after a fault sequential execution has stopped while the
processor goes on, issuing what no sequential execution reaches, until the fault
comes up in its turn; so most of `LInv` is claimed only of instructions with no faulting
one before them (`OnCourse`), and `EndsAlike` says that such a fault stays in flight until it aborts the
program. The run `lockstep` checks `LInv`.

**The lists.** `ListInv` says that the four lists of a unit part its stations among them, without repetition
(`ListsPartStations`), and that they are sorted by issue clock, within
`issuedStations` of every unit, and within and across the lists of an in-order unit
(`ListsInOrder`); with `IssuedBefore` what is issued next comes behind. The advance takes
a prefix off a sorted list, or a selection out of one that need not be; `LeadingFacts` shows that the prefix is
the set of those with no other one in front, `FirstFacts` that the first *n* are those with less
than *n* older ones, and `ListsRebuilt` that `listOf` is determined by the lists.
With these `advanceLists` is `AdvanceStations` (`AdvanceRefines`), and the calls of a phase, the concatenation of
the lists in the order of the map, have the elements that `Tomasulo` has in `todo` (`CallsOfPhase`).
The operators of `Tomasulo` are there twice, once through the instance; the lemmas
`SameNames` to `SameCommit` identify them.
What `Kept` leaves of a list is defined by a recursive function. Its facts are proved by
induction, obtained from the least element of a set of numbers (`LeastNumber`, `Induct`), since the
library's induction theorems have an operator as a parameter.

**The memory.** The inductive invariant adds that the last byte is zero: it starts so and
every bounds check keeps writes from it (`ByteInvariance`). The arithmetic of bytes and words is in the lemmas of
`MemoryTheorems`: a word is the sum of its bytes (`Quotient`, `ModWord`), `toBytes` and `toWord`
are inverse (`RoundTrip`), and a store leaves what it does not cover. `TextReads` counts: the addresses from
the beginning of a string that no zero separates from it are as many as its characters (`Text`).

**The decoder.** The result is always that of the last word (`DecoderInv`). A word decodes to one of three
shapes, by its opcode (`Rdecoded`, `Idecoded`, `Jdecoded`), whose registers suit the name whatever it is
(`FieldsSuit`); so the fall through between the cases of `getName` can give a word the wrong name, never
registers that do not exist. For the round trip each of the twelve forms assembles to a word of its shape
(`FormsAssemble`), and the bits of a field, taken apart and put together again, are the value (`LowHalf`, `Jimmediate`),
in two's complement (`ShortSigned`, `LongSigned`). For J and JAL the extra bit that the mask
`0x07ffffff` keeps is dropped by the sign extension.

**The loader.** Types rest on `HexValueByte`, that two characters give no more than a byte whatever they are, and
an induction from the end of the line that `buffer` gives bytes (`BufferType`). `hexValue` and `buffer` are
recursive functions; that functions with these equations exist is proved first (`ValueDefined`,
`FromDefined`). For documents, `RecordContent` says that the line of a record keeps, when its comment is cut off, the text of the
record and no digit behind it, although a comment may hold digits and colons; so colon, first and last digit are found where
they were written (`RecordColon`, `RecordData`). The eight digits before the colon are the address
(`EightDigits`), and `buffer` finds the bytes one by one, by induction from the last, skipping whatever gap stands
between them (`RecordBuffer`). The inductive invariant `DocumentInv` then says of each phase what the memory holds
(`Loaded`, up to the line done with), that `line` is the line of the entry being dealt with, and that every record before it
fits. `LoadedSkip` and `LoadedNext` are the steps of `Loaded`: the last record over an
address wins, which is what storing them in order does.

**Only model-checked**: liveness, which is out of the prover's reach, as is `ENABLED`;
`OrderUnobservable`, which compares two behaviours (that each of them is sequential follows from
`ListsImplementSets` and `SameResult`, that they agree in every cycle does not);
`LoadEnds` is liveness as well; `PrintsExpected` is about four concrete programs and compares the outputs the repository
has for them. Of everything else the passing runs check there is a theorem.

## 5. What the code does and its documentation does not say

| Run | Code | Repository |
|---|---|---|
| `last_write` | `commit` writes the register file even when a younger instruction has taken the register over (`CommonDataBus.cpp:74`): after ADDI R1; MULT F1,F1,F1; MOVI2FP F1,R1 register F1 has the product, not the value moved | "final value in r3 should be 3" (`Inputs/memUnit1.dlx:5`) of a program that writes r3 twice: the last write in program order stays. Those two loads share an in-order unit, so the test passes |
| `memory_bound` | an access that ends with the last byte throws | the exception signals "an invalid memory location" (`Exceptions.h:44`) |
| `bus_order` | `write` compares the clocks of issue (`CommonDataBus.cpp:39`, `ReservationStation.cpp:76`): in MULT F1; SW; MOVFP2I R1,F1; LF F1 the load begins executing at clock 6 and the move, which waited for the product, at clock 7; when both write, the move gets the bus | "the oldest write (based on the cycle when the instruction began executing) will be written" (`CommonDataBus.h:34`) |
| `decoder_unknown` | an unknown function code of opcode 0 falls through to the names of opcode 1, and to J | "replacing with NOP" (`instruction_types.cpp:105`): a word that no case is for decodes to NOP |

For the processor the order of issue is the better choice: by it the oldest instruction
in flight never loses the bus. `BusGrantsOldest`, which the run `tomasulo` checks and
`OldestGetsBus` states for every machine, is about what the code does.

Also met, and visible in the modules without a run of its own: `notifyDataBus`
returns *true* to be removed as a listener, where the header says false
(`ReservationStation.h:85`); a memory of 5 bytes gets 6 and one of 7 gets 10 (`Memory.cpp:16`,
in `MemSize`), where the header says "rounded up to be a multiple of the word size" (`Memory.h:19`), and
`main` asks for 4096 only; a file name shorter than four characters makes `compare` throw
`std::out_of_range`, which `main` does not catch (`main.cpp:209`, in `ShortName`), where it answers any other
wrong name with "Invalid file type" (`main.cpp:214`) and "Error reading file" (`main.cpp:103`); a
file that opens and cannot be read, such as a directory, is read for ever, since the loop ends
on `eof()` alone (`main.cpp:227`, in `ReadFails`).

## 6. Plan

Done: the processor core and its comparison with the sequential machine, with memory
in bytes; the lists of the units and the order of the map, shown to implement it;
the loader; the decoder; four of the test programs on the full machine; the
inductive invariants of processor, units, lockstep, lists, memory, decoder and loader, and the
theorems of section 4, which state every safety and action property that the passing runs check but
`OrderUnobservable` and `PrintsExpected`. Open:

1. **`OrderUnobservable` as a theorem**: that the two copies agree in every cycle, by an invariant that
   relates their stations.
2. **Progress, as far as it is safety**: by `NoLostWakeup` the oldest instruction in flight never waits for
   an operand, and by `OldestGetsBus` it never loses the bus; what is left is that each cycle brings it
   nearer to its end, a measure that falls.
