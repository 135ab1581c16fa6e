# Swagger: a verification project in TLA+

Swagger programs ARM microcontrollers over single-wire debug (SWD). A host
program runs Squirrel scripts that queue commands; the commands travel in COBS
frames over a serial line to an Arduino, which executes them as SWD
transactions on the target. This directory models that chain from the script that
erases and programs the flash down to the bits on the data line, and the Squirrel
compiler, virtual machine and data structures that the script runs on. It
model-checks the models with TLC and proves the most important properties with
TLAPS.

## 1. The system

| Part | Source | State | Operations | Talks to |
|---|---|---|---|---|
| Flash scripts | `targets/init.nut`, `targets/nxp/kinetis.nut`, `mkv10z.nut` | position in the image | erase, program, verify | script functions (calls) |
| Script functions | `targets/targetfuncs.nut` | retry counters | `connect`, `readAP`, `pollAP`, `readMemory`, ... | script primitives (calls) |
| Script primitives | `src/squirrel_funcs.cpp` | `g_cmdQueue`, `g_resultQueue` | queue, execute, pop, clear | packet interface (calls) |
| Packet interface | `src/hardwareinterface.cpp` | the serial port's buffers | `writePacket`, `readPacket` with a 1 s timeout | programmer (bytes both ways) |
| COBS framing | `src/cobs.cpp`, `swdinterface.ino` | local to a call | encode, decode | both ends of the line |
| Command interpreter | `swdinterface.ino` | `g_rxbuffer`, `g_rxidx`, `g_txbuffer`, `g_txidx` | `loop()`: receive, decode, execute, reply | SWD driver (calls), host (bytes) |
| SWD driver, mid level | `mid_level.cpp` | `m_APcache` | connect, DP, AP and memory calls | wire level (calls) |
| SWD driver, wire level | `low_level.cpp` | pin directions | line reset, read and write transactions | target (pins) |
| Console, main | `src/main.cpp` | line buffer, bracket count | read a line, run it | Squirrel compiler and machine |
| Squirrel compiler | `sqcompiler.cpp`, `sqfuncstate.cpp` | per function: instructions, targets, scopes, pending jumps, traps | parse, emit, improve what was emitted | machine (code) |
| Squirrel machine | `sqvm.cpp`, `sqclass.cpp`, `sqobject.cpp` | stack, frames, traps, open outer variables | one per instruction, call and return, throw, yield and resume | data structures, library and script functions (calls) |
| Squirrel data structures | `sqtable.*`, `sqstate.*`, `sqobject.*` | nodes; string table; references of the host; chain of collectable objects | get, set, remove; add, release; collect, close | machine (calls) |
| Squirrel library | `sqbaselib.cpp`, `sqstdlib/` | a compiled expression and its matches | sort, ..., compile, match, search | scripts (calls) |

(The Squirrel sources are under `src/contrib/squirrel`.)

There are two processors and a target. The host is one thread that blocks in
`readPacket` for at most a second at a time; the programmer is an endless
`loop()`; they share nothing but the two byte streams. The target is a third
party that answers OK, WAIT, FAIL or nothing, raises bus errors and can lose
power at any moment.

What is hard here:

* *Staleness.* The programmer keeps the selected access port in `m_APcache` and
  skips the SELECT write; the target can forget or change it independently.
* *Partial failure.* A memory access is four accesses of an access port, each a
  SELECT write (perhaps), a transaction with retries, and for reads one more for
  RDBUFF. A packet is up to a dozen commands, any of which may fail.
* *Limits.* Receive and transmit buffers of 64 bytes, a frame buffer of 66, a
  decode buffer of 64, COBS blocks of 254 bytes.
* *Timing.* The host gives up after a second, without telling the programmer and
  without numbering packets: the answer may still come.
* *Structures that change under those who use them.* A new key moves another one to
  a free node in the middle of its chain; the collector walks a chain of objects
  while what it frees leaves that chain; a stack that grows moves the registers to
  which closures point.
* *Control that leaves and comes back.* A generator takes its frame away with the
  exception traps in it and brings it back elsewhere, in another `Execute`; an
  error unwinds frames across metamethods that run on the C stack.
* *Local improvements.* `AddInstruction` merges an instruction into the one before
  it. That is right only if no jump leads between the two and nobody needs the
  register that disappears, which the emitting functions have to know.

What makes each part correct:

* framing: packets come out as they went in; a frame contains one zero, its last
  byte; nothing is written past a buffer;
* SWD driver: the cache is true; a memory write answered OK reached the word it
  names, once; a read answered OK returns the word; every call returns;
* interpreter: one status per packet, OK only if everything was performed; the
  results of exactly the commands performed; nothing carried over; every packet
  answered;
* session: the answer the host reads is the answer to what it asked;
* wire: driver and target never drive the line together, agree after every
  transaction on where the next one starts, and the ack tells what was done;
* flash scripts: success means the image is in the flash; nothing is erased that
  must not be; the program ends;
* data structures: a table is a map; a string exists once; what the host holds is
  held until it lets go; counts are exact, nothing freed is touched, what is out of
  reach is freed, and in the end everything is;
* compiler and machine together: a script does what it means and ends; each
  `Execute` counts its own traps, an open outer variable is a live register, an
  error nobody catches is reported once, and the stack ends where the frame does;
* regular expressions: what is found is there, and nothing is missed where the next
  character decides.

## 2. The modules

| Module | What it is |
|---|---|
| `CobsEncoder` | `COBS::encode` and `StuffData`, one loop turn per step |
| `CobsDecoder` | `COBS::decode` and `UnStuffData`, one loop turn per step, any input |
| `CobsCodec` | both ends of the line: encode, cut at the zero, decode, strip |
| `SwdWire` | `SWDInterfaceBase`, one clock cycle per step, and the target's end of the line |
| `MemoryPort` | abstract: what the SWD driver promises of the target's memory |
| `SwdPort` | `ArduinoSWDInterface` and, as environment, the target |
| `Programmer` | `loop()` with its buffers, and the line to the host |
| `Session` | `Programmer` composed with `executeCmdQueue`, `readPacket`, `connect()` |
| `KinetisFlash` | `initSystem`: erase, program and verify, one packet per step |
| `SquirrelConstants` | keys, hashes and addresses, for the next three |
| `SquirrelMap` | abstract: what a table promises |
| `SquirrelTable` | `SQTable`, one operation per step |
| `SquirrelState` | `SQStringTable` and `RefTable` |
| `SquirrelHeap` | reference counts, weak references, delegates, the collector |
| `SquirrelPattern` | abstract: what a regular expression stands for |
| `SquirrelRegex` | `sqstdrex.cpp`: its compiler, its matcher, its search |
| `SquirrelValues` | values, operators and library functions, for the next three |
| `SquirrelCompiler` | `SQCompiler` and `SQFuncState`: from a syntax tree to instructions |
| `SquirrelVM` | `SQVM::Execute` and what it calls, one instruction per step |
| `SquirrelMeaning` | abstract: what a script means, without code and registers |
| `SquirrelLanguage` | what the machine must do with the code of the compiler |
| `CobsProofs`, `SwdPortProofs`, `SwdWireProofs`, `SessionProofs` (with those of `Programmer`), `KinetisFlashProofs`, `SquirrelTableProofs`, `SquirrelStateProofs` | theorems |
| `Recursion` | lemmas about recursive functions that several of these rest on |
| `MC...` | constants for TLC, scripts and patterns |

In several modules there are definitions whose comment begins with *Faulty*.
They are variants of the definition that follows them with a slip the code could
well contain. No specification uses them; substituted for the definition they
imitate, each makes one of the properties fail, which shows that the property
says something about that line of the code.

### CobsEncoder, CobsDecoder, CobsCodec

The variables are the locals of the functions. `idx` counts bytes consumed as in
the source; positions in sequences are 1-based. `FinishBlock` is the macro of the
firmware and the repeated "Finish block" lines of the host. `MaxCode` is 0xFF in
the source; everything is stated for an arbitrary value of at least 2, and bytes
range over `0..MaxCode`. In `CobsCodec` `Receive` stands for the byte loops of
`readPacket` and `loop()`, `Strip` for `pop_back()` and `bytes--`.

### SwdPort, MemoryPort

One step is one transaction on the wire: `SelectWrite`, `ApWrite`, `ApRead`,
`ReadRdBuff`, `DpRead`, `DpWrite`, `Connect`. A call (`Begin`) is unfolded by
`Accesses` into the AP accesses that `readMemory` and `writeMemory` make; `step`
is the position in that sequence, `retries` and `polls` the counters of the loops
on WAIT and on the busy bit. An ack other than OK goes through `Refused`, the
three-way decision at the end of every driver function. Control is complete;
addresses are split into the part `selectAP` masks out and the register number,
and a word is a small number.

The target is external. `CanAck` says when it may answer: not without power, not
before a line reset, and while an error is sticky only to the accesses exempt
from it. `TargetApWrite`, `TargetApRead` and `TargetDpWrite` are its registers; a DRW
access either reaches the memory or makes a bus error sticky; if CSW does not
hold the driver's configuration it may do anything. `PowerLoss` may happen between any two
transactions.

What the wire damages in a transaction is represented by what comes of it, as `SwdWire`
shows in detail. An AP read whose data phase fails its parity check, or whose ack is
garbled, may have been executed all the same. The data phase of a write is not
acknowledged: after an OK the target may find the word damaged, leave its registers
alone and note an error (`Discards`), while the driver goes on as if it had been
written, and moves the cache when the write was to SELECT. And when the driver
cannot read the OK of a write, the data phase it sits out carries ones
(`TakesOnes`): the target writes 0xFFFFFFFF, into SELECT, into a register of the
port or into memory, while the driver returns a fault and keeps its cache. One damaged bit in a
transaction is assumed, as in `SwdWire`; so an ack that is not OK is never read as one. The value of
CTRL/STAT is not represented, so that 0xFFFFFFFF in it changes nothing but what it returns,
which is any word.

The second kind of damage breaks the cache, and the driver does not repair it before
the next connect (section 3). So the properties speak of the calls from a connect to the
first that fails: `trusted` is the history variable for it, `Trusted` includes the
call in progress. Calls after a failed one are made all the same, and they may do
what they like to the memory; a connect after them has to make the port sound again, which it
does by forgetting the cache.

`MemoryPort` knows nothing of ports, caches, polls and retries. As long as it is
`sound`, only a write changes the memory, at its address and at most once. The step `Take`
is the one that a write answered OK must have made: it writes the word, or the
target notes an error, and then nothing more reaches the memory. A write answered
otherwise has made the step `Fail`, which may also have left 0xFFFFFFFF at the address.
A read answered OK returns the word. The refinement mapping is at the end of
`SwdPort`: the call, the memory, the sticky bit and `trusted` are taken over, and a write has
its `outcome` when its last access is through or it is given up.

### Programmer

The receive half of `loop()` is `ReadByte`, `RxOverflow`, `Decode`; the execute
half has one action per shape of handler (`ExecuteRead` for the commands that
return a word, `ExecuteWrite` for those that only succeed or fail, `ExecuteReset`,
`ExecuteGetProgId`, `ExecuteUnknown`, the five `Wait...` steps of WAITMEMTRUE)
and `Finish`. Bytes are counted, not represented: `Size` and `ResultSize` are the
command and result lengths, `queued` lists the results in `g_txbuffer` by the
command they belong to. `QueueWord` and `QueueProgId` keep the guards of
`queueReplyUInt32` and `queueReplyUInt8`. After an overflow the tail of the
packet is received as another packet and decodes to some member of `Garbage` that
fits its length. The result of an SWD call is any status the driver can return.
`performed`, `answered` and `mangled` are history.

### Session

`Call` is a script function filling a cleared command queue. `WritePacket` may
fail with or without the packet going out, and reading follows in either case.
A turn of the loop of `readPacket` is one step: `ReadFrameByte` takes a byte,
`ReadPacket` and `ReadRest` the terminator, and `ReadTimeout` is the end of a wait in any
turn, before the first byte or after some (`got` counts those taken from the first
frame in the port). A wait that ends before the first byte leaves the reply whole, late or
lost; one that ends later has dropped the bytes read, and the rest stays in the port and is
met by `ReadRest` in the next call. `PopStatus` and `PopWord` are 0 on an empty queue.
`CheckConnect` is the loop of `connect()`. `disturbed` is history: it becomes true
with the first failed write, timeout, receive overflow or WAITMEMTRUE timeout.

### SwdWire

`SwdPort` takes a transaction as one step; this module is about what happens in
it. One step is one clock cycle, in which programmer and target both look at the
data line. `at` is the part of the transaction the programmer is in (`header`,
`turn`, `ack`, ...) and `n` the bits of it done; `Written` lists the bits of the
parts in which it drives the line and `BitsRead` the lengths of those in which it
does not; `AfterAck` is the three-way branch on the ack, `Checked` the parity test.
`Begin` prefixes the connection sequence for `doConnect`. A write of the source and
a read differ in a few lines; each definition maps to one of the two, and holds
for both.

The target is external: a debug port with the same protocol, which answers with
any ack and any word, ignores everything after a bad request until a line reset
of at least 50 ones, and can lose power in any cycle. A line nobody drives reads
as 1, because of the pull-up. Noise may garble ack and data bits as the
programmer reads them, and data bits as the target receives them; it is not
applied to requests and idle bits.

### KinetisFlash

One step is one packet with its reply: what `Session` takes three steps for is one
set of outcomes here, `Exchange`, from which the step takes one. A packet is
performed or not; its reply is read, is late, or is lost; and what the script reads is the
oldest reply not yet read or, after a timeout, an empty queue, which pops as OK and zero
(`Nothing`), so that several replies may be late at a time. Torn replies are
left to `Session`. `pc` is the next packet of the script, `stage` tells apart the
callers of functions that are called several times. A word is the set of its bits
that are set, of which only those a script looks at exist (the program counter and the
stack pointer, which are read for the log, have such bits too, as late replies); so programming, which
clears bits, is intersection. `SQInteger` has 32 bits, as the CMake build of the
repository compiles it, and words compare without a sign extension.

The functions are followed through: the failure of `kinetis_mdm_halt`, of
`connect()` and of `setReset` is ignored where the scripts ignore it, MGSTAT0 is
passed over, the result of an unfinished file (`ragged`) is an exception that
`initSystem` catches. The packet of `kinetis_flash_longword` may fail after the
flash command was started. External are the mass erase, which ends at some time
or never and which a reset aborts with any outcome, and the rule that memory is out of
reach on a secured part and flash during an erase.

### SquirrelTable, SquirrelState, SquirrelHeap

Three data structures that do not share state with each other here;
`MCSquirrelData` extends the first two, instantiates the third and the regular
expressions beside them, and checks all of them in one run, where `part` says which
one moves.

`SquirrelTable` is a chained scatter table: `nodes` with keys, values and `next`,
and `firstfree`, which only moves down. `Chain` is what a loop over `next` meets, so
`Get` is the search for a key. `NewSlot` is the function of that name with
its three cases (`PutAt`: free main position, a stranger to move, a free node), the search
for a free node (`Left`), and the rehash when there is none. A removed key leaves its node
in the chain, which is what makes `usednodes` and the rehash on removal delicate. `Copy`
is the loop of `Rehash` and of `Clone`: it puts the keys into a new table with `Insert`,
which is what `NewSlot` comes to as long as a node is free. That one always is, although
`usednodes` does not count the key for which a full table is rehashed, is part of
what is proved: a table of n nodes is halved with n/4 keys at most, and doubled or
copied into one with room for all.
`SquirrelMap` is a function from keys to values; `Contents` is the refinement
mapping: what `Get` finds.

`SquirrelState` has the two tables of `SQSharedState` that have buckets. A string is
freed with its last reference, and then has to leave the table under the hash it
came in with (`ReleaseString`); a string table too full doubles (`Resize`). In
`RefTable` a node is in a bucket or free. A chain is the set of what is linked in it:
the code searches chains and takes nodes out of their middle, and the order of a
chain decides nothing. For the same reason a resize may leave the nodes the numbers
they had (`Moved`), where the code hands them out anew; `slotused` is a count of its
own, as in the code, since it decides when there is a resize. `stackRefs` and `hostRefs`
are history: how often the machine and the host refer to each text. `sq_addref`
is called for objects on the stack, `sq_release` for what the host holds.

`SquirrelHeap` keeps reference counts as the code does: each assignment adds before
it releases, and a release may free a whole structure on the way. Table, closure and
array stand for the kinds of object: those whose link can change and is
dropped by `Finalize`, those whose link only the destructor drops, and those
without. `Mark` and `Sweep` follow `CollectGarbage`, `RunMark` and
`ResurrectUnreachable` through the chain. `SpecNative` adds a native function that
keeps an object in a local variable while a script runs, as `map` and `filter` do.

### SquirrelPattern, SquirrelRegex

`SquirrelPattern` says what an expression means: the set of ends (`Ends`) its
elements reach from a position in a text. It also writes expressions down (`Written`) and
says which of them are *plain*: those in which the next character always decides
whether to go on, so that no choice need ever be taken back. `SquirrelRegex` is the
code: a parser by recursive descent that builds nodes, and a matcher that never takes
back what it has matched but, while it repeats, looks one node ahead. A match is
exact for plain expressions and sound for all: that is the property `RegexSound`.
The difference, expressions like `a*a` on which the matcher fails where others
succeed, is how the library is built, and not held against it.

### SquirrelCompiler, SquirrelVM, SquirrelMeaning, SquirrelLanguage

The input is a syntax tree; lexing is left out, and so is recognising, while each
function of the parser keeps what it emits, in its order. `FuncState` is the
record of `SQFuncState`: registers are allocated in `locals`, `targets` is the stack of
registers that hold intermediate results, `Emit` is `AddInstruction` with its improvements,
`opt` their permission, which a jump target revokes. Constants stand in their
instructions instead of a table of literals. Classes, with their members,
constructors, static members and metamethods, functions with default and variable
parameters, generators, `switch`, `try` and all loops are there.

`SquirrelVM` has one action per group of instructions, gathered by what they work on
into the `switch` of `Execute`. The record `vm` holds `stack`,
`calls`, `etraps`, `open` (the outer variables that still point into the stack) and
`execs`, one entry per nested `Execute`: a metamethod, which is called from C++, runs in
one of its own. The stack grows by
reallocation: `allocation` counts these, and an open outer variable remembers to
which allocation it points. A metamethod that is a native
function, or one with `yield`, which has its generator at once, is called and left
in the same step (`Conclude`). `MaxNativeCalls` is `MAX_NATIVE_CALLS`. What the model leaves
out it leaves undefined or disables, so that TLC would stop at a script that needs it:
a class as a metamethod, and `t.x++` where the field holds an object with `_add`.
The library functions that scripts call are in
`SquirrelValues`; the one that has an algorithm is here: `array.sort` is the heap
sort of `sqbaselib.cpp`.

`SquirrelMeaning` computes over the tree what a script prints and how it ends, with
locations and stores instead of registers: it knows nothing of code, frames, traps,
jumps or improvements. `SquirrelLanguage` compares the two.

## 3. The runs

| Run | Instance | Shows |
|---|---|---|
| `codec` | blocks of 2 bytes, all packets of up to 6 bytes; the decoder also on any bytes instead of a frame | `FrameDelimited`, `FrameBound`, `DecodedFits`, `StripsOnlyPadding`, `RoundTrip` |
| `swdport` | 2 words, 2 access ports, 2 retries, every call | `TypeOK`, `CacheCoherent`, `ImplementsMemoryPort`, `CallsReturn` |
| `programmer` | all packets of up to 3 commands of 7 shapes, buffers of 12 and 11 bytes | `OkMeansPerformed`, `ResultsMatch`, `TxConsistent`, `PacketsAnswered` |
| `session` | 3 packets of 4 kinds, frames byte by byte, 2 connection attempts | `InStep`, `StatusTrue`, `ScriptGoesOn` |
| `swdwire` | words of 32 bits, 64 ones per reset, every request, 3 words, 1 garbled bit per transaction | `NoContention`, `InFrame`, `OkMeansDone`, `WaitMeansNotDone`, `Recovers` |
| `flash` | images of 0, 3 and 4 words of 3 kinds, 2 verified at a time, 2 faults or lost or late replies | `TypeOK`, `VerifiedImage`, `ErasedBeforeProgram`, `ErasesOnlySuitable`, `Ends` |
| `squirrel_data` | 4 keys, 1 value; 4 texts at 3 addresses; 3 objects in 2 slots; 711 patterns on 46 texts | `TableSound`, `TableIsMap`, `Interned`, `HeldByHost`, `HeapSound`, `CollectorExact`, `ClosesEmpty`, `RegexSound` |
| `squirrel_language` | 278 scripts | `Computes`, `TrapsBalanced`, `OutersSound`, `Reported`, `TopInPlace`, `Halts` |

Bounds. The COBS functions treat all nonzero bytes alike and know one limit, the
block; three blocks and every arrangement of zeros in and around them occur with
blocks of 2 bytes. In `swdport` one retry is counted and the next one times out;
two words make a wrong address and a wrong value visible, two ports a wrong
port. In `programmer` the receive buffer is overflowed by two long commands, the
transmit buffer by three results, with either mixture of words and single bytes;
`WaitRetries` of 2 lets the wait end at its first, its second and after its last
attempt. The host of `Programmer` sends when nothing is under way, which loses
nothing because the interpreter looks at the line only between packets.
`MaxReplies` bounds what waits on the host's side, and replies beyond it are
dropped: it is large enough that an undisturbed session drops none. Three packets
in `session` are one to be answered late, one to read the late answer, and one to
see what the answer to the second is taken for.
In `swdwire` every size is that of the source; the words are all ones, which is what
an idle line reads as, all zeros, and one of odd parity. The limit of one garbled
bit is essential: two can turn an OK into a WAIT, and then the programmer takes
the line while the target sends. In `flash` the loops turn twice, an image takes
two packets to verify, the second of them full or not; the two troubles may meet
on any two packets of the whole run, or on the same. How many it takes to lead the
checks before the erase astray is the subject of a theorem (section 4). `VerifiedImage` asks that every packet of
the image has a nonzero word after its first (`Telling`): without that a lost
reply, all zeros, can pass for the contents of the flash. `ErasedBeforeProgram` is
about runs in which no reply is missing; with a missing one `pollAP_not` takes an
unfinished erase for a finished one, and only the verification notices.

In `squirrel_data` the hashes of the keys are chosen so that three of them meet in a
table of 4 nodes, of which one parts from the others in a table of 8; the fourth is
at home at the node to which the first of those that meet is moved. 4 keys make the table grow and
shrink; one value is enough to see that each key keeps its own node, and for more
keys and values there are the theorems. Of each text there is up to one reference on the
stack and up to two of the host. Tables of 2 slots make the string table and the
reference table resize with
3 entries. Three objects make every circle of one, two and three, a weak reference
into a circle, and a chain hanging from one; a resurrection may return one object
(`MaxLost`), which is what is left of three when the array that holds it and one in
reach are counted. The expressions are every sequence of up to two elements and
many of three out of characters, classes, repetitions, and groups with alternatives, about 200 of them plain, and
sequences of tokens that are no expressions; the texts are all those of up to three
characters out of three, and six others. An expression is used
once: its captures are stale in the next call, as said below.

The scripts of `squirrel_language` are made in families (`MCSquirrelScripts`): each kind of operand
in each place where the optimizer joins instructions (`Operand`); each way out, `break`,
`continue`, `return`, `throw`, `yield`, of each statement it can be nested in
(`Exit`, `Nest`, `Uncaught`, `Flags`); functions and their parameters, recursion
that makes the stack grow (`Functions`, `Deep`); variables shared by closures
(`Outers`); generators; metamethods and errors in them (`Metamethods`, `Fails`,
`DeepMeta`, `Nested`, `LocalMeta`, `OtherMeta`); `this` and classes (`This`, `Classes`, `Inheritance`, `Constructors`,
`ClassMeta`, `ClassHooks`, `UncaughtClass`); `sort` on arrays of every order. An
initial stack of 40 registers, against 1024 in the source, makes it grow after a few
calls; the reserve behind the top, 15 in the source, is 6 (`Overhead`), and 10 nested calls of `Execute` are the limit, against 100, which
metamethods that call themselves reach. A run has no choice but that of the script: the
machine is deterministic, and what varies is the program.

Fairness. `SwdPort`: weak fairness of the driver, code that runs on a processor
of its own; none of the target, which may answer WAIT for ever. `Programmer`: weak
fairness of `loop()`. `Session`: in addition weak fairness of the host's steps; it
blocks only in `waitForReadyRead`, which returns within a second.
`KinetisFlash`: weak fairness of the script, one thread whose every packet returns by
`ScriptGoesOn`; none of the mass erase. `SwdWire` claims no liveness. `SquirrelLanguage`: weak fairness of the
machine, a loop that fetches the next instruction by itself; it is written out in
`FairSpec`, because `Next` is enabled as long as the script has not ended. Nothing is
assumed of the environment; in particular a WAITMEMTRUE condition may never hold.

Deadlock is checked in `swdport`, `swdwire`, `programmer` and `squirrel_language`, where
`Halted` is the only way to stop. The COBS machines stop when the packet is through, the session
stops after its three packets, the program of `flash` ends, a closed heap stays
closed, and an expression is used once.

### Where code and documentation disagree

Four runs state what a document or a comment says and find it violated.

| Run | Says | Does |
|---|---|---|
| `swdport_select` | `m_APcache` is the "current select Access port" | a WRITEDP command to SELECT changes the port and not the cache |
| `programmer_timeout` | "must implement a time-out on all commands" | WAITMEMTRUE restarts after each TIMEOUT it sends |
| `session_connect` | `connect()` returns the IDCODE or 0xFFFFFFFF | with no reply it returns 0, without a retry |
| `swdwire_eat` | after a bad ack, "eat data + parity bit" | for a write, the loop stops one bit short: the target takes an idle 0 for the parity bit and accepts 0xFFFFFFFF |

Three further configurations do the same, outside the list of runs:

| Configuration | Says | Does |
|---|---|---|
| `MCProgrammerStatus.cfg` (`MCProgrammer`) | "only one status code is generated for every packet" (doc/protocol.md:120) | an overflowing packet is answered twice or more (swdinterface.ino:223) |
| `MCSquirrelTraps.cfg` (`MCSquirrelLanguage`) | `assert(traps==0)` (sqvm.cpp:851) | `foreach` resumes a generator that yielded inside a `try` (sqvm.cpp:567) without adding its traps to the count, as `_OP_RESUME` does |
| `MCSquirrelHeap.cfg` (`MCSquirrelHeap`) | `assert(_gc_chain==NULL); //just to proove a theory` (sqstate.cpp:207) | an object that only a native function holds while a collection runs falls off the chain; a circle it gets into later is never swept, and part of it is still on the chain at the end |

The properties of the passing runs are those that do hold: for calls that leave
SELECT to the driver, for packets that fit, for first replies, for an undisturbed
session; and for the SWD driver, from a connect to the first call that fails. The write
that `swdwire_eat` shows to happen without an OK is why: when it is the one to SELECT,
`selectAP` returns the fault and keeps `m_APcache` (mid_level.cpp:85-93), the target has
0xFF0000F0 selected, and the next call for the cached port goes to another one and is
answered OK. Only `tryConnect` forgets the cache, and nothing in the firmware or the host
makes a failed call lead to a connect: the scripts that go on after one have no more than the
comparison at the end to rely on.

Also noticed, without a run: status 4 (PROTO ERR) is defined and documented but
never sent; the documentation gives WAITMEMTRUE a result byte the firmware does
not send; `waitMemoryTrue` of `mid_level.cpp` would report a match on its last
attempt as a timeout, but nothing calls it; results that do not fit `g_txbuffer` are
dropped from a packet answered OK, where doc/protocol.md:62 asks for all of them;
`executeCmdQueue` pushes 1 or 2 for an error but returns the 0 pushed last
(squirrel_funcs.cpp:157-171), so that the test of kinetis.nut:137 never fires; the
comment above `calcParity` says odd parity and the code computes even parity, which
is what the protocol needs.

In the Squirrel sources there are places where what the code does is not, or hardly, what
the script means. Each was met while the model was written and confirmed in the source. The
scripts of `squirrel_language` stay clear of them, since `Computes` would only repeat
the list:

* `break` and `continue` close only the outer variables of the innermost scope, and
  a `break` out of a `for` skips the instruction that closes the loop variable; an exception that
  is caught does not close those of the scopes it leaves; `Yield` moves the locals out of
  the stack although a closure may still point to them.
* The increment of a `for` loop is compiled before the body and emitted again after it,
  through the optimizer, which may merge it with what it now follows; and when the
  jump of its test is the first instruction of the function it is given no target
  (`jzpos > 0`, sqcompiler.cpp:1165).
* The right-hand side of a comma: in `if(a<b, x)` the jump is merged with the comparison, and
  `return f(), x` becomes a tail call.
* Operands are registers, not values: `x + (x = 1)` and `a == a++` read `x` and `a`
  after the assignment.
* The call of a generator as a statement stores its result at the register 255 stands for.
* The result of `ARITH_OP` is not looked at for `_OP_MOD` (sqvm.cpp:844): with a zero
  divisor, or when a `_modulo` metamethod throws, the script goes on. The model does so too;
  the scripts use no value of such a `%`.
* When a metamethod is a generator function, the generator passes through
  `STK(_top - nargs)` (sqvm.cpp:680, 686): an index counted from the bottom of the stack, used
  from the base of the frame. It comes out right as long as the stack has that register and
  nobody needs what was in it.
* `FallBackSet` leaves three values on the stack when a `_set` metamethod declines;
  `CLASS_OP` calls `_inherited` through a reference to the stack that a growing stack leaves behind;
  growth inside a metamethod is an error that depends on the size the stack
  happens to have; a `constructor` that was overridden by a field still runs.
* `SQTable::NewSlot` "returns true if a new slot has been created" (sqtable.h:97), but
  false if the table had to be rehashed for it: by then the key is in the table
  (sqtable.cpp:161-173). No caller in the sources looks at the result.
* `sq_getrefcount` adds a node with a count of 0 for an object that is not held
  (sqstate.cpp:442-447), which the assertion in `Resize` excludes
  (`assert(t->refs != 0)`, 490). Nothing in the sources calls it.

And of regular expressions, excluded from the patterns: captures of the
previous call stay where a group is not reached, and a group nested in another may
lose its own (sqstdrex.cpp:469-485); a search never finds the empty match at the end of the text
(620-635); the message "unfinished range" is never raised (190); a repetition of something that may be
empty can loop for ever (401); `{65536}` is cut to 16 bits (281); a repetition
in front of a group that may be empty can stop too early; `\b` looks at the wrong
characters.

## 4. The proofs

What TLC shows on small instances these theorems show for every value of the
constants.

* `EncoderDelimits`, `EncoderBound`, `EncoderTypeOK` - for every block size and every
  packet. `FrameDelimited` says nothing before the end, so it is not inductive. The
  strengthening `EncInv` keeps, at every turn, that the code byte of the open block
  is the only zero in `outdata`, and where it is; `FrameBound` needs the overhead so
  far weighed against the bytes consumed and those in the open block.
* `DecoderFits`, `DecoderStrips` - for every byte string. `DecInv` says that the
  bytes written lag one behind those read inside a block and are level with them
  between blocks, where the last one is the block's zero.
* `CodecRoundTrip` - what is sent is what is delivered, for every packet and every block
  size. The encoder and the decoder never look at the same variable at the same time, so the
  invariant has to say what the frame is: `CodecInv` has a set of *blocks*, pairs of a
  position in the frame and of a number of bytes of the packet, that lead from the first
  one to the open one, and at the end to the terminator, each holding the bytes its code
  counts (`Chain`, `Encoded`). The decoder is at one of them, or some bytes into one, and has
  written the beginning of the packet (`Decoded`). A block is closed in three ways, and in
  each the next pair is where the code byte says it is. The zero that ends every decoded
  packet counts as a byte of the packet, which makes the last block one like the others.
* `NoContentionHolds`, `InFrameHolds`, `OkMeansDoneHolds`, `WaitMeansNotDoneHolds`,
  `RecoversHolds` - for every length of words, resets and idle time, every request, ack,
  garbled bit and power loss. The invariant has one condition for each part of a
  transaction, that relates the position of the driver in it to that of the target: in
  step, one bit apart after a turnaround, the target in another part after an ack it did not
  mean, or deaf until a line reset. That the driver always finds the target again needs
  the sizes to fit (`WireTimingAssumption`): a reset has more ones than a word with its
  parity and the bits around it, so that a target in the middle of a transaction
  leaves it before the reset is over, and noise is one bit at most.
* `TxConsistentHolds`, `OkMeansPerformedHolds`, `ResultsMatchHolds` - for every size of the
  buffers, every packet and every number of retries. A reply is built over many
  steps, so `Core` says what it holds halfway: `Counted` that `g_txidx` is the size of what
  is queued, `Collected` that these are the results of the commands performed so far, as
  many as fit, and `Underway` where in the command `loop()` is; `RepliesTrue` is what is left of
  it once the reply is sent. The sizes of packets and of results are recursive
  functions over sequences; what they do when a command is appended is proved by
  induction over their length (`Iteration`, `Induct`).
* `InStepHolds`, `StatusTrueHolds`, `TxConsistentInSession` - for every sequence of packets,
  with any number of timeouts, failed writes and torn, late and double replies. The invariant
  adds to that of the programmer what the two ends know of each other: as long as nothing went
  wrong, the packet the host waits for is in one place of three, on its way,
  in the programmer, or answered, and nothing else is (`Lockstep`). A reply to it then is
  a first reply, and `RepliesTrue` says what its status means. It takes a `MaxReplies`
  of at least one: with room for no reply the host would read nothing.
* `SwdPortTypeOK`, `CacheIsCoherent` - for every number of words, banks and retries
  and any target. `PhaseOK` ties `phase` to the call: only a `connect` call is ever in
  phase `connect`, and `Begin` has cleared the cache for it, which is why the line
  reset that makes the target live again cannot make a stale cache valid. While `Trusted`,
  the cache is the selected port or an error is latched, which the next transaction, the access, cannot
  get past; a write that the target takes without the driver's knowledge always ends its call without OK
  (`RefusedWhere`: only a WAIT is retried, and a WAIT is never a garbled OK), which takes
  the trust away until the next connect, which has an empty cache (`TrustStep`). The
  theorem assumes that the host does not write SELECT itself (`HostNeverSelects`);
  `swdport_select` shows that the assumption is needed.
* `SwdPortImplementsMemoryPort` - every behaviour of `SwdPort` is one of
  `MemoryPort`, under the same assumption. `RefInv` strengthens the invariant above
  by what the code relies on between the accesses of a call: in phase `access` the
  cached port is the one the access goes to (`Selected`, which with coherence makes
  it the selected one, or the access is refused); as long as the call is trusted, past the first access of a memory call, as long as the
  target has power and no error is latched, its CSW holds the driver's configuration (`Configured`); before
  the fourth its TAR holds the address (`Addressed`); what the fourth of a read
  fetched is the word asked for, or an error is latched (`Fetched`); and a memory
  call ends with OK only after the fourth (`Complete`). None of these is inductive
  alone: each access uses what the one before it established, and a power loss in
  between is harmless because the target then no longer answers. The step proof has
  one lemma per group of actions, each naming the step of `MemoryPort` it is.

* `TypesHold`, `SuccessMeansVerified`, `ProgramsErasedFlash`, `ErasesOnlySuitableHolds` - for every
  image, every number of retries and every number of faults, lost and late replies. None of the
  safety properties is inductive. `Inv` says where the script can be (`PcOK`), which function is
  called from where (`StageOK`: for instance that only the last stage verifies, and that
  it starts at the first word), how far the counters and the target go (`ScriptOK`,
  `TargetOK`), which part of the image has been compared and is in the flash, with no erase
  left that could undo it (`VerifiedSoFar`, `VerifiedAll`), and that, as long as no reply is
  missing, everything not yet programmed is blank from the end of the wait for the mass
  erase on (`ErasedInTime`).
  What it needs beside these is `LinkOK`: the script reads the oldest reply that is
  under way, so a late reply to an earlier packet could be taken for words of the image. The invariant
  bounds the late replies by the losses so far, and says that outside the
  verification none of them is long enough to be mistaken for a packet of it. One lemma,
  `AnyOutcome`, says what any packet does to the line; every action's proof uses it.
  `ErasesOnlySuitable` needs another invariant, `LateOK`. Any number of replies may be under
  way, among them the stack pointer, read for the log, which looks like the size of a
  suitable part (the code 15 is 32 KB too). A secured part does not give its stack pointer
  away, so nothing that is late looks like a size, and its size is not read either. For the others
  the invariant counts: the stack pointer is behind as many late replies as there were
  losses at most, and with every packet after it it comes nearer or there is one more loss
  (`Behind`), so that with three losses it has passed before the size is asked for. Four
  are too many: if the replies with the program counter, the stack pointer, and two more are
  late, the script takes a program counter with bit 1 for "flash ready", an empty
  reply for "unsecured" and the stack pointer for the size, and TLC shows the erase of
  an unsuitable part when the property is stated without `losses <= 3` and `MaxTrouble` is 4.
* `TableSoundHolds`, `TableRefinesMap` - for any keys and values, any hash function and any
  sequence of operations, also the clearing and the cloning. That the keys can be found is not
  inductive: it says nothing of the nodes without a key, and these make up the chains
  too. The invariant, `Good(table)`, says of the links (`Linked`) that no node has two
  before it and that they lead only to nodes above `firstfree`, that a key is in one node and
  in the chain of its main position, and that where the main position of a key has a key,
  that one is at home;
  beside them that `firstfree` is free, that `usednodes` is the number of keys, and that the
  size is a power of two of at least four (`Sizes`), without which a halved table might
  have no room. Chains are handled as closed sets: `ChainIs` shows that what a loop over
  `next` meets is the least set with its first node that is closed under `next`
  (`Reach`), with a pigeonhole argument for its end. `PutThere`, `PutMoving` and
  `PutBehind` are the three cases of an insertion, each of which must keep `Linked` and add
  one key to what the nodes hold (`Holds`); `CopyOk` is the rehash by induction over
  the nodes, as `RehashOk`, `NewSlotOk` and `RemoveOk` need it. The refinement then has one
  step for each operation.

* `InternedHolds`, `HeldByHostHolds` - for any texts, any hash function, any size of the
  tables and any number of references. Both rest on `SharedInv`, which says of the texts
  of the strings alive that no two are the same (`Named`); of the string table that its
  chains are exactly these strings under their hashes (`StringsOk`); of the reference
  table that buckets, free list and `slotused` are what its nodes make of them, and
  the nodes one for each string the host holds, with its count (`RefsOk`, `NodesOk`);
  and of the strings that their `_uiRef` is the references on the stack and one for
  the node (`CountsOk`). The last is why neither table alone would do: that an object
  in the reference table is alive rests on its count, and that its count is right on the
  node. The tables depend on the heap by the texts only (`Texts`), so a change of a count
  leaves them alone (`RecountOk`), and a string that goes had no node (`GoneOk`,
  `RefsFrame`). That a table with `slotused` below `numofslots` has a free node is a
  matter of cardinalities (`UsedFinite`); that a resize keeps the counts is
  `ResizeRefsOk`.

Assumptions are those named in the modules: sizes are positive, `null` is no key and
no address and a hash is a number, `MemBank` is a bank and `NoBank` is neither a bank nor a call, calls
have the type of calls, the configuration words and the image have the type of words.

Only model-checked: the Squirrel modules but `SquirrelTable` and `SquirrelState`, whose trees, lists and heaps are walked by recursive
operators, out of the prover's reach; and all liveness, `CallsReturn`, `PacketsAnswered`,
`ScriptGoesOn`, `Ends` and `Halts` (fairness and `ENABLED` are outside of it too).

## 5. Not modelled, and the plan

* Host: argument handling, printing, dumping, sleeping and file access; opening and
  closing the port; the interactive console of `main.cpp`, a loop over the terminal
  with no state that another component shares; the LPC13 script, tables and a stub.
* Programmer: pin configuration, the delays within a bit, `swdtest.ino` (a separate
  experiment), and the functions that nothing calls: `waitMemoryTrue`,
  `clearStickyErrors`, `showRegisters`, `writeCoreRegister` and four methods of
  `TargetKV10Z`.
* Squirrel language: the lexer and the recognition of a tree, which are wording; floats, enums,
  attributes of classes, `rawcall`, threads, suspension and the debug hook, which no script of
  the repository uses; metamethods in compound increments (`t.x++`), chains of
  delegates that both have `_get`, `foreach` over a table (its order is that of the
  nodes), the text of objects, classes as metamethods, `sort` with a comparison function.
* Squirrel data and libraries: the C++ interface beyond `sq_addref` and `sq_release`,
  which converts values around one call of the machine; saving and loading of closures;
  blobs, streams, files, formats, mathematics: one call of the C library each; of
  regular expressions `\b`, `\B` and the captures beyond the first.

Next, in this order:

1. Torn replies in `KinetisFlash`.
2. All captures of regular expressions, as the code leaves them.
