# TLA+ models of the Symbian build tools

The repository (os.FCL.sf.os.buildtools) is a collection of build tools. Most of them
are sequential programs that read and write files; some of these keep state that
outlives a run (frozen ordinals) or have an algorithm in which an error is hard to see
(compression, linking of a ROM). Its concurrent programs are the emulator's two serial
drivers in `wintunnel`. This project models the drivers and those algorithms.

Paths below are relative to `src/toolsandutils` unless they begin with another directory.

## 1. Inventory

| Part | Where | State it keeps | Operations | What makes it correct |
|---|---|---|---|---|
| Serial driver, EKA2, logical (LDD) | `wintunnel/src_cedar/serialldd.cpp`, `winscomm.h` | one outstanding request per kind, an error per kind, five DFCs, turnaround timer and the write it holds | requests, controls, cancel, close, DFCs, timer interrupt | every request completes once; a held write is sent, once, after its time; nothing survives the close |
| Serial driver, EKA2, physical (PDD) | `wintunnel/src_cedar/serialpdd.cpp` | comm thread, command slot, two semaphores, three overlapped operations, pending flags, line state | `RunCommThread`/`DriverCommand`, `WaitForEvent`'s four events, direct cancels | commands are executed in the thread they are for; results belong to the request they complete; no wait for ever |
| Serial driver, EKA1 | `wintunnel/src_beech` | circular buffers, DFC mask, watermarks, handshake, power requirement | requests, DFC, drain and fill, ISRs played by the comm thread, idle timer | no byte lost or reordered; flow control neither deadlocks nor overruns; no request of an ISR is forgotten |
| elf2e32: exports | `e32tools/elf2e32` | DEF file entries, export table, import library | merge of DEF file and ELF exports, frozen and new ordinals | frozen ordinals never change; an ordinal a program was linked by keeps its function |
| efreeze | `src/sbsv1_os/e32toolp/e32util/efreeze.pl` | the frozen DEF file | merge of the generated file into the frozen one | only appends; numbers as elf2e32 did |
| elf2e32: deflate | `e32tools/elf2e32/source/{deflatecompress,inflate,huffman}.cpp` | hash chains, code lengths, decoding trees, circular output buffer | compress, store the code, expand | decompression inverts compression; codes are complete and within the limit |
| Byte pair compression | `e32tools/compress` | counts of bytes and pairs, table, pages | round of the loop, escape, expand with a stack | decompression inverts compression; counts are what is there |
| rombuild: links | `e32tools/rombuild/r_build.cpp` | links of each file, SMP results | version lookup, dependence graph, `ComputeSmpSafe` | one version; capabilities and sides respected; SMP answers right |
| rombuild: relocation, e32image | `e32tools/rombuild/r_build.cpp`, `e32tools/e32image` | image headers, section addresses | relocate, fix up imports, describe exports | addresses resolve to the export that was meant |
| Small e32 tools | `e32tools/*` | none | one pass over a file | - |
| bldmake, makmake | `src/sbsv1_os/e32toolp` | parsed component files | generate makefiles, resolve feature variants | variants resolve by their tree |
| autotest, buildsystem | `autotest`, `buildsystem` | step lists | dispatch build steps | - |
| Production build tools | `productionbldtools` | trees of files | distil source, kits | - |
| leavescan, sysdef tools, romkit, emulator launcher | `src/srcanamdw_os`, `src/bldsystemtools`, `src/imgtools_os`, `src/misccomponents` | none | filters, XSL, data files, process start | - |

How the parts of the EKA2 driver interact. A client thread sends messages to
the *kernel thread* that serves `iDfcQ`; that thread runs the LDD and its DFCs. The
LDD calls the PDD, which stores a command in `iCommand`, releases `iCommThreadSem`
and blocks on `iDriverThreadSem`; the *comm thread* waits for four objects (the
signal event, that semaphore, the write event, the read event), executes the
command in `DriverCommand` and releases `iDriverThreadSem`. Completions go the
other way: the comm thread stores an error in the LDD and queues a DFC. Cancels do
not follow this pattern: they call `DriverCommand` directly in the kernel thread.
The third actor is the nanokernel's timer interrupt, the fourth the host.

In the EKA1 driver the *client's thread* runs the channel's code itself, a *DFC*
preempts it, and the *comm thread* plays the interrupts: it calls the ISRs of the
channel. "Interrupts off" is a critical section that all three take. Requests of an ISR
to the DFC go through a mask (`iDfcRequest`) and a flag that says the DFC is at work
(`iRunningDfc`). Commands go to the comm thread as in EKA2, but from three threads,
the comm thread itself among them.

elf2e32 and efreeze interact through files only: the frozen DEF file (shared, under
version control), the generated one, the image and its import library (each tree's own,
perhaps old). rombuild reads the images and resolves their imports against each other.

The hard behaviours are listed line by line under `hazards` in `PROJECT.json`.

## 2. The modules

| Module | Models | Notes |
|---|---|---|
| `CommLdd` | EKA2 `DChannelComm` | the kernel thread's actions and the timer interrupt; the PDD is abstract: any call may return at any time (`PddReturns`) and the PDD's thread may report anything that was asked of it (`PddEvent`) |
| `CommPdd` | EKA2 `DCommWins` below it | extends `CommLdd`: each kernel action is conjoined with its effect on the PDD; comm thread, host and I/O run beside it |
| `RxQueue` | what a receive buffer promises | abstract: a bounded queue of characters with event flags |
| `CommRxBuf` | EKA1 `CCommRxBuf` | circular array, block counts in info bytes, sequence numbers; implements `RxQueue` |
| `CommEka1` | EKA1 `DChannelComm` with `DCommWins` | three threads, critical section, command slot; counts received characters, whose buffer is `CommRxBuf` |
| `OrdinalRegistry` | what a frozen DEF file promises | abstract: names are appended, ordinals never move |
| `ExportFreeze` | elf2e32's exports and `efreeze.pl` | several trees on one frozen file; implements `OrdinalRegistry` |
| `PagedCompress` | `CBytePairCompress`, paged images | one step per round of the loop and per page |
| `Huffman` | elf2e32's Huffman toolkit | operators: code lengths, canonical code, decoding tree, stored form |
| `Deflate` | `MDeflater`, `CInflater` | one step per turn of a loop; extends `Huffman` |
| `SmpSafe` | `TRomFile::ComputeSmpSafe` | the recursion as a stack of frames, on any graph of links |
| `RomLink` | rombuild's versions, variants, dependence graph | extends `SmpSafe`, which it runs on the graph it builds |
| `MC...` | - | constants and inputs for TLC; `MCCommRxBuf` and no other also has a second definition of an operator, to compare |
| `..._proof` | - | theorems; `CommPdd_proof` has two parts, on the hand-over and on the data; `RomLink_proof` two, on `SmpSafe` and on the ROM |

`CommLdd` is the abstract specification of what the EKA2 LDD assumes of a PDD, and
`CommPdd` the detailed one. `ImplementsLdd` says that every step of the two drivers
together is a step of `CommLdd` or leaves its variables unchanged. The refinement
mapping is the identity, as `CommPdd` extends `CommLdd` and keeps its variables.
`ImplementsRxQueue` maps the circular buffer to the sequence of its unread characters,
`ImplementsRegistry` the DEF file to its names and whether each is absent; both are
step by step refinements, checked as properties of the detailed modules.

### EKA2: state

`pending[k]` stands for the status pointer of kind `k` (`iRxStatus`, ...): the number
of the client's request it points to, 0 for NULL. `last[k]` is the most recent
completion, kept for properties only, as are `cancelReq`, `spare`, `got` and `wire`.
`call` is where the kernel thread is: idle, blocked in a call of the PDD together with
the message it is serving, or between the two halves of a DFC. A DFC is two actions,
`CompleteDfc` and `ClearError`, because the client and the comm thread run between
`Complete` and the reset of the error in `DoCompleteRx`. `TurnaroundTimeout`, the
messages and the controls are one action up to the next blocking call.

In `CommPdd`, `cpc` is the place of the comm thread, `signalled` the set of signalled
event objects, `wrReq` and `rdOut` the outstanding `WriteFile` and `ReadFile`s, `rx` what
the host has buffered. Code between `StartOfInterrupt` and `EndOfInterrupt` is one step,
since it stops the emulator's other threads. `WaitForMultipleObjects` is modelled with
its rule: the lowest signalled index is taken.

Abstractions: data are numbered chunks; one signal line (CTS) stands for the
lines; messages from the client are served at once, since the client's thread blocks
until they are taken; a successful copy from or to the client. The controls that need the
port to be idle are one action, `PortControl`; of `ResetBuffers`, the PDD's part is
`KResetBuffers`, and the history variable `purged` keeps what it threw away.
A host error of `WriteFile` is one value, `LastError`. Framing, overrun and parity
errors are left out: they reach the client by the path of line failures.

### EKA1: state

`CommRxBuf` keeps the fields of the class under their names. `charAt` and `info` are the
two arrays; an info byte is a number whose high half has the flags of an event and whose
low half the length of the block that begins there, `LongMark` for "in the word that
follows". Blocks, words and rescans are computed on these bytes as the code does, and the
sequence numbers wrap. Each operation is one step: `DoDrainRxBuffer`, `PutChar` and
`RescanTerminators` hold interrupts off for the whole call.

In `CommEka1`, `ch` has the channel's fields, `port` those of the port and its two
semaphores, `pc[t]` where each of the three threads is, `ret[t]` where it returns to from a
command, `owner` who has the critical section, `doing` the command that the comm thread
executes. A step runs up to the next place where a thread takes or leaves the critical
section, waits, or reads what it does not hold the lock for. `RunCommThread` called by the
comm thread executes the command there (`reenter`), as the code does. The DFC preempts the
client's thread and is not preempted by it (`ClientRuns`); the comm thread, a thread of the
host, runs beside both. The idle timer, which powers the port down, fires only while the
client's thread is not in the driver: its 20 seconds are longer than any request takes to return.
`KConfigObeyCTS` is set throughout; input is held by XON/XOFF or by RTS.

### Exports: state

`frz` is the frozen DEF file, one for all trees; `gen[t]` the generated one of a tree;
`dll[t]` the table and import library of its last build. `Build` is elf2e32 in frozen or
unfrozen mode on one of the ELF files of `Elfs`; it may fail with missing exports, with
or without leaving its generated file, or crash (section "Disagreements"). `Freeze` is
efreeze with or without `-remove`. Names are numbers in the order of `strcmp`.
`Compared` follows efreeze's comparison entry by entry, since what an entry matches
depends on those before it.

### Compression: state

`PagedCompress` takes an image page by page; a round chooses the most frequent pair and the
least used byte, escapes the byte if need be, replaces, and updates the two tables of counts
as the code does, incrementally. When a page is done it is expanded with the decompressor's
stack and compared. `Deflate` runs `DoDeflateL` position by position with its hash chains
and lazy matches, encodes with the Huffman code of the frequencies, reads the code back from
its stored form and expands into a circular buffer of `MaxDistance` bytes that `ReadL` drains.
Literals, lengths and distances are symbols; their extra bits are kept.

### ROM: state

`rom` has the header of each file and the list in which imports are looked up, `iDeps` the
links `BuildDependenceGraph` makes, `err` the last error. Only a ROM without errors goes on
to `ComputeSmpSafe`, whose calls are the frames of `stack`: the order of calls from outside
is free. The memory model is one without attach processes. A file is never linked to itself:
the code asserts that.

Operators such as `LinkActiveUnsafe` or `TableWithoutAbsents`, which no action uses, are
what a definition might have been by mistake: the mutants in `PROJECT.json` put them in
place of the definition that follows and a property is then violated.

### External code

TDfc, NTimer, `Kern::RequestComplete` and the Windows calls are not in the
repository; they are modelled from how the code uses them and marked external.
`ERequestBreak` has its value in a header that is not here either: the
constant `BreakMask` is the set of completions that number selects as a mask.

## 3. What is checked

| Run | Module | Shows |
|---|---|---|
| `commldd` | `CommLdd` | for any client (reads, writes, turnaround changes, cancels, breaks, port controls, close, delete) and any PDD: a held write is always scheduled, its timer and flag agree, a closed channel is quiet, a new turnaround time releases a held write |
| `serial_turnaround` | `CommPdd` | COM port, no cancels, reads of fixed length and "one or more" with a terminator: a write that completes was sent, once and in order, and it completes when the host does its part; reads return what arrived in order, except what the client purged, and end as they should; the descriptor is written only while its read is outstanding; the comm thread has left the driver before its objects are freed |
| `serial_lines` | `CommPdd` | empty writes waiting for CTS, failing lines, notifications: the synchronous hand-over of commands works, and the drivers refine `CommLdd` |
| `socket_cancel` | `CommPdd` | a socket whose peer takes no data, cancels and breaks at any time: the semaphores conserve hand-overs, the refinement still holds, a cancelled write completes, a close ends |
| `rxbuf` | `CommRxBuf` | every order of insertions, reads and changes of the terminators: implements `RxQueue`; pointers, count and sequence numbers agree; the closed form of a rescan is what its loops compute |
| `eka1` | `CommEka1` | eight kinds of client, each with XON/XOFF and with RTS: no DFC request is forgotten, one thread fills the transmit buffer, a reader and the other side never wait for each other, a write that ended well was sent |
| `export_freeze` | `ExportFreeze` | two trees, any order of builds and freezes, failures and stale files: the frozen file can be read and implements `OrdinalRegistry`, images keep the frozen ordinals, import libraries agree with their images |
| `image_compress` | `PagedCompress` | every image comes back, counts are what is there, replacing finds all that was counted |
| `deflate_image` | `Deflate` | the codes stand for the image, every image comes back, Huffman codes are valid and give rarer symbols no shorter words, the stored form gives the same trees |
| `rom_link` | `RomLink` | for any order of files and calls: one version, links stay on their side with their capabilities, `ComputeSmpSafe` is right in the three ways of section 4 |
| `find_smp_safe`, `find_rescan` | | the two disagreements below |

### Bounds

*EKA2.* At most two requests of each kind, two cancels or controls, three chunks of data, two
changes of CTS. Two writes are needed for one to be released and a second to meet what the
first left; two reads for a flag to reach the wrong one; two cancels to see two surplus
acknowledgements. No property relates three requests of a kind.

*Receive buffer.* Four characters, `LongMark` 3 (15 in the code), words of one byte (4), a
sequence space of 12 (2^32): a block can be longer than the mark, wrap around the end of the
array, and the sequence numbers wrap after a few operations. `RescanAfterLong` is FALSE in
`rxbuf`: after a long length a rescan may hang, which is finding `find_rescan`.

*EKA1.* A buffer of two characters with the marks 0, 1, 1, a transmit buffer and a host buffer
of two, writes of 0 or 3 characters so that a write is filled twice. `Budgets` bounds a
client: two reads and three characters; a read and a write at a time; two writes; a
write while CTS changes; cancels; a reconfiguration. What interacts in the code is in one budget.

*Exports.* Two trees, three names, four ELF files: one name in front of, behind and between
others, and an ELF file that exports nothing.

*Compression.* `PagedCompress`: 7 byte values (256), a table of more than 2 (32) tokens takes
its other form, pages of 16 (4096), a table entry costs 1 (3). The images are those built of
few blocks, which have many rounds and escapes, and all short ones. `StackSize` is 7 (256).
Two relations between these sizes are assumptions of the module, `SizesAssumption`: the stack has a
place for every byte value (`byte_pair.cpp:360`), and an escaped page, of at most two pages' bytes, has
fewer than `Used`, 0xffff, the count that marks a byte as taken (`byte_pair.h:41`, 61: 8192 and 65535).
`Deflate`: 4 literals (256), distances to 4 (4096), lengths 3 to 6 (258), one code per extra
bit (4), code lengths to 3 (27) so that lengths are limited; all images up to ten symbols of two
values, six of three, and one without repetition. The hash of a triple is its first byte, so
that chains hold strings that are different.

*ROMs.* Three kinds of four files each: every graph with at most two links for three of the
files and at most one file not marked; two versions and variants of one name, with and
without UIDs; both sides and three sets of capabilities. Four files are the least with a
cycle, a way into it and a way out.

Deadlock is checked except in the runs of the serial drivers: a client that has used
up its bounds stops, and so does a closed channel. There is no symmetry: requests are numbered
in the order they are made, files and trees have roles in the initial states. Type invariants
that are proved are not checked again by a run.

### Fairness

`CommPdd`: `Fairness` is weak fairness of the kernel thread's unblocking and DFCs, of
the comm thread and of the timer: Windows schedules both threads and the emulator's
tick runs the timer. There is no fairness of the client, nor of data arriving or lines
changing. `FairHostSpec` adds that the host finishes a write, which a COM port does
and a socket's peer need not. The other modules state no fairness. In `CommEka1` the question
"who waits for whom" is asked by `Quiet`, a state in which nothing can move
but the client, the other side or the idle timer. The sequential tools end by their deadlock
check: a state without a next step is one that the specification says is final.

### Disagreements found

Two runs each check one sentence of the source that the code does not keep:

1. `find_smp_safe`: `ComputeSmpSafe` does not keep a safe result that left out a file still
   being computed, but only for the file that met it, not for those between it and the
   active one (`r_build.cpp:2027`). After the outer file is found unsafe, a later call answers
   "safe" for a file in the middle, against the definition at 1965-1970.
2. `find_rescan`: `RescanTerminators` clears the word of a long length but not the mark in
   the info byte (`d_cbuf.cpp:295`, against its comment at 282); the next rescan reads the length
   0 and does not end, with interrupts off.

Others were met while modelling. The definitions named here are in the modules; they are not
among the runs, whose number is kept to the distinct questions.

EKA2:

- `DoCompleteRx` restarts the turnaround timer without cancelling a DFC the interrupt has just
  queued: the held write is sent at once (`serialldd.cpp:579`, `winscomm.h:166`).
- A cancel between the end of a socket read and its report makes the *next* read complete with
  `KErrCancel` (`serialpdd.cpp:1947`, 226).
- The surplus acknowledgement of a cancel breaks the synchronous hand-over; commands are
  overwritten in `iCommand` and lost (`serialpdd.cpp:1113`, 1759).
- A cancel that finds no write queues the completion DFC all the same (`serialpdd.cpp:1886`); it completes
  the next write, which may be held back by the turnaround timer and is sent afterwards
  (`DelayedWriteHasRequest`, so its run has no cancels).
- An empty write waiting for CTS is never completed when CTS fails (`serialpdd.cpp:1613`, 1605).
- `SetConfig`, `ResetBuffers` and `SetReceiveBufferLength` can panic a client that has no request
  outstanding (`serialldd.cpp:428`, 475, 486): `AreAnyPending` looks at flags of the PDD.

So the runs that state the properties these break use clients without
cancels, or a COM port, as their descriptions say; they do not claim more.
`CopyOnlyWhilePending` in particular is stated of a COM port only:
on a socket the read event is also the `FD_READ` event and is signalled without a read.

EKA1:

- The idle timer can find the power requirement down while a write is outstanding
  (`d_comm.cpp:129`, comment at 103; `ActiveWriteKeepsPower`).
- A write can be left outstanding with nothing under way: it leaves its data to the transmit ISR
  that is due (`d_comm.cpp:1022`), and that turn of the ISR is skipped (`d_cdrv.cpp:571`;
  `WriterServed`).
- A cancelled write leaves its requests in the DFC's mask and they complete the next write
  early; `WriteMeansSent` excepts such writes.
- Threads can wait for each other: a request that races the idle timer's power-down suspends
  the comm thread with a command in its slot; `EStop` beside the completion of a write;
  a reconfiguration that purges and sends XON after the port was stopped; `DoDrainRxBuffer`
  sending XON from inside the critical section (`d_comm.cpp:607`); the comm thread, executing a
  command for itself, takes the acknowledgement of another thread's.
- `TCommSeqNum::operator-=` adds, and `operator+`/`operator-` return `*this` unchanged
  (`d_comm.inl`); no caller uses them.

Exports and ROMs:

- efreeze marks an export as absent although the generated file has it, when an absent entry of
  another name has the same ordinal (`efreeze.pl:218`, comment at 228; `LeftMeansNotFound`).
- A missing export "is an error if the mode is UNFROZEN" says the comment at
  `elffilesupplied.cpp:146`; the code at 218 throws unless the mode is unfrozen. An unfrozen build with a missing frozen export shifts the slots of those after
  it, so `DllServesFrozen` and `ImportsMatchTable` are stated of frozen builds.
- elf2e32 dereferences NULL when the ELF file exports nothing, so that it has no export list, and
  all exports of the DEF file are absent (near `elffilesupplied.cpp:306`): `BuildCrashes`.
- `THardwareVariant::MutuallyExclusive` takes a CPU and a variant of it as exclusive
  (`r_build.cpp:51`), so that no version conflict is reported between two such files;
  `OneVersion` excepts them (`Rivals`). `Compare` gives ELess for equal variants.

## 4. What is proved

All for every value of the constants under the named assumptions on their types.

`CommLdd_proof`: `TypeCorrect`, then `DelayedWritesAreScheduled`, `TimerStaysInStep`,
`DelayedWritesHaveDescriptors`, `ShutdownIsQuiet` and the action property
`NewTurnaroundAlwaysReleases`. The inductive invariant is `IInv`. It needs beyond the
properties themselves: that the request waiting for `Start` is one of the client's
(`StartedMsg`, for the type of lengths); which status each blocking call implies
(`CallInv`, so that `StartReturns` cannot reopen a closed channel); and that the write
a turnaround DFC has released is no longer delayed (`ReleasedOnce`, since its return
clears the descriptor). The lemmas about `Enque`, `Dequeue` and `Tail` say that a DFC
stays queued until it runs or is cancelled; the argument for `DelayedWriteScheduled` is
that the only places that stop the timer queue the DFC, and the only place that cancels
the DFC without queuing it again, `DoCompleteRx`, starts the timer.

`CommPdd_proof`: `HandOversBalance` is inductive with the types of three counters. From
it, for a client that does not cancel, no acknowledgement is spare, so at most one
hand-over is under way (`OneHandOver`); `CommandsArriveIntact` and `ThreadLeavesFirst`
follow. With cancels both fail. `ThreadLeavesFirst` is about the use of the objects and not about
the thread: `EDie` signals `iDriverThreadSem` and calls `ExitThread` after it (serialpdd.cpp:1870-1873),
so the destructors may be through while the thread still exists, with `ExitThread`, which touches
nothing of the driver's, as its only step to come. `LddIsImplemented` is the refinement: PddSpec implies
`ImplementsLdd` for every client that does not both cancel and delete (it could leave a comm thread
running after the destructors), if `PddReasons` has the errors the host returns (`ClientAndHost`).
A report of the comm thread is a `PddEvent` only for a kind the client has asked for and while
the channel is being started or is active. So the invariant `RefInv` follows a request from the
kernel thread's call (`Asked`) through the command slot, the pending flags, the outstanding
operations and their events (`PddAsked`), and says when the thread runs (`RunInv`).
By it the theorems about `CommLdd` hold of both drivers together: `DriverKeepsPromises`.

The second part of `CommPdd_proof` says what becomes of the data, for a client that does not cancel and
that does not break with a request number that selects reads or writes (`Calm`); with
cancels the disagreements of section 3 make most of it false. The common argument: a request is at
one stage at a time. `WriteStage` and `ReadStage` say that while the channel is `Live` a write is
held back, or posted to the comm thread, or pending there, or reported and in the queue of DFCs, and at
none of these unless the client waits for it; `ReadIo` says the same of the I/O: a `ReadFile` is
outstanding, or its event is signalled, or the comm thread has taken it. These are shown from
what each step does to a write or a read, whatever else it does: `KernelDoes` for the kernel thread,
`ThreadWrites` and `ThreadReads` for the comm thread and the host.

- `HeldWritesHaveRequests` follows at once, and `DriverNeverPanics` for COM ports: what the PDD
  still has pending belongs to a request that `SetConfig` and the others would have found.
- `WritesMeanSent`: requests are numbered; what has been sent is below what is in `iOutDes` or in the
  outstanding `WriteFile` (`WireInv`), and the result of a `WriteFile` is that of the write which is
  pending (`WriteInv`). Empty writes are excluded as the property excludes them.
- `ReadsStayInOrder`, `CopiesOnlyWhilePending`: what the client got, then what is in `iInDes`
  for it (`Buffered`), then what the port has buffered are one increasing sequence (`StreamInv`). Steps
  move its borders, add a chunk at the end, or give up the middle after an error. When line failures
  are not reported the middle is never given up, so every chunk that arrived is there or was purged
  (`GapInv`).
- `TerminatedReadsEndRight`: `TermInv` says that while a `ReadFile` is outstanding the read wants
  more (`ReadMore`) and what it has fits. It needs that the client asks for no zero length: `InitiateRead`
  has its test for that in a comment (`serialldd.cpp:642`) and `++iReadSoFar == iClientReadLength` is
  then never true, so such a read goes on to a terminator.

The theorems on reads are about COM ports. On a socket `ReadIo` does not hold: the read event is
also `FD_READ`, so a read can be completed that has not begun.

`CommRxBuf_proof`: `TypeCorrect`: info bytes stay bytes and pointers stay in the array
whatever the stored lengths say; `PointersAlwaysAgree`: insertion pointer, removal
pointer, count and sequence numbers agree for every width of the sequence space; and
`UnreadStaysIntact`: no operation overwrites a character still to be read. The
arithmetic modulo `Length` and `2 * SeqHalf` is in lemmas; the invariant of all is `IInv`.

- `BufferIsQueue`: the buffer implements `RxQueue`, for every capacity, word size and width of
  sequence number: what is read, and with which event, is what was inserted. `IInv` is not enough
  for it, as it does not look into the info bytes. `BlockInv` adds that the characters up to
  `LastOffset` are blocks, each ended by a character with flags and with its length at its first
  character (`Framed`), that no event follows, and, until a long length is used, that no other info
  byte has anything in it (`Clean`). The events of the mapping are a recursive function,
  `BlockEnds`; `EndsFound` says that on framed characters it finds the ends of the blocks. Then one
  lemma for each operation says which blocks it leaves (`PutEvent`, `ReadInBlock`,
  `RecountedFacts`) and another what that is of the queue (`PutImplements` and so on). A long length
  lies inside its block (`WordInBlock`), which is why it destroys no event and no other length:
  this rests on the mark being greater than two words (`WordAssumption`), as 15 and 4 are.
- `RescansReturn`: a rescan that meets no long length returns. Each turn of pass 2 goes to the
  start of the next block (`StripStartsAre`).

Both have the hypothesis `~RescanAfterLong`, the instance of `rxbuf`: clients that change the
terminators only while no long length has been used since the buffer was empty. Without it
neither holds, which is the finding of `find_rescan`.

`CommEka1_proof`: `DfcRequestsAlwaysServed`. A test of `iRunningDfc` and the queuing
that depends on it are under the lock, and the DFC clears the flag in the step in which it
has found the mask empty. The inductive invariant `DfcInv` adds that the DFC is not queued
while it runs, and where the DFC can be. The power-down of the idle timer is a DFC that does
not look at the mask (`TimingOut`). The other theorems rest on it and on `AskInv`, which says
what the client's thread was asked for until it begins.

- `OneAlwaysFills`: who fills has set `iFillingTxBuf` (`FillInv`). The idle timer resets it under a
  client that asked while the timer's DFC waited; then the comm thread is suspended, and nobody
  will have the DFC fill before that client's request is through.
- `WritesAlwaysMeanSent`: while all earlier writes ended well, what was sent of the outstanding write,
  what is in the buffer and what is to come make its length, and a request to complete it exists
  only when the latter two are empty (`CleanInv`). No such request is left over when a write begins:
  the client's thread runs only while the DFC is idle or waits; a DFC that waits has looked at
  the requests to complete before (`BeforeFills`), unless it waits in a drain, and then it holds the
  critical section (`SectionInv`), which the write needs. After a cancelled write this fails: its
  requests to the DFC are inherited, and the property excepts it.
- `ReadersAlwaysServed`: a read that waits has more to come than is in the buffer, or a drain is
  pending (`ReadWaits`); RTS is down only with more than the low mark in the buffer and the input
  marked held, so that the next drain puts it up (`RtsInv`), or between `ReceiveIsr`'s two halves, the
  second of which asks for a drain. With XON/XOFF nothing is said, as in the property. A read
  of length 0 completes in the request (`d_comm.cpp:978`) and is not in the model.
- `TypeCorrect`: the buffers stay within their lengths; the number of writes is within the
  budget (`BudgetInv`).

The first three theorems of `RomLink_proof` say how far `ComputeSmpSafe` is right, on every
graph:

- `UnsafeResultsAreReal`: a file found unsafe does link to an unmarked one. The frames of the
  stack are the active files, each the link its caller stands at (`StackAgrees`); an unsafe
  callee thus makes its caller rightly unsafe.
- `AcyclicResultsAreExact`: without cycles every kept result is right. `ExactInv` says that no
  frame ever meets an active file, as the stack would be a cycle, and that the links a frame has
  gone past are safe.
- `SafeUntilFirstUnsafe`: with cycles, and until a first file is unsafe, a safe answer is right.
  `CycleInv` has a set of explored files, all marked, whose links lead to explored files or to files
  on the stack; when the outermost call returns, the set is closed. Finding
  `find_smp_safe` is what happens when the outermost call returns unsafe.

The other three are about every ROM that satisfies `IsRom`: its headers have their types,
every file is listed, and a variant of a CPU lists a variant (TLC asserts it of the ROMs of `rom_link`).

- `VersionsAreDecided`: `OneVersion`. Two candidates of one import have its name, UID and major
  version; when `CheckForVersionConflicts` says nothing they have one minor version or their
  variants exclude each other. The latter cannot be: the importing file's variant runs on both
  (`VariantsMeet`).
- `LinksAreTrusted`: `LinksTrusted`. Every link of a file seen without error is between files
  of one side and does not lose capabilities (`LinkInv`); the set that `LinksTrusted` asks for
  is that of all files with the caller's side and at least its capabilities.
- `SmpAnswersOfRom`: the three results above, of the graph that was built. `RomInv` says that until
  the ROM is linked `ComputeSmpSafe` has not begun; the step that links the last file establishes
  the invariants of the first part, whose lemmas on start and step are used as they are.

`ExportFreeze_proof`, for any trees and names and any finite sets of them that ELF files may
export: `ImplementsOrdinalRegistry` is the refinement, of `OrdinalRegistry` by the two
programs. The inductive invariant `FreezeInv` has, beside the ordinals of the frozen file (`FrzInv`),
that each generated file, however old, has every name once, and that an export it has as absent
is in the frozen file (`GenInv`): so what efreeze finds new is not frozen, and not absent. What a
build writes follows from lemmas about `InOrder` and `ByOrdinal` (the sorts by name and by
ordinal, and choosing some entries, keep and lose nothing else) with the result that whether
the exports are sorted or not, the list is the frozen ones and then the new ones (`SymbolsAreAll`).
efreeze's comparison is a recursive function, reached by induction on the entries (`NewSoFar`).

- `AlwaysReadable`, `ImagesServeFrozen`, `ImportsReachTable` follow from `FreezeInv`.
- `ToolsNumberAlike` states `FreezeKeepsNumbers`. A generated file is fresh while nobody has changed
  the frozen one; then its entries are some frozen ones, with their ordinals, and the new ones, numbered
  on (`Agreeing`), and efreeze finds the first and numbers the rest as they are (`AlikeSoFar`). This
  holds with `-remove` and after a build that misses frozen exports too.

`PagedCompress_proof`, for any byte values, sizes that satisfy `SizesAssumption`, images and either
compression speed. The data of a page are a sequence of *units*: a byte that is not the marker, or the
marker and the byte it escapes; `stream` is their concatenation. The inductive invariant `IInv` says, of
a page in its rounds, that there are units `us`, a meaning `W` of the bytes and a rank `R`
with these parts:

- `UnitsInv`: `stream` and the pair counts are those of `us`; the count of a byte not yet used is how
  often it is a unit of its own (`Alone`); while a byte with count 0 is left, nothing is escaped. The
  last explains why a round that need not escape its token never looks for the marker
  (`byte_pair.cpp:175`): such a token has count 0, and tokens are taken from the least count on.
- `UsedInv`, `MeaningInv`: the marker, tokens and their pairs have the count `Used`; every token means
  what its pair means, a byte that is no token means itself, and a token ranks above its pair.
- `CostInv`: the data and the table fit into the page and a byte; `overhead` is what the next entry of
  the table costs, where the table turns into a bit mask too.
- and the value of `us` under `W` is the page.

A round maps units to units, from the end of the page backwards (`IsRewrite`). It keeps their value
under the new meaning (`RewriteValue`), makes the data shorter by what was promised
(`RewriteLength`), and the count of other bytes stays (`RewriteAlone`). That pairs are counted alike
by the count from the beginning and while writing, with the rule that of three equal bytes only the
first two are a pair, is an agreement of two recursive functions over units (`CountsSame`).

- `PagesRoundTrip`: `RoundTrip`. The decompressor is a recursive function too. `IsOnCourse` is its
  invariant: what it has written, then what its stack expands to, then the value of the units still
  to be read, is the page. The rank bounds the stack by the number of tokens; twice the bytes written and the
  stack (`Progress`) grow with every turn, which bounds the turns; so it neither fails nor runs out of them.
- `CountsAlwaysAgree`, `RoundsFindAllCounted`: `CountsAgree` and `FindsAllCounted`, which the code asserts
  when a page is written.
- `PagesNeverLarger`: a page takes at most its bytes and an empty table, although a first escape of
  the marker may make it longer before the first round.

`Deflate_proof`, for every image, hash function and history, and any number of codes per extra bit:
`CodesStandForImage` states `CodesCover`, in the end that what was emitted is the whole image. The
inductive invariant is `DInv`:

- `StandsFor`: the expansion of the codes ends in a state. Its lemmas say what one more literal, number
  or segment does to the state (`StandsForLiteral`, `StandsForNumber`, `StandsForSegment`). A number
  comes back from its code and extra bits (`NumberBack`), and the code of a length stays
  below the end marker as greater numbers have greater codes (`CodesGrow`).
- `HashOk`: of every position in the last `MaxDistance` the link leads to a position of the image, or
  too far. It is why a chain stays in the image (`ChainIn`), and why it never reads a slot of
  `iOffset` that was not written, which the code allocates without initialising it
  (`deflatecompress.cpp:153`). The step to the slot of the position itself, `MaxDistance` back, ends
  the chain.
- `Waiting`: the match kept for a turn is one of the position before (`IsMatch`).

`RepeatIs` says that a segment that reaches into itself, read back, is the string it was found for. A segment
that is emitted enters the positions under it in the hash, but not those too near to the end; `HashOk`
holds again only if the loop goes on, which is when none was left out.

Only model-checked: liveness and `ENABLED`; `RescanAsLooped`, which compares with loops written
as recursive functions in `MCCommRxBuf`; the reads of a socket, and clients that cancel; and
the way of the deflated codes through Huffman coding and the inflater (`RoundTrip`, `TreesAgree`).
The library's induction theorems cannot be used with the provers at hand; where a
proof needed induction over a recursive function it was done by a least counterexample
(`LeastNatural`, `Induct`), and where a function is defined by recursion, that it exists, by the same
means (`RecExists`, `IterExists`).

## 5. Plan

Done: sections 2 to 4. Next, in this order:

1. `RomLink`: attach processes; then `FixupImports` with `AddressFromOrdinal`, and the
   export description of e32image and elf2e32 (full and sparse bitmaps of the absent exports).
2. `CommEka1`: DSR, DCD and line failures; composition with `CommRxBuf` in place of the count.
3. `FeatureVariant`: variant resolution of bldmake.
4. Proof of `RoundTrip` of `Deflate`: the codes are known to stand for the image; left are the words
   of the Huffman code, the circular buffer and, by induction over trees of lengths, `TreesAgree`.

## 6. Not modelled

*EKA2.* Controls that only query, the lines that `SetSignals` sets, translation of the
configuration to a DCB, start-up of winsock, the host's handles, logging; the commands of the PDD
that its LDD never issues (`EStopNoDrain`, `ESetBreak`, `EClearBreak`).

*EKA1.* `ObeyXoff`, DSR and DCD, line failures, early completion of writes, emergency power-down,
notifications, the socket variant, the destructor.

*Exports.* The filters for custom DLLs, `excludeunwanted` and exports that are not callable, sizes of
data exports, `R3UNUSED`, lookup by name, the bitmap of absent exports.

*ROM.* Attach processes, fixing up of imports (`FixupImports`, `AddressFromOrdinal`), relocation.
The sources of rombuild that lay out the ROM, build its directory and read the obey file are
not in this repository. In `BuildDependenceGraph`, `InstallAttachProcess` leaves a NULL in
`iDeps` when the attach process is also linked explicitly (near `r_build.cpp:1699`, 1770).

*Compression.* The file formats around the compressed data; the read-in of an image.

*Other components.* See `components` in `PROJECT.json`: string processing (leavescan, the generators
of makefiles), XML transformations, data files and plain I/O have no state whose
interleaving or history could be wrong. autotest dispatches its steps in
sequence; its `iTestSuiteFailed` is initialised to ETrue and never cleared, so that `ExecuteL`
returns 84 always, against its comment "KErrNone if all tests passed".
