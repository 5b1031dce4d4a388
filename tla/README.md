# A verification project for BareMetal OS

BareMetal OS (with neoedmund's changes) is a single-address-space exokernel in
x86-64 assembly: a boot loader (`src/pure64`), a kernel (`src/bmos`), a small C
library (`src/std`), a memory tester (`src/memtest64`) and a memory allocator
(`src/pw_mem`) that are linked into it. This directory holds TLA+ modules of its
parts, the TLC configurations that check them on small instances, and theorems
about them that TLAPS has checked for every value of the constants.

All paths below are relative to the root of the repository.

## 1. Inventory

| Component | State it keeps | Operations | Talks to |
|---|---|---|---|
| Workload queue (`bmos/syscalls/smp.asm`) | `cpuqueue`, `cpuqueuestart`, `cpuqueuefinish`, `os_QueueLen`, `os_QueueLock` | `os_smp_enqueue`, `os_smp_dequeue`, `os_smp_lock`, `os_smp_unlock`, `os_smp_queuelen` | every core; sends wake-ups |
| Cores (`bmos/kernel64.asm`) | `cpustatus`, where each core is | `ap_clear`, `ap_spin`, `ap_halt`, `ap_process`; `os_smp_wait`, `os_smp_wakeup(_all)`, `os_smp_reset` | the queue, interrupts |
| Interrupts and exceptions (`bmos/interrupt.asm`) | `os_ClockCallback`, `os_NetworkCallback`, the stack of what they interrupt | `keyboard`, `rtc`, `network`, `ap_wakeup`, `ap_reset`, 20 exception gates | all |
| Page allocator (`bmos/syscalls/memory.asm`) | `os_MemoryMap`, `os_MemAmount` | `os_mem_allocate`, `os_mem_release`, `os_mem_get_free`, `init_memory_map` | exceptions rebuild the map |
| Input and screen (`bmos/syscalls/input.asm`, `screen.asm`) | `key`, `key_shift`, the cursor, the screen buffer | `os_input`, `os_input_key`, `os_output*`, cursor moves, scroll | keyboard interrupt |
| Ethernet (`bmos/syscalls/ethernet.asm`, `bmos/drivers/net`) | `os_EthernetBuffer`, descriptors, `os_EthernetBusyLock`, counters | `os_ethernet_tx`, `os_ethernet_rx`, poll, acknowledge | network interrupt, the card |
| BMFS (`bmos/drivers/filesystems/bmfs.asm`) | directory, `os_filehandlers` | open, close, read, write, query, delete, block read and write | AHCI driver |
| AHCI (`bmos/drivers/storage/ahci.asm`) | command list and table | `readsectors`, `writesectors`, identify | the disk |
| Command line (`bmos/cli.asm`, `misc.asm`, `string.asm`) | command string, arguments | read a line, parse, load a program, run it | input, BMFS, system calls |
| pw_mem (`pw_mem/*.c`) | headers and footers in the memory itself | `alloc`, `enlarge`, `free`; format and reserve from the E820 map | boot loader's E820 table |
| memtest64 (`memtest64/memtest.c`) | the parts of memory, the chunk in hand | cut off, write, verify, report | E820 table, keyboard |
| C library (`std/stdio.c`, `bmos/libBareMetal.c`) | none | `printf`, `sprintf`, `exit`, wrappers of the kernel's calls | screen, the kernel |
| pure64 (`pure64/`) | E820 table, memory amount, ACPI findings | start-up in sequence | BIOS |

What is hard about this system:

* **Concurrency.** Cores share the queue, the page map, the status bytes and
  the screen; only the queue and the sending of packets take a lock.
* **Interrupts.** They arrive between any two instructions, with whatever
  direction flag is set, and two of them rewrite the interrupted stack so that
  a program's callback runs after the handler, with interrupts enabled.
* **Wake-ups.** A core stops with `hlt` after a test made without a lock.
* **Faults.** An exception ends what ran, rebuilds the page map and turns the
  core into a worker, whatever else was going on.
* **Layout in memory.** pw_mem finds its blocks by words next to user data.

`PROJECT.json` lists the hazards at their lines, and the properties for each.
What makes each component correct:

* queue: mutual exclusion, ring and length agree, a FIFO, the lock is released;
* cores: a workload runs at most once and is not lost, status bytes that tell
  the truth, queued work is run, `os_smp_wait` ends and covers what it says;
* page allocator: no page is lost, a page has one owner, the map tells who, failure means full;
* pw_mem: only usable memory is given out, blocks tile it, what is held is not free
  and not touched, failure means full and changes nothing, what is freed comes back;
* callbacks: what was interrupted is resumed as it was, to any depth;
* console: the line the user edits is the line shown and the line the program gets;
* Ethernet: a packet that is handed up is whole, once and in order; what a program is
  told of, it is told of once; the wire carries what was given to be sent, and the
  lock comes free;
* BMFS and the command line: the open flags tell who has a handle, a read brings the
  file, and what is called is the program that was typed;
* memtest64: what is usable is tested, a report leads to a faulty word, what is missed is
  known, and the test ends;
* printf: what is put out is what C means by the format, and the format is not left.

Starting up other cores is commented out in the boot loader at this commit
(`pure64/linuxBoot.s:567-577`), while the kernel keeps the whole SMP interface in
its call table (`bmos/kernel64.asm:27-48`). The modules of the queue, the cores and
the page map take the set of cores as a constant: they describe the kernel as
written, on any number of cores.

## 2. Modules

| Module | What it is | Checked by | Proved in |
|---|---|---|---|
| `WorkFifo` | what enqueue and dequeue promise: one bounded FIFO, each operation at one instant | as a property of `SmpQueue`; part of `Smp` | |
| `SmpQueue` | ring, cursors, length and spin lock, one action per access to shared memory | `queue` | `KernelProofs` |
| `Smp` | the loop of every core, wake-up interrupts, `os_smp_wait`, exceptions, over the FIFO of `WorkFifo` | `cores`, `cores_without_keys` | `SmpProofs` |
| `PageMap` | the page allocator, one action per byte of the map | `pages` | `MemoryProofs` |
| `Heap` | pw_mem's `alloc`, `enlarge`, `free`, memory word by word | through `Mm` | `HeapProofs` |
| `Mm` | the command `mm`: E820 table, reserve, format, and its test of the allocator, over `Heap` | `heap`, `heap_stale_prev` (through `MCHeap`) | `HeapProofs` |
| `IrqFrame` | `rtc` and `network` with the stack they rewrite, callbacks that nest | `callbacks`, `callbacks_backwards` | `KernelProofs` |
| `Console` | keyboard interrupt, `os_input` and `os_input_key`, the text screen they echo on | `console` (through `MCConsole`) | `ConsoleProofs` |
| `NetRx` | receiving packets: card, network interrupt with its drivers, `os_ethernet_rx` | through `NetTx` | `NetProofs` |
| `NetTx` | sending packets: `os_ethernet_tx`, its lock, the drivers' descriptor, callbacks that send; both sides interleaved in one specification | `ethernet` (through `MCNet`) | `NetProofs` |
| `MemTest` | memtest64: the table, the parts, writing and verifying by chunks, the reports | `memtest` (through `MCMemTest`) | `MemoryProofs` |
| `Bmfs` | the file system under its users: the command line that loads programs, and programs on several cores | through `Programs` | `ProgramsProofs` |
| `Clib` | `printf` and `sprintf`: from format and arguments to characters | through `Programs` | `ProgramsProofs` |
| `Programs` | what programs do between start and return: they print (`Clib`), and use files (`Bmfs`) | `programs` (through `MCPrograms`) | |
| `Numbers` | lemmas on natural numbers and on functions defined by recursion, for the proofs | | itself |

**WorkFifo and SmpQueue.** A core inside one of the two functions has a program
counter in `pc`; the header of `SmpQueue` lists them with the instructions they
stand for. Registers that matter are `item` (the workload). `os_QueueLock`,
`os_QueueLen`, `cpuqueuestart`, `cpuqueuefinish`, `cpuqueue` keep their names.
`WorkFifo` has no lock, cursor or length: an operation in progress takes effect
once, between call and return, and `FifoSpec` says that `SmpQueue` does that under
the mapping `AbsFifo`, `AbsPhase`, `AbsItem`. The operation takes effect where
`os_QueueLen` changes (`smp.asm:125`, `:184`), because that is the word others read
without the lock, and on the failing paths where it is compared.

**Smp** composes the cores with that FIFO instead of the ring: `SmpQueue`
implements it, and `os_QueueLen` is its length. `loc` is where a core is in
`kernel64.asm`, `cpustatus` its byte, `ipi` the wake-ups under way. The BSP starts in the
CLI's program, the others in `ap_clear`. Workloads are enqueued by the program and
by other workloads, and an exception may end either. `hlt` is a location of its
own, before it an interrupt is taken and forgotten, after it the interrupt
moves the core on. `fresh`, `ended` and `awaited` record where the workloads have
been; the code does not have them.

**PageMap** reads and writes `os_MemoryMap` one byte per action, as `lodsb` and `rep
stosb` do. `at` is RSI, then RDI; `left` is RBX, then the bytes marked. `owned` is who has
been given what. `MappedPages` is the 16-bit count of `init_memory_map`, `NumPages` the
32-bit count of `os_mem_allocate`. Calls may overlap at
any byte, and an exception may come to any program. The code has no lock, and `init_memory_map` gives the pages of all programs
away, so that a page may then have two owners; `clashed` remembers that calls have overlapped or that a program has faulted
while another had pages. What holds only until then says so in the property; that the map loses no page and that nobody gets the kernel's
(`NothingLeaks`, the first part of `MapTellsOwners`) holds in any case. A release (`rep stosb`) is one action: half way through it,
it has released fewer pages, which is a step of its own.

**Heap** holds in `mem` the words that the allocator has written and no program
has overwritten, by address, so that stale headers and footers stay where the
code leaves them. A program's own words read as 0 and are no signature. A block
without signature reads as 0 and ignores writes, as `checkSignature` with its dummy
memory makes it. `live` is what programs hold. `e820` is the list of slots the allocator
has been given. The walk of `alloc` over the blocks is `List`, made block by block with `Longer`: at
most as many blocks as memory has signatures, so that it is defined in every state; that no
block is left out because of it is part of what is proved (`ChainShort`).

**Mm** makes that list. `table` is what lies at 0x4000 and above, slot by slot: the boot loader's E820
table, its terminator, and the records of the infomap behind it, since `initE820Arr` skips whatever
begins below 1 MiB and so walks past the terminator, whose address is 0. `initE820Arr`,
`reserve` and `Formatted` (slot by slot, `FormatSlot`) are the functions of that name; `TooManySlots`, `TooSmall` and
`mm_main_refused` are their ways into `exit`. The test is a list of calls with `p` as its
pointers, and a call that uses the answer 0 faults (`TestFault`). `mm_inited` starts as 1, as in
the code. With the tables outside `ForTest` the test is skipped and programs take its place. Of the tables
`TablesEnd` assumes that they stop where the walk stops, at the first record from 1 MiB on that is marked 0, and `TablesApart`
that usable slots begin and end at whole words and neither overlap nor touch: the allocator recognizes a neighbour by its
address alone, and would merge blocks over the seam of two slots that touch.

**IrqFrame** is one core, its stack word by word, with the processor's part
(delivery with alignment, `iretq`, string instructions under the direction
flag) as operators on a record of the machine, and each handler as the
sequence of its instructions. A handler is one action, since interrupts are
disabled in it; the callbacks are not. `interrupted` remembers the state each
callback must bring back.

**Console** is the BSP reading a line. `key`, `key_shift` keep their names; `term` is the screen's cells
with `screen_cursor_x` and `screen_cursor_y`; `pc` is where `os_input` is, with an action for each
instruction between which the interrupt can change something: the load of `key` and the later
store of 0 are two actions, and so are reaching `hlt` and stopping in it. The screen's functions run to
completion, since no interrupt handler prints. `pressed` and `taken` record the keys; the code
does not have them. That a key is lost when it comes between load and store, or before
the one before it was taken, is how the code works with its one byte; `KeysInOrder` says
what is left of the order. Of a key the layout tables give a code, and `Printable` is the set of those that `os_input` takes for
a character (32 to 126, `input.asm:37`); `keydown` does not check the scan code, so that keys beyond the tables'
59 entries give whatever lies behind them, and `GotOther` ignores it. An interrupt that comes between the last test of `key` and `hlt` is
forgotten, and the key waits for the clock.

**NetRx** has three parties: the card (external: it keeps a few packets, fills its descriptor, sets
interrupt causes), the handler on the BSP (`irq`), and programs in `os_ethernet_rx` (`pc`), one of which
is on the BSP and stands still while the handler runs. `len` and `slot` are `os_EthernetBuffer`; a
packet is two halves at most, each known by the packet's number, and a length is named by the
packet it is the length of, so that a mixture can be told from a packet. `filled` is `RDH` of the 8254x. The
causes keep their bit numbers, because acknowledging is a translation of bits. Reading ICR
is one action, reading and writing back ISR are two. `card` is chosen at the start and never changes. No
callback is set; what a callback does to the stack is `IrqFrame`.

**NetTx** adds the senders: the programs and a callback, which may begin at any instruction of the
program on the BSP and keeps it standing still. `at` is where each is in `os_ethernet_tx` and
the driver, one action per store the card can see: address, then size, TDH and TDT on the 8254x; size, then
address and OWN, and the loop that waits, on the 8169. The card reads the descriptor and, later, the packet in
the sender's memory; `content` is the number of the call the packet was made for. `given` is what was
accepted, in the order of the lock, `wire` what was sent. `careless` records that the descriptor, or a packet it
points to, was written while it was the card's. `EthernetNext` interleaves both sides step by step. They share the
processor of the BSP (the handler stops programs and callbacks there, a callback stops a program that receives as well as one that
sends), the programs, each in one function at a time, and the interrupt causes: a packet that has been sent (`CardSends`) sets the card's
cause (`CardHasSent`), which the handler reads and acknowledges together with those of packets that have come. What a card does
when TDH is written while it is sending is not documented in the repository; here it
finishes and advances the head.

**MemTest** has memory byte by byte, each holding ones, zeros or what was there, and some bytes stuck at
one of the two. `FreeMemArr` is the list of parts, `part`, `step`, `cnt` are where `doTestMem` is: write ones,
verify, write zeros, verify. A chunk is one action, with `rep stosq` or `repe scasq` in it; nothing
else runs during a test. `VerifyU64` answers how many words `repe scasq` has not looked at, as the code does; the address that `VerifyUnit` makes of it is the word
behind the faulty one, as in the code. Addresses and
totals are shown as digits, made by `Long2Hex` and `Long2Dec`. `walked` records what has been verified. The command can be
given again: the list of parts is static.

**Bmfs** takes a call of the file system as one step, and blocks of 2 MiB as units: `ram` says for
each block of memory which block of the disk it holds. `filehandlers` keeps its name; a handle is a file's number and
10. The command line's open, read, close and call are four steps, between which programs on other cores
open, read, close and write. `held` records who was given which handle. A program never
closes a handle that is another's, but may close 0, one of its own twice, or a number out of range.

**Clib** has the characters of a format in `memory`, with others behind its end, `format` as the pointer in it
and one round of `print`'s loop as a step. `Format` and `PrintsWhatIsMeant` come from the other side: a program
writes a format piece by piece, and what each piece means is said without a pointer. `Meaning` is what C means by a
conversion, with the sign of `%d` and `%ld`, and with 0 having no effect where there is a -. Where `stdio.c` does otherwise, `AsInC`
is false: its code for signs is commented out (`stdio.c:84-87`), and it pads with zeros on the right.

**Programs** puts the two together: a behaviour prints first and uses files then; the two share no state.

## 3. Runs

| Run | Instance | What it shows |
|---|---|---|
| `queue` | 3 cores, 2 workloads, ring of 2 | `QueueMutex`, `RingConsistent`, `LockReleased`, refinement `FifoSpec`, 220 thousand states. Three cores: two meet at the lock while a third spins. A ring of two fills, empties and wraps. |
| `cores` | 3 cores, 2 workloads, queue of 1, 4 status bytes | `RunAtMostOnce`, `StatusTellsTruth`, `WaitCoversBusy`, and with keys being pressed `WaitEnds` and `WorkIsRun`. The queue of 1 makes refusals happen; one status byte belongs to no core. |
| `cores_without_keys` | the same | violation of `WorkIsRun` |
| `pages` | 2 callers, 6 pages, requests up to 2; calls overlap and exceptions come at any time | `NoDoubleGrant`, `MapTellsOwners`, `FailsOnlyWhenNoRun`, 1.46 million states. Six pages leave holes between runs of different owners. Both searches can find the same run, and an exception can come between two bytes of a marking. |
| `heap` | 8 tables: for programs, slots of four least blocks and a half and of two, sizes 70 and 210; four for the test of `mm`, sizes 80 and 160; a slot that is all the kernel's, one too small, one too many | `HeldIsInUse`, `BlocksTile`, `OnlyUsableMemory`, `AllComesBack`, `FailsOnlyWhenFull`, 64 thousand states. The first slot makes every merge and every branch of `enlarge` happen; the sizes are not multiples of 8. The tables for the test leave room for all of it, for all but the last call, and for none of it. |
| `heap_stale_prev` | the same, data written at once | violation of `HeldIsNotFree` |
| `callbacks` | stack of 84 words, 3 callbacks deep | `StacksKept`, `ResumesIntact`. Three deep: one of each kind and one interrupted by its own kind. |
| `callbacks_backwards` | the same, direction flag free | violation of `PicksUpBack` |
| `console` | 3 rows of 2 columns, lines of 3, 4 keys pressed, 1 character printed; five keys: 5 (with shift %), Enter, Backspace, F1, and F7 with its code from behind the table | `EchoMatches`, `LineIsEdit`, `KeysInOrder`, and under `ConsoleFairSpec` `KeyIsTaken`, 766 thousand states. Lines wrap and scroll; four keys are a full line and its end, or a backspace over a line end; the character printed moves the column the line starts at; shift makes a character of one key and a code that is ignored of another. |
| `ethernet` | either card, 2 programs and a callback; 3 packets come in and none is sent, 2 and 1, or 1 and 2 (`MaxTraffic`); packets long, short, long; room for 2 on the card; a sender gives 60 bytes, another 1522, the callback 100 or 1523 | `HandedUp`, `WholeUnlessDisturbed`, `NeverOlder`, `ToldOnce`, `SentAsGiven`, and under `EthernetFairSpec` `KeptIsPolled` and `BusyLockReleased`, 206 thousand states. Three packets: one being received, one in the handler, one at the card; the third may find no room. Two calls: the second finds the card at every point of the first, or its lock, and an interrupt stops the holder. The lengths are two that are padded or not, the longest, and one too long. |
| `memtest` | 5 tables, words of 2 bytes, 2 chunks to a part, up to 2 faulty bytes, a list of 3 parts, the command given twice | `TestsWhatIsUsable`, `ReportsLocateFaults`, `MissesLittle`, and under `MemTestFairSpec` `MemtestEnds`, 66 thousand states. The slots end at, cross and begin above the first tested address; the parts have a rest that is no word; one table has a slot too many. Two faulty bytes fall into one word, one chunk or two. |
| `programs` | 3 directory entries with one unused, blocks of 4 bytes, files of 3 and 5, a loaded program and a workload, counts 0, 3 and 5; every format of one conversion, alone or before 7 others, and formats cut short; an `unsigned int` of 8 bits and a long of 16 | `PrintsWhatIsMeant`, `StaysInFormat`, `FlagsTellHolders`, `RunsWhatWasTyped`, `RefusesForReason`, `ReadsGetTheFile`, 229 thousand states. One file takes two blocks of which the second is not full, and the next lies right behind it. |

Bounds that are not in the code: `MaxRequest`, `Sizes`, `MaxNest`, `MaxKeys`, `MaxPrints`, `MaxCalls`, `MaxTraffic`, `MaxFaulty`, `CardRoom`, `Counts`, `Names`, `Lengths`, the packets, the tables, the directories, the formats
with their arguments, and the sets of cores, workloads and callers. Constants with smaller values than the code's are the ring
size, the number of pages, the 16-bit page count, the length of the status table, and
`MinAddr`, `MaxKernel`, `Small` and `Large` of `Mm`, `Under2M`, `WordSize`, `Chunks` and
`PageLines` of `MemTest`, `NumFiles` and `BlockSize` of `Bmfs`, and `IntLimit` and `LongLimit`, the numbers of
values of an `unsigned int` and of an unsigned 64-bit number, of `Clib`. The `heap` run explores states up to and including the first
free that was misled (`CONSTRAINT NotMisled`); after that nothing is promised, which is what
`heap_stale_prev` is about. Deadlock is checked in every run but
`callbacks_backwards`, whose last state is a core that has left the code.

**Fairness.** `QueueFairSpec`: a core inside the queue's functions keeps executing;
spinning is not a step, since the test of a set lock changes nothing. Whether a
certain core gets the lock is not promised by the code, and no property says
so. `SmpFairSpec`: each core executes its instructions, an IPI that was sent
arrives, a workload that runs comes to an end, and the clock ticks, on the BSP
alone, as the PIC delivers it. `SmpKeysFairSpec` adds somebody who presses keys, which
is what the "terrible hack" of `interrupt.asm:93` relies on. Programs need not enqueue,
wait or fault: nothing fair is asked of them. `ConsoleFairSpec`: `os_input` executes its instructions, and
the clock ends a `hlt` when no key does. Nobody need press a key. `EthernetFairSpec`: the card uses a
descriptor it has been given and sends what it has read, its interrupt is delivered, the handler runs to its end, a callback
ends, and a program inside the transmission executes an instruction now and again: both however often an interrupt or a
callback stops them, since interrupts come one at a time with time between them (this needs strong fairness). Programs need neither receive nor send, and
who gets the lock is open. `MemTestFairSpec`: the command executes its steps, and the key it waits for after a
page of output is pressed.

## 4. What the violations say

1. **Lost wake-up** (`cores_without_keys`). `ap_spin` finds the queue empty; before `hlt` another
   core enqueues and its IPI arrives; the handler acknowledges it; `hlt` waits for
   the next interrupt, which on an application core never comes by itself. An
   interrupt-safe form is to test with interrupts disabled and `sti; hlt`.
2. **Stale previous pointer** (`heap_stale_prev`). `free` decides to merge by a pointer and
   merges by a footer; the two may mean different blocks.
3. **Clock interrupt with the direction flag set** (`callbacks_backwards`). `rtc` has no `cld`; `os_mem_allocate` runs
   with `std`.

The modules also hold behaviour that the properties are stated around. No document of the repository excludes it, but for
the first item, and no run is about it. Who uses this code should know it:

* `os_bmfs_file_read` sets ECX to 0 when it cannot read, and then pops the caller's RCX over it, so that it answers the count it
  was asked for, whatever it did; `os_bmfs_file_write`, which writes nothing, answers so too. The comments say
  "RCX = Number of bytes read" (`bmfs.asm:125`) and "written" (`bmfs.asm:192`). `Bmfs` has the answer of the code, and no property rests on it.
* `os_smp_wait` does not wait for a workload that a core has dequeued and not yet marked Busy
  (`smp.asm:242`, `kernel64.asm:145`). `WaitCoversBusy` says what it does wait for.
* The driver of the RTL8169 shifts the receive bit out of the place where the network handler looks for it
  (`rtl8169.asm:257`, `interrupt.asm:192`): what this card receives is never handed up. `KeptIsPolled` is about the 8254x.
* The driver of the 8254x writes its one descriptor and resets the head without asking whether the card is done, and returns
  before the packet has been read (`i8254x.asm:187-199`). `SentAsGiven` excludes those who send that early (`careless`).
* A callback that sends, when it has interrupted a program that holds the lock of `os_ethernet_tx`, waits for ever
  (`ethernet.asm:64`). `BusyLockReleased` says that this is the only way.
* `keydown` looks a scan code up without a check that the table has it (`interrupt.asm:71`; the tables of
  `sysvar.asm:153` have 59 entries): function keys and the keypad give what lies behind. `os_input` ignores codes that are no
  characters; those that are, it takes.
* `memtest` shows the address of the word behind a faulty one (`memtest.c:310`), where its other branch, which is not compiled, shows the word's own
  (`memtest.c:333`). `ReportsLocateFaults` says that the word before the address is faulty.
* `memtest` takes a difference in the last word of a chunk for none, parts of 100 to 199 words have chunks of
  one word, and a part of 8 to 799 bytes is never finished (`memtest.c:233`, `:307`).
  `MissesLittle` and `MemtestEnds` say which those are.
* `mm` walks past the terminator of the E820 table into what the loader keeps behind it, because it skips low
  addresses first (`Lv0Neos.c:88`); its test uses the answers of `alloc` unseen, and
  frees address 0 on a small machine (`:144`). A slot that is wholly below 10 MiB, or is cut to less than a
  block, ends the command.
* The open flag is tested and set without a lock, nor has AHCI one.
  What a program leaves open stays open and cannot be run again; an empty name opens an unused entry; the command line
  loads no more than the first block of a program.
* `%d` and `%ld` print a number with the sign bit as unsigned (`stdio.c:84-87`), `-0` pads with zeros on the right, `sprintf` ends nothing with a NUL, and a format that ends
  behind `-`, a width or `l` is read past its end (`stdio.c:121`).
* `os_mem_allocate` gives the same pages to two programs whose calls overlap (`memory.asm:43`), and every exception marks the pages of all
  other programs as free (`interrupt.asm:490`). `NoDoubleGrant` and `MapTellsOwners` say what holds until
  one of the two has happened, and `MapTellsOwners` also what holds always.
* `os_mem_allocate`, `mm` and `memtest` each take memory for their own without knowing of the others.

## 5. What is proved

`KernelProofs` on the workload queue, for every set of cores and workloads and every ring size:
`QueueTypeCorrect`, `QueueLockExcludes`, `QueueRingConsistent` and `QueueImplementsFifo`. None of the three invariants is inductive alone. The
inductive one is `QueueInv`: type correctness, mutual exclusion, `RingConsistent`, and what the holder
of the lock has learnt (`HolderKnows`: past `enq_check` the ring is not full, past `deq_check` not empty, at
`deq_len` the register holds the oldest entry; `ItemKnown`: a core that enqueues has a workload). `HolderKnows` is
preserved because only the holder changes what it speaks of. Wrapping is handled
by three lemmas on `Wrap`: it stays in the ring, adding before or after it makes no difference, and it is
injective on `cpuqueuemax` consecutive indices. The refinement follows step by step: store and
load, lock and cursor steps leave the abstract queue alone (`FifoUntouched`, `FifoSame`), the change of the length
appends (`FifoAppends`) or takes the head (`FifoShrinks`). Assumed: `QueueAssumption` (a ring of at least one entry; 0 is no workload).

`SmpProofs`, for every finite number of cores, every set of workloads, and every size of the queue and of the status table,
from `SmpAssumption`: `SmpTypeCorrect`, `WorkIsInOnePlace` (`RunAtMostOnce`), `StatusIsTrue` (`StatusTellsTruth`) and
`WaitIsKept` (`WaitCoversBusy`). The inductive invariant is `SmpInv`. `RunAtMostOnce` counts the
places of a workload; that is not inductive, and awkward for a prover, so `SmpInv` says it twice without
counting: every workload is somewhere (`SomePlace`) and in no two places (`NoTwoPlaces`). `PhaseFits` and
`WorkFits` tie the place a core is in to what it does with the queue and to the workload it has; without them a core could
finish a call of the queue it never began. `WaitKnows` is what makes the scan of `os_smp_wait` sound: a workload
it was called for is over, or runs on a core whose byte it has still to read. It holds because a core
that has been passed over was not Busy, which by `StatusTellsTruth` means that it ran nothing.
`BspWaits` is needed for the case of an exception: only the BSP's program waits.

`MemoryProofs` on the page allocator, for every amount of memory, every 16-bit limit and any number of callers,
whose calls may overlap and any of which may fault at any time: `PageTypeCorrect`, `PagesGrantedOnce`, `PagesAccountedFor`, `FailureMeansNoRun`, `NoPageLost`.
`NoDoubleGrant`, `FailsOnlyWhenNoRun` and the second part of `MapTellsOwners` (`OwnersMarked`) are stated until programs clash, and so is the
inductive invariant behind them: `~ clashed => PageInv`. `NoPageLost` (`NothingLeaks`, the first part) and `PageTypeCorrect` hold without a condition: from
where a search or a marking can be, whatever others do to the map (`WithinMap`), a byte can say 2 only for somebody. The invariant `PageInv` adds to the run's properties: one
caller is inside the functions at a time (`OneCall`), the pages counted so far are free and
contiguous above the pointer, and the pages marked so far lie in the run that
was found (`SearchKnows`), and none of them has another owner (`MarksAreNew`). `FailureMeansNoRun` needs one more,
`NoRunAbove`: every free run of the wanted length lies below what has been searched,
which is why restarting the count at a taken page overlooks nothing.

`NetProofs`, on receiving, for either card, any number of programs and packets, from `NetAssumption`: `NetInvariant`,
`NetTypeCorrect`, `EverythingHandedUp` (`HandedUp`), `WholePackets` (`WholeUnlessDisturbed`), `NothingOlder`
(`NeverOlder`) and `ToldInOrder` (`ToldOnce`). A packet is followed from the wire into the hands of a program, and `NetInv`
has a part for each place it passes. `DescriptorHeld`: between the cause being set and the handler giving
the descriptor back, the card cannot touch its buffer. `BuffersHold`: therefore what the handler copies is the packet it
has the length of, and `os_EthernetBuffer` is that packet whenever nobody is writing it. `InOrder`: at
each place the numbers grow, and everything that is ahead is smaller than everything behind. `ToldBefore`: what a program
has been told of is older than what it can find next, unless it has yet to clear the length; this is where the
store of 0 at the beginning of `os_ethernet_rx` is needed. `CopiesHold`: the halves a program has copied are no older
than its length, and equal to it when it was not disturbed. `AllKept`: what was handed up, is in hand and waits is, put
together, what the card kept.

`NetProofs`, on sending, over the specification with both sides, from `TxAssumption` as well: `TxInvariant`, `SentCorrectly`
(`SentAsGiven`), and `ReceivingCorrect`: the theorems above hold of `EthernetSpec`, the specification behind the one the run checks, in which sending and receiving
interleave and share the handler, the causes and the processor. The argument is `EthernetSteps`: what a
step of both sides together does to the state of one is a step of that side or nothing, a packet sent being a
cause that is set. `TxInv`: the holder of the lock is the one sender past
`os_smp_lock` (`LockHeld`), the descriptor describes its packet as far as it has been filled (`DescriptorFilled`), the card
reads only what has been filled, and the 8169's OWN bit is set only while the holder waits for it (`CardKnows`). From that,
`careless` is never true of the 8169. `OneAhead` then says that at most one accepted packet is not yet on the wire, and
which one: the equation between `given` and `wire` is inductive only when it names it.

`ProgramsProofs` on the file system, for every directory, any number of programs and all names and counts, from `BmfsAssumption`, over `ProgramsSpec`:
`BmfsInvariant`, `FlagsAreTrue` (`FlagsTellHolders`), `RightProgram` (`RunsWhatWasTyped`), and of the steps `RefusalsAreTrue`
(`RefusesForReason`) and `ReadsAreOfTheFile` (`ReadsGetTheFile`). `BmfsInv` has `OneHolder` (a flag is set exactly while one
caller, or the command line, has the handle) and `CliKnows` (its handle is that of the name that was typed, and once it has
read, `programlocation` holds that file's first block). The two lean on each other: nobody else writes to
`programlocation`, because no program is given that memory, and nobody closes the command line's file, because nobody else
has its handle. Assumed of a disk: an entry's numbers are numbers, a file does not outgrow the blocks reserved for it,
names in use are distinct; of memory: programs have been given different blocks, none of them at
`programlocation` (`MemoryProofs` shows the former until programs clash). The file system checks none of this, it relies on
whoever formatted the disk.

`ProgramsProofs` on `printf`, for all formats and arguments, from `ClibAssumption` (a format is made of pieces, its arguments are
enough for its conversions, and memory behind it has a 0 somewhere), over `ProgramsSpec`: `ClibInvariant`, `FormatsAreMeant`
(`PrintsWhatIsMeant`) and `FormatsEnd` (`StaysInFormat`). `FormatsAreMeant` leaves out, as `AsInC` does, 0 together with -, and `%d` and `%ld` of
numbers with the sign bit. The invariant `ClibInv` says where `print` can be between two rounds of its
loop: behind the first `n` pieces, for some `n`, with what these mean put out and as many arguments taken as there are conversions among
them (`HasRead`), or behind a last character that is no piece (`HasReadCut`). That a round goes from the end of one piece to
the end of the next is the heart of it (`PieceRead`): `FormatReads` says where each piece stands in memory,
`ConversionIsSpelled` at which of its characters each part begins, `DirectiveReads` that the scan finds these places, although
a width may begin where the zeros end, and `WidthIs` that the width it reads is the one that was written.
`ConversionMeans` compares the fields: `prints` pads before or behind, `Meaning` says of each position what stands there (`PrintsLays`);
`printi` takes digits off the end by division, `Numeral` names each by a power of the base, and `PrintiIsNumeral` shows by induction
over the quotients (`ByDigits`) that these are the same characters. What is shown (`Shown`) is then what C means, where `AsInC` holds
(`ShownIsMeant`). In the model a width is any number; in the
code it is an `int`, so the theorems speak of widths and counts that fit one. The 60 characters
of `print_buf` are enough for 64 bits (`stdio.c:68`).

`ConsoleProofs`, for every keyboard layout, also one with codes that are no characters, every screen and length of a line that fits, from `ConsoleAssumption`: `ConsoleInvariant`,
`EchoAlwaysMatches` (`EchoMatches`), `LineAlwaysEdited` (`LineIsEdit`), `KeysAlwaysInOrder` (`KeysInOrder`). `Echoed` says of the
screen what `EchoMatches` does, in every state of `os_input` and by positions counted over the whole screen,
so that wrapping to the next line and scrolling are one fact each about positions. `Edited` relates the string to
`Edit` of the keys, a recursive function; its steps are the three equations of `Edit` at an appended key, which are proved once
from `Numbers`. `Ordered` has the increasing map from keys taken to keys pressed as a witness, which every step keeps or extends; it
also says that the key waiting in `key`, and the one in AL between the load and the store of 0, come
after all that were taken. Assumed besides: at most 256 rows, because the kernel multiplies the low byte of the row
(`screen.asm:119`); with more, the line would be echoed elsewhere.

`KernelProofs` on interrupts (it shares no state with the queue), for every size of the stack and every depth of nesting that fits on it (`IrqAssumption`):
`IrqInvariant`, `StacksAlwaysKept` (`StacksKept`) and `ResumedIntact` (`ResumesIntact`), under `ClearDF`, that no
program with a clock callback sets the direction flag; `callbacks_backwards` shows what happens
otherwise. `ResumedIntact` needs `~ OthersSet` as well: it says that a callback of address 0 is never called, and a
callback that removes another's may do just that (`network` tests the address in the handler, the call comes later).
The first half of that part is about the handlers as straight code: what each push, pop, `movsq` and `iretq`
does to a machine with a given memory and stack pointer, and from these that `rtc` and `network` with a callback leave
the program's stack as it was but for the one word below it, which holds the address to go back to, and the frame
below that goes to the callback (`RtcCalls`, `NetworkCalls`); without a callback they leave everything as it was
(`RtcPasses`, `NetworkPasses`). Both alignments of the stack pointer are covered: the processor may have left a
word free above the frame, and then the frame is moved within that room. The loop of `rep movsq` is the recursive function
of the model, unfolded by induction on the words still to move (`MovsIs`, with `Numbers`). The second half is the
invariant. `EachInCallback` is its heart: where a callback is, at its entry, in its body, after it or at its last `ret`,
tells exactly what lies between its stack pointer and that of what it has interrupted. `ContextsSound` bounds the stack
pointers, so that there is room for a frame, and fixes flags and registers, which no callback changes; `ProgramFirst` says that the
outermost context is the program, so that nothing but a callback ever returns to one; and `Kept` compares every
two contexts, not only neighbours, because a return goes back past several levels of stack one after the other.

`HeapProofs`, for every set of E820 tables, all sizes and any sequence of calls, over `MmSpec`, from `HeapAssumption`,
`MmAssumption`, `TablesEnd` and `TablesApart`: `HeldBlocksAreInUse` (`HeldIsInUse`), `BlocksTileSlots` (`BlocksTile`), `RefusedOnlyWhenFull`
(`FailsOnlyWhenFull`), `UsableMemoryOnly` (`OnlyUsableMemory` until a free is misled), and `NothingHeldIsFree`: `HeldIsNotFree`, which
`heap_stale_prev` violates, holds until a free is misled, so the stale pointer is the only way to that damage. None of these is
inductive: each looks at the list, and what a call does depends on words that are on no list. The invariant
`HeapSound` says that there is a tiling, a map `H` from addresses to blocks as the allocator means them, of which memory
is a picture. `Tiles` speaks of blocks alone: they lie in the slots (`InSlots`) and apart (`Disjoint`), each slot begins with one
(`SlotsBegin`), each begins where a slot or another block does (`Joined`), and points to the block
where it ends, or at the end of a slot to the next slot (`Linked`). `Rep` says that the nine words of every block are in memory; `Holds` that
what programs hold is what is in use. The previous pointers are left out of it on purpose: the code does not keep them, it
lets them go stale, and only that of the first block of a slot is what it should be.

The proof has three layers. Tilings: dividing one block in two (`CutTiles`), making one of neighbours (`AbsorbTiles`), and changing
what a block is used for (`RetypeTiles`) give tilings. Words: what `Set`, `SetSize` and `Format0` leave of the other words
(`Changed`), and that a block outside of the words that changed is still there (`BlockStays`). Functions: `OccupiedSound`, `FreedSound`,
`ExtendedSound`, `CopySound` and `OverwriteSound` put the two together for what `alloc`, `free`, `enlarge`, the copy of a move and a
program's own writes do. In `FreedSound` a free that is not misled has found, by a pointer that may be stale, a
free block that ends where the freed one begins; with `Disjoint` that can only be the neighbour, and its footer its size. The walk over
the list is an induction over its prefixes (`Chain`): every block is on it, once (`ChainOnce`, `ChainFull`), because from any block of a
slot the pointers lead to its end and from there to the next slot; so `FirstFit` finds a block if there is one, and
the first half of `FailsOnlyWhenFull` is about all free memory. Before the first call, `E820Is`, `ReserveIs` and `FormattedIs` follow the
loops of `initE820Arr`, `reserve` and `format`: the slots are the usable memory from 1 MiB on without the
kernel's, and each is one free block (`FormattedSound`); where `format` stops the machine at a slot that is too small, no word in
memory says that a block is in use (`FormattedStops`). `MmInv` ties these together over the states of the command.

`MemoryProofs` on memtest64 (it shares no state with the page allocator), for every set of tables, any word size, any number of chunks,
any length of the list and any faulty bytes, from `MemTestAssumption`: `TestsUsableMemory` (`TestsWhatIsUsable`),
`MemtestLocatesFaults` (`ReportsLocateFaults`: the word before an address shown is faulty) and `FaultsAreFound` (`MissesLittle`). The invariant `MemTestInv` follows the command through its
loops: `ListKnown` says which slots are on the list at each point, and that after the cut exactly what lies above 2 MiB is left of each
(`AboveIs`, for every position of a slot to the cut); `WalkKnown` says which bytes have been verified, and with which value, as a function
of `part`, `step` and `cnt` (`Walked`). A part with fewer words than there are chunks is never finished, and the theorems hold there too. The other two theorems also need `HeldKnown`: what `writeUnit` wrote is there when `verifyUnit` looks, but for the faulty bytes. From that
`VerifyFinds` says what a round can find. `ReportsKnown` keeps that every report is the address behind a faulty word, in sixteen digits, and
`FoundKnown` that `cnt` stands at the beginning of a chunk and that every faulty word that was verified is accounted for; that
chunks begin at multiples of their size is what makes `ChunkOf` of a word the chunk it was verified in.

That what is shown is true is a theorem about the conversions as well: the digits of `str_long2dec` and `str_itoa` have the value of
the number (`DecimalIsTrue` for every number, `HexIsTrue` for those that sixteen digits can hold). `DigitsExist`
is the function of the first, whose recursion goes from a number to its tenth (`RecursionByDivision`). Assumed: `AddressesFit`, addresses have 64 bits, and for the size `SlotsApart`, usable
slots do not overlap; the firmware may report others, and then memory is tested twice and the size is too large.

The type invariants are part of the inductive invariants and are proved; no run repeats them. The assumptions on constants
that the theorems use are the modules' own, and TLC evaluates them in the runs; `ClearDF` and
`~ OthersSet` are those that restrict what programs do, `TablesApart` and `SlotsApart` restrict what the BIOS reports,
and `AddressesFit` that its numbers are 64 bits long; TLC cannot evaluate that one, its numbers are shorter.

A remark on method. The library's induction theorems take an operator as a parameter, which the provers cannot use.
`Numbers` has induction as a fact about sets (`AllNumbers`: a set that has 0 and with each number the next has
them all), from the library's well-founded relations, and the existence and equation of a recursive function
on numbers (`RecursionExists`, `RecursionOnNat`). With these the recursive functions of `Console`, `Bmfs`, `Clib`, `IrqFrame`, `Heap`, `Mm` and `MemTest` can be
reasoned about; `RecursionByDivision` is for those that go from a number to its quotient.

Only model-checked: `AllComesBack` of `Mm`, which is about one sequence of 22 calls and the sizes
it is made for, not about the allocator in general; and the liveness properties of all modules: liveness under
fairness is outside what the prover does.

## 6. What is not modelled

Device registers and port I/O, the drawing of glyphs, the debug dumps, ACPI and
PCI scanning, the boot loader, the AHCI driver (a read of blocks is one step of `Bmfs`), and the prototypes under `bmos/tmp` and
`pw_mem/tmp`. The programs that use the system are external: they call what they may, in any order. In `Smp` an
exception never hits a core inside the queue's functions or `os_smp_wait`, and workloads
do not call `os_smp_wait`. The stack that `ap_clear` no longer resets (`kernel64.asm:102`) is not part of
`Smp`; `IrqFrame` does not let exceptions happen.
`Console` leaves out the escape key (it resets the machine) and `os_screen_clear`, and assumes a line that
fits on the screen. In `NetRx` and `NetTx` networking is enabled, the counters of packets and bytes, which nothing reads, are left out, and
so is `os_net_rtl8169_poll`, because nothing reaches it. What a card does when its registers are written while
it sends is external. A program that receives may get a mixture of packets, or lose one to the next; the properties say what
remains true then. `MemTest` leaves out the progress in per cent, the loop for ever of "no more slot 2" (`memtest.c:193-199`), which
cannot be reached while the range to cut off begins at 0, and that the 64-bit answer of `asm_verifyU64` is kept in an `int`
(`memtest.c:306`), which matters from chunks of 2^31 words on. `Bmfs` takes a call as one step, so that two cores never meet inside one; for the handles 0 to 9 and 74 open and read test a byte
outside the 64 flags, which is 0 in practice and is taken for a file that is not open;
`os_bmfs_file_create` and `os_bmfs_file_seek` are empty, and delete and query are called by nobody.
Of the command line's built-in commands only `mm` and `memtest` are modelled; the division of a line into
arguments and the conversions of `string.asm` are not: they are sequential, and what they do is a matter of
characters.

## 7. Plan

What remains, the most consequential first:

1. A module that puts the steps of `SmpQueue` under the interrupts of `IrqFrame`: `os_QueueLock` taken in
   callbacks, as `NetTx` has it for the lock of Ethernet.
2. The calls of `Bmfs` in steps, with programs on two cores inside them and the one command slot of AHCI.
3. `Strings`: number conversions with their inverses, and the division of a line into arguments.
4. The life of a program with its callbacks: what an exception leaves set (`interrupt.asm:432`).
