--------------------------------- MODULE Bmfs ---------------------------------
(***************************************************************************)
(* The BMFS file system (bmfs.asm) under its two users: the command line   *)
(* (cli.asm), which loads the program that is named and calls it, and      *)
(* programs, the loaded one and those that run as workloads on other       *)
(* cores.  A program in C calls through libBareMetal.c.                    *)
(*                                                                         *)
(* Memory and disk are modelled in blocks of 2 MiB, a block on the disk    *)
(* named by its number.  Neither the file system nor the disk driver has a *)
(* lock: a call is one step, which supposes that the callers see to it     *)
(* that calls do not overlap.                                              *)
(*                                                                         *)
(* Where the command line is (cli):                                        *)
(*   prompt  os_input    read   about to read      call   about to call    *)
(*   open    about to    close  about to close     run    in the program   *)
(*           open        gone   an exception has made the core a worker    *)
(***************************************************************************)
EXTENDS Integers, Sequences, FiniteSets, FiniteSetsExt

CONSTANTS
  Directories, \* the directories a disk may have: entries by number, from 0
  NumFiles,    \* entries of a directory, 64
  BlockSize,   \* bytes in a block, 2 MiB
  Workloads,   \* the programs on other cores
  Loaded,      \* the program the command line has loaded
  Pages,       \* the blocks of memory each of them has been given, by program
  Names,       \* what users and programs call files
  Counts       \* how many bytes they ask for

FirstHandle == 10
ProgramLocation == 1
Nothing == 0
Unused == ""  \* the name of an entry that was never used

Callers == Workloads \cup {Loaded}

\* A directory is of 64-bit numbers; a file does not outgrow its blocks, an entry that was never
\* used is all 0, and no two files have the same name.  os_mem_allocate gives a block of memory
\* to one program at a time and never looks at the one at programlocation.
BmfsAssumption ==
  /\ NumFiles \in Nat \ {0} /\ BlockSize \in Nat \ {0}
  /\ Counts \subseteq Nat
  /\ \A d \in Directories :
       /\ DOMAIN d = 0 .. NumFiles - 1
       /\ \A n \in DOMAIN d : /\ d[n].start \in Nat /\ d[n].reserved \in Nat /\ d[n].size \in Nat
                            /\ d[n].size <= d[n].reserved * BlockSize
       /\ \A n, k \in DOMAIN d : n # k /\ d[n].name # Unused => d[n].name # d[k].name
  /\ Pages \in [Callers -> SUBSET (Nat \ {ProgramLocation})]
  /\ \A c, d \in Callers : c # d => Pages[c] \cap Pages[d] = {}
ASSUME BmfsAssumption

VARIABLES
  directory,    \* bmfs_directory, read when the kernel starts
  filehandlers, \* os_filehandlers: 1 for a file that is open
  ram,          \* what each block of memory holds: the number of a block of the disk, or Nothing
  cli,          \* where the command line is
  command,      \* the name that was typed
  handle,       \* RAX of the command line
  held,         \* the handles each caller was given and has not closed
  answer        \* what the last call of each caller returned

bmfsVars == <<directory, filehandlers, ram, cli, command, handle, held, answer>>

Memory == {ProgramLocation} \cup UNION {Pages[c] : c \in Callers}

BmfsInit ==
  /\ directory \in Directories
  /\ filehandlers = [n \in 0 .. NumFiles - 1 |-> 0]
  /\ ram = [b \in Memory |-> Nothing]
  /\ cli = "prompt" /\ command = Unused /\ handle = 0
  /\ held = [c \in Callers |-> {}]
  /\ answer = [c \in Callers |-> 0]

-----------------------------------------------------------------------------
(* bmfs.asm                                                                *)

NotFound == -1

\* A plausible bug: the search ends before the last entry.
internal_query_short(name) ==
  LET hits == {n \in 0 .. NumFiles - 2 : directory[n].name = name}
  IN  IF hits = {} THEN NotFound ELSE Min(hits)

\* The number of the first entry of that name.  The empty name is that of an unused entry.
internal_query(name) ==
  LET hits == {n \in DOMAIN directory : directory[n].name = name}
  IN  IF hits = {} THEN NotFound ELSE Min(hits)

\* open and read test the byte at n: for handles 0 to 9, and 74, which the signed range check lets
\* through, it lies outside the flags (see os_bmfs_file_close), and is 0.
IsOpen(n) == n \in DOMAIN filehandlers /\ filehandlers[n] # 0

\* A plausible bug: nothing asks whether the file is open already.
OpenAnswerAgain(name) ==
  LET n == internal_query(name)
  IN  IF n = NotFound THEN 0 ELSE n + FirstHandle

\* RAX of os_bmfs_file_open, 0 on error.
OpenAnswer(name) ==
  LET n == internal_query(name)
  IN  IF n = NotFound \/ IsOpen(n) THEN 0 ELSE n + FirstHandle

os_bmfs_file_open(name) ==
  filehandlers' = IF OpenAnswer(name) = 0 THEN filehandlers
                  ELSE [filehandlers EXCEPT ![OpenAnswer(name) - FirstHandle] = 1]

\* A plausible bug: the offset of the handles is left out.
os_bmfs_file_close_raw(h) ==
  filehandlers' = [n \in DOMAIN filehandlers |-> IF n = h THEN 0 ELSE filehandlers[n]]

\* The range check is signed and lets 64 through: handles 0 to 9 clear bytes at the end of the
\* last directory entry that are 0 in any file shorter than 2^48 bytes, and 74 a byte that
\* nothing uses.
os_bmfs_file_close(h) ==
  filehandlers' = [n \in DOMAIN filehandlers |-> IF n = h - FirstHandle THEN 0
                                                 ELSE filehandlers[n]]

\* A plausible bug: each round reads to the same place.
block_read_in_place(start, blocks, dest) ==
  [b \in Memory |-> IF blocks > 0 /\ b = dest THEN start + blocks - 1 ELSE ram[b]]

\* One readsectors of 4096 sectors for each block, which moves RAX and RDI on.
block_read(start, blocks, dest) ==
  LET Round[k \in 0 .. blocks] ==
        IF k = 0 THEN ram ELSE [Round[k - 1] EXCEPT ![dest + k - 1] = start + k - 1]
  IN  Round[blocks]

Blocks(count) == (count + BlockSize - 1) \div BlockSize

\* RCX is restored from the stack: the answer is count in every case.
os_bmfs_file_read(h, count, dest) ==
  LET n == h - FirstHandle
  IN  ram' = IF count = 0 \/ ~ IsOpen(n) THEN ram
             ELSE block_read(directory[n].start, Blocks(count), dest)

-----------------------------------------------------------------------------
(* The command line                                                        *)

\* A name that is none of the built-in commands is typed.
Type(name) ==
  /\ cli = "prompt"
  /\ name # Unused
  /\ cli' = "open"
  /\ command' = name
  /\ UNCHANGED <<directory, filehandlers, ram, handle, held, answer>>

CliOpen ==
  /\ cli = "open"
  /\ os_bmfs_file_open(command)
  /\ handle' = OpenAnswer(command)
  /\ cli' = IF OpenAnswer(command) = 0 THEN "prompt" ELSE "read"
  /\ UNCHANGED <<directory, ram, command, held, answer>>

CliRead ==
  /\ cli = "read"
  /\ os_bmfs_file_read(handle, 1, ProgramLocation)
  /\ cli' = "close"
  /\ UNCHANGED <<directory, filehandlers, command, handle, held, answer>>

CliClose ==
  /\ cli = "close"
  /\ os_bmfs_file_close(handle)
  /\ cli' = "call"
  /\ UNCHANGED <<directory, ram, command, handle, held, answer>>

CliCall ==
  /\ cli = "call"
  /\ cli' = "run"
  /\ UNCHANGED <<directory, filehandlers, ram, command, handle, held, answer>>

\* The program returns, and what it has left open stays open.
ProgramReturns ==
  /\ cli = "run"
  /\ cli' = "prompt"
  /\ UNCHANGED <<directory, filehandlers, ram, command, handle, held, answer>>

\* exception_gate_main: the core goes to ap_clear, and no core is at the command line.
Exception ==
  /\ cli = "run"
  /\ cli' = "gone"
  /\ UNCHANGED <<directory, filehandlers, ram, command, handle, held, answer>>

-----------------------------------------------------------------------------
(* Programs                                                                *)

Runs(c) == c \in Workloads \/ cli = "run"

b_file_open(c, name) ==
  /\ Runs(c)
  /\ os_bmfs_file_open(name)
  /\ answer' = [answer EXCEPT ![c] = OpenAnswer(name)]
  /\ held' = [held EXCEPT ![c] = @ \cup ({OpenAnswer(name)} \ {0})]
  /\ UNCHANGED <<directory, ram, cli, command, handle>>

\* A program closes what it has, the 0 of an open that failed, a file it has closed before or a
\* number out of range, but no file that is open for another.  The answer is always 0.
MayClose(c, h) == h \in held[c] \/ ~ IsOpen(h - FirstHandle)

b_file_close(c, h) ==
  /\ Runs(c)
  /\ MayClose(c, h)
  /\ os_bmfs_file_close(h)
  /\ answer' = [answer EXCEPT ![c] = 0]
  /\ held' = [held EXCEPT ![c] = @ \ {h}]
  /\ UNCHANGED <<directory, ram, cli, command, handle>>

b_file_read(c, h, dest, count) ==
  /\ Runs(c)
  /\ dest .. dest + Blocks(count) - 1 \subseteq Pages[c]
  /\ os_bmfs_file_read(h, count, dest)
  /\ answer' = [answer EXCEPT ![c] = count]
  /\ UNCHANGED <<directory, filehandlers, cli, command, handle, held>>

\* os_bmfs_file_write checks the handle and the count, writes nothing, and answers count.
b_file_write(c, count) ==
  /\ Runs(c)
  /\ answer' = [answer EXCEPT ![c] = count]
  /\ UNCHANGED <<directory, filehandlers, ram, cli, command, handle, held>>

Handles == {0} \cup FirstHandle - 1 .. FirstHandle + NumFiles

Program(c) ==
  \/ \E name \in Names : b_file_open(c, name)
  \/ \E h \in Handles : b_file_close(c, h)
  \/ \E h \in Handles, dest \in Pages[c], count \in Counts : b_file_read(c, h, dest, count)
  \/ \E count \in Counts : b_file_write(c, count)

Cli == CliOpen \/ CliRead \/ CliClose \/ CliCall

BmfsNext ==
  \/ \E name \in Names : Type(name)
  \/ Cli
  \/ ProgramReturns \/ Exception
  \/ \E c \in Callers : Program(c)

-----------------------------------------------------------------------------
(* Properties                                                              *)

\* The documented purpose of the open flag: a file is marked open exactly while one program, or
\* the command line between its open and its close, has its handle, and never for two.  Closing
\* 0, a closed file or a number out of range takes nothing away from anybody.
FlagsTellHolders ==
  \A n \in DOMAIN filehandlers :
    LET h == n + FirstHandle
        holders == {c \in Callers : h \in held[c]}
        atCli == IF cli \in {"read", "close"} /\ handle = h THEN 1 ELSE 0
    IN  Cardinality(holders) + atCli = IF IsOpen(n) THEN 1 ELSE 0

Exists(name) == \E n \in DOMAIN directory : directory[n].name = name

\* The block a file of that name begins with.
FirstBlock(name) == directory[CHOOSE n \in DOMAIN directory : directory[n].name = name].start

\* When the command line calls programlocation, what lies there is the beginning of the file
\* that was typed, whatever programs on other cores have opened, read and closed since.
RunsWhatWasTyped ==
  cli = "call" => Exists(command) /\ ram[ProgramLocation] = FirstBlock(command)

\* "Command or program not found" is true, unless somebody has the file open: a program that
\* is loaded can be loaded again, since the command line closes what it opens.
RefusesForReason ==
  [][cli = "open" /\ cli' = "prompt" =>
       ~ Exists(command) \/ \E c \in Callers, n \in DOMAIN directory :
                              directory[n].name = command /\ n + FirstHandle \in held[c]]_bmfsVars

\* What a read changes in memory is, from its destination on, a file that is open, block after
\* block from its beginning; at programlocation it is the file the command line has opened; and
\* who asks for no more than the file has gets nothing of the file behind it.
ReadsGetTheFile ==
  [][\A b \in Memory : ram'[b] # ram[b] =>
       \E n \in DOMAIN directory :
         LET first == directory[n].start
         IN  /\ IsOpen(n)
             /\ b = ProgramLocation => n + FirstHandle = handle
             /\ ram'[b] > first => b - 1 \in Memory /\ ram'[b - 1] = ram'[b] - 1
             /\ \A c \in Callers : b \in Pages[c] /\ answer'[c] <= directory[n].size =>
                  ram'[b] \in first .. first + directory[n].reserved - 1]_bmfsVars
=============================================================================
