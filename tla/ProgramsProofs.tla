------------------------------- MODULE ProgramsProofs ----------------------------
(***************************************************************************)
(* Theorems about what programs do with the system.                        *)
(*                                                                         *)
(* The file system (Bmfs) under the command line and any number of         *)
(* programs, for any directory: the open flags tell who has a file, the    *)
(* command line runs what was typed, and a read gets the file it names.    *)
(*                                                                         *)
(* printf (Clib), for any format and arguments: what is put out is what    *)
(* the format means, and reading ends at its NUL.                          *)
(***************************************************************************)
EXTENDS Programs, Numbers, FiniteSetTheorems, SequenceTheorems, TLAPS

-----------------------------------------------------------------------------
(* The file system                                                         *)

Entries == 0 .. NumFiles - 1

BmfsTypeOK ==
  /\ directory \in Directories
  /\ filehandlers \in [Entries -> {0, 1}]
  /\ ram \in [Memory -> Nat]
  /\ cli \in {"prompt", "open", "read", "close", "call", "run", "gone"}
  /\ handle \in Nat
  /\ held \in [Callers -> SUBSET (FirstHandle .. FirstHandle + NumFiles - 1)]
  /\ answer \in [Callers -> Nat]

\* Who has entry n: the command line between its open and its close, or a program.
CliHas(n) == cli \in {"read", "close"} /\ handle = n + FirstHandle
Has(c, n) == n + FirstHandle \in held[c]

\* The flag of an entry is set exactly while somebody has it, and nobody else has it then.
HeldAt(n) ==
  /\ filehandlers[n] # 0 <=> CliHas(n) \/ \E c \in Callers : Has(c, n)
  /\ CliHas(n) => \A c \in Callers : ~ Has(c, n)
  /\ \A c, d \in Callers : Has(c, n) /\ Has(d, n) => c = d

OneHolder == \A n \in Entries : HeldAt(n)

\* The command line's handle is of the file that was typed, and once it has read, that file's
\* first block is at programlocation.
Typed(n) == n \in Entries /\ directory[n].name = command

CliKnows ==
  /\ cli \in {"open", "read", "close", "call"} => command # Unused
  /\ cli \in {"read", "close"} => \E n \in Entries : Typed(n) /\ handle = n + FirstHandle
  /\ cli \in {"close", "call"} => \E n \in Entries : Typed(n) /\ ram[ProgramLocation] = directory[n].start

BmfsInv == BmfsTypeOK /\ OneHolder /\ CliKnows

-----------------------------------------------------------------------------
(* What the functions of bmfs.asm do.                                      *)

\* The directory's entries, and those of a name that is in use.
LEMMA DirectoryIs ==
  ASSUME directory \in Directories
  PROVE  /\ DOMAIN directory = Entries
         /\ \A n \in Entries : /\ directory[n].start \in Nat /\ directory[n].reserved \in Nat
                               /\ directory[n].size \in Nat
                               /\ directory[n].size <= directory[n].reserved * BlockSize
         /\ \A n, k \in Entries : directory[n].name = directory[k].name /\ directory[n].name # Unused => n = k
<1>1. PICK d \in Directories : d = directory
  OBVIOUS
<1>2. DOMAIN d = Entries
  BY <1>1, BmfsAssumption DEF BmfsAssumption, Entries
<1>3. \A n \in DOMAIN d : /\ d[n].start \in Nat /\ d[n].reserved \in Nat /\ d[n].size \in Nat
                          /\ d[n].size <= d[n].reserved * BlockSize
  BY <1>1, BmfsAssumption DEF BmfsAssumption
<1>4. \A n, k \in DOMAIN d : n # k /\ d[n].name # Unused => d[n].name # d[k].name
  BY <1>1, BmfsAssumption DEF BmfsAssumption
<1> QED
  BY <1>1, <1>2, <1>3, <1>4

\* os_bmfs_file_internal_query finds an entry of that name if there is one.
LEMMA QueryFinds ==
  ASSUME directory \in Directories, NEW name
  PROVE  \/ internal_query(name) = NotFound /\ ~ Exists(name)
         \/ /\ internal_query(name) \in Entries /\ directory[internal_query(name)].name = name
            /\ Exists(name)
<1> DEFINE hits == {n \in DOMAIN directory : directory[n].name = name}
<1>1. DOMAIN directory = Entries /\ Entries \subseteq Nat
  BY DirectoryIs, BmfsAssumption DEF BmfsAssumption, Entries
<1>2. CASE hits = {}
  BY <1>2 DEF internal_query, Exists
<1>3. CASE hits # {}
  <2>1. Min(hits) \in hits
    BY <1>1, <1>3, MinIsIn
  <2>2. internal_query(name) = Min(hits)
    BY <1>3 DEF internal_query
  <2>3. QED
    BY <1>1, <2>1, <2>2 DEF Exists
<1> QED
  BY <1>2, <1>3

\* The handle os_bmfs_file_open gives is of an entry of that name that was closed.
LEMMA OpenFinds ==
  ASSUME BmfsTypeOK, NEW name
  PROVE  \/ OpenAnswer(name) = 0 /\ (Exists(name) => \E n \in Entries : directory[n].name = name /\ filehandlers[n] # 0)
         \/ \E n \in Entries : /\ OpenAnswer(name) = n + FirstHandle /\ directory[n].name = name
                               /\ filehandlers[n] = 0
<1>1. directory \in Directories /\ DOMAIN filehandlers = Entries
  BY DEF BmfsTypeOK
<1>2. CASE internal_query(name) = NotFound
  BY <1>1, <1>2, QueryFinds DEF OpenAnswer, NotFound, Entries
<1>3. CASE internal_query(name) \in Entries /\ directory[internal_query(name)].name = name
  <2>1. internal_query(name) # NotFound
    BY <1>3, BmfsAssumption DEF BmfsAssumption, Entries, NotFound
  <2>2. QED
    BY <1>1, <1>3, <2>1 DEF OpenAnswer, IsOpen
<1> QED
  BY <1>1, <1>2, <1>3, QueryFinds

LEMMA BlocksType == Blocks(1) = 1 /\ \A count \in Nat : Blocks(count) \in Nat
<1>1. BlockSize \in Nat \ {0}
  BY BmfsAssumption DEF BmfsAssumption
<1>2. ASSUME NEW count \in Nat PROVE Blocks(count) \in Nat
  <2>1. count + BlockSize - 1 \in Nat
    BY <1>1
  <2>2. QED
    BY <1>1, <2>1 DEF Blocks
<1>3. Blocks(1) = 1
  <2>1. 1 + BlockSize - 1 = BlockSize
    BY <1>1
  <2>2. QED
    BY <1>1, <2>1 DEF Blocks
<1> QED
  BY <1>2, <1>3

\* The rounds of os_bmfs_block_read, taken together: as many blocks as were asked for, one after
\* the other, and nothing else.
Read(start, blocks, dest) ==
  [b \in Memory |-> IF b \in dest .. dest + blocks - 1 THEN start + (b - dest) ELSE ram[b]]

LEMMA MemoryIsNat == Memory \subseteq Nat /\ ProgramLocation \in Memory
                     /\ \A c \in Callers : Pages[c] \subseteq Memory /\ ProgramLocation \notin Pages[c]
<1>1. \A c \in Callers : Pages[c] \subseteq Nat /\ ProgramLocation \notin Pages[c]
  BY BmfsAssumption DEF BmfsAssumption
<1> QED
  BY <1>1 DEF Memory, ProgramLocation

LEMMA BlockReadIs ==
  ASSUME ram \in [Memory -> Nat], NEW start \in Nat, NEW blocks \in Nat, NEW dest \in Nat
  PROVE  block_read(start, blocks, dest) = Read(start, blocks, dest)
<1> DEFINE Good(f) == f = [k \in 0 .. blocks |->
                             IF k = 0 THEN ram ELSE [f[k - 1] EXCEPT ![dest + k - 1] = start + k - 1]]
           Rounds == CHOOSE f : Good(f)
           closed == [k \in 0 .. blocks |-> Read(start, k, dest)]
<1>1. block_read(start, blocks, dest) = Rounds[blocks]
  BY DEF block_read
<1>2. Read(start, 0, dest) = ram
  BY DEF Read
<1>3. ASSUME NEW k \in 1 .. blocks
      PROVE  Read(start, k, dest) = [Read(start, k - 1, dest) EXCEPT ![dest + k - 1] = start + k - 1]
  <2>1. \A b \in Memory : b \in dest .. dest + k - 1 <=> b \in dest .. dest + (k - 1) - 1 \/ b = dest + k - 1
    BY MemoryIsNat
  <2>2. start + ((dest + k - 1) - dest) = start + k - 1
    OBVIOUS
  <2>3. QED
    BY <2>1, <2>2 DEF Read
<1>4. Good(closed)
  <2>1. \A k \in 0 .. blocks : k # 0 => k - 1 \in 0 .. blocks /\ k \in 1 .. blocks
    OBVIOUS
  <2>2. \A k \in 0 .. blocks : closed[k] = IF k = 0 THEN ram ELSE [closed[k - 1] EXCEPT ![dest + k - 1] = start + k - 1]
    BY <1>2, <1>3, <2>1
  <2>3. QED
    BY <2>2
<1>5. Good(Rounds)
  BY <1>4
<1> HIDE DEF Rounds
<1>6. Rounds[0] = ram /\ \A k \in 1 .. blocks : Rounds[k] = [Rounds[k - 1] EXCEPT ![dest + k - 1] = start + k - 1]
  <2>1. \A k \in 0 .. blocks :
          Rounds[k] = IF k = 0 THEN ram ELSE [Rounds[k - 1] EXCEPT ![dest + k - 1] = start + k - 1]
    BY <1>5, Zenon
  <2>2. 0 \in 0 .. blocks /\ \A k \in 1 .. blocks : k \in 0 .. blocks /\ k # 0
    OBVIOUS
  <2>3. QED
    BY <2>1, <2>2, Zenon
<1> DEFINE S == {k \in Nat : k <= blocks => Rounds[k] = Read(start, k, dest)}
<1>7. 0 \in S
  BY <1>2, <1>6
<1>8. ASSUME NEW k \in Nat, k \in S PROVE k + 1 \in S
  <2>1. CASE k + 1 <= blocks
    <3>1. k + 1 \in 1 .. blocks /\ (k + 1) - 1 = k /\ k <= blocks
      BY <2>1
    <3>2. Rounds[k] = Read(start, k, dest)
      BY <1>8, <3>1
    <3>3. QED
      BY <1>3, <1>6, <3>1, <3>2
  <2>2. CASE ~ (k + 1 <= blocks)
    BY <2>2
  <2>3. QED
    BY <2>1, <2>2
<1> HIDE DEF S
<1>9. Nat \subseteq S
  BY <1>7, <1>8, AllNumbers
<1> QED
  BY <1>1, <1>9 DEF S

-----------------------------------------------------------------------------
LEMMA BmfsInitInv == ProgramsInit => BmfsInv
<1> SUFFICES ASSUME BmfsInit PROVE BmfsInv
  BY DEF ProgramsInit
<1>1. BmfsTypeOK
  BY DEF BmfsInit, BmfsTypeOK, Entries, Nothing
<1>2. OneHolder
  BY DEF BmfsInit, OneHolder, HeldAt, CliHas, Has, Entries
<1>3. CliKnows
  BY DEF BmfsInit, CliKnows
<1> QED
  BY <1>1, <1>2, <1>3 DEF BmfsInv

(* What the steps change: the flag of one entry and who has it, or memory.  *)

LEMMA OpenKeeps ==
  ASSUME BmfsTypeOK, NEW name, os_bmfs_file_open(name)
  PROVE  /\ OpenAnswer(name) = 0 => filehandlers' = filehandlers
         /\ \A n \in Entries : OpenAnswer(name) = n + FirstHandle =>
              \A k \in Entries : filehandlers'[k] = IF k = n THEN 1 ELSE filehandlers[k]
         /\ filehandlers' \in [Entries -> {0, 1}]
<1>1. filehandlers \in [Entries -> {0, 1}] /\ Entries \subseteq Nat
  BY BmfsAssumption DEF BmfsTypeOK, Entries, BmfsAssumption
<1>2. CASE OpenAnswer(name) = 0
  BY <1>1, <1>2 DEF os_bmfs_file_open, FirstHandle
<1>3. ASSUME NEW n \in Entries, OpenAnswer(name) = n + FirstHandle
      PROVE  filehandlers' = [filehandlers EXCEPT ![n] = 1]
  <2>1. n \in Nat /\ OpenAnswer(name) # 0 /\ OpenAnswer(name) - FirstHandle = n
    BY <1>1, <1>3 DEF FirstHandle
  <2>2. QED
    BY <2>1 DEF os_bmfs_file_open
<1>4. \A n, k \in Entries : n + FirstHandle = k + FirstHandle => n = k
  BY <1>1 DEF FirstHandle
<1> QED
  BY <1>1, <1>2, <1>3, <1>4, OpenFinds

LEMMA CloseClears ==
  ASSUME BmfsTypeOK, NEW h \in Int, os_bmfs_file_close(h)
  PROVE  /\ filehandlers' \in [Entries -> {0, 1}]
         /\ \A n \in Entries : filehandlers'[n] = IF h = n + FirstHandle THEN 0 ELSE filehandlers[n]
<1>1. filehandlers \in [Entries -> {0, 1}] /\ Entries \subseteq Nat
  BY BmfsAssumption DEF BmfsTypeOK, Entries, BmfsAssumption
<1>2. \A n \in Entries : n = h - FirstHandle <=> h = n + FirstHandle
  BY <1>1 DEF FirstHandle
<1> QED
  BY <1>1, <1>2 DEF os_bmfs_file_close

\* What a read does: nothing, or the blocks of an entry that is open.
LEMMA ReadOf ==
  ASSUME BmfsTypeOK, NEW h \in Int, NEW count \in Nat, NEW dest \in Nat, os_bmfs_file_read(h, count, dest)
  PROVE  \/ /\ ram' = ram
            /\ count = 0 \/ h - FirstHandle \notin Entries \/ filehandlers[h - FirstHandle] = 0
         \/ \E n \in Entries : /\ h = n + FirstHandle /\ filehandlers[n] # 0 /\ count # 0
                               /\ ram' = Read(directory[n].start, Blocks(count), dest)
<1>1. /\ filehandlers \in [Entries -> {0, 1}] /\ Entries \subseteq Nat
      /\ ram \in [Memory -> Nat] /\ directory \in Directories
  BY BmfsAssumption DEF BmfsTypeOK, Entries, BmfsAssumption
<1>2. CASE count = 0 \/ ~ IsOpen(h - FirstHandle)
  BY <1>1, <1>2 DEF os_bmfs_file_read, IsOpen
<1>3. CASE count # 0 /\ IsOpen(h - FirstHandle)
  <2>1. PICK n \in Entries : n = h - FirstHandle
    BY <1>1, <1>3 DEF IsOpen
  <2>2. h = n + FirstHandle /\ filehandlers[n] # 0
    BY <1>1, <1>3, <2>1 DEF IsOpen, FirstHandle
  <2>3. ram' = block_read(directory[n].start, Blocks(count), dest)
    BY <1>3, <2>1 DEF os_bmfs_file_read
  <2>4. Blocks(count) \in Nat
    BY BlocksType
  <2>5. directory[n].start \in Nat
    BY <1>1, DirectoryIs
  <2>6. QED
    BY <1>1, <1>3, <2>2, <2>3, <2>4, <2>5, BlockReadIs
<1> QED
  BY <1>2, <1>3

LEMMA ReadStays ==
  ASSUME ram \in [Memory -> Nat], NEW start \in Nat, NEW blocks \in Nat, NEW dest \in Nat
  PROVE  Read(start, blocks, dest) \in [Memory -> Nat]
<1>1. \A b \in Memory : b \in dest .. dest + blocks - 1 => start + (b - dest) \in Nat
  BY MemoryIsNat
<1> QED
  BY <1>1 DEF Read

-----------------------------------------------------------------------------
(* A step preserves the invariant.                                         *)

LEMMA BmfsTypeStep == BmfsInv /\ [BmfsNext]_bmfsVars => BmfsTypeOK'
<1> SUFFICES ASSUME BmfsTypeOK, [BmfsNext]_bmfsVars PROVE BmfsTypeOK'
  BY DEF BmfsInv
<1> DEFINE handles == FirstHandle .. FirstHandle + NumFiles - 1
<1>1. /\ NumFiles \in Nat \ {0} /\ Counts \subseteq Nat /\ ProgramLocation \in Nat /\ Handles \subseteq Int
      /\ \A n \in Entries : n + FirstHandle \in handles /\ n + FirstHandle \in Nat
  BY BmfsAssumption DEF BmfsAssumption, ProgramLocation, FirstHandle, Handles, Entries
<1>2. \A n \in Entries : directory[n].start \in Nat
  BY DirectoryIs DEF BmfsTypeOK
<1>3. \A count \in Nat : Blocks(count) \in Nat
  BY BlocksType
<1>4. ASSUME NEW name PROVE OpenAnswer(name) \in Nat /\ {OpenAnswer(name)} \ {0} \subseteq handles
  BY <1>1, OpenFinds
<1>5. ASSUME NEW h \in Int, NEW count \in Nat, NEW dest \in Nat, os_bmfs_file_read(h, count, dest)
      PROVE  ram' \in [Memory -> Nat]
  <2>1. ram \in [Memory -> Nat]
    BY DEF BmfsTypeOK
  <2>2. CASE ram' = ram
    BY <2>1, <2>2
  <2>3. ASSUME NEW n \in Entries, ram' = Read(directory[n].start, Blocks(count), dest)
        PROVE  ram' \in [Memory -> Nat]
    BY <1>2, <1>3, <2>1, <2>3, ReadStays
  <2>4. QED
    BY <1>5, <2>2, <2>3, ReadOf
<1>6. CASE UNCHANGED bmfsVars
  BY <1>6 DEF BmfsTypeOK, bmfsVars
<1>7. ASSUME NEW name \in Names, Type(name) PROVE BmfsTypeOK'
  BY <1>7 DEF Type, BmfsTypeOK
<1>8. CASE CliOpen
  <2>1. filehandlers' \in [Entries -> {0, 1}] /\ handle' \in Nat
    BY <1>4, <1>8, OpenKeeps DEF CliOpen
  <2>2. QED
    BY <1>8, <2>1 DEF CliOpen, BmfsTypeOK
<1>9. CASE CliRead
  <2>1. ram' \in [Memory -> Nat]
    BY <1>1, <1>5, <1>9 DEF CliRead, BmfsTypeOK
  <2>2. QED
    BY <1>9, <2>1 DEF CliRead, BmfsTypeOK
<1>10. CASE CliClose
  <2>1. filehandlers' \in [Entries -> {0, 1}]
    BY <1>10, CloseClears DEF CliClose, BmfsTypeOK
  <2>2. QED
    BY <1>10, <2>1 DEF CliClose, BmfsTypeOK
<1>11. CASE CliCall \/ ProgramReturns \/ Exception
  BY <1>11 DEF CliCall, ProgramReturns, Exception, BmfsTypeOK
<1>12. ASSUME NEW c \in Callers, NEW name \in Names, b_file_open(c, name) PROVE BmfsTypeOK'
  <2>1. filehandlers' \in [Entries -> {0, 1}]
    BY <1>12, OpenKeeps DEF b_file_open
  <2>2. held' \in [Callers -> SUBSET handles] /\ answer' \in [Callers -> Nat]
    BY <1>4, <1>12 DEF b_file_open, BmfsTypeOK
  <2>3. QED
    BY <1>12, <2>1, <2>2 DEF b_file_open, BmfsTypeOK
<1>13. ASSUME NEW c \in Callers, NEW h \in Handles, b_file_close(c, h) PROVE BmfsTypeOK'
  <2>1. filehandlers' \in [Entries -> {0, 1}]
    BY <1>1, <1>13, CloseClears DEF b_file_close
  <2>2. held' \in [Callers -> SUBSET handles] /\ answer' \in [Callers -> Nat]
    BY <1>13 DEF b_file_close, BmfsTypeOK
  <2>3. QED
    BY <1>13, <2>1, <2>2 DEF b_file_close, BmfsTypeOK
<1>14. ASSUME NEW c \in Callers, NEW h \in Handles, NEW dest \in Pages[c], NEW count \in Counts,
              b_file_read(c, h, dest, count)
       PROVE  BmfsTypeOK'
  <2>1. ram' \in [Memory -> Nat]
    <3>1. dest \in Nat
      BY MemoryIsNat
    <3>2. QED
      BY <1>1, <1>5, <1>14, <3>1 DEF b_file_read
  <2>2. answer' \in [Callers -> Nat]
    BY <1>1, <1>14 DEF b_file_read, BmfsTypeOK
  <2>3. QED
    BY <1>14, <2>1, <2>2 DEF b_file_read, BmfsTypeOK
<1>15. ASSUME NEW c \in Callers, NEW count \in Counts, b_file_write(c, count) PROVE BmfsTypeOK'
  BY <1>1, <1>15 DEF b_file_write, BmfsTypeOK
<1> QED
  BY <1>6, <1>7, <1>8, <1>9, <1>10, <1>11, <1>12, <1>13, <1>14, <1>15 DEF BmfsNext, Cli, Program

\* Who has an entry changes with its flag: an open gives it to one who asks while nobody has it,
\* and a close takes it from the one who has it or from nobody.
LEMMA HolderStep == BmfsInv /\ [BmfsNext]_bmfsVars => OneHolder'
<1> SUFFICES ASSUME BmfsInv, [BmfsNext]_bmfsVars, NEW n \in Entries PROVE HeldAt(n)'
  BY DEF OneHolder
<1>1. BmfsTypeOK /\ CliKnows /\ HeldAt(n)
  BY DEF BmfsInv, OneHolder
<1>2. /\ n \in Nat /\ n + FirstHandle # 0 /\ Handles \subseteq Int /\ n + FirstHandle \in Nat
      /\ (n + FirstHandle) - FirstHandle = n
      /\ \A k \in Entries : k + FirstHandle = n + FirstHandle => k = n
  BY BmfsAssumption DEF BmfsAssumption, FirstHandle, Handles, Entries
<1>3. /\ held \in [Callers -> SUBSET (FirstHandle .. FirstHandle + NumFiles - 1)] /\ handle \in Nat
      /\ filehandlers \in [Entries -> {0, 1}]
  BY <1>1 DEF BmfsTypeOK
<1>4. ASSUME UNCHANGED <<filehandlers, held>>, CliHas(n)' <=> CliHas(n) PROVE HeldAt(n)'
  BY <1>1, <1>4 DEF HeldAt, Has
<1>5. ASSUME NEW name \in Names, Type(name) PROVE HeldAt(n)'
  BY <1>4, <1>5 DEF Type, CliHas
<1>6. CASE CliOpen
  <2>1. /\ ~ CliHas(n) /\ held' = held /\ handle' = OpenAnswer(command)
        /\ cli' = IF OpenAnswer(command) = 0 THEN "prompt" ELSE "read"
    BY <1>6 DEF CliOpen, CliHas
  <2>2. CASE OpenAnswer(command) = n + FirstHandle
    <3>1. filehandlers'[n] = 1 /\ filehandlers[n] = 0 /\ CliHas(n)'
      BY <1>1, <1>2, <1>6, <2>1, <2>2, OpenFinds, OpenKeeps DEF CliOpen, CliHas
    <3>2. QED
      BY <1>1, <2>1, <3>1 DEF HeldAt, Has
  <2>3. CASE OpenAnswer(command) # n + FirstHandle
    <3>1. filehandlers'[n] = filehandlers[n] /\ ~ CliHas(n)'
      BY <1>1, <1>2, <1>6, <2>1, <2>3, OpenFinds, OpenKeeps DEF CliOpen, CliHas
    <3>2. QED
      BY <1>1, <2>1, <3>1 DEF HeldAt, Has
  <2>4. QED
    BY <2>2, <2>3
<1>7. CASE CliRead
  BY <1>4, <1>7 DEF CliRead, CliHas
<1>8. CASE CliClose
  <2>1. /\ ~ CliHas(n)' /\ held' = held
        /\ filehandlers'[n] = IF handle = n + FirstHandle THEN 0 ELSE filehandlers[n]
    BY <1>1, <1>3, <1>8, CloseClears DEF CliClose, CliHas
  <2>2. CliHas(n) <=> handle = n + FirstHandle
    BY <1>8 DEF CliClose, CliHas
  <2>3. QED
    BY <1>1, <2>1, <2>2 DEF HeldAt, Has
<1>9. CASE CliCall \/ ProgramReturns \/ Exception
  BY <1>4, <1>9 DEF CliCall, ProgramReturns, Exception, CliHas
<1>10. ASSUME NEW c \in Callers, NEW name \in Names, b_file_open(c, name) PROVE HeldAt(n)'
  <2>1. /\ CliHas(n)' <=> CliHas(n)
        /\ held' = [held EXCEPT ![c] = @ \cup ({OpenAnswer(name)} \ {0})]
        /\ os_bmfs_file_open(name)
    BY <1>10 DEF b_file_open, CliHas
  <2>2. CASE OpenAnswer(name) = n + FirstHandle
    <3>1. filehandlers'[n] = 1 /\ filehandlers[n] = 0
      BY <1>1, <1>2, <2>1, <2>2, OpenFinds, OpenKeeps
    <3>2. \A d \in Callers : Has(d, n)' <=> d = c \/ Has(d, n)
      BY <1>2, <1>3, <2>1, <2>2 DEF Has
    <3>3. QED
      BY <1>1, <2>1, <3>1, <3>2 DEF HeldAt
  <2>3. CASE OpenAnswer(name) # n + FirstHandle
    <3>1. filehandlers'[n] = filehandlers[n]
      BY <1>1, <1>2, <2>1, <2>3, OpenFinds, OpenKeeps
    <3>2. \A d \in Callers : Has(d, n)' <=> Has(d, n)
      BY <1>2, <1>3, <2>1, <2>3 DEF Has
    <3>3. QED
      BY <1>1, <2>1, <3>1, <3>2 DEF HeldAt
  <2>4. QED
    BY <2>2, <2>3
<1>11. ASSUME NEW c \in Callers, NEW h \in Handles, b_file_close(c, h) PROVE HeldAt(n)'
  <2>1. /\ CliHas(n)' <=> CliHas(n)
        /\ held' = [held EXCEPT ![c] = @ \ {h}]
        /\ filehandlers'[n] = IF h = n + FirstHandle THEN 0 ELSE filehandlers[n]
        /\ h \in held[c] \/ ~ IsOpen(h - FirstHandle)
    BY <1>1, <1>2, <1>11, CloseClears DEF b_file_close, CliHas, MayClose
  <2>2. \A d \in Callers : Has(d, n)' <=> Has(d, n) /\ ~ (d = c /\ h = n + FirstHandle)
    BY <1>3, <2>1 DEF Has
  <2>3. CASE h = n + FirstHandle
    <3>1. Has(c, n) \/ filehandlers[n] = 0
      BY <1>2, <1>3, <2>1, <2>3 DEF IsOpen, Has
    <3>2. QED
      BY <1>1, <2>1, <2>2, <2>3, <3>1 DEF HeldAt
  <2>4. CASE h # n + FirstHandle
    BY <1>1, <2>1, <2>2, <2>4 DEF HeldAt
  <2>5. QED
    BY <2>3, <2>4
<1>12. ASSUME NEW c \in Callers, NEW h \in Handles, NEW dest \in Pages[c], NEW count \in Counts,
              b_file_read(c, h, dest, count)
       PROVE  HeldAt(n)'
  BY <1>4, <1>12 DEF b_file_read, CliHas
<1>13. ASSUME NEW c \in Callers, NEW count \in Counts, b_file_write(c, count) PROVE HeldAt(n)'
  BY <1>4, <1>13 DEF b_file_write, CliHas
<1>14. CASE UNCHANGED bmfsVars
  BY <1>4, <1>14 DEF bmfsVars, CliHas
<1> QED
  BY <1>5, <1>6, <1>7, <1>8, <1>9, <1>10, <1>11, <1>12, <1>13, <1>14 DEF BmfsNext, Cli, Program

\* A program's read changes what it has been given, which programlocation is not.
LEMMA ReadInPages ==
  ASSUME BmfsTypeOK, NEW c \in Callers, NEW h \in Handles, NEW dest \in Pages[c], NEW count \in Counts,
         b_file_read(c, h, dest, count)
  PROVE  \/ ram' = ram
         \/ \E n \in Entries :
              /\ h = n + FirstHandle /\ filehandlers[n] # 0
              /\ ram' = Read(directory[n].start, Blocks(count), dest)
              /\ dest .. dest + Blocks(count) - 1 \subseteq Pages[c]
<1>1. h \in Int /\ count \in Nat /\ dest \in Nat
  BY MemoryIsNat, BmfsAssumption DEF Handles, FirstHandle, BmfsAssumption
<1>2. os_bmfs_file_read(h, count, dest) /\ dest .. dest + Blocks(count) - 1 \subseteq Pages[c]
  BY DEF b_file_read
<1> QED
  BY <1>1, <1>2, ReadOf

LEMMA KnowsStep == BmfsInv /\ [BmfsNext]_bmfsVars => CliKnows'
<1> SUFFICES ASSUME BmfsInv, [BmfsNext]_bmfsVars PROVE CliKnows'
  OBVIOUS
<1>1. BmfsTypeOK /\ CliKnows /\ OneHolder
  BY DEF BmfsInv
<1>2. ram \in [Memory -> Nat] /\ directory \in Directories
  BY <1>1 DEF BmfsTypeOK
<1>3. ASSUME UNCHANGED <<directory, command, handle, cli>>, ram'[ProgramLocation] = ram[ProgramLocation]
      PROVE  CliKnows'
  BY <1>1, <1>3 DEF CliKnows, Typed
<1>4. ASSUME NEW name \in Names, Type(name) PROVE CliKnows'
  BY <1>4 DEF Type, CliKnows
<1>5. CASE CliOpen
  <2>1. /\ directory' = directory /\ command' = command /\ handle' = OpenAnswer(command)
        /\ cli' = (IF OpenAnswer(command) = 0 THEN "prompt" ELSE "read") /\ command # Unused
    BY <1>1, <1>5 DEF CliOpen, CliKnows
  <2>2. OpenAnswer(command) # 0 => \E n \in Entries : OpenAnswer(command) = n + FirstHandle /\ Typed(n)
    BY <1>1, OpenFinds DEF Typed
  <2>3. QED
    BY <2>1, <2>2 DEF CliKnows, Typed
<1>6. CASE CliRead
  <2>1. /\ cli = "read" /\ cli' = "close" /\ UNCHANGED <<directory, command, handle>>
        /\ os_bmfs_file_read(handle, 1, ProgramLocation)
    BY <1>6 DEF CliRead
  <2>2. PICK n \in Entries : Typed(n) /\ handle = n + FirstHandle
    BY <1>1, <2>1 DEF CliKnows
  <2>3. /\ handle \in Int /\ handle - FirstHandle = n
        /\ \A k \in Entries : handle = k + FirstHandle => k = n
    BY <2>2, BmfsAssumption DEF BmfsAssumption, Entries, FirstHandle
  <2>4. filehandlers[n] # 0
    BY <1>1, <2>1, <2>2 DEF OneHolder, HeldAt, CliHas
  <2>5. Blocks(1) = 1
    BY BlocksType
  <2>6. ram' = Read(directory[n].start, 1, ProgramLocation)
    BY <1>1, <2>1, <2>2, <2>3, <2>4, <2>5, ReadOf DEF ProgramLocation
  <2>7. ram'[ProgramLocation] = directory[n].start
    <3>1. directory[n].start \in Nat
      BY <1>2, DirectoryIs
    <3>2. QED
      BY <2>6, <3>1, MemoryIsNat DEF Read, ProgramLocation
  <2>8. QED
    BY <1>1, <2>1, <2>2, <2>7 DEF CliKnows, Typed
<1>7. CASE CliClose
  BY <1>1, <1>7 DEF CliClose, CliKnows, Typed
<1>8. CASE CliCall \/ ProgramReturns \/ Exception
  BY <1>8 DEF CliCall, ProgramReturns, Exception, CliKnows
<1>9. ASSUME NEW c \in Callers, NEW name \in Names, b_file_open(c, name) PROVE CliKnows'
  BY <1>3, <1>9 DEF b_file_open
<1>10. ASSUME NEW c \in Callers, NEW h \in Handles, b_file_close(c, h) PROVE CliKnows'
  BY <1>3, <1>10 DEF b_file_close
<1>11. ASSUME NEW c \in Callers, NEW h \in Handles, NEW dest \in Pages[c], NEW count \in Counts,
              b_file_read(c, h, dest, count)
       PROVE  CliKnows'
  <2>1. ram'[ProgramLocation] = ram[ProgramLocation]
    <3>1. CASE ram' = ram
      BY <3>1
    <3>2. ASSUME NEW n \in Entries, ram' = Read(directory[n].start, Blocks(count), dest),
                 dest .. dest + Blocks(count) - 1 \subseteq Pages[c]
          PROVE  ram'[ProgramLocation] = ram[ProgramLocation]
      BY <3>2, MemoryIsNat DEF Read
    <3>3. QED
      BY <1>1, <1>11, <3>1, <3>2, ReadInPages
  <2>2. QED
    BY <1>3, <1>11, <2>1 DEF b_file_read
<1>12. ASSUME NEW c \in Callers, NEW count \in Counts, b_file_write(c, count) PROVE CliKnows'
  BY <1>3, <1>12 DEF b_file_write
<1>13. CASE UNCHANGED bmfsVars
  BY <1>3, <1>13 DEF bmfsVars
<1> QED
  BY <1>4, <1>5, <1>6, <1>7, <1>8, <1>9, <1>10, <1>11, <1>12, <1>13 DEF BmfsNext, Cli, Program

LEMMA ProgramsUseFiles == [ProgramsNext]_<<bmfsVars, clibVars>> => [BmfsNext]_bmfsVars
BY DEF ProgramsNext, PrintsNext, FilesNext

\* The invariant holds always: what the flags, the command line and its callers know of who has
\* which file agrees.
THEOREM BmfsInvariant == ProgramsSpec => []BmfsInv
<1>1. BmfsInv /\ [ProgramsNext]_<<bmfsVars, clibVars>> => BmfsInv'
  BY ProgramsUseFiles, BmfsTypeStep, HolderStep, KnowsStep DEF BmfsInv
<1> QED
  BY <1>1, BmfsInitInv, PTL DEF ProgramsSpec

-----------------------------------------------------------------------------
(* What it says to those who open, close, read and run files.              *)

\* A file is marked open exactly while one program, or the command line, has its handle, and
\* never for two; an open that fails and a close of nothing change that for nobody.
THEOREM FlagsAreTrue == ProgramsSpec => []FlagsTellHolders
<1>1. BmfsInv => FlagsTellHolders
  <2> SUFFICES ASSUME BmfsInv, NEW n \in DOMAIN filehandlers
               PROVE  Cardinality({c \in Callers : Has(c, n)}) + (IF CliHas(n) THEN 1 ELSE 0)
                        = IF IsOpen(n) THEN 1 ELSE 0
    BY DEF FlagsTellHolders, Has, CliHas
  <2>1. n \in Entries /\ HeldAt(n) /\ (IsOpen(n) <=> filehandlers[n] # 0)
    BY DEF BmfsInv, BmfsTypeOK, OneHolder, HeldAt, IsOpen
  <2> DEFINE holders == {c \in Callers : Has(c, n)}
  <2>2. CASE holders = {}
    <3>1. Cardinality(holders) = 0
      BY <2>2, FS_EmptySet
    <3>2. IsOpen(n) <=> CliHas(n)
      BY <2>1, <2>2 DEF HeldAt
    <3>3. QED
      BY <3>1, <3>2
  <2>3. CASE holders # {}
    <3>1. PICK c \in Callers : Has(c, n)
      BY <2>3
    <3>2. holders = {c}
      BY <2>1, <3>1 DEF HeldAt
    <3>3. Cardinality(holders) = 1
      BY <3>2, FS_Singleton
    <3>4. IsOpen(n) /\ ~ CliHas(n)
      BY <2>1, <3>1 DEF HeldAt
    <3>5. QED
      BY <3>3, <3>4
  <2>4. QED
    BY <2>2, <2>3
<1> QED
  BY <1>1, BmfsInvariant, PTL

\* When the command line calls programlocation, what lies there is the beginning of the file that
\* was typed, whatever programs on other cores do with files in the meantime.
THEOREM RightProgram == ProgramsSpec => []RunsWhatWasTyped
<1>1. BmfsInv => RunsWhatWasTyped
  <2> SUFFICES ASSUME BmfsInv, cli = "call" PROVE Exists(command) /\ ram[ProgramLocation] = FirstBlock(command)
    BY DEF RunsWhatWasTyped
  <2>1. directory \in Directories /\ command # Unused
    BY DEF BmfsInv, BmfsTypeOK, CliKnows
  <2>2. PICK n \in Entries : directory[n].name = command /\ ram[ProgramLocation] = directory[n].start
    BY DEF BmfsInv, CliKnows, Typed
  <2>3. DOMAIN directory = Entries /\ \A k \in Entries : directory[k].name = command => k = n
    BY <2>1, <2>2, DirectoryIs
  <2>4. (CHOOSE k \in DOMAIN directory : directory[k].name = command) = n
    BY <2>2, <2>3
  <2>5. QED
    BY <2>2, <2>3, <2>4 DEF Exists, FirstBlock
<1> QED
  BY <1>1, BmfsInvariant, PTL

\* The command line says that there is no such program only when there is none, or when a program
\* has the file open.
THEOREM RefusalsAreTrue == ProgramsSpec => RefusesForReason
<1>1. BmfsInv /\ [BmfsNext]_bmfsVars =>
        [cli = "open" /\ cli' = "prompt" =>
           ~ Exists(command) \/ \E c \in Callers, n \in DOMAIN directory :
                                  directory[n].name = command /\ n + FirstHandle \in held[c]]_bmfsVars
  <2> SUFFICES ASSUME BmfsInv, BmfsNext, cli = "open", cli' = "prompt", Exists(command)
               PROVE  \E c \in Callers, n \in DOMAIN directory :
                        directory[n].name = command /\ n + FirstHandle \in held[c]
    OBVIOUS
  <2>1. CliOpen
    BY DEF BmfsNext, Type, Cli, CliRead, CliClose, CliCall, ProgramReturns, Exception, Program,
           b_file_open, b_file_close, b_file_read, b_file_write
  <2>2. OpenAnswer(command) = 0
    BY <2>1 DEF CliOpen
  <2>3. \A n \in Entries : OpenAnswer(command) # n + FirstHandle
    BY <2>2, BmfsAssumption DEF BmfsAssumption, Entries, FirstHandle
  <2>4. PICK n \in Entries : directory[n].name = command /\ filehandlers[n] # 0
    BY <2>3, OpenFinds DEF BmfsInv
  <2>5. ~ CliHas(n)
    BY DEF CliHas
  <2>6. PICK c \in Callers : Has(c, n)
    BY <2>4, <2>5 DEF BmfsInv, OneHolder, HeldAt
  <2>7. n \in DOMAIN directory
    BY DirectoryIs DEF BmfsInv, BmfsTypeOK
  <2>8. QED
    BY <2>4, <2>6, <2>7 DEF Has
<1>2. BmfsInv /\ [ProgramsNext]_<<bmfsVars, clibVars>> =>
        [cli = "open" /\ cli' = "prompt" =>
           ~ Exists(command) \/ \E c \in Callers, n \in DOMAIN directory :
                                  directory[n].name = command /\ n + FirstHandle \in held[c]]_bmfsVars
  BY <1>1, ProgramsUseFiles
<1> QED
  BY <1>2, BmfsInvariant, PTL DEF ProgramsSpec, RefusesForReason

\* Rounding up to blocks does not go beyond what a file has reserved.
LEMMA BlocksFit ==
  ASSUME NEW count \in Nat, NEW reserved \in Nat, count <= reserved * BlockSize
  PROVE  Blocks(count) <= reserved
<1>1. BlockSize \in Nat \ {0}
  BY BmfsAssumption DEF BmfsAssumption
<1> DEFINE q == Blocks(count)
<1>2. q \in Nat /\ q * BlockSize <= count + BlockSize - 1
  <2>1. count + BlockSize - 1 \in Nat
    BY <1>1
  <2>2. QED
    BY <1>1, <2>1 DEF Blocks
<1> HIDE DEF q
<1>3. SUFFICES ASSUME q >= reserved + 1 PROVE FALSE
  BY <1>2 DEF q
<1>4. q * BlockSize >= (reserved + 1) * BlockSize
  BY <1>1, <1>2, <1>3
<1>5. (reserved + 1) * BlockSize = reserved * BlockSize + BlockSize
  BY <1>1
<1> QED
  BY <1>1, <1>2, <1>4, <1>5

\* What a step that reads makes of memory.
LEMMA ReadStep ==
  ASSUME BmfsInv, BmfsNext, NEW b \in Memory, ram'[b] # ram[b]
  PROVE  \E n \in Entries, blocks \in Nat, dest \in Nat :
           /\ filehandlers[n] # 0 /\ ram' = Read(directory[n].start, blocks, dest)
           /\ \/ b = ProgramLocation /\ dest = b /\ n + FirstHandle = handle /\ blocks = 1
              \/ \E c \in Callers, count \in Counts :
                   /\ dest .. dest + blocks - 1 \subseteq Pages[c]
                   /\ blocks = Blocks(count) /\ answer' = [answer EXCEPT ![c] = count]
<1>1. BmfsTypeOK /\ Blocks(1) = 1
  BY BlocksType DEF BmfsInv
<1>2. \A count \in Counts : count \in Nat /\ Blocks(count) \in Nat
  BY BlocksType, BmfsAssumption DEF BmfsAssumption
<1>3. CASE CliRead
  <2>1. handle \in Int /\ 1 \in Nat /\ ProgramLocation \in Nat /\ os_bmfs_file_read(handle, 1, ProgramLocation)
    BY <1>1, <1>3 DEF CliRead, BmfsTypeOK, ProgramLocation
  <2>2. PICK n \in Entries : /\ handle = n + FirstHandle /\ filehandlers[n] # 0
                             /\ ram' = Read(directory[n].start, 1, ProgramLocation)
    BY <1>1, <2>1, ReadOf
  <2>3. b = ProgramLocation
    BY <2>2, MemoryIsNat DEF Read, ProgramLocation
  <2>4. QED
    BY <2>1, <2>2, <2>3
<1>4. ASSUME NEW c \in Callers, NEW h \in Handles, NEW dest \in Pages[c], NEW count \in Counts,
             b_file_read(c, h, dest, count)
      PROVE  \E n \in Entries, blocks \in Nat, to \in Nat :
               /\ filehandlers[n] # 0 /\ ram' = Read(directory[n].start, blocks, to)
               /\ \E d \in Callers, k \in Counts :
                    /\ to .. to + blocks - 1 \subseteq Pages[d]
                    /\ blocks = Blocks(k) /\ answer' = [answer EXCEPT ![d] = k]
  <2>1. PICK n \in Entries : /\ filehandlers[n] # 0
                             /\ ram' = Read(directory[n].start, Blocks(count), dest)
                             /\ dest .. dest + Blocks(count) - 1 \subseteq Pages[c]
    BY <1>1, <1>4, ReadInPages
  <2>2. dest \in Nat /\ answer' = [answer EXCEPT ![c] = count]
    BY <1>4, MemoryIsNat DEF b_file_read
  <2>3. QED
    BY <1>2, <2>1, <2>2
<1>5. \/ CliRead
      \/ \E c \in Callers : \E h \in Handles, dest \in Pages[c], count \in Counts : b_file_read(c, h, dest, count)
  BY DEF BmfsNext, Type, Cli, CliOpen, CliClose, CliCall, ProgramReturns, Exception, Program,
         b_file_open, b_file_close, b_file_write
<1> QED
  BY <1>3, <1>4, <1>5

\* What a read changes in memory is a file that is open, block after block from its beginning; at
\* programlocation it is the one the command line has opened; and who asks for no more than the
\* file has gets nothing of the file behind it.
THEOREM ReadsAreOfTheFile == ProgramsSpec => ReadsGetTheFile
<1> DEFINE Gets(b) ==
      \E n \in DOMAIN directory :
        LET first == directory[n].start
        IN  /\ IsOpen(n)
            /\ b = ProgramLocation => n + FirstHandle = handle
            /\ ram'[b] > first => b - 1 \in Memory /\ ram'[b - 1] = ram'[b] - 1
            /\ \A c \in Callers : b \in Pages[c] /\ answer'[c] <= directory[n].size =>
                 ram'[b] \in first .. first + directory[n].reserved - 1
<1>1. ASSUME BmfsInv, BmfsNext, NEW b \in Memory, ram'[b] # ram[b] PROVE Gets(b)
  <2>1. PICK n \in Entries, blocks \in Nat, dest \in Nat :
           /\ filehandlers[n] # 0 /\ ram' = Read(directory[n].start, blocks, dest)
           /\ \/ b = ProgramLocation /\ dest = b /\ n + FirstHandle = handle /\ blocks = 1
              \/ \E c \in Callers, count \in Counts :
                   /\ dest .. dest + blocks - 1 \subseteq Pages[c]
                   /\ blocks = Blocks(count) /\ answer' = [answer EXCEPT ![c] = count]
    BY <1>1, ReadStep
  <2> DEFINE first == directory[n].start
  <2>2. /\ n \in DOMAIN directory /\ IsOpen(n) /\ first \in Nat /\ directory[n].reserved \in Nat
        /\ directory[n].size \in Nat /\ directory[n].size <= directory[n].reserved * BlockSize
    BY <1>1, <2>1, DirectoryIs DEF BmfsInv, BmfsTypeOK, IsOpen
  <2>3. b \in Nat /\ b \in dest .. dest + blocks - 1 /\ ram'[b] = first + (b - dest)
    BY <1>1, <2>1, MemoryIsNat DEF Read
  <2> HIDE DEF first
  <2>4. CASE b = ProgramLocation /\ dest = b /\ n + FirstHandle = handle /\ blocks = 1
    <3>1. ram'[b] = first
      BY <2>2, <2>3, <2>4
    <3>2. ~ (ram'[b] > first)
      BY <2>2, <3>1
    <3>3. \A c \in Callers : b \notin Pages[c]
      BY <2>4, MemoryIsNat
    <3>4. QED
      BY <2>2, <2>4, <3>2, <3>3 DEF first
  <2>5. ASSUME NEW c \in Callers, NEW count \in Counts, dest .. dest + blocks - 1 \subseteq Pages[c],
               blocks = Blocks(count), answer' = [answer EXCEPT ![c] = count]
        PROVE  Gets(b)
    <3>1. b \in Pages[c] /\ b # ProgramLocation
      BY <2>3, <2>5, MemoryIsNat
    <3>2. ASSUME ram'[b] > first PROVE b - 1 \in Memory /\ ram'[b - 1] = ram'[b] - 1
      <4>1. b - 1 \in dest .. dest + blocks - 1
        BY <2>2, <2>3, <3>2
      <4>2. b - 1 \in Memory
        BY <2>5, <4>1, MemoryIsNat
      <4>3. ram'[b - 1] = first + ((b - 1) - dest)
        BY <2>1, <4>1, <4>2 DEF Read, first
      <4>4. QED
        BY <2>2, <2>3, <4>2, <4>3
    <3>3. ASSUME NEW d \in Callers, b \in Pages[d], answer'[d] <= directory[n].size
          PROVE  ram'[b] \in first .. first + directory[n].reserved - 1
      <4>1. d = c
        BY <3>1, <3>3, BmfsAssumption DEF BmfsAssumption
      <4>2. count \in Nat /\ answer'[d] = count
        BY <1>1, <2>5, <4>1, BmfsAssumption DEF BmfsInv, BmfsTypeOK, BmfsAssumption
      <4>3. count <= directory[n].reserved * BlockSize
        <5>1. directory[n].reserved * BlockSize \in Nat
          BY <2>2, BmfsAssumption DEF BmfsAssumption
        <5>2. QED
          BY <2>2, <3>3, <4>2, <5>1
      <4>4. blocks <= directory[n].reserved
        BY <2>2, <2>5, <4>2, <4>3, BlocksFit
      <4>5. QED
        BY <2>2, <2>3, <4>4
    <3>4. QED
      BY <2>2, <3>1, <3>2, <3>3 DEF first
  <2>6. QED
    BY <2>1, <2>4, <2>5
<1>2. BmfsInv /\ [ProgramsNext]_<<bmfsVars, clibVars>> => [\A b \in Memory : ram'[b] # ram[b] => Gets(b)]_bmfsVars
  BY <1>1, ProgramsUseFiles
<1> QED
  BY <1>2, BmfsInvariant, PTL DEF ProgramsSpec, ReadsGetTheFile

-----------------------------------------------------------------------------
(* printf: numbers as characters                                           *)

\* The character of digit t.
CharOf(t, letters) == 48 + (IF t >= 10 THEN t + letters - 48 - 10 ELSE t)

\* printi writes the characters of the quotient and then that of the remainder.
LEMMA PrintiIs ==
  ASSUME NEW b \in Nat, b > 1, NEW letters \in Nat, NEW v \in Nat
  PROVE  printi(v, b, letters) = IF v < b THEN <<CharOf(v, letters)>>
                                 ELSE Append(printi(v \div b, b, letters), CharOf(v % b, letters))
<1> DEFINE Good(f) == f = [x \in Nat |-> IF x = 0 THEN <<>>
                                         ELSE Append(f[x \div b], CharOf(x % b, letters))]
           Rest == CHOOSE f : Good(f)
           Ints == Seq(Int)
           step == [x \in Nat |-> [s \in Ints |-> Append(s, CharOf(x % b, letters))]]
<1>1. \A x \in Nat : x % b \in 0 .. b - 1 /\ x \div b \in Nat
  BY QuotientIsLess
<1>2. \A t \in Nat : CharOf(t, letters) \in Int
  BY DEF CharOf
<1>3. step \in [Nat -> [Ints -> Ints]] /\ <<>> \in Ints
  BY <1>1, <1>2
<1>4. \A x \in Nat : \A s \in Ints : step[x][s] = Append(s, CharOf(x % b, letters))
  OBVIOUS
<1> HIDE DEF step, Ints
<1>5. PICK f \in [Nat -> Ints] : FromQuotient(f, <<>>, b, step)
  BY <1>3, RecursionByDivision
<1>6. ASSUME NEW x \in Nat
      PROVE  f[x] = IF x = 0 THEN <<>> ELSE Append(f[x \div b], CharOf(x % b, letters))
  <2>1. f[x] = IF x = 0 THEN <<>> ELSE step[x][f[x \div b]]
    BY <1>5 DEF FromQuotient
  <2>2. f[x \div b] \in Ints
    BY <1>1
  <2>3. QED
    BY <1>4, <2>1, <2>2
<1>7. Good(f)
  <2>1. f = [x \in Nat |-> f[x]]
    OBVIOUS
  <2>2. QED
    BY <1>6, <2>1
<1>8. Good(Rest)
  BY <1>7
<1> HIDE DEF Rest
<1> HIDE DEF Good
<1>9. \A x \in Nat : Rest[x] = IF x = 0 THEN <<>> ELSE Append(Rest[x \div b], CharOf(x % b, letters))
  BY <1>8, Zenon DEF Good
<1>10. \A x \in Nat : printi(x, b, letters) = IF x = 0 THEN <<48>> ELSE Rest[x]
  BY DEF printi, Rest, Good, CharOf
<1>11. CASE v = 0
  BY <1>10, <1>11 DEF CharOf
<1>12. CASE v # 0 /\ v < b
  <2>1. v \div b = 0 /\ v % b = v
    <3>1. b * 0 + v = v /\ b * 0 = 0
      OBVIOUS
    <3>2. v \div b = 0
      BY QuotientIs, <1>12, <3>1, b \in Nat \ {0}, 0 \in Nat
    <3>3. v = b * (v \div b) + (v % b) /\ v % b \in Nat
      BY <1>1
    <3>4. QED
      BY <3>1, <3>2, <3>3
  <2>2. Rest[0] = <<>>
    BY <1>9
  <2>3. Rest[v] = Append(Rest[v \div b], CharOf(v % b, letters))
    BY <1>9, <1>12
  <2>4. Append(<<>>, CharOf(v, letters)) = <<CharOf(v, letters)>>
    OBVIOUS
  <2>5. QED
    BY <1>10, <1>12, <2>1, <2>2, <2>3, <2>4
<1>13. CASE ~ (v < b)
  <2>1. v \div b # 0 /\ v # 0
    <3>1. v = b * (v \div b) + (v % b) /\ v % b < b
      BY <1>1
    <3>2. b * 0 = 0
      OBVIOUS
    <3>3. QED
      BY <1>13, <3>1, <3>2
  <2>2. printi(v \div b, b, letters) = Rest[v \div b]
    BY <1>1, <1>10, <2>1
  <2>3. QED
    BY <1>9, <1>10, <1>13, <2>1, <2>2
<1> QED
  BY <1>11, <1>12, <1>13

\* Induction over a number's digits: what holds of one digit, and of a number when of the number
\* without its last one, holds.
LEMMA ByDigits ==
  ASSUME NEW b \in Nat, b > 1, NEW S,
         \A v \in Nat : v < b => v \in S,
         \A v \in Nat : ~ (v < b) /\ v \div b \in S => v \in S
  PROVE  Nat \subseteq S
<1> DEFINE T == {n \in Nat : \A v \in Nat : v < n => v \in S}
<1>1. 0 \in T
  OBVIOUS
<1>2. ASSUME NEW n \in Nat, n \in T PROVE n + 1 \in T
  <2>1. ASSUME NEW v \in Nat, v < n + 1 PROVE v \in S
    <3>1. CASE v < b
      BY <3>1
    <3>2. CASE ~ (v < b)
      <4>1. v \div b \in Nat /\ v \div b < v
        BY <3>2, QuotientIsLess
      <4>2. QED
        BY <1>2, <2>1, <3>2, <4>1
    <3>3. QED
      BY <3>1, <3>2
  <2>2. QED
    BY <2>1
<1> HIDE DEF T
<1>3. Nat \subseteq T
  BY <1>1, <1>2, AllNumbers
<1>4. ASSUME NEW v \in Nat PROVE v \in S
  BY <1>3, v + 1 \in Nat DEF T
<1> QED
  BY <1>4

\* A sequence of one.
LEMMA One ==
  ASSUME NEW T, NEW c \in T
  PROVE  <<c>> \in Seq(T) /\ Len(<<c>>) = 1 /\ <<c>>[1] = c
OBVIOUS

\* printi makes at least one character.
LEMMA PrintiMakes ==
  ASSUME NEW b \in Nat, b > 1, NEW letters \in Nat, letters > 48, NEW v \in Nat
  PROVE  printi(v, b, letters) \in Seq(Nat) /\ Len(printi(v, b, letters)) >= 1
<1> DEFINE S == {x \in Nat : printi(x, b, letters) \in Seq(Nat) /\ Len(printi(x, b, letters)) >= 1}
<1>1. ASSUME NEW t \in Nat PROVE CharOf(t, letters) \in Nat
  BY DEF CharOf
<1>2. ASSUME NEW x \in Nat, x < b PROVE x \in S
  <2>1. printi(x, b, letters) = <<CharOf(x, letters)>>
    BY <1>2, PrintiIs
  <2>2. PICK c \in Nat : c = CharOf(x, letters)
    BY <1>1
  <2>3. <<c>> \in Seq(Nat) /\ Len(<<c>>) >= 1
    BY One
  <2>4. QED
    BY <2>1, <2>2, <2>3, Zenon
<1>3. ASSUME NEW x \in Nat, ~ (x < b), x \div b \in S PROVE x \in S
  <2>1. PICK s \in Seq(Nat) : s = printi(x \div b, b, letters) /\ Len(s) >= 1
    BY <1>3
  <2>2. PICK d \in Nat : d = CharOf(x % b, letters)
    BY <1>1
  <2>3. printi(x, b, letters) = Append(s, d)
    BY <1>3, <2>1, <2>2, PrintiIs
  <2>4. QED
    BY <2>1, <2>3, SMTT(40)
<1> HIDE DEF S
<1>4. Nat \subseteq S
  BY <1>2, <1>3, ByDigits
<1> QED
  BY <1>4 DEF S

DecimalFrom(f, digits) ==
  \A n \in 0 .. Len(digits) : f[n] = IF n = 0 THEN 0 ELSE 10 * f[n - 1] + digits[n] - 48

\* Decimal takes the digits in one after the other.
LEMMA DecimalIs ==
  ASSUME NEW digits \in Seq(Nat)
  PROVE  \E f \in [0 .. Len(digits) -> Int] : DecimalFrom(f, digits) /\ Decimal(digits) = f[Len(digits)]
<1> DEFINE N == Len(digits)
           Good(f) == f = [n \in 0 .. N |-> IF n = 0 THEN 0 ELSE 10 * f[n - 1] + digits[n] - 48]
           g == CHOOSE f : Good(f)
           step == [n \in 1 .. N |-> [x \in Int |-> 10 * x + digits[n] - 48]]
<1>1. N \in Nat /\ \A n \in 1 .. N : digits[n] \in Nat
  OBVIOUS
<1>2. step \in [1 .. N -> [Int -> Int]]
  BY <1>1
<1>3. \A n \in 1 .. N : \A x \in Int : step[n][x] = 10 * x + digits[n] - 48
  OBVIOUS
<1> HIDE DEF step, N
<1>4. PICK f \in [0 .. N -> Int] : Follows(f, N, 0, step)
  BY <1>1, <1>2, RecursionExists, 0 \in Int
<1>5. ASSUME NEW n \in 0 .. N PROVE f[n] = IF n = 0 THEN 0 ELSE 10 * f[n - 1] + digits[n] - 48
  <2>1. CASE n = 0
    BY <1>4, <2>1 DEF Follows
  <2>2. CASE n # 0
    <3>1. n \in 1 .. N /\ n - 1 \in 0 .. N
      BY <1>1, <2>2
    <3>2. QED
      BY <1>3, <1>4, <2>2, <3>1 DEF Follows
  <2>3. QED
    BY <2>1, <2>2
<1>6. Good(f)
  <2>1. f = [n \in 0 .. N |-> f[n]]
    OBVIOUS
  <2>2. QED
    BY <1>5, <2>1
<1>7. Good(g)
  BY <1>6
<1>8. Decimal(digits) = g[N]
  BY DEF Decimal, N
<1> HIDE DEF g
<1>9. \A n \in 0 .. N : g[n] = IF n = 0 THEN 0 ELSE 10 * g[n - 1] + digits[n] - 48
  BY <1>7, Zenon
<1>10. g \in [0 .. N -> Int]
  <2> DEFINE S == {n \in Nat : n <= N => g[n] \in Int}
  <2>1. 0 \in S
    BY <1>1, <1>9
  <2>2. ASSUME NEW n \in Nat, n \in S PROVE n + 1 \in S
    <3>1. CASE n + 1 <= N
      <4>1. n + 1 \in 0 .. N /\ n + 1 \in 1 .. N /\ (n + 1) - 1 = n /\ g[n] \in Int /\ n + 1 # 0
        BY <1>1, <2>2, <3>1
      <4>2. g[n + 1] = 10 * g[n] + digits[n + 1] - 48
        BY <1>9, <4>1
      <4>3. PICK x \in Int, d \in Int : x = g[n] /\ d = digits[n + 1]
        BY <1>1, <4>1
      <4>4. g[n + 1] \in Int
        BY <4>2, <4>3, SMTT(40)
      <4>5. QED
        BY <4>4
    <3>2. QED
      BY <3>1
  <2> HIDE DEF S
  <2>3. Nat \subseteq S
    BY <2>1, <2>2, AllNumbers
  <2>4. \A n \in 0 .. N : g[n] \in Int
    BY <1>1, <2>3 DEF S
  <2>5. g = [n \in 0 .. N |-> g[n]]
    BY <1>7
  <2>6. QED
    BY <2>4, <2>5
<1>11. DecimalFrom(g, digits)
  BY <1>9 DEF DecimalFrom, N
<1> QED
  BY <1>8, <1>10, <1>11 DEF N

\* One more digit.
LEMMA DecimalAppend ==
  ASSUME NEW digits \in Seq(Nat), NEW d \in Nat
  PROVE  /\ Decimal(<<>>) = 0
         /\ Decimal(digits) \in Int
         /\ Decimal(Append(digits, d)) = 10 * Decimal(digits) + d - 48
<1> DEFINE N == Len(digits)
           more == Append(digits, d)
<1>1. N \in Nat /\ more \in Seq(Nat) /\ Len(more) = N + 1 /\ more[N + 1] = d
  OBVIOUS
<1>2. \A n \in 1 .. N : more[n] = digits[n] /\ digits[n] \in Nat
  OBVIOUS
<1>3. PICK f \in [0 .. N -> Int] : DecimalFrom(f, digits) /\ Decimal(digits) = f[N]
  BY DecimalIs
<1>4. PICK g \in [0 .. N + 1 -> Int] : DecimalFrom(g, more) /\ Decimal(more) = g[N + 1]
  <2>1. PICK g \in [0 .. Len(more) -> Int] : DecimalFrom(g, more) /\ Decimal(more) = g[Len(more)]
    BY <1>1, DecimalIs
  <2>2. QED
    BY <1>1, <2>1
<1> HIDE DEF more
<1>5. \A n \in 0 .. N : f[n] = IF n = 0 THEN 0 ELSE 10 * f[n - 1] + digits[n] - 48
  BY <1>3 DEF DecimalFrom
<1>6. \A n \in 0 .. N + 1 : g[n] = IF n = 0 THEN 0 ELSE 10 * g[n - 1] + more[n] - 48
  BY <1>1, <1>4 DEF DecimalFrom
<1> HIDE DEF N
<1> DEFINE S == {n \in Nat : n <= N => f[n] = g[n]}
<1>7. 0 \in S
  BY <1>1, <1>5, <1>6
<1>8. ASSUME NEW n \in Nat, n \in S PROVE n + 1 \in S
  <2>1. CASE n + 1 <= N
    <3>1. n + 1 \in 0 .. N /\ n + 1 \in 0 .. N + 1 /\ n + 1 \in 1 .. N /\ (n + 1) - 1 = n /\ n + 1 # 0
      BY <1>1, <2>1
    <3>2. f[n + 1] = 10 * f[n] + digits[n + 1] - 48
      BY <1>5, <3>1
    <3>3. g[n + 1] = 10 * g[n] + more[n + 1] - 48
      BY <1>6, <3>1
    <3>4. f[n] = g[n] /\ more[n + 1] = digits[n + 1]
      BY <1>1, <1>2, <1>8, <2>1, <3>1
    <3>5. f[n + 1] = g[n + 1]
      BY <3>2, <3>3, <3>4
    <3>6. QED
      BY <3>5
  <2>2. QED
    BY <2>1
<1> HIDE DEF S
<1>9. Nat \subseteq S
  BY <1>7, <1>8, AllNumbers
<1>10. f[N] = g[N]
  BY <1>1, <1>9 DEF S
<1>11. g[N + 1] = 10 * g[N] + d - 48
  <2>1. N + 1 \in 0 .. N + 1 /\ (N + 1) - 1 = N /\ N + 1 # 0
    BY <1>1
  <2>2. QED
    BY <1>1, <1>6, <2>1
<1>12. Decimal(<<>>) = 0
  <2>1. <<>> \in Seq(Nat) /\ Len(<<>>) = 0
    OBVIOUS
  <2>2. PICK h \in [0 .. 0 -> Int] : DecimalFrom(h, <<>>) /\ Decimal(<<>>) = h[0]
    BY <2>1, DecimalIs
  <2>3. QED
    BY <2>1, <2>2 DEF DecimalFrom
<1> QED
  BY <1>1, <1>3, <1>4, <1>10, <1>11, <1>12 DEF more

\* The width that a piece is spelled with is the width that print takes in.
LEMMA WidthIs ==
  ASSUME NEW w \in Nat
  PROVE  LET s == printi(w, 10, 97)
         IN  /\ s \in Seq(Nat) /\ Len(s) >= 1
             /\ \A n \in 1 .. Len(s) : s[n] \in Digits
             /\ w # 0 => s[1] # 48
             /\ Decimal(s) = w
<1> DEFINE Good(x, s) == /\ s \in Seq(Nat) /\ Len(s) >= 1
                         /\ \A n \in 1 .. Len(s) : s[n] \in Digits
                         /\ x # 0 => s[1] # 48
                         /\ Decimal(s) = x
           S == {x \in Nat : Good(x, printi(x, 10, 97))}
<1>1. \A t \in Nat : t < 10 => CharOf(t, 97) = 48 + t /\ 48 + t \in Digits
  BY DEF CharOf, Digits
<1>2. ASSUME NEW x \in Nat, x < 10 PROVE x \in S
  <2>1. PICK s : s = printi(x, 10, 97) /\ s = <<48 + x>>
    BY <1>1, <1>2, PrintiIs, 10 \in Nat, 10 > 1, 97 \in Nat
  <2>2. Decimal(s) = x
    <3>1. s = Append(<<>>, 48 + x) /\ <<>> \in Seq(Nat) /\ 48 + x \in Nat
      BY <2>1
    <3>2. Decimal(Append(<<>>, 48 + x)) = 10 * Decimal(<<>>) + (48 + x) - 48 /\ Decimal(<<>>) = 0
      BY <3>1, DecimalAppend
    <3>3. QED
      BY <3>1, <3>2
  <2>3. s \in Seq(Nat) /\ Len(s) = 1 /\ s[1] = 48 + x /\ s[1] \in Digits
    <3>1. PICK d \in Nat : d = 48 + x /\ d \in Digits
      BY <1>1, <1>2
    <3>2. <<d>> \in Seq(Nat) /\ Len(<<d>>) = 1 /\ <<d>>[1] = d
      BY One
    <3>3. QED
      BY <2>1, <3>1, <3>2
  <2>4. \A n \in 1 .. Len(s) : s[n] \in Digits
    BY <2>3
  <2>5. x # 0 => s[1] # 48
    BY <2>3
  <2>6. QED
    BY <2>1, <2>2, <2>3, <2>4, <2>5
<1>3. ASSUME NEW x \in Nat, ~ (x < 10), x \div 10 \in S PROVE x \in S
  <2>1. PICK q \in Nat, r \in 0 .. 9 : q = x \div 10 /\ r = x % 10 /\ x = 10 * q + r /\ q # 0
    BY <1>3
  <2>2. PICK s \in Seq(Nat) : s = printi(q, 10, 97) /\ Good(q, s)
    BY <1>3, <2>1
  <2>3. 48 + r \in Nat /\ 48 + r \in Digits /\ CharOf(r, 97) = 48 + r
    BY <1>1, <2>1
  <2>4. PICK t \in Seq(Nat) : t = Append(s, 48 + r)
    BY <2>3, AppendProperties
  <2>5. t = printi(x, 10, 97)
    <3>1. printi(x, 10, 97) = IF x < 10 THEN <<CharOf(x, 97)>>
                              ELSE Append(printi(x \div 10, 10, 97), CharOf(x % 10, 97))
      BY PrintiIs, 10 \in Nat, 10 > 1, 97 \in Nat
    <3>2. QED
      BY <1>3, <2>1, <2>2, <2>3, <2>4, <3>1
  <2>6. Decimal(t) = 10 * q + (48 + r) - 48
    BY <2>2, <2>3, <2>4, DecimalAppend
  <2>7. Len(s) >= 1 /\ Len(t) = Len(s) + 1 /\ t[Len(s) + 1] = 48 + r /\ \A n \in 1 .. Len(s) : t[n] = s[n]
    BY <2>2, <2>3, <2>4
  <2>8. ASSUME NEW n \in 1 .. Len(t) PROVE t[n] \in Digits
    <3>1. CASE n \in 1 .. Len(s)
      BY <2>2, <2>7, <3>1
    <3>2. CASE n = Len(s) + 1
      BY <2>3, <2>7, <3>2
    <3>3. QED
      BY <2>7, <3>1, <3>2
  <2>9. t[1] # 48
    BY <2>1, <2>2, <2>7
  <2>10. Decimal(t) = x
    BY <2>1, <2>6
  <2>11. QED
    BY <2>5, <2>7, <2>8, <2>9, <2>10
<1> HIDE DEF S
<1>4. Nat \subseteq S
  BY <1>2, <1>3, ByDigits, 10 \in Nat, 10 > 1
<1> QED
  BY <1>4 DEF S

-----------------------------------------------------------------------------
(* The numerals *)

Twice(v, b, p) == (v \div b) \div p = v \div (b * p)

\* A quotient of a quotient.
LEMMA QuotientTwice ==
  ASSUME NEW v \in Nat, NEW b \in Nat \ {0}, NEW p \in Nat \ {0}
  PROVE  Twice(v, b, p)
<1>1. PICK q \in Nat, r \in Nat : q = v \div b /\ r = v % b /\ v = b * q + r /\ r < b
  <2>1. v \div b \in Nat
    BY Quotient
  <2>2. v = b * (v \div b) + (v % b) /\ v % b \in Nat /\ v % b < b
    OBVIOUS
  <2>3. QED
    BY <2>1, <2>2
<1>2. PICK k \in Nat, j \in Nat : k = q \div p /\ q = p * k + j /\ j < p
  <2>1. q \div p \in Nat
    BY Quotient
  <2>2. q = p * (q \div p) + (q % p) /\ q % p \in Nat /\ q % p < p
    OBVIOUS
  <2>3. QED
    BY <2>1, <2>2
<1>3. \A x, y, z \in Nat : x * (y * z + 0) = (x * y) * z /\ x * y \in Nat
  OBVIOUS
<1>4. \A x, y, z \in Nat : x * (y + z) = x * y + x * z
  OBVIOUS
<1>5. b * p \in Nat \ {0}
  OBVIOUS
<1>6. PICK m \in Nat : m = b * j /\ m + r < b * p
  <2>1. PICK i \in Nat : p = j + (1 + i)
    <3>1. p - j - 1 \in Nat /\ p = j + (1 + (p - j - 1))
      BY <1>2
    <3>2. QED
      BY <3>1
  <2>2. b * p = b * j + (b * 1 + b * i) /\ b * 1 = b /\ b * i \in Nat /\ b * j \in Nat
    BY <1>3, <1>4, <2>1
  <2>3. QED
    BY <1>1, <2>2
<1>7. v = (b * p) * k + (m + r)
  <2>1. b * q = b * (p * k) + b * j
    BY <1>2, <1>3, <1>4
  <2>2. b * (p * k) = (b * p) * k
    BY <1>3
  <2>3. (b * p) * k \in Nat
    BY <1>3
  <2>4. QED
    BY <1>1, <1>6, <2>1, <2>2, <2>3
<1>8. v \div (b * p) = k
  BY <1>5, <1>6, <1>7, QuotientIs, m + r \in Nat
<1> QED
  BY <1>1, <1>2, <1>8 DEF Twice

Lengths(f, b) == \A x \in Nat : f[x] = IF x < b THEN 1 ELSE f[x \div b] + 1
Powers(f, b) == f[0] = 1 /\ \A k \in Nat : f[k + 1] = b * f[k]

\* The number of digits is a function of the number.
LEMMA LengthsExist ==
  ASSUME NEW b \in Nat, b > 1
  PROVE  \E f \in [Nat -> Nat] : f = [x \in Nat |-> IF x < b THEN 1 ELSE f[x \div b] + 1]
<1> DEFINE step == [x \in Nat |-> [y \in Nat |-> IF x < b THEN 1 ELSE y + 1]]
<1>1. step \in [Nat -> [Nat -> Nat]] /\ 1 \in Nat
  OBVIOUS
<1>2. \A x, y \in Nat : step[x][y] = IF x < b THEN 1 ELSE y + 1
  OBVIOUS
<1> HIDE DEF step
<1>3. PICK f \in [Nat -> Nat] : FromQuotient(f, 1, b, step)
  BY <1>1, RecursionByDivision
<1>4. ASSUME NEW x \in Nat PROVE f[x] = IF x < b THEN 1 ELSE f[x \div b] + 1
  <2>1. f[x] = IF x = 0 THEN 1 ELSE step[x][f[x \div b]]
    BY <1>3 DEF FromQuotient
  <2>2. f[x \div b] \in Nat
    BY QuotientIsLess
  <2>3. step[x][f[x \div b]] = IF x < b THEN 1 ELSE f[x \div b] + 1
    BY <1>2, <2>2
  <2>4. QED
    BY <2>1, <2>3
<1>5. f = [x \in Nat |-> f[x]]
  OBVIOUS
<1> QED
  BY <1>4, <1>5

\* The powers of a base are a function of the exponent.
LEMMA PowersExist ==
  ASSUME NEW b \in Nat, b > 1
  PROVE  \E f \in [Nat -> Nat] : f = [k \in Nat |-> IF k = 0 THEN 1 ELSE b * f[k - 1]]
<1> DEFINE step == [x \in Nat |-> b * x]
<1>1. step \in [Nat -> Nat] /\ 1 \in Nat
  OBVIOUS
<1>2. \A x \in Nat : step[x] = b * x
  OBVIOUS
<1> HIDE DEF step
<1>3. PICK f \in [Nat -> Nat] : Iterates(f, 1, step)
  BY <1>1, RecursionOnNat
<1>4. ASSUME NEW k \in Nat PROVE f[k] = IF k = 0 THEN 1 ELSE b * f[k - 1]
  <2>1. CASE k = 0
    BY <1>3, <2>1 DEF Iterates
  <2>2. CASE k # 0
    <3>1. k - 1 \in Nat /\ (k - 1) + 1 = k
      BY <2>2
    <3>2. f[k] = step[f[k - 1]] /\ f[k - 1] \in Nat
      BY <1>3, <3>1 DEF Iterates
    <3>3. QED
      BY <1>2, <2>2, <3>2
  <2>3. QED
    BY <2>1, <2>2
<1>5. f = [k \in Nat |-> f[k]]
  OBVIOUS
<1> QED
  BY <1>4, <1>5

\* The digits of a numeral: those of the quotient, and the remainder.
LEMMA NumeralIs ==
  ASSUME NEW b \in Nat, b > 1, NEW letters \in Nat, letters > 48
  PROVE  \E len \in [Nat -> Nat], pow \in [Nat -> Nat \ {0}] :
           /\ Lengths(len, b) /\ Powers(pow, b)
           /\ \A v \in Nat : Numeral(v, b, letters) =
                [n \in 1 .. len[v] |-> CharOf((v \div pow[len[v] - n]) % b, letters)]
<1> DEFINE IsLength(f) == f = [x \in Nat |-> IF x < b THEN 1 ELSE f[x \div b] + 1]
           IsPower(f) == f = [k \in Nat |-> IF k = 0 THEN 1 ELSE b * f[k - 1]]
           len == CHOOSE f : IsLength(f)
           pow == CHOOSE f : IsPower(f)
           Letter(d) == IF d < 10 THEN 48 + d ELSE letters + d - 10
<1>1. \A v : Numeral(v, b, letters) =
               [n \in 1 .. len[v] |-> Letter((v \div pow[len[v] - n]) % b)]
  BY DEF Numeral
<1>2. IsLength(len)
  BY LengthsExist
<1>3. IsPower(pow)
  BY PowersExist
<1> HIDE DEF len, pow
<1>4. DOMAIN len = Nat /\ \A x \in Nat : len[x] = IF x < b THEN 1 ELSE len[x \div b] + 1
  BY <1>2
<1>5. DOMAIN pow = Nat /\ \A k \in Nat : pow[k] = IF k = 0 THEN 1 ELSE b * pow[k - 1]
  BY <1>3
<1>6. ASSUME NEW v \in Nat PROVE len[v] \in Nat
  <2> DEFINE S == {x \in Nat : len[x] \in Nat}
  <2>1. \A x \in Nat : x < b => x \in S
    BY <1>4
  <2>2. ASSUME NEW x \in Nat, ~ (x < b), x \div b \in S PROVE x \in S
    BY <1>4, <2>2
  <2> HIDE DEF S
  <2>3. Nat \subseteq S
    BY <2>1, <2>2, ByDigits
  <2>4. QED
    BY <2>3 DEF S
<1>7. ASSUME NEW k \in Nat PROVE pow[k + 1] = b * pow[k]
  <2>1. k + 1 \in Nat /\ k + 1 # 0 /\ (k + 1) - 1 = k
    OBVIOUS
  <2>2. QED
    BY <1>5, <2>1
<1>8. ASSUME NEW k \in Nat PROVE pow[k] \in Nat \ {0}
  <2> DEFINE S == {x \in Nat : pow[x] \in Nat \ {0}}
  <2>1. 0 \in S
    BY <1>5
  <2>2. ASSUME NEW x \in Nat, x \in S PROVE x + 1 \in S
    <3>1. PICK p \in Nat \ {0} : p = pow[x] /\ pow[x + 1] = b * p
      BY <1>7, <2>2
    <3>2. b * p \in Nat \ {0}
      OBVIOUS
    <3>3. QED
      BY <3>1, <3>2
  <2> HIDE DEF S
  <2>3. Nat \subseteq S
    BY <2>1, <2>2, AllNumbers
  <2>4. QED
    BY <2>3 DEF S
<1>9. len \in [Nat -> Nat] /\ Lengths(len, b)
  <2>1. len = [x \in Nat |-> len[x]]
    BY <1>2
  <2>2. QED
    BY <1>4, <1>6, <2>1 DEF Lengths
<1>10. pow \in [Nat -> Nat \ {0}] /\ Powers(pow, b)
  <2>1. pow = [k \in Nat |-> pow[k]]
    BY <1>3
  <2>2. pow[0] = 1
    BY <1>5
  <2>3. QED
    BY <1>7, <1>8, <2>1, <2>2 DEF Powers
<1> HIDE DEF Letter
<1>11. \A d \in Nat : Letter(d) = CharOf(d, letters)
  BY DEF Letter, CharOf
<1>12. ASSUME NEW v \in Nat
       PROVE  Numeral(v, b, letters) = [n \in 1 .. len[v] |-> CharOf((v \div pow[len[v] - n]) % b, letters)]
  <2>1. ASSUME NEW n \in 1 .. len[v]
        PROVE  Letter((v \div pow[len[v] - n]) % b) = CharOf((v \div pow[len[v] - n]) % b, letters)
    <3>1. len[v] - n \in Nat
      BY <1>6
    <3>2. PICK p \in Nat \ {0} : p = pow[len[v] - n]
      BY <1>8, <3>1
    <3>3. (v \div p) % b \in Nat
      BY Quotient
    <3>4. QED
      BY <1>11, <3>2, <3>3
  <2>2. QED
    BY <1>1, <2>1
<1> QED
  BY <1>9, <1>10, <1>12

\* printi makes the numeral.
LEMMA PrintiIsNumeral ==
  ASSUME NEW b \in Nat, b > 1, NEW letters \in Nat, letters > 48, NEW v \in Nat
  PROVE  printi(v, b, letters) = Numeral(v, b, letters)
<1>1. PICK len \in [Nat -> Nat], pow \in [Nat -> Nat \ {0}] :
           /\ Lengths(len, b) /\ Powers(pow, b)
           /\ \A x \in Nat : Numeral(x, b, letters) =
                [n \in 1 .. len[x] |-> CharOf((x \div pow[len[x] - n]) % b, letters)]
  BY NumeralIs
<1> DEFINE Digit(x, n) == CharOf((x \div pow[len[x] - n]) % b, letters)
<1>2. pow[0] = 1 /\ \A x \in Nat : x \div 1 = x
  BY <1>1 DEF Powers
<1>3. ASSUME NEW t \in Nat PROVE CharOf(t, letters) \in Nat
  BY DEF CharOf
<1>4. \A x \in Nat : x % b \in Nat
  OBVIOUS
<1>5. \A x \in Nat : Numeral(x, b, letters) = [n \in 1 .. len[x] |-> Digit(x, n)]
  BY <1>1
<1>6. \A x \in Nat : Digit(x, len[x]) = CharOf(x % b, letters)
  BY <1>2
<1> HIDE DEF Digit
<1>7. ASSUME NEW x \in Nat, x < b PROVE printi(x, b, letters) = Numeral(x, b, letters)
  <2>1. len[x] = 1
    BY <1>1, <1>7 DEF Lengths
  <2>2. x % b = x
    BY <1>7
  <2>3. PICK c \in Nat : c = CharOf(x, letters) /\ Digit(x, 1) = c
    BY <1>3, <1>6, <2>1, <2>2
  <2>4. Numeral(x, b, letters) = [n \in 1 .. 1 |-> Digit(x, n)]
    BY <1>5, <2>1
  <2>5. [n \in 1 .. 1 |-> Digit(x, n)] = <<c>>
    BY <2>3
  <2>6. printi(x, b, letters) = <<c>>
    BY <1>7, <2>3, PrintiIs
  <2>7. QED
    BY <2>4, <2>5, <2>6
<1>8. ASSUME NEW x \in Nat, ~ (x < b), printi(x \div b, b, letters) = Numeral(x \div b, b, letters)
      PROVE  printi(x, b, letters) = Numeral(x, b, letters)
  <2>1. PICK q \in Nat, l \in Nat : q = x \div b /\ l = len[q] /\ len[x] = l + 1
    <3>1. x \div b \in Nat
      BY QuotientIsLess
    <3>2. QED
      BY <1>1, <1>8, <3>1 DEF Lengths
  <2>2. PICK d \in Nat : d = CharOf(x % b, letters)
    BY <1>3, <1>4
  <2>3. PICK s \in Seq(Nat) : s = printi(q, b, letters)
    BY PrintiMakes
  <2>4. s = [n \in 1 .. l |-> Digit(q, n)]
    BY <1>5, <1>8, <2>1, <2>3
  <2>5. Len(s) = l /\ \A n \in 1 .. l : s[n] = Digit(q, n)
    BY <2>1, <2>4
  <2>6. ASSUME NEW n \in 1 .. l PROVE Digit(x, n) = Digit(q, n)
    <3>1. PICK k \in Nat : k = l - n /\ (l + 1) - n = k + 1
      <4>1. l - n \in Nat /\ (l + 1) - n = (l - n) + 1
        OBVIOUS
      <4>2. QED
        BY <4>1
    <3>2. pow[k + 1] = b * pow[k] /\ pow[k] \in Nat \ {0}
      BY <1>1 DEF Powers
    <3>3. (x \div b) \div pow[k] = x \div (b * pow[k])
      <4>1. PICK p \in Nat \ {0} : p = pow[k]
        BY <3>2
      <4>2. b \in Nat \ {0}
        OBVIOUS
      <4>3. Twice(x, b, p)
        BY <4>2, QuotientTwice
      <4>4. QED
        BY <4>1, <4>3 DEF Twice
    <3>4. q \div pow[len[q] - n] = x \div pow[len[x] - n]
      BY <2>1, <3>1, <3>2, <3>3
    <3>5. QED
      BY <3>4 DEF Digit
  <2>7. Digit(x, l + 1) = d
    BY <1>6, <2>1, <2>2
  <2>8. PICK t \in Seq(Nat) : t = Append(s, d) /\ t = printi(x, b, letters)
    <3>1. Append(s, d) \in Seq(Nat)
      BY AppendProperties
    <3>2. printi(x, b, letters) = Append(s, d)
      BY <1>8, <2>1, <2>2, <2>3, PrintiIs
    <3>3. QED
      BY <3>1, <3>2
  <2>9. Len(t) = l + 1 /\ t[l + 1] = d /\ \A n \in 1 .. l : t[n] = s[n]
    <3>1. PICK u : u = Append(s, d)
      OBVIOUS
    <3>2. Len(u) = Len(s) + 1 /\ u[Len(s) + 1] = d /\ \A n \in 1 .. Len(s) : u[n] = s[n]
      BY <3>1, AppendProperties
    <3>3. QED
      BY <2>5, <2>8, <3>1, <3>2
  <2>10. t = [n \in 1 .. l + 1 |-> t[n]]
    BY <2>9
  <2>11. ASSUME NEW n \in 1 .. l + 1 PROVE t[n] = Digit(x, n)
    <3>1. CASE n \in 1 .. l
      BY <2>5, <2>6, <2>9, <3>1
    <3>2. CASE n = l + 1
      BY <2>7, <2>9, <3>2
    <3>3. n \in 1 .. l \/ n = l + 1
      OBVIOUS
    <3>4. QED
      BY <3>1, <3>2, <3>3
  <2>12. Numeral(x, b, letters) = [n \in 1 .. l + 1 |-> Digit(x, n)]
    BY <1>5, <2>1
  <2>13. t = Numeral(x, b, letters)
    BY <2>10, <2>11, <2>12
  <2>14. QED
    BY <2>8, <2>13
<1> DEFINE S == {x \in Nat : printi(x, b, letters) = Numeral(x, b, letters)}
<1>9. /\ \A x \in Nat : x < b => x \in S
      /\ \A x \in Nat : ~ (x < b) /\ x \div b \in S => x \in S
  BY <1>7, <1>8
<1> HIDE DEF S
<1>10. Nat \subseteq S
  BY <1>9, ByDigits
<1> QED
  BY <1>10 DEF S

-----------------------------------------------------------------------------
(* Conversions *)

\* The characters of the conversions.
LEMMA ConversionsAre ==
  /\ Range(Conversions) = {115, 99, 100, 117, 120, 88}
  /\ Conversions.s = 115 /\ Conversions.c = 99 /\ Conversions.d = 100
  /\ Conversions.u = 117 /\ Conversions.x = 120 /\ Conversions.X = 88
<1>1. DOMAIN Conversions = {"s", "c", "d", "u", "x", "X"}
  BY DEF Conversions
<1>2. /\ Conversions["s"] = 115 /\ Conversions["c"] = 99 /\ Conversions["d"] = 100
      /\ Conversions["u"] = 117 /\ Conversions["x"] = 120 /\ Conversions["X"] = 88
  BY DEF Conversions
<1>3. Range(Conversions) = {Conversions["s"], Conversions["c"], Conversions["d"],
                            Conversions["u"], Conversions["x"], Conversions["X"]}
  BY <1>1 DEF Range
<1> QED
  BY <1>2, <1>3

Laid(field, width, left, zero) ==
  LET length == Max({Len(field), width})
      first == IF left THEN 1 ELSE length - Len(field) + 1
  IN  [n \in 1 .. length |-> IF n \in first .. first + Len(field) - 1 THEN field[n - first + 1]
                             ELSE IF zero THEN 48 ELSE 32]

\* prints lays a field out as C says.
LEMMA PrintsLays ==
  ASSUME NEW field \in Seq(Nat), NEW width \in Nat, NEW left \in BOOLEAN, NEW zero \in BOOLEAN
  PROVE  /\ prints(field, width, left, zero) \in Seq(Nat)
         /\ prints(field, width, left, zero) = Laid(field, width, left, zero)
<1> DEFINE fill == IF zero THEN 48 ELSE 32
           filler == [n \in 1 .. width - Len(field) |-> fill]
           length == Max({Len(field), width})
           first == IF left THEN 1 ELSE length - Len(field) + 1
           laid == Laid(field, width, left, zero)
           string == prints(field, width, left, zero)
<1>1. Len(field) \in Nat /\ fill \in Nat
  OBVIOUS
<1>2. PICK l \in Nat : l = length /\ l >= Len(field) /\ l >= width /\ l \in {Len(field), width}
  <2>1. \E x \in {Len(field), width} : \A y \in {Len(field), width} : x >= y
    BY <1>1
  <2>2. length \in {Len(field), width} /\ \A y \in {Len(field), width} : length >= y
    BY <2>1 DEF Max
  <2>3. QED
    BY <1>1, <2>2
<1>3. laid = [n \in 1 .. length |-> IF n \in first .. first + Len(field) - 1 THEN field[n - first + 1] ELSE fill]
  BY DEF Laid
<1>4. string = IF left THEN field \o filler ELSE filler \o field
  BY DEF prints
<1> HIDE DEF fill, laid, string, length
<1>5. filler \in Seq(Nat) /\ Len(filler) = l - Len(field) /\ \A n \in 1 .. Len(filler) : filler[n] = fill
  <2>1. 1 .. width - Len(field) = 1 .. l - Len(field)
    BY <1>1, <1>2
  <2>2. PICK k \in Nat : k = l - Len(field)
    BY <1>1, <1>2
  <2>3. filler = [n \in 1 .. k |-> fill]
    BY <2>1, <2>2
  <2>4. [n \in 1 .. k |-> fill] \in Seq(Nat) /\ Len([n \in 1 .. k |-> fill]) = k
    BY <1>1
  <2>5. QED
    BY <2>2, <2>3, <2>4
<1> HIDE DEF filler
<1>6. CASE left
  <2>1. string = field \o filler
    BY <1>4, <1>6
  <2>2. string \in Seq(Nat) /\ Len(string) = l
    BY <1>1, <1>2, <1>5, <2>1, ConcatProperties
  <2>3. ASSUME NEW n \in 1 .. l
        PROVE  string[n] = IF n \in first .. first + Len(field) - 1 THEN field[n - first + 1] ELSE fill
    <3>1. string[n] = IF n <= Len(field) THEN field[n] ELSE filler[n - Len(field)]
      BY <1>1, <1>2, <1>5, <2>1, ConcatProperties
    <3>2. first = 1
      BY <1>6
    <3>3. n <= Len(field) <=> n \in 1 .. 1 + Len(field) - 1
      BY <1>1
    <3>4. ~ (n <= Len(field)) => n - Len(field) \in 1 .. Len(filler)
      BY <1>1, <1>2, <1>5
    <3>5. n - 1 + 1 = n
      OBVIOUS
    <3>6. QED
      BY <1>5, <3>1, <3>2, <3>3, <3>4, <3>5
  <2>4. string = [n \in 1 .. l |-> string[n]]
    BY <2>2
  <2>5. QED
    BY <1>2, <1>3, <2>2, <2>3, <2>4 DEF laid, string
<1>7. CASE ~ left
  <2>1. string = filler \o field
    BY <1>4, <1>7
  <2>2. string \in Seq(Nat) /\ Len(string) = l
    BY <1>1, <1>2, <1>5, <2>1, ConcatProperties
  <2>3. ASSUME NEW n \in 1 .. l
        PROVE  string[n] = IF n \in first .. first + Len(field) - 1 THEN field[n - first + 1] ELSE fill
    <3>1. string[n] = IF n <= Len(filler) THEN filler[n] ELSE field[n - Len(filler)]
      <4>1. n \in 1 .. Len(filler) + Len(field)
        BY <1>1, <1>2, <1>5
      <4>2. (filler \o field)[n] = IF n <= Len(filler) THEN filler[n] ELSE field[n - Len(filler)]
        BY <1>5, <4>1, ConcatProperties
      <4>3. QED
        BY <2>1, <4>2
    <3>2. first = Len(filler) + 1
      BY <1>2, <1>5, <1>7
    <3> HIDE DEF first
    <3>3. n <= Len(filler) <=> ~ (n \in first .. first + Len(field) - 1)
      BY <1>1, <1>2, <1>5, <3>2
    <3>4. n <= Len(filler) => n \in 1 .. Len(filler)
      BY <1>1, <1>2, <1>5
    <3>5. n - first + 1 = n - Len(filler)
      <4>1. Len(filler) \in Nat
        BY <1>5, LenProperties
      <4>2. QED
        BY <3>2, <4>1
    <3>6. QED
      BY <1>5, <3>1, <3>3, <3>4, <3>5
  <2>4. string = [n \in 1 .. l |-> string[n]]
    BY <2>2
  <2>5. QED
    BY <1>2, <1>3, <2>2, <2>3, <2>4 DEF laid, string
<1> QED
  BY <1>6, <1>7

\* The text of a conversion, every number taken as it is.
TextOf(p, a) ==
  LET v == a.num % Limit(p.long)
  IN  CASE p.conv = Conversions.s -> IF a.str = <<NUL>> THEN null ELSE a.str
        [] p.conv = Conversions.c -> <<a.chr>>
        [] p.conv = Conversions.x -> Numeral(v, 16, 97)
        [] p.conv = Conversions.X -> Numeral(v, 16, 65)
        [] OTHER -> Numeral(v, 10, 97)

\* What print shows for a conversion, position by position; what C means by it, but for 0 and -
\* together and for negative numbers (ShownIsMeant).
Shown(p, a) == Laid(TextOf(p, a), p.width, p.left, p.zero)

\* A conversion puts out what it shows.
LEMMA ConversionMeans ==
  ASSUME NEW p \in Pieces, ~ p.plain, NEW a \in Arguments
  PROVE  /\ TextOf(p, a) \in Seq(Nat)
         /\ prints(Converted(p.conv, p.long, a), p.width, p.left, p.zero) \in Seq(Nat)
         /\ prints(Converted(p.conv, p.long, a), p.width, p.left, p.zero) = Shown(p, a)
<1> DEFINE v == a.num % Limit(p.long)
           field == TextOf(p, a)
           made == Converted(p.conv, p.long, a)
<1>1. /\ p.conv \in {115, 99, 100, 117, 120, 88} /\ p.width \in Nat
      /\ p.left \in BOOLEAN /\ p.zero \in BOOLEAN /\ p.long \in BOOLEAN
  BY ConversionsAre DEF Pieces
<1>2. a.num \in Nat /\ a.chr \in Nat /\ (a.str \in Seq(Nat) \/ a.str = <<NUL>>)
  <2>1. a.num \in Nat /\ a.chr \in Nat /\ (a.str \in Seq(Nat \ {NUL}) \/ a.str = <<NUL>>)
    BY DEF Arguments
  <2>2. \A s \in Seq(Nat \ {NUL}) : s \in Seq(Nat)
    BY SeqMonotonic, Nat \ {NUL} \subseteq Nat
  <2>3. QED
    BY <2>1, <2>2
<1>3. v \in Nat
  BY <1>1, <1>2, ClibAssumption DEF ClibAssumption, Limit
<1>4. /\ printi(v, 10, 97) = Numeral(v, 10, 97) /\ printi(v, 10, 97) \in Seq(Nat)
      /\ printi(v, 16, 97) = Numeral(v, 16, 97) /\ printi(v, 16, 97) \in Seq(Nat)
      /\ printi(v, 16, 65) = Numeral(v, 16, 65) /\ printi(v, 16, 65) \in Seq(Nat)
  <2> HIDE DEF v
  <2>1. 10 \in Nat /\ 10 > 1 /\ 16 \in Nat /\ 16 > 1 /\ 97 \in Nat /\ 97 > 48 /\ 65 \in Nat /\ 65 > 48
    OBVIOUS
  <2>2. \A b, letters \in Nat : b > 1 /\ letters > 48 =>
          printi(v, b, letters) = Numeral(v, b, letters) /\ printi(v, b, letters) \in Seq(Nat)
    BY <1>3, PrintiIsNumeral, PrintiMakes
  <2>3. QED
    BY <2>1, <2>2
<1>5. made = CASE p.conv = Conversions.s -> IF a.str = <<NUL>> THEN null ELSE a.str
               [] p.conv = Conversions.c -> <<a.chr>>
               [] p.conv \in {Conversions.d, Conversions.u} -> printi(v, 10, 97)
               [] p.conv = Conversions.x -> printi(v, 16, 97)
               [] p.conv = Conversions.X -> printi(v, 16, 65)
  BY DEF Converted
<1>6. field = CASE p.conv = Conversions.s -> IF a.str = <<NUL>> THEN null ELSE a.str
                [] p.conv = Conversions.c -> <<a.chr>>
                [] p.conv = Conversions.x -> Numeral(v, 16, 97)
                [] p.conv = Conversions.X -> Numeral(v, 16, 65)
                [] OTHER -> Numeral(v, 10, 97)
  BY DEF TextOf
<1> HIDE DEF v, made, field
<1>7. null \in Seq(Nat)
  BY DEF null
<1>8. made = field /\ field \in Seq(Nat)
  <2>1. CASE p.conv = 115
    BY <1>2, <1>5, <1>6, <1>7, <2>1, ConversionsAre
  <2>2. CASE p.conv = 99
    BY <1>2, <1>5, <1>6, <2>2, ConversionsAre, One
  <2>3. CASE p.conv \in {100, 117}
    <3>1. made = printi(v, 10, 97)
      BY <1>5, <2>3, ConversionsAre
    <3>2. field = Numeral(v, 10, 97)
      BY <1>6, <2>3, ConversionsAre
    <3>3. QED
      BY <1>4, <3>1, <3>2
  <2>4. CASE p.conv = 120
    BY <1>4, <1>5, <1>6, <2>4, ConversionsAre
  <2>5. CASE p.conv = 88
    BY <1>4, <1>5, <1>6, <2>5, ConversionsAre
  <2>6. QED
    BY <1>1, <2>1, <2>2, <2>3, <2>4, <2>5
<1>9. prints(made, p.width, p.left, p.zero) \in Seq(Nat) /\ prints(made, p.width, p.left, p.zero) = Shown(p, a)
  BY <1>1, <1>8, PrintsLays, ZenonT(60) DEF Shown, field
<1> QED
  BY <1>8, <1>9 DEF made, field

\* What is shown for a number that is not negative, without 0 and - together, is what C means.
LEMMA ShownIsMeant ==
  ASSUME NEW p \in Pieces, ~ p.plain, NEW a \in Arguments, ~ (p.zero /\ p.left), ~ Negative(p, a)
  PROVE  Shown(p, a) = Meaning(p, a)
<1> DEFINE text == TextOf(p, a)
<1>1. p.left \in BOOLEAN /\ p.zero \in BOOLEAN
  BY DEF Pieces
<1>2. text \in Seq(Nat) /\ Len(text) \in Nat
  BY ConversionMeans, LenProperties
<1>3. Meaning(p, a) =
        LET zeros == p.zero /\ ~ p.left
            length == Max({0 + Len(text), p.width})
            first == IF p.left THEN 0 + 1 ELSE length - Len(text) + 1
        IN  [n \in 1 .. length |-> IF n \in first .. first + Len(text) - 1 THEN text[n - first + 1]
                                   ELSE IF 0 = 1 /\ n = (IF zeros THEN 1 ELSE first - 1) THEN Minus
                                   ELSE IF zeros THEN 48 ELSE 32]
  BY DEF Meaning, TextOf
<1> HIDE DEF text
<1>4. 0 + Len(text) = Len(text)
  BY <1>2
<1>5. (p.zero /\ ~ p.left) = p.zero
  BY <1>1
<1>6. Meaning(p, a) = Laid(text, p.width, p.left, p.zero)
  BY <1>3, <1>4, <1>5 DEF Laid
<1> QED
  BY <1>6 DEF Shown, text

-----------------------------------------------------------------------------
(* Spelling *)

Optional(said, c) == IF said THEN <<c>> ELSE <<>>

\* A character that is there or not.
LEMMA OptionalIs ==
  ASSUME NEW said \in BOOLEAN, NEW c \in Nat
  PROVE  /\ Optional(said, c) \in Seq(Nat)
         /\ Len(Optional(said, c)) = IF said THEN 1 ELSE 0
         /\ said => Optional(said, c)[1] = c
BY One DEF Optional

\* Where the parts of a conversion stand: the -, the zeros, the width, the l and the conversion.
SpelledAs(s, p, zeros, digits, size, conv) ==
  /\ s \in Seq(Nat) /\ Len(s) = conv
  /\ digits \in Nat /\ size \in Nat /\ conv \in Nat
  /\ zeros = (IF p.left THEN 3 ELSE 2) /\ digits = (IF p.zero THEN zeros + 1 ELSE zeros)
  /\ digits <= size /\ conv = IF p.long THEN size + 1 ELSE size
  /\ s[1] = Percent
  /\ p.left => s[2] = Minus
  /\ ~ p.left => s[2] # Minus
  /\ s[2] # NUL /\ s[2] # Percent
  /\ p.zero => s[zeros] = 48
  /\ s[digits] # 48
  /\ \A n \in digits .. size - 1 : s[n] \in Digits
  /\ s[size] \notin Digits
  /\ p.long => s[size] = Long
  /\ ~ p.long => s[size] # Long
  /\ s[conv] = p.conv
  /\ Decimal(SubSeq(s, digits, size - 1)) = p.width

\* A conversion is spelled with its parts in this order, and its width in digits.
LEMMA ConversionIsSpelled ==
  ASSUME NEW p \in Pieces, ~ p.plain
  PROVE  \E zeros, digits, size, conv \in Nat : SpelledAs(Spelled(p), p, zeros, digits, size, conv)
<1> DEFINE A == Optional(p.left, Minus)
           Z == Optional(p.zero, 48)
           W == IF p.width = 0 THEN <<>> ELSE printi(p.width, 10, 97)
           L == Optional(p.long, Long)
           s1 == <<Percent>> \o A
           s2 == s1 \o Z
           s3 == s2 \o W
           s4 == s3 \o L
           s == s4 \o <<p.conv>>
           zeros == Len(s1) + 1
           digits == Len(s2) + 1
           size == Len(s3) + 1
           conv == Len(s4) + 1
<1>1. /\ p.conv \in {115, 99, 100, 117, 120, 88} /\ p.width \in Nat
      /\ p.left \in BOOLEAN /\ p.zero \in BOOLEAN /\ p.long \in BOOLEAN
  BY ConversionsAre DEF Pieces
<1>2. Percent = 37 /\ Minus = 45 /\ Long = 108 /\ NUL = 0 /\ Digits = 48 .. 57
  BY DEF Percent, Minus, Long, NUL, Digits
<1>3. Spelled(p) = s
  BY DEF Spelled, Optional
<1>4. A \in Seq(Nat) /\ Len(A) = (IF p.left THEN 1 ELSE 0) /\ (p.left => A[1] = Minus)
  BY <1>1, <1>2, OptionalIs, Minus \in Nat, ZenonT(60)
<1>5. Z \in Seq(Nat) /\ Len(Z) = (IF p.zero THEN 1 ELSE 0) /\ (p.zero => Z[1] = 48)
  BY <1>1, OptionalIs, 48 \in Nat
<1>6. L \in Seq(Nat) /\ Len(L) = (IF p.long THEN 1 ELSE 0) /\ (p.long => L[1] = Long)
  BY <1>1, <1>2, OptionalIs, Long \in Nat, ZenonT(60)
<1>7. /\ W \in Seq(Nat) /\ (\A n \in 1 .. Len(W) : W[n] \in Digits)
      /\ (Len(W) # 0 => W[1] # 48) /\ Decimal(W) = p.width
  <2>1. CASE p.width = 0
    <3>1. W = <<>> /\ W \in Seq(Nat) /\ Len(W) = 0
      BY <2>1
    <3>2. Decimal(<<>>) = 0
      BY <3>1, DecimalAppend, 0 \in Nat
    <3>3. QED
      BY <2>1, <3>1, <3>2
  <2>2. CASE p.width # 0
    BY <1>1, <2>2, WidthIs
  <2>3. QED
    BY <2>1, <2>2
<1>8. <<Percent>> \in Seq(Nat) /\ Len(<<Percent>>) = 1 /\ <<Percent>>[1] = Percent
  BY <1>2, One
<1>9. <<p.conv>> \in Seq(Nat) /\ Len(<<p.conv>>) = 1 /\ <<p.conv>>[1] = p.conv
  BY <1>1, One
<1> HIDE DEF A, Z, W, L
<1>10. \A x, y \in Seq(Nat) : /\ x \o y \in Seq(Nat) /\ Len(x) \in Nat /\ Len(y) \in Nat
                              /\ Len(x \o y) = Len(x) + Len(y)
                              /\ \A n \in 1 .. Len(x) : (x \o y)[n] = x[n]
                              /\ \A n \in 1 .. Len(y) : (x \o y)[Len(x) + n] = y[n]
  <2>1. ASSUME NEW x \in Seq(Nat), NEW y \in Seq(Nat)
        PROVE  /\ \A n \in 1 .. Len(x) : (x \o y)[n] = x[n]
               /\ \A n \in 1 .. Len(y) : (x \o y)[Len(x) + n] = y[n]
    OBVIOUS
  <2>2. QED
    BY <2>1, ConcatProperties, LenProperties
<1>11. /\ s1 \in Seq(Nat) /\ Len(s1) = 1 + Len(A) /\ s1[1] = Percent
       /\ \A n \in 1 .. Len(A) : s1[1 + n] = A[n]
  BY <1>4, <1>8, <1>10
<1> HIDE DEF s1
<1>12. /\ s2 \in Seq(Nat) /\ Len(s2) = Len(s1) + Len(Z)
       /\ \A n \in 1 .. Len(s1) : s2[n] = s1[n]
       /\ \A n \in 1 .. Len(Z) : s2[Len(s1) + n] = Z[n]
  BY <1>5, <1>10, <1>11
<1> HIDE DEF s2
<1>13. /\ s3 \in Seq(Nat) /\ Len(s3) = Len(s2) + Len(W)
       /\ \A n \in 1 .. Len(s2) : s3[n] = s2[n]
       /\ \A n \in 1 .. Len(W) : s3[Len(s2) + n] = W[n]
  BY <1>7, <1>10, <1>12
<1> HIDE DEF s3
<1>14. /\ s4 \in Seq(Nat) /\ Len(s4) = Len(s3) + Len(L)
       /\ \A n \in 1 .. Len(s3) : s4[n] = s3[n]
       /\ \A n \in 1 .. Len(L) : s4[Len(s3) + n] = L[n]
  BY <1>6, <1>10, <1>13
<1> HIDE DEF s4
<1>15. /\ s \in Seq(Nat) /\ Len(s) = Len(s4) + 1
       /\ \A n \in 1 .. Len(s4) : s[n] = s4[n]
       /\ s[Len(s4) + 1] = p.conv
  BY <1>9, <1>10, <1>14
<1> HIDE DEF s
<1>16. /\ Len(A) \in Nat /\ Len(Z) \in Nat /\ Len(W) \in Nat /\ Len(L) \in Nat
       /\ Len(s1) \in Nat /\ Len(s2) \in Nat /\ Len(s3) \in Nat /\ Len(s4) \in Nat
  BY <1>4, <1>5, <1>6, <1>7, <1>11, <1>12, <1>13, <1>14
<1>17. /\ zeros \in Nat /\ digits \in Nat /\ size \in Nat /\ conv \in Nat
       /\ zeros = (IF p.left THEN 3 ELSE 2) /\ digits = (IF p.zero THEN zeros + 1 ELSE zeros)
       /\ digits <= size /\ conv = IF p.long THEN size + 1 ELSE size
  <2>1. Len(s1) + 1 = IF p.left THEN 3 ELSE 2
    BY <1>1, <1>4, <1>11
  <2>2. Len(s2) + 1 = IF p.zero THEN (Len(s1) + 1) + 1 ELSE Len(s1) + 1
    BY <1>1, <1>5, <1>12, <1>16
  <2>3. Len(s2) + 1 <= Len(s3) + 1
    BY <1>13, <1>16
  <2>4. Len(s4) + 1 = IF p.long THEN (Len(s3) + 1) + 1 ELSE Len(s3) + 1
    BY <1>1, <1>6, <1>14, <1>16
  <2>5. Len(s1) + 1 \in Nat /\ Len(s2) + 1 \in Nat /\ Len(s3) + 1 \in Nat /\ Len(s4) + 1 \in Nat
    BY <1>16
  <2>6. QED
    BY <2>1, <2>2, <2>3, <2>4, <2>5
<1>18. /\ \A n \in 1 .. Len(s1) : s[n] = s1[n]
       /\ \A n \in 1 .. Len(Z) : s[Len(s1) + n] = Z[n]
       /\ \A n \in 1 .. Len(W) : s[Len(s2) + n] = W[n]
       /\ \A n \in 1 .. Len(L) : s[Len(s3) + n] = L[n]
  <2>1. ASSUME NEW n \in 1 .. Len(s1) PROVE s[n] = s1[n]
    BY <1>12, <1>13, <1>14, <1>15, <1>16
  <2>2. ASSUME NEW n \in 1 .. Len(Z) PROVE s[Len(s1) + n] = Z[n]
    <3>1. /\ Len(s1) + n \in 1 .. Len(s2) /\ Len(s1) + n \in 1 .. Len(s3)
          /\ Len(s1) + n \in 1 .. Len(s4)
      <4>1. Len(s2) <= Len(s3) /\ Len(s3) <= Len(s4)
        BY <1>13, <1>14, <1>16
      <4>2. Len(s1) + n \in 1 .. Len(s2)
        BY <1>12, <1>16
      <4>3. QED
        BY <1>16, <4>1, <4>2
    <3>2. QED
      BY <1>12, <1>13, <1>14, <1>15, <3>1
  <2>3. ASSUME NEW n \in 1 .. Len(W) PROVE s[Len(s2) + n] = W[n]
    <3>1. Len(s2) + n \in 1 .. Len(s3) /\ Len(s2) + n \in 1 .. Len(s4)
      <4>1. \A x, y, z \in Nat : \A k \in 1 .. y : x + k \in 1 .. x + y /\ x + k \in 1 .. (x + y) + z
        OBVIOUS
      <4>2. QED
        BY <1>13, <1>14, <1>16, <4>1
    <3>2. QED
      BY <1>13, <1>14, <1>15, <3>1
  <2>4. ASSUME NEW n \in 1 .. Len(L) PROVE s[Len(s3) + n] = L[n]
    <3>1. Len(s3) + n \in 1 .. Len(s4)
      BY <1>14, <1>16
    <3>2. QED
      BY <1>14, <1>15, <3>1
  <2>5. QED
    BY <2>1, <2>2, <2>3, <2>4
<1>19. s[1] = Percent
  BY <1>11, <1>16, <1>18
<1>20. s[conv] = p.conv
  BY <1>15
<1>21. (p.long => s[size] = Long) /\ (~ p.long => s[size] = p.conv)
  BY <1>6, <1>14, <1>16, <1>18, <1>20, SMTT(40)
<1>22. s[size] \notin Digits /\ (~ p.long => s[size] # Long)
  <2>1. CASE p.long
    BY <1>2, <1>21, <2>1
  <2>2. CASE ~ p.long
    <3>1. \A c \in {115, 99, 100, 117, 120, 88} : c \notin Digits /\ c # Long
      BY <1>2
    <3>2. s[size] \in {115, 99, 100, 117, 120, 88}
      BY <1>1, <1>21, <2>2
    <3>3. QED
      BY <3>1, <3>2, ZenonT(60)
  <2>3. QED
    BY <2>1, <2>2
<1>23. ASSUME NEW n \in digits .. size - 1 PROVE s[n] \in Digits
  <2>1. PICK k \in 1 .. Len(W) : n = Len(s2) + k
    <3>1. n - Len(s2) \in 1 .. Len(W) /\ n = Len(s2) + (n - Len(s2))
      BY <1>13, <1>16
    <3>2. QED
      BY <3>1
  <2>2. s[Len(s2) + k] = W[k]
    BY <1>18
  <2>3. QED
    BY <1>7, <2>1, <2>2
<1>24. IF Len(W) = 0 THEN digits = size ELSE s[digits] = W[1] /\ W[1] # 48 /\ W[1] \in Digits
  BY <1>7, <1>13, <1>16, <1>18, SMTT(40)
<1>25. s[digits] # 48 /\ s[digits] # NUL /\ s[digits] # Minus /\ s[digits] # Percent
  <2>1. CASE Len(W) = 0
    <3>1. PICK c : c = s[digits] /\ c \in {108, 115, 99, 100, 117, 120, 88}
      BY <1>1, <1>2, <1>21, <1>24, <2>1
    <3>2. QED
      BY <1>2, <3>1
  <2>2. CASE Len(W) # 0
    <3>1. PICK c : c = s[digits] /\ c # 48 /\ c \in 48 .. 57
      BY <1>2, <1>24, <2>2
    <3>2. QED
      BY <1>2, <3>1
  <2>3. QED
    BY <2>1, <2>2
<1>26. p.zero => s[zeros] = 48
  BY <1>5, <1>16, <1>18
<1>27. p.left => s[2] = Minus
  <2>1. p.left => 2 \in 1 .. Len(s1) /\ 1 \in 1 .. Len(A) /\ s1[1 + 1] = A[1] /\ A[1] = Minus
    BY <1>4, <1>11
  <2>2. QED
    BY <1>18, <2>1
<1>28. ~ p.left => s[2] = 48 \/ s[2] = s[digits]
  BY <1>17, <1>26
<1>29. (~ p.left => s[2] # Minus) /\ s[2] # NUL /\ s[2] # Percent
  BY <1>2, <1>25, <1>27, <1>28
<1>30. SubSeq(s, digits, size - 1) = W
  <2>1. size - 1 = digits + Len(W) - 1 /\ Len(s) >= size /\ digits >= 1
    BY <1>13, <1>14, <1>15, <1>16
  <2>2. PICK t : t = SubSeq(s, digits, size - 1)
    OBVIOUS
  <2>3. \A n \in digits .. size - 1 : s[n] \in Nat
    BY <1>2, <1>23
  <2>4. t = [n \in 1 .. Len(W) |-> s[Len(s2) + n]]
    <3>1. (size - 1) - digits + 1 = Len(W)
      BY <1>16, <2>1
    <3>2. \A n \in 1 .. Len(W) : digits + n - 1 = Len(s2) + n
      BY <1>16
    <3>3. t = [n \in 1 .. (size - 1) - digits + 1 |-> s[digits + n - 1]]
      BY <2>2 DEF SubSeq
    <3>4. QED
      BY <3>1, <3>2, <3>3
  <2>5. W = [n \in 1 .. Len(W) |-> W[n]]
    BY <1>7
  <2>6. QED
    BY <1>18, <2>2, <2>4, <2>5
<1>31. SpelledAs(s, p, zeros, digits, size, conv)
  BY <1>7, <1>15, <1>17, <1>19, <1>20, <1>21, <1>22, <1>23, <1>25, <1>26, <1>27, <1>29, <1>30 DEF SpelledAs
<1> QED
  BY <1>3, <1>17, <1>31

-----------------------------------------------------------------------------
(* Sequences of sequences, joined *)

\* f[n] is the first n of them joined.
IsJoined(f, seqs) ==
  /\ f \in [0 .. Len(seqs) -> Seq(Nat)]
  /\ f[0] = <<>>
  /\ \A n \in 1 .. Len(seqs) : f[n] = f[n - 1] \o seqs[n]
  /\ FlattenSeq(seqs) = f[Len(seqs)]

Joined(seqs) == CHOOSE f : IsJoined(f, seqs)

\* Sequences can be joined, and FlattenSeq is what all of them make.
LEMMA JoinedIs ==
  ASSUME NEW seqs \in Seq(Seq(Nat))
  PROVE  IsJoined(Joined(seqs), seqs)
<1> DEFINE N == Len(seqs)
           Good(g) == g = [i \in 1 .. N |-> IF i = 1 THEN seqs[i] ELSE g[i - 1] \o seqs[i]]
           flatten == CHOOSE g : Good(g)
           step == [i \in 1 .. N |-> [x \in Seq(Nat) |-> x \o seqs[i]]]
           f == [i \in 0 .. N |-> IF i = 0 THEN <<>> ELSE flatten[i]]
<1>1. N \in Nat /\ (\A i \in 1 .. N : seqs[i] \in Seq(Nat)) /\ (N = 0 => seqs = <<>>)
  OBVIOUS
<1>2. <<>> \in Seq(Nat) /\ \A x, y \in Seq(Nat) : x \o y \in Seq(Nat) /\ <<>> \o x = x
  OBVIOUS
<1>3. FlattenSeq(seqs) = IF N = 0 THEN seqs ELSE flatten[N]
  BY DEF FlattenSeq
<1>4. step \in [1 .. N -> [Seq(Nat) -> Seq(Nat)]]
  BY <1>1, <1>2
<1>5. \A i \in 1 .. N : \A x \in Seq(Nat) : step[i][x] = x \o seqs[i]
  OBVIOUS
<1> HIDE DEF step, N
<1>6. PICK h \in [0 .. N -> Seq(Nat)] : Follows(h, N, <<>>, step)
  BY <1>1, <1>2, <1>4, RecursionExists
<1>7. ASSUME NEW i \in 1 .. N PROVE h[i] = IF i = 1 THEN seqs[i] ELSE h[i - 1] \o seqs[i]
  <2> HIDE DEF f, flatten, Good
  <2>1. i - 1 \in 0 .. N /\ h[i] = step[i][h[i - 1]]
    <3>1. i - 1 \in 0 .. N
      BY <1>1
    <3>2. h[i] = step[i][h[i - 1]]
      BY <1>6 DEF Follows
    <3>3. QED
      BY <3>1, <3>2
  <2>2. h[i] = h[i - 1] \o seqs[i]
    BY <1>5, <2>1
  <2>3. CASE i = 1
    <3>1. h[i - 1] = <<>>
      BY <1>6, <2>3 DEF Follows
    <3>2. QED
      BY <1>1, <1>2, <2>2, <2>3, <3>1
  <2>4. QED
    BY <2>2, <2>3
<1>8. Good([i \in 1 .. N |-> h[i]])
  <2> DEFINE g == [i \in 1 .. N |-> h[i]]
  <2>1. ASSUME NEW i \in 1 .. N PROVE h[i] = IF i = 1 THEN seqs[i] ELSE g[i - 1] \o seqs[i]
    <3>1. CASE i = 1
      BY <1>7, <3>1
    <3>2. CASE i # 1
      <4>1. i - 1 \in 1 .. N
        BY <1>1, <3>2
      <4>2. QED
        BY <1>7, <3>2, <4>1
    <3>3. QED
      BY <3>1, <3>2
  <2>2. QED
    BY <2>1
<1>9. Good(flatten)
  BY <1>8
<1> HIDE DEF flatten
<1>10. \A i \in 1 .. N : flatten[i] = IF i = 1 THEN seqs[i] ELSE flatten[i - 1] \o seqs[i]
  BY <1>9
<1>11. f[0] = <<>> /\ DOMAIN f = 0 .. N /\ \A i \in 1 .. N : f[i] = flatten[i]
  BY <1>1
<1> HIDE DEF f
<1>12. ASSUME NEW i \in 1 .. N PROVE f[i] = f[i - 1] \o seqs[i]
  <2>1. CASE i = 1
    <3>1. i - 1 = 0 /\ f[i - 1] = <<>>
      BY <1>11, <2>1
    <3>2. f[i] = seqs[i] /\ seqs[i] \in Seq(Nat)
      BY <1>1, <1>10, <1>11, <2>1
    <3>3. QED
      BY <1>2, <3>1, <3>2
  <2>2. CASE i # 1
    <3>1. i - 1 \in 1 .. N
      BY <1>1, <2>2
    <3>2. QED
      BY <1>10, <1>11, <2>2, <3>1
  <2>3. QED
    BY <2>1, <2>2
<1>13. ASSUME NEW i \in 0 .. N PROVE f[i] \in Seq(Nat)
  <2> DEFINE S == {n \in Nat : n <= N => f[n] \in Seq(Nat)}
  <2>1. 0 \in S
    BY <1>2, <1>11
  <2>2. ASSUME NEW n \in Nat, n \in S PROVE n + 1 \in S
    <3>1. CASE n + 1 <= N
      <4>1. n + 1 \in 1 .. N /\ (n + 1) - 1 = n /\ f[n] \in Seq(Nat)
        BY <1>1, <2>2, <3>1
      <4>2. f[n + 1] = f[n] \o seqs[n + 1] /\ seqs[n + 1] \in Seq(Nat)
        BY <1>1, <1>12, <4>1
      <4>3. f[n + 1] \in Seq(Nat)
        BY <1>2, <4>1, <4>2
      <4>4. QED
        BY <4>3
    <3>2. QED
      BY <3>1
  <2> HIDE DEF S
  <2>3. Nat \subseteq S
    BY <2>1, <2>2, AllNumbers
  <2>4. QED
    BY <1>1, <2>3 DEF S
<1>14. f \in [0 .. N -> Seq(Nat)]
  <2>1. f = [i \in 0 .. N |-> f[i]]
    BY <1>11 DEF f
  <2>2. QED
    BY <1>13, <2>1
<1>15. FlattenSeq(seqs) = f[N]
  BY <1>1, <1>3, <1>11
<1>16. IsJoined(f, seqs)
  BY <1>11, <1>12, <1>14, <1>15 DEF IsJoined, N
<1> QED
  BY <1>16 DEF Joined

\* Joining is associative.
LEMMA JoinThree ==
  \A x, y, z \in Seq(Nat) : (x \o y) \o z = x \o (y \o z)
<1>1. ASSUME NEW x \in Seq(Nat), NEW y \in Seq(Nat), NEW z \in Seq(Nat)
      PROVE  (x \o y) \o z = x \o (y \o z)
  OBVIOUS
<1> QED
  BY <1>1, Zenon

\* The first n are what the first m begin with.
LEMMA JoinedBegins ==
  ASSUME NEW seqs \in Seq(Seq(Nat)), NEW f, IsJoined(f, seqs), NEW n \in 0 .. Len(seqs)
  PROVE  \A m \in n .. Len(seqs) : \E r \in Seq(Nat) : f[m] = f[n] \o r
<1> DEFINE N == Len(seqs)
           S == {k \in Nat : n + k <= N => \E r \in Seq(Nat) : f[n + k] = f[n] \o r}
<1>1. N \in Nat /\ \A i \in 1 .. N : seqs[i] \in Seq(Nat)
  OBVIOUS
<1>2. <<>> \in Seq(Nat) /\ \A x, y \in Seq(Nat) : x \o y \in Seq(Nat) /\ x \o <<>> = x
  OBVIOUS
<1>3. f \in [0 .. N -> Seq(Nat)] /\ \A i \in 1 .. N : f[i] = f[i - 1] \o seqs[i]
  BY DEF IsJoined
<1> HIDE DEF N
<1>4. 0 \in S
  <2>1. n + 0 = n /\ f[n] = f[n] \o <<>>
    BY <1>1, <1>2, <1>3 DEF N
  <2>2. QED
    BY <1>2, <2>1
<1>5. ASSUME NEW k \in Nat, k \in S PROVE k + 1 \in S
  <2>1. CASE n + (k + 1) <= N
    <3>1. /\ n + k \in 0 .. N /\ n + (k + 1) \in 1 .. N /\ (n + (k + 1)) - 1 = n + k
          /\ n \in 0 .. N /\ n + k <= N
      BY <1>1, <2>1 DEF N
    <3>2. PICK r \in Seq(Nat) : f[n + k] = f[n] \o r
      BY <1>5, <3>1
    <3>3. f[n + (k + 1)] = (f[n] \o r) \o seqs[n + (k + 1)]
      BY <1>3, <3>1, <3>2
    <3>4. PICK t \in Seq(Nat) : t = seqs[n + (k + 1)]
      BY <1>1, <3>1
    <3>5. PICK u \in Seq(Nat) : u = f[n]
      BY <1>3, <3>1
    <3>6. (u \o r) \o t = u \o (r \o t)
      BY ONLY JoinThree, u \in Seq(Nat), r \in Seq(Nat), t \in Seq(Nat), ZenonT(60)
    <3>7. r \o t \in Seq(Nat)
      OBVIOUS
    <3>8. \E x \in Seq(Nat) : f[n + (k + 1)] = f[n] \o x
      BY <3>3, <3>4, <3>5, <3>6, <3>7
    <3>9. QED
      BY <3>8, k + 1 \in Nat, Zenon
  <2>2. CASE ~ (n + (k + 1) <= N)
    BY <2>2, k + 1 \in Nat, Zenon
  <2>3. QED
    BY <2>1, <2>2
<1> HIDE DEF S
<1>6. Nat \subseteq S
  BY <1>4, <1>5, AllNumbers
<1>7. ASSUME NEW m \in n .. N PROVE \E r \in Seq(Nat) : f[m] = f[n] \o r
  <2>1. m - n \in S /\ n + (m - n) = m /\ m <= N
    BY <1>1, <1>6 DEF N
  <2>2. n + (m - n) <= N => \E r \in Seq(Nat) : f[n + (m - n)] = f[n] \o r
    BY <2>1 DEF S
  <2>3. QED
    BY <2>1, <2>2
<1> QED
  BY <1>7 DEF N

-----------------------------------------------------------------------------
(* What a call's format and arguments are, piece by piece *)

Texts(c) == [n \in DOMAIN c.pieces |-> Spelled(c.pieces[n])]

Meant(c) == [n \in DOMAIN c.pieces |->
               IF c.pieces[n].plain THEN <<c.pieces[n].char>>
               ELSE Shown(c.pieces[n], ArgumentOf(c, n))]

\* How many conversions there are among the first n pieces.
Wanted(c, n) == Cardinality({k \in 1 .. n : ~ c.pieces[k].plain})

\* How a character that stands for itself is spelled.
LEMMA PlainIsSpelled ==
  ASSUME NEW p \in Pieces
  PROVE  /\ p.plain \in BOOLEAN
         /\ p.plain => /\ p.char \in Nat \ {NUL}
                       /\ Spelled(p) = IF p.char = Percent THEN <<Percent, Percent>> ELSE <<p.char>>
<1>1. CASE p \in [plain : {TRUE}, char : Nat \ {NUL}]
  BY <1>1 DEF Spelled
<1>2. CASE p \in [plain : {FALSE}, left : BOOLEAN, zero : BOOLEAN, width : Nat, long : BOOLEAN,
                  conv : Range(Conversions)]
  BY <1>2
<1> QED
  BY <1>1, <1>2 DEF Pieces

\* Every piece is spelled in characters.
LEMMA SpelledIsText ==
  ASSUME NEW p \in Pieces
  PROVE  Spelled(p) \in Seq(Nat)
<1>1. CASE p.plain
  <2>1. Percent \in Nat /\ p.char \in Nat
    BY <1>1, PlainIsSpelled DEF Percent
  <2>2. <<Percent, Percent>> \in Seq(Nat) /\ <<p.char>> \in Seq(Nat)
    BY <2>1
  <2>3. QED
    BY <1>1, <2>2, PlainIsSpelled
<1>2. CASE ~ p.plain
  BY <1>2, ConversionIsSpelled DEF SpelledAs
<1> QED
  BY <1>1, <1>2

\* x and then y.
IsGlued(z, x, y) ==
  /\ z \in Seq(Nat) /\ Len(x) \in Nat /\ Len(y) \in Nat
  /\ Len(z) = Len(x) + Len(y)
  /\ \A n \in 1 .. Len(x) : n \in 1 .. Len(z) /\ z[n] = x[n]
  /\ \A n \in 1 .. Len(y) : Len(x) + n \in 1 .. Len(z) /\ z[Len(x) + n] = y[n]

\* Two texts one behind the other.
LEMMA Glued ==
  ASSUME NEW x \in Seq(Nat), NEW y \in Seq(Nat)
  PROVE  IsGlued(x \o y, x, y)
<1>1. Len(x) \in Nat /\ Len(y) \in Nat
  OBVIOUS
<1>2. PICK z \in Seq(Nat) : z = x \o y
  <2>1. x \o y \in Seq(Nat)
    OBVIOUS
  <2>2. QED
    BY <2>1
<1>3. Len(z) = Len(x) + Len(y)
  BY <1>2
<1>4. ASSUME NEW n \in 1 .. Len(x) PROVE n \in 1 .. Len(z) /\ z[n] = x[n]
  BY <1>1, <1>2, <1>3
<1>5. ASSUME NEW n \in 1 .. Len(y) PROVE Len(x) + n \in 1 .. Len(z) /\ z[Len(x) + n] = y[n]
  <2>1. Len(x) + n \in 1 .. Len(z)
    BY <1>1, <1>3
  <2>2. z[Len(x) + n] = y[n]
    BY <1>2
  <2>3. QED
    BY <2>1, <2>2
<1> QED
  BY <1>1, <1>2, <1>3, <1>4, <1>5 DEF IsGlued

\* Where the pieces and the cut stand in memory m: J[n] is the text of the first n pieces.
ReadsAs(c, m, J, N) ==
  /\ N \in Nat /\ N = Len(c.pieces) /\ c.pieces \in Seq(Pieces) /\ m \in Seq(Nat)
  /\ J \in [0 .. N -> Seq(Nat)] /\ J[0] = <<>>
  /\ \A n \in 0 .. N : Len(J[n]) \in Nat /\ Len(J[n]) <= Len(J[N])
  /\ \A n \in 1 .. N : /\ Len(J[n]) = Len(J[n - 1]) + Len(Spelled(c.pieces[n]))
                       /\ \A k \in 1 .. Len(Spelled(c.pieces[n])) :
                            m[Len(J[n - 1]) + k] = Spelled(c.pieces[n])[k]
  /\ Len(Format(c)) = Len(J[N]) + Len(c.cut)
  /\ Len(m) >= Len(Format(c)) + 1
  /\ \A k \in 1 .. Len(c.cut) : m[Len(J[N]) + k] = c.cut[k]
  /\ m[Len(Format(c)) + 1] = NUL

\* The pieces of a format stand in memory one behind the other, then the cut and the NUL.
LEMMA FormatReads ==
  ASSUME NEW c, IsCall(c)
  PROVE  ReadsAs(c, Format(c) \o <<NUL>> \o Behind, Joined(Texts(c)), Len(c.pieces))
<1>1. PICK N \in Nat : N = Len(c.pieces)
  BY DEF IsCall
<1>2. c.pieces \in Seq(Pieces) /\ DOMAIN c.pieces = 1 .. N /\ \A n \in 1 .. N : c.pieces[n] \in Pieces
  BY <1>1 DEF IsCall
<1>3. PICK cut \in Seq(Nat) : cut = c.cut
  BY SeqMonotonic, Nat \ {NUL} \subseteq Nat DEF IsCall
<1>4. PICK text \in Seq(Seq(Nat)) : /\ text = Texts(c) /\ Len(text) = N
                                    /\ \A n \in 1 .. N : text[n] = Spelled(c.pieces[n])
  <2>1. Texts(c) = [n \in 1 .. N |-> Spelled(c.pieces[n])]
    BY <1>2 DEF Texts
  <2>2. \A n \in 1 .. N : Spelled(c.pieces[n]) \in Seq(Nat)
    BY <1>2, SpelledIsText
  <2>3. PICK t : t = [n \in 1 .. N |-> Spelled(c.pieces[n])]
    OBVIOUS
  <2>4. t \in Seq(Seq(Nat)) /\ Len(t) = N /\ \A n \in 1 .. N : t[n] = Spelled(c.pieces[n])
    BY <2>2, <2>3
  <2>5. QED
    BY <2>1, <2>3, <2>4
<1>5. PICK J : J = Joined(text) /\ IsJoined(J, text)
  BY JoinedIs
<1>6. /\ J \in [0 .. N -> Seq(Nat)] /\ J[0] = <<>> /\ FlattenSeq(text) = J[N]
      /\ \A n \in 1 .. N : J[n] = J[n - 1] \o text[n]
  BY <1>4, <1>5 DEF IsJoined
<1>7. PICK whole \in Seq(Nat) : whole = J[N]
  BY <1>6
<1>8. PICK F \in Seq(Nat) : F = Format(c) /\ IsGlued(F, whole, cut)
  <2>1. Format(c) = whole \o cut
    BY <1>3, <1>4, <1>6, <1>7 DEF Format, Texts
  <2>2. IsGlued(whole \o cut, whole, cut)
    BY Glued
  <2>3. whole \o cut \in Seq(Nat)
    BY <2>2 DEF IsGlued
  <2>4. QED
    BY <2>1, <2>2, <2>3
<1>9. PICK end \in Seq(Nat) : end = <<NUL>> \o Behind /\ Len(end) >= 1 /\ end[1] = NUL
  <2>1. Behind \in Seq(Nat) /\ NUL \in Nat
    BY ClibAssumption DEF ClibAssumption, NUL
  <2>2. PICK nul \in Seq(Nat) : nul = <<NUL>> /\ Len(nul) = 1 /\ nul[1] = NUL
    BY <2>1, One
  <2>3. PICK e : e = nul \o Behind /\ IsGlued(e, nul, Behind)
    BY <2>1, Glued
  <2>4. e \in Seq(Nat) /\ Len(e) >= 1
    BY <2>2, <2>3 DEF IsGlued
  <2>5. e[1] = NUL
    BY <2>2, <2>3 DEF IsGlued
  <2>6. QED
    BY <2>2, <2>3, <2>4, <2>5
<1>10. PICK m \in Seq(Nat) : m = Format(c) \o <<NUL>> \o Behind /\ IsGlued(m, F, end)
  <2>1. Behind \in Seq(Nat) /\ <<NUL>> \in Seq(Nat)
    BY ClibAssumption, One DEF ClibAssumption, NUL
  <2>2. (F \o <<NUL>>) \o Behind = F \o (<<NUL>> \o Behind)
    <3>1. PICK nul \in Seq(Nat), b \in Seq(Nat) : nul = <<NUL>> /\ b = Behind
      BY <2>1
    <3>2. (F \o nul) \o b = F \o (nul \o b)
      BY ONLY JoinThree, F \in Seq(Nat), nul \in Seq(Nat), b \in Seq(Nat), ZenonT(60)
    <3>3. QED
      BY <3>1, <3>2
  <2>3. IsGlued(F \o end, F, end) /\ F \o end \in Seq(Nat)
    BY Glued DEF IsGlued
  <2>4. QED
    BY <1>8, <1>9, <2>2, <2>3
<1>11. /\ Len(F) = Len(whole) + Len(cut) /\ Len(m) >= Len(F) + 1 /\ m[Len(F) + 1] = NUL
       /\ Len(whole) \in Nat
  BY <1>8, <1>9, <1>10 DEF IsGlued
<1>12. ASSUME NEW k \in 1 .. Len(cut) PROVE m[Len(whole) + k] = cut[k]
  BY <1>8, <1>10 DEF IsGlued
<1>13. ASSUME NEW k \in 1 .. Len(whole) PROVE m[k] = whole[k]
  BY <1>8, <1>10 DEF IsGlued
<1>14. ASSUME NEW n \in 0 .. N
       PROVE  /\ Len(J[n]) \in Nat /\ Len(J[n]) <= Len(whole)
              /\ \A k \in 1 .. Len(J[n]) : m[k] = J[n][k]
  <2>1. PICK x \in Seq(Nat) : x = J[n]
    BY <1>6
  <2>2. PICK r \in Seq(Nat) : whole = x \o r
    <3>1. N \in n .. N /\ n \in 0 .. Len(text)
      BY <1>4
    <3>2. \A k \in n .. Len(text) : \E r \in Seq(Nat) : J[k] = J[n] \o r
      BY <1>5, <3>1, JoinedBegins
    <3>3. QED
      BY <1>4, <1>7, <2>1, <3>1, <3>2
  <2>3. IsGlued(whole, x, r)
    BY <2>2, Glued
  <2>4. Len(x) \in Nat /\ Len(x) <= Len(whole)
    BY <2>3 DEF IsGlued
  <2>5. \A k \in 1 .. Len(x) : m[k] = x[k]
    BY <1>13, <2>3 DEF IsGlued
  <2>6. QED
    BY <2>1, <2>4, <2>5
<1>15. ASSUME NEW n \in 1 .. N
       PROVE  /\ Len(J[n]) = Len(J[n - 1]) + Len(Spelled(c.pieces[n]))
              /\ \A k \in 1 .. Len(Spelled(c.pieces[n])) :
                   m[Len(J[n - 1]) + k] = Spelled(c.pieces[n])[k]
  <2>1. n - 1 \in 0 .. N /\ n \in 0 .. N
    OBVIOUS
  <2>2. PICK x \in Seq(Nat), y \in Seq(Nat) : x = J[n - 1] /\ y = J[n]
    BY <1>6, <2>1
  <2>3. PICK t \in Seq(Nat) : t = Spelled(c.pieces[n]) /\ y = x \o t
    BY <1>2, <1>4, <1>6, <2>2, SpelledIsText
  <2>4. IsGlued(y, x, t)
    BY <2>3, Glued
  <2>5. \A k \in 1 .. Len(y) : m[k] = y[k]
    BY <1>14, <2>1, <2>2
  <2>6. Len(y) = Len(x) + Len(t) /\ \A k \in 1 .. Len(t) : m[Len(x) + k] = t[k]
    BY <2>4, <2>5 DEF IsGlued
  <2>7. QED
    BY <2>2, <2>3, <2>6
<1>16. ReadsAs(c, m, J, N)
  BY <1>1, <1>2, <1>3, <1>6, <1>7, <1>8, <1>11, <1>12, <1>14, <1>15 DEF ReadsAs
<1> QED
  BY <1>1, <1>4, <1>5, <1>10, <1>16

\* The conversions counted, and the argument of each.
LEMMA WantedIs ==
  ASSUME NEW c, IsCall(c), NEW n \in 0 .. Len(c.pieces)
  PROVE  /\ Wanted(c, n) \in Nat
         /\ Wanted(c, n) <= Len(c.args)
         /\ n = 0 => Wanted(c, n) = 0
         /\ n # 0 => Wanted(c, n) = IF c.pieces[n].plain THEN Wanted(c, n - 1) ELSE Wanted(c, n - 1) + 1
         /\ n # 0 /\ ~ c.pieces[n].plain => ArgumentOf(c, n) = c.args[Wanted(c, n)] /\ ArgumentOf(c, n) \in Arguments
<1> DEFINE N == Len(c.pieces)
           Conv(l) == {k \in 1 .. l : ~ c.pieces[k].plain}
<1>1. N \in Nat /\ DOMAIN c.pieces = 1 .. N /\ c.args \in Seq(Arguments) /\ Len(c.args) \in Nat
  BY DEF IsCall
<1>2. Cardinality(Conv(N)) <= Len(c.args)
  BY <1>1 DEF IsCall
<1> HIDE DEF N
<1>3. ASSUME NEW l \in 0 .. N PROVE IsFiniteSet(Conv(l)) /\ Cardinality(Conv(l)) \in Nat
  <2>1. IsFiniteSet(1 .. l) /\ Conv(l) \subseteq 1 .. l
    <3>1. l \in Int
      BY <1>1
    <3>2. IsFiniteSet(1 .. l)
      BY <3>1, FS_Interval, 1 \in Int
    <3>3. QED
      BY <3>2
  <2>2. IsFiniteSet(Conv(l))
    BY <2>1, FS_Subset
  <2>3. QED
    BY <2>2, FS_CardinalityType
<1>4. n \in 0 .. N /\ N \in 0 .. N
  BY <1>1 DEF N
<1>5. Cardinality(Conv(n)) <= Len(c.args)
  <2>1. Conv(n) \subseteq Conv(N)
    BY <1>1, <1>4
  <2>2. Cardinality(Conv(n)) <= Cardinality(Conv(N))
    BY <1>3, <1>4, <2>1, FS_Subset
  <2>3. Cardinality(Conv(n)) \in Nat /\ Cardinality(Conv(N)) \in Nat
    BY <1>3, <1>4
  <2> HIDE DEF Conv
  <2>4. QED
    BY <1>1, <1>2, <2>2, <2>3
<1>6. n = 0 => Cardinality(Conv(n)) = 0
  <2>1. n = 0 => Conv(n) = {}
    OBVIOUS
  <2>2. QED
    BY <2>1, FS_EmptySet
<1>7. ASSUME n # 0
      PROVE  Cardinality(Conv(n)) = IF c.pieces[n].plain THEN Cardinality(Conv(n - 1))
                                    ELSE Cardinality(Conv(n - 1)) + 1
  <2>1. n - 1 \in 0 .. N /\ n \in 1 .. N
    BY <1>1, <1>4, <1>7
  <2>2. CASE c.pieces[n].plain
    <3>1. Conv(n) = Conv(n - 1)
      BY <1>1, <2>1, <2>2
    <3>2. QED
      BY <2>2, <3>1
  <2>3. CASE ~ c.pieces[n].plain
    <3>1. Conv(n) = Conv(n - 1) \cup {n} /\ n \notin Conv(n - 1)
      BY <1>1, <2>1, <2>3
    <3>2. Cardinality(Conv(n - 1) \cup {n}) = Cardinality(Conv(n - 1)) + 1
      BY <1>3, <2>1, <3>1, FS_AddElement
    <3>3. QED
      BY <2>3, <3>1, <3>2
  <2>4. QED
    BY <2>2, <2>3
<1>8. \A l : Wanted(c, l) = Cardinality(Conv(l))
  BY DEF Wanted
<1>9. ASSUME n # 0, ~ c.pieces[n].plain
      PROVE  ArgumentOf(c, n) = c.args[Wanted(c, n)] /\ ArgumentOf(c, n) \in Arguments
  <2>1. ArgumentOf(c, n) = c.args[Wanted(c, n)]
    BY DEF ArgumentOf, Wanted
  <2>2. n - 1 \in 0 .. N
    BY <1>1, <1>4, <1>9
  <2>3. Wanted(c, n) \in 1 .. Len(c.args)
    <3> HIDE DEF Conv
    <3>1. Cardinality(Conv(n - 1)) \in Nat /\ Cardinality(Conv(n)) = Cardinality(Conv(n - 1)) + 1
      BY <1>3, <1>7, <1>9, <2>2, SMTT(40)
    <3>2. QED
      BY <1>1, <1>5, <1>8, <3>1
  <2>4. QED
    BY <1>1, <2>1, <2>3
<1> HIDE DEF Conv
<1> QED
  BY <1>3, <1>4, <1>5, <1>6, <1>7, <1>8, <1>9

\* What is meant, joined: O[n] is what the first n pieces put out.
LEMMA MeantIs ==
  ASSUME NEW c, IsCall(c)
  PROVE  LET O == Joined(Meant(c))
             N == Len(c.pieces)
         IN  /\ O \in [0 .. N -> Seq(Nat)] /\ O[0] = <<>> /\ FlattenSeq(Meant(c)) = O[N]
             /\ \A n \in 1 .. N : O[n] = O[n - 1] \o (IF c.pieces[n].plain THEN <<c.pieces[n].char>>
                                                      ELSE Shown(c.pieces[n], ArgumentOf(c, n)))
<1>1. PICK N \in Nat : N = Len(c.pieces)
  BY DEF IsCall
<1>2. DOMAIN c.pieces = 1 .. N /\ \A n \in 1 .. N : c.pieces[n] \in Pieces
  BY <1>1 DEF IsCall
<1> DEFINE Put1(n) == IF c.pieces[n].plain THEN <<c.pieces[n].char>>
                      ELSE Shown(c.pieces[n], ArgumentOf(c, n))
<1>3. ASSUME NEW n \in 1 .. N PROVE Put1(n) \in Seq(Nat)
  <2>1. c.pieces[n] \in Pieces /\ n \in 0 .. Len(c.pieces) /\ n # 0
    BY <1>1, <1>2
  <2>2. CASE c.pieces[n].plain
    <3>1. c.pieces[n].char \in Nat
      BY <2>1, <2>2, PlainIsSpelled
    <3>2. QED
      BY <2>2, <3>1, One
  <2>3. CASE ~ c.pieces[n].plain
    <3>1. ArgumentOf(c, n) \in Arguments
      BY <2>1, <2>3, WantedIs
    <3>2. QED
      BY <2>1, <2>3, <3>1, ConversionMeans
  <2>4. QED
    BY <2>2, <2>3
<1>4. Meant(c) = [n \in 1 .. N |-> Put1(n)]
  BY <1>2 DEF Meant
<1> HIDE DEF Put1
<1>5. PICK t : t = [n \in 1 .. N |-> Put1(n)]
  OBVIOUS
<1>6. t \in Seq(Seq(Nat)) /\ Len(t) = N /\ \A n \in 1 .. N : t[n] = Put1(n)
  BY <1>3, <1>5
<1>7. IsJoined(Joined(t), t)
  BY <1>6, JoinedIs
<1> QED
  BY <1>1, <1>4, <1>5, <1>6, <1>7 DEF IsJoined, Put1

-----------------------------------------------------------------------------
(* The invariant *)

\* print has read the first n pieces and put out what they mean.
HasRead(n) ==
  /\ n \in 0 .. Len(call.pieces)
  /\ format = Len(Joined(Texts(call))[n]) + 1
  /\ arg = Wanted(call, n) + 1
  /\ out = Joined(Meant(call))[n] /\ pc = Len(out)
  /\ ~ printing => n = Len(call.pieces)

\* print has read the character behind the last whole piece.
HasReadCut == call.cut # <<>> /\ format = Len(Format(call)) + 1

ClibInv ==
  /\ IsCall(call)
  /\ memory = Format(call) \o <<NUL>> \o Behind
  /\ Len(call.cut) < 2 => HasReadCut \/ \E n \in Nat : HasRead(n)

\* FirstPast goes over the characters named and stops at the first that is none of them.
LEMMA FirstPastIs ==
  ASSUME memory \in Seq(Nat), NEW these, NEW n \in Nat, NEW k \in Nat, n <= k, k <= Len(memory),
         memory[k] \notin these, \A j \in n .. k - 1 : memory[j] \in these
  PROVE  FirstPast(n, these) = k
<1> DEFINE S == {j \in n .. Len(memory) : memory[j] \notin these}
<1>1. Len(memory) \in Nat
  OBVIOUS
<1>2. S \in SUBSET Nat /\ k \in S
  BY <1>1
<1>3. ASSUME NEW j \in S PROVE k <= j
  <2>1. j \in n .. Len(memory) /\ memory[j] \notin these
    OBVIOUS
  <2>2. ~ (j \in n .. k - 1)
    BY <2>1
  <2>3. QED
    BY <1>1, <2>1, <2>2
<1>4. FirstPast(n, these) = Min(S)
  BY DEF FirstPast
<1> HIDE DEF S
<1>5. Min(S) \in S /\ \A j \in S : Min(S) <= j
  BY <1>2, MinIsIn
<1>6. PICK x \in Nat : x = Min(S) /\ k <= x /\ x <= k
  BY <1>2, <1>3, <1>5
<1> QED
  BY <1>4, <1>6

\* Directive reads a conversion that is spelled in memory at a place.
LEMMA DirectiveReads ==
  ASSUME memory \in Seq(Nat), NEW p \in Pieces, ~ p.plain, NEW at \in Nat, format = at + 1,
         at + Len(Spelled(p)) <= Len(memory),
         \A k \in 1 .. Len(Spelled(p)) : memory[at + k] = Spelled(p)[k]
  PROVE  /\ Len(Spelled(p)) >= 2
         /\ memory[format] = Percent /\ memory[format + 1] \notin {NUL, Percent}
         /\ Directive =>
              /\ out' = out \o prints(Converted(p.conv, p.long, call.args[arg]), p.width, p.left, p.zero)
              /\ pc' = pc + Len(prints(Converted(p.conv, p.long, call.args[arg]), p.width, p.left, p.zero))
              /\ arg' = arg + 1 /\ format' = at + Len(Spelled(p)) + 1
              /\ UNCHANGED <<call, memory, printing>>
<1>1. PICK s \in Seq(Nat) : s = Spelled(p)
  BY SpelledIsText
<1>2. PICK z \in Nat, d \in Nat, e \in Nat, v \in Nat : SpelledAs(s, p, z, d, e, v)
  BY <1>1, ConversionIsSpelled
<1>3. /\ p.conv \in Range(Conversions) /\ p.width \in Nat
      /\ p.left \in BOOLEAN /\ p.zero \in BOOLEAN /\ p.long \in BOOLEAN
  BY DEF Pieces
<1>4. /\ Len(s) = v /\ z \in {2, 3} /\ 2 <= z /\ z <= d /\ d <= z + 1 /\ d <= e /\ e <= v /\ v <= e + 1
      /\ z = (IF p.left THEN 3 ELSE 2) /\ d = (IF p.zero THEN z + 1 ELSE z)
      /\ v = (IF p.long THEN e + 1 ELSE e)
  <2>1. /\ Len(s) = v /\ d <= e
        /\ z = (IF p.left THEN 3 ELSE 2) /\ d = (IF p.zero THEN z + 1 ELSE z)
        /\ v = (IF p.long THEN e + 1 ELSE e)
    BY <1>2 DEF SpelledAs
  <2>2. z \in {2, 3} /\ 2 <= z
    BY <1>3, <2>1
  <2>3. z <= d /\ d <= z + 1
    BY <1>3, <2>1
  <2>4. e <= v /\ v <= e + 1
    BY <1>3, <2>1
  <2>5. QED
    BY <2>1, <2>2, <2>3, <2>4
<1>5. \A k \in 1 .. v : memory[at + k] = s[k]
  BY <1>1, <1>4
<1>6. at + v <= Len(memory) /\ Len(memory) \in Nat
  BY <1>1, <1>4
<1>7. s[1] = Percent /\ (s[2] = Minus <=> p.left) /\ s[2] # NUL /\ s[2] # Percent
  BY <1>2, <1>3 DEF SpelledAs
<1>8. memory[format] = Percent /\ memory[format + 1] = s[2] /\ at + 2 = format + 1
  <2>1. 1 \in 1 .. v /\ 2 \in 1 .. v /\ format + 1 = at + 2
    BY <1>4
  <2>2. QED
    BY <1>5, <1>7, <2>1
<1> DEFINE left == memory[format + 1] = Minus
           zeros == IF left THEN format + 2 ELSE format + 1
           digits == FirstPast(zeros, {48})
           size == FirstPast(digits, Digits)
           long == memory[size] = Long
           conv == IF long THEN size + 1 ELSE size
           width == Decimal(SubSeq(memory, digits, size - 1))
           takes == memory[conv] \in Range(Conversions)
<1>9. left <=> p.left
  BY <1>7, <1>8
<1>10. zeros = at + z
  BY <1>4, <1>8, <1>9
<1>11. digits = at + d
  <2>1. at + z \in Nat /\ at + d \in Nat /\ at + z <= at + d /\ at + d <= Len(memory)
    BY <1>4, <1>6
  <2>2. memory[at + d] = s[d] /\ s[d] # 48
    <3>1. d \in 1 .. v
      BY <1>4
    <3>2. s[d] # 48
      BY <1>2 DEF SpelledAs
    <3>3. QED
      BY <1>5, <3>1, <3>2
  <2>3. ASSUME NEW j \in at + z .. (at + d) - 1 PROVE memory[j] \in {48}
    <3>1. p.zero /\ j = at + z
      BY <1>4
    <3>2. memory[at + z] = s[z]
      BY <1>4, <1>5
    <3>3. s[z] = 48
      BY <1>2, <3>1 DEF SpelledAs
    <3>4. QED
      BY <3>1, <3>2, <3>3
  <2>4. FirstPast(at + z, {48}) = at + d
    BY <2>1, <2>2, <2>3, FirstPastIs, ZenonT(60)
  <2>5. QED
    BY <1>10, <2>4
<1>12. size = at + e
  <2>1. at + d \in Nat /\ at + e \in Nat /\ at + d <= at + e /\ at + e <= Len(memory)
    BY <1>4, <1>6
  <2>2. memory[at + e] = s[e] /\ s[e] \notin Digits
    <3>1. e \in 1 .. v
      BY <1>4
    <3>2. s[e] \notin Digits
      BY <1>2 DEF SpelledAs
    <3>3. QED
      BY <1>5, <3>1, <3>2
  <2>3. ASSUME NEW j \in at + d .. (at + e) - 1 PROVE memory[j] \in Digits
    <3>1. PICK k \in d .. e - 1 : j = at + k
      <4>1. j - at \in d .. e - 1 /\ j = at + (j - at)
        OBVIOUS
      <4>2. QED
        BY <4>1
    <3>2. memory[at + k] = s[k]
      BY <1>4, <1>5
    <3>3. s[k] \in Digits
      BY <1>2 DEF SpelledAs
    <3>4. QED
      BY <3>1, <3>2, <3>3
  <2>4. FirstPast(at + d, Digits) = at + e
    BY <2>1, <2>2, <2>3, FirstPastIs
  <2>5. QED
    BY <1>11, <2>4
<1>13. long <=> p.long
  <2>1. memory[at + e] = s[e]
    BY <1>4, <1>5
  <2>2. s[e] = Long <=> p.long
    BY <1>2, <1>3 DEF SpelledAs
  <2>3. QED
    BY <1>12, <2>1, <2>2
<1>14. conv = at + v
  BY <1>4, <1>12, <1>13
<1>15. memory[conv] = p.conv
  <2>1. memory[at + v] = s[v] /\ s[v] = p.conv
    <3>1. v \in 1 .. v
      BY <1>4
    <3>2. s[v] = p.conv
      BY <1>2 DEF SpelledAs
    <3>3. QED
      BY <1>5, <3>1, <3>2
  <2>2. QED
    BY <1>14, <2>1
<1>16. width = p.width
  <2>1. SubSeq(memory, at + d, (at + e) - 1) = SubSeq(s, d, e - 1)
    <3>1. ((at + e) - 1) - (at + d) + 1 = (e - 1) - d + 1
      OBVIOUS
    <3>2. ASSUME NEW k \in 1 .. (e - 1) - d + 1 PROVE memory[(at + d) + k - 1] = s[d + k - 1]
      <4>1. d + k - 1 \in 1 .. v /\ (at + d) + k - 1 = at + (d + k - 1)
        BY <1>4
      <4>2. QED
        BY <1>5, <4>1
    <3>3. SubSeq(memory, at + d, (at + e) - 1) =
            [k \in 1 .. ((at + e) - 1) - (at + d) + 1 |-> memory[(at + d) + k - 1]]
      BY DEF SubSeq
    <3>4. SubSeq(s, d, e - 1) = [k \in 1 .. (e - 1) - d + 1 |-> s[d + k - 1]]
      BY DEF SubSeq
    <3>5. [k \in 1 .. (e - 1) - d + 1 |-> memory[(at + d) + k - 1]] = [k \in 1 .. (e - 1) - d + 1 |-> s[d + k - 1]]
      BY <3>2
    <3>6. QED
      BY <3>1, <3>3, <3>4, <3>5
  <2>2. Decimal(SubSeq(s, d, e - 1)) = p.width
    BY <1>2 DEF SpelledAs
  <2>3. QED
    BY <1>11, <1>12, <2>1, <2>2
<1>17. digits > zeros <=> p.zero
  BY <1>3, <1>4, <1>10, <1>11
<1>18. takes
  BY <1>3, <1>15
<1>19. Directive =>
         /\ Put(prints(Converted(memory[conv], long, call.args[arg]), width, left, digits > zeros))
         /\ arg' = arg + 1 /\ format' = conv + 1
         /\ UNCHANGED <<call, memory, printing>>
  <2>1. Directive =>
         /\ IF takes THEN Put(prints(Converted(memory[conv], long, call.args[arg]), width, left, digits > zeros))
            ELSE UNCHANGED <<out, pc>>
         /\ arg' = (IF takes THEN arg + 1 ELSE arg)
         /\ format' = conv + 1
         /\ UNCHANGED <<call, memory, printing>>
    BY DEF Directive
  <2>2. QED
    BY <1>18, <2>1
<1>20. left = p.left /\ long = p.long /\ (digits > zeros) = p.zero
  <2>1. left \in BOOLEAN /\ long \in BOOLEAN /\ (digits > zeros) \in BOOLEAN
    OBVIOUS
  <2> HIDE DEF left, zeros, digits, size, long, conv, width, takes
  <2>2. QED
    BY <1>3, <1>9, <1>13, <1>17, <2>1, Zenon
<1> HIDE DEF left, zeros, digits, size, long, conv, width, takes
<1>21. prints(Converted(memory[conv], long, call.args[arg]), width, left, digits > zeros)
         = prints(Converted(p.conv, p.long, call.args[arg]), p.width, p.left, p.zero)
  BY <1>15, <1>16, <1>20
<1>22. Len(Spelled(p)) >= 2 /\ conv + 1 = at + Len(Spelled(p)) + 1
  BY <1>1, <1>4, <1>14
<1> QED
  BY <1>7, <1>8, <1>19, <1>21, <1>22 DEF Put

\* Before its first piece nothing of a call is read or put out.
LEMMA NothingIsRead ==
  ASSUME NEW c, IsCall(c)
  PROVE  /\ Joined(Texts(c))[0] = <<>> /\ Joined(Meant(c))[0] = <<>> /\ Wanted(c, 0) = 0
         /\ 0 \in 0 .. Len(c.pieces)
<1>1. 0 \in 0 .. Len(c.pieces)
  BY DEF IsCall
<1>2. Joined(Texts(c))[0] = <<>>
  BY FormatReads DEF ReadsAs
<1>3. Joined(Meant(c))[0] = <<>>
  BY MeantIs
<1>4. Wanted(c, 0) = 0
  BY <1>1, WantedIs
<1> QED
  BY <1>1, <1>2, <1>3, <1>4

\* No call is a call of an empty format.
LEMMA NoCallIsCall ==
  IsCall(NoCall) /\ Format(NoCall) = <<>> /\ <<>> \o <<NUL>> \o Behind = <<NUL>> \o Behind
<1>1. /\ NoCall.pieces = <<>> /\ NoCall.cut = <<>> /\ NoCall.args = <<>>
      /\ DOMAIN <<>> = {} /\ \A T : <<>> \in Seq(T)
  BY DEF NoCall
<1>2. {n \in DOMAIN NoCall.pieces : ~ NoCall.pieces[n].plain} = {}
  BY <1>1
<1>3. Cardinality({}) = 0 /\ Len(<<>>) = 0
  BY FS_EmptySet
<1>4. IsCall(NoCall)
  BY <1>1, <1>2, <1>3 DEF IsCall
<1>5. PICK J : J = Joined(Texts(NoCall))
  OBVIOUS
<1>6. Format(NoCall) = <<>>
  <2>1. Texts(NoCall) = <<>>
    BY <1>1 DEF Texts
  <2>2. FlattenSeq(<<>>) = <<>>
    BY <1>3 DEF FlattenSeq
  <2>3. Format(NoCall) = FlattenSeq(Texts(NoCall)) \o NoCall.cut
    BY DEF Format, Texts
  <2>4. <<>> \o <<>> = <<>>
    OBVIOUS
  <2>5. QED
    BY <1>1, <2>1, <2>2, <2>3, <2>4
<1>7. <<>> \o <<NUL>> = <<NUL>>
  OBVIOUS
<1> QED
  BY <1>4, <1>6, <1>7

\* The invariant holds when printf is called.
LEMMA ClibStarts == ClibInit => ClibInv
<1>1. ASSUME NEW c \in Calls, Printf(c) PROVE ClibInv
  <2>1. IsCall(c)
    BY ClibAssumption DEF ClibAssumption
  <2>2. HasRead(0)
    BY <1>1, <2>1, NothingIsRead, Len(<<>>) = 0 DEF Printf, HasRead
  <2>3. QED
    BY <1>1, <2>1, <2>2 DEF Printf, ClibInv
<1> QED
  BY <1>1 DEF ClibInit

\* print's step from the end of one piece is to the end of the next.
LEMMA PieceRead ==
  ASSUME IsCall(call), memory = Format(call) \o <<NUL>> \o Behind, NEW n \in Nat, HasRead(n),
         n < Len(call.pieces), print
  PROVE  /\ HasRead(n + 1)'
         /\ UNCHANGED <<call, memory>>
<1> DEFINE p == call.pieces[n + 1]
           N == Len(call.pieces)
           string == IF p.plain THEN <<p.char>> ELSE Shown(p, ArgumentOf(call, n + 1))
<1>0. Percent # NUL /\ Percent \in Nat
  BY DEF Percent, NUL
<1>1. PICK J : J = Joined(Texts(call)) /\ ReadsAs(call, memory, J, Len(call.pieces))
  BY FormatReads
<1>2. PICK O : /\ O = Joined(Meant(call)) /\ O \in [0 .. N -> Seq(Nat)]
               /\ \A k \in 1 .. N : O[k] = O[k - 1] \o (IF call.pieces[k].plain THEN <<call.pieces[k].char>>
                                                        ELSE Shown(call.pieces[k], ArgumentOf(call, k)))
  BY MeantIs
<1>3. /\ N \in Nat /\ n \in 0 .. N /\ n + 1 \in 1 .. N /\ n + 1 \in 0 .. N /\ (n + 1) - 1 = n /\ n + 1 # 0
      /\ call.pieces \in Seq(Pieces)
  BY <1>1 DEF ReadsAs
<1>4. p \in Pieces
  BY <1>3
<1>5. PICK at \in Nat : at = Len(J[n]) /\ format = at + 1
  BY <1>1, <1>3 DEF ReadsAs, HasRead
<1>6. PICK s \in Seq(Nat) : s = Spelled(p)
  BY <1>4, SpelledIsText
<1>7. /\ Len(J[n + 1]) = at + Len(s) /\ (\A k \in 1 .. Len(s) : memory[at + k] = s[k])
      /\ at + Len(s) <= Len(memory) /\ memory \in Seq(Nat)
  <2>1. /\ Len(J[n + 1]) = Len(J[n]) + Len(Spelled(p))
        /\ \A k \in 1 .. Len(Spelled(p)) : memory[Len(J[n]) + k] = Spelled(p)[k]
    BY <1>1, <1>3 DEF ReadsAs
  <2>2. /\ Len(J[n + 1]) \in Nat /\ Len(J[n + 1]) <= Len(J[N]) /\ Len(J[N]) \in Nat
        /\ Len(Format(call)) = Len(J[N]) + Len(call.cut) /\ Len(memory) >= Len(Format(call)) + 1
        /\ memory \in Seq(Nat)
    <3>1. N \in 0 .. N
      BY <1>3
    <3>2. QED
      BY <1>1, <1>3, <3>1 DEF ReadsAs
  <2>3. Len(call.cut) \in Nat /\ Len(memory) \in Nat
    BY <2>2 DEF IsCall
  <2>4. Len(J[n + 1]) <= Len(memory)
    <3>1. PICK x \in Nat, y \in Nat, z \in Nat, u \in Nat :
            /\ x = Len(J[n + 1]) /\ y = Len(J[N]) /\ z = Len(call.cut)
            /\ u = Len(memory) /\ u >= (y + z) + 1 /\ x <= y
      BY <2>2, <2>3
    <3>2. u >= (y + z) + 1 /\ x <= y
      BY <3>1
    <3>3. y <= (y + z) + 1 /\ (y + z) + 1 \in Nat
      OBVIOUS
    <3>4. x <= u
      BY ONLY <3>2, <3>3, x \in Nat, y \in Nat, u \in Nat
    <3>5. QED
      BY <3>1, <3>4
  <2>5. QED
    BY <1>5, <1>6, <2>1, <2>2, <2>4
<1>8. /\ arg = Wanted(call, n) + 1 /\ out = O[n] /\ pc = Len(out) /\ out \in Seq(Nat)
      /\ printing = TRUE \/ printing
  BY <1>2, <1>3 DEF HasRead, print
<1>9. O[n + 1] = out \o string
  BY <1>2, <1>3, <1>8
<1> HIDE DEF string
<1> DEFINE Done == /\ string \in Seq(Nat)
                   /\ out' = out \o string /\ pc' = pc + Len(string)
                   /\ arg' = (IF p.plain THEN arg ELSE arg + 1)
                   /\ format' = at + Len(s) + 1
                   /\ UNCHANGED <<call, memory, printing>>
<1>10. ASSUME p.plain, p.char # Percent PROVE Done
  <2>1. s = <<p.char>> /\ p.char \in Nat /\ p.char # NUL
    BY <1>4, <1>6, <1>10, PlainIsSpelled
  <2>2. Len(s) = 1 /\ s[1] = p.char
    BY <2>1, One
  <2>3. memory[format] = p.char
    <3>1. 1 \in 1 .. Len(s)
      BY <2>2
    <3>2. QED
      BY <1>5, <1>7, <2>2, <3>1
  <2>4. OrdinaryChar
    BY <1>10, <2>1, <2>3 DEF print, End, PercentAtEnd, PercentTwice, Directive
  <2>5. string = s
    BY <1>10, <2>1 DEF string
  <2>6. QED
    BY <1>5, <1>10, <2>1, <2>2, <2>3, <2>4, <2>5 DEF OrdinaryChar, Put
<1>11. ASSUME p.plain, p.char = Percent PROVE Done
  <2>1. s = <<Percent, Percent>> /\ Percent \in Nat /\ Percent # NUL
    BY <1>4, <1>6, <1>11, PlainIsSpelled DEF Percent, NUL
  <2>2. Len(s) = 2 /\ s[1] = Percent /\ s[2] = Percent
    BY <2>1
  <2>3. memory[format] = Percent /\ memory[format + 1] = Percent
    <3>1. format + 1 = at + 2 /\ 1 \in 1 .. Len(s) /\ 2 \in 1 .. Len(s)
      BY <1>5, <2>2
    <3>2. QED
      BY <1>5, <1>7, <2>2, <3>1
  <2>4. PercentTwice
    BY <2>1, <2>3 DEF print, End, OrdinaryChar, PercentAtEnd, Directive
  <2>5. string = <<Percent>> /\ string \in Seq(Nat) /\ Len(string) = 1
    BY <1>11, <2>1, One DEF string
  <2>6. format' = at + Len(s) + 1
    BY <1>5, <2>2, <2>4 DEF PercentTwice
  <2>7. QED
    BY <1>11, <2>4, <2>5, <2>6 DEF PercentTwice, Put
<1>12. ASSUME ~ p.plain PROVE Done
  <2> DEFINE a == call.args[arg]
             made == prints(Converted(p.conv, p.long, a), p.width, p.left, p.zero)
  <2>1. a = ArgumentOf(call, n + 1) /\ a \in Arguments
    <3>1. Wanted(call, n + 1) = Wanted(call, n) + 1 /\ ArgumentOf(call, n + 1) = call.args[Wanted(call, n + 1)]
          /\ ArgumentOf(call, n + 1) \in Arguments
      BY <1>3, <1>12, WantedIs
    <3>2. QED
      BY <1>8, <3>1
  <2>2. made \in Seq(Nat) /\ made = string
    BY <1>4, <1>12, <2>1, ConversionMeans DEF string
  <2>3. \A k \in 1 .. Len(Spelled(p)) : memory[at + k] = Spelled(p)[k]
    BY <1>6, <1>7
  <2>4. /\ memory[format] = Percent /\ memory[format + 1] \notin {NUL, Percent}
        /\ Directive => /\ out' = out \o made /\ pc' = pc + Len(made) /\ arg' = arg + 1
                        /\ format' = at + Len(Spelled(p)) + 1 /\ UNCHANGED <<call, memory, printing>>
    BY <1>4, <1>5, <1>6, <1>7, <1>12, <2>3, DirectiveReads
  <2> HIDE DEF a, made
  <2>5. Directive
    <3>1. memory[format] # NUL /\ memory[format] = Percent
          /\ memory[format + 1] # NUL /\ memory[format + 1] # Percent
      BY <1>0, <2>4
    <3>2. ~ End /\ ~ OrdinaryChar /\ ~ PercentAtEnd /\ ~ PercentTwice
      BY <3>1 DEF End, OrdinaryChar, PercentAtEnd, PercentTwice
    <3>3. QED
      BY <3>2 DEF print
  <2>6. QED
    BY <1>6, <1>12, <2>2, <2>4, <2>5
<1>13. Done
  <2> HIDE DEF Done
  <2>1. QED
    BY <1>10, <1>11, <1>12
<1>14. Wanted(call, n + 1) = IF p.plain THEN Wanted(call, n) ELSE Wanted(call, n) + 1
  BY <1>3, WantedIs
<1>15. Wanted(call, n) \in Nat
  BY <1>3, WantedIs
<1>16. arg' = Wanted(call, n + 1) + 1
  BY <1>8, <1>13, <1>14, <1>15
<1>17. out' = O[n + 1] /\ pc' = Len(out')
  <2>1. Len(out \o string) = Len(out) + Len(string)
    BY <1>8, <1>13, ConcatProperties
  <2>2. QED
    BY <1>8, <1>9, <1>13, <2>1
<1>18. format' = Len(J[n + 1]) + 1
  BY <1>7, <1>13
<1>19. printing' /\ call' = call /\ memory' = memory
  BY <1>8, <1>13
<1> HIDE DEF Done
<1>20. HasRead(n + 1)'
  BY <1>1, <1>2, <1>3, <1>16, <1>17, <1>18, <1>19 DEF HasRead
<1> QED
  BY <1>19, <1>20

\* print's steps at the end of the last whole piece, and behind the cut.
LEMMA EndReached ==
  ASSUME IsCall(call), memory = Format(call) \o <<NUL>> \o Behind, Len(call.cut) < 2,
         HasRead(Len(call.pieces)) \/ HasReadCut, print
  PROVE  HasRead(Len(call.pieces))' \/ HasReadCut'
<1> DEFINE N == Len(call.pieces)
           text == Len(Format(call))
<1>1. PICK J : J = Joined(Texts(call)) /\ ReadsAs(call, memory, J, N)
  BY FormatReads
<1>2. /\ N \in 0 .. N /\ Len(J[N]) \in Nat /\ text = Len(J[N]) + Len(call.cut) /\ memory[text + 1] = NUL
      /\ \A k \in 1 .. Len(call.cut) : memory[Len(J[N]) + k] = call.cut[k]
  <2>1. N \in Nat
    BY <1>1 DEF ReadsAs
  <2>2. N \in 0 .. N
    BY <2>1
  <2>3. QED
    BY <1>1, <2>2 DEF ReadsAs
<1>3. call.cut \in Seq(Nat \ {NUL}) /\ Len(call.cut) \in Nat
  BY DEF IsCall
<1>4. Percent # NUL
  BY DEF Percent, NUL
<1>5. CASE format = text + 1
  <2>1. memory[format] = NUL
    BY <1>2, <1>5
  <2>2. End
    BY <1>4, <2>1 DEF print, OrdinaryChar, PercentAtEnd, PercentTwice, Directive
  <2>3. UNCHANGED <<call, memory, format, arg, out, pc>> /\ printing' = FALSE
    BY <2>2 DEF End
  <2>4. CASE HasRead(N)
    BY <2>3, <2>4 DEF HasRead
  <2>5. CASE HasReadCut
    BY <2>3, <2>5 DEF HasReadCut
  <2>6. QED
    BY <2>4, <2>5
<1>6. CASE format # text + 1
  <2>1. HasRead(N) /\ format = Len(J[N]) + 1
    BY <1>1, <1>6 DEF HasRead, HasReadCut
  <2>2. Len(call.cut) = 1
    <3>1. PICK x \in Nat, z \in Nat : x = Len(J[N]) /\ z = Len(call.cut)
      BY <1>2, <1>3
    <3>2. text = x + z /\ format = x + 1 /\ z < 2
      BY <1>2, <2>1, <3>1
    <3> HIDE DEF text
    <3>3. z # 0
      BY <1>6, <3>2
    <3>4. z = 1
      BY ONLY <3>2, <3>3, z \in Nat
    <3>5. QED
      BY <3>1, <3>4
  <2>3. PICK ch \in Nat \ {NUL} : ch = call.cut[1] /\ memory[format] = ch
    BY <1>2, <1>3, <2>1, <2>2, SMTT(40)
  <2>4. format + 1 = text + 1 /\ memory[format + 1] = NUL /\ call.cut # <<>>
    BY <1>2, <2>1, <2>2
  <2>5. OrdinaryChar \/ PercentAtEnd
    BY <1>4, <2>3, <2>4 DEF print, End, PercentTwice, Directive
  <2>6. format' = format + 1 /\ call' = call
    BY <2>5 DEF OrdinaryChar, PercentAtEnd
  <2>7. HasReadCut'
    BY <2>4, <2>6 DEF HasReadCut
  <2>8. QED
    BY <2>7
<1> QED
  BY <1>5, <1>6

\* Every step keeps the invariant.
LEMMA ClibSteps ==
  ASSUME ClibInv, print \/ Returned \/ UNCHANGED clibVars
  PROVE  ClibInv'
<1>1. CASE print
  <2>1. call' = call /\ memory' = memory
    BY <1>1 DEF print, End, OrdinaryChar, PercentAtEnd, PercentTwice, Directive
  <2>2. ASSUME Len(call.cut) < 2 PROVE HasReadCut' \/ \E n \in Nat : HasRead(n)'
    <3>1. Len(call.pieces) \in Nat
      BY DEF ClibInv, IsCall
    <3>2. CASE HasReadCut \/ HasRead(Len(call.pieces))
      <4>1. HasRead(Len(call.pieces))' \/ HasReadCut'
        BY <1>1, <2>2, <3>2, EndReached DEF ClibInv
      <4>2. HasRead(Len(call.pieces))' => \E n \in Nat : HasRead(n)'
        BY <2>1, <3>1 DEF HasRead
      <4>3. QED
        BY <4>1, <4>2
    <3>3. ASSUME NEW n \in Nat, HasRead(n), n # Len(call.pieces) PROVE \E k \in Nat : HasRead(k)'
      <4>1. n < Len(call.pieces)
        BY <3>1, <3>3 DEF HasRead
      <4>2. HasRead(n + 1)'
        BY <1>1, <3>3, <4>1, PieceRead DEF ClibInv
      <4>3. QED
        BY <4>2, n + 1 \in Nat
    <3>4. QED
      BY <2>2, <3>2, <3>3 DEF ClibInv
  <2>3. QED
    BY <2>1, <2>2 DEF ClibInv
<1>2. CASE Returned
  <2>1. /\ call' = NoCall /\ memory' = Format(NoCall) \o <<NUL>> \o Behind
        /\ format' = 1 /\ arg' = 1 /\ out' = <<>> /\ pc' = 0
    BY <1>2, NoCallIsCall DEF Returned
  <2>2. Len(NoCall.pieces) = 0 /\ Len(<<>>) = 0
    BY DEF NoCall
  <2>3. HasRead(0)'
    BY <2>1, <2>2, NoCallIsCall, NothingIsRead DEF HasRead
  <2>4. QED
    BY <2>1, <2>3, NoCallIsCall DEF ClibInv
<1>3. CASE UNCHANGED clibVars
  BY <1>3 DEF clibVars, ClibInv, HasRead, HasReadCut
<1> QED
  BY <1>1, <1>2, <1>3

\* At every moment of a call print has put out what the pieces it has read mean, and stands
\* behind the last of them.
THEOREM ClibInvariant == ProgramsSpec => []ClibInv
<1>1. ProgramsInit => ClibInv
  BY ClibStarts DEF ProgramsInit
<1>2. ClibInv /\ [ProgramsNext]_<<bmfsVars, clibVars>> => ClibInv'
  <2>1. ASSUME ClibInv, PrintsNext PROVE ClibInv'
    BY <2>1, ClibSteps DEF PrintsNext
  <2>2. ASSUME ClibInv, UNCHANGED clibVars PROVE ClibInv'
    BY <2>2, ClibSteps
  <2>3. [ProgramsNext]_<<bmfsVars, clibVars>> => PrintsNext \/ UNCHANGED clibVars
    BY DEF ProgramsNext, FilesNext
  <2>4. QED
    BY <2>1, <2>2, <2>3
<1> QED
  BY <1>1, <1>2, PTL DEF ProgramsSpec

\* print puts out what C says the format means, for every format and all its arguments, but for 0
\* and - together and for %d and %ld with a negative number: plain characters, %%, and the
\* conversions with their -, 0, width and l, the numbers as numerals; and its answer is the number
\* of characters.
THEOREM FormatsAreMeant == ProgramsSpec => []PrintsWhatIsMeant
<1>1. ASSUME ClibInv, ~ printing, call.cut = <<>>
      PROVE  out = FlattenSeq(Meant(call)) /\ pc = Len(out)
  <2>1. Len(call.cut) = 0
    BY <1>1
  <2>2. ~ HasReadCut
    BY <1>1 DEF HasReadCut
  <2>3. PICK n \in Nat : HasRead(n)
    BY <1>1, <2>1, <2>2 DEF ClibInv
  <2>4. n = Len(call.pieces) /\ out = Joined(Meant(call))[n] /\ pc = Len(out)
    BY <1>1, <2>3 DEF HasRead
  <2>5. FlattenSeq(Meant(call)) = Joined(Meant(call))[Len(call.pieces)]
    BY <1>1, MeantIs DEF ClibInv
  <2>6. QED
    BY <2>4, <2>5
<1>2. ASSUME ClibInv, AsInC(call), NEW n \in DOMAIN call.pieces, ~ call.pieces[n].plain
      PROVE  Shown(call.pieces[n], ArgumentOf(call, n)) = Meaning(call.pieces[n], ArgumentOf(call, n))
  <2>1. IsCall(call) /\ n \in 0 .. Len(call.pieces) /\ n # 0 /\ call.pieces[n] \in Pieces
    BY <1>2 DEF ClibInv, IsCall
  <2>2. ArgumentOf(call, n) \in Arguments
    BY <1>2, <2>1, WantedIs
  <2>3. QED
    BY <1>2, <2>1, <2>2, ShownIsMeant DEF AsInC
<1>3. ClibInv => PrintsWhatIsMeant
  <2> SUFFICES ASSUME ClibInv, ~ printing, call.cut = <<>>, AsInC(call)
               PROVE  /\ out = FlattenSeq([n \in DOMAIN call.pieces |->
                                            IF call.pieces[n].plain THEN <<call.pieces[n].char>>
                                            ELSE Meaning(call.pieces[n], ArgumentOf(call, n))])
                      /\ pc = Len(out)
    BY DEF PrintsWhatIsMeant
  <2>1. Meant(call) = [n \in DOMAIN call.pieces |->
                        IF call.pieces[n].plain THEN <<call.pieces[n].char>>
                        ELSE Meaning(call.pieces[n], ArgumentOf(call, n))]
    BY <1>2 DEF Meant
  <2>2. QED
    BY <1>1, <2>1
<1> QED
  BY <1>3, ClibInvariant, PTL

\* print never looks behind the NUL that ends a format, whatever stands in memory there, unless
\* the format ends inside a conversion.
THEOREM FormatsEnd == ProgramsSpec => []StaysInFormat
<1>1. ASSUME ClibInv, Len(call.cut) < 2 PROVE format <= Len(Format(call)) + 1
  <2>1. CASE HasReadCut
    <3>1. Len(Format(call)) \in Nat
      <4>1. PICK J : ReadsAs(call, memory, J, Len(call.pieces))
        BY <1>1, FormatReads DEF ClibInv
      <4>2. Len(call.pieces) \in 0 .. Len(call.pieces) /\ Len(call.cut) \in Nat
        BY <1>1 DEF ClibInv, IsCall
      <4>3. Len(J[Len(call.pieces)]) \in Nat /\ Len(Format(call)) = Len(J[Len(call.pieces)]) + Len(call.cut)
        BY <4>1, <4>2 DEF ReadsAs
      <4>4. PICK y \in Nat, z \in Nat : y = Len(J[Len(call.pieces)]) /\ z = Len(call.cut)
        BY <4>2, <4>3
      <4>5. Len(Format(call)) = y + z
        BY <4>3, <4>4
      <4>6. y + z \in Nat
        OBVIOUS
      <4>7. QED
        BY <4>5, <4>6
    <3>2. QED
      BY <2>1, <3>1 DEF HasReadCut
  <2>2. ASSUME NEW n \in Nat, HasRead(n) PROVE format <= Len(Format(call)) + 1
    <3>1. PICK J : J = Joined(Texts(call)) /\ ReadsAs(call, memory, J, Len(call.pieces))
      BY <1>1, FormatReads DEF ClibInv
    <3>2. n \in 0 .. Len(call.pieces) /\ format = Len(J[n]) + 1 /\ Len(call.cut) \in Nat
      BY <1>1, <2>2, <3>1 DEF ClibInv, IsCall, HasRead
    <3>3. PICK N \in Nat : N = Len(call.pieces) /\ N \in 0 .. N
      BY <1>1 DEF ClibInv, IsCall
    <3>4. PICK x \in Nat, y \in Nat, z \in Nat :
            x = Len(J[n]) /\ y = Len(J[N]) /\ z = Len(call.cut) /\ x <= y
      BY <3>1, <3>2, <3>3 DEF ReadsAs
    <3>5. Len(Format(call)) = y + z
      BY <3>1, <3>3, <3>4 DEF ReadsAs
    <3>6. format = x + 1
      BY <3>2, <3>4
    <3>7. x <= y
      BY <3>4
    <3>8. x + 1 <= (y + z) + 1
      BY ONLY <3>7, x \in Nat, y \in Nat, z \in Nat
    <3>9. QED
      BY <3>5, <3>6, <3>8
  <2>3. QED
    BY <1>1, <2>1, <2>2 DEF ClibInv
<1>2. ClibInv => StaysInFormat
  BY <1>1 DEF StaysInFormat
<1> QED
  BY <1>2, ClibInvariant, PTL

=============================================================================
