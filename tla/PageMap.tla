------------------------------ MODULE PageMap ------------------------------
(***************************************************************************)
(* The allocator of 2 MiB pages: os_mem_allocate and os_mem_release        *)
(* (bmos/syscalls/memory.asm) on the byte map os_MemoryMap that            *)
(* init_memory_map (bmos/init/64.asm) builds at boot, and builds again     *)
(* after every exception (bmos/interrupt.asm).                             *)
(*                                                                         *)
(* The search reads one byte of the map at a time, from the last page down *)
(* and the marking writes one byte at a time; the code takes no lock, so   *)
(* on several cores those steps interleave.  What each caller has been     *)
(* given and has not released (owned) is not in the code: it is what the   *)
(* map is for.  Nor is clashed, which remembers that programs have done    *)
(* what the allocator cannot bear: called it at the same time, or faulted  *)
(* while another had pages.                                                *)
(***************************************************************************)
EXTENDS Naturals, FiniteSets

CONSTANTS
  Callers,      \* the cores that run programs
  NumPages,     \* os_MemAmount / 2, computed on 32 bits
  WordPages,    \* the pages a 16-bit count of MiB can hold (32768 in the code)
  MaxRequest    \* the largest number of pages a program asks for (bounds the model)

ASSUME PageAssumption ==
  /\ NumPages \in Nat \ {0, 1}
  /\ WordPages \in Nat \ {0}
  /\ MaxRequest \in Nat

VARIABLES
  os_MemoryMap,  \* one byte per page: 0 not there, 1 free, 2 in use
  pc,            \* where each caller is: idle, look, mark, done or fail
  want,          \* RCX: the pages asked for
  left,          \* RBX while looking: the pages still to find in this run
  at,            \* RSI while looking: the next page to look at;
                 \* RDI while marking: the next page to mark
  owned,         \* the pages each program was given and has not released
  clashed        \* have calls overlapped, or has one faulted while another had pages?

pageVars == <<os_MemoryMap, pc, want, left, at, owned, clashed>>

Pages == 0 .. NumPages - 1

\* mov cx,[os_MemAmount] takes the low 16 bits of the amount of memory.
MappedPages == NumPages % WordPages

\* rep stosb of 1 over those pages, then 2 into the first byte of the map.
FreshMap == [p \in Pages |-> IF p = 0 THEN 2 ELSE IF p < MappedPages THEN 1 ELSE 0]

PageInit ==
  /\ os_MemoryMap = FreshMap
  /\ pc = [c \in Callers |-> "idle"]
  /\ want = [c \in Callers |-> 0]
  /\ left = [c \in Callers |-> 0]
  /\ at = [c \in Callers |-> 0]
  /\ owned = [c \in Callers |-> {}]
  /\ clashed = FALSE

\* Is no other caller in one of the functions?
Alone(c) == \A d \in Callers \ {c} : pc[d] = "idle"

-----------------------------------------------------------------------------
(* os_mem_allocate                                                         *)

AllocCall(c, n) ==
  /\ pc[c] = "idle"
  /\ clashed' = (clashed \/ ~ Alone(c))
  /\ pc' = [pc EXCEPT ![c] = IF n = 0 THEN "fail" ELSE "look"]
  /\ want' = [want EXCEPT ![c] = n]
  /\ left' = [left EXCEPT ![c] = n]
  /\ at' = [at EXCEPT ![c] = NumPages - 1]
  /\ UNCHANGED <<os_MemoryMap, owned>>

\* A plausible bug: the comparison comes one byte too early, and page 2 is never looked at.
LookStartEarly(c) ==
  /\ pc[c] = "look"
  /\ at[c] - 1 <= 1
  /\ pc' = [pc EXCEPT ![c] = "fail"]
  /\ at' = [at EXCEPT ![c] = 0]
  /\ UNCHANGED <<os_MemoryMap, want, left, owned, clashed>>

\* lodsb; cmp rsi,rdx: the byte of page 1 is loaded and never tested.
LookStart(c) ==
  /\ pc[c] = "look"
  /\ at[c] - 1 = 0
  /\ pc' = [pc EXCEPT ![c] = "fail"]
  /\ at' = [at EXCEPT ![c] = 0]
  /\ UNCHANGED <<os_MemoryMap, want, left, owned, clashed>>

\* A plausible bug: jne goes to nextpage, and the count carries on over a page that is taken.
LookTakenCarriesOn(c) ==
  /\ pc[c] = "look"
  /\ at[c] - 1 # 0
  /\ os_MemoryMap[at[c]] # 1
  /\ at' = [at EXCEPT ![c] = @ - 1]
  /\ UNCHANGED <<os_MemoryMap, pc, want, left, owned, clashed>>

\* The page is taken: start counting from scratch.
LookTaken(c) ==
  /\ pc[c] = "look"
  /\ at[c] - 1 # 0
  /\ os_MemoryMap[at[c]] # 1
  /\ left' = [left EXCEPT ![c] = want[c]]
  /\ at' = [at EXCEPT ![c] = @ - 1]
  /\ UNCHANGED <<os_MemoryMap, pc, want, owned, clashed>>

\* The page is free; the last one of the run is the first to be marked.
LookFree(c) ==
  /\ pc[c] = "look"
  /\ at[c] - 1 # 0
  /\ os_MemoryMap[at[c]] = 1
  /\ left' = [left EXCEPT ![c] = @ - 1]
  /\ IF left[c] = 1
       THEN pc' = [pc EXCEPT ![c] = "mark"] /\ UNCHANGED at
       ELSE at' = [at EXCEPT ![c] = @ - 1] /\ UNCHANGED pc
  /\ UNCHANGED <<os_MemoryMap, want, owned, clashed>>

\* rep stosb: left counts the pages marked so far.
Mark(c) ==
  /\ pc[c] = "mark"
  /\ os_MemoryMap' = [os_MemoryMap EXCEPT ![at[c]] = 2]
  /\ at' = [at EXCEPT ![c] = @ + 1]
  /\ left' = [left EXCEPT ![c] = @ + 1]
  /\ pc' = [pc EXCEPT ![c] = IF left[c] + 1 = want[c] THEN "done" ELSE "mark"]
  /\ UNCHANGED <<want, owned, clashed>>

\* RAX is the address of the first page of the run.
AllocReturn(c) ==
  /\ pc[c] = "done"
  /\ owned' = [owned EXCEPT ![c] = @ \cup (at[c] - want[c] .. at[c] - 1)]
  /\ pc' = [pc EXCEPT ![c] = "idle"]
  /\ UNCHANGED <<os_MemoryMap, want, left, at, clashed>>

\* RAX is 0.
AllocFail(c) ==
  /\ pc[c] = "fail"
  /\ pc' = [pc EXCEPT ![c] = "idle"]
  /\ UNCHANGED <<os_MemoryMap, want, left, at, owned, clashed>>

-----------------------------------------------------------------------------
(* os_mem_release: marks what it is told to, without a look at the map.    *)
(* Programs release pages they were given, all or some of them.  The rep   *)
(* stosb is one step: half way through it, it has released fewer pages,    *)
(* which is a step of its own here.                                        *)

\* A plausible bug: the last page is left marked.
ReleaseOneLess(c, p, n) ==
  /\ pc[c] = "idle"
  /\ clashed' = (clashed \/ ~ Alone(c))
  /\ n > 0
  /\ p .. p + n - 1 \subseteq owned[c]
  /\ os_MemoryMap' = [q \in Pages |-> IF q \in p .. p + n - 2 THEN 1 ELSE os_MemoryMap[q]]
  /\ owned' = [owned EXCEPT ![c] = @ \ (p .. p + n - 1)]
  /\ UNCHANGED <<pc, want, left, at>>

Release(c, p, n) ==
  /\ pc[c] = "idle"
  /\ clashed' = (clashed \/ ~ Alone(c))
  /\ n > 0
  /\ p .. p + n - 1 \subseteq owned[c]
  /\ os_MemoryMap' = [q \in Pages |-> IF q \in p .. p + n - 1 THEN 1 ELSE os_MemoryMap[q]]
  /\ owned' = [owned EXCEPT ![c] = @ \ (p .. p + n - 1)]
  /\ UNCHANGED <<pc, want, left, at>>

-----------------------------------------------------------------------------
(* exception_gate_main: the program is gone, and call init_memory_map      *)
(* builds the map afresh, whoever else holds pages.                        *)

Exception(c) ==
  /\ pc[c] = "idle"
  /\ clashed' = (clashed \/ ~ Alone(c) \/ \E d \in Callers \ {c} : owned[d] # {})
  /\ os_MemoryMap' = FreshMap
  /\ owned' = [owned EXCEPT ![c] = {}]
  /\ UNCHANGED <<pc, want, left, at>>

-----------------------------------------------------------------------------
PageNext ==
  \E c \in Callers :
    \/ \E n \in 0 .. MaxRequest : AllocCall(c, n)
    \/ LookStart(c) \/ LookTaken(c) \/ LookFree(c)
    \/ Mark(c)
    \/ AllocReturn(c) \/ AllocFail(c)
    \/ \E p \in Pages, n \in 1 .. NumPages : Release(c, p, n)
    \/ Exception(c)

PageSpec == PageInit /\ [][PageNext]_pageVars

-----------------------------------------------------------------------------
(* Properties                                                              *)

PageTypeOK ==
  /\ os_MemoryMap \in [Pages -> 0 .. 2]
  /\ pc \in [Callers -> {"idle", "look", "mark", "done", "fail"}]
  /\ want \in [Callers -> 0 .. MaxRequest]
  /\ left \in [Callers -> 0 .. MaxRequest]
  /\ at \in [Callers -> 0 .. NumPages]
  /\ owned \in [Callers -> SUBSET Pages]
  /\ clashed \in BOOLEAN

\* Until programs clash, no page is given to two of them.
NoDoubleGrant ==
  ~ clashed => \A c, d \in Callers : c # d => owned[c] \cap owned[d] = {}

\* The pages a caller in the middle of os_mem_allocate has marked.
Marked(c) ==
  IF pc[c] \in {"mark", "done"} THEN at[c] - left[c] .. at[c] - 1 ELSE {}

\* Whatever calls overlap and whoever faults: a page that is marked in use is the kernel's, a
\* program's or about to be, so that the map loses none, and no program is given the kernel's
\* page or one outside of the map.
NothingLeaks ==
  /\ \A p \in Pages :
       os_MemoryMap[p] = 2 => p = 0 \/ \E c \in Callers : p \in owned[c] \cup Marked(c)
  /\ \A c \in Callers : owned[c] \cup Marked(c) \subseteq Pages \ {0}

\* Until programs clash, every page that somebody owns or is about to own is marked in use, so
\* that it cannot be handed out again.  An exception while another has pages marks these as free.
OwnersMarked ==
  ~ clashed => \A c \in Callers : \A p \in owned[c] \cup Marked(c) : os_MemoryMap[p] = 2

\* The map tells who has what: what it marks as in use is somebody's, always, and what is
\* somebody's is marked, until programs clash.
MapTellsOwners == NothingLeaks /\ OwnersMarked

\* The n pages from p on are free.
FreeRun(p, n) == \A q \in p .. p + n - 1 : os_MemoryMap[q] = 1

\* Until programs clash, an allocation fails only if no run of free pages above page 1 is long
\* enough.
FailsOnlyWhenNoRun ==
  [][\A c \in Callers : LookStart(c) /\ ~ clashed =>
       \A p \in 2 .. NumPages - want[c] : ~ FreeRun(p, want[c])]_pageVars
=============================================================================
