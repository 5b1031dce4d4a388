----------------------------- MODULE MemoryProofs -----------------------------
(***************************************************************************)
(* Theorems about two programs that look after memory and have no state in *)
(* common.  The page allocator, for any number of programs and of pages:   *)
(* none is lost to the map, whatever calls overlap and whoever faults; and *)
(* while programs keep their calls apart with a mutex and none faults      *)
(* while another has pages, none is given out twice.  memtest64, for every *)
(* table of the firmware, every size of words, chunks and list, and any    *)
(* number of faulty bytes: it tests what is usable, a report stands one    *)
(* word behind a faulty one, and it misses no more than the last word of a *)
(* chunk and what lies behind a word it reports.                           *)
(***************************************************************************)
EXTENDS PageMap, MemTest, Numbers, SequenceTheorems, FiniteSetTheorems, TLAPS

-----------------------------------------------------------------------------
(* The page allocator                                                      *)

Active(c) == pc[c] # "idle"

OneCall == \A c, d \in Callers : Active(c) /\ Active(d) => c = d

\* What a search knows: the run it counts is free, and fits between page 2 and the end.
LookKnows(c) ==
  pc[c] = "look" =>
    /\ want[c] > 0
    /\ left[c] \in 1 .. want[c]
    /\ at[c] \in 1 .. NumPages - 1
    /\ at[c] + (want[c] - left[c]) <= NumPages - 1
    /\ \A q \in Pages : at[c] < q /\ q <= at[c] + (want[c] - left[c]) => os_MemoryMap[q] = 1

\* What the marking knows: the rest of the run is free.
MarkKnows(c) ==
  pc[c] \in {"mark", "done"} =>
    /\ want[c] > 0
    /\ left[c] \in 0 .. want[c]
    /\ pc[c] = "mark" => left[c] < want[c]
    /\ pc[c] = "done" => left[c] = want[c]
    /\ at[c] - left[c] >= 2
    /\ at[c] + (want[c] - left[c]) <= NumPages
    /\ \A q \in Pages : at[c] <= q /\ q < at[c] + (want[c] - left[c]) => os_MemoryMap[q] = 1

SearchKnows == \A c \in Callers : LookKnows(c) /\ MarkKnows(c)

\* What is being marked for one caller is no page that any caller was given.
MarksAreNew == \A c, d \in Callers : Marked(c) \cap owned[d] = {}

\* No page has two owners, and the kernel's has none.
OneOwner ==
  /\ \A c, d \in Callers : c # d => owned[c] \cap owned[d] = {}
  /\ \A c \in Callers : 0 \notin owned[c]

\* The map says 2 for the pages that somebody has, and for no other.
MapIsOwners ==
  \A p \in Pages :
    os_MemoryMap[p] = 2 <=> p = 0 \/ \E c \in Callers : p \in owned[c] \cup Marked(c)

\* The inductive invariant until programs clash: the map says whose the pages are, and the one search that may be
\* under way counts pages that stay free until it marks them.
PageInv ==
  /\ PageTypeOK
  /\ OneCall
  /\ SearchKnows
  /\ MarksAreNew
  /\ MapIsOwners
  /\ OneOwner

-----------------------------------------------------------------------------
LEMMA FreshMapType == FreshMap \in [Pages -> 0 .. 2] /\ \A p \in Pages : FreshMap[p] = 2 <=> p = 0
BY PageAssumption DEF FreshMap, Pages

LEMMA PageInitInv == PageInit => PageInv
<1> SUFFICES ASSUME PageInit PROVE PageInv
  OBVIOUS
<1>1. PageTypeOK
  <2>1. clashed \in BOOLEAN
    BY DEF PageInit
  <2>2. NumPages - 1 \in 0 .. NumPages /\ 0 \in 0 .. MaxRequest /\ 0 \in 0 .. NumPages
    BY PageAssumption
  <2>3. os_MemoryMap \in [Pages -> 0 .. 2]
    BY FreshMapType DEF PageInit
  <2>4. QED
    BY <2>1, <2>2, <2>3 DEF PageInit, PageTypeOK
<1>2. OneCall /\ SearchKnows /\ MarksAreNew /\ OneOwner
  BY DEF PageInit, OneCall, Active, SearchKnows, LookKnows, MarkKnows, MarksAreNew, Marked,
         OneOwner
<1>3. MapIsOwners
  BY FreshMapType DEF PageInit, MapIsOwners, Marked
<1>4. QED
  BY <1>1, <1>2, <1>3 DEF PageInv

LEMMA PageTypeStep == PageInv /\ [PageNext]_pageVars => PageTypeOK'
<1> SUFFICES ASSUME PageInv, [PageNext]_pageVars PROVE PageTypeOK'
  OBVIOUS
<1> USE PageAssumption DEF PageInv, PageTypeOK
<1>1. CASE UNCHANGED pageVars
  BY <1>1 DEF pageVars
<1>2. ASSUME NEW c \in Callers, NEW n \in 0 .. MaxRequest, AllocCall(c, n) PROVE PageTypeOK'
  BY <1>2 DEF AllocCall
<1>3. ASSUME NEW c \in Callers, LookStart(c) \/ LookTaken(c) PROVE PageTypeOK'
  BY <1>3 DEF LookStart, LookTaken, SearchKnows, LookKnows
<1>4. ASSUME NEW c \in Callers, LookFree(c) PROVE PageTypeOK'
  BY <1>4 DEF LookFree, SearchKnows, LookKnows
<1>5. ASSUME NEW c \in Callers, Mark(c) PROVE PageTypeOK'
  <2>1. left[c] + 1 \in 0 .. MaxRequest /\ at[c] + 1 \in 0 .. NumPages /\ at[c] \in Pages
    BY <1>5 DEF Mark, SearchKnows, MarkKnows, Pages
  <2>2. QED
    BY <1>5, <2>1 DEF Mark
<1>6. ASSUME NEW c \in Callers, AllocReturn(c) PROVE PageTypeOK'
  <2>1. at[c] - want[c] .. at[c] - 1 \subseteq Pages
    BY <1>6 DEF AllocReturn, SearchKnows, MarkKnows, Pages
  <2>2. QED
    BY <1>6, <2>1 DEF AllocReturn
<1>7. ASSUME NEW c \in Callers, AllocFail(c) PROVE PageTypeOK'
  BY <1>7 DEF AllocFail
<1>8. ASSUME NEW c \in Callers, NEW p \in Pages, NEW n \in 1 .. NumPages, Release(c, p, n)
      PROVE  PageTypeOK'
  BY <1>8 DEF Release
<1>9. ASSUME NEW c \in Callers, Exception(c) PROVE PageTypeOK'
  BY <1>9, FreshMapType DEF Exception
<1>10. QED
  BY <1>1, <1>2, <1>3, <1>4, <1>5, <1>6, <1>7, <1>8, <1>9 DEF PageNext

\* What a step does by which programs have not clashed.
LEMMA NoClash ==
  ASSUME ~ clashed', NEW c \in Callers
  PROVE  /\ \A n \in 0 .. MaxRequest : AllocCall(c, n) => pc[c] = "idle" /\ Alone(c)
         /\ \A p \in Pages, n \in 1 .. NumPages :
              Release(c, p, n) => pc[c] = "idle" /\ Alone(c)
         /\ Exception(c) => /\ pc[c] = "idle" /\ Alone(c)
                            /\ \A d \in Callers \ {c} : owned[d] = {}
BY DEF AllocCall, Release, Exception

LEMMA ClashStays ==
  ASSUME [PageNext]_pageVars, ~ clashed'
  PROVE  ~ clashed
<1>1. CASE UNCHANGED pageVars
  BY <1>1 DEF pageVars
<1>2. CASE PageNext
  BY <1>2 DEF PageNext, AllocCall, LookStart, LookTaken, LookFree, Mark, AllocReturn, AllocFail,
              Release, Exception
<1>3. QED
  BY <1>1, <1>2

LEMMA OneCallStep ==
  PageInv /\ [PageNext]_pageVars /\ ~ clashed' => OneCall'
<1> SUFFICES ASSUME PageInv, [PageNext]_pageVars, ~ clashed' PROVE OneCall'
  OBVIOUS
<1> USE DEF PageInv, PageTypeOK, OneCall, Active
<1>1. CASE UNCHANGED pageVars
  BY <1>1 DEF pageVars
<1>2. ASSUME NEW c \in Callers, NEW n \in 0 .. MaxRequest, AllocCall(c, n) PROVE OneCall'
  BY <1>2, NoClash DEF AllocCall, Alone
<1>3. ASSUME NEW c \in Callers,
             LookStart(c) \/ LookTaken(c) \/ LookFree(c) \/ Mark(c) \/ AllocReturn(c)
               \/ AllocFail(c)
      PROVE  OneCall'
  BY <1>3 DEF LookStart, LookTaken, LookFree, Mark, AllocReturn, AllocFail
<1>4. ASSUME NEW c \in Callers, NEW p \in Pages, NEW n \in 1 .. NumPages, Release(c, p, n)
      PROVE  OneCall'
  BY <1>4 DEF Release
<1>5. ASSUME NEW c \in Callers, Exception(c) PROVE OneCall'
  BY <1>5 DEF Exception
<1>6. QED
  BY <1>1, <1>2, <1>3, <1>4, <1>5 DEF PageNext

\* Only one caller is active, so only its own step can move the search it is in.
LEMMA SearchStep ==
  PageInv /\ [PageNext]_pageVars /\ ~ clashed' => SearchKnows'
<1> SUFFICES ASSUME PageInv, [PageNext]_pageVars, ~ clashed', NEW d \in Callers
             PROVE  LookKnows(d)' /\ MarkKnows(d)'
  BY DEF SearchKnows
<1> USE PageAssumption DEF LookKnows, MarkKnows
<1> pc \in [Callers -> {"idle", "look", "mark", "done", "fail"}]
  BY DEF PageInv, PageTypeOK
<1>a. want[d] \in 0 .. MaxRequest /\ left[d] \in 0 .. MaxRequest /\ at[d] \in 0 .. NumPages
  BY DEF PageInv, PageTypeOK
<1>b. LookKnows(d) /\ MarkKnows(d)
  BY DEF PageInv, SearchKnows
<1>c. \A c \in Callers \ {d} : pc[c] # "idle" => pc[d] = "idle"
  BY DEF PageInv, OneCall, Active
<1>1. CASE UNCHANGED pageVars
  BY <1>1, <1>b DEF pageVars
<1>2. ASSUME NEW c \in Callers, NEW n \in 0 .. MaxRequest, AllocCall(c, n)
      PROVE  LookKnows(d)' /\ MarkKnows(d)'
  <2>1. CASE d # c
    BY <1>2, <2>1, NoClash DEF AllocCall, Alone
  <2>2. CASE d = c
    <3>1. want'[d] = n /\ left'[d] = n /\ at'[d] = NumPages - 1
      BY <1>2, <2>2 DEF AllocCall, PageInv, PageTypeOK
    <3>2. pc'[d] = IF n = 0 THEN "fail" ELSE "look"
      BY <1>2, <2>2 DEF AllocCall
    <3>3. QED
      BY <3>1, <3>2 DEF Pages
  <2>3. QED
    BY <2>1, <2>2
<1>3. ASSUME NEW c \in Callers, LookStart(c) \/ LookTaken(c)
      PROVE  LookKnows(d)' /\ MarkKnows(d)'
  <2>1. CASE d # c
    BY <1>3, <1>c, <2>1 DEF LookStart, LookTaken
  <2>2. CASE d = c /\ LookStart(c)
    BY <2>2 DEF LookStart
  <2>3. CASE d = c /\ LookTaken(c)
    <3>1. want'[d] = want[d] /\ left'[d] = want[d] /\ at'[d] = at[d] - 1 /\ pc'[d] = "look"
      BY <2>3 DEF LookTaken, PageInv, PageTypeOK
    <3>2. QED
      BY <3>1, <2>3, <1>a, <1>b DEF LookTaken, Pages
  <2>4. QED
    BY <1>3, <2>1, <2>2, <2>3
<1>4. ASSUME NEW c \in Callers, LookFree(c) PROVE LookKnows(d)' /\ MarkKnows(d)'
  <2>1. CASE d # c
    BY <1>4, <1>c, <2>1 DEF LookFree
  <2>2. CASE d = c
    <3>1. want'[d] = want[d] /\ left'[d] = left[d] - 1 /\ UNCHANGED os_MemoryMap
      BY <1>4, <2>2 DEF LookFree, PageInv, PageTypeOK
    <3>2. os_MemoryMap[at[d]] = 1 /\ pc[d] = "look" /\ at[d] >= 2
      BY <1>4, <2>2, <1>a, <1>b DEF LookFree
    <3>3. CASE left[d] = 1
      <4>1. pc'[d] = "mark" /\ at'[d] = at[d]
        BY <1>4, <2>2, <3>3 DEF LookFree
      <4>2. QED
        BY <3>1, <3>2, <3>3, <4>1, <1>a, <1>b DEF Pages
    <3>4. CASE left[d] # 1
      <4>1. pc'[d] = "look" /\ at'[d] = at[d] - 1
        BY <1>4, <2>2, <3>4 DEF LookFree, PageInv, PageTypeOK
      <4>2. QED
        BY <3>1, <3>2, <3>4, <4>1, <1>a, <1>b DEF Pages
    <3>5. QED
      BY <3>3, <3>4
  <2>3. QED
    BY <2>1, <2>2
<1>5. ASSUME NEW c \in Callers, Mark(c) PROVE LookKnows(d)' /\ MarkKnows(d)'
  <2>1. CASE d # c
    BY <1>5, <1>c, <2>1 DEF Mark
  <2>2. CASE d = c
    <3>1. want'[d] = want[d] /\ left'[d] = left[d] + 1 /\ at'[d] = at[d] + 1
      BY <1>5, <2>2 DEF Mark, PageInv, PageTypeOK
    <3>2. pc[d] = "mark" /\ pc'[d] = IF left[d] + 1 = want[d] THEN "done" ELSE "mark"
      BY <1>5, <2>2 DEF Mark
    <3>3. \A q \in Pages : q # at[d] => os_MemoryMap'[q] = os_MemoryMap[q]
      BY <1>5, <2>2 DEF Mark, PageInv, PageTypeOK
    <3>4. QED
      BY <3>1, <3>2, <3>3, <1>a, <1>b DEF Pages
  <2>3. QED
    BY <2>1, <2>2
<1>6. ASSUME NEW c \in Callers, AllocReturn(c) \/ AllocFail(c)
      PROVE  LookKnows(d)' /\ MarkKnows(d)'
  BY <1>6, <1>c DEF AllocReturn, AllocFail
<1>7. ASSUME NEW c \in Callers, NEW p \in Pages, NEW n \in 1 .. NumPages, Release(c, p, n)
      PROVE  LookKnows(d)' /\ MarkKnows(d)'
  BY <1>7, NoClash DEF Release, Alone
<1>8. ASSUME NEW c \in Callers, Exception(c) PROVE LookKnows(d)' /\ MarkKnows(d)'
  BY <1>8, NoClash DEF Exception, Alone
<1>9. QED
  BY <1>1, <1>2, <1>3, <1>4, <1>5, <1>6, <1>7, <1>8 DEF PageNext

\* How each step moves what is marked and what is owned.
LEMMA MarkedMoves ==
  ASSUME PageInv, NEW c \in Callers
  PROVE  /\ LookStart(c) \/ LookTaken(c) \/ LookFree(c) \/ AllocFail(c) =>
              /\ UNCHANGED <<os_MemoryMap, owned>>
              /\ \A d \in Callers : Marked(d)' = Marked(d)
         /\ \A n \in 0 .. MaxRequest : AllocCall(c, n) =>
              /\ UNCHANGED <<os_MemoryMap, owned>>
              /\ \A d \in Callers : Marked(d)' = Marked(d)
         /\ Mark(c) =>
              /\ at[c] \in Pages \ {0} /\ os_MemoryMap[at[c]] = 1
              /\ UNCHANGED owned
              /\ Marked(c)' = Marked(c) \cup {at[c]}
              /\ \A d \in Callers \ {c} : Marked(d)' = Marked(d)
         /\ AllocReturn(c) =>
              /\ UNCHANGED os_MemoryMap
              /\ owned' = [owned EXCEPT ![c] = @ \cup Marked(c)]
              /\ Marked(c)' = {}
              /\ 0 \notin Marked(c)
              /\ \A d \in Callers \ {c} : Marked(d)' = Marked(d)
<1> USE PageAssumption DEF Marked
<1>a. /\ pc \in [Callers -> {"idle", "look", "mark", "done", "fail"}]
      /\ at \in [Callers -> 0 .. NumPages] /\ left \in [Callers -> 0 .. MaxRequest]
      /\ want \in [Callers -> 0 .. MaxRequest]
  BY DEF PageInv, PageTypeOK
<1>b. LookKnows(c) /\ MarkKnows(c)
  BY DEF PageInv, SearchKnows
<1>1. ASSUME LookStart(c) \/ LookTaken(c) \/ AllocFail(c)
      PROVE  /\ UNCHANGED <<os_MemoryMap, owned>>
             /\ \A d \in Callers : Marked(d)' = Marked(d)
  BY <1>1, <1>a DEF LookStart, LookTaken, AllocFail
<1>2. ASSUME LookFree(c)
      PROVE  /\ UNCHANGED <<os_MemoryMap, owned>>
             /\ \A d \in Callers : Marked(d)' = Marked(d)
  <2>1. Marked(c) = {}
    BY <1>2 DEF LookFree
  <2>2. Marked(c)' = {}
    <3>1. CASE left[c] = 1
      <4>1. left'[c] = 0 /\ at'[c] = at[c]
        BY <1>2, <1>a, <3>1 DEF LookFree
      <4>2. QED
        BY <4>1, <1>a
    <3>2. CASE left[c] # 1
      BY <1>2, <1>a, <3>2 DEF LookFree
    <3>3. QED
      BY <3>1, <3>2
  <2>3. \A d \in Callers \ {c} : Marked(d)' = Marked(d)
    BY <1>2, <1>a DEF LookFree
  <2>4. QED
    BY <1>2, <2>1, <2>2, <2>3 DEF LookFree
<1>3. ASSUME NEW n \in 0 .. MaxRequest, AllocCall(c, n)
      PROVE  /\ UNCHANGED <<os_MemoryMap, owned>>
             /\ \A d \in Callers : Marked(d)' = Marked(d)
  BY <1>3, <1>a DEF AllocCall
<1>4. ASSUME Mark(c)
      PROVE  /\ at[c] \in Pages \ {0} /\ os_MemoryMap[at[c]] = 1
             /\ UNCHANGED owned
             /\ Marked(c)' = Marked(c) \cup {at[c]}
             /\ \A d \in Callers \ {c} : Marked(d)' = Marked(d)
  <2>1. at[c] \in Pages \ {0} /\ os_MemoryMap[at[c]] = 1
    BY <1>4, <1>a, <1>b DEF Mark, MarkKnows, Pages
  <2>2. /\ pc[c] = "mark" /\ pc'[c] \in {"mark", "done"}
        /\ at'[c] = at[c] + 1 /\ left'[c] = left[c] + 1
    BY <1>4, <1>a DEF Mark
  <2>3. Marked(c)' = Marked(c) \cup {at[c]}
    BY <2>2, <1>a
  <2>4. \A d \in Callers \ {c} : Marked(d)' = Marked(d)
    BY <1>4, <1>a DEF Mark
  <2>5. QED
    BY <1>4, <2>1, <2>3, <2>4 DEF Mark
<1>5. ASSUME AllocReturn(c)
      PROVE  /\ UNCHANGED os_MemoryMap
             /\ owned' = [owned EXCEPT ![c] = @ \cup Marked(c)]
             /\ Marked(c)' = {}
             /\ 0 \notin Marked(c)
             /\ \A d \in Callers \ {c} : Marked(d)' = Marked(d)
  <2>1. pc[c] = "done" /\ pc'[c] = "idle" /\ left[c] = want[c] /\ at[c] - left[c] >= 2
    BY <1>5, <1>a, <1>b DEF AllocReturn, MarkKnows
  <2>2. 0 \notin Marked(c)
    BY <2>1, <1>a
  <2>3. \A d \in Callers \ {c} : Marked(d)' = Marked(d)
    BY <1>5, <1>a DEF AllocReturn
  <2>4. QED
    BY <1>5, <2>1, <2>2, <2>3 DEF AllocReturn
<1>6. QED
  BY <1>1, <1>2, <1>3, <1>4, <1>5

\* Release and Exception come when no search is under way.
LEMMA NobodyMarks ==
  ASSUME PageInv, ~ clashed', NEW c \in Callers
  PROVE  /\ \A p \in Pages, n \in 1 .. NumPages : Release(c, p, n) =>
              \A d \in Callers : Marked(d) = {} /\ Marked(d)' = {}
         /\ Exception(c) => /\ \A d \in Callers : Marked(d) = {} /\ Marked(d)' = {}
                            /\ \A d \in Callers : owned'[d] = {}
BY NoClash DEF Release, Exception, Alone, Marked, PageInv, PageTypeOK

\* Nothing comes to be owned twice, or marked while it is owned.
LEMMA GrantStep ==
  PageInv /\ [PageNext]_pageVars /\ ~ clashed' => OneOwner' /\ MarksAreNew'
<1> SUFFICES ASSUME PageInv, [PageNext]_pageVars, ~ clashed' PROVE OneOwner' /\ MarksAreNew'
  OBVIOUS
<1>a. /\ OneOwner /\ MarksAreNew /\ MapIsOwners /\ OneCall
      /\ owned \in [Callers -> SUBSET Pages]
  BY DEF PageInv, PageTypeOK
<1> USE DEF OneOwner, MarksAreNew
<1>1. CASE UNCHANGED pageVars
  BY <1>1, <1>a DEF pageVars, Marked
<1>2. ASSUME NEW c \in Callers,
             \/ \E n \in 0 .. MaxRequest : AllocCall(c, n)
             \/ LookStart(c) \/ LookTaken(c) \/ LookFree(c) \/ AllocFail(c)
      PROVE  OneOwner' /\ MarksAreNew'
  BY <1>2, <1>a, MarkedMoves
<1>3. ASSUME NEW c \in Callers, Mark(c) PROVE OneOwner' /\ MarksAreNew'
  <2>1. \A d \in Callers : at[c] \notin owned[d]
    BY <1>3, <1>a, MarkedMoves DEF MapIsOwners
  <2>2. QED
    BY <1>3, <1>a, <2>1, MarkedMoves
<1>4. ASSUME NEW c \in Callers, AllocReturn(c) PROVE OneOwner' /\ MarksAreNew'
  <2>1. \A d \in Callers \ {c} : Marked(d)' = {}
    BY <1>4, <1>a, MarkedMoves DEF OneCall, Active, AllocReturn, Marked
  <2>2. QED
    BY <1>4, <1>a, <2>1, MarkedMoves
<1>5. ASSUME NEW c \in Callers, NEW p \in Pages, NEW n \in 1 .. NumPages, Release(c, p, n)
      PROVE  OneOwner' /\ MarksAreNew'
  BY <1>5, <1>a, NobodyMarks DEF Release
<1>6. ASSUME NEW c \in Callers, Exception(c) PROVE OneOwner' /\ MarksAreNew'
  BY <1>6, NobodyMarks
<1>7. QED
  BY <1>1, <1>2, <1>3, <1>4, <1>5, <1>6 DEF PageNext

\* The bytes that say 2 stay those of the pages somebody has.
LEMMA MapStep ==
  PageInv /\ [PageNext]_pageVars /\ ~ clashed' => MapIsOwners'
<1> SUFFICES ASSUME PageInv, [PageNext]_pageVars, ~ clashed' PROVE MapIsOwners'
  OBVIOUS
<1>a. /\ OneOwner /\ MapIsOwners
      /\ owned \in [Callers -> SUBSET Pages] /\ os_MemoryMap \in [Pages -> 0 .. 2]
  BY DEF PageInv, PageTypeOK
<1> USE DEF MapIsOwners
<1>1. CASE UNCHANGED pageVars
  BY <1>1, <1>a DEF pageVars, Marked
<1>2. ASSUME NEW c \in Callers,
             \/ \E n \in 0 .. MaxRequest : AllocCall(c, n)
             \/ LookStart(c) \/ LookTaken(c) \/ LookFree(c) \/ AllocFail(c)
      PROVE  MapIsOwners'
  BY <1>2, <1>a, MarkedMoves
<1>3. ASSUME NEW c \in Callers, Mark(c) PROVE MapIsOwners'
  <2>1. os_MemoryMap' = [os_MemoryMap EXCEPT ![at[c]] = 2]
    BY <1>3 DEF Mark
  <2>2. QED
    BY <1>3, <1>a, <2>1, MarkedMoves
<1>4. ASSUME NEW c \in Callers, AllocReturn(c) PROVE MapIsOwners'
  BY <1>4, <1>a, MarkedMoves
<1>5. ASSUME NEW c \in Callers, NEW p \in Pages, NEW n \in 1 .. NumPages, Release(c, p, n)
      PROVE  MapIsOwners'
  <2>1. p .. p + n - 1 \subseteq owned[c]
    BY <1>5 DEF Release
  <2>2. owned' = [owned EXCEPT ![c] = @ \ (p .. p + n - 1)]
    BY <1>5 DEF Release
  <2>3. os_MemoryMap' = [q \in Pages |-> IF q \in p .. p + n - 1 THEN 1 ELSE os_MemoryMap[q]]
    BY <1>5 DEF Release
  <2>4. QED
    BY <1>5, <1>a, <2>1, <2>2, <2>3, NobodyMarks DEF OneOwner
<1>6. ASSUME NEW c \in Callers, Exception(c) PROVE MapIsOwners'
  BY <1>6, NobodyMarks, FreshMapType DEF Exception
<1>7. QED
  BY <1>1, <1>2, <1>3, <1>4, <1>5, <1>6 DEF PageNext

-----------------------------------------------------------------------------
\* The inductive invariant holds of every behaviour until programs clash.
THEOREM PageInvariant ==
  PageSpec => [](~ clashed => PageInv)
<1>1. PageInit => (~ clashed => PageInv)
  BY PageInitInv
<1>2. (~ clashed => PageInv) /\ [PageNext]_pageVars => (~ clashed' => PageInv')
  <2> SUFFICES ASSUME ~ clashed => PageInv, [PageNext]_pageVars, ~ clashed' PROVE PageInv'
    OBVIOUS
  <2>1. PageInv
    BY ClashStays
  <2>2. QED
    BY <2>1, PageTypeStep, OneCallStep, SearchStep, GrantStep, MapStep DEF PageInv
<1>3. QED
  BY <1>1, <1>2, PTL DEF PageSpec

\* os_mem_allocate gives no page to two programs until programs clash: for any number of programs
\* that keep their calls apart and of which none faults while another has pages, never.
THEOREM PagesGrantedOnce ==
  PageSpec => []NoDoubleGrant
<1>1. (~ clashed => PageInv) => NoDoubleGrant
  BY DEF PageInv, OneOwner, NoDoubleGrant
<1>2. QED
  BY <1>1, PageInvariant, PTL

-----------------------------------------------------------------------------
\* Where a search or a marking can be, whatever others do to the map meanwhile.
WithinMap(c) ==
  /\ pc[c] = "look" =>
       /\ left[c] \in 1 .. want[c]
       /\ at[c] \in 1 .. NumPages - 1
       /\ at[c] + (want[c] - left[c]) <= NumPages - 1
  /\ pc[c] \in {"mark", "done"} =>
       /\ left[c] \in 0 .. want[c]
       /\ pc[c] = "mark" => left[c] < want[c]
       /\ pc[c] = "done" => left[c] = want[c]
       /\ at[c] - left[c] >= 2
       /\ at[c] + (want[c] - left[c]) <= NumPages

AllWithinMap == PageTypeOK /\ \A c \in Callers : WithinMap(c)

LEMMA WithinMapStep == AllWithinMap /\ [PageNext]_pageVars => AllWithinMap'
<1> SUFFICES ASSUME AllWithinMap, [PageNext]_pageVars PROVE AllWithinMap'
  OBVIOUS
<1> USE PageAssumption
<1>a. PageTypeOK /\ \A d \in Callers : WithinMap(d)
  BY DEF AllWithinMap
<1>1. CASE UNCHANGED pageVars
  BY <1>1, <1>a DEF AllWithinMap, WithinMap, PageTypeOK, pageVars
<1>2. ASSUME NEW c \in Callers,
             \/ \E n \in 0 .. MaxRequest : AllocCall(c, n)
             \/ LookStart(c) \/ LookTaken(c) \/ LookFree(c)
             \/ Mark(c)
             \/ AllocReturn(c) \/ AllocFail(c)
      PROVE  AllWithinMap'
  <2>1. \A d \in Callers \ {c} :
          pc'[d] = pc[d] /\ want'[d] = want[d] /\ left'[d] = left[d] /\ at'[d] = at[d]
    BY <1>2, <1>a DEF AllocCall, LookStart, LookTaken, LookFree, Mark, AllocReturn, AllocFail,
                      PageTypeOK
  <2>2. \A d \in Callers \ {c} : WithinMap(d)'
    BY <2>1, <1>a DEF WithinMap
  <2>3. WithinMap(c) /\ want[c] \in 0 .. MaxRequest /\ left[c] \in 0 .. MaxRequest
        /\ at[c] \in 0 .. NumPages
    BY <1>a DEF PageTypeOK
  <2>4. ASSUME NEW n \in 0 .. MaxRequest, AllocCall(c, n) PROVE PageTypeOK' /\ WithinMap(c)'
    BY <2>4, <1>a DEF AllocCall, PageTypeOK, WithinMap
  <2>5. ASSUME LookStart(c) \/ AllocFail(c) PROVE PageTypeOK' /\ WithinMap(c)'
    BY <2>5, <1>a DEF LookStart, AllocFail, PageTypeOK, WithinMap
  <2>6. ASSUME LookTaken(c) PROVE PageTypeOK' /\ WithinMap(c)'
    BY <2>6, <2>3, <1>a DEF LookTaken, PageTypeOK, WithinMap
  <2>7. ASSUME LookFree(c) PROVE PageTypeOK' /\ WithinMap(c)'
    <3>1. CASE left[c] = 1
      BY <2>7, <2>3, <3>1, <1>a DEF LookFree, PageTypeOK, WithinMap
    <3>2. CASE left[c] # 1
      BY <2>7, <2>3, <3>2, <1>a DEF LookFree, PageTypeOK, WithinMap
    <3>3. QED
      BY <3>1, <3>2
  <2>8. ASSUME Mark(c) PROVE PageTypeOK' /\ WithinMap(c)'
    <3>1. /\ pc[c] = "mark" /\ pc'[c] = IF left[c] + 1 = want[c] THEN "done" ELSE "mark"
          /\ at'[c] = at[c] + 1 /\ left'[c] = left[c] + 1 /\ want'[c] = want[c]
      BY <2>8, <1>a DEF Mark, PageTypeOK
    <3>2. WithinMap(c)'
      BY <3>1, <2>3 DEF WithinMap
    <3>3. left[c] + 1 \in 0 .. MaxRequest /\ at[c] + 1 \in 0 .. NumPages /\ at[c] \in Pages
      BY <3>1, <2>3 DEF WithinMap, Pages
    <3>4. PageTypeOK'
      BY <2>8, <3>3, <1>a DEF Mark, PageTypeOK
    <3>5. QED
      BY <3>2, <3>4
  <2>9. ASSUME AllocReturn(c) PROVE PageTypeOK' /\ WithinMap(c)'
    <3>1. at[c] - want[c] .. at[c] - 1 \subseteq Pages
      BY <2>9, <2>3 DEF AllocReturn, WithinMap, Pages
    <3>2. QED
      BY <2>9, <3>1, <1>a DEF AllocReturn, PageTypeOK, WithinMap
  <2>10. QED
    BY <1>2, <2>2, <2>4, <2>5, <2>6, <2>7, <2>8, <2>9 DEF AllWithinMap
<1>3. ASSUME NEW c \in Callers, NEW p \in Pages, NEW n \in 1 .. NumPages, Release(c, p, n)
      PROVE  AllWithinMap'
  BY <1>3, <1>a DEF Release, AllWithinMap, WithinMap, PageTypeOK
<1>4. ASSUME NEW c \in Callers, Exception(c) PROVE AllWithinMap'
  BY <1>4, <1>a, FreshMapType DEF Exception, AllWithinMap, WithinMap, PageTypeOK
<1>5. QED
  BY <1>1, <1>2, <1>3, <1>4 DEF PageNext

\* What a byte that says 2 can stand for after each step.
LEMMA NothingLeaksStep == AllWithinMap /\ NothingLeaks /\ [PageNext]_pageVars => NothingLeaks'
<1> SUFFICES ASSUME AllWithinMap, NothingLeaks, [PageNext]_pageVars PROVE NothingLeaks'
  OBVIOUS
<1> USE PageAssumption
<1>a. PageTypeOK /\ \A d \in Callers : WithinMap(d)
  BY DEF AllWithinMap
<1>1. CASE UNCHANGED pageVars
  BY <1>1 DEF NothingLeaks, Marked, pageVars
<1>2. ASSUME NEW c \in Callers,
             \/ \E n \in 0 .. MaxRequest : AllocCall(c, n)
             \/ LookStart(c) \/ LookTaken(c) \/ LookFree(c) \/ AllocFail(c)
      PROVE  NothingLeaks'
  <2>1. UNCHANGED <<os_MemoryMap, owned>> /\ Marked(c) = {}
    BY <1>2 DEF AllocCall, LookStart, LookTaken, LookFree, AllocFail, Marked
  <2>2. \A d \in Callers \ {c} : Marked(d)' = Marked(d)
    BY <1>2, <1>a DEF AllocCall, LookStart, LookTaken, LookFree, AllocFail, Marked, PageTypeOK
  <2>3. Marked(c)' = {}
    <3>1. CASE LookFree(c) /\ left[c] = 1
      <4>1. left'[c] = 0 /\ at'[c] = at[c] /\ at[c] \in Nat
        BY <3>1, <1>a DEF LookFree, PageTypeOK
      <4>2. QED
        BY <4>1 DEF Marked
    <3>2. CASE ~ (LookFree(c) /\ left[c] = 1)
      <4>1. pc'[c] \in {"idle", "look", "fail"}
        BY <1>2, <3>2, <1>a DEF AllocCall, LookStart, LookTaken, LookFree, AllocFail, PageTypeOK
      <4>2. QED
        BY <4>1 DEF Marked
    <3>3. QED
      BY <3>1, <3>2
  <2>4. QED
    BY <2>1, <2>2, <2>3 DEF NothingLeaks
<1>3. ASSUME NEW c \in Callers, Mark(c) PROVE NothingLeaks'
  <2>1. /\ at[c] \in Pages \ {0}
        /\ os_MemoryMap' = [os_MemoryMap EXCEPT ![at[c]] = 2]
        /\ UNCHANGED owned
    BY <1>3, <1>a DEF Mark, WithinMap, PageTypeOK, Pages
  <2>2. /\ pc[c] = "mark" /\ pc'[c] \in {"mark", "done"}
        /\ at'[c] = at[c] + 1 /\ left'[c] = left[c] + 1
        /\ at[c] \in Nat /\ left[c] \in Nat
    BY <1>3, <1>a DEF Mark, PageTypeOK
  <2>3. Marked(c)' = Marked(c) \cup {at[c]}
    BY <2>2 DEF Marked
  <2>4. \A d \in Callers \ {c} : Marked(d)' = Marked(d)
    BY <1>3, <1>a DEF Mark, Marked, PageTypeOK
  <2>5. \A d \in Callers : Marked(d) \subseteq Marked(d)'
    BY <2>3, <2>4
  <2>6. \A p \in Pages : os_MemoryMap'[p] = 2 =>
          p = 0 \/ \E d \in Callers : p \in owned'[d] \cup Marked(d)'
    BY <2>1, <2>3, <2>5, <1>a DEF NothingLeaks, PageTypeOK
  <2>7. \A d \in Callers : owned'[d] \cup Marked(d)' \subseteq Pages \ {0}
    BY <2>1, <2>3, <2>4 DEF NothingLeaks
  <2>8. QED
    BY <2>6, <2>7 DEF NothingLeaks
<1>4. ASSUME NEW c \in Callers, AllocReturn(c) PROVE NothingLeaks'
  <2>1. /\ UNCHANGED os_MemoryMap
        /\ owned' = [owned EXCEPT ![c] = @ \cup Marked(c)]
        /\ Marked(c)' = {}
    BY <1>4, <1>a DEF AllocReturn, Marked, WithinMap, PageTypeOK
  <2>2. \A d \in Callers \ {c} : Marked(d)' = Marked(d)
    BY <1>4, <1>a DEF AllocReturn, Marked, PageTypeOK
  <2>3. \A d \in Callers : owned'[d] \cup Marked(d)' = owned[d] \cup Marked(d)
    BY <2>1, <2>2, <1>a DEF PageTypeOK
  <2>4. QED
    BY <2>1, <2>3 DEF NothingLeaks
<1>5. ASSUME NEW c \in Callers, NEW p \in Pages, NEW n \in 1 .. NumPages, Release(c, p, n)
      PROVE  NothingLeaks'
  <2>1. \A d \in Callers : Marked(d)' = Marked(d)
    BY <1>5 DEF Release, Marked
  <2>2. /\ os_MemoryMap' = [q \in Pages |-> IF q \in p .. p + n - 1 THEN 1 ELSE os_MemoryMap[q]]
        /\ owned' = [owned EXCEPT ![c] = @ \ (p .. p + n - 1)]
    BY <1>5 DEF Release
  <2>3. \A d \in Callers : /\ owned'[d] \subseteq owned[d]
                           /\ \A q \in owned[d] : q \notin p .. p + n - 1 => q \in owned'[d]
    BY <2>2, <1>a DEF PageTypeOK
  <2>4. QED
    BY <2>1, <2>2, <2>3 DEF NothingLeaks
<1>6. ASSUME NEW c \in Callers, Exception(c) PROVE NothingLeaks'
  <2>1. \A d \in Callers : Marked(d)' = Marked(d)
    BY <1>6 DEF Exception, Marked
  <2>2. os_MemoryMap' = FreshMap /\ \A d \in Callers : owned'[d] \subseteq owned[d]
    BY <1>6, <1>a DEF Exception, PageTypeOK
  <2>3. QED
    BY <2>1, <2>2, FreshMapType DEF NothingLeaks
<1>7. QED
  BY <1>1, <1>2, <1>3, <1>4, <1>5, <1>6 DEF PageNext

\* Type correctness: no search or marking leaves the map, whatever others do to it.
THEOREM PageTypeCorrect ==
  PageSpec => []PageTypeOK
<1>1. PageInit => AllWithinMap
  BY PageInitInv DEF AllWithinMap, PageInv, PageInit, WithinMap
<1>2. AllWithinMap /\ [PageNext]_pageVars => AllWithinMap'
  BY WithinMapStep
<1>3. AllWithinMap => PageTypeOK
  BY DEF AllWithinMap
<1>4. QED
  BY <1>1, <1>2, <1>3, PTL DEF PageSpec

\* No page is lost, and none outside of the map or of the kernel is given out, with no condition on
\* the programs: their calls may overlap at any byte of the map, and any of them may fault at any time.
THEOREM NoPageLost ==
  PageSpec => []NothingLeaks
<1>1. PageInit => AllWithinMap /\ NothingLeaks
  <2> SUFFICES ASSUME PageInit PROVE AllWithinMap /\ NothingLeaks
    OBVIOUS
  <2>1. PageTypeOK
    BY PageInitInv DEF PageInv
  <2>2. \A c \in Callers : WithinMap(c)
    BY DEF PageInit, WithinMap
  <2>3. NothingLeaks
    BY FreshMapType DEF PageInit, NothingLeaks, Marked
  <2>4. QED
    BY <2>1, <2>2, <2>3 DEF AllWithinMap
<1>2. (AllWithinMap /\ NothingLeaks) /\ [PageNext]_pageVars => (AllWithinMap /\ NothingLeaks)'
  BY WithinMapStep, NothingLeaksStep
<1>3. QED
  BY <1>1, <1>2, PTL DEF PageSpec

\* os_MemoryMap says 2 for no pages but those that somebody has, ever, and for all of these until
\* programs clash.  The exception that comes while another has pages is such a clash, since it
\* marks those as free.
THEOREM PagesAccountedFor ==
  PageSpec => []MapTellsOwners
<1>1. (~ clashed => PageInv) => OwnersMarked
  <2> SUFFICES ASSUME PageInv PROVE \A c \in Callers : \A p \in owned[c] \cup Marked(c) :
                                      os_MemoryMap[p] = 2
    BY DEF OwnersMarked
  <2>1. \A c \in Callers : owned[c] \cup Marked(c) \subseteq Pages
    BY PageAssumption DEF PageInv, PageTypeOK, SearchKnows, MarkKnows, Marked, Pages
  <2>2. QED
    BY <2>1 DEF PageInv, MapIsOwners
<1>2. QED
  BY <1>1, PageInvariant, NoPageLost, PTL DEF MapTellsOwners

-----------------------------------------------------------------------------
\* What a search has ruled out: the run it counts ends at a page that is not free, or at the
\* last one, and no run above it is long enough.
RuledOut(c) ==
  pc[c] = "look" =>
    /\ at[c] + (want[c] - left[c]) + 1 \in Pages =>
         os_MemoryMap[at[c] + (want[c] - left[c]) + 1] # 1
    /\ \A p \in 2 .. NumPages - want[c] : p > at[c] => ~ FreeRun(p, want[c])

NoRunAbove == \A c \in Callers : RuledOut(c)

LEMMA NoRunAboveStep ==
  PageInv /\ NoRunAbove /\ [PageNext]_pageVars /\ ~ clashed' => NoRunAbove'
<1> SUFFICES ASSUME PageInv, NoRunAbove, [PageNext]_pageVars, ~ clashed', NEW d \in Callers
             PROVE  RuledOut(d)'
  BY DEF NoRunAbove
<1> USE PageAssumption DEF RuledOut, FreeRun
<1> pc \in [Callers -> {"idle", "look", "mark", "done", "fail"}]
  BY DEF PageInv, PageTypeOK
<1>a. want[d] \in 0 .. MaxRequest /\ left[d] \in 0 .. MaxRequest /\ at[d] \in 0 .. NumPages
  BY DEF PageInv, PageTypeOK
<1>b. LookKnows(d) /\ RuledOut(d)
  BY DEF PageInv, SearchKnows, NoRunAbove
<1>c. \A c \in Callers \ {d} : pc[c] # "idle" => pc[d] = "idle"
  BY DEF PageInv, OneCall, Active
<1>1. CASE UNCHANGED pageVars
  BY <1>1, <1>b DEF pageVars
<1>2. ASSUME NEW c \in Callers, NEW n \in 0 .. MaxRequest, AllocCall(c, n) PROVE RuledOut(d)'
  <2>1. CASE d # c
    BY <1>2, <2>1, NoClash DEF AllocCall, Alone
  <2>2. CASE d = c
    <3>1. want'[d] = n /\ left'[d] = n /\ at'[d] = NumPages - 1
      BY <1>2, <2>2 DEF AllocCall, PageInv, PageTypeOK
    <3>2. pc'[d] = IF n = 0 THEN "fail" ELSE "look"
      BY <1>2, <2>2 DEF AllocCall
    <3>3. QED
      BY <3>1, <3>2 DEF Pages
  <2>3. QED
    BY <2>1, <2>2
<1>3. ASSUME NEW c \in Callers, LookTaken(c) PROVE RuledOut(d)'
  <2>1. CASE d # c
    BY <1>3, <1>c, <2>1 DEF LookTaken
  <2>2. CASE d = c
    <3>1. want'[d] = want[d] /\ left'[d] = want[d] /\ at'[d] = at[d] - 1
      BY <1>3, <2>2 DEF LookTaken, PageInv, PageTypeOK
    <3>2. UNCHANGED os_MemoryMap /\ os_MemoryMap[at[d]] # 1 /\ pc[d] = "look"
      BY <1>3, <2>2 DEF LookTaken
    <3>3. at[d] >= 1 /\ want[d] > 0
      BY <3>2, <1>b DEF LookKnows
    <3>4. QED
      BY <3>1, <3>2, <3>3, <1>a, <1>b
  <2>3. QED
    BY <2>1, <2>2
<1>4. ASSUME NEW c \in Callers, LookFree(c) PROVE RuledOut(d)'
  <2>1. CASE d # c
    BY <1>4, <1>c, <2>1 DEF LookFree
  <2>2. CASE d = c /\ left[d] = 1
    BY <1>4, <2>2 DEF LookFree
  <2>3. CASE d = c /\ left[d] # 1
    <3>1. want'[d] = want[d] /\ left'[d] = left[d] - 1 /\ at'[d] = at[d] - 1
      BY <1>4, <2>3 DEF LookFree, PageInv, PageTypeOK
    <3>2. UNCHANGED os_MemoryMap /\ pc[d] = "look"
      BY <1>4, <2>3 DEF LookFree
    <3>3. /\ at[d] >= 1 /\ left[d] \in 2 .. want[d]
          /\ at[d] + (want[d] - left[d]) <= NumPages - 1
      BY <3>2, <2>3, <1>b DEF LookKnows
    <3>4. at[d] \in 2 .. NumPages - want[d] => ~ FreeRun(at[d], want[d])
      BY <3>2, <3>3, <1>a, <1>b DEF Pages
    <3>5. QED
      BY <3>1, <3>2, <3>3, <3>4, <1>a, <1>b
  <2>4. QED
    BY <2>1, <2>2, <2>3
<1>5. ASSUME NEW c \in Callers,
             LookStart(c) \/ Mark(c) \/ AllocReturn(c) \/ AllocFail(c)
      PROVE  RuledOut(d)'
  BY <1>5, <1>c DEF LookStart, Mark, AllocReturn, AllocFail
<1>6. ASSUME NEW c \in Callers, NEW p \in Pages, NEW n \in 1 .. NumPages, Release(c, p, n)
      PROVE  RuledOut(d)'
  BY <1>6, NoClash DEF Release, Alone
<1>7. ASSUME NEW c \in Callers, Exception(c) PROVE RuledOut(d)'
  BY <1>7, NoClash DEF Exception, Alone
<1>8. QED
  BY <1>1, <1>2, <1>3, <1>4, <1>5, <1>6, <1>7 DEF PageNext

\* os_mem_allocate is complete until programs clash: it answers 0 only when no run of free pages is
\* long enough.  With calls that overlap, a page may become free behind the search.
THEOREM FailureMeansNoRun ==
  PageSpec => FailsOnlyWhenNoRun
<1> DEFINE Ruled == ~ clashed => PageInv /\ NoRunAbove
<1>1. PageInit => Ruled
  BY PageInitInv DEF PageInit, NoRunAbove, RuledOut
<1>2. Ruled /\ [PageNext]_pageVars => Ruled'
  <2> SUFFICES ASSUME Ruled, [PageNext]_pageVars, ~ clashed' PROVE (PageInv /\ NoRunAbove)'
    OBVIOUS
  <2>1. PageInv /\ NoRunAbove
    BY ClashStays
  <2>2. PageInv'
    BY <2>1, PageTypeStep, OneCallStep, SearchStep, GrantStep, MapStep DEF PageInv
  <2>3. NoRunAbove'
    BY <2>1, NoRunAboveStep
  <2>4. QED
    BY <2>2, <2>3
<1>3. Ruled =>
        \A c \in Callers : LookStart(c) /\ ~ clashed =>
          \A p \in 2 .. NumPages - want[c] : ~ FreeRun(p, want[c])
  <2> SUFFICES ASSUME PageInv, NoRunAbove, NEW c \in Callers, LookStart(c),
                      NEW p \in 2 .. NumPages - want[c]
               PROVE  ~ FreeRun(p, want[c])
    OBVIOUS
  <2>1. at[c] \in 0 .. NumPages /\ want[c] \in 0 .. MaxRequest /\ NumPages \in Nat /\ MaxRequest \in Nat
    BY PageAssumption DEF PageInv, PageTypeOK
  <2>2. p > at[c]
    BY <2>1 DEF LookStart
  <2>3. QED
    BY <2>1, <2>2 DEF NoRunAbove, RuledOut, LookStart
<1> HIDE DEF Ruled
<1>4. QED
  BY <1>1, <1>2, <1>3, PTL DEF PageSpec, FailsOnlyWhenNoRun

-----------------------------------------------------------------------------
(* memtest64                                                               *)

\* What a part is: the bytes of its first n words, and of all.
WordBytes(p, n) == p.startAddr .. p.startAddr + WordSize * n - 1
Words(p) == p.len \div WordSize
Whole(p) == WordBytes(p, Words(p))

\* A part as it is listed, and what the cut at 2 MiB leaves of it.
Parts == [startAddr : Nat, len : Nat]
AsPart(slot) == [startAddr |-> slot.startAddr, len |-> slot.len]
Low == [startAddr |-> 0, len |-> Under2M]
Above(p) == Cutoff(p, Low)[1]

\* The usable slots among the first k.
UsableTo(k) == {n \in 1 .. k : table[n].usable = 1}

MemTestTypeOK ==
  /\ table \in Tables
  /\ stuck \in [DOMAIN stuck -> {0, 1}]
  /\ mem \in [Addresses -> {0, 1, Old}]
  /\ where \in {"prompt", "show", "more", "add", "press", "cut", "unit", "finish", "full"}
  /\ i \in 1 .. Len(table)
  /\ lines \in Nat
  /\ FreeMemArr \in Seq(Parts) /\ Len(FreeMemArr) <= MaxMemArr
  /\ part \in Nat \ {0} /\ step \in 1 .. 4 /\ cnt \in Nat
  /\ totalLen \in Nat

Listed(S) == \A p : (\E n \in DOMAIN FreeMemArr : p = FreeMemArr[n]) <=> p \in S

\* The list holds the usable slots read so far, then all of them, then what is left of each.
ListKnown ==
  /\ where \in {"show", "more", "add"} => Listed({AsPart(table[n]) : n \in UsableTo(i - 1)})
  /\ where \in {"press", "cut"} => Listed({AsPart(table[n]) : n \in UsableTo(Len(table))})
  /\ where \in {"unit", "finish"} => Listed({Above(AsPart(table[n])) : n \in UsableTo(Len(table))})

\* Nothing is written but what is to be tested.
OnlyTestable == \A b \in Addresses : mem[b] # Old => b \in AllTestable

\* The bytes of the parts before part n.
PartsTo(n) == UNION {Whole(FreeMemArr[m]) : m \in 1 .. n - 1}

\* The bytes in verified chunks, each with the value, when c words are done in step s of part n.
Walked(n, s, c) ==
  (PartsTo(n) \X {0, 1}) \cup (IF s > 2 THEN Whole(FreeMemArr[n]) \X {1} ELSE {})
    \cup (IF s \in {2, 4} THEN WordBytes(FreeMemArr[n], c) \X {IF s <= 2 THEN 1 ELSE 0} ELSE {})

\* How far the test has come tells which bytes have been verified, and with which value.
WalkKnown ==
  /\ where \in {"show", "more", "add", "press", "cut"} => walked = {}
  /\ where = "unit" => /\ part \in 1 .. Len(FreeMemArr) /\ cnt <= total
                       /\ walked = Walked(part, step, cnt)
  /\ where = "finish" => part = Len(FreeMemArr) + 1 /\ walked = PartsTo(part) \X {0, 1}

\* The inductive invariant of the walk through the parts.
MemTestInv == MemTestTypeOK /\ ListKnown /\ OnlyTestable /\ WalkKnown

\* What has been written is there, but for the faulty bytes: as far as this step has come when it
\* writes, in the whole part when it verifies.
Holds(b, v) == mem[b] = IF b \in DOMAIN stuck THEN stuck[b] ELSE v

HeldKnown ==
  where = "unit" =>
    \A b \in WordBytes(FreeMemArr[part], IF step \in {1, 3} THEN cnt ELSE total) : Holds(b, Value)

\* The address shown for a faulty word a is the one behind it, inside a slot.
FaultAt(a) == FaultyWord(a) /\ \E m \in DOMAIN table : a + WordSize < table[m].startAddr + table[m].len

\* Each report is the address behind a faulty word, in hexadecimal, and they are counted.
ReportsKnown ==
  /\ reports \in Seq({Long2Hex(a) : a \in Nat})
  /\ \A n \in 1 .. Len(reports) : \E a \in Nat : FaultAt(a) /\ reports[n] = Long2Hex(a + WordSize)
  /\ error = Len(reports)
  /\ where # "prompt" => countShown = <<>>
  /\ countShown # <<>> => countShown = Long2Dec(error)

-----------------------------------------------------------------------------
(* Numbers                                                                 *)

LEMMA Sizes ==
  /\ WordSize \in Nat \ {0} /\ Chunks \in Nat \ {0} /\ MaxMemArr \in Nat \ {0} /\ PageLines \in Nat \ {0}
  /\ Under2M \in Nat
BY MemTestAssumption DEF MemTestAssumption

LEMMA Times ==
  /\ \A a \in Nat : WordSize * a \in Nat
  /\ WordSize * 0 = 0
  /\ \A a, b \in Nat : WordSize * (a + b) = WordSize * a + WordSize * b
  /\ \A a, b \in Nat : a <= b => WordSize * a <= WordSize * b
  /\ \A a, b \in Nat : a < b => WordSize * a + WordSize <= WordSize * b
<1>1. \A a \in Nat, c \in Nat : c * a \in Nat
  OBVIOUS
<1>2. \A a, b \in Int, c \in Nat : c * (a + b) = c * a + c * b
  OBVIOUS
<1>3. ASSUME NEW a \in Nat, NEW b \in Nat, a <= b PROVE WordSize * a <= WordSize * b
  <2>1. WordSize * (b - a) \in Nat
    BY <1>1, <1>3, Sizes
  <2>2. WordSize * (a + (b - a)) = WordSize * a + WordSize * (b - a)
    BY <1>2, Sizes
  <2>3. a + (b - a) = b
    OBVIOUS
  <2>4. WordSize * b = WordSize * a + WordSize * (b - a)
    BY <2>2, <2>3
  <2>5. WordSize * a \in Nat /\ WordSize * b \in Nat
    BY <1>1, Sizes
  <2> DEFINE x == WordSize * a
             y == WordSize * b
             z == WordSize * (b - a)
  <2> HIDE DEF x, y, z
  <2>6. x \in Nat /\ y \in Nat /\ z \in Nat /\ y = x + z
    BY <2>1, <2>4, <2>5 DEF x, y, z
  <2>7. x <= y
    BY <2>6
  <2>8. QED
    BY <2>7 DEF x, y
<1>4. ASSUME NEW a \in Nat, NEW b \in Nat, a < b PROVE WordSize * a + WordSize <= WordSize * b
  <2>1. a + 1 \in Nat /\ a + 1 <= b
    BY <1>4
  <2>2. WordSize * (a + 1) <= WordSize * b
    BY <1>3, <2>1
  <2>3. WordSize * (a + 1) = WordSize * a + WordSize * 1
    BY <1>2, Sizes
  <2>4. WordSize * 1 = WordSize
    BY Sizes
  <2>5. QED
    BY <2>2, <2>3, <2>4
<1> QED
  BY <1>1, <1>2, <1>3, <1>4, Sizes

LEMMA TableIs ==
  ASSUME table \in Tables
  PROVE  /\ table \in Seq(Slot) /\ Len(table) \in Nat \ {0} /\ DOMAIN table = 1 .. Len(table)
         /\ \A n \in 1 .. Len(table) : /\ table[n] \in Slot /\ table[n].startAddr \in Nat /\ table[n].len \in Nat
                                       /\ table[n].usable \in Nat /\ (table[n].usable = 0 <=> n = Len(table))
<1>1. table \in Seq(Slot) /\ table # <<>> /\ \A n \in DOMAIN table : table[n].usable = 0 <=> n = Len(table)
  BY MemTestAssumption DEF MemTestAssumption
<1>2. \A n \in 1 .. Len(table) : table[n] \in Slot
  BY <1>1
<1> QED
  BY <1>1, <1>2 DEF Slot

-----------------------------------------------------------------------------
(* The cut                                                                 *)

\* Of a part that begins below 2 MiB what lies above is left, and nothing is ever added.
LEMMA AboveIs ==
  ASSUME NEW p \in Parts
  PROVE  /\ Cutoff(p, Low) = <<Above(p)>>
         /\ Above(p) \in Parts
         /\ LET q == Above(p)
                first == IF p.startAddr >= Under2M THEN p.startAddr ELSE Under2M
            IN  /\ q.startAddr >= p.startAddr /\ q.startAddr + q.len <= p.startAddr + p.len
                /\ q.len # 0 => q.startAddr = first /\ q.startAddr + q.len = p.startAddr + p.len
                /\ q.len = 0 => p.startAddr + p.len <= first
<1>1. PICK t0 \in Nat, len \in Nat : p = [startAddr |-> t0, len |-> len]
  BY DEF Parts
<1>2. PICK u \in Nat : u = Under2M
  BY Sizes
<1> DEFINE t1 == t0 + len
           q == IF u > t0 /\ u <= t1 THEN [startAddr |-> u, len |-> t1 - u]
                ELSE IF u >= t1 THEN [startAddr |-> t0, len |-> 0] ELSE p
<1>3. Cutoff(p, Low) = <<q>>
  <2>1. CASE u > t0 /\ u <= t1
    BY <1>1, <1>2, <2>1 DEF Cutoff, Low
  <2>2. CASE ~ (u > t0 /\ u <= t1)
    <3>1. CASE u >= t1
      <4>1. CASE t0 = 0 /\ t0 < t1
        <5>1. u > t0
          BY <3>1, <4>1
        <5>2. QED
          BY <1>1, <1>2, <2>2, <3>1, <4>1, <5>1 DEF Cutoff, Low
      <4>2. CASE ~ (t0 = 0 /\ t0 < t1)
        BY <1>1, <1>2, <2>2, <3>1, <4>2 DEF Cutoff, Low
      <4>3. QED
        BY <4>1, <4>2
    <3>2. CASE ~ (u >= t1)
      BY <1>1, <1>2, <2>2, <3>2 DEF Cutoff, Low
    <3>3. QED
      BY <3>1, <3>2
  <2>3. QED
    BY <2>1, <2>2
<1>4. Above(p) = q
  BY <1>3 DEF Above
<1>5. q \in Parts
  BY <1>1, <1>2 DEF Parts
<1>6. p.startAddr = t0 /\ p.len = len
  BY <1>1
<1>7. /\ q.startAddr >= t0 /\ q.startAddr + q.len <= t1
      /\ q.len # 0 => q.startAddr = (IF t0 >= u THEN t0 ELSE u) /\ q.startAddr + q.len = t1
      /\ q.len = 0 => t1 <= IF t0 >= u THEN t0 ELSE u
  BY <1>1
<1> HIDE DEF q
<1> QED
  BY <1>2, <1>3, <1>4, <1>5, <1>6, <1>7

\* Nothing joined with nothing, however often, is nothing.
LEMMA FlattenEmpty ==
  ASSUME NEW s, NEW L \in Nat, s = [n \in 1 .. L |-> <<>>]
  PROVE  FlattenSeq(s) = <<>>
<1> DEFINE Good(f) == f = [n \in 1 .. L |-> IF n = 1 THEN s[n] ELSE f[n - 1] \o s[n]]
           Flat == CHOOSE f : Good(f)
<1>1. s \in Seq({<<>>}) /\ Len(s) = L /\ \A n \in 1 .. L : s[n] = <<>>
  BY LenProperties
<1>2. CASE L = 0
  <2>1. s = <<>>
    BY <1>1, <1>2
  <2>2. QED
    BY <1>1, <1>2, <2>1 DEF FlattenSeq
<1>3. CASE L # 0
  <2>1. FlattenSeq(s) = Flat[L]
    BY <1>1, <1>3 DEF FlattenSeq
  <2>2. <<>> \o <<>> = <<>>
    OBVIOUS
  <2> DEFINE g == [n \in 1 .. L |-> <<>>]
  <2>3. \A n \in 1 .. L : n # 1 => n - 1 \in 1 .. L
    OBVIOUS
  <2>4. \A n \in 1 .. L : (IF n = 1 THEN s[n] ELSE g[n - 1] \o s[n]) = <<>>
    BY <1>1, <2>2, <2>3
  <2>5. Good(g)
    BY <2>4
  <2>6. Good(Flat)
    BY <2>5
  <2> HIDE DEF Flat
  <2>7. \A n \in 1 .. L : Flat[n] = IF n = 1 THEN s[n] ELSE Flat[n - 1] \o s[n]
    BY <2>6, Zenon
  <2> DEFINE S == {n \in Nat : n + 1 <= L => Flat[n + 1] = <<>>}
  <2>8. 0 \in S
    <3>1. 1 \in 1 .. L
      BY <1>3
    <3>2. Flat[1] = <<>>
      BY <1>1, <2>7, <3>1
    <3>3. QED
      BY <3>2
  <2>9. ASSUME NEW n \in Nat, n \in S PROVE n + 1 \in S
    <3>1. CASE n + 2 <= L
      <4>1. n + 2 \in 1 .. L /\ n + 2 # 1 /\ (n + 2) - 1 = n + 1 /\ Flat[n + 1] = <<>> /\ s[n + 2] = <<>>
        BY <1>1, <2>9, <3>1
      <4>2. Flat[n + 2] = Flat[n + 1] \o s[n + 2]
        BY <2>7, <4>1
      <4>3. Flat[n + 2] = <<>>
        BY <2>2, <4>1, <4>2
      <4>4. QED
        BY <4>3
    <3>2. QED
      BY <3>1
  <2> HIDE DEF S
  <2>10. Nat \subseteq S
    BY <2>8, <2>9, AllNumbers
  <2>11. L - 1 \in S
    BY <1>3, <2>10
  <2>12. Flat[L] = <<>>
    BY <2>11 DEF S
  <2>13. QED
    BY <2>1, <2>12
<1> QED
  BY <1>2, <1>3

LEMMA MempartSubIs ==
  ASSUME NEW arr \in Seq(Parts)
  PROVE  /\ MempartSub(arr, Low) = [n \in 1 .. Len(arr) |-> Above(arr[n])]
         /\ MempartSub(arr, Low) \in Seq(Parts) /\ Len(MempartSub(arr, Low)) = Len(arr)
<1> DEFINE pieces == [n \in DOMAIN arr |-> Cutoff(arr[n], Low)]
           firsts == [n \in DOMAIN arr |-> pieces[n][1]]
           rests == [n \in DOMAIN arr |-> Tail(pieces[n])]
           cuts == [n \in 1 .. Len(arr) |-> Above(arr[n])]
<1>1. DOMAIN arr = 1 .. Len(arr) /\ Len(arr) \in Nat /\ \A n \in 1 .. Len(arr) : arr[n] \in Parts
  OBVIOUS
<1>2. \A n \in 1 .. Len(arr) : pieces[n] = <<Above(arr[n])>> /\ Above(arr[n]) \in Parts
  BY <1>1, AboveIs
<1>3. \A n \in 1 .. Len(arr) : pieces[n][1] = Above(arr[n]) /\ Tail(pieces[n]) = <<>>
  <2>1. ASSUME NEW x PROVE <<x>>[1] = x /\ Tail(<<x>>) = <<>>
    OBVIOUS
  <2> HIDE DEF pieces
  <2>2. QED
    BY <1>2, <2>1
<1>4. firsts = cuts
  BY <1>1, <1>3
<1>5. rests = [n \in 1 .. Len(arr) |-> <<>>]
  BY <1>1, <1>3
<1>6. cuts \in Seq(Parts) /\ Len(cuts) = Len(arr)
  BY <1>1, <1>2, LenProperties, IsASeq
<1>7. FlattenSeq(rests) = <<>>
  BY <1>1, <1>5, FlattenEmpty
<1>8. MempartSub(arr, Low) = firsts \o FlattenSeq(rests)
  BY DEF MempartSub
<1>9. cuts \o <<>> = cuts
  BY <1>6
<1> QED
  BY <1>4, <1>6, <1>7, <1>8, <1>9

LEMMA MaxOfTwo ==
  ASSUME NEW a \in Nat, NEW b \in Nat
  PROVE  Max({a, b}) = IF a >= b THEN a ELSE b
BY DEF Max

\* What is to be tested of a slot that begins, for the test, at this address.
TestableFrom(slot, first) ==
  LET words == (slot.startAddr + slot.len - first) \div WordSize
  IN  IF slot.usable = 1 /\ words > 0 THEN first .. first + WordSize * words - 1 ELSE {}

\* The whole words of a part that is cut are what is to be tested of its slot.
LEMMA WholeIsTestable ==
  ASSUME NEW slot \in Slot, slot.usable = 1
  PROVE  /\ Whole(Above(AsPart(slot))) = Testable(slot)
         /\ AsPart(slot) \in Parts /\ Above(AsPart(slot)) \in Parts
<1> DEFINE p == AsPart(slot)
           q == Above(p)
           first == IF slot.startAddr >= Under2M THEN slot.startAddr ELSE Under2M
           stop == slot.startAddr + slot.len
           words == (stop - first) \div WordSize
<1>1. slot.startAddr \in Nat /\ slot.len \in Nat
  BY DEF Slot
<1>2. p \in Parts /\ p.startAddr = slot.startAddr /\ p.len = slot.len
  BY <1>1 DEF AsPart, Parts
<1>3. /\ q \in Parts
      /\ q.len # 0 => q.startAddr = first /\ q.startAddr + q.len = stop
      /\ q.len = 0 => stop <= first
  BY <1>2, AboveIs
<1>4. Testable(slot) = IF words > 0 THEN first .. first + WordSize * words - 1 ELSE {}
  <2>1. Max({slot.startAddr, Under2M}) = first
    BY <1>1, MaxOfTwo, Sizes
  <2>2. Testable(slot) = TestableFrom(slot, Max({slot.startAddr, Under2M}))
    BY DEF Testable, TestableFrom
  <2>3. Testable(slot) = TestableFrom(slot, first)
    BY ONLY <2>1, <2>2
  <2> HIDE DEF first
  <2>4. first \in Nat /\ WordSize \in Nat \ {0}
    BY <1>1, Sizes DEF first
  <2>5. QED
    BY <1>1, <2>3, <2>4 DEF TestableFrom
<1>5. q.startAddr \in Nat /\ q.len \in Nat /\ first \in Nat /\ stop \in Nat
  BY <1>1, <1>3, Sizes DEF Parts
<1> HIDE DEF q, first, stop
<1>6. ASSUME q.len # 0 PROVE Whole(q) = Testable(slot)
  <2>1. q.startAddr = first /\ stop - first = q.len
    BY <1>3, <1>5, <1>6
  <2>2. Words(q) = words /\ words \in Nat
    BY <1>5, <2>1, Quotient, Sizes DEF Words
  <2>3. Whole(q) = first .. first + WordSize * words - 1
    BY <2>1, <2>2 DEF Whole, WordBytes
  <2>4. CASE words > 0
    BY <1>4, <2>3, <2>4
  <2>5. CASE words = 0
    <3>1. WordSize * words = 0
      BY <2>5, Times
    <3>2. first .. first + 0 - 1 = {}
      BY <1>5
    <3>3. Whole(q) = {}
      BY <2>3, <3>1, <3>2
    <3>4. QED
      BY <1>4, <2>5, <3>3
  <2>6. QED
    BY <2>2, <2>4, <2>5
<1>7. ASSUME q.len = 0 PROVE Whole(q) = Testable(slot)
  <2>1. Words(q) = 0
    BY <1>5, <1>7, Quotient, Sizes DEF Words
  <2>2. Whole(q) = {}
    <3>1. Whole(q) = q.startAddr .. q.startAddr + WordSize * 0 - 1
      BY <2>1 DEF Whole, WordBytes
    <3>2. WordSize * 0 = 0
      BY Times
    <3>3. q.startAddr .. q.startAddr + 0 - 1 = {}
      BY <1>5
    <3>4. QED
      BY <3>1, <3>2, <3>3
  <2>3. ~ (words > 0)
    <3>1. stop - first \in Int /\ stop - first <= 0
      BY <1>3, <1>5, <1>7
    <3>2. words \in Int /\ words <= 0
      BY <3>1, Quotient, Sizes
    <3>3. QED
      BY <3>2
  <2>4. QED
    BY <1>4, <2>2, <2>3
<1>8. Whole(q) = Testable(slot)
  BY <1>6, <1>7
<1> QED
  BY <1>2, <1>3, <1>8 DEF q

-----------------------------------------------------------------------------
(* The parts and their chunks                                              *)

LEMMA NextPartIs ==
  ASSUME NEW arr \in Seq(Parts), NEW n \in 1 .. Len(arr) + 1
  PROVE  /\ NextPart(arr, n) \in n .. Len(arr) + 1
         /\ NextPart(arr, n) <= Len(arr) => arr[NextPart(arr, n)].len # 0
         /\ \A m \in n .. NextPart(arr, n) - 1 : m \in 1 .. Len(arr) /\ arr[m].len = 0
<1> DEFINE S == {p \in n .. Len(arr) : arr[p].len # 0} \cup {Len(arr) + 1}
<1>1. S \in SUBSET Nat /\ S # {} /\ \A k \in S : k \in n .. Len(arr) + 1
  OBVIOUS
<1>2. PICK x : x = NextPart(arr, n)
  OBVIOUS
<1>3. NextPart(arr, n) = Min(S)
  BY DEF NextPart
<1> HIDE DEF S
<1>4. x \in S /\ \A k \in S : x <= k
  BY <1>1, <1>2, <1>3, MinIsIn
<1>5. ASSUME NEW m \in n .. x - 1 PROVE m \in 1 .. Len(arr) /\ arr[m].len = 0
  <2>1. x \in n .. Len(arr) + 1
    BY <1>1, <1>4
  <2>2. m \in n .. Len(arr) /\ m \notin S
    BY <1>4, <2>1
  <2>3. QED
    BY <2>2 DEF S
<1>6. x <= Len(arr) => arr[x].len # 0
  BY <1>4 DEF S
<1> QED
  BY <1>1, <1>2, <1>4, <1>5, <1>6

\* The bytes of the first b words are those of the first a and those of the rest.
LEMMA WordsJoin ==
  ASSUME NEW p \in Parts, NEW a \in Nat, NEW k \in Nat
  PROVE  /\ WordBytes(p, a + k) =
              WordBytes(p, a) \cup (p.startAddr + WordSize * a .. p.startAddr + WordSize * a + WordSize * k - 1)
         /\ WordBytes(p, 0) = {}
<1>1. p.startAddr \in Nat
  BY DEF Parts
<1>2. WordSize * (a + k) = WordSize * a + WordSize * k /\ WordSize * 0 = 0
  BY Times
<1>3. WordSize * a \in Nat /\ WordSize * k \in Nat
  BY Times
<1> DEFINE x == WordSize * a
           y == WordSize * k
           z == WordSize * (a + k)
<1>4. WordBytes(p, a + k) = p.startAddr .. p.startAddr + z - 1
      /\ WordBytes(p, a) = p.startAddr .. p.startAddr + x - 1
  BY DEF WordBytes
<1>5. WordBytes(p, 0) = p.startAddr .. p.startAddr + 0 - 1
  BY <1>2 DEF WordBytes
<1>6. z = x + y /\ x \in Nat /\ y \in Nat
  BY <1>2, <1>3
<1> HIDE DEF x, y, z
<1>7. p.startAddr .. p.startAddr + z - 1 =
        (p.startAddr .. p.startAddr + x - 1) \cup (p.startAddr + x .. p.startAddr + x + y - 1)
  BY <1>1, <1>6
<1>8. p.startAddr .. p.startAddr + 0 - 1 = {}
  BY <1>1
<1> QED
  BY <1>4, <1>5, <1>7, <1>8 DEF x, y

InUnit == /\ FreeMemArr \in Seq(Parts) /\ part \in 1 .. Len(FreeMemArr)
          /\ cnt \in Nat /\ step \in 1 .. 4 /\ cnt <= total

\* A chunk ends inside its part, and follows what has been done.
LEMMA ChunkFits ==
  ASSUME InUnit
  PROVE  LET p == FreeMemArr[part] IN
         /\ p \in Parts /\ total \in Nat /\ Chunk \in Nat /\ cnt + Chunk <= total
         /\ total = Words(p)
         /\ cnt + Chunk < total => Chunk = total \div Chunks
         /\ unit = p.startAddr + WordSize * cnt
         /\ WordBytes(p, cnt) \cup ChunkBytes = WordBytes(p, cnt + Chunk)
         /\ WordBytes(p, total) = Whole(p)
         /\ ChunkBytes \subseteq Whole(p) /\ WordBytes(p, cnt + Chunk) \subseteq Whole(p)
         /\ WordBytes(p, 0) = {}
<1> DEFINE p == FreeMemArr[part]
<1>1. p \in Parts /\ p.len \in Nat
  <2>1. p \in Parts
    BY ElementOfSeq DEF InUnit
  <2>2. QED
    BY <2>1 DEF Parts
<1>2. total = Words(p) /\ unit = p.startAddr + WordSize * cnt
  BY DEF total, Words, unit
<1>3. total \in Nat /\ total \div Chunks \in Nat
  BY <1>1, <1>2, Quotient, Sizes DEF Words
<1>4. Chunk \in Nat /\ cnt + Chunk <= total /\ (cnt + Chunk < total => Chunk = total \div Chunks)
  <2>1. PICK t \in Nat, d \in Nat : t = total /\ d = total \div Chunks
    BY <1>3
  <2>2. Chunk = IF cnt + d > t THEN t - cnt ELSE d
    BY <2>1 DEF Chunk
  <2>3. cnt \in Nat /\ cnt <= t
    BY <2>1 DEF InUnit
  <2>4. QED
    BY <2>1, <2>2, <2>3
<1>5. ChunkBytes = p.startAddr + WordSize * cnt .. p.startAddr + WordSize * cnt + WordSize * Chunk - 1
  BY <1>2 DEF ChunkBytes
<1> HIDE DEF p
<1>6. WordBytes(p, cnt) \cup ChunkBytes = WordBytes(p, cnt + Chunk) /\ WordBytes(p, 0) = {}
  <2>1. cnt \in Nat /\ Chunk \in Nat /\ p \in Parts
    BY <1>1, <1>4 DEF InUnit
  <2>2. /\ WordBytes(p, cnt + Chunk) =
              WordBytes(p, cnt) \cup (p.startAddr + WordSize * cnt .. p.startAddr + WordSize * cnt + WordSize * Chunk - 1)
        /\ WordBytes(p, 0) = {}
    BY <2>1, WordsJoin, Zenon
  <2>3. QED
    BY <1>5, <2>2
<1>7. WordBytes(p, total) = Whole(p)
  BY <1>2 DEF Whole
<1>8. WordBytes(p, cnt + Chunk) \subseteq WordBytes(p, total)
  <2>1. PICK a \in Nat, k \in Nat : a = cnt + Chunk /\ total = a + k
    <3>1. cnt + Chunk \in Nat /\ total - (cnt + Chunk) \in Nat /\ total = (cnt + Chunk) + (total - (cnt + Chunk))
      BY <1>3, <1>4 DEF InUnit
    <3>2. QED
      BY <3>1
  <2>2. QED
    BY <1>1, <2>1, WordsJoin
<1> QED
  BY <1>1, <1>2, <1>3, <1>4, <1>6, <1>7, <1>8 DEF p

\* What follows a chunk: another one, another step or another part.
LEMMA AdvanceIs ==
  ASSUME InUnit, Advance
  PROVE  \/ /\ cnt + Chunk < total /\ cnt' = cnt + Chunk /\ step' = step /\ part' = part /\ where' = "unit"
         \/ /\ cnt + Chunk = total /\ cnt' = 0
            /\ \/ step # 4 /\ step' = step + 1 /\ part' = part /\ where' = "unit"
               \/ /\ step = 4 /\ step' = 1 /\ part' = NextPart(FreeMemArr, part + 1)
                  /\ where' = IF part' > Len(FreeMemArr) THEN "finish" ELSE "unit"
<1>1. PICK d \in Nat, t \in Nat, c \in Nat : d = Chunk /\ t = total /\ c = cnt /\ c + d <= t
  BY ChunkFits DEF InUnit
<1>2. ~ (part > Len(FreeMemArr)) /\ Len(FreeMemArr) \in Nat /\ part \in Nat
  BY DEF InUnit
<1>3. CASE c + d >= t
  <2>1. c + d = t
    BY <1>1, <1>3
  <2>2. CASE step = 4
    BY <1>1, <1>3, <2>1, <2>2 DEF Advance
  <2>3. CASE step # 4
    BY <1>1, <1>2, <1>3, <2>1, <2>3 DEF Advance
  <2>4. QED
    BY <2>2, <2>3
<1>4. CASE ~ (c + d >= t)
  <2>1. c + d < t
    BY <1>1, <1>4
  <2>2. QED
    BY <1>1, <1>2, <1>4, <2>1 DEF Advance
<1> QED
  BY <1>3, <1>4

LEMMA InUnitNow ==
  ASSUME MemTestTypeOK, WalkKnown, where = "unit"
  PROVE  InUnit
BY DEF MemTestTypeOK, WalkKnown, InUnit

\* The types of what a round of writeUnit or verifyUnit moves on.
LEMMA AdvanceStays ==
  ASSUME InUnit, Advance
  PROVE  /\ part' \in 1 .. Len(FreeMemArr) + 1 /\ step' \in 1 .. 4 /\ cnt' \in Nat /\ where' \in {"unit", "finish"}
         /\ where' = "finish" <=> part' = Len(FreeMemArr) + 1
         /\ where' = "unit" => FreeMemArr[part'].len # 0 \/ part' = part
         /\ part' = part \/ part' = NextPart(FreeMemArr, part + 1)
<1>1. FreeMemArr \in Seq(Parts) /\ part \in 1 .. Len(FreeMemArr) /\ part + 1 \in 1 .. Len(FreeMemArr) + 1
      /\ cnt \in Nat /\ step \in 1 .. 4
  BY DEF InUnit
<1>2. /\ NextPart(FreeMemArr, part + 1) \in part + 1 .. Len(FreeMemArr) + 1
      /\ NextPart(FreeMemArr, part + 1) <= Len(FreeMemArr) => FreeMemArr[NextPart(FreeMemArr, part + 1)].len # 0
  BY <1>1, NextPartIs
<1>3. cnt + Chunk \in Nat
  BY <1>1, ChunkFits
<1> QED
  BY <1>1, <1>2, <1>3, AdvanceIs, SMTT(40)

-----------------------------------------------------------------------------
(* The invariant                                                           *)

LEMMA Starts ==
  ASSUME MemTestInit
  PROVE  MemTestInv
<1>1. table \in Tables /\ Len(table) \in Nat \ {0}
  BY TableIs DEF MemTestInit
<1>2. stuck \in [DOMAIN stuck -> {0, 1}]
  BY DEF MemTestInit
<1>3. MemTestTypeOK
  <2>1. mem \in [Addresses -> {0, 1, Old}]
    BY DEF MemTestInit
  <2>2. FreeMemArr \in Seq(Parts) /\ Len(FreeMemArr) = 0 /\ MaxMemArr \in Nat
    BY Sizes DEF MemTestInit
  <2>3. QED
    BY <1>1, <1>2, <2>1, <2>2 DEF MemTestInit, MemTestTypeOK
<1>4. OnlyTestable
  BY DEF MemTestInit, OnlyTestable
<1>5. ListKnown /\ WalkKnown
  BY DEF MemTestInit, ListKnown, WalkKnown
<1> QED
  BY <1>3, <1>4, <1>5 DEF MemTestInv

LEMMA TypeStays ==
  ASSUME MemTestTypeOK, WalkKnown, MemTestNext
  PROVE  MemTestTypeOK'
<1>1. Len(table) \in Nat \ {0} /\ \A n \in 1 .. Len(table) : /\ table[n].startAddr \in Nat /\ table[n].len \in Nat
                                                             /\ table[n].usable = 0 <=> n = Len(table)
  BY TableIs DEF MemTestTypeOK
<1>2. FreeMemArr \in Seq(Parts) /\ Len(FreeMemArr) \in Nat /\ MaxMemArr \in Nat
  BY Sizes DEF MemTestTypeOK
<1>3. CASE Memtest
  BY <1>1, <1>2, <1>3 DEF MemTestTypeOK, Memtest, given, place, Addresses
<1>4. CASE PressKey
  BY <1>4 DEF MemTestTypeOK, PressKey, given, place, Addresses
<1>5. CASE ShowSlot
  BY <1>5 DEF MemTestTypeOK, ShowSlot, given, place, Addresses
<1>6. CASE NoRoomForSlot
  BY <1>6 DEF MemTestTypeOK, NoRoomForSlot, given, place, Addresses
<1>7. CASE AddSlot
  <2>1. FreeMemArr' \in Seq(Parts) /\ Len(FreeMemArr') <= MaxMemArr /\ totalLen' \in Nat
    <3>1. CASE table[i].usable = 1
      <4>1. PICK a \in Nat, l \in Nat : a = table[i].startAddr /\ l = table[i].len
        <5>1. i \in 1 .. Len(table)
          BY DEF MemTestTypeOK
        <5>2. QED
          BY <1>1, <5>1
      <4>2. PICK p : p = [startAddr |-> a, len |-> l]
        OBVIOUS
      <4>3. p \in Parts
        BY <4>2 DEF Parts
      <4>4. Len(FreeMemArr) < MaxMemArr /\ FreeMemArr' = Append(FreeMemArr, p) /\ totalLen' = totalLen + l
        BY <1>7, <3>1, <4>1, <4>2 DEF AddSlot
      <4>5. totalLen \in Nat
        BY DEF MemTestTypeOK
      <4>6. FreeMemArr' \in Seq(Parts) /\ Len(FreeMemArr') = Len(FreeMemArr) + 1
        BY <1>2, <4>3, <4>4
      <4>7. Len(FreeMemArr') <= MaxMemArr
        BY <1>2, <4>4, <4>6
      <4>8. totalLen' \in Nat
        BY <4>4, <4>5
      <4>9. QED
        BY <4>6, <4>7, <4>8
    <3>2. CASE table[i].usable # 1
      BY <1>7, <3>2 DEF AddSlot, MemTestTypeOK
    <3>3. QED
      BY <3>1, <3>2
  <2>2. i' = i + 1 /\ i + 1 \in 1 .. Len(table)
    BY <1>1, <1>7 DEF AddSlot, MemTestTypeOK
  <2>3. QED
    BY <1>7, <2>1, <2>2 DEF MemTestTypeOK, AddSlot, given, place, Addresses
<1>8. CASE EndOfTable
  BY <1>8 DEF MemTestTypeOK, EndOfTable, given, place, Addresses
<1>9. CASE CutOffUnder2M
  <2>1. FreeMemArr' = MempartSub(FreeMemArr, Low)
    BY <1>9 DEF CutOffUnder2M, Low
  <2>2. FreeMemArr' \in Seq(Parts) /\ Len(FreeMemArr') = Len(FreeMemArr)
    BY <1>2, <2>1, MempartSubIs
  <2>3. part' = NextPart(FreeMemArr', 1) /\ step' = 1 /\ cnt' = 0
    BY <1>9 DEF CutOffUnder2M
  <2>4. part' \in 1 .. Len(FreeMemArr') + 1
    BY <1>2, <2>2, <2>3, NextPartIs
  <2>5. UNCHANGED <<table, stuck, mem, i, lines, totalLen>> /\ where' \in {"unit", "finish"}
    BY <1>9 DEF CutOffUnder2M, given
  <2>6. QED
    BY <1>2, <2>2, <2>3, <2>4, <2>5 DEF MemTestTypeOK, Addresses
<1>10. CASE WriteUnit \/ VerifyUnit
  <2>1. Advance /\ InUnit
    BY <1>10, InUnitNow DEF WriteUnit, VerifyUnit
  <2>2. part' \in 1 .. Len(FreeMemArr) + 1 /\ step' \in 1 .. 4 /\ cnt' \in Nat /\ where' \in {"unit", "finish"}
    BY <2>1, AdvanceStays
  <2>3. UNCHANGED <<table, stuck, i, lines, FreeMemArr, totalLen>>
    BY <1>10 DEF WriteUnit, VerifyUnit, given
  <2>4. Value \in {0, 1}
    BY DEF Value
  <2>5. mem' \in [Addresses -> {0, 1, Old}]
    <3>1. CASE WriteUnit
      <4>1. mem' = [b \in Addresses |-> IF b \notin ChunkBytes THEN mem[b]
                                        ELSE IF b \in DOMAIN stuck THEN stuck[b] ELSE Value]
        BY <3>1 DEF WriteUnit
      <4>2. \A b \in Addresses : mem'[b] \in {0, 1, Old}
        BY <2>4, <4>1 DEF MemTestTypeOK
      <4>3. QED
        BY <4>1, <4>2
    <3>2. CASE VerifyUnit
      BY <3>2 DEF VerifyUnit, MemTestTypeOK
    <3>3. QED
      BY <1>10, <3>1, <3>2
  <2>6. Addresses' = Addresses
    BY <2>3 DEF Addresses
  <2>7. QED
    BY <1>2, <2>2, <2>3, <2>5, <2>6 DEF MemTestTypeOK
<1>11. CASE Finish
  BY <1>11 DEF MemTestTypeOK, Finish, given, place, Addresses
<1>12. CASE LoopForEver
  BY <1>12 DEF MemTestTypeOK, LoopForEver, memVars, given, place, Addresses
<1> QED
  BY <1>3, <1>4, <1>5, <1>6, <1>7, <1>8, <1>9, <1>10, <1>11, <1>12 DEF MemTestNext, MemTestStep

LEMMA ListKept ==
  ASSUME ListKnown, table' = table, FreeMemArr' = FreeMemArr, i' = i,
         \/ where' = where
         \/ where \in {"show", "more", "add"} /\ where' \in {"show", "more", "add"}
         \/ where \in {"press", "cut"} /\ where' \in {"press", "cut"}
         \/ where \in {"unit", "finish"} /\ where' \in {"unit", "finish"}
         \/ where' \in {"prompt", "full"}
  PROVE  ListKnown'
<1>1. ASSUME NEW k PROVE UsableTo(k)' = UsableTo(k)
  BY DEF UsableTo
<1>2. (i - 1)' = i - 1 /\ Len(table)' = Len(table)
  OBVIOUS
<1>3. {AsPart(table[n]) : n \in UsableTo(i - 1)}' = {AsPart(table[n]) : n \in UsableTo(i - 1)}
  BY DEF UsableTo
<1>4. {AsPart(table[n]) : n \in UsableTo(Len(table))}' = {AsPart(table[n]) : n \in UsableTo(Len(table))}
  BY DEF UsableTo
<1>5. {Above(AsPart(table[n])) : n \in UsableTo(Len(table))}' = {Above(AsPart(table[n])) : n \in UsableTo(Len(table))}
  BY DEF UsableTo
<1> QED
  BY <1>3, <1>4, <1>5 DEF ListKnown, Listed

\* The list is made of the usable slots, and cut in its place.
LEMMA ListStays ==
  ASSUME MemTestTypeOK, ListKnown, WalkKnown, MemTestNext
  PROVE  ListKnown'
<1>1. Len(table) \in Nat \ {0} /\ i \in 1 .. Len(table)
      /\ \A n \in 1 .. Len(table) : table[n] \in Slot /\ (table[n].usable = 0 <=> n = Len(table))
  BY TableIs DEF MemTestTypeOK
<1>2. FreeMemArr \in Seq(Parts) /\ Len(FreeMemArr) \in Nat /\ DOMAIN FreeMemArr = 1 .. Len(FreeMemArr)
  BY DEF MemTestTypeOK
<1>3. table' = table
  BY DEF MemTestNext, MemTestStep, Memtest, PressKey, ShowSlot, NoRoomForSlot, AddSlot, EndOfTable, CutOffUnder2M,
         WriteUnit, VerifyUnit, Finish, LoopForEver, given, memVars
<1>4. CASE Memtest
  <2>1. FreeMemArr' = <<>> /\ i' = 1 /\ where' = "show"
    BY <1>4 DEF Memtest
  <2>2. UsableTo(0) = {}
    BY DEF UsableTo
  <2>3. QED
    BY <1>3, <2>1, <2>2 DEF ListKnown, Listed, UsableTo
<1>5. CASE /\ FreeMemArr' = FreeMemArr /\ i' = i
           /\ \/ where' = where
              \/ where \in {"show", "more", "add"} /\ where' \in {"show", "more", "add"}
              \/ where \in {"press", "cut"} /\ where' \in {"press", "cut"}
              \/ where \in {"unit", "finish"} /\ where' \in {"unit", "finish"}
              \/ where' \in {"prompt", "full"}
  BY <1>3, <1>5, ListKept
<1>6. CASE AddSlot
  <2>1. where = "add" /\ where' = "show" /\ i' = i + 1 /\ (i + 1) - 1 = i /\ table[i].usable # 0
    BY <1>1, <1>6 DEF AddSlot
  <2>2. \A p : (\E n \in DOMAIN FreeMemArr : p = FreeMemArr[n]) <=> p \in {AsPart(table[n]) : n \in UsableTo(i - 1)}
    BY <2>1 DEF ListKnown, Listed
  <2>3. ASSUME \A p : (\E n \in DOMAIN FreeMemArr' : p = FreeMemArr'[n]) <=> p \in {AsPart(table[n]) : n \in UsableTo(i)}
        PROVE  ListKnown'
    <3>1. UsableTo(i - 1)' = UsableTo(i)
      BY <1>3, <2>1 DEF UsableTo
    <3>2. {AsPart(table[n]) : n \in UsableTo(i - 1)}' = {AsPart(table[n]) : n \in UsableTo(i)}
      BY <1>3, <3>1 DEF AsPart
    <3>3. Listed({AsPart(table[n]) : n \in UsableTo(i - 1)})'
      BY <2>3, <3>2 DEF Listed
    <3>4. QED
      BY <2>1, <3>3 DEF ListKnown
  <2>4. CASE table[i].usable = 1
    <3>1. UsableTo(i) = UsableTo(i - 1) \cup {i}
      BY <1>1, <2>4 DEF UsableTo
    <3>2. PICK q : q = AsPart(table[i])
      OBVIOUS
    <3>3. FreeMemArr' = Append(FreeMemArr, q)
      BY <1>6, <2>4, <3>2 DEF AddSlot, AsPart
    <3>4. /\ DOMAIN FreeMemArr' = 1 .. Len(FreeMemArr) + 1
          /\ \A n \in 1 .. Len(FreeMemArr) : FreeMemArr'[n] = FreeMemArr[n]
          /\ FreeMemArr'[Len(FreeMemArr) + 1] = q
      BY <1>2, <3>3
    <3>5. ASSUME NEW p
          PROVE  (\E n \in DOMAIN FreeMemArr' : p = FreeMemArr'[n])
                   <=> p = q \/ \E n \in DOMAIN FreeMemArr : p = FreeMemArr[n]
      <4>1. DOMAIN FreeMemArr' = DOMAIN FreeMemArr \cup {Len(FreeMemArr) + 1}
        BY <1>2, <3>4
      <4>2. QED
        BY <1>2, <3>4, <4>1
    <3>6. {AsPart(table[n]) : n \in UsableTo(i)} = {AsPart(table[n]) : n \in UsableTo(i - 1)} \cup {q}
      BY <3>1, <3>2
    <3>7. \A p : (\E n \in DOMAIN FreeMemArr' : p = FreeMemArr'[n]) <=> p \in {AsPart(table[n]) : n \in UsableTo(i)}
      BY <2>2, <3>5, <3>6
    <3>8. QED
      BY <2>3, <3>7
  <2>5. CASE table[i].usable # 1
    <3>1. UsableTo(i) = UsableTo(i - 1)
      BY <1>1, <2>5 DEF UsableTo
    <3>2. FreeMemArr' = FreeMemArr
      BY <1>6, <2>5 DEF AddSlot
    <3>3. \A p : (\E n \in DOMAIN FreeMemArr' : p = FreeMemArr'[n]) <=> p \in {AsPart(table[n]) : n \in UsableTo(i)}
      BY <2>2, <3>1, <3>2
    <3>4. QED
      BY <2>3, <3>3
  <2>6. QED
    BY <2>4, <2>5
<1>7. CASE EndOfTable
  <2>1. where = "add" /\ where' \in {"press", "cut"} /\ UNCHANGED <<FreeMemArr, i>> /\ i = Len(table)
    BY <1>1, <1>7 DEF EndOfTable
  <2>2. UsableTo(Len(table)) = UsableTo(i - 1)
    <3>1. table[i].usable # 1
      BY <1>1, <2>1
    <3>2. QED
      BY <1>1, <2>1, <3>1 DEF UsableTo
  <2>3. Listed({AsPart(table[n]) : n \in UsableTo(Len(table))})
    BY <2>1, <2>2 DEF ListKnown
  <2>4. QED
    BY <1>3, <2>1, <2>3 DEF ListKnown, Listed, UsableTo
<1>8. CASE CutOffUnder2M
  <2>1. where = "cut" /\ where' \in {"unit", "finish"} /\ FreeMemArr' = MempartSub(FreeMemArr, Low)
    BY <1>8 DEF CutOffUnder2M, Low
  <2>2. FreeMemArr' = [n \in 1 .. Len(FreeMemArr) |-> Above(FreeMemArr[n])]
    BY <1>2, <2>1, MempartSubIs
  <2>3. \A p : (\E n \in DOMAIN FreeMemArr : p = FreeMemArr[n]) <=> p \in {AsPart(table[n]) : n \in UsableTo(Len(table))}
    BY <2>1 DEF ListKnown, Listed
  <2>4. ASSUME NEW p
        PROVE  (\E n \in DOMAIN FreeMemArr' : p = FreeMemArr'[n])
                 <=> p \in {Above(AsPart(table[n])) : n \in UsableTo(Len(table))}
    <3>1. (\E n \in DOMAIN FreeMemArr' : p = FreeMemArr'[n]) <=> \E n \in DOMAIN FreeMemArr : p = Above(FreeMemArr[n])
      BY <1>2, <2>2
    <3>2. (\E n \in DOMAIN FreeMemArr : p = Above(FreeMemArr[n])) <=>
            \E q : p = Above(q) /\ q \in {AsPart(table[n]) : n \in UsableTo(Len(table))}
      BY <2>3
    <3>3. QED
      BY <3>1, <3>2
  <2>5. QED
    BY <1>3, <2>1, <2>4 DEF ListKnown, Listed, UsableTo
<1>9. CASE WriteUnit \/ VerifyUnit
  <2>1. Advance /\ InUnit /\ where = "unit" /\ UNCHANGED <<FreeMemArr, i>>
    BY <1>9, InUnitNow DEF WriteUnit, VerifyUnit
  <2>2. where' \in {"unit", "finish"}
    BY <2>1, AdvanceStays
  <2>3. QED
    BY <1>5, <2>1, <2>2
<1>10. ASSUME PressKey \/ ShowSlot \/ NoRoomForSlot \/ Finish \/ LoopForEver
       PROVE  /\ FreeMemArr' = FreeMemArr /\ i' = i
              /\ \/ where' = where
                 \/ where \in {"show", "more", "add"} /\ where' \in {"show", "more", "add"}
                 \/ where \in {"press", "cut"} /\ where' \in {"press", "cut"}
                 \/ where' \in {"prompt", "full"}
  BY <1>10 DEF PressKey, ShowSlot, NoRoomForSlot, Finish, LoopForEver, memVars
<1> QED
  BY <1>4, <1>5, <1>6, <1>7, <1>8, <1>9, <1>10 DEF MemTestNext, MemTestStep

LEMMA EmptyPart ==
  ASSUME NEW p \in Parts, p.len = 0
  PROVE  Whole(p) = {}
<1>1. p.startAddr \in Nat /\ Words(p) = 0
  BY Quotient, Sizes DEF Parts, Words
<1>2. Whole(p) = WordBytes(p, 0)
  BY <1>1 DEF Whole
<1>3. 0 \in Nat
  OBVIOUS
<1> QED
  BY <1>2, <1>3, WordsJoin

\* The parts between one and the next that is tested have nothing in them.
LEMMA PartsToNext ==
  ASSUME FreeMemArr \in Seq(Parts), NEW n \in 1 .. Len(FreeMemArr) + 1
  PROVE  PartsTo(NextPart(FreeMemArr, n)) = PartsTo(n)
<1>1. PICK x \in n .. Len(FreeMemArr) + 1 :
        x = NextPart(FreeMemArr, n) /\ \A m \in n .. x - 1 : m \in 1 .. Len(FreeMemArr) /\ FreeMemArr[m].len = 0
  BY NextPartIs
<1>2. \A m \in n .. x - 1 : Whole(FreeMemArr[m]) = {}
  BY <1>1, EmptyPart, ElementOfSeq
<1>3. 1 .. x - 1 = (1 .. n - 1) \cup (n .. x - 1)
  BY <1>1
<1>4. PartsTo(x) = PartsTo(n) \cup UNION {Whole(FreeMemArr[m]) : m \in n .. x - 1}
  BY <1>3 DEF PartsTo
<1>5. UNION {Whole(FreeMemArr[m]) : m \in n .. x - 1} = {}
  BY <1>2
<1> QED
  BY <1>1, <1>4, <1>5

LEMMA PartsToOne ==
  /\ PartsTo(1) = {}
  /\ \A n \in Nat \ {0} : PartsTo(n + 1) = PartsTo(n) \cup Whole(FreeMemArr[n])
<1>1. PartsTo(1) = {}
  BY DEF PartsTo
<1>2. ASSUME NEW n \in Nat \ {0} PROVE PartsTo(n + 1) = PartsTo(n) \cup Whole(FreeMemArr[n])
  <2>1. 1 .. (n + 1) - 1 = (1 .. n - 1) \cup {n}
    OBVIOUS
  <2>2. QED
    BY <2>1 DEF PartsTo
<1> QED
  BY <1>1, <1>2

\* All parts together are what is to be tested.
LEMMA PartsAreTestable ==
  ASSUME MemTestTypeOK, ListKnown, where \in {"unit", "finish"}
  PROVE  /\ PartsTo(Len(FreeMemArr) + 1) = AllTestable
         /\ \A n \in 1 .. Len(FreeMemArr) : Whole(FreeMemArr[n]) \subseteq AllTestable
<1>1. Len(table) \in Nat /\ DOMAIN table = 1 .. Len(table) /\ \A n \in 1 .. Len(table) : table[n] \in Slot
  BY TableIs DEF MemTestTypeOK
<1>2. FreeMemArr \in Seq(Parts) /\ Len(FreeMemArr) \in Nat /\ DOMAIN FreeMemArr = 1 .. Len(FreeMemArr)
  BY DEF MemTestTypeOK
<1>3. \A p : (\E n \in 1 .. Len(FreeMemArr) : p = FreeMemArr[n])
               <=> \E m \in UsableTo(Len(table)) : p = Above(AsPart(table[m]))
  BY <1>2 DEF ListKnown, Listed
<1>4. \A m \in UsableTo(Len(table)) : /\ m \in 1 .. Len(table)
                                      /\ Whole(Above(AsPart(table[m]))) = Testable(table[m])
  BY <1>1, WholeIsTestable DEF UsableTo
<1>5. ASSUME NEW n \in 1 .. Len(FreeMemArr) PROVE Whole(FreeMemArr[n]) \subseteq AllTestable
  <2>1. PICK m \in UsableTo(Len(table)) : FreeMemArr[n] = Above(AsPart(table[m]))
    BY <1>3
  <2>2. Whole(FreeMemArr[n]) = Testable(table[m]) /\ m \in DOMAIN table
    BY <1>1, <1>4, <2>1
  <2>3. QED
    BY <2>2 DEF AllTestable
<1>6. ASSUME NEW m \in DOMAIN table PROVE Testable(table[m]) \subseteq PartsTo(Len(FreeMemArr) + 1)
  <2>1. CASE table[m].usable = 1
    <3>1. m \in UsableTo(Len(table))
      BY <1>1, <2>1 DEF UsableTo
    <3>2. PICK n \in 1 .. Len(FreeMemArr) : Above(AsPart(table[m])) = FreeMemArr[n]
      BY <1>3, <3>1
    <3>3. Testable(table[m]) = Whole(FreeMemArr[n]) /\ n \in 1 .. (Len(FreeMemArr) + 1) - 1
      BY <1>2, <1>4, <3>1, <3>2
    <3>4. QED
      BY <3>3 DEF PartsTo
  <2>2. CASE table[m].usable # 1
    BY <2>2 DEF Testable
  <2>3. QED
    BY <2>1, <2>2
<1>7. PartsTo(Len(FreeMemArr) + 1) \subseteq AllTestable
  <2>1. 1 .. (Len(FreeMemArr) + 1) - 1 = 1 .. Len(FreeMemArr)
    BY <1>2
  <2>2. QED
    BY <1>5, <2>1 DEF PartsTo
<1>8. AllTestable \subseteq PartsTo(Len(FreeMemArr) + 1)
  BY <1>6 DEF AllTestable
<1> QED
  BY <1>5, <1>7, <1>8

LEMMA OnlyTestableStays ==
  ASSUME MemTestInv, MemTestNext
  PROVE  OnlyTestable'
<1>1. table' = table
  BY DEF MemTestNext, MemTestStep, Memtest, PressKey, ShowSlot, NoRoomForSlot, AddSlot, EndOfTable, CutOffUnder2M,
         WriteUnit, VerifyUnit, Finish, LoopForEver, given, memVars
<1>2. AllTestable' = AllTestable /\ Addresses' = Addresses
  BY <1>1 DEF AllTestable, Addresses
<1>3. CASE Memtest
  <2>1. mem' = [b \in Addresses |-> Old]
    BY <1>3 DEF Memtest
  <2>2. QED
    BY <1>2, <2>1 DEF OnlyTestable
<1>4. CASE WriteUnit
  <2>1. InUnit /\ where = "unit"
    BY <1>4, InUnitNow DEF MemTestInv, WriteUnit
  <2>2. ChunkBytes \subseteq AllTestable
    <3>1. ChunkBytes \subseteq Whole(FreeMemArr[part])
      BY <2>1, ChunkFits
    <3>2. Whole(FreeMemArr[part]) \subseteq AllTestable
      BY <2>1, PartsAreTestable DEF MemTestInv, InUnit
    <3>3. QED
      BY <3>1, <3>2
  <2>3. mem' = [b \in Addresses |-> IF b \notin ChunkBytes THEN mem[b]
                                    ELSE IF b \in DOMAIN stuck THEN stuck[b] ELSE Value]
    BY <1>4 DEF WriteUnit
  <2>4. \A b \in Addresses : mem'[b] # Old => b \in AllTestable
    BY <2>2, <2>3 DEF MemTestInv, OnlyTestable
  <2>5. QED
    BY <1>2, <2>4 DEF OnlyTestable
<1>5. CASE mem' = mem
  BY <1>2, <1>5 DEF MemTestInv, OnlyTestable
<1> QED
  BY <1>3, <1>4, <1>5 DEF MemTestNext, MemTestStep, PressKey, ShowSlot, NoRoomForSlot, AddSlot, EndOfTable,
       CutOffUnder2M, VerifyUnit, Finish, LoopForEver, memVars

\* A round of writeUnit verifies nothing, one of verifyUnit the chunk.
LEMMA WalkedOn ==
  ASSUME InUnit, Advance, UNCHANGED FreeMemArr, walked = Walked(part, step, cnt),
         walked' = IF step \in {2, 4} THEN walked \cup (ChunkBytes \X {Value}) ELSE walked
  PROVE  /\ where' = "unit" => walked' = Walked(part', step', cnt')
         /\ where' = "finish" => walked' = PartsTo(part') \X {0, 1}
<1> DEFINE p == FreeMemArr[part]
           w == Whole(p)
           P == PartsTo(part)
<1>1. /\ WordBytes(p, cnt) \cup ChunkBytes = WordBytes(p, cnt + Chunk)
      /\ WordBytes(p, total) = w /\ WordBytes(p, 0) = {} /\ p \in Parts
  BY ChunkFits
<1>2. step \in {1, 2, 3, 4} /\ part \in Nat \ {0} /\ part + 1 \in 1 .. Len(FreeMemArr) + 1 /\ FreeMemArr \in Seq(Parts)
  BY DEF InUnit
<1>3. walked = (P \X {0, 1}) \cup (IF step > 2 THEN w \X {1} ELSE {})
                 \cup (IF step \in {2, 4} THEN WordBytes(p, cnt) \X {Value} ELSE {})
  BY DEF Walked, Value
<1>4. walked' = (P \X {0, 1}) \cup (IF step > 2 THEN w \X {1} ELSE {})
                  \cup (IF step \in {2, 4} THEN WordBytes(p, cnt + Chunk) \X {Value} ELSE {})
  <2>1. (WordBytes(p, cnt) \X {Value}) \cup (ChunkBytes \X {Value}) = WordBytes(p, cnt + Chunk) \X {Value}
    BY <1>1
  <2>2. QED
    BY <1>3, <2>1
<1>5. ASSUME NEW n, NEW s, NEW c
      PROVE  Walked(n, s, c) = (PartsTo(n) \X {0, 1}) \cup (IF s > 2 THEN Whole(FreeMemArr[n]) \X {1} ELSE {})
               \cup (IF s \in {2, 4} THEN WordBytes(FreeMemArr[n], c) \X {IF s <= 2 THEN 1 ELSE 0} ELSE {})
  BY DEF Walked
<1>6. Value = IF step <= 2 THEN 1 ELSE 0
  BY DEF Value
<1>7. CASE cnt + Chunk < total /\ cnt' = cnt + Chunk /\ step' = step /\ part' = part /\ where' = "unit"
  <2>1. walked' = Walked(part, step, cnt + Chunk)
    BY <1>4, <1>5, <1>6
  <2>2. QED
    BY <1>7, <2>1
<1> HIDE DEF p, w, P
<1>8. CASE cnt + Chunk = total /\ cnt' = 0 /\ step # 4 /\ step' = step + 1 /\ part' = part /\ where' = "unit"
  <2>1. walked' = (P \X {0, 1}) \cup (IF step > 2 THEN w \X {1} ELSE {}) \cup (IF step = 2 THEN w \X {1} ELSE {})
    BY <1>1, <1>2, <1>4, <1>6, <1>8
  <2>2. Walked(part, step + 1, 0) = (P \X {0, 1}) \cup (IF step + 1 > 2 THEN w \X {1} ELSE {})
    <3>1. Walked(part, step + 1, 0) = (P \X {0, 1}) \cup (IF step + 1 > 2 THEN w \X {1} ELSE {})
            \cup (IF step + 1 \in {2, 4} THEN {} \X {IF step + 1 <= 2 THEN 1 ELSE 0} ELSE {})
      BY <1>1, <1>5 DEF p, w, P
    <3>2. \A v : {} \X {v} = {}
      OBVIOUS
    <3>3. QED
      BY <3>1, <3>2
  <2>3. walked' = Walked(part, step + 1, 0)
    <3>1. CASE step = 1
      BY ONLY <2>1, <2>2, <3>1
    <3>2. CASE step = 2
      BY ONLY <2>1, <2>2, <3>2
    <3>3. CASE step = 3
      BY ONLY <2>1, <2>2, <3>3
    <3>4. QED
      BY <1>2, <1>8, <3>1, <3>2, <3>3
  <2>4. QED
    BY <1>8, <2>3
<1>9. CASE /\ cnt + Chunk = total /\ cnt' = 0 /\ step = 4 /\ step' = 1
           /\ part' = NextPart(FreeMemArr, part + 1) /\ where' = IF part' > Len(FreeMemArr) THEN "finish" ELSE "unit"
  <2>1. walked' = (P \X {0, 1}) \cup (w \X {1}) \cup (w \X {0})
    BY <1>1, <1>4, <1>6, <1>9
  <2>2. PartsTo(part') = P \cup w
    <3>1. PartsTo(part') = PartsTo(part + 1)
      BY <1>2, <1>9, PartsToNext
    <3>2. PartsTo(part + 1) = PartsTo(part) \cup Whole(FreeMemArr[part])
      BY <1>2, PartsToOne
    <3>3. QED
      BY <3>1, <3>2 DEF P, w, p
  <2>3. walked' = PartsTo(part') \X {0, 1}
    BY <2>1, <2>2
  <2>4. Walked(part', 1, 0) = PartsTo(part') \X {0, 1}
    BY <1>5
  <2>5. QED
    BY <1>9, <2>3, <2>4
<1> QED
  BY <1>7, <1>8, <1>9, AdvanceIs

LEMMA WalkStays ==
  ASSUME MemTestInv, MemTestNext
  PROVE  WalkKnown'
<1>1. FreeMemArr \in Seq(Parts) /\ Len(FreeMemArr) \in Nat
  BY DEF MemTestInv, MemTestTypeOK
<1>2. CASE Memtest
  BY <1>2 DEF Memtest, WalkKnown
<1>3. CASE PressKey \/ ShowSlot \/ NoRoomForSlot \/ AddSlot \/ EndOfTable
  <2>1. /\ where \in {"show", "more", "add", "press"} /\ where' \in {"show", "more", "add", "press", "cut", "full"}
        /\ walked' = walked
    BY <1>3 DEF PressKey, ShowSlot, NoRoomForSlot, AddSlot, EndOfTable
  <2>2. QED
    BY <2>1 DEF MemTestInv, WalkKnown
<1>4. CASE CutOffUnder2M
  <2>1. /\ FreeMemArr' = MempartSub(FreeMemArr, Low) /\ part' = NextPart(FreeMemArr', 1) /\ step' = 1 /\ cnt' = 0
        /\ where' = IF part' > Len(FreeMemArr') THEN "finish" ELSE "unit"
        /\ walked' = {}
    BY <1>4 DEF CutOffUnder2M, Low, MemTestInv, WalkKnown
  <2>2. PICK arr \in Seq(Parts) : arr = FreeMemArr'
    BY <1>1, <2>1, MempartSubIs
  <2>3. 1 \in 1 .. Len(arr) + 1 /\ Len(arr) \in Nat
    OBVIOUS
  <2>4. PICK n \in 1 .. Len(arr) + 1 : n = part' /\ \A m \in 1 .. n - 1 : m \in 1 .. Len(arr) /\ arr[m].len = 0
    BY <2>1, <2>2, <2>3, NextPartIs
  <2>5. PartsTo(part)' = {}
    <3>1. PartsTo(part)' = UNION {Whole(arr[m]) : m \in 1 .. n - 1}
      BY <2>2, <2>4 DEF PartsTo
    <3>2. \A m \in 1 .. n - 1 : Whole(arr[m]) = {}
      BY <2>4, EmptyPart, ElementOfSeq
    <3>3. QED
      BY <3>1, <3>2
  <2>6. Walked(part, step, cnt)' = {}
    BY <2>1, <2>5 DEF Walked
  <2>7. n <= Len(arr) => total' \in Nat
    <3>1. SUFFICES ASSUME n <= Len(arr) PROVE total' \in Nat
      OBVIOUS
    <3>2. arr[n] \in Parts
      BY <2>3, <3>1, ElementOfSeq
    <3>3. total' = arr[n].len \div WordSize
      BY <2>2, <2>4 DEF total
    <3>4. arr[n].len \in Nat
      BY <3>2 DEF Parts
    <3>5. QED
      BY <3>3, <3>4, Quotient, Sizes
  <2>8. CASE n > Len(arr)
    <3>1. where' = "finish" /\ part' = Len(arr) + 1
      BY <2>1, <2>2, <2>3, <2>4, <2>8
    <3>2. walked' = PartsTo(part)' \X {0, 1}
      BY <2>1, <2>5
    <3>3. QED
      BY <2>2, <3>1, <3>2 DEF WalkKnown
  <2>9. CASE n <= Len(arr)
    <3>1. where' = "unit" /\ part' \in 1 .. Len(arr) /\ cnt' <= total'
      BY <2>1, <2>2, <2>3, <2>4, <2>7, <2>9
    <3>2. QED
      BY <2>1, <2>2, <2>6, <3>1 DEF WalkKnown
  <2>10. QED
    BY <2>3, <2>4, <2>8, <2>9
<1>5. CASE WriteUnit \/ VerifyUnit
  <2>1. Advance /\ InUnit /\ where = "unit" /\ FreeMemArr' = FreeMemArr
    BY <1>5, InUnitNow DEF MemTestInv, WriteUnit, VerifyUnit
  <2>2. walked = Walked(part, step, cnt)
    BY <2>1 DEF MemTestInv, WalkKnown
  <2>3. walked' = IF step \in {2, 4} THEN walked \cup (ChunkBytes \X {Value}) ELSE walked
    BY <1>5 DEF WriteUnit, VerifyUnit
  <2>4. /\ where' = "unit" => walked' = Walked(part', step', cnt')
        /\ where' = "finish" => walked' = PartsTo(part') \X {0, 1}
    BY <2>1, <2>2, <2>3, WalkedOn
  <2>5. /\ Walked(part, step, cnt)' = Walked(part', step', cnt')
        /\ PartsTo(part)' = PartsTo(part')
    BY <2>1 DEF Walked, PartsTo
  <2>6. /\ part' \in 1 .. Len(FreeMemArr) + 1 /\ where' \in {"unit", "finish"}
        /\ where' = "finish" <=> part' = Len(FreeMemArr) + 1
    BY <2>1, AdvanceStays
  <2>7. where' = "unit" => cnt' <= total'
    <3>1. SUFFICES ASSUME where' = "unit" PROVE cnt' <= total'
      OBVIOUS
    <3>2. FreeMemArr[part'] \in Parts
      BY <1>1, <2>6, <3>1, ElementOfSeq
    <3>3. total' = FreeMemArr[part'].len \div WordSize
      BY <2>1 DEF total
    <3>4. total' \in Nat
      BY <3>2, <3>3, Quotient, Sizes DEF Parts
    <3>5. part' = part => total' = total
      BY <3>3 DEF total
    <3>6. cnt + Chunk <= total
      BY <2>1, ChunkFits
    <3>7. QED
      BY <2>1, <3>4, <3>5, <3>6, AdvanceIs
  <2>8. QED
    BY <1>1, <2>1, <2>4, <2>5, <2>6, <2>7 DEF WalkKnown
<1>6. CASE Finish \/ LoopForEver
  BY <1>6 DEF Finish, LoopForEver, WalkKnown, memVars
<1> QED
  BY <1>2, <1>3, <1>4, <1>5, <1>6 DEF MemTestNext, MemTestStep

LEMMA Stutters ==
  ASSUME MemTestInv, UNCHANGED memVars
  PROVE  MemTestInv'
<1>1. MemTestTypeOK'
  BY DEF MemTestInv, MemTestTypeOK, Addresses, memVars, given, place
<1>2. ListKnown'
  BY DEF MemTestInv, ListKnown, Listed, UsableTo, memVars, given
<1>3. OnlyTestable'
  BY DEF MemTestInv, OnlyTestable, AllTestable, Addresses, memVars, given
<1>4. WalkKnown'
  BY DEF MemTestInv, WalkKnown, Walked, PartsTo, total, memVars, place
<1> QED
  BY <1>1, <1>2, <1>3, <1>4 DEF MemTestInv

\* memtest does what its README says: all usable memory above 2 MiB is tested, with ones and with
\* zeros, and nothing else is ever written.
THEOREM TestsUsableMemory ==
  MemTestSpec => []TestsWhatIsUsable
<1>1. MemTestInit => MemTestInv
  BY Starts
<1>2. MemTestInv /\ [MemTestNext]_memVars => MemTestInv'
  <2>1. SUFFICES ASSUME MemTestInv, [MemTestNext]_memVars PROVE MemTestInv'
    OBVIOUS
  <2>2. CASE MemTestNext
    BY <2>1, <2>2, TypeStays, ListStays, OnlyTestableStays, WalkStays DEF MemTestInv
  <2>3. CASE UNCHANGED memVars
    BY <2>1, <2>3, Stutters
  <2>4. QED
    BY <2>1, <2>2, <2>3
<1>3. MemTestInv => TestsWhatIsUsable
  <2>1. SUFFICES ASSUME MemTestInv PROVE TestsWhatIsUsable
    OBVIOUS
  <2>2. where = "finish" => walked = AllTestable \X {0, 1}
    BY <2>1, PartsAreTestable DEF MemTestInv, WalkKnown
  <2>3. QED
    BY <2>1, <2>2 DEF TestsWhatIsUsable, MemTestInv, MemTestTypeOK, OnlyTestable
<1> QED
  BY <1>1, <1>2, <1>3, PTL DEF MemTestSpec

-----------------------------------------------------------------------------
(* What is written, read back                                              *)

WordDiffers(loc, k, v) == \E b \in loc + WordSize * k .. loc + WordSize * (k + 1) - 1 : mem[b] # v

\* repe scasq stops behind the first word that differs.
LEMMA VerifyIs ==
  ASSUME NEW loc, NEW n \in Nat, NEW v
  PROVE  \/ VerifyU64(loc, n, v) = 0 /\ \A k \in 0 .. n - 1 : ~ WordDiffers(loc, k, v)
         \/ \E k \in 0 .. n - 1 : /\ WordDiffers(loc, k, v) /\ VerifyU64(loc, n, v) = n - k - 1
                                  /\ \A j \in 0 .. n - 1 : WordDiffers(loc, j, v) => k <= j
<1> DEFINE bad == {k \in 0 .. n - 1 : WordDiffers(loc, k, v)}
<1>1. VerifyU64(loc, n, v) = IF bad = {} THEN 0 ELSE n - Min(bad) - 1
  BY DEF VerifyU64, WordDiffers
<1>2. CASE bad = {}
  BY <1>1, <1>2
<1>3. CASE bad # {}
  <2>1. bad \in SUBSET Nat
    OBVIOUS
  <2>2. PICK k : k = Min(bad)
    OBVIOUS
  <2>3. k \in bad /\ \A j \in bad : k <= j
    BY <1>3, <2>1, <2>2, MinIsIn
  <2>4. VerifyU64(loc, n, v) = n - k - 1
    BY <1>1, <1>3, <2>2
  <2>5. QED
    BY <2>3, <2>4
<1> QED
  BY <1>2, <1>3

\* A part lies in one of the slots.
LEMMA PartInSlot ==
  ASSUME MemTestTypeOK, ListKnown, where \in {"unit", "finish"}, NEW n \in 1 .. Len(FreeMemArr)
  PROVE  /\ FreeMemArr[n] \in Parts
         /\ \E m \in DOMAIN table : \E e \in Nat :
              /\ e = table[m].startAddr + table[m].len
              /\ FreeMemArr[n].startAddr + FreeMemArr[n].len <= e
              /\ Whole(FreeMemArr[n]) \subseteq 0 .. e - 1
<1>1. Len(table) \in Nat /\ DOMAIN table = 1 .. Len(table) /\ \A m \in 1 .. Len(table) : table[m] \in Slot
  BY TableIs DEF MemTestTypeOK
<1>2. FreeMemArr \in Seq(Parts) /\ DOMAIN FreeMemArr = 1 .. Len(FreeMemArr)
  BY DEF MemTestTypeOK
<1>3. PICK m \in UsableTo(Len(table)) : FreeMemArr[n] = Above(AsPart(table[m]))
  BY <1>2 DEF ListKnown, Listed
<1>4. PICK q : q = AsPart(table[m])
  OBVIOUS
<1>5. m \in DOMAIN table /\ table[m] \in Slot /\ table[m].startAddr \in Nat /\ table[m].len \in Nat
  BY <1>1 DEF UsableTo, Slot
<1>6. q \in Parts /\ q.startAddr = table[m].startAddr /\ q.len = table[m].len
  BY <1>4, <1>5 DEF AsPart, Parts
<1>7. PICK p \in Parts : p = FreeMemArr[n] /\ p.startAddr + p.len <= table[m].startAddr + table[m].len
  BY <1>3, <1>4, <1>6, AboveIs
<1>8. p.startAddr \in Nat /\ p.len \in Nat
  BY DEF Parts
<1>9. PICK x \in Nat : x = WordSize * Words(p) /\ x <= p.len
  <2>1. Words(p) \in Nat /\ WordSize * Words(p) <= p.len
    <3>1. Words(p) = p.len \div WordSize
      BY DEF Words
    <3>2. PICK l \in Nat : l = p.len
      BY <1>8
    <3>3. l \div WordSize \in Nat /\ WordSize * (l \div WordSize) <= l
      BY l \in Int, l >= 0, Quotient, Sizes
    <3>4. QED
      BY ONLY <3>1, <3>2, <3>3
  <2>2. WordSize * Words(p) \in Nat
    BY <2>1, Times
  <2>3. QED
    BY <2>1, <2>2
<1>10. Whole(p) = p.startAddr .. p.startAddr + x - 1
  BY <1>9 DEF Whole, WordBytes
<1>11. PICK e \in Nat : e = table[m].startAddr + table[m].len
  BY <1>5
<1>12. Whole(p) \subseteq 0 .. e - 1
  <2>1. p.startAddr + x - 1 <= e - 1
    <3>1. PICK s \in Nat, l \in Nat : s = p.startAddr /\ l = p.len
      BY <1>8
    <3>2. s + l <= e /\ x <= l
      BY <1>7, <1>9, <1>11, <3>1
    <3>3. s + x - 1 <= e - 1
      BY ONLY <3>2
    <3>4. QED
      BY <3>1, <3>3
  <2>2. QED
    BY <1>8, <1>10, <2>1
<1> QED
  BY <1>5, <1>7, <1>11, <1>12

\* A round of writeUnit leaves its chunk with the value, where the memory can hold it.
LEMMA HeldStays ==
  ASSUME MemTestInv, HeldKnown, MemTestNext
  PROVE  HeldKnown'
<1>1. FreeMemArr \in Seq(Parts) /\ Len(FreeMemArr) \in Nat
  BY DEF MemTestInv, MemTestTypeOK
<1>2. CASE CutOffUnder2M
  <2>1. FreeMemArr' = MempartSub(FreeMemArr, Low) /\ part' = NextPart(FreeMemArr', 1) /\ step' = 1 /\ cnt' = 0
        /\ where' = IF part' > Len(FreeMemArr') THEN "finish" ELSE "unit"
    BY <1>2 DEF CutOffUnder2M, Low
  <2>2. PICK arr \in Seq(Parts) : arr = FreeMemArr'
    BY <1>1, <2>1, MempartSubIs
  <2>3. 1 \in 1 .. Len(arr) + 1 /\ Len(arr) \in Nat
    OBVIOUS
  <2>4. part' \in 1 .. Len(arr) + 1
    BY <2>1, <2>2, <2>3, NextPartIs
  <2>5. SUFFICES ASSUME where' = "unit" PROVE HeldKnown'
    BY DEF HeldKnown
  <2>6. arr[part'] \in Parts
    BY <2>1, <2>2, <2>3, <2>4, <2>5, ElementOfSeq
  <2>7. WordBytes(arr[part'], 0) = {}
    BY <2>6, 0 \in Nat, WordsJoin
  <2>8. WordBytes(FreeMemArr[part], IF step \in {1, 3} THEN cnt ELSE total)' = {}
    BY <2>1, <2>2, <2>7 DEF WordBytes
  <2>9. QED
    BY <2>8 DEF HeldKnown
<1>3. CASE WriteUnit \/ VerifyUnit
  <2>1. Advance /\ InUnit /\ where = "unit" /\ FreeMemArr' = FreeMemArr /\ stuck' = stuck /\ table' = table
    BY <1>3, InUnitNow DEF MemTestInv, WriteUnit, VerifyUnit, given
  <2>2. SUFFICES ASSUME where' = "unit" PROVE HeldKnown'
    BY DEF HeldKnown
  <2> DEFINE p == FreeMemArr[part]
  <2>3. /\ p \in Parts /\ WordBytes(p, cnt) \cup ChunkBytes = WordBytes(p, cnt + Chunk)
        /\ WordBytes(p, total) = Whole(p) /\ ChunkBytes \subseteq Whole(p) /\ WordBytes(p, 0) = {}
    BY <2>1, ChunkFits
  <2>4. part \in 1 .. Len(FreeMemArr) /\ step \in {1, 2, 3, 4}
    BY <2>1 DEF InUnit
  <2>5. \A b \in WordBytes(p, IF step \in {1, 3} THEN cnt ELSE total) : Holds(b, Value)
    BY <2>1 DEF HeldKnown
  <2>6. CASE WriteUnit
    <3>1. step \in {1, 3} /\ mem' = [b \in Addresses |-> IF b \notin ChunkBytes THEN mem[b]
                                     ELSE IF b \in DOMAIN stuck THEN stuck[b] ELSE Value]
      BY <2>6 DEF WriteUnit
    <3>2. WordBytes(p, cnt + Chunk) \subseteq Addresses
      <4>1. PICK m \in DOMAIN table, e \in Nat : e = table[m].startAddr + table[m].len /\ Whole(p) \subseteq 0 .. e - 1
        BY <2>1, <2>4, PartInSlot DEF MemTestInv
      <4>2. WordBytes(p, cnt + Chunk) \subseteq Whole(p)
        BY <2>1, ChunkFits
      <4>3. 0 .. e - 1 \subseteq 0 .. e
        OBVIOUS
      <4>4. QED
        BY <4>1, <4>2, <4>3 DEF Addresses
    <3>3. ASSUME NEW b \in WordBytes(p, cnt + Chunk) PROVE mem'[b] = IF b \in DOMAIN stuck THEN stuck[b] ELSE Value
      BY <2>3, <2>5, <3>1, <3>2 DEF Holds
    <3>4. CASE step' = step /\ part' = part /\ cnt' = cnt + Chunk
      <4>1. Value' = Value
        BY <3>4 DEF Value
      <4>2. WordBytes(FreeMemArr[part], IF step \in {1, 3} THEN cnt ELSE total)' = WordBytes(p, cnt + Chunk)
        BY <2>1, <3>1, <3>4 DEF WordBytes
      <4>3. QED
        BY <2>1, <3>3, <4>1, <4>2 DEF HeldKnown, Holds
    <3>5. CASE step' = step + 1 /\ part' = part /\ cnt + Chunk = total
      <4>1. Value' = Value /\ step' \in {2, 4}
        BY <3>1, <3>5 DEF Value
      <4>2. total' = total
        BY <2>1, <3>5 DEF total
      <4>3. WordBytes(FreeMemArr[part], IF step \in {1, 3} THEN cnt ELSE total)' = WordBytes(p, cnt + Chunk)
        BY <2>1, <3>5, <4>1, <4>2 DEF WordBytes
      <4>4. QED
        BY <2>1, <3>3, <4>1, <4>3 DEF HeldKnown, Holds
    <3>6. QED
      BY <2>1, <3>1, <3>4, <3>5, AdvanceIs
  <2>7. CASE VerifyUnit
    <3>1. step \in {2, 4} /\ mem' = mem
      BY <2>7 DEF VerifyUnit
    <3>2. CASE step' = step /\ part' = part
      <4>1. Value' = Value /\ total' = total
        BY <2>1, <3>2 DEF Value, total
      <4>2. WordBytes(FreeMemArr[part], IF step \in {1, 3} THEN cnt ELSE total)' = WordBytes(p, total)
        BY <2>1, <3>1, <3>2, <4>1 DEF WordBytes
      <4>3. \A b \in WordBytes(p, total) : Holds(b, Value)
        BY <2>5, <3>1
      <4>4. QED
        BY <2>1, <3>1, <4>1, <4>2, <4>3 DEF HeldKnown, Holds
    <3>3. CASE cnt' = 0 /\ step' \in {1, 3} /\ part' \in 1 .. Len(FreeMemArr)
      <4>1. WordBytes(FreeMemArr[part'], 0) = {}
        BY <1>1, <3>3, 0 \in Nat, ElementOfSeq, WordsJoin
      <4>2. WordBytes(FreeMemArr[part], IF step \in {1, 3} THEN cnt ELSE total)' = {}
        BY <2>1, <3>3, <4>1 DEF WordBytes
      <4>3. QED
        BY <4>2 DEF HeldKnown
    <3>4. part' \in 1 .. Len(FreeMemArr)
      BY <1>1, <2>1, <2>2, AdvanceStays
    <3>5. QED
      BY <2>1, <3>1, <3>2, <3>3, <3>4, AdvanceIs
  <2>8. QED
    BY <1>3, <2>6, <2>7
<1>4. CASE Memtest \/ PressKey \/ ShowSlot \/ NoRoomForSlot \/ AddSlot \/ EndOfTable \/ Finish \/ LoopForEver
  <2>1. where' # "unit"
    BY <1>4 DEF Memtest, PressKey, ShowSlot, NoRoomForSlot, AddSlot, EndOfTable, Finish, LoopForEver, memVars
  <2>2. QED
    BY <2>1 DEF HeldKnown
<1> QED
  BY <1>2, <1>3, <1>4 DEF MemTestNext, MemTestStep

\* A word that cannot hold the value.
Differs(a, v) == \E b \in a .. a + WordSize - 1 : b \in DOMAIN stuck /\ stuck[b] # v

\* What a round of verifyUnit finds: the first word of the chunk that is faulty, and shows, one
\* behind, if it is not the last.
LEMMA VerifyFinds ==
  ASSUME MemTestInv, HeldKnown, VerifyUnit
  PROVE  \/ /\ reports' = reports /\ error' = error
            /\ \A k \in 0 .. Chunk - 1 : ~ Differs(unit + WordSize * k, Value)
         \/ \E k \in 0 .. Chunk - 1 :
              /\ Differs(unit + WordSize * k, Value)
              /\ \A j \in 0 .. Chunk - 1 : Differs(unit + WordSize * j, Value) => k <= j
              /\ \/ k = Chunk - 1 /\ reports' = reports /\ error' = error
                 \/ /\ k < Chunk - 1 /\ error' = error + 1
                    /\ reports' = Append(reports, Long2Hex(unit + WordSize * k + WordSize))
<1>1. InUnit /\ where = "unit" /\ step \in {2, 4} /\ part \in 1 .. Len(FreeMemArr)
  BY InUnitNow DEF MemTestInv, VerifyUnit, InUnit
<1>2. PICK p \in Parts : p = FreeMemArr[part]
  BY <1>1, ChunkFits
<1>3. PICK n \in Nat : n = Chunk
  BY <1>1, ChunkFits
<1>4. PICK u \in Nat : u = unit
  <2>1. p.startAddr \in Nat
    BY DEF Parts
  <2>2. unit = p.startAddr + WordSize * cnt /\ WordSize * cnt \in Nat
    BY <1>1, <1>2, ChunkFits, Times DEF InUnit
  <2>3. QED
    BY <2>1, <2>2
<1>5. \A b \in u .. u + WordSize * n - 1 : mem[b] = IF b \in DOMAIN stuck THEN stuck[b] ELSE Value
  <2>1. \A b \in Whole(p) : Holds(b, Value)
    <3>1. WordBytes(p, total) = Whole(p)
      BY <1>1, <1>2, ChunkFits
    <3>2. QED
      BY <1>1, <1>2, <3>1 DEF HeldKnown
  <2>2. u .. u + WordSize * n - 1 \subseteq Whole(p)
    BY <1>1, <1>2, <1>3, <1>4, ChunkFits DEF ChunkBytes
  <2>3. QED
    BY <2>1, <2>2 DEF Holds
<1>6. ASSUME NEW k \in 0 .. n - 1 PROVE WordDiffers(u, k, Value) <=> Differs(u + WordSize * k, Value)
  <2>1. k \in Nat /\ k + 1 \in Nat /\ k + 1 <= n
    OBVIOUS
  <2>2. PICK x \in Nat, y \in Nat, z \in Nat : /\ x = WordSize * k /\ y = WordSize * (k + 1) /\ z = WordSize * n
                                               /\ y = x + WordSize /\ y <= z
    <3>1. WordSize * k \in Nat /\ WordSize * (k + 1) \in Nat /\ WordSize * n \in Nat
      BY <2>1, Times
    <3>2. WordSize * (k + 1) <= WordSize * n
      BY <2>1, Times
    <3>3. WordSize * (k + 1) = WordSize * k + WordSize
      BY <2>1, Sizes
    <3>4. QED
      BY <3>1, <3>2, <3>3
  <2>3. u + x + WordSize - 1 = u + y - 1
    BY <2>2, Sizes
  <2>4. WordDiffers(u, k, Value) <=> \E b \in u + x .. u + y - 1 : mem[b] # Value
    BY <2>2 DEF WordDiffers
  <2>5. Differs(u + WordSize * k, Value) <=> \E b \in u + x .. u + y - 1 : b \in DOMAIN stuck /\ stuck[b] # Value
    BY <2>2, <2>3 DEF Differs
  <2>6. \A b \in u + x .. u + y - 1 : b \in u .. u + z - 1
    BY <2>2
  <2>7. \A b \in u + x .. u + y - 1 : mem[b] # Value <=> b \in DOMAIN stuck /\ stuck[b] # Value
    BY <1>5, <2>2, <2>6
  <2>8. QED
    BY <2>4, <2>5, <2>7
<1>7. PICK ret : /\ ret = VerifyU64(u, n, Value)
                 /\ error' = IF ret # 0 THEN error + 1 ELSE error
                 /\ reports' = IF ret # 0 THEN Append(reports, Long2Hex(u + WordSize * (n - ret))) ELSE reports
  BY <1>3, <1>4 DEF VerifyUnit
<1>8. CASE ret = 0 /\ \A k \in 0 .. n - 1 : ~ WordDiffers(u, k, Value)
  BY <1>3, <1>4, <1>6, <1>7, <1>8
<1>9. CASE \E k \in 0 .. n - 1 : /\ WordDiffers(u, k, Value) /\ ret = n - k - 1
                                 /\ \A j \in 0 .. n - 1 : WordDiffers(u, j, Value) => k <= j
  <2>1. PICK k \in 0 .. n - 1 : /\ WordDiffers(u, k, Value) /\ ret = n - k - 1
                                /\ \A j \in 0 .. n - 1 : WordDiffers(u, j, Value) => k <= j
    BY <1>9
  <2>2. Differs(u + WordSize * k, Value) /\ \A j \in 0 .. n - 1 : Differs(u + WordSize * j, Value) => k <= j
    BY <1>6, <2>1
  <2>3. CASE k = n - 1
    <3>1. ret = 0
      BY <2>1, <2>3
    <3>2. QED
      BY <1>3, <1>4, <1>7, <2>2, <2>3, <3>1
  <2>4. CASE k < n - 1
    <3>1. ret # 0 /\ n - ret = k + 1
      BY <2>1, <2>4
    <3>2. u + WordSize * (k + 1) = u + WordSize * k + WordSize
      BY Times, Sizes
    <3>3. reports' = Append(reports, Long2Hex(u + WordSize * k + WordSize)) /\ error' = error + 1
      BY <1>7, <3>1, <3>2
    <3>4. QED
      BY <1>3, <1>4, <2>2, <2>4, <3>3
  <2>5. QED
    BY <2>3, <2>4
<1>10. \/ VerifyU64(u, n, Value) = 0 /\ \A k \in 0 .. n - 1 : ~ WordDiffers(u, k, Value)
       \/ \E k \in 0 .. n - 1 : /\ WordDiffers(u, k, Value) /\ VerifyU64(u, n, Value) = n - k - 1
                                /\ \A j \in 0 .. n - 1 : WordDiffers(u, j, Value) => k <= j
  BY VerifyIs
<1> QED
  BY <1>7, <1>8, <1>9, <1>10

\* The first words of a chunk that are not its last end well inside the part.
LEMMA WordInSlot ==
  ASSUME MemTestInv, where = "unit", NEW k \in Nat, k + 1 < Chunk
  PROVE  /\ unit + WordSize * k \in Nat
         /\ \E m \in DOMAIN table : unit + WordSize * k + WordSize < table[m].startAddr + table[m].len
<1>1. InUnit /\ part \in 1 .. Len(FreeMemArr)
  BY InUnitNow DEF MemTestInv, InUnit
<1>2. PICK p \in Parts, s \in Nat, l \in Nat : p = FreeMemArr[part] /\ s = p.startAddr /\ l = p.len
  BY <1>1, ChunkFits DEF Parts
<1>3. PICK m \in DOMAIN table, e \in Nat : e = table[m].startAddr + table[m].len /\ s + l <= e
  BY <1>1, <1>2, PartInSlot DEF MemTestInv
<1>4. PICK t \in Nat, c \in Nat : t = total /\ c = cnt /\ c + (k + 1) < t
  <2>1. total \in Nat /\ cnt \in Nat /\ Chunk \in Nat /\ cnt + Chunk <= total
    BY <1>1, ChunkFits DEF InUnit
  <2>2. QED
    BY <2>1
<1>5. PICK x \in Nat, y \in Nat, z \in Nat : /\ x = WordSize * c /\ y = WordSize * k /\ z = WordSize * t
                                            /\ x + y + WordSize + WordSize <= z
  <2>1. WordSize * c \in Nat /\ WordSize * k \in Nat /\ WordSize * t \in Nat
    BY Times
  <2>2. WordSize * (c + (k + 1)) + WordSize <= WordSize * t
    BY <1>4, c + (k + 1) \in Nat, Times
  <2>3. WordSize * (c + (k + 1)) = WordSize * c + WordSize * k + WordSize
    BY Sizes
  <2>4. QED
    BY <2>1, <2>2, <2>3
<1>6. unit = s + x
  BY <1>1, <1>2, <1>4, <1>5, ChunkFits
<1>7. z <= l
  <2>1. t = l \div WordSize
    BY <1>1, <1>2, <1>4, ChunkFits DEF Words
  <2>2. WordSize * (l \div WordSize) <= l
    BY l \in Int, Quotient, Sizes
  <2>3. QED
    BY ONLY <1>5, <2>1, <2>2
<1>8. WordSize \in Nat \ {0}
  BY Sizes
<1>9. s + x + y + WordSize < e
  BY <1>3, <1>5, <1>7, <1>8
<1> QED
  BY <1>3, <1>5, <1>6, <1>9

LEMMA DiffersIsFaulty ==
  ASSUME NEW a, NEW v, Differs(a, v)
  PROVE  FaultyWord(a)
BY DEF Differs, FaultyWord

LEMMA ReportsStay ==
  ASSUME MemTestInv, HeldKnown, ReportsKnown, MemTestNext
  PROVE  ReportsKnown'
<1>1. table' = table /\ stuck' = stuck
  BY DEF MemTestNext, MemTestStep, Memtest, PressKey, ShowSlot, NoRoomForSlot, AddSlot, EndOfTable, CutOffUnder2M,
         WriteUnit, VerifyUnit, Finish, LoopForEver, given, memVars
<1>2. \A a : FaultAt(a)' <=> FaultAt(a)
  BY <1>1 DEF FaultAt, FaultyWord
<1>3. CASE Memtest
  <2>1. reports' = <<>> /\ error' = 0 /\ countShown' = <<>> /\ where' = "show"
    BY <1>3 DEF Memtest
  <2>2. QED
    BY <2>1 DEF ReportsKnown
<1>4. CASE VerifyUnit
  <2>1. where = "unit" /\ UNCHANGED countShown
    BY <1>4 DEF VerifyUnit, shown
  <2>2. countShown' = <<>>
    BY <2>1 DEF ReportsKnown
  <2>3. CASE reports' = reports /\ error' = error
    BY <1>2, <2>2, <2>3 DEF ReportsKnown
  <2>4. CASE \E k \in 0 .. Chunk - 1 : /\ Differs(unit + WordSize * k, Value) /\ k < Chunk - 1 /\ error' = error + 1
                                       /\ reports' = Append(reports, Long2Hex(unit + WordSize * k + WordSize))
    <3>1. PICK k \in 0 .. Chunk - 1 :
                 /\ Differs(unit + WordSize * k, Value) /\ k < Chunk - 1 /\ error' = error + 1
                 /\ reports' = Append(reports, Long2Hex(unit + WordSize * k + WordSize))
      BY <2>4
    <3>2. k \in Nat /\ k + 1 < Chunk
      <4>1. Chunk \in Nat
        BY <2>1, InUnitNow, ChunkFits DEF MemTestInv
      <4>2. QED
        BY <3>1, <4>1
    <3>3. PICK a \in Nat : a = unit + WordSize * k /\ FaultAt(a)
      BY <2>1, <3>1, <3>2, WordInSlot, DiffersIsFaulty DEF FaultAt
    <3>4. a + WordSize \in Nat
      BY Sizes
    <3>5. reports' = Append(reports, Long2Hex(a + WordSize))
      BY <3>1, <3>3
    <3>6. PICK r : r = Long2Hex(a + WordSize)
      OBVIOUS
    <3>7. r \in {Long2Hex(x) : x \in Nat}
      BY <3>4, <3>6
    <3>8. PICK S : S = {Long2Hex(x) : x \in Nat}
      OBVIOUS
    <3>9. reports \in Seq(S) /\ error = Len(reports)
      BY <3>8 DEF ReportsKnown
    <3>10. reports' = Append(reports, r) /\ r \in S
      BY <3>5, <3>6, <3>7, <3>8
    <3>11. /\ reports' \in Seq(S) /\ Len(reports') = Len(reports) + 1 /\ error' = Len(reports')
           /\ reports'[Len(reports) + 1] = r /\ \A n \in 1 .. Len(reports) : reports'[n] = reports[n]
      BY <3>1, <3>9, <3>10
    <3>12. ASSUME NEW n \in 1 .. Len(reports')
           PROVE  \E b \in Nat : FaultAt(b)' /\ reports'[n] = Long2Hex(b + WordSize)
      <4>1. CASE n = Len(reports) + 1
        BY <1>2, <3>3, <3>6, <3>11, <4>1
      <4>2. CASE n # Len(reports) + 1
        <5>1. n \in 1 .. Len(reports)
          BY <3>9, <3>11, <4>2
        <5>2. PICK b \in Nat : FaultAt(b) /\ reports[n] = Long2Hex(b + WordSize)
          BY <5>1 DEF ReportsKnown
        <5>3. QED
          BY <1>2, <3>11, <5>1, <5>2
      <4>3. QED
        BY <4>1, <4>2
    <3>13. WordSize' = WordSize
      OBVIOUS
    <3>14. QED
      BY <2>2, <3>8, <3>11, <3>12 DEF ReportsKnown
  <2>5. QED
    BY <1>4, <2>3, <2>4, VerifyFinds
<1>5. CASE Finish
  <2>1. /\ UNCHANGED <<reports, error>> /\ where' = "prompt"
        /\ countShown' = IF error > 0 THEN Long2Dec(error) ELSE <<>>
    BY <1>5 DEF Finish
  <2>2. QED
    BY <1>2, <2>1 DEF ReportsKnown
<1>6. CASE PressKey \/ ShowSlot \/ NoRoomForSlot \/ AddSlot \/ EndOfTable \/ CutOffUnder2M \/ WriteUnit \/ LoopForEver
  <2>1. UNCHANGED <<reports, error, countShown>> /\ where # "prompt"
    BY <1>6 DEF PressKey, ShowSlot, NoRoomForSlot, AddSlot, EndOfTable, CutOffUnder2M, WriteUnit, LoopForEver,
                memVars, shown
  <2>2. QED
    BY <1>2, <2>1 DEF ReportsKnown
<1> QED
  BY <1>3, <1>4, <1>5, <1>6 DEF MemTestNext, MemTestStep

-----------------------------------------------------------------------------
(* Digits                                                                  *)

\* A function that takes in one digit after another, from 0.
Takes(f, digits, radix) ==
  /\ f \in [0 .. Len(digits) -> Nat] /\ f[0] = 0
  /\ \A n \in 1 .. Len(digits) : f[n] = f[n - 1] * radix + digits[n]

LEMMA OneValue ==
  ASSUME NEW digits \in Seq(Nat), NEW radix \in Nat, NEW f, Takes(f, digits, radix), NEW h, Takes(h, digits, radix)
  PROVE  f[Len(digits)] = h[Len(digits)]
<1> DEFINE S == {n \in Nat : n <= Len(digits) => f[n] = h[n]}
<1>1. 0 \in S
  BY DEF Takes
<1>2. ASSUME NEW n \in Nat, n \in S PROVE n + 1 \in S
  <2>1. CASE n + 1 <= Len(digits)
    <3>1. n + 1 \in 1 .. Len(digits) /\ (n + 1) - 1 = n /\ f[n] = h[n]
      BY <1>2, <2>1
    <3>2. f[n + 1] = f[n] * radix + digits[n + 1] /\ h[n + 1] = h[n] * radix + digits[n + 1]
      BY <3>1 DEF Takes
    <3>3. QED
      BY <3>1, <3>2
  <2>2. CASE ~ (n + 1 <= Len(digits))
    BY <2>2
  <2>3. QED
    BY <2>1, <2>2
<1> HIDE DEF S
<1>3. Len(digits) \in Nat
  OBVIOUS
<1>4. Len(digits) \in S
  BY <1>1, <1>2, <1>3, AllNumbers
<1> QED
  BY <1>4 DEF S

LEMMA ValueIs ==
  ASSUME NEW digits \in Seq(Nat), NEW radix \in Nat
  PROVE  \E f : Takes(f, digits, radix) /\ ValueOf(digits, radix) = f[Len(digits)]
<1> DEFINE L == Len(digits)
           Good(f) == f = [n \in 0 .. L |-> IF n = 0 THEN 0 ELSE f[n - 1] * radix + digits[n]]
           Upto == CHOOSE f : Good(f)
           steps == [n \in 1 .. L |-> [x \in Nat |-> x * radix + digits[n]]]
<1>1. L \in Nat /\ \A n \in 1 .. L : digits[n] \in Nat
  OBVIOUS
<1>2. ValueOf(digits, radix) = Upto[L]
  BY DEF ValueOf
<1> HIDE DEF L
<1>3. steps \in [1 .. L -> [Nat -> Nat]]
  <2>1. \A n \in 1 .. L : \A x \in Nat : x * radix + digits[n] \in Nat
    <3>1. \A x, y \in Nat : x * y \in Nat
      OBVIOUS
    <3>2. QED
      BY <1>1, <3>1
  <2>2. QED
    BY <2>1
<1>4. \A n \in 1 .. L : \A x \in Nat : steps[n][x] = x * radix + digits[n]
  OBVIOUS
<1> HIDE DEF steps
<1>5. PICK f \in [0 .. L -> Nat] : Follows(f, L, 0, steps)
  BY <1>1, <1>3, 0 \in Nat, RecursionExists, Zenon
<1>6. \A n \in 0 .. L : f[n] = IF n = 0 THEN 0 ELSE f[n - 1] * radix + digits[n]
  <2>1. \A n \in 0 .. L : n # 0 => n \in 1 .. L /\ n - 1 \in 0 .. L /\ f[n - 1] \in Nat
    BY <1>1
  <2>2. f[0] = 0 /\ \A n \in 1 .. L : f[n] = steps[n][f[n - 1]]
    BY <1>5 DEF Follows
  <2>3. QED
    BY <1>4, <2>1, <2>2
<1>7. Good(f)
  <2>1. f = [n \in 0 .. L |-> f[n]]
    OBVIOUS
  <2>2. QED
    BY <1>6, <2>1
<1>8. Good(Upto)
  BY <1>7
<1> HIDE DEF Upto
<1>9. \A n \in 0 .. L : Upto[n] = IF n = 0 THEN 0 ELSE Upto[n - 1] * radix + digits[n]
  BY <1>8, Zenon
<1>10. Upto[0] = 0 /\ \A n \in 1 .. L : Upto[n] = Upto[n - 1] * radix + digits[n]
  <2>1. 0 \in 0 .. L /\ \A n \in 1 .. L : n \in 0 .. L /\ n # 0
    BY <1>1
  <2>2. QED
    BY <1>9, <2>1, Zenon
<1>11. \A n \in 0 .. L : Upto[n] = f[n]
  <2> DEFINE S == {n \in Nat : n <= L => Upto[n] = f[n]}
  <2>1. 0 \in S
    BY <1>5, <1>10 DEF Follows
  <2>2. ASSUME NEW n \in Nat, n \in S PROVE n + 1 \in S
    <3>1. CASE n + 1 <= L
      <4>1. n + 1 \in 1 .. L /\ n + 1 \in 0 .. L /\ n + 1 # 0 /\ (n + 1) - 1 = n /\ Upto[n] = f[n]
        BY <1>1, <2>2, <3>1
      <4>2. QED
        BY <1>6, <1>10, <4>1
    <3>2. CASE ~ (n + 1 <= L)
      BY <3>2
    <3>3. QED
      BY <3>1, <3>2
  <2> HIDE DEF S
  <2>3. Nat \subseteq S
    BY <2>1, <2>2, AllNumbers
  <2>4. QED
    BY <1>1, <2>3 DEF S
<1>12. Takes(f, digits, radix)
  BY <1>1, <1>5, <1>6 DEF Takes, L
<1>13. Upto[L] = f[L]
  BY <1>1, <1>11
<1> QED
  BY <1>2, <1>12, <1>13 DEF L

\* The value of no digits, and of one digit more.
LEMMA ValueAppend ==
  ASSUME NEW radix \in Nat
  PROVE  /\ ValueOf(<<>>, radix) = 0
         /\ \A t \in Seq(Nat) : /\ ValueOf(t, radix) \in Nat
                                /\ \A d \in Nat : ValueOf(Append(t, d), radix) = ValueOf(t, radix) * radix + d
<1>1. ValueOf(<<>>, radix) = 0
  <2>1. <<>> \in Seq(Nat) /\ Len(<<>>) = 0
    OBVIOUS
  <2>2. PICK f : Takes(f, <<>>, radix) /\ ValueOf(<<>>, radix) = f[Len(<<>>)]
    BY <2>1, ValueIs
  <2>3. QED
    BY <2>1, <2>2 DEF Takes
<1>2. ASSUME NEW t \in Seq(Nat) PROVE ValueOf(t, radix) \in Nat
  <2>1. PICK f : Takes(f, t, radix) /\ ValueOf(t, radix) = f[Len(t)]
    BY ValueIs
  <2>2. QED
    BY <2>1, Len(t) \in 0 .. Len(t) DEF Takes
<1>3. ASSUME NEW t \in Seq(Nat), NEW d \in Nat
      PROVE  ValueOf(Append(t, d), radix) = ValueOf(t, radix) * radix + d
  <2> DEFINE u == Append(t, d)
             L == Len(t)
  <2>1. u \in Seq(Nat) /\ Len(u) = L + 1 /\ u[L + 1] = d /\ L \in Nat /\ \A n \in 1 .. L : u[n] = t[n]
    OBVIOUS
  <2> HIDE DEF u
  <2>2. PICK f : Takes(f, u, radix) /\ ValueOf(u, radix) = f[Len(u)]
    BY <2>1, ValueIs
  <2>3. PICK h : Takes(h, t, radix) /\ ValueOf(t, radix) = h[Len(t)]
    BY ValueIs
  <2> DEFINE e == [n \in 0 .. L |-> f[n]]
  <2>4. Takes(e, t, radix)
    <3>1. \A n \in 0 .. L : n \in 0 .. Len(u)
      BY <2>1
    <3>2. e \in [0 .. L -> Nat] /\ e[0] = 0
      BY <2>1, <2>2, <3>1 DEF Takes
    <3>3. ASSUME NEW n \in 1 .. L PROVE e[n] = e[n - 1] * radix + t[n]
      <4>1. n \in 1 .. Len(u) /\ n \in 0 .. L /\ n - 1 \in 0 .. L
        BY <2>1
      <4>2. f[n] = f[n - 1] * radix + u[n] /\ u[n] = t[n]
        BY <2>1, <2>2, <4>1 DEF Takes
      <4>3. QED
        BY <4>1, <4>2
    <3> HIDE DEF e
    <3>4. QED
      BY <3>2, <3>3 DEF Takes
  <2>5. e[L] = f[L]
    BY <2>1
  <2> HIDE DEF e
  <2>6. h[L] = f[L]
    BY <2>3, <2>4, <2>5, OneValue
  <2>7. f[L + 1] = f[L] * radix + d
    <3>1. L + 1 \in 1 .. Len(u) /\ (L + 1) - 1 = L
      BY <2>1
    <3>2. QED
      BY <2>1, <2>2, <3>1 DEF Takes
  <2>8. QED
    BY <2>1, <2>2, <2>3, <2>6, <2>7 DEF u
<1> QED
  BY <1>1, <1>2, <1>3

\* What sixteen hexadecimal digits can hold, 16 to the 16th.
Hex16 == 18446744073709551616

LEMMA HexIsTrue ==
  ASSUME NEW v \in Nat, v < Hex16
  PROVE  Long2Hex(v) \in Seq(Nat) /\ ValueOf(Long2Hex(v), 16) = v
<1> DEFINE Good(f) == f = [n \in 0 .. 16 |-> IF n = 0 THEN v ELSE f[n - 1] \div 16]
           Rest == CHOOSE f : Good(f)
           half == [x \in Nat |-> x \div 16]
           steps == [n \in 1 .. 16 |-> half]
           digits == [d \in 1 .. 16 |-> Rest[16 - d] % 16]
<1>1. Long2Hex(v) = digits
  BY DEF Long2Hex, Itoa
<1>2. \A x \in Nat : x \div 16 \in Nat /\ x % 16 \in 0 .. 15 /\ x = (x \div 16) * 16 + (x % 16)
  OBVIOUS
<1>3. half \in [Nat -> Nat] /\ \A x \in Nat : half[x] = x \div 16
  BY <1>2
<1> HIDE DEF half
<1>4. steps \in [1 .. 16 -> [Nat -> Nat]] /\ \A n \in 1 .. 16 : steps[n] = half
  BY <1>3
<1> HIDE DEF steps
<1>5. PICK f \in [0 .. 16 -> Nat] : Follows(f, 16, v, steps)
  BY <1>4, 16 \in Nat, RecursionExists, Zenon
<1>6. f[0] = v /\ \A n \in 1 .. 16 : f[n] = f[n - 1] \div 16
  <2>1. \A n \in 1 .. 16 : n - 1 \in 0 .. 16 /\ f[n - 1] \in Nat
    OBVIOUS
  <2>2. QED
    BY <1>3, <1>4, <1>5, <2>1 DEF Follows
<1>7. Good(f)
  <2>1. f = [n \in 0 .. 16 |-> f[n]]
    OBVIOUS
  <2>2. \A n \in 0 .. 16 : n # 0 => n \in 1 .. 16
    OBVIOUS
  <2>3. \A n \in 0 .. 16 : f[n] = IF n = 0 THEN v ELSE f[n - 1] \div 16
    BY <1>6, <2>2, SMTT(40)
  <2>4. QED
    BY <2>1, <2>3
<1>8. Good(Rest)
  BY <1>7
<1> HIDE DEF Rest
<1>9. \A n \in 0 .. 16 : Rest[n] = IF n = 0 THEN v ELSE Rest[n - 1] \div 16
  BY <1>8, Zenon
<1>10. \A n \in 0 .. 16 : Rest[n] = f[n]
  <2> DEFINE S == {n \in Nat : n <= 16 => Rest[n] = f[n]}
  <2>1. 0 \in S
    BY <1>6, <1>9
  <2>2. ASSUME NEW n \in Nat, n \in S PROVE n + 1 \in S
    <3>1. CASE n + 1 <= 16
      <4>1. n + 1 \in 1 .. 16 /\ n + 1 \in 0 .. 16 /\ n + 1 # 0 /\ (n + 1) - 1 = n /\ Rest[n] = f[n]
        BY <2>2, <3>1
      <4>2. QED
        BY <1>6, <1>9, <4>1
    <3>2. CASE ~ (n + 1 <= 16)
      BY <3>2
    <3>3. QED
      BY <3>1, <3>2
  <2> HIDE DEF S
  <2>3. Nat \subseteq S
    BY <2>1, <2>2, AllNumbers
  <2>4. QED
    BY <2>3 DEF S
<1>11. f[16] = 0
  <2>1. \A n \in 1 .. 16 : f[n] \in Nat /\ f[n - 1] \in Nat /\ 16 * f[n] <= f[n - 1]
    <3>1. ASSUME NEW n \in 1 .. 16 PROVE f[n] \in Nat /\ f[n - 1] \in Nat /\ 16 * f[n] <= f[n - 1]
      <4>1. n \in 0 .. 16 /\ n - 1 \in 0 .. 16
        OBVIOUS
      <4>2. f[n] \in Nat /\ f[n - 1] \in Nat
        BY <4>1
      <4>3. QED
        BY <1>2, <1>6, <4>2
    <3>2. QED
      BY <3>1
  <2> DEFINE q1 == f[4]
             q2 == f[8]
             q3 == f[12]
             q4 == f[16]
  <2>2. q1 \in Nat /\ q2 \in Nat /\ q3 \in Nat /\ q4 \in Nat
    BY 4 \in 0 .. 16, 8 \in 0 .. 16, 12 \in 0 .. 16, 16 \in 0 .. 16
  <2>3. 65536 * q1 <= v
    <3>1. 16 * f[1] <= f[0] /\ 16 * f[2] <= f[1] /\ 16 * f[3] <= f[2] /\ 16 * f[4] <= f[3]
      BY <2>1
    <3>2. f[1] \in Nat /\ f[2] \in Nat /\ f[3] \in Nat
      BY 1 \in 0 .. 16, 2 \in 0 .. 16, 3 \in 0 .. 16
    <3>3. QED
      BY <1>6, <2>2, <3>1, <3>2
  <2>4. 65536 * q2 <= q1
    <3>1. 16 * f[5] <= f[4] /\ 16 * f[6] <= f[5] /\ 16 * f[7] <= f[6] /\ 16 * f[8] <= f[7]
      BY <2>1
    <3>2. f[5] \in Nat /\ f[6] \in Nat /\ f[7] \in Nat
      OBVIOUS
    <3>3. QED
      BY <2>2, <3>1, <3>2
  <2>5. 65536 * q3 <= q2
    <3>1. 16 * f[9] <= f[8] /\ 16 * f[10] <= f[9] /\ 16 * f[11] <= f[10] /\ 16 * f[12] <= f[11]
      BY <2>1
    <3>2. f[9] \in Nat /\ f[10] \in Nat /\ f[11] \in Nat
      OBVIOUS
    <3>3. QED
      BY <2>2, <3>1, <3>2
  <2>6. 65536 * q4 <= q3
    <3>1. 16 * f[13] <= f[12] /\ 16 * f[14] <= f[13] /\ 16 * f[15] <= f[14] /\ 16 * f[16] <= f[15]
      BY <2>1
    <3>2. f[13] \in Nat /\ f[14] \in Nat /\ f[15] \in Nat
      OBVIOUS
    <3>3. QED
      BY <2>2, <3>1, <3>2
  <2>7. Hex16 * q4 <= v
    BY <2>3, <2>4, <2>5, <2>6 DEF Hex16
  <2>8. QED
    BY <2>2, <2>7 DEF Hex16
<1>12. digits \in Seq(Nat) /\ Len(digits) = 16 /\ \A d \in 1 .. 16 : digits[d] = f[16 - d] % 16 /\ digits[d] \in Nat
  <2>1. \A d \in 1 .. 16 : 16 - d \in 0 .. 16
    OBVIOUS
  <2>2. \A d \in 1 .. 16 : f[16 - d] \in Nat /\ Rest[16 - d] = f[16 - d] /\ Rest[16 - d] % 16 \in Nat
    BY <1>2, <1>10, <2>1
  <2>3. QED
    BY <2>2, IsASeq
<1> HIDE DEF digits
<1> DEFINE h == [n \in 0 .. 16 |-> f[16 - n]]
<1>13. Takes(h, digits, 16) /\ h[16] = v
  <2>1. \A n \in 0 .. 16 : 16 - n \in 0 .. 16 /\ h[n] = f[16 - n] /\ f[16 - n] \in Nat
    OBVIOUS
  <2>2. h \in [0 .. 16 -> Nat] /\ h[0] = 0 /\ h[16] = v
    BY <1>6, <1>11, <2>1
  <2>3. ASSUME NEW n \in 1 .. 16 PROVE h[n] = h[n - 1] * 16 + digits[n]
    <3>1. n - 1 \in 0 .. 16 /\ n \in 0 .. 16 /\ 16 - (n - 1) = (16 - n) + 1 /\ (16 - n) + 1 \in 1 .. 16
          /\ ((16 - n) + 1) - 1 = 16 - n
      OBVIOUS
    <3>2. h[n - 1] = f[(16 - n) + 1] /\ h[n] = f[16 - n] /\ f[16 - n] \in Nat
      BY <2>1, <3>1
    <3>3. f[(16 - n) + 1] = f[16 - n] \div 16
      BY <1>6, <3>1
    <3>4. digits[n] = f[16 - n] % 16
      BY <1>12
    <3>5. QED
      BY <1>2, <3>2, <3>3, <3>4
  <2> HIDE DEF h
  <2>4. QED
    BY <1>12, <2>2, <2>3 DEF Takes
<1> HIDE DEF h
<1>14. PICK g : Takes(g, digits, 16) /\ ValueOf(digits, 16) = g[Len(digits)]
  BY <1>12, 16 \in Nat, ValueIs
<1>15. g[Len(digits)] = h[Len(digits)]
  <2>1. Takes(g, digits, 16)
    BY <1>14
  <2>2. ASSUME NEW r \in Nat, Takes(g, digits, r), Takes(h, digits, r) PROVE g[Len(digits)] = h[Len(digits)]
    <3>1. digits \in Seq(Nat)
      BY <1>12
    <3>2. \A a, b : Takes(a, digits, r) /\ Takes(b, digits, r) => a[Len(digits)] = b[Len(digits)]
      BY <3>1, OneValue
    <3>3. QED
      BY <2>2, <3>2
  <2>3. QED
    BY <1>13, <2>1, <2>2, 16 \in Nat
<1> QED
  BY <1>1, <1>12, <1>13, <1>14, <1>15

DigitsFrom(f, n) == IF n < 10 THEN <<n>> ELSE <<n % 10>> \o f[n \div 10]

LEMMA Tenth ==
  \A n \in Nat : /\ n \div 10 \in Nat /\ n % 10 \in Nat /\ n = (n \div 10) * 10 + (n % 10)
                 /\ n >= 10 => n \div 10 < n
OBVIOUS

\* The digits of a number, found from those of its tenth, are a function on Nat.
LEMMA DigitsExist ==
  \E f \in [Nat -> Seq(Nat)] : \A n \in Nat : f[n] = DigitsFrom(f, n)
<1> DEFINE further == [n \in Nat |-> [s \in Seq(Nat) |-> IF n < 10 THEN <<n>> ELSE <<n % 10>> \o s]]
<1>1. ASSUME NEW n \in Nat, NEW s \in Seq(Nat)
      PROVE  (IF n < 10 THEN <<n>> ELSE <<n % 10>> \o s) \in Seq(Nat)
  <2>1. \A d \in Nat : <<d>> \in Seq(Nat)
    OBVIOUS
  <2>2. <<n>> \in Seq(Nat) /\ <<n % 10>> \in Seq(Nat)
    BY <2>1, Tenth
  <2>3. \A a, b \in Seq(Nat) : a \o b \in Seq(Nat)
    OBVIOUS
  <2>4. QED
    BY <2>2, <2>3
<1>2. further \in [Nat -> [Seq(Nat) -> Seq(Nat)]] /\ <<0>> \in Seq(Nat)
  BY <1>1
<1>3. \A n \in Nat : \A s \in Seq(Nat) : further[n][s] = IF n < 10 THEN <<n>> ELSE <<n % 10>> \o s
  OBVIOUS
<1> HIDE DEF further
<1>4. PICK f \in [Nat -> Seq(Nat)] : FromQuotient(f, <<0>>, 10, further)
  BY <1>2, RecursionByDivision, 10 \in Nat, 10 > 1
<1>5. ASSUME NEW n \in Nat PROVE f[n] = DigitsFrom(f, n)
  <2>1. f[n] = IF n = 0 THEN <<0>> ELSE further[n][f[n \div 10]]
    BY <1>4 DEF FromQuotient
  <2>2. f[n \div 10] \in Seq(Nat)
    BY Tenth
  <2>3. further[n][f[n \div 10]] = IF n < 10 THEN <<n>> ELSE <<n % 10>> \o f[n \div 10]
    BY <1>3, <2>2
  <2>4. QED
    BY <2>1, <2>3 DEF DigitsFrom
<1> QED
  BY <1>5

LEMMA ReverseOf ==
  ASSUME NEW s \in Seq(Nat), NEW d \in Nat
  PROVE  Reverse(s) \in Seq(Nat) /\ Reverse(<<d>> \o s) = Append(Reverse(s), d)
<1> DEFINE L == Len(s)
           r == Reverse(s)
           t == <<d>> \o s
<1>1. L \in Nat /\ \A n \in 1 .. L : (L - n) + 1 \in 1 .. L /\ s[(L - n) + 1] \in Nat
  OBVIOUS
<1>2. r = [n \in 1 .. L |-> s[(L - n) + 1]]
  BY DEF Reverse
<1>3. r \in Seq(Nat) /\ Len(r) = L /\ \A n \in 1 .. L : r[n] = s[(L - n) + 1]
  BY <1>1, <1>2, IsASeq, LenProperties
<1>4. <<d>> \in Seq(Nat) /\ Len(<<d>>) = 1 /\ <<d>>[1] = d
  OBVIOUS
<1>5. t \in Seq(Nat) /\ Len(t) = L + 1 /\ t[1] = d /\ \A n \in 1 .. L : t[n + 1] = s[n]
  BY <1>1, <1>4
<1>6. Reverse(t) = [n \in 1 .. L + 1 |-> t[((L + 1) - n) + 1]]
  BY <1>5 DEF Reverse
<1> HIDE DEF r, t, L
<1> DEFINE u == Append(r, d)
<1>7. u \in Seq(Nat) /\ Len(u) = L + 1 /\ u[L + 1] = d /\ \A n \in 1 .. L : u[n] = r[n]
  BY <1>1, <1>3
<1> HIDE DEF u
<1>8. ASSUME NEW n \in 1 .. L + 1 PROVE t[((L + 1) - n) + 1] = u[n]
  <2>1. CASE n = L + 1
    <3>1. ((L + 1) - n) + 1 = 1
      BY <1>1, <2>1
    <3>2. QED
      BY <1>5, <1>7, <2>1, <3>1
  <2>2. CASE n # L + 1
    <3>1. n \in 1 .. L /\ ((L + 1) - n) + 1 = ((L - n) + 1) + 1 /\ (L - n) + 1 \in 1 .. L
      BY <1>1, <2>2
    <3>2. QED
      BY <1>3, <1>5, <1>7, <3>1
  <2>3. QED
    BY <2>1, <2>2
<1>9. u = [n \in 1 .. L + 1 |-> u[n]]
  BY <1>7
<1>10. Reverse(t) = u
  BY <1>6, <1>8, <1>9
<1> QED
  BY <1>3, <1>10 DEF r, t, u

\* str_long2dec shows the number.
LEMMA DecimalIsTrue ==
  ASSUME NEW v \in Nat
  PROVE  Long2Dec(v) \in Seq(Nat) /\ ValueOf(Long2Dec(v), 10) = v
<1> DEFINE Good(f) == f = [n \in Nat |-> IF n < 10 THEN <<n>> ELSE <<n % 10>> \o f[n \div 10]]
           Digits == CHOOSE f : Good(f)
           S == {n \in Nat : \A x \in Nat : x < n => /\ Digits[x] \in Seq(Nat)
                                                     /\ ValueOf(Reverse(Digits[x]), 10) = x}
<1>1. Long2Dec(v) = Reverse(Digits[v])
  BY DEF Long2Dec
<1>2. \E f : Good(f)
  <2>1. PICK f \in [Nat -> Seq(Nat)] : \A n \in Nat : f[n] = DigitsFrom(f, n)
    BY DigitsExist
  <2>2. f = [n \in Nat |-> f[n]]
    OBVIOUS
  <2>3. f = [n \in Nat |-> DigitsFrom(f, n)]
    BY <2>1, <2>2
  <2>4. QED
    BY <2>3 DEF DigitsFrom
<1>3. Good(Digits)
  BY <1>2
<1> HIDE DEF Digits
<1>4. \A n \in Nat : Digits[n] = IF n < 10 THEN <<n>> ELSE <<n % 10>> \o Digits[n \div 10]
  BY <1>3, Zenon
<1>5. ASSUME NEW s \in Seq(Nat), NEW d \in Nat
      PROVE  ValueOf(Reverse(<<d>> \o s), 10) = ValueOf(Reverse(s), 10) * 10 + d
  <2>1. PICK t \in Seq(Nat) : t = Reverse(s) /\ Reverse(<<d>> \o s) = Append(t, d)
    BY ReverseOf
  <2>2. ValueOf(Append(t, d), 10) = ValueOf(t, 10) * 10 + d
    BY ValueAppend, 10 \in Nat
  <2>3. QED
    BY <2>1, <2>2
<1>6. <<>> \in Seq(Nat) /\ Reverse(<<>>) = <<>>
  BY DEF Reverse
<1>7. ValueOf(<<>>, 10) = 0
  BY ValueAppend, 10 \in Nat
<1>8. 0 \in S
  OBVIOUS
<1>9. ASSUME NEW n \in Nat, n \in S PROVE n + 1 \in S
  <2>1. ASSUME NEW x \in Nat, x < n + 1
        PROVE  Digits[x] \in Seq(Nat) /\ ValueOf(Reverse(Digits[x]), 10) = x
    <3> DEFINE D == Digits[x]
    <3>0. D = IF x < 10 THEN <<x>> ELSE <<x % 10>> \o Digits[x \div 10]
      BY <1>4, Zenon
    <3> HIDE DEF D
    <3>1. CASE x < 10
      <4>1. D = <<x>> /\ <<x>> = <<x>> \o <<>> /\ <<x>> \in Seq(Nat)
        BY <3>0, <3>1
      <4>2. ValueOf(Reverse(D), 10) = ValueOf(Reverse(<<>>), 10) * 10 + x
        BY <1>5, <1>6, <4>1
      <4>3. QED
        BY <1>6, <1>7, <4>1, <4>2 DEF D
    <3>2. CASE x >= 10
      <4>1. PICK q \in Nat, d \in Nat : q = x \div 10 /\ d = x % 10 /\ x = q * 10 + d /\ q < n
        BY <2>1, <3>2, Tenth
      <4>2. D = <<d>> \o Digits[q]
        BY <3>0, <3>2, <4>1
      <4>3. Digits[q] \in Seq(Nat) /\ ValueOf(Reverse(Digits[q]), 10) = q
        BY <1>9, <4>1
      <4>4. <<d>> \o Digits[q] \in Seq(Nat)
        BY <4>3
      <4>5. ValueOf(Reverse(<<d>> \o Digits[q]), 10) = q * 10 + d
        BY <1>5, <4>3
      <4>6. QED
        BY <4>1, <4>2, <4>4, <4>5 DEF D
    <3>3. QED
      BY <3>1, <3>2
  <2>2. QED
    BY <2>1
<1> HIDE DEF S
<1>10. Nat \subseteq S
  BY <1>8, <1>9, AllNumbers
<1>11. v + 1 \in S
  BY <1>10
<1>12. Digits[v] \in Seq(Nat) /\ ValueOf(Reverse(Digits[v]), 10) = v
  BY <1>11 DEF S
<1> QED
  BY <1>1, <1>12, 0 \in Nat, ReverseOf

-----------------------------------------------------------------------------
(* What the command shows                                                  *)

\* The usable slots of the firmware do not overlap, and its addresses have 64 bits.
SlotsApart ==
  \A t \in Tables : \A m, n \in DOMAIN t :
    t[m].usable = 1 /\ t[n].usable = 1 /\ m # n => Bytes(t[m]) \cap Bytes(t[n]) = {}
AddressesFit == \A t \in Tables : \A n \in DOMAIN t : t[n].startAddr + t[n].len <= Hex16

BytesTo(k) == UNION {Bytes(table[n]) : n \in UsableTo(k)}

\* The size is added up slot by slot.
SizeKnown ==
  /\ where \in {"show", "more", "add"} =>
       IsFiniteSet(BytesTo(i - 1)) /\ totalLen = Cardinality(BytesTo(i - 1))
  /\ sizeShown # <<>> => IsFiniteSet(Usable(table)) /\ sizeShown = Long2Dec(Cardinality(Usable(table)))

LEMMA SizeStays ==
  ASSUME SlotsApart, MemTestTypeOK, SizeKnown, MemTestNext
  PROVE  SizeKnown'
<1>1. table' = table
  BY DEF MemTestNext, MemTestStep, Memtest, PressKey, ShowSlot, NoRoomForSlot, AddSlot, EndOfTable, CutOffUnder2M,
         WriteUnit, VerifyUnit, Finish, LoopForEver, given, memVars
<1>2. /\ Len(table) \in Nat \ {0} /\ DOMAIN table = 1 .. Len(table) /\ i \in 1 .. Len(table) /\ table \in Tables
      /\ \A n \in 1 .. Len(table) : table[n] \in Slot /\ (table[n].usable = 0 <=> n = Len(table))
  BY TableIs DEF MemTestTypeOK
<1>3. \A k : BytesTo(k)' = BytesTo(k)
  BY <1>1 DEF BytesTo, UsableTo, Bytes
<1>4. Usable(table)' = Usable(table)
  BY <1>1
<1>11. /\ i \in Nat /\ 1 .. i = (1 .. i - 1) \cup {i} /\ i \notin 1 .. i - 1 /\ 1 .. i - 1 \subseteq 1 .. Len(table)
       /\ \A k, m : m \in UsableTo(k) <=> m \in 1 .. k /\ table[m].usable = 1
  <2>1. PICK L \in Nat : L = Len(table) /\ i \in 1 .. L
    BY <1>2, Zenon
  <2>2. 1 .. i = (1 .. i - 1) \cup {i} /\ i \notin 1 .. i - 1 /\ 1 .. i - 1 \subseteq 1 .. L
    BY ONLY <2>1, L \in Nat
  <2>3. QED
    BY <2>1, <2>2 DEF UsableTo
<1>5. CASE Memtest
  <2>1. i' = 1 /\ totalLen' = 0 /\ sizeShown' = <<>>
    BY <1>5 DEF Memtest
  <2>2. BytesTo(0) = {}
    BY DEF BytesTo, UsableTo
  <2>3. IsFiniteSet({}) /\ Cardinality({}) = 0
    BY FS_EmptySet
  <2>4. BytesTo(i - 1)' = {}
    BY <1>1, <2>1, <2>2 DEF BytesTo, UsableTo, Bytes
  <2>5. QED
    BY <2>1, <2>3, <2>4 DEF SizeKnown
<1>6. CASE AddSlot
  <2>1. /\ where = "add" /\ table[i].usable # 0 /\ i' = i + 1 /\ sizeShown' = sizeShown
        /\ totalLen' = IF table[i].usable = 1 THEN totalLen + table[i].len ELSE totalLen
    BY <1>6 DEF AddSlot, shown
  <2> DEFINE U == BytesTo(i - 1)
  <2>2. IsFiniteSet(U) /\ totalLen = Cardinality(U)
    BY <2>1 DEF SizeKnown
  <2>3. BytesTo(i - 1)' = BytesTo(i)
    <3>1. BytesTo(i - 1)' = BytesTo((i + 1) - 1)
      BY <1>1, <2>1 DEF BytesTo, UsableTo, Bytes
    <3>2. (i + 1) - 1 = i
      BY <1>11
    <3>3. QED
      BY <3>1, <3>2
  <2>4. CASE table[i].usable = 1
    <3>1. UsableTo(i) = UsableTo(i - 1) \cup {i}
      BY <1>11, <2>4, Zenon
    <3>2. BytesTo(i) = U \cup Bytes(table[i])
      BY <3>1 DEF BytesTo
    <3>3. U \cap Bytes(table[i]) = {}
      <4>1. ASSUME NEW n \in UsableTo(i - 1) PROVE Bytes(table[n]) \cap Bytes(table[i]) = {}
        <5>1. n \in DOMAIN table /\ i \in DOMAIN table /\ n # i /\ table[n].usable = 1
          BY <1>2, <1>11
        <5>2. QED
          BY <1>2, <2>4, <5>1, SMTT(40) DEF SlotsApart
      <4>2. QED
        BY <4>1 DEF BytesTo
    <3>4. IsFiniteSet(Bytes(table[i])) /\ Cardinality(Bytes(table[i])) = table[i].len
      <4>1. PICK a \in Nat, l \in Nat : a = table[i].startAddr /\ l = table[i].len
        BY <1>2 DEF Slot
      <4>2. /\ IsFiniteSet(a .. a + l - 1)
            /\ Cardinality(a .. a + l - 1) = IF a > a + l - 1 THEN 0 ELSE (a + l - 1) - a + 1
        BY a \in Int, a + l - 1 \in Int, FS_Interval
      <4>3. Cardinality(a .. a + l - 1) = l
        BY <4>2
      <4>4. QED
        BY <4>1, <4>2, <4>3 DEF Bytes
    <3>5. PICK B : B = Bytes(table[i])
      OBVIOUS
    <3>6. IsFiniteSet(U \cup B) /\ Cardinality(U \cup B) = Cardinality(U) + Cardinality(B) - Cardinality(U \cap B)
      BY <2>2, <3>4, <3>5, FS_Union
    <3>7. Cardinality(U \cap B) = 0
      BY <3>3, <3>5, FS_EmptySet
    <3>8. Cardinality(U) \in Nat /\ Cardinality(B) \in Nat
      BY <2>2, <3>4, <3>5, FS_CardinalityType
    <3>9. totalLen' = Cardinality(BytesTo(i)) /\ IsFiniteSet(BytesTo(i))
      BY <2>1, <2>2, <2>4, <3>2, <3>4, <3>5, <3>6, <3>7, <3>8
    <3>10. QED
      BY <1>4, <2>1, <2>3, <3>9 DEF SizeKnown
  <2>5. CASE table[i].usable # 1
    <3>1. UsableTo(i) = UsableTo(i - 1)
      <4>1. \A m : m \in UsableTo(i) <=> m \in UsableTo(i - 1)
        BY <1>11, <2>5, Zenon
      <4>2. UsableTo(i) \subseteq UsableTo(i - 1) /\ UsableTo(i - 1) \subseteq UsableTo(i)
        BY <4>1
      <4>3. QED
        BY <4>2
    <3>2. BytesTo(i) = U
      BY <3>1 DEF BytesTo
    <3>3. QED
      BY <1>4, <2>1, <2>2, <2>3, <2>5, <3>2 DEF SizeKnown
  <2>6. QED
    BY <2>4, <2>5
<1>7. CASE EndOfTable
  <2>1. where = "add" /\ table[i].usable = 0 /\ sizeShown' = Long2Dec(totalLen) /\ where' \in {"press", "cut"}
    BY <1>7, SMTT(40) DEF EndOfTable
  <2>2. IsFiniteSet(BytesTo(i - 1)) /\ totalLen = Cardinality(BytesTo(i - 1)) /\ i = Len(table)
    BY <1>2, <2>1 DEF SizeKnown
  <2>3. UsableTo(i - 1) = {m \in DOMAIN table : table[m].usable = 1}
    <3>1. \A m \in 1 .. i : table[m].usable = 1 => m \in 1 .. i - 1
      BY <1>11, <2>1
    <3>2. QED
      BY <1>2, <1>11, <2>2, <3>1
  <2>4. BytesTo(i - 1) = Usable(table)
    BY <2>3 DEF BytesTo, Usable
  <2>5. QED
    BY <1>4, <2>1, <2>2, <2>4 DEF SizeKnown
<1>8. CASE ShowSlot \/ PressKey
  <2>1. UNCHANGED <<i, totalLen, sizeShown>> /\ (where' \in {"show", "more", "add"} => where \in {"show", "more", "add"})
    BY <1>8 DEF ShowSlot, PressKey, shown
  <2>2. BytesTo(i - 1)' = BytesTo(i - 1)
    BY <1>1, <2>1 DEF BytesTo, UsableTo, Bytes
  <2>3. QED
    BY <1>4, <2>1, <2>2 DEF SizeKnown
<1>9. CASE NoRoomForSlot \/ CutOffUnder2M \/ WriteUnit \/ VerifyUnit \/ Finish
  <2>1. sizeShown' = sizeShown /\ where' \notin {"show", "more", "add"}
    BY <1>9 DEF NoRoomForSlot, CutOffUnder2M, WriteUnit, VerifyUnit, Advance, Finish, shown
  <2>2. QED
    BY <1>4, <2>1 DEF SizeKnown
<1>10. CASE LoopForEver
  BY <1>4, <1>10 DEF LoopForEver, memVars, shown, given, SizeKnown, BytesTo, UsableTo, Bytes
<1> QED
  BY <1>5, <1>6, <1>7, <1>8, <1>9, <1>10 DEF MemTestNext, MemTestStep

LEMMA ReportsStutter ==
  ASSUME HeldKnown, ReportsKnown, UNCHANGED memVars
  PROVE  HeldKnown' /\ ReportsKnown'
<1>1. HeldKnown'
  BY DEF HeldKnown, Holds, WordBytes, total, Value, memVars, given, place
<1>2. ReportsKnown'
  BY DEF ReportsKnown, FaultAt, FaultyWord, memVars, given, shown
<1> QED
  BY <1>1, <1>2

TruthKnown == MemTestInv /\ HeldKnown /\ ReportsKnown /\ SizeKnown

\* What memtest shows, with str_long2dec and str_itoa as they are: an address that is called an error
\* is one word behind a faulty word, however the chunks were divided, and not that word's own; the
\* size is that of the usable slots, and the count is the number of addresses.
THEOREM MemtestLocatesFaults ==
  ASSUME SlotsApart, AddressesFit
  PROVE  MemTestSpec => []ReportsLocateFaults
<1>1. MemTestInit => TruthKnown
  <2>1. SUFFICES ASSUME MemTestInit PROVE TruthKnown
    OBVIOUS
  <2>2. where = "prompt" /\ reports = <<>> /\ error = 0 /\ countShown = <<>> /\ sizeShown = <<>>
    BY <2>1 DEF MemTestInit
  <2>3. HeldKnown /\ ReportsKnown /\ SizeKnown
    BY <2>2 DEF HeldKnown, ReportsKnown, SizeKnown
  <2>4. QED
    BY <2>1, <2>3, Starts DEF TruthKnown
<1>2. TruthKnown /\ [MemTestNext]_memVars => TruthKnown'
  <2>1. SUFFICES ASSUME TruthKnown, [MemTestNext]_memVars PROVE TruthKnown'
    OBVIOUS
  <2>2. MemTestInv /\ HeldKnown /\ ReportsKnown /\ SizeKnown /\ MemTestTypeOK
    BY <2>1 DEF TruthKnown, MemTestInv
  <2>3. CASE MemTestNext
    <3>1. MemTestInv'
      BY <2>2, <2>3, TypeStays, ListStays, OnlyTestableStays, WalkStays DEF MemTestInv
    <3>2. HeldKnown' /\ ReportsKnown' /\ SizeKnown'
      BY <2>2, <2>3, HeldStays, ReportsStay, SizeStays
    <3>3. QED
      BY <3>1, <3>2 DEF TruthKnown
  <2>4. CASE UNCHANGED memVars
    <3>1. MemTestInv'
      BY <2>2, <2>4, Stutters
    <3>2. HeldKnown' /\ ReportsKnown'
      BY <2>2, <2>4, ReportsStutter
    <3>3. SizeKnown'
      BY <2>2, <2>4 DEF SizeKnown, BytesTo, UsableTo, Bytes, Usable, memVars, given, shown
    <3>4. QED
      BY <3>1, <3>2, <3>3 DEF TruthKnown
  <2>5. QED
    BY <2>1, <2>3, <2>4
<1>3. TruthKnown => ReportsLocateFaults
  <2>1. SUFFICES ASSUME TruthKnown PROVE ReportsLocateFaults
    OBVIOUS
  <2>2. MemTestTypeOK /\ ReportsKnown /\ SizeKnown
    BY <2>1 DEF TruthKnown, MemTestInv
  <2>3. reports \in Seq({Long2Hex(a) : a \in Nat})
    BY <2>2 DEF ReportsKnown
  <2>4. DOMAIN reports = 1 .. Len(reports) /\ Len(reports) \in Nat
    BY <2>3
  <2>5. ASSUME NEW n \in DOMAIN reports PROVE FaultyWord(ValueOf(reports[n], 16) - WordSize)
    <3>1. PICK a \in Nat : FaultAt(a) /\ reports[n] = Long2Hex(a + WordSize)
      BY <2>2, <2>4, <2>5 DEF ReportsKnown
    <3>2. PICK m \in DOMAIN table : a + WordSize < table[m].startAddr + table[m].len
      BY <3>1 DEF FaultAt
    <3>3. table[m].startAddr \in Nat /\ table[m].len \in Nat /\ table[m].startAddr + table[m].len <= Hex16
      BY <2>2, TableIs DEF MemTestTypeOK, AddressesFit
    <3>4. a + WordSize \in Nat /\ a + WordSize < Hex16
      BY <3>2, <3>3, Sizes DEF Hex16
    <3>5. ValueOf(reports[n], 16) = a + WordSize
      BY <3>1, <3>4, HexIsTrue
    <3>6. ValueOf(reports[n], 16) - WordSize = a
      BY <3>5, Sizes
    <3>7. QED
      BY <3>1, <3>6 DEF FaultAt
  <2>6. sizeShown # <<>> => ValueOf(sizeShown, 10) = Cardinality(Usable(table))
    <3>1. SUFFICES ASSUME sizeShown # <<>> PROVE ValueOf(sizeShown, 10) = Cardinality(Usable(table))
      OBVIOUS
    <3>2. IsFiniteSet(Usable(table)) /\ sizeShown = Long2Dec(Cardinality(Usable(table)))
      BY <2>2, <3>1 DEF SizeKnown
    <3>3. Cardinality(Usable(table)) \in Nat
      BY <3>2, FS_CardinalityType
    <3>4. QED
      BY <3>2, <3>3, DecimalIsTrue
  <2>7. countShown # <<>> => ValueOf(countShown, 10) = Len(reports)
    BY <2>2, <2>4, DecimalIsTrue DEF ReportsKnown
  <2>8. QED
    BY <2>5, <2>6, <2>7 DEF ReportsLocateFaults
<1> QED
  BY <1>1, <1>2, <1>3, PTL DEF MemTestSpec

-----------------------------------------------------------------------------
(* What is found                                                           *)

LEMMA MinOfTwo ==
  ASSUME NEW a \in Nat, NEW b \in Nat
  PROVE  Min({a, b}) = IF a <= b THEN a ELSE b
BY DEF Min

WordAt(p, w) == p.startAddr + WordSize * w

\* The chunk in hand is the one its words belong to.
LEMMA ChunkOfIs ==
  ASSUME InUnit, NEW k \in Nat, cnt = (total \div Chunks) * k, NEW j \in 0 .. Chunk - 1
  PROVE  ChunkOf(FreeMemArr[part], unit + WordSize * j) =
           {WordAt(FreeMemArr[part], w) : w \in cnt .. cnt + Chunk - 1}
<1>1. PICK p \in Parts, s \in Nat : p = FreeMemArr[part] /\ s = p.startAddr
  BY ChunkFits DEF Parts
<1>2. PICK t \in Nat, c \in Nat, n \in Nat : t = total /\ c = cnt /\ n = Chunk
  BY ChunkFits DEF InUnit
<1>3. PICK d \in Nat : d = t \div Chunks
  BY t \in Int, t >= 0, Quotient, Sizes
<1>4. n = IF c + d > t THEN t - c ELSE d
  BY <1>2, <1>3 DEF Chunk
<1>5. c <= t /\ j \in Nat /\ j < n
  BY <1>2 DEF InUnit
<1>6. d # 0 /\ j < d
  BY <1>4, <1>5
<1>7. d * k \in Nat /\ (d * k + j) \div d = k /\ c = d * k
  BY <1>2, <1>3, <1>5, <1>6, QuotientIs
<1>8. PICK x \in Nat, y \in Nat : x = WordSize * c /\ y = WordSize * j /\ WordSize * (c + j) = x + y
  <2>1. WordSize * c \in Nat /\ WordSize * j \in Nat /\ WordSize * (c + j) = WordSize * c + WordSize * j
    BY <1>5, Times
  <2>2. QED
    BY <2>1
<1>9. unit = s + x
  BY <1>1, <1>2, <1>8, ChunkFits
<1>10. ((unit + WordSize * j) - p.startAddr) \div WordSize = c + j
  <2>1. (unit + WordSize * j) - p.startAddr = WordSize * (c + j) + 0
    BY <1>1, <1>8, <1>9
  <2>2. (WordSize * (c + j) + 0) \div WordSize = c + j
    BY <1>5, c + j \in Nat, 0 \in Nat, QuotientIs, Sizes
  <2>3. QED
    BY <2>1, <2>2
<1>11. (c + j) \div d = k /\ k * d = c
  <2>1. k * d = d * k
    BY <1>3
  <2>2. QED
    BY <1>7, <2>1
<1>12. p.len \div WordSize = t
  BY <1>1, <1>2 DEF total
<1>13. Min({c + d, t}) = c + n
  BY <1>4, MinOfTwo, c + d \in Nat
<1>14. ChunkOf(p, unit + WordSize * j) = {p.startAddr + WordSize * w : w \in c .. (c + n) - 1}
  <2>1. ChunkOf(p, unit + WordSize * j) =
          LET size == t \div Chunks
              first == ((((unit + WordSize * j) - p.startAddr) \div WordSize) \div size) * size
          IN  {p.startAddr + WordSize * w : w \in first .. Min({first + size, t}) - 1}
    BY <1>12 DEF ChunkOf
  <2>2. QED
    BY <1>3, <1>10, <1>11, <1>13, <2>1
<1> QED
  BY <1>1, <1>2, <1>14 DEF WordAt

\* Word w of part n has been verified with value v when c words are done in step st of part pt.
Seen(n, w, v, pt, st, c) ==
  \/ n < pt
  \/ n = pt /\ \/ v = 1 /\ st > 2
               \/ st \in {2, 4} /\ v = (IF st <= 2 THEN 1 ELSE 0) /\ w < c

\* What a round has verified when it is over it had verified before, or verifies now.
LEMMA SeenAfter ==
  ASSUME InUnit, Advance, NEW n \in 1 .. Len(FreeMemArr), NEW w \in 0 .. Words(FreeMemArr[n]) - 1, NEW v \in {0, 1},
         Seen(n, w, v, part', step', cnt')
  PROVE  \/ Seen(n, w, v, part, step, cnt)
         \/ n = part /\ step \in {2, 4} /\ v = Value /\ w \in cnt .. cnt + Chunk - 1
<1>1. /\ part \in Nat /\ part + 1 \in 1 .. Len(FreeMemArr) + 1 /\ FreeMemArr \in Seq(Parts) /\ step \in {1, 2, 3, 4}
      /\ Len(FreeMemArr) \in Nat /\ cnt \in Nat
  BY DEF InUnit
<1>2. total \in Nat /\ Chunk \in Nat /\ cnt + Chunk <= total /\ total = Words(FreeMemArr[part])
  BY ChunkFits
<1>3. w \in Nat
  <2>1. FreeMemArr[n] \in Parts
    BY <1>1, ElementOfSeq
  <2>2. QED
    OBVIOUS
<1>4. n = part => w < total
  <2>1. SUFFICES ASSUME n = part PROVE w < total
    OBVIOUS
  <2>2. w \in 0 .. total - 1
    BY <1>2, <2>1
  <2>3. QED
    BY <1>2, <2>2
<1>5. Value = IF step <= 2 THEN 1 ELSE 0
  BY DEF Value
<1>6. CASE cnt + Chunk < total /\ cnt' = cnt + Chunk /\ step' = step /\ part' = part
  BY <1>1, <1>2, <1>3, <1>5, <1>6 DEF Seen
<1>7. CASE cnt + Chunk = total /\ cnt' = 0 /\ step # 4 /\ step' = step + 1 /\ part' = part
  BY <1>1, <1>2, <1>3, <1>4, <1>5, <1>7 DEF Seen
<1>8. CASE cnt + Chunk = total /\ cnt' = 0 /\ step = 4 /\ step' = 1 /\ part' = NextPart(FreeMemArr, part + 1)
  <2>1. n < part'
    BY <1>8 DEF Seen
  <2>2. PICK q : q = part'
    OBVIOUS
  <2>3. /\ q \in part + 1 .. Len(FreeMemArr) + 1
        /\ \A m \in part + 1 .. q - 1 : FreeMemArr[m].len = 0
    BY <1>1, <1>8, <2>2, NextPartIs
  <2>4. CASE n < part
    BY <2>4 DEF Seen
  <2>5. CASE n = part
    BY <1>1, <1>2, <1>3, <1>4, <1>5, <1>8, <2>5 DEF Seen
  <2>6. CASE n > part
    <3>1. n \in part + 1 .. q - 1
      <4>1. PICK L \in Nat, a \in Nat : L = Len(FreeMemArr) /\ a = part
        BY <1>1
      <4>2. n \in 1 .. L /\ q \in a + 1 .. L + 1 /\ n < q /\ n > a
        BY <2>1, <2>2, <2>3, <2>6, <4>1
      <4>3. n \in a + 1 .. q - 1
        BY ONLY <4>2, a \in Nat, L \in Nat
      <4>4. QED
        BY <4>1, <4>3
    <3>2. FreeMemArr[n].len = 0
      BY <2>3, <3>1
    <3>3. Words(FreeMemArr[n]) = 0
      <4>1. 0 \div WordSize \in Nat /\ 0 \div WordSize <= 0
        BY 0 \in Int, 0 <= 0, 0 >= 0, Quotient, Sizes
      <4>2. QED
        BY <3>2, <4>1 DEF Words
    <3>4. QED
      BY <3>3
  <2>7. QED
    BY <1>1, <2>4, <2>5, <2>6
<1> QED
  BY <1>6, <1>7, <1>8, AdvanceIs

\* The count of a part in hand stays at the beginning of a chunk.
LEMMA AtAChunk ==
  ASSUME InUnit, Advance, FreeMemArr' = FreeMemArr, where' = "unit", NEW k \in Nat, cnt = (total \div Chunks) * k
  PROVE  \E m \in Nat : cnt' = (total' \div Chunks) * m
<1>1. CASE cnt + Chunk < total /\ cnt' = cnt + Chunk /\ part' = part
  <2>1. total' = total /\ Chunk = total \div Chunks
    BY <1>1, ChunkFits DEF total
  <2>2. total \div Chunks \in Nat
    BY <2>1, ChunkFits
  <2>3. \A a, b \in Nat : a * (b + 1) = a * b + a
    OBVIOUS
  <2>4. cnt' = (total' \div Chunks) * (k + 1)
    BY <1>1, <2>1, <2>2, <2>3
  <2>5. QED
    BY <2>4, k + 1 \in Nat
<1>2. CASE cnt' = 0
  <2>1. part' \in 1 .. Len(FreeMemArr)
    BY AdvanceStays DEF InUnit
  <2>2. FreeMemArr[part'] \in Parts
    BY <2>1, ElementOfSeq DEF InUnit
  <2>3. PICK l \in Nat : l = FreeMemArr[part'].len
    BY <2>2 DEF Parts
  <2>4. total' = l \div WordSize
    BY <2>3 DEF total
  <2>5. PICK t \in Nat : t = total'
    BY <2>4, l \in Int, l >= 0, Quotient, Sizes
  <2>6. PICK d \in Nat : d = t \div Chunks
    BY t \in Int, t >= 0, Quotient, Sizes
  <2>7. d * 0 = 0
    OBVIOUS
  <2>8. QED
    BY <1>2, <2>5, <2>6, <2>7, 0 \in Nat
<1> QED
  BY <1>1, <1>2, AdvanceIs

\* A faulty word that MissesLittle accounts for.
Known(p, a) == \/ a = Max(ChunkOf(p, a))
               \/ \E before \in ChunkOf(p, a) : before <= a /\ Reported(before)

\* Every differing word that has been verified is accounted for.
AllKnown ==
  \A n \in 1 .. Len(FreeMemArr) : \A p :
    p = FreeMemArr[n] =>
      \A w \in 0 .. Words(p) - 1 : \A v \in {0, 1} :
        Seen(n, w, v, part, step, cnt) /\ Differs(WordAt(p, w), v) => Known(p, WordAt(p, w))

\* The count stands at the beginning of a chunk, and what was verified is accounted for.
FoundKnown ==
  /\ where = "unit" => \E k \in Nat : cnt = (total \div Chunks) * k
  /\ where \in {"unit", "finish"} => AllKnown

LEMMA KnownKept ==
  ASSUME NEW p, NEW a, Known(p, a), NEW S, reports \in Seq(S),
         reports' = reports \/ \E r \in S : reports' = Append(reports, r)
  PROVE  Known(p, a)'
<1>1. ChunkOf(p, a)' = ChunkOf(p, a)
  BY DEF ChunkOf
<1>2. \A n \in DOMAIN reports : n \in DOMAIN reports' /\ reports'[n] = reports[n]
  OBVIOUS
<1>3. \A b : Reported(b) => Reported(b)'
  BY <1>2 DEF Reported
<1> QED
  BY <1>1, <1>3 DEF Known

\* The words of a chunk that has been verified and differ: the last one, or at or behind a
\* word that is reported.
LEMMA ChunkIsKnown ==
  ASSUME AddressesFit, MemTestInv, HeldKnown, VerifyUnit, NEW k \in Nat, cnt = (total \div Chunks) * k,
         NEW S, S = {Long2Hex(x) : x \in Nat}, reports \in Seq(S),
         NEW p, p = FreeMemArr[part], NEW w \in cnt .. cnt + Chunk - 1, Differs(WordAt(p, w), Value)
  PROVE  Known(p, WordAt(p, w))'
<1>1. InUnit /\ where = "unit" /\ table \in Tables
  BY InUnitNow DEF MemTestInv, MemTestTypeOK, VerifyUnit
<1>2. PICK n \in Nat, c \in Nat, s \in Nat : n = Chunk /\ c = cnt /\ s = p.startAddr
  BY <1>1, ChunkFits DEF InUnit, Parts
<1>3. PICK u : u = unit
  OBVIOUS
<1>4. ASSUME NEW i1 \in Nat PROVE u + WordSize * i1 = WordAt(p, c + i1) /\ WordAt(p, c + i1) \in Nat
  <2>1. WordSize * (c + i1) = WordSize * c + WordSize * i1 /\ WordSize * c \in Nat /\ WordSize * i1 \in Nat
    BY Times
  <2>2. u = s + WordSize * c
    BY <1>1, <1>2, <1>3, ChunkFits
  <2>3. WordAt(p, c + i1) = s + WordSize * (c + i1)
    BY <1>2 DEF WordAt
  <2>4. PICK x \in Nat, y \in Nat : x = WordSize * c /\ y = WordSize * i1
    BY <2>1
  <2>5. u = s + x /\ u + WordSize * i1 = s + x + y /\ WordAt(p, c + i1) = s + (x + y)
    BY ONLY <2>1, <2>2, <2>3, <2>4
  <2>6. s + x + y = s + (x + y) /\ s + (x + y) \in Nat
    OBVIOUS
  <2>7. QED
    BY <2>5, <2>6, Zenon
<1>5. PICK j \in Nat : w = c + j /\ j \in 0 .. n - 1
  <2>1. w - c \in Nat /\ w = c + (w - c) /\ w - c \in 0 .. n - 1
    BY <1>2
  <2>2. QED
    BY <2>1
<1> DEFINE C == {WordAt(p, x) : x \in c .. c + n - 1}
           a == WordAt(p, w)
<1>6. \A i1 \in 0 .. n - 1 : i1 \in Nat /\ c + i1 \in c .. c + n - 1
  BY <1>2
<1>7. ChunkOf(p, a) = C /\ a \in C
  BY <1>1, <1>2, <1>3, <1>4, <1>5, ChunkOfIs
<1>8. ChunkOf(p, a)' = C
  BY <1>7 DEF ChunkOf
<1>9. Differs(u + WordSize * j, Value)
  BY <1>4, <1>5
<1>10. PICK i1 \in 0 .. n - 1 :
          /\ Differs(u + WordSize * i1, Value)
          /\ \A i2 \in 0 .. n - 1 : Differs(u + WordSize * i2, Value) => i1 <= i2
          /\ \/ i1 = n - 1
             \/ i1 < n - 1 /\ reports' = Append(reports, Long2Hex(u + WordSize * i1 + WordSize))
  BY <1>2, <1>3, <1>5, <1>9, VerifyFinds
<1>11. i1 <= j /\ i1 \in Nat
  BY <1>5, <1>6, <1>9, <1>10
<1>12. CASE i1 = n - 1
  <2>1. w = c + n - 1
    BY <1>2, <1>5, <1>11, <1>12
  <2>2. \A x \in c .. c + n - 1 : WordAt(p, x) <= a
    <3>1. ASSUME NEW x \in c .. c + n - 1 PROVE WordAt(p, x) <= WordAt(p, w)
      <4>1. x \in Nat /\ w \in Nat /\ x <= w
        BY <1>2, <2>1
      <4>2. WordSize * x <= WordSize * w /\ WordSize * x \in Nat /\ WordSize * w \in Nat
        BY <4>1, Times
      <4>3. QED
        BY <1>2, <4>2 DEF WordAt
    <3>2. QED
      BY <3>1
  <2>3. \A b \in C : b <= a /\ b \in Nat
    <3>1. ASSUME NEW x \in c .. c + n - 1 PROVE WordAt(p, x) \in Nat
      <4>1. x \in Nat
        BY <1>2
      <4>2. WordSize * x \in Nat
        BY <4>1, Times
      <4>3. QED
        BY <1>2, <4>2 DEF WordAt
    <3>2. QED
      BY <2>2, <3>1
  <2> HIDE DEF C, a
  <2>4. PICK m : m = Max(C)
    OBVIOUS
  <2>5. m \in C /\ \A y \in C : m >= y
    BY <1>7, <2>3, <2>4 DEF Max
  <2>6. a = m
    BY <1>7, <2>3, <2>5
  <2>7. QED
    BY <1>8, <2>4, <2>6 DEF Known, a
<1>13. CASE i1 < n - 1 /\ reports' = Append(reports, Long2Hex(u + WordSize * i1 + WordSize))
  <2>1. PICK b \in Nat : b = u + WordSize * i1 /\ b = WordAt(p, c + i1)
    BY <1>4, <1>11
  <2>2. b \in C
    BY <1>6, <2>1
  <2>3. b <= a
    <3>1. c + i1 <= w /\ c + i1 \in Nat /\ w \in Nat
      BY ONLY <1>5, <1>11, c \in Nat, j \in Nat
    <3>2. WordSize * (c + i1) <= WordSize * w /\ WordSize * (c + i1) \in Nat /\ WordSize * w \in Nat
      BY <3>1, Times
    <3>3. PICK x \in Nat, y \in Nat : x = WordSize * (c + i1) /\ y = WordSize * w /\ x <= y
      BY <3>2
    <3>4. b = s + x /\ a = s + y
      BY <1>2, <2>1, <3>3 DEF WordAt
    <3>5. QED
      BY <3>3, <3>4
  <2>4. b + WordSize \in Nat /\ b + WordSize < Hex16
    <3>1. PICK m \in DOMAIN table : u + WordSize * i1 + WordSize < table[m].startAddr + table[m].len
      <4>1. i1 + 1 < Chunk
        BY <1>2, <1>11, <1>13
      <4>2. QED
        BY <1>1, <1>3, <1>11, <4>1, WordInSlot
    <3>2. table[m].startAddr \in Nat /\ table[m].len \in Nat /\ table[m].startAddr + table[m].len <= Hex16
      BY <1>1, TableIs DEF AddressesFit
    <3>3. PICK e \in Nat, W \in Nat : e = table[m].startAddr + table[m].len /\ W = WordSize
      BY <3>2, Sizes
    <3>4. b + W < e /\ e <= Hex16
      BY <2>1, <3>1, <3>2, <3>3
    <3>5. b + W \in Nat /\ b + W < Hex16
      BY ONLY <3>4, b \in Nat, W \in Nat, e \in Nat DEF Hex16
    <3>6. QED
      BY <3>3, <3>5
  <2>5. PICK r : r = Long2Hex(b + WordSize)
    OBVIOUS
  <2>6. r \in S
    BY <2>4, <2>5
  <2>7. reports' = Append(reports, r)
    BY <1>13, <2>1, <2>5
  <2>8. reports'[Len(reports) + 1] = r /\ Len(reports) + 1 \in DOMAIN reports'
    BY <2>6, <2>7
  <2>9. ValueOf(r, 16) = b + WordSize
    BY <2>4, <2>5, HexIsTrue
  <2>10. Reported(b)'
    BY <2>8, <2>9 DEF Reported
  <2>11. QED
    BY <1>8, <2>2, <2>3, <2>10 DEF Known
<1> QED
  BY <1>10, <1>12, <1>13

LEMMA FoundStays ==
  ASSUME AddressesFit, MemTestInv, HeldKnown, ReportsKnown, FoundKnown, MemTestNext
  PROVE  FoundKnown'
<1>1. FreeMemArr \in Seq(Parts) /\ Len(FreeMemArr) \in Nat
  BY DEF MemTestInv, MemTestTypeOK
<1>2. CASE Memtest \/ PressKey \/ ShowSlot \/ NoRoomForSlot \/ AddSlot \/ EndOfTable \/ Finish \/ LoopForEver
  <2>1. where' \notin {"unit", "finish"} \/ LoopForEver
    BY <1>2 DEF Memtest, PressKey, ShowSlot, NoRoomForSlot, AddSlot, EndOfTable, Finish
  <2>2. LoopForEver => where' \notin {"unit", "finish"}
    BY DEF LoopForEver, memVars
  <2>3. QED
    BY <2>1, <2>2 DEF FoundKnown
<1>3. CASE CutOffUnder2M
  <2>1. FreeMemArr' = MempartSub(FreeMemArr, Low) /\ part' = NextPart(FreeMemArr', 1) /\ step' = 1 /\ cnt' = 0
        /\ where' = IF part' > Len(FreeMemArr') THEN "finish" ELSE "unit"
    BY <1>3 DEF CutOffUnder2M, Low
  <2>2. PICK arr \in Seq(Parts) : arr = FreeMemArr'
    BY <1>1, <2>1, MempartSubIs
  <2>3. 1 \in 1 .. Len(arr) + 1 /\ Len(arr) \in Nat
    OBVIOUS
  <2>4. PICK q \in 1 .. Len(arr) + 1 : q = part' /\ \A m \in 1 .. q - 1 : arr[m].len = 0
    BY <2>1, <2>2, <2>3, NextPartIs
  <2>5. ASSUME NEW n \in 1 .. Len(arr), NEW w \in 0 .. Words(arr[n]) - 1, NEW v \in {0, 1},
               Seen(n, w, v, q, 1, 0)
        PROVE  FALSE
    <3>1. n \in 1 .. q - 1
      BY <2>3, <2>5 DEF Seen
    <3>2. arr[n].len = 0
      BY <2>4, <3>1
    <3>3. 0 \div WordSize \in Nat /\ 0 \div WordSize <= 0
      BY 0 \in Int, 0 <= 0, 0 >= 0, Quotient, Sizes
    <3>4. QED
      BY <3>2, <3>3 DEF Words
  <2>6. AllKnown'
    <3>1. ASSUME NEW n \in 1 .. Len(arr), NEW w \in 0 .. Words(arr[n]) - 1, NEW v \in {0, 1}
          PROVE  ~ Seen(n, w, v, part, step, cnt)'
      BY <2>1, <2>4, <2>5 DEF Seen
    <3>2. QED
      BY <2>2, <3>1 DEF AllKnown, Words
  <2>7. where' = "unit" => \E k \in Nat : cnt' = (total' \div Chunks) * k
    <3>1. SUFFICES ASSUME where' = "unit" PROVE \E k \in Nat : cnt' = (total' \div Chunks) * k
      OBVIOUS
    <3>2. q \in 1 .. Len(arr)
      BY <2>1, <2>2, <2>3, <2>4, <3>1
    <3>3. arr[q] \in Parts
      BY <3>2, ElementOfSeq
    <3>4. PICK l \in Nat : l = arr[q].len
      BY <3>3 DEF Parts
    <3>5. total' = l \div WordSize
      BY <2>2, <2>4, <3>4 DEF total
    <3>6. PICK t \in Nat : t = total'
      BY <3>5, l \in Int, l >= 0, Quotient, Sizes
    <3>7. PICK d \in Nat : d = t \div Chunks
      BY t \in Int, t >= 0, Quotient, Sizes
    <3>8. d * 0 = 0
      OBVIOUS
    <3>9. QED
      BY <2>1, <3>6, <3>7, <3>8, 0 \in Nat
  <2>8. QED
    BY <2>6, <2>7 DEF FoundKnown
<1>4. CASE WriteUnit \/ VerifyUnit
  <2>1. /\ Advance /\ InUnit /\ where = "unit" /\ where' \in {"unit", "finish"}
        /\ FreeMemArr' = FreeMemArr /\ stuck' = stuck
    BY <1>4, InUnitNow, AdvanceStays DEF MemTestInv, WriteUnit, VerifyUnit, given
  <2>2. PICK k \in Nat : cnt = (total \div Chunks) * k
    BY <2>1 DEF FoundKnown
  <2>3. AllKnown
    BY <2>1 DEF FoundKnown
  <2>4. PICK S : S = {Long2Hex(x) : x \in Nat}
    OBVIOUS
  <2>5. reports \in Seq(S) /\ (reports' = reports \/ \E r \in S : reports' = Append(reports, r))
    <3>1. reports \in Seq(S)
      BY <2>4 DEF ReportsKnown
    <3>2. ASSUME VerifyUnit PROVE reports' = reports \/ \E r \in S : reports' = Append(reports, r)
      <4>1. SUFFICES ASSUME NEW j \in 0 .. Chunk - 1, j < Chunk - 1,
                            reports' = Append(reports, Long2Hex(unit + WordSize * j + WordSize))
                     PROVE  \E r \in S : reports' = Append(reports, r)
        BY <3>2, VerifyFinds
      <4>2. j \in Nat /\ j + 1 < Chunk
        <5>1. Chunk \in Nat
          BY <2>1, ChunkFits
        <5>2. QED
          BY <4>1, <5>1
      <4>3. unit + WordSize * j \in Nat
        BY <2>1, <4>2, WordInSlot
      <4>4. unit + WordSize * j + WordSize \in Nat
        BY <4>3, Sizes
      <4>5. QED
        BY <2>4, <4>1, <4>4
    <3>3. WriteUnit => reports' = reports
      BY DEF WriteUnit
    <3>4. QED
      BY <1>4, <3>1, <3>2, <3>3
  <2>6. ASSUME NEW n \in 1 .. Len(FreeMemArr), NEW w \in 0 .. Words(FreeMemArr[n]) - 1, NEW v \in {0, 1},
               Seen(n, w, v, part', step', cnt'), Differs(WordAt(FreeMemArr[n], w), v)
        PROVE  \A p : p = FreeMemArr[n] => Known(p, WordAt(p, w))'
    <3>1. SUFFICES ASSUME NEW p, p = FreeMemArr[n] PROVE Known(p, WordAt(p, w))'
      OBVIOUS
    <3>2. CASE Seen(n, w, v, part, step, cnt)
      <4>1. Known(p, WordAt(p, w))
        BY <2>3, <2>6, <3>1, <3>2 DEF AllKnown
      <4>2. QED
        BY <2>5, <4>1, KnownKept
    <3>3. CASE n = part /\ step \in {2, 4} /\ v = Value /\ w \in cnt .. cnt + Chunk - 1
      <4>1. VerifyUnit
        BY <1>4, <3>3 DEF WriteUnit, InUnit
      <4>2. Differs(WordAt(p, w), Value)
        BY <2>6, <3>1, <3>3
      <4>3. QED
        BY <2>2, <2>4, <2>5, <3>1, <3>3, <4>1, <4>2, ChunkIsKnown
    <3>4. QED
      BY <2>1, <2>6, <3>2, <3>3, SeenAfter
  <2>7. AllKnown'
    <3>1. SUFFICES ASSUME NEW n \in 1 .. Len(FreeMemArr'), NEW p, p = FreeMemArr'[n],
                          NEW w \in 0 .. Words(p) - 1, NEW v \in {0, 1},
                          Seen(n, w, v, part', step', cnt'), Differs(WordAt(p, w), v)'
                   PROVE  Known(p, WordAt(p, w))'
      BY DEF AllKnown, Seen, Words, WordAt
    <3>2. Differs(WordAt(p, w), v)
      BY <2>1, <3>1 DEF Differs
    <3>3. QED
      BY <2>1, <2>6, <3>1, <3>2
  <2>8. where' = "unit" => \E m \in Nat : cnt' = (total' \div Chunks) * m
    BY <2>1, <2>2, AtAChunk
  <2>9. QED
    BY <2>7, <2>8 DEF FoundKnown
<1> QED
  BY <1>2, <1>3, <1>4 DEF MemTestNext, MemTestStep

FindsInv == MemTestInv /\ HeldKnown /\ ReportsKnown /\ FoundKnown

\* memtest lets no faulty word go unnoticed, but the last of a chunk and those behind one of the
\* chunk that it reports, for every division of the parts into chunks.
THEOREM FaultsAreFound ==
  ASSUME AddressesFit
  PROVE  MemTestSpec => []MissesLittle
<1>1. MemTestInit => FindsInv
  <2>1. SUFFICES ASSUME MemTestInit PROVE FindsInv
    OBVIOUS
  <2>2. where = "prompt" /\ reports = <<>> /\ error = 0 /\ countShown = <<>>
    BY <2>1 DEF MemTestInit
  <2>3. HeldKnown /\ ReportsKnown /\ FoundKnown
    BY <2>2 DEF HeldKnown, ReportsKnown, FoundKnown
  <2>4. QED
    BY <2>1, <2>3, Starts DEF FindsInv
<1>2. FindsInv /\ [MemTestNext]_memVars => FindsInv'
  <2>1. SUFFICES ASSUME FindsInv, [MemTestNext]_memVars PROVE FindsInv'
    OBVIOUS
  <2>2. MemTestInv /\ HeldKnown /\ ReportsKnown /\ FoundKnown
    BY <2>1 DEF FindsInv
  <2>3. CASE MemTestNext
    <3>1. MemTestInv'
      BY <2>2, <2>3, TypeStays, ListStays, OnlyTestableStays, WalkStays DEF MemTestInv
    <3>2. HeldKnown' /\ ReportsKnown' /\ FoundKnown'
      BY <2>2, <2>3, HeldStays, ReportsStay, FoundStays
    <3>3. QED
      BY <3>1, <3>2 DEF FindsInv
  <2>4. CASE UNCHANGED memVars
    <3>1. MemTestInv' /\ HeldKnown' /\ ReportsKnown'
      BY <2>2, <2>4, Stutters, ReportsStutter
    <3>2. UNCHANGED <<FreeMemArr, stuck, reports, part, step, cnt, where>>
      BY <2>4 DEF memVars, given, place
    <3>3. AllKnown => AllKnown'
      <4>1. /\ \A p, w : ChunkOf(p, WordAt(p, w))' = ChunkOf(p, WordAt(p, w)) /\ WordAt(p, w)' = WordAt(p, w)
            /\ \A p : Words(p)' = Words(p)
        BY DEF ChunkOf, WordAt, Words
      <4>2. /\ \A a, v : Differs(a, v)' <=> Differs(a, v)
            /\ \A a : Reported(a)' <=> Reported(a)
        BY <3>2 DEF Differs, Reported
      <4>3. \A p, w : Known(p, WordAt(p, w))' <=> Known(p, WordAt(p, w))
        BY <4>1, <4>2 DEF Known
      <4>4. QED
        BY <3>2, <4>1, <4>2, <4>3 DEF AllKnown, Seen
    <3>4. FoundKnown'
      BY <2>2, <3>2, <3>3 DEF FoundKnown, total
    <3>5. QED
      BY <3>1, <3>4 DEF FindsInv
  <2>5. QED
    BY <2>1, <2>3, <2>4
<1>3. FindsInv => MissesLittle
  <2>1. SUFFICES ASSUME FindsInv, where = "finish",
                        NEW n \in DOMAIN FreeMemArr, NEW w \in 0 .. FreeMemArr[n].len \div WordSize - 1,
                        FaultyWord(WordAt(FreeMemArr[n], w))
                 PROVE  Known(FreeMemArr[n], WordAt(FreeMemArr[n], w))
    BY DEF MissesLittle, WordAt, Known
  <2>2. MemTestTypeOK /\ AllKnown /\ part = Len(FreeMemArr) + 1
    BY <2>1 DEF FindsInv, MemTestInv, FoundKnown, WalkKnown
  <2>3. n \in 1 .. Len(FreeMemArr) /\ w \in 0 .. Words(FreeMemArr[n]) - 1 /\ n < part
    BY <2>2 DEF MemTestTypeOK, Words
  <2>4. PICK v \in {0, 1} : Differs(WordAt(FreeMemArr[n], w), v)
    <3>1. PICK b \in WordAt(FreeMemArr[n], w) .. WordAt(FreeMemArr[n], w) + WordSize - 1 : b \in DOMAIN stuck
      BY <2>1 DEF FaultyWord
    <3>2. stuck[b] \in {0, 1}
      BY <2>2, <3>1 DEF MemTestTypeOK
    <3>3. PICK v \in {0, 1} : stuck[b] # v
      BY <3>2
    <3>4. QED
      BY <3>1, <3>3 DEF Differs
  <2>5. Seen(n, w, v, part, step, cnt)
    BY <2>3 DEF Seen
  <2>6. QED
    BY <2>2, <2>3, <2>4, <2>5 DEF AllKnown
<1> QED
  BY <1>1, <1>2, <1>3, PTL DEF MemTestSpec
=============================================================================
