----------------------------- MODULE MemRegions -----------------------------
(***************************************************************************)
(* The memory map and allocator of the m68k emulator (m68k/amiga/mem.c).     *)
(* s->memory is a list of memories sorted by address, and each has a list of *)
(* free regions sorted by address; both are sequences here.  amiga_init *)
(* sets them up; a program loader would allocate and free, in whole or part. *)
(***************************************************************************)
EXTENDS Naturals, SequencesExt, FiniteSetsExt

CONSTANTS
    Layout,         \* the memories amiga_init creates, [start, bytes]
    ReservedBytes,  \* what it reserves at address 0 for stacks
    Sizes           \* bound: the sizes asked for

\* The memories of the map are apart.
ASSUME LayoutAssumption ==
    /\ Layout \subseteq [start : Nat, bytes : Nat \ {0}]
    /\ \A x, y \in Layout : \/ x = y
                            \/ x.start + x.bytes <= y.start
                            \/ y.start + y.bytes <= x.start
    /\ ReservedBytes \in Nat \ {0} /\ Sizes \subseteq Nat \ {0}

VARIABLES
    memory,         \* sequence of [start, end, free], free a sequence of
                    \* regions [start, end]
    used,           \* history: the addresses allocated and not yet freed
    result          \* what the last mem_alloc returned; 0 is failure

vars == <<memory, used, result>>

Region(a, n) == [start |-> a, end |-> a + n - 1]

\* find_memory: the first memory that does not end before the range does, if it
\* holds the start of the range too; 0 for NULL.
FindMemory(a, n) ==
    LET m == SelectInSeq(memory, LAMBDA x : x.end >= a + n - 1)
    IN  IF m # 0 /\ memory[m].start <= a THEN m ELSE 0

SetFree(m, regions) == memory' = [memory EXCEPT ![m].free = regions]

\* Mutant of Cut: the last byte of the range stays free.
Cut_Short(regions, r, range) ==
    LET x == regions[r]
        front  == IF x.start < range.start
                  THEN <<[x EXCEPT !.end = range.start - 1]>> ELSE <<>>
        behind == IF range.end <= x.end
                  THEN <<[x EXCEPT !.start = range.end]>> ELSE <<>>
    IN  SubSeq(regions, 1, r - 1) \o (front \o behind) \o SubSeq(regions, r + 1, Len(regions))

\* Cut the range out of region r of a list: what is left in front and behind.
Cut(regions, r, range) ==
    LET x == regions[r]
        front  == IF x.start < range.start
                  THEN <<[x EXCEPT !.end = range.start - 1]>> ELSE <<>>
        behind == IF range.end < x.end
                  THEN <<[x EXCEPT !.start = range.end + 1]>> ELSE <<>>
    IN  SubSeq(regions, 1, r - 1) \o (front \o behind) \o SubSeq(regions, r + 1, Len(regions))

\* The first region that does not end before address a, or the end of the list.
From(regions, a) ==
    LET next == SelectInSeq(regions, LAMBDA x : x.end >= a)
    IN  IF next = 0 THEN Len(regions) + 1 ELSE next

\* Mutant of Join: the range joins the region behind it only.
Join_NoFront(regions, range) ==
    LET r      == From(regions, range.start)
        behind == r <= Len(regions) /\ regions[r].start = range.end + 1
        joined == [range EXCEPT !.end = IF behind THEN regions[r].end ELSE @]
    IN  SubSeq(regions, 1, r - 1)
        \o <<joined>> \o SubSeq(regions, IF behind THEN r + 1 ELSE r, Len(regions))

\* Put the range into a list, joined with the region behind it and with the one
\* in front of it.
Join(regions, range) ==
    LET r      == From(regions, range.start)
        behind == r <= Len(regions) /\ regions[r].start = range.end + 1
        front  == r > 1 /\ regions[r - 1].end + 1 >= range.start
        joined == [start |-> IF front THEN regions[r - 1].start ELSE range.start,
                   end   |-> IF behind THEN regions[r].end ELSE range.end]
    IN  SubSeq(regions, 1, IF front THEN r - 2 ELSE r - 1)
        \o <<joined>> \o SubSeq(regions, IF behind THEN r + 1 ELSE r, Len(regions))

-----------------------------------------------------------------------------
Init == memory = <<>> /\ used = {} /\ result = 0

\* mem_init: all of the new memory is free.
MemInit(a, n) ==
    LET m    == [start |-> a, end |-> a + n - 1, free |-> <<Region(a, n)>>]
        next == SelectInSeq(memory, LAMBDA x : x.start >= a)
    IN  /\ [start |-> a, bytes |-> n] \in Layout
        /\ \A i \in DOMAIN memory : memory[i].start # a
        /\ memory' = InsertAt(memory, IF next = 0 THEN Len(memory) + 1 ELSE next, m)
        /\ UNCHANGED <<used, result>>

\* mem_reserve, which amiga_init calls for the stacks once the memories are there.
MemReserve(a, n) ==
    /\ Len(memory) = Cardinality(Layout)
    /\ FindMemory(a, n) # 0
    /\ LET m == FindMemory(a, n)
           r == SelectInSeq(memory[m].free, LAMBDA x : x.end >= a)
       IN  /\ r # 0 /\ memory[m].free[r].start <= a
           /\ memory[m].free[r].end >= a + n - 1
           /\ SetFree(m, Cut(memory[m].free, r, Region(a, n)))
    /\ used' = used \cup a .. (a + n - 1)
    /\ UNCHANGED result

Booted == 0 \in used

\* Mutant of MemAlloc: a region of just the size is passed over.
MemAlloc_Larger(m, n) ==
    /\ Booted
    /\ LET free == memory[m].free
           r    == SelectInSeq(free, LAMBDA x : x.end - x.start >= n)
       IN  IF r = 0 THEN result' = 0 /\ UNCHANGED <<memory, used>>
           ELSE /\ result' = free[r].start
                /\ SetFree(m, Cut(free, r, Region(free[r].start, n)))
                /\ used' = used \cup result' .. (result' + n - 1)

\* mem_alloc: first fit.
MemAlloc(m, n) ==
    /\ Booted
    /\ LET free == memory[m].free
           r    == SelectInSeq(free, LAMBDA x : x.end - x.start + 1 >= n)
       IN  IF r = 0 THEN result' = 0 /\ UNCHANGED <<memory, used>>
           ELSE /\ result' = free[r].start
                /\ SetFree(m, Cut(free, r, Region(free[r].start, n)))
                /\ used' = used \cup result' .. (result' + n - 1)

\* mem_free, of memory that was allocated.
MemFree(a, n) ==
    /\ Booted
    /\ (a .. (a + n - 1)) \subseteq used \ (0 .. (ReservedBytes - 1))
    /\ FindMemory(a, n) # 0
    /\ LET m == FindMemory(a, n)
       IN  SetFree(m, Join(memory[m].free, Region(a, n)))
    /\ used' = used \ (a .. (a + n - 1))
    /\ UNCHANGED result

Addresses == UNION {x.start .. (x.start + x.bytes - 1) : x \in Layout}

Next ==
    \/ \E x \in Layout : MemInit(x.start, x.bytes)
    \/ ~Booted /\ MemReserve(0, ReservedBytes)
    \/ \E n \in Sizes :
         \/ \E m \in DOMAIN memory : MemAlloc(m, n)
         \/ \E a \in Addresses : MemFree(a, n) \/ (Booted /\ MemReserve(a, n))

Spec == Init /\ [][Next]_vars

-----------------------------------------------------------------------------
FreeOf(m) == UNION {x.start .. x.end : x \in ToSet(memory[m].free)}
FreeSet == UNION {FreeOf(m) : m \in DOMAIN memory}

\* Free regions are in order of address and never touch: a freed range is joined
\* with both its neighbours, so a later request is not refused for want of joining.
\* Every address is free or in use, and not both: no sequence of reservations,
\* allocations and partial frees leaks memory or hands it out twice.
FreeListsSound ==
    /\ \A m \in DOMAIN memory : LET free == memory[m].free IN
         /\ \A r \in DOMAIN free : free[r].start <= free[r].end
         /\ \A r \in 1..(Len(free) - 1) : free[r].end + 1 < free[r + 1].start
    /\ FreeSet \cap used = {}
    /\ FreeSet \cup used = UNION {memory[m].start .. memory[m].end : m \in DOMAIN memory}

\* mem_alloc reports failure, which it does by address 0, only when the memory
\* has no run of free bytes of that size.
RefusedOnlyWhenFull ==
    [][\A m \in DOMAIN memory, n \in Sizes :
         MemAlloc(m, n) /\ result' = 0 =>
             \A a \in FreeOf(m) : ~(a .. (a + n - 1) \subseteq FreeOf(m))]_vars

\* The lists keep the promise of module FreeBytes.
Promise == INSTANCE FreeBytes WITH free <- FreeSet,
               Sizes <- Sizes \cup {x.bytes : x \in Layout} \cup {ReservedBytes}
ImplementsFreeBytes == Promise!FSpec
=============================================================================
