--------------------------- MODULE ProcessMemory ----------------------------
(***************************************************************************)
(* The memory a process asks for (process.cpp, memory.cpp and ControlMemory*)
(* of svc.cpp).  Addresses 0 .. HeapPages - 1 are the heap, then comes a   *)
(* page that is neither, then the linear heap, where the page of frame f   *)
(* is at LinearHeapBase + f.  All processes take from one memory region.   *)
(* A failed call that changes nothing is not a step.                       *)
(***************************************************************************)
EXTENDS VMManager, FiniteSetsExt

CONSTANTS
  Processes,
  HeapPages,      \* of the heap of a process
  Fcram,          \* pages of the memory region
  AllocPerms,     \* permissions asked for with new memory and with Map
  UnmapPerms,     \* permissions asked for with Unmap
  ProtectPerms,   \* permissions asked for with Protect
  Careful         \* the program frees what it was given, unmaps what it mapped
                  \* and maps nothing into the linear heap

ProcessMemoryAssumption ==
  /\ HeapPages \in Nat \ {0} /\ Fcram \in Nat \ {0}
  /\ MAX_ADDRESS = HeapPages + 1 + Fcram
  /\ AllocPerms \cup UnmapPerms \cup ProtectPerms \subseteq SUBSET {"R", "W"}
  /\ Careful \in BOOLEAN

VARIABLES
  vma_map,          \* of each process
  free_blocks,      \* frames of the region that nobody has
  holding_memory,   \* frames of each process
  memory_used,      \* pages of each process
  committed,        \* current value of the resource limit, type Commit
  crash             \* the assertion that ended the program, or "none"

vars == <<vma_map, free_blocks, holding_memory, memory_used, committed, crash>>

LinearHeapBase == HeapPages + 1
Heap == 0 .. HeapPages - 1
Linear == LinearHeapBase .. MAX_ADDRESS - 1
Frames == 0 .. Fcram - 1
Pages(a, n) == a .. a + n - 1
At(p, a) == PageAt(vma_map[p], a)

TypeOK ==
  /\ \A p \in Processes : \A v \in vma_map[p] :
       /\ v.base \in 0 .. MAX_ADDRESS - 1 /\ v.size \in 1 .. MAX_ADDRESS
       /\ v.perms \in SUBSET {"R", "W"}
       /\ v.state \in {"Free", "Private", "Continuous", "Aliased", "Alias", "AliasCode", "Locked"}
       /\ v.backing \in IF v.state = "Free" THEN {-1} ELSE Frames
  /\ free_blocks \subseteq Frames
  /\ holding_memory \in [Processes -> SUBSET Frames]
  /\ memory_used \in [Processes -> Int] /\ committed \in Int
  /\ crash \in {"none", "Free", "LinearAllocate"}

Init ==
  /\ vma_map = [p \in Processes |-> EmptyMap]
  /\ free_blocks = Frames
  /\ holding_memory = [p \in Processes |-> {}]
  /\ memory_used = [p \in Processes |-> 0]
  /\ committed = 0
  /\ crash = "none"

Asserts(a) == crash' = a /\ UNCHANGED <<vma_map, free_blocks, holding_memory, memory_used, committed>>

\* The process has frames F more.
Holds(p, F) ==
  /\ free_blocks' = free_blocks \ F
  /\ holding_memory' = [holding_memory EXCEPT ![p] = @ \cup F]
  /\ memory_used' = [memory_used EXCEPT ![p] = @ + Cardinality(F)]
  /\ committed' = committed + Cardinality(F)
  /\ UNCHANGED crash

\* MemoryRegionInfo::Free of frames F, and what the process counts.
GivesBack(p, F) ==
  /\ free_blocks' = free_blocks \cup F
  /\ holding_memory' = [holding_memory EXCEPT ![p] = @ \ F]
  /\ memory_used' = [memory_used EXCEPT ![p] = @ - Cardinality(F)]
  /\ committed' = committed - Cardinality(F)
  /\ UNCHANGED crash

\* MemoryRegionInfo::HeapAllocate: from the higher address, in several blocks if need be.
HighestFree(size) ==
  CHOOSE F \in kSubset(size, free_blocks) : \A f \in F, g \in free_blocks \ F : f > g

\* MemoryRegionInfo::LinearAllocate: the first sufficient block from the lower address.
LowestFit(size) ==
  LET fits == {f \in Frames : Pages(f, size) \subseteq free_blocks} IN {f \in fits : f = Min(fits)}

Blocks(F) ==
  LET starts == SetToSortSeq({f \in F : f - 1 \notin F}, <)
      length(f) == Cardinality({g \in F : g >= f /\ f .. g \subseteq F})
  IN [i \in DOMAIN starts |-> [frame |-> starts[i], size |-> length(starts[i])]]

\* Maps the blocks one after another from target on; the area that a block becomes part of is
\* reprotected.
MappedBlocks(M, target, blocks, state, perms) ==
  LET step(acc, b) ==
        [map |-> Reprotect(MapBackingMemory(acc.map, acc.at, b.frame, b.size, state), acc.at, perms),
         at |-> acc.at + b.size]
  IN FoldLeft(step, [map |-> M, at |-> target], blocks).map

HeapAllocate(p, target, size, perms) ==
  /\ Pages(target, size) \subseteq Heap
  /\ CanCarveVMA(vma_map[p], target, size)
  /\ size <= Cardinality(free_blocks)
  /\ LET F == HighestFree(size)
     IN /\ vma_map' = [vma_map EXCEPT ![p] = MappedBlocks(@, target, Blocks(F), "Private", perms)]
        /\ Holds(p, F)

\* The state of the pages is not looked at.
HeapFree(p, target, size) ==
  /\ Pages(target, size) \subseteq Heap
  /\ CanCarveVMARange(vma_map[p], target, size)
  /\ Careful => \A a \in Pages(target, size) : At(p, a).state = "Private"
  /\ LET F == {At(p, a).frame : a \in Pages(target, size)}
     IN IF F \cap free_blocks # {} \/ Cardinality(F) # size
        THEN Asserts("Free")
        ELSE /\ vma_map' = [vma_map EXCEPT ![p] = UnmapRange(@, target, size)]
             /\ GivesBack(p, F)

LinearAllocateAt(p, offset, size, perms) ==
  LET target == LinearHeapBase + offset
      F == Pages(offset, size)
  IN IF ~CanCarveVMA(vma_map[p], target, size)
     THEN Asserts("LinearAllocate")
     ELSE /\ vma_map' = [vma_map EXCEPT ![p] = MappedBlocks(@, target, Blocks(F), "Continuous", perms)]
          /\ Holds(p, F)

LinearAllocate(p, size, perms) ==
  \E offset \in LowestFit(size) : LinearAllocateAt(p, offset, size, perms)

LinearAllocateTarget(p, target, size, perms) ==
  /\ Pages(target, size) \subseteq Linear
  /\ Pages(target - LinearHeapBase, size) \subseteq free_blocks
  /\ LinearAllocateAt(p, target - LinearHeapBase, size, perms)

LinearFree(p, target, size) ==
  /\ Pages(target, size) \subseteq Linear
  /\ CanCarveVMARange(vma_map[p], target, size)
  /\ Careful => \A a \in Pages(target, size) : At(p, a).state = "Continuous"
  /\ LET F == Pages(target - LinearHeapBase, size)
     IN IF F \cap free_blocks # {}
        THEN Asserts("Free")
        ELSE /\ vma_map' = [vma_map EXCEPT ![p] = UnmapRange(@, target, size)]
             /\ GivesBack(p, F)

\* Faulty: the source is not marked.
SourceUnmarked(privileged) == "Private"

\* The state of the source of a Map, and what it may be accessed for.
SourceState(privileged) == IF privileged THEN "Locked" ELSE "Aliased"
SourcePerms(privileged) == IF privileged THEN {} ELSE {"R", "W"}
TargetState(privileged) == IF privileged THEN "AliasCode" ELSE "Alias"

Disjoint(target, source, size) == Pages(target, size) \cap Pages(source, size) = {}

Map(p, target, source, size, perms, privileged) ==
  /\ privileged \/ Pages(source, size) \subseteq Heap
  /\ Disjoint(target, source, size)
  /\ Careful => Pages(target, size) \cap Linear = {}
  /\ CanCarveVMA(vma_map[p], target, size)
  /\ CanChangeMemoryState(vma_map[p], source, size, "Private", {"R", "W"})
  /\ LET marked == ChangeMemoryState(vma_map[p], source, size, SourceState(privileged), SourcePerms(privileged))
         blocks == GetBackingBlocksForRange(marked, source, size)
     IN vma_map' = [vma_map EXCEPT ![p] =
                      MappedBlocks(marked, target, blocks, TargetState(privileged), perms)]
  /\ UNCHANGED <<free_blocks, holding_memory, memory_used, committed, crash>>

\* The privileged Map and Unmap of a range to itself.
MapSelf(p, target, size, perms) ==
  /\ CanChangeMemoryState(vma_map[p], target, size, "Private", {"R", "W"})
  /\ vma_map' = [vma_map EXCEPT ![p] = ChangeMemoryState(@, target, size, "AliasCode", perms)]
  /\ UNCHANGED <<free_blocks, holding_memory, memory_used, committed, crash>>

UnmapSelf(p, target, size, perms) ==
  /\ CanChangeMemoryState(vma_map[p], target, size, "AliasCode", {})
  /\ Careful => \A a \in Pages(target, size), b \in 0 .. MAX_ADDRESS - 1 :
                  a # b => At(p, b).frame # At(p, a).frame
  /\ vma_map' = [vma_map EXCEPT ![p] = ChangeMemoryState(@, target, size, "Private", perms)]
  /\ UNCHANGED <<free_blocks, holding_memory, memory_used, committed, crash>>

IsPair(p, target, source, size) ==
  \A i \in 0 .. size - 1 :
    /\ At(p, target + i).frame = At(p, source + i).frame
    /\ At(p, target + i).state \in {"Alias", "AliasCode"}

\* What was the target is gone even when the source turns out not to be one.
Unmap(p, target, source, size, perms, privileged) ==
  /\ privileged \/ Pages(source, size) \subseteq Heap
  /\ Disjoint(target, source, size)
  /\ CanCarveVMARange(vma_map[p], target, size)
  /\ Careful => /\ IsPair(p, target, source, size)
                /\ \A a \in Pages(source, size) : At(p, a).state = SourceState(privileged)
  /\ LET gone == UnmapRange(vma_map[p], target, size)
     IN vma_map' = [vma_map EXCEPT ![p] =
          IF CanChangeMemoryState(gone, source, size, SourceState(privileged), {})
          THEN ChangeMemoryState(gone, source, size, "Private", perms) ELSE gone]
  /\ UNCHANGED <<free_blocks, holding_memory, memory_used, committed, crash>>

\* ControlMemory, MEMOP_PROTECT
Protect(p, target, size, perms) ==
  /\ CanCarveVMARange(vma_map[p], target, size)
  /\ vma_map' = [vma_map EXCEPT ![p] = ReprotectRange(@, target, size, perms)]
  /\ UNCHANGED <<free_blocks, holding_memory, memory_used, committed, crash>>

\* ~Process, FreeAllMemory; a new process takes its place.
Exit(p) ==
  IF holding_memory[p] \cap free_blocks # {}
  THEN Asserts("Free")
  ELSE /\ vma_map' = [vma_map EXCEPT ![p] = EmptyMap]
       /\ free_blocks' = free_blocks \cup holding_memory[p]
       /\ holding_memory' = [holding_memory EXCEPT ![p] = {}]
       /\ memory_used' = [memory_used EXCEPT ![p] = 0]
       /\ committed' = committed - Cardinality(holding_memory[p])
       /\ UNCHANGED crash

Sizes == 1 .. MAX_ADDRESS
Starts(n) == 0 .. MAX_ADDRESS - n

Next ==
  /\ crash = "none"
  /\ \E p \in Processes :
       \/ Exit(p)
       \/ \E n \in Sizes : \E perms \in AllocPerms : LinearAllocate(p, n, perms)
       \/ \E n \in Sizes : \E t \in Starts(n) :
            \/ HeapFree(p, t, n)
            \/ LinearFree(p, t, n)
            \/ \E perms \in AllocPerms :
                 \/ HeapAllocate(p, t, n, perms)
                 \/ LinearAllocateTarget(p, t, n, perms)
                 \/ MapSelf(p, t, n, perms)
                 \/ \E s \in Starts(n), privileged \in BOOLEAN : Map(p, t, s, n, perms, privileged)
            \/ \E perms \in ProtectPerms : Protect(p, t, n, perms)
            \/ \E perms \in UnmapPerms :
                 \/ UnmapSelf(p, t, n, perms)
                 \/ \E s \in Starts(n), privileged \in BOOLEAN : Unmap(p, t, s, n, perms, privileged)

Spec == Init /\ [][Next]_vars

-----------------------------------------------------------------------------

(* The areas of a map follow one another from address 0 to the last, with neither gap nor     *)
(* overlap, through every split and merge (vm_manager.h: elem.base + elem.size == next.base). *)
Tiling ==
  \A p \in Processes : \A a \in 0 .. MAX_ADDRESS - 1 :
    Cardinality({v \in vma_map[p] : v.base <= a /\ a < End(v)}) = 1

(* No two areas of a map that follow one another could be one (vm_manager.h: mergeable        *)
(* regions must always be merged).                                                            *)
Merged ==
  \A p \in Processes : \A v, w \in vma_map[p] : End(v) = w.base => ~CanBeMergedWith(v, w)

(* A process holds exactly the frames its address space shows, none of them is free or held   *)
(* by another, and the three counts of pages (of the region, the process and the resource     *)
(* limit) agree: of a careful program, through aliases, partial frees and exits.              *)
HoldsWhatItMaps ==
  crash = "none" =>
    /\ \A p \in Processes :
         /\ holding_memory[p] = {At(p, a).frame : a \in 0 .. MAX_ADDRESS - 1} \ {-1}
         /\ memory_used[p] = Cardinality(holding_memory[p])
         /\ holding_memory[p] \cap free_blocks = {}
         /\ \A q \in Processes \ {p} : holding_memory[p] \cap holding_memory[q] = {}
    /\ committed = MapThenSumSet(LAMBDA p : memory_used[p], Processes)
    /\ committed + Cardinality(free_blocks) = Fcram

(* A page is at two addresses of a careful program only as the source and the target of a Map, *)
(* so that to free what is Private takes no page away that is seen elsewhere.                   *)
PrivateSeenOnce ==
  \A p \in Processes : \A a, b \in 0 .. MAX_ADDRESS - 1 :
    a # b /\ At(p, a).state \in {"Private", "Continuous"} => At(p, b).frame # At(p, a).frame

(* memory.cpp, Free: "must be allocated blocks".                                               *)
FreesAllocated == crash # "Free"

(* process.cpp, LinearAllocate: the place of the frames found is free in the address space.    *)
LinearPlaceFree == crash # "LinearAllocate"

(* Every call changes the pages of its own ranges only, and gives a page that nobody had.      *)
Abstract == INSTANCE AddressSpace WITH
  Processes <- Processes, Addresses <- 0 .. MAX_ADDRESS - 1, Frames <- Frames,
  page <- [p \in Processes |-> [a \in 0 .. MAX_ADDRESS - 1 |-> At(p, a)]], free <- free_blocks
RefinesAddressSpace == Abstract!Spec

=============================================================================
