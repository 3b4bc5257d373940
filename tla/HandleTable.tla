---------------------------- MODULE HandleTable ----------------------------
(***************************************************************************)
(* The handle table of a process.  A handle is a slot and a generation.    *)
(* The generations of the free slots are the links of the free list, and   *)
(* the counter of generations wraps.  The widths of slot and generation    *)
(* are parameters (2^16 and 2^15 in the code); a handle has one bit more   *)
(* than a generation and a slot take, and GetSlot drops it.                *)
(*                                                                         *)
(* Objects count against a resource limit while they exist; Reserve and    *)
(* Release never refuse.                                                   *)
(***************************************************************************)
EXTENDS Integers, FiniteSets, SequencesExt

CONSTANTS
  MAX_COUNT,      \* slots of the table
  SlotValues,     \* values of a u16, more than MAX_COUNT
  Generations,    \* values of the generation field
  Objects,        \* kernel objects, each may be created again after it was destroyed
  Creations,      \* bound: handles that are created
  Refusals,       \* bound: objects whose creation fails after Reserve
  Null

ASSUME TableAssumption ==
  /\ MAX_COUNT \in Nat /\ SlotValues \in Nat /\ MAX_COUNT < SlotValues
  /\ Generations \in Nat /\ Generations > 2 /\ MAX_COUNT < Generations
  /\ Creations \in Nat /\ Refusals \in Nat /\ Null \notin Objects

Slots == 0 .. MAX_COUNT - 1

VARIABLES
  objects, generations, next_generation, next_free_slot,
  m_current_value,   \* of the resource limit
  free,              \* history: the free slots in the order of the list
  issued,            \* history: the handles Create returned, with their numbers
  refusals,          \* refusals so far
  alive              \* the process, which owns the table, exists

table == <<objects, generations, next_generation, next_free_slot>>
table_vars == <<table, m_current_value, free, issued, refusals, alive>>

TableTypeOK ==
  /\ objects \in [Slots -> Objects \cup {Null}]
  /\ generations \in [Slots -> 0 .. Generations - 1]
  /\ next_generation \in 1 .. Generations - 1
  /\ next_free_slot \in 0 .. MAX_COUNT
  /\ free \in Seq(Slots)

\* Clear, which does not touch next_generation
Cleared == [slot \in Slots |-> slot + 1]
AllFree == [i \in 1 .. MAX_COUNT |-> i - 1]

TableInit ==
  /\ objects = [slot \in Slots |-> Null]
  /\ generations = Cleared
  /\ next_generation = 1
  /\ next_free_slot = 0
  /\ m_current_value = 0
  /\ free = AllFree
  /\ issued = <<>> /\ refusals = 0 /\ alive = TRUE

-----------------------------------------------------------------------------
(* Handles *)

MakeHandle(slot, generation) == generation + slot * Generations

Handles == 0 .. 2 * SlotValues * Generations - 1

GetSlot(h) == (h \div Generations) % SlotValues

GetGeneration(h) == h % Generations

IsValid(h) ==
  LET slot == GetSlot(h)
  IN slot < MAX_COUNT /\ objects[slot] # Null /\ generations[slot] = GetGeneration(h)

\* The objects some handle refers to
Referenced == {objects[slot] : slot \in Slots} \ {Null}

\* Faulty: the counter starts again one early
NextGenerationEarly(g) == IF g + 2 >= Generations THEN 1 ELSE g + 1

NextGeneration(g) == IF g + 1 >= Generations THEN 1 ELSE g + 1

\* HandleTable::Create with a free slot
Insert(o) ==
  /\ next_free_slot' = generations[next_free_slot]
  /\ generations' = [generations EXCEPT ![next_free_slot] = next_generation]
  /\ objects' = [objects EXCEPT ![next_free_slot] = o]
  /\ next_generation' = NextGeneration(next_generation)
  /\ issued' = Append(issued, MakeHandle(next_free_slot, next_generation))
  /\ free' = Tail(free)

MayCreate == Len(issued) < Creations

\* An SVC that creates an object: Reserve, the object, a handle.  Without a free slot the
\* object is destroyed again, and gives back what it reserved.
Create(o) ==
  /\ MayCreate /\ o \notin Referenced
  /\ next_free_slot < MAX_COUNT
  /\ Insert(o)
  /\ m_current_value' = m_current_value + 1
  /\ UNCHANGED <<refusals, alive>>

\* CreateSemaphore or CreateThread with arguments that are refused after Reserve
CreateFails ==
  /\ refusals < Refusals
  /\ refusals' = refusals + 1
  /\ m_current_value' = m_current_value + 1
  /\ UNCHANGED <<table, free, issued, alive>>

Duplicate(h) ==
  /\ MayCreate /\ IsValid(h)
  /\ next_free_slot < MAX_COUNT
  /\ Insert(objects[GetSlot(h)])
  /\ UNCHANGED <<m_current_value, refusals, alive>>

\* Destructors of the objects that no handle refers to any more
DestroyUnreferenced ==
  m_current_value' = m_current_value - Cardinality(Referenced \ Referenced')

\* Faulty: the closed slot forgets the rest of the free list
CloseUnlinked(h) ==
  LET slot == GetSlot(h)
  IN /\ IsValid(h)
     /\ objects' = [objects EXCEPT ![slot] = Null]
     /\ next_free_slot' = slot
     /\ free' = <<slot>> \o free
     /\ DestroyUnreferenced
     /\ UNCHANGED <<generations, next_generation, issued, refusals, alive>>

Close(h) ==
  LET slot == GetSlot(h)
  IN /\ IsValid(h)
     /\ objects' = [objects EXCEPT ![slot] = Null]
     /\ generations' = [generations EXCEPT ![slot] = next_free_slot]
     /\ next_free_slot' = slot
     /\ free' = <<slot>> \o free
     /\ DestroyUnreferenced
     /\ UNCHANGED <<next_generation, issued, refusals, alive>>

\* The process is destroyed
Clear ==
  /\ objects' = [slot \in Slots |-> Null]
  /\ generations' = Cleared
  /\ next_free_slot' = 0
  /\ free' = AllFree
  /\ alive' = FALSE
  /\ DestroyUnreferenced
  /\ UNCHANGED <<next_generation, issued, refusals>>

-----------------------------------------------------------------------------
TableNext ==
  /\ alive
  /\ \/ \E o \in Objects : Create(o)
     \/ CreateFails
     \/ \E h \in Handles : Duplicate(h) \/ Close(h)
     \/ Clear

TableSpec == TableInit /\ [][TableNext]_table_vars

-----------------------------------------------------------------------------
(* The free list, which is threaded through the generations of the free slots, holds every    *)
(* free slot once and ends at MAX_COUNT: Create never takes a slot in use and fails only      *)
(* when the table is full.                                                                    *)
FreeListLinked ==
  /\ \A i, j \in 1 .. Len(free) : free[i] = free[j] => i = j
  /\ \A slot \in Slots : objects[slot] = Null <=> \E i \in 1 .. Len(free) : free[i] = slot
  /\ next_free_slot = IF free = <<>> THEN MAX_COUNT ELSE free[1]
  /\ \A i \in 1 .. Len(free) :
       generations[free[i]] = IF i = Len(free) THEN MAX_COUNT ELSE free[i + 1]

\* The handle returned last for a slot is the only one that may be valid for it
Latest(k) ==
  \A j \in k + 1 .. Len(issued) : GetSlot(issued[j]) # GetSlot(issued[k])

(* "To prevent accidental use of a freed Handle whose slot has already been reused": no       *)
(* handle but the last one of its slot is valid.                                              *)
StaleHandlesInvalid ==
  \A k \in 1 .. Len(issued) : IsValid(issued[k]) => Latest(k)

(* The same handle is returned again only after every other generation was used.              *)
HandlesRepeatLate ==
  \A j, k \in 1 .. Len(issued) :
    j < k /\ issued[j] = issued[k] => k - j >= Generations - 1

(* A handle is valid only if Create returned it ("bits 31:15" of a handle are its slot).      *)
OnlyIssuedValid == \A h \in Handles : IsValid(h) => h \in Range(issued)

(* The same for handles that leave the bit that GetSlot drops clear.                          *)
IssuedUnlessHighBit ==
  \A h \in Handles : IsValid(h) /\ h < SlotValues * Generations => h \in Range(issued)

(* The resource limit counts the objects that exist, each once however many handles it has.   *)
ResourcesCounted == m_current_value = Cardinality(Referenced)

(* The same for what was reserved: nothing is given back twice, and a reservation is lost     *)
(* only with an object whose creation was refused.                                            *)
ReservationsCounted == m_current_value = Cardinality(Referenced) + refusals

(* HandleTable, ResourceLimit: until the generations wrap a handle names its own object only, *)
(* they wrap as late as can be, no handle is valid that Create did not return (but for the    *)
(* bit that is dropped), and the limit counts each object once however many handles it has.   *)
HandlesSound ==
  /\ TableTypeOK
  /\ Len(issued) < Generations => StaleHandlesInvalid
  /\ HandlesRepeatLate /\ IssuedUnlessHighBit /\ ReservationsCounted
=============================================================================
