--------------------------- MODULE ResourceProofs ---------------------------
(***************************************************************************)
(* What the kernel and the frontend hand out and keep: the handle table,   *)
(* the files of save states, the database of games, the counts of a        *)
(* semaphore and the sessions of a port, one part each, for tables of      *)
(* every size, any number of handles, saves, changes, failures, crashes,   *)
(* threads and sessions, and every width of integers.                      *)
(***************************************************************************)
EXTENDS HandleTable, SaveStateFile, GameDatabase, SemaphoreCount, KernelIPC, ListProofs

-----------------------------------------------------------------------------
(* The free list of the handle table *)

(* The part of the invariant of the handle table that is about the free list.                *)
TableInv == TableTypeOK /\ FreeListLinked

(* What Create makes of the history of the free list: the head is gone and the rest moves up. *)
LEMMA TailFacts ==
  ASSUME NEW S, NEW s \in Seq(S), s # <<>>
  PROVE  /\ Tail(s) \in Seq(S)
         /\ Len(s) \in Nat \ {0}
         /\ Len(Tail(s)) = Len(s) - 1
         /\ \A i \in 1 .. Len(s) - 1 : Tail(s)[i] = s[i + 1]
  BY HeadTailProperties, LenProperties

(* What Close makes of it: the closed slot comes first and the others move down.              *)
LEMMA ConsFacts ==
  ASSUME NEW S, NEW e \in S, NEW s \in Seq(S)
  PROVE  /\ <<e>> \o s \in Seq(S)
         /\ Len(s) \in Nat
         /\ Len(<<e>> \o s) = Len(s) + 1
         /\ (<<e>> \o s)[1] = e
         /\ \A i \in 1 .. Len(s) : (<<e>> \o s)[i + 1] = s[i]
  OBVIOUS

(* A list of length 0 is the empty list.                                                      *)
LEMMA EmptyFacts ==
  ASSUME NEW S, NEW s \in Seq(S)
  PROVE  s = <<>> <=> Len(s) = 0
  BY EmptySeq, LenProperties

(* A valid handle names a slot of the table (IsValid).                                        *)
LEMMA ValidSlot ==
  ASSUME NEW h \in Handles, IsValid(h)
  PROVE  GetSlot(h) \in Slots /\ objects[GetSlot(h)] # Null
<1> USE TableAssumption
<1>1. h \in Int /\ Generations \in Nat \ {0} /\ SlotValues \in Nat \ {0}
  BY DEF Handles
<1>2. h \div Generations \in Int
  BY <1>1
<1>3. (h \div Generations) % SlotValues \in 0 .. SlotValues - 1
  BY <1>1, <1>2
<1> QED
  BY <1>3 DEF IsValid, GetSlot, Slots

(* The list that Clear and the constructor make.                                              *)
LEMMA AllFreeFacts ==
  /\ AllFree \in Seq(Slots)
  /\ Len(AllFree) = MAX_COUNT
  /\ \A i \in 1 .. MAX_COUNT : AllFree[i] = i - 1
  /\ Cleared \in [Slots -> 0 .. Generations - 1]
  /\ \A slot \in Slots : Cleared[slot] = slot + 1
<1> USE TableAssumption
<1>1. AllFree \in [1 .. MAX_COUNT -> Slots]
  BY DEF AllFree, Slots
<1>2. AllFree \in Seq(Slots) /\ Len(AllFree) = MAX_COUNT
  BY <1>1
<1> QED
  BY <1>2 DEF AllFree, Cleared, Slots

(* What Clear and the constructor leave behind.                                               *)
Empty ==
  /\ objects = [slot \in Slots |-> Null]
  /\ generations = Cleared
  /\ next_free_slot = 0
  /\ free = AllFree
  /\ next_generation \in 1 .. Generations - 1

(* A table whose slots are all free and linked in order satisfies the invariant.              *)
LEMMA AllFreeSafe == Empty => TableInv
<1> SUFFICES ASSUME Empty PROVE TableInv
  OBVIOUS
<1> USE TableAssumption, AllFreeFacts DEF Empty
<1>1. TableTypeOK
  BY DEF TableTypeOK
<1>2. \A i, j \in 1 .. Len(free) : free[i] = free[j] => i = j
  OBVIOUS
<1>3. \A slot \in Slots : objects[slot] = Null <=> \E i \in 1 .. Len(free) : free[i] = slot
  <2> SUFFICES ASSUME NEW slot \in Slots
               PROVE  \E i \in 1 .. Len(free) : free[i] = slot
    OBVIOUS
  <2>1. slot + 1 \in 1 .. Len(free) /\ free[slot + 1] = slot
    BY DEF Slots
  <2> QED
    BY <2>1
<1>4. next_free_slot = IF free = <<>> THEN MAX_COUNT ELSE free[1]
  <2>1. CASE MAX_COUNT = 0
    BY <2>1
  <2>2. CASE MAX_COUNT # 0
    BY <2>2
  <2> QED
    BY <2>1, <2>2
<1>5. \A i \in 1 .. Len(free) :
        generations[free[i]] = IF i = Len(free) THEN MAX_COUNT ELSE free[i + 1]
  <2> SUFFICES ASSUME NEW i \in 1 .. Len(free)
               PROVE  generations[free[i]] = IF i = Len(free) THEN MAX_COUNT ELSE free[i + 1]
    OBVIOUS
  <2>1. free[i] = i - 1 /\ free[i] \in Slots
    BY DEF Slots
  <2>2. generations[free[i]] = i
    BY <2>1
  <2> QED
    BY <2>2
<1> QED
  BY <1>1, <1>2, <1>3, <1>4, <1>5 DEF TableInv, FreeListLinked

(* Create and Duplicate take the head of the list.                                            *)
LEMMA InsertSafe ==
  ASSUME NEW o \in Objects, TableInv, next_free_slot < MAX_COUNT, Insert(o)
  PROVE  TableInv'
<1> USE TableAssumption
<1>1. TableTypeOK /\ FreeListLinked
  BY DEF TableInv
<1>2. free # <<>> /\ free \in Seq(Slots) /\ next_free_slot = free[1]
  BY <1>1 DEF TableTypeOK, FreeListLinked
<1>3. /\ Tail(free) \in Seq(Slots)
      /\ Len(free) \in Nat \ {0}
      /\ Len(Tail(free)) = Len(free) - 1
      /\ \A i \in 1 .. Len(free) - 1 : Tail(free)[i] = free[i + 1]
  BY <1>2, TailFacts
<1>4. \A i \in 1 .. Len(free) : free[i] \in Slots
  BY <1>2
<1>5. next_free_slot \in Slots
  BY <1>2, <1>3, <1>4
<1>6. /\ free' = Tail(free)
      /\ objects' = [objects EXCEPT ![next_free_slot] = o]
      /\ generations' = [generations EXCEPT ![next_free_slot] = next_generation]
      /\ next_free_slot' = generations[next_free_slot]
      /\ next_generation' = NextGeneration(next_generation)
  BY DEF Insert
<1>7. next_free_slot' = IF Len(free) = 1 THEN MAX_COUNT ELSE free[2]
  <2>1. 1 \in 1 .. Len(free)
    BY <1>3
  <2>2. generations[free[1]] = IF 1 = Len(free) THEN MAX_COUNT ELSE free[1 + 1]
    BY <2>1, <1>1 DEF FreeListLinked
  <2> QED
    BY <2>2, <1>2, <1>6
<1>8. TableTypeOK'
  <2>1. next_free_slot' \in 0 .. MAX_COUNT
    BY <1>3, <1>4, <1>7 DEF Slots
  <2>2. next_generation' \in 1 .. Generations - 1
    BY <1>1, <1>6 DEF TableTypeOK, NextGeneration
  <2>3. objects' \in [Slots -> Objects \cup {Null}] /\ generations' \in [Slots -> 0 .. Generations - 1]
    BY <1>1, <1>5, <1>6 DEF TableTypeOK
  <2> QED
    BY <2>1, <2>2, <2>3, <1>3, <1>6 DEF TableTypeOK
<1>9. \A i \in 1 .. Len(free') : free'[i] = free[i + 1] /\ i + 1 \in 1 .. Len(free)
  BY <1>3, <1>6
<1>10. \A i, j \in 1 .. Len(free) : free[i] = free[j] => i = j
  BY <1>1 DEF FreeListLinked
<1>11. \A i, j \in 1 .. Len(free') : free'[i] = free'[j] => i = j
  <2> SUFFICES ASSUME NEW i \in 1 .. Len(free'), NEW j \in 1 .. Len(free'), free'[i] = free'[j]
               PROVE  i = j
    OBVIOUS
  <2>1. i + 1 = j + 1
    BY <1>9, <1>10
  <2> QED
    BY <2>1, <1>3, <1>6
<1>12. \A slot \in Slots : objects'[slot] = Null <=> \E i \in 1 .. Len(free') : free'[i] = slot
  <2> SUFFICES ASSUME NEW slot \in Slots
               PROVE  objects'[slot] = Null <=> \E i \in 1 .. Len(free') : free'[i] = slot
    OBVIOUS
  <2>1. CASE slot = next_free_slot
    <3>1. objects'[slot] # Null
      BY <2>1, <1>1, <1>5, <1>6 DEF TableTypeOK
    <3>2. ASSUME NEW i \in 1 .. Len(free'), free'[i] = slot
          PROVE  FALSE
      <4>1. free[i + 1] = free[1] /\ i + 1 \in 1 .. Len(free) /\ 1 \in 1 .. Len(free)
        BY <3>2, <2>1, <1>2, <1>3, <1>9
      <4>2. i + 1 = 1
        BY <4>1, <1>10
      <4> QED
        BY <4>2, <1>3, <1>6
    <3> QED
      BY <3>1, <3>2
  <2>2. CASE slot # next_free_slot
    <3>1. objects'[slot] = objects[slot]
      BY <2>2, <1>1, <1>6 DEF TableTypeOK
    <3>2. objects[slot] = Null <=> \E i \in 1 .. Len(free) : free[i] = slot
      BY <1>1 DEF FreeListLinked
    <3>3. ASSUME NEW i \in 1 .. Len(free), free[i] = slot
          PROVE  \E k \in 1 .. Len(free') : free'[k] = slot
      <4>1. i # 1
        BY <3>3, <2>2, <1>2
      <4>2. i - 1 \in 1 .. Len(free') /\ free'[i - 1] = free[i]
        BY <4>1, <1>3, <1>6
      <4> QED
        BY <4>2, <3>3
    <3>4. ASSUME NEW i \in 1 .. Len(free'), free'[i] = slot
          PROVE  \E k \in 1 .. Len(free) : free[k] = slot
      BY <3>4, <1>9
    <3> QED
      BY <3>1, <3>2, <3>3, <3>4
  <2> QED
    BY <2>1, <2>2
<1>13. next_free_slot' = IF free' = <<>> THEN MAX_COUNT ELSE free'[1]
  <2>1. CASE Len(free) = 1
    <3>1. Len(free') = 0
      BY <2>1, <1>3, <1>6
    <3>2. free' = <<>>
      BY <3>1, <1>3, <1>6, EmptyFacts
    <3> QED
      BY <3>2, <2>1, <1>7
  <2>2. CASE Len(free) # 1
    <3>1. 1 \in 1 .. Len(free')
      BY <2>2, <1>3, <1>6
    <3>2. free'[1] = free[1 + 1]
      BY <3>1, <1>9
    <3>3. Len(free') # 0 /\ free' \in Seq(Slots)
      BY <2>2, <1>3, <1>6
    <3>4. free' # <<>>
      BY <3>3, EmptyFacts
    <3> QED
      BY <3>2, <3>4, <2>2, <1>7
  <2> QED
    BY <2>1, <2>2
<1>14. \A i \in 1 .. Len(free') :
         generations'[free'[i]] = IF i = Len(free') THEN MAX_COUNT ELSE free'[i + 1]
  <2> SUFFICES ASSUME NEW i \in 1 .. Len(free')
               PROVE  generations'[free'[i]] = IF i = Len(free') THEN MAX_COUNT ELSE free'[i + 1]
    OBVIOUS
  <2>1. free'[i] = free[i + 1] /\ i + 1 \in 1 .. Len(free) /\ 1 \in 1 .. Len(free) /\ i + 1 # 1
    BY <1>3, <1>6, <1>9
  <2>2. free[i + 1] # next_free_slot
    BY <2>1, <1>2, <1>10
  <2>3. generations'[free'[i]] = generations[free[i + 1]]
    BY <2>1, <2>2, <1>1, <1>4, <1>6 DEF TableTypeOK
  <2>4. generations[free[i + 1]] = IF i + 1 = Len(free) THEN MAX_COUNT ELSE free[(i + 1) + 1]
    BY <2>1, <1>1 DEF FreeListLinked
  <2>5. CASE i + 1 = Len(free)
    BY <2>3, <2>4, <2>5, <1>3, <1>6
  <2>6. CASE i + 1 # Len(free)
    <3>1. i + 1 \in 1 .. Len(free') /\ i # Len(free')
      <4>1. Len(free') = Len(free) - 1 /\ Len(free) \in Nat
        BY <1>3, <1>6
      <4> QED
        BY <4>1, <2>6, <2>1
    <3>2. free'[i + 1] = free[(i + 1) + 1]
      BY <3>1, <1>9
    <3> QED
      BY <3>1, <3>2, <2>3, <2>4, <2>6
  <2> QED
    BY <2>5, <2>6
<1> QED
  BY <1>8, <1>11, <1>12, <1>13, <1>14 DEF TableInv, FreeListLinked

(* Close puts the slot in front of the list.                                                  *)
LEMMA CloseSafe ==
  ASSUME NEW h \in Handles, TableInv, Close(h)
  PROVE  TableInv'
<1> DEFINE slot == GetSlot(h)
<1> USE TableAssumption
<1>1. TableTypeOK /\ FreeListLinked
  BY DEF TableInv
<1>2. slot \in Slots /\ objects[slot] # Null
  BY ValidSlot DEF Close
<1>3. /\ objects' = [objects EXCEPT ![slot] = Null]
      /\ generations' = [generations EXCEPT ![slot] = next_free_slot]
      /\ next_free_slot' = slot
      /\ free' = <<slot>> \o free
      /\ next_generation' = next_generation
  BY DEF Close
<1> HIDE DEF slot
<1>4. free \in Seq(Slots)
  BY <1>1 DEF TableTypeOK
<1>5. /\ free' \in Seq(Slots)
      /\ Len(free) \in Nat
      /\ Len(free') = Len(free) + 1
      /\ free'[1] = slot
      /\ \A i \in 1 .. Len(free) : free'[i + 1] = free[i]
  BY <1>2, <1>3, <1>4, ConsFacts
<1>6. \A i \in 1 .. Len(free) : free[i] \in Slots /\ free[i] # slot
  BY <1>1, <1>2, <1>4 DEF FreeListLinked
<1>7. \A k \in 1 .. Len(free') : k # 1 => k - 1 \in 1 .. Len(free) /\ free'[k] = free[k - 1]
  <2> SUFFICES ASSUME NEW k \in 1 .. Len(free'), k # 1
               PROVE  k - 1 \in 1 .. Len(free) /\ free'[k] = free[k - 1]
    OBVIOUS
  <2>1. k - 1 \in 1 .. Len(free) /\ (k - 1) + 1 = k
    BY <1>5
  <2> QED
    BY <2>1, <1>5
<1>8. TableTypeOK'
  <2>1. next_free_slot' \in 0 .. MAX_COUNT
    BY <1>2, <1>3 DEF Slots
  <2>2. generations' \in [Slots -> 0 .. Generations - 1]
    BY <1>1, <1>2, <1>3 DEF TableTypeOK
  <2>3. objects' \in [Slots -> Objects \cup {Null}]
    BY <1>1, <1>2, <1>3 DEF TableTypeOK
  <2> QED
    BY <2>1, <2>2, <2>3, <1>1, <1>3, <1>5 DEF TableTypeOK
<1>9. \A i, j \in 1 .. Len(free') : free'[i] = free'[j] => i = j
  <2> SUFFICES ASSUME NEW i \in 1 .. Len(free'), NEW j \in 1 .. Len(free'), free'[i] = free'[j]
               PROVE  i = j
    OBVIOUS
  <2>1. CASE i = 1 \/ j = 1
    BY <2>1, <1>5, <1>6, <1>7
  <2>2. CASE i # 1 /\ j # 1
    <3>1. free[i - 1] = free[j - 1] /\ i - 1 \in 1 .. Len(free) /\ j - 1 \in 1 .. Len(free)
      BY <2>2, <1>7
    <3>2. i - 1 = j - 1
      BY <3>1, <1>1 DEF FreeListLinked
    <3> QED
      BY <3>2, <1>5
  <2> QED
    BY <2>1, <2>2
<1>10. \A s \in Slots : objects'[s] = Null <=> \E i \in 1 .. Len(free') : free'[i] = s
  <2> SUFFICES ASSUME NEW s \in Slots
               PROVE  objects'[s] = Null <=> \E i \in 1 .. Len(free') : free'[i] = s
    OBVIOUS
  <2>1. CASE s = slot
    <3>1. 1 \in 1 .. Len(free')
      BY <1>5
    <3> QED
      BY <3>1, <2>1, <1>1, <1>2, <1>3, <1>5 DEF TableTypeOK
  <2>2. CASE s # slot
    <3>1. objects'[s] = objects[s]
      BY <2>2, <1>1, <1>3 DEF TableTypeOK
    <3>2. objects[s] = Null <=> \E i \in 1 .. Len(free) : free[i] = s
      BY <1>1 DEF FreeListLinked
    <3>3. ASSUME NEW i \in 1 .. Len(free), free[i] = s
          PROVE  \E k \in 1 .. Len(free') : free'[k] = s
      <4>1. i + 1 \in 1 .. Len(free') /\ free'[i + 1] = s
        BY <3>3, <1>5
      <4> QED
        BY <4>1
    <3>4. ASSUME NEW k \in 1 .. Len(free'), free'[k] = s
          PROVE  \E i \in 1 .. Len(free) : free[i] = s
      <4>1. k # 1
        BY <3>4, <2>2, <1>5
      <4> QED
        BY <4>1, <3>4, <1>7
    <3> QED
      BY <3>1, <3>2, <3>3, <3>4
  <2> QED
    BY <2>1, <2>2
<1>11. next_free_slot' = IF free' = <<>> THEN MAX_COUNT ELSE free'[1]
  BY <1>3, <1>5
<1>12. \A k \in 1 .. Len(free') :
         generations'[free'[k]] = IF k = Len(free') THEN MAX_COUNT ELSE free'[k + 1]
  <2> SUFFICES ASSUME NEW k \in 1 .. Len(free')
               PROVE  generations'[free'[k]] = IF k = Len(free') THEN MAX_COUNT ELSE free'[k + 1]
    OBVIOUS
  <2>1. CASE k = 1
    <3>1. generations'[free'[k]] = next_free_slot
      BY <2>1, <1>1, <1>2, <1>3, <1>5 DEF TableTypeOK
    <3>2. CASE free = <<>>
      BY <3>1, <3>2, <2>1, <1>1, <1>5 DEF FreeListLinked
    <3>3. CASE free # <<>>
      <4>1. 1 \in 1 .. Len(free) /\ Len(free') # 1
        BY <3>3, <1>4, <1>5, LenProperties
      <4>2. free'[1 + 1] = free[1]
        BY <4>1, <1>5
      <4>3. next_free_slot = free[1]
        BY <3>3, <1>1 DEF FreeListLinked
      <4> QED
        BY <4>1, <4>2, <4>3, <3>1, <2>1
    <3> QED
      BY <3>2, <3>3
  <2>2. CASE k # 1
    <3>1. k - 1 \in 1 .. Len(free) /\ free'[k] = free[k - 1]
      BY <2>2, <1>7
    <3>2. generations'[free'[k]] = generations[free[k - 1]]
      BY <3>1, <1>1, <1>3, <1>6 DEF TableTypeOK
    <3>3. generations[free[k - 1]] = IF k - 1 = Len(free) THEN MAX_COUNT ELSE free[(k - 1) + 1]
      BY <3>1, <1>1 DEF FreeListLinked
    <3>4. CASE k - 1 = Len(free)
      BY <3>2, <3>3, <3>4, <1>5
    <3>5. CASE k - 1 # Len(free)
      <4>1. k \in 1 .. Len(free) /\ k # Len(free')
        BY <3>5, <3>1, <1>5
      <4>2. free'[k + 1] = free[k] /\ (k - 1) + 1 = k
        BY <4>1, <1>5
      <4> QED
        BY <4>1, <4>2, <3>2, <3>3, <3>5
    <3> QED
      BY <3>4, <3>5
  <2> QED
    BY <2>1, <2>2
<1> QED
  BY <1>8, <1>9, <1>10, <1>11, <1>12 DEF TableInv, FreeListLinked

(* The initial table satisfies the invariant.                                                 *)
LEMMA TableInitSafe == TableInit => TableInv
<1> SUFFICES ASSUME TableInit PROVE TableInv
  OBVIOUS
<1>1. next_generation \in 1 .. Generations - 1
  BY TableAssumption DEF TableInit
<1> QED
  BY <1>1, AllFreeSafe DEF TableInit, Empty

(* Every operation on the handle table keeps the free list intact.                            *)
LEMMA TableStepSafe == TableInv /\ [TableNext]_table_vars => TableInv'
<1> SUFFICES ASSUME TableInv, [TableNext]_table_vars PROVE TableInv'
  OBVIOUS
<1>1. ASSUME NEW o \in Objects, Create(o) PROVE TableInv'
  BY <1>1, InsertSafe DEF Create
<1>2. CASE CreateFails
  BY <1>2 DEF CreateFails, TableInv, TableTypeOK, FreeListLinked, table
<1>3. ASSUME NEW h \in Handles, Duplicate(h) PROVE TableInv'
  <2>1. GetSlot(h) \in Slots /\ objects[GetSlot(h)] # Null
    BY <1>3, ValidSlot DEF Duplicate
  <2>2. objects[GetSlot(h)] \in Objects
    BY <2>1 DEF TableInv, TableTypeOK
  <2> QED
    BY <1>3, <2>2, InsertSafe DEF Duplicate
<1>4. ASSUME NEW h \in Handles, Close(h) PROVE TableInv'
  BY <1>4, CloseSafe
<1>5. CASE Clear
  <2>1. Empty'
    BY <1>5 DEF Clear, TableInv, TableTypeOK, Empty
  <2> QED
    BY <2>1, AllFreeSafe, PTL
<1>6. CASE UNCHANGED table_vars
  BY <1>6 DEF table_vars, table, TableInv, TableTypeOK, FreeListLinked
<1> QED
  BY <1>1, <1>2, <1>3, <1>4, <1>5, <1>6 DEF TableNext

(* The free list of a handle table of any size stays intact under creation, duplication,      *)
(* closing and clearing: Create never overwrites a handle in use (HandleTable::Create).       *)
THEOREM HandleTableSafe == TableSpec => [](TableTypeOK /\ FreeListLinked)
<1>1. TableInv => TableTypeOK /\ FreeListLinked
  BY DEF TableInv
<1> QED
  BY <1>1, TableInitSafe, TableStepSafe, PTL DEF TableSpec

-----------------------------------------------------------------------------
(* What the handles that were returned say of the slots *)

IssuedSlot(k) == GetSlot(issued[k])
IssuedGeneration(k) == GetGeneration(issued[k])

(* Create returns handles that are made of a slot and a generation other than 0.              *)
IssuedMade ==
  /\ issued \in Seq(Nat)
  /\ \A k \in 1 .. Len(issued) :
       /\ IssuedSlot(k) \in Slots /\ IssuedGeneration(k) \in 1 .. Generations - 1
       /\ issued[k] = MakeHandle(IssuedSlot(k), IssuedGeneration(k))

(* The counter of generations when n handles more were created: it wraps at most once in a    *)
(* round.                                                                                     *)
After(g, n, then) == then = g + n \/ then = g + n - (Generations - 1)

(* Within a round of the counter generations differ as the numbers of the handles do.         *)
Spaced ==
  /\ \A k \in 1 .. Len(issued) : \A j \in 1 .. k - 1 :
       k - j < Generations - 1 => After(IssuedGeneration(j), k - j, IssuedGeneration(k))
  /\ \A j \in 1 .. Len(issued) :
       Len(issued) + 1 - j < Generations - 1 =>
         After(IssuedGeneration(j), Len(issued) + 1 - j, next_generation)

(* The generation of a slot in use is that of the handle Create returned last for it.         *)
InUseAsIssued ==
  \A slot \in Slots : objects[slot] # Null =>
    \E k \in 1 .. Len(issued) :
      /\ IssuedSlot(k) = slot /\ IssuedGeneration(k) = generations[slot]
      /\ \A j \in k + 1 .. Len(issued) : IssuedSlot(j) # slot

(* The invariant of the handles: the free list, what the handles that were returned say of    *)
(* the slots, and, in CountInv, the count of the resource limit.                              *)
HandlesInv == TableInv /\ IssuedMade /\ Spaced /\ InUseAsIssued
CountInv == HandlesInv /\ refusals \in Nat /\ ReservationsCounted

(* A whole number of rounds that is shorter than one round is none.                           *)
LEMMA NoRound ==
  ASSUME NEW n \in Nat \ {0}, NEW d \in Int, NEW e \in Int, e = d * n, -n < e, e < n
  PROVE  d = 0
<1>1. CASE d >= 1
  <2>1. d - 1 \in Nat /\ (d - 1) * n = d * n - n
    BY <1>1
  <2>2. (d - 1) * n >= 0
    BY <2>1
  <2> QED
    BY <2>1, <2>2
<1>2. CASE d <= -1
  <2>1. -1 - d \in Nat /\ (-1 - d) * n = -n - d * n
    BY <1>2
  <2>2. (-1 - d) * n >= 0
    BY <2>1
  <2> QED
    BY <2>1, <2>2
<1> QED
  BY <1>1, <1>2

(* Quotient and remainder put together are the number.                                        *)
LEMMA Division ==
  ASSUME NEW n \in Nat \ {0}, NEW h \in Nat
  PROVE  /\ h \div n \in Nat /\ h % n \in 0 .. n - 1
         /\ h = (h % n) + (h \div n) * n
<1>1. h \div n \in Int /\ h % n \in 0 .. n - 1 /\ h = (h % n) + (h \div n) * n
  OBVIOUS
<1>2. h \div n >= 0
  <2> SUFFICES ASSUME h \div n <= -1 PROVE FALSE
    BY <1>1
  <2>1. -1 - h \div n \in Nat /\ (-1 - h \div n) * n = -n - (h \div n) * n
    BY <1>1
  <2>2. (-1 - h \div n) * n >= 0
    BY <2>1
  <2> QED
    BY <1>1, <2>1, <2>2
<1> QED
  BY <1>1, <1>2

(* They are the only ones that are.                                                           *)
LEMMA DivisionUnique ==
  ASSUME NEW n \in Nat \ {0}, NEW h \in Nat, NEW g \in 0 .. n - 1, NEW s \in Nat, h = g + s * n
  PROVE  h % n = g /\ h \div n = s
<1> DEFINE q == h \div n
<1> DEFINE r == h % n
<1>1. q \in Nat /\ r \in 0 .. n - 1 /\ h = r + q * n
  BY Division
<1> HIDE DEF q, r
<1>2. s - q \in Int /\ (s - q) * n = s * n - q * n /\ s * n \in Int /\ q * n \in Int
  BY <1>1
<1>3. -n < (s - q) * n /\ (s - q) * n < n /\ (s - q) * n \in Int /\ (s - q) * n = r - g
  BY <1>1, <1>2
<1>4. s - q = 0
  BY <1>2, <1>3, NoRound
<1> QED
  BY <1>1, <1>3, <1>4 DEF q, r


(* GetSlot and GetGeneration read back what MakeHandle put together.                          *)
LEMMA MadeHandle ==
  ASSUME NEW slot \in Slots, NEW g \in 0 .. Generations - 1
  PROVE  /\ MakeHandle(slot, g) \in Nat
         /\ GetSlot(MakeHandle(slot, g)) = slot
         /\ GetGeneration(MakeHandle(slot, g)) = g
<1> DEFINE h == MakeHandle(slot, g)
<1>1. Generations \in Nat \ {0} /\ SlotValues \in Nat \ {0} /\ slot \in Nat /\ slot < SlotValues
  BY TableAssumption DEF Slots
<1>2. slot * Generations \in Nat
  BY <1>1
<1>3. h \in Nat /\ h = g + slot * Generations
  BY <1>1, <1>2 DEF MakeHandle
<1> HIDE DEF h
<1>4. h % Generations = g /\ h \div Generations = slot
  <2>1. g \in 0 .. Generations - 1 /\ slot \in Nat
    BY <1>1
  <2> QED
    BY <1>1, <1>3, <2>1, DivisionUnique, Zenon
<1>5. slot % SlotValues = slot
  BY <1>1
<1> QED
  BY <1>3, <1>4, <1>5 DEF h, GetSlot, GetGeneration

(* A handle that is valid and leaves the highest bit clear is made of its slot and its        *)
(* generation.                                                                                *)
LEMMA ValidMade ==
  ASSUME NEW h \in Handles, IsValid(h), h < SlotValues * Generations
  PROVE  h = MakeHandle(GetSlot(h), GetGeneration(h))
<1>1. Generations \in Nat \ {0} /\ SlotValues \in Nat \ {0} /\ h \in Nat
  BY TableAssumption DEF Handles
<1> DEFINE q == h \div Generations
<1>2. q \in Nat /\ h % Generations \in Nat /\ h = (h % Generations) + q * Generations
  <2>1. q \in Nat /\ h % Generations \in 0 .. Generations - 1 /\ h = (h % Generations) + q * Generations
    BY <1>1, Division, Zenon
  <2> QED
    BY <2>1, <1>1
<1> HIDE DEF q
<1>3. q < SlotValues
  <2> SUFFICES ASSUME q >= SlotValues PROVE FALSE
    BY <1>1, <1>2
  <2>1. q - SlotValues \in Nat /\ (q - SlotValues) * Generations = q * Generations - SlotValues * Generations
    BY <1>1, <1>2
  <2>2. (q - SlotValues) * Generations >= 0 /\ SlotValues * Generations \in Nat /\ q * Generations \in Nat
    BY <2>1, <1>1, <1>2
  <2> QED
    BY <2>1, <2>2, <1>1, <1>2
<1>4. q % SlotValues = q
  BY <1>1, <1>2, <1>3
<1> QED
  BY <1>2, <1>4 DEF q, GetSlot, GetGeneration, MakeHandle

(* One more handle at the end of the sequence.                                                *)
LEMMA AppendFacts ==
  ASSUME NEW S, NEW s \in Seq(S), NEW e \in S
  PROVE  /\ Append(s, e) \in Seq(S)
         /\ Len(s) \in Nat
         /\ Len(Append(s, e)) = Len(s) + 1
         /\ Append(s, e)[Len(s) + 1] = e
         /\ \A i \in 1 .. Len(s) : Append(s, e)[i] = s[i]
  OBVIOUS

(* What Create and Duplicate do to the history of handles.                                    *)
LEMMA InsertHandles ==
  ASSUME NEW o \in Objects, NEW n \in Nat, n = Len(issued),
         TableInv, IssuedMade, next_free_slot < MAX_COUNT, Insert(o)
  PROVE  /\ next_free_slot \in Slots /\ next_generation \in 1 .. Generations - 1
         /\ Len(issued') = n + 1
         /\ IssuedMade'
         /\ \A k \in 1 .. n :
              IssuedSlot(k)' = IssuedSlot(k) /\ IssuedGeneration(k)' = IssuedGeneration(k)
         /\ IssuedSlot(n + 1)' = next_free_slot
         /\ IssuedGeneration(n + 1)' = next_generation
<1> USE TableAssumption
<1> DEFINE h == MakeHandle(next_free_slot, next_generation)
<1>1. next_free_slot \in Slots /\ next_generation \in 1 .. Generations - 1
  BY DEF TableInv, TableTypeOK, Slots
<1>2. h \in Nat /\ GetSlot(h) = next_free_slot /\ GetGeneration(h) = next_generation
  <2>1. next_generation \in 0 .. Generations - 1
    BY <1>1
  <2> QED
    BY <1>1, <2>1, MadeHandle
<1>3. issued \in Seq(Nat) /\ issued' = Append(issued, h)
  BY DEF IssuedMade, Insert
<1> HIDE DEF h
<1>4. /\ issued' \in Seq(Nat)
      /\ Len(issued') = n + 1
      /\ issued'[n + 1] = h
      /\ \A i \in 1 .. n : issued'[i] = issued[i]
  BY <1>2, <1>3, AppendFacts
<1>5. \A k \in 1 .. n :
        IssuedSlot(k)' = IssuedSlot(k) /\ IssuedGeneration(k)' = IssuedGeneration(k)
  BY <1>4 DEF IssuedSlot, IssuedGeneration
<1>6. IssuedSlot(n + 1)' = next_free_slot /\ IssuedGeneration(n + 1)' = next_generation
  BY <1>2, <1>4 DEF IssuedSlot, IssuedGeneration
<1>7. IssuedMade'
  <2> SUFFICES ASSUME NEW k \in 1 .. Len(issued')
               PROVE  /\ IssuedSlot(k)' \in Slots /\ IssuedGeneration(k)' \in 1 .. Generations - 1
                      /\ issued'[k] = MakeHandle(IssuedSlot(k)', IssuedGeneration(k)')
    BY <1>4 DEF IssuedMade, MakeHandle
  <2>1. CASE k \in 1 .. n
    BY <2>1, <1>4, <1>5 DEF IssuedMade
  <2>2. CASE k = n + 1
    BY <2>2, <1>1, <1>4, <1>6 DEF h
  <2> QED
    BY <2>1, <2>2, <1>4
<1> QED
  BY <1>1, <1>4, <1>5, <1>6, <1>7

(* One handle more, within a round.                                                           *)
LEMMA AfterNext ==
  ASSUME NEW g \in 1 .. Generations - 1, NEW d \in Nat \ {0}, NEW then \in 1 .. Generations - 1,
         d + 1 < Generations - 1, After(g, d, then)
  PROVE  After(g, d + 1, NextGeneration(then))
  BY TableAssumption DEF After, NextGeneration

(* Create and Duplicate advance the counter of generations by one.                            *)
LEMMA InsertSpaced ==
  ASSUME NEW o \in Objects, NEW n \in Nat, n = Len(issued),
         TableInv, IssuedMade, Spaced, next_free_slot < MAX_COUNT, Insert(o)
  PROVE  Spaced'
<1> USE TableAssumption
<1> DEFINE g(k) == IssuedGeneration(k)
<1>1. /\ next_generation \in 1 .. Generations - 1 /\ n \in Nat /\ Len(issued') = n + 1
      /\ \A k \in 1 .. n : g(k)' = g(k) /\ g(k) \in 1 .. Generations - 1
      /\ g(n + 1)' = next_generation
  BY InsertHandles DEF IssuedMade
<1>2. next_generation' = NextGeneration(next_generation)
  BY DEF Insert
<1>3. \A j \in 1 .. n : n + 1 - j < Generations - 1 => After(g(j), n + 1 - j, next_generation)
  BY DEF Spaced
<1>4. ASSUME NEW k \in 1 .. n + 1, NEW j \in 1 .. k - 1, k - j < Generations - 1
      PROVE  After(g(j)', k - j, g(k)')
  <2>1. CASE k = n + 1
    BY <2>1, <1>1, <1>3, <1>4
  <2>2. CASE k # n + 1
    <3>1. k \in 1 .. n /\ j \in 1 .. n
      BY <2>2, <1>1
    <3>2. After(g(j), k - j, g(k))
      BY <3>1, <1>4 DEF Spaced
    <3> QED
      BY <3>1, <3>2, <1>1
  <2> QED
    BY <2>1, <2>2
<1>5. ASSUME NEW j \in 1 .. n + 1, n + 2 - j < Generations - 1
      PROVE  After(g(j)', n + 2 - j, next_generation')
  <2>1. CASE j = n + 1
    BY <2>1, <1>1, <1>2 DEF After, NextGeneration
  <2>2. CASE j # n + 1
    <3>1. j \in 1 .. n /\ g(j)' = g(j) /\ g(j) \in 1 .. Generations - 1
      BY <2>2, <1>1
    <3>2. After(g(j), n + 1 - j, next_generation) /\ n + 1 - j \in Nat
      BY <3>1, <1>1, <1>3, <1>5
    <3>3. After(g(j), (n + 1 - j) + 1, next_generation')
      BY <3>1, <3>2, <1>1, <1>2, <1>5, AfterNext
    <3> QED
      BY <3>1, <3>3
  <2> QED
    BY <2>1, <2>2
<1>6. \A j \in 1 .. n + 1 : (n + 1) + 1 - j = n + 2 - j
  BY <1>1
<1> QED
  BY <1>1, <1>4, <1>5, <1>6 DEF Spaced

(* The slot that Create takes is in use under the handle that it returns.                     *)
LEMMA InsertInUse ==
  ASSUME NEW o \in Objects, NEW n \in Nat, n = Len(issued),
         HandlesInv, next_free_slot < MAX_COUNT, Insert(o)
  PROVE  InUseAsIssued'
<1> SUFFICES ASSUME NEW slot \in Slots, objects'[slot] # Null
             PROVE  \E k \in 1 .. Len(issued') :
                      /\ IssuedSlot(k)' = slot /\ IssuedGeneration(k)' = generations'[slot]
                      /\ \A j \in k + 1 .. Len(issued') : IssuedSlot(j)' # slot
  BY DEF InUseAsIssued
<1>1. /\ next_free_slot \in Slots /\ n \in Nat /\ Len(issued') = n + 1
      /\ \A k \in 1 .. n : IssuedSlot(k)' = IssuedSlot(k) /\ IssuedGeneration(k)' = IssuedGeneration(k)
      /\ IssuedSlot(n + 1)' = next_free_slot /\ IssuedGeneration(n + 1)' = next_generation
  BY InsertHandles DEF HandlesInv
<1>2. /\ objects \in [Slots -> Objects \cup {Null}] /\ generations \in [Slots -> 0 .. Generations - 1]
      /\ objects' = [objects EXCEPT ![next_free_slot] = o]
      /\ generations' = [generations EXCEPT ![next_free_slot] = next_generation]
  BY DEF Insert, HandlesInv, TableInv, TableTypeOK
<1>3. CASE slot = next_free_slot
  <2>1. n + 1 \in 1 .. Len(issued') /\ generations'[slot] = next_generation
    BY <1>1, <1>2, <1>3
  <2>2. \A j \in (n + 1) + 1 .. Len(issued') : FALSE
    BY <1>1
  <2> QED
    BY <1>1, <1>3, <2>1, <2>2
<1>4. CASE slot # next_free_slot
  <2>1. objects[slot] # Null /\ generations'[slot] = generations[slot]
    BY <1>2, <1>4
  <2>2. PICK k \in 1 .. n :
          /\ IssuedSlot(k) = slot /\ IssuedGeneration(k) = generations[slot]
          /\ \A j \in k + 1 .. n : IssuedSlot(j) # slot
    BY <2>1 DEF HandlesInv, InUseAsIssued
  <2>3. \A j \in k + 1 .. n + 1 : IssuedSlot(j)' # slot
    <3> SUFFICES ASSUME NEW j \in k + 1 .. n + 1 PROVE IssuedSlot(j)' # slot
      OBVIOUS
    <3>1. j = n + 1 \/ j \in k + 1 .. n
      BY <1>1
    <3>2. j \in k + 1 .. n => j \in 1 .. n
      BY <1>1
    <3> QED
      BY <3>1, <3>2, <2>2, <1>1, <1>4
  <2> QED
    BY <2>1, <2>2, <2>3, <1>1
<1> QED
  BY <1>3, <1>4

(* Only finitely many objects have handles.                                                   *)
LEMMA ReferencedFinite ==
  ASSUME objects \in [Slots -> Objects \cup {Null}]
  PROVE  IsFiniteSet(Referenced) /\ Cardinality(Referenced) \in Nat
<1> DEFINE all == {objects[slot] : slot \in Slots}
<1>1. IsFiniteSet(Slots)
  BY FS_Interval, TableAssumption DEF Slots
<1>2. objects \in Surjection(Slots, all)
  BY DEF Surjection
<1>3. IsFiniteSet(all)
  BY <1>1, <1>2, FS_Surjection DEF ExistsSurjection
<1>4. Referenced = all \ {Null}
  BY DEF Referenced
<1> HIDE DEF all
<1>5. IsFiniteSet(Referenced)
  BY <1>3, <1>4, FS_Difference
<1> QED
  BY <1>5, FS_CardinalityType

(* Destroying the objects that lost their last handle keeps the count right.                  *)
LEMMA DestroyCounted ==
  ASSUME objects \in [Slots -> Objects \cup {Null}], refusals \in Nat, ReservationsCounted,
         Referenced' \subseteq Referenced, DestroyUnreferenced, refusals' = refusals
  PROVE  ReservationsCounted'
<1> DEFINE r == Referenced
<1> DEFINE s == Referenced'
<1>1. IsFiniteSet(r) /\ Cardinality(r) \in Nat /\ s \subseteq r
  BY ReferencedFinite
<1>2. m_current_value = Cardinality(r) + refusals /\ m_current_value' = m_current_value - Cardinality(r \ s)
  BY DEF ReservationsCounted, DestroyUnreferenced
<1> HIDE DEF r
<1>3. r \cap s = s
  BY <1>1
<1>4. Cardinality(r \ s) = Cardinality(r) - Cardinality(s)
  BY <1>1, <1>3, FS_Difference
<1>5. Cardinality(s) \in Nat /\ Cardinality(r \ s) \in Nat
  <2>1. IsFiniteSet(s) /\ IsFiniteSet(r \ s)
    BY <1>1, FS_Subset, FS_Difference
  <2> QED
    BY <2>1, FS_CardinalityType
<1>6. m_current_value' = Cardinality(s) + refusals'
  BY <1>1, <1>2, <1>4, <1>5
<1> QED
  BY <1>6 DEF ReservationsCounted

(* What is referred to after Create or Duplicate: the slot was free.                          *)
LEMMA InsertReferenced ==
  ASSUME NEW o \in Objects, TableInv, next_free_slot < MAX_COUNT, Insert(o)
  PROVE  Referenced' = Referenced \cup {o}
<1> USE TableAssumption
<1>1. /\ next_free_slot \in Slots
      /\ objects \in [Slots -> Objects \cup {Null}]
      /\ objects' = [objects EXCEPT ![next_free_slot] = o]
  BY DEF TableInv, TableTypeOK, Slots, Insert
<1>2. objects[next_free_slot] = Null
  <2>1. free # <<>> /\ free \in Seq(Slots) /\ next_free_slot = free[1]
    BY DEF TableInv, FreeListLinked, TableTypeOK
  <2>2. 1 \in 1 .. Len(free)
    BY <2>1, TailFacts
  <2> QED
    BY <2>1, <2>2, <1>1 DEF TableInv, FreeListLinked
<1>3. o # Null
  BY DEF Insert
<1>4. ASSUME NEW x \in Referenced PROVE x \in Referenced'
  <2>1. PICK slot \in Slots : objects[slot] = x /\ x # Null
    BY DEF Referenced
  <2>2. slot # next_free_slot
    BY <2>1, <1>2
  <2>3. objects'[slot] = x
    BY <2>1, <2>2, <1>1
  <2> QED
    BY <2>1, <2>3 DEF Referenced
<1>5. o \in Referenced'
  <2>1. objects'[next_free_slot] = o
    BY <1>1
  <2> QED
    BY <2>1, <1>1, <1>3 DEF Referenced
<1>6. ASSUME NEW x \in Referenced' PROVE x \in Referenced \cup {o}
  <2>1. PICK slot \in Slots : objects'[slot] = x /\ x # Null
    BY DEF Referenced
  <2>2. CASE slot = next_free_slot
    BY <2>1, <2>2, <1>1
  <2>3. CASE slot # next_free_slot
    <3>1. objects[slot] = x
      BY <2>1, <2>3, <1>1
    <3> QED
      BY <2>1, <3>1 DEF Referenced
  <2> QED
    BY <2>2, <2>3
<1> QED
  BY <1>4, <1>5, <1>6

(* A step that takes no slot leaves no slot in use that was not.                              *)
LEMMA KeepHandles ==
  ASSUME HandlesInv, TableInv', UNCHANGED <<next_generation, issued>>,
         \A slot \in Slots : objects'[slot] # Null =>
           objects'[slot] = objects[slot] /\ generations'[slot] = generations[slot]
  PROVE  HandlesInv'
<1>1. IssuedMade' /\ Spaced'
  BY DEF HandlesInv, IssuedMade, Spaced, IssuedSlot, IssuedGeneration, MakeHandle
<1>2. InUseAsIssued'
  BY DEF HandlesInv, InUseAsIssued, IssuedSlot, IssuedGeneration
<1> QED
  BY <1>1, <1>2 DEF HandlesInv

(* Such a step refers to no object that was not referred to.                                  *)
LEMMA KeepReferenced ==
  ASSUME \A slot \in Slots : objects'[slot] # Null => objects'[slot] = objects[slot]
  PROVE  Referenced' \subseteq Referenced
<1> SUFFICES ASSUME NEW x \in Referenced' PROVE x \in Referenced
  OBVIOUS
<1>1. PICK slot \in Slots : objects'[slot] = x /\ x # Null
  BY DEF Referenced
<1> QED
  BY <1>1 DEF Referenced

(* Create and Duplicate keep the invariant of the handles.                                    *)
LEMMA InsertKeeps ==
  ASSUME NEW o \in Objects, HandlesInv, next_free_slot < MAX_COUNT, Insert(o)
  PROVE  HandlesInv'
<1>1. Len(issued) \in Nat
  BY LenProperties DEF HandlesInv, IssuedMade
<1>2. PICK n \in Nat : n = Len(issued)
  BY <1>1
<1>3. TableInv' /\ IssuedMade'
  BY <1>2, InsertSafe, InsertHandles DEF HandlesInv
<1>4. Spaced'
  BY <1>2, InsertSpaced DEF HandlesInv
<1>5. InUseAsIssued'
  BY <1>2, InsertInUse
<1> QED
  BY <1>3, <1>4, <1>5 DEF HandlesInv

(* Every step of the handle table keeps the handles and the count.                            *)
LEMMA TableStepKeeps == CountInv /\ [TableNext]_table_vars => CountInv'
<1> SUFFICES ASSUME CountInv, [TableNext]_table_vars PROVE CountInv'
  OBVIOUS
<1>1. /\ HandlesInv /\ TableInv /\ refusals \in Nat /\ ReservationsCounted
      /\ objects \in [Slots -> Objects \cup {Null}] /\ generations \in [Slots -> 0 .. Generations - 1]
  BY DEF CountInv, HandlesInv, TableInv, TableTypeOK
<1>2. Cardinality(Referenced) \in Nat /\ IsFiniteSet(Referenced)
  BY <1>1, ReferencedFinite
<1>3. m_current_value = Cardinality(Referenced) + refusals
  BY <1>1 DEF ReservationsCounted
<1>4. TableInv'
  BY <1>1, TableStepSafe
<1>5. ASSUME NEW o \in Objects, Create(o) PROVE CountInv'
  <2>1. Insert(o) /\ next_free_slot < MAX_COUNT /\ o \notin Referenced /\ m_current_value' = m_current_value + 1
        /\ refusals' = refusals
    BY <1>5 DEF Create
  <2>2. HandlesInv'
    BY <2>1, <1>1, InsertKeeps
  <2>3. Referenced' = Referenced \cup {o}
    BY <2>1, <1>1, InsertReferenced
  <2>4. Cardinality(Referenced') = Cardinality(Referenced) + 1
    BY <2>1, <2>3, <1>2, FS_AddElement
  <2>5. m_current_value' = Cardinality(Referenced') + refusals'
    BY <2>1, <2>4, <1>1, <1>2, <1>3
  <2> QED
    BY <2>1, <2>2, <2>5, <1>1 DEF CountInv, ReservationsCounted
<1>6. CASE CreateFails
  <2>1. objects' = objects /\ generations' = generations /\ next_generation' = next_generation /\ issued' = issued
        /\ refusals' = refusals + 1 /\ m_current_value' = m_current_value + 1
    BY <1>6 DEF CreateFails, table
  <2>2. HandlesInv'
    BY <2>1, <1>1, <1>4, KeepHandles
  <2>3. Referenced' = Referenced
    BY <2>1 DEF Referenced
  <2> QED
    BY <2>1, <2>2, <2>3, <1>1, <1>2, <1>3 DEF CountInv, ReservationsCounted
<1>7. ASSUME NEW h \in Handles, Duplicate(h) PROVE CountInv'
  <2> DEFINE o == objects[GetSlot(h)]
  <2>1. GetSlot(h) \in Slots /\ o # Null
    BY <1>7, ValidSlot DEF Duplicate
  <2>2. o \in Objects
    BY <2>1, <1>1
  <2>3. o \in Referenced
    BY <2>1 DEF Referenced
  <2>4. Insert(o) /\ next_free_slot < MAX_COUNT /\ m_current_value' = m_current_value /\ refusals' = refusals
    BY <1>7 DEF Duplicate
  <2> HIDE DEF o
  <2>5. HandlesInv'
    BY <2>2, <2>4, <1>1, InsertKeeps
  <2>6. Referenced' = Referenced
    BY <2>2, <2>3, <2>4, <1>1, InsertReferenced
  <2> QED
    BY <2>4, <2>5, <2>6, <1>1 DEF CountInv, ReservationsCounted
<1>8. ASSUME NEW h \in Handles, Close(h) PROVE CountInv'
  <2> DEFINE s == GetSlot(h)
  <2>1. s \in Slots
    BY <1>8, ValidSlot DEF Close
  <2>2. /\ objects' = [objects EXCEPT ![s] = Null]
        /\ generations' = [generations EXCEPT ![s] = next_free_slot]
        /\ next_generation' = next_generation /\ issued' = issued /\ refusals' = refusals
        /\ DestroyUnreferenced
    BY <1>8 DEF Close
  <2> HIDE DEF s
  <2>3. \A slot \in Slots : objects'[slot] # Null =>
          objects'[slot] = objects[slot] /\ generations'[slot] = generations[slot]
    BY <2>1, <2>2, <1>1
  <2>4. HandlesInv'
    BY <2>2, <2>3, <1>1, <1>4, KeepHandles
  <2>5. Referenced' \subseteq Referenced
    BY <2>3, KeepReferenced
  <2>6. ReservationsCounted'
    BY <2>2, <2>5, <1>1, DestroyCounted
  <2> QED
    BY <2>2, <2>4, <2>6, <1>1 DEF CountInv
<1>9. CASE Clear
  <2>1. /\ objects' = [slot \in Slots |-> Null]
        /\ next_generation' = next_generation /\ issued' = issued /\ refusals' = refusals
        /\ DestroyUnreferenced
    BY <1>9 DEF Clear
  <2>2. \A slot \in Slots : objects'[slot] = Null
    BY <2>1
  <2>3. HandlesInv'
    BY <2>1, <2>2, <1>1, <1>4, KeepHandles
  <2>4. Referenced' \subseteq Referenced
    BY <2>2, KeepReferenced
  <2>5. ReservationsCounted'
    BY <2>1, <2>4, <1>1, DestroyCounted
  <2> QED
    BY <2>1, <2>3, <2>5, <1>1 DEF CountInv
<1>10. CASE UNCHANGED table_vars
  <2>1. objects' = objects /\ generations' = generations /\ next_generation' = next_generation /\ issued' = issued
        /\ refusals' = refusals /\ m_current_value' = m_current_value
    BY <1>10 DEF table_vars, table
  <2>2. HandlesInv'
    BY <2>1, <1>1, <1>4, KeepHandles
  <2>3. Referenced' = Referenced
    BY <2>1 DEF Referenced
  <2> QED
    BY <2>1, <2>2, <2>3, <1>1 DEF CountInv, ReservationsCounted
<1> QED
  BY <1>5, <1>6, <1>7, <1>8, <1>9, <1>10 DEF TableNext

(* What the invariant says of the handles that were returned and of those that are valid.     *)
LEMMA HandlesMean == CountInv => HandlesSound
<1> SUFFICES ASSUME CountInv PROVE HandlesSound
  OBVIOUS
<1> USE TableAssumption
<1>1. TableTypeOK /\ IssuedMade /\ Spaced /\ InUseAsIssued /\ ReservationsCounted
  BY DEF CountInv, HandlesInv, TableInv
<1>2. Len(issued) \in Nat /\ \A k \in 1 .. Len(issued) : IssuedGeneration(k) \in 1 .. Generations - 1
  BY <1>1, LenProperties DEF IssuedMade
<1>3. ASSUME NEW k \in 1 .. Len(issued), NEW j \in 1 .. k - 1, IssuedGeneration(j) = IssuedGeneration(k)
      PROVE  k - j >= Generations - 1
  <2> SUFFICES ASSUME k - j < Generations - 1 PROVE FALSE
    BY <1>2
  <2>1. After(IssuedGeneration(j), k - j, IssuedGeneration(k))
    BY <1>1, <1>3 DEF Spaced
  <2>2. IssuedGeneration(k) \in Int /\ k - j \in Int /\ k - j # 0
    BY <1>2
  <2> QED
    BY <2>1, <2>2, <1>3 DEF After
<1>4. HandlesRepeatLate
  <2> SUFFICES ASSUME NEW j \in 1 .. Len(issued), NEW k \in 1 .. Len(issued), j < k, issued[j] = issued[k]
               PROVE  k - j >= Generations - 1
    BY DEF HandlesRepeatLate
  <2>1. j \in 1 .. k - 1 /\ IssuedGeneration(j) = IssuedGeneration(k)
    BY <1>2 DEF IssuedGeneration
  <2> QED
    BY <2>1, <1>3
<1>5. ASSUME NEW h \in Handles, IsValid(h)
      PROVE  \E k \in 1 .. Len(issued) :
               /\ IssuedSlot(k) = GetSlot(h) /\ IssuedGeneration(k) = GetGeneration(h)
               /\ \A j \in k + 1 .. Len(issued) : IssuedSlot(j) # GetSlot(h)
  <2>1. GetSlot(h) \in Slots /\ objects[GetSlot(h)] # Null /\ generations[GetSlot(h)] = GetGeneration(h)
    BY <1>5, ValidSlot DEF IsValid
  <2> QED
    BY <2>1, <1>1 DEF InUseAsIssued
<1>6. ASSUME Len(issued) < Generations PROVE StaleHandlesInvalid
  <2> SUFFICES ASSUME NEW k \in 1 .. Len(issued), IsValid(issued[k]) PROVE Latest(k)
    BY DEF StaleHandlesInvalid
  <2>1. GetSlot(issued[k]) \in Slots /\ objects[GetSlot(issued[k])] # Null
        /\ generations[GetSlot(issued[k])] = GetGeneration(issued[k])
    BY <1>1 DEF IssuedMade, IssuedSlot, IsValid
  <2>2. PICK i \in 1 .. Len(issued) :
          /\ IssuedSlot(i) = IssuedSlot(k) /\ IssuedGeneration(i) = IssuedGeneration(k)
          /\ \A j \in i + 1 .. Len(issued) : IssuedSlot(j) # IssuedSlot(k)
    BY <2>1, <1>1 DEF InUseAsIssued, IssuedSlot, IssuedGeneration
  <2>3. i = k
    <3>1. CASE i < k
      <4>1. k - i >= Generations - 1 /\ i \in 1 .. k - 1
        BY <3>1, <2>2, <1>2, <1>3
      <4> QED
        BY <4>1, <2>2, <1>2, <1>6
    <3>2. CASE k < i
      <4>1. i - k >= Generations - 1 /\ k \in 1 .. i - 1
        BY <3>2, <2>2, <1>2, <1>3
      <4> QED
        BY <4>1, <2>2, <1>2, <1>6
    <3> QED
      BY <3>1, <3>2, <1>2
  <2> QED
    BY <2>2, <2>3 DEF Latest, IssuedSlot
<1>7. IssuedUnlessHighBit
  <2> SUFFICES ASSUME NEW h \in Handles, IsValid(h), h < SlotValues * Generations
               PROVE  h \in Range(issued)
    BY DEF IssuedUnlessHighBit
  <2>1. PICK k \in 1 .. Len(issued) : IssuedSlot(k) = GetSlot(h) /\ IssuedGeneration(k) = GetGeneration(h)
    BY <1>5
  <2>2. issued[k] = MakeHandle(GetSlot(h), GetGeneration(h))
    BY <2>1, <1>1 DEF IssuedMade
  <2>3. issued[k] = h
    BY <2>2, ValidMade
  <2>4. k \in DOMAIN issued
    BY <1>1, LenProperties DEF IssuedMade
  <2> QED
    BY <2>3, <2>4 DEF Range
<1> QED
  BY <1>1, <1>4, <1>6, <1>7 DEF HandlesSound

(* However many handles are created, duplicated and closed: until the counter of generations  *)
(* wraps a handle that was returned names its own object only, it is returned again after a   *)
(* whole round only, nothing else is valid, and the resource limit counts what was reserved   *)
(* (HandleTable::Create, Close, IsValid and ResourceLimit::Reserve, Release).                 *)
THEOREM HandlesAlwaysSound == TableSpec => []HandlesSound
<1>1. TableInit => CountInv
  <2> SUFFICES ASSUME TableInit PROVE CountInv
    OBVIOUS
  <2>1. TableInv
    BY TableInitSafe
  <2>2. issued = <<>> /\ Len(issued) = 0 /\ objects = [slot \in Slots |-> Null] /\ refusals = 0 /\ m_current_value = 0
    BY DEF TableInit
  <2>3. IssuedMade /\ Spaced /\ InUseAsIssued
    BY <2>2 DEF IssuedMade, Spaced, InUseAsIssued
  <2>4. Referenced = {}
    BY <2>2 DEF Referenced
  <2>5. ReservationsCounted
    BY <2>2, <2>4, FS_EmptySet DEF ReservationsCounted
  <2> QED
    BY <2>1, <2>2, <2>3, <2>5 DEF CountInv, HandlesInv
<1> QED
  BY <1>1, TableStepKeeps, HandlesMean, PTL DEF TableSpec

-----------------------------------------------------------------------------
(* The path of a save state *)

(* Only the temporary file is ever partial, and not while it may be renamed.                  *)
OnlyTempPartial ==
  /\ files["path"] # Partial /\ files["backup"] # Partial
  /\ pc \in {"delete", "backup", "replace"} => files["temp"] # Partial
  /\ pc = "write" => number # 0

FileInv == TypeOK /\ OnlyTempPartial

(* What rename does: the type of files, and which of them are partial (FileUtil::Rename).     *)
LEMMA RenamedFacts ==
  ASSUME TypeOK, NEW src \in Names, NEW dst \in Names, src # dst, Renamed(src, dst)
  PROVE  /\ files' \in [Names -> {NoFile, Partial} \cup States]
         /\ files'[dst] = files[src] /\ files'[src] = NoFile
         /\ \A f \in Names \ {src, dst} : files'[f] = files[f]
         /\ failures' = failures
  BY DEF Renamed, TypeOK, NoFile

(* A rename that fails changes no file.                                                       *)
LEMMA RenameFailsFacts ==
  ASSUME TypeOK, NEW src, NEW dst, RenameFails(src, dst)
  PROVE  files' = files /\ failures' \in 0 .. Failures
  BY SaveAssumption DEF RenameFails, Fault, TypeOK

(* Delete leaves every file as it is or removes one (FileUtil::Delete).                       *)
LEMMA DeleteFacts ==
  ASSUME TypeOK, NEW f \in Names, Delete(f)
  PROVE  /\ files' \in [Names -> {NoFile, Partial} \cup States]
         /\ \A g \in Names : files'[g] = files[g] \/ files'[g] = NoFile
         /\ failures' \in 0 .. Failures
<1>1. CASE files' = [files EXCEPT ![f] = NoFile] /\ UNCHANGED failures
  BY <1>1 DEF TypeOK
<1>2. CASE Exists(f) /\ UNCHANGED files /\ Fault
  BY <1>2, SaveAssumption DEF TypeOK, Fault
<1> QED
  BY <1>1, <1>2 DEF Delete

(* Every step of SaveState keeps the invariant, and so does the end of the program.           *)
LEMMA StepSafe == FileInv /\ [Next]_vars => FileInv'
<1> SUFFICES ASSUME FileInv, [Next]_vars PROVE FileInv'
  OBVIOUS
<1> USE SaveAssumption
<1>1. TypeOK /\ OnlyTempPartial
  BY DEF FileInv
<1>2. "path" \in Names /\ "temp" \in Names /\ "backup" \in Names /\ NoFile # Partial
  BY DEF Names, NoFile, Partial
<1>3. CASE Open
  <2>1. number' \in 0 .. Saves /\ number' # 0 /\ saved' \in 0 .. number'
    BY <1>1, <1>3 DEF Open, TypeOK
  <2>2. CASE pc' = "write"
    <3>1. files' = [files EXCEPT !["temp"] = Partial]
      BY <2>2, <1>3 DEF Open
    <3> QED
      BY <2>1, <2>2, <3>1, <1>1, <1>2, <1>3 DEF Open, TypeOK, OnlyTempPartial, FileInv
  <2>3. CASE pc' = "exit"
    <3>1. UNCHANGED files /\ failures' \in 0 .. Failures /\ message' = "failed"
      BY <2>3, <1>1, <1>3 DEF Open, Fault, TypeOK
    <3> QED
      BY <2>1, <2>3, <3>1, <1>1, <1>3 DEF Open, TypeOK, OnlyTempPartial, FileInv
  <2> QED
    BY <2>2, <2>3, <1>3 DEF Open
<1>4. CASE Write
  <2>1. number \in States
    BY <1>1, <1>4 DEF TypeOK, OnlyTempPartial, Write, States
  <2> QED
    BY <2>1, <1>1, <1>2, <1>4 DEF Write, TypeOK, OnlyTempPartial, FileInv, Fault, counters, States, Partial
<1>5. CASE DeleteBackup
  BY <1>1, <1>2, <1>5, DeleteFacts DEF DeleteBackup, TypeOK, OnlyTempPartial, FileInv, counters
<1>6. CASE Backup
  <2>1. CASE Renamed("path", "backup")
    <3>1. /\ files' \in [Names -> {NoFile, Partial} \cup States]
          /\ files'["backup"] = files["path"] /\ files'["path"] = NoFile
          /\ files'["temp"] = files["temp"] /\ failures' = failures
      BY <2>1, <1>1, RenamedFacts DEF Names
    <3>2. pc' = "replace" \/ pc' = "exit"
      BY <1>6 DEF Backup
    <3> QED
      BY <3>1, <3>2, <1>1, <1>2, <1>6 DEF Backup, TypeOK, OnlyTempPartial, FileInv, counters
  <2>2. CASE RenameFails("path", "backup")
    <3>1. files' = files /\ failures' \in 0 .. Failures
      BY <2>2, <1>1, RenameFailsFacts
    <3> QED
      BY <3>1, <1>1, <1>2, <1>6 DEF Backup, TypeOK, OnlyTempPartial, FileInv, counters
  <2>3. CASE ~Exists("path")
    BY <2>3, <1>1, <1>2, <1>6 DEF Backup, TypeOK, OnlyTempPartial, FileInv, counters
  <2> QED
    BY <2>1, <2>2, <2>3, <1>6 DEF Backup
<1>7. CASE Replace
  <2>1. CASE Renamed("temp", "path")
    BY <2>1, <1>1, <1>2, <1>7, RenamedFacts DEF Replace, TypeOK, OnlyTempPartial, FileInv, counters, Names
  <2>2. CASE RenameFails("temp", "path")
    <3>1. files' = files /\ failures' \in 0 .. Failures
      BY <2>2, <1>1, RenameFailsFacts
    <3> QED
      BY <3>1, <1>1, <1>2, <1>7 DEF Replace, TypeOK, OnlyTempPartial, FileInv, counters
  <2> QED
    BY <2>1, <2>2, <1>7 DEF Replace
<1>8. CASE Restore
  <2>1. CASE Renamed("backup", "path")
    <3>1. /\ files' \in [Names -> {NoFile, Partial} \cup States]
          /\ files'["path"] = files["backup"] /\ files'["backup"] = NoFile
          /\ failures' = failures
      BY <2>1, <1>1, RenamedFacts DEF Names
    <3> QED
      BY <3>1, <1>1, <1>2, <1>8 DEF Restore, TypeOK, OnlyTempPartial, FileInv, counters
  <2>2. CASE RenameFails("backup", "path")
    <3>1. files' = files /\ failures' \in 0 .. Failures
      BY <2>2, <1>1, RenameFailsFacts
    <3> QED
      BY <3>1, <1>1, <1>2, <1>8 DEF Restore, TypeOK, OnlyTempPartial, FileInv, counters
  <2>3. CASE UNCHANGED <<files, failures>>
    BY <2>3, <1>1, <1>2, <1>8 DEF Restore, TypeOK, OnlyTempPartial, FileInv, counters
  <2> QED
    BY <2>1, <2>2, <2>3, <1>8 DEF Restore
<1>9. CASE Exit
  BY <1>1, <1>2, <1>9, DeleteFacts DEF Exit, TypeOK, OnlyTempPartial, FileInv, counters
<1>10. CASE Undo
  <2>1. CASE Renamed("backup", "path")
    BY <2>1, <1>1, <1>2, <1>10, RenamedFacts DEF Undo, TypeOK, OnlyTempPartial, FileInv, counters, Names
  <2>2. CASE RenameFails("backup", "path")
    <3>1. files' = files /\ failures' \in 0 .. Failures
      BY <2>2, <1>1, RenameFailsFacts
    <3> QED
      BY <3>1, <1>1, <1>2, <1>10 DEF Undo, TypeOK, OnlyTempPartial, FileInv, counters
  <2>3. CASE UNCHANGED <<files, failures>>
    BY <2>3, <1>1, <1>2, <1>10 DEF Undo, TypeOK, OnlyTempPartial, FileInv, counters
  <2> QED
    BY <2>1, <2>2, <2>3, <1>10 DEF Undo
<1>11. CASE Done
  <2>1. CASE Delete("backup")
    BY <2>1, <1>1, <1>2, <1>11, DeleteFacts DEF Done, TypeOK, OnlyTempPartial, FileInv
  <2>2. CASE UNCHANGED <<files, failures>>
    BY <2>2, <1>1, <1>2, <1>11 DEF Done, TypeOK, OnlyTempPartial, FileInv
  <2> QED
    BY <2>1, <2>2, <1>11 DEF Done
<1>12. CASE Crash
  BY <1>1, <1>12 DEF Crash, TypeOK, OnlyTempPartial, FileInv
<1>13. CASE UNCHANGED vars
  BY <1>1, <1>13 DEF vars, TypeOK, OnlyTempPartial, FileInv
<1> QED
  BY <1>3, <1>4, <1>5, <1>6, <1>7, <1>8, <1>9, <1>10, <1>11, <1>12, <1>13 DEF Next

(* The initial state, in which there is no file, satisfies the invariant.                    *)
LEMMA InitSafe == Init => FileInv
<1> SUFFICES ASSUME Init PROVE FileInv
  OBVIOUS
<1>1. NoFile # Partial /\ "path" \in Names /\ "backup" \in Names
  BY DEF NoFile, Partial, Names
<1>2. TypeOK
  <2>1. files \in [Names -> {NoFile, Partial} \cup States]
    BY DEF Init
  <2>2. /\ number \in 0 .. Saves /\ saved \in 0 .. number
        /\ failures \in 0 .. Failures /\ crashes \in 0 .. Crashes
    BY SaveAssumption DEF Init
  <2> QED
    BY <2>1, <2>2 DEF Init, TypeOK
<1>3. files["path"] # Partial /\ files["backup"] # Partial
  <2>1. files = [f \in Names |-> NoFile]
    BY DEF Init
  <2> QED
    BY <2>1, <1>1, Zenon
<1>4. pc \notin {"delete", "backup", "replace", "write"}
  BY DEF Init
<1> QED
  BY <1>2, <1>3, <1>4 DEF FileInv, OnlyTempPartial

(* Whatever fails and whenever the program ends, the path of the slot never holds a file that *)
(* was written in part (System::SaveState writes to the temporary file and renames).          *)
THEOREM PathAlwaysComplete == Spec => [](TypeOK /\ PathComplete)
<1>1. FileInv => TypeOK /\ PathComplete
  BY DEF FileInv, OnlyTempPartial, PathComplete
<1> QED
  BY <1>1, InitSafe, StepSafe, PTL DEF Spec

-----------------------------------------------------------------------------
(* What becomes of the state that was saved last *)

(* The failures and ends of the program that a saved state outlives.                          *)
Covered == (crashes = 0 /\ failures <= 3) \/ (crashes <= 1 /\ failures = 0)

(* Before that many the state is at its path whenever no save is under way.                   *)
Trouble == failures >= 3 \/ crashes >= 1

(* From the write to the rename the temporary file is the new state, which then is at the     *)
(* path; until the rename of the old one there is no backup of it.                            *)
NewComplete ==
  /\ pc \in {"delete", "backup", "replace", "restore"} => files["temp"] = number /\ number # 0
  /\ pc = "done" => files["path"] = number /\ number # 0
  /\ pc \in {"write", "delete", "backup"} => ~backup_created

(* Where the state that was saved last is at each step: the backup is the only file that has  *)
(* it between the two renames, and for longer only after much trouble.                        *)
WhereSaved ==
  LET only == ~Exists("path") /\ Holds("backup")
  IN /\ pc \in {"idle", "write"} =>
          \/ Holds("path")
          \/ Trouble /\ only /\ (pc = "idle" /\ crashes = 0 => message = "kept")
     /\ pc \in {"delete", "backup"} => Holds("path") \/ (Trouble /\ ~Exists("path"))
     /\ pc = "replace" =>
          ~Exists("path") /\ (IF backup_created THEN Holds("backup") ELSE Trouble)
     /\ pc = "restore" => failures >= 1 /\ backup_created /\ only
     /\ pc \in {"exit", "undo"} =>
          Holds("path") \/ (failures >= 2 /\ message = "kept" /\ backup_created /\ only)

(* The three conditions on the files together.                                                *)
KeptInv == FileInv /\ NewComplete /\ (Covered /\ saved # 0 => WhereSaved)

(* What a rename of one of the three files does to each of them.                              *)
LEMMA RenamedValues ==
  ASSUME TypeOK, NEW src \in Names, NEW dst \in Names, src # dst, Renamed(src, dst)
  PROVE  /\ files[src] # NoFile
         /\ files' = [f \in Names |-> IF f = dst THEN files[src] ELSE IF f = src THEN NoFile ELSE files[f]]
         /\ failures' = failures
  BY DEF Renamed, CanRename, Exists, TypeOK

(* What a rename that fails says of the files: an operation failed, or nothing was there, or  *)
(* something was in the way.                                                                  *)
LEMMA RenameFailsValues ==
  ASSUME NEW src, NEW dst, RenameFails(src, dst)
  PROVE  /\ files' = files
         /\ \/ failures' = failures + 1
            \/ failures' = failures /\ (~Exists(src) \/ Exists(dst))
  BY DEF RenameFails, CanRename, Fault

(* Deleting a file leaves the others alone; it stays there only if the operation failed.      *)
LEMMA DeleteValues ==
  ASSUME TypeOK, NEW f \in Names, Delete(f)
  PROVE  /\ \A g \in Names \ {f} : files'[g] = files[g]
         /\ \/ failures' = failures /\ files'[f] = NoFile
            \/ failures' = failures + 1 /\ files'[f] = files[f]
  BY DEF Delete, Fault, TypeOK

(* Every step of SaveState leaves the state that was saved last where WhereSaved says.        *)
LEMMA StepKeeps == KeptInv /\ [Next]_vars => KeptInv'
<1> SUFFICES ASSUME KeptInv, [Next]_vars PROVE KeptInv'
  OBVIOUS
<1> USE SaveAssumption DEF Exists, Holds
<1>1. TypeOK /\ OnlyTempPartial /\ NewComplete /\ (Covered /\ saved # 0 => WhereSaved)
  BY DEF KeptInv, FileInv
<1>2. FileInv'
  BY StepSafe DEF KeptInv
<1>3. TypeOK'
  BY <1>2 DEF FileInv
<1>4. "path" \in Names /\ "temp" \in Names /\ "backup" \in Names
  BY DEF Names
<1>5. failures \in Nat /\ crashes \in Nat /\ number \in Nat /\ saved \in Nat /\ saved <= number
      /\ (\A f \in Names : files[f] \in Int)
  BY <1>1 DEF TypeOK, NoFile, Partial, States
<1> DEFINE Goal == NewComplete' /\ (Covered' /\ saved' # 0 => WhereSaved')
<1> SUFFICES Goal
  BY <1>2 DEF KeptInv
<1> USE DEF NewComplete, Covered, Trouble, WhereSaved, NoFile, Partial
<1>6. CASE Open
  BY <1>1, <1>4, <1>5, <1>6 DEF Open, Fault, TypeOK
<1>7. CASE Write
  BY <1>1, <1>4, <1>5, <1>7 DEF Write, Fault, counters, TypeOK, OnlyTempPartial
<1>8. CASE DeleteBackup
  <2>1. /\ files'["path"] = files["path"] /\ files'["temp"] = files["temp"]
        /\ \/ failures' = failures /\ files'["backup"] = NoFile
           \/ failures' = failures + 1 /\ files'["backup"] = files["backup"]
    BY <1>1, <1>8, DeleteValues DEF DeleteBackup, Names
  <2> QED
    BY <2>1, <1>1, <1>4, <1>5, <1>8 DEF DeleteBackup, counters
<1>9. CASE Backup
  <2>1. CASE Renamed("path", "backup") /\ pc' = "replace" /\ backup_created' = TRUE
    <3>1. files["path"] # NoFile /\ failures' = failures
          /\ files'["backup"] = files["path"] /\ files'["path"] = NoFile /\ files'["temp"] = files["temp"]
      BY <2>1, <1>1, <1>4, RenamedValues
    <3>2. backup_created' /\ pc' = "replace" /\ number' = number /\ saved' = saved /\ crashes' = crashes /\ pc = "backup"
      BY <2>1, <1>9 DEF Backup, counters
    <3>3. Covered /\ saved # 0 => Holds("path") \/ (Trouble /\ ~Exists("path"))
      BY <1>1, <3>2
    <3>4. NewComplete'
      BY <3>1, <3>2, <1>1
    <3>5. Covered' /\ saved' # 0 => ~Exists("path")' /\ Holds("backup")'
      BY <3>1, <3>2, <3>3
    <3>6. Covered' /\ saved' # 0 => WhereSaved'
      BY <3>2, <3>5
    <3> QED
      BY <3>4, <3>6
  <2>2. CASE Exists("path") /\ RenameFails("path", "backup") /\ pc' = "exit"
    <3>1. /\ files' = files
          /\ \/ failures' = failures + 1
             \/ failures' = failures /\ (~Exists("path") \/ Exists("backup"))
      BY <2>2, RenameFailsValues
    <3>2. pc = "backup" /\ pc' = "exit" /\ Exists("path") /\ number' = number /\ saved' = saved /\ crashes' = crashes
      BY <2>2, <1>9 DEF Backup, counters
    <3>3. Covered /\ saved # 0 => Holds("path")
      BY <1>1, <3>2
    <3>4. NewComplete'
      BY <3>1, <3>2, <1>1, <1>5
    <3>5. Covered' /\ saved' # 0 => Holds("path")'
      BY <3>1, <3>2, <3>3, <1>1, <1>5
    <3>6. Covered' /\ saved' # 0 => WhereSaved'
      BY <3>2, <3>5
    <3> QED
      BY <3>4, <3>6
  <2>3. CASE ~Exists("path") /\ pc' = "replace" /\ UNCHANGED <<files, failures, backup_created>>
    BY <2>3, <1>1, <1>4, <1>5, <1>9 DEF Backup, counters
  <2> QED
    BY <2>1, <2>2, <2>3, <1>9 DEF Backup
<1>10. CASE Replace
  <2>1. CASE Renamed("temp", "path") /\ pc' = "done"
    <3>1. files["temp"] # NoFile /\ failures' = failures
          /\ files'["path"] = files["temp"] /\ files'["temp"] = NoFile /\ files'["backup"] = files["backup"]
      BY <2>1, <1>1, <1>4, RenamedValues
    <3>2. pc = "replace" /\ pc' = "done" /\ number' = number /\ saved' = saved /\ crashes' = crashes
      BY <2>1, <1>10 DEF Replace, counters
    <3>3. Covered /\ saved # 0 => TRUE
      BY <1>1, <3>2
    <3>4. NewComplete'
      BY <3>1, <3>2, <1>1, <1>5
    <3>5. Covered' /\ saved' # 0 => TRUE
      BY <3>1, <3>2, <3>3, <1>1, <1>5
    <3>6. Covered' /\ saved' # 0 => WhereSaved'
      BY <3>2, <3>5
    <3> QED
      BY <3>4, <3>6
  <2>2. CASE RenameFails("temp", "path") /\ pc' = "restore"
    <3>1. /\ files' = files
          /\ \/ failures' = failures + 1
             \/ failures' = failures /\ (~Exists("temp") \/ Exists("path"))
      BY <2>2, RenameFailsValues
    <3>2. pc = "replace" /\ pc' = "restore" /\ backup_created' = backup_created /\ number' = number /\ saved' = saved /\ crashes' = crashes
      BY <2>2, <1>10 DEF Replace, counters
    <3>3. Covered /\ saved # 0 => ~Exists("path") /\ (IF backup_created THEN Holds("backup") ELSE Trouble)
      BY <1>1, <3>2
    <3>4. NewComplete'
      BY <3>1, <3>2, <1>1, <1>5
    <3>5. Covered' /\ saved' # 0 => failures' >= 1 /\ backup_created' /\ ~Exists("path")' /\ Holds("backup")'
      BY <3>1, <3>2, <3>3, <1>1, <1>5
    <3>6. Covered' /\ saved' # 0 => WhereSaved'
      BY <3>2, <3>5
    <3> QED
      BY <3>4, <3>6
  <2> QED
    BY <2>1, <2>2, <1>10 DEF Replace
<1>11. CASE Restore
  <2>1. CASE Renamed("backup", "path")
    <3>1. files["backup"] # NoFile /\ failures' = failures
          /\ files'["path"] = files["backup"] /\ files'["backup"] = NoFile /\ files'["temp"] = files["temp"]
      BY <2>1, <1>1, <1>4, RenamedValues
    <3>2. pc = "restore" /\ pc' = "exit" /\ number' = number /\ saved' = saved /\ crashes' = crashes
      BY <2>1, <1>11 DEF Restore, counters
    <3>3. Covered /\ saved # 0 => Holds("backup")
      BY <1>1, <3>2
    <3>4. NewComplete'
      BY <3>1, <3>2, <1>1, <1>5
    <3>5. Covered' /\ saved' # 0 => Holds("path")'
      BY <3>1, <3>2, <3>3, <1>1, <1>5
    <3>6. Covered' /\ saved' # 0 => WhereSaved'
      BY <3>2, <3>5
    <3> QED
      BY <3>4, <3>6
  <2>2. CASE RenameFails("backup", "path") /\ backup_created' = TRUE /\ message' = "kept"
    <3>1. /\ files' = files
          /\ \/ failures' = failures + 1
             \/ failures' = failures /\ (~Exists("backup") \/ Exists("path"))
      BY <2>2, RenameFailsValues
    <3>2. pc = "restore" /\ pc' = "exit" /\ number' = number /\ saved' = saved /\ crashes' = crashes
      BY <1>11 DEF Restore, counters
    <3>3. Covered /\ saved # 0 => failures >= 1 /\ ~Exists("path") /\ Holds("backup")
      BY <1>1, <3>2
    <3>4. NewComplete'
      BY <3>2
    <3>5. Covered' /\ saved' # 0 => failures' >= 2 /\ ~Exists("path")' /\ Holds("backup")'
      BY <3>1, <3>2, <3>3, <1>5
    <3>6. Covered' /\ saved' # 0 => WhereSaved'
      BY <2>2, <3>2, <3>5
    <3> QED
      BY <3>4, <3>6
  <2>3. CASE ~backup_created /\ UNCHANGED <<files, failures>>
    BY <2>3, <1>1, <1>4, <1>5, <1>11 DEF Restore, counters
  <2> QED
    BY <2>1, <2>2, <2>3, <1>11 DEF Restore
<1>12. CASE Exit
  <2>1. /\ files'["path"] = files["path"] /\ files'["backup"] = files["backup"]
        /\ \/ failures' = failures /\ files'["temp"] = NoFile
           \/ failures' = failures + 1 /\ files'["temp"] = files["temp"]
    BY <1>1, <1>12, DeleteValues DEF Exit, Names
  <2> QED
    BY <2>1, <1>1, <1>4, <1>5, <1>12 DEF Exit, counters
<1>13. CASE Undo
  <2>1. CASE Renamed("backup", "path")
    <3>1. files["backup"] # NoFile /\ failures' = failures
          /\ files'["path"] = files["backup"] /\ files'["backup"] = NoFile /\ files'["temp"] = files["temp"]
      BY <2>1, <1>1, <1>4, RenamedValues
    <3> QED
      BY <3>1, <1>1, <1>4, <1>5, <1>13 DEF Undo, counters
  <2>2. CASE RenameFails("backup", "path")
    <3>1. /\ files' = files
          /\ \/ failures' = failures + 1
             \/ failures' = failures /\ (~Exists("backup") \/ Exists("path"))
      BY <2>2, RenameFailsValues
    <3> QED
      BY <3>1, <1>1, <1>4, <1>5, <1>13 DEF Undo, counters
  <2>3. CASE ~(backup_created /\ ~Exists("path")) /\ UNCHANGED <<files, failures>>
    BY <2>3, <1>1, <1>4, <1>5, <1>13 DEF Undo, counters
  <2> QED
    BY <2>1, <2>2, <2>3, <1>13 DEF Undo
<1>14. CASE Done
  <2>1. CASE Delete("backup")
    <3>1. /\ files'["path"] = files["path"] /\ files'["temp"] = files["temp"]
          /\ \/ failures' = failures /\ files'["backup"] = NoFile
             \/ failures' = failures + 1 /\ files'["backup"] = files["backup"]
      BY <2>1, <1>1, DeleteValues DEF Names
    <3> QED
      BY <3>1, <1>1, <1>4, <1>5, <1>14 DEF Done
  <2>2. CASE UNCHANGED <<files, failures>>
    BY <2>2, <1>1, <1>4, <1>5, <1>14 DEF Done
  <2> QED
    BY <2>1, <2>2, <1>14 DEF Done
<1>15. CASE Crash
  <2>1. pc # "idle" /\ pc' = "idle" /\ crashes' = crashes + 1 /\ UNCHANGED <<files, backup_created, number, saved, failures>>
    BY <1>15 DEF Crash
  <2>2. Covered' /\ saved # 0 => WhereSaved /\ crashes = 0 /\ failures = 0
    BY <2>1, <1>1, <1>5
  <2>3. Covered' /\ saved # 0 => Holds("path") \/ (~Exists("path") /\ Holds("backup"))
    <3>1. pc \in {"write", "delete", "backup", "replace", "restore", "exit", "undo", "done"}
      BY <2>1, <1>1 DEF TypeOK
    <3> QED
      BY <3>1, <2>2, <1>1, <1>5
  <2>4. Covered' /\ saved' # 0 => WhereSaved'
    BY <2>1, <2>3, <1>5
  <2> QED
    BY <2>1, <2>4
<1>16. CASE UNCHANGED vars
  BY <1>1, <1>16 DEF vars
<1> QED
  BY <1>6, <1>7, <1>8, <1>9, <1>10, <1>11, <1>12, <1>13, <1>14, <1>15, <1>16 DEF Next

(* The state that was saved last outlives three operations on files that fail, and can be     *)
(* loaded between saves or is named in the message; and it outlives the end of the program at *)
(* any one step of SaveState (System::SaveState, the renames and the scope guard).            *)
THEOREM StateOutlivesFaults == Spec => []StatesKept
<1>1. Init => KeptInv
  BY InitSafe DEF KeptInv, Init, NewComplete
<1>2. KeptInv => StatesKept
  <2> SUFFICES ASSUME KeptInv PROVE StatesKept
    OBVIOUS
  <2>1. TypeOK /\ NewComplete /\ (Covered /\ saved # 0 => WhereSaved)
    BY DEF KeptInv, FileInv
  <2>2. "path" \in Names /\ "temp" \in Names /\ "backup" \in Names
    BY DEF Names
  <2>3. failures \in Nat /\ crashes \in Nat /\ number \in Nat /\ saved \in Nat /\ saved <= number
    BY <2>1, SaveAssumption DEF TypeOK
  <2>4. ASSUME Covered, saved # 0 PROVE StateKept
    BY <2>1, <2>2, <2>3, <2>4 DEF WhereSaved, NewComplete, StateKept, Holds, TypeOK, Exists
  <2>5. ASSUME crashes = 0, failures <= 3, saved # 0, pc = "idle" PROVE Loadable
    BY <2>1, <2>3, <2>5 DEF WhereSaved, Covered, Loadable
  <2> QED
    BY <2>1, <2>3, <2>4, <2>5 DEF StatesKept, Covered, StateKept, Loadable
<1> QED
  BY <1>1, <1>2, StepKeeps, PTL DEF Spec

-----------------------------------------------------------------------------
(* The database of games *)

(* What the invariant adds to the types: the temporary file holds what the change writes or    *)
(* cannot be parsed, and the latter only once a file was cut short.                            *)
FilesAgree ==
  /\ step = "write" => temporary = Unparsable
  /\ step \in {"rename", "truncate", "copy"} => temporary \in {data, Unparsable}
  /\ step = "copy" => path = Unparsable
  /\ ~cut /\ step # "idle" => data # Unparsable
  /\ ~cut /\ step \in {"rename", "truncate", "copy"} => temporary = data

(* What the change writes has all known records and none that was removed, if it was read.     *)
RecordsAgree ==
  /\ path # Unparsable => known \subseteq Found
  /\ removed \cap Found = {}
  /\ step # "idle" /\ data # Unparsable => known \subseteq data.records /\ change.saves \subseteq data.records
  /\ step # "idle" => removed \cap data.records = {} /\ change.removes \cap data.records = {}

DatabaseInv ==
  DatabaseTypeOK /\ FilesAgree /\ StaysParsable /\ (misreads = 0 => RecordsAgree)

FileContents == [state : {"absent", "unparsable", "complete"}, records : SUBSET Roms]

(* The contents a file may have.                                                               *)
LEMMA ContentsFacts ==
  /\ {Absent, Unparsable} \subseteq FileContents /\ Absent.records = {} /\ Unparsable.records = {}
  /\ \A S \in SUBSET Roms :
       Complete(S) \in FileContents /\ Complete(S) # Unparsable /\ Complete(S).records = S
BY DEF FileContents, Absent, Unparsable, Complete

(* A database is loaded: that of the file, unless it is not there or was not opened.           *)
LEMMA LoadFacts ==
  ASSUME DatabaseInv, NEW d, Load(d)
  PROVE  /\ step = "idle" /\ UNCHANGED <<replaces, path, temporary, cut>>
         /\ d \in FileContents
         /\ {changes', misreads', errors', late_errors', endings'} \subseteq Nat
         /\ ~cut => d # Unparsable
         /\ misreads' = 0 => /\ misreads = 0 /\ removed \cap d.records = {}
                             /\ d.records = Found
                             /\ d # Unparsable => known \subseteq d.records
<1>1. /\ step = "idle" /\ changes' = changes + 1 /\ UNCHANGED <<replaces, path, temporary, cut>>
      /\ UNCHANGED <<errors, late_errors, endings>>
      /\ \/ d = Loaded /\ misreads' = misreads
         \/ path # Absent /\ d = Complete({}) /\ misreads' = misreads + 1
  BY DEF Load, Called, card
<1>2. path \in FileContents /\ {changes, misreads, errors, late_errors, endings} \subseteq Nat
  BY DEF DatabaseInv, DatabaseTypeOK, FileContents
<1>3. /\ Loaded \in FileContents /\ Loaded.records = Found
      /\ Loaded = Unparsable => path = Unparsable
  BY <1>2, ContentsFacts DEF Loaded, Found
<1>4. d \in FileContents /\ (d = Unparsable => path = Unparsable)
  BY <1>1, <1>3, ContentsFacts
<1>5. ~cut => d # Unparsable
  BY <1>1, <1>4 DEF DatabaseInv, StaysParsable
<1>6. {changes', misreads', errors', late_errors', endings'} \subseteq Nat
  BY <1>1, <1>2
<1>7. ASSUME misreads' = 0
      PROVE  /\ misreads = 0 /\ removed \cap d.records = {}
             /\ d.records = Found
             /\ d # Unparsable => known \subseteq d.records
  <2>1. d = Loaded /\ misreads = 0
    BY <1>1, <1>2, <1>7
  <2>2. d # Unparsable => path # Unparsable
    BY <2>1 DEF Loaded, Absent, Unparsable
  <2> QED
    BY <2>1, <2>2, <1>3 DEF DatabaseInv, RecordsAgree
<1> QED
  BY <1>1, <1>4, <1>5, <1>6, <1>7

(* A change begins with what it is to write.                                                   *)
LEMMA BeginKeeps ==
  ASSUME DatabaseInv, NEW d, Load(d),
         NEW saves \in SUBSET Roms, NEW removes \in SUBSET Roms, NEW new \in FileContents,
         Begin(saves, removes, new),
         new = Unparsable <=> d = Unparsable,
         new.records = (d.records \cup saves) \ removes, saves \cap removes = {}
  PROVE  DatabaseInv'
<1>1. /\ step' = "open" /\ change' = [saves |-> saves, removes |-> removes] /\ data' = new
      /\ known' = known \ removes /\ removed' = removed \ saves
  BY DEF Begin
<1>2. /\ step = "idle" /\ UNCHANGED <<replaces, path, temporary, cut>> /\ d \in FileContents
      /\ {changes', misreads', errors', late_errors', endings'} \subseteq Nat
      /\ ~cut => d # Unparsable
  BY LoadFacts
<1>3. change' \in [saves : SUBSET Roms, removes : SUBSET Roms]
      /\ change'.saves = saves /\ change'.removes = removes
  BY <1>1
<1>4. DatabaseTypeOK'
  BY <1>1, <1>2, <1>3 DEF DatabaseInv, DatabaseTypeOK, FileContents
<1>5. FilesAgree' /\ StaysParsable'
  BY <1>1, <1>2 DEF DatabaseInv, FilesAgree, StaysParsable
<1>6. ASSUME misreads' = 0 PROVE RecordsAgree'
  <2>1. /\ misreads = 0 /\ removed \cap d.records = {} /\ d.records = Found
        /\ d # Unparsable => known \subseteq d.records
    BY <1>6, LoadFacts
  <2>2. Found' = Found /\ (path # Unparsable => known \subseteq Found)
    BY <1>2, <2>1 DEF Found, DatabaseInv, RecordsAgree
  <2>3. path' # Unparsable => known' \subseteq Found'
    BY <1>1, <1>2, <2>2
  <2>4. removed' \cap Found' = {}
    BY <1>1, <2>1, <2>2
  <2>5. data' # Unparsable => known' \subseteq data'.records /\ change'.saves \subseteq data'.records
    BY <1>1, <1>3, <2>1
  <2>6. removed' \cap data'.records = {} /\ change'.removes \cap data'.records = {}
    BY <1>1, <1>3, <2>1
  <2> QED
    BY <2>3, <2>4, <2>5, <2>6 DEF RecordsAgree
<1> QED
  BY <1>4, <1>5, <1>6 DEF DatabaseInv

(* A record is saved.                                                                          *)
LEMMA SaveKeeps ==
  ASSUME DatabaseInv, NEW d, NEW rom \in Roms, SaveRecord(rom, d)
  PROVE  DatabaseInv'
<1>1. Load(d) /\ d # Unparsable /\ Begin({rom}, {}, Complete(d.records \cup {rom}))
  BY DEF SaveRecord
<1>2. d.records \cup {rom} \in SUBSET Roms
  BY <1>1, LoadFacts DEF FileContents
<1>3. /\ Complete(d.records \cup {rom}) \in FileContents
      /\ Complete(d.records \cup {rom}) # Unparsable
      /\ Complete(d.records \cup {rom}).records = (d.records \cup {rom}) \ {}
  BY <1>2, ContentsFacts
<1> QED
  BY <1>1, <1>3, BeginKeeps

(* A record is removed, or there is none and nothing is written.                               *)
LEMMA RemoveKeeps ==
  ASSUME DatabaseInv, NEW d, NEW rom \in Roms, RemoveRecord(rom, d)
  PROVE  DatabaseInv'
<1>1. Load(d) /\ d # Unparsable
  BY DEF RemoveRecord
<1>2. CASE rom \in d.records /\ Begin({}, {rom}, Complete(d.records \ {rom}))
  <2>1. d.records \ {rom} \in SUBSET Roms
    BY <1>1, LoadFacts DEF FileContents
  <2>2. /\ Complete(d.records \ {rom}) \in FileContents
        /\ Complete(d.records \ {rom}) # Unparsable
        /\ Complete(d.records \ {rom}).records = (d.records \cup {}) \ {rom}
    BY <2>1, ContentsFacts
  <2> QED
    BY <1>1, <1>2, <2>2, BeginKeeps
<1>3. CASE /\ rom \notin d.records /\ known' = known \ {rom} /\ removed' = removed \cup {rom}
           /\ UNCHANGED <<step, data, change>>
  <2>1. /\ step = "idle" /\ UNCHANGED <<replaces, path, temporary, cut>>
        /\ {changes', misreads', errors', late_errors', endings'} \subseteq Nat
    BY <1>1, LoadFacts
  <2>2. DatabaseTypeOK'
    BY <1>3, <2>1 DEF DatabaseInv, DatabaseTypeOK
  <2>3. FilesAgree' /\ StaysParsable'
    BY <1>3, <2>1 DEF DatabaseInv, FilesAgree, StaysParsable
  <2>4. misreads' = 0 => /\ misreads = 0 /\ removed \cap d.records = {} /\ d.records = Found
    BY <1>1, LoadFacts
  <2>5. misreads' = 0 => RecordsAgree'
    BY <1>3, <2>1, <2>4 DEF DatabaseInv, RecordsAgree, Found
  <2> QED
    BY <2>2, <2>3, <2>5 DEF DatabaseInv
<1> QED
  BY <1>2, <1>3 DEF RemoveRecord

(* A change throws, and nothing is written.                                                    *)
LEMMA ThrowKeeps ==
  ASSUME DatabaseInv, ChangeThrows
  PROVE  DatabaseInv'
<1>1. /\ step = "idle" /\ changes' = changes + 1
      /\ UNCHANGED <<replaces, path, temporary, cut, misreads, errors, late_errors, endings>>
      /\ UNCHANGED <<step, data, change, known, removed>>
  BY DEF ChangeThrows, Called, card
<1>2. {changes', misreads', errors', late_errors', endings'} \subseteq Nat
  BY <1>1 DEF DatabaseInv, DatabaseTypeOK
<1>3. DatabaseTypeOK' /\ FilesAgree' /\ StaysParsable'
  BY <1>1, <1>2 DEF DatabaseInv, DatabaseTypeOK, FilesAgree, StaysParsable
<1>4. misreads' = 0 => RecordsAgree'
  BY <1>1 DEF DatabaseInv, RecordsAgree, Found
<1> QED
  BY <1>3, <1>4 DEF DatabaseInv

(* All records get the same settings.                                                          *)
LEMMA SyncKeeps ==
  ASSUME DatabaseInv, NEW d, SyncDisplaySettings(d)
  PROVE  DatabaseInv'
<1>1. Load(d) /\ Begin({}, {}, d)
  BY DEF SyncDisplaySettings
<1>2. d \in FileContents /\ d.records = (d.records \cup {}) \ {}
  BY <1>1, LoadFacts
<1> QED
  BY <1>1, <1>2, BeginKeeps

(* What Return leaves of the types.                                                            *)
LEMMA ReturnType ==
  ASSUME DatabaseInv, NEW reported, Return(reported), replaces' = replaces, cut' \in BOOLEAN,
         {path', temporary'} \subseteq {path, temporary, Absent, Unparsable},
         {changes', misreads', errors', late_errors', endings'} \subseteq Nat
  PROVE  DatabaseTypeOK'
<1>1. change \in [saves : SUBSET Roms, removes : SUBSET Roms] /\ {known, removed} \subseteq SUBSET Roms
  BY DEF DatabaseInv, DatabaseTypeOK
<1>2. /\ {known', removed'} \subseteq SUBSET Roms /\ step' = "idle" /\ data' = Absent
      /\ change' \in [saves : SUBSET Roms, removes : SUBSET Roms]
  BY <1>1 DEF Return, NoChange
<1>3. {path', temporary', data'} \subseteq FileContents
  BY <1>2, ContentsFacts DEF DatabaseInv, DatabaseTypeOK, FileContents
<1> QED
  BY <1>2, <1>3 DEF DatabaseInv, DatabaseTypeOK, FileContents

(* A change is given up, by a failure that says so or by the end of the program, and the       *)
(* database is as it was; the temporary file is what it may be.                                *)
LEMMA GivenUp ==
  ASSUME DatabaseInv, step # "idle", Return(FALSE), DatabaseTypeOK', UNCHANGED <<path, misreads>>,
         cut \/ step = "copy" => cut'
  PROVE  DatabaseInv'
<1>1. Found' = Found /\ known' = known /\ removed' = removed /\ step' = "idle"
  BY DEF Found, Return
<1>2. FilesAgree' /\ StaysParsable'
  BY <1>1 DEF DatabaseInv, FilesAgree, StaysParsable
<1>3. misreads' = 0 => RecordsAgree'
  BY <1>1 DEF DatabaseInv, RecordsAgree
<1> QED
  BY <1>2, <1>3 DEF DatabaseInv

(* A change returns, and the database is what it made of it, or cut short.                     *)
LEMMA ChangeReturns ==
  ASSUME DatabaseInv, step \in {"rename", "copy"}, Return(TRUE), DatabaseTypeOK', misreads' = misreads,
         cut => cut', path' = temporary \/ (path' = Unparsable /\ cut')
  PROVE  DatabaseInv'
<1>1. /\ step' = "idle" /\ known' = known \cup change.saves
      /\ removed' = removed \cup change.removes
  BY DEF Return
<1>2. path' \in {data, Unparsable}
  BY DEF DatabaseInv, FilesAgree
<1>3. FilesAgree' /\ StaysParsable'
  BY <1>1 DEF DatabaseInv, FilesAgree, StaysParsable
<1>4. ASSUME misreads' = 0 PROVE RecordsAgree'
  <2>1. RecordsAgree /\ step # "idle"
    BY <1>4 DEF DatabaseInv
  <2>2. CASE path' = Unparsable
    BY <1>1, <2>2, ContentsFacts DEF RecordsAgree, Found
  <2>3. CASE path' = data /\ path' # Unparsable
    BY <1>1, <2>1, <2>3 DEF RecordsAgree, Found
  <2> QED
    BY <1>2, <2>2, <2>3
<1> QED
  BY <1>3, <1>4 DEF DatabaseInv

(* A step of a change that neither returns nor touches the database file.                      *)
LEMMA ContinueKeeps ==
  ASSUME DatabaseInv, step # "idle", NEW next \in {"write", "rename", "truncate"}, Continue(next),
         UNCHANGED <<replaces, path, misreads>>, FilesAgree', cut' \in BOOLEAN, cut => cut',
         step # "copy", temporary' \in {temporary, data, Unparsable},
         {changes', misreads', errors', late_errors', endings'} \subseteq Nat
  PROVE  DatabaseInv'
<1>1. step' = next /\ UNCHANGED <<data, change, known, removed>>
  BY DEF Continue
<1>2. DatabaseTypeOK'
  BY <1>1, ContentsFacts DEF DatabaseInv, DatabaseTypeOK, FileContents
<1>3. StaysParsable'
  BY <1>1 DEF DatabaseInv, StaysParsable
<1>4. misreads' = 0 => RecordsAgree'
  BY <1>1 DEF DatabaseInv, RecordsAgree, Found
<1> QED
  BY <1>2, <1>3, <1>4 DEF DatabaseInv

(* Counts of errors stay natural numbers.                                                      *)
LEMMA CountsFacts ==
  ASSUME DatabaseInv, UNCHANGED <<changes, misreads>>,
         errors' = errors \/ Error, late_errors' = late_errors \/ LateError,
         endings' = endings \/ endings' = endings + 1
  PROVE  {changes', misreads', errors', late_errors', endings'} \subseteq Nat
BY DEF DatabaseInv, DatabaseTypeOK, Error, LateError

(* The temporary file is opened, over whatever an earlier change left.                         *)
LEMMA OpenKeeps ==
  ASSUME DatabaseInv, OpenTemporary
  PROVE  DatabaseInv'
<1>1. /\ step = "open" /\ UNCHANGED <<replaces, path, cut, changes, misreads, late_errors, endings>>
      /\ \/ temporary' = Unparsable /\ Continue("write") /\ UNCHANGED errors
         \/ Error /\ Return(FALSE) /\ UNCHANGED temporary
  BY DEF OpenTemporary
<1>2. {changes', misreads', errors', late_errors', endings'} \subseteq Nat /\ cut' \in BOOLEAN
  BY <1>1, CountsFacts DEF DatabaseInv, DatabaseTypeOK
<1>3. CASE Error /\ Return(FALSE) /\ UNCHANGED temporary
  <2>1. DatabaseTypeOK'
    BY <1>1, <1>2, <1>3, ReturnType
  <2> QED
    BY <1>1, <1>3, <2>1, GivenUp
<1>4. CASE temporary' = Unparsable /\ Continue("write") /\ UNCHANGED errors
  <2>1. FilesAgree'
    BY <1>1, <1>4 DEF Continue, DatabaseInv, FilesAgree
  <2> QED
    BY <1>1, <1>2, <1>4, <2>1, ContinueKeeps
<1> QED
  BY <1>1, <1>3, <1>4

(* The database in memory is written to it, which may fail with or without saying so.          *)
LEMMA WriteKeeps ==
  ASSUME DatabaseInv, WriteTemporary
  PROVE  DatabaseInv'
<1>1. /\ step = "write" /\ UNCHANGED <<replaces, path, changes, misreads, endings>>
      /\ \/ temporary' = data /\ Continue("rename") /\ UNCHANGED <<cut, errors, late_errors>>
         \/ Error /\ Return(FALSE) /\ UNCHANGED <<temporary, cut, late_errors>>
         \/ LateError /\ Continue("rename") /\ cut' = TRUE /\ UNCHANGED <<temporary, errors>>
  BY DEF WriteTemporary
<1>2. {changes', misreads', errors', late_errors', endings'} \subseteq Nat /\ cut' \in BOOLEAN
  BY <1>1, CountsFacts DEF DatabaseInv, DatabaseTypeOK
<1>3. CASE Error /\ Return(FALSE) /\ UNCHANGED <<temporary, cut, late_errors>>
  <2>1. DatabaseTypeOK'
    BY <1>1, <1>2, <1>3, ReturnType
  <2> QED
    BY <1>1, <1>3, <2>1, GivenUp
<1>4. CASE temporary' = data /\ Continue("rename") /\ UNCHANGED <<cut, errors, late_errors>>
  <2>1. FilesAgree'
    BY <1>1, <1>4 DEF Continue, DatabaseInv, FilesAgree
  <2> QED
    BY <1>1, <1>2, <1>4, <2>1, ContinueKeeps
<1>5. CASE LateError /\ Continue("rename") /\ cut' = TRUE /\ UNCHANGED <<temporary, errors>>
  <2>1. FilesAgree'
    BY <1>1, <1>5 DEF Continue, DatabaseInv, FilesAgree
  <2> QED
    BY <1>1, <1>2, <1>5, <2>1, ContinueKeeps
<1> QED
  BY <1>1, <1>3, <1>4, <1>5

(* The temporary file takes the place of the database.                                         *)
LEMMA RenameKeeps ==
  ASSUME DatabaseInv, Rename
  PROVE  DatabaseInv'
<1>1. /\ step = "rename" /\ path' = temporary /\ temporary' = Absent /\ Return(TRUE)
      /\ UNCHANGED <<replaces, cut, changes, misreads, errors, late_errors, endings>>
  BY DEF Rename, counts
<1>2. {changes', misreads', errors', late_errors', endings'} \subseteq Nat /\ cut' \in BOOLEAN
  BY <1>1, CountsFacts DEF DatabaseInv, DatabaseTypeOK
<1>3. DatabaseTypeOK'
  BY <1>1, <1>2, ReturnType
<1> QED
  BY <1>1, <1>3, ChangeReturns

(* It does not, and the database is truncated or left as it is.                                *)
LEMMA RefusedKeeps ==
  ASSUME DatabaseInv, RenameRefused \/ TruncateDatabase
  PROVE  DatabaseInv'
<1>1. CASE RenameRefused
  <2>1. /\ step = "rename" /\ (UNCHANGED errors \/ Error) /\ Continue("truncate")
        /\ UNCHANGED <<replaces, path, temporary, cut, changes, misreads, late_errors, endings>>
    BY <1>1 DEF RenameRefused, card
  <2>2. {changes', misreads', errors', late_errors', endings'} \subseteq Nat /\ cut' \in BOOLEAN
    BY <2>1, CountsFacts DEF DatabaseInv, DatabaseTypeOK
  <2>3. FilesAgree'
    BY <2>1 DEF Continue, DatabaseInv, FilesAgree
  <2> QED
    BY <2>1, <2>2, <2>3, ContinueKeeps
<1>2. CASE TruncateDatabase
  <2>1. /\ step = "truncate" /\ UNCHANGED <<replaces, cut, changes, misreads, late_errors, endings>>
        /\ \/ path' = Unparsable /\ Continue("copy") /\ UNCHANGED <<temporary, errors>>
           \/ Error /\ Return(FALSE) /\ temporary' = Absent /\ UNCHANGED path
    BY <1>2 DEF TruncateDatabase
  <2>2. {changes', misreads', errors', late_errors', endings'} \subseteq Nat /\ cut' \in BOOLEAN
    BY <2>1, CountsFacts DEF DatabaseInv, DatabaseTypeOK
  <2>3. CASE Error /\ Return(FALSE) /\ temporary' = Absent /\ UNCHANGED path
    <3>1. DatabaseTypeOK'
      BY <2>1, <2>2, <2>3, ReturnType
    <3> QED
      BY <2>1, <2>3, <3>1, GivenUp
  <2>4. CASE path' = Unparsable /\ Continue("copy") /\ UNCHANGED <<temporary, errors>>
    <3>1. step' = "copy" /\ UNCHANGED <<data, change, known, removed>>
      BY <2>4 DEF Continue
    <3>2. DatabaseTypeOK'
      BY <2>1, <2>2, <2>4, <3>1, ContentsFacts DEF DatabaseInv, DatabaseTypeOK, FileContents
    <3>3. FilesAgree' /\ StaysParsable'
      BY <2>1, <2>4, <3>1 DEF DatabaseInv, FilesAgree, StaysParsable
    <3>4. misreads' = 0 => RecordsAgree'
      BY <2>1, <2>4, <3>1, ContentsFacts DEF DatabaseInv, RecordsAgree, Found
    <3> QED
      BY <3>2, <3>3, <3>4 DEF DatabaseInv
  <2> QED
    BY <2>1, <2>3, <2>4
<1> QED
  BY <1>1, <1>2

(* The temporary file is copied into the database that was truncated.                          *)
LEMMA CopyKeeps ==
  ASSUME DatabaseInv, Copy
  PROVE  DatabaseInv'
<1>1. /\ step = "copy" /\ temporary' = Absent /\ UNCHANGED <<replaces, changes, misreads, endings>>
      /\ \/ /\ path' = temporary /\ UNCHANGED <<cut, errors, late_errors>>
            /\ Return(TRUE) \/ (temporary = Unparsable /\ Return(FALSE))
         \/ Error /\ Return(FALSE) /\ cut' = TRUE /\ UNCHANGED <<path, late_errors>>
         \/ LateError /\ Return(TRUE) /\ cut' = TRUE /\ UNCHANGED <<path, errors>>
  BY DEF Copy
<1>2. {changes', misreads', errors', late_errors', endings'} \subseteq Nat /\ cut' \in BOOLEAN
  BY <1>1, CountsFacts DEF DatabaseInv, DatabaseTypeOK
<1>3. path = Unparsable /\ (temporary = Unparsable => cut)
  BY <1>1 DEF DatabaseInv, FilesAgree
<1>4. {path', temporary'} \subseteq {path, temporary, Absent, Unparsable}
  BY <1>1
<1>5. \A reported \in BOOLEAN : Return(reported) => DatabaseTypeOK'
  BY <1>1, <1>2, <1>4, ReturnType
<1>6. CASE Return(TRUE)
  <2>1. DatabaseTypeOK'
    BY <1>5, <1>6
  <2>2. (path' = temporary /\ UNCHANGED cut) \/ (cut' = TRUE /\ UNCHANGED path)
    BY <1>1
  <2>3. (cut => cut') /\ (path' = temporary \/ (path' = Unparsable /\ cut'))
    BY <1>3, <2>2
  <2> QED
    BY <1>1, <1>6, <2>1, <2>3, ChangeReturns
<1>7. CASE Return(FALSE) /\ (temporary = Unparsable /\ path' = temporary /\ UNCHANGED cut)
  BY <1>1, <1>3, <1>5, <1>7, GivenUp
<1>8. CASE Return(FALSE) /\ cut' = TRUE /\ UNCHANGED path
  BY <1>1, <1>5, <1>8, GivenUp
<1> QED
  BY <1>1, <1>6, <1>7, <1>8

(* The program ends between two steps.                                                         *)
LEMMA EndKeeps ==
  ASSUME DatabaseInv, ProgramEnds
  PROVE  DatabaseInv'
<1>1. /\ step # "idle" /\ endings' = endings + 1 /\ Return(FALSE) /\ cut' = (cut \/ step = "copy")
      /\ UNCHANGED <<replaces, path, temporary, changes, misreads, errors, late_errors>>
  BY DEF ProgramEnds, card
<1>2. {changes', misreads', errors', late_errors', endings'} \subseteq Nat /\ cut' \in BOOLEAN
  BY <1>1, CountsFacts DEF DatabaseInv, DatabaseTypeOK
<1>3. DatabaseTypeOK'
  BY <1>1, <1>2, ReturnType
<1> QED
  BY <1>1, <1>3, GivenUp

(* However often changes fail, or the program ends in one, the database keeps every record     *)
(* whose saving was reported or cannot be parsed, no record whose removal was reported comes   *)
(* back from a file that was left, and the file stays parsable, so that no change throws,      *)
(* unless the copy over it, or a write as a file is closed, was cut short (WriteDatabase).     *)
THEOREM DatabaseAlwaysSound == DatabaseSpec => []DatabaseSound
<1>1. DatabaseInit => DatabaseInv
  <2> SUFFICES ASSUME DatabaseInit PROVE DatabaseInv
    OBVIOUS
  <2>1. DatabaseTypeOK
    <3>1. {path, temporary, data} \subseteq FileContents
      BY ContentsFacts DEF DatabaseInit
    <3>2. change \in [saves : SUBSET Roms, removes : SUBSET Roms]
      BY DEF DatabaseInit, NoChange
    <3>3. {known, removed} \subseteq SUBSET Roms /\ {changes, misreads, errors, late_errors, endings} \subseteq Nat
      BY DEF DatabaseInit
    <3>4. replaces \in BOOLEAN /\ cut \in BOOLEAN /\ step = "idle"
      BY DEF DatabaseInit
    <3> QED
      BY <3>1, <3>2, <3>3, <3>4 DEF DatabaseTypeOK, FileContents
  <2>2. FilesAgree /\ StaysParsable /\ RecordsAgree
    BY ContentsFacts DEF DatabaseInit, FilesAgree, StaysParsable, RecordsAgree, Found, Absent, Unparsable
  <2> QED
    BY <2>1, <2>2 DEF DatabaseInv
<1>2. DatabaseInv /\ [DatabaseNext]_database_vars => DatabaseInv'
  <2> SUFFICES ASSUME DatabaseInv, [DatabaseNext]_database_vars PROVE DatabaseInv'
    OBVIOUS
  <2>1. CASE DatabaseNext
    BY <2>1, SaveKeeps, RemoveKeeps, ThrowKeeps, SyncKeeps, OpenKeeps, WriteKeeps, RenameKeeps, RefusedKeeps,
       CopyKeeps, EndKeeps DEF DatabaseNext
  <2>2. CASE UNCHANGED database_vars
    BY <2>2 DEF database_vars, card, history, counts, DatabaseInv, DatabaseTypeOK, FilesAgree, StaysParsable,
       RecordsAgree, Found
  <2> QED
    BY <2>1, <2>2
<1>3. DatabaseInv => DatabaseSound
  BY DEF DatabaseInv, DatabaseSound, RecordsAgree, RecordsKept, RemovedStaysRemoved
<1> QED
  BY <1>1, <1>2, <1>3, PTL DEF DatabaseSpec

-----------------------------------------------------------------------------
(* The counts of a semaphore *)

(* What the invariant adds: the threads that wait are finitely many.                          *)
SemaphoreInv == CountTypeOK /\ IsFiniteSet(waiting) /\ SemaphoreSound

(* The lesser and the greater of two integers.                                                *)
LEMMA LesserGreater ==
  ASSUME NEW m \in Int, NEW n \in Int
  PROVE  /\ Min({m, n}) = IF m <= n THEN m ELSE n
         /\ Max({m, n}) = IF m >= n THEN m ELSE n
<1>1. \E x \in {m, n} : \A y \in {m, n} : x <= y
  BY m <= n \/ n <= m
<1>2. Min({m, n}) \in {m, n} /\ \A y \in {m, n} : Min({m, n}) <= y
  <2> DEFINE least == CHOOSE x \in {m, n} : \A y \in {m, n} : x <= y
  <2>1. least \in {m, n} /\ \A y \in {m, n} : least <= y
    BY <1>1, Zenon
  <2> QED
    BY <2>1 DEF Min
<1>3. \E x \in {m, n} : \A y \in {m, n} : x >= y
  BY m <= n \/ n <= m
<1>4. Max({m, n}) \in {m, n} /\ \A y \in {m, n} : Max({m, n}) >= y
  <2> DEFINE greatest == CHOOSE x \in {m, n} : \A y \in {m, n} : x >= y
  <2>1. greatest \in {m, n} /\ \A y \in {m, n} : greatest >= y
    BY <1>3, Zenon
  <2> QED
    BY <2>1 DEF Max
<1> HIDE DEF Min, Max
<1> QED
  BY <1>2, <1>4

(* A number that is less than the divisor is its remainder.                                   *)
LEMMA SmallRemainder ==
  ASSUME NEW n \in Nat \ {0}, NEW m \in 0 .. n - 1
  PROVE  m % n = m
  OBVIOUS

(* An integer of the width is left as it is, and every other becomes one.                     *)
LEMMA WrappedFacts ==
  ASSUME NEW n \in Int
  PROVE  Wrapped(n) \in s32 /\ (n \in 0 .. Greatest => Wrapped(n) = n)
<1>1. Half \in Nat \ {0} /\ 2 * Half \in Nat \ {0}
  BY CountAssumption
<1>2. (n + Half) % (2 * Half) \in 0 .. 2 * Half - 1
  BY <1>1
<1>3. ASSUME n \in 0 .. Greatest PROVE (n + Half) % (2 * Half) = n + Half
  <2>1. n + Half \in 0 .. 2 * Half - 1
    BY <1>1, <1>3 DEF Greatest
  <2> QED
    BY <1>1, <2>1, SmallRemainder, Zenon
<1> QED
  BY <1>1, <1>2, <1>3 DEF Wrapped, s32, Least, Greatest

(* WakeupAllWaitingThreads serves as many threads as there are slots, or all of them.         *)
LEMMA WokenFacts ==
  ASSUME NEW count \in Int, IsFiniteSet(waiting),
         NEW woken \in kSubset(Min({Cardinality(waiting), Max({count, 0})}), waiting)
  PROVE  /\ woken \subseteq waiting /\ Cardinality(woken) \in Nat /\ IsFiniteSet(waiting \ woken)
         /\ count <= 0 => Cardinality(woken) = 0
         /\ count >= 0 => Cardinality(woken) <= count
         /\ waiting \ woken # {} => count - Cardinality(woken) <= 0
<1> DEFINE size == Min({Cardinality(waiting), Max({count, 0})})
<1>1. Cardinality(waiting) \in Nat
  BY FS_CardinalityType
<1>2. Max({count, 0}) = IF count >= 0 THEN count ELSE 0
  BY LesserGreater
<1>3. size = IF Cardinality(waiting) <= Max({count, 0}) THEN Cardinality(waiting) ELSE Max({count, 0})
  BY <1>1, <1>2, LesserGreater
<1>4. woken \subseteq waiting /\ Cardinality(woken) = size
  BY DEF kSubset
<1>5. Cardinality(waiting) = Cardinality(woken) => waiting = woken
  BY <1>4, FS_Subset
<1>6. IsFiniteSet(waiting \ woken)
  BY FS_Difference
<1> HIDE DEF size
<1> QED
  BY <1>1, <1>2, <1>3, <1>4, <1>5, <1>6

(* Semaphore::Release.                                                                        *)
LEMMA ReleaseSound ==
  ASSUME SemaphoreInv, NEW n \in ReleaseCounts, Release(n)
  PROVE  SemaphoreInv'
<1> DEFINE count == Wrapped(available_count + n)
<1>1. n \in Int /\ available_count \in s32 /\ available_count \in Int /\ max_count \in s32
      /\ well_used \in BOOLEAN /\ Half \in Nat \ {0}
  BY CountAssumption DEF SemaphoreInv, CountTypeOK, s32, Least, Greatest
<1>2. count \in s32 /\ count \in Int
  BY <1>1, WrappedFacts DEF s32, Least, Greatest
<1>3. PICK woken \in kSubset(Min({Cardinality(waiting), Max({count, 0})}), waiting) :
        waiting' = waiting \ woken /\ available_count' = count - Cardinality(woken)
  BY DEF Release
<1>4. /\ well_used' = (well_used /\ n >= 0 /\ available_count + n <= Greatest)
      /\ max_count' = max_count
      /\ \E sum \in Sums(n) : max_count >= sum
  BY DEF Release, MayRelease
<1>5. /\ woken \subseteq waiting /\ Cardinality(woken) \in Nat /\ IsFiniteSet(waiting \ woken)
      /\ count <= 0 => Cardinality(woken) = 0
      /\ count >= 0 => Cardinality(woken) <= count
      /\ waiting \ woken # {} => count - Cardinality(woken) <= 0
  BY <1>2, WokenFacts DEF SemaphoreInv
<1>6. well_used' => available_count \in Int /\ available_count >= 0 /\ well_used
  BY <1>1, <1>4 DEF SemaphoreInv, SemaphoreSound, CountInRange
<1>7. well_used' => count = available_count + n /\ available_count + n \in 0 .. Greatest
  <2> SUFFICES ASSUME well_used' PROVE count = available_count + n /\ available_count + n \in 0 .. Greatest
    OBVIOUS
  <2>1. n >= 0 /\ available_count + n <= Greatest
    BY <1>4
  <2>2. available_count + n \in 0 .. Greatest /\ available_count + n \in Int
    BY <1>1, <1>6, <2>1 DEF Greatest
  <2> QED
    BY <2>2, WrappedFacts
<1>8. well_used' => max_count >= count /\ count >= 0
  <2>1. n + available_count = available_count + n
    BY <1>1
  <2>2. Sums(n) = {count, n + available_count}
    BY <2>1 DEF Sums
  <2> QED
    BY <1>4, <1>7, <2>1, <2>2
<1> HIDE DEF count
<1>9. CountTypeOK' /\ IsFiniteSet(waiting')
  BY <1>1, <1>2, <1>3, <1>4, <1>5 DEF SemaphoreInv, CountTypeOK, s32, Least, Greatest
<1>10. NoneWaitsForFree'
  BY <1>3, <1>5 DEF NoneWaitsForFree
<1>11. well_used' => CountInRange'
  <2> SUFFICES ASSUME well_used' PROVE CountInRange'
    OBVIOUS
  <2>1. max_count \in Int /\ max_count' = max_count
    BY <1>1, <1>4 DEF s32, Least, Greatest
  <2> QED
    BY <1>2, <1>3, <1>5, <1>8, <2>1 DEF CountInRange
<1> QED
  BY <1>9, <1>10, <1>11 DEF SemaphoreInv, SemaphoreSound

(* A thread takes a slot, or waits for one.                                                   *)
LEMMA TakeSound ==
  ASSUME SemaphoreInv, NEW t \in Callers, Acquire(t) \/ Wait(t)
  PROVE  SemaphoreInv'
<1>1. available_count \in Int /\ Half \in Nat /\ max_count \in Int
  BY CountAssumption DEF SemaphoreInv, CountTypeOK, s32, Least, Greatest
<1>2. CASE Acquire(t)
  BY <1>1, <1>2 DEF Acquire, ShouldWait, SemaphoreInv, CountTypeOK, SemaphoreSound, NoneWaitsForFree, CountInRange,
     s32, Least, Greatest
<1>3. CASE Wait(t)
  <2>1. IsFiniteSet(waiting')
    BY <1>3, FS_AddElement DEF Wait, SemaphoreInv
  <2> QED
    BY <1>1, <1>3, <2>1 DEF Wait, ShouldWait, SemaphoreInv, CountTypeOK, SemaphoreSound, NoneWaitsForFree, CountInRange
<1> QED
  BY <1>2, <1>3

(* Whatever a semaphore is released by, in integers that wrap around at any width: no thread  *)
(* waits while a slot is free, and the count stays between 0 and its maximum until a guest    *)
(* passes a negative count or a sum overflows (Semaphore::Release).                           *)
THEOREM SemaphoreAlwaysSound == CountSpec => []SemaphoreSound
<1>1. CountInit => SemaphoreInv
  <2> SUFFICES ASSUME CountInit PROVE SemaphoreInv
    OBVIOUS
  <2>1. max_count \in s32 /\ available_count \in s32 /\ available_count <= max_count
    BY CountAssumption DEF CountInit
  <2>2. Half \in Nat
    BY CountAssumption
  <2> QED
    <3>1. waiting = {} /\ well_used = (available_count >= 0)
      BY DEF CountInit
    <3>2. CountTypeOK
      BY <2>1, <3>1 DEF CountTypeOK
    <3>3. available_count \in Int /\ max_count \in Int
      BY <2>1, <2>2 DEF s32, Least, Greatest
    <3>4. well_used => CountInRange
      <4> SUFFICES ASSUME well_used PROVE CountInRange
        OBVIOUS
      <4>1. available_count >= 0
        BY <3>1
      <4> QED
        BY <2>1, <3>3, <4>1 DEF CountInRange
    <3> QED
      BY <3>1, <3>2, <3>4, FS_EmptySet DEF SemaphoreInv, SemaphoreSound, NoneWaitsForFree
<1>2. SemaphoreInv /\ [CountNext]_count_vars => SemaphoreInv'
  <2> SUFFICES ASSUME SemaphoreInv, [CountNext]_count_vars PROVE SemaphoreInv'
    OBVIOUS
  <2>1. CASE CountNext
    BY <2>1, TakeSound, ReleaseSound DEF CountNext
  <2>2. CASE UNCHANGED count_vars
    BY <2>2 DEF count_vars, SemaphoreInv, CountTypeOK, SemaphoreSound, NoneWaitsForFree, CountInRange
  <2> QED
    BY <2>1, <2>2
<1>3. SemaphoreInv => SemaphoreSound
  BY DEF SemaphoreInv
<1> QED
  BY <1>1, <1>2, <1>3, PTL DEF CountSpec

-----------------------------------------------------------------------------
(* Sessions and ports: more about lists                                                       *)

(* The front of a list is the list without its last element.                                  *)
LEMMA FrontFacts ==
  ASSUME NEW T, NEW list \in Seq(T), list # <<>>
  PROVE  /\ Front(list) \in Seq(T) /\ Len(Front(list)) = Len(list) - 1
         /\ \A i \in 1 .. Len(list) - 1 : Front(list)[i] = list[i]
<1> DEFINE n == Len(list) - 1
           f == SubSeq(list, 1, n)
<1>1. Len(list) \in Nat \ {0} /\ n \in Nat /\ \A i \in 1 .. n : list[i] \in T
  OBVIOUS
<1> HIDE DEF n
<1>2. /\ f \in Seq(T) /\ Len(f) = IF 1 <= n THEN n - 1 + 1 ELSE 0
      /\ \A i \in 1 .. n - 1 + 1 : f[i] = list[1 + i - 1]
  BY <1>1, SubSeqProperties
<1> HIDE DEF f
<1>3. f \in Seq(T) /\ Len(f) = n /\ \A i \in 1 .. n : f[i] = list[i]
  BY <1>1, <1>2
<1> QED
  BY <1>3 DEF f, n, Front

(* The front of a list and its last element are the list.                                     *)
LEMMA RangeFront ==
  ASSUME NEW T, NEW list \in Seq(T), list # <<>>
  PROVE  /\ Front(list) \in Seq(T) /\ Last(list) \in T
         /\ list = Append(Front(list), Last(list))
         /\ Range(list) = Range(Front(list)) \cup {Last(list)}
<1>1. Len(list) \in Nat \ {0} /\ \A i \in 1 .. Len(list) : list[i] \in T
  OBVIOUS
<1>2. /\ Front(list) \in Seq(T) /\ Len(Front(list)) = Len(list) - 1
      /\ \A i \in 1 .. Len(list) - 1 : Front(list)[i] = list[i]
  BY <1>1, FrontFacts
<1>3. Last(list) \in T /\ Last(list) = list[Len(list)]
  BY <1>1 DEF Last
<1> HIDE DEF Front, Last
<1>4. list = Append(Front(list), Last(list))
  <2> DEFINE a == Append(Front(list), Last(list))
  <2>1. a \in Seq(T) /\ Len(a) = Len(list)
    BY <1>1, <1>2, <1>3
  <2>2. \A i \in 1 .. Len(list) : a[i] = list[i]
    BY <1>1, <1>2, <1>3
  <2> HIDE DEF a
  <2>3. a = list
    BY <2>1, <2>2, SeqEqual
  <2> QED
    BY <2>3 DEF a
<1>5. Range(Append(Front(list), Last(list))) = Range(Front(list)) \cup {Last(list)}
  BY <1>2, <1>3, RangeAppend
<1> QED
  BY <1>2, <1>3, <1>4, <1>5, Zenon

(* What was appended comes last, with the list in front of it.                                *)
LEMMA AppendEnds ==
  ASSUME NEW T, NEW list \in Seq(T), NEW x \in T
  PROVE  /\ Append(list, x) \in Seq(T) /\ Append(list, x) # <<>>
         /\ Front(Append(list, x)) = list /\ Last(Append(list, x)) = x
<1> DEFINE a == Append(list, x)
<1>1. /\ a \in Seq(T) /\ Len(a) = Len(list) + 1 /\ a[Len(list) + 1] = x
      /\ \A i \in 1 .. Len(list) : a[i] = list[i]
  OBVIOUS
<1> HIDE DEF a
<1>2. Len(list) \in Nat /\ a # <<>>
  BY <1>1
<1>3. /\ Front(a) \in Seq(T) /\ Len(Front(a)) = Len(a) - 1
      /\ \A i \in 1 .. Len(a) - 1 : Front(a)[i] = a[i]
  BY <1>1, <1>2, FrontFacts
<1>4. Last(a) = x
  BY <1>1 DEF Last
<1> DEFINE f == Front(a)
<1> HIDE DEF f
<1>5. f \in Seq(T) /\ Len(f) = Len(list) /\ \A i \in 1 .. Len(list) : f[i] = list[i]
  BY <1>1, <1>2, <1>3 DEF f
<1>6. f = list
  BY <1>5, SeqEqual
<1> QED
  BY <1>1, <1>2, <1>4, <1>6 DEF a, f

(* What a list without repetition ends in is not in its front.                                *)
LEMMA FrontInjective ==
  ASSUME NEW T, NEW list \in Seq(T), list # <<>>, IsInjective(list)
  PROVE  IsInjective(Front(list)) /\ Last(list) \notin Range(Front(list))
<1>1. Len(list) \in Nat \ {0} /\ DOMAIN list = 1 .. Len(list) /\ \A i \in 1 .. Len(list) : list[i] \in T
  OBVIOUS
<1>2. /\ Front(list) \in Seq(T) /\ Len(Front(list)) = Len(list) - 1
      /\ \A i \in 1 .. Len(list) - 1 : Front(list)[i] = list[i]
  BY <1>1, FrontFacts
<1>3. Last(list) = list[Len(list)]
  BY DEF Last
<1>4. DOMAIN Front(list) = 1 .. Len(list) - 1
  BY <1>2
<1> HIDE DEF Front, Last
<1> QED
  BY <1>1, <1>2, <1>3, <1>4 DEF IsInjective, Range

(* A thread with the best priority, and the first of them, exists.                            *)
LEMMA HighestPriorityListed ==
  ASSUME IPCAssumption, IPCTypeOK, NEW o \in WaitObjects, waiting_threads[o] # <<>>
  PROVE  HighestPriorityThread(o) \in Range(waiting_threads[o])
<1> DEFINE w == waiting_threads[o]
           best(k) == \A j \in DOMAIN w :
             \/ Priority[w[k]] < Priority[w[j]]
             \/ Priority[w[k]] = Priority[w[j]] /\ k <= j
           P == {Priority[w[j]] : j \in DOMAIN w}
           p == Min(P)
           K == {j \in DOMAIN w : Priority[w[j]] = p}
<1>1. w \in Seq(Servers) /\ Len(w) \in Nat \ {0} /\ DOMAIN w = 1 .. Len(w)
  BY DEF IPCTypeOK
<1>2. \A j \in DOMAIN w : w[j] \in Servers
  BY <1>1
<1>a. \A j \in DOMAIN w : Priority[w[j]] \in Nat
  BY <1>2 DEF IPCAssumption
<1> HIDE DEF w
<1>3. P \subseteq Nat /\ P # {}
  BY <1>1, <1>a
<1>4. p \in P /\ \A y \in P : p <= y
  BY <1>3, MinNat
<1> HIDE DEF p
<1>5. K \subseteq Nat /\ K # {}
  BY <1>1, <1>4
<1>6. PICK k \in K : \A y \in K : k <= y
  BY <1>5, MinNat
<1>7. best(k)
  <2> SUFFICES ASSUME NEW j \in DOMAIN w
               PROVE  Priority[w[k]] < Priority[w[j]] \/ (Priority[w[k]] = Priority[w[j]] /\ k <= j)
    OBVIOUS
  <2>1. Priority[w[k]] = p /\ p \in Nat /\ Priority[w[j]] \in Nat /\ p <= Priority[w[j]]
    BY <1>3, <1>4, <1>a, <1>6
  <2>2. Priority[w[j]] = p => k <= j
    BY <1>6
  <2> QED
    BY <2>1, <2>2
<1>8. PICK i : i = CHOOSE m \in DOMAIN w : best(m)
  OBVIOUS
<1>9. i \in DOMAIN w
  <2> HIDE DEF best
  <2> QED
    BY <1>6, <1>7, <1>8
<1>10. HighestPriorityThread(o) = w[i]
  BY <1>8 DEF HighestPriorityThread, w
<1> QED
  BY <1>9, <1>10 DEF Range, w

(* The list of a finite set holds the set.                                                    *)
LEMMA SetToSeqFacts ==
  ASSUME NEW S, IsFiniteSet(S)
  PROVE  SetToSeq(S) \in Seq(S) /\ Range(SetToSeq(S)) = S
<1>1. Cardinality(S) \in Nat /\ ExistsBijection(1 .. Cardinality(S), S)
  BY FS_CardinalityType
<1>2. PICK f : f \in Bijection(1 .. Cardinality(S), S)
  BY <1>1 DEF ExistsBijection
<1>3. f \in [1 .. Cardinality(S) -> S] /\ IsInjective(f)
  BY <1>2 DEF Bijection, Injection, IsInjective
<1> DEFINE g == SetToSeq(S)
<1>4. g \in [1 .. Cardinality(S) -> S] /\ IsInjective(g)
  BY <1>3 DEF SetToSeq
<1> HIDE DEF g
<1>5. g \in Injection(1 .. Cardinality(S), S)
  BY <1>4 DEF Injection, IsInjective
<1>6. IsFiniteSet(1 .. Cardinality(S)) /\ Cardinality(1 .. Cardinality(S)) = Cardinality(S)
  BY <1>1, FS_Interval
<1>7. g \in Surjection(1 .. Cardinality(S), S)
  BY <1>5, <1>6, FS_Injection
<1>8. Range(g) = S
  BY <1>4, <1>7 DEF Surjection, Range
<1>9. g \in Seq(S)
  BY <1>1, <1>4
<1> QED
  BY <1>8, <1>9 DEF g

(* What ReplyAndReceive may be given: handles of the process, and a session to reply to.      *)
LEMMA ArgumentFacts ==
  ASSUME IPCAssumption, IPCTypeOK, NEW v \in Servers,
         NEW waited \in ObjectLists(v), NEW target \in ReplyTargets(v)
  PROVE  /\ waited \in Seq(WaitObjects) /\ Range(waited) \subseteq Owned \cup {Port}
         /\ target \in Owned \cup {Nothing}
<1>1. target \in Owned \cup {Nothing}
  BY DEF ReplyTargets
<1>2. Owned \subseteq Sessions /\ IsFiniteSet(Owned)
  BY FS_Subset DEF Owned, IPCAssumption
<1>3. ASSUME NEW s \in Owned
      PROVE  /\ <<>> \in Seq(WaitObjects) /\ <<Port>> \in Seq(WaitObjects)
             /\ <<s>> \in Seq(WaitObjects) /\ <<Port, s>> \in Seq(WaitObjects)
             /\ Range(<<>>) = {} /\ Range(<<Port>>) = {Port}
             /\ Range(<<s>>) = {s} /\ Range(<<Port, s>>) = {Port, s}
  BY <1>2 DEF WaitObjects, Range
<1>4. <<>> \in Seq(WaitObjects) /\ <<Port>> \in Seq(WaitObjects) /\ Range(<<>>) = {} /\ Range(<<Port>>) = {Port}
  BY DEF WaitObjects, Range
<1>5. ASSUME Disciplined PROVE waited \in Seq(WaitObjects) /\ Range(waited) \subseteq Owned \cup {Port}
  <2>1. PICK q : q = SetToSeq(Owned)
    OBVIOUS
  <2>2. q \in Seq(Owned) /\ Range(q) = Owned
    BY <1>2, <2>1, SetToSeqFacts
  <2>3. q \in Seq(WaitObjects)
    BY <1>2, <2>2 DEF WaitObjects
  <2>4. waited = q \o <<Port>>
    BY <1>5, <2>1 DEF ObjectLists
  <2>5. q \o <<Port>> \in Seq(WaitObjects)
    BY <1>4, <2>3
  <2>6. <<Port>> \in Seq(WaitObjects)
    BY <1>4
  <2>7. Range(q \o <<Port>>) = Range(q) \cup Range(<<Port>>)
    BY <2>3, <2>6, RangeConcat, ZenonT(30)
  <2> QED
    BY <1>4, <2>2, <2>4, <2>5, <2>7
<1>6. ASSUME ~Disciplined PROVE waited \in Seq(WaitObjects) /\ Range(waited) \subseteq Owned \cup {Port}
  <2>1. waited \in {<<>>, <<Port>>} \/ \E s \in Owned : waited = <<s>> \/ waited = <<Port, s>>
    BY <1>6 DEF ObjectLists
  <2> QED
    BY <1>3, <1>4, <2>1, Zenon
<1> QED
  BY <1>1, <1>5, <1>6

(* The first object that is ready, if there is one.                                           *)
LEMMA FirstReady ==
  ASSUME NEW T, NEW waited \in Seq(T), NEW handling, Ready(waited, handling) # {}
  PROVE  \A i : i = (CHOOSE k \in Ready(waited, handling) : \A j \in Ready(waited, handling) : k <= j)
                  => i \in Ready(waited, handling)
<1> DEFINE R == Ready(waited, handling)
<1>1. R \subseteq Nat /\ R # {}
  BY DEF Ready
<1> HIDE DEF R
<1>2. \E k \in R : \A j \in R : k <= j
  BY <1>1, MinNat
<1>3. \A i : i = (CHOOSE k \in R : \A j \in R : k <= j) => i \in R
  BY <1>2
<1> QED
  BY <1>3 DEF R

-----------------------------------------------------------------------------
(* The parts of the invariant that the claims rest on *)

(* Clients never wait on objects: they sleep in their requests.                               *)
ClientsListNothing == \A c \in Clients : wait_objects[c] = <<>>

(* Sessions that were not created have no ends.                                               *)
FreshHasNoEnds == \A s \in Sessions : client[s] = "none" => ~Alive(s) /\ ~has_port[s]

EndsInv ==
  /\ IPCTypeOK /\ WaitListsAgree /\ NoWaitOnClosed /\ ConnectionsCounted
  /\ ClientsListNothing /\ FreshHasNoEnds

\* The threads of K leave every wait
CutOff(K) ==
  /\ wait_objects' \in [Threads -> Seq(WaitObjects)]
  /\ \A t \in Threads : wait_objects'[t] = IF t \in K THEN <<>> ELSE wait_objects[t]
  /\ waiting_threads' \in [WaitObjects -> Seq(Servers)]
  /\ \A o \in WaitObjects : Range(waiting_threads'[o]) = Range(waiting_threads[o]) \ K

Statuses == {"Runs", "WaitIPC", "WaitSynchAny", "Dead"}

(* WakeupAllWaitingThreads takes the woken threads out of every wait.                         *)
LEMMA WakeFacts ==
  ASSUME IPCTypeOK, NEW before \in [Threads -> Statuses], NEW K, NEW o \in WaitObjects,
         NEW result \in Results, Wake(before, K, o, result)
  PROVE  /\ CutOff(K) /\ status' \in [Threads -> Statuses]
         /\ \A t \in Threads : status'[t] = IF t \in K THEN "Runs" ELSE before[t]
         /\ res' \in [Threads -> Results] /\ out' \in [Threads -> WaitObjects \cup {Nothing}]
<1>1. /\ status' \in [Threads -> Statuses]
      /\ \A t \in Threads : status'[t] = IF t \in K THEN "Runs" ELSE before[t]
      /\ res' \in [Threads -> Results] /\ out' \in [Threads -> WaitObjects \cup {Nothing}]
  BY DEF Wake, IPCTypeOK, Statuses
<1>2. /\ wait_objects' \in [Threads -> Seq(WaitObjects)]
      /\ \A t \in Threads : wait_objects'[t] = IF t \in K THEN <<>> ELSE wait_objects[t]
  BY DEF Wake, IPCTypeOK
<1>3. \A p \in WaitObjects : /\ Without(waiting_threads[p], K) \in Seq(Servers)
                             /\ Range(Without(waiting_threads[p], K)) = Range(waiting_threads[p]) \ K
  BY WithoutFacts DEF IPCTypeOK
<1>4. waiting_threads' = [p \in WaitObjects |-> Without(waiting_threads[p], K)]
  BY DEF Wake
<1> QED
  BY <1>1, <1>2, <1>3, <1>4 DEF CutOff

(* A thread that stops leaves every wait.                                                     *)
LEMMA StopCuts ==
  ASSUME IPCTypeOK, NEW t \in Threads, Stop(t)
  PROVE  CutOff({t})
<1>2. /\ wait_objects' \in [Threads -> Seq(WaitObjects)]
      /\ \A r \in Threads : wait_objects'[r] = IF r \in {t} THEN <<>> ELSE wait_objects[r]
  BY DEF Stop, IPCTypeOK
<1>3. \A p \in WaitObjects : /\ Without(waiting_threads[p], {t}) \in Seq(Servers)
                             /\ Range(Without(waiting_threads[p], {t})) = Range(waiting_threads[p]) \ {t}
  BY WithoutFacts DEF IPCTypeOK
<1>4. waiting_threads' = [p \in WaitObjects |-> Without(waiting_threads[p], {t})]
  BY DEF Stop
<1> QED
  BY <1>2, <1>3, <1>4 DEF CutOff

(* Where no wait changes, nobody leaves one.                                                  *)
LEMMA NoneCut ==
  ASSUME IPCTypeOK, UNCHANGED waits
  PROVE  CutOff({})
BY DEF IPCTypeOK, waits, CutOff

(* Threads that leave every wait leave wait lists and wait_objects alike.                     *)
LEMMA CutAgrees ==
  ASSUME IPCTypeOK, WaitListsAgree, ClientsListNothing, NEW K, CutOff(K),
         \A v \in Servers \ K : status[v] = "WaitSynchAny" => status'[v] = "WaitSynchAny"
  PROVE  WaitListsAgree' /\ ClientsListNothing'
<1>1. ASSUME NEW o \in WaitObjects, NEW v \in Servers
      PROVE  /\ v \in Range(waiting_threads'[o]) <=> o \in Range(wait_objects'[v])
             /\ wait_objects'[v] # <<>> => status'[v] = "WaitSynchAny"
  <2>1. /\ wait_objects'[v] = IF v \in K THEN <<>> ELSE wait_objects[v]
        /\ Range(waiting_threads'[o]) = Range(waiting_threads[o]) \ K
    BY DEF CutOff, Threads
  <2>2. /\ v \in Range(waiting_threads[o]) <=> o \in Range(wait_objects[v])
        /\ wait_objects[v] # <<>> => status[v] = "WaitSynchAny"
    BY DEF WaitListsAgree
  <2>3. Range(<<>>) = {}
    BY DEF Range
  <2>4. CASE v \in K
    BY <2>1, <2>3, <2>4
  <2>5. CASE v \notin K
    BY <2>1, <2>2, <2>5
  <2> QED
    BY <2>4, <2>5
<1>2. ClientsListNothing'
  BY DEF ClientsListNothing, CutOff, Threads
<1> QED
  BY <1>1, <1>2 DEF WaitListsAgree

(* A list that holds nothing is empty.                                                        *)
LEMMA RangeEmpty ==
  ASSUME NEW T, NEW list \in Seq(T)
  PROVE  Range(list) = {} <=> list = <<>>
<1>1. Len(list) \in Nat /\ DOMAIN list = 1 .. Len(list) /\ (list = <<>> <=> Len(list) = 0)
  OBVIOUS
<1>2. Len(list) # 0 => 1 \in 1 .. Len(list)
  BY <1>1
<1>3. Range(<<>>) = {}
  BY DEF Range
<1> QED
  BY <1>1, <1>2, <1>3 DEF Range

(* Nobody is left waiting for a closed session when those who waited for it are taken out.    *)
LEMMA CutLeavesClosed ==
  ASSUME IPCTypeOK, NoWaitOnClosed, NEW K, CutOff(K),
         \A s \in Sessions : client'[s] = "closed" =>
           client[s] = "closed" \/ Range(waiting_threads[s]) \subseteq K
  PROVE  NoWaitOnClosed'
<1> SUFFICES ASSUME NEW s \in Sessions, client'[s] = "closed" PROVE waiting_threads'[s] = <<>>
  BY DEF NoWaitOnClosed
<1>1. s \in WaitObjects
  BY DEF WaitObjects
<1>2. /\ waiting_threads'[s] \in Seq(Servers) /\ waiting_threads[s] \in Seq(Servers)
      /\ Range(waiting_threads'[s]) = Range(waiting_threads[s]) \ K
  BY <1>1 DEF CutOff, IPCTypeOK
<1>3. CASE client[s] = "closed"
  <2>1. waiting_threads[s] = <<>> /\ Range(<<>>) = {}
    BY <1>3 DEF NoWaitOnClosed, Range
  <2> QED
    BY <1>2, <2>1, RangeEmpty
<1>4. CASE Range(waiting_threads[s]) \subseteq K
  <2>1. Range(waiting_threads'[s]) = {}
    BY <1>2, <1>4
  <2> QED
    BY <1>2, <2>1, RangeEmpty
<1> QED
  BY <1>3, <1>4

(* A session that lost its last reference does not come back, unless it is new.               *)
LEMMA CutEnds ==
  ASSUME NEW K, CutOff(K), NEW s \in Sessions,
         server_handle'[s] => Alive(s),
         s \in Range(pending_sessions') => Alive(s)
  PROVE  Alive(s)' => Alive(s)
<1>1. ASSUME NEW t \in Threads, s \in Range(wait_objects'[t]) PROVE Alive(s)
  <2>1. wait_objects'[t] = IF t \in K THEN <<>> ELSE wait_objects[t]
    BY DEF CutOff
  <2>2. Range(<<>>) = {}
    BY DEF Range
  <2> QED
    BY <1>1, <2>1, <2>2 DEF Alive
<1>2. Alive(s)' => \/ server_handle'[s] \/ s \in Range(pending_sessions')
                   \/ \E t \in Threads : s \in Range(wait_objects'[t])
  BY DEF Alive
<1> QED
  BY <1>1, <1>2

(* A part of a finite set and the rest of it make up its size.                                *)
LEMMA CardinalityRest ==
  ASSUME NEW S, IsFiniteSet(S), NEW G, G \subseteq S
  PROVE  /\ IsFiniteSet(S \ G) /\ Cardinality(S \ G) \in Nat /\ Cardinality(G) \in Nat
         /\ Cardinality(S \ G) = Cardinality(S) - Cardinality(G)
<1>1. IsFiniteSet(G) /\ IsFiniteSet(S \ G)
  BY FS_Subset
<1>2. Cardinality((S \ G) \cup G) = Cardinality(S \ G) + Cardinality(G) - Cardinality((S \ G) \cap G)
  BY <1>1, FS_Union
<1>3. (S \ G) \cup G = S /\ (S \ G) \cap G = {}
  OBVIOUS
<1>4. Cardinality({}) = 0
  BY FS_EmptySet
<1>5. Cardinality(S \ G) \in Nat /\ Cardinality(G) \in Nat /\ Cardinality(S) \in Nat
  BY <1>1, FS_CardinalityType
<1>6. Cardinality(S) = Cardinality(S \ G) + Cardinality(G) - 0
  BY <1>2, <1>3, <1>4
<1>7. Cardinality(S \ G) = Cardinality(S) - Cardinality(G)
  BY <1>5, <1>6
<1> QED
  BY <1>1, <1>5, <1>7

\* The sessions the port counts
OfPort == {s \in Sessions : has_port[s] /\ Alive(s)}

(* The port forgets the sessions that ended, and no others.                                   *)
LEMMA ReleaseCounted ==
  ASSUME IPCAssumption, IPCTypeOK, ConnectionsCounted, has_port' = has_port,
         \A s \in Sessions : Alive(s)' => Alive(s),
         NEW pending, NEW handling, ReleaseEnds(active_sessions, pending, handling)
  PROVE  ConnectionsCounted' /\ active_sessions' \in 0 .. MaxSessions
<1> DEFINE G == {s \in {r \in Sessions : Alive(r) /\ ~Alive(r)'} : has_port[s]}
<1>1. active_sessions' = active_sessions - Cardinality(G)
  BY DEF ReleaseEnds
<1>2. IsFiniteSet(OfPort) /\ G \subseteq OfPort
  BY FS_Subset DEF OfPort, IPCAssumption
<1>3. OfPort' = OfPort \ G
  BY DEF OfPort
<1>4. active_sessions = Cardinality(OfPort)
  BY DEF ConnectionsCounted, OfPort
<1> HIDE DEF G
<1>5. active_sessions' = Cardinality(OfPort') /\ active_sessions' \in Nat /\ active_sessions' <= active_sessions
  <2>1. /\ Cardinality(OfPort \ G) \in Nat /\ Cardinality(G) \in Nat
        /\ Cardinality(OfPort \ G) = Cardinality(OfPort) - Cardinality(G)
    BY <1>2, CardinalityRest
  <2>2. Cardinality(OfPort) \in Nat
    BY <1>2, FS_CardinalityType
  <2> HIDE DEF OfPort
  <2> QED
    BY <1>1, <1>3, <1>4, <2>1, <2>2
<1>6. active_sessions' \in 0 .. MaxSessions
  BY <1>5 DEF IPCTypeOK, IPCAssumption
<1> QED
  BY <1>5, <1>6 DEF ConnectionsCounted, OfPort

(* Where the port loses no session, the count stays.                                          *)
LEMMA SameCounted ==
  ASSUME IPCTypeOK, ConnectionsCounted, has_port' = has_port, active_sessions' = active_sessions,
         \A s \in Sessions : has_port[s] => (Alive(s)' <=> Alive(s))
  PROVE  ConnectionsCounted' /\ active_sessions' \in 0 .. MaxSessions
<1>1. OfPort' = OfPort
  BY DEF OfPort
<1>2. active_sessions = Cardinality(OfPort)
  BY DEF ConnectionsCounted, OfPort
<1> QED
  BY <1>1, <1>2 DEF ConnectionsCounted, OfPort, IPCTypeOK

\* What ~ServerSession leaves of the requests
Released(pending, handling) ==
  /\ pending_requesting_threads' \in [Sessions -> Seq(Clients)]
  /\ currently_handling' \in [Sessions -> Clients \cup {Nothing}]
  /\ \A s \in Sessions :
       \/ /\ Alive(s) /\ ~Alive(s)'
          /\ pending_requesting_threads'[s] = <<>> /\ currently_handling'[s] = Nothing
       \/ /\ ~(Alive(s) /\ ~Alive(s)')
          /\ pending_requesting_threads'[s] = pending[s] /\ currently_handling'[s] = handling[s]

(* The requests of a session that ended are dropped, and the others stay.                     *)
LEMMA ReleaseFacts ==
  ASSUME NEW active, NEW pending \in [Sessions -> Seq(Clients)],
         NEW handling \in [Sessions -> Clients \cup {Nothing}],
         ReleaseEnds(active, pending, handling)
  PROVE  Released(pending, handling)
<1> DEFINE G == {r \in Sessions : Alive(r) /\ ~Alive(r)'}
<1>1. /\ pending_requesting_threads' = [s \in Sessions |-> IF s \in G THEN <<>> ELSE pending[s]]
      /\ currently_handling' = [s \in Sessions |-> IF s \in G THEN Nothing ELSE handling[s]]
  BY DEF ReleaseEnds
<1>2. \A s \in Sessions : s \in G <=> Alive(s) /\ ~Alive(s)'
  OBVIOUS
<1> HIDE DEF G
<1>3. /\ pending_requesting_threads' \in [Sessions -> Seq(Clients)]
      /\ currently_handling' \in [Sessions -> Clients \cup {Nothing}]
  BY <1>1
<1>4. ASSUME NEW s \in Sessions
      PROVE  /\ s \in G => pending_requesting_threads'[s] = <<>> /\ currently_handling'[s] = Nothing
             /\ s \notin G => pending_requesting_threads'[s] = pending[s] /\ currently_handling'[s] = handling[s]
  BY <1>1
<1> QED
  BY <1>2, <1>3, <1>4, Zenon DEF Released

(* Connecting: the port counts the new session, and forgets those that only the threads woken *)
(* by the connection had kept.                                                                *)
LEMMA ConnectCounted ==
  ASSUME IPCAssumption, IPCTypeOK, ConnectionsCounted, NEW s \in Sessions, ~Alive(s), Alive(s)',
         has_port' = [has_port EXCEPT ![s] = TRUE], active_sessions < MaxSessions,
         \A r \in Sessions \ {s} : Alive(r)' => Alive(r),
         NEW pending, NEW handling, ReleaseEnds(active_sessions + 1, pending, handling)
  PROVE  ConnectionsCounted' /\ active_sessions' \in 0 .. MaxSessions
<1> DEFINE G == {t \in {r \in Sessions : Alive(r) /\ ~Alive(r)'} : has_port[t]}
<1>1. active_sessions' = (active_sessions + 1) - Cardinality(G)
  BY Zenon DEF ReleaseEnds
<1>2. IsFiniteSet(OfPort) /\ G \subseteq OfPort
  BY FS_Subset DEF OfPort, IPCAssumption
<1>a. has_port'[s] = TRUE /\ \A r \in Sessions \ {s} : has_port'[r] = has_port[r]
  BY DEF IPCTypeOK
<1>3. OfPort' = (OfPort \ G) \cup {s} /\ s \notin OfPort \ G
  BY <1>a DEF OfPort
<1>4. active_sessions = Cardinality(OfPort)
  BY DEF ConnectionsCounted, OfPort
<1> HIDE DEF G
<1>5. /\ IsFiniteSet(OfPort \ G) /\ Cardinality(OfPort \ G) \in Nat /\ Cardinality(G) \in Nat
      /\ Cardinality(OfPort \ G) = Cardinality(OfPort) - Cardinality(G)
  BY <1>2, CardinalityRest
<1>6. Cardinality((OfPort \ G) \cup {s}) = Cardinality(OfPort \ G) + 1
  BY <1>3, <1>5, FS_AddElement
<1>7. Cardinality(OfPort') = Cardinality((OfPort \ G) \cup {s})
  BY <1>3
<1>8. Cardinality(OfPort) \in Nat
  BY <1>2, FS_CardinalityType
<1> HIDE DEF OfPort
<1>9. active_sessions' = Cardinality(OfPort') /\ active_sessions' \in Nat /\ active_sessions' <= active_sessions + 1
  BY <1>1, <1>4, <1>5, <1>6, <1>7, <1>8
<1>10. active_sessions' \in 0 .. MaxSessions
  BY <1>9 DEF IPCTypeOK, IPCAssumption
<1> QED
  BY <1>9, <1>10 DEF ConnectionsCounted, OfPort

(* Where no session appears with a port it did not have, sessions without ends stay so.       *)
LEMMA FreshStays ==
  ASSUME FreshHasNoEnds, has_port' = has_port,
         \A s \in Sessions : /\ client'[s] = "none" => client[s] = "none"
                             /\ Alive(s)' => Alive(s) \/ client'[s] # "none"
  PROVE  FreshHasNoEnds'
BY DEF FreshHasNoEnds

\* No end comes back: sessions are used once
EndsGoOn ==
  \A s \in Sessions :
    /\ client[s] # "none" => client'[s] # "none" /\ (Alive(s)' => Alive(s))
    /\ client[s] = "closed" => client'[s] = "closed"

\* A step that sends no request and answers none: it may drop those of a session that ends
Quiet ==
  /\ \A s \in Sessions :
       \/ /\ pending_requesting_threads'[s] = pending_requesting_threads[s]
          /\ currently_handling'[s] = currently_handling[s]
       \/ /\ pending_requesting_threads'[s] \in {<<>>, pending_requesting_threads[s]}
          /\ currently_handling'[s] = Nothing
          /\ \/ client'[s] = "closed"
             \/ Alive(s) /\ ~Alive(s)' /\ pending_requesting_threads'[s] = <<>>
  /\ \A c \in Clients : status'[c] = status[c] \/ status'[c] = "Dead"
  /\ \A o \in WaitObjects : Range(waiting_threads'[o]) \subseteq Range(waiting_threads[o])
  /\ pending_sessions' # <<>> => pending_sessions # <<>> \/ waiting_threads'[Port] = <<>>

(* Where requests are only released, they are dropped where a session ended.                  *)
LEMMA ReleasedQuietly ==
  ASSUME IPCAssumption, IPCTypeOK, Released(pending_requesting_threads, currently_handling),
         \A c \in Clients : status'[c] = status[c] \/ status'[c] = "Dead",
         NEW K, CutOff(K),
         pending_sessions' # <<>> => pending_sessions # <<>> \/ waiting_threads'[Port] = <<>>
  PROVE  Quiet
BY DEF Quiet, Released, CutOff

(* ConnectToPort adds one session and wakes those who wait for it.                            *)
LEMMA ConnectKeeps ==
  ASSUME IPCAssumption, EndsInv, NEW c \in Clients, NEW s \in Sessions, Connect(c, s)
  PROVE  EndsInv' /\ EndsGoOn /\ Quiet
<1> DEFINE K == Range(waiting_threads[Port])
<1>1. IPCTypeOK /\ Port \in WaitObjects /\ "Success" \in Results /\ status \in [Threads -> Statuses]
  BY DEF EndsInv, IPCTypeOK, WaitObjects, Results, Statuses
<1>2. /\ client[s] = "none" /\ client' = [client EXCEPT ![s] = "open"]
      /\ has_port' = [has_port EXCEPT ![s] = TRUE] /\ active_sessions < MaxSessions
      /\ pending_sessions' = Append(pending_sessions, s) /\ server_handle' = server_handle
      /\ Wake(status, K, Port, "Success")
      /\ ReleaseEnds(active_sessions + 1, pending_requesting_threads, currently_handling)
  BY DEF Connect, Fresh
<1>3. /\ CutOff(K) /\ status' \in [Threads -> Statuses]
      /\ \A t \in Threads : status'[t] = IF t \in K THEN "Runs" ELSE status[t]
      /\ res' \in [Threads -> Results] /\ out' \in [Threads -> WaitObjects \cup {Nothing}]
  BY <1>1, <1>2, WakeFacts
<1>4. Released(pending_requesting_threads, currently_handling)
  BY <1>1, <1>2, ReleaseFacts DEF IPCTypeOK
<1>5. ~Alive(s)
  BY <1>2 DEF EndsInv, FreshHasNoEnds
<1>6. pending_sessions' \in Seq(Sessions) /\ Range(pending_sessions') = Range(pending_sessions) \cup {s}
  BY <1>1, <1>2, RangeAppend DEF IPCTypeOK
<1>7. Alive(s)'
  BY <1>6 DEF Alive
<1>8. ASSUME NEW r \in Sessions \ {s} PROVE Alive(r)' => Alive(r)
  <2>1. server_handle'[r] => Alive(r)
    BY <1>2 DEF Alive
  <2>2. r \in Range(pending_sessions') => Alive(r)
    BY <1>6 DEF Alive
  <2> QED
    BY <1>3, <2>1, <2>2, CutEnds
<1>9. ConnectionsCounted' /\ active_sessions' \in 0 .. MaxSessions
  BY <1>1, <1>2, <1>5, <1>7, <1>8, ConnectCounted DEF EndsInv
<1>10. /\ client' \in [Sessions -> {"none", "open", "closed"}] /\ has_port' \in [Sessions -> BOOLEAN]
       /\ server_handle' \in [Sessions -> BOOLEAN]
       /\ client'[s] = "open" /\ \A r \in Sessions \ {s} : client'[r] = client[r] /\ has_port'[r] = has_port[r]
  BY <1>1, <1>2 DEF IPCTypeOK
<1>11. IPCTypeOK'
  BY <1>3, <1>4, <1>6, <1>9, <1>10 DEF IPCTypeOK, CutOff, Released, Statuses
<1>12. WaitListsAgree' /\ ClientsListNothing'
  <2>1. \A v \in Servers \ K : status[v] = "WaitSynchAny" => status'[v] = "WaitSynchAny"
    BY <1>3 DEF Threads
  <2> QED
    BY <1>1, <1>3, <2>1, CutAgrees DEF EndsInv
<1>13. NoWaitOnClosed'
  <2>1. \A r \in Sessions : client'[r] = "closed" => client[r] = "closed"
    BY <1>10
  <2> QED
    BY <1>1, <1>3, <2>1, CutLeavesClosed DEF EndsInv
<1>14. FreshHasNoEnds'
  BY <1>8, <1>10 DEF EndsInv, FreshHasNoEnds
<1>15. EndsGoOn
  BY <1>2, <1>8, <1>10 DEF EndsGoOn
<1>16. Quiet
  <2>1. K \subseteq Servers
    BY <1>1 DEF IPCTypeOK, Range
  <2>2. \A d \in Clients : status'[d] = status[d]
    BY <1>3, <2>1 DEF IPCAssumption, Threads
  <2>3. waiting_threads'[Port] \in Seq(Servers) /\ Range(waiting_threads'[Port]) = {}
    BY <1>1, <1>3 DEF CutOff
  <2>4. waiting_threads'[Port] = <<>>
    BY <2>3, RangeEmpty
  <2> QED
    BY <1>1, <1>3, <1>4, <2>2, <2>4, ReleasedQuietly
<1> QED
  BY <1>9, <1>11, <1>12, <1>13, <1>14, <1>15, <1>16 DEF EndsInv

(* A portless session begins without a connection to count.                                   *)
LEMMA CreateSessionKeeps ==
  ASSUME IPCAssumption, EndsInv, NEW v \in Servers, NEW s \in Sessions, CreateSession(v, s)
  PROVE  EndsInv' /\ EndsGoOn /\ Quiet
<1>1. /\ client[s] = "none" /\ client' = [client EXCEPT ![s] = "open"]
      /\ server_handle' = [server_handle EXCEPT ![s] = TRUE]
      /\ UNCHANGED <<has_port, requests, port, waits, threads>>
  BY DEF CreateSession, Fresh
<1>2. IPCTypeOK /\ ~has_port[s] /\ ~Alive(s)
  BY <1>1 DEF EndsInv, FreshHasNoEnds
<1>3. IPCTypeOK'
  BY <1>1, <1>2 DEF IPCTypeOK, requests, port, waits, threads
<1>4. ASSUME NEW r \in Sessions \ {s} PROVE Alive(r)' <=> Alive(r)
  BY <1>1, <1>2 DEF Alive, IPCTypeOK, port, waits
<1>5. /\ client'[s] = "open" /\ \A r \in Sessions \ {s} : client'[r] = client[r]
      /\ has_port' = has_port /\ active_sessions' = active_sessions
  BY <1>1, <1>2 DEF IPCTypeOK, port
<1>6. ConnectionsCounted'
  BY <1>2, <1>4, <1>5, SameCounted DEF EndsInv
<1>7. WaitListsAgree' /\ ClientsListNothing'
  BY <1>1 DEF EndsInv, WaitListsAgree, ClientsListNothing, waits, threads
<1>8. NoWaitOnClosed' /\ FreshHasNoEnds'
  BY <1>1, <1>4, <1>5 DEF EndsInv, NoWaitOnClosed, FreshHasNoEnds, waits
<1>9. EndsGoOn /\ Quiet
  BY <1>1, <1>4, <1>5 DEF EndsGoOn, Quiet, requests, waits, threads, port
<1> QED
  BY <1>3, <1>6, <1>7, <1>8, <1>9 DEF EndsInv

\* A request wakes a server, which handles it, or is listed
Sent(c, s, K, p, h) ==
  \/ /\ waiting_threads[s] # <<>> /\ K # {} /\ currently_handling[s] = Nothing
     /\ p = pending_requesting_threads
     /\ h = [currently_handling EXCEPT ![s] = c]
  \/ /\ currently_handling[s] # Nothing \/ waiting_threads[s] = <<>>
     /\ K = {}
     /\ p = [pending_requesting_threads EXCEPT ![s] = Append(pending_requesting_threads[s], c)]
     /\ h = currently_handling

\* What a request leaves, and the threads it wakes
SendDone(c, s, K, p, h) ==
  /\ Runs(c) /\ client[s] = "open"
  /\ UNCHANGED <<server_handle, pending_sessions, client, has_port>>
  /\ K \subseteq Servers /\ CutOff(K)
  /\ status' \in [Threads -> Statuses] /\ status'[c] = "WaitIPC"
  /\ \A t \in Threads \ K : t # c => status'[t] = status[t]
  /\ res' \in [Threads -> Results] /\ out' \in [Threads -> WaitObjects \cup {Nothing}]
  /\ p \in [Sessions -> Seq(Clients)] /\ h \in [Sessions -> Clients \cup {Nothing}]
  /\ ReleaseEnds(active_sessions, p, h) /\ Released(p, h)
  /\ Sent(c, s, K, p, h)

(* HandleSyncRequest in these terms.                                                          *)
LEMMA SendFacts ==
  ASSUME IPCAssumption, IPCTypeOK, NEW c \in Clients, NEW s \in Sessions, SendSyncRequest(c, s)
  PROVE  \E K, p, h : SendDone(c, s, K, p, h)
<1> DEFINE pending == Append(pending_requesting_threads[s], c)
           wakes == currently_handling[s] = Nothing /\ waiting_threads[s] # <<>>
           K == IF wakes THEN {HighestPriorityThread(s)} ELSE {}
           before == [status EXCEPT ![c] = "WaitIPC"]
           p == IF wakes THEN [pending_requesting_threads EXCEPT ![s] = Front(pending)]
                ELSE [pending_requesting_threads EXCEPT ![s] = pending]
           h == IF wakes THEN [currently_handling EXCEPT ![s] = Last(pending)] ELSE currently_handling
<1>1. /\ s \in WaitObjects /\ "Success" \in Results /\ before \in [Threads -> Statuses] /\ c \in Threads
      /\ \A t \in Threads : before[t] = IF t = c THEN "WaitIPC" ELSE status[t]
  BY DEF IPCTypeOK, WaitObjects, Results, Statuses, Threads
<1>2. /\ Runs(c) /\ client[s] = "open" /\ UNCHANGED <<server_handle, pending_sessions, client, has_port>>
      /\ Wake(before, K, s, "Success") /\ ReleaseEnds(active_sessions, p, h)
  BY DEF SendSyncRequest
<1>3. pending_requesting_threads[s] \in Seq(Clients)
  BY DEF IPCTypeOK
<1>4. /\ pending \in Seq(Clients) /\ Last(pending) = c
      /\ Front(pending) = pending_requesting_threads[s]
  BY <1>3, AppendEnds
<1>5. Sent(c, s, K, p, h)
  <2>1. CASE wakes
    <3>1. [pending_requesting_threads EXCEPT ![s] = pending_requesting_threads[s]] = pending_requesting_threads
      BY DEF IPCTypeOK
    <3> HIDE DEF pending
    <3> QED
      BY <1>4, <2>1, <3>1 DEF Sent
  <2>2. CASE ~wakes
    BY <2>2 DEF Sent
  <2> QED
    BY <2>1, <2>2
<1>6. K \subseteq Servers
  <2>1. CASE wakes
    <3>1. HighestPriorityThread(s) \in Range(waiting_threads[s])
      BY <1>1, <2>1, HighestPriorityListed
    <3>2. Range(waiting_threads[s]) \subseteq Servers
      BY <1>1 DEF IPCTypeOK, Range
    <3> QED
      BY <3>1, <3>2
  <2>2. CASE ~wakes
    BY <2>2
  <2> QED
    BY <2>1, <2>2
<1>a. c \notin K
  BY <1>6 DEF IPCAssumption
<1> HIDE DEF pending, wakes, K, before
<1>7. p \in [Sessions -> Seq(Clients)] /\ h \in [Sessions -> Clients \cup {Nothing}]
  BY <1>3, <1>4 DEF IPCTypeOK
<1> HIDE DEF p, h
<1>8. /\ CutOff(K) /\ status' \in [Threads -> Statuses]
      /\ \A t \in Threads : status'[t] = IF t \in K THEN "Runs" ELSE before[t]
      /\ res' \in [Threads -> Results] /\ out' \in [Threads -> WaitObjects \cup {Nothing}]
  BY <1>1, <1>2, WakeFacts
<1>9. Released(p, h)
  BY <1>2, <1>7, ReleaseFacts
<1>10. status'[c] = "WaitIPC" /\ \A t \in Threads \ K : t # c => status'[t] = status[t]
  BY <1>1, <1>8, <1>a
<1>11. SendDone(c, s, K, p, h)
  BY <1>2, <1>5, <1>6, <1>7, <1>8, <1>9, <1>10 DEF SendDone
<1> QED
  BY <1>11

(* A request may wake one server, which leaves its waits.                                     *)
LEMMA SendKeeps ==
  ASSUME IPCAssumption, EndsInv, NEW c \in Clients, NEW s \in Sessions, SendSyncRequest(c, s)
  PROVE  EndsInv' /\ EndsGoOn /\ \E K, p, h : SendDone(c, s, K, p, h)
<1>1. IPCTypeOK
  BY DEF EndsInv
<1>2. PICK K, p, h : SendDone(c, s, K, p, h)
  BY <1>1, SendFacts
<1>3. ASSUME NEW r \in Sessions PROVE Alive(r)' => Alive(r)
  <2>1. (server_handle'[r] => Alive(r)) /\ (r \in Range(pending_sessions') => Alive(r))
    BY <1>2 DEF Alive, SendDone
  <2> QED
    BY <1>2, <2>1, CutEnds DEF SendDone
<1>4. ConnectionsCounted' /\ active_sessions' \in 0 .. MaxSessions
  BY <1>1, <1>2, <1>3, ReleaseCounted DEF EndsInv, SendDone
<1>5. IPCTypeOK'
  BY <1>1, <1>2, <1>4 DEF IPCTypeOK, CutOff, Released, Statuses, SendDone
<1>6. WaitListsAgree' /\ ClientsListNothing'
  <2>1. \A v \in Servers \ K : status[v] = "WaitSynchAny" => status'[v] = "WaitSynchAny"
    BY <1>2 DEF Threads, IPCAssumption, SendDone
  <2> QED
    BY <1>1, <1>2, <2>1, CutAgrees DEF EndsInv, SendDone
<1>7. NoWaitOnClosed'
  BY <1>1, <1>2, CutLeavesClosed DEF EndsInv, SendDone
<1>8. FreshHasNoEnds'
  BY <1>2, <1>3, FreshStays DEF EndsInv, SendDone
<1>9. EndsGoOn
  BY <1>2, <1>3 DEF EndsGoOn, SendDone
<1> QED
  BY <1>2, <1>4, <1>5, <1>6, <1>7, <1>8, <1>9 DEF EndsInv

(* Accepting moves a session from the list of the port to the handle table.                   *)
LEMMA AcceptKeeps ==
  ASSUME IPCAssumption, EndsInv, NEW v \in Servers, AcceptSession(v)
  PROVE  EndsInv' /\ EndsGoOn /\ Quiet
<1>1. /\ IPCTypeOK /\ out' = [out EXCEPT ![v] = Nothing]
      /\ UNCHANGED <<client, has_port, requests, active_sessions, waits, status, left>>
  BY DEF EndsInv, AcceptSession
<1>2. /\ server_handle' \in [Sessions -> BOOLEAN] /\ pending_sessions' \in Seq(Sessions)
      /\ res' \in [Threads -> Results]
      /\ \A s \in Sessions : /\ server_handle[s] => server_handle'[s]
                             /\ s \in Range(pending_sessions) =>
                                  s \in Range(pending_sessions') \/ server_handle'[s]
                             /\ s \in Range(pending_sessions') => s \in Range(pending_sessions)
                             /\ server_handle'[s] => server_handle[s] \/ s \in Range(pending_sessions)
      /\ pending_sessions' # <<>> => pending_sessions # <<>>
  <2>1. CASE pending_sessions = <<>>
    BY <1>1, <2>1 DEF AcceptSession, IPCTypeOK, Results
  <2>2. CASE pending_sessions # <<>>
    <3>1. /\ res' = [res EXCEPT ![v] = "Success"] /\ pending_sessions' = Front(pending_sessions)
          /\ server_handle' = [server_handle EXCEPT ![Last(pending_sessions)] = TRUE]
      BY <2>2 DEF AcceptSession
    <3>2. /\ Front(pending_sessions) \in Seq(Sessions) /\ Last(pending_sessions) \in Sessions
          /\ Range(pending_sessions) = Range(Front(pending_sessions)) \cup {Last(pending_sessions)}
      BY <1>1, <2>2, RangeFront DEF IPCTypeOK
    <3> QED
      BY <1>1, <2>2, <3>1, <3>2 DEF IPCTypeOK, Results
  <2> QED
    BY <2>1, <2>2
<1>3. IPCTypeOK'
  BY <1>1, <1>2 DEF IPCTypeOK, requests, waits
<1>4. ASSUME NEW s \in Sessions PROVE Alive(s)' <=> Alive(s)
  BY <1>1, <1>2 DEF Alive, waits
<1>5. ConnectionsCounted'
  BY <1>1, <1>4, SameCounted DEF EndsInv
<1>6. WaitListsAgree' /\ ClientsListNothing'
  BY <1>1 DEF EndsInv, WaitListsAgree, ClientsListNothing, waits
<1>7. NoWaitOnClosed' /\ FreshHasNoEnds'
  BY <1>1, <1>4 DEF EndsInv, NoWaitOnClosed, FreshHasNoEnds, waits
<1>8. EndsGoOn /\ Quiet
  BY <1>1, <1>2, <1>4 DEF EndsGoOn, Quiet, requests, waits
<1> QED
  BY <1>3, <1>5, <1>6, <1>7, <1>8 DEF EndsInv

(* Operations that fail touch no end of a session and no wait.                                *)
LEMMA FailureKeeps ==
  ASSUME IPCAssumption, EndsInv,
         \/ \E c \in Clients : ConnectFails(c) \/ \E s \in Sessions : SendToClosed(c, s)
         \/ \E v \in Servers : \E s \in Sessions : ReplyFails(v, s)
  PROVE  EndsInv' /\ EndsGoOn /\ Quiet
<1>1. /\ UNCHANGED <<session, port, waits, status, pending_requesting_threads>>
      /\ res' \in [Threads -> Results] /\ out' \in [Threads -> WaitObjects \cup {Nothing}]
      /\ currently_handling' \in [Sessions -> Clients \cup {Nothing}]
      /\ \A s \in Sessions : \/ currently_handling'[s] = currently_handling[s]
                             \/ currently_handling'[s] = Nothing /\ client[s] = "closed"
  <2>1. CASE \E c \in Clients : ConnectFails(c) \/ \E s \in Sessions : SendToClosed(c, s)
    BY <2>1 DEF ConnectFails, SendToClosed, EndsInv, IPCTypeOK, Results, requests
  <2>2. CASE \E v \in Servers : \E s \in Sessions : ReplyFails(v, s)
    <3>1. PICK v \in Servers, s \in Sessions : ReplyFails(v, s)
      BY <2>2
    <3>2. /\ currently_handling' = [currently_handling EXCEPT ![s] = Nothing]
          /\ currently_handling[s] = Nothing \/ client[s] # "open"
          /\ server_handle[s]
          /\ UNCHANGED <<session, port, waits, status, pending_requesting_threads>>
          /\ res' = [res EXCEPT ![v] = "SessionClosed"] /\ out' = [out EXCEPT ![v] = Nothing]
      BY <3>1 DEF ReplyFails, ReplyTargets, Owned, IPCAssumption
    <3>3. client[s] \in {"open", "closed"}
      BY <3>2 DEF EndsInv, IPCTypeOK, FreshHasNoEnds, Alive
    <3> QED
      BY <3>2, <3>3 DEF EndsInv, IPCTypeOK, Results
  <2> QED
    BY <2>1, <2>2
<1>2. IPCTypeOK'
  BY <1>1 DEF EndsInv, IPCTypeOK, session, port, waits
<1>3. ASSUME NEW s \in Sessions PROVE Alive(s)' <=> Alive(s)
  BY <1>1 DEF Alive, session, port, waits
<1>4. ConnectionsCounted'
  BY <1>1, <1>3, SameCounted DEF EndsInv, session, port
<1>5. WaitListsAgree' /\ ClientsListNothing'
  BY <1>1 DEF EndsInv, WaitListsAgree, ClientsListNothing, waits
<1>6. NoWaitOnClosed' /\ FreshHasNoEnds'
  BY <1>1, <1>3 DEF EndsInv, NoWaitOnClosed, FreshHasNoEnds, waits, session
<1>7. EndsGoOn /\ Quiet
  BY <1>1, <1>3 DEF EndsGoOn, Quiet, session, port, waits
<1> QED
  BY <1>2, <1>4, <1>5, <1>6, <1>7 DEF EndsInv

(* Closing a client end wakes everyone who waits for the session.                             *)
LEMMA CloseClientKeeps ==
  ASSUME IPCAssumption, EndsInv, NEW s \in Sessions, CloseClient(s)
  PROVE  EndsInv' /\ EndsGoOn /\ Quiet
<1> DEFINE K == Range(waiting_threads[s])
           p == [pending_requesting_threads EXCEPT ![s] = <<>>]
           h == [currently_handling EXCEPT ![s] = Nothing]
<1>1. IPCTypeOK /\ s \in WaitObjects /\ "SessionClosed" \in Results /\ status \in [Threads -> Statuses]
  BY DEF EndsInv, IPCTypeOK, WaitObjects, Results, Statuses
<1>2. /\ client[s] = "open" /\ client' = [client EXCEPT ![s] = "closed"]
      /\ has_port' = has_port /\ server_handle' = server_handle /\ pending_sessions' = pending_sessions
      /\ Wake(status, K, s, "SessionClosed") /\ ReleaseEnds(active_sessions, p, h)
  BY DEF CloseClient
<1> HIDE DEF K
<1>a. /\ \A r \in Sessions \ {s} : p[r] = pending_requesting_threads[r] /\ h[r] = currently_handling[r]
      /\ p[s] = <<>> /\ h[s] = Nothing
  BY <1>1 DEF IPCTypeOK
<1>3. p \in [Sessions -> Seq(Clients)] /\ h \in [Sessions -> Clients \cup {Nothing}]
  BY <1>1 DEF IPCTypeOK
<1> HIDE DEF p, h
<1>4. /\ CutOff(K) /\ status' \in [Threads -> Statuses]
      /\ \A t \in Threads : status'[t] = IF t \in K THEN "Runs" ELSE status[t]
      /\ res' \in [Threads -> Results] /\ out' \in [Threads -> WaitObjects \cup {Nothing}]
  BY <1>1, <1>2, WakeFacts
<1>5. Released(p, h)
  BY <1>2, <1>3, ReleaseFacts
<1>6. ASSUME NEW r \in Sessions PROVE Alive(r)' => Alive(r)
  <2>1. (server_handle'[r] => Alive(r)) /\ (r \in Range(pending_sessions') => Alive(r))
    BY <1>2 DEF Alive
  <2> QED
    BY <1>4, <2>1, CutEnds
<1>7. ConnectionsCounted' /\ active_sessions' \in 0 .. MaxSessions
  BY <1>1, <1>2, <1>6, ReleaseCounted DEF EndsInv
<1>8. /\ client' \in [Sessions -> {"none", "open", "closed"}]
      /\ client'[s] = "closed" /\ \A r \in Sessions \ {s} : client'[r] = client[r]
  BY <1>1, <1>2 DEF IPCTypeOK
<1>9. IPCTypeOK'
  BY <1>1, <1>2, <1>4, <1>5, <1>7, <1>8 DEF IPCTypeOK, CutOff, Released, Statuses
<1>10. WaitListsAgree' /\ ClientsListNothing'
  <2>1. \A v \in Servers \ K : status[v] = "WaitSynchAny" => status'[v] = "WaitSynchAny"
    BY <1>4 DEF Threads
  <2> QED
    BY <1>1, <1>4, <2>1, CutAgrees DEF EndsInv
<1>11. NoWaitOnClosed'
  <2>1. \A r \in Sessions : client'[r] = "closed" =>
          client[r] = "closed" \/ Range(waiting_threads[r]) \subseteq K
    BY <1>8 DEF K
  <2> QED
    BY <1>1, <1>4, <2>1, CutLeavesClosed DEF EndsInv
<1>12. FreshHasNoEnds'
  <2>1. \A r \in Sessions : client'[r] = "none" => client[r] = "none"
    BY <1>2, <1>8
  <2> QED
    BY <1>2, <1>6, <2>1, FreshStays DEF EndsInv
<1>13. EndsGoOn
  BY <1>6, <1>8 DEF EndsGoOn
<1>14. Quiet
  <2>1. K \subseteq Servers
    BY <1>1 DEF IPCTypeOK, Range, K
  <2>2. \A d \in Clients : status'[d] = status[d]
    BY <1>4, <2>1 DEF IPCAssumption, Threads
  <2>3. \A r \in Sessions :
          \/ /\ pending_requesting_threads'[r] = pending_requesting_threads[r]
             /\ currently_handling'[r] = currently_handling[r]
          \/ /\ pending_requesting_threads'[r] \in {<<>>, pending_requesting_threads[r]}
             /\ currently_handling'[r] = Nothing
             /\ \/ client'[r] = "closed"
                \/ Alive(r) /\ ~Alive(r)' /\ pending_requesting_threads'[r] = <<>>
    BY <1>2, <1>5, <1>8, <1>a DEF Released
  <2>4. \A o \in WaitObjects : Range(waiting_threads'[o]) \subseteq Range(waiting_threads[o])
    BY <1>4 DEF CutOff
  <2> QED
    BY <1>2, <2>2, <2>3, <2>4 DEF Quiet
<1> QED
  BY <1>7, <1>9, <1>10, <1>11, <1>12, <1>13, <1>14 DEF EndsInv

(* Closing a server end may leave the session without references.                             *)
LEMMA CloseServerKeeps ==
  ASSUME IPCAssumption, EndsInv, NEW s \in Sessions, CloseServer(s)
  PROVE  EndsInv' /\ EndsGoOn /\ Quiet
<1>1. /\ IPCTypeOK /\ server_handle' = [server_handle EXCEPT ![s] = FALSE]
      /\ UNCHANGED <<client, has_port, pending_sessions, waits, threads>>
      /\ ReleaseEnds(active_sessions, pending_requesting_threads, currently_handling)
  BY DEF EndsInv, CloseServer
<1>2. Released(pending_requesting_threads, currently_handling)
  BY <1>1, ReleaseFacts DEF IPCTypeOK
<1>3. /\ server_handle' \in [Sessions -> BOOLEAN]
      /\ \A r \in Sessions : server_handle'[r] => server_handle[r]
  BY <1>1 DEF IPCTypeOK
<1>4. ASSUME NEW r \in Sessions PROVE Alive(r)' => Alive(r)
  BY <1>1, <1>3 DEF Alive, waits
<1>5. ConnectionsCounted' /\ active_sessions' \in 0 .. MaxSessions
  BY <1>1, <1>4, ReleaseCounted DEF EndsInv
<1>6. IPCTypeOK'
  BY <1>1, <1>2, <1>3, <1>5 DEF IPCTypeOK, Released, waits, threads
<1>7. WaitListsAgree' /\ ClientsListNothing'
  BY <1>1 DEF EndsInv, WaitListsAgree, ClientsListNothing, waits, threads
<1>8. NoWaitOnClosed' /\ FreshHasNoEnds'
  BY <1>1, <1>4 DEF EndsInv, NoWaitOnClosed, FreshHasNoEnds, waits
<1>9. EndsGoOn
  BY <1>1, <1>4 DEF EndsGoOn
<1>10. Quiet
  BY <1>1, <1>2, NoneCut, ReleasedQuietly DEF threads
<1> QED
  BY <1>5, <1>6, <1>7, <1>8, <1>9, <1>10 DEF EndsInv

(* A thread that stops leaves its waits, and with them the sessions it alone kept.            *)
LEMMA StopKeeps ==
  ASSUME IPCAssumption, EndsInv, NEW t \in Threads, Stop(t)
  PROVE  EndsInv' /\ EndsGoOn /\ Quiet
<1>1. /\ IPCTypeOK /\ status' = [status EXCEPT ![t] = "Dead"]
      /\ UNCHANGED <<session, pending_sessions, res, out>>
      /\ ReleaseEnds(active_sessions, pending_requesting_threads, currently_handling)
  BY DEF EndsInv, Stop
<1>2. CutOff({t})
  BY <1>1, StopCuts
<1>3. Released(pending_requesting_threads, currently_handling)
  BY <1>1, ReleaseFacts DEF IPCTypeOK
<1>4. ASSUME NEW r \in Sessions PROVE Alive(r)' => Alive(r)
  <2>1. (server_handle'[r] => Alive(r)) /\ (r \in Range(pending_sessions') => Alive(r))
    BY <1>1 DEF Alive, session
  <2> QED
    BY <1>2, <2>1, CutEnds
<1>5. ConnectionsCounted' /\ active_sessions' \in 0 .. MaxSessions
  BY <1>1, <1>4, ReleaseCounted DEF EndsInv, session
<1>6. status' \in [Threads -> Statuses] /\ \A r \in Threads \ {t} : status'[r] = status[r]
  BY <1>1 DEF IPCTypeOK, Statuses
<1>7. IPCTypeOK'
  BY <1>1, <1>2, <1>3, <1>5, <1>6 DEF IPCTypeOK, CutOff, Released, Statuses, session
<1>8. WaitListsAgree' /\ ClientsListNothing'
  <2>1. \A v \in Servers \ {t} : status[v] = "WaitSynchAny" => status'[v] = "WaitSynchAny"
    BY <1>6 DEF Threads
  <2> QED
    BY <1>1, <1>2, <2>1, CutAgrees DEF EndsInv
<1>9. NoWaitOnClosed' /\ FreshHasNoEnds'
  BY <1>1, <1>2, <1>4, CutLeavesClosed, FreshStays DEF EndsInv, session
<1>10. EndsGoOn
  BY <1>1, <1>4 DEF EndsGoOn, session
<1>11. Quiet
  <2>1. \A c \in Clients : status'[c] = status[c] \/ status'[c] = "Dead"
    BY <1>1, <1>6 DEF Threads, IPCTypeOK
  <2> QED
    BY <1>1, <1>2, <1>3, <2>1, ReleasedQuietly
<1> QED
  BY <1>5, <1>7, <1>8, <1>9, <1>10, <1>11 DEF EndsInv

(* What a reply does to the threads: at most one client, which slept, runs again.             *)
LEMMA AnsweredFacts ==
  ASSUME IPCAssumption, IPCTypeOK, NEW target \in Sessions \cup {Nothing},
         target # Nothing => currently_handling[target] # Nothing
  PROVE  /\ Answered(target) \in [Threads -> Statuses]
         /\ \A t \in Threads : \/ Answered(target)[t] = status[t]
                               \/ /\ t \in Clients /\ target # Nothing /\ t = currently_handling[target]
                                  /\ status[t] = "WaitIPC" /\ Answered(target)[t] = "Runs"
         /\ target # Nothing => Answered(target)[currently_handling[target]] # "WaitIPC"
<1>1. target # Nothing => currently_handling[target] \in Clients
  BY DEF IPCTypeOK
<1>2. status \in [Threads -> Statuses] /\ Clients \subseteq Threads
  BY DEF IPCTypeOK, Statuses, Threads
<1>3. CASE target = Nothing \/ status[currently_handling[target]] # "WaitIPC"
  BY <1>1, <1>2, <1>3 DEF Answered
<1>4. CASE target # Nothing /\ status[currently_handling[target]] = "WaitIPC"
  <2>1. Answered(target) = [status EXCEPT ![currently_handling[target]] = "Runs"]
    BY <1>4 DEF Answered
  <2> QED
    BY <1>1, <1>2, <1>4, <2>1 DEF Statuses
<1> QED
  BY <1>3, <1>4

\* The requests after the reply to target
Replied(target) == [s \in Sessions |-> IF s = target THEN Nothing ELSE currently_handling[s]]

(* Receiving takes the request that came last, of a session that has one and handles none.    *)
LEMMA ReceiveFacts ==
  ASSUME IPCAssumption, IPCTypeOK, NEW v \in Servers, NEW waited \in Seq(WaitObjects),
         NEW handling \in [Sessions -> Clients \cup {Nothing}],
         Ready(waited, handling) # {}, Receive(v, waited, handling)
  PROVE  /\ out' \in [Threads -> WaitObjects \cup {Nothing}] /\ res' \in [Threads -> Results]
         /\ UNCHANGED waits
         /\ \/ currently_handling' = handling /\ UNCHANGED pending_requesting_threads
            \/ \E s \in Sessions :
                 /\ client[s] = "open" /\ pending_requesting_threads[s] # <<>> /\ handling[s] = Nothing
                 /\ currently_handling' = [handling EXCEPT ![s] = Last(pending_requesting_threads[s])]
                 /\ pending_requesting_threads' =
                      [pending_requesting_threads EXCEPT ![s] = Front(pending_requesting_threads[s])]
<1>1. PICK i : i = CHOOSE k \in Ready(waited, handling) : \A j \in Ready(waited, handling) : k <= j
  OBVIOUS
<1>2. i \in Ready(waited, handling)
  BY <1>1, FirstReady
<1>3. i \in DOMAIN waited /\ ~ServerShouldWait(waited[i], handling)
  BY <1>2 DEF Ready
<1> DEFINE o == waited[i]
           takes == o # Port /\ client[o] = "open"
<1>4. o \in WaitObjects
  BY <1>3
<1>5. /\ out' = [out EXCEPT ![v] = o]
      /\ res' = [res EXCEPT ![v] = IF o = Port \/ takes THEN "Success" ELSE "SessionClosed"]
      /\ IF takes
         THEN /\ currently_handling' = [handling EXCEPT ![o] = Last(pending_requesting_threads[o])]
              /\ pending_requesting_threads' = [pending_requesting_threads EXCEPT ![o] = Front(@)]
         ELSE currently_handling' = handling /\ UNCHANGED pending_requesting_threads
      /\ UNCHANGED waits
  BY <1>1 DEF Receive
<1>6. out' \in [Threads -> WaitObjects \cup {Nothing}] /\ res' \in [Threads -> Results]
  <2> HIDE DEF takes, o
  <2> QED
    BY <1>4, <1>5 DEF IPCTypeOK, Results
<1>7. takes => /\ o \in Sessions /\ client[o] = "open"
               /\ pending_requesting_threads[o] # <<>> /\ handling[o] = Nothing
  BY <1>3, <1>4 DEF ServerShouldWait, WaitObjects
<1> HIDE DEF o
<1> QED
  BY <1>5, <1>6, <1>7

(* A server that runs is in no wait list.                                                     *)
LEMMA NotListed ==
  ASSUME EndsInv, NEW v \in Servers, Runs(v), NEW o \in WaitObjects
  PROVE  wait_objects[v] = <<>> /\ v \notin Range(waiting_threads[o])
<1>1. wait_objects[v] = <<>>
  BY DEF EndsInv, WaitListsAgree, Runs
<1>2. Range(<<>>) = {}
  BY DEF Range
<1> QED
  BY <1>1, <1>2 DEF EndsInv, WaitListsAgree

(* A server that goes to sleep is listed by the objects it waits for, of which none is ready; *)
(* they are open, and were referred to before.                                                *)
LEMMA SleepFacts ==
  ASSUME IPCAssumption, EndsInv, NEW v \in Servers, Runs(v),
         NEW waited \in Seq(WaitObjects), Range(waited) \subseteq Owned \cup {Port},
         NEW handling, Ready(waited, handling) = {}, Sleep(v, waited, handling),
         UNCHANGED <<session, port>>
  PROVE  /\ wait_objects' \in [Threads -> Seq(WaitObjects)]
         /\ waiting_threads' \in [WaitObjects -> Seq(Servers)]
         /\ wait_objects'[v] = waited
         /\ \A t \in Threads \ {v} : wait_objects'[t] = wait_objects[t]
         /\ \A o \in WaitObjects :
              /\ v \notin Range(waiting_threads[o])
              /\ o \notin Range(waited) => waiting_threads'[o] = waiting_threads[o]
              /\ o \in Range(waited) => /\ ServerShouldWait(o, handling)
                                         /\ Range(waiting_threads'[o]) = Range(waiting_threads[o]) \cup {v}
         /\ NoWaitOnClosed'
         /\ \A s \in Sessions : Alive(s)' <=> Alive(s)
<1>1. /\ IPCTypeOK /\ wait_objects' = [wait_objects EXCEPT ![v] = waited]
      /\ waiting_threads' = [o \in WaitObjects |->
           IF o \in Range(waited) /\ v \notin Range(waiting_threads[o])
           THEN Append(waiting_threads[o], v) ELSE waiting_threads[o]]
  BY DEF EndsInv, Sleep
<1>2. v \in Threads /\ wait_objects[v] = <<>>
  BY DEF EndsInv, WaitListsAgree, Runs, Threads, WaitObjects
<1>3. \A o \in WaitObjects : v \notin Range(waiting_threads[o])
  <2>1. Range(<<>>) = {}
    BY DEF Range
  <2> QED
    BY <1>2, <2>1 DEF EndsInv, WaitListsAgree
<1>4. /\ wait_objects' \in [Threads -> Seq(WaitObjects)] /\ wait_objects'[v] = waited
      /\ \A t \in Threads \ {v} : wait_objects'[t] = wait_objects[t]
  BY <1>1, <1>2 DEF IPCTypeOK
<1>5. \A o \in WaitObjects : waiting_threads'[o] =
        IF o \in Range(waited) THEN Append(waiting_threads[o], v) ELSE waiting_threads[o]
  BY <1>1, <1>3
<1>6. \A o \in WaitObjects : /\ Append(waiting_threads[o], v) \in Seq(Servers)
                             /\ Range(Append(waiting_threads[o], v)) = Range(waiting_threads[o]) \cup {v}
  BY <1>1, RangeAppend DEF IPCTypeOK
<1>7. waiting_threads' \in [WaitObjects -> Seq(Servers)]
  <2>1. \A o \in WaitObjects : waiting_threads[o] \in Seq(Servers)
    BY <1>1 DEF IPCTypeOK
  <2> QED
    BY <1>1, <1>6, <2>1
<1>8. ASSUME NEW o \in Range(waited) PROVE ServerShouldWait(o, handling)
  <2>1. PICK i \in DOMAIN waited : waited[i] = o
    BY DEF Range
  <2> QED
    BY <2>1 DEF Ready
<1>9. ASSUME NEW s \in Sessions, client'[s] = "closed" PROVE waiting_threads'[s] = <<>>
  <2>1. client[s] = "closed" /\ s # Port /\ s \in WaitObjects
    BY <1>9 DEF session, IPCAssumption, WaitObjects
  <2>2. s \notin Range(waited)
    BY <1>8, <2>1 DEF ServerShouldWait
  <2> QED
    BY <1>5, <2>1, <2>2 DEF EndsInv, NoWaitOnClosed
<1>10. ASSUME NEW s \in Sessions PROVE Alive(s)' <=> Alive(s)
  <2>1. s \in Range(waited) => server_handle[s]
    BY DEF IPCAssumption, Owned
  <2>2. Range(<<>>) = {}
    BY DEF Range
  <2>3. server_handle'[s] = server_handle[s] /\ pending_sessions' = pending_sessions
    BY DEF session, port
  <2>4. \A t \in Threads : s \in Range(wait_objects'[t]) =>
          s \in Range(wait_objects[t]) \/ server_handle[s]
    BY <1>4, <2>1
  <2>5. \A t \in Threads : s \in Range(wait_objects[t]) => s \in Range(wait_objects'[t])
    BY <1>2, <1>4, <2>2
  <2> QED
    BY <2>3, <2>4, <2>5 DEF Alive
<1> QED
  BY <1>3, <1>4, <1>5, <1>6, <1>7, <1>8, <1>9, <1>10 DEF NoWaitOnClosed

\* At most one request changes hands after the reply
Moved(h) ==
  \/ currently_handling' = h /\ UNCHANGED pending_requesting_threads
  \/ \E s \in Sessions :
       /\ client[s] = "open" /\ pending_requesting_threads[s] # <<>> /\ h[s] = Nothing
       /\ currently_handling' = [h EXCEPT ![s] = Last(pending_requesting_threads[s])]
       /\ pending_requesting_threads' =
            [pending_requesting_threads EXCEPT ![s] = Front(pending_requesting_threads[s])]

\* What ReplyAndReceive leaves
ReplyDone(v, target) ==
  /\ target \in Sessions \cup {Nothing}
  /\ target # Nothing => currently_handling[target] # Nothing
  /\ UNCHANGED <<session, port>>
  /\ \A c \in Clients : status'[c] = Answered(target)[c]
  /\ Moved(Replied(target))
  /\ \A o \in WaitObjects : /\ v \notin Range(waiting_threads[o])
                            /\ \/ waiting_threads'[o] = waiting_threads[o]
                               \/ ServerShouldWait(o, currently_handling)'

(* ReplyAndReceive changes no end of a session.                                               *)
LEMMA ReplyKeeps ==
  ASSUME IPCAssumption, EndsInv, NEW v \in Servers,
         NEW waited \in ObjectLists(v), NEW target \in ReplyTargets(v),
         ReplyAndReceive(v, waited, target)
  PROVE  EndsInv' /\ EndsGoOn /\ ReplyDone(v, target)
<1> DEFINE h == Replied(target)
<1>1. /\ IPCTypeOK /\ v \in Threads /\ waited \in Seq(WaitObjects)
      /\ Range(waited) \subseteq Owned \cup {Port} /\ target \in Sessions \cup {Nothing}
  BY ArgumentFacts DEF EndsInv, Threads, Owned
<1>2. /\ Runs(v) /\ UNCHANGED <<session, port>>
      /\ target # Nothing => currently_handling[target] # Nothing /\ client[target] = "open"
      /\ \/ /\ out' = [out EXCEPT ![v] = Nothing]
            /\ res' = [res EXCEPT ![v] = IF target = Nothing THEN "Placeholder" ELSE "Success"]
            /\ currently_handling' = h /\ status' = Answered(target)
            /\ UNCHANGED <<pending_requesting_threads, waits>>
         \/ Ready(waited, h) # {} /\ Receive(v, waited, h) /\ status' = Answered(target)
         \/ /\ Ready(waited, h) = {} /\ Sleep(v, waited, h)
            /\ status' = [Answered(target) EXCEPT ![v] = "WaitSynchAny"]
  BY DEF ReplyAndReceive, Replied
<1>3. /\ Answered(target) \in [Threads -> Statuses]
      /\ \A t \in Threads : Answered(target)[t] = status[t] \/ t \in Clients
  BY <1>1, <1>2, AnsweredFacts
<1>4. h \in [Sessions -> Clients \cup {Nothing}]
  BY <1>1 DEF IPCTypeOK, Replied
<1> HIDE DEF h
<1>5. CASE UNCHANGED waits /\ status' = Answered(target)
           /\ out' \in [Threads -> WaitObjects \cup {Nothing}] /\ res' \in [Threads -> Results]
           /\ currently_handling' \in [Sessions -> Clients \cup {Nothing}]
           /\ pending_requesting_threads' \in [Sessions -> Seq(Clients)] /\ Moved(h)
  <2>1. IPCTypeOK'
    BY <1>1, <1>2, <1>3, <1>5 DEF IPCTypeOK, Statuses, session, port, waits
  <2>2. ASSUME NEW s \in Sessions PROVE Alive(s)' <=> Alive(s)
    BY <1>2, <1>5 DEF Alive, session, port, waits
  <2>3. ConnectionsCounted'
    BY <1>1, <1>2, <2>2, SameCounted DEF EndsInv, session, port
  <2>4. \A w \in Servers : status'[w] = status[w]
    BY <1>3, <1>5 DEF IPCAssumption, Threads
  <2>5. WaitListsAgree' /\ ClientsListNothing'
    BY <1>5, <2>4 DEF EndsInv, WaitListsAgree, ClientsListNothing, waits
  <2>6. NoWaitOnClosed' /\ FreshHasNoEnds'
    BY <1>2, <1>5, <2>2 DEF EndsInv, NoWaitOnClosed, FreshHasNoEnds, waits, session
  <2>7. EndsGoOn
    BY <1>2, <2>2 DEF EndsGoOn, session
  <2>8. \A o \in WaitObjects : v \notin Range(waiting_threads[o])
    BY <1>2, NotListed
  <2>9. ReplyDone(v, target)
    BY <1>1, <1>2, <1>5, <2>8 DEF ReplyDone, waits, h
  <2> QED
    BY <2>1, <2>3, <2>5, <2>6, <2>7, <2>9 DEF EndsInv
<1>6. CASE /\ out' = [out EXCEPT ![v] = Nothing]
           /\ res' = [res EXCEPT ![v] = IF target = Nothing THEN "Placeholder" ELSE "Success"]
           /\ currently_handling' = h /\ status' = Answered(target)
           /\ UNCHANGED <<pending_requesting_threads, waits>>
  <2>1. out' \in [Threads -> WaitObjects \cup {Nothing}] /\ res' \in [Threads -> Results]
    BY <1>1, <1>6 DEF IPCTypeOK, Results
  <2> QED
    BY <1>1, <1>4, <1>5, <1>6, <2>1 DEF IPCTypeOK, Moved
<1>7. CASE Ready(waited, h) # {} /\ Receive(v, waited, h) /\ status' = Answered(target)
  <2>1. /\ out' \in [Threads -> WaitObjects \cup {Nothing}] /\ res' \in [Threads -> Results]
        /\ UNCHANGED waits
        /\ Moved(h)
    BY <1>1, <1>4, <1>7, ReceiveFacts DEF Moved
  <2>2. /\ currently_handling' \in [Sessions -> Clients \cup {Nothing}]
        /\ pending_requesting_threads' \in [Sessions -> Seq(Clients)]
    <3>1. CASE currently_handling' = h /\ UNCHANGED pending_requesting_threads
      BY <1>1, <1>4, <3>1 DEF IPCTypeOK
    <3>2. ASSUME NEW s \in Sessions, pending_requesting_threads[s] # <<>>,
                 currently_handling' = [h EXCEPT ![s] = Last(pending_requesting_threads[s])],
                 pending_requesting_threads' =
                   [pending_requesting_threads EXCEPT ![s] = Front(pending_requesting_threads[s])]
          PROVE  /\ currently_handling' \in [Sessions -> Clients \cup {Nothing}]
                 /\ pending_requesting_threads' \in [Sessions -> Seq(Clients)]
      <4>1. pending_requesting_threads[s] \in Seq(Clients)
        BY <1>1 DEF IPCTypeOK
      <4>2. /\ Front(pending_requesting_threads[s]) \in Seq(Clients)
            /\ Last(pending_requesting_threads[s]) \in Clients
        BY <3>2, <4>1, RangeFront
      <4> QED
        BY <1>1, <1>4, <3>2, <4>2 DEF IPCTypeOK
    <3> QED
      BY <2>1, <3>1, <3>2, Zenon DEF Moved
  <2> QED
    BY <1>5, <1>7, <2>1, <2>2
<1>8. CASE /\ Ready(waited, h) = {} /\ Sleep(v, waited, h)
           /\ status' = [Answered(target) EXCEPT ![v] = "WaitSynchAny"]
  <2>1. /\ wait_objects' \in [Threads -> Seq(WaitObjects)]
        /\ waiting_threads' \in [WaitObjects -> Seq(Servers)]
        /\ wait_objects'[v] = waited
        /\ \A t \in Threads \ {v} : wait_objects'[t] = wait_objects[t]
        /\ \A o \in WaitObjects :
              /\ v \notin Range(waiting_threads[o])
              /\ o \notin Range(waited) => waiting_threads'[o] = waiting_threads[o]
              /\ o \in Range(waited) => /\ ServerShouldWait(o, h)
                                         /\ Range(waiting_threads'[o]) = Range(waiting_threads[o]) \cup {v}
        /\ NoWaitOnClosed'
        /\ \A s \in Sessions : Alive(s)' <=> Alive(s)
    BY <1>1, <1>2, <1>8, SleepFacts
  <2>2. /\ out' = [out EXCEPT ![v] = Nothing] /\ res' = [res EXCEPT ![v] = "Success"]
        /\ currently_handling' = h /\ UNCHANGED pending_requesting_threads
    BY <1>8 DEF Sleep
  <2>3. /\ status' \in [Threads -> Statuses] /\ status'[v] = "WaitSynchAny"
        /\ \A w \in Servers \ {v} : status'[w] = status[w]
    BY <1>1, <1>3, <1>8 DEF IPCAssumption, Threads, Statuses
  <2>4. out' \in [Threads -> WaitObjects \cup {Nothing}] /\ res' \in [Threads -> Results]
    BY <1>1, <2>2 DEF IPCTypeOK, Results
  <2>5. IPCTypeOK'
    BY <1>1, <1>2, <1>4, <2>1, <2>2, <2>3, <2>4 DEF IPCTypeOK, Statuses, session, port
  <2>6. ConnectionsCounted'
    BY <1>1, <1>2, <2>1, SameCounted DEF EndsInv, session, port
  <2>7. ASSUME NEW o \in WaitObjects, NEW w \in Servers
        PROVE  /\ w \in Range(waiting_threads'[o]) <=> o \in Range(wait_objects'[w])
               /\ wait_objects'[w] # <<>> => status'[w] = "WaitSynchAny"
    <3>1. /\ w \in Range(waiting_threads[o]) <=> o \in Range(wait_objects[w])
          /\ wait_objects[w] # <<>> => status[w] = "WaitSynchAny"
      BY DEF EndsInv, WaitListsAgree
    <3>2. CASE w = v
      BY <2>1, <2>3, <3>2
    <3>3. CASE w # v
      BY <2>1, <2>3, <3>1, <3>3 DEF Threads
    <3> QED
      BY <3>2, <3>3
  <2>8. ClientsListNothing'
    BY <2>1 DEF EndsInv, ClientsListNothing, Threads, IPCAssumption
  <2>9. FreshHasNoEnds'
    BY <1>2, <2>1 DEF EndsInv, FreshHasNoEnds, session
  <2>10. EndsGoOn
    BY <1>2, <2>1 DEF EndsGoOn, session
  <2>11. ASSUME NEW o \in Range(waited), o \in WaitObjects PROVE ServerShouldWait(o, currently_handling)'
    BY <1>2, <2>1, <2>2, <2>11 DEF ServerShouldWait, session, port
  <2>12. ReplyDone(v, target)
    <3>1. Moved(h)
      BY <2>2 DEF Moved
    <3>2. \A c \in Clients : status'[c] = Answered(target)[c]
      BY <1>3, <1>8 DEF Threads, IPCAssumption
    <3> QED
      BY <1>1, <1>2, <2>1, <2>11, <3>1, <3>2 DEF ReplyDone, h
  <2> QED
    BY <2>1, <2>5, <2>6, <2>7, <2>8, <2>9, <2>10, <2>12 DEF EndsInv, WaitListsAgree
<1> QED
  BY <1>2, <1>6, <1>7, <1>8

\* A disciplined server that replied on a session with more requests takes a request
TakesMore(target) ==
  /\ Disciplined /\ target # Nothing /\ \A s \in Sessions : client[s] # "closed"
  /\ pending_requesting_threads[target] # <<>>
  => currently_handling' # Replied(target)

(* For it waits on that session too, which is ready, so that it does not sleep; and the port, *)
(* where there is nothing to take, is the last of what it waits for.                          *)
LEMMA DisciplinedTakes ==
  ASSUME IPCAssumption, EndsInv, NEW v \in Servers,
         NEW waited \in ObjectLists(v), NEW target \in ReplyTargets(v),
         ReplyAndReceive(v, waited, target)
  PROVE  TakesMore(target)
<1> DEFINE h == Replied(target)
<1> SUFFICES ASSUME Disciplined, target # Nothing, \A s \in Sessions : client[s] # "closed",
                    pending_requesting_threads[target] # <<>>
             PROVE  currently_handling' # h
  BY DEF TakesMore
<1>1. /\ IPCTypeOK /\ target \in Owned /\ target \in Sessions /\ target # Port
      /\ waited \in Seq(WaitObjects) /\ h[target] = Nothing
      /\ h \in [Sessions -> Clients \cup {Nothing}]
  <2>1. IPCTypeOK
    BY DEF EndsInv
  <2>2. target \in Owned \cup {Nothing} /\ waited \in Seq(WaitObjects)
    BY <2>1, ArgumentFacts
  <2> QED
    BY <2>1, <2>2 DEF Owned, Replied, IPCAssumption, IPCTypeOK
<1>2. \A s \in Owned : s \in Sessions /\ s # Port /\ client[s] = "open"
  BY <1>1 DEF Owned, EndsInv, FreshHasNoEnds, Alive, IPCTypeOK, IPCAssumption
<1>3. PICK q : /\ q \in Seq(WaitObjects) /\ Range(q) = Owned /\ waited = q \o <<Port>>
  <2>1. PICK q : q = SetToSeq(Owned)
    OBVIOUS
  <2>2. Owned \subseteq WaitObjects /\ IsFiniteSet(Owned)
    BY FS_Subset DEF Owned, WaitObjects, IPCAssumption
  <2>3. q \in Seq(Owned) /\ Range(q) = Owned
    BY <2>1, <2>2, SetToSeqFacts
  <2>4. q \in Seq(WaitObjects)
    BY <2>2, <2>3
  <2>5. waited = q \o <<Port>>
    BY <2>1 DEF ObjectLists
  <2> QED
    BY <2>3, <2>4, <2>5
<1>4. /\ Len(q) \in Nat /\ DOMAIN q = 1 .. Len(q) /\ DOMAIN waited = 1 .. Len(q) + 1
      /\ \A i \in 1 .. Len(q) : waited[i] = q[i] /\ q[i] \in Owned
  <2>1. Len(q) \in Nat /\ DOMAIN q = 1 .. Len(q)
    BY <1>3
  <2>2. \A i \in 1 .. Len(q) : q[i] \in Owned
    BY <1>3, <2>1 DEF Range
  <2>3. Port \in WaitObjects
    BY DEF WaitObjects
  <2>4. DOMAIN waited = 1 .. Len(q) + 1 /\ \A i \in 1 .. Len(q) : waited[i] = q[i]
    BY <1>3, <2>3
  <2> QED
    BY <2>1, <2>2, <2>4
<1>5. PICK j \in 1 .. Len(q) : waited[j] = target
  BY <1>1, <1>3, <1>4 DEF Range
<1>6. j \in Ready(waited, h)
  BY <1>1, <1>4, <1>5 DEF Ready, ServerShouldWait
<1>7. Receive(v, waited, h)
  <2>1. waited # <<>>
    BY <1>4, <1>5
  <2>2. \/ waited = <<>>
        \/ Receive(v, waited, h)
        \/ Ready(waited, h) = {}
    BY DEF ReplyAndReceive, Replied
  <2> QED
    BY <1>6, <2>1, <2>2
<1>8. PICK i : i = CHOOSE k \in Ready(waited, h) : \A l \in Ready(waited, h) : k <= l
  OBVIOUS
<1>9. i \in 1 .. Len(q) /\ ~ServerShouldWait(waited[i], h)
  <2>1. Ready(waited, h) \subseteq Nat
    BY <1>4 DEF Ready
  <2>2. \E k \in Ready(waited, h) : \A l \in Ready(waited, h) : k <= l
    BY <1>6, <2>1, MinNat
  <2>3. i \in Ready(waited, h) /\ \A l \in Ready(waited, h) : i <= l
    BY <1>8, <2>2
  <2>4. i \in DOMAIN waited /\ i <= j /\ ~ServerShouldWait(waited[i], h)
    BY <1>6, <2>3 DEF Ready
  <2> QED
    BY <1>4, <1>5, <2>4
<1>10. PICK o \in Sessions : /\ o = waited[i] /\ o # Port /\ client[o] = "open"
                             /\ pending_requesting_threads[o] # <<>> /\ h[o] = Nothing
  BY <1>2, <1>4, <1>9 DEF ServerShouldWait
<1>11. currently_handling' = [h EXCEPT ![o] = Last(pending_requesting_threads[o])]
  BY <1>7, <1>8, <1>10 DEF Receive
<1>12. Last(pending_requesting_threads[o]) \in Clients
  <2>1. pending_requesting_threads[o] \in Seq(Clients)
    BY <1>1 DEF IPCTypeOK
  <2> QED
    BY <1>10, <2>1, RangeFront
<1>13. currently_handling'[o] # h[o]
  <2>1. Nothing \notin Clients
    BY DEF IPCAssumption
  <2> HIDE DEF h
  <2> QED
    BY <1>1, <1>10, <1>11, <1>12, <2>1
<1> QED
  BY <1>13

(* Everyone starts outside.                                                                   *)
LEMMA EndsInit ==
  ASSUME IPCAssumption, IPCInit
  PROVE  EndsInv
<1>0. /\ \A s \in Sessions : client[s] = "none" /\ ~has_port[s] /\ ~server_handle[s]
      /\ pending_sessions = <<>> /\ \A t \in Threads : wait_objects[t] = <<>> /\ status[t] = "Runs"
      /\ \A o \in WaitObjects : waiting_threads[o] = <<>>
      /\ active_sessions = 0
  BY DEF IPCInit
<1>1. Range(<<>>) = {}
  BY DEF Range
<1>2. \A s \in Sessions : ~Alive(s)
  BY <1>0, <1>1 DEF Alive
<1>3. {s \in Sessions : has_port[s] /\ Alive(s)} = {} /\ Cardinality({}) = 0
  BY <1>2, FS_EmptySet
<1>4. ConnectionsCounted
  BY <1>0, <1>3 DEF ConnectionsCounted
<1>5. IPCTypeOK
  BY DEF IPCInit, IPCTypeOK, IPCAssumption, Results
<1>6. WaitListsAgree /\ NoWaitOnClosed
  BY <1>0, <1>1 DEF WaitListsAgree, NoWaitOnClosed, Threads, WaitObjects
<1>7. ClientsListNothing /\ FreshHasNoEnds
  BY <1>0, <1>2 DEF ClientsListNothing, FreshHasNoEnds, Threads
<1> QED
  BY <1>4, <1>5, <1>6, <1>7 DEF EndsInv

\* A step is quiet, sends a request, or replies and receives
StepDone ==
  \/ Quiet
  \/ \E c \in Clients, s \in Sessions : \E K, p, h : SendDone(c, s, K, p, h)
  \/ \E v \in Servers : \E target : ReplyDone(v, target) /\ TakesMore(target)

(* Each operation keeps the invariant, and is one of the three.                               *)
LEMMA EndsStep == IPCAssumption /\ EndsInv /\ [IPCNext]_ipc_vars => EndsInv' /\ EndsGoOn /\ StepDone
<1> DEFINE Goal == EndsInv' /\ EndsGoOn /\ StepDone
<1> SUFFICES ASSUME IPCAssumption, EndsInv, [IPCNext]_ipc_vars PROVE Goal
  OBVIOUS
<1>0. (EndsInv' /\ EndsGoOn /\ Quiet) => Goal
  BY DEF StepDone
<1>1. ASSUME NEW s \in Sessions, CloseClient(s) \/ CloseServer(s) PROVE Goal
  BY <1>0, <1>1, CloseClientKeeps, CloseServerKeeps
<1>2. ASSUME NEW c \in Clients, NEW s \in Sessions, Connect(c, s) PROVE Goal
  BY <1>0, <1>2, ConnectKeeps
<1>a. ASSUME NEW c \in Clients, NEW s \in Sessions, SendSyncRequest(c, s) PROVE Goal
  <2>1. EndsInv' /\ EndsGoOn /\ \E K, p, h : SendDone(c, s, K, p, h)
    BY <1>a, SendKeeps
  <2> QED
    BY <2>1 DEF StepDone
<1>3. ASSUME NEW c \in Clients, NEW s \in Sessions, SendToClosed(c, s) PROVE Goal
  BY <1>0, <1>3, FailureKeeps
<1>4. ASSUME NEW c \in Clients, ConnectFails(c) PROVE Goal
  BY <1>0, <1>4, FailureKeeps
<1>5. ASSUME NEW v \in Servers, Serve(v) PROVE Goal
  <2>1. CASE AcceptSession(v)
    BY <1>0, <2>1, AcceptKeeps
  <2>2. ASSUME NEW s \in Sessions, ReplyFails(v, s) PROVE Goal
    BY <1>0, <2>2, FailureKeeps
  <2>3. ASSUME NEW waited \in ObjectLists(v), NEW target \in ReplyTargets(v),
               ReplyAndReceive(v, waited, target)
        PROVE  Goal
    <3>1. EndsInv' /\ EndsGoOn /\ ReplyDone(v, target) /\ TakesMore(target)
      BY <2>3, ReplyKeeps, DisciplinedTakes
    <3> QED
      BY <3>1 DEF StepDone
  <2> HIDE DEF Goal
  <2> QED
    BY <1>5, <2>1, <2>2, <2>3, Zenon DEF Serve
<1>6. ASSUME NEW v \in Servers, NEW s \in Sessions, CreateSession(v, s) PROVE Goal
  BY <1>0, <1>6, CreateSessionKeeps
<1>7. ASSUME NEW t \in Threads, Stop(t) PROVE Goal
  BY <1>0, <1>7, StopKeeps
<1>8. CASE UNCHANGED ipc_vars
  <2>1. EndsInv'
    BY <1>8 DEF EndsInv, IPCTypeOK, WaitListsAgree, NoWaitOnClosed, ConnectionsCounted, ClientsListNothing,
                FreshHasNoEnds, Alive, ipc_vars, session, requests, port, waits, threads
  <2>2. EndsGoOn /\ Quiet
    BY <1>8 DEF EndsGoOn, Quiet, Alive, ipc_vars, session, requests, port, waits, threads
  <2> QED
    BY <1>0, <2>1, <2>2
<1> HIDE DEF Goal
<1>9. Goal
  BY <1>1, <1>2, <1>a, <1>3, <1>4, <1>5, <1>6, <1>7, <1>8, Zenon DEF IPCNext
<1> QED
  BY <1>9 DEF Goal

(* Wait lists, wait_objects, the ends of the sessions and the connections the port counts     *)
(* agree, whichever thread is terminated and whichever end is closed first.                   *)
THEOREM ConnectionsAlwaysCounted ==
  IPCAssumption =>
    (IPCSpec => [](IPCTypeOK /\ WaitListsAgree /\ NoWaitOnClosed /\ ConnectionsCounted))
<1> SUFFICES ASSUME IPCAssumption
             PROVE  IPCSpec => [](IPCTypeOK /\ WaitListsAgree /\ NoWaitOnClosed /\ ConnectionsCounted)
  OBVIOUS
<1>1. IPCInit => EndsInv
  BY EndsInit
<1>2. EndsInv /\ [IPCNext]_ipc_vars => EndsInv'
  BY EndsStep
<1>3. EndsInv => IPCTypeOK /\ WaitListsAgree /\ NoWaitOnClosed /\ ConnectionsCounted
  BY DEF EndsInv
<1> QED
  BY <1>1, <1>2, <1>3, PTL DEF IPCSpec

-----------------------------------------------------------------------------
(* Requests *)

Listed(c, s) == c \in Range(pending_requesting_threads[s]) \/ c = currently_handling[s]

(* A session lists a thread once, no thread is listed by two sessions, and those that are     *)
(* listed sleep, unless they were terminated: their requests stay.                            *)
RequestsApart ==
  \A s \in Sessions :
    /\ IsInjective(pending_requesting_threads[s])
    /\ currently_handling[s] \notin Range(pending_requesting_threads[s])
    /\ \A c \in Clients : Listed(c, s) =>
         /\ status[c] = "WaitIPC" \/ status[c] = "Dead"
         /\ \A r \in Sessions \ {s} : ~Listed(c, r)

(* The threads of the pending requests, and the one whose request is handled.                 *)
LEMMA RequestersFacts ==
  ASSUME IPCAssumption, IPCTypeOK, NEW s \in Sessions
  PROVE  /\ Range(Requesters(s)) = {c \in Clients : Listed(c, s)}
         /\ IsInjective(pending_requesting_threads[s])
              /\ currently_handling[s] \notin Range(pending_requesting_threads[s])
            => IsInjective(Requesters(s))
<1> DEFINE q == pending_requesting_threads[s]
           h == currently_handling[s]
<1>1. q \in Seq(Clients) /\ h \in Clients \cup {Nothing} /\ Nothing \notin Clients
  BY DEF IPCTypeOK, IPCAssumption
<1>2. Range(q) \subseteq Clients
  BY <1>1 DEF Range
<1>3. CASE h = Nothing
  <2>1. Requesters(s) = q \o <<>>
    BY <1>3 DEF Requesters
  <2> HIDE DEF q, h
  <2>2. q \o <<>> = q
    BY <1>1
  <2>3. \A c \in Clients : Listed(c, s) <=> c \in Range(q)
    BY <1>1, <1>3 DEF Listed, q, h
  <2>4. Range(Requesters(s)) = {c \in Clients : Listed(c, s)}
    BY <1>2, <2>1, <2>2, <2>3
  <2> QED
    BY <2>1, <2>2, <2>4 DEF q
<1>4. CASE h # Nothing
  <2>1. Requesters(s) = q \o <<h>>
    BY <1>4 DEF Requesters
  <2>a. \A c \in Clients : Listed(c, s) <=> c \in Range(q) \/ c = h
    BY DEF Listed
  <2> HIDE DEF q, h
  <2>2. h \in Clients /\ q \o <<h>> = Append(q, h)
    BY <1>1, <1>4
  <2>3. Range(Append(q, h)) = Range(q) \cup {h}
    BY <1>1, <2>2, RangeAppend
  <2>4. Range(Requesters(s)) = {c \in Clients : Listed(c, s)}
    BY <1>2, <2>1, <2>2, <2>3, <2>a
  <2>5. ASSUME IsInjective(q), h \notin Range(q) PROVE IsInjective(Requesters(s))
    <3>1. Lists(q, Range(q))
      BY <2>5 DEF Lists
    <3>2. Lists(Append(q, h), Range(q) \cup {h})
      BY <1>1, <2>2, <2>5, <3>1, ListsAppend
    <3> QED
      BY <2>1, <2>2, <3>2 DEF Lists
  <2> QED
    BY <2>4, <2>5 DEF q, h
<1> QED
  BY <1>3, <1>4

(* Steps that send nothing and answer nothing only drop requests.                             *)
LEMMA QuietApart ==
  ASSUME IPCAssumption, IPCTypeOK, RequestsApart, Quiet
  PROVE  RequestsApart'
<1>1. Range(<<>>) = {} /\ IsInjective(<<>>)
  BY DEF Range, IsInjective
<1>2. \A s \in Sessions :
        /\ pending_requesting_threads'[s] = pending_requesting_threads[s] \/ pending_requesting_threads'[s] = <<>>
        /\ currently_handling'[s] = currently_handling[s] \/ currently_handling'[s] = Nothing
  BY DEF Quiet
<1>3. ASSUME NEW s \in Sessions
      PROVE  /\ IsInjective(pending_requesting_threads'[s])
             /\ currently_handling'[s] \notin Range(pending_requesting_threads'[s])
  <2>1. CASE pending_requesting_threads'[s] = <<>>
    BY <1>1, <2>1
  <2>2. CASE pending_requesting_threads'[s] = pending_requesting_threads[s]
    <3>1. Nothing \notin Range(pending_requesting_threads'[s]) \/ currently_handling'[s] = currently_handling[s]
      BY <2>2 DEF IPCAssumption, IPCTypeOK, Range
    <3> QED
      BY <1>2, <2>2, <3>1 DEF RequestsApart
  <2> QED
    BY <1>2, <2>1, <2>2
<1>4. ASSUME NEW s \in Sessions, NEW c \in Clients PROVE Listed(c, s)' => Listed(c, s)
  BY <1>1, <1>2 DEF Listed, IPCAssumption
<1>5. \A c \in Clients : status'[c] = status[c] \/ status'[c] = "Dead"
  BY DEF Quiet
<1> QED
  BY <1>3, <1>4, <1>5 DEF RequestsApart

(* The thread that sends was listed nowhere, because it ran.                                  *)
LEMMA SendApart ==
  ASSUME IPCAssumption, IPCTypeOK, RequestsApart, NEW c \in Clients, NEW s \in Sessions,
         NEW K, NEW p, NEW h, SendDone(c, s, K, p, h)
  PROVE  RequestsApart'
<1>1. /\ Runs(c) /\ status'[c] = "WaitIPC" /\ K \subseteq Servers
      /\ \A t \in Threads \ K : t # c => status'[t] = status[t]
      /\ Released(p, h) /\ Sent(c, s, K, p, h)
  BY DEF SendDone
<1>2. Range(<<>>) = {} /\ IsInjective(<<>>)
  BY DEF Range, IsInjective
<1>3. \A r \in Sessions : ~Listed(c, r)
  BY <1>1 DEF RequestsApart, Runs
<1>4. ASSUME NEW r \in Sessions
      PROVE  /\ IsInjective(p[r]) /\ h[r] \notin Range(p[r])
             /\ \A d \in Clients : (d \in Range(p[r]) \/ d = h[r]) => Listed(d, r) \/ (d = c /\ r = s)
  <2> DEFINE q == pending_requesting_threads[r]
  <2>1. /\ IsInjective(q) /\ currently_handling[r] \notin Range(q)
        /\ q \in Seq(Clients) /\ currently_handling[r] \in Clients \cup {Nothing}
    BY DEF RequestsApart, IPCTypeOK
  <2>2. c \notin Range(q) /\ c # currently_handling[r]
    BY <1>3 DEF Listed
  <2>3. CASE p[r] = q /\ h[r] = currently_handling[r]
    BY <2>1, <2>3 DEF Listed
  <2>4. CASE r = s /\ p[r] = q /\ h[r] = c
    BY <2>1, <2>2, <2>4 DEF Listed
  <2>5. CASE r = s /\ p[r] = Append(q, c) /\ h[r] = currently_handling[r]
    <3>1. Listed(c, s) \/ Lists(Append(q, c), Range(q) \cup {c})
      <4>1. Lists(q, Range(q))
        BY <2>1 DEF Lists
      <4> HIDE DEF q
      <4> QED
        BY <2>1, <2>2, <4>1, ListsAppend
    <3>2. IsInjective(Append(q, c)) /\ Range(Append(q, c)) = Range(q) \cup {c}
      BY <1>3, <3>1 DEF Lists
    <3> QED
      BY <2>1, <2>2, <2>5, <3>2 DEF Listed
  <2>6. \/ p[r] = q /\ h[r] = currently_handling[r]
        \/ r = s /\ p[r] = q /\ h[r] = c
        \/ r = s /\ p[r] = Append(q, c) /\ h[r] = currently_handling[r]
    BY <1>1 DEF Sent, IPCTypeOK
  <2> QED
    BY <2>3, <2>4, <2>5, <2>6
<1>5. ASSUME NEW r \in Sessions
      PROVE  /\ IsInjective(pending_requesting_threads'[r])
             /\ currently_handling'[r] \notin Range(pending_requesting_threads'[r])
             /\ \A d \in Clients : Listed(d, r)' => Listed(d, r) \/ (d = c /\ r = s)
  <2>1. CASE pending_requesting_threads'[r] = <<>> /\ currently_handling'[r] = Nothing
    BY <1>2, <2>1 DEF Listed, IPCAssumption
  <2>2. CASE pending_requesting_threads'[r] = p[r] /\ currently_handling'[r] = h[r]
    BY <1>4, <2>2 DEF Listed
  <2> QED
    BY <1>1, <2>1, <2>2 DEF Released
<1>6. \A d \in Clients : d # c => status'[d] = status[d]
  BY <1>1 DEF Threads, IPCAssumption
<1>7. ASSUME NEW r \in Sessions, NEW d \in Clients, Listed(d, r)'
      PROVE  /\ status'[d] = "WaitIPC" \/ status'[d] = "Dead"
             /\ \A x \in Sessions \ {r} : ~Listed(d, x)'
  <2>1. CASE d = c
    BY <1>1, <1>3, <1>5, <1>7, <2>1
  <2>2. CASE d # c
    <3>1. Listed(d, r)
      BY <1>5, <1>7, <2>2
    <3> QED
      BY <1>5, <1>6, <2>2, <3>1 DEF RequestsApart
  <2> QED
    BY <2>1, <2>2
<1> QED
  BY <1>5, <1>7 DEF RequestsApart

(* The thread that is answered leaves its session, and a request that is received changes     *)
(* from the list to the thread in its session.                                                *)
LEMMA ReplyApart ==
  ASSUME IPCAssumption, IPCTypeOK, RequestsApart, NEW v \in Servers, NEW target, ReplyDone(v, target)
  PROVE  RequestsApart'
<1> DEFINE h == Replied(target)
<1>1. /\ target \in Sessions \cup {Nothing}
      /\ target # Nothing => currently_handling[target] # Nothing
      /\ Moved(h) /\ \A c \in Clients : status'[c] = Answered(target)[c]
  BY DEF ReplyDone
<1>2. \A c \in Clients : status'[c] = status[c] \/ (target # Nothing /\ c = currently_handling[target])
  BY <1>1, AnsweredFacts DEF ReplyDone, Threads
<1>3. \A s \in Sessions : h[s] = IF s = target THEN Nothing ELSE currently_handling[s]
  BY DEF Replied
<1>4. h \in [Sessions -> Clients \cup {Nothing}] /\ pending_requesting_threads \in [Sessions -> Seq(Clients)]
  BY <1>3 DEF IPCTypeOK, Replied
<1> HIDE DEF h
<1>5. ASSUME NEW s \in Sessions
      PROVE  /\ IsInjective(pending_requesting_threads'[s])
             /\ currently_handling'[s] \notin Range(pending_requesting_threads'[s])
             /\ \A c \in Clients : Listed(c, s)' => c \in Range(pending_requesting_threads[s]) \/ c = h[s]
  <2> DEFINE q == pending_requesting_threads[s]
  <2>1. IsInjective(q) /\ q \in Seq(Clients) /\ h[s] \notin Range(q)
    <3>1. IsInjective(q) /\ currently_handling[s] \notin Range(q)
      BY DEF RequestsApart
    <3>2. q \in Seq(Clients)
      BY <1>4
    <3>3. Nothing \notin Range(q)
      BY <3>2 DEF Range, IPCAssumption
    <3> QED
      BY <1>3, <3>1, <3>2, <3>3
  <2>2. CASE currently_handling'[s] = h[s] /\ pending_requesting_threads'[s] = q
    BY <2>1, <2>2 DEF Listed
  <2>3. CASE q # <<>> /\ currently_handling'[s] = Last(q) /\ pending_requesting_threads'[s] = Front(q)
    <3> HIDE DEF q
    <3>1. IsInjective(Front(q)) /\ Last(q) \notin Range(Front(q))
      BY <2>1, <2>3, FrontInjective
    <3>2. Range(q) = Range(Front(q)) \cup {Last(q)}
      BY <2>1, <2>3, RangeFront
    <3> QED
      BY <2>3, <3>1, <3>2 DEF Listed, q
  <2>4. \/ currently_handling'[s] = h[s] /\ pending_requesting_threads'[s] = q
        \/ q # <<>> /\ currently_handling'[s] = Last(q) /\ pending_requesting_threads'[s] = Front(q)
    BY <1>1, <1>4 DEF Moved
  <2> QED
    BY <2>2, <2>3, <2>4
<1>6. ASSUME NEW s \in Sessions, NEW c \in Clients, Listed(c, s)'
      PROVE  Listed(c, s) /\ status'[c] = status[c]
  <2>1. c \in Range(pending_requesting_threads[s]) \/ (c = currently_handling[s] /\ s # target)
    BY <1>3, <1>5, <1>6 DEF IPCAssumption
  <2>2. Listed(c, s)
    BY <2>1 DEF Listed
  <2>3. ASSUME target # Nothing, c = currently_handling[target] PROVE FALSE
    <3>1. target \in Sessions /\ Listed(c, target)
      BY <1>1, <2>3 DEF Listed
    <3>2. s = target
      BY <2>2, <3>1 DEF RequestsApart
    <3>3. c \in Range(pending_requesting_threads[target])
      BY <2>1, <3>2
    <3> QED
      BY <2>3, <3>1, <3>3 DEF RequestsApart
  <2> QED
    BY <1>2, <2>2, <2>3
<1> QED
  BY <1>5, <1>6 DEF RequestsApart

(* At the start no session has a request.                                                     *)
LEMMA ApartInit ==
  ASSUME IPCAssumption, IPCInit
  PROVE  RequestsApart
<1>1. \A s \in Sessions : pending_requesting_threads[s] = <<>> /\ currently_handling[s] = Nothing
  BY DEF IPCInit
<1>2. Range(<<>>) = {} /\ IsInjective(<<>>)
  BY DEF Range, IsInjective
<1> QED
  BY <1>1, <1>2 DEF RequestsApart, Listed, IPCAssumption

(* Requests stay apart.                                                                       *)
LEMMA ApartStep ==
  ASSUME IPCAssumption, EndsInv, RequestsApart, StepDone
  PROVE  RequestsApart'
<1>1. IPCTypeOK
  BY DEF EndsInv
<1> QED
  BY <1>1, QuietApart, SendApart, ReplyApart, Zenon DEF StepDone

(* Where no client was terminated, those who are listed sleep.                                *)
LEMMA ApartMeans ==
  ASSUME IPCAssumption, IPCTypeOK, RequestsApart
  PROVE  (\A c \in Clients : status[c] # "Dead") => RequestersWait
<1> SUFFICES ASSUME \A c \in Clients : status[c] # "Dead", NEW s \in Sessions
             PROVE  /\ IsInjective(Requesters(s))
                    /\ \A c \in Range(Requesters(s)) :
                         /\ status[c] = "WaitIPC"
                         /\ \A r \in Sessions \ {s} : c \notin Range(Requesters(r))
  BY DEF RequestersWait
<1>1. \A r \in Sessions : Range(Requesters(r)) = {c \in Clients : Listed(c, r)}
  BY RequestersFacts
<1>2. IsInjective(Requesters(s))
  BY RequestersFacts DEF RequestsApart
<1> QED
  BY <1>1, <1>2 DEF RequestsApart

(* A session lists a thread once, and no thread is listed by two sessions; what is listed     *)
(* sleeps until its reply, as long as no client was terminated: a reply never resumes a       *)
(* thread that runs (Thread::Stop leaves the requests of a thread in their session).          *)
THEOREM RepliesFindSleepers ==
  IPCAssumption =>
    (IPCSpec => [](RequestsApart /\ ((\A c \in Clients : status[c] # "Dead") => RequestersWait)))
<1> SUFFICES ASSUME IPCAssumption
             PROVE  IPCSpec =>
                    [](RequestsApart /\ ((\A c \in Clients : status[c] # "Dead") => RequestersWait))
  OBVIOUS
<1> DEFINE Inv == EndsInv /\ RequestsApart
<1>1. IPCInit => Inv
  BY EndsInit, ApartInit
<1>2. Inv /\ [IPCNext]_ipc_vars => Inv'
  BY EndsStep, ApartStep
<1>3. Inv => RequestsApart /\ ((\A c \in Clients : status[c] # "Dead") => RequestersWait)
  <2> SUFFICES ASSUME Inv
               PROVE  RequestsApart /\ ((\A c \in Clients : status[c] # "Dead") => RequestersWait)
    OBVIOUS
  <2>1. IPCTypeOK /\ RequestsApart
    BY DEF EndsInv
  <2> QED
    BY <2>1, ApartMeans
<1> QED
  BY <1>1, <1>2, <1>3, PTL DEF IPCSpec

-----------------------------------------------------------------------------
(* Threads that nothing would wake *)

\* No end of a session was closed or lost
EndsOpen == \A s \in Sessions : client[s] # "closed" /\ (client[s] = "open" => Alive(s))

\* Then every sleeping client is listed
SleepersListed ==
  EndsOpen => \A c \in Clients : status[c] = "WaitIPC" => \E s \in Sessions : Listed(c, s)

(* Ends do not come back, so they were open before.                                           *)
LEMMA EndsWereOpen ==
  ASSUME EndsInv, EndsInv', EndsGoOn, EndsOpen'
  PROVE  /\ EndsOpen
         /\ \A s \in Sessions : client'[s] # "closed" /\ ~(Alive(s) /\ ~Alive(s)')
<1>1. ASSUME NEW s \in Sessions
      PROVE  /\ client[s] # "closed" /\ client'[s] # "closed" /\ (client[s] = "open" => Alive(s))
             /\ ~(Alive(s) /\ ~Alive(s)')
  <2>1. client'[s] # "closed" /\ (client'[s] = "open" => Alive(s)')
    BY DEF EndsOpen
  <2>2. client[s] \in {"none", "open", "closed"}
    BY DEF EndsInv, IPCTypeOK
  <2>3. /\ client[s] # "none" => client'[s] # "none" /\ (Alive(s)' => Alive(s))
        /\ client[s] = "closed" => client'[s] = "closed"
    BY DEF EndsGoOn
  <2>4. client[s] = "none" => ~Alive(s)
    BY DEF EndsInv, FreshHasNoEnds
  <2>5. client'[s] # "none" /\ client'[s] # "closed" => client'[s] = "open"
    BY DEF EndsInv, IPCTypeOK
  <2> QED
    BY <2>1, <2>2, <2>3, <2>4, <2>5
<1> QED
  BY <1>1 DEF EndsOpen

(* A client that sleeps stays listed until it is answered.                                    *)
LEMMA ListedStep ==
  ASSUME IPCAssumption, EndsInv, SleepersListed, EndsInv', EndsGoOn, StepDone
  PROVE  SleepersListed'
<1> SUFFICES ASSUME EndsOpen', NEW c \in Clients, status'[c] = "WaitIPC"
             PROVE  \E s \in Sessions : Listed(c, s)'
  BY DEF SleepersListed
<1>1. /\ EndsOpen
      /\ \A s \in Sessions : client'[s] # "closed" /\ ~(Alive(s) /\ ~Alive(s)')
  BY EndsWereOpen
<1>2. status[c] = "WaitIPC" => \E s \in Sessions : Listed(c, s)
  BY <1>1 DEF SleepersListed
<1>3. IPCTypeOK
  BY DEF EndsInv
<1>4. CASE Quiet
  <2>1. status[c] = "WaitIPC"
    BY <1>4 DEF Quiet
  <2>2. \A s \in Sessions : /\ pending_requesting_threads'[s] = pending_requesting_threads[s]
                            /\ currently_handling'[s] = currently_handling[s]
    BY <1>1, <1>4 DEF Quiet
  <2> QED
    BY <1>2, <2>1, <2>2 DEF Listed
<1>5. ASSUME NEW d \in Clients, NEW s \in Sessions, NEW K, NEW p, NEW h, SendDone(d, s, K, p, h)
      PROVE  \E r \in Sessions : Listed(c, r)'
  <2>1. /\ K \subseteq Servers /\ \A t \in Threads \ K : t # d => status'[t] = status[t]
        /\ Released(p, h) /\ Sent(d, s, K, p, h)
    BY <1>5 DEF SendDone
  <2>2. \A r \in Sessions : pending_requesting_threads'[r] = p[r] /\ currently_handling'[r] = h[r]
    BY <1>1, <2>1 DEF Released
  <2>3. pending_requesting_threads[s] \in Seq(Clients) /\ pending_requesting_threads \in [Sessions -> Seq(Clients)]
        /\ currently_handling \in [Sessions -> Clients \cup {Nothing}]
    BY <1>3 DEF IPCTypeOK
  <2>4. Range(Append(pending_requesting_threads[s], d)) = Range(pending_requesting_threads[s]) \cup {d}
    BY <2>3, RangeAppend
  <2>5. CASE c = d
    <3>1. h[s] = d \/ p[s] = Append(pending_requesting_threads[s], d)
      BY <2>1, <2>3 DEF Sent
    <3>2. Listed(c, s)'
      BY <2>2, <2>4, <2>5, <3>1 DEF Listed
    <3> QED
      BY <3>2
  <2>6. CASE c # d
    <3>1. status[c] = "WaitIPC"
      BY <2>1, <2>6 DEF Threads, IPCAssumption
    <3>2. PICK r \in Sessions : Listed(c, r)
      BY <1>2, <3>1
    <3>3. c \in Range(p[r]) \/ c = h[r]
      <4>1. CASE c \in Range(pending_requesting_threads[r])
        BY <2>1, <2>3, <2>4, <4>1 DEF Sent
      <4>2. CASE c = currently_handling[r]
        BY <2>1, <2>3, <4>2 DEF Sent, IPCAssumption
      <4> QED
        BY <3>2, <4>1, <4>2 DEF Listed
    <3>4. Listed(c, r)'
      BY <2>2, <3>3 DEF Listed
    <3> QED
      BY <3>4
  <2> QED
    BY <2>5, <2>6
<1>6. ASSUME NEW v \in Servers, NEW target, ReplyDone(v, target)
      PROVE  \E r \in Sessions : Listed(c, r)'
  <2> DEFINE h == Replied(target)
  <2>1. /\ target \in Sessions \cup {Nothing}
        /\ target # Nothing => currently_handling[target] # Nothing
        /\ Moved(h) /\ status'[c] = Answered(target)[c] /\ c \in Threads
    BY <1>6 DEF ReplyDone, Threads
  <2>2. status[c] = "WaitIPC" /\ (target # Nothing => c # currently_handling[target])
    BY <1>3, <2>1, AnsweredFacts
  <2>3. PICK r \in Sessions : Listed(c, r)
    BY <1>2, <2>2
  <2>4. c \in Range(pending_requesting_threads[r]) \/ c = h[r]
    BY <2>2, <2>3 DEF Listed, Replied, IPCAssumption
  <2>5. /\ h \in [Sessions -> Clients \cup {Nothing}] /\ pending_requesting_threads \in [Sessions -> Seq(Clients)]
        /\ pending_requesting_threads[r] \in Seq(Clients) /\ c # Nothing
    BY <1>3 DEF IPCTypeOK, Replied, IPCAssumption
  <2> HIDE DEF h
  <2>6. CASE currently_handling'[r] = h[r] /\ pending_requesting_threads'[r] = pending_requesting_threads[r]
    BY <2>4, <2>6 DEF Listed
  <2>7. CASE /\ pending_requesting_threads[r] # <<>> /\ h[r] = Nothing
             /\ currently_handling'[r] = Last(pending_requesting_threads[r])
             /\ pending_requesting_threads'[r] = Front(pending_requesting_threads[r])
    <3>1. Range(pending_requesting_threads[r])
            = Range(Front(pending_requesting_threads[r])) \cup {Last(pending_requesting_threads[r])}
      BY <2>5, <2>7, RangeFront
    <3> QED
      BY <2>4, <2>5, <2>7, <3>1 DEF Listed
  <2> QED
    BY <2>1, <2>5, <2>6, <2>7 DEF Moved
<1> QED
  BY <1>4, <1>5, <1>6 DEF StepDone

(* A client that sleeps in its request is listed, so that a reply can wake it, unless an end  *)
(* of a session was closed or lost: neither destructor wakes those whose requests it drops.   *)
THEOREM SleepersAlwaysListed == IPCAssumption => (IPCSpec => [](EndsOpen => NoOrphans))
<1> SUFFICES ASSUME IPCAssumption PROVE IPCSpec => [](EndsOpen => NoOrphans)
  OBVIOUS
<1> DEFINE Inv == EndsInv /\ SleepersListed
<1>1. IPCInit => Inv
  <2>1. IPCInit => SleepersListed
    BY DEF IPCInit, SleepersListed, Threads
  <2> QED
    BY <2>1, EndsInit
<1>2. Inv /\ [IPCNext]_ipc_vars => Inv'
  BY EndsStep, ListedStep
<1>3. Inv => (EndsOpen => NoOrphans)
  <2> SUFFICES ASSUME Inv, EndsOpen PROVE NoOrphans
    OBVIOUS
  <2>1. \A s \in Sessions : Range(Requesters(s)) = {c \in Clients : Listed(c, s)}
    BY RequestersFacts DEF EndsInv
  <2> QED
    BY <2>1 DEF SleepersListed, NoOrphans
<1> QED
  BY <1>1, <1>2, <1>3, PTL DEF IPCSpec

-----------------------------------------------------------------------------
(* Wakeups of servers *)

(* Only a reply may lose a wakeup: whoever else makes something ready takes the threads that  *)
(* wait for it out of the wait list, or finds a server for the request.                       *)
LEMMA LostByReply ==
  ASSUME IPCAssumption, EndsInv, EndsInv', EndsGoOn, NoLostRequest,
         Quiet \/ \E c \in Clients, s \in Sessions : \E K, p, h : SendDone(c, s, K, p, h)
  PROVE  NoLostRequest'
<1> SUFFICES ASSUME NEW o \in WaitObjects, ~ServerShouldWait(o, currently_handling)'
             PROVE  waiting_threads'[o] = <<>>
  BY DEF NoLostRequest
<1>1. /\ IPCTypeOK /\ waiting_threads[o] \in Seq(Servers) /\ waiting_threads'[o] \in Seq(Servers)
      /\ Range(<<>>) = {} /\ Port \in WaitObjects /\ Port \notin Sessions
  BY DEF EndsInv, IPCTypeOK, Range, WaitObjects, IPCAssumption
<1>2. ~ServerShouldWait(o, currently_handling) => waiting_threads[o] = <<>>
  BY DEF NoLostRequest
<1>3. o # Port => /\ o \in Sessions
                  /\ client'[o] # "open"
                     \/ (pending_requesting_threads'[o] # <<>> /\ currently_handling'[o] = Nothing)
  BY DEF ServerShouldWait, WaitObjects
<1>4. CASE o \in Sessions /\ client'[o] = "closed"
  BY <1>4 DEF EndsInv, NoWaitOnClosed
<1>5. ASSUME o \in Sessions, client'[o] # "open", client'[o] # "closed"
      PROVE  ~ServerShouldWait(o, currently_handling)
  BY <1>1, <1>5 DEF EndsInv, IPCTypeOK, EndsGoOn, ServerShouldWait
<1>6. ASSUME Range(waiting_threads'[o]) \subseteq Range(waiting_threads[o]),
             ~ServerShouldWait(o, currently_handling)
      PROVE  waiting_threads'[o] = <<>>
  <2>1. Range(waiting_threads'[o]) = {}
    BY <1>1, <1>2, <1>6
  <2> QED
    BY <1>1, <2>1, RangeEmpty
<1>7. CASE Quiet
  <2>1. Range(waiting_threads'[o]) \subseteq Range(waiting_threads[o])
    BY <1>7 DEF Quiet
  <2>2. CASE o = Port
    <3>1. pending_sessions' # <<>>
      BY <2>2 DEF ServerShouldWait
    <3>2. waiting_threads'[o] = <<>> \/ ~ServerShouldWait(o, currently_handling)
      BY <1>7, <2>2, <3>1 DEF Quiet, ServerShouldWait
    <3> QED
      BY <1>6, <2>1, <3>2
  <2>3. CASE o # Port /\ client'[o] = "open"
    <3>1. pending_requesting_threads'[o] # <<>> /\ currently_handling'[o] = Nothing /\ o \in Sessions
      BY <1>3, <2>3
    <3>2. /\ pending_requesting_threads'[o] = pending_requesting_threads[o]
          /\ currently_handling'[o] = currently_handling[o]
      BY <1>7, <2>3, <3>1 DEF Quiet
    <3>3. ~ServerShouldWait(o, currently_handling)
      BY <2>3, <3>1, <3>2 DEF ServerShouldWait
    <3> QED
      BY <1>6, <2>1, <3>3
  <2> QED
    BY <1>3, <1>4, <1>5, <1>6, <2>1, <2>2, <2>3
<1>8. ASSUME NEW c \in Clients, NEW s \in Sessions, NEW K, NEW p, NEW h, SendDone(c, s, K, p, h)
      PROVE  waiting_threads'[o] = <<>>
  <2>1. /\ K \subseteq Servers /\ CutOff(K) /\ Released(p, h) /\ Sent(c, s, K, p, h)
        /\ UNCHANGED <<pending_sessions, client>>
    BY <1>8 DEF SendDone
  <2>2. Range(waiting_threads'[o]) = Range(waiting_threads[o]) \ K
    BY <2>1 DEF CutOff
  <2>3. CASE o = s
    <3>1. \/ K = {} /\ waiting_threads[s] = <<>>
          \/ currently_handling'[s] # Nothing \/ pending_requesting_threads'[s] = <<>>
      BY <1>1, <2>1 DEF Released, Sent, IPCTypeOK, IPCAssumption
    <3>2. CASE waiting_threads[s] = <<>>
      BY <1>1, <2>2, <2>3, <3>2, RangeEmpty
    <3>3. CASE currently_handling'[s] # Nothing \/ pending_requesting_threads'[s] = <<>>
      <4>1. client'[s] # "open" /\ o \in Sessions /\ s # Port
        BY <1>1, <1>3, <2>3, <3>3
      <4> QED
        BY <1>4, <1>5, <1>6, <2>2, <2>3, <4>1
    <3> QED
      BY <3>1, <3>2, <3>3
  <2>4. CASE o # s
    <3>1. CASE o = Port
      <4>1. ~ServerShouldWait(o, currently_handling)
        BY <2>1, <3>1 DEF ServerShouldWait
      <4> QED
        BY <1>6, <2>2, <4>1
    <3>2. CASE o # Port
      <4>1. o \in Sessions /\ p[o] = pending_requesting_threads[o] /\ h[o] = currently_handling[o]
        BY <1>1, <1>3, <2>1, <2>4, <3>2 DEF IPCTypeOK, Sent
      <4>2. \/ pending_requesting_threads'[o] = <<>>
            \/ /\ pending_requesting_threads'[o] = pending_requesting_threads[o]
               /\ currently_handling'[o] = currently_handling[o]
        BY <2>1, <4>1 DEF Released
      <4>3. ~ServerShouldWait(o, currently_handling)
        BY <1>3, <2>1, <3>2, <4>2 DEF ServerShouldWait
      <4> QED
        BY <1>6, <2>2, <4>3
    <3> QED
      BY <3>1, <3>2
  <2> QED
    BY <2>3, <2>4
<1> QED
  BY <1>7, <1>8

(* With one server thread no wakeup is lost by a reply: it goes to sleep only when nothing is *)
(* ready, and nobody else waits.                                                              *)
LEMMA LostStep ==
  ASSUME IPCAssumption, EndsInv, EndsInv', EndsGoOn, StepDone, NoLostRequest,
         NEW server, Servers = {server}
  PROVE  NoLostRequest'
<1>1. ASSUME NEW v \in Servers, NEW target, ReplyDone(v, target) PROVE NoLostRequest'
  <2> SUFFICES ASSUME NEW o \in WaitObjects, ~ServerShouldWait(o, currently_handling)'
               PROVE  waiting_threads'[o] = <<>>
    BY DEF NoLostRequest
  <2>1. waiting_threads'[o] = waiting_threads[o] /\ v \notin Range(waiting_threads[o])
    BY <1>1 DEF ReplyDone
  <2>2. waiting_threads[o] \in Seq(Servers)
    BY DEF EndsInv, IPCTypeOK
  <2>3. Range(waiting_threads[o]) \subseteq {server} /\ v = server
    BY <2>2 DEF Range
  <2>4. Range(waiting_threads[o]) = {}
    BY <2>1, <2>3
  <2> QED
    BY <2>1, <2>2, <2>4, RangeEmpty
<1> QED
  BY <1>1, LostByReply DEF StepDone

(* A server process with one thread never sleeps on a session that has a request nobody       *)
(* handles, nor on a port with connections to accept, in whatever order it waits, replies and *)
(* accepts (HandleSyncRequest, ConnectToPort: "wake up any threads that may be waiting").     *)
THEOREM NoRequestLostByOneServer ==
  IPCAssumption /\ (\E server : Servers = {server}) => (IPCSpec => []NoLostRequest)
<1> SUFFICES ASSUME IPCAssumption, \E server : Servers = {server}
             PROVE  IPCSpec => []NoLostRequest
  OBVIOUS
<1> DEFINE Inv == EndsInv /\ NoLostRequest
<1>1. IPCInit => Inv
  <2>1. IPCInit => NoLostRequest
    BY DEF IPCInit, NoLostRequest
  <2> QED
    BY <2>1, EndsInit
<1>2. Inv /\ [IPCNext]_ipc_vars => Inv'
  BY EndsStep, LostStep
<1> QED
  BY <1>1, <1>2, PTL DEF IPCSpec

-----------------------------------------------------------------------------
(* Several servers that do what they should *)

\* No client end was closed
NoneClosed == \A s \in Sessions : client[s] # "closed"

TwoClientsAtMost == \A a, b, c \in Clients : a = b \/ b = c \/ a = c

(* A third client is needed for a disciplined server to leave a session on which it replied   *)
(* with a request that nobody handles: one client was answered, one is in that session, and   *)
(* the request that the server took instead is of another one.                                *)
LEMMA DisciplinedReply ==
  ASSUME IPCAssumption, EndsInv, RequestsApart, NoLostRequest, NoneClosed, Disciplined, TwoClientsAtMost,
         NEW v \in Servers, NEW target, ReplyDone(v, target), TakesMore(target)
  PROVE  NoLostRequest'
<1> DEFINE h == Replied(target)
           pending == pending_requesting_threads
<1> SUFFICES ASSUME NEW o \in WaitObjects, ~ServerShouldWait(o, currently_handling)'
             PROVE  waiting_threads'[o] = <<>>
  BY DEF NoLostRequest
<1>1. /\ waiting_threads'[o] = waiting_threads[o] /\ client' = client /\ pending_sessions' = pending_sessions
      /\ target \in Sessions \cup {Nothing} /\ target # Nothing => currently_handling[target] # Nothing
      /\ Moved(h)
  BY DEF ReplyDone, session, port
<1>2. /\ pending \in [Sessions -> Seq(Clients)] /\ currently_handling \in [Sessions -> Clients \cup {Nothing}]
      /\ h \in [Sessions -> Clients \cup {Nothing}] /\ Nothing \notin Clients \cup Sessions
  BY DEF EndsInv, IPCTypeOK, Replied, IPCAssumption
<1>3. ~ServerShouldWait(o, currently_handling) => waiting_threads'[o] = <<>>
  BY <1>1 DEF NoLostRequest
<1>4. CASE o = Port \/ client[o] # "open"
  BY <1>1, <1>3, <1>4 DEF ServerShouldWait
<1>5. CASE o # Port /\ client[o] = "open"
  <2>1. o \in Sessions /\ pending'[o] # <<>> /\ currently_handling'[o] = Nothing
    BY <1>1, <1>5 DEF ServerShouldWait, WaitObjects
  <2>2. ASSUME NEW s \in Sessions, pending[s] # <<>>
        PROVE  Last(pending[s]) \in Clients /\ Listed(Last(pending[s]), s)
    <3>1. pending[s] \in Seq(Clients)
      BY <1>2
    <3> QED
      BY <2>2, <3>1, RangeFront DEF Listed
  <2>3. /\ pending'[o] = pending[o] /\ h[o] = Nothing
        /\ \A s \in Sessions : currently_handling' = [h EXCEPT ![s] = Last(pending[s])] /\ pending[s] # <<>> => s # o
    <3> HIDE DEF h
    <3>1. \A s \in Sessions : currently_handling' = [h EXCEPT ![s] = Last(pending[s])] /\ pending[s] # <<>> => s # o
      BY <1>2, <2>1, <2>2
    <3> QED
      BY <1>1, <1>2, <2>1, <3>1 DEF Moved
  <2>4. CASE o # target
    BY <1>3, <1>5, <2>1, <2>3, <2>4 DEF ServerShouldWait, Replied
  <2>5. CASE o = target
    <3>1. currently_handling' # h
      BY <1>2, <2>1, <2>3, <2>5 DEF TakesMore, NoneClosed
    <3>2. PICK s \in Sessions : pending[s] # <<>> /\ currently_handling' = [h EXCEPT ![s] = Last(pending[s])]
      BY <1>1, <3>1 DEF Moved
    <3>3. s # o
      BY <2>3, <3>2
    <3>4. PICK a : a = currently_handling[o] /\ a \in Clients /\ Listed(a, o) /\ a \notin Range(pending[o])
      BY <1>1, <1>2, <2>1, <2>5 DEF Listed, RequestsApart
    <3>5. PICK b : b \in Clients /\ Listed(b, o) /\ b \in Range(pending[o])
      <4>1. pending[o] \in Seq(Clients) /\ pending[o] # <<>>
        BY <1>2, <2>1, <2>3
      <4> QED
        BY <2>1, <2>2, <4>1, RangeFront
    <3>6. PICK c : c \in Clients /\ Listed(c, s)
      BY <2>2, <3>2
    <3>7. a # b /\ b # c /\ a # c
      BY <2>1, <3>3, <3>4, <3>5, <3>6 DEF RequestsApart
    <3> QED
      BY <3>4, <3>5, <3>6, <3>7 DEF TwoClientsAtMost
  <2> QED
    BY <2>4, <2>5
<1> QED
  BY <1>4, <1>5

(* When each server thread waits on all that the process has and answers what it received, no *)
(* server sleeps on a request that nobody handles, with two clients at most, as long as no    *)
(* client end is closed: for any number of servers and sessions, whichever thread is          *)
(* terminated, although ReplyAndReceive wakes nobody when it has replied.                     *)
THEOREM NoRequestLostByDisciplined ==
  IPCAssumption /\ Disciplined /\ TwoClientsAtMost => (IPCSpec => [](NoneClosed => NoLostRequest))
<1> SUFFICES ASSUME IPCAssumption, Disciplined, TwoClientsAtMost
             PROVE  IPCSpec => [](NoneClosed => NoLostRequest)
  OBVIOUS
<1> DEFINE Inv == EndsInv /\ RequestsApart /\ (NoneClosed => NoLostRequest)
<1>1. IPCInit => Inv
  <2>1. IPCInit => NoLostRequest
    BY DEF IPCInit, NoLostRequest
  <2> QED
    BY <2>1, EndsInit, ApartInit
<1>2. Inv /\ [IPCNext]_ipc_vars => Inv'
  <2> SUFFICES ASSUME Inv, [IPCNext]_ipc_vars PROVE Inv'
    OBVIOUS
  <2>1. EndsInv' /\ EndsGoOn /\ StepDone
    BY EndsStep
  <2>2. RequestsApart'
    BY <2>1, ApartStep
  <2>3. ASSUME NoneClosed' PROVE NoLostRequest'
    <3>1. NoneClosed /\ NoLostRequest
      BY <2>1, <2>3 DEF EndsGoOn, NoneClosed
    <3> QED
      BY <2>1, <3>1, LostByReply, DisciplinedReply, Zenon DEF StepDone
  <2> QED
    BY <2>1, <2>2, <2>3
<1> QED
  BY <1>1, <1>2, PTL DEF IPCSpec
=============================================================================
