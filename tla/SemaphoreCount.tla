--------------------------- MODULE SemaphoreCount ---------------------------
(***************************************************************************)
(* The counts of one semaphore (semaphore.cpp) as signed integers of a     *)
(* fixed width, released by any count a guest passes.  KernelSync models   *)
(* the order in which waiting threads are served; here any of them may be. *)
(***************************************************************************)
EXTENDS Integers, FiniteSetsExt

CONSTANTS
  Half,            \* half the integers of the width: 2^31 in the program
  Callers,
  InitialCounts, MaxCounts, ReleaseCounts   \* the arguments guests pass

Least == -Half
Greatest == Half - 1
s32 == Least .. Greatest

ASSUME CountAssumption ==
  Half \in Nat \ {0} /\ InitialCounts \cup MaxCounts \cup ReleaseCounts \subseteq s32

\* What an integer of the width holds after the addition
Wrapped(n) == ((n + Half) % (2 * Half)) - Half

VARIABLES
  max_count, available_count, waiting,
  well_used        \* history: no count was negative so far, and no sum overflowed

count_vars == <<max_count, available_count, waiting, well_used>>

\* CreateSemaphore refuses a larger initial count
CountInit ==
  /\ max_count \in MaxCounts
  /\ available_count \in InitialCounts /\ available_count <= max_count
  /\ waiting = {}
  /\ well_used = (available_count >= 0)

ShouldWait == available_count <= 0

Acquire(t) ==
  /\ t \notin waiting /\ ~ShouldWait
  /\ available_count' = available_count - 1
  /\ UNCHANGED <<max_count, waiting, well_used>>

Wait(t) ==
  /\ t \notin waiting /\ ShouldWait
  /\ waiting' = waiting \cup {t}
  /\ UNCHANGED <<max_count, available_count, well_used>>

\* The sum overflows: the check may see it wrapped, or as it is
Sums(n) == {Wrapped(n + available_count), n + available_count}

\* Faulty: the sum may exceed the maximum by one
MayReleaseOffByOne(n) == \E sum \in Sums(n) : max_count + 1 >= sum

MayRelease(n) == \E sum \in Sums(n) : max_count >= sum

\* WakeupAllWaitingThreads: each thread that is woken acquires a slot
Release(n) ==
  LET count == Wrapped(available_count + n) IN
  /\ MayRelease(n)
  /\ \E woken \in kSubset(Min({Cardinality(waiting), Max({count, 0})}), waiting) :
       /\ waiting' = waiting \ woken
       /\ available_count' = count - Cardinality(woken)
  /\ well_used' = (well_used /\ n >= 0 /\ available_count + n <= Greatest)
  /\ UNCHANGED max_count

CountNext ==
  \/ \E t \in Callers : Acquire(t) \/ Wait(t)
  \/ \E n \in ReleaseCounts : Release(n)

CountSpec == CountInit /\ [][CountNext]_count_vars

CountTypeOK ==
  /\ max_count \in s32 /\ available_count \in s32 /\ waiting \subseteq Callers
  /\ well_used \in BOOLEAN

(* "Number of free slots left in the semaphore", of "Maximum number of simultaneous holders". *)
CountInRange == available_count \in 0 .. max_count

(* No thread waits while a slot is free, whatever counts are released.                        *)
NoneWaitsForFree == waiting # {} => available_count <= 0

(* Semaphore::Release in s32: no thread waits while a slot is free, whatever counts are       *)
(* released, and the count stays in its range as long as no count is negative or overflows.   *)
SemaphoreSound == NoneWaitsForFree /\ (well_used => CountInRange)
=============================================================================
