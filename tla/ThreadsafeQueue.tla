-------------------------- MODULE ThreadsafeQueue --------------------------
(***************************************************************************)
(* The unbounded queue with one consumer and many producers                *)
(* (threadsafe_queue.h): a list whose last element is empty, a size, and a *)
(* condition variable for a consumer that waits.  The timers, video        *)
(* dumping, input adapters and the RPC server use it.  One step is one     *)
(* access to shared memory; producers take turns through write_lock.       *)
(***************************************************************************)
EXTENDS Integers, SequencesExt

CONSTANTS
  Producers,
  Pushes,        \* bound: values each producer pushes
  Nobody, Null

QueueAssumption ==
  /\ Pushes \in Nat
  /\ Nobody \notin Producers \cup {"consumer"}

Values == Producers \X (1 .. Pushes)

VARIABLES
  elements,            \* the elements that exist, with current and next
  write_ptr, read_ptr, size,
  write_lock, cv_mutex,
  pc,                  \* of each producer
  pushed,              \* of each producer: values so far
  cpc, tmpptr,         \* of the consumer
  received             \* history: the values that were popped

list == <<elements, write_ptr, read_ptr, size>>
consumer == <<cpc, tmpptr, received>>
vars == <<list, write_lock, cv_mutex, pc, pushed, consumer>>

Fresh == [current |-> Null, next |-> Null]

Init ==
  /\ elements = 0 :> Fresh
  /\ write_ptr = 0 /\ read_ptr = 0 /\ size = 0
  /\ write_lock = Nobody /\ cv_mutex = Nobody
  /\ pc = [p \in Producers |-> "idle"]
  /\ pushed = [p \in Producers |-> 0]
  /\ cpc = "idle" /\ tmpptr = Null /\ received = <<>>

-----------------------------------------------------------------------------
(* Push, by a producer *)

Goto(p, from, to) == pc[p] = from /\ pc' = [pc EXCEPT ![p] = to]

\* write_lock; the value is stored in the empty element at the end
Store(p) ==
  /\ Goto(p, "idle", "link")
  /\ write_lock = Nobody /\ write_lock' = p
  /\ pushed[p] < Pushes /\ pushed' = [pushed EXCEPT ![p] = @ + 1]
  /\ elements' = [elements EXCEPT ![write_ptr].current = <<p, pushed'[p]>>]
  /\ UNCHANGED <<write_ptr, read_ptr, size, cv_mutex, consumer>>

\* A new empty element is linked (elements are numbered as they are allocated)
Link(p) ==
  /\ Goto(p, "link", "advance")
  /\ elements' = [elements EXCEPT ![write_ptr].next = write_ptr + 1] @@ (write_ptr + 1) :> Fresh
  /\ UNCHANGED <<write_ptr, read_ptr, size, write_lock, cv_mutex, pushed, consumer>>

Advance(p) ==
  /\ Goto(p, "advance", "count")
  /\ write_ptr' = elements[write_ptr].next
  /\ UNCHANGED <<elements, read_ptr, size, write_lock, cv_mutex, pushed, consumer>>

Count(p) ==
  /\ Goto(p, "count", "lock")
  /\ size' = size + 1
  /\ UNCHANGED <<elements, write_ptr, read_ptr, write_lock, cv_mutex, pushed, consumer>>

\* Faulty: cv_mutex is not held
NotifyUnlocked(p) ==
  /\ Goto(p, "lock", "idle")
  /\ cpc' = IF cpc = "asleep" THEN "woken" ELSE cpc
  /\ write_lock' = Nobody
  /\ UNCHANGED <<list, cv_mutex, pushed, tmpptr, received>>

\* cv_mutex is taken, the consumer is notified, and both locks are given back
Notify(p) ==
  /\ Goto(p, "lock", "idle")
  /\ cv_mutex = Nobody
  /\ cpc' = IF cpc = "asleep" THEN "woken" ELSE cpc
  /\ write_lock' = Nobody
  /\ UNCHANGED <<list, cv_mutex, pushed, tmpptr, received>>

-----------------------------------------------------------------------------
(* Pop and PopWait, by the consumer *)

ConsumerGoto(from, to) == cpc \in from /\ cpc' = to

Empty == size = 0

\* Pop returns false
PopNothing ==
  /\ Empty
  /\ ConsumerGoto({"idle"}, "idle")
  /\ UNCHANGED <<list, write_lock, cv_mutex, pc, pushed, tmpptr, received>>

\* PopWait on an empty queue takes cv_mutex; so does a consumer that was notified
LockToWait ==
  /\ (cpc = "idle" => Empty)
  /\ ConsumerGoto({"idle", "woken"}, "locked")
  /\ cv_mutex = Nobody /\ cv_mutex' = "consumer"
  /\ UNCHANGED <<list, write_lock, pc, pushed, tmpptr, received>>

\* cv.wait looks at the predicate with the lock held ...
Look ==
  /\ ConsumerGoto({"locked"}, IF Empty THEN "sleepy" ELSE "pop")
  /\ cv_mutex' = IF Empty THEN cv_mutex ELSE Nobody
  /\ UNCHANGED <<list, write_lock, pc, pushed, tmpptr, received>>

\* ... and gives the lock back as it goes to sleep
Sleep ==
  /\ ConsumerGoto({"sleepy"}, "asleep")
  /\ cv_mutex' = Nobody
  /\ UNCHANGED <<list, write_lock, pc, pushed, tmpptr, received>>

\* A wait may also end without a notification
WakeSpuriously ==
  /\ ConsumerGoto({"asleep"}, "woken")
  /\ UNCHANGED <<list, write_lock, cv_mutex, pc, pushed, tmpptr, received>>

TakeOff ==
  /\ ConsumerGoto({"idle", "pop"}, "read")
  /\ ~Empty
  /\ size' = size - 1
  /\ tmpptr' = read_ptr
  /\ UNCHANGED <<elements, write_ptr, read_ptr, write_lock, cv_mutex, pc, pushed, received>>

\* The consumer alone touches these: read_ptr moves on, the value is moved out, the element goes
Delete ==
  /\ ConsumerGoto({"read"}, "idle")
  /\ read_ptr' = elements[tmpptr].next
  /\ received' = Append(received, elements[tmpptr].current)
  /\ elements' = [e \in DOMAIN elements \ {tmpptr} |-> elements[e]]
  /\ UNCHANGED <<write_ptr, size, write_lock, cv_mutex, pc, pushed, tmpptr>>

-----------------------------------------------------------------------------
ProducerNext(p) == Store(p) \/ Link(p) \/ Advance(p) \/ Count(p) \/ Notify(p)

ConsumerNext == PopNothing \/ LockToWait \/ Look \/ Sleep \/ TakeOff \/ Delete

Next == (\E p \in Producers : ProducerNext(p)) \/ ConsumerNext \/ WakeSpuriously

Spec == Init /\ [][Next]_vars

(* A producer that began to push finishes, and the consumer keeps popping.                    *)
FairSpec ==
  /\ Spec
  /\ \A p \in Producers : WF_vars(pc[p] # "idle" /\ ProducerNext(p))
  /\ WF_vars(ConsumerNext)

-----------------------------------------------------------------------------
TypeOK ==
  /\ DOMAIN elements \subseteq Nat /\ size \in Nat
  /\ pc \in [Producers -> {"idle", "link", "advance", "count", "lock"}]
  /\ cpc \in {"idle", "locked", "sleepy", "asleep", "woken", "pop", "read"}
  /\ write_lock \in Producers \cup {Nobody} /\ cv_mutex \in {"consumer", Nobody}

(* The consumer never follows a pointer that is null or that was deleted, and never reaches   *)
(* the element a producer is still filling: from read_ptr there are size elements with values *)
(* and links, and one more.                                                                   *)
ListIntact ==
  /\ {read_ptr, write_ptr} \subseteq DOMAIN elements
  /\ \A e \in read_ptr .. read_ptr + size - 1 :
       /\ e \in DOMAIN elements
       /\ elements[e].next = e + 1 /\ elements[e].current # Null
  /\ cpc = "read" => tmpptr \in DOMAIN elements /\ elements[tmpptr].next # Null

\* The element that is being popped has left the queue
First == IF cpc = "read" THEN read_ptr + 1 ELSE read_ptr

(* The queue is first in, first out, and each value comes out once.                           *)
Abstract == INSTANCE Fifo WITH
  Capacity <- 2 ^ 30,
  queue <- [i \in 1 .. size |-> elements[First + i - 1].current],
  received <- IF cpc = "read" THEN Append(received, elements[tmpptr].current) ELSE received

RefinesFifo == Abstract!Spec

(* A consumer in PopWait does not miss a value that is pushed as it goes to sleep: "cv_mutex  *)
(* must be held or else there will be a missed wakeup".                                       *)
PopWaitEnds == cpc = "asleep" /\ size > 0 ~> cpc # "asleep"
=============================================================================
