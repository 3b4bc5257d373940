---------------------------- MODULE BoundedQueue ----------------------------
(***************************************************************************)
(* The bounded queue of the logger (bounded_threadsafe_queue.h): a ring    *)
(* with one index that only producers move and one that only the consumer  *)
(* moves, and a condition variable for each side.  Producers take turns    *)
(* through write_mutex, which a producer keeps while it waits for room.    *)
(* The waits with a stop token follow polyfill_thread.h, or the standard   *)
(* library where that has stop tokens.  One step is one access to shared   *)
(* memory.                                                                 *)
(***************************************************************************)
EXTENDS Integers, SequencesExt

CONSTANTS
  Producers, Consumer,
  Capacity,
  Width,               \* indices are numbers modulo Width, 2^64 in the program
  Pushes,              \* bound: values each producer pushes
  PushModes, PopModes, \* the modes the two sides use: "try", "wait", "stop"
  Polyfill,            \* whether the library lacks stop tokens
  Nobody, Null

BoundedQueueAssumption ==
  /\ Capacity \in Nat \ {0} /\ Width \in Nat /\ Width > Capacity /\ Width % Capacity = 0
  /\ PushModes \subseteq {"try", "wait"} /\ PopModes \subseteq {"try", "wait", "stop"}
  /\ Pushes \in Nat /\ Consumer \notin Producers /\ Nobody \notin Producers

Values == Producers \X (1 .. Pushes)
Threads == Producers \cup {Consumer}
Positions == 0 .. Capacity - 1

VARIABLES
  m_read_index, m_write_index, m_data,
  write_mutex,
  cv_mutex,            \* of each side
  pc, mode,            \* of each thread
  pushed,              \* of each producer: values so far
  stop_requested,
  received             \* history: the values that were popped

ring == <<m_read_index, m_write_index, m_data>>
vars == <<ring, write_mutex, cv_mutex, pc, mode, pushed, stop_requested, received>>

Init ==
  /\ m_read_index = 0 /\ m_write_index = 0
  /\ m_data = [i \in Positions |-> Null]
  /\ write_mutex = Nobody
  /\ cv_mutex = [side \in {"producer", "consumer"} |-> Nobody]
  /\ pc = [t \in Threads |-> "idle"]
  /\ mode = [t \in Threads |-> "try"]
  /\ pushed = [p \in Producers |-> 0]
  /\ stop_requested = FALSE /\ received = <<>>

Side(t) == IF t = Consumer THEN "consumer" ELSE "producer"

Goto(t, from, to) == pc[t] \in from /\ pc' = [pc EXCEPT ![t] = to]

Used == (m_write_index - m_read_index) % Width

HasRoom == Used < Capacity

\* What a thread waits for
Ready(t) == IF t = Consumer THEN Used # 0 ELSE HasRoom

\* The thread gave up its wait because it was asked to stop
Stopped(t) == stop_requested /\ mode[t] = "stop"

-----------------------------------------------------------------------------
(* Emplace: a producer, one at a time *)

\* TryEmplace of a full ring returns false and changes nothing
StartPush(p) ==
  /\ pushed[p] < Pushes
  /\ write_mutex = Nobody /\ write_mutex' = p
  /\ \E m \in PushModes :
       /\ m = "try" => HasRoom
       /\ Goto(p, {"idle"}, IF m = "try" THEN "copy" ELSE "lock")
       /\ mode' = [mode EXCEPT ![p] = m]
  /\ UNCHANGED <<ring, cv_mutex, pushed, stop_requested, received>>

Emplace(p) ==
  /\ p # Consumer /\ Goto(p, {"copy"}, "publish")
  /\ pushed' = [pushed EXCEPT ![p] = @ + 1]
  /\ m_data' = [m_data EXCEPT ![m_write_index % Capacity] = <<p, pushed'[p]>>]
  /\ UNCHANGED <<m_read_index, m_write_index, write_mutex, cv_mutex, mode, stop_requested, received>>

PublishWrite(p) ==
  /\ p # Consumer /\ Goto(p, {"publish"}, "notify")
  /\ m_write_index' = (m_write_index + 1) % Width
  /\ UNCHANGED <<m_read_index, m_data, write_mutex, cv_mutex, mode, pushed, stop_requested, received>>

-----------------------------------------------------------------------------
(* Pop: the consumer *)

\* TryPop of an empty ring returns false and changes nothing
StartPop ==
  /\ \E m \in PopModes :
       /\ m = "try" => Used # 0
       /\ Goto(Consumer, {"idle"}, IF m = "try" THEN "copy" ELSE "lock")
       /\ mode' = [mode EXCEPT ![Consumer] = m]
  /\ UNCHANGED <<ring, write_mutex, cv_mutex, pushed, stop_requested, received>>

Pop ==
  /\ Goto(Consumer, {"copy"}, "publish")
  /\ received' = Append(received, m_data[m_read_index % Capacity])
  /\ UNCHANGED <<ring, write_mutex, cv_mutex, mode, pushed, stop_requested>>

PublishRead ==
  /\ Goto(Consumer, {"publish"}, "notify")
  /\ m_read_index' = (m_read_index + 1) % Width
  /\ UNCHANGED <<m_write_index, m_data, write_mutex, cv_mutex, mode, pushed, stop_requested, received>>

-----------------------------------------------------------------------------
(* Waiting, on either side *)

Lock(t) ==
  /\ Goto(t, {"lock", "woken"}, "locked")
  /\ cv_mutex[Side(t)] = Nobody /\ cv_mutex' = [cv_mutex EXCEPT ![Side(t)] = t]
  /\ UNCHANGED <<ring, write_mutex, mode, pushed, stop_requested, received>>

\* The predicate is true or a stop was requested: the lock is given back; a stop wins
EndWait(t) ==
  /\ Ready(t) \/ Stopped(t)
  /\ Goto(t, {"locked"}, IF Stopped(t) THEN "idle" ELSE "copy")
  /\ cv_mutex' = [cv_mutex EXCEPT ![Side(t)] = Nobody]
  /\ UNCHANGED <<ring, write_mutex, mode, pushed, stop_requested, received>>

LookInVain(t) ==
  /\ ~Ready(t) /\ ~Stopped(t)
  /\ Goto(t, {"locked"}, "sleepy")
  /\ UNCHANGED <<ring, write_mutex, cv_mutex, mode, pushed, stop_requested, received>>

\* A library with stop tokens looks at the token once more as it goes to sleep
Sleep(t) ==
  /\ Goto(t, {"sleepy"}, IF Stopped(t) /\ ~Polyfill THEN "woken" ELSE "asleep")
  /\ cv_mutex' = [cv_mutex EXCEPT ![Side(t)] = Nobody]
  /\ UNCHANGED <<ring, write_mutex, mode, pushed, stop_requested, received>>

\* Waits may also end without a notification
WakeSpuriously(t) ==
  /\ Goto(t, {"asleep"}, "woken")
  /\ UNCHANGED <<ring, write_mutex, cv_mutex, mode, pushed, stop_requested, received>>

Sleeping(side) == {t \in Threads : Side(t) = side /\ pc[t] = "asleep"}

Other(t) == IF t = Consumer THEN "producer" ELSE "consumer"

\* The other side, where one thread may wait, is notified under its mutex; a producer is done
Notify(t) ==
  /\ pc[t] = "notify"
  /\ cv_mutex[Other(t)] = Nobody
  /\ pc' = [u \in Threads |-> IF u = t THEN "idle" ELSE IF u \in Sleeping(Other(t)) THEN "woken" ELSE pc[u]]
  /\ write_mutex' = IF t = write_mutex THEN Nobody ELSE write_mutex
  /\ UNCHANGED <<ring, cv_mutex, mode, pushed, stop_requested, received>>

\* The callback that a wait with a stop token registered notifies it
RequestStop ==
  /\ "stop" \in PopModes
  /\ ~stop_requested /\ stop_requested' = TRUE
  /\ pc' = [pc EXCEPT ![Consumer] = IF @ = "asleep" /\ mode[Consumer] = "stop" THEN "woken" ELSE @]
  /\ UNCHANGED <<ring, write_mutex, cv_mutex, mode, pushed, received>>

-----------------------------------------------------------------------------
Wait(t) == Lock(t) \/ EndWait(t) \/ LookInVain(t) \/ Sleep(t)

ProducerNext(p) == StartPush(p) \/ Emplace(p) \/ PublishWrite(p) \/ Wait(p) \/ Notify(p)

ConsumerNext == StartPop \/ Pop \/ PublishRead \/ Wait(Consumer) \/ Notify(Consumer)

Next ==
  \/ \E p \in Producers : ProducerNext(p)
  \/ ConsumerNext
  \/ \E t \in Threads : WakeSpuriously(t)
  \/ RequestStop

Spec == Init /\ [][Next]_vars

(* A producer that began to push goes on as long as it can, and the consumer keeps popping.   *)
FairSpec ==
  /\ Spec
  /\ \A p \in Producers : WF_vars(pc[p] # "idle" /\ ProducerNext(p))
  /\ WF_vars(ConsumerNext)

-----------------------------------------------------------------------------
TypeOK ==
  /\ m_read_index \in 0 .. Width - 1 /\ m_write_index \in 0 .. Width - 1
  /\ m_data \in [Positions -> Values \cup {Null}]
  /\ write_mutex \in Producers \cup {Nobody}
  /\ cv_mutex \in [{"producer", "consumer"} -> Threads \cup {Nobody}]
  /\ pc \in [Threads -> {"idle", "lock", "locked", "sleepy", "asleep", "woken", "copy", "publish", "notify"}]
  /\ mode \in [Threads -> {"try", "wait", "stop"}]
  /\ pushed \in [Producers -> 0 .. Pushes]
  /\ stop_requested \in BOOLEAN /\ received \in Seq(Values)

(* The producer never writes the slot that the consumer reads, although neither looks at the  *)
(* other's index again: also where the indices wrap.                                          *)
SlotsApart ==
  \A p \in Producers :
    pc[p] = "copy" /\ pc[Consumer] \in {"copy", "publish"} =>
      m_write_index % Capacity # m_read_index % Capacity

\* The value that is being popped has left the queue
Popping == IF pc[Consumer] = "publish" THEN 1 ELSE 0

(* The ring is a queue of Capacity, first in, first out, and each value comes out once.       *)
Abstract == INSTANCE Fifo WITH
  queue <- [i \in 1 .. Used - Popping |-> m_data[(m_read_index + Popping + i - 1) % Capacity]]

RefinesFifo == Abstract!Spec

(* A thread that went to sleep just as the other side made room or published a value, or as   *)
(* it was asked to stop, does not sleep on: no notification is missed, and request_stop ends   *)
(* the wait, as the thread that joins the consumer relies on.                                  *)
WaitersWake ==
  \A t \in Threads : pc[t] = "asleep" /\ (Ready(t) \/ Stopped(t)) ~> pc[t] # "asleep"
=============================================================================
