---------------------------- MODULE MCHostThreads ---------------------------
(***************************************************************************)
(* Instances of what threads of the host wait for one another with: the    *)
(* queues (ThreadsafeQueue, BoundedQueue), the ring of the audio           *)
(* (RingBuffer), the pool of workers (ThreadWorker), the log (Logger), and *)
(* a client of a room (Room).  A behaviour is one of a single part; the    *)
(* others stay as they were in the beginning.                              *)
(***************************************************************************)
EXTENDS Integers, Sequences

CONSTANTS p1, p2, reader, none

VARIABLES
  part,
  elements, write_ptr, read_ptr, size, write_lock, cv_mutex, pc, pushed, cpc, tmpptr, received,
  ring_read, ring_write, ring_data, write_mutex, cv_mutexes, ring_pc, mode, ring_pushed, reader_stop,
  ring_received,
  m_write_index, m_read_index, m_data, push, pop, output, sent, heard,
  requests, queue_mutex, work_scheduled, work_done, workers_stopped, worker, task,
  recent_first_count, stop_requested, client, pool, done, discarded, bypassed, older,
  message_queue, waiting, pushes, backend, entry, max_logs_to_write, log_stop, main, written, at_stop,
  open, members, banned, outcasts, place, owner, up, down, link, state, loop, user, send_list,
  member_information, current_game_info, joins, says, losses, rooms

queue_vars ==
  <<elements, write_ptr, read_ptr, size, write_lock, cv_mutex, pc, pushed, cpc, tmpptr, received>>
ring_vars ==
  <<ring_read, ring_write, ring_data, write_mutex, cv_mutexes, ring_pc, mode, ring_pushed, reader_stop,
    ring_received>>
audio_vars == <<m_write_index, m_read_index, m_data, push, pop, output, sent, heard>>
pool_vars ==
  <<requests, queue_mutex, work_scheduled, work_done, workers_stopped, worker, task,
    recent_first_count, stop_requested, client, pool, done, discarded, bypassed, older>>
log_vars ==
  <<message_queue, waiting, pushes, backend, entry, max_logs_to_write, log_stop, main, written,
    at_stop>>
room_vars ==
  <<open, members, banned, outcasts, place, owner, up, down, link, state, loop, user, send_list,
    member_information, current_game_info, joins, says, losses, rooms>>

Queue == INSTANCE ThreadsafeQueue WITH
  Producers <- {p1, p2}, Pushes <- 2, Nobody <- none, Null <- none

Ring == INSTANCE BoundedQueue WITH
  Producers <- {p1, p2}, Consumer <- reader, Capacity <- 2, Width <- 4, Pushes <- 2,
  PushModes <- {"try", "wait"}, PopModes <- {"try", "stop"}, Polyfill <- FALSE,
  Nobody <- none, Null <- none,
  m_read_index <- ring_read, m_write_index <- ring_write, m_data <- ring_data,
  cv_mutex <- cv_mutexes, pc <- ring_pc, pushed <- ring_pushed, stop_requested <- reader_stop,
  received <- ring_received

Audio == INSTANCE RingBuffer WITH
  capacity <- 4, Width <- 8, MaxSlots <- 5, Samples <- 11, received <- heard

\* A pool that is stopped, and one in which the newest request goes first
Pool == INSTANCE ThreadWorker WITH
  NumWorkers <- 2, Clients <- {p1, p2}, RecentFirst <- FALSE, RecentFirstBurst <- 1, Works <- 2,
  Stops <- {"discard", "destroy"}, Nobody <- none, owner <- pool

Burst == INSTANCE ThreadWorker WITH
  NumWorkers <- 1, Clients <- {p1, p2}, RecentFirst <- TRUE, RecentFirstBurst <- 1, Works <- 3,
  Stops <- {}, Nobody <- none, owner <- pool

Log == INSTANCE Logger WITH
  Threads <- {p1, p2}, Capacity <- 2, Drain <- 2, Pushes <- 3, NoEntry <- none,
  stop_requested <- log_stop

\* The host of a room, alone in it: it may kick itself, and the room may be closed and made again.
Host == INSTANCE Room WITH
  Clients <- {p1}, Slots <- 1,
  Requests <- [c \in {p1} |-> {[nick |-> "host", mac |-> none, pass |-> TRUE, version |-> TRUE]}],
  Macs <- {"m1"}, NoPreferredMac <- none, Console <- [c \in {p1} |-> c],
  Ip <- [c \in {p1} |-> "home"], User <- [c \in {p1} |-> ""], Mods <- {}, HostUsername <- "host",
  Games <- {}, NoGame <- none, LeaveJoining <- FALSE,
  Sayings <- {[type |-> "ModKick", name |-> "host"]}, Joins <- 2, Says <- 1, Losses <- 1, Rooms <- 1,
  Backlog <- 1

ASSUME
  /\ Queue!QueueAssumption /\ Ring!BoundedQueueAssumption /\ Audio!RingBufferAssumption
  /\ Pool!ThreadWorkerAssumption /\ Burst!ThreadWorkerAssumption /\ Log!LoggerAssumption
  /\ Host!RoomAssumption

Init ==
  /\ part \in {"queue", "ring", "audio", "pool", "burst", "log", "room"}
  /\ Queue!Init /\ Ring!Init /\ Audio!Init /\ Log!Init /\ Host!Init
  /\ IF part = "burst" THEN Burst!Init ELSE Pool!Init

Next ==
  /\ UNCHANGED part
  /\ \/ /\ part = "queue" /\ Queue!Next
        /\ UNCHANGED <<ring_vars, audio_vars, pool_vars, log_vars, room_vars>>
     \/ /\ part = "ring" /\ Ring!Next
        /\ UNCHANGED <<queue_vars, audio_vars, pool_vars, log_vars, room_vars>>
     \/ /\ part = "audio" /\ Audio!Next
        /\ UNCHANGED <<queue_vars, ring_vars, pool_vars, log_vars, room_vars>>
     \/ /\ \/ part = "pool" /\ Pool!Next
           \/ part = "burst" /\ Burst!Next
        /\ UNCHANGED <<queue_vars, ring_vars, audio_vars, log_vars, room_vars>>
     \/ /\ part = "log" /\ Log!Next
        /\ UNCHANGED <<queue_vars, ring_vars, audio_vars, pool_vars, room_vars>>
     \/ /\ part = "room" /\ Host!Next
        /\ UNCHANGED <<queue_vars, ring_vars, audio_vars, pool_vars, log_vars>>

(* The fairness of each part, as its module states it. *)
Fairness ==
  /\ \A p \in {p1, p2} :
       /\ WF_queue_vars(part = "queue" /\ pc[p] # "idle" /\ Queue!ProducerNext(p))
       /\ WF_ring_vars(part = "ring" /\ ring_pc[p] # "idle" /\ Ring!ProducerNext(p))
       /\ SF_pool_vars((part = "pool" /\ Pool!InCall(p)) \/ (part = "burst" /\ Burst!InCall(p)))
       /\ WF_log_vars(part = "log" /\ Log!EmplaceWait(p))
  /\ WF_queue_vars(part = "queue" /\ Queue!ConsumerNext)
  /\ WF_ring_vars(part = "ring" /\ Ring!ConsumerNext)
  /\ SF_pool_vars((part = "pool" /\ Pool!WorkerNext(1)) \/ (part = "burst" /\ Burst!WorkerNext(1)))
  /\ SF_pool_vars(part = "pool" /\ Pool!WorkerNext(2))
  /\ WF_pool_vars(part = "pool" /\ Pool!Join)
  /\ WF_pool_vars(part = "pool" /\ pool = "destroy" /\ \E w \in 1 .. 2 : Pool!Destroy(w))
  /\ WF_log_vars(part = "log" /\ Log!BackendNext) /\ WF_log_vars(part = "log" /\ Log!Join)
  /\ \A p \in 1 .. 2 : WF_room_vars(part = "room" /\ Host!Handle(p))
  /\ WF_room_vars(part = "room" /\ Host!EndLoop(p1))
  /\ WF_room_vars(part = "room" /\ Host!NoEvent(p1))
  /\ WF_room_vars(part = "room" /\ Host!Event(p1))
  /\ WF_room_vars(part = "room" /\ (Host!SendCurrentGame(p1) \/ Host!Left(p1)))

vars == <<part, queue_vars, ring_vars, audio_vars, pool_vars, log_vars, room_vars>>
Spec == Init /\ [][Next]_vars /\ Fairness

-----------------------------------------------------------------------------

(* The parts have the types that their modules state. *)
TypeOK ==
  /\ Queue!TypeOK /\ Ring!TypeOK /\ Audio!TypeOK /\ Log!TypeOK /\ Host!TypeOK
  /\ IF part = "burst" THEN Burst!TypeOK ELSE Pool!TypeOK

(* SPSCQueue: the consumer never follows a pointer that is null or deleted, and never reaches   *)
(* the element that a producer is still filling.                                                *)
ListIntact == Queue!ListIntact

(* MPSCQueue and its Pop, PopWait: values come out once and first in, first out.                *)
QueueIsFifo == Queue!RefinesFifo

(* BoundedQueue: also where the indices wrap, values come out once and first in, first out,     *)
(* and never more than its capacity wait.                                                       *)
RingIsFifo == Ring!RefinesFifo

(* BoundedQueue: the producer never writes the slot that the consumer reads.                    *)
SlotsApart == Ring!SlotsApart

(* RingBuffer: Pop returns the samples that Push took, each once, in order and intact, and the  *)
(* rest is in the buffer.                                                                       *)
StreamIntact == Audio!StreamIntact

(* RingBuffer: a slot is never written while it is read.                                        *)
CopiesApart == Audio!CopiesApart

(* StatefulThreadWorker: every request queued is queued still, with one worker, done or dropped. *)
WorkAccounted == IF part = "burst" THEN Burst!WorkAccounted ELSE Pool!WorkAccounted

(* WaitForRequests returns only when no work is queued or running, unless the pool is stopped.   *)
WaitCovers == Pool!WaitCovers

(* TakeTask: the newest request goes first, but only RecentFirstBurst times in a row, so that    *)
(* older requests are not passed over for ever.                                                 *)
FifoFairness == part = "burst" => Burst!FifoFairness

(* Stop of the log: what was queued at the stop is written, up to the limit, and nothing that    *)
(* was written before is missing.                                                               *)
StopFlushes == Log!StopFlushes

(* The entries of a thread are written to the log in the order in which it pushed them.          *)
ThreadOrder == Log!ThreadOrder

(* PopWait does not miss a value that is pushed as the consumer goes to sleep.                   *)
PopWaitEnds == Queue!PopWaitEnds

(* BoundedQueue: neither side sleeps on when there is room, a value, or a request to stop.       *)
WaitersWake == Ring!WaitersWake

(* WaitForRequests returns, also after the pool was stopped.                                     *)
WaitEnds == Pool!WaitEnds

(* A pool that is stopped or destroyed waits for the tasks that run and no more.                 *)
StopEnds == Pool!StopEnds

(* Stop of the log ends, also while other threads log.                                           *)
LogStopEnds == Log!StopEnds

(* Kicks, lost connections and closed rooms: when client and room disagree on whether the client *)
(* is in, they come to agree.                                                                    *)
MembershipAgrees == Host!MembershipAgrees

(* Leave returns, if the room has answered the request to join.                                  *)
LeaveEnds == Host!LeaveEnds

-----------------------------------------------------------------------------

(* MPSCQueue, BoundedQueue, RingBuffer: under every interleaving of accesses, and where        *)
(* indices wrap, no slot is read while it is written, values come out once and in order, and   *)
(* nobody sleeps on when there is something to do.                                             *)
QueuesDeliver ==
  /\ []TypeOK /\ []ListIntact /\ []SlotsApart /\ []StreamIntact /\ []CopiesApart /\ QueueIsFifo
  /\ RingIsFifo /\ PopWaitEnds /\ WaitersWake

(* StatefulThreadWorker: no request is lost, done twice or passed over for ever;               *)
(* WaitForRequests covers what was queued before and returns, and so does a stop.              *)
PoolsSound == []WorkAccounted /\ []FifoFairness /\ WaitCovers /\ WaitEnds /\ StopEnds

(* Backend of the log: entries are written in the order of their threads, a stop flushes what  *)
(* was queued, and it ends.                                                                    *)
LogSound == []StopFlushes /\ []ThreadOrder /\ LogStopEnds

(* RoomMember: after kicks, lost connections and closed rooms client and room come to agree on *)
(* whether the client is in, and Leave returns.                                                *)
MembershipSettles == MembershipAgrees /\ LeaveEnds
=============================================================================
