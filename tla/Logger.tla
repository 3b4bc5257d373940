------------------------------- MODULE Logger -------------------------------
(***************************************************************************)
(* The logging backend (logging/backend.cpp): threads push entries into    *)
(* the bounded queue, the backend thread pops and writes them, and Stop    *)
(* ends it.  The queue is used as Fifo promises, which BoundedQueue is     *)
(* shown to keep.  An entry is its thread and a number; filters, formats   *)
(* and the backends that an entry is written to are left out.              *)
(***************************************************************************)
EXTENDS Integers, SequencesExt

CONSTANTS
  Threads,
  Capacity,          \* of the queue
  Drain,             \* entries written at most after a stop: 100
  Pushes,            \* bound: entries in all
  NoEntry

LoggerAssumption ==
  Capacity \in Nat \ {0} /\ Drain \in Nat \ {0} /\ Pushes \in Nat

Entries == Threads \X (1 .. Pushes)

VARIABLES
  message_queue,
  waiting,           \* of each thread: the entry it is in PushEntry with, or NoEntry
  pushes,            \* entries created so far
  backend,           \* the backend thread: "loop", "popped", "drain", "write", "ended"
  entry,             \* its local variable, which keeps what was popped last
  max_logs_to_write,
  stop_requested,
  main,              \* the thread that calls Stop: "running", "joining", "closed"
  written,           \* history: entries written by the backend thread
  at_stop            \* history: what was written and queued at the stop

producers == <<waiting, pushes>>
consumer == <<backend, entry, max_logs_to_write, written>>
stopping == <<stop_requested, main, at_stop>>
vars == <<message_queue, producers, consumer, stopping>>

Init ==
  /\ message_queue = <<>>
  /\ waiting = [t \in Threads |-> NoEntry] /\ pushes = 0
  /\ backend = "loop" /\ entry = NoEntry /\ max_logs_to_write = Drain /\ written = <<>>
  /\ stop_requested = FALSE /\ main = "running"
  /\ at_stop = [written |-> <<>>, queued |-> <<>>]

-----------------------------------------------------------------------------
(* A thread logs *)

PushEntry(t) ==
  /\ waiting[t] = NoEntry /\ pushes < Pushes
  /\ pushes' = pushes + 1
  /\ waiting' = [waiting EXCEPT ![t] = <<t, pushes'>>]
  /\ UNCHANGED <<message_queue, consumer, stopping>>

EmplaceWait(t) ==
  /\ waiting[t] # NoEntry /\ Len(message_queue) < Capacity
  /\ message_queue' = Append(message_queue, waiting[t])
  /\ waiting' = [waiting EXCEPT ![t] = NoEntry]
  /\ UNCHANGED <<pushes, consumer, stopping>>

-----------------------------------------------------------------------------
(* The backend thread *)

\* PopWait takes the first entry if no stop was requested
PopWait ==
  /\ backend = "loop" /\ ~stop_requested /\ message_queue # <<>>
  /\ entry' = Head(message_queue) /\ message_queue' = Tail(message_queue)
  /\ backend' = "popped"
  /\ UNCHANGED <<producers, max_logs_to_write, written, stopping>>

\* A stop was requested as the thread waited: PopWait returns and leaves entry as it was
PopStopped ==
  /\ backend = "loop" /\ stop_requested
  /\ backend' = "popped"
  /\ UNCHANGED <<message_queue, producers, entry, max_logs_to_write, written, stopping>>

\* A stop was requested as the thread looked, before it waited
LeaveLoop ==
  /\ backend = "loop" /\ stop_requested
  /\ backend' = "drain"
  /\ UNCHANGED <<message_queue, producers, entry, max_logs_to_write, written, stopping>>

\* entry.filename != nullptr
WriteLogs ==
  /\ backend = "popped"
  /\ written' = IF entry = NoEntry THEN written ELSE Append(written, entry)
  /\ backend' = IF stop_requested THEN "drain" ELSE "loop"
  /\ UNCHANGED <<message_queue, producers, entry, max_logs_to_write, stopping>>

\* while (max_logs_to_write-- && TryPop(entry)) write_logs()
DrainOne ==
  /\ backend = "drain" /\ max_logs_to_write > 0 /\ message_queue # <<>>
  /\ max_logs_to_write' = max_logs_to_write - 1
  /\ entry' = Head(message_queue) /\ message_queue' = Tail(message_queue)
  /\ written' = Append(written, entry')
  /\ UNCHANGED <<producers, backend, stopping>>

\* Faulty: the end of the queue is waited for
EndWaits ==
  /\ backend = "drain" /\ max_logs_to_write = 0
  /\ backend' = "ended"
  /\ UNCHANGED <<message_queue, producers, entry, max_logs_to_write, written, stopping>>

End ==
  /\ backend = "drain" /\ (max_logs_to_write = 0 \/ message_queue = <<>>)
  /\ backend' = "ended"
  /\ UNCHANGED <<message_queue, producers, entry, max_logs_to_write, written, stopping>>

-----------------------------------------------------------------------------
(* Stop *)

RequestStop ==
  /\ main = "running" /\ main' = "joining"
  /\ stop_requested' = TRUE
  /\ at_stop' = [written |-> written, queued |-> message_queue]
  /\ UNCHANGED <<message_queue, producers, consumer>>

\* join; the backends are flushed and closed
Join ==
  /\ main = "joining" /\ backend = "ended" /\ main' = "closed"
  /\ UNCHANGED <<message_queue, producers, consumer, stop_requested, at_stop>>

-----------------------------------------------------------------------------
BackendNext == PopWait \/ PopStopped \/ LeaveLoop \/ WriteLogs \/ DrainOne \/ End

Next ==
  \/ \E t \in Threads : PushEntry(t) \/ EmplaceWait(t)
  \/ BackendNext
  \/ RequestStop \/ Join

Spec == Init /\ [][Next]_vars

(* The backend thread, a thread that waits for room and the thread in Stop run when they can. *)
FairSpec ==
  /\ Spec
  /\ \A t \in Threads : WF_vars(EmplaceWait(t))
  /\ WF_vars(BackendNext) /\ WF_vars(Join)

-----------------------------------------------------------------------------
TypeOK ==
  /\ message_queue \in Seq(Entries) /\ Len(message_queue) <= Capacity
  /\ waiting \in [Threads -> Entries \cup {NoEntry}] /\ pushes \in 0 .. Pushes
  /\ backend \in {"loop", "popped", "drain", "ended"}
  /\ entry \in Entries \cup {NoEntry} /\ max_logs_to_write \in 0 .. Drain
  /\ stop_requested \in BOOLEAN /\ main \in {"running", "joining", "closed"}
  /\ written \in Seq(Entries)

(* When Stop has closed the backends, what was queued at the stop was written, up to the      *)
(* limit, in order, and nothing that was written before is missing.                           *)
StopFlushes ==
  main = "closed" =>
    LET due == at_stop.written \o SubSeq(at_stop.queued, 1, Min({Drain, Len(at_stop.queued)})) IN
    \A i \in 1 .. Len(due) : \E j \in 1 .. Len(written) : written[j] = due[i]

(* The entries of a thread are written in the order in which it pushed them.                 *)
ThreadOrder ==
  \A i, j \in 1 .. Len(written) :
    i < j /\ written[i][1] = written[j][1] => written[i][2] <= written[j][2]

(* Only what was popped is written, also when the stop token is signaled: once.               *)
WrittenOnce == IsInjective(written)

(* Stop ends, also while other threads log.                                                   *)
StopEnds == main = "joining" ~> main = "closed"

(* A thread that logs waits for room until there is some, as long as nobody stops the backend. *)
PushesEnd == \A t \in Threads : waiting[t] # NoEntry ~> waiting[t] = NoEntry \/ stop_requested
=============================================================================
