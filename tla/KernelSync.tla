----------------------------- MODULE KernelSync -----------------------------
(***************************************************************************)
(* Threads, the scheduler and the synchronisation objects of the emulated  *)
(* ARM11 kernel (src/src/core/hle/kernel): thread.cpp, wait_object.cpp,    *)
(* mutex.cpp, semaphore.cpp, event.cpp, timer.cpp, the SVCs of svc.cpp     *)
(* that drive them and the part of System::RunLoop (core.cpp) that decides *)
(* which core executes and when events fire.                               *)
(*                                                                         *)
(* One SVC, or one timing event, runs to its end before anything else does *)
(* (SVC::CallSVC holds the HLE lock).  The calls it still has to make are  *)
(* the sequence todo: the first frame is executed next, no SVC, event or   *)
(* reschedule is possible before todo is empty, so a handler is its first  *)
(* action followed by the frames it pushes, and nothing in between.        *)
(*                                                                         *)
(* Time is abstract: an event that is scheduled may become due at any      *)
(* Advance of its core.  An ASSERT of the code is a guard: where it fails  *)
(* the emulator aborts, and the model stops.                               *)
(***************************************************************************)
EXTENDS Integers, SequencesExt

CONSTANTS
  Threads, Mutexes, Semaphores, Events, Timers,
  OneShot, Pulse,      \* the events and timers of these reset types; the others are Sticky
  NumCores, CoreOf,    \* processor_id of each thread
  ProcessOf,           \* owner_process of each thread, named by its main thread
  Main,                \* the thread that exists when the model starts
  ThreadPrioLowest,
  InitPriority,        \* the priority argument of CreateThread
  SetPriorities,       \* the priorities SetThreadPriority is called with
  MaxCount, InitCount, \* of the semaphores
  ReleaseCounts,       \* the release_count arguments of ReleaseSemaphore
  WaitLists,           \* the handle lists WaitSynchronizationN is called with
  JoinTargets,         \* the threads that a thread waits for with WaitSynchronization1
  Killers,             \* the threads that call TerminateProcess
  MaxLock,             \* bound on lock_count
  Svcs,                \* the SVCs the emulated program uses
  Null

Signals == Events \cup Timers
Objects == Threads \cup Mutexes \cup Semaphores \cup Signals
Cores == 0 .. NumCores - 1
NoCore == -1
Priorities == 0 .. ThreadPrioLowest

ASSUME CoresAssumption == NumCores \in Nat \ {0} /\ CoreOf \in [Threads -> Cores]
ASSUME PrioritiesAssumption ==
  /\ ThreadPrioLowest \in Nat
  /\ InitPriority \in [Threads -> Priorities]
  /\ SetPriorities \subseteq Priorities
ASSUME ObjectsAssumption ==
  /\ Main \in Threads
  /\ Null \notin Objects /\ Objects \cap Cores = {}
  /\ Threads \cap (Mutexes \cup Semaphores \cup Signals) = {}
  /\ Mutexes \cap (Semaphores \cup Signals) = {}
  /\ Semaphores \cap Signals = {}
  /\ OneShot \subseteq Signals /\ Pulse \subseteq Signals
  /\ IsFiniteSet(Mutexes)
ASSUME ArgumentsAssumption ==
  /\ ProcessOf \in [Threads -> Threads] /\ ProcessOf[Main] = Main
  /\ JoinTargets \in [Threads -> SUBSET Threads] /\ Killers \subseteq Threads
  /\ WaitLists \subseteq Seq(Objects)
  /\ MaxCount \in Nat /\ InitCount \in Int /\ InitCount <= MaxCount
  /\ ReleaseCounts \subseteq Int /\ MaxLock \in Nat

VARIABLES
  status, nominal_priority, current_priority, wait_objects, wakeup_callback,
  held_mutexes, pending_mutexes,           \* Thread
  result,                                  \* r0 in the saved context of a thread: how a wait ended
  listed,                                  \* thread_list and wakeup_callback_table
  waiting_threads,                         \* WaitObject
  lock_count, holding_thread, priority,    \* Mutex
  available_count,                         \* Semaphore
  signaled, interval_delay,                \* Event, Timer
  thread_events, timer_events,             \* scheduled ThreadWakeup and TimerCallback events
  current_thread, ready_queue,             \* ThreadManager, one per core
  cpu_r0,                                  \* r0 of each core
  reschedule_pending, advancing, slices, running,  \* System::RunLoop
  todo

thread_vars == <<nominal_priority, wakeup_callback, result, listed>>
prio_vars == <<current_priority, ready_queue, priority>>
mutex_vars == <<lock_count, holding_thread, held_mutexes>>
wait_vars == <<wait_objects, waiting_threads, pending_mutexes>>
signal_vars == <<available_count, signaled, interval_delay>>
event_vars == <<thread_events, timer_events>>
loop_vars == <<reschedule_pending, advancing, slices, running>>
core_vars == <<current_thread, cpu_r0>>
vars == <<status, thread_vars, prio_vars, mutex_vars, wait_vars, signal_vars,
          event_vars, loop_vars, core_vars, todo>>

-----------------------------------------------------------------------------
SyncStatus == {"WaitSynchAny", "WaitSynchAll"}
BlockedStatus == SyncStatus \cup {"WaitSleep"}
\* "Unborn" stands for a thread CreateThread has not made yet
ThreadStatus == BlockedStatus \cup {"Unborn", "Ready", "Running", "Dead"}

WaitResults == {"Success", "Timeout"}

Frame(fn, t, o) == [fn |-> fn, thr |-> t, obj |-> o]
Frames ==
  UNION {[fn : {"Acquire", "AddWaiting", "RemoveWaiting"}, thr : Threads, obj : Objects],
         [fn : {"Wake"}, thr : {Null}, obj : Objects],
         [fn : {"Wakeup", "Resume", "Stop", "ReleaseMutexes"}, thr : Threads, obj : {Null}],
         [fn : {"Rearm"}, thr : {Null}, obj : Timers],
         [fn : {"UpdatePriority"}, thr : {Null}, obj : Mutexes],
         [fn : {"TerminateThreads"}, thr : Threads, obj : Cores],
         [fn : {"Reschedule"}, thr : {Null}, obj : Cores]}
\* The same call for every object of a list, in its order
ForEach(fn, t, objs) == [i \in DOMAIN objs |-> Frame(fn, t, objs[i])]

-----------------------------------------------------------------------------
(* What an object answers to a thread *)

MutexShouldWait(m, t) == lock_count[m] > 0 /\ holding_thread[m] # t

ShouldWait(o, t) ==
  \/ o \in Mutexes /\ MutexShouldWait(o, t)
  \/ o \in Semaphores /\ available_count[o] <= 0
  \/ o \in Signals /\ ~signaled[o]
  \/ o \in Threads /\ status[o] # "Dead"

(* Priorities: Thread::UpdatePriority over the held mutexes, and moving a  *)
(* ready thread to the back of the queue of its new priority               *)

BestPriority(nominal, held, prio) == Min({nominal} \cup {prio[m] : m \in held})

MoveReady(t, new) ==
  LET c == CoreOf[t] IN
  LET removed == [ready_queue[c] EXCEPT ![current_priority[t]] = RemoveFirst(@, t)] IN
  [ready_queue EXCEPT ![c] = [removed EXCEPT ![new] = Append(@, t)]]

\* Faulty: a boost is never taken back
BoostOnlyUp(t, new) ==
  /\ current_priority' = [current_priority EXCEPT ![t] = Min({@, new})]
  /\ ready_queue' = IF status[t] = "Ready" THEN MoveReady(t, Min({current_priority[t], new}))
                    ELSE ready_queue

\* Faulty: a ready thread stays in the queue of its old priority
BoostInPlace(t, new) ==
  /\ current_priority' = [current_priority EXCEPT ![t] = new]
  /\ UNCHANGED ready_queue

BoostPriority(t, new) ==
  /\ current_priority' = [current_priority EXCEPT ![t] = new]
  /\ ready_queue' = IF status[t] = "Ready" THEN MoveReady(t, new) ELSE ready_queue

\* Faulty: the search for the best priority starts below the lowest one
UpdatePriorityPastLowest(m, waiters) ==
  LET best == Min({ThreadPrioLowest + 1} \cup {current_priority[w] : w \in Range(waiters)})
  IN IF holding_thread[m] = Null
     THEN UNCHANGED prio_vars
     ELSE priority' = [priority EXCEPT ![m] = best] /\ UNCHANGED <<current_priority, ready_queue>>

\* Mutex::UpdatePriority, with the given list of waiting threads
MutexUpdatePriority(m, waiters) ==
  LET best == Min({ThreadPrioLowest} \cup {current_priority[w] : w \in Range(waiters)})
      h == holding_thread[m]
  IN IF h = Null \/ best = priority[m]
     THEN UNCHANGED prio_vars
     ELSE /\ priority' = [priority EXCEPT ![m] = best]
          /\ BoostPriority(h, BestPriority(nominal_priority[h], held_mutexes[h], priority'))

PrepareReschedule == reschedule_pending' = TRUE /\ running' = NoCore
Continue == UNCHANGED <<reschedule_pending, running>>

\* Faulty: the wakeup event of the thread is left in the queue
UnscheduleNothing(t) == UNCHANGED thread_events

\* timing.UnscheduleEvent(ThreadWakeupEventType, thread_id)
UnscheduleEvent(t) == thread_events' = [thread_events EXCEPT ![t] = 0]

-----------------------------------------------------------------------------
(* The frames.  Each is one call; Return drops it, Call replaces it.       *)

Return == todo' = Tail(todo)
CallThenReturn(frames) == todo' = frames \o Tail(todo)
CallAgain(frames) == todo' = frames \o todo

\* object->Acquire(thread)
AcquireMutex(m, t) ==
  /\ ~MutexShouldWait(m, t)
  /\ lock_count' = [lock_count EXCEPT ![m] = @ + 1]
  /\ IF lock_count[m] = 0
     THEN /\ priority' = [priority EXCEPT ![m] = current_priority[t]]
          /\ held_mutexes' = [held_mutexes EXCEPT ![t] = @ \cup {m}]
          /\ holding_thread' = [holding_thread EXCEPT ![m] = t]
          /\ BoostPriority(t, BestPriority(nominal_priority[t], held_mutexes'[t], priority'))
          /\ PrepareReschedule
     ELSE UNCHANGED <<prio_vars, holding_thread, held_mutexes>> /\ Continue
  /\ UNCHANGED signal_vars

AcquireSemaphore(s) ==
  /\ available_count' = [available_count EXCEPT ![s] = IF @ <= 0 THEN @ ELSE @ - 1]
  /\ UNCHANGED <<mutex_vars, prio_vars, signaled, interval_delay>> /\ Continue

AcquireSignal(e) ==
  /\ signaled[e]
  /\ signaled' = [signaled EXCEPT ![e] = e \notin OneShot]
  /\ UNCHANGED <<mutex_vars, prio_vars, available_count, interval_delay>> /\ Continue

AcquireThread(x) ==
  /\ status[x] = "Dead"
  /\ UNCHANGED <<mutex_vars, prio_vars, signal_vars>> /\ Continue

Acquire(t, o) ==
  /\ \/ o \in Mutexes /\ AcquireMutex(o, t)
     \/ o \in Semaphores /\ AcquireSemaphore(o)
     \/ o \in Signals /\ AcquireSignal(o)
     \/ o \in Threads /\ AcquireThread(o)
  /\ Return
  /\ UNCHANGED <<status, thread_vars, wait_vars, event_vars, advancing, slices, core_vars>>

AddWaitingThread(t, o) ==
  LET ws == IF t \in Range(waiting_threads[o]) THEN waiting_threads[o]
            ELSE Append(waiting_threads[o], t)
  IN /\ waiting_threads' = [waiting_threads EXCEPT ![o] = ws]
     /\ IF o \in Mutexes
        THEN /\ pending_mutexes' = [pending_mutexes EXCEPT ![t] = @ \cup {o}]
             /\ MutexUpdatePriority(o, ws)
        ELSE UNCHANGED <<pending_mutexes, prio_vars>>
     /\ Return
     /\ UNCHANGED <<status, thread_vars, mutex_vars, wait_objects, signal_vars, event_vars,
                    loop_vars, core_vars>>

RemoveWaitingThread(t, o) ==
  LET ws == RemoveFirst(waiting_threads[o], t)
  IN /\ waiting_threads' = [waiting_threads EXCEPT ![o] = ws]
     /\ IF o \in Mutexes
        THEN /\ pending_mutexes' = [pending_mutexes EXCEPT ![t] = @ \ {o}]
             /\ MutexUpdatePriority(o, ws)
        ELSE UNCHANGED <<pending_mutexes, prio_vars>>
     /\ Return
     /\ UNCHANGED <<status, thread_vars, mutex_vars, wait_objects, signal_vars, event_vars,
                    loop_vars, core_vars>>

\* GetHighestPriorityReadyThread: the positions in the list of o that can be woken
ReadyToRun(t) ==
  status[t] = "WaitSynchAll" =>
    \A j \in DOMAIN wait_objects[t] : ~ShouldWait(wait_objects[t][j], t)

Candidates(o) ==
  {i \in DOMAIN waiting_threads[o] :
     LET t == waiting_threads[o][i] IN ~ShouldWait(o, t) /\ ReadyToRun(t)}

\* Faulty: first come, first served
IsFirst(o, i) == \A j \in Candidates(o) : i <= j

IsHighest(o, i) ==
  \A j \in Candidates(o) :
    LET pi == current_priority[waiting_threads[o][i]]
        pj == current_priority[waiting_threads[o][j]]
    IN pi < pj \/ (pi = pj /\ i <= j)

\* Faulty: the loop ends after one thread
WakeOnlyOne(o, t) ==
  /\ UNCHANGED <<result, signaled>>
  /\ LET granted == IF status[t] = "WaitSynchAll" THEN wait_objects[t] ELSE <<o>>
     IN CallThenReturn(ForEach("Acquire", t, granted) \o ForEach("RemoveWaiting", t, wait_objects[t])
                         \o <<Frame("Wakeup", t, Null)>>)

\* WakeupAllWaitingThreads: one round of its loop, or its end and the reset of a pulse
WakeOne(o, t) ==
  /\ result' = [result EXCEPT ![t] = IF wakeup_callback[t] THEN "Success" ELSE @]
  /\ LET granted == IF status[t] = "WaitSynchAll" THEN wait_objects[t] ELSE <<o>>
     IN CallAgain(ForEach("Acquire", t, granted) \o ForEach("RemoveWaiting", t, wait_objects[t])
                    \o <<Frame("Wakeup", t, Null)>>)
  /\ UNCHANGED signaled

WakeEnd(o) ==
  /\ signaled' = [e \in Signals |-> signaled[e] /\ ~(e = o /\ o \in Pulse)]
  /\ Return
  /\ UNCHANGED result

WakeupAllWaitingThreads(o) ==
  /\ \A t \in Range(waiting_threads[o]) : status[t] \in SyncStatus
  /\ \/ \E i \in Candidates(o) : IsHighest(o, i) /\ WakeOne(o, waiting_threads[o][i])
     \/ Candidates(o) = {} /\ WakeEnd(o)
  /\ UNCHANGED <<status, nominal_priority, wakeup_callback, listed, prio_vars, mutex_vars,
                 wait_vars, available_count, interval_delay, event_vars, loop_vars,
                 core_vars>>

\* Faulty: no reschedule is asked for
ResumeQuietly(t) ==
  /\ IF status[t] \in BlockedStatus
     THEN /\ wakeup_callback' = [wakeup_callback EXCEPT ![t] = FALSE]
          /\ ready_queue' = [ready_queue EXCEPT ![CoreOf[t]][current_priority[t]] = Append(@, t)]
          /\ status' = [status EXCEPT ![t] = "Ready"]
     ELSE UNCHANGED <<wakeup_callback, ready_queue, status>>
  /\ Continue

\* Faulty: a sleeping thread is missing from the cases of the switch
ResumeOnlySync(t) ==
  IF status[t] \in SyncStatus THEN ResumeQuietly(t)
  ELSE UNCHANGED <<wakeup_callback, ready_queue, status>> /\ Continue

\* Thread::ResumeFromWait
ResumeFromWait(t) ==
  IF status[t] \in BlockedStatus
  THEN /\ wakeup_callback' = [wakeup_callback EXCEPT ![t] = FALSE]
       /\ ready_queue' = [ready_queue EXCEPT ![CoreOf[t]][current_priority[t]] = Append(@, t)]
       /\ status' = [status EXCEPT ![t] = "Ready"]
       /\ PrepareReschedule
  ELSE UNCHANGED <<wakeup_callback, ready_queue, status>> /\ Continue

\* wait_objects.clear() and ResumeFromWait, after the thread left every list
Wakeup(t) ==
  /\ wait_objects' = [wait_objects EXCEPT ![t] = <<>>]
  /\ ResumeFromWait(t)
  /\ Return
  /\ UNCHANGED <<nominal_priority, result, listed, current_priority, priority, mutex_vars,
                 waiting_threads, pending_mutexes, signal_vars, event_vars, advancing, slices,
                 core_vars>>

Resume(t) ==
  /\ wait_objects[t] = <<>>
  /\ status[t] = "Ready" => ~wakeup_callback[t]
  /\ ResumeFromWait(t)
  /\ Return
  /\ UNCHANGED <<nominal_priority, result, listed, current_priority, priority, mutex_vars,
                 wait_vars, signal_vars, event_vars, advancing, slices, core_vars>>

\* The end of Timer::Signal: a periodic timer is scheduled again
Rearm(tm) ==
  /\ timer_events' = [timer_events EXCEPT ![tm] = IF interval_delay[tm] THEN @ + 1 ELSE @]
  /\ Return
  /\ UNCHANGED <<status, thread_vars, prio_vars, mutex_vars, wait_vars, signal_vars,
                 thread_events, loop_vars, core_vars>>

\* The loop of SVC::SetThreadPriority over pending_mutexes
UpdatePendingMutex(m) ==
  /\ MutexUpdatePriority(m, waiting_threads[m])
  /\ Return
  /\ UNCHANGED <<status, thread_vars, mutex_vars, wait_vars, signal_vars, event_vars, loop_vars,
                 core_vars>>

\* Faulty: the thread stays in the lists of what it waits for and keeps its mutexes
StopKeepsObjects(t) ==
  /\ UnscheduleEvent(t)
  /\ listed' = listed \ {t}
  /\ ready_queue' = IF status[t] = "Ready"
                    THEN [ready_queue EXCEPT ![CoreOf[t]][current_priority[t]] = RemoveFirst(@, t)]
                    ELSE ready_queue
  /\ status' = [status EXCEPT ![t] = "Dead"]
  /\ CallThenReturn(<<Frame("Wake", Null, t)>>)
  /\ UNCHANGED <<nominal_priority, wakeup_callback, result, current_priority, priority,
                 mutex_vars, wait_vars, signal_vars, timer_events, loop_vars, core_vars>>

\* Thread::Stop up to the call of ReleaseThreadMutexes.  listed loses the thread here, where
\* wakeup_callback_table does; the callers of Stop erase it from thread_list right after
Stop(t) ==
  /\ UnscheduleEvent(t)
  /\ listed' = listed \ {t}
  /\ ready_queue' = IF status[t] = "Ready"
                    THEN [ready_queue EXCEPT ![CoreOf[t]][current_priority[t]] = RemoveFirst(@, t)]
                    ELSE ready_queue
  /\ status' = [status EXCEPT ![t] = "Dead"]
  /\ CallThenReturn(<<Frame("Wake", Null, t)>> \o ForEach("RemoveWaiting", t, wait_objects[t])
                      \o <<Frame("ReleaseMutexes", t, Null)>>)
  /\ UNCHANGED <<nominal_priority, wakeup_callback, result, current_priority, priority,
                 mutex_vars, wait_vars, signal_vars, timer_events, loop_vars, core_vars>>

\* Faulty: the list of held mutexes is cleared before they are unlocked
ReleaseClearsFirst(t) ==
  /\ wait_objects' = [wait_objects EXCEPT ![t] = <<>>]
  /\ held_mutexes' = [held_mutexes EXCEPT ![t] = {}]
  /\ Return
  /\ UNCHANGED <<status, thread_vars, prio_vars, lock_count, holding_thread, waiting_threads,
                 pending_mutexes, signal_vars, event_vars, loop_vars, core_vars>>

\* wait_objects.clear() and ReleaseThreadMutexes: the held mutexes one by one, then clear
ReleaseThreadMutexes(t) ==
  /\ wait_objects' = [wait_objects EXCEPT ![t] = <<>>]
  /\ \/ \E m \in held_mutexes[t] :
          /\ holding_thread[m] = t
          /\ lock_count' = [lock_count EXCEPT ![m] = 0]
          /\ holding_thread' = [holding_thread EXCEPT ![m] = Null]
          /\ CallAgain(<<Frame("Wake", Null, m)>>)
          /\ UNCHANGED held_mutexes
     \/ /\ \A m \in held_mutexes[t] : holding_thread[m] # t
        /\ held_mutexes' = [held_mutexes EXCEPT ![t] = {}]
        /\ Return
        /\ UNCHANGED <<lock_count, holding_thread>>
  /\ UNCHANGED <<status, thread_vars, prio_vars, waiting_threads, pending_mutexes, signal_vars,
                 event_vars, loop_vars, core_vars>>

\* ThreadManager::TerminateProcessThreads on core c, the current thread last
TerminateProcessThreads(p, c) ==
  LET others == {t \in listed : ProcessOf[t] = p /\ CoreOf[t] = c /\ t # current_thread[c]}
      cur == current_thread[c]
      ours == cur # Null /\ ProcessOf[cur] = p
  IN /\ \/ \E t \in others : CallAgain(<<Frame("Stop", t, Null)>>) /\ Continue
        \/ others = {} /\ ours /\ CallThenReturn(<<Frame("Stop", cur, Null)>>) /\ PrepareReschedule
        \/ others = {} /\ ~ours /\ Return /\ Continue
     /\ UNCHANGED <<status, thread_vars, prio_vars, mutex_vars, wait_vars, signal_vars,
                    event_vars, advancing, slices, core_vars>>

\* Faulty: whatever its status, the previous thread is made ready again
StaysAlways(c) == current_thread[c] # Null

\* ThreadManager::Reschedule: PopNextReadyThread, then SwitchContext
StaysRunnable(c) == current_thread[c] # Null /\ status[current_thread[c]] = "Running"

\* Faulty: the comparison with the running thread is the wrong way round
WorseQueues(c) ==
  {p \in Priorities : /\ ready_queue[c][p] # <<>>
                      /\ StaysRunnable(c) => p > current_priority[current_thread[c]]}

BetterQueues(c) ==
  {p \in Priorities : /\ ready_queue[c][p] # <<>>
                      /\ StaysRunnable(c) => p < current_priority[current_thread[c]]}

\* The registers of the core go to the context of its current thread
SavedContext(c) ==
  [t \in Threads |-> IF t = current_thread[c] THEN cpu_r0[c] ELSE result[t]]

SwitchTo(c, p) ==
  LET cur == current_thread[c]
      next == Head(ready_queue[c][p])
      popped == [ready_queue[c] EXCEPT ![p] = Tail(@)]
      pushed == IF StaysRunnable(c)
                THEN [popped EXCEPT ![current_priority[cur]] = <<cur>> \o @]
                ELSE popped
  IN /\ status[next] = "Ready"
     /\ ready_queue' = [ready_queue EXCEPT ![c] =
                          [pushed EXCEPT ![current_priority[next]] = RemoveFirst(@, next)]]
     /\ status' = [t \in Threads |-> IF t = next THEN "Running"
                                     ELSE IF t = cur /\ StaysRunnable(c) THEN "Ready"
                                     ELSE status[t]]
     /\ current_thread' = [current_thread EXCEPT ![c] = next]
     /\ cpu_r0' = [cpu_r0 EXCEPT ![c] = SavedContext(c)[next]]
     /\ UnscheduleEvent(next)

StayOrIdle(c) ==
  /\ IF StaysRunnable(c)
     THEN /\ UnscheduleEvent(current_thread[c])
          /\ UNCHANGED current_thread
     ELSE /\ current_thread' = [current_thread EXCEPT ![c] = Null]
          /\ UNCHANGED thread_events
  /\ UNCHANGED <<status, ready_queue, cpu_r0>>

Reschedule(c) ==
  /\ result' = SavedContext(c)
  /\ IF BetterQueues(c) = {}
     THEN StayOrIdle(c)
     ELSE SwitchTo(c, Min(BetterQueues(c)))
  /\ Return
  /\ UNCHANGED <<nominal_priority, wakeup_callback, listed, current_priority, priority, mutex_vars,
                 wait_vars, signal_vars, timer_events, loop_vars>>

RunFrame ==
  /\ todo # <<>>
  /\ LET f == Head(todo) IN
     \/ f.fn = "Acquire" /\ Acquire(f.thr, f.obj)
     \/ f.fn = "AddWaiting" /\ AddWaitingThread(f.thr, f.obj)
     \/ f.fn = "RemoveWaiting" /\ RemoveWaitingThread(f.thr, f.obj)
     \/ f.fn = "Wake" /\ WakeupAllWaitingThreads(f.obj)
     \/ f.fn = "Wakeup" /\ Wakeup(f.thr)
     \/ f.fn = "Resume" /\ Resume(f.thr)
     \/ f.fn = "Rearm" /\ Rearm(f.obj)
     \/ f.fn = "UpdatePriority" /\ UpdatePendingMutex(f.obj)
     \/ f.fn = "Stop" /\ Stop(f.thr)
     \/ f.fn = "ReleaseMutexes" /\ ReleaseThreadMutexes(f.thr)
     \/ f.fn = "TerminateThreads" /\ TerminateProcessThreads(f.thr, f.obj)
     \/ f.fn = "Reschedule" /\ Reschedule(f.obj)

-----------------------------------------------------------------------------
(* System::RunLoop *)

Quiet == todo = <<>> /\ running = NoCore

\* The cores that lag behind advance first, in the order of cpu_cores.  Past min_delay one of
\* them executes alone, otherwise all cores advance and execute one after the other
AllCores == [i \in 1 .. NumCores |-> i - 1]
LateCores ==
  {late \in UNION {[1 .. n -> Cores] : n \in 0 .. NumCores - 1} :
     \A i, j \in DOMAIN late : i < j => late[i] < late[j]}

StartIteration ==
  /\ Quiet /\ advancing = <<>> /\ slices = {} /\ ~reschedule_pending
  /\ \E late \in LateCores :
       \/ advancing' = late \o AllCores /\ slices' = Cores
       \/ advancing' = late /\ \E c \in Range(late) : slices' = {c}
  /\ UNCHANGED <<status, thread_vars, prio_vars, mutex_vars, wait_vars, signal_vars, event_vars,
                 reschedule_pending, running, core_vars, todo>>

\* The end of Timer::Advance on a core, and the reschedule after it
AdvanceDone ==
  /\ Quiet /\ advancing # <<>>
  /\ advancing' = Tail(advancing)
  /\ todo' = <<Frame("Reschedule", Null, Head(advancing))>>
  /\ UNCHANGED <<status, thread_vars, prio_vars, mutex_vars, wait_vars, signal_vars, event_vars,
                 reschedule_pending, slices, running, core_vars>>

\* A core with a current thread executes it, a core without one idles
StartSlice ==
  /\ Quiet /\ advancing = <<>> /\ slices # {}
  /\ LET c == Min(slices) IN
     /\ slices' = slices \ {c}
     /\ IF current_thread[c] = Null
        THEN PrepareReschedule
        ELSE running' = c /\ UNCHANGED reschedule_pending
  /\ UNCHANGED <<status, thread_vars, prio_vars, mutex_vars, wait_vars, signal_vars, event_vars,
                 advancing, core_vars, todo>>

EndSlice ==
  /\ todo = <<>> /\ running # NoCore
  /\ running' = NoCore
  /\ UNCHANGED <<status, thread_vars, prio_vars, mutex_vars, wait_vars, signal_vars, event_vars,
                 reschedule_pending, advancing, slices, core_vars, todo>>

\* System::Reschedule, at the end of an iteration that asked for it
RescheduleAll ==
  /\ Quiet /\ advancing = <<>> /\ slices = {} /\ reschedule_pending
  /\ reschedule_pending' = FALSE
  /\ todo' = [i \in 1 .. NumCores |-> Frame("Reschedule", Null, i - 1)]
  /\ UNCHANGED <<status, thread_vars, prio_vars, mutex_vars, wait_vars, signal_vars, event_vars,
                 advancing, slices, running, core_vars>>

(* Events that fire inside Timer::Advance of the core advancing now *)

Advancing == Quiet /\ advancing # <<>>

\* Faulty: the wakeup callback is called whatever the status of the thread
TimeoutAlways(t) ==
  /\ Advancing /\ CoreOf[t] = Head(advancing)
  /\ thread_events[t] > 0 /\ t \in listed
  /\ thread_events' = [thread_events EXCEPT ![t] = @ - 1]
  /\ result' = [result EXCEPT ![t] = "Timeout"]
  /\ todo' = ForEach("RemoveWaiting", t, wait_objects[t]) \o <<Frame("Wakeup", t, Null)>>
  /\ UNCHANGED <<status, nominal_priority, wakeup_callback, listed, prio_vars, mutex_vars,
                 wait_vars, signal_vars, timer_events, loop_vars, core_vars>>

ThreadWakeupCallback(t) ==
  /\ Advancing /\ CoreOf[t] = Head(advancing)
  /\ thread_events[t] > 0 /\ t \in listed
  /\ thread_events' = [thread_events EXCEPT ![t] = @ - 1]
  /\ IF status[t] \in SyncStatus
     THEN /\ result' = [result EXCEPT ![t] = IF wakeup_callback[t] THEN "Timeout" ELSE @]
          /\ todo' = ForEach("RemoveWaiting", t, wait_objects[t]) \o <<Frame("Wakeup", t, Null)>>
     ELSE /\ todo' = <<Frame("Resume", t, Null)>>
          /\ UNCHANGED result
  /\ UNCHANGED <<status, nominal_priority, wakeup_callback, listed, prio_vars, mutex_vars,
                 wait_vars, signal_vars, timer_events, loop_vars, core_vars>>

\* Timer::Signal
TimerFrames(tm) == <<Frame("Wake", Null, tm), Frame("Rearm", Null, tm)>>

TimerCallback(tm) ==
  /\ Advancing /\ timer_events[tm] > 0
  /\ timer_events' = [timer_events EXCEPT ![tm] = @ - 1]
  /\ signaled' = [signaled EXCEPT ![tm] = TRUE]
  /\ todo' = TimerFrames(tm)
  /\ UNCHANGED <<status, thread_vars, prio_vars, mutex_vars, wait_vars, available_count,
                 interval_delay, thread_events, loop_vars, core_vars>>

-----------------------------------------------------------------------------
(* The SVCs of the thread that the running core executes.  The code asks   *)
(* for the current thread of the core, whatever its status.  A call that   *)
(* only returns an error code changes nothing and has no action.           *)

Svc(name, t) ==
  name \in Svcs /\ todo = <<>> /\ running # NoCore /\ current_thread[running] = t

CreateThread(t, x) ==
  /\ Svc("CreateThread", t)
  /\ status[x] = "Unborn" /\ ProcessOf[x] \in {ProcessOf[t], x}
  /\ status' = [status EXCEPT ![x] = "Ready"]
  /\ listed' = listed \cup {x}
  /\ ready_queue' = [ready_queue EXCEPT ![CoreOf[x]][current_priority[x]] = Append(@, x)]
  /\ PrepareReschedule
  /\ UNCHANGED <<nominal_priority, wakeup_callback, result, current_priority, priority,
                 mutex_vars, wait_vars, signal_vars, event_vars, advancing, slices,
                 core_vars, todo>>

ExitThread(t) ==
  /\ Svc("ExitThread", t)
  /\ todo' = <<Frame("Stop", t, Null)>>
  /\ PrepareReschedule
  /\ UNCHANGED <<status, thread_vars, prio_vars, mutex_vars, wait_vars, signal_vars, event_vars,
                 advancing, slices, core_vars>>

TerminateProcess(t, p) ==
  /\ Svc("TerminateProcess", t) /\ t \in Killers
  /\ \E x \in listed : ProcessOf[x] = p
  /\ todo' = [i \in 1 .. NumCores |-> Frame("TerminateThreads", p, i - 1)]
  /\ UNCHANGED <<status, thread_vars, prio_vars, mutex_vars, wait_vars, signal_vars, event_vars,
                 loop_vars, core_vars>>

SetThreadPriority(t, x, p) ==
  /\ Svc("SetThreadPriority", t) /\ status[x] # "Unborn"
  /\ nominal_priority' = [nominal_priority EXCEPT ![x] = p]
  /\ BoostPriority(x, BestPriority(p, held_mutexes[x], priority))
  /\ \E order \in SetToSeqs(pending_mutexes[x]) : todo' = ForEach("UpdatePriority", Null, order)
  /\ PrepareReschedule
  /\ UNCHANGED <<status, wakeup_callback, result, listed, priority, mutex_vars, wait_vars,
                 signal_vars, event_vars, advancing, slices, core_vars>>

\* nano_seconds of a wait: 0, a positive delay, or -1
Delays == {"zero", "finite", "forever"}

WakeAfterDelay(t, ns) ==
  thread_events' = [thread_events EXCEPT ![t] = IF ns = "forever" THEN @ ELSE @ + 1]

HasHandle(o) == o \in Threads => status[o] # "Unborn"
LockBound(t, objs) ==
  \A m \in Range(objs) \cap Mutexes : holding_thread[m] = t => lock_count[m] < MaxLock

AcquireNow(t, objs) ==
  /\ todo' = ForEach("Acquire", t, objs)
  /\ cpu_r0' = [cpu_r0 EXCEPT ![running] = "Success"]
  /\ Continue
  /\ UNCHANGED <<status, wakeup_callback, wait_objects, thread_events>>

TimeoutNow ==
  /\ cpu_r0' = [cpu_r0 EXCEPT ![running] = "Timeout"]
  /\ Continue
  /\ UNCHANGED <<status, wakeup_callback, wait_objects, thread_events, todo>>

Suspend(t, objs, st, ns) ==
  /\ status' = [status EXCEPT ![t] = st]
  /\ wait_objects' = [wait_objects EXCEPT ![t] = objs]
  /\ WakeAfterDelay(t, ns)
  /\ wakeup_callback' = [wakeup_callback EXCEPT ![t] = TRUE]
  /\ cpu_r0' = [cpu_r0 EXCEPT ![running] = "Timeout"]
  /\ todo' = ForEach("AddWaiting", t, objs)
  /\ PrepareReschedule

WaitUnchanged ==
  UNCHANGED <<nominal_priority, result, listed, prio_vars, mutex_vars, waiting_threads,
              pending_mutexes, signal_vars, timer_events, advancing, slices, current_thread>>

WaitSynchronization1(t, o, ns) ==
  /\ Svc("WaitSynchronization1", t) /\ HasHandle(o) /\ LockBound(t, <<o>>)
  /\ IF ~ShouldWait(o, t) THEN AcquireNow(t, <<o>>)
     ELSE IF ns = "zero" THEN TimeoutNow
     ELSE Suspend(t, <<o>>, "WaitSynchAny", ns)
  /\ WaitUnchanged

WaitSynchronizationN(t, objs, wait_all, ns) ==
  LET free == {i \in DOMAIN objs : ~ShouldWait(objs[i], t)} IN
  /\ Svc("WaitSynchronizationN", t)
  /\ \A o \in Range(objs) : HasHandle(o)
  /\ LockBound(t, objs)
  /\ IF wait_all /\ free = DOMAIN objs THEN AcquireNow(t, objs)
     ELSE IF ~wait_all /\ free # {} THEN AcquireNow(t, <<objs[Min(free)]>>)
     ELSE IF ns = "zero" THEN TimeoutNow
     ELSE Suspend(t, objs, IF wait_all THEN "WaitSynchAll" ELSE "WaitSynchAny", ns)
  /\ WaitUnchanged

SleepThread(t, ns) ==
  /\ Svc("SleepThread", t)
  /\ ns = "zero" => \E p \in Priorities : ready_queue[running][p] # <<>>
  /\ status' = [status EXCEPT ![t] = "WaitSleep"]
  /\ WakeAfterDelay(t, ns)
  /\ PrepareReschedule
  /\ UNCHANGED <<thread_vars, prio_vars, mutex_vars, wait_vars, signal_vars, timer_events,
                 advancing, slices, core_vars, todo>>

\* Faulty: the thread keeps the mutex in held_mutexes
ReleaseStaysListed(t, m) ==
  /\ Svc("ReleaseMutex", t) /\ holding_thread[m] = t /\ lock_count[m] > 0
  /\ lock_count' = [lock_count EXCEPT ![m] = 0]
  /\ holding_thread' = [holding_thread EXCEPT ![m] = Null]
  /\ todo' = <<Frame("Wake", Null, m)>>
  /\ PrepareReschedule
  /\ UNCHANGED <<status, thread_vars, prio_vars, held_mutexes, wait_vars, signal_vars, event_vars,
                 advancing, slices, core_vars>>

ReleaseMutex(t, m) ==
  /\ Svc("ReleaseMutex", t) /\ holding_thread[m] = t /\ lock_count[m] > 0
  /\ lock_count' = [lock_count EXCEPT ![m] = @ - 1]
  /\ IF lock_count[m] = 1
     THEN /\ held_mutexes' = [held_mutexes EXCEPT ![t] = @ \ {m}]
          /\ BoostPriority(t, BestPriority(nominal_priority[t], held_mutexes'[t], priority))
          /\ holding_thread' = [holding_thread EXCEPT ![m] = Null]
          /\ todo' = <<Frame("Wake", Null, m)>>
          /\ PrepareReschedule
     ELSE /\ UNCHANGED <<held_mutexes, current_priority, ready_queue, holding_thread, todo>>
          /\ Continue
  /\ UNCHANGED <<status, thread_vars, priority, wait_vars, signal_vars, event_vars, advancing,
                 slices, core_vars>>

ReleaseSemaphore(t, s, n) ==
  /\ Svc("ReleaseSemaphore", t) /\ MaxCount >= n + available_count[s]
  /\ available_count' = [available_count EXCEPT ![s] = @ + n]
  /\ todo' = <<Frame("Wake", Null, s)>>
  /\ UNCHANGED <<status, thread_vars, prio_vars, mutex_vars, wait_vars, signaled, interval_delay,
                 event_vars, loop_vars, core_vars>>

\* Event::Signal, from the SVC or from an HLE service whose timing event fires
EventSignal(e) ==
  /\ signaled' = [signaled EXCEPT ![e] = TRUE]
  /\ todo' = <<Frame("Wake", Null, e)>>
  /\ UNCHANGED <<status, thread_vars, prio_vars, mutex_vars, wait_vars, available_count,
                 interval_delay, event_vars, loop_vars, core_vars>>

SignalEvent(t, e) == Svc("SignalEvent", t) /\ EventSignal(e)
ServiceSignal(e) == "ServiceSignal" \in Svcs /\ Advancing /\ EventSignal(e)

\* SVC ClearEvent and SVC ClearTimer
ClearSignal(t, e) ==
  /\ Svc("ClearEvent", t)
  /\ signaled' = [signaled EXCEPT ![e] = FALSE]
  /\ UNCHANGED <<status, thread_vars, prio_vars, mutex_vars, wait_vars, available_count,
                 interval_delay, event_vars, loop_vars, core_vars, todo>>

SetTimer(t, tm, initial, interval) ==
  /\ Svc("SetTimer", t)
  /\ timer_events' = [timer_events EXCEPT ![tm] = IF initial THEN 1 ELSE 0]
  /\ interval_delay' = [interval_delay EXCEPT ![tm] = interval]
  /\ IF initial
     THEN UNCHANGED <<signaled, todo>>
     ELSE signaled' = [signaled EXCEPT ![tm] = TRUE] /\ todo' = TimerFrames(tm)
  /\ UNCHANGED <<status, thread_vars, prio_vars, mutex_vars, wait_vars, available_count,
                 thread_events, loop_vars, core_vars>>

CancelTimer(t, tm) ==
  /\ Svc("CancelTimer", t)
  /\ timer_events' = [timer_events EXCEPT ![tm] = 0]
  /\ UNCHANGED <<status, thread_vars, prio_vars, mutex_vars, wait_vars, signal_vars,
                 thread_events, loop_vars, core_vars, todo>>

-----------------------------------------------------------------------------
Init ==
  /\ status = [t \in Threads |-> IF t = Main THEN "Ready" ELSE "Unborn"]
  /\ nominal_priority = InitPriority /\ current_priority = InitPriority
  /\ wait_objects = [t \in Threads |-> <<>>]
  /\ wakeup_callback = [t \in Threads |-> FALSE]
  /\ held_mutexes = [t \in Threads |-> {}] /\ pending_mutexes = [t \in Threads |-> {}]
  /\ result = [t \in Threads |-> "Success"]
  /\ listed = {Main}
  /\ waiting_threads = [o \in Objects |-> <<>>]
  /\ lock_count = [m \in Mutexes |-> 0]
  /\ holding_thread = [m \in Mutexes |-> Null]
  /\ priority = [m \in Mutexes |-> ThreadPrioLowest]
  /\ available_count = [s \in Semaphores |-> InitCount]
  /\ signaled = [e \in Signals |-> FALSE] /\ interval_delay = [tm \in Timers |-> FALSE]
  /\ thread_events = [t \in Threads |-> 0] /\ timer_events = [tm \in Timers |-> 0]
  /\ current_thread = [c \in Cores |-> Null] /\ cpu_r0 = [c \in Cores |-> "Success"]
  /\ ready_queue = [c \in Cores |-> [p \in Priorities |->
       IF c = CoreOf[Main] /\ p = InitPriority[Main] THEN <<Main>> ELSE <<>>]]
  \* the first iteration: no core lags behind
  /\ reschedule_pending = FALSE /\ advancing = AllCores /\ slices = Cores /\ running = NoCore
  /\ todo = <<>>

Waitable(t) == Mutexes \cup Semaphores \cup Signals \cup JoinTargets[t]

ThreadCall(t) ==
  \/ \E x \in Threads : CreateThread(t, x)
  \/ ExitThread(t)
  \/ \E p \in Threads : TerminateProcess(t, p)
  \/ \E x \in Threads, p \in SetPriorities : SetThreadPriority(t, x, p)
  \/ \E o \in Waitable(t), ns \in Delays : WaitSynchronization1(t, o, ns)
  \/ \E objs \in WaitLists, all \in BOOLEAN, ns \in Delays : WaitSynchronizationN(t, objs, all, ns)
  \/ \E ns \in Delays : SleepThread(t, ns)
  \/ \E m \in Mutexes : ReleaseMutex(t, m)
  \/ \E s \in Semaphores, n \in ReleaseCounts : ReleaseSemaphore(t, s, n)
  \/ \E e \in Events : SignalEvent(t, e)
  \/ \E e \in Signals : ClearSignal(t, e)
  \/ \E tm \in Timers, initial \in BOOLEAN, interval \in BOOLEAN : SetTimer(t, tm, initial, interval)
  \/ \E tm \in Timers : CancelTimer(t, tm)

RunLoop ==
  \/ StartIteration \/ AdvanceDone \/ StartSlice \/ EndSlice \/ RescheduleAll
  \/ \E t \in Threads : ThreadWakeupCallback(t)
  \/ \E tm \in Timers : TimerCallback(tm)
  \/ \E e \in Events : ServiceSignal(e)

Next == RunFrame \/ RunLoop \/ \E t \in Threads : ThreadCall(t)

Spec == Init /\ [][Next]_vars

\* The emulation thread keeps calling RunLoop, a slice ends, and time reaches every event
Fairness ==
  /\ WF_vars(RunFrame)
  /\ WF_vars(StartIteration) /\ WF_vars(AdvanceDone) /\ WF_vars(StartSlice)
  /\ SF_vars(EndSlice) /\ WF_vars(RescheduleAll)
  /\ \A t \in Threads : SF_vars(ThreadWakeupCallback(t))
  /\ \A tm \in Timers : SF_vars(TimerCallback(tm))

FairSpec == Spec /\ Fairness

-----------------------------------------------------------------------------
(* Properties *)

\* The types of all variables
TypeOK ==
  /\ status \in [Threads -> ThreadStatus]
  /\ nominal_priority \in [Threads -> Priorities] /\ current_priority \in [Threads -> Priorities]
  /\ wait_objects \in [Threads -> Seq(Objects)]
  /\ wakeup_callback \in [Threads -> BOOLEAN]
  /\ held_mutexes \in [Threads -> SUBSET Mutexes]
  /\ pending_mutexes \in [Threads -> SUBSET Mutexes]
  /\ result \in [Threads -> WaitResults] /\ cpu_r0 \in [Cores -> WaitResults]
  /\ listed \in SUBSET Threads
  /\ waiting_threads \in [Objects -> Seq(Threads)]
  /\ lock_count \in [Mutexes -> Nat]
  /\ holding_thread \in [Mutexes -> Threads \cup {Null}]
  /\ priority \in [Mutexes -> Priorities]
  /\ available_count \in [Semaphores -> Int]
  /\ signaled \in [Signals -> BOOLEAN] /\ interval_delay \in [Timers -> BOOLEAN]
  /\ thread_events \in [Threads -> Nat] /\ timer_events \in [Timers -> Nat]
  /\ current_thread \in [Cores -> Threads \cup {Null}]
  /\ ready_queue \in [Cores -> [Priorities -> Seq(Threads)]]
  /\ reschedule_pending \in BOOLEAN
  /\ advancing \in Seq(Cores) /\ slices \in SUBSET Cores /\ running \in Cores \cup {NoCore}
  /\ todo \in Seq(Frames)

\* The asserts of Acquire, GetHighestPriorityReadyThread and ResumeFromWait hold whenever the
\* kernel is about to make the call: no object is acquired that is not available, no list of
\* waiting threads holds a thread that does not wait, nobody resumes a running or dead thread
KernelAsserts ==
  todo # <<>> =>
    LET f == Head(todo) IN
    /\ f.fn = "Acquire" /\ f.obj \notin Semaphores => ~ShouldWait(f.obj, f.thr)
    /\ f.fn = "Wake" => \A t \in Range(waiting_threads[f.obj]) : status[t] \in SyncStatus
    /\ f.fn = "Wakeup" => status[f.thr] \in SyncStatus
    /\ f.fn = "Resume" => /\ wait_objects[f.thr] = <<>>
                          /\ status[f.thr] \in {"Ready", "WaitSleep"}
                          /\ status[f.thr] = "Ready" => ~wakeup_callback[f.thr]

\* Between handlers, the list of an object and the wait_objects of a thread name each other,
\* pending_mutexes follows them, and only a thread blocked in a wait is in any list
WaitListsAgree ==
  todo = <<>> =>
    \A t \in Threads :
      /\ \A o \in Objects : t \in Range(waiting_threads[o]) <=> o \in Range(wait_objects[t])
      /\ pending_mutexes[t] = Range(wait_objects[t]) \cap Mutexes
      /\ wait_objects[t] # <<>> => status[t] \in SyncStatus

\* Between handlers a mutex is locked exactly by the one thread that lists it in held_mutexes
MutexOwnership ==
  todo = <<>> =>
    \A m \in Mutexes :
      /\ lock_count[m] = 0 <=> holding_thread[m] = Null
      /\ \A t \in Threads : m \in held_mutexes[t] <=> holding_thread[m] = t

\* Between handlers a dead thread holds no mutex, waits for nothing and is waited for by nobody
\* who waits for it alone
DeadHoldsNothing ==
  todo = <<>> =>
    \A t \in Threads :
      status[t] = "Dead" =>
        /\ held_mutexes[t] = {} /\ wait_objects[t] = <<>>
        /\ \A o \in Objects : t \notin Range(waiting_threads[o])
        /\ \A w \in Range(waiting_threads[t]) : status[w] = "WaitSynchAll"

\* A thread is in a ready queue exactly when it is Ready, once, on its own core and at its
\* current priority: boosting, waking, switching and stopping all keep the queues right
ReadyQueueConsistent ==
  \A c \in Cores, p \in Priorities :
    /\ IsInjective(ready_queue[c][p])
    /\ \A t \in Threads :
         t \in Range(ready_queue[c][p])
           <=> status[t] = "Ready" /\ CoreOf[t] = c /\ current_priority[t] = p

\* Between handlers nobody sleeps on what it could have: a thread blocked on any of several
\* objects finds all of them unavailable, one that waits for all finds one unavailable
NoLostWakeup ==
  todo = <<>> =>
    \A t \in Threads :
      /\ status[t] = "WaitSynchAny" => \A o \in Range(wait_objects[t]) : ShouldWait(o, t)
      /\ status[t] = "WaitSynchAll" /\ wait_objects[t] # <<>> =>
           \E o \in Range(wait_objects[t]) : ShouldWait(o, t)

\* A thread that was not stopped has the best of its nominal priority and the priorities of the mutexes it
\* holds, after any sequence of locking, waiting, timing out and SetThreadPriority
PriorityInherited ==
  \A t \in listed :
    current_priority[t] = BestPriority(nominal_priority[t], held_mutexes[t], priority)

\* A timeout never outlives the wait it was set for: a thread that runs or is dead has no wakeup
\* event left, and no thread ever has two
NoStaleTimeout ==
  \A t \in Threads :
    /\ thread_events[t] <= 1
    /\ status[t] \in {"Running", "Dead", "Unborn"} => thread_events[t] = 0

\* Once woken, a thread keeps the result its wait ended with, also when the timeout of that wait
\* fires before the thread is scheduled
ResultStable == [][\A t \in Threads : status[t] = "Ready" => result'[t] = result[t]]_vars

\* Stopped threads stay stopped
DeadIsFinal == [][\A t \in Threads : status[t] = "Dead" => status'[t] = "Dead"]_vars

\* A mutex that changes hands inside a wakeup goes to the waiting thread with the best current
\* priority among those that could have taken it
MutexGoesToBestWaiter ==
  [][\A m \in Mutexes :
       LET t == holding_thread'[m] IN
       t # Null /\ t # holding_thread[m] /\ status[t] \in SyncStatus =>
         \A w \in Range(waiting_threads[m]) :
           status[w] \in SyncStatus /\ ~ShouldWait(m, w) /\ ReadyToRun(w) =>
             current_priority[t] <= current_priority[w]]_vars

\* When an iteration of the run loop ends with no reschedule pending, each core runs a thread
\* that no ready thread of that core beats, and a core idles only when nothing is ready
BestThreadRuns ==
  todo = <<>> /\ running = NoCore /\ advancing = <<>> /\ slices = {} /\ ~reschedule_pending =>
    \A t \in Threads :
      status[t] = "Ready" =>
        LET cur == current_thread[CoreOf[t]] IN
        cur # Null /\ status[cur] = "Running" /\ current_priority[cur] <= current_priority[t]

\* A timer never has more than one event scheduled, so cancelling it leaves none
OneTimerEvent == \A tm \in Timers : timer_events[tm] <= 1

\* Every handler returns: the loops over waiting threads, held mutexes and threads to stop end
HandlersReturn == todo # <<>> ~> todo = <<>>

\* A blocked thread with a timeout does not stay blocked
TimedWaitEnds ==
  \A t \in Threads :
    status[t] \in BlockedStatus /\ thread_events[t] > 0 ~> status[t] \notin BlockedStatus

\* A ready thread that beats every other thread of its core gets the core
IsBest(t) ==
  /\ status[t] = "Ready"
  /\ \A u \in Threads : u # t /\ CoreOf[u] = CoreOf[t] /\ status[u] \in {"Ready", "Running"} =>
                          current_priority[t] < current_priority[u]

BestThreadGetsCore == \A t \in Threads : IsBest(t) ~> ~IsBest(t)

\* mutex.h: UpdatePriority keeps the priority of a mutex at the best priority of its waiters
MutexPriorityIsBestWaiter ==
  todo = <<>> =>
    \A m \in Mutexes : \A w \in Range(waiting_threads[m]) :
      holding_thread[m] # Null => priority[m] <= current_priority[w]

-----------------------------------------------------------------------------
(* What the runs check together *)

(* BoostPriority, SetPriority, Reschedule: whoever changes the priority of a thread, it is     *)
(* queued exactly when it is ready and where its priority says, and an iteration ends with the *)
(* best ready thread on its core.                                                              *)
QueuesServeBest == ReadyQueueConsistent /\ BestThreadRuns

(* WakeupAllWaitingThreads, PrepareReschedule: with signals, timeouts and timers of two cores, *)
(* one of which may lag, nobody sleeps on what is available, and a thread that one core makes  *)
(* ready on another runs if it is the best.                                                    *)
CoresServed == NoLostWakeup /\ BestThreadRuns

(* Thread::Stop, ResumeFromWait, Timer::Set: no timeout outlives the wait it was for and no    *)
(* timer has two events, whichever core signals, sets, cancels or lags behind.                 *)
TimeoutsSound == NoStaleTimeout /\ OneTimerEvent

(* Thread::Stop: a thread that exits or is terminated at any moment leaves nothing behind. It  *)
(* holds and waits for nothing, its mutexes have gone to those who waited, wait lists and      *)
(* ready queues agree with the status of every thread, nobody sleeps on what is available, and *)
(* no timeout is left.                                                                         *)
TerminationClean ==
  /\ DeadHoldsNothing /\ MutexOwnership /\ ReadyQueueConsistent /\ WaitListsAgree
  /\ NoLostWakeup /\ NoStaleTimeout

(* WakeupAllWaitingThreads, WakeAfterDelay: every handler returns, however many threads it     *)
(* wakes, and every wait with a timeout ends.                                                  *)
HandlersEnd == HandlersReturn /\ TimedWaitEnds
=============================================================================
