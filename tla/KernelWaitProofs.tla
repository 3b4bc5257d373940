-------------------------- MODULE KernelWaitProofs --------------------------
(***************************************************************************)
(* Who waits for what in KernelSync; what a thread leaves behind when it   *)
(* exits or its process is terminated (Thread::Stop), why the asserts of   *)
(* the kernel hold, to whom a wakeup gives a mutex, and what a woken       *)
(* thread finds in its registers.                                          *)
(***************************************************************************)
EXTENDS KernelSyncProofs

-----------------------------------------------------------------------------
(* Waiting: the list of an object and the wait_objects of a thread name each other, nobody   *)
(* sleeps on what is available, and a thread that is stopped leaves nothing behind.           *)

Waits(t, o) == t \in Range(waiting_threads[o])
Joining(t, o) == Frame("AddWaiting", t, o) \in Range(todo)
Parting(t, o) == Frame("RemoveWaiting", t, o) \in Range(todo)

-----------------------------------------------------------------------------
(* What a handler does to the waits before its calls *)

\* The calls that neither put a thread into the lists of what it waits for nor take it off
PlainCalls == {"Acquire", "Wake", "Resume", "Stop", "Rearm", "UpdatePriority", "TerminateThreads", "Reschedule"}

WaitsAlone ==
  /\ UNCHANGED <<waiting_threads, pending_mutexes, wait_objects>>
  /\ \A g \in Range(todo') : g.fn \in PlainCalls
  /\ \/ status' = status
     \/ \E x \in Threads : status[x] = "Unborn" /\ status' = [status EXCEPT ![x] = "Ready"]
     \/ \E t \in Threads : /\ running \in Cores /\ current_thread[running] = t
                           /\ status' = [status EXCEPT ![t] = "WaitSleep"]

WaitTimesOut(t) ==
  /\ status[t] \in SyncStatus /\ todo' = WakeFrames(t, <<>>, wait_objects[t])
  /\ UNCHANGED <<waiting_threads, pending_mutexes, wait_objects, status>>

WaitStarts(t, objs, st) ==
  /\ running \in Cores /\ current_thread[running] = t
  /\ status' = [status EXCEPT ![t] = st] /\ wait_objects' = [wait_objects EXCEPT ![t] = objs]
  /\ todo' = ForEach("AddWaiting", t, objs)
  /\ st = "WaitSynchAny" => \A o \in Range(objs) : ShouldWait(o, t)
  /\ st = "WaitSynchAll" /\ objs # <<>> => \E o \in Range(objs) : ShouldWait(o, t)
  /\ UNCHANGED <<waiting_threads, pending_mutexes, lock_count, holding_thread, available_count, signaled>>

(* The steps of the run loop and the events: only a timeout touches a wait. *)
LEMMA LoopWaits ==
  ASSUME TypeOK, RunLoop
  PROVE  WaitsAlone \/ \E t \in Threads : WaitTimesOut(t)
<1> USE DEF thread_vars, prio_vars, mutex_vars, wait_vars, signal_vars, event_vars, loop_vars, core_vars
<1>1. todo = <<>> /\ Range(<<>>) = {}
  BY HandlerStarts DEF Range
<1>2. ASSUME StartIteration \/ StartSlice \/ EndSlice PROVE WaitsAlone
  BY <1>1, <1>2 DEF StartIteration, StartSlice, EndSlice, WaitsAlone
<1>3. ASSUME AdvanceDone PROVE WaitsAlone
  <2>1. Range(todo') = {Frame("Reschedule", Null, Head(advancing))}
    BY <1>3, RangeSingle DEF AdvanceDone
  <2>2. QED
    BY <1>3, <2>1, FrameOf DEF AdvanceDone, WaitsAlone, PlainCalls
<1>4. ASSUME RescheduleAll PROVE WaitsAlone
  <2>1. \A g \in Range(todo') : g.fn = "Reschedule"
    BY <1>4, FrameOf DEF RescheduleAll, Range
  <2>2. QED
    BY <1>4, <2>1 DEF RescheduleAll, WaitsAlone, PlainCalls
<1>5. ASSUME NEW t \in Threads, ThreadWakeupCallback(t) PROVE WaitsAlone \/ WaitTimesOut(t)
  <2>1. CASE status[t] \in SyncStatus
    <3>1. wait_objects[t] \in Seq(Objects)
      BY DEF TypeOK
    <3>2. todo' = WakeFrames(t, <<>>, wait_objects[t])
      BY <1>5, <2>1, <3>1, TimeoutFrames DEF ThreadWakeupCallback
    <3>3. QED
      BY <1>5, <2>1, <3>2 DEF ThreadWakeupCallback, WaitTimesOut
  <2>2. CASE status[t] \notin SyncStatus
    <3>1. Range(todo') = {Frame("Resume", t, Null)}
      BY <1>5, <2>2, RangeSingle DEF ThreadWakeupCallback
    <3>2. QED
      BY <1>5, <2>2, <3>1, FrameOf DEF ThreadWakeupCallback, WaitsAlone, PlainCalls
  <2>3. QED
    BY <2>1, <2>2
<1>6. ASSUME NEW tm \in Timers, TimerCallback(tm) PROVE WaitsAlone
  <2>1. Range(todo') = {Frame("Wake", Null, tm), Frame("Rearm", Null, tm)}
    BY <1>6 DEF TimerCallback, TimerFrames, Range
  <2>2. QED
    BY <1>6, <2>1, FrameOf DEF TimerCallback, WaitsAlone, PlainCalls
<1>7. ASSUME NEW e \in Events, ServiceSignal(e) PROVE WaitsAlone
  <2>1. Range(todo') = {Frame("Wake", Null, e)}
    BY <1>7, RangeSingle DEF ServiceSignal, EventSignal
  <2>2. QED
    BY <1>7, <2>1, FrameOf DEF ServiceSignal, EventSignal, WaitsAlone, PlainCalls
<1>8. QED
  BY <1>2, <1>3, <1>4, <1>5, <1>6, <1>7 DEF RunLoop

(* The SVCs: a wait starts only on what is not available. *)
LEMMA CallWaits ==
  ASSUME TypeOK, NEW t \in Threads, ThreadCall(t)
  PROVE  WaitsAlone \/ \E objs \in Seq(Objects), st \in SyncStatus : WaitStarts(t, objs, st)
<1> USE DEF thread_vars, prio_vars, mutex_vars, wait_vars, signal_vars, event_vars, loop_vars, core_vars
<1>1. todo = <<>> /\ Range(<<>>) = {} /\ running \in Cores /\ current_thread[running] = t
  BY CallEffect DEF Range
<1>2. ASSUME NEW objs, WaitUnchanged, AcquireNow(t, objs) \/ TimeoutNow PROVE WaitsAlone
  <2>1. \A g \in Range(todo') : g.fn = "Acquire"
    <3>1. CASE AcquireNow(t, objs)
      BY <3>1, ForEachFrames DEF AcquireNow
    <3>2. CASE TimeoutNow
      BY <1>1, <3>2 DEF TimeoutNow
    <3>3. QED
      BY <1>2, <3>1, <3>2
  <2>2. QED
    BY <1>2, <2>1 DEF WaitUnchanged, AcquireNow, TimeoutNow, WaitsAlone, PlainCalls
<1>3. ASSUME NEW o \in Waitable(t), NEW ns \in Delays, WaitSynchronization1(t, o, ns)
      PROVE  WaitsAlone \/ \E objs \in Seq(Objects), st \in SyncStatus : WaitStarts(t, objs, st)
  <2>1. CASE ShouldWait(o, t) /\ Suspend(t, <<o>>, "WaitSynchAny", ns)
    <3>1. <<o>> \in Seq(Objects) /\ Range(<<o>>) = {o}
      BY RangeSingle, ArgumentsAssumption DEF Waitable, Objects
    <3>2. WaitStarts(t, <<o>>, "WaitSynchAny")
      BY <1>1, <1>3, <2>1, <3>1 DEF WaitSynchronization1, WaitUnchanged, Suspend, WaitStarts
    <3>3. QED
      BY <3>1, <3>2 DEF SyncStatus
  <2>2. QED
    BY <1>2, <1>3, <2>1 DEF WaitSynchronization1
<1>4. ASSUME NEW objs \in WaitLists, NEW all \in BOOLEAN, NEW ns \in Delays, WaitSynchronizationN(t, objs, all, ns)
      PROVE  WaitsAlone \/ \E q \in Seq(Objects), st \in SyncStatus : WaitStarts(t, q, st)
  <2> DEFINE free == {i \in DOMAIN objs : ~ShouldWait(objs[i], t)}
             st == IF all THEN "WaitSynchAll" ELSE "WaitSynchAny"
  <2>1. objs \in Seq(Objects)
    BY ArgumentsAssumption
  <2>2. CASE (all => free # DOMAIN objs) /\ (~all => free = {}) /\ Suspend(t, objs, st, ns)
    <3>1. ~all => \A o \in Range(objs) : ShouldWait(o, t)
      BY <2>2 DEF Range
    <3>2. all => \E o \in Range(objs) : ShouldWait(o, t)
      BY <2>2 DEF Range
    <3>3. st \in SyncStatus /\ (st = "WaitSynchAny" => ~all) /\ (st = "WaitSynchAll" => all)
      BY DEF SyncStatus
    <3> HIDE DEF st, free
    <3>4. WaitStarts(t, objs, st)
      BY <1>1, <1>4, <2>2, <3>1, <3>2, <3>3 DEF WaitSynchronizationN, WaitUnchanged, Suspend, WaitStarts
    <3>5. QED
      BY <2>1, <3>3, <3>4
  <2>3. \/ \E granted : AcquireNow(t, granted)
        \/ TimeoutNow
        \/ (all => free # DOMAIN objs) /\ (~all => free = {}) /\ Suspend(t, objs, st, ns)
    BY <1>4 DEF WaitSynchronizationN
  <2>4. WaitUnchanged
    BY <1>4 DEF WaitSynchronizationN
  <2> HIDE DEF st, free
  <2>5. QED
    BY <1>2, <2>2, <2>3, <2>4
<1>5. ASSUME NEW g, todo' = <<g>> \/ todo' = <<>>, g.fn \in PlainCalls PROVE \A f \in Range(todo') : f.fn \in PlainCalls
  BY <1>1, <1>5, RangeSingle
<1>6. ASSUME NEW x \in Threads, CreateThread(t, x) PROVE WaitsAlone
  BY <1>1, <1>6 DEF CreateThread, WaitsAlone
<1>7. ASSUME NEW ns \in Delays, SleepThread(t, ns) PROVE WaitsAlone
  BY <1>1, <1>7 DEF SleepThread, WaitsAlone
<1>8. ASSUME ExitThread(t) PROVE WaitsAlone
  <2>1. \A f \in Range(todo') : f.fn \in PlainCalls
    BY <1>5, <1>8, FrameOf DEF ExitThread, PlainCalls
  <2>2. QED
    BY <1>8, <2>1 DEF ExitThread, WaitsAlone
<1>9. ASSUME NEW p \in Threads, TerminateProcess(t, p) PROVE WaitsAlone
  <2>1. \A g \in Range(todo') : g.fn = "TerminateThreads"
    BY <1>9, FrameOf DEF TerminateProcess, Range
  <2>2. QED
    BY <1>9, <2>1 DEF TerminateProcess, WaitsAlone, PlainCalls
<1>10. ASSUME NEW x \in Threads, NEW p \in SetPriorities, SetThreadPriority(t, x, p) PROVE WaitsAlone
  <2>1. \A g \in Range(todo') : g.fn = "UpdatePriority"
    BY <1>10, ForEachFrames DEF SetThreadPriority
  <2>2. QED
    BY <1>10, <2>1 DEF SetThreadPriority, WaitsAlone, PlainCalls
<1>11. ASSUME \/ \E m \in Mutexes : ReleaseMutex(t, m)
              \/ \E s \in Semaphores, n \in ReleaseCounts : ReleaseSemaphore(t, s, n)
              \/ \E e \in Events : SignalEvent(t, e)
              \/ \E e \in Signals : ClearSignal(t, e)
              \/ \E tm \in Timers : CancelTimer(t, tm)
       PROVE  WaitsAlone
  <2>1. todo' = <<>> \/ \E o : todo' = <<Frame("Wake", Null, o)>>
    BY <1>1, <1>11 DEF ReleaseMutex, ReleaseSemaphore, SignalEvent, EventSignal, ClearSignal, CancelTimer
  <2>2. \A f \in Range(todo') : f.fn \in PlainCalls
    BY <1>1, <1>5, <2>1, FrameOf DEF PlainCalls
  <2>3. UNCHANGED <<status, wait_vars>>
    BY <1>11 DEF ReleaseMutex, ReleaseSemaphore, SignalEvent, EventSignal, ClearSignal, CancelTimer
  <2>4. QED
    BY <2>2, <2>3 DEF WaitsAlone
<1>12. ASSUME NEW tm \in Timers, NEW initial \in BOOLEAN, NEW interval \in BOOLEAN, SetTimer(t, tm, initial, interval)
       PROVE  WaitsAlone
  <2>1. todo' = <<>> \/ todo' = <<Frame("Wake", Null, tm), Frame("Rearm", Null, tm)>>
    BY <1>1, <1>12 DEF SetTimer, TimerFrames
  <2>2. Range(<<Frame("Wake", Null, tm), Frame("Rearm", Null, tm)>>) = {Frame("Wake", Null, tm), Frame("Rearm", Null, tm)}
    BY DEF Range
  <2>3. \A f \in Range(todo') : f.fn \in PlainCalls
    BY <1>1, <2>1, <2>2, FrameOf DEF PlainCalls
  <2>4. QED
    BY <1>12, <2>3 DEF SetTimer, WaitsAlone
<1>13. QED
  BY <1>3, <1>4, <1>6, <1>7, <1>8, <1>9, <1>10, <1>11, <1>12 DEF ThreadCall

-----------------------------------------------------------------------------
(* The lists and the threads name each other *)

\* A thread is in a list once; pending_mutexes are the mutexes in whose list it is; a thread that is
\* being woken or stopped is in no list it will not be taken off, any other is in the lists of its
\* wait_objects, or about to be; and only a thread that waits has wait_objects
ListsInjective == \A o \in Objects : IsInjective(waiting_threads[o])
PendingListed == \A t \in Threads, m \in Mutexes : m \in pending_mutexes[t] <=> Waits(t, m)
ListsNamed ==
  \A t \in Threads, o \in Objects :
    /\ Leaving(t) /\ Waits(t, o) => Parting(t, o)
    /\ ~Leaving(t) => (Waits(t, o) \/ Joining(t, o) <=> o \in Range(wait_objects[t]))
WaitersBlocked == \A t \in Threads : wait_objects[t] # <<>> => status[t] \in SyncStatus \/ Leaving(t)

WaitInv == ListsInjective /\ PendingListed /\ ListsNamed /\ WaitersBlocked

(* AddWaitingThread appends a thread that is not in the list yet. *)
LEMMA AddsOne ==
  ASSUME TypeOK, ListsInjective, NEW t \in Threads, NEW o \in Objects, AddWaitingThread(t, o)
  PROVE  /\ ListsInjective'
         /\ \A u \in Threads, x \in Objects : Waits(u, x)' <=> Waits(u, x) \/ (u = t /\ x = o)
         /\ PendingListed => PendingListed'
<1> DEFINE q == waiting_threads[o]
           ws == IF t \in Range(q) THEN q ELSE Append(q, t)
<1>1. q \in Seq(Threads) /\ IsInjective(q) /\ waiting_threads' = [waiting_threads EXCEPT ![o] = ws]
  BY DEF TypeOK, ListsInjective, AddWaitingThread
<1>2. Lists(ws, Range(q) \cup {t})
  <2>1. CASE t \in Range(q)
    BY <1>1, <2>1 DEF Lists
  <2>2. CASE t \notin Range(q)
    <3>1. Lists(q, Range(q))
      BY <1>1 DEF Lists
    <3> HIDE DEF q
    <3>2. QED
      BY <1>1, <2>2, <3>1, ListsAppend
  <2>3. QED
    BY <2>1, <2>2
<1>3. \A x \in Objects : waiting_threads'[x] = IF x = o THEN ws ELSE waiting_threads[x]
  BY <1>1 DEF TypeOK
<1> HIDE DEF ws
<1>4. ListsInjective'
  BY <1>2, <1>3 DEF ListsInjective, Lists
<1>5. \A u \in Threads, x \in Objects : Waits(u, x)' <=> Waits(u, x) \/ (u = t /\ x = o)
  BY <1>2, <1>3 DEF Lists, Waits
<1>6. ASSUME PendingListed PROVE PendingListed'
  <2>1. \A u \in Threads, m \in Mutexes : m \in pending_mutexes'[u] <=> m \in pending_mutexes[u] \/ (u = t /\ m = o)
    <3>1. \A u \in Threads : pending_mutexes'[u] =
            IF u = t /\ o \in Mutexes THEN pending_mutexes[t] \cup {o} ELSE pending_mutexes[u]
      BY DEF AddWaitingThread, TypeOK
    <3> QED
      BY <3>1
  <2>2. QED
    BY <1>5, <1>6, <2>1 DEF PendingListed, Objects
<1>7. QED
  BY <1>4, <1>5, <1>6

(* RemoveWaitingThread takes the thread off the list. *)
LEMMA RemovesOne ==
  ASSUME TypeOK, ListsInjective, NEW t \in Threads, NEW o \in Objects, RemoveWaitingThread(t, o)
  PROVE  /\ ListsInjective'
         /\ \A u \in Threads, x \in Objects : Waits(u, x)' <=> Waits(u, x) /\ ~(u = t /\ x = o)
         /\ PendingListed => PendingListed'
<1> DEFINE q == waiting_threads[o]
           ws == RemoveFirst(q, t)
<1>1. q \in Seq(Threads) /\ IsInjective(q) /\ waiting_threads' = [waiting_threads EXCEPT ![o] = ws]
  BY DEF TypeOK, ListsInjective, RemoveWaitingThread
<1>2. Lists(ws, Range(q) \ {t})
  <2>1. Lists(q, Range(q))
    BY <1>1 DEF Lists
  <2> HIDE DEF q
  <2>2. QED
    BY <1>1, <2>1, ListsRemove
<1>3. \A x \in Objects : waiting_threads'[x] = IF x = o THEN ws ELSE waiting_threads[x]
  BY <1>1 DEF TypeOK
<1> HIDE DEF ws
<1>4. ListsInjective'
  BY <1>2, <1>3 DEF ListsInjective, Lists
<1>5. \A u \in Threads, x \in Objects : Waits(u, x)' <=> Waits(u, x) /\ ~(u = t /\ x = o)
  BY <1>2, <1>3 DEF Lists, Waits
<1>6. ASSUME PendingListed PROVE PendingListed'
  <2>1. \A u \in Threads, m \in Mutexes : m \in pending_mutexes'[u] <=> m \in pending_mutexes[u] /\ ~(u = t /\ m = o)
    <3>1. \A u \in Threads : pending_mutexes'[u] =
            IF u = t /\ o \in Mutexes THEN pending_mutexes[t] \ {o} ELSE pending_mutexes[u]
      BY DEF RemoveWaitingThread, TypeOK
    <3> QED
      BY <3>1
  <2>2. QED
    BY <1>5, <1>6, <2>1 DEF PendingListed, Objects
<1>7. QED
  BY <1>4, <1>5, <1>6

(* The fields of the calls that the invariant speaks of. *)
LEMMA WaitFrames ==
  \A t, o : /\ Frame("Wakeup", t, Null).fn = "Wakeup" /\ Frame("Wakeup", t, Null).thr = t
            /\ Frame("ReleaseMutexes", t, Null).fn = "ReleaseMutexes" /\ Frame("ReleaseMutexes", t, Null).thr = t
            /\ Frame("AddWaiting", t, o).fn = "AddWaiting" /\ Frame("AddWaiting", t, o).thr = t
            /\ Frame("AddWaiting", t, o).obj = o
            /\ Frame("RemoveWaiting", t, o).fn = "RemoveWaiting" /\ Frame("RemoveWaiting", t, o).thr = t
            /\ Frame("RemoveWaiting", t, o).obj = o
BY FrameOf

(* Which calls take a thread out of leaving, joining and parting: Wakeup and the end of               *)
(* ReleaseThreadMutexes; AddWaiting; RemoveWaiting.  Which ones put it there: Wake and Stop.         *)
LEMMA LeavingStep ==
  ASSUME TypeOK, CallsShaped, RunFrame, NEW t \in Threads
  PROVE  /\ Leaving(t) /\ ~Leaving(t)' => /\ Head(todo).fn \in {"Wakeup", "ReleaseMutexes"} /\ Head(todo).thr = t
                                          /\ wait_objects'[t] = <<>>
         /\ Leaving(t)' /\ ~Leaving(t) => \/ Head(todo).fn = "Wake" /\ status[t] \in SyncStatus
                                          \/ Head(todo).fn = "Stop" /\ Head(todo).thr = t
         /\ \A o : Joining(t, o)' => Joining(t, o)
         /\ \A o : Joining(t, o) /\ ~Joining(t, o)' => Head(todo) = Frame("AddWaiting", t, o)
         /\ \A o : Parting(t, o) /\ ~Parting(t, o)' => Head(todo) = Frame("RemoveWaiting", t, o)
<1> DEFINE f == Head(todo)
<1>1. /\ todo # <<>> /\ f \in Frames /\ f \in Range(todo) /\ Range(todo) = {f} \cup Range(Tail(todo))
      /\ Range(Tail(todo)) \subseteq Range(todo')
  BY TodoParts, TailKept DEF RunFrame
<1>2. ASSUME Leaving(t), ~Leaving(t)' PROVE f.fn \in {"Wakeup", "ReleaseMutexes"} /\ f.thr = t
  BY <1>1, <1>2, WaitFrames DEF Leaving
<1>3. ASSUME Leaving(t), ~Leaving(t)' PROVE wait_objects'[t] = <<>>
  BY <1>2, <1>3 DEF RunFrame, Wakeup, ReleaseThreadMutexes, TypeOK
<1>4. ASSUME Leaving(t)', ~Leaving(t)
      PROVE  \/ f.fn = "Wake" /\ status[t] \in SyncStatus
             \/ f.fn = "Stop" /\ f.thr = t
  <2>1. PICK g \in Range(todo') : g \notin Range(todo) /\ g.fn \in {"Wakeup", "ReleaseMutexes"} /\ g.thr = t
    BY <1>4, WaitFrames DEF Leaving
  <2>2. QED
    BY <2>1, PushedBy DEF WakeCalls
<1>5. ASSUME NEW o, Joining(t, o)' PROVE Joining(t, o)
  BY <1>5, WaitFrames, PushedBy DEF Joining, WakeCalls
<1>6. QED
  BY <1>1, <1>2, <1>3, <1>4, <1>5 DEF Joining, Parting

(* Which calls touch lists, wait_objects and the status of a waiting thread. *)
LEMMA WaitStep ==
  ASSUME TypeOK, SchedulerInv, RunFrame
  PROVE  /\ Head(todo).fn \notin {"AddWaiting", "RemoveWaiting"} => UNCHANGED <<waiting_threads, pending_mutexes>>
         /\ \A t \in Threads : \/ wait_objects'[t] = wait_objects[t]
                               \/ wait_objects'[t] = <<>> /\ Head(todo).fn \in {"Wakeup", "ReleaseMutexes"} /\ Head(todo).thr = t
         /\ \A t \in Threads : status'[t] \in SyncStatus => status'[t] = status[t]
         /\ \A t \in Threads : status[t] \in SyncStatus /\ status'[t] # status[t] =>
                                 Head(todo).fn \in {"Wakeup", "Resume", "Stop"} /\ Head(todo).thr = t
<1> DEFINE f == Head(todo)
<1> USE DEF thread_vars, prio_vars, mutex_vars, wait_vars, signal_vars, event_vars, loop_vars, core_vars
<1>1. todo # <<>> /\ f \in Frames
  BY TailType DEF RunFrame
<1>2. f.fn \notin {"AddWaiting", "RemoveWaiting"} => UNCHANGED <<waiting_threads, pending_mutexes>>
  BY DEF RunFrame, Acquire, WakeupAllWaitingThreads, Wakeup, Resume, Rearm, UpdatePendingMutex, Stop,
         ReleaseThreadMutexes, TerminateProcessThreads, Reschedule
<1>3. ASSUME NEW t \in Threads
      PROVE  \/ wait_objects'[t] = wait_objects[t]
             \/ wait_objects'[t] = <<>> /\ f.fn \in {"Wakeup", "ReleaseMutexes"} /\ f.thr = t
  <2>1. CASE f.fn \in {"Wakeup", "ReleaseMutexes"}
    BY <2>1 DEF RunFrame, Wakeup, ReleaseThreadMutexes, TypeOK
  <2>2. CASE f.fn \notin {"Wakeup", "ReleaseMutexes"}
    BY <2>2 DEF RunFrame, Acquire, AddWaitingThread, RemoveWaitingThread, WakeupAllWaitingThreads, Resume,
           Rearm, UpdatePendingMutex, Stop, TerminateProcessThreads, Reschedule
  <2>3. QED
    BY <2>1, <2>2
<1>4. ASSUME NEW t \in Threads
      PROVE  /\ status'[t] \in SyncStatus => status'[t] = status[t]
             /\ status[t] \in SyncStatus /\ status'[t] # status[t] =>
                  f.fn \in {"Wakeup", "Resume", "Stop"} /\ f.thr = t
  <2>1. CASE f.fn = "Reschedule"
    <3>1. f.obj \in Cores /\ Reschedule(f.obj)
      BY <1>1, <2>1, FrameArguments DEF RunFrame
    <3>2. \/ status'[t] = status[t]
          \/ status[t] = "Ready" /\ status'[t] = "Running"
          \/ status[t] = "Running" /\ status'[t] = "Ready"
      BY <3>1, RescheduleEffect
    <3>3. QED
      BY <3>2 DEF SyncStatus
  <2>2. CASE f.fn \in {"Wakeup", "Resume", "Stop"}
    <3>1. f.thr \in Threads
      BY <1>1, <2>2, FrameArguments
    <3>2. status' = status \/ status' = [status EXCEPT ![f.thr] = "Ready"] \/ status' = [status EXCEPT ![f.thr] = "Dead"]
      BY <2>2 DEF RunFrame, Wakeup, Resume, Stop, ResumeFromWait
    <3>3. QED
      BY <2>2, <3>1, <3>2 DEF SyncStatus, TypeOK
  <2>3. CASE f.fn \notin {"Wakeup", "Resume", "Stop", "Reschedule"}
    <3>1. status' = status
      BY <2>3 DEF RunFrame, Acquire, AddWaitingThread, RemoveWaitingThread, WakeupAllWaitingThreads,
             Rearm, UpdatePendingMutex, ReleaseThreadMutexes, TerminateProcessThreads
    <3>2. QED
      BY <3>1
  <2>4. QED
    BY <2>1, <2>2, <2>3
<1>5. QED
  BY <1>2, <1>3, <1>4

(* No call waits below AddWaiting but others of the same thread, and nobody is being taken off. *)
LEMMA AddingAlone ==
  ASSUME TypeOK, CallsShaped, todo # <<>>, Head(todo).fn = "AddWaiting", NEW t \in Threads
  PROVE  ~Leaving(t)
<1>1. Range(todo) = {Head(todo)} \cup Range(Tail(todo))
  BY TodoParts
<1>2. ASSUME NEW g \in Range(todo) PROVE g.fn \notin {"Wakeup", "ReleaseMutexes"}
  BY <1>1, TailBelow DEF Below, WakeCalls
<1>3. QED
  BY <1>2, WaitFrames DEF Leaving

(* Which waits a call ends or begins. *)
LEMMA WaitsStep ==
  ASSUME TypeOK, SchedulerInv, ListsInjective, PendingListed, RunFrame
  PROVE  /\ ListsInjective' /\ PendingListed'
         /\ \A t \in Threads, o \in Objects : /\ Waits(t, o)' => Waits(t, o) \/ Head(todo) = Frame("AddWaiting", t, o)
                                              /\ Waits(t, o) => Waits(t, o)' \/ Head(todo) = Frame("RemoveWaiting", t, o)
                                              /\ Head(todo) = Frame("AddWaiting", t, o) => Waits(t, o)'
                                              /\ Head(todo) = Frame("RemoveWaiting", t, o) => ~Waits(t, o)'
<1> DEFINE f == Head(todo)
<1>1. todo # <<>> /\ f \in Frames
  BY TailType DEF RunFrame
<1>2. ASSUME f.fn = "AddWaiting"
      PROVE  f.thr \in Threads /\ f.obj \in Objects /\ f = Frame("AddWaiting", f.thr, f.obj) /\ AddWaitingThread(f.thr, f.obj)
  BY <1>1, <1>2 DEF RunFrame, Frames, Frame
<1>3. ASSUME f.fn = "RemoveWaiting"
      PROVE  f.thr \in Threads /\ f.obj \in Objects /\ f = Frame("RemoveWaiting", f.thr, f.obj) /\ RemoveWaitingThread(f.thr, f.obj)
  BY <1>1, <1>3 DEF RunFrame, Frames, Frame
<1> HIDE DEF f
<1>4. CASE f.fn = "AddWaiting"
  BY <1>2, <1>4, AddsOne, WaitFrames DEF f
<1>5. CASE f.fn = "RemoveWaiting"
  BY <1>3, <1>5, RemovesOne, WaitFrames DEF f
<1>6. CASE f.fn \notin {"AddWaiting", "RemoveWaiting"}
  <2>1. UNCHANGED <<waiting_threads, pending_mutexes>>
    BY <1>6, WaitStep DEF f
  <2>2. \A t, o : f # Frame("AddWaiting", t, o) /\ f # Frame("RemoveWaiting", t, o)
    BY <1>6, WaitFrames
  <2>3. QED
    BY <2>1, <2>2 DEF ListsInjective, PendingListed, Waits, f
<1>7. QED
  BY <1>4, <1>5, <1>6

(* A thread that begins to leave is about to be taken off every list it is in. *)
LEMMA LeavingParts ==
  ASSUME TypeOK, SchedulerInv, WaitInv, RunFrame, NEW t \in Threads, Leaving(t)', ~Leaving(t),
         NEW o \in Range(wait_objects[t])
  PROVE  Parting(t, o)'
<1>1. wait_objects[t] \in Seq(Objects) /\ todo # <<>> /\ todo \in Seq(Frames) /\ Tail(todo) \in Seq(Frames)
  BY TodoParts DEF TypeOK, RunFrame
<1>2. CASE Head(todo).fn = "Wake" /\ \E x \in Threads, granted \in Seq(Objects) :
             todo' = WakeFrames(x, granted, wait_objects[x]) \o todo
  <2>1. PICK x \in Threads, granted \in Seq(Objects) : todo' = WakeFrames(x, granted, wait_objects[x]) \o todo
    BY <1>2
  <2>2. wait_objects[x] \in Seq(Objects)
    BY DEF TypeOK
  <2> DEFINE W == WakeFrames(x, granted, wait_objects[x])
  <2>3. /\ W \in Seq(Frames) /\ \A g \in Range(W) : g.fn \in WakeCalls /\ g.thr = x
        /\ \A y \in Range(wait_objects[x]) : Frame("RemoveWaiting", x, y) \in Range(W)
    BY <2>2, WakeList
  <2> HIDE DEF W
  <2>4. Range(todo') = Range(W) \cup Range(todo)
    BY <1>1, <2>1, <2>3, PushedRange DEF W
  <2>5. x = t
    BY <2>3, <2>4, WaitFrames DEF Leaving
  <2>6. QED
    BY <2>3, <2>4, <2>5 DEF Parting
<1>3. CASE Head(todo).fn = "Stop" /\ Head(todo).thr = t
  <2> DEFINE S == StopFrames(t, wait_objects[t])
  <2>1. todo' = S \o Tail(todo)
    BY <1>3, FrameStep
  <2>2. S \in Seq(Frames) /\ \A y \in Range(wait_objects[t]) : Frame("RemoveWaiting", t, y) \in Range(S)
    BY <1>1, StopList
  <2> HIDE DEF S
  <2>3. Range(todo') = Range(S) \cup Range(Tail(todo))
    BY <1>1, <2>1, <2>2, PushedRange
  <2>4. QED
    BY <2>2, <2>3 DEF Parting
<1>4. Head(todo).fn = "Wake" \/ (Head(todo).fn = "Stop" /\ Head(todo).thr = t)
  BY LeavingStep DEF SchedulerInv
<1>5. ASSUME Head(todo).fn = "Wake"
      PROVE  \E x \in Threads, granted \in Seq(Objects) : todo' = WakeFrames(x, granted, wait_objects[x]) \o todo
  <2>1. todo' # Tail(todo)
    <3>1. Range(todo) = {Head(todo)} \cup Range(Tail(todo))
      BY <1>1, TodoParts
    <3>2. QED
      BY <3>1 DEF Leaving
  <2>2. QED
    BY <1>5, <2>1, FrameStep
<1>6. QED
  BY <1>2, <1>3, <1>4, <1>5

(* Every call keeps lists and threads in step. *)
LEMMA FrameWaits ==
  ASSUME TypeOK, SchedulerInv, WaitInv, RunFrame
  PROVE  WaitInv'
<1> DEFINE f == Head(todo)
<1>1. /\ todo # <<>> /\ f \in Frames /\ f \in Range(todo) /\ Range(todo) = {f} \cup Range(Tail(todo))
      /\ CallsShaped /\ ListsInjective /\ PendingListed
  BY TodoParts DEF RunFrame, SchedulerInv, WaitInv
<1>2. ListsInjective' /\ PendingListed'
  BY <1>1, WaitsStep
<1>3. ASSUME NEW t \in Threads, NEW o \in Objects, Leaving(t)', Waits(t, o)' PROVE Parting(t, o)'
  <2>1. Waits(t, o) \/ f = Frame("AddWaiting", t, o)
    BY <1>1, <1>3, WaitsStep
  <2>2. CASE Leaving(t)
    <3>1. Waits(t, o)
      BY <1>1, <2>1, <2>2, AddingAlone, WaitFrames
    <3>2. Parting(t, o)
      BY <2>2, <3>1 DEF WaitInv, ListsNamed
    <3>3. f # Frame("RemoveWaiting", t, o)
      BY <1>1, <1>3, WaitsStep
    <3>4. QED
      BY <1>1, <3>2, <3>3, LeavingStep
  <2>3. CASE ~Leaving(t)
    <3>1. f.fn # "AddWaiting"
      BY <1>1, <1>3, <2>3, LeavingStep
    <3>2. o \in Range(wait_objects[t])
      BY <2>1, <2>3, <3>1, WaitFrames DEF WaitInv, ListsNamed
    <3>3. QED
      BY <1>3, <2>3, <3>2, LeavingParts
  <2>4. QED
    BY <2>2, <2>3
<1>4. ASSUME NEW t \in Threads, NEW o \in Objects, ~Leaving(t)'
      PROVE  Waits(t, o)' \/ Joining(t, o)' <=> o \in Range(wait_objects'[t])
  <2>1. CASE Leaving(t)
    <3>1. f.fn \in {"Wakeup", "ReleaseMutexes"} /\ f.thr = t /\ wait_objects'[t] = <<>>
      BY <1>1, <1>4, <2>1, LeavingStep
    <3>2. ~Waits(t, o)'
      <4>1. ASSUME Waits(t, o)' PROVE FALSE
        <5>1. Waits(t, o)
          BY <1>1, <3>1, <4>1, WaitsStep, WaitFrames
        <5>2. Parting(t, o)
          BY <2>1, <5>1 DEF WaitInv, ListsNamed
        <5>3. Frame("RemoveWaiting", t, o) \in Range(Tail(todo))
          BY <1>1, <3>1, <5>2, WaitFrames DEF Parting
        <5>4. Below(f, Frame("RemoveWaiting", t, o))
          BY <1>1, <5>3, TailBelow
        <5>5. QED
          BY <3>1, <5>4, WaitFrames DEF Below, WakeCalls
      <4>2. QED
        BY <4>1
    <3>3. ~Joining(t, o)'
      <4>1. ASSUME Joining(t, o)' PROVE FALSE
        <5>1. Joining(t, o)
          BY <1>1, <4>1, LeavingStep
        <5>2. Frame("AddWaiting", t, o) \in Range(Tail(todo))
          BY <1>1, <3>1, <5>1, WaitFrames DEF Joining
        <5>3. Below(f, Frame("AddWaiting", t, o))
          BY <1>1, <5>2, TailBelow
        <5>4. QED
          BY <3>1, <5>3, WaitFrames DEF Below
      <4>2. QED
        BY <4>1
    <3>4. QED
      BY <3>1, <3>2, <3>3 DEF Range
  <2>2. CASE ~Leaving(t)
    <3>1. Waits(t, o) \/ Joining(t, o) <=> o \in Range(wait_objects[t])
      BY <2>2 DEF WaitInv, ListsNamed
    <3>2. ~(f.fn \in {"Wakeup", "ReleaseMutexes"} /\ f.thr = t)
      BY <1>1, <2>2, FrameFields DEF Leaving
    <3>3. wait_objects'[t] = wait_objects[t]
      BY <3>2, WaitStep
    <3>4. f # Frame("RemoveWaiting", t, o)
      BY <1>1, <2>2 DEF CallsShaped
    <3>5. Waits(t, o) => Waits(t, o)'
      BY <1>1, <3>4, WaitsStep
    <3>6. Joining(t, o) => Joining(t, o)' \/ Waits(t, o)'
      BY <1>1, WaitsStep, LeavingStep
    <3>7. Waits(t, o)' => Waits(t, o) \/ Joining(t, o)
      BY <1>1, WaitsStep DEF Joining
    <3>8. Joining(t, o)' => Joining(t, o)
      BY <1>1, LeavingStep
    <3>9. QED
      BY <3>1, <3>3, <3>5, <3>6, <3>7, <3>8
  <2>3. QED
    BY <2>1, <2>2
<1>5. ASSUME NEW t \in Threads, wait_objects'[t] # <<>> PROVE status'[t] \in SyncStatus \/ Leaving(t)'
  <2>1. wait_objects'[t] = wait_objects[t]
    BY <1>5, WaitStep
  <2>2. status[t] \in SyncStatus \/ Leaving(t)
    BY <1>5, <2>1 DEF WaitInv, WaitersBlocked
  <2>3. Leaving(t) => Leaving(t)'
    BY <1>1, <1>5, LeavingStep
  <2>4. CASE status[t] \in SyncStatus /\ status'[t] # status[t]
    <3>1. f.fn \in {"Wakeup", "Resume", "Stop"} /\ f.thr = t
      BY <2>4, WaitStep
    <3>2. CASE f.fn = "Wakeup"
      BY <1>1, <1>5, <3>1, <3>2 DEF RunFrame, Wakeup, TypeOK
    <3>3. CASE f.fn = "Resume"
      BY <1>1, <1>5, <2>1, <3>1, <3>3 DEF RunFrame, Resume
    <3>4. CASE f.fn = "Stop"
      <4> DEFINE S == StopFrames(t, wait_objects[t])
      <4>1. todo' = S \o Tail(todo)
        BY <3>1, <3>4, FrameStep
      <4>2. S \in Seq(Frames) /\ Frame("ReleaseMutexes", t, Null) \in Range(S) /\ Tail(todo) \in Seq(Frames)
        BY <1>1, StopList, TodoParts DEF TypeOK
      <4> HIDE DEF S
      <4>3. Range(todo') = Range(S) \cup Range(Tail(todo))
        BY <4>1, <4>2, PushedRange
      <4>4. QED
        BY <4>2, <4>3 DEF Leaving
    <3>5. QED
      BY <3>1, <3>2, <3>3, <3>4
  <2>5. QED
    BY <2>2, <2>3, <2>4
<1>6. QED
  BY <1>2, <1>3, <1>4, <1>5 DEF WaitInv, ListsNamed, WaitersBlocked

(* Between handlers nobody joins or leaves a list. *)
LEMMA NobodyMoves ==
  ASSUME todo = <<>>, NEW t
  PROVE  ~Leaving(t) /\ \A o : ~Joining(t, o) /\ ~Parting(t, o)
BY DEF Leaving, Joining, Parting, Range

(* The thread that makes a call does not wait for anything. *)
LEMMA CallerFree ==
  ASSUME TypeOK, SchedulerInv, WaitInv, todo = <<>>, NEW t \in Threads, running \in Cores, current_thread[running] = t
  PROVE  wait_objects[t] = <<>> /\ status[t] \in {"Running", "Dead"}
<1>1. ~Rescheduling(running) /\ ~Leaving(t)
  BY NobodyMoves DEF Rescheduling, Range
<1>2. t # Null
  BY ObjectsAssumption DEF Objects
<1>3. status[t] \in {"Running", "Dead"}
  BY <1>1, <1>2 DEF SchedulerInv, CurrentsRun
<1>4. QED
  BY <1>1, <1>3 DEF WaitInv, WaitersBlocked, SyncStatus

(* Every SVC and event keeps lists and threads in step. *)
LEMMA HandlerWaits ==
  ASSUME TypeOK, SchedulerInv, WaitInv, RunLoop \/ \E t \in Threads : ThreadCall(t)
  PROVE  WaitInv'
<1>1. todo = <<>>
  BY HandlerStarts
<1>2. \A t \in Threads : ~Leaving(t) /\ \A o : ~Joining(t, o) /\ ~Parting(t, o)
  BY <1>1, NobodyMoves
<1>3. \A t \in Threads : (wait_objects[t] # <<>> => status[t] \in SyncStatus)
                         /\ \A o \in Objects : Waits(t, o) <=> o \in Range(wait_objects[t])
  BY <1>2 DEF WaitInv, ListsNamed, WaitersBlocked
<1>4. ASSUME WaitsAlone PROVE WaitInv'
  <2>1. \A t \in Threads : ~Leaving(t)' /\ \A o : ~Joining(t, o)' /\ ~Parting(t, o)'
    <3> SUFFICES ASSUME NEW t \in Threads
                 PROVE  ~Leaving(t)' /\ \A o : ~Joining(t, o)' /\ ~Parting(t, o)'
      OBVIOUS
    <3>1. \A g \in Range(todo') : g.fn \notin {"Wakeup", "ReleaseMutexes", "AddWaiting", "RemoveWaiting"}
      BY <1>4 DEF WaitsAlone, PlainCalls
    <3>2. QED
      BY <3>1, WaitFrames DEF Leaving, Joining, Parting
  <2>2. ListsInjective' /\ PendingListed' /\ ListsNamed'
    BY <1>3, <1>4, <2>1 DEF WaitInv, ListsInjective, PendingListed, ListsNamed, Waits, WaitsAlone
  <2>3. \A t \in Threads : wait_objects[t] # <<>> => status'[t] = status[t]
    <3>1. CASE \E x \in Threads : status[x] = "Unborn" /\ status' = [status EXCEPT ![x] = "Ready"]
      BY <1>3, <3>1 DEF SyncStatus, TypeOK
    <3>2. CASE \E x \in Threads : /\ running \in Cores /\ current_thread[running] = x
                                  /\ status' = [status EXCEPT ![x] = "WaitSleep"]
      BY <1>1, <3>2, CallerFree DEF TypeOK
    <3>3. QED
      BY <1>4, <3>1, <3>2 DEF WaitsAlone
  <2>4. WaitersBlocked'
    BY <1>3, <1>4, <2>3 DEF WaitersBlocked, WaitsAlone
  <2>5. QED
    BY <2>2, <2>4 DEF WaitInv
<1>5. ASSUME NEW t \in Threads, WaitTimesOut(t) PROVE WaitInv'
  <2> DEFINE W == WakeFrames(t, <<>>, wait_objects[t])
  <2>1. wait_objects[t] \in Seq(Objects) /\ <<>> \in Seq(Objects)
    BY DEF TypeOK
  <2>2. /\ todo' = W /\ \A g \in Range(W) : g.fn \in WakeCalls /\ g.thr = t
        /\ \A o \in Range(wait_objects[t]) : Frame("RemoveWaiting", t, o) \in Range(W)
        /\ Frame("Wakeup", t, Null) \in Range(W)
    BY <1>5, <2>1, WakeList DEF WaitTimesOut
  <2> HIDE DEF W
  <2>3. \A o \in Range(wait_objects[t]) : Parting(t, o)'
    BY <2>2 DEF Parting
  <2>4. Leaving(t)'
    BY <2>2 DEF Leaving
  <2>5. ASSUME NEW u \in Threads, u # t PROVE ~Leaving(u)' /\ \A o : ~Joining(u, o)'
    BY <2>2, <2>5, WaitFrames DEF Leaving, Joining, WakeCalls
  <2>6. UNCHANGED <<waiting_threads, pending_mutexes, wait_objects, status>>
    BY <1>5 DEF WaitTimesOut
  <2>7. ListsInjective' /\ PendingListed' /\ ListsNamed'
    BY <1>3, <2>3, <2>4, <2>5, <2>6 DEF WaitInv, ListsInjective, PendingListed, ListsNamed, Waits
  <2>8. WaitersBlocked'
    BY <1>3, <2>6 DEF WaitersBlocked
  <2>9. QED
    BY <2>7, <2>8 DEF WaitInv
<1>6. ASSUME NEW t \in Threads, NEW objs \in Seq(Objects), NEW st \in SyncStatus, WaitStarts(t, objs, st) PROVE WaitInv'
  <2>1. wait_objects[t] = <<>>
    BY <1>1, <1>6, CallerFree DEF WaitStarts
  <2>2. \A g \in Range(todo') : g.fn = "AddWaiting" /\ g.thr = t
    BY <1>6, ForEachFrames DEF WaitStarts
  <2>3. \A u \in Threads : ~Leaving(u)' /\ \A o : ~Parting(u, o)'
    BY <2>2, WaitFrames DEF Leaving, Parting
  <2>4. \A u \in Threads, o \in Objects : Joining(u, o)' <=> u = t /\ o \in Range(objs)
    <3>1. todo' = ForEach("AddWaiting", t, objs)
      BY <1>6 DEF WaitStarts
    <3>2. \A o : o \in Range(objs) <=> Frame("AddWaiting", t, o) \in Range(todo')
      BY <3>1, FrameOf DEF ForEach, Range
    <3>3. QED
      BY <2>2, <3>2, FrameOf DEF Joining
  <2>5. /\ \A u \in Threads : wait_objects'[u] = IF u = t THEN objs ELSE wait_objects[u]
        /\ \A u \in Threads : status'[u] = IF u = t THEN st ELSE status[u]
    BY <1>6 DEF WaitStarts, TypeOK
  <2>6. UNCHANGED <<waiting_threads, pending_mutexes>>
    BY <1>6 DEF WaitStarts
  <2>7. ListsInjective' /\ PendingListed'
    BY <2>6 DEF WaitInv, ListsInjective, PendingListed, Waits
  <2>8. \A o : ~Waits(t, o) \/ o \notin Objects
    BY <1>3, <2>1 DEF Range
  <2>9. ListsNamed'
    BY <1>3, <2>3, <2>4, <2>5, <2>6, <2>8 DEF ListsNamed, Waits
  <2>10. WaitersBlocked'
    BY <1>3, <2>5 DEF WaitersBlocked
  <2>11. QED
    BY <2>7, <2>9, <2>10 DEF WaitInv
<1>7. CASE RunLoop
  BY <1>4, <1>5, <1>7, LoopWaits
<1>8. CASE \E t \in Threads : ThreadCall(t)
  BY <1>4, <1>6, <1>8, CallWaits
<1>9. QED
  BY <1>7, <1>8

(* At the start nobody waits. *)
LEMMA InitWaits == Init => WaitInv
<1> SUFFICES ASSUME Init PROVE WaitInv
  OBVIOUS
<1>1. Range(<<>>) = {} /\ IsInjective(<<>>)
  BY DEF Range, IsInjective
<1>2. \A t \in Threads, o \in Objects : /\ waiting_threads[o] = <<>> /\ wait_objects[t] = <<>>
                                       /\ pending_mutexes[t] = {} /\ ~Waits(t, o)
  BY <1>1 DEF Init, Waits
<1>3. \A t \in Threads : ~Leaving(t) /\ \A o : ~Joining(t, o) /\ ~Parting(t, o)
  BY NobodyMoves DEF Init
<1>4. \A m \in Mutexes : m \in Objects
  BY DEF Objects
<1>5. ListsInjective
  BY <1>1, ObjectsAssumption DEF Init, ListsInjective
<1>6. PendingListed /\ ListsNamed
  BY <1>1, <1>2, <1>3, <1>4 DEF PendingListed, ListsNamed
<1>7. WaitersBlocked
  BY DEF Init, WaitersBlocked
<1>8. QED
  BY <1>5, <1>6, <1>7 DEF WaitInv

(* Every step keeps lists and threads in step. *)
LEMMA WaitsStepAll ==
  ASSUME TypeOK, SchedulerInv, WaitInv, [Next]_vars
  PROVE  WaitInv'
<1>1. CASE RunFrame
  BY <1>1, FrameWaits
<1>2. CASE RunLoop \/ \E t \in Threads : ThreadCall(t)
  BY <1>2, HandlerWaits
<1>3. CASE UNCHANGED vars
  <2>1. UNCHANGED <<waiting_threads, pending_mutexes, wait_objects, status, todo>>
    BY <1>3 DEF vars, wait_vars
  <2>2. QED
    BY <2>1 DEF WaitInv, ListsInjective, PendingListed, ListsNamed, WaitersBlocked, Waits, Joining, Parting, Leaving
<1>4. QED
  BY <1>1, <1>2, <1>3 DEF Next

(* Between handlers WaitInv is what the run checks. *)
LEMMA WaitsAgree == TypeOK /\ WaitInv => WaitListsAgree
<1> SUFFICES ASSUME TypeOK, WaitInv, todo = <<>>, NEW t \in Threads
             PROVE  /\ \A o \in Objects : t \in Range(waiting_threads[o]) <=> o \in Range(wait_objects[t])
                    /\ pending_mutexes[t] = Range(wait_objects[t]) \cap Mutexes
                    /\ wait_objects[t] # <<>> => status[t] \in SyncStatus
  BY DEF WaitListsAgree
<1>1. ~Leaving(t) /\ \A o : ~Joining(t, o) /\ ~Parting(t, o)
  BY NobodyMoves
<1>2. \A o \in Objects : t \in Range(waiting_threads[o]) <=> o \in Range(wait_objects[t])
  BY <1>1 DEF WaitInv, ListsNamed, Waits
<1>3. \A m \in Mutexes : m \in pending_mutexes[t] <=> m \in Range(wait_objects[t])
  BY <1>2 DEF WaitInv, PendingListed, Waits, Objects
<1>4. pending_mutexes[t] \subseteq Mutexes
  BY DEF TypeOK
<1>5. QED
  BY <1>1, <1>2, <1>3, <1>4 DEF WaitInv, WaitersBlocked

(* WaitSynchronization, WakeupAllWaitingThreads, Thread::Stop: between handlers the list of every object and  *)
(* the wait_objects of every thread name each other, pending_mutexes follows, and only a blocked thread is    *)
(* in a list, whoever waits for how many objects, times out, is woken or is stopped by whom.                  *)
THEOREM WaitListsAlwaysAgree == Spec => []WaitListsAgree
<1>1. Init => SchedulerInv /\ WaitInv
  BY SchedulerInit, InitWaits
<1>2. TypeOK /\ TypeOK' /\ SchedulerInv /\ WaitInv /\ [Next]_vars => (SchedulerInv /\ WaitInv)'
  BY SchedulerStep, WaitsStepAll
<1>3. QED
  BY <1>1, <1>2, WaitsAgree, TypeCorrect, PTL DEF Spec

-----------------------------------------------------------------------------
(* Nobody sleeps on what is available *)

Waking(o) == Frame("Wake", Null, o) \in Range(todo)
Unavailable(o, t) == ShouldWait(o, t) \/ Waking(o)

\* A step that makes an object available goes on to wake who waits for it
WakesWaiters == \A o \in Objects, t \in Threads : ShouldWait(o, t) => ShouldWait(o, t)' \/ Waking(o)'

(* A step that frees no mutex, raises no count, sets no signal and stops no thread makes nothing available. *)
LEMMA NothingFreed ==
  ASSUME UNCHANGED <<lock_count, holding_thread>>,
         \A s \in Semaphores : available_count'[s] > 0 => available_count[s] > 0,
         \A e \in Signals : signaled'[e] => signaled[e],
         \A t \in Threads : status'[t] = "Dead" => status[t] = "Dead",
         TypeOK, TypeOK'
  PROVE  WakesWaiters
<1> SUFFICES ASSUME NEW o \in Objects, NEW t \in Threads, ShouldWait(o, t) PROVE ShouldWait(o, t)'
  BY DEF WakesWaiters
<1>1. CASE o \in Mutexes /\ MutexShouldWait(o, t)
  BY <1>1 DEF ShouldWait, MutexShouldWait
<1>2. CASE o \in Semaphores /\ available_count[o] <= 0
  <2>1. available_count[o] \in Int /\ available_count'[o] \in Int
    BY <1>2 DEF TypeOK
  <2>2. available_count'[o] <= 0
    BY <1>2, <2>1
  <2>3. QED
    BY <1>2, <2>2 DEF ShouldWait
<1>3. CASE o \in Signals /\ ~signaled[o]
  BY <1>3 DEF ShouldWait
<1>4. CASE o \in Threads /\ status[o] # "Dead"
  BY <1>4 DEF ShouldWait
<1>5. QED
  BY <1>1, <1>2, <1>3, <1>4 DEF ShouldWait

(* A step that makes one object available, and wakes for it, makes nothing else available. *)
LEMMA OneFreed ==
  ASSUME NEW x \in Objects, Waking(x)',
         \A m \in Mutexes : m # x => lock_count'[m] = lock_count[m] /\ holding_thread'[m] = holding_thread[m],
         \A s \in Semaphores : s # x => available_count'[s] = available_count[s],
         \A e \in Signals : e # x => signaled'[e] = signaled[e],
         \A t \in Threads : t # x => status'[t] = status[t]
  PROVE  WakesWaiters
BY DEF WakesWaiters, ShouldWait, MutexShouldWait

(* Every call either makes nothing available or wakes who waits for what it frees. *)
LEMMA FrameWakes ==
  ASSUME TypeOK, TypeOK', SchedulerInv, RunFrame
  PROVE  WakesWaiters
<1> DEFINE f == Head(todo)
<1> USE DEF thread_vars, prio_vars, mutex_vars, wait_vars, signal_vars, event_vars, loop_vars, core_vars
<1>1. /\ todo # <<>> /\ f \in Frames /\ Tail(todo) \in Seq(Frames) /\ todo \in Seq(Frames)
      /\ f.fn \in {"Acquire", "AddWaiting", "RemoveWaiting", "Wake", "Wakeup", "Resume", "Stop",
                   "ReleaseMutexes", "Rearm", "UpdatePriority", "TerminateThreads", "Reschedule"}
  BY TodoParts, FrameFields DEF RunFrame
<1>2. CASE f.fn = "Acquire"
  <2>1. f.thr \in Threads /\ f.obj \in Objects /\ Acquire(f.thr, f.obj)
    BY <1>1, <1>2, FrameArguments DEF RunFrame
  <2>2. status' = status
    BY <2>1 DEF Acquire
  <2>3. CASE f.obj \in Mutexes /\ AcquireMutex(f.obj, f.thr)
    <3>1. UNCHANGED signal_vars
      BY <2>3 DEF AcquireMutex
    <3>2. ASSUME NEW m \in Mutexes, NEW t \in Threads, MutexShouldWait(m, t) PROVE MutexShouldWait(m, t)'
      <4>1. lock_count[m] \in Nat /\ lock_count[m] > 0 /\ holding_thread[m] # t
        BY <3>2 DEF TypeOK, MutexShouldWait
      <4>2. lock_count'[m] = IF m = f.obj THEN lock_count[m] + 1 ELSE lock_count[m]
        BY <2>3 DEF AcquireMutex, TypeOK
      <4>3. holding_thread'[m] = holding_thread[m]
        <5>1. CASE lock_count[f.obj] = 0
          <6>1. m # f.obj
            BY <4>1, <5>1
          <6>2. QED
            BY <2>3, <5>1, <6>1 DEF AcquireMutex, TypeOK
        <5>2. CASE lock_count[f.obj] # 0
          BY <2>3, <5>2 DEF AcquireMutex
        <5>3. QED
          BY <5>1, <5>2
      <4>4. lock_count'[m] > 0
        BY <4>1, <4>2
      <4>5. QED
        BY <4>1, <4>3, <4>4 DEF MutexShouldWait
    <3>3. QED
      BY <2>2, <3>1, <3>2 DEF WakesWaiters, ShouldWait
  <2>4. CASE f.obj \in Semaphores /\ AcquireSemaphore(f.obj)
    <3>1. UNCHANGED <<mutex_vars, signaled>>
      BY <2>4 DEF AcquireSemaphore
    <3>2. ASSUME NEW s \in Semaphores, available_count'[s] > 0 PROVE available_count[s] > 0
      <4>1. available_count[s] \in Int
        BY DEF TypeOK
      <4>2. available_count'[s] = IF s = f.obj THEN (IF available_count[s] <= 0 THEN available_count[s] ELSE available_count[s] - 1)
                                  ELSE available_count[s]
        BY <2>4 DEF AcquireSemaphore, TypeOK
      <4>3. QED
        BY <3>2, <4>1, <4>2
    <3>3. QED
      BY <2>2, <3>1, <3>2, NothingFreed
  <2>5. CASE f.obj \in Signals /\ AcquireSignal(f.obj)
    <3>1. UNCHANGED <<mutex_vars, available_count>>
      BY <2>5 DEF AcquireSignal
    <3>2. ASSUME NEW e \in Signals, signaled'[e] PROVE signaled[e]
      BY <2>5, <3>2 DEF AcquireSignal, TypeOK
    <3>3. QED
      BY <2>2, <3>1, <3>2, NothingFreed
  <2>6. CASE f.obj \in Threads /\ AcquireThread(f.obj)
    BY <2>2, <2>6, NothingFreed DEF AcquireThread
  <2>7. QED
    BY <2>1, <2>3, <2>4, <2>5, <2>6 DEF Acquire
<1>3. CASE f.fn = "Wake"
  <2>1. WakeupAllWaitingThreads(f.obj)
    BY <1>3 DEF RunFrame
  <2>2. UNCHANGED <<mutex_vars, available_count, status>>
    BY <2>1 DEF WakeupAllWaitingThreads
  <2>3. \A e \in Signals : signaled'[e] => signaled[e]
    BY <2>1 DEF WakeupAllWaitingThreads, WakeOne, WakeEnd
  <2>4. QED
    BY <2>2, <2>3, NothingFreed
<1>4. CASE f.fn = "Stop"
  <2>1. PICK x \in Threads : x = f.thr
    BY <1>1, <1>4, FrameArguments
  <2>2. Stop(x) /\ wait_objects[x] \in Seq(Objects) /\ x \in Objects
    BY <1>1, <1>4, <2>1 DEF RunFrame, TypeOK, Objects
  <2> DEFINE S == StopFrames(x, wait_objects[x])
  <2>3. todo' = S \o Tail(todo)
    BY <1>4, <2>1, FrameStep
  <2>4. S \in Seq(Frames) /\ Frame("Wake", Null, x) \in Range(S)
    BY <2>2, StopList
  <2> HIDE DEF S
  <2>5. Waking(x)'
    BY <1>1, <2>3, <2>4, PushedRange DEF Waking
  <2>6. \A t \in Threads : t # x => status'[t] = status[t]
    BY <2>2 DEF Stop
  <2>7. UNCHANGED <<mutex_vars, signal_vars>>
    BY <2>2 DEF Stop
  <2>8. QED
    BY <2>2, <2>5, <2>6, <2>7, OneFreed
<1>5. CASE f.fn = "ReleaseMutexes"
  <2>1. f.thr \in Threads /\ ReleaseThreadMutexes(f.thr)
    BY <1>1, <1>5, FrameArguments DEF RunFrame
  <2>2. UNCHANGED <<status, signal_vars>>
    BY <2>1 DEF ReleaseThreadMutexes
  <2>3. CASE UNCHANGED <<lock_count, holding_thread>>
    BY <2>2, <2>3, NothingFreed
  <2>4. CASE ~UNCHANGED <<lock_count, holding_thread>>
    <3>1. PICK m \in held_mutexes[f.thr] :
            /\ lock_count' = [lock_count EXCEPT ![m] = 0] /\ holding_thread' = [holding_thread EXCEPT ![m] = Null]
            /\ CallAgain(<<Frame("Wake", Null, m)>>)
      BY <2>1, <2>4 DEF ReleaseThreadMutexes
    <3>2. m \in Mutexes /\ m \in Objects
      BY <2>1 DEF TypeOK, Objects
    <3>3. <<Frame("Wake", Null, m)>> \in Seq(Frames) /\ Range(<<Frame("Wake", Null, m)>>) = {Frame("Wake", Null, m)}
      BY <3>2, FrameType, RangeSingle
    <3>4. Waking(m)'
      BY <1>1, <3>1, <3>3, PushedRange DEF Waking, CallAgain
    <3>5. \A x \in Mutexes : x # m => lock_count'[x] = lock_count[x] /\ holding_thread'[x] = holding_thread[x]
      BY <3>1
    <3>6. QED
      BY <2>2, <3>2, <3>4, <3>5, OneFreed
  <2>5. QED
    BY <2>3, <2>4
<1>6. CASE f.fn = "Reschedule"
  <2>1. f.obj \in Cores /\ Reschedule(f.obj)
    BY <1>1, <1>6, FrameArguments DEF RunFrame
  <2>2. UNCHANGED <<mutex_vars, signal_vars>>
    BY <2>1 DEF Reschedule
  <2>3. \A t \in Threads : status'[t] = "Dead" => status[t] = "Dead"
    <3>1. \A t \in Threads : \/ status'[t] = status[t] \/ status'[t] = "Running" \/ status'[t] = "Ready"
      BY <2>1, RescheduleEffect
    <3>2. QED
      BY <3>1
  <2>4. QED
    BY <2>2, <2>3, NothingFreed
<1>7. CASE f.fn \in {"Wakeup", "Resume"}
  <2>1. UNCHANGED <<mutex_vars, signal_vars>>
    BY <1>7 DEF RunFrame, Wakeup, Resume
  <2>2. status' = status \/ status' = [status EXCEPT ![f.thr] = "Ready"]
    BY <1>7 DEF RunFrame, Wakeup, Resume, ResumeFromWait
  <2>3. \A t \in Threads : status'[t] = "Dead" => status[t] = "Dead"
    BY <2>2 DEF TypeOK
  <2>4. QED
    BY <2>1, <2>3, NothingFreed
<1>8. CASE f.fn \in {"AddWaiting", "RemoveWaiting", "Rearm", "UpdatePriority", "TerminateThreads"}
  <2>1. UNCHANGED <<status, mutex_vars, signal_vars>>
    BY <1>8 DEF RunFrame, AddWaitingThread, RemoveWaitingThread, Rearm, UpdatePendingMutex, TerminateProcessThreads
  <2>2. QED
    BY <2>1, NothingFreed
<1>9. QED
  BY <1>1, <1>2, <1>3, <1>4, <1>5, <1>6, <1>7, <1>8

(* So does every event and every step of the run loop. *)
LEMMA LoopWakes ==
  ASSUME TypeOK, TypeOK', RunLoop
  PROVE  WakesWaiters
<1> USE DEF thread_vars, prio_vars, mutex_vars, wait_vars, signal_vars, event_vars, loop_vars, core_vars
<1>1. ASSUME NEW e \in Signals, signaled' = [signaled EXCEPT ![e] = TRUE], Waking(e)',
             UNCHANGED <<status, mutex_vars, available_count>>
      PROVE  WakesWaiters
  <2>1. e \in Objects /\ \A x \in Signals : x # e => signaled'[x] = signaled[x]
    BY <1>1 DEF Objects
  <2>2. QED
    BY <1>1, <2>1, OneFreed
<1>2. CASE StartIteration \/ StartSlice \/ EndSlice \/ AdvanceDone \/ RescheduleAll
  <2>1. UNCHANGED <<status, mutex_vars, signal_vars>>
    BY <1>2 DEF StartIteration, StartSlice, EndSlice, AdvanceDone, RescheduleAll
  <2>2. QED
    BY <2>1, NothingFreed
<1>3. ASSUME NEW t \in Threads, ThreadWakeupCallback(t) PROVE WakesWaiters
  <2>1. UNCHANGED <<status, mutex_vars, signal_vars>>
    BY <1>3 DEF ThreadWakeupCallback
  <2>2. QED
    BY <2>1, NothingFreed
<1>4. ASSUME NEW tm \in Timers, TimerCallback(tm) PROVE WakesWaiters
  <2>1. Frame("Wake", Null, tm) \in Range(TimerFrames(tm))
    BY DEF TimerFrames, Range
  <2>2. Waking(tm)'
    BY <1>4, <2>1 DEF TimerCallback, Waking
  <2>3. QED
    BY <1>1, <1>4, <2>2 DEF TimerCallback, Signals
<1>5. ASSUME NEW e \in Events, ServiceSignal(e) PROVE WakesWaiters
  <2>1. Waking(e)'
    BY <1>5, RangeSingle DEF ServiceSignal, EventSignal, Waking
  <2>2. QED
    BY <1>1, <1>5, <2>1 DEF ServiceSignal, EventSignal, Signals
<1>6. QED
  BY <1>2, <1>3, <1>4, <1>5 DEF RunLoop

(* And every SVC. *)
LEMMA CallWakes ==
  ASSUME TypeOK, TypeOK', NEW t \in Threads, ThreadCall(t)
  PROVE  WakesWaiters
<1> USE DEF thread_vars, prio_vars, mutex_vars, wait_vars, signal_vars, event_vars, loop_vars, core_vars
<1>1. ASSUME NEW e \in Signals, signaled' = [signaled EXCEPT ![e] = TRUE], Waking(e)',
             UNCHANGED <<status, mutex_vars, available_count>>
      PROVE  WakesWaiters
  <2>1. e \in Objects /\ \A x \in Signals : x # e => signaled'[x] = signaled[x]
    BY <1>1 DEF Objects
  <2>2. QED
    BY <1>1, <2>1, OneFreed
<1>2. ASSUME UNCHANGED <<mutex_vars, signal_vars>>,
             \/ status' = status
             \/ \E x \in Threads, st \in ThreadStatus : st # "Dead" /\ status' = [status EXCEPT ![x] = st]
      PROVE  WakesWaiters
  <2>1. \A u \in Threads : status'[u] = "Dead" => status[u] = "Dead"
    BY <1>2 DEF TypeOK
  <2>2. QED
    BY <1>2, <2>1, NothingFreed
<1>3. ASSUME NEW x \in Threads, CreateThread(t, x) PROVE WakesWaiters
  BY <1>2, <1>3 DEF CreateThread, ThreadStatus
<1>4. ASSUME \/ ExitThread(t)
             \/ \E p \in Threads : TerminateProcess(t, p)
             \/ \E x \in Threads, p \in SetPriorities : SetThreadPriority(t, x, p)
             \/ \E tm \in Timers : CancelTimer(t, tm)
      PROVE  WakesWaiters
  <2>1. UNCHANGED <<status, mutex_vars, signal_vars>>
    BY <1>4 DEF ExitThread, TerminateProcess, SetThreadPriority, CancelTimer
  <2>2. QED
    BY <1>2, <2>1
<1>5. ASSUME NEW objs, NEW st \in SyncStatus, NEW ns, WaitUnchanged, AcquireNow(t, objs) \/ TimeoutNow \/ Suspend(t, objs, st, ns)
      PROVE  WakesWaiters
  <2>1. UNCHANGED <<mutex_vars, signal_vars>>
    BY <1>5 DEF WaitUnchanged
  <2>2. status' = status \/ status' = [status EXCEPT ![t] = st]
    BY <1>5 DEF AcquireNow, TimeoutNow, Suspend
  <2>3. st \in ThreadStatus /\ st # "Dead"
    BY DEF SyncStatus, ThreadStatus, BlockedStatus
  <2>4. QED
    BY <1>2, <2>1, <2>2, <2>3
<1>6. ASSUME NEW o \in Waitable(t), NEW ns \in Delays, WaitSynchronization1(t, o, ns) PROVE WakesWaiters
  BY <1>5, <1>6 DEF WaitSynchronization1, SyncStatus
<1>7. ASSUME NEW objs \in WaitLists, NEW all \in BOOLEAN, NEW ns \in Delays, WaitSynchronizationN(t, objs, all, ns)
      PROVE  WakesWaiters
  <2> DEFINE st == IF all THEN "WaitSynchAll" ELSE "WaitSynchAny"
  <2>1. st \in SyncStatus
    BY DEF SyncStatus
  <2>2. WaitUnchanged /\ \E q : AcquireNow(t, q) \/ TimeoutNow \/ Suspend(t, q, st, ns)
    BY <1>7 DEF WaitSynchronizationN
  <2> HIDE DEF st
  <2>3. QED
    BY <1>5, <2>1, <2>2
<1>8. ASSUME NEW ns \in Delays, SleepThread(t, ns) PROVE WakesWaiters
  BY <1>2, <1>8 DEF SleepThread, ThreadStatus, BlockedStatus
<1>9. ASSUME NEW m \in Mutexes, ReleaseMutex(t, m) PROVE WakesWaiters
  <2>1. UNCHANGED <<status, signal_vars>> /\ lock_count' = [lock_count EXCEPT ![m] = @ - 1]
    BY <1>9 DEF ReleaseMutex
  <2>2. CASE lock_count[m] = 1
    <3>1. Waking(m)' /\ m \in Objects
      BY <1>9, <2>2, RangeSingle DEF ReleaseMutex, Waking, Objects
    <3>2. holding_thread' = [holding_thread EXCEPT ![m] = Null]
      BY <1>9, <2>2 DEF ReleaseMutex
    <3>3. \A x \in Mutexes : x # m => lock_count'[x] = lock_count[x] /\ holding_thread'[x] = holding_thread[x]
      BY <2>1, <3>2
    <3>4. QED
      BY <2>1, <3>1, <3>3, OneFreed
  <2>3. CASE lock_count[m] # 1
    <3>1. holding_thread' = holding_thread /\ lock_count[m] > 0 /\ lock_count[m] \in Nat
      BY <1>9, <2>3 DEF ReleaseMutex, TypeOK
    <3>2. \A x \in Mutexes : lock_count'[x] = IF x = m THEN lock_count[m] - 1 ELSE lock_count[x]
      BY <2>1 DEF TypeOK
    <3>3. lock_count[m] - 1 > 0
      BY <2>3, <3>1
    <3>4. \A x \in Mutexes, u \in Threads : MutexShouldWait(x, u) => MutexShouldWait(x, u)'
      BY <3>1, <3>2, <3>3 DEF MutexShouldWait
    <3>5. QED
      BY <2>1, <3>4 DEF WakesWaiters, ShouldWait
  <2>4. QED
    BY <2>2, <2>3
<1>10. ASSUME NEW s \in Semaphores, NEW n \in ReleaseCounts, ReleaseSemaphore(t, s, n) PROVE WakesWaiters
  <2>1. Waking(s)' /\ s \in Objects
    BY <1>10, RangeSingle DEF ReleaseSemaphore, Waking, Objects
  <2>2. /\ UNCHANGED <<status, mutex_vars, signaled>>
        /\ \A x \in Semaphores : x # s => available_count'[x] = available_count[x]
    BY <1>10 DEF ReleaseSemaphore
  <2>3. QED
    BY <2>1, <2>2, OneFreed
<1>11. ASSUME NEW e \in Events, SignalEvent(t, e) PROVE WakesWaiters
  <2>1. Waking(e)'
    BY <1>11, RangeSingle DEF SignalEvent, EventSignal, Waking
  <2>2. QED
    BY <1>1, <1>11, <2>1 DEF SignalEvent, EventSignal, Signals
<1>12. ASSUME NEW e \in Signals, ClearSignal(t, e) PROVE WakesWaiters
  <2>1. UNCHANGED <<status, mutex_vars, available_count>> /\ \A x \in Signals : signaled'[x] => signaled[x]
    BY <1>12 DEF ClearSignal, TypeOK
  <2>2. QED
    BY <2>1, NothingFreed
<1>13. ASSUME NEW tm \in Timers, NEW initial \in BOOLEAN, NEW interval \in BOOLEAN, SetTimer(t, tm, initial, interval)
       PROVE  WakesWaiters
  <2>1. UNCHANGED <<status, mutex_vars, available_count>>
    BY <1>13 DEF SetTimer
  <2>2. CASE initial
    BY <1>13, <2>1, <2>2, NothingFreed DEF SetTimer
  <2>3. CASE ~initial
    <3>1. Frame("Wake", Null, tm) \in Range(TimerFrames(tm))
      BY DEF TimerFrames, Range
    <3>2. Waking(tm)' /\ signaled' = [signaled EXCEPT ![tm] = TRUE]
      BY <1>13, <2>3, <3>1 DEF SetTimer, Waking
    <3>3. QED
      BY <1>1, <2>1, <3>2 DEF Signals
  <2>4. QED
    BY <2>2, <2>3
<1>14. QED
  BY <1>3, <1>4, <1>6, <1>7, <1>8, <1>9, <1>10, <1>11, <1>12, <1>13 DEF ThreadCall

\* A thread that waits and is not being woken misses what it waits for, or the object is about to wake it
LostInv ==
  \A t \in Threads :
    ~Leaving(t) =>
      /\ status[t] = "WaitSynchAny" => \A o \in Range(wait_objects[t]) : Unavailable(o, t)
      /\ status[t] = "WaitSynchAll" /\ wait_objects[t] # <<>> => \E o \in Range(wait_objects[t]) : Unavailable(o, t)

(* The end of WakeupAllWaitingThreads: the object has nobody left to wake. *)
LEMMA WakeEnds ==
  ASSUME TypeOK, SchedulerInv, WaitInv, LostInv, RunFrame, NEW o \in Objects, Head(todo) = Frame("Wake", Null, o),
         todo' = Tail(todo), NEW t \in Threads, ~Leaving(t), status[t] \in SyncStatus, o \in Range(wait_objects[t])
  PROVE  \/ ShouldWait(o, t)
         \/ status[t] = "WaitSynchAll" /\ \E x \in Range(wait_objects[t]) : ShouldWait(x, t)
<1>1. Head(todo).fn = "Wake" /\ Head(todo).obj = o
  BY FrameOf
<1>2. WakeupAllWaitingThreads(o)
  BY <1>1 DEF RunFrame
<1>3. todo # <<>> /\ todo \in Seq(Frames) /\ Len(Tail(todo)) # Len(todo)
  BY TodoParts DEF RunFrame
<1>4. Candidates(o) = {}
  <2>1. ASSUME NEW i \in Candidates(o), WakeOne(o, waiting_threads[o][i]) PROVE FALSE
    <3>1. waiting_threads[o][i] \in Threads
      BY DEF Candidates, TypeOK
    <3>2. PICK x \in Threads : x = waiting_threads[o][i]
      BY <3>1
    <3> DEFINE granted == IF status[x] = "WaitSynchAll" THEN wait_objects[x] ELSE <<o>>
               W == WakeFrames(x, granted, wait_objects[x])
    <3>3. todo' = W \o todo
      BY <2>1, <3>2 DEF WakeOne, CallAgain, WakeFrames
    <3>4. W \in Seq(Frames)
      <4>1. wait_objects[x] \in Seq(Objects) /\ granted \in Seq(Objects)
        BY DEF TypeOK
      <4> HIDE DEF granted
      <4>2. QED
        BY <4>1, WakeList
    <3> HIDE DEF W
    <3>5. Len(todo') = Len(W) + Len(todo) /\ Len(W) \in Nat /\ Len(todo) \in Nat \ {0} /\ Len(Tail(todo)) = Len(todo) - 1
      BY <1>3, <3>3, <3>4
    <3>6. QED
      BY <3>5
  <2>2. QED
    BY <1>2, <2>1 DEF WakeupAllWaitingThreads
<1>5. ~Joining(t, o)
  <2>1. Frame("AddWaiting", t, o) \notin Range(Tail(todo))
    BY <1>1, <1>3, TailBelow, WaitFrames DEF Below, SchedulerInv
  <2>2. QED
    BY <1>1, <1>3, <2>1, TodoParts, WaitFrames DEF Joining
<1>6. Waits(t, o)
  BY <1>5 DEF WaitInv, ListsNamed
<1>7. PICK i \in DOMAIN waiting_threads[o] : waiting_threads[o][i] = t
  BY <1>6 DEF Waits, Range
<1>8. ShouldWait(o, t) \/ ~ReadyToRun(t)
  BY <1>4, <1>7 DEF Candidates
<1>9. QED
  BY <1>8 DEF ReadyToRun, Range

(* Every call keeps the waiting threads on what is unavailable. *)
LEMMA FrameLost ==
  ASSUME TypeOK, TypeOK', SchedulerInv, WaitInv, LostInv, RunFrame
  PROVE  LostInv'
<1> DEFINE f == Head(todo)
<1>1. /\ todo # <<>> /\ f \in Frames /\ f \in Range(todo) /\ Range(todo) = {f} \cup Range(Tail(todo))
      /\ CallsShaped /\ Range(Tail(todo)) \subseteq Range(todo')
  BY TodoParts, TailKept DEF RunFrame, SchedulerInv
<1>2. WakesWaiters
  BY FrameWakes
<1>3. \A t \in Threads : Range(wait_objects[t]) \subseteq Objects
  BY DEF TypeOK, Range
<1> SUFFICES ASSUME NEW t \in Threads, ~Leaving(t)', status'[t] \in SyncStatus
             PROVE  /\ status'[t] = "WaitSynchAny" => \A o \in Range(wait_objects'[t]) : Unavailable(o, t)'
                    /\ status'[t] = "WaitSynchAll" /\ wait_objects'[t] # <<>> =>
                         \E o \in Range(wait_objects'[t]) : Unavailable(o, t)'
  BY DEF LostInv, SyncStatus
<1>4. status'[t] = status[t]
  BY WaitStep
<1>5. ~Leaving(t)
  <2>1. ASSUME Leaving(t) PROVE FALSE
    <3>1. f.fn \in {"Wakeup", "ReleaseMutexes"} /\ f.thr = t
      BY <1>1, <2>1, LeavingStep
    <3>2. CASE f.fn = "Wakeup"
      BY <1>1, <3>1, <3>2, ZenonT(30) DEF RunFrame, Wakeup, ResumeFromWait, BlockedStatus, SyncStatus, TypeOK
    <3>3. CASE f.fn = "ReleaseMutexes"
      <4>1. f = Frame("ReleaseMutexes", t, Null)
        BY <1>1, <3>1, <3>3, FrameFields
      <4>2. status[t] = "Dead"
        BY <1>1, <4>1 DEF CallsShaped
      <4>3. QED
        BY <1>4, <4>2 DEF SyncStatus
    <3>4. QED
      BY <3>1, <3>2, <3>3
  <2>2. QED
    BY <2>1
<1>6. wait_objects'[t] = wait_objects[t]
  <2>1. ~(f.fn \in {"Wakeup", "ReleaseMutexes"} /\ f.thr = t)
    BY <1>1, <1>5, FrameFields DEF Leaving
  <2>2. QED
    BY <2>1, WaitStep
<1>7. ASSUME NEW o \in Range(wait_objects[t]), Unavailable(o, t)
      PROVE  Unavailable(o, t)' \/ (f = Frame("Wake", Null, o) /\ todo' = Tail(todo))
  <2>1. CASE ShouldWait(o, t)
    BY <1>2, <1>3, <2>1 DEF WakesWaiters, Unavailable
  <2>2. CASE Waking(o)
    <3>1. CASE f = Frame("Wake", Null, o)
      <4>1. f.fn = "Wake"
        BY <3>1, FrameOf
      <4>2. CASE todo' = Tail(todo)
        BY <3>1, <4>2
      <4>3. CASE todo' # Tail(todo)
        <5>1. PICK x \in Threads, granted \in Seq(Objects) : todo' = WakeFrames(x, granted, wait_objects[x]) \o todo
          BY <4>1, <4>3, FrameStep
        <5>2. WakeFrames(x, granted, wait_objects[x]) \in Seq(Frames) /\ todo \in Seq(Frames)
          BY WakeList DEF TypeOK
        <5>3. Range(todo) \subseteq Range(todo')
          BY <5>1, <5>2, PushedRange, SMTT(30)
        <5>4. QED
          BY <2>2, <5>3 DEF Waking, Unavailable
      <4>4. QED
        BY <4>2, <4>3
    <3>2. CASE f # Frame("Wake", Null, o)
      BY <1>1, <2>2, <3>2 DEF Waking, Unavailable
    <3>3. QED
      BY <3>1, <3>2
  <2>3. QED
    BY <1>7, <2>1, <2>2 DEF Unavailable
<1>8. ASSUME NEW o \in Range(wait_objects[t]), ShouldWait(o, t) PROVE Unavailable(o, t)'
  BY <1>2, <1>3, <1>8 DEF WakesWaiters, Unavailable
<1>9. ASSUME NEW o \in Range(wait_objects[t]), f = Frame("Wake", Null, o), todo' = Tail(todo)
      PROVE  \/ ShouldWait(o, t)
             \/ status[t] = "WaitSynchAll" /\ \E x \in Range(wait_objects[t]) : ShouldWait(x, t)
  BY <1>3, <1>4, <1>5, <1>9, WakeEnds
<1>10. CASE status[t] = "WaitSynchAny"
  <2>1. \A o \in Range(wait_objects[t]) : Unavailable(o, t)
    BY <1>5, <1>10 DEF LostInv
  <2>2. \A o \in Range(wait_objects[t]) : Unavailable(o, t)'
    BY <1>7, <1>8, <1>9, <1>10, <2>1
  <2>3. QED
    BY <1>4, <1>6, <1>10, <2>2
<1>11. CASE status[t] = "WaitSynchAll" /\ wait_objects[t] # <<>>
  <2>1. PICK o \in Range(wait_objects[t]) : Unavailable(o, t)
    BY <1>5, <1>11 DEF LostInv
  <2>2. \E x \in Range(wait_objects[t]) : Unavailable(x, t)'
    BY <1>7, <1>8, <1>9, <2>1
  <2>3. QED
    BY <1>4, <1>6, <1>11, <2>2
<1>12. QED
  BY <1>4, <1>6, <1>10, <1>11 DEF SyncStatus

(* Every SVC and event does. *)
LEMMA HandlerLost ==
  ASSUME TypeOK, TypeOK', SchedulerInv, WaitInv, LostInv, RunLoop \/ \E t \in Threads : ThreadCall(t)
  PROVE  LostInv'
<1>1. todo = <<>>
  BY HandlerStarts
<1>2. WakesWaiters
  BY LoopWakes, CallWakes
<1>3. \A t \in Threads : Range(wait_objects[t]) \subseteq Objects
  BY DEF TypeOK, Range
<1>4. \A t \in Threads : \A o : ~Leaving(t) /\ ~Waking(o)
  BY <1>1, NobodyMoves DEF Waking, Range
<1>5. ASSUME NEW t \in Threads, wait_objects'[t] = wait_objects[t], status'[t] = status[t]
      PROVE  /\ status'[t] = "WaitSynchAny" => \A o \in Range(wait_objects'[t]) : Unavailable(o, t)'
             /\ status'[t] = "WaitSynchAll" /\ wait_objects'[t] # <<>> =>
                  \E o \in Range(wait_objects'[t]) : Unavailable(o, t)'
  <2>1. \A o \in Range(wait_objects[t]) : Unavailable(o, t) => Unavailable(o, t)'
    BY <1>2, <1>3, <1>4 DEF WakesWaiters, Unavailable
  <2>2. QED
    BY <1>4, <1>5, <2>1 DEF LostInv
<1>6. ASSUME WaitsAlone PROVE LostInv'
  <2>1. \A t \in Threads : wait_objects'[t] = wait_objects[t] /\ (status'[t] \in SyncStatus => status'[t] = status[t])
    BY <1>6 DEF WaitsAlone, SyncStatus, TypeOK
  <2>2. QED
    BY <1>5, <2>1 DEF LostInv, SyncStatus
<1>7. ASSUME NEW t \in Threads, WaitTimesOut(t) PROVE LostInv'
  <2>1. \A u \in Threads : wait_objects'[u] = wait_objects[u] /\ status'[u] = status[u]
    BY <1>7 DEF WaitTimesOut
  <2>2. QED
    BY <1>5, <2>1 DEF LostInv
<1>8. ASSUME NEW t \in Threads, NEW objs \in Seq(Objects), NEW st \in SyncStatus, WaitStarts(t, objs, st) PROVE LostInv'
  <2>1. /\ \A u \in Threads : wait_objects'[u] = IF u = t THEN objs ELSE wait_objects[u]
        /\ \A u \in Threads : status'[u] = IF u = t THEN st ELSE status[u]
    BY <1>8 DEF WaitStarts, TypeOK
  <2>2. Range(objs) \subseteq Objects
    BY DEF Range
  <2>3. \A o \in Range(objs) : ShouldWait(o, t) => Unavailable(o, t)'
    BY <1>2, <2>2 DEF WakesWaiters, Unavailable
  <2>4. /\ st = "WaitSynchAny" => \A o \in Range(objs) : ShouldWait(o, t)
        /\ st = "WaitSynchAll" /\ objs # <<>> => \E o \in Range(objs) : ShouldWait(o, t)
    BY <1>8 DEF WaitStarts
  <2>5. /\ status'[t] = "WaitSynchAny" => \A o \in Range(wait_objects'[t]) : Unavailable(o, t)'
        /\ status'[t] = "WaitSynchAll" /\ wait_objects'[t] # <<>> =>
             \E o \in Range(wait_objects'[t]) : Unavailable(o, t)'
    BY <2>1, <2>3, <2>4
  <2>6. QED
    BY <1>5, <2>1, <2>5 DEF LostInv
<1>9. QED
  BY <1>6, <1>7, <1>8, LoopWaits, CallWaits

(* At the start nobody waits, and a step that changes nothing keeps the invariant. *)
LEMMA LostInit == Init => LostInv
BY DEF Init, LostInv

(* Every step keeps the waiting threads on what is unavailable. *)
LEMMA LostStep ==
  ASSUME TypeOK, TypeOK', SchedulerInv, WaitInv, LostInv, [Next]_vars
  PROVE  LostInv'
<1>1. CASE RunFrame
  BY <1>1, FrameLost
<1>2. CASE RunLoop \/ \E t \in Threads : ThreadCall(t)
  BY <1>2, HandlerLost
<1>3. CASE UNCHANGED vars
  <2>1. UNCHANGED <<wait_objects, status, todo, lock_count, holding_thread, available_count, signaled>>
    BY <1>3 DEF vars, wait_vars, mutex_vars, signal_vars
  <2>2. \A o, t : Unavailable(o, t)' <=> Unavailable(o, t)
    BY <2>1 DEF Unavailable, ShouldWait, MutexShouldWait, Waking
  <2>3. QED
    BY <2>1, <2>2 DEF LostInv, Leaving
<1>4. QED
  BY <1>1, <1>2, <1>3 DEF Next

(* Between handlers LostInv is what the runs check. *)
LEMMA NothingLost == LostInv => NoLostWakeup
<1> SUFFICES ASSUME LostInv, todo = <<>> PROVE NoLostWakeup
  BY DEF NoLostWakeup
<1>1. \A t, o : ~Leaving(t) /\ ~Waking(o)
  BY NobodyMoves DEF Waking, Range
<1>2. QED
  BY <1>1 DEF LostInv, Unavailable, NoLostWakeup

(* WaitSynchronization, WakeupAllWaitingThreads and everyone who releases, signals or stops: between handlers *)
(* a thread that waits for any of its objects finds none available, and one that waits for all misses one.    *)
THEOREM NoWakeupLost == Spec => []NoLostWakeup
<1>1. Init => SchedulerInv /\ WaitInv /\ LostInv
  BY SchedulerInit, InitWaits, LostInit
<1>2. TypeOK /\ TypeOK' /\ SchedulerInv /\ WaitInv /\ LostInv /\ [Next]_vars => (SchedulerInv /\ WaitInv /\ LostInv)'
  BY SchedulerStep, WaitsStepAll, LostStep
<1>3. QED
  BY <1>1, <1>2, NothingLost, TypeCorrect, PTL DEF Spec

(* The same with the scheduler: on any number of cores, as long as no process terminates another, nobody      *)
(* sleeps on what is available and an iteration of the run loop ends with the best ready thread on its core.  *)
THEOREM CoresAlwaysServed == "TerminateProcess" \notin Svcs => (Spec => []CoresServed)
<1>1. QueuesServeBest /\ NoLostWakeup => CoresServed
  BY DEF QueuesServeBest, CoresServed
<1>2. QED
  BY <1>1, BestThreadsServed, NoWakeupLost, PTL

-----------------------------------------------------------------------------
(* Stopping *)

\* No core stops the current thread of another one
StopsOwnCore == NumCores = 1 \/ "TerminateProcess" \notin Svcs

-----------------------------------------------------------------------------
(* Who is stopped, and by whom *)

\* A core that may execute before it is rescheduled executes a thread that is not dead; a current thread is
\* stopped only after its core was told to give it up; nothing is acquired for a dead thread; and what a
\* dead thread holds is being released
CurrentsAlive ==
  \A c \in Cores :
    current_thread[c] # Null /\ (c \in slices \/ c = running \/ ~reschedule_pending) =>
      status[current_thread[c]] # "Dead" \/ Rescheduling(c)
StopsPrepared ==
  \A t \in Threads :
    Frame("Stop", t, Null) \in Range(todo) /\ current_thread[CoreOf[t]] = t =>
      reschedule_pending /\ CoreOf[t] \notin slices /\ CoreOf[t] # running
TerminatesLocally == \A p, c : Frame("TerminateThreads", p, c) \in Range(todo) => c \notin slices
AcquirersAlive == \A t, o : Frame("Acquire", t, o) \in Range(todo) => status[t] # "Dead"
DeadReleased == \A t \in Threads : status[t] = "Dead" => held_mutexes[t] = {} \/ Releasing(t)

StopInv == CurrentsAlive /\ StopsPrepared /\ TerminatesLocally /\ AcquirersAlive /\ DeadReleased

(* Only Stop makes a thread dead. *)
LEMMA BecomesDead ==
  ASSUME TypeOK, SchedulerInv, RunFrame, NEW t \in Threads, status'[t] = "Dead", status[t] # "Dead"
  PROVE  Head(todo).fn = "Stop" /\ Head(todo).thr = t
<1> DEFINE f == Head(todo)
<1>1. todo # <<>> /\ f \in Frames
  BY TailType DEF RunFrame
<1>2. CASE f.fn = "Reschedule"
  <2>1. f.obj \in Cores /\ Reschedule(f.obj)
    BY <1>1, <1>2, FrameArguments DEF RunFrame
  <2>2. status'[t] = status[t] \/ status'[t] = "Running" \/ status'[t] = "Ready"
    BY <2>1, RescheduleEffect
  <2>3. QED
    BY <2>2
<1>3. CASE f.fn \in {"Wakeup", "Resume"}
  <2>1. status' = status \/ status' = [status EXCEPT ![f.thr] = "Ready"]
    BY <1>3 DEF RunFrame, Wakeup, Resume, ResumeFromWait
  <2>2. QED
    BY <2>1 DEF TypeOK
<1>4. CASE f.fn = "Stop"
  BY <1>4 DEF RunFrame, Stop, TypeOK
<1>5. CASE f.fn \notin {"Wakeup", "Resume", "Stop", "Reschedule"}
  BY <1>5 DEF RunFrame, Acquire, AddWaitingThread, RemoveWaitingThread, WakeupAllWaitingThreads,
         Rearm, UpdatePendingMutex, ReleaseThreadMutexes, TerminateProcessThreads
<1>6. QED
  BY <1>2, <1>3, <1>4, <1>5

(* What a dead thread holds: only a thread that is not dead acquires, and ReleaseThreadMutexes ends with nothing held. *)
LEMMA HeldStep ==
  ASSUME TypeOK, RunFrame, NEW t \in Threads
  PROVE  /\ held_mutexes'[t] \in {held_mutexes[t], {}} \/ (Head(todo).fn = "Acquire" /\ Head(todo).thr = t)
         /\ Head(todo) = Frame("ReleaseMutexes", t, Null) /\ ~Releasing(t)' => held_mutexes'[t] = {}
<1> DEFINE f == Head(todo)
<1> USE DEF thread_vars, prio_vars, mutex_vars, wait_vars, signal_vars, event_vars, loop_vars, core_vars
<1>1. todo # <<>> /\ f \in Frames /\ f \in Range(todo) /\ todo \in Seq(Frames)
  BY TodoParts DEF RunFrame
<1>2. CASE f.fn = "Acquire"
  <2>1. held_mutexes' = held_mutexes \/ \E S : held_mutexes' = [held_mutexes EXCEPT ![f.thr] = S]
    BY <1>2 DEF RunFrame, Acquire, AcquireMutex, AcquireSemaphore, AcquireSignal, AcquireThread
  <2>2. QED
    BY <1>2, <2>1, FrameOf DEF TypeOK
<1>3. CASE f.fn = "ReleaseMutexes"
  <2>1. ReleaseThreadMutexes(f.thr)
    BY <1>3 DEF RunFrame
  <2>2. CASE \E m \in held_mutexes[f.thr] : CallAgain(<<Frame("Wake", Null, m)>>) /\ UNCHANGED held_mutexes
    <3>1. PICK m \in held_mutexes[f.thr] : todo' = <<Frame("Wake", Null, m)>> \o todo
      BY <2>2 DEF CallAgain
    <3>2. m \in Objects
      BY <1>1, <1>3, FrameArguments DEF TypeOK, Objects
    <3>3. <<Frame("Wake", Null, m)>> \in Seq(Frames)
      BY <3>2, FrameType
    <3>4. Range(todo) \subseteq Range(todo')
      BY <1>1, <3>1, <3>3, PushedRange, ZenonT(30)
    <3>5. f = Frame("ReleaseMutexes", t, Null) => Releasing(t)'
      BY <1>1, <3>4 DEF Releasing
    <3>6. QED
      BY <1>3, <2>2, <3>5
  <2>3. CASE held_mutexes' = [held_mutexes EXCEPT ![f.thr] = {}]
    BY <2>3, FrameOf DEF TypeOK
  <2>4. QED
    BY <2>1, <2>2, <2>3 DEF ReleaseThreadMutexes
<1>4. CASE f.fn \notin {"Acquire", "ReleaseMutexes"}
  <2>1. held_mutexes' = held_mutexes
    BY <1>4 DEF RunFrame, AddWaitingThread, RemoveWaitingThread, WakeupAllWaitingThreads, Wakeup, Resume,
           Rearm, UpdatePendingMutex, Stop, TerminateProcessThreads, Reschedule
  <2>2. QED
    BY <1>4, <2>1, FrameOf
<1>5. QED
  BY <1>2, <1>3, <1>4

(* A call asks for a thread to be stopped only from TerminateProcessThreads, the current thread of its core last. *)
LEMMA StopAsked ==
  ASSUME TypeOK, SchedulerInv, RunFrame, NEW t \in Threads, Frame("Stop", t, Null) \in Range(todo')
  PROVE  /\ Head(todo).fn = "TerminateThreads" /\ Head(todo).obj = CoreOf[t]
         /\ \/ t # current_thread[CoreOf[t]]
            \/ reschedule_pending' /\ running' = NoCore
<1> DEFINE f == Head(todo)
           g == Frame("Stop", t, Null)
<1>1. /\ todo # <<>> /\ f \in Frames /\ CallsShaped /\ Range(todo) = {f} \cup Range(Tail(todo))
      /\ Tail(todo) \in Seq(Frames) /\ todo \in Seq(Frames)
  BY TodoParts DEF RunFrame, SchedulerInv
<1>2. g.fn = "Stop" /\ g.thr = t
  BY FrameOf
<1>3. g \notin Range(Tail(todo))
  BY <1>1, <1>2, TailBelow DEF Below
<1>4. f.fn = "TerminateThreads"
  <2>1. CASE g \in Range(todo)
    <3>1. f = g
      BY <1>1, <1>3, <2>1
    <3> DEFINE S == StopFrames(t, wait_objects[t])
    <3>2. todo' = S \o Tail(todo)
      BY <1>2, <3>1, FrameStep
    <3>3. S \in Seq(Frames) /\ \A x \in Range(S) : x.fn # "Stop"
      BY StopList DEF TypeOK
    <3> HIDE DEF S
    <3>4. QED
      BY <1>1, <1>2, <1>3, <3>2, <3>3, PushedRange
  <2>2. CASE g \notin Range(todo)
    BY <1>2, <2>2, PushedBy DEF WakeCalls
  <2>3. QED
    BY <2>1, <2>2
<1>5. PICK p \in Threads, c \in Cores : p = f.thr /\ c = f.obj
  BY <1>1, <1>4, FrameArguments
<1>6. TerminateProcessThreads(p, c)
  BY <1>4, <1>5 DEF RunFrame
<1>7. ASSUME NEW x \in Threads, todo' = <<Frame("Stop", x, Null)>> \o todo \/ todo' = <<Frame("Stop", x, Null)>> \o Tail(todo)
      PROVE  x = t
  <2>1. <<Frame("Stop", x, Null)>> \in Seq(Frames) /\ Range(<<Frame("Stop", x, Null)>>) = {Frame("Stop", x, Null)}
    BY FrameType, RangeSingle
  <2>2. Range(todo') \subseteq {Frame("Stop", x, Null)} \cup Range(todo)
    BY <1>1, <1>7, <2>1, PushedRange
  <2>3. QED
    BY <1>1, <1>2, <1>3, <1>4, <2>2, FrameOf
<1>8. ASSUME NEW x \in listed, ProcessOf[x] = p, CoreOf[x] = c, x # current_thread[c],
             CallAgain(<<Frame("Stop", x, Null)>>)
      PROVE  CoreOf[t] = c /\ t # current_thread[c]
  <2>1. x \in Threads
    BY DEF TypeOK
  <2>2. QED
    BY <1>7, <1>8, <2>1 DEF CallAgain
<1>9. ASSUME current_thread[c] # Null, CallThenReturn(<<Frame("Stop", current_thread[c], Null)>>), PrepareReschedule
      PROVE  CoreOf[t] = c /\ reschedule_pending' /\ running' = NoCore
  <2>1. current_thread[c] \in Threads /\ CoreOf[current_thread[c]] = c
    BY <1>9 DEF TypeOK, SchedulerInv, CurrentsRun
  <2>2. t = current_thread[c]
    BY <1>7, <1>9, <2>1 DEF CallThenReturn
  <2>3. QED
    BY <1>9, <2>1, <2>2 DEF PrepareReschedule
<1>10. ~Return
  BY <1>3 DEF Return
<1>11. QED
  BY <1>4, <1>5, <1>6, <1>8, <1>9, <1>10 DEF TerminateProcessThreads

(* Every call keeps the invariant. *)
LEMMA FrameStops ==
  ASSUME TypeOK, TypeOK', SchedulerInv, StopInv, RunFrame
  PROVE  StopInv'
<1> DEFINE f == Head(todo)
<1>1. /\ todo # <<>> /\ f \in Frames /\ f \in Range(todo) /\ Range(todo) = {f} \cup Range(Tail(todo))
      /\ CallsShaped /\ Range(Tail(todo)) \subseteq Range(todo') /\ Tail(todo) \in Seq(Frames)
  BY TodoParts, TailKept DEF RunFrame, SchedulerInv
<1>2. NoCore \notin Cores
  BY CoresNat DEF NoCore
<1>3. CurrentsAlive'
  <2> SUFFICES ASSUME NEW c \in Cores, current_thread'[c] # Null,
                      c \in slices' \/ c = running' \/ ~reschedule_pending', status'[current_thread'[c]] = "Dead"
               PROVE  Rescheduling(c)'
    BY DEF CurrentsAlive
  <2>1. current_thread'[c] \in Threads
    BY DEF TypeOK
  <2>2. CASE f.fn = "Reschedule"
    <3>1. PICK d \in Cores : d = f.obj /\ Reschedule(d)
      BY <1>1, <2>2, FrameArguments DEF RunFrame
    <3>2. UNCHANGED loop_vars /\ (c # d => current_thread'[c] = current_thread[c])
      BY <3>1, RescheduleEffect
    <3>3. c # d
      <4>1. c = d => current_thread'[c] = Null \/ status'[current_thread'[c]] = "Running"
        BY <3>1, RescheduleEffect DEF StaysRunnable
      <4>2. QED
        BY <4>1
    <3>4. status[current_thread[c]] = "Dead"
      BY <2>1, <2>2, <3>2, <3>3, BecomesDead
    <3>5. Rescheduling(c)
      BY <3>2, <3>3, <3>4 DEF StopInv, CurrentsAlive, loop_vars
    <3>6. f # Frame("Reschedule", Null, c)
      BY <3>1, <3>3, FrameOf
    <3>7. QED
      BY <1>1, <3>5, <3>6 DEF Rescheduling
  <2>3. CASE f.fn # "Reschedule"
    <3>1. /\ current_thread' = current_thread /\ slices' = slices /\ running' \in {running, NoCore}
          /\ reschedule_pending => reschedule_pending'
      BY <2>3, FrameEffect
    <3>2. c \in slices \/ c = running \/ ~reschedule_pending
      BY <1>2, <3>1
    <3>3. status[current_thread[c]] = "Dead"
      <4>1. ASSUME status[current_thread[c]] # "Dead" PROVE FALSE
        <5>1. f.fn = "Stop" /\ f.thr = current_thread[c] /\ current_thread[c] \in Threads
          BY <2>1, <3>1, <4>1, BecomesDead
        <5>2. f = Frame("Stop", current_thread[c], Null)
          BY <1>1, <5>1 DEF Frames, Frame
        <5>3. CoreOf[current_thread[c]] = c
          BY <3>1 DEF SchedulerInv, CurrentsRun
        <5>4. reschedule_pending /\ c \notin slices /\ c # running
          BY <1>1, <5>1, <5>2, <5>3 DEF StopInv, StopsPrepared
        <5>5. QED
          BY <3>2, <5>4
      <4>2. QED
        BY <4>1
    <3>4. Rescheduling(c)
      BY <3>1, <3>2, <3>3 DEF StopInv, CurrentsAlive
    <3>5. f # Frame("Reschedule", Null, c)
      BY <2>3, FrameOf
    <3>6. QED
      BY <1>1, <3>4, <3>5 DEF Rescheduling
  <2>4. QED
    BY <2>2, <2>3
<1>4. StopsPrepared'
  <2> SUFFICES ASSUME NEW t \in Threads, Frame("Stop", t, Null) \in Range(todo'), current_thread'[CoreOf[t]] = t
               PROVE  reschedule_pending' /\ CoreOf[t] \notin slices' /\ CoreOf[t] # running'
    BY DEF StopsPrepared
  <2>1. PICK c \in Cores : c = CoreOf[t]
    BY CoresAssumption
  <2>2. f.fn = "TerminateThreads" /\ f.obj = c
    BY <2>1, StopAsked
  <2>3. current_thread' = current_thread /\ slices' = slices
    BY <2>2, FrameEffect
  <2>4. reschedule_pending' /\ running' = NoCore
    BY <2>3, StopAsked
  <2>5. f = Frame("TerminateThreads", f.thr, c)
    BY <1>1, <2>2 DEF Frames, Frame
  <2>6. c \notin slices
    BY <1>1, <2>5 DEF StopInv, TerminatesLocally
  <2>7. QED
    BY <1>2, <2>1, <2>3, <2>4, <2>6
<1>5. TerminatesLocally'
  <2>1. slices' = slices
    <3>1. CASE f.fn = "Reschedule"
      BY <1>1, <3>1, FrameArguments DEF RunFrame, Reschedule, loop_vars
    <3>2. QED
      BY <3>1, FrameEffect
  <2>2. \A p, c : Frame("TerminateThreads", p, c) \in Range(todo') => Frame("TerminateThreads", p, c) \in Range(todo)
    BY PushedBy, FrameOf DEF WakeCalls
  <2>3. QED
    BY <2>1, <2>2 DEF StopInv, TerminatesLocally
<1>6. AcquirersAlive'
  <2> SUFFICES ASSUME NEW t, NEW o, Frame("Acquire", t, o) \in Range(todo'), status'[t] = "Dead" PROVE FALSE
    BY DEF AcquirersAlive
  <2> DEFINE g == Frame("Acquire", t, o)
  <2>1. g.fn = "Acquire" /\ g.thr = t
    BY FrameOf
  <2>2. t \in Threads
    <3>1. g \in Frames
      BY DEF TypeOK, Range
    <3>2. QED
      BY <2>1, <3>1, FrameArguments
  <2>3. CASE g \in Range(todo)
    <3>1. status[t] # "Dead"
      BY <2>3 DEF StopInv, AcquirersAlive
    <3>2. f.fn = "Stop"
      BY <2>2, <3>1, BecomesDead
    <3>3. g \in Range(Tail(todo))
      BY <1>1, <2>1, <2>3, <3>2
    <3>4. QED
      BY <1>1, <2>1, <3>2, <3>3, TailBelow DEF Below
  <2>4. CASE g \notin Range(todo)
    <3>1. f.fn = "Wake" /\ status[t] \in SyncStatus
      BY <2>1, <2>4, PushedBy
    <3>2. QED
      BY <2>2, <3>1, BecomesDead DEF SyncStatus
  <2>5. QED
    BY <2>3, <2>4
<1>7. DeadReleased'
  <2> SUFFICES ASSUME NEW t \in Threads, status'[t] = "Dead", ~Releasing(t)' PROVE held_mutexes'[t] = {}
    BY DEF DeadReleased
  <2>1. status[t] = "Dead"
    <3>1. ASSUME status[t] # "Dead" PROVE FALSE
      <4>1. f.fn = "Stop" /\ f.thr = t
        BY <3>1, BecomesDead
      <4> DEFINE S == StopFrames(t, wait_objects[t])
      <4>2. todo' = S \o Tail(todo)
        BY <4>1, FrameStep
      <4>3. S \in Seq(Frames) /\ Frame("ReleaseMutexes", t, Null) \in Range(S)
        BY StopList DEF TypeOK
      <4> HIDE DEF S
      <4>4. QED
        BY <1>1, <4>2, <4>3, PushedRange DEF Releasing
    <3>2. QED
      BY <3>1
  <2>2. held_mutexes[t] = {} \/ Releasing(t)
    BY <2>1 DEF StopInv, DeadReleased
  <2>3. ~(f.fn = "Acquire" /\ f.thr = t)
    <3>1. ASSUME f.fn = "Acquire", f.thr = t PROVE FALSE
      <4>1. f = Frame("Acquire", t, f.obj)
        BY <1>1, <3>1 DEF Frames, Frame
      <4>2. QED
        BY <1>1, <2>1, <4>1 DEF StopInv, AcquirersAlive
    <3>2. QED
      BY <3>1
  <2>4. held_mutexes'[t] \in {held_mutexes[t], {}}
    BY <2>3, HeldStep
  <2>5. CASE Releasing(t)
    BY <2>5, ReleasingKept, HeldStep
  <2>6. QED
    BY <2>2, <2>4, <2>5
<1>8. QED
  BY <1>3, <1>4, <1>5, <1>6, <1>7 DEF StopInv

-----------------------------------------------------------------------------
(* The handlers *)

(* No event and no step of the run loop stops a thread or acquires for one. *)
LEMMA LoopCalls ==
  ASSUME TypeOK, RunLoop
  PROVE  /\ \A g \in Range(todo') : /\ g.fn \notin {"Stop", "TerminateThreads", "Acquire"}
                                    /\ g.fn = "Resume" => thread_events[g.thr] > 0 /\ status[g.thr] \notin SyncStatus
         /\ UNCHANGED <<status, held_mutexes, current_thread>>
<1> USE DEF thread_vars, prio_vars, mutex_vars, wait_vars, signal_vars, event_vars, loop_vars, core_vars
<1>1. UNCHANGED <<status, held_mutexes, current_thread>>
  BY DEF RunLoop, StartIteration, AdvanceDone, StartSlice, EndSlice, RescheduleAll,
         ThreadWakeupCallback, TimerCallback, ServiceSignal, EventSignal
<1>2. todo = <<>> /\ Range(<<>>) = {}
  BY HandlerStarts DEF Range
<1>3. ASSUME NEW t \in Threads, ThreadWakeupCallback(t)
      PROVE  \A g \in Range(todo') : /\ g.fn \notin {"Stop", "TerminateThreads", "Acquire"}
                                     /\ g.fn = "Resume" => thread_events[g.thr] > 0 /\ status[g.thr] \notin SyncStatus
  <2>1. CASE status[t] \in SyncStatus
    <3>1. wait_objects[t] \in Seq(Objects)
      BY DEF TypeOK
    <3>2. <<Frame("Wakeup", t, Null)>> \in Seq(Frames) /\ ForEach("RemoveWaiting", t, wait_objects[t]) \in Seq(Frames)
      BY <3>1, FrameType, ForEachType
    <3>3. todo' = ForEach("RemoveWaiting", t, wait_objects[t]) \o <<Frame("Wakeup", t, Null)>>
      BY <1>3, <2>1 DEF ThreadWakeupCallback
    <3>4. Range(todo') = Range(ForEach("RemoveWaiting", t, wait_objects[t])) \cup Range(<<Frame("Wakeup", t, Null)>>)
      BY <3>2, <3>3, PushedRange
    <3>5. Range(<<Frame("Wakeup", t, Null)>>) = {Frame("Wakeup", t, Null)}
      BY RangeSingle
    <3>6. \A g \in Range(ForEach("RemoveWaiting", t, wait_objects[t])) : g.fn = "RemoveWaiting"
      BY ForEachFrames
    <3>7. QED
      BY <3>4, <3>5, <3>6, FrameOf
  <2>2. CASE status[t] \notin SyncStatus
    <3>1. Range(todo') = {Frame("Resume", t, Null)}
      BY <1>3, <2>2, RangeSingle DEF ThreadWakeupCallback
    <3>2. thread_events[t] > 0
      BY <1>3 DEF ThreadWakeupCallback
    <3>3. QED
      BY <2>2, <3>1, <3>2, FrameOf
  <2>3. QED
    BY <2>1, <2>2
<1>4. ASSUME AdvanceDone PROVE \A g \in Range(todo') : g.fn = "Reschedule"
  BY <1>4, RangeSingle, FrameOf DEF AdvanceDone
<1>5. ASSUME RescheduleAll PROVE \A g \in Range(todo') : g.fn = "Reschedule"
  BY <1>5, FrameOf DEF RescheduleAll, Range
<1>6. ASSUME NEW tm \in Timers, TimerCallback(tm) PROVE \A g \in Range(todo') : g.fn \in {"Wake", "Rearm"}
  <2>1. Range(todo') = {Frame("Wake", Null, tm), Frame("Rearm", Null, tm)}
    BY <1>6 DEF TimerCallback, TimerFrames, Range
  <2>2. QED
    BY <2>1, FrameOf
<1>7. ASSUME NEW e \in Events, ServiceSignal(e) PROVE \A g \in Range(todo') : g.fn = "Wake"
  BY <1>7, RangeSingle, FrameOf DEF ServiceSignal, EventSignal
<1>8. ASSUME StartIteration \/ StartSlice \/ EndSlice PROVE todo' = <<>>
  BY <1>2, <1>8 DEF StartIteration, StartSlice, EndSlice
<1>9. \A g \in Range(todo') : /\ g.fn \notin {"Stop", "TerminateThreads", "Acquire"}
                              /\ g.fn = "Resume" => thread_events[g.thr] > 0 /\ status[g.thr] \notin SyncStatus
  BY <1>2, <1>3, <1>4, <1>5, <1>6, <1>7, <1>8 DEF RunLoop
<1>10. QED
  BY <1>1, <1>9

(* An SVC acquires for its caller and stops its caller, which its core then gives up. *)
LEMMA CallCalls ==
  ASSUME TypeOK, NEW t \in Threads, ThreadCall(t)
  PROVE  /\ \A g \in Range(todo') : /\ g.fn = "Stop" => g.thr = t /\ running' = NoCore /\ reschedule_pending'
                                    /\ g.fn = "TerminateThreads" => "TerminateProcess" \in Svcs
                                    /\ g.fn = "Acquire" => g.thr = t
                                    /\ g.fn # "Resume"
         /\ \A u \in Threads : held_mutexes'[u] \subseteq held_mutexes[u]
<1> USE DEF thread_vars, prio_vars, mutex_vars, wait_vars, signal_vars, event_vars, loop_vars, core_vars
<1>1. todo = <<>> /\ Range(<<>>) = {}
  BY CallEffect DEF Range
<1> DEFINE Harmless(q) ==
             \A g \in Range(q) : /\ g.fn = "Stop" => g.thr = t /\ running' = NoCore /\ reschedule_pending'
                                 /\ g.fn = "TerminateThreads" => "TerminateProcess" \in Svcs
                                 /\ g.fn = "Acquire" => g.thr = t
                                 /\ g.fn # "Resume"
           Kept == \A u \in Threads : held_mutexes'[u] \subseteq held_mutexes[u]
<1>2. ASSUME NEW objs, NEW st, NEW ns, WaitUnchanged, AcquireNow(t, objs) \/ TimeoutNow \/ Suspend(t, objs, st, ns)
      PROVE  Harmless(todo') /\ Kept
  <2>1. \/ todo' = ForEach("Acquire", t, objs)
        \/ todo' = <<>>
        \/ todo' = ForEach("AddWaiting", t, objs)
    BY <1>1, <1>2 DEF AcquireNow, TimeoutNow, Suspend
  <2>2. \A g \in Range(todo') : g.fn \in {"Acquire", "AddWaiting"} /\ g.thr = t
    BY <1>1, <2>1, ForEachFrames
  <2>3. UNCHANGED held_mutexes
    BY <1>2 DEF WaitUnchanged
  <2>4. QED
    BY <2>2, <2>3
<1>3. ASSUME NEW o \in Waitable(t), NEW ns \in Delays, WaitSynchronization1(t, o, ns) PROVE Harmless(todo') /\ Kept
  <2>1. WaitUnchanged /\ (AcquireNow(t, <<o>>) \/ TimeoutNow \/ Suspend(t, <<o>>, "WaitSynchAny", ns))
    BY <1>3 DEF WaitSynchronization1
  <2> HIDE DEF Harmless, Kept
  <2>2. QED
    BY <1>2, <2>1
<1>4. ASSUME NEW objs \in WaitLists, NEW all \in BOOLEAN, NEW ns \in Delays, WaitSynchronizationN(t, objs, all, ns)
      PROVE  Harmless(todo') /\ Kept
  <2>1. WaitUnchanged /\ \E q, st : AcquireNow(t, q) \/ TimeoutNow \/ Suspend(t, q, st, ns)
    BY <1>4 DEF WaitSynchronizationN
  <2> HIDE DEF Harmless, Kept
  <2>2. QED
    BY <1>2, <2>1
<1>5. ASSUME \/ \E x \in Threads : CreateThread(t, x)
             \/ \E ns \in Delays : SleepThread(t, ns)
             \/ \E e \in Signals : ClearSignal(t, e)
             \/ \E tm \in Timers : CancelTimer(t, tm)
      PROVE  Harmless(todo') /\ Kept
  <2>1. todo' = <<>> /\ UNCHANGED held_mutexes
    BY <1>1, <1>5 DEF CreateThread, SleepThread, ClearSignal, CancelTimer
  <2>2. QED
    BY <1>1, <2>1
<1>6. ASSUME ExitThread(t) PROVE Harmless(todo') /\ Kept
  <2>1. todo' = <<Frame("Stop", t, Null)>> /\ UNCHANGED held_mutexes /\ running' = NoCore /\ reschedule_pending'
    BY <1>6 DEF ExitThread, PrepareReschedule
  <2>2. Range(todo') = {Frame("Stop", t, Null)}
    BY <2>1, RangeSingle
  <2>3. QED
    BY <2>1, <2>2, FrameOf
<1>7. ASSUME NEW p \in Threads, TerminateProcess(t, p) PROVE Harmless(todo') /\ Kept
  <2>1. /\ todo' = [i \in 1 .. NumCores |-> Frame("TerminateThreads", p, i - 1)]
        /\ UNCHANGED held_mutexes /\ "TerminateProcess" \in Svcs
    BY <1>7 DEF TerminateProcess, Svc
  <2>2. \A g \in Range(todo') : g.fn = "TerminateThreads"
    BY <2>1, FrameOf DEF Range
  <2>3. QED
    BY <2>1, <2>2
<1>8. ASSUME NEW x \in Threads, NEW p \in SetPriorities, SetThreadPriority(t, x, p) PROVE Harmless(todo') /\ Kept
  <2>1. \A g \in Range(todo') : g.fn = "UpdatePriority"
    BY <1>8, ForEachFrames DEF SetThreadPriority
  <2>2. UNCHANGED held_mutexes
    BY <1>8 DEF SetThreadPriority
  <2>3. QED
    BY <2>1, <2>2
<1>9. ASSUME \/ \E s \in Semaphores, n \in ReleaseCounts : ReleaseSemaphore(t, s, n)
             \/ \E e \in Events : SignalEvent(t, e)
             \/ \E m \in Mutexes : ReleaseMutex(t, m)
      PROVE  Harmless(todo') /\ Kept
  <2>1. todo' = <<>> \/ \E o : todo' = <<Frame("Wake", Null, o)>>
    BY <1>1, <1>9 DEF ReleaseSemaphore, SignalEvent, EventSignal, ReleaseMutex
  <2>2. \A g \in Range(todo') : g.fn = "Wake"
    BY <1>1, <2>1, RangeSingle, FrameOf
  <2>3. UNCHANGED held_mutexes \/ \E m \in Mutexes : held_mutexes' = [held_mutexes EXCEPT ![t] = @ \ {m}]
    BY <1>9 DEF ReleaseSemaphore, SignalEvent, EventSignal, ReleaseMutex
  <2>4. Kept
    BY <2>3, ZenonT(30) DEF TypeOK
  <2>5. QED
    BY <2>2, <2>4
<1>10. ASSUME NEW tm \in Timers, NEW initial \in BOOLEAN, NEW interval \in BOOLEAN, SetTimer(t, tm, initial, interval)
       PROVE  Harmless(todo') /\ Kept
  <2>1. todo' = <<>> \/ todo' = <<Frame("Wake", Null, tm), Frame("Rearm", Null, tm)>>
    BY <1>1, <1>10 DEF SetTimer, TimerFrames
  <2>2. Range(<<Frame("Wake", Null, tm), Frame("Rearm", Null, tm)>>) = {Frame("Wake", Null, tm), Frame("Rearm", Null, tm)}
    BY DEF Range
  <2>3. \A g \in Range(todo') : g.fn \in {"Wake", "Rearm"}
    BY <1>1, <2>1, <2>2, FrameOf
  <2>4. UNCHANGED held_mutexes
    BY <1>10 DEF SetTimer
  <2>5. QED
    BY <2>3, <2>4
<1> HIDE DEF Harmless, Kept
<1>11. Harmless(todo') /\ Kept
  BY <1>3, <1>4, <1>5, <1>6, <1>7, <1>8, <1>9, <1>10 DEF ThreadCall
<1>12. QED
  BY <1>11 DEF Harmless, Kept

(* The thread that makes a call is not dead. *)
LEMMA CallerAlive ==
  ASSUME TypeOK, CurrentsAlive, todo = <<>>, NEW t \in Threads, running \in Cores, current_thread[running] = t
  PROVE  status[t] # "Dead"
<1>1. ~Rescheduling(running) /\ t # Null
  BY ObjectsAssumption DEF Rescheduling, Range, Objects
<1>2. QED
  BY <1>1 DEF CurrentsAlive

(* Between handlers no call is pending that the invariant speaks of. *)
LEMMA NoCallPending ==
  ASSUME TypeOK, TypeOK', StopInv, CurrentsAlive', todo = <<>>,
         \A t \in Threads : status'[t] = "Dead" => status[t] = "Dead",
         \A t \in Threads : held_mutexes'[t] \subseteq held_mutexes[t],
         StopsPrepared', TerminatesLocally', AcquirersAlive'
  PROVE  StopInv'
<1>1. \A t \in Threads : ~Releasing(t)
  BY NobodyReleasing
<1>2. DeadReleased'
  BY <1>1 DEF StopInv, DeadReleased
<1>3. QED
  BY <1>2 DEF StopInv

(* Every event and every step of the run loop keeps the invariant. *)
LEMMA LoopStops ==
  ASSUME TypeOK, TypeOK', SchedulerInv, StopInv, RunLoop
  PROVE  StopInv'
<1>1. todo = <<>> /\ \A c \in Cores : ~Rescheduling(c)
  BY HandlerStarts DEF Rescheduling, Range
<1>2. /\ \A g \in Range(todo') : g.fn \notin {"Stop", "TerminateThreads", "Acquire"}
      /\ UNCHANGED <<status, held_mutexes, current_thread>>
  BY LoopCalls
<1>3. StopsPrepared' /\ TerminatesLocally' /\ AcquirersAlive'
  BY <1>2, FrameOf DEF StopsPrepared, TerminatesLocally, AcquirersAlive
<1>4. ASSUME \A c \in Cores : c \in slices' \/ c = running' \/ ~reschedule_pending' =>
                                c \in slices \/ c = running \/ ~reschedule_pending \/ Rescheduling(c)'
      PROVE  CurrentsAlive'
  BY <1>1, <1>2, <1>4 DEF StopInv, CurrentsAlive
<1>5. NoCore \notin Cores
  BY CoresNat DEF NoCore
<1>6. CASE StartSlice
  <2>1. slices \subseteq Cores /\ slices # {} /\ slices \subseteq Nat
    BY <1>6, CoresNat DEF StartSlice, TypeOK
  <2>2. Min(slices) \in slices
    BY <2>1, MinNat
  <2>3. slices' = slices \ {Min(slices)} /\ running' \in {NoCore, Min(slices)} /\ (reschedule_pending => reschedule_pending')
    BY <1>6 DEF StartSlice, PrepareReschedule
  <2>4. CurrentsAlive'
    BY <1>4, <1>5, <2>2, <2>3
  <2>5. QED
    BY <1>1, <1>2, <1>3, <2>4, NoCallPending
<1>7. CASE RescheduleAll
  <2>1. ASSUME NEW c \in Cores PROVE Rescheduling(c)'
    <3>1. c + 1 \in 1 .. NumCores /\ (c + 1) - 1 = c
      BY CoresAssumption DEF Cores
    <3>2. todo'[c + 1] = Frame("Reschedule", Null, c) /\ c + 1 \in DOMAIN todo'
      BY <1>7, <3>1 DEF RescheduleAll
    <3>3. QED
      BY <3>2 DEF Rescheduling, Range
  <2>2. CurrentsAlive'
    BY <1>4, <2>1
  <2>3. QED
    BY <1>1, <1>2, <1>3, <2>2, NoCallPending
<1>8. CASE UNCHANGED <<slices, reschedule_pending>> /\ running' \in {running, NoCore}
  <2>1. CurrentsAlive'
    BY <1>4, <1>5, <1>8
  <2>2. QED
    BY <1>1, <1>2, <1>3, <2>1, NoCallPending
<1>9. CASE StartIteration
  <2>1. CurrentsAlive'
    BY <1>4, <1>9 DEF StartIteration
  <2>2. QED
    BY <1>1, <1>2, <1>3, <2>1, NoCallPending
<1>10. QED
  BY <1>6, <1>7, <1>8, <1>9 DEF RunLoop, AdvanceDone, EndSlice, ThreadWakeupCallback,
         TimerCallback, ServiceSignal, EventSignal, loop_vars

(* Every SVC does, where no core stops the current thread of another. *)
LEMMA CallStops ==
  ASSUME TypeOK, TypeOK', SchedulerInv, StopInv, StopsOwnCore, NEW t \in Threads, ThreadCall(t)
  PROVE  StopInv' /\ \A u \in Threads : status[u] = "Dead" => status'[u] = "Dead"
<1>1. /\ todo = <<>> /\ running \in Cores /\ current_thread[running] = t
      /\ current_thread' = current_thread /\ slices' = slices
      /\ running' \in {running, NoCore} /\ (reschedule_pending => reschedule_pending')
  BY CallEffect
<1>2. status[t] # "Dead" /\ \A c \in Cores : ~Rescheduling(c)
  BY <1>1, CallerAlive DEF StopInv, Rescheduling, Range
<1>3. \A u \in Threads : status'[u] = "Dead" <=> status[u] = "Dead"
  <2>1. \/ status' = status
        \/ \E x \in Threads : status[x] = "Unborn" /\ status' = [status EXCEPT ![x] = "Ready"]
        \/ \E st \in BlockedStatus : status' = [status EXCEPT ![t] = st]
    BY CallEffect
  <2>2. QED
    BY <1>2, <2>1 DEF TypeOK, BlockedStatus, SyncStatus
<1>4. NoCore \notin Cores
  BY CoresNat DEF NoCore
<1>5. CurrentsAlive'
  <2>1. \A c \in Cores : current_thread[c] # Null => current_thread[c] \in Threads
    BY DEF TypeOK
  <2>2. QED
    BY <1>1, <1>2, <1>3, <1>4, <2>1 DEF StopInv, CurrentsAlive
<1>6. CoreOf[t] = running /\ running \notin slices
  <2>1. t # Null
    BY ObjectsAssumption DEF Objects
  <2>2. QED
    BY <1>1, <2>1 DEF SchedulerInv, CurrentsRun
<1>7. StopsPrepared'
  <2>1. ASSUME NEW u \in Threads, Frame("Stop", u, Null) \in Range(todo')
        PROVE  reschedule_pending' /\ CoreOf[u] \notin slices' /\ CoreOf[u] # running'
    <3>1. u = t /\ running' = NoCore /\ reschedule_pending'
      BY <2>1, CallCalls, FrameOf
    <3>2. QED
      BY <1>1, <1>4, <1>6, <3>1
  <2>2. QED
    BY <2>1 DEF StopsPrepared
<1>8. TerminatesLocally'
  <2>1. ASSUME NEW p, NEW c, Frame("TerminateThreads", p, c) \in Range(todo') PROVE c \notin slices'
    <3>1. "TerminateProcess" \in Svcs
      BY <2>1, CallCalls, FrameOf
    <3>2. Frame("TerminateThreads", p, c) \in Frames
      BY <2>1 DEF TypeOK, Range
    <3>3. c \in Cores
      BY <3>2, FrameArguments, FrameOf
    <3>4. NumCores = 1
      BY <3>1 DEF StopsOwnCore
    <3>5. c = running
      BY <1>1, <3>3, <3>4 DEF Cores
    <3>6. QED
      BY <1>1, <1>6, <3>5
  <2>2. QED
    BY <2>1 DEF TerminatesLocally
<1>9. AcquirersAlive'
  <2>1. ASSUME NEW u, NEW o, Frame("Acquire", u, o) \in Range(todo') PROVE status'[u] # "Dead"
    <3>1. u = t
      BY <2>1, CallCalls, FrameOf
    <3>2. QED
      BY <1>2, <1>3, <3>1
  <2>2. QED
    BY <2>1 DEF AcquirersAlive
<1>10. \A u \in Threads : held_mutexes'[u] \subseteq held_mutexes[u]
  BY CallCalls
<1>11. StopInv'
  BY <1>1, <1>3, <1>5, <1>7, <1>8, <1>9, <1>10, NoCallPending
<1>12. QED
  BY <1>3, <1>11

(* At the start nobody is dead and nothing is pending. *)
LEMMA InitStops == Init => StopInv
<1> SUFFICES ASSUME Init PROVE StopInv
  OBVIOUS
<1>1. Range(todo) = {} /\ \A c \in Cores : current_thread[c] = Null
  BY DEF Init, Range
<1>2. \A t \in Threads : held_mutexes[t] = {}
  BY DEF Init
<1>3. QED
  BY <1>1, <1>2 DEF StopInv, CurrentsAlive, StopsPrepared, TerminatesLocally, AcquirersAlive, DeadReleased

(* Every step keeps the invariant and the dead dead. *)
LEMMA StopStep ==
  ASSUME TypeOK, TypeOK', SchedulerInv, StopInv, StopsOwnCore, [Next]_vars
  PROVE  StopInv' /\ \A u \in Threads : status[u] = "Dead" => status'[u] = "Dead"
<1>1. CASE RunFrame
  BY <1>1, FrameStops, DeadStays
<1>2. CASE RunLoop
  BY <1>2, LoopStops, LoopCalls
<1>3. CASE \E t \in Threads : ThreadCall(t)
  BY <1>3, CallStops
<1>4. CASE UNCHANGED vars
  <2>1. UNCHANGED <<status, held_mutexes, current_thread, todo, slices, running, reschedule_pending>>
    BY <1>4 DEF vars, mutex_vars, core_vars, loop_vars
  <2>2. QED
    BY <2>1 DEF StopInv, CurrentsAlive, StopsPrepared, TerminatesLocally, AcquirersAlive, DeadReleased, Rescheduling, Releasing
<1>5. QED
  BY <1>1, <1>2, <1>3, <1>4 DEF Next

(* Thread::Stop: where no core stops the current thread of another one, a stopped thread stays stopped. *)
(* Whatever the others do, it is in no list or queue from which it could come back, and no core runs it.   *)
THEOREM DeadStayDead == StopsOwnCore => (Spec => DeadIsFinal)
<1> SUFFICES ASSUME StopsOwnCore PROVE Spec => DeadIsFinal
  OBVIOUS
<1>1. Init => SchedulerInv /\ StopInv
  BY SchedulerInit, InitStops
<1>2. TypeOK /\ TypeOK' /\ SchedulerInv /\ StopInv /\ [Next]_vars => (SchedulerInv /\ StopInv)'
  BY SchedulerStep, StopStep
<1>3. TypeOK /\ TypeOK' /\ SchedulerInv /\ StopInv /\ [Next]_vars =>
        [\A t \in Threads : status[t] = "Dead" => status'[t] = "Dead"]_vars
  BY StopStep
<1>4. QED
  BY <1>1, <1>2, <1>3, TypeCorrect, PTL DEF Spec, DeadIsFinal

(* Between handlers the dead hold nothing, wait for nothing and are waited for only by who waits for more. *)
LEMMA DeadClean == TypeOK /\ WaitInv /\ LostInv /\ StopInv => DeadHoldsNothing
<1> SUFFICES ASSUME TypeOK, WaitInv, LostInv, StopInv, todo = <<>>, NEW t \in Threads, status[t] = "Dead"
             PROVE  /\ held_mutexes[t] = {} /\ wait_objects[t] = <<>>
                    /\ \A o \in Objects : t \notin Range(waiting_threads[o])
                    /\ \A w \in Range(waiting_threads[t]) : status[w] = "WaitSynchAll"
  BY DEF DeadHoldsNothing
<1>1. held_mutexes[t] = {}
  BY NobodyReleasing DEF StopInv, DeadReleased
<1>2. WaitListsAgree /\ NoLostWakeup
  BY WaitsAgree, NothingLost
<1>3. wait_objects[t] = <<>>
  BY <1>2 DEF WaitListsAgree, SyncStatus
<1>4. \A o \in Objects : t \notin Range(waiting_threads[o])
  BY <1>2, <1>3 DEF WaitListsAgree, Range
<1>5. ASSUME NEW w \in Range(waiting_threads[t]) PROVE status[w] = "WaitSynchAll"
  <2>1. w \in Threads /\ t \in Objects
    BY DEF TypeOK, Range, Objects
  <2>2. t \in Range(wait_objects[w])
    BY <1>2, <1>5, <2>1 DEF WaitListsAgree
  <2>3. wait_objects[w] # <<>>
    BY <2>2 DEF Range
  <2>4. status[w] \in SyncStatus
    BY <1>2, <2>1, <2>3 DEF WaitListsAgree
  <2>5. ~ShouldWait(t, w)
    BY ObjectsAssumption DEF ShouldWait
  <2>6. QED
    BY <1>2, <2>1, <2>2, <2>4, <2>5 DEF NoLostWakeup, SyncStatus
<1>6. QED
  BY <1>1, <1>3, <1>4, <1>5

(* Thread::Stop: where no core stops the current thread of another one, a thread that exits or is terminated *)
(* at any moment leaves nothing behind: no mutex, no place in a list or a queue, no timeout, no sleeper.      *)
THEOREM TerminationAlwaysClean == StopsOwnCore => (Spec => []TerminationClean)
<1> SUFFICES ASSUME StopsOwnCore PROVE Spec => []TerminationClean
  OBVIOUS
<1>1. Init => SchedulerInv /\ WaitInv /\ LostInv /\ StopInv
  BY SchedulerInit, InitWaits, LostInit, InitStops
<1>2. TypeOK /\ TypeOK' /\ SchedulerInv /\ WaitInv /\ LostInv /\ StopInv /\ [Next]_vars =>
        (SchedulerInv /\ WaitInv /\ LostInv /\ StopInv)'
  BY SchedulerStep, WaitsStepAll, LostStep, StopStep
<1>3. TypeOK /\ SchedulerInv /\ WaitInv /\ LostInv /\ StopInv /\ MutexOwnership => TerminationClean
  BY DeadClean, MatchIsConsistent, WaitsAgree, NothingLost DEF TerminationClean, SchedulerInv
<1>4. QED
  BY <1>1, <1>2, <1>3, TypeCorrect, MutexesOwned, PTL DEF Spec

-----------------------------------------------------------------------------
(* The asserts of the kernel *)

\* The lists a program passes to WaitSynchronizationN name no object twice, and no thread waits for itself
ListsDistinct == \A objs \in WaitLists : IsInjective(objs)
NoSelfWait == \A t \in Threads : t \notin JoinTargets[t] /\ \A objs \in WaitLists : t \notin Range(objs)
SoundArguments == ListsDistinct /\ NoSelfWait

\* What a thread may wait for
WaitArgument(t, objs) == objs \in WaitLists \/ \E o \in Waitable(t) : objs = <<o>>

\* No object is acquired twice by the calls that are left
DistinctAcquires(q) ==
  \A i, j \in DOMAIN q : i # j /\ q[i].fn = "Acquire" /\ q[j].fn = "Acquire" => q[i].obj # q[j].obj

(* The first call acquires nothing that a later one acquires. *)
LEMMA DistinctTail ==
  ASSUME NEW X \in Seq(Frames), X # <<>>, DistinctAcquires(X)
  PROVE  /\ DistinctAcquires(Tail(X))
         /\ \A g \in Range(Tail(X)) : g.fn = "Acquire" /\ Head(X).fn = "Acquire" => g.obj # Head(X).obj
<1>1. /\ Len(X) \in Nat \ {0} /\ DOMAIN X = 1 .. Len(X) /\ Head(X) = X[1]
      /\ DOMAIN Tail(X) = 1 .. Len(X) - 1 /\ \A i \in 1 .. Len(X) - 1 : Tail(X)[i] = X[i + 1]
  OBVIOUS
<1>2. DistinctAcquires(Tail(X))
  <2> SUFFICES ASSUME NEW i \in 1 .. Len(X) - 1, NEW j \in 1 .. Len(X) - 1, i # j,
                      Tail(X)[i].fn = "Acquire", Tail(X)[j].fn = "Acquire"
               PROVE  Tail(X)[i].obj # Tail(X)[j].obj
    BY <1>1 DEF DistinctAcquires
  <2>1. /\ i + 1 \in DOMAIN X /\ j + 1 \in DOMAIN X /\ i + 1 # j + 1
        /\ Tail(X)[i] = X[i + 1] /\ Tail(X)[j] = X[j + 1]
    BY <1>1
  <2>2. QED
    BY <2>1 DEF DistinctAcquires
<1>3. ASSUME NEW g \in Range(Tail(X)), g.fn = "Acquire", Head(X).fn = "Acquire" PROVE g.obj # Head(X).obj
  <2>1. PICK j \in 1 .. Len(X) - 1 : g = Tail(X)[j]
    BY <1>1 DEF Range
  <2>2. 1 \in DOMAIN X /\ j + 1 \in DOMAIN X /\ 1 # j + 1 /\ g = X[j + 1]
    BY <1>1, <2>1
  <2>3. QED
    BY <1>1, <1>3, <2>2 DEF DistinctAcquires
<1>4. QED
  BY <1>2, <1>3

(* In front of calls that acquire nothing. *)
LEMMA DistinctConcat ==
  ASSUME NEW X \in Seq(Frames), NEW Y \in Seq(Frames), DistinctAcquires(X), \A g \in Range(Y) : g.fn # "Acquire"
  PROVE  DistinctAcquires(X \o Y)
<1>1. /\ Len(X) \in Nat /\ Len(Y) \in Nat /\ DOMAIN X = 1 .. Len(X) /\ DOMAIN Y = 1 .. Len(Y)
      /\ DOMAIN (X \o Y) = 1 .. Len(X) + Len(Y)
      /\ \A i \in 1 .. Len(X) + Len(Y) : (X \o Y)[i] = IF i <= Len(X) THEN X[i] ELSE Y[i - Len(X)]
  OBVIOUS
<1>2. ASSUME NEW i \in 1 .. Len(X) + Len(Y), (X \o Y)[i].fn = "Acquire"
      PROVE  i \in DOMAIN X /\ (X \o Y)[i] = X[i]
  <2>1. CASE i <= Len(X)
    BY <1>1, <2>1
  <2>2. CASE ~(i <= Len(X))
    <3>1. i - Len(X) \in DOMAIN Y /\ (X \o Y)[i] = Y[i - Len(X)]
      BY <1>1, <2>2
    <3>2. Y[i - Len(X)] \in Range(Y)
      BY <3>1 DEF Range
    <3>3. QED
      BY <1>2, <3>1, <3>2
  <2>3. QED
    BY <2>1, <2>2
<1>3. QED
  BY <1>1, <1>2 DEF DistinctAcquires

(* A list that names no object twice is acquired once each. *)
LEMMA DistinctForEach ==
  ASSUME NEW t, NEW objs, IsInjective(objs)
  PROVE  DistinctAcquires(ForEach("Acquire", t, objs))
BY FrameOf DEF DistinctAcquires, ForEach, IsInjective

(* The calls that wake a thread. *)
LEMMA DistinctWake ==
  ASSUME NEW t \in Threads, NEW granted \in Seq(Objects), NEW objs \in Seq(Objects), NEW Y \in Seq(Frames),
         IsInjective(granted), \A g \in Range(Y) : g.fn # "Acquire"
  PROVE  /\ DistinctAcquires(WakeFrames(t, granted, objs) \o Y)
         /\ \A g \in Range(WakeFrames(t, granted, objs) \o Y) :
              g.fn = "Acquire" => \E x \in Range(granted) : g = Frame("Acquire", t, x)
<1> DEFINE A == ForEach("Acquire", t, granted)
           R == ForEach("RemoveWaiting", t, objs)
           W == <<Frame("Wakeup", t, Null)>>
<1>1. A \in Seq(Frames) /\ R \in Seq(Frames) /\ W \in Seq(Frames)
  BY ForEachType, FrameType
<1>2. DistinctAcquires(A)
  BY DistinctForEach
<1>3. \A g \in Range(A) : \E x \in Range(granted) : g = Frame("Acquire", t, x)
  BY ForEachFrames
<1>4. \A g \in Range(R) \cup Range(W) : g.fn # "Acquire"
  <2>1. Range(W) = {Frame("Wakeup", t, Null)}
    BY RangeSingle
  <2>2. \A g \in Range(R) : g.fn = "RemoveWaiting"
    BY ForEachFrames
  <2>3. QED
    BY <2>1, <2>2, FrameOf
<1>5. WakeFrames(t, granted, objs) = (A \o R) \o W
  BY DEF WakeFrames
<1> HIDE DEF A, R, W
<1>6. A \o R \in Seq(Frames) /\ DistinctAcquires(A \o R) /\ Range(A \o R) = Range(A) \cup Range(R)
  BY <1>1, <1>2, <1>4, DistinctConcat, RangeConcat
<1> DEFINE P == A \o R
<1> HIDE DEF P
<1>7. P \in Seq(Frames) /\ DistinctAcquires(P) /\ Range(P) = Range(A) \cup Range(R)
  BY <1>6 DEF P
<1>8. P \o W \in Seq(Frames) /\ DistinctAcquires(P \o W) /\ Range(P \o W) = Range(P) \cup Range(W)
  BY <1>1, <1>4, <1>7, DistinctConcat, RangeConcat
<1> DEFINE Q == P \o W
<1> HIDE DEF Q
<1>9. Q \in Seq(Frames) /\ DistinctAcquires(Q) /\ Range(Q) = Range(P) \cup Range(W) /\ WakeFrames(t, granted, objs) = Q
  BY <1>5, <1>8 DEF P, Q
<1>10. DistinctAcquires(Q \o Y) /\ Range(Q \o Y) = Range(Q) \cup Range(Y)
  BY <1>9, DistinctConcat, RangeConcat
<1>11. QED
  BY <1>3, <1>4, <1>7, <1>9, <1>10

\* What the asserts rest on: a wait names no object twice and not the thread itself; what is about to be
\* acquired is available, and acquired once; an object that is being signalled while a dead thread is still
\* in lists is that thread, which is in no list of its own; only a thread that waits has a wakeup callback;
\* and who is about to be resumed sleeps, or is ready already
WaitsDistinct == \A t \in Threads : IsInjective(wait_objects[t]) /\ t \notin Range(wait_objects[t])
AcquiresAvailable == \A t, o : Frame("Acquire", t, o) \in Range(todo) /\ o \notin Semaphores => ~ShouldWait(o, t)
WakesOwn ==
  \A t, o, x : Waking(o) /\ Frame("RemoveWaiting", t, x) \in Range(todo) /\ status[t] = "Dead" => o = t
PartsFromOthers == \A t \in Threads : ~Parting(t, t)
CallbacksWaiting == \A t \in Threads : wakeup_callback[t] => status[t] \in SyncStatus \cup {"Dead"}
ResumesSleepers ==
  \A t \in Threads : Frame("Resume", t, Null) \in Range(todo) =>
                       wait_objects[t] = <<>> /\ status[t] \in {"Ready", "WaitSleep"}

AssertInv == /\ WaitsDistinct /\ DistinctAcquires(todo) /\ AcquiresAvailable /\ WakesOwn
             /\ PartsFromOthers /\ CallbacksWaiting /\ ResumesSleepers

(* Waking and stopping a thread take it off the lists of what it waits for and off no other. *)
LEMMA PartingCalls ==
  ASSUME NEW t \in Threads, NEW granted \in Seq(Objects), NEW objs \in Seq(Objects), NEW x,
         \/ Frame("RemoveWaiting", t, x) \in Range(WakeFrames(t, granted, objs))
         \/ Frame("RemoveWaiting", t, x) \in Range(StopFrames(t, objs))
  PROVE  x \in Range(objs)
<1> DEFINE g == Frame("RemoveWaiting", t, x)
           R == ForEach("RemoveWaiting", t, objs)
           A == ForEach("Acquire", t, granted)
           W == <<Frame("Wakeup", t, Null)>>
           K == <<Frame("Wake", Null, t)>>
           M == <<Frame("ReleaseMutexes", t, Null)>>
<1>1. /\ A \in Seq(Frames) /\ R \in Seq(Frames) /\ W \in Seq(Frames) /\ M \in Seq(Frames)
      /\ g.fn = "RemoveWaiting" /\ g.obj = x
  BY ForEachType, FrameType, FrameOf
<1>2. K \in Seq(Frames)
  <2>1. t \in Objects
    BY DEF Objects
  <2>2. QED
    BY <2>1, FrameType
<1>3. /\ Range(W) = {Frame("Wakeup", t, Null)} /\ Range(K) = {Frame("Wake", Null, t)}
      /\ Range(M) = {Frame("ReleaseMutexes", t, Null)}
  BY RangeSingle
<1>4. g \notin Range(W) /\ g \notin Range(K) /\ g \notin Range(M)
  <2>1. \A h \in Range(W) \cup Range(K) \cup Range(M) : h.fn \in {"Wakeup", "Wake", "ReleaseMutexes"}
    BY <1>3, FrameOf
  <2>2. QED
    BY <1>1, <2>1
<1>5. g \notin Range(A)
  BY <1>1, ForEachFrames
<1>6. g \in Range(R) => x \in Range(objs)
  BY ForEachFrames, FrameOf
<1>7. WakeFrames(t, granted, objs) = (A \o R) \o W /\ StopFrames(t, objs) = (K \o R) \o M
  BY DEF WakeFrames, StopFrames
<1>8. g \in Range(WakeFrames(t, granted, objs)) \/ g \in Range(StopFrames(t, objs))
  OBVIOUS
<1> HIDE DEF g, R, A, W, K, M
<1> DEFINE P == A \o R
           Q == K \o R
<1>9. /\ P \in Seq(Frames) /\ Range(P) = Range(A) \cup Range(R)
      /\ Q \in Seq(Frames) /\ Range(Q) = Range(K) \cup Range(R)
  BY <1>1, <1>2, RangeConcat
<1> HIDE DEF P, Q
<1>10. Range(P \o W) = Range(P) \cup Range(W) /\ Range(Q \o M) = Range(Q) \cup Range(M)
  BY <1>1, <1>9, RangeConcat
<1>11. QED
  BY <1>4, <1>5, <1>6, <1>7, <1>8, <1>9, <1>10 DEF P, Q

(* One round of WakeupAllWaitingThreads: the thread gets what it waited for, and all of it is available. *)
LEMMA WakeGrants ==
  ASSUME TypeOK, WaitsDistinct, RunFrame, Head(todo).fn = "Wake", todo' # Tail(todo)
  PROVE  /\ \E t \in Threads, granted \in Seq(Objects) :
              /\ todo' = WakeFrames(t, granted, wait_objects[t]) \o todo
              /\ IsInjective(granted) /\ \A x \in Range(granted) : ~ShouldWait(x, t)
         /\ UNCHANGED <<signaled, available_count, lock_count, holding_thread, status>>
<1>1. PICK o \in Objects : o = Head(todo).obj
  BY TailType, FrameArguments DEF RunFrame
<1>2. WakeupAllWaitingThreads(o)
  BY <1>1 DEF RunFrame
<1>3. PICK i \in Candidates(o) : WakeOne(o, waiting_threads[o][i])
  BY <1>2 DEF WakeupAllWaitingThreads, WakeEnd, Return
<1>4. UNCHANGED <<signaled, available_count, lock_count, holding_thread, status>>
  BY <1>2, <1>3 DEF WakeupAllWaitingThreads, WakeOne, mutex_vars
<1>5. PICK t \in Threads : t = waiting_threads[o][i]
  BY DEF Candidates, TypeOK
<1>6. ~ShouldWait(o, t) /\ ReadyToRun(t) /\ wait_objects[t] \in Seq(Objects)
  BY <1>5 DEF Candidates, TypeOK
<1> DEFINE granted == IF status[t] = "WaitSynchAll" THEN wait_objects[t] ELSE <<o>>
<1>7. todo' = WakeFrames(t, granted, wait_objects[t]) \o todo
  BY <1>3, <1>5 DEF WakeOne, CallAgain, WakeFrames
<1>8. granted \in Seq(Objects) /\ IsInjective(granted)
  BY <1>6 DEF WaitsDistinct, IsInjective
<1>9. \A x \in Range(granted) : ~ShouldWait(x, t)
  <2>1. CASE status[t] = "WaitSynchAll"
    BY <1>6, <2>1 DEF ReadyToRun, Range
  <2>2. CASE status[t] # "WaitSynchAll"
    BY <1>6, <2>2, RangeSingle
  <2>3. QED
    BY <2>1, <2>2
<1> HIDE DEF granted
<1>10. QED
  BY <1>4, <1>7, <1>8, <1>9

(* Acquiring one object makes no other one unavailable. *)
LEMMA AcquireLeaves ==
  ASSUME TypeOK, NEW t \in Threads, NEW o \in Objects, Acquire(t, o), NEW x, x # o, NEW u, ShouldWait(x, u)'
  PROVE  ShouldWait(x, u)
<1> USE DEF thread_vars, prio_vars, mutex_vars, wait_vars, signal_vars, event_vars, loop_vars, core_vars
<1>1. status' = status
  BY DEF Acquire
<1>2. CASE o \in Mutexes /\ AcquireMutex(o, t)
  <2>1. UNCHANGED signal_vars /\ lock_count' = [lock_count EXCEPT ![o] = @ + 1]
    BY <1>2 DEF AcquireMutex
  <2>2. holding_thread' = holding_thread \/ holding_thread' = [holding_thread EXCEPT ![o] = t]
    BY <1>2 DEF AcquireMutex
  <2>3. \A m \in Mutexes : m # o => lock_count'[m] = lock_count[m] /\ holding_thread'[m] = holding_thread[m]
    BY <2>1, <2>2 DEF TypeOK
  <2>4. QED
    BY <1>1, <2>1, <2>3 DEF ShouldWait, MutexShouldWait
<1>3. CASE o \in Semaphores /\ AcquireSemaphore(o)
  <2>1. UNCHANGED <<mutex_vars, signaled>> /\ \A s \in Semaphores : s # o => available_count'[s] = available_count[s]
    BY <1>3 DEF AcquireSemaphore
  <2>2. QED
    BY <1>1, <2>1 DEF ShouldWait, MutexShouldWait
<1>4. CASE o \in Signals /\ AcquireSignal(o)
  <2>1. UNCHANGED <<mutex_vars, available_count>> /\ \A e \in Signals : e # o => signaled'[e] = signaled[e]
    BY <1>4 DEF AcquireSignal
  <2>2. QED
    BY <1>1, <2>1 DEF ShouldWait, MutexShouldWait
<1>5. CASE o \in Threads /\ AcquireThread(o)
  <2>1. UNCHANGED <<mutex_vars, signal_vars>>
    BY <1>5 DEF AcquireThread
  <2>2. QED
    BY <1>1, <2>1 DEF ShouldWait, MutexShouldWait
<1>6. QED
  BY <1>2, <1>3, <1>4, <1>5 DEF Acquire

(* The calls that acquire nothing, and do not wake a thread, leave nothing to acquire. *)
LEMMA NoAcquireLeft ==
  ASSUME TypeOK, CallsShaped, RunFrame, Head(todo).fn # "Acquire", Head(todo).fn = "Wake" => todo' = Tail(todo),
         NEW g \in Range(todo')
  PROVE  g.fn # "Acquire"
<1>1. todo # <<>> /\ Range(todo) = {Head(todo)} \cup Range(Tail(todo))
  BY TodoParts DEF RunFrame
<1>2. \A x \in Range(Tail(todo)) : x.fn # "Acquire"
  BY <1>1, TailBelow DEF Below
<1>3. CASE Head(todo).fn = "Wake"
  BY <1>2, <1>3
<1>4. CASE Head(todo).fn # "Wake"
  <2>1. g \in Range(todo) \/ g.fn \in {"Stop", "Wake", "RemoveWaiting", "ReleaseMutexes"}
    BY <1>4, PushedBy
  <2>2. QED
    BY <1>1, <1>2, <2>1
<1>5. QED
  BY <1>3, <1>4

(* Every call leaves only available objects to acquire, each once. *)
LEMMA FrameAcquires ==
  ASSUME TypeOK, TypeOK', SchedulerInv, WaitsDistinct, DistinctAcquires(todo), AcquiresAvailable, RunFrame
  PROVE  DistinctAcquires(todo') /\ AcquiresAvailable'
<1> DEFINE f == Head(todo)
<1>1. /\ todo # <<>> /\ f \in Frames /\ Range(todo) = {f} \cup Range(Tail(todo)) /\ CallsShaped
      /\ todo \in Seq(Frames) /\ Tail(todo) \in Seq(Frames)
  BY TodoParts DEF RunFrame, SchedulerInv
<1>2. CASE f.fn = "Acquire"
  <2>1. todo' = Tail(todo) /\ f.thr \in Threads /\ f.obj \in Objects /\ Acquire(f.thr, f.obj)
    BY <1>1, <1>2, FrameArguments DEF RunFrame, Acquire, Return
  <2>2. /\ DistinctAcquires(Tail(todo))
        /\ \A g \in Range(Tail(todo)) : g.fn = "Acquire" => g.obj # f.obj
    BY <1>1, <1>2, DistinctTail
  <2>3. ASSUME NEW t, NEW o, Frame("Acquire", t, o) \in Range(todo'), o \notin Semaphores, ShouldWait(o, t)'
        PROVE  FALSE
    <3>1. Frame("Acquire", t, o) \in Range(Tail(todo)) /\ Frame("Acquire", t, o) \in Range(todo)
      BY <1>1, <2>1, <2>3
    <3>2. o # f.obj
      BY <2>2, <3>1, FrameOf
    <3>3. ShouldWait(o, t)
      BY <2>1, <2>3, <3>2, AcquireLeaves
    <3>4. QED
      BY <2>3, <3>1, <3>3 DEF AcquiresAvailable
  <2>4. QED
    BY <2>1, <2>2, <2>3 DEF AcquiresAvailable
<1>3. CASE f.fn = "Wake" /\ todo' # Tail(todo)
  <2>1. PICK t \in Threads, granted \in Seq(Objects) :
          /\ todo' = WakeFrames(t, granted, wait_objects[t]) \o todo
          /\ IsInjective(granted) /\ \A x \in Range(granted) : ~ShouldWait(x, t)
    BY <1>3, WakeGrants
  <2>2. UNCHANGED <<signaled, available_count, lock_count, holding_thread, status>>
    BY <1>3, WakeGrants
  <2>3. \A g \in Range(todo) : g.fn # "Acquire"
    BY <1>1, <1>3, TailBelow DEF Below
  <2>4. wait_objects[t] \in Seq(Objects)
    BY DEF TypeOK
  <2>5. /\ DistinctAcquires(todo')
        /\ \A g \in Range(todo') : g.fn = "Acquire" => \E x \in Range(granted) : g = Frame("Acquire", t, x)
    BY <1>1, <2>1, <2>3, <2>4, DistinctWake
  <2>6. \A x, u : ShouldWait(x, u)' <=> ShouldWait(x, u)
    BY <2>2 DEF ShouldWait, MutexShouldWait
  <2>7. \A u, o : Frame("Acquire", u, o) \in Range(todo') => u = t /\ o \in Range(granted)
    BY <2>5, FrameOf
  <2>8. QED
    BY <2>1, <2>5, <2>6, <2>7 DEF AcquiresAvailable
<1>4. CASE f.fn # "Acquire" /\ (f.fn = "Wake" => todo' = Tail(todo))
  <2>1. \A g \in Range(todo') : g.fn # "Acquire"
    BY <1>1, <1>4, NoAcquireLeft
  <2>2. \A i \in DOMAIN todo' : todo'[i] \in Range(todo')
    BY DEF Range
  <2>3. QED
    BY <2>1, <2>2, FrameOf DEF DistinctAcquires, AcquiresAvailable
<1>5. QED
  BY <1>2, <1>3, <1>4

(* Every call keeps what the asserts rest on. *)
LEMMA FrameAsserts ==
  ASSUME TypeOK, TypeOK', SchedulerInv, AssertInv, RunFrame
  PROVE  AssertInv'
<1> DEFINE f == Head(todo)
<1>1. /\ todo # <<>> /\ f \in Frames /\ Range(todo) = {f} \cup Range(Tail(todo)) /\ CallsShaped
      /\ todo \in Seq(Frames) /\ Tail(todo) \in Seq(Frames)
  BY TodoParts DEF RunFrame, SchedulerInv
<1>2. WaitsDistinct'
  <2>1. IsInjective(<<>>) /\ Range(<<>>) = {}
    BY DEF IsInjective, Range
  <2>2. \A t \in Threads : wait_objects'[t] = wait_objects[t] \/ wait_objects'[t] = <<>>
    BY WaitStep
  <2>3. QED
    BY <2>1, <2>2 DEF AssertInv, WaitsDistinct
<1>3. DistinctAcquires(todo') /\ AcquiresAvailable'
  BY FrameAcquires DEF AssertInv
<1>4. WakesOwn'
  <2> SUFFICES ASSUME NEW t, NEW o, NEW x, Waking(o)', Frame("RemoveWaiting", t, x) \in Range(todo'), status'[t] = "Dead"
               PROVE  o = t
    BY DEF WakesOwn
  <2> DEFINE r == Frame("RemoveWaiting", t, x)
             w == Frame("Wake", Null, o)
  <2>1. r.fn = "RemoveWaiting" /\ r.thr = t /\ w.fn = "Wake" /\ w.obj = o /\ w \in Range(todo')
    BY FrameOf DEF Waking
  <2>2. t \in Threads
    <3>1. r \in Frames
      BY DEF TypeOK, Range
    <3>2. QED
      BY <2>1, <3>1, FrameArguments
  <2>3. CASE f.fn = "Stop" /\ f.thr = t
    <3> DEFINE S == StopFrames(t, wait_objects[t])
    <3>1. todo' = S \o Tail(todo)
      BY <2>3, FrameStep
    <3>2. S \in Seq(Frames) /\ \A g \in Range(S) : g.fn = "Wake" => g = Frame("Wake", Null, t)
      BY <2>2, StopList, ZenonT(30) DEF TypeOK
    <3> HIDE DEF S
    <3>3. w \in Range(S) \cup Range(Tail(todo))
      BY <1>1, <2>1, <3>1, <3>2, PushedRange
    <3>4. w \notin Range(Tail(todo))
      BY <1>1, <2>1, <2>3, TailBelow DEF Below, WakeCalls
    <3>5. QED
      BY <2>1, <3>2, <3>3, <3>4, FrameOf
  <2>4. CASE ~(f.fn = "Stop" /\ f.thr = t)
    <3>1. status[t] = "Dead"
      BY <2>2, <2>4, BecomesDead
    <3>2. r \in Range(todo)
      BY <2>1, <2>4, <3>1, PushedBy DEF SyncStatus
    <3>3. w \in Range(todo)
      <4>1. ASSUME w \notin Range(todo) PROVE FALSE
        <5>1. f.fn \in {"Stop", "ReleaseMutexes"}
          BY <2>1, <4>1, PushedBy DEF WakeCalls
        <5>2. r \in Range(Tail(todo))
          BY <1>1, <2>1, <3>2, <5>1
        <5>3. QED
          BY <1>1, <2>1, <5>1, <5>2, TailBelow DEF Below, WakeCalls
      <4>2. QED
        BY <4>1
    <3>4. QED
      BY <3>1, <3>2, <3>3 DEF AssertInv, WakesOwn, Waking
  <2>5. QED
    BY <2>3, <2>4
<1>5. CallbacksWaiting'
  <2> SUFFICES ASSUME NEW t \in Threads, wakeup_callback'[t] PROVE status'[t] \in SyncStatus \cup {"Dead"}
    BY DEF CallbacksWaiting
  <2>1. wakeup_callback[t] /\ ~(f.fn \in {"Wakeup", "Resume"} /\ f.thr = t /\ status[t] \in SyncStatus)
    <3>1. CASE f.fn \in {"Wakeup", "Resume"}
      BY <3>1, ZenonT(30) DEF RunFrame, Wakeup, Resume, ResumeFromWait, TypeOK, BlockedStatus
    <3>2. CASE f.fn \notin {"Wakeup", "Resume"}
      BY <3>2 DEF RunFrame, Acquire, AddWaitingThread, RemoveWaitingThread, WakeupAllWaitingThreads, Rearm,
             UpdatePendingMutex, Stop, ReleaseThreadMutexes, TerminateProcessThreads, Reschedule, thread_vars
    <3>3. QED
      BY <3>1, <3>2
  <2>2. status[t] \in SyncStatus \cup {"Dead"}
    BY <2>1 DEF AssertInv, CallbacksWaiting
  <2>3. CASE status[t] = "Dead"
    BY <2>3, DeadStays
  <2>4. CASE status[t] \in SyncStatus /\ status'[t] # status[t]
    <3>1. f.fn = "Stop" /\ f.thr = t
      BY <2>1, <2>4, WaitStep
    <3>2. status'[t] = "Dead"
      BY <3>1 DEF RunFrame, Stop, TypeOK
    <3>3. QED
      BY <3>2
  <2>5. QED
    BY <2>2, <2>3, <2>4
<1>6. ResumesSleepers'
  <2>1. ASSUME NEW t \in Threads, Frame("Resume", t, Null) \in Range(todo') PROVE FALSE
    <3> DEFINE g == Frame("Resume", t, Null)
    <3>1. g.fn = "Resume"
      BY FrameOf
    <3>2. g \in Range(todo) /\ g \notin Range(Tail(todo))
      BY <1>1, <2>1, <3>1, PushedBy, TailBelow DEF Below, WakeCalls
    <3>3. f.fn = "Resume"
      BY <1>1, <3>1, <3>2
    <3>4. todo' = Tail(todo)
      BY <3>3, FrameStep
    <3>5. QED
      BY <2>1, <3>2, <3>4
  <2>2. QED
    BY <2>1 DEF ResumesSleepers
<1>7. PartsFromOthers'
  <2> SUFFICES ASSUME NEW t \in Threads, Frame("RemoveWaiting", t, t) \in Range(todo') PROVE FALSE
    BY DEF PartsFromOthers, Parting
  <2> DEFINE g == Frame("RemoveWaiting", t, t)
  <2>1. /\ g.fn = "RemoveWaiting" /\ g.thr = t /\ g \notin Range(todo) /\ t \notin Range(wait_objects[t])
        /\ wait_objects[t] \in Seq(Objects)
    BY FrameOf DEF AssertInv, PartsFromOthers, Parting, WaitsDistinct, TypeOK
  <2>2. CASE f.fn = "Stop"
    <3>1. f.thr = t
      BY <2>1, <2>2, PushedBy
    <3> DEFINE S == StopFrames(t, wait_objects[t])
    <3>2. todo' = S \o Tail(todo) /\ S \in Seq(Frames)
      BY <2>1, <2>2, <3>1, FrameStep, StopList
    <3>3. g \notin Range(S)
      BY <2>1, PartingCalls
    <3> HIDE DEF S
    <3>4. Range(todo') = Range(S) \cup Range(Tail(todo))
      BY <1>1, <3>2, PushedRange
    <3>5. QED
      BY <1>1, <2>1, <3>3, <3>4
  <2>3. CASE f.fn = "Wake"
    <3>1. todo' # Tail(todo)
      BY <1>1, <2>1
    <3>2. PICK u \in Threads, granted \in Seq(Objects) : todo' = WakeFrames(u, granted, wait_objects[u]) \o todo
      BY <2>3, <3>1, WakeGrants DEF AssertInv
    <3>3. wait_objects[u] \in Seq(Objects)
      BY DEF TypeOK
    <3> DEFINE K == WakeFrames(u, granted, wait_objects[u])
    <3>4. K \in Seq(Frames) /\ \A h \in Range(K) : h.thr = u
      BY <3>3, WakeList
    <3>5. u = t => g \notin Range(K)
      BY <2>1, PartingCalls
    <3> HIDE DEF K
    <3>6. Range(todo') = Range(K) \cup Range(todo)
      BY <1>1, <3>2, <3>4, PushedRange DEF K
    <3>7. QED
      BY <2>1, <3>4, <3>5, <3>6
  <2>4. QED
    BY <2>1, <2>2, <2>3, PushedBy
<1>8. QED
  BY <1>2, <1>3, <1>4, <1>5, <1>6, <1>7 DEF AssertInv

(* What an SVC does to the waits of its caller: it takes what is available, or starts to wait for its arguments. *)
LEMMA CallArguments ==
  ASSUME TypeOK, ListsDistinct, NEW t \in Threads, ThreadCall(t)
  PROVE  \/ /\ \A g \in Range(todo') : g.fn # "Acquire"
            /\ UNCHANGED <<wakeup_callback, wait_objects>>
            /\ \/ status' = status
               \/ \E x \in Threads : status[x] = "Unborn" /\ status' = [status EXCEPT ![x] = "Ready"]
               \/ status' = [status EXCEPT ![t] = "WaitSleep"]
         \/ /\ \E granted \in Seq(Objects) : /\ todo' = ForEach("Acquire", t, granted) /\ IsInjective(granted)
                                             /\ \A x \in Range(granted) : ~ShouldWait(x, t)
            /\ UNCHANGED <<wakeup_callback, wait_objects, status, lock_count, holding_thread, available_count, signaled>>
         \/ /\ \A g \in Range(todo') : g.fn # "Acquire"
            /\ \E st \in SyncStatus : status' = [status EXCEPT ![t] = st]
            /\ \E objs : WaitArgument(t, objs) /\ wait_objects' = [wait_objects EXCEPT ![t] = objs]
            /\ wakeup_callback' = [wakeup_callback EXCEPT ![t] = TRUE]
<1> USE DEF thread_vars, prio_vars, mutex_vars, wait_vars, signal_vars, event_vars, loop_vars, core_vars
<1> DEFINE Others == /\ \A g \in Range(todo') : g.fn # "Acquire"
                     /\ UNCHANGED <<wakeup_callback, wait_objects>>
                     /\ \/ status' = status
                        \/ \E x \in Threads : status[x] = "Unborn" /\ status' = [status EXCEPT ![x] = "Ready"]
                        \/ status' = [status EXCEPT ![t] = "WaitSleep"]
           Taken(granted) == /\ todo' = ForEach("Acquire", t, granted) /\ IsInjective(granted)
                             /\ \A x \in Range(granted) : ~ShouldWait(x, t)
           Same == UNCHANGED <<wakeup_callback, wait_objects, status, lock_count, holding_thread, available_count, signaled>>
           Begun == /\ \A g \in Range(todo') : g.fn # "Acquire"
                    /\ \E st \in SyncStatus : status' = [status EXCEPT ![t] = st]
                    /\ \E objs : WaitArgument(t, objs) /\ wait_objects' = [wait_objects EXCEPT ![t] = objs]
                    /\ wakeup_callback' = [wakeup_callback EXCEPT ![t] = TRUE]
           Goal == Others \/ (Same /\ \E granted \in Seq(Objects) : Taken(granted)) \/ Begun
<1>1. todo = <<>> /\ Range(<<>>) = {}
  BY CallEffect DEF Range
<1>2. ASSUME WaitUnchanged, TimeoutNow PROVE Others
  BY <1>1, <1>2 DEF TimeoutNow, WaitUnchanged
<1>3. ASSUME NEW granted \in Seq(Objects), IsInjective(granted), \A x \in Range(granted) : ~ShouldWait(x, t),
             WaitUnchanged, AcquireNow(t, granted)
      PROVE  Same /\ Taken(granted)
  BY <1>3 DEF AcquireNow, WaitUnchanged
<1>4. ASSUME NEW objs, WaitArgument(t, objs), NEW st \in SyncStatus, NEW ns, Suspend(t, objs, st, ns) PROVE Begun
  <2>1. \A g \in Range(todo') : g.fn # "Acquire"
    <3>1. \A g \in Range(todo') : g.fn = "AddWaiting"
      BY <1>4, ForEachFrames DEF Suspend
    <3>2. QED
      BY <3>1
  <2>2. QED
    BY <1>4, <2>1 DEF Suspend
<1>5. ASSUME NEW o \in Waitable(t), NEW ns \in Delays, WaitSynchronization1(t, o, ns) PROVE Goal
  <2>1. <<o>> \in Seq(Objects) /\ Range(<<o>>) = {o} /\ IsInjective(<<o>>) /\ WaitArgument(t, <<o>>)
    BY RangeSingle, ArgumentsAssumption DEF Waitable, Objects, IsInjective, WaitArgument
  <2>2. WaitUnchanged
    BY <1>5 DEF WaitSynchronization1
  <2>3. \/ ~ShouldWait(o, t) /\ AcquireNow(t, <<o>>)
        \/ TimeoutNow
        \/ Suspend(t, <<o>>, "WaitSynchAny", ns)
    BY <1>5 DEF WaitSynchronization1
  <2>4. "WaitSynchAny" \in SyncStatus
    BY DEF SyncStatus
  <2> HIDE DEF Others, Taken, Same, Begun
  <2>5. CASE ~ShouldWait(o, t) /\ AcquireNow(t, <<o>>)
    BY <1>3, <2>1, <2>2, <2>5
  <2>6. QED
    BY <1>2, <1>4, <2>1, <2>2, <2>3, <2>4, <2>5
<1>6. ASSUME NEW objs \in WaitLists, NEW all \in BOOLEAN, NEW ns \in Delays, WaitSynchronizationN(t, objs, all, ns)
      PROVE  Goal
  <2> DEFINE free == {i \in DOMAIN objs : ~ShouldWait(objs[i], t)}
             st == IF all THEN "WaitSynchAll" ELSE "WaitSynchAny"
  <2>1. objs \in Seq(Objects) /\ IsInjective(objs) /\ WaitArgument(t, objs) /\ WaitUnchanged
    BY <1>6, ArgumentsAssumption DEF ListsDistinct, WaitArgument, WaitSynchronizationN
  <2>2. \/ free = DOMAIN objs /\ AcquireNow(t, objs)
        \/ free # {} /\ AcquireNow(t, <<objs[Min(free)]>>)
        \/ TimeoutNow
        \/ Suspend(t, objs, st, ns)
    BY <1>6 DEF WaitSynchronizationN
  <2>3. st \in SyncStatus
    BY DEF SyncStatus
  <2>4. free = DOMAIN objs => \A x \in Range(objs) : ~ShouldWait(x, t)
    BY DEF Range
  <2>5. ASSUME free # {}
        PROVE  \E o \in Objects : <<objs[Min(free)]>> = <<o>> /\ ~ShouldWait(o, t)
    <3>1. free \subseteq Nat
      BY <2>1
    <3>2. Min(free) \in free
      BY <2>5, <3>1, MinNat
    <3>3. objs[Min(free)] \in Objects /\ ~ShouldWait(objs[Min(free)], t)
      BY <2>1, <3>2
    <3>4. QED
      BY <3>3
  <2> HIDE DEF free, st, Others, Taken, Same, Begun
  <2>6. CASE free = DOMAIN objs /\ AcquireNow(t, objs)
    BY <1>3, <2>1, <2>4, <2>6
  <2>7. CASE free # {} /\ AcquireNow(t, <<objs[Min(free)]>>)
    <3>1. PICK o \in Objects : <<objs[Min(free)]>> = <<o>> /\ ~ShouldWait(o, t)
      BY <2>5, <2>7
    <3>2. <<o>> \in Seq(Objects) /\ Range(<<o>>) = {o} /\ IsInjective(<<o>>)
      BY RangeSingle DEF IsInjective
    <3>3. Same /\ Taken(<<o>>)
      BY <1>3, <2>1, <2>7, <3>1, <3>2
    <3>4. QED
      BY <3>2, <3>3
  <2>8. QED
    BY <1>2, <1>4, <2>1, <2>2, <2>3, <2>6, <2>7
<1>7. ASSUME \/ \E x \in Threads : CreateThread(t, x)
             \/ \E ns \in Delays : SleepThread(t, ns)
             \/ \E e \in Signals : ClearSignal(t, e)
             \/ \E tm \in Timers : CancelTimer(t, tm)
      PROVE  Others
  BY <1>1, <1>7 DEF CreateThread, SleepThread, ClearSignal, CancelTimer
<1>8. ASSUME \/ ExitThread(t)
             \/ \E p \in Threads : TerminateProcess(t, p)
             \/ \E x \in Threads, p \in SetPriorities : SetThreadPriority(t, x, p)
             \/ \E s \in Semaphores, n \in ReleaseCounts : ReleaseSemaphore(t, s, n)
             \/ \E e \in Events : SignalEvent(t, e)
             \/ \E m \in Mutexes : ReleaseMutex(t, m)
             \/ \E tm \in Timers, initial \in BOOLEAN, interval \in BOOLEAN : SetTimer(t, tm, initial, interval)
      PROVE  Others
  <2>1. UNCHANGED <<status, wakeup_callback, wait_objects>>
    BY <1>8 DEF ExitThread, TerminateProcess, SetThreadPriority, ReleaseSemaphore, SignalEvent, EventSignal,
           ReleaseMutex, SetTimer
  <2>2. \/ todo' = <<>>
        \/ \E fn \in {"Stop", "Wake"} : \E x, o : todo' = <<Frame(fn, x, o)>>
        \/ \E p : todo' = [i \in 1 .. NumCores |-> Frame("TerminateThreads", p, i - 1)]
        \/ \E order : todo' = ForEach("UpdatePriority", Null, order)
        \/ \E tm : todo' = <<Frame("Wake", Null, tm), Frame("Rearm", Null, tm)>>
    <3>1. CASE ExitThread(t)
      BY <3>1 DEF ExitThread
    <3>2. CASE \E p \in Threads : TerminateProcess(t, p)
      BY <3>2 DEF TerminateProcess
    <3>3. CASE \E x \in Threads, p \in SetPriorities : SetThreadPriority(t, x, p)
      BY <3>3 DEF SetThreadPriority
    <3>4. CASE \/ \E s \in Semaphores, n \in ReleaseCounts : ReleaseSemaphore(t, s, n)
               \/ \E e \in Events : SignalEvent(t, e)
               \/ \E m \in Mutexes : ReleaseMutex(t, m)
      BY <1>1, <3>4 DEF ReleaseSemaphore, SignalEvent, EventSignal, ReleaseMutex
    <3>5. CASE \E tm \in Timers, initial \in BOOLEAN, interval \in BOOLEAN : SetTimer(t, tm, initial, interval)
      BY <1>1, <3>5 DEF SetTimer, TimerFrames
    <3>6. QED
      BY <1>8, <3>1, <3>2, <3>3, <3>4, <3>5
  <2>3. \A g \in Range(todo') : g.fn # "Acquire"
    <3>1. CASE todo' = <<>>
      BY <1>1, <3>1
    <3>2. CASE \E fn \in {"Stop", "Wake"} : \E x, o : todo' = <<Frame(fn, x, o)>>
      BY <3>2, RangeSingle, FrameOf
    <3>3. CASE \E p : todo' = [i \in 1 .. NumCores |-> Frame("TerminateThreads", p, i - 1)]
      BY <3>3, FrameOf DEF Range
    <3>4. CASE \E order : todo' = ForEach("UpdatePriority", Null, order)
      BY <3>4, ForEachFrames
    <3>5. CASE \E tm : todo' = <<Frame("Wake", Null, tm), Frame("Rearm", Null, tm)>>
      <4>1. PICK tm : todo' = <<Frame("Wake", Null, tm), Frame("Rearm", Null, tm)>>
        BY <3>5
      <4>2. Range(todo') = {Frame("Wake", Null, tm), Frame("Rearm", Null, tm)}
        BY <4>1 DEF Range
      <4>3. QED
        BY <4>2, FrameOf
    <3>6. QED
      BY <2>2, <3>1, <3>2, <3>3, <3>4, <3>5
  <2>4. QED
    BY <2>1, <2>3
<1> HIDE DEF Others, Taken, Same, Begun
<1>9. Goal
  BY <1>5, <1>6, <1>7, <1>8 DEF ThreadCall
<1>10. QED
  BY <1>9 DEF Others, Taken, Same, Begun

(* Between handlers nothing is pending: a handler keeps what the asserts rest on if its own calls do. *)
LEMMA HandlerAsserts ==
  ASSUME TypeOK, TypeOK', SchedulerInv, WaitInv, StopInv, AssertInv, SoundArguments,
         RunLoop \/ \E t \in Threads : ThreadCall(t)
  PROVE  AssertInv'
<1>1. todo = <<>> /\ \A t \in Threads : ~Leaving(t)
  BY HandlerStarts, NobodyMoves
<1>2. WakesOwn'
  <2>1. \/ \A g \in Range(todo') : g.fn # "RemoveWaiting"
        \/ \A g \in Range(todo') : g.fn # "Wake"
    <3>1. CASE WaitsAlone
      BY <3>1 DEF WaitsAlone, PlainCalls
    <3>2. ASSUME NEW t \in Threads, WaitTimesOut(t) PROVE \A g \in Range(todo') : g.fn # "Wake"
      <4>1. wait_objects[t] \in Seq(Objects) /\ <<>> \in Seq(Objects)
        BY DEF TypeOK
      <4>2. \A g \in Range(WakeFrames(t, <<>>, wait_objects[t])) : g.fn \in WakeCalls
        BY <4>1, WakeList
      <4>3. QED
        BY <3>2, <4>2 DEF WaitTimesOut, WakeCalls
    <3>3. ASSUME NEW t \in Threads, NEW objs \in Seq(Objects), NEW st \in SyncStatus, WaitStarts(t, objs, st)
          PROVE  \A g \in Range(todo') : g.fn # "RemoveWaiting"
      <4>1. \A g \in Range(todo') : g.fn = "AddWaiting"
        BY <3>3, ForEachFrames DEF WaitStarts
      <4>2. QED
        BY <4>1
    <3>4. QED
      BY <3>1, <3>2, <3>3, LoopWaits, CallWaits
  <2>2. QED
    BY <2>1, FrameOf DEF WakesOwn, Waking
<1>9. PartsFromOthers'
  <2> SUFFICES ASSUME NEW t \in Threads, Frame("RemoveWaiting", t, t) \in Range(todo') PROVE FALSE
    BY DEF PartsFromOthers, Parting
  <2> DEFINE g == Frame("RemoveWaiting", t, t)
  <2>1. g.fn = "RemoveWaiting" /\ g.thr = t /\ t \notin Range(wait_objects[t])
    BY FrameOf DEF AssertInv, WaitsDistinct
  <2>2. CASE WaitsAlone
    BY <2>1, <2>2 DEF WaitsAlone, PlainCalls
  <2>3. ASSUME NEW u \in Threads, WaitTimesOut(u) PROVE FALSE
    <3>1. wait_objects[u] \in Seq(Objects) /\ <<>> \in Seq(Objects) /\ todo' = WakeFrames(u, <<>>, wait_objects[u])
      BY <2>3 DEF TypeOK, WaitTimesOut
    <3>2. g.thr = u
      BY <3>1, WakeList
    <3>3. QED
      BY <2>1, <3>1, <3>2, PartingCalls
  <2>4. ASSUME NEW u \in Threads, NEW objs \in Seq(Objects), NEW st \in SyncStatus, WaitStarts(u, objs, st)
        PROVE  FALSE
    BY <2>1, <2>4, ForEachFrames DEF WaitStarts
  <2>5. QED
    BY <2>2, <2>3, <2>4, LoopWaits, CallWaits
<1>3. CASE RunLoop
  <2>1. /\ \A g \in Range(todo') : /\ g.fn # "Acquire"
                                   /\ g.fn = "Resume" => thread_events[g.thr] > 0 /\ status[g.thr] \notin SyncStatus
        /\ status' = status
    BY <1>3, LoopCalls
  <2>2. UNCHANGED <<wait_objects, wakeup_callback>>
    BY <1>3 DEF RunLoop, StartIteration, AdvanceDone, StartSlice, EndSlice, RescheduleAll, ThreadWakeupCallback,
           TimerCallback, ServiceSignal, EventSignal, wait_vars, thread_vars
  <2>3. WaitsDistinct' /\ CallbacksWaiting'
    BY <2>1, <2>2 DEF AssertInv, WaitsDistinct, CallbacksWaiting
  <2>4. \A i \in DOMAIN todo' : todo'[i] \in Range(todo')
    BY DEF Range
  <2>5. DistinctAcquires(todo') /\ AcquiresAvailable'
    BY <2>1, <2>4, FrameOf DEF DistinctAcquires, AcquiresAvailable
  <2>6. ResumesSleepers'
    <3> SUFFICES ASSUME NEW t \in Threads, Frame("Resume", t, Null) \in Range(todo')
                 PROVE  wait_objects[t] = <<>> /\ status[t] \in {"Ready", "WaitSleep"}
      BY <2>1, <2>2 DEF ResumesSleepers
    <3>1. thread_events[t] > 0 /\ status[t] \notin SyncStatus
      BY <2>1, FrameOf
    <3>2. wait_objects[t] = <<>>
      BY <1>1, <3>1 DEF WaitInv, WaitersBlocked
    <3>3. thread_events[t] # 0
      BY <3>1
    <3>4. status[t] \notin {"Running", "Dead", "Unborn"} /\ status[t] \in ThreadStatus
      BY <3>3 DEF SchedulerInv, NoStaleTimeout, TypeOK
    <3>5. QED
      BY <3>1, <3>2, <3>4 DEF ThreadStatus, BlockedStatus
  <2>7. QED
    BY <1>2, <1>9, <2>3, <2>5, <2>6 DEF AssertInv
<1>4. ASSUME NEW t \in Threads, ThreadCall(t) PROVE AssertInv'
  <2>1. running \in Cores /\ current_thread[running] = t
    BY <1>4, CallEffect
  <2>2. status[t] = "Running"
    BY <1>1, <2>1, CallerFree, CallerAlive DEF StopInv
  <2>3. ~wakeup_callback[t]
    BY <2>2 DEF AssertInv, CallbacksWaiting, SyncStatus
  <2>4. ResumesSleepers'
    BY <1>4, CallCalls, FrameOf DEF ResumesSleepers
  <2>5. \A i \in DOMAIN todo' : todo'[i] \in Range(todo')
    BY DEF Range
  <2>6. (\A g \in Range(todo') : g.fn # "Acquire") => DistinctAcquires(todo') /\ AcquiresAvailable'
    BY <2>5, FrameOf DEF DistinctAcquires, AcquiresAvailable
  <2>7. CASE /\ \A g \in Range(todo') : g.fn # "Acquire"
             /\ UNCHANGED <<wakeup_callback, wait_objects>>
             /\ \/ status' = status
                \/ \E x \in Threads : status[x] = "Unborn" /\ status' = [status EXCEPT ![x] = "Ready"]
                \/ status' = [status EXCEPT ![t] = "WaitSleep"]
    <3>1. WaitsDistinct'
      BY <2>7 DEF AssertInv, WaitsDistinct
    <3>2. \A u \in Threads : wakeup_callback[u] => status'[u] = status[u]
      BY <2>3, <2>7 DEF AssertInv, CallbacksWaiting, SyncStatus, TypeOK
    <3>3. CallbacksWaiting'
      BY <2>7, <3>2 DEF AssertInv, CallbacksWaiting
    <3>4. QED
      BY <1>2, <1>9, <2>4, <2>6, <2>7, <3>1, <3>3 DEF AssertInv
  <2>8. CASE /\ \E granted \in Seq(Objects) : /\ todo' = ForEach("Acquire", t, granted) /\ IsInjective(granted)
                                              /\ \A x \in Range(granted) : ~ShouldWait(x, t)
             /\ UNCHANGED <<wakeup_callback, wait_objects, status, lock_count, holding_thread, available_count, signaled>>
    <3>1. PICK granted \in Seq(Objects) : /\ todo' = ForEach("Acquire", t, granted) /\ IsInjective(granted)
                                          /\ \A x \in Range(granted) : ~ShouldWait(x, t)
      BY <2>8
    <3>2. DistinctAcquires(todo')
      BY <3>1, DistinctForEach
    <3>3. \A u, o : Frame("Acquire", u, o) \in Range(todo') => u = t /\ o \in Range(granted)
      BY <3>1, ForEachFrames, FrameOf
    <3>4. \A x, u : ShouldWait(x, u)' <=> ShouldWait(x, u)
      BY <2>8 DEF ShouldWait, MutexShouldWait
    <3>5. AcquiresAvailable'
      BY <3>1, <3>3, <3>4 DEF AcquiresAvailable
    <3>6. WaitsDistinct' /\ CallbacksWaiting'
      BY <2>8 DEF AssertInv, WaitsDistinct, CallbacksWaiting
    <3>7. QED
      BY <1>2, <1>9, <2>4, <3>2, <3>5, <3>6 DEF AssertInv
  <2>9. CASE /\ \A g \in Range(todo') : g.fn # "Acquire"
             /\ \E st \in SyncStatus : status' = [status EXCEPT ![t] = st]
             /\ \E objs : WaitArgument(t, objs) /\ wait_objects' = [wait_objects EXCEPT ![t] = objs]
             /\ wakeup_callback' = [wakeup_callback EXCEPT ![t] = TRUE]
    <3>1. PICK objs : WaitArgument(t, objs) /\ wait_objects' = [wait_objects EXCEPT ![t] = objs]
      BY <2>9
    <3>2. IsInjective(objs) /\ t \notin Range(objs)
      <4>1. CASE objs \in WaitLists
        BY <4>1 DEF SoundArguments, ListsDistinct, NoSelfWait
      <4>2. ASSUME NEW o \in Waitable(t), objs = <<o>> PROVE IsInjective(objs) /\ t \notin Range(objs)
        <5>1. o # t
          BY ObjectsAssumption DEF Waitable, SoundArguments, NoSelfWait
        <5>2. Range(objs) = {o}
          BY <4>2, RangeSingle
        <5>3. IsInjective(objs)
          BY <4>2 DEF IsInjective
        <5>4. QED
          BY <5>1, <5>2, <5>3
      <4>3. QED
        BY <3>1, <4>1, <4>2 DEF WaitArgument
    <3>3. \A u \in Threads : wait_objects'[u] = IF u = t THEN objs ELSE wait_objects[u]
      BY <3>1 DEF TypeOK
    <3>4. WaitsDistinct'
      BY <3>2, <3>3 DEF AssertInv, WaitsDistinct
    <3>5. CallbacksWaiting'
      BY <2>9 DEF AssertInv, CallbacksWaiting, TypeOK
    <3>6. QED
      BY <1>2, <1>9, <2>4, <2>6, <2>9, <3>4, <3>5 DEF AssertInv
  <2>10. QED
    BY <1>4, <2>7, <2>8, <2>9, CallArguments DEF SoundArguments
<1>5. QED
  BY <1>3, <1>4

(* At the start nothing is pending and nobody waits. *)
LEMMA InitAsserts == Init => AssertInv
<1> SUFFICES ASSUME Init PROVE AssertInv
  OBVIOUS
<1>1. todo = <<>> /\ Range(todo) = {} /\ IsInjective(<<>>) /\ Range(<<>>) = {}
  BY DEF Init, Range, IsInjective
<1>2. \A t \in Threads : wait_objects[t] = <<>> /\ ~wakeup_callback[t]
  BY DEF Init
<1>3. DistinctAcquires(todo)
  BY <1>1 DEF DistinctAcquires
<1>4. QED
  BY <1>1, <1>2, <1>3 DEF AssertInv, WaitsDistinct, AcquiresAvailable, WakesOwn, Waking, PartsFromOthers, Parting,
         CallbacksWaiting, ResumesSleepers

(* Every step keeps what the asserts rest on. *)
LEMMA AssertStep ==
  ASSUME TypeOK, TypeOK', SchedulerInv, WaitInv, StopInv, AssertInv, SoundArguments, [Next]_vars
  PROVE  AssertInv'
<1>1. CASE RunFrame
  BY <1>1, FrameAsserts
<1>2. CASE RunLoop \/ \E t \in Threads : ThreadCall(t)
  BY <1>2, HandlerAsserts
<1>3. CASE UNCHANGED vars
  <2>1. /\ UNCHANGED <<todo, status, wait_objects, wakeup_callback>>
        /\ UNCHANGED <<lock_count, holding_thread, available_count, signaled>>
    BY <1>3 DEF vars, wait_vars, thread_vars, mutex_vars, signal_vars
  <2>2. \A o, t : ShouldWait(o, t)' <=> ShouldWait(o, t)
    BY <2>1 DEF ShouldWait, MutexShouldWait
  <2>3. QED
    BY <2>1, <2>2 DEF AssertInv, WaitsDistinct, AcquiresAvailable, WakesOwn, Waking, PartsFromOthers, Parting,
         CallbacksWaiting, ResumesSleepers
<1>4. QED
  BY <1>1, <1>2, <1>3 DEF Next

(* The invariants give every assert when its call is the next to be made. *)
LEMMA AssertsHold ==
  ASSUME TypeOK, SchedulerInv, WakersWaiting, WaitInv, AssertInv
  PROVE  KernelAsserts
<1> SUFFICES ASSUME todo # <<>>
             PROVE  LET f == Head(todo) IN
                    /\ f.fn = "Acquire" /\ f.obj \notin Semaphores => ~ShouldWait(f.obj, f.thr)
                    /\ f.fn = "Wake" => \A t \in Range(waiting_threads[f.obj]) : status[t] \in SyncStatus
                    /\ f.fn = "Wakeup" => status[f.thr] \in SyncStatus
                    /\ f.fn = "Resume" => /\ wait_objects[f.thr] = <<>>
                                          /\ status[f.thr] \in {"Ready", "WaitSleep"}
                                          /\ status[f.thr] = "Ready" => ~wakeup_callback[f.thr]
  BY DEF KernelAsserts
<1> DEFINE f == Head(todo)
<1>1. /\ f \in Frames /\ f \in Range(todo) /\ Range(todo) = {f} \cup Range(Tail(todo)) /\ CallsShaped
  BY TodoParts DEF SchedulerInv
<1>2. ASSUME f.fn = "Acquire", f.obj \notin Semaphores PROVE ~ShouldWait(f.obj, f.thr)
  <2>1. f = Frame("Acquire", f.thr, f.obj)
    BY <1>1, <1>2 DEF Frames, Frame
  <2>2. QED
    BY <1>1, <1>2, <2>1 DEF AssertInv, AcquiresAvailable
<1>3. ASSUME f.fn = "Wake", NEW t \in Range(waiting_threads[f.obj]) PROVE status[t] \in SyncStatus
  <2>1. f.obj \in Objects /\ f = Frame("Wake", Null, f.obj)
    BY <1>1, <1>3 DEF Frames, Frame
  <2>2. t \in Threads /\ Waits(t, f.obj)
    BY <1>3, <2>1 DEF TypeOK, Range, Waits
  <2>3. CASE Leaving(t)
    <3> DEFINE r == Frame("RemoveWaiting", t, f.obj)
    <3>1. r \in Range(todo)
      BY <2>1, <2>2, <2>3 DEF WaitInv, ListsNamed, Parting
    <3>2. r.fn = "RemoveWaiting" /\ r.thr = t
      BY FrameOf
    <3>3. r \in Range(Tail(todo))
      BY <1>1, <1>3, <3>1, <3>2
    <3>4. status[t] = "Dead"
      BY <1>1, <1>3, <3>2, <3>3, BelowWake
    <3>5. f.obj = t
      BY <1>1, <2>1, <3>1, <3>4 DEF AssertInv, WakesOwn, Waking
    <3>6. QED
      BY <2>2, <3>1, <3>5 DEF AssertInv, PartsFromOthers, Parting
  <2>4. CASE ~Leaving(t)
    <3>1. f.obj \in Range(wait_objects[t])
      BY <2>1, <2>2, <2>4 DEF WaitInv, ListsNamed
    <3>2. wait_objects[t] # <<>>
      BY <3>1 DEF Range
    <3>3. QED
      BY <2>2, <2>4, <3>2 DEF WaitInv, WaitersBlocked
  <2>5. QED
    BY <2>3, <2>4
<1>4. ASSUME f.fn = "Wakeup" PROVE status[f.thr] \in SyncStatus
  BY <1>1, <1>4, FrameFields DEF WakersWaiting
<1>5. ASSUME f.fn = "Resume"
      PROVE  /\ wait_objects[f.thr] = <<>> /\ status[f.thr] \in {"Ready", "WaitSleep"}
             /\ status[f.thr] = "Ready" => ~wakeup_callback[f.thr]
  <2>1. f.thr \in Threads /\ f = Frame("Resume", f.thr, Null)
    BY <1>1, <1>5 DEF Frames, Frame
  <2>2. wait_objects[f.thr] = <<>> /\ status[f.thr] \in {"Ready", "WaitSleep"}
    BY <1>1, <2>1 DEF AssertInv, ResumesSleepers
  <2>3. QED
    BY <2>1, <2>2 DEF AssertInv, CallbacksWaiting, SyncStatus
<1>6. QED
  BY <1>2, <1>3, <1>4, <1>5

(* What is about to be woken stays waiting. *)
LEMMA WakersStep ==
  ASSUME TypeOK, SchedulerInv, WakersWaiting, [Next]_vars
  PROVE  WakersWaiting'
<1>1. CASE RunFrame
  BY <1>1, FrameWakers DEF SchedulerInv
<1>2. CASE RunLoop \/ \E t \in Threads : ThreadCall(t)
  BY <1>2, HandlerCalls
<1>3. CASE UNCHANGED vars
  BY <1>3 DEF vars, WakersWaiting
<1>4. QED
  BY <1>1, <1>2, <1>3 DEF Next

(* The ASSERTs of Acquire, WakeupAllWaitingThreads, the wakeup callback and ResumeFromWait never fail, for   *)
(* programs that name no object twice in a wait and let no thread wait for itself (a program that does      *)
(* either fails an assert) and where no core stops the current thread of another one.                       *)
THEOREM AssertsAlwaysHold == StopsOwnCore /\ SoundArguments => (Spec => []KernelAsserts)
<1> SUFFICES ASSUME StopsOwnCore, SoundArguments PROVE Spec => []KernelAsserts
  OBVIOUS
<1>1. Init => SchedulerInv /\ WakersWaiting /\ WaitInv /\ StopInv /\ AssertInv
  <2>1. Init => WakersWaiting
    BY DEF Init, WakersWaiting, Range
  <2>2. QED
    BY <2>1, SchedulerInit, InitWaits, InitStops, InitAsserts
<1>2. TypeOK /\ TypeOK' /\ SchedulerInv /\ WakersWaiting /\ WaitInv /\ StopInv /\ AssertInv /\ [Next]_vars =>
        (SchedulerInv /\ WakersWaiting /\ WaitInv /\ StopInv /\ AssertInv)'
  BY SchedulerStep, WakersStep, WaitsStepAll, StopStep, AssertStep
<1>3. TypeOK /\ SchedulerInv /\ WakersWaiting /\ WaitInv /\ AssertInv => KernelAsserts
  BY AssertsHold
<1>4. QED
  BY <1>1, <1>2, <1>3, TypeCorrect, PTL DEF Spec

-----------------------------------------------------------------------------
(* Who gets what *)

\* The threads in the list of o that could take it and go on
CouldTake(w, o) == Waits(w, o) /\ status[w] \in SyncStatus /\ ~ShouldWait(o, w) /\ ReadyToRun(w)

\* A woken thread that is about to acquire an object is at least as urgent as all that could take it
ChosenBest ==
  \A t \in Threads, o \in Objects :
    Frame("Acquire", t, o) \in Range(todo) /\ status[t] \in SyncStatus =>
      \A w \in Threads : CouldTake(w, o) => current_priority[t] <= current_priority[w]

(* Acquiring makes nothing available. *)
LEMMA AcquireTakes ==
  ASSUME TypeOK, NEW t \in Threads, NEW o \in Objects, Acquire(t, o), NEW x \in Objects, NEW u \in Threads,
         ShouldWait(x, u)
  PROVE  ShouldWait(x, u)'
<1> USE DEF thread_vars, prio_vars, mutex_vars, wait_vars, signal_vars, event_vars, loop_vars, core_vars
<1>1. status' = status
  BY DEF Acquire
<1>2. CASE o \in Mutexes /\ AcquireMutex(o, t)
  <2>1. UNCHANGED signal_vars /\ lock_count' = [lock_count EXCEPT ![o] = @ + 1]
    BY <1>2 DEF AcquireMutex
  <2>2. \/ holding_thread' = holding_thread
        \/ lock_count[o] = 0 /\ holding_thread' = [holding_thread EXCEPT ![o] = t]
    BY <1>2 DEF AcquireMutex
  <2>3. ASSUME NEW m \in Mutexes, MutexShouldWait(m, u) PROVE MutexShouldWait(m, u)'
    <3>1. lock_count[m] \in Nat /\ lock_count[m] > 0 /\ holding_thread[m] # u
      BY <2>3 DEF MutexShouldWait, TypeOK
    <3>2. lock_count'[m] > 0
      BY <2>1, <3>1 DEF TypeOK
    <3>3. holding_thread'[m] = holding_thread[m]
      BY <2>2, <3>1 DEF TypeOK
    <3>4. QED
      BY <3>1, <3>2, <3>3 DEF MutexShouldWait
  <2>4. QED
    BY <1>1, <2>1, <2>3 DEF ShouldWait
<1>3. CASE o \in Semaphores /\ AcquireSemaphore(o)
  <2>1. UNCHANGED <<mutex_vars, signaled>>
    BY <1>3 DEF AcquireSemaphore
  <2>2. \A s \in Semaphores : available_count[s] <= 0 => available_count'[s] <= 0
    BY <1>3 DEF AcquireSemaphore, TypeOK
  <2>3. QED
    BY <1>1, <2>1, <2>2 DEF ShouldWait, MutexShouldWait
<1>4. CASE o \in Signals /\ AcquireSignal(o)
  <2>1. UNCHANGED <<mutex_vars, available_count>> /\ \A e \in Signals : ~signaled[e] => ~signaled'[e]
    BY <1>4 DEF AcquireSignal, TypeOK
  <2>2. QED
    BY <1>1, <2>1 DEF ShouldWait, MutexShouldWait
<1>5. CASE o \in Threads /\ AcquireThread(o)
  <2>1. UNCHANGED <<mutex_vars, signal_vars>>
    BY <1>5 DEF AcquireThread
  <2>2. QED
    BY <1>1, <2>1 DEF ShouldWait, MutexShouldWait
<1>6. QED
  BY <1>2, <1>3, <1>4, <1>5 DEF Acquire

(* Acquiring changes the priority of nobody but the new owner, who only gets more urgent. *)
LEMMA AcquireBoosts ==
  ASSUME TypeOK, TypeOK', NEW t \in Threads, NEW o \in Objects, Acquire(t, o)
  PROVE  /\ \A w \in Threads : w # t => current_priority'[w] = current_priority[w]
         /\ current_priority'[t] <= current_priority[t]
<1> USE DEF thread_vars, prio_vars, mutex_vars, wait_vars, signal_vars, event_vars, loop_vars, core_vars
<1>1. Priorities \subseteq Nat /\ current_priority[t] \in Nat
  BY PrioritiesAssumption DEF Priorities, TypeOK
<1>2. CASE current_priority' = current_priority
  BY <1>1, <1>2
<1>3. CASE o \in Mutexes /\ AcquireMutex(o, t) /\ lock_count[o] = 0
  <2> DEFINE P == {nominal_priority[t]} \cup {priority'[m] : m \in held_mutexes'[t]}
  <2>1. current_priority' = [current_priority EXCEPT ![t] = Min(P)]
    BY <1>3 DEF AcquireMutex, BoostPriority, BestPriority
  <2>2. priority'[o] = current_priority[t] /\ o \in held_mutexes'[t]
    BY <1>3 DEF AcquireMutex, TypeOK
  <2>3. P \subseteq Nat /\ current_priority[t] \in P
    <3>1. held_mutexes'[t] \subseteq Mutexes /\ priority' \in [Mutexes -> Priorities] /\ nominal_priority[t] \in Priorities
      BY DEF TypeOK
    <3>2. QED
      BY <1>1, <2>2, <3>1
  <2> HIDE DEF P
  <2>4. Min(P) <= current_priority[t]
    BY <2>3, MinNat
  <2>5. QED
    BY <2>1, <2>4 DEF TypeOK
<1>4. QED
  BY <1>2, <1>3 DEF Acquire, AcquireMutex, AcquireSemaphore, AcquireSignal, AcquireThread

(* Waking a thread acquires what it is granted, for it and for nobody else. *)
LEMMA GrantCalls ==
  ASSUME NEW t \in Threads, NEW granted \in Seq(Objects), NEW objs \in Seq(Objects), NEW u, NEW x,
         Frame("Acquire", u, x) \in Range(WakeFrames(t, granted, objs))
  PROVE  u = t /\ x \in Range(granted)
<1> DEFINE g == Frame("Acquire", u, x)
           R == ForEach("RemoveWaiting", t, objs)
           A == ForEach("Acquire", t, granted)
           W == <<Frame("Wakeup", t, Null)>>
<1>1. /\ A \in Seq(Frames) /\ R \in Seq(Frames) /\ W \in Seq(Frames)
      /\ g.fn = "Acquire" /\ g.thr = u /\ g.obj = x
  BY ForEachType, FrameType, FrameOf
<1>2. Range(W) = {Frame("Wakeup", t, Null)}
  BY RangeSingle
<1>3. \A h \in Range(W) \cup Range(R) : h.fn \in {"Wakeup", "RemoveWaiting"}
  BY <1>2, FrameOf, ForEachFrames
<1>4. g \in Range(A) => u = t /\ x \in Range(granted)
  BY <1>1, ForEachFrames, FrameOf
<1>5. WakeFrames(t, granted, objs) = (A \o R) \o W
  BY DEF WakeFrames
<1>6. g \in Range(WakeFrames(t, granted, objs))
  OBVIOUS
<1> HIDE DEF g, R, A, W
<1> DEFINE P == A \o R
<1>7. P \in Seq(Frames) /\ Range(P) = Range(A) \cup Range(R)
  BY <1>1, RangeConcat
<1> HIDE DEF P
<1>8. Range(P \o W) = Range(P) \cup Range(W)
  BY <1>1, <1>7, RangeConcat
<1>9. QED
  BY <1>1, <1>3, <1>4, <1>5, <1>6, <1>7, <1>8 DEF P

(* One round of WakeupAllWaitingThreads chooses a thread that is at least as urgent as all that could take *)
(* any of the objects it is granted: the object is the only one being signalled, so whoever could take      *)
(* another one of them waits for this one too.                                                              *)
LEMMA WakeChooses ==
  ASSUME TypeOK, SchedulerInv, WaitInv, LostInv, RunFrame, Head(todo).fn = "Wake", todo' # Tail(todo)
  PROVE  /\ \E t \in Threads, granted \in Seq(Objects) :
              /\ todo' = WakeFrames(t, granted, wait_objects[t]) \o todo
              /\ \A x \in Objects, w \in Threads : CouldTake(w, x) => current_priority[t] <= current_priority[w]
         /\ UNCHANGED <<signaled, available_count, lock_count, holding_thread, status>>
         /\ UNCHANGED <<current_priority, waiting_threads, wait_objects>>
<1> DEFINE f == Head(todo)
<1>1. PICK o \in Objects : o = f.obj
  BY TailType, FrameArguments DEF RunFrame
<1>2. WakeupAllWaitingThreads(o)
  BY <1>1 DEF RunFrame
<1>3. PICK i \in Candidates(o) : IsHighest(o, i) /\ WakeOne(o, waiting_threads[o][i])
  BY <1>2 DEF WakeupAllWaitingThreads, WakeEnd, Return
<1>4. /\ UNCHANGED <<signaled, available_count, lock_count, holding_thread, status>>
      /\ UNCHANGED <<current_priority, waiting_threads, wait_objects>>
  BY <1>2, <1>3 DEF WakeupAllWaitingThreads, WakeOne, mutex_vars, prio_vars, wait_vars
<1>5. PICK t \in Threads : t = waiting_threads[o][i]
  BY DEF Candidates, TypeOK
<1> DEFINE granted == IF status[t] = "WaitSynchAll" THEN wait_objects[t] ELSE <<o>>
<1>6. todo' = WakeFrames(t, granted, wait_objects[t]) \o todo
  BY <1>3, <1>5 DEF WakeOne, CallAgain, WakeFrames
<1>7. granted \in Seq(Objects)
  BY DEF TypeOK
<1> HIDE DEF granted
<1>8. Priorities \subseteq Nat /\ current_priority \in [Threads -> Priorities]
  BY PrioritiesAssumption DEF Priorities, TypeOK
<1>9. ASSUME NEW w \in Threads, CouldTake(w, o) PROVE current_priority[t] <= current_priority[w]
  <2>1. PICK j \in DOMAIN waiting_threads[o] : waiting_threads[o][j] = w
    BY <1>9 DEF CouldTake, Waits, Range
  <2>2. j \in Candidates(o)
    BY <1>9, <2>1 DEF Candidates, CouldTake
  <2>3. current_priority[t] < current_priority[w] \/ current_priority[t] = current_priority[w]
    BY <1>3, <1>5, <2>1, <2>2 DEF IsHighest
  <2>4. current_priority[t] \in Nat /\ current_priority[w] \in Nat
    BY <1>8
  <2>5. QED
    BY <2>3, <2>4
<1>10. /\ todo # <<>> /\ f \in Frames /\ Range(todo) = {f} \cup Range(Tail(todo)) /\ CallsShaped
       /\ \A g \in Range(Tail(todo)) : Below(f, g)
  BY TodoParts, TailBelow DEF RunFrame, SchedulerInv
<1>11. \A g \in Range(todo) : g.fn \notin {"Wakeup", "AddWaiting"} /\ (g.fn = "Wake" => g = f)
  BY <1>10 DEF Below, WakeCalls
<1>12. \A y : Waking(y) => y = o
  BY <1>1, <1>11, FrameOf DEF Waking
<1>13. ASSUME NEW w \in Threads, NEW x \in Objects, CouldTake(w, x) PROVE CouldTake(w, o)
  <2>1. ~Leaving(w)
    <3>1. Frame("Wakeup", w, Null) \notin Range(todo)
      BY <1>11, FrameOf
    <3>2. Frame("ReleaseMutexes", w, Null) \notin Range(todo)
      BY <1>10, <1>13 DEF CallsShaped, CouldTake, SyncStatus
    <3>3. QED
      BY <3>1, <3>2 DEF Leaving
  <2>2. \A y \in Objects : Waits(w, y) <=> y \in Range(wait_objects[w])
    <3>1. \A y : ~Joining(w, y)
      BY <1>11, FrameOf DEF Joining
    <3>2. QED
      BY <2>1, <3>1 DEF WaitInv, ListsNamed
  <2>3. x \in Range(wait_objects[w]) /\ wait_objects[w] # <<>> /\ Range(wait_objects[w]) \subseteq Objects
    <3>1. x \in Range(wait_objects[w])
      BY <1>13, <2>2 DEF CouldTake
    <3>2. wait_objects[w] \in Seq(Objects)
      BY DEF TypeOK
    <3>3. QED
      BY <3>1, <3>2 DEF Range
  <2>4. CASE status[w] = "WaitSynchAny"
    <3>1. Unavailable(x, w)
      BY <2>1, <2>3, <2>4 DEF LostInv
    <3>2. QED
      BY <1>12, <1>13, <3>1 DEF Unavailable, CouldTake
  <2>5. CASE status[w] = "WaitSynchAll"
    <3>1. PICK y \in Range(wait_objects[w]) : Unavailable(y, w)
      BY <2>1, <2>3, <2>5 DEF LostInv
    <3>2. ~ShouldWait(y, w)
      BY <1>13, <2>5, <3>1 DEF CouldTake, ReadyToRun, Range
    <3>3. y = o
      BY <1>12, <3>1, <3>2 DEF Unavailable
    <3>4. QED
      BY <1>13, <2>2, <3>1, <3>2, <3>3 DEF CouldTake
  <2>6. QED
    BY <1>13, <2>4, <2>5 DEF CouldTake, SyncStatus
<1>14. QED
  BY <1>4, <1>6, <1>7, <1>9, <1>13

(* Every call keeps the choice. *)
LEMMA FrameChoice ==
  ASSUME TypeOK, TypeOK', SchedulerInv, WaitInv, LostInv, ChosenBest, RunFrame
  PROVE  ChosenBest'
<1> DEFINE f == Head(todo)
<1>1. /\ todo # <<>> /\ f \in Frames /\ Range(todo) = {f} \cup Range(Tail(todo)) /\ CallsShaped
      /\ todo \in Seq(Frames) /\ Tail(todo) \in Seq(Frames)
  BY TodoParts DEF RunFrame, SchedulerInv
<1>2. CASE f.fn = "Acquire"
  <2>1. PICK t \in Threads, o \in Objects : t = f.thr /\ o = f.obj /\ Acquire(t, o)
    BY <1>1, <1>2, FrameArguments DEF RunFrame
  <2>2. todo' = Tail(todo) /\ UNCHANGED <<status, waiting_threads, wait_objects>>
    BY <2>1 DEF Acquire, Return, wait_vars
  <2>3. \A g \in Range(todo') : g \in Range(todo) /\ (g.fn = "Acquire" => g.thr = t)
    BY <1>1, <1>2, <2>1, <2>2, TailBelow DEF Below
  <2>4. /\ \A w \in Threads : w # t => current_priority'[w] = current_priority[w]
        /\ current_priority'[t] <= current_priority[t]
    BY <2>1, AcquireBoosts
  <2>5. /\ Priorities \subseteq Nat
        /\ current_priority \in [Threads -> Priorities] /\ current_priority' \in [Threads -> Priorities]
    <3>1. Priorities \subseteq Nat
      BY PrioritiesAssumption DEF Priorities
    <3>2. QED
      BY <3>1 DEF TypeOK
  <2>6. ASSUME NEW x \in Objects, NEW w \in Threads, CouldTake(w, x)' PROVE CouldTake(w, x)
    <3>1. \A y \in Objects : ShouldWait(y, w) => ShouldWait(y, w)'
      BY <2>1, AcquireTakes
    <3>2. wait_objects[w] \in Seq(Objects)
      BY DEF TypeOK
    <3>3. ReadyToRun(w)
      BY <2>2, <2>6, <3>1, <3>2 DEF CouldTake, ReadyToRun
    <3>4. QED
      BY <2>2, <2>6, <3>1, <3>3 DEF CouldTake, Waits
  <2>7. ASSUME NEW u \in Threads, NEW x \in Objects, Frame("Acquire", u, x) \in Range(todo'), status'[u] \in SyncStatus,
               NEW w \in Threads, CouldTake(w, x)'
        PROVE  current_priority'[u] <= current_priority'[w]
    <3>1. u = t /\ Frame("Acquire", u, x) \in Range(todo)
      BY <2>3, <2>7, FrameOf
    <3>2. current_priority[t] <= current_priority[w]
      BY <2>2, <2>6, <2>7, <3>1 DEF ChosenBest
    <3>3. /\ current_priority[t] \in Nat /\ current_priority[w] \in Nat
          /\ current_priority'[t] \in Nat /\ current_priority'[w] \in Nat
      BY <2>5
    <3>4. CASE w = t
      BY <3>1, <3>3, <3>4
    <3>5. CASE w # t
      BY <2>4, <3>1, <3>2, <3>3, <3>5
    <3>6. QED
      BY <3>4, <3>5
  <2>8. QED
    BY <2>7 DEF ChosenBest
<1>3. CASE f.fn = "Wake" /\ todo' # Tail(todo)
  <2>1. PICK t \in Threads, granted \in Seq(Objects) :
          /\ todo' = WakeFrames(t, granted, wait_objects[t]) \o todo
          /\ \A x \in Objects, w \in Threads : CouldTake(w, x) => current_priority[t] <= current_priority[w]
    BY <1>3, WakeChooses
  <2>2. /\ UNCHANGED <<signaled, available_count, lock_count, holding_thread, status>>
        /\ UNCHANGED <<current_priority, waiting_threads, wait_objects>>
    BY <1>3, WakeChooses
  <2>3. \A g \in Range(todo) : g.fn # "Acquire"
    BY <1>1, <1>3, TailBelow DEF Below
  <2>4. wait_objects[t] \in Seq(Objects)
    BY DEF TypeOK
  <2> DEFINE K == WakeFrames(t, granted, wait_objects[t])
  <2>5. K \in Seq(Frames) /\ \A u, x : Frame("Acquire", u, x) \in Range(K) => u = t
    BY <2>4, WakeList, GrantCalls
  <2>6. todo' = K \o todo
    BY <2>1
  <2> HIDE DEF K
  <2>7. Range(todo') = Range(K) \cup Range(todo)
    BY <1>1, <2>5, <2>6, PushedRange
  <2>8. \A u, x : Frame("Acquire", u, x) \in Range(todo') => u = t
    BY <2>3, <2>5, <2>7, FrameOf
  <2>9. \A x, w : CouldTake(w, x)' <=> CouldTake(w, x)
    BY <2>2 DEF CouldTake, Waits, ReadyToRun, ShouldWait, MutexShouldWait
  <2>10. QED
    BY <2>1, <2>2, <2>8, <2>9 DEF ChosenBest
<1>4. CASE f.fn # "Acquire" /\ (f.fn = "Wake" => todo' = Tail(todo))
  <2>1. \A g \in Range(todo') : g.fn # "Acquire"
    BY <1>1, <1>4, NoAcquireLeft
  <2>2. QED
    BY <2>1, FrameOf DEF ChosenBest
<1>5. QED
  BY <1>2, <1>3, <1>4

(* What a handler acquires, it acquires for a thread that does not wait. *)
LEMMA HandlerChoice ==
  ASSUME TypeOK, SchedulerInv, WaitInv, RunLoop \/ \E t \in Threads : ThreadCall(t)
  PROVE  ChosenBest'
<1>1. CASE RunLoop
  BY <1>1, LoopCalls, FrameOf DEF ChosenBest
<1>2. ASSUME NEW t \in Threads, ThreadCall(t) PROVE ChosenBest'
  <2>1. todo = <<>> /\ running \in Cores /\ current_thread[running] = t
    BY <1>2, CallEffect
  <2>2. status[t] \in {"Running", "Dead"}
    BY <2>1, CallerFree
  <2>3. \A g \in Range(todo') : g.fn = "Acquire" => g.thr = t
    BY <1>2, CallCalls
  <2>4. CASE WaitsAlone
    <3>1. status'[t] \notin SyncStatus
      BY <2>2, <2>4 DEF WaitsAlone, SyncStatus, TypeOK
    <3>2. QED
      BY <2>3, <3>1, FrameOf DEF ChosenBest
  <2>5. ASSUME NEW u \in Threads, NEW objs \in Seq(Objects), NEW st \in SyncStatus, WaitStarts(u, objs, st)
        PROVE  ChosenBest'
    <3>1. \A g \in Range(todo') : g.fn = "AddWaiting"
      BY <2>5, ForEachFrames DEF WaitStarts
    <3>2. QED
      BY <3>1, FrameOf DEF ChosenBest
  <2>6. QED
    BY <1>2, <2>4, <2>5, CallWaits
<1>3. QED
  BY <1>1, <1>2

(* Every step keeps the choice. *)
LEMMA ChoiceStep ==
  ASSUME TypeOK, TypeOK', SchedulerInv, WaitInv, LostInv, ChosenBest, [Next]_vars
  PROVE  ChosenBest'
<1>1. CASE RunFrame
  BY <1>1, FrameChoice
<1>2. CASE RunLoop \/ \E t \in Threads : ThreadCall(t)
  BY <1>2, HandlerChoice
<1>3. CASE UNCHANGED vars
  <2>1. /\ UNCHANGED <<todo, status, wait_objects, waiting_threads, current_priority>>
        /\ UNCHANGED <<lock_count, holding_thread, available_count, signaled>>
    BY <1>3 DEF vars, wait_vars, prio_vars, mutex_vars, signal_vars
  <2>2. \A x, w : CouldTake(w, x)' <=> CouldTake(w, x)
    BY <2>1 DEF CouldTake, Waits, ReadyToRun, ShouldWait, MutexShouldWait
  <2>3. QED
    BY <2>1, <2>2 DEF ChosenBest
<1>4. QED
  BY <1>1, <1>2, <1>3 DEF Next

(* The steps that give a mutex a new owner acquire it for that thread. *)
LEMMA OwnerChanges ==
  ASSUME TypeOK, [Next]_vars, NEW m \in Mutexes, holding_thread'[m] # Null, holding_thread'[m] # holding_thread[m]
  PROVE  Frame("Acquire", holding_thread'[m], m) \in Range(todo)
<1> USE DEF thread_vars, prio_vars, mutex_vars, wait_vars, signal_vars, event_vars, loop_vars, core_vars
<1>1. CASE RunFrame /\ Head(todo).fn = "Acquire"
  <2>1. todo # <<>> /\ Head(todo) \in Frames /\ Head(todo) \in Range(todo)
    BY <1>1, TodoParts DEF RunFrame
  <2>2. PICK t \in Threads, o \in Objects : t = Head(todo).thr /\ o = Head(todo).obj /\ Acquire(t, o)
    BY <1>1, <2>1, FrameArguments DEF RunFrame
  <2>3. holding_thread' = holding_thread \/ (o \in Mutexes /\ holding_thread' = [holding_thread EXCEPT ![o] = t])
    BY <2>2 DEF Acquire, AcquireMutex, AcquireSemaphore, AcquireSignal, AcquireThread
  <2>4. o = m /\ holding_thread'[m] = t
    BY <2>3 DEF TypeOK
  <2>5. Head(todo) = Frame("Acquire", t, o)
    BY <1>1, <2>1, <2>2 DEF Frames, Frame
  <2>6. QED
    BY <2>1, <2>4, <2>5
<1>2. CASE RunFrame /\ Head(todo).fn # "Acquire"
  <2>1. holding_thread' = holding_thread \/ \E x : holding_thread' = [holding_thread EXCEPT ![x] = Null]
    <3>1. CASE Head(todo).fn = "ReleaseMutexes"
      <4>1. ReleaseThreadMutexes(Head(todo).thr)
        BY <1>2, <3>1 DEF RunFrame
      <4>2. QED
        BY <4>1 DEF ReleaseThreadMutexes
    <3>2. CASE Head(todo).fn # "ReleaseMutexes"
      BY <1>2, <3>2 DEF RunFrame, AddWaitingThread, RemoveWaitingThread, WakeupAllWaitingThreads, Wakeup, Resume,
             ResumeFromWait, Rearm, UpdatePendingMutex, Stop, TerminateProcessThreads, Reschedule
    <3>3. QED
      BY <3>1, <3>2
  <2>2. QED
    BY <2>1 DEF TypeOK
<1>3. CASE RunLoop
  BY <1>3 DEF RunLoop, StartIteration, AdvanceDone, StartSlice, EndSlice, RescheduleAll, ThreadWakeupCallback,
         TimerCallback, ServiceSignal, EventSignal
<1>4. ASSUME NEW t \in Threads, ThreadCall(t) PROVE FALSE
  <2>1. \/ holding_thread' = holding_thread
        \/ \E x \in Mutexes : holding_thread' = [holding_thread EXCEPT ![x] = Null]
    <3>1. CASE \E x \in Mutexes : ReleaseMutex(t, x)
      BY <3>1 DEF ReleaseMutex
    <3>2. CASE ~\E x \in Mutexes : ReleaseMutex(t, x)
      BY <1>4, <3>2 DEF ThreadCall, CreateThread, SleepThread, ClearSignal, CancelTimer, ExitThread, TerminateProcess,
             SetThreadPriority, ReleaseSemaphore, SignalEvent, EventSignal, SetTimer, WaitSynchronization1,
             WaitSynchronizationN, WaitUnchanged
    <3>3. QED
      BY <3>1, <3>2
  <2>2. QED
    BY <2>1 DEF TypeOK
<1>5. CASE UNCHANGED vars
  BY <1>5 DEF vars
<1>6. QED
  BY <1>1, <1>2, <1>3, <1>4, <1>5 DEF Next

(* WakeupAllWaitingThreads: a mutex that is handed to a waiting thread goes to one that no waiting thread    *)
(* which could have taken it beats, also when it is handed over with the rest of a list, and whatever the     *)
(* boosts between the choice and the grant.                                                                   *)
THEOREM BestWaiterGetsMutex == Spec => MutexGoesToBestWaiter
<1>1. Init => SchedulerInv /\ WaitInv /\ LostInv /\ ChosenBest
  <2>1. Init => ChosenBest
    BY DEF Init, ChosenBest, Range
  <2>2. QED
    BY <2>1, SchedulerInit, InitWaits, LostInit
<1>2. TypeOK /\ TypeOK' /\ SchedulerInv /\ WaitInv /\ LostInv /\ ChosenBest /\ [Next]_vars =>
        (SchedulerInv /\ WaitInv /\ LostInv /\ ChosenBest)'
  BY SchedulerStep, WaitsStepAll, LostStep, ChoiceStep
<1>3. TypeOK /\ TypeOK' /\ ChosenBest /\ [Next]_vars =>
        [\A m \in Mutexes :
           LET t == holding_thread'[m] IN
           t # Null /\ t # holding_thread[m] /\ status[t] \in SyncStatus =>
             \A w \in Range(waiting_threads[m]) :
               status[w] \in SyncStatus /\ ~ShouldWait(m, w) /\ ReadyToRun(w) =>
                 current_priority[t] <= current_priority[w]]_vars
  <2> SUFFICES ASSUME TypeOK, TypeOK', ChosenBest, [Next]_vars, NEW m \in Mutexes,
                      holding_thread'[m] # Null, holding_thread'[m] # holding_thread[m],
                      status[holding_thread'[m]] \in SyncStatus,
                      NEW w \in Range(waiting_threads[m]), status[w] \in SyncStatus, ~ShouldWait(m, w), ReadyToRun(w)
               PROVE  current_priority[holding_thread'[m]] <= current_priority[w]
    OBVIOUS
  <2>1. m \in Objects /\ holding_thread'[m] \in Threads /\ w \in Threads
    BY DEF Objects, TypeOK, Range
  <2>2. PICK t \in Threads : t = holding_thread'[m]
    BY <2>1
  <2>3. Frame("Acquire", t, m) \in Range(todo)
    BY <2>2, OwnerChanges
  <2>4. CouldTake(w, m)
    BY DEF CouldTake, Waits
  <2>5. QED
    BY <2>1, <2>2, <2>3, <2>4 DEF ChosenBest
<1>4. QED
  BY <1>1, <1>2, <1>3, TypeCorrect, PTL DEF Spec, MutexGoesToBestWaiter

-----------------------------------------------------------------------------
(* What a wait ended with *)

\* The core was told to give up its current thread, and nothing happens before it does
GivenUp(c) ==
  /\ running = NoCore /\ slices = {} /\ advancing = <<>>
  /\ reschedule_pending \/ Rescheduling(c)
  /\ \A g \in Range(todo) : g.fn \in {"AddWaiting", "Reschedule"}

\* Of a single core: while it executes nothing else is under way, and its current thread is never one
\* that was woken before the core gave it up
CurrentsSettled ==
  /\ running \in Cores => slices = {} /\ advancing = <<>>
  /\ \A c \in Cores :
       current_thread[c] # Null =>
         \/ status[current_thread[c]] \in {"Running", "Dead"}
         \/ status[current_thread[c]] \in BlockedStatus /\ GivenUp(c)

(* A call keeps the current thread running, or its core about to give it up. *)
LEMMA FrameSettled ==
  ASSUME TypeOK, TypeOK', SchedulerInv, CurrentsSettled, NumCores = 1, RunFrame
  PROVE  CurrentsSettled'
<1> DEFINE f == Head(todo)
<1>1. /\ todo # <<>> /\ f \in Frames /\ Range(todo) = {f} \cup Range(Tail(todo)) /\ f \in Range(todo)
  BY TodoParts DEF RunFrame
<1>2. Cores = {0} /\ NoCore \notin Cores
  BY CoresNat DEF Cores, NoCore
<1>3. CASE f.fn = "Reschedule"
  <2>1. PICK c \in Cores : Reschedule(c)
    BY <1>1, <1>3, FrameArguments DEF RunFrame
  <2>2. UNCHANGED loop_vars
    BY <2>1, RescheduleEffect
  <2>3. current_thread'[c] = Null \/ status'[current_thread'[c]] = "Running"
    <3>1. \/ StaysRunnable(c) /\ UNCHANGED <<status, current_thread>>
          \/ current_thread'[c] = Null
          \/ \E t \in Threads : current_thread'[c] = t /\ status'[t] = "Running"
      BY <2>1, RescheduleEffect
    <3>2. QED
      BY <3>1 DEF StaysRunnable
  <2>4. QED
    BY <1>2, <2>2, <2>3 DEF CurrentsSettled, loop_vars
<1>4. CASE f.fn # "Reschedule"
  <2>1. /\ current_thread' = current_thread /\ slices' = slices /\ advancing' = advancing
        /\ running' \in {running, NoCore} /\ (reschedule_pending => reschedule_pending')
        /\ \A t \in Threads : \/ status'[t] = status[t]
                              \/ status[t] \in BlockedStatus /\ status'[t] = "Ready"
                              \/ status'[t] = "Dead"
    BY <1>4, FrameEffect
  <2>2. running' \in Cores => slices' = {} /\ advancing' = <<>>
    BY <1>2, <2>1 DEF CurrentsSettled
  <2>3. ASSUME NEW c \in Cores, current_thread[c] # Null
        PROVE  \/ status'[current_thread[c]] \in {"Running", "Dead"}
               \/ status'[current_thread[c]] \in BlockedStatus /\ GivenUp(c)'
    <3>1. PICK x \in Threads : x = current_thread[c]
      BY <2>3 DEF TypeOK
    <3>2. CASE status[x] \in {"Running", "Dead"}
      BY <2>1, <3>1, <3>2 DEF BlockedStatus, SyncStatus
    <3>3. CASE status[x] \in BlockedStatus /\ GivenUp(c)
      <4>1. f.fn = "AddWaiting"
        BY <1>1, <1>4, <3>3 DEF GivenUp
      <4>2. todo' = Tail(todo) /\ UNCHANGED <<status, loop_vars>>
        BY <4>1 DEF RunFrame, AddWaitingThread, Return
      <4>3. Rescheduling(c) => Rescheduling(c)'
        <5>1. Frame("Reschedule", Null, c) # f
          BY <4>1, FrameOf
        <5>2. QED
          BY <1>1, <4>2, <5>1 DEF Rescheduling
      <4>4. QED
        BY <1>1, <3>1, <3>3, <4>2, <4>3 DEF GivenUp, loop_vars
    <3>4. QED
      BY <2>3, <3>1, <3>2, <3>3 DEF CurrentsSettled
  <2>4. QED
    BY <2>1, <2>2, <2>3 DEF CurrentsSettled
<1>5. QED
  BY <1>3, <1>4

(* The run loop does nothing to a thread that blocked before it reschedules the core. *)
LEMMA LoopSettled ==
  ASSUME TypeOK, TypeOK', CurrentsSettled, NumCores = 1, RunLoop
  PROVE  CurrentsSettled'
<1> USE DEF thread_vars, prio_vars, mutex_vars, wait_vars, signal_vars, event_vars, loop_vars, core_vars
<1>1. Cores = {0} /\ NoCore \notin Cores /\ NumCores \in Nat
  BY CoresNat DEF Cores, NoCore
<1>2. todo = <<>> /\ UNCHANGED <<status, current_thread>> /\ \A c : ~Rescheduling(c)
  BY HandlerStarts, LoopCalls DEF Rescheduling, Range
<1>3. ASSUME running' \in Cores PROVE slices' = {} /\ advancing' = <<>>
  <2>1. CASE StartSlice
    <3>1. slices = {0} /\ advancing' = <<>>
      <4>1. slices \subseteq Cores
        BY DEF TypeOK
      <4>2. slices # {} /\ advancing' = <<>>
        BY <2>1 DEF StartSlice
      <4>3. QED
        BY <1>1, <4>1, <4>2
    <3>2. Min(slices) \in slices
      BY <3>1, MinNat
    <3>3. QED
      BY <2>1, <3>1, <3>2 DEF StartSlice
  <2>2. CASE ~StartSlice
    <3>1. running' = NoCore
      BY <2>2 DEF RunLoop, StartIteration, AdvanceDone, EndSlice, RescheduleAll, ThreadWakeupCallback, TimerCallback,
             ServiceSignal, EventSignal, Quiet, Advancing, PrepareReschedule, Continue
    <3>2. QED
      BY <1>1, <1>3, <3>1
  <2>3. QED
    BY <2>1, <2>2
<1>4. ASSUME NEW c \in Cores, current_thread[c] # Null, GivenUp(c) PROVE GivenUp(c)'
  <2>1. running = NoCore /\ slices = {} /\ advancing = <<>> /\ reschedule_pending
    BY <1>2, <1>4 DEF GivenUp
  <2>2. RescheduleAll
    BY <2>1 DEF RunLoop, StartIteration, AdvanceDone, StartSlice, EndSlice, ThreadWakeupCallback, TimerCallback,
           ServiceSignal, Advancing
  <2>3. /\ running' = NoCore /\ slices' = {} /\ advancing' = <<>>
        /\ todo' = [i \in 1 .. NumCores |-> Frame("Reschedule", Null, i - 1)]
    BY <2>1, <2>2 DEF RescheduleAll
  <2>4. \A g \in Range(todo') : g.fn = "Reschedule"
    BY <2>3, FrameOf DEF Range
  <2>5. c = 0 /\ 1 \in DOMAIN todo' /\ todo'[1] = Frame("Reschedule", Null, 0)
    BY <1>1, <2>3
  <2>6. Rescheduling(c)'
    BY <2>5 DEF Rescheduling, Range
  <2>7. QED
    BY <2>3, <2>4, <2>6 DEF GivenUp
<1>5. QED
  BY <1>2, <1>3, <1>4 DEF CurrentsSettled

(* An SVC that puts its caller to sleep leaves nothing to be done for a thread that runs. *)
LEMMA CallBlocks ==
  ASSUME TypeOK, SchedulerInv, WaitInv, NEW t \in Threads, ThreadCall(t), status[t] = "Running", status'[t] # "Running"
  PROVE  /\ status'[t] \in BlockedStatus /\ reschedule_pending' /\ running' = NoCore
         /\ \A g \in Range(todo') : g.fn = "AddWaiting"
<1>1. todo = <<>> /\ running \in Cores /\ current_thread[running] = t
  BY CallEffect
<1>2. status'[t] \in BlockedStatus /\ reschedule_pending' /\ running' = NoCore
  <2>1. \/ status' = status
        \/ \E x \in Threads : status[x] = "Unborn" /\ status' = [status EXCEPT ![x] = "Ready"]
        \/ \E st \in BlockedStatus : status' = [status EXCEPT ![t] = st] /\ reschedule_pending' /\ running' = NoCore
    BY CallEffect
  <2>2. QED
    BY <2>1 DEF TypeOK
<1>3. CASE status'[t] = "WaitSleep"
  <2>1. \E ns \in Delays : SleepThread(t, ns)
    <3>1. status' # [status EXCEPT ![t] = "WaitSynchAny"] /\ status' # [status EXCEPT ![t] = "WaitSynchAll"] /\ status' # status
      BY <1>3 DEF TypeOK
    <3>2. \A x \in Threads : status[x] = "Unborn" => status' # [status EXCEPT ![x] = "Ready"]
      BY <1>3 DEF TypeOK
    <3>3. QED
      BY <3>1, <3>2 DEF ThreadCall, CreateThread, ClearSignal, CancelTimer, ExitThread, TerminateProcess,
             SetThreadPriority, ReleaseSemaphore, SignalEvent, EventSignal, ReleaseMutex, SetTimer,
             WaitSynchronization1, WaitSynchronizationN, AcquireNow, TimeoutNow, Suspend
  <2>2. todo' = <<>>
    BY <1>1, <2>1 DEF SleepThread
  <2>3. QED
    BY <1>2, <2>2 DEF Range
<1>4. CASE status'[t] \in SyncStatus
  <2>1. ~WaitsAlone
    BY <1>4 DEF WaitsAlone, SyncStatus, TypeOK
  <2>2. PICK objs \in Seq(Objects), st \in SyncStatus : WaitStarts(t, objs, st)
    BY <2>1, CallWaits
  <2>3. \A g \in Range(todo') : g.fn = "AddWaiting"
    BY <2>2, ForEachFrames DEF WaitStarts
  <2>4. QED
    BY <1>2, <2>3
<1>5. QED
  BY <1>2, <1>3, <1>4 DEF BlockedStatus

(* An SVC keeps its caller running, or has the core give it up. *)
LEMMA CallSettled ==
  ASSUME TypeOK, SchedulerInv, WaitInv, StopInv, CurrentsSettled, NumCores = 1, NEW t \in Threads, ThreadCall(t)
  PROVE  CurrentsSettled'
<1>1. Cores = {0} /\ NoCore \notin Cores
  BY CoresNat DEF Cores, NoCore
<1>2. /\ todo = <<>> /\ running = 0 /\ current_thread[0] = t /\ current_thread' = current_thread
      /\ slices' = slices /\ advancing' = advancing /\ running' \in {running, NoCore}
  BY <1>1, CallEffect
<1>3. slices = {} /\ advancing = <<>>
  BY <1>1, <1>2 DEF CurrentsSettled
<1>4. status[t] = "Running"
  BY <1>1, <1>2, CallerFree, CallerAlive DEF StopInv
<1>5. status'[t] # "Running" => status'[t] \in BlockedStatus /\ GivenUp(0)'
  BY <1>2, <1>3, <1>4, CallBlocks DEF GivenUp
<1>6. QED
  BY <1>1, <1>2, <1>3, <1>5 DEF CurrentsSettled

(* Every step of a single core keeps its current thread settled. *)
LEMMA SettledStep ==
  ASSUME TypeOK, TypeOK', SchedulerInv, WaitInv, StopInv, CurrentsSettled, NumCores = 1, [Next]_vars
  PROVE  CurrentsSettled'
<1>1. CASE RunFrame
  BY <1>1, FrameSettled
<1>2. CASE RunLoop
  BY <1>2, LoopSettled
<1>3. CASE \E t \in Threads : ThreadCall(t)
  BY <1>3, CallSettled
<1>4. CASE UNCHANGED vars
  <2>1. UNCHANGED <<status, current_thread, todo, running, slices, advancing, reschedule_pending>>
    BY <1>4 DEF vars, core_vars, loop_vars
  <2>2. QED
    BY <2>1 DEF CurrentsSettled, GivenUp, Rescheduling
<1>5. QED
  BY <1>1, <1>2, <1>3, <1>4 DEF Next

(* The steps that write the result of a thread: its wakeup, its timeout, and the switch away from it. *)
LEMMA ResultWritten ==
  ASSUME TypeOK, [Next]_vars, NEW t \in Threads, result'[t] # result[t]
  PROVE  status[t] \in SyncStatus \/ \E c \in Cores : current_thread[c] = t
<1> USE DEF thread_vars, prio_vars, mutex_vars, wait_vars, signal_vars, event_vars, loop_vars, core_vars
<1>1. CASE RunFrame /\ Head(todo).fn = "Reschedule"
  <2>1. PICK c \in Cores : Reschedule(c)
    BY <1>1, TailType, FrameArguments DEF RunFrame
  <2>2. QED
    BY <2>1 DEF Reschedule, SavedContext
<1>2. CASE RunFrame /\ Head(todo).fn = "Wake"
  <2>1. PICK o \in Objects : WakeupAllWaitingThreads(o)
    BY <1>2, TailType, FrameArguments DEF RunFrame
  <2>2. PICK i \in Candidates(o) : WakeOne(o, waiting_threads[o][i])
    BY <2>1 DEF WakeupAllWaitingThreads, WakeEnd
  <2>3. PICK x \in Threads : x = waiting_threads[o][i]
    BY DEF Candidates, TypeOK
  <2>4. x \in Range(waiting_threads[o])
    BY <2>3 DEF Candidates, Range
  <2>5. status[x] \in SyncStatus
    BY <2>1, <2>4 DEF WakeupAllWaitingThreads
  <2>6. x = t
    BY <2>2, <2>3 DEF WakeOne, TypeOK
  <2>7. QED
    BY <2>5, <2>6
<1>3. CASE RunFrame /\ Head(todo).fn \notin {"Reschedule", "Wake"}
  BY <1>3 DEF RunFrame, Acquire, AddWaitingThread, RemoveWaitingThread, Wakeup, Resume, Rearm, UpdatePendingMutex, Stop,
         ReleaseThreadMutexes, TerminateProcessThreads
<1>4. CASE RunLoop
  <2>1. CASE \E x \in Threads : ThreadWakeupCallback(x)
    BY <2>1 DEF ThreadWakeupCallback, TypeOK
  <2>2. CASE ~\E x \in Threads : ThreadWakeupCallback(x)
    BY <1>4, <2>2 DEF RunLoop, StartIteration, AdvanceDone, StartSlice, EndSlice, RescheduleAll, TimerCallback,
           ServiceSignal, EventSignal
  <2>3. QED
    BY <2>1, <2>2
<1>5. ASSUME NEW x \in Threads, ThreadCall(x) PROVE FALSE
  <2>1. result' = result
    BY <1>5 DEF ThreadCall, CreateThread, SleepThread, ClearSignal, CancelTimer, ExitThread, TerminateProcess,
           SetThreadPriority, ReleaseSemaphore, SignalEvent, EventSignal, ReleaseMutex, SetTimer, WaitSynchronization1,
           WaitSynchronizationN, WaitUnchanged
  <2>2. QED
    BY <2>1
<1>6. CASE UNCHANGED vars
  BY <1>6 DEF vars
<1>7. QED
  BY <1>1, <1>2, <1>3, <1>4, <1>5, <1>6 DEF Next

(* SwitchContext: on a single core a thread that was woken keeps the result its wait ended with, whatever     *)
(* fires before it runs again. With two cores it does not (the run lost_result).                              *)
THEOREM ResultsKept == NumCores = 1 => (Spec => ResultStable)
<1> SUFFICES ASSUME NumCores = 1 PROVE Spec => ResultStable
  OBVIOUS
<1>1. StopsOwnCore
  BY DEF StopsOwnCore
<1>2. Init => SchedulerInv /\ WaitInv /\ StopInv /\ CurrentsSettled
  <2>1. Init => CurrentsSettled
    BY CoresNat DEF Init, CurrentsSettled, NoCore
  <2>2. QED
    BY <2>1, SchedulerInit, InitWaits, InitStops
<1>3. TypeOK /\ TypeOK' /\ SchedulerInv /\ WaitInv /\ StopInv /\ CurrentsSettled /\ [Next]_vars =>
        (SchedulerInv /\ WaitInv /\ StopInv /\ CurrentsSettled)'
  BY <1>1, SchedulerStep, WaitsStepAll, StopStep, SettledStep
<1>4. TypeOK /\ CurrentsSettled /\ [Next]_vars => [\A t \in Threads : status[t] = "Ready" => result'[t] = result[t]]_vars
  <2> SUFFICES ASSUME TypeOK, CurrentsSettled, [Next]_vars, NEW t \in Threads, status[t] = "Ready", result'[t] # result[t]
               PROVE  FALSE
    OBVIOUS
  <2>1. PICK c \in Cores : current_thread[c] = t
    BY ResultWritten DEF SyncStatus
  <2>2. t # Null
    BY ObjectsAssumption DEF Objects
  <2>3. QED
    BY <2>1, <2>2 DEF CurrentsSettled, BlockedStatus, SyncStatus
<1>5. QED
  BY <1>2, <1>3, <1>4, TypeCorrect, PTL DEF Spec, ResultStable
=============================================================================
