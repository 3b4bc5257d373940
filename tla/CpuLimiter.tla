----------------------------- MODULE CpuLimiter -----------------------------
(***************************************************************************)
(* The CPU limiter of core 1 (Kernel::CpuLimiterMulti, of which there are  *)
(* two, for the single and the multi schedule mode).  A periodic tick      *)
(* gives the core to applications and to system modules in turn; a thread  *)
(* of the wrong side that PopNextReadyThread selects is put to sleep and   *)
(* woken by the next tick.  The tick event of a limiter is in the event    *)
(* queue of core 1, or in its thread-safe queue when core 0 scheduled it;  *)
(* UnscheduleEvent finds it only in the first.                             *)
(*                                                                         *)
(* When events fire and which ready thread is best are left open.          *)
(***************************************************************************)
EXTENDS Integers, SequencesExt

CONSTANTS
  Threads,      \* the threads of core 1
  Side,         \* the side of each thread: "APP", "SYS" or "EXEMPT" from preemption
  Callers,      \* cores on which the limit or the mode is changed
  ModeChanges,  \* bound: calls of SetScheduleMode
  Updates,      \* bound: calls of UpdateAppCpuLimit
  Switch,       \* whether the build is for __SWITCH__
  Null

LimiterAssumption ==
  /\ Side \in [Threads -> {"APP", "SYS", "EXEMPT"}] /\ Callers \subseteq {0, 1}
  /\ ModeChanges \in Nat /\ Updates \in Nat /\ Switch \in BOOLEAN

Limiters == {"Single", "Multi"}

VARIABLES
  current_schedule_mode,
  ready, active, curr_state, sleeping_thread_ids,  \* CpuLimiterMulti, by limiter
  ticks_queued, ticks_in_ts_queue,                 \* tick events on core 1, by limiter
  status, timeout,                                 \* threads, and their wakeup events
  current_thread, picking,                         \* ThreadManager, PopNextReadyThread
  calls                                            \* calls left to make

limiter == <<current_schedule_mode, ready, active, curr_state, sleeping_thread_ids>>
ticks == <<ticks_queued, ticks_in_ts_queue>>
core == <<current_thread, picking>>
vars == <<limiter, ticks, status, timeout, core, calls>>

\* WaitSleep is split by who put the thread to sleep; Waiting stands for the other waits
Status == {"Ready", "Running", "Waiting", "SvcSleep", "Limited", "Dead"}
WaitSleep == {"SvcSleep", "Limited"}

TypeOK ==
  /\ current_schedule_mode \in Limiters
  /\ ready \in [Limiters -> BOOLEAN] /\ active \in [Limiters -> BOOLEAN]
  /\ curr_state \in [Limiters -> {"APP", "SYS"}]
  /\ sleeping_thread_ids \in [Limiters -> Seq(Threads)]
  /\ ticks_queued \in [Limiters -> Nat] /\ ticks_in_ts_queue \in [Limiters -> Nat]
  /\ status \in [Threads -> Status] /\ timeout \in [Threads -> BOOLEAN]
  /\ current_thread \in Threads \cup {Null} /\ picking \in BOOLEAN

Init ==
  /\ current_schedule_mode = "Multi"
  /\ ready = [l \in Limiters |-> FALSE]
  /\ active = [l \in Limiters |-> FALSE]
  /\ curr_state = [l \in Limiters |-> "APP"]
  /\ sleeping_thread_ids = [l \in Limiters |-> <<>>]
  /\ ticks_queued = [l \in Limiters |-> 0]
  /\ ticks_in_ts_queue = [l \in Limiters |-> 0]
  /\ status = [t \in Threads |-> "Ready"]
  /\ timeout = [t \in Threads |-> FALSE]
  /\ current_thread = Null /\ picking = FALSE
  /\ calls = [mode |-> ModeChanges, update |-> Updates]

-----------------------------------------------------------------------------
(* CpuLimiterMulti *)

\* Faulty: the list is kept, so that a later tick wakes the threads again
WakeAndKeep(l) ==
  /\ status' = [t \in Threads |->
       IF t \in Range(sleeping_thread_ids[l]) /\ status[t] \in WaitSleep
       THEN "Ready" ELSE status[t]]
  /\ sleeping_thread_ids' = sleeping_thread_ids

WakeupSleepingThreads(l) ==
  /\ status' = [t \in Threads |->
       IF t \in Range(sleeping_thread_ids[l]) /\ status[t] \in WaitSleep
       THEN "Ready" ELSE status[t]]
  /\ sleeping_thread_ids' = [sleeping_thread_ids EXCEPT ![l] = <<>>]

Other(s) == IF s = "SYS" THEN "APP" ELSE "SYS"

\* ChangeState schedules the next tick on core 1; called on core c
ScheduleTick(l, c, queued) ==
  /\ ticks_queued' = [ticks_queued EXCEPT ![l] = IF c = 1 THEN queued + 1 ELSE queued]
  /\ ticks_in_ts_queue' = [ticks_in_ts_queue EXCEPT ![l] = IF c = 1 THEN @ ELSE @ + 1]

\* SetScheduleMode: End of the limiter in use, Start of the one for the new mode
SetScheduleMode(mode) ==
  LET old == current_schedule_mode
  IN /\ ~ picking /\ calls.mode > 0
     /\ IF ready[old]
        THEN /\ WakeupSleepingThreads(old)
             /\ ticks_queued' = [ticks_queued EXCEPT ![old] = 0]
        ELSE UNCHANGED <<status, sleeping_thread_ids, ticks_queued>>
     /\ current_schedule_mode' = mode
     /\ ready' = [ready EXCEPT ![old] = FALSE, ![mode] = TRUE]
     /\ active' = [active EXCEPT ![old] = FALSE, ![mode] = FALSE]
     /\ curr_state' = [curr_state EXCEPT ![mode] = "APP"]
     /\ calls' = [calls EXCEPT !.mode = @ - 1]
     /\ UNCHANGED <<ticks_in_ts_queue, timeout, core>>

Disable(l) ==
  /\ active' = [active EXCEPT ![l] = FALSE]
  /\ ticks_queued' = [ticks_queued EXCEPT ![l] = 0]
  /\ WakeupSleepingThreads(l)
  /\ UNCHANGED <<ticks_in_ts_queue, curr_state>>

Enable(l, c) ==
  /\ active' = [active EXCEPT ![l] = TRUE]
  /\ curr_state' = [curr_state EXCEPT ![l] = Other(@)]
  /\ ScheduleTick(l, c, IF active[l] THEN 0 ELSE ticks_queued[l])
  /\ UNCHANGED <<status, sleeping_thread_ids>>

\* UpdateAppCpuLimit on core c, after the limit of applications was set
UpdateAppCpuLimit(enable, c) ==
  LET l == current_schedule_mode
  IN /\ ~ picking /\ calls.update > 0
     /\ ready[l]
     /\ IF enable /\ ~ Switch THEN Enable(l, c) ELSE Disable(l)
     /\ calls' = [calls EXCEPT !.update = @ - 1]
     /\ UNCHANGED <<current_schedule_mode, ready, timeout, core>>

\* The tick event fires on core 1: the count in the queue stays the same
OnTick(l) ==
  /\ ~ picking /\ ticks_queued[l] > 0
  /\ WakeupSleepingThreads(l)
  /\ curr_state' = [curr_state EXCEPT ![l] = Other(@)]
  /\ ScheduleTick(l, 1, ticks_queued[l] - 1)
  /\ UNCHANGED <<current_schedule_mode, ready, active, timeout, core, calls>>

\* Timer::MoveEvents of core 1
MoveEvents ==
  /\ ~ picking /\ \E l \in Limiters : ticks_in_ts_queue[l] > 0
  /\ ticks_queued' = [l \in Limiters |-> ticks_queued[l] + ticks_in_ts_queue[l]]
  /\ ticks_in_ts_queue' = [l \in Limiters |-> 0]
  /\ UNCHANGED <<limiter, status, timeout, core, calls>>

-----------------------------------------------------------------------------
(* The scheduler of core 1 *)

WrongSide(t) ==
  LET l == current_schedule_mode
  IN ready[l] /\ active[l] /\ Side[t] \in {"APP", "SYS"} /\ Side[t] # curr_state[l]

Reschedule ==
  /\ ~ picking /\ picking' = TRUE
  /\ UNCHANGED <<limiter, ticks, status, timeout, current_thread, calls>>

\* A thread that can be selected: the current one goes on unless a better one is ready
Selectable(t) ==
  \/ status[t] = "Ready"
  \/ t = current_thread /\ status[t] = "Running"

\* DoTimeLimit blocks the selected thread, and the next one is selected
DoTimeLimit(t) ==
  /\ picking /\ Selectable(t) /\ WrongSide(t)
  /\ status' = [status EXCEPT ![t] = "Limited"]
  /\ sleeping_thread_ids' = [sleeping_thread_ids EXCEPT ![current_schedule_mode] = Append(@, t)]
  /\ UNCHANGED <<current_schedule_mode, ready, active, curr_state, ticks, timeout, core, calls>>

\* The previous thread after a switch away from it
Preempted ==
  IF current_thread # Null /\ status[current_thread] = "Running"
  THEN [status EXCEPT ![current_thread] = "Ready"] ELSE status

\* SwitchContext cancels the wakeup event of the thread it runs
SwitchTo(t) ==
  /\ picking /\ Selectable(t) /\ ~ WrongSide(t)
  /\ status' = [Preempted EXCEPT ![t] = "Running"]
  /\ timeout' = [timeout EXCEPT ![t] = FALSE]
  /\ current_thread' = t /\ picking' = FALSE
  /\ UNCHANGED <<limiter, ticks, calls>>

SwitchToNone ==
  /\ picking /\ \A t \in Threads : ~ Selectable(t)
  /\ current_thread' = Null /\ picking' = FALSE
  /\ UNCHANGED <<limiter, ticks, status, timeout, calls>>

\* The current thread calls svcSleepThread, waits with or without a timeout, or ends
Runs == ~ picking /\ current_thread # Null /\ status[current_thread] = "Running"

SleepThread ==
  /\ Runs
  /\ status' = [status EXCEPT ![current_thread] = "SvcSleep"]
  /\ timeout' = [timeout EXCEPT ![current_thread] = TRUE]
  /\ UNCHANGED <<limiter, ticks, core, calls>>

Wait(timed) ==
  /\ Runs
  /\ status' = [status EXCEPT ![current_thread] = "Waiting"]
  /\ timeout' = [timeout EXCEPT ![current_thread] = timed]
  /\ UNCHANGED <<limiter, ticks, core, calls>>

\* The wait of a thread ends; its wakeup event stays until the thread runs
Signalled(t) ==
  /\ ~ picking /\ status[t] = "Waiting"
  /\ status' = [status EXCEPT ![t] = "Ready"]
  /\ UNCHANGED <<limiter, ticks, timeout, core, calls>>

\* ThreadWakeupCallback
Timeout(t) ==
  /\ ~ picking /\ timeout[t]
  /\ timeout' = [timeout EXCEPT ![t] = FALSE]
  /\ status' = IF status[t] \in WaitSleep \cup {"Waiting"}
               THEN [status EXCEPT ![t] = "Ready"] ELSE status
  /\ UNCHANGED <<limiter, ticks, core, calls>>

Stop(t) ==
  /\ ~ picking /\ status[t] # "Dead"
  /\ status' = [status EXCEPT ![t] = "Dead"]
  /\ timeout' = [timeout EXCEPT ![t] = FALSE]
  /\ UNCHANGED <<limiter, ticks, core, calls>>

-----------------------------------------------------------------------------
Next ==
  \/ \E mode \in Limiters : SetScheduleMode(mode)
  \/ \E enable \in BOOLEAN, c \in Callers : UpdateAppCpuLimit(enable, c)
  \/ \E l \in Limiters : OnTick(l)
  \/ MoveEvents \/ Reschedule \/ SwitchToNone \/ SleepThread
  \/ \E timed \in BOOLEAN : Wait(timed)
  \/ \E t \in Threads : DoTimeLimit(t) \/ SwitchTo(t) \/ Signalled(t) \/ Timeout(t) \/ Stop(t)

Spec == Init /\ [][Next]_vars

\* Core 1 keeps advancing: RunLoop calls Advance of its timer, which moves queued events and
\* fires the due ones, between any two reschedules, and a started reschedule ends.  Strong
\* fairness, because Advance cannot happen inside PopNextReadyThread.
FairSpec ==
  /\ Spec
  /\ SF_vars(MoveEvents)
  /\ \A l \in Limiters : SF_vars(OnTick(l))
  /\ WF_vars(\E t \in Threads : DoTimeLimit(t) \/ SwitchTo(t))
  /\ WF_vars(SwitchToNone)

-----------------------------------------------------------------------------
(* A thread that the limiter put to sleep has no wakeup event of its own: it must be in the  *)
(* list of a limiter whose tick is still to come, whatever calls and timeouts intervene.     *)
LimitedWillWake ==
  \A t \in Threads : status[t] = "Limited" =>
    \E l \in Limiters :
      /\ t \in Range(sleeping_thread_ids[l])
      /\ ticks_queued[l] + ticks_in_ts_queue[l] > 0

(* "Unschedule first so that the event is not scheduled twice": at most one tick of a        *)
(* limiter is under way (UpdateAppCpuLimit).                                                 *)
OneTickEvent ==
  \A l \in Limiters : ticks_queued[l] + ticks_in_ts_queue[l] <= 1

(* Only its own wakeup event ends the sleep of a thread that called svcSleepThread; the      *)
(* limiter wakes the threads that it put to sleep itself.                                    *)
SleepKeptStep ==
  \A t \in Threads :
    status[t] = "SvcSleep" /\ status'[t] = "Ready" => timeout[t] /\ ~ timeout'[t]
SleepKept == [][SleepKeptStep]_vars

(* A limited thread gets ready again, unless it is terminated.                               *)
LimitedWakes == \A t \in Threads : status[t] = "Limited" ~> status[t] # "Limited"
=============================================================================
