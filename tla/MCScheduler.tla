---------------------------- MODULE MCScheduler -----------------------------
(***************************************************************************)
(* Instances of ReadyQueue and CpuLimiter.  A behaviour is one of the      *)
(* ready queues of a core: with three threads ("queues", whose constants   *)
(* are those of this module), with many priorities ("lists") or with save  *)
(* states ("saved"); or one of the limiter of core 1: with a limit that is *)
(* set once ("once") or twice ("twice").  What it is not of stays as it    *)
(* was in the beginning.                                                   *)
(***************************************************************************)
EXTENDS ReadyQueue

CONSTANTS t1, t2, t3

VARIABLES
  part,
  list_first, list_next, list_data, list_status, list_priority, list_mode, list_current, list_walk,
  list_saved,
  current_schedule_mode, ready, active, curr_state, sleeping_thread_ids, ticks_queued,
  ticks_in_ts_queue, core1_status, timeout, core1_current, picking, calls

list_vars ==
  <<list_first, list_next, list_data, list_status, list_priority, list_mode, list_current, list_walk,
    list_saved>>
limiter_vars ==
  <<current_schedule_mode, ready, active, curr_state, sleeping_thread_ids, ticks_queued,
    ticks_in_ts_queue, core1_status, timeout, core1_current, picking, calls>>

Lists == INSTANCE ReadyQueue WITH
  Threads <- {t1, t2}, NumQueues <- 4, Modes <- {"SVC"},
  first <- list_first, next_nonempty <- list_next, data <- list_data, status <- list_status,
  current_priority <- list_priority, unschedule_mode <- list_mode, current_thread <- list_current,
  walk <- list_walk, saved <- list_saved

Saved == INSTANCE ReadyQueue WITH
  Threads <- {t1}, NumQueues <- 3, Modes <- {}, SaveStates <- TRUE,
  first <- list_first, next_nonempty <- list_next, data <- list_data, status <- list_status,
  current_priority <- list_priority, unschedule_mode <- list_mode, current_thread <- list_current,
  walk <- list_walk, saved <- list_saved

\* The threads are one of the application, one of the system and one that is never limited.
Sides(T) == [t \in T |-> IF t = t1 THEN "APP" ELSE IF t = t2 THEN "SYS" ELSE "EXEMPT"]

Once == INSTANCE CpuLimiter WITH
  Threads <- {t1, t2, t3}, Side <- Sides({t1, t2, t3}), Callers <- {0, 1}, ModeChanges <- 2,
  Updates <- 1, Switch <- FALSE, status <- core1_status,
  current_thread <- core1_current

Twice == INSTANCE CpuLimiter WITH
  Threads <- {t1, t2}, Side <- Sides({t1, t2}), Callers <- {0, 1}, ModeChanges <- 2,
  Updates <- 2, Switch <- FALSE, status <- core1_status,
  current_thread <- core1_current

ASSUME InstanceAssumption ==
  /\ Lists!PointersAssumption /\ Saved!PointersAssumption
  /\ Once!LimiterAssumption /\ Twice!LimiterAssumption

AllInit ==
  /\ part \in {"queues", "lists", "saved", "once", "twice"}
  /\ Init
  /\ IF part = "saved" THEN Saved!Init ELSE Lists!Init
  /\ IF part = "twice" THEN Twice!Init ELSE Once!Init

AllNext ==
  /\ UNCHANGED part
  /\ \/ part = "queues" /\ Next /\ UNCHANGED <<list_vars, limiter_vars>>
     \/ /\ \/ part = "lists" /\ Lists!Next
           \/ part = "saved" /\ Saved!Next
        /\ UNCHANGED <<vars, limiter_vars>>
     \/ /\ \/ part = "once" /\ Once!Next
           \/ part = "twice" /\ Twice!Next
        /\ UNCHANGED <<vars, list_vars>>

(* A reschedule runs to its end; core 1 keeps advancing (see CpuLimiter). *)
AllFairness ==
  /\ WF_vars(part = "queues" /\ (WalkStep \/ WalkEnds \/ RestoreSkipped \/ SwitchContext))
  /\ SF_limiter_vars(part = "twice" /\ Twice!MoveEvents)
  /\ \A l \in {"Single", "Multi"} : SF_limiter_vars(part = "twice" /\ Twice!OnTick(l))
  /\ WF_limiter_vars(part = "twice" /\ \E t \in {t1, t2} : Twice!DoTimeLimit(t) \/ Twice!SwitchTo(t))
  /\ WF_limiter_vars(part = "twice" /\ Twice!SwitchToNone)

AllSpec == AllInit /\ [][AllNext]_<<part, vars, list_vars, limiter_vars>> /\ AllFairness

-----------------------------------------------------------------------------

(* The queues keep what QueuesIntact says with many priorities, and when they are saved and    *)
(* loaded.                                                                                     *)
ListsIntact == IF part = "saved" THEN Saved!QueuesIntact ELSE Lists!QueuesIntact

(* The limiter has the types that CpuLimiter states. *)
LimiterTypeOK == IF part = "twice" THEN Twice!TypeOK ELSE Once!TypeOK

(* UpdateAppCpuLimit: when the limit is set once, at most one tick of a limiter is under way.     *)
OneTickEvent == part = "once" => Once!OneTickEvent

(* DoTimeLimit: a thread that the limiter put to sleep has no wakeup event of its own: it is in   *)
(* the list of a limiter whose tick is still to come, whatever calls and timeouts intervene.     *)
LimitedWillWake == IF part = "twice" THEN Twice!LimitedWillWake ELSE Once!LimitedWillWake

(* A limited thread gets ready again, unless it is terminated.                                   *)
LimitedWakes ==
  \A t \in {t1, t2} : part = "twice" /\ core1_status[t] = "Limited" ~> core1_status[t] # "Limited"

-----------------------------------------------------------------------------

(* PopNextReadyThread and CpuLimiter: the queues stay intact with many priorities and save      *)
(* states, and every reschedule gets to SwitchContext; there is one tick of the limiter, every *)
(* thread that was put to sleep inside PopNextReadyThread is in the list of a tick to come and *)
(* gets ready again, and only its own wakeup event ends the sleep of a thread that called      *)
(* svcSleepThread.                                                                             *)
ThreadsGoOn ==
  /\ []ListsIntact /\ RescheduleEnds
  /\ []LimiterTypeOK /\ []OneTickEvent /\ []LimitedWillWake /\ LimitedWakes
  /\ [][part = "once" => Once!SleepKeptStep]_limiter_vars
=============================================================================
