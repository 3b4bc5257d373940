------------------------------ MODULE MCTiming ------------------------------
(***************************************************************************)
(* Instances of CoreTiming and AsyncRequests.  A behaviour is one of two   *)
(* cores ("cores", "overshoot"), of two cores and save states ("saved"),   *)
(* of one core and a host thread that schedules events ("host"), or of     *)
(* requests that a host thread answers: with save states ("async"), with a *)
(* thread that is terminated ("stopped"), and deterministic ("sync").      *)
(* What it is not of stays as it was in the beginning.                     *)
(***************************************************************************)
EXTENDS AsyncRequests, Sequences

CONSTANTS e1, e2, h1, t1, t2, none

VARIABLES
  part,
  executed_ticks, slice_length, downcount, is_timer_sane, event_queue, ts_queue,
  current_timer, pc, loop, host

timing_vars ==
  <<executed_ticks, slice_length, downcount, is_timer_sane, event_queue, ts_queue,
    current_timer, pc, loop, host>>

Two == INSTANCE CoreTiming WITH
  NumCores <- 2, MaxSlice <- 2, MinDelay <- 1, Overshoot <- 0, Events <- {e1, e2}, Delays <- {1, 2},
  HostEvents <- {}, MaxTicks <- 0, SaveStates <- FALSE, Null <- none

Over == INSTANCE CoreTiming WITH
  NumCores <- 2, MaxSlice <- 3, MinDelay <- 1, Overshoot <- 1, Events <- {e1}, Delays <- {0, 2},
  HostEvents <- {}, MaxTicks <- 0, SaveStates <- FALSE, Null <- none

Saved == INSTANCE CoreTiming WITH
  NumCores <- 2, MaxSlice <- 2, MinDelay <- 1, Overshoot <- 0, Events <- {e1}, Delays <- {0, 2},
  HostEvents <- {}, MaxTicks <- 2, SaveStates <- TRUE, Null <- none

One == INSTANCE CoreTiming WITH
  NumCores <- 1, MaxSlice <- 2, MinDelay <- 1, Overshoot <- 0, Events <- {h1}, Delays <- {1},
  HostEvents <- {h1}, MaxTicks <- 4, SaveStates <- FALSE, Null <- none

Stopped == INSTANCE AsyncRequests WITH IPCDelay <- FALSE, Requests <- 1, Terminations <- 1

Sync == INSTANCE AsyncRequests WITH ReallyAsync <- FALSE, IPCDelay <- FALSE

ASSUME InstanceAssumption ==
  /\ Two!TimingAssumption /\ Over!TimingAssumption /\ Saved!TimingAssumption /\ One!TimingAssumption
  /\ Stopped!AsyncAssumption /\ Sync!AsyncAssumption

AllInit ==
  /\ part \in {"cores", "overshoot", "saved", "host", "async", "stopped", "sync"}
  /\ CASE part = "host" -> One!TimingInit [] part = "overshoot" -> Over!TimingInit [] OTHER -> Two!TimingInit
  /\ Init

AllNext ==
  /\ UNCHANGED part
  /\ \/ /\ \/ part = "cores" /\ Two!TimingNext
           \/ part = "overshoot" /\ Over!TimingNext
           \/ part = "saved" /\ Saved!TimingNext
           \/ part = "host" /\ One!TimingNext
        /\ UNCHANGED vars
     \/ /\ \/ part = "async" /\ Next
           \/ part = "stopped" /\ Stopped!Next
           \/ part = "sync" /\ Sync!Next
        /\ UNCHANGED timing_vars

(* The fairness of CoreTiming for two cores, and that of AsyncRequests. *)
AllFairness ==
  /\ WF_timing_vars(part = "cores" /\ Two!LoopStep)
  /\ WF_timing_vars(part = "cores" /\ Two!RunEnds)
  /\ WF_timing_vars(part = "cores" /\ Two!CallbackReturns)
  /\ \A t \in Threads :
       /\ WF_vars(part \in {"async", "stopped", "sync"} /\ SleepAsync(t))
       /\ WF_vars(part \in {"async", "stopped", "sync"} /\ HostDone(t))
       /\ WF_vars(part \in {"async", "stopped", "sync"} /\ ThreadWakeupCallback(t))
  /\ WF_vars(part \in {"async", "stopped", "sync"} /\ MoveEvents)
  /\ WF_vars(part \in {"async", "stopped", "sync"} /\ RunLoop)
  /\ WF_vars(part \in {"async", "stopped", "sync"} /\ FiveSecondsPass)

AllSpec == AllInit /\ [][AllNext]_<<part, timing_vars, vars>> /\ AllFairness

-----------------------------------------------------------------------------

(* The timers have the types that CoreTiming states. *)
TimersTypeOK ==
  CASE part = "host" -> One!TimingTypeOK [] part = "saved" -> Saved!TimingTypeOK
    [] part = "overshoot" -> Over!TimingTypeOK [] OTHER -> Two!TimingTypeOK

(* ForceExceptionCheck and SetNextSlice: an event that a core schedules for itself is never      *)
(* missed by a slice, so it is late by the overshoot of the recompiler at most, also after a     *)
(* state was loaded.                                                                             *)
OwnEventsOnTime ==
  CASE part = "cores" -> Two!OwnEventsOnTime [] part = "overshoot" -> Over!OwnEventsOnTime
    [] part = "saved" -> Saved!OwnEventsOnTime [] OTHER -> TRUE

(* ScheduleEvent, MoveEvents: an event for another core is late by one slice at most.            *)
CrossEventsOneSliceLate ==
  CASE part = "cores" -> Two!CrossEventsOneSliceLate [] part = "overshoot" -> Over!CrossEventsOneSliceLate
    [] OTHER -> TRUE

(* GetMaxSliceLength: every slice that is handed out has at least one tick.                      *)
SlicesNotEmpty ==
  CASE part = "host" -> One!SlicesNotEmpty [] part = "saved" -> Saved!SlicesNotEmpty
    [] part = "overshoot" -> Over!SlicesNotEmpty [] OTHER -> Two!SlicesNotEmpty

(* RunLoop, "Now all cores are at the same global time": whenever the cores start to run, their  *)
(* clocks differ by no more than min_delay.                                                      *)
SyncedWhenSliced ==
  CASE part = "cores" -> Two!SyncedWhenSliced [] part = "overshoot" -> Over!SyncedWhenSliced
    [] OTHER -> TRUE

(* However slices are cut short, no core gets further ahead than one slice.                      *)
SkewBounded ==
  CASE part = "cores" -> Two!SkewBounded [] part = "overshoot" -> Over!SkewBounded [] OTHER -> TRUE

(* ScheduleEvent from a host thread, which reads the fields of the timer at different moments:   *)
(* its minimum delay is enough for the event not to be due before the time of the request.       *)
HostEventsNotEarly == part = "host" => One!HostEventsNotEarly

(* Advance: an event that is scheduled fires, or is unscheduled; no other core's events, however *)
(* frequent, keep a timer from advancing.                                                        *)
EventsFire ==
  \A e \in {e1, e2} : part = "cores" /\ Two!Pending(e) ~> part = "cores" /\ ~Two!Pending(e)

(* Every request is answered in the end.                                                         *)
RequestsAnswered ==
  \A t \in Threads : part # "stopped" /\ status[t] # "Running" ~> status[t] = "Running"

-----------------------------------------------------------------------------

(* ScheduleEvent: an event is never missed by a slice of its own core, late by one slice at    *)
(* most when another core schedules it, and not early when a host thread does.                 *)
EventsOnTime == TimersTypeOK /\ OwnEventsOnTime /\ CrossEventsOneSliceLate /\ HostEventsNotEarly

(* RunLoop, Advance, RunAsync: slices have at least one tick, the clocks of the cores stay      *)
(* together, and every event fires although cores wait for each other; every request is        *)
(* answered, and every save or load that was asked for is done or refused, although operations *)
(* may be pending whenever the run loop looks: five seconds end the wait, also when a thread    *)
(* was terminated and its operation is counted for ever.                                       *)
TimingGoesOn ==
  /\ []SlicesNotEmpty /\ []SyncedWhenSliced /\ []SkewBounded /\ EventsFire
  /\ RequestsAnswered /\ SavesEnd
=============================================================================
