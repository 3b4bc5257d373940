----------------------------- MODULE CoreTiming -----------------------------
(***************************************************************************)
(* The clocks and timed events of the emulated cores (Core::Timing) driven *)
(* by the slices of System::RunLoop.  Every core has a timer with its own  *)
(* clock and event queue; an event for another core, or from a host        *)
(* thread, waits in the thread-safe queue of its timer until that timer    *)
(* advances.  A host thread reads the fields of a timer without a lock,    *)
(* while the emulation thread writes them.                                 *)
(*                                                                         *)
(* The heap of events, ordered by time and then by order of insertion, is  *)
(* a sequence kept in that order.  Only differences between clocks matter, *)
(* so at the top of the loop all times are taken relative to the slowest   *)
(* core, unless a host request under way remembers an absolute time.       *)
(***************************************************************************)
EXTENDS Integers, SequencesExt, ListOps

CONSTANTS
  NumCores,      \* cores are 0 .. NumCores - 1
  MaxSlice,      \* MAX_SLICE_LENGTH
  MinDelay,      \* min_delay of the run loop
  Overshoot,     \* by how many ticks the recompiler may run past the end of its slice
  Events,        \* requests: pairs of an event type and its user data
  Delays,        \* the delays events are scheduled with
  HostEvents,    \* the events that host threads schedule
  MaxTicks,      \* bound: clock up to which a pending host request is followed, and
                 \* difference between clocks up to which a state is saved
  SaveStates,    \* whether a state is saved and loaded
  Null

Cores == 0 .. NumCores - 1

\* The longest slice a core can use: each core may overshoot what the one before it used
Reach == MaxSlice + NumCores * Overshoot

TimingAssumption ==
  /\ NumCores \in Nat \ {0} /\ MaxSlice \in Nat \ {0} /\ MinDelay \in Nat /\ Overshoot \in Nat
  /\ MinDelay <= MaxSlice
  /\ Delays \subseteq Nat /\ HostEvents \subseteq Events /\ MaxTicks \in Nat

VARIABLES
  executed_ticks, slice_length, downcount, is_timer_sane,  \* Timing::Timer, by core
  event_queue, ts_queue,
  current_timer,   \* the timer of the running core
  pc,              \* where RunLoop is
  loop,            \* its local variables
  host             \* a host thread inside ScheduleEvent, or Null

clock == <<executed_ticks, slice_length, downcount, is_timer_sane>>
events == <<event_queue, ts_queue>>
control == <<current_timer, pc, loop>>
timing_vars == <<clock, events, control, host>>

Fields == {"executed_ticks", "slice_length", "downcount", "is_timer_sane"}

Locals ==
  [phase |-> "lag", core |-> 0, global |-> 0, max_delay |-> 0, lagging |-> 0,
   max_slice |-> MaxSlice, start |-> 0]

TimingInit ==
  /\ executed_ticks = [c \in Cores |-> 0]
  /\ slice_length = [c \in Cores |-> MaxSlice]
  /\ downcount = [c \in Cores |-> MaxSlice]
  /\ is_timer_sane = [c \in Cores |-> TRUE]
  /\ event_queue = [c \in Cores |-> <<>>]
  /\ ts_queue = [c \in Cores |-> <<>>]
  /\ current_timer = 0
  /\ pc = "top"
  /\ loop = Locals
  /\ host = Null

-----------------------------------------------------------------------------
(* Timers *)

GetTicks(c) ==
  executed_ticks[c] + (IF is_timer_sane[c] THEN 0 ELSE slice_length[c] - downcount[c])

GetGlobalTicks == Max({GetTicks(c) : c \in Cores})

\* Insert an event after all events that are not later
Insert(q, e) ==
  LET later == {i \in DOMAIN q : q[i].time > e.time}
  IN InsertAt(q, IF later = {} THEN Len(q) + 1 ELSE Min(later), e)

\* End the slice of core c after the given number of ticks
ForceExceptionCheck(c, cycles) ==
  IF downcount[c] > cycles
  THEN /\ slice_length' = [slice_length EXCEPT ![c] = @ - (downcount[c] - cycles)]
       /\ downcount' = [downcount EXCEPT ![c] = cycles]
  ELSE UNCHANGED <<slice_length, downcount>>

Pending(e) ==
  \/ \E c \in Cores : \E i \in DOMAIN event_queue[c] : event_queue[c][i].id = e
  \/ \E c \in Cores : \E i \in DOMAIN ts_queue[c] : ts_queue[c][i].id = e
  \/ host # Null /\ host.id = e

\* The emulation thread runs the callback of an event, or the guest calls the kernel: with
\* an instruction, so at least one tick after the start of its slice
InGuest ==
  \/ pc = "callback"
  \/ pc = "run" /\ GetTicks(current_timer) > loop.start

\* ScheduleEvent on the emulation thread
ScheduleEvent(e, c, cycles) ==
  /\ InGuest /\ ~ Pending(e) /\ e \notin HostEvents
  /\ LET time == GetTicks(c) + cycles
     IN IF c = current_timer
        THEN /\ IF is_timer_sane[c] THEN UNCHANGED <<slice_length, downcount>>
                ELSE ForceExceptionCheck(c, cycles)
             /\ event_queue' = [event_queue EXCEPT
                  ![c] = Insert(@, [id |-> e, time |-> time, from |-> "own", base |-> time])]
             /\ UNCHANGED ts_queue
        ELSE /\ ts_queue' = [ts_queue EXCEPT
                  ![c] = Append(@, [id |-> e, time |-> time, from |-> "core", base |-> time])]
             /\ UNCHANGED <<slice_length, downcount, event_queue>>
  /\ UNCHANGED <<executed_ticks, is_timer_sane, control, host>>

\* UnscheduleEvent looks at the event queues only
UnscheduleEvent(e) ==
  /\ InGuest
  /\ \E c \in Cores : \E i \in DOMAIN event_queue[c] : event_queue[c][i].id = e
  /\ event_queue' = [c \in Cores |->
       Without(event_queue[c], {x \in Range(event_queue[c]) : x.id = e})]
  /\ UNCHANGED <<clock, ts_queue, control, host>>

-----------------------------------------------------------------------------
(* A host thread inside ScheduleEvent with thread_safe_mode: the fields of the timer are     *)
(* read one at a time, in whatever order the compiler left them.  That order is free, so the *)
(* stores of Advance and SetNextSlice need no steps of their own.                            *)

HostStart(e, c, cycles) ==
  /\ host = Null /\ e \in HostEvents /\ ~ Pending(e)
  /\ host' = [id |-> e, core |-> c, cycles |-> cycles, read |-> <<>>,
              base |-> executed_ticks[c] + slice_length[c] - downcount[c]]
  /\ pc = "run"   \* so that base is the clock of the core
  /\ UNCHANGED <<clock, events, control>>

HostRead(f) ==
  /\ host # Null /\ f \notin DOMAIN host.read
  /\ host' = [host EXCEPT !.read = [g \in DOMAIN host.read \cup {f} |->
       IF g # f THEN host.read[g]
       ELSE CASE f = "executed_ticks" -> executed_ticks[host.core]
              [] f = "slice_length" -> slice_length[host.core]
              [] f = "downcount" -> downcount[host.core]
              [] f = "is_timer_sane" -> is_timer_sane[host.core]]]
  /\ UNCHANGED <<clock, events, control>>

HostTicks ==
  LET r == host.read
  IN r["executed_ticks"] + (IF r["is_timer_sane"] THEN 0 ELSE r["slice_length"] - r["downcount"])

HostCycles == Max({2 * MaxSlice, host.cycles})

HostPush ==
  /\ host # Null /\ DOMAIN host.read = Fields
  /\ ts_queue' = [ts_queue EXCEPT ![host.core] =
       Append(@, [id |-> host.id, time |-> HostTicks + HostCycles,
                  from |-> "host", base |-> host.base])]
  /\ host' = Null
  /\ UNCHANGED <<clock, event_queue, control>>

-----------------------------------------------------------------------------
(* Timer::Advance: first the clock, then the events that are due, one callback at a time     *)

\* MoveEvents: the events of the thread-safe queue are pushed one by one
Merged(q, ts) ==
  LET merged[n \in 0 .. Len(ts)] == IF n = 0 THEN q ELSE Insert(merged[n - 1], ts[n])
  IN merged[Len(ts)]

Moved(c) == Merged(event_queue[c], ts_queue[c])

\* Faulty: the events of other cores and host threads are not taken over
AdvanceWithoutMove ==
  /\ pc = "advance"
  /\ LET c == current_timer
     IN /\ executed_ticks' = [executed_ticks EXCEPT ![c] = @ + slice_length[c] - downcount[c]]
        /\ slice_length' = [slice_length EXCEPT ![c] = 0]
        /\ downcount' = [downcount EXCEPT ![c] = 0]
        /\ is_timer_sane' = [is_timer_sane EXCEPT ![c] = TRUE]
  /\ pc' = "events"
  /\ UNCHANGED <<events, current_timer, loop, host>>

Advance ==
  /\ pc = "advance"
  /\ LET c == current_timer
     IN /\ event_queue' = [event_queue EXCEPT ![c] = Moved(c)]
        /\ ts_queue' = [ts_queue EXCEPT ![c] = <<>>]
        /\ executed_ticks' = [executed_ticks EXCEPT ![c] = @ + slice_length[c] - downcount[c]]
        /\ slice_length' = [slice_length EXCEPT ![c] = 0]
        /\ downcount' = [downcount EXCEPT ![c] = 0]
        /\ is_timer_sane' = [is_timer_sane EXCEPT ![c] = TRUE]
  /\ pc' = "events"
  /\ UNCHANGED <<current_timer, loop, host>>

Due(c) == event_queue[c] # <<>> /\ Head(event_queue[c]).time <= executed_ticks[c]

\* Faulty: the event stays in the queue
FireEventKeepsIt ==
  /\ pc = "events" /\ Due(current_timer)
  /\ pc' = "callback"
  /\ UNCHANGED <<clock, events, current_timer, loop, host>>

FireEvent ==
  /\ pc = "events" /\ Due(current_timer)
  /\ event_queue' = [event_queue EXCEPT ![current_timer] = Tail(@)]
  /\ pc' = "callback"
  /\ UNCHANGED <<clock, ts_queue, current_timer, loop, host>>

CallbackReturns ==
  /\ pc = "callback" /\ pc' = "events"
  /\ UNCHANGED <<clock, events, current_timer, loop, host>>

AdvanceEnds ==
  /\ pc = "events" /\ ~ Due(current_timer)
  /\ is_timer_sane' = [is_timer_sane EXCEPT ![current_timer] = FALSE]
  /\ pc' = "advanced"
  /\ UNCHANGED <<executed_ticks, slice_length, downcount, events, current_timer, loop, host>>

\* The slice ends at the next event
SetNextSlice(c, max_slice_length) ==
  LET length == IF event_queue[c] = <<>> THEN max_slice_length
                ELSE Min({Head(event_queue[c]).time - executed_ticks[c], max_slice_length})
  IN /\ slice_length' = [slice_length EXCEPT ![c] = length]
     /\ downcount' = [downcount EXCEPT ![c] = length]

-----------------------------------------------------------------------------
(* RunLoop *)

ShiftAll(q, base) ==
  [c \in Cores |-> [i \in DOMAIN q[c] |->
     [q[c][i] EXCEPT !.time = @ - base, !.base = @ - base]]]

Remembers == host # Null

\* A new iteration: find how far the clocks are apart
StartIteration ==
  /\ pc = "top"
  /\ Remembers => \A c \in Cores : executed_ticks[c] <= MaxTicks
  /\ LET base == IF Remembers THEN 0 ELSE Min({executed_ticks[c] : c \in Cores})
     IN /\ executed_ticks' = [c \in Cores |-> executed_ticks[c] - base]
        /\ event_queue' = ShiftAll(event_queue, base)
        /\ ts_queue' = ShiftAll(ts_queue, base)
        /\ loop' = [Locals EXCEPT !.global = GetGlobalTicks - base]
  /\ pc' = "lag"
  /\ UNCHANGED <<slice_length, downcount, is_timer_sane, current_timer, host>>

Begin(c) == current_timer' = c /\ pc' = "advance"

\* A core that is behind the others advances and gets a slice that catches up
LagNext ==
  /\ pc = "lag" /\ loop.core < NumCores
  /\ IF GetTicks(loop.core) < loop.global
     THEN /\ Begin(loop.core)
          /\ loop' = [loop EXCEPT !.start = loop.global - GetTicks(loop.core)]
     ELSE loop' = [loop EXCEPT !.core = @ + 1] /\ UNCHANGED <<current_timer, pc>>
  /\ UNCHANGED <<clock, events, host>>

LagAdvanced ==
  /\ pc = "advanced" /\ loop.phase = "lag"
  /\ SetNextSlice(loop.core, loop.start)
  /\ LET delay == loop.start
         counted == [loop EXCEPT !.core = @ + 1]
     IN loop' = IF loop.max_delay < delay
                THEN [counted EXCEPT !.max_delay = delay, !.lagging = loop.core]
                ELSE counted
  /\ pc' = "lag"
  /\ UNCHANGED <<executed_ticks, is_timer_sane, events, current_timer, host>>

\* Only the core furthest behind runs, unless all are close together
LagEnds ==
  /\ pc = "lag" /\ loop.core = NumCores
  /\ IF loop.max_delay > MinDelay
     THEN /\ current_timer' = loop.lagging
          /\ pc' = "run"
          /\ loop' = [Locals EXCEPT !.core = loop.lagging, !.start = GetTicks(loop.lagging)]
     ELSE /\ pc' = "sync" /\ loop' = [Locals EXCEPT !.phase = "sync"]
          /\ UNCHANGED current_timer
  /\ UNCHANGED <<clock, events, host>>

SyncNext ==
  /\ pc = "sync"
  /\ IF loop.core < NumCores
     THEN Begin(loop.core) /\ UNCHANGED loop
     ELSE /\ pc' = "slice" /\ loop' = [loop EXCEPT !.phase = "slice", !.core = 0]
          /\ UNCHANGED current_timer
  /\ UNCHANGED <<clock, events, host>>

GetMaxSliceLength(c) ==
  IF event_queue[c] = <<>> THEN MaxSlice ELSE Head(event_queue[c]).time - executed_ticks[c]

SyncAdvanced ==
  /\ pc = "advanced" /\ loop.phase = "sync"
  /\ loop' = [loop EXCEPT !.core = @ + 1,
                          !.max_slice = Min({@, GetMaxSliceLength(loop.core)})]
  /\ pc' = "sync"
  /\ UNCHANGED <<clock, events, current_timer, host>>

SliceNext ==
  /\ pc = "slice"
  /\ SetNextSlice(loop.core, loop.max_slice)
  /\ loop' = [loop EXCEPT !.start = executed_ticks[loop.core]]
  /\ current_timer' = loop.core
  /\ pc' = "run"
  /\ UNCHANGED <<executed_ticks, is_timer_sane, events, host>>

\* The guest executes n ticks, with the time between two of its calls to the kernel
RunTicks(n) ==
  /\ pc = "run" /\ downcount[current_timer] > 0
  /\ n <= downcount[current_timer] + Overshoot
  /\ downcount' = [downcount EXCEPT ![current_timer] = @ - n]
  /\ UNCHANGED <<executed_ticks, slice_length, is_timer_sane, events, control, host>>

\* No thread is ready: the rest of the slice passes at once
Idle ==
  /\ pc = "run" /\ downcount[current_timer] > 0
  /\ downcount' = [downcount EXCEPT ![current_timer] = 0]
  /\ UNCHANGED <<executed_ticks, slice_length, is_timer_sane, events, control, host>>

\* A slice ends when it is used up, or when a call of the guest asks for a reschedule; the
\* next core runs for as many ticks as this one did
RunEnds ==
  /\ pc = "run" /\ GetTicks(current_timer) > loop.start
  /\ IF loop.phase = "slice" /\ loop.core + 1 < NumCores
     THEN /\ pc' = "slice"
          /\ loop' = [loop EXCEPT !.core = @ + 1,
                                  !.max_slice = GetTicks(current_timer) - loop.start]
     ELSE pc' = "top" /\ loop' = Locals
  /\ UNCHANGED <<clock, events, current_timer, host>>

\* A state is saved and loaded again: is_timer_sane is not part of it and starts as TRUE
SaveAndLoad ==
  /\ SaveStates /\ pc = "top" /\ host = Null
  /\ \A a, b \in Cores :
       (executed_ticks[a] + slice_length[a] - downcount[a])
       - (executed_ticks[b] + slice_length[b] - downcount[b]) <= MaxTicks
  /\ event_queue' = [c \in Cores |-> Moved(c)]
  /\ ts_queue' = [c \in Cores |-> <<>>]
  /\ is_timer_sane' = [c \in Cores |-> TRUE]
  /\ UNCHANGED <<executed_ticks, slice_length, downcount, control, host>>

-----------------------------------------------------------------------------
LoopStep ==
  \/ StartIteration \/ LagNext \/ LagAdvanced \/ LagEnds
  \/ SyncNext \/ SyncAdvanced \/ SliceNext
  \/ Advance \/ FireEvent \/ CallbackReturns \/ AdvanceEnds
  \/ \E n \in 1 .. Reach : RunTicks(n)
  \/ Idle \/ RunEnds

HostStep ==
  \/ \E e \in HostEvents, c \in Cores, d \in Delays : HostStart(e, c, d)
  \/ \E f \in Fields : HostRead(f)
  \/ HostPush

TimingNext ==
  \/ LoopStep
  \/ \E e \in Events, c \in Cores, d \in Delays : ScheduleEvent(e, c, d)
  \/ \E e \in Events : UnscheduleEvent(e)
  \/ HostStep
  \/ SaveAndLoad

TimingSpec == TimingInit /\ [][TimingNext]_timing_vars

\* The frontend calls RunLoop again and again, callbacks return, and the guest executes
\* instructions or the core idles
TimingFairSpec ==
  /\ TimingSpec
  /\ WF_timing_vars(LoopStep)
  /\ WF_timing_vars(RunEnds)
  /\ WF_timing_vars(CallbackReturns)

-----------------------------------------------------------------------------
Record == [id : Events, time : Int, from : {"own", "core", "host"}, base : Int]

TimingTypeOK ==
  /\ executed_ticks \in [Cores -> Int] /\ is_timer_sane \in [Cores -> BOOLEAN]
  /\ slice_length \in [Cores -> Int] /\ downcount \in [Cores -> Int]
  /\ event_queue \in [Cores -> Seq(Record)] /\ ts_queue \in [Cores -> Seq(Record)]
  /\ current_timer \in Cores
  /\ pc \in {"top", "lag", "sync", "slice", "advance", "events", "callback", "advanced", "run"}
  /\ loop \in [phase : {"lag", "sync", "slice"}, core : 0 .. NumCores, global : Int,
               max_delay : Int, lagging : Cores, max_slice : Int, start : Int]
  /\ host # Null =>
       /\ host = [id |-> host.id, core |-> host.core, cycles |-> host.cycles,
                  read |-> host.read, base |-> host.base]
       /\ host.id \in HostEvents /\ host.core \in Cores /\ host.cycles \in Delays
       /\ host.base \in Int /\ DOMAIN host.read \subseteq Fields
       /\ \A f \in DOMAIN host.read :
            IF f = "is_timer_sane" THEN host.read[f] \in BOOLEAN ELSE host.read[f] \in Int

\* The clock of a core, also while is_timer_sane is stale
Clock(c) == executed_ticks[c] + slice_length[c] - downcount[c]

(* An event that a core schedules for itself is never missed by a slice: ForceExceptionCheck *)
(* and SetNextSlice end the slice there, so it is late by the overshoot at most.             *)
OwnEventsOnTime ==
  \A c \in Cores : \A i \in DOMAIN event_queue[c] :
    event_queue[c][i].from = "own" => Clock(c) <= event_queue[c][i].time + Overshoot

(* An event scheduled for another core is not seen before that core advances: it is late by  *)
(* one slice (and its overshoot) at most, never by more.  A slice that catches up with the   *)
(* other cores may be longer than MaxSlice, by the min_delay that RunLoop lets them differ.  *)
CrossEventsOneSliceLate ==
  \A c \in Cores : \A q \in {event_queue[c], ts_queue[c]} : \A i \in DOMAIN q :
    q[i].from = "core" => Clock(c) <= q[i].time + Reach + MinDelay

(* A host thread may read the fields of the timer at different moments, torn between two     *)
(* slices, and see a clock of almost two slices ago: the minimum delay of two slices is just *)
(* enough for the event not to be due before the time of the request, but for the overshoot. *)
HostEventsNotEarly ==
  \A c \in Cores : \A q \in {event_queue[c], ts_queue[c]} : \A i \in DOMAIN q :
    q[i].from = "host" => q[i].time >= q[i].base - Overshoot

(* GetMaxSliceLength asserts that the next event lies in the future; together with the slice *)
(* of the core before it, every slice that is handed out has at least one tick.              *)
SlicesNotEmpty ==
  /\ pc = "advanced" => GetMaxSliceLength(current_timer) > 0
  /\ pc = "slice" => loop.max_slice > 0

(* "Now all cores are at the same global time": whenever the cores start to run one after    *)
(* the other their clocks differ by no more than min_delay.                                  *)
SyncedWhenSliced ==
  pc = "slice" /\ loop.core = 0
    => \A a, b \in Cores : executed_ticks[a] - executed_ticks[b] <= MinDelay

(* However slices are cut short, no core ever gets further ahead than one slice.             *)
SkewBounded ==
  \A a, b \in Cores : Clock(a) - Clock(b) <= Reach + MinDelay

(* An event that is scheduled fires, or is unscheduled: no other core's events, however      *)
(* frequent, keep a timer from advancing.                                                    *)
EventsFire == \A e \in Events \ HostEvents : Pending(e) ~> ~ Pending(e)
=============================================================================
