# GBAStation_3DS: TLA+ models of the emulated kernel and its surroundings

GBAStation_3DS is a Nintendo 3DS emulator (a fork of Azahar/Citra with a Switch
frontend). What is hard to test in it is concurrency and failure: the high-level
emulation of the ARM11 kernel, where threads of several emulated cores, timeouts
and process termination are driven by one host thread; host threads that finish
work for the guest; queues and thread pools; the threads that submit and present
frames; rooms that lose connections; files that are replaced while the power may
go. This directory models those parts, checks them with TLC on small instances
and proves central invariants with TLAPS for all instances.

## 1. Inventory

Paths are relative to `src/src/`.

| Part | State | Operations | Hard behaviour | Modules |
|---|---|---|---|---|
| Threads, scheduler (`core/hle/kernel/thread.cpp`) | status, priorities, wait objects, mutexes, wakeup callback, saved registers; a current thread per core | CreateThread, Stop, ResumeFromWait, WakeAfterDelay, SetPriority, BoostPriority, SwitchContext, Reschedule, TerminateProcessThreads | a timeout races a signal; a thread dies while another core executes it | `KernelSync` |
| Ready queues (`common/thread_queue_list.h`, `thread.cpp`) | a linked list of used priorities, a queue each, unschedule modes | push_back, push_front, move, remove, pop_first, PopNextReadyThread, save, load | a thread is moved while it is queued; threads that may not be scheduled | `ReadyQueue`, `PriorityScheduler` |
| CPU limiter (`thread.cpp`) | mode, limit, side whose turn it is, sleeping threads, tick event | UpdateAppCpuLimit, SetScheduleMode, OnTick, DoTimeLimit | a tick in the queue of another core; a sleep inside PopNextReadyThread | `CpuLimiter` |
| Wait objects, mutexes, semaphores, events, timers | waiting threads; lock count, holder, priority; counts; signaled | AddWaitingThread, WakeupAllWaitingThreads, Acquire, Release, Signal, Set, Cancel | wait for all; priority inheritance; the owner dies; reset types; signed counts | `KernelSync`, `SemaphoreCount` |
| SVCs (`svc.cpp`), run loop (`core/core.cpp`) | running core, reschedule pending | one function per SVC, RunLoop, Reschedule | early returns; cores that lag behind | `KernelSync` and the modules of the parts they change |
| Core timing (`core/core_timing.cpp`) | per core a heap of events, a thread-safe queue, clock, slice | ScheduleEvent, UnscheduleEvent, Advance, Idle, save, load | events from other cores and from host threads that read a running clock | `CoreTiming` |
| Address arbiter (`address_arbiter.cpp`) | waiting threads by address | ArbitrateAddress, timeout callback | a partitioned list; a thread that dies in it; an arbiter that is destroyed while callbacks refer to it | `AddressArbiter` |
| Sessions, ports (`server_session.cpp`, `client_port.cpp`, `svc.cpp`, ...) | pending and current requests, connections | connect, accept, send, ReplyAndReceive, close | an end closes or a thread ends while another waits | `KernelIPC` |
| HLE requests (`hle_ipc.h`), save and load requests (`core.cpp`) | paused threads, host futures, count of pending operations, signal | SleepClientThread, RunAsync, save, load | host thread against emulation thread; a time limit | `AsyncRequests` |
| Handle table, resource limits (`handle_table.cpp`, `resource_limit.cpp`) | slots, generations, free list, counters | Create, Duplicate, Close, Clear, Reserve, Release | the counter wraps; a creation fails after Reserve | `HandleTable` |
| Kernel memory (`vm_manager.cpp`, `memory.cpp`, `process.cpp`) | areas, free frames, holdings of each process | HeapAllocate, HeapFree, LinearAllocate, LinearFree, Map, Unmap, Protect, exit | areas split and merge under a loop; frames seen at two addresses | `VMManager`, `ProcessMemory`, `AddressSpace` |
| Save state files (`core/savestate.cpp`) | path, temporary file, backup | SaveState | failures and crashes between renames | `SaveStateFile` |
| Game database (`GBAStation/game_db.cpp`) | the file, a temporary file | save, remove and synchronise records, lookup | the same, failures at the close of a file, and a file that cannot be parsed | `GameDatabase` |
| Queues (`common/threadsafe_queue.h`, `bounded_threadsafe_queue.h`, `ring_buffer.h`), logging (`logging/backend.cpp`), pools (`thread_worker.h`) | pointers, indices, counters | push, pop, wait, stop | every interleaving of accesses; lost wakeups; wrapping indices | `ThreadsafeQueue`, `BoundedQueue`, `RingBuffer`, `Logger`, `ThreadWorker`, `Fifo` |
| Rooms (`network/room.cpp`, `room_member.cpp`) | members, bans; state of each client, packets to send | join, leave, chat, wifi, games, kick, ban, close | lost connections; two threads that write one state | `Room` |
| Vulkan scheduler (`video_core/renderer_vulkan/vk_scheduler.cpp`, `vk_master_semaphore.cpp`, `vk_resource_pool.cpp`) | chunks, ticks, fences, command buffers | Record, Flush, Finish, Wait, WaitWorker | four actors; resources used again too early | `VulkanScheduler` |
| Presentation (`vk_present_window.cpp`, `renderer_vulkan.cpp`) | frames, free and present queue, four locks | GetRenderFrame, RecreateFrame, Present, WaitPresent | resizes; lost swapchains; the end of the renderer | `PresentWindow` |
| Services, CPU, emulated memory, most of video and audio, loaders, frontends | - | - | not modelled, see section 8 | - |

The parts meet in the kernel: an SVC runs with the HLE lock held, changes wait
objects and threads, schedules events with core timing and asks the run loop to
reschedule; timing events call back into the kernel from `Timer::Advance`;
services signal events and put threads to sleep; host threads come in through the
thread-safe queue of a timer. `KernelSync` is the composition of threads, wait
objects, mutexes, timers, SVCs and the run loop. The other kernel modules take
from it what they need (a thread that sleeps, a wakeup that may come at any
time) so that they can be checked in depth. The queues are composed by
refinement: `Logger` uses `Fifo`, which `BoundedQueue` is shown to implement.

The list `hazards` in `PROJECT.json` gives the lines where each part can go
wrong and the property that would catch it.

## 2. Plan

Done: the modules of the table above, the abstract specifications
`PriorityScheduler`, `Fifo` and `AddressSpace` with the refinements to them, and
the theorems of section 6.

Left, in order: proofs of `CommandsInOrder` of `VulkanScheduler` and
`FramesInOnePlace` of `PresentWindow`; that no sample of `RingBuffer` is lost; what `TerminateProcess` promises about the thread that runs next (hazard at
`thread.cpp:271`); shared memory blocks.

## 3. The modules and the code

Definitions marked "Faulty" are not part of a specification: each is a plausible
mistake in the definition that follows it, and the mutants in `PROJECT.json` use
them to show that every checked property can fail. Where the code asserts, the
model either has a guard and an invariant that reports the failing state, or a
state in which the program has ended.

The modules `MC...` are for TLC. `MCKernelSync` extends `KernelSync` and gives
the constants values. Each of the others puts several instances of the
component modules, its *parts*, side by side: the variable `part` is chosen in
the initial state and never changes, the chosen part takes the steps of its
component module, and the variables of the others stay as they were. A behaviour
of the run is therefore a behaviour of one component with one set of constants,
and one run asks the questions of several instances. The MC module states each
property for the parts in which it is asked, and then the properties that the
run lists, each the conjunction of what belongs together (of a temporal one TLC
names the conjunct that fails).

`ListOps` has the one operator on lists that `KernelIPC` and `CoreTiming` share.
Components with theorems are extended by their MC module rather than only
instantiated, so that the run and the theorem are about the same definition:
`HandleTable` and `SaveStateFile` by `MCResources` (the names of the first begin
with `Table` to keep them apart), `Room` by `MCRoom`, `AsyncRequests` by
`MCTiming`, `ReadyQueue` by `MCScheduler`. Their constants have values in the
`.cfg`; the other parts are instances with some of these constants replaced.

### KernelSync

**State.** Variables keep the names of the fields. `listed` is membership in
`thread_list` and `wakeup_callback_table`; `thread_events` and `timer_events`
count the scheduled wakeup and timer events; `interval_delay` says whether the
interval is not zero; `result` is r0 in the saved context of a thread and
`cpu_r0` is r0 of a core, because `SwitchContext` copies one to the other and a
wakeup writes the former. `OneShot` and `Pulse` are the objects of those reset
types, all others are sticky. A thread is `"Unborn"` until `CreateThread`.

**Handlers.** `SVC::CallSVC` holds the HLE lock and timing callbacks run on the
emulation thread, so a handler is never interrupted. A handler makes calls that
loop and nest (`Stop` wakes joiners, which acquire mutexes, which boosts their
owners). The calls still to be made are the sequence `todo`; `RunFrame` executes
the first of them, and nothing but `RunFrame` is enabled while `todo` is not
empty. Invariants that the code only restores at the end of a handler are stated
for `todo = <<>>`.

**Run loop.** `StartIteration` chooses which cores lag behind: they advance
first, and then either one of them executes alone or all cores advance and
execute in order. `AdvanceDone` ends `Timer::Advance` of a core with its
`Reschedule`; `StartSlice` and `EndSlice` delimit the execution of a core;
`RescheduleAll` is `System::Reschedule`. While a core executes, its current
thread may call any SVC; `PrepareReschedule` ends the slice.

**Time** is abstract: a scheduled event may fire at any Advance of its core (a
timer event at any Advance), or much later. This allows every order of events
that some choice of delays produces.

**Assertions** of the code are guards. Where one would fail the model stops, and
`KernelAsserts` reports the state.

**Abstractions.** SVCs that only return an error change nothing and have no
action. The index that `WaitSynchronizationN` returns, names, TLS slots and
resource limits are left out. The callback of a woken thread is applied when the
thread is chosen rather than after its objects are acquired, which nothing in
between reads. `CreateThread` of a thread that names its own process stands for
starting a process. `ExitProcess` is `TerminateProcess` of one's own process.
`ServiceSignal` stands for any HLE service that signals an event from a timing
callback; `hle_notifier` is not modelled. Objects exist from the start.

### ReadyQueue and PriorityScheduler

`ReadyQueue` keeps `first` and the `next_nonempty` links of `ThreadQueueList`,
whose priorities are linked when they are first used and never unlinked. The
walk of `PopNextReadyThread` is one loop turn per step; what it popped and may
not schedule is put back at the end. `PriorityScheduler` has queues only and a
reschedule in one step. The refinement maps a state inside the walk to the queues
as they were when it started, which the walk remembers in `before`; no step reads
this history. The walk is then invisible, and `SwitchContext` is the step of
`PriorityScheduler`: it must find the threads that were skipped in their places.

### CoreTiming

A slice is `max_slice_length` or the time to the first event. The guest executes
until the slice ends or is cut short, and may overshoot. An event for another
core, or from a host thread, goes to the thread-safe queue. Times are taken
relative to the slowest clock at the top of the loop, which makes the state space
finite without a bound on time. A slice that catches up may be longer than
`MaxSlice`, by the `min_delay` that cores may differ, so an event of another core is
late by `Reach + MinDelay` at most (`CrossEventsOneSliceLate`). A host thread reads the fields of a timer one by
one while the emulation thread writes them.

### CpuLimiter

Two limiters, of which the schedule mode selects one. A change of mode or limit
from core 0 puts the tick into the thread-safe queue of core 1, where
`UnscheduleEvent` does not find it. Which thread is best, and when events fire,
is left open.

### KernelIPC, AddressArbiter, SemaphoreCount

`KernelIPC`: `ReplyAndReceive` is one action per outcome (reply, then receive at
once, sleep, or fail because a session was closed). A server end is destroyed
when no handle, no port list and no wait refers to it, and its destructor runs in
that step. `Nothing` stands for null pointers.

`AddressArbiter` keeps the list in the order that `std::stable_partition` and the
removal leave, and words of memory in two's complement of a small width. `parent`
is the arbiter a thread waits on, to which the callback of its timeout holds a
bare reference. `Close` destroys the arbiter and leaves `parent` as it is, as the
code does; a timeout that fires then may do anything: it may find the memory as
it was and resume the thread, or `program` becomes "undefined". A signal that
meets a listed thread that does not wait makes `program` "asserted"
(`SignalAsserts`). In both cases nothing happens afterwards.

`SemaphoreCount` keeps the width of the counts, which `KernelSync` takes as
numbers: a release adds in integers that wrap around, and since the sum in its
check overflows a signed integer, the check may see it wrapped or as it is.
`well_used` remembers whether every count a guest passed was sensible so far.

### HandleTable

The free list is threaded through the generations of free slots, as in the code;
the widths are parameters, so that generations wrap after a few handles.
Resource counts go up at `Reserve`, before the object exists, and down in
destructors.

### AsyncRequests

The handler, the host thread, the thread-safe queue and the callback of the
wakeup are separate steps; a save copies what the archives hold, a load replaces
it. `FiveSecondsPass` is the end of the time a request may wait.

### AddressSpace, VMManager, ProcessMemory

`VMManager` holds operators on a set of areas: find, split, carve, merge, and the
loops of `ChangeMemoryState`, `UnmapRange` and `ReprotectRange`. `ProcessMemory`
has an action per call. A failed call that changes nothing is not a step; one
that fails half way is. `Careful` restricts the program, not the emulator: it
frees only what it was given, unmaps only pairs it mapped, and maps nothing into
the linear heap; section 7 says what happens without it. New memory is readable
and writable in the part "pages": `Reprotect` follows the merge of a new area
with its neighbours, and with other permissions it changes them as well.
`AddressSpace` has pages instead of areas and does not say which free frame is
given.

### SaveStateFile, GameDatabase

Every operation on a file is a step that may fail; the program may end between
any two. Files are absent, partial or a state. Whether rename replaces an
existing file is chosen once, by a constant of `SaveStateFile` and by the first
state of `GameDatabase` (`replaces`), because file systems differ and the code
handles both. `step` of `GameDatabase` is where a change stands in
`WriteDatabase`; `known` and `removed` remember what was reported to be saved and
removed.

A file of `GameDatabase` is absent, unparsable or holds a set of records, and
`data`, what the change in progress writes, is a content of the same kind.
`LoadWritableDatabase` leaves a discarded value in `data` when the file cannot be
parsed, and nothing makes an array of it: `SaveRecord` and `RemoveRecord` need an
array, otherwise push_back and erase throw, nobody catches it and the program
ends (`ChangeThrows`), while `SyncDisplaySettings` finds no records to change and
writes the discarded value back. A file that is there and cannot be opened for
reading counts as none (`misreads`), and the change writes an array without the
old records. `RemoveRecord` reports success without writing when there is no
such record. The fallback of a refused rename has a step that truncates
(`TruncateDatabase`) and one that copies, reports and removes the temporary file
(`Copy`). `cut` remembers that a write was lost as a file was closed, or that the
copy failed or the program ended in it.

### Queues, logging, pools

One step is one access to shared memory in `ThreadsafeQueue` and `BoundedQueue`;
accesses take effect in the order of the program, which the acquire and release
pairs of the code provide for what the other side reads. Indices are numbers
modulo a small `Width`, so that they wrap. In `RingBuffer` a copy is two steps
where the range wraps. `ThreadWorker` has the burst of `RecentFirst` as a
constant (8 in the code, 1 in the runs).

### Room

The thread of the room handles an event per step; each client has a receiving
thread and a user who may act between any two of its steps. ENet is external: a
connection delivers in order; when it ends, the other side gets a first part of
what was under way and then the event. Whether the loop of a client goes on is
decided when it looks at the state, as in the code.

### VulkanScheduler, PresentWindow

`VulkanScheduler` has the render thread, the worker, the thread that waits for
fences, and the device. The call the render thread is in is the sequence `todo`
of its steps. A command that does not fit dispatches the chunk first.
`CommitResource` reads the tick of the device in one step and searches in a
later one; the second read has no effect in the code, whose `search` has a copy
of the first value, and none in the model. `PresentWindow` takes from it that
commands are executed in order once they were dispatched, and adds the free and
the present queue of each window, the exchange of `queue_mutex` for
`swapchain_mutex`, swapchains that are made again, `submit_mutex` and two ways of
waiting for an idle device. A condition variable is the set of the threads
asleep in it; `notify_one` wakes any one of them.

## 4. Runs

States are distinct states, times are with two workers. No symmetry is used:
threads differ in priority, core and role, and most runs check liveness. A
bound is a constant of its own, named in the module with "bound". Runs other than
those of `KernelSync` do not check deadlock: their parts end when the calls,
failures and messages that the bounds allow have been made.

| Run | Properties | What it shows | States, time |
|---|---|---|---|
| `sync_mutex` | `TypeOK`, `MutexOwnership`, `PriorityInherited`, `QueuesServeBest`, `ResultStable`, `MutexGoesToBestWaiter` | Three threads of different priority on one core lock and wait for two mutexes, time out and change priorities: ownership, inheritance, ready queues and the choice of the next owner stay right. | 420 000, 20 s |
| `sync_cores` | `CoresServed`, `TimeoutsSound` | Two cores, a mutex, an event, a semaphore and a periodic pulse timer, with cores that lag behind: signals, timeouts and timers of different cores in any order. | 990 000, 35 s |
| `sync_terminate` | `KernelAsserts`, `TerminationClean`, `DeadIsFinal` | Threads of two processes that wait for all, join, exit and are terminated at any moment: mutexes pass on, wait lists stay in step, no dead thread comes back. | 1 500 000, 75 s |
| `sync_live` | `HandlersEnd`, `BestThreadGetsCore` | Under a run loop that keeps running, handlers return, timed waits end and the best ready thread gets its core. | 36 000, 20 s |
| `lost_result` | `ResultStable` | A signal from another core in the iteration in which a thread blocks: the thread is woken and its result is overwritten by the timeout. | violated at once |
| `scheduler` | `QueuesIntact`, `ImplementsPriorityScheduler`, `ThreadsGoOn` | The ready queues keep every thread reachable in its place through boosts, skips, saves and loads and implement a scheduler by priority; every reschedule ends; the CPU limiter has one tick, wakes what it put to sleep and ends no other sleep. | 260 000, 2 min |
| `timing` | `EventsOnTime`, `RequestsEndOnce`, `SavesStandAlone`, `TimingGoesOn` | Events fire on time, at most one slice late across cores and never early for host threads; asynchronous requests end once and are counted while they last; no save or load catches one half way; clocks stay together and go on, and every request, save and load ends. | 190 000, 1 min |
| `messages` | `SessionsSound`, `SemaphoreSound`, `RequestsAnswered`, `ArbiterSound` | Requests through sessions reach the thread that waits for them and semaphores keep their counts, whatever is closed or terminated; arbiters wake the best thread, and their lists and the assertion hold until a thread is terminated or an arbiter with waiting threads is closed. | 250 000, 2 min |
| `resources` | `FreeListLinked`, `HandlesSound`, `PathComplete`, `StatesKept`, `MemorySound`, `DatabaseSound`, `RefinesAddressSpace` | Handles are unique while generations last and the free list is intact; saved states survive failures and crashes, and the database keeps its records or cannot be parsed after a copy that was cut short; memory calls change only their own pages and the accounting agrees. | 110 000, 2 min |
| `threads` | `QueuesDeliver`, `PoolsSound`, `LogSound`, `MembershipSettles` | The queues between host threads are first in, first out under every interleaving and miss no wakeup; pools do all work and the log is flushed in order; clients and rooms come to agree on who is in. | 49 000, 2 min |
| `video` | `CommandsSound`, `FramesSound`, `RendererGoesOn` | Commands reach the device in order and no command buffer, fence or frame is used twice at a time; frames are shown in order; no thread of the renderer waits for ever. | 140 000, 1 min |
| `room` | `MembersSound`, `ViewsSound` | Members are distinct and connected through joins, refusals, lost connections and reused places; clients are told of the members before they are in and know what the room knows; bans hold. | 1 800 000, 3 min |

What each property says is written above it in the MC module or the component
module; the properties of `KernelSync` are all in that module.

### KernelSync

| Run | Instance |
|---|---|
| `sync_mutex` | 1 core, 3 threads of priorities 0, 1, 2, 2 mutexes, SetThreadPriority to 1 |
| `sync_cores` | 2 cores with 1 thread each, mutex, one-shot event, semaphore, pulse timer, waits for one and for lists |
| `sync_terminate` | 1 core, 3 threads, 2 processes, 1 mutex, 1 one-shot event, waits for one, any or all, joins, sleeping |
| `sync_live` | 1 core, 2 threads, mutex locked up to twice, sticky event |
| `lost_result` | 2 cores with 1 thread each, sticky event; violated, see section 7 |

`MaxLock` bounds `lock_count`, which is otherwise unbounded; two is enough to
tell recursion from a first lock. The finitely many threads are created at most
once. Three threads are needed for one owner and two competing waiters, and for
a chain of two mutexes; two cores for every order of block, signal, timeout and
reschedule between cores; three priorities for a boost that jumps over a thread.
`ResultStable` is not part of `sync_cores` and `BestThreadRuns` not of
`sync_terminate`: the code does not promise them there (section 7 and the hazard
at `thread.cpp:271`).

### The parts of the other runs

| Run | Parts | Bounds and why |
|---|---|---|
| `scheduler` | `ReadyQueue`: three threads and two priorities ("queues"), two threads and four priorities ("lists"), save states ("saved"); `CpuLimiter`: the limit set once ("once"), twice ("twice") | Four priorities give lists with linked, unlinked and empty priorities on both sides of a thread. "once" has a thread of each side and one that is never limited; what fails when the limit is set twice is not asked of "twice" (section 7). |
| `timing` | `CoreTiming`: two cores ("cores", "overshoot"), save states ("saved"), a host thread ("host"); `AsyncRequests`: with save states ("async"), a terminated thread ("stopped"), deterministic ("sync") | Slices of 2 or 3, delays 0 to 2 and an overshoot of 1 let an event fall before, at and behind the end of a slice. Two guest threads, two requests each and two signals let a save meet a finished, a running and a queued operation. |
| `messages` | `KernelIPC`: nothing closes ("requests"), ends close ("closing"), threads are terminated too ("stopping"), two servers that serve what they receive ("servers"); `AddressArbiter`: "order", "timeouts"; `SemaphoreCount`: "counts" | Two clients, two sessions and a port with one place reach the refusal of a connection and its reuse. Three threads, two addresses and two priorities let a signal partition a list in which others stay behind. "timeouts" has closes and terminations; there the assertion may fail once a thread was terminated and a callback go astray once an arbiter was closed (section 7), and `ArbiterRuns` asks that neither happens before. Counts have four bits (`Half = 8`) and a guest passes any of them, so sums overflow. |
| `resources` | `HandleTable` ("handles"); `SaveStateFile`: "saves", "replacing"; `ProcessMemory`: one process with every call ("pages"), a larger heap ("areas"), two processes ("shared"); `GameDatabase`: rename replaces a file and operations fail ("renamed"), rename refuses and nothing fails ("copied") or everything may, with a misread and a write lost at the close ("faults") | Five generations and seven creations wrap the counter, four slot values for three slots leave one that is dropped, and one creation is refused. Four saves, four failures and two crashes go beyond what `StatesKept` promises (section 6). Three heap pages and two frames (four and three in "areas") are the least for which an allocation takes two blocks and an area is split on both sides. Two records and five changes let one record be saved, removed and saved again while the other stays. Three failures of the database let an operation and its fallback fail and the next change meet what was left; with the misread of "faults" the records are not asked for any more, the file still is (`StaysParsable`). |
| `threads` | `ThreadsafeQueue`, `BoundedQueue`, `RingBuffer`, `ThreadWorker` ("pool", "burst"), `Logger`, and `Room` with its host alone ("room") | Capacities of 2 with indices modulo 4 (audio: 4 and 8) make full, empty and wrapped states frequent; two producers push twice each. |
| `video` | `VulkanScheduler`; `PresentWindow` with one window that is destroyed ("window") and with two ("windows") | With one command buffer, one fence and chunks of two commands both pools grow and are used again within three commands. Two images and three frames use an image again. |
| `room` | `Room` with two clients: requests of all kinds and a lost connection ("names"), talk, games and moderation ("talk"), a ban and joins after it ("bans") | All of it at once is too large. `Backlog` bounds what a client has still to receive when the room takes an event. |

Three parts are refinements: `ReadyQueue` of `PriorityScheduler`
(`ImplementsPriorityScheduler`), the two queues of `Fifo` (`QueuesDeliver`), and
`ProcessMemory` of `AddressSpace` (`RefinesAddressSpace`).

## 5. Fairness

**KernelSync.** `FairSpec` assumes what the emulation thread does: it keeps calling `RunLoop`
(weak fairness of every step of the loop and of `RunFrame`), a slice ends
(strong fairness of `EndSlice`: `downcount` runs out whatever the program does),
and time passes, so an event that is scheduled again and again while its core
advances fires (strong fairness of the wakeup and timer callbacks). Nothing is
assumed of the emulated program. Under it handlers return (`HandlersReturn`),
timed waits end (`TimedWaitEnds`) and the best ready thread of a core gets it
(`BestThreadGetsCore`). A thread that is not the best may starve, as on the
console.

**Elsewhere.** The fairness is written in the MC modules, for each part in which
something must happen in the end; the other parts have none. A thread goes on
with the call it is in, weakly fair, because host threads are scheduled
preemptively; nothing makes a thread begin a call. The walk of `ReadyQueue` is
inside one call. `CoreTiming` assumes that the frontend calls `RunLoop` again and
again, that callbacks return and that a slice ends. `CpuLimiter` needs strong
fairness of `MoveEvents` and `OnTick`, which happen in `Advance` and so are
disabled again and again inside `PopNextReadyThread`. `ThreadWorker` has strong
fairness of workers and callers, because `queue_mutex` may be taken and given
back by others between any two attempts. `AddressArbiter` assumes that due
wakeups fire, `KernelIPC` that a server that runs goes on serving,
`AsyncRequests` that host threads finish and time passes, `Room` that the threads
run and what has arrived is returned by a service call, `VulkanScheduler` and
`PresentWindow` that the device finishes what was submitted.

## 6. Proofs

**KernelSync.** Every invariant and every action property that the runs check of
`KernelSync` is proved, for every value of the constants that satisfies the named
assumptions of the module (objects of different kinds are different, mutexes are
finitely many, priorities are legal, the main thread's process is itself), that
is, for any number of threads, cores, priorities and objects and any set of
SVCs. The second proof module extends the first; `ListProofs` has the facts
about least elements, sequences and lists without repetition they share with
`ReadyQueueProofs`, `ResourceProofs` and `TimingProofs`:

| Module | Theorem | States | Condition |
|---|---|---|---|
| `KernelSyncProofs` | `TypeCorrect` | `[]TypeOK` | |
| | `MutexesOwned`, `PrioritiesInherited` | `[]MutexOwnership`, `[]PriorityInherited` | |
| | `QueuesConsistent`, `TimeoutsAlwaysSound` | `[]ReadyQueueConsistent`, `[]TimeoutsSound` | |
| | `BestThreadsServed` | `[]QueuesServeBest` | no `TerminateProcess` |
| `KernelWaitProofs` | `WaitListsAlwaysAgree`, `NoWakeupLost` | `[]WaitListsAgree`, `[]NoLostWakeup` | |
| | `CoresAlwaysServed` | `[]CoresServed` | no `TerminateProcess` |
| | `DeadStayDead`, `TerminationAlwaysClean` | `DeadIsFinal`, `[]TerminationClean` | `StopsOwnCore` |
| | `AssertsAlwaysHold` | `[]KernelAsserts` | `StopsOwnCore`, `SoundArguments` |
| | `BestWaiterGetsMutex` | `MutexGoesToBestWaiter` | |
| | `ResultsKept` | `ResultStable` | one core |

The conditions are those under which the code keeps the promise:

* No `TerminateProcess`: stopping a waiting thread of another process lowers the
  priority that a running thread inherited from it, and `RemoveWaitingThread` asks
  for no reschedule (the hazard at `thread.cpp:271`). `sync_terminate` does not
  check `BestThreadRuns` for the same reason.
* `StopsOwnCore`, one core or no `TerminateProcess`: otherwise a core may execute
  a thread that another core has stopped (section 7, `thread.cpp:400`).
* `SoundArguments`, no list of `WaitSynchronizationN` names an object twice
  (section 7, `wait_object.cpp:86`) and no thread waits for itself: a thread that
  does, and is then terminated, is dead in its own list when `Stop` wakes who
  waits for it, and `GetHighestPriorityReadyThread` asserts that the threads of a
  list wait. TLC shows an assert that fails for each of the two.
* One core: the run `lost_result` is the counterexample with two.

The properties speak of states between handlers, or of the next call, and are
not inductive. The invariants that are describe the calls still to be made:

* `TypeOK` is inductive. The work is in the calls: each frame has the arguments
  its callee needs, `Min` of a set of priorities is a priority, `RemoveFirst` and
  `Tail` keep sequences typed.
* `OwnershipInv`: a mutex is unlocked exactly when it has no holder, the holder
  lists it, and a thread that lists a mutex it does not hold still has its
  `ReleaseMutexes` frame in `todo`. The last part is needed because
  `ReleaseThreadMutexes` hands mutexes on one by one and clears the list at the
  end, while the new owner already lists them. `InheritanceInv` adds that a
  thread with such a frame is no longer in `thread_list`; then, whenever the
  priority of a mutex changes, the holder is the only living thread that lists
  it, and the holder is recomputed in the same step.
* `SchedulerInv`: `CallsShaped` says how calls nest (`Below`: what may be under
  what in `todo`), that `ReleaseThreadMutexes` is due for stopped threads only and
  that a thread is taken off a list only while it is woken or stopped;
  `QueuesMatch` is consistency of the ready queues in every state; `CurrentsRun`
  says that a core that may execute before it is rescheduled has a current thread
  that runs or was stopped; `NoStaleTimeout`. The nesting is what keeps a thread
  from being resumed twice by two calls of one handler. `ServedInv`: a ready
  thread better than the current one of its core means that a reschedule is
  pending, under way, or asked for by a wakeup that is about to be made, or the
  core is still to advance its timer before it executes again.
* `WaitInv`: lists are without repetition, `pending_mutexes` follows the lists of
  mutexes, and a thread is in exactly the lists of its `wait_objects`, except that
  it is still to be added, or, once it is woken or stopped, still to be removed.
  `LostInv`: what a thread waits for is unavailable *or being signalled*; the proof
  is that every step which makes an object available has its
  `WakeupAllWaitingThreads` among the calls it leaves (`WakesWaiters`), and that
  this call ends only when nobody in the list can go on (`WakeEnds`).
* `StopInv`: a current thread is stopped only after its core was told to give it
  up, nothing is acquired for a dead thread, and what a dead thread holds is being
  released.
* `AssertInv`: what is about to be acquired is available and is acquired once; an
  object that is signalled while a dead thread is still in lists is that thread,
  which is in no list of its own; only a waiting thread has a wakeup callback; who
  is about to be resumed sleeps or is ready. Here the arguments matter: with the
  same event twice in a list the first Acquire makes the second fail.
* `ChosenBest`: a woken thread is at least as urgent as every thread that could
  take any object it is about to acquire. It holds when the thread is chosen
  because by `LostInv` whoever could take another object of its list waits for the
  signalled one too; and it lasts because acquiring makes nothing available and
  boosts nobody but the new owner.
* `CurrentsSettled`, for one core: a current thread that blocked is given up before
  anything else happens, so it is not yet ready when `SwitchContext` saves the
  registers of the core over its context.

**The other components.** Each theorem is about the specification of the
component, under the assumption its module names, and has no other condition, but
for three about `KernelIPC` and one about `CoreTiming` (below):

| Module | Theorem | States | For any number of |
|---|---|---|---|
| `ResourceProofs` | `HandleTableSafe`, `HandlesAlwaysSound` | `[]FreeListLinked`, `[]HandlesSound` | slots, generations, objects, creations, refusals |
| | `PathAlwaysComplete`, `StateOutlivesFaults` | `[]PathComplete`, `[]StatesKept` | saves, failures, crashes |
| | `DatabaseAlwaysSound` | `[]DatabaseSound` | records, changes, misreads, failures, ends of the program |
| | `SemaphoreAlwaysSound` | `[]SemaphoreSound` | threads, counts, bits of an integer |
| | `ConnectionsAlwaysCounted` | `[](WaitListsAgree /\ NoWaitOnClosed /\ ConnectionsCounted)` | clients, servers, sessions, closes, terminations |
| | `RepliesFindSleepers` | `[]RequestsApart`, and `[]RequestersWait` while no client is dead | the same |
| | `SleepersAlwaysListed` | `[]NoOrphans` while `EndsOpen` | the same |
| | `NoRequestLostByOneServer` | `[]NoLostRequest`, with one server | clients, sessions, closes, terminations |
| | `NoRequestLostByDisciplined` | `[]NoLostRequest` while `NoneClosed`, with servers that are `Disciplined` and two clients at most | servers, sessions, closed server ends, terminations |
| `RoomProofs` | `MembersAlwaysSound`, `ViewsAlwaysSound` | `[]MembersSound`, `[]ViewsSound` | clients, places, names, packets, losses |
| `TimingProofs` | `RequestsAlwaysEndOnce`, `SavesAlwaysStandAlone` | `[]RequestsEndOnce`, `SavesStandAlone` | threads, requests, saves, terminations |
| | `OwnEventsAlwaysOnTime` | `[](OwnEventsOnTime /\ SlicesNotEmpty)` of `CoreTiming` | cores, events, delays, slice lengths, overshoots, saves |
| | `ClocksAlwaysClose` | `[](SyncedWhenSliced /\ SkewBounded /\ CrossEventsOneSliceLate)`, without saves | cores, events, delays, slice lengths, overshoots |
| `ReadyQueueProofs` | `QueuesAlwaysIntact` | `[]QueuesIntact` | threads, priorities, unschedule modes |
| | `SchedulerIsImplemented` | `ImplementsPriorityScheduler` | the same |
| `HostQueueProofs` | `SlotsAlwaysApart`, `RingIsFifo` | `[](TypeOK /\ SlotsApart)`, `RefinesFifo` of `BoundedQueue` | producers, capacity, width, pushes, ways of waiting |

**HandleTable.** `FreeListLinked` says that the free list, a sequence without
repetition, holds exactly the slots without an object, starts at
`next_free_slot`, and that the generation of each is the next one; with the types
it is inductive (`TableInv`). `HandlesSound` needs what the handles that were
returned say of the table: each is made of a slot and a generation other than 0
(`IssuedMade`); two that are less than a round of the counter apart differ by
their distance, or by that less a round (`Spaced`); and the generation of a slot
in use is that of the last handle returned for it (`InUseAsIssued`). So a handle
that names a slot in use with the same generation is either that last one or at
least a round older. `CountInv` adds that the limit counts each referenced
object once, and each refused creation; the proof is that the set of referenced
objects changes by at most one object in each step.

**SaveStateFile.** `PathComplete` alone is not inductive, because a rename may
bring a partial file to the path: `OnlyTempPartial` says that only the temporary
file may be partial, and that it is complete from the end of the write on until
it is renamed. `StatesKept` needs `KeptInv`, which says for each step of
`SaveState` where the state that was saved last is, and what must have failed for
it to be elsewhere. The bounds in `StatesKept` are those of the code: with four
failures the backup may be the only state without a message that says so, and
with two crashes, or a crash and a failure, it may be deleted while it is the
only one. `KeptInv` has exactly these conditions.

**GameDatabase.** `DatabaseSound` speaks of the file; `DatabaseInv` follows what a
change has in memory and in its temporary file. A temporary file that was left
behind may still hold a record that was removed, but opening truncates it, so from
the end of the write on it holds the database in memory or cannot be parsed
(`FilesAgree`); and unless something was cut short, it holds the database in memory
and that is an array, which is why the file that takes its name can be parsed
(`StaysParsable`). The database in memory was read from the file, so, as long as no
database was misread, it has all known records and none that was removed
(`RecordsAgree`). Each way a change goes on is one lemma: it goes on with another
step (`ContinueKeeps`), is given up with the file as it was or cut short
(`GivenUp`), or reports success with its own data in the file, or with one that
cannot be parsed (`ChangeReturns`). The only steps between which the file is
unparsable without anything being cut short are `TruncateDatabase` and `Copy`.

**SemaphoreCount.** The invariant is the property, with the types and the
finiteness of the set of waiting threads. What there is to show is the
arithmetic: an integer of the width is its own remainder, so a sum that does not
overflow is not changed by wrapping and both forms of the check are the same
(`WrappedFacts`); and either a release serves all waiting threads or as many as
there are slots, hence a thread that still waits leaves no free one
(`WokenFacts`).

**KernelIPC.** The parts of `SessionsSound`, for any number of everything.
`EndsInv` has the types, the agreement of wait lists and `wait_objects`,
`NoWaitOnClosed` and the count of the connections, and two facts they rest on:
clients never wait on objects (`ClientsListNothing`), and a session that was not
created has no ends (`FreshHasNoEnds`), so that no end that was lost comes back
(`EndsGoOn`). Each operation is described by what it does to the wait lists
(`CutOff`: the woken or stopped threads leave every wait) and to the requests
(`Released`: they are dropped where the server end was destroyed). What is left
to the other theorems is that a step is quiet, sends one request, or replies and
takes at most one (`Quiet`, `SendDone`, `ReplyDone`).

Three theorems have a condition that the code makes necessary, each because of
a disagreement of section 7. A listed thread may be dead, since `Thread::Stop`
leaves requests where they are (`thread.cpp:490`), so `RequestersWait` needs that
no client was terminated; `RequestsApart`, that a thread is listed at one place,
does not. A sleeping client may be listed nowhere once an end is closed or lost
(`server_session.cpp:45`, `client_session.cpp:36`), hence `EndsOpen`. And of
several servers, one may sleep on a session with a request that nobody handles
(`svc.cpp:1005`). `LostByReply` shows that this can only come from a reply: every
other step takes the threads that wait for what it makes ready out of the wait
list. With one server nobody else waits. With disciplined servers, the one that
replied waits on the same session, so it takes a request (`DisciplinedTakes`; the
port, where it would take none, is last in its list). When that request is of
another session, three clients are involved: the one that was answered, one in
the session that is left, and one in the other (`DisciplinedReply`). With two
clients that cannot be; with three TLC finds it.

**Room.** A member must be the client of its connection, but a place of the host
is given to another client as soon as it is free. `PlacesLinked` says what is
still under way on a place: nothing on a free one, only the event "Disconnect" on
one that is given up, and no such event on one with a live connection; so a place
is free only when its member was removed (`MembersKnown`). `AddressesBanned` is
what makes a ban hold: all addresses of a banned client are in the list.

What a client knows (`ViewsSound`) depends on what is still under way to it, so
`ViewsInv` speaks of the whole queue, with `RoomInv` to say whose connection is
whose. A packet that says the client is in comes right behind one that names
members (`ToldFirst`); while the client is joining, what only members hear comes
behind an answer (`HeardLate`), and a member has its answer on the way; a client
with a live connection that believes it is in, or is about to be told so, is a
member; and to a member the last information under way, or else what it knows,
is what the room knows (`Latest`). The thread of a client that has ended left
nothing under way, so an earlier connection cannot speak into the next
(`ThreadsEnded`). The proof follows the packets: each operation of the room is
what `QuietKeeps`, `InformationKeeps`, `AdmittedKnows` or `CutKeeps` says for one
client, and `TakingKeeps` moves the first packet into what the client knows.

**AsyncRequests.** `OneWakeup`: a thread has at most one wakeup, which a host
thread, the thread-safe queue or the timer has. `Settled` says for each status
how many requests lack a reply and who has the wakeup, and `SavedSound` says the
same of the saved state, in which no host thread has one. The count of pending
operations is the number of threads whose callback is that of `RunAsync`
(`Counted`), *including* those that were terminated; this is why it stays exact
in the invariant although it no longer counts operations after a termination
(section 7, `hle_ipc.h:274`). A load happens only when the count is zero, hence
no callback of a host thread is left and nothing is under way.

**CoreTiming.** `TimerInv` follows the loop of `RunLoop`: which timer is current in
each part of it (`LoopInPhase`), which timers are sane (`TimersSane`), and which
cores have advanced since they last ran (`AllAdvanced`): such a core has no slice
and no event that is due (`Rested`), which is why the next slice is not empty
(`SlicesInv`). What keeps an event from being passed over is `QueueAhead`: outside
`Advance` a slice ends no later than the first event that the core scheduled for
itself, so the clock passes it by the overshoot at most. It holds with save
states, because what a load loses, `is_timer_sane`, only makes a clock look
older, and times are taken from the clock; for events of others it needs
`~SaveStates`.

How far apart cores get is a second invariant, `ClockInv`. In a round all cores run
one after the other, each for what the one before it used. A core may use an
overshoot more than it was given, and the next is given that too, so the last of
`n` cores may use `n` overshoots more than the first was given (`UsedEvenly`); after
the round a core is ahead of another by `MinDelay`, a slice, and one overshoot
for each core that is ahead of the one behind (`CloseIn`, by `EvenlyClose`). The
count of cores is what makes this inductive: while the core furthest behind runs
alone, up to the clock of another one, it may overshoot that one and is then
itself among those ahead (`CatchesUp`). The bound needs `MinDelay <= MaxSlice`,
which the constants of `core_timing.h` satisfy. `CrossInv` is what follows for an
event of another core: while it is in the thread-safe queue the executed ticks of
its core have not passed it, because those ticks do not change until `Advance`,
which takes it from there; hence the clock has passed it by what is used of one
slice at most (`OneSliceLate`). None of this holds once a state is loaded (section 7,
`core_timing.h:257`), hence the condition.

**ReadyQueue.** `ReadyInv` has four parts. The links: `first` and each
`next_nonempty` is the least used priority that follows (`Follows`, `Sorted`), and
every priority that has threads, or that a thread has, is linked (`Reachable`).
The queues: each is a sequence without repetition of the ready threads of its
priority, except those that the reschedule has taken out (`Away`). The walk:
what was taken is ready, taken once and remembered with its own priority, and a
walk for a thread better than the current one stays in the list, because the
current priority is linked and the walk ends there. The saved state: it has the
first two parts itself, so that a load restores them (pointers are written as
indices and read back). The loop of `link` finds the greatest linked priority
below the new one (`LinkedBelow`); `LinkSorts` shows that to link behind it keeps
the list sorted, and every operation that queues a thread cites it through
`PrepareLinks`.

**PriorityScheduler.** That a reschedule gives the core to the right thread, and
leaves all others in their places, is shown with a second invariant, `SearchInv`,
about a walk under way. `Searched`: the queues before the one it looks at are
empty, and each queue is what is left of itself at the start when threads that
may not be scheduled were popped from its front (`LeftOf`). So the thread that is
found is the first of the best priority that may run, and where none is found
every queue that was looked at held barred threads only (`FoundBest`). To know
what putting the threads back gives, the proof needs no induction over the
skipped ones: `Trail` says that there are queues `D[0]`, `D[1]`, ... where `D[0]`
is what the walk started from, `D[i - 1]` is `D[i]` with the i-th skipped thread
pushed to the front, and the queues now are the last of them. A pop makes the
trail one longer (`PopPush`), a turn of the loop that puts a thread back makes it
one shorter, and when none is left to put back the queues are `D[0]`. The thread
that was found was popped too, and removing it and pushing others to the front
may change places (`PushRemove`), because a skipped thread is not the one found.
`SwitchContext` then does to `D[0]` what `GiveCoreTo` does (`SwitchFromBefore`).

**BoundedQueue.** `BoundedQueueAssumption` has what the code has: the width of an
index (2^64) is a multiple of the capacity, which is a power of two, and is
greater. `RingInv` says that a producer that is not idle has `write_mutex`
(`Turns`), that a producer past its wait has room and a consumer past its wait a
value, whatever the other side did since (`Places`), and that the slots from the
read index on hold values, as many as the distance of the indices (`Filled`).
The queue that the ring stands for is those slots in order, without the first
while it is being popped. A push is `PublishWrite`, the store of the write
index; `Emplace` before it writes a slot that is none of the queue, which is what
the arithmetic is for: wrapping an index at a multiple of the capacity is not
seen in its slot (`RemainderWraps`), and indices less than the capacity apart
have different slots (`RemaindersApart`, `SlotFacts`). A pop is `Pop`, and
`PublishRead` after it takes from the ring what already left the queue.
`QueuesDeliver` asks the same of the instances that TLC checks, and liveness, and
so has no theorem of its name.

**Only model-checked.** Liveness under fairness, which is out of the prover's
reach: `HandlersEnd` and `BestThreadGetsCore` of `KernelSync` and the temporal
parts of `TimingGoesOn`, `ThreadsGoOn`, `RequestsAnswered`, `ArbiterSound`,
`QueuesDeliver`, `PoolsSound`, `LogSound`, `MembershipSettles` and
`RendererGoesOn`. The refinement of `AddressSpace`, and with it `MemorySound`: the
loops of `VMManager` are folds, and what a fold computes is proved by induction.
The refinement of `Fifo` by `ThreadsafeQueue`.
`SessionsSound` is about the four instances that TLC checks and so has no theorem
of its name; its parts are theorems under conditions that these instances meet.
`EventsOnTime` likewise: its parts are the two theorems about `CoreTiming`, except
`HostEventsNotEarly`, the bound for what a host thread reads torn, which is only
model-checked. `CommandsSound` and `FramesSound` are not proved.

## 7. Disagreements between the code and its own statements

The quoted text is what a comment, an assertion or a message of the repository
says. The first disagreement is the run `lost_result`, whose trace is the
sequence of steps:

* core/hle/kernel/thread.cpp:303, `ResultStable` of `KernelSync`. A thread that blocks in WaitSynchronization1 and is signalled by another core before the end of the same iteration of System::RunLoop gets ResultSuccess written into its context, but it is still the current thread of its core, so SwitchContext saves the registers of the core over the context and the thread resumes with the timeout code although it acquired the object. core/hle/kernel/svc.cpp:822-824 says "The output of this SVC will be set to ResultSuccess if the thread resumes due to a signal in its wait objects. Otherwise we retain the default value of timeout".

The others were met with the same modules while their properties were looked
for. Each is a property of the named module that TLC refutes for the instance in
brackets; the runs of section 4 leave that instance out, or state the property
for parts in which it holds. The property in question is kept in its module.

* core/hle/kernel/mutex.cpp:117, `MutexPriorityIsBestWaiter` of `KernelSync` (the instance of `sync_mutex`). Mutex::UpdatePriority boosts the holding thread but does not update the mutexes that the holding thread itself waits for, so a mutex further down the chain keeps a priority worse than that of its waiting thread. core/hle/kernel/mutex.h:43-46 says "Elevate the mutex priority to the best priority among the priorities of all its waiting threads", and core/hle/kernel/thread.h:321-325 "This prevents priority inversion via priority inheritance".
* core/hle/kernel/thread.cpp:400, `DeadIsFinal` of `KernelSync` (two cores, an event, `Killers = {t1}`). TerminateProcessThreads stops the current thread of another core, but that core still has it as its current thread and executes it later in the same iteration of System::RunLoop; its next wait makes the dead thread WaitSynchAny. core/hle/kernel/thread.h:62 says of Dead "Run to completion, or forcefully terminated", and core/hle/kernel/svc.cpp:2436-2437 asserts that this does not happen: "Running threads from exiting processes is unimplemented".
* core/hle/kernel/wait_object.cpp:86, `KernelAsserts` of `KernelSync` (one core, two threads, a one-shot event, `WaitLists <- TwiceSame`). A thread that waits for all of a list with the same one-shot event twice is woken by one signal, and WakeupAllWaitingThreads acquires every wait object in turn: the second Acquire finds the event reset and fails ASSERT_MSG(!ShouldWait(thread), "object unavailable!") at core/hle/kernel/event.cpp:39. Duplicate handles are expected: core/hle/kernel/wait_object.cpp:43-45 "If a thread passed multiple handles to the same object, the kernel might attempt to remove the thread from the object's waiting threads list multiple times".
* core/core_timing.h:257, `SyncedWhenSliced` of `CoreTiming` (two cores, `MaxSlice = 3`, `SaveStates = TRUE`). Timer::serialize stores slice_length, downcount and executed_ticks but not is_timer_sane, which is true in a freshly constructed timer. After a state is loaded GetTicks therefore leaves out the ticks of the last slice, the run loop does not see that one core is behind, and it runs the cores one after the other with clocks up to a slice apart. core/core.cpp:567 says "Now all cores are at the same global time. So we will run them one after the other" (the same comment in core/core.cpp:479: "All cores should have executed the same amount of ticks").
* core/hle/kernel/thread.cpp:774, `OneTickEvent` of `CpuLimiter` (`Callers = {0}`, `Updates = 2`). UpdateAppCpuLimit calls UnscheduleEvent before it schedules the tick again; core/hle/kernel/thread.cpp:773 says "If we were active already, unschedule first so that the event is not scheduled twice". UnscheduleEvent looks only in the event queue of each timer, and a tick scheduled from core 0 is in the thread-safe queue of core 1 until that core advances: two calls within a slice leave two ticks, each of which schedules a successor for good.
* core/hle/kernel/thread.cpp:836, `SleepKept` of `CpuLimiter` (`Callers = {1}`, `Updates = 2`). WakeupSleepingThreads resumes every listed thread whose status is WaitSleep. A thread that was limited, got ready by the timeout of an earlier wait, ran and called svcSleepThread is still in the list and is resumed at the next tick, before its delay; core/hle/kernel/svc.cpp:815 says "Create an event to wake the thread up after the specified nanosecond delay has passed".
* core/hle/kernel/svc.cpp:1005, `NoLostRequest` of `KernelIPC` (two clients, two servers, one session, `Disciplined = FALSE`). ReplyAndReceive marks the request of the session as handled but wakes no thread that waits on that session. When a second request arrived meanwhile, and the replying thread does not wait on the session itself, another server thread goes on sleeping on a session with a pending request; with three clients and two sessions the same happens when every server waits on all sessions and the port (`Disciplined = TRUE`), since the replying thread takes the request of the other session first; core/hle/kernel/server_session.cpp:81 says a sync request means "that there's new data available from its ClientSession, so wake up any threads that may be waiting on a svcReplyAndReceive or similar".
* core/hle/kernel/server_session.cpp:45, `NoOrphans` of `KernelIPC` (one client, one server, `ServerCloses = 1`). ~ServerSession destroys the list of pending requests without waking their threads, which stay in WaitIPC without a wakeup event; the comment at core/hle/kernel/server_session.cpp:42 says to "Wake up all the ClientSession's waiting threads and set the SendSyncRequest result to 0xC920181A".
* core/hle/kernel/client_session.cpp:36, `NoOrphans` of `KernelIPC` (two clients, one session, `ClientCloses = 1`). ~ClientSession forgets the threads with pending requests, "they are unneeded now that the client endpoint is closed" (core/hle/kernel/client_session.cpp:34). The SVC keeps no reference to the session while its thread sleeps, so another thread of the process can close the last handle; the sleeping thread then stays in WaitIPC for good.
* core/hle/kernel/thread.cpp:490, `RequestersWait` of `KernelIPC` (one client, one server, `Terminations = 1`). Thread::Stop does not remove the thread from the session it waits on. A server that then receives and answers the request calls ResumeFromWait on a dead thread, of which core/hle/kernel/thread.cpp:490 says "This should never happen, as threads must complete before being stopped".
* core/hle/kernel/address_arbiter.cpp:36, `ArbiterConsistent` of `AddressArbiter` (two threads, one arbiter, `Terminations = 1`). Thread::Stop removes a thread from its wait objects only; a thread terminated in WaitArb stays in waiting_threads of the arbiter, and the next signal meets it dead. core/hle/kernel/address_arbiter.cpp:35 asserts that a listed thread has status WaitArb: "Inconsistent AddressArbiter state".
* core/hle/kernel/address_arbiter.cpp:80, `NobodyStranded` and `CallbacksValid` of `AddressArbiter` (two threads, one arbiter, `Closes = 1`). A waiting thread holds no reference to its arbiter: when another thread closes the last handle, the arbiter and its list are destroyed and no signal reaches the thread any more. Its timeout calls WakeUp of the callback, which core/hle/kernel/address_arbiter.cpp:153 and 172 shared with the thread and so is alive, but holds a bare reference to the arbiter (core/hle/kernel/address_arbiter.cpp:95) and erases from the list of the destroyed object (core/hle/kernel/address_arbiter.cpp:114), which is undefined. core/hle/kernel/address_arbiter.h:61 says a waiting thread is put "to wait on the specified arbitration address under this address arbiter", and core/hle/kernel/address_arbiter.cpp:113 what the callback is to do: "Remove the newly-awakened thread from the Arbiter's waiting list."
* core/hle/kernel/handle_table.cpp:47, `StaleHandlesInvalid` of `HandleTable` (one slot, three generations, four creations). The counter wraps to 1 after 32767 handles, so a handle that was closed long ago equals a later handle of the same slot and is valid again. core/hle/kernel/handle_table.h:32: "To prevent accidental use of a freed Handle whose slot has already been reused, a global counter is kept and incremented every time a Handle is created."
* core/hle/kernel/handle_table.cpp:21, `OnlyIssuedValid` of `HandleTable` (one slot, two slot values). GetSlot returns handle >> 15, which has 17 bits, as a u16: bit 31 of a handle is ignored, and a handle that Create never returned is valid. core/hle/kernel/handle_table.h:28: "Handles contain two sub-fields: a slot index (bits 31:15) and a generation value (bits 14:0)."
* core/hle/kernel/svc.cpp:1447, `ResourcesCounted` of `HandleTable` (`Refusals = 1`). CreateSemaphore reserves before it creates; when the counts are refused CASCADE_RESULT returns without a Release, and no destructor runs. CreateThread does the same. core/hle/kernel/svc.cpp:1444 says what the reservation is: "Update semaphore count in resource limit."
* core/savestate.cpp:525, `KeptIsKept` of `SaveStateFile` (`RenameReplaces = FALSE`, one failure, one crash). SaveState deletes the backup before it looks whether the path exists. When the backup is the only state (a crash between the two renames leaves it so) and the rename of the temporary file fails, no backup exists, the scope guard deletes the temporary file, and no state is left. core/savestate.cpp:528 says in this case: "(old state kept at ".
* core/hle/kernel/hle_ipc.h:274, `PendingCounted` of `AsyncRequests` (`ReallyAsync = TRUE`, `Terminations = 1`). Only the wakeup of the thread takes the operation off the count. Thread::Stop never wakes a thread that TerminateProcess or ExitProcess ends in the middle of an operation, so the count never returns to zero. core/core.cpp:474 then refuses every save and load: "Cannot perform save state operation due to pending async operations", although none is pending.
* core/hle/kernel/thread.cpp:428, `CallbacksKnown` of `AsyncRequests` (`ReallyAsync = TRUE`, `Terminations = 1`). Thread::Stop unschedules the events of the thread and erases it from wakeup_callback_table, but the host thread of its operation hands in its wakeup later. wakeup_callback_table.at then throws std::out_of_range; core/hle/kernel/thread.cpp:430 expects to come further and to report "Callback fired for invalid thread".
* common/polyfill_thread.h:347, `WaitersWake` of `BoundedQueue` (`Polyfill = TRUE`, `PopModes = {"stop"}`). The callback of CondvarWait notifies without the mutex of the wait, so a stop that is requested after the predicate was false and before the thread sleeps is missed; the thread that joins it waits for good. common/threadsafe_queue.h:53 states the rule: "cv_mutex must be held or else there will be a missed wakeup if the other thread is in the line before cv.wait", and common/polyfill_thread.h:6 says that the file only stands in until "jthread is supported by all compilation targets", whose condition variables do not miss the stop.
* common/logging/backend.cpp:461, `WrittenOnce` of `Logger` (two threads, two entries each). entry keeps what was popped before, so entry.filename is still set when PopWait returns because of a stop and the last entry is written a second time; common/logging/backend.cpp:459 says "Only write the log if something was actually popped (entry.filename != nullptr) (for example, when the stop token is signaled)".
* core/hle/kernel/semaphore.cpp:54, `CountInRange` of `SemaphoreCount` (`Half = 16`, any `ReleaseCounts`, without the condition `well_used`). Neither SVC::ReleaseSemaphore nor Semaphore::Release refuses a negative count, and the sum of two large ones overflows, so available_count leaves the range 0 .. max_count: core/hle/kernel/semaphore.h:37 calls it "Number of free slots left in the semaphore" and max_count "Maximum number of simultaneous holders the semaphore can have".
* GBAStation/game_db.cpp:186, `SavedIsThere` of `GameDatabase` (`LateErrors = 1`). output.good() is asked before the destructor of the stream writes what its buffer still holds, so a failure there goes unseen and rename puts a truncated file in the place of the database, which cannot be parsed from then on: no record is found, and every later change that adds or removes a record throws type_error (GBAStation/game_db.cpp:255, 358), which nobody catches. GBAStation/game_db.cpp:292 reports "3DS GameDB display settings save {}" with "ok" all the same. Two more ways to lose the records are among the behaviours of the module, and no text of the repository rules them out: the fallback truncates the database before it copies (`cut`), and a database that is there but cannot be opened is written anew with one record (`misreads`).
* network/room_member.cpp:189, `LeaveEnds` of `Room` (one client, `LeaveJoining = TRUE`). SetState(Joined) by the thread of the client overwrites the Idle that Leave has just set, so the loop does not end and join() waits until the connection does. network/room_member.h:269: "Leaves the current room."
* network/room_member.cpp:241, `ClosedEndsLoop` of `Room` (one client, `Losses = 1`). The event ENET_EVENT_TYPE_DISCONNECT is ignored while the state is Joining, so a client whose connection closes before the answer stays Joining and its loop goes on. network/room_member.cpp:159: "Receive packets while the connection is open"
* network/room_member.cpp:683, `NameTakenByOther` of `Room` (one client, `LeaveJoining = TRUE`, `Joins = 2`). Leave does not clear send_list, so a request that was not sent goes out on the next connection, and the request of that connection then collides with the member it made. network/room.cpp:572: "A nickname is valid if it matches the regex and is not already taken by anybody else in the room."
* core/hle/kernel/vm_manager.cpp:227, `Merged` of `ProcessMemory` (three heap pages, three frames, two `ProtectPerms`). The loop of ReprotectRange stops behind a merged area without comparing it with what was split off beyond the range, so two alike neighbours stay apart. core/hle/kernel/vm_manager.h:107: "mergeable regions must always be merged when possible so that no two similar and adjacent regions exist that have not been merged."
* core/hle/kernel/process.cpp:364, `FreesAllocated` of `ProcessMemory` (`Careful = FALSE`). HeapFree looks up the frames behind the range and gives them back whatever the state of the pages, so a page that Map shows at two addresses is given back twice, and the assertion ends the emulator. core/hle/kernel/memory.cpp:278: "ASSERT(!boost::icl::intersects(free_blocks, interval)); // must be allocated blocks"
* core/hle/kernel/process.cpp:416, `LinearPlaceFree` of `ProcessMemory` (`Careful = FALSE`). Map does not restrict its target, so a page of the heap can be mapped into the linear heap, where the assertion of LinearAllocate expects the place of a free frame to be free. core/hle/kernel/process.cpp:416: "ASSERT(vma.Succeeded());"
* video_core/renderer_vulkan/vk_resource_pool.cpp:23, `GrowsWhenFull` of `VulkanScheduler` (chunks of two, four commands). search captures gpu_tick by value, so the assignment of the tick that was read again has no effect: the later searches use the old tick and the pool grows although a resource is free. video_core/renderer_vulkan/vk_resource_pool.cpp:37: "// Refresh semaphore to query updated results"
* video_core/renderer_vulkan/renderer_vulkan.cpp:327, `WaitPresentCovers` of `PresentWindow` (one window, two frames). Present only records a command that queues the frame, and a resize calls WaitPresent before Finish, so WaitPresent can return while the last frame is neither queued nor presented. video_core/renderer_vulkan/vk_present_window.h:64: "/// Queues the provided frame for presentation." and video_core/renderer_vulkan/vk_present_window.h:55: "/// Waits for all queued frames to finish presenting."
* video_core/renderer_vulkan/renderer_vulkan.cpp:198, `IdleIsSynchronised` of `PresentWindow` (two windows, `Ends = TRUE`). The destructor waits for the main window only and calls device.waitIdle without submit_mutex, while the thread of the secondary window may submit. video_core/renderer_vulkan/renderer_vulkan.cpp:238: "// vkDeviceWaitIdle requires external synchronization with every queue from the device."

## 8. Not modelled

* CPU recompilers and interpreters, the page tables of emulated memory, the PICA
  core, rasterizers, shaders and texture caches, the DSP and the audio decoders:
  transformations of data far beyond TLC, with little protocol.
* System services: several dozen, which meet the kernel as clients of the
  operations modelled here (`ServiceSignal` in `KernelSync`, requests in
  `AsyncRequests`).
* Loaders, file systems, cheats, movies, the GDB stub, frontends and tools:
  parsing and I/O. Of the Switch frontend the game database is modelled.
* Of the modelled parts: thread local storage, shared memory blocks, special
  mappings, the archives of save states beyond event and ready queues, the
  timeline semaphore, synchronous presentation, surface changes on Android and
  the overlay's callbacks, the announcement of rooms on the web, `Clear` of the
  queues.
* Vendored code under `src/externals` (Vulkan headers, ENet, boost and others)
  makes up nearly all lines of the repository; where the program uses it, it is
  modelled from that use and marked external.
