-------------------------- MODULE VulkanScheduler ---------------------------
(***************************************************************************)
(* The Vulkan scheduler (vk_scheduler.cpp), its command buffers            *)
(* (vk_resource_pool.cpp) and the semaphore made of fences                 *)
(* (vk_master_semaphore.cpp): the render thread records commands, a worker *)
(* executes them into a command buffer and submits it, a third thread      *)
(* waits for the fences of the device.  A command is [id, tick], where the *)
(* tick is 0 unless the command is a submission.  Chunks are recycled by   *)
(* value.  The device executes submissions in order.                       *)
(***************************************************************************)
EXTENDS Integers, SequencesExt

CONSTANTS
  ChunkSize,      \* commands that fit into a chunk
  GrowStep,       \* command buffers added when none is free
  FenceReserve,   \* fences made at the start
  Commands        \* bound: commands recorded, submissions included

ASSUME VulkanSchedulerAssumption ==
  /\ ChunkSize \in Nat \ {0} /\ GrowStep \in Nat \ {0} /\ FenceReserve \in Nat /\ Commands \in Nat

VARIABLES
  todo,              \* steps left of the call that the render thread is in
  goal,              \* the tick it waits for
  chunk,             \* [commands, submit]
  recorded,          \* commands so far
  current_tick,
  work_queue, queue_mutex, execution_mutex,
  worker,            \* "look", "exchange", "execute", "submit", "queue", "search", "commit"
  work,              \* the chunk the worker has
  executed,          \* id of the last command executed
  fence,             \* the fence the worker has
  ticks, hint_iterator, current_cmdbuf,   \* the pool of command buffers, numbered from 1
  seen,              \* gpu_tick as the pool read it
  gpu_tick, wait_queue, free_queue,
  fences,            \* made so far
  fencer,            \* the thread that waits for fences: "look", "wait", "free"
  held,              \* the fence and tick it has
  device,            \* submissions that the device has not finished
  signaled,          \* fences
  asleep             \* threads in a condition variable

render == <<todo, goal, chunk, recorded, current_tick>>
pool == <<ticks, hint_iterator, current_cmdbuf, seen>>
master == <<gpu_tick, wait_queue, free_queue, fences, fencer, held, device, signaled>>
vars == <<render, work_queue, queue_mutex, execution_mutex, worker, work, executed, fence, pool,
          master, asleep>>

Empty == [commands |-> <<>>, submit |-> FALSE]
NoFence == [fence |-> 0, tick |-> 0]

\* Once the command pool has handed out its first buffer
Init ==
  /\ todo = <<>> /\ goal = 0 /\ chunk = Empty /\ recorded = 0 /\ current_tick = 1
  /\ work_queue = <<>> /\ queue_mutex = "free" /\ execution_mutex = "free"
  /\ worker = "look" /\ work = Empty /\ executed = 0 /\ fence = 0
  /\ ticks = [i \in 1 .. GrowStep |-> IF i = 1 THEN current_tick ELSE 0]
  /\ hint_iterator = 1 % GrowStep /\ current_cmdbuf = 1 /\ seen = 0
  /\ gpu_tick = 0 /\ wait_queue = <<>> /\ free_queue = [i \in 1 .. FenceReserve |-> i]
  /\ fences = FenceReserve /\ fencer = "look" /\ held = NoFence
  /\ device = <<>> /\ signaled = {} /\ asleep = {}

-----------------------------------------------------------------------------
(* The render thread *)

Full == Len(chunk.commands) = ChunkSize
Dispatch == IF chunk = Empty THEN <<>> ELSE <<"push", "notify">>
Recorded(tick) == Append(chunk.commands, [id |-> recorded + 1, tick |-> tick])

Call(steps) == todo = <<>> /\ todo' = steps
Does(step) == todo # <<>> /\ Head(todo) = step /\ "render" \notin asleep
RenderOnly == UNCHANGED <<execution_mutex, worker, work, executed, fence, pool, master>>

\* A full chunk is dispatched first.
Record ==
  /\ recorded < Commands
  /\ IF Full THEN Call(Dispatch) /\ UNCHANGED <<chunk, recorded>>
     ELSE /\ Call(<<>>) /\ chunk' = [chunk EXCEPT !.commands = Recorded(0)]
          /\ recorded' = recorded + 1
  /\ UNCHANGED <<goal, current_tick, work_queue, queue_mutex, asleep>> /\ RenderOnly

\* Flush, Finish, and Wait for the current tick
NextTick ==
  /\ recorded < Commands
  /\ \E finish \in BOOLEAN :
       Call(<<"submit", "push", "notify">> \o IF finish THEN <<"await">> ELSE <<>>)
  /\ goal' = current_tick /\ current_tick' = current_tick + 1
  /\ UNCHANGED <<chunk, recorded, work_queue, queue_mutex, asleep>> /\ RenderOnly

Wait ==
  /\ Call(<<"await">>)
  /\ goal' \in 1 .. current_tick - 1
  /\ UNCHANGED <<chunk, recorded, current_tick, work_queue, queue_mutex, asleep>> /\ RenderOnly

WaitWorker ==
  /\ Call(Dispatch \o <<"drain", "execution">>)
  /\ UNCHANGED <<goal, chunk, recorded, current_tick, work_queue, queue_mutex, asleep>> /\ RenderOnly

SubmitExecution ==
  /\ Does("submit")
  /\ IF Full THEN todo' = Dispatch \o todo /\ UNCHANGED <<chunk, recorded>>
     ELSE /\ todo' = Tail(todo)
          /\ chunk' = [commands |-> Recorded(goal), submit |-> TRUE]
          /\ recorded' = recorded + 1
  /\ UNCHANGED <<goal, current_tick, work_queue, queue_mutex, asleep>> /\ RenderOnly

DispatchWork ==
  /\ Does("push") /\ queue_mutex = "free" /\ todo' = Tail(todo)
  /\ work_queue' = Append(work_queue, chunk) /\ chunk' = Empty
  /\ UNCHANGED <<goal, recorded, current_tick, queue_mutex, asleep>> /\ RenderOnly

NotifyWorker ==
  /\ Does("notify") /\ todo' = Tail(todo) /\ asleep' = asleep \ {"worker"}
  /\ UNCHANGED <<goal, chunk, recorded, current_tick, work_queue, queue_mutex>> /\ RenderOnly

\* WaitWorker: the queue is empty, and then nobody executes.
Drain ==
  /\ Does("drain") /\ queue_mutex = "free"
  /\ IF work_queue = <<>> THEN todo' = Tail(todo) /\ UNCHANGED asleep
     ELSE asleep' = asleep \cup {"render"} /\ UNCHANGED todo
  /\ UNCHANGED <<goal, chunk, recorded, current_tick, work_queue, queue_mutex>> /\ RenderOnly

WaitExecution ==
  /\ Does("execution") /\ execution_mutex = "free" /\ todo' = Tail(todo)
  /\ UNCHANGED <<goal, chunk, recorded, current_tick, work_queue, queue_mutex, asleep>> /\ RenderOnly

\* MasterSemaphoreFence::Wait
Await ==
  /\ Does("await")
  /\ IF gpu_tick >= goal THEN todo' = Tail(todo) /\ UNCHANGED asleep
     ELSE asleep' = asleep \cup {"render"} /\ UNCHANGED todo
  /\ UNCHANGED <<goal, chunk, recorded, current_tick, work_queue, queue_mutex>> /\ RenderOnly

-----------------------------------------------------------------------------
(* The worker *)

\* The render thread, if it sleeps in step.
Woken(step) == IF todo # <<>> /\ Head(todo) = step THEN {"render"} ELSE {}

\* TryPopQueue
TryPopQueue ==
  /\ worker = "look" /\ "worker" \notin asleep /\ queue_mutex = "free"
  /\ IF work_queue = <<>>
     THEN asleep' = asleep \cup {"worker"} /\ UNCHANGED <<work, work_queue, queue_mutex, worker>>
     ELSE /\ work' = Head(work_queue) /\ work_queue' = Tail(work_queue)
          /\ asleep' = asleep \ Woken("drain")
          /\ queue_mutex' = "worker" /\ worker' = "exchange"
  /\ UNCHANGED <<render, execution_mutex, executed, fence, pool, master>>

\* Faulty: the lock of the queue is given up before the other is taken.
ExchangeUnlocked ==
  /\ worker = "exchange"
  /\ \/ queue_mutex = "worker" /\ queue_mutex' = "free" /\ UNCHANGED <<worker, execution_mutex>>
     \/ /\ queue_mutex = "free" /\ UNCHANGED queue_mutex
        /\ execution_mutex' = "worker" /\ worker' = "execute"
  /\ UNCHANGED <<render, work_queue, work, executed, fence, pool, master, asleep>>

Exchange ==
  /\ worker = "exchange" /\ execution_mutex = "free"
  /\ execution_mutex' = "worker" /\ queue_mutex' = "free" /\ worker' = "execute"
  /\ UNCHANGED <<render, work_queue, work, executed, fence, pool, master, asleep>>

\* The first command of the chunk is done; after the last one comes a new command buffer if
\* there was a submission.
CommandDone ==
  /\ executed' = Head(work.commands).id
  /\ work' = IF Len(work.commands) = 1 /\ ~work.submit THEN Empty
             ELSE [work EXCEPT !.commands = Tail(@)]
  /\ worker' = IF Len(work.commands) > 1 THEN "execute" ELSE IF work.submit THEN "search" ELSE "look"
  /\ execution_mutex' = IF worker' = "look" THEN "free" ELSE execution_mutex

Execute ==
  /\ worker = "execute" /\ Head(work.commands).tick = 0
  /\ CommandDone
  /\ UNCHANGED <<render, work_queue, queue_mutex, fence, pool, master, asleep>>

GetFreeFence ==
  /\ worker = "execute" /\ Head(work.commands).tick # 0
  /\ IF free_queue = <<>>
     THEN fences' = fences + 1 /\ fence' = fences + 1 /\ UNCHANGED free_queue
     ELSE fence' = Head(free_queue) /\ free_queue' = Tail(free_queue) /\ UNCHANGED fences
  /\ worker' = "submit"
  /\ UNCHANGED <<render, work_queue, queue_mutex, execution_mutex, work, executed, pool, gpu_tick,
                 wait_queue, fencer, held, device, signaled, asleep>>

SubmitWork ==
  /\ worker = "submit" /\ worker' = "queue"
  /\ device' = Append(device, [fence |-> fence, cmdbuf |-> current_cmdbuf,
                               tick |-> Head(work.commands).tick])
  /\ UNCHANGED <<render, work_queue, queue_mutex, execution_mutex, work, executed, fence, pool,
                 gpu_tick, wait_queue, free_queue, fences, fencer, held, signaled, asleep>>

QueueFence ==
  /\ worker = "queue" /\ CommandDone
  /\ wait_queue' = Append(wait_queue, [fence |-> fence, tick |-> Head(work.commands).tick])
  /\ fence' = 0 /\ asleep' = asleep \ {"fencer"}
  /\ UNCHANGED <<render, work_queue, queue_mutex, pool, gpu_tick, free_queue, fences, fencer, held,
                 device, signaled>>

\* AllocateWorkerCommandBuffers: CommitResource reads gpu_tick.  It reads it once more when it finds
\* nothing behind the hint, but all of its searches use the first value, of which they have a copy.
Search ==
  /\ worker = "search" /\ worker' = "commit" /\ seen' = gpu_tick
  /\ UNCHANGED <<render, work_queue, queue_mutex, execution_mutex, work, executed, fence, ticks,
                 hint_iterator, current_cmdbuf, master, asleep>>

\* The first buffer of from..to that was used up to seen only
FirstFree(from, to) ==
  {i \in from .. to : seen >= ticks[i] /\ \A j \in from .. i - 1 : seen < ticks[j]}

\* The buffer to take, behind the hint or else before it: none if the pool must grow
Found ==
  LET behind == FirstFree(hint_iterator + 1, Len(ticks))
  IN IF behind # {} THEN behind ELSE FirstFree(1, hint_iterator)

TickOfCommit == current_tick

HintAfter(found, size) == found % size

CommitResource ==
  /\ worker = "commit" /\ worker' = "look" /\ execution_mutex' = "free" /\ work' = Empty
  /\ LET grown == IF Found = {} THEN ticks \o [i \in 1 .. GrowStep |-> 0] ELSE ticks
     IN /\ current_cmdbuf' \in IF Found = {} THEN {Len(ticks) + 1} ELSE Found
        /\ ticks' = [grown EXCEPT ![current_cmdbuf'] = TickOfCommit]
        /\ hint_iterator' = HintAfter(current_cmdbuf', Len(grown))
  /\ seen' = 0
  /\ UNCHANGED <<render, work_queue, queue_mutex, executed, fence, master, asleep>>

-----------------------------------------------------------------------------
(* The thread that waits for fences, and the device *)

TakeFence ==
  /\ fencer = "look" /\ "fencer" \notin asleep
  /\ IF wait_queue = <<>> THEN asleep' = asleep \cup {"fencer"} /\ UNCHANGED <<held, wait_queue, fencer>>
     ELSE /\ held' = Head(wait_queue) /\ wait_queue' = Tail(wait_queue) /\ fencer' = "wait"
          /\ UNCHANGED asleep
  /\ UNCHANGED <<render, work_queue, queue_mutex, execution_mutex, worker, work, executed, fence, pool,
                 gpu_tick, free_queue, fences, device, signaled>>

WaitForFence ==
  /\ fencer = "wait" /\ held.fence \in signaled
  /\ signaled' = signaled \ {held.fence}
  /\ gpu_tick' = held.tick /\ fencer' = "free"
  /\ UNCHANGED <<render, work_queue, queue_mutex, execution_mutex, worker, work, executed, fence, pool,
                 wait_queue, free_queue, fences, held, device, asleep>>

FreeFence ==
  /\ fencer = "free" /\ fencer' = "look"
  /\ free_queue' = Append(free_queue, held.fence) /\ held' = NoFence
  /\ asleep' = asleep \ Woken("await")
  /\ UNCHANGED <<render, work_queue, queue_mutex, execution_mutex, worker, work, executed, fence, pool,
                 gpu_tick, wait_queue, fences, device, signaled>>

DeviceFinishes ==
  /\ device # <<>> /\ device' = Tail(device)
  /\ signaled' = signaled \cup {Head(device).fence}
  /\ UNCHANGED <<render, work_queue, queue_mutex, execution_mutex, worker, work, executed, fence, pool,
                 gpu_tick, wait_queue, free_queue, fences, fencer, held, asleep>>

RenderStep ==
  SubmitExecution \/ DispatchWork \/ NotifyWorker \/ Drain \/ WaitExecution \/ Await

WorkerStep ==
  \/ TryPopQueue \/ Exchange \/ Execute \/ GetFreeFence \/ SubmitWork \/ QueueFence
  \/ Search \/ CommitResource

FencerStep == TakeFence \/ WaitForFence \/ FreeFence

Next ==
  \/ Record \/ NextTick \/ Wait \/ WaitWorker
  \/ RenderStep \/ WorkerStep \/ FencerStep \/ DeviceFinishes

Spec == Init /\ [][Next]_vars

(* Every thread goes on with what it is in, and the device finishes what was submitted; the    *)
(* render thread need not call anything.                                                       *)
FairSpec ==
  Spec /\ WF_vars(RenderStep) /\ WF_vars(WorkerStep) /\ WF_vars(FencerStep) /\ WF_vars(DeviceFinishes)

-----------------------------------------------------------------------------

Queued == FlattenSeq([i \in DOMAIN work_queue |-> work_queue[i].commands])
Pending == work.commands \o Queued \o chunk.commands

TypeOK ==
  /\ \A i \in DOMAIN todo :
       todo[i] \in {"submit", "push", "notify", "await", "drain", "execution"}
  /\ goal \in 0 .. current_tick /\ current_tick \in 1 .. Commands + 1
  /\ Len(chunk.commands) <= ChunkSize /\ recorded \in 0 .. Commands /\ executed \in 0 .. recorded
  /\ queue_mutex \in {"free", "worker"} /\ execution_mutex \in {"free", "worker"}
  /\ worker \in {"look", "exchange", "execute", "submit", "queue", "search", "commit"}
  /\ fencer \in {"look", "wait", "free"}
  /\ current_cmdbuf \in DOMAIN ticks /\ hint_iterator \in 0 .. Len(ticks) - 1
  /\ gpu_tick \in 0 .. current_tick - 1 /\ seen \in 0 .. gpu_tick
  /\ asleep \subseteq {"render", "worker", "fencer"}

(* Commands wait in the chunk of the worker, the queue and the chunk of the render thread in    *)
(* the order in which they were recorded, and none is lost or executed twice.                   *)
CommandsInOrder ==
  [i \in DOMAIN Pending |-> Pending[i].id] = [i \in 1 .. recorded - executed |-> executed + i]

(* A command buffer that the worker writes is not one the device still reads: the tick under    *)
(* which it was given out was not before the submission that used it, however far the render    *)
(* thread has gone.                                                                             *)
BuffersApart ==
  worker \notin {"queue", "search", "commit"} =>
    \A i \in DOMAIN device : device[i].cmdbuf # current_cmdbuf

(* A fence has one owner, and one that may be submitted is neither signaled nor under way.      *)
FencesApart ==
  LET unused == free_queue \o IF worker = "submit" THEN <<fence>> ELSE <<>>
      used == [i \in DOMAIN wait_queue |-> wait_queue[i].fence] \o
              IF fencer = "wait" THEN <<held.fence>> ELSE <<>>
  IN /\ IsInjective(unused \o used)
     /\ \A i \in DOMAIN unused :
          unused[i] \notin signaled /\ \A j \in DOMAIN device : device[j].fence # unused[i]

(* What a tick that the host knows of stands for is done: no submission up to it is recorded,   *)
(* queued or on the device, so that Wait and Finish return after the work of their tick.        *)
KnownTickIsDone ==
  /\ \A i \in DOMAIN Pending : Pending[i].tick = 0 \/ Pending[i].tick > gpu_tick
  /\ \A i \in DOMAIN device : device[i].tick > gpu_tick
  /\ todo # <<>> /\ Head(todo) = "submit" => goal > gpu_tick

(* vk_resource_pool.cpp: a pool that finds nothing is to "query updated results" before it grows:  *)
(* it grows when the device still uses all of its buffers.                                        *)
GrowsWhenFull ==
  [][Len(ticks') > Len(ticks) => \A i \in DOMAIN ticks : ticks[i] > gpu_tick]_vars

(* WaitWorker returns when everything recorded before was executed and the worker does not      *)
(* touch its resources (vk_scheduler.h: "it's safe to touch worker resources").                 *)
WorkerIsIdle ==
  [][todo = <<"execution">> /\ todo' = <<>> => executed = recorded /\ worker = "look"]_vars

(* Flush, Finish, Wait and WaitWorker return, whatever the worker, the other thread and the      *)
(* device are at: no wakeup is missed.                                                          *)
CallsReturn == todo # <<>> ~> todo = <<>>

=============================================================================
