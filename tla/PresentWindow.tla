--------------------------- MODULE PresentWindow ----------------------------
(***************************************************************************)
(* How frames reach the screen (vk_present_window.cpp and its callers in   *)
(* renderer_vulkan.cpp) with asynchronous presentation: the render thread  *)
(* takes a free frame, draws it and hands it to the scheduler, whose       *)
(* worker queues it for the thread that presents it and frees it again.    *)
(* Of the scheduler only the order of commands is left (VulkanScheduler):  *)
(* commands are executed in order once they were dispatched.  The device   *)
(* executes submissions in order.  A frame is <<window, number>>.          *)
(***************************************************************************)
EXTENDS Integers, FiniteSets, SequencesExt

CONSTANTS
  Main, Secondary,   \* windows; Secondary may be Nobody
  Images,            \* frames of a window
  Renders,           \* bound: frames drawn
  Losses,            \* bound: times a swapchain must be made again
  Ends,              \* whether the renderer is destroyed
  Nobody

PresentWindowAssumption ==
  /\ Images \in Nat /\ Images >= 2 /\ Renders \in Nat /\ Losses \in Nat
  /\ Ends \in BOOLEAN /\ Main # Nobody /\ Main # Secondary

Windows == {Main, Secondary} \ {Nobody}
Frames == Windows \X (1 .. Images)

VARIABLES
  todo,              \* steps left of what the render thread is in: <<step, window>>
  frame,             \* the frame it has, or Nobody
  drawn, shown,      \* of each window: frames so far
  number,            \* of each frame: which one it was drawn as
  commands,          \* recorded, [op, frame]
  dispatched,        \* how many of them the worker may execute
  free_queue, free_mutex, present_queue, queue_mutex, swapchain_mutex,   \* of each window
  submit_mutex,
  present,           \* of each window, its thread: "look", "exchange", "acquire", "recreate",
                     \* "idle", "submit", "free"
  has,               \* the frame it has, or Nobody
  losses,
  device,            \* submissions that the device has not finished
  render_ready, present_done,   \* frames whose semaphore, whose fence is signaled
  asleep             \* threads in a condition variable: "render" or a window

locks == <<free_mutex, queue_mutex, swapchain_mutex, submit_mutex>>
thread == <<present, has, losses, shown>>
gpu == <<device, render_ready, present_done>>
vars == <<todo, frame, drawn, number, commands, dispatched, free_queue, present_queue, locks,
          thread, gpu, asleep>>

Init ==
  /\ todo = <<>> /\ frame = Nobody /\ commands = <<>> /\ dispatched = 0
  /\ drawn = [w \in Windows |-> 0] /\ shown = [w \in Windows |-> 0]
  /\ number = [f \in Frames |-> 0]
  /\ free_queue = [w \in Windows |-> [i \in 1 .. Images |-> <<w, i>>]]
  /\ present_queue = [w \in Windows |-> <<>>]
  /\ free_mutex = [w \in Windows |-> Nobody] /\ queue_mutex = [w \in Windows |-> Nobody]
  /\ swapchain_mutex = [w \in Windows |-> Nobody] /\ submit_mutex = Nobody
  /\ present = [w \in Windows |-> "look"] /\ has = [w \in Windows |-> Nobody] /\ losses = 0
  /\ device = <<>> /\ render_ready = {} /\ present_done = Frames /\ asleep = {}

Steps(w, names) == [i \in DOMAIN names |-> <<names[i], w>>]
GetRenderFrame(w) == Steps(w, <<"take", "fence">>)
Finish == Steps(Main, <<"finish", "await">>)
WaitPresent(w) == Steps(w, <<"queue", "swapchain">>)

Call(steps) == todo = <<>> /\ todo' = steps
Does(step, w) == todo # <<>> /\ Head(todo) = <<step, w>> /\ "render" \notin asleep
Returns == todo' = Tail(todo)
Sleeps == asleep' = asleep \cup {"render"} /\ UNCHANGED todo

-----------------------------------------------------------------------------
(* The render thread *)

\* RenderToWindow and TryPresent: the layout has changed or not.
RenderToWindow(w) ==
  /\ drawn[w] < Renders
  /\ \E resized \in BOOLEAN :
       Call(GetRenderFrame(w)
            \o (IF resized THEN WaitPresent(w) \o Finish \o Steps(w, <<"recreate">>) ELSE <<>>)
            \o Steps(w, <<"flush", "present">>))
  /\ UNCHANGED <<frame, drawn, number, commands, dispatched, free_queue, present_queue, locks,
                 thread, gpu, asleep>>

\* Other work of the renderer dispatches what was recorded.
DispatchWork ==
  /\ todo = <<>> /\ dispatched < Len(commands) /\ dispatched' = Len(commands)
  /\ UNCHANGED <<todo, frame, drawn, number, commands, free_queue, present_queue, locks,
                 thread, gpu, asleep>>

WaitForOverlayShutdown ==
  /\ Call(Finish \o WaitPresent(Main)
          \o (IF Secondary = Nobody THEN <<>> ELSE WaitPresent(Secondary))
          \o Steps(Main, <<"lock", "idle", "unlock">>))
  /\ UNCHANGED <<frame, drawn, number, commands, dispatched, free_queue, present_queue, locks,
                 thread, gpu, asleep>>

\* ~RendererVulkan, and the destructor of its main window
Destroy ==
  /\ Ends /\ Call(Finish \o WaitPresent(Main) \o Steps(Main, <<"idle">>) \o Finish
                  \o Steps(Main, <<"destroy">>))
  /\ UNCHANGED <<frame, drawn, number, commands, dispatched, free_queue, present_queue, locks,
                 thread, gpu, asleep>>

\* The lock is kept until the fence was waited for.
TakeFrame(w) ==
  /\ Does("take", w) /\ free_mutex[w] = Nobody
  /\ IF free_queue[w] = <<>> THEN Sleeps /\ UNCHANGED <<frame, free_queue, free_mutex>>
     ELSE /\ Returns /\ frame' = Head(free_queue[w])
          /\ free_queue' = [free_queue EXCEPT ![w] = Tail(@)]
          /\ free_mutex' = [free_mutex EXCEPT ![w] = "render"]
          /\ UNCHANGED asleep
  /\ UNCHANGED <<drawn, number, commands, dispatched, present_queue, queue_mutex, swapchain_mutex,
                 submit_mutex, thread, gpu>>

WaitFence(w) ==
  /\ Does("fence", w) /\ frame \in present_done /\ Returns
  /\ present_done' = present_done \ {frame}
  /\ free_mutex' = [free_mutex EXCEPT ![w] = Nobody]
  /\ UNCHANGED <<frame, drawn, number, commands, dispatched, free_queue, present_queue, queue_mutex,
                 swapchain_mutex, submit_mutex, thread, device, render_ready, asleep>>

WaitQueueEmpty(w) ==
  /\ Does("queue", w) /\ queue_mutex[w] = Nobody
  /\ IF present_queue[w] = <<>> THEN Returns /\ UNCHANGED asleep ELSE Sleeps
  /\ UNCHANGED <<frame, drawn, number, commands, dispatched, free_queue, present_queue, locks, thread, gpu>>

\* Taken and given up again
WaitSwapchain(w) ==
  /\ Does("swapchain", w) /\ swapchain_mutex[w] = Nobody /\ Returns
  /\ UNCHANGED <<frame, drawn, number, commands, dispatched, free_queue, present_queue, locks, thread,
                 gpu, asleep>>

\* Finish: a submission, which is then waited for
RecordFinish(w) ==
  /\ Does("finish", w) /\ Returns
  /\ commands' = Append(commands, [op |-> "finish", frame |-> Nobody]) /\ dispatched' = Len(commands')
  /\ UNCHANGED <<frame, drawn, number, free_queue, present_queue, locks, thread, gpu, asleep>>

AwaitFinish(w) ==
  /\ Does("await", w) /\ Returns
  /\ \A i \in DOMAIN commands : commands[i].op # "finish"
  /\ \A i \in DOMAIN device : device[i].op # "finish"
  /\ UNCHANGED <<frame, drawn, number, commands, dispatched, free_queue, present_queue, locks, thread,
                 gpu, asleep>>

\* Makes the image of the frame again
RecreateFrame(w) ==
  /\ Does("recreate", w) /\ Returns
  /\ UNCHANGED <<frame, drawn, number, commands, dispatched, free_queue, present_queue, locks, thread,
                 gpu, asleep>>

\* DrawScreens and Flush
DrawAndFlush(w) ==
  /\ Does("flush", w) /\ Returns
  /\ drawn' = [drawn EXCEPT ![w] = @ + 1] /\ number' = [number EXCEPT ![frame] = drawn'[w]]
  /\ commands' = Append(commands, [op |-> "render", frame |-> frame]) /\ dispatched' = Len(commands')
  /\ UNCHANGED <<frame, free_queue, present_queue, locks, thread, gpu, asleep>>

\* Present only records.
Present(w) ==
  /\ Does("present", w) /\ Returns
  /\ commands' = Append(commands, [op |-> "present", frame |-> frame]) /\ frame' = Nobody
  /\ UNCHANGED <<drawn, number, dispatched, free_queue, present_queue, locks, thread, gpu, asleep>>

LockSubmit(w) ==
  /\ Does("lock", w) /\ submit_mutex = Nobody /\ submit_mutex' = "render" /\ Returns
  /\ UNCHANGED <<frame, drawn, number, commands, dispatched, free_queue, present_queue, free_mutex,
                 queue_mutex, swapchain_mutex, thread, gpu, asleep>>

UnlockSubmit(w) ==
  /\ Does("unlock", w) /\ submit_mutex' = Nobody /\ Returns
  /\ UNCHANGED <<frame, drawn, number, commands, dispatched, free_queue, present_queue, free_mutex,
                 queue_mutex, swapchain_mutex, thread, gpu, asleep>>

\* device.waitIdle
WaitIdle(w) ==
  /\ Does("idle", w) /\ device = <<>> /\ Returns
  /\ UNCHANGED <<frame, drawn, number, commands, dispatched, free_queue, present_queue, locks, thread,
                 gpu, asleep>>

-----------------------------------------------------------------------------
(* The worker of the scheduler *)

Execute(op) == dispatched > 0 /\ Head(commands).op = op /\ dispatched' = dispatched - 1
               /\ commands' = Tail(commands)

Submit ==
  /\ \/ Execute("render") \/ Execute("finish")
  /\ submit_mutex = Nobody /\ device' = Append(device, Head(commands))
  /\ UNCHANGED <<todo, frame, drawn, number, free_queue, present_queue, locks, thread, render_ready,
                 present_done, asleep>>

\* Threads that wait in frame_cv of a window, and what notify_one makes of the sleepers.
InFrameCV(w) ==
  asleep \cap ({w} \cup IF todo # <<>> /\ Head(todo) = <<"queue", w>> THEN {"render"} ELSE {})
NotifyOne(waiting) == IF waiting = {} THEN {asleep} ELSE {asleep \ {t} : t \in waiting}

QueueFrame ==
  /\ Execute("present")
  /\ LET f == Head(commands).frame
         w == f[1]
     IN /\ queue_mutex[w] = Nobody
        /\ present_queue' = [present_queue EXCEPT ![w] = Append(@, f)]
        /\ asleep' \in NotifyOne(InFrameCV(w))
  /\ UNCHANGED <<todo, frame, drawn, number, free_queue, locks, thread, gpu>>

-----------------------------------------------------------------------------
(* The thread that presents *)

TakeQueued(w) ==
  /\ present[w] = "look" /\ w \notin asleep /\ queue_mutex[w] = Nobody
  /\ IF present_queue[w] = <<>>
     THEN asleep' = asleep \cup {w} /\ UNCHANGED <<has, present_queue, queue_mutex, present>>
     ELSE /\ has' = [has EXCEPT ![w] = Head(present_queue[w])]
          /\ present_queue' = [present_queue EXCEPT ![w] = Tail(@)]
          /\ asleep' \in NotifyOne(InFrameCV(w))
          /\ queue_mutex' = [queue_mutex EXCEPT ![w] = "present"]
          /\ present' = [present EXCEPT ![w] = "exchange"]
  /\ UNCHANGED <<todo, frame, drawn, number, commands, dispatched, free_queue, free_mutex,
                 swapchain_mutex, submit_mutex, losses, shown, gpu>>

\* Faulty: the lock of the queue is given up before the lock of the swapchain is taken.
ExchangeUnlocked(w) ==
  /\ present[w] = "exchange"
  /\ IF queue_mutex[w] = "present"
     THEN queue_mutex' = [queue_mutex EXCEPT ![w] = Nobody] /\ UNCHANGED <<swapchain_mutex, present>>
     ELSE /\ swapchain_mutex' = [swapchain_mutex EXCEPT ![w] = "present"]
          /\ present' = [present EXCEPT ![w] = "acquire"] /\ UNCHANGED queue_mutex
  /\ UNCHANGED <<todo, frame, drawn, number, commands, dispatched, free_queue, present_queue, free_mutex,
                 submit_mutex, has, losses, shown, gpu, asleep>>

Exchange(w) ==
  /\ present[w] = "exchange" /\ swapchain_mutex[w] = Nobody
  /\ swapchain_mutex' = [swapchain_mutex EXCEPT ![w] = "present"]
  /\ queue_mutex' = [queue_mutex EXCEPT ![w] = Nobody]
  /\ present' = [present EXCEPT ![w] = "acquire"]
  /\ UNCHANGED <<todo, frame, drawn, number, commands, dispatched, free_queue, present_queue, free_mutex,
                 submit_mutex, has, losses, shown, gpu, asleep>>

\* CopyToSwapchain: an image is acquired, or the swapchain is made again.
Acquire(w) ==
  /\ present[w] = "acquire"
  /\ \/ present' = [present EXCEPT ![w] = "submit"] /\ UNCHANGED losses
     \/ /\ losses < Losses /\ losses' = losses + 1
        /\ present' = [present EXCEPT ![w] = "recreate"]
  /\ UNCHANGED <<todo, frame, drawn, number, commands, dispatched, free_queue, present_queue, locks,
                 has, shown, gpu, asleep>>

LockRecreate(w) ==
  /\ present[w] = "recreate" /\ submit_mutex = Nobody
  /\ submit_mutex' = w /\ present' = [present EXCEPT ![w] = "idle"]
  /\ UNCHANGED <<todo, frame, drawn, number, commands, dispatched, free_queue, present_queue, free_mutex,
                 queue_mutex, swapchain_mutex, has, losses, shown, gpu, asleep>>

Recreate(w) ==
  /\ present[w] = "idle" /\ device = <<>>
  /\ submit_mutex' = Nobody /\ present' = [present EXCEPT ![w] = "acquire"]
  /\ UNCHANGED <<todo, frame, drawn, number, commands, dispatched, free_queue, present_queue, free_mutex,
                 queue_mutex, swapchain_mutex, has, losses, shown, gpu, asleep>>

SubmitCopy(w) ==
  /\ present[w] = "submit" /\ submit_mutex = Nobody
  /\ device' = Append(device, [op |-> "present", frame |-> has[w]])
  /\ shown' = [shown EXCEPT ![w] = number[has[w]]]
  /\ present' = [present EXCEPT ![w] = "free"]
  /\ UNCHANGED <<todo, frame, drawn, number, commands, dispatched, free_queue, present_queue, locks, has,
                 losses, render_ready, present_done, asleep>>

\* Faulty: nobody is told that a frame is free.
FreeFrameSilently(w) ==
  /\ present[w] = "free" /\ free_mutex[w] = Nobody
  /\ free_queue' = [free_queue EXCEPT ![w] = Append(@, has[w])]
  /\ has' = [has EXCEPT ![w] = Nobody] /\ present' = [present EXCEPT ![w] = "look"]
  /\ swapchain_mutex' = [swapchain_mutex EXCEPT ![w] = Nobody]
  /\ UNCHANGED <<todo, frame, drawn, number, commands, dispatched, present_queue, free_mutex, queue_mutex,
                 submit_mutex, losses, shown, gpu, asleep>>

\* The lock of the swapchain is kept until the frame is in the queue.
FreeFrame(w) ==
  /\ present[w] = "free" /\ free_mutex[w] = Nobody
  /\ free_queue' = [free_queue EXCEPT ![w] = Append(@, has[w])]
  /\ asleep' = IF todo # <<>> /\ Head(todo) = <<"take", w>> THEN asleep \ {"render"} ELSE asleep
  /\ has' = [has EXCEPT ![w] = Nobody] /\ present' = [present EXCEPT ![w] = "look"]
  /\ swapchain_mutex' = [swapchain_mutex EXCEPT ![w] = Nobody]
  /\ UNCHANGED <<todo, frame, drawn, number, commands, dispatched, present_queue, free_mutex, queue_mutex,
                 submit_mutex, losses, shown, gpu>>

\* The copy waits for the semaphore of the frame and signals its fence.
DeviceFinishes ==
  /\ device # <<>> /\ device' = Tail(device)
  /\ LET d == Head(device)
     IN \/ d.op = "finish" /\ UNCHANGED <<render_ready, present_done>>
        \/ d.op = "render" /\ render_ready' = render_ready \cup {d.frame} /\ UNCHANGED present_done
        \/ /\ d.op = "present" /\ d.frame \in render_ready
           /\ render_ready' = render_ready \ {d.frame}
           /\ present_done' = present_done \cup {d.frame}
  /\ UNCHANGED <<todo, frame, drawn, number, commands, dispatched, free_queue, present_queue, locks, thread,
                 asleep>>

-----------------------------------------------------------------------------

RenderStep ==
  \E w \in Windows :
    \/ TakeFrame(w) \/ WaitFence(w) \/ WaitQueueEmpty(w) \/ WaitSwapchain(w) \/ RecordFinish(w)
    \/ AwaitFinish(w) \/ RecreateFrame(w) \/ DrawAndFlush(w) \/ Present(w) \/ LockSubmit(w)
    \/ UnlockSubmit(w) \/ WaitIdle(w)

PresentStep(w) ==
  \/ TakeQueued(w) \/ Exchange(w) \/ Acquire(w) \/ LockRecreate(w) \/ Recreate(w) \/ SubmitCopy(w)
  \/ FreeFrame(w)

WorkerStep == Submit \/ QueueFrame

Next ==
  \/ \E w \in Windows : RenderToWindow(w) \/ PresentStep(w)
  \/ DispatchWork \/ WaitForOverlayShutdown \/ Destroy
  \/ RenderStep \/ WorkerStep \/ DeviceFinishes

Spec == Init /\ [][Next]_vars

(* Every thread goes on with what it is in, and the device finishes what was submitted; the     *)
(* render thread need not draw.                                                                 *)
FairSpec ==
  /\ Spec /\ WF_vars(RenderStep) /\ WF_vars(WorkerStep) /\ WF_vars(DeviceFinishes)
  /\ \A w \in Windows : WF_vars(PresentStep(w))

-----------------------------------------------------------------------------

TypeOK ==
  /\ frame \in Frames \cup {Nobody} /\ dispatched \in 0 .. Len(commands)
  /\ has \in [Windows -> Frames \cup {Nobody}] /\ losses \in 0 .. Losses
  /\ present \in [Windows -> {"look", "exchange", "acquire", "recreate", "idle", "submit", "free"}]
  /\ render_ready \subseteq Frames /\ present_done \subseteq Frames
  /\ asleep \subseteq Windows \cup {"render"}
  /\ submit_mutex \in {w \in Windows : present[w] = "idle"} \cup {"render", Nobody}

Occurrences(f, s) == Cardinality({i \in DOMAIN s : s[i] = f})

(* A frame is in one place: free, with the render thread, recorded to be presented, queued, or  *)
(* with the thread that presents.                                                               *)
FramesInOnePlace ==
  \A f \in Frames :
    1 = Occurrences(f, free_queue[f[1]]) + Occurrences(f, present_queue[f[1]])
        + Occurrences(f, <<frame>>) + Occurrences(f, <<has[f[1]]>>)
        + Cardinality({i \in DOMAIN commands : commands[i] = [op |-> "present", frame |-> f]})

(* The frame that the render thread draws or makes again is not on the device, and its           *)
(* semaphore and fence are not signaled.                                                         *)
DrawnFrameUnused ==
  todo # <<>> /\ frame # Nobody /\ Head(todo)[1] \in {"recreate", "flush"} =>
    /\ \A i \in DOMAIN device : device[i].frame # frame
    /\ frame \notin render_ready \cup present_done

(* Frames are shown in the order in which they were drawn, none is left out and none shown twice. *)
ShownInOrderStep == \A w \in Windows : shown'[w] # shown[w] => shown'[w] = shown[w] + 1
ShownInOrder == [][ShownInOrderStep]_vars

(* WaitPresent behind Finish returns when every frame drawn was shown and the thread that         *)
(* presents is through with all of them (vk_present_window.cpp: "to ensure that frame has been    *)
(* presented as well take hold of the swapchain mutex").                                          *)
FinishedFramesStep ==
  \A w \in Windows : Does("swapchain", w) /\ todo' # todo /\ frame = Nobody =>
    shown[w] = drawn[w] /\ present[w] = "look"
FinishedFramesShown == [][FinishedFramesStep]_vars

(* vk_present_window.h: Present "queues the provided frame for presentation", and WaitPresent    *)
(* "waits for all queued frames to finish presenting".                                           *)
WaitPresentCovers ==
  [][\A w \in Windows : Does("swapchain", w) /\ todo' # todo => shown[w] = drawn[w]]_vars

(* When the main window is destroyed, nothing uses its frames: they were all shown and freed.     *)
DestroyedUnused ==
  todo # <<>> /\ Head(todo)[1] = "destroy" =>
    /\ has[Main] = Nobody /\ Len(free_queue[Main]) = Images
    /\ \A i \in DOMAIN device : device[i].frame # Nobody => device[i].frame[1] # Main

(* renderer_vulkan.cpp: vkDeviceWaitIdle "requires external synchronization with every queue":    *)
(* while the render thread waits for the device, nobody may submit.                               *)
IdleIsSynchronised ==
  todo # <<>> /\ Head(todo)[1] = "idle" /\ submit_mutex # "render" =>
    \A w \in Windows : present[w] # "submit"

(* Nobody waits for ever: a frame becomes free, WaitPresent and Finish return, although           *)
(* frame_cv, with its notify_one, has two kinds of waiters.                                       *)
RenderGoesOn == todo # <<>> ~> (todo = <<>> \/ Head(todo)[1] = "destroy")

=============================================================================
