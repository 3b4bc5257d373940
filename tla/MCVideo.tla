------------------------------ MODULE MCVideo -------------------------------
(***************************************************************************)
(* Instances of VulkanScheduler and PresentWindow.  A behaviour is one of  *)
(* the scheduler ("scheduler"), of a renderer with one window that it      *)
(* destroys ("window"), or of one with two windows ("windows").  What it   *)
(* is not of stays as it was in the beginning.                             *)
(***************************************************************************)
EXTENDS VulkanScheduler

CONSTANTS main, second, nobody

VARIABLES
  part,
  window_todo, frame, drawn, shown, number, commands, dispatched, free_frames, free_mutex,
  present_queue, frame_mutex, swapchain_mutex, submit_mutex, present, has, losses, submissions,
  render_ready, present_done, sleepers

One == INSTANCE PresentWindow WITH
  Main <- main, Nobody <- nobody, Secondary <- nobody, Images <- 2, Renders <- 3, Losses <- 1,
  Ends <- TRUE, todo <- window_todo, free_queue <- free_frames, queue_mutex <- frame_mutex,
  device <- submissions, asleep <- sleepers

Two == INSTANCE PresentWindow WITH
  Main <- main, Nobody <- nobody, Secondary <- second, Images <- 2, Renders <- 1, Losses <- 1,
  Ends <- FALSE, todo <- window_todo, free_queue <- free_frames, queue_mutex <- frame_mutex,
  device <- submissions, asleep <- sleepers

ASSUME One!PresentWindowAssumption /\ Two!PresentWindowAssumption

window_vars ==
  <<window_todo, frame, drawn, shown, number, commands, dispatched, free_frames, free_mutex,
    present_queue, frame_mutex, swapchain_mutex, submit_mutex, present, has, losses, submissions,
    render_ready, present_done, sleepers>>
all_vars == <<part, vars, window_vars>>

AllInit ==
  /\ Init
  /\ \/ part \in {"scheduler", "window"} /\ One!Init
     \/ part = "windows" /\ Two!Init

AllNext ==
  /\ UNCHANGED part
  /\ \/ part = "scheduler" /\ Next /\ UNCHANGED window_vars
     \/ part = "window" /\ One!Next /\ UNCHANGED vars
     \/ part = "windows" /\ Two!Next /\ UNCHANGED vars

(* Every thread goes on with what it is in, and the device finishes what was submitted. *)
AllSpec ==
  /\ AllInit /\ [][AllNext]_all_vars
  /\ WF_vars(part = "scheduler" /\ RenderStep) /\ WF_vars(part = "scheduler" /\ WorkerStep)
  /\ WF_vars(part = "scheduler" /\ FencerStep) /\ WF_vars(part = "scheduler" /\ DeviceFinishes)
  /\ WF_window_vars(part = "window" /\ One!RenderStep)
  /\ WF_window_vars(part = "window" /\ One!WorkerStep)
  /\ WF_window_vars(part = "window" /\ One!DeviceFinishes)
  /\ WF_window_vars(part = "window" /\ One!PresentStep(main))
  /\ WF_window_vars(part = "windows" /\ Two!RenderStep)
  /\ WF_window_vars(part = "windows" /\ Two!WorkerStep)
  /\ WF_window_vars(part = "windows" /\ Two!DeviceFinishes)
  /\ \A w \in {main, second} : WF_window_vars(part = "windows" /\ Two!PresentStep(w))

(* The parts have the types that their modules state. *)
PartsTypeOK == TypeOK /\ IF part = "windows" THEN Two!TypeOK ELSE One!TypeOK

(* GetRenderFrame, Present, CopyToSwapchain: a frame is in one place, free, with the render      *)
(* thread, recorded to be presented, queued, or with the thread that presents it.                *)
FramesInOnePlace == IF part = "windows" THEN Two!FramesInOnePlace ELSE One!FramesInOnePlace

(* The frame that the render thread draws or makes again is not on the device, and its semaphore *)
(* and fence are not signaled.                                                                   *)
DrawnFrameUnused == IF part = "windows" THEN Two!DrawnFrameUnused ELSE One!DrawnFrameUnused

(* ~PresentWindow: when the window is destroyed, its frames were all shown and freed, and the    *)
(* device uses none of them.                                                                     *)
DestroyedUnused == part = "window" => One!DestroyedUnused

(* renderer_vulkan.cpp: vkDeviceWaitIdle "requires external synchronization with every queue":   *)
(* with one window nobody submits while the render thread waits for the device.                  *)
IdleIsSynchronised == part = "window" => One!IdleIsSynchronised

(* Frames are shown in the order in which they were drawn, none is left out and none is shown    *)
(* twice, also when the swapchain is lost and made again.                                        *)
ShownInOrder ==
  [][IF part = "windows" THEN Two!ShownInOrderStep ELSE One!ShownInOrderStep]_window_vars

(* WaitPresent behind Finish returns when every frame drawn was shown and the thread that        *)
(* presents is through with all of them.                                                         *)
FinishedFramesShown ==
  [][IF part = "windows" THEN Two!FinishedFramesStep ELSE One!FinishedFramesStep]_window_vars

(* Nobody waits for ever: a frame becomes free, WaitPresent and Finish return, although          *)
(* frame_cv, with its notify_one, has two kinds of waiters.                                      *)
RenderGoesOn == One!RenderGoesOn

-----------------------------------------------------------------------------

(* Scheduler, MasterSemaphoreFence, ResourcePool: commands are executed once and in order; no  *)
(* command buffer or fence is used again before the device is through with it, and a tick that *)
(* is known to be done is done.                                                                *)
CommandsSound ==
  /\ []PartsTypeOK /\ []CommandsInOrder /\ []BuffersApart /\ []FencesApart /\ []KnownTickIsDone
  /\ WorkerIsIdle

(* PresentWindow: a frame is in one place and unused when it is drawn, made again or           *)
(* destroyed; frames are shown in order, and WaitPresent behind Finish waits for all of them.  *)
FramesSound ==
  /\ []FramesInOnePlace /\ []DrawnFrameUnused /\ []DestroyedUnused /\ []IdleIsSynchronised
  /\ ShownInOrder /\ FinishedFramesShown

(* No thread of the renderer waits for ever: Finish, Wait and WaitWorker return, and a frame   *)
(* becomes free.                                                                               *)
RendererGoesOn == CallsReturn /\ RenderGoesOn
=============================================================================
