--------------------------- MODULE AsyncRequests ---------------------------
(***************************************************************************)
(* Requests to services that the emulator implements itself, and the save  *)
(* states that must not meet them half done.                               *)
(*                                                                         *)
(* The emulator thread runs guest threads, fires timer events and looks at *)
(* signals of the frontend between slices.  A service may put the calling  *)
(* guest thread to sleep and do its work on a host thread (RunAsync, and   *)
(* RunOnThreadWorker, which differs in the choice of the host thread); the *)
(* host thread then schedules the wakeup through the thread-safe queue of  *)
(* the timer.  Save and load wait until no such operation is pending.      *)
(***************************************************************************)
EXTENDS Integers, FiniteSets

CONSTANTS
  Threads,         \* guest threads
  ReallyAsync,     \* ~deterministic_async_operations
  IPCDelay,        \* a build for another host than the Switch
  Requests,        \* bound: requests of each thread
  Signals,         \* bound: signals of the frontend
  Terminations,    \* bound: threads that are terminated
  NoState, Nobody

ASSUME AsyncAssumption ==
  /\ IsFiniteSet(Threads)
  /\ ReallyAsync \in BOOLEAN /\ IPCDelay \in BOOLEAN
  /\ Requests \in Nat /\ Signals \in Nat /\ Terminations \in Nat
  /\ Nobody \notin Threads

VARIABLES
  status,                \* of each thread; Running stands for Ready too
  wakeup_callback,       \* async: AsyncWakeUpCallback; plain: one that can be serialized
  requests, replies,     \* of each thread: sent, and written to its command buffer
  wakeup_events,         \* threads with a wakeup event
  ts_wakeups,            \* threads whose wakeup event a host thread handed over
  host_work,             \* threads whose work runs on a host thread
  caller,                \* the thread whose request RunAsync is handing to the host, or Nobody
  pending_async_operations,
  current_signal, signals,
  save_state_request_status,
  late,                  \* the request is older than five seconds
  saved,                 \* the guest as it was saved
  crashed,               \* an exception that nobody catches
  terminations

guest == <<status, wakeup_callback, requests, replies, wakeup_events>>
frontend == <<current_signal, signals>>
saving == <<save_state_request_status, late, saved>>
rest == <<crashed, terminations>>
vars == <<guest, ts_wakeups, host_work, caller, pending_async_operations, frontend, saving, rest>>

Guest == [status |-> status, wakeup_callback |-> wakeup_callback, requests |-> requests,
          replies |-> replies, wakeup_events |-> wakeup_events]

TypeOK ==
  /\ status \in [Threads -> {"Running", "WaitHleEvent", "WaitIPC", "Dead"}]
  /\ wakeup_callback \in [Threads -> {"none", "plain", "async"}]
  /\ wakeup_events \subseteq Threads /\ ts_wakeups \subseteq Threads /\ host_work \subseteq Threads
  /\ caller \in Threads \cup {Nobody}
  /\ pending_async_operations \in 0 .. Cardinality(Threads)
  /\ current_signal \in {"None", "Save", "Load"}
  /\ save_state_request_status \in {"NONE", "SAVING", "LOADING"}

Init ==
  /\ status = [t \in Threads |-> "Running"]
  /\ wakeup_callback = [t \in Threads |-> "none"]
  /\ requests = [t \in Threads |-> 0] /\ replies = [t \in Threads |-> 0]
  /\ wakeup_events = {} /\ ts_wakeups = {} /\ host_work = {}
  /\ caller = Nobody
  /\ pending_async_operations = 0
  /\ current_signal = "None" /\ signals = 0
  /\ save_state_request_status = "NONE" /\ late = FALSE /\ saved = NoState
  /\ crashed = FALSE /\ terminations = 0

-----------------------------------------------------------------------------
(* Requests, on the emulator thread *)

EmulatorFree == caller = Nobody /\ ~crashed

MayRequest(t) ==
  /\ EmulatorFree
  /\ status[t] = "Running" /\ requests[t] < Requests
  /\ requests' = [requests EXCEPT ![t] = @ + 1]

SleepClientThread(t, callback) ==
  /\ wakeup_callback' = [wakeup_callback EXCEPT ![t] = callback]
  /\ status' = [status EXCEPT ![t] = "WaitHleEvent"]

WriteReply(t) == replies' = [replies EXCEPT ![t] = @ + 1]

\* The handler answers at once; except on the Switch the thread sleeps a little
AnswerAtOnce(t) ==
  /\ MayRequest(t) /\ WriteReply(t)
  /\ IF IPCDelay
       THEN status' = [status EXCEPT ![t] = "WaitIPC"] /\ wakeup_events' = wakeup_events \cup {t}
       ELSE UNCHANGED <<status, wakeup_events>>
  /\ UNCHANGED <<wakeup_callback, ts_wakeups, host_work, caller, pending_async_operations, frontend, saving, rest>>

\* The handler puts the thread to sleep for a time, as file::read does
AnswerLater(t) ==
  /\ MayRequest(t) /\ SleepClientThread(t, "plain")
  /\ wakeup_events' = wakeup_events \cup {t}
  /\ UNCHANGED <<replies, ts_wakeups, host_work, caller, pending_async_operations, frontend, saving, rest>>

\* RunAsync up to the call of SleepClientThread: the host thread runs from here on
RunAsync(t) ==
  /\ ReallyAsync /\ MayRequest(t)
  /\ pending_async_operations' = pending_async_operations + 1
  /\ host_work' = host_work \cup {t} /\ caller' = t
  /\ UNCHANGED <<status, wakeup_callback, replies, wakeup_events, ts_wakeups, frontend, saving, rest>>

SleepAsync(t) ==
  /\ caller = t
  /\ SleepClientThread(t, "async")
  /\ caller' = Nobody
  /\ UNCHANGED <<requests, replies, wakeup_events, ts_wakeups, host_work, pending_async_operations,
                 frontend, saving, rest>>

\* RunAsync when it runs the section itself and the section takes time; if it takes none this
\* is AnswerAtOnce
RunSync(t) ==
  /\ ~ReallyAsync /\ MayRequest(t)
  /\ pending_async_operations' = pending_async_operations + 1
  /\ SleepClientThread(t, "async")
  /\ wakeup_events' = wakeup_events \cup {t}
  /\ UNCHANGED <<replies, ts_wakeups, host_work, caller, frontend, saving, rest>>

-----------------------------------------------------------------------------
(* The host thread and the wakeup *)

HostDone(t) ==
  /\ t \in host_work
  /\ host_work' = host_work \ {t}
  /\ ts_wakeups' = ts_wakeups \cup {t}
  /\ UNCHANGED <<guest, caller, pending_async_operations, frontend, saving, rest>>

MoveEvents ==
  /\ EmulatorFree /\ ts_wakeups # {}
  /\ wakeup_events' = wakeup_events \cup ts_wakeups
  /\ ts_wakeups' = {}
  /\ UNCHANGED <<status, wakeup_callback, requests, replies, host_work, caller, pending_async_operations,
                 frontend, saving, rest>>

\* The table of callbacks has no entry for a dead thread, and at() throws
FireForNobody(t) ==
  /\ EmulatorFree /\ t \in wakeup_events /\ status[t] = "Dead"
  /\ wakeup_events' = wakeup_events \ {t}
  /\ crashed' = TRUE
  /\ UNCHANGED <<status, wakeup_callback, requests, replies, ts_wakeups, host_work, caller, pending_async_operations,
                 frontend, saving, terminations>>

\* AsyncWakeUpCallback::WakeUp
Report(t) ==
  pending_async_operations' =
    IF wakeup_callback[t] = "async" THEN pending_async_operations - 1 ELSE pending_async_operations

\* Faulty: the event stays in the queue
WakeupAgain(t) ==
  /\ EmulatorFree /\ t \in wakeup_events /\ status[t] \in {"WaitHleEvent", "WaitIPC"}
  /\ IF status[t] = "WaitHleEvent"
       THEN WriteReply(t) /\ Report(t)
       ELSE UNCHANGED <<replies, pending_async_operations>>
  /\ status' = [status EXCEPT ![t] = "Running"]
  /\ wakeup_callback' = [wakeup_callback EXCEPT ![t] = "none"]
  /\ UNCHANGED <<wakeup_events, requests, ts_wakeups, host_work, caller, frontend, saving, rest>>

ThreadWakeupCallback(t) ==
  /\ EmulatorFree /\ t \in wakeup_events /\ status[t] # "Dead"
  /\ wakeup_events' = wakeup_events \ {t}
  /\ IF status[t] = "WaitHleEvent"
       THEN WriteReply(t) /\ Report(t)
       ELSE UNCHANGED <<replies, pending_async_operations>>
  /\ status' = [status EXCEPT ![t] = "Running"]
  /\ wakeup_callback' = [wakeup_callback EXCEPT ![t] = "none"]
  /\ UNCHANGED <<requests, ts_wakeups, host_work, caller, frontend, saving, rest>>

\* Thread::Stop by TerminateProcess: events of the thread-safe queue and of the host stay
Stop(t) ==
  /\ EmulatorFree /\ status[t] # "Dead"
  /\ terminations < Terminations /\ terminations' = terminations + 1
  /\ status' = [status EXCEPT ![t] = "Dead"]
  /\ wakeup_events' = wakeup_events \ {t}
  /\ UNCHANGED <<wakeup_callback, requests, replies, ts_wakeups, host_work, caller, pending_async_operations,
                 frontend, saving, crashed>>

-----------------------------------------------------------------------------
(* Save states: the beginning of System::RunLoop *)

SendSignal(s) ==
  /\ signals < Signals /\ signals' = signals + 1
  /\ current_signal' = IF current_signal \in {"None", s} THEN s ELSE current_signal
  /\ UNCHANGED <<guest, ts_wakeups, host_work, caller, pending_async_operations, saving, rest>>

Busy == current_signal # "None" /\ save_state_request_status # "NONE"

\* The request after the signal was taken
Requested ==
  CASE current_signal = "Save" -> "SAVING"
    [] current_signal = "Load" -> "LOADING"
    [] OTHER -> save_state_request_status

AreAsyncOperationsPending == pending_async_operations # 0

\* One more request while one waits: an error, and the waiting one stays
ReportBusy ==
  /\ EmulatorFree /\ Busy
  /\ current_signal' = "None"
  /\ UNCHANGED <<guest, ts_wakeups, host_work, caller, pending_async_operations, signals, saving, rest>>

SaveState ==
  /\ EmulatorFree /\ ~Busy
  /\ Requested = "SAVING" /\ ~AreAsyncOperationsPending
  /\ current_signal' = "None"
  /\ save_state_request_status' = "NONE"
  /\ saved' = Guest
  /\ UNCHANGED <<guest, ts_wakeups, host_work, caller, pending_async_operations, signals, late, rest>>

\* Faulty: the state is loaded although operations are pending
LoadAtOnce ==
  /\ EmulatorFree /\ ~Busy
  /\ Requested = "LOADING" /\ saved # NoState
  /\ current_signal' = "None"
  /\ save_state_request_status' = "NONE"
  /\ status' = saved.status /\ wakeup_callback' = saved.wakeup_callback
  /\ requests' = saved.requests /\ replies' = saved.replies
  /\ wakeup_events' = saved.wakeup_events
  /\ ts_wakeups' = {} /\ pending_async_operations' = 0
  /\ UNCHANGED <<host_work, caller, signals, late, saved, rest>>

\* Loading makes a new kernel and a new timer
LoadState ==
  /\ EmulatorFree /\ ~Busy
  /\ Requested = "LOADING" /\ ~AreAsyncOperationsPending
  /\ current_signal' = "None"
  /\ save_state_request_status' = "NONE"
  /\ IF saved = NoState
       THEN UNCHANGED <<guest, ts_wakeups, pending_async_operations>>
       ELSE /\ status' = saved.status /\ wakeup_callback' = saved.wakeup_callback
            /\ requests' = saved.requests /\ replies' = saved.replies
            /\ wakeup_events' = saved.wakeup_events
            /\ ts_wakeups' = {} /\ pending_async_operations' = 0
  /\ UNCHANGED <<host_work, caller, signals, late, saved, rest>>

\* The request waits for the operations that are pending
Postpone ==
  /\ EmulatorFree /\ ~Busy
  /\ current_signal # "None" /\ AreAsyncOperationsPending
  /\ save_state_request_status' = Requested /\ late' = FALSE
  /\ current_signal' = "None"
  /\ UNCHANGED <<guest, ts_wakeups, host_work, caller, pending_async_operations, signals, saved, rest>>

FiveSecondsPass ==
  /\ save_state_request_status # "NONE" /\ ~late
  /\ late' = TRUE
  /\ UNCHANGED <<guest, ts_wakeups, host_work, caller, pending_async_operations, frontend,
                 save_state_request_status, saved, rest>>

\* Faulty: a request that is too old is reported and kept
RefuseKeeps ==
  /\ EmulatorFree /\ current_signal = "None"
  /\ save_state_request_status # "NONE" /\ AreAsyncOperationsPending /\ late
  /\ late' = FALSE
  /\ UNCHANGED <<guest, ts_wakeups, host_work, caller, pending_async_operations, frontend, save_state_request_status,
                 saved, rest>>

Refuse ==
  /\ EmulatorFree /\ current_signal = "None"
  /\ save_state_request_status # "NONE" /\ AreAsyncOperationsPending /\ late
  /\ save_state_request_status' = "NONE"
  /\ UNCHANGED <<guest, ts_wakeups, host_work, caller, pending_async_operations, frontend, late, saved, rest>>

-----------------------------------------------------------------------------
RunLoop == ReportBusy \/ SaveState \/ LoadState \/ Postpone \/ Refuse

Next ==
  \/ \E t \in Threads :
       \/ AnswerAtOnce(t) \/ AnswerLater(t) \/ RunAsync(t) \/ SleepAsync(t) \/ RunSync(t)
       \/ HostDone(t) \/ FireForNobody(t) \/ ThreadWakeupCallback(t) \/ Stop(t)
  \/ MoveEvents
  \/ \E s \in {"Save", "Load"} : SendSignal(s)
  \/ FiveSecondsPass
  \/ RunLoop

Spec == Init /\ [][Next]_vars

(* Host threads finish, and the emulator thread goes on: it returns from a handler, fires     *)
(* events that are due and looks at signals between slices.  Guest threads and the frontend   *)
(* need not do anything, but time passes.                                                     *)
Fairness ==
  /\ \A t \in Threads : WF_vars(SleepAsync(t)) /\ WF_vars(HostDone(t)) /\ WF_vars(ThreadWakeupCallback(t))
  /\ WF_vars(MoveEvents) /\ WF_vars(RunLoop) /\ WF_vars(FiveSecondsPass)

FairSpec == Spec /\ Fairness

-----------------------------------------------------------------------------
\* Threads that sleep until an operation on a host thread, or its stand-in, is over
Outstanding == {t \in Threads : status[t] = "WaitHleEvent" /\ wakeup_callback[t] = "async"}

(* The count that save states wait for is the number of operations that are under way.        *)
PendingCounted ==
  pending_async_operations = Cardinality(Outstanding \cup ({caller} \ {Nobody}))

(* A wakeup finds its thread asleep, however early the host thread is done, and no event is   *)
(* left for a thread that runs.                                                               *)
WakeupsFindSleepers ==
  EmulatorFree => \A t \in wakeup_events \cup ts_wakeups \cup host_work : status[t] \in {"WaitHleEvent", "WaitIPC"}

(* Every sleeping thread will be woken once: by its host thread or by one event.              *)
SleepersAreAwaited ==
  \A t \in Threads : status[t] \in {"WaitHleEvent", "WaitIPC"} =>
    Cardinality({q \in {"host", "ts", "event"} :
                  t \in (CASE q = "host" -> host_work [] q = "ts" -> ts_wakeups [] OTHER -> wakeup_events)}) = 1

(* A thread that runs has one reply for each of its requests, also after a state was loaded.  *)
RepliedOnce ==
  \A t \in Threads : status[t] = "Running" /\ caller # t => replies[t] = requests[t]

(* A saved state stands on its own: each thread that sleeps in it has its event in it, and no *)
(* callback in it belongs to a host thread, which could not be saved.                         *)
SavedStandsAlone ==
  saved # NoState =>
    \A t \in Threads :
      /\ saved.status[t] \in {"WaitHleEvent", "WaitIPC"} => t \in saved.wakeup_events
      /\ saved.status[t] # "Dead" => saved.wakeup_callback[t] # "async"

(* RunAsync: whenever the host thread is done, its client will be woken once, from its sleep, *)
(* and has one reply for each request; while no thread was terminated the count of operations *)
(* is exact and no event is left for a thread that runs.                                      *)
RequestsEndOnce ==
  /\ TypeOK /\ SleepersAreAwaited /\ RepliedOnce
  /\ terminations = 0 => PendingCounted /\ WakeupsFindSleepers

(* RunLoop, SaveState, LoadState: no save or load catches an operation half way.  A saved     *)
(* state stands on its own, and nothing of the time before a load reaches the guest after it: *)
(* a load happens only while no host thread works and the thread-safe queue is empty.         *)
SavesStandAlone ==
  []SavedStandsAlone /\ [][LoadState /\ saved # NoState => host_work = {} /\ ts_wakeups = {}]_vars

(* The timer never fires for a thread the table of callbacks does not know ("Callback fired   *)
(* for invalid thread").                                                                      *)
CallbacksKnown == ~crashed

(* Every request is answered in the end.                                                      *)
RequestsEnd == \A t \in Threads : status[t] # "Running" ~> status[t] = "Running"

(* Every save or load that was asked for is done or refused in the end, although operations   *)
(* may be pending whenever the run loop looks.                                                *)
SavesEnd == (current_signal # "None" \/ save_state_request_status # "NONE")
              ~> (current_signal = "None" /\ save_state_request_status = "NONE") \/ crashed
=============================================================================
