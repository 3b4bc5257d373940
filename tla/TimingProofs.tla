---------------------------- MODULE TimingProofs ----------------------------
(***************************************************************************)
(* Proofs about what happens at the right time.  First AsyncRequests: a    *)
(* request that a host thread works on ends once, the count that save      *)
(* states wait for is exact, and no save or load catches such a request    *)
(* half way.  Then CoreTiming, from "The event queues of the timers" on:   *)
(* no slice passes over an event that its core scheduled for itself, and   *)
(* no slice is empty; from "The clocks of the cores" on: the clocks stay   *)
(* close, so that an event for another core is late by one slice at most.  *)
(***************************************************************************)
EXTENDS AsyncRequests, CoreTiming, ListProofs

-----------------------------------------------------------------------------
(* Requests that host threads work on *)

Types ==
  /\ status \in [Threads -> {"Running", "WaitHleEvent", "WaitIPC", "Dead"}]
  /\ wakeup_callback \in [Threads -> {"none", "plain", "async"}]
  /\ requests \in [Threads -> Nat] /\ replies \in [Threads -> Nat]
  /\ wakeup_events \subseteq Threads /\ ts_wakeups \subseteq Threads /\ host_work \subseteq Threads
  /\ caller \in Threads \cup {Nobody}
  /\ terminations \in Nat

FrontendTypes ==
  /\ current_signal \in {"None", "Save", "Load"}
  /\ save_state_request_status \in {"NONE", "SAVING", "LOADING"}

\* The threads whose operation is counted: the callback is kept by a thread that is terminated
Counted == {t \in Threads : wakeup_callback[t] = "async" \/ t = caller}

(* A thread waits for one wakeup at most, which a host thread, the thread-safe queue or the   *)
(* timer has; only callbacks of RunAsync belong to host threads.                              *)
OneWakeup ==
  \A t \in Threads :
    /\ t \in host_work => t \notin ts_wakeups /\ t \notin wakeup_events
    /\ t \in ts_wakeups => t \notin wakeup_events
    /\ t \in host_work \/ t \in ts_wakeups => wakeup_callback[t] = "async" \/ t = caller

\* What the status of a thread says of its request
Settled(t) ==
  CASE status[t] = "Running" ->
         /\ wakeup_callback[t] = "none" /\ t \notin wakeup_events
         /\ t # caller => replies[t] = requests[t]
         /\ t = caller => requests[t] = replies[t] + 1 /\ (t \in host_work \/ t \in ts_wakeups)
    [] status[t] = "WaitIPC" ->
         /\ wakeup_callback[t] = "none" /\ t \in wakeup_events
         /\ t # caller /\ requests[t] = replies[t]
    [] status[t] = "WaitHleEvent" ->
         /\ wakeup_callback[t] # "none" /\ t # caller /\ requests[t] = replies[t] + 1
         /\ t \in host_work \/ t \in ts_wakeups \/ t \in wakeup_events
    [] OTHER -> t # caller

AllSettled == \A t \in Threads : Settled(t)

NoneDead == terminations = 0 => \A t \in Threads : status[t] # "Dead"

\* The same of a saved state, in which nothing is under way
SavedTypes(g) ==
  /\ g.status \in [Threads -> {"Running", "WaitHleEvent", "WaitIPC", "Dead"}]
  /\ g.wakeup_callback \in [Threads -> {"none", "plain"}]
  /\ g.requests \in [Threads -> Nat] /\ g.replies \in [Threads -> Nat]
  /\ g.wakeup_events \subseteq Threads

SavedSettled(g, t) ==
  CASE g.status[t] = "Running" ->
         g.wakeup_callback[t] = "none" /\ t \notin g.wakeup_events /\ g.replies[t] = g.requests[t]
    [] g.status[t] = "WaitIPC" ->
         g.wakeup_callback[t] = "none" /\ t \in g.wakeup_events /\ g.requests[t] = g.replies[t]
    [] g.status[t] = "WaitHleEvent" ->
         /\ g.wakeup_callback[t] # "none" /\ g.requests[t] = g.replies[t] + 1
         /\ t \in g.wakeup_events
    [] OTHER -> TRUE

SavedSound ==
  saved # NoState =>
    /\ SavedTypes(saved) /\ \A t \in Threads : SavedSettled(saved, t)
    /\ terminations = 0 => \A t \in Threads : saved.status[t] # "Dead"

AsyncInv ==
  /\ Types /\ FrontendTypes /\ OneWakeup /\ AllSettled /\ NoneDead /\ SavedSound
  /\ pending_async_operations = Cardinality(Counted)

-----------------------------------------------------------------------------
(* Counting *)

(* The counted threads are finitely many, so none is counted exactly when the count is zero.  *)
LEMMA CountedFinite ==
  ASSUME NEW S, S \subseteq Threads
  PROVE  IsFiniteSet(S) /\ Cardinality(S) \in Nat /\ Cardinality(S) <= Cardinality(Threads)
         /\ (Cardinality(S) = 0 <=> S = {})
<1>1. IsFiniteSet(Threads)
  BY AsyncAssumption
<1>2. IsFiniteSet(S) /\ Cardinality(S) <= Cardinality(Threads)
  BY <1>1, FS_Subset
<1>3. Cardinality(S) \in Nat /\ (Cardinality(S) = 0 <=> S = {})
  BY <1>2, FS_CardinalityType, FS_EmptySet
<1> QED
  BY <1>2, <1>3

(* An operation that starts is counted once more, one that ends once less.                    *)
LEMMA CountedOne ==
  ASSUME NEW S, S \subseteq Threads, NEW t \in Threads
  PROVE  /\ t \notin S => Cardinality(S \cup {t}) = Cardinality(S) + 1
         /\ t \in S => Cardinality(S \ {t}) = Cardinality(S) - 1
<1>1. IsFiniteSet(S) /\ Cardinality(S) \in Nat
  BY CountedFinite
<1> QED
  BY <1>1, FS_AddElement, FS_RemoveElement

(* While no operation is pending, no host thread works and the thread-safe queue is empty.    *)
LEMMA QuietWhenNonePending ==
  ASSUME AsyncInv, pending_async_operations = 0
  PROVE  host_work = {} /\ ts_wakeups = {} /\ caller = Nobody /\ \A t \in Threads : wakeup_callback[t] # "async"
<1>1. Cardinality(Counted) = 0 /\ Counted \subseteq Threads /\ Types /\ OneWakeup
  BY DEF AsyncInv, Counted
<1>2. Counted = {}
  BY <1>1, CountedFinite
<1> QED
  BY <1>1, <1>2 DEF Counted, Types, OneWakeup

(* Steps that leave the frontend and what was saved alone keep what is known of them.         *)
LEMMA SavedKept ==
  ASSUME AsyncInv, UNCHANGED <<frontend, saving, terminations>>
  PROVE  FrontendTypes' /\ SavedSound'
BY DEF AsyncInv, frontend, saving, FrontendTypes, SavedSound

-----------------------------------------------------------------------------
(* Requests *)

(* A request that is answered at once leaves its thread running or asleep with its event.     *)
LEMMA AnswerAtOnceKeeps ==
  ASSUME AsyncInv, NEW t \in Threads, AnswerAtOnce(t) PROVE AsyncInv'
<1> USE DEF AsyncInv
<1>1. /\ status[t] = "Running" /\ caller = Nobody /\ t # caller
      /\ requests' = [requests EXCEPT ![t] = @ + 1] /\ replies' = [replies EXCEPT ![t] = @ + 1]
      /\ UNCHANGED <<wakeup_callback, ts_wakeups, host_work, caller, pending_async_operations, terminations>>
      /\ UNCHANGED <<frontend, saving, terminations>>
  BY AsyncAssumption DEF AnswerAtOnce, MayRequest, WriteReply, EmulatorFree, rest
<1>2. \/ UNCHANGED <<status, wakeup_events>>
      \/ status' = [status EXCEPT ![t] = "WaitIPC"] /\ wakeup_events' = wakeup_events \cup {t}
  BY DEF AnswerAtOnce
<1>3. Settled(t)
  BY DEF AllSettled
<1>4. wakeup_callback[t] = "none" /\ t \notin wakeup_events /\ replies[t] = requests[t] /\ t \notin host_work /\ t \notin ts_wakeups
  BY <1>1, <1>3 DEF Settled, OneWakeup
<1>5. Types'
  BY <1>1, <1>2 DEF Types
<1>6. OneWakeup'
  BY <1>1, <1>2, <1>4 DEF OneWakeup
<1>7. AllSettled'
  <2> SUFFICES ASSUME NEW u \in Threads PROVE Settled(u)'
    BY DEF AllSettled
  <2>1. Settled(u)
    BY DEF AllSettled
  <2>2. CASE u # t
    BY <1>1, <1>2, <2>1, <2>2 DEF Settled, Types
  <2>3. CASE u = t
    BY <1>1, <1>2, <1>4, <2>3 DEF Settled, Types
  <2> QED
    BY <2>2, <2>3
<1>8. NoneDead'
  BY <1>1, <1>2 DEF NoneDead, Types
<1>9. Counted' = Counted
  BY <1>1 DEF Counted
<1> QED
  BY <1>1, <1>5, <1>6, <1>7, <1>8, <1>9, SavedKept

(* A thread that sleeps for a time has its event.                                             *)
LEMMA AnswerLaterKeeps ==
  ASSUME AsyncInv, NEW t \in Threads, AnswerLater(t) PROVE AsyncInv'
<1> USE DEF AsyncInv
<1>1. /\ status[t] = "Running" /\ caller = Nobody /\ t # caller
      /\ requests' = [requests EXCEPT ![t] = @ + 1]
      /\ wakeup_callback' = [wakeup_callback EXCEPT ![t] = "plain"]
      /\ status' = [status EXCEPT ![t] = "WaitHleEvent"] /\ wakeup_events' = wakeup_events \cup {t}
      /\ UNCHANGED <<replies, ts_wakeups, host_work, caller, pending_async_operations, terminations>>
      /\ UNCHANGED <<frontend, saving, terminations>>
  BY AsyncAssumption DEF AnswerLater, MayRequest, SleepClientThread, EmulatorFree, rest
<1>3. Settled(t)
  BY DEF AllSettled
<1>4. wakeup_callback[t] = "none" /\ t \notin wakeup_events /\ replies[t] = requests[t] /\ t \notin host_work /\ t \notin ts_wakeups
  BY <1>1, <1>3 DEF Settled, OneWakeup
<1>5. Types'
  BY <1>1 DEF Types
<1>6. OneWakeup'
  BY <1>1, <1>4 DEF OneWakeup, Types
<1>7. AllSettled'
  <2> SUFFICES ASSUME NEW u \in Threads PROVE Settled(u)'
    BY DEF AllSettled
  <2>1. Settled(u)
    BY DEF AllSettled
  <2>2. CASE u # t
    BY <1>1, <2>1, <2>2 DEF Settled, Types
  <2>3. CASE u = t
    BY <1>1, <1>4, <2>3 DEF Settled, Types
  <2> QED
    BY <2>2, <2>3
<1>8. NoneDead'
  BY <1>1 DEF NoneDead, Types
<1>9. Counted' = Counted
  BY <1>1, <1>4 DEF Counted, Types
<1> QED
  BY <1>1, <1>5, <1>6, <1>7, <1>8, <1>9, SavedKept

(* RunAsync: the operation is counted from here on, and the host thread may be done before    *)
(* the client sleeps.                                                                         *)
LEMMA RunAsyncKeeps ==
  ASSUME AsyncInv, NEW t \in Threads, RunAsync(t) PROVE AsyncInv'
<1> USE DEF AsyncInv
<1>1. /\ status[t] = "Running" /\ caller = Nobody /\ t # caller
      /\ requests' = [requests EXCEPT ![t] = @ + 1] /\ host_work' = host_work \cup {t} /\ caller' = t
      /\ pending_async_operations' = pending_async_operations + 1
      /\ UNCHANGED <<status, wakeup_callback, replies, wakeup_events, ts_wakeups, terminations>>
      /\ UNCHANGED <<frontend, saving, terminations>>
  BY AsyncAssumption DEF RunAsync, MayRequest, EmulatorFree, rest
<1>3. Settled(t)
  BY DEF AllSettled
<1>4. wakeup_callback[t] = "none" /\ t \notin wakeup_events /\ replies[t] = requests[t] /\ t \notin host_work /\ t \notin ts_wakeups
  BY <1>1, <1>3 DEF Settled, OneWakeup
<1>5. Types'
  BY <1>1 DEF Types
<1>6. OneWakeup'
  BY <1>1, <1>4, AsyncAssumption DEF OneWakeup, Types
<1>7. AllSettled'
  <2> SUFFICES ASSUME NEW u \in Threads PROVE Settled(u)'
    BY DEF AllSettled
  <2>1. Settled(u)
    BY DEF AllSettled
  <2>2. CASE u # t
    BY <1>1, <2>1, <2>2, AsyncAssumption DEF Settled, Types
  <2>3. CASE u = t
    BY <1>1, <1>4, <2>3 DEF Settled, Types
  <2> QED
    BY <2>2, <2>3
<1>8. NoneDead'
  BY <1>1 DEF NoneDead
<1>9. pending_async_operations' = Cardinality(Counted')
  <2>1. Counted' = Counted \cup {t} /\ t \notin Counted /\ Counted \subseteq Threads
    BY <1>1, <1>4, AsyncAssumption DEF Counted
  <2> QED
    BY <1>1, <2>1, CountedOne
<1> QED
  BY <1>1, <1>5, <1>6, <1>7, <1>8, <1>9, SavedKept

(* RunAsync after the host thread was started: the client sleeps, and its operation stays     *)
(* counted for its callback.                                                                  *)
LEMMA SleepAsyncKeeps ==
  ASSUME AsyncInv, NEW t \in Threads, SleepAsync(t) PROVE AsyncInv'
<1> USE DEF AsyncInv
<1>1. /\ caller = t /\ caller' = Nobody
      /\ wakeup_callback' = [wakeup_callback EXCEPT ![t] = "async"]
      /\ status' = [status EXCEPT ![t] = "WaitHleEvent"]
      /\ UNCHANGED <<requests, replies, wakeup_events, ts_wakeups, host_work, pending_async_operations, terminations>>
      /\ UNCHANGED <<frontend, saving, terminations>>
  BY DEF SleepAsync, SleepClientThread, rest
<1>2. Nobody \notin Threads
  BY AsyncAssumption
<1>3. Settled(t)
  BY DEF AllSettled
<1>4. t \notin wakeup_events /\ requests[t] = replies[t] + 1 /\ (t \in host_work \/ t \in ts_wakeups)
  BY <1>1, <1>3 DEF Settled, Types
<1>5. Types'
  BY <1>1 DEF Types
<1>6. OneWakeup'
  BY <1>1, <1>2, <1>4 DEF OneWakeup, Types
<1>7. AllSettled'
  <2> SUFFICES ASSUME NEW u \in Threads PROVE Settled(u)'
    BY DEF AllSettled
  <2>1. Settled(u)
    BY DEF AllSettled
  <2>2. CASE u # t
    BY <1>1, <1>2, <2>1, <2>2 DEF Settled, Types
  <2>3. CASE u = t
    BY <1>1, <1>2, <1>4, <2>3 DEF Settled, Types
  <2> QED
    BY <2>2, <2>3
<1>8. NoneDead'
  BY <1>1 DEF NoneDead, Types
<1>9. Counted' = Counted
  BY <1>1, <1>2 DEF Counted, Types
<1> QED
  BY <1>1, <1>5, <1>6, <1>7, <1>8, <1>9, SavedKept

(* RunAsync that runs the section itself: counted too, with the event of the thread.          *)
LEMMA RunSyncKeeps ==
  ASSUME AsyncInv, NEW t \in Threads, RunSync(t) PROVE AsyncInv'
<1> USE DEF AsyncInv
<1>1. /\ status[t] = "Running" /\ caller = Nobody /\ t # caller
      /\ requests' = [requests EXCEPT ![t] = @ + 1]
      /\ wakeup_callback' = [wakeup_callback EXCEPT ![t] = "async"]
      /\ status' = [status EXCEPT ![t] = "WaitHleEvent"] /\ wakeup_events' = wakeup_events \cup {t}
      /\ pending_async_operations' = pending_async_operations + 1
      /\ UNCHANGED <<replies, ts_wakeups, host_work, caller, terminations>>
      /\ UNCHANGED <<frontend, saving, terminations>>
  BY AsyncAssumption DEF RunSync, MayRequest, SleepClientThread, EmulatorFree, rest
<1>3. Settled(t)
  BY DEF AllSettled
<1>4. wakeup_callback[t] = "none" /\ t \notin wakeup_events /\ replies[t] = requests[t] /\ t \notin host_work /\ t \notin ts_wakeups
  BY <1>1, <1>3 DEF Settled, OneWakeup
<1>5. Types'
  BY <1>1 DEF Types
<1>6. OneWakeup'
  BY <1>1, <1>4 DEF OneWakeup, Types
<1>7. AllSettled'
  <2> SUFFICES ASSUME NEW u \in Threads PROVE Settled(u)'
    BY DEF AllSettled
  <2>1. Settled(u)
    BY DEF AllSettled
  <2>2. CASE u # t
    BY <1>1, <2>1, <2>2 DEF Settled, Types
  <2>3. CASE u = t
    BY <1>1, <1>4, <2>3 DEF Settled, Types
  <2> QED
    BY <2>2, <2>3
<1>8. NoneDead'
  BY <1>1 DEF NoneDead, Types
<1>9. pending_async_operations' = Cardinality(Counted')
  <2>1. Counted' = Counted \cup {t} /\ t \notin Counted /\ Counted \subseteq Threads
    BY <1>1, <1>4 DEF Counted, Types
  <2> QED
    BY <1>1, <2>1, CountedOne
<1> QED
  BY <1>1, <1>5, <1>6, <1>7, <1>8, <1>9, SavedKept

-----------------------------------------------------------------------------
(* Wakeups *)

(* The host thread hands the wakeup over, also when its client does not sleep yet.            *)
LEMMA HostDoneKeeps ==
  ASSUME AsyncInv, NEW t \in Threads, HostDone(t) PROVE AsyncInv'
<1> USE DEF AsyncInv
<1>1. /\ t \in host_work /\ host_work' = host_work \ {t} /\ ts_wakeups' = ts_wakeups \cup {t}
      /\ UNCHANGED <<status, wakeup_callback, requests, replies, wakeup_events, caller,
                     pending_async_operations, terminations>>
      /\ UNCHANGED <<frontend, saving, terminations>>
  BY DEF HostDone, guest, rest
<1>2. Types'
  BY <1>1 DEF Types
<1>3. OneWakeup'
  BY <1>1 DEF OneWakeup
<1>4. AllSettled'
  BY <1>1 DEF AllSettled, Settled
<1>5. NoneDead'
  BY <1>1 DEF NoneDead
<1>6. Counted' = Counted
  BY <1>1 DEF Counted
<1> QED
  BY <1>1, <1>2, <1>3, <1>4, <1>5, <1>6, SavedKept

(* The timer takes over what host threads handed to it; no client is about to sleep then.     *)
LEMMA MoveEventsKeeps ==
  ASSUME AsyncInv, MoveEvents PROVE AsyncInv'
<1> USE DEF AsyncInv
<1>1. /\ caller = Nobody /\ wakeup_events' = wakeup_events \cup ts_wakeups /\ ts_wakeups' = {}
      /\ UNCHANGED <<status, wakeup_callback, requests, replies, host_work, caller,
                     pending_async_operations, terminations>>
      /\ UNCHANGED <<frontend, saving, terminations>>
  BY DEF MoveEvents, EmulatorFree, rest
<1>2. Types'
  BY <1>1 DEF Types
<1>3. OneWakeup'
  BY <1>1 DEF OneWakeup
<1>4. AllSettled'
  <2> SUFFICES ASSUME NEW u \in Threads PROVE Settled(u)'
    BY DEF AllSettled
  <2>1. Settled(u) /\ (u \in ts_wakeups => wakeup_callback[u] = "async") /\ u # caller
    BY <1>1, AsyncAssumption DEF AllSettled, OneWakeup
  <2> QED
    BY <1>1, <2>1 DEF Settled
<1>5. NoneDead'
  BY <1>1 DEF NoneDead
<1>6. Counted' = Counted
  BY <1>1 DEF Counted
<1> QED
  BY <1>1, <1>2, <1>3, <1>4, <1>5, <1>6, SavedKept

(* An event of a dead thread is not of a host thread any more.                                *)
LEMMA FireForNobodyKeeps ==
  ASSUME AsyncInv, NEW t \in Threads, FireForNobody(t) PROVE AsyncInv'
<1> USE DEF AsyncInv
<1>1. /\ status[t] = "Dead" /\ wakeup_events' = wakeup_events \ {t}
      /\ UNCHANGED <<status, wakeup_callback, requests, replies, ts_wakeups, host_work, caller,
                     pending_async_operations, terminations>>
      /\ UNCHANGED <<frontend, saving, terminations>>
  BY DEF FireForNobody
<1>2. Types'
  BY <1>1 DEF Types
<1>3. OneWakeup'
  BY <1>1 DEF OneWakeup
<1>4. AllSettled'
  <2> SUFFICES ASSUME NEW u \in Threads PROVE Settled(u)'
    BY DEF AllSettled
  <2>1. Settled(u)
    BY DEF AllSettled
  <2> QED
    BY <1>1, <2>1 DEF Settled
<1>5. NoneDead'
  BY <1>1 DEF NoneDead
<1>6. Counted' = Counted
  BY <1>1 DEF Counted
<1> QED
  BY <1>1, <1>2, <1>3, <1>4, <1>5, <1>6, SavedKept

(* A wakeup ends the one sleep of its thread, and its operation is counted no longer.         *)
LEMMA WakeupKeeps ==
  ASSUME AsyncInv, NEW t \in Threads, ThreadWakeupCallback(t) PROVE AsyncInv'
<1> USE DEF AsyncInv
<1>1. /\ caller = Nobody /\ t # caller /\ t \in wakeup_events /\ status[t] # "Dead"
      /\ wakeup_events' = wakeup_events \ {t}
      /\ status' = [status EXCEPT ![t] = "Running"]
      /\ wakeup_callback' = [wakeup_callback EXCEPT ![t] = "none"]
      /\ UNCHANGED <<requests, ts_wakeups, host_work, caller, terminations>>
      /\ UNCHANGED <<frontend, saving, terminations>>
  BY AsyncAssumption DEF ThreadWakeupCallback, EmulatorFree, rest
<1>2. IF status[t] = "WaitHleEvent"
        THEN /\ replies' = [replies EXCEPT ![t] = @ + 1]
             /\ pending_async_operations' = IF wakeup_callback[t] = "async" THEN pending_async_operations - 1
                                                                         ELSE pending_async_operations
        ELSE UNCHANGED <<replies, pending_async_operations>>
  BY DEF ThreadWakeupCallback, WriteReply, Report
<1>3. Settled(t)
  BY DEF AllSettled
<1>4. /\ t \notin host_work /\ t \notin ts_wakeups
      /\ \/ status[t] = "WaitIPC" /\ wakeup_callback[t] = "none" /\ requests[t] = replies[t]
         \/ status[t] = "WaitHleEvent" /\ wakeup_callback[t] # "none" /\ requests[t] = replies[t] + 1
  BY <1>1, <1>3 DEF Settled, OneWakeup, Types
<1>5. Types'
  BY <1>1, <1>2 DEF Types
<1>6. OneWakeup'
  BY <1>1, <1>4 DEF OneWakeup, Types
<1>7. AllSettled'
  <2> SUFFICES ASSUME NEW u \in Threads PROVE Settled(u)'
    BY DEF AllSettled
  <2>1. Settled(u)
    BY DEF AllSettled
  <2>2. CASE u # t
    BY <1>1, <1>2, <2>1, <2>2 DEF Settled, Types
  <2>3. CASE u = t
    BY <1>1, <1>2, <1>4, <2>3 DEF Settled, Types
  <2> QED
    BY <2>2, <2>3
<1>8. NoneDead'
  BY <1>1 DEF NoneDead, Types
<1>9. pending_async_operations' = Cardinality(Counted')
  <2>1. Counted \subseteq Threads
    BY DEF Counted
  <2>2. CASE wakeup_callback[t] = "async"
    <3>1. Counted' = Counted \ {t} /\ t \in Counted
      BY <1>1, <2>2 DEF Counted, Types
    <3> QED
      BY <1>2, <1>4, <2>1, <2>2, <3>1, CountedOne
  <2>3. CASE wakeup_callback[t] # "async"
    <3>1. Counted' = Counted
      BY <1>1, <2>3 DEF Counted, Types
    <3> QED
      BY <1>2, <2>3, <3>1
  <2> QED
    BY <2>2, <2>3
<1> QED
  BY <1>1, <1>5, <1>6, <1>7, <1>8, <1>9, SavedKept

(* A thread that is terminated keeps its callback, so its operation stays counted.            *)
LEMMA StopKeeps ==
  ASSUME AsyncInv, NEW t \in Threads, Stop(t) PROVE AsyncInv'
<1> USE DEF AsyncInv
<1>1. /\ caller = Nobody /\ t # caller /\ terminations' = terminations + 1
      /\ status' = [status EXCEPT ![t] = "Dead"] /\ wakeup_events' = wakeup_events \ {t}
      /\ UNCHANGED <<wakeup_callback, requests, replies, ts_wakeups, host_work, caller, pending_async_operations>>
      /\ UNCHANGED <<frontend, saving>>
  BY AsyncAssumption DEF Stop, EmulatorFree
<1>2. terminations' # 0 /\ terminations' \in Nat
  BY <1>1 DEF Types
<1>3. Types'
  BY <1>1, <1>2 DEF Types
<1>4. OneWakeup'
  BY <1>1 DEF OneWakeup
<1>5. AllSettled'
  <2> SUFFICES ASSUME NEW u \in Threads PROVE Settled(u)'
    BY DEF AllSettled
  <2>1. Settled(u)
    BY DEF AllSettled
  <2>2. CASE u # t
    BY <1>1, <2>1, <2>2 DEF Settled, Types
  <2>3. CASE u = t
    BY <1>1, <2>3 DEF Settled, Types
  <2> QED
    BY <2>2, <2>3
<1>6. NoneDead' /\ SavedSound' /\ FrontendTypes'
  BY <1>1, <1>2 DEF NoneDead, SavedSound, frontend, saving, FrontendTypes
<1>7. Counted' = Counted
  BY <1>1 DEF Counted
<1> QED
  BY <1>1, <1>3, <1>4, <1>5, <1>6, <1>7

-----------------------------------------------------------------------------
(* Save states *)

(* Steps of the frontend and of the run loop that leave guest and operations alone.           *)
LEMMA FrontendStep ==
  ASSUME AsyncInv, UNCHANGED <<guest, ts_wakeups, host_work, caller, pending_async_operations, saved, rest>>,
         FrontendTypes'
  PROVE  AsyncInv'
<1>1. /\ UNCHANGED <<status, wakeup_callback, requests, replies, wakeup_events, ts_wakeups, host_work, caller>>
      /\ UNCHANGED <<pending_async_operations, saved, terminations>>
  BY DEF guest, rest
<1>2. Types' /\ OneWakeup'
  BY <1>1 DEF AsyncInv, Types, OneWakeup
<1>3. AllSettled' /\ NoneDead'
  BY <1>1 DEF AsyncInv, AllSettled, Settled, NoneDead
<1>4. SavedSound'
  BY <1>1 DEF AsyncInv, SavedSound
<1>5. Counted' = Counted
  BY <1>1 DEF Counted
<1> QED
  BY <1>1, <1>2, <1>3, <1>4, <1>5 DEF AsyncInv

(* The frontend sends signals, time passes, and the run loop takes, keeps or refuses them.    *)
LEMMA SignalsKeep ==
  ASSUME AsyncInv,
         \/ \E s \in {"Save", "Load"} : SendSignal(s)
         \/ FiveSecondsPass \/ ReportBusy \/ Postpone \/ Refuse
  PROVE  AsyncInv'
<1>1. FrontendTypes
  BY DEF AsyncInv
<1>2. ASSUME NEW s \in {"Save", "Load"}, SendSignal(s) PROVE AsyncInv'
  BY <1>1, <1>2, FrontendStep DEF SendSignal, FrontendTypes, saving
<1>3. CASE FiveSecondsPass
  BY <1>1, <1>3, FrontendStep DEF FiveSecondsPass, FrontendTypes, frontend
<1>4. CASE ReportBusy
  BY <1>1, <1>4, FrontendStep DEF ReportBusy, FrontendTypes, saving
<1>5. CASE Postpone
  BY <1>1, <1>5, FrontendStep DEF Postpone, Requested, FrontendTypes
<1>6. CASE Refuse
  BY <1>1, <1>6, FrontendStep DEF Refuse, FrontendTypes, frontend
<1> QED
  BY <1>2, <1>3, <1>4, <1>5, <1>6

(* A state is saved while no operation is pending: each sleeping thread has its event in it,  *)
(* and no callback in it belongs to a host thread.                                            *)
LEMMA SaveStateKeeps ==
  ASSUME AsyncInv, SaveState PROVE AsyncInv'
<1>1. /\ pending_async_operations = 0 /\ saved' = Guest
      /\ current_signal' = "None" /\ save_state_request_status' = "NONE"
      /\ UNCHANGED <<status, wakeup_callback, requests, replies, wakeup_events, ts_wakeups, host_work, caller>>
      /\ UNCHANGED <<pending_async_operations, terminations>>
  BY DEF SaveState, AreAsyncOperationsPending, guest, rest
<1>2. host_work = {} /\ ts_wakeups = {} /\ caller = Nobody /\ \A t \in Threads : wakeup_callback[t] # "async"
  BY <1>1, QuietWhenNonePending
<1>3. Types' /\ OneWakeup' /\ FrontendTypes'
  BY <1>1 DEF AsyncInv, Types, OneWakeup, FrontendTypes
<1>4. AllSettled' /\ NoneDead'
  BY <1>1 DEF AsyncInv, AllSettled, Settled, NoneDead
<1>5. SavedSound'
  <2> DEFINE g == Guest
  <2>1. /\ g.status = status /\ g.wakeup_callback = wakeup_callback /\ g.requests = requests
        /\ g.replies = replies /\ g.wakeup_events = wakeup_events
    BY DEF Guest
  <2>2. saved' = g
    BY <1>1
  <2> HIDE DEF g
  <2>3. SavedTypes(g)
    BY <2>1, <1>2 DEF AsyncInv, Types, SavedTypes
  <2>4. ASSUME NEW t \in Threads PROVE SavedSettled(g, t)
    <3>1. Settled(t) /\ t # caller
      BY <1>2, AsyncAssumption DEF AsyncInv, AllSettled
    <3>2. \/ status[t] = "Running" \/ status[t] = "WaitIPC" \/ status[t] = "WaitHleEvent" \/ status[t] = "Dead"
      BY DEF AsyncInv, Types
    <3> QED
      BY <2>1, <3>1, <3>2, <1>2 DEF Settled, SavedSettled
  <2>5. terminations = 0 => \A t \in Threads : g.status[t] # "Dead"
    BY <2>1 DEF AsyncInv, NoneDead
  <2> QED
    BY <1>1, <2>2, <2>3, <2>4, <2>5 DEF SavedSound
<1>6. Counted' = Counted
  BY <1>1 DEF Counted
<1> QED
  BY <1>1, <1>3, <1>4, <1>5, <1>6 DEF AsyncInv

(* A state is loaded while no operation is pending, so nothing of the time before is left.    *)
LEMMA LoadStateKeeps ==
  ASSUME AsyncInv, LoadState PROVE AsyncInv'
<1>1. /\ pending_async_operations = 0 /\ UNCHANGED <<host_work, caller, saved, terminations>>
      /\ current_signal' = "None" /\ save_state_request_status' = "NONE"
  BY DEF LoadState, AreAsyncOperationsPending, rest
<1>2. host_work = {} /\ ts_wakeups = {} /\ caller = Nobody /\ \A t \in Threads : wakeup_callback[t] # "async"
  BY <1>1, QuietWhenNonePending
<1>3. FrontendTypes' /\ SavedSound'
  BY <1>1 DEF AsyncInv, FrontendTypes, SavedSound
<1>4. CASE saved = NoState
  <2>1. UNCHANGED <<status, wakeup_callback, requests, replies, wakeup_events, ts_wakeups, pending_async_operations>>
    BY <1>4 DEF LoadState, guest
  <2>2. Types' /\ OneWakeup'
    BY <1>1, <2>1 DEF AsyncInv, Types, OneWakeup
  <2>3. AllSettled' /\ NoneDead'
    BY <1>1, <2>1 DEF AsyncInv, AllSettled, Settled, NoneDead
  <2>4. Counted' = Counted
    BY <1>1, <2>1 DEF Counted
  <2> QED
    BY <1>1, <1>3, <2>1, <2>2, <2>3, <2>4 DEF AsyncInv
<1>5. CASE saved # NoState
  <2>1. /\ status' = saved.status /\ wakeup_callback' = saved.wakeup_callback
        /\ requests' = saved.requests /\ replies' = saved.replies /\ wakeup_events' = saved.wakeup_events
        /\ ts_wakeups' = {} /\ pending_async_operations' = 0
    BY <1>5 DEF LoadState
  <2>2. /\ SavedTypes(saved) /\ \A t \in Threads : SavedSettled(saved, t)
        /\ terminations = 0 => \A t \in Threads : saved.status[t] # "Dead"
    BY <1>5 DEF AsyncInv, SavedSound
  <2>3. Types'
    BY <1>1, <1>2, <2>1, <2>2 DEF AsyncInv, Types, SavedTypes
  <2>4. OneWakeup' /\ NoneDead'
    BY <1>1, <1>2, <2>1, <2>2 DEF OneWakeup, NoneDead
  <2>5. AllSettled'
    <3> SUFFICES ASSUME NEW t \in Threads PROVE Settled(t)'
      BY DEF AllSettled
    <3>1. SavedSettled(saved, t) /\ caller' = Nobody /\ t # Nobody
      BY <1>1, <1>2, <2>2, AsyncAssumption
    <3> QED
      BY <2>1, <2>2, <3>1 DEF Settled, SavedSettled, SavedTypes
  <2>6. Counted' = {}
    <3>1. \A t \in Threads : wakeup_callback'[t] # "async" /\ t # caller'
      BY <1>1, <1>2, <2>1, <2>2, AsyncAssumption DEF SavedTypes
    <3> QED
      BY <3>1 DEF Counted
  <2> QED
    BY <1>3, <2>1, <2>3, <2>4, <2>5, <2>6, FS_EmptySet DEF AsyncInv
<1> QED
  BY <1>4, <1>5

-----------------------------------------------------------------------------
(* The theorems *)

(* Nothing is under way in the beginning.                                                     *)
LEMMA InitKeeps == Init => AsyncInv
<1> SUFFICES ASSUME Init PROVE AsyncInv
  OBVIOUS
<1>1. Types /\ FrontendTypes /\ OneWakeup /\ AllSettled /\ NoneDead /\ SavedSound
  BY AsyncAssumption DEF Init, Types, FrontendTypes, OneWakeup, AllSettled, Settled, NoneDead, SavedSound
<1>2. Counted = {}
  BY AsyncAssumption DEF Init, Counted
<1> QED
  BY <1>1, <1>2, FS_EmptySet DEF AsyncInv, Init

(* Every step of the emulator thread, of a host thread and of the frontend keeps it.          *)
LEMMA AsyncStepKeeps == AsyncInv /\ [Next]_vars => AsyncInv'
<1> SUFFICES ASSUME AsyncInv, [Next]_vars PROVE AsyncInv'
  OBVIOUS
<1>1. ASSUME NEW t \in Threads,
             \/ AnswerAtOnce(t) \/ AnswerLater(t) \/ RunAsync(t) \/ SleepAsync(t) \/ RunSync(t)
             \/ HostDone(t) \/ FireForNobody(t) \/ ThreadWakeupCallback(t) \/ Stop(t)
      PROVE  AsyncInv'
  BY <1>1, AnswerAtOnceKeeps, AnswerLaterKeeps, RunAsyncKeeps, SleepAsyncKeeps, RunSyncKeeps,
     HostDoneKeeps, FireForNobodyKeeps, WakeupKeeps, StopKeeps
<1>2. CASE MoveEvents
  BY <1>2, MoveEventsKeeps
<1>3. CASE (\E s \in {"Save", "Load"} : SendSignal(s)) \/ FiveSecondsPass
  BY <1>3, SignalsKeep
<1>4. CASE RunLoop
  BY <1>4, SignalsKeep, SaveStateKeeps, LoadStateKeeps DEF RunLoop
<1>5. CASE UNCHANGED vars
  <2>1. FrontendTypes' /\ UNCHANGED <<guest, ts_wakeups, host_work, caller, pending_async_operations, saved, rest>>
    BY <1>5 DEF vars, frontend, saving, AsyncInv, FrontendTypes
  <2> QED
    BY <2>1, FrontendStep
<1> QED
  BY <1>1, <1>2, <1>3, <1>4, <1>5 DEF Next

(* The invariant holds in every state.                                                        *)
LEMMA AsyncInvariant == Spec => []AsyncInv
<1> QED
  BY InitKeeps, AsyncStepKeeps, PTL DEF Spec

(* A sleeping thread is in exactly one of the three places its wakeup passes.                 *)
LEMMA Awaited == AsyncInv => SleepersAreAwaited
<1> SUFFICES ASSUME AsyncInv, NEW t \in Threads, status[t] \in {"WaitHleEvent", "WaitIPC"}
             PROVE  Cardinality({q \in {"host", "ts", "event"} :
                      t \in (CASE q = "host" -> host_work [] q = "ts" -> ts_wakeups [] OTHER -> wakeup_events)}) = 1
  BY DEF SleepersAreAwaited
<1> DEFINE Places == {q \in {"host", "ts", "event"} :
                        t \in (CASE q = "host" -> host_work [] q = "ts" -> ts_wakeups [] OTHER -> wakeup_events)}
<1>1. /\ "host" \in Places <=> t \in host_work
      /\ "ts" \in Places <=> t \in ts_wakeups
      /\ "event" \in Places <=> t \in wakeup_events
  OBVIOUS
<1>2. Places \subseteq {"host", "ts", "event"}
  OBVIOUS
<1>3. /\ t \in host_work \/ t \in ts_wakeups \/ t \in wakeup_events
      /\ t \in host_work => t \notin ts_wakeups /\ t \notin wakeup_events
      /\ t \in ts_wakeups => t \notin wakeup_events
  BY DEF AsyncInv, AllSettled, Settled, OneWakeup
<1> HIDE DEF Places
<1>4. Places = {"host"} \/ Places = {"ts"} \/ Places = {"event"}
  BY <1>1, <1>2, <1>3
<1>5. Cardinality(Places) = 1
  BY <1>4, FS_Singleton
<1> QED
  BY <1>5 DEF Places

(* What is counted is what is under way, as long as no thread was terminated.                 *)
LEMMA CountIsExact == AsyncInv /\ terminations = 0 => PendingCounted /\ WakeupsFindSleepers
<1> SUFFICES ASSUME AsyncInv, terminations = 0 PROVE PendingCounted /\ WakeupsFindSleepers
  OBVIOUS
<1>1. ASSUME NEW t \in Threads
      PROVE  /\ status[t] = "Running" \/ status[t] = "WaitIPC" \/ status[t] = "WaitHleEvent"
             /\ wakeup_callback[t] = "async" => status[t] = "WaitHleEvent"
  <2>1. \/ status[t] = "Running" \/ status[t] = "WaitIPC" \/ status[t] = "WaitHleEvent"
    BY DEF AsyncInv, Types, NoneDead
  <2>2. Settled(t)
    BY DEF AsyncInv, AllSettled
  <2> QED
    BY <2>1, <2>2 DEF Settled
<1>2. Outstanding \cup ({caller} \ {Nobody}) = Counted
  BY <1>1, AsyncAssumption DEF Outstanding, Counted, AsyncInv, Types
<1>3. WakeupsFindSleepers
  <2> SUFFICES ASSUME caller = Nobody, NEW t \in wakeup_events \cup ts_wakeups \cup host_work
               PROVE  status[t] \in {"WaitHleEvent", "WaitIPC"}
    BY DEF WakeupsFindSleepers, EmulatorFree
  <2>1. t \in Threads /\ t # caller
    BY AsyncAssumption DEF AsyncInv, Types
  <2>2. Settled(t) /\ (t \in host_work \/ t \in ts_wakeups => wakeup_callback[t] = "async")
    BY <2>1 DEF AsyncInv, AllSettled, OneWakeup
  <2> QED
    BY <1>1, <2>1, <2>2 DEF Settled
<1> QED
  BY <1>2, <1>3 DEF PendingCounted, AsyncInv

(* Whatever requests run on host threads, and whenever states are saved and loaded or threads *)
(* terminated: every sleeping client will be woken once, a running one has one reply for each *)
(* request, and the count of operations is exact until a thread is terminated (RunAsync,      *)
(* AsyncWakeUpCallback).                                                                      *)
THEOREM RequestsAlwaysEndOnce == Spec => []RequestsEndOnce
<1>1. ASSUME AsyncInv PROVE RequestsEndOnce
  <2>1. pending_async_operations \in 0 .. Cardinality(Threads)
    <3>1. Counted \subseteq Threads /\ pending_async_operations = Cardinality(Counted)
      BY <1>1 DEF Counted, AsyncInv
    <3>2. Cardinality(Counted) \in Nat /\ Cardinality(Counted) <= Cardinality(Threads)
      BY <3>1, CountedFinite
    <3>3. Cardinality(Threads) \in Nat
      BY CountedFinite
    <3> QED
      BY <3>1, <3>2, <3>3
  <2>2. TypeOK
    BY <1>1, <2>1 DEF AsyncInv, Types, FrontendTypes, TypeOK
  <2>3. RepliedOnce
    BY <1>1 DEF AsyncInv, AllSettled, Settled, RepliedOnce
  <2> QED
    BY <1>1, <2>2, <2>3, Awaited, CountIsExact DEF RequestsEndOnce
<1> QED
  BY <1>1, AsyncInvariant, PTL

(* No save or load catches an operation half way: each thread that sleeps in a saved state    *)
(* has its event in it, no callback in it belongs to a host thread, and a load happens only   *)
(* while nothing is under way that could reach the guest afterwards (RunLoop).                *)
THEOREM SavesAlwaysStandAlone == Spec => SavesStandAlone
<1>1. ASSUME AsyncInv PROVE SavedStandsAlone
  <2> SUFFICES ASSUME saved # NoState, NEW t \in Threads
               PROVE  /\ saved.status[t] \in {"WaitHleEvent", "WaitIPC"} => t \in saved.wakeup_events
                      /\ saved.status[t] # "Dead" => saved.wakeup_callback[t] # "async"
    BY DEF SavedStandsAlone
  <2>1. SavedTypes(saved) /\ SavedSettled(saved, t)
    BY <1>1 DEF AsyncInv, SavedSound
  <2> QED
    BY <2>1 DEF SavedTypes, SavedSettled
<1>2. ASSUME AsyncInv, LoadState PROVE host_work = {} /\ ts_wakeups = {}
  BY <1>2, QuietWhenNonePending DEF LoadState, AreAsyncOperationsPending
<1>3. AsyncInv => [LoadState /\ saved # NoState => host_work = {} /\ ts_wakeups = {}]_vars
  BY <1>2
<1>4. Spec => []SavedStandsAlone
  BY <1>1, AsyncInvariant, PTL
<1>5. Spec => [][LoadState /\ saved # NoState => host_work = {} /\ ts_wakeups = {}]_vars
  BY <1>3, AsyncInvariant, PTL
<1> QED
  BY <1>4, <1>5 DEF SavesStandAlone

-----------------------------------------------------------------------------
(* The event queues of the timers                                                             *)

Sorted(q) == \A i, j \in DOMAIN q : i < j => q[i].time <= q[j].time

Queues == {q \in Seq(Record) : Sorted(q)}

(* The times of events are integers.                                                          *)
LEMMA TimesAreIntegers ==
  ASSUME NEW x \in Record
  PROVE  x.time \in Int /\ x.base \in Int /\ x.from \in {"own", "core", "host"}
BY DEF Record

(* What a queue is.                                                                           *)
LEMMA QueueFacts ==
  ASSUME NEW q \in Queues
  PROVE  /\ q \in Seq(Record) /\ Len(q) \in Nat /\ DOMAIN q = 1 .. Len(q)
         /\ \A i \in 1 .. Len(q) : q[i] \in Record /\ q[i].time \in Int
         /\ \A i, j \in 1 .. Len(q) : i < j => q[i].time <= q[j].time
<1>1. q \in Seq(Record) /\ Len(q) \in Nat /\ DOMAIN q = 1 .. Len(q) /\ Sorted(q)
  BY DEF Queues
<1>2. \A i \in 1 .. Len(q) : q[i] \in Record
  BY <1>1
<1>3. \A i \in 1 .. Len(q) : q[i].time \in Int
  BY <1>2, TimesAreIntegers
<1> QED
  BY <1>1, <1>2, <1>3 DEF Sorted

(* Insert keeps a queue in the order of time and adds the event to it.                        *)
LEMMA InsertFacts ==
  ASSUME NEW q \in Queues, NEW e \in Record
  PROVE  Insert(q, e) \in Queues /\ Range(Insert(q, e)) = Range(q) \cup {e}
<1> DEFINE later == {i \in DOMAIN q : q[i].time > e.time}
           p == IF later = {} THEN Len(q) + 1 ELSE Min(later)
           a == SubSeq(q, 1, p - 1)
           b == SubSeq(q, p, Len(q))
           r == a \o <<e>> \o b
<1>1. /\ q \in Seq(Record) /\ Len(q) \in Nat /\ DOMAIN q = 1 .. Len(q)
      /\ \A i \in 1 .. Len(q) : q[i] \in Record /\ q[i].time \in Int
      /\ \A i, j \in 1 .. Len(q) : i < j => q[i].time <= q[j].time
      /\ e.time \in Int
  BY QueueFacts, TimesAreIntegers
<1>2. /\ p \in 1 .. Len(q) + 1
      /\ \A i \in 1 .. Len(q) : (i < p => q[i].time <= e.time) /\ (i >= p => q[i].time > e.time)
  <2>1. CASE later = {}
    BY <1>1, <2>1
  <2>2. CASE later # {}
    <3>1. later \subseteq Nat
      BY <1>1
    <3>2. Min(later) \in later /\ \A y \in later : Min(later) <= y
      BY <2>2, <3>1, MinNat
    <3>3. PICK m : m = Min(later)
      OBVIOUS
    <3>4. m \in 1 .. Len(q) /\ q[m].time > e.time /\ \A y \in later : m <= y
      BY <1>1, <3>2, <3>3
    <3>5. \A i \in 1 .. Len(q) : i < m => q[i].time <= e.time
      BY <1>1, <3>4
    <3>6. \A i \in 1 .. Len(q) : i >= m => q[i].time > e.time
      <4> SUFFICES ASSUME NEW i \in 1 .. Len(q), i >= m PROVE q[i].time > e.time
        OBVIOUS
      <4>1. q[m].time <= q[i].time
        BY <1>1, <3>4
      <4>2. q[m].time \in Int /\ q[i].time \in Int
        BY <1>1, <3>4
      <4> QED
        BY <1>1, <3>4, <4>1, <4>2
    <3>7. p = m
      BY <2>2, <3>3
    <3> HIDE DEF p
    <3> QED
      BY <1>1, <3>4, <3>5, <3>6, <3>7
  <2> QED
    BY <2>1, <2>2
<1>3. Insert(q, e) = r
  BY DEF Insert, InsertAt
<1> HIDE DEF p
<1>4. a \in Seq(Record) /\ Len(a) = p - 1 /\ \A i \in 1 .. p - 1 : a[i] = q[i]
  BY <1>1, <1>2, SubSeqProperties
<1>5. /\ b \in Seq(Record) /\ Len(b) = Len(q) - p + 1
      /\ \A i \in 1 .. Len(q) - p + 1 : b[i] = q[p + i - 1]
  BY <1>1, <1>2, SubSeqProperties
<1>6. <<e>> \in Seq(Record) /\ Len(<<e>>) = 1 /\ <<e>>[1] = e
  OBVIOUS
<1> HIDE DEF a, b
<1>7. r \in Seq(Record) /\ Len(r) = Len(q) + 1
  BY <1>1, <1>2, <1>4, <1>5, <1>6
<1>8. \A i \in 1 .. Len(q) + 1 : r[i] = IF i < p THEN q[i] ELSE IF i = p THEN e ELSE q[i - 1]
  <2> SUFFICES ASSUME NEW i \in 1 .. Len(q) + 1
               PROVE  r[i] = IF i < p THEN q[i] ELSE IF i = p THEN e ELSE q[i - 1]
    OBVIOUS
  <2>0. a \o <<e>> \in Seq(Record) /\ Len(a \o <<e>>) = p
    BY <1>2, <1>4, <1>6
  <2>1. CASE i < p
    BY <1>1, <1>2, <1>4, <1>5, <1>6, <2>0, <2>1
  <2>2. CASE i = p
    BY <1>1, <1>2, <1>4, <1>5, <1>6, <2>0, <2>2
  <2>3. CASE i > p
    <3>1. i - p \in 1 .. Len(q) - p + 1 /\ p + (i - p) - 1 = i - 1
      BY <1>1, <1>2, <2>3
    <3>2. r[i] = b[i - p]
      BY <1>1, <1>2, <1>5, <2>0, <2>3
    <3>3. b[i - p] = q[i - 1] /\ ~(i < p) /\ i # p
      BY <1>1, <1>2, <1>5, <2>3, <3>1
    <3> QED
      BY <3>2, <3>3
  <2> HIDE DEF r
  <2>4. i < p \/ i = p \/ i > p
    BY <1>1, <1>2
  <2> QED
    BY <2>1, <2>2, <2>3, <2>4
<1> HIDE DEF r
<1>9. Sorted(r)
  <2> SUFFICES ASSUME NEW i \in 1 .. Len(q) + 1, NEW j \in 1 .. Len(q) + 1, i < j
               PROVE  r[i].time <= r[j].time
    BY <1>7 DEF Sorted
  <2>1. CASE j < p
    BY <1>1, <1>2, <1>8, <2>1
  <2>2. CASE j = p
    BY <1>1, <1>2, <1>8, <2>2
  <2>3. CASE j > p
    <3>1. r[j] = q[j - 1] /\ j - 1 \in 1 .. Len(q) /\ j - 1 >= p
      BY <1>1, <1>2, <1>8, <2>3
    <3>2. q[j - 1].time > e.time /\ q[j - 1].time \in Int
      BY <1>1, <1>2, <3>1
    <3>3. CASE i < p
      <4>1. r[i] = q[i] /\ q[i].time <= e.time /\ q[i].time \in Int
        BY <1>1, <1>2, <1>8, <3>3
      <4> QED
        BY <1>1, <3>1, <3>2, <4>1
    <3>4. CASE i = p
      BY <1>1, <1>8, <3>1, <3>2, <3>4
    <3>5. CASE i > p
      <4>1. r[i] = q[i - 1] /\ i - 1 \in 1 .. Len(q) /\ i - 1 < j - 1
        BY <1>1, <1>2, <1>8, <3>5
      <4> QED
        BY <1>1, <3>1, <4>1
    <3> QED
      BY <1>2, <3>3, <3>4, <3>5
  <2> QED
    BY <1>2, <2>1, <2>2, <2>3
<1>10. Range(r) = Range(q) \cup {e}
  <2>1. ASSUME NEW x \in Range(r) PROVE x \in Range(q) \cup {e}
    <3>1. PICK i \in 1 .. Len(q) + 1 : x = r[i]
      BY <1>7 DEF Range
    <3>2. CASE i < p
      <4>1. i \in 1 .. Len(q) /\ x = q[i]
        BY <1>1, <1>2, <1>8, <3>1, <3>2
      <4> QED
        BY <1>1, <4>1 DEF Range
    <3>3. CASE i = p
      BY <1>1, <1>2, <1>8, <3>1, <3>3
    <3>4. CASE i > p
      <4>1. i - 1 \in 1 .. Len(q) /\ x = q[i - 1]
        BY <1>1, <1>2, <1>8, <3>1, <3>4
      <4> QED
        BY <1>1, <4>1 DEF Range
    <3> QED
      BY <1>2, <3>2, <3>3, <3>4
  <2>2. ASSUME NEW i \in 1 .. Len(q) PROVE q[i] \in Range(r)
    <3>1. CASE i < p
      <4>1. i \in DOMAIN r /\ r[i] = q[i]
        BY <1>1, <1>2, <1>7, <1>8, <3>1
      <4> QED
        BY <4>1 DEF Range
    <3>2. CASE i >= p
      <4>1. r[i + 1] = q[i] /\ i + 1 \in 1 .. Len(q) + 1
        BY <1>1, <1>2, <1>8, <3>2
      <4> QED
        BY <1>7, <4>1 DEF Range
    <3> QED
      BY <1>2, <3>1, <3>2
  <2>3. e \in Range(r)
    BY <1>1, <1>2, <1>7, <1>8 DEF Range
  <2> QED
    BY <1>1, <2>1, <2>2, <2>3 DEF Range
<1> QED
  BY <1>3, <1>7, <1>9, <1>10 DEF Queues

(* The event behind others in a queue is not earlier than its head.                           *)
LEMMA HeadFirst ==
  ASSUME NEW q \in Queues, q # <<>>
  PROVE  Head(q) \in Range(q) /\ \A x \in Range(q) : Head(q).time <= x.time
<1>1. q \in Seq(Record) /\ Len(q) \in Nat \ {0} /\ DOMAIN q = 1 .. Len(q) /\ Head(q) = q[1]
  BY DEF Queues
<1>2. \A i \in 1 .. Len(q) : q[1].time <= q[i].time
  <2>1. \A i \in 2 .. Len(q) : q[1].time <= q[i].time
    BY <1>1, QueueFacts
  <2>2. q[1].time <= q[1].time
    BY <1>1, QueueFacts
  <2> QED
    BY <1>1, <2>1, <2>2
<1> QED
  BY <1>1, <1>2 DEF Range

(* Without its head a queue is a queue of the rest of its events.                             *)
LEMMA TailFacts ==
  ASSUME NEW q \in Queues, q # <<>>
  PROVE  Tail(q) \in Queues /\ Range(Tail(q)) \subseteq Range(q)
<1>1. q \in Seq(Record) /\ Len(q) \in Nat \ {0} /\ DOMAIN q = 1 .. Len(q)
  BY DEF Queues
<1>2. /\ Tail(q) \in Seq(Record) /\ Len(Tail(q)) = Len(q) - 1
      /\ \A i \in 1 .. Len(q) - 1 : Tail(q)[i] = q[i + 1]
  BY <1>1
<1>3. DOMAIN Tail(q) = 1 .. Len(q) - 1
  BY <1>2
<1>4. Sorted(Tail(q))
  <2> SUFFICES ASSUME NEW i \in 1 .. Len(q) - 1, NEW j \in 1 .. Len(q) - 1, i < j
               PROVE  Tail(q)[i].time <= Tail(q)[j].time
    BY <1>3 DEF Sorted
  <2>1. i + 1 \in DOMAIN q /\ j + 1 \in DOMAIN q /\ i + 1 < j + 1
    BY <1>1
  <2> QED
    BY <1>2, <2>1 DEF Queues, Sorted
<1>5. Range(Tail(q)) \subseteq Range(q)
  <2> SUFFICES ASSUME NEW i \in 1 .. Len(q) - 1 PROVE Tail(q)[i] \in Range(q)
    BY <1>3 DEF Range
  <2>1. i + 1 \in DOMAIN q
    BY <1>1
  <2> QED
    BY <1>2, <2>1 DEF Range
<1> QED
  BY <1>2, <1>4, <1>5 DEF Queues

(* What UnscheduleEvent leaves of a queue is a queue.                                         *)
LEMMA WithoutSorted ==
  ASSUME NEW q \in Queues, NEW gone
  PROVE  Without(q, gone) \in Queues /\ Range(Without(q, gone)) \subseteq Range(q)
<1> DEFINE k == CHOOSE k : k = [n \in 0 .. Len(q) |-> KeptStep(k, q, gone, n)]
           before(n) == {q[i] : i \in 1 .. n}
           S == {n \in 0 .. Len(q) : k[n] \in Queues /\ Range(k[n]) \subseteq before(n)}
<1>0. /\ q \in Seq(Record) /\ Len(q) \in Nat /\ DOMAIN q = 1 .. Len(q)
      /\ \A i \in 1 .. Len(q) : q[i] \in Record /\ q[i].time \in Int
      /\ \A i, j \in 1 .. Len(q) : i < j => q[i].time <= q[j].time
  BY QueueFacts
<1>1. Without(q, gone) = k[Len(q)]
  BY DEF Without, KeptStep
<1>2. k = [n \in 0 .. Len(q) |-> KeptStep(k, q, gone, n)]
  <2>1. \E f : f = [n \in 0 .. Len(q) |-> KeptStep(f, q, gone, n)]
    <3>1. q \in Seq(Record)
      BY <1>0
    <3> QED
      BY <3>1, KeptExists
  <2> QED
    BY <2>1
<1> HIDE DEF k
<1>3. \A n \in 0 .. Len(q) : k[n] = KeptStep(k, q, gone, n)
  BY <1>2
<1>4. 0 \in S
  <2>1. k[0] = <<>>
    BY <1>0, <1>3 DEF KeptStep
  <2>2. <<>> \in Queues /\ Range(<<>>) = {}
    BY DEF Queues, Sorted, Range
  <2> QED
    BY <1>0, <2>1, <2>2
<1>5. ASSUME NEW n \in 1 .. Len(q), n - 1 \in S PROVE n \in S
  <2>1. k[n] = IF q[n] \in gone THEN k[n - 1] ELSE Append(k[n - 1], q[n])
    BY <1>0, <1>3 DEF KeptStep
  <2>2. k[n - 1] \in Queues /\ Range(k[n - 1]) \subseteq before(n - 1)
    BY <1>5
  <2>3. before(n - 1) \subseteq before(n) /\ q[n] \in before(n)
    BY <1>0
  <2>4. CASE q[n] \in gone
    BY <1>0, <2>1, <2>2, <2>3, <2>4
  <2>5. CASE q[n] \notin gone
    <3> DEFINE l == k[n - 1]
    <3>1. l \in Queues /\ Range(l) \subseteq before(n - 1)
      BY <2>2
    <3>2. k[n] = Append(l, q[n])
      BY <2>1, <2>5
    <3> HIDE DEF l
    <3>3. /\ l \in Seq(Record) /\ Len(l) \in Nat /\ DOMAIN l = 1 .. Len(l)
          /\ \A i \in 1 .. Len(l) : l[i] \in Record /\ l[i].time \in Int
          /\ \A i, j \in 1 .. Len(l) : i < j => l[i].time <= l[j].time
      BY <3>1, QueueFacts
    <3>4. /\ k[n] \in Seq(Record) /\ Len(k[n]) = Len(l) + 1
          /\ \A i \in 1 .. Len(l) : k[n][i] = l[i]
          /\ k[n][Len(l) + 1] = q[n]
      BY <1>0, <3>2, <3>3
    <3>5. Range(k[n]) = Range(l) \cup {q[n]}
      BY <1>0, <3>2, <3>3, RangeAppend
    <3>6. \A i \in 1 .. Len(l) : l[i].time <= q[n].time
      <4> SUFFICES ASSUME NEW i \in 1 .. Len(l) PROVE l[i].time <= q[n].time
        OBVIOUS
      <4>1. l[i] \in before(n - 1)
        BY <3>1, <3>3 DEF Range
      <4>2. PICK j \in 1 .. n - 1 : l[i] = q[j]
        BY <4>1
      <4> QED
        BY <1>0, <4>2
    <3>7. Sorted(k[n])
      <4> SUFFICES ASSUME NEW i \in 1 .. Len(l) + 1, NEW j \in 1 .. Len(l) + 1, i < j
                   PROVE  k[n][i].time <= k[n][j].time
        BY <3>4 DEF Sorted
      <4>1. i \in 1 .. Len(l) /\ k[n][i] = l[i]
        BY <3>3, <3>4
      <4>2. CASE j = Len(l) + 1
        BY <3>4, <3>6, <4>1, <4>2
      <4>3. CASE j # Len(l) + 1
        <5>1. j \in 1 .. Len(l) /\ k[n][j] = l[j]
          BY <3>3, <3>4, <4>3
        <5> QED
          BY <3>3, <4>1, <5>1
      <4> QED
        BY <4>2, <4>3
    <3> QED
      BY <1>0, <2>3, <3>1, <3>4, <3>5, <3>7 DEF Queues
  <2> QED
    BY <2>4, <2>5
<1>6. Len(q) \in S
  <2> HIDE DEF S
  <2>1. \A n \in 0 .. Len(q) : n \in S
    BY <1>0, <1>4, <1>5, UpTo
  <2> QED
    BY <1>0, <2>1
<1> QED
  BY <1>0, <1>1, <1>6 DEF Range

MergeStep(m, q, t, n) == IF n = 0 THEN q ELSE Insert(m[n - 1], t[n])

(* The queues that MoveEvents builds on its way exist.                                        *)
LEMMA MergedExists ==
  ASSUME NEW q, NEW t, Len(t) \in Nat
  PROVE  \E m : m = [n \in 0 .. Len(t) |-> MergeStep(m, q, t, n)]
<1> DEFINE N == Len(t)
           Good(i) == \E m : m = [n \in 0 .. i |-> MergeStep(m, q, t, n)]
           S == {i \in 0 .. N : Good(i)}
<1> N \in Nat
  OBVIOUS
<1>1. Good(0)
  <2> DEFINE m == [n \in 0 .. 0 |-> q]
  <2>1. m = [n \in 0 .. 0 |-> MergeStep(m, q, t, n)]
    BY DEF MergeStep
  <2> HIDE DEF m
  <2> QED
    BY <2>1
<1>2. ASSUME NEW i \in 1 .. N, Good(i - 1) PROVE Good(i)
  <2>1. PICK m : m = [n \in 0 .. i - 1 |-> MergeStep(m, q, t, n)]
    BY <1>2
  <2> DEFINE e == MergeStep(m, q, t, i)
             f == [n \in 0 .. i |-> IF n = i THEN e ELSE m[n]]
  <2>2. ASSUME NEW n \in 0 .. i PROVE f[n] = MergeStep(f, q, t, n)
    <3>1. n # 0 => n - 1 \in 0 .. i /\ n - 1 # i
      OBVIOUS
    <3>2. n # 0 => f[n - 1] = m[n - 1]
      BY <3>1
    <3>3. MergeStep(f, q, t, n) = MergeStep(m, q, t, n)
      BY <3>2 DEF MergeStep
    <3>4. CASE n = i
      BY <3>3, <3>4
    <3>5. CASE n # i
      <4>1. n \in 0 .. i - 1
        BY <3>5
      <4> HIDE DEF e
      <4>2. m[n] = MergeStep(m, q, t, n)
        BY <2>1, <4>1
      <4> QED
        BY <3>3, <3>5, <4>2
    <3> QED
      BY <3>4, <3>5
  <2>3. f = [n \in 0 .. i |-> f[n]]
    OBVIOUS
  <2> HIDE DEF f
  <2>4. f = [n \in 0 .. i |-> MergeStep(f, q, t, n)]
    BY <2>2, <2>3
  <2> QED
    BY <2>4
<1> HIDE DEF Good
<1>3. 0 \in S /\ \A i \in 1 .. N : i - 1 \in S => i \in S
  BY <1>1, <1>2
<1>4. N \in S
  <2> HIDE DEF S
  <2>1. \A i \in 0 .. N : i \in S
    BY <1>3, UpTo
  <2> QED
    BY <2>1
<1> QED
  BY <1>4 DEF Good

(* MoveEvents leaves a queue of the events of both.                                           *)
LEMMA MergedFacts ==
  ASSUME NEW q \in Queues, NEW t \in Seq(Record)
  PROVE  Merged(q, t) \in Queues /\ Range(Merged(q, t)) = Range(q) \cup Range(t)
<1> DEFINE m == CHOOSE m : m = [n \in 0 .. Len(t) |-> MergeStep(m, q, t, n)]
           S == {n \in 0 .. Len(t) :
                   m[n] \in Queues /\ Range(m[n]) = Range(q) \cup {t[i] : i \in 1 .. n}}
<1>0. /\ q \in Queues /\ t \in Seq(Record) /\ Len(t) \in Nat /\ DOMAIN t = 1 .. Len(t)
      /\ \A i \in 1 .. Len(t) : t[i] \in Record
  OBVIOUS
<1>1. Merged(q, t) = m[Len(t)]
  BY DEF Merged, MergeStep
<1>2. m = [n \in 0 .. Len(t) |-> MergeStep(m, q, t, n)]
  BY <1>0, MergedExists
<1> HIDE DEF m
<1>3. \A n \in 0 .. Len(t) : m[n] = MergeStep(m, q, t, n)
  BY <1>2
<1>4. 0 \in S
  BY <1>0, <1>3 DEF MergeStep
<1>5. ASSUME NEW n \in 1 .. Len(t), n - 1 \in S PROVE n \in S
  <2>1. m[n] = Insert(m[n - 1], t[n])
    BY <1>0, <1>3 DEF MergeStep
  <2>2. m[n - 1] \in Queues /\ Range(m[n - 1]) = Range(q) \cup {t[i] : i \in 1 .. n - 1}
    BY <1>5
  <2>3. m[n] \in Queues /\ Range(m[n]) = Range(m[n - 1]) \cup {t[n]}
    BY <1>0, <2>1, <2>2, InsertFacts
  <2>4. {t[i] : i \in 1 .. n} = {t[i] : i \in 1 .. n - 1} \cup {t[n]}
    <3>1. 1 .. n = (1 .. n - 1) \cup {n}
      BY <1>0
    <3> QED
      BY <3>1
  <2> QED
    BY <1>0, <2>2, <2>3, <2>4
<1>6. Len(t) \in S
  <2> HIDE DEF S
  <2>1. \A n \in 0 .. Len(t) : n \in S
    BY <1>0, <1>4, <1>5, UpTo
  <2> QED
    BY <1>0, <2>1
<1>7. Range(t) = {t[i] : i \in 1 .. Len(t)}
  BY <1>0 DEF Range
<1> QED
  BY <1>1, <1>6, <1>7

-----------------------------------------------------------------------------
(* Timers: the inductive invariant of one core's slices                                       *)

Advancing == pc \in {"advance", "events", "callback", "advanced"}

Firing(c) == pc \in {"events", "callback"} /\ c = current_timer

\* After Advance, before the core gets a slice
Rested(c) ==
  /\ slice_length[c] = 0 /\ downcount[c] = 0 /\ ~is_timer_sane[c]
  /\ \A x \in Range(event_queue[c]) : executed_ticks[c] < x.time

QueuesOrdered ==
  \A c \in Cores : event_queue[c] \in Queues /\ \A x \in Range(ts_queue[c]) : x.from # "own"

LoopInPhase ==
  /\ pc \in {"lag", "sync", "slice"} => loop.phase = pc
  /\ Advancing => loop.phase \in {"lag", "sync"} /\ loop.core = current_timer
  /\ pc = "run" => loop.phase \in {"lag", "slice"} /\ loop.core = current_timer
  /\ pc = "slice" => loop.core \in Cores
  /\ pc = "top" => loop.phase = "lag"

TimersSane ==
  /\ pc \in {"events", "callback"} =>
       /\ slice_length[current_timer] = 0 /\ downcount[current_timer] = 0
       /\ is_timer_sane[current_timer]
  /\ pc = "run" => ~is_timer_sane[current_timer]
  /\ loop.phase = "lag" /\ (pc = "lag" \/ Advancing) /\ loop.max_delay > 0 =>
       loop.lagging < loop.core /\ ~is_timer_sane[loop.lagging]

AllAdvanced ==
  /\ pc = "advanced" => Rested(current_timer)
  /\ loop.phase = "sync" => \A c \in Cores : c < loop.core => Rested(c)
  /\ pc = "slice" => \A c \in Cores : c >= loop.core => Rested(c)
  /\ pc = "run" /\ loop.phase = "slice" => \A c \in Cores : c > loop.core => Rested(c)

SlicesInv ==
  /\ \A c \in Cores : - Overshoot <= downcount[c] /\ downcount[c] <= slice_length[c]
  /\ loop.max_slice > 0
  /\ Advancing /\ loop.phase = "lag" => loop.start > 0

\* Own events are never missed; without save states no event of the event queue is
QueueAhead ==
  \A c \in Cores : \A x \in Range(event_queue[c]) :
    /\ ~ Firing(c) /\ (x.from = "own" \/ ~ SaveStates) => executed_ticks[c] + slice_length[c] <= x.time
    /\ x.from = "own" => Clock(c) <= x.time + Overshoot

TimerInv ==
  /\ TimingTypeOK /\ QueuesOrdered /\ LoopInPhase /\ TimersSane
  /\ AllAdvanced /\ SlicesInv /\ QueueAhead

(* Of integers given for every core there is a least and a greatest.                          *)
LEMMA LeastOfCores ==
  ASSUME TimingAssumption, NEW f, \A c \in Cores : f[c] \in Int
  PROVE  \E m \in Cores : \A c \in Cores : f[m] <= f[c]
<1> DEFINE S == {n \in 0 .. NumCores - 1 : \E m \in 0 .. n : \A c \in 0 .. n : f[m] <= f[c]}
<1>0. NumCores \in Nat \ {0} /\ Cores = 0 .. NumCores - 1
  BY DEF TimingAssumption, Cores
<1>1. 0 \in S
  <2>1. f[0] \in Int /\ 0 .. 0 = {0}
    BY <1>0
  <2> QED
    BY <1>0, <2>1
<1>2. ASSUME NEW n \in 1 .. NumCores - 1, n - 1 \in S PROVE n \in S
  <2>1. PICK m \in 0 .. n - 1 : \A c \in 0 .. n - 1 : f[m] <= f[c]
    BY <1>2
  <2>2. f[m] \in Int /\ f[n] \in Int /\ \A c \in 0 .. n - 1 : f[c] \in Int
    BY <1>0
  <2>3. \A c \in 0 .. n : c \in 0 .. n - 1 \/ c = n
    OBVIOUS
  <2>4. CASE f[m] <= f[n]
    <3>1. \A c \in 0 .. n : f[m] <= f[c]
      BY <2>1, <2>3, <2>4
    <3>2. m \in 0 .. n
      OBVIOUS
    <3>3. \E k \in 0 .. n : \A c \in 0 .. n : f[k] <= f[c]
      BY <3>1, <3>2
    <3> QED
      BY <1>0, <3>3
  <2>5. CASE f[n] <= f[m]
    <3>1. \A c \in 0 .. n : f[n] <= f[c]
      BY <2>1, <2>2, <2>3, <2>5
    <3> QED
      BY <1>0, <3>1
  <2> QED
    BY <2>2, <2>4, <2>5
<1>3. NumCores - 1 \in S
  <2> HIDE DEF S
  <2>1. NumCores - 1 \in Nat
    BY <1>0
  <2>2. \A n \in 0 .. NumCores - 1 : n \in S
    BY <1>1, <1>2, <2>1, UpTo
  <2> QED
    BY <2>1, <2>2
<1> QED
  BY <1>0, <1>3

(* GetGlobalTicks is the time of a core that no core is ahead of, and the start of an         *)
(* iteration takes all times relative to a core that is not ahead of any.                     *)
LEMMA GlobalTicks ==
  ASSUME TimingAssumption, TimingTypeOK
  PROVE  /\ \A c \in Cores : GetTicks(c) \in Int
         /\ GetGlobalTicks \in Int
         /\ \A c \in Cores : GetTicks(c) <= GetGlobalTicks
         /\ \E m \in Cores : GetTicks(m) = GetGlobalTicks
         /\ Min({executed_ticks[c] : c \in Cores}) \in Int
<1>1. \A c \in Cores : GetTicks(c) \in Int /\ executed_ticks[c] \in Int
  <2> SUFFICES ASSUME NEW c \in Cores PROVE GetTicks(c) \in Int /\ executed_ticks[c] \in Int
    OBVIOUS
  <2>1. executed_ticks[c] \in Int /\ slice_length[c] \in Int /\ downcount[c] \in Int
    BY DEF TimingTypeOK
  <2> QED
    BY <2>1 DEF GetTicks
<1>2. \E m \in Cores : \A c \in Cores : GetTicks(c) <= GetTicks(m)
  <2> DEFINE f == [c \in Cores |-> - GetTicks(c)]
  <2>1. \A c \in Cores : f[c] \in Int
    BY <1>1
  <2> HIDE DEF f
  <2>2. PICK m \in Cores : \A c \in Cores : f[m] <= f[c]
    BY <2>1, LeastOfCores
  <2>3. \A c \in Cores : GetTicks(c) <= GetTicks(m)
    <3> SUFFICES ASSUME NEW c \in Cores PROVE GetTicks(c) <= GetTicks(m)
      OBVIOUS
    <3>1. f[c] = - GetTicks(c) /\ f[m] = - GetTicks(m) /\ f[m] <= f[c]
      BY <2>2 DEF f
    <3> QED
      BY <1>1, <3>1
  <2> QED
    BY <2>3
<1>3. /\ GetGlobalTicks \in {GetTicks(c) : c \in Cores}
      /\ \A y \in {GetTicks(c) : c \in Cores} : GetGlobalTicks >= y
  <2> DEFINE S == {GetTicks(c) : c \in Cores}
  <2>1. \E x \in S : \A y \in S : x >= y
    BY <1>1, <1>2
  <2>2. GetGlobalTicks = Max(S)
    BY DEF GetGlobalTicks
  <2> HIDE DEF S
  <2>3. Max(S) \in S /\ \A y \in S : Max(S) >= y
    BY <2>1 DEF Max
  <2> QED
    BY <2>2, <2>3 DEF S
<1>4. Min({executed_ticks[c] : c \in Cores}) \in Int
  <2> DEFINE S == {executed_ticks[c] : c \in Cores}
  <2>0. PICK m \in Cores : \A c \in Cores : executed_ticks[m] <= executed_ticks[c]
    BY <1>1, LeastOfCores
  <2>1. \E x \in S : \A y \in S : x <= y
    BY <2>0
  <2>2. S \subseteq Int
    BY <1>1
  <2> HIDE DEF S
  <2>3. Min(S) \in S
    BY <2>1 DEF Min
  <2> QED
    BY <2>2, <2>3 DEF S
<1> QED
  BY <1>1, <1>3, <1>4

(* A queue stays a queue when all times are taken relative to another.                        *)
LEMMA ShiftFacts ==
  ASSUME NEW base \in Int, NEW q, NEW c \in Cores
  PROVE  /\ q[c] \in Seq(Record) =>
              /\ ShiftAll(q, base)[c] \in Seq(Record)
              /\ \A y \in Range(ShiftAll(q, base)[c]) : \E x \in Range(q[c]) :
                   /\ x \in Record
                   /\ y.time = x.time - base /\ y.base = x.base - base /\ y.from = x.from
         /\ q[c] \in Queues => ShiftAll(q, base)[c] \in Queues
<1> DEFINE r == ShiftAll(q, base)[c]
<1>1. r = [i \in DOMAIN q[c] |-> [q[c][i] EXCEPT !.time = @ - base, !.base = @ - base]]
  BY DEF ShiftAll
<1> HIDE DEF r
<1>2. ASSUME q[c] \in Seq(Record)
      PROVE  /\ r \in Seq(Record) /\ Len(r) = Len(q[c])
             /\ DOMAIN r = 1 .. Len(q[c]) /\ DOMAIN q[c] = 1 .. Len(q[c]) /\ Len(q[c]) \in Nat
             /\ \A i \in DOMAIN q[c] :
                  /\ q[c][i] \in Record /\ r[i].time = q[c][i].time - base
                  /\ r[i].base = q[c][i].base - base /\ r[i].from = q[c][i].from
  <2>1. DOMAIN q[c] = 1 .. Len(q[c]) /\ Len(q[c]) \in Nat /\ \A i \in DOMAIN q[c] : q[c][i] \in Record
    BY <1>2
  <2>2. ASSUME NEW i \in DOMAIN q[c]
        PROVE  /\ r[i] \in Record /\ r[i].time = q[c][i].time - base
               /\ r[i].base = q[c][i].base - base /\ r[i].from = q[c][i].from
    <3> DEFINE x == q[c][i]
               y == [x EXCEPT !.time = @ - base, !.base = @ - base]
    <3>1. x \in Record
      BY <2>1, <2>2
    <3>2. r[i] = y
      BY <1>1, <2>2
    <3> HIDE DEF x
    <3>a. x.time - base \in Int /\ x.base - base \in Int
      BY <3>1, TimesAreIntegers
    <3>b. y \in Record
      BY <3>1, <3>a DEF Record
    <3>c. y.time = x.time - base /\ y.base = x.base - base /\ y.from = x.from
      BY <3>1 DEF Record
    <3>3. y \in Record /\ y.time = x.time - base /\ y.base = x.base - base /\ y.from = x.from
      BY <3>b, <3>c
    <3> QED
      BY <3>2, <3>3 DEF x
  <2>3. r \in Seq(Record) /\ DOMAIN r = 1 .. Len(q[c])
    <3>1. r \in [1 .. Len(q[c]) -> Record]
      BY <1>1, <2>1, <2>2
    <3> QED
      BY <2>1, <3>1
  <2>4. Len(r) = Len(q[c])
    BY <2>1, <2>3
  <2> QED
    BY <2>1, <2>2, <2>3, <2>4
<1>3. ASSUME q[c] \in Seq(Record), NEW y \in Range(r)
      PROVE  \E x \in Range(q[c]) :
               /\ x \in Record
               /\ y.time = x.time - base /\ y.base = x.base - base /\ y.from = x.from
  <2>1. PICK i \in DOMAIN q[c] : y = r[i]
    BY <1>2, <1>3 DEF Range
  <2>2. q[c][i] \in Range(q[c])
    BY <2>1 DEF Range
  <2> QED
    BY <1>2, <1>3, <2>1, <2>2
<1>4. ASSUME q[c] \in Queues PROVE r \in Queues
  <2>1. q[c] \in Seq(Record) /\ \A i, j \in DOMAIN q[c] : i < j => q[c][i].time <= q[c][j].time
    BY <1>4 DEF Queues, Sorted
  <2>2. \A i \in DOMAIN q[c] : q[c][i].time \in Int
    BY <1>2, <2>1, TimesAreIntegers
  <2>3. Sorted(r)
    <3> SUFFICES ASSUME NEW i \in DOMAIN q[c], NEW j \in DOMAIN q[c], i < j
                 PROVE  r[i].time <= r[j].time
      BY <1>2, <2>1 DEF Sorted
    <3>1. r[i].time = q[c][i].time - base /\ r[j].time = q[c][j].time - base
      BY <1>2, <2>1
    <3> QED
      BY <2>1, <2>2, <3>1
  <2> QED
    BY <1>2, <2>1, <2>3 DEF Queues
<1> QED
  BY <1>2, <1>3, <1>4 DEF r

Loops == [phase : {"lag", "sync", "slice"}, core : 0 .. NumCores, global : Int,
          max_delay : Int, lagging : Cores, max_slice : Int, start : Int]

(* What the types of the constants and of the state say of their parts.                       *)
LEMMA Typed ==
  ASSUME TimingAssumption, TimingTypeOK
  PROVE  /\ NumCores \in Nat \ {0} /\ MaxSlice \in Nat \ {0} /\ MinDelay \in Nat
         /\ Overshoot \in Nat /\ Reach \in Nat /\ MinDelay <= MaxSlice
         /\ \A c \in Cores :
              /\ c \in Nat /\ c < NumCores
              /\ executed_ticks[c] \in Int /\ slice_length[c] \in Int /\ downcount[c] \in Int
              /\ is_timer_sane[c] \in BOOLEAN
              /\ event_queue[c] \in Seq(Record) /\ ts_queue[c] \in Seq(Record)
              /\ GetTicks(c) \in Int
         /\ 0 \in Cores /\ current_timer \in Cores /\ loop \in Loops
         /\ loop.phase \in {"lag", "sync", "slice"}
         /\ loop.core \in Nat /\ loop.core <= NumCores /\ loop.lagging \in Cores
         /\ loop.global \in Int /\ loop.max_delay \in Int /\ loop.max_slice \in Int
         /\ loop.start \in Int
         /\ Locals \in Loops /\ Locals.phase = "lag" /\ Locals.core = 0 /\ Locals.max_delay = 0
         /\ Locals.max_slice = MaxSlice /\ Locals.lagging = 0
<1>1. /\ NumCores \in Nat \ {0} /\ MaxSlice \in Nat \ {0} /\ MinDelay \in Nat /\ Overshoot \in Nat
      /\ MinDelay <= MaxSlice
  BY DEF TimingAssumption
<1>2. \A c \in Cores : c \in Nat /\ c < NumCores
  BY <1>1 DEF Cores
<1>3. 0 \in Cores
  BY <1>1 DEF Cores
<1>4. NumCores * Overshoot \in Nat
  BY <1>1
<1>5. Reach \in Nat
  BY <1>1, <1>4 DEF Reach
<1>6. ASSUME NEW c \in Cores
      PROVE  /\ executed_ticks[c] \in Int /\ slice_length[c] \in Int /\ downcount[c] \in Int
             /\ is_timer_sane[c] \in BOOLEAN
             /\ event_queue[c] \in Seq(Record) /\ ts_queue[c] \in Seq(Record)
  BY <1>6 DEF TimingTypeOK
<1>7. \A c \in Cores : GetTicks(c) \in Int
  BY GlobalTicks
<1>8. loop \in Loops /\ current_timer \in Cores
  BY DEF TimingTypeOK, Loops
<1>9. /\ loop.phase \in {"lag", "sync", "slice"}
      /\ loop.core \in Nat /\ loop.core <= NumCores /\ loop.lagging \in Cores
      /\ loop.global \in Int /\ loop.max_delay \in Int /\ loop.max_slice \in Int
      /\ loop.start \in Int
  BY <1>1, <1>8 DEF Loops
<1>10. /\ Locals \in Loops /\ Locals.phase = "lag" /\ Locals.core = 0 /\ Locals.max_delay = 0
       /\ Locals.max_slice = MaxSlice /\ Locals.lagging = 0
  BY <1>1, <1>3 DEF Locals, Loops
<1> QED
  BY <1>1, <1>2, <1>3, <1>5, <1>6, <1>7, <1>8, <1>9, <1>10

(* What Typed says of the constants and the loop only.                                        *)
LEMMA LoopTyped ==
  ASSUME TimingAssumption, TimingTypeOK
  PROVE  /\ NumCores \in Nat /\ MaxSlice \in Nat /\ MaxSlice > 0 /\ MinDelay \in Nat
         /\ loop \in Loops /\ current_timer \in Cores /\ loop.lagging \in Cores
         /\ loop.core \in Nat /\ loop.core <= NumCores
         /\ loop.global \in Int /\ loop.max_delay \in Int /\ loop.start \in Int
         /\ loop.max_delay > MinDelay => loop.max_delay > 0
BY Typed

(* The type of the state, but for what an action does not touch.                              *)
LEMMA TypesKept ==
  ASSUME TimingTypeOK,
         executed_ticks' \in [Cores -> Int] /\ slice_length' \in [Cores -> Int],
         downcount' \in [Cores -> Int] /\ is_timer_sane' \in [Cores -> BOOLEAN],
         event_queue' \in [Cores -> Seq(Record)] /\ ts_queue' \in [Cores -> Seq(Record)],
         current_timer' \in Cores, loop' \in Loops, UNCHANGED host,
         pc' \in {"top", "lag", "sync", "slice", "advance", "events", "callback", "advanced", "run"}
  PROVE  TimingTypeOK'
BY DEF TimingTypeOK, Loops, Cores

(* The lesser of two integers.                                                                *)
LEMMA MinOfTwo ==
  ASSUME NEW a \in Int, NEW b \in Int
  PROVE  Min({a, b}) \in {a, b} /\ Min({a, b}) <= a /\ Min({a, b}) <= b
<1> DEFINE S == {a, b}
<1>1. \E x \in S : \A y \in S : x <= y
  BY a <= b \/ b <= a
<1>2. Min(S) \in S /\ \A y \in S : Min(S) <= y
  <2> HIDE DEF S
  <2> QED
    BY <1>1 DEF Min
<1> QED
  BY <1>2

(* The next event of a core that has advanced lies in the future, GetMaxSliceLength; a slice  *)
(* is neither longer than that nor than what it is to be at most.                             *)
LEMMA NextEventAhead ==
  ASSUME TimingAssumption, TimingTypeOK, QueuesOrdered, NEW c \in Cores, Rested(c)
  PROVE  /\ GetMaxSliceLength(c) \in Int /\ GetMaxSliceLength(c) > 0
         /\ \A x \in Range(event_queue[c]) : executed_ticks[c] + GetMaxSliceLength(c) <= x.time
<1>1. event_queue[c] \in Queues /\ executed_ticks[c] \in Int /\ MaxSlice \in Nat \ {0}
  BY Typed DEF QueuesOrdered
<1>2. CASE event_queue[c] = <<>>
  <2>1. Range(event_queue[c]) = {}
    BY <1>2 DEF Range
  <2> QED
    BY <1>1, <1>2, <2>1 DEF GetMaxSliceLength
<1>3. CASE event_queue[c] # <<>>
  <2>1. /\ Head(event_queue[c]) \in Range(event_queue[c])
        /\ \A x \in Range(event_queue[c]) : Head(event_queue[c]).time <= x.time
    BY <1>1, <1>3, HeadFirst
  <2>2. Head(event_queue[c]) \in Record
    BY <1>1, <1>3 DEF Queues
  <2>3. Head(event_queue[c]).time \in Int
    BY <2>2, TimesAreIntegers
  <2>4. executed_ticks[c] < Head(event_queue[c]).time
    BY <2>1 DEF Rested
  <2>5. GetMaxSliceLength(c) = Head(event_queue[c]).time - executed_ticks[c]
    BY <1>3 DEF GetMaxSliceLength
  <2>6. executed_ticks[c] + GetMaxSliceLength(c) = Head(event_queue[c]).time
    BY <1>1, <2>3, <2>5
  <2> QED
    BY <1>1, <2>1, <2>3, <2>4, <2>5, <2>6
<1> QED
  BY <1>2, <1>3

(* A core that is not behind is passed over, another one starts to advance.                   *)
LEMMA LagNextKeeps ==
  ASSUME TimingAssumption, TimerInv, LagNext
  PROVE  TimerInv'
<1> USE DEF TimerInv
<1>0. /\ TimingTypeOK /\ UNCHANGED <<executed_ticks, slice_length, downcount, is_timer_sane>>
      /\ UNCHANGED <<event_queue, ts_queue, host>> /\ pc = "lag" /\ loop.core \in Cores
      /\ loop.phase = "lag"
  BY Typed DEF LagNext, clock, events, LoopInPhase, Cores
<1>1. CASE GetTicks(loop.core) < loop.global
  <2>1. /\ current_timer' = loop.core /\ pc' = "advance" /\ loop' \in Loops
        /\ loop'.phase = "lag" /\ loop'.core = loop.core /\ loop'.max_delay = loop.max_delay
        /\ loop'.lagging = loop.lagging /\ loop'.max_slice = loop.max_slice /\ loop'.start > 0
    <3>1. loop' = [loop EXCEPT !.start = loop.global - GetTicks(loop.core)]
      BY <1>1 DEF LagNext
    <3>2. loop.global - GetTicks(loop.core) \in Int /\ loop.global - GetTicks(loop.core) > 0
      <4>1. loop.global \in Int
        BY <1>0, LoopTyped
      <4>2. GetTicks(loop.core) \in Int
        BY <1>0, GlobalTicks
      <4> QED
        BY <1>1, <4>1, <4>2
    <3>3. loop \in Loops
      BY Typed
    <3> QED
      BY <1>0, <1>1, <3>1, <3>2, <3>3 DEF LagNext, Begin, Loops
  <2>2. TimingTypeOK'
    BY <1>0, <2>1, TypesKept DEF TimingTypeOK
  <2>3. QueuesOrdered'
    BY <1>0 DEF QueuesOrdered
  <2>4. LoopInPhase' /\ TimersSane' /\ SlicesInv' /\ AllAdvanced'
    BY <1>0, <2>1, Typed DEF LoopInPhase, TimersSane, SlicesInv, AllAdvanced, Advancing, Rested
  <2>5. QueueAhead'
    BY <1>0, <2>1 DEF QueueAhead, Firing, Clock
  <2> QED
    BY <2>2, <2>3, <2>4, <2>5
<1>2. CASE ~(GetTicks(loop.core) < loop.global)
  <2>1. /\ current_timer' = current_timer /\ pc' = "lag" /\ loop' \in Loops
        /\ loop'.phase = "lag" /\ loop'.core = loop.core + 1 /\ loop'.max_delay = loop.max_delay
        /\ loop'.lagging = loop.lagging /\ loop'.max_slice = loop.max_slice
    <3>1. loop' = [loop EXCEPT !.core = @ + 1]
      BY <1>2 DEF LagNext
    <3>a. loop.core \in Nat /\ loop.core < NumCores /\ NumCores \in Nat
      BY <1>0, Typed
    <3>2. loop.core + 1 \in 0 .. NumCores
      BY <3>a
    <3>3. loop \in Loops
      BY Typed
    <3> QED
      BY <1>0, <1>2, <3>1, <3>2, <3>3 DEF LagNext, Loops
  <2>2. TimingTypeOK'
    BY <1>0, <2>1, TypesKept DEF TimingTypeOK
  <2>3. QueuesOrdered'
    BY <1>0 DEF QueuesOrdered
  <2>4. LoopInPhase' /\ SlicesInv' /\ AllAdvanced'
    BY <1>0, <2>1, Typed DEF LoopInPhase, SlicesInv, AllAdvanced, Advancing, Rested
  <2>6. TimersSane'
    <3>1. loop.lagging \in Nat /\ loop.core \in Nat
      BY <1>0, Typed
    <3> QED
      BY <1>0, <2>1, <3>1 DEF TimersSane, Advancing
  <2>5. QueueAhead'
    BY <1>0, <2>1 DEF QueueAhead, Firing, Clock
  <2> QED
    BY <2>2, <2>3, <2>4, <2>5, <2>6
<1> QED
  BY <1>1, <1>2

(* The core furthest behind runs, or all cores synchronise.                                   *)
LEMMA LagEndsKeeps ==
  ASSUME TimingAssumption, TimerInv, LagEnds
  PROVE  TimerInv'
<1> USE DEF TimerInv
<1>0. /\ TimingTypeOK /\ UNCHANGED <<executed_ticks, slice_length, downcount, is_timer_sane>>
      /\ UNCHANGED <<event_queue, ts_queue, host>> /\ pc = "lag" /\ loop.core = NumCores
      /\ loop.phase = "lag"
  BY DEF LagEnds, clock, events, LoopInPhase
<1>1. CASE loop.max_delay > MinDelay
  <2>1. /\ current_timer' = loop.lagging /\ pc' = "run" /\ loop' \in Loops
        /\ loop'.phase = "lag" /\ loop'.core = loop.lagging /\ loop'.max_slice = MaxSlice
    <3>1. loop' = [Locals EXCEPT !.core = loop.lagging, !.start = GetTicks(loop.lagging)]
      BY <1>1 DEF LagEnds
    <3>2. loop.lagging \in 0 .. NumCores /\ GetTicks(loop.lagging) \in Int
      BY <1>0, Typed
    <3>3. Locals \in Loops /\ Locals.phase = "lag" /\ Locals.max_slice = MaxSlice
      BY <1>0, Typed
    <3> QED
      BY <1>0, <1>1, <3>1, <3>2, <3>3 DEF LagEnds, Loops
  <2>2. TimingTypeOK'
    BY <1>0, <2>1, Typed, TypesKept DEF TimingTypeOK
  <2>3. QueuesOrdered'
    BY <1>0 DEF QueuesOrdered
  <2>4. LoopInPhase' /\ TimersSane' /\ SlicesInv' /\ AllAdvanced'
    <3>1. /\ loop.lagging \in Cores /\ loop.lagging < loop.core /\ ~is_timer_sane[loop.lagging]
          /\ loop.max_delay > 0
      <4>1. loop.max_delay > 0 /\ loop.lagging \in Cores
        BY <1>0, <1>1, LoopTyped
      <4> QED
        BY <1>0, <4>1 DEF TimersSane
    <3>2. LoopInPhase' /\ TimersSane'
      BY <1>0, <2>1, <3>1 DEF LoopInPhase, TimersSane, Advancing
    <3>3. SlicesInv'
      <4>1. MaxSlice > 0
        BY <1>0, LoopTyped
      <4> QED
        BY <1>0, <2>1, <4>1 DEF SlicesInv, Advancing
    <3>4. AllAdvanced'
      BY <1>0, <2>1 DEF AllAdvanced, Rested
    <3> QED
      BY <3>2, <3>3, <3>4
  <2>5. QueueAhead'
    BY <1>0, <2>1 DEF QueueAhead, Firing, Clock
  <2> QED
    BY <2>2, <2>3, <2>4, <2>5
<1>2. CASE ~(loop.max_delay > MinDelay)
  <2>1. /\ current_timer' = current_timer /\ pc' = "sync" /\ loop' \in Loops
        /\ loop'.phase = "sync" /\ loop'.core = 0 /\ loop'.max_slice = MaxSlice
    <3>1. loop' = [Locals EXCEPT !.phase = "sync"]
      BY <1>2 DEF LagEnds
    <3>2. Locals \in Loops /\ Locals.core = 0 /\ Locals.max_slice = MaxSlice
      BY <1>0, Typed
    <3> QED
      BY <1>0, <1>2, <3>1, <3>2 DEF LagEnds, Loops
  <2>2. TimingTypeOK'
    BY <1>0, <2>1, TypesKept DEF TimingTypeOK
  <2>3. QueuesOrdered'
    BY <1>0 DEF QueuesOrdered
  <2>4. LoopInPhase' /\ TimersSane' /\ SlicesInv' /\ AllAdvanced'
    <3>1. LoopInPhase' /\ TimersSane'
      BY <1>0, <2>1 DEF LoopInPhase, TimersSane, Advancing
    <3>2. SlicesInv'
      <4>1. MaxSlice > 0
        BY <1>0, LoopTyped
      <4> QED
        BY <1>0, <2>1, <4>1 DEF SlicesInv, Advancing
    <3>3. AllAdvanced'
      <4>1. \A c \in Cores : ~ (c < 0)
        BY DEF Cores
      <4> QED
        BY <1>0, <2>1, <4>1 DEF AllAdvanced, Rested
    <3> QED
      BY <3>1, <3>2, <3>3
  <2>5. QueueAhead'
    BY <1>0, <2>1 DEF QueueAhead, Firing, Clock
  <2> QED
    BY <2>2, <2>3, <2>4, <2>5
<1> QED
  BY <1>1, <1>2

(* The next core advances, or the slices start.                                               *)
LEMMA SyncNextKeeps ==
  ASSUME TimingAssumption, TimerInv, SyncNext
  PROVE  TimerInv'
<1> USE DEF TimerInv
<1>0. /\ TimingTypeOK /\ UNCHANGED <<executed_ticks, slice_length, downcount, is_timer_sane>>
      /\ UNCHANGED <<event_queue, ts_queue, host>> /\ pc = "sync" /\ loop.phase = "sync"
  BY DEF SyncNext, clock, events, LoopInPhase
<1>1. CASE loop.core < NumCores
  <2>1. current_timer' = loop.core /\ pc' = "advance" /\ loop' = loop /\ loop.core \in Cores
    BY <1>0, <1>1, Typed DEF SyncNext, Begin, Cores
  <2>2. TimingTypeOK'
    BY <1>0, <2>1, Typed, TypesKept DEF TimingTypeOK
  <2>3. QueuesOrdered'
    BY <1>0 DEF QueuesOrdered
  <2>4. LoopInPhase' /\ TimersSane' /\ SlicesInv' /\ AllAdvanced'
    BY <1>0, <2>1, Typed DEF LoopInPhase, TimersSane, SlicesInv, AllAdvanced, Advancing, Rested
  <2>5. QueueAhead'
    BY <1>0, <2>1 DEF QueueAhead, Firing, Clock
  <2> QED
    BY <2>2, <2>3, <2>4, <2>5
<1>2. CASE ~(loop.core < NumCores)
  <2>1. /\ current_timer' = current_timer /\ pc' = "slice" /\ loop' \in Loops
        /\ loop'.phase = "slice" /\ loop'.core = 0 /\ loop'.max_slice = loop.max_slice
    <3>1. loop' = [loop EXCEPT !.phase = "slice", !.core = 0]
      BY <1>2 DEF SyncNext
    <3>2. loop \in Loops /\ 0 \in 0 .. NumCores
      BY <1>0, Typed
    <3> QED
      BY <1>0, <1>2, <3>1, <3>2 DEF SyncNext, Loops
  <2>2. TimingTypeOK'
    BY <1>0, <2>1, TypesKept DEF TimingTypeOK
  <2>3. QueuesOrdered'
    BY <1>0 DEF QueuesOrdered
  <2>4. LoopInPhase' /\ TimersSane' /\ SlicesInv'
    BY <1>0, <2>1, Typed DEF LoopInPhase, TimersSane, SlicesInv, Advancing
  <2>5. AllAdvanced'
    <3>1. \A c \in Cores : c < loop.core
      <4>1. NumCores \in Nat /\ loop.core \in Nat
        BY <1>0, LoopTyped
      <4> QED
        BY <1>2, <4>1 DEF Cores
    <3>2. \A c \in Cores : Rested(c)
      BY <1>0, <3>1 DEF AllAdvanced
    <3> QED
      BY <1>0, <2>1, <3>2 DEF AllAdvanced, Rested
  <2>6. QueueAhead'
    BY <1>0, <2>1 DEF QueueAhead, Firing, Clock
  <2> QED
    BY <2>2, <2>3, <2>4, <2>5, <2>6
<1> QED
  BY <1>1, <1>2

(* The next event of a core, which lies in the future, bounds the slices of all.              *)
LEMMA SyncAdvancedKeeps ==
  ASSUME TimingAssumption, TimerInv, SyncAdvanced
  PROVE  TimerInv'
<1> USE DEF TimerInv
<1>0. /\ TimingTypeOK /\ UNCHANGED <<executed_ticks, slice_length, downcount, is_timer_sane>>
      /\ UNCHANGED <<event_queue, ts_queue, host, current_timer>> /\ pc = "advanced" /\ loop.phase = "sync"
      /\ loop.core = current_timer /\ pc' = "sync"
  BY DEF SyncAdvanced, clock, events, LoopInPhase, Advancing
<1>a. loop.core \in Cores /\ loop \in Loops
  BY <1>0, Typed
<1>1. GetMaxSliceLength(loop.core) \in Int /\ GetMaxSliceLength(loop.core) > 0
  <2>1. Rested(loop.core)
    BY <1>0 DEF AllAdvanced
  <2> QED
    BY <1>0, <1>a, <2>1, NextEventAhead
<1>2. /\ loop' \in Loops /\ loop'.phase = "sync" /\ loop'.core = loop.core + 1
      /\ loop'.max_slice > 0
  <2> DEFINE S == {loop.max_slice, GetMaxSliceLength(loop.core)}
             s == Min(S)
  <2>1. loop' = [loop EXCEPT !.core = @ + 1, !.max_slice = s]
    BY <1>0 DEF SyncAdvanced
  <2>2. s \in Int /\ s > 0
    BY <1>0, <1>1, Typed, MinOfTwo DEF SlicesInv
  <2>3. loop.core + 1 \in 0 .. NumCores
    <3>1. NumCores \in Nat
      BY <1>0, LoopTyped
    <3> QED
      BY <1>a, <3>1 DEF Cores
  <2> HIDE DEF s
  <2> QED
    BY <1>0, <1>a, <2>1, <2>2, <2>3 DEF Loops
<1>3. TimingTypeOK'
  BY <1>0, <1>2, TypesKept DEF TimingTypeOK
<1>4. QueuesOrdered'
  BY <1>0 DEF QueuesOrdered
<1>5. LoopInPhase' /\ TimersSane' /\ SlicesInv'
  BY <1>0, <1>2, Typed DEF LoopInPhase, TimersSane, SlicesInv, Advancing
<1>6. AllAdvanced'
  <2>1. \A c \in Cores : c < loop.core + 1 => Rested(c)
    BY <1>0, <1>a, Typed DEF AllAdvanced
  <2> QED
    BY <1>0, <1>2, <2>1 DEF AllAdvanced, Rested
<1>7. QueueAhead'
  BY <1>0 DEF QueueAhead, Firing, Clock
<1> QED
  BY <1>3, <1>4, <1>5, <1>6, <1>7

(* A callback returns.                                                                        *)
LEMMA CallbackReturnsKeeps ==
  ASSUME TimingAssumption, TimerInv, CallbackReturns
  PROVE  TimerInv'
<1> USE DEF TimerInv
<1>0. /\ TimingTypeOK /\ UNCHANGED <<executed_ticks, slice_length, downcount, is_timer_sane>>
      /\ UNCHANGED <<event_queue, ts_queue, host, current_timer, loop>> /\ pc = "callback" /\ pc' = "events"
  BY DEF CallbackReturns, clock, events
<1>3. TimingTypeOK'
  BY <1>0 DEF TimingTypeOK
<1>4. QueuesOrdered'
  BY <1>0 DEF QueuesOrdered
<1>5. LoopInPhase' /\ TimersSane' /\ SlicesInv' /\ AllAdvanced'
  BY <1>0 DEF LoopInPhase, TimersSane, SlicesInv, Advancing, AllAdvanced, Rested
<1>7. QueueAhead'
  BY <1>0 DEF QueueAhead, Firing, Clock
<1> QED
  BY <1>3, <1>4, <1>5, <1>7

(* A slice ends.                                                                              *)
LEMMA RunEndsKeeps ==
  ASSUME TimingAssumption, TimerInv, RunEnds
  PROVE  TimerInv'
<1> USE DEF TimerInv
<1>0. /\ TimingTypeOK /\ UNCHANGED <<executed_ticks, slice_length, downcount, is_timer_sane>>
      /\ UNCHANGED <<event_queue, ts_queue, host, current_timer>> /\ pc = "run"
      /\ loop.core = current_timer /\ loop \in Loops /\ current_timer \in Cores
      /\ GetTicks(current_timer) - loop.start \in Int
      /\ GetTicks(current_timer) - loop.start > 0
  <2>1. /\ UNCHANGED <<executed_ticks, slice_length, downcount, is_timer_sane>>
        /\ UNCHANGED <<event_queue, ts_queue, host, current_timer>> /\ pc = "run"
        /\ GetTicks(current_timer) > loop.start
    BY DEF RunEnds, clock, events
  <2>2. loop \in Loops /\ current_timer \in Cores /\ loop.start \in Int
    BY LoopTyped
  <2>3. GetTicks(current_timer) \in Int
    BY <2>2, GlobalTicks
  <2>4. GetTicks(current_timer) - loop.start \in Int /\ GetTicks(current_timer) - loop.start > 0
    BY <2>1, <2>2, <2>3
  <2>5. loop.core = current_timer
    BY <2>1 DEF LoopInPhase
  <2> QED
    BY <2>1, <2>2, <2>4, <2>5
<1>1. CASE loop.phase = "slice" /\ loop.core + 1 < NumCores
  <2>1. /\ pc' = "slice" /\ loop' \in Loops /\ loop'.phase = "slice"
        /\ loop'.core = loop.core + 1 /\ loop'.max_slice > 0
    <3>1. loop' = [loop EXCEPT !.core = @ + 1,
                               !.max_slice = GetTicks(current_timer) - loop.start]
      BY <1>1 DEF RunEnds
    <3>2. loop.core + 1 \in 0 .. NumCores
      <4>1. NumCores \in Nat /\ loop.core \in Nat
        BY <1>0, Typed
      <4> QED
        BY <1>1, <4>1
    <3>3. pc' = "slice"
      BY <1>1 DEF RunEnds
    <3> QED
      BY <1>0, <1>1, <3>1, <3>2, <3>3 DEF Loops
  <2>2. TimingTypeOK'
    BY <1>0, <2>1, TypesKept DEF TimingTypeOK
  <2>3. QueuesOrdered'
    BY <1>0 DEF QueuesOrdered
  <2>4. loop.core + 1 \in Cores
    BY <1>0, <1>1, Typed DEF Cores
  <2>5. LoopInPhase' /\ TimersSane' /\ SlicesInv'
    BY <1>0, <2>1, <2>4 DEF LoopInPhase, TimersSane, SlicesInv, Advancing
  <2>6. AllAdvanced'
    <3>1. \A c \in Cores : c >= loop.core + 1 => Rested(c)
      BY <1>0, <1>1, Typed DEF AllAdvanced
    <3> QED
      BY <1>0, <2>1, <3>1 DEF AllAdvanced, Rested
  <2>7. QueueAhead'
    BY <1>0, <2>1 DEF QueueAhead, Firing, Clock
  <2> QED
    BY <2>2, <2>3, <2>5, <2>6, <2>7
<1>2. CASE ~(loop.phase = "slice" /\ loop.core + 1 < NumCores)
  <2>1. pc' = "top" /\ loop' = Locals
    BY <1>2 DEF RunEnds
  <2>2. TimingTypeOK'
    BY <1>0, <2>1, Typed, TypesKept DEF TimingTypeOK
  <2>3. QueuesOrdered'
    BY <1>0 DEF QueuesOrdered
  <2>a. loop'.phase = "lag" /\ loop'.max_slice = MaxSlice /\ MaxSlice > 0
    BY <2>1, Typed
  <2>5. LoopInPhase' /\ TimersSane' /\ SlicesInv' /\ AllAdvanced'
    BY <1>0, <2>1, <2>a DEF LoopInPhase, TimersSane, SlicesInv, Advancing, AllAdvanced
  <2>7. QueueAhead'
    BY <1>0, <2>1 DEF QueueAhead, Firing, Clock
  <2> QED
    BY <2>2, <2>3, <2>5, <2>7
<1> QED
  BY <1>1, <1>2

(* The slice a core gets has at least one tick and ends at its next event.                    *)
LEMMA SliceGiven ==
  ASSUME TimingAssumption, TimingTypeOK, QueuesOrdered, NEW c \in Cores, Rested(c),
         NEW max \in Int, max > 0, SetNextSlice(c, max)
  PROVE  \E n \in Int :
           /\ n > 0 /\ n <= max
           /\ slice_length' = [slice_length EXCEPT ![c] = n]
           /\ downcount' = [downcount EXCEPT ![c] = n]
           /\ \A x \in Range(event_queue[c]) : executed_ticks[c] + n <= x.time
<1>1. CASE event_queue[c] = <<>>
  <2>1. Range(event_queue[c]) = {}
    BY <1>1 DEF Range
  <2>2. /\ slice_length' = [slice_length EXCEPT ![c] = max]
        /\ downcount' = [downcount EXCEPT ![c] = max]
    BY <1>1 DEF SetNextSlice
  <2>3. max <= max /\ \A x \in Range(event_queue[c]) : executed_ticks[c] + max <= x.time
    BY <2>1
  <2> WITNESS max \in Int
  <2> QED
    BY <2>2, <2>3
<1>2. CASE event_queue[c] # <<>>
  <2> DEFINE t == Head(event_queue[c]).time - executed_ticks[c]
             n == Min({t, max})
  <2>1. t = GetMaxSliceLength(c)
    BY <1>2 DEF GetMaxSliceLength
  <2>2. /\ slice_length' = [slice_length EXCEPT ![c] = n]
        /\ downcount' = [downcount EXCEPT ![c] = n]
    BY <1>2 DEF SetNextSlice
  <2> HIDE DEF t
  <2>3. t \in Int /\ t > 0 /\ \A x \in Range(event_queue[c]) : executed_ticks[c] + t <= x.time
    BY <2>1, NextEventAhead
  <2>4. n \in {t, max} /\ n <= t /\ n <= max
    BY <2>3, MinOfTwo
  <2>5. executed_ticks[c] \in Int /\ event_queue[c] \in Queues
    BY Typed DEF QueuesOrdered
  <2> HIDE DEF n
  <2>6. \A x \in Range(event_queue[c]) : executed_ticks[c] + n <= x.time
    <3> SUFFICES ASSUME NEW x \in Range(event_queue[c]) PROVE executed_ticks[c] + n <= x.time
      OBVIOUS
    <3>1. x \in Record
      BY <2>5, QueueFacts DEF Range
    <3>2. x.time \in Int /\ executed_ticks[c] + t <= x.time
      BY <2>3, <3>1, TimesAreIntegers
    <3> QED
      BY <2>3, <2>4, <2>5, <3>2
  <2> QED
    BY <2>2, <2>3, <2>4, <2>6
<1> QED
  BY <1>1, <1>2

(* A core that was behind gets a slice up to its next event.                                  *)
LEMMA LagAdvancedKeeps ==
  ASSUME TimingAssumption, TimerInv, LagAdvanced
  PROVE  TimerInv'
<1> USE DEF TimerInv
<1>0. /\ TimingTypeOK /\ UNCHANGED <<executed_ticks, is_timer_sane>>
      /\ UNCHANGED <<event_queue, ts_queue, host, current_timer>> /\ pc = "advanced"
      /\ loop.phase = "lag" /\ loop.core = current_timer /\ pc' = "lag"
      /\ SetNextSlice(loop.core, loop.start)
  BY DEF LagAdvanced, events, LoopInPhase, Advancing
<1> DEFINE L == loop.core
<1>1. /\ L \in Cores /\ loop \in Loops /\ loop.start \in Int /\ loop.start > 0 /\ Rested(L)
      /\ L \in Nat /\ L < NumCores /\ NumCores \in Nat /\ loop.max_delay \in Int
  BY <1>0, Typed DEF AllAdvanced, SlicesInv, Advancing
<1> HIDE DEF L
<1>2. PICK n \in Int :
        /\ n > 0 /\ n <= loop.start
        /\ slice_length' = [slice_length EXCEPT ![L] = n]
        /\ downcount' = [downcount EXCEPT ![L] = n]
        /\ \A x \in Range(event_queue[L]) : executed_ticks[L] + n <= x.time
  BY <1>0, <1>1, SliceGiven DEF L
<1>3. slice_length \in [Cores -> Int] /\ downcount \in [Cores -> Int] /\ ~is_timer_sane[L]
  BY <1>0, <1>1 DEF TimingTypeOK, Rested
<1>4. \A c \in Cores : /\ slice_length'[c] = IF c = L THEN n ELSE slice_length[c]
                       /\ downcount'[c] = IF c = L THEN n ELSE downcount[c]
  BY <1>1, <1>2, <1>3
<1>5. /\ loop' \in Loops /\ loop'.phase = "lag" /\ loop'.core = L + 1
      /\ loop'.max_slice = loop.max_slice
      /\ \/ loop'.max_delay = loop.max_delay /\ loop'.lagging = loop.lagging
         \/ loop'.max_delay = loop.start /\ loop'.lagging = L
  <2>1. L + 1 \in 0 .. NumCores
    BY <1>1
  <2> DEFINE counted == [loop EXCEPT !.core = @ + 1]
  <2>2. /\ counted \in Loops /\ counted.phase = "lag" /\ counted.core = L + 1
        /\ counted.max_slice = loop.max_slice /\ counted.max_delay = loop.max_delay
        /\ counted.lagging = loop.lagging
    BY <1>0, <1>1, <2>1 DEF Loops, L
  <2>3. loop' = IF loop.max_delay < loop.start
                THEN [counted EXCEPT !.max_delay = loop.start, !.lagging = L] ELSE counted
    BY DEF LagAdvanced, L
  <2> HIDE DEF counted
  <2>4. CASE loop.max_delay < loop.start
    BY <1>1, <2>2, <2>3, <2>4 DEF Loops
  <2>5. CASE ~(loop.max_delay < loop.start)
    BY <2>2, <2>3, <2>5
  <2> QED
    BY <2>4, <2>5
<1>6. TimingTypeOK'
  <2>1. slice_length' \in [Cores -> Int] /\ downcount' \in [Cores -> Int]
    BY <1>2, <1>3
  <2> QED
    BY <1>0, <1>5, <2>1, TypesKept DEF TimingTypeOK
<1>7. QueuesOrdered'
  BY <1>0 DEF QueuesOrdered
<1>8. LoopInPhase' /\ AllAdvanced'
  BY <1>0, <1>5 DEF LoopInPhase, AllAdvanced, Advancing
<1>9. TimersSane'
  <2>1. loop.lagging \in Nat
    BY <1>0, Typed
  <2>2. loop'.max_delay > 0 => loop'.lagging < loop'.core /\ ~is_timer_sane[loop'.lagging]
    BY <1>0, <1>1, <1>3, <1>5, <2>1 DEF TimersSane, Advancing, L
  <2> QED
    BY <1>0, <1>5, <2>2 DEF TimersSane
<1>10. SlicesInv'
  <2>1. \A c \in Cores : - Overshoot <= downcount'[c] /\ downcount'[c] <= slice_length'[c]
    <3>1. Overshoot \in Nat
      BY <1>0, Typed
    <3>2. \A c \in Cores : - Overshoot <= downcount[c] /\ downcount[c] <= slice_length[c]
      BY DEF SlicesInv
    <3>3. - Overshoot <= n
      BY <1>2, <3>1
    <3> QED
      BY <1>2, <1>4, <3>2, <3>3
  <2> QED
    BY <1>0, <1>5, <2>1 DEF SlicesInv, Advancing
<1>11. QueueAhead'
  <2> SUFFICES ASSUME NEW c \in Cores, NEW x \in Range(event_queue[c])
               PROVE  /\ x.from = "own" \/ ~ SaveStates => executed_ticks[c] + slice_length'[c] <= x.time
                      /\ x.from = "own" => executed_ticks[c] + slice_length'[c] - downcount'[c] <= x.time + Overshoot
    BY <1>0 DEF QueueAhead, Clock, Firing
  <2>1. CASE c = L
    <3>1. x \in Record
      BY <2>1, QueueFacts DEF QueuesOrdered, Range
    <3>2. x.time \in Int /\ executed_ticks[c] + n <= x.time /\ executed_ticks[c] \in Int /\ Overshoot \in Nat
      BY <1>0, <1>2, <2>1, <3>1, Typed, TimesAreIntegers
    <3> QED
      BY <1>4, <1>2, <2>1, <3>2
  <2>2. CASE c # L
    <3>1. slice_length'[c] = slice_length[c] /\ downcount'[c] = downcount[c] /\ ~Firing(c)
      BY <1>0, <1>4, <2>2 DEF Firing
    <3> QED
      BY <3>1 DEF QueueAhead, Clock
  <2> QED
    BY <2>1, <2>2
<1> QED
  BY <1>6, <1>7, <1>8, <1>9, <1>10, <1>11

(* A core gets its slice.                                                                     *)
LEMMA SliceNextKeeps ==
  ASSUME TimingAssumption, TimerInv, SliceNext
  PROVE  TimerInv'
<1> USE DEF TimerInv
<1>0. /\ TimingTypeOK /\ UNCHANGED <<executed_ticks, is_timer_sane>>
      /\ UNCHANGED <<event_queue, ts_queue, host>> /\ pc = "slice"
      /\ loop.phase = "slice" /\ current_timer' = loop.core /\ pc' = "run"
      /\ SetNextSlice(loop.core, loop.max_slice)
  BY DEF SliceNext, events, LoopInPhase
<1> DEFINE L == loop.core
<1>1. /\ L \in Cores /\ loop \in Loops /\ loop.max_slice \in Int /\ loop.max_slice > 0 /\ Rested(L)
      /\ L \in Nat /\ L < NumCores /\ NumCores \in Nat /\ executed_ticks[L] \in Int
  <2>1. L \in Cores
    BY <1>0 DEF LoopInPhase
  <2>2. L \in Nat /\ L < NumCores /\ NumCores \in Nat /\ executed_ticks[L] \in Int
    BY <2>1, Typed
  <2> QED
    BY <1>0, <2>1, <2>2, Typed DEF AllAdvanced, SlicesInv
<1> HIDE DEF L
<1>2. PICK n \in Int :
        /\ n > 0 /\ n <= loop.max_slice
        /\ slice_length' = [slice_length EXCEPT ![L] = n]
        /\ downcount' = [downcount EXCEPT ![L] = n]
        /\ \A x \in Range(event_queue[L]) : executed_ticks[L] + n <= x.time
  BY <1>0, <1>1, SliceGiven DEF L
<1>3. slice_length \in [Cores -> Int] /\ downcount \in [Cores -> Int] /\ ~is_timer_sane[L]
  BY <1>0, <1>1 DEF TimingTypeOK, Rested
<1>4. \A c \in Cores : /\ slice_length'[c] = IF c = L THEN n ELSE slice_length[c]
                       /\ downcount'[c] = IF c = L THEN n ELSE downcount[c]
  BY <1>1, <1>2, <1>3
<1>5. /\ loop' \in Loops /\ loop'.phase = "slice" /\ loop'.core = L
      /\ loop'.max_slice = loop.max_slice
  <2>1. loop' = [loop EXCEPT !.start = executed_ticks[loop.core]]
    BY DEF SliceNext
  <2> QED
    BY <1>0, <1>1, <2>1 DEF Loops, L
<1>6. TimingTypeOK'
  <2>1. slice_length' \in [Cores -> Int] /\ downcount' \in [Cores -> Int]
    BY <1>2, <1>3
  <2> QED
    BY <1>0, <1>1, <1>5, <2>1, TypesKept DEF TimingTypeOK, L
<1>7. QueuesOrdered'
  BY <1>0 DEF QueuesOrdered
<1>8. LoopInPhase' /\ TimersSane'
  BY <1>0, <1>3, <1>5 DEF LoopInPhase, TimersSane, Advancing, L
<1>9. AllAdvanced'
  <2>1. ASSUME NEW c \in Cores, c > L PROVE Rested(c)'
    <3>1. c # L /\ c >= L
      BY <1>1, <2>1, Typed
    <3>2. Rested(c)
      BY <1>0, <3>1 DEF AllAdvanced, L
    <3> QED
      BY <1>0, <1>4, <3>1, <3>2 DEF Rested
  <2> QED
    BY <1>0, <1>5, <2>1 DEF AllAdvanced
<1>10. SlicesInv'
  <2>1. \A c \in Cores : - Overshoot <= downcount'[c] /\ downcount'[c] <= slice_length'[c]
    <3>1. Overshoot \in Nat
      BY <1>0, Typed
    <3>2. \A c \in Cores : - Overshoot <= downcount[c] /\ downcount[c] <= slice_length[c]
      BY DEF SlicesInv
    <3>3. - Overshoot <= n
      BY <1>2, <3>1
    <3> QED
      BY <1>2, <1>4, <3>2, <3>3
  <2> QED
    BY <1>0, <1>5, <2>1 DEF SlicesInv, Advancing
<1>11. QueueAhead'
  <2> SUFFICES ASSUME NEW c \in Cores, NEW x \in Range(event_queue[c])
               PROVE  /\ x.from = "own" \/ ~ SaveStates => executed_ticks[c] + slice_length'[c] <= x.time
                      /\ x.from = "own" => executed_ticks[c] + slice_length'[c] - downcount'[c] <= x.time + Overshoot
    BY <1>0 DEF QueueAhead, Clock, Firing
  <2>1. CASE c = L
    <3>1. x \in Record
      BY <2>1, QueueFacts DEF QueuesOrdered, Range
    <3>2. x.time \in Int /\ executed_ticks[c] + n <= x.time /\ executed_ticks[c] \in Int /\ Overshoot \in Nat
      BY <1>0, <1>2, <2>1, <3>1, Typed, TimesAreIntegers
    <3> QED
      BY <1>4, <1>2, <2>1, <3>2
  <2>2. CASE c # L
    <3>1. slice_length'[c] = slice_length[c] /\ downcount'[c] = downcount[c] /\ ~Firing(c)
      BY <1>0, <1>4, <2>2 DEF Firing
    <3> QED
      BY <3>1 DEF QueueAhead, Clock
  <2> QED
    BY <2>1, <2>2
<1> QED
  BY <1>6, <1>7, <1>8, <1>9, <1>10, <1>11

(* Timer::Advance moves the clock and takes over the events of others.                        *)
LEMMA AdvanceKeeps ==
  ASSUME TimingAssumption, TimerInv, Advance
  PROVE  TimerInv'
<1> USE DEF TimerInv
<1> DEFINE L == current_timer
<1>0. /\ TimingTypeOK /\ UNCHANGED <<host, current_timer, loop>> /\ pc = "advance"
      /\ pc' = "events" /\ L \in Cores
      /\ event_queue' = [event_queue EXCEPT ![L] = Moved(L)]
      /\ ts_queue' = [ts_queue EXCEPT ![L] = <<>>]
      /\ executed_ticks' = [executed_ticks EXCEPT ![L] = @ + slice_length[L] - downcount[L]]
      /\ slice_length' = [slice_length EXCEPT ![L] = 0]
      /\ downcount' = [downcount EXCEPT ![L] = 0]
      /\ is_timer_sane' = [is_timer_sane EXCEPT ![L] = TRUE]
  BY Typed DEF Advance
<1> HIDE DEF L
<1>1. /\ Moved(L) \in Queues /\ Moved(L) \in Seq(Record)
      /\ Range(Moved(L)) = Range(event_queue[L]) \cup Range(ts_queue[L])
  <2>1. event_queue[L] \in Queues /\ ts_queue[L] \in Seq(Record)
    BY <1>0, Typed DEF QueuesOrdered
  <2> QED
    BY <2>1, MergedFacts DEF Moved, Queues
<1>2. /\ executed_ticks \in [Cores -> Int] /\ slice_length \in [Cores -> Int]
      /\ downcount \in [Cores -> Int] /\ is_timer_sane \in [Cores -> BOOLEAN]
      /\ event_queue \in [Cores -> Seq(Record)] /\ ts_queue \in [Cores -> Seq(Record)]
  BY <1>0 DEF TimingTypeOK
<1>3. \A c \in Cores :
        /\ c # L => /\ executed_ticks'[c] = executed_ticks[c] /\ slice_length'[c] = slice_length[c]
                    /\ downcount'[c] = downcount[c] /\ is_timer_sane'[c] = is_timer_sane[c]
                    /\ event_queue'[c] = event_queue[c] /\ ts_queue'[c] = ts_queue[c]
  BY <1>0, <1>2
<1>4. /\ executed_ticks'[L] = executed_ticks[L] + slice_length[L] - downcount[L]
      /\ slice_length'[L] = 0 /\ downcount'[L] = 0 /\ is_timer_sane'[L] = TRUE
      /\ event_queue'[L] = Moved(L) /\ ts_queue'[L] = <<>>
  BY <1>0, <1>2
<1>5. TimingTypeOK'
  <2>0. executed_ticks[L] \in Int /\ slice_length[L] \in Int /\ downcount[L] \in Int
    BY <1>0, Typed
  <2>1. executed_ticks[L] + slice_length[L] - downcount[L] \in Int
    BY <2>0
  <2>2. /\ executed_ticks' \in [Cores -> Int] /\ slice_length' \in [Cores -> Int]
        /\ downcount' \in [Cores -> Int] /\ is_timer_sane' \in [Cores -> BOOLEAN]
    BY <1>0, <1>2, <2>1
  <2>3. event_queue' \in [Cores -> Seq(Record)] /\ ts_queue' \in [Cores -> Seq(Record)]
    BY <1>0, <1>1, <1>2
  <2>4. loop' \in Loops /\ current_timer' \in Cores
    BY <1>0, Typed
  <2> QED
    BY <1>0, <2>2, <2>3, <2>4, TypesKept
<1>6. QueuesOrdered'
  <2>1. Range(<<>>) = {}
    BY DEF Range
  <2> QED
    BY <1>1, <1>3, <1>4, <2>1 DEF QueuesOrdered
<1>7. LoopInPhase'
  BY <1>0 DEF LoopInPhase, Advancing
<1>8. TimersSane'
  <2>1. loop.lagging < loop.core => loop.lagging # L /\ loop.lagging \in Cores
    BY <1>0, Typed DEF LoopInPhase, Advancing, L
  <2> QED
    BY <1>0, <1>3, <1>4, <2>1 DEF TimersSane, Advancing, L
<1>9. AllAdvanced'
  <2>1. loop.core = L /\ L \in Nat
    BY <1>0, Typed DEF LoopInPhase, Advancing, L
  <2>2. ASSUME NEW c \in Cores, c < L, loop.phase = "sync" PROVE Rested(c)'
    <3>1. c # L /\ Rested(c)
      BY <2>1, <2>2, Typed DEF AllAdvanced
    <3> QED
      BY <1>3, <3>1 DEF Rested
  <2> QED
    BY <1>0, <2>1, <2>2 DEF AllAdvanced
<1>10. SlicesInv'
  <2>1. Overshoot \in Nat
    BY <1>0, Typed
  <2>2. \A c \in Cores : - Overshoot <= downcount'[c] /\ downcount'[c] <= slice_length'[c]
    BY <1>3, <1>4, <2>1 DEF SlicesInv
  <2> QED
    BY <1>0, <2>2 DEF SlicesInv, Advancing
<1>11. QueueAhead'
  <2> SUFFICES ASSUME NEW c \in Cores, NEW x \in Range(event_queue'[c])
               PROVE  /\ ~ (c = L) /\ (x.from = "own" \/ ~ SaveStates) =>
                            executed_ticks'[c] + slice_length'[c] <= x.time
                      /\ x.from = "own" =>
                           executed_ticks'[c] + slice_length'[c] - downcount'[c] <= x.time + Overshoot
    BY <1>0 DEF QueueAhead, Clock, Firing, L
  <2>1. CASE c = L
    <3> SUFFICES ASSUME x.from = "own"
                 PROVE  executed_ticks'[c] + slice_length'[c] - downcount'[c] <= x.time + Overshoot
      BY <2>1
    <3>1. x \in Range(event_queue[L])
      BY <1>0, <1>1, <1>4, <2>1 DEF QueuesOrdered
    <3>2. executed_ticks[L] + slice_length[L] - downcount[L] <= x.time + Overshoot
      BY <1>0, <3>1 DEF QueueAhead, Clock
    <3>3. executed_ticks[L] \in Int /\ slice_length[L] \in Int /\ downcount[L] \in Int
      BY <1>0, Typed
    <3>4. /\ executed_ticks'[c] + slice_length'[c] - downcount'[c]
               = executed_ticks[L] + slice_length[L] - downcount[L]
      BY <1>4, <2>1, <3>3
    <3> QED
      BY <3>2, <3>4
  <2>2. CASE c # L
    <3>1. ~Firing(c)
      BY <1>0 DEF Firing
    <3> QED
      BY <1>3, <2>2, <3>1 DEF QueueAhead, Clock
  <2> QED
    BY <2>1, <2>2
<1> QED
  BY <1>5, <1>6, <1>7, <1>8, <1>9, <1>10, <1>11

(* An event that is due leaves its queue.                                                     *)
LEMMA FireEventKeeps ==
  ASSUME TimingAssumption, TimerInv, FireEvent
  PROVE  TimerInv'
<1> USE DEF TimerInv
<1> DEFINE L == current_timer
<1>0. /\ TimingTypeOK /\ UNCHANGED <<host, current_timer, loop, ts_queue>> /\ pc = "events"
      /\ pc' = "callback" /\ L \in Cores /\ event_queue[L] # <<>>
      /\ event_queue' = [event_queue EXCEPT ![L] = Tail(@)]
      /\ UNCHANGED <<executed_ticks, slice_length, downcount, is_timer_sane>>
  BY Typed DEF FireEvent, clock, Due
<1> HIDE DEF L
<1>1. /\ Tail(event_queue[L]) \in Queues /\ Tail(event_queue[L]) \in Seq(Record)
      /\ Range(Tail(event_queue[L])) \subseteq Range(event_queue[L])
  BY <1>0, TailFacts DEF QueuesOrdered, Queues
<1>2. event_queue \in [Cores -> Seq(Record)] /\ event_queue' \in [Cores -> Seq(Record)]
  BY <1>0, <1>1 DEF TimingTypeOK
<1>3. \A c \in Cores : event_queue'[c] = IF c = L THEN Tail(event_queue[L]) ELSE event_queue[c]
  BY <1>0, <1>2
<1>4. \A c \in Cores : event_queue'[c] \in Queues /\ Range(event_queue'[c]) \subseteq Range(event_queue[c])
  BY <1>1, <1>3 DEF QueuesOrdered
<1>5. TimingTypeOK'
  BY <1>0, <1>2, TypesKept DEF TimingTypeOK, Loops
<1>6. QueuesOrdered'
  BY <1>0, <1>4 DEF QueuesOrdered
<1>7. LoopInPhase' /\ TimersSane' /\ SlicesInv'
  BY <1>0 DEF LoopInPhase, TimersSane, SlicesInv, Advancing
<1>8. AllAdvanced'
  <2>1. \A c \in Cores : Rested(c) => Rested(c)'
    BY <1>0, <1>4 DEF Rested
  <2> QED
    BY <1>0, <2>1 DEF AllAdvanced
<1>9. QueueAhead'
  BY <1>0, <1>4 DEF QueueAhead, Firing, Clock
<1> QED
  BY <1>5, <1>6, <1>7, <1>8, <1>9

(* Once no event is due the core is ready for a slice.                                        *)
LEMMA AdvanceEndsKeeps ==
  ASSUME TimingAssumption, TimerInv, AdvanceEnds
  PROVE  TimerInv'
<1> USE DEF TimerInv
<1> DEFINE L == current_timer
<1>0. /\ TimingTypeOK /\ UNCHANGED <<host, current_timer, loop, event_queue, ts_queue>>
      /\ pc = "events" /\ pc' = "advanced" /\ L \in Cores /\ ~Due(L)
      /\ UNCHANGED <<executed_ticks, slice_length, downcount>>
      /\ is_timer_sane' = [is_timer_sane EXCEPT ![L] = FALSE]
      /\ is_timer_sane \in [Cores -> BOOLEAN]
      /\ slice_length[L] = 0 /\ downcount[L] = 0
  BY Typed DEF AdvanceEnds, events, TimersSane, TimingTypeOK
<1> HIDE DEF L
<1>1. \A c \in Cores : is_timer_sane'[c] = IF c = L THEN FALSE ELSE is_timer_sane[c]
  BY <1>0
<1>2. \A x \in Range(event_queue[L]) : x.time \in Int /\ executed_ticks[L] < x.time
  <2> SUFFICES ASSUME NEW x \in Range(event_queue[L])
               PROVE  x.time \in Int /\ executed_ticks[L] < x.time
    OBVIOUS
  <2> DEFINE q == event_queue[L]
  <2>1. q \in Queues /\ executed_ticks[L] \in Int
    BY <1>0, Typed DEF QueuesOrdered
  <2>2. q # <<>>
    BY DEF Range
  <2>3. ~(Head(q).time <= executed_ticks[L])
    BY <1>0, <2>2 DEF Due
  <2> HIDE DEF q
  <2>4. x \in Range(q)
    BY DEF q
  <2>5. Head(q) \in Range(q) /\ Head(q).time <= x.time
    BY <2>1, <2>2, <2>4, HeadFirst
  <2>6. Head(q).time \in Int /\ x.time \in Int
    BY <2>1, <2>4, <2>5, QueueFacts DEF Range
  <2> QED
    BY <2>1, <2>3, <2>5, <2>6
<1>5. TimingTypeOK'
  BY <1>0, TypesKept DEF TimingTypeOK, Loops
<1>6. QueuesOrdered'
  BY <1>0 DEF QueuesOrdered
<1>7. LoopInPhase' /\ SlicesInv'
  BY <1>0 DEF LoopInPhase, SlicesInv, Advancing
<1>8. TimersSane'
  <2>1. loop.lagging \in Cores
    BY <1>0, Typed
  <2> QED
    BY <1>0, <1>1, <2>1 DEF TimersSane, Advancing
<1>9. AllAdvanced'
  <2>1. \A c \in Cores : Rested(c) => Rested(c)'
    BY <1>0, <1>1 DEF Rested
  <2>2. \A c \in Cores : c = L => Rested(c)'
    BY <1>0, <1>1, <1>2 DEF Rested
  <2> QED
    BY <1>0, <2>1, <2>2 DEF AllAdvanced, L
<1>10. QueueAhead'
  <2> SUFFICES ASSUME NEW c \in Cores, NEW x \in Range(event_queue[c])
               PROVE  /\ (x.from = "own" \/ ~ SaveStates) => executed_ticks[c] + slice_length[c] <= x.time
                      /\ x.from = "own" => Clock(c) <= x.time + Overshoot
    BY <1>0 DEF QueueAhead, Firing, Clock
  <2>1. x.from = "own" => Clock(c) <= x.time + Overshoot
    BY DEF QueueAhead
  <2>2. CASE c = L
    BY <1>0, <1>2, <2>1, <2>2, Typed
  <2>3. CASE c # L
    BY <1>0, <2>1, <2>3 DEF QueueAhead, Firing, L
  <2> QED
    BY <2>2, <2>3
<1> QED
  BY <1>5, <1>6, <1>7, <1>8, <1>9, <1>10

(* What the guest and the callbacks may do: use up or shorten the slice of the running core,  *)
(* take events from the queues, and give the running core events behind the end of its slice. *)
LEMMA GuestKeeps ==
  ASSUME TimingAssumption, TimerInv, pc \in {"run", "callback"}, NEW s \in Int, NEW d \in Int,
         UNCHANGED <<executed_ticks, is_timer_sane, current_timer, pc, loop, host>>,
         slice_length' = [slice_length EXCEPT ![current_timer] = s],
         downcount' = [downcount EXCEPT ![current_timer] = d],
         - Overshoot <= d, d <= s, s <= slice_length[current_timer],
         slice_length[current_timer] - downcount[current_timer] <= s - d,
         pc = "callback" => s = slice_length[current_timer] /\ d = downcount[current_timer],
         event_queue' \in [Cores -> Seq(Record)], ts_queue' \in [Cores -> Seq(Record)],
         \A c \in Cores :
           /\ event_queue'[c] \in Queues
           /\ \A x \in Range(event_queue'[c]) :
                \/ x \in Range(event_queue[c])
                \/ /\ c = current_timer /\ executed_ticks[c] + s <= x.time
                   /\ executed_ticks[c] + s - d <= x.time
           /\ \A x \in Range(ts_queue'[c]) : x.from # "own"
  PROVE  TimerInv'
<1> USE DEF TimerInv
<1> DEFINE L == current_timer
<1>0. L \in Cores /\ TimingTypeOK /\ L' = L /\ loop.core = L /\ Overshoot \in Nat
  BY Typed DEF LoopInPhase, Advancing
<1> HIDE DEF L
<1>1. /\ slice_length \in [Cores -> Int] /\ downcount \in [Cores -> Int]
      /\ slice_length' \in [Cores -> Int] /\ downcount' \in [Cores -> Int]
  BY <1>0 DEF TimingTypeOK
<1>2. \A c \in Cores : /\ slice_length'[c] = IF c = L THEN s ELSE slice_length[c]
                       /\ downcount'[c] = IF c = L THEN d ELSE downcount[c]
  BY <1>0, <1>1 DEF L
<1>3. TimingTypeOK'
  BY <1>0, <1>1, TypesKept DEF TimingTypeOK, Loops
<1>4. QueuesOrdered'
  BY DEF QueuesOrdered
<1>5. LoopInPhase'
  BY DEF LoopInPhase, Advancing
<1>6. TimersSane'
  BY <1>0, <1>2 DEF TimersSane, Advancing, L
<1>7. AllAdvanced'
  <2>1. ASSUME NEW c \in Cores, c # L, Rested(c) PROVE Rested(c)'
    BY <1>2, <2>1 DEF Rested, L
  <2>2. \A c \in Cores : c > L \/ c < L => c # L
    BY <1>0, Typed
  <2>3. pc # "advanced" /\ pc # "slice" /\ loop.core = L
    BY <1>0
  <2> QED
    BY <1>0, <2>1, <2>2, <2>3 DEF AllAdvanced
<1>8. SlicesInv'
  BY <1>2 DEF SlicesInv, Advancing
<1>9. QueueAhead'
  <2> SUFFICES ASSUME NEW c \in Cores, NEW x \in Range(event_queue'[c])
               PROVE  /\ ~ Firing(c) /\ (x.from = "own" \/ ~ SaveStates) =>
                            executed_ticks[c] + slice_length'[c] <= x.time
                      /\ x.from = "own" =>
                           executed_ticks[c] + slice_length'[c] - downcount'[c] <= x.time + Overshoot
    BY DEF QueueAhead, Clock, Firing
  <2>0. x.time \in Int
    <3>1. x \in Record
      BY QueueFacts DEF Range
    <3> QED
      BY <3>1, TimesAreIntegers
  <2>1. executed_ticks[c] \in Int /\ slice_length[c] \in Int /\ downcount[c] \in Int
    BY <1>0, Typed
  <2>2. CASE x \in Range(event_queue[c])
    <3>1. /\ ~ Firing(c) /\ (x.from = "own" \/ ~ SaveStates) => executed_ticks[c] + slice_length[c] <= x.time
          /\ x.from = "own" => executed_ticks[c] + slice_length[c] - downcount[c] <= x.time + Overshoot
      BY <2>2 DEF QueueAhead, Clock
    <3>2. CASE c # L
      BY <1>2, <3>1, <3>2
    <3>3. CASE c = L
      <4>1. slice_length'[c] = s /\ downcount'[c] = d /\ s <= slice_length[c]
        BY <1>2, <3>3 DEF L
      <4>2. pc = "callback" => s = slice_length[c] /\ d = downcount[c]
        BY <3>3 DEF L
      <4>3. pc = "run" => ~ Firing(c)
        BY DEF Firing
      <4>4. CASE pc = "callback"
        BY <3>1, <4>1, <4>2, <4>4
      <4>5. CASE pc = "run"
        <5>1. x.from = "own" \/ ~ SaveStates => executed_ticks[c] + slice_length[c] <= x.time
          BY <3>1, <4>3, <4>5
        <5>2. x.from = "own" \/ ~ SaveStates => executed_ticks[c] + s <= x.time
          BY <2>0, <2>1, <4>1, <5>1
        <5>3. x.from = "own" => executed_ticks[c] + s - d <= x.time + Overshoot
          BY <1>0, <2>0, <2>1, <5>2
        <5> QED
          BY <4>1, <5>2, <5>3
      <4> QED
        BY <4>4, <4>5
    <3> QED
      BY <3>2, <3>3
  <2>3. CASE x \notin Range(event_queue[c])
    <3>1. c = L /\ executed_ticks[c] + s <= x.time /\ executed_ticks[c] + s - d <= x.time
      BY <2>3 DEF L
    <3>2. slice_length'[c] = s /\ downcount'[c] = d
      BY <1>2, <3>1
    <3>3. executed_ticks[c] + s - d <= x.time + Overshoot
      BY <1>0, <2>0, <2>1, <3>1
    <3> QED
      BY <3>1, <3>2, <3>3
  <2> QED
    BY <2>2, <2>3
<1> QED
  BY <1>3, <1>4, <1>5, <1>6, <1>7, <1>8, <1>9

(* The same without events.                                                                   *)
LEMMA RunningKeeps ==
  ASSUME TimingAssumption, TimerInv, pc = "run", NEW s \in Int, NEW d \in Int,
         UNCHANGED <<executed_ticks, is_timer_sane, event_queue, ts_queue, current_timer, pc, loop, host>>,
         slice_length' = [slice_length EXCEPT ![current_timer] = s],
         downcount' = [downcount EXCEPT ![current_timer] = d],
         - Overshoot <= d, d <= s, s <= slice_length[current_timer],
         slice_length[current_timer] - downcount[current_timer] <= s - d
  PROVE  TimerInv'
<1>1. /\ event_queue' \in [Cores -> Seq(Record)] /\ ts_queue' \in [Cores -> Seq(Record)]
  BY DEF TimerInv, TimingTypeOK
<1>2. \A c \in Cores : event_queue'[c] \in Queues /\ \A x \in Range(ts_queue'[c]) : x.from # "own"
  BY DEF TimerInv, QueuesOrdered
<1>3. \A c \in Cores : \A x \in Range(event_queue'[c]) : x \in Range(event_queue[c])
  OBVIOUS
<1> QED
  BY <1>1, <1>2, <1>3, GuestKeeps

(* The guest executes instructions.                                                           *)
LEMMA RunTicksKeeps ==
  ASSUME TimingAssumption, TimerInv, NEW n \in 1 .. Reach, RunTicks(n)
  PROVE  TimerInv'
<1> DEFINE L == current_timer
           d == downcount[L] - n
           s == slice_length[L]
<1>1. /\ L \in Cores /\ slice_length[L] \in Int /\ downcount[L] \in Int /\ Overshoot \in Nat
      /\ Reach \in Nat
  BY Typed DEF TimerInv
<1>2. /\ UNCHANGED <<executed_ticks, slice_length, is_timer_sane, event_queue, ts_queue, current_timer, pc, loop, host>>
      /\ pc = "run" /\ n <= downcount[L] + Overshoot
      /\ downcount' = [downcount EXCEPT ![L] = d]
  BY DEF RunTicks, events, control
<1>3. slice_length' = [slice_length EXCEPT ![L] = s]
  BY <1>1, <1>2 DEF TimingTypeOK, TimerInv
<1>4. downcount[L] <= slice_length[L]
  BY <1>1 DEF SlicesInv, TimerInv
<1>5. d \in Int /\ s \in Int /\ - Overshoot <= d /\ d <= s /\ s <= slice_length[L]
      /\ slice_length[L] - downcount[L] <= s - d
  BY <1>1, <1>2, <1>4
<1> HIDE DEF d, s, L
<1>6. /\ UNCHANGED <<executed_ticks, is_timer_sane, event_queue, ts_queue, current_timer, pc, loop, host>>
      /\ pc = "run"
  BY <1>2
<1> QED
  BY <1>2, <1>3, <1>5, <1>6, RunningKeeps DEF L

(* The core idles until its slice ends.                                                       *)
LEMMA IdleKeeps ==
  ASSUME TimingAssumption, TimerInv, Idle
  PROVE  TimerInv'
<1> DEFINE L == current_timer
           d == 0
           s == slice_length[L]
<1>1. L \in Cores /\ slice_length[L] \in Int /\ downcount[L] \in Int /\ Overshoot \in Nat
  BY Typed DEF TimerInv
<1>2. /\ UNCHANGED <<executed_ticks, slice_length, is_timer_sane, event_queue, ts_queue, current_timer, pc, loop, host>>
      /\ pc = "run" /\ downcount[L] > 0
      /\ downcount' = [downcount EXCEPT ![L] = d]
  BY DEF Idle, events, control
<1>3. slice_length' = [slice_length EXCEPT ![L] = s]
  BY <1>1, <1>2 DEF TimingTypeOK, TimerInv
<1>4. downcount[L] <= slice_length[L]
  BY <1>1 DEF SlicesInv, TimerInv
<1>5. d \in Int /\ s \in Int /\ - Overshoot <= d /\ d <= s /\ s <= slice_length[L]
      /\ slice_length[L] - downcount[L] <= s - d
  BY <1>1, <1>2, <1>4
<1> HIDE DEF d, s, L
<1>6. /\ UNCHANGED <<executed_ticks, is_timer_sane, event_queue, ts_queue, current_timer, pc, loop, host>>
      /\ pc = "run"
  BY <1>2
<1> QED
  BY <1>2, <1>3, <1>5, <1>6, RunningKeeps DEF L

(* The emulation thread schedules an event.                                                   *)
LEMMA ScheduleEventKeeps ==
  ASSUME TimingAssumption, TimerInv,
         NEW e \in Events, NEW k \in Cores, NEW cycles \in Delays, ScheduleEvent(e, k, cycles)
  PROVE  TimerInv'
<1> DEFINE time == GetTicks(k) + cycles
           own == [id |-> e, time |-> time, from |-> "own", base |-> time]
           other == [id |-> e, time |-> time, from |-> "core", base |-> time]
           L == current_timer
<1>0. /\ TimingTypeOK /\ cycles \in Nat /\ time \in Int /\ Overshoot \in Nat /\ L \in Cores
      /\ \A c \in Cores :
           /\ executed_ticks[c] \in Int /\ slice_length[c] \in Int /\ downcount[c] \in Int
           /\ ts_queue[c] \in Seq(Record) /\ event_queue[c] \in Queues
           /\ - Overshoot <= downcount[c] /\ downcount[c] <= slice_length[c]
      /\ slice_length \in [Cores -> Int] /\ downcount \in [Cores -> Int]
      /\ event_queue \in [Cores -> Seq(Record)] /\ ts_queue \in [Cores -> Seq(Record)]
  <2>1. cycles \in Nat
    BY DEF TimingAssumption
  <2>2. GetTicks(k) \in Int
    BY Typed DEF TimerInv
  <2>3. time \in Int
    BY <2>1, <2>2
  <2>4. \A c \in Cores :
          /\ executed_ticks[c] \in Int /\ slice_length[c] \in Int /\ downcount[c] \in Int
          /\ ts_queue[c] \in Seq(Record)
    BY Typed DEF TimerInv
  <2>5. \A c \in Cores : /\ event_queue[c] \in Queues
                         /\ - Overshoot <= downcount[c] /\ downcount[c] <= slice_length[c]
    BY DEF SlicesInv, TimerInv, QueuesOrdered
  <2>6. Overshoot \in Nat /\ L \in Cores
    BY Typed DEF TimerInv
  <2>7. /\ TimingTypeOK /\ slice_length \in [Cores -> Int] /\ downcount \in [Cores -> Int]
        /\ event_queue \in [Cores -> Seq(Record)] /\ ts_queue \in [Cores -> Seq(Record)]
    BY DEF TimerInv, TimingTypeOK
  <2> HIDE DEF time, L
  <2> QED
    BY <2>1, <2>3, <2>4, <2>5, <2>6, <2>7
<1>1. /\ UNCHANGED <<executed_ticks, is_timer_sane, current_timer, pc, loop, host>>
      /\ pc \in {"run", "callback"}
  BY DEF ScheduleEvent, InGuest, control
<1>2. /\ own \in Record /\ own.time = time
      /\ other \in Record /\ other.from = "core"
  BY <1>0 DEF Record
<1>3. CASE k = L
  <2> DEFINE cut == ~ is_timer_sane[k] /\ downcount[k] > cycles
             s == IF cut THEN slice_length[k] - (downcount[k] - cycles) ELSE slice_length[k]
             d == IF cut THEN cycles ELSE downcount[k]
  <2>1. /\ slice_length' = [slice_length EXCEPT ![L] = s]
        /\ downcount' = [downcount EXCEPT ![L] = d]
        /\ event_queue' = [event_queue EXCEPT ![L] = Insert(@, own)] /\ UNCHANGED ts_queue
    BY <1>0, <1>3 DEF ScheduleEvent, ForceExceptionCheck
  <2>2. s \in Int /\ d \in Int /\ - Overshoot <= d /\ d <= s /\ s <= slice_length[L]
        /\ slice_length[L] - downcount[L] <= s - d
    BY <1>0, <1>3
  <2>3. pc = "callback" => is_timer_sane[k] /\ slice_length[k] = 0 /\ downcount[k] = 0
    BY <1>3 DEF TimersSane, TimerInv
  <2>4. pc = "run" => ~ is_timer_sane[k]
    BY <1>3 DEF TimersSane, TimerInv
  <2>a. executed_ticks[k] \in Int /\ slice_length[k] \in Int /\ downcount[k] \in Int /\ cycles \in Nat
    BY <1>0
  <2>5. executed_ticks[k] + s <= time /\ executed_ticks[k] + s - d <= time
    <3>1. CASE pc = "callback"
      <4>1. time = executed_ticks[k] + cycles /\ s = 0 /\ d = 0
        BY <1>0, <2>3, <3>1 DEF GetTicks
      <4> HIDE DEF time, s, d
      <4> QED
        BY <1>0, <4>1
    <3>2. CASE pc = "run"
      <4>1. time = executed_ticks[k] + (slice_length[k] - downcount[k]) + cycles
        BY <1>0, <2>4, <3>2 DEF GetTicks
      <4>2. CASE cut
        <5>1. s = slice_length[k] - (downcount[k] - cycles) /\ d = cycles
          BY <4>2
        <5> HIDE DEF time, s, d
        <5> QED
          BY <2>a, <4>1, <5>1
      <4>3. CASE ~cut
        <5>1. s = slice_length[k] /\ d = downcount[k] /\ ~(downcount[k] > cycles)
          BY <2>4, <3>2, <4>3
        <5> HIDE DEF time, s, d
        <5> QED
          BY <2>a, <4>1, <5>1
      <4> QED
        BY <4>2, <4>3
    <3> QED
      BY <1>1, <3>1, <3>2
  <2>6. pc = "callback" => s = slice_length[L] /\ d = downcount[L]
    BY <1>3, <2>3
  <2> HIDE DEF s, d, own, time
  <2>7. /\ Insert(event_queue[L], own) \in Queues /\ Insert(event_queue[L], own) \in Seq(Record)
        /\ Range(Insert(event_queue[L], own)) = Range(event_queue[L]) \cup {own}
    BY <1>0, <1>2, InsertFacts DEF Queues
  <2>8. event_queue' \in [Cores -> Seq(Record)] /\ ts_queue' \in [Cores -> Seq(Record)]
    BY <1>0, <2>1, <2>7
  <2>9. \A c \in Cores : event_queue'[c] = IF c = L THEN Insert(event_queue[L], own) ELSE event_queue[c]
    BY <1>0, <2>1
  <2>10. ASSUME NEW c \in Cores
         PROVE  /\ event_queue'[c] \in Queues
                /\ \A x \in Range(event_queue'[c]) :
                     \/ x \in Range(event_queue[c])
                     \/ /\ c = L /\ executed_ticks[c] + s <= x.time /\ executed_ticks[c] + s - d <= x.time
                /\ \A x \in Range(ts_queue'[c]) : x.from # "own"
    BY <1>0, <1>2, <1>3, <2>1, <2>5, <2>7, <2>9 DEF TimerInv, QueuesOrdered
  <2> HIDE DEF L
  <2> QED
    BY <1>1, <2>1, <2>2, <2>6, <2>8, <2>10, GuestKeeps DEF L
<1>4. CASE k # L
  <2> DEFINE s == slice_length[L]
             d == downcount[L]
  <2>1. /\ UNCHANGED <<slice_length, downcount, event_queue>>
        /\ ts_queue' = [ts_queue EXCEPT ![k] = Append(@, other)]
    BY <1>4 DEF ScheduleEvent
  <2> HIDE DEF other
  <2>2. /\ slice_length' = [slice_length EXCEPT ![L] = s]
        /\ downcount' = [downcount EXCEPT ![L] = d]
    BY <1>0, <2>1
  <2>3. Append(ts_queue[k], other) \in Seq(Record)
        /\ Range(Append(ts_queue[k], other)) = Range(ts_queue[k]) \cup {other}
    BY <1>0, <1>2, RangeAppend
  <2>4. ts_queue' \in [Cores -> Seq(Record)] /\ event_queue' \in [Cores -> Seq(Record)]
    BY <1>0, <2>1, <2>3
  <2>5. \A c \in Cores : ts_queue'[c] = IF c = k THEN Append(ts_queue[k], other) ELSE ts_queue[c]
    BY <1>0, <2>1
  <2>6. ASSUME NEW c \in Cores
         PROVE  /\ event_queue'[c] \in Queues
                /\ \A x \in Range(event_queue'[c]) : x \in Range(event_queue[c])
                /\ \A x \in Range(ts_queue'[c]) : x.from # "own"
    BY <1>0, <1>2, <2>1, <2>3, <2>5 DEF TimerInv, QueuesOrdered
  <2>7. s \in Int /\ d \in Int /\ - Overshoot <= d /\ d <= s /\ s <= s /\ s - d <= s - d
    BY <1>0
  <2>8. s = slice_length[L] /\ d = downcount[L]
    OBVIOUS
  <2> HIDE DEF s, d, L
  <2> QED
    BY <1>1, <2>2, <2>4, <2>6, <2>7, <2>8, GuestKeeps DEF L
<1> QED
  BY <1>3, <1>4

(* The emulation thread unschedules an event.                                                 *)
LEMMA UnscheduleEventKeeps ==
  ASSUME TimingAssumption, TimerInv, NEW e \in Events, UnscheduleEvent(e)
  PROVE  TimerInv'
<1> DEFINE L == current_timer
           s == slice_length[L]
           d == downcount[L]
           gone(c) == {x \in Range(event_queue[c]) : x.id = e}
<1>0. /\ L \in Cores /\ Overshoot \in Nat
      /\ s \in Int /\ d \in Int /\ - Overshoot <= d /\ d <= s /\ s <= s /\ s - d <= s - d
      /\ slice_length \in [Cores -> Int] /\ downcount \in [Cores -> Int]
      /\ ts_queue \in [Cores -> Seq(Record)]
  <2>1. L \in Cores /\ Overshoot \in Nat
    BY Typed DEF TimerInv
  <2>2. s \in Int /\ d \in Int
    BY <2>1, Typed DEF TimerInv
  <2>3. - Overshoot <= d /\ d <= s
    BY <2>1 DEF TimerInv, SlicesInv
  <2> QED
    <3>1. /\ slice_length \in [Cores -> Int] /\ downcount \in [Cores -> Int]
          /\ ts_queue \in [Cores -> Seq(Record)]
      BY DEF TimerInv, TimingTypeOK
    <3> QED
      BY <2>1, <2>2, <2>3, <3>1
<1>1. /\ UNCHANGED <<executed_ticks, is_timer_sane, current_timer, pc, loop, host>>
      /\ UNCHANGED <<slice_length, downcount, ts_queue>> /\ pc \in {"run", "callback"}
      /\ event_queue' = [c \in Cores |-> Without(event_queue[c], gone(c))]
  BY DEF UnscheduleEvent, InGuest, clock, control
<1> HIDE DEF gone
<1>2. /\ slice_length' = [slice_length EXCEPT ![L] = s]
      /\ downcount' = [downcount EXCEPT ![L] = d]
  BY <1>0, <1>1
<1>3. ASSUME NEW c \in Cores
      PROVE  /\ event_queue'[c] \in Queues /\ event_queue'[c] \in Seq(Record)
             /\ \A x \in Range(event_queue'[c]) : x \in Range(event_queue[c])
             /\ \A x \in Range(ts_queue'[c]) : x.from # "own"
  <2>1. event_queue[c] \in Queues
    BY DEF TimerInv, QueuesOrdered
  <2>2. event_queue'[c] = Without(event_queue[c], gone(c))
    BY <1>1
  <2>3. event_queue'[c] \in Queues /\ Range(event_queue'[c]) \subseteq Range(event_queue[c])
    BY <2>1, <2>2, WithoutSorted
  <2> QED
    BY <1>1, <2>3 DEF TimerInv, QueuesOrdered, Queues
<1>4. event_queue' \in [Cores -> Seq(Record)] /\ ts_queue' \in [Cores -> Seq(Record)]
  BY <1>0, <1>1, <1>3
<1>5. s = slice_length[L] /\ d = downcount[L]
  OBVIOUS
<1> HIDE DEF s, d, L
<1> QED
  BY <1>0, <1>1, <1>2, <1>3, <1>4, <1>5, GuestKeeps DEF L

(* The greater of two integers.                                                               *)
LEMMA MaxOfTwo ==
  ASSUME NEW a \in Int, NEW b \in Int
  PROVE  Max({a, b}) \in Int /\ Max({a, b}) >= a /\ Max({a, b}) >= b
<1> DEFINE S == {a, b}
<1>1. \E x \in S : \A y \in S : x >= y
  BY a <= b \/ b <= a
<1>2. Max(S) \in S /\ \A y \in S : Max(S) >= y
  <2> HIDE DEF S
  <2> QED
    BY <1>1 DEF Max
<1> QED
  BY <1>2

HostOK ==
  host # Null =>
    /\ host = [id |-> host.id, core |-> host.core, cycles |-> host.cycles,
               read |-> host.read, base |-> host.base]
    /\ host.id \in HostEvents /\ host.core \in Cores /\ host.cycles \in Delays
    /\ host.base \in Int /\ DOMAIN host.read \subseteq Fields
    /\ \A f \in DOMAIN host.read :
         IF f = "is_timer_sane" THEN host.read[f] \in BOOLEAN ELSE host.read[f] \in Int

(* What a host thread does to itself does not concern the timers.                             *)
LEMMA HostAlone ==
  ASSUME TimerInv, UNCHANGED <<clock, events, control>>, HostOK'
  PROVE  TimerInv'
<1>1. /\ UNCHANGED <<executed_ticks, slice_length, downcount, is_timer_sane>>
      /\ UNCHANGED <<event_queue, ts_queue, current_timer, pc, loop>>
  BY DEF clock, events, control
<1>2. TimingTypeOK'
  BY <1>1 DEF TimerInv, TimingTypeOK, HostOK
<1>3. QueuesOrdered' /\ LoopInPhase' /\ TimersSane' /\ SlicesInv'
  BY <1>1 DEF TimerInv, QueuesOrdered, LoopInPhase, TimersSane, SlicesInv, Advancing
<1>4. AllAdvanced'
  BY <1>1 DEF TimerInv, AllAdvanced, Rested
<1>5. QueueAhead'
  BY <1>1 DEF TimerInv, QueueAhead, Firing, Clock
<1> QED
  BY <1>2, <1>3, <1>4, <1>5 DEF TimerInv

(* A host thread enters ScheduleEvent.                                                        *)
LEMMA HostStartKeeps ==
  ASSUME TimingAssumption, TimerInv,
         NEW e \in HostEvents, NEW k \in Cores, NEW cycles \in Delays, HostStart(e, k, cycles)
  PROVE  TimerInv'
<1> DEFINE base == executed_ticks[k] + slice_length[k] - downcount[k]
<1>1. executed_ticks[k] \in Int /\ slice_length[k] \in Int /\ downcount[k] \in Int
  BY Typed DEF TimerInv
<1>2. base \in Int
  BY <1>1
<1>3. /\ host' = [id |-> e, core |-> k, cycles |-> cycles, read |-> <<>>, base |-> base]
      /\ UNCHANGED <<clock, events, control>>
  BY DEF HostStart
<1> HIDE DEF base
<1>4. DOMAIN <<>> = {}
  OBVIOUS
<1>5. HostOK'
  BY <1>2, <1>3, <1>4 DEF HostOK
<1> QED
  BY <1>3, <1>5, HostAlone

(* A host thread reads a field of the timer.                                                  *)
LEMMA HostReadKeeps ==
  ASSUME TimingAssumption, TimerInv, NEW f \in Fields, HostRead(f)
  PROVE  TimerInv'
<1> DEFINE r == [g \in DOMAIN host.read \cup {f} |->
                   IF g # f THEN host.read[g]
                   ELSE CASE f = "executed_ticks" -> executed_ticks[host.core]
                          [] f = "slice_length" -> slice_length[host.core]
                          [] f = "downcount" -> downcount[host.core]
                          [] f = "is_timer_sane" -> is_timer_sane[host.core]]
<1>1. /\ host # Null /\ host' = [host EXCEPT !.read = r]
      /\ UNCHANGED <<clock, events, control>>
  BY DEF HostRead
<1>2. HostOK
  BY DEF TimerInv, TimingTypeOK, HostOK
<1>3. host.core \in Cores
  BY <1>1, <1>2 DEF HostOK
<1>4. /\ executed_ticks[host.core] \in Int /\ slice_length[host.core] \in Int
      /\ downcount[host.core] \in Int /\ is_timer_sane[host.core] \in BOOLEAN
  BY <1>3, Typed DEF TimerInv
<1>5. /\ DOMAIN r \subseteq Fields
      /\ \A g \in DOMAIN r : IF g = "is_timer_sane" THEN r[g] \in BOOLEAN ELSE r[g] \in Int
  <2>1. DOMAIN r = DOMAIN host.read \cup {f} /\ DOMAIN host.read \subseteq Fields
    BY <1>1, <1>2 DEF HostOK
  <2>2. ASSUME NEW g \in DOMAIN r
        PROVE  IF g = "is_timer_sane" THEN r[g] \in BOOLEAN ELSE r[g] \in Int
    <3>1. CASE g # f
      <4>1. g \in DOMAIN host.read /\ r[g] = host.read[g]
        BY <2>1, <2>2, <3>1
      <4> HIDE DEF r
      <4> QED
        BY <1>1, <1>2, <4>1 DEF HostOK
    <3>2. CASE g = f
      BY <1>4, <3>2 DEF Fields
    <3> QED
      BY <3>1, <3>2
  <2> QED
    BY <2>1, <2>2
<1> HIDE DEF r
<1>6. host' = [id |-> host.id, core |-> host.core, cycles |-> host.cycles,
               read |-> r, base |-> host.base]
  BY <1>1, <1>2 DEF HostOK
<1>7. HostOK'
  BY <1>1, <1>2, <1>5, <1>6 DEF HostOK
<1> QED
  BY <1>1, <1>7, HostAlone

(* A host thread leaves its event in the thread-safe queue.                                   *)
LEMMA HostPushKeeps ==
  ASSUME TimingAssumption, TimerInv, HostPush
  PROVE  TimerInv'
<1> DEFINE k == host.core
           x == [id |-> host.id, time |-> HostTicks + HostCycles, from |-> "host", base |-> host.base]
<1>1. /\ host # Null /\ DOMAIN host.read = Fields /\ host' = Null
      /\ ts_queue' = [ts_queue EXCEPT ![k] = Append(@, x)]
      /\ UNCHANGED <<executed_ticks, slice_length, downcount, is_timer_sane>>
      /\ UNCHANGED <<event_queue, current_timer, pc, loop>>
  BY DEF HostPush, clock, control
<1>2. HostOK
  BY DEF TimerInv, TimingTypeOK, HostOK
<1>3. /\ k \in Cores /\ host.id \in HostEvents /\ HostEvents \subseteq Events /\ host.base \in Int
      /\ host.cycles \in Nat /\ MaxSlice \in Nat
  BY <1>1, <1>2 DEF HostOK, TimingAssumption
<1>4. HostTicks \in Int
  <2>1. /\ host.read["executed_ticks"] \in Int /\ host.read["slice_length"] \in Int
        /\ host.read["downcount"] \in Int
    BY <1>1, <1>2 DEF HostOK, Fields
  <2> QED
    BY <2>1 DEF HostTicks
<1>5. HostCycles \in Int
  <2> DEFINE a == 2 * MaxSlice
             b == host.cycles
  <2>1. a \in Int /\ b \in Int
    BY <1>3
  <2>2. HostCycles = Max({a, b})
    BY DEF HostCycles
  <2> HIDE DEF a, b
  <2> QED
    BY <2>1, <2>2, MaxOfTwo
<1>6. x \in Record /\ x.from = "host"
  BY <1>3, <1>4, <1>5 DEF Record
<1> HIDE DEF x
<1>7. /\ ts_queue \in [Cores -> Seq(Record)] /\ ts_queue[k] \in Seq(Record)
  BY <1>3 DEF TimerInv, TimingTypeOK
<1>8. /\ Append(ts_queue[k], x) \in Seq(Record)
      /\ Range(Append(ts_queue[k], x)) = Range(ts_queue[k]) \cup {x}
  BY <1>6, <1>7, RangeAppend
<1>9. ts_queue' \in [Cores -> Seq(Record)]
  BY <1>1, <1>7, <1>8
<1>10. \A c \in Cores : ts_queue'[c] = IF c = k THEN Append(ts_queue[k], x) ELSE ts_queue[c]
  BY <1>1, <1>7
<1>11. TimingTypeOK'
  BY <1>1, <1>9 DEF TimerInv, TimingTypeOK
<1>12. QueuesOrdered'
  BY <1>1, <1>6, <1>8, <1>10 DEF TimerInv, QueuesOrdered
<1>13. LoopInPhase' /\ TimersSane' /\ SlicesInv'
  BY <1>1 DEF TimerInv, LoopInPhase, TimersSane, SlicesInv, Advancing
<1>14. AllAdvanced' /\ QueueAhead'
  BY <1>1 DEF TimerInv, AllAdvanced, Rested, QueueAhead, Firing, Clock
<1> QED
  BY <1>11, <1>12, <1>13, <1>14 DEF TimerInv

(* A state is saved and loaded.                                                               *)
LEMMA SaveAndLoadKeeps ==
  ASSUME TimingAssumption, TimerInv, SaveAndLoad
  PROVE  TimerInv'
<1>1. /\ pc = "top" /\ SaveStates
      /\ event_queue' = [c \in Cores |-> Moved(c)]
      /\ ts_queue' = [c \in Cores |-> <<>>]
      /\ is_timer_sane' = [c \in Cores |-> TRUE]
      /\ UNCHANGED <<executed_ticks, slice_length, downcount, current_timer, pc, loop, host>>
  BY DEF SaveAndLoad, control
<1>2. \A c \in Cores : /\ Moved(c) \in Queues /\ Moved(c) \in Seq(Record)
                       /\ Range(Moved(c)) = Range(event_queue[c]) \cup Range(ts_queue[c])
  <2> SUFFICES ASSUME NEW c \in Cores
               PROVE  /\ Moved(c) \in Queues /\ Moved(c) \in Seq(Record)
                      /\ Range(Moved(c)) = Range(event_queue[c]) \cup Range(ts_queue[c])
    OBVIOUS
  <2>1. event_queue[c] \in Queues /\ ts_queue[c] \in Seq(Record)
    BY Typed DEF QueuesOrdered, TimerInv
  <2> QED
    BY <2>1, MergedFacts DEF Moved, Queues
<1>3. /\ event_queue' \in [Cores -> Seq(Record)] /\ ts_queue' \in [Cores -> Seq(Record)]
      /\ is_timer_sane' \in [Cores -> BOOLEAN]
  BY <1>1, <1>2
<1>4. TimingTypeOK'
  BY <1>1, <1>3 DEF TimerInv, TimingTypeOK
<1>5. QueuesOrdered'
  <2>1. Range(<<>>) = {}
    BY DEF Range
  <2> QED
    BY <1>1, <1>2, <2>1 DEF QueuesOrdered
<1>6. loop.phase = "sync" => \A c \in Cores : c < loop.core => Rested(c)'
  <2>1. loop.phase # "sync"
    BY <1>1 DEF TimerInv, LoopInPhase
  <2> QED
    BY <2>1
<1>7. LoopInPhase' /\ TimersSane' /\ SlicesInv' /\ AllAdvanced'
  BY <1>1, <1>6 DEF TimerInv, LoopInPhase, TimersSane, SlicesInv, Advancing, AllAdvanced
<1>8. QueueAhead'
  <2> SUFFICES ASSUME NEW c \in Cores, NEW x \in Range(event_queue'[c]), x.from = "own"
               PROVE  executed_ticks[c] + slice_length[c] <= x.time /\ Clock(c) <= x.time + Overshoot
    BY <1>1 DEF QueueAhead, Clock, Firing
  <2>1. x \in Range(event_queue[c])
    BY <1>1, <1>2 DEF TimerInv, QueuesOrdered
  <2> QED
    BY <1>1, <2>1 DEF TimerInv, QueueAhead, Firing
<1> QED
  BY <1>4, <1>5, <1>7, <1>8 DEF TimerInv

(* A new iteration takes all times relative to the slowest core.                              *)
LEMMA StartIterationKeeps ==
  ASSUME TimingAssumption, TimerInv, StartIteration
  PROVE  TimerInv'
<1> DEFINE base == IF Remembers THEN 0 ELSE Min({executed_ticks[c] : c \in Cores})
<1>1. /\ pc = "top" /\ pc' = "lag"
      /\ executed_ticks' = [c \in Cores |-> executed_ticks[c] - base]
      /\ event_queue' = ShiftAll(event_queue, base)
      /\ ts_queue' = ShiftAll(ts_queue, base)
      /\ loop' = [Locals EXCEPT !.global = GetGlobalTicks - base]
      /\ UNCHANGED <<slice_length, downcount, is_timer_sane, current_timer, host>>
  BY DEF StartIteration
<1>2. base \in Int /\ GetGlobalTicks \in Int /\ TimingTypeOK
  BY GlobalTicks DEF TimerInv
<1> HIDE DEF base
<1>3. /\ loop' \in Loops /\ loop'.phase = "lag" /\ loop'.core = 0 /\ loop'.max_delay = 0
      /\ loop'.max_slice = MaxSlice
  <2> DEFINE g == GetGlobalTicks - base
  <2>1. g \in Int
    BY <1>2
  <2>2. /\ Locals \in Loops /\ Locals.phase = "lag" /\ Locals.core = 0 /\ Locals.max_delay = 0
        /\ Locals.max_slice = MaxSlice
    BY <1>2, Typed
  <2>3. loop' = [Locals EXCEPT !.global = g]
    BY <1>1
  <2> HIDE DEF g
  <2> QED
    BY <2>1, <2>2, <2>3 DEF Loops
<1>4. ASSUME NEW c \in Cores
      PROVE  /\ event_queue'[c] \in Queues /\ event_queue'[c] \in Seq(Record)
             /\ ts_queue'[c] \in Seq(Record)
             /\ \A y \in Range(event_queue'[c]) : \E x \in Range(event_queue[c]) :
                  x \in Record /\ y.time = x.time - base /\ y.base = x.base - base /\ y.from = x.from
             /\ \A y \in Range(ts_queue'[c]) : \E x \in Range(ts_queue[c]) :
                  x \in Record /\ y.time = x.time - base /\ y.base = x.base - base /\ y.from = x.from
  <2>1. event_queue[c] \in Queues /\ event_queue[c] \in Seq(Record) /\ ts_queue[c] \in Seq(Record)
    BY <1>2, Typed DEF QueuesOrdered, TimerInv
  <2>2. /\ ShiftAll(event_queue, base)[c] \in Queues
        /\ ShiftAll(event_queue, base)[c] \in Seq(Record)
        /\ \A y \in Range(ShiftAll(event_queue, base)[c]) : \E x \in Range(event_queue[c]) :
             x \in Record /\ y.time = x.time - base /\ y.base = x.base - base /\ y.from = x.from
    <3>1. base \in Int /\ c \in Cores
      BY <1>2
    <3> QED
      <4> HIDE DEF base
      <4>1. ShiftAll(event_queue, base)[c] \in Queues
        BY <2>1, <3>1, ShiftFacts
      <4>2. event_queue[c] \in Seq(Record)
        BY <2>1
      <4>3. /\ ShiftAll(event_queue, base)[c] \in Seq(Record)
            /\ \A y \in Range(ShiftAll(event_queue, base)[c]) : \E x \in Range(event_queue[c]) :
                 x \in Record /\ y.time = x.time - base /\ y.base = x.base - base /\ y.from = x.from
        BY <3>1, <4>2, ShiftFacts
      <4> QED
        BY <4>1, <4>3
  <2>3. /\ ShiftAll(ts_queue, base)[c] \in Seq(Record)
        /\ \A y \in Range(ShiftAll(ts_queue, base)[c]) : \E x \in Range(ts_queue[c]) :
             x \in Record /\ y.time = x.time - base /\ y.base = x.base - base /\ y.from = x.from
    BY <1>2, <2>1, ShiftFacts
  <2> QED
    BY <1>1, <2>2, <2>3
<1>5. TimingTypeOK'
  <2>1. /\ executed_ticks' \in [Cores -> Int]
    <3>1. ASSUME NEW c \in Cores PROVE executed_ticks[c] - base \in Int
      <4>1. executed_ticks[c] \in Int
        BY <1>2, Typed
      <4> QED
        BY <1>2, <4>1
    <3> QED
      BY <1>1, <3>1
  <2>2. event_queue' \in [Cores -> Seq(Record)] /\ ts_queue' \in [Cores -> Seq(Record)]
    BY <1>1, <1>4 DEF ShiftAll
  <2> QED
    BY <1>1, <1>2, <1>3, <2>1, <2>2, TypesKept DEF TimingTypeOK
<1>6. QueuesOrdered'
  BY <1>4 DEF QueuesOrdered, TimerInv
<1>7. LoopInPhase' /\ TimersSane' /\ AllAdvanced'
  BY <1>1, <1>3 DEF LoopInPhase, TimersSane, AllAdvanced, Advancing
<1>8. SlicesInv'
  <2>1. MaxSlice > 0
    BY <1>2, Typed
  <2> QED
    BY <1>1, <1>3, <2>1 DEF SlicesInv, Advancing, TimerInv
<1>9. QueueAhead'
  <2> SUFFICES ASSUME NEW c \in Cores, NEW y \in Range(event_queue'[c])
               PROVE  /\ (y.from = "own" \/ ~ SaveStates) =>
                            executed_ticks'[c] + slice_length[c] <= y.time
                      /\ y.from = "own" =>
                           executed_ticks'[c] + slice_length[c] - downcount[c] <= y.time + Overshoot
    BY <1>1 DEF QueueAhead, Clock, Firing
  <2>1. PICK x \in Range(event_queue[c]) :
          x \in Record /\ y.time = x.time - base /\ y.from = x.from
    BY <1>4
  <2>2. /\ executed_ticks[c] \in Int /\ slice_length[c] \in Int /\ downcount[c] \in Int
        /\ Overshoot \in Nat /\ x.time \in Int
    BY <1>2, <2>1, Typed, TimesAreIntegers
  <2>3. executed_ticks'[c] = executed_ticks[c] - base
    BY <1>1
  <2>4. /\ x.from = "own" \/ ~ SaveStates => executed_ticks[c] + slice_length[c] <= x.time
        /\ x.from = "own" => executed_ticks[c] + slice_length[c] - downcount[c] <= x.time + Overshoot
    BY <1>1 DEF TimerInv, QueueAhead, Clock, Firing
  <2> QED
    BY <1>2, <2>1, <2>2, <2>3, <2>4
<1> QED
  BY <1>5, <1>6, <1>7, <1>8, <1>9 DEF TimerInv

(* The invariant holds at first.                                                              *)
LEMMA TimingInitKeeps ==
  ASSUME TimingAssumption, TimingInit
  PROVE  TimerInv
<1>1. NumCores \in Nat \ {0} /\ MaxSlice \in Nat \ {0} /\ Overshoot \in Nat /\ Cores = 0 .. NumCores - 1
  BY DEF TimingAssumption, Cores
<1>2. Range(<<>>) = {} /\ <<>> \in Queues /\ <<>> \in Seq(Record)
  BY DEF Range, Queues, Sorted
<1>3. /\ loop = Locals /\ Locals \in Loops /\ Locals.phase = "lag" /\ Locals.max_slice = MaxSlice
      /\ pc = "top"
  BY <1>1 DEF TimingInit, Locals, Loops
<1>4. \A c \in Cores : /\ slice_length[c] = MaxSlice /\ downcount[c] = MaxSlice
                       /\ event_queue[c] = <<>> /\ ts_queue[c] = <<>>
  BY DEF TimingInit
<1>5. TimingTypeOK
  <2>1. loop \in Loops
    BY <1>3
  <2>2. /\ executed_ticks \in [Cores -> Int] /\ is_timer_sane \in [Cores -> BOOLEAN]
        /\ slice_length \in [Cores -> Int] /\ downcount \in [Cores -> Int]
        /\ event_queue \in [Cores -> Seq(Record)] /\ ts_queue \in [Cores -> Seq(Record)]
        /\ current_timer \in Cores /\ host = Null
    BY <1>1, <1>2 DEF TimingInit
  <2> QED
    BY <1>3, <2>1, <2>2 DEF TimingTypeOK, Loops
<1>6. QueuesOrdered /\ QueueAhead
  BY <1>2, <1>4 DEF QueuesOrdered, QueueAhead
<1>7. LoopInPhase /\ TimersSane /\ AllAdvanced
  BY <1>3 DEF LoopInPhase, TimersSane, AllAdvanced, Advancing
<1>8. SlicesInv
  BY <1>1, <1>3, <1>4 DEF SlicesInv, Advancing
<1> QED
  BY <1>5, <1>6, <1>7, <1>8 DEF TimerInv

(* Every step keeps it.                                                                       *)
LEMMA TimingStepKeeps ==
  ASSUME TimingAssumption, TimerInv, [TimingNext]_timing_vars
  PROVE  TimerInv'
<1>1. CASE LoopStep
  BY <1>1, StartIterationKeeps, LagNextKeeps, LagAdvancedKeeps, LagEndsKeeps, SyncNextKeeps,
     SyncAdvancedKeeps, SliceNextKeeps, AdvanceKeeps, FireEventKeeps, CallbackReturnsKeeps,
     AdvanceEndsKeeps, RunTicksKeeps, IdleKeeps, RunEndsKeeps DEF LoopStep
<1>2. CASE \E e \in Events, c \in Cores, d \in Delays : ScheduleEvent(e, c, d)
  BY <1>2, ScheduleEventKeeps
<1>3. CASE \E e \in Events : UnscheduleEvent(e)
  BY <1>3, UnscheduleEventKeeps
<1>4. CASE HostStep
  BY <1>4, HostStartKeeps, HostReadKeeps, HostPushKeeps DEF HostStep
<1>5. CASE SaveAndLoad
  BY <1>5, SaveAndLoadKeeps
<1>6. CASE UNCHANGED timing_vars
  <2>1. HostOK'
    BY <1>6 DEF timing_vars, HostOK, TimerInv, TimingTypeOK
  <2> QED
    BY <1>6, <2>1, HostAlone DEF timing_vars
<1> QED
  BY <1>1, <1>2, <1>3, <1>4, <1>5, <1>6 DEF TimingNext

(* The inductive invariant of the timers.                                                     *)
LEMMA TimerInvariant == TimingAssumption => (TimingSpec => []TimerInv)
<1> SUFFICES ASSUME TimingAssumption PROVE TimingSpec => []TimerInv
  OBVIOUS
<1>1. TimingInit => TimerInv
  BY TimingInitKeeps
<1>2. TimerInv /\ [TimingNext]_timing_vars => TimerInv'
  BY TimingStepKeeps
<1> QED
  BY <1>1, <1>2, PTL DEF TimingSpec

(***************************************************************************)
(* RunLoop's slices, for every number of cores, slice length and overshoot:  *)
(* ForceExceptionCheck and SetNextSlice end a slice at the first event that  *)
(* the core scheduled for itself, so it is late by the overshoot at most,    *)
(* saved and loaded or not; GetMaxSliceLength never meets an event that is   *)
(* due already, and no core is handed an empty slice.                        *)
(***************************************************************************)
THEOREM OwnEventsAlwaysOnTime ==
  TimingAssumption => (TimingSpec => [](TimingTypeOK /\ OwnEventsOnTime /\ SlicesNotEmpty))
<1> SUFFICES ASSUME TimingAssumption
             PROVE  TimingSpec => [](TimingTypeOK /\ OwnEventsOnTime /\ SlicesNotEmpty)
  OBVIOUS
<1>1. ASSUME TimerInv PROVE OwnEventsOnTime
  <2> SUFFICES ASSUME NEW c \in Cores, NEW i \in DOMAIN event_queue[c], event_queue[c][i].from = "own"
               PROVE  Clock(c) <= event_queue[c][i].time + Overshoot
    BY DEF OwnEventsOnTime
  <2>1. event_queue[c][i] \in Range(event_queue[c])
    BY DEF Range
  <2> QED
    BY <1>1, <2>1 DEF TimerInv, QueueAhead
<1>2. ASSUME TimerInv PROVE SlicesNotEmpty
  <2>1. CASE pc = "advanced"
    <3>1. current_timer \in Cores /\ Rested(current_timer)
      BY <1>2, <2>1 DEF TimerInv, AllAdvanced, TimingTypeOK
    <3>2. TimingTypeOK /\ executed_ticks[current_timer] \in Int /\ MaxSlice \in Int /\ MaxSlice > 0
      <4>1. TimingTypeOK
        BY <1>2 DEF TimerInv
      <4> QED
        BY <3>1, <4>1, Typed
    <3>3. event_queue[current_timer] \in Queues
      BY <1>2, <3>1 DEF TimerInv, QueuesOrdered
    <3>4. CASE event_queue[current_timer] = <<>>
      BY <2>1, <3>2, <3>4 DEF SlicesNotEmpty, GetMaxSliceLength
    <3>5. CASE event_queue[current_timer] # <<>>
      <4> DEFINE h == Head(event_queue[current_timer])
      <4>1. h \in Range(event_queue[current_timer])
        BY <3>3, <3>5, HeadFirst
      <4>2. \A i \in 1 .. Len(event_queue[current_timer]) : event_queue[current_timer][i].time \in Int
        BY <3>3, QueueFacts
      <4>3. DOMAIN event_queue[current_timer] = 1 .. Len(event_queue[current_timer])
        BY <3>3, QueueFacts
      <4>4. h.time \in Int
        BY <4>1, <4>2, <4>3 DEF Range
      <4>5. executed_ticks[current_timer] < h.time
        BY <3>1, <4>1 DEF Rested
      <4>6. GetMaxSliceLength(current_timer) = h.time - executed_ticks[current_timer]
        BY <3>5 DEF GetMaxSliceLength
      <4> QED
        BY <2>1, <3>2, <4>4, <4>5, <4>6 DEF SlicesNotEmpty
    <3> QED
      BY <3>4, <3>5
  <2>2. CASE pc # "advanced"
    BY <1>2, <2>2 DEF SlicesNotEmpty, TimerInv, SlicesInv
  <2> QED
    BY <2>1, <2>2
<1> QED
  BY <1>1, <1>2, TimerInvariant, PTL DEF TimerInv

-----------------------------------------------------------------------------
(* The clocks of all cores, as long as no state is saved and loaded *)

\* What a core has used of its slice
Used(c) == slice_length[c] - downcount[c]

AheadOf(c, S) == {j \in S : Clock(j) > Clock(c)}

\* Cores are no further apart than min_delay and a slice, and one overshoot more for each
\* core that is ahead
CloseIn(S) ==
  \A b, c \in S :
    Clock(b) - Clock(c) <= MinDelay + MaxSlice + Overshoot * Cardinality(AheadOf(c, S))

\* The longest slice
Longest == MinDelay + MaxSlice + Overshoot * (NumCores - 1)

UsesKnown ==
  \A c \in Cores : slice_length[c] <= Longest /\ (is_timer_sane[c] => Used(c) = 0)

ClocksClose ==
  /\ loop.phase \in {"lag", "sync"} /\ pc # "run" => CloseIn(Cores)
  /\ loop.phase = "sync" => /\ \A a, b \in Cores : Clock(a) - Clock(b) <= MinDelay
                            /\ loop.max_slice <= MaxSlice

\* While the cores that are behind are looked for
LagInv ==
  loop.phase = "lag" /\ (pc = "lag" \/ Advancing) =>
    /\ \A c \in Cores : Clock(c) <= loop.global
    /\ \E m \in Cores : Clock(m) = loop.global
    /\ \A c \in Cores : c < loop.core => loop.global - Clock(c) <= loop.max_delay
    /\ loop.max_delay >= 0
    /\ loop.max_delay > 0 => /\ Clock(loop.lagging) = loop.global - loop.max_delay
                             /\ downcount[loop.lagging] <= loop.max_delay
    /\ Advancing => loop.start = loop.global - Clock(loop.core)

\* While the core furthest behind runs alone, for a slice that ends at the clock of another
LagRunInv ==
  pc = "run" /\ loop.phase = "lag" =>
    \A l \in Cores : l = current_timer =>
      /\ CloseIn(Cores \ {l})
      /\ \A b \in Cores : Clock(b) - Clock(l) <= Longest
      /\ \E m \in Cores \ {l} : executed_ticks[l] + slice_length[l] <= Clock(m)

\* The cores before the n-th that used more than t ticks
LongerThan(t, n) == {j \in Cores : j < n /\ Used(j) > t}

\* A core that used more than another did so one overshoot at a time
UsedEvenly(n) ==
  \A t \in Nat : t >= MaxSlice =>
    \A b \in Cores : b < n => Used(b) <= t + Overshoot * Cardinality(LongerThan(t, n))

\* While the cores run one after the other
SliceRunInv ==
  loop.phase = "slice" =>
    /\ \A a, b \in Cores : executed_ticks[a] - executed_ticks[b] <= MinDelay
    /\ \A n \in Cores : n = loop.core => UsedEvenly(n)
    /\ loop.core = 0 => loop.max_slice <= MaxSlice
    /\ loop.core > 0 => loop.max_slice = Used(loop.core - 1)
    /\ pc = "run" => /\ slice_length[loop.core] <= loop.max_slice
                     /\ loop.start = executed_ticks[loop.core]

ClockInv == UsesKnown /\ ClocksClose /\ LagInv /\ LagRunInv /\ SliceRunInv

\* Events that cores scheduled for others
CrossInv ==
  \A c \in Cores :
    /\ \A x \in Range(ts_queue[c]) : x.from = "core" => executed_ticks[c] <= x.time
    /\ \A x \in Range(event_queue[c]) : x.from = "core" => Clock(c) <= x.time + Reach + MinDelay

(* Multiples of the overshoot.                                                                *)
LEMMA Multiples ==
  ASSUME NEW o \in Nat, NEW m \in Nat, NEW n \in Nat
  PROVE  /\ o * m \in Nat /\ o * n \in Nat
         /\ m <= n => o * m <= o * n
         /\ m < n => o * m + o <= o * n
<1>1. o * m \in Nat /\ o * n \in Nat
  OBVIOUS
<1>2. m <= n => o * m <= o * n
  <2> SUFFICES ASSUME m <= n PROVE o * m <= o * n
    OBVIOUS
  <2>1. n - m \in Nat /\ o * (n - m) \in Nat /\ o * n = o * m + o * (n - m)
    OBVIOUS
  <2> QED
    BY <1>1, <2>1
<1>3. m < n => o * m + o <= o * n
  <2> SUFFICES ASSUME m < n PROVE o * m + o <= o * n
    OBVIOUS
  <2>1. n - m - 1 \in Nat /\ o * (n - m - 1) \in Nat /\ o * n = o * m + o + o * (n - m - 1)
    OBVIOUS
  <2> QED
    BY <1>1, <2>1
<1> QED
  BY <1>1, <1>2, <1>3

(* How many cores there are in a set.                                                         *)
LEMMA CoresCounted ==
  ASSUME TimingAssumption, NEW S \in SUBSET Cores
  PROVE  /\ IsFiniteSet(S) /\ Cardinality(S) \in Nat /\ Cardinality(S) <= NumCores
         /\ \A T \in SUBSET S : Cardinality(T) \in Nat /\ Cardinality(T) <= Cardinality(S)
         /\ \A x \in S : \A T \in SUBSET (S \ {x}) :
              Cardinality(T) \in Nat /\ Cardinality(T) < Cardinality(S)
<1>1. IsFiniteSet(Cores) /\ Cardinality(Cores) = NumCores
  <2>1. NumCores \in Nat \ {0} /\ Cores = 0 .. NumCores - 1
    BY DEF TimingAssumption, Cores
  <2>2. 0 \in Int /\ NumCores - 1 \in Int
    BY <2>1
  <2>3. /\ IsFiniteSet(0 .. NumCores - 1)
        /\ Cardinality(0 .. NumCores - 1) =
             IF 0 > NumCores - 1 THEN 0 ELSE (NumCores - 1) - 0 + 1
    BY <2>2, FS_Interval
  <2> QED
    BY <2>1, <2>3
<1>2. IsFiniteSet(S) /\ Cardinality(S) \in Nat /\ Cardinality(S) <= NumCores
  BY <1>1, FS_Subset, FS_CardinalityType
<1>3. \A T \in SUBSET S : Cardinality(T) \in Nat /\ Cardinality(T) <= Cardinality(S)
  BY <1>2, FS_Subset, FS_CardinalityType
<1>4. ASSUME NEW x \in S, NEW T \in SUBSET (S \ {x})
      PROVE  Cardinality(T) \in Nat /\ Cardinality(T) < Cardinality(S)
  <2>1. IsFiniteSet(S \ {x}) /\ Cardinality(S \ {x}) = Cardinality(S) - 1
    BY <1>2, FS_RemoveElement
  <2>2. Cardinality(T) \in Nat /\ Cardinality(T) <= Cardinality(S \ {x})
    BY <2>1, FS_Subset, FS_CardinalityType
  <2> QED
    BY <1>2, <2>1, <2>2
<1> QED
  BY <1>2, <1>3, <1>4

(* Clocks and slices of all cores.                                                            *)
LEMMA ClockFacts ==
  ASSUME TimingAssumption, TimerInv, NEW c \in Cores
  PROVE  /\ executed_ticks[c] \in Int /\ slice_length[c] \in Int /\ downcount[c] \in Int
         /\ Clock(c) \in Int /\ Used(c) \in Int /\ Clock(c) = executed_ticks[c] + Used(c)
         /\ Used(c) >= 0 /\ Used(c) <= slice_length[c] + Overshoot
         /\ Clock(c) <= executed_ticks[c] + slice_length[c] + Overshoot
         /\ is_timer_sane[c] \in BOOLEAN
         /\ Rested(c) => Clock(c) = executed_ticks[c] /\ Used(c) = 0
<1>1. /\ executed_ticks[c] \in Int /\ slice_length[c] \in Int /\ downcount[c] \in Int
      /\ is_timer_sane[c] \in BOOLEAN /\ Overshoot \in Nat
  BY Typed DEF TimerInv
<1>2. - Overshoot <= downcount[c] /\ downcount[c] <= slice_length[c]
  BY DEF TimerInv, SlicesInv
<1> QED
  BY <1>1, <1>2 DEF Clock, Used, Rested

(* The constants that bound them.                                                             *)
LEMMA BoundFacts ==
  ASSUME TimingAssumption
  PROVE  /\ NumCores \in Nat \ {0} /\ MaxSlice \in Nat \ {0} /\ MinDelay \in Nat
         /\ Overshoot \in Nat /\ MinDelay <= MaxSlice
         /\ Cores = 0 .. NumCores - 1
         /\ Longest \in Nat /\ Longest + Overshoot = Reach + MinDelay
         /\ \A n \in Nat : n < NumCores =>
              /\ Overshoot * n \in Nat
              /\ MinDelay + MaxSlice + Overshoot * n <= Longest
<1>1. /\ NumCores \in Nat \ {0} /\ MaxSlice \in Nat \ {0} /\ MinDelay \in Nat
      /\ Overshoot \in Nat /\ MinDelay <= MaxSlice /\ Cores = 0 .. NumCores - 1
  BY DEF TimingAssumption, Cores
<1>2. NumCores - 1 \in Nat /\ Overshoot * (NumCores - 1) \in Nat
  BY <1>1
<1>3. NumCores * Overshoot = Overshoot * (NumCores - 1) + Overshoot
  BY <1>1
<1>4. Longest \in Nat /\ Longest + Overshoot = Reach + MinDelay
  BY <1>1, <1>2, <1>3 DEF Longest, Reach
<1>5. ASSUME NEW n \in Nat, n < NumCores
      PROVE  Overshoot * n \in Nat /\ MinDelay + MaxSlice + Overshoot * n <= Longest
  <2>1. n <= NumCores - 1
    BY <1>1, <1>5
  <2>2. Overshoot * n \in Nat /\ Overshoot * n <= Overshoot * (NumCores - 1)
    BY <1>1, <1>2, <2>1, Multiples
  <2> QED
    BY <1>1, <1>2, <2>2 DEF Longest
<1> QED
  BY <1>1, <1>4, <1>5

(* Cores that are close are no further apart than the longest slice.                          *)
LEMMA CloseBounded ==
  ASSUME TimingAssumption, TimerInv, NEW S \in SUBSET Cores, CloseIn(S), NEW b \in S, NEW c \in S
  PROVE  /\ Cardinality(AheadOf(c, S)) \in Nat /\ Cardinality(AheadOf(c, S)) < NumCores
         /\ Clock(b) - Clock(c) <= Longest
<1>1. c \notin AheadOf(c, S) /\ AheadOf(c, S) \subseteq S
  BY ClockFacts DEF AheadOf
<1>2. /\ Cardinality(AheadOf(c, S)) \in Nat /\ Cardinality(AheadOf(c, S)) < NumCores
  <2>1. AheadOf(c, S) \in SUBSET (S \ {c})
    BY <1>1
  <2>2. Cardinality(AheadOf(c, S)) \in Nat /\ Cardinality(AheadOf(c, S)) < Cardinality(S)
    BY <2>1, CoresCounted
  <2>3. Cardinality(S) \in Nat /\ Cardinality(S) <= NumCores
    BY CoresCounted
  <2> QED
    BY <2>2, <2>3, BoundFacts
<1>3. MinDelay + MaxSlice + Overshoot * Cardinality(AheadOf(c, S)) <= Longest
  BY <1>2, BoundFacts
<1>4. Clock(b) - Clock(c) <= MinDelay + MaxSlice + Overshoot * Cardinality(AheadOf(c, S))
  BY DEF CloseIn
<1>5. Clock(b) \in Int /\ Clock(c) \in Int
  BY ClockFacts
<1>6. Overshoot * Cardinality(AheadOf(c, S)) \in Nat /\ MinDelay \in Nat /\ MaxSlice \in Nat /\ Longest \in Nat
  BY <1>2, BoundFacts
<1> HIDE DEF Longest
<1> QED
  BY <1>2, <1>3, <1>4, <1>5, <1>6

(* They are still close when all of them move by as much.                                     *)
LEMMA CloseKept ==
  ASSUME TimingAssumption, TimerInv, NEW S \in SUBSET Cores, NEW k \in Int, CloseIn(S),
         \A c \in S : Clock(c)' = Clock(c) + k
  PROVE  CloseIn(S)'
<1>1. \A c \in S : Clock(c) \in Int
  BY ClockFacts
<1>2. ASSUME NEW c \in S PROVE AheadOf(c, S)' = AheadOf(c, S)
  <2>1. \A j \in S : (Clock(j) > Clock(c))' <=> Clock(j) > Clock(c)
    BY <1>1
  <2> QED
    BY <2>1 DEF AheadOf
<1> SUFFICES ASSUME NEW b \in S, NEW c \in S
             PROVE  Clock(b)' - Clock(c)' <=
                      MinDelay + MaxSlice + Overshoot * Cardinality(AheadOf(c, S)')
  BY DEF CloseIn
<1>3. Clock(b) - Clock(c) <= MinDelay + MaxSlice + Overshoot * Cardinality(AheadOf(c, S))
  BY DEF CloseIn
<1>4. Clock(b)' - Clock(c)' = Clock(b) - Clock(c)
  BY <1>1
<1> QED
  BY <1>2, <1>3, <1>4

(* Steps that leave clocks and slices alone, and stay in the same part of the loop.           *)
LEMMA QuietClocks ==
  ASSUME ClockInv, UsesKnown',
         UNCHANGED <<executed_ticks, slice_length, downcount, current_timer, loop>>,
         (pc = "run") <=> (pc' = "run"), (pc = "lag") <=> (pc' = "lag"),
         Advancing <=> Advancing'
  PROVE  ClockInv'
<1>1. ClocksClose'
  BY DEF ClockInv, ClocksClose, CloseIn, AheadOf, Clock
<1>2. LagInv'
  BY DEF ClockInv, LagInv, Clock
<1>3. LagRunInv'
  BY DEF ClockInv, LagRunInv, CloseIn, AheadOf, Clock, Longest
<1>4. SliceRunInv'
  BY DEF ClockInv, SliceRunInv, UsedEvenly, LongerThan, Used
<1> QED
  BY <1>1, <1>2, <1>3, <1>4 DEF ClockInv

(* Callbacks, and host threads.                                                               *)
LEMMA QuietStepsClocks ==
  ASSUME ClockInv,
         \/ FireEvent \/ CallbackReturns \/ HostStep
         \/ \E e \in Events : UnscheduleEvent(e)
  PROVE  ClockInv'
<1>1. UNCHANGED <<executed_ticks, slice_length, downcount, is_timer_sane, current_timer, loop>>
  BY DEF FireEvent, CallbackReturns, HostStep, HostStart, HostRead, HostPush, UnscheduleEvent,
     clock, control
<1>2. \/ pc \in {"events", "callback"} /\ pc' \in {"events", "callback"}
      \/ pc' = pc
  BY DEF FireEvent, CallbackReturns, HostStep, HostStart, HostRead, HostPush, UnscheduleEvent, control
<1>3. UsesKnown'
  BY <1>1 DEF ClockInv, UsesKnown, Used, Longest
<1> QED
  BY <1>1, <1>2, <1>3, QuietClocks DEF Advancing

(* A new iteration takes all clocks relative to the slowest core.                             *)
LEMMA StartIterationClocks ==
  ASSUME TimingAssumption, TimerInv, ClockInv, StartIteration
  PROVE  ClockInv'
<1> DEFINE base == IF Remembers THEN 0 ELSE Min({executed_ticks[c] : c \in Cores})
<1>1. /\ pc = "top" /\ pc' = "lag"
      /\ executed_ticks' = [c \in Cores |-> executed_ticks[c] - base]
      /\ loop' = [Locals EXCEPT !.global = GetGlobalTicks - base]
      /\ UNCHANGED <<slice_length, downcount, is_timer_sane, current_timer, host>>
  BY DEF StartIteration
<1>2. /\ base \in Int /\ GetGlobalTicks \in Int /\ TimingTypeOK
      /\ \A c \in Cores : GetTicks(c) <= GetGlobalTicks
      /\ \E m \in Cores : GetTicks(m) = GetGlobalTicks
  BY GlobalTicks DEF TimerInv
<1> HIDE DEF base
<1>3. /\ loop'.phase = "lag" /\ loop'.core = 0 /\ loop'.max_delay = 0
      /\ loop'.global = GetGlobalTicks - base
  BY <1>1 DEF Locals
<1>4. \A c \in Cores : Clock(c)' = Clock(c) + (- base)
  <2> SUFFICES ASSUME NEW c \in Cores PROVE Clock(c)' = Clock(c) + (- base)
    OBVIOUS
  <2>1. executed_ticks[c] \in Int /\ slice_length[c] \in Int /\ downcount[c] \in Int
    BY ClockFacts
  <2> QED
    BY <1>1, <1>2, <2>1 DEF Clock
<1>5. \A c \in Cores : GetTicks(c) = Clock(c) /\ Clock(c) \in Int
  <2> SUFFICES ASSUME NEW c \in Cores PROVE GetTicks(c) = Clock(c) /\ Clock(c) \in Int
    OBVIOUS
  <2>1. /\ executed_ticks[c] \in Int /\ slice_length[c] \in Int /\ downcount[c] \in Int
        /\ Clock(c) \in Int
    BY ClockFacts
  <2>2. is_timer_sane[c] => slice_length[c] - downcount[c] = 0
    BY DEF ClockInv, UsesKnown, Used
  <2> QED
    BY <2>1, <2>2 DEF GetTicks, Clock
<1>6. UsesKnown'
  BY <1>1 DEF ClockInv, UsesKnown, Used, Longest
<1>7. ClocksClose'
  <2>1. CloseIn(Cores)
    BY <1>1 DEF TimerInv, LoopInPhase, ClockInv, ClocksClose
  <2>2. - base \in Int
    BY <1>2
  <2>3. CloseIn(Cores)'
    BY <1>4, <2>1, <2>2, CloseKept
  <2> QED
    BY <1>3, <2>3 DEF ClocksClose
<1>8. LagInv'
  <2>1. \A c \in Cores : Clock(c)' <= loop'.global
    BY <1>2, <1>3, <1>4, <1>5
  <2>2. \E m \in Cores : Clock(m)' = loop'.global
    BY <1>2, <1>3, <1>4, <1>5
  <2>3. \A c \in Cores : ~ (c < 0)
    BY BoundFacts
  <2>4. ~ Advancing'
    BY <1>1 DEF Advancing
  <2> QED
    BY <1>3, <2>1, <2>2, <2>3, <2>4 DEF LagInv
<1>9. LagRunInv' /\ SliceRunInv'
  BY <1>1, <1>3 DEF LagRunInv, SliceRunInv
<1> QED
  BY <1>6, <1>7, <1>8, <1>9 DEF ClockInv

(* Clocks stay close when none of them moves.                                                 *)
LEMMA CloseStill ==
  ASSUME TimingAssumption, TimerInv, NEW S \in SUBSET Cores, CloseIn(S),
         \A c \in Cores : Clock(c)' = Clock(c)
  PROVE  CloseIn(S)'
<1>1. \A c \in S : Clock(c)' = Clock(c) + 0
  BY ClockFacts
<1> QED
  BY <1>1, CloseKept

(* The clock of a core that is behind is compared with the time of all cores.                 *)
LEMMA LagNextClocks ==
  ASSUME TimingAssumption, TimerInv, ClockInv, LagNext
  PROVE  ClockInv'
<1>1. pc = "lag" /\ loop.phase = "lag" /\ loop.core \in Cores /\ loop.core \in Nat
  <2>1. pc = "lag" /\ loop.phase = "lag" /\ loop.core < NumCores
    BY DEF LagNext, TimerInv, LoopInPhase
  <2>2. loop.core \in Nat
    BY Typed DEF TimerInv
  <2> QED
    BY <2>1, <2>2, BoundFacts
<1>2. UNCHANGED <<executed_ticks, slice_length, downcount, is_timer_sane>>
  BY DEF LagNext, clock
<1>3. GetTicks(loop.core) = Clock(loop.core) /\ Clock(loop.core) \in Int
  <2>1. \A c \in Cores : /\ executed_ticks[c] \in Int /\ slice_length[c] \in Int /\ downcount[c] \in Int
                         /\ Clock(c) \in Int
    BY ClockFacts
  <2>2. is_timer_sane[loop.core] => slice_length[loop.core] - downcount[loop.core] = 0
    BY <1>1 DEF ClockInv, UsesKnown, Used
  <2> QED
    BY <1>1, <2>1, <2>2 DEF GetTicks, Clock
<1>4. /\ loop'.phase = "lag" /\ loop'.global = loop.global /\ loop'.max_delay = loop.max_delay
      /\ loop'.lagging = loop.lagging
  BY <1>1, Typed DEF LagNext, TimerInv, Loops
<1>5. \/ /\ pc' = "advance" /\ loop'.core = loop.core
         /\ loop'.start = loop.global - Clock(loop.core)
      \/ /\ pc' = "lag" /\ loop'.core = loop.core + 1 /\ ~ (Clock(loop.core) < loop.global)
  BY <1>1, <1>3, Typed DEF LagNext, Begin, TimerInv, Loops
<1>6. UsesKnown'
  BY <1>2 DEF ClockInv, UsesKnown, Used, Longest
<1>7. ClocksClose'
  <2>1. CloseIn(Cores)
    BY <1>1 DEF ClockInv, ClocksClose
  <2>2. CloseIn(Cores)'
    BY <1>2, <2>1, CloseStill DEF Clock
  <2> QED
    BY <1>4, <2>2 DEF ClocksClose
<1>8. LagInv'
  <2>1. /\ \A c \in Cores : Clock(c) <= loop.global
        /\ \E m \in Cores : Clock(m) = loop.global
        /\ \A c \in Cores : c < loop.core => loop.global - Clock(c) <= loop.max_delay
        /\ loop.max_delay >= 0
        /\ loop.max_delay > 0 => /\ Clock(loop.lagging) = loop.global - loop.max_delay
                                 /\ downcount[loop.lagging] <= loop.max_delay
    BY <1>1 DEF ClockInv, LagInv
  <2>2. \A c \in Cores : Clock(c)' = Clock(c)
    BY <1>2 DEF Clock
  <2>3. loop.lagging \in Cores /\ loop.global \in Int /\ loop.max_delay \in Int
    BY Typed DEF TimerInv
  <2>4. \A c \in Cores : c < loop'.core => loop.global - Clock(c) <= loop.max_delay
    <3> SUFFICES ASSUME NEW c \in Cores, c < loop'.core
                 PROVE  loop.global - Clock(c) <= loop.max_delay
      OBVIOUS
    <3>1. CASE c < loop.core
      BY <2>1, <3>1
    <3>2. CASE c = loop.core
      <4>1. ~ (Clock(loop.core) < loop.global)
        BY <1>1, <1>5, <3>2
      <4> QED
        BY <1>3, <2>1, <2>3, <3>2, <4>1
    <3>3. c \in Nat /\ (c < loop.core \/ c = loop.core)
      BY <1>1, <1>5, BoundFacts
    <3> QED
      BY <3>1, <3>2, <3>3
  <2>5. Advancing' => loop'.start = loop.global - Clock(loop.core) /\ loop'.core = loop.core
    BY <1>5 DEF Advancing
  <2> QED
    BY <1>1, <1>2, <1>4, <2>1, <2>2, <2>3, <2>4, <2>5 DEF LagInv
<1>9. LagRunInv' /\ SliceRunInv'
  BY <1>4, <1>5 DEF LagRunInv, SliceRunInv
<1> QED
  BY <1>6, <1>7, <1>8, <1>9 DEF ClockInv

(* The timer advances: what was used of the slice becomes executed.                           *)
LEMMA AdvanceClocks ==
  ASSUME TimingAssumption, TimerInv, ClockInv, Advance
  PROVE  ClockInv'
<1> DEFINE L == current_timer
<1>0. /\ UNCHANGED <<current_timer, loop>> /\ pc = "advance" /\ pc' = "events" /\ L \in Cores
      /\ loop.core = L /\ loop.phase \in {"lag", "sync"}
      /\ executed_ticks' = [executed_ticks EXCEPT ![L] = @ + slice_length[L] - downcount[L]]
      /\ slice_length' = [slice_length EXCEPT ![L] = 0]
      /\ downcount' = [downcount EXCEPT ![L] = 0]
      /\ is_timer_sane' = [is_timer_sane EXCEPT ![L] = TRUE]
  BY Typed DEF Advance, TimerInv, LoopInPhase, Advancing
<1> HIDE DEF L
<1>1. /\ executed_ticks \in [Cores -> Int] /\ slice_length \in [Cores -> Int]
      /\ downcount \in [Cores -> Int] /\ is_timer_sane \in [Cores -> BOOLEAN]
  BY DEF TimerInv, TimingTypeOK
<1>2. \A c \in Cores :
        c # L => /\ executed_ticks'[c] = executed_ticks[c] /\ slice_length'[c] = slice_length[c]
                 /\ downcount'[c] = downcount[c] /\ is_timer_sane'[c] = is_timer_sane[c]
  BY <1>0, <1>1
<1>3. /\ executed_ticks'[L] = executed_ticks[L] + slice_length[L] - downcount[L]
      /\ slice_length'[L] = 0 /\ downcount'[L] = 0
  BY <1>0, <1>1
<1>4. \A c \in Cores : Clock(c)' = Clock(c)
  <2> SUFFICES ASSUME NEW c \in Cores PROVE Clock(c)' = Clock(c)
    OBVIOUS
  <2>1. executed_ticks[c] \in Int /\ slice_length[c] \in Int /\ downcount[c] \in Int
    BY ClockFacts
  <2> QED
    BY <1>2, <1>3, <2>1 DEF Clock
<1>5. UsesKnown'
  <2> SUFFICES ASSUME NEW c \in Cores
               PROVE  slice_length'[c] <= Longest /\ (is_timer_sane'[c] => Used(c)' = 0)
    BY DEF UsesKnown, Longest
  <2>1. CASE c = L
    BY <1>3, <2>1, BoundFacts DEF Used
  <2>2. CASE c # L
    BY <1>2, <2>2 DEF ClockInv, UsesKnown, Used
  <2> QED
    BY <2>1, <2>2
<1>6. ClocksClose'
  <2>1. CloseIn(Cores)
    BY <1>0 DEF ClockInv, ClocksClose
  <2>2. CloseIn(Cores)'
    BY <1>4, <2>1, CloseStill
  <2>3. loop.phase = "sync" => /\ \A a, b \in Cores : Clock(a)' - Clock(b)' <= MinDelay
                               /\ loop.max_slice <= MaxSlice
    BY <1>4 DEF ClockInv, ClocksClose
  <2> QED
    BY <1>0, <2>2, <2>3 DEF ClocksClose
<1>7. LagInv'
  <2> SUFFICES ASSUME loop.phase = "lag"
               PROVE  /\ \A c \in Cores : Clock(c)' <= loop.global
                      /\ \E m \in Cores : Clock(m)' = loop.global
                      /\ \A c \in Cores : c < loop.core => loop.global - Clock(c)' <= loop.max_delay
                      /\ loop.max_delay >= 0
                      /\ loop.max_delay > 0 =>
                           /\ Clock(loop.lagging)' = loop.global - loop.max_delay
                           /\ downcount'[loop.lagging] <= loop.max_delay
                      /\ loop.start = loop.global - Clock(loop.core)'
    BY <1>0 DEF LagInv
  <2>1. /\ \A c \in Cores : Clock(c) <= loop.global
        /\ \E m \in Cores : Clock(m) = loop.global
        /\ \A c \in Cores : c < loop.core => loop.global - Clock(c) <= loop.max_delay
        /\ loop.max_delay >= 0
        /\ loop.max_delay > 0 => /\ Clock(loop.lagging) = loop.global - loop.max_delay
                                 /\ downcount[loop.lagging] <= loop.max_delay
        /\ loop.start = loop.global - Clock(loop.core)
    BY <1>0 DEF ClockInv, LagInv, Advancing
  <2>2. loop.lagging \in Cores
    BY Typed DEF TimerInv
  <2>3. loop.max_delay > 0 => loop.lagging # L
    <3>1. loop.max_delay > 0 => loop.lagging < loop.core
      BY <1>0 DEF TimerInv, TimersSane, Advancing
    <3> QED
      BY <1>0, <2>2, <3>1, BoundFacts
  <2>4. loop.max_delay > 0 => /\ Clock(loop.lagging)' = loop.global - loop.max_delay
                              /\ downcount'[loop.lagging] <= loop.max_delay
    <3> SUFFICES ASSUME loop.max_delay > 0
                 PROVE  /\ Clock(loop.lagging)' = Clock(loop.lagging)
                        /\ downcount'[loop.lagging] = downcount[loop.lagging]
      BY <2>1
    <3>1. downcount'[loop.lagging] = downcount[loop.lagging]
      BY <1>2, <2>2, <2>3
    <3>2. Clock(loop.lagging)' = Clock(loop.lagging)
      <4>1. /\ executed_ticks'[loop.lagging] = executed_ticks[loop.lagging]
            /\ slice_length'[loop.lagging] = slice_length[loop.lagging]
        BY <1>2, <2>2, <2>3
      <4>2. loop'.lagging = loop.lagging
        BY <1>0
      <4> QED
        BY <3>1, <4>1, <4>2 DEF Clock
    <3> QED
      BY <3>1, <3>2
  <2>5. Clock(loop.core)' = Clock(loop.core)
    <3>1. Clock(L)' = executed_ticks'[L] + slice_length'[L] - downcount'[L] /\ loop'.core = L
      BY <1>0 DEF Clock, L
    <3>2. executed_ticks[L] \in Int /\ slice_length[L] \in Int /\ downcount[L] \in Int
      BY <1>0, ClockFacts
    <3>3. Clock(loop.core)' = executed_ticks'[L] + slice_length'[L] - downcount'[L]
      BY <3>1 DEF Clock
    <3> QED
      BY <1>0, <1>3, <3>2, <3>3 DEF Clock
  <2> QED
    BY <1>4, <2>1, <2>4, <2>5
<1>8. LagRunInv' /\ SliceRunInv'
  BY <1>0 DEF LagRunInv, SliceRunInv
<1> QED
  BY <1>5, <1>6, <1>7, <1>8 DEF ClockInv

(* No event is due any more.                                                                  *)
LEMMA AdvanceEndsClocks ==
  ASSUME TimingAssumption, TimerInv, ClockInv, AdvanceEnds
  PROVE  ClockInv'
<1>1. /\ UNCHANGED <<executed_ticks, slice_length, downcount, current_timer, loop>>
      /\ pc = "events" /\ pc' = "advanced"
      /\ is_timer_sane' = [is_timer_sane EXCEPT ![current_timer] = FALSE]
  BY DEF AdvanceEnds
<1>2. is_timer_sane \in [Cores -> BOOLEAN]
  BY DEF TimerInv, TimingTypeOK
<1>3. \A c \in Cores : is_timer_sane'[c] => is_timer_sane[c]
  BY <1>1, <1>2
<1>4. UsesKnown'
  BY <1>1, <1>3 DEF ClockInv, UsesKnown, Used, Longest
<1> QED
  BY <1>1, <1>4, QuietClocks DEF Advancing

(* A core that was behind gets a slice that ends no later than the clock of another.          *)
LEMMA LagAdvancedClocks ==
  ASSUME TimingAssumption, TimerInv, ClockInv, LagAdvanced
  PROVE  ClockInv'
<1>0. /\ TimingTypeOK /\ UNCHANGED <<executed_ticks, is_timer_sane, current_timer>> /\ pc = "advanced"
      /\ loop.phase = "lag" /\ loop.core = current_timer /\ pc' = "lag"
      /\ SetNextSlice(loop.core, loop.start)
  BY DEF LagAdvanced, TimerInv, LoopInPhase, Advancing
<1> DEFINE L == loop.core
<1>1. /\ L \in Cores /\ loop \in Loops /\ loop.start \in Int /\ loop.start > 0 /\ Rested(L)
      /\ L \in Nat /\ L < NumCores /\ NumCores \in Nat /\ loop.max_delay \in Int
      /\ loop.global \in Int /\ loop.lagging \in Cores
  BY <1>0, Typed DEF TimerInv, AllAdvanced, SlicesInv, Advancing
<1> HIDE DEF L
<1>2. PICK n \in Int :
        /\ n > 0 /\ n <= loop.start
        /\ slice_length' = [slice_length EXCEPT ![L] = n]
        /\ downcount' = [downcount EXCEPT ![L] = n]
  BY <1>0, <1>1, SliceGiven DEF L, TimerInv
<1>3. slice_length \in [Cores -> Int] /\ downcount \in [Cores -> Int]
  BY <1>0 DEF TimingTypeOK
<1>4. \A c \in Cores : /\ slice_length'[c] = IF c = L THEN n ELSE slice_length[c]
                       /\ downcount'[c] = IF c = L THEN n ELSE downcount[c]
  BY <1>1, <1>2, <1>3
<1>5. /\ loop'.phase = "lag" /\ loop'.core = L + 1 /\ loop'.global = loop.global
      /\ \/ /\ ~ (loop.max_delay < loop.start)
            /\ loop'.max_delay = loop.max_delay /\ loop'.lagging = loop.lagging
         \/ /\ loop.max_delay < loop.start
            /\ loop'.max_delay = loop.start /\ loop'.lagging = L
  <2> DEFINE counted == [loop EXCEPT !.core = @ + 1]
  <2>2. /\ counted.phase = "lag" /\ counted.core = L + 1 /\ counted.global = loop.global
        /\ counted.max_delay = loop.max_delay /\ counted.lagging = loop.lagging
        /\ counted = [phase |-> loop.phase, core |-> L + 1, global |-> loop.global,
             max_delay |-> loop.max_delay, lagging |-> loop.lagging, max_slice |-> loop.max_slice,
             start |-> loop.start]
    BY <1>0, <1>1 DEF Loops, L
  <2>3. loop' = IF loop.max_delay < loop.start
                THEN [counted EXCEPT !.max_delay = loop.start, !.lagging = L] ELSE counted
    BY DEF LagAdvanced, L
  <2> HIDE DEF counted
  <2>4. CASE loop.max_delay < loop.start
    BY <2>2, <2>3, <2>4
  <2>5. CASE ~(loop.max_delay < loop.start)
    BY <2>2, <2>3, <2>5
  <2> QED
    BY <2>4, <2>5
<1>6. \A c \in Cores : Clock(c)' = Clock(c)
  <2> SUFFICES ASSUME NEW c \in Cores PROVE Clock(c)' = Clock(c)
    OBVIOUS
  <2>1. executed_ticks[c] \in Int /\ slice_length[c] \in Int /\ downcount[c] \in Int
    BY ClockFacts
  <2>2. slice_length[L] = 0 /\ downcount[L] = 0
    BY <1>1 DEF Rested
  <2> QED
    BY <1>0, <1>2, <1>4, <2>1, <2>2 DEF Clock
<1>7. CloseIn(Cores) /\ CloseIn(Cores)'
  <2>1. CloseIn(Cores)
    BY <1>0 DEF ClockInv, ClocksClose
  <2> QED
    BY <1>6, <2>1, CloseStill
<1>8. ClocksClose'
  BY <1>5, <1>7 DEF ClocksClose
<1>9. /\ \A c \in Cores : Clock(c) <= loop.global
      /\ \E m \in Cores : Clock(m) = loop.global
      /\ \A c \in Cores : c < L => loop.global - Clock(c) <= loop.max_delay
      /\ loop.max_delay >= 0
      /\ loop.max_delay > 0 => /\ Clock(loop.lagging) = loop.global - loop.max_delay
                               /\ downcount[loop.lagging] <= loop.max_delay
      /\ loop.start = loop.global - Clock(L)
  BY <1>0 DEF ClockInv, LagInv, Advancing, L
<1>10. UsesKnown'
  <2>1. n <= Longest
    <3>1. PICK m \in Cores : Clock(m) = loop.global
      BY <1>9
    <3>2. Clock(m) - Clock(L) <= Longest
      BY <1>1, <1>7, CloseBounded
    <3>3. Longest \in Nat
      BY BoundFacts
    <3> QED
      BY <1>1, <1>2, <1>9, <3>1, <3>2, <3>3
  <2>2. \A c \in Cores : is_timer_sane[c] => c # L
    BY <1>1 DEF Rested
  <2>3. \A c \in Cores : slice_length[c] <= Longest /\ (is_timer_sane[c] => Used(c) = 0)
    BY DEF ClockInv, UsesKnown
  <2>4. \A c \in Cores : slice_length'[c] <= Longest
    BY <1>4, <2>1, <2>3
  <2>5. \A c \in Cores : is_timer_sane[c] => Used(c)' = 0
    BY <1>4, <2>2, <2>3 DEF Used
  <2> QED
    BY <1>0, <2>4, <2>5 DEF UsesKnown, Longest
<1>11. LagInv'
  <2>1. \A c \in Cores : Clock(c) \in Int
    BY ClockFacts
  <2>2. ASSUME NEW c \in Cores, c < L + 1 PROVE loop.global - Clock(c) <= loop'.max_delay
    <3>1. c \in Nat /\ (c < L \/ c = L)
      BY <1>1, <2>2, BoundFacts
    <3> QED
      BY <1>1, <1>5, <1>9, <2>1, <3>1
  <2>3. loop'.max_delay >= 0 /\ loop'.lagging \in Cores
    BY <1>1, <1>5, <1>9
  <2>4. loop'.max_delay > 0 => /\ Clock(loop'.lagging) = loop.global - loop'.max_delay
                               /\ downcount'[loop'.lagging] <= loop'.max_delay
    <3> SUFFICES ASSUME loop'.max_delay > 0
                 PROVE  /\ Clock(loop'.lagging) = loop.global - loop'.max_delay
                        /\ downcount'[loop'.lagging] <= loop'.max_delay
      OBVIOUS
    <3>1. CASE loop'.max_delay = loop.start /\ loop'.lagging = L
      <4>1. Clock(L) \in Int
        BY <1>1, <2>1
      <4> QED
        BY <1>1, <1>2, <1>4, <1>9, <3>1, <4>1
    <3>2. CASE loop'.max_delay = loop.max_delay /\ loop'.lagging = loop.lagging
      <4>1. loop.lagging # L
        <5>1. loop.lagging < L
          BY <1>0, <3>2 DEF TimerInv, TimersSane, Advancing, L
        <5>2. loop.lagging \in Nat /\ L \in Nat
          BY <1>0, <1>1, Typed
        <5> QED
          BY <5>1, <5>2
      <4>2. downcount'[loop.lagging] = downcount[loop.lagging]
        BY <1>1, <1>4, <4>1
      <4> QED
        BY <1>9, <3>2, <4>2
    <3> QED
      BY <1>5, <3>1, <3>2
  <2>5. loop'.max_delay > 0 => Clock(loop.lagging)' = Clock(loop'.lagging)
    <3>1. \A c \in Cores : c = loop'.lagging => Clock(loop.lagging)' = Clock(c)'
      BY DEF Clock
    <3>2. Clock(loop.lagging)' = Clock(loop'.lagging)
      BY <1>6, <2>3, <3>1
    <3> QED
      BY <3>2
  <2>6. ~ Advancing'
    BY <1>0 DEF Advancing
  <2>7. \A c \in Cores : c < loop'.core => loop'.global - Clock(c)' <= loop'.max_delay
    BY <1>5, <1>6, <2>2
  <2>8. loop'.max_delay > 0 => /\ Clock(loop.lagging)' = loop'.global - loop'.max_delay
                               /\ downcount'[loop'.lagging] <= loop'.max_delay
    BY <1>5, <2>4, <2>5
  <2> QED
    BY <1>5, <1>6, <1>9, <2>3, <2>6, <2>7, <2>8 DEF LagInv
<1>12. LagRunInv' /\ SliceRunInv'
  BY <1>0, <1>5 DEF LagRunInv, SliceRunInv
<1> QED
  BY <1>8, <1>10, <1>11, <1>12 DEF ClockInv

(* The core furthest behind runs alone up to the clock of another core, or all of them are    *)
(* within min_delay of each other.                                                            *)
LEMMA LagEndsClocks ==
  ASSUME TimingAssumption, TimerInv, ClockInv, LagEnds
  PROVE  ClockInv'
<1>0. /\ UNCHANGED <<executed_ticks, slice_length, downcount, is_timer_sane>>
      /\ pc = "lag" /\ loop.core = NumCores /\ loop.phase = "lag"
  BY DEF LagEnds, clock, TimerInv, LoopInPhase
<1>1. /\ CloseIn(Cores)
      /\ \A c \in Cores : Clock(c) <= loop.global
      /\ \E m \in Cores : Clock(m) = loop.global
      /\ \A c \in Cores : loop.global - Clock(c) <= loop.max_delay
      /\ loop.max_delay > 0 => /\ Clock(loop.lagging) = loop.global - loop.max_delay
                               /\ downcount[loop.lagging] <= loop.max_delay
  <2>1. \A c \in Cores : c < loop.core
    BY <1>0, BoundFacts
  <2> QED
    BY <1>0, <2>1 DEF ClockInv, LagInv, ClocksClose
<1>2. \A c \in Cores : Clock(c)' = Clock(c)
  BY <1>0 DEF Clock
<1>3. /\ loop.lagging \in Cores /\ loop.global \in Int /\ loop.max_delay \in Int
      /\ \A c \in Cores : Clock(c) \in Int
  BY ClockFacts, Typed DEF TimerInv
<1>4. UsesKnown'
  BY <1>0 DEF ClockInv, UsesKnown, Used, Longest
<1>5. CASE loop.max_delay > MinDelay
  <2>1. current_timer' = loop.lagging /\ pc' = "run" /\ loop'.phase = "lag"
    BY <1>5 DEF LagEnds, Locals
  <2>2. ClocksClose' /\ LagInv' /\ SliceRunInv'
    BY <2>1 DEF ClocksClose, LagInv, SliceRunInv, Advancing
  <2>3. ASSUME NEW l \in Cores, l = loop.lagging
        PROVE  /\ CloseIn(Cores \ {l})'
               /\ \A b \in Cores : Clock(b) - Clock(l) <= Longest
               /\ \E m \in Cores \ {l} : executed_ticks[l] + slice_length[l] <= Clock(m)
    <3>1. /\ loop.max_delay > 0 /\ Clock(l) = loop.global - loop.max_delay
          /\ downcount[l] <= loop.max_delay
      BY <1>1, <1>3, <1>5, <2>3, BoundFacts
    <3>2. CloseIn(Cores \ {l})
      <4> SUFFICES ASSUME NEW b \in Cores \ {l}, NEW c \in Cores \ {l}
                   PROVE  Clock(b) - Clock(c) <=
                            MinDelay + MaxSlice + Overshoot * Cardinality(AheadOf(c, Cores \ {l}))
        BY DEF CloseIn
      <4>1. ~ (Clock(l) > Clock(c))
        BY <1>1, <1>3, <3>1
      <4>2. AheadOf(c, Cores \ {l}) = AheadOf(c, Cores)
        BY <4>1 DEF AheadOf
      <4> QED
        BY <1>1, <4>2 DEF CloseIn
    <3>3. CloseIn(Cores \ {l})'
      BY <1>2, <3>2, CloseStill
    <3>4. \A b \in Cores : Clock(b) - Clock(l) <= Longest
      BY <1>1, CloseBounded
    <3>5. PICK m \in Cores : Clock(m) = loop.global
      BY <1>1
    <3>6. m # l
      BY <1>3, <3>1, <3>5
    <3>7. executed_ticks[l] + slice_length[l] <= Clock(m)
      <4>1. executed_ticks[l] \in Int /\ slice_length[l] \in Int /\ downcount[l] \in Int
        BY ClockFacts
      <4>2. executed_ticks[l] + slice_length[l] = Clock(l) + downcount[l]
        BY <4>1 DEF Clock
      <4> QED
        BY <1>3, <3>1, <3>5, <4>1, <4>2
    <3> QED
      BY <3>3, <3>4, <3>5, <3>6, <3>7
  <2>4. LagRunInv'
    <3> SUFFICES ASSUME NEW l \in Cores, l = loop.lagging
                 PROVE  /\ CloseIn(Cores \ {l})'
                        /\ \A b \in Cores : Clock(b)' - Clock(l)' <= Longest
                        /\ \E m \in Cores \ {l} : executed_ticks[l] + slice_length[l] <= Clock(m)'
      BY <1>0, <2>1 DEF LagRunInv, Longest
    <3> QED
      BY <1>2, <2>3
  <2> QED
    BY <1>4, <2>2, <2>4 DEF ClockInv
<1>6. CASE ~ (loop.max_delay > MinDelay)
  <2>1. pc' = "sync" /\ loop'.phase = "sync" /\ loop'.max_slice = MaxSlice
    BY <1>6 DEF LagEnds, Locals
  <2>2. LagInv' /\ SliceRunInv' /\ LagRunInv'
    BY <2>1 DEF LagInv, SliceRunInv, LagRunInv
  <2>3. \A a, b \in Cores : Clock(a)' - Clock(b)' <= MinDelay
    <3> SUFFICES ASSUME NEW a \in Cores, NEW b \in Cores
                 PROVE  Clock(a) - Clock(b) <= MinDelay
      BY <1>2
    <3>1. /\ Clock(a) \in Int /\ Clock(b) \in Int
          /\ loop.global \in Int /\ loop.max_delay \in Int
      BY <1>3
    <3>2. Clock(a) <= loop.global /\ loop.global - Clock(b) <= loop.max_delay
      BY <1>1
    <3>3. MinDelay \in Nat
      BY BoundFacts
    <3> QED
      BY <1>6, <3>1, <3>2, <3>3
  <2>4. CloseIn(Cores)'
    BY <1>1, <1>2, CloseStill
  <2>5. MaxSlice <= MaxSlice
    BY BoundFacts
  <2>6. ClocksClose'
    BY <2>1, <2>3, <2>4, <2>5 DEF ClocksClose
  <2> QED
    BY <1>4, <2>2, <2>6 DEF ClockInv
<1> QED
  BY <1>5, <1>6

(* All cores advance; then they run one after the other, from almost the same time.           *)
LEMMA SyncNextClocks ==
  ASSUME TimingAssumption, TimerInv, ClockInv, SyncNext
  PROVE  ClockInv'
<1>0. /\ UNCHANGED <<executed_ticks, slice_length, downcount, is_timer_sane>>
      /\ pc = "sync" /\ loop.phase = "sync"
  BY DEF SyncNext, clock, TimerInv, LoopInPhase
<1>1. UsesKnown'
  BY <1>0 DEF ClockInv, UsesKnown, Used, Longest
<1>2. /\ CloseIn(Cores) /\ loop.max_slice <= MaxSlice
      /\ \A a, b \in Cores : Clock(a) - Clock(b) <= MinDelay
  BY <1>0 DEF ClockInv, ClocksClose
<1>3. \A c \in Cores : Clock(c)' = Clock(c)
  BY <1>0 DEF Clock
<1>4. CASE loop.core < NumCores
  <2>1. pc' = "advance" /\ loop' = loop
    BY <1>4 DEF SyncNext, Begin
  <2>2. CloseIn(Cores)'
    BY <1>2, <1>3, CloseStill
  <2>3. ClocksClose'
    BY <1>0, <1>2, <1>3, <2>1, <2>2 DEF ClocksClose
  <2> QED
    BY <1>0, <1>1, <2>1, <2>3 DEF ClockInv, LagInv, LagRunInv, SliceRunInv
<1>5. CASE ~ (loop.core < NumCores)
  <2>1. /\ pc' = "slice" /\ loop'.phase = "slice" /\ loop'.core = 0
        /\ loop'.max_slice = loop.max_slice
    BY <1>0, <1>5, Typed DEF SyncNext, TimerInv, Loops
  <2>2. ClocksClose' /\ LagInv' /\ LagRunInv'
    BY <2>1 DEF ClocksClose, LagInv, LagRunInv
  <2>3. \A a, b \in Cores : executed_ticks[a] - executed_ticks[b] <= MinDelay
    <3>1. \A c \in Cores : c < loop.core
      <4>1. NumCores \in Nat /\ loop.core \in Nat
        BY LoopTyped DEF TimerInv
      <4> QED
        BY <1>5, <4>1 DEF Cores
    <3>2. \A c \in Cores : Rested(c)
      BY <1>0, <3>1 DEF TimerInv, AllAdvanced
    <3>3. \A c \in Cores : executed_ticks[c] = Clock(c)
      BY <3>2, ClockFacts
    <3> QED
      BY <1>2, <3>3
  <2>4. \A n \in Cores : n = 0 => UsedEvenly(n)'
    BY BoundFacts DEF UsedEvenly
  <2>5. SliceRunInv'
    BY <1>0, <1>2, <2>1, <2>3, <2>4 DEF SliceRunInv
  <2> QED
    BY <1>1, <2>2, <2>5 DEF ClockInv
<1> QED
  BY <1>4, <1>5

(* The next event of a core bounds the slices of all.                                         *)
LEMMA SyncAdvancedClocks ==
  ASSUME TimingAssumption, TimerInv, ClockInv, SyncAdvanced
  PROVE  ClockInv'
<1>0. /\ UNCHANGED <<executed_ticks, slice_length, downcount, is_timer_sane>>
      /\ pc = "advanced" /\ loop.phase = "sync" /\ pc' = "sync" /\ loop.core = current_timer
  BY DEF SyncAdvanced, clock, TimerInv, LoopInPhase, Advancing
<1>1. loop'.phase = "sync" /\ loop'.max_slice <= MaxSlice
  <2> DEFINE s == Min({loop.max_slice, GetMaxSliceLength(loop.core)})
  <2>1. loop' = [loop EXCEPT !.core = @ + 1, !.max_slice = s]
    BY DEF SyncAdvanced
  <2>2. loop.core \in Cores /\ loop \in Loops /\ loop.max_slice \in Int /\ TimingTypeOK /\ QueuesOrdered
    BY <1>0, Typed DEF TimerInv
  <2>3. Rested(loop.core)
    BY <1>0 DEF TimerInv, AllAdvanced
  <2>4. GetMaxSliceLength(loop.core) \in Int
    BY <2>2, <2>3, NextEventAhead
  <2>5. s \in Int /\ s <= loop.max_slice
    BY <2>2, <2>4, MinOfTwo
  <2>6. loop.max_slice <= MaxSlice
    BY <1>0 DEF ClockInv, ClocksClose
  <2> HIDE DEF s
  <2>7. loop'.phase = "sync" /\ loop'.max_slice = s
    BY <1>0, <2>1, <2>2 DEF Loops
  <2> QED
    BY <2>2, <2>5, <2>6, <2>7, BoundFacts
<1>2. UsesKnown'
  BY <1>0 DEF ClockInv, UsesKnown, Used, Longest
<1>3. /\ CloseIn(Cores) /\ \A a, b \in Cores : Clock(a) - Clock(b) <= MinDelay
  BY <1>0 DEF ClockInv, ClocksClose
<1>4. \A c \in Cores : Clock(c)' = Clock(c)
  BY <1>0 DEF Clock
<1>5. ClocksClose'
  <2>1. CloseIn(Cores)'
    BY <1>3, <1>4, CloseStill
  <2> QED
    BY <1>1, <1>3, <1>4, <2>1 DEF ClocksClose
<1> QED
  BY <1>0, <1>1, <1>2, <1>5 DEF ClockInv, LagInv, LagRunInv, SliceRunInv

(* A core gets a slice as long as the core before it has used.                                *)
LEMMA SliceNextClocks ==
  ASSUME TimingAssumption, TimerInv, ClockInv, SliceNext
  PROVE  ClockInv'
<1>0. /\ TimingTypeOK /\ UNCHANGED <<executed_ticks, is_timer_sane>> /\ pc = "slice"
      /\ loop.phase = "slice" /\ current_timer' = loop.core /\ pc' = "run"
      /\ SetNextSlice(loop.core, loop.max_slice) /\ loop.core \in Cores
      /\ loop' = [loop EXCEPT !.start = executed_ticks[loop.core]]
  BY DEF SliceNext, TimerInv, LoopInPhase
<1> DEFINE L == loop.core
<1>1. /\ L \in Cores /\ loop \in Loops /\ loop.max_slice \in Int /\ loop.max_slice > 0 /\ Rested(L)
      /\ L \in Nat /\ L < NumCores /\ NumCores \in Nat
  <2>1. L \in Nat /\ L < NumCores /\ NumCores \in Nat
    BY <1>0, Typed
  <2>2. Rested(L)
    <3>1. L >= L
      BY <2>1
    <3> QED
      BY <1>0, <3>1 DEF TimerInv, AllAdvanced
  <2>3. loop \in Loops /\ loop.max_slice \in Int /\ loop.max_slice > 0
    BY <1>0, Typed DEF TimerInv, SlicesInv
  <2> QED
    BY <1>0, <2>1, <2>2, <2>3
<1> HIDE DEF L
<1>2. PICK n \in Int :
        /\ n > 0 /\ n <= loop.max_slice
        /\ slice_length' = [slice_length EXCEPT ![L] = n]
        /\ downcount' = [downcount EXCEPT ![L] = n]
  BY <1>0, <1>1, SliceGiven DEF L, TimerInv
<1>3. slice_length \in [Cores -> Int] /\ downcount \in [Cores -> Int]
  BY <1>0 DEF TimingTypeOK
<1>4. \A c \in Cores : /\ slice_length'[c] = IF c = L THEN n ELSE slice_length[c]
                       /\ downcount'[c] = IF c = L THEN n ELSE downcount[c]
  BY <1>1, <1>2, <1>3
<1>5. /\ loop'.phase = "slice" /\ loop'.core = L /\ loop'.max_slice = loop.max_slice
      /\ loop'.start = executed_ticks[L]
  BY <1>0, <1>1 DEF Loops, L
<1>6. \A c \in Cores : Used(c)' = Used(c)
  <2>1. slice_length[L] = 0 /\ downcount[L] = 0
    BY <1>1 DEF Rested
  <2> QED
    BY <1>2, <1>4, <2>1 DEF Used
<1>7. /\ \A a, b \in Cores : executed_ticks[a] - executed_ticks[b] <= MinDelay
      /\ UsedEvenly(L)
      /\ L = 0 => loop.max_slice <= MaxSlice
      /\ L > 0 => loop.max_slice = Used(L - 1)
  BY <1>0, <1>1 DEF ClockInv, SliceRunInv, L
<1>8. loop.max_slice <= Longest
  <2>1. CASE L = 0
    <3>1. MaxSlice <= Longest
      <4>1. Overshoot * 0 \in Nat /\ MinDelay + MaxSlice + Overshoot * 0 <= Longest
        BY BoundFacts
      <4>2. MaxSlice \in Nat /\ MinDelay \in Nat /\ Longest \in Nat
        BY BoundFacts
      <4> QED
        BY <4>1, <4>2
    <3>2. MaxSlice \in Nat /\ Longest \in Nat
      BY BoundFacts
    <3> QED
      BY <1>1, <1>7, <2>1, <3>1, <3>2
  <2>2. CASE L > 0
    <3>1. L - 1 \in Cores /\ L - 1 < L
      BY <1>1, <2>2, BoundFacts
    <3>2. MaxSlice \in Nat /\ MaxSlice >= MaxSlice
      BY BoundFacts
    <3>3. Used(L - 1) <= MaxSlice + Overshoot * Cardinality(LongerThan(MaxSlice, L))
      BY <1>7, <3>1, <3>2 DEF UsedEvenly
    <3>4. LongerThan(MaxSlice, L) \in SUBSET (Cores \ {L})
      BY <1>1 DEF LongerThan
    <3>5. /\ Cardinality(LongerThan(MaxSlice, L)) \in Nat
          /\ Cardinality(LongerThan(MaxSlice, L)) < NumCores
      <4>1. /\ Cardinality(LongerThan(MaxSlice, L)) \in Nat
            /\ Cardinality(LongerThan(MaxSlice, L)) < Cardinality(Cores)
        BY <1>1, <3>4, CoresCounted
      <4>2. Cardinality(Cores) \in Nat /\ Cardinality(Cores) <= NumCores
        BY CoresCounted
      <4> QED
        BY <1>1, <4>1, <4>2
    <3>6. /\ Overshoot * Cardinality(LongerThan(MaxSlice, L)) \in Nat
          /\ MinDelay + MaxSlice + Overshoot * Cardinality(LongerThan(MaxSlice, L)) <= Longest
      BY <3>5, BoundFacts
    <3>7. Longest \in Nat /\ MinDelay \in Nat /\ MaxSlice \in Nat
      BY BoundFacts
    <3> QED
      BY <1>1, <1>7, <2>2, <3>3, <3>6, <3>7
  <2> QED
    BY <1>1, <2>1, <2>2
<1>9. UsesKnown'
  <2>0. Longest \in Nat
    BY BoundFacts
  <2>1. n <= Longest
    BY <1>1, <1>2, <1>8, <2>0
  <2> QED
    BY <1>0, <1>4, <1>6, <2>1 DEF ClockInv, UsesKnown, Longest
<1>10. ClocksClose' /\ LagInv' /\ LagRunInv'
  BY <1>5 DEF ClocksClose, LagInv, LagRunInv
<1>11. SliceRunInv'
  <2>1. \A c \in Cores : c = L => UsedEvenly(c)'
    <3>1. UsedEvenly(L) => \A c \in Cores : c = L => UsedEvenly(c)
      OBVIOUS
    <3>2. ASSUME NEW c \in Cores, UsedEvenly(c) PROVE UsedEvenly(c)'
      <4>1. \A t \in Nat : LongerThan(t, c)' = LongerThan(t, c)
        BY <1>6 DEF LongerThan
      <4> QED
        BY <1>6, <3>2, <4>1 DEF UsedEvenly
    <3> QED
      BY <1>7, <3>2
  <2>2. L > 0 => slice_length'[L - 1] - downcount'[L - 1] = Used(L - 1)
    <3>1. L > 0 => L - 1 \in Cores /\ L - 1 # L
      BY <1>1, BoundFacts
    <3> QED
      BY <1>4, <3>1 DEF Used
  <2>3. slice_length'[L] = n
    BY <1>1, <1>4
  <2> QED
    BY <1>0, <1>2, <1>5, <1>7, <2>1, <2>2, <2>3 DEF SliceRunInv, Used
<1> QED
  BY <1>9, <1>10, <1>11 DEF ClockInv

(* The guest uses up or shortens the slice of the running core.                               *)
LEMMA GuestClocks ==
  ASSUME TimingAssumption, TimerInv, ClockInv, pc \in {"run", "callback"}, NEW s \in Int, NEW d \in Int,
         UNCHANGED <<executed_ticks, is_timer_sane, current_timer, pc, loop>>,
         slice_length' = [slice_length EXCEPT ![current_timer] = s],
         downcount' = [downcount EXCEPT ![current_timer] = d],
         s <= slice_length[current_timer],
         slice_length[current_timer] - downcount[current_timer] <= s - d,
         pc = "callback" => s = slice_length[current_timer] /\ d = downcount[current_timer]
  PROVE  ClockInv'
<1> DEFINE L == current_timer
<1>0. /\ slice_length \in [Cores -> Int] /\ downcount \in [Cores -> Int] /\ L \in Cores
      /\ L \in Nat /\ loop.core = L /\ L' = L
  BY Typed DEF TimerInv, TimingTypeOK, LoopInPhase, Advancing
<1>1. CASE pc = "callback"
  <2>1. slice_length' = slice_length /\ downcount' = downcount
    BY <1>0, <1>1
  <2>2. UsesKnown'
    BY <2>1 DEF ClockInv, UsesKnown, Used, Longest
  <2> QED
    BY <2>1, <2>2, QuietClocks DEF Advancing
<1>2. CASE pc = "run"
  <2> HIDE DEF L
  <2>1. \A c \in Cores : /\ slice_length'[c] = IF c = L THEN s ELSE slice_length[c]
                         /\ downcount'[c] = IF c = L THEN d ELSE downcount[c]
    BY <1>0 DEF L
  <2>2. UsesKnown'
    <3>1. ~ is_timer_sane[L]
      BY <1>2 DEF TimerInv, TimersSane, L
    <3>2. slice_length[L] <= Longest /\ Longest \in Nat
      BY <1>0, BoundFacts DEF ClockInv, UsesKnown
    <3>3. s <= Longest
      BY <1>0, <3>2 DEF L
    <3> QED
      BY <2>1, <3>1, <3>3 DEF ClockInv, UsesKnown, Used, Longest
  <2>3. ClocksClose' /\ LagInv'
    BY <1>2 DEF ClocksClose, LagInv, TimerInv, LoopInPhase, Advancing
  <2>4. LagRunInv'
    <3> SUFFICES ASSUME loop.phase = "lag", NEW l \in Cores, l = L
                 PROVE  /\ CloseIn(Cores \ {l})'
                        /\ \A b \in Cores : Clock(b)' - Clock(l)' <= Longest
                        /\ \E m \in Cores \ {l} : executed_ticks[l] + slice_length'[l] <= Clock(m)'
      BY DEF LagRunInv, Longest, L
    <3>1. /\ CloseIn(Cores \ {l})
          /\ \A b \in Cores : Clock(b) - Clock(l) <= Longest
          /\ \E m \in Cores \ {l} : executed_ticks[l] + slice_length[l] <= Clock(m)
      BY <1>2 DEF ClockInv, LagRunInv, L
    <3>2. \A c \in Cores \ {l} : Clock(c)' = Clock(c)
      BY <2>1 DEF Clock
    <3>3. CloseIn(Cores \ {l})'
      <4>1. \A c \in Cores \ {l} : Clock(c)' = Clock(c) + 0
        BY <3>2, ClockFacts
      <4> QED
        BY <3>1, <4>1, CloseKept
    <3>4. /\ executed_ticks[l] \in Int /\ slice_length[l] \in Int /\ downcount[l] \in Int
          /\ \A b \in Cores : Clock(b) \in Int
      BY ClockFacts
    <3>5. /\ Clock(l)' = executed_ticks[l] + s - d
          /\ Clock(l) = executed_ticks[l] + slice_length[l] - downcount[l]
      BY <2>1 DEF Clock
    <3>6. Clock(l)' \in Int /\ Clock(l)' >= Clock(l)
      BY <3>4, <3>5 DEF L
    <3>7. Longest \in Nat
      BY BoundFacts
    <3>8. ASSUME NEW b \in Cores PROVE Clock(b)' - Clock(l)' <= Longest
      <4>1. CASE b = l
        BY <3>6, <3>7, <4>1
      <4>2. CASE b # l
        BY <3>1, <3>2, <3>4, <3>6, <3>7, <4>2
      <4> QED
        BY <4>1, <4>2
    <3>9. PICK m \in Cores \ {l} : executed_ticks[l] + slice_length[l] <= Clock(m)
      BY <3>1
    <3>10. executed_ticks[l] + slice_length'[l] <= Clock(m)'
      <4>1. slice_length'[l] = s /\ s <= slice_length[l] /\ Clock(m)' = Clock(m) /\ Clock(m) \in Int
        BY <2>1, <3>2, <3>4 DEF L
      <4> QED
        BY <3>4, <3>9, <4>1
    <3> QED
      BY <3>3, <3>8, <3>10
  <2>5. SliceRunInv'
    <3> SUFFICES ASSUME loop.phase = "slice" PROVE SliceRunInv'
      BY DEF SliceRunInv
    <3>1. /\ \A a, b \in Cores : executed_ticks[a] - executed_ticks[b] <= MinDelay
          /\ \A n \in Cores : n = L => UsedEvenly(n)
          /\ L = 0 => loop.max_slice <= MaxSlice
          /\ L > 0 => loop.max_slice = Used(L - 1)
          /\ slice_length[L] <= loop.max_slice
          /\ loop.start = executed_ticks[L]
      BY <1>0, <1>2 DEF ClockInv, SliceRunInv
    <3>2. ASSUME NEW n \in Cores, n = L PROVE UsedEvenly(n)'
      <4>1. \A j \in Cores : j < n => Used(j)' = Used(j)
        BY <1>0, <2>1, <3>2, BoundFacts DEF Used
      <4>2. \A t \in Nat : LongerThan(t, n)' = LongerThan(t, n)
        BY <4>1 DEF LongerThan
      <4> QED
        BY <3>1, <3>2, <4>1, <4>2 DEF UsedEvenly
    <3>3. L > 0 => slice_length'[L - 1] - downcount'[L - 1] = Used(L - 1)
      <4>1. L > 0 => L - 1 \in Cores /\ L - 1 # L
        BY <1>0, BoundFacts
      <4> QED
        BY <2>1, <4>1 DEF Used
    <3>4. slice_length'[L] <= loop.max_slice
      <4>1. slice_length'[L] = s /\ s <= slice_length[L] /\ slice_length[L] \in Int
        BY <1>0, <2>1, ClockFacts DEF L
      <4>2. loop.max_slice \in Int
        BY Typed DEF TimerInv
      <4> QED
        BY <3>1, <4>1, <4>2
    <3> QED
      BY <1>0, <3>1, <3>2, <3>3, <3>4 DEF SliceRunInv, Used
  <2> QED
    BY <2>2, <2>3, <2>4, <2>5 DEF ClockInv
<1> QED
  BY <1>1, <1>2

(* Instructions, idling, and the events that the guest and the callbacks schedule.            *)
LEMMA RunningClocks ==
  ASSUME TimingAssumption, TimerInv, ClockInv,
         \/ \E n \in 1 .. Reach : RunTicks(n)
         \/ Idle
         \/ \E e \in Events, c \in Cores, d \in Delays : ScheduleEvent(e, c, d)
  PROVE  ClockInv'
<1> DEFINE L == current_timer
<1>0. /\ slice_length \in [Cores -> Int] /\ downcount \in [Cores -> Int]
      /\ L \in Cores /\ slice_length[L] \in Int /\ downcount[L] \in Int
      /\ downcount[L] <= slice_length[L]
  BY Typed DEF TimerInv, TimingTypeOK, SlicesInv
<1> HIDE DEF L
<1>1. ASSUME NEW n \in 1 .. Reach, RunTicks(n) PROVE ClockInv'
  <2> DEFINE s == slice_length[L]
             d == downcount[L] - n
  <2>0. Reach \in Nat
    BY Typed DEF TimerInv
  <2>1. /\ UNCHANGED <<executed_ticks, slice_length, is_timer_sane, current_timer, pc, loop>>
        /\ pc = "run" /\ downcount' = [downcount EXCEPT ![L] = d]
    BY <1>1 DEF RunTicks, control, L
  <2>2. slice_length' = [slice_length EXCEPT ![L] = s]
    BY <1>0, <2>1
  <2>3. s \in Int /\ d \in Int /\ s <= slice_length[L] /\ slice_length[L] - downcount[L] <= s - d
    BY <1>0, <2>0
  <2>4. UNCHANGED <<executed_ticks, is_timer_sane, current_timer, pc, loop>>
    BY <2>1
  <2> HIDE DEF s, d
  <2> QED
    BY <2>1, <2>2, <2>3, <2>4, GuestClocks DEF L
<1>2. ASSUME Idle PROVE ClockInv'
  <2> DEFINE s == slice_length[L]
             d == 0
  <2>1. /\ UNCHANGED <<executed_ticks, slice_length, is_timer_sane, current_timer, pc, loop>>
        /\ pc = "run" /\ downcount' = [downcount EXCEPT ![L] = d] /\ downcount[L] > 0
    BY <1>2 DEF Idle, control, L
  <2>2. slice_length' = [slice_length EXCEPT ![L] = s]
    BY <1>0, <2>1
  <2>3. s \in Int /\ d \in Int /\ s <= slice_length[L] /\ slice_length[L] - downcount[L] <= s - d
    BY <1>0, <2>1
  <2>4. UNCHANGED <<executed_ticks, is_timer_sane, current_timer, pc, loop>>
    BY <2>1
  <2> HIDE DEF s, d
  <2> QED
    BY <2>1, <2>2, <2>3, <2>4, GuestClocks DEF L
<1>3. ASSUME NEW e \in Events, NEW k \in Cores, NEW cycles \in Delays, ScheduleEvent(e, k, cycles)
      PROVE  ClockInv'
  <2>1. /\ UNCHANGED <<executed_ticks, is_timer_sane, current_timer, pc, loop>>
        /\ pc \in {"run", "callback"}
    BY <1>3 DEF ScheduleEvent, InGuest, control
  <2>2. CASE k = L
    <3> DEFINE cut == ~ is_timer_sane[k] /\ downcount[k] > cycles
               s == IF cut THEN slice_length[k] - (downcount[k] - cycles) ELSE slice_length[k]
               d == IF cut THEN cycles ELSE downcount[k]
    <3>1. /\ slice_length' = [slice_length EXCEPT ![L] = s]
          /\ downcount' = [downcount EXCEPT ![L] = d]
      BY <1>0, <1>3, <2>2 DEF ScheduleEvent, ForceExceptionCheck, L
    <3>2. cycles \in Nat
      BY DEF TimingAssumption
    <3>3. s \in Int /\ d \in Int /\ s <= slice_length[L] /\ slice_length[L] - downcount[L] <= s - d
      BY <1>0, <2>2, <3>2
    <3>4. pc = "callback" => is_timer_sane[k]
      BY <2>2 DEF TimersSane, TimerInv, L
    <3>5. pc = "callback" => s = slice_length[L] /\ d = downcount[L]
      BY <2>2, <3>4
    <3> HIDE DEF s, d
    <3> QED
      BY <2>1, <3>1, <3>3, <3>5, GuestClocks DEF L
  <2>3. CASE k # L
    <3>1. UNCHANGED <<slice_length, downcount>>
      BY <1>3, <2>3 DEF ScheduleEvent, L
    <3>2. UsesKnown'
      BY <2>1, <3>1 DEF ClockInv, UsesKnown, Used, Longest
    <3> QED
      BY <2>1, <3>1, <3>2, QuietClocks DEF Advancing
  <2> QED
    BY <2>2, <2>3
<1> QED
  BY <1>1, <1>2, <1>3

(* A core that used its slice, which is what the one before it used, ran over it by an        *)
(* overshoot at most.                                                                         *)
LEMMA UsedByNext ==
  ASSUME TimingAssumption, TimerInv, NEW n \in Cores, UsedEvenly(n),
         n = 0 => Used(n) <= MaxSlice + Overshoot,
         n > 0 => Used(n) <= Used(n - 1) + Overshoot
  PROVE  UsedEvenly(n + 1)
<1>0. /\ n \in Nat /\ n < NumCores /\ NumCores \in Nat /\ Overshoot \in Nat /\ MaxSlice \in Nat
      /\ \A c \in Cores : c \in Nat /\ Used(c) \in Int
  BY Typed, BoundFacts, ClockFacts DEF TimerInv
<1> SUFFICES ASSUME NEW t \in Nat, t >= MaxSlice, NEW b \in Cores, b < n + 1
             PROVE  Used(b) <= t + Overshoot * Cardinality(LongerThan(t, n + 1))
  BY DEF UsedEvenly
<1> DEFINE before == LongerThan(t, n)
           now == LongerThan(t, n + 1)
<1>1. /\ before \in SUBSET now /\ now \in SUBSET Cores
      /\ \A c \in Cores : c < n + 1 /\ Used(c) > t => c \in now
      /\ n \notin before
  <2>1. \A c \in Cores : c < n => c < n + 1
    BY <1>0
  <2>2. ~ (n < n)
    BY <1>0
  <2> QED
    BY <2>1, <2>2 DEF LongerThan
<1>2. /\ \A c \in Cores : c < n => Used(c) <= t + Overshoot * Cardinality(before)
  BY DEF UsedEvenly
<1> HIDE DEF before, now
<1>3. Cardinality(now) \in Nat /\ Cardinality(before) \in Nat /\ Cardinality(before) <= Cardinality(now)
  BY <1>1, CoresCounted
<1>4. /\ Overshoot * Cardinality(before) \in Nat /\ Overshoot * Cardinality(now) \in Nat
      /\ Overshoot * Cardinality(before) <= Overshoot * Cardinality(now)
      /\ Cardinality(before) < Cardinality(now) =>
           Overshoot * Cardinality(before) + Overshoot <= Overshoot * Cardinality(now)
  BY <1>0, <1>3, Multiples
<1>5. CASE b < n
  BY <1>0, <1>2, <1>4, <1>5 DEF now
<1>6. CASE b = n /\ Used(n) <= t
  BY <1>0, <1>4, <1>6 DEF now
<1>7. CASE b = n /\ Used(n) > t
  <2>1. n \in now /\ before \in SUBSET (now \ {n})
    BY <1>0, <1>1, <1>7
  <2>2. Cardinality(before) < Cardinality(now)
    BY <1>1, <2>1, CoresCounted
  <2>3. Overshoot * Cardinality(before) + Overshoot <= Overshoot * Cardinality(now)
    BY <1>4, <2>2
  <2>4. CASE n = 0
    BY <1>0, <1>4, <1>7, <2>3, <2>4 DEF now
  <2>5. CASE n > 0
    <3>1. n - 1 \in Cores /\ n - 1 < n
      BY <1>0, <2>5, BoundFacts
    <3>2. Used(n - 1) \in Int /\ Used(n - 1) <= t + Overshoot * Cardinality(before)
      BY <1>0, <1>2, <3>1
    <3> QED
      BY <1>0, <1>4, <1>7, <2>3, <2>5, <3>2 DEF now
  <2> QED
    BY <1>0, <2>4, <2>5
<1> QED
  BY <1>0, <1>5, <1>6, <1>7

(* When all cores have run, from almost the same time, they are close.                        *)
LEMMA EvenlyClose ==
  ASSUME TimingAssumption, TimerInv, UsedEvenly(NumCores),
         \A a, b \in Cores : executed_ticks[a] - executed_ticks[b] <= MinDelay
  PROVE  CloseIn(Cores)
<1> SUFFICES ASSUME NEW b \in Cores, NEW c \in Cores
             PROVE  Clock(b) - Clock(c) <=
                      MinDelay + MaxSlice + Overshoot * Cardinality(AheadOf(c, Cores))
  BY DEF CloseIn
<1> DEFINE t == IF Used(c) + MinDelay > MaxSlice THEN Used(c) + MinDelay ELSE MaxSlice
           longer == LongerThan(t, NumCores)
           ahead == AheadOf(c, Cores)
<1>0. /\ MaxSlice \in Nat /\ MinDelay \in Nat /\ MinDelay <= MaxSlice /\ Overshoot \in Nat
      /\ \A j \in Cores : /\ j < NumCores /\ executed_ticks[j] \in Int /\ Used(j) \in Int
                          /\ Clock(j) = executed_ticks[j] + Used(j) /\ Used(j) >= 0
  BY Typed, BoundFacts, ClockFacts DEF TimerInv
<1>1. t \in Nat /\ t >= MaxSlice /\ t >= Used(c) + MinDelay /\ t <= Used(c) + MaxSlice
  BY <1>0
<1> HIDE DEF t
<1>2. longer \in SUBSET ahead
  <2> SUFFICES ASSUME NEW j \in Cores, Used(j) > t PROVE Clock(j) > Clock(c)
    BY DEF LongerThan, AheadOf
  <2>1. executed_ticks[c] - executed_ticks[j] <= MinDelay
    OBVIOUS
  <2> QED
    BY <1>0, <1>1, <2>1
<1>3. ahead \in SUBSET Cores
  BY DEF AheadOf
<1>4. Used(b) <= t + Overshoot * Cardinality(longer)
  BY <1>0, <1>1 DEF UsedEvenly
<1> HIDE DEF longer, ahead
<1>5. Cardinality(longer) \in Nat /\ Cardinality(ahead) \in Nat /\ Cardinality(longer) <= Cardinality(ahead)
  BY <1>2, <1>3, CoresCounted
<1>6. /\ Overshoot * Cardinality(longer) \in Nat /\ Overshoot * Cardinality(ahead) \in Nat
      /\ Overshoot * Cardinality(longer) <= Overshoot * Cardinality(ahead)
  BY <1>0, <1>5, Multiples
<1>7. Clock(b) - Clock(c) <= MinDelay + MaxSlice + Overshoot * Cardinality(ahead)
  <2>1. executed_ticks[b] - executed_ticks[c] <= MinDelay
    OBVIOUS
  <2> QED
    BY <1>0, <1>1, <1>4, <1>6, <2>1
<1> QED
  BY <1>7 DEF ahead

(* A core that was furthest behind and ran alone, over the clock of another by an overshoot   *)
(* at most, is close to the others again.                                                     *)
LEMMA CatchesUp ==
  ASSUME TimingAssumption, TimerInv, NEW l \in Cores, CloseIn(Cores \ {l}),
         \A b \in Cores : Clock(b) - Clock(l) <= Longest,
         NEW m \in Cores \ {l}, executed_ticks[l] + slice_length[l] <= Clock(m)
  PROVE  CloseIn(Cores)
<1> DEFINE others == Cores \ {l}
           ahead(c) == AheadOf(c, Cores)
           among(c) == AheadOf(c, others)
           K == MinDelay + MaxSlice
<1>0. /\ MaxSlice \in Nat /\ MinDelay \in Nat /\ Overshoot \in Nat /\ NumCores \in Nat \ {0}
      /\ \A c \in Cores : Clock(c) \in Int
      /\ Clock(l) <= Clock(m) + Overshoot
  <2>1. /\ executed_ticks[l] \in Int /\ slice_length[l] \in Int
        /\ Clock(l) <= executed_ticks[l] + slice_length[l] + Overshoot
    BY ClockFacts
  <2>2. \A c \in Cores : Clock(c) \in Int
    BY ClockFacts
  <2>3. MaxSlice \in Nat /\ MinDelay \in Nat /\ Overshoot \in Nat /\ NumCores \in Nat \ {0}
    BY BoundFacts
  <2> QED
    BY <2>1, <2>2, <2>3
<1>1. ASSUME NEW c \in others
      PROVE  /\ Cardinality(ahead(c)) \in Nat /\ Cardinality(among(c)) \in Nat
             /\ Overshoot * Cardinality(ahead(c)) \in Nat /\ Overshoot * Cardinality(among(c)) \in Nat
             /\ Overshoot * Cardinality(among(c)) <= Overshoot * Cardinality(ahead(c))
             /\ Clock(l) > Clock(c) =>
                  Overshoot * Cardinality(among(c)) + Overshoot <= Overshoot * Cardinality(ahead(c))
  <2>1. /\ ahead(c) \in SUBSET Cores /\ among(c) \in SUBSET ahead(c)
        /\ Clock(l) > Clock(c) => l \in ahead(c) /\ among(c) \in SUBSET (ahead(c) \ {l})
    BY DEF AheadOf
  <2>2. /\ Cardinality(ahead(c)) \in Nat /\ Cardinality(among(c)) \in Nat
        /\ Cardinality(among(c)) <= Cardinality(ahead(c))
        /\ Clock(l) > Clock(c) => Cardinality(among(c)) < Cardinality(ahead(c))
    BY <2>1, CoresCounted
  <2> HIDE DEF ahead, among
  <2> QED
    BY <1>0, <2>2, Multiples
<1>2. \A b, c \in others : Clock(b) - Clock(c) <= K + Overshoot * Cardinality(among(c))
  BY DEF CloseIn
<1>3. ASSUME NEW b \in others, NEW c \in others
      PROVE  Clock(b) - Clock(c) <= K + Overshoot * Cardinality(ahead(c))
  <2> HIDE DEF ahead, among
  <2> QED
    BY <1>0, <1>1, <1>2
<1>4. ASSUME NEW c \in others
      PROVE  Clock(l) - Clock(c) <= K + Overshoot * Cardinality(ahead(c))
  <2> HIDE DEF ahead, among
  <2>1. Clock(m) - Clock(c) <= K + Overshoot * Cardinality(among(c))
    BY <1>2
  <2>2. CASE Clock(l) > Clock(c)
    BY <1>0, <1>1, <2>1, <2>2
  <2>3. CASE ~ (Clock(l) > Clock(c))
    BY <1>0, <1>1, <2>3
  <2> QED
    BY <2>2, <2>3
<1>5. /\ Cardinality(ahead(l)) \in Nat /\ Overshoot * Cardinality(ahead(l)) \in Nat
  <2>1. ahead(l) \in SUBSET Cores
    BY DEF AheadOf
  <2>2. Cardinality(ahead(l)) \in Nat
    BY <2>1, CoresCounted
  <2> HIDE DEF ahead
  <2> QED
    BY <1>0, <2>2, Multiples
<1>6. ASSUME NEW b \in others
      PROVE  Clock(b) - Clock(l) <= K + Overshoot * Cardinality(ahead(l))
  <2> DEFINE behind == {c \in others : Clock(c) <= Clock(l)}
  <2>1. CASE behind = {}
    <3>1. ahead(l) = Cores \ {l}
      BY <1>0, <2>1 DEF AheadOf
    <3>2. Cardinality(Cores) = NumCores /\ Cardinality(Cores \ {l}) = NumCores - 1
      <4>1. IsFiniteSet(Cores) /\ Cardinality(Cores) = NumCores
        <5>1. NumCores \in Nat \ {0} /\ Cores = 0 .. NumCores - 1 /\ 0 \in Int /\ NumCores - 1 \in Int
          BY BoundFacts
        <5>2. /\ IsFiniteSet(0 .. NumCores - 1)
              /\ Cardinality(0 .. NumCores - 1) =
                   IF 0 > NumCores - 1 THEN 0 ELSE (NumCores - 1) - 0 + 1
          BY <5>1, FS_Interval
        <5> QED
          BY <5>1, <5>2
      <4> QED
        BY <4>1, FS_RemoveElement
    <3>3. Longest = K + Overshoot * Cardinality(ahead(l))
      BY <3>1, <3>2 DEF Longest
    <3> QED
      BY <3>3
  <2>2. CASE behind # {}
    <3>1. PICK w \in behind : TRUE
      BY <2>2
    <3> DEFINE f == [c \in Cores |-> IF c \in behind THEN - Clock(c) ELSE - Clock(w)]
    <3>2. \A c \in Cores : f[c] \in Int
      BY <1>0, <3>1
    <3>3. PICK v \in Cores : \A c \in Cores : f[v] <= f[c]
      <4> HIDE DEF f
      <4> QED
        BY <3>2, LeastOfCores
    <3>4. PICK c \in behind : \A j \in behind : Clock(j) <= Clock(c)
      <4> DEFINE g == IF v \in behind THEN v ELSE w
      <4>1. g \in behind /\ f[v] = - Clock(g)
        BY <3>1
      <4>2. \A j \in behind : f[j] = - Clock(j) /\ f[v] <= f[j]
        BY <3>3
      <4> HIDE DEF f, g
      <4>3. ASSUME NEW j \in behind PROVE Clock(j) <= Clock(g)
        <5>1. Clock(j) \in Int /\ Clock(g) \in Int
          BY <1>0, <4>1
        <5> QED
          BY <4>1, <4>2, <5>1
      <4> QED
        BY <4>1, <4>3
    <3>5. among(c) \in SUBSET ahead(l)
      <4> SUFFICES ASSUME NEW j \in others, Clock(j) > Clock(c) PROVE Clock(j) > Clock(l)
        BY DEF AheadOf
      <4>1. Clock(j) \in Int /\ Clock(c) \in Int /\ Clock(l) \in Int
        BY <1>0
      <4>2. j \notin behind
        BY <3>4, <4>1
      <4> QED
        BY <4>1, <4>2
    <3>6. ahead(l) \in SUBSET Cores
      BY DEF AheadOf
    <3>7. Clock(b) - Clock(c) <= K + Overshoot * Cardinality(among(c)) /\ Clock(c) <= Clock(l)
      BY <1>2
    <3>8. c \in Cores /\ b \in Cores /\ Clock(b) \in Int /\ Clock(c) \in Int /\ Clock(l) \in Int
      BY <1>0
    <3> HIDE DEF ahead, among, behind
    <3>9. Cardinality(among(c)) \in Nat /\ Cardinality(among(c)) <= Cardinality(ahead(l))
      BY <3>5, <3>6, CoresCounted
    <3>10. /\ Overshoot * Cardinality(among(c)) \in Nat
           /\ Overshoot * Cardinality(among(c)) <= Overshoot * Cardinality(ahead(l))
      BY <1>0, <1>5, <3>9, Multiples
    <3> QED
      BY <1>0, <1>5, <3>7, <3>8, <3>10
  <2> QED
    BY <2>1, <2>2
<1>7. ASSUME NEW b \in Cores, NEW c \in Cores
      PROVE  Clock(b) - Clock(c) <= K + Overshoot * Cardinality(ahead(c))
  <2>1. CASE b = l /\ c = l
    <3> HIDE DEF ahead
    <3> QED
      BY <1>0, <1>5, <2>1
  <2>2. CASE b # l /\ c # l
    BY <1>3, <2>2
  <2>3. CASE b = l /\ c # l
    BY <1>4, <2>3
  <2>4. CASE b # l /\ c = l
    BY <1>6, <2>4
  <2> QED
    BY <2>1, <2>2, <2>3, <2>4
<1> QED
  BY <1>7 DEF CloseIn

(* A slice ends: the next core runs, or a new iteration starts.                               *)
LEMMA RunEndsClocks ==
  ASSUME TimingAssumption, TimerInv, ClockInv, RunEnds
  PROVE  ClockInv'
<1> DEFINE L == current_timer
<1>0. /\ UNCHANGED <<executed_ticks, slice_length, downcount, is_timer_sane, current_timer>>
      /\ pc = "run" /\ loop.core = L /\ loop.phase \in {"lag", "slice"} /\ L \in Cores
      /\ ~ is_timer_sane[L] /\ loop \in Loops /\ loop.max_slice \in Int
      /\ L \in Nat /\ L < NumCores /\ NumCores \in Nat
  BY Typed DEF RunEnds, clock, TimerInv, LoopInPhase, TimersSane
<1> HIDE DEF L
<1>1. UsesKnown'
  BY <1>0 DEF ClockInv, UsesKnown, Used, Longest
<1>2. \A c \in Cores : Clock(c)' = Clock(c)
  BY <1>0 DEF Clock
<1>3. ASSUME CloseIn(Cores), pc' = "top", loop' = Locals PROVE ClockInv'
  <2>1. CloseIn(Cores)'
    BY <1>2, <1>3, CloseStill
  <2>2. loop'.phase = "lag"
    BY <1>3 DEF Locals
  <2>3. ClocksClose' /\ LagInv' /\ LagRunInv' /\ SliceRunInv'
    BY <1>3, <2>1, <2>2 DEF ClocksClose, LagInv, LagRunInv, SliceRunInv, Advancing
  <2> QED
    BY <1>1, <2>3 DEF ClockInv
<1>4. CASE loop.phase = "lag"
  <2>1. pc' = "top" /\ loop' = Locals
    BY <1>4 DEF RunEnds
  <2>2. /\ CloseIn(Cores \ {L})
        /\ \A b \in Cores : Clock(b) - Clock(L) <= Longest
        /\ \E m \in Cores \ {L} : executed_ticks[L] + slice_length[L] <= Clock(m)
    BY <1>0, <1>4 DEF ClockInv, LagRunInv, L
  <2>3. CloseIn(Cores)
    BY <1>0, <2>2, CatchesUp
  <2> QED
    BY <1>3, <2>1, <2>3
<1>5. CASE loop.phase = "slice"
  <2>1. /\ \A a, b \in Cores : executed_ticks[a] - executed_ticks[b] <= MinDelay
        /\ UsedEvenly(L)
        /\ L = 0 => loop.max_slice <= MaxSlice
        /\ L > 0 => loop.max_slice = Used(L - 1)
        /\ slice_length[L] <= loop.max_slice
        /\ loop.start = executed_ticks[L]
    BY <1>0, <1>5 DEF ClockInv, SliceRunInv
  <2>2. /\ executed_ticks[L] \in Int /\ slice_length[L] \in Int /\ downcount[L] \in Int
        /\ Used(L) \in Int /\ Used(L) <= slice_length[L] + Overshoot
    BY <1>0, ClockFacts
  <2>3. UsedEvenly(L + 1)
    <3>1. MaxSlice \in Nat /\ Overshoot \in Nat
      BY BoundFacts
    <3>2. L = 0 => Used(L) <= MaxSlice + Overshoot
      BY <1>0, <2>1, <2>2, <3>1
    <3>3. L > 0 => Used(L) <= Used(L - 1) + Overshoot
      BY <1>0, <2>1, <2>2, <3>1
    <3> QED
      BY <1>0, <2>1, <3>2, <3>3, UsedByNext
  <2>4. CASE L + 1 < NumCores
    <3>1. /\ pc' = "slice"
          /\ loop' = [loop EXCEPT !.core = @ + 1, !.max_slice = GetTicks(L) - loop.start]
      BY <1>0, <1>5, <2>4 DEF RunEnds, L
    <3>2. GetTicks(L) - loop.start = Used(L)
      BY <1>0, <2>1, <2>2 DEF GetTicks, Used
    <3>3. loop'.phase = "slice" /\ loop'.core = L + 1 /\ loop'.max_slice = Used(L)
      BY <1>0, <1>5, <3>1, <3>2 DEF Loops
    <3>4. \A n \in Cores : n = L + 1 => UsedEvenly(n)'
      <4>1. ASSUME NEW n \in Cores, UsedEvenly(n) PROVE UsedEvenly(n)'
        BY <1>0, <4>1 DEF UsedEvenly, LongerThan, Used
      <4> QED
        BY <2>3, <4>1
    <3>5. slice_length'[L + 1 - 1] - downcount'[L + 1 - 1] = Used(L)
      BY <1>0 DEF Used
    <3>6. L + 1 # 0
      BY <1>0
    <3>7. SliceRunInv'
      BY <1>0, <2>1, <3>1, <3>3, <3>4, <3>5, <3>6 DEF SliceRunInv, Used
    <3>8. ClocksClose' /\ LagInv' /\ LagRunInv'
      BY <3>3 DEF ClocksClose, LagInv, LagRunInv
    <3> QED
      BY <1>1, <3>7, <3>8 DEF ClockInv
  <2>5. CASE ~ (L + 1 < NumCores)
    <3>1. pc' = "top" /\ loop' = Locals
      BY <1>0, <2>5 DEF RunEnds
    <3>2. L + 1 = NumCores
      BY <1>0, <2>5
    <3>3. CloseIn(Cores)
      BY <2>1, <2>3, <3>2, EvenlyClose
    <3> QED
      BY <1>3, <3>1, <3>3
  <2> QED
    BY <2>4, <2>5
<1> QED
  BY <1>0, <1>4, <1>5

(* At first all clocks are the same.                                                          *)
LEMMA TimingInitClocks ==
  ASSUME TimingAssumption, TimingInit, TimerInv
  PROVE  ClockInv
<1>1. /\ \A c \in Cores : /\ executed_ticks[c] = 0 /\ slice_length[c] = MaxSlice
                          /\ downcount[c] = MaxSlice
      /\ loop.phase = "lag" /\ pc = "top"
  BY DEF TimingInit, Locals
<1>2. MaxSlice \in Nat /\ MinDelay \in Nat /\ Longest \in Nat
  BY BoundFacts
<1>3. MaxSlice <= Longest
  <2>1. Overshoot * 0 \in Nat /\ MinDelay + MaxSlice + Overshoot * 0 <= Longest
    BY BoundFacts
  <2> QED
    BY <1>2, <2>1
<1>4. UsesKnown
  BY <1>1, <1>2, <1>3 DEF UsesKnown, Used
<1>5. CloseIn(Cores)
  <2> SUFFICES ASSUME NEW b \in Cores, NEW c \in Cores
               PROVE  Clock(b) - Clock(c) <=
                        MinDelay + MaxSlice + Overshoot * Cardinality(AheadOf(c, Cores))
    BY DEF CloseIn
  <2>1. Clock(b) = 0 /\ Clock(c) = 0
    BY <1>1, <1>2 DEF Clock
  <2>2. AheadOf(c, Cores) \in SUBSET Cores
    BY DEF AheadOf
  <2>3. Cardinality(AheadOf(c, Cores)) \in Nat
    BY <2>2, CoresCounted
  <2>4. Overshoot * Cardinality(AheadOf(c, Cores)) \in Nat
    BY <2>3, BoundFacts, Multiples
  <2> QED
    BY <1>2, <2>1, <2>4
<1>6. ClocksClose /\ LagInv /\ LagRunInv /\ SliceRunInv
  BY <1>1, <1>5 DEF ClocksClose, LagInv, LagRunInv, SliceRunInv, Advancing
<1> QED
  BY <1>4, <1>6 DEF ClockInv

(* Every step keeps the clocks close.                                                         *)
LEMMA TimingStepClocks ==
  ASSUME TimingAssumption, ~ SaveStates, TimerInv, ClockInv, [TimingNext]_timing_vars
  PROVE  ClockInv'
<1>1. CASE LoopStep
  BY <1>1, StartIterationClocks, LagNextClocks, LagAdvancedClocks, LagEndsClocks, SyncNextClocks,
     SyncAdvancedClocks, SliceNextClocks, AdvanceClocks, QuietStepsClocks, AdvanceEndsClocks,
     RunningClocks, RunEndsClocks DEF LoopStep
<1>2. CASE \E e \in Events, c \in Cores, d \in Delays : ScheduleEvent(e, c, d)
  BY <1>2, RunningClocks
<1>3. CASE HostStep \/ \E e \in Events : UnscheduleEvent(e)
  BY <1>3, QuietStepsClocks
<1>4. CASE SaveAndLoad
  BY <1>4 DEF SaveAndLoad
<1>5. CASE UNCHANGED timing_vars
  <2>1. UNCHANGED <<executed_ticks, slice_length, downcount, is_timer_sane, current_timer, loop, pc>>
    BY <1>5 DEF timing_vars, clock, control
  <2>2. UsesKnown'
    BY <2>1 DEF ClockInv, UsesKnown, Used, Longest
  <2> QED
    BY <2>1, <2>2, QuietClocks DEF Advancing
<1> QED
  BY <1>1, <1>2, <1>3, <1>4, <1>5 DEF TimingNext

(* An event for a core whose clock was not ahead when the slice began is late by one slice.   *)
LEMMA OneSliceLate ==
  ASSUME TimingAssumption, TimerInv, ClockInv, NEW c \in Cores, NEW time \in Int,
         executed_ticks[c] <= time
  PROVE  Clock(c) <= time + Reach + MinDelay
<1>1. /\ executed_ticks[c] \in Int /\ slice_length[c] \in Int /\ Clock(c) \in Int
      /\ Clock(c) <= executed_ticks[c] + slice_length[c] + Overshoot
  BY ClockFacts
<1>2. slice_length[c] <= Longest
  BY DEF ClockInv, UsesKnown
<1>3. Longest \in Nat /\ Longest + Overshoot = Reach + MinDelay /\ Overshoot \in Nat
  BY BoundFacts
<1>4. Reach \in Nat /\ MinDelay \in Nat
  BY Typed DEF TimerInv
<1> QED
  BY <1>1, <1>2, <1>3, <1>4

(* What is left to show is that no clock is ahead of an event that is under way to its core,  *)
(* and that events do not get late while others fire.                                         *)
LEMMA CrossKept ==
  ASSUME TimingAssumption, ~ SaveStates, TimerInv',
         \A c \in Cores : \A x \in Range(ts_queue'[c]) :
           x.from = "core" => executed_ticks'[c] <= x.time,
         pc' \in {"events", "callback"} =>
           \A c \in Cores : c = current_timer' =>
             \A x \in Range(event_queue'[c]) :
               x.from = "core" => Clock(c)' <= x.time + Reach + MinDelay
  PROVE  CrossInv'
<1> SUFFICES ASSUME NEW c \in Cores, NEW x \in Range(event_queue'[c]), x.from = "core"
             PROVE  Clock(c)' <= x.time + Reach + MinDelay
  BY DEF CrossInv
<1>1. CASE pc' \in {"events", "callback"} /\ c = current_timer'
  BY <1>1
<1>2. CASE ~ (pc' \in {"events", "callback"} /\ c = current_timer')
  <2>1. executed_ticks'[c] + slice_length'[c] <= x.time
    BY <1>2 DEF TimerInv, QueueAhead, Firing
  <2>2. - Overshoot <= downcount'[c]
    BY DEF TimerInv, SlicesInv
  <2>3. /\ executed_ticks' \in [Cores -> Int] /\ slice_length' \in [Cores -> Int]
        /\ downcount' \in [Cores -> Int] /\ event_queue'[c] \in Queues
    BY DEF TimerInv, TimingTypeOK, QueuesOrdered
  <2>4. executed_ticks'[c] \in Int /\ slice_length'[c] \in Int /\ downcount'[c] \in Int
    BY <2>3
  <2>5. x.time \in Int
    <3>1. x \in Record
      BY <2>3, QueueFacts DEF Range
    <3> QED
      BY <3>1, TimesAreIntegers
  <2>6. Overshoot \in Nat /\ Longest \in Nat /\ Longest + Overshoot = Reach + MinDelay /\ MinDelay \in Nat
    BY BoundFacts
  <2>7. Reach \in Int
    BY <2>6, BoundFacts DEF Reach
  <2>8. Clock(c)' = executed_ticks'[c] + slice_length'[c] - downcount'[c]
    BY DEF Clock
  <2>9. executed_ticks'[c] + slice_length'[c] - downcount'[c] <= x.time + Overshoot
    BY <2>1, <2>2, <2>4, <2>5, <2>6
  <2>10. Overshoot <= Reach + MinDelay
    BY <2>6
  <2> QED
    BY <2>4, <2>5, <2>6, <2>7, <2>8, <2>9, <2>10
<1> QED
  BY <1>1, <1>2

(* No step makes an event of another core later than that.                                    *)
LEMMA TimingStepCross ==
  ASSUME TimingAssumption, ~ SaveStates, TimerInv, ClockInv, CrossInv, [TimingNext]_timing_vars
  PROVE  CrossInv'
<1>0. TimerInv'
  BY TimingStepKeeps
<1>a. \A c \in Cores :
        /\ \A x \in Range(ts_queue[c]) : x.from = "core" => executed_ticks[c] <= x.time
        /\ \A x \in Range(event_queue[c]) : x.from = "core" => Clock(c) <= x.time + Reach + MinDelay
  BY DEF CrossInv
<1>b. /\ current_timer \in Cores /\ TimingTypeOK
      /\ \A c \in Cores : /\ event_queue[c] \in Queues /\ ts_queue[c] \in Seq(Record)
                          /\ executed_ticks[c] \in Int
  BY Typed DEF TimerInv, QueuesOrdered
<1>1. ASSUME UNCHANGED <<executed_ticks, ts_queue>>, pc' \notin {"events", "callback"} PROVE CrossInv'
  BY <1>0, <1>1, <1>a, CrossKept
<1>2. ASSUME UNCHANGED <<executed_ticks, slice_length, downcount, current_timer, ts_queue>>,
             \A c \in Cores : \A x \in Range(event_queue'[c]) :
               x.from = "core" => x \in Range(event_queue[c])
      PROVE  CrossInv'
  <2>1. \A c \in Cores : Clock(c)' = Clock(c)
    BY <1>2 DEF Clock
  <2> QED
    BY <1>2, <1>a, <2>1 DEF CrossInv
<1>3. CASE \/ LagNext \/ LagAdvanced \/ LagEnds \/ SyncNext \/ SyncAdvanced \/ SliceNext
           \/ AdvanceEnds \/ RunEnds \/ Idle \/ \E n \in 1 .. Reach : RunTicks(n)
  <2>1. UNCHANGED <<executed_ticks, ts_queue>>
    BY <1>3 DEF LagNext, LagAdvanced, LagEnds, SyncNext, SyncAdvanced, SliceNext, AdvanceEnds,
       RunEnds, Idle, RunTicks, clock, events
  <2>2. pc' \notin {"events", "callback"}
    BY <1>3 DEF LagNext, LagAdvanced, LagEnds, SyncNext, SyncAdvanced, SliceNext, AdvanceEnds,
       RunEnds, Idle, RunTicks, Begin, control
  <2> QED
    BY <1>1, <2>1, <2>2
<1>4. CASE StartIteration
  <2> DEFINE base == IF Remembers THEN 0 ELSE Min({executed_ticks[c] : c \in Cores})
  <2>1. /\ pc' = "lag" /\ executed_ticks' = [c \in Cores |-> executed_ticks[c] - base]
        /\ ts_queue' = ShiftAll(ts_queue, base)
    BY <1>4 DEF StartIteration
  <2>2. base \in Int
    BY <1>b, GlobalTicks
  <2> HIDE DEF base
  <2>3. ASSUME NEW c \in Cores, NEW y \in Range(ts_queue'[c]), y.from = "core"
        PROVE  executed_ticks'[c] <= y.time
    <3>1. ts_queue[c] \in Seq(Record)
      BY <1>b
    <3>2. PICK x \in Range(ts_queue[c]) : x \in Record /\ y.time = x.time - base /\ y.from = x.from
      BY <2>1, <2>2, <2>3, <3>1, ShiftFacts
    <3>3. executed_ticks[c] <= x.time
      BY <1>a, <2>3, <3>2
    <3>4. x.time \in Int /\ executed_ticks[c] \in Int
      BY <1>b, <3>2, TimesAreIntegers
    <3>5. executed_ticks'[c] = executed_ticks[c] - base
      BY <2>1
    <3> QED
      BY <2>2, <3>2, <3>3, <3>4, <3>5
  <2> QED
    BY <1>0, <2>1, <2>3, CrossKept
<1>5. CASE Advance
  <2> DEFINE L == current_timer
  <2>1. /\ current_timer' = current_timer
        /\ event_queue' = [event_queue EXCEPT ![L] = Moved(L)]
        /\ ts_queue' = [ts_queue EXCEPT ![L] = <<>>]
        /\ executed_ticks' = [executed_ticks EXCEPT ![L] = @ + slice_length[L] - downcount[L]]
        /\ slice_length' = [slice_length EXCEPT ![L] = 0]
        /\ downcount' = [downcount EXCEPT ![L] = 0]
    BY <1>5 DEF Advance
  <2>2. /\ executed_ticks \in [Cores -> Int] /\ slice_length \in [Cores -> Int]
        /\ downcount \in [Cores -> Int] /\ event_queue \in [Cores -> Seq(Record)]
        /\ ts_queue \in [Cores -> Seq(Record)]
    BY <1>b DEF TimingTypeOK
  <2>3. ASSUME NEW c \in Cores, NEW x \in Range(ts_queue'[c]), x.from = "core"
        PROVE  executed_ticks'[c] <= x.time
    <3>1. Range(<<>>) = {}
      BY DEF Range
    <3>2. c # L
      BY <2>1, <2>2, <2>3, <3>1
    <3>3. ts_queue'[c] = ts_queue[c] /\ executed_ticks'[c] = executed_ticks[c]
      BY <2>1, <2>2, <3>2
    <3> QED
      BY <1>a, <2>3, <3>3
  <2>4. ASSUME NEW c \in Cores, c = L, NEW x \in Range(event_queue'[c]), x.from = "core"
        PROVE  Clock(c)' <= x.time + Reach + MinDelay
    <3>1. executed_ticks[c] \in Int /\ slice_length[c] \in Int /\ downcount[c] \in Int
      BY ClockFacts
    <3>2. Clock(c)' = Clock(c)
      BY <2>1, <2>2, <2>4, <3>1 DEF Clock
    <3>3. event_queue'[c] = Merged(event_queue[c], ts_queue[c])
      BY <2>1, <2>2, <2>4 DEF Moved
    <3>4. x \in Range(event_queue[c]) \/ x \in Range(ts_queue[c])
      BY <1>b, <2>4, <3>3, MergedFacts
    <3>5. CASE x \in Range(event_queue[c])
      BY <1>a, <2>4, <3>2, <3>5
    <3>6. CASE x \in Range(ts_queue[c])
      <4>1. x \in Record
        <5>1. ts_queue[c] \in Seq(Record)
          BY <1>b
        <5> QED
          BY <3>6, <5>1 DEF Range
      <4>2. x.time \in Int
        BY <4>1, TimesAreIntegers
      <4>3. executed_ticks[c] <= x.time
        BY <1>a, <2>4, <3>6
      <4>4. Clock(c) <= x.time + Reach + MinDelay
        BY <4>2, <4>3, OneSliceLate
      <4> QED
        BY <3>2, <4>4
    <3> QED
      BY <3>4, <3>5, <3>6
  <2> QED
    BY <1>0, <2>1, <2>3, <2>4, CrossKept
<1>6. CASE FireEvent
  <2>1. /\ UNCHANGED <<executed_ticks, slice_length, downcount, current_timer, ts_queue>>
        /\ event_queue' = [event_queue EXCEPT ![current_timer] = Tail(@)]
        /\ event_queue[current_timer] # <<>>
    BY <1>6 DEF FireEvent, Due, clock
  <2>2. event_queue \in [Cores -> Seq(Record)]
    BY <1>b DEF TimingTypeOK
  <2>3. Range(Tail(event_queue[current_timer])) \subseteq Range(event_queue[current_timer])
    BY <1>b, <2>1, TailFacts
  <2>4. \A c \in Cores : event_queue'[c] = IF c = current_timer THEN Tail(event_queue[c]) ELSE event_queue[c]
    BY <2>1, <2>2
  <2> QED
    BY <1>2, <2>1, <2>3, <2>4
<1>7. CASE CallbackReturns \/ UNCHANGED timing_vars
  <2>1. UNCHANGED <<executed_ticks, slice_length, downcount, current_timer, ts_queue, event_queue>>
    BY <1>7 DEF CallbackReturns, timing_vars, clock, control, events
  <2> QED
    BY <1>2, <2>1
<1>8. CASE \E e \in Events : UnscheduleEvent(e)
  <2> PICK e \in Events : UnscheduleEvent(e)
    BY <1>8
  <2>1. UNCHANGED <<executed_ticks, slice_length, downcount, current_timer, ts_queue>>
    BY DEF UnscheduleEvent, clock, control
  <2>2. ASSUME NEW c \in Cores PROVE Range(event_queue'[c]) \subseteq Range(event_queue[c])
    <3>1. event_queue'[c] = Without(event_queue[c], {x \in Range(event_queue[c]) : x.id = e})
      BY DEF UnscheduleEvent
    <3> QED
      BY <1>b, <3>1, WithoutSorted
  <2> QED
    BY <1>2, <2>1, <2>2
<1>9. CASE HostStep
  <2>1. UNCHANGED <<executed_ticks, slice_length, downcount, current_timer, event_queue>>
    BY <1>9 DEF HostStep, HostStart, HostRead, HostPush, clock, control, events
  <2>2. ASSUME NEW c \in Cores, NEW x \in Range(ts_queue'[c]), x.from = "core"
        PROVE  x \in Range(ts_queue[c])
    <3>1. CASE UNCHANGED ts_queue
      BY <2>2, <3>1
    <3>2. CASE HostPush
      <4> DEFINE r == [id |-> host.id, time |-> HostTicks + HostCycles, from |-> "host", base |-> host.base]
      <4>1. ts_queue' = [ts_queue EXCEPT ![host.core] = Append(@, r)]
        BY <3>2 DEF HostPush
      <4>2. ts_queue \in [Cores -> Seq(Record)] /\ ts_queue[c] \in Seq(Record)
        BY <1>b DEF TimingTypeOK
      <4>3. r.from # "core"
        OBVIOUS
      <4> HIDE DEF r
      <4>4. ts_queue'[c] = Append(ts_queue[c], r) \/ ts_queue'[c] = ts_queue[c]
        BY <4>1, <4>2
      <4>5. Range(Append(ts_queue[c], r)) = Range(ts_queue[c]) \cup {r}
        <5>1. ts_queue[c] \in Seq(Record \cup {r}) /\ r \in Record \cup {r}
          BY <4>2
        <5> QED
          BY <5>1, RangeAppend
      <4> QED
        BY <2>2, <4>3, <4>4, <4>5
    <3> QED
      BY <1>9, <3>1, <3>2 DEF HostStep, HostStart, HostRead, events
  <2>3. \A c \in Cores : Clock(c)' = Clock(c)
    BY <2>1 DEF Clock
  <2> QED
    BY <1>a, <2>1, <2>2, <2>3 DEF CrossInv
<1>10. ASSUME NEW e \in Events, NEW k \in Cores, NEW cycles \in Delays, ScheduleEvent(e, k, cycles)
       PROVE  CrossInv'
  <2> DEFINE time == GetTicks(k) + cycles
             own == [id |-> e, time |-> time, from |-> "own", base |-> time]
             other == [id |-> e, time |-> time, from |-> "core", base |-> time]
             L == current_timer
  <2>1. UNCHANGED <<executed_ticks, is_timer_sane, current_timer, pc>> /\ pc \in {"run", "callback"}
    BY <1>10 DEF ScheduleEvent, InGuest, control
  <2>2. event_queue \in [Cores -> Seq(Record)] /\ ts_queue \in [Cores -> Seq(Record)]
    BY <1>b DEF TimingTypeOK
  <2>3. cycles \in Nat /\ GetTicks(k) \in Int /\ GetTicks(k) >= executed_ticks[k]
    <3>1. cycles \in Nat
      BY DEF TimingAssumption
    <3>2. /\ executed_ticks[k] \in Int /\ slice_length[k] \in Int /\ downcount[k] \in Int
          /\ Used(k) >= 0
      BY ClockFacts
    <3> QED
      BY <3>1, <3>2 DEF GetTicks, Used
  <2>4. time \in Int /\ executed_ticks[k] <= time
    <3>1. executed_ticks[k] \in Int
      BY <1>b
    <3> QED
      BY <2>3, <3>1
  <2>5. own \in Record /\ other \in Record /\ own.from = "own" /\ other.time = time
    BY <1>10, <2>4 DEF Record
  <2>6. CASE k = L
    <3>1. event_queue' = [event_queue EXCEPT ![L] = Insert(@, own)] /\ UNCHANGED ts_queue
      BY <1>10, <2>6 DEF ScheduleEvent
    <3> HIDE DEF own
    <3>2. \A c \in Cores : \A x \in Range(event_queue'[c]) :
            x.from = "core" => x \in Range(event_queue[c])
      <4>1. Range(Insert(event_queue[L], own)) = Range(event_queue[L]) \cup {own}
        BY <1>b, <2>5, InsertFacts
      <4>2. \A c \in Cores : event_queue'[c] = IF c = L THEN Insert(event_queue[c], own) ELSE event_queue[c]
        BY <2>2, <3>1
      <4> QED
        BY <2>5, <4>1, <4>2
    <3>3. CASE pc = "callback"
      <4>1. is_timer_sane[k]
        BY <2>6, <3>3 DEF TimerInv, TimersSane
      <4>2. UNCHANGED <<slice_length, downcount>>
        BY <1>10, <2>6, <4>1 DEF ScheduleEvent
      <4> QED
        BY <1>2, <2>1, <3>1, <3>2, <4>2
    <3>4. CASE pc = "run"
      BY <1>1, <2>1, <3>1, <3>4
    <3> QED
      BY <2>1, <3>3, <3>4
  <2>7. CASE k # L
    <3>1. /\ ts_queue' = [ts_queue EXCEPT ![k] = Append(@, other)]
          /\ UNCHANGED <<slice_length, downcount, event_queue>>
      BY <1>10, <2>7 DEF ScheduleEvent
    <3> HIDE DEF other, time
    <3>2. ASSUME NEW c \in Cores, NEW x \in Range(ts_queue'[c]), x.from = "core"
          PROVE  executed_ticks[c] <= x.time
      <4>1. Range(Append(ts_queue[k], other)) = Range(ts_queue[k]) \cup {other}
        <5>1. ts_queue[k] \in Seq(Record)
          BY <2>2
        <5> QED
          BY <2>5, <5>1, RangeAppend
      <4>2. ts_queue'[c] = IF c = k THEN Append(ts_queue[c], other) ELSE ts_queue[c]
        BY <2>2, <3>1
      <4>3. CASE x \in Range(ts_queue[c])
        BY <1>a, <3>2, <4>3
      <4>4. CASE x \notin Range(ts_queue[c])
        <5>1. c = k /\ x = other
          BY <3>2, <4>1, <4>2, <4>4
        <5> QED
          BY <2>4, <2>5, <5>1
      <4> QED
        BY <4>3, <4>4
    <3>3. \A c \in Cores : Clock(c)' = Clock(c)
      BY <2>1, <3>1 DEF Clock
    <3> QED
      BY <1>a, <2>1, <3>1, <3>2, <3>3 DEF CrossInv
  <2> QED
    BY <2>6, <2>7
<1> QED
  BY <1>3, <1>4, <1>5, <1>6, <1>7, <1>8, <1>9, <1>10 DEF TimingNext, LoopStep, SaveAndLoad

(* No core is further ahead than the longest slice and an overshoot.                          *)
LEMMA NoneFarAhead ==
  ASSUME TimingAssumption, TimerInv, ClockInv
  PROVE  SkewBounded
<1> SUFFICES ASSUME NEW a \in Cores, NEW b \in Cores
             PROVE  Clock(a) - Clock(b) <= Reach + MinDelay
  BY DEF SkewBounded
<1>0. /\ Longest \in Nat /\ Overshoot \in Nat /\ MinDelay \in Nat /\ MaxSlice \in Nat
      /\ Longest + Overshoot = Reach + MinDelay /\ Reach \in Nat
      /\ current_timer \in Cores
      /\ \A c \in Cores : /\ Clock(c) \in Int /\ executed_ticks[c] \in Int /\ Used(c) \in Int
                          /\ Clock(c) = executed_ticks[c] + Used(c) /\ Used(c) >= 0
                          /\ Used(c) <= slice_length[c] + Overshoot /\ slice_length[c] \in Int
                          /\ Clock(c) <= executed_ticks[c] + slice_length[c] + Overshoot
  <2>1. Reach \in Nat /\ current_timer \in Cores
    BY Typed DEF TimerInv
  <2> QED
    BY <2>1, BoundFacts, ClockFacts
<1>1. ASSUME Clock(a) - Clock(b) <= Longest + Overshoot
      PROVE  Clock(a) - Clock(b) <= Reach + MinDelay
  BY <1>0, <1>1
<1>2. CASE loop.phase \in {"lag", "sync"} /\ pc # "run"
  <2>1. CloseIn(Cores)
    BY <1>2 DEF ClockInv, ClocksClose
  <2>2. Clock(a) - Clock(b) <= Longest
    BY <2>1, CloseBounded
  <2> QED
    BY <1>0, <1>1, <2>2
<1>3. CASE loop.phase = "lag" /\ pc = "run"
  <2> PICK l \in Cores : l = current_timer
    BY <1>0
  <2>1. /\ CloseIn(Cores \ {l})
        /\ \A c \in Cores : Clock(c) - Clock(l) <= Longest
        /\ \E m \in Cores \ {l} : executed_ticks[l] + slice_length[l] <= Clock(m)
    BY <1>3 DEF ClockInv, LagRunInv
  <2>2. CASE b = l
    BY <1>0, <1>1, <2>1, <2>2
  <2>3. CASE a # l /\ b # l
    <3>1. Clock(a) - Clock(b) <= Longest
      BY <2>1, <2>3, CloseBounded
    <3> QED
      BY <1>0, <1>1, <3>1
  <2>4. CASE a = l /\ b # l
    <3>1. PICK m \in Cores \ {l} : executed_ticks[l] + slice_length[l] <= Clock(m)
      BY <2>1
    <3>2. Clock(m) - Clock(b) <= Longest
      BY <2>1, <2>4, CloseBounded
    <3>3. /\ Clock(a) <= executed_ticks[l] + slice_length[l] + Overshoot
          /\ Clock(a) \in Int /\ Clock(b) \in Int /\ Clock(m) \in Int /\ executed_ticks[l] \in Int
          /\ slice_length[l] \in Int
      BY <1>0, <2>4
    <3>4. Clock(a) - Clock(b) <= Longest + Overshoot
      BY <1>0, <3>1, <3>2, <3>3
    <3> QED
      BY <1>1, <3>4
  <2> QED
    BY <2>2, <2>3, <2>4
<1>4. CASE loop.phase = "slice"
  <2>1. /\ executed_ticks[a] - executed_ticks[b] <= MinDelay
        /\ \A n \in Cores : n = loop.core => UsedEvenly(n)
        /\ loop.core = 0 => loop.max_slice <= MaxSlice
        /\ loop.core > 0 => loop.max_slice = Used(loop.core - 1)
        /\ pc = "run" => slice_length[loop.core] <= loop.max_slice
    BY <1>4 DEF ClockInv, SliceRunInv
  <2> PICK n \in Cores : n = loop.core
    <3>1. pc \in {"slice", "run"}
      BY <1>4 DEF TimerInv, TimingTypeOK, LoopInPhase, Advancing
    <3> QED
      BY <1>0, <3>1 DEF TimerInv, LoopInPhase
  <2>2. /\ n \in Nat /\ n < NumCores /\ \A c \in Cores : c \in Nat
    BY Typed DEF TimerInv
  <2>3. loop.max_slice \in Int
    BY Typed DEF TimerInv
  <2> DEFINE longer == LongerThan(MaxSlice, n)
             O == Overshoot * Cardinality(longer)
  <2>4. /\ O \in Nat /\ MinDelay + MaxSlice + O <= Longest
    <3>1. longer \in SUBSET (Cores \ {n})
      BY <2>2 DEF LongerThan
    <3>2. Cardinality(longer) \in Nat /\ Cardinality(longer) < NumCores
      <4>1. Cardinality(longer) \in Nat /\ Cardinality(longer) < Cardinality(Cores)
        BY <3>1, CoresCounted
      <4>2. Cardinality(Cores) \in Nat /\ Cardinality(Cores) <= NumCores
        BY CoresCounted
      <4>3. NumCores \in Nat
        BY BoundFacts
      <4> QED
        BY <4>1, <4>2, <4>3
    <3> QED
      BY <3>2, BoundFacts
  <2>5. \A c \in Cores : c < n => Used(c) <= MaxSlice + O
    BY <1>0, <2>1 DEF UsedEvenly
  <2> HIDE DEF O
  <2>6. loop.max_slice <= MaxSlice + O
    <3>1. CASE n = 0
      BY <1>0, <2>1, <2>3, <2>4, <3>1
    <3>2. CASE n > 0
      <4>1. n - 1 \in Cores /\ n - 1 < n
        <5>1. NumCores \in Nat
          BY BoundFacts
        <5> QED
          BY <2>2, <3>2, <5>1 DEF Cores
      <4> QED
        BY <2>1, <2>5, <3>2, <4>1
    <3> QED
      BY <2>2, <3>1, <3>2
  <2>7. Used(a) <= MaxSlice + O + Overshoot
    <3>1. CASE a < n
      <4>1. Used(a) <= MaxSlice + O
        BY <2>5, <3>1
      <4> QED
        BY <1>0, <2>4, <4>1
    <3>2. CASE a = n /\ pc = "run"
      <4>1. slice_length[a] <= loop.max_slice /\ Used(a) <= slice_length[a] + Overshoot
        BY <1>0, <2>1, <3>2
      <4> QED
        BY <1>0, <2>3, <2>4, <2>6, <4>1
    <3>3. CASE a > n \/ (a = n /\ pc # "run")
      <4>1. Rested(a)
        <5>1. pc \in {"slice", "run"}
          BY <1>4 DEF TimerInv, TimingTypeOK, LoopInPhase, Advancing
        <5>2. a >= n
          BY <2>2, <3>3
        <5> QED
          BY <1>4, <3>3, <5>1, <5>2 DEF TimerInv, AllAdvanced
      <4>2. Used(a) = 0
        BY <4>1, ClockFacts
      <4> QED
        BY <1>0, <2>4, <4>2
    <3>4. a < n \/ a = n \/ a > n
      <4>1. a \in Nat /\ n \in Nat
        BY <2>2
      <4> QED
        BY <4>1
    <3> QED
      BY <3>1, <3>2, <3>3, <3>4
  <2>8. Clock(a) - Clock(b) <= MinDelay + Used(a)
    BY <1>0, <2>1
  <2>9. Clock(a) - Clock(b) <= Longest + Overshoot
    BY <1>0, <2>4, <2>7, <2>8
  <2> QED
    BY <1>1, <2>9
<1>5. /\ loop.phase \in {"lag", "sync", "slice"}
      /\ loop.phase = "sync" => pc # "run"
  <2>1. loop.phase \in {"lag", "sync", "slice"}
    BY Typed DEF TimerInv
  <2>2. pc = "run" => loop.phase \in {"lag", "slice"}
    BY DEF TimerInv, LoopInPhase
  <2> QED
    BY <2>1, <2>2
<1> QED
  BY <1>2, <1>3, <1>4, <1>5

(***************************************************************************)
(* RunLoop with any number of cores, where states are not saved and loaded   *)
(* in between: when the cores start to run one after the other they are      *)
(* within min_delay of each other; no core ever gets further ahead of        *)
(* another than a slice, min_delay and one overshoot for each core; and an   *)
(* event that a core schedules for another one is late by that at most.      *)
(***************************************************************************)
THEOREM ClocksAlwaysClose ==
  TimingAssumption /\ ~ SaveStates =>
    (TimingSpec => [](SyncedWhenSliced /\ SkewBounded /\ CrossEventsOneSliceLate))
<1> SUFFICES ASSUME TimingAssumption, ~ SaveStates
             PROVE  TimingSpec => [](SyncedWhenSliced /\ SkewBounded /\ CrossEventsOneSliceLate)
  OBVIOUS
<1> DEFINE Inv == TimerInv /\ ClockInv /\ CrossInv
<1>1. TimingInit => Inv
  <2> SUFFICES ASSUME TimingInit PROVE Inv
    OBVIOUS
  <2>1. TimerInv
    BY TimingInitKeeps
  <2>2. ClockInv
    BY <2>1, TimingInitClocks
  <2>3. CrossInv
    <3>1. Range(<<>>) = {}
      BY DEF Range
    <3> QED
      BY <3>1 DEF TimingInit, CrossInv
  <2> QED
    BY <2>1, <2>2, <2>3
<1>2. Inv /\ [TimingNext]_timing_vars => Inv'
  BY TimingStepKeeps, TimingStepClocks, TimingStepCross
<1>3. ASSUME Inv PROVE SyncedWhenSliced
  BY <1>3 DEF SyncedWhenSliced, ClockInv, SliceRunInv, TimerInv, LoopInPhase
<1>4. ASSUME Inv PROVE CrossEventsOneSliceLate
  <2> SUFFICES ASSUME NEW c \in Cores, NEW q \in {event_queue[c], ts_queue[c]}, NEW i \in DOMAIN q,
                      q[i].from = "core"
               PROVE  Clock(c) <= q[i].time + Reach + MinDelay
    BY DEF CrossEventsOneSliceLate
  <2>1. q[i] \in Range(q)
    BY DEF Range
  <2>2. CASE q = event_queue[c]
    BY <1>3, <1>4, <2>1, <2>2 DEF CrossInv
  <2>3. CASE q = ts_queue[c]
    <3>1. executed_ticks[c] <= q[i].time
      BY <1>4, <2>1, <2>3 DEF CrossInv
    <3>2. q[i] \in Record
      <4>1. ts_queue[c] \in Seq(Record)
        BY <1>4, Typed DEF TimerInv
      <4> QED
        BY <2>3, <4>1
    <3>3. q[i].time \in Int
      BY <3>2, TimesAreIntegers
    <3> QED
      BY <1>4, <3>1, <3>3, OneSliceLate
  <2> QED
    BY <2>2, <2>3
<1>5. Inv => SyncedWhenSliced /\ SkewBounded /\ CrossEventsOneSliceLate
  BY <1>3, <1>4, NoneFarAhead
<1> QED
  BY <1>1, <1>2, <1>5, PTL DEF TimingSpec

=============================================================================
