--------------------------- MODULE AddressArbiter ---------------------------
(***************************************************************************)
(* Address arbiters: a thread waits, with or without a timeout, while a    *)
(* word of memory is below a value, and a signal resumes the best threads  *)
(* that wait on an address.  The callback of a timeout refers to the       *)
(* arbiter, which nothing keeps alive once its last handle is closed: what *)
(* the callback does then is undefined.  Memory words keep their width,    *)
(* 2 * Limit values instead of 2^32.                                       *)
(***************************************************************************)
EXTENDS Integers, SequencesExt

CONSTANTS
  Threads, Arbiters, Addresses,
  Priorities,              \* priorities a thread may have, a lower number is better
  Limit,                   \* a word is in -Limit .. Limit - 1
  Values,                  \* values passed to ArbitrateAddress
  Closes, Terminations,    \* bounds
  Null

ArbiterAssumption ==
  Priorities \subseteq Nat /\ Values \subseteq Int /\ Limit \in Nat \ {0} /\ Closes \in Nat /\ Terminations \in Nat

Words == -Limit .. Limit - 1

VARIABLES
  waiting_threads,                     \* AddressArbiter, by arbiter
  exists,                              \* the arbiters whose handle is open
  memory,                              \* the word at each address
  status, wait_address, current_priority,
  timeout,                             \* the thread has a wakeup event
  parent,                              \* the arbiter that it waits on, and its wakeup callback refers to
  program,                             \* runs, or ended by an assert, or does what nobody knows
  arrivals,                            \* history: the waiting threads as they began to wait
  left                                 \* closes and terminations left

thread == <<status, wait_address, current_priority, timeout, parent>>
vars == <<waiting_threads, exists, memory, thread, program, arrivals, left>>

TypeOK ==
  /\ waiting_threads \in [Arbiters -> Seq(Threads)] /\ exists \subseteq Arbiters
  /\ memory \in [Addresses -> Words]
  /\ status \in [Threads -> {"Ready", "Running", "WaitArb", "Dead"}]
  /\ wait_address \in [Threads -> Addresses \cup {Null}]
  /\ current_priority \in [Threads -> Priorities]
  /\ timeout \in [Threads -> BOOLEAN] /\ parent \in [Threads -> Arbiters \cup {Null}]
  /\ program \in {"runs", "asserted", "undefined"} /\ arrivals \in Seq(Threads)

Init ==
  /\ waiting_threads = [b \in Arbiters |-> <<>>] /\ exists = Arbiters
  /\ memory \in [Addresses -> {0}]
  /\ status = [t \in Threads |-> "Running"]
  /\ wait_address = [t \in Threads |-> Null]
  /\ current_priority \in [Threads -> Priorities]
  /\ timeout = [t \in Threads |-> FALSE] /\ parent = [t \in Threads |-> Null]
  /\ program = "runs" /\ arrivals = <<>>
  /\ left = [closes |-> Closes, threads |-> Terminations]

-----------------------------------------------------------------------------
\* The list of an arbiter after std::stable_partition: the threads of address a come last
Others(list, a) == SelectSeq(list, LAMBDA t : wait_address[t] # a)
Matches(list, a) == SelectSeq(list, LAMBDA t : wait_address[t] = a)

\* Faulty: the last of the best threads is taken
LastOfTheBest(list) ==
  CHOOSE i \in DOMAIN list : \A j \in DOMAIN list :
    \/ current_priority[list[i]] < current_priority[list[j]]
    \/ current_priority[list[i]] = current_priority[list[j]] /\ i >= j

\* std::min_element: the place of the first of the best threads
MinElement(list) ==
  CHOOSE i \in DOMAIN list : \A j \in DOMAIN list :
    \/ current_priority[list[i]] < current_priority[list[j]]
    \/ current_priority[list[i]] = current_priority[list[j]] /\ i <= j

\* n calls of ResumeHighestPriorityThread: the threads of the address that are left
LeftAfter[n \in Nat, list \in Seq(Threads)] ==
  IF n = 0 \/ list = <<>> THEN list
  ELSE LeftAfter[n - 1, RemoveAt(list, MinElement(list))]

KeepOthers(b, a, kept) == [waiting_threads EXCEPT ![b] = Others(@, a) \o kept]

\* ResumeFromWait of waiting threads, which clears the wakeup callback
ResumeThreads(resumed) ==
  /\ status' = [t \in Threads |-> IF t \in resumed THEN "Ready" ELSE status[t]]
  /\ parent' = [t \in Threads |-> IF t \in resumed THEN Null ELSE parent[t]]
  /\ arrivals' = SelectSeq(arrivals, LAMBDA t : t \notin resumed)

\* The threads of address a are resumed, except those kept in the list
Resume(b, a, kept) ==
  /\ ResumeThreads(Range(Matches(waiting_threads[b], a)) \ Range(kept))
  /\ waiting_threads' = KeepOthers(b, a, kept)
  /\ UNCHANGED <<exists, memory, wait_address, current_priority, timeout, program, left>>

\* The program ends, or nobody knows what it does from here
Ends(how) ==
  /\ program' = how
  /\ UNCHANGED <<waiting_threads, exists, memory, thread, arrivals, left>>

Calls(t, b) == program = "runs" /\ status[t] = "Running" /\ b \in exists

AllWait(b) == \A t \in Range(waiting_threads[b]) : status[t] = "WaitArb"

\* ArbitrationType::Signal; a negative value resumes all threads, and 0 does not look at the list
Signal(t, b, a, value) ==
  /\ Calls(t, b) /\ (value = 0 \/ AllWait(b))
  /\ LET matches == Matches(waiting_threads[b], a)
     IN Resume(b, a, IF value < 0 THEN <<>> ELSE LeftAfter[value, matches])

\* "Inconsistent AddressArbiter state": a listed thread does not wait
SignalAsserts(t, b, value) == Calls(t, b) /\ value # 0 /\ ~AllWait(b) /\ Ends("asserted")

\* WaitThread, after WakeAfterDelay in a call with a timeout
WaitThread(t, b, a, timed) ==
  /\ wait_address' = [wait_address EXCEPT ![t] = a]
  /\ status' = [status EXCEPT ![t] = "WaitArb"]
  /\ waiting_threads' = [waiting_threads EXCEPT ![b] = Append(@, t)]
  /\ timeout' = [timeout EXCEPT ![t] = timed]
  /\ parent' = [parent EXCEPT ![t] = b]
  /\ arrivals' = Append(arrivals, t)
  /\ UNCHANGED <<exists, current_priority, program, left>>

WaitIfLessThan(t, b, a, value, timed) ==
  /\ Calls(t, b) /\ memory[a] < value
  /\ WaitThread(t, b, a, timed)
  /\ UNCHANGED memory

Decremented(w) == IF w = -Limit THEN Limit - 1 ELSE w - 1

DecrementAndWaitIfLessThan(t, b, a, value, timed) ==
  /\ Calls(t, b) /\ memory[a] < value
  /\ memory' = [memory EXCEPT ![a] = Decremented(@)]
  /\ WaitThread(t, b, a, timed)

\* ThreadWakeupCallback: a thread that still waits is taken from the list of the arbiter its
\* callback refers to and resumed; if the arbiter was destroyed, the callback reads freed memory
Timeout(t) ==
  /\ program = "runs" /\ timeout[t]
  /\ \/ /\ timeout' = [timeout EXCEPT ![t] = FALSE]
        /\ IF status[t] = "WaitArb"
           THEN /\ ResumeThreads({t})
                /\ waiting_threads' =
                     [waiting_threads EXCEPT ![parent[t]] = SelectSeq(@, LAMBDA u : u # t)]
           ELSE UNCHANGED <<status, parent, waiting_threads, arrivals>>
        /\ UNCHANGED <<exists, memory, wait_address, current_priority, program, left>>
     \/ status[t] = "WaitArb" /\ parent[t] \notin exists /\ Ends("undefined")

\* SwitchContext cancels the wakeup event of the thread it runs
SwitchContext(t) ==
  /\ program = "runs" /\ status[t] = "Ready"
  /\ status' = [status EXCEPT ![t] = "Running"]
  /\ timeout' = [timeout EXCEPT ![t] = FALSE]
  /\ UNCHANGED <<waiting_threads, exists, memory, wait_address, current_priority, parent, program,
                arrivals, left>>

\* A running thread stores a word, or changes the priority of any thread
Store(t, a, w) ==
  /\ program = "runs" /\ status[t] = "Running" /\ memory' = [memory EXCEPT ![a] = w]
  /\ UNCHANGED <<waiting_threads, exists, thread, program, arrivals, left>>

SetPriority(t, p) ==
  /\ program = "runs" /\ current_priority' = [current_priority EXCEPT ![t] = p]
  /\ UNCHANGED <<waiting_threads, exists, memory, status, wait_address, timeout, parent, program,
                arrivals, left>>

\* Thread::Stop: the thread stays in the list of the arbiter
Stop(t) ==
  /\ program = "runs" /\ status[t] # "Dead" /\ left.threads > 0
  /\ status' = [status EXCEPT ![t] = "Dead"]
  /\ timeout' = [timeout EXCEPT ![t] = FALSE]
  /\ arrivals' = SelectSeq(arrivals, LAMBDA u : u # t)
  /\ left' = [left EXCEPT !.threads = @ - 1]
  /\ UNCHANGED <<waiting_threads, exists, memory, wait_address, current_priority, parent, program>>

\* The last handle is closed: no thread is resumed, and callbacks still refer to the arbiter
Close(b) ==
  /\ program = "runs" /\ b \in exists /\ left.closes > 0
  /\ exists' = exists \ {b}
  /\ waiting_threads' = [waiting_threads EXCEPT ![b] = <<>>]
  /\ left' = [left EXCEPT !.closes = @ - 1]
  /\ UNCHANGED <<memory, thread, program, arrivals>>

-----------------------------------------------------------------------------
Next ==
  \/ \E t \in Threads, b \in Arbiters, a \in Addresses, value \in Values :
       \/ Signal(t, b, a, value) \/ SignalAsserts(t, b, value)
       \/ \E timed \in BOOLEAN :
            \/ WaitIfLessThan(t, b, a, value, timed)
            \/ DecrementAndWaitIfLessThan(t, b, a, value, timed)
  \/ \E t \in Threads : Timeout(t) \/ SwitchContext(t) \/ Stop(t)
  \/ \E t \in Threads, a \in Addresses, w \in Words : Store(t, a, w)
  \/ \E t \in Threads, p \in Priorities : SetPriority(t, p)
  \/ \E b \in Arbiters : Close(b)

Spec == Init /\ [][Next]_vars

\* Core timing fires every wakeup event
FairSpec == Spec /\ \A t \in Threads : WF_vars(Timeout(t))

-----------------------------------------------------------------------------
(* "Inconsistent AddressArbiter state": the assert of a signal holds, whichever of signal and *)
(* timeout came first (ResumeAllThreads).                                                     *)
ArbiterConsistent == program # "asserted"

(* A timeout finds the arbiter that its callback refers to.                                   *)
CallbacksValid == program # "undefined"

(* Only threads that wait, or were terminated while they waited, are in the list of an        *)
(* arbiter: a timeout and a signal that race both take the thread away.                       *)
ListedWait ==
  \A b \in Arbiters : \A t \in Range(waiting_threads[b]) : status[t] \in {"WaitArb", "Dead"}

(* A waiting thread is in the list of the arbiter it waits on, once, and in no other, so that *)
(* a signal reaches it as long as there is that arbiter, whatever signals for other addresses *)
(* rearranged the list.                                                                       *)
WaitersListed ==
  \A t \in Threads, b \in Arbiters : status[t] = "WaitArb" =>
    Cardinality({i \in DOMAIN waiting_threads[b] : waiting_threads[b][i] = t}) =
      (IF b = parent[t] /\ b \in exists THEN 1 ELSE 0)

(* No thread waits on an arbiter that is gone, where no signal can reach it.                  *)
NobodyStranded == \A t \in Threads : status[t] = "WaitArb" => parent[t] \in exists

Before(u, t) ==
  \E i, j \in DOMAIN arrivals : i < j /\ arrivals[i] = u /\ arrivals[j] = t

Rivals(u, t) ==
  /\ status[u] = "WaitArb" /\ wait_address[u] = wait_address[t]
  /\ \E b \in Arbiters : {u, t} \subseteq Range(waiting_threads[b])
  /\ \/ current_priority[u] < current_priority[t]
     \/ current_priority[u] = current_priority[t] /\ Before(u, t)

(* A signal never passes over a waiting thread of better priority, or of the same priority    *)
(* that came first, although every signal partitions the list anew.                           *)
SignalTakesTheBestStep ==
  \A t, u \in Threads :
    status[t] = "WaitArb" /\ status'[t] = "Ready" /\ timeout'[t] = timeout[t] /\ Rivals(u, t)
      => status'[u] = "Ready"
SignalTakesTheBest == [][SignalTakesTheBestStep]_vars

(* A wait with a timeout ends, with or without a signal, unless the emulator ends or a        *)
(* callback went astray.                                                                      *)
TimedWaitsEnd ==
  \A t \in Threads : status[t] = "WaitArb" /\ timeout[t] ~> status[t] # "WaitArb" \/ program # "runs"
=============================================================================
