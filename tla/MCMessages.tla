----------------------------- MODULE MCMessages -----------------------------
(***************************************************************************)
(* Instances of KernelIPC, AddressArbiter and SemaphoreCount.  A behaviour *)
(* is one of the sessions of two clients and one server ("requests"), with *)
(* ends that are closed ("closing"), with threads that are terminated too  *)
(* ("stopping"), with two servers that do what they should ("servers"); of *)
(* arbiters, with priorities ("order") or with timeouts, terminations and  *)
(* closed arbiters ("timeouts"); or of one semaphore, released by any      *)
(* counts ("counts").  What it is not of stays as it was in the beginning. *)
(***************************************************************************)
EXTENDS SemaphoreCount, Sequences

CONSTANTS t1, t2, t3, t4, o1, o2, port1, null

\* Every value of an integer of the width
AllCounts == s32

VARIABLES
  part,
  client, server_handle, has_port, pending_requesting_threads, currently_handling,
  waiting_threads, pending_sessions, active_sessions, status, wait_objects, res, out, left,
  arbiter_waiting, exists, memory, arb_status, wait_address, current_priority, timeout, parent,
  program, arrivals, arb_left

ipc_vars ==
  <<client, server_handle, has_port, pending_requesting_threads, currently_handling,
    waiting_threads, pending_sessions, active_sessions, status, wait_objects, res, out, left>>
arbiter_vars ==
  <<arbiter_waiting, exists, memory, arb_status, wait_address, current_priority, timeout, parent,
    program, arrivals, arb_left>>

\* t3 and t4 are threads of the server, t3 with the better priority
Better(V) == [v \in V |-> IF v = t3 THEN 1 ELSE 2]

Requests == INSTANCE KernelIPC WITH
  Clients <- {t1, t2}, Servers <- {t3}, Priority <- Better({t3}), Sessions <- {o1, o2}, Port <- port1,
  MaxSessions <- 1, Disciplined <- FALSE, ServerCloses <- 0, ClientCloses <- 0, Terminations <- 0,
  Nothing <- null

Closing == INSTANCE KernelIPC WITH
  Clients <- {t1, t2}, Servers <- {t3}, Priority <- Better({t3}), Sessions <- {o1, o2}, Port <- port1,
  MaxSessions <- 1, Disciplined <- FALSE, ServerCloses <- 1, ClientCloses <- 1, Terminations <- 0,
  Nothing <- null

Stopping == INSTANCE KernelIPC WITH
  Clients <- {t1}, Servers <- {t3, t4}, Priority <- Better({t3, t4}), Sessions <- {o1, o2},
  Port <- port1, MaxSessions <- 1, Disciplined <- FALSE, ServerCloses <- 1, ClientCloses <- 1,
  Terminations <- 1, Nothing <- null

Servers == INSTANCE KernelIPC WITH
  Clients <- {t1, t2}, Servers <- {t3, t4}, Priority <- Better({t3, t4}), Sessions <- {o1, o2},
  Port <- port1, MaxSessions <- 2, Disciplined <- TRUE, ServerCloses <- 0, ClientCloses <- 0,
  Terminations <- 0, Nothing <- null

\* A signal is for all threads, for none, for one or for two.
Order == INSTANCE AddressArbiter WITH
  Threads <- {t1, t2, t3}, Arbiters <- {o1}, Addresses <- {"a", "b"}, Priorities <- {1, 2}, Limit <- 1,
  Values <- {-1, 0, 1}, Closes <- 0, Terminations <- 0, Null <- null,
  waiting_threads <- arbiter_waiting, status <- arb_status, left <- arb_left

Timeouts == INSTANCE AddressArbiter WITH
  Threads <- {t1, t2, t3}, Arbiters <- {o1, o2}, Addresses <- {"a"}, Priorities <- {1}, Limit <- 1,
  Values <- {-1, 0, 1, 2}, Closes <- 1, Terminations <- 1, Null <- null,
  waiting_threads <- arbiter_waiting, status <- arb_status, left <- arb_left

ASSUME
  /\ Requests!IPCAssumption /\ Closing!IPCAssumption /\ Stopping!IPCAssumption
  /\ Servers!IPCAssumption /\ Order!ArbiterAssumption /\ Timeouts!ArbiterAssumption

Init ==
  /\ part \in {"requests", "closing", "stopping", "servers", "order", "timeouts", "counts"}
  /\ CASE part = "requests" -> Requests!IPCInit [] part = "closing" -> Closing!IPCInit
       [] part = "stopping" -> Stopping!IPCInit [] OTHER -> Servers!IPCInit
  /\ IF part = "order" THEN Order!Init ELSE Timeouts!Init
  /\ CountInit
  /\ part # "counts" => max_count = 1 /\ available_count = 1

Next ==
  /\ UNCHANGED part
  /\ \/ /\ \/ part = "requests" /\ Requests!IPCNext
           \/ part = "closing" /\ Closing!IPCNext
           \/ part = "stopping" /\ Stopping!IPCNext
           \/ part = "servers" /\ Servers!IPCNext
        /\ UNCHANGED <<arbiter_vars, count_vars>>
     \/ /\ \/ part = "order" /\ Order!Next
           \/ part = "timeouts" /\ Timeouts!Next
        /\ UNCHANGED <<ipc_vars, count_vars>>
     \/ /\ part = "counts" /\ CountNext
        /\ UNCHANGED <<ipc_vars, arbiter_vars>>

vars == <<part, ipc_vars, arbiter_vars, count_vars>>

(* A server thread that runs goes on serving, and core timing fires every wakeup event. *)
Fairness ==
  /\ \A v \in {t3, t4} : WF_ipc_vars(part = "servers" /\ Servers!Serve(v))
  /\ \A t \in {t1, t2, t3} : WF_arbiter_vars(part = "timeouts" /\ Timeouts!Timeout(t))

Spec == Init /\ [][Next]_vars /\ Fairness

-----------------------------------------------------------------------------

(* The parts have the types that their modules state. *)
TypeOK ==
  /\ CASE part = "requests" -> Requests!IPCTypeOK [] part = "closing" -> Closing!IPCTypeOK
       [] part = "stopping" -> Stopping!IPCTypeOK [] OTHER -> Servers!IPCTypeOK
  /\ IF part = "order" THEN Order!TypeOK ELSE Timeouts!TypeOK
  /\ CountTypeOK

(* A thread in WaitIPC has no wakeup event: the request it waits for is listed, so that a reply  *)
(* can wake it, as long as no end of a session is closed.                                       *)
NoOrphans ==
  CASE part = "requests" -> Requests!NoOrphans [] part = "servers" -> Servers!NoOrphans
    [] OTHER -> TRUE

(* HandleSyncRequest, ~ServerSession: the threads listed by a session wait for its reply and     *)
(* for nothing else, each in one place, also when ends are closed.                              *)
RequestersWait ==
  CASE part = "requests" -> Requests!RequestersWait [] part = "closing" -> Closing!RequestersWait
    [] part = "servers" -> Servers!RequestersWait [] OTHER -> TRUE

(* "Wake up any threads that may be waiting": no server sleeps on a session with a request that  *)
(* nobody handles, or on a port with connections to accept; two servers need to do what they     *)
(* should, and to have no third client (ReplyAndReceive).                                        *)
NoLostRequest ==
  CASE part = "requests" -> Requests!NoLostRequest [] part = "servers" -> Servers!NoLostRequest
    [] OTHER -> TRUE

(* ~ClientSession: a thread that waited on the server end of a session learns that the client    *)
(* is gone.                                                                                     *)
NoWaitOnClosed ==
  CASE part = "closing" -> Closing!NoWaitOnClosed [] part = "stopping" -> Stopping!NoWaitOnClosed
    [] OTHER -> TRUE

(* ConnectionClosed: the connection count of the port is the number of its sessions whose server *)
(* end exists, whatever kept that end alive; otherwise the port fills up for good.               *)
ConnectionsCounted ==
  CASE part = "closing" -> Closing!ConnectionsCounted [] part = "stopping" -> Stopping!ConnectionsCounted
    [] OTHER -> TRUE

(* Wait lists and wait_objects agree, so no server that was woken is woken again.                *)
WaitListsAgree == part = "stopping" => Stopping!WaitListsAgree

(* Every request is answered, with at most two clients: requests are taken last in, first out,   *)
(* but the one that is left is next.                                                            *)
RequestsAnswered ==
  \A c \in {t1, t2} : part = "servers" /\ status[c] = "WaitIPC" ~> part = "servers" /\ status[c] # "WaitIPC"

(* "Inconsistent AddressArbiter state": the assert of a signal holds, whichever of signal and      *)
(* timeout comes first, unless a thread was terminated, and a timeout finds the arbiter that its   *)
(* callback refers to, unless one was closed.                                                      *)
ArbiterRuns ==
  /\ part = "order" => Order!ArbiterConsistent /\ Order!CallbacksValid
  /\ part = "timeouts" => /\ ~Timeouts!ArbiterConsistent => arb_left.threads = 0
                          /\ ~Timeouts!CallbacksValid => arb_left.closes = 0

(* Only threads that wait, or were terminated in their wait, are listed; and a thread that waits   *)
(* is listed by its arbiter, once, so that a signal reaches it, unless the arbiter is closed.      *)
WaitersListed ==
  CASE part = "order" -> Order!ListedWait /\ Order!WaitersListed /\ Order!NobodyStranded
    [] part = "timeouts" -> Timeouts!ListedWait /\ Timeouts!WaitersListed
    [] OTHER -> TRUE

(* ResumeHighestPriorityThread: a signal never passes over a waiting thread of better priority,   *)
(* or of the same priority that came first, although every signal partitions the list anew.      *)
SignalTakesTheBest == [][part = "order" => Order!SignalTakesTheBestStep]_arbiter_vars

(* A wait on an address with a timeout ends, with or without a signal, unless a signal meets a      *)
(* thread that was terminated, or a timeout an arbiter that was closed.                            *)
TimedWaitsEnd ==
  \A t \in {t1, t2, t3} :
    part = "timeouts" /\ arb_status[t] = "WaitArb" /\ timeout[t]
      ~> part = "timeouts" /\ (arb_status[t] # "WaitArb" \/ program # "runs")

-----------------------------------------------------------------------------

(* ServerSession, ClientPort, ReplyAndReceive: requests, waiting threads, wait lists and       *)
(* connections agree with each other, whichever end closes or thread is terminated first;      *)
(* nobody waits for what cannot come, and no server sleeps on a request.                       *)
SessionsSound ==
  /\ TypeOK /\ NoOrphans /\ RequestersWait /\ NoLostRequest /\ NoWaitOnClosed
  /\ ConnectionsCounted /\ WaitListsAgree

(* AddressArbiter: the list holds the threads that wait, each once, through signals that race  *)
(* timeouts, terminations and closes; a signal takes the best thread although every signal     *)
(* partitions the list anew; and until a terminated thread or a closed arbiter was met, no     *)
(* assert fails and a wait with a timeout ends.                                                *)
ArbiterSound == []ArbiterRuns /\ []WaitersListed /\ SignalTakesTheBest /\ TimedWaitsEnd
=============================================================================
