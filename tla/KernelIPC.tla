----------------------------- MODULE KernelIPC -----------------------------
(***************************************************************************)
(* Sessions and ports of the emulated kernel: a client thread sends a      *)
(* request and sleeps, a server thread receives it with ReplyAndReceive    *)
(* and answers with a later ReplyAndReceive.  Endpoints are closed by      *)
(* either side; a ServerSession lives as long as a handle, the list of the *)
(* port or the wait of a thread refers to it.                              *)
(*                                                                         *)
(* Translation of command buffers always succeeds (an error is an ASSERT); *)
(* Ready and Running are one status, Runs.                                 *)
(***************************************************************************)
EXTENDS Integers, FiniteSets, SequencesExt, ListOps

CONSTANTS
  Clients, Servers,      \* threads of the client and of the server process
  Priority,              \* priority of each server thread, a lower number is better
  Sessions,              \* sessions that may be created, each once
  Port,                  \* a server port, with its client port
  MaxSessions,           \* max_sessions of the client port
  Disciplined,           \* servers wait on all they have and answer what they received
  ServerCloses, ClientCloses, Terminations,  \* bounds
  Nothing

IPCAssumption ==
  /\ Priority \in [Servers -> Nat] /\ MaxSessions \in Nat \ {0} /\ Disciplined \in BOOLEAN
  /\ ServerCloses \in Nat /\ ClientCloses \in Nat /\ Terminations \in Nat
  /\ IsFiniteSet(Sessions) /\ Port \notin Sessions /\ Clients \cap Servers = {}
  /\ Nothing \notin Clients \cup Sessions \cup {Port}

Threads == Clients \cup Servers
WaitObjects == Sessions \cup {Port}

VARIABLES
  client,                                          \* Session::client, by session
  server_handle,                                   \* a handle to the ServerSession is open
  has_port,                                        \* Session::port is set
  pending_requesting_threads, currently_handling,  \* ServerSession
  waiting_threads,                                 \* WaitObject
  pending_sessions, active_sessions,               \* ServerPort, ClientPort
  status, wait_objects,                            \* Thread
  res, out,                                        \* result and output of the last SVC
  left                                             \* closes and terminations left

session == <<client, server_handle, has_port>>
requests == <<pending_requesting_threads, currently_handling>>
port == <<pending_sessions, active_sessions>>
waits == <<waiting_threads, wait_objects>>
threads == <<status, res, out>>
ipc_vars == <<session, requests, port, waits, threads, left>>

Results == {"Success", "SessionClosed", "NoPendingSessions", "MaxConnectionsReached", "Placeholder"}

IPCTypeOK ==
  /\ client \in [Sessions -> {"none", "open", "closed"}]
  /\ server_handle \in [Sessions -> BOOLEAN] /\ has_port \in [Sessions -> BOOLEAN]
  /\ pending_requesting_threads \in [Sessions -> Seq(Clients)]
  /\ currently_handling \in [Sessions -> Clients \cup {Nothing}]
  /\ waiting_threads \in [WaitObjects -> Seq(Servers)]
  /\ pending_sessions \in Seq(Sessions) /\ active_sessions \in 0 .. MaxSessions
  /\ status \in [Threads -> {"Runs", "WaitIPC", "WaitSynchAny", "Dead"}]
  /\ wait_objects \in [Threads -> Seq(WaitObjects)]
  /\ res \in [Threads -> Results] /\ out \in [Threads -> WaitObjects \cup {Nothing}]

IPCInit ==
  /\ client = [s \in Sessions |-> "none"]
  /\ server_handle = [s \in Sessions |-> FALSE]
  /\ has_port = [s \in Sessions |-> FALSE]
  /\ pending_requesting_threads = [s \in Sessions |-> <<>>]
  /\ currently_handling = [s \in Sessions |-> Nothing]
  /\ waiting_threads = [o \in WaitObjects |-> <<>>]
  /\ pending_sessions = <<>> /\ active_sessions = 0
  /\ status = [t \in Threads |-> "Runs"]
  /\ wait_objects = [t \in Threads |-> <<>>]
  /\ res = [t \in Threads |-> "Success"] /\ out = [t \in Threads |-> Nothing]
  /\ left = [server |-> ServerCloses, client |-> ClientCloses, threads |-> Terminations]

-----------------------------------------------------------------------------
(* References to a ServerSession, and its destructor *)

\* The shared pointers to the server end of s
Alive(s) ==
  \/ server_handle[s] \/ s \in Range(pending_sessions)
  \/ \E t \in Threads : s \in Range(wait_objects[t])

\* Faulty: the port is not told that a session ended
ReleaseSilently(active, pending, handling) ==
  LET gone == {s \in Sessions : Alive(s) /\ ~ Alive(s)'}
  IN /\ active_sessions' = active
     /\ pending_requesting_threads' = [s \in Sessions |-> IF s \in gone THEN <<>> ELSE pending[s]]
     /\ currently_handling' = [s \in Sessions |-> IF s \in gone THEN Nothing ELSE handling[s]]

\* What an operation leaves, and ~ServerSession of the sessions that lost their last
\* reference to it; the destructor does not wake the clients.  Comes after the conjuncts
\* that give server_handle', pending_sessions' and wait_objects'.
ReleaseEnds(active, pending, handling) ==
  LET gone == {s \in Sessions : Alive(s) /\ ~ Alive(s)'}
  IN /\ active_sessions' = active - Cardinality({s \in gone : has_port[s]})
     /\ pending_requesting_threads' = [s \in Sessions |-> IF s \in gone THEN <<>> ELSE pending[s]]
     /\ currently_handling' = [s \in Sessions |-> IF s \in gone THEN Nothing ELSE handling[s]]

-----------------------------------------------------------------------------
(* Waiting and waking *)

\* ServerSession::ShouldWait and ServerPort::ShouldWait
ServerShouldWait(o, handling) ==
  IF o = Port THEN pending_sessions = <<>>
  ELSE client[o] = "open" /\ (pending_requesting_threads[o] = <<>> \/ handling[o] # Nothing)

\* The first of the best threads in the wait list of o
HighestPriorityThread(o) ==
  LET w == waiting_threads[o]
      i == CHOOSE k \in DOMAIN w : \A j \in DOMAIN w :
             \/ Priority[w[k]] < Priority[w[j]]
             \/ Priority[w[k]] = Priority[w[j]] /\ k <= j
  IN w[i]

\* WakeupAllWaitingThreads for o, with the IPC callback, once the woken threads are known;
\* before is the status of the threads up to here
Wake(before, woken, o, result) ==
  /\ status' = [t \in Threads |-> IF t \in woken THEN "Runs" ELSE before[t]]
  /\ out' = [t \in Threads |-> IF t \in woken THEN o ELSE out[t]]
  /\ res' = [t \in Threads |-> IF t \in woken THEN result ELSE res[t]]
  /\ wait_objects' = [t \in Threads |-> IF t \in woken THEN <<>> ELSE wait_objects[t]]
  /\ waiting_threads' = [p \in WaitObjects |-> Without(waiting_threads[p], woken)]

-----------------------------------------------------------------------------
(* Ports *)

Runs(t) == status[t] = "Runs"

Fresh(s) == client[s] = "none" /\ ~ server_handle[s]

\* CreateSessionToPort and ConnectToPort
Connect(c, s) ==
  /\ Runs(c) /\ Fresh(s) /\ active_sessions < MaxSessions
  /\ client' = [client EXCEPT ![s] = "open"]
  /\ has_port' = [has_port EXCEPT ![s] = TRUE]
  /\ pending_sessions' = Append(pending_sessions, s)
  /\ UNCHANGED <<server_handle, left>>
  /\ Wake(status, Range(waiting_threads[Port]), Port, "Success")
  /\ ReleaseEnds(active_sessions + 1, pending_requesting_threads, currently_handling)

ConnectFails(c) ==
  /\ Runs(c) /\ active_sessions >= MaxSessions
  /\ res' = [res EXCEPT ![c] = "MaxConnectionsReached"]
  /\ UNCHANGED <<session, requests, port, waits, status, out, left>>

\* A portless session, whose client handle was passed to the client process
CreateSession(v, s) ==
  /\ Runs(v) /\ Fresh(s)
  /\ client' = [client EXCEPT ![s] = "open"]
  /\ server_handle' = [server_handle EXCEPT ![s] = TRUE]
  /\ UNCHANGED <<has_port, requests, port, waits, threads, left>>

\* Accept: last in, first out
AcceptSession(v) ==
  /\ Runs(v) /\ (Disciplined => out[v] = Port)
  /\ IF pending_sessions = <<>>
     THEN /\ res' = [res EXCEPT ![v] = "NoPendingSessions"]
          /\ UNCHANGED <<pending_sessions, server_handle>>
     ELSE /\ res' = [res EXCEPT ![v] = "Success"]
          /\ pending_sessions' = Front(pending_sessions)
          /\ server_handle' = [server_handle EXCEPT ![Last(pending_sessions)] = TRUE]
  /\ out' = [out EXCEPT ![v] = Nothing]
  /\ UNCHANGED <<client, has_port, requests, active_sessions, waits, status, left>>

-----------------------------------------------------------------------------
(* Requests *)

\* Faulty: the request does not wake the servers that wait for it
SendWithoutWakeup(c, s) ==
  /\ Runs(c) /\ client[s] = "open" /\ Alive(s)
  /\ status' = [status EXCEPT ![c] = "WaitIPC"]
  /\ pending_requesting_threads' = [pending_requesting_threads EXCEPT ![s] = Append(@, c)]
  /\ UNCHANGED <<session, currently_handling, port, waits, res, out, left>>

\* HandleSyncRequest of a session without an HLE handler
SendSyncRequest(c, s) ==
  /\ Runs(c) /\ client[s] = "open" /\ Alive(s)
  /\ LET pending == Append(pending_requesting_threads[s], c)
         wakes == currently_handling[s] = Nothing /\ waiting_threads[s] # <<>>
         woken == IF wakes THEN {HighestPriorityThread(s)} ELSE {}
     IN /\ Wake([status EXCEPT ![c] = "WaitIPC"], woken, s, "Success")
        /\ UNCHANGED <<server_handle, pending_sessions>>
        /\ IF wakes
           THEN ReleaseEnds(active_sessions,
                        [pending_requesting_threads EXCEPT ![s] = Front(pending)],
                        [currently_handling EXCEPT ![s] = Last(pending)])
           ELSE ReleaseEnds(active_sessions,
                        [pending_requesting_threads EXCEPT ![s] = pending], currently_handling)
  /\ UNCHANGED <<client, has_port, left>>

SendToClosed(c, s) ==
  /\ Runs(c) /\ client[s] = "open" /\ ~ Alive(s)
  /\ res' = [res EXCEPT ![c] = "SessionClosed"]
  /\ UNCHANGED <<session, requests, port, waits, status, out, left>>

\* Arguments of ReplyAndReceive: the objects, and the session to reply to or Nothing
Owned == {s \in Sessions : server_handle[s]}

ObjectLists(v) ==
  IF Disciplined
  THEN {SetToSeq(Owned) \o <<Port>> : x \in {out[v]} \ {Port}}
  ELSE {<<>>, <<Port>>} \cup {<<s>> : s \in Owned} \cup {<<Port, s>> : s \in Owned}

ReplyTargets(v) ==
  IF Disciplined
  THEN {IF out[v] \in Owned /\ currently_handling[out[v]] # Nothing THEN out[v] ELSE Nothing}
  ELSE {Nothing} \cup Owned

\* The reply cannot be sent: nothing is received either
ReplyFails(v, target) ==
  /\ Runs(v) /\ target \in ReplyTargets(v) \ {Nothing}
  /\ currently_handling[target] = Nothing \/ client[target] # "open"
  /\ currently_handling' = [currently_handling EXCEPT ![target] = Nothing]
  /\ out' = [out EXCEPT ![v] = Nothing]
  /\ res' = [res EXCEPT ![v] = "SessionClosed"]
  /\ UNCHANGED <<session, pending_requesting_threads, port, waits, status, left>>

Ready(objects, handling) == {i \in DOMAIN objects : ~ ServerShouldWait(objects[i], handling)}

\* ResumeFromWait of the thread that is answered: a dead thread stays dead
Answered(target) ==
  IF target = Nothing \/ status[currently_handling[target]] # "WaitIPC" THEN status
  ELSE [status EXCEPT ![currently_handling[target]] = "Runs"]

\* The first object that is ready, with the closed sessions; requests are taken last in,
\* first out
Receive(v, objects, handling) ==
  LET i == CHOOSE k \in Ready(objects, handling) : \A j \in Ready(objects, handling) : k <= j
      o == objects[i]
      takes == o # Port /\ client[o] = "open"
  IN /\ out' = [out EXCEPT ![v] = o]
     /\ res' = [res EXCEPT ![v] = IF o = Port \/ takes THEN "Success" ELSE "SessionClosed"]
     /\ IF takes
        THEN /\ currently_handling' = [handling EXCEPT ![o] = Last(pending_requesting_threads[o])]
             /\ pending_requesting_threads' = [pending_requesting_threads EXCEPT ![o] = Front(@)]
        ELSE currently_handling' = handling /\ UNCHANGED pending_requesting_threads
     /\ UNCHANGED waits

Sleep(v, objects, handling) ==
  /\ wait_objects' = [wait_objects EXCEPT ![v] = objects]
  /\ waiting_threads' = [o \in WaitObjects |->
       IF o \in Range(objects) /\ v \notin Range(waiting_threads[o])
       THEN Append(waiting_threads[o], v) ELSE waiting_threads[o]]
  /\ out' = [out EXCEPT ![v] = Nothing]
  /\ res' = [res EXCEPT ![v] = "Success"]
  /\ currently_handling' = handling
  /\ UNCHANGED pending_requesting_threads

ReplyAndReceive(v, objects, target) ==
  LET handling == [s \in Sessions |-> IF s = target THEN Nothing ELSE currently_handling[s]]
  IN /\ Runs(v) /\ objects \in ObjectLists(v) /\ target \in ReplyTargets(v)
     /\ target # Nothing => currently_handling[target] # Nothing /\ client[target] = "open"
     /\ \/ /\ objects = <<>>
           /\ out' = [out EXCEPT ![v] = Nothing]
           /\ res' = [res EXCEPT ![v] = IF target = Nothing THEN "Placeholder" ELSE "Success"]
           /\ currently_handling' = handling
           /\ status' = Answered(target)
           /\ UNCHANGED <<pending_requesting_threads, waits>>
        \/ /\ Ready(objects, handling) # {}
           /\ Receive(v, objects, handling)
           /\ status' = Answered(target)
        \/ /\ objects # <<>> /\ Ready(objects, handling) = {}
           /\ Sleep(v, objects, handling)
           /\ status' = [Answered(target) EXCEPT ![v] = "WaitSynchAny"]
     /\ UNCHANGED <<session, port, left>>

-----------------------------------------------------------------------------
(* Closing *)

\* The last handle to the client end: pending requests are forgotten, and threads that wait
\* on the server end are woken
CloseClient(s) ==
  /\ client[s] = "open" /\ left.client > 0
  /\ client' = [client EXCEPT ![s] = "closed"]
  /\ UNCHANGED <<server_handle, has_port, pending_sessions>>
  /\ Wake(status, Range(waiting_threads[s]), s, "SessionClosed")
  /\ ReleaseEnds(active_sessions, [pending_requesting_threads EXCEPT ![s] = <<>>],
             [currently_handling EXCEPT ![s] = Nothing])
  /\ left' = [left EXCEPT !.client = @ - 1]

\* The last handle to the server end; a waiting thread keeps the object alive
CloseServer(s) ==
  /\ server_handle[s] /\ left.server > 0
  /\ server_handle' = [server_handle EXCEPT ![s] = FALSE]
  /\ UNCHANGED <<client, has_port, pending_sessions, waits, threads>>
  /\ ReleaseEnds(active_sessions, pending_requesting_threads, currently_handling)
  /\ left' = [left EXCEPT !.server = @ - 1]

\* Thread::Stop: requests of the thread stay in their session
Stop(t) ==
  /\ status[t] # "Dead" /\ left.threads > 0
  /\ status' = [status EXCEPT ![t] = "Dead"]
  /\ wait_objects' = [wait_objects EXCEPT ![t] = <<>>]
  /\ waiting_threads' = [o \in WaitObjects |-> Without(waiting_threads[o], {t})]
  /\ UNCHANGED <<session, pending_sessions, res, out>>
  /\ ReleaseEnds(active_sessions, pending_requesting_threads, currently_handling)
  /\ left' = [left EXCEPT !.threads = @ - 1]

-----------------------------------------------------------------------------
Serve(v) ==
  \/ AcceptSession(v)
  \/ \E target \in Sessions : ReplyFails(v, target)
  \/ \E objects \in ObjectLists(v), target \in ReplyTargets(v) : ReplyAndReceive(v, objects, target)

IPCNext ==
  \/ \E s \in Sessions : CloseClient(s) \/ CloseServer(s)
  \/ \E c \in Clients, s \in Sessions : Connect(c, s) \/ SendSyncRequest(c, s) \/ SendToClosed(c, s)
  \/ \E c \in Clients : ConnectFails(c)
  \/ \E v \in Servers : Serve(v)
  \/ \E v \in Servers, s \in Sessions : CreateSession(v, s)
  \/ \E t \in Threads : Stop(t)

IPCSpec == IPCInit /\ [][IPCNext]_ipc_vars

\* A server thread that runs goes on serving
FairSpec == IPCSpec /\ \A v \in Servers : WF_ipc_vars(Serve(v))

-----------------------------------------------------------------------------
Requesters(s) == pending_requesting_threads[s] \o
  (IF currently_handling[s] = Nothing THEN <<>> ELSE <<currently_handling[s]>>)

(* A thread in WaitIPC has no wakeup event: the request it waits for is listed, so that a     *)
(* reply can wake it (HandleSyncRequest, ReplyAndReceive, ~ServerSession, ~ClientSession).    *)
NoOrphans ==
  \A c \in Clients : status[c] = "WaitIPC" => \E s \in Sessions : c \in Range(Requesters(s))

(* The threads listed by a session wait for its reply and for nothing else, each in one       *)
(* place: ResumeFromWait is never called for a thread that runs or that is dead.              *)
RequestersWait ==
  \A s \in Sessions :
    /\ IsInjective(Requesters(s))
    /\ \A c \in Range(Requesters(s)) :
         /\ status[c] = "WaitIPC"
         /\ \A r \in Sessions \ {s} : c \notin Range(Requesters(r))

(* "Wake up any threads that may be waiting": no thread sleeps on a session that has a        *)
(* request nobody handles, or on a port with connections to accept.                           *)
NoLostRequest ==
  \A o \in WaitObjects : ~ ServerShouldWait(o, currently_handling) => waiting_threads[o] = <<>>

(* Closed sessions never wait: a thread that waited on the server end of a session learns     *)
(* that the client is gone (~ClientSession, after it cleared Session::client).                *)
NoWaitOnClosed ==
  \A s \in Sessions : client[s] = "closed" => waiting_threads[s] = <<>>

(* The connection count of the port is the number of its sessions whose server end exists,    *)
(* whatever kept that end alive; otherwise the port fills up for good.                        *)
ConnectionsCounted ==
  active_sessions = Cardinality({s \in Sessions : has_port[s] /\ Alive(s)})

(* Wait lists and wait_objects agree, so no woken thread is woken again.                      *)
WaitListsAgree ==
  \A o \in WaitObjects, v \in Servers :
    /\ v \in Range(waiting_threads[o]) <=> o \in Range(wait_objects[v])
    /\ wait_objects[v] # <<>> => status[v] = "WaitSynchAny"

(* Every request is answered, with at most two clients: requests are taken last in, first     *)
(* out, but the one that is left is next.                                                     *)
RequestsAnswered == \A c \in Clients : status[c] = "WaitIPC" ~> status[c] # "WaitIPC"
=============================================================================
