-------------------------------- MODULE Room --------------------------------
(***************************************************************************)
(* A multiplayer room and its clients.  The thread of the room (room.cpp)  *)
(* takes one event at a time and keeps the members; each client            *)
(* (room_member.cpp) has a thread that receives and sends, and a user that *)
(* joins, leaves and queues packets, and both threads write its state.     *)
(*                                                                         *)
(* ENet is external: a live connection delivers what is sent reliably and  *)
(* in order; when one side disconnects, or the connection is lost, the     *)
(* other side gets some first part of what was under way and then the      *)
(* event "Disconnect".  The places of the host of the room are Peers, one  *)
(* more than the room has slots; a connection gets the first free one.  A  *)
(* member is found by peer or by nickname, so the order of the list is     *)
(* left out.                                                               *)
(***************************************************************************)
EXTENDS Integers, Sequences, FiniteSets

CONSTANTS
  Clients, Slots,
  Requests,          \* of each client: what it may ask for, [nick, mac, pass, version]
  Macs, NoPreferredMac,
  Console, Ip, User, \* of each client; User is "" for one that has no account
  Mods,              \* clients the verification backend calls moderators
  HostUsername,
  Games, NoGame,
  LeaveJoining,      \* whether a user may leave before the room has answered
  Sayings,           \* other packets users send
  Joins, Says,       \* bounds: joins, packets the users queue,
  Losses, Rooms,     \* connections that are lost, times the room is closed,
  Backlog            \* packets a client may have to receive when the room takes an event

ASSUME RoomAssumption ==
  /\ Slots \in Nat \ {0} /\ NoPreferredMac \notin Macs /\ NoGame \notin Games
  /\ LeaveJoining \in BOOLEAN
  /\ \A c \in Clients : Ip[c] # "" /\ \A r \in Requests[c] : r.mac \in Macs \cup {NoPreferredMac}
  /\ \A m \in Sayings :
       m.type \in {"WifiPacket", "ChatMessage", "ModKick", "ModBan", "ModUnban", "ModGetBanList"}
  /\ {Joins, Says, Losses, Rooms, Backlog} \subseteq Nat

Peers == 1 .. Slots + 1
NoPeer == 0

VARIABLES
  open, members, banned,
  place, owner,      \* of each peer: "free", "connected", "disconnecting"; the client it was given to
  up, down,          \* packets on their way to the room, by peer, and to a client
  link,              \* of each client: the peer at the other end of its live connection
  state,
  loop,              \* the thread of each client: "none", "service", "check", "done"
  user,              \* of each client: "idle", "game", "leaving"
  send_list, member_information, current_game_info,
  joins, says, losses, rooms,
  outcasts           \* history: clients that were banned and not unbanned since

room == <<open, members, banned, outcasts>>
ends == <<place, owner, link>>
client == <<state, loop, member_information>>
users == <<user, current_game_info>>
bounds == <<joins, says, losses, rooms>>
vars == <<room, ends, up, down, client, users, send_list, bounds>>

Connected(c) == state[c] \in {"Joining", "Joined", "Moderator"}
Refusals == {"RoomIsFull", "WrongPassword", "NameCollision", "MacCollision",
             "ConsoleIdCollision", "VersionMismatch", "HostBanned"}
Packet(t) == [type |-> t]

Init ==
  /\ open = TRUE /\ members = {} /\ banned = {} /\ outcasts = {}
  /\ place = [p \in Peers |-> "free"] /\ owner = [p \in Peers |-> NoPeer]
  /\ up = [p \in Peers |-> <<>>] /\ down = [c \in Clients |-> <<>>]
  /\ link = [c \in Clients |-> NoPeer]
  /\ state = [c \in Clients |-> "Idle"] /\ loop = [c \in Clients |-> "none"]
  /\ user = [c \in Clients |-> "idle"]
  /\ send_list = [c \in Clients |-> <<>>]
  /\ member_information = [c \in Clients |-> {}]
  /\ current_game_info = [c \in Clients |-> NoGame]
  /\ joins = 0 /\ says = 0 /\ losses = 0 /\ rooms = 0

-----------------------------------------------------------------------------
(* Connections *)

\* What the other side still gets of q once a connection is closed.
Cuts(q) == {Append(SubSeq(q, 1, k), Packet("Disconnect")) : k \in 0 .. Len(q)}

\* d, after packet m was sent to the peers of P.
Sent(d, P, m) == [c \in Clients |-> IF link[c] \in P THEN Append(d[c], m) ELSE d[c]]

PeersOf(M) == {m.peer : m \in M}
ConnectedPeers == {p \in Peers : place[p] = "connected"}

\* enet_peer_disconnect of p by the room: d, with what the client at p may still get.
Severed(d, p) ==
  IF \E c \in Clients : link[c] = p
  THEN LET c == CHOOSE c \in Clients : link[c] = p
       IN {[d EXCEPT ![c] = q] : q \in Cuts(d[c])}
  ELSE {d}
Unlinked(P) == [c \in Clients |-> IF link[c] \in P THEN NoPeer ELSE link[c]]

\* A connection is lost: both sides see it in their own time.
Lose(c) ==
  /\ losses < Losses /\ losses' = losses + 1
  /\ link[c] # NoPeer
  /\ \E u \in Cuts(up[link[c]]), d \in Cuts(down[c]) :
       /\ up' = [up EXCEPT ![link[c]] = u]
       /\ down' = [down EXCEPT ![c] = d]
  /\ link' = [link EXCEPT ![c] = NoPeer]
  /\ UNCHANGED <<room, place, owner, client, users, send_list, joins, says, rooms>>

-----------------------------------------------------------------------------
(* The room *)

\* What the room tells of the members.
Information(M) ==
  [type |-> "RoomInformation",
   members |-> {[nick |-> m.nick, mac |-> m.mac, game |-> m.game] : m \in M}]

BroadcastRoomInformation(d, M, P) == Sent(d, P, Information(M))
SendStatusMessage(d, M) == Sent(d, PeersOf(M), Packet("StatusMessage"))

\* The room takes the next event of peer p, a packet of type t.
Receive(p, t) ==
  /\ open /\ \A c \in Clients : Len(down[c]) <= Backlog
  /\ up[p] # <<>> /\ Head(up[p]).type = t
  /\ UNCHANGED <<open, client, users, send_list, bounds>>
Take(p) == up' = [up EXCEPT ![p] = Tail(@)]
Answer(p, t) ==
  /\ Take(p)
  /\ down' = Sent(down, {p}, Packet(t))
  /\ UNCHANGED <<members, banned, outcasts, ends>>

HasModPermission(p, M) ==
  \E m \in M : /\ m.peer = p
               /\ m.moderator \/ (HostUsername # "" /\ m.username = HostUsername)

\* The first reason not to let the client at p in, or "none".
Refusal(p, r) ==
  IF Cardinality(members) >= Slots THEN "RoomIsFull"
  ELSE IF ~r.pass THEN "WrongPassword"
  ELSE IF \E m \in members : m.nick = r.nick THEN "NameCollision"
  ELSE IF \E m \in members : m.mac = r.mac THEN "MacCollision"
  ELSE IF \E m \in members : m.console = Console[owner[p]] THEN "ConsoleIdCollision"
  ELSE IF ~r.version THEN "VersionMismatch"
  ELSE IF banned \cap ({User[owner[p]], Ip[owner[p]]} \ {""}) # {} THEN "HostBanned"
  ELSE "none"

\* The address a member gets: the one it prefers, or one nobody has.
AssignedMacs(r) ==
  IF r.mac # NoPreferredMac THEN {r.mac}
  ELSE {a \in Macs : \A m \in members : m.mac # a}

NewMember(p, r, a) ==
  [peer |-> p, nick |-> r.nick, mac |-> a, console |-> Console[owner[p]],
   username |-> User[owner[p]], game |-> NoGame,
   moderator |-> owner[p] \in Mods \/ r.nick = HostUsername]

Admit(p, r) ==
  \E a \in AssignedMacs(r) :
    LET M == members \cup {NewMember(p, r, a)}
        told == SendStatusMessage(down, members)
        seen == BroadcastRoomInformation(told, M, ConnectedPeers)
        type == IF HasModPermission(p, M) THEN "JoinSuccessAsMod" ELSE "JoinSuccess"
    IN /\ members' = M
       /\ down' = Sent(seen, {p}, Packet(type))

HandleJoinRequest(p) ==
  /\ Receive(p, "JoinRequest")
  /\ LET r == Head(up[p]).request IN
     \/ /\ Refusal(p, r) # "none"
        /\ Answer(p, Refusal(p, r))
     \/ /\ Refusal(p, r) = "none"
        /\ Admit(p, r)
        /\ Take(p)
        /\ UNCHANGED <<banned, outcasts, ends>>

\* Faulty: the change is not made known.
HandleGameNameSilently(p) ==
  /\ Receive(p, "SetGameInfo")
  /\ members' = {IF m.peer = p THEN [m EXCEPT !.game = Head(up[p]).game] ELSE m : m \in members}
  /\ Take(p)
  /\ UNCHANGED <<banned, outcasts, ends, down>>

HandleGameNamePacket(p) ==
  /\ Receive(p, "SetGameInfo")
  /\ LET g == Head(up[p]).game
         M == {IF m.peer = p THEN [m EXCEPT !.game = g] ELSE m : m \in members}
     IN /\ members' = M
        /\ down' = BroadcastRoomInformation(down, M, ConnectedPeers)
  /\ Take(p)
  /\ UNCHANGED <<banned, outcasts, ends>>

\* To all but the sender, or to the member that has the address, sender or not.
HandleWifiPacket(p) ==
  /\ Receive(p, "WifiPacket")
  /\ LET to == Head(up[p]).to
         M == IF to = "all" THEN {m \in members : m.peer # p}
                            ELSE {m \in members : m.mac = to}
     IN down' = Sent(down, PeersOf(M), Packet("WifiPacket"))
  /\ Take(p)
  /\ UNCHANGED <<members, banned, outcasts, ends>>

HandleChatPacket(p) ==
  /\ Receive(p, "ChatMessage")
  /\ down' = IF p \in PeersOf(members)
             THEN Sent(down, PeersOf(members) \ {p}, Packet("ChatMessage"))
             ELSE down
  /\ Take(p)
  /\ UNCHANGED <<members, banned, outcasts, ends>>

\* The member m is told why, disconnected and taken from the list.
Expel(m, reason) ==
  /\ \E d \in Severed(Sent(down, {m.peer}, Packet(reason)), m.peer) :
       down' = BroadcastRoomInformation(SendStatusMessage(d, members \ {m}),
                                        members \ {m}, ConnectedPeers \ {m.peer})
  /\ members' = members \ {m}
  /\ link' = Unlinked({m.peer})
  /\ place' = [place EXCEPT ![m.peer] = "disconnecting"]
  /\ UNCHANGED owner

\* The rest of p's packets: a peer that is being disconnected is not heard any more.
TakenFrom(p, m) ==
  up' = [q \in Peers |-> IF q = m.peer THEN <<Packet("Disconnect")>>
                         ELSE IF q = p THEN Tail(up[q]) ELSE up[q]]

\* A moderation request of p, when p may make it and Done is what it does.
Moderation(p, t, found, Done) ==
  /\ Receive(p, t)
  /\ \/ ~HasModPermission(p, members) /\ Answer(p, "ModPermissionDenied")
     \/ HasModPermission(p, members) /\ ~found /\ Answer(p, "ModNoSuchUser")
     \/ HasModPermission(p, members) /\ Done

Named(p) == {m \in members : m.nick = Head(up[p]).name}

HandleModKickPacket(p) ==
  Moderation(p, "ModKick", Named(p) # {},
    \E m \in Named(p) :
      /\ Expel(m, "HostKicked")
      /\ TakenFrom(p, m)
      /\ UNCHANGED <<banned, outcasts>>)

HandleModBanPacket(p) ==
  Moderation(p, "ModBan", Named(p) # {},
    \E m \in Named(p) :
      /\ Expel(m, "HostBanned")
      /\ TakenFrom(p, m)
      /\ banned' = banned \cup ({m.username, Ip[owner[m.peer]]} \ {""})
      /\ outcasts' = outcasts \cup {owner[m.peer]})

HandleModUnbanPacket(p) ==
  LET address == Head(up[p]).name IN
  Moderation(p, "ModUnban", address \in banned,
    /\ address \in banned
    /\ banned' = banned \ {address}
    /\ outcasts' = {c \in outcasts : address \notin {User[c], Ip[c]}}
    /\ down' = SendStatusMessage(down, members)
    /\ Take(p)
    /\ UNCHANGED <<members, ends>>)

HandleModGetBanListPacket(p) ==
  Moderation(p, "ModGetBanList", TRUE, Answer(p, "ModBanListResponse"))

\* Faulty: the member stays in the list.
DisconnectionKeepsMember(p) ==
  /\ Receive(p, "Disconnect")
  /\ down' = BroadcastRoomInformation(down, members, ConnectedPeers \ {p})
  /\ up' = [up EXCEPT ![p] = <<>>]
  /\ place' = [place EXCEPT ![p] = "free"]
  /\ owner' = [owner EXCEPT ![p] = NoPeer]
  /\ UNCHANGED <<members, banned, outcasts, link>>

\* The place of the peer is free for the next connection from here on.
HandleClientDisconnection(p) ==
  /\ Receive(p, "Disconnect")
  /\ LET M == {m \in members : m.peer # p}
         told == IF M # members THEN SendStatusMessage(down, M) ELSE down
     IN /\ members' = M
        /\ down' = BroadcastRoomInformation(told, M, ConnectedPeers \ {p})
  /\ up' = [up EXCEPT ![p] = <<>>]
  /\ place' = [place EXCEPT ![p] = "free"]
  /\ owner' = [owner EXCEPT ![p] = NoPeer]
  /\ UNCHANGED <<banned, outcasts, link>>

\* Destroy, SendCloseMessage included.  Who is no member hears nothing and finds out by a timeout.
Destroy ==
  LET live == {c \in Clients : link[c] # NoPeer}
      sent == Sent(down, PeersOf(members), Packet("CloseRoom"))
  IN /\ open /\ rooms < Rooms
     /\ \E rest \in [live -> UNION {Cuts(sent[c]) : c \in live}] :
          /\ \A c \in live : rest[c] \in Cuts(sent[c])
          /\ down' = [c \in Clients |-> IF c \in live THEN rest[c] ELSE down[c]]
     /\ open' = FALSE /\ rooms' = rooms + 1
     /\ members' = {}
     /\ up' = [p \in Peers |-> <<>>]
     /\ link' = Unlinked(Peers)
     /\ place' = [p \in Peers |-> "free"] /\ owner' = [p \in Peers |-> NoPeer]
     /\ UNCHANGED <<banned, outcasts, client, users, send_list, joins, says, losses>>

\* A room is created with the bans of the last one, or with none.
Create(kept) ==
  /\ ~open /\ open' = TRUE
  /\ banned' = IF kept THEN banned ELSE {}
  /\ outcasts' = IF kept THEN outcasts ELSE {}
  /\ UNCHANGED <<members, ends, up, down, client, users, send_list, bounds>>

-----------------------------------------------------------------------------
(* The user of a client *)

Queue(c, m) == send_list' = [send_list EXCEPT ![c] = Append(@, m)]

\* Join, with no thread left of an earlier one (with one, Join first leaves): the room is
\* there and has a place, so the thread starts.  Otherwise the client is idle again.
\* The thread has no packet to wait for before the request, so both are one step.
Join(c, r) ==
  /\ user[c] = "idle" /\ loop[c] = "none"
  /\ open /\ joins < Joins
  /\ \E p \in Peers :
       /\ place[p] = "free" /\ \A q \in 1 .. p - 1 : place[q] # "free"
       /\ place' = [place EXCEPT ![p] = "connected"]
       /\ owner' = [owner EXCEPT ![p] = c]
       /\ link' = [link EXCEPT ![c] = p]
  /\ state' = [state EXCEPT ![c] = "Joining"]
  /\ loop' = [loop EXCEPT ![c] = "service"]
  /\ Queue(c, [type |-> "JoinRequest", request |-> r])
  /\ user' = [user EXCEPT ![c] = "game"]
  /\ joins' = joins + 1
  /\ UNCHANGED <<room, up, down, member_information, current_game_info, says, losses, rooms>>

GamePacket(g) == [type |-> "SetGameInfo", game |-> g]

\* The end of Join.
SendCurrentGame(c) ==
  /\ user[c] = "game"
  /\ IF Connected(c) THEN Queue(c, GamePacket(current_game_info[c])) ELSE UNCHANGED send_list
  /\ user' = [user EXCEPT ![c] = "idle"]
  /\ UNCHANGED <<room, ends, up, down, client, current_game_info, bounds>>

\* The thread has read the state of the client ("service") or is about to ("check"): as long
\* as the client is connected the two are alike, so it is decided here where the thread is.
Leave(c) ==
  /\ user[c] = "idle" /\ loop[c] # "none"
  /\ LeaveJoining \/ state[c] # "Joining"
  /\ state' = [state EXCEPT ![c] = "Idle"]
  /\ \E at \in {loop[c]} \cup (IF Connected(c) THEN {"check"} ELSE {}) :
       loop' = [loop EXCEPT ![c] = at]
  /\ user' = [user EXCEPT ![c] = "leaving"]
  /\ UNCHANGED <<room, ends, up, down, member_information, current_game_info, send_list, bounds>>

\* The thread of the client has ended and is joined.
Left(c) ==
  /\ user[c] = "leaving" /\ loop[c] = "done"
  /\ loop' = [loop EXCEPT ![c] = "none"]
  /\ user' = [user EXCEPT ![c] = "idle"]
  /\ UNCHANGED <<room, ends, up, down, state, member_information, current_game_info, send_list,
                 bounds>>

Say(c) ==
  /\ user[c] = "idle" /\ says < Says
  /\ says' = says + 1
  /\ UNCHANGED <<room, ends, up, down, client, user, joins, losses, rooms>>

\* SendWifiPacket and SendChatMessage: queued whether the client is connected or not.
SendPacket(c, m) ==
  /\ m.type \in {"WifiPacket", "ChatMessage"}
  /\ Say(c)
  /\ Queue(c, m)
  /\ UNCHANGED current_game_info

\* SendModerationRequest and RequestBanList.
SendModerationRequest(c, m) ==
  /\ m.type \notin {"WifiPacket", "ChatMessage"}
  /\ Connected(c)
  /\ Say(c)
  /\ Queue(c, m)
  /\ UNCHANGED current_game_info

SendGameInfo(c, g) ==
  /\ Say(c)
  /\ current_game_info' = [current_game_info EXCEPT ![c] = g]
  /\ IF Connected(c) THEN Queue(c, GamePacket(g)) ELSE UNCHANGED send_list
-----------------------------------------------------------------------------
(* The thread of a client *)

\* The end of the loop, Disconnect included.
EndLoop(c) ==
  /\ loop[c] = "check" /\ ~Connected(c)
  /\ loop' = [loop EXCEPT ![c] = "done"]
  /\ member_information' = [member_information EXCEPT ![c] = {}]
  /\ down' = [down EXCEPT ![c] = <<>>]
  /\ link' = [link EXCEPT ![c] = NoPeer]
  /\ IF link[c] = NoPeer
     THEN UNCHANGED up
     ELSE \E u \in Cuts(up[link[c]]) : up' = [up EXCEPT ![link[c]] = u]
  /\ UNCHANGED <<room, place, owner, state, users, send_list, bounds>>

\* The end of a round, in which the state became s: what the user queued is sent, if there is
\* still a connection, and the thread looks at the state again.
EndRound(c, s) ==
  /\ state' = [state EXCEPT ![c] = s]
  /\ loop' = [loop EXCEPT ![c] = IF s = "Idle" THEN "check" ELSE "service"]
  /\ send_list' = [send_list EXCEPT ![c] = <<>>]
  /\ up' = IF link[c] = NoPeer THEN up ELSE [up EXCEPT ![link[c]] = @ \o send_list[c]]
  /\ UNCHANGED <<room, ends, users, bounds>>

\* Nothing came within 16 ms.
NoEvent(c) ==
  /\ loop[c] = "service"
  /\ EndRound(c, state[c])
  /\ UNCHANGED <<down, member_information>>

\* Faulty: who hears of the members is one.
StateTold(s, t) ==
  CASE t \in {"JoinSuccess", "RoomInformation"} -> "Joined"
    [] t = "JoinSuccessAsMod" -> "Moderator"
    [] t \in Refusals \cup {"CloseRoom", "HostKicked"} -> "Idle"
    [] t = "Disconnect" /\ s \in {"Joined", "Moderator"} -> "Idle"
    [] OTHER -> s

StateAfter(s, t) ==
  CASE t = "JoinSuccess" -> "Joined"
    [] t = "JoinSuccessAsMod" -> "Moderator"
    [] t \in Refusals \cup {"CloseRoom", "HostKicked"} -> "Idle"
    [] t = "Disconnect" /\ s \in {"Joined", "Moderator"} -> "Idle"
    [] OTHER -> s

Event(c) ==
  /\ loop[c] = "service" /\ down[c] # <<>>
  /\ LET m == Head(down[c]) IN
     /\ member_information' =
          IF m.type = "RoomInformation" THEN [member_information EXCEPT ![c] = m.members]
                                        ELSE member_information
     /\ EndRound(c, StateAfter(state[c], m.type))
  /\ down' = [down EXCEPT ![c] = Tail(@)]

-----------------------------------------------------------------------------
Handle(p) ==
  \/ HandleJoinRequest(p) \/ HandleGameNamePacket(p) \/ HandleWifiPacket(p)
  \/ HandleChatPacket(p) \/ HandleModKickPacket(p) \/ HandleModBanPacket(p)
  \/ HandleModUnbanPacket(p) \/ HandleModGetBanListPacket(p)
  \/ HandleClientDisconnection(p)

Use(c) ==
  \/ \E r \in Requests[c] : Join(c, r)
  \/ SendCurrentGame(c) \/ Leave(c) \/ Left(c)
  \/ \E m \in Sayings : SendPacket(c, m) \/ SendModerationRequest(c, m)
  \/ \E g \in Games : SendGameInfo(c, g)

Next ==
  \/ \E p \in Peers : Handle(p)
  \/ \E c \in Clients : Use(c) \/ EndLoop(c) \/ NoEvent(c) \/ Event(c) \/ Lose(c)
  \/ Destroy
  \/ \E kept \in BOOLEAN : Create(kept)

Spec == Init /\ [][Next]_vars

\* The threads run, and what has arrived is what a service call returns.
Fairness ==
  /\ \A p \in Peers : WF_vars(Handle(p))
  /\ \A c \in Clients :
       /\ WF_vars(EndLoop(c)) /\ WF_vars(NoEvent(c)) /\ WF_vars(Event(c))
       /\ WF_vars(SendCurrentGame(c) \/ Left(c))

FairSpec == Spec /\ Fairness

-----------------------------------------------------------------------------
(* Properties *)

Nicks == UNION {{r.nick : r \in Requests[c]} : c \in Clients}
Views == [nick : Nicks, mac : Macs, game : Games \cup {NoGame}]
Answers == Refusals \cup
  {"JoinSuccess", "JoinSuccessAsMod", "CloseRoom", "HostKicked", "StatusMessage", "WifiPacket",
   "ChatMessage", "ModPermissionDenied", "ModNoSuchUser", "ModBanListResponse", "Disconnect"}

\* The members, the places of the host, the packets and the threads have their types.
TypeOK ==
  /\ {m.nick : m \in members} \subseteq Nicks /\ {m.mac : m \in members} \subseteq Macs
  /\ place \in [Peers -> {"free", "connected", "disconnecting"}]
  /\ owner \in [Peers -> Clients \cup {NoPeer}] /\ link \in [Clients -> Peers \cup {NoPeer}]
  /\ \A c \in Clients : \A i \in 1 .. Len(down[c]) :
       LET m == down[c][i]
       IN IF m.type = "RoomInformation" THEN m.members \subseteq Views ELSE m.type \in Answers
  /\ state \in [Clients -> {"Idle", "Joining", "Joined", "Moderator"}]
  /\ loop \in [Clients -> {"none", "service", "check", "done"}]
  /\ user \in [Clients -> {"idle", "game", "leaving"}]
  /\ member_information \in [Clients -> SUBSET Views]
  /\ banned \subseteq (UNION {{Ip[c], User[c]} : c \in Clients}) \ {""}

\* HandleJoinRequest: whatever clients ask for, each with the console it always names and also
\* several times on one connection, no two members have a connection, name, address or console
\* in common, and the slots are not exceeded.
MembersDistinct ==
  /\ Cardinality(members) <= Slots
  /\ \A m, n \in members :
       m # n => m.peer # n.peer /\ m.nick # n.nick /\ m.mac # n.mac /\ m.console # n.console

\* HandleModKickPacket, HandleClientDisconnection: members point to peers of the host; none
\* points to a place that was given up, where the next client would be taken for that member.
MembersConnected ==
  \A m \in members : /\ place[m.peer] = "connected"
                     /\ Console[owner[m.peer]] = m.console

\* MemberLoop asserts "We have not yet received member information.": a client that takes the
\* answer to its request has been told of the members, and is one of them.
JoinAssert ==
  \A c \in Clients :
    (loop[c] = "service" /\ down[c] # <<>> /\ Head(down[c]).type \in {"JoinSuccess", "JoinSuccessAsMod"})
      => member_information[c] # {}

Believes(c) == state[c] \in {"Joined", "Moderator"}
IsMember(c) == \E m \in members : owner[m.peer] = c

\* BroadcastRoomInformation: a client that has joined and has nothing left to receive is a
\* member and knows the members and their games as the room does.
ViewsAgree ==
  \A c \in Clients :
    (Believes(c) /\ link[c] # NoPeer /\ down[c] = <<>>)
      => /\ link[c] \in PeersOf(members)
         /\ member_information[c] = Information(members).members

\* SendStatusMessage, HandleChatPacket, HandleWifiPacket: a client hears the others only after
\* it was told that it is in.
HeardOnceJoined ==
  \A c \in Clients :
    (state[c] = "Joining" /\ down[c] # <<>>)
      => Head(down[c]).type \notin {"StatusMessage", "ChatMessage", "WifiPacket"}

\* BroadcastRoomInformation, MemberLoop: a client is told of the members before it is told that
\* it is in, hears others only then, and knows what the room knows once it has received
\* everything.
ViewsSound == JoinAssert /\ HeardOnceJoined /\ ViewsAgree

\* HandleModBanPacket: a client that was banned is not a member again, under whatever name and
\* from whatever connection, until an address of it is unbanned or a room starts without bans.
BanHolds == \A m \in members : owner[m.peer] \notin outcasts

\* HandleJoinRequest, HandleClientDisconnection, HandleModBanPacket: members are distinct,
\* point to their own connections although places of the host are used again, and no banned
\* client is one of them.
MembersSound == TypeOK /\ MembersDistinct /\ MembersConnected /\ BanHolds

\* IsValidNickname: "A nickname is valid if it matches the regex and is not already taken by
\* anybody else in the room": a request refused for its name meets another member of that name.
NameTakenByOther ==
  \A p \in Peers :
    (open /\ up[p] # <<>> /\ Head(up[p]).type = "JoinRequest"
       /\ Refusal(p, Head(up[p]).request) = "NameCollision")
      => \E m \in members : m.peer # p /\ m.nick = Head(up[p]).request.nick

\* Kicks, bans, lost connections and closed rooms: when client and room disagree on whether the
\* client is in, they come to agree.
MembershipAgrees ==
  \A c \in Clients : (Believes(c) # IsMember(c)) ~> (Believes(c) = IsMember(c))

\* Leave, "Leaves the current room.": it returns.
LeaveEnds == \A c \in Clients : (user[c] = "leaving") ~> (user[c] = "idle")

\* MemberLoop, "Receive packets while the connection is open": it ends once it is closed.
ClosedEndsLoop ==
  \A c \in Clients : (loop[c] \in {"check", "service"} /\ link[c] = NoPeer)
                       ~> (loop[c] \in {"done", "none"})

=============================================================================
