----------------------------- MODULE RoomProofs -----------------------------
(***************************************************************************)
(* A multiplayer room keeps its members sound, for any clients and any     *)
(* requests, packets, losses and closings, and its clients know them.  The *)
(* first invariant adds to the property what the places of the ENet host   *)
(* and the packets under way say of each other, and that the addresses of  *)
(* a banned client are banned; the second says what the packets under way  *)
(* to a client will make it believe.                                       *)
(***************************************************************************)
EXTENDS Room, TLAPS, SequenceTheorems, FiniteSetTheorems

-----------------------------------------------------------------------------
(* The invariant *)

AllRequests == UNION {Requests[c] : c \in Clients}
AllGames == Games \cup {NoGame}
Usernames == {User[c] : c \in Clients}
Consoles == {Console[c] : c \in Clients}
Addresses == (UNION {{Ip[c], User[c]} : c \in Clients}) \ {""}

(* What a client sends, what else a peer of the room gets, and what a client gets.            *)
SendPackets ==
  [type : {"JoinRequest"}, request : AllRequests] \cup [type : {"SetGameInfo"}, game : AllGames]
    \cup Sayings
UpPackets == SendPackets \cup {Packet("Disconnect")}
DownPackets == [type : Answers] \cup [type : {"RoomInformation"}, members : SUBSET Views]

Members ==
  [peer : Peers, nick : Nicks, mac : Macs, console : Consoles, username : Usernames,
   game : AllGames, moderator : BOOLEAN]

RoomTypes == members \subseteq Members /\ IsFiniteSet(members) /\ banned \subseteq Addresses /\ outcasts \subseteq Clients
EndTypes ==
  /\ place \in [Peers -> {"free", "connected", "disconnecting"}]
  /\ owner \in [Peers -> Clients \cup {NoPeer}] /\ link \in [Clients -> Peers \cup {NoPeer}]
  /\ up \in [Peers -> Seq(UpPackets)]
DownTypes == down \in [Clients -> Seq(DownPackets)]
ClientTypes ==
  /\ state \in [Clients -> {"Idle", "Joining", "Joined", "Moderator"}]
  /\ loop \in [Clients -> {"none", "service", "check", "done"}]
  /\ user \in [Clients -> {"idle", "game", "leaving"}]
  /\ send_list \in [Clients -> Seq(SendPackets)]
  /\ member_information \in [Clients -> SUBSET Views]
  /\ current_game_info \in [Clients -> AllGames]

(* A place of the host that is free has nothing to be received, one that is given up only the *)
(* event "Disconnect"; a live connection leads to a place that was given to its client, and   *)
(* no such event is under way on it.                                                          *)
PlacesLinked ==
  /\ \A p \in Peers : place[p] = "free" => up[p] = <<>>
  /\ \A p \in Peers : place[p] = "disconnecting" => up[p] = <<Packet("Disconnect")>>
  /\ \A p \in Peers : place[p] = "connected" => owner[p] \in Clients
  /\ \A c \in Clients : link[c] # NoPeer =>
       place[link[c]] = "connected" /\ owner[link[c]] = c /\ up[link[c]] \in Seq(SendPackets)

(* A member is the client to whom its peer was given.                                         *)
MembersKnown ==
  \A m \in members :
    place[m.peer] = "connected" /\ m.console = Console[owner[m.peer]] /\ m.username = User[owner[m.peer]]

(* Whatever address a banned client has is banned.                                            *)
AddressesBanned == \A c \in outcasts : {User[c], Ip[c]} \ {""} \subseteq banned

MembersInv == RoomTypes /\ MembersKnown /\ MembersDistinct /\ BanHolds /\ AddressesBanned
RoomInv == MembersInv /\ EndTypes /\ PlacesLinked /\ DownTypes /\ ClientTypes

-----------------------------------------------------------------------------
(* Packets *)

(* The first and the other packets of a queue.                                                *)
LEMMA QueueFacts ==
  ASSUME NEW S, NEW s \in Seq(S), s # <<>>
  PROVE  Head(s) \in S /\ Tail(s) \in Seq(S)
  BY HeadTailProperties

(* What is left of a queue when a connection ends is a queue of packets.                      *)
LEMMA CutsTyped ==
  ASSUME NEW S, Packet("Disconnect") \in S, NEW q \in Seq(S), NEW r \in Cuts(q)
  PROVE  r \in Seq(S)
<1>1. PICK k \in 0 .. Len(q) : r = Append(SubSeq(q, 1, k), Packet("Disconnect"))
  BY DEF Cuts
<1>2. SubSeq(q, 1, k) \in Seq(S)
  <2>1. \A i \in 1 .. k : q[i] \in S
    BY <1>1, LenProperties
  <2> QED
    BY <2>1, <1>1
<1> QED
  BY <1>1, <1>2

(* The event that a connection ended is one that both sides can get.                          *)
LEMMA DisconnectTyped == Packet("Disconnect") \in UpPackets /\ Packet("Disconnect") \in DownPackets
  BY DEF UpPackets, DownPackets, Packet, Answers

(* An answer is a packet that a client can get.                                               *)
LEMMA AnswerTyped ==
  ASSUME NEW t \in Answers
  PROVE  Packet(t) \in DownPackets
  BY DEF DownPackets, Packet

(* What the room tells of its members is, too.                                                *)
LEMMA InformationTyped ==
  ASSUME NEW M \in SUBSET Members
  PROVE  Information(M) \in DownPackets
<1>1. \A m \in M : [nick |-> m.nick, mac |-> m.mac, game |-> m.game] \in Views
  BY DEF Members, Views, AllGames
<1>2. {[nick |-> m.nick, mac |-> m.mac, game |-> m.game] : m \in M} \in SUBSET Views
  BY <1>1
<1> QED
  BY <1>2 DEF Information, DownPackets

Downs == [Clients -> Seq(DownPackets)]

(* Sending to some peers keeps the queues of the clients typed.                               *)
LEMMA SentTyped ==
  ASSUME NEW d \in Downs, NEW P, NEW m \in DownPackets
  PROVE  Sent(d, P, m) \in Downs
  BY DEF Downs, Sent

(* So does telling of the members and of a change of the members.                             *)
LEMMA BroadcastTyped ==
  ASSUME NEW d \in Downs, NEW M \in SUBSET Members, NEW P
  PROVE  /\ BroadcastRoomInformation(d, M, P) \in Downs
         /\ SendStatusMessage(d, M) \in Downs
<1>1. Packet("StatusMessage") \in DownPackets
  BY AnswerTyped DEF Answers
<1>2. Information(M) \in DownPackets
  BY InformationTyped
<1> QED
  BY <1>1, <1>2, SentTyped DEF BroadcastRoomInformation, SendStatusMessage

(* And disconnecting a peer.                                                                  *)
LEMMA SeveredTyped ==
  ASSUME NEW d \in Downs, NEW p, NEW e \in Severed(d, p)
  PROVE  e \in Downs
<1>1. CASE \E c \in Clients : link[c] = p
  <2> DEFINE c == CHOOSE c \in Clients : link[c] = p
  <2>1. c \in Clients
    BY <1>1
  <2>2. PICK q \in Cuts(d[c]) : e = [d EXCEPT ![c] = q]
    BY <1>1 DEF Severed
  <2> HIDE DEF c
  <2>3. q \in Seq(DownPackets)
    BY <2>1, <2>2, CutsTyped, DisconnectTyped DEF Downs
  <2> QED
    BY <2>1, <2>2, <2>3 DEF Downs
<1>2. CASE ~ \E c \in Clients : link[c] = p
  BY <1>2 DEF Severed
<1> QED
  BY <1>1, <1>2

-----------------------------------------------------------------------------
(* What a step leaves alone *)

(* Members that are not touched stay sound while their places do.                             *)
LEMMA MembersKept ==
  ASSUME MembersInv, UNCHANGED <<members, banned, outcasts, owner>>,
         \A p \in Peers : place[p] = "connected" => place'[p] = "connected"
  PROVE  MembersInv'
<1>1. MembersKnown'
  BY DEF MembersInv, MembersKnown, RoomTypes, Members
<1> QED
  BY <1>1 DEF MembersInv, RoomTypes, MembersDistinct, BanHolds, AddressesBanned

(* The threads and users of the clients, when a step leaves them alone.                       *)
LEMMA ClientsKept ==
  ASSUME ClientTypes, UNCHANGED <<client, users, send_list>>
  PROVE  ClientTypes'
  BY DEF ClientTypes, client, users

(* The room takes packets only from a client it is connected to, but for the event that the   *)
(* connection ended.                                                                          *)
LEMMA ReceiveFacts ==
  ASSUME RoomInv, NEW p \in Peers, NEW t, t # "Disconnect", Receive(p, t)
  PROVE  /\ place[p] = "connected" /\ owner[p] \in Clients
         /\ up[p] \in Seq(UpPackets) /\ up[p] # <<>>
         /\ Head(up[p]) \in SendPackets /\ Head(up[p]).type = t
<1>1. EndTypes /\ PlacesLinked
  BY DEF RoomInv
<1>2. up[p] \in Seq(UpPackets) /\ up[p] # <<>> /\ Head(up[p]).type = t
  BY <1>1 DEF EndTypes, Receive
<1>3. Head(up[p]) \in UpPackets
  BY <1>2, QueueFacts
<1>4. Head(up[p]) \in SendPackets
  BY <1>2, <1>3 DEF UpPackets, Packet
<1>5. place[p] # "free"
  BY <1>1, <1>2 DEF PlacesLinked
<1>6. place[p] # "disconnecting"
  <2> SUFFICES ASSUME place[p] = "disconnecting" PROVE FALSE
    OBVIOUS
  <2>1. up[p] = <<Packet("Disconnect")>>
    BY <1>1 DEF PlacesLinked
  <2>2. Head(up[p]) = Packet("Disconnect")
    BY <2>1
  <2> QED
    BY <1>2, <2>2 DEF Packet
<1>7. place[p] = "connected"
  BY <1>1, <1>5, <1>6 DEF EndTypes
<1> QED
  BY <1>1, <1>2, <1>4, <1>7 DEF PlacesLinked

(* Taking a packet leaves the other packets of the client under way.                          *)
LEMMA TakeKeeps ==
  ASSUME RoomInv, NEW p \in Peers, NEW t, t # "Disconnect", Receive(p, t), Take(p), UNCHANGED ends
  PROVE  EndTypes' /\ PlacesLinked'
<1>1. EndTypes /\ PlacesLinked
  BY DEF RoomInv
<1>2. place[p] = "connected" /\ up[p] \in Seq(UpPackets) /\ up[p] # <<>>
  BY ReceiveFacts
<1>3. Tail(up[p]) \in Seq(UpPackets) /\ (up[p] \in Seq(SendPackets) => Tail(up[p]) \in Seq(SendPackets))
  BY <1>2, QueueFacts
<1>4. up' = [up EXCEPT ![p] = Tail(up[p])] /\ place' = place /\ owner' = owner /\ link' = link
  BY DEF Take, ends
<1>5. EndTypes'
  BY <1>1, <1>3, <1>4 DEF EndTypes
<1>6. ASSUME NEW c \in Clients, link[c] # NoPeer
      PROVE  place[link[c]] = "connected" /\ owner[link[c]] = c /\ up'[link[c]] \in Seq(SendPackets)
  BY <1>1, <1>3, <1>4, <1>6 DEF EndTypes, PlacesLinked
<1>7. \A q \in Peers : place[q] # "connected" => up'[q] = up[q]
  BY <1>1, <1>2, <1>4 DEF EndTypes
<1>8. PlacesLinked'
  BY <1>1, <1>4, <1>6, <1>7 DEF PlacesLinked
<1> QED
  BY <1>5, <1>8

(* A packet that is answered, and changes nothing else.                                       *)
LEMMA AnswerKeeps ==
  ASSUME RoomInv, NEW p \in Peers, NEW t, t # "Disconnect", Receive(p, t),
         NEW a \in Answers, Answer(p, a)
  PROVE  RoomInv'
<1>1. EndTypes' /\ PlacesLinked'
  BY TakeKeeps DEF Answer
<1>2. MembersInv'
  BY MembersKept DEF RoomInv, Answer, ends
<1>3. DownTypes'
  <2>1. Sent(down, {p}, Packet(a)) \in Downs
    BY AnswerTyped, SentTyped DEF RoomInv, DownTypes, Downs
  <2> QED
    BY <2>1 DEF Answer, DownTypes, Downs
<1>4. ClientTypes'
  BY ClientsKept DEF RoomInv, Receive
<1> QED
  BY <1>1, <1>2, <1>3, <1>4 DEF RoomInv

-----------------------------------------------------------------------------
(* Joining *)

(* A client that is not refused shares nothing with a member, and is not banned.              *)
LEMMA NotRefused ==
  ASSUME NEW p, NEW r, Refusal(p, r) = "none"
  PROVE  /\ ~(Cardinality(members) >= Slots)
         /\ \A m \in members : m.nick # r.nick /\ m.mac # r.mac /\ m.console # Console[owner[p]]
         /\ banned \cap ({User[owner[p]], Ip[owner[p]]} \ {""}) = {}
  BY DEF Refusal

(* Whoever is refused is told one of the reasons.                                             *)
LEMMA RefusalTyped ==
  ASSUME NEW p, NEW r
  PROVE  Refusal(p, r) # "none" => Refusal(p, r) \in Answers
  BY DEF Refusal, Answers, Refusals

(* The record of a client that is let in.                                                     *)
LEMMA NewMemberTyped ==
  ASSUME NEW p \in Peers, owner[p] \in Clients, NEW r \in AllRequests, members \subseteq Members,
         NEW a \in AssignedMacs(r), \A m \in members : m.mac # r.mac
  PROVE  /\ NewMember(p, r, a) \in Members
         /\ NewMember(p, r, a).peer = p /\ NewMember(p, r, a).nick = r.nick /\ NewMember(p, r, a).mac = a
         /\ NewMember(p, r, a).console = Console[owner[p]] /\ NewMember(p, r, a).username = User[owner[p]]
         /\ \A m \in members : m.mac # a
<1>1. r.nick \in Nicks
  BY DEF AllRequests, Nicks
<1>2. r.mac \in Macs \cup {NoPreferredMac}
  BY RoomAssumption DEF AllRequests
<1>3. a \in Macs /\ \A m \in members : m.mac # a
  BY <1>2 DEF AssignedMacs
<1>4. Console[owner[p]] \in Consoles /\ User[owner[p]] \in Usernames
  BY DEF Consoles, Usernames
<1>5. (owner[p] \in Mods \/ r.nick = HostUsername) \in BOOLEAN
  OBVIOUS
<1>6. NoGame \in AllGames
  BY DEF AllGames
<1> QED
  BY <1>1, <1>3, <1>4, <1>5, <1>6 DEF NewMember, Members

(* HandleJoinRequest lets a client in.                                                        *)
LEMMA AdmitKeeps ==
  ASSUME RoomInv, NEW p \in Peers, Receive(p, "JoinRequest"), Refusal(p, Head(up[p]).request) = "none",
         Admit(p, Head(up[p]).request), UNCHANGED <<banned, outcasts, ends>>
  PROVE  MembersInv' /\ DownTypes'
<1> DEFINE r == Head(up[p]).request
<1>1. RoomTypes /\ MembersKnown /\ MembersDistinct /\ BanHolds /\ AddressesBanned /\ down \in Downs
  BY DEF RoomInv, MembersInv, DownTypes, Downs
<1>2. place[p] = "connected" /\ owner[p] \in Clients /\ Head(up[p]) \in SendPackets /\ Head(up[p]).type = "JoinRequest"
  BY ReceiveFacts
<1>3. r \in AllRequests
  BY <1>2, RoomAssumption DEF SendPackets
<1> HIDE DEF r
<1>4. PICK a \in AssignedMacs(r) :
        LET M == members \cup {NewMember(p, r, a)}
            told == SendStatusMessage(down, members)
            seen == BroadcastRoomInformation(told, M, ConnectedPeers)
            type == IF HasModPermission(p, M) THEN "JoinSuccessAsMod" ELSE "JoinSuccess"
        IN /\ members' = M
           /\ down' = Sent(seen, {p}, Packet(type))
  BY DEF Admit, r
<1> DEFINE new == NewMember(p, r, a)
<1>5. /\ ~(Cardinality(members) >= Slots)
      /\ \A m \in members : m.nick # r.nick /\ m.mac # r.mac /\ m.console # Console[owner[p]]
      /\ banned \cap ({User[owner[p]], Ip[owner[p]]} \ {""}) = {}
  BY NotRefused DEF r
<1>6. /\ new \in Members
      /\ new.peer = p /\ new.nick = r.nick /\ new.mac = a
      /\ new.console = Console[owner[p]] /\ new.username = User[owner[p]]
      /\ \A m \in members : m.mac # a
  <2>1. members \subseteq Members /\ owner[p] \in Clients /\ \A m \in members : m.mac # r.mac
    BY <1>1, <1>2, <1>5 DEF RoomTypes
  <2> QED
    BY <2>1, <1>3, NewMemberTyped
<1> HIDE DEF new
<1>7. members' = members \cup {new} /\ banned' = banned /\ outcasts' = outcasts /\ place' = place /\ owner' = owner
  BY <1>4 DEF new, ends
<1>8. \A m \in members : m.peer # p
  BY <1>1, <1>5 DEF MembersKnown
<1>9. RoomTypes' /\ Cardinality(members') <= Slots
  <2>1. IsFiniteSet(members)
    BY <1>1 DEF RoomTypes
  <2> DEFINE M == members \cup {new}
  <2>2. IsFiniteSet(M) /\ Cardinality(M) = IF new \in members THEN Cardinality(members) ELSE Cardinality(members) + 1
    BY <2>1, FS_AddElement
  <2>3. Cardinality(members) \in Nat /\ Slots \in Nat
    BY <2>1, FS_CardinalityType, RoomAssumption
  <2>4. members' = M
    BY <1>7
  <2> HIDE DEF M
  <2>5. Cardinality(members) + 1 <= Slots
    <3>1. ~(Cardinality(members) >= Slots)
      BY <1>5
    <3> DEFINE k == Cardinality(members)
    <3>2. k \in Nat /\ ~(k >= Slots)
      BY <2>3, <3>1
    <3> HIDE DEF k
    <3>3. k + 1 <= Slots
      BY <2>3, <3>2
    <3> QED
      BY <3>3 DEF k
  <2>6. IsFiniteSet(members') /\ Cardinality(members') <= Slots
    BY <2>2, <2>3, <2>4, <2>5
  <2> QED
    BY <2>6, <1>1, <1>6, <1>7 DEF RoomTypes
<1>10. MembersKnown'
  BY <1>1, <1>2, <1>6, <1>7 DEF MembersKnown
<1>11. MembersDistinct'
  <2> SUFFICES ASSUME NEW m \in members', NEW n \in members', m # n
               PROVE  m.peer # n.peer /\ m.nick # n.nick /\ m.mac # n.mac /\ m.console # n.console
    BY <1>9 DEF MembersDistinct
  <2>1. CASE m \in members /\ n \in members
    BY <2>1, <1>1 DEF MembersDistinct
  <2>2. CASE m = new \/ n = new
    BY <2>2, <1>5, <1>6, <1>7, <1>8
  <2> QED
    BY <2>1, <2>2, <1>7
<1>12. owner[p] \notin outcasts
  <2> SUFFICES ASSUME owner[p] \in outcasts PROVE FALSE
    OBVIOUS
  <2>1. {User[owner[p]], Ip[owner[p]]} \ {""} \subseteq banned
    BY <1>1 DEF AddressesBanned
  <2>2. Ip[owner[p]] # ""
    BY <1>2, RoomAssumption
  <2> QED
    BY <2>1, <2>2, <1>5
<1>13. BanHolds' /\ AddressesBanned'
  BY <1>1, <1>6, <1>7, <1>12 DEF BanHolds, AddressesBanned
<1>14. DownTypes'
  <2> DEFINE M == members \cup {new}
  <2> DEFINE told == SendStatusMessage(down, members)
  <2> DEFINE seen == BroadcastRoomInformation(told, M, ConnectedPeers)
  <2> DEFINE type == IF HasModPermission(p, M) THEN "JoinSuccessAsMod" ELSE "JoinSuccess"
  <2>1. down' = Sent(seen, {p}, Packet(type))
    BY <1>4 DEF new
  <2>2. M \in SUBSET Members /\ members \in SUBSET Members
    BY <1>1, <1>6 DEF RoomTypes
  <2>3. Packet(type) \in DownPackets
    BY AnswerTyped DEF Answers
  <2> HIDE DEF M, type
  <2>4. told \in Downs
    BY <1>1, <2>2, BroadcastTyped
  <2> HIDE DEF told
  <2>5. seen \in Downs
    BY <2>2, <2>4, BroadcastTyped
  <2> HIDE DEF seen
  <2> QED
    BY <2>1, <2>3, <2>5, SentTyped DEF DownTypes, Downs
<1> QED
  BY <1>9, <1>10, <1>11, <1>13, <1>14 DEF MembersInv

(* HandleJoinRequest, refusals included.                                                      *)
LEMMA JoinRequestKeeps ==
  ASSUME RoomInv, NEW p \in Peers, HandleJoinRequest(p)
  PROVE  RoomInv'
<1>1. Receive(p, "JoinRequest")
  BY DEF HandleJoinRequest
<1>2. CASE /\ Refusal(p, Head(up[p]).request) # "none"
           /\ Answer(p, Refusal(p, Head(up[p]).request))
  BY <1>1, <1>2, RefusalTyped, AnswerKeeps
<1>3. CASE /\ Refusal(p, Head(up[p]).request) = "none"
           /\ Admit(p, Head(up[p]).request)
           /\ Take(p)
           /\ UNCHANGED <<banned, outcasts, ends>>
  <2>1. MembersInv' /\ DownTypes'
    BY <1>1, <1>3, AdmitKeeps
  <2>2. EndTypes' /\ PlacesLinked'
    BY <1>1, <1>3, TakeKeeps
  <2>3. ClientTypes'
    BY <1>1, ClientsKept DEF RoomInv, Receive
  <2> QED
    BY <2>1, <2>2, <2>3 DEF RoomInv
<1> QED
  BY <1>2, <1>3 DEF HandleJoinRequest

-----------------------------------------------------------------------------
(* The other packets *)

(* HandleGameNamePacket changes the game of one member only.                                  *)
LEMMA GameNameKeeps ==
  ASSUME RoomInv, NEW p \in Peers, HandleGameNamePacket(p)
  PROVE  RoomInv'
<1> DEFINE g == Head(up[p]).game
<1> DEFINE changed(m) == IF m.peer = p THEN [m EXCEPT !.game = g] ELSE m
<1> DEFINE M == {changed(m) : m \in members}
<1>1. RoomTypes /\ MembersKnown /\ MembersDistinct /\ BanHolds /\ AddressesBanned /\ down \in Downs
  BY DEF RoomInv, MembersInv, DownTypes, Downs
<1>2. /\ Receive(p, "SetGameInfo") /\ Take(p) /\ UNCHANGED <<banned, outcasts, ends>>
      /\ members' = M /\ down' = BroadcastRoomInformation(down, M, ConnectedPeers)
  BY DEF HandleGameNamePacket
<1>3. Head(up[p]) \in SendPackets /\ Head(up[p]).type = "SetGameInfo"
  BY <1>2, ReceiveFacts
<1>4. g \in AllGames
  BY <1>3, RoomAssumption DEF SendPackets
<1> HIDE DEF g
<1>5. \A m \in members : /\ changed(m) \in Members
                         /\ changed(m).peer = m.peer /\ changed(m).nick = m.nick /\ changed(m).mac = m.mac
                         /\ changed(m).console = m.console /\ changed(m).username = m.username
  BY <1>1, <1>4 DEF RoomTypes, Members
<1> HIDE DEF changed
<1>6. M \subseteq Members
  BY <1>5
<1>7. IsFiniteSet(M) /\ Cardinality(M) <= Cardinality(members)
  <2> DEFINE f == [m \in members |-> changed(m)]
  <2>1. f \in Surjection(members, M)
    BY DEF Surjection
  <2>2. IsFiniteSet(members)
    BY <1>1 DEF RoomTypes
  <2> HIDE DEF f, M
  <2> QED
    BY <2>1, <2>2, FS_Surjection
<1>8. Cardinality(members') <= Slots
  <2>1. IsFiniteSet(members) /\ Cardinality(members) <= Slots
    BY <1>1 DEF RoomTypes, MembersDistinct
  <2>2. Cardinality(members) \in Nat /\ Cardinality(M) \in Nat /\ Slots \in Nat
    BY <2>1, <1>7, FS_CardinalityType, RoomAssumption
  <2> HIDE DEF M
  <2> QED
    BY <2>1, <2>2, <1>2, <1>7
<1>9. \A n \in M : \E m \in members : n = changed(m)
  OBVIOUS
<1>10. RoomTypes'
  <2> HIDE DEF M
  <2> QED
    BY <1>1, <1>2, <1>6, <1>7 DEF RoomTypes
<1>11. MembersKnown' /\ BanHolds' /\ AddressesBanned'
  <2>1. UNCHANGED <<place, owner, banned, outcasts>>
    BY <1>2 DEF ends
  <2>2. \A n \in members' : \E m \in members :
          n.peer = m.peer /\ n.console = m.console /\ n.username = m.username
    BY <1>2, <1>5, <1>9
  <2> HIDE DEF M
  <2>3. MembersKnown' /\ BanHolds'
    BY <2>1, <2>2, <1>1 DEF MembersKnown, BanHolds
  <2> QED
    BY <2>1, <2>3, <1>1 DEF AddressesBanned
<1>12. MembersDistinct'
  <2> SUFFICES ASSUME NEW m \in members', NEW n \in members', m # n
               PROVE  m.peer # n.peer /\ m.nick # n.nick /\ m.mac # n.mac /\ m.console # n.console
    BY <1>8 DEF MembersDistinct
  <2>1. PICK x \in members : m = changed(x)
    BY <1>2, <1>9
  <2>2. PICK y \in members : n = changed(y)
    BY <1>2, <1>9
  <2>3. x # y
    BY <2>1, <2>2
  <2> QED
    BY <2>1, <2>2, <2>3, <1>1, <1>5 DEF MembersDistinct
<1>13. DownTypes'
  BY <1>1, <1>2, <1>6, BroadcastTyped DEF DownTypes, Downs
<1>14. EndTypes' /\ PlacesLinked'
  BY <1>2, TakeKeeps
<1>15. ClientTypes'
  BY <1>2, ClientsKept DEF RoomInv, Receive
<1> QED
  BY <1>10, <1>11, <1>12, <1>13, <1>14, <1>15 DEF RoomInv, MembersInv

(* HandleWifiPacket and HandleChatPacket only pass a packet on.                               *)
LEMMA PassedOn ==
  ASSUME RoomInv, NEW p \in Peers, NEW t, t # "Disconnect", Receive(p, t), Take(p),
         UNCHANGED <<members, banned, outcasts, ends>>,
         NEW P, NEW a \in Answers, down' = Sent(down, P, Packet(a)) \/ down' = down
  PROVE  RoomInv'
<1>1. EndTypes' /\ PlacesLinked'
  BY TakeKeeps
<1>2. MembersInv'
  BY MembersKept DEF RoomInv, ends
<1>3. DownTypes'
  <2>1. Sent(down, P, Packet(a)) \in Downs /\ down \in Downs
    BY AnswerTyped, SentTyped DEF RoomInv, DownTypes, Downs
  <2> QED
    BY <2>1 DEF DownTypes, Downs
<1>4. ClientTypes'
  BY ClientsKept DEF RoomInv, Receive
<1> QED
  BY <1>1, <1>2, <1>3, <1>4 DEF RoomInv

(* Wireless packets go to all or to one, chat messages to all members.                        *)
LEMMA TalkKeeps ==
  ASSUME RoomInv, NEW p \in Peers, HandleWifiPacket(p) \/ HandleChatPacket(p)
  PROVE  RoomInv'
<1>1. CASE HandleWifiPacket(p)
  <2> DEFINE M == IF Head(up[p]).to = "all" THEN {m \in members : m.peer # p}
                                            ELSE {m \in members : m.mac = Head(up[p]).to}
  <2>1. /\ Receive(p, "WifiPacket") /\ Take(p) /\ UNCHANGED <<members, banned, outcasts, ends>>
        /\ down' = Sent(down, PeersOf(M), Packet("WifiPacket"))
    BY <1>1 DEF HandleWifiPacket
  <2> HIDE DEF M
  <2>2. "WifiPacket" \in Answers /\ "WifiPacket" # "Disconnect"
    BY DEF Answers
  <2> QED
    BY <2>1, <2>2, PassedOn
<1>2. CASE HandleChatPacket(p)
  <2> DEFINE P == PeersOf(members) \ {p}
  <2>1. /\ Receive(p, "ChatMessage") /\ Take(p) /\ UNCHANGED <<members, banned, outcasts, ends>>
        /\ down' = Sent(down, P, Packet("ChatMessage")) \/ down' = down
    BY <1>2 DEF HandleChatPacket
  <2> HIDE DEF P
  <2>2. "ChatMessage" \in Answers /\ "ChatMessage" # "Disconnect"
    BY DEF Answers
  <2> QED
    BY <2>1, <2>2, PassedOn
<1> QED
  BY <1>1, <1>2

-----------------------------------------------------------------------------
(* Moderation *)

(* Members that are left are distinct and known still.                                        *)
LEMMA FewerMembers ==
  ASSUME MembersInv, NEW M, M \subseteq members
  PROVE  /\ M \in SUBSET Members /\ IsFiniteSet(M) /\ Cardinality(M) <= Slots
         /\ \A m, n \in M : m # n => m.peer # n.peer /\ m.nick # n.nick /\ m.mac # n.mac /\ m.console # n.console
<1>1. RoomTypes /\ MembersDistinct
  BY DEF MembersInv
<1>2. IsFiniteSet(members) /\ Cardinality(members) <= Slots /\ M \in SUBSET members
  BY <1>1 DEF RoomTypes, MembersDistinct
<1>3. IsFiniteSet(M) /\ Cardinality(M) <= Cardinality(members)
  BY <1>2, FS_Subset
<1>4. Cardinality(M) \in Nat /\ Cardinality(members) \in Nat /\ Slots \in Nat
  BY <1>2, <1>3, FS_CardinalityType, RoomAssumption
<1>5. Cardinality(M) <= Slots
  BY <1>2, <1>3, <1>4
<1> QED
  BY <1>1, <1>3, <1>5 DEF RoomTypes, MembersDistinct

(* A member that is kicked or banned leaves the others as they are; its place of the host is  *)
(* heard only for the end of its connection from then on.                                     *)
LEMMA ExpelKeeps ==
  ASSUME RoomInv, NEW p \in Peers, NEW t, t # "Disconnect", Receive(p, t),
         NEW m \in members, NEW reason \in Answers, Expel(m, reason), TakenFrom(p, m)
  PROVE  /\ EndTypes' /\ PlacesLinked' /\ DownTypes' /\ ClientTypes'
         /\ members' \subseteq Members /\ IsFiniteSet(members') /\ MembersDistinct' /\ MembersKnown'
         /\ members' = members \ {m} /\ owner' = owner
         /\ \A n \in members' : owner[n.peer] # owner[m.peer]
<1>1. MembersInv /\ RoomTypes /\ MembersKnown /\ MembersDistinct /\ EndTypes /\ PlacesLinked /\ down \in Downs
  BY DEF RoomInv, MembersInv, DownTypes, Downs
<1>2. m.peer \in Peers /\ members \ {m} \subseteq members /\ members \subseteq Members
  BY <1>1 DEF RoomTypes, Members
<1>3. /\ members' = members \ {m} /\ owner' = owner
      /\ link' = [c \in Clients |-> IF link[c] = m.peer THEN NoPeer ELSE link[c]]
      /\ place' = [place EXCEPT ![m.peer] = "disconnecting"]
      /\ up' = [q \in Peers |-> IF q = m.peer THEN <<Packet("Disconnect")>>
                                ELSE IF q = p THEN Tail(up[q]) ELSE up[q]]
  BY DEF Expel, TakenFrom, Unlinked
<1>4. /\ members' \in SUBSET Members /\ IsFiniteSet(members') /\ Cardinality(members') <= Slots
      /\ \A x, y \in members' : x # y => x.peer # y.peer /\ x.nick # y.nick /\ x.mac # y.mac /\ x.console # y.console
  BY <1>1, <1>2, <1>3, FewerMembers, ZenonT(30)
<1>5. MembersDistinct'
  BY <1>4 DEF MembersDistinct
<1>6. \A n \in members' : n \in members /\ n # m /\ n.peer # m.peer /\ n.console # m.console /\ n.peer \in Peers
  <2> TAKE n \in members'
  <2>1. n \in members /\ n # m
    BY <1>3
  <2>2. n.peer \in Peers
    BY <1>2, <2>1 DEF Members
  <2> QED
    BY <1>1, <2>1, <2>2 DEF MembersDistinct
<1>7. MembersKnown'
  BY <1>1, <1>3, <1>6 DEF MembersKnown, EndTypes
<1>8. \A n \in members' : owner[n.peer] # owner[m.peer]
  BY <1>1, <1>6 DEF MembersKnown
<1>9. up[p] \in Seq(UpPackets) /\ up[p] # <<>> /\ place[p] = "connected"
  BY ReceiveFacts
<1>10. Tail(up[p]) \in Seq(UpPackets) /\ (up[p] \in Seq(SendPackets) => Tail(up[p]) \in Seq(SendPackets))
  BY <1>9, QueueFacts
<1>11. EndTypes'
  <2>1. <<Packet("Disconnect")>> \in Seq(UpPackets)
    BY DisconnectTyped
  <2>2. place' \in [Peers -> {"free", "connected", "disconnecting"}]
    BY <1>1, <1>2, <1>3 DEF EndTypes
  <2>3. link' \in [Clients -> Peers \cup {NoPeer}]
    BY <1>1, <1>3 DEF EndTypes
  <2>4. up' \in [Peers -> Seq(UpPackets)]
    BY <2>1, <1>1, <1>3, <1>10 DEF EndTypes
  <2> QED
    BY <2>2, <2>3, <2>4, <1>1, <1>3 DEF EndTypes
<1>12. PlacesLinked'
  <2>1. ASSUME NEW q \in Peers, place'[q] = "free" PROVE up'[q] = <<>>
    BY <2>1, <1>1, <1>2, <1>3, <1>9 DEF EndTypes, PlacesLinked
  <2>2. ASSUME NEW q \in Peers, place'[q] = "disconnecting" PROVE up'[q] = <<Packet("Disconnect")>>
    BY <2>2, <1>1, <1>2, <1>3, <1>9 DEF EndTypes, PlacesLinked
  <2>3. ASSUME NEW q \in Peers, place'[q] = "connected" PROVE owner'[q] \in Clients
    BY <2>3, <1>1, <1>2, <1>3 DEF EndTypes, PlacesLinked
  <2>4. ASSUME NEW c \in Clients, link'[c] # NoPeer
        PROVE  place'[link'[c]] = "connected" /\ owner'[link'[c]] = c /\ up'[link'[c]] \in Seq(SendPackets)
    <3>1. link'[c] = link[c] /\ link[c] # m.peer /\ link[c] \in Peers
      BY <2>4, <1>1, <1>3 DEF EndTypes
    <3>2. place[link[c]] = "connected" /\ owner[link[c]] = c /\ up[link[c]] \in Seq(SendPackets)
      BY <2>4, <3>1, <1>1 DEF PlacesLinked
    <3> QED
      BY <3>1, <3>2, <1>1, <1>2, <1>3, <1>10 DEF EndTypes
  <2> QED
    BY <2>1, <2>2, <2>3, <2>4 DEF PlacesLinked
<1>13. DownTypes'
  <2> DEFINE P == ConnectedPeers \ {m.peer}
  <2> DEFINE sent == Sent(down, {m.peer}, Packet(reason))
  <2>1. PICK d \in Severed(sent, m.peer) :
          down' = BroadcastRoomInformation(SendStatusMessage(d, members \ {m}), members \ {m}, P)
    BY DEF Expel
  <2>2. sent \in Downs
    BY <1>1, AnswerTyped, SentTyped
  <2> HIDE DEF sent, P
  <2>3. d \in Downs
    BY <2>1, <2>2, SeveredTyped
  <2>4. members \ {m} \in SUBSET Members
    BY <1>3, <1>4
  <2> DEFINE told == SendStatusMessage(d, members \ {m})
  <2>5. told \in Downs
    BY <2>3, <2>4, BroadcastTyped
  <2> HIDE DEF told
  <2>6. BroadcastRoomInformation(told, members \ {m}, P) \in Downs
    BY <2>4, <2>5, BroadcastTyped
  <2> QED
    BY <2>1, <2>6 DEF DownTypes, Downs, told
<1>14. ClientTypes'
  BY ClientsKept DEF RoomInv, Receive
<1> QED
  BY <1>3, <1>4, <1>5, <1>7, <1>8, <1>11, <1>12, <1>13, <1>14

(* HandleModKickPacket, and the answers to who may not or names nobody.                       *)
LEMMA KickKeeps ==
  ASSUME RoomInv, NEW p \in Peers, HandleModKickPacket(p)
  PROVE  RoomInv'
<1>1. "ModPermissionDenied" \in Answers /\ "ModNoSuchUser" \in Answers /\ "HostKicked" \in Answers
      /\ Receive(p, "ModKick")
  BY DEF Answers, HandleModKickPacket, Moderation
<1>2. CASE Answer(p, "ModPermissionDenied") \/ Answer(p, "ModNoSuchUser")
  BY <1>1, <1>2, AnswerKeeps
<1>3. CASE \E m \in Named(p) : Expel(m, "HostKicked") /\ TakenFrom(p, m) /\ UNCHANGED <<banned, outcasts>>
  <2>1. PICK m \in members : Expel(m, "HostKicked") /\ TakenFrom(p, m) /\ UNCHANGED <<banned, outcasts>>
    BY <1>3 DEF Named
  <2>2. /\ EndTypes' /\ PlacesLinked' /\ DownTypes' /\ ClientTypes'
        /\ members' \subseteq Members /\ IsFiniteSet(members') /\ MembersDistinct' /\ MembersKnown'
        /\ members' = members \ {m} /\ owner' = owner
    BY <1>1, <2>1, ExpelKeeps
  <2>3. RoomTypes' /\ BanHolds' /\ AddressesBanned'
    BY <2>1, <2>2 DEF RoomInv, MembersInv, RoomTypes, BanHolds, AddressesBanned
  <2> QED
    BY <2>2, <2>3 DEF RoomInv, MembersInv
<1> QED
  BY <1>2, <1>3 DEF HandleModKickPacket, Moderation

(* HandleModBanPacket: the addresses that are banned are those of the member's client.        *)
LEMMA BanKeeps ==
  ASSUME RoomInv, NEW p \in Peers, HandleModBanPacket(p)
  PROVE  RoomInv'
<1>1. "ModPermissionDenied" \in Answers /\ "ModNoSuchUser" \in Answers /\ "HostBanned" \in Answers
      /\ Receive(p, "ModBan")
  BY DEF Answers, Refusals, HandleModBanPacket, Moderation
<1>2. CASE Answer(p, "ModPermissionDenied") \/ Answer(p, "ModNoSuchUser")
  BY <1>1, <1>2, AnswerKeeps
<1>3. CASE \E m \in Named(p) :
             /\ Expel(m, "HostBanned")
             /\ TakenFrom(p, m)
             /\ banned' = banned \cup ({m.username, Ip[owner[m.peer]]} \ {""})
             /\ outcasts' = outcasts \cup {owner[m.peer]}
  <2>1. PICK m \in members :
             /\ Expel(m, "HostBanned")
             /\ TakenFrom(p, m)
             /\ banned' = banned \cup ({m.username, Ip[owner[m.peer]]} \ {""})
             /\ outcasts' = outcasts \cup {owner[m.peer]}
    BY <1>3 DEF Named
  <2>2. /\ EndTypes' /\ PlacesLinked' /\ DownTypes' /\ ClientTypes'
        /\ members' \subseteq Members /\ IsFiniteSet(members') /\ MembersDistinct' /\ MembersKnown'
        /\ members' = members \ {m} /\ owner' = owner
        /\ \A n \in members' : owner[n.peer] # owner[m.peer]
    BY <1>1, <2>1, ExpelKeeps
  <2> DEFINE c == owner[m.peer]
  <2>3. c \in Clients /\ m.username = User[c]
    <3>1. m.peer \in Peers /\ place[m.peer] = "connected" /\ m.username = User[c]
      BY DEF RoomInv, MembersInv, RoomTypes, MembersKnown, Members
    <3> QED
      BY <3>1 DEF RoomInv, PlacesLinked
  <2>4. banned' = banned \cup ({User[c], Ip[c]} \ {""}) /\ outcasts' = outcasts \cup {c}
    BY <2>1, <2>3
  <2>5. \A n \in members' : n \in members /\ owner'[n.peer] = owner[n.peer] /\ owner[n.peer] # c
    BY <2>2
  <2> HIDE DEF c
  <2>6. {User[c], Ip[c]} \ {""} \subseteq Addresses
    BY <2>3 DEF Addresses
  <2>7. RoomTypes'
    BY <2>2, <2>3, <2>4, <2>6 DEF RoomInv, MembersInv, RoomTypes
  <2>8. BanHolds'
    BY <2>4, <2>5 DEF RoomInv, MembersInv, BanHolds
  <2>9. AddressesBanned'
    BY <2>4 DEF RoomInv, MembersInv, AddressesBanned
  <2> QED
    BY <2>2, <2>7, <2>8, <2>9 DEF RoomInv, MembersInv
<1> QED
  BY <1>2, <1>3 DEF HandleModBanPacket, Moderation

(* HandleModUnbanPacket and HandleModGetBanListPacket.                                        *)
LEMMA UnbanKeeps ==
  ASSUME RoomInv, NEW p \in Peers, HandleModUnbanPacket(p)
  PROVE  RoomInv'
<1> DEFINE address == Head(up[p]).name
<1>1. "ModPermissionDenied" \in Answers /\ "ModNoSuchUser" \in Answers /\ Receive(p, "ModUnban")
  BY DEF Answers, HandleModUnbanPacket, Moderation
<1>2. CASE Answer(p, "ModPermissionDenied") \/ Answer(p, "ModNoSuchUser")
  BY <1>1, <1>2, AnswerKeeps
<1>3. CASE /\ address \in banned
           /\ banned' = banned \ {address}
           /\ outcasts' = {c \in outcasts : address \notin {User[c], Ip[c]}}
           /\ down' = SendStatusMessage(down, members)
           /\ Take(p)
           /\ UNCHANGED <<members, ends>>
  <2> HIDE DEF address
  <2>1. EndTypes' /\ PlacesLinked'
    BY <1>1, <1>3, TakeKeeps
  <2>2. ClientTypes'
    BY <1>1, ClientsKept DEF RoomInv, Receive
  <2>3. DownTypes'
    <3>1. members \in SUBSET Members /\ down \in Downs
      BY DEF RoomInv, MembersInv, RoomTypes, DownTypes, Downs
    <3> QED
      BY <1>3, <3>1, BroadcastTyped DEF DownTypes, Downs
  <2>4. RoomTypes' /\ MembersKnown' /\ MembersDistinct' /\ BanHolds'
    BY <1>3 DEF RoomInv, MembersInv, RoomTypes, MembersKnown, MembersDistinct, BanHolds, ends
  <2>5. AddressesBanned'
    BY <1>3 DEF RoomInv, MembersInv, AddressesBanned
  <2> QED
    BY <2>1, <2>2, <2>3, <2>4, <2>5 DEF RoomInv, MembersInv
<1> QED
  BY <1>2, <1>3 DEF HandleModUnbanPacket, Moderation

(* The list of bans is only told.                                                             *)
LEMMA GetBanListKeeps ==
  ASSUME RoomInv, NEW p \in Peers, HandleModGetBanListPacket(p)
  PROVE  RoomInv'
<1>1. /\ {"ModPermissionDenied", "ModNoSuchUser", "ModBanListResponse"} \subseteq Answers
      /\ Receive(p, "ModGetBanList")
  BY DEF Answers, HandleModGetBanListPacket, Moderation
<1>2. \E a \in {"ModPermissionDenied", "ModNoSuchUser", "ModBanListResponse"} : Answer(p, a)
  BY DEF HandleModGetBanListPacket, Moderation
<1> QED
  BY <1>1, <1>2, AnswerKeeps

-----------------------------------------------------------------------------
(* Connections that end, rooms that are closed *)

(* HandleClientDisconnection: a place becomes free once no member points to it.               *)
LEMMA DisconnectionKeeps ==
  ASSUME RoomInv, NEW p \in Peers, HandleClientDisconnection(p)
  PROVE  RoomInv'
<1> DEFINE M == {m \in members : m.peer # p}
<1>1. MembersInv /\ RoomTypes /\ MembersKnown /\ MembersDistinct /\ EndTypes /\ PlacesLinked /\ down \in Downs
      /\ BanHolds /\ AddressesBanned
  BY DEF RoomInv, MembersInv, DownTypes, Downs
<1>2. /\ Receive(p, "Disconnect") /\ members' = M /\ banned' = banned /\ outcasts' = outcasts
      /\ link' = link
      /\ up' = [up EXCEPT ![p] = <<>>]
      /\ place' = [place EXCEPT ![p] = "free"]
      /\ owner' = [owner EXCEPT ![p] = NoPeer]
  BY DEF HandleClientDisconnection
<1>3. M \subseteq members /\ \A m \in M : m \in members /\ m.peer # p /\ m.peer \in Peers
  BY <1>1 DEF RoomTypes, Members
<1>4. /\ M \in SUBSET Members /\ IsFiniteSet(M) /\ Cardinality(M) <= Slots
      /\ \A x, y \in M : x # y => x.peer # y.peer /\ x.nick # y.nick /\ x.mac # y.mac /\ x.console # y.console
  BY <1>1, <1>3, FewerMembers
<1>5. \A m \in members' : m \in members /\ m.peer # p /\ place'[m.peer] = place[m.peer] /\ owner'[m.peer] = owner[m.peer]
  BY <1>1, <1>2, <1>3 DEF EndTypes
<1>6. MembersInv'
  <2> HIDE DEF M
  <2>1. RoomTypes' /\ MembersDistinct' /\ AddressesBanned'
    BY <1>1, <1>2, <1>4 DEF RoomTypes, MembersDistinct, AddressesBanned
  <2>2. MembersKnown' /\ BanHolds'
    BY <1>1, <1>2, <1>5 DEF MembersKnown, BanHolds
  <2> QED
    BY <2>1, <2>2 DEF MembersInv
<1>7. ASSUME NEW c \in Clients, link[c] # NoPeer PROVE link[c] # p
  <2> SUFFICES ASSUME link[c] = p PROVE FALSE
    OBVIOUS
  <2>1. up[p] \in Seq(SendPackets) /\ up[p] # <<>> /\ Head(up[p]).type = "Disconnect"
    BY <1>1, <1>2, <1>7 DEF PlacesLinked, Receive
  <2>2. Head(up[p]) \in SendPackets
    BY <2>1, QueueFacts
  <2> QED
    BY <2>1, <2>2, RoomAssumption DEF SendPackets
<1>8. EndTypes'
  BY <1>1, <1>2 DEF EndTypes
<1>9. PlacesLinked'
  <2>1. \A q \in Peers : q # p => place'[q] = place[q] /\ owner'[q] = owner[q] /\ up'[q] = up[q]
    BY <1>1, <1>2 DEF EndTypes
  <2>2. place'[p] = "free" /\ up'[p] = <<>>
    BY <1>1, <1>2 DEF EndTypes
  <2>3. \A c \in Clients : link[c] # NoPeer => link[c] \in Peers /\ link[c] # p
    BY <1>1, <1>7 DEF EndTypes
  <2> QED
    BY <1>1, <1>2, <2>1, <2>2, <2>3 DEF PlacesLinked
<1>10. DownTypes'
  <2> DEFINE told == IF M # members THEN SendStatusMessage(down, M) ELSE down
  <2> DEFINE P == ConnectedPeers \ {p}
  <2>1. down' = BroadcastRoomInformation(told, M, P)
    BY DEF HandleClientDisconnection
  <2> HIDE DEF M, P
  <2>2. told \in Downs
    BY <1>1, <1>4, BroadcastTyped
  <2> HIDE DEF told
  <2>3. BroadcastRoomInformation(told, M, P) \in Downs
    BY <1>4, <2>2, BroadcastTyped
  <2> QED
    BY <2>1, <2>3 DEF DownTypes, Downs
<1>11. ClientTypes'
  BY <1>2, ClientsKept DEF RoomInv, Receive
<1> QED
  BY <1>6, <1>8, <1>9, <1>10, <1>11 DEF RoomInv

(* A room that is closed has no member and all its places are free.                           *)
LEMMA DestroyKeeps ==
  ASSUME RoomInv, Destroy
  PROVE  RoomInv'
<1>1. MembersInv /\ RoomTypes /\ EndTypes /\ down \in Downs /\ AddressesBanned
  BY DEF RoomInv, MembersInv, DownTypes, Downs
<1>2. /\ members' = {} /\ banned' = banned /\ outcasts' = outcasts
      /\ up' = [p \in Peers |-> <<>>]
      /\ link' = [c \in Clients |-> IF link[c] \in Peers THEN NoPeer ELSE link[c]]
      /\ place' = [p \in Peers |-> "free"] /\ owner' = [p \in Peers |-> NoPeer]
  BY DEF Destroy, Unlinked
<1>3. MembersInv'
  <2>1. IsFiniteSet(members') /\ Cardinality(members') = 0
    BY <1>2, FS_EmptySet
  <2>2. RoomTypes' /\ MembersKnown' /\ BanHolds' /\ AddressesBanned'
    BY <1>1, <1>2, <2>1 DEF RoomTypes, MembersKnown, BanHolds, AddressesBanned
  <2>3. MembersDistinct'
    <3>1. Cardinality(members') <= Slots
      <4>1. Slots \in Nat
        BY RoomAssumption
      <4> QED
        BY <2>1, <4>1
    <3>2. \A m \in members' : FALSE
      BY <1>2
    <3> QED
      BY <3>1, <3>2 DEF MembersDistinct
  <2> QED
    BY <2>2, <2>3 DEF MembersInv
<1>4. \A c \in Clients : link'[c] = NoPeer
  BY <1>1, <1>2 DEF EndTypes
<1>5. EndTypes' /\ PlacesLinked'
  BY <1>1, <1>2, <1>4 DEF EndTypes, PlacesLinked
<1>6. DownTypes'
  <2> DEFINE sent == Sent(down, PeersOf(members), Packet("CloseRoom"))
  <2> DEFINE live == {c \in Clients : link[c] # NoPeer}
  <2>1. sent \in Downs
    BY <1>1, AnswerTyped, SentTyped DEF Answers
  <2>2. PICK rest :
          /\ \A c \in live : rest[c] \in Cuts(sent[c])
          /\ down' = [c \in Clients |-> IF c \in live THEN rest[c] ELSE down[c]]
    BY DEF Destroy
  <2> HIDE DEF sent
  <2>3. \A c \in live : rest[c] \in Seq(DownPackets)
    BY <2>1, <2>2, CutsTyped, DisconnectTyped DEF Downs
  <2>4. \A c \in Clients : (IF c \in live THEN rest[c] ELSE down[c]) \in Seq(DownPackets)
    BY <1>1, <2>3 DEF Downs
  <2> HIDE DEF live
  <2> QED
    BY <2>2, <2>4 DEF DownTypes
<1>7. ClientTypes'
  BY ClientsKept DEF RoomInv, Destroy, client, users
<1> QED
  BY <1>3, <1>5, <1>6, <1>7 DEF RoomInv

(* A room that is created forgets who was banned only if it forgets the bans.                 *)
LEMMA CreateKeeps ==
  ASSUME RoomInv, NEW kept \in BOOLEAN, Create(kept)
  PROVE  RoomInv'
<1>1. MembersInv'
  <2>1. members' = members /\ place' = place /\ owner' = owner
    BY DEF Create, ends
  <2>2. (banned' = banned /\ outcasts' = outcasts) \/ (banned' = {} /\ outcasts' = {})
    BY DEF Create
  <2>3. RoomTypes' /\ MembersKnown' /\ MembersDistinct' /\ BanHolds' /\ AddressesBanned'
    BY <2>1, <2>2 DEF RoomInv, MembersInv, RoomTypes, MembersKnown, MembersDistinct, BanHolds, AddressesBanned
  <2> QED
    BY <2>3 DEF MembersInv
<1>2. EndTypes' /\ PlacesLinked' /\ DownTypes'
  BY DEF RoomInv, Create, ends, EndTypes, PlacesLinked, DownTypes
<1>3. ClientTypes'
  BY ClientsKept DEF RoomInv, Create
<1> QED
  BY <1>1, <1>2, <1>3 DEF RoomInv

-----------------------------------------------------------------------------
(* The clients *)

(* A step of a client: members, places and what is given to whom stay as they are, but for a  *)
(* connection that ends and packets that are sent on one.                                     *)
LEMMA ClientStep ==
  ASSUME RoomInv, UNCHANGED <<room, place, owner>>, DownTypes', ClientTypes', EndTypes',
         \A p \in Peers : place[p] # "connected" => up'[p] = up[p],
         \A c \in Clients : link'[c] # NoPeer => link'[c] = link[c] /\ up'[link[c]] \in Seq(SendPackets)
  PROVE  RoomInv'
<1>1. MembersInv'
  BY MembersKept DEF RoomInv, room
<1>2. PlacesLinked'
  BY DEF RoomInv, PlacesLinked, room
<1> QED
  BY <1>1, <1>2 DEF RoomInv

(* What a client sends are packets a room can get.                                            *)
LEMMA SendTyped ==
  ASSUME NEW q \in Seq(UpPackets), NEW s \in Seq(SendPackets)
  PROVE  /\ q \o s \in Seq(UpPackets)
         /\ q \in Seq(SendPackets) => q \o s \in Seq(SendPackets)
<1>1. s \in Seq(UpPackets)
  BY DEF UpPackets
<1> QED
  BY <1>1

(* The user's steps that touch neither the room nor a connection.                             *)
LEMMA UserKeeps ==
  ASSUME RoomInv, UNCHANGED <<room, ends, up, down>>, ClientTypes'
  PROVE  RoomInv'
<1>1. MembersInv'
  BY MembersKept DEF RoomInv, room, ends
<1>2. EndTypes' /\ PlacesLinked' /\ DownTypes'
  BY DEF RoomInv, EndTypes, PlacesLinked, DownTypes, ends
<1> QED
  BY <1>1, <1>2 DEF RoomInv

(* One more packet that waits to be sent.                                                     *)
LEMMA QueueTyped ==
  ASSUME ClientTypes, NEW c \in Clients, NEW m \in SendPackets, Queue(c, m)
  PROVE  send_list' \in [Clients -> Seq(SendPackets)]
<1>1. send_list[c] \in Seq(SendPackets)
  BY DEF ClientTypes
<1>2. Append(send_list[c], m) \in Seq(SendPackets)
  BY <1>1
<1> QED
  BY <1>2 DEF ClientTypes, Queue

(* Leave, the end of it, what is said and the end of Join.                                    *)
LEMMA TalkingKeeps ==
  ASSUME RoomInv, NEW c \in Clients,
         \/ SendCurrentGame(c) \/ Leave(c) \/ Left(c)
         \/ \E m \in Sayings : SendPacket(c, m) \/ SendModerationRequest(c, m)
         \/ \E g \in Games : SendGameInfo(c, g)
  PROVE  RoomInv'
<1>1. ClientTypes
  BY DEF RoomInv
<1>2. \A g \in AllGames : GamePacket(g) \in SendPackets
  BY DEF GamePacket, SendPackets
<1>3. CASE SendCurrentGame(c)
  <2>1. UNCHANGED <<room, ends, up, down, client, current_game_info>> /\ user' = [user EXCEPT ![c] = "idle"]
        /\ (Queue(c, GamePacket(current_game_info[c])) \/ UNCHANGED send_list)
    BY <1>3 DEF SendCurrentGame
  <2>2. current_game_info[c] \in AllGames
    BY <1>1 DEF ClientTypes
  <2>3. send_list' \in [Clients -> Seq(SendPackets)]
    BY <2>1, <2>2, <1>1, <1>2, QueueTyped DEF ClientTypes
  <2>4. ClientTypes'
    BY <2>1, <2>3, <1>1 DEF ClientTypes, client
  <2> QED
    BY <2>1, <2>4, UserKeeps
<1>4. CASE Leave(c)
  <2>1. ClientTypes'
    BY <1>1, <1>4 DEF Leave, ClientTypes
  <2> QED
    BY <2>1, <1>4, UserKeeps DEF Leave
<1>5. CASE Left(c)
  <2>1. ClientTypes'
    BY <1>1, <1>5 DEF Left, ClientTypes
  <2> QED
    BY <2>1, <1>5, UserKeeps DEF Left
<1>6. ASSUME NEW m \in Sayings, SendPacket(c, m) \/ SendModerationRequest(c, m) PROVE RoomInv'
  <2>1. UNCHANGED <<room, ends, up, down, client, user, current_game_info>> /\ Queue(c, m)
    BY <1>6 DEF SendPacket, SendModerationRequest, Say
  <2>2. m \in SendPackets
    BY DEF SendPackets
  <2>3. send_list' \in [Clients -> Seq(SendPackets)]
    BY <2>1, <2>2, <1>1, QueueTyped
  <2>4. ClientTypes'
    BY <2>1, <2>3, <1>1 DEF ClientTypes, client
  <2> QED
    BY <2>1, <2>4, UserKeeps
<1>7. ASSUME NEW g \in Games, SendGameInfo(c, g) PROVE RoomInv'
  <2>1. UNCHANGED <<room, ends, up, down, client, user>>
        /\ current_game_info' = [current_game_info EXCEPT ![c] = g]
        /\ (Queue(c, GamePacket(g)) \/ UNCHANGED send_list)
    BY <1>7 DEF SendGameInfo, Say
  <2>2. g \in AllGames
    BY DEF AllGames
  <2>3. send_list' \in [Clients -> Seq(SendPackets)]
    BY <2>1, <2>2, <1>1, <1>2, QueueTyped DEF ClientTypes
  <2>4. ClientTypes'
    BY <2>1, <2>2, <2>3, <1>1 DEF ClientTypes, client
  <2> QED
    BY <2>1, <2>4, UserKeeps
<1> QED
  BY <1>3, <1>4, <1>5, <1>6, <1>7

(* Join takes a free place, to which no member points.                                        *)
LEMMA JoinKeeps ==
  ASSUME RoomInv, NEW c \in Clients, NEW r \in Requests[c], Join(c, r)
  PROVE  RoomInv'
<1>1. MembersInv /\ EndTypes /\ PlacesLinked /\ ClientTypes
  BY DEF RoomInv
<1>2. PICK p \in Peers :
        /\ place[p] = "free"
        /\ place' = [place EXCEPT ![p] = "connected"]
        /\ owner' = [owner EXCEPT ![p] = c]
        /\ link' = [link EXCEPT ![c] = p]
  BY DEF Join
<1>3. UNCHANGED <<members, banned, outcasts, up, down, member_information, current_game_info>>
  BY DEF Join, room
<1>4. up[p] = <<>>
  BY <1>1, <1>2 DEF PlacesLinked
<1>5. \A q \in Peers : q # p => place'[q] = place[q] /\ owner'[q] = owner[q]
  BY <1>1, <1>2 DEF EndTypes
<1>6. place'[p] = "connected" /\ owner'[p] = c /\ link'[c] = p
  BY <1>1, <1>2 DEF EndTypes
<1>7. \A d \in Clients : d # c => link'[d] = link[d]
  BY <1>1, <1>2 DEF EndTypes
<1>8. MembersInv'
  <2>1. \A m \in members : m.peer \in Peers /\ m.peer # p
    BY <1>1, <1>2 DEF MembersInv, MembersKnown, RoomTypes, Members
  <2>2. MembersKnown' /\ BanHolds'
    BY <2>1, <1>1, <1>3, <1>5 DEF MembersInv, MembersKnown, BanHolds
  <2>3. RoomTypes' /\ MembersDistinct' /\ AddressesBanned'
    BY <1>1, <1>3 DEF MembersInv, RoomTypes, MembersDistinct, AddressesBanned
  <2> QED
    BY <2>2, <2>3 DEF MembersInv
<1>9. EndTypes'
  BY <1>1, <1>2, <1>3 DEF EndTypes
<1>10. PlacesLinked'
  <2>1. \A q \in Peers : place'[q] = "free" => up'[q] = <<>>
    BY <1>1, <1>3, <1>5, <1>6 DEF PlacesLinked
  <2>2. \A q \in Peers : place'[q] = "disconnecting" => up'[q] = <<Packet("Disconnect")>>
    BY <1>1, <1>3, <1>5, <1>6 DEF PlacesLinked
  <2>3. \A q \in Peers : place'[q] = "connected" => owner'[q] \in Clients
    BY <1>1, <1>5, <1>6 DEF PlacesLinked
  <2>4. ASSUME NEW d \in Clients, link'[d] # NoPeer
        PROVE  place'[link'[d]] = "connected" /\ owner'[link'[d]] = d /\ up'[link'[d]] \in Seq(SendPackets)
    <3>1. CASE d = c
      <4>1. <<>> \in Seq(SendPackets)
        OBVIOUS
      <4> QED
        BY <3>1, <4>1, <1>3, <1>4, <1>6
    <3>2. CASE d # c
      <4>1. link'[d] = link[d] /\ link[d] \in Peers
        BY <3>2, <2>4, <1>1, <1>7 DEF EndTypes
      <4>2. place[link[d]] = "connected" /\ owner[link[d]] = d /\ up[link[d]] \in Seq(SendPackets)
        BY <4>1, <2>4, <1>1 DEF PlacesLinked
      <4>3. link[d] # p
        BY <4>2, <1>2
      <4> QED
        BY <4>1, <4>2, <4>3, <1>3, <1>5
    <3> QED
      BY <3>1, <3>2
  <2> QED
    BY <2>1, <2>2, <2>3, <2>4 DEF PlacesLinked
<1>11. ClientTypes'
  <2>1. [type |-> "JoinRequest", request |-> r] \in SendPackets
    BY DEF SendPackets, AllRequests
  <2>2. send_list' \in [Clients -> Seq(SendPackets)]
    BY <2>1, <1>1, QueueTyped DEF Join
  <2> QED
    BY <2>2, <1>1, <1>3 DEF Join, ClientTypes
<1> QED
  BY <1>3, <1>8, <1>9, <1>10, <1>11 DEF RoomInv, DownTypes

(* A connection that is lost, or that the client closes.                                      *)
LEMMA ConnectionEnds ==
  ASSUME RoomInv, NEW c \in Clients, UNCHANGED <<room, place, owner>>, DownTypes', ClientTypes',
         link' = [link EXCEPT ![c] = NoPeer],
         \/ up' = up
         \/ link[c] # NoPeer /\ \E u \in Cuts(up[link[c]]) : up' = [up EXCEPT ![link[c]] = u]
  PROVE  RoomInv'
<1>1. EndTypes /\ PlacesLinked
  BY DEF RoomInv
<1>2. \A d \in Clients : link'[d] # NoPeer => d # c /\ link'[d] = link[d] /\ link[d] \in Peers
  BY <1>1 DEF EndTypes
<1>3. link' \in [Clients -> Peers \cup {NoPeer}]
  BY <1>1 DEF EndTypes
<1>4. CASE up' = up
  <2>1. EndTypes'
    BY <1>1, <1>3, <1>4 DEF EndTypes, room
  <2> QED
    BY <2>1, <1>1, <1>2, <1>4, ClientStep DEF PlacesLinked
<1>5. ASSUME link[c] # NoPeer, NEW u \in Cuts(up[link[c]]), up' = [up EXCEPT ![link[c]] = u] PROVE RoomInv'
  <2>1. link[c] \in Peers /\ place[link[c]] = "connected" /\ owner[link[c]] = c
    BY <1>1, <1>5 DEF EndTypes, PlacesLinked
  <2>2. u \in Seq(UpPackets)
    BY <2>1, <1>1, <1>5, CutsTyped, DisconnectTyped DEF EndTypes
  <2>3. up' \in [Peers -> Seq(UpPackets)] /\ \A p \in Peers : p # link[c] => up'[p] = up[p]
    BY <2>1, <2>2, <1>1, <1>5 DEF EndTypes
  <2>4. EndTypes'
    BY <2>3, <1>1, <1>3 DEF EndTypes
  <2>5. ASSUME NEW d \in Clients, link'[d] # NoPeer
        PROVE  link'[d] = link[d] /\ up'[link[d]] \in Seq(SendPackets)
    <3>1. owner[link[d]] = d /\ up[link[d]] \in Seq(SendPackets) /\ link[d] \in Peers /\ d # c /\ link'[d] = link[d]
      BY <2>5, <1>1, <1>2 DEF PlacesLinked
    <3>2. link[d] # link[c]
      BY <3>1, <2>1
    <3> QED
      BY <3>1, <3>2, <2>3
  <2> QED
    BY <2>1, <2>3, <2>4, <2>5, ClientStep
<1> QED
  BY <1>4, <1>5

(* Connections that are lost and threads of clients that end.                                 *)
LEMMA EndsKeep ==
  ASSUME RoomInv, NEW c \in Clients, Lose(c) \/ EndLoop(c)
  PROVE  RoomInv'
<1>1. EndTypes /\ DownTypes /\ ClientTypes
  BY DEF RoomInv
<1>2. CASE Lose(c)
  <2>1. PICK u \in Cuts(up[link[c]]), d \in Cuts(down[c]) :
          up' = [up EXCEPT ![link[c]] = u] /\ down' = [down EXCEPT ![c] = d]
    BY <1>2 DEF Lose
  <2>2. d \in Seq(DownPackets)
    BY <2>1, <1>1, CutsTyped, DisconnectTyped DEF DownTypes
  <2>3. DownTypes'
    BY <2>1, <2>2, <1>1 DEF DownTypes
  <2>4. ClientTypes'
    BY <1>1, <1>2, ClientsKept DEF Lose
  <2> QED
    BY <2>1, <2>3, <2>4, <1>2, ConnectionEnds DEF Lose
<1>3. CASE EndLoop(c)
  <2>1. DownTypes'
    <3>1. <<>> \in Seq(DownPackets)
      OBVIOUS
    <3> QED
      BY <3>1, <1>1, <1>3 DEF EndLoop, DownTypes
  <2>2. ClientTypes'
    BY <1>1, <1>3 DEF EndLoop, ClientTypes, users
  <2>3. \/ up' = up
        \/ link[c] # NoPeer /\ \E u \in Cuts(up[link[c]]) : up' = [up EXCEPT ![link[c]] = u]
    BY <1>3 DEF EndLoop
  <2> QED
    BY <2>1, <2>2, <2>3, <1>3, ConnectionEnds DEF EndLoop
<1> QED
  BY <1>2, <1>3

(* The end of a round of the thread of a client, with or without a packet received.           *)
LEMMA RoundKeeps ==
  ASSUME RoomInv, NEW c \in Clients, NEW s \in {"Idle", "Joining", "Joined", "Moderator"}, EndRound(c, s),
         DownTypes', member_information' \in [Clients -> SUBSET Views]
  PROVE  RoomInv'
<1>1. EndTypes /\ PlacesLinked /\ ClientTypes
  BY DEF RoomInv
<1>2. UNCHANGED <<room, ends, user, current_game_info>>
  BY DEF EndRound, users
<1>3. ClientTypes'
  <2>1. send_list' \in [Clients -> Seq(SendPackets)]
    <3>1. <<>> \in Seq(SendPackets)
      OBVIOUS
    <3> QED
      BY <3>1, <1>1 DEF EndRound, ClientTypes
  <2> QED
    BY <2>1, <1>1, <1>2 DEF EndRound, ClientTypes
<1>4. CASE link[c] = NoPeer
  <2>1. up' = up
    BY <1>4 DEF EndRound
  <2>2. EndTypes'
    BY <2>1, <1>1, <1>2 DEF EndTypes, ends
  <2> QED
    BY <2>1, <2>2, <1>1, <1>2, <1>3, ClientStep DEF PlacesLinked, ends
<1>5. CASE link[c] # NoPeer
  <2> DEFINE p == link[c]
  <2>1. p \in Peers /\ place[p] = "connected" /\ up[p] \in Seq(UpPackets) /\ up[p] \in Seq(SendPackets)
        /\ send_list[c] \in Seq(SendPackets)
    BY <1>1, <1>5 DEF EndTypes, PlacesLinked, ClientTypes
  <2>2. up[p] \o send_list[c] \in Seq(UpPackets) /\ up[p] \o send_list[c] \in Seq(SendPackets)
    BY <2>1, SendTyped
  <2>3. up' = [up EXCEPT ![p] = up[p] \o send_list[c]]
    BY <1>5 DEF EndRound
  <2> HIDE DEF p
  <2>4. EndTypes'
    BY <2>1, <2>2, <2>3, <1>1, <1>2 DEF EndTypes, ends
  <2>5. \A q \in Peers : up'[q] = IF q = p THEN up[p] \o send_list[c] ELSE up[q]
    BY <2>1, <2>3, <1>1 DEF EndTypes
  <2>6. \A d \in Clients : link[d] # NoPeer => link[d] \in Peers /\ up[link[d]] \in Seq(SendPackets)
    BY <1>1 DEF EndTypes, PlacesLinked
  <2> QED
    BY <2>1, <2>2, <2>4, <2>5, <2>6, <1>2, <1>3, ClientStep DEF ends
<1> QED
  BY <1>4, <1>5

(* A packet that a client receives, or none.                                                  *)
LEMMA EventKeeps ==
  ASSUME RoomInv, NEW c \in Clients, NoEvent(c) \/ Event(c)
  PROVE  RoomInv'
<1>1. DownTypes /\ ClientTypes /\ state[c] \in {"Idle", "Joining", "Joined", "Moderator"}
  BY DEF RoomInv, ClientTypes
<1>2. CASE NoEvent(c)
  <2>1. EndRound(c, state[c]) /\ UNCHANGED <<down, member_information>>
    BY <1>2 DEF NoEvent
  <2> QED
    BY <2>1, <1>1, RoundKeeps DEF DownTypes, ClientTypes
<1>3. CASE Event(c)
  <2> DEFINE m == Head(down[c])
  <2> DEFINE s == StateAfter(state[c], m.type)
  <2>1. /\ down[c] \in Seq(DownPackets) /\ down[c] # <<>>
        /\ member_information' =
             IF m.type = "RoomInformation" THEN [member_information EXCEPT ![c] = m.members]
                                           ELSE member_information
        /\ EndRound(c, s)
        /\ down' = [down EXCEPT ![c] = Tail(down[c])]
    BY <1>1, <1>3 DEF Event, DownTypes
  <2>2. m \in DownPackets /\ Tail(down[c]) \in Seq(DownPackets)
    BY <2>1, QueueFacts
  <2>3. DownTypes'
    BY <2>1, <2>2, <1>1 DEF DownTypes
  <2> HIDE DEF m
  <2>4. member_information' \in [Clients -> SUBSET Views]
    <3>1. m.type = "RoomInformation" => m.members \in SUBSET Views
      BY <2>2 DEF DownPackets, Answers, Refusals
    <3> QED
      BY <3>1, <2>1, <1>1 DEF ClientTypes
  <2>5. s \in {"Idle", "Joining", "Joined", "Moderator"}
    BY <1>1 DEF StateAfter
  <2> HIDE DEF s
  <2> QED
    BY <2>1, <2>3, <2>4, <2>5, RoundKeeps
<1> QED
  BY <1>2, <1>3

-----------------------------------------------------------------------------
(* The theorem *)

(* A room starts without members.                                                             *)
LEMMA InitKeeps == Init => RoomInv
<1> SUFFICES ASSUME Init PROVE RoomInv
  OBVIOUS
<1>1. MembersInv
  <2>1. IsFiniteSet(members) /\ Cardinality(members) = 0
    BY FS_EmptySet DEF Init
  <2>2. RoomTypes /\ MembersKnown /\ BanHolds /\ AddressesBanned
    BY <2>1 DEF Init, RoomTypes, MembersKnown, BanHolds, AddressesBanned
  <2>3. Cardinality(members) <= Slots
    <3>1. Slots \in Nat
      BY RoomAssumption
    <3> QED
      BY <2>1, <3>1
  <2>4. \A m \in members : FALSE
    BY DEF Init
  <2>5. MembersDistinct
    BY <2>3, <2>4 DEF MembersDistinct
  <2> QED
    BY <2>2, <2>5 DEF MembersInv
<1>2. EndTypes
  BY DEF Init, EndTypes
<1>3. PlacesLinked
  BY DEF Init, PlacesLinked
<1>4. DownTypes
  BY DEF Init, DownTypes
<1>5. ClientTypes
  BY DEF Init, ClientTypes, AllGames
<1> QED
  BY <1>1, <1>2, <1>3, <1>4, <1>5 DEF RoomInv

(* Every step of the room, of the users and of the threads keeps the invariant.               *)
LEMMA RoomStepKeeps == RoomInv /\ [Next]_vars => RoomInv'
<1> SUFFICES ASSUME RoomInv, [Next]_vars PROVE RoomInv'
  OBVIOUS
<1>1. ASSUME NEW p \in Peers, Handle(p) PROVE RoomInv'
  BY <1>1, JoinRequestKeeps, GameNameKeeps, TalkKeeps, KickKeeps, BanKeeps, UnbanKeeps, GetBanListKeeps,
     DisconnectionKeeps DEF Handle
<1>2. ASSUME NEW c \in Clients, Use(c) PROVE RoomInv'
  BY <1>2, JoinKeeps, TalkingKeeps DEF Use
<1>3. ASSUME NEW c \in Clients, EndLoop(c) \/ NoEvent(c) \/ Event(c) \/ Lose(c) PROVE RoomInv'
  BY <1>3, EndsKeep, EventKeeps
<1>4. CASE Destroy
  BY <1>4, DestroyKeeps
<1>5. ASSUME NEW kept \in BOOLEAN, Create(kept) PROVE RoomInv'
  BY <1>5, CreateKeeps
<1>6. CASE UNCHANGED vars
  <2>1. UNCHANGED <<room, ends, up, down, client, users, send_list>>
    BY <1>6 DEF vars
  <2>2. ClientTypes'
    BY <2>1, ClientsKept DEF RoomInv
  <2> QED
    BY <2>1, <2>2, UserKeeps
<1> QED
  BY <1>1, <1>2, <1>3, <1>4, <1>5, <1>6 DEF Next

(* The invariant says what MembersSound does.                                                 *)
LEMMA RoomInvMeans == RoomInv => MembersSound
<1> SUFFICES ASSUME RoomInv PROVE MembersSound
  OBVIOUS
<1>1. MembersDistinct /\ BanHolds
  BY DEF RoomInv, MembersInv
<1>2. MembersConnected
  BY DEF RoomInv, MembersInv, MembersKnown, MembersConnected
<1>3. TypeOK
  <2>1. {m.nick : m \in members} \subseteq Nicks /\ {m.mac : m \in members} \subseteq Macs
    BY DEF RoomInv, MembersInv, RoomTypes, Members
  <2>2. ASSUME NEW c \in Clients, NEW i \in 1 .. Len(down[c])
        PROVE  IF down[c][i].type = "RoomInformation" THEN down[c][i].members \subseteq Views
                                                      ELSE down[c][i].type \in Answers
    <3>1. down[c] \in Seq(DownPackets)
      BY DEF RoomInv, DownTypes
    <3>2. down[c][i] \in DownPackets
      BY <3>1
    <3> DEFINE p == down[c][i]
    <3> HIDE DEF p
    <3>3. p \in DownPackets
      BY <3>2 DEF p
    <3>4. \/ p.type \in Answers
          \/ p.type = "RoomInformation" /\ p.members \subseteq Views
      BY <3>3 DEF DownPackets
    <3>5. "RoomInformation" \notin Answers
      BY DEF Answers, Refusals
    <3>6. IF p.type = "RoomInformation" THEN p.members \subseteq Views ELSE p.type \in Answers
      BY <3>4, <3>5
    <3> QED
      BY <3>6 DEF p
  <2>3. banned \subseteq (UNION {{Ip[c], User[c]} : c \in Clients}) \ {""}
    BY DEF RoomInv, MembersInv, RoomTypes, Addresses
  <2> QED
    BY <2>1, <2>2, <2>3 DEF RoomInv, EndTypes, ClientTypes, TypeOK
<1> QED
  BY <1>1, <1>2, <1>3 DEF MembersSound

(* Whatever clients join, talk, moderate, leave or lose their connections, and whenever the   *)
(* room is closed: the members are distinct, within the slots, point to their own connections *)
(* although places of the host are used again, and no banned client is one of them            *)
(* (HandleJoinRequest, HandleClientDisconnection, HandleModKickPacket, HandleModBanPacket).   *)
THEOREM MembersAlwaysSound == Spec => []MembersSound
  BY InitKeeps, RoomStepKeeps, RoomInvMeans, PTL DEF Spec

-----------------------------------------------------------------------------
(* What clients know *)

\* The answers that let a client in, those that settle its request, and what only members hear
Telling == {"JoinSuccess", "JoinSuccessAsMod"}
Settling == Telling \cup Refusals \cup {"CloseRoom", "HostKicked"}
Hearing == {"StatusMessage", "ChatMessage", "WifiPacket"}

Told(m) == m.type \in Telling
Settled(m) == m.type \in Settling
Heard(m) == m.type \in Hearing
Informs(m) == m.type = "RoomInformation"

\* Of q, what a client has still to receive, and k, the members it knows: it is told of members before
\* it is told that it is in; it hears of others only after an answer; it knows the members of v at the end
ToldFirst(q, k) ==
  \A i \in 1 .. Len(q) : Told(q[i]) =>
    IF i = 1 THEN k # {} ELSE Informs(q[i - 1]) /\ q[i - 1].members # {}
HeardLate(q) == \A i \in 1 .. Len(q) : Heard(q[i]) => \E j \in 1 .. i - 1 : Settled(q[j])
Settles(q) == \E i \in 1 .. Len(q) : Settled(q[i])
Tells(q) == \E i \in 1 .. Len(q) : Told(q[i])
Latest(q, k, v) ==
  \/ k = v /\ \A i \in 1 .. Len(q) : ~Informs(q[i])
  \/ \E i \in 1 .. Len(q) : /\ Informs(q[i]) /\ q[i].members = v
                            /\ \A j \in i + 1 .. Len(q) : ~Informs(q[j])

(* A client whose state is s, with a live connection or not, whose peer is that of a member   *)
(* or not: a request that was not answered leaves it outside, and a member has its answer.    *)
Informed(q, k, s, linked, inside, v) ==
  /\ ToldFirst(q, k)
  /\ s = "Joining" => HeardLate(q) /\ (inside => Settles(q))
  /\ linked /\ (s \in {"Joined", "Moderator"} \/ Tells(q)) => inside
  /\ inside => Latest(q, k, v)

Linked(c) == link[c] # NoPeer
Inside(c) == link[c] \in PeersOf(members)
Known(M) == Information(M).members

ClientInformed(c) ==
  Informed(down[c], member_information[c], state[c], Linked(c), Inside(c), Known(members))
ThreadsEnded == \A c \in Clients : loop[c] \in {"none", "done"} => down[c] = <<>> /\ ~Linked(c)
ViewsInv == ThreadsEnded /\ \A c \in Clients : ClientInformed(c)

(* One more packet for a client.                                                              *)
LEMMA AppendFacts ==
  ASSUME NEW q \in Seq(DownPackets), NEW m \in DownPackets
  PROVE  /\ Append(q, m) \in Seq(DownPackets) /\ Len(q) \in Nat /\ Len(Append(q, m)) = Len(q) + 1
         /\ \A i \in 1 .. Len(q) : Append(q, m)[i] = q[i]
         /\ Append(q, m)[Len(q) + 1] = m
  BY AppendProperties, LenProperties

(* What it adds to the packets before it.                                                     *)
LEMMA AppendKeeps ==
  ASSUME NEW q \in Seq(DownPackets), NEW m \in DownPackets, NEW k
  PROVE  /\ ToldFirst(q, k) /\ ~Told(m) => ToldFirst(Append(q, m), k)
         /\ HeardLate(q) /\ (Heard(m) => Settles(q)) => HeardLate(Append(q, m))
         /\ Settles(Append(q, m)) <=> Settles(q) \/ Settled(m)
         /\ Tells(Append(q, m)) <=> Tells(q) \/ Told(m)
         /\ Informs(m) => Latest(Append(q, m), k, m.members)
<1> DEFINE r == Append(q, m)
           n == Len(q)
<1>1. n \in Nat /\ Len(r) = n + 1 /\ (\A i \in 1 .. n : r[i] = q[i]) /\ r[n + 1] = m
  BY AppendFacts
<1> HIDE DEF r, n
<1>2. ASSUME ToldFirst(q, k), ~Told(m) PROVE ToldFirst(r, k)
  <2> SUFFICES ASSUME NEW i \in 1 .. n + 1, Told(r[i])
               PROVE  IF i = 1 THEN k # {} ELSE Informs(r[i - 1]) /\ r[i - 1].members # {}
    BY <1>1 DEF ToldFirst
  <2>1. i \in 1 .. n /\ r[i] = q[i] /\ (i # 1 => r[i - 1] = q[i - 1])
    BY <1>1, <1>2
  <2> QED
    BY <1>2, <2>1 DEF ToldFirst, n
<1>3. ASSUME HeardLate(q), Heard(m) => Settles(q) PROVE HeardLate(r)
  <2> SUFFICES ASSUME NEW i \in 1 .. n + 1, Heard(r[i]) PROVE \E j \in 1 .. i - 1 : Settled(r[j])
    BY <1>1 DEF HeardLate
  <2>1. CASE i \in 1 .. n
    <3>1. PICK j \in 1 .. i - 1 : Settled(q[j])
      BY <1>1, <1>3, <2>1 DEF HeardLate, n
    <3> QED
      BY <1>1, <2>1, <3>1
  <2>2. CASE i = n + 1
    <3>1. PICK j \in 1 .. n : Settled(q[j])
      BY <1>1, <1>3, <2>2 DEF Settles, n
    <3> QED
      BY <1>1, <2>2, <3>1
  <2> QED
    BY <1>1, <2>1, <2>2
<1>4. Settles(r) <=> Settles(q) \/ Settled(m)
  BY <1>1 DEF Settles, n
<1>5. Tells(r) <=> Tells(q) \/ Told(m)
  BY <1>1 DEF Tells, n
<1>6. Informs(m) => Latest(r, k, m.members)
  BY <1>1 DEF Latest
<1> QED
  BY <1>2, <1>3, <1>4, <1>5, <1>6 DEF r

(* A packet that does not inform leaves what a client will know.                              *)
LEMMA LatestKept ==
  ASSUME NEW q \in Seq(DownPackets), NEW m \in DownPackets, NEW k, NEW v, Latest(q, k, v), ~Informs(m)
  PROVE  Latest(Append(q, m), k, v)
<1> DEFINE r == Append(q, m)
           n == Len(q)
<1>1. n \in Nat /\ Len(r) = n + 1 /\ (\A i \in 1 .. n : r[i] = q[i]) /\ r[n + 1] = m
  BY AppendFacts
<1> HIDE DEF r, n
<1>2. CASE k = v /\ \A i \in 1 .. n : ~Informs(q[i])
  BY <1>1, <1>2 DEF Latest
<1>3. CASE \E i \in 1 .. n : Informs(q[i]) /\ q[i].members = v /\ \A j \in i + 1 .. n : ~Informs(q[j])
  <2>1. PICK i \in 1 .. n : Informs(q[i]) /\ q[i].members = v /\ \A j \in i + 1 .. n : ~Informs(q[j])
    BY <1>3
  <2>2. r[i] = q[i] /\ \A j \in i + 1 .. n + 1 : ~Informs(r[j])
    BY <1>1, <2>1
  <2> QED
    BY <1>1, <2>1, <2>2 DEF Latest
<1> QED
  BY <1>2, <1>3 DEF Latest, r, n

(* A client that hears nothing of members and answers keeps what it knows; one outside may be *)
(* told anything but that it is in.                                                           *)
LEMMA QuietKeeps ==
  ASSUME NEW q \in Seq(DownPackets), NEW m \in DownPackets, NEW k, NEW s, NEW l, NEW in, NEW v,
         Informed(q, k, s, l, in, v), ~Told(m), ~Informs(m), Heard(m) => in
  PROVE  Informed(Append(q, m), k, s, l, in, v)
<1>1. ToldFirst(Append(q, m), k)
  BY AppendKeeps DEF Informed
<1>2. ASSUME s = "Joining" PROVE HeardLate(Append(q, m)) /\ (in => Settles(Append(q, m)))
  BY <1>2, AppendKeeps DEF Informed
<1>3. Tells(Append(q, m)) => Tells(q)
  BY AppendKeeps
<1>4. in => Latest(Append(q, m), k, v)
  BY LatestKept DEF Informed
<1> QED
  BY <1>1, <1>2, <1>3, <1>4 DEF Informed

(* A client that is told of the members knows them once it has received that.                 *)
LEMMA InformationKeeps ==
  ASSUME NEW q \in Seq(DownPackets), NEW M \in SUBSET Members, NEW k, NEW s, NEW l, NEW in, NEW v,
         Informed(q, k, s, l, in, v)
  PROVE  Informed(Append(q, Information(M)), k, s, l, in, Known(M))
<1> DEFINE m == Information(M)
<1>1. m \in DownPackets /\ Informs(m) /\ ~Told(m) /\ ~Heard(m) /\ m.members = Known(M)
  BY InformationTyped DEF Information, Known, Informs, Told, Heard, Telling, Hearing
<1> HIDE DEF m
<1>2. ToldFirst(Append(q, m), k)
  BY <1>1, AppendKeeps DEF Informed
<1>3. ASSUME s = "Joining" PROVE HeardLate(Append(q, m)) /\ (in => Settles(Append(q, m)))
  BY <1>1, <1>3, AppendKeeps DEF Informed
<1>4. Tells(Append(q, m)) => Tells(q)
  BY <1>1, AppendKeeps
<1>5. Latest(Append(q, m), k, Known(M))
  <2>1. Latest(Append(q, m), k, m.members)
    BY <1>1, AppendKeeps
  <2> QED
    BY <1>1, <2>1
<1> QED
  BY <1>2, <1>3, <1>4, <1>5 DEF Informed, m

(* A client that is let in is told of the members, itself among them, and then that it is in. *)
LEMMA AdmittedKnows ==
  ASSUME NEW q \in Seq(DownPackets), NEW M \in SUBSET Members, M # {}, NEW t \in Telling,
         NEW k, NEW s, NEW l, NEW in, NEW v, Informed(q, k, s, l, in, v)
  PROVE  Informed(Append(Append(q, Information(M)), Packet(t)), k, s, l, TRUE, Known(M))
<1> DEFINE r == Append(q, Information(M))
           m == Packet(t)
           n == Len(q) + 1
<1>1. Informed(r, k, s, l, in, Known(M))
  BY InformationKeeps
<1>2. Information(M) \in DownPackets /\ Informs(Information(M)) /\ Information(M).members = Known(M)
  BY InformationTyped DEF Information, Known, Informs
<1>3. Known(M) # {}
  BY DEF Known, Information
<1>4. r \in Seq(DownPackets) /\ Len(r) = n /\ n \in Nat /\ n >= 1 /\ r[n] = Information(M)
  BY <1>2, AppendFacts
<1>5. m \in DownPackets /\ Told(m) /\ Settled(m) /\ ~Heard(m) /\ ~Informs(m)
  BY AnswerTyped DEF Packet, Answers, Told, Settled, Heard, Informs, Telling, Settling, Hearing
<1> HIDE DEF r, m, n
<1>6. /\ Len(Append(r, m)) = n + 1 /\ (\A i \in 1 .. n : Append(r, m)[i] = r[i])
      /\ Append(r, m)[n + 1] = m
  BY <1>4, <1>5, AppendFacts
<1>7. ToldFirst(Append(r, m), k)
  <2> SUFFICES ASSUME NEW i \in 1 .. n + 1, Told(Append(r, m)[i])
               PROVE  IF i = 1 THEN k # {}
                      ELSE Informs(Append(r, m)[i - 1]) /\ Append(r, m)[i - 1].members # {}
    BY <1>6 DEF ToldFirst
  <2>1. CASE i \in 1 .. n
    <3>1. Told(r[i]) /\ (i # 1 => Append(r, m)[i - 1] = r[i - 1])
      BY <1>4, <1>6, <2>1
    <3>2. IF i = 1 THEN k # {} ELSE Informs(r[i - 1]) /\ r[i - 1].members # {}
      BY <1>1, <1>4, <2>1, <3>1 DEF Informed, ToldFirst
    <3> QED
      BY <3>1, <3>2
  <2>2. CASE i = n + 1
    <3>1. i # 1 /\ Append(r, m)[i - 1] = Information(M)
      BY <1>4, <1>6, <2>2
    <3> QED
      BY <1>2, <1>3, <3>1
  <2> QED
    BY <1>4, <2>1, <2>2
<1>8. s = "Joining" => HeardLate(Append(r, m))
  BY <1>1, <1>4, <1>5, AppendKeeps DEF Informed
<1>9. Settles(Append(r, m))
  BY <1>4, <1>5, AppendKeeps
<1>10. Latest(r, k, Known(M))
  BY <1>2, AppendKeeps DEF r
<1>11. Latest(Append(r, m), k, Known(M))
  BY <1>4, <1>5, <1>10, LatestKept
<1>12. Informed(Append(r, m), k, s, l, TRUE, Known(M))
  BY <1>7, <1>8, <1>9, <1>11 DEF Informed
<1> QED
  BY <1>12 DEF r, m

(* A connection that ends leaves a first part of what was under way.                          *)
LEMMA CutKeeps ==
  ASSUME NEW q \in Seq(DownPackets), NEW r \in Cuts(q), NEW k, NEW s, NEW l, NEW in, NEW v,
         Informed(q, k, s, l, in, v), NEW w
  PROVE  Informed(r, k, s, FALSE, FALSE, w)
<1> DEFINE d == Packet("Disconnect")
<1>1. PICK n \in 0 .. Len(q) : r = Append(SubSeq(q, 1, n), d)
  BY DEF Cuts
<1> DEFINE p == SubSeq(q, 1, n)
<1>2. Len(q) \in Nat /\ n \in Nat /\ n <= Len(q)
  BY <1>1, LenProperties
<1>3. p \in Seq(DownPackets) /\ Len(p) = n /\ \A i \in 1 .. n : p[i] = q[i]
  BY <1>2, SubSeqProperties
<1>4. d \in DownPackets /\ ~Told(d) /\ ~Heard(d)
  BY DisconnectTyped DEF Packet, Told, Heard, Telling, Hearing
<1> HIDE DEF p, d
<1>5. ToldFirst(p, k)
  <2> SUFFICES ASSUME NEW i \in 1 .. n, Told(p[i])
               PROVE  IF i = 1 THEN k # {} ELSE Informs(p[i - 1]) /\ p[i - 1].members # {}
    BY <1>3 DEF ToldFirst
  <2>1. i \in 1 .. Len(q) /\ Told(q[i]) /\ (i # 1 => p[i - 1] = q[i - 1])
    BY <1>2, <1>3
  <2> QED
    BY <2>1 DEF Informed, ToldFirst
<1>6. HeardLate(q) => HeardLate(p)
  <2> SUFFICES ASSUME HeardLate(q), NEW i \in 1 .. n, Heard(p[i])
               PROVE  \E j \in 1 .. i - 1 : Settled(p[j])
    BY <1>3 DEF HeardLate
  <2>1. i \in 1 .. Len(q) /\ Heard(q[i])
    BY <1>2, <1>3
  <2>2. PICK j \in 1 .. i - 1 : Settled(q[j])
    BY <2>1 DEF HeardLate
  <2>3. Settled(p[j])
    BY <1>2, <1>3, <2>2
  <2> QED
    BY <2>3
<1>7. ToldFirst(r, k) /\ (HeardLate(p) => HeardLate(r))
  BY <1>1, <1>3, <1>4, <1>5, AppendKeeps DEF p, d
<1> QED
  BY <1>6, <1>7 DEF Informed

(* Taking a packet moves what was under way into what is known.                               *)
LEMMA TakingKeeps ==
  ASSUME NEW q \in Seq(DownPackets), q # <<>>, NEW k, NEW s, NEW l, NEW in, NEW v,
         Informed(q, k, s, l, in, v)
  PROVE  Informed(Tail(q), IF Informs(Head(q)) THEN Head(q).members ELSE k,
                  StateAfter(s, Head(q).type), l, in, v)
<1> DEFINE m == Head(q)
           r == Tail(q)
           n == Len(q)
           k2 == IF Informs(m) THEN m.members ELSE k
           s2 == StateAfter(s, m.type)
<1>1. /\ n \in Nat /\ n >= 1 /\ Len(r) = n - 1 /\ m = q[1] /\ r \in Seq(DownPackets)
      /\ \A i \in 1 .. n - 1 : r[i] = q[i + 1]
  BY HeadTailProperties, LenProperties, EmptySeq
<1>2. /\ s2 = "Joining" => s = "Joining" /\ ~Settled(m)
      /\ s2 \in {"Joined", "Moderator"} => s \in {"Joined", "Moderator"} \/ Told(m)
  BY DEF StateAfter, Settled, Settling, Told, Telling
<1>3. Told(m) => ~Informs(m)
  BY DEF Told, Telling, Informs
<1> HIDE DEF m, r, n, s2
<1>4. ToldFirst(r, k2)
  <2> SUFFICES ASSUME NEW i \in 1 .. n - 1, Told(r[i])
               PROVE  IF i = 1 THEN k2 # {} ELSE Informs(r[i - 1]) /\ r[i - 1].members # {}
    BY <1>1 DEF ToldFirst
  <2>1. i + 1 \in 1 .. n /\ i + 1 # 1 /\ Told(q[i + 1]) /\ (i + 1) - 1 = i
    BY <1>1
  <2>2. Informs(q[i]) /\ q[i].members # {}
    BY <2>1 DEF Informed, ToldFirst, n
  <2>3. CASE i = 1
    BY <1>1, <2>2, <2>3
  <2>4. CASE i # 1
    <3>1. r[i - 1] = q[i]
      BY <1>1, <2>4
    <3> QED
      BY <2>2, <2>4, <3>1
  <2> QED
    BY <2>3, <2>4
<1>5. ASSUME s2 = "Joining" PROVE HeardLate(r) /\ (in => Settles(r))
  <2>1. HeardLate(q) /\ (in => Settles(q)) /\ ~Settled(q[1])
    BY <1>1, <1>2, <1>5 DEF Informed
  <2>2. ASSUME NEW i \in 1 .. n - 1, Heard(r[i]) PROVE \E j \in 1 .. i - 1 : Settled(r[j])
    <3>1. i + 1 \in 1 .. n /\ Heard(q[i + 1]) /\ (i + 1) - 1 = i
      BY <1>1, <2>2
    <3>2. PICK j \in 1 .. i : Settled(q[j])
      BY <2>1, <3>1 DEF HeardLate, n
    <3>3. j - 1 \in 1 .. i - 1 /\ j - 1 \in 1 .. n - 1 /\ q[(j - 1) + 1] = q[j]
      BY <2>1, <1>1, <3>2
    <3> QED
      BY <1>1, <3>2, <3>3
  <2>3. ASSUME in PROVE Settles(r)
    <3>1. PICK j \in 1 .. n : Settled(q[j])
      BY <2>1, <2>3 DEF Settles, n
    <3>2. j - 1 \in 1 .. n - 1 /\ q[(j - 1) + 1] = q[j]
      BY <2>1, <1>1, <3>1
    <3> QED
      BY <1>1, <3>1, <3>2 DEF Settles
  <2> QED
    BY <1>1, <2>2, <2>3 DEF HeardLate
<1>6. ASSUME l, s2 \in {"Joined", "Moderator"} \/ Tells(r) PROVE in
  <2>1. CASE s2 \in {"Joined", "Moderator"}
    <3>1. Told(m) => Tells(q)
      BY <1>1 DEF Tells, n
    <3> QED
      BY <1>2, <1>6, <2>1, <3>1 DEF Informed
  <2>2. CASE Tells(r)
    <3>1. PICK i \in 1 .. n - 1 : Told(r[i])
      BY <1>1, <2>2 DEF Tells
    <3>2. i + 1 \in 1 .. n /\ Told(q[i + 1])
      BY <1>1, <3>1
    <3>3. Tells(q)
      BY <3>2 DEF Tells, n
    <3> QED
      BY <1>6, <3>3 DEF Informed
  <2> QED
    BY <1>6, <2>1, <2>2
<1>7. ASSUME in PROVE Latest(r, k2, v)
  <2>1. Latest(q, k, v)
    BY <1>7 DEF Informed
  <2>2. CASE k = v /\ \A i \in 1 .. n : ~Informs(q[i])
    <3>1. k2 = v /\ \A i \in 1 .. n - 1 : ~Informs(r[i])
      BY <1>1, <2>2
    <3> QED
      BY <1>1, <3>1 DEF Latest
  <2>3. CASE \E i \in 1 .. n : Informs(q[i]) /\ q[i].members = v /\ \A j \in i + 1 .. n : ~Informs(q[j])
    <3>1. PICK i \in 1 .. n : Informs(q[i]) /\ q[i].members = v /\ \A j \in i + 1 .. n : ~Informs(q[j])
      BY <2>3
    <3>2. CASE i = 1
      <4>1. k2 = v
        BY <1>1, <3>1, <3>2
      <4>2. \A j \in 1 .. n - 1 : ~Informs(r[j])
        BY <1>1, <3>1, <3>2
      <4> QED
        BY <1>1, <4>1, <4>2 DEF Latest
    <3>3. CASE i # 1
      <4>1. i - 1 \in 1 .. n - 1 /\ r[i - 1] = q[i]
        BY <1>1, <3>3
      <4>2. \A j \in (i - 1) + 1 .. n - 1 : ~Informs(r[j])
        BY <1>1, <3>1
      <4> QED
        BY <1>1, <3>1, <4>1, <4>2 DEF Latest
    <3> QED
      BY <3>2, <3>3
  <2> QED
    BY <2>1, <2>2, <2>3 DEF Latest, n
<1>8. Informed(r, k2, s2, l, in, v)
  BY <1>4, <1>5, <1>6, <1>7 DEF Informed
<1> QED
  BY <1>8 DEF r, s2, m

(* A client without a connection that has received everything knows nothing it should not.    *)
LEMMA NothingUnderWay ==
  ASSUME NEW k, NEW s, NEW v
  PROVE  Informed(<<>>, k, s, FALSE, FALSE, v)
<1>1. Len(<<>>) = 0
  OBVIOUS
<1> QED
  BY <1>1 DEF Informed, ToldFirst, HeardLate

-----------------------------------------------------------------------------
(* The room keeps its clients informed *)

(* A client that may hear of a change of members and is then told of them knows them.         *)
LEMMA ToldOfMembers ==
  ASSUME NEW q \in Seq(DownPackets), NEW M \in SUBSET Members, NEW k, NEW s, NEW l, NEW in, NEW v,
         Informed(q, k, s, l, in, v),
         NEW e, e = q \/ (in /\ e = Append(q, Packet("StatusMessage")))
  PROVE  Informed(Append(e, Information(M)), k, s, l, in, Known(M))
<1> DEFINE m == Packet("StatusMessage")
<1>1. m \in DownPackets
  BY AnswerTyped DEF Answers
<1>2. ~Told(m) /\ ~Informs(m)
  BY DEF Packet, Told, Informs, Telling
<1> HIDE DEF m
<1>3. CASE e = q
  BY <1>3, InformationKeeps
<1>4. CASE in /\ e = Append(q, m)
  <2>1. e \in Seq(DownPackets)
    BY <1>1, <1>4, AppendFacts
  <2>2. Informed(e, k, s, l, in, v)
    BY <1>1, <1>2, <1>4, QuietKeeps
  <2> QED
    BY <2>1, <2>2, InformationKeeps
<1> QED
  BY <1>3, <1>4 DEF m

(* What a client with a connection, and one without, say of the peers and the members.        *)
LEMMA PeerFacts ==
  ASSUME RoomInv, NEW c \in Clients
  PROVE  /\ down[c] \in Seq(DownPackets)
         /\ Linked(c) => link[c] \in Peers /\ link[c] \in ConnectedPeers /\ owner[link[c]] = c
                         /\ up[link[c]] \in Seq(SendPackets)
         /\ ~Linked(c) => link[c] \notin Peers /\ ~Inside(c)
         /\ \A m \in members : m \in Members /\ m.peer \in Peers
<1>1. \A m \in members : m \in Members /\ m.peer \in Peers
  BY DEF RoomInv, MembersInv, RoomTypes, Members
<1>2. link[c] \in Peers \cup {NoPeer} /\ NoPeer \notin Peers
  BY DEF RoomInv, EndTypes, NoPeer, Peers
<1>3. ~Linked(c) => ~Inside(c)
  BY <1>1, <1>2 DEF Linked, Inside, PeersOf
<1> QED
  BY <1>1, <1>2, <1>3 DEF RoomInv, DownTypes, PlacesLinked, Linked, ConnectedPeers

(* A step of the room that leaves the members alone tells some clients something that does    *)
(* not concern them.                                                                          *)
LEMMA ViewsKept ==
  ASSUME RoomInv, ViewsInv, UNCHANGED <<members, link, client>>,
         \A c \in Clients :
           \/ down'[c] = down[c]
           \/ Linked(c) /\ \E m \in DownPackets : /\ ~Told(m) /\ ~Informs(m) /\ (Heard(m) => Inside(c))
                                                  /\ down'[c] = Append(down[c], m)
  PROVE  ViewsInv'
<1>1. \A c \in Clients : Linked(c)' = Linked(c) /\ Inside(c)' = Inside(c)
  BY DEF Linked, Inside
<1>2. state' = state /\ loop' = loop /\ member_information' = member_information
  BY DEF client
<1>3. ThreadsEnded'
  BY <1>1, <1>2 DEF ViewsInv, ThreadsEnded
<1>4. ASSUME NEW c \in Clients PROVE ClientInformed(c)'
  <2>1. /\ down[c] \in Seq(DownPackets)
        /\ Informed(down[c], member_information[c], state[c], Linked(c), Inside(c), Known(members))
    BY PeerFacts DEF ViewsInv, ClientInformed
  <2>2. Informed(down'[c], member_information[c], state[c], Linked(c), Inside(c), Known(members))
    <3>1. CASE down'[c] = down[c]
      BY <2>1, <3>1
    <3>2. ASSUME NEW m \in DownPackets, ~Told(m), ~Informs(m), Heard(m) => Inside(c),
                 down'[c] = Append(down[c], m)
          PROVE  Informed(down'[c], member_information[c], state[c], Linked(c), Inside(c), Known(members))
      BY <2>1, <3>2, QuietKeeps
    <3> QED
      BY <3>1, <3>2
  <2> QED
    BY <1>1, <1>2, <2>2 DEF ClientInformed
<1> QED
  BY <1>3, <1>4 DEF ViewsInv

(* One packet to some peers: to members, or one that does not tell of others.                 *)
LEMMA SentViews ==
  ASSUME RoomInv, ViewsInv, UNCHANGED <<members, link, client>>, NEW P, P \subseteq Peers,
         NEW t \in Answers, t \notin Telling, t \in Hearing => P \subseteq PeersOf(members),
         down' = Sent(down, P, Packet(t))
  PROVE  ViewsInv'
<1> DEFINE m == Packet(t)
<1>1. m \in DownPackets /\ ~Told(m) /\ ~Informs(m) /\ (Heard(m) => P \subseteq PeersOf(members))
  BY AnswerTyped DEF Packet, Told, Informs, Heard, Answers, Refusals
<1>2. down' = Sent(down, P, m)
  OBVIOUS
<1> HIDE DEF m
<1>3. ASSUME NEW c \in Clients
      PROVE  \/ down'[c] = down[c]
             \/ Linked(c) /\ \E n \in DownPackets : /\ ~Told(n) /\ ~Informs(n) /\ (Heard(n) => Inside(c))
                                                    /\ down'[c] = Append(down[c], n)
  <2>1. CASE link[c] \in P
    <3>1. Linked(c) /\ (Heard(m) => Inside(c))
      BY <1>1, <2>1, PeerFacts DEF Inside
    <3>2. down'[c] = Append(down[c], m)
      BY <1>2, <2>1 DEF Sent
    <3> QED
      BY <1>1, <3>1, <3>2
  <2>2. CASE link[c] \notin P
    BY <1>2, <2>2 DEF Sent
  <2> QED
    BY <2>1, <2>2
<1> QED
  BY <1>3, ViewsKept

(* An answer to a request is no news of the members.                                          *)
LEMMA AnswerViews ==
  ASSUME RoomInv, ViewsInv, NEW p \in Peers, NEW t \in Answers, t \notin Telling, t \notin Hearing,
         UNCHANGED client, Answer(p, t)
  PROVE  ViewsInv'
<1>1. UNCHANGED <<members, link, client>> /\ down' = Sent(down, {p}, Packet(t))
  BY DEF Answer, ends
<1> QED
  BY <1>1, SentViews

(* A change of the members, as one client sees it that keeps its connection: it may hear of   *)
(* the change, and is told of the members.                                                    *)
LEMMA ChangeTold ==
  ASSUME RoomInv, ViewsInv, UNCHANGED client, NEW c \in Clients, members' \in SUBSET Members,
         link'[c] = link[c], Inside(c)' = Inside(c), Linked(c) => link[c] \in ConnectedPeers,
         NEW e, e = down[c] \/ (Inside(c) /\ e = Append(down[c], Packet("StatusMessage"))),
         down'[c] = IF Linked(c) THEN Append(e, Information(members')) ELSE down[c]
  PROVE  ClientInformed(c)'
<1>1. state' = state /\ member_information' = member_information
  BY DEF client
<1>2. Linked(c)' = Linked(c)
  BY DEF Linked
<1>3. /\ down[c] \in Seq(DownPackets)
      /\ Informed(down[c], member_information[c], state[c], Linked(c), Inside(c), Known(members))
  BY PeerFacts DEF ViewsInv, ClientInformed
<1> DEFINE M == members'
<1>4. CASE Linked(c)
  <2>1. M \in SUBSET Members
    OBVIOUS
  <2> HIDE DEF M
  <2>2. Informed(Append(e, Information(M)), member_information[c], state[c], Linked(c), Inside(c), Known(M))
    BY <1>3, <2>1, ToldOfMembers
  <2>3. Informed(down'[c], member_information[c], state[c], Linked(c), Inside(c), Known(M))
    BY <1>4, <2>2 DEF M
  <2>4. Known(M) = Known(members)'
    BY DEF M, Known, Information
  <2> QED
    BY <1>1, <1>2, <2>3, <2>4 DEF ClientInformed
<1>5. CASE ~Linked(c)
  <2>1. ~Inside(c)
    BY <1>5, PeerFacts
  <2> DEFINE w == Known(members)'
  <2>2. Informed(down[c], member_information[c], state[c], Linked(c), Inside(c), w)
    BY <1>3, <2>1 DEF Informed
  <2> HIDE DEF w
  <2>3. Informed(down'[c], member_information'[c], state'[c], Linked(c)', Inside(c)', w)
    BY <1>1, <1>2, <1>5, <2>2
  <2> QED
    BY <2>3 DEF ClientInformed, w
<1> QED
  BY <1>4, <1>5

(* A client whose connection the room ends gets a last packet, or none, and a first part of   *)
(* what was under way.                                                                        *)
LEMMA CutInformed ==
  ASSUME RoomInv, ViewsInv, NEW c \in Clients, UNCHANGED client, link'[c] = NoPeer, Inside(c)' = FALSE,
         NEW t \in Answers, t \notin Telling, t \notin Hearing,
         NEW e, e = down[c] \/ e = Append(down[c], Packet(t)), down'[c] \in Cuts(e)
  PROVE  ClientInformed(c)'
<1> DEFINE m == Packet(t)
<1>1. m \in DownPackets /\ ~Told(m) /\ ~Informs(m) /\ ~Heard(m)
  BY AnswerTyped DEF Packet, Told, Informs, Heard, Answers, Refusals
<1> HIDE DEF m
<1>2. state' = state /\ member_information' = member_information
  BY DEF client
<1>3. /\ down[c] \in Seq(DownPackets)
      /\ Informed(down[c], member_information[c], state[c], Linked(c), Inside(c), Known(members))
  BY PeerFacts DEF ViewsInv, ClientInformed
<1>4. /\ e \in Seq(DownPackets)
      /\ Informed(e, member_information[c], state[c], Linked(c), Inside(c), Known(members))
  <2>1. CASE e = down[c]
    BY <1>3, <2>1
  <2>2. CASE e = Append(down[c], m)
    <3>1. e \in Seq(DownPackets)
      BY <1>1, <1>3, <2>2, AppendFacts
    <3>2. Informed(e, member_information[c], state[c], Linked(c), Inside(c), Known(members))
      BY <1>1, <1>3, <2>2, QuietKeeps
    <3> QED
      BY <3>1, <3>2
  <2> QED
    BY <2>1, <2>2 DEF m
<1>5. Informed(down'[c], member_information[c], state[c], FALSE, FALSE, Known(members)')
  BY <1>4, CutKeeps
<1>6. Linked(c)' = FALSE
  BY DEF Linked
<1> QED
  BY <1>2, <1>5, <1>6 DEF ClientInformed

(* HandleJoinRequest: a new member is told of the members and that it is in, the others are   *)
(* told of it.                                                                                *)
LEMMA AdmitViews ==
  ASSUME RoomInv, RoomInv', ViewsInv, NEW p \in Peers, Receive(p, "JoinRequest"),
         Refusal(p, Head(up[p]).request) = "none", Admit(p, Head(up[p]).request),
         UNCHANGED <<banned, outcasts, ends>>
  PROVE  ViewsInv'
<1>1. PICK a : LET M == members \cup {NewMember(p, Head(up[p]).request, a)}
                   told == SendStatusMessage(down, members)
                   seen == BroadcastRoomInformation(told, M, ConnectedPeers)
                   type == IF HasModPermission(p, M) THEN "JoinSuccessAsMod" ELSE "JoinSuccess"
               IN /\ members' = M
                  /\ down' = Sent(seen, {p}, Packet(type))
  BY DEF Admit
<1> DEFINE new == NewMember(p, Head(up[p]).request, a)
<1>2. new.peer = p
  BY DEF NewMember
<1> HIDE DEF new
<1> DEFINE I == Information(members')
<1>3. PICK t \in Telling :
        /\ members' = members \cup {new}
        /\ down' = Sent(Sent(Sent(down, PeersOf(members), Packet("StatusMessage")), ConnectedPeers, I),
                        {p}, Packet(t))
  BY <1>1 DEF new, SendStatusMessage, BroadcastRoomInformation, Telling
<1>4. client' = client /\ link' = link /\ state' = state /\ loop' = loop
      /\ member_information' = member_information
  BY DEF Receive, ends, client
<1>5. place[p] = "connected" /\ owner[p] \in Clients
  BY ReceiveFacts
<1>6. p \notin PeersOf(members)
  <2>1. \A m \in members : m.console # Console[owner[p]]
    BY NotRefused
  <2> QED
    BY <2>1 DEF RoomInv, MembersInv, MembersKnown, PeersOf
<1>7. members' \in SUBSET Members
  BY DEF RoomInv, MembersInv, RoomTypes
<1> HIDE DEF I
<1>8. ASSUME NEW c \in Clients PROVE ClientInformed(c)'
  <2>1. down'[c] = LET e == IF Inside(c) THEN Append(down[c], Packet("StatusMessage")) ELSE down[c]
                       f == IF link[c] \in ConnectedPeers THEN Append(e, I) ELSE e
                   IN IF link[c] = p THEN Append(f, Packet(t)) ELSE f
    BY <1>3 DEF Sent, Inside
  <2>2. CASE link[c] # p
    <3> DEFINE e == IF Inside(c) THEN Append(down[c], Packet("StatusMessage")) ELSE down[c]
    <3>1. Inside(c)' = Inside(c)
      BY <1>2, <1>3, <1>4, <2>2 DEF Inside, PeersOf
    <3>2. Linked(c) <=> link[c] \in ConnectedPeers
      BY PeerFacts DEF ConnectedPeers
    <3>3. ~Linked(c) => ~Inside(c)
      BY PeerFacts
    <3>4. down'[c] = IF Linked(c) THEN Append(e, I) ELSE down[c]
      BY <2>1, <2>2, <3>2, <3>3
    <3>5. e = down[c] \/ (Inside(c) /\ e = Append(down[c], Packet("StatusMessage")))
      OBVIOUS
    <3> HIDE DEF e
    <3> QED
      BY <1>4, <1>7, <3>1, <3>2, <3>4, <3>5, ChangeTold DEF I
  <2>3. CASE link[c] = p
    <3>1. ~Inside(c) /\ p \in ConnectedPeers /\ Linked(c)
      BY <1>5, <1>6, <2>3 DEF Inside, ConnectedPeers, Linked, Peers, NoPeer
    <3>2. down'[c] = Append(Append(down[c], I), Packet(t))
      BY <2>1, <2>3, <3>1
    <3>3. /\ down[c] \in Seq(DownPackets)
          /\ Informed(down[c], member_information[c], state[c], Linked(c), Inside(c), Known(members))
      BY PeerFacts DEF ViewsInv, ClientInformed
    <3> DEFINE M == members'
    <3>4. M \in SUBSET Members /\ M # {} /\ I = Information(M) /\ Known(M) = Known(members)'
      BY <1>3, <1>7 DEF I, Known, Information
    <3> HIDE DEF M
    <3>5. Informed(Append(Append(down[c], Information(M)), Packet(t)), member_information[c], state[c],
                   Linked(c), TRUE, Known(M))
      BY <3>3, <3>4, AdmittedKnows
    <3>6. Inside(c)' = TRUE /\ Linked(c)' = Linked(c)
      BY <1>2, <1>3, <1>4, <2>3 DEF Inside, PeersOf, Linked
    <3>7. Informed(down'[c], member_information'[c], state'[c], Linked(c)', Inside(c)', Known(M))
      BY <1>4, <3>2, <3>4, <3>5, <3>6
    <3> QED
      BY <3>4, <3>7 DEF ClientInformed
  <2> QED
    BY <2>2, <2>3
<1>9. ThreadsEnded'
  <2> SUFFICES ASSUME NEW c \in Clients, loop[c] \in {"none", "done"} PROVE down'[c] = <<>> /\ ~Linked(c)'
    BY <1>4 DEF ThreadsEnded
  <2>1. down[c] = <<>> /\ ~Linked(c) /\ link[c] \notin Peers /\ ~Inside(c)
    BY PeerFacts DEF ViewsInv, ThreadsEnded
  <2>2. link[c] \notin ConnectedPeers /\ link[c] # p /\ link[c] \notin PeersOf(members)
    BY <2>1 DEF ConnectedPeers, Inside
  <2> QED
    BY <1>3, <1>4, <2>1, <2>2 DEF Sent, Linked
<1> QED
  BY <1>8, <1>9 DEF ViewsInv

(* HandleJoinRequest.                                                                         *)
LEMMA JoinRequestViews ==
  ASSUME RoomInv, RoomInv', ViewsInv, NEW p \in Peers, HandleJoinRequest(p)
  PROVE  ViewsInv'
<1> DEFINE r == Head(up[p]).request
<1>1. Receive(p, "JoinRequest")
  BY DEF HandleJoinRequest
<1>2. CASE Refusal(p, r) # "none" /\ Answer(p, Refusal(p, r))
  <2>1. Refusal(p, r) \in Refusals
    BY <1>2 DEF Refusal, Refusals
  <2>2. Refusal(p, r) \in Answers /\ Refusal(p, r) \notin Telling /\ Refusal(p, r) \notin Hearing
    BY <2>1 DEF Answers, Refusals, Telling, Hearing
  <2>3. UNCHANGED client
    BY <1>1 DEF Receive
  <2> QED
    BY <1>2, <2>2, <2>3, AnswerViews
<1>3. CASE Refusal(p, r) = "none" /\ Admit(p, r) /\ UNCHANGED <<banned, outcasts, ends>>
  BY <1>1, <1>3, AdmitViews
<1> QED
  BY <1>2, <1>3 DEF HandleJoinRequest

(* HandleGameNamePacket: everybody is told of the games.                                      *)
LEMMA GameNameViews ==
  ASSUME RoomInv, RoomInv', ViewsInv, NEW p \in Peers, HandleGameNamePacket(p)
  PROVE  ViewsInv'
<1> DEFINE changed(m) == IF m.peer = p THEN [m EXCEPT !.game = Head(up[p]).game] ELSE m
<1>1. members' = {changed(m) : m \in members} /\ link' = link /\ UNCHANGED client
      /\ down' = Sent(down, ConnectedPeers, Information(members'))
  BY DEF HandleGameNamePacket, BroadcastRoomInformation, ends, Receive
<1>2. \A m \in members : changed(m).peer = m.peer
  BY DEF RoomInv, MembersInv, RoomTypes, Members
<1> HIDE DEF changed
<1>3. PeersOf(members') = PeersOf(members)
  BY <1>1, <1>2 DEF PeersOf
<1>4. members' \in SUBSET Members
  BY DEF RoomInv, MembersInv, RoomTypes
<1>5. ASSUME NEW c \in Clients PROVE ClientInformed(c)' /\ (~Linked(c) => down'[c] = down[c])
  <2>1. Linked(c) <=> link[c] \in ConnectedPeers
    BY PeerFacts DEF ConnectedPeers
  <2>2. Inside(c)' = Inside(c)
    BY <1>1, <1>3 DEF Inside
  <2>3. down'[c] = IF Linked(c) THEN Append(down[c], Information(members')) ELSE down[c]
    BY <1>1, <2>1 DEF Sent
  <2> QED
    BY <1>1, <1>4, <2>1, <2>2, <2>3, ChangeTold
<1>6. ThreadsEnded'
  BY <1>1, <1>5 DEF ViewsInv, ThreadsEnded, Linked, client
<1> QED
  BY <1>5, <1>6 DEF ViewsInv

(* HandleWifiPacket, HandleChatPacket: members hear of it.                                    *)
LEMMA TalkViews ==
  ASSUME RoomInv, ViewsInv, NEW p \in Peers, HandleWifiPacket(p) \/ HandleChatPacket(p)
  PROVE  ViewsInv'
<1>1. UNCHANGED <<members, link, client>>
  BY DEF HandleWifiPacket, HandleChatPacket, Receive, ends
<1>2. \E P, t : /\ P \subseteq PeersOf(members) /\ t \in Hearing
                /\ down' = Sent(down, P, Packet(t)) \/ down' = down
  <2>1. CASE HandleWifiPacket(p)
    <3> DEFINE M == IF Head(up[p]).to = "all" THEN {m \in members : m.peer # p}
                                              ELSE {m \in members : m.mac = Head(up[p]).to}
    <3>1. down' = Sent(down, PeersOf(M), Packet("WifiPacket")) /\ M \subseteq members
      BY <2>1 DEF HandleWifiPacket
    <3>2. PeersOf(M) \subseteq PeersOf(members)
      BY <3>1 DEF PeersOf
    <3> QED
      BY <3>1, <3>2 DEF Hearing
  <2>2. CASE HandleChatPacket(p)
    <3>1. down' = Sent(down, PeersOf(members) \ {p}, Packet("ChatMessage")) \/ down' = down
      BY <2>2 DEF HandleChatPacket
    <3> QED
      BY <3>1 DEF Hearing
  <2> QED
    BY <2>1, <2>2
<1>3. PICK P, t : /\ P \subseteq PeersOf(members) /\ t \in Hearing
                  /\ down' = Sent(down, P, Packet(t)) \/ down' = down
  BY <1>2
<1>4. P \subseteq Peers /\ t \in Answers /\ t \notin Telling
  <2>1. \A m \in members : m.peer \in Peers
    BY DEF RoomInv, MembersInv, RoomTypes, Members
  <2> QED
    BY <1>3, <2>1 DEF PeersOf, Hearing, Answers, Telling
<1>5. CASE down' = down
  BY <1>1, <1>5, ViewsKept
<1> QED
  BY <1>1, <1>3, <1>4, <1>5, SentViews

(* HandleModKickPacket, HandleModBanPacket: the member is told and cut off, the others know.  *)
LEMMA ExpelViews ==
  ASSUME RoomInv, RoomInv', ViewsInv, NEW m \in members, UNCHANGED client,
         NEW t \in Answers, t \notin Telling, t \notin Hearing, Expel(m, t)
  PROVE  ViewsInv'
<1> DEFINE M == members \ {m}
           p == m.peer
<1>1. PICK d \in Severed(Sent(down, {p}, Packet(t)), p) :
        down' = BroadcastRoomInformation(SendStatusMessage(d, M), M, ConnectedPeers \ {p})
  BY DEF Expel
<1>2. members' = M /\ link' = Unlinked({p})
  BY DEF Expel
<1>3. p \in Peers /\ \A n \in M : n.peer # p
  <2>1. members \subseteq Members /\ \A n \in M : n.peer # p
    BY DEF RoomInv, MembersInv, RoomTypes, MembersDistinct
  <2> QED
    BY <2>1 DEF Members
<1>4. M \in SUBSET Members
  BY DEF RoomInv, MembersInv, RoomTypes
<1>5. \A c \in Clients : /\ Inside(c) /\ link[c] # p => link[c] \in PeersOf(M)
                         /\ link[c] \in PeersOf(M) => Inside(c) /\ link[c] # p
  BY <1>3 DEF Inside, PeersOf
<1>6. \A c \in Clients : down'[c] = LET e == IF link[c] \in PeersOf(M) THEN Append(d[c], Packet("StatusMessage"))
                                             ELSE d[c]
                                    IN IF link[c] \in ConnectedPeers \ {p} THEN Append(e, Information(M)) ELSE e
  BY <1>1 DEF BroadcastRoomInformation, SendStatusMessage, Sent
<1> DEFINE sent == Sent(down, {p}, Packet(t))
<1>7. \A c \in Clients : link[c] # p => sent[c] = down[c]
  BY DEF Sent
<1>8. \A c \in Clients : link[c] = p => sent[c] = Append(down[c], Packet(t))
  BY DEF Sent
<1>9. sent \in [Clients -> {sent[c] : c \in Clients}]
  BY DEF Sent
<1>10. \A c \in Clients : IF link[c] = p THEN d[c] \in Cuts(sent[c]) ELSE d[c] = sent[c]
  <2>1. CASE \E c \in Clients : link[c] = p
    <3> DEFINE b == CHOOSE c \in Clients : link[c] = p
    <3>1. b \in Clients /\ link[b] = p
      BY <2>1
    <3>2. PICK q \in Cuts(sent[b]) : d = [sent EXCEPT ![b] = q]
      BY <1>1, <2>1 DEF Severed
    <3> HIDE DEF b, sent
    <3>3. \A c \in Clients : link[c] = p => c = b
      <4>1. \A c \in Clients : link[c] = p => owner[p] = c
        BY <1>3, PeerFacts DEF Linked, NoPeer, Peers
      <4> QED
        BY <3>1, <4>1
    <3> QED
      BY <1>9, <3>1, <3>2, <3>3
  <2>2. CASE ~ \E c \in Clients : link[c] = p
    <3>1. d = sent
      BY <1>1, <2>2 DEF Severed
    <3> QED
      BY <2>2, <3>1
  <2> QED
    BY <2>1, <2>2
<1> HIDE DEF M, p, sent
<1>11. \A c \in Clients : link'[c] = IF link[c] = p THEN NoPeer ELSE link[c]
  BY <1>2 DEF Unlinked
<1>12. ASSUME NEW c \in Clients, link[c] = p PROVE ClientInformed(c)'
  <2>1. link[c] \notin PeersOf(M) /\ link'[c] = NoPeer
    BY <1>5, <1>11, <1>12
  <2>2. down'[c] \in Cuts(sent[c]) /\ sent[c] = Append(down[c], Packet(t))
    BY <1>6, <1>8, <1>10, <1>12, <2>1
  <2>3. Inside(c)' = FALSE
    <3>1. ~Linked(c)'
      BY <2>1 DEF Linked
    <3>2. \A n \in members' : n.peer \in Peers
      BY <1>2, <1>4 DEF Members
    <3> QED
      BY <2>1, <3>2 DEF Inside, PeersOf, NoPeer, Peers
  <2> QED
    BY <2>1, <2>2, <2>3, CutInformed
<1>13. ASSUME NEW c \in Clients, link[c] # p PROVE ClientInformed(c)' /\ (~Linked(c) => down'[c] = down[c])
  <2> DEFINE e == IF link[c] \in PeersOf(M) THEN Append(down[c], Packet("StatusMessage")) ELSE down[c]
  <2>1. d[c] = down[c]
    BY <1>7, <1>10, <1>13
  <2>2. (Linked(c) <=> link[c] \in ConnectedPeers \ {p}) /\ (~Linked(c) => ~Inside(c))
    BY <1>13, PeerFacts DEF ConnectedPeers
  <2>3. down'[c] = IF Linked(c) THEN Append(e, Information(M)) ELSE down[c]
    BY <1>5, <1>6, <2>1, <2>2
  <2>4. e = down[c] \/ (Inside(c) /\ e = Append(down[c], Packet("StatusMessage")))
    BY <1>5
  <2>5. Inside(c)' = Inside(c) /\ link'[c] = link[c]
    BY <1>2, <1>5, <1>11, <1>13 DEF Inside
  <2> HIDE DEF e
  <2>6. ClientInformed(c)'
    BY <1>2, <1>4, <2>2, <2>3, <2>4, <2>5, ChangeTold
  <2> QED
    BY <2>3, <2>6
<1>14. ThreadsEnded'
  <2> SUFFICES ASSUME NEW c \in Clients, loop[c] \in {"none", "done"} PROVE down'[c] = <<>> /\ ~Linked(c)'
    BY DEF ThreadsEnded, client
  <2>1. down[c] = <<>> /\ ~Linked(c) /\ link[c] # p
    BY <1>3, PeerFacts DEF ViewsInv, ThreadsEnded
  <2> QED
    BY <1>11, <1>13, <2>1 DEF Linked
<1> QED
  BY <1>12, <1>13, <1>14 DEF ViewsInv

(* The four requests of a moderator.                                                          *)
LEMMA ModerationViews ==
  ASSUME RoomInv, RoomInv', ViewsInv, NEW p \in Peers,
         \/ HandleModKickPacket(p) \/ HandleModBanPacket(p)
         \/ HandleModUnbanPacket(p) \/ HandleModGetBanListPacket(p)
  PROVE  ViewsInv'
<1>1. UNCHANGED client
  BY DEF HandleModKickPacket, HandleModBanPacket, HandleModUnbanPacket, HandleModGetBanListPacket,
         Moderation, Receive
<1> DEFINE replies == {"ModPermissionDenied", "ModNoSuchUser", "ModBanListResponse"}
<1>2. ASSUME NEW t \in replies, Answer(p, t) PROVE ViewsInv'
  <2>1. t \in Answers /\ t \notin Telling /\ t \notin Hearing
    BY DEF Answers, Telling, Hearing
  <2> QED
    BY <1>1, <1>2, <2>1, AnswerViews
<1>3. ASSUME NEW m \in members, NEW t \in {"HostKicked", "HostBanned"}, Expel(m, t) PROVE ViewsInv'
  <2>1. t \in Answers /\ t \notin Telling /\ t \notin Hearing
    BY DEF Answers, Refusals, Telling, Hearing
  <2> QED
    BY <1>1, <1>3, <2>1, ExpelViews
<1>4. CASE HandleModKickPacket(p)
  BY <1>2, <1>3, <1>4 DEF HandleModKickPacket, Moderation, Named
<1>5. CASE HandleModBanPacket(p)
  BY <1>2, <1>3, <1>5 DEF HandleModBanPacket, Moderation, Named
<1>6. CASE HandleModUnbanPacket(p)
  <2>1. CASE UNCHANGED <<members, ends>> /\ down' = SendStatusMessage(down, members)
    <3>1. PeersOf(members) \subseteq Peers
      BY DEF RoomInv, MembersInv, RoomTypes, Members, PeersOf
    <3>2. "StatusMessage" \in Answers /\ "StatusMessage" \notin Telling
      BY DEF Answers, Telling
    <3>3. UNCHANGED <<members, link, client>>
      BY <1>1, <2>1 DEF ends
    <3> QED
      BY <2>1, <3>1, <3>2, <3>3, SentViews DEF SendStatusMessage
  <2> QED
    BY <1>2, <1>6, <2>1 DEF HandleModUnbanPacket, Moderation
<1>7. CASE HandleModGetBanListPacket(p)
  BY <1>2, <1>7 DEF HandleModGetBanListPacket, Moderation
<1> QED
  BY <1>4, <1>5, <1>6, <1>7

(* HandleClientDisconnection: the member is gone, and the others are told.                    *)
LEMMA DisconnectionViews ==
  ASSUME RoomInv, RoomInv', ViewsInv, NEW p \in Peers, HandleClientDisconnection(p)
  PROVE  ViewsInv'
<1> DEFINE M == {m \in members : m.peer # p}
           told == IF M # members THEN SendStatusMessage(down, M) ELSE down
<1>1. /\ members' = M /\ link' = link /\ UNCHANGED client
      /\ down' = BroadcastRoomInformation(told, M, ConnectedPeers \ {p})
  BY DEF HandleClientDisconnection, Receive
<1>2. up[p] # <<>> /\ Head(up[p]).type = "Disconnect"
  BY DEF HandleClientDisconnection, Receive
<1>3. M \in SUBSET Members
  BY DEF RoomInv, MembersInv, RoomTypes
<1>4. ASSUME NEW c \in Clients PROVE link[c] # p
  <2> SUFFICES ASSUME link[c] = p PROVE FALSE
    OBVIOUS
  <2>1. up[p] \in Seq(SendPackets)
    BY PeerFacts DEF Linked, NoPeer, Peers
  <2>2. Head(up[p]) \in SendPackets
    BY <1>2, <2>1, QueueFacts
  <2> QED
    BY <1>2, <2>2, RoomAssumption DEF SendPackets
<1>5. \A c \in Clients : link[c] \in PeersOf(M) <=> Inside(c)
  BY <1>4 DEF Inside, PeersOf
<1>6. ASSUME NEW c \in Clients
      PROVE  \E e : /\ e = down[c] \/ (Inside(c) /\ e = Append(down[c], Packet("StatusMessage")))
                    /\ down'[c] = IF link[c] \in ConnectedPeers \ {p} THEN Append(e, Information(M)) ELSE e
                    /\ ~Inside(c) => e = down[c]
  <2>1. told[c] = down[c] \/ (Inside(c) /\ told[c] = Append(down[c], Packet("StatusMessage")))
    BY <1>5 DEF SendStatusMessage, Sent
  <2>2. ~Inside(c) => told[c] = down[c]
    BY <1>5 DEF SendStatusMessage, Sent
  <2> HIDE DEF told, M
  <2>3. down'[c] = IF link[c] \in ConnectedPeers \ {p} THEN Append(told[c], Information(M)) ELSE told[c]
    BY <1>1 DEF BroadcastRoomInformation, Sent
  <2> QED
    BY <2>1, <2>2, <2>3
<1> HIDE DEF M, told
<1>7. ASSUME NEW c \in Clients PROVE ClientInformed(c)' /\ (~Linked(c) => down'[c] = down[c])
  <2>1. PICK e : /\ e = down[c] \/ (Inside(c) /\ e = Append(down[c], Packet("StatusMessage")))
                 /\ down'[c] = IF link[c] \in ConnectedPeers \ {p} THEN Append(e, Information(M)) ELSE e
                 /\ ~Inside(c) => e = down[c]
    BY <1>6
  <2>2. (Linked(c) <=> link[c] \in ConnectedPeers \ {p}) /\ (~Linked(c) => ~Inside(c))
    BY <1>4, PeerFacts DEF ConnectedPeers
  <2>3. down'[c] = IF Linked(c) THEN Append(e, Information(members')) ELSE down[c]
    BY <1>1, <2>1, <2>2
  <2>4. Inside(c)' = Inside(c) /\ link'[c] = link[c]
    BY <1>1, <1>5 DEF Inside
  <2>5. ClientInformed(c)'
    BY <1>1, <1>3, <2>1, <2>2, <2>3, <2>4, ChangeTold
  <2> QED
    BY <2>3, <2>5
<1>8. ThreadsEnded'
  BY <1>1, <1>7 DEF ViewsInv, ThreadsEnded, Linked, client
<1> QED
  BY <1>7, <1>8 DEF ViewsInv

(* Destroy: every connection ends, members are told first.                                    *)
LEMMA DestroyViews ==
  ASSUME RoomInv, ViewsInv, Destroy
  PROVE  ViewsInv'
<1> DEFINE sent == Sent(down, PeersOf(members), Packet("CloseRoom"))
<1>1. members' = {} /\ link' = Unlinked(Peers) /\ UNCHANGED client
  BY DEF Destroy
<1>2. \A c \in Clients : IF Linked(c) THEN down'[c] \in Cuts(sent[c]) ELSE down'[c] = down[c]
  BY DEF Destroy, Linked
<1>3. ASSUME NEW c \in Clients PROVE link'[c] = NoPeer /\ Inside(c)' = FALSE /\ ~Linked(c)'
  <2>1. link'[c] = NoPeer
    BY <1>1, PeerFacts DEF Unlinked, Linked
  <2> QED
    BY <1>1, <2>1 DEF Inside, PeersOf, Linked
<1>4. "CloseRoom" \in Answers /\ "CloseRoom" \notin Telling /\ "CloseRoom" \notin Hearing
  BY DEF Answers, Telling, Hearing
<1>5. ASSUME NEW c \in Clients, Linked(c) PROVE ClientInformed(c)'
  <2>1. sent[c] = down[c] \/ sent[c] = Append(down[c], Packet("CloseRoom"))
    BY DEF Sent
  <2> HIDE DEF sent
  <2>2. down'[c] \in Cuts(sent[c])
    BY <1>2, <1>5
  <2> QED
    BY <1>1, <1>3, <1>4, <2>1, <2>2, CutInformed
<1>6. ASSUME NEW c \in Clients, ~Linked(c) PROVE ClientInformed(c)' /\ down'[c] = down[c]
  <2>1. down'[c] = down[c] /\ Inside(c)' = FALSE
    BY <1>2, <1>3, <1>6
  <2>2. Linked(c)' = FALSE
    BY <1>3 DEF Linked
  <2>3. Informed(down[c], member_information[c], state[c], FALSE, FALSE, Known(members))
    <3>1. Informed(down[c], member_information[c], state[c], Linked(c), Inside(c), Known(members))
      BY DEF ViewsInv, ClientInformed
    <3>2. ~Linked(c) /\ ~Inside(c)
      BY <1>6, PeerFacts
    <3> QED
      BY <3>1, <3>2 DEF Informed
  <2>4. Informed(down[c], member_information[c], state[c], FALSE, FALSE, Known(members)')
    BY <2>3 DEF Informed
  <2> QED
    BY <1>1, <2>1, <2>2, <2>4 DEF ClientInformed, client
<1>7. ThreadsEnded'
  BY <1>1, <1>3, <1>6 DEF ViewsInv, ThreadsEnded, client
<1> QED
  BY <1>5, <1>6, <1>7 DEF ViewsInv

(* Create: the room is without members, and nobody is told.                                   *)
LEMMA CreateViews ==
  ASSUME RoomInv, ViewsInv, NEW kept, Create(kept)
  PROVE  ViewsInv'
<1>1. UNCHANGED <<members, link, client>> /\ down' = down
  BY DEF Create, ends
<1> QED
  BY <1>1, ViewsKept

-----------------------------------------------------------------------------
(* The clients keep themselves informed *)

(* A step of one client, as the others see it.                                                *)
LEMMA ClientViews ==
  ASSUME RoomInv, ViewsInv, NEW c \in Clients, UNCHANGED members,
         \A d \in Clients \ {c} :
           /\ link'[d] = link[d] /\ down'[d] = down[d] /\ state'[d] = state[d] /\ loop'[d] = loop[d]
           /\ member_information'[d] = member_information[d],
         ClientInformed(c)', loop'[c] \in {"none", "done"} => down'[c] = <<>> /\ link'[c] = NoPeer
  PROVE  ViewsInv'
<1>1. ASSUME NEW d \in Clients, d # c PROVE ClientInformed(d)'
  <2>1. /\ link'[d] = link[d] /\ down'[d] = down[d] /\ state'[d] = state[d]
        /\ member_information'[d] = member_information[d]
    BY <1>1
  <2>2. Linked(d)' = Linked(d) /\ Inside(d)' = Inside(d)
    BY <2>1 DEF Linked, Inside
  <2> QED
    BY <2>1, <2>2 DEF ViewsInv, ClientInformed
<1>2. ThreadsEnded'
  BY DEF ViewsInv, ThreadsEnded, Linked
<1> QED
  BY <1>1, <1>2 DEF ViewsInv

(* A step of a user that neither joins nor leaves.                                            *)
LEMMA SayingViews ==
  ASSUME RoomInv, ViewsInv, UNCHANGED <<room, ends, down, client>>
  PROVE  ViewsInv'
  BY ViewsKept DEF room, ends

(* Join: what was under way on an earlier connection is gone, and the place of the host that  *)
(* the client gets is no member's.                                                            *)
LEMMA JoinViews ==
  ASSUME RoomInv, ViewsInv, NEW c \in Clients, NEW r \in Requests[c], Join(c, r)
  PROVE  ViewsInv'
<1>1. PICK p \in Peers : place[p] = "free" /\ link' = [link EXCEPT ![c] = p]
  BY DEF Join
<1>2. UNCHANGED <<members, down, member_information>> /\ loop[c] = "none"
  BY DEF Join, room
<1>3. link \in [Clients -> Peers \cup {NoPeer}] /\ state' = [state EXCEPT ![c] = "Joining"]
      /\ loop' = [loop EXCEPT ![c] = "service"] /\ state \in [Clients -> {"Idle", "Joining", "Joined", "Moderator"}]
      /\ loop \in [Clients -> {"none", "service", "check", "done"}]
  BY DEF RoomInv, EndTypes, ClientTypes, Join
<1>4. link'[c] = p /\ state'[c] = "Joining" /\ loop'[c] = "service"
  BY <1>1, <1>3
<1>5. down[c] = <<>>
  BY <1>2 DEF ViewsInv, ThreadsEnded
<1>6. Inside(c)' = FALSE
  <2>1. \A m \in members : m.peer # p
    BY <1>1 DEF RoomInv, MembersInv, MembersKnown
  <2> QED
    BY <2>1, <1>2, <1>4 DEF Inside, PeersOf
<1>7. ClientInformed(c)'
  <2>1. Len(<<>>) = 0
    OBVIOUS
  <2>2. \A k, v, l : Informed(<<>>, k, "Joining", l, FALSE, v)
    BY <2>1 DEF Informed, ToldFirst, HeardLate, Tells
  <2> QED
    BY <2>2, <1>2, <1>4, <1>5, <1>6 DEF ClientInformed
<1> QED
  BY <1>1, <1>2, <1>3, <1>4, <1>7, ClientViews

(* Leave and the end of it: a client that is idle waits for no answer.                        *)
LEMMA LeaveViews ==
  ASSUME RoomInv, ViewsInv, NEW c \in Clients, Leave(c) \/ Left(c)
  PROVE  ViewsInv'
<1>1. UNCHANGED <<members, link, down, member_information>>
  BY DEF Leave, Left, room, ends
<1>2. /\ state \in [Clients -> {"Idle", "Joining", "Joined", "Moderator"}]
      /\ loop \in [Clients -> {"none", "service", "check", "done"}]
  BY DEF RoomInv, ClientTypes
<1>3. state'[c] \in {state[c], "Idle"} /\ (loop'[c] \in {"none", "done"} => loop[c] \in {"none", "done"})
  BY <1>2 DEF Leave, Left
<1>4. \A d \in Clients \ {c} : state'[d] = state[d] /\ loop'[d] = loop[d]
  BY <1>2 DEF Leave, Left
<1>5. Linked(c)' = Linked(c) /\ Inside(c)' = Inside(c)
  BY <1>1 DEF Linked, Inside
<1>6. ClientInformed(c)'
  BY <1>1, <1>3, <1>5 DEF ViewsInv, ClientInformed, Informed
<1> QED
  BY <1>1, <1>3, <1>4, <1>6, ClientViews DEF ViewsInv, ThreadsEnded, Linked

(* A connection that is lost, or that the thread of the client ends.                          *)
LEMMA EndsViews ==
  ASSUME RoomInv, ViewsInv, NEW c \in Clients, Lose(c) \/ EndLoop(c)
  PROVE  ViewsInv'
<1>1. link \in [Clients -> Peers \cup {NoPeer}] /\ down \in [Clients -> Seq(DownPackets)]
      /\ loop \in [Clients -> {"none", "service", "check", "done"}]
      /\ member_information \in [Clients -> SUBSET Views]
  BY DEF RoomInv, EndTypes, DownTypes, ClientTypes
<1>2. UNCHANGED <<members, state>> /\ link' = [link EXCEPT ![c] = NoPeer]
  BY DEF Lose, EndLoop, room, client
<1>3. link'[c] = NoPeer /\ Linked(c)' = FALSE
  BY <1>1, <1>2 DEF Linked
<1>4. Inside(c)' = FALSE
  <2>1. \A m \in members : m.peer # NoPeer
    <3>1. NoPeer \notin Peers
      BY DEF NoPeer, Peers
    <3> QED
      BY <3>1, PeerFacts
  <2> QED
    BY <2>1, <1>2, <1>3 DEF Inside, PeersOf
<1>5. CASE Lose(c)
  <2>1. PICK d \in Cuts(down[c]) : down' = [down EXCEPT ![c] = d]
    BY <1>5 DEF Lose
  <2>2. Linked(c) /\ UNCHANGED client
    BY <1>5 DEF Lose, Linked
  <2>3. Informed(d, member_information[c], state[c], FALSE, FALSE, Known(members))
    BY <1>1, CutKeeps DEF ViewsInv, ClientInformed
  <2>4. ClientInformed(c)'
    BY <2>1, <2>2, <2>3, <1>1, <1>2, <1>3, <1>4 DEF ClientInformed, client
  <2>5. loop[c] \notin {"none", "done"}
    BY <2>2 DEF ViewsInv, ThreadsEnded
  <2> QED
    BY <2>1, <2>2, <2>4, <2>5, <1>1, <1>2, ClientViews DEF client
<1>6. CASE EndLoop(c)
  <2>1. /\ down' = [down EXCEPT ![c] = <<>>] /\ loop' = [loop EXCEPT ![c] = "done"]
        /\ member_information' = [member_information EXCEPT ![c] = {}]
    BY <1>6 DEF EndLoop
  <2>2. down'[c] = <<>>
    BY <2>1, <1>1
  <2>3. ClientInformed(c)'
    BY <2>2, <1>3, <1>4, NothingUnderWay DEF ClientInformed
  <2> QED
    BY <2>1, <2>2, <2>3, <1>1, <1>2, <1>3, ClientViews
<1> QED
  BY <1>5, <1>6

(* A packet that a client receives, or none: what was under way is known.                     *)
LEMMA EventViews ==
  ASSUME RoomInv, ViewsInv, NEW c \in Clients, NoEvent(c) \/ Event(c)
  PROVE  ViewsInv'
<1>1. down \in [Clients -> Seq(DownPackets)] /\ loop \in [Clients -> {"none", "service", "check", "done"}]
      /\ member_information \in [Clients -> SUBSET Views]
      /\ state \in [Clients -> {"Idle", "Joining", "Joined", "Moderator"}]
  BY DEF RoomInv, DownTypes, ClientTypes
<1>2. CASE NoEvent(c)
  <2>1. UNCHANGED <<members, link, down, state, member_information>>
    BY <1>1, <1>2 DEF NoEvent, EndRound, room, ends
  <2>2. loop[c] = "service" /\ loop'[c] \notin {"none", "done"} /\ \A d \in Clients \ {c} : loop'[d] = loop[d]
    BY <1>1, <1>2 DEF NoEvent, EndRound
  <2>3. Linked(c)' = Linked(c) /\ Inside(c)' = Inside(c)
    BY <2>1 DEF Linked, Inside
  <2>4. ClientInformed(c)'
    BY <2>1, <2>3 DEF ViewsInv, ClientInformed
  <2> QED
    BY <2>1, <2>2, <2>4, ClientViews
<1>3. CASE Event(c)
  <2> DEFINE m == Head(down[c])
             s == StateAfter(state[c], m.type)
  <2>1. /\ down[c] # <<>> /\ down' = [down EXCEPT ![c] = Tail(down[c])]
        /\ member_information' =
             IF m.type = "RoomInformation" THEN [member_information EXCEPT ![c] = m.members]
                                           ELSE member_information
        /\ EndRound(c, s)
    BY <1>3 DEF Event
  <2>2. Informed(Tail(down[c]), IF Informs(m) THEN m.members ELSE member_information[c], s,
                 Linked(c), Inside(c), Known(members))
    BY <2>1, <1>1, TakingKeeps DEF ViewsInv, ClientInformed
  <2> HIDE DEF m, s
  <2>3. UNCHANGED <<members, link>> /\ state' = [state EXCEPT ![c] = s]
        /\ loop' = [loop EXCEPT ![c] = IF s = "Idle" THEN "check" ELSE "service"]
    BY <2>1 DEF EndRound, room, ends
  <2>4. Linked(c)' = Linked(c) /\ Inside(c)' = Inside(c) /\ Known(members)' = Known(members)
    BY <2>3 DEF Linked, Inside
  <2>5. /\ down'[c] = Tail(down[c]) /\ state'[c] = s /\ loop'[c] \notin {"none", "done"}
        /\ member_information'[c] = IF Informs(m) THEN m.members ELSE member_information[c]
    BY <2>1, <2>3, <1>1 DEF Informs
  <2>6. ClientInformed(c)'
    BY <2>2, <2>4, <2>5 DEF ClientInformed
  <2>7. \A d \in Clients \ {c} : /\ link'[d] = link[d] /\ down'[d] = down[d] /\ state'[d] = state[d]
                                 /\ loop'[d] = loop[d] /\ member_information'[d] = member_information[d]
    BY <2>1, <2>3, <1>1
  <2> QED
    BY <2>3, <2>5, <2>6, <2>7, ClientViews
<1> QED
  BY <1>2, <1>3

-----------------------------------------------------------------------------
(* The theorem on what clients know *)

(* At first nobody knows anything and nothing is under way.                                   *)
LEMMA InitViews == Init => ViewsInv
<1> SUFFICES ASSUME Init PROVE ViewsInv
  OBVIOUS
<1>1. ASSUME NEW c \in Clients PROVE down[c] = <<>> /\ Linked(c) = FALSE /\ Inside(c) = FALSE
  BY DEF Init, Linked, Inside, PeersOf
<1>2. ThreadsEnded
  BY <1>1 DEF ThreadsEnded
<1>3. \A c \in Clients : ClientInformed(c)
  BY <1>1, NothingUnderWay DEF ClientInformed
<1> QED
  BY <1>2, <1>3 DEF ViewsInv

(* Every step keeps what is under way and what is known in agreement with the room.           *)
LEMMA ViewsStep == RoomInv /\ RoomInv' /\ ViewsInv /\ [Next]_vars => ViewsInv'
<1> SUFFICES ASSUME RoomInv, RoomInv', ViewsInv, [Next]_vars PROVE ViewsInv'
  OBVIOUS
<1>1. ASSUME NEW p \in Peers, Handle(p) PROVE ViewsInv'
  BY <1>1, JoinRequestViews, GameNameViews, TalkViews, ModerationViews, DisconnectionViews DEF Handle
<1>2. ASSUME NEW c \in Clients, Use(c) PROVE ViewsInv'
  <2>1. ASSUME NEW r \in Requests[c], Join(c, r) PROVE ViewsInv'
    BY <2>1, JoinViews
  <2>2. CASE Leave(c) \/ Left(c)
    BY <2>2, LeaveViews
  <2>3. CASE SendCurrentGame(c)
    BY <2>3, SayingViews DEF SendCurrentGame
  <2>4. ASSUME NEW m \in Sayings, SendPacket(c, m) \/ SendModerationRequest(c, m) PROVE ViewsInv'
    BY <2>4, SayingViews DEF SendPacket, SendModerationRequest, Say
  <2>5. ASSUME NEW g \in Games, SendGameInfo(c, g) PROVE ViewsInv'
    BY <2>5, SayingViews DEF SendGameInfo, Say
  <2> QED
    BY <1>2, <2>1, <2>2, <2>3, <2>4, <2>5 DEF Use
<1>3. ASSUME NEW c \in Clients, EndLoop(c) \/ NoEvent(c) \/ Event(c) \/ Lose(c) PROVE ViewsInv'
  BY <1>3, EndsViews, EventViews
<1>4. CASE Destroy
  BY <1>4, DestroyViews
<1>5. ASSUME NEW kept \in BOOLEAN, Create(kept) PROVE ViewsInv'
  BY <1>5, CreateViews
<1>6. CASE UNCHANGED vars
  BY <1>6, SayingViews DEF vars
<1> QED
  BY <1>1, <1>2, <1>3, <1>4, <1>5, <1>6 DEF Next

(* The invariant says what ViewsSound does, of the packet a client takes next.                *)
LEMMA ViewsMean == RoomInv /\ ViewsInv => ViewsSound
<1> SUFFICES ASSUME RoomInv, ViewsInv PROVE ViewsSound
  OBVIOUS
<1>1. ASSUME NEW c \in Clients
      PROVE  /\ down[c] \in Seq(DownPackets)
             /\ Informed(down[c], member_information[c], state[c], Linked(c), Inside(c), Known(members))
  BY <1>1, PeerFacts DEF ViewsInv, ClientInformed
<1>2. ASSUME NEW c \in Clients, down[c] # <<>> PROVE 1 \in 1 .. Len(down[c]) /\ Head(down[c]) = down[c][1]
  BY <1>1, <1>2, HeadTailProperties, EmptySeq, LenProperties
<1>3. JoinAssert
  <2> SUFFICES ASSUME NEW c \in Clients, down[c] # <<>>, Told(Head(down[c]))
               PROVE  member_information[c] # {}
    BY DEF JoinAssert, Told, Telling
  <2> QED
    BY <1>1, <1>2 DEF Informed, ToldFirst
<1>4. HeardOnceJoined
  <2> SUFFICES ASSUME NEW c \in Clients, state[c] = "Joining", down[c] # <<>>, Heard(Head(down[c]))
               PROVE  FALSE
    BY DEF HeardOnceJoined, Heard, Hearing
  <2>1. \E j \in 1 .. 1 - 1 : Settled(down[c][j])
    BY <1>1, <1>2 DEF Informed, HeardLate
  <2> QED
    BY <2>1
<1>5. ViewsAgree
  <2> SUFFICES ASSUME NEW c \in Clients, Believes(c), link[c] # NoPeer, down[c] = <<>>
               PROVE  link[c] \in PeersOf(members) /\ member_information[c] = Information(members).members
    BY DEF ViewsAgree
  <2>1. Inside(c)
    BY <1>1 DEF Informed, Linked, Believes
  <2>2. Latest(<<>>, member_information[c], Known(members))
    BY <2>1, <1>1 DEF Informed
  <2>3. Len(<<>>) = 0
    OBVIOUS
  <2>4. member_information[c] = Known(members)
    BY <2>2, <2>3 DEF Latest
  <2> QED
    BY <2>1, <2>4 DEF Inside, Known
<1> QED
  BY <1>3, <1>4, <1>5 DEF ViewsSound

(* However clients join, are refused, kicked or banned, leave, come back on a place that was  *)
(* used before, or lose their connections, and whenever the room is closed: a client is told  *)
(* of the members before it is told that it is in, as MemberLoop asserts; it hears others     *)
(* only after an answer; and one that has joined and has received everything is a member and  *)
(* knows the members as the room does (BroadcastRoomInformation, SendStatusMessage).          *)
THEOREM ViewsAlwaysSound == Spec => []ViewsSound
  BY InitKeeps, RoomStepKeeps, InitViews, ViewsStep, ViewsMean, PTL DEF Spec
=============================================================================
