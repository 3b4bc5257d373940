------------------------------- MODULE MCRoom -------------------------------
(***************************************************************************)
(* Instances of Room with two clients, of which c1 is the host.  A         *)
(* behaviour is one of requests of all kinds and lost connections          *)
(* ("names"), of games, talk and moderation ("talk", whose constants are   *)
(* those of this module), or of a ban and joins after it ("bans").         *)
(***************************************************************************)
EXTENDS Room

CONSTANTS c1, c2, game, none

VARIABLE part

Pair == {c1, c2}
Own(a, b) == [c \in Pair |-> IF c = c1 THEN a ELSE b]

Asks(nick, mac) == [nick |-> nick, mac |-> mac, pass |-> TRUE, version |-> TRUE]
HostAsks == {Asks("host", none)}
GuestAsks == {Asks("guest", none)}
AnyName == {Asks("host", "m1"), Asks("guest", "m1"), Asks("guest", "m2"),
            [Asks("guest", "m1") EXCEPT !.pass = FALSE],
            [Asks("guest", "m2") EXCEPT !.version = FALSE]}

Order(t, n) == [type |-> t, name |-> n]
Talk == {[type |-> "ChatMessage"], [type |-> "WifiPacket", to |-> "all"],
         [type |-> "WifiPacket", to |-> "m1"]}
Orders == {Order("ModBan", "guest"), Order("ModUnban", "work"), Order("ModKick", "guest"),
           Order("ModGetBanList", "")}

\* Games, talk and moderation
TalkRequests == Own(HostAsks, GuestAsks)
TalkConsole == Own(c1, c2)
TalkIp == Own("home", "work")
TalkUser == Own("host", "")
TalkSayings == Talk \cup Orders

\* Requests that collide, with a wrong password or an old version
Names == INSTANCE Room WITH
  Requests <- Own(HostAsks, AnyName), User <- Own("", ""), Games <- {}, LeaveJoining <- TRUE,
  Sayings <- {}, Says <- 0, Losses <- 1

Bans == INSTANCE Room WITH
  User <- Own("", ""), Games <- {}, Sayings <- {Order("ModBan", "guest")}, Joins <- 3, Backlog <- 0

ASSUME InstanceAssumption == Names!RoomAssumption /\ Bans!RoomAssumption

AllInit == part \in {"names", "talk", "bans"} /\ Init

AllNext ==
  /\ UNCHANGED part
  /\ \/ part = "names" /\ Names!Next
     \/ part = "talk" /\ Next
     \/ part = "bans" /\ Bans!Next

AllSpec == AllInit /\ [][AllNext]_<<part, vars>>

=============================================================================
