SPECIFICATION AllSpec
CHECK_DEADLOCK FALSE
CONSTANTS
  c1 = c1
  c2 = c2
  game = game
  none = none
  Clients = {c1, c2}
  Slots = 2
  Requests <- TalkRequests
  Macs = {"m1", "m2"}
  NoPreferredMac = none
  Console <- TalkConsole
  Ip <- TalkIp
  User <- TalkUser
  Mods = {}
  HostUsername = "host"
  Games = {game}
  NoGame = none
  LeaveJoining = FALSE
  Sayings <- TalkSayings
  Joins = 2
  Says = 1
  Losses = 0
  Rooms = 0
  Backlog = 1
INVARIANTS
  MembersSound ViewsSound
