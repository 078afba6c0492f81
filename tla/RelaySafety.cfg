CONSTANTS
  Conn = {c1, c2, c3}
  Room = {r1, r2}
  Capacity = 1
  Inbound = {"text"}
SPECIFICATION Spec
SYMMETRY Interchangeable
INVARIANTS
  TypeOK
  RoomCapacity
  NumbersUnique
  NoGhostPeer
  NoEmptyRoom
  MeetingAnnounced
  BoundedChannels
  FramesStayInRoom
