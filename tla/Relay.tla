-------------------------------- MODULE Relay --------------------------------
(***************************************************************************)
(* The relay (backend/relay/src/main.rs): rooms of at most two peers, one  *)
(* handler task per WebSocket connection with a write task behind a        *)
(* bounded channel, and a background task that evicts idle peers.          *)
(*                                                                         *)
(* A step is what runs between two points where another task can get in:   *)
(* one critical section of the room map's mutex, or one channel operation. *)
(* A connection is used once, as a handler is.  Its Conn value also stands *)
(* for the channel (tx) and for the random token of its peer, both made    *)
(* for that connection alone.  The endpoints may send anything at any time *)
(* and may stop reading or go away.                                        *)
(*                                                                         *)
(* A definition with a suffix, Def_Slip, is Def with one plausible coding  *)
(* slip; it is not part of the specification.  Each property is seen to    *)
(* fail when one of them takes the place of its Def.                       *)
(***************************************************************************)
EXTENDS Integers, Sequences, FiniteSets

CONSTANTS
  Conn,      \* connections, hence handler tasks
  Room,      \* room ids the endpoints join
  Capacity,  \* PEER_CHANNEL_CAPACITY
  Inbound    \* the kinds of frames the endpoints send once they have joined

ASSUME RoomAssumption == Room # {}
ASSUME CapacityAssumption == Capacity \in Nat \ {0}
ASSUME InboundAssumption == Inbound \subseteq {"ping", "pong", "text", "binary"}

VARIABLES
  rooms,     \* the HashMap: the existing rooms, each [next_id, peers]
  before,    \* <<c, d>>: c's last_activity is earlier than d's
  chan,      \* the messages in each connection's channel
  writer,    \* the channel's receiver: not made yet, alive, or dropped
  pc,        \* where each handler is
  room,      \* room_id of each handler
  id,        \* peer_id of each handler
  announced, \* history: <<c, d>>: d's channel took c's join
  missed     \* history: <<c, d>>: d's channel was full when c's join came
             \* (both: while the two are there and can be written to)

vars == <<rooms, before, chan, writer, pc, room, id, announced, missed>>

(* new: accepted, nothing read; joined: in the room; greeted: token sent;  *)
(* reading: in the read loop; ponged: a Ping answered, activity not yet    *)
(* updated; checked: a text frame passed the token check; closing: out of  *)
(* the loop; done: returned.                                               *)
PC == {"new", "joined", "greeted", "reading", "ponged", "checked", "closing", "done"}

Peer == [id : Nat, tx : Conn]
RoomState == [next_id : Nat, peers : SUBSET Peer]

Control == [type |-> "control"]   \* a WebSocket Ping or Pong
Join    == [type |-> "join"]
Auth(c)  == [type |-> "auth", token |-> c]
Frame(c) == [type |-> "frame", from |-> c]
PeerDisconnect(i) == [type |-> "peer_disconnect", id |-> i]
Message ==
  {Control, Join} \cup [type : {"auth"}, token : Conn]
    \cup [type : {"frame"}, from : Conn] \cup [type : {"peer_disconnect"}, id : Nat]

-----------------------------------------------------------------------------
Peers(r) == IF r \in DOMAIN rooms THEN rooms[r].peers ELSE {}
Txs(S) == {p.tx : p \in S}
Registered == UNION {Txs(Peers(r)) : r \in Room}

(* find(|p| p.id == peer_id) and its complement, for c's handler.          *)
Found(c)  == {p \in Peers(room[c]) : p.id = id[c]}
Others(c) == {p \in Peers(room[c]) : p.id # id[c]}

(* try_send succeeds: the receiver is alive and the channel has room.      *)
Accepts(c, ch) == writer[c] = "up" /\ Len(ch[c]) < Capacity

Offer_Unbounded(ch, S, m) ==
  [c \in Conn |-> IF c \in S /\ writer[c] = "up" THEN Append(ch[c], m) ELSE ch[c]]

(* try_send(m) to every connection of S, the results ignored.              *)
Offer(ch, S, m) ==
  [c \in Conn |-> IF c \in S /\ Accepts(c, ch) THEN Append(ch[c], m) ELSE ch[c]]

(* last_activity = now for the connections of S, among those of all.       *)
Refreshed(S, all) ==
  {e \in before : e[1] \notin S} \cup ((all \ S) \X S)

(* What is left of a relation between peers when only those of all remain. *)
Among(rel, all) == rel \cap (all \X all)

Leaving_KeepsEmpty(r, S) == [rooms EXCEPT ![r].peers = S]

(* The room's entry with the peers S; an empty room leaves the map.        *)
Leaving(r, S) ==
  IF S = {}
  THEN [q \in DOMAIN rooms \ {r} |-> rooms[q]]
  ELSE [rooms EXCEPT ![r].peers = S]

(* The least recently active of S.                                         *)
LeastActive(S) ==
  {p \in S : \A q \in S : q # p => <<p.tx, q.tx>> \in before}

Victims_OffByOne(S) ==
  IF Cardinality(S) > 2 THEN {{p} : p \in LeastActive(S)} ELSE {{}}

(* Whom a newcomer replaces among the reachable peers S: nobody or one.    *)
Victims(S) ==
  IF Cardinality(S) >= 2 THEN {{p} : p \in LeastActive(S)} ELSE {{}}

-----------------------------------------------------------------------------
Init ==
  /\ rooms = [r \in {} |-> {}]
  /\ before = {}
  /\ chan = [c \in Conn |-> <<>>]
  /\ writer = [c \in Conn |-> "none"]
  /\ pc = [c \in Conn |-> "new"]
  /\ room = [c \in Conn |-> CHOOSE r \in Room : TRUE]
  /\ id = [c \in Conn |-> 0]
  /\ announced = {} /\ missed = {}

(* The first message is not a usable join: the handler returns.            *)
Reject(c) ==
  /\ pc[c] = "new"
  /\ pc' = [pc EXCEPT ![c] = "done"]
  /\ UNCHANGED <<rooms, before, chan, writer, room, id, announced, missed>>

(* Room::new starts at 0.                                                  *)
NextId(r) == IF r \in DOMAIN rooms THEN rooms[r].next_id ELSE 0

AddPeer_SameNumber(r, S, c) ==
  [next_id |-> NextId(r), peers |-> S \cup {[id |-> NextId(r), tx |-> c]}]

AddPeer_CountsDown(r, S, c) ==
  [next_id |-> NextId(r) - 1, peers |-> S \cup {[id |-> NextId(r), tx |-> c]}]

(* add_peer, on the room as the peers S have it.                           *)
AddPeer(r, S, c) ==
  [next_id |-> NextId(r) + 1, peers |-> S \cup {[id |-> NextId(r), tx |-> c]}]

(* The first message joins room r: under the lock, ping out the peers that *)
(* cannot be reached, evict the least active of two, add the newcomer.     *)
Register(c, r) ==
  LET pinged == Offer(chan, Txs(Peers(r)), Control)
      live   == {p \in Peers(r) : Accepts(p.tx, chan)}
      stay(out) == Registered \ Txs((Peers(r) \ live) \cup out)
  IN  /\ pc[c] = "new"
      /\ \E out \in Victims(live) :
           /\ \/ out = {} /\ chan' = pinged
              \/ \E v \in out :
                   chan' = Offer(pinged, {v.tx}, PeerDisconnect(v.id))
           /\ rooms' = [q \in DOMAIN rooms \cup {r} |->
                IF q = r THEN AddPeer(r, live \ out, c) ELSE rooms[q]]
           /\ before' = Among(before, stay(out)) \cup (stay(out) \X {c})
           /\ announced' = Among(announced, stay(out))
           /\ missed' = Among(missed, stay(out))
      /\ writer' = [writer EXCEPT ![c] = "up"]
      /\ pc' = [pc EXCEPT ![c] = "joined"]
      /\ room' = [room EXCEPT ![c] = r]
      /\ id' = [id EXCEPT ![c] = NextId(r)]

(* The token goes into the newcomer's own channel, outside the lock.       *)
SendAuth(c) ==
  /\ pc[c] = "joined"
  /\ chan' = Offer(chan, {c}, Auth(c))
  /\ pc' = [pc EXCEPT ![c] = "greeted"]
  /\ UNCHANGED <<rooms, before, writer, room, id, announced, missed>>

(* Of the connections S: whose channel takes a message now; whose is full. *)
Reached(S) == {d \in S : Accepts(d, chan)}
Full(S)    == {d \in S : writer[d] = "up" /\ Len(chan[d]) >= Capacity}

PassJoin(c, S) ==
  /\ pc[c] = "greeted"
  /\ chan' = Offer(chan, S, Join)
  /\ announced' = announced \cup ({c} \X Reached(S))
  /\ missed' = missed \cup ({c} \X Full(S))
  /\ pc' = [pc EXCEPT ![c] = "reading"]
  /\ UNCHANGED <<rooms, before, writer, room, id>>

NotifyJoin_NewerOnly(c) ==
  PassJoin(c, Txs({p \in Peers(room[c]) : p.id > id[c]}))

(* The join is passed on to the peers of the room, to those whose channel  *)
(* takes it; then the write task starts and the handler enters its read    *)
(* loop.                                                                   *)
NotifyJoin(c) == PassJoin(c, Txs(Others(c)))

-----------------------------------------------------------------------------
(* The write task of c, spawned when the read loop is entered.             *)
Spawned(c) == pc[c] \in {"reading", "ponged", "checked", "closing"}

(* It hands the oldest message to the socket.                              *)
Deliver(c) ==
  /\ Spawned(c) /\ writer[c] = "up" /\ chan[c] # <<>>
  /\ chan' = [chan EXCEPT ![c] = Tail(@)]
  /\ UNCHANGED <<rooms, before, writer, pc, room, id, announced, missed>>

(* It ends on a write or ping error or a 10 s timeout, or is aborted by    *)
(* the handler that left its loop; the receiver goes with it.              *)
WriterEnds(c) ==
  /\ Spawned(c) /\ writer[c] = "up"
  /\ writer' = [writer EXCEPT ![c] = "down"]
  /\ chan' = [chan EXCEPT ![c] = <<>>]
  /\ announced' = Among(announced, Conn \ {c}) /\ missed' = Among(missed, Conn \ {c})
  /\ UNCHANGED <<rooms, before, pc, room, id>>

-----------------------------------------------------------------------------
(* The read loop.  Frames it drops (oversized, invalid JSON, wrong token)  *)
(* change nothing.                                                         *)

(* A Ping: a Pong through the peer's own channel, then, under a second     *)
(* lock, the activity.                                                     *)
ReadPing(c) ==
  /\ "ping" \in Inbound
  /\ pc[c] = "reading"
  /\ chan' = Offer(chan, Txs(Found(c)), Control)
  /\ pc' = [pc EXCEPT ![c] = "ponged"]
  /\ UNCHANGED <<rooms, before, writer, room, id, announced, missed>>

Refresh(c) == before' = Refreshed(Txs(Found(c)), Registered)

TouchAfterPing(c) ==
  /\ pc[c] = "ponged"
  /\ Refresh(c)
  /\ pc' = [pc EXCEPT ![c] = "reading"]
  /\ UNCHANGED <<rooms, chan, writer, room, id, announced, missed>>

ReadPong(c) ==
  /\ "pong" \in Inbound
  /\ pc[c] = "reading"
  /\ Refresh(c)
  /\ UNCHANGED <<rooms, chan, writer, pc, room, id, announced, missed>>

(* A text frame that carries c's token passes if the peer that now has     *)
(* c's number in c's room has that token.                                  *)
CheckToken(c) ==
  /\ "text" \in Inbound
  /\ pc[c] = "reading"
  /\ \E p \in Found(c) : p.tx = c
  /\ pc' = [pc EXCEPT ![c] = "checked"]
  /\ UNCHANGED <<rooms, before, chan, writer, room, id, announced, missed>>

ForwardFrom_Echo(c, at) ==
  /\ pc[c] = at
  /\ Refresh(c)
  /\ chan' = Offer(chan, Txs(Peers(room[c])), Frame(c))
  /\ pc' = [pc EXCEPT ![c] = "reading"]
  /\ UNCHANGED <<rooms, writer, room, id, announced, missed>>

(* The frame goes to everybody else in the room, under a new lock.         *)
ForwardFrom(c, at) ==
  /\ pc[c] = at
  /\ Refresh(c)
  /\ chan' = Offer(chan, Txs(Others(c)), Frame(c))
  /\ pc' = [pc EXCEPT ![c] = "reading"]
  /\ UNCHANGED <<rooms, writer, room, id, announced, missed>>

ForwardText(c) == ForwardFrom(c, "checked")

(* A binary frame is forwarded without a token check.                      *)
ForwardBinary(c) == "binary" \in Inbound /\ ForwardFrom(c, "reading")

(* A Close frame, the end of the stream or a read error.                   *)
StreamEnds(c) ==
  /\ pc[c] = "reading"
  /\ pc' = [pc EXCEPT ![c] = "closing"]
  /\ UNCHANGED <<rooms, before, chan, writer, room, id, announced, missed>>

WriterDied_Unwatched(c) ==
  /\ pc[c] = "reading" /\ writer[c] = "down" /\ FALSE
  /\ pc' = [pc EXCEPT ![c] = "closing"]
  /\ UNCHANGED <<rooms, before, chan, writer, room, id, announced, missed>>

(* The write task has ended.                                               *)
WriterDied(c) ==
  /\ pc[c] = "reading" /\ writer[c] = "down"
  /\ pc' = [pc EXCEPT ![c] = "closing"]
  /\ UNCHANGED <<rooms, before, chan, writer, room, id, announced, missed>>

Cleanup_StaysInRoom(c) ==
  /\ pc[c] = "closing"
  /\ chan' = [Offer(chan, Txs(Others(c)), PeerDisconnect(id[c])) EXCEPT ![c] = <<>>]
  /\ writer' = [writer EXCEPT ![c] = "down"]
  /\ pc' = [pc EXCEPT ![c] = "done"]
  /\ id' = [id EXCEPT ![c] = 0]
  /\ UNCHANGED <<rooms, before, room, announced, missed>>

(* The handler removes its number from its room, tells who remains,        *)
(* removes the room if nobody does, and returns: its aborted write task,   *)
(* channel and local variables are gone.                                   *)
Cleanup(c) ==
  /\ pc[c] = "closing"
  /\ chan' = [Offer(chan, Txs(Others(c)), PeerDisconnect(id[c])) EXCEPT ![c] = <<>>]
  /\ rooms' = IF room[c] \in DOMAIN rooms THEN Leaving(room[c], Others(c)) ELSE rooms
  /\ before' = Among(before, Registered \ Txs(Found(c)))
  /\ announced' = Among(announced, Registered \ Txs(Found(c)))
  /\ missed' = Among(missed, Registered \ Txs(Found(c)))
  /\ writer' = [writer EXCEPT ![c] = "down"]
  /\ pc' = [pc EXCEPT ![c] = "done"]
  /\ id' = [id EXCEPT ![c] = 0]
  /\ UNCHANGED room

-----------------------------------------------------------------------------
(* The background task, every 30 s: peers idle for 60 s (the least active  *)
(* of all) and peers whose channel takes no ping go; emptied rooms too.    *)
Idle(S) == \A c \in S, d \in Registered : <<d, c>> \in before => d \in S

EvictIdle ==
  \E idle \in SUBSET Registered :
    LET gone == idle \cup {c \in Registered : ~Accepts(c, chan)}
        kept == [r \in DOMAIN rooms |-> {p \in rooms[r].peers : p.tx \notin gone}]
    IN  /\ Idle(idle)
        /\ chan' = Offer(chan, Registered \ idle, Control)
        /\ rooms' = [r \in {q \in DOMAIN rooms : kept[q] # {}} |->
                       [rooms[r] EXCEPT !.peers = kept[r]]]
        /\ before' = Among(before, Registered \ gone)
        /\ announced' = Among(announced, Registered \ gone)
        /\ missed' = Among(missed, Registered \ gone)
        /\ UNCHANGED <<writer, pc, room, id>>

-----------------------------------------------------------------------------
Handler(c) ==
  \/ Reject(c)
  \/ \E r \in Room : Register(c, r)
  \/ SendAuth(c) \/ NotifyJoin(c)
  \/ ReadPing(c) \/ TouchAfterPing(c) \/ ReadPong(c)
  \/ CheckToken(c) \/ ForwardText(c) \/ ForwardBinary(c)
  \/ StreamEnds(c) \/ WriterDied(c) \/ Cleanup(c)

Next ==
  \/ \E c \in Conn : Handler(c) \/ Deliver(c) \/ WriterEnds(c)
  \/ EvictIdle

Spec == Init /\ [][Next]_vars

(* The runtime runs every task that is ready and the mutex is handed over  *)
(* in order, so a handler between two waits goes on.  The read loop waits  *)
(* for the next frame and for the write task at once, and select! tries    *)
(* the two in random order: frames that keep coming do not hide for ever   *)
(* that the write task has ended.                                          *)
Fairness ==
  \A c \in Conn :
    /\ WF_vars(SendAuth(c)) /\ WF_vars(NotifyJoin(c))
    /\ WF_vars(TouchAfterPing(c)) /\ WF_vars(ForwardText(c))
    /\ SF_vars(WriterDied(c)) /\ WF_vars(Cleanup(c))

FairSpec == Spec /\ Fairness

-----------------------------------------------------------------------------
(* The shapes of the state; the activity of the peers of a room is totally *)
(* ordered, so there always is a least active one to evict.                *)
TypeOK ==
  /\ \E R \in SUBSET Room : rooms \in [R -> RoomState]
  /\ before \subseteq Conn \X Conn
  /\ \A r \in DOMAIN rooms : \A p, q \in rooms[r].peers :
       p # q => (<<p.tx, q.tx>> \in before <=> <<q.tx, p.tx>> \notin before)
  /\ chan \in [Conn -> Seq(Message)]
  /\ writer \in [Conn -> {"none", "up", "down"}]
  /\ pc \in [Conn -> PC]
  /\ room \in [Conn -> Room]
  /\ id \in [Conn -> Nat]
  /\ announced \subseteq Conn \X Conn /\ missed \subseteq Conn \X Conn

(* A room never holds more than two peers (README: up to 2 peers per       *)
(* room), whatever joins, evictions and cleanups interleave.               *)
RoomCapacity == \A r \in DOMAIN rooms : Cardinality(rooms[r].peers) <= 2

(* Within a room numbers tell the peers apart, and the next number is new: *)
(* every lookup by peer_id (lines 326, 334, 343, 370, 398, 432) relies on  *)
(* it.                                                                     *)
NumbersUnique ==
  \A r \in DOMAIN rooms : \A p, q \in rooms[r].peers :
    /\ p.id < rooms[r].next_id
    /\ p.id = q.id => p = q

(* Who is in a room is there once, under the number its handler holds, and *)
(* its handler has yet to clean up: no connection that ended stays behind. *)
NoGhostPeer ==
  \A r \in DOMAIN rooms : \A p \in rooms[r].peers :
    /\ room[p.tx] = r /\ id[p.tx] = p.id
    /\ pc[p.tx] \notin {"new", "done"}

(* The map does not accumulate rooms nobody is in.                         *)
NoEmptyRoom == \A r \in DOMAIN rooms : rooms[r].peers # {}

(* A stalled writer holds at most Capacity messages.                       *)
BoundedChannels == \A c \in Conn : Len(chan[c]) <= Capacity

(* A frame only reaches other connections that joined the same room.       *)
FramesStayInRoom ==
  \A c \in Conn : \A k \in DOMAIN chan[c] :
    chan[c][k].type = "frame" =>
      chan[c][k].from # c /\ room[chan[c][k].from] = room[c]

(* Two connections that share a room, have both finished joining and can   *)
(* both be written to: nobody but the later joiner's own handler tells     *)
(* them of each other (line 237).                                          *)
Settled(c) == pc[c] \notin {"new", "joined", "greeted"}
Meet(p, q) ==
  /\ p # q /\ Settled(p.tx) /\ Settled(q.tx)
  /\ writer[p.tx] = "up" /\ writer[q.tx] = "up"

(* However joins, evictions and cleanups interleave, no such two are       *)
(* unknown to each other for want of trying: one's join is in, or went     *)
(* through, the other's channel, unless just that channel was full when    *)
(* the join came.                                                          *)
MeetingAnnounced ==
  \A r \in DOMAIN rooms : \A p, q \in rooms[r].peers :
    Meet(p, q) =>
      \/ <<p.tx, q.tx>> \in announced \/ <<q.tx, p.tx>> \in announced
      \/ <<p.tx, q.tx>> \in missed \/ <<q.tx, p.tx>> \in missed

(* "Notify existing peers that a new client joined by forwarding the join  *)
(* message" (line 229): of two such connections one has had the other's    *)
(* join.  The result of the try_send is ignored, so a full channel loses   *)
(* the join for good.                                                      *)
NewcomerAnnounced ==
  \A r \in DOMAIN rooms : \A p, q \in rooms[r].peers :
    Meet(p, q) => <<p.tx, q.tx>> \in announced \/ <<q.tx, p.tx>> \in announced

(* A connection whose write side died does not linger: its handler notices *)
(* between frames, leaves the loop and takes it out of its room.           *)
DeadWriterLeaves ==
  \A c \in Conn : writer[c] = "down" ~> pc[c] = "done" /\ c \notin Registered

(* A handler that cleans up takes at most its own connection out of the    *)
(* map ("Cleanup: remove this peer and notify remaining peers", line 425). *)
CleanupRemovesOnlyItself ==
  [][\A c \in Conn : pc[c] = "closing" /\ pc'[c] = "done" =>
       Registered \ {c} \subseteq Registered']_vars
=============================================================================
