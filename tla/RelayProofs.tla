----------------------------- MODULE RelayProofs -----------------------------
(***************************************************************************)
(* The relay's safety invariants hold for any number of connections and    *)
(* rooms, any channel capacity and any mix of inbound frames.              *)
(*                                                                         *)
(* The inductive invariant Inv has a part about membership (rooms, numbers *)
(* and whose join was offered to whom) and a part about what the channels  *)
(* hold.                                                                   *)
(* Membership changes in three ways: a newcomer is registered, peers leave *)
(* (Cleanup and EvictIdle), or nothing changes but where a handler is.     *)
(***************************************************************************)
EXTENDS Relay, FiniteSetTheorems, TLAPS

-----------------------------------------------------------------------------
RoomsType == \E R \in SUBSET Room : rooms \in [R -> RoomState]

(* Activity orders any two peers of a room.                                *)
Ordered ==
  \A r \in DOMAIN rooms : \A p, q \in rooms[r].peers :
    p # q => (<<p.tx, q.tx>> \in before <=> <<q.tx, p.tx>> \notin before)

SmallRooms ==
  \A r \in DOMAIN rooms :
    IsFiniteSet(rooms[r].peers) /\ Cardinality(rooms[r].peers) <= 2

(* The joins that were offered: taken by the channel or lost to a full one. *)
Offered == announced \cup missed

(* Stronger than MeetingAnnounced: it is the later of the two whose join   *)
(* was offered, whatever the earlier one does meanwhile.                   *)
LaterOffered ==
  \A r \in DOMAIN rooms : \A p, q \in rooms[r].peers :
    p.id < q.id /\ Settled(q.tx) /\ writer[p.tx] = "up" /\ writer[q.tx] = "up" =>
      <<q.tx, p.tx>> \in Offered

Locals ==
  /\ writer \in [Conn -> {"none", "up", "down"}]
  /\ pc \in [Conn -> PC]
  /\ room \in [Conn -> Room]
  /\ id \in [Conn -> Nat]

Membership ==
  /\ RoomsType /\ Ordered /\ SmallRooms /\ NumbersUnique /\ NoGhostPeer
  /\ NoEmptyRoom /\ LaterOffered
  /\ before \subseteq Conn \X Conn
  /\ announced \subseteq Conn \X Conn /\ missed \subseteq Conn \X Conn

(* A message that may be in c's channel: a frame comes from another        *)
(* connection that joined the same room.                                   *)
Proper(c, m) ==
  m.type = "frame" =>
    /\ m.from # c /\ room[m.from] = room[c]
    /\ pc[m.from] # "new" /\ pc[c] # "new"

Channels ==
  /\ chan \in [Conn -> Seq(Message)]
  /\ \A c \in Conn : Len(chan[c]) <= Capacity
  /\ \A c \in Conn : pc[c] = "new" => chan[c] = <<>>
  /\ \A c \in Conn : \A k \in DOMAIN chan[c] : Proper(c, chan[c][k])

Inv == Locals /\ Membership /\ Channels

-----------------------------------------------------------------------------
(* What is known of a peer of an existing room.                            *)
LEMMA PeerFacts ==
  ASSUME Locals, Membership, NEW r \in DOMAIN rooms
  PROVE  /\ r \in Room /\ rooms[r] \in RoomState
         /\ rooms[r].peers \subseteq Peer /\ rooms[r].next_id \in Nat
         /\ \A p \in rooms[r].peers :
              /\ p \in Peer /\ p.tx \in Conn /\ p.id \in Nat
              /\ room[p.tx] = r /\ id[p.tx] = p.id
              /\ pc[p.tx] \notin {"new", "done"}
  BY DEF Locals, Membership, RoomsType, RoomState, Peer, NoGhostPeer

(* A connection is registered when it is a peer of some room: its own.     *)
LEMMA RegisteredFacts ==
  ASSUME Locals, Membership
  PROVE  /\ Registered \subseteq Conn
         /\ \A r \in DOMAIN rooms : \A p \in rooms[r].peers : p.tx \in Registered
         /\ \A d \in Registered :
              \E p \in Peers(room[d]) : p.tx = d /\ room[d] \in DOMAIN rooms
<1>1. \A r \in Room : Txs(Peers(r)) \subseteq Conn
  BY PeerFacts DEF Txs, Peers
<1>2. ASSUME NEW r \in DOMAIN rooms, NEW p \in rooms[r].peers
      PROVE  p.tx \in Registered
  <2>1. r \in Room /\ p.tx \in Txs(Peers(r))
    BY PeerFacts DEF Txs, Peers
  <2> QED BY <2>1 DEF Registered
<1>3. ASSUME NEW d \in Registered
      PROVE  \E p \in Peers(room[d]) : p.tx = d /\ room[d] \in DOMAIN rooms
  <2>1. PICK r \in Room : d \in Txs(Peers(r))
    BY DEF Registered
  <2>2. PICK p \in Peers(r) : p.tx = d
    BY <2>1 DEF Txs
  <2>3. r \in DOMAIN rooms /\ p \in rooms[r].peers
    BY <2>2 DEF Peers
  <2>4. room[d] = r
    BY <2>2, <2>3, PeerFacts
  <2> QED BY <2>2, <2>3, <2>4
<1> QED BY <1>1, <1>2, <1>3 DEF Registered

(* try_send to some connections adds at most the one message, to those.    *)
LEMMA OfferSpec ==
  ASSUME NEW ch \in [Conn -> Seq(Message)], NEW S, NEW m \in Message
  PROVE  /\ Offer(ch, S, m) \in [Conn -> Seq(Message)]
         /\ \A c \in Conn :
              \/ Offer(ch, S, m)[c] = ch[c]
              \/ /\ c \in S /\ Len(ch[c]) < Capacity
                 /\ Offer(ch, S, m)[c] = Append(ch[c], m)
  BY DEF Offer, Accepts

(* What the messages are.                                                  *)
LEMMA FrameSender == ASSUME NEW m \in Message, m.type = "frame" PROVE m.from \in Conn
  BY DEF Message, Control, Join

(* Each message the relay sends has the type of a message.                 *)
LEMMA Messages ==
  /\ Control \in Message /\ Join \in Message
  /\ \A c \in Conn : Auth(c) \in Message /\ Frame(c) \in Message
  /\ \A i \in Nat : PeerDisconnect(i) \in Message
  /\ Control.type # "frame" /\ Join.type # "frame"
  /\ \A c : Auth(c).type # "frame" /\ Frame(c).from = c
  /\ \A i : PeerDisconnect(i).type # "frame"
  BY DEF Message, Control, Join, Auth, Frame, PeerDisconnect

-----------------------------------------------------------------------------
(* A step that forgets an offered join only with the writer of one of the  *)
(* two, and gives no connection of the map a writer.                       *)
OffersStay ==
  /\ announced' \subseteq Conn \X Conn /\ missed' \subseteq Conn \X Conn
  /\ \A d \in Registered : writer'[d] = "up" => writer[d] = "up"
  /\ \A x, y \in Conn :
       writer'[x] = "up" /\ writer'[y] = "up" /\ <<x, y>> \in Offered =>
         <<x, y>> \in Offered'

(* As when it touches neither the history nor a writer.                    *)
LEMMA OffersUntouched ==
  ASSUME Membership, UNCHANGED <<writer, announced, missed>>
  PROVE  OffersStay
  BY DEF Membership, OffersStay, Offered

(* Steps that leave the rooms alone.  Whoever settles has offered its join *)
(* to everybody it shares its room with.                                   *)
LEMMA SameRooms ==
  ASSUME Locals, Membership, Locals',
         rooms' = rooms, room' = room, id' = id, Ordered',
         before' \subseteq Conn \X Conn, OffersStay,
         \A c \in Registered : pc'[c] \notin {"new", "done"},
         \A c \in Registered : Settled(c)' =>
           Settled(c) \/ \A p \in Others(c) :
                           writer'[p.tx] = "up" => <<c, p.tx>> \in Offered'
  PROVE  Membership'
<1>1. RoomsType' /\ SmallRooms' /\ NumbersUnique' /\ NoEmptyRoom'
  BY DEF Membership, RoomsType, SmallRooms, NumbersUnique, NoEmptyRoom
<1>2. NoGhostPeer'
  BY RegisteredFacts DEF NoGhostPeer, Membership
<1>3. LaterOffered'
  <2> SUFFICES ASSUME NEW r \in DOMAIN rooms,
                      NEW p \in rooms[r].peers, NEW q \in rooms[r].peers,
                      p.id < q.id, Settled(q.tx)',
                      writer'[p.tx] = "up", writer'[q.tx] = "up"
               PROVE  <<q.tx, p.tx>> \in Offered'
    BY DEF LaterOffered
  <2>1. /\ p.tx \in Registered /\ q.tx \in Registered /\ p.tx \in Conn /\ q.tx \in Conn
        /\ room[q.tx] = r /\ id[q.tx] = q.id
    BY PeerFacts, RegisteredFacts
  <2>2. CASE Settled(q.tx)
    <3>1. writer[p.tx] = "up" /\ writer[q.tx] = "up"
      BY <2>1 DEF OffersStay
    <3>2. <<q.tx, p.tx>> \in Offered
      BY <2>2, <3>1 DEF Membership, LaterOffered
    <3> QED BY <2>1, <3>2 DEF OffersStay
  <2>3. CASE ~Settled(q.tx)
    <3>1. p.id # q.id
      BY PeerFacts
    <3>2. p \in Others(q.tx)
      BY <2>1, <3>1 DEF Others, Peers
    <3> QED BY <2>1, <2>3, <3>2
  <2> QED BY <2>2, <2>3
<1>4. announced' \subseteq Conn \X Conn /\ missed' \subseteq Conn \X Conn
  BY DEF OffersStay
<1> QED BY <1>1, <1>2, <1>3, <1>4 DEF Membership

(* The other peers of a room, and c's own entry, when c is still in it.    *)
LEMMA FoundFacts ==
  ASSUME Locals, Membership, NEW c \in Conn
  PROVE  /\ Found(c) \subseteq Peers(room[c]) /\ Others(c) \subseteq Peers(room[c])
         /\ Peers(room[c]) = Found(c) \cup Others(c)
         /\ \A p \in Peers(room[c]) :
              /\ room[c] \in DOMAIN rooms /\ p \in rooms[room[c]].peers
              /\ p.tx \in Registered /\ p.tx \in Conn
         /\ \A p, q \in Found(c) : p = q
         /\ \A p \in Others(c) : p.tx # c
<1>1. ASSUME NEW p \in Peers(room[c])
      PROVE  /\ room[c] \in DOMAIN rooms /\ p \in rooms[room[c]].peers
             /\ p.tx \in Registered /\ p.tx \in Conn /\ id[p.tx] = p.id
  <2>1. room[c] \in DOMAIN rooms /\ p \in rooms[room[c]].peers
    BY DEF Peers
  <2> QED BY <2>1, PeerFacts, RegisteredFacts
<1>2. \A p, q \in Found(c) : p = q
  BY <1>1 DEF Found, Membership, NumbersUnique
<1>3. \A p \in Others(c) : p.tx # c
  BY <1>1 DEF Others
<1> QED BY <1>1, <1>2, <1>3 DEF Found, Others

(* Updating the activity of c keeps two peers of a room ordered.           *)
LEMMA RefreshOrders ==
  ASSUME Locals, Membership, NEW c \in Conn, Refresh(c), rooms' = rooms
  PROVE  Ordered' /\ before' \subseteq Conn \X Conn
<1> DEFINE S == Txs(Found(c))
<1>1. S \subseteq Conn /\ Registered \subseteq Conn
  BY FoundFacts, RegisteredFacts DEF Txs
<1>2. before' = {e \in before : e[1] \notin S} \cup ((Registered \ S) \X S)
  BY DEF Refresh, Refreshed
<1>3. \A x, y \in S : x = y
  BY FoundFacts DEF Txs
<1> HIDE DEF S
<1>4. before' \subseteq Conn \X Conn
  <2>1. (Registered \ S) \X S \subseteq Conn \X Conn
    BY <1>1
  <2>2. before \subseteq Conn \X Conn
    BY DEF Membership
  <2> QED BY <1>2, <2>1, <2>2
<1>5. Ordered'
  <2> SUFFICES ASSUME NEW r \in DOMAIN rooms,
                      NEW p \in rooms[r].peers, NEW q \in rooms[r].peers, p # q
               PROVE  <<p.tx, q.tx>> \in before' <=> <<q.tx, p.tx>> \notin before'
    BY DEF Ordered
  <2>1. p.tx \in Registered /\ q.tx \in Registered
    BY RegisteredFacts
  <2>2. p.tx # q.tx
    BY PeerFacts DEF Membership, NumbersUnique
  <2>3. <<p.tx, q.tx>> \in before <=> <<q.tx, p.tx>> \notin before
    BY DEF Membership, Ordered
  <2>4. \A x, y : <<x, y>> \in before' <=>
          (<<x, y>> \in before /\ x \notin S) \/ (x \in Registered \ S /\ y \in S)
    BY <1>2
  <2>5. ~(p.tx \in S /\ q.tx \in S)
    BY <1>3, <2>2
  <2> QED BY <2>1, <2>3, <2>4, <2>5
<1> QED BY <1>4, <1>5

-----------------------------------------------------------------------------
(* Steps in which peers only leave: what is left of the rooms keeps its    *)
(* numbers, and no handler of a peer that stays ends.                      *)
LEMMA PeersLeave ==
  ASSUME Locals, Membership, Locals', NEW rest,
         room' = room,
         before' = Among(before, rest), announced' = Among(announced, rest),
         missed' = Among(missed, rest),
         DOMAIN rooms' \subseteq DOMAIN rooms, RoomsType',
         \A r \in DOMAIN rooms' :
           /\ rooms'[r].next_id = rooms[r].next_id
           /\ rooms'[r].peers \subseteq rooms[r].peers /\ rooms'[r].peers # {},
         \A r \in DOMAIN rooms' : \A p \in rooms'[r].peers :
           /\ p.tx \in rest /\ pc'[p.tx] = pc[p.tx] /\ id'[p.tx] = id[p.tx]
        /\ writer'[p.tx] = writer[p.tx]
           /\ writer'[p.tx] = writer[p.tx]
  PROVE  Membership'
<1>1. \A e \in before : e \in Conn \X Conn
  BY DEF Membership
<1>2. /\ before' \subseteq Conn \X Conn /\ announced' \subseteq Conn \X Conn
      /\ missed' \subseteq Conn \X Conn
  BY DEF Membership, Among
<1>3. \A x \in rest, y \in rest : /\ <<x, y>> \in before' <=> <<x, y>> \in before
                                  /\ <<x, y>> \in Offered' <=> <<x, y>> \in Offered
  BY DEF Among, Offered
<1>4. Ordered'
  BY <1>3 DEF Membership, Ordered
<1>5. SmallRooms'
  <2> SUFFICES ASSUME NEW r \in DOMAIN rooms'
               PROVE  /\ IsFiniteSet(rooms'[r].peers)
                      /\ Cardinality(rooms'[r].peers) <= 2
    BY DEF SmallRooms
  <2>1. IsFiniteSet(rooms[r].peers) /\ Cardinality(rooms[r].peers) <= 2
    BY DEF Membership, SmallRooms
  <2>2. rooms'[r].peers \subseteq rooms[r].peers
    OBVIOUS
  <2>3. /\ IsFiniteSet(rooms'[r].peers)
        /\ Cardinality(rooms'[r].peers) <= Cardinality(rooms[r].peers)
    BY <2>1, <2>2, FS_Subset
  <2>4. Cardinality(rooms[r].peers) \in Nat /\ Cardinality(rooms'[r].peers) \in Nat
    BY <2>1, <2>3, FS_CardinalityType
  <2> QED BY <2>1, <2>3, <2>4
<1>6. NumbersUnique' /\ NoEmptyRoom'
  BY DEF Membership, NumbersUnique, NoEmptyRoom
<1>7. NoGhostPeer'
  BY DEF Membership, NoGhostPeer
<1>8. LaterOffered'
  BY <1>3 DEF Membership, LaterOffered, Settled
<1> QED BY <1>2, <1>4, <1>5, <1>6, <1>7, <1>8 DEF Membership

(* Cleanup takes out what answers to c's number in c's room; if that room  *)
(* is empty then, it goes.                                                 *)
LEMMA CleanupMembership ==
  ASSUME Locals, Membership, NEW c \in Conn, Cleanup(c)
  PROVE  Locals' /\ Membership'
<1>1. Locals'
  BY DEF Cleanup, Locals, PC
<1> DEFINE rest == Registered \ Txs(Found(c))
<1>2. \A r \in DOMAIN rooms : \A p \in rooms[r].peers :
        r # room[c] => p.tx \in rest /\ p.tx # c
  <2> SUFFICES ASSUME NEW r \in DOMAIN rooms, NEW p \in rooms[r].peers, r # room[c]
               PROVE  p.tx \in rest /\ p.tx # c
    OBVIOUS
  <2>1. room[p.tx] = r /\ p.tx \in Registered
    BY PeerFacts, RegisteredFacts
  <2>2. \A q \in Found(c) : room[q.tx] = room[c]
    BY FoundFacts, PeerFacts
  <2> QED BY <2>1, <2>2 DEF Txs
<1>3. \A p \in Others(c) : p.tx \in rest /\ p.tx # c
  <2> SUFFICES ASSUME NEW p \in Others(c) PROVE p.tx \in rest /\ p.tx # c
    OBVIOUS
  <2>1. p.tx \in Registered /\ p.tx # c /\ id[p.tx] = p.id /\ p.id # id[c]
    BY FoundFacts, PeerFacts DEF Others
  <2>2. \A q \in Found(c) : id[q.tx] = id[c]
    BY FoundFacts, PeerFacts DEF Found
  <2> QED BY <2>1, <2>2 DEF Txs
<1>4. \A p \in rest : pc'[p] = pc[p] \/ p = c
  BY DEF Cleanup, Locals
<1>5. CASE room[c] \notin DOMAIN rooms
  <2>1. rooms' = rooms
    BY <1>5 DEF Cleanup
  <2>2. \A r \in DOMAIN rooms : \A p \in rooms[r].peers :
          /\ p.tx \in rest /\ pc'[p.tx] = pc[p.tx] /\ id'[p.tx] = id[p.tx]
        /\ writer'[p.tx] = writer[p.tx]
    BY <1>2, <1>5, PeerFacts DEF Cleanup, Locals
  <2>3. RoomsType'
    BY <2>1 DEF Membership, RoomsType
  <2> HIDE DEF rest
  <2>4. /\ before' = Among(before, rest) /\ announced' = Among(announced, rest)
        /\ missed' = Among(missed, rest) /\ room' = room
    BY DEF Cleanup, rest
  <2>5. \A r \in DOMAIN rooms : rooms[r].peers # {}
    BY DEF Membership, NoEmptyRoom
  <2> QED BY <1>1, <2>1, <2>2, <2>3, <2>4, <2>5, PeersLeave
<1>6. CASE room[c] \in DOMAIN rooms
  <2>1. rooms' = Leaving(room[c], Others(c))
    BY <1>6 DEF Cleanup
  <2>2. \A r \in DOMAIN rooms' :
          /\ r \in DOMAIN rooms
          /\ rooms'[r].next_id = rooms[r].next_id
          /\ r = room[c] => rooms'[r].peers = Others(c) /\ Others(c) # {}
          /\ r # room[c] => rooms'[r].peers = rooms[r].peers
    BY <2>1, PeerFacts DEF Leaving, RoomState
  <2>3. rooms'[room[c]].peers \subseteq rooms[room[c]].peers \/ room[c] \notin DOMAIN rooms'
    BY <1>6, <2>2, FoundFacts
  <2>4. \A r \in DOMAIN rooms : rooms[r].peers # {}
    BY DEF Membership, NoEmptyRoom
  <2>5. RoomsType'
    <3>1. PICK R \in SUBSET Room : rooms \in [R -> RoomState]
      BY DEF Membership, RoomsType
    <3>2. Others(c) \subseteq Peer
      BY <1>6, FoundFacts, PeerFacts
    <3>3. CASE Others(c) = {}
      <4>1. rooms' \in [R \ {room[c]} -> RoomState]
        BY <2>1, <3>1, <3>3 DEF Leaving
      <4> QED BY <4>1 DEF RoomsType
    <3>4. CASE Others(c) # {}
      <4>1. rooms' \in [R -> RoomState]
        BY <2>1, <3>1, <3>2, <3>4 DEF Leaving, RoomState
      <4> QED BY <4>1 DEF RoomsType
    <3> QED BY <3>3, <3>4
  <2>6. \A r \in DOMAIN rooms' :
          /\ rooms'[r].next_id = rooms[r].next_id
          /\ rooms'[r].peers \subseteq rooms[r].peers /\ rooms'[r].peers # {}
    BY <2>2, <2>3, <2>4
  <2>7. \A r \in DOMAIN rooms' : \A p \in rooms'[r].peers :
          /\ p.tx \in rest /\ pc'[p.tx] = pc[p.tx] /\ id'[p.tx] = id[p.tx]
        /\ writer'[p.tx] = writer[p.tx]
    <3> SUFFICES ASSUME NEW r \in DOMAIN rooms', NEW p \in rooms'[r].peers
                 PROVE  /\ p.tx \in rest /\ pc'[p.tx] = pc[p.tx] /\ id'[p.tx] = id[p.tx]
                        /\ writer'[p.tx] = writer[p.tx]
      OBVIOUS
    <3>1. p.tx \in rest /\ p.tx # c
      BY <1>2, <1>3, <2>2
    <3>2. p.tx \in Conn
      BY <2>2, <2>6, PeerFacts
    <3> QED BY <3>1, <3>2 DEF Cleanup, Locals
  <2> HIDE DEF rest
  <2>8. /\ before' = Among(before, rest) /\ announced' = Among(announced, rest)
        /\ missed' = Among(missed, rest) /\ room' = room
    BY DEF Cleanup, rest
  <2>9. DOMAIN rooms' \subseteq DOMAIN rooms
    BY <2>2
  <2> QED BY <1>1, <2>5, <2>6, <2>7, <2>8, <2>9, PeersLeave
<1> QED BY <1>5, <1>6

(* The background task keeps a subset of every room and no empty room.     *)
LEMMA EvictIdleMembership ==
  ASSUME Locals, Membership, EvictIdle
  PROVE  Locals' /\ Membership'
<1>1. PICK idle \in SUBSET Registered :
        LET gone == idle \cup {c \in Registered : ~Accepts(c, chan)}
            kept == [r \in DOMAIN rooms |-> {p \in rooms[r].peers : p.tx \notin gone}]
        IN  /\ rooms' = [r \in {q \in DOMAIN rooms : kept[q] # {}} |->
                           [rooms[r] EXCEPT !.peers = kept[r]]]
            /\ before' = Among(before, Registered \ gone)
            /\ announced' = Among(announced, Registered \ gone)
            /\ missed' = Among(missed, Registered \ gone)
            /\ UNCHANGED <<writer, pc, room, id>>
  BY DEF EvictIdle
<1> DEFINE gone == idle \cup {c \in Registered : ~Accepts(c, chan)}
           kept(r) == {p \in rooms[r].peers : p.tx \notin gone}
           rest == Registered \ gone
<1>2. rooms' = [r \in {q \in DOMAIN rooms : kept(q) # {}} |->
                  [rooms[r] EXCEPT !.peers = kept(r)]]
  BY <1>1
<1>3. Locals'
  BY <1>1 DEF Locals
<1>4. \A r \in DOMAIN rooms' :
        /\ r \in DOMAIN rooms /\ rooms'[r].next_id = rooms[r].next_id
        /\ rooms'[r].peers = kept(r) /\ kept(r) # {}
  BY <1>2, PeerFacts DEF RoomState
<1>5. RoomsType'
  <2>1. PICK R \in SUBSET Room : rooms \in [R -> RoomState]
    BY DEF Membership, RoomsType
  <2>2. \A r \in R : [rooms[r] EXCEPT !.peers = kept(r)] \in RoomState
    BY <2>1 DEF RoomState
  <2> HIDE DEF gone, kept
  <2>3. rooms' \in [{q \in R : kept(q) # {}} -> RoomState]
    BY <1>2, <2>1, <2>2
  <2>4. {q \in R : kept(q) # {}} \in SUBSET Room
    BY <2>1
  <2> QED BY <2>3, <2>4 DEF RoomsType
<1>6. \A r \in DOMAIN rooms' : \A p \in rooms'[r].peers :
        /\ p.tx \in rest /\ pc'[p.tx] = pc[p.tx] /\ id'[p.tx] = id[p.tx]
        /\ writer'[p.tx] = writer[p.tx]
  BY <1>1, <1>4, RegisteredFacts
<1>7. \A r \in DOMAIN rooms' :
        /\ rooms'[r].next_id = rooms[r].next_id
        /\ rooms'[r].peers \subseteq rooms[r].peers /\ rooms'[r].peers # {}
  BY <1>4
<1>8. /\ before' = Among(before, rest) /\ announced' = Among(announced, rest)
      /\ missed' = Among(missed, rest) /\ room' = room
  BY <1>1
<1>9. DOMAIN rooms' \subseteq DOMAIN rooms
  BY <1>4
<1> HIDE DEF rest, gone, kept
<1> QED BY <1>3, <1>5, <1>6, <1>7, <1>8, <1>9, PeersLeave

-----------------------------------------------------------------------------
(* What add_peer leaves in room r: at most one of the peers that could be  *)
(* reached, when there were two, makes way for the newcomer.               *)
LEMMA VictimSize ==
  ASSUME NEW L, IsFiniteSet(L), Cardinality(L) <= 2, NEW out \in Victims(L), NEW x
  PROVE  /\ out \subseteq L
         /\ IsFiniteSet((L \ out) \cup {x})
         /\ Cardinality((L \ out) \cup {x}) <= 2
<1>1. Cardinality(L) \in Nat
  BY FS_CardinalityType
<1>2. out \subseteq L /\ IsFiniteSet(L \ out) /\ Cardinality(L \ out) <= 1
  <2>1. CASE Cardinality(L) >= 2
    <3>1. PICK p \in L : out = {p}
      BY <2>1 DEF Victims, LeastActive
    <3>2. L \ out = L \ {p} /\ p \in L
      BY <3>1
    <3>3. IsFiniteSet(L \ {p}) /\ Cardinality(L \ {p}) = Cardinality(L) - 1
      BY <3>2, FS_RemoveElement
    <3> QED BY <1>1, <3>1, <3>2, <3>3
  <2>2. CASE ~(Cardinality(L) >= 2)
    <3>1. out = {} /\ L \ out = L
      BY <2>2 DEF Victims
    <3> QED BY <1>1, <2>2, <3>1
  <2> QED BY <2>1, <2>2
<1>3. Cardinality(L \ out) \in Nat
  BY <1>2, FS_CardinalityType
<1>4. /\ IsFiniteSet((L \ out) \cup {x})
      /\ Cardinality((L \ out) \cup {x}) \in {Cardinality(L \ out), Cardinality(L \ out) + 1}
  BY <1>2, FS_AddElement
<1> QED BY <1>2, <1>3, <1>4

(* A newcomer's registration keeps the membership part: it may replace one *)
(* peer, drops the unreachable ones and takes a new number.                *)
LEMMA RegisterMembership ==
  ASSUME Locals, Membership, NEW c \in Conn, NEW r \in Room, Register(c, r)
  PROVE  Locals' /\ Membership'
<1> DEFINE live == {p \in Peers(r) : Accepts(p.tx, chan)}
           rest(out) == Registered \ Txs((Peers(r) \ live) \cup out)
<1>1. PICK out \in Victims(live) :
        /\ rooms' = [q \in DOMAIN rooms \cup {r} |->
                       IF q = r THEN AddPeer(r, live \ out, c) ELSE rooms[q]]
        /\ before' = Among(before, rest(out)) \cup (rest(out) \X {c})
        /\ announced' = Among(announced, rest(out))
        /\ missed' = Among(missed, rest(out))
  BY DEF Register
<1>2. /\ writer' = [writer EXCEPT ![c] = "up"]
      /\ pc[c] = "new" /\ pc' = [pc EXCEPT ![c] = "joined"]
      /\ room' = [room EXCEPT ![c] = r]
      /\ id' = [id EXCEPT ![c] = NextId(r)]
  BY DEF Register
<1> DEFINE stay == rest(out)
           new  == [id |-> NextId(r), tx |-> c]
           S    == live \ out
<1>3. NextId(r) \in Nat
  BY PeerFacts DEF NextId
<1>4. Locals'
  BY <1>2, <1>3 DEF Locals, PC
<1>5. Registered \subseteq Conn /\ c \notin Registered
  <2>1. c \in Registered => \E p \in Peers(room[c]) : p.tx = c /\ room[c] \in DOMAIN rooms
    BY RegisteredFacts
  <2> QED BY <1>2, <2>1, PeerFacts, RegisteredFacts DEF Peers
<1>6. \A p \in Peers(r) : /\ p \in Peer /\ p.tx \in Registered /\ p.id \in Nat
                          /\ p.id < NextId(r) /\ r \in DOMAIN rooms
                          /\ room[p.tx] = r /\ id[p.tx] = p.id
                          /\ pc[p.tx] \notin {"new", "done"}
  BY PeerFacts, RegisteredFacts DEF Peers, NextId, Membership, NumbersUnique
<1>7. S \subseteq Peers(r) /\ out \subseteq live
  BY DEF Victims, LeastActive
<1>8. /\ r \in DOMAIN rooms' /\ rooms'[r].next_id = NextId(r) + 1
      /\ rooms'[r].peers = S \cup {new}
      /\ DOMAIN rooms' = DOMAIN rooms \cup {r}
      /\ \A q \in DOMAIN rooms' : q # r => q \in DOMAIN rooms /\ rooms'[q] = rooms[q]
  BY <1>1 DEF AddPeer
<1>9. \A p \in S : p.tx \in stay
  <2> SUFFICES ASSUME NEW p \in S, NEW q \in (Peers(r) \ live) \cup out, p.tx = q.tx
               PROVE  FALSE
    BY <1>6, <1>7 DEF Txs
  <2>1. p.id = q.id
    BY <1>6, <1>7
  <2>2. p = q
    <3>1. r \in DOMAIN rooms /\ p \in rooms[r].peers /\ q \in rooms[r].peers
      BY <1>6, <1>7 DEF Peers
    <3> QED BY <2>1, <3>1 DEF Membership, NumbersUnique
  <2> QED BY <2>2
<1>10. \A q \in DOMAIN rooms : \A p \in rooms[q].peers :
         q # r => p.tx \in stay
  <2> SUFFICES ASSUME NEW q \in DOMAIN rooms, NEW p \in rooms[q].peers, q # r
               PROVE  p.tx \in stay
    OBVIOUS
  <2>1. p.tx \in Registered /\ room[p.tx] = q
    BY PeerFacts, RegisteredFacts
  <2>2. \A o \in (Peers(r) \ live) \cup out : room[o.tx] = r
    BY <1>6, <1>7
  <2> QED BY <2>1, <2>2 DEF Txs
<1>11. stay \subseteq Registered /\ c \notin stay
  BY <1>5
<1>12. /\ before' = Among(before, stay) \cup (stay \X {c})
       /\ announced' = Among(announced, stay) /\ missed' = Among(missed, stay)
  BY <1>1
<1>13. /\ IsFiniteSet(live) /\ Cardinality(live) <= 2
  <2>1. IsFiniteSet(Peers(r)) /\ Cardinality(Peers(r)) <= 2
    BY FS_EmptySet DEF Peers, Membership, SmallRooms
  <2>2. live \subseteq Peers(r)
    OBVIOUS
  <2> HIDE DEF live
  <2>3. IsFiniteSet(live) /\ Cardinality(live) <= Cardinality(Peers(r))
    BY <2>1, <2>2, FS_Subset
  <2> QED BY <2>1, <2>3, FS_CardinalityType
<1>14. \A p, q \in S : p.id = q.id => p = q
  BY <1>6, <1>7 DEF Peers, Membership, NumbersUnique
<1> HIDE DEF live, rest, stay, S
<1>15. IsFiniteSet(S \cup {new}) /\ Cardinality(S \cup {new}) <= 2
  <2> HIDE DEF new
  <2> QED BY <1>13, VictimSize DEF S
<1>16. RoomsType'
  <2>1. PICK R \in SUBSET Room : rooms \in [R -> RoomState]
    BY DEF Membership, RoomsType
  <2>2. S \cup {new} \subseteq Peer
    BY <1>3, <1>6, <1>7 DEF Peer
  <2>3. AddPeer(r, S, c) \in RoomState
    BY <1>3, <2>2 DEF AddPeer, RoomState
  <2>4. rooms' = [q \in R \cup {r} |-> IF q = r THEN AddPeer(r, S, c) ELSE rooms[q]]
    BY <1>1, <2>1 DEF S
  <2>5. rooms' \in [R \cup {r} -> RoomState]
    BY <2>1, <2>3, <2>4
  <2> QED BY <2>5 DEF RoomsType
<1>17. /\ before' \subseteq Conn \X Conn /\ announced' \subseteq Conn \X Conn
       /\ missed' \subseteq Conn \X Conn
  BY <1>5, <1>11, <1>12 DEF Among, Membership
<1>18. \A x, y \in stay : /\ <<x, y>> \in before' <=> <<x, y>> \in before
                          /\ <<x, y>> \in Offered' <=> <<x, y>> \in Offered
  BY <1>11, <1>12 DEF Among, Offered
<1>19. \A x \in stay : <<x, c>> \in before' /\ <<c, x>> \notin before'
  BY <1>11, <1>12 DEF Among
<1>20. Ordered'
  <2> SUFFICES ASSUME NEW q \in DOMAIN rooms',
                      NEW p \in rooms'[q].peers, NEW o \in rooms'[q].peers, p # o
               PROVE  <<p.tx, o.tx>> \in before' <=> <<o.tx, p.tx>> \notin before'
    BY DEF Ordered
  <2>1. CASE q # r
    BY <1>8, <1>10, <1>18, <2>1 DEF Membership, Ordered
  <2>2. CASE q = r /\ p \in S /\ o \in S
    <3>1. r \in DOMAIN rooms /\ p \in rooms[r].peers /\ o \in rooms[r].peers
      BY <1>6, <1>7, <2>2 DEF Peers
    <3> QED BY <1>9, <1>18, <2>2, <3>1 DEF Membership, Ordered
  <2>3. CASE q = r /\ (p = new \/ o = new)
    BY <1>8, <1>9, <1>19, <2>3
  <2> QED BY <1>8, <2>1, <2>2, <2>3
<1>21. SmallRooms'
  BY <1>8, <1>15 DEF SmallRooms, Membership
<1>22. NumbersUnique'
  <2> SUFFICES ASSUME NEW q \in DOMAIN rooms',
                      NEW p \in rooms'[q].peers, NEW o \in rooms'[q].peers
               PROVE  p.id < rooms'[q].next_id /\ (p.id = o.id => p = o)
    BY DEF NumbersUnique
  <2>1. CASE q # r
    BY <1>8, <2>1 DEF Membership, NumbersUnique
  <2>2. CASE q = r
    <3>1. \A s \in S : s.id \in Nat /\ s.id < NextId(r)
      BY <1>6, <1>7
    <3> QED BY <1>3, <1>8, <1>14, <2>2, <3>1
  <2> QED BY <2>1, <2>2
<1>23. NoGhostPeer'
  <2> SUFFICES ASSUME NEW q \in DOMAIN rooms', NEW p \in rooms'[q].peers
               PROVE  /\ room'[p.tx] = q /\ id'[p.tx] = p.id
                      /\ pc'[p.tx] \notin {"new", "done"}
    BY DEF NoGhostPeer
  <2>1. CASE q # r
    <3>1. q \in DOMAIN rooms /\ p \in rooms[q].peers
      BY <1>8, <2>1
    <3>2. p.tx # c /\ p.tx \in Conn
      BY <1>5, <3>1, PeerFacts, RegisteredFacts
    <3> QED BY <1>2, <3>1, <3>2, PeerFacts DEF Locals
  <2>2. CASE q = r /\ p \in S
    <3>1. p.tx # c /\ p.tx \in Conn
      BY <1>5, <1>6, <1>7, <2>2
    <3> QED BY <1>2, <1>6, <1>7, <2>2, <3>1 DEF Locals
  <2>3. CASE q = r /\ p = new
    BY <1>2, <2>3 DEF Locals
  <2> QED BY <1>8, <2>1, <2>2, <2>3
<1>24. NoEmptyRoom'
  BY <1>8 DEF Membership, NoEmptyRoom
<1>25. LaterOffered'
  <2> SUFFICES ASSUME NEW q \in DOMAIN rooms',
                      NEW p \in rooms'[q].peers, NEW o \in rooms'[q].peers,
                      p.id < o.id, Settled(o.tx)',
                      writer'[p.tx] = "up", writer'[o.tx] = "up"
               PROVE  <<o.tx, p.tx>> \in Offered'
    BY DEF LaterOffered
  <2>1. o.tx # c
    BY <1>2 DEF Settled, Locals
  <2>2. Settled(o.tx)
    BY <1>2, <2>1 DEF Settled, Locals
  <2>3. \A d \in Conn : d # c => writer'[d] = writer[d]
    BY <1>2 DEF Locals
  <2>4. CASE q # r
    <3>1. q \in DOMAIN rooms /\ rooms'[q] = rooms[q]
      BY <1>8, <2>4
    <3>2. p.tx \in stay /\ o.tx \in stay
      BY <1>10, <2>4, <3>1
    <3>3. writer[p.tx] = "up" /\ writer[o.tx] = "up"
      BY <1>5, <1>11, <2>3, <3>2
    <3>4. <<o.tx, p.tx>> \in Offered
      BY <2>2, <3>1, <3>3 DEF Membership, LaterOffered
    <3> QED BY <1>18, <3>2, <3>4
  <2>5. CASE q = r
    <3>1. o \in S
      BY <1>8, <2>1, <2>5
    <3>2. p \in S
      <4>1. o.id \in Nat /\ o.id < NextId(r)
        BY <1>6, <1>7, <3>1
      <4> QED BY <1>3, <1>8, <2>5, <4>1
    <3>3. r \in DOMAIN rooms /\ p \in rooms[r].peers /\ o \in rooms[r].peers
      BY <1>6, <1>7, <3>1, <3>2 DEF Peers
    <3>4. p.tx \in stay /\ o.tx \in stay
      BY <1>9, <3>1, <3>2
    <3>5. writer[p.tx] = "up" /\ writer[o.tx] = "up"
      BY <1>5, <1>11, <2>3, <3>4
    <3>6. <<o.tx, p.tx>> \in Offered
      BY <2>2, <3>3, <3>5 DEF Membership, LaterOffered
    <3> QED BY <1>18, <3>4, <3>6
  <2> QED BY <2>4, <2>5
<1> QED BY <1>4, <1>16, <1>17, <1>20, <1>21, <1>22, <1>23, <1>24, <1>25 DEF Membership

-----------------------------------------------------------------------------
(* Proper in the state after a step.                                       *)
ProperNext(c, m) ==
  m.type = "frame" =>
    /\ m.from # c /\ room'[m.from] = room'[c]
    /\ pc'[m.from] # "new" /\ pc'[c] # "new"

(* What a step adds to a channel is proper, and a connection once read     *)
(* from keeps its room: then every channel stays bounded and proper.       *)
LEMMA ChannelStep ==
  ASSUME Channels, chan' \in [Conn -> Seq(Message)],
         \A c \in Conn : Len(chan'[c]) <= Capacity,
         \A c \in Conn : pc'[c] = "new" => pc[c] = "new" /\ chan'[c] = chan[c],
         \A c \in Conn : pc[c] # "new" => pc'[c] # "new" /\ room'[c] = room[c],
         \A c \in Conn : \A k \in DOMAIN chan'[c] :
           \/ \E j \in DOMAIN chan[c] : chan'[c][k] = chan[c][j]
           \/ ProperNext(c, chan'[c][k])
  PROVE  Channels'
<1>1. ASSUME NEW c \in Conn, NEW k \in DOMAIN chan'[c]
      PROVE  ProperNext(c, chan'[c][k])
  <2>1. CASE \E j \in DOMAIN chan[c] : chan'[c][k] = chan[c][j]
    <3>1. PICK j \in DOMAIN chan[c] : chan'[c][k] = chan[c][j]
      BY <2>1
    <3>2. Proper(c, chan[c][j]) /\ chan[c][j] \in Message
      BY DEF Channels
    <3>3. chan[c][j].type = "frame" => chan[c][j].from \in Conn
      BY <3>2, FrameSender
    <3> QED BY <3>1, <3>2, <3>3 DEF Proper, ProperNext, Channels
  <2> QED BY <2>1
<1> QED BY <1>1 DEF Channels, Proper, ProperNext

(* Sending one message to the channels of S is such a step.                *)
LEMMA OfferChannels ==
  ASSUME Channels, NEW ch \in [Conn -> Seq(Message)],
         \A c \in Conn : Len(ch[c]) <= Capacity,
         \A c \in Conn : \A k \in DOMAIN ch[c] :
           (\E j \in DOMAIN chan[c] : ch[c][k] = chan[c][j]) \/ ProperNext(c, ch[c][k]),
         NEW S, NEW m \in Message, \A c \in S : ProperNext(c, m)
  PROVE  /\ Offer(ch, S, m) \in [Conn -> Seq(Message)]
         /\ \A c \in Conn : Len(Offer(ch, S, m)[c]) <= Capacity
         /\ \A c \in Conn : c \notin S => Offer(ch, S, m)[c] = ch[c]
         /\ \A c \in Conn : \A k \in DOMAIN Offer(ch, S, m)[c] :
              \/ \E j \in DOMAIN chan[c] : Offer(ch, S, m)[c][k] = chan[c][j]
              \/ ProperNext(c, Offer(ch, S, m)[c][k])
<1> DEFINE new == Offer(ch, S, m)
<1>1. /\ new \in [Conn -> Seq(Message)]
      /\ \A c \in Conn : \/ new[c] = ch[c]
                         \/ /\ c \in S /\ Len(ch[c]) < Capacity
                            /\ new[c] = Append(ch[c], m)
  BY OfferSpec
<1> HIDE DEF new
<1>2. ASSUME NEW c \in Conn PROVE Len(new[c]) <= Capacity
  <2>1. CASE new[c] = ch[c]
    BY <2>1
  <2>2. CASE Len(ch[c]) < Capacity /\ new[c] = Append(ch[c], m)
    <3>1. Len(new[c]) = Len(ch[c]) + 1 /\ Len(ch[c]) \in Nat
      BY <2>2
    <3> QED BY <2>2, <3>1, CapacityAssumption
  <2> QED BY <1>1, <2>1, <2>2
<1>3. ASSUME NEW c \in Conn, NEW k \in DOMAIN new[c]
      PROVE  \/ \E j \in DOMAIN chan[c] : new[c][k] = chan[c][j]
             \/ ProperNext(c, new[c][k])
  <2>1. CASE new[c] = ch[c]
    BY <2>1
  <2>2. CASE c \in S /\ new[c] = Append(ch[c], m)
    <3>1. DOMAIN new[c] = 1 .. (Len(ch[c]) + 1) /\ DOMAIN ch[c] = 1 .. Len(ch[c])
      BY <2>2
    <3>2. CASE k = Len(ch[c]) + 1
      <4>1. new[c][k] = m
        BY <2>2, <3>2
      <4> QED BY <2>2, <4>1
    <3>3. CASE k # Len(ch[c]) + 1
      <4>1. k \in DOMAIN ch[c]
        BY <3>1, <3>3
      <4>2. new[c][k] = ch[c][k]
        BY <2>2, <3>1, <4>1
      <4> QED BY <4>1, <4>2
    <3> QED BY <3>2, <3>3
  <2> QED BY <1>1, <2>1, <2>2
<1>4. \A c \in Conn : c \notin S => new[c] = ch[c]
  BY <1>1
<1> QED BY <1>1, <1>2, <1>3, <1>4 DEF new

(* Anything but a frame is proper anywhere.                                *)
LEMMA NoFrame == ASSUME NEW m, m.type # "frame", NEW c PROVE ProperNext(c, m)
  BY DEF ProperNext

(* One channel operation by a handler that is not new.                     *)
LEMMA OneOffer ==
  ASSUME Locals, Membership, Channels, NEW c \in Conn, NEW S, NEW m \in Message,
         chan' = Offer(chan, S, m),
         pc[c] # "new", NEW at, at # "new", pc' = [pc EXCEPT ![c] = at],
         room' = room,
         \A d \in S : ProperNext(d, m),
         \A d \in S : pc[d] # "new"
  PROVE  Channels'
<1>1. /\ chan \in [Conn -> Seq(Message)]
      /\ \A d \in Conn : Len(chan[d]) <= Capacity
      /\ \A d \in Conn : pc[d] = "new" => chan[d] = <<>>
  BY DEF Channels
<1>2. \A d \in Conn : \A k \in DOMAIN chan[d] :
        (\E j \in DOMAIN chan[d] : chan[d][k] = chan[d][j]) \/ ProperNext(d, chan[d][k])
  OBVIOUS
<1>3. /\ chan' \in [Conn -> Seq(Message)]
      /\ \A d \in Conn : Len(chan'[d]) <= Capacity
      /\ \A d \in Conn : d \notin S => chan'[d] = chan[d]
      /\ \A d \in Conn : \A k \in DOMAIN chan'[d] :
           \/ \E j \in DOMAIN chan[d] : chan'[d][k] = chan[d][j]
           \/ ProperNext(d, chan'[d][k])
  <2> DEFINE new == Offer(chan, S, m)
  <2>1. /\ new \in [Conn -> Seq(Message)]
        /\ \A d \in Conn : Len(new[d]) <= Capacity
        /\ \A d \in Conn : d \notin S => new[d] = chan[d]
        /\ \A d \in Conn : \A k \in DOMAIN new[d] :
             \/ \E j \in DOMAIN chan[d] : new[d][k] = chan[d][j]
             \/ ProperNext(d, new[d][k])
    BY <1>1, <1>2, OfferChannels
  <2> QED BY <2>1
<1>4. /\ \A d \in Conn : pc'[d] = "new" => pc[d] = "new" /\ chan'[d] = chan[d]
      /\ \A d \in Conn : pc[d] # "new" => pc'[d] # "new" /\ room'[d] = room[d]
  BY <1>3 DEF Locals
<1> QED BY <1>3, <1>4, ChannelStep

(* Steps that touch no channel, and those that only shorten one.           *)
LEMMA ChannelsShrink ==
  ASSUME Channels, NEW c \in Conn, chan' = chan \/ chan' = [chan EXCEPT ![c] = Tail(@)]
                                               \/ chan' = [chan EXCEPT ![c] = <<>>],
         chan' # chan => chan[c] # <<>>,
         \A d \in Conn : pc'[d] = "new" => pc[d] = "new",
         \A d \in Conn : pc[d] # "new" => pc'[d] # "new" /\ room'[d] = room[d]
  PROVE  Channels'
<1>1. /\ chan \in [Conn -> Seq(Message)]
      /\ \A d \in Conn : Len(chan[d]) <= Capacity
      /\ \A d \in Conn : pc[d] = "new" => chan[d] = <<>>
  BY DEF Channels
<1>2. CASE chan' = chan
  BY <1>1, <1>2, ChannelStep
<1>3. CASE chan' # chan
  <2>1. pc[c] # "new" /\ chan[c] # <<>>
    BY <1>1, <1>3
  <2>2. \A d \in Conn : d # c => chan'[d] = chan[d]
    BY <1>1, <1>3
  <2>3. chan'[c] = <<>> \/ chan'[c] = Tail(chan[c])
    BY <1>1, <1>3
  <2>4. /\ chan'[c] \in Seq(Message) /\ Len(chan'[c]) <= Capacity
        /\ \A k \in DOMAIN chan'[c] : \E j \in DOMAIN chan[c] : chan'[c][k] = chan[c][j]
    <3>1. CASE chan'[c] = <<>>
      BY <3>1, CapacityAssumption
    <3>2. CASE chan'[c] = Tail(chan[c])
      <4> DEFINE s == chan[c]
      <4>1. s \in Seq(Message) /\ s # <<>> /\ Len(s) <= Capacity
        BY <1>1, <2>1
      <4> HIDE DEF s
      <4>2. /\ Tail(s) \in Seq(Message) /\ Len(Tail(s)) = Len(s) - 1
            /\ Len(s) \in Nat /\ DOMAIN s = 1 .. Len(s)
            /\ DOMAIN Tail(s) = 1 .. (Len(s) - 1)
            /\ \A k \in 1 .. (Len(s) - 1) : Tail(s)[k] = s[k + 1]
        BY <4>1
      <4>3. \A k \in 1 .. (Len(s) - 1) : k + 1 \in 1 .. Len(s)
        BY <4>2
      <4>4. Len(Tail(s)) <= Capacity
        BY <4>1, <4>2, CapacityAssumption
      <4>5. \A k \in DOMAIN Tail(s) : \E j \in DOMAIN s : Tail(s)[k] = s[j]
        BY <4>2, <4>3
      <4> QED BY <3>2, <4>2, <4>4, <4>5 DEF s
    <3> QED BY <2>3, <3>1, <3>2
  <2>5. chan' \in [Conn -> Seq(Message)]
    <3>1. CASE chan' = [chan EXCEPT ![c] = <<>>]
      BY <1>1, <3>1
    <3>2. CASE chan' = [chan EXCEPT ![c] = Tail(@)]
      BY <1>1, <2>4, <3>2
    <3> QED BY <1>3, <3>1, <3>2
  <2>6. ASSUME NEW d \in Conn
        PROVE  /\ Len(chan'[d]) <= Capacity
               /\ pc'[d] = "new" => pc[d] = "new" /\ chan'[d] = chan[d]
               /\ \A k \in DOMAIN chan'[d] :
                    \E j \in DOMAIN chan[d] : chan'[d][k] = chan[d][j]
    BY <1>1, <2>1, <2>2, <2>4
  <2> QED BY <2>5, <2>6, ChannelStep
<1> QED BY <1>2, <1>3

-----------------------------------------------------------------------------
(* An empty relay satisfies the invariant.                                 *)
LEMMA InitInv == Init => Inv
<1> SUFFICES ASSUME Init PROVE Inv
  OBVIOUS
<1>1. (CHOOSE r \in Room : TRUE) \in Room
  BY RoomAssumption
<1>2. Locals
  BY <1>1 DEF Init, Locals, PC
<1>3. DOMAIN rooms = {} /\ rooms \in [{} -> RoomState]
  BY DEF Init
<1>4. Membership
  BY <1>3 DEF Init, Membership, RoomsType, Ordered, SmallRooms, NumbersUnique,
              NoGhostPeer, NoEmptyRoom, LaterOffered
<1>5. Channels
  BY CapacityAssumption DEF Init, Channels
<1> QED BY <1>2, <1>4, <1>5 DEF Inv

(* Joining.                                                                *)
LEMMA RejectInv == ASSUME Inv, NEW c \in Conn, Reject(c) PROVE Inv'
<1> USE DEF Inv
<1>1. Locals'
  BY DEF Reject, Locals, PC
<1>2. c \notin Registered
  BY RegisteredFacts, PeerFacts DEF Reject, Peers
<1>3. Membership'
  <2>1. /\ rooms' = rooms /\ room' = room /\ id' = id
        /\ before' = before /\ before \subseteq Conn \X Conn /\ Ordered
    BY DEF Reject, Membership
  <2>2. \A d \in Registered : pc'[d] = pc[d] /\ pc[d] \notin {"new", "done"}
    BY <1>2, RegisteredFacts, PeerFacts DEF Reject, Peers, Locals
  <2>3. \A d \in Registered : Settled(d)' => Settled(d)
    BY <2>2 DEF Settled
  <2>4. Ordered'
    BY <2>1 DEF Ordered
  <2>5. OffersStay
    BY OffersUntouched DEF Reject
  <2> QED BY <1>1, <2>1, <2>2, <2>3, <2>4, <2>5, SameRooms
<1>4. Channels'
  BY ChannelsShrink DEF Reject, Locals
<1> QED BY <1>1, <1>3, <1>4

(* A handler in the loop, or on the way into it, moves on.  Its activity   *)
(* may be updated.                                                         *)
LEMMA HandlerMoves ==
  ASSUME Locals, Membership, NEW c \in Conn, NEW at \in PC \ {"new", "done"},
         pc[c] # "new", pc' = [pc EXCEPT ![c] = at],
         pc[c] \in {"joined", "greeted"} => at \in {"joined", "greeted"},
         writer' \in [Conn -> {"none", "up", "down"}],
         UNCHANGED <<rooms, room, id>>, OffersStay,
         before' = before \/ Refresh(c)
  PROVE  Locals' /\ Membership'
<1>1. Locals'
  BY DEF Locals
<1>2. Ordered' /\ before' \subseteq Conn \X Conn
  <2>1. CASE before' = before
    BY <2>1 DEF Membership, Ordered
  <2>2. CASE Refresh(c)
    BY <2>2, RefreshOrders
  <2> QED BY <2>1, <2>2
<1>3. \A d \in Registered : d \in Conn /\ pc[d] \notin {"new", "done"}
  BY RegisteredFacts, PeerFacts DEF Peers
<1>4. \A d \in Registered : pc'[d] \notin {"new", "done"} /\ (Settled(d)' => Settled(d))
  BY <1>3 DEF Settled, Locals, PC
<1> QED BY <1>1, <1>2, <1>4, SameRooms

(* Sending the token keeps the invariant.                                  *)
LEMMA SendAuthInv == ASSUME Inv, NEW c \in Conn, SendAuth(c) PROVE Inv'
<1> USE DEF Inv
<1>1. /\ pc[c] = "joined" /\ pc' = [pc EXCEPT ![c] = "greeted"]
      /\ chan' = Offer(chan, {c}, Auth(c)) /\ room' = room
  BY DEF SendAuth
<1>2. Locals' /\ Membership'
  BY <1>1, HandlerMoves, OffersUntouched DEF SendAuth, Locals, PC
<1>3. Channels'
  <2> DEFINE S == {c}
  <2>1. Auth(c) \in Message /\ \A d \in S : ProperNext(d, Auth(c)) /\ pc[d] # "new"
    BY <1>1, Messages DEF ProperNext
  <2>2. chan' = Offer(chan, S, Auth(c))
    BY <1>1
  <2> HIDE DEF S
  <2> QED BY <1>1, <2>1, <2>2, OneOffer
<1> QED BY <1>2, <1>3

(* Offering the join keeps the invariant; it is what makes the newcomer    *)
(* settled.                                                                *)
LEMMA NotifyJoinInv == ASSUME Inv, NEW c \in Conn, NotifyJoin(c) PROVE Inv'
<1> USE DEF Inv
<1> DEFINE S == Txs(Others(c))
<1>1. /\ pc[c] = "greeted" /\ pc' = [pc EXCEPT ![c] = "reading"]
      /\ chan' = Offer(chan, S, Join) /\ UNCHANGED <<rooms, before, writer, room, id>>
      /\ announced' = announced \cup ({c} \X Reached(S))
      /\ missed' = missed \cup ({c} \X Full(S))
  BY DEF NotifyJoin, PassJoin
<1>2. Locals'
  BY <1>1 DEF Locals, PC
<1>3. S \subseteq Conn /\ \A d \in S : pc[d] # "new"
  BY FoundFacts, PeerFacts DEF Txs
<1>4. \A d \in S : writer[d] = "up" => d \in Reached(S) \cup Full(S)
  <2>1. \A d \in Conn : Len(chan[d]) \in Nat
    BY DEF Channels
  <2> QED BY <1>3, <2>1, CapacityAssumption DEF Reached, Full, Accepts
<1>5. Reached(S) \subseteq Conn /\ Full(S) \subseteq Conn
  BY <1>3 DEF Reached, Full
<1> HIDE DEF S
<1>6. Membership'
  <2>1. OffersStay
    BY <1>1, <1>5 DEF OffersStay, Offered, Membership
  <2>2. \A d \in Registered : d \in Conn /\ pc[d] \notin {"new", "done"}
    BY RegisteredFacts, PeerFacts DEF Peers
  <2>3. \A d \in Registered : pc'[d] \notin {"new", "done"}
    BY <1>1, <2>2 DEF Locals
  <2>4. \A d \in Registered : d # c /\ Settled(d)' => Settled(d)
    BY <1>1, <2>2 DEF Settled, Locals
  <2>5. \A p \in Others(c) : writer'[p.tx] = "up" => <<c, p.tx>> \in Offered'
    <3>1. \A p \in Others(c) : p.tx \in S
      BY DEF S, Txs
    <3> QED BY <1>1, <1>4, <3>1 DEF Offered
  <2>6. Ordered' /\ before' \subseteq Conn \X Conn
    BY <1>1 DEF Ordered, Membership
  <2> QED BY <1>1, <1>2, <2>1, <2>3, <2>4, <2>5, <2>6, SameRooms
<1>7. Channels'
  <2>1. Join \in Message /\ \A d : ProperNext(d, Join)
    BY Messages DEF ProperNext
  <2> QED BY <1>1, <1>3, <2>1, OneOffer
<1> QED BY <1>2, <1>6, <1>7

(* The write task.                                                         *)
LEMMA WriterInv == ASSUME Inv, NEW c \in Conn, Deliver(c) \/ WriterEnds(c) PROVE Inv'
<1> USE DEF Inv
<1>1. /\ pc[c] \in {"reading", "ponged", "checked", "closing"}
      /\ pc' = pc /\ UNCHANGED <<rooms, before, room, id>>
  BY DEF Deliver, WriterEnds, Spawned
<1>2. pc' = [pc EXCEPT ![c] = pc[c]]
  BY <1>1 DEF Locals
<1>3. Locals' /\ Membership'
  <2>1. writer' \in [Conn -> {"none", "up", "down"}]
    BY DEF Deliver, WriterEnds, Locals
  <2>2. pc[c] \in PC \ {"new", "done"} /\ pc[c] # "new"
    BY <1>1 DEF PC
  <2>3. pc[c] \in {"joined", "greeted"} => pc[c] \in {"joined", "greeted"}
    OBVIOUS
  <2>4. OffersStay
    <3>1. CASE Deliver(c)
      BY <3>1, OffersUntouched DEF Deliver
    <3>2. CASE WriterEnds(c)
      <4>1. /\ writer' = [writer EXCEPT ![c] = "down"]
            /\ announced' = Among(announced, Conn \ {c})
            /\ missed' = Among(missed, Conn \ {c})
        BY <3>2 DEF WriterEnds
      <4>2. \A d \in Conn : writer'[d] = "up" => d # c /\ writer[d] = "up"
        BY <4>1 DEF Locals
      <4>3. Registered \subseteq Conn
        BY RegisteredFacts
      <4> QED BY <4>1, <4>2, <4>3 DEF OffersStay, Offered, Among, Membership
    <3> QED BY <3>1, <3>2
  <2> QED BY <1>1, <1>2, <2>1, <2>2, <2>3, <2>4, HandlerMoves
<1>4. Channels'
  <2>1. chan' = [chan EXCEPT ![c] = Tail(@)] \/ chan' = [chan EXCEPT ![c] = <<>>]
    BY DEF Deliver, WriterEnds
  <2>2. chan' # chan => chan[c] # <<>>
    BY DEF Deliver, WriterEnds, Channels
  <2> QED BY <1>1, <2>1, <2>2, ChannelsShrink
<1> QED BY <1>3, <1>4

(* The read loop.                                                          *)
LEMMA ReadPingInv == ASSUME Inv, NEW c \in Conn, ReadPing(c) PROVE Inv'
<1> USE DEF Inv
<1>1. /\ pc[c] = "reading" /\ pc' = [pc EXCEPT ![c] = "ponged"]
      /\ chan' = Offer(chan, Txs(Found(c)), Control) /\ room' = room
  BY DEF ReadPing
<1>2. Locals' /\ Membership'
  BY <1>1, HandlerMoves, OffersUntouched DEF ReadPing, Locals, PC
<1>3. \A d \in Txs(Found(c)) : pc[d] # "new"
  BY FoundFacts, PeerFacts DEF Txs
<1>4. Channels'
  <2>1. Control \in Message /\ \A d : ProperNext(d, Control)
    BY Messages DEF ProperNext
  <2> QED BY <1>1, <1>3, <2>1, OneOffer
<1> QED BY <1>2, <1>4

(* Steps of the read loop that touch neither rooms nor channels keep the   *)
(* invariant.                                                              *)
LEMMA QuietReadInv ==
  ASSUME Inv, NEW c \in Conn,
         \/ TouchAfterPing(c) \/ ReadPong(c) \/ CheckToken(c)
         \/ StreamEnds(c) \/ WriterDied(c)
  PROVE  Inv'
<1> USE DEF Inv
<1>1. PICK at \in {"reading", "checked", "closing"} : pc' = [pc EXCEPT ![c] = at]
  <2>1. ReadPong(c) => pc' = [pc EXCEPT ![c] = "reading"]
    BY DEF ReadPong, Locals
  <2> QED BY <2>1 DEF TouchAfterPing, CheckToken, StreamEnds, WriterDied
<1>2. /\ pc[c] \in {"reading", "ponged"}
      /\ UNCHANGED <<rooms, chan, writer, room, id, announced, missed>>
      /\ before' = before \/ Refresh(c)
  BY DEF TouchAfterPing, ReadPong, CheckToken, StreamEnds, WriterDied
<1>3. Locals' /\ Membership'
  <2>1. at \in PC \ {"new", "done"}
    BY DEF PC
  <2>2. writer' \in [Conn -> {"none", "up", "down"}]
    BY <1>2 DEF Locals
  <2> QED BY <1>1, <1>2, <2>1, <2>2, HandlerMoves, OffersUntouched
<1>4. Channels'
  BY <1>1, <1>2, ChannelsShrink DEF Locals
<1> QED BY <1>3, <1>4

(* Forwarding a frame keeps the invariant: it goes to peers of the         *)
(* sender's room.                                                          *)
LEMMA ForwardInv ==
  ASSUME Inv, NEW c \in Conn, NEW at \in {"reading", "checked"}, ForwardFrom(c, at)
  PROVE  Inv'
<1> USE DEF Inv
<1>1. /\ pc[c] = at /\ pc' = [pc EXCEPT ![c] = "reading"]
      /\ chan' = Offer(chan, Txs(Others(c)), Frame(c)) /\ room' = room
      /\ Refresh(c)
  BY DEF ForwardFrom
<1>2. Locals' /\ Membership'
  BY <1>1, HandlerMoves, OffersUntouched DEF ForwardFrom, Locals, PC
<1>3. \A d \in Txs(Others(c)) :
        d \in Conn /\ d # c /\ pc[d] # "new" /\ room[d] = room[c]
  BY FoundFacts, PeerFacts DEF Txs
<1>4. Channels'
  <2>1. Frame(c) \in Message /\ Frame(c).from = c
    BY Messages
  <2>2. \A d \in Txs(Others(c)) : ProperNext(d, Frame(c))
    BY <1>1, <1>3, <2>1 DEF ProperNext, Locals
  <2> QED BY <1>1, <1>3, <2>1, <2>2, OneOffer
<1> QED BY <1>2, <1>4

-----------------------------------------------------------------------------
(* Registering offers twice: a ping to the room, then the notice to the    *)
(* evicted peer.                                                           *)
LEMMA RegisterInv ==
  ASSUME Inv, NEW c \in Conn, NEW r \in Room, Register(c, r) PROVE Inv'
<1> USE DEF Inv
<1> DEFINE pinged == Offer(chan, Txs(Peers(r)), Control)
           live   == {p \in Peers(r) : Accepts(p.tx, chan)}
<1>1. Locals' /\ Membership'
  BY RegisterMembership
<1>2. PICK out \in Victims(live) :
        \/ out = {} /\ chan' = pinged
        \/ \E v \in out : chan' = Offer(pinged, {v.tx}, PeerDisconnect(v.id))
  BY DEF Register
<1>3. pc[c] = "new" /\ pc' = [pc EXCEPT ![c] = "joined"] /\ room' = [room EXCEPT ![c] = r]
  BY DEF Register
<1>4. /\ chan \in [Conn -> Seq(Message)]
      /\ \A d \in Conn : Len(chan[d]) <= Capacity
      /\ \A d \in Conn : \A k \in DOMAIN chan[d] :
           (\E j \in DOMAIN chan[d] : chan[d][k] = chan[d][j])
             \/ ProperNext(d, chan[d][k])
  BY DEF Channels
<1>5. Control \in Message /\ \A d : ProperNext(d, Control)
  BY Messages DEF ProperNext
<1>6. \A p \in Peers(r) : p.tx \in Conn /\ p.id \in Nat /\ pc[p.tx] # "new"
  BY PeerFacts DEF Peers
<1>7. /\ pinged \in [Conn -> Seq(Message)]
      /\ \A d \in Conn : Len(pinged[d]) <= Capacity
      /\ \A d \in Conn : d \notin Txs(Peers(r)) => pinged[d] = chan[d]
      /\ \A d \in Conn : \A k \in DOMAIN pinged[d] :
           (\E j \in DOMAIN chan[d] : pinged[d][k] = chan[d][j])
             \/ ProperNext(d, pinged[d][k])
  BY <1>4, <1>5, OfferChannels
<1>8. \A d \in Conn : pc[d] = "new" => d \notin Txs(Peers(r))
  BY <1>6 DEF Txs
<1>9. out \subseteq Peers(r)
  BY DEF Victims, LeastActive
<1> HIDE DEF pinged, live
<1>10. /\ chan' \in [Conn -> Seq(Message)]
       /\ \A d \in Conn : Len(chan'[d]) <= Capacity
       /\ \A d \in Conn : pc[d] = "new" => chan'[d] = chan[d]
       /\ \A d \in Conn : \A k \in DOMAIN chan'[d] :
            (\E j \in DOMAIN chan[d] : chan'[d][k] = chan[d][j])
              \/ ProperNext(d, chan'[d][k])
  <2>1. CASE chan' = pinged
    BY <1>7, <1>8, <2>1
  <2>2. ASSUME NEW v \in out, chan' = Offer(pinged, {v.tx}, PeerDisconnect(v.id))
        PROVE  <1>10!:
    <3> DEFINE m   == PeerDisconnect(v.id)
               S   == {v.tx}
               new == Offer(pinged, S, m)
    <3>1. v.id \in Nat /\ pc[v.tx] # "new"
      BY <1>6, <1>9
    <3>2. m \in Message /\ \A d \in S : ProperNext(d, m)
      BY <3>1, Messages DEF ProperNext
    <3> HIDE DEF m
    <3>3. /\ new \in [Conn -> Seq(Message)]
          /\ \A d \in Conn : Len(new[d]) <= Capacity
          /\ \A d \in Conn : d \notin S => new[d] = pinged[d]
          /\ \A d \in Conn : \A k \in DOMAIN new[d] :
               (\E j \in DOMAIN chan[d] : new[d][k] = chan[d][j])
                 \/ ProperNext(d, new[d][k])
      <4> HIDE DEF S
      <4> QED BY <1>7, <3>2, OfferChannels
    <3>4. chan' = new
      BY <2>2 DEF m
    <3>5. \A d \in Conn : pc[d] = "new" => d \notin S
      BY <3>1
    <3> HIDE DEF new, S
    <3> QED BY <1>7, <1>8, <3>3, <3>4, <3>5
  <2> QED BY <1>2, <2>1, <2>2
<1>11. /\ \A d \in Conn : pc'[d] = "new" => pc[d] = "new" /\ chan'[d] = chan[d]
       /\ \A d \in Conn : pc[d] # "new" => pc'[d] # "new" /\ room'[d] = room[d]
  BY <1>3, <1>10 DEF Locals
<1>12. Channels'
  BY <1>10, <1>11, ChannelStep
<1> QED BY <1>1, <1>12

(* Leaving.                                                                *)
LEMMA CleanupInv == ASSUME Inv, NEW c \in Conn, Cleanup(c) PROVE Inv'
<1> USE DEF Inv
<1>1. Locals' /\ Membership'
  BY CleanupMembership
<1> DEFINE m    == PeerDisconnect(id[c])
           told == Offer(chan, Txs(Others(c)), m)
<1>2. /\ chan' = [told EXCEPT ![c] = <<>>]
      /\ pc[c] = "closing" /\ pc' = [pc EXCEPT ![c] = "done"] /\ room' = room
  BY DEF Cleanup
<1>3. /\ chan \in [Conn -> Seq(Message)]
      /\ \A d \in Conn : Len(chan[d]) <= Capacity
      /\ \A d \in Conn : \A k \in DOMAIN chan[d] :
           (\E j \in DOMAIN chan[d] : chan[d][k] = chan[d][j])
             \/ ProperNext(d, chan[d][k])
  BY DEF Channels
<1>4. m \in Message /\ \A d \in Txs(Others(c)) : ProperNext(d, m)
  BY Messages DEF ProperNext, Locals
<1>5. \A d \in Txs(Others(c)) : d \in Conn /\ pc[d] # "new"
  BY FoundFacts, PeerFacts DEF Txs
<1> HIDE DEF m
<1>6. /\ told \in [Conn -> Seq(Message)]
      /\ \A d \in Conn : Len(told[d]) <= Capacity
      /\ \A d \in Conn : d \notin Txs(Others(c)) => told[d] = chan[d]
      /\ \A d \in Conn : \A k \in DOMAIN told[d] :
           (\E j \in DOMAIN chan[d] : told[d][k] = chan[d][j])
             \/ ProperNext(d, told[d][k])
  BY <1>3, <1>4, OfferChannels
<1> HIDE DEF told
<1>7. \A d \in Conn : chan'[d] = IF d = c THEN <<>> ELSE told[d]
  BY <1>2, <1>6
<1>8. chan' \in [Conn -> Seq(Message)]
  BY <1>2, <1>6
<1>9. Len(<<>>) <= Capacity /\ DOMAIN <<>> = {}
  BY CapacityAssumption
<1>10. \A d \in Conn : /\ Len(chan'[d]) <= Capacity
                       /\ \A k \in DOMAIN chan'[d] :
                            (\E j \in DOMAIN chan[d] : chan'[d][k] = chan[d][j])
                              \/ ProperNext(d, chan'[d][k])
  BY <1>6, <1>7, <1>9
<1>11. /\ \A d \in Conn : pc'[d] = "new" => pc[d] = "new" /\ chan'[d] = chan[d]
       /\ \A d \in Conn : pc[d] # "new" => pc'[d] # "new" /\ room'[d] = room[d]
  BY <1>2, <1>5, <1>6, <1>7 DEF Locals
<1>12. Channels'
  BY <1>8, <1>10, <1>11, ChannelStep
<1> QED BY <1>1, <1>12

(* Evicting idle peers keeps the invariant.                                *)
LEMMA EvictIdleInv == ASSUME Inv, EvictIdle PROVE Inv'
<1> USE DEF Inv
<1>1. Locals' /\ Membership'
  BY EvictIdleMembership
<1>2. PICK idle \in SUBSET Registered :
        /\ chan' = Offer(chan, Registered \ idle, Control)
        /\ pc' = pc /\ room' = room
  BY DEF EvictIdle
<1> DEFINE S == Registered \ idle
<1>3. Control \in Message /\ \A d : ProperNext(d, Control)
  BY Messages DEF ProperNext
<1>4. /\ chan \in [Conn -> Seq(Message)]
      /\ \A d \in Conn : Len(chan[d]) <= Capacity
      /\ \A d \in Conn : \A k \in DOMAIN chan[d] :
           (\E j \in DOMAIN chan[d] : chan[d][k] = chan[d][j])
             \/ ProperNext(d, chan[d][k])
  BY DEF Channels
<1>5. \A d \in S : pc[d] # "new"
  BY RegisteredFacts, PeerFacts DEF Peers
<1>6. chan' = Offer(chan, S, Control)
  BY <1>2
<1> HIDE DEF S
<1> DEFINE new == Offer(chan, S, Control)
<1>7. /\ new \in [Conn -> Seq(Message)]
      /\ \A d \in Conn : Len(new[d]) <= Capacity
      /\ \A d \in Conn : d \notin S => new[d] = chan[d]
      /\ \A d \in Conn : \A k \in DOMAIN new[d] :
           (\E j \in DOMAIN chan[d] : new[d][k] = chan[d][j])
             \/ ProperNext(d, new[d][k])
  BY <1>3, <1>4, OfferChannels
<1>8. chan' = new
  BY <1>6
<1> HIDE DEF new
<1>9. \A d \in Conn : pc'[d] = "new" => pc[d] = "new" /\ chan'[d] = chan[d]
  BY <1>2, <1>5, <1>7, <1>8
<1>10. \A d \in Conn : pc[d] # "new" => pc'[d] # "new" /\ room'[d] = room[d]
  BY <1>2
<1>11. Channels'
  BY <1>7, <1>8, <1>9, <1>10, ChannelStep
<1> QED BY <1>1, <1>11

-----------------------------------------------------------------------------
(* Every step keeps the invariant.                                         *)
LEMMA StepInv == Inv /\ [Next]_vars => Inv'
<1> SUFFICES ASSUME Inv, [Next]_vars PROVE Inv'
  OBVIOUS
<1>1. ASSUME NEW c \in Conn, Handler(c) PROVE Inv'
  <2>1. CASE Reject(c)
    BY <2>1, RejectInv
  <2>2. ASSUME NEW r \in Room, Register(c, r) PROVE Inv'
    BY <2>2, RegisterInv
  <2>3. CASE SendAuth(c)
    BY <2>3, SendAuthInv
  <2>4. CASE NotifyJoin(c)
    BY <2>4, NotifyJoinInv
  <2>5. CASE ReadPing(c)
    BY <2>5, ReadPingInv
  <2>6. CASE \/ TouchAfterPing(c) \/ ReadPong(c) \/ CheckToken(c)
             \/ StreamEnds(c) \/ WriterDied(c)
    BY <2>6, QuietReadInv
  <2>7. CASE ForwardText(c)
    BY <2>7, ForwardInv DEF ForwardText
  <2>8. CASE ForwardBinary(c)
    BY <2>8, ForwardInv DEF ForwardBinary
  <2>9. CASE Cleanup(c)
    BY <2>9, CleanupInv
  <2> QED BY <1>1, <2>1, <2>2, <2>3, <2>4, <2>5, <2>6, <2>7, <2>8, <2>9 DEF Handler
<1>2. ASSUME NEW c \in Conn, Deliver(c) \/ WriterEnds(c) PROVE Inv'
  BY <1>2, WriterInv
<1>3. CASE EvictIdle
  BY <1>3, EvictIdleInv
<1>4. CASE UNCHANGED vars
  BY <1>4 DEF vars, Inv, Locals, Membership, Channels, RoomsType, Ordered, SmallRooms,
              NumbersUnique, NoGhostPeer, NoEmptyRoom, LaterOffered, Offered, Settled, Proper
<1> QED BY <1>1, <1>2, <1>3, <1>4 DEF Next

(* The inductive invariant always holds.                                   *)
LEMMA Invariance == Spec => []Inv
  BY InitInv, StepInv, PTL DEF Spec

(* The state always has its type, and two peers of a room are always       *)
(* ordered by activity: add_peer finds whom to evict (lines 200-207).      *)
THEOREM TypeCorrect == Spec => []TypeOK
<1>1. Inv => TypeOK
  BY DEF Inv, Locals, Membership, Channels, RoomsType, Ordered, TypeOK
<1> QED BY <1>1, Invariance, PTL

(* No room ever holds more than two peers.                                 *)
THEOREM TwoPeersAtMost == Spec => []RoomCapacity
<1>1. Inv => RoomCapacity
  BY DEF Inv, Membership, SmallRooms, RoomCapacity
<1> QED BY <1>1, Invariance, PTL

(* The peers of a room, and its next newcomer, have different numbers.     *)
THEOREM NumbersTellApart == Spec => []NumbersUnique
<1>1. Inv => NumbersUnique
  BY DEF Inv, Membership
<1> QED BY <1>1, Invariance, PTL

(* Only connections whose handler has yet to clean up are in a room.       *)
THEOREM NoGhosts == Spec => []NoGhostPeer
<1>1. Inv => NoGhostPeer
  BY DEF Inv, Membership
<1> QED BY <1>1, Invariance, PTL

(* No room is kept without peers.                                          *)
THEOREM RoomsCollected == Spec => []NoEmptyRoom
<1>1. Inv => NoEmptyRoom
  BY DEF Inv, Membership
<1> QED BY <1>1, Invariance, PTL

(* Of two connections that share a room, have finished joining and can be  *)
(* written to, one's join went into the other's channel or was lost there  *)
(* because that channel was full (line 237): no interleaving of joins,     *)
(* evictions and cleanups makes the relay pass over such a pair.           *)
THEOREM MeetingsAnnounced == Spec => []MeetingAnnounced
<1>1. ASSUME Inv PROVE MeetingAnnounced
  <2> SUFFICES ASSUME NEW r \in DOMAIN rooms,
                      NEW p \in rooms[r].peers, NEW q \in rooms[r].peers, Meet(p, q)
               PROVE  <<p.tx, q.tx>> \in Offered \/ <<q.tx, p.tx>> \in Offered
    BY DEF MeetingAnnounced, Offered
  <2>1. p.id # q.id /\ p.id \in Nat /\ q.id \in Nat
    BY <1>1, PeerFacts DEF Meet, Inv, Membership, NumbersUnique
  <2>2. p.id < q.id \/ q.id < p.id
    BY <2>1
  <2> QED BY <1>1, <2>2 DEF Meet, Inv, Membership, LaterOffered
<1> QED BY <1>1, Invariance, PTL

(* A channel never holds more than its capacity.                           *)
THEOREM ChannelsBounded == Spec => []BoundedChannels
<1>1. Inv => BoundedChannels
  BY DEF Inv, Channels, BoundedChannels
<1> QED BY <1>1, Invariance, PTL

(* Frames only travel between connections that joined the same room.       *)
THEOREM RoomsIsolated == Spec => []FramesStayInRoom
<1>1. Inv => FramesStayInRoom
  BY DEF Inv, Channels, Proper, FramesStayInRoom
<1> QED BY <1>1, Invariance, PTL
=============================================================================
