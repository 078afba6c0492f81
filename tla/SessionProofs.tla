---------------------------- MODULE SessionProofs ----------------------------
(***************************************************************************)
(* Type correctness of Session and the agreement on the key, for any       *)
(* number of connections, runs, chunks and keystrokes.                     *)
(***************************************************************************)
EXTENDS Session, TLAPS

LEMMA Bounds == MaxConn \in Nat /\ MaxRun \in Nat /\ MaxOut \in Nat /\ MaxKey \in Nat
  BY BoundsAssumption

-----------------------------------------------------------------------------
(* The two sides of the system: a step of one leaves the other's state.    *)
AgentSide ==
  MainLoop \/ AgentReads \/ AgentPty \/ Greet \/ LinkLost \/ ShellWrites \/ ShellExits
AppSide ==
  \/ Delivers \/ LateFrame \/ RelayDrops \/ RelayCleansUp
  \/ AppConnects \/ AppDrops \/ AppDisconnects \/ AppTimesOut \/ AppTypes

LEMMA Sides == Next <=> AgentSide \/ AppSide
  BY DEF Next, AgentSide, AppSide

LEMMA AgentKeeps ==
  ASSUME AgentSide
  PROVE  UNCHANGED <<seat, leaving, late, cur, cst, auto, last, seen, from, dropped, typed>>
<1> USE DEF app, net, hist
<1>1. CASE MainLoop
  BY <1>1 DEF MainLoop, Spawn, Connect, ConnectFails
<1>2. CASE InitAuth \/ InitIgnore \/ InitJoin \/ WaitJoin \/ BridgeJoin \/ WaitIgnore
  BY <1>2 DEF InitAuth, InitIgnore, InitJoin, WaitJoin, BridgeJoin, WaitIgnore, JoinIn, Skips
<1>3. CASE JoinBootFails \/ InitEnds \/ WaitEnds \/ BridgeEnds
  BY <1>3 DEF JoinBootFails, InitEnds, WaitEnds, BridgeEnds, ReturnPty
<1>4. CASE HandshakeIgnore \/ HandshakeCipher \/ HandshakeSendFails \/ HandshakeEnds
  BY <1>4 DEF HandshakeIgnore, HandshakeCipher, HandshakeSendFails, HandshakeEnds, Skips
<1>5. CASE BridgePeerGone \/ BridgeIgnore \/ BridgeInput \/ BridgeSync
  BY <1>5 DEF BridgePeerGone, BridgeIgnore, BridgeInput, BridgeSync, Skips
<1>6. CASE AgentPty
  BY <1>6 DEF AgentPty, WaitPty, BridgePty, BridgeSendFails, BridgeEof, ReturnPty
<1>7. CASE Greet \/ LinkLost \/ ShellWrites \/ ShellExits
  BY <1>7 DEF Greet, LinkLost, ShellWrites, ShellExits
<1> QED BY <1>1, <1>2, <1>3, <1>4, <1>5, <1>6, <1>7 DEF AgentSide, AgentReads

LEMMA AppKeeps ==
  ASSUME AppSide
  PROVE  UNCHANGED <<phase, shell, exited, token, key, offer, ptyq, ring, stale,
                     run, link, greeting, produced, written>>
<1> USE DEF agent, app, hist
<1>1. CASE Unheard \/ AppGetsOffer \/ AppGetsHmac \/ AppGetsPty
  BY <1>1 DEF Unheard, AppGetsOffer, AppGetsHmac, AppGetsPty
<1>2. CASE LateFrame \/ RelayDrops \/ RelayCleansUp \/ AppConnects \/ AppTypes
  BY <1>2 DEF LateFrame, RelayDrops, RelayCleansUp, AppConnects, AppTypes
<1>3. CASE AppDrops \/ AppDisconnects \/ AppTimesOut \/ AppRejectsHmac
  BY <1>3 DEF AppDrops, AppDisconnects, AppTimesOut, AppRejectsHmac, GiveUp, Hangup
<1> QED BY <1>1, <1>2, <1>3 DEF AppSide, Delivers

-----------------------------------------------------------------------------
(* The Boolean-valued variables, which need no arithmetic.                 *)
Flags ==
  shell \in BOOLEAN /\ exited \in BOOLEAN /\ token \in BOOLEAN /\ greeting \in BOOLEAN
    /\ auto \in BOOLEAN

LEMMA FlagsInit == Init => Flags
  BY DEF Init, Flags

LEMMA FlagsStep ==
  ASSUME Flags, [Next]_vars
  PROVE  Flags'
<1> USE DEF Flags, agent, net, app
<1>0. CASE UNCHANGED vars
  BY <1>0 DEF vars
<1>1. CASE MainLoop
  BY <1>1, AgentKeeps DEF MainLoop, Spawn, Connect, ConnectFails, AgentSide
<1>2. CASE InitAuth \/ InitIgnore \/ InitJoin \/ WaitJoin \/ BridgeJoin \/ WaitIgnore
  BY <1>2 DEF InitAuth, InitIgnore, InitJoin, WaitJoin, BridgeJoin, WaitIgnore, JoinIn, Skips
<1>3. CASE JoinBootFails \/ InitEnds \/ WaitEnds \/ BridgeEnds
  BY <1>3 DEF JoinBootFails, BootFails, InitEnds, WaitEnds, BridgeEnds, ReturnPty
<1>4. CASE HandshakeIgnore \/ HandshakeCipher \/ HandshakeSendFails \/ HandshakeEnds
  BY <1>4 DEF HandshakeIgnore, HandshakeCipher, HandshakeSendFails, HandshakeEnds, Skips
<1>5. CASE BridgePeerGone \/ BridgeIgnore \/ BridgeInput \/ BridgeSync
  BY <1>5 DEF BridgePeerGone, BridgeIgnore, BridgeInput, BridgeSync, Skips
<1>6. CASE AgentPty
  BY <1>6 DEF AgentPty, WaitPty, BridgePty, BridgeSendFails, BridgeEof, ReturnPty
<1>7. CASE Greet \/ LinkLost \/ ShellWrites \/ ShellExits
  BY <1>7 DEF Greet, LinkLost, ShellWrites, ShellExits
<1>8. CASE Delivers
  BY <1>8 DEF Delivers, Unheard, AppGetsOffer, AppGetsHmac, AppRejectsHmac, AppGetsPty
<1>9. CASE LateFrame \/ RelayDrops \/ RelayCleansUp \/ AppConnects \/ AppTypes
  BY <1>9 DEF LateFrame, RelayDrops, RelayCleansUp, AppConnects, AppTypes
<1>10. CASE AppDrops \/ AppDisconnects \/ AppTimesOut
  BY <1>10 DEF AppDrops, AppDisconnects, AppTimesOut
<1> QED
  BY <1>0, <1>1, <1>2, <1>3, <1>4, <1>5, <1>6, <1>7, <1>8, <1>9, <1>10 DEF Next, AgentReads

(* The state of the agent.  A run leaves at most one reader behind.        *)
AgentType ==
  /\ phase \in {"down", "init", "wait", "handshake", "bridge"}
  /\ offer \in Nat
  /\ stale \in Nat /\ run \in 0 .. MaxRun
  /\ stale <= run /\ (phase # "down" => stale < run)
  /\ link \in {"up", "lost"}

LEMMA AgentTypeInit == Init => AgentType
  BY Bounds DEF Init, AgentType

LEMMA AgentTypeStep ==
  ASSUME AgentType, [Next]_vars
  PROVE  AgentType'
<1> USE Bounds DEF AgentType
<1>0. CASE UNCHANGED vars
  BY <1>0 DEF vars, agent, net
<1>1. CASE Spawn \/ ConnectFails
  BY <1>1 DEF Spawn, ConnectFails, net
<1>2. CASE Connect
  BY <1>2 DEF Connect
<1>3. CASE Greet \/ LinkLost
  BY <1>3 DEF Greet, LinkLost, agent
<1>4. CASE InitAuth
  BY <1>4 DEF InitAuth
<1>5. CASE InitIgnore \/ WaitIgnore \/ HandshakeIgnore \/ BridgeIgnore
  BY <1>5 DEF InitIgnore, WaitIgnore, HandshakeIgnore, BridgeIgnore, Skips, agent
<1>6. CASE InitJoin \/ WaitJoin \/ BridgeJoin
  BY <1>6 DEF InitJoin, WaitJoin, BridgeJoin, JoinIn, StartHandshake
<1>7. CASE JoinBootFails
  BY <1>7 DEF JoinBootFails, BootFails
<1>8. CASE InitEnds \/ WaitEnds \/ BridgeEnds \/ BridgeSendFails
  <2>1. phase # "down" /\ ReturnPty
    BY <1>8 DEF InitEnds, WaitEnds, BridgeEnds, BridgeSendFails
  <2> QED BY <2>1 DEF ReturnPty
<1>9. CASE WaitPty \/ BridgePty
  BY <1>9 DEF WaitPty, BridgePty, net
<1>10. CASE HandshakeCipher
  BY <1>10 DEF HandshakeCipher
<1>11. CASE HandshakeSendFails \/ HandshakeEnds
  BY <1>11 DEF HandshakeSendFails, HandshakeEnds, net
<1>12. CASE BridgeEof
  BY <1>12 DEF BridgeEof
<1>13. CASE BridgePeerGone \/ BridgeInput \/ BridgeSync
  BY <1>13 DEF BridgePeerGone, BridgeInput, BridgeSync, agent
<1>14. CASE ShellWrites \/ ShellExits
  BY <1>14 DEF ShellWrites, ShellExits, net
<1>15. CASE AppSide
  BY <1>15, AppKeeps
<1> QED
  BY <1>0, <1>1, <1>2, <1>3, <1>4, <1>5, <1>6, <1>7, <1>8, <1>9, <1>10, <1>11, <1>12, <1>13,
     <1>14, <1>15, Sides DEF AgentSide, MainLoop, AgentReads, AgentPty

-----------------------------------------------------------------------------
(* What is on the way.  Sender frames carry the number of the connection   *)
(* that sent them.                                                         *)
Caller == 1 .. MaxConn
Sender == {"cipher", "input", "sync_req", "disconnect"}
Frame ==
  {Join, Auth, PeerDisconnect}
    \cup {Disconnect(c) : c \in Caller} \cup {Cipher(c, h) : c \in Caller, h \in Nat}
    \cup {Input(c, n) : c \in Caller, n \in 1 .. MaxKey}
    \cup {SyncReq(c, l) : c \in Caller, l \in 0 .. MaxOut}
Reply ==
  {Offer(h) : h \in Nat} \cup {Hmac(k) : k \in Conn}
    \cup {Pty(k, n, x) : k \in Conn, n \in Chunk, x \in Chunk}

LEMMA FrameShape ==
  ASSUME NEW m \in Frame
  PROVE  /\ m.type \in Sender \cup {"join", "auth", "peer_disconnect"}
         /\ m.type \in Sender => m.key \in Caller
         /\ m.type = "cipher" => m.offer \in Nat
         /\ m.type = "input" => m.n \in 1 .. MaxKey /\ m = Input(m.key, m.n)
         /\ m.type = "sync_req" => m.last \in 0 .. MaxOut
  BY DEF Frame, Sender, Join, Auth, PeerDisconnect, Disconnect, Cipher, Input, SyncReq

LEMMA Frames ==
  /\ Join \in Frame /\ Join.type = "join"
  /\ Auth \in Frame /\ Auth.type = "auth"
  /\ PeerDisconnect \in Frame /\ PeerDisconnect.type = "peer_disconnect"
  /\ \A c \in Caller :
       /\ Disconnect(c) \in Frame /\ Disconnect(c).type = "disconnect" /\ Disconnect(c).key = c
       /\ \A h \in Nat : /\ Cipher(c, h) \in Frame /\ Cipher(c, h).type = "cipher"
                         /\ Cipher(c, h).key = c /\ Cipher(c, h).offer = h
       /\ \A n \in 1 .. MaxKey :
            Input(c, n) \in Frame /\ Input(c, n).type = "input" /\ Input(c, n).key = c
       /\ \A l \in 0 .. MaxOut :
            SyncReq(c, l) \in Frame /\ SyncReq(c, l).type = "sync_req" /\ SyncReq(c, l).key = c
<1>1. Join \in Frame /\ Auth \in Frame /\ PeerDisconnect \in Frame
  BY DEF Frame
<1>2. ASSUME NEW c \in Caller PROVE Disconnect(c) \in Frame
  BY DEF Frame
<1>3. ASSUME NEW c \in Caller, NEW h \in Nat PROVE Cipher(c, h) \in Frame
  BY DEF Frame
<1>4. ASSUME NEW c \in Caller, NEW n \in 1 .. MaxKey PROVE Input(c, n) \in Frame
  BY DEF Frame
<1>5. ASSUME NEW c \in Caller, NEW l \in 0 .. MaxOut PROVE SyncReq(c, l) \in Frame
  BY DEF Frame
<1> QED
  BY <1>1, <1>2, <1>3, <1>4, <1>5 DEF Join, Auth, PeerDisconnect, Disconnect, Cipher, Input, SyncReq

LEMMA ReplyShape ==
  ASSUME NEW m \in Reply
  PROVE  /\ m.type \in {"offer", "hmac", "pty"}
         /\ m.type = "offer" => m.offer \in Nat
         /\ m.type = "hmac" => m.key \in Conn
         /\ m.type = "pty" => m.key \in Conn /\ m.seq \in Chunk /\ m.chunk \in Chunk
  BY DEF Reply, Offer, Hmac, Pty

LEMMA Replies ==
  /\ \A h \in Nat : Offer(h) \in Reply /\ Offer(h).type = "offer"
  /\ \A k \in Conn : Hmac(k) \in Reply /\ Hmac(k).type = "hmac" /\ Hmac(k).key = k
  /\ \A k \in Conn, n \in Chunk, x \in Chunk :
       /\ Pty(k, n, x) \in Reply /\ Pty(k, n, x).type = "pty" /\ Pty(k, n, x).key = k
       /\ Pty(k, n, x).seq = n /\ Pty(k, n, x).chunk = x
<1>1. ASSUME NEW h \in Nat PROVE Offer(h) \in Reply
  BY DEF Reply
<1>2. ASSUME NEW k \in Conn PROVE Hmac(k) \in Reply
  BY DEF Reply
<1>3. ASSUME NEW k \in Conn, NEW n \in Chunk, NEW x \in Chunk PROVE Pty(k, n, x) \in Reply
  BY DEF Reply
<1> QED BY <1>1, <1>2, <1>3 DEF Offer, Hmac, Pty

(* What sequences over a set are made into.                                *)
LEMMA SeqOps ==
  ASSUME NEW S, NEW s \in Seq(S)
  PROVE  /\ s # <<>> => /\ Head(s) \in S /\ Tail(s) \in Seq(S)
                        /\ Last(s) \in S /\ Front(s) \in Seq(S)
         /\ \A e \in S : Append(s, e) \in Seq(S) /\ <<e>> \in Seq(S)
         /\ \A t \in Seq(S) : s \o t \in Seq(S)
         /\ \A k \in 0 .. Len(s) : SubSeq(s, 1, k) \in Seq(S)
  BY DEF Last, Front

LEMMA RemovedAt ==
  ASSUME NEW S, NEW s \in Seq(S), NEW n \in 1 .. Len(s)
  PROVE  /\ RemoveAt(s, n) \in Seq(S) /\ Len(RemoveAt(s, n)) = Len(s) - 1
         /\ \A k \in 1 .. Len(s) - 1 : RemoveAt(s, n)[k] = IF k < n THEN s[k] ELSE s[k + 1]
<1> DEFINE a == SubSeq(s, 1, n - 1)
           b == SubSeq(s, n + 1, Len(s))
<1>0. Len(s) \in Nat /\ n \in Nat /\ RemoveAt(s, n) = a \o b
  BY DEF RemoveAt
<1>1. a \in Seq(S) /\ Len(a) = n - 1 /\ \A k \in 1 .. n - 1 : a[k] = s[k]
  BY <1>0
<1>2. b \in Seq(S) /\ Len(b) = Len(s) - n /\ \A k \in 1 .. Len(s) - n : b[k] = s[n + k]
  BY <1>0
<1> HIDE DEF a, b
<1>3. a \o b \in Seq(S) /\ Len(a \o b) = Len(s) - 1
  BY <1>0, <1>1, <1>2
<1>4. ASSUME NEW k \in 1 .. Len(s) - 1 PROVE (a \o b)[k] = IF k < n THEN s[k] ELSE s[k + 1]
  <2>1. CASE k < n
    <3>1. k \in 1 .. n - 1 /\ (a \o b)[k] = a[k]
      BY <1>0, <1>1, <1>2, <2>1
    <3> QED BY <1>1, <2>1, <3>1
  <2>2. CASE ~(k < n)
    <3>1. k - (n - 1) \in 1 .. Len(s) - n /\ (a \o b)[k] = b[k - (n - 1)]
      BY <1>0, <1>1, <1>2, <2>2
    <3>2. n + (k - (n - 1)) = k + 1
      BY <1>0
    <3> QED BY <1>2, <2>2, <3>1, <3>2
  <2> QED BY <2>1, <2>2
<1> QED BY <1>0, <1>3, <1>4

(* The state of the app and of the relay.                                  *)
AppType ==
  /\ seat \in Conn /\ leaving \subseteq Conn /\ cur \in Conn
  /\ cst \in {"off", "offer", "hmac", "up"}
  /\ cst # "off" => cur # 0
  /\ last \in 0 .. MaxOut /\ seen \subseteq Chunk /\ dropped \subseteq Chunk
  /\ typed \in 0 .. MaxKey

(* What is under way between the two.                                      *)
NetType ==
  /\ inbox \in Seq(Frame) /\ out \in Seq(Reply)
  /\ late \in Seq({m \in Frame : m.type \in Sender})

(* The output that has not been sent to an app yet: a chunk is queued or   *)
(* in the buffer.                                                          *)
OutputType == ptyq \in Seq(Chunk) /\ ring \in Seq(Chunk)
Counted == produced \in 0 .. MaxOut /\ Len(ring) + Len(ptyq) <= produced

LEMMA AppTypeInit == Init => AppType
  BY Bounds DEF Init, AppType, Conn, Chunk

LEMMA AppTypeStep ==
  ASSUME AppType, NetType, [Next]_vars
  PROVE  AppType'
<1> USE Bounds DEF AppType, Conn
<1>0. CASE UNCHANGED vars
  BY <1>0 DEF vars, net, app, hist
<1>1. CASE AgentSide
  BY <1>1, AgentKeeps
<1>2. CASE LateFrame \/ Unheard
  BY <1>2 DEF LateFrame, Unheard, app, hist
<1>3. CASE RelayCleansUp
  BY <1>3 DEF RelayCleansUp, app, hist
<1>4. CASE AppConnects
  BY <1>4 DEF AppConnects, hist
<1>5. CASE AppDrops \/ AppDisconnects
  BY <1>5 DEF AppDrops, AppDisconnects, Hangup, hist
<1>6. CASE AppTimesOut \/ AppRejectsHmac
  BY <1>6 DEF AppTimesOut, AppRejectsHmac, Listening, GiveUp, Hangup, hist
<1>7. CASE AppTypes
  BY <1>7 DEF AppTypes, app
<1>8. CASE AppGetsOffer
  BY <1>8 DEF AppGetsOffer, Listening, hist
<1>9. CASE AppGetsHmac
  BY <1>9 DEF AppGetsHmac, Listening
<1>10. CASE AppGetsPty
  <2>1. Head(out).seq \in Chunk /\ Head(out).chunk \in Chunk
    BY <1>10, SeqOps, ReplyShape DEF NetType, AppGetsPty, Arrives
  <2>2. UNCHANGED <<seat, leaving, cur, cst, dropped, typed>>
    BY <1>10 DEF AppGetsPty, hist
  <2>3. last' \in 0 .. MaxOut /\ seen' \subseteq Chunk
    <3>1. last' = Head(out).seq /\ seen' = seen \cup {Head(out).chunk}
      BY <1>10 DEF AppGetsPty
    <3>2. last' \in Chunk /\ 0 .. MaxOut = {0} \cup Chunk
      BY <2>1, <3>1 DEF Chunk
    <3>3. seen' \subseteq Chunk
      BY <2>1, <3>1
    <3> QED BY <3>2, <3>3
  <2> QED BY <2>2, <2>3
<1>11. CASE RelayDrops
  <2>1. UNCHANGED <<seat, leaving, cur, cst, last, seen, typed>>
    BY <1>11 DEF RelayDrops, app
  <2>2. dropped' \subseteq Chunk
    <3>1. Slots + 1 \in DOMAIN out
      BY <1>11, SlotsAssumption DEF RelayDrops, NetType
    <3>2. out[Slots + 1] \in Reply
      BY <3>1 DEF NetType
    <3>3. out[Slots + 1].type = "pty" => out[Slots + 1].chunk \in Chunk
      BY <3>2, ReplyShape
    <3> QED BY <1>11, <3>3 DEF RelayDrops
  <2> QED BY <2>1, <2>2
<1> QED
  BY <1>0, <1>1, <1>2, <1>3, <1>4, <1>5, <1>6, <1>7, <1>8, <1>9, <1>10, <1>11, Sides
  DEF AppSide, Delivers

LEMMA CountedInit == Init => Counted
  BY Bounds DEF Init, Counted

LEMMA OutputTypeStep ==
  ASSUME OutputType, Counted, [Next]_vars
  PROVE  OutputType' /\ Counted'
<1> USE Bounds DEF OutputType, Counted
<1>0. CASE UNCHANGED <<ptyq, ring, produced>>
  BY <1>0
<1>1. CASE ptyq' = <<>> /\ ring' \in {<<>>, ring} /\ produced' = produced
  <2>1. Len(ptyq) \in Nat /\ Len(ring) \in Nat /\ Len(<<>>) = 0
    OBVIOUS
  <2>2. Len(ring') <= Len(ring) /\ Len(ptyq') = 0
    BY <1>1, <2>1
  <2>3. Len(ring') \in Nat
    BY <1>1, <2>1
  <2>4. <<>> \in Seq(Chunk)
    OBVIOUS
  <2>5. produced' = produced
    BY <1>1
  <2>6. Len(ring') + Len(ptyq') <= produced'
    BY <2>1, <2>2, <2>3, <2>5
  <2> QED BY <1>1, <2>4, <2>5, <2>6
<1>2. CASE /\ ptyq # <<>> /\ ring' = Append(ring, Head(ptyq))
           /\ ptyq' = Tail(ptyq) /\ produced' = produced
  BY <1>2
<1>3. CASE ShellWrites
  <2>1. produced' = produced + 1 /\ produced + 1 \in Chunk
    BY <1>3 DEF ShellWrites, Chunk
  <2>2. ring' = ring /\ ptyq' \in {ptyq, Append(ptyq, produced + 1)}
    BY <1>3 DEF ShellWrites
  <2>3. ptyq' \in Seq(Chunk) /\ Len(ptyq') <= Len(ptyq) + 1
    BY <2>1, <2>2
  <2>4. produced' \in 0 .. MaxOut
    BY <2>1 DEF Chunk
  <2>5. Len(ring) \in Nat /\ Len(ptyq) \in Nat /\ Len(ptyq') \in Nat
    BY <2>3
  <2>6. Len(ring') + Len(ptyq') <= produced'
    BY <2>1, <2>2, <2>3, <2>5
  <2> QED BY <2>2, <2>3, <2>4, <2>6
<1>4. CASE UNCHANGED vars \/ AppSide
  BY <1>0, <1>4, AppKeeps DEF vars, agent, hist
<1>5. CASE MainLoop \/ Greet \/ LinkLost \/ ShellExits
  BY <1>0, <1>5 DEF MainLoop, Spawn, Connect, ConnectFails, Greet, LinkLost, ShellExits, agent, hist
<1>6. CASE InitAuth \/ InitIgnore \/ InitJoin \/ WaitJoin \/ BridgeJoin \/ WaitIgnore
  BY <1>0, <1>6
  DEF InitAuth, InitIgnore, InitJoin, WaitJoin, BridgeJoin, WaitIgnore, JoinIn, Skips, agent, hist
<1>7. CASE JoinBootFails \/ InitEnds \/ WaitEnds \/ BridgeEnds \/ BridgeSendFails
  BY <1>1, <1>7
  DEF JoinBootFails, BootFails, InitEnds, WaitEnds, BridgeEnds, BridgeSendFails, ReturnPty, hist
<1>8. CASE HandshakeIgnore \/ HandshakeCipher \/ HandshakeSendFails \/ HandshakeEnds
  BY <1>0, <1>8 DEF HandshakeIgnore, HandshakeCipher, HandshakeSendFails, HandshakeEnds, Skips, agent, hist
<1>9. CASE BridgePeerGone \/ BridgeIgnore \/ BridgeInput \/ BridgeSync
  BY <1>0, <1>9 DEF BridgePeerGone, BridgeIgnore, BridgeInput, BridgeSync, Skips, agent, hist
<1>10. CASE WaitPty \/ BridgePty
  BY <1>2, <1>10 DEF WaitPty, BridgePty, hist
<1>11. CASE BridgeEof
  BY <1>1, <1>11 DEF BridgeEof, hist
<1> QED
  BY <1>3, <1>4, <1>5, <1>6, <1>7, <1>8, <1>9, <1>10, <1>11, Sides
  DEF AgentSide, AgentReads, AgentPty

(* What a step does to the frames on the way: nothing, read one, drop all, *)
(* send one of the current connection or of the relay, forward a late one, *)
(* or announce a new connection.                                           *)
OwnFrame(m) ==
  m.type \in {"auth", "peer_disconnect"} \/ (m.type \in Sender /\ m.key = cur)
Sending ==
  /\ cur' = cur
  /\ late' = late \/ late' = <<>>
  /\ \/ inbox' = inbox \/ inbox' = <<>>
     \/ inbox # <<>> /\ inbox' = Tail(inbox)
     \/ \E m \in Frame : inbox' = Append(inbox, m) /\ OwnFrame(m)
     \/ late # <<>> /\ inbox' = Append(inbox, Head(late))
Announcing ==
  /\ cst = "off" /\ cur' = cur + 1 /\ cst' = "offer"
  /\ \/ late' = late /\ (inbox' = inbox \/ inbox' = Append(inbox, Join))
     \/ /\ inbox # <<>> /\ Last(inbox).type \in Sender /\ Last(inbox).key = cur
        /\ late' = <<Last(inbox)>> /\ inbox' = Append(Front(inbox), Join)

LEMMA AgentInbox ==
  ASSUME AgentSide
  PROVE  Sending
<1> USE DEF Sending, net, hist
<1>0. cur' = cur /\ late' = late
  BY AgentKeeps
<1>1. CASE MainLoop \/ LinkLost \/ ShellWrites \/ ShellExits
  BY <1>0, <1>1 DEF MainLoop, Spawn, Connect, ConnectFails, LinkLost, ShellWrites, ShellExits
<1>2. CASE InitAuth \/ InitIgnore \/ InitJoin \/ WaitJoin \/ BridgeJoin \/ WaitIgnore
  BY <1>0, <1>2
  DEF InitAuth, InitIgnore, InitJoin, WaitJoin, BridgeJoin, WaitIgnore, JoinIn, Skips, Reads
<1>3. CASE JoinBootFails \/ InitEnds \/ WaitEnds \/ BridgeEnds \/ AgentPty
  BY <1>0, <1>3
  DEF JoinBootFails, BootFails, InitEnds, WaitEnds, BridgeEnds, ReturnPty, AgentPty, WaitPty,
      BridgePty, BridgeSendFails, BridgeEof
<1>4. CASE HandshakeIgnore \/ HandshakeCipher \/ HandshakeSendFails \/ HandshakeEnds
  BY <1>0, <1>4 DEF HandshakeIgnore, HandshakeCipher, HandshakeSendFails, HandshakeEnds, Skips, Reads
<1>5. CASE BridgePeerGone \/ BridgeIgnore \/ BridgeInput \/ BridgeSync
  BY <1>0, <1>5 DEF BridgePeerGone, BridgeIgnore, BridgeInput, BridgeSync, Skips, Reads
<1>6. CASE Greet
  BY <1>0, <1>6, Frames DEF Greet, ToAgent, OwnFrame
<1> QED BY <1>1, <1>2, <1>3, <1>4, <1>5, <1>6 DEF AgentSide, AgentReads

LEMMA AppInbox ==
  ASSUME AppSide, AppType, NetType, AppType'
  PROVE  Sending \/ Announcing
<1> DEFINE Own(m) == m \in Frame /\ OwnFrame(m)
<1>1. \A m : Own(m) /\ inbox' = ToAgent(inbox, m) /\ UNCHANGED <<cur, late>> => Sending
  BY DEF ToAgent, Sending
<1>2. cur # 0 => cur \in Caller
  BY Bounds DEF AppType, Conn, Caller
<1>3. cur # 0 => Own(Disconnect(cur))
  BY <1>2, Frames DEF OwnFrame, Sender
<1> USE DEF app, hist
<1>4. CASE Unheard \/ AppGetsPty \/ AppDrops \/ RelayDrops
  BY <1>4 DEF Unheard, AppGetsPty, AppDrops, RelayDrops, Sending
<1>5. CASE AppGetsOffer
  <2>1. Head(out).offer \in Nat
    BY <1>5, SeqOps, ReplyShape DEF NetType, AppGetsOffer, Arrives
  <2>2. cur # 0
    BY <1>5 DEF AppGetsOffer, Listening, AppType
  <2>3. Own(Cipher(cur, Head(out).offer))
    BY <1>2, <2>1, <2>2, Frames DEF OwnFrame, Sender
  <2>4. inbox' = ToAgent(inbox, Cipher(cur, Head(out).offer)) /\ UNCHANGED <<cur, late>>
    BY <1>5 DEF AppGetsOffer
  <2> QED BY <1>1, <2>3, <2>4
<1>6. CASE AppGetsHmac
  <2>1. last' \in 0 .. MaxOut
    BY DEF AppType
  <2>2. cur # 0
    BY <1>6 DEF AppGetsHmac, Listening, AppType
  <2>3. Own(SyncReq(cur, last'))
    BY <1>2, <2>1, <2>2, Frames DEF OwnFrame, Sender
  <2>4. inbox' = ToAgent(inbox, SyncReq(cur, last')) /\ UNCHANGED <<cur, late>>
    BY <1>6 DEF AppGetsHmac
  <2> QED BY <1>1, <2>3, <2>4
<1>7. CASE AppRejectsHmac \/ AppTimesOut
  <2>1. cur # 0 /\ UNCHANGED <<cur, late>> /\ GiveUp
    BY <1>7 DEF AppRejectsHmac, AppTimesOut, Listening, AppType
  <2>2. inbox' = inbox \/ inbox' = ToAgent(inbox, Disconnect(cur))
    BY <2>1 DEF GiveUp
  <2> QED BY <1>1, <1>3, <2>1, <2>2 DEF Sending
<1>8. CASE AppDisconnects
  <2>1. UNCHANGED <<cur, late>>
    BY <1>8 DEF AppDisconnects
  <2>2. CASE cst = "off"
    BY <1>8, <2>1, <2>2 DEF AppDisconnects, Sending
  <2>3. CASE cst # "off"
    BY <1>1, <1>3, <1>8, <2>1, <2>3 DEF AppDisconnects, AppType
  <2> QED BY <2>2, <2>3
<1>9. CASE AppTypes
  <2>1. typed + 1 \in 1 .. MaxKey /\ cur # 0
    BY <1>9, Bounds DEF AppTypes, AppType
  <2>2. Own(Input(cur, typed + 1))
    BY <1>2, <2>1, Frames DEF OwnFrame, Sender
  <2>3. inbox' = ToAgent(inbox, Input(cur, typed + 1)) /\ UNCHANGED <<cur, late>>
    BY <1>9 DEF AppTypes
  <2> QED BY <1>1, <2>2, <2>3
<1>10. CASE RelayCleansUp
  <2>1. Own(PeerDisconnect)
    BY Frames DEF OwnFrame
  <2>2. inbox' = ToAgent(inbox, PeerDisconnect) /\ UNCHANGED <<cur, late>>
    BY <1>10 DEF RelayCleansUp
  <2> QED BY <1>1, <2>1, <2>2
<1>11. CASE LateFrame
  BY <1>11 DEF LateFrame, ToAgent, Sending
<1>12. CASE AppConnects
  BY <1>12 DEF AppConnects, ToAgent, Overtaken, Announcing, Sender
<1> QED
  BY <1>4, <1>5, <1>6, <1>7, <1>8, <1>9, <1>10, <1>11, <1>12 DEF AppSide, Delivers

LEMMA InboxStep ==
  ASSUME [Next]_vars, AppType, NetType
  PROVE  Sending \/ Announcing
<1>1. CASE UNCHANGED vars
  BY <1>1 DEF Sending, vars, net, app
<1>2. CASE AgentSide
  BY <1>2, AgentInbox
<1>3. CASE AppSide
  BY <1>3, AppInbox, AppTypeStep
<1> QED BY <1>1, <1>2, <1>3, Sides

(* Whatever holds of every frame holds of them after a step, if it holds   *)
(* of those that may be sent.                                              *)
LEMMA InboxKeeps ==
  ASSUME NetType, NEW S, inbox \in Seq(S), Sending \/ Announcing,
         \A m \in Frame : OwnFrame(m) => m \in S,
         late # <<>> => Head(late) \in S,
         Announcing => Join \in S
  PROVE  inbox' \in Seq(S)
<1>1. CASE Sending
  <2>1. CASE inbox' \in {inbox, Tail(inbox)} /\ (inbox' = inbox \/ inbox # <<>>)
    BY <2>1, SeqOps
  <2>2. CASE inbox' = <<>>
    BY <2>2
  <2>3. CASE \E m \in Frame : inbox' = Append(inbox, m) /\ OwnFrame(m)
    BY <2>3, SeqOps
  <2>4. CASE late # <<>> /\ inbox' = Append(inbox, Head(late))
    BY <2>4, SeqOps
  <2> QED BY <1>1, <2>1, <2>2, <2>3, <2>4 DEF Sending
<1>2. CASE Announcing
  <2>1. CASE inbox' = inbox \/ inbox' = Append(inbox, Join)
    BY <1>2, <2>1, SeqOps
  <2>2. CASE inbox # <<>> /\ inbox' = Append(Front(inbox), Join)
    <3>1. Front(inbox) \in Seq(S)
      BY <2>2, SeqOps
    <3> QED BY <1>2, <2>2, <3>1, SeqOps
  <2> QED BY <1>2, <2>1, <2>2 DEF Announcing
<1> QED BY <1>1, <1>2

(* The same of what the agent sends.                                       *)
LEMMA SentKeeps ==
  ASSUME NEW S, out \in Seq(S), NEW msgs \in Seq(S), out' = Sent(msgs)
  PROVE  out' \in Seq(S)
  BY SeqOps DEF Sent

(* A packet of session k that carries the number buffer r has for it.  The *)
(* replay of a buffer consists of such packets.                            *)
Packets(k, r) ==
  {m \in Reply : m.type = "pty" /\ m.key = k /\ m.seq \in DOMAIN r /\ r[m.seq] = m.chunk}

LEMMA ReplayPackets ==
  ASSUME NEW k \in Conn, NEW l \in 0 .. MaxOut, OutputType, Counted
  PROVE  Replay(k, l) \in Seq(Packets(k, ring))
<1> DEFINE n == IF l < Len(ring) THEN Len(ring) - l ELSE 0
<1>0. l \in Nat /\ Len(ring) \in Nat /\ Len(ptyq) \in Nat /\ Len(ring) <= MaxOut /\ MaxOut \in Nat
  BY Bounds DEF OutputType, Counted
<1>1. n \in Nat /\ \A i \in 1 .. n : l + i \in 1 .. Len(ring)
  BY <1>0
<1>2. ASSUME NEW i \in 1 .. n PROVE Pty(k, l + i, ring[l + i]) \in Packets(k, ring)
  <2>1. l + i \in 1 .. Len(ring) /\ l + i \in Chunk
    BY <1>0, <1>1, <1>2 DEF Chunk
  <2>2. ring[l + i] \in Chunk /\ l + i \in DOMAIN ring
    BY <2>1 DEF OutputType
  <2> QED BY <2>1, <2>2, Replies DEF Packets
<1>3. Replay(k, l) = [i \in 1 .. n |-> Pty(k, l + i, ring[l + i])]
  BY DEF Replay
<1> HIDE DEF n
<1>4. [i \in 1 .. n |-> Pty(k, l + i, ring[l + i])] \in Seq(Packets(k, ring))
  BY <1>1, <1>2
<1> QED BY <1>3, <1>4

(* The session key belongs to one bridge at a time.                        *)
KeyType == key \in Conn /\ (phase \in {"down", "init"} => key = NoKey)

(* What becomes of the way from the agent: it is cut short, its first      *)
(* frame arrives, the relay drops one, or the agent adds offers, an HMAC,  *)
(* or packets of its bridge that are in its buffer.                        *)
Sendable == {m \in Reply : m.type = "offer"}
              \cup {m \in Packets(key, ring') : phase = "bridge" /\ phase' = "bridge"}
LEMMA OutMoves ==
  ASSUME NetType, OutputType, Counted, KeyType, AgentType, [Next]_vars
  PROVE  \/ \E k \in 0 .. Len(out) :
              out' = SubSeq(out, 1, k) /\ (k = Len(out) \/ phase' = "init" \/ link' = "lost")
         \/ Delivers /\ out # <<>> /\ out' = Tail(out)
         \/ RelayDrops /\ Slots + 1 \in 1 .. Len(out) /\ out' = RemoveAt(out, Slots + 1)
         \/ \E msgs \in Seq(Sendable) : out' = Sent(msgs)
         \/ HandshakeCipher /\ out' = Sent(<<Hmac(key')>>)
<1> USE DEF net, app, hist
<1>0. CASE out' = out
  <2>1. Len(out) \in 0 .. Len(out) /\ SubSeq(out, 1, Len(out)) = out
    BY DEF NetType
  <2> QED BY <1>0, <2>1
<1>1. ASSUME NEW m \in Sendable, out' = Sent(<<m>>)
      PROVE  \E msgs \in Seq(Sendable) : out' = Sent(msgs)
  <2>1. <<m>> \in Seq(Sendable)
    OBVIOUS
  <2> QED BY <1>1, <2>1
<1>2. Len(out) \in Nat
  BY DEF NetType
<1>3. CASE Connect \/ LinkLost \/ BridgeEof
  <2>1. PICK n \in 0 .. Len(out) : Survives(n)
    BY <1>2, <1>3 DEF Connect, LinkLost, BridgeEof, NetType
  <2>2. PICK k \in 0 .. n : out' = SubSeq(out, 1, k)
    BY <2>1 DEF Survives
  <2>3. phase' = "init" \/ link' = "lost"
    BY <1>3 DEF Connect, LinkLost, BridgeEof
  <2> QED BY <1>2, <2>2, <2>3
<1>4. CASE UNCHANGED vars \/ Spawn \/ ConnectFails \/ Greet \/ ShellWrites \/ ShellExits
  BY <1>0, <1>4 DEF vars, Spawn, ConnectFails, Greet, ShellWrites, ShellExits
<1>5. CASE InitAuth \/ InitIgnore \/ WaitIgnore \/ HandshakeIgnore \/ BridgeIgnore
  BY <1>0, <1>5 DEF InitAuth, InitIgnore, WaitIgnore, HandshakeIgnore, BridgeIgnore, Skips
<1>6. CASE InitJoin \/ WaitJoin \/ BridgeJoin
  <2>1. out' = Sent(<<Offer(offer + 1)>>)
    BY <1>6 DEF InitJoin, WaitJoin, BridgeJoin, JoinIn, StartHandshake
  <2>2. Offer(offer + 1) \in Sendable
    BY Replies DEF AgentType, Sendable
  <2> QED BY <1>1, <2>1, <2>2
<1>7. CASE JoinBootFails \/ InitEnds \/ WaitEnds \/ BridgeEnds \/ BridgeSendFails \/ WaitPty
  BY <1>0, <1>7
  DEF JoinBootFails, BootFails, InitEnds, WaitEnds, BridgeEnds, BridgeSendFails, WaitPty, ReturnPty
<1>8. CASE HandshakeCipher
  BY <1>8 DEF HandshakeCipher
<1>9. CASE HandshakeSendFails \/ HandshakeEnds \/ BridgePeerGone \/ BridgeInput
  BY <1>0, <1>9 DEF HandshakeSendFails, HandshakeEnds, BridgePeerGone, BridgeInput
<1>10. CASE BridgePty
  <2>1. Len(ring) + 1 \in Chunk /\ Head(ptyq) \in Chunk
    <3>1. ptyq # <<>> /\ Len(ptyq) \in Nat /\ Len(ring) \in Nat
      BY <1>10 DEF BridgePty, OutputType
    <3>2. Len(ptyq) >= 1 /\ Head(ptyq) \in Chunk
      BY <3>1 DEF OutputType
    <3> QED BY <3>1, <3>2, Bounds DEF Counted, Chunk
  <2>2. Pty(key, Len(ring) + 1, Head(ptyq)) \in Sendable
    <3>1. ring' = Append(ring, Head(ptyq)) /\ phase = "bridge" /\ phase' = "bridge"
      BY <1>10 DEF BridgePty
    <3>2. Len(ring) + 1 \in DOMAIN ring' /\ ring'[Len(ring) + 1] = Head(ptyq)
      BY <3>1 DEF OutputType
    <3> QED BY <2>1, <3>1, <3>2, Replies DEF KeyType, Sendable, Packets
  <2>3. out' = Sent(<<Pty(key, Len(ring) + 1, Head(ptyq))>>)
    BY <1>10 DEF BridgePty
  <2> QED BY <1>1, <2>2, <2>3
<1>11. CASE BridgeSync
  <2>1. Head(inbox).last \in 0 .. MaxOut
    BY <1>11, SeqOps, FrameShape DEF BridgeSync, Reads, NetType
  <2>2. Replay(key, Head(inbox).last) \in Seq(Packets(key, ring))
    BY <2>1, ReplayPackets DEF KeyType
  <2>3. ring' = ring /\ phase = "bridge" /\ phase' = "bridge"
    BY <1>11 DEF BridgeSync, agent
  <2>4. Packets(key, ring) \subseteq Sendable
    BY <2>3 DEF Sendable
  <2>5. Replay(key, Head(inbox).last) \in Seq(Sendable)
    BY <2>2, <2>4
  <2>6. out' = Sent(Replay(key, Head(inbox).last))
    BY <1>11 DEF BridgeSync
  <2> QED BY <2>5, <2>6
<1>12. CASE Delivers
  BY <1>12
  DEF Delivers, Unheard, AppGetsOffer, AppGetsHmac, AppRejectsHmac, AppGetsPty, Arrives
<1>13. CASE LateFrame \/ RelayCleansUp \/ AppConnects \/ AppTypes
  BY <1>0, <1>13 DEF LateFrame, RelayCleansUp, AppConnects, AppTypes
<1>14. CASE AppDrops \/ AppDisconnects \/ AppTimesOut
  BY <1>0, <1>14 DEF AppDrops, AppDisconnects, AppTimesOut
<1>15. CASE RelayDrops
  BY <1>2, <1>15, SlotsAssumption DEF RelayDrops
<1> QED
  BY <1>3, <1>4, <1>5, <1>6, <1>7, <1>8, <1>9, <1>10, <1>11, <1>12, <1>13, <1>14, <1>15
  DEF Next, MainLoop, AgentReads, AgentPty

LEMMA OutKeeps ==
  ASSUME NetType, OutputType, Counted, KeyType, AgentType, [Next]_vars,
         NEW S, out \in Seq(S),
         \A m \in Reply : m.type = "offer" \/ (m.type = "pty" /\ m.key = key) => m \in S,
         HandshakeCipher => Hmac(key') \in S
  PROVE  out' \in Seq(S)
<1>1. Sendable \subseteq S
  BY DEF Sendable, Packets
<1>2. CASE \E msgs \in Seq(Sendable) : out' = Sent(msgs)
  BY <1>1, <1>2, SentKeeps
<1>3. CASE HandshakeCipher /\ out' = Sent(<<Hmac(key')>>)
  <2>1. <<Hmac(key')>> \in Seq(S)
    BY <1>3, SeqOps
  <2> QED BY <1>3, <2>1, SentKeeps
<1>4. CASE out # <<>> /\ out' = Tail(out)
  BY <1>4, SeqOps
<1>5. CASE \E k \in 0 .. Len(out) : out' = SubSeq(out, 1, k)
  BY <1>5, SeqOps
<1>6. CASE Slots + 1 \in 1 .. Len(out) /\ out' = RemoveAt(out, Slots + 1)
  BY <1>6, RemovedAt
<1> QED BY <1>2, <1>3, <1>4, <1>5, <1>6, OutMoves

LEMMA NetTypeInit == Init => NetType
  BY DEF Init, NetType

LEMMA NetTypeStep ==
  ASSUME NetType, AppType, OutputType, Counted, KeyType, AgentType, [Next]_vars, KeyType'
  PROVE  NetType'
<1>1. Sending \/ Announcing
  BY InboxStep
<1>2. inbox' \in Seq(Frame)
  <2>1. late # <<>> => Head(late) \in Frame
    BY SeqOps DEF NetType
  <2> QED BY <1>1, <2>1, Frames, InboxKeeps DEF NetType
<1>3. late' \in Seq({m \in Frame : m.type \in Sender})
  <2>0. late' = <<>> => late' \in Seq({m \in Frame : m.type \in Sender})
    OBVIOUS
  <2>1. CASE late' = late \/ late' = <<>>
    BY <2>0, <2>1 DEF NetType
  <2>2. CASE /\ inbox # <<>> /\ Last(inbox).type \in Sender
             /\ late' = <<Last(inbox)>>
    <3>1. Last(inbox) \in {m \in Frame : m.type \in Sender}
      BY <2>2, SeqOps DEF NetType
    <3> QED BY <2>2, <3>1
  <2> QED BY <1>1, <2>1, <2>2 DEF Sending, Announcing
<1>4. out' \in Seq(Reply)
  <2>1. Hmac(key') \in Reply
    BY Replies DEF KeyType
  <2> QED BY <2>1, OutKeeps DEF NetType
<1> QED BY <1>2, <1>3, <1>4 DEF NetType

LEMMA KeyTypeInit == Init => KeyType
  BY Bounds DEF Init, KeyType, Conn, NoKey

LEMMA KeyTypeStep ==
  ASSUME KeyType, NetType, AgentType, [Next]_vars
  PROVE  KeyType'
<1> USE DEF KeyType
<1>0. NoKey \in Conn
  BY Bounds DEF Conn, NoKey
<1>1. CASE UNCHANGED vars \/ AppSide
  BY <1>1, AppKeeps DEF vars, agent
<1>2. CASE Spawn \/ ConnectFails \/ Connect
  BY <1>2 DEF Spawn, ConnectFails, Connect
<1>3. CASE Greet \/ LinkLost \/ ShellWrites \/ ShellExits
  BY <1>3 DEF Greet, LinkLost, ShellWrites, ShellExits, agent
<1>4. CASE InitAuth \/ InitIgnore \/ WaitIgnore \/ HandshakeIgnore \/ BridgeIgnore
  BY <1>4 DEF InitAuth, InitIgnore, WaitIgnore, HandshakeIgnore, BridgeIgnore, Skips, agent
<1>5. CASE InitJoin \/ WaitJoin \/ BridgeJoin
  BY <1>5 DEF InitJoin, WaitJoin, BridgeJoin, JoinIn, StartHandshake
<1>6. CASE JoinBootFails \/ InitEnds \/ WaitEnds \/ BridgeEnds \/ BridgeSendFails
  BY <1>0, <1>6
  DEF JoinBootFails, BootFails, InitEnds, WaitEnds, BridgeEnds, BridgeSendFails, ReturnPty
<1>7. CASE HandshakeCipher
  <2>1. Head(inbox) \in Frame /\ Head(inbox).type = "cipher"
    BY <1>7, SeqOps DEF HandshakeCipher, Reads, NetType
  <2>2. Head(inbox).key \in Conn
    BY <2>1, FrameShape, Bounds DEF Sender, Caller, Conn
  <2>3. key' \in Conn /\ phase' = "bridge"
    BY <1>0, <1>7, <2>2 DEF HandshakeCipher, Decapsulated
  <2> QED BY <2>3
<1>8. CASE HandshakeSendFails \/ HandshakeEnds \/ WaitPty \/ BridgePty
  BY <1>8 DEF HandshakeSendFails, HandshakeEnds, WaitPty, BridgePty
<1>9. CASE BridgePeerGone \/ BridgeInput \/ BridgeSync
  BY <1>9 DEF BridgePeerGone, BridgeInput, BridgeSync, agent
<1>10. CASE BridgeEof
  BY <1>0, <1>10 DEF BridgeEof
<1> QED
  BY <1>1, <1>2, <1>3, <1>4, <1>5, <1>6, <1>7, <1>8, <1>9, <1>10, Sides
  DEF AgentSide, MainLoop, AgentReads, AgentPty

(* Queue and buffer belong to one run.                                     *)
OneRun == phase \in {"down", "init"} => ptyq = <<>> /\ ring = <<>>

LEMMA OneRunInit == Init => OneRun
  BY DEF Init, OneRun

LEMMA OneRunStep ==
  ASSUME OneRun, AgentType, [Next]_vars
  PROVE  OneRun'
<1> USE DEF OneRun, Reading
<1>1. CASE UNCHANGED vars \/ AppSide
  BY <1>1, AppKeeps DEF vars, agent
<1>2. CASE Spawn \/ ConnectFails \/ Connect
  BY <1>2 DEF Spawn, ConnectFails, Connect
<1>3. CASE Greet \/ LinkLost \/ ShellExits
  BY <1>3 DEF Greet, LinkLost, ShellExits, agent
<1>4. CASE ShellWrites
  BY <1>4 DEF ShellWrites
<1>5. CASE InitAuth \/ InitIgnore \/ WaitIgnore \/ HandshakeIgnore \/ BridgeIgnore
  BY <1>5 DEF InitAuth, InitIgnore, WaitIgnore, HandshakeIgnore, BridgeIgnore, Skips, agent
<1>6. CASE InitJoin \/ WaitJoin \/ BridgeJoin
  BY <1>6 DEF InitJoin, WaitJoin, BridgeJoin, JoinIn, StartHandshake
<1>7. CASE JoinBootFails \/ InitEnds \/ WaitEnds \/ BridgeEnds \/ BridgeSendFails
  BY <1>7
  DEF JoinBootFails, BootFails, InitEnds, WaitEnds, BridgeEnds, BridgeSendFails, ReturnPty
<1>8. CASE HandshakeCipher \/ HandshakeSendFails \/ HandshakeEnds \/ WaitPty \/ BridgePty
  BY <1>8 DEF HandshakeCipher, HandshakeSendFails, HandshakeEnds, WaitPty, BridgePty
<1>9. CASE BridgePeerGone \/ BridgeInput \/ BridgeSync
  BY <1>9 DEF BridgePeerGone, BridgeInput, BridgeSync, agent
<1>10. CASE BridgeEof
  BY <1>10 DEF BridgeEof
<1> QED
  BY <1>1, <1>2, <1>3, <1>4, <1>5, <1>6, <1>7, <1>8, <1>9, <1>10, Sides
  DEF AgentSide, MainLoop, AgentReads, AgentPty

-----------------------------------------------------------------------------
Shape ==
  /\ Flags /\ AgentType /\ AppType /\ NetType
  /\ OutputType /\ Counted /\ KeyType /\ OneRun

LEMMA InitShape == Init => Shape
<1>1. Init => OutputType
  BY DEF Init, OutputType
<1> QED
  BY <1>1, FlagsInit, AgentTypeInit, AppTypeInit, NetTypeInit, CountedInit, KeyTypeInit, OneRunInit
  DEF Shape

LEMMA ShapeStep == Shape /\ [Next]_vars => Shape'
  BY FlagsStep, AgentTypeStep, AppTypeStep, NetTypeStep, OutputTypeStep, KeyTypeStep, OneRunStep
  DEF Shape

LEMMA ShapeTypes == Shape => TypeOK
<1> SUFFICES ASSUME Shape PROVE TypeOK
  OBVIOUS
<1>1. stale \in 0 .. MaxRun
  BY Bounds DEF Shape, AgentType
<1>2. ~Reading => phase \in {"down", "init"}
  BY DEF Reading, Shape, AgentType
<1>3. ~Reading => ptyq = <<>> /\ ring = <<>> /\ key = NoKey
  BY <1>2 DEF Shape, OneRun, KeyType
<1> QED
  BY <1>1, <1>3 DEF TypeOK, Shape, Flags, AgentType, AppType, OutputType, Counted, KeyType

(* The state has its type, and buffer, queue and key belong to one run,    *)
(* for every value of the bounds.                                          *)
THEOREM TypeCorrect == Spec => []TypeOK
<1>1. Spec => []Shape
  BY InitShape, ShapeStep, PTL DEF Spec
<1> QED BY <1>1, ShapeTypes, PTL

-----------------------------------------------------------------------------
(* Nothing on the way is from a connection yet to come, and what an older  *)
(* handler holds is from an older connection.                              *)
UpTo(c)      == {m \in Frame : m.type \in Sender => m.key <= c}
Before(c)    == {m \in Frame : m.type \in Sender /\ m.key < c}
ConfirmedTo(c) == {m \in Reply : m.type = "hmac" => m.key <= c}
Known ==
  inbox \in Seq(UpTo(cur)) /\ late \in Seq(Before(cur)) /\ out \in Seq(ConfirmedTo(cur))

(* A connection's join comes before its ciphertext.                        *)
JoinFirst ==
  \A i, j \in DOMAIN inbox :
    i < j /\ inbox[i].type = "cipher" /\ inbox[i].key = cur => inbox[j].type # "join"

(* Once an HMAC under the current connection's key is on its way, or has   *)
(* come, the agent serves that connection or nobody, and can only turn to  *)
(* another one that is yet to come.                                        *)
NoJoin == {m \in Frame : m.type # "join"}
Unconfirmed(c) == {m \in Reply : m.type = "hmac" => m.key # c}
Settled == phase # "handshake" /\ inbox \in Seq(NoJoin) /\ (phase = "bridge" => key = cur)
SettledOnceConfirmed ==
  cur # 0 /\ (cst = "up" \/ out \notin Seq(Unconfirmed(cur))) => Settled

KeyInv == Known /\ JoinFirst /\ SettledOnceConfirmed

LEMMA KeyInvInit == Init => KeyInv
<1> SUFFICES ASSUME Init PROVE KeyInv
  OBVIOUS
<1>1. inbox = <<>> /\ late = <<>> /\ out = <<>> /\ cur = 0
  BY DEF Init
<1>2. Known
  BY <1>1 DEF Known
<1>3. JoinFirst
  BY <1>1 DEF JoinFirst
<1>4. SettledOnceConfirmed
  BY <1>1 DEF SettledOnceConfirmed
<1> QED BY <1>2, <1>3, <1>4 DEF KeyInv

(* What a read ciphertext gives: the key of a connection so far, or none.  *)
LEMMA CipherKey ==
  ASSUME Shape, Known, HandshakeCipher
  PROVE  /\ inbox # <<>> /\ Head(inbox) \in Frame /\ Head(inbox).type = "cipher"
         /\ key' \in {NoKey, Head(inbox).key} /\ key' \in Conn /\ key' <= cur
<1>1. inbox # <<>> /\ Head(inbox).type = "cipher" /\ key' \in {NoKey, Head(inbox).key}
  BY DEF HandshakeCipher, Reads, Decapsulated
<1>2. Head(inbox) \in UpTo(cur)
  BY <1>1, SeqOps DEF Known
<1>3. Head(inbox) \in Frame /\ Head(inbox).key <= cur
  BY <1>1, <1>2 DEF UpTo, Sender
<1>4. Head(inbox).key \in Caller
  BY <1>1, <1>3, FrameShape DEF Sender
<1>5. key' \in Conn /\ key' <= cur
  BY <1>1, <1>3, <1>4, Bounds DEF Shape, AppType, Conn, Caller, NoKey
<1> QED BY <1>1, <1>3, <1>5

LEMMA KnownStep ==
  ASSUME Shape, Shape', Known, [Next]_vars
  PROVE  Known' /\ out' \in Seq(ConfirmedTo(cur))
<1>0. cur \in Nat /\ cur' \in Nat /\ cur <= cur'
  BY InboxStep, Bounds DEF Shape, AppType, Conn, Sending, Announcing
<1>1. UpTo(cur) \subseteq UpTo(cur') /\ Before(cur) \subseteq Before(cur')
        /\ Before(cur) \subseteq UpTo(cur)
  BY <1>0, FrameShape DEF UpTo, Before, Caller
<1>2. ConfirmedTo(cur) \subseteq ConfirmedTo(cur')
  BY <1>0, ReplyShape DEF ConfirmedTo, Conn
<1>3. inbox' \in Seq(UpTo(cur))
  <2>1. \A m \in Frame : OwnFrame(m) => m \in UpTo(cur)
    BY <1>0 DEF OwnFrame, UpTo, Sender
  <2>2. late # <<>> => Head(late) \in UpTo(cur)
    BY <1>1, SeqOps DEF Known
  <2>3. Join \in UpTo(cur)
    BY Frames DEF UpTo, Sender
  <2> QED BY <2>1, <2>2, <2>3, InboxStep, InboxKeeps DEF Known, Shape
<1>4. late' \in Seq(Before(cur'))
  <2>1. CASE late' = late \/ late' = <<>>
    <3>1. late \in Seq(Before(cur')) /\ <<>> \in Seq(Before(cur'))
      BY <1>1 DEF Known
    <3> QED BY <2>1, <3>1
  <2>2. CASE Announcing /\ late' # late
    <3>1. /\ inbox # <<>> /\ late' = <<Last(inbox)>> /\ cur' = cur + 1
          /\ Last(inbox).type \in Sender /\ Last(inbox).key = cur
      BY <2>2 DEF Announcing
    <3>2. Last(inbox) \in Frame
      BY <3>1, SeqOps DEF Shape, NetType
    <3>3. Last(inbox) \in Before(cur')
      BY <1>0, <3>1, <3>2 DEF Before
    <3> QED BY <3>1, <3>3
  <2> QED BY <2>1, <2>2, InboxStep DEF Shape, Sending
<1>5. out' \in Seq(ConfirmedTo(cur))
  <2>1. \A m \in Reply : m.type \in {"offer", "pty"} => m \in ConfirmedTo(cur)
    BY DEF ConfirmedTo
  <2>2. HandshakeCipher => Hmac(key') \in ConfirmedTo(cur)
    BY CipherKey, Replies DEF ConfirmedTo
  <2> QED BY <2>1, <2>2, OutKeeps DEF Known, Shape
<1> QED BY <1>1, <1>2, <1>3, <1>4, <1>5 DEF Known

LEMMA JoinFirstStep ==
  ASSUME Shape, Known, Known', JoinFirst, [Next]_vars
  PROVE  JoinFirst'
<1> SUFFICES ASSUME NEW i \in DOMAIN inbox', NEW j \in DOMAIN inbox', i < j,
                    inbox'[i].type = "cipher", inbox'[i].key = cur'
             PROVE  inbox'[j].type # "join"
  BY DEF JoinFirst
<1>0. inbox \in Seq(Frame) /\ inbox' \in Seq(UpTo(cur)) /\ cur \in Nat
  <2>1. inbox' \in Seq(UpTo(cur))
    <3>1. \A m \in Frame : OwnFrame(m) => m \in UpTo(cur)
      BY DEF OwnFrame, UpTo, Sender, Shape, AppType, Conn
    <3>2. late # <<>> => Head(late) \in UpTo(cur)
      BY SeqOps, FrameShape DEF Known, UpTo, Before, Caller, Shape, AppType, Conn
    <3>3. Join \in UpTo(cur)
      BY Frames DEF UpTo, Sender
    <3> QED BY <3>1, <3>2, <3>3, InboxStep, InboxKeeps DEF Known, Shape
  <2> QED BY <2>1, Bounds DEF Shape, NetType, AppType, Conn
<1>1. CASE Announcing
  <2>1. inbox'[i].key <= cur
    BY <1>0 DEF UpTo, Sender
  <2> QED BY <1>0, <1>1, <2>1 DEF Announcing
<1>2. CASE inbox' = inbox /\ cur' = cur
  BY <1>2 DEF JoinFirst
<1>3. CASE inbox' = <<>>
  <2>1. DOMAIN inbox' = {}
    BY <1>3
  <2> QED BY <2>1
<1>4. CASE inbox # <<>> /\ inbox' = Tail(inbox) /\ cur' = cur
  <2>1. /\ i + 1 \in DOMAIN inbox /\ j + 1 \in DOMAIN inbox /\ i + 1 < j + 1
        /\ inbox'[i] = inbox[i + 1] /\ inbox'[j] = inbox[j + 1]
    <3>1. /\ Len(inbox') = Len(inbox) - 1 /\ Len(inbox) \in Nat
          /\ DOMAIN inbox = 1 .. Len(inbox) /\ DOMAIN inbox' = 1 .. Len(inbox')
      BY <1>0, <1>4
    <3>2. \A k \in 1 .. Len(inbox') : inbox'[k] = inbox[k + 1]
      BY <1>0, <1>4
    <3> QED BY <3>1, <3>2
  <2> QED BY <1>4, <2>1 DEF JoinFirst
<1>5. ASSUME NEW m \in Frame, inbox' = Append(inbox, m), m.type # "join", cur' = cur
      PROVE  inbox'[j].type # "join"
  <2>1. i \in DOMAIN inbox /\ inbox'[i] = inbox[i]
    BY <1>0, <1>5
  <2>2. CASE j \in DOMAIN inbox
    <3>1. inbox'[j] = inbox[j]
      BY <1>0, <1>5, <2>2
    <3> QED BY <1>5, <2>1, <2>2, <3>1 DEF JoinFirst
  <2>3. CASE j \notin DOMAIN inbox
    <3>1. inbox'[j] = m
      BY <1>0, <1>5, <2>3
    <3> QED BY <1>5, <3>1
  <2> QED BY <2>2, <2>3
<1>6. CASE Sending
  <2>1. \A m : OwnFrame(m) => m.type # "join"
    BY DEF OwnFrame, Sender
  <2>2. late # <<>> => Head(late) \in Frame /\ Head(late).type # "join"
    <3>1. late # <<>> => Head(late) \in Before(cur)
      BY SeqOps DEF Known
    <3> QED BY <3>1 DEF Before, Sender
  <2> QED BY <1>2, <1>3, <1>4, <1>5, <1>6, <2>1, <2>2 DEF Sending
<1> QED BY <1>1, <1>6, InboxStep DEF Shape

(* How the agent comes to a handshake or a bridge, and the app to a        *)
(* session.                                                                *)
LEMMA PhaseStep ==
  ASSUME [Next]_vars, ~HandshakeCipher
  PROVE  /\ phase' = "handshake" => phase = "handshake" \/ (inbox # <<>> /\ Head(inbox).type = "join")
         /\ phase' = "bridge" => phase = "bridge" /\ key' = key
<1>1. CASE UNCHANGED vars \/ AppSide
  BY <1>1, AppKeeps DEF vars, agent
<1>2. CASE MainLoop \/ Greet \/ LinkLost \/ ShellWrites \/ ShellExits
  BY <1>2 DEF MainLoop, Spawn, ConnectFails, Connect, Greet, LinkLost, ShellWrites, ShellExits, agent
<1>3. CASE InitAuth \/ InitIgnore \/ WaitIgnore \/ HandshakeIgnore \/ BridgeIgnore
  BY <1>3 DEF InitAuth, InitIgnore, WaitIgnore, HandshakeIgnore, BridgeIgnore, Skips, agent
<1>4. CASE InitJoin \/ WaitJoin \/ BridgeJoin
  BY <1>4 DEF InitJoin, WaitJoin, BridgeJoin, JoinIn, StartHandshake, Reads
<1>5. CASE JoinBootFails \/ InitEnds \/ WaitEnds \/ BridgeEnds
  BY <1>5
  DEF JoinBootFails, BootFails, InitEnds, WaitEnds, BridgeEnds, ReturnPty
<1>6. CASE HandshakeSendFails \/ HandshakeEnds \/ AgentPty
  BY <1>6
  DEF HandshakeSendFails, HandshakeEnds, AgentPty, WaitPty, BridgePty, BridgeSendFails, BridgeEof, ReturnPty
<1>7. CASE BridgePeerGone \/ BridgeInput \/ BridgeSync
  BY <1>7 DEF BridgePeerGone, BridgeInput, BridgeSync, agent
<1> QED
  BY <1>1, <1>2, <1>3, <1>4, <1>5, <1>6, <1>7, Sides DEF AgentSide, AgentReads

LEMMA UpStep ==
  ASSUME [Next]_vars, cst' = "up", cst # "up"
  PROVE  AppGetsHmac
<1> USE DEF app, hist
<1>1. CASE UNCHANGED vars
  BY <1>1 DEF vars
<1>2. CASE AgentSide
  BY <1>2, AgentKeeps
<1>3. CASE AppSide /\ ~AppGetsHmac
  BY <1>3
  DEF AppSide, Delivers, Unheard, AppGetsOffer, AppRejectsHmac, AppGetsPty, LateFrame, RelayDrops,
      RelayCleansUp, AppConnects, AppDrops, AppDisconnects, AppTimesOut, AppTypes, GiveUp, Hangup
<1> QED BY <1>1, <1>2, <1>3, Sides

LEMMA SettledStep ==
  ASSUME Shape, Known, Settled, Sending, [Next]_vars, ~HandshakeCipher
  PROVE  Settled'
<1>1. inbox' \in Seq(NoJoin)
  <2>1. \A m \in Frame : OwnFrame(m) => m \in NoJoin
    BY DEF OwnFrame, NoJoin, Sender
  <2>2. late # <<>> => Head(late) \in NoJoin
    BY SeqOps DEF Known, Before, NoJoin, Sender
  <2>3. ~Announcing
    BY DEF Sending, Announcing, Shape, AppType, Conn
  <2> QED BY <2>1, <2>2, <2>3, InboxKeeps DEF Settled, Shape
<1>2. inbox # <<>> => Head(inbox).type # "join"
  BY SeqOps DEF Settled, NoJoin
<1>3. phase' # "handshake"
  BY <1>2, PhaseStep DEF Settled
<1>4. phase' = "bridge" => key' = cur'
  BY PhaseStep DEF Settled, Sending
<1> QED BY <1>1, <1>3, <1>4 DEF Settled, NoJoin

LEMMA CipherSettles ==
  ASSUME Shape, Known, JoinFirst, HandshakeCipher, key' = cur, cur # 0, Sending
  PROVE  Settled'
<1>1. /\ inbox # <<>> /\ Head(inbox).type = "cipher" /\ Head(inbox).key = cur
      /\ inbox \in Seq(Frame)
  BY CipherKey DEF NoKey, Shape, NetType
<1>2. inbox' = Tail(inbox) /\ phase' = "bridge"
  BY DEF HandshakeCipher, Reads
<1>3. inbox' \in Seq(Frame) /\ \A k \in DOMAIN inbox' : inbox'[k] \in NoJoin
  <2>1. inbox' \in Seq(Frame)
    BY <1>1, <1>2, SeqOps
  <2>2. ASSUME NEW k \in DOMAIN inbox' PROVE inbox'[k] \in NoJoin
    <3>1. /\ 1 \in DOMAIN inbox /\ k + 1 \in DOMAIN inbox /\ 1 < k + 1
          /\ inbox'[k] = inbox[k + 1] /\ Head(inbox) = inbox[1]
      BY <1>1, <1>2
    <3>2. inbox[k + 1].type # "join"
      BY <1>1, <3>1 DEF JoinFirst
    <3>3. inbox[k + 1] \in Frame
      BY <1>1, <3>1
    <3> QED BY <3>1, <3>2, <3>3 DEF NoJoin
  <2> QED BY <2>1, <2>2
<1>4. inbox' \in Seq(NoJoin)
  BY <1>3
<1> QED BY <1>2, <1>4 DEF Settled, Sending, NoJoin

LEMMA SettledOnceConfirmedStep ==
  ASSUME Shape, Shape', KeyInv, [Next]_vars
  PROVE  SettledOnceConfirmed'
<1> SUFFICES ASSUME cur' # 0, cst' = "up" \/ out' \notin Seq(Unconfirmed(cur'))
             PROVE  Settled'
  BY DEF SettledOnceConfirmed, Unconfirmed
<1>0. Known /\ JoinFirst /\ SettledOnceConfirmed /\ out' \in Seq(ConfirmedTo(cur))
  BY KnownStep DEF KeyInv
<1>1. CASE Announcing
  <2>1. ConfirmedTo(cur) \subseteq Unconfirmed(cur')
    BY <1>1, Bounds, ReplyShape DEF Announcing, ConfirmedTo, Unconfirmed, Shape, AppType, Conn
  <2>2. out' \in Seq(Unconfirmed(cur'))
    BY <1>0, <2>1
  <2> QED BY <1>1, <2>2 DEF Announcing
<1>2. CASE Sending /\ HandshakeCipher
  <2>1. CASE key' = cur
    BY <1>0, <1>2, <2>1, CipherSettles DEF Sending
  <2>2. CASE key' # cur
    <3>1. phase = "handshake" /\ cst' = cst /\ cur' = cur
      BY <1>2 DEF HandshakeCipher, Sending, app
    <3>2. cst # "up" /\ out \in Seq(Unconfirmed(cur))
      BY <1>0, <3>1 DEF SettledOnceConfirmed, Settled
    <3>3. Hmac(key') \in Unconfirmed(cur)
      BY <1>0, <1>2, <2>2, CipherKey, Replies DEF Unconfirmed
    <3>4. \A m \in Reply : m.type \in {"offer", "pty"} => m \in Unconfirmed(cur)
      BY DEF Unconfirmed
    <3>5. out' \in Seq(Unconfirmed(cur))
      BY <3>2, <3>3, <3>4, OutKeeps DEF Shape
    <3> QED BY <3>1, <3>2, <3>5
  <2> QED BY <2>1, <2>2
<1>3. CASE Sending /\ ~HandshakeCipher
  <2>1. cur' = cur
    BY <1>3 DEF Sending
  <2>2. CASE cst = "up"
    BY <1>0, <1>3, <2>1, <2>2, SettledStep DEF SettledOnceConfirmed
  <2>3. CASE cst # "up" /\ cst' = "up"
    <3>1. AppGetsHmac
      BY <2>3, UpStep
    <3>2. out # <<>> /\ Head(out).type = "hmac" /\ Head(out).key = cur
      BY <3>1 DEF AppGetsHmac, Arrives
    <3>3. out \notin Seq(Unconfirmed(cur))
      BY <3>2, SeqOps DEF Unconfirmed
    <3> QED BY <1>0, <1>3, <2>1, <3>3, SettledStep DEF SettledOnceConfirmed
  <2>4. CASE cst' # "up"
    <3>1. \A m \in Reply : m.type \in {"offer", "pty"} => m \in Unconfirmed(cur)
      BY DEF Unconfirmed
    <3>2. out \in Seq(Unconfirmed(cur)) => out' \in Seq(Unconfirmed(cur))
      BY <1>3, <3>1, OutKeeps DEF Shape
    <3>3. out \notin Seq(Unconfirmed(cur))
      BY <2>1, <2>4, <3>2
    <3> QED BY <1>0, <1>3, <2>1, <3>3, SettledStep DEF SettledOnceConfirmed
  <2> QED BY <2>2, <2>3, <2>4
<1> QED BY <1>1, <1>2, <1>3, InboxStep DEF Shape

LEMMA KeyInvStep == Shape /\ Shape' /\ KeyInv /\ [Next]_vars => KeyInv'
  BY KnownStep, JoinFirstStep, SettledOnceConfirmedStep DEF KeyInv

LEMMA KeyInvAgrees == Shape /\ KeyInv => KeysAgree
  BY DEF KeyInv, SettledOnceConfirmed, Settled, KeysAgree, Shape, AppType

(* Whenever the app believes it is connected and the agent serves          *)
(* somebody, they use the same key: for any number of connections, rejoins,*)
(* lost links and late frames.                                             *)
THEOREM KeysAgreeAlways == Spec => []KeysAgree
<1>1. Spec => []Shape
  BY InitShape, ShapeStep, PTL DEF Spec
<1>2. KeyInv /\ [](Shape) /\ [][Next]_vars => []KeyInv
  <2>1. KeyInv /\ Shape /\ Shape' /\ [Next]_vars => KeyInv'
    BY KeyInvStep
  <2> QED BY <2>1, PTL
<1> QED BY <1>1, <1>2, KeyInvInit, KeyInvAgrees, PTL DEF Spec
=============================================================================
