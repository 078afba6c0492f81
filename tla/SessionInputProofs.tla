------------------------- MODULE SessionInputProofs -------------------------
(***************************************************************************)
(* The life of a connection's key, and the order of keystrokes, for any    *)
(* number of connections, runs, chunks and keystrokes.                     *)
(***************************************************************************)
EXTENDS SessionProofs

-----------------------------------------------------------------------------
(* What a step does, by what it puts on the way to the agent.  Most put    *)
(* nothing there, or a notice that carries no secret.                      *)
Notice == {m \in Frame : m.type \in {"auth", "peer_disconnect", "disconnect"}}
Calm ==
  /\ UNCHANGED <<cur, late, typed, from>> /\ cst' \in {cst, "off"}
  /\ inbox' = inbox \/ \E m \in Notice : inbox' = Append(inbox, m)
Still ==
  /\ UNCHANGED <<cur, late, typed, from>> /\ cst' \in {cst, "off"}
  /\ \/ inbox' = inbox \/ inbox' = <<>>
     \/ inbox # <<>> /\ inbox' = Tail(inbox)
     \/ \E m \in Notice : inbox' = Append(inbox, m)

LEMMA AgentStill ==
  ASSUME AgentSide
  PROVE  Still
<1> USE DEF Still, net, hist
<1>0. UNCHANGED <<cur, late, typed, from, cst>>
  BY AgentKeeps
<1>1. CASE MainLoop \/ LinkLost \/ ShellWrites \/ ShellExits
  BY <1>0, <1>1 DEF MainLoop, Spawn, Connect, ConnectFails, LinkLost, ShellWrites, ShellExits
<1>2. CASE InitAuth \/ InitIgnore \/ InitJoin \/ WaitJoin \/ BridgeJoin \/ WaitIgnore
  BY <1>0, <1>2
  DEF InitAuth, InitIgnore, InitJoin, WaitJoin, BridgeJoin, WaitIgnore, JoinIn, Skips, Reads
<1>3. CASE JoinBootFails \/ InitEnds \/ WaitEnds \/ BridgeEnds \/ AgentPty
  BY <1>0, <1>3
  DEF JoinBootFails, BootFails, InitEnds, WaitEnds, BridgeEnds, ReturnPty, AgentPty, WaitPty,
      BridgePty, BridgeSendFails, BridgeEof
<1>4. CASE HandshakeIgnore \/ HandshakeCipher \/ HandshakeSendFails \/ HandshakeEnds
  BY <1>0, <1>4 DEF HandshakeIgnore, HandshakeCipher, HandshakeSendFails, HandshakeEnds, Skips, Reads
<1>5. CASE BridgePeerGone \/ BridgeIgnore \/ BridgeInput \/ BridgeSync
  BY <1>0, <1>5 DEF BridgePeerGone, BridgeIgnore, BridgeInput, BridgeSync, Skips, Reads
<1>6. CASE Greet
  <2>1. Auth \in Notice
    BY Frames DEF Notice
  <2> QED BY <1>0, <1>6, <2>1 DEF Greet, ToAgent
<1> QED BY <1>1, <1>2, <1>3, <1>4, <1>5, <1>6 DEF AgentSide, AgentReads

LEMMA AppKinds ==
  ASSUME Shape, AppSide
  PROVE  Calm \/ AppConnects \/ AppTypes \/ AppGetsOffer \/ AppGetsHmac \/ LateFrame
<1>2. cur # 0 => Disconnect(cur) \in Notice
  BY Frames, Bounds DEF Notice, Shape, AppType, Conn, Caller
<1>3. CASE Unheard \/ AppGetsPty \/ AppDrops \/ RelayDrops
  BY <1>3 DEF Unheard, AppGetsPty, AppDrops, RelayDrops, Hangup, Calm, app, hist
<1>4. CASE AppRejectsHmac \/ AppTimesOut
  <2>1. cur # 0 /\ UNCHANGED <<cur, late, typed, from>> /\ GiveUp
    BY <1>4 DEF AppRejectsHmac, AppTimesOut, GiveUp, Hangup, Listening, Shape, AppType
  <2>2. inbox' = inbox \/ inbox' = Append(inbox, Disconnect(cur))
    BY <2>1 DEF GiveUp, ToAgent
  <2> QED BY <1>2, <2>1, <2>2 DEF GiveUp, Hangup, Calm
<1>5. CASE AppDisconnects
  <2>1. UNCHANGED <<cur, late, typed, from>> /\ cst' \in {cst, "off"}
    BY <1>5 DEF AppDisconnects, Hangup, hist
  <2>2. inbox' = inbox \/ (cur # 0 /\ inbox' = Append(inbox, Disconnect(cur)))
    BY <1>5 DEF AppDisconnects, ToAgent, Shape, AppType
  <2> QED BY <1>2, <2>1, <2>2 DEF Calm
<1>6. CASE RelayCleansUp
  <2>1. PeerDisconnect \in Notice
    BY Frames DEF Notice
  <2> QED BY <1>6, <2>1 DEF RelayCleansUp, ToAgent, Calm, app, hist
<1> QED
  BY <1>3, <1>4, <1>5, <1>6 DEF AppSide, Delivers

LEMMA StepKinds ==
  ASSUME Shape, [Next]_vars
  PROVE  Still \/ AppConnects \/ AppTypes \/ AppGetsOffer \/ AppGetsHmac \/ LateFrame
<1>1. CASE UNCHANGED vars
  BY <1>1 DEF vars, net, app, hist, Still
<1>2. Calm => Still
  BY DEF Calm, Still
<1> QED BY <1>1, <1>2, AgentStill, AppKinds, Sides

(* Whatever holds of the frames on the way to the agent holds of them      *)
(* after a step, if it holds of notices and joins and of what the app      *)
(* sends in its three other ways.                                          *)
LEMMA WayKeeps ==
  ASSUME Shape, [Next]_vars, NEW S, inbox \in Seq(S), late \in Seq(S),
         Join \in S, Notice \subseteq S,
         AppTypes => Input(cur, typed + 1) \in S,
         AppGetsOffer => Cipher(cur, Head(out).offer) \in S,
         AppGetsHmac => SyncReq(cur, last') \in S
  PROVE  inbox' \in Seq(S) /\ late' \in Seq(S)
<1>0. <<>> \in Seq(S)
  OBVIOUS
<1>1. CASE Still
  <2>1. CASE inbox # <<>> /\ inbox' = Tail(inbox)
    BY <1>1, <2>1, SeqOps DEF Still
  <2>2. CASE \E m \in Notice : inbox' = Append(inbox, m)
    BY <1>1, <2>2, SeqOps DEF Still
  <2> QED BY <1>0, <1>1, <2>1, <2>2 DEF Still
<1>2. ASSUME NEW m \in S, inbox' = ToAgent(inbox, m) PROVE inbox' \in Seq(S)
  BY <1>2, SeqOps DEF ToAgent
<1>3. CASE AppTypes \/ AppGetsOffer \/ AppGetsHmac
  <2>1. late' = late
    BY <1>3 DEF AppTypes, AppGetsOffer, AppGetsHmac
  <2>2. CASE AppTypes
    BY <1>2, <2>1, <2>2 DEF AppTypes
  <2>3. CASE AppGetsOffer
    BY <1>2, <2>1, <2>3 DEF AppGetsOffer
  <2>4. CASE AppGetsHmac
    BY <1>2, <2>1, <2>4 DEF AppGetsHmac
  <2> QED BY <1>3, <2>2, <2>3, <2>4
<1>4. CASE LateFrame
  <2>1. Head(late) \in S /\ inbox' = ToAgent(inbox, Head(late)) /\ late' = <<>>
    BY <1>4, SeqOps DEF LateFrame
  <2> QED BY <1>0, <1>2, <2>1
<1>5. CASE AppConnects
  <2>1. CASE inbox' = ToAgent(inbox, Join) /\ late' = late
    BY <1>2, <2>1
  <2>2. CASE Overtaken /\ late' = <<Last(inbox)>> /\ inbox' = Append(Front(inbox), Join)
    <3>1. Last(inbox) \in S /\ Front(inbox) \in Seq(S)
      BY <2>2, SeqOps DEF Overtaken
    <3>2. <<Last(inbox)>> \in Seq(S)
      BY <3>1
    <3>3. Append(Front(inbox), Join) \in Seq(S)
      BY <3>1, SeqOps
    <3> QED BY <2>2, <3>2, <3>3
  <2> QED BY <1>5, <2>1, <2>2 DEF AppConnects
<1> QED BY <1>1, <1>3, <1>4, <1>5, StepKinds

-----------------------------------------------------------------------------
(* The life of a connection's key.  It is fresh until the agent takes its  *)
(* ciphertext: nobody works under it.  From then on it is spent: no        *)
(* ciphertext of the connection is left, nor will be.  So no key is ever   *)
(* taken twice.                                                            *)
NoCipher(c) == {m \in Frame : m.type = "cipher" => m.key # c}
NoWork(c)   == {m \in Frame : m.type \in {"input", "sync_req"} => m.key # c}
Silent(c)   == {m \in Reply : m.type \in {"hmac", "pty"} => m.key # c}
NoneWritten(c) == \A i \in DOMAIN written : written[i].c # c

Spent(c) ==
  /\ c <= cur /\ ~(c = cur /\ cst = "offer")
  /\ inbox \in Seq(NoCipher(c)) /\ late \in Seq(NoCipher(c))
Fresh(c) ==
  /\ key # c /\ ~(c = cur /\ cst = "up")
  /\ out \in Seq(Silent(c)) /\ inbox \in Seq(NoWork(c)) /\ late \in Seq(NoWork(c))
  /\ NoneWritten(c)
SpentOrFresh == \A c \in Caller : Spent(c) \/ Fresh(c)

(* A connection sends one ciphertext.                                      *)
CipherOnce ==
  /\ \A i, j \in DOMAIN inbox :
       i < j /\ inbox[i].type = "cipher" /\ inbox[j].type = "cipher" => inbox[i].key # inbox[j].key
  /\ \A c \in Caller : inbox \in Seq(NoCipher(c)) \/ late \in Seq(NoCipher(c))
  /\ cst = "offer" => inbox \in Seq(NoCipher(cur))

(* What was written to a shell was typed in a connection so far, and what  *)
(* is on its way has been typed.                                           *)
Strokes(c, n) == [c : 1 .. c, n : 1 .. n]
Entered(n) == {m \in Frame : m.type = "input" => m.n <= n}
Typed ==
  /\ written \in Seq(Strokes(cur, typed))
  /\ inbox \in Seq(Entered(typed)) /\ late \in Seq(Entered(typed))

(* Before it is through, a connection sends no work.                       *)
NoneYet == cst \in {"offer", "hmac"} => inbox \in Seq(NoWork(cur)) /\ NoneWritten(cur)

LifeInv == SpentOrFresh /\ CipherOnce /\ Typed /\ NoneYet

LEMMA LifeInit == Init => LifeInv
<1> SUFFICES ASSUME Init PROVE LifeInv
  OBVIOUS
<1>1. /\ inbox = <<>> /\ late = <<>> /\ out = <<>> /\ written = <<>> /\ key = NoKey
      /\ cst = "off" /\ \A S : <<>> \in Seq(S)
  BY DEF Init
<1>2. SpentOrFresh
  BY <1>1 DEF SpentOrFresh, Fresh, NoneWritten, Caller, NoKey
<1>3. CipherOnce
  BY <1>1 DEF CipherOnce
<1>4. Typed
  BY <1>1 DEF Typed
<1>5. NoneYet
  BY <1>1 DEF NoneYet
<1> QED BY <1>2, <1>3, <1>4, <1>5 DEF LifeInv

(* Keystrokes are written by BridgeInput alone.                            *)
LEMMA WrittenStep ==
  ASSUME [Next]_vars
  PROVE  written' = written \/ BridgeInput
<1> USE DEF hist
<1>1. CASE UNCHANGED vars \/ AppSide
  BY <1>1, AppKeeps DEF vars
<1>2. CASE MainLoop \/ Greet \/ LinkLost \/ ShellWrites \/ ShellExits
  BY <1>2 DEF MainLoop, Spawn, ConnectFails, Connect, Greet, LinkLost, ShellWrites, ShellExits
<1>3. CASE InitAuth \/ InitIgnore \/ WaitIgnore \/ HandshakeIgnore \/ BridgeIgnore
  BY <1>3 DEF InitAuth, InitIgnore, WaitIgnore, HandshakeIgnore, BridgeIgnore, Skips
<1>4. CASE InitJoin \/ WaitJoin \/ BridgeJoin
  BY <1>4 DEF InitJoin, WaitJoin, BridgeJoin, JoinIn
<1>5. CASE JoinBootFails \/ InitEnds \/ WaitEnds \/ BridgeEnds
  BY <1>5 DEF JoinBootFails, InitEnds, WaitEnds, BridgeEnds, ReturnPty
<1>6. CASE HandshakeCipher \/ HandshakeSendFails \/ HandshakeEnds \/ AgentPty
  BY <1>6
  DEF HandshakeCipher, HandshakeSendFails, HandshakeEnds, AgentPty, WaitPty, BridgePty,
      BridgeSendFails, BridgeEof, ReturnPty
<1>7. CASE BridgePeerGone \/ BridgeSync
  BY <1>7 DEF BridgePeerGone, BridgeSync
<1> QED
  BY <1>1, <1>2, <1>3, <1>4, <1>5, <1>6, <1>7, Sides DEF AgentSide, AgentReads

(* The key is that of a ciphertext, or goes.                               *)
LEMMA KeyStep ==
  ASSUME [Next]_vars, ~HandshakeCipher
  PROVE  key' \in {key, NoKey}
<1>1. CASE UNCHANGED vars \/ AppSide
  BY <1>1, AppKeeps DEF vars, agent
<1>2. CASE MainLoop \/ Greet \/ LinkLost \/ ShellWrites \/ ShellExits
  BY <1>2 DEF MainLoop, Spawn, ConnectFails, Connect, Greet, LinkLost, ShellWrites, ShellExits, agent
<1>3. CASE InitAuth \/ InitIgnore \/ WaitIgnore \/ HandshakeIgnore \/ BridgeIgnore
  BY <1>3 DEF InitAuth, InitIgnore, WaitIgnore, HandshakeIgnore, BridgeIgnore, Skips, agent
<1>4. CASE InitJoin \/ WaitJoin \/ BridgeJoin
  BY <1>4 DEF InitJoin, WaitJoin, BridgeJoin, JoinIn
<1>5. CASE JoinBootFails \/ InitEnds \/ WaitEnds \/ BridgeEnds
  BY <1>5 DEF JoinBootFails, BootFails, InitEnds, WaitEnds, BridgeEnds, ReturnPty
<1>6. CASE HandshakeSendFails \/ HandshakeEnds \/ AgentPty
  BY <1>6
  DEF HandshakeSendFails, HandshakeEnds, AgentPty, WaitPty, BridgePty, BridgeSendFails, BridgeEof, ReturnPty
<1>7. CASE BridgePeerGone \/ BridgeInput \/ BridgeSync
  BY <1>7 DEF BridgePeerGone, BridgeInput, BridgeSync, agent
<1> QED
  BY <1>1, <1>2, <1>3, <1>4, <1>5, <1>6, <1>7, Sides DEF AgentSide, AgentReads

(* What a read keystroke is.                                               *)
LEMMA InputRead ==
  ASSUME Shape, Known, Typed, BridgeInput
  PROVE  /\ inbox # <<>> /\ Head(inbox) \in Frame /\ Head(inbox).type = "input"
         /\ Head(inbox).key = key /\ key \in 1 .. cur /\ Head(inbox).n \in 1 .. typed
         /\ inbox' = Tail(inbox) /\ phase = "bridge"
         /\ written' = Append(written, [c |-> key, n |-> Head(inbox).n])
         /\ UNCHANGED <<phase, key, link, token, cur, cst, late, typed>>
<1>1. /\ inbox # <<>> /\ Head(inbox).type = "input" /\ Head(inbox).key = key /\ phase = "bridge"
      /\ inbox' = Tail(inbox) /\ written' = Append(written, [c |-> key, n |-> Head(inbox).n])
      /\ UNCHANGED <<phase, key, link, token, cur, cst, late, typed>>
  BY DEF BridgeInput, Reads, agent, app
<1>2. Head(inbox) \in UpTo(cur) /\ Head(inbox) \in Entered(typed)
  BY <1>1, SeqOps DEF Known, Typed
<1>3. Head(inbox) \in Frame /\ Head(inbox).key <= cur /\ Head(inbox).n <= typed
  BY <1>1, <1>2 DEF UpTo, Entered, Sender
<1>4. Head(inbox).key \in Caller /\ Head(inbox).n \in 1 .. MaxKey
  BY <1>1, <1>3, FrameShape DEF Sender
<1>5. key \in 1 .. cur /\ Head(inbox).n \in 1 .. typed
  BY <1>1, <1>3, <1>4, Bounds DEF Shape, AppType, Conn, Caller
<1> QED BY <1>1, <1>3, <1>5

(* The numbers of connections and keystrokes only grow.                    *)
LEMMA Grows ==
  ASSUME Shape, Shape', [Next]_vars
  PROVE  /\ cur \in Nat /\ cur' \in Nat /\ (cur' = cur \/ (AppConnects /\ cur' = cur + 1))
         /\ typed \in Nat /\ typed' \in Nat /\ (typed' = typed \/ (AppTypes /\ typed' = typed + 1))
         /\ cst' = "offer" => (cst = "offer" /\ cur' = cur) \/ (AppConnects /\ cur' = cur + 1)
<1>1. cur \in Nat /\ cur' \in Nat /\ typed \in Nat /\ typed' \in Nat
  BY Bounds DEF Shape, AppType, Conn
<1>2. CASE Still \/ LateFrame
  BY <1>1, <1>2 DEF Still, LateFrame, app, hist
<1>3. CASE AppConnects
  BY <1>1, <1>3 DEF AppConnects, hist
<1>4. CASE AppTypes \/ AppGetsOffer \/ AppGetsHmac
  BY <1>1, <1>4 DEF AppTypes, AppGetsOffer, AppGetsHmac, app, hist
<1> QED BY <1>2, <1>3, <1>4, StepKinds

(* The frames the app may send.                                            *)
LEMMA AppFrames ==
  ASSUME Shape, Shape'
  PROVE  /\ AppTypes => Input(cur, typed + 1) \in Frame /\ cur \in Caller /\ cst = "up"
         /\ AppGetsOffer => /\ Cipher(cur, Head(out).offer) \in Frame /\ cur \in Caller
                            /\ cst = "offer"
         /\ AppGetsHmac => SyncReq(cur, last') \in Frame /\ cur \in Caller /\ cst = "hmac"
<1>1. cur # 0 => cur \in Caller
  BY Bounds DEF Shape, AppType, Conn, Caller
<1>2. ASSUME AppTypes PROVE Input(cur, typed + 1) \in Frame /\ cur \in Caller /\ cst = "up"
  <2>1. typed + 1 \in 1 .. MaxKey /\ cur \in Caller /\ cst = "up"
    BY <1>1, <1>2, Bounds DEF AppTypes, Shape, AppType
  <2> QED BY <2>1, Frames
<1>3. ASSUME AppGetsOffer
      PROVE  Cipher(cur, Head(out).offer) \in Frame /\ cur \in Caller /\ cst = "offer"
  <2>1. Head(out).offer \in Nat
    BY <1>3, SeqOps, ReplyShape DEF Shape, NetType, AppGetsOffer, Arrives
  <2>2. cur \in Caller /\ cst = "offer"
    BY <1>1, <1>3 DEF AppGetsOffer, Listening, Shape, AppType
  <2> QED BY <2>1, <2>2, Frames
<1>4. ASSUME AppGetsHmac PROVE SyncReq(cur, last') \in Frame /\ cur \in Caller /\ cst = "hmac"
  <2>1. last' \in 0 .. MaxOut
    BY DEF Shape, AppType
  <2>2. cur \in Caller /\ cst = "hmac"
    BY <1>1, <1>4 DEF AppGetsHmac, Listening, Shape, AppType
  <2> QED BY <2>1, <2>2, Frames
<1> QED BY <1>2, <1>3, <1>4

LEMMA FrameKinds ==
  /\ \A c, h : Cipher(c, h).type = "cipher" /\ Cipher(c, h).key = c /\ Cipher(c, h).offer = h
  /\ \A c, n : Input(c, n).type = "input" /\ Input(c, n).key = c /\ Input(c, n).n = n
  /\ \A c, l : SyncReq(c, l).type = "sync_req" /\ SyncReq(c, l).key = c /\ SyncReq(c, l).last = l
  /\ Join.type = "join"
  BY DEF Cipher, Input, SyncReq, Join

LEMMA SpentStays ==
  ASSUME Shape, Shape', [Next]_vars, NEW c \in Caller, Spent(c)
  PROVE  Spent(c)'
<1>1. c <= cur' /\ ~(c = cur' /\ cst' = "offer")
  BY Grows, Bounds DEF Spent, Caller
<1>2. Join \in NoCipher(c) /\ Notice \subseteq NoCipher(c)
  BY Frames DEF NoCipher, Notice
<1>3. /\ AppTypes => Input(cur, typed + 1) \in NoCipher(c)
      /\ AppGetsOffer => Cipher(cur, Head(out).offer) \in NoCipher(c)
      /\ AppGetsHmac => SyncReq(cur, last') \in NoCipher(c)
  BY AppFrames, FrameKinds DEF NoCipher, Spent
<1>4. inbox' \in Seq(NoCipher(c)) /\ late' \in Seq(NoCipher(c))
  BY <1>2, <1>3, WayKeeps DEF Spent
<1> QED BY <1>1, <1>4 DEF Spent, NoCipher

LEMMA CipherSpends ==
  ASSUME Shape, Known, CipherOnce, NEW c \in Caller, HandshakeCipher, key' = c
  PROVE  Spent(c)'
<1>1. /\ inbox # <<>> /\ Head(inbox) \in Frame /\ Head(inbox).type = "cipher"
      /\ Head(inbox).key = c /\ c <= cur
  BY CipherKey DEF Caller, NoKey
<1>2. inbox' = Tail(inbox) /\ UNCHANGED <<cur, cst, late>> /\ inbox \in Seq(Frame)
  BY DEF HandshakeCipher, Reads, app, Shape, NetType
<1>3. inbox \notin Seq(NoCipher(c))
  BY <1>1, SeqOps DEF NoCipher
<1>4. late \in Seq(NoCipher(c)) /\ ~(c = cur /\ cst = "offer")
  BY <1>3 DEF CipherOnce
<1>5. ASSUME NEW k \in DOMAIN inbox' PROVE inbox'[k] \in NoCipher(c)
  <2>1. /\ 1 \in DOMAIN inbox /\ k + 1 \in DOMAIN inbox /\ 1 < k + 1
        /\ inbox'[k] = inbox[k + 1] /\ Head(inbox) = inbox[1] /\ inbox[k + 1] \in Frame
    BY <1>1, <1>2
  <2> QED BY <1>1, <2>1 DEF CipherOnce, NoCipher
<1>6. inbox' \in Seq(NoCipher(c))
  <2>1. inbox' \in Seq(Frame)
    BY <1>1, <1>2, SeqOps
  <2> QED BY <1>5, <2>1
<1> QED BY <1>1, <1>2, <1>4, <1>6 DEF Spent, NoCipher

LEMMA FreshStays ==
  ASSUME Shape, Shape', Known, CipherOnce, Typed, [Next]_vars, NEW c \in Caller, Fresh(c),
         HandshakeCipher => key' # c
  PROVE  Fresh(c)'
<1>1. key' # c
  BY KeyStep DEF Fresh, Caller, NoKey
<1>2. ~AppTypes \/ cur # c
  BY AppFrames DEF Fresh
<1>3. ~AppGetsHmac \/ cur # c
  <2>1. AppGetsHmac => Head(out) \in Silent(c) /\ Head(out).type = "hmac" /\ Head(out).key = cur
    BY SeqOps DEF AppGetsHmac, Arrives, Fresh
  <2> QED BY <2>1 DEF Silent
<1>4. ~(c = cur' /\ cst' = "up")
  <2>1. cst' = "up" => cst = "up" \/ AppGetsHmac
    BY UpStep
  <2>2. cst' = "up" => cur' = cur
    BY Grows DEF AppConnects
  <2> QED BY <1>3, <2>1, <2>2 DEF Fresh
<1>5. out' \in Seq(Silent(c))
  <2>1. \A m \in Reply : m.type = "offer" \/ (m.type = "pty" /\ m.key = key) => m \in Silent(c)
    BY DEF Silent, Fresh
  <2>2. HandshakeCipher => Hmac(key') \in Silent(c)
    BY <1>1, Replies DEF Silent, Shape, KeyType
  <2> QED BY <2>1, <2>2, OutKeeps DEF Fresh, Shape
<1>6. inbox' \in Seq(NoWork(c)) /\ late' \in Seq(NoWork(c))
  <2>1. Join \in NoWork(c) /\ Notice \subseteq NoWork(c)
    BY Frames DEF NoWork, Notice
  <2>2. /\ AppTypes => Input(cur, typed + 1) \in NoWork(c)
        /\ AppGetsOffer => Cipher(cur, Head(out).offer) \in NoWork(c)
        /\ AppGetsHmac => SyncReq(cur, last') \in NoWork(c)
    BY <1>2, <1>3, AppFrames, FrameKinds DEF NoWork
  <2> QED BY <2>1, <2>2, WayKeeps DEF Fresh
<1>7. NoneWritten(c)'
  <2>1. CASE written' = written
    BY <2>1 DEF Fresh, NoneWritten
  <2>2. CASE BridgeInput
    <3>1. /\ written' = Append(written, [c |-> key, n |-> Head(inbox).n])
          /\ written \in Seq(Strokes(cur, typed))
      BY <2>2, InputRead DEF Typed
    <3> QED BY <3>1 DEF Fresh, NoneWritten
  <2> QED BY <2>1, <2>2, WrittenStep
<1> QED BY <1>1, <1>4, <1>5, <1>6, <1>7 DEF Fresh, Silent, NoWork

LEMMA SpentOrFreshStep ==
  ASSUME Shape, Shape', Known, LifeInv, [Next]_vars
  PROVE  SpentOrFresh'
<1> SUFFICES ASSUME NEW c \in Caller PROVE Spent(c)' \/ Fresh(c)'
  BY DEF SpentOrFresh, Caller
<1>1. CipherOnce /\ Typed /\ (Spent(c) \/ Fresh(c))
  BY DEF LifeInv, SpentOrFresh
<1> QED BY <1>1, SpentStays, CipherSpends, FreshStays

LEMMA CipherOnceStep ==
  ASSUME Shape, Shape', Known, CipherOnce, [Next]_vars
  PROVE  CipherOnce'
<1>0. inbox \in Seq(Frame) /\ late \in Seq(Frame)
  BY DEF Shape, NetType
<1>1. ASSUME NEW c \in Caller
      PROVE  /\ Join \in NoCipher(c) /\ Notice \subseteq NoCipher(c)
             /\ AppTypes => Input(cur, typed + 1) \in NoCipher(c)
             /\ AppGetsHmac => SyncReq(cur, last') \in NoCipher(c)
             /\ AppGetsOffer /\ c # cur => Cipher(cur, Head(out).offer) \in NoCipher(c)
  BY AppFrames, FrameKinds, Frames DEF NoCipher, Notice
<1>2. \A c \in Caller : inbox' \in Seq(NoCipher(c)) \/ late' \in Seq(NoCipher(c))
  <2> SUFFICES ASSUME NEW c \in Caller
               PROVE  inbox' \in Seq(NoCipher(c)) \/ late' \in Seq(NoCipher(c))
    OBVIOUS
  <2>0. <<>> \in Seq(NoCipher(c))
    OBVIOUS
  <2>1. CASE inbox \in Seq(NoCipher(c)) /\ late \in Seq(NoCipher(c))
                /\ (AppGetsOffer => c # cur)
    BY <1>1, <2>1, WayKeeps
  <2>2. CASE AppGetsOffer /\ c = cur
    <3>1. Before(cur) \subseteq NoCipher(c) /\ late' = late
      BY <2>2, FrameShape DEF Before, NoCipher, AppGetsOffer, Caller
    <3> QED BY <3>1 DEF Known
  <2>3. CASE late \notin Seq(NoCipher(c))
    <3>1. inbox \in Seq(NoCipher(c))
      BY <2>3 DEF CipherOnce
    <3>2. CASE Still
      <4>1. CASE inbox # <<>> /\ inbox' = Tail(inbox)
        BY <3>1, <4>1, SeqOps
      <4>2. CASE \E m \in Notice : inbox' = Append(inbox, m)
        BY <1>1, <3>1, <4>2, SeqOps
      <4> QED BY <2>0, <3>1, <3>2, <4>1, <4>2 DEF Still
    <3>3. CASE LateFrame
      BY <2>0, <3>3 DEF LateFrame
    <3>4. CASE AppConnects
      <4>1. late # <<>>
        BY <2>0, <2>3
      <4>2. inbox' = ToAgent(inbox, Join)
        BY <3>4, <4>1 DEF AppConnects, Overtaken
      <4> QED BY <1>1, <3>1, <4>2, SeqOps DEF ToAgent
    <3>5. CASE AppTypes
      BY <1>1, <3>1, <3>5, SeqOps DEF ToAgent, AppTypes
    <3>6. CASE AppGetsHmac
      BY <1>1, <3>1, <3>6, SeqOps DEF ToAgent, AppGetsHmac
    <3>7. CASE AppGetsOffer /\ c # cur
      BY <1>1, <3>1, <3>7, SeqOps DEF ToAgent, AppGetsOffer
    <3> QED BY <2>2, <3>2, <3>3, <3>4, <3>5, <3>6, <3>7, StepKinds
  <2>4. CASE late \in Seq(NoCipher(c)) /\ inbox \notin Seq(NoCipher(c))
    <3>1. CASE UNCHANGED late
      BY <2>4, <3>1
    <3>2. CASE LateFrame
      BY <2>0, <3>2 DEF LateFrame
    <3>3. CASE AppConnects /\ late' # late
      <4>1. late' = <<Last(inbox)>> /\ inbox # <<>> /\ inbox' = Append(Front(inbox), Join)
        BY <3>3 DEF AppConnects, Overtaken
      <4>2. Last(inbox) \in Frame
        BY <1>0, <4>1, SeqOps
      <4>3. CASE Last(inbox) \in NoCipher(c)
        BY <4>1, <4>3
      <4>4. CASE Last(inbox) \notin NoCipher(c)
        <5>1. Last(inbox).type = "cipher" /\ Last(inbox).key = c
          BY <4>2, <4>4 DEF NoCipher
        <5>2. Last(inbox) = inbox[Len(inbox)] /\ Len(inbox) \in DOMAIN inbox
                /\ Front(inbox) \in Seq(Frame)
                /\ \A k \in DOMAIN Front(inbox) : k \in DOMAIN inbox /\ k < Len(inbox)
                                                   /\ Front(inbox)[k] = inbox[k]
          BY <1>0, <4>1 DEF Last, Front
        <5>3. ASSUME NEW k \in DOMAIN Front(inbox) PROVE Front(inbox)[k] \in NoCipher(c)
          BY <1>0, <5>1, <5>2 DEF CipherOnce, NoCipher
        <5>4. Front(inbox) \in Seq(NoCipher(c))
          BY <5>2, <5>3
        <5> QED BY <1>1, <4>1, <5>4, SeqOps
      <4> QED BY <4>3, <4>4
    <3> QED
      BY <3>1, <3>2, <3>3, StepKinds DEF Still, AppTypes, AppGetsOffer, AppGetsHmac
  <2> QED BY <2>1, <2>2, <2>3, <2>4
<1>3. cst' = "offer" => inbox' \in Seq(NoCipher(cur'))
  <2> SUFFICES ASSUME cst' = "offer" PROVE inbox' \in Seq(NoCipher(cur'))
    OBVIOUS
  <2>1. cur' \in Caller
    BY Bounds DEF Shape, AppType, Conn, Caller
  <2>2. CASE cst = "offer" /\ cur' = cur
    <3>1. ~AppGetsOffer
      BY DEF AppGetsOffer
    <3>2. late \in Seq(NoCipher(cur))
      <4>1. Before(cur) \subseteq NoCipher(cur)
        BY <2>1, <2>2, FrameShape DEF Before, NoCipher, Caller
      <4> QED BY <4>1 DEF Known
    <3> QED BY <1>1, <2>1, <2>2, <3>1, <3>2, WayKeeps DEF CipherOnce
  <2>3. CASE AppConnects /\ cur' = cur + 1
    <3>1. UpTo(cur) \subseteq NoCipher(cur')
      BY <2>3, Bounds, FrameShape DEF UpTo, NoCipher, Sender, Caller, Shape, AppType, Conn
    <3>2. inbox \in Seq(NoCipher(cur')) /\ late \in Seq(NoCipher(cur'))
      <4>1. Before(cur) \subseteq UpTo(cur)
        BY FrameShape DEF Before, UpTo, Caller, Shape, AppType, Conn
      <4> QED BY <3>1, <4>1 DEF Known
    <3>3. ~AppGetsOffer
      BY <2>3 DEF AppConnects, AppGetsOffer
    <3> QED BY <1>1, <2>1, <3>2, <3>3, WayKeeps
  <2> QED BY <2>2, <2>3, Grows
<1>4. \A i, j \in DOMAIN inbox' :
        i < j /\ inbox'[i].type = "cipher" /\ inbox'[j].type = "cipher" => inbox'[i].key # inbox'[j].key
  <2> SUFFICES ASSUME NEW i \in DOMAIN inbox', NEW j \in DOMAIN inbox', i < j,
                      inbox'[i].type = "cipher", inbox'[j].type = "cipher"
               PROVE  inbox'[i].key # inbox'[j].key
    OBVIOUS
  <2>1. CASE inbox' = inbox
    BY <2>1 DEF CipherOnce
  <2>2. CASE inbox' = <<>>
    BY <2>2
  <2>3. CASE inbox # <<>> /\ inbox' = Tail(inbox)
    <3>1. /\ Len(inbox') = Len(inbox) - 1 /\ Len(inbox) \in Nat
          /\ DOMAIN inbox = 1 .. Len(inbox) /\ DOMAIN inbox' = 1 .. Len(inbox')
      BY <1>0, <2>3
    <3>2. \A k \in 1 .. Len(inbox') : inbox'[k] = inbox[k + 1]
      BY <1>0, <2>3
    <3>3. /\ i + 1 \in DOMAIN inbox /\ j + 1 \in DOMAIN inbox /\ i + 1 < j + 1
          /\ inbox'[i] = inbox[i + 1] /\ inbox'[j] = inbox[j + 1]
      BY <3>1, <3>2
    <3> QED BY <3>3 DEF CipherOnce
  <2>4. ASSUME NEW m \in Frame, inbox' = Append(inbox, m),
               m.type = "cipher" => inbox \in Seq(NoCipher(m.key))
        PROVE  inbox'[i].key # inbox'[j].key
    <3>1. i \in DOMAIN inbox /\ inbox'[i] = inbox[i]
      BY <1>0, <2>4
    <3>2. CASE j \in DOMAIN inbox
      <4>1. inbox'[j] = inbox[j]
        BY <1>0, <2>4, <3>2
      <4> QED BY <3>1, <3>2, <4>1 DEF CipherOnce
    <3>3. CASE j \notin DOMAIN inbox
      <4>1. inbox'[j] = m
        BY <1>0, <2>4, <3>3
      <4>2. inbox[i] \in NoCipher(m.key)
        BY <2>4, <3>1, <4>1
      <4> QED BY <3>1, <4>1, <4>2 DEF NoCipher
    <3> QED BY <3>2, <3>3
  <2>5. ASSUME NEW m \in Frame, inbox' = ToAgent(inbox, m),
               m.type = "cipher" => inbox \in Seq(NoCipher(m.key))
        PROVE  inbox'[i].key # inbox'[j].key
    BY <2>1, <2>4, <2>5 DEF ToAgent
  <2>6. CASE Still
    <3>1. CASE \E m \in Notice : inbox' = Append(inbox, m)
      BY <2>4, <3>1 DEF Notice
    <3> QED BY <2>1, <2>2, <2>3, <2>6, <3>1 DEF Still
  <2>7. CASE AppTypes \/ AppGetsHmac
    BY <2>5, <2>7, AppFrames, FrameKinds DEF AppTypes, AppGetsHmac
  <2>8. CASE AppGetsOffer
    <3>1. inbox \in Seq(NoCipher(cur))
      BY <2>8, AppFrames DEF CipherOnce
    <3> QED BY <2>5, <2>8, <3>1, AppFrames, FrameKinds DEF AppGetsOffer
  <2>9. CASE LateFrame
    <3>1. late # <<>> /\ inbox' = ToAgent(inbox, Head(late)) /\ Head(late) \in Frame
      BY <1>0, <2>9, SeqOps DEF LateFrame
    <3>2. ASSUME Head(late).type = "cipher" PROVE inbox \in Seq(NoCipher(Head(late).key))
      <4>1. Head(late).key \in Caller
        BY <3>1, <3>2, FrameShape DEF Sender
      <4>2. late \notin Seq(NoCipher(Head(late).key))
        BY <3>1, <3>2, SeqOps DEF NoCipher
      <4> QED BY <4>1, <4>2 DEF CipherOnce
    <3> QED BY <2>5, <3>1, <3>2
  <2>10. CASE AppConnects
    <3>1. Join \in Frame /\ Join.type # "cipher"
      BY Frames
    <3>2. CASE inbox' = ToAgent(inbox, Join)
      BY <2>5, <3>1, <3>2
    <3>3. CASE inbox # <<>> /\ inbox' = Append(Front(inbox), Join)
      <4>1. /\ Front(inbox) \in Seq(Frame) /\ Len(Front(inbox)) = Len(inbox) - 1
            /\ Len(inbox) \in Nat
            /\ \A k \in 1 .. Len(inbox) - 1 : Front(inbox)[k] = inbox[k]
        BY <1>0, <3>3 DEF Front
      <4>2. /\ DOMAIN inbox' = 1 .. Len(inbox) /\ inbox'[Len(inbox)] = Join
            /\ \A k \in 1 .. Len(inbox) - 1 : inbox'[k] = inbox[k]
        BY <3>1, <3>3, <4>1
      <4>3. /\ i \in DOMAIN inbox /\ j \in DOMAIN inbox
            /\ inbox'[i] = inbox[i] /\ inbox'[j] = inbox[j]
        BY <1>0, <3>1, <4>1, <4>2
      <4> QED BY <4>3 DEF CipherOnce
    <3> QED BY <2>10, <3>2, <3>3 DEF AppConnects, Overtaken
  <2> QED BY <2>6, <2>7, <2>8, <2>9, <2>10, StepKinds
<1> QED BY <1>2, <1>3, <1>4 DEF CipherOnce, NoCipher

LEMMA TypedStep ==
  ASSUME Shape, Shape', Known, Typed, [Next]_vars
  PROVE  Typed'
<1>0. cur <= cur' /\ typed <= typed' /\ cur \in Nat /\ typed \in Nat /\ cur' \in Nat /\ typed' \in Nat
  BY Grows
<1>1. written' \in Seq(Strokes(cur', typed'))
  <2>1. Strokes(cur, typed) \subseteq Strokes(cur', typed')
    BY <1>0 DEF Strokes
  <2>2. CASE written' = written
    BY <2>1, <2>2 DEF Typed
  <2>3. CASE BridgeInput
    <3>1. key \in 1 .. cur /\ Head(inbox).n \in 1 .. typed
      BY <2>3, InputRead
    <3>2. [c |-> key, n |-> Head(inbox).n] \in Strokes(cur, typed)
      BY <3>1 DEF Strokes
    <3>3. written' = Append(written, [c |-> key, n |-> Head(inbox).n])
      BY <2>3, InputRead
    <3> QED BY <2>1, <3>2, <3>3, SeqOps DEF Typed
  <2> QED BY <2>2, <2>3, WrittenStep
<1>2. inbox' \in Seq(Entered(typed')) /\ late' \in Seq(Entered(typed'))
  <2>1. Entered(typed) \subseteq Entered(typed')
    BY <1>0, FrameShape DEF Entered
  <2>2. inbox \in Seq(Entered(typed')) /\ late \in Seq(Entered(typed'))
    BY <2>1 DEF Typed
  <2>3. Join \in Entered(typed') /\ Notice \subseteq Entered(typed')
    BY Frames DEF Entered, Notice
  <2>4. AppTypes => Input(cur, typed + 1) \in Entered(typed')
    <3>1. AppTypes => typed' = typed + 1
      BY DEF AppTypes
    <3> QED BY <1>0, <3>1, AppFrames, FrameKinds DEF Entered
  <2>5. /\ AppGetsOffer => Cipher(cur, Head(out).offer) \in Entered(typed')
        /\ AppGetsHmac => SyncReq(cur, last') \in Entered(typed')
    BY AppFrames, FrameKinds DEF Entered
  <2> QED BY <2>2, <2>3, <2>4, <2>5, WayKeeps
<1> QED BY <1>1, <1>2 DEF Typed, Entered

LEMMA NoneYetStep ==
  ASSUME Shape, Shape', Known, Typed, NoneYet, [Next]_vars
  PROVE  NoneYet'
<1> SUFFICES ASSUME cst' \in {"offer", "hmac"}
             PROVE  /\ inbox' \in Seq(NoWork(cur'))
                    /\ \A i \in DOMAIN written' : written'[i].c # cur'
  BY DEF NoneYet, NoWork, NoneWritten
<1>0. cur \in Nat /\ cur' \in Nat /\ (cur # 0 => cur \in Caller) /\ Before(cur) \subseteq UpTo(cur)
  BY Bounds, FrameShape DEF Shape, AppType, Conn, Caller, Before, UpTo
<1>1. CASE AppConnects
  <2>1. cur' = cur + 1
    BY <1>1 DEF AppConnects
  <2>2. UpTo(cur) \subseteq NoWork(cur')
    BY <1>0, <2>1, FrameShape DEF UpTo, NoWork, Sender, Caller
  <2>3. inbox \in Seq(NoWork(cur')) /\ late \in Seq(NoWork(cur'))
    BY <1>0, <2>2 DEF Known
  <2>4. ~AppTypes /\ ~AppGetsOffer /\ ~AppGetsHmac
    BY <1>1 DEF AppConnects, AppTypes, AppGetsOffer, AppGetsHmac, Listening
  <2>5. Join \in NoWork(cur') /\ Notice \subseteq NoWork(cur')
    BY Frames DEF NoWork, Notice
  <2>6. inbox' \in Seq(NoWork(cur'))
    BY <2>3, <2>4, <2>5, WayKeeps
  <2>7. \A i \in DOMAIN written' : written'[i].c # cur'
    <3>1. written' = written
      BY <1>1 DEF AppConnects, hist
    <3>2. \A i \in DOMAIN written : written[i] \in Strokes(cur, typed)
      BY DEF Typed
    <3> QED BY <1>0, <2>1, <3>1, <3>2 DEF Strokes
  <2> QED BY <2>6, <2>7
<1>2. CASE ~AppConnects
  <2>1. cur' = cur /\ cst \in {"offer", "hmac"}
    <3>1. CASE Still \/ LateFrame \/ AppGetsOffer
      BY <3>1, AppFrames DEF Still, LateFrame, AppGetsOffer, app
    <3>2. CASE AppTypes \/ AppGetsHmac
      BY <3>2, AppFrames DEF AppTypes, AppGetsHmac, app
    <3> QED BY <1>2, <3>1, <3>2, StepKinds
  <2>2. inbox \in Seq(NoWork(cur)) /\ NoneWritten(cur)
    BY <2>1 DEF NoneYet
  <2>3. late \in Seq(NoWork(cur))
    <3>1. Before(cur) \subseteq NoWork(cur)
      BY <1>0, FrameShape DEF Before, NoWork, Caller
    <3> QED BY <3>1 DEF Known
  <2>4. ~AppTypes /\ ~AppGetsHmac
    BY <2>1, AppFrames DEF AppGetsHmac
  <2>5. AppGetsOffer => Cipher(cur, Head(out).offer) \in NoWork(cur)
    BY AppFrames, FrameKinds DEF NoWork
  <2>6. Join \in NoWork(cur) /\ Notice \subseteq NoWork(cur)
    BY Frames DEF NoWork, Notice
  <2>7. inbox' \in Seq(NoWork(cur))
    BY <2>2, <2>3, <2>4, <2>5, <2>6, WayKeeps
  <2>8. \A i \in DOMAIN written' : written'[i].c # cur'
    <3>1. CASE written' = written
      BY <2>1, <2>2, <3>1 DEF NoneWritten
    <3>2. CASE BridgeInput
      <4>1. /\ Head(inbox).type = "input" /\ Head(inbox).key = key
            /\ written' = Append(written, [c |-> key, n |-> Head(inbox).n])
            /\ inbox # <<>>
        BY <3>2, InputRead
      <4>2. key # cur
        BY <2>2, <4>1, SeqOps DEF NoWork
      <4>3. written \in Seq(Strokes(cur, typed))
        BY DEF Typed
      <4> QED BY <2>1, <2>2, <4>1, <4>2, <4>3 DEF NoneWritten
    <3> QED BY <3>1, <3>2, WrittenStep
  <2> QED BY <2>1, <2>7, <2>8
<1> QED BY <1>1, <1>2

LEMMA LifeStep == Shape /\ Shape' /\ KeyInv /\ LifeInv /\ [Next]_vars => LifeInv'
  BY SpentOrFreshStep, CipherOnceStep, TypedStep, NoneYetStep DEF LifeInv, KeyInv

-----------------------------------------------------------------------------
(* The order of keystrokes.  Those of session k are heard in frames that   *)
(* are read before a join ends the bridge; the last one heard before       *)
(* frame i, or written, is Ahead of it; and one follows the other.         *)
Heard(box, k, i) ==
  box[i].type = "input" /\ box[i].key = k /\ \A j \in 1 .. i - 1 : box[j].type # "join"
Ahead(box, w, k, i, x) ==
  \/ \E j \in 1 .. i - 1 : Heard(box, k, j) /\ box[j].n = x
  \/ w # <<>> /\ Last(w).c = k /\ Last(w).n = x
Chained(box, w, k, i, n) ==
  \A x \in Nat : Ahead(box, w, k, i, x) => x < n /\ Ahead(box, w, k, i, n - 1)
Following(box, w, k) ==
  \A i \in DOMAIN box : Heard(box, k, i) =>
    /\ w # <<>> => Last(w).n < box[i].n
    /\ Chained(box, w, k, i, box[i].n)

(* What is on the way follows what was written, what is typed next follows *)
(* both, and what an old handler still holds of the session is behind the  *)
(* join of the connection that replaced it.                                *)
Stream == phase = "bridge" => Following(inbox, written, key)
NextFollows ==
  cst = "up" /\ phase = "bridge" /\ link = "up" =>
    Chained(inbox, written, key, Len(inbox) + 1, typed + 1)
LateBehindJoin ==
  phase = "bridge" /\ late # <<>> /\ Head(late).type = "input" /\ Head(late).key = key =>
    \E j \in DOMAIN inbox : inbox[j].type = "join"
InputInv == Stream /\ NextFollows /\ LateBehindJoin /\ InputInOrder

Keystrokes == [c : Nat, n : Nat]

LEMMA LastAppended ==
  ASSUME NEW S, NEW s \in Seq(S), NEW e \in S
  PROVE  Append(s, e) # <<>> /\ Last(Append(s, e)) = e
  BY DEF Last

LEMMA LastWritten ==
  ASSUME NEW w \in Seq(Keystrokes), NEW k \in Nat, NEW n \in Nat
  PROVE  LET v == Append(w, [c |-> k, n |-> n]) IN v # <<>> /\ Last(v).c = k /\ Last(v).n = n
<1>1. [c |-> k, n |-> n] \in Keystrokes
  BY DEF Keystrokes
<1> QED BY <1>1, LastAppended

(* A frame of no matter is dropped from the front.                         *)
LEMMA DropFront ==
  ASSUME NEW box \in Seq(Frame), box # <<>>, NEW w, NEW k, NEW i \in 2 .. Len(box) + 1,
         Head(box).type # "join"
  PROVE  /\ i \in DOMAIN box => (Heard(Tail(box), k, i - 1) <=> Heard(box, k, i))
         /\ i \in DOMAIN box => Tail(box)[i - 1] = box[i]
         /\ ~Heard(box, k, 1) =>
              \A x : Ahead(Tail(box), w, k, i - 1, x) <=> Ahead(box, w, k, i, x)
<1>1. /\ Len(box) \in Nat \ {0} /\ DOMAIN box = 1 .. Len(box) /\ Head(box) = box[1]
      /\ \A j \in 2 .. Len(box) : Tail(box)[j - 1] = box[j]
      /\ i \in Int
  OBVIOUS
<1>2. ASSUME NEW j \in 2 .. Len(box)
      PROVE  Heard(Tail(box), k, j - 1) <=> Heard(box, k, j)
  <2>1. j \in Int /\ Tail(box)[j - 1] = box[j]
    BY <1>1
  <2>2. ASSUME NEW m \in 1 .. j - 2 PROVE m + 1 \in 1 .. j - 1 /\ Tail(box)[m] = box[m + 1]
    <3>1. m \in Int /\ m + 1 \in 2 .. Len(box) /\ (m + 1) - 1 = m
      BY <1>1, <2>1
    <3> QED BY <1>1, <2>1, <3>1
  <2>3. ASSUME NEW m \in 2 .. j - 1 PROVE m - 1 \in 1 .. j - 2 /\ Tail(box)[m - 1] = box[m]
    BY <1>1, <2>1
  <2>4. (\A m \in 1 .. j - 2 : Tail(box)[m].type # "join")
          <=> (\A m \in 1 .. j - 1 : box[m].type # "join")
    <3>1. ASSUME \A m \in 1 .. j - 2 : Tail(box)[m].type # "join", NEW m \in 1 .. j - 1
          PROVE  box[m].type # "join"
      <4>1. CASE m = 1
        BY <1>1, <4>1
      <4>2. CASE m # 1
        <5>1. m \in 2 .. j - 1
          BY <2>1, <4>2
        <5> QED BY <2>3, <3>1, <5>1
      <4> QED BY <4>1, <4>2
    <3>2. ASSUME \A m \in 1 .. j - 1 : box[m].type # "join", NEW m \in 1 .. j - 2
          PROVE  Tail(box)[m].type # "join"
      BY <2>2, <3>2
    <3> QED BY <3>1, <3>2
  <2>5. (j - 1) - 1 = j - 2
    BY <2>1
  <2> QED BY <2>1, <2>4, <2>5 DEF Heard
<1>3. ASSUME ~Heard(box, k, 1), NEW x
      PROVE  Ahead(Tail(box), w, k, i - 1, x) <=> Ahead(box, w, k, i, x)
  <2>1. ASSUME NEW j \in 1 .. (i - 1) - 1, Heard(Tail(box), k, j), Tail(box)[j].n = x
        PROVE  \E m \in 1 .. i - 1 : Heard(box, k, m) /\ box[m].n = x
    <3>1. j + 1 \in 2 .. Len(box) /\ (j + 1) - 1 = j /\ j + 1 \in 1 .. i - 1
      BY <1>1
    <3> QED BY <1>1, <1>2, <2>1, <3>1
  <2>2. ASSUME NEW j \in 1 .. i - 1, Heard(box, k, j), box[j].n = x
        PROVE  \E m \in 1 .. (i - 1) - 1 : Heard(Tail(box), k, m) /\ Tail(box)[m].n = x
    <3>1. j # 1
      BY <1>3, <2>2
    <3>2. j \in 2 .. Len(box) /\ j - 1 \in 1 .. (i - 1) - 1
      BY <1>1, <3>1
    <3> QED BY <1>1, <1>2, <2>2, <3>2
  <2> QED BY <2>1, <2>2 DEF Ahead
<1> QED BY <1>1, <1>2, <1>3

LEMMA SkipFollows ==
  ASSUME NEW box \in Seq(Frame), box # <<>>, NEW w, NEW k,
         Head(box).type # "join", ~Heard(box, k, 1)
  PROVE  /\ Following(box, w, k) => Following(Tail(box), w, k)
         /\ \A n \in Nat : Chained(box, w, k, Len(box) + 1, n)
                             => Chained(Tail(box), w, k, Len(Tail(box)) + 1, n)
<1>1. /\ Len(box) \in Nat \ {0} /\ Len(Tail(box)) = Len(box) - 1
      /\ DOMAIN Tail(box) = 1 .. Len(box) - 1 /\ DOMAIN box = 1 .. Len(box)
  OBVIOUS
<1>2. ASSUME Following(box, w, k) PROVE Following(Tail(box), w, k)
  <2> SUFFICES ASSUME NEW i \in DOMAIN Tail(box), Heard(Tail(box), k, i)
               PROVE  /\ w # <<>> => Last(w).n < Tail(box)[i].n
                      /\ Chained(Tail(box), w, k, i, Tail(box)[i].n)
    BY DEF Following
  <2>1. i + 1 \in 2 .. Len(box) + 1 /\ i + 1 \in DOMAIN box /\ (i + 1) - 1 = i
    BY <1>1
  <2>2. /\ Heard(box, k, i + 1) /\ Tail(box)[i] = box[i + 1]
        /\ \A x : Ahead(Tail(box), w, k, i, x) <=> Ahead(box, w, k, i + 1, x)
    BY <2>1, DropFront
  <2>3. (w # <<>> => Last(w).n < box[i + 1].n) /\ Chained(box, w, k, i + 1, box[i + 1].n)
    BY <1>2, <2>1, <2>2 DEF Following
  <2> QED BY <2>2, <2>3 DEF Chained
<1>3. ASSUME NEW n \in Nat, Chained(box, w, k, Len(box) + 1, n)
      PROVE  Chained(Tail(box), w, k, Len(Tail(box)) + 1, n)
  <2>1. Len(box) + 1 \in 2 .. Len(box) + 1 /\ (Len(box) + 1) - 1 = Len(Tail(box)) + 1
    BY <1>1
  <2>2. \A x : Ahead(Tail(box), w, k, Len(Tail(box)) + 1, x) <=> Ahead(box, w, k, Len(box) + 1, x)
    BY <2>1, DropFront
  <2> QED BY <1>3, <2>2 DEF Chained
<1> QED BY <1>2, <1>3

(* A keystroke is read and written.                                        *)
LEMMA ReadChained ==
  ASSUME NEW box \in Seq(Frame), box # <<>>, NEW w \in Seq(Keystrokes), NEW k \in Nat,
         NEW i \in 2 .. Len(box) + 1, NEW n \in Nat,
         Heard(box, k, 1), Head(box).n \in Nat, Following(box, w, k), Chained(box, w, k, i, n)
  PROVE  Chained(Tail(box), Append(w, [c |-> k, n |-> Head(box).n]), k, i - 1, n)
<1> DEFINE h == Head(box).n
           v == Append(w, [c |-> k, n |-> h])
<1>1. /\ v # <<>> /\ Last(v).c = k /\ Last(v).n = h
  BY LastWritten
<1>2. /\ Len(box) \in Nat \ {0} /\ DOMAIN box = 1 .. Len(box) /\ Head(box) = box[1]
      /\ Head(box).type # "join" /\ i \in Int
  BY DEF Heard
<1> HIDE DEF v
<1>3. ASSUME NEW j \in 1 .. i - 1, j # 1
      PROVE  /\ j - 1 \in 1 .. (i - 1) - 1
             /\ Heard(Tail(box), k, j - 1) <=> Heard(box, k, j)
             /\ Tail(box)[j - 1] = box[j]
  <2>1. j \in 2 .. Len(box) + 1 /\ j \in DOMAIN box /\ j - 1 \in 1 .. (i - 1) - 1
    BY <1>2, <1>3
  <2> QED BY <1>2, <2>1, DropFront
<1>4. h \in Nat /\ Ahead(box, w, k, i, h)
  <2>1. 1 \in 1 .. i - 1 /\ box[1].n = h
    BY <1>2
  <2> QED BY <2>1 DEF Ahead
<1>5. h < n /\ Ahead(box, w, k, i, n - 1)
  BY <1>4 DEF Chained
<1>6. Ahead(Tail(box), v, k, i - 1, n - 1)
  <2>1. CASE \E j \in 1 .. i - 1 : Heard(box, k, j) /\ box[j].n = n - 1
    <3>1. PICK j \in 1 .. i - 1 : Heard(box, k, j) /\ box[j].n = n - 1
      BY <2>1
    <3>2. CASE j = 1
      BY <1>1, <1>2, <3>1, <3>2 DEF Ahead
    <3>3. CASE j # 1
      BY <1>3, <3>1, <3>3 DEF Ahead
    <3> QED BY <3>2, <3>3
  <2>2. CASE w # <<>> /\ Last(w).c = k /\ Last(w).n = n - 1
    <3>1. Last(w).n < h
      BY <1>2, <2>2 DEF Following
    <3> QED BY <1>4, <1>5, <2>2, <3>1
  <2> QED BY <1>5, <2>1, <2>2 DEF Ahead
<1>7. ASSUME NEW x \in Nat, Ahead(Tail(box), v, k, i - 1, x) PROVE x < n
  <2>1. CASE x = h
    BY <1>5, <2>1
  <2>2. CASE \E j \in 1 .. (i - 1) - 1 : Heard(Tail(box), k, j) /\ Tail(box)[j].n = x
    <3>1. PICK j \in 1 .. (i - 1) - 1 : Heard(Tail(box), k, j) /\ Tail(box)[j].n = x
      BY <2>2
    <3>2. j + 1 \in 1 .. i - 1 /\ j + 1 # 1 /\ (j + 1) - 1 = j
      BY <1>2
    <3>3. Heard(box, k, j + 1) /\ box[j + 1].n = x
      BY <1>3, <3>1, <3>2
    <3>4. Ahead(box, w, k, i, x)
      BY <3>2, <3>3 DEF Ahead
    <3> QED BY <3>4 DEF Chained
  <2> QED BY <1>1, <1>7, <2>1, <2>2 DEF Ahead
<1> QED BY <1>6, <1>7 DEF Chained, v

LEMMA ReadFollows ==
  ASSUME NEW box \in Seq(Frame), box # <<>>, NEW w \in Seq(Keystrokes), NEW k \in Nat,
         Heard(box, k, 1), Head(box).n \in Nat, Following(box, w, k)
  PROVE  Following(Tail(box), Append(w, [c |-> k, n |-> Head(box).n]), k)
<1> DEFINE v == Append(w, [c |-> k, n |-> Head(box).n])
<1>1. v # <<>> /\ Last(v).n = Head(box).n
  BY LastWritten
<1>2. /\ Len(box) \in Nat \ {0} /\ DOMAIN box = 1 .. Len(box) /\ Head(box) = box[1]
      /\ DOMAIN Tail(box) = 1 .. Len(box) - 1 /\ Head(box).type # "join"
  BY DEF Heard
<1> HIDE DEF v
<1> SUFFICES ASSUME NEW i \in DOMAIN Tail(box), Heard(Tail(box), k, i)
             PROVE  /\ Head(box).n < Tail(box)[i].n
                    /\ Chained(Tail(box), v, k, i, Tail(box)[i].n)
  BY <1>1 DEF Following, v
<1>3. i + 1 \in 2 .. Len(box) + 1 /\ i + 1 \in DOMAIN box /\ (i + 1) - 1 = i /\ 1 \in 1 .. (i + 1) - 1
  BY <1>2
<1>4. Heard(box, k, i + 1) /\ Tail(box)[i] = box[i + 1]
  BY <1>2, <1>3, DropFront
<1>5. Chained(box, w, k, i + 1, box[i + 1].n) /\ box[i + 1].n \in Nat
  <2>1. box[i + 1] \in Frame
    BY <1>3
  <2>2. box[i + 1].n \in 1 .. MaxKey
    BY <1>4, <2>1, FrameShape DEF Heard
  <2> QED BY <1>3, <1>4, <2>2, Bounds DEF Following
<1>6. Head(box).n < box[i + 1].n
  <2>1. Ahead(box, w, k, i + 1, Head(box).n)
    BY <1>2, <1>3 DEF Ahead
  <2> QED BY <1>5, <2>1 DEF Chained
<1> QED BY <1>3, <1>4, <1>5, <1>6, ReadChained DEF v

(* A frame is added, or the last one replaced.                             *)
LEMMA SameFront ==
  ASSUME NEW box, NEW new, NEW w, NEW k, NEW i \in Nat,
         \A j \in 1 .. i : new[j] = box[j]
  PROVE  /\ i # 0 => (Heard(new, k, i) <=> Heard(box, k, i))
         /\ \A x : Ahead(new, w, k, i, x) <=> Ahead(box, w, k, i, x)
         /\ \A x : Ahead(new, w, k, i + 1, x) <=> Ahead(box, w, k, i + 1, x)
         /\ \A n : Chained(new, w, k, i, n) <=> Chained(box, w, k, i, n)
         /\ \A n : Chained(new, w, k, i + 1, n) <=> Chained(box, w, k, i + 1, n)
<1>1. ASSUME NEW j \in 1 .. i PROVE Heard(new, k, j) <=> Heard(box, k, j)
  <2>1. new[j] = box[j] /\ \A m \in 1 .. j - 1 : m \in 1 .. i
    OBVIOUS
  <2>2. \A m \in 1 .. j - 1 : new[m] = box[m]
    BY <2>1
  <2> QED BY <2>1, <2>2 DEF Heard
<1>2. i # 0 => i \in 1 .. i
  OBVIOUS
<1>3. (\A j \in 1 .. i - 1 : j \in 1 .. i) /\ (i + 1) - 1 = i
  OBVIOUS
<1>4. ASSUME NEW x PROVE Ahead(new, w, k, i, x) <=> Ahead(box, w, k, i, x)
  BY <1>1, <1>3 DEF Ahead
<1>5. ASSUME NEW x PROVE Ahead(new, w, k, i + 1, x) <=> Ahead(box, w, k, i + 1, x)
  BY <1>1, <1>3 DEF Ahead
<1> QED BY <1>1, <1>2, <1>4, <1>5 DEF Chained

LEMMA AppendFollows ==
  ASSUME NEW box \in Seq(Frame), NEW m \in Frame, NEW w, NEW k,
         Following(box, w, k),
         Heard(Append(box, m), k, Len(box) + 1) =>
           (w # <<>> => Last(w).n < m.n) /\ Chained(box, w, k, Len(box) + 1, m.n)
  PROVE  Following(Append(box, m), w, k)
<1> DEFINE new == Append(box, m)
<1>1. /\ Len(box) \in Nat /\ DOMAIN new = 1 .. Len(box) + 1 /\ new[Len(box) + 1] = m
      /\ DOMAIN box = 1 .. Len(box) /\ \A j \in 1 .. Len(box) : new[j] = box[j]
  OBVIOUS
<1> HIDE DEF new
<1> SUFFICES ASSUME NEW i \in DOMAIN new, Heard(new, k, i)
             PROVE  /\ w # <<>> => Last(w).n < new[i].n
                    /\ Chained(new, w, k, i, new[i].n)
  BY DEF Following, new
<1>2. CASE i = Len(box) + 1
  <2>1. \A n : Chained(new, w, k, i, n) <=> Chained(box, w, k, i, n)
    BY <1>1, <1>2, SameFront
  <2> QED BY <1>1, <1>2, <2>1 DEF new
<1>3. CASE i # Len(box) + 1
  <2>1. i \in 1 .. Len(box) /\ i \in Nat /\ i # 0 /\ \A j \in 1 .. i : j \in 1 .. Len(box)
    BY <1>1, <1>3
  <2>2. \A j \in 1 .. i : new[j] = box[j]
    BY <1>1, <2>1
  <2>3. Heard(box, k, i) /\ \A n : Chained(new, w, k, i, n) <=> Chained(box, w, k, i, n)
    BY <2>1, <2>2, SameFront
  <2> QED BY <1>1, <2>1, <2>3 DEF Following
<1> QED BY <1>2, <1>3

LEMMA AppendChains ==
  ASSUME NEW box \in Seq(Frame), NEW m \in Frame, NEW w, NEW k, NEW n \in Nat,
         Chained(box, w, k, Len(box) + 1, n)
  PROVE  /\ ~Heard(Append(box, m), k, Len(box) + 1) =>
              Chained(Append(box, m), w, k, Len(box) + 2, n)
         /\ Heard(Append(box, m), k, Len(box) + 1) /\ m.n = n =>
              Chained(Append(box, m), w, k, Len(box) + 2, n + 1)
<1> DEFINE new == Append(box, m)
           l == Len(box)
<1>1. /\ l \in Nat /\ new[l + 1] = m /\ \A j \in 1 .. l : new[j] = box[j]
      /\ (l + 2) - 1 = l + 1 /\ 1 .. l + 1 = 1 .. l \cup {l + 1} /\ (l + 1) - 1 = l
  OBVIOUS
<1> HIDE DEF new, l
<1>2. \A x : Ahead(new, w, k, l + 1, x) <=> Ahead(box, w, k, l + 1, x)
  BY <1>1, SameFront
<1>3. \A x : Ahead(new, w, k, l + 2, x)
               <=> Ahead(box, w, k, l + 1, x) \/ (Heard(new, k, l + 1) /\ m.n = x)
  BY <1>1, <1>2 DEF Ahead
<1>4. ASSUME ~Heard(new, k, l + 1) PROVE Chained(new, w, k, l + 2, n)
  BY <1>3, <1>4 DEF Chained, l
<1>5. ASSUME Heard(new, k, l + 1), m.n = n PROVE Chained(new, w, k, l + 2, n + 1)
  <2>1. (n + 1) - 1 = n
    OBVIOUS
  <2>2. \A x \in Nat : Ahead(box, w, k, l + 1, x) => x < n
    BY DEF Chained, l
  <2>3. \A x \in Nat : Ahead(new, w, k, l + 2, x) => x < n + 1
    BY <1>3, <1>5, <2>2
  <2>4. Ahead(new, w, k, l + 2, (n + 1) - 1)
    BY <1>3, <1>5, <2>1
  <2> QED BY <2>3, <2>4 DEF Chained
<1> QED BY <1>4, <1>5 DEF new, l

LEMMA ReplaceFollows ==
  ASSUME NEW box \in Seq(Frame), box # <<>>, NEW w, NEW k, Following(box, w, k)
  PROVE  /\ Following(Append(Front(box), Join), w, k)
         /\ \E j \in DOMAIN Append(Front(box), Join) : Append(Front(box), Join)[j].type = "join"
<1>1. /\ Front(box) \in Seq(Frame) /\ Len(Front(box)) = Len(box) - 1
      /\ Len(box) \in Nat \ {0} /\ DOMAIN box = 1 .. Len(box)
      /\ \A j \in 1 .. Len(box) - 1 : Front(box)[j] = box[j]
      /\ DOMAIN Front(box) = 1 .. Len(box) - 1
  <2>1. Len(box) \in Nat \ {0} /\ DOMAIN box = 1 .. Len(box)
    OBVIOUS
  <2>2. Front(box) \in Seq(Frame) /\ Len(Front(box)) = Len(box) - 1
    <3>1. Front(box) \in Seq(Frame)
      BY SeqOps
    <3>2. Front(box) = SubSeq(box, 1, Len(box) - 1)
      BY DEF Front
    <3>3. Len(SubSeq(box, 1, Len(box) - 1)) = Len(box) - 1
      BY <2>1
    <3> QED BY <3>1, <3>2, <3>3
  <2>3. \A j \in 1 .. Len(box) - 1 : Front(box)[j] = box[j]
    BY DEF Front
  <2> QED BY <2>1, <2>2, <2>3
<1>2. Join \in Frame /\ Join.type = "join"
  BY Frames
<1>3. /\ Append(Front(box), Join)[Len(box)] = Join
      /\ DOMAIN Append(Front(box), Join) = 1 .. Len(box)
  BY <1>1, <1>2
<1>4. ~Heard(Append(Front(box), Join), k, Len(Front(box)) + 1)
  BY <1>1, <1>2, <1>3 DEF Heard
<1>5. Following(Front(box), w, k)
  <2> SUFFICES ASSUME NEW i \in DOMAIN Front(box), Heard(Front(box), k, i)
               PROVE  /\ w # <<>> => Last(w).n < Front(box)[i].n
                      /\ Chained(Front(box), w, k, i, Front(box)[i].n)
    BY DEF Following
  <2>1. i \in Nat /\ i # 0 /\ i \in DOMAIN box /\ \A j \in 1 .. i : j \in 1 .. Len(box) - 1
    BY <1>1
  <2>2. \A j \in 1 .. i : Front(box)[j] = box[j]
    BY <1>1, <2>1
  <2>3. /\ Heard(box, k, i) /\ Front(box)[i] = box[i]
        /\ \A n : Chained(Front(box), w, k, i, n) <=> Chained(box, w, k, i, n)
    BY <1>1, <2>1, <2>2, SameFront
  <2> QED BY <2>1, <2>3 DEF Following
<1>6. Following(Append(Front(box), Join), w, k)
  BY <1>1, <1>2, <1>4, <1>5, AppendFollows
<1>7. Len(box) \in DOMAIN Append(Front(box), Join)
  BY <1>1, <1>3
<1> QED BY <1>2, <1>3, <1>6, <1>7

(* Nothing of session k is on the way or was the last to be written.       *)
LEMMA NoneHeard ==
  ASSUME NEW box, NEW w, NEW k,
         \A i \in DOMAIN box : box[i].type = "input" => box[i].key # k,
         w # <<>> => Last(w).c # k
  PROVE  /\ Following(box, w, k)
         /\ \A i, n : (\A j \in 1 .. i - 1 : j \in DOMAIN box) => Chained(box, w, k, i, n)
  BY DEF Following, Chained, Ahead, Heard

(* An agent that serves a client goes on to, under the same key, or loses  *)
(* its connection; it never passes a join.                                 *)
LEMMA BridgeReads ==
  ASSUME AgentSide, phase' = "bridge", ~HandshakeCipher, ~BridgeInput
  PROVE  /\ phase = "bridge" /\ key' = key /\ token' = token /\ written' = written
         /\ link' = "up" => link = "up"
         /\ \/ inbox' = inbox \/ inbox' = Append(inbox, Auth)
            \/ /\ inbox # <<>> /\ inbox' = Tail(inbox) /\ Head(inbox).type # "join"
               /\ ~(Head(inbox).type = "input" /\ Head(inbox).key = key)
               /\ Head(inbox).type = "sync_req" /\ Head(inbox).key = key => BridgeSync
<1> USE DEF agent, net, hist
<1>1. CASE MainLoop
  BY <1>1 DEF MainLoop, Spawn, Connect, ConnectFails
<1>2. CASE LinkLost \/ ShellWrites \/ ShellExits
  BY <1>2 DEF LinkLost, ShellWrites, ShellExits
<1>3. CASE Greet
  BY <1>3 DEF Greet, ToAgent
<1>4. CASE InitAuth \/ InitIgnore \/ InitJoin \/ WaitJoin \/ BridgeJoin \/ WaitIgnore
  BY <1>4
  DEF InitAuth, InitIgnore, InitJoin, WaitJoin, BridgeJoin, WaitIgnore, JoinIn, StartHandshake, Skips
<1>5. CASE JoinBootFails \/ InitEnds \/ WaitEnds \/ BridgeEnds
  BY <1>5 DEF JoinBootFails, BootFails, InitEnds, WaitEnds, BridgeEnds, ReturnPty
<1>6. CASE HandshakeIgnore \/ HandshakeSendFails \/ HandshakeEnds
  BY <1>6 DEF HandshakeIgnore, HandshakeSendFails, HandshakeEnds, Skips
<1>7. CASE AgentPty
  BY <1>7 DEF AgentPty, WaitPty, BridgePty, BridgeSendFails, BridgeEof, ReturnPty
<1>8. CASE BridgePeerGone
  BY <1>8 DEF BridgePeerGone
<1>9. CASE BridgeIgnore
  BY <1>9 DEF BridgeIgnore, Skips, Foreign
<1>10. CASE BridgeSync
  BY <1>10 DEF BridgeSync, Reads
<1> QED
  BY <1>1, <1>2, <1>3, <1>4, <1>5, <1>6, <1>7, <1>8, <1>9, <1>10 DEF AgentSide, AgentReads

LEMMA WrittenKinds == Shape /\ Typed => written \in Seq(Keystrokes) /\ inbox \in Seq(Frame)
<1> SUFFICES ASSUME Shape, Typed PROVE written \in Seq(Keystrokes) /\ inbox \in Seq(Frame)
  OBVIOUS
<1>1. Strokes(cur, typed) \subseteq Keystrokes
  BY Bounds DEF Strokes, Keystrokes, Shape, AppType, Conn
<1> QED BY <1>1 DEF Typed, Shape, NetType

(* The agent takes a ciphertext: nothing of its key is on the way.         *)
LEMMA CipherHears ==
  ASSUME Shape, Shape', KeyInv, LifeInv, HandshakeCipher
  PROVE  /\ Following(inbox', written', key') /\ cst' # "up"
         /\ ~(late' # <<>> /\ Head(late').type = "input" /\ Head(late').key = key')
<1>1. inbox \in Seq(Frame) /\ inbox # <<>> /\ Head(inbox).type = "cipher"
        /\ key' \in {NoKey, Head(inbox).key} /\ Head(inbox) \in Frame
  BY CipherKey DEF KeyInv, Shape, NetType
<1>2. /\ inbox' = Tail(inbox) /\ written' = written /\ late' = late /\ cst' = cst
      /\ phase = "handshake"
  BY DEF HandshakeCipher, Reads, app, hist
<1>3. cst' # "up"
  BY <1>2 DEF KeyInv, SettledOnceConfirmed, Settled, Shape, AppType
<1>4. late \in Seq(Frame)
  BY DEF Shape, NetType
<1>5. CASE key' = NoKey
  <2>1. \A m \in Frame : m.type = "input" => m.key # key'
    BY <1>5, FrameShape DEF Sender, Caller, NoKey
  <2>2. inbox' \in Seq(Frame)
    BY <1>1, <1>2, SeqOps
  <2>3. late' # <<>> => Head(late') \in Frame
    BY <1>2, <1>4, SeqOps
  <2>4. written' # <<>> => Last(written').c # key'
    <3>1. written # <<>> => Last(written) \in Strokes(cur, typed)
      BY SeqOps DEF LifeInv, Typed
    <3> QED BY <1>2, <1>5, <3>1 DEF Strokes, NoKey
  <2>5. Following(inbox', written', key')
    BY <2>1, <2>2, <2>4, NoneHeard
  <2> QED BY <1>3, <2>1, <2>3, <2>5
<1>6. CASE key' # NoKey
  <2>1. key' \in Caller /\ Head(inbox).key = key'
    BY <1>1, <1>6, FrameShape DEF Sender
  <2>2. Head(inbox) \notin NoCipher(key')
    BY <1>1, <2>1 DEF NoCipher
  <2>3. inbox \in Seq(NoWork(key')) /\ late \in Seq(NoWork(key')) /\ NoneWritten(key')
    <3>1. ~Spent(key')
      BY <1>1, <2>2, SeqOps DEF Spent
    <3> QED BY <2>1, <3>1 DEF LifeInv, SpentOrFresh, Fresh
  <2>4. inbox' \in Seq(NoWork(key')) /\ (late' # <<>> => Head(late') \in NoWork(key'))
    BY <1>1, <1>2, <2>3, SeqOps
  <2>5. written' # <<>> => Last(written').c # key'
    <3>1. written # <<>> => Len(written) \in DOMAIN written
      BY DEF LifeInv, Typed
    <3> QED BY <1>2, <2>3, <3>1 DEF NoneWritten, Last
  <2>6. Following(inbox', written', key')
    BY <2>4, <2>5, NoneHeard DEF NoWork
  <2> QED BY <1>3, <2>4, <2>6 DEF NoWork
<1> QED BY <1>5, <1>6

(* Any other step of a system whose agent serves a client.                 *)
Skipped ==
  /\ UNCHANGED <<cur, cst, late, typed>>
  /\ inbox # <<>> /\ inbox' = Tail(inbox) /\ Head(inbox).type # "join"
  /\ ~(Head(inbox).type = "input" /\ Head(inbox).key = key)
LEMMA InBridge ==
  ASSUME Shape, [Next]_vars, phase' = "bridge", ~HandshakeCipher, ~BridgeInput
  PROVE  /\ phase = "bridge" /\ key' = key /\ written' = written
         /\ link' = "up" => link = "up"
         /\ \/ Calm \/ Skipped \/ AppConnects \/ AppTypes
            \/ AppGetsOffer \/ AppGetsHmac \/ LateFrame
<1>1. CASE UNCHANGED vars
  BY <1>1 DEF vars, agent, net, app, hist, Calm
<1>2. CASE AppSide
  BY <1>2, AppKeeps, AppKinds
<1>3. CASE AgentSide
  <2>1. Auth \in Notice
    BY Frames DEF Notice
  <2> QED BY <1>3, <2>1, BridgeReads, AgentKeeps DEF Calm, Skipped
<1> QED BY <1>1, <1>2, <1>3, Sides

LEMMA NotHeard ==
  ASSUME NEW box \in Seq(Frame), NEW m \in Frame, NEW k, ~(m.type = "input" /\ m.key = k)
  PROVE  ~Heard(Append(box, m), k, Len(box) + 1)
<1>1. Append(box, m)[Len(box) + 1] = m
  OBVIOUS
<1> QED BY <1>1 DEF Heard

(* A frame of no matter for session k is added, or lost on the way.        *)
LEMMA OtherFollows ==
  ASSUME Shape, NEW m \in Frame, NEW w, NEW k, ~(m.type = "input" /\ m.key = k),
         inbox' = ToAgent(inbox, m) \/ inbox' = Append(inbox, m) \/ inbox' = inbox
  PROVE  /\ Following(inbox, w, k) => Following(inbox', w, k)
         /\ \A n \in Nat : Chained(inbox, w, k, Len(inbox) + 1, n)
                             => Chained(inbox', w, k, Len(inbox') + 1, n)
<1>1. inbox \in Seq(Frame)
  BY DEF Shape, NetType
<1>2. inbox' = inbox \/ inbox' = Append(inbox, m)
  BY DEF ToAgent
<1>3. ~Heard(Append(inbox, m), k, Len(inbox) + 1)
  BY <1>1, NotHeard
<1>4. Len(Append(inbox, m)) + 1 = Len(inbox) + 2
  BY <1>1
<1>5. CASE inbox' = Append(inbox, m)
  BY <1>1, <1>3, <1>4, <1>5, AppendFollows, AppendChains
<1> QED BY <1>2, <1>5

LEMMA InputInvInit == Init => InputInv
  BY DEF Init, InputInv, Stream, NextFollows, LateBehindJoin, InputInOrder

(* Who is through is the client served, and no join is on the way.         *)
LEMMA UpServed ==
  ASSUME Shape, KeyInv, cst = "up"
  PROVE  inbox \in Seq(NoJoin) /\ (phase = "bridge" => key = cur) /\ cur \in Caller
  BY Bounds DEF Shape, AppType, KeyInv, SettledOnceConfirmed, Settled, Conn, Caller

LEMMA InputReadStep ==
  ASSUME Shape, Shape', KeyInv, LifeInv, InputInv, BridgeInput
  PROVE  InputInv'
<1>1. /\ inbox # <<>> /\ Head(inbox) \in Frame /\ Head(inbox).type = "input"
      /\ Head(inbox).key = key /\ key \in 1 .. cur /\ Head(inbox).n \in 1 .. typed
      /\ inbox' = Tail(inbox) /\ phase = "bridge"
      /\ written' = Append(written, [c |-> key, n |-> Head(inbox).n])
      /\ UNCHANGED <<phase, key, link, token, cur, cst, late, typed>>
  BY InputRead DEF KeyInv, LifeInv
<1>2. /\ inbox \in Seq(Frame) /\ written \in Seq(Keystrokes) /\ key \in Nat /\ Head(inbox).n \in Nat
      /\ typed \in Nat
  BY <1>1, WrittenKinds, Bounds DEF LifeInv, Shape, AppType, Conn
<1>3. /\ Head(inbox) = inbox[1] /\ Len(inbox) \in Nat \ {0} /\ DOMAIN inbox = 1 .. Len(inbox)
      /\ Len(Tail(inbox)) + 1 = (Len(inbox) + 1) - 1
      /\ Len(inbox) + 1 \in 2 .. Len(inbox) + 1
      /\ \A i \in 2 .. Len(inbox) : i - 1 \in DOMAIN Tail(inbox) /\ Tail(inbox)[i - 1] = inbox[i]
  BY <1>1, <1>2
<1>4. Heard(inbox, key, 1)
  BY <1>1, <1>3 DEF Heard
<1>5. Following(inbox, written, key)
  BY <1>1 DEF InputInv, Stream
<1>6. Stream'
  BY <1>1, <1>2, <1>4, <1>5, ReadFollows DEF Stream
<1>7. NextFollows'
  <2> SUFFICES ASSUME cst = "up", link = "up"
               PROVE  Chained(inbox', written', key, Len(inbox') + 1, typed + 1)
    BY <1>1 DEF NextFollows
  <2>1. Chained(inbox, written, key, Len(inbox) + 1, typed + 1)
    BY <1>1 DEF InputInv, NextFollows
  <2>2. typed + 1 \in Nat
    BY <1>2
  <2>3. Chained(Tail(inbox), written', key, (Len(inbox) + 1) - 1, typed + 1)
    BY <1>1, <1>2, <1>3, <1>4, <1>5, <2>1, <2>2, ReadChained
  <2> QED BY <1>1, <1>3, <2>3
<1>8. LateBehindJoin'
  <2> SUFFICES ASSUME late # <<>>, Head(late).type = "input", Head(late).key = key
               PROVE  \E j \in DOMAIN inbox' : inbox'[j].type = "join"
    BY <1>1 DEF LateBehindJoin
  <2>1. PICK j \in DOMAIN inbox : inbox[j].type = "join"
    BY <1>1 DEF InputInv, LateBehindJoin
  <2>2. j # 1
    BY <1>1, <1>3, <2>1
  <2>3. j \in 2 .. Len(inbox)
    BY <1>3, <2>1, <2>2
  <2> QED BY <1>1, <1>3, <2>1, <2>3
<1>9. InputInOrder'
  <2> DEFINE h == Head(inbox).n
             v == Append(written, [c |-> key, n |-> h])
  <2>1. [c |-> key, n |-> h].c = key /\ [c |-> key, n |-> h].n = h
    OBVIOUS
  <2>2. /\ Len(v) = Len(written) + 1 /\ Len(written) \in Nat
        /\ v[Len(written) + 1] = [c |-> key, n |-> h]
        /\ \A i \in 1 .. Len(written) : v[i] = written[i]
    BY <1>2
  <2> HIDE DEF v
  <2> SUFFICES ASSUME NEW i \in 2 .. Len(written) + 1
               PROVE  /\ v[i - 1].n < v[i].n
                      /\ v[i - 1].c = v[i].c => v[i].n = v[i - 1].n + 1
    BY <1>1, <2>2 DEF InputInOrder, v
  <2>3. CASE i # Len(written) + 1
    <3>1. i \in 2 .. Len(written) /\ i \in 1 .. Len(written) /\ i - 1 \in 1 .. Len(written)
      BY <2>2, <2>3
    <3>2. v[i] = written[i] /\ v[i - 1] = written[i - 1]
      BY <2>2, <3>1
    <3> QED BY <3>1, <3>2 DEF InputInv, InputInOrder
  <2>4. CASE i = Len(written) + 1
    <3>1. i - 1 = Len(written) /\ Len(written) \in 1 .. Len(written) /\ written # <<>>
      BY <2>2, <2>4
    <3>2. v[i] = [c |-> key, n |-> h] /\ v[i - 1] = Last(written)
      BY <2>2, <2>4, <3>1 DEF Last
    <3>3. Last(written) \in Keystrokes
      BY <1>2, <3>1, SeqOps
    <3>4. 1 \in DOMAIN inbox /\ inbox[1].n = h
      BY <1>3
    <3>5. Last(written).n < h /\ Chained(inbox, written, key, 1, h)
      BY <1>4, <1>5, <3>1, <3>4 DEF Following
    <3>6. ASSUME Last(written).c = key PROVE h = Last(written).n + 1
      <4>1. Last(written).n \in Nat
        BY <3>3 DEF Keystrokes
      <4>2. Ahead(inbox, written, key, 1, Last(written).n)
        BY <3>1, <3>6 DEF Ahead
      <4>3. Ahead(inbox, written, key, 1, h - 1)
        BY <3>5, <4>1, <4>2 DEF Chained
      <4>4. 1 .. 1 - 1 = {}
        OBVIOUS
      <4>5. Last(written).n = h - 1
        BY <4>3, <4>4 DEF Ahead
      <4> QED BY <1>2, <4>1, <4>5
    <3> QED BY <2>1, <3>2, <3>5, <3>6
  <2> QED BY <2>3, <2>4
<1> QED BY <1>6, <1>7, <1>8, <1>9 DEF InputInv

(* What the app sends that is no keystroke: the way stays in order.        *)
LEMMA OtherSent ==
  ASSUME Shape, Shape', KeyInv, LifeInv, InputInv, [Next]_vars, phase = "bridge",
         AppGetsOffer \/ AppGetsHmac
  PROVE  /\ Following(inbox', written, key) /\ late' = late
         /\ \A j \in DOMAIN inbox : j \in DOMAIN inbox' /\ inbox'[j] = inbox[j]
         /\ cst' = "up" /\ link = "up" => Chained(inbox', written, key, Len(inbox') + 1, typed' + 1)
<1>1. PICK m \in Frame : m.type \in {"cipher", "sync_req"} /\ inbox' = ToAgent(inbox, m)
  <2>1. CASE AppGetsOffer
    <3>1. inbox' = ToAgent(inbox, Cipher(cur, Head(out).offer))
      BY <2>1 DEF AppGetsOffer
    <3>2. Cipher(cur, Head(out).offer) \in Frame
      BY <2>1, AppFrames
    <3> QED BY <3>1, <3>2, FrameKinds
  <2>2. CASE AppGetsHmac
    <3>1. inbox' = ToAgent(inbox, SyncReq(cur, last'))
      BY <2>2 DEF AppGetsHmac
    <3>2. SyncReq(cur, last') \in Frame
      BY <2>2, AppFrames
    <3> QED BY <3>1, <3>2, FrameKinds
  <2> QED BY <2>1, <2>2
<1>2. late' = late /\ typed' = typed /\ cur' = cur /\ inbox \in Seq(Frame) /\ typed + 1 \in Nat
  BY Bounds DEF AppGetsOffer, AppGetsHmac, hist, Shape, NetType, AppType
<1>3. Following(inbox', written, key)
  BY <1>1, OtherFollows DEF InputInv, Stream
<1>4. \A j \in DOMAIN inbox : j \in DOMAIN inbox' /\ inbox'[j] = inbox[j]
  BY <1>1, <1>2 DEF ToAgent
<1>5. ASSUME cst' = "up", link = "up"
      PROVE  Chained(inbox', written, key, Len(inbox') + 1, typed' + 1)
  <2>1. AppGetsHmac /\ cst = "hmac" /\ cur \in Caller
    BY <1>5, AppFrames DEF AppGetsOffer
  <2>2. out # <<>> /\ Head(out).type = "hmac" /\ Head(out).key = cur
    BY <2>1 DEF AppGetsHmac, Arrives
  <2>3. out \notin Seq(Unconfirmed(cur))
    BY <2>2, SeqOps DEF Unconfirmed
  <2>4. key = cur
    BY <2>1, <2>3 DEF KeyInv, SettledOnceConfirmed, Settled, Caller
  <2>5. inbox \in Seq(NoWork(cur)) /\ NoneWritten(cur)
    BY <2>1 DEF LifeInv, NoneYet
  <2>6. \A i \in DOMAIN inbox : inbox[i].type = "input" => inbox[i].key # key
    BY <2>4, <2>5 DEF NoWork
  <2>7. written # <<>> => Last(written).c # key
    <3>1. written # <<>> => Len(written) \in DOMAIN written
      BY DEF LifeInv, Typed
    <3> QED BY <2>4, <2>5, <3>1 DEF NoneWritten, Last
  <2>8. \A j \in 1 .. (Len(inbox) + 1) - 1 : j \in DOMAIN inbox
    BY <1>2
  <2>9. Chained(inbox, written, key, Len(inbox) + 1, typed + 1)
    BY <2>6, <2>7, <2>8, NoneHeard
  <2> QED BY <1>1, <1>2, <2>9, OtherFollows
<1> QED BY <1>2, <1>3, <1>4, <1>5

(* A keystroke is sent: one more than the last of this session.            *)
LEMMA TypedFollows ==
  ASSUME Shape, Shape', KeyInv, LifeInv, InputInv, phase = "bridge", AppTypes
  PROVE  /\ Following(inbox', written, key) /\ late' = late
         /\ \A j \in DOMAIN inbox : j \in DOMAIN inbox' /\ inbox'[j] = inbox[j]
         /\ link = "up" => Chained(inbox', written, key, Len(inbox') + 1, typed' + 1)
<1> DEFINE m == Input(cur, typed + 1)
<1>1. /\ late' = late /\ typed' = typed + 1 /\ typed \in Nat /\ typed + 1 \in Nat /\ cst = "up"
      /\ inbox' = ToAgent(inbox, m) /\ m \in Frame /\ inbox \in Seq(Frame)
  BY AppFrames, Bounds DEF AppTypes, Shape, NetType, AppType
<1>2. m.type = "input" /\ m.key = cur /\ m.n = typed + 1
  BY FrameKinds
<1> HIDE DEF m
<1>3. Following(inbox, written, key)
  BY DEF InputInv, Stream
<1>4. \A j \in DOMAIN inbox : j \in DOMAIN inbox' /\ inbox'[j] = inbox[j]
  BY <1>1 DEF ToAgent
<1>5. CASE link # "up"
  BY <1>1, <1>3, <1>4, <1>5 DEF ToAgent
<1>6. CASE link = "up"
  <2>1. inbox' = Append(inbox, m) /\ key = cur /\ inbox \in Seq(NoJoin)
    BY <1>1, <1>6, UpServed DEF ToAgent
  <2>2. Chained(inbox, written, key, Len(inbox) + 1, typed + 1)
    BY <1>1, <1>6 DEF InputInv, NextFollows
  <2>3. written # <<>> => Last(written).n < m.n
    <3>1. written # <<>> => Last(written) \in Strokes(cur, typed)
      BY SeqOps DEF LifeInv, Typed
    <3> QED BY <1>1, <1>2, <3>1 DEF Strokes
  <2>4. Following(inbox', written, key)
    BY <1>1, <1>2, <1>3, <2>1, <2>2, <2>3, AppendFollows
  <2>5. Heard(Append(inbox, m), key, Len(inbox) + 1)
    <3>1. /\ Append(inbox, m)[Len(inbox) + 1] = m
          /\ \A j \in 1 .. (Len(inbox) + 1) - 1 : j \in DOMAIN inbox /\ Append(inbox, m)[j] = inbox[j]
      BY <1>1
    <3>2. \A j \in DOMAIN inbox : inbox[j].type # "join"
      BY <2>1 DEF NoJoin
    <3> QED BY <1>2, <2>1, <3>1, <3>2 DEF Heard
  <2>6. Chained(Append(inbox, m), written, key, Len(inbox) + 2, (typed + 1) + 1)
    BY <1>1, <1>2, <2>2, <2>5, AppendChains
  <2>7. Len(inbox') + 1 = Len(inbox) + 2
    BY <1>1, <2>1
  <2> QED BY <1>1, <1>4, <2>1, <2>4, <2>6, <2>7
<1> QED BY <1>5, <1>6

(* A new connection, whose join ends the stream.                           *)
LEMMA JoinFollows ==
  ASSUME Shape, InputInv, phase = "bridge", AppConnects
  PROVE  /\ Following(inbox', written, key) /\ cst' # "up"
         /\ late' # <<>> /\ Head(late').type = "input" /\ Head(late').key = key =>
              \E j \in DOMAIN inbox' : inbox'[j].type = "join"
<1>1. inbox \in Seq(Frame) /\ Following(inbox, written, key) /\ cst' = "offer"
  BY DEF Shape, NetType, InputInv, Stream, AppConnects
<1>2. CASE inbox' = ToAgent(inbox, Join) /\ late' = late
  <2>1. Join \in Frame /\ Join.type # "input"
    BY Frames
  <2>2. Following(inbox', written, key)
    BY <1>1, <1>2, <2>1, OtherFollows
  <2>3. \A j \in DOMAIN inbox : j \in DOMAIN inbox' /\ inbox'[j] = inbox[j]
    BY <1>1, <1>2 DEF ToAgent
  <2> QED BY <1>1, <1>2, <2>2, <2>3 DEF InputInv, LateBehindJoin
<1>3. CASE Overtaken /\ inbox' = Append(Front(inbox), Join)
  BY <1>1, <1>3, ReplaceFollows DEF Overtaken
<1> QED BY <1>2, <1>3 DEF AppConnects

(* A frame of an older connection comes late: behind a join, if it is of   *)
(* the session the agent still serves.                                     *)
LEMMA LateFollows ==
  ASSUME Shape, KeyInv, InputInv, phase = "bridge", LateFrame
  PROVE  /\ Following(inbox', written, key) /\ late' = <<>>
         /\ cst = "up" /\ link = "up" => Chained(inbox', written, key, Len(inbox') + 1, typed + 1)
<1> DEFINE m == Head(late)
<1>1. late # <<>> /\ late' = <<>> /\ inbox' = ToAgent(inbox, m) /\ inbox \in Seq(Frame)
  BY DEF LateFrame, Shape, NetType
<1>2. m \in Before(cur)
  BY <1>1, SeqOps DEF KeyInv, Known
<1>3. m \in Frame /\ m.key < cur /\ m.type \in Sender /\ m.key \in Caller
  BY <1>2, FrameShape DEF Before
<1> HIDE DEF m
<1>4. Following(inbox, written, key)
  BY DEF InputInv, Stream
<1>5. Following(inbox', written, key)
  <2>1. CASE ~(m.type = "input" /\ m.key = key)
    BY <1>1, <1>3, <1>4, <2>1, OtherFollows
  <2>2. CASE m.type = "input" /\ m.key = key
    <3>1. PICK j \in DOMAIN inbox : inbox[j].type = "join"
      BY <1>1, <2>2 DEF InputInv, LateBehindJoin, m
    <3>2. j \in 1 .. (Len(inbox) + 1) - 1 /\ Append(inbox, m)[j] = inbox[j]
      BY <1>1, <3>1
    <3>3. ~Heard(Append(inbox, m), key, Len(inbox) + 1)
      BY <3>1, <3>2 DEF Heard
    <3> QED BY <1>1, <1>3, <1>4, <3>3, AppendFollows DEF ToAgent
  <2> QED BY <2>1, <2>2
<1>6. ASSUME cst = "up", link = "up"
      PROVE  Chained(inbox', written, key, Len(inbox') + 1, typed + 1)
  <2>1. key = cur /\ typed + 1 \in Nat /\ cur \in Nat
    BY <1>6, UpServed, Bounds DEF Shape, AppType, Conn
  <2>2. m.key # key
    BY <1>3, <2>1, Bounds DEF Caller
  <2>3. Chained(inbox, written, key, Len(inbox) + 1, typed + 1)
    BY <1>6 DEF InputInv, NextFollows
  <2> QED BY <1>1, <1>3, <2>1, <2>2, <2>3, OtherFollows
<1> QED BY <1>1, <1>5, <1>6

LEMMA CalmFollows ==
  ASSUME Shape, InputInv, phase = "bridge", Calm \/ Skipped
  PROVE  /\ Following(inbox', written, key) /\ UNCHANGED <<late, typed>>
         /\ cst' = "up" /\ link = "up" => Chained(inbox', written, key, Len(inbox') + 1, typed + 1)
         /\ \A j \in DOMAIN inbox : inbox[j].type = "join" =>
              \E i \in DOMAIN inbox' : inbox'[i].type = "join"
<1>1. /\ UNCHANGED <<late, typed>> /\ inbox \in Seq(Frame) /\ Following(inbox, written, key)
      /\ typed + 1 \in Nat
  BY Bounds DEF Calm, Skipped, Shape, NetType, AppType, InputInv, Stream
<1>2. cst' = "up" /\ link = "up" => Chained(inbox, written, key, Len(inbox) + 1, typed + 1)
  BY DEF Calm, Skipped, InputInv, NextFollows
<1>3. CASE inbox' = inbox
  BY <1>1, <1>2, <1>3
<1>4. CASE \E m \in Notice : inbox' = Append(inbox, m)
  <2>1. PICK m \in Notice : inbox' = Append(inbox, m)
    BY <1>4
  <2>2. m \in Frame /\ m.type # "input"
    BY DEF Notice
  <2>3. \A j \in DOMAIN inbox : j \in DOMAIN inbox' /\ inbox'[j] = inbox[j]
    BY <1>1, <2>1
  <2> QED BY <1>1, <1>2, <2>1, <2>2, <2>3, OtherFollows
<1>5. CASE Skipped
  <2>1. /\ inbox # <<>> /\ inbox' = Tail(inbox) /\ Head(inbox).type # "join"
        /\ ~(Head(inbox).type = "input" /\ Head(inbox).key = key)
    BY <1>5 DEF Skipped
  <2>2. ~Heard(inbox, key, 1)
    BY <1>1, <2>1 DEF Heard
  <2>3. ASSUME NEW j \in DOMAIN inbox, inbox[j].type = "join"
        PROVE  \E i \in DOMAIN inbox' : inbox'[i].type = "join"
    <3>1. j # 1
      BY <1>1, <2>1, <2>3
    <3>2. j - 1 \in DOMAIN inbox' /\ inbox'[j - 1] = inbox[j]
      BY <1>1, <2>1, <3>1
    <3> QED BY <2>3, <3>2
  <2> QED BY <1>1, <1>2, <2>1, <2>2, <2>3, SkipFollows
<1> QED BY <1>3, <1>4, <1>5 DEF Calm

LEMMA InputInvStep ==
  ASSUME Shape, Shape', KeyInv, LifeInv, InputInv, [Next]_vars
  PROVE  InputInv'
<1>1. CASE BridgeInput
  BY <1>1, InputReadStep
<1>2. CASE ~BridgeInput
  <2>1. written' = written /\ InputInOrder'
    BY <1>2, WrittenStep DEF InputInv, InputInOrder
  <2>2. CASE HandshakeCipher
    BY <2>1, <2>2, CipherHears DEF InputInv, Stream, NextFollows, LateBehindJoin
  <2>3. CASE phase' # "bridge"
    BY <2>1, <2>3 DEF InputInv, Stream, NextFollows, LateBehindJoin
  <2>4. CASE phase' = "bridge" /\ ~HandshakeCipher
    <3>1. /\ phase = "bridge" /\ key' = key /\ (link' = "up" => link = "up")
          /\ \/ Calm \/ Skipped \/ AppConnects \/ AppTypes
             \/ AppGetsOffer \/ AppGetsHmac \/ LateFrame
      BY <1>2, <2>4, InBridge
    <3>2. CASE Calm \/ Skipped
      BY <2>1, <3>1, <3>2, CalmFollows DEF InputInv, Stream, NextFollows, LateBehindJoin
    <3>3. CASE AppConnects
      BY <2>1, <3>1, <3>3, JoinFollows DEF InputInv, Stream, NextFollows, LateBehindJoin
    <3>4. CASE AppTypes
      BY <2>1, <3>1, <3>4, TypedFollows DEF InputInv, Stream, NextFollows, LateBehindJoin
    <3>5. CASE AppGetsOffer \/ AppGetsHmac
      BY <2>1, <3>1, <3>5, OtherSent DEF InputInv, Stream, NextFollows, LateBehindJoin
    <3>6. CASE LateFrame
      <4>1. cst' = cst /\ typed' = typed
        BY <3>6 DEF LateFrame, app, hist
      <4> QED BY <2>1, <3>1, <3>6, <4>1, LateFollows DEF InputInv, Stream, NextFollows, LateBehindJoin
    <3> QED BY <3>1, <3>2, <3>3, <3>4, <3>5, <3>6
  <2> QED BY <2>2, <2>3, <2>4
<1> QED BY <1>1, <1>2

(* What the proofs about the session's input and output start from.        *)
LEMMA Lives == Spec => []Shape /\ []KeyInv /\ []LifeInv
<1>1. Spec => []Shape
  BY InitShape, ShapeStep, PTL DEF Spec
<1>2. KeyInv /\ []Shape /\ [][Next]_vars => []KeyInv
  <2>1. KeyInv /\ Shape /\ Shape' /\ [Next]_vars => KeyInv'
    BY KeyInvStep
  <2> QED BY <2>1, PTL
<1>3. LifeInv /\ []Shape /\ []KeyInv /\ [][Next]_vars => []LifeInv
  <2>1. LifeInv /\ Shape /\ Shape' /\ KeyInv /\ [Next]_vars => LifeInv'
    BY LifeStep
  <2> QED BY <2>1, PTL
<1> QED BY <1>1, <1>2, <1>3, KeyInvInit, LifeInit, PTL DEF Spec

(* Keystrokes reach the shell in the order they were typed, none twice,    *)
(* and none of a connection is left out between two that arrived: over any *)
(* number of connections, through losses of either connection, rejoins and *)
(* frames an old handler forwards late (BridgeInput; bridge_loop's check   *)
(* of the session id, session.rs).                                         *)
THEOREM InputOrdered == Spec => []InputInOrder
<1>1. InputInv /\ []Shape /\ []KeyInv /\ []LifeInv /\ [][Next]_vars => []InputInv
  <2>1. InputInv /\ Shape /\ Shape' /\ KeyInv /\ LifeInv /\ [Next]_vars => InputInv'
    BY InputInvStep
  <2> QED BY <2>1, PTL
<1>2. InputInv => InputInOrder
  BY DEF InputInv
<1> QED BY <1>1, <1>2, Lives, InputInvInit, PTL DEF Spec
=============================================================================
