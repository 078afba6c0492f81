------------------------ MODULE SessionOutputProofs ------------------------
(***************************************************************************)
(* Output, from the shell to the app's terminal: packets are genuine, and  *)
(* the replay leaves no hole but of what the relay dropped; for any number *)
(* of connections, runs, chunks and keystrokes and any size of the relay's *)
(* channels.                                                               *)
(***************************************************************************)
EXTENDS SessionInputProofs

-----------------------------------------------------------------------------
(* Chunks are buffered and queued in the order they were written.          *)
Rising(s) == \A i \in 1 .. Len(s) - 1 : s[i] < s[i + 1]
UpToNow == \A i \in 1 .. Len(ring \o ptyq) : (ring \o ptyq)[i] <= produced
Numbered == Rising(ring \o ptyq) /\ UpToNow

(* A packet of the bridge there is carries the number the buffer has for   *)
(* it.                                                                     *)
Matches(k, r) ==
  {m \in Reply : m.type = "pty" /\ m.key = k => m.seq \in DOMAIN r /\ r[m.seq] = m.chunk}
Genuine == phase = "bridge" /\ key # NoKey => out \in Seq(Matches(key, ring))

(* Behind the HMAC of the current connection there is only its output.     *)
OwnOutput(c) == {m \in Reply : m.type = "pty" => m.key = c}
OwnBehindHmac ==
  \A i, j \in DOMAIN out :
    i < j /\ out[i].type = "hmac" /\ out[i].key = cur /\ cur # 0 /\ out[j].type = "pty"
      => out[j].key = cur
OwnOnly == cst = "up" => out \in Seq(OwnOutput(cur))

GenuineInv == Numbered /\ Genuine /\ OwnBehindHmac /\ OwnOnly

LEMMA GenuineInit == Init => GenuineInv
<1> SUFFICES ASSUME Init PROVE GenuineInv
  OBVIOUS
<1>1. ring = <<>> /\ ptyq = <<>> /\ out = <<>> /\ phase = "down" /\ cst = "off"
  BY DEF Init
<1>2. ring \o ptyq = <<>>
  BY <1>1
<1>3. Numbered
  BY <1>2 DEF Numbered, Rising, UpToNow
<1> QED BY <1>1, <1>3 DEF GenuineInv, Genuine, OwnBehindHmac, OwnOnly

(* The output kept: a chunk moves from the queue to the buffer, a new one  *)
(* is queued, or all of it goes.                                           *)
LEMMA OutputStep ==
  ASSUME Shape, [Next]_vars
  PROVE  \/ ring' = ring /\ ptyq' = ptyq /\ produced' = produced
         \/ /\ WaitPty \/ BridgePty
            /\ ptyq # <<>> /\ ring' = Append(ring, Head(ptyq)) /\ ptyq' = Tail(ptyq)
            /\ produced' = produced
         \/ ring' = ring /\ ptyq' = Append(ptyq, produced + 1) /\ produced' = produced + 1
         \/ ring' = ring /\ ptyq' = ptyq /\ produced' = produced + 1
         \/ ring' = <<>> /\ ptyq' = <<>> /\ produced' = produced /\ phase' = "down"
<1> USE DEF agent, hist
<1>1. CASE UNCHANGED vars \/ AppSide
  BY <1>1, AppKeeps DEF vars
<1>2. CASE MainLoop \/ Greet \/ LinkLost \/ ShellExits
  BY <1>2 DEF MainLoop, Spawn, ConnectFails, Connect, Greet, LinkLost, ShellExits
<1>3. CASE ShellWrites
  BY <1>3 DEF ShellWrites
<1>4. CASE InitAuth \/ InitIgnore \/ WaitIgnore \/ HandshakeIgnore \/ BridgeIgnore
  BY <1>4 DEF InitAuth, InitIgnore, WaitIgnore, HandshakeIgnore, BridgeIgnore, Skips
<1>5. CASE InitJoin \/ WaitJoin \/ BridgeJoin
  BY <1>5 DEF InitJoin, WaitJoin, BridgeJoin, JoinIn
<1>6. CASE JoinBootFails \/ InitEnds \/ WaitEnds \/ BridgeEnds \/ BridgeSendFails
  BY <1>6
  DEF JoinBootFails, BootFails, InitEnds, WaitEnds, BridgeEnds, BridgeSendFails, ReturnPty
<1>7. CASE HandshakeCipher \/ HandshakeSendFails \/ HandshakeEnds
  BY <1>7 DEF HandshakeCipher, HandshakeSendFails, HandshakeEnds
<1>8. CASE WaitPty \/ BridgePty
  BY <1>8 DEF WaitPty, BridgePty
<1>9. CASE BridgeEof
  BY <1>9 DEF BridgeEof
<1>10. CASE BridgePeerGone \/ BridgeInput \/ BridgeSync
  BY <1>10 DEF BridgePeerGone, BridgeInput, BridgeSync
<1> QED
  BY <1>1, <1>2, <1>3, <1>4, <1>5, <1>6, <1>7, <1>8, <1>9, <1>10, Sides
  DEF AgentSide, AgentReads, AgentPty

LEMMA NumberedStep ==
  ASSUME Shape, Numbered, [Next]_vars
  PROVE  Numbered'
<1> DEFINE s == ring \o ptyq
<1>1. ring \in Seq(Chunk) /\ ptyq \in Seq(Chunk) /\ produced \in Nat /\ Chunk \subseteq Nat
  BY Bounds DEF Shape, OutputType, Counted, Chunk
<1>2. s \in Seq(Chunk) /\ Rising(s) /\ \A i \in 1 .. Len(s) : s[i] <= produced
  <2>1. s \in Seq(Chunk)
    BY <1>1
  <2> QED BY <2>1 DEF Numbered, UpToNow
<1>0. Len(s) \in Nat /\ \A i \in 1 .. Len(s) : s[i] \in Nat /\ s[i] <= produced + 1
  <2> HIDE DEF s
  <2>1. s \in Seq(Chunk) /\ \A i \in 1 .. Len(s) : s[i] <= produced
    BY <1>2
  <2>2. Len(s) \in Nat /\ \A i \in 1 .. Len(s) : s[i] \in Chunk
    BY <2>1
  <2>3. \A x \in Chunk : x \in Nat /\ (x <= produced => x <= produced + 1)
    BY <1>1, Bounds DEF Chunk
  <2> QED BY <2>1, <2>2, <2>3
<1>3. CASE ring' \o ptyq' = s /\ produced' \in {produced, produced + 1}
  <2>1. Rising(ring' \o ptyq') /\ \A i \in 1 .. Len(ring' \o ptyq') : (ring' \o ptyq')[i] <= produced'
    <3> HIDE DEF s
    <3> QED BY <1>0, <1>2, <1>3
  <2> QED BY <2>1 DEF Numbered, UpToNow, Rising
<1>4. CASE ring' = ring /\ ptyq' = Append(ptyq, produced + 1) /\ produced' = produced + 1
  <2>1. ring' \o ptyq' = Append(s, produced + 1)
    BY <1>1, <1>4
  <2> HIDE DEF s
  <2> DEFINE t == Append(s, produced + 1)
  <2>2. /\ Len(s) \in Nat /\ Len(t) = Len(s) + 1 /\ t[Len(s) + 1] = produced + 1
        /\ \A i \in 1 .. Len(s) : t[i] = s[i] /\ s[i] \in Nat
    BY <1>0, <1>2
  <2> HIDE DEF t
  <2>3. ASSUME NEW i \in 1 .. Len(t) - 1 PROVE t[i] < t[i + 1]
    <3>1. CASE i = Len(s)
      BY <1>0, <1>1, <1>2, <2>2, <3>1
    <3>2. CASE i # Len(s)
      <4>1. i \in 1 .. Len(s) - 1 /\ i \in 1 .. Len(s) /\ i + 1 \in 1 .. Len(s)
        BY <2>2, <3>2
      <4> QED BY <1>2, <2>2, <4>1 DEF Rising
    <3> QED BY <3>1, <3>2
  <2>4. ASSUME NEW i \in 1 .. Len(t) PROVE t[i] <= produced + 1
    <3>1. i = Len(s) + 1 \/ i \in 1 .. Len(s)
      BY <2>2
    <3> QED BY <1>1, <1>2, <2>2, <3>1
  <2> QED BY <1>4, <2>1, <2>3, <2>4 DEF Numbered, Rising, UpToNow, t
<1>5. CASE ring' = <<>> /\ ptyq' = <<>>
  <2>1. ring' \o ptyq' = <<>>
    BY <1>5
  <2> QED BY <2>1 DEF Numbered, Rising, UpToNow
<1>6. CASE ptyq # <<>> /\ ring' = Append(ring, Head(ptyq)) /\ ptyq' = Tail(ptyq) /\ produced' = produced
  <2>1. ring' \o ptyq' = s
    BY <1>1, <1>6
  <2> QED BY <1>3, <1>6, <2>1
<1> QED BY <1>3, <1>4, <1>5, <1>6, OutputStep

LEMMA GenuineStep ==
  ASSUME Shape, Shape', KeyInv, LifeInv, Genuine, [Next]_vars
  PROVE  Genuine'
<1> SUFFICES ASSUME phase' = "bridge", key' # NoKey
             PROVE  out' \in Seq(Matches(key', ring'))
  BY DEF Genuine, Matches
<1>0. \A m \in Reply : m.type # "pty" => m \in Matches(key', ring')
  BY DEF Matches
<1>1. CASE HandshakeCipher
  <2>1. /\ inbox # <<>> /\ Head(inbox) \in Frame /\ Head(inbox).type = "cipher"
        /\ Head(inbox).key = key' /\ key' \in Caller
    BY <1>1, CipherKey, FrameShape DEF KeyInv, Sender
  <2>2. ~Spent(key')
    <3>1. Head(inbox) \notin NoCipher(key')
      BY <2>1 DEF NoCipher
    <3> QED BY <2>1, <3>1, SeqOps DEF Spent
  <2>3. out \in Seq(Silent(key'))
    BY <2>1, <2>2 DEF LifeInv, SpentOrFresh, Fresh
  <2>4. Silent(key') \subseteq Matches(key', ring')
    BY DEF Silent, Matches
  <2>5. Hmac(key') \in Matches(key', ring')
    BY <1>0, <2>1, Replies, Bounds DEF Caller, Conn
  <2>6. <<Hmac(key')>> \in Seq(Matches(key', ring'))
    BY <2>5
  <2>7. out' = Sent(<<Hmac(key')>>) /\ out \in Seq(Matches(key', ring'))
    BY <1>1, <2>3, <2>4 DEF HandshakeCipher
  <2> QED BY <2>6, <2>7, SentKeeps
<1>2. CASE ~HandshakeCipher
  <2>1. phase = "bridge" /\ key' = key
    BY <1>2, PhaseStep
  <2>2. \A i \in DOMAIN ring : i \in DOMAIN ring' /\ ring'[i] = ring[i]
    <3>1. ring \in Seq(Chunk) /\ ptyq \in Seq(Chunk)
      BY DEF Shape, OutputType
    <3>2. CASE ptyq # <<>> /\ ring' = Append(ring, Head(ptyq))
      BY <3>1, <3>2
    <3> QED BY <3>2, OutputStep
  <2>3. Matches(key, ring) \subseteq Matches(key', ring')
    BY <2>1, <2>2 DEF Matches
  <2>4. out \in Seq(Matches(key', ring'))
    BY <2>1, <2>3 DEF Genuine
  <2>5. Sendable \subseteq Matches(key', ring')
    BY <2>1 DEF Sendable, Packets, Matches
  <2>6. CASE \E msgs \in Seq(Sendable) : out' = Sent(msgs)
    BY <2>4, <2>5, <2>6, SentKeeps
  <2>7. CASE out # <<>> /\ out' = Tail(out)
    BY <2>4, <2>7, SeqOps
  <2>8. CASE \E k \in 0 .. Len(out) : out' = SubSeq(out, 1, k)
    BY <2>4, <2>8, SeqOps
  <2>9. CASE Slots + 1 \in 1 .. Len(out) /\ out' = RemoveAt(out, Slots + 1)
    BY <2>4, <2>9, RemovedAt
  <2> QED BY <1>2, <2>6, <2>7, <2>8, <2>9, OutMoves DEF Shape
<1> QED BY <1>1, <1>2

(* An HMAC under the current connection's key is on the way or has come:   *)
(* the agent serves that connection, if any.                               *)
LEMMA OwnServed ==
  ASSUME Shape, KeyInv, NEW i \in DOMAIN out, out[i].type = "hmac", out[i].key = cur, cur # 0
  PROVE  Settled
<1>1. out \notin Seq(Unconfirmed(cur))
  BY DEF Unconfirmed
<1> QED BY <1>1 DEF KeyInv, SettledOnceConfirmed

(* What a drop leaves is in the order it was in.                           *)
LEMMA OrderKept ==
  ASSUME NEW S, NEW s \in Seq(S), NEW n \in 1 .. Len(s),
         NEW i \in DOMAIN RemoveAt(s, n), NEW j \in DOMAIN RemoveAt(s, n), i < j
  PROVE  \E p, q \in DOMAIN s : p < q /\ RemoveAt(s, n)[i] = s[p] /\ RemoveAt(s, n)[j] = s[q]
<1> DEFINE was(k) == IF k < n THEN k ELSE k + 1
<1>1. DOMAIN RemoveAt(s, n) = 1 .. Len(s) - 1 /\ Len(s) \in Nat
  BY RemovedAt
<1>2. ASSUME NEW k \in 1 .. Len(s) - 1
      PROVE  was(k) \in DOMAIN s /\ RemoveAt(s, n)[k] = s[was(k)]
  <2>1. was(k) \in DOMAIN s
    BY <1>1
  <2>2. RemoveAt(s, n)[k] = IF k < n THEN s[k] ELSE s[k + 1]
    BY RemovedAt
  <2> QED BY <2>1, <2>2
<1>3. i \in 1 .. Len(s) - 1 /\ j \in 1 .. Len(s) - 1 /\ was(i) < was(j)
  BY <1>1
<1> HIDE DEF was
<1> QED BY <1>2, <1>3

LEMMA OwnBehindHmacStep ==
  ASSUME Shape, Shape', KeyInv, OwnBehindHmac, [Next]_vars
  PROVE  OwnBehindHmac'
<1> SUFFICES ASSUME NEW i \in DOMAIN out', NEW j \in DOMAIN out', i < j, cur' # 0,
                    out'[i].type = "hmac", out'[i].key = cur', out'[j].type = "pty"
             PROVE  out'[j].key = cur'
  BY DEF OwnBehindHmac
<1>1. out \in Seq(Reply) /\ out' \in Seq(Reply) /\ i \in Nat /\ j \in Nat
  BY DEF Shape, NetType
<1>2. CASE AppConnects
  <2>1. out' = out /\ cur' = cur + 1
    BY <1>2 DEF AppConnects
  <2>2. out[i].key <= cur
    BY <2>1 DEF KeyInv, Known, ConfirmedTo
  <2> QED BY <2>1, <2>2, Bounds DEF Shape, AppType, Conn
<1>3. CASE cur' = cur
  <2>1. CASE \E k \in 0 .. Len(out) : out' = SubSeq(out, 1, k)
    <3>1. PICK k \in 0 .. Len(out) : out' = SubSeq(out, 1, k)
      BY <2>1
    <3>2. i \in DOMAIN out /\ j \in DOMAIN out /\ out'[i] = out[i] /\ out'[j] = out[j]
      BY <1>1, <3>1
    <3> QED BY <1>3, <3>2 DEF OwnBehindHmac
  <2>2. CASE out # <<>> /\ out' = Tail(out)
    <3>1. /\ i + 1 \in DOMAIN out /\ j + 1 \in DOMAIN out /\ i + 1 < j + 1
          /\ out'[i] = out[i + 1] /\ out'[j] = out[j + 1]
      BY <1>1, <2>2
    <3> QED BY <1>3, <3>1 DEF OwnBehindHmac
  <2>3. ASSUME NEW msgs \in Seq(Reply), out' = Sent(msgs),
               msgs \in Seq(Sendable) \/ msgs = <<Hmac(key')>>
        PROVE  out'[j].key = cur'
    <3>1. CASE j \in DOMAIN out
      <4>1. i \in DOMAIN out /\ out'[i] = out[i] /\ out'[j] = out[j]
        BY <1>1, <2>3, <3>1 DEF Sent
      <4> QED BY <1>3, <3>1, <4>1 DEF OwnBehindHmac
    <3>2. CASE j \notin DOMAIN out
      <4>1. out' = out \o msgs
        BY <2>3, <3>2 DEF Sent
      <4>2. j - Len(out) \in DOMAIN msgs /\ out'[j] = msgs[j - Len(out)]
        BY <1>1, <3>2, <4>1
      <4>3. msgs # <<Hmac(key')>>
        BY <4>2 DEF Hmac
      <4>4. msgs \in Seq(Sendable)
        BY <2>3, <4>3
      <4>5. out'[j] \in Packets(key, ring') /\ phase = "bridge"
        BY <4>2, <4>4 DEF Sendable
      <4>6. CASE i \in DOMAIN out
        <5>1. out'[i] = out[i]
          BY <1>1, <4>1, <4>6
        <5> QED BY <1>3, <4>5, <4>6, <5>1, OwnServed DEF Settled, Packets
      <4>7. CASE i \notin DOMAIN out
        <5>1. i - Len(out) \in DOMAIN msgs /\ out'[i] = msgs[i - Len(out)]
          BY <1>1, <4>1, <4>7
        <5> QED BY <4>4, <5>1 DEF Sendable, Packets
      <4> QED BY <4>6, <4>7
    <3> QED BY <3>1, <3>2
  <2>4. CASE \E msgs \in Seq(Sendable) : out' = Sent(msgs)
    <3>1. Sendable \subseteq Reply
      BY DEF Sendable, Packets
    <3> QED BY <2>3, <2>4, <3>1
  <2>5. CASE HandshakeCipher /\ out' = Sent(<<Hmac(key')>>)
    <3>1. Hmac(key') \in Reply
      BY <2>5, CipherKey, Replies DEF KeyInv
    <3>2. <<Hmac(key')>> \in Seq(Reply)
      BY <3>1
    <3> QED BY <2>3, <2>5, <3>2
  <2>6. CASE Slots + 1 \in 1 .. Len(out) /\ out' = RemoveAt(out, Slots + 1)
    <3>1. PICK p, q \in DOMAIN out : p < q /\ out'[i] = out[p] /\ out'[j] = out[q]
      BY <1>1, <2>6, OrderKept
    <3> QED BY <1>3, <3>1 DEF OwnBehindHmac
  <2> QED BY <2>1, <2>2, <2>4, <2>5, <2>6, OutMoves DEF Shape
<1> QED BY <1>2, <1>3, Grows

LEMMA OwnOnlyStep ==
  ASSUME Shape, Shape', KeyInv, OwnBehindHmac, OwnOnly, [Next]_vars
  PROVE  OwnOnly'
<1> SUFFICES ASSUME cst' = "up" PROVE out' \in Seq(OwnOutput(cur'))
  BY DEF OwnOnly, OwnOutput
<1>1. CASE cst # "up"
  <2>1. AppGetsHmac /\ cst = "hmac" /\ cur \in Caller /\ cur' = cur
    BY <1>1, UpStep, AppFrames DEF AppGetsHmac
  <2>2. /\ out # <<>> /\ Head(out).type = "hmac" /\ Head(out).key = cur /\ out' = Tail(out)
        /\ out \in Seq(Reply) /\ cur # 0
    BY <2>1 DEF AppGetsHmac, Arrives, Shape, NetType, Caller
  <2>3. ASSUME NEW j \in DOMAIN out' PROVE out'[j] \in OwnOutput(cur)
    <3>1. /\ 1 \in DOMAIN out /\ out[1] = Head(out)
          /\ j + 1 \in DOMAIN out /\ 1 < j + 1 /\ out'[j] = out[j + 1] /\ out[j + 1] \in Reply
      BY <2>2
    <3> QED BY <2>2, <3>1 DEF OwnBehindHmac, OwnOutput
  <2>4. out' \in Seq(Reply)
    BY <2>2
  <2> QED BY <2>1, <2>3, <2>4
<1>2. CASE cst = "up"
  <2>1. cur' = cur /\ ~HandshakeCipher
    <3>1. ~HandshakeCipher
      BY <1>2 DEF HandshakeCipher, KeyInv, SettledOnceConfirmed, Settled, Shape, AppType
    <3>2. ~AppConnects
      BY <1>2 DEF AppConnects
    <3> QED BY <3>1, <3>2, Grows
  <2>2. out \in Seq(OwnOutput(cur))
    BY <1>2 DEF OwnOnly
  <2>3. Sendable \subseteq OwnOutput(cur)
    <3>1. phase = "bridge" => key = cur
      BY <1>2, UpServed
    <3> QED BY <3>1 DEF Sendable, Packets, OwnOutput
  <2>4. CASE \E msgs \in Seq(Sendable) : out' = Sent(msgs)
    <3>1. PICK msgs \in Seq(Sendable) : out' = Sent(msgs)
      BY <2>4
    <3>2. msgs \in Seq(OwnOutput(cur))
      BY <2>3
    <3> QED BY <2>1, <2>2, <3>1, <3>2, SentKeeps
  <2>5. CASE out # <<>> /\ out' = Tail(out)
    BY <2>1, <2>2, <2>5, SeqOps
  <2>6. CASE \E k \in 0 .. Len(out) : out' = SubSeq(out, 1, k)
    BY <2>1, <2>2, <2>6, SeqOps
  <2>7. CASE Slots + 1 \in 1 .. Len(out) /\ out' = RemoveAt(out, Slots + 1)
    BY <2>1, <2>2, <2>7, RemovedAt
  <2> QED BY <2>1, <2>4, <2>5, <2>6, <2>7, OutMoves DEF Shape
<1> QED BY <1>1, <1>2

LEMMA GenuineInvStep ==
  Shape /\ Shape' /\ KeyInv /\ LifeInv /\ GenuineInv /\ [Next]_vars => GenuineInv'
  BY NumberedStep, GenuineStep, OwnBehindHmacStep, OwnOnlyStep DEF GenuineInv

LEMMA GenuinePackets == Shape /\ GenuineInv => PacketsGenuine
<1> SUFFICES ASSUME Shape, GenuineInv PROVE PacketsGenuine
  OBVIOUS
<1>1. ASSUME NEW k \in DOMAIN out, out[k].type = "pty", phase = "bridge", out[k].key = key, key # NoKey
      PROVE  out[k].seq \in DOMAIN ring /\ ring[out[k].seq] = out[k].chunk
  BY <1>1 DEF GenuineInv, Genuine, Matches
<1>2. ASSUME NEW k \in DOMAIN out, out[k].type = "pty", cst = "up"
      PROVE  out[k].key = cur
  BY <1>2 DEF GenuineInv, OwnOnly, OwnOutput
<1> QED BY <1>1, <1>2 DEF PacketsGenuine, GenuineInv, Numbered, Rising

(* Chunks are numbered in the order the shell wrote them; a packet on its  *)
(* way carries the number the agent's buffer has for it, and an app that   *)
(* is through gets none of another session: for every value of the bounds  *)
(* (run_bridge and handle_sync_req, session.rs).                           *)
THEOREM PacketsGenuineAlways == Spec => []PacketsGenuine
<1>1. GenuineInv /\ []Shape /\ []KeyInv /\ []LifeInv /\ [][Next]_vars => []GenuineInv
  <2>1. GenuineInv /\ Shape /\ Shape' /\ KeyInv /\ LifeInv /\ [Next]_vars => GenuineInv'
    BY GenuineInvStep
  <2> QED BY <2>1, PTL
<1> QED BY <1>1, Lives, GenuineInit, GenuinePackets, PTL DEF Spec

-----------------------------------------------------------------------------
(* A connection that is there holds the client's seat.                     *)
SeatHeld ==
  /\ cst # "off" => seat = cur /\ cur \notin leaving
  /\ \A c \in leaving : c <= cur

(* What the agent confirmed it sent with the token.                        *)
Confirmed ==
  phase = "bridge" /\ cur # 0 /\ (cst = "up" \/ out \notin Seq(Unconfirmed(cur))) => token

(* A connection asks once, for what follows from.                          *)
Asking(c, f) == {m \in Frame : m.type = "sync_req" /\ m.key = c => m.last = f}
AskedOnce == inbox \in Seq(Asking(cur, from)) /\ from \in Nat

(* Every chunk after from is shown, was dropped by the relay, is on its    *)
(* way, or yet to be replayed.                                             *)
Covered ==
  cst = "up" /\ phase = "bridge" /\ link = "up" =>
    \A i \in from + 1 .. Len(ring) :
      \/ ring[i] \in seen \cup dropped
      \/ \E k \in DOMAIN out : out[k] = Pty(cur, i, ring[i])
      \/ \E k \in DOMAIN inbox : inbox[k] = SyncReq(cur, from)

CoveredInv == SeatHeld /\ Confirmed /\ AskedOnce /\ Covered

LEMMA CoveredInit == Init => CoveredInv
<1> SUFFICES ASSUME Init PROVE CoveredInv
  OBVIOUS
<1>1. /\ phase = "down" /\ cst = "off" /\ leaving = {} /\ inbox = <<>> /\ from = 0
      /\ <<>> \in Seq(Asking(cur, from))
  BY DEF Init
<1> QED BY <1>1 DEF CoveredInv, SeatHeld, Confirmed, AskedOnce, Covered

LEMMA SeatHeldStep ==
  ASSUME Shape, Shape', SeatHeld, [Next]_vars
  PROVE  SeatHeld'
<1> USE DEF app, net, hist, SeatHeld
<1>0. cur \in Nat /\ cur + 1 \in Nat /\ \A c \in leaving : c \in Nat
  BY Bounds DEF Shape, AppType, Conn
<1>1. CASE UNCHANGED vars
  BY <1>1 DEF vars
<1>2. CASE AgentSide
  BY <1>2, AgentKeeps
<1>3. CASE AppConnects
  <2>1. cur' = cur + 1 /\ seat' = cur + 1 /\ leaving' = leaving
    BY <1>3 DEF AppConnects
  <2> QED BY <1>0, <2>1
<1>4. CASE AppDrops \/ AppDisconnects \/ AppTimesOut \/ AppRejectsHmac
  <2>1. cur' = cur /\ seat' = seat /\ ((leaving' = leaving /\ cst' = cst) \/ Hangup)
    BY <1>4 DEF AppDrops, AppDisconnects, AppTimesOut, AppRejectsHmac, GiveUp
  <2> QED BY <1>0, <2>1 DEF Hangup
<1>5. CASE LateFrame \/ RelayDrops \/ AppTypes \/ Unheard \/ AppGetsPty
  BY <1>5 DEF LateFrame, RelayDrops, AppTypes, Unheard, AppGetsPty
<1>6. CASE AppGetsOffer \/ AppGetsHmac
  BY <1>6, AppFrames DEF AppGetsOffer, AppGetsHmac
<1>7. CASE RelayCleansUp
  <2>1. /\ cur' = cur /\ cst' = cst
        /\ \E c \in leaving : leaving' = leaving \ {c} /\ seat' = (IF seat = c THEN 0 ELSE seat)
    BY <1>7 DEF RelayCleansUp
  <2> QED BY <2>1
<1> QED BY <1>1, <1>2, <1>3, <1>4, <1>5, <1>6, <1>7, Sides DEF AppSide, Delivers

(* A bridge that goes on keeps its token.                                  *)
LEMMA TokenStep ==
  ASSUME [Next]_vars, phase' = "bridge"
  PROVE  token' = token
<1>1. CASE UNCHANGED vars \/ AppSide
  BY <1>1, AppKeeps DEF vars, agent
<1>2. CASE HandshakeCipher \/ BridgeInput
  BY <1>2 DEF HandshakeCipher, BridgeInput, agent
<1>3. CASE AgentSide /\ ~HandshakeCipher /\ ~BridgeInput
  BY <1>3, BridgeReads
<1> QED BY <1>1, <1>2, <1>3, Sides

LEMMA ConfirmedStep ==
  ASSUME Shape, Shape', KeyInv, Confirmed, [Next]_vars
  PROVE  Confirmed'
<1> SUFFICES ASSUME phase' = "bridge", cur' # 0,
                    cst' = "up" \/ out' \notin Seq(Unconfirmed(cur'))
             PROVE  token
  BY TokenStep DEF Confirmed, Unconfirmed
<1>1. \A m \in Reply : m.type # "hmac" => m \in Unconfirmed(cur')
  BY DEF Unconfirmed
<1>2. CASE AppConnects
  <2>1. out' = out /\ cst' = "offer" /\ cur' = cur + 1
    BY <1>2 DEF AppConnects
  <2>2. ConfirmedTo(cur) \subseteq Unconfirmed(cur')
    BY <2>1, Bounds, ReplyShape DEF ConfirmedTo, Unconfirmed, Shape, AppType, Conn
  <2> QED BY <2>1, <2>2 DEF KeyInv, Known
<1>3. CASE ~AppConnects
  <2>0. cur' = cur
    BY <1>3, Grows
  <2>1. CASE HandshakeCipher
    <3>1. cst # "up" /\ out \in Seq(Unconfirmed(cur)) /\ cst' = cst
      BY <2>0, <2>1 DEF HandshakeCipher, KeyInv, SettledOnceConfirmed, Settled, app, Shape, AppType
    <3>2. out' # out
      BY <2>0, <3>1
    <3> QED BY <2>1, <3>2 DEF HandshakeCipher, Sent
  <2>2. CASE ~HandshakeCipher
    <3>1. phase = "bridge"
      BY <2>2, PhaseStep
    <3>2. CASE cst = "up"
      BY <2>0, <3>1, <3>2 DEF Confirmed
    <3>3. CASE cst # "up" /\ cst' = "up"
      <4>1. out # <<>> /\ Head(out).type = "hmac" /\ Head(out).key = cur
        BY <3>3, UpStep DEF AppGetsHmac, Arrives
      <4>2. out \notin Seq(Unconfirmed(cur))
        BY <4>1, SeqOps DEF Unconfirmed
      <4> QED BY <2>0, <3>1, <4>2 DEF Confirmed
    <3>4. CASE out' \notin Seq(Unconfirmed(cur'))
      <4>1. out \in Seq(Unconfirmed(cur)) => out' \in Seq(Unconfirmed(cur))
        <5>1. \A m \in Reply : m.type = "offer" \/ (m.type = "pty" /\ m.key = key) => m \in Unconfirmed(cur)
          BY DEF Unconfirmed
        <5> QED BY <2>2, <5>1, OutKeeps DEF Shape
      <4> QED BY <2>0, <3>1, <3>4, <4>1 DEF Confirmed
    <3> QED BY <3>2, <3>3, <3>4
  <2> QED BY <2>1, <2>2
<1> QED BY <1>2, <1>3

LEMMA FromStep ==
  ASSUME Shape, [Next]_vars, ~AppGetsHmac
  PROVE  from' = from
BY StepKinds DEF Still, AppConnects, AppTypes, AppGetsOffer, LateFrame, hist

LEMMA AskedOnceStep ==
  ASSUME Shape, Shape', KeyInv, LifeInv, AskedOnce, [Next]_vars
  PROVE  AskedOnce'
<1> DEFINE S == Asking(cur', from')
<1>0. cur \in Nat /\ Before(cur) \subseteq UpTo(cur)
  BY Bounds, FrameShape DEF Shape, AppType, Conn, Caller, Before, UpTo
<1>1. /\ Join \in S /\ Notice \subseteq S
      /\ AppTypes => Input(cur, typed + 1) \in S
      /\ AppGetsOffer => Cipher(cur, Head(out).offer) \in S
  BY AppFrames, FrameKinds, Frames DEF Asking, Notice
<1>2. AppGetsHmac => SyncReq(cur, last') \in S
  <2>1. AppGetsHmac => from' = last'
    BY DEF AppGetsHmac
  <2> QED BY <2>1, AppFrames, FrameKinds DEF Asking
<1>3. inbox \in Seq(S) /\ late \in Seq(S)
  <2>1. CASE AppConnects
    <3>1. cur' = cur + 1
      BY <2>1 DEF AppConnects
    <3>2. UpTo(cur) \subseteq S
      BY <1>0, <3>1, FrameShape DEF UpTo, Asking, Sender, Caller
    <3> QED BY <1>0, <3>2 DEF KeyInv, Known
  <2>2. CASE ~AppConnects
    <3>0. cur' = cur
      BY <2>2, Grows
    <3>1. Before(cur) \subseteq S
      BY <1>0, <3>0, FrameShape DEF Before, Asking, Caller
    <3>2. CASE AppGetsHmac
      <4>1. inbox \in Seq(NoWork(cur))
        BY <3>2, AppFrames DEF LifeInv, NoneYet
      <4>2. NoWork(cur) \subseteq S
        BY <3>0 DEF NoWork, Asking
      <4> QED BY <3>1, <4>1, <4>2 DEF KeyInv, Known
    <3>3. CASE ~AppGetsHmac
      BY <3>0, <3>1, <3>3, FromStep DEF AskedOnce, KeyInv, Known
    <3> QED BY <3>2, <3>3
  <2> QED BY <2>1, <2>2
<1>4. inbox' \in Seq(S)
  BY <1>1, <1>2, <1>3, WayKeeps
<1>5. from' \in Nat
  <2>1. last' \in Nat
    BY Bounds DEF Shape, AppType
  <2>2. AppGetsHmac => from' = last'
    BY DEF AppGetsHmac
  <2> QED BY <2>1, <2>2, FromStep DEF AskedOnce
<1> QED BY <1>4, <1>5 DEF AskedOnce, Asking

(* A chunk is found on the way from the agent, or its replay is asked for. *)
Underway(i, x) ==
  \/ \E k \in DOMAIN out : out[k] = Pty(cur, i, x)
  \/ \E k \in DOMAIN inbox : inbox[k] = SyncReq(cur, from)

(* The request is answered: the replay has every chunk asked for.          *)
LEMMA ReplayHas ==
  ASSUME Shape, NEW k \in Conn, NEW l \in Nat, NEW i \in l + 1 .. Len(ring)
  PROVE  \E j \in DOMAIN Replay(k, l) : Replay(k, l)[j] = Pty(k, i, ring[i])
<1>1. Len(ring) \in Nat /\ l < Len(ring) /\ i - l \in 1 .. Len(ring) - l /\ l + (i - l) = i
  BY DEF Shape, OutputType
<1>2. Replay(k, l) = [j \in 1 .. Len(ring) - l |-> Pty(k, l + j, ring[l + j])]
  BY <1>1 DEF Replay
<1> QED BY <1>1, <1>2

LEMMA SyncCovers ==
  ASSUME Shape, KeyInv, Confirmed, AskedOnce, cst = "up", link = "up", BridgeSync,
         NEW i \in from + 1 .. Len(ring)
  PROVE  \E k \in DOMAIN out' : out'[k] = Pty(cur, i, ring[i])
<1>1. /\ inbox # <<>> /\ Head(inbox).type = "sync_req" /\ Head(inbox).key = key /\ phase = "bridge"
      /\ out' = Sent(Replay(key, Head(inbox).last))
  BY DEF BridgeSync, Reads
<1>2. key = cur /\ cur # 0 /\ cur \in Conn
  BY <1>1, UpServed DEF Caller, Shape, AppType
<1>3. Head(inbox).last = from
  BY <1>1, <1>2, SeqOps DEF AskedOnce, Asking
<1>4. token
  BY <1>1, <1>2 DEF Confirmed
<1> DEFINE r == Replay(cur, from)
<1>5. out' = out \o r
  BY <1>1, <1>2, <1>3, <1>4 DEF Sent
<1>6. PICK j \in DOMAIN r : r[j] = Pty(cur, i, ring[i])
  BY <1>2, ReplayHas DEF AskedOnce
<1>7. r \in Seq(Packets(cur, ring)) /\ out \in Seq(Reply)
  <2>1. from \in 0 .. MaxOut
    BY <1>1, <1>3, SeqOps, FrameShape DEF Shape, NetType
  <2> QED BY <1>2, <2>1, ReplayPackets DEF Shape, NetType
<1> HIDE DEF r
<1>8. Len(out) + j \in DOMAIN out' /\ out'[Len(out) + j] = r[j]
  BY <1>5, <1>6, <1>7
<1> QED BY <1>6, <1>8

LEMMA PtyCovers ==
  ASSUME Shape, KeyInv, Confirmed, cst = "up", link = "up", BridgePty
  PROVE  \E k \in DOMAIN out' : out'[k] = Pty(cur, Len(ring) + 1, ring'[Len(ring) + 1])
<1>1. /\ phase = "bridge" /\ ring' = Append(ring, Head(ptyq)) /\ ptyq # <<>>
      /\ out' = Sent(<<Pty(key, Len(ring) + 1, Head(ptyq))>>)
  BY DEF BridgePty
<1>2. key = cur /\ cur # 0
  BY <1>1, UpServed DEF Caller
<1>3. token
  BY <1>1, <1>2 DEF Confirmed
<1>4. ring'[Len(ring) + 1] = Head(ptyq)
  BY <1>1 DEF Shape, OutputType
<1>5. out' = Append(out, Pty(cur, Len(ring) + 1, Head(ptyq))) /\ out \in Seq(Reply)
  BY <1>1, <1>2, <1>3 DEF Sent, Shape, NetType
<1>6. Len(out) + 1 \in DOMAIN out' /\ out'[Len(out) + 1] = Pty(cur, Len(ring) + 1, Head(ptyq))
  BY <1>5
<1> QED BY <1>4, <1>6

(* What is on the way to the agent stays there or is read; a request of    *)
(* the served connection is only read by BridgeSync.                       *)
LEMMA RequestStays ==
  ASSUME Shape, KeyInv, [Next]_vars, cst = "up", cst' = "up", phase' = "bridge", ~BridgeSync,
         NEW j \in DOMAIN inbox, inbox[j] = SyncReq(cur, from)
  PROVE  cur' = cur /\ from' = from /\ \E k \in DOMAIN inbox' : inbox'[k] = SyncReq(cur, from)
<1>0. inbox \in Seq(Frame)
  BY DEF Shape, NetType
<1>1. ~HandshakeCipher /\ ~AppConnects /\ ~AppGetsHmac /\ ~AppGetsOffer
  BY AppFrames DEF HandshakeCipher, KeyInv, SettledOnceConfirmed, Settled, Shape, AppType, AppConnects,
     AppGetsHmac, AppGetsOffer, Listening
<1>2. cur' = cur /\ from' = from /\ phase = "bridge" /\ key = cur
  <2>1. phase = "bridge"
    BY <1>1, PhaseStep
  <2> QED BY <1>1, <2>1, Grows, FromStep, UpServed, ShapeStep
<1>3. ASSUME NEW m, inbox' = inbox \/ inbox' = Append(inbox, m)
      PROVE  \E k \in DOMAIN inbox' : inbox'[k] = SyncReq(cur, from)
  <2>1. j \in DOMAIN inbox' /\ inbox'[j] = inbox[j]
    BY <1>0, <1>3
  <2> QED BY <2>1
<1>4. ASSUME inbox # <<>>, inbox' = Tail(inbox), Head(inbox) # SyncReq(cur, from)
      PROVE  \E k \in DOMAIN inbox' : inbox'[k] = SyncReq(cur, from)
  <2>1. j # 1
    BY <1>0, <1>4
  <2>2. j - 1 \in DOMAIN inbox' /\ inbox'[j - 1] = inbox[j]
    BY <1>0, <1>4, <2>1
  <2> QED BY <2>2
<1>5. CASE AppTypes \/ LateFrame
  <2>1. inbox' = ToAgent(inbox, Input(cur, typed + 1)) \/ inbox' = ToAgent(inbox, Head(late))
    BY <1>5 DEF AppTypes, LateFrame
  <2> QED BY <1>2, <1>3, <2>1 DEF ToAgent
<1>6. CASE Calm
  BY <1>2, <1>3, <1>6 DEF Calm
<1>7. CASE BridgeInput
  <2>1. inbox # <<>> /\ Head(inbox).type = "input" /\ inbox' = Tail(inbox)
    BY <1>7 DEF BridgeInput, Reads
  <2> QED BY <1>2, <1>4, <2>1, FrameKinds
<1>8. CASE UNCHANGED vars
  BY <1>2, <1>3, <1>8 DEF vars, net
<1>9. CASE AgentSide /\ ~BridgeInput
  <2>1. \/ inbox' = inbox \/ inbox' = Append(inbox, Auth)
        \/ /\ inbox # <<>> /\ inbox' = Tail(inbox)
           /\ ~(Head(inbox).type = "sync_req" /\ Head(inbox).key = key)
    BY <1>1, <1>9, BridgeReads
  <2> QED BY <1>2, <1>3, <1>4, <2>1, FrameKinds
<1> QED BY <1>1, <1>5, <1>6, <1>7, <1>8, <1>9, AppKinds, Sides

(* What is on the way from the agent arrives in its order, unless it is    *)
(* dropped; a packet of the app's session is shown when it does.           *)
LEMMA PacketStays ==
  ASSUME Shape, KeyInv, SeatHeld, [Next]_vars, cst = "up", cst' = "up", phase' = "bridge",
         link' = "up", NEW i, NEW x, NEW j \in DOMAIN out, out[j] = Pty(cur, i, x)
  PROVE  x \in seen' \cup dropped' \/ \E k \in DOMAIN out' : out'[k] = Pty(cur, i, x)
<1>0. out \in Seq(Reply)
  BY DEF Shape, NetType
<1>1. ~HandshakeCipher /\ ~AppConnects /\ ~AppGetsHmac /\ ~AppGetsOffer
  BY AppFrames DEF HandshakeCipher, KeyInv, SettledOnceConfirmed, Settled, Shape, AppType, AppConnects,
     AppGetsHmac, AppGetsOffer, Listening
<1>2. CASE \E msgs : out' = Sent(msgs) /\ msgs \in Seq(Sendable)
  <2>1. PICK msgs \in Seq(Sendable) : out' = Sent(msgs)
    BY <1>2
  <2>2. j \in DOMAIN out' /\ out'[j] = out[j]
    BY <1>0, <2>1 DEF Sent
  <2> QED BY <2>2
<1>3. CASE Delivers
  <2>1. out # <<>> /\ out' = Tail(out)
    BY <1>3
    DEF Delivers, Unheard, AppGetsOffer, AppGetsHmac, AppRejectsHmac, AppGetsPty, Arrives
  <2>2. CASE j # 1
    <3>1. j - 1 \in DOMAIN out' /\ out'[j - 1] = out[j]
      BY <1>0, <2>1, <2>2
    <3> QED BY <3>1
  <2>3. CASE j = 1
    <3>1. Head(out) = Pty(cur, i, x)
      BY <1>0, <2>3
    <3>2. Head(out).type = "pty" /\ Head(out).key = cur /\ Head(out).chunk = x
      BY <3>1 DEF Pty
    <3>3. ~Unheard
      BY <3>2 DEF Unheard, Arrives, Listening, SeatHeld
    <3>4. AppGetsPty
      BY <1>1, <1>3, <3>2, <3>3 DEF Delivers, AppRejectsHmac, Arrives
    <3> QED BY <3>2, <3>4 DEF AppGetsPty
  <2> QED BY <2>2, <2>3
<1>4. CASE out' = out
  BY <1>4
<1>5. CASE \E k \in 0 .. Len(out) :
             out' = SubSeq(out, 1, k) /\ (k = Len(out) \/ phase' = "init" \/ link' = "lost")
  <2>1. SubSeq(out, 1, Len(out)) = out
    BY <1>0
  <2> QED BY <1>4, <1>5, <2>1
<1>6. CASE RelayDrops /\ Slots + 1 \in 1 .. Len(out) /\ out' = RemoveAt(out, Slots + 1)
  <2>1. CASE j = Slots + 1
    <3>1. out[Slots + 1].type = "pty" /\ out[Slots + 1].chunk = x
      BY <2>1 DEF Pty
    <3> QED BY <1>6, <3>1 DEF RelayDrops
  <2>2. CASE j # Slots + 1
    <3>1. \E k \in DOMAIN out' : out'[k] = out[j]
      <4>1. /\ out' \in Seq(Reply) /\ Len(out') = Len(out) - 1 /\ Slots \in Nat
            /\ \A k \in 1 .. Len(out) - 1 :
                 out'[k] = IF k < Slots + 1 THEN out[k] ELSE out[k + 1]
        BY <1>0, <1>6, RemovedAt, SlotsAssumption
      <4>2. Len(out) \in Nat /\ j \in 1 .. Len(out) /\ DOMAIN out' = 1 .. Len(out) - 1
        BY <1>0, <4>1
      <4>3. CASE j < Slots + 1
        <5>1. j \in 1 .. Len(out) - 1
          BY <1>6, <4>1, <4>2, <4>3
        <5> QED BY <4>1, <4>2, <4>3, <5>1
      <4>4. CASE ~(j < Slots + 1)
        <5>1. j - 1 \in 1 .. Len(out) - 1 /\ ~(j - 1 < Slots + 1) /\ j - 1 + 1 = j
          BY <2>2, <4>1, <4>2, <4>4
        <5> QED BY <4>1, <4>2, <5>1
      <4> QED BY <4>3, <4>4
    <3> QED BY <3>1
  <2> QED BY <2>1, <2>2
<1> QED BY <1>1, <1>2, <1>3, <1>5, <1>6, OutMoves DEF Shape

(* A terminal is only cleared when a session starts, and what was dropped  *)
(* is only forgotten when it ends.                                         *)
LEMMA SeenGrows ==
  ASSUME [Next]_vars, ~AppGetsHmac
  PROVE  seen \subseteq seen' /\ (cst' # "off" => dropped \subseteq dropped')
<1> USE DEF hist
<1>1. CASE UNCHANGED vars
  BY <1>1 DEF vars, app
<1>2. CASE AgentSide
  BY <1>2, AgentKeeps
<1>3. CASE AppSide
  BY <1>3
  DEF AppSide, Delivers, Unheard, AppGetsOffer, AppRejectsHmac, AppGetsPty, LateFrame, RelayDrops,
      RelayCleansUp, AppConnects, AppDrops, AppDisconnects, AppTimesOut, AppTypes, GiveUp, Hangup, app
<1> QED BY <1>1, <1>2, <1>3, Sides

LEMMA CoveredStep ==
  ASSUME Shape, Shape', KeyInv, LifeInv, SeatHeld, Confirmed, AskedOnce, Covered, [Next]_vars
  PROVE  Covered'
<1> SUFFICES ASSUME cst' = "up", phase' = "bridge", link' = "up", NEW i \in from' + 1 .. Len(ring')
             PROVE  \/ ring'[i] \in seen' \cup dropped'
                    \/ \E k \in DOMAIN out' : out'[k] = Pty(cur', i, ring'[i])
                    \/ \E k \in DOMAIN inbox' : inbox'[k] = SyncReq(cur', from')
  BY DEF Covered
<1>0. inbox \in Seq(Frame) /\ ring \in Seq(Chunk) /\ ptyq \in Seq(Chunk) /\ from \in Nat
  BY DEF Shape, NetType, OutputType, AskedOnce
<1>1. CASE AppGetsHmac
  <2>1. from' = last' /\ cur' = cur /\ link' = link /\ inbox' = ToAgent(inbox, SyncReq(cur, last'))
    BY <1>1 DEF AppGetsHmac
  <2>2. inbox' = Append(inbox, SyncReq(cur', from'))
    BY <2>1 DEF ToAgent
  <2>3. Len(inbox) + 1 \in DOMAIN inbox' /\ inbox'[Len(inbox) + 1] = SyncReq(cur', from')
    BY <1>0, <2>2
  <2> QED BY <2>3
<1>2. CASE ~AppGetsHmac
  <2>1. cst = "up"
    BY <1>2, UpStep
  <2>2. ~HandshakeCipher /\ ~AppConnects
    BY <2>1 DEF HandshakeCipher, KeyInv, SettledOnceConfirmed, Settled, Shape, AppType, AppConnects
  <2>3. phase = "bridge" /\ cur' = cur /\ from' = from
    BY <1>2, <2>2, PhaseStep, Grows, FromStep
  <2>4. link = "up"
    <3>1. BridgeInput => link' = link
      BY DEF BridgeInput
    <3> QED BY <2>2, <3>1, InBridge
  <2>5. \A j \in 1 .. Len(ring) :
          ring[j] \in seen \cup dropped \/ Underway(j, ring[j]) \/ j \notin from + 1 .. Len(ring)
    BY <2>1, <2>3, <2>4 DEF Covered, Underway
  <2>6. CASE i \in 1 .. Len(ring) /\ ring'[i] = ring[i]
    <3>1. ring[i] \in seen \cup dropped \/ Underway(i, ring[i])
      BY <1>0, <2>3, <2>5, <2>6
    <3>2. CASE ring[i] \in seen \cup dropped
      BY <1>2, <2>6, <3>2, SeenGrows
    <3>3. CASE \E k \in DOMAIN out : out[k] = Pty(cur, i, ring[i])
      BY <2>1, <2>3, <2>6, <3>3, PacketStays
    <3>4. CASE (\E k \in DOMAIN inbox : inbox[k] = SyncReq(cur, from)) /\ ~BridgeSync
      BY <2>1, <2>3, <3>4, RequestStays
    <3>5. CASE BridgeSync
      <4>1. i \in from + 1 .. Len(ring)
        BY <1>0, <2>3, <2>6
      <4> QED BY <2>1, <2>3, <2>4, <2>6, <3>5, <4>1, SyncCovers
    <3> QED BY <3>1, <3>2, <3>3, <3>4, <3>5 DEF Underway
  <2>7. CASE ~(i \in 1 .. Len(ring) /\ ring'[i] = ring[i])
    <3>1. i \in Nat /\ i # 0 /\ i <= Len(ring')
      BY <1>0, <2>3
    <3>2. ring' # ring
      BY <1>0, <2>7, <3>1
    <3>3. BridgePty /\ ptyq # <<>> /\ ring' = Append(ring, Head(ptyq))
      BY <2>3, <3>2, OutputStep DEF WaitPty
    <3>4. Head(ptyq) \in Chunk
      BY <1>0, <3>3
    <3>5. i = Len(ring) + 1
      BY <1>0, <2>7, <3>1, <3>3, <3>4
    <3> QED BY <2>1, <2>3, <2>4, <3>3, <3>5, PtyCovers
  <2> QED BY <2>6, <2>7
<1> QED BY <1>1, <1>2

LEMMA CoveredInvStep ==
  Shape /\ Shape' /\ KeyInv /\ LifeInv /\ CoveredInv /\ [Next]_vars => CoveredInv'
  BY SeatHeldStep, ConfirmedStep, AskedOnceStep, CoveredStep DEF CoveredInv

LEMMA CoveredShows == Shape /\ CoveredInv => HolesAreDrops
<1> SUFFICES ASSUME Shape, CoveredInv, Served, Quiet, NEW i \in (from + 1) .. Len(ring)
             PROVE  ring[i] \in seen \cup dropped
  BY DEF HolesAreDrops
<1>1. out = <<>> /\ \A k \in DOMAIN inbox : inbox[k] # SyncReq(cur, from)
  BY FrameKinds DEF Quiet
<1> QED BY <1>1 DEF CoveredInv, Covered, Served

(* Once the request an app made when it got through was answered, it shows *)
(* every chunk of the agent's buffer after the number it asked from, but   *)
(* chunks the relay dropped on this very connection, its channel full:     *)
(* replay and live output leave no other hole, however often either        *)
(* connection was lost before (handle_sync_req, session.rs;                *)
(* _handleMessage, terminal_service.dart; try_send, main.rs:419).          *)
THEOREM HolesAreDropsAlways == Spec => []HolesAreDrops
<1>1. CoveredInv /\ []Shape /\ []KeyInv /\ []LifeInv /\ [][Next]_vars => []CoveredInv
  <2>1. CoveredInv /\ Shape /\ Shape' /\ KeyInv /\ LifeInv /\ [Next]_vars => CoveredInv'
    BY CoveredInvStep
  <2> QED BY <2>1, PTL
<1> QED BY <1>1, Lives, CoveredInit, CoveredShows, PTL DEF Spec
=============================================================================
