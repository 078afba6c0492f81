------------------------------- MODULE Session -------------------------------
(***************************************************************************)
(* One terminal session: the agent (backend/agent/src/session.rs, its main *)
(* loop and its PTY) and one app that connects to it again and again       *)
(* (lib/services/websocket/websocket_service.dart and                      *)
(* lib/services/terminal/terminal_service.dart).                           *)
(*                                                                         *)
(* The relay between them is reduced to what they can see of it: messages  *)
(* are forwarded in order, the agent's to whoever holds the client's seat  *)
(* when they get there, through a channel of Slots messages that drops     *)
(* what comes when it is full; a connection that ended is noticed later,   *)
(* when its handler cleans up; a newer connection takes the seat at once.  *)
(* The module Relay has the rest, evictions of the agent among it.         *)
(*                                                                         *)
(* Connections of the app are numbered 1, 2, ... and used once.  A         *)
(* connection's number also stands for the secret it encapsulates, hence   *)
(* for the session key and session id made from it.  Chunks of output are  *)
(* numbered as the shell writes them.  The ring buffer never evicts here   *)
(* (RingBuffer has that): the sequence number of a packet is its place.    *)
(*                                                                         *)
(* Def_Slip is Def with one plausible coding slip, as in RingBuffer.       *)
(***************************************************************************)
EXTENDS Integers, Sequences, SequencesExt

CONSTANTS
  MaxConn,   \* bound on the app's connections
  MaxRun,    \* bound on the agent's connections to the relay
  MaxOut,    \* bound on the chunks of output
  MaxKey,    \* bound on the keystrokes sent
  Slots      \* the relay's PEER_CHANNEL_CAPACITY

ASSUME BoundsAssumption ==
  /\ MaxConn \in Nat \ {0} /\ MaxRun \in Nat \ {0}
  /\ MaxOut \in Nat /\ MaxKey \in Nat
ASSUME SlotsAssumption == Slots \in Nat \ {0}

VARIABLES
  (* the agent *)
  phase,     \* where main and Session::run are
  shell,     \* there is a PTY handle, with a shell behind it
  exited,    \* that shell has exited
  token,     \* relay_auth_token is known
  key,       \* the session key of the bridge
  offer,     \* the number of the handshake under way or last made
  ptyq,      \* pty_data_rx: chunks read and not yet handled
  ring,      \* ring_buffer: the chunk of each sequence number
  stale,     \* reader threads of earlier runs still blocked on this PTY
  (* the connections between the two *)
  run,       \* how many times the agent has connected
  link,      \* the agent's connection: up or lost
  greeting,  \* the relay has yet to send the agent its token
  inbox,     \* on the way to the agent
  out,       \* on the way from the agent
  seat,      \* the connection that holds the client's place, or 0
  leaving,   \* connections that ended, whose handler has yet to clean up
  late,      \* a frame still inside the handler of an older connection
  (* the app *)
  cur,       \* the current or last connection
  cst,       \* its state
  auto,      \* the terminal is attached: a new connection is a reconnection
  last,      \* _lastGoodSeq
  seen,      \* the chunks the terminal shows
  (* history *)
  from,      \* what the app asked for when it got through: all after from
  dropped,   \* chunks for this connection, up, that the relay dropped
  produced,  \* chunks the shells have written
  typed,     \* keystrokes sent
  written    \* keystrokes that reached a shell, each [c, n]

agent  == <<phase, shell, exited, token, key, offer, ptyq, ring, stale>>
net    == <<run, link, greeting, inbox, out, seat, leaving, late>>
app    == <<cur, cst, auto, last, seen>>
hist   == <<from, dropped, produced, typed, written>>
vars   == <<agent, net, app, hist>>

NoKey == 0       \* what a ciphertext for another handshake decapsulates to

Join       == [type |-> "join"]
Auth       == [type |-> "auth"]
Disconnect(c) == [type |-> "disconnect", key |-> c]     \* c says goodbye
PeerDisconnect == [type |-> "peer_disconnect"]
Cipher(c, h)  == [type |-> "cipher", key |-> c, offer |-> h]
Input(c, n)   == [type |-> "input", key |-> c, n |-> n]
SyncReq(c, l) == [type |-> "sync_req", key |-> c, last |-> l]
Offer(h)   == [type |-> "offer", offer |-> h]
Hmac(k)    == [type |-> "hmac", key |-> k]
Pty(k, n, x)  == [type |-> "pty", key |-> k, seq |-> n, chunk |-> x]

(* The agent's connection accepts a frame, but the relay only forwards it  *)
(* with the token (Relay!CheckToken).                                      *)
Sent(msgs) == IF link = "up" /\ token THEN out \o msgs ELSE out
(* A frame for the agent gets there if its connection is up.               *)
ToAgent(box, m) == IF link = "up" THEN Append(box, m) ELSE box

Reading == phase \in {"wait", "handshake", "bridge"}  \* the PTY reader runs

-----------------------------------------------------------------------------
Init ==
  /\ phase = "down" /\ shell = FALSE /\ exited = FALSE /\ token = FALSE
  /\ key = NoKey /\ offer = 0 /\ ptyq = <<>> /\ ring = <<>> /\ stale = 0
  /\ run = 0 /\ link = "lost" /\ greeting = FALSE
  /\ inbox = <<>> /\ out = <<>> /\ seat = 0 /\ leaving = {} /\ late = <<>>
  /\ cur = 0 /\ cst = "off" /\ auto = FALSE /\ last = 0 /\ seen = {}
  /\ from = 0 /\ dropped = {} /\ produced = 0 /\ typed = 0 /\ written = <<>>

(* main: a new shell when there is none.                                   *)
Spawn ==
  /\ phase = "down" /\ ~shell
  /\ shell' = TRUE /\ exited' = FALSE /\ stale' = 0
  /\ UNCHANGED <<phase, token, key, offer, ptyq, ring, net, app, hist>>

(* At most the first n messages of a connection that ended get through.    *)
Survives(n) == \E k \in 0 .. n : out' = SubSeq(out, 1, k)

(* run: connect and join the room.  Whoever is in the room already is not  *)
(* announced to the newcomer.  Of the agent's previous connection, whose   *)
(* peer makes room, only a frame past the token check can still arrive.    *)
Connect ==
  /\ phase = "down" /\ shell /\ run < MaxRun
  /\ phase' = "init" /\ run' = run + 1 /\ link' = "up" /\ greeting' = TRUE
  /\ Survives(IF out = <<>> THEN 0 ELSE 1)
  /\ UNCHANGED <<shell, exited, token, key, offer, ptyq, ring, stale,
                 inbox, seat, leaving, late, app, hist>>

(* connect_async fails: the error drops the PTY handle given to run.       *)
ConnectFails ==
  /\ phase = "down" /\ shell
  /\ shell' = FALSE
  /\ UNCHANGED <<phase, exited, token, key, offer, ptyq, ring, stale, net, app, hist>>

(* The relay's auth message, sent after the agent is in the room.          *)
Greet ==
  /\ greeting
  /\ greeting' = FALSE /\ inbox' = ToAgent(inbox, Auth)
  /\ UNCHANGED <<agent, run, link, out, seat, leaving, late, app, hist>>

(* The agent's connection breaks; what it had received stays readable, and *)
(* what the relay had received of it goes on.                              *)
LinkLost ==
  /\ link = "up"
  /\ link' = "lost" /\ greeting' = FALSE /\ Survives(Len(out))
  /\ UNCHANGED <<agent, run, inbox, seat, leaving, late, app, hist>>

-----------------------------------------------------------------------------
(* Reading the next message from the relay.                                *)
Reads(t) == inbox # <<>> /\ Head(inbox).type = t /\ inbox' = Tail(inbox)
Skips(ignored) ==
  /\ inbox # <<>> /\ ignored /\ inbox' = Tail(inbox)
  /\ UNCHANGED <<agent, run, link, greeting, out, seat, leaving, late, app, hist>>
Ended == link = "lost" /\ inbox = <<>>

(* Boot signal and key offer; the handshake then waits for a ciphertext.   *)
StartHandshake ==
  /\ phase' = "handshake" /\ offer' = offer + 1
  /\ out' = Sent(<<Offer(offer + 1)>>)

(* The boot signal cannot be sent because the write task has ended: run    *)
(* returns the error and the PTY handle is dropped with it.                *)
BootFails ==
  /\ link = "lost"
  /\ phase' = "down" /\ shell' = FALSE /\ token' = FALSE /\ key' = NoKey
  /\ ptyq' = <<>> /\ ring' = <<>> /\ inbox' = <<>>

ReturnPty_KeepsBuffer ==
  /\ phase' = "down" /\ token' = FALSE /\ key' = NoKey
  /\ ptyq' = <<>> /\ inbox' = <<>>
  /\ stale' = IF Reading /\ ~exited THEN stale + 1 ELSE stale
  /\ UNCHANGED <<shell, exited, offer, ring, run, link, greeting, out,
                 seat, leaving, late, app, hist>>

(* run returns the PTY handle: buffer, counter and queue go.  A reader     *)
(* thread that was running stays blocked in read().                        *)
ReturnPty ==
  /\ phase' = "down" /\ token' = FALSE /\ key' = NoKey
  /\ ptyq' = <<>> /\ ring' = <<>> /\ inbox' = <<>>
  /\ stale' = IF Reading /\ ~exited THEN stale + 1 ELSE stale
  /\ UNCHANGED <<shell, exited, offer, run, link, greeting, out, seat, leaving, late, app, hist>>

InitAuth ==
  /\ phase = "init" /\ Reads("auth") /\ token' = TRUE
  /\ UNCHANGED <<phase, shell, exited, key, offer, ptyq, ring, stale,
                 run, link, greeting, out, seat, leaving, late, app, hist>>

InitIgnore == phase = "init" /\ Skips(Head(inbox).type \notin {"auth", "join"})

JoinIn(where) ==
  /\ phase = where /\ Reads("join")
  /\ StartHandshake
  /\ UNCHANGED <<shell, exited, token, key, ptyq, ring, stale,
                 run, link, greeting, seat, leaving, late, app, hist>>

(* The first client is in the room: the PTY reader starts.                 *)
InitJoin == JoinIn("init")
WaitJoin == JoinIn("wait")
(* A new client joined while one is served: PeerRejoined.                  *)
BridgeJoin == JoinIn("bridge")

JoinBootFails ==
  /\ phase \in {"init", "wait", "bridge"} /\ inbox # <<>> /\ Head(inbox).type = "join"
  /\ BootFails
  /\ UNCHANGED <<exited, offer, stale, run, link, greeting, out, seat, leaving, late, app, hist>>

InitEnds == phase = "init" /\ Ended /\ ReturnPty
WaitEnds == phase = "wait" /\ Ended /\ ReturnPty
BridgeEnds == phase = "bridge" /\ Ended /\ ReturnPty

(* Waiting: output goes on into the buffer; only a join is of interest.    *)
WaitPty ==
  /\ phase = "wait" /\ ptyq # <<>>
  /\ ring' = Append(ring, Head(ptyq)) /\ ptyq' = Tail(ptyq)
  /\ UNCHANGED <<phase, shell, exited, token, key, offer, stale, net, app, hist>>

WaitIgnore == phase = "wait" /\ Skips(Head(inbox).type # "join")

-----------------------------------------------------------------------------
(* perform_handshake: anything but a ciphertext is ignored; there is no    *)
(* timeout and no keepalive.                                               *)
HandshakeIgnore == phase = "handshake" /\ Skips(Head(inbox).type # "cipher")

(* ML-KEM decapsulation never fails: a ciphertext made for another offer   *)
(* gives a key nobody else has.                                            *)
Decapsulated(m) == IF m.offer = offer THEN m.key ELSE NoKey

HandshakeCipher_KeepsKey ==
  /\ phase = "handshake" /\ Reads("cipher")
  /\ key' = IF key = NoKey THEN Decapsulated(Head(inbox)) ELSE key
  /\ out' = Sent(<<Hmac(Decapsulated(Head(inbox)))>>)
  /\ phase' = "bridge"
  /\ UNCHANGED <<shell, exited, token, offer, ptyq, ring, stale,
                 run, link, greeting, seat, leaving, late, app, hist>>

HandshakeCipher ==
  /\ phase = "handshake" /\ Reads("cipher")
  /\ key' = Decapsulated(Head(inbox))
  /\ out' = Sent(<<Hmac(key')>>)
  /\ phase' = "bridge"
  /\ UNCHANGED <<shell, exited, token, offer, ptyq, ring, stale,
                 run, link, greeting, seat, leaving, late, app, hist>>

(* The offer or the HMAC cannot be sent because the write task has ended:  *)
(* perform_handshake fails.                                                *)
HandshakeSendFails ==
  /\ link = "lost"
  /\ \/ phase \in {"init", "wait", "bridge"} /\ Reads("join") /\ offer' = offer + 1
     \/ phase = "handshake" /\ Reads("cipher") /\ UNCHANGED offer
  /\ phase' = "wait"
  /\ UNCHANGED <<shell, exited, token, key, ptyq, ring, stale,
                 run, link, greeting, out, seat, leaving, late, app, hist>>

HandshakeEnds ==
  /\ phase = "handshake" /\ Ended
  /\ phase' = "wait"
  /\ UNCHANGED <<shell, exited, token, key, offer, ptyq, ring, stale, net, app, hist>>

-----------------------------------------------------------------------------
BridgePty_OldCounter ==
  /\ phase = "bridge" /\ ptyq # <<>>
  /\ ring' = Append(ring, Head(ptyq)) /\ ptyq' = Tail(ptyq)
  /\ out' = Sent(<<Pty(key, Len(ring), Head(ptyq))>>)
  /\ UNCHANGED <<phase, shell, exited, token, key, offer, stale,
                 run, link, greeting, inbox, seat, leaving, late, app, hist>>

(* bridge_loop: a chunk is numbered, stored and sent.                      *)
BridgePty ==
  /\ phase = "bridge" /\ ptyq # <<>>
  /\ ring' = Append(ring, Head(ptyq)) /\ ptyq' = Tail(ptyq)
  /\ out' = Sent(<<Pty(key, Len(ring) + 1, Head(ptyq))>>)
  /\ UNCHANGED <<phase, shell, exited, token, key, offer, stale,
                 run, link, greeting, inbox, seat, leaving, late, app, hist>>

(* The write task has ended: the send fails.                               *)
BridgeSendFails == phase = "bridge" /\ link = "lost" /\ ptyq # <<>> /\ ReturnPty

(* The shell's output is at its end: run returns None.                     *)
BridgeEof ==
  /\ phase = "bridge" /\ ptyq = <<>> /\ exited
  /\ phase' = "down" /\ shell' = FALSE /\ token' = FALSE /\ key' = NoKey /\ ring' = <<>>
  /\ link' = "lost" /\ greeting' = FALSE /\ Survives(Len(out)) /\ inbox' = <<>>
  /\ UNCHANGED <<exited, offer, ptyq, stale, run, seat, leaving, late, app, hist>>

(* disconnect, or peer_disconnect whoever it is about.                     *)
BridgePeerGone ==
  /\ phase = "bridge" /\ (Reads("disconnect") \/ Reads("peer_disconnect"))
  /\ phase' = "wait"
  /\ UNCHANGED <<shell, exited, token, key, offer, ptyq, ring, stale,
                 run, link, greeting, out, seat, leaving, late, app, hist>>

(* No envelope, or one with the id of another session.                     *)
Foreign(m) ==
  m.type \in {"auth", "cipher"} \/ (m.type \in {"input", "sync_req"} /\ m.key # key)

BridgeIgnore == phase = "bridge" /\ Skips(Foreign(Head(inbox)))

BridgeInput_AnySession ==
  /\ phase = "bridge" /\ Reads("input")
  /\ written' = Append(written, [c |-> Head(inbox).key, n |-> Head(inbox).n])
  /\ UNCHANGED <<agent, run, link, greeting, out, seat, leaving, late,
                 app, from, dropped, produced, typed>>

(* A keystroke of this session reaches the shell.                          *)
BridgeInput ==
  /\ phase = "bridge" /\ Reads("input") /\ Head(inbox).key = key
  /\ written' = Append(written, [c |-> Head(inbox).key, n |-> Head(inbox).n])
  /\ UNCHANGED <<agent, run, link, greeting, out, seat, leaving, late,
                 app, from, dropped, produced, typed>>

Replay_SkipsFirst(k, l) == [i \in 1 .. (IF l + 1 < Len(ring) THEN Len(ring) - l - 1 ELSE 0) |->
                             Pty(k, l + 1 + i, ring[l + 1 + i])]

(* The packets after l under key k, in order.                              *)
Replay(k, l) == [i \in 1 .. (IF l < Len(ring) THEN Len(ring) - l ELSE 0) |->
                   Pty(k, l + i, ring[l + i])]

(* handle_sync_req, without a step of the PTY in between.                  *)
BridgeSync ==
  /\ phase = "bridge" /\ Reads("sync_req") /\ Head(inbox).key = key
  /\ out' = Sent(Replay(key, Head(inbox).last))
  /\ UNCHANGED <<agent, run, link, greeting, seat, leaving, late, app, hist>>

-----------------------------------------------------------------------------
(* The shell writes a chunk and a reader thread gets it: this run's, which *)
(* queues it, or one left behind by an earlier run, which finds its queue  *)
(* closed and ends.                                                        *)
ShellWrites ==
  /\ shell /\ ~exited /\ produced < MaxOut
  /\ \/ Reading /\ ptyq' = Append(ptyq, produced + 1) /\ UNCHANGED stale
     \/ stale > 0 /\ stale' = stale - 1 /\ UNCHANGED ptyq
  /\ produced' = produced + 1
  /\ UNCHANGED <<phase, shell, exited, token, key, offer, ring, net, app, from, dropped, typed, written>>

(* The shell exits, by itself or killed (sys_kill).                        *)
ShellExits ==
  /\ shell /\ ~exited
  /\ exited' = TRUE /\ stale' = 0
  /\ UNCHANGED <<phase, shell, token, key, offer, ptyq, ring, net, app, hist>>

-----------------------------------------------------------------------------
(* The app.  off: no usable connection; offer: joined, waiting for a key;  *)
(* hmac: ciphertext sent; up: the session is encrypted.                    *)

(* What its predecessor sent is there before the newcomer's join, except   *)
(* that the old handler may still hold a frame it has read and checked     *)
(* (the token check and the forwarding take the lock one after the other). *)
Overtaken ==
  /\ late = <<>> /\ inbox # <<>>
  /\ Last(inbox).type \in {"cipher", "input", "sync_req", "disconnect"}
  /\ Last(inbox).key = cur

(* A connection, by the user or after a loss (connect, then the join of    *)
(* performHandshake); the relay gives it the seat.                         *)
AppConnects ==
  /\ cst = "off" /\ cur < MaxConn
  /\ cur' = cur + 1 /\ cst' = "offer" /\ seat' = cur + 1
  /\ \/ inbox' = ToAgent(inbox, Join) /\ UNCHANGED late
     \/ Overtaken /\ link = "up" /\ late' = <<Last(inbox)>>
        /\ inbox' = Append(Front(inbox), Join)
  /\ UNCHANGED <<agent, run, link, greeting, out, leaving, auto, last, seen, hist>>

(* The old handler forwards what it held.                                  *)
LateFrame ==
  /\ late # <<>>
  /\ inbox' = ToAgent(inbox, Head(late)) /\ late' = <<>>
  /\ UNCHANGED <<agent, run, link, greeting, out, seat, leaving, app, hist>>

(* The connection ends; the relay will notice.                             *)
Hangup ==
  /\ cst' = "off" /\ leaving' = leaving \cup {cur} /\ dropped' = {}
  /\ UNCHANGED <<from, produced, typed, written>>

(* The network or the operating system takes the connection away.          *)
AppDrops ==
  /\ cst # "off"
  /\ Hangup
  /\ UNCHANGED <<agent, run, link, greeting, inbox, out, seat, late, cur, auto, last, seen>>

(* The user disconnects: a goodbye first.  The next connection is manual.  *)
AppDisconnects ==
  /\ cst # "off" \/ auto
  /\ IF cst = "off" THEN UNCHANGED <<inbox, cst, leaving, hist>>
                    ELSE Hangup /\ inbox' = ToAgent(inbox, Disconnect(cur))
  /\ auto' = FALSE
  /\ UNCHANGED <<agent, run, link, greeting, out, seat, late, cur, last, seen>>

(* The handshake fails (15 s without an offer, 10 s without an HMAC, or a  *)
(* wrong one): a manual attempt says goodbye, a reconnection just tries    *)
(* again on a new connection.                                              *)
GiveUp ==
  /\ Hangup
  /\ inbox' = IF auto THEN inbox ELSE ToAgent(inbox, Disconnect(cur))
AppTimesOut ==
  /\ cst \in {"offer", "hmac"}
  /\ GiveUp
  /\ UNCHANGED <<agent, run, link, greeting, out, seat, late, cur, auto, last, seen>>

(* A keystroke, batched and encrypted.                                     *)
AppTypes ==
  /\ cst = "up" /\ typed < MaxKey
  /\ typed' = typed + 1
  /\ inbox' = ToAgent(inbox, Input(cur, typed + 1))
  /\ UNCHANGED <<agent, run, link, greeting, out, seat, leaving, late,
                 app, from, dropped, produced, written>>

-----------------------------------------------------------------------------
(* The oldest message of the agent reaches the relay and whoever holds the *)
(* seat.                                                                   *)
Arrives(t) == out # <<>> /\ Head(out).type = t /\ out' = Tail(out)
Listening(states) == seat = cur /\ cst \in states

(* The channel to the app's connection is full, of the oldest messages the *)
(* app has not read yet: the next one that gets to the relay is dropped,   *)
(* and nobody is told.                                                     *)
RelayDrops ==
  /\ Listening({"offer", "hmac", "up"}) /\ Slots < Len(out)
  /\ out' = RemoveAt(out, Slots + 1)
  /\ dropped' = IF cst = "up" /\ out[Slots + 1].type = "pty"
                THEN dropped \cup {out[Slots + 1].chunk} ELSE dropped
  /\ UNCHANGED <<agent, run, link, greeting, inbox, seat, leaving, late,
                 app, from, produced, typed, written>>

(* Nobody is there, or the app has no use for it: offers and HMACs outside *)
(* the handshake, output before the session is up or of another session.   *)
(* (The recovery that output of another session would schedule needs no    *)
(* step: by PacketsGenuine none comes.)                                    *)
Unheard ==
  /\ \/ Arrives("offer") /\ ~Listening({"offer"})
     \/ Arrives("hmac") /\ ~Listening({"hmac"})
     \/ Arrives("pty") /\ ~(Listening({"up"}) /\ Head(out).key = cur)
  /\ UNCHANGED <<agent, run, link, greeting, inbox, seat, leaving, late, app, hist>>

(* The app encapsulates a secret for the offered key.                      *)
AppGetsOffer ==
  /\ Arrives("offer") /\ Listening({"offer"})
  /\ cst' = "hmac"
  /\ inbox' = ToAgent(inbox, Cipher(cur, Head(out).offer))
  /\ UNCHANGED <<agent, run, link, greeting, seat, leaving, late, cur, auto, last, seen, hist>>

(* attach clears the screen and starts from 0; reattachAfterReconnect goes *)
(* on from _lastGoodSeq.  Both ask for what is missing.                    *)
AppGetsHmac ==
  /\ Arrives("hmac") /\ Listening({"hmac"}) /\ Head(out).key = cur
  /\ cst' = "up" /\ auto' = TRUE
  /\ last' = IF auto THEN last ELSE 0
  /\ seen' = IF auto THEN seen ELSE {}
  /\ from' = last'
  /\ inbox' = ToAgent(inbox, SyncReq(cur, last'))
  /\ UNCHANGED <<agent, run, link, greeting, seat, leaving, late, cur,
                 dropped, produced, typed, written>>

AppRejectsHmac ==
  /\ Arrives("hmac") /\ Listening({"hmac"}) /\ Head(out).key # cur
  /\ GiveUp
  /\ UNCHANGED <<agent, run, link, greeting, seat, late, cur, auto, last, seen>>

(* _handleMessage: output is written and its number becomes _lastGoodSeq.  *)
AppGetsPty ==
  /\ Arrives("pty") /\ Listening({"up"}) /\ Head(out).key = cur
  /\ seen' = seen \cup {Head(out).chunk}
  /\ last' = Head(out).seq
  /\ UNCHANGED <<agent, run, link, greeting, inbox, seat, leaving, late, cur, cst, auto, hist>>

RelayCleansUp_Silent ==
  /\ \E c \in leaving :
       /\ \A k \in DOMAIN late : late[k].key # c
       /\ leaving' = leaving \ {c}
       /\ seat' = IF seat = c THEN 0 ELSE seat
  /\ UNCHANGED <<agent, run, link, greeting, inbox, out, late, app, hist>>

(* The relay's handler of an ended connection cleans up.                   *)
RelayCleansUp ==
  /\ \E c \in leaving :
       /\ \A k \in DOMAIN late : late[k].key # c
       /\ leaving' = leaving \ {c}
       /\ seat' = IF seat = c THEN 0 ELSE seat
  /\ inbox' = ToAgent(inbox, PeerDisconnect)
  /\ UNCHANGED <<agent, run, link, greeting, out, late, app, hist>>

-----------------------------------------------------------------------------
MainLoop == Spawn \/ Connect \/ ConnectFails
AgentReads ==
  \/ InitAuth \/ InitIgnore \/ InitJoin \/ WaitJoin \/ BridgeJoin \/ JoinBootFails
  \/ InitEnds \/ WaitEnds \/ BridgeEnds \/ WaitIgnore
  \/ HandshakeIgnore \/ HandshakeCipher \/ HandshakeSendFails \/ HandshakeEnds
  \/ BridgePeerGone \/ BridgeIgnore \/ BridgeInput \/ BridgeSync
AgentPty == WaitPty \/ BridgePty \/ BridgeSendFails \/ BridgeEof
Delivers ==
  Unheard \/ AppGetsOffer \/ AppGetsHmac \/ AppRejectsHmac \/ AppGetsPty

Next ==
  \/ MainLoop \/ AgentReads \/ AgentPty
  \/ Greet \/ LinkLost \/ LateFrame \/ Delivers \/ RelayDrops \/ RelayCleansUp
  \/ ShellWrites \/ ShellExits
  \/ AppConnects \/ AppDrops \/ AppDisconnects \/ AppTimesOut \/ AppTypes

Spec == Init /\ [][Next]_vars

(* The agent's task is scheduled whenever it can go on; what is under way  *)
(* arrives; the relay's read loops notice a connection that ended, by the  *)
(* stream or by their own ping (DeadWriterLeaves in Relay).                *)
Fairness == WF_vars(AgentReads) /\ WF_vars(Greet) /\ WF_vars(LateFrame) /\ WF_vars(RelayCleansUp)
FairSpec == Spec /\ Fairness

-----------------------------------------------------------------------------
Chunk == 1 .. MaxOut
Conn  == 0 .. MaxConn

(* The shapes of the state; buffer, queue and key belong to one run.       *)
TypeOK ==
  /\ phase \in {"down", "init", "wait", "handshake", "bridge"}
  /\ shell \in BOOLEAN /\ exited \in BOOLEAN /\ token \in BOOLEAN
  /\ key \in Conn /\ offer \in Nat
  /\ ptyq \in Seq(Chunk) /\ ring \in Seq(Chunk) /\ stale \in 0 .. MaxRun
  /\ run \in 0 .. MaxRun /\ link \in {"up", "lost"} /\ greeting \in BOOLEAN
  /\ seat \in Conn /\ leaving \subseteq Conn /\ cur \in Conn
  /\ cst \in {"off", "offer", "hmac", "up"} /\ auto \in BOOLEAN
  /\ last \in 0 .. MaxOut /\ seen \subseteq Chunk /\ dropped \subseteq Chunk
  /\ produced \in 0 .. MaxOut /\ typed \in 0 .. MaxKey
  /\ ~Reading => ptyq = <<>> /\ ring = <<>> /\ key = NoKey

(* Both ends agree on the session: whenever the app believes it is         *)
(* connected and the agent serves somebody, it serves this app with the    *)
(* key the app has; no mix of attempts, stale offers and late messages     *)
(* leaves the two talking past each other.                                 *)
KeysAgree == cst = "up" /\ phase = "bridge" => key = cur

(* Keystrokes reach the shell in the order they were typed, none twice,    *)
(* and within one connection none is left out.                             *)
InputInOrder ==
  \A i \in 2 .. Len(written) :
    /\ written[i - 1].n < written[i].n
    /\ written[i - 1].c = written[i].c => written[i].n = written[i - 1].n + 1

(* Chunks are numbered in the order the shell wrote them, whether an app   *)
(* was served meanwhile or not; a packet on its way carries the number the *)
(* buffer has for it, and no app that is through gets one of another       *)
(* session.                                                                *)
PacketsGenuine ==
  /\ \A i \in 1 .. Len(ring \o ptyq) - 1 : (ring \o ptyq)[i] < (ring \o ptyq)[i + 1]
  /\ \A k \in DOMAIN out : out[k].type = "pty" =>
       /\ phase = "bridge" /\ out[k].key = key /\ key # NoKey =>
            out[k].seq \in DOMAIN ring /\ ring[out[k].seq] = out[k].chunk
       /\ cst = "up" /\ seat = cur => out[k].key = cur

(* The current connection is served and nothing is under way.              *)
Served == cst = "up" /\ phase = "bridge" /\ key = cur /\ seat = cur /\ link = "up"
Quiet == out = <<>> /\ \A k \in DOMAIN inbox : inbox[k].type # "sync_req"

(* Once the request it made when it got through was answered, the app      *)
(* shows every buffered chunk after the number it asked from, but those    *)
(* the relay had no room for: the replay and the live output around it     *)
(* leave no other hole.                                                    *)
HolesAreDrops ==
  Served /\ Quiet => \A i \in (from + 1) .. Len(ring) : ring[i] \in seen \cup dropped

(* The agent does not serve a client for ever that is gone: it hears of it *)
(* and leaves the bridge, unless the app is back before.                   *)
LostClientNoticed == phase = "bridge" /\ cst = "off" ~> phase # "bridge" \/ cst # "off"

-----------------------------------------------------------------------------
(* What comments and README say, and the code does not do.                 *)

(* "On reconnect the Flutter side sends sync_req and the agent replays     *)
(* everything since its last known seq" (README.md:255): a reconnected app *)
(* shows all of the buffer.                                                *)
ReconnectRestoresOutput == Served /\ Quiet => ToSet(ring) \subseteq seen

(* "On every subsequent text frame it constant-time-validates the token    *)
(* (...) and forwards the bytes to the other peer in the room"             *)
(* (README.md:263, of the relay): the app shows all the buffered output    *)
(* after the number it asked from.                                         *)
NothingMissingAfterRequest ==
  Served /\ Quiet => \A i \in (from + 1) .. Len(ring) : ring[i] \in seen

(* "When the WS drops mid-session, the agent and client both preserve      *)
(* their PTY/session state (the ring buffer on the agent side,             *)
(* _lastGoodSeq on the client side)" (README.md:920-923): the number a     *)
(* served app asks from is one this buffer has given.                      *)
AsksFromKnownNumber == Served => last <= Len(ring)

(* "PTY persists across reconnects; only respawn if shell exits"           *)
(* (main.rs:83).                                                           *)
ShellKept == [][shell /\ ~shell' => exited]_vars

(* "On Flutter disconnect, waits for re-join and performs a fresh ML-KEM   *)
(* handshake without leaving the room" (session.rs:186-187): the agent     *)
(* does not go on waiting for the answer of a client that left while a     *)
(* newer one waits for an offer.                                           *)
NewcomerIsServed ==
  ~(cst = "offer" /\ seat = cur /\ phase = "handshake" /\ link = "up" /\ token
      /\ inbox = <<>> /\ out = <<>>)

(* "Relay reports peer dropped" (session.rs:420): the agent only leaves    *)
(* the bridge when the client it serves is gone.                           *)
BridgeKeptForItsClient ==
  [][phase = "bridge" /\ phase' = "wait" => ~(cst' = "up" /\ key = cur)]_vars

(* "Wait for relay auth token and first Flutter client" (session.rs:89).   *)
TokenBeforeHandshake == phase = "handshake" => token

(* "Reconstruct from a write handle (reader is gone, will clone a new      *)
(* one)" (pty.rs:88): output read while this run reads the PTY goes to     *)
(* this run, not to the thread of an earlier one.                          *)
OneReader == [][produced' # produced /\ Reading => ptyq' # ptyq]_vars

(* "Join notification from relay - ignore (handled by handshake flow)"     *)
(* (terminal_service.dart:334): an agent that joins the room again meets   *)
(* the client that still holds its seat there; neither waits for ever for  *)
(* the other's join.                                                       *)
MeetsAgain ==
  ~(cst = "up" /\ seat = cur /\ phase = "init" /\ link = "up"
      /\ inbox = <<>> /\ ~greeting)
=============================================================================
