# A TLA+ model of KTTY

KTTY is a remote terminal: an *agent* on the host runs a shell, an *app* (Flutter:
phone, desktop, web) shows it, and a *relay* in between forwards their WebSocket
frames. App and agent agree on a key (ML-KEM 768, authenticated by an HMAC under a
key derived from a PIN), and everything after that is end-to-end encrypted. What
makes the program hard is not any one of the three, it is that each of the two
connections may end and be replaced at any time, in any order, while the other end,
the relay's book-keeping, a handshake, a replay and the shell go on.

This directory holds TLA+ modules translated from the source, TLC configurations
that check them on small instances, and TLAPS proofs for all instances.
Paths are relative to the repository; `main.rs` is the relay's or the agent's as the
context says, `session.rs` and `pty.rs` are the agent's.

## 1. Inventory

| Component | State | Operations | Interacts with |
|---|---|---|---|
| **Relay** `backend/relay/src/main.rs` | the map of rooms (peers with number, channel, token, last activity; the next number), one bounded channel per connection; per handler its room, number and place | accept, register (ping out the dead, evict the least active, add), auth reply, join notice, read loop (ping, pong, text with token check, binary, close), write task, cleanup, background eviction | agent and app by frames; its tasks share the map (one mutex) and the channels |
| **Replay buffer** `backend/agent/src/ring_buffer.rs` | packets, byte count, capacity | push with eviction, oldest number, packets since a number with the gap | bridge and waiting loop push, sync request reads |
| **Agent session** `session.rs`, `main.rs` | PTY handle, relay token, queue of the PTY reader, buffer, counter, session key, where `run` is | connect and join, wait for first join, boot signal, handshake, bridge (output, input, sync, resize, kill), waiting loop, every way out | PTY by threads and a queue; relay by a socket with a write task |
| **PTY** `pty.rs` | master, writer, child, its process group | spawn (a login shell; tmux is switched off), take the reader, rebuild from a write handle, resize, kill | reader threads of one run or of several |
| **WebSocket service of the app** `lib/services/websocket/websocket_service.dart` (with `lib/app.dart`, `dashboard_screen.dart`) | channel, subscription, token, session key and id, URL and PIN, auto-reconnect flag, attempts, timer | connect, handshake with two timeouts, loss, back-off reconnection, suppression and closing in the background, goodbye | relay; terminal service by stream and callbacks; app life cycle |
| **Terminal service** `lib/services/terminal/terminal_service.dart` | sequence numbers, input batch and timer, predicted echo, resize debouncing, sync recovery | attach, reattach, detach, typing, flush, messages, resize and pinch | the WebSocket service; the terminal widget |
| **Crypto** `backend/common/src/crypto.rs`, the FFI and WASM wrappers, `lib/services/crypto` | none | Argon2, XChaCha20-Poly1305, HMAC, ML-KEM | all three |
| **Wire messages** `backend/common/src/messages.rs` | none | JSON shapes | all three |
| **Clipboard text** `clipboard_text.dart` | none | pure functions on text | terminal screen |
| **Keyboard** `keyboard_state.dart`, `widgets/keyboard` | modifiers, layer | sticky modifiers, key to bytes | terminal |
| **Screens, gestures, mock server, runners** | layout | rendering | - |

What makes each component correct:

- *Relay*: at most two peers in a room; numbers tell them apart, because every lookup
  goes by number; nobody stays in a room whose handler has returned; no empty room
  stays; of two peers that share a room at least one hears of the other (one is offered the
  other's join, but a full channel loses it: `NewcomerAnnounced`,
  section 5); frames stay in their room; a stalled
  client costs bounded memory; a dead one leaves.
- *Buffer*: forgets no more than it must; what it keeps is the newest output without a
  hole; an answer accounts for each requested number once, replayed or reported as lost.
- *WebSocket service*: the session key is one the agent confirmed; what the service calls
  its channel is what it listens to; a reconnection finds URL and PIN; a loss leads to
  another attempt unless reconnecting was turned off (or an attempt that failed took URL and
  PIN away from one that did not: `RetriesWithoutUser`, section 5); the terminal takes a message once.
- *Terminal service*: the local echo swallows nothing the server wrote and is shown once;
  typed input is neither lost, doubled nor reordered within a session; recovery cannot lock
  itself out; the last window size wins, whatever timers, pinches and reconnections do.
- *Session*: both ends use the same key; keystrokes arrive in order and at most once;
  output carries the number the buffer has for it; what a reconnecting app asked for is
  on its screen when all is quiet (but for what did not fit the relay's channel:
  `NothingMissingAfterRequest`, section 5); an
  agent does not serve somebody who is gone.

What is hard: the relay's handler takes the map's lock several times per frame and
several times per join; a handler may outlive its place in the room, and the room; the
agent reads its socket and its PTY in one `select!` but in three different loops that
ignore different things; the reader thread of a previous run cannot be stopped; the
handshake has no timeout on the agent's side; the app has timeouts on its side; both
ends keep state across connections, but not the same state. The list `hazards` in
`PROJECT.json` has each of these at its line.

## 2. Modules

| Module | Models | Runs | Proofs |
|---|---|---|---|
| `ReplayLog` | *abstract*: what the agent promises about output and replays | (as the refined specification) | refinement |
| `RingBuffer` | the replay buffer, its counter and `handle_sync_req` | `RingBuffer` | `RingBufferProofs` |
| `Relay` | the relay: handlers, write tasks, background task | `RelaySafety`, `RelayLiveness`, `RelayNumberReuse` | `RelayProofs` |
| `RelayMC` | instances of `Relay` (symmetry) | | |
| `Session` | agent and app, over a relay reduced to what they see of it | `SessionInput`, `SessionOutput`, `SessionGap`, `SessionStuckHandshake` | `SessionProofs`, `SessionInputProofs`, `SessionOutputProofs` |
| `WsClient` | the app's connection service: overlapping attempts, timer, life cycle, user | `WsClient`, `WsClientStranded` | `WsClientProofs` |
| `Terminal` | the app's terminal service, from the keyboard to the shell and back, and the window size on its way to the PTY | `Terminal` | `TerminalProofs`, `TerminalInputProofs` |
| `Backoff` | the delay before a reconnection, in 64-bit arithmetic | `Backoff` | |

`Session`, `WsClient` and `Terminal` have the app's side of a connection from three sides.
`Session` has one attempt at a time and says what agent, relay and app become of it together.
`WsClient` has every attempt there may be at once, each going through its awaits, with an
environment that may answer anything. `Terminal` takes a session as one step, because
`KeysAgree` and `VerifiedKey` say that both ends have it or neither, and has what
the app does within one and across its end. Sequence numbers and the answers
to sync requests are in `Session`, the listener that `attach` leaves behind in `WsClient`.

In each module a definition called `Def_Slip` is `Def` with one plausible coding
mistake in it. It is not part of the specification: each property is seen to fail
with one of them in the place of `Def` (`mutants` in `PROJECT.json`), which shows that
the property says something about that code.

### RingBuffer

`buf`, `currentBytes` and `seq` are the fields `buf` and `current_bytes` and the
session's `AtomicU64`. A packet is its number and `byte_size()`. `log` (all packets pushed)
and `reply` are history. `Produce` is a chunk of output, numbered and pushed, in the
bridge or in the waiting loop; `Push` contains the whole eviction loop as "the fewest
packets that make the rest fit" (`Evictions`). `Sync` is `handle_sync_req`; `Restart` is
a new `run`, with a new buffer and a new counter. `clear` is not modelled: nothing calls
it. `ImplementsReplayLog` is the refinement of `ReplayLog` under `base <- Len(log) -
Len(buf)`: forgetting is eviction.

### Relay

One step is what runs between two points where another task can get in: one critical
section of the map's mutex or one channel operation. `pc` is where a handler is:

| `pc` | in `handle_socket` |
|---|---|
| `new` | before the first message |
| `joined`, `greeted` | registered; token queued |
| `reading` | in the read loop |
| `ponged` | a Ping was answered, the activity not yet updated (two locks) |
| `checked` | a text frame passed the token check, not yet forwarded (two locks) |
| `closing`, `done` | out of the loop; returned |

`rooms` is the map. A connection's model value also stands for its channel and its
random token. Times are abstracted to the order they are compared by: `before` holds
`<<c, d>>` when c's `last_activity` is older. Eviction of the least active and
the idle sweep only use that order. `chan` and `writer` are the bounded channel and
its receiver; `try_send` fails when the channel is full or its receiver is gone
(`Accepts`). The endpoints are the environment: they may send any frame of `Inbound` at any
time, stop reading, or vanish. Frames the handler drops (too large, bad JSON, wrong
token) change nothing and have no action. `announced` and `missed` are history: whose join a
channel took, and whose came while it was full (`NotifyJoin` ignores which it was).

### WsClient

A step is what Dart runs from one event to the next awaits. `stage` is where each attempt
to connect is: `connecting` (the await of `connect`), `deriving`, `offer`,
`encapsulating`, `hmac`, `verifying` (the awaits of `performHandshake`), then `done` or
`failed`. An attempt's number stands for its channel and its secret. `channel`, `sub`,
`key`, `url`, `pin`, `auto` and `timer` are the fields of the service; `live` are the channels
whose events still reach it, also those whose subscription was overwritten. `ears` are
the listeners for an HMAC in the order they were added: one whose attempt
timed out stays, and stores its secret in `_pendingHmacVerification` like the others;
`Answered` says who then takes what. `got` and `valid` are what an attempt verifies.
`Fail` is both catch blocks: that of the timer's callback schedules the next attempt, that of the
dashboard disconnects. `fg`, `screen` and `status` are what `app.dart` and the screens decide
by. The user may press again while an attempt runs: the button is off then, but the enter key of
the PIN pad calls `_connect` without asking. `mounted` are the user's attempts of the
dashboard that is shown, the ones that may still leave it for the terminal. Network, relay and
agent are free to close, err, be silent, offer and answer;
an HMAC is for a secret whose ciphertext was sent, or for none. Left out: the checks of URL and PIN
before an attempt, the web version's lockout after failures, the five seconds the Connect
button stays off after one (the enter key does not heed them), and the delays.

### Session

One agent, one app, many connections. `phase` is where the agent is: `down` (in
`main`'s loop), `init` (waiting for the first join), `wait` (the waiting loop),
`handshake`, `bridge`. `inbox` and `out` are the frames on the way to and from the agent, in
order. `seat` is the connection that holds the client's place in the room; it is the
relay's view and can differ from the app's (`cur`). `leaving` are connections
that ended but whose handler has yet to clean up. `late` is a frame an old handler of the
app has read and checked but not yet forwarded (the `checked` state of `Relay`). When the
agent's connection breaks, any number of the messages it sent still get through
(`Survives`); once it is back, only one frame of the old connection can, the one
its handler has checked. `stale` counts reader threads of earlier runs.

A connection's number stands for the secret it encapsulates, so for the session key and
id. Decapsulating a ciphertext made for another offer yields `NoKey`, a key nobody has
(ML-KEM's implicit rejection: it does not fail). The HMAC carries the key it was made
with; the app checks it against its own.

`cst` is where the app's attempt is: `off`, `offer` (joined, waiting for a key), `hmac`
(ciphertext sent), `up`. `auto` says the terminal is attached, so that the next
connection is a reconnection and goes on from `last` (`_lastGoodSeq`). `AppGetsHmac` is the
rest of `performHandshake` with what follows it, `attach` or `reattachAfterReconnect`,
down to the sync request.

The relay's channel to the app holds `Slots` messages. `out` is what the agent sent and the app
has yet to read; when it is longer than that, the relay may find the channel full and drop the next
message (`RelayDrops`). `dropped` is history: the chunks the app's current session lost that way.

Abstractions of `Session`, all of them visible in the module: the relay's channel towards the
agent is never full (it gets a batch of keystrokes every 50 ms at most, so `InputInOrder` is about
an agent that keeps up with them); what was on the way to a connection that was
replaced may still be offered to its successor, which has no use for it; the app has its relay
token before the first offer gets to it; the app has
one attempt at a time, and giving up means hanging up at once; one app at a time holds the client's
seat and nobody evicts the agent; the ring buffer does not evict (that is `RingBuffer`'s
subject) so a packet's number is its place in `ring`; the 45 s of silence after which
the agent gives a connection up is one of the ways of `LinkLost`.

### Terminal

`inbuf`, `flush`, `pred` and `recovering` are `_inputBuffer`, `_inputFlushTimer`,
`_predictedEcho` and `_syncRecoveryInFlight`; `first`, `debounce`, `pinch` and
`pending` are `_firstResize`, what the timer `_resizeDebounce` will send, `_pinchActive` and the
stashed size. `attached` is that the screen is open and its callbacks are set; `frame`
that the screen's post-frame callback is still to run. `jobs` are the messages
that `sendEncrypted` is encrypting: each was made under the key of the session of
that moment, but gets the id and the channel of the moment it is done
(`EncryptionDone`), which may be those of another session, or none. `decs` are
the packets being decrypted. `wire` is on the way to the agent, `serving` the session of
the agent's bridge, `shellIn` and `ptysize` what the PTY was given.

| In the code | Actions |
|---|---|
| `onOutput`, `_flushInput`, `_sendPty` | `Types`, `FlushFires` |
| `_handleMessage`, `_stripPredictedEcho`, `_scheduleSyncRecovery` | `PacketArrives`, `PacketHandled`, `WarningHandled`, `BadFrame` |
| `onResize`, the debounce timer, `notifyPinchStart`, `notifyPinchEnd`, the post-frame callback | `LayoutChanges`, `DebounceFires`, `PinchStarts`, `PinchEnds`, `PostFrame` |
| `attach`, `reattachAfterReconnect`, `detach`, `_disconnect` | `UserConnects`, `Reconnects`, `UserDisconnects`, `ConnectionLost` |
| the bridge: `write_input`, `resize`; a new shell | `AgentInput`, `AgentResizes`, `AgentIgnores`, `BridgeEnds`, `ShellReplaced` |

A predicted character remembers where the screen has it (`at`), and so does each
character of the server's output that was handled (`shown`): `EchoNeverEats` says that
these positions are right and in order. What the server writes is any
sequence of printable characters, an echo or not. `written` is all that was written to
the terminal; the screen itself, and what erases it, is left out but for the mark
`Cleared`. `owed` and `missed` are history: all input since the session began, and
that the newest size was lost in one of the ways the code does not prevent
(no session to send it in, another session by the time it is encrypted, a bridge that
ended, a new shell, a pinch that begins while the timer runs, a
screen closed in mid-pinch).

Abstractions: encryptions end in the order they were begun, and so do decryptions (in the
code they are futures over one worker and over one isolate's event loop); the microtask of
`_scheduleSyncRecovery` is one step with its scheduling; its failure without a
session clears the flag at once. What users, network and agent do unasked happens at most
`MaxAct` times in a
behaviour, counted by `acts`.

### Backoff

`Product` is `kReconnectInitial.inMilliseconds * pow(2, attempts)` as Dart's native
integers compute it, modulo 2^64 and signed; a number is four limbs of 16 bits. On the web
numbers are doubles and nothing wraps around. `Schedule`, `Lost`, `Reconnected`,
`ReconnectFails`, `Suppressed` and `AttemptReconnect` are what reads or writes the counter
and the timer.

## 3. Runs

Times are for two workers.

| Run | Instance | Shows |
|---|---|---|
| `RingBuffer` | capacity 7, sizes 2, 3 and 7, five packets | an eviction of none, one and several packets, a packet that fills the buffer by itself, requests before, in and after what is kept, restarts; 12 030 states |
| `RelaySafety` | three connections, two rooms, channels of one, text frames | every interleaving of joins, eviction, idle sweep, cleanup and forwarding; three is the fewest with an eviction, and with a room that is removed and re-created while a handler of the old one is alive. The map stays consistent, of two peers that meet one was offered the other's join (its channel took it or was full), frames never overfill a channel, return to the sender or cross rooms, evicted senders included; 977 902 states, 2 minutes |
| `RelayLiveness` | two connections, all frame kinds | under fairness a connection whose write task ended leaves |
| `RelayNumberReuse` | two connections, no frames | *violated*, finding 1 |
| `SessionInput` | two connections, two agent runs, two keystrokes, with fairness | no mix of stale offers, late frames of either side and lost links makes a connected app and a serving agent have different keys (the offer of an earlier run that arrives late makes the agent's key one nobody has: the app rejects the HMAC); keystrokes reach the shell in order, none twice, and none missing in the middle of one connection; an agent that serves a client which is gone leaves the bridge; 562 844 states, 1.5 minutes |
| `SessionOutput` | two connections, two runs, three chunks, one slot | numbers, packets under way and the completeness of a replay: what the app asked for and does not show is what the relay had no room for, and nothing else; 4 702 226 states, 2.5 minutes |
| `SessionGap`, `SessionStuckHandshake` | as small as the behaviour allows, 64 slots so that nothing is dropped | *violated*, findings 2 and 3 |
| `WsClient` | three attempts | whatever overlaps, times out, comes late, is paused or disconnected: only confirmed secrets are used, the channel is heard, the timer has its credentials, and while auto-reconnect is on and URL and PIN are known, a missing channel has a timer or an attempt that awaits its connection; 2 467 725 states, 1.5 minutes |
| `WsClientStranded` | one attempt | *violated*, finding 4 |
| `Terminal` | two characters, packets of up to two, two window sizes, two sessions, three unasked acts, with fairness | echo, input, recovery and window size through type-ahead, output that agrees with a prediction in part, bad frames, pinches, losses, disconnects and new shells; 263 477 states, 1 minute |
| `Backoff` | 70 failures | *violated*, finding 5 |

**Bounds.** Every bound is a constant. Two app connections are needed for anything
stale; a third makes something stale twice over, and `SessionGap` needs it. `KeysAgree` was
also checked with `MaxConn = 3, MaxRun = 2, MaxOut = 0, MaxKey = 0, Slots = 64` (6 053 368
states), and is proved for
all bounds. Two agent runs are needed for state that outlives a run; a third adds
nothing, since everything but the shell, its old readers and the app's number is reset.
Three chunks are the fewest for replay, live output and an earlier loss at once; two
keystrokes the fewest for order. One slot makes a channel overflow with two packets on the way, the
code's 64 would need 65; the proofs are for any number. Three attempts of the app are one that
timed out and left its
listener, and two that overlap, or three presses. In `Terminal` two sessions make a message of the
old one reach the new one, two characters tell an echo from other
output, and three acts are enough for a type-ahead of two and a packet, or a pinch around
a layout change, or a loss after either; each property is seen to fail within them. Runs differ
in their bounds because each question needs
some dimension large and others small.

**Deadlock** is checked by every run but `Terminal`, where a user who has used up the acts
and a service with nothing to do may rest. The relay's background task, the agent's main
loop and the app's life cycle always have a next step, so what the runs exclude this way
is only a model that runs into its bounds.

**Fairness.** `Relay`: a task that is ready runs, and the runtime's mutex is fair (weak
fairness of the handler's steps between waits, and of cleanup). The read loop's
`select!` polls the frame stream and the write task in random order, so when both are
ready again and again the second is taken eventually: strong fairness of
`WriterDied`. Nothing is assumed of clients, of the writer or of the idle sweep.
`Session`: weak fairness of the agent's reading from its socket, of the relay's greeting
and forwarding, and of the relay's cleanup of an ended connection. The last is an
assumption about the relay as a whole: an ended connection is noticed because its stream
ends or because the write task's ping fails, which is `DeadWriterLeaves`. Nothing is
assumed of the app, which may stay away for ever, nor of the shell. `Terminal`: the debounce
timer fires, encryptions end, the agent reads what has come, and the user
lifts the fingers that are on the terminal; nothing is assumed of typing, layout
changes, packets, losses or reconnections. `WsClient` has no
liveness property and assumes no fairness: `LossIsRetried` says in every state that
a timer or an attempt to connect is on its way, not that it succeeds.

## 4. Proofs

Every safety property that a passing run checks is proved, for every value of the
constants, and so is the refinement of `ReplayLog`. What is left to TLC are the three liveness
properties. An inductive invariant was checked by TLC on the run's instance before it was
proved.

**RingBuffer.** From `SizesAssumption` (a packet is not larger than the buffer: a PTY
read is at most 4096 bytes, the buffer 2 MiB) and `MaxSeqAssumption`. The invariant
`Inv` is the conjunction of the run's five. They need one another: accounting needs that what
is popped was counted, laziness needs that the buffer is a suffix of the log, and
`ReplyExact` needs the numbers to be contiguous. The work is in `Bytes`, a recursive sum over a
sequence. Nothing about a recursive function can be cited before it is shown to
exist, and then it needs induction: `SetInduction` (induction over a
set of numbers, for a fixed set rather than a predicate), `TotalsExist`, `BytesIsTotal`,
and from these `BytesAppend` and `BytesSplit`. `EvictionLoop` says what the loop
of `push` leaves. `Refinement` maps each step to a step of `ReplayLog` or a stutter.

**Relay.** From `RoomAssumption`, `CapacityAssumption` and `InboundAssumption`; `Conn` is
arbitrary. The inductive invariant is `Locals /\ Membership /\ Channels`. The properties
of the runs are not inductive: `MeetingAnnounced` speaks of pairs both of which are through with
joining, and a step of one of them makes a pair so. The strengthening is
`LaterAnnounced`: of two peers, the one with the larger number, once it is through, has
been announced to the other or found its channel full, unless one of them left. The larger number
joined later, while the other was already in the map, which is why its notice cannot pass it by.
`NumbersUnique` carries it. The statement without the exception, `NewcomerAnnounced`, is
false (section 5). `RoomCapacity` is proved by exhibiting the two peers (a set
with at most two members) rather than by counting, and the choice of a victim needs `Ordered`,
the totality of the activity order. One lemma per action shows that it preserves `Inv`.

**WsClient.** From `MaxTryAssumption`. The inductive invariant is the type, the run's
`HearsItsChannel`, `TimerHasCredentials`, `VerifiedKey` and `LossIsRetried`, and one strengthening,
`Genuine`: an attempt whose HMAC is right holds a confirmed secret; it carries
`VerifiedKey` over the await of the verification. `LossIsRetried` needs no assumption about how many
attempts overlap or whose they are: each step that takes a channel away schedules or forgets,
and each that ends an attempt's wait for its connection gives a channel, schedules or forgets
(`RetryStep`). It has URL and PIN among its conditions because an attempt that fails takes them from the
others (`RetriesWithoutUser`, section 5). `Takers` reduces what an HMAC does to two disjoint
sets of attempts, so that no proof has to go through the order of the listeners.

**Session.** From `BoundsAssumption` and `SlotsAssumption`. `Shape` is the type invariant with
what it needs: the
shapes of the frames on the way (a sync request's number becomes one of a
packet), that a chunk is queued or in the buffer, and that a run leaves at most one reader
behind. A step of one side leaves the other's state (`AgentKeeps`, `AppKeeps`), and
`InboxStep` and `OutKeeps` say once what any step does to the frames on the way, so that no
invariant about them goes through the actions again. `KeysAgree` is far from inductive: it
holds because of the order of messages that were sent long before. `KeyInv` has the three facts
it rests on.
`Known`: nothing on the way is from a connection yet to come, and what an old handler
still holds is from an older one. `JoinFirst`: behind a ciphertext of the current connection there
is no join in the agent's inbox, so after it was read nothing but a newer connection can start
a handshake.
`SettledOnceConfirmed`: once an HMAC under the current connection's key is on its way,
or has come, the agent is in no handshake, no join is on the way, and if it serves anybody, it serves
this connection.

`SessionInputProofs` is about the life of a connection's key. `SpentOrFresh`: at any time, either a
connection's ciphertext cannot be taken any more (it is of the past, and neither in the agent's
inbox nor held by an old handler), or nothing made with its key exists (no HMAC, packet,
keystroke, request, nothing written to a shell). With `CipherOnce` it says that the key a handshake makes
is new to everything on the way, so a bridge's stream of keystrokes has a beginning. From there
`Stream` has
the keystrokes the bridge will still take follow one another and those written; it only speaks of
those before the next join, since at the join the bridge ends. `NextFollows` adds the
keystroke typed next, and `LateBehindJoin` says why what an old handler still forwards
does no harm: the join of its successor is already in the inbox, ahead of it.
`InputInOrder` follows without being inductive itself.

`SessionOutputProofs` has two invariants on top. For `PacketsGenuine`: `Numbered` (the shell's chunks, in
the buffer and queued, rise), `Genuine` (a packet of the bridge there is has a number of the buffer, and
its chunk) and, because an app that is through must not get the packets of the bridge before,
`OwnBehindHmac`: behind the HMAC of the current connection there is only its output, which becomes
`OwnOnly` when the HMAC is taken. For `HolesAreDrops`: `Covered`, every chunk of the buffer after
`from` is shown, was dropped by the relay on this connection, is on its way, or will be
replayed because the request is still in the inbox. That the request
is there when the app gets through, that it is answered once and with the app's number, and
that live output of
the meantime is sent rather than only buffered, are `AskedOnce`, `SeatHeld` and `Confirmed`
(who confirmed
has the token, and sends). A drop takes one message from the middle of what is on the way: `RemovedAt`
and `OrderKept` say what that leaves of order and content. Without drops in the statement it is false (section 5).

**Terminal.** From `CharAssumption`, `SizeAssumption` and `BoundsAssumption`. `Shape` is the type
invariant with the shapes of the messages under way (each belongs to a session, never
to none) and `Stash`: no pinch beside a running resize timer. `EchoNeverEats` is inductive; its proof
is `Handled`, which reduces `_stripPredictedEcho` and the write to two cases (the packet
begins with all the predictions kept, and the rest of it is written; or the predictions begin with
all of the packet), and one lemma for each: `OnShown` and `Moved`. `RecoveryEnds` is
inductive, given that messages are encrypted in order. `SizeOnItsWay` is not: it picks the
newest report from the messages
under way, and during the first frame it says nothing. The invariant is `Waiting` (what is
stashed or waits
for the timer is the terminal's size, and before the first layout nothing does, also
while the screen is closed) and `Kept`, which says `Newest = size` as a relation between
queues (`Way`): the last report of the queue, or, if it has none, of the one before it. In that
form one lemma
for each of sending, encrypting, delivering and losing is enough (`SendsReport`,
`EncryptedKeepsWay`, `ReadKeepsWay`, `LossKeepsWay`), and `WayIsNewest` leads back.

`TerminalInputProofs` is about `InputConserved`, which folds the messages under way into one text with
`FlattenSeq`, a recursive function. As for `Bytes`, it is shown to exist (`FlatExists`,
`FlatAgree`, `FlattenIsLast`), and then how it grows at the end (`FlattenAppend`), is read at
the front (`FlattenTail`) and
is empty (`FlattenNothing`). `Whole` says of any shell input, wire, encryptions and buffer that
together they are
a given text; one lemma for each thing that moves text says that it stays so: `WholeType`, `WholeFlush`,
`WholeEncrypted`, `WholeRead`, and `WholeIdle` for messages without text. What makes it an
invariant across sessions is `Past`:
no message is of a session yet to begin, so a new one starts with nothing under way
(`WholeNew`), whatever is left
of the others and is encrypted or delivered later.

**Only model-checked.** `DeadWriterLeaves`, `LostClientNoticed` and `SizeArrives`: liveness under
fairness, which needs `ENABLED`, is out of the prover's reach. `Backoff` has one run, which
finds its property violated, and nothing to prove.

## 5. What the code does not keep

Each run marked *violated* checks one statement of a comment or of the repository's
README. TLC's trace is the scenario.

1. `RelayNumberReuse` - a handler that outlived its room removes the peer that has its
   number in the room's successor (`main.rs:432`).
2. `SessionGap` - a live packet moves `_lastGoodSeq` past output that was never received; after
   another loss that output is not asked for (`terminal_service.dart:377`).
3. `SessionStuckHandshake` - an agent in a handshake ignores everything but a ciphertext, for
   ever (`session.rs:640`).
4. `WsClientStranded` - `suppressReconnect` turns auto-reconnect off for a pause, and the
   resume turns it on again only when it finds the channel gone; a connection that
   survived the pause is not reconnected when it is lost later (`app.dart:76`).
5. `Backoff` - `kReconnectInitial` doubled 54 times is negative in 64 bits, and less than
   the cap: the app then reconnects without waiting at all (`websocket_service.dart:135`).

Thirteen more statements are in the modules and fail, but have no run. To have TLC
print the trace, put the property in a configuration of its own (an `INVARIANT`, or a
`PROPERTY` for those marked *): for `Session` with `MaxConn = 2, MaxRun = 2, MaxOut =
1, MaxKey = 0, Slots = 64`, for `WsClient` with `MaxTry = 2`, for `Terminal` with the
constants of `Terminal.cfg` (`Spec`, no deadlock check). Three of them are what a property
of a passing run would be without its exception:

- `NewcomerAnnounced` (`RelayMC`, with the constants of `RelayNumberReuse.cfg`) - the join of a
  newcomer is lost when the other peer's channel is full (the ping that `Register` queues
  may take the last place): neither peer then has the other's join, and nothing
  sends it again (`main.rs:237`). `MeetingAnnounced` allows for just that.
- `NothingMissingAfterRequest` (`Session`, with `MaxConn = 1, MaxRun = 1, MaxOut = 2, MaxKey =
  0, Slots = 1`) - a replay is sent in one burst (`session.rs:594`), and what exceeds the
  relay's channel (64 messages; the buffer may hold 2 MiB in packets of at most 4096 bytes)
  is dropped without a word (the relay's `main.rs:419`). The packets behind the hole move
  `_lastGoodSeq` past it, so it is not asked for again. `HolesAreDrops` allows for just that.
- `RetriesWithoutUser` (`WsClient`) - two presses of enter on the PIN pad make two attempts; the
  first fails and its `disconnect` forgets the URL, the second succeeds and opens the
  terminal. The next loss finds auto-reconnect on and nothing to reconnect to
  (`dashboard_screen.dart:115`, `websocket_service.dart:130`). `LossIsRetried` is about a
  service that has its URL and PIN.

The others:

- `AsksFromKnownNumber` (`Session`) - after the *agent's* link was replaced, buffer and counter
  start anew while the app keeps its number (`session.rs:182`).
- `ShellKept`* - a connection attempt that fails drops the shell (`session.rs:66`).
- `TokenBeforeHandshake` - a join that overtakes the token starts the handshake without
  it (`session.rs:113`).
- `OneReader`* - the reader thread of the previous run takes output (`pty.rs:89`).
- `MeetsAgain` - an agent that rejoins and a client that stayed do not meet
  (`terminal_service.dart:335`).
- `HeardOnce` (`WsClient`) - the relay closes during the dashboard's handshake, which
  schedules a reconnection; when both get through, `attach` runs twice and every message
  is handled twice (`terminal_service.dart:218`).
- `BridgeKeptForItsClient`* (`Session`) - a `peer_disconnect` about a replaced connection ends the
  current bridge (`session.rs:421`).
- `PinchHoldsBack`* (`Terminal`) - a pinch that begins within 100 ms of a layout change cancels its
  timer and stashes nothing; the comment says "we hold back PTY resize messages"
  (`terminal_service.dart:440`).
- `EchoOnScreen` (`Terminal`) - a data loss warning clears the screen but not the predictions: the
  replay's copy of an erased echo is taken for one that is shown
  (`terminal_service.dart:412`).
- `ServedInItsSize` (`Terminal`) - a shell spawned while the app is away has the size of
  the agent's command line; `reattachAfterReconnect` does not report the app's (`main.rs:88`).

## 6. Not modelled

- Clipboard text: pure functions on text without state; regular expressions carry most of
  their meaning. Keyboard: one notifier changed by one thread at a time, whose every
  transition is a table the unit tests go through.
- Argon2, XChaCha20 and JSON: taken as ideal; no property here depends on their inside.
- `backgroundClose`: nothing calls it.
- The eviction of the agent by the relay and what it leads to: in `Relay` it is a step like any other,
  in `Session` a lost link. Drops at a full channel towards the agent: `Session` has
only those towards the app. Frame size limits: a paste that exceeds them is a
  lost connection in `Terminal`.
- The statistics of the terminal service (bytes, round-trip estimate): shown, never read back.
- Screens, gestures, runners, mock server: rendering and packaging.

## 7. Plan

Done: `ReplayLog`, `RingBuffer`, `Relay`, `WsClient`, `Session` and `Terminal` with proofs of all the
safety properties their passing runs check; `Backoff`. Left:

1. `KttySystem`: relay and endpoints together, with the eviction of an agent and the
   silent idle eviction.
2. A second abstract specification, of what app and agent promise together (a terminal whose
   input is a prefix of what was typed and whose output is the log from a known number), and
  `Session` as its
   implementation; `InputOrdered`, `PacketsGenuineAlways` and
   `HolesAreDropsAlways` are its parts.
