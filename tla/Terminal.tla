------------------------------- MODULE Terminal -------------------------------
(***************************************************************************)
(* The app's TerminalService (lib/services/terminal/terminal_service.dart) *)
(* between the terminal widget and the connection: typing with local echo, *)
(* input batches, what the server writes, recovery after a bad frame, and  *)
(* the window size on its way to the PTY (backend/agent/src/session.rs and *)
(* pty.rs).                                                                *)
(*                                                                         *)
(* The connection is a session number, 0 when there is none.  Sessions are *)
(* numbered 1, 2, ...; a number stands for the key and the id made from    *)
(* it, which the two ends agree on (Session!KeysAgree).  What the server   *)
(* writes is arbitrary.  Encryption and decryption end in the order they   *)
(* were begun, but later: anything may happen in between.                  *)
(*                                                                         *)
(* Def_Slip is Def with one plausible coding slip, as in RingBuffer.       *)
(***************************************************************************)
EXTENDS Integers, Sequences, SequencesExt

CONSTANTS
  Char,        \* printable characters
  Cleared,     \* the screen is cleared
  Size,        \* window sizes, as columns and rows
  WidgetSize,  \* the size of the widget before its first layout
  CliSize,     \* the size a new PTY gets (--cols, --rows)
  ChunkMax,    \* bound on the characters of a packet
  MaxSession,  \* bound on the sessions
  MaxAct       \* bound on what users, network and agent do unasked

None == 0      \* no size, no session

ASSUME CharAssumption == Cleared \notin Char
ASSUME SizeAssumption == WidgetSize \in Size /\ CliSize \in Size /\ None \notin Size
ASSUME BoundsAssumption ==
  ChunkMax \in Nat \ {0} /\ MaxSession \in Nat \ {0} /\ MaxAct \in Nat

VARIABLES
  (* typing and screen *)
  attached,   \* the terminal screen is open: onOutput and onResize are set
  inbuf,      \* _inputBuffer
  flush,      \* _inputFlushTimer runs
  pred,       \* _predictedEcho: characters and where the screen has them
  recovering, \* _syncRecoveryInFlight
  written,    \* all that was written to the terminal
  (* the window size *)
  size,       \* of the terminal widget
  first,      \* _firstResize
  frame,      \* the screen's post-frame callback has yet to run
  debounce,   \* the size _resizeDebounce will send, or None
  gesture,    \* two fingers are on the terminal
  pinch,      \* _pinchActive
  pending,    \* _pendingResizeCols and _pendingResizeRows
  (* the connection and the agent *)
  session,    \* of the app, or None
  sessions,   \* how many there were
  jobs,       \* encryptions under way
  decs,       \* decryptions under way
  wire,       \* on the way to the agent
  serving,    \* the session of the agent's bridge, or None
  shellIn,    \* what the shell was given in this session
  ptysize,    \* of the PTY
  (* history *)
  shown,      \* what the server wrote, as far as handled, and where it is
  owed,       \* input since the session began, with what was buffered then
  missed,     \* the newest size was lost and not reported again
  acts

typing == <<attached, inbuf, flush, pred, recovering, written>>
window == <<size, first, frame, debounce, gesture, pinch, pending>>
link   == <<session, sessions, jobs, decs, wire>>
agent  == <<serving, shellIn, ptysize>>
vars   == <<typing, window, link, agent, shown, owed, missed, acts>>

Batch(k, s)   == [kind |-> "pty", key |-> k, data |-> s]
Report(k, z)  == [kind |-> "resize", key |-> k, size |-> z]
Request(k, r) == [kind |-> "sync_req", key |-> k, recovery |-> r]

Chunk == UNION {[1 .. n -> Char] : n \in 1 .. ChunkMax}
Warning == <<Cleared>>   \* what a data loss warning does

(* What nobody waits for happens at most MaxAct times.                     *)
Act == acts < MaxAct /\ acts' = acts + 1

-----------------------------------------------------------------------------
Init ==
  /\ attached = FALSE /\ inbuf = <<>> /\ flush = FALSE /\ pred = <<>>
  /\ recovering = FALSE /\ written = <<>>
  /\ size = WidgetSize /\ first = TRUE /\ frame = FALSE /\ debounce = None
  /\ gesture = FALSE /\ pinch = FALSE /\ pending = None
  /\ session = None /\ sessions = 0 /\ jobs = <<>> /\ decs = <<>> /\ wire = <<>>
  /\ serving = None /\ shellIn = <<>> /\ ptysize = CliSize
  /\ shown = <<>> /\ owed = <<>> /\ missed = FALSE /\ acts = 0

-----------------------------------------------------------------------------
(* Recovery and sending.                                                   *)

(* _scheduleSyncRecovery with its microtask.  Without a session the        *)
(* request fails at once, which clears the flag again.                     *)
Recover ==
  IF recovering THEN UNCHANGED <<pred, recovering, jobs>>
  ELSE /\ pred' = <<>>
       /\ recovering' = (session # None)
       /\ jobs' = IF session = None THEN jobs
                  ELSE Append(jobs, Request(session, TRUE))

(* _sendPty: without a session sendEncrypted throws.                       *)
SendPty(bytes) ==
  IF session = None THEN Recover
  ELSE jobs' = Append(jobs, Batch(session, bytes)) /\ UNCHANGED <<pred, recovering>>

(* sendResize, which nobody awaits: its error is nobody's.                 *)
SendResize(z) ==
  IF session = None THEN missed' = TRUE /\ UNCHANGED jobs
  ELSE missed' = FALSE /\ jobs' = Append(jobs, Report(session, z))

EncryptionDone_NoFinally ==
  /\ jobs # <<>>
  /\ LET j == Head(jobs) IN
       /\ wire' = IF session = None THEN wire
                  ELSE Append(wire, [id |-> session, body |-> j])
       /\ recovering' = (recovering /\ ~(session # None /\ j.kind = "sync_req" /\ j.recovery))
       /\ missed' = (missed \/ (j.kind = "resize" /\ j.key # session))
  /\ jobs' = Tail(jobs)
  /\ UNCHANGED <<attached, inbuf, flush, pred, written, window, session, sessions,
                 decs, agent, shown, owed, acts>>

(* The rest of sendEncrypted, after its await: the envelope gets the id    *)
(* the session has now and goes to the channel there is now.  A recovery   *)
(* is over when its request was sent.                                      *)
EncryptionDone ==
  /\ jobs # <<>>
  /\ LET j == Head(jobs) IN
       /\ wire' = IF session = None THEN wire
                  ELSE Append(wire, [id |-> session, body |-> j])
       /\ recovering' = (recovering /\ ~(j.kind = "sync_req" /\ j.recovery))
       /\ missed' = (missed \/ (j.kind = "resize" /\ j.key # session))
  /\ jobs' = Tail(jobs)
  /\ UNCHANGED <<attached, inbuf, flush, pred, written, window, session, sessions,
                 decs, agent, shown, owed, acts>>

-----------------------------------------------------------------------------
(* Input.                                                                  *)

(* A key: onOutput.  A printable character is echoed at once; an escape    *)
(* sequence or a control key is not, nor is a paste, a word or dictation.  *)
(* The user types when the screen has been drawn.                          *)
Types(c, echoed) ==
  /\ Act /\ attached /\ ~frame
  /\ inbuf' = Append(inbuf, c) /\ flush' = TRUE /\ owed' = Append(owed, c)
  /\ IF echoed THEN /\ written' = Append(written, c)
                    /\ pred' = Append(pred, [ch |-> c, at |-> Len(written) + 1])
               ELSE UNCHANGED <<written, pred>>
  /\ UNCHANGED <<attached, recovering, window, link, agent, shown, missed>>

FlushFires_Aliased ==
  /\ flush
  /\ flush' = FALSE /\ inbuf' = <<>>
  /\ SendPty(<<>>)
  /\ UNCHANGED <<attached, written, window, session, sessions, decs, wire, agent,
                 shown, owed, missed, acts>>

(* _flushInput, 50 ms after the first byte of the batch.                   *)
FlushFires ==
  /\ flush
  /\ flush' = FALSE /\ inbuf' = <<>>
  /\ SendPty(inbuf)
  /\ UNCHANGED <<attached, written, window, session, sessions, decs, wire, agent,
                 shown, owed, missed, acts>>

-----------------------------------------------------------------------------
(* What the server writes.                                                 *)

Agree(chunk) ==
  \A i \in 1 .. Len(chunk) : i <= Len(pred) => chunk[i] = pred[i].ch
Stripped(chunk) == IF Len(chunk) < Len(pred) THEN Len(chunk) ELSE Len(pred)

(* n characters of chunk are on the screen already; the rest is written.   *)
Show(chunk, n) ==
  /\ written' = written \o SubSeq(chunk, n + 1, Len(chunk))
  /\ shown' = shown \o [i \in 1 .. Len(chunk) |->
                          IF i <= n THEN pred[i]
                          ELSE [ch |-> chunk[i], at |-> Len(written) + i - n]]

(* _handleMessage up to its await.                                         *)
PacketArrives(m) ==
  /\ Act /\ attached /\ session # None
  /\ decs' = Append(decs, m)
  /\ UNCHANGED <<typing, window, session, sessions, jobs, wire, agent, shown, owed, missed>>

PacketHandled_KeepsPredictions ==
  /\ decs # <<>> /\ Head(decs) # Warning
  /\ LET chunk == Head(decs) IN
       IF Agree(chunk)
       THEN /\ pred' = SubSeq(pred, Stripped(chunk) + 1, Len(pred))
            /\ Show(chunk, Stripped(chunk))
       ELSE pred' = pred /\ Show(chunk, 0)
  /\ decs' = Tail(decs)
  /\ UNCHANGED <<attached, inbuf, flush, recovering, window, session, sessions,
                 jobs, wire, agent, owed, missed, acts>>

(* _stripPredictedEcho and the write, whatever became of the session since *)
(* the packet arrived.                                                     *)
PacketHandled ==
  /\ decs # <<>> /\ Head(decs) # Warning
  /\ LET chunk == Head(decs) IN
       IF Agree(chunk)
       THEN /\ pred' = SubSeq(pred, Stripped(chunk) + 1, Len(pred))
            /\ Show(chunk, Stripped(chunk))
       ELSE pred' = <<>> /\ Show(chunk, 0)
  /\ decs' = Tail(decs)
  /\ UNCHANGED <<attached, inbuf, flush, recovering, window, session, sessions,
                 jobs, wire, agent, owed, missed, acts>>

(* sync_warn: the screen is cleared, the predictions are not.              *)
WarningHandled ==
  /\ decs # <<>> /\ Head(decs) = Warning
  /\ written' = Append(written, Cleared)
  /\ decs' = Tail(decs)
  /\ UNCHANGED <<attached, inbuf, flush, pred, recovering, window, session, sessions,
                 jobs, wire, agent, shown, owed, missed, acts>>

(* A frame that is no JSON, that is of another session, or that cannot be  *)
(* decrypted.                                                              *)
BadFrame ==
  /\ Act /\ attached
  /\ Recover
  /\ UNCHANGED <<attached, inbuf, flush, written, window, session, sessions, decs,
                 wire, agent, shown, owed, missed>>

-----------------------------------------------------------------------------
(* The window size.                                                        *)

LayoutChanges_NoStash(z) ==
  /\ Act /\ attached /\ z # size
  /\ size' = z
  /\ IF first THEN SendResize(z) /\ UNCHANGED debounce
     ELSE IF pinch THEN missed' = ~gesture /\ UNCHANGED <<debounce, jobs>>
     ELSE debounce' = z /\ missed' = FALSE /\ UNCHANGED jobs
  /\ first' = FALSE
  /\ UNCHANGED <<typing, frame, gesture, pinch, pending, session, sessions, decs, wire,
                 agent, shown, owed>>

(* onResize: the first is sent at once, the others 100 ms after the last   *)
(* one; during a pinch the size is only stashed.                           *)
LayoutChanges(z) ==
  /\ Act /\ attached /\ z # size
  /\ size' = z
  /\ IF first THEN SendResize(z) /\ UNCHANGED <<debounce, pending>>
     ELSE IF pinch THEN /\ pending' = z /\ missed' = ~gesture
                        /\ UNCHANGED <<debounce, jobs>>
     ELSE debounce' = z /\ missed' = FALSE /\ UNCHANGED <<pending, jobs>>
  /\ first' = FALSE
  /\ UNCHANGED <<typing, frame, gesture, pinch, session, sessions, decs, wire, agent,
                 shown, owed>>

DebounceFires ==
  /\ debounce # None
  /\ debounce' = None
  /\ SendResize(debounce)
  /\ UNCHANGED <<typing, size, first, frame, gesture, pinch, pending, session,
                 sessions, decs, wire, agent, shown, owed, acts>>

PinchStarts_KeepsTimer ==
  /\ Act /\ attached /\ ~frame /\ ~gesture
  /\ gesture' = TRUE /\ pinch' = TRUE
  /\ pending' = None
  /\ missed' = (missed \/ pending # None)
  /\ UNCHANGED <<typing, size, first, frame, debounce, link, agent, shown, owed>>

(* notifyPinchStart: cancels the timer and forgets the stash.              *)
PinchStarts ==
  /\ Act /\ attached /\ ~frame /\ ~gesture
  /\ gesture' = TRUE /\ pinch' = TRUE
  /\ debounce' = None /\ pending' = None
  /\ missed' = (missed \/ debounce # None \/ pending # None)
  /\ UNCHANGED <<typing, size, first, frame, link, agent, shown, owed>>

(* notifyPinchEnd: a stashed size is sent after 50 ms.                     *)
PinchEnds ==
  /\ gesture
  /\ gesture' = FALSE /\ pinch' = FALSE /\ pending' = None
  /\ debounce' = IF pending = None THEN debounce ELSE pending
  /\ UNCHANGED <<typing, size, first, frame, link, agent, shown, owed, missed, acts>>

(* The first frame of the terminal screen: its size is sent as it is.      *)
PostFrame ==
  /\ frame
  /\ frame' = FALSE
  /\ SendResize(size)
  /\ UNCHANGED <<typing, size, first, debounce, gesture, pinch, pending, session,
                 sessions, decs, wire, agent, shown, owed, acts>>

-----------------------------------------------------------------------------
(* Sessions.                                                               *)

(* Both ends have a new key; what is buffered will go under it.  attach    *)
(* and reattachAfterReconnect reset the same and ask for what is missing.  *)
SessionBegins ==
  /\ session = None /\ sessions < MaxSession
  /\ session' = sessions + 1 /\ sessions' = sessions + 1 /\ serving' = sessions + 1
  /\ pred' = <<>> /\ recovering' = FALSE
  /\ jobs' = Append(jobs, Request(sessions + 1, FALSE))
  /\ shellIn' = <<>> /\ owed' = inbuf
  /\ UNCHANGED <<inbuf, flush, size, first, debounce, gesture, pinch, pending,
                 decs, wire, ptysize, shown, missed, acts>>

(* The user connects: a clear screen, attach, then the terminal screen.    *)
UserConnects ==
  /\ ~attached /\ SessionBegins
  /\ attached' = TRUE /\ frame' = TRUE /\ written' = Append(written, Cleared)

(* The connection service reconnects: reattachAfterReconnect.              *)
Reconnects == attached /\ SessionBegins /\ UNCHANGED <<attached, frame, written>>

(* The connection is lost, and of what was on its way all after a point.   *)
ConnectionLost ==
  /\ Act /\ session # None
  /\ session' = None
  /\ \E n \in 0 .. Len(wire) :
       /\ wire' = SubSeq(wire, 1, n)
       /\ missed' = (missed \/ \E i \in n + 1 .. Len(wire) : wire[i].body.kind = "resize")
  /\ UNCHANGED <<typing, window, sessions, jobs, decs, agent, shown, owed>>

UserDisconnects_KeepsBuffer ==
  /\ Act /\ attached /\ ~frame
  /\ attached' = FALSE /\ flush' = FALSE /\ debounce' = None
  /\ IF inbuf = <<>> THEN UNCHANGED <<pred, recovering, jobs>> ELSE SendPty(inbuf)
  /\ session' = None /\ gesture' = FALSE
  /\ missed' = (missed \/ debounce # None)
  /\ UNCHANGED <<inbuf, written, size, first, frame, pinch, pending, sessions, decs, wire,
                 agent, shown, owed>>

(* _disconnect: detach sends what is buffered, but disconnect closes the   *)
(* channel before that is encrypted.  A pinch is not heard of again.       *)
UserDisconnects ==
  /\ Act /\ attached /\ ~frame
  /\ attached' = FALSE /\ flush' = FALSE /\ inbuf' = <<>> /\ debounce' = None
  /\ IF inbuf = <<>> THEN UNCHANGED <<pred, recovering, jobs>> ELSE SendPty(inbuf)
  /\ session' = None /\ gesture' = FALSE
  /\ missed' = (missed \/ debounce # None)
  /\ UNCHANGED <<written, size, first, frame, pinch, pending, sessions, decs, wire,
                 agent, shown, owed>>

-----------------------------------------------------------------------------
(* The agent.                                                              *)

(* The bridge takes what has the id and the key of its session.            *)
Served(m) == m.id = serving /\ m.body.key = serving
Reads(m) == wire # <<>> /\ m = Head(wire) /\ wire' = Tail(wire)

(* write_input.                                                            *)
AgentInput ==
  \E m \in ToSet(wire) :
  /\ Reads(m) /\ Served(m) /\ m.body.kind = "pty"
  /\ shellIn' = shellIn \o m.body.data
  /\ UNCHANGED <<typing, window, session, sessions, jobs, decs, serving, ptysize,
                 shown, owed, missed, acts>>

AgentResizes_NoEffect ==
  \E m \in ToSet(wire) :
  /\ Reads(m) /\ Served(m) /\ m.body.kind = "resize"
  /\ UNCHANGED <<typing, window, session, sessions, jobs, decs, agent, shown, owed,
                 missed, acts>>

(* PtyWriteHandle::resize.                                                 *)
AgentResizes ==
  \E m \in ToSet(wire) :
  /\ Reads(m) /\ Served(m) /\ m.body.kind = "resize"
  /\ ptysize' = m.body.size
  /\ UNCHANGED <<typing, window, session, sessions, jobs, decs, serving, shellIn,
                 shown, owed, missed, acts>>

(* A sync request, or nothing of this session.                             *)
AgentIgnores ==
  \E m \in ToSet(wire) :
  /\ Reads(m) /\ (Served(m) => m.body.kind = "sync_req")
  /\ missed' = (missed \/ m.body.kind = "resize")
  /\ UNCHANGED <<typing, window, session, sessions, jobs, decs, agent, shown, owed, acts>>

(* A goodbye, a notice, the loss of its own link: the bridge ends.         *)
BridgeEnds ==
  /\ Act /\ serving # None
  /\ serving' = None
  /\ UNCHANGED <<typing, window, link, shellIn, ptysize, shown, owed, missed>>

(* The shell has exited, was killed or got lost: main spawns another one.  *)
ShellReplaced ==
  /\ Act
  /\ serving' = None /\ ptysize' = CliSize /\ missed' = TRUE
  /\ UNCHANGED <<typing, window, link, shellIn, shown, owed>>

-----------------------------------------------------------------------------
Input  == (\E c \in Char, e \in BOOLEAN : Types(c, e)) \/ FlushFires
Output == (\E m \in Chunk \cup {Warning} : PacketArrives(m)) \/ PacketHandled \/ WarningHandled \/ BadFrame
Window == (\E z \in Size : LayoutChanges(z)) \/ DebounceFires \/ PinchStarts \/ PinchEnds \/ PostFrame
Connection == UserConnects \/ Reconnects \/ ConnectionLost \/ UserDisconnects \/ EncryptionDone
AgentReads == AgentInput \/ AgentResizes \/ AgentIgnores
Agent  == AgentReads \/ BridgeEnds \/ ShellReplaced

Next == Input \/ Output \/ Window \/ Connection \/ Agent

Spec == Init /\ [][Next]_vars

(* Timers fire, encryptions end, what was sent is delivered, the user      *)
(* lifts the fingers.                                                      *)
Fairness ==
  WF_vars(DebounceFires) /\ WF_vars(PinchEnds) /\ WF_vars(EncryptionDone) /\ WF_vars(AgentReads)
FairSpec == Spec /\ Fairness
-----------------------------------------------------------------------------
Serial == 0 .. MaxSession

(* The type invariant.  A pinch has no resize timer beside it, and a size  *)
(* is stashed only in a pinch (_pinchActive, _resizeDebounce,              *)
(* _pendingResizeCols).                                                    *)
TypeOK ==
  /\ attached \in BOOLEAN /\ flush \in BOOLEAN /\ recovering \in BOOLEAN
  /\ inbuf \in Seq(Char) /\ written \in Seq(Char \cup {Cleared})
  /\ pred \in Seq([ch : Char, at : Nat])
  /\ size \in Size /\ debounce \in Size \cup {None} /\ pending \in Size \cup {None}
  /\ first \in BOOLEAN /\ frame \in BOOLEAN /\ gesture \in BOOLEAN /\ pinch \in BOOLEAN
  /\ session \in Serial /\ sessions \in Serial /\ serving \in Serial
  /\ ptysize \in Size /\ shellIn \in Seq(Char) /\ owed \in Seq(Char)
  /\ decs \in Seq(Chunk \cup {Warning})
  /\ session \in {None, sessions} /\ (frame => attached)
  /\ (gesture => pinch) /\ (pending # None => pinch) /\ (pinch => debounce = None)

(* Local echo eats no output: each character the server wrote is on the    *)
(* terminal, in the server's order, either because it was written or       *)
(* because the echo written for it earlier stands for it; and echoes still *)
(* unanswered come after all of these (_stripPredictedEcho).               *)
EchoNeverEats ==
  LET all == shown \o pred IN
  \A i \in DOMAIN all :
    /\ all[i].at \in DOMAIN written /\ written[all[i].at] = all[i].ch
    /\ i > 1 => all[i - 1].at < all[i].at

(* Input never stays in the buffer without a timer that will flush it, and *)
(* the timer never runs for nothing: neither detach nor a flush that fails *)
(* leaves one without the other (_inputFlushTimer ??= Timer).              *)
BufferedInputFlushed == flush <=> inbuf # <<>>

Bytes(msgs) ==
  FlattenSeq([i \in DOMAIN msgs |->
    IF msgs[i].kind = "pty" /\ msgs[i].key = session THEN msgs[i].data ELSE <<>>])
OnWire == [i \in DOMAIN wire |->
             IF wire[i].id = session THEN wire[i].body ELSE Request(None, FALSE)]

(* While the agent serves the app's session, all that was typed since it   *)
(* began, or was in the buffer then, is in the shell, on the wire, being   *)
(* encrypted or in the buffer: nothing is lost, doubled or out of order    *)
(* (onOutput, _flushInput, sendEncrypted, write_input).                    *)
InputConserved ==
  session # None /\ serving = session => shellIn \o Bytes(OnWire \o jobs) \o inbuf = owed

(* Sync recovery never locks itself out: while the flag that keeps others  *)
(* from starting is set, the request that will clear it is under way       *)
(* (_scheduleSyncRecovery, the finally of its microtask).                  *)
RecoveryEnds ==
  recovering => \E i \in DOMAIN jobs : jobs[i].kind = "sync_req" /\ jobs[i].recovery

Reports == [i \in DOMAIN wire |-> wire[i].body] \o jobs
Newest ==
  LET I == {i \in DOMAIN Reports : Reports[i].kind = "resize"} IN
  IF pending # None THEN pending ELSE IF debounce # None THEN debounce
  ELSE IF I = {} THEN ptysize ELSE Reports[CHOOSE i \in I : \A k \in I : k <= i].size

(* The last size wins: what is stashed, waits for the timer, is on its way *)
(* or, if nothing is, has reached the PTY, is the size of the terminal;    *)
(* except after the losses that `missed' records: no session to send it    *)
(* in, another session by the time it is encrypted, a bridge that ended, a *)
(* new shell, a pinch that begins while the timer runs (onResize,          *)
(* notifyPinchStart, notifyPinchEnd, sendResize).                          *)
SizeOnItsWay == attached /\ ~frame /\ ~missed => Newest = size

(* And it arrives: when the layout rests, the PTY gets the terminal's      *)
(* size, unless it is lost in one of these ways or the user leaves.        *)
SizeArrives == [](attached /\ ~frame => <>(ptysize = size \/ missed \/ ~attached))

(* No pinch loses a size: what notifyPinchStart's comment says, "we hold   *)
(* back PTY resize messages".                                              *)
PinchHoldsBack == [][PinchStarts => (missed' => missed)]_vars

(* An echo that the server has yet to confirm is still on the screen (the  *)
(* screen is cleared with a data loss warning, _predictedEcho is not).     *)
EchoOnScreen ==
  \A i \in DOMAIN pred, k \in DOMAIN written : written[k] = Cleared => k < pred[i].at

(* A shell spawned while the app was away gets the terminal's size when    *)
(* the app is back (reattachAfterReconnect sends no resize).               *)
ServedInItsSize ==
  attached /\ ~frame /\ session # None /\ serving = session => Newest = size
=============================================================================
