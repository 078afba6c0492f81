---------------------------- MODULE TerminalProofs ----------------------------
(***************************************************************************)
(* Properties of Terminal for any characters, sizes, number of sessions    *)
(* and length of packets.                                                  *)
(***************************************************************************)
EXTENDS Terminal, SequenceTheorems, TLAPS

LEMMA Bounds == ChunkMax \in Nat /\ MaxSession \in Nat /\ MaxAct \in Nat
  BY BoundsAssumption

(* What sequences over a set are made into.                                *)
LEMMA SeqOps ==
  ASSUME NEW S, NEW s \in Seq(S)
  PROVE  /\ Len(s) \in Nat /\ DOMAIN s = 1 .. Len(s)
         /\ s # <<>> => Len(s) > 0 /\ Head(s) \in S /\ Head(s) = s[1] /\ Tail(s) \in Seq(S)
         /\ \A e \in S : Append(s, e) \in Seq(S) /\ Append(s, e) # <<>>
         /\ \A t \in Seq(S) : s \o t \in Seq(S)
         /\ \A i \in DOMAIN s : s[i] \in S
         /\ \A e \in ToSet(s) : e \in S
  BY DEF ToSet

LEMMA SubSeqType ==
  ASSUME NEW S, NEW s \in Seq(S), NEW m \in Nat \ {0}, NEW n \in 0 .. Len(s)
  PROVE  SubSeq(s, m, n) \in Seq(S)
<1>1. \A i \in m .. n : s[i] \in S
  OBVIOUS
<1> QED BY <1>1, SubSeqProperties

-----------------------------------------------------------------------------
(* The Boolean-valued variables.                                           *)
Flags ==
  /\ attached \in BOOLEAN /\ flush \in BOOLEAN /\ recovering \in BOOLEAN
  /\ first \in BOOLEAN /\ frame \in BOOLEAN /\ gesture \in BOOLEAN /\ pinch \in BOOLEAN
  /\ missed \in BOOLEAN
  /\ frame => attached
  /\ gesture => pinch

LEMMA FlagsInit == Init => Flags
  BY DEF Init, Flags

LEMMA RecoverFlag ==
  ASSUME recovering \in BOOLEAN, NEW bytes, Recover \/ SendPty(bytes)
  PROVE  recovering' \in BOOLEAN
  BY DEF Recover, SendPty

LEMMA ResizeFlag ==
  ASSUME NEW z, SendResize(z)
  PROVE  missed' \in BOOLEAN
  BY DEF SendResize

LEMMA FlagsStep ==
  ASSUME Flags, [Next]_vars
  PROVE  Flags'
<1> USE DEF Flags, typing, window, link, agent
<1>0. CASE UNCHANGED vars
  BY <1>0 DEF vars
<1>1. ASSUME NEW c \in Char, NEW e \in BOOLEAN, Types(c, e) PROVE Flags'
  BY <1>1 DEF Types
<1>2. CASE FlushFires
  BY <1>2, RecoverFlag DEF FlushFires
<1>3. ASSUME NEW m, PacketArrives(m) PROVE Flags'
  BY <1>3 DEF PacketArrives
<1>4. CASE PacketHandled
  BY <1>4 DEF PacketHandled
<1>5. CASE WarningHandled
  BY <1>5 DEF WarningHandled
<1>6. CASE BadFrame
  BY <1>6, RecoverFlag DEF BadFrame
<1>7. ASSUME NEW z \in Size, LayoutChanges(z) PROVE Flags'
  BY <1>7, ResizeFlag DEF LayoutChanges
<1>8. CASE DebounceFires
  BY <1>8, ResizeFlag DEF DebounceFires
<1>9. CASE PostFrame
  BY <1>9, ResizeFlag DEF PostFrame
<1>10. CASE PinchStarts
  BY <1>10 DEF PinchStarts
<1>11. CASE PinchEnds
  BY <1>11 DEF PinchEnds
<1>12. CASE UserConnects
  BY <1>12 DEF UserConnects, SessionBegins
<1>13. CASE Reconnects
  BY <1>13 DEF Reconnects, SessionBegins
<1>14. CASE ConnectionLost
  BY <1>14 DEF ConnectionLost
<1>15. CASE UserDisconnects
  BY <1>15, RecoverFlag DEF UserDisconnects
<1>16. CASE EncryptionDone
  BY <1>16 DEF EncryptionDone
<1>17. CASE AgentInput
  BY <1>17 DEF AgentInput
<1>18. CASE AgentResizes
  BY <1>18 DEF AgentResizes
<1>19. CASE AgentIgnores
  BY <1>19 DEF AgentIgnores
<1>20. CASE BridgeEnds
  BY <1>20 DEF BridgeEnds
<1>21. CASE ShellReplaced
  BY <1>21 DEF ShellReplaced
<1> QED
  BY <1>0, <1>1, <1>2, <1>3, <1>4, <1>5, <1>6, <1>7, <1>8, <1>9, <1>10, <1>11, <1>12, <1>13,
     <1>14, <1>15, <1>16, <1>17, <1>18, <1>19, <1>20, <1>21
  DEF Next, Input, Output, Window, Connection, AgentReads, Agent

-----------------------------------------------------------------------------
(* What is typed, and what came of it.                                     *)
InputType == inbuf \in Seq(Char) /\ shellIn \in Seq(Char) /\ owed \in Seq(Char)

(* Messages are of a session.                                              *)
Live == 1 .. MaxSession
Job ==
  {Batch(k, s) : k \in Live, s \in Seq(Char)} \cup {Report(k, z) : k \in Live, z \in Size}
    \cup {Request(k, r) : k \in Live, r \in BOOLEAN}
Envelope == [id : Live, body : Job]
NetType == jobs \in Seq(Job) /\ wire \in Seq(Envelope)

LEMMA Jobs ==
  \A k \in Live :
    /\ \A s \in Seq(Char) : Batch(k, s) \in Job
    /\ \A z \in Size : Report(k, z) \in Job
    /\ \A r \in BOOLEAN : Request(k, r) \in Job
<1>1. ASSUME NEW k \in Live, NEW s \in Seq(Char) PROVE Batch(k, s) \in Job
  BY DEF Job
<1>2. ASSUME NEW k \in Live, NEW z \in Size PROVE Report(k, z) \in Job
  BY DEF Job
<1>3. ASSUME NEW k \in Live, NEW r \in BOOLEAN PROVE Request(k, r) \in Job
  BY DEF Job
<1> QED BY <1>1, <1>2, <1>3

LEMMA JobShape ==
  ASSUME NEW j \in Job
  PROVE  /\ j.kind \in {"pty", "resize", "sync_req"}
         /\ j.kind = "pty" => j.data \in Seq(Char)
         /\ j.kind = "resize" => j.size \in Size
  BY DEF Job, Batch, Report, Request

(* The sessions: those that were are numbered through.                     *)
SessionType ==
  /\ session \in Serial /\ sessions \in Serial /\ serving \in Serial
  /\ session \in {None, sessions}

LEMMA Begins ==
  /\ UserConnects => SessionBegins
  /\ Reconnects => SessionBegins
  BY DEF UserConnects, Reconnects

LEMMA SessionTypeStep ==
  ASSUME SessionType, [Next]_vars
  PROVE  SessionType'
<1> USE Bounds DEF SessionType, Serial, None
<1>1. CASE UNCHANGED <<session, sessions, serving>>
  BY <1>1
<1> USE DEF link, agent
<1>2. CASE UNCHANGED vars
  BY <1>1, <1>2 DEF vars
<1>3. CASE Input \/ Output
  BY <1>1, <1>3
  DEF Input, Types, FlushFires, Output, PacketArrives, PacketHandled, WarningHandled, BadFrame
<1>4. CASE Window
  BY <1>1, <1>4 DEF Window, LayoutChanges, DebounceFires, PinchStarts, PinchEnds, PostFrame
<1>5. CASE UserConnects \/ Reconnects
  <2>1. SessionBegins
    BY <1>5, Begins
  <2>2. sessions < MaxSession /\ session' = sessions + 1 /\ sessions' = sessions + 1
          /\ serving' = sessions + 1
    BY <2>1 DEF SessionBegins
  <2> QED BY <2>2
<1>6. CASE ConnectionLost \/ UserDisconnects
  BY <1>6 DEF ConnectionLost, UserDisconnects
<1>7. CASE EncryptionDone \/ AgentReads
  BY <1>1, <1>7 DEF EncryptionDone, AgentReads, AgentInput, AgentResizes, AgentIgnores
<1>8. CASE BridgeEnds \/ ShellReplaced
  BY <1>8 DEF BridgeEnds, ShellReplaced
<1> QED
  BY <1>2, <1>3, <1>4, <1>5, <1>6, <1>7, <1>8 DEF Next, Connection, Agent

LEMMA LiveSession ==
  ASSUME SessionType
  PROVE  session # None => session \in Live
  BY Bounds DEF SessionType, Serial, Live, None

-----------------------------------------------------------------------------
(* The window size.                                                        *)
WindowType ==
  /\ size \in Size /\ debounce \in Size \cup {None} /\ pending \in Size \cup {None}
  /\ ptysize \in Size

LEMMA WindowTypeStep ==
  ASSUME WindowType, NetType, [Next]_vars
  PROVE  WindowType'
<1> USE SizeAssumption DEF WindowType
<1>1. CASE UNCHANGED <<size, debounce, pending, ptysize>>
  BY <1>1
<1> USE DEF window, agent
<1>2. CASE UNCHANGED vars
  BY <1>1, <1>2 DEF vars
<1>3. CASE Input \/ Output
  BY <1>1, <1>3
  DEF Input, Types, FlushFires, Output, PacketArrives, PacketHandled, WarningHandled, BadFrame
<1>4. ASSUME NEW z \in Size, LayoutChanges(z) PROVE WindowType'
  BY <1>4 DEF LayoutChanges
<1>5. CASE DebounceFires \/ PinchStarts \/ PinchEnds \/ PostFrame
  BY <1>5 DEF DebounceFires, PinchStarts, PinchEnds, PostFrame
<1>6. CASE UserConnects \/ Reconnects \/ ConnectionLost \/ UserDisconnects
  BY <1>6 DEF UserConnects, Reconnects, SessionBegins, ConnectionLost, UserDisconnects
<1>7. CASE EncryptionDone \/ AgentInput \/ AgentIgnores
  BY <1>1, <1>7 DEF EncryptionDone, AgentInput, AgentIgnores
<1>8. CASE AgentResizes
  <2>1. PICK m \in ToSet(wire) : m.body.kind = "resize" /\ ptysize' = m.body.size
    BY <1>8 DEF AgentResizes
  <2>2. m \in Envelope
    BY SeqOps DEF NetType
  <2>3. ptysize' \in Size
    BY <2>1, <2>2, JobShape DEF Envelope
  <2> QED BY <1>8, <2>3 DEF AgentResizes
<1>9. CASE BridgeEnds \/ ShellReplaced
  BY <1>9 DEF BridgeEnds, ShellReplaced
<1> QED
  BY <1>2, <1>3, <1>4, <1>5, <1>6, <1>7, <1>8, <1>9 DEF Next, Window, Connection, AgentReads, Agent

LEMMA InputTypeStep ==
  ASSUME InputType, NetType, [Next]_vars
  PROVE  InputType'
<1> USE DEF InputType
<1>1. CASE UNCHANGED <<inbuf, shellIn, owed>>
  BY <1>1
<1> USE DEF typing, agent
<1>2. CASE UNCHANGED vars
  BY <1>1, <1>2 DEF vars
<1>3. ASSUME NEW c \in Char, NEW e \in BOOLEAN, Types(c, e) PROVE InputType'
  BY <1>3 DEF Types
<1>4. CASE FlushFires
  BY <1>4 DEF FlushFires
<1>5. CASE Output
  BY <1>1, <1>5 DEF Output, PacketArrives, PacketHandled, WarningHandled, BadFrame
<1>6. CASE Window
  BY <1>1, <1>6 DEF Window, LayoutChanges, DebounceFires, PinchStarts, PinchEnds, PostFrame
<1>7. CASE UserConnects \/ Reconnects
  <2>1. inbuf' = inbuf /\ shellIn' = <<>> /\ owed' = inbuf
    BY <1>7, Begins DEF SessionBegins
  <2> QED BY <2>1
<1>8. CASE ConnectionLost \/ UserDisconnects
  <2>1. (inbuf' = inbuf \/ inbuf' = <<>>) /\ UNCHANGED <<shellIn, owed>>
    BY <1>8 DEF ConnectionLost, UserDisconnects
  <2>2. <<>> \in Seq(Char)
    OBVIOUS
  <2> QED BY <2>1, <2>2
<1>9. CASE EncryptionDone \/ AgentResizes \/ AgentIgnores \/ BridgeEnds \/ ShellReplaced
  BY <1>1, <1>9 DEF EncryptionDone, AgentResizes, AgentIgnores, BridgeEnds, ShellReplaced
<1>10. CASE AgentInput
  <2>1. PICK m \in ToSet(wire) : m.body.kind = "pty" /\ shellIn' = shellIn \o m.body.data
    BY <1>10 DEF AgentInput
  <2>2. m \in Envelope
    BY SeqOps DEF NetType
  <2>3. m.body.data \in Seq(Char)
    BY <2>1, <2>2, JobShape DEF Envelope
  <2> QED BY <1>10, <2>1, <2>3 DEF AgentInput
<1> QED
  BY <1>2, <1>3, <1>4, <1>5, <1>6, <1>7, <1>8, <1>9, <1>10
  DEF Next, Input, Connection, AgentReads, Agent

-----------------------------------------------------------------------------
(* What a step does to the messages: nothing, a new one of the session     *)
(* there is now or begins, one encrypted, one read, or the end lost.       *)
JobsStep ==
  \/ jobs' = jobs
  \/ \E j \in Job : jobs' = Append(jobs, j)
  \/ jobs # <<>> /\ jobs' = Tail(jobs)

LEMMA RecoverJobs ==
  ASSUME SessionType, NEW s \in Seq(Char), Recover \/ SendPty(s)
  PROVE  jobs' = jobs \/ \E j \in Job : jobs' = Append(jobs, j)
  BY LiveSession, Jobs DEF Recover, SendPty

LEMMA ResizeJobs ==
  ASSUME SessionType, NEW z \in Size, SendResize(z)
  PROVE  jobs' = jobs \/ \E j \in Job : jobs' = Append(jobs, j)
  BY LiveSession, Jobs DEF SendResize

LEMMA JobsStepType ==
  ASSUME SessionType, WindowType, InputType, [Next]_vars
  PROVE  JobsStep
<1> USE DEF JobsStep, link, None
<1>1. CASE UNCHANGED vars
  BY <1>1 DEF vars
<1>2. ASSUME NEW c \in Char, NEW e \in BOOLEAN, Types(c, e) PROVE JobsStep
  BY <1>2 DEF Types
<1>3. CASE FlushFires
  BY <1>3, RecoverJobs DEF FlushFires, InputType
<1>4. CASE BadFrame
  BY <1>4, RecoverJobs DEF BadFrame, InputType
<1>5. CASE Output /\ ~BadFrame
  BY <1>5 DEF Output, PacketArrives, PacketHandled, WarningHandled
<1>6. ASSUME NEW z \in Size, LayoutChanges(z) PROVE JobsStep
  BY <1>6, ResizeJobs DEF LayoutChanges
<1>7. CASE DebounceFires \/ PostFrame
  BY <1>7, ResizeJobs DEF DebounceFires, PostFrame, WindowType
<1>8. CASE PinchStarts \/ PinchEnds
  BY <1>8 DEF PinchStarts, PinchEnds
<1>9. CASE UserConnects \/ Reconnects
  <2>1. SessionBegins
    BY <1>9 DEF UserConnects, Reconnects
  <2>2. sessions + 1 \in Live
    BY <2>1, Bounds DEF SessionBegins, SessionType, Serial, Live
  <2> QED BY <2>1, <2>2, Jobs DEF SessionBegins
<1>10. CASE ConnectionLost \/ EncryptionDone
  BY <1>10 DEF ConnectionLost, EncryptionDone
<1>11. CASE UserDisconnects
  BY <1>11, RecoverJobs DEF UserDisconnects, InputType
<1>12. CASE Agent
  BY <1>12 DEF Agent, AgentReads, AgentInput, AgentResizes, AgentIgnores, BridgeEnds, ShellReplaced
<1> QED
  BY <1>1, <1>2, <1>3, <1>4, <1>5, <1>6, <1>7, <1>8, <1>9, <1>10, <1>11, <1>12
  DEF Next, Input, Output, Window, Connection

LEMMA NetTypeStep ==
  ASSUME NetType, SessionType, WindowType, InputType, [Next]_vars
  PROVE  NetType'
<1>1. jobs' \in Seq(Job)
  BY JobsStepType DEF JobsStep, NetType
<1> USE DEF NetType
<1>2. CASE wire' = wire \/ (wire # <<>> /\ wire' = Tail(wire))
  <2>1. wire # <<>> => Tail(wire) \in Seq(Envelope)
    BY SeqOps
  <2> QED BY <1>1, <1>2, <2>1
<1>3. CASE UNCHANGED vars \/ Input \/ Output
  <2>1. wire' = wire
    BY <1>3
    DEF vars, link, Input, Types, FlushFires, Output, PacketArrives, PacketHandled,
        WarningHandled, BadFrame
  <2> QED BY <1>2, <2>1
<1>4. CASE Window
  <2>1. wire' = wire
    BY <1>4 DEF link, Window, LayoutChanges, DebounceFires, PinchStarts, PinchEnds, PostFrame
  <2> QED BY <1>2, <2>1
<1>5. CASE UserConnects \/ Reconnects \/ UserDisconnects
  <2>1. wire' = wire
    BY <1>5, Begins DEF SessionBegins, UserDisconnects
  <2> QED BY <1>2, <2>1
<1>6. CASE ConnectionLost
  <2>1. PICK n \in 0 .. Len(wire) : wire' = SubSeq(wire, 1, n)
    BY <1>6 DEF ConnectionLost
  <2> QED BY <1>1, <2>1, SubSeqType
<1>7. CASE EncryptionDone
  <2>1. Head(jobs) \in Job
    BY <1>7 DEF EncryptionDone
  <2>2. session # None => [id |-> session, body |-> Head(jobs)] \in Envelope
    BY <2>1, LiveSession DEF Envelope
  <2>3. wire' = IF session = None THEN wire
                ELSE Append(wire, [id |-> session, body |-> Head(jobs)])
    BY <1>7 DEF EncryptionDone
  <2> QED BY <1>1, <2>2, <2>3, SeqOps
<1>8. CASE Agent
  BY <1>2, <1>8
  DEF link, Agent, AgentReads, AgentInput, AgentResizes, AgentIgnores, Reads, BridgeEnds,
      ShellReplaced
<1> QED
  BY <1>3, <1>4, <1>5, <1>6, <1>7, <1>8 DEF Next, Connection

-----------------------------------------------------------------------------
(* The screen.                                                             *)
Echo == [ch : Char, at : Nat]
ScreenType ==
  /\ written \in Seq(Char \cup {Cleared}) /\ pred \in Seq(Echo)
  /\ shown \in Seq(Echo) /\ decs \in Seq(Chunk \cup {Warning})

LEMMA Chunks ==
  ASSUME NEW c \in Chunk \cup {Warning}, c # Warning
  PROVE  c \in Seq(Char) /\ c \in Seq(Char \cup {Cleared}) /\ Len(c) \in Nat
<1>1. PICK n \in 1 .. ChunkMax : c \in [1 .. n -> Char]
  BY DEF Chunk
<1>2. c \in Seq(Char)
  BY <1>1, Bounds
<1> QED BY <1>2, SeqMonotonic

LEMMA ConcatParts ==
  ASSUME NEW S, NEW s \in Seq(S), NEW t \in Seq(S)
  PROVE  /\ s \o t \in Seq(S) /\ Len(s \o t) = Len(s) + Len(t)
         /\ DOMAIN (s \o t) = 1 .. Len(s) + Len(t)
         /\ \A k \in 1 .. Len(s) : (s \o t)[k] = s[k]
         /\ \A k \in 1 .. Len(t) : (s \o t)[Len(s) + k] = t[k]
<1>1. ASSUME NEW k \in 1 .. Len(t)
      PROVE  Len(s) + k \in 1 .. Len(s) + Len(t) /\ ~(Len(s) + k <= Len(s))
               /\ Len(s) + k - Len(s) = k
  OBVIOUS
<1>2. ASSUME NEW k \in 1 .. Len(t) PROVE (s \o t)[Len(s) + k] = t[k]
  BY <1>1, ConcatProperties
<1>3. \A k \in 1 .. Len(s) : k \in 1 .. Len(s) + Len(t)
  OBVIOUS
<1> QED BY <1>2, <1>3, ConcatProperties, LenProperties

(* A list of characters that are on the screen w, in this order.           *)
OnScreen(all, w) ==
  \A i \in DOMAIN all :
    /\ all[i].at \in DOMAIN w /\ w[all[i].at] = all[i].ch
    /\ i > 1 => all[i - 1].at < all[i].at

LEMMA OnLonger ==
  ASSUME NEW S, NEW w \in Seq(S), NEW t \in Seq(S), NEW all, OnScreen(all, w)
  PROVE  OnScreen(all, w \o t)
<1>1. \A k \in DOMAIN w : k \in DOMAIN (w \o t) /\ (w \o t)[k] = w[k]
  OBVIOUS
<1> QED BY <1>1 DEF OnScreen

LEMMA OnPrefix ==
  ASSUME NEW w, NEW s \in Seq(Echo), NEW t \in Seq(Echo), OnScreen(s \o t, w)
  PROVE  OnScreen(s, w)
<1>1. \A i \in DOMAIN s : i \in DOMAIN (s \o t) /\ (s \o t)[i] = s[i]
  OBVIOUS
<1>2. \A i \in DOMAIN s : i > 1 => i - 1 \in DOMAIN s
  OBVIOUS
<1> QED BY <1>1, <1>2 DEF OnScreen

(* The step of Show: the list p is on the screen already, what follows it  *)
(* of the chunk c is written.                                              *)
LEMMA OnShown ==
  ASSUME NEW S, NEW w \in Seq(S), NEW s \in Seq(Echo), NEW p \in Seq(Echo),
         NEW c \in Seq(S), OnScreen(s \o p, w), Len(p) <= Len(c),
         NEW e, e = [i \in 1 .. Len(c) |->
                       IF i <= Len(p) THEN p[i]
                       ELSE [ch |-> c[i], at |-> Len(w) + i - Len(p)]],
         e \in Seq(Echo)
  PROVE  OnScreen(s \o e, w \o SubSeq(c, Len(p) + 1, Len(c)))
<1> DEFINE n == Len(p)
           t == SubSeq(c, n + 1, Len(c))
           new == w \o t
           all == s \o e
<1>0. Len(s) \in Nat /\ n \in Nat /\ Len(c) \in Nat /\ Len(w) \in Nat /\ n <= Len(c)
  OBVIOUS
<1>1. t \in Seq(S) /\ Len(t) = Len(c) - n /\ \A k \in 1 .. Len(c) - n : t[k] = c[n + k]
  <2>1. \A i \in n + 1 .. Len(c) : c[i] \in S
    BY <1>0
  <2>2. /\ t \in Seq(S)
        /\ Len(t) = IF n + 1 <= Len(c) THEN Len(c) - (n + 1) + 1 ELSE 0
        /\ \A k \in 1 .. Len(c) - (n + 1) + 1 : t[k] = c[n + 1 + k - 1]
    BY <1>0, <2>1, SubSeqProperties
  <2> HIDE DEF t
  <2> QED BY <1>0, <2>2
<1> HIDE DEF t
<1>2. /\ Len(new) = Len(w) + Len(c) - n /\ DOMAIN new = 1 .. Len(new)
      /\ \A k \in 1 .. Len(w) : new[k] = w[k]
      /\ \A k \in 1 .. Len(c) - n : new[Len(w) + k] = c[n + k]
  <2>1. /\ Len(new) = Len(w) + Len(t) /\ DOMAIN new = 1 .. Len(w) + Len(t)
        /\ \A k \in 1 .. Len(w) : new[k] = w[k]
        /\ \A k \in 1 .. Len(t) : new[Len(w) + k] = t[k]
    BY <1>1, ConcatParts
  <2> HIDE DEF new
  <2> QED BY <1>0, <1>1, <2>1
<1> HIDE DEF new
<1>3. Len(e) = Len(c)
  BY <1>0
<1>4. /\ DOMAIN all = 1 .. Len(s) + Len(c)
      /\ \A i \in 1 .. Len(s) + n : all[i] = (s \o p)[i]
      /\ \A i \in 1 .. Len(c) - n :
           all[Len(s) + n + i] = [ch |-> c[n + i], at |-> Len(w) + i]
  <2>1. /\ \A i \in 1 .. Len(s) : all[i] = s[i]
        /\ \A i \in 1 .. Len(c) : all[Len(s) + i] = e[i]
    BY <1>3, ConcatParts
  <2>2. /\ \A i \in 1 .. Len(s) : (s \o p)[i] = s[i]
        /\ \A i \in 1 .. n : (s \o p)[Len(s) + i] = p[i]
    BY ConcatParts
  <2>3. \A i \in 1 .. n : e[i] = p[i]
    BY <1>0
  <2>4. \A i \in 1 .. Len(c) - n : e[n + i] = [ch |-> c[n + i], at |-> Len(w) + i]
    <3> SUFFICES ASSUME NEW i \in 1 .. Len(c) - n
                 PROVE  e[n + i] = [ch |-> c[n + i], at |-> Len(w) + i]
      OBVIOUS
    <3>1. n + i \in 1 .. Len(c) /\ ~(n + i <= n) /\ Len(w) + (n + i) - n = Len(w) + i
      BY <1>0
    <3> QED BY <3>1
  <2>5. DOMAIN all = 1 .. Len(s) + Len(c)
    BY <1>3
  <2> HIDE DEF all
  <2>6. ASSUME NEW i \in 1 .. Len(s) + n PROVE all[i] = (s \o p)[i]
    <3>1. CASE i <= Len(s)
      <4>1. i \in 1 .. Len(s)
        BY <1>0, <3>1
      <4> QED BY <2>1, <2>2, <4>1
    <3>2. CASE i > Len(s)
      <4>1. PICK k \in 1 .. n : i = Len(s) + k
        <5>1. i - Len(s) \in 1 .. n /\ i = Len(s) + (i - Len(s))
          BY <1>0, <3>2
        <5> QED BY <5>1
      <4>2. k \in 1 .. Len(c)
        BY <1>0
      <4>3. all[i] = e[k] /\ (s \o p)[i] = p[k]
        BY <2>1, <2>2, <4>1, <4>2
      <4> QED BY <2>3, <4>3
    <3> QED BY <1>0, <3>1, <3>2
  <2>7. ASSUME NEW i \in 1 .. Len(c) - n
        PROVE  all[Len(s) + n + i] = [ch |-> c[n + i], at |-> Len(w) + i]
    <3>1. n + i \in 1 .. Len(c) /\ Len(s) + n + i = Len(s) + (n + i)
      BY <1>0
    <3>2. all[Len(s) + n + i] = e[n + i]
      BY <2>1, <3>1
    <3> QED BY <2>4, <3>2
  <2> QED BY <2>5, <2>6, <2>7
<1>5. DOMAIN (s \o p) = 1 .. Len(s) + n /\ DOMAIN w = 1 .. Len(w)
  BY <1>0
<1> HIDE DEF all
<1>6. ASSUME NEW i \in 1 .. Len(s) + n
      PROVE  /\ all[i].at \in 1 .. Len(w) /\ new[all[i].at] = all[i].ch
             /\ i > 1 => all[i - 1].at < all[i].at
  <2>1. /\ (s \o p)[i].at \in DOMAIN w /\ w[(s \o p)[i].at] = (s \o p)[i].ch
        /\ i > 1 => (s \o p)[i - 1].at < (s \o p)[i].at
    BY <1>5 DEF OnScreen
  <2>2. i > 1 => i - 1 \in 1 .. Len(s) + n
    BY <1>0
  <2> QED BY <1>2, <1>4, <1>5, <2>1, <2>2
<1>7. ASSUME NEW i \in 1 .. Len(c) - n
      PROVE  LET k == Len(s) + n + i IN
             /\ all[k].at \in DOMAIN new /\ new[all[k].at] = all[k].ch
             /\ k > 1 => all[k - 1].at < all[k].at
  <2> DEFINE k == Len(s) + n + i
  <2>1. all[k].at = Len(w) + i /\ all[k].ch = c[n + i]
    <3>1. all[k] = [ch |-> c[n + i], at |-> Len(w) + i]
      BY <1>4
    <3> HIDE DEF k
    <3> QED BY <3>1
  <2>2. Len(w) + i \in DOMAIN new /\ new[Len(w) + i] = c[n + i]
    <3>1. Len(w) + i \in 1 .. Len(w) + Len(c) - n
      BY <1>0
    <3> QED BY <1>2, <3>1
  <2>3. ASSUME k > 1 PROVE all[k - 1].at < Len(w) + i
    <3>1. CASE i = 1
      <4>1. k - 1 \in 1 .. Len(s) + n
        BY <1>0, <2>3, <3>1
      <4>2. all[k - 1].at \in 1 .. Len(w)
        BY <1>6, <4>1
      <4> QED BY <1>0, <3>1, <4>2
    <3>2. CASE i > 1
      <4>1. i - 1 \in 1 .. Len(c) - n /\ k - 1 = Len(s) + n + (i - 1)
        BY <1>0, <3>2
      <4>2. all[Len(s) + n + (i - 1)] = [ch |-> c[n + (i - 1)], at |-> Len(w) + (i - 1)]
        BY <1>4, <4>1
      <4> QED BY <1>0, <4>1, <4>2
    <3> QED BY <3>1, <3>2
  <2> QED BY <2>1, <2>2, <2>3
<1>8. ASSUME NEW i \in DOMAIN all, ~(i \in 1 .. Len(s) + n)
      PROVE  i - (Len(s) + n) \in 1 .. Len(c) - n /\ i = Len(s) + n + (i - (Len(s) + n))
  BY <1>0, <1>4, <1>8
<1>9. \A k \in 1 .. Len(w) : k \in DOMAIN new
  BY <1>0, <1>2
<1>10. OnScreen(all, new)
  BY <1>6, <1>7, <1>8, <1>9 DEF OnScreen
<1> QED BY <1>10 DEF all, new, t

(* The characters of the chunk c, written from the screen w on, when those *)
(* of the list p are there already.                                        *)
Added(c, p, w) ==
  [i \in 1 .. Len(c) |->
     IF i <= Len(p) THEN p[i] ELSE [ch |-> c[i], at |-> Len(w) + i - Len(p)]]

LEMMA AddedType ==
  ASSUME NEW c \in Seq(Char), NEW p \in Seq(Echo), NEW S, NEW w \in Seq(S)
  PROVE  Added(c, p, w) \in Seq(Echo)
<1>1. ASSUME NEW i \in 1 .. Len(c), i <= Len(p) PROVE p[i] \in Echo
  <2>1. i \in 1 .. Len(p)
    BY <1>1
  <2> QED BY <2>1
<1>2. ASSUME NEW i \in 1 .. Len(c), ~(i <= Len(p))
      PROVE  [ch |-> c[i], at |-> Len(w) + i - Len(p)] \in Echo
  <2>1. Len(w) + i - Len(p) \in Nat
    BY <1>2
  <2> QED BY <2>1 DEF Echo
<1>3. Added(c, p, w) \in [1 .. Len(c) -> Echo]
  BY <1>1, <1>2 DEF Added
<1>4. Len(c) \in Nat
  OBVIOUS
<1> QED BY <1>3, <1>4

(* What becomes of a packet: it is written, but for the echoes it starts   *)
(* with, or the echoes start with it.                                      *)
Writes(c) ==
  \E p \in {pred, <<>>} :
    /\ Len(p) <= Len(c) /\ pred' = <<>>
    /\ written' = written \o SubSeq(c, Len(p) + 1, Len(c))
    /\ shown' = shown \o Added(c, p, written)
Answers(c) ==
  /\ Len(c) <= Len(pred) /\ pred' = SubSeq(pred, Len(c) + 1, Len(pred))
  /\ written' = written /\ shown' = shown \o [i \in 1 .. Len(c) |-> pred[i]]

LEMMA Handled ==
  ASSUME ScreenType, PacketHandled
  PROVE  \E c \in Seq(Char) : Writes(c) \/ Answers(c)
<1> DEFINE c == Head(decs)
<1>1. c \in Chunk \cup {Warning} /\ c # Warning
  BY DEF PacketHandled, ScreenType
<1>2. c \in Seq(Char) /\ Len(c) \in Nat /\ c \in Seq(Char \cup {Cleared})
  BY <1>1, Chunks
<1>3. /\ pred \in Seq(Echo) /\ Len(pred) \in Nat /\ written \in Seq(Char \cup {Cleared})
      /\ Len(written) \in Nat /\ Len(<<>>) = 0
  BY DEF ScreenType
<1>4. /\ Agree(c) => pred' = SubSeq(pred, Stripped(c) + 1, Len(pred)) /\ Show(c, Stripped(c))
      /\ ~Agree(c) => pred' = <<>> /\ Show(c, 0)
  BY DEF PacketHandled
<1> HIDE DEF c
<1>5. CASE Agree(c) /\ Len(c) < Len(pred)
  <2>1. pred' = SubSeq(pred, Len(c) + 1, Len(pred)) /\ Show(c, Len(c))
    BY <1>4, <1>5 DEF Stripped
  <2>2. SubSeq(c, Len(c) + 1, Len(c)) = <<>>
    BY <1>2, SubSeqEmpty
  <2>3. written' = written
    BY <1>3, <2>1, <2>2, ConcatEmptySeq DEF Show
  <2>4. shown' = shown \o [i \in 1 .. Len(c) |-> pred[i]]
    BY <1>2, <2>1 DEF Show
  <2>5. Len(c) <= Len(pred)
    BY <1>2, <1>3, <1>5
  <2>6. Answers(c)
    BY <2>1, <2>3, <2>4, <2>5 DEF Answers
  <2> QED BY <1>2, <2>6
<1>6. CASE Agree(c) /\ ~(Len(c) < Len(pred))
  <2>1. pred' = SubSeq(pred, Len(pred) + 1, Len(pred)) /\ Show(c, Len(pred))
    BY <1>4, <1>6 DEF Stripped
  <2>2. pred' = <<>>
    BY <1>3, <2>1, SubSeqEmpty
  <2>3. Len(pred) <= Len(c)
    BY <1>2, <1>3, <1>6
  <2>4. Writes(c)
    BY <2>1, <2>2, <2>3 DEF Show, Writes, Added
  <2> QED BY <1>2, <2>4
<1>7. CASE ~Agree(c)
  <2>1. pred' = <<>> /\ Show(c, 0)
    BY <1>4, <1>7
  <2>2. [i \in 1 .. Len(c) |->
           IF i <= 0 THEN pred[i] ELSE [ch |-> c[i], at |-> Len(written) + i - 0]]
          = Added(c, <<>>, written)
    BY <1>2, <1>3 DEF Added
  <2>3. written' = written \o SubSeq(c, Len(<<>>) + 1, Len(c))
          /\ shown' = shown \o Added(c, <<>>, written)
    BY <1>3, <2>1, <2>2 DEF Show
  <2>4. Writes(c)
    BY <1>2, <1>3, <2>1, <2>3 DEF Writes
  <2> QED BY <1>2, <2>4
<1> QED BY <1>5, <1>6, <1>7

(* Answering moves echoes from one list to the other.                      *)
LEMMA Moved ==
  ASSUME NEW s \in Seq(Echo), NEW p \in Seq(Echo), NEW n \in 0 .. Len(p)
  PROVE  LET e == [i \in 1 .. n |-> p[i]]
             r == SubSeq(p, n + 1, Len(p))
         IN e \in Seq(Echo) /\ r \in Seq(Echo) /\ (s \o e) \o r = s \o p
<1> DEFINE e == [i \in 1 .. n |-> p[i]]
           r == SubSeq(p, n + 1, Len(p))
<1>1. e \in Seq(Echo) /\ e = SubSeq(p, 1, n)
  <2>1. SubSeq(p, 1, n) \in Seq(Echo) /\ Len(SubSeq(p, 1, n)) = n
          /\ \A i \in 1 .. n : SubSeq(p, 1, n)[i] = p[i]
    <3>1. \A i \in 1 .. n : p[i] \in Echo
      OBVIOUS
    <3> QED BY <3>1, SubSeqProperties
  <2>2. e \in Seq(Echo) /\ Len(e) = n /\ \A i \in 1 .. n : e[i] = p[i]
    OBVIOUS
  <2> HIDE DEF e
  <2> QED BY <2>1, <2>2, SeqEqual
<1>2. r \in Seq(Echo)
  BY SubSeqType
<1>3. SubSeq(p, 1, n) \o r = SubSeq(p, 1, Len(p))
  <2>1. 1 \in 1 .. Len(p) + 1 /\ n \in 1 - 1 .. Len(p) /\ Len(p) \in n .. Len(p)
    OBVIOUS
  <2> QED BY <2>1, ConcatAdjacentSubSeq
<1>4. e \o r = p
  BY <1>1, <1>3, SubSeqFull
<1> HIDE DEF e, r
<1>5. (s \o e) \o r = s \o p
  <2>1. \A a, b, d \in Seq(Echo) : (a \o b) \o d = a \o (b \o d)
    BY ConcatAssociative
  <2>2. (s \o e) \o r = s \o (e \o r)
    BY <1>1, <1>2, <2>1
  <2> QED BY <1>4, <2>2
<1> QED BY <1>1, <1>2, <1>5 DEF e, r

-----------------------------------------------------------------------------
EchoesHere == OnScreen(shown \o pred, written)
ScreenInv == ScreenType /\ EchoesHere

LEMMA EchoNeverEatsIs == EchoNeverEats <=> EchoesHere
  BY DEF EchoNeverEats, EchoesHere, OnScreen

LEMMA ScreenInit == Init => ScreenInv
<1>1. ASSUME Init PROVE shown \o pred = <<>> /\ ScreenType
  BY <1>1 DEF Init, ScreenType
<1>2. DOMAIN <<>> = {}
  OBVIOUS
<1> QED BY <1>1, <1>2 DEF ScreenInv, EchoesHere, OnScreen

(* Losing the unanswered echoes does no harm.                              *)
LEMMA Forgets ==
  ASSUME ScreenInv, pred' = pred \/ pred' = <<>>, UNCHANGED <<written, shown, decs>>
  PROVE  ScreenInv'
<1>1. CASE pred' = pred
  BY <1>1 DEF ScreenInv, ScreenType, EchoesHere
<1>2. CASE pred' = <<>>
  <2>1. ScreenType'
    BY <1>2 DEF ScreenInv, ScreenType
  <2>2. shown' \o pred' = shown
    BY <1>2, ConcatEmptySeq DEF ScreenInv, ScreenType
  <2>3. OnScreen(shown, written)
    BY OnPrefix DEF ScreenInv, ScreenType, EchoesHere
  <2>4. EchoesHere'
    BY <2>2, <2>3 DEF EchoesHere
  <2> QED BY <2>1, <2>4 DEF ScreenInv
<1> QED BY <1>1, <1>2

LEMMA TypesKeepsScreen ==
  ASSUME ScreenInv, NEW c \in Char, NEW e \in BOOLEAN, Types(c, e)
  PROVE  ScreenInv'
<1>1. CASE UNCHANGED <<written, pred, shown, decs>>
  BY <1>1, Forgets
<1>2. CASE ~UNCHANGED <<written, pred, shown, decs>>
  <2> DEFINE p == [ch |-> c, at |-> Len(written) + 1]
             all == shown \o pred
  <2>1. written' = Append(written, c) /\ pred' = Append(pred, p) /\ UNCHANGED <<shown, decs>>
    BY <1>2 DEF Types, link
  <2>2. written \in Seq(Char \cup {Cleared}) /\ pred \in Seq(Echo) /\ shown \in Seq(Echo)
    BY DEF ScreenInv, ScreenType
  <2>3. p \in Echo /\ p.at = Len(written) + 1 /\ p.ch = c
    BY <2>2 DEF Echo
  <2> HIDE DEF p
  <2>4. ScreenType'
    BY <2>1, <2>2, <2>3 DEF ScreenInv, ScreenType
  <2>5. all \in Seq(Echo) /\ shown' \o pred' = Append(all, p)
    <3>1. shown \o Append(pred, p) = Append(shown \o pred, p)
      BY <2>2, <2>3
    <3> QED BY <2>1, <2>2, <3>1
  <2>6. OnScreen(all, written)
    BY DEF ScreenInv, EchoesHere
  <2> HIDE DEF all
  <2>7. OnScreen(Append(all, p), Append(written, c))
    <3>1. Len(all) \in Nat /\ Len(written) \in Nat /\ DOMAIN all = 1 .. Len(all)
            /\ DOMAIN written = 1 .. Len(written)
      BY <2>2, <2>5
    <3>2. /\ DOMAIN Append(written, c) = 1 .. Len(written) + 1
          /\ \A k \in 1 .. Len(written) : Append(written, c)[k] = written[k]
          /\ Append(written, c)[Len(written) + 1] = c
      BY <2>2, <3>1
    <3>3. /\ DOMAIN Append(all, p) = 1 .. Len(all) + 1
          /\ \A k \in 1 .. Len(all) : Append(all, p)[k] = all[k]
          /\ Append(all, p)[Len(all) + 1] = p
      BY <2>3, <2>5, <3>1
    <3>4. ASSUME NEW i \in 1 .. Len(all)
          PROVE  /\ all[i].at \in 1 .. Len(written) /\ written[all[i].at] = all[i].ch
                 /\ i > 1 => all[i - 1].at < all[i].at
      BY <2>6, <3>1 DEF OnScreen
    <3> DEFINE A == Append(all, p)
               W == Append(written, c)
    <3> HIDE DEF A, W
    <3>5. ASSUME NEW i \in 1 .. Len(all)
          PROVE  /\ A[i].at \in DOMAIN W /\ W[A[i].at] = A[i].ch
                 /\ i > 1 => A[i - 1].at < A[i].at
      <4>1. i > 1 => i - 1 \in 1 .. Len(all)
        BY <3>1
      <4>2. A[i] = all[i] /\ (i > 1 => A[i - 1] = all[i - 1])
        BY <3>3, <4>1 DEF A
      <4>3. all[i].at \in DOMAIN W /\ W[all[i].at] = written[all[i].at]
        BY <3>1, <3>2, <3>4 DEF W
      <4> QED BY <3>4, <4>2, <4>3
    <3>6. A[Len(all) + 1].at \in DOMAIN W /\ W[A[Len(all) + 1].at] = A[Len(all) + 1].ch
      BY <2>3, <3>1, <3>2, <3>3 DEF A, W
    <3>7. Len(all) + 1 > 1 => A[Len(all) + 1 - 1].at < A[Len(all) + 1].at
      <4>1. Len(all) + 1 - 1 = Len(all) /\ (Len(all) + 1 > 1 => Len(all) \in 1 .. Len(all))
        BY <3>1
      <4>2. Len(all) + 1 > 1 =>
              all[Len(all)].at \in 1 .. Len(written) /\ A[Len(all)] = all[Len(all)]
        BY <3>3, <3>4, <4>1 DEF A
      <4> QED BY <2>3, <3>1, <3>3, <4>1, <4>2 DEF A
    <3>8. \A i \in DOMAIN A : i \in 1 .. Len(all) \/ i = Len(all) + 1
      BY <3>1, <3>3 DEF A
    <3> QED BY <3>5, <3>6, <3>7, <3>8 DEF OnScreen, A, W
  <2> QED BY <2>1, <2>4, <2>5, <2>7 DEF ScreenInv, EchoesHere
<1> QED BY <1>1, <1>2

LEMMA HandledKeepsScreen ==
  ASSUME ScreenInv, PacketHandled
  PROVE  ScreenInv'
<1> DEFINE S == Char \cup {Cleared}
<1>0. /\ written \in Seq(S) /\ pred \in Seq(Echo) /\ shown \in Seq(Echo)
      /\ decs' \in Seq(Chunk \cup {Warning}) /\ OnScreen(shown \o pred, written)
  BY SeqOps DEF ScreenInv, ScreenType, EchoesHere, PacketHandled
<1>1. PICK c \in Seq(Char) : Writes(c) \/ Answers(c)
  BY Handled DEF ScreenInv
<1>2. c \in Seq(S) /\ Len(c) \in Nat
  BY SeqMonotonic
<1> HIDE DEF S
<1>3. CASE Writes(c)
  <2>1. PICK p \in {pred, <<>>} :
          /\ Len(p) <= Len(c) /\ pred' = <<>>
          /\ written' = written \o SubSeq(c, Len(p) + 1, Len(c))
          /\ shown' = shown \o Added(c, p, written)
    BY <1>3 DEF Writes
  <2>2. p \in Seq(Echo) /\ OnScreen(shown \o p, written)
    <3>1. OnScreen(shown, written) /\ shown \o <<>> = shown
      BY <1>0, OnPrefix, ConcatEmptySeq
    <3>2. CASE p = pred
      BY <1>0, <3>2
    <3>3. CASE p = <<>>
      BY <3>1, <3>3
    <3> QED BY <3>2, <3>3
  <2>3. Added(c, p, written) \in Seq(Echo)
    BY <1>0, <2>2, AddedType
  <2>4. OnScreen(shown \o Added(c, p, written), written \o SubSeq(c, Len(p) + 1, Len(c)))
    <3> DEFINE e == Added(c, p, written)
    <3>1. e = [i \in 1 .. Len(c) |->
                 IF i <= Len(p) THEN p[i]
                 ELSE [ch |-> c[i], at |-> Len(written) + i - Len(p)]]
      BY DEF Added
    <3>2. e \in Seq(Echo)
      BY <2>3
    <3> HIDE DEF e
    <3>3. OnScreen(shown \o e, written \o SubSeq(c, Len(p) + 1, Len(c)))
      BY <1>0, <1>2, <2>1, <2>2, <3>1, <3>2, OnShown
    <3> QED BY <3>3 DEF e
  <2>5. shown' \in Seq(Echo) /\ shown' \o pred' = shown'
    <3>1. shown \o Added(c, p, written) \in Seq(Echo)
      BY <1>0, <2>3, ConcatProperties
    <3> QED BY <2>1, <3>1, ConcatEmptySeq
  <2>6. written' \in Seq(S)
    <3>1. Len(p) + 1 \in Nat \ {0} /\ Len(c) \in 0 .. Len(c)
      BY <1>2, <2>2
    <3>2. SubSeq(c, Len(p) + 1, Len(c)) \in Seq(S)
      BY <1>2, <3>1, SubSeqType
    <3> QED BY <1>0, <2>1, <3>2, ConcatProperties
  <2>7. pred' \in Seq(Echo)
    BY <2>1
  <2>8. EchoesHere'
    BY <2>1, <2>4, <2>5 DEF EchoesHere
  <2> QED BY <1>0, <2>5, <2>6, <2>7, <2>8 DEF ScreenInv, ScreenType, S
<1>4. CASE Answers(c)
  <2>1. /\ Len(c) \in 0 .. Len(pred) /\ pred' = SubSeq(pred, Len(c) + 1, Len(pred))
        /\ written' = written /\ shown' = shown \o [i \in 1 .. Len(c) |-> pred[i]]
    BY <1>0, <1>2, <1>4 DEF Answers
  <2>2. /\ [i \in 1 .. Len(c) |-> pred[i]] \in Seq(Echo) /\ pred' \in Seq(Echo)
        /\ shown' \o pred' = shown \o pred
    BY <1>0, <2>1, Moved
  <2>3. shown' \in Seq(Echo)
    BY <1>0, <2>1, <2>2, ConcatProperties
  <2>4. EchoesHere'
    BY <1>0, <2>1, <2>2 DEF EchoesHere
  <2>5. written' \in Seq(Char \cup {Cleared})
    BY <1>0, <2>1 DEF S
  <2> QED BY <1>0, <2>2, <2>3, <2>4, <2>5 DEF ScreenInv, ScreenType
<1> QED BY <1>1, <1>3, <1>4

(* Writing more, of whatever kind, leaves the echoes where they are.       *)
LEMMA ClearsKeepsScreen ==
  ASSUME ScreenInv, written' = Append(written, Cleared), pred' = pred \/ pred' = <<>>,
         shown' = shown, decs' \in Seq(Chunk \cup {Warning})
  PROVE  ScreenInv'
<1> DEFINE S == Char \cup {Cleared}
<1>0. /\ written \in Seq(S) /\ pred \in Seq(Echo) /\ shown \in Seq(Echo)
      /\ OnScreen(shown \o pred, written)
  BY DEF ScreenInv, ScreenType, EchoesHere
<1>1. Cleared \in S /\ <<Cleared>> \in Seq(S)
  OBVIOUS
<1> HIDE DEF S
<1>2. written' = written \o <<Cleared>> /\ written' \in Seq(S)
  BY <1>0, <1>1
<1>3. OnScreen(shown \o pred, written')
  BY <1>0, <1>1, <1>2, OnLonger
<1>4. pred' \in Seq(Echo)
  <2>1. <<>> \in Seq(Echo)
    OBVIOUS
  <2> QED BY <1>0, <2>1
<1>5. OnScreen(shown' \o pred', written')
  <2>1. CASE pred' = pred
    BY <1>3, <2>1
  <2>2. CASE pred' = <<>>
    <3>1. OnScreen(shown, written')
      BY <1>0, <1>3, OnPrefix
    <3>2. shown' \o pred' = shown
      BY <1>0, <2>2, ConcatEmptySeq
    <3> QED BY <3>1, <3>2
  <2> QED BY <2>1, <2>2
<1> QED BY <1>0, <1>2, <1>4, <1>5 DEF ScreenInv, ScreenType, EchoesHere, S

LEMMA ScreenStep ==
  ASSUME ScreenInv, [Next]_vars
  PROVE  ScreenInv'
<1> USE DEF typing, link
<1>1. CASE UNCHANGED vars
  BY <1>1, Forgets DEF vars
<1>2. ASSUME NEW c \in Char, NEW e \in BOOLEAN, Types(c, e) PROVE ScreenInv'
  BY <1>2, TypesKeepsScreen
<1>3. CASE FlushFires
  BY <1>3, Forgets DEF FlushFires, SendPty, Recover
<1>4. ASSUME NEW m \in Chunk \cup {Warning}, PacketArrives(m) PROVE ScreenInv'
  <2>1. UNCHANGED <<pred, written, shown>> /\ decs' = Append(decs, m)
    BY <1>4 DEF PacketArrives
  <2>2. decs \in Seq(Chunk \cup {Warning})
    BY DEF ScreenInv, ScreenType
  <2>3. decs' \in Seq(Chunk \cup {Warning})
    BY <2>1, <2>2, SeqOps
  <2> QED BY <2>1, <2>3 DEF ScreenInv, ScreenType, EchoesHere
<1>5. CASE PacketHandled
  BY <1>5, HandledKeepsScreen
<1>6. CASE WarningHandled
  <2>1. decs' \in Seq(Chunk \cup {Warning})
    BY <1>6, SeqOps DEF WarningHandled, ScreenInv, ScreenType
  <2> QED BY <1>6, <2>1, ClearsKeepsScreen DEF WarningHandled
<1>7. CASE BadFrame
  BY <1>7, Forgets DEF BadFrame, Recover
<1>8. CASE Window
  <2>1. UNCHANGED <<pred, written, shown, decs>>
    BY <1>8 DEF Window, LayoutChanges, DebounceFires, PinchStarts, PinchEnds, PostFrame
  <2> QED BY <2>1, Forgets
<1>9. CASE UserConnects
  <2>1. written' = Append(written, Cleared) /\ pred' = <<>> /\ UNCHANGED <<shown, decs>>
    BY <1>9 DEF UserConnects, SessionBegins
  <2>2. decs' \in Seq(Chunk \cup {Warning})
    BY <2>1 DEF ScreenInv, ScreenType
  <2> QED BY <2>1, <2>2, ClearsKeepsScreen
<1>10. CASE Reconnects
  BY <1>10, Forgets DEF Reconnects, SessionBegins
<1>11. CASE ConnectionLost
  BY <1>11, Forgets DEF ConnectionLost
<1>12. CASE UserDisconnects
  BY <1>12, Forgets DEF UserDisconnects, SendPty, Recover
<1>13. CASE EncryptionDone
  BY <1>13, Forgets DEF EncryptionDone
<1>14. CASE Agent
  <2>1. UNCHANGED <<pred, written, shown, decs>>
    BY <1>14
    DEF Agent, AgentReads, AgentInput, AgentResizes, AgentIgnores, BridgeEnds, ShellReplaced
  <2> QED BY <2>1, Forgets
<1> QED
  BY <1>1, <1>2, <1>3, <1>4, <1>5, <1>6, <1>7, <1>8, <1>9, <1>10, <1>11, <1>12, <1>13, <1>14
  DEF Next, Input, Output, Connection

(* Local echo eats no output: whatever was typed ahead, and however the    *)
(* server's packets agree with it, each character handled is on the        *)
(* terminal, in order, and unanswered echoes come after (EchoNeverEats).   *)
THEOREM EchoNeverEatsAlways == Spec => []EchoNeverEats
<1>1. ScreenInv /\ [Next]_vars => ScreenInv'
  BY ScreenStep
<1>2. ScreenInv => EchoNeverEats
  BY EchoNeverEatsIs DEF ScreenInv
<1> QED BY ScreenInit, <1>1, <1>2, PTL DEF Spec

-----------------------------------------------------------------------------
(* A pinch has no timer beside it.                                         *)
Stash ==
  /\ gesture => pinch
  /\ pending # None => pinch
  /\ pinch => debounce = None

LEMMA StashInit == Init => Stash
  BY DEF Init, Stash

LEMMA StashStep ==
  ASSUME Stash, [Next]_vars
  PROVE  Stash'
<1> USE DEF Stash
<1>1. CASE UNCHANGED <<gesture, pinch, pending, debounce>>
  BY <1>1
<1> USE DEF window
<1>2. CASE UNCHANGED vars
  BY <1>1, <1>2 DEF vars
<1>3. CASE Input \/ Output
  <2>1. UNCHANGED window
    BY <1>3
    DEF Input, Types, FlushFires, Output, PacketArrives, PacketHandled, WarningHandled, BadFrame
  <2> QED BY <1>1, <2>1
<1>4. ASSUME NEW z \in Size, LayoutChanges(z) PROVE Stash'
  BY <1>4 DEF LayoutChanges
<1>5. CASE DebounceFires
  BY <1>5 DEF DebounceFires
<1>6. CASE PinchStarts
  BY <1>6 DEF PinchStarts
<1>7. CASE PinchEnds
  BY <1>7 DEF PinchEnds
<1>8. CASE PostFrame
  BY <1>8 DEF PostFrame
<1>9. CASE UserConnects \/ Reconnects
  <2>1. UNCHANGED <<gesture, pinch, pending, debounce>>
    BY <1>9, Begins DEF SessionBegins
  <2> QED BY <1>1, <2>1
<1>10. CASE ConnectionLost
  BY <1>10 DEF ConnectionLost
<1>11. CASE UserDisconnects
  BY <1>11 DEF UserDisconnects
<1>12. CASE EncryptionDone
  BY <1>12 DEF EncryptionDone
<1>13. CASE Agent
  <2>1. UNCHANGED window
    BY <1>13
    DEF Agent, AgentReads, AgentInput, AgentResizes, AgentIgnores, BridgeEnds, ShellReplaced
  <2> QED BY <1>1, <2>1
<1> QED
  BY <1>2, <1>3, <1>4, <1>5, <1>6, <1>7, <1>8, <1>9, <1>10, <1>11, <1>12, <1>13
  DEF Next, Window, Connection

(* The state has its type.                                                 *)
Shape ==
  /\ Flags /\ SessionType /\ WindowType /\ InputType /\ NetType /\ ScreenInv /\ Stash

LEMMA ShapeInit == Init => Shape
<1> SUFFICES ASSUME Init PROVE Shape
  OBVIOUS
<1>1. SessionType
  BY Bounds DEF Init, SessionType, Serial, None
<1>2. WindowType
  BY SizeAssumption DEF Init, WindowType
<1>3. InputType /\ NetType
  BY DEF Init, InputType, NetType
<1> QED BY <1>1, <1>2, <1>3, FlagsInit, ScreenInit, StashInit DEF Shape

LEMMA ShapeStep == Shape /\ [Next]_vars => Shape'
  BY FlagsStep, SessionTypeStep, WindowTypeStep, InputTypeStep, NetTypeStep, ScreenStep, StashStep
  DEF Shape

LEMMA ShapeAlways == Spec => []Shape
  BY ShapeInit, ShapeStep, PTL DEF Spec

LEMMA ShapeTypes == Shape => TypeOK
<1> SUFFICES ASSUME Shape PROVE TypeOK
  OBVIOUS
<1>1. /\ attached \in BOOLEAN /\ flush \in BOOLEAN /\ recovering \in BOOLEAN
      /\ first \in BOOLEAN /\ frame \in BOOLEAN /\ gesture \in BOOLEAN /\ pinch \in BOOLEAN
      /\ (frame => attached)
  BY DEF Shape, Flags
<1>2. (gesture => pinch) /\ (pending # None => pinch) /\ (pinch => debounce = None)
  BY DEF Shape, Stash
<1>3. inbuf \in Seq(Char) /\ shellIn \in Seq(Char) /\ owed \in Seq(Char)
  BY DEF Shape, InputType
<1>4. /\ written \in Seq(Char \cup {Cleared}) /\ pred \in Seq([ch : Char, at : Nat])
      /\ decs \in Seq(Chunk \cup {Warning})
  BY DEF Shape, ScreenInv, ScreenType, Echo
<1>5. /\ size \in Size /\ debounce \in Size \cup {None} /\ pending \in Size \cup {None}
      /\ ptysize \in Size
  BY DEF Shape, WindowType
<1>6. /\ session \in Serial /\ sessions \in Serial /\ serving \in Serial
      /\ session \in {None, sessions}
  BY DEF Shape, SessionType
<1> QED BY ONLY <1>1, <1>2, <1>3, <1>4, <1>5, <1>6 DEF TypeOK

(* The type invariant: no pinch beside a resize timer, and nothing of the  *)
(* server's or the user's that is not text.                                *)
THEOREM TypeCorrect == Spec => []TypeOK
  BY ShapeAlways, ShapeTypes, PTL

-----------------------------------------------------------------------------
LEMMA FlushedStep ==
  ASSUME BufferedInputFlushed, Flags, InputType, [Next]_vars
  PROVE  BufferedInputFlushed'
<1> USE DEF BufferedInputFlushed
<1>1. CASE UNCHANGED <<inbuf, flush>>
  BY <1>1
<1>2. ASSUME NEW c \in Char, NEW e \in BOOLEAN, Types(c, e) PROVE BufferedInputFlushed'
  <2>1. inbuf' = Append(inbuf, c) /\ flush' = TRUE
    BY <1>2 DEF Types
  <2>2. inbuf' # <<>>
    BY <2>1, SeqOps DEF InputType
  <2> QED BY <2>1, <2>2
<1>3. CASE FlushFires
  BY <1>3 DEF FlushFires
<1>4. CASE UserDisconnects
  BY <1>4 DEF UserDisconnects
<1> USE DEF typing
<1>5. CASE UNCHANGED vars
  BY <1>1, <1>5 DEF vars
<1>6. CASE Output
  <2>1. UNCHANGED <<inbuf, flush>>
    BY <1>6 DEF Output, PacketArrives, PacketHandled, WarningHandled, BadFrame
  <2> QED BY <1>1, <2>1
<1>7. CASE Window
  <2>1. UNCHANGED <<inbuf, flush>>
    BY <1>7 DEF Window, LayoutChanges, DebounceFires, PinchStarts, PinchEnds, PostFrame
  <2> QED BY <1>1, <2>1
<1>8. CASE UserConnects \/ Reconnects
  <2>1. UNCHANGED <<inbuf, flush>>
    BY <1>8, Begins DEF SessionBegins
  <2> QED BY <1>1, <2>1
<1>9. CASE ConnectionLost \/ EncryptionDone \/ Agent
  <2>1. UNCHANGED <<inbuf, flush>>
    BY <1>9
    DEF ConnectionLost, EncryptionDone, Agent, AgentReads, AgentInput, AgentResizes,
        AgentIgnores, BridgeEnds, ShellReplaced
  <2> QED BY <1>1, <2>1
<1> QED
  BY <1>2, <1>3, <1>4, <1>5, <1>6, <1>7, <1>8, <1>9 DEF Next, Input, Connection

(* Input never waits in the buffer without a timer, and no timer runs for  *)
(* nothing (BufferedInputFlushed).                                         *)
THEOREM InputFlushed == Spec => []BufferedInputFlushed
<1>1. Init => BufferedInputFlushed
  BY DEF Init, BufferedInputFlushed
<1>2. BufferedInputFlushed /\ Shape /\ [Next]_vars => BufferedInputFlushed'
  BY FlushedStep DEF Shape
<1> QED BY ShapeAlways, <1>1, <1>2, PTL DEF Spec

-----------------------------------------------------------------------------
(* Sync recovery.                                                          *)
IsRecovery(j) == j.kind = "sync_req" /\ j.recovery
UnderWay(q) == \E i \in DOMAIN q : IsRecovery(q[i])

LEMMA UnderWayAppend ==
  ASSUME NEW S, NEW q \in Seq(S), NEW j \in S, UnderWay(q) \/ IsRecovery(j)
  PROVE  UnderWay(Append(q, j))
<1>1. DOMAIN Append(q, j) = 1 .. Len(q) + 1 /\ Append(q, j)[Len(q) + 1] = j
        /\ \A i \in DOMAIN q : i \in DOMAIN Append(q, j) /\ Append(q, j)[i] = q[i]
  OBVIOUS
<1>2. Len(q) + 1 \in 1 .. Len(q) + 1
  OBVIOUS
<1> QED BY <1>1, <1>2 DEF UnderWay

LEMMA UnderWayTail ==
  ASSUME NEW S, NEW q \in Seq(S), UnderWay(q), q # <<>>, ~IsRecovery(Head(q))
  PROVE  UnderWay(Tail(q))
<1>1. PICK i \in 1 .. Len(q) : IsRecovery(q[i])
  BY SeqOps DEF UnderWay
<1>2. i # 1
  BY <1>1, SeqOps
<1>3. i - 1 \in DOMAIN Tail(q) /\ Tail(q)[i - 1] = q[i]
  BY <1>1, <1>2
<1> QED BY <1>1, <1>3 DEF UnderWay

LEMMA RecoveryEndsIs == RecoveryEnds <=> (recovering => UnderWay(jobs))
  BY DEF RecoveryEnds, UnderWay, IsRecovery

LEMMA RecoverKeeps ==
  ASSUME RecoveryEnds, NetType, SessionType, NEW s \in Seq(Char), Recover \/ SendPty(s)
  PROVE  RecoveryEnds'
<1>1. jobs \in Seq(Job) /\ (session # None => session \in Live)
  BY LiveSession DEF NetType
<1>2. CASE UNCHANGED <<recovering, jobs>>
  BY <1>2 DEF RecoveryEnds
<1>3. CASE jobs' = Append(jobs, Request(session, TRUE)) /\ session # None
  <2>1. Request(session, TRUE) \in Job /\ IsRecovery(Request(session, TRUE))
    BY <1>1, <1>3, Jobs DEF IsRecovery, Request
  <2>2. UnderWay(jobs')
    BY <1>1, <1>3, <2>1, UnderWayAppend
  <2> QED BY <2>2 DEF RecoveryEnds, UnderWay, IsRecovery
<1>4. CASE recovering' = FALSE
  BY <1>4 DEF RecoveryEnds
<1>5. CASE /\ jobs' = Append(jobs, Batch(session, s)) /\ session # None
           /\ recovering' = recovering
  <2>1. Batch(session, s) \in Job
    BY <1>1, <1>5, Jobs
  <2>2. UnderWay(jobs) => UnderWay(jobs')
    BY <1>1, <1>5, <2>1, UnderWayAppend
  <2> QED BY <1>5, <2>2 DEF RecoveryEnds, UnderWay, IsRecovery
<1> QED BY <1>2, <1>3, <1>4, <1>5 DEF Recover, SendPty

LEMMA OthersKeepRecovery ==
  ASSUME RecoveryEnds, NetType, UNCHANGED recovering,
         jobs' = jobs \/ \E j \in Job : jobs' = Append(jobs, j)
  PROVE  RecoveryEnds'
<1>1. jobs \in Seq(Job)
  BY DEF NetType
<1>2. UnderWay(jobs) => UnderWay(jobs')
  BY <1>1, UnderWayAppend
<1> QED BY <1>2 DEF RecoveryEnds, UnderWay, IsRecovery

LEMMA RecoveryStep ==
  ASSUME RecoveryEnds, Shape, [Next]_vars
  PROVE  RecoveryEnds'
<1>0. NetType /\ SessionType /\ InputType /\ WindowType
  BY DEF Shape
<1> USE DEF typing, link
<1>1. CASE UNCHANGED <<recovering, jobs>>
  BY <1>1 DEF RecoveryEnds
<1>2. ASSUME NEW c \in Char, NEW e \in BOOLEAN, Types(c, e) PROVE RecoveryEnds'
  BY <1>1, <1>2 DEF Types
<1>3. CASE FlushFires
  BY <1>0, <1>3, RecoverKeeps DEF FlushFires, InputType
<1>4. CASE UserDisconnects
  <2>1. CASE inbuf = <<>>
    BY <1>1, <1>4, <2>1 DEF UserDisconnects
  <2>2. CASE inbuf # <<>>
    BY <1>0, <1>4, <2>2, RecoverKeeps DEF UserDisconnects, InputType
  <2> QED BY <2>1, <2>2
<1>5. CASE BadFrame
  <2>1. <<>> \in Seq(Char)
    OBVIOUS
  <2> QED BY <1>0, <1>5, <2>1, RecoverKeeps DEF BadFrame
<1>6. CASE UNCHANGED vars
  BY <1>1, <1>6 DEF vars
<1>7. ASSUME NEW m, PacketArrives(m) PROVE RecoveryEnds'
  BY <1>1, <1>7 DEF PacketArrives
<1>8. CASE PacketHandled
  BY <1>1, <1>8 DEF PacketHandled
<1>9. CASE WarningHandled
  BY <1>1, <1>9 DEF WarningHandled
<1>10. ASSUME NEW z \in Size, LayoutChanges(z) PROVE RecoveryEnds'
  <2>1. UNCHANGED recovering
    BY <1>10 DEF LayoutChanges
  <2>2. jobs' = jobs \/ SendResize(z)
    BY <1>10 DEF LayoutChanges
  <2> QED BY <1>0, <2>1, <2>2, ResizeJobs, OthersKeepRecovery
<1>11. CASE DebounceFires
  <2>1. UNCHANGED recovering /\ SendResize(debounce) /\ debounce \in Size
    BY <1>0, <1>11 DEF DebounceFires, WindowType
  <2> QED BY <1>0, <2>1, ResizeJobs, OthersKeepRecovery
<1>12. CASE PostFrame
  <2>1. UNCHANGED recovering /\ SendResize(size) /\ size \in Size
    BY <1>0, <1>12 DEF PostFrame, WindowType
  <2> QED BY <1>0, <2>1, ResizeJobs, OthersKeepRecovery
<1>13. CASE PinchStarts
  BY <1>1, <1>13 DEF PinchStarts
<1>14. CASE PinchEnds
  BY <1>1, <1>14 DEF PinchEnds
<1>15. CASE UserConnects \/ Reconnects
  <2>1. recovering' = FALSE
    BY <1>15, Begins DEF SessionBegins
  <2> QED BY <2>1 DEF RecoveryEnds
<1>16. CASE ConnectionLost
  BY <1>1, <1>16 DEF ConnectionLost
<1>17. CASE EncryptionDone
  <2>1. jobs # <<>> /\ jobs' = Tail(jobs)
          /\ recovering' = (recovering /\ ~IsRecovery(Head(jobs)))
    BY <1>17 DEF EncryptionDone, IsRecovery
  <2>2. recovering' => UnderWay(jobs) /\ ~IsRecovery(Head(jobs))
    BY <2>1, RecoveryEndsIs
  <2>3. recovering' => UnderWay(jobs')
    BY <1>0, <2>1, <2>2, UnderWayTail DEF NetType
  <2> QED BY <2>3 DEF RecoveryEnds, UnderWay, IsRecovery
<1>18. CASE AgentReads
  <2>1. UNCHANGED <<recovering, jobs>>
    BY <1>18 DEF AgentReads, AgentInput, AgentResizes, AgentIgnores
  <2> QED BY <1>1, <2>1
<1>19. CASE BridgeEnds \/ ShellReplaced
  <2>1. UNCHANGED <<recovering, jobs>>
    BY <1>19 DEF BridgeEnds, ShellReplaced
  <2> QED BY <1>1, <2>1
<1> QED
  BY <1>2, <1>3, <1>4, <1>5, <1>6, <1>7, <1>8, <1>9, <1>10, <1>11, <1>12, <1>13, <1>14, <1>15,
     <1>16, <1>17, <1>18, <1>19
  DEF Next, Input, Output, Window, Connection, Agent

(* Sync recovery never locks itself out: who holds its flag has a request  *)
(* under way whose end clears it (RecoveryEnds).                           *)
THEOREM RecoveryAlwaysEnds == Spec => []RecoveryEnds
<1>1. Init => RecoveryEnds
  BY DEF Init, RecoveryEnds
<1>2. RecoveryEnds /\ Shape /\ [Next]_vars => RecoveryEnds'
  BY RecoveryStep
<1> QED BY ShapeAlways, <1>1, <1>2, PTL DEF Spec

-----------------------------------------------------------------------------
(* The size on its way: that of the last report in a queue.                *)
IsReport(j) == j.kind = "resize"
Has(q, z) ==
  \E i \in DOMAIN q :
    IsReport(q[i]) /\ q[i].size = z /\ \A k \in DOMAIN q : IsReport(q[k]) => k <= i
HasNone(q) == \A i \in DOMAIN q : ~IsReport(q[i])
Bodies(w) == [i \in DOMAIN w |-> w[i].body]
Way(z) ==
  \/ Has(jobs, z)
  \/ HasNone(jobs) /\ Has(Bodies(wire), z)
  \/ HasNone(jobs) /\ HasNone(Bodies(wire)) /\ ptysize = z

LEMMA Appended ==
  ASSUME NEW S, NEW q \in Seq(S), NEW j \in S
  PROVE  /\ IsReport(j) => Has(Append(q, j), j.size)
         /\ ~IsReport(j) => /\ HasNone(q) => HasNone(Append(q, j))
                            /\ \A z : Has(q, z) => Has(Append(q, j), z)
<1> DEFINE a == Append(q, j)
           n == Len(q)
<1>1. /\ n \in Nat /\ DOMAIN q = 1 .. n /\ DOMAIN a = 1 .. n + 1
      /\ a[n + 1] = j /\ \A i \in 1 .. n : a[i] = q[i]
  OBVIOUS
<1> HIDE DEF a, n
<1>2. \A i \in 1 .. n + 1 : i \in 1 .. n \/ i = n + 1
  BY <1>1
<1>3. \A i \in 1 .. n : i \in 1 .. n + 1
  BY <1>1
<1>4. n + 1 \in 1 .. n + 1 /\ \A k \in 1 .. n + 1 : k <= n + 1
  BY <1>1
<1>5. IsReport(j) => Has(a, j.size)
  BY <1>1, <1>4 DEF Has
<1>6. ~IsReport(j) /\ HasNone(q) => HasNone(a)
  BY <1>1, <1>2 DEF HasNone
<1>7. ASSUME ~IsReport(j), NEW z, Has(q, z) PROVE Has(a, z)
  <2>1. PICK i \in 1 .. n :
          IsReport(q[i]) /\ q[i].size = z /\ \A k \in 1 .. n : IsReport(q[k]) => k <= i
    BY <1>1, <1>7 DEF Has
  <2>2. \A k \in 1 .. n + 1 : IsReport(a[k]) => k <= i
    BY <1>1, <1>2, <1>7, <2>1
  <2>3. IsReport(a[i]) /\ a[i].size = z /\ i \in 1 .. n + 1
    BY <1>1, <1>3, <2>1
  <2> QED BY <1>1, <2>2, <2>3 DEF Has
<1> QED BY <1>5, <1>6, <1>7 DEF a

LEMMA Shortened ==
  ASSUME NEW S, NEW q \in Seq(S), q # <<>>
  PROVE  /\ HasNone(q) => HasNone(Tail(q)) /\ ~IsReport(Head(q))
         /\ \A z : Has(q, z) =>
              \/ Has(Tail(q), z)
              \/ IsReport(Head(q)) /\ Head(q).size = z /\ HasNone(Tail(q))
<1> DEFINE t == Tail(q)
           n == Len(q)
<1>1. /\ n \in Nat /\ n >= 1 /\ DOMAIN q = 1 .. n /\ DOMAIN t = 1 .. n - 1
      /\ Head(q) = q[1] /\ \A i \in 1 .. n - 1 : t[i] = q[i + 1]
  <2>1. n \in Nat /\ n >= 1 /\ DOMAIN q = 1 .. n /\ Head(q) = q[1]
    OBVIOUS
  <2>2. t \in Seq(S) /\ Len(t) = n - 1 /\ \A i \in 1 .. Len(t) : t[i] = q[i + 1]
    BY HeadTailProperties
  <2> QED BY <2>1, <2>2, LenProperties
<1> HIDE DEF t, n
<1>2. \A i \in 1 .. n - 1 : i + 1 \in 1 .. n
  BY <1>1
<1>3. 1 \in 1 .. n
  BY <1>1
<1>4. HasNone(q) => HasNone(t) /\ ~IsReport(Head(q))
  BY <1>1, <1>2, <1>3 DEF HasNone
<1>5. ASSUME NEW z, Has(q, z)
      PROVE  Has(t, z) \/ (IsReport(Head(q)) /\ Head(q).size = z /\ HasNone(t))
  <2>1. PICK i \in 1 .. n :
          IsReport(q[i]) /\ q[i].size = z /\ \A k \in 1 .. n : IsReport(q[k]) => k <= i
    BY <1>1, <1>5 DEF Has
  <2>2. CASE i = 1
    <3>1. ASSUME NEW k \in 1 .. n - 1 PROVE ~IsReport(t[k])
      <4>1. k + 1 \in 1 .. n /\ ~(k + 1 <= 1) /\ t[k] = q[k + 1]
        BY <1>1, <1>2
      <4> QED BY <2>1, <2>2, <4>1
    <3> QED BY <1>1, <2>1, <2>2, <3>1 DEF HasNone
  <2>3. CASE i # 1
    <3>1. i - 1 \in 1 .. n - 1 /\ t[i - 1] = q[i]
      <4>1. i - 1 \in 1 .. n - 1 /\ (i - 1) + 1 = i
        BY <1>1, <2>3
      <4> QED BY <1>1, <4>1
    <3>2. ASSUME NEW k \in 1 .. n - 1, IsReport(t[k]) PROVE k <= i - 1
      <4>1. k + 1 \in 1 .. n /\ t[k] = q[k + 1]
        BY <1>1, <1>2
      <4>2. k + 1 <= i
        BY <2>1, <3>2, <4>1
      <4> QED BY <4>2
    <3> QED BY <1>1, <2>1, <3>1, <3>2 DEF Has
  <2> QED BY <2>2, <2>3
<1> QED BY <1>4, <1>5 DEF t

LEMMA CutOff ==
  ASSUME NEW S, NEW q \in Seq(S), NEW n \in 0 .. Len(q),
         \A i \in n + 1 .. Len(q) : ~IsReport(q[i])
  PROVE  /\ HasNone(q) => HasNone(SubSeq(q, 1, n))
         /\ \A z : Has(q, z) => Has(SubSeq(q, 1, n), z)
<1> DEFINE p == SubSeq(q, 1, n)
<1>1. DOMAIN p = 1 .. n /\ (\A i \in 1 .. n : p[i] = q[i]) /\ DOMAIN q = 1 .. Len(q)
  OBVIOUS
<1> HIDE DEF p
<1>2. \A i \in 1 .. n : i \in 1 .. Len(q)
  OBVIOUS
<1>3. \A i \in 1 .. Len(q) : i \in 1 .. n \/ i \in n + 1 .. Len(q)
  OBVIOUS
<1>4. HasNone(q) => HasNone(p)
  BY <1>1, <1>2 DEF HasNone
<1>5. ASSUME NEW z, Has(q, z) PROVE Has(p, z)
  <2>1. PICK i \in 1 .. Len(q) :
          IsReport(q[i]) /\ q[i].size = z /\ \A k \in 1 .. Len(q) : IsReport(q[k]) => k <= i
    BY <1>1, <1>5 DEF Has
  <2>2. i \in 1 .. n
    BY <1>3, <2>1
  <2> QED BY <1>1, <1>2, <2>1, <2>2 DEF Has
<1> QED BY <1>4, <1>5 DEF p

LEMMA BodiesOf ==
  ASSUME NEW w \in Seq(Envelope)
  PROVE  /\ Bodies(w) \in Seq(Job) /\ Len(Bodies(w)) = Len(w)
         /\ \A e \in Envelope : Bodies(Append(w, e)) = Append(Bodies(w), e.body)
         /\ w # <<>> => /\ Bodies(w) # <<>> /\ Head(Bodies(w)) = Head(w).body
                        /\ Bodies(Tail(w)) = Tail(Bodies(w))
         /\ \A n \in 0 .. Len(w) : Bodies(SubSeq(w, 1, n)) = SubSeq(Bodies(w), 1, n)
<1>1. \A v \in Seq(Envelope) :
        Bodies(v) \in Seq(Job) /\ Len(Bodies(v)) = Len(v)
          /\ \A i \in 1 .. Len(v) : Bodies(v)[i] = v[i].body
  <2> SUFFICES ASSUME NEW v \in Seq(Envelope)
               PROVE  Bodies(v) \in Seq(Job) /\ Len(Bodies(v)) = Len(v)
                        /\ \A i \in 1 .. Len(v) : Bodies(v)[i] = v[i].body
    OBVIOUS
  <2>1. DOMAIN v = 1 .. Len(v) /\ Len(v) \in Nat
    OBVIOUS
  <2>2. \A i \in 1 .. Len(v) : v[i].body \in Job
    <3>1. \A i \in 1 .. Len(v) : v[i] \in Envelope
      OBVIOUS
    <3> QED BY <3>1 DEF Envelope
  <2>3. Bodies(v) \in [1 .. Len(v) -> Job]
    BY <2>1, <2>2 DEF Bodies
  <2> QED BY <2>1, <2>3 DEF Bodies
<1>2. ASSUME NEW e \in Envelope PROVE Bodies(Append(w, e)) = Append(Bodies(w), e.body)
  <2> DEFINE a == Append(w, e)
             b == Append(Bodies(w), e.body)
  <2>1. a \in Seq(Envelope) /\ Len(a) = Len(w) + 1 /\ a[Len(w) + 1] = e
          /\ \A i \in 1 .. Len(w) : a[i] = w[i]
    OBVIOUS
  <2>2. e.body \in Job
    BY DEF Envelope
  <2>3. b \in Seq(Job) /\ Len(b) = Len(w) + 1 /\ b[Len(w) + 1] = e.body
          /\ \A i \in 1 .. Len(w) : b[i] = w[i].body
    BY <1>1, <2>2
  <2> HIDE DEF a, b
  <2>4. Bodies(a) \in Seq(Job) /\ Len(Bodies(a)) = Len(w) + 1
          /\ \A i \in 1 .. Len(w) + 1 : Bodies(a)[i] = a[i].body
    BY <1>1, <2>1
  <2>5. \A i \in 1 .. Len(w) + 1 : i \in 1 .. Len(w) \/ i = Len(w) + 1
    OBVIOUS
  <2>6. \A i \in 1 .. Len(b) : Bodies(a)[i] = b[i]
    BY <2>1, <2>3, <2>4, <2>5
  <2>7. Bodies(a) = b
    BY <2>3, <2>4, <2>6, SeqEqual
  <2> QED BY <2>7 DEF a, b
<1>3. ASSUME w # <<>>
      PROVE  /\ Bodies(w) # <<>> /\ Head(Bodies(w)) = Head(w).body
             /\ Bodies(Tail(w)) = Tail(Bodies(w))
  <2> DEFINE t == Tail(w)
             b == Tail(Bodies(w))
  <2>0. Len(w) \in Nat \ {0} /\ Head(w) = w[1]
    BY <1>3
  <2>1. t \in Seq(Envelope) /\ Len(t) = Len(w) - 1 /\ \A i \in 1 .. Len(t) : t[i] = w[i + 1]
    BY <1>3, HeadTailProperties
  <2>2. Bodies(w) \in Seq(Job) /\ Len(Bodies(w)) = Len(w)
    BY <1>1
  <2>3. Bodies(w) # <<>> /\ Head(Bodies(w)) = Bodies(w)[1]
    BY <2>0, <2>2
  <2>4. Head(Bodies(w)) = Head(w).body
    BY <1>1, <2>0, <2>3
  <2>5. b \in Seq(Job) /\ Len(b) = Len(w) - 1
          /\ \A i \in 1 .. Len(b) : b[i] = Bodies(w)[i + 1]
    BY <2>2, <2>3, HeadTailProperties
  <2> HIDE DEF t, b
  <2>6. Bodies(t) \in Seq(Job) /\ Len(Bodies(t)) = Len(w) - 1
          /\ \A i \in 1 .. Len(w) - 1 : Bodies(t)[i] = t[i].body
    BY <1>1, <2>1
  <2>7. \A i \in 1 .. Len(w) - 1 : i + 1 \in 1 .. Len(w)
    BY <2>0
  <2>8. ASSUME NEW i \in 1 .. Len(b) PROVE Bodies(t)[i] = b[i]
    <3>1. i \in 1 .. Len(w) - 1 /\ i + 1 \in 1 .. Len(w)
      BY <2>5, <2>7
    <3>2. b[i] = w[i + 1].body
      BY <1>1, <2>5, <3>1
    <3>3. Bodies(t)[i] = w[i + 1].body
      BY <2>1, <2>6, <3>1
    <3> QED BY <3>2, <3>3
  <2>9. Bodies(t) = b
    BY <2>5, <2>6, <2>8, SeqEqual
  <2> QED BY <2>3, <2>4, <2>9 DEF t, b
<1>4. ASSUME NEW n \in 0 .. Len(w) PROVE Bodies(SubSeq(w, 1, n)) = SubSeq(Bodies(w), 1, n)
  <2> DEFINE t == SubSeq(w, 1, n)
             b == SubSeq(Bodies(w), 1, n)
  <2>1. t \in Seq(Envelope) /\ Len(t) = n /\ \A i \in 1 .. n : t[i] = w[i]
    OBVIOUS
  <2>2. Bodies(w) \in Seq(Job) /\ Len(Bodies(w)) = Len(w)
    BY <1>1
  <2>3. b \in Seq(Job) /\ Len(b) = n /\ \A i \in 1 .. n : b[i] = Bodies(w)[i]
    BY <2>2
  <2> HIDE DEF t, b
  <2>4. Bodies(t) \in Seq(Job) /\ Len(Bodies(t)) = n
          /\ \A i \in 1 .. n : Bodies(t)[i] = t[i].body
    BY <1>1, <2>1
  <2>5. \A i \in 1 .. n : i \in 1 .. Len(w)
    OBVIOUS
  <2>6. \A i \in 1 .. Len(b) : Bodies(t)[i] = b[i]
    BY <1>1, <2>1, <2>3, <2>4, <2>5
  <2>7. Bodies(t) = b
    BY <2>3, <2>4, <2>6, SeqEqual
  <2> QED BY <2>7 DEF t, b
<1> QED BY <1>1, <1>2, <1>3, <1>4

(* The wait for the timer or for the end of a pinch is for the newest.     *)
Waiting ==
  /\ debounce # None => debounce = size
  /\ pending # None => pending = size
  /\ first => debounce = None /\ pending = None
Kept ==
  attached /\ ~frame /\ ~missed => pending # None \/ debounce # None \/ Way(size)
SizeInv == Waiting /\ Kept

LEMMA SizeInvInit == Init => SizeInv
  BY DEF Init, SizeInv, Waiting, Kept

(* What is sent goes to the end of the jobs.                               *)
LEMMA SendsReport ==
  ASSUME NetType, SessionType, NEW z \in Size, SendResize(z), UNCHANGED <<wire, ptysize>>
  PROVE  missed' = TRUE \/ Way(z)'
<1>1. CASE session = None
  BY <1>1 DEF SendResize
<1>2. CASE session # None
  <2>1. jobs \in Seq(Job) /\ Report(session, z) \in Job
    BY <1>2, LiveSession, Jobs DEF NetType
  <2>2. IsReport(Report(session, z)) /\ Report(session, z).size = z
    BY DEF IsReport, Report
  <2>3. jobs' = Append(jobs, Report(session, z))
    BY <1>2 DEF SendResize
  <2>4. Has(jobs', z)
    BY <2>1, <2>2, <2>3, Appended
  <2> QED BY <2>4 DEF Way
<1> QED BY <1>1, <1>2

LEMMA OtherJob ==
  ASSUME NetType, NEW z, Way(z), UNCHANGED <<wire, ptysize>>,
         jobs' = jobs \/ \E j \in Job : jobs' = Append(jobs, j) /\ ~IsReport(j)
  PROVE  Way(z)'
<1>1. jobs \in Seq(Job)
  BY DEF NetType
<1>2. HasNone(jobs) => HasNone(jobs')
  BY <1>1, Appended
<1>3. Has(jobs, z) => Has(jobs', z)
  BY <1>1, Appended
<1> QED BY <1>2, <1>3 DEF Way

LEMMA RecoverJob ==
  ASSUME SessionType, NEW s \in Seq(Char), Recover \/ SendPty(s)
  PROVE  jobs' = jobs \/ \E j \in Job : jobs' = Append(jobs, j) /\ ~IsReport(j)
<1>1. session # None => /\ Batch(session, s) \in Job /\ Request(session, TRUE) \in Job
                        /\ ~IsReport(Batch(session, s)) /\ ~IsReport(Request(session, TRUE))
  BY LiveSession, Jobs DEF IsReport, Batch, Request
<1> QED BY <1>1 DEF Recover, SendPty

LEMMA BeginJob ==
  ASSUME SessionType, SessionBegins
  PROVE  \E j \in Job : jobs' = Append(jobs, j) /\ ~IsReport(j)
<1>1. sessions + 1 \in Live
  BY Bounds DEF SessionBegins, SessionType, Serial, Live
<1>2. Request(sessions + 1, FALSE) \in Job /\ ~IsReport(Request(sessions + 1, FALSE))
  BY <1>1, Jobs DEF IsReport, Request
<1> QED BY <1>2 DEF SessionBegins

(* A report that is encrypted in time goes on the wire as the last.        *)
LEMMA EncryptedKeepsWay ==
  ASSUME NetType, SessionType, EncryptionDone, NEW z, Way(z)
  PROVE  missed' = TRUE \/ Way(z)'
<1> DEFINE j == Head(jobs)
<1>1. /\ jobs # <<>> /\ jobs' = Tail(jobs) /\ ptysize' = ptysize
      /\ wire' = IF session = None THEN wire ELSE Append(wire, [id |-> session, body |-> j])
      /\ j.kind = "resize" /\ j.key # session => missed' = TRUE
  BY DEF EncryptionDone, agent
<1>2. jobs \in Seq(Job) /\ wire \in Seq(Envelope) /\ j \in Job
  BY <1>1 DEF NetType
<1>3. /\ HasNone(jobs) => HasNone(jobs') /\ ~IsReport(j)
      /\ Has(jobs, z) => Has(jobs', z) \/ (IsReport(j) /\ j.size = z /\ HasNone(jobs'))
  BY <1>1, <1>2, Shortened
<1>4. j.key # None
  BY <1>2, Bounds DEF Job, Batch, Report, Request, Live, None
<1> HIDE DEF j
<1>5. CASE session = None
  <2>1. IsReport(j) => missed' = TRUE
    BY <1>1, <1>4, <1>5 DEF IsReport
  <2>2. ~IsReport(j) => Way(z)'
    BY <1>1, <1>3, <1>5 DEF Way
  <2> QED BY <2>1, <2>2
<1>6. CASE session # None
  <2> DEFINE e == [id |-> session, body |-> j]
  <2>1. e \in Envelope /\ e.body = j
    BY <1>2, <1>6, LiveSession DEF Envelope
  <2> HIDE DEF e
  <2>2. Bodies(wire') = Append(Bodies(wire), j) /\ Bodies(wire) \in Seq(Job)
    BY <1>1, <1>2, <1>6, <2>1, BodiesOf DEF e
  <2>3. IsReport(j) => Has(Bodies(wire'), j.size)
    BY <1>2, <2>2, Appended
  <2>4. ~IsReport(j) => /\ HasNone(Bodies(wire)) => HasNone(Bodies(wire'))
                        /\ Has(Bodies(wire), z) => Has(Bodies(wire'), z)
    BY <1>2, <2>2, Appended
  <2> QED BY <1>1, <1>3, <2>3, <2>4 DEF Way
<1> QED BY <1>5, <1>6

(* A report that is read sets the size of the PTY, or is missed.           *)
LEMMA ReadKeepsWay ==
  ASSUME NetType, AgentReads, NEW z, Way(z)
  PROVE  missed' = TRUE \/ Way(z)'
<1>1. PICK m \in ToSet(wire) :
        /\ wire # <<>> /\ m = Head(wire) /\ wire' = Tail(wire)
        /\ IsReport(m.body) => missed' = TRUE \/ ptysize' = m.body.size
        /\ ~IsReport(m.body) => ptysize' = ptysize
  <2>1. CASE AgentInput
    BY <2>1 DEF AgentInput, Reads, IsReport
  <2>2. CASE AgentResizes
    BY <2>2 DEF AgentResizes, Reads, IsReport
  <2>3. CASE AgentIgnores
    BY <2>3 DEF AgentIgnores, Reads, IsReport, agent
  <2> QED BY <2>1, <2>2, <2>3 DEF AgentReads
<1>2. jobs' = jobs
  BY DEF AgentReads, AgentInput, AgentResizes, AgentIgnores
<1> DEFINE b == Bodies(wire)
<1>3. b \in Seq(Job) /\ b # <<>> /\ Head(b) = m.body /\ Bodies(wire') = Tail(b)
  BY <1>1, BodiesOf DEF NetType
<1> HIDE DEF b
<1>4. /\ HasNone(b) => HasNone(Bodies(wire')) /\ ~IsReport(m.body)
      /\ Has(b, z) => \/ Has(Bodies(wire'), z)
                      \/ IsReport(m.body) /\ m.body.size = z /\ HasNone(Bodies(wire'))
  BY <1>3, Shortened
<1> QED BY <1>1, <1>2, <1>4 DEF Way, b

LEMMA LossKeepsWay ==
  ASSUME NetType, ConnectionLost, NEW z, Way(z)
  PROVE  missed' = TRUE \/ Way(z)'
<1>1. PICK n \in 0 .. Len(wire) :
        /\ wire' = SubSeq(wire, 1, n)
        /\ (\E i \in n + 1 .. Len(wire) : wire[i].body.kind = "resize") => missed' = TRUE
  BY DEF ConnectionLost
<1>2. jobs' = jobs /\ ptysize' = ptysize
  BY DEF ConnectionLost, agent
<1> DEFINE b == Bodies(wire)
<1>3. b \in Seq(Job) /\ Len(b) = Len(wire) /\ Bodies(wire') = SubSeq(b, 1, n)
        /\ \A i \in n + 1 .. Len(wire) : b[i] = wire[i].body
  <2>1. wire \in Seq(Envelope)
    BY DEF NetType
  <2>2. \A i \in n + 1 .. Len(wire) : b[i] = wire[i].body
    BY <2>1 DEF Bodies
  <2> QED BY <1>1, <2>1, <2>2, BodiesOf
<1> HIDE DEF b
<1>4. CASE \A i \in n + 1 .. Len(wire) : ~IsReport(b[i])
  <2>1. /\ HasNone(b) => HasNone(SubSeq(b, 1, n))
        /\ Has(b, z) => Has(SubSeq(b, 1, n), z)
    BY <1>3, <1>4, CutOff
  <2> QED BY <1>2, <1>3, <2>1 DEF Way, b
<1>5. CASE \E i \in n + 1 .. Len(wire) : IsReport(b[i])
  BY <1>1, <1>3, <1>5 DEF IsReport
<1> QED BY <1>4, <1>5

LEMMA WaitingStep ==
  ASSUME Waiting, Stash, Flags, [Next]_vars
  PROVE  Waiting'
<1> USE DEF Waiting
<1>1. CASE UNCHANGED <<debounce, pending, size, first>>
  BY <1>1
<1>2. CASE UNCHANGED window
  BY <1>2 DEF window
<1>3. CASE UNCHANGED vars \/ Input \/ Output
  <2>1. UNCHANGED window
    BY <1>3
    DEF vars, Input, Types, FlushFires, Output, PacketArrives, PacketHandled, WarningHandled,
        BadFrame
  <2> QED BY <1>2, <2>1
<1>4. ASSUME NEW z \in Size, LayoutChanges(z) PROVE Waiting'
  <2>1. size' = z /\ first' = FALSE
    BY <1>4 DEF LayoutChanges
  <2>2. CASE first
    <3>1. UNCHANGED <<debounce, pending>>
      BY <1>4, <2>2 DEF LayoutChanges
    <3> QED BY <2>1, <2>2, <3>1
  <2>3. CASE ~first /\ pinch
    <3>1. pending' = z /\ debounce' = debounce
      BY <1>4, <2>3 DEF LayoutChanges
    <3> QED BY <2>1, <2>3, <3>1 DEF Stash
  <2>4. CASE ~first /\ ~pinch
    <3>1. debounce' = z /\ pending' = pending
      BY <1>4, <2>4 DEF LayoutChanges
    <3> QED BY <2>1, <2>4, <3>1 DEF Stash
  <2> QED BY <2>2, <2>3, <2>4
<1>5. CASE DebounceFires
  BY <1>5 DEF DebounceFires
<1>6. CASE PinchStarts
  BY <1>6 DEF PinchStarts
<1>7. CASE PinchEnds
  BY <1>7 DEF PinchEnds
<1>8. CASE PostFrame
  BY <1>1, <1>8 DEF PostFrame
<1>9. CASE UserConnects \/ Reconnects
  <2>1. UNCHANGED <<debounce, pending, size, first>>
    BY <1>9, Begins DEF SessionBegins
  <2> QED BY <1>1, <2>1
<1>10. CASE ConnectionLost \/ EncryptionDone \/ Agent
  <2>1. UNCHANGED window
    BY <1>10
    DEF ConnectionLost, EncryptionDone, Agent, AgentReads, AgentInput, AgentResizes,
        AgentIgnores, BridgeEnds, ShellReplaced
  <2> QED BY <1>2, <2>1
<1>11. CASE UserDisconnects
  BY <1>11 DEF UserDisconnects
<1> QED
  BY <1>3, <1>4, <1>5, <1>6, <1>7, <1>8, <1>9, <1>10, <1>11 DEF Next, Window, Connection

(* Where nothing is stashed or waits for the timer, it is on its way.      *)
LEMMA KeptUnless ==
  ASSUME Kept, UNCHANGED <<attached, frame, pending, debounce, size>>,
         missed' = missed \/ missed' = TRUE,
         Way(size) => missed' = TRUE \/ Way(size)'
  PROVE  Kept'
  BY DEF Kept

LEMMA KeptStep ==
  ASSUME SizeInv, Shape, [Next]_vars
  PROVE  Kept'
<1>0. Kept /\ Waiting /\ NetType /\ SessionType /\ WindowType /\ InputType /\ Stash /\ Flags
  BY DEF Shape, SizeInv
<1>1. CASE UNCHANGED <<attached, frame, missed, pending, debounce, size, jobs, wire, ptysize>>
  BY <1>0, <1>1 DEF Kept, Way
<1> USE DEF typing, window, link, agent
<1>2. CASE UNCHANGED vars
  BY <1>1, <1>2 DEF vars
<1>3. ASSUME NEW c \in Char, NEW e \in BOOLEAN, Types(c, e) PROVE Kept'
  BY <1>1, <1>3 DEF Types
<1>4. ASSUME NEW s \in Seq(Char), Recover \/ SendPty(s),
             UNCHANGED <<attached, frame, missed, pending, debounce, size, wire, ptysize>>
      PROVE  Kept'
  <2>1. jobs' = jobs \/ \E j \in Job : jobs' = Append(jobs, j) /\ ~IsReport(j)
    BY <1>0, <1>4, RecoverJob
  <2>2. Way(size) => Way(size)'
    BY <1>0, <1>4, <2>1, OtherJob
  <2> QED BY <1>0, <1>4, <2>2, KeptUnless
<1>5. CASE FlushFires
  BY <1>0, <1>4, <1>5 DEF FlushFires, InputType
<1>6. CASE BadFrame
  <2>1. <<>> \in Seq(Char)
    OBVIOUS
  <2> QED BY <1>4, <1>6, <2>1 DEF BadFrame
<1>7. ASSUME NEW m, PacketArrives(m) PROVE Kept'
  BY <1>1, <1>7 DEF PacketArrives
<1>8. CASE PacketHandled
  BY <1>1, <1>8 DEF PacketHandled
<1>9. CASE WarningHandled
  BY <1>1, <1>9 DEF WarningHandled
<1>10. ASSUME NEW z \in Size, LayoutChanges(z) PROVE Kept'
  <2>1. size' = z /\ z # None /\ UNCHANGED <<attached, frame, wire, ptysize>>
    BY <1>10, SizeAssumption DEF LayoutChanges
  <2>2. CASE first
    <3>1. SendResize(z)
      BY <1>10, <2>2 DEF LayoutChanges
    <3>2. missed' = TRUE \/ Way(z)'
      BY <1>0, <2>1, <3>1, SendsReport
    <3> QED BY <2>1, <3>2 DEF Kept
  <2>3. CASE ~first /\ pinch
    <3>1. pending' = z
      BY <1>10, <2>3 DEF LayoutChanges
    <3> QED BY <2>1, <3>1 DEF Kept
  <2>4. CASE ~first /\ ~pinch
    <3>1. debounce' = z
      BY <1>10, <2>4 DEF LayoutChanges
    <3> QED BY <2>1, <3>1 DEF Kept
  <2> QED BY <2>2, <2>3, <2>4
<1>11. ASSUME NEW z \in Size, z = size, SendResize(z), UNCHANGED <<wire, ptysize, size>>
       PROVE  Kept'
  <2>1. missed' = TRUE \/ Way(z)'
    BY <1>0, <1>11, SendsReport
  <2>2. size' = z
    BY <1>11
  <2> QED BY <2>1, <2>2 DEF Kept
<1>12. CASE DebounceFires
  <2>1. debounce \in Size /\ debounce = size
    BY <1>0, <1>12 DEF DebounceFires, WindowType, Waiting
  <2>2. SendResize(debounce) /\ UNCHANGED <<wire, ptysize, size>>
    BY <1>12 DEF DebounceFires
  <2> QED BY <1>11, <2>1, <2>2
<1>13. CASE PostFrame
  <2>1. size \in Size /\ SendResize(size) /\ UNCHANGED <<wire, ptysize, size>>
    BY <1>0, <1>13 DEF PostFrame, WindowType
  <2> QED BY <1>11, <2>1
<1>14. CASE PinchStarts
  <2>1. CASE debounce # None \/ pending # None
    <3>1. missed' = TRUE
      BY <1>14, <2>1 DEF PinchStarts
    <3> QED BY <3>1 DEF Kept
  <2>2. CASE debounce = None /\ pending = None
    <3>1. UNCHANGED <<attached, frame, pending, debounce, size, jobs, wire, ptysize>>
      BY <1>14, <2>2 DEF PinchStarts
    <3>2. missed' = (missed \/ FALSE)
      BY <1>14, <2>2 DEF PinchStarts
    <3>3. missed' = missed
      BY <1>0, <3>2 DEF Flags
    <3> QED BY <1>1, <3>1, <3>3
  <2> QED BY <2>1, <2>2
<1>15. CASE PinchEnds
  <2>1. CASE pending = None
    <3>1. UNCHANGED <<attached, frame, missed, pending, debounce, size, jobs, wire, ptysize>>
      BY <1>15, <2>1 DEF PinchEnds
    <3> QED BY <1>1, <3>1
  <2>2. CASE pending # None
    BY <1>15, <2>2 DEF PinchEnds, Kept
  <2> QED BY <2>1, <2>2
<1>16. CASE UserConnects
  BY <1>16 DEF UserConnects, Kept
<1>17. CASE Reconnects
  <2>1. UNCHANGED <<attached, frame, missed, pending, debounce, size, wire, ptysize>>
    BY <1>17 DEF Reconnects, SessionBegins
  <2>2. \E j \in Job : jobs' = Append(jobs, j) /\ ~IsReport(j)
    BY <1>0, <1>17, Begins, BeginJob
  <2>3. Way(size) => Way(size)'
    BY <1>0, <2>1, <2>2, OtherJob
  <2> QED BY <1>0, <2>1, <2>3, KeptUnless
<1>18. CASE ConnectionLost
  <2>1. UNCHANGED <<attached, frame, pending, debounce, size>>
    BY <1>18 DEF ConnectionLost
  <2>2. missed' = missed \/ missed' = TRUE
    BY <1>0, <1>18 DEF ConnectionLost, Flags
  <2>3. Way(size) => missed' = TRUE \/ Way(size)'
    BY <1>0, <1>18, <2>1, LossKeepsWay
  <2> QED BY <1>0, <2>1, <2>2, <2>3, KeptUnless
<1>19. CASE UserDisconnects
  BY <1>19 DEF UserDisconnects, Kept
<1>20. CASE EncryptionDone
  <2>1. UNCHANGED <<attached, frame, pending, debounce, size>>
    BY <1>20 DEF EncryptionDone
  <2>2. missed' = missed \/ missed' = TRUE
    BY <1>0, <1>20 DEF EncryptionDone, Flags
  <2>3. Way(size) => missed' = TRUE \/ Way(size)'
    BY <1>0, <1>20, <2>1, EncryptedKeepsWay
  <2> QED BY <1>0, <2>1, <2>2, <2>3, KeptUnless
<1>21. CASE AgentReads
  <2>1. UNCHANGED <<attached, frame, pending, debounce, size>>
    BY <1>21 DEF AgentReads, AgentInput, AgentResizes, AgentIgnores
  <2>2. missed' = missed \/ missed' = TRUE
    <3>1. CASE AgentInput \/ AgentResizes
      BY <3>1 DEF AgentInput, AgentResizes
    <3>2. CASE AgentIgnores
      BY <1>0, <3>2 DEF AgentIgnores, Flags
    <3> QED BY <1>21, <3>1, <3>2 DEF AgentReads
  <2>3. Way(size) => missed' = TRUE \/ Way(size)'
    BY <1>0, <1>21, <2>1, ReadKeepsWay
  <2> QED BY <1>0, <2>1, <2>2, <2>3, KeptUnless
<1>22. CASE BridgeEnds
  BY <1>1, <1>22 DEF BridgeEnds
<1>23. CASE ShellReplaced
  <2>1. missed' = TRUE
    BY <1>23 DEF ShellReplaced
  <2> QED BY <2>1 DEF Kept
<1> QED
  BY <1>2, <1>3, <1>5, <1>6, <1>7, <1>8, <1>9, <1>10, <1>12, <1>13, <1>14, <1>15, <1>16, <1>17,
     <1>18, <1>19, <1>20, <1>21, <1>22, <1>23
  DEF Next, Input, Output, Window, Connection, Agent

(* What is on its way last is what Newest picks.                           *)
LEMMA WayIsNewest ==
  ASSUME NetType, Way(size), pending = None, debounce = None
  PROVE  Newest = size
<1> DEFINE b == Bodies(wire)
           nb == Len(b)
           nj == Len(jobs)
           I == {i \in DOMAIN Reports : Reports[i].kind = "resize"}
<1>1. b \in Seq(Job) /\ jobs \in Seq(Job) /\ nb \in Nat /\ nj \in Nat
        /\ DOMAIN b = 1 .. nb /\ DOMAIN jobs = 1 .. nj
  BY BodiesOf DEF NetType
<1>2. Reports = b \o jobs
  BY DEF Reports, Bodies
<1> HIDE DEF b, nb, nj
<1>3. /\ DOMAIN Reports = 1 .. nb + nj
      /\ \A k \in 1 .. nb : Reports[k] = b[k]
      /\ \A k \in 1 .. nj : Reports[nb + k] = jobs[k]
  BY <1>1, <1>2, ConcatParts DEF nb, nj
<1>4. \A k \in 1 .. nb + nj : k \in 1 .. nb \/ \E l \in 1 .. nj : k = nb + l
  <2> SUFFICES ASSUME NEW k \in 1 .. nb + nj, ~(k \in 1 .. nb)
               PROVE  \E l \in 1 .. nj : k = nb + l
    OBVIOUS
  <2>1. k - nb \in 1 .. nj /\ k = nb + (k - nb)
    BY <1>1
  <2> QED BY <2>1
<1>5. Newest = IF I = {} THEN ptysize
               ELSE Reports[CHOOSE i \in I : \A k \in I : k <= i].size
  BY DEF Newest
<1>6. ASSUME NEW i \in I, Reports[i].size = size, \A k \in I : k <= i PROVE Newest = size
  <2>1. \A l \in I : (\A k \in I : k <= l) => l = i
    <3> SUFFICES ASSUME NEW l \in I, \A k \in I : k <= l PROVE l = i
      OBVIOUS
    <3>1. l <= i /\ i <= l
      BY <1>6
    <3>2. l \in Nat /\ i \in Nat
      BY <1>1, <1>3
    <3> QED BY <3>1, <3>2
  <2>2. (CHOOSE l \in I : \A k \in I : k <= l) = i
    BY <1>6, <2>1
  <2> HIDE DEF I
  <2> QED BY <1>5, <1>6, <2>2
<1>7. CASE Has(jobs, size)
  <2>1. PICK i \in 1 .. nj :
          IsReport(jobs[i]) /\ jobs[i].size = size /\ \A k \in 1 .. nj : IsReport(jobs[k]) => k <= i
    BY <1>1, <1>7 DEF Has
  <2>2. nb + i \in 1 .. nb + nj /\ Reports[nb + i] = jobs[i]
    BY <1>1, <1>3
  <2>3. nb + i \in I
    BY <1>3, <2>1, <2>2 DEF IsReport
  <2>4. ASSUME NEW k \in I PROVE k <= nb + i
    <3>1. k \in 1 .. nb + nj /\ IsReport(Reports[k])
      BY <1>3 DEF IsReport
    <3>2. CASE k \in 1 .. nb
      BY <1>1, <3>2
    <3>3. CASE \E l \in 1 .. nj : k = nb + l
      <4>1. PICK l \in 1 .. nj : k = nb + l
        BY <3>3
      <4>2. l <= i
        BY <1>3, <2>1, <3>1, <4>1
      <4> QED BY <1>1, <4>1, <4>2
    <3> QED BY <1>4, <3>1, <3>2, <3>3
  <2>5. Reports[nb + i].size = size
    BY <2>1, <2>2
  <2> HIDE DEF I
  <2> QED BY <1>6, <2>3, <2>4, <2>5
<1>8. CASE HasNone(jobs) /\ Has(b, size)
  <2>1. PICK i \in 1 .. nb :
          IsReport(b[i]) /\ b[i].size = size /\ \A k \in 1 .. nb : IsReport(b[k]) => k <= i
    BY <1>1, <1>8 DEF Has
  <2>2. i \in 1 .. nb + nj /\ Reports[i] = b[i]
    BY <1>1, <1>3
  <2>3. i \in I
    BY <1>3, <2>1, <2>2 DEF IsReport
  <2>4. ASSUME NEW k \in I PROVE k <= i
    <3>1. k \in 1 .. nb + nj /\ IsReport(Reports[k])
      BY <1>3 DEF IsReport
    <3>2. ~\E l \in 1 .. nj : k = nb + l
      BY <1>1, <1>3, <1>8, <3>1 DEF HasNone
    <3>3. k \in 1 .. nb
      BY <1>4, <3>1, <3>2
    <3> QED BY <1>3, <2>1, <3>1, <3>3
  <2>5. Reports[i].size = size
    BY <2>1, <2>2
  <2> HIDE DEF I
  <2> QED BY <1>6, <2>3, <2>4, <2>5
<1>9. CASE HasNone(jobs) /\ HasNone(b) /\ ptysize = size
  <2>1. ASSUME NEW k \in 1 .. nb + nj PROVE ~IsReport(Reports[k])
    BY <1>1, <1>3, <1>4, <1>9 DEF HasNone
  <2>2. I = {}
    BY <1>3, <2>1 DEF IsReport
  <2> HIDE DEF I
  <2> QED BY <1>5, <1>9, <2>2
<1> QED BY <1>7, <1>8, <1>9 DEF Way, b

(* The last size wins: past timers, pinches and reconnections the newest   *)
(* size is stashed, waits, is on its way or has reached the PTY, but for   *)
(* the losses recorded (SizeOnItsWay).                                     *)
THEOREM LastSizeWins == Spec => []SizeOnItsWay
<1>1. SizeInv /\ Shape /\ [Next]_vars => SizeInv'
  BY WaitingStep, KeptStep DEF SizeInv, Shape
<1>2. SizeInv /\ Shape => SizeOnItsWay
  <2> SUFFICES ASSUME SizeInv, Shape, attached /\ ~frame /\ ~missed PROVE Newest = size
    BY DEF SizeOnItsWay
  <2>1. CASE pending # None
    BY <2>1 DEF Newest, SizeInv, Waiting
  <2>2. CASE pending = None /\ debounce # None
    BY <2>2 DEF Newest, SizeInv, Waiting
  <2>3. CASE pending = None /\ debounce = None
    <3>1. Way(size)
      BY <2>3 DEF SizeInv, Kept
    <3> QED BY <2>3, <3>1, WayIsNewest DEF Shape
  <2> QED BY <2>1, <2>2, <2>3
<1> QED BY ShapeAlways, SizeInvInit, <1>1, <1>2, PTL DEF Spec
=============================================================================
