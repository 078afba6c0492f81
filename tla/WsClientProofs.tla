--------------------------- MODULE WsClientProofs ---------------------------
(***************************************************************************)
(* The app's connection service keeps its invariants for any number of     *)
(* attempts.                                                               *)
(***************************************************************************)
EXTENDS WsClient, TLAPS

(* An HMAC that is right is right for a confirmed secret.                  *)
Genuine == \A t \in valid : got[t] \in confirmed

-----------------------------------------------------------------------------
(* The channel that the service has is always one it hears.                *)
LEMMA SocketStep ==
  ASSUME TypeOK, HearsItsChannel, [Next]_vars
  PROVE  HearsItsChannel'
<1> USE DEF HearsItsChannel
<1>1. ASSUME NEW S, NEW e, Fail(S, e) PROVE HearsItsChannel'
  BY <1>1 DEF Fail, Forgotten, CleanupChannel, socket
<1>2. CASE ConnectPressed \/ TimerFires \/ DisconnectPressed
  BY <1>2 DEF ConnectPressed, TimerFires, DisconnectPressed, Begin, Forgotten, CleanupChannel
<1>3. CASE Paused \/ Resumed \/ OfferArrives \/ UNCHANGED vars
  <2>1. UNCHANGED socket
    BY <1>3 DEF Paused, Resumed, OfferArrives, vars
  <2> QED BY <2>1 DEF socket
<1>4. ASSUME NEW t \in Try, Connected(t) PROVE HearsItsChannel'
  BY <1>4 DEF Connected
<1>5. ASSUME NEW t \in Try, ConnectFails(t) \/ Rejected(t) \/ TimesOut(t)
      PROVE  HearsItsChannel'
  BY <1>1, <1>5 DEF ConnectFails, Rejected, TimesOut
<1>6. ASSUME NEW t \in Try, Derived(t) \/ Encapsulated(t) \/ Verified(t)
      PROVE  HearsItsChannel'
  BY <1>6 DEF Derived, Encapsulated, Verified, socket
<1>7. ASSUME NEW k, HmacArrives(k) PROVE HearsItsChannel'
  BY <1>7 DEF HmacArrives, Answered, Forgotten, CleanupChannel, socket
<1>8. ASSUME NEW c, StreamDone(c) \/ StreamError(c) PROVE HearsItsChannel'
  BY <1>8 DEF StreamDone, StreamError, Forgotten, CleanupChannel
<1> QED
  BY <1>2, <1>3, <1>4, <1>5, <1>6, <1>7, <1>8 DEF Next, Attempt

(* A timer runs only with auto-reconnect on and the credentials known.     *)
LEMMA TimerStep ==
  ASSUME TypeOK, TimerHasCredentials, [Next]_vars
  PROVE  TimerHasCredentials'
<1> USE DEF TimerHasCredentials
<1>1. ASSUME NEW S, Fail(S, auto) PROVE TimerHasCredentials'
  BY <1>1 DEF Fail, Forgotten, Rescheduled
<1>2. CASE ConnectPressed \/ TimerFires \/ DisconnectPressed
  BY <1>2 DEF ConnectPressed, TimerFires, DisconnectPressed, Begin, Forgotten
<1>3. CASE Paused \/ OfferArrives \/ UNCHANGED vars
  BY <1>3 DEF Paused, OfferArrives, settings, vars
<1>4. CASE Resumed
  BY <1>4 DEF Resumed, Rescheduled
<1>5. ASSUME NEW t \in Try, Connected(t) PROVE TimerHasCredentials'
  BY <1>5 DEF Connected
<1>6. ASSUME NEW t \in Try, ConnectFails(t) \/ Rejected(t) \/ TimesOut(t)
      PROVE  TimerHasCredentials'
  BY <1>1, <1>6 DEF ConnectFails, Rejected, TimesOut
<1>7. ASSUME NEW t \in Try, Derived(t) \/ Encapsulated(t) \/ Verified(t)
      PROVE  TimerHasCredentials'
  BY <1>7 DEF Derived, Encapsulated, Verified, settings
<1>8. ASSUME NEW k, HmacArrives(k) PROVE TimerHasCredentials'
  BY <1>8 DEF HmacArrives, Answered, Forgotten, Rescheduled
<1>9. ASSUME NEW c, StreamDone(c) \/ StreamError(c) PROVE TimerHasCredentials'
  BY <1>9 DEF StreamDone, StreamError, Forgotten, Rescheduled
<1> QED
  BY <1>2, <1>3, <1>4, <1>5, <1>6, <1>7, <1>8, <1>9 DEF Next, Attempt

(* Who may take an HMAC: attempts that listen and wait for one.            *)
LEMMA Takers ==
  ASSUME TypeOK, NEW k, HmacArrives(k)
  PROVE  \E takers, losers \in SUBSET Under("hmac") :
           Answered(k, takers, losers) /\ ears # <<>> /\ takers \cap losers = {}
<1> DEFINE waiting == {t \in ToSet(ears) : stage[t] = "hmac"}
           takers  == {ears[i] : i \in {i \in DOMAIN ears :
                         /\ ears[i] \in waiting
                         /\ \A j \in 1 .. i - 1 : ears[j] \notin waiting}}
<1>1. ears # <<>> /\ Answered(k, takers, waiting \ takers)
  BY DEF HmacArrives
<1>2. waiting \subseteq Under("hmac")
  BY DEF TypeOK, ToSet, Under
<1>3. takers \subseteq waiting
  OBVIOUS
<1> QED BY <1>1, <1>2, <1>3

(* The session key is the secret of an HMAC that came.                     *)
LEMMA SecretStep ==
  ASSUME TypeOK, Genuine, VerifiedKey, [Next]_vars
  PROVE  Genuine' /\ VerifiedKey'
<1> USE DEF Genuine, VerifiedKey
<1> DEFINE Kept == UNCHANGED <<got, valid, confirmed>>
<1>1. Kept /\ key' \in {0, key} => Genuine' /\ VerifiedKey'
  OBVIOUS
<1>2. ASSUME NEW S, NEW e, Fail(S, e) PROVE key' \in {0, key}
  BY <1>2 DEF Fail, Forgotten, CleanupChannel, socket
<1>3. CASE ConnectPressed \/ TimerFires \/ DisconnectPressed
  BY <1>1, <1>3
  DEF ConnectPressed, TimerFires, DisconnectPressed, Begin, Forgotten, CleanupChannel, tries
<1>4. CASE Paused \/ Resumed \/ OfferArrives \/ UNCHANGED vars
  <2>1. Kept /\ UNCHANGED key
    BY <1>4 DEF Paused, Resumed, OfferArrives, vars, socket, tries
  <2> QED BY <2>1, <1>1
<1>5. ASSUME NEW t \in Try, Connected(t) PROVE Genuine' /\ VerifiedKey'
  BY <1>1, <1>5 DEF Connected
<1>6. ASSUME NEW t \in Try, ConnectFails(t) \/ Rejected(t) \/ TimesOut(t)
      PROVE  Genuine' /\ VerifiedKey'
  BY <1>1, <1>2, <1>6 DEF ConnectFails, Rejected, TimesOut
<1>7. ASSUME NEW t \in Try, Derived(t) \/ Encapsulated(t)
      PROVE  Genuine' /\ VerifiedKey'
  BY <1>1, <1>7 DEF Derived, Encapsulated, socket
<1>8. ASSUME NEW t \in Try, Verified(t) PROVE Genuine' /\ VerifiedKey'
  BY <1>8 DEF Verified
<1>9. ASSUME NEW k, HmacArrives(k) PROVE Genuine' /\ VerifiedKey'
  <2>1. PICK takers, losers \in SUBSET Under("hmac") : Answered(k, takers, losers)
    BY <1>9, Takers
  <2>2. confirmed' = confirmed \cup {k}
    BY <1>9 DEF HmacArrives
  <2>3. takers \subseteq Try /\ valid \subseteq Try
    BY DEF Under, TypeOK
  <2>4. Genuine'
    BY <2>1, <2>2, <2>3 DEF Answered
  <2>5. key' \in {0, key}
    BY <2>1 DEF Answered, Forgotten, CleanupChannel, socket
  <2> QED BY <2>2, <2>4, <2>5
<1>10. ASSUME NEW c, StreamDone(c) \/ StreamError(c) PROVE Genuine' /\ VerifiedKey'
  BY <1>1, <1>10 DEF StreamDone, StreamError, Forgotten, CleanupChannel, tries
<1> QED
  BY <1>3, <1>4, <1>5, <1>6, <1>7, <1>8, <1>9, <1>10 DEF Next, Attempt

-----------------------------------------------------------------------------
(* Every loss schedules, and so does the failure of what was scheduled,    *)
(* also when it is only one of several attempts that fails.                *)
LEMMA RetryStep ==
  ASSUME TypeOK, LossIsRetried, [Next]_vars
  PROVE  LossIsRetried'
<1> USE MaxTryAssumption DEF LossIsRetried, Under
<1> DEFINE Safe == channel' # 0 \/ ~auto' \/ timer'
<1>1. Safe => LossIsRetried'
  OBVIOUS
<1>2. ASSUME UNCHANGED <<channel, auto, url, pin, timer>>,
             \A t \in Try : stage[t] = "connecting" => stage'[t] = "connecting"
      PROVE  LossIsRetried'
  BY <1>2
<1>3. ASSUME NEW S, Fail(S, auto) PROVE LossIsRetried'
  <2>1. CASE S \cap manual # {}
    BY <1>1, <1>3, <2>1 DEF Fail, Forgotten
  <2>2. CASE S \cap manual = {} /\ auto /\ url /\ pin
    BY <1>1, <1>3, <2>2 DEF Fail, Rescheduled
  <2>3. CASE S \cap manual = {} /\ ~(auto /\ url /\ pin)
    BY <1>3, <2>3 DEF Fail
  <2> QED BY <2>1, <2>2, <2>3
<1>4. CASE ConnectPressed \/ TimerFires
  <2>1. tried + 1 \in Try /\ stage'[tried + 1] = "connecting"
    BY <1>4 DEF ConnectPressed, TimerFires, Begin, TypeOK, Try
  <2> QED BY <2>1
<1>5. CASE DisconnectPressed \/ Paused
  BY <1>1, <1>5 DEF DisconnectPressed, Paused, Forgotten
<1>6. CASE Resumed
  <2>1. CASE status \in {"connected", "syncing"} /\ channel = 0
    BY <1>1, <1>6, <2>1 DEF Resumed, Rescheduled
  <2>2. CASE ~(status \in {"connected", "syncing"} /\ channel = 0)
    BY <1>2, <1>6, <2>2 DEF Resumed, socket, tries
  <2> QED BY <2>1, <2>2
<1>7. CASE OfferArrives \/ UNCHANGED vars
  BY <1>2, <1>7 DEF OfferArrives, socket, settings, tries, vars, TypeOK
<1>8. ASSUME NEW t \in Try, Connected(t) PROVE LossIsRetried'
  BY <1>1, <1>8 DEF Connected, Try
<1>9. ASSUME NEW t \in Try, ConnectFails(t) \/ Rejected(t) \/ TimesOut(t)
      PROVE  LossIsRetried'
  BY <1>3, <1>9 DEF ConnectFails, Rejected, TimesOut
<1>10. ASSUME NEW t \in Try, Derived(t) \/ Encapsulated(t) \/ Verified(t)
       PROVE  LossIsRetried'
  BY <1>2, <1>10 DEF Derived, Encapsulated, Verified, socket, settings, TypeOK
<1>11. ASSUME NEW k, HmacArrives(k) PROVE LossIsRetried'
  <2>1. PICK takers, losers \in SUBSET Under("hmac") : Answered(k, takers, losers)
    BY <1>11, Takers
  <2>2. \A t \in Try : stage[t] = "connecting" => stage'[t] = "connecting"
    BY <2>1 DEF Answered
  <2>3. CASE losers \cap manual # {}
    BY <1>1, <2>1, <2>3 DEF Answered, Forgotten
  <2>4. CASE losers \cap manual = {}
    BY <2>1, <2>2, <2>4 DEF Answered, socket
  <2> QED BY <2>3, <2>4
<1>12. ASSUME NEW c, StreamDone(c) PROVE LossIsRetried'
  BY <1>1, <1>12 DEF StreamDone, Rescheduled
<1>13. ASSUME NEW c, StreamError(c) PROVE LossIsRetried'
  BY <1>1, <1>13 DEF StreamError, Forgotten, Rescheduled
<1> QED
  BY <1>4, <1>5, <1>6, <1>7, <1>8, <1>9, <1>10, <1>11, <1>12, <1>13 DEF Next, Attempt

-----------------------------------------------------------------------------
(* The parts of the type invariant.                                        *)
SocketType == {channel, sub, key} \subseteq Try \cup {0} /\ live \subseteq Try
FlagsType  == {url, pin, auto, timer} \subseteq BOOLEAN
TriesType  ==
  /\ tried \in 0 .. MaxTry /\ manual \subseteq Try
  /\ stage \in [Try -> Stage]
  /\ ears \in Seq(Try)
  /\ got \in [Try -> Try \cup {0}] /\ valid \subseteq Try
  /\ sent \subseteq Try /\ confirmed \subseteq Try \cup {0}
  /\ \A t \in Under("verifying") : got[t] # 0
UiType ==
  /\ mounted \subseteq manual
  /\ {fg, attached} \subseteq BOOLEAN
  /\ screen \in {"dashboard", "terminal"}
  /\ status \in {"disconnected", "connecting", "connected", "syncing"}
  /\ hears \in Nat /\ (attached => hears > 0)

Types == SocketType /\ FlagsType /\ TriesType /\ UiType

LEMMA TypeParts == TypeOK <=> Types
BY DEF TypeOK, Types, SocketType, FlagsType, TriesType, UiType

LEMMA TypeStep ==
  ASSUME Types, [Next]_vars
  PROVE  Types'
<1> USE MaxTryAssumption DEF Types
<1>1. ASSUME NEW S, Fail(S, auto),
             UNCHANGED <<tried, manual, ears, got, valid, sent, confirmed,
                         mounted, fg, screen, attached, hears>>
      PROVE  Types'
  <2>1. SocketType'
    BY <1>1 DEF Fail, SocketType, Forgotten, CleanupChannel, socket
  <2>2. FlagsType'
    BY <1>1 DEF Fail, FlagsType, Forgotten, Rescheduled
  <2>3. TriesType'
    BY <1>1 DEF Fail, TriesType, Stage, Under
  <2>4. UiType'
    BY <1>1 DEF Fail, UiType
  <2> QED BY <2>1, <2>2, <2>3, <2>4
<1>2. ASSUME Begin, manual' \subseteq manual \cup {tried + 1}
      PROVE  SocketType' /\ FlagsType' /\ TriesType'
  <2>1. SocketType'
    BY <1>2 DEF Begin, SocketType, CleanupChannel
  <2>2. FlagsType'
    BY <1>2 DEF Begin, FlagsType
  <2>3. tried + 1 \in Try /\ tried + 1 \in 0 .. MaxTry
    BY <1>2 DEF Begin, TriesType, Try
  <2>4. TriesType'
    BY <1>2, <2>3 DEF Begin, TriesType, Stage, Under
  <2> QED BY <2>1, <2>2, <2>4
<1>3. CASE ConnectPressed \/ TimerFires
  <2>1. UiType'
    BY <1>3 DEF ConnectPressed, TimerFires, UiType, ui
  <2> QED BY <1>2, <1>3, <2>1 DEF ConnectPressed, TimerFires
<1>4. CASE DisconnectPressed
  <2>1. SocketType' /\ FlagsType'
    BY <1>4 DEF DisconnectPressed, Forgotten, CleanupChannel, SocketType, FlagsType
  <2>2. TriesType'
    BY <1>4 DEF DisconnectPressed, tries, TriesType, Under
  <2>3. UiType'
    <3>1. hears' \in Nat
      BY <1>4 DEF DisconnectPressed, UiType
    <3>2. fg' = fg /\ attached' = FALSE /\ screen' = "dashboard" /\ status' = "disconnected"
      BY <1>4 DEF DisconnectPressed
    <3>3. UNCHANGED <<manual, mounted>>
      BY <1>4 DEF DisconnectPressed, tries
    <3> QED BY <3>1, <3>2, <3>3 DEF UiType
  <2> QED BY <2>1, <2>2, <2>3
<1>5. CASE Paused \/ Resumed \/ UNCHANGED vars
  <2>1. UNCHANGED <<socket, tries>>
    BY <1>5 DEF Paused, Resumed, vars
  <2>2. SocketType' /\ TriesType'
    BY <2>1 DEF socket, tries, SocketType, TriesType, Under
  <2>3. FlagsType'
    BY <1>5 DEF Paused, Resumed, Rescheduled, vars, settings, FlagsType
  <2>4. UiType'
    <3>1. UNCHANGED <<manual, mounted, screen, attached, hears>>
      BY <1>5 DEF Paused, Resumed, vars, tries, ui
    <3>2. fg' \in {fg, TRUE, FALSE} /\ status' \in {status, "syncing"}
      BY <1>5 DEF Paused, Resumed, vars, ui
    <3> QED BY <3>1, <3>2 DEF UiType
  <2> QED BY <2>2, <2>3, <2>4
<1>6. ASSUME NEW t \in Try, OfferArrives \/ Derived(t) \/ Encapsulated(t)
      PROVE  Types'
  <2>1. UNCHANGED <<socket, settings, ui>>
    BY <1>6 DEF OfferArrives, Derived, Encapsulated
  <2>2. SocketType' /\ FlagsType' /\ UiType'
    BY <1>6, <2>1 DEF OfferArrives, Derived, Encapsulated,
                      socket, settings, ui, SocketType, FlagsType, UiType
  <2>3. TriesType'
    <3>1. CASE OfferArrives
      BY <3>1 DEF OfferArrives, TriesType, Stage, Under
    <3>2. CASE Derived(t)
      BY <3>2 DEF Derived, TriesType, Stage, Under
    <3>3. CASE Encapsulated(t)
      BY <3>3 DEF Encapsulated, TriesType, Stage, Under
    <3> QED BY <1>6, <3>1, <3>2, <3>3
  <2> QED BY <2>2, <2>3
<1>7. ASSUME NEW t \in Try, Connected(t) PROVE Types'
  <2>1. SocketType' /\ FlagsType' /\ UiType'
    BY <1>7 DEF Connected, SocketType, FlagsType, UiType
  <2>2. TriesType'
    BY <1>7 DEF Connected, TriesType, Stage, Under
  <2> QED BY <2>1, <2>2
<1>8. ASSUME NEW t \in Try, ConnectFails(t) \/ Rejected(t) \/ TimesOut(t)
      PROVE  Types'
  BY <1>1, <1>8 DEF ConnectFails, Rejected, TimesOut
<1>9. ASSUME NEW t \in Try, Verified(t) PROVE Types'
  <2>1. SocketType' /\ FlagsType'
    BY <1>9 DEF Verified, settings, SocketType, FlagsType, TriesType
  <2>2. UiType'
    BY <1>9 DEF Verified, UiType
  <2>3. TriesType'
    BY <1>9 DEF Verified, TriesType, Stage, Under
  <2> QED BY <2>1, <2>2, <2>3
<1>10. ASSUME NEW k \in sent \cup {0}, HmacArrives(k) PROVE Types'
  <2>1. PICK takers, losers \in SUBSET Under("hmac") :
          Answered(k, takers, losers) /\ ears # <<>> /\ takers \cap losers = {}
    BY <1>10, Takers, TypeParts
  <2>2. Last(ears) \in Try /\ Last(ears) # 0
    BY <2>1 DEF TriesType, Last, Try
  <2>3. UNCHANGED <<tried, manual, sent, mounted, fg, screen, attached, hears>>
        /\ ears' = <<>> /\ confirmed' = confirmed \cup {k}
    BY <1>10 DEF HmacArrives
  <2>4. SocketType'
    BY <2>1 DEF Answered, Forgotten, CleanupChannel, socket, SocketType
  <2>5. FlagsType'
    BY <2>1 DEF Answered, Forgotten, Rescheduled, FlagsType
  <2>6. UiType'
    BY <2>1, <2>3 DEF Answered, UiType
  <2>7. stage' \in [Try -> Stage] /\ valid' \subseteq Try
    BY <2>1 DEF Answered, TriesType, Stage, Under
  <2>8. got' \in [Try -> Try \cup {0}] /\ \A t \in Under("verifying")' : got'[t] # 0
    BY <2>1, <2>2 DEF Answered, TriesType, Under
  <2>9. TriesType'
    BY <2>3, <2>7, <2>8 DEF TriesType
  <2> QED BY <2>4, <2>5, <2>6, <2>9
<1>11. ASSUME NEW c, StreamDone(c) \/ StreamError(c) PROVE Types'
  <2>1. SocketType'
    BY <1>11 DEF StreamDone, StreamError, Forgotten, CleanupChannel, SocketType
  <2>2. FlagsType'
    BY <1>11 DEF StreamDone, StreamError, Forgotten, Rescheduled, FlagsType
  <2>3. UiType'
    BY <1>11 DEF StreamDone, StreamError, tries, UiType
  <2>4. TriesType'
    <3>1. CASE StreamDone(c)
      BY <3>1 DEF StreamDone, tries, TriesType, Under
    <3>2. CASE StreamError(c)
      BY <3>2 DEF StreamError, TriesType, Stage, Under
    <3> QED BY <1>11, <3>1, <3>2
  <2> QED BY <2>1, <2>2, <2>3, <2>4
<1>12. Try # {}
  BY DEF Try
<1> QED
  BY <1>3, <1>4, <1>5, <1>6, <1>7, <1>8, <1>9, <1>10, <1>11, <1>12
  DEF Next, Attempt

-----------------------------------------------------------------------------
(* The inductive invariant.                                                *)
Inv ==
  /\ TypeOK /\ HearsItsChannel /\ TimerHasCredentials
  /\ Genuine /\ VerifiedKey /\ LossIsRetried

LEMMA Initially == Init => Inv
<1> SUFFICES ASSUME Init PROVE Inv
  OBVIOUS
<1> USE MaxTryAssumption DEF Init
<1>1. Types
  <2>1. SocketType /\ FlagsType
    BY DEF SocketType, FlagsType
  <2>2. UiType
    BY DEF UiType
  <2>3. ears \in Seq(Try) /\ stage \in [Try -> Stage] /\ got \in [Try -> Try \cup {0}]
    BY DEF Stage
  <2>4. Under("verifying") = {} /\ tried \in 0 .. MaxTry
    BY DEF Under
  <2> QED BY <2>1, <2>2, <2>3, <2>4 DEF Types, TriesType
<1>2. HearsItsChannel /\ TimerHasCredentials /\ Genuine /\ VerifiedKey /\ LossIsRetried
  BY DEF HearsItsChannel, TimerHasCredentials, Genuine, VerifiedKey, LossIsRetried
<1> QED BY <1>1, <1>2, TypeParts DEF Inv

LEMMA Invariance == Spec => []Inv
<1>1. Inv /\ [Next]_vars => Inv'
  <2> SUFFICES ASSUME Inv, [Next]_vars PROVE Inv'
    OBVIOUS
  <2>1. TypeOK'
    <3>1. Types'
      BY TypeStep, TypeParts DEF Inv
    <3> QED BY <3>1 DEF TypeOK, Types, SocketType, FlagsType, TriesType, UiType
  <2> QED BY <2>1, SocketStep, TimerStep, SecretStep, RetryStep DEF Inv
<1> QED BY <1>1, Initially, PTL DEF Spec

-----------------------------------------------------------------------------
(* The service's state always has its type: in particular an attempt       *)
(* verifies an HMAC against a secret that was stored, and a terminal with  *)
(* callbacks has a subscription to cancel.                                 *)
THEOREM TypeCorrect == Spec => []TypeOK
<1>1. Inv => TypeOK
  BY DEF Inv
<1> QED BY <1>1, Invariance, PTL

(* However attempts overlap on _pendingHmacVerification, the session key   *)
(* is the secret of an HMAC that came.                                     *)
THEOREM KeysConfirmed == Spec => []VerifiedKey
<1>1. Inv => VerifiedKey
  BY DEF Inv
<1> QED BY <1>1, Invariance, PTL

(* The service listens to the channel it has, whatever attempts replaced   *)
(* each other's channels during their awaits.                              *)
THEOREM ChannelHeard == Spec => []HearsItsChannel
<1>1. Inv => HearsItsChannel
  BY DEF Inv
<1> QED BY <1>1, Invariance, PTL

(* When the reconnect timer fires, URL and PIN are there (the null checks  *)
(* of lines 145 and 146 up to the first await).                            *)
THEOREM TimerSafe == Spec => []TimerHasCredentials
<1>1. Inv => TimerHasCredentials
  BY DEF Inv
<1> QED BY <1>1, Invariance, PTL

(* However many attempts overlap, the user's among them: without a         *)
(* channel, and with auto-reconnect on and URL and PIN known, the timer    *)
(* runs or an attempt awaits its connection.                               *)
THEOREM LossesRetried == Spec => []LossIsRetried
<1>1. Inv => LossIsRetried
  BY DEF Inv
<1> QED BY <1>1, Invariance, PTL
=============================================================================
