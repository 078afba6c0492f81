------------------------------- MODULE WsClient -------------------------------
(***************************************************************************)
(* The app's connection service                                            *)
(* (lib/services/websocket/websocket_service.dart) with what drives it:    *)
(* the dashboard's connect, the terminal screen's disconnect, the life     *)
(* cycle observer of lib/app.dart, and the attachment of                   *)
(* terminal_service.dart.                                                  *)
(*                                                                         *)
(* Dart runs one callback at a time, to the next await.  A step is what    *)
(* runs from one event to the awaits it leads to.  An attempt to connect   *)
(* goes through several awaits and may still be under way when the next    *)
(* one begins: attempts share the channel, the message stream and          *)
(* _pendingHmacVerification.                                               *)
(*                                                                         *)
(* Attempts are numbered; the number also stands for the attempt's channel *)
(* and for the secret it encapsulates.  The relay and the agent may close, *)
(* be silent, and send offers at any time; an HMAC is one for a secret     *)
(* whose ciphertext was sent, or for none.                                 *)
(*                                                                         *)
(* Def_Slip is Def with one plausible coding slip.                         *)
(***************************************************************************)
EXTENDS Integers, Sequences, SequencesExt

CONSTANT MaxTry   \* bound on the attempts to connect

ASSUME MaxTryAssumption == MaxTry \in Nat \ {0}

Try == 1 .. MaxTry

VARIABLES
  channel,   \* _channel, 0 for null
  sub,       \* the channel _subscription listens to, or 0
  live,      \* channels whose events still reach the app
  key,       \* _crypto and _sessionId, set and cleared together: a secret or 0
  url,       \* _lastUrl is known
  pin,       \* _lastPin is known
  auto,      \* _autoReconnectEnabled
  timer,     \* _reconnectTimer is running
  tried,     \* attempts begun
  stage,     \* where each attempt is
  manual,    \* the attempts made by the user
  mounted,   \* ... from the dashboard that is shown
  ears,      \* attempts that listen for an HMAC, in order, timed out ones too
  got,       \* the secret an attempt took from _pendingHmacVerification
  valid,     \* ... and whether the HMAC it took with it is the secret's
  sent,      \* secrets whose ciphertext was sent
  confirmed, \* history: secrets for which an HMAC came
  fg,        \* the app is in the foreground
  screen,    \* dashboard or terminal
  status,    \* SessionState.status
  attached,  \* the terminal has its callbacks and its subscription
  hears      \* subscriptions of the terminal to the message stream

socket   == <<channel, sub, live, key>>
settings == <<url, pin, auto, timer>>
tries    == <<tried, stage, manual, ears, got, valid, sent, confirmed>>
ui       == <<mounted, fg, screen, status, attached, hears>>
vars     == <<socket, settings, tries, ui>>

Stage == {"unused", "connecting", "deriving", "offer", "encapsulating",
          "hmac", "verifying", "done", "failed"}
Under(s) == {t \in Try : stage[t] = s}
InProgress == {t \in Try : stage[t] \notin {"unused", "done", "failed"}}

-----------------------------------------------------------------------------
Init ==
  /\ channel = 0 /\ sub = 0 /\ live = {} /\ key = 0
  /\ url = FALSE /\ pin = FALSE /\ auto = FALSE /\ timer = FALSE
  /\ tried = 0 /\ stage = [t \in Try |-> "unused"] /\ manual = {} /\ ears = <<>>
  /\ got = [t \in Try |-> 0] /\ valid = {} /\ sent = {} /\ confirmed = {}
  /\ mounted = {} /\ fg = TRUE /\ screen = "dashboard" /\ status = "disconnected"
  /\ attached = FALSE /\ hears = 0

(* _cleanupChannel: nothing of the current subscription and channel stays. *)
CleanupChannel ==
  channel' = 0 /\ key' = 0 /\ sub' = 0 /\ live' = live \ {sub}

(* disconnect: no more reconnections, and the credentials are forgotten.   *)
Forgotten ==
  /\ CleanupChannel
  /\ auto' = FALSE /\ timer' = FALSE /\ url' = FALSE /\ pin' = FALSE

Rescheduled_Unchecked(enabled) == enabled \/ timer

(* _scheduleReconnect, when auto-reconnect is enabled: a running timer is  *)
(* replaced; without credentials nothing happens.                          *)
Rescheduled(enabled) == (enabled /\ url /\ pin) \/ timer

Fail_NoRetry(S, enabled) ==
  /\ stage' = [t \in Try |-> IF t \in S THEN "failed" ELSE stage[t]]
  /\ IF S \cap manual # {}
     THEN Forgotten /\ status' = "disconnected"
     ELSE UNCHANGED <<socket, settings, status>>

(* The attempts of S fail: a reconnection catches that and schedules the   *)
(* next, the dashboard disconnects (of several, whatever the order, the    *)
(* disconnect has the last word).                                          *)
Fail(S, enabled) ==
  /\ stage' = [t \in Try |-> IF t \in S THEN "failed" ELSE stage[t]]
  /\ IF S \cap manual # {}
     THEN Forgotten /\ status' = "disconnected"
     ELSE /\ timer' = Rescheduled(enabled)
          /\ UNCHANGED <<socket, url, pin, auto, status>>

(* connect, up to its await.                                               *)
Begin ==
  /\ tried < MaxTry
  /\ tried' = tried + 1
  /\ stage' = [stage EXCEPT ![tried + 1] = "connecting"]
  /\ timer' = FALSE /\ url' = TRUE
  /\ CleanupChannel
  /\ UNCHANGED <<pin, auto, ears, got, valid, sent, confirmed>>

(* The user connects.  The button is off while an attempt runs, but the    *)
(* enter key of the PIN pad calls _connect just the same.                  *)
ConnectPressed ==
  /\ fg /\ screen = "dashboard"
  /\ Begin
  /\ manual' = manual \cup {tried + 1} /\ mounted' = mounted \cup {tried + 1}
  /\ status' = "connecting"
  /\ UNCHANGED <<fg, screen, attached, hears>>

(* The reconnect timer fires.                                              *)
TimerFires ==
  /\ timer
  /\ Begin
  /\ UNCHANGED <<manual, ui>>

(* The connection is made: auto-reconnect is on, whatever happened during  *)
(* the await, and the handshake begins by deriving the key from the PIN,   *)
(* which a disconnect may have taken away.                                 *)
Connected(t) ==
  /\ stage[t] = "connecting"
  /\ channel' = t /\ sub' = t /\ live' = live \cup {t}
  /\ auto' = TRUE
  /\ pin' = (pin \/ t \in manual)
  /\ stage' = [stage EXCEPT ![t] = IF pin' THEN "deriving" ELSE "failed"]
  /\ status' = IF t \in manual THEN "connecting" ELSE status
  /\ UNCHANGED <<key, url, timer, tried, manual, ears, got, valid, sent, confirmed,
                 mounted, fg, screen, attached, hears>>

ConnectFails(t) ==
  /\ stage[t] = "connecting"
  /\ Fail({t}, auto)
  /\ UNCHANGED <<tried, manual, ears, got, valid, sent, confirmed,
                 mounted, fg, screen, attached, hears>>

-----------------------------------------------------------------------------
(* performHandshake.                                                       *)

(* Key and room id are there: the join goes to the channel of the moment.  *)
Derived(t) ==
  /\ stage[t] = "deriving"
  /\ stage' = [stage EXCEPT ![t] = "offer"]
  /\ UNCHANGED <<socket, settings, tried, manual, ears, got, valid, sent, confirmed, ui>>

(* A key offer: every attempt that waits for one takes it.                 *)
OfferArrives ==
  /\ live # {} /\ Under("offer") # {}
  /\ stage' = [t \in Try |-> IF stage[t] = "offer" THEN "encapsulating" ELSE stage[t]]
  /\ UNCHANGED <<socket, settings, tried, manual, ears, got, valid, sent, confirmed, ui>>

(* The ciphertext goes to the channel of the moment, if there is one.      *)
Encapsulated(t) ==
  /\ stage[t] = "encapsulating"
  /\ stage' = [stage EXCEPT ![t] = "hmac"]
  /\ ears' = Append(ears, t)
  /\ sent' = IF channel = 0 THEN sent ELSE sent \cup {t}
  /\ UNCHANGED <<socket, settings, tried, manual, got, valid, confirmed, ui>>

Answered_NoBang(k, takers, losers) ==
  /\ got' = [t \in Try |-> IF t \in takers THEN Last(ears) ELSE got[t]]
  /\ valid' = IF k = Last(ears) THEN valid \cup takers ELSE valid \ takers
  /\ stage' = [t \in Try |-> IF t \in takers \cup losers THEN "verifying" ELSE stage[t]]
  /\ UNCHANGED <<socket, settings, status>>

(* The takers verify the HMAC for k against what the last listener stored, *)
(* the losers find null where the takers found that.                       *)
Answered(k, takers, losers) ==
  /\ got' = [t \in Try |-> IF t \in takers THEN Last(ears) ELSE got[t]]
  /\ valid' = IF k = Last(ears) THEN valid \cup takers ELSE valid \ takers
  /\ stage' = [t \in Try |-> CASE t \in takers -> "verifying"
                               [] t \in losers -> "failed"
                               [] OTHER -> stage[t]]
  /\ IF losers \cap manual # {}
     THEN Forgotten /\ status' = "disconnected"
     ELSE /\ timer' = (timer \/ (losers # {} /\ Rescheduled(auto)))
          /\ UNCHANGED <<socket, url, pin, auto, status>>

(* An HMAC, for the secret k or for none.  The callback of every listener  *)
(* stores its own secret in _pendingHmacVerification, those of timed out   *)
(* attempts among them; the last one wins.  Then the first attempt that    *)
(* waits takes what is stored, and the others find null and fail.          *)
HmacArrives(k) ==
  LET waiting == {t \in ToSet(ears) : stage[t] = "hmac"}
      takers  == {ears[i] : i \in {i \in DOMAIN ears :
                    /\ ears[i] \in waiting
                    /\ \A j \in 1 .. i - 1 : ears[j] \notin waiting}}
  IN  /\ live # {} /\ ears # <<>>
      /\ Answered(k, takers, waiting \ takers)
  /\ ears' = <<>>
  /\ confirmed' = confirmed \cup {k}
  /\ UNCHANGED <<tried, manual, sent, mounted, fg, screen, attached, hears>>

Verified_OwnSecret(t) ==
  /\ stage[t] = "verifying" /\ t \in valid
  /\ key' = t
  /\ stage' = [stage EXCEPT ![t] = "done"]
  /\ status' = "connected"
  /\ attached' = TRUE
  /\ hears' = IF t \in manual \/ ~attached THEN hears + 1 ELSE hears
  /\ IF t \in mounted THEN screen' = "terminal" /\ mounted' = {}
                      ELSE UNCHANGED <<screen, mounted>>
  /\ UNCHANGED <<channel, sub, live, settings,
                 tried, manual, ears, got, valid, sent, confirmed, fg>>

(* The HMAC is right: the session is encrypted, whatever became of the     *)
(* channel.  The dashboard attaches the terminal and goes to its screen,   *)
(* unless another attempt of its has gone there before; a reconnection     *)
(* attaches it only if it is not (reattachAfterReconnect).                 *)
Verified(t) ==
  /\ stage[t] = "verifying" /\ t \in valid
  /\ key' = got[t]
  /\ stage' = [stage EXCEPT ![t] = "done"]
  /\ status' = "connected"
  /\ attached' = TRUE
  /\ hears' = IF t \in manual \/ ~attached THEN hears + 1 ELSE hears
  /\ IF t \in mounted THEN screen' = "terminal" /\ mounted' = {}
                      ELSE UNCHANGED <<screen, mounted>>
  /\ UNCHANGED <<channel, sub, live, settings,
                 tried, manual, ears, got, valid, sent, confirmed, fg>>

Rejected(t) ==
  /\ stage[t] = "verifying" /\ t \notin valid
  /\ Fail({t}, auto)
  /\ UNCHANGED <<tried, manual, ears, got, valid, sent, confirmed,
                 mounted, fg, screen, attached, hears>>

(* 15 s without an offer, 10 s without an HMAC.  The listener stays.       *)
TimesOut(t) ==
  /\ stage[t] \in {"offer", "hmac"}
  /\ Fail({t}, auto)
  /\ UNCHANGED <<tried, manual, ears, got, valid, sent, confirmed,
                 mounted, fg, screen, attached, hears>>

-----------------------------------------------------------------------------
StreamDone_KeepsChannel(c) ==
  /\ c \in live
  /\ live' = live \ {c} /\ key' = 0
  /\ status' = "syncing"
  /\ timer' = Rescheduled(auto)
  /\ UNCHANGED <<channel, sub, url, pin, auto, tries, mounted, fg, screen, attached, hears>>

(* onDone of a subscription: _handleDisconnect, whichever channel it was.  *)
StreamDone(c) ==
  /\ c \in live
  /\ live' = live \ {c} /\ channel' = 0 /\ key' = 0
  /\ status' = "syncing"
  /\ timer' = Rescheduled(auto)
  /\ UNCHANGED <<sub, url, pin, auto, tries, mounted, fg, screen, attached, hears>>

(* onError: the error also goes to everybody who listens to the messages,  *)
(* which makes the attempts that wait for one fail.  onDone follows.       *)
StreamError(c) ==
  LET waiting == Under("offer") \cup Under("hmac")
  IN  /\ c \in live
      /\ ears' = <<>>
      /\ stage' = [t \in Try |-> IF t \in waiting THEN "failed" ELSE stage[t]]
      /\ IF waiting \cap manual # {} THEN Forgotten /\ status' = "disconnected"
         ELSE /\ channel' = 0 /\ key' = 0 /\ status' = "syncing"
              /\ timer' = Rescheduled(auto)
              /\ UNCHANGED <<sub, live, url, pin, auto>>
  /\ UNCHANGED <<tried, manual, got, valid, sent, confirmed,
                 mounted, fg, screen, attached, hears>>

-----------------------------------------------------------------------------
(* paused or hidden (one comes after the other): suppressReconnect.        *)
Paused ==
  /\ fg' = FALSE /\ auto' = FALSE /\ timer' = FALSE
  /\ UNCHANGED <<socket, url, pin, tries, mounted, screen, status, attached, hears>>

(* resumed: attemptReconnect if the session has no channel.                *)
Resumed ==
  /\ ~fg
  /\ fg' = TRUE
  /\ IF status \in {"connected", "syncing"} /\ channel = 0
     THEN /\ status' = "syncing"
          /\ auto' = (auto \/ (url /\ pin))
          /\ timer' = Rescheduled(TRUE)
     ELSE UNCHANGED <<status, auto, timer>>
  /\ UNCHANGED <<socket, url, pin, tries, mounted, screen, attached, hears>>

(* The user leaves the terminal: detach, disconnect.                       *)
DisconnectPressed ==
  /\ fg /\ screen = "terminal"
  /\ attached' = FALSE
  /\ hears' = IF attached THEN hears - 1 ELSE hears
  /\ Forgotten
  /\ status' = "disconnected" /\ screen' = "dashboard"
  /\ UNCHANGED <<tries, mounted, fg>>

-----------------------------------------------------------------------------
Attempt(t) ==
  \/ Connected(t) \/ ConnectFails(t) \/ Derived(t) \/ Encapsulated(t)
  \/ Verified(t) \/ Rejected(t) \/ TimesOut(t)

Next ==
  \/ ConnectPressed \/ TimerFires \/ DisconnectPressed \/ Paused \/ Resumed
  \/ \E t \in Try : Attempt(t)
  \/ OfferArrives
  \/ \E k \in sent \cup {0} : HmacArrives(k)
  \/ \E c \in live : StreamDone(c) \/ StreamError(c)

Spec == Init /\ [][Next]_vars

-----------------------------------------------------------------------------
(* The type invariant.  An attempt that verifies an HMAC has a secret to   *)
(* verify it against (the null check of _pendingHmacVerification, an await *)
(* after the listener that filled it); a terminal with callbacks listens.  *)
TypeOK ==
  /\ {channel, sub, key} \subseteq Try \cup {0} /\ live \subseteq Try
  /\ {url, pin, auto, timer, fg, attached} \subseteq BOOLEAN
  /\ tried \in 0 .. MaxTry /\ mounted \subseteq manual /\ manual \subseteq Try
  /\ stage \in [Try -> Stage]
  /\ ears \in Seq(Try)
  /\ got \in [Try -> Try \cup {0}] /\ valid \subseteq Try
  /\ sent \subseteq Try /\ confirmed \subseteq Try \cup {0}
  /\ screen \in {"dashboard", "terminal"}
  /\ status \in {"disconnected", "connecting", "connected", "syncing"}
  /\ hears \in Nat /\ (attached => hears > 0)
  /\ \A t \in Under("verifying") : got[t] # 0

(* The app encrypts only under a secret for which an HMAC came, even when  *)
(* attempts overlap, share _pendingHmacVerification, or have timed out     *)
(* with their listeners in place (performHandshake, step 6).               *)
VerifiedKey == key # 0 => key \in confirmed

(* While the service says that it is connected, the events of that very    *)
(* channel reach it: its end cannot go unnoticed (isConnected, which the   *)
(* resume decides by, is _channel != null).                                *)
HearsItsChannel == channel # 0 => sub = channel /\ channel \in live

(* A running timer finds what its callback takes without asking,           *)
(* _lastUrl! and _lastPin!, and no reconnection was suppressed since it    *)
(* was set.                                                                *)
TimerHasCredentials == timer => auto /\ url /\ pin

(* Without a channel, with auto-reconnect on and URL and PIN known, the    *)
(* next reconnection is scheduled or an attempt awaits its connection: no  *)
(* loss, failure or timeout of one of several attempts leaves the others'  *)
(* loss to nobody (the catch of _scheduleReconnect's callback,             *)
(* _handleDisconnect, attemptReconnect, disconnect).                       *)
LossIsRetried ==
  auto /\ url /\ pin /\ channel = 0 => timer \/ Under("connecting") # {}

Retrying == timer \/ InProgress # {}

-----------------------------------------------------------------------------
(* What comments and README say, and the code does not do.                 *)

(* "The app will reconnect on resume instead" (websocket_service.dart:     *)
(* 107-109): on the terminal in the foreground, a missing channel is being *)
(* replaced.                                                               *)
NeverStranded == fg /\ screen = "terminal" /\ channel = 0 => Retrying

(* "Reads `_lastUrl` / `_lastPin` to retry without user input"             *)
(* (README.md:206): on the terminal, while auto-reconnect is enabled, a    *)
(* missing channel is being replaced.                                      *)
RetriesWithoutUser == screen = "terminal" /\ channel = 0 /\ auto => Retrying

(* The terminal takes each message once (attach listens again without      *)
(* cancelling the subscription it has).                                    *)
HeardOnce == hears <= 1

=============================================================================
