-------------------------------- MODULE Backoff --------------------------------
(***************************************************************************)
(* The delay before the app reconnects (_scheduleReconnect of              *)
(* lib/services/websocket/websocket_service.dart), as the 64-bit integers  *)
(* of the native platforms compute it: kReconnectInitial doubled per       *)
(* failure, modulo 2^64 and signed, capped at kReconnectMax.  A number of  *)
(* 64 bits is four limbs of 16 bits, the lowest first.  Who connects, and  *)
(* what is lost, is the subject of WsClient.                               *)
(***************************************************************************)
EXTENDS Integers

CONSTANT MaxTry   \* bound on _reconnectAttempts

kReconnectInitial == 1000   \* milliseconds
kReconnectMax == 30000

Limb == 1 .. 4
Radix == 2 ^ 16

VARIABLES
  online,  \* the app is connected
  tries,   \* _reconnectAttempts
  timer,   \* _reconnectTimer runs
  delay    \* for so many milliseconds, or less than 0

vars == <<online, tries, timer, delay>>

(* n * 2 and kReconnectInitial * 2^n, modulo 2^64.                         *)
Doubled(n) ==
  [i \in Limb |-> (2 * n[i] + (IF i > 1 THEN n[i - 1] \div (Radix \div 2) ELSE 0)) % Radix]
Product[n \in Nat] ==
  IF n = 0 THEN [i \in Limb |-> IF i = 1 THEN kReconnectInitial ELSE 0]
  ELSE Doubled(Product[n - 1])

Negative(n) == n[4] >= Radix \div 2

(* min(product, kReconnectMax), with -1 for what is less than 0.           *)
Capped(n) ==
  IF Negative(n) THEN -1
  ELSE IF (\E i \in 2 .. 4 : n[i] > 0) \/ n[1] > kReconnectMax THEN kReconnectMax
  ELSE n[1]

-----------------------------------------------------------------------------
Init == online = TRUE /\ tries = 0 /\ timer = FALSE /\ delay = 0

(* _scheduleReconnect with n failures behind it.                           *)
Schedule(n) ==
  /\ n < MaxTry
  /\ tries' = n + 1 /\ timer' = TRUE /\ delay' = Capped(Product[n])

(* _handleDisconnect, with auto-reconnect enabled.                         *)
Lost == online /\ online' = FALSE /\ Schedule(tries)

(* The callback of the timer: the handshake succeeds, or something throws. *)
Reconnected == timer /\ online' = TRUE /\ tries' = 0 /\ timer' = FALSE /\ UNCHANGED delay
ReconnectFails == timer /\ Schedule(tries) /\ UNCHANGED online

(* suppressReconnect in the background, attemptReconnect on the resume.    *)
Suppressed == timer /\ timer' = FALSE /\ UNCHANGED <<online, tries, delay>>
AttemptReconnect == ~online /\ Schedule(0) /\ UNCHANGED online

Next == Lost \/ Reconnected \/ ReconnectFails \/ Suppressed \/ AttemptReconnect
Spec == Init /\ [][Next]_vars

-----------------------------------------------------------------------------
(* However long the network is away, the app waits kReconnectInitial at    *)
(* least and kReconnectMax at most (the names of the two constants, and    *)
(* "reconnect backoff", as the README calls them).                         *)
WaitsWithinBounds == timer => delay \in kReconnectInitial .. kReconnectMax
=============================================================================
