------------------------------ MODULE ReplayLog ------------------------------
(***************************************************************************)
(* What the agent promises a reconnecting client about the shell's output: *)
(* every packet is numbered in the order it was read from the PTY, a       *)
(* prefix of the numbers may have been forgotten, and a request for        *)
(* everything after `last' is answered with exactly the remembered packets *)
(* after `last' and the exact range of the forgotten ones.                 *)
(***************************************************************************)
EXTENDS Integers, Sequences

CONSTANTS
  Sizes,     \* the sizes a packet of PTY output may have
  MaxSeq     \* bound on the number of packets of one session

VARIABLES
  log,       \* every packet since the session began, in order
  base,      \* the first `base' packets of log have been forgotten
  answer     \* the last answer: the request, the newest number of that
             \* moment, the packets, the gap

vars == <<log, base, answer>>

NoGap == <<>>
NoAnswer == [last |-> 0, upto |-> 0, packets |-> {}, dropped |-> NoGap]

Numbered(s) == [seq |-> Len(log) + 1, size |-> s]

(* The packets after `last' that are still remembered.                     *)
Remembered(last) == {log[i] : i \in {j \in (base + 1) .. Len(log) : j > last}}

(* The numbers after `last' that are forgotten, as a closed range.         *)
Forgotten(last) == IF last < base THEN <<last + 1, base>> ELSE NoGap

Init ==
  /\ log = <<>>
  /\ base = 0
  /\ answer = NoAnswer

(* A packet is read from the PTY; the newest packet is never forgotten.    *)
Produce(s) ==
  /\ Len(log) < MaxSeq
  /\ log' = Append(log, Numbered(s))
  /\ base' \in base .. Len(log)
  /\ UNCHANGED answer

Serve(last) ==
  /\ answer' = [last |-> last, upto |-> Len(log),
                packets |-> Remembered(last), dropped |-> Forgotten(last)]
  /\ UNCHANGED <<log, base>>

(* The agent's relay connection is replaced: numbering starts again.       *)
Restart ==
  /\ log' = <<>>
  /\ base' = 0
  /\ answer' = NoAnswer

Next ==
  \/ \E s \in Sizes : Produce(s)
  \/ \E last \in 0 .. MaxSeq : Serve(last)
  \/ Restart

Spec == Init /\ [][Next]_vars
=============================================================================
