------------------------------ MODULE RingBuffer ------------------------------
(***************************************************************************)
(* The agent's replay buffer (backend/agent/src/ring_buffer.rs) with the   *)
(* sequence counter that numbers its packets and the sync request that     *)
(* reads it (backend/agent/src/session.rs).  A packet is its number and    *)
(* its byte_size(); the payload itself is never looked at by this code.    *)
(*                                                                         *)
(* log and reply.upto are history: every packet pushed since the buffer    *)
(* was created, and the counter when a request was answered.  The code     *)
(* keeps only buf, current_bytes and the counter.                          *)
(*                                                                         *)
(* A definition with a suffix, Def_Slip, is Def with one plausible coding  *)
(* slip; it is not part of the specification.  Each property is seen to    *)
(* fail when one of them takes the place of its Def.                       *)
(***************************************************************************)
EXTENDS Integers, Sequences, FiniteSetsExt

CONSTANTS
  MaxBytes,  \* max_bytes, RING_BUFFER_SIZE
  Sizes,     \* the byte_size() values of packets: at most 4096 + 3 + 16
  MaxSeq     \* bound on the number of packets pushed into one buffer

(* A PTY read returns at most 4096 bytes (session.rs:160) and the buffer   *)
(* holds 2 MiB, so no single packet exceeds it.                            *)
ASSUME SizesAssumption ==
  /\ MaxBytes \in Nat
  /\ Sizes \subseteq 1 .. MaxBytes

ASSUME MaxSeqAssumption == MaxSeq \in Nat

VARIABLES
  buf,           \* buf: the packets kept, oldest first
  currentBytes,  \* current_bytes
  seq,           \* the session's AtomicU64: number of the newest packet
  log,           \* history: every packet pushed
  reply          \* the answer to the last sync request

vars == <<buf, currentBytes, seq, log, reply>>

Packet == [seq : 1 .. MaxSeq, size : Sizes]
NoGap == <<>>
NoReply == [last |-> 0, upto |-> 0, packets |-> {}, dropped |-> NoGap]

(* The sum of byte_size() over a sequence of packets.                      *)
Bytes(s) ==
  LET sum[i \in 0 .. Len(s)] == IF i = 0 THEN 0 ELSE sum[i - 1] + s[i].size
  IN  sum[Len(s)]

Evictions_AtLimit(s, total) ==
  Min({n \in 0 .. Len(s) :
         n = Len(s) \/ total - Bytes(SubSeq(s, 1, n)) < MaxBytes})

(* How many packets the while loop of push pops from the front of s when   *)
(* the byte counter stands at total: the fewest that make the rest fit.    *)
Evictions(s, total) ==
  Min({n \in 0 .. Len(s) :
         n = Len(s) \/ total - Bytes(SubSeq(s, 1, n)) <= MaxBytes})

Push_NoRefund(p) ==
  LET all   == Append(buf, p)
      total == currentBytes + p.size
  IN  /\ buf' = SubSeq(all, Evictions(all, total) + 1, Len(all))
      /\ currentBytes' = total

Push_PopBack(p) ==
  LET all   == Append(buf, p)
      total == currentBytes + p.size
      n     == Evictions(all, total)
  IN  /\ buf' = SubSeq(all, 1, Len(all) - n)
      /\ currentBytes' = Bytes(SubSeq(all, 1, Len(all) - n))

(* push: count the packet, append it, pop the oldest while over capacity.  *)
Push(p) ==
  LET all   == Append(buf, p)
      total == currentBytes + p.size
      n     == Evictions(all, total)
  IN  /\ buf' = SubSeq(all, n + 1, Len(all))
      /\ currentBytes' = total - Bytes(SubSeq(all, 1, n))

PacketsAfter_Inclusive(last) ==
  {buf[i] : i \in {j \in DOMAIN buf : buf[j].seq >= last}}

(* packets_since, first component: the kept packets numbered after last.   *)
PacketsAfter(last) == {buf[i] : i \in {j \in DOMAIN buf : buf[j].seq > last}}

DroppedAfter_OffByOne(last) ==
  IF buf # <<>> /\ last + 1 < buf[1].seq
  THEN <<last + 1, buf[1].seq>>
  ELSE NoGap

(* packets_since, second component: the gap before oldest_seq().           *)
DroppedAfter(last) ==
  IF buf # <<>> /\ last + 1 < buf[1].seq
  THEN <<last + 1, buf[1].seq - 1>>
  ELSE NoGap

-----------------------------------------------------------------------------
Init ==
  /\ buf = <<>>
  /\ currentBytes = 0
  /\ seq = 0
  /\ log = <<>>
  /\ reply = NoReply

Produce_OldCounter(s) ==
  LET p == [seq |-> seq, size |-> s]
  IN  /\ seq < MaxSeq
      /\ seq' = seq + 1
      /\ Push(p)
      /\ log' = Append(log, p)
      /\ UNCHANGED reply

(* One chunk of PTY output: the waiting loop and the bridge both number it *)
(* with the counter and push it.                                           *)
Produce(s) ==
  LET p == [seq |-> seq + 1, size |-> s]
  IN  /\ seq < MaxSeq
      /\ seq' = seq + 1
      /\ Push(p)
      /\ log' = Append(log, p)
      /\ UNCHANGED reply

(* handle_sync_req: the client asks for everything after last.             *)
Sync(last) ==
  /\ reply' = [last |-> last, upto |-> seq,
               packets |-> PacketsAfter(last), dropped |-> DroppedAfter(last)]
  /\ UNCHANGED <<buf, currentBytes, seq, log>>

(* The next run() of the session creates a new buffer and a new counter.   *)
Restart ==
  /\ buf' = <<>>
  /\ currentBytes' = 0
  /\ seq' = 0
  /\ log' = <<>>
  /\ reply' = NoReply

Next ==
  \/ \E s \in Sizes : Produce(s)
  \/ \E last \in 0 .. MaxSeq : Sync(last)
  \/ Restart

Spec == Init /\ [][Next]_vars

-----------------------------------------------------------------------------
(* The shapes of the state.  currentBytes is constrained by Accounting.    *)
TypeOK ==
  /\ seq \in 0 .. MaxSeq
  /\ buf \in Seq(Packet)
  /\ log \in Seq(Packet)
  /\ reply \in [last : 0 .. MaxSeq, upto : 0 .. MaxSeq,
                packets : SUBSET Packet, dropped : {NoGap} \cup (Nat \X Nat)]

(* current_bytes is the size of what is kept and never exceeds max_bytes:  *)
(* the subtraction in push neither drifts nor goes below zero.             *)
Accounting ==
  /\ currentBytes = Bytes(buf)
  /\ currentBytes <= MaxBytes

(* Eviction is no more eager than it has to be: with the youngest          *)
(* forgotten packet back in, the buffer would overflow.  In particular the *)
(* packet just pushed is always kept.                                      *)
EvictsOnlyWhenFull ==
  Len(buf) < Len(log) =>
    /\ buf # <<>>
    /\ Bytes(buf) + log[Len(log) - Len(buf)].size > MaxBytes

(* The buffer is the most recent part of what was pushed, numbered without *)
(* holes up to the counter.                                                *)
KeepsNewest ==
  /\ Len(log) = seq
  /\ \A i \in DOMAIN log : log[i].seq = i
  /\ Len(buf) <= Len(log)
  /\ \A i \in DOMAIN buf : buf[i] = log[Len(log) - Len(buf) + i]

(* An answer accounts for exactly the numbers from `last' to the newest of *)
(* the moment it was given: each is replayed or inside the reported gap,   *)
(* never both, and nothing else is (handle_sync_req, packets_since).       *)
InGap(n) == reply.dropped # NoGap /\ n \in reply.dropped[1] .. reply.dropped[2]
Replayed(n) == \E p \in reply.packets : p.seq = n
ReplyExact ==
  \A n \in 0 .. MaxSeq :
    /\ n \in (reply.last + 1) .. reply.upto <=> Replayed(n) \/ InGap(n)
    /\ ~(Replayed(n) /\ InGap(n))

(* The buffer with its counter does what ReplayLog promises: forgetting is *)
(* eviction, and base is how many packets of the log have left the buffer. *)
Promise == INSTANCE ReplayLog WITH
  log <- log, base <- Len(log) - Len(buf), answer <- reply
ImplementsReplayLog == Promise!Spec
=============================================================================
