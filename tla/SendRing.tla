------------------------------- MODULE SendRing -------------------------------
(***************************************************************************)
(* How src/src/session/send_buffer keeps the window of module SendBuffer   *)
(* in a ring: the byte at absolute offset i lives in slot i % Cap, a write *)
(* or a read that passes the last slot is made in two pieces, and nothing  *)
(* is ever cleared.  `log' is history: the bytes appended in this output   *)
(* generation.                                                             *)
(***************************************************************************)
EXTENDS SendBuffer, Integers

CONSTANTS Cap,        \* Storage_.size()
          Bytes,      \* what a slot may hold
          MaxChunk,   \* bound on the bytes per call
          MaxEnd,     \* bound on the stream offset
          MaxGen      \* bound on output generations

ASSUME RingAssumption ==
    /\ Cap \in Nat /\ MaxChunk \in Nat /\ MaxEnd \in Nat /\ MaxGen \in Nat
    /\ Bytes # {}

VARIABLES slots,      \* Storage_
          base, end, next, gen,
          log

vars == <<slots, base, end, next, gen, log>>

Slots == 0 .. Cap - 1

RingRoom == Cap - (end - base)

Init ==
    /\ slots \in [Slots -> Bytes]
    /\ base = 0 /\ end = 0 /\ next = 0 /\ gen = 0 /\ log = <<>>

\* The pieces of a transfer of `take' bytes at slot `pos'.
FirstPiece(pos, take) == AtMost(take, Cap - pos)

\* Fault: the part past the last slot is dropped.
StoredOnePiece(bytes, pos, take) ==
    [s \in Slots |->
        IF pos <= s /\ s < pos + FirstPiece(pos, take)
        THEN bytes[s - pos + 1] ELSE slots[s]]

\* The slots after the first `take' of `bytes' went in at `pos'.
Stored(bytes, pos, take) ==
    LET first == FirstPiece(pos, take)
    IN [s \in Slots |->
          IF pos <= s /\ s < pos + first THEN bytes[s - pos + 1]
          ELSE IF s < take - first THEN bytes[first + s + 1]
          ELSE slots[s]]

\* Append: what fits, in one or two pieces.
RingAppend(bytes) ==
    /\ Cap # 0
    /\ LET take == AtMost(Len(bytes), RingRoom)
       IN /\ take # 0
          /\ slots' = Stored(bytes, end % Cap, take)
          /\ end' = end + take
          /\ log' = log \o SubSeq(bytes, 1, take)
    /\ UNCHANGED <<base, next, gen>>

\* Acknowledge, when it is neither stale nor beyond the end.
RingAcknowledge(ack) ==
    /\ base < ack /\ ack <= end
    /\ base' = ack
    /\ next' = IF next < ack THEN ack ELSE next
    /\ UNCHANGED <<slots, end, gen, log>>

\* ResetSendNext, when the peer's offset lies in the window.
RingResetSendNext(peer) ==
    /\ base <= peer /\ peer <= end
    /\ base' = peer /\ next' = peer
    /\ UNCHANGED <<slots, end, gen, log>>

RingAdvanceSendNext(n) ==
    /\ next' = AtMost(next + n, end)
    /\ UNCHANGED <<slots, base, end, gen, log>>

\* NewGeneration: the offsets restart, the slots keep what they held.
RingNewGeneration ==
    /\ gen < MaxGen
    /\ gen' = gen + 1
    /\ base' = 0 /\ end' = 0 /\ next' = 0 /\ log' = <<>>
    /\ UNCHANGED slots

Next ==
    \/ \E n \in 0..MaxChunk : \E bytes \in [1..n -> Bytes] :
           end + n <= MaxEnd /\ RingAppend(bytes)
    \/ \E k \in 0..end : RingAcknowledge(k) \/ RingResetSendNext(k)
    \/ \E n \in 1..MaxChunk : RingAdvanceSendNext(n)
    \/ RingNewGeneration

Spec == Init /\ [][Next]_vars

\* Fault: the second piece starts one slot late.
RingCopyOutSkips(from, n) ==
    IF Cap = 0 \/ from < base \/ from >= end THEN <<>>
    ELSE LET take  == AtMost(n, end - from)
             pos   == from % Cap
             first == FirstPiece(pos, take)
         IN [i \in 1..take |->
               IF i <= first THEN slots[pos + i - 1] ELSE slots[i - first]]

\* CopyOut: up to n bytes from offset `from', read in one or two pieces.
RingCopyOut(from, n) ==
    IF Cap = 0 \/ from < base \/ from >= end THEN <<>>
    ELSE LET take  == AtMost(n, end - from)
             pos   == from % Cap
             first == FirstPiece(pos, take)
         IN [i \in 1..take |->
               IF i <= first THEN slots[pos + i - 1] ELSE slots[i - first - 1]]
-------------------------------------------------------------------------------
TypeOK ==
    /\ slots \in [Slots -> Bytes]
    /\ base \in Nat /\ end \in Nat /\ next \in Nat /\ gen \in Nat
    /\ log \in Seq(Bytes)

(***************************************************************************)
(* send_buffer.hpp, "Invariants maintained at every call boundary": Base   *)
(* <= SendNext <= End and the window is never larger than the storage.     *)
(***************************************************************************)
WindowInRing == base <= next /\ next <= end /\ end - base <= Cap

(***************************************************************************)
(* Every byte not yet acknowledged is in its slot: no append, however it   *)
(* wraps, overwrites a byte that may have to be resent, and what an older  *)
(* generation left in the slots is never taken for a byte of this one.     *)
(***************************************************************************)
RingHoldsWindow ==
    /\ Len(log) = end
    /\ \A i \in base .. end - 1 : slots[i % Cap] = log[i + 1]

\* The buffer of module SendBuffer this ring stands for.
Buffer == [log |-> log, base |-> base, next |-> next, gen |-> gen,
           overflowed |-> FALSE]

(***************************************************************************)
(* A read of any part of the window, in whichever pieces, returns the      *)
(* bytes of the stream: CopyOut on the ring is CopyOut on the log.         *)
(***************************************************************************)
CopyOutIsExact ==
    \A from \in 0..end : \A n \in 0..MaxChunk :
        RingCopyOut(from, n) = CopyOut(Buffer, from, n)
===============================================================================
