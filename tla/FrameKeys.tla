------------------------------ MODULE FrameKeys ------------------------------
(***************************************************************************)
(* The keys of one direction of a connection (src/src/wire/sealed_frame):  *)
(* a FrameSealer at the sending end and a FrameOpener at the other, as     *)
(* values.  A key is the sequence of the subkey numbers it was derived     *)
(* with, so that two keys are equal when their derivations are.            *)
(*                                                                         *)
(* The counter is the nonce and is not sent: a frame opens when the opener *)
(* tries the key and the counter it was sealed with.                       *)
(***************************************************************************)
EXTENDS Naturals, Sequences

CONSTANTS LastEpoch,      \* 0xFF: the epoch is one byte on the wire
          FrameLimit,     \* MAX_FRAMES_PER_EPOCH
          ByteLimit       \* MAX_BYTES_PER_EPOCH

ASSUME KeyLimitsAssumption ==
    LastEpoch \in Nat \ {0} /\ FrameLimit \in Nat \ {0} /\ ByteLimit \in Nat \ {0}

ConnectionKey == <<>>

\* A Secret that holds no key, or was wiped.
NoKey == <<0>>

DeriveSubkey(key, number) == Append(key, number)

NewSealer == [key |-> ConnectionKey, epoch |-> 0, counter |-> 0, bytes |-> 0]

NewOpener == [key |-> ConnectionKey, epoch |-> 0, counter |-> 0,
              ready |-> FALSE, nextKey |-> NoKey, nextCounter |-> 0]

\* What the tag of a frame binds, and the plaintext inside.
Frame(s, plain) == [epoch |-> s.epoch, key |-> s.key, nonce |-> s.counter,
                    plain |-> plain]

Seal(s, plain, size) ==
    IF s.counter >= FrameLimit
    THEN [err |-> "RekeyRequired", sealer |-> s, frame |-> Frame(s, plain)]
    ELSE [err |-> "ok", frame |-> Frame(s, plain),
          sealer |-> [s EXCEPT !.counter = @ + 1, !.bytes = @ + size]]

NeedsRekey(s) == s.counter >= FrameLimit \/ s.bytes >= ByteLimit

\* Fault: the counter goes on under the next key.
RekeyCountsOn(s) ==
    IF s.epoch = LastEpoch THEN [err |-> "EpochsExhausted", sealer |-> s]
    ELSE [err |-> "ok",
          sealer |-> [s EXCEPT !.key = DeriveSubkey(@, s.epoch + 1),
                               !.epoch = @ + 1, !.bytes = 0]]

Rekey(s) ==
    IF s.epoch = LastEpoch THEN [err |-> "EpochsExhausted", sealer |-> s]
    ELSE [err |-> "ok",
          sealer |-> [key |-> DeriveSubkey(s.key, s.epoch + 1),
                      epoch |-> s.epoch + 1, counter |-> 0, bytes |-> 0]]

PrepareNext(o) ==
    IF o.ready \/ o.epoch = LastEpoch THEN o
    ELSE [o EXCEPT !.nextKey = DeriveSubkey(o.key, o.epoch + 1),
                   !.nextCounter = 0, !.ready = TRUE]

\* The next generation becomes the only one once a frame opened under it.
Confirmed(o) ==
    [key |-> o.nextKey, epoch |-> o.epoch + 1, counter |-> o.nextCounter + 1,
     ready |-> FALSE, nextKey |-> NoKey, nextCounter |-> 0]

OpenNext(o, f) ==
    LET p == PrepareNext(o)
    IN IF p.nextCounter >= FrameLimit THEN [err |-> "RekeyRequired", opener |-> p]
       ELSE IF f.key # p.nextKey \/ f.nonce # p.nextCounter
       THEN [err |-> "AuthenticationFailed", opener |-> p]
       ELSE [err |-> "ok", opener |-> Confirmed(p)]

OpenCurrent(o, f) ==
    IF o.counter >= FrameLimit THEN [err |-> "RekeyRequired", opener |-> o]
    ELSE IF f.key # o.key \/ f.nonce # o.counter
    THEN [err |-> "AuthenticationFailed", opener |-> o]
    ELSE [err |-> "ok", opener |-> [o EXCEPT !.counter = @ + 1]]

\* The current epoch or, modulo the width of the byte, the one after it.
Open(o, f) ==
    IF f.epoch = (o.epoch + 1) % (LastEpoch + 1) THEN OpenNext(o, f)
    ELSE IF f.epoch = o.epoch THEN OpenCurrent(o, f)
    ELSE [err |-> "AuthenticationFailed", opener |-> o]
=============================================================================
