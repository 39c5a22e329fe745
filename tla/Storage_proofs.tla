---------------------------- MODULE Storage_proofs ----------------------------
(***************************************************************************)
(* Proofs about the two stores that are edited in place.                   *)
(*                                                                         *)
(* The resend ring, for every capacity, byte set and bound: the            *)
(* conjunction IInv of the module's three state invariants is inductive;   *)
(* the only arithmetic it needs is that offsets less than Cap apart never  *)
(* share a slot (ModShift, StoredAt).                                      *)
(*                                                                         *)
(* The line of a screen, for every width: an edit keeps wide characters in *)
(* pairs.  The run Screen checks the same of whole screens of three        *)
(* columns.                                                                *)
(***************************************************************************)
EXTENDS SendRing, GridLine, TLAPS

-------------------------------------------------------------------------------
(* The ring *)

(***************************************************************************)
(* Division with remainder by the size of the ring.                        *)
(***************************************************************************)
LEMMA DivMod ==
    ASSUME NEW n \in Nat \ {0}, NEW i \in Nat
    PROVE  /\ i % n \in 0 .. n - 1
           /\ i \div n \in Int
           /\ i = n * (i \div n) + (i % n)
  <1>1. i % n \in 0 .. n - 1
    BY Z3
  <1>2. i = n * (i \div n) + (i % n) /\ i \div n \in Int
    BY Z3
  <1> QED BY <1>1, <1>2

(***************************************************************************)
(* The slot of an offset is determined by any way of writing it as a       *)
(* multiple of the ring's size plus a slot number.                         *)
(***************************************************************************)
LEMMA ModUnique ==
    ASSUME NEW n \in Nat \ {0}, NEW i \in Nat, NEW q \in Int, NEW r \in 0 .. n - 1,
           i = n * q + r
    PROVE  i % n = r
  <1> DEFINE d == (i \div n) - q
  <1>1. i % n \in 0 .. n - 1 /\ i \div n \in Int /\ i = n * (i \div n) + (i % n)
    BY DivMod
  <1>2. d \in Int /\ n * (i \div n) = n * q + n * d
    BY <1>1, Z3
  <1>3. n * d = r - (i % n)
    BY <1>1, <1>2
  <1> HIDE DEF d
  <1>4. d = 0
    <2>1. CASE d >= 1
      <3>1. n * d >= n
        BY <1>2, <2>1, Z3
      <3> QED BY <3>1, <1>1, <1>3
    <2>2. CASE d <= -1
      <3>1. n * d <= -n
        BY <1>2, <2>2, Z3
      <3> QED BY <3>1, <1>1, <1>3
    <2> QED BY <2>1, <2>2, <1>2
  <1>5. n * d = 0
    BY <1>4
  <1> QED BY <1>1, <1>3, <1>5

(***************************************************************************)
(* The slot of an offset i + k less than a whole ring further on: k slots  *)
(* further, or past the end of the ring and on from its start.             *)
(***************************************************************************)
LEMMA ModShift ==
    ASSUME NEW n \in Nat \ {0}, NEW i \in Nat, NEW k \in 0 .. n - 1
    PROVE  (i + k) % n = IF (i % n) + k < n THEN (i % n) + k ELSE (i % n) + k - n
  <1>1. i % n \in 0 .. n - 1 /\ i \div n \in Int /\ i = n * (i \div n) + (i % n)
    BY DivMod
  <1>2. CASE (i % n) + k < n
    <2>1. (i % n) + k \in 0 .. n - 1 /\ i + k \in Nat
          /\ i + k = n * (i \div n) + ((i % n) + k)
      BY <1>1, <1>2
    <2> QED BY <1>1, <1>2, <2>1, ModUnique
  <1>3. CASE ~ ((i % n) + k < n)
    <2>1. n * ((i \div n) + 1) = n * (i \div n) + n
      BY <1>1, Z3
    <2>2. (i % n) + k - n \in 0 .. n - 1 /\ i + k \in Nat /\ (i \div n) + 1 \in Int
      BY <1>1, <1>3
    <2>3. i + k = n * ((i \div n) + 1) + ((i % n) + k - n)
      BY <1>1, <2>1
    <2> QED BY <1>3, <2>2, <2>3, ModUnique
  <1> QED BY <1>2, <1>3

(***************************************************************************)
(* What Append leaves in the slot of the k-th offset from End_, in         *)
(* whichever pieces it wrote: byte k of the chunk while k < take, and what *)
(* was there before otherwise.                                             *)
(***************************************************************************)
LEMMA StoredAt ==
    ASSUME Cap \in Nat \ {0}, end \in Nat, NEW bytes, NEW take \in 0 .. Cap
    PROVE  \A k \in 0 .. Cap - 1 :
              Stored(bytes, end % Cap, take)[(end + k) % Cap]
                = IF k < take THEN bytes[k + 1] ELSE slots[(end + k) % Cap]
  <1> SUFFICES ASSUME NEW k \in 0 .. Cap - 1
               PROVE  Stored(bytes, end % Cap, take)[(end + k) % Cap]
                        = IF k < take THEN bytes[k + 1] ELSE slots[(end + k) % Cap]
    OBVIOUS
  <1> DEFINE pos == end % Cap
             s   == (end + k) % Cap
             first == FirstPiece(pos, take)
  <1>1. pos \in 0 .. Cap - 1
    BY DivMod
  <1>2. s = IF pos + k < Cap THEN pos + k ELSE pos + k - Cap
    BY ModShift
  <1>3. first = IF take <= Cap - pos THEN take ELSE Cap - pos
    BY DEF FirstPiece, AtMost
  <1>4. Stored(bytes, pos, take)
          = [t \in Slots |-> IF pos <= t /\ t < pos + first THEN bytes[t - pos + 1]
                             ELSE IF t < take - first THEN bytes[first + t + 1]
                             ELSE slots[t]]
    BY DEF Stored
  <1> HIDE DEF pos, s, first
  <1>5. s \in Slots /\ s \in Int /\ first \in Int
    BY <1>1, <1>2, <1>3 DEF Slots
  <1>6. Stored(bytes, pos, take)[s]
          = IF pos <= s /\ s < pos + first THEN bytes[s - pos + 1]
            ELSE IF s < take - first THEN bytes[first + s + 1] ELSE slots[s]
    BY <1>4, <1>5
  <1>7. CASE k < take
    <2>1. CASE pos + k < Cap
      <3>1. pos <= s /\ s < pos + first /\ s - pos + 1 = k + 1
        BY <1>1, <1>2, <1>3, <1>7, <2>1
      <3> QED BY <1>6, <1>7, <3>1 DEF pos, s
    <2>2. CASE ~ (pos + k < Cap)
      <3>1. ~ (pos <= s) /\ s < take - first /\ first + s + 1 = k + 1
        BY <1>1, <1>2, <1>3, <1>7, <2>2
      <3> QED BY <1>6, <1>7, <3>1 DEF pos, s
    <2> QED BY <2>1, <2>2
  <1>8. CASE ~ (k < take)
    <2>1. ~ (pos <= s /\ s < pos + first) /\ ~ (s < take - first)
      <3>1. CASE pos + k < Cap
        <4>1. s = pos + k /\ k >= take
          BY <1>1, <1>2, <1>8, <3>1
        <4>2. CASE take <= Cap - pos
          BY <1>1, <1>3, <4>1, <4>2
        <4>3. CASE ~ (take <= Cap - pos)
          BY <1>1, <1>3, <4>1, <4>3
        <4> QED BY <4>2, <4>3
      <3>2. CASE ~ (pos + k < Cap)
        <4>1. s = pos + k - Cap /\ s < pos /\ s >= 0
          BY <1>1, <1>2, <3>2
        <4>2. CASE take <= Cap - pos
          BY <1>1, <1>3, <1>8, <4>1, <4>2
        <4>3. CASE ~ (take <= Cap - pos)
          BY <1>1, <1>3, <1>8, <4>1, <4>3
        <4> QED BY <4>2, <4>3
      <3> QED BY <3>1, <3>2
    <2> QED BY <1>6, <1>8, <2>1 DEF pos, s
  <1> QED BY <1>7, <1>8

(***************************************************************************)
(* A whole ring further on is the same slot.                               *)
(***************************************************************************)
LEMMA ModWrap ==
    ASSUME NEW n \in Nat \ {0}, NEW i \in Nat
    PROVE  (i + n) % n = i % n
  <1>1. i % n \in 0 .. n - 1 /\ i \div n \in Int /\ i = n * (i \div n) + (i % n)
    BY DivMod
  <1>2. n * ((i \div n) + 1) = n * (i \div n) + n
    BY <1>1, Z3
  <1>3. i + n = n * ((i \div n) + 1) + (i % n) /\ i + n \in Nat
        /\ (i \div n) + 1 \in Int
    BY <1>1, <1>2
  <1> QED BY <1>1, <1>3, ModUnique

(***************************************************************************)
(* The inductive invariant: the window fits, and every byte of it is in    *)
(* its slot.  The first is needed for the second, since an append that     *)
(* went past the room would overwrite the oldest bytes.                    *)
(***************************************************************************)
IInv == TypeOK /\ WindowInRing /\ RingHoldsWindow

(* A chunk the caller hands to Append.                                     *)
IsChunk(bytes) == bytes \in Seq(Bytes)

(***************************************************************************)
(* Append keeps the invariant.                                             *)
(***************************************************************************)
LEMMA AppendKeepsIInv ==
    ASSUME IInv, NEW bytes, IsChunk(bytes), RingAppend(bytes)
    PROVE  IInv'
  <1> DEFINE n == Len(bytes)
  <1>1. n \in Nat /\ bytes \in Seq(Bytes) /\ \A j \in 1..n : bytes[j] \in Bytes
    BY DEF IsChunk
  <1> HIDE DEF n
  <1>2. /\ base \in Nat /\ end \in Nat /\ next \in Nat /\ Cap \in Nat \ {0}
        /\ base <= next /\ next <= end /\ end - base <= Cap
    BY RingAssumption DEF IInv, TypeOK, WindowInRing, RingAppend
  <1>3. PICK take \in 0 .. Cap :
            take = AtMost(n, RingRoom) /\ take <= n /\ take <= Cap - (end - base)
    <2> DEFINE m == AtMost(n, RingRoom)
    <2>1. m \in 0 .. Cap /\ m <= n /\ m <= Cap - (end - base)
      BY <1>1, <1>2 DEF AtMost, RingRoom
    <2> HIDE DEF m
    <2> QED BY <2>1 DEF m
  <1>4. /\ slots' = Stored(bytes, end % Cap, take)
        /\ end' = end + take
        /\ log' = log \o SubSeq(bytes, 1, take)
        /\ base' = base /\ next' = next /\ gen' = gen
    BY <1>3 DEF RingAppend, n
  <1>5. log \in Seq(Bytes) /\ Len(log) = end
        /\ \A i \in base .. end - 1 : slots[i % Cap] = log[i + 1]
    BY DEF IInv, TypeOK, RingHoldsWindow
  <1>6. SubSeq(bytes, 1, take) \in Seq(Bytes) /\ Len(SubSeq(bytes, 1, take)) = take
        /\ \A j \in 1..take : SubSeq(bytes, 1, take)[j] = bytes[j]
    BY <1>1, <1>3 DEF n
  <1>7. /\ log' \in Seq(Bytes) /\ Len(log') = end + take
        /\ \A i \in 1..end : log'[i] = log[i]
        /\ \A j \in 1..take : log'[end + j] = bytes[j]
    <2> DEFINE t == SubSeq(bytes, 1, take)
    <2>1. t \in Seq(Bytes) /\ Len(t) = take /\ log' = log \o t
      BY <1>4, <1>6
    <2>2. \A j \in 1..take : t[j] = bytes[j]
      BY <1>6
    <2> HIDE DEF t
    <2>3. /\ log' \in Seq(Bytes) /\ Len(log') = Len(log) + Len(t)
          /\ \A i \in 1..Len(log) : log'[i] = log[i]
          /\ \A j \in 1..Len(t) : log'[Len(log) + j] = t[j]
      <3>0. log \in Seq(Bytes) /\ t \in Seq(Bytes)
        BY <1>5, <2>1
      <3>1. /\ log \o t \in Seq(Bytes) /\ Len(log \o t) = Len(log) + Len(t)
            /\ \A i \in 1..Len(log) : (log \o t)[i] = log[i]
            /\ \A j \in 1..Len(t) : (log \o t)[Len(log) + j] = t[j]
        BY <3>0
      <3> QED BY <2>1, <3>1, Zenon
    <2> QED BY <1>5, <2>1, <2>2, <2>3
  <1>8. TypeOK'
    <2>1. slots \in [Slots -> Bytes] /\ end % Cap \in 0 .. Cap - 1
      BY <1>2, DivMod DEF IInv, TypeOK
    <2>2. \A t \in Slots : Stored(bytes, end % Cap, take)[t] \in Bytes
      <3> DEFINE pos == end % Cap
                 first == FirstPiece(pos, take)
      <3> SUFFICES ASSUME NEW t \in Slots
                   PROVE  Stored(bytes, pos, take)[t] \in Bytes
        OBVIOUS
      <3>1. first = IF take <= Cap - pos THEN take ELSE Cap - pos
        BY DEF FirstPiece, AtMost
      <3>2. Stored(bytes, pos, take)[t]
              = IF pos <= t /\ t < pos + first THEN bytes[t - pos + 1]
                ELSE IF t < take - first THEN bytes[first + t + 1] ELSE slots[t]
        BY DEF Stored
      <3> HIDE DEF pos, first
      <3>3. pos \in 0 .. Cap - 1 /\ t \in Int /\ t >= 0
        BY <2>1 DEF pos, Slots
      <3>4. pos <= t /\ t < pos + first => t - pos + 1 \in 1..n
        BY <1>1, <1>2, <1>3, <3>1, <3>3
      <3>5. t < take - first => first + t + 1 \in 1..n
        BY <1>1, <1>2, <1>3, <3>1, <3>3
      <3> QED BY <1>1, <2>1, <3>2, <3>4, <3>5
    <2>3. slots' \in [Slots -> Bytes]
      BY <1>4, <2>2 DEF Stored
    <2> QED BY <1>2, <1>3, <1>4, <1>7, <2>3 DEF IInv, TypeOK
  <1>9. WindowInRing'
    BY <1>2, <1>3, <1>4 DEF WindowInRing
  <1>10. RingHoldsWindow'
    <2>3. \A k \in 0 .. Cap - 1 :
              slots'[(end + k) % Cap]
                = IF k < take THEN bytes[k + 1] ELSE slots[(end + k) % Cap]
      BY <1>2, <1>4, StoredAt
    <2>0. Len(log') = end' /\ base' .. end' - 1 = base .. end + take - 1
      <3>1. Len(log') = end'
        BY <1>4, <1>7
      <3>2. base' = base /\ end' - 1 = end + take - 1
        BY <1>2, <1>3, <1>4
      <3> QED BY <3>1, <3>2
    <2> SUFFICES ASSUME NEW i \in base .. end + take - 1
                 PROVE  slots'[i % Cap] = log'[i + 1]
      BY <2>0 DEF RingHoldsWindow
    <2>1. CASE i < end
      <3> DEFINE k == i + Cap - end
      <3>1. k \in 0 .. Cap - 1 /\ take <= k /\ end + k = i + Cap /\ i \in Nat
            /\ i \in base .. end - 1 /\ i + 1 \in 1..end
        BY <1>2, <1>3, <2>1
      <3>2. (end + k) % Cap = i % Cap
        BY <1>2, <3>1, ModWrap
      <3> HIDE DEF k
      <3>3. slots'[(end + k) % Cap] = slots[(end + k) % Cap]
        BY <2>3, <3>1
      <3> QED BY <1>5, <1>7, <3>1, <3>2, <3>3
    <2>2. CASE ~ (i < end)
      <3> DEFINE k == i - end
      <3>1. k \in 0 .. Cap - 1 /\ k < take /\ end + k = i /\ k + 1 \in 1..take
            /\ i + 1 = end + (k + 1)
        BY <1>2, <1>3, <2>2
      <3> HIDE DEF k
      <3>2. slots'[(end + k) % Cap] = bytes[k + 1]
        BY <2>3, <3>1
      <3> QED BY <1>7, <3>1, <3>2
    <2> QED BY <2>1, <2>2
  <1> QED BY <1>8, <1>9, <1>10 DEF IInv

(***************************************************************************)
(* The steps that move only the offsets keep the invariant: the window     *)
(* they leave is part of the old one, or empty.                            *)
(***************************************************************************)
LEMMA OffsetsKeepIInv ==
    ASSUME IInv,
           \/ \E k \in 0..end : RingAcknowledge(k) \/ RingResetSendNext(k)
           \/ \E n \in 1..MaxChunk : RingAdvanceSendNext(n)
           \/ RingNewGeneration
           \/ UNCHANGED vars
    PROVE  IInv'
  <1> USE RingAssumption
  <1>1. ASSUME NEW k \in 0..end, RingAcknowledge(k)
        PROVE  IInv'
    BY <1>1 DEF IInv, TypeOK, WindowInRing, RingHoldsWindow, RingAcknowledge
  <1>2. ASSUME NEW k \in 0..end, RingResetSendNext(k)
        PROVE  IInv'
    <2>1. TypeOK' /\ WindowInRing'
      BY <1>2 DEF IInv, TypeOK, WindowInRing, RingResetSendNext
    <2>2. RingHoldsWindow'
      <3>1. slots' = slots /\ log' = log /\ end' = end /\ base' = k /\ base <= k
        BY <1>2 DEF RingResetSendNext
      <3>2. base \in Nat /\ end \in Nat /\ k \in Nat
        BY DEF IInv, TypeOK
      <3>3. Len(log) = end /\ \A i \in base .. end - 1 : slots[i % Cap] = log[i + 1]
        BY DEF IInv, RingHoldsWindow
      <3>4. \A i \in k .. end - 1 : i \in base .. end - 1
        BY <3>1, <3>2
      <3>5. \A i \in k .. end - 1 : slots[i % Cap] = log[i + 1]
        BY <3>3, <3>4
      <3> QED BY <3>1, <3>3, <3>5 DEF RingHoldsWindow
    <2> QED BY <2>1, <2>2 DEF IInv
  <1>3. ASSUME NEW n \in 1..MaxChunk, RingAdvanceSendNext(n)
        PROVE  IInv'
    BY <1>3 DEF IInv, TypeOK, WindowInRing, RingHoldsWindow, RingAdvanceSendNext, AtMost
  <1>4. CASE RingNewGeneration
    BY <1>4 DEF IInv, TypeOK, WindowInRing, RingHoldsWindow, RingNewGeneration
  <1>5. CASE UNCHANGED vars
    BY <1>5 DEF IInv, TypeOK, WindowInRing, RingHoldsWindow, vars
  <1> QED BY <1>1, <1>2, <1>3, <1>4, <1>5

(***************************************************************************)
(* For every capacity and every sequence of calls, the ring is well typed, *)
(* its window fits the storage and every unacknowledged byte is in its     *)
(* slot: Append of send_buffer.cpp never overwrites a byte that may have   *)
(* to be resent.                                                           *)
(***************************************************************************)
THEOREM RingCorrect == Spec => [](TypeOK /\ WindowInRing /\ RingHoldsWindow)
  <1>1. Init => IInv
    BY RingAssumption DEF Init, IInv, TypeOK, WindowInRing, RingHoldsWindow
  <1>2. IInv /\ [Next]_vars => IInv'
    <2> SUFFICES ASSUME IInv, [Next]_vars
                 PROVE  IInv'
      OBVIOUS
    <2>1. ASSUME NEW n \in 0..MaxChunk, NEW bytes \in [1..n -> Bytes], RingAppend(bytes)
          PROVE  IInv'
      <3>1. n \in Nat
        BY RingAssumption
      <3>2. IsChunk(bytes)
        BY <3>1 DEF IsChunk
      <3> QED BY <2>1, <3>2, AppendKeepsIInv
    <2> QED BY <2>1, OffsetsKeepIInv DEF Next
  <1>3. IInv => TypeOK /\ WindowInRing /\ RingHoldsWindow
    BY DEF IInv
  <1> QED BY <1>1, <1>2, <1>3, PTL DEF Spec

(***************************************************************************)
(* A read of the window returns the stream: in a state of the invariant,   *)
(* CopyOut in one or two pieces is CopyOut of module SendBuffer.           *)
(***************************************************************************)
LEMMA CopyOutReadsStream ==
    ASSUME IInv, NEW from \in 0..end, NEW n \in Nat
    PROVE  RingCopyOut(from, n) = CopyOut(Buffer, from, n)
  <1>1. /\ base \in Nat /\ end \in Nat /\ end - base <= Cap /\ Cap \in Nat
        /\ log \in Seq(Bytes) /\ Len(log) = end
        /\ \A i \in base .. end - 1 : slots[i % Cap] = log[i + 1]
    BY RingAssumption DEF IInv, TypeOK, WindowInRing, RingHoldsWindow
  <1>2. CASE from < base \/ from >= end
    BY <1>1, <1>2 DEF RingCopyOut, CopyOut, Buffer, End
  <1>3. CASE base <= from /\ from < end
    <2> DEFINE take == AtMost(n, end - from)
               pos == from % Cap
               first == FirstPiece(pos, take)
               read == [i \in 1..take |-> IF i <= first THEN slots[pos + i - 1]
                                          ELSE slots[i - first - 1]]
    <2>1. RingCopyOut(from, n) = read
      BY <1>1, <1>3 DEF RingCopyOut
    <2>2. CopyOut(Buffer, from, n) = SubSeq(log, from + 1, AtMost(from + n, end))
      <3>1. Buffer.log = log /\ Buffer.base = base
        BY DEF Buffer
      <3>2. End(Buffer) = end /\ ~ (from < Buffer.base \/ from >= end)
        BY <1>1, <1>3, <3>1 DEF End
      <3> QED BY <3>1, <3>2 DEF CopyOut
    <2>3. take \in 0..Cap /\ take <= end - from /\ AtMost(from + n, end) = from + take
          /\ Cap # 0 /\ from \in Nat
      BY <1>1, <1>3 DEF AtMost
    <2>4. pos \in 0 .. Cap - 1
      BY <1>1, <2>3, DivMod
    <2>5. first = IF take <= Cap - pos THEN take ELSE Cap - pos
      BY DEF FirstPiece, AtMost
    <2> HIDE DEF take
    <2>6. SubSeq(log, from + 1, from + take) = [i \in 1..take |-> log[from + i]]
      BY <1>1, <2>3
    <2> HIDE DEF pos, first
    <2>7. ASSUME NEW i \in 1..take
          PROVE  (IF i <= first THEN slots[pos + i - 1] ELSE slots[i - first - 1])
                   = log[from + i]
      <3> DEFINE k == i - 1
      <3>1. k \in 0 .. Cap - 1 /\ from + k \in base .. end - 1 /\ (from + k) + 1 = from + i
        BY <1>1, <1>3, <2>3, <2>7
      <3>2. slots[(from + k) % Cap] = log[from + i]
        BY <1>1, <3>1
      <3>3. (from + k) % Cap = IF pos + k < Cap THEN pos + k ELSE pos + k - Cap
        BY <1>1, <2>3, <3>1, ModShift DEF pos
      <3>4. CASE i <= first
        <4>1. pos + k < Cap /\ pos + k = pos + i - 1
          BY <1>1, <2>3, <2>4, <2>5, <2>7, <3>4
        <4> QED BY <3>2, <3>3, <3>4, <4>1
      <3>5. CASE ~ (i <= first)
        <4>1. ~ (pos + k < Cap) /\ pos + k - Cap = i - first - 1
          BY <1>1, <2>3, <2>4, <2>5, <2>7, <3>5
        <4> QED BY <3>2, <3>3, <3>5, <4>1
      <3> QED BY <3>4, <3>5
    <2>8. read = [i \in 1..take |-> log[from + i]]
      BY <2>7
    <2> QED BY <2>1, <2>2, <2>3, <2>6, <2>8
  <1> QED BY <1>1, <1>2, <1>3

(***************************************************************************)
(* Every read of every reachable ring is exact, whatever was appended,     *)
(* acknowledged, resent or restarted before it.                            *)
(***************************************************************************)
THEOREM RingReadsExact == Spec => []CopyOutIsExact
  <1>1. Spec => []IInv
    BY RingCorrect, PTL DEF IInv
  <1>2. IInv => CopyOutIsExact
    BY CopyOutReadsStream, RingAssumption DEF CopyOutIsExact
  <1> QED BY <1>1, <1>2, PTL

-------------------------------------------------------------------------------
(* A line of the screen *)

\* A line of n cells whose wide characters are whole.
Cells(Cp, Pens) == [cp : Cp, width : 0..2, pen : Pens]
WholeLine(line, n, Cp, Pens) ==
    line \in [0..(n - 1) -> Cells(Cp, Pens)] /\ Paired(line, n)

\* BlankCell, Cell{} and a new tail have the widths their names promise.
LEMMA Widths ==
    ASSUME NEW pen
    PROVE  BlankCell(pen).width = 1 /\ NewCell.width = 1 /\ Tail0.width = 0
  BY DEF BlankCell, NewCell, Tail0

\* BlankIf makes narrow the one cell it names, if it has the width named.
LEMMA BlankIfWidth ==
    ASSUME NEW line, NEW pen, NEW c, NEW w, NEW d \in DOMAIN line
    PROVE  /\ DOMAIN BlankIf(line, pen, c, w) = DOMAIN line
           /\ BlankIf(line, pen, c, w)[d].width =
                  IF d = c /\ line[d].width = w THEN 1 ELSE line[d].width
  BY Widths DEF BlankIf

\* What a whole line says of a column and its neighbours.
LEMMA WholeLineFacts ==
    ASSUME NEW n \in Nat, NEW Cp, NEW Pens, NEW line, WholeLine(line, n, Cp, Pens)
    PROVE  /\ DOMAIN line = 0..(n - 1)
           /\ \A c \in 0..(n - 1) :
                /\ line[c] \in Cells(Cp, Pens) /\ line[c].width \in 0..2
                /\ line[c].width = 2 => c + 1 < n /\ line[c + 1].width = 0
                /\ line[c].width = 0 => c > 0 /\ line[c - 1].width = 2
  BY DEF WholeLine, Paired, Cells

\* EraseInLine and EraseChars (grid.cpp, RepairWideOrphans and ClearCells): a
\* pair cut by either end of the erased range is erased whole.
THEOREM EraseKeepsPairs ==
    ASSUME NEW n \in Nat, NEW Cp, NEW Pens, NEW pen, NEW line,
           WholeLine(line, n, Cp, Pens),
           NEW first \in Int, NEW last \in Int, first <= last
    PROVE  Paired(EraseRange(line, pen, first, last), n)
  <1> DEFINE one == BlankIf(line, pen, first - 1, 2)
             two == BlankIf(one, pen, last, 0)
             new == EraseRange(line, pen, first, last)
  <1>1. DOMAIN line = 0..(n - 1)
    BY WholeLineFacts
  <1>2. ASSUME NEW d \in 0..(n - 1)
        PROVE  new[d].width = IF \/ d \in first..(last - 1)
                                 \/ d = first - 1 /\ line[d].width = 2
                                 \/ d = last /\ line[d].width = 0
                              THEN 1 ELSE line[d].width
    <2>1. DOMAIN one = 0..(n - 1)
      BY <1>1 DEF BlankIf
    <2>2. one[d].width = IF d = first - 1 /\ line[d].width = 2 THEN 1 ELSE line[d].width
      BY <1>1, BlankIfWidth
    <2>3. DOMAIN two = 0..(n - 1)
      BY <2>1 DEF BlankIf
    <2>4. two[d].width = IF d = last /\ one[d].width = 0 THEN 1 ELSE one[d].width
      BY <2>1, BlankIfWidth
    <2>5. new[d] = IF d \in first..(last - 1) THEN BlankCell(pen) ELSE two[d]
      BY <2>3 DEF EraseRange, RepairWideOrphans, ClearCells
    <2> QED BY <2>2, <2>4, <2>5, Widths
  <1> HIDE DEF new
  <1>3. \A c \in 0..(n - 1) :
           /\ line[c].width = 2 => c + 1 < n /\ line[c + 1].width = 0
           /\ line[c].width = 0 => c > 0 /\ line[c - 1].width = 2
    BY WholeLineFacts
  <1>4. Paired(new, n)
    <2> SUFFICES ASSUME NEW c \in 0..(n - 1)
                 PROVE  /\ new[c].width = 2 => c + 1 < n /\ new[c + 1].width = 0
                        /\ new[c].width = 0 => c > 0 /\ new[c - 1].width = 2
      BY DEF Paired
    <2>1. ASSUME new[c].width = 2 PROVE c + 1 < n /\ new[c + 1].width = 0
      BY <2>1, <1>2, <1>3
    <2>2. ASSUME new[c].width = 0 PROVE c > 0 /\ new[c - 1].width = 2
      BY <2>2, <1>2, <1>3
    <2> QED BY <2>1, <2>2
  <1> QED BY <1>4 DEF new

\* InsertChars: whatever pair the cursor or the end of the line cuts is blanked.
THEOREM InsertKeepsPairs ==
    ASSUME NEW n \in Nat, NEW Cp, NEW Pens, NEW pen, NEW line,
           WholeLine(line, n, Cp, Pens),
           NEW c \in 0..(n - 1), NEW k \in 1..(n - c)
    PROVE  Paired(InsertCells(line, pen, n, c, k), n)
  <1> DEFINE moved == [d \in DOMAIN line |->
                        CASE d < c             -> line[d]
                          [] d \in c..(c+k-1)  -> BlankCell(pen)
                          [] OTHER             -> line[d - k]]
             one == BlankIf(moved, pen, c - 1, 2)
             two == BlankIf(one, pen, c + k, 0)
             new == InsertCells(line, pen, n, c, k)
             was(d) == IF d < c THEN line[d].width
                       ELSE IF d < c + k THEN 1 ELSE line[d - k].width
  <1>1. DOMAIN line = 0..(n - 1)
    BY WholeLineFacts
  <1>2. ASSUME NEW d \in 0..(n - 1)
        PROVE  new[d].width = IF \/ d = c - 1 /\ was(d) = 2
                                 \/ d = c + k /\ was(d) = 0
                                 \/ d = n - 1 /\ was(d) = 2
                              THEN 1 ELSE was(d)
    <2>1. DOMAIN moved = 0..(n - 1) /\ moved[d].width = was(d)
      BY <1>1, Widths
    <2> HIDE DEF moved, was
    <2>2. DOMAIN one = 0..(n - 1)
      BY <2>1 DEF BlankIf
    <2>3. one[d].width = IF d = c - 1 /\ was(d) = 2 THEN 1 ELSE was(d)
      BY <2>1, BlankIfWidth
    <2>4. DOMAIN two = 0..(n - 1)
      BY <2>2 DEF BlankIf
    <2>5. two[d].width = IF d = c + k /\ one[d].width = 0 THEN 1 ELSE one[d].width
      BY <2>2, BlankIfWidth
    <2>6. new[d].width = IF d = n - 1 /\ two[d].width = 2 THEN 1 ELSE two[d].width
      <3>1. new = BlankIf(two, pen, n - 1, 2)
        BY DEF InsertCells, moved
      <3> QED BY <3>1, <2>4, BlankIfWidth
    <2> QED BY <2>3, <2>5, <2>6
  <1>3. \A d \in 0..(n - 1) :
           /\ line[d].width = 2 => d + 1 < n /\ line[d + 1].width = 0
           /\ line[d].width = 0 => d > 0 /\ line[d - 1].width = 2
    BY WholeLineFacts
  <1> HIDE DEF new
  <1>4. Paired(new, n)
    <2> SUFFICES ASSUME NEW x \in 0..(n - 1)
                 PROVE  /\ new[x].width = 2 => x + 1 < n /\ new[x + 1].width = 0
                        /\ new[x].width = 0 => x > 0 /\ new[x - 1].width = 2
      BY DEF Paired
    <2>1. ASSUME new[x].width = 2 PROVE x + 1 < n /\ new[x + 1].width = 0
      BY <2>1, <1>2, <1>3
    <2>2. ASSUME new[x].width = 0 PROVE x > 0 /\ new[x - 1].width = 2
      BY <2>2, <1>2, <1>3
    <2> QED BY <2>1, <2>2
  <1> QED BY <1>4 DEF new

\* DeleteChars: a pair cut by the cursor, the deleted range or the end is blanked.
THEOREM DeleteKeepsPairs ==
    ASSUME NEW n \in Nat, NEW Cp, NEW Pens, NEW pen, NEW line,
           WholeLine(line, n, Cp, Pens),
           NEW c \in 0..(n - 1), NEW k \in 1..(n - c)
    PROVE  Paired(DeleteCells(line, pen, n, c, k), n)
  <1> DEFINE onTail == c > 0 /\ line[c].width = 0
             cut == [d \in DOMAIN line |->
                      IF onTail /\ d \in {c - 1, c} THEN BlankCell(pen) ELSE line[d]]
             moved == [d \in DOMAIN line |->
                        CASE d < c                  -> cut[d]
                          [] d >= c /\ d + k < n    -> cut[d + k]
                          [] OTHER                  -> BlankCell(pen)]
             one == BlankIf(moved, pen, c, 0)
             new == DeleteCells(line, pen, n, c, k)
             kept(d) == IF onTail /\ d \in {c - 1, c} THEN 1 ELSE line[d].width
             was(d) == IF d < c THEN kept(d) ELSE IF d + k < n THEN kept(d + k) ELSE 1
  <1>1. DOMAIN line = 0..(n - 1)
    BY WholeLineFacts
  <1>2. ASSUME NEW d \in 0..(n - 1)
        PROVE  new[d].width = IF \/ d = c /\ was(d) = 0
                                 \/ d = n - k - 1 /\ was(d) = 2
                              THEN 1 ELSE was(d)
    <2>1. \A e \in 0..(n - 1) : cut[e].width = kept(e)
      BY <1>1, Widths
    <2> HIDE DEF cut, kept, onTail
    <2>2. DOMAIN moved = 0..(n - 1) /\ moved[d].width = was(d)
      BY <1>1, <2>1, Widths
    <2> HIDE DEF moved, was
    <2>3. DOMAIN one = 0..(n - 1)
      BY <2>2 DEF BlankIf
    <2>4. one[d].width = IF d = c /\ was(d) = 0 THEN 1 ELSE was(d)
      BY <2>2, BlankIfWidth
    <2>5. new[d].width = IF d = n - k - 1 /\ one[d].width = 2 THEN 1 ELSE one[d].width
      <3>1. new = BlankIf(one, pen, n - k - 1, 2)
        BY DEF DeleteCells, moved, cut, onTail
      <3> QED BY <3>1, <2>3, BlankIfWidth
    <2> QED BY <2>4, <2>5
  <1>3. \A d \in 0..(n - 1) :
           /\ line[d].width = 2 => d + 1 < n /\ line[d + 1].width = 0
           /\ line[d].width = 0 => d > 0 /\ line[d - 1].width = 2
    BY WholeLineFacts
  <1> HIDE DEF new
  <1>4. Paired(new, n)
    <2> SUFFICES ASSUME NEW x \in 0..(n - 1)
                 PROVE  /\ new[x].width = 2 => x + 1 < n /\ new[x + 1].width = 0
                        /\ new[x].width = 0 => x > 0 /\ new[x - 1].width = 2
      BY DEF Paired
    <2>1. ASSUME new[x].width = 2 PROVE x + 1 < n /\ new[x + 1].width = 0
      BY <2>1, <1>2, <1>3
    <2>2. ASSUME new[x].width = 0 PROVE x > 0 /\ new[x - 1].width = 2
      BY <2>2, <1>2, <1>3
    <2> QED BY <2>1, <2>2
  <1> QED BY <1>4 DEF new

\* PutChar: a narrow or wide character over any part of any pair.
THEOREM PlaceKeepsPairs ==
    ASSUME NEW n \in Nat, NEW Cp, NEW Pens, NEW pen, NEW line,
           WholeLine(line, n, Cp, Pens),
           NEW c \in 0..(n - 1), NEW cell, cell.width \in {1, 2},
           cell.width = 2 => c + 1 < n
    PROVE  Paired(PlaceCell(line, pen, n, c, cell), n)
  <1> DEFINE overHead == line[c].width = 2
             tailOverHead == cell.width = 2 /\ c + 1 < n /\ ~overHead
                               /\ line[c + 1].width = 2
             new == PlaceCell(line, pen, n, c, cell)
  <1>1. DOMAIN line = 0..(n - 1)
    BY WholeLineFacts
  <1>2. ASSUME NEW d \in 0..(n - 1)
        PROVE  new[d].width =
                 IF d = c THEN cell.width
                 ELSE IF d = c + 1 /\ cell.width = 2 THEN 0
                 ELSE IF d = c + 1 /\ overHead THEN 1
                 ELSE IF d = c + 2 /\ tailOverHead THEN 1
                 ELSE IF d = c - 1 /\ line[d].width = 2 THEN 1
                 ELSE line[d].width
    <2>1. [line[d] EXCEPT !.width = 1].width = 1
      BY WholeLineFacts DEF Cells
    <2> QED BY <1>1, <2>1, Widths DEF PlaceCell
  <1>3. \A d \in 0..(n - 1) :
           /\ line[d].width = 2 => d + 1 < n /\ line[d + 1].width = 0
           /\ line[d].width = 0 => d > 0 /\ line[d - 1].width = 2
    BY WholeLineFacts
  <1> HIDE DEF new
  <1>4. Paired(new, n)
    <2> SUFFICES ASSUME NEW x \in 0..(n - 1)
                 PROVE  /\ new[x].width = 2 => x + 1 < n /\ new[x + 1].width = 0
                        /\ new[x].width = 0 => x > 0 /\ new[x - 1].width = 2
      BY DEF Paired
    <2>1. ASSUME new[x].width = 2 PROVE x + 1 < n /\ new[x + 1].width = 0
      BY <2>1, <1>2, <1>3
    <2>2. ASSUME new[x].width = 0 PROVE x > 0 /\ new[x - 1].width = 2
      BY <2>2, <1>2, <1>3
    <2> QED BY <2>1, <2>2
  <1> QED BY <1>4 DEF new

\* Resize, one line: a pair cut by the new last column is blanked.
THEOREM ResizeKeepsPairs ==
    ASSUME NEW n \in Nat, NEW Cp, NEW Pens, NEW pen, NEW line,
           WholeLine(line, n, Cp, Pens), NEW m \in Nat
    PROVE  Paired(ResizeLine(line, pen, n, m), m)
  <1> DEFINE new == ResizeLine(line, pen, n, m)
  <1>1. DOMAIN line = 0..(n - 1)
    BY WholeLineFacts
  <1>2. ASSUME NEW d \in 0..(m - 1)
        PROVE  new[d].width = IF d >= n \/ (m < n /\ d = m - 1 /\ line[d].width = 2)
                              THEN 1 ELSE line[d].width
    <2>1. CASE m < n
      <3>1. new[d] = BlankIf(line, pen, m - 1, 2)[d]
        BY <2>1 DEF ResizeLine
      <3> QED BY <3>1, <2>1, <1>1, BlankIfWidth
    <2>2. CASE m >= n
      BY <2>2, Widths DEF ResizeLine
    <2> QED BY <2>1, <2>2
  <1>3. \A d \in 0..(n - 1) :
           /\ line[d].width = 2 => d + 1 < n /\ line[d + 1].width = 0
           /\ line[d].width = 0 => d > 0 /\ line[d - 1].width = 2
    BY WholeLineFacts
  <1> HIDE DEF new
  <1>4. Paired(new, m)
    <2> SUFFICES ASSUME NEW x \in 0..(m - 1)
                 PROVE  /\ new[x].width = 2 => x + 1 < m /\ new[x + 1].width = 0
                        /\ new[x].width = 0 => x > 0 /\ new[x - 1].width = 2
      BY DEF Paired
    <2>1. ASSUME new[x].width = 2 PROVE x + 1 < m /\ new[x + 1].width = 0
      BY <2>1, <1>2, <1>3
    <2>2. ASSUME new[x].width = 0 PROVE x > 0 /\ new[x - 1].width = 2
      BY <2>2, <1>2, <1>3
    <2> QED BY <2>1, <2>2
  <1> QED BY <1>4 DEF new
===============================================================================
