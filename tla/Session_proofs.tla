---------------------------- MODULE Session_proofs ----------------------------
(***************************************************************************)
(* Proofs about a session, for every value of the limits and bounds: the   *)
(* steps of the client keep the invariant of what is typed too, and what   *)
(* it says of a session.                                                   *)
(***************************************************************************)
EXTENDS SessionAgent_proofs

-----------------------------------------------------------------------------
(* The client's steps, one connection at a time *)

LEMMA ClientStream ==
    ASSUME InputInv
    PROVE  /\ StreamOK(c) /\ CursorOK(c.in) /\ c.in.onDelivery = FALSE /\ c.in.pending = 0
           /\ c \in Streams /\ Held(c.out) /\ cc \in ClientChannels /\ used \in Nat
           /\ cGen \in Nat /\ screen \in Seq(Nat) /\ pendApply \in Nat
           /\ cLive \in BOOLEAN /\ cEnd \in BOOLEAN
           /\ c.state # "Reaped" /\ c.overflow = "Backpressure"
           /\ c.out.overflowed = FALSE /\ fatal = FALSE
BY Zenon DEF InputInv, TypeInv, ClientTyped, StreamOK, GoesOn

LEMMA ClientMoves ==
    ASSUME InputInv, UNCHANGED <<plan, agentVars>>, ClientTyped', GoesOn',
           up' \in Links, down' \in Links, Keyed', Unaccused',
           cConn' \in {NoConn, used'}, cLive' = TRUE => cConn' # NoConn,
           \A j \in Conns : LinkOK(j)' /\ CarryOK(j)'
    PROVE  InputInv'
<1>1. AgentTyped'
  BY AgentStands, Zenon
<1>2. TypeInv'
  BY <1>1, Zenon DEF InputInv, TypeInv
<1>3. Wired'
  BY Zenon DEF Wired
<1> QED
  BY <1>2, <1>3, Zenon DEF InputInv

(* What the subtractions and comparisons of the links need.                *)
LEMMA ClientFrame ==
    ASSUME InputInv, UNCHANGED <<plan, agentVars>>, ClientTyped',
           up' \in Links, down' \in Links
    PROVE  /\ TypeInv /\ TypeInv' /\ Keyed /\ up \in Links /\ down \in Links
           /\ a' = a /\ ac' = ac /\ UNCHANGED <<ptyIn, ptyGot, shell>>
           /\ a.in.recv \in Nat /\ AckOffset(a.in) \in Nat
           /\ a.in.recv <= a'.in.recv /\ AckOffset(a.in) <= AckOffset(a'.in)
           /\ Len(c.out.log) \in Nat /\ Len(c'.out.log) \in Nat
           /\ c.out.next \in Nat /\ c'.out.next \in Nat
           /\ c.out.base \in Nat /\ c'.out.base \in Nat
           /\ \A j \in Conns : LinkOK(j) /\ CarryOK(j)
<1>1. /\ AgentTyped' /\ a' = a /\ ac' = ac /\ UNCHANGED <<ptyIn, ptyGot, shell>>
  BY AgentStands, Zenon
<1>2. /\ TypeInv /\ Keyed /\ up \in Links /\ down \in Links
      /\ \A j \in Conns : LinkOK(j) /\ CarryOK(j)
  BY Zenon DEF InputInv, TypeInv, Wired
<1>3. TypeInv'
  BY <1>1, <1>2, Zenon DEF TypeInv
<1>4. a.in.recv \in Nat /\ AckOffset(a.in) \in Nat
  BY <1>2, StreamNumbers, Zenon DEF TypeInv, AgentTyped
<1>5. /\ Len(c.out.log) \in Nat /\ c.out.next \in Nat /\ c.out.base \in Nat
  BY <1>2, StreamNumbers, Zenon DEF TypeInv, ClientTyped
<1>6. /\ Len(c'.out.log) \in Nat /\ c'.out.next \in Nat /\ c'.out.base \in Nat
  BY StreamNumbers, Zenon DEF ClientTyped
<1> QED
  BY <1>1, <1>2, <1>3, <1>4, <1>5, <1>6

(* The client, away from the network.                                      *)
LEMMA ClientAlone ==
    ASSUME InputInv, UNCHANGED <<plan, agentVars, netVars, cConn, cLive, used>>,
           ClientTyped', GoesOn', Keyed', Len(c.out.log) <= Len(c'.out.log),
           c'.out.base = c.out.base, c'.out.next = c.out.next
    PROVE  InputInv'
<1>1. up' = up /\ down' = down /\ errors' = errors
  BY Zenon DEF netVars
<1>2. up' \in Links /\ down' \in Links
  BY <1>1, Zenon DEF InputInv, TypeInv
<1>3. /\ TypeInv /\ TypeInv' /\ ac' = ac
      /\ a.in.recv <= a'.in.recv /\ AckOffset(a.in) <= AckOffset(a'.in)
      /\ \A j \in Conns : LinkOK(j) /\ CarryOK(j)
  BY <1>2, ClientFrame, Zenon
<1>4. ASSUME NEW j \in Conns PROVE LinkOK(j)' /\ CarryOK(j)'
  <2>1. LinkOK(j)'
    BY <1>1, <1>3, LinkKept, Zenon
  <2> QED BY <1>1, <1>3, <2>1, CarryKept, ZenonT(30)
<1>5. Unaccused' /\ cConn' \in {NoConn, used'} /\ (cLive' = TRUE => cConn' # NoConn)
  BY <1>1, Zenon DEF InputInv, Unaccused, Wired
<1> QED
  BY <1>2, <1>4, <1>5, ClientMoves, ZenonT(30)

(* The client sends a frame on its connection: a Data frame starts at or   *)
(* before what the agent will have got by then.                            *)
LEMMA PushKeeps ==
    ASSUME InputInv, NEW k \in Conns, NEW m \in Frames, k = cConn, cLive = TRUE,
           UNCHANGED <<plan, agentVars, cConn, cLive, used, down, errors>>,
           ClientTyped', GoesOn', up' = Pushed(up, k, m), m.type # "Hello",
           c'.out.log = c.out.log, c'.out.base = c.out.base,
           Excerpt(m, Len(c.out.log)), m.type = "Data" => m.off = c.out.next,
           \/ c'.out.next = c.out.next
           \/ m.type = "Data" /\ c'.out.next <= m.off + Len(m.bytes)
    PROVE  InputInv'
<1>0. up \in Links /\ up[k] \in Seq(Frames)
  BY Zenon DEF InputInv, TypeInv, Links
<1>1. /\ up' \in Links /\ up'[k] = Append(up[k], m) /\ up[k] \in Seq(Frames)
      /\ \A j \in Conns \ {k} : up'[j] = up[j]
  BY <1>0, PushedLink, Zenon
<1>2. down' \in Links
  BY Zenon DEF InputInv, TypeInv
<1>3. /\ TypeInv /\ TypeInv' /\ Keyed /\ ac' = ac /\ a' = a
      /\ UNCHANGED <<ptyIn, ptyGot, shell>>
      /\ a.in.recv \in Nat /\ c.out.next \in Nat /\ c'.out.next \in Nat
      /\ a.in.recv <= a'.in.recv /\ AckOffset(a.in) <= AckOffset(a'.in)
      /\ Len(c.out.log) \in Nat /\ \A j \in Conns : LinkOK(j) /\ CarryOK(j)
  BY <1>1, <1>2, ClientFrame, Zenon
<1>4. ASSUME NEW j \in Conns \ {k} PROVE LinkOK(j)' /\ CarryOK(j)'
  <2>1. up'[j] = up[j] /\ down'[j] = down[j] /\ j # cConn
    BY <1>1, Zenon
  <2>2. LinkOK(j)'
    BY <1>3, <2>1, LinkKept, Zenon
  <2>3. Len(c.out.log) <= Len(c'.out.log)
    BY <1>3
  <2> QED BY <1>3, <2>1, <2>2, <2>3, CarryKept, Zenon
<1>5. LinkOK(k)'
  <2>1. ~(k > used)
    BY DEF InputInv, Wired, Conns, NoConn
  <2> QED BY <1>3, <2>1, Zenon DEF LinkOK
<1> DEFINE s == up[k]
           e == Append(s, m)
<1>6. /\ Len(e) = Len(s) + 1 /\ Len(s) \in Nat /\ e[Len(s) + 1] = m
      /\ \A i \in 1..Len(s) : e[i] = s[i]
  BY <1>1
<1>7. \A i \in 1..Len(e) : Excerpt(e[i], Len(c.out.log))
  <2> HIDE DEF e
  <2> SUFFICES ASSUME NEW i \in 1..Len(e) PROVE Excerpt(e[i], Len(c.out.log))
    BY Zenon
  <2>1. CASE i = Len(s) + 1
    BY <1>6, <2>1, Zenon
  <2>2. CASE i # Len(s) + 1
    <3>1. i \in 1..Len(s)
      BY <1>6, <2>2
    <3> QED BY <1>3, <1>6, <3>1, ZenonT(30) DEF CarryOK
  <2> QED BY <2>1, <2>2, Zenon
<1>8. ac[k].stage # "closed" => NoGap(e, a.in.recv)
  <2> SUFFICES ASSUME ac[k].stage # "closed" PROVE NoGap(e, a.in.recv)
    BY Zenon
  <2>1. NoGap(s, a.in.recv) /\ Reached(c.out.next, a.in.recv, s, Len(s))
    BY <1>3, ZenonT(30) DEF CarryOK
  <2> QED BY <1>1, <1>3, <2>1, NoGapPushed, ZenonT(30)
<1>9. ac[k].stage # "closed" => Reached(c'.out.next, a.in.recv, e, Len(e))
  <2> SUFFICES ASSUME ac[k].stage # "closed"
               PROVE  Reached(c'.out.next, a.in.recv, e, Len(e))
    BY Zenon
  <2>1. \/ Reached(c'.out.next, a.in.recv, s, Len(s))
        \/ m.type = "Data" /\ c'.out.next <= m.off + Len(m.bytes)
    BY <1>3, Zenon DEF CarryOK
  <2> QED BY <1>1, <1>3, <2>1, ReachedPushed, Zenon
<1>10. up'[k] = e
  BY <1>1, Zenon
<1> HIDE DEF e
<1>11. CarryOK(k)'
  BY <1>3, <1>7, <1>8, <1>9, <1>10, Zenon DEF CarryOK
<1>12. Keyed'
  BY <1>3, KeyedKept, Zenon
<1>13. Unaccused' /\ cConn' \in {NoConn, used'} /\ (cLive' = TRUE => cConn' # NoConn)
  BY Zenon DEF InputInv, Unaccused, Wired
<1>14. \A j \in Conns : LinkOK(j)' /\ CarryOK(j)'
  BY <1>4, <1>5, <1>11, Zenon
<1> QED
  BY <1>1, <1>2, <1>12, <1>13, <1>14, ClientMoves, Zenon

(* The client takes a frame of a live connection.                          *)
LEMMA PopKeeps ==
    ASSUME InputInv, NEW k \in Conns, k = cConn, cLive = TRUE, down[k] # <<>>,
           UNCHANGED <<plan, agentVars, cConn, cLive, used, up, errors>>,
           ClientTyped', GoesOn', down' = Popped(down, k),
           c'.out.log = c.out.log,
           c'.out.base = c.out.base \/ c'.out.base <= AckOffset(a.in),
           c'.out.next = c.out.next \/ c'.out.next <= a.in.recv
    PROVE  InputInv'
<1>1. /\ down' \in Links /\ down'[k] = Tail(down[k]) /\ down[k] \in Seq(Frames)
      /\ \A j \in Conns \ {k} : down'[j] = down[j]
  BY PoppedLink, ZenonT(30) DEF InputInv, TypeInv, Links
<1>2. up' \in Links
  BY Zenon DEF InputInv, TypeInv
<1>3. /\ TypeInv /\ TypeInv' /\ Keyed /\ ac' = ac /\ a' = a
      /\ UNCHANGED <<ptyIn, ptyGot, shell>>
      /\ a.in.recv \in Nat /\ c.out.next \in Nat /\ c'.out.next \in Nat
      /\ a.in.recv <= a'.in.recv /\ AckOffset(a.in) <= AckOffset(a'.in)
      /\ Len(c.out.log) \in Nat /\ \A j \in Conns : LinkOK(j) /\ CarryOK(j)
  BY <1>1, <1>2, ClientFrame, Zenon
<1>4. ASSUME NEW j \in Conns \ {k} PROVE LinkOK(j)' /\ CarryOK(j)'
  <2>1. up'[j] = up[j] /\ down'[j] = down[j] /\ j # cConn
    BY <1>1, Zenon
  <2>2. LinkOK(j)'
    BY <1>3, <2>1, LinkKept, ZenonT(30)
  <2>3. Len(c.out.log) <= Len(c'.out.log)
    BY <1>3, SMTT(30)
  <2> QED BY <1>3, <2>1, <2>2, <2>3, CarryKept, Zenon
<1> DEFINE s == down[k]
           t == Tail(s)
<1>5. \A i \in 1..Len(t) : t[i].type # "AuthOk" /\ Honours(t[i], AckOffset(a.in))
  <2>1. /\ Len(t) = Len(s) - 1 /\ Len(s) \in Nat /\ \A i \in 1..Len(t) : t[i] = s[i + 1]
    BY <1>1, HeadTailProperties
  <2> HIDE DEF t
  <2> SUFFICES ASSUME NEW i \in 1..Len(t)
               PROVE  t[i].type # "AuthOk" /\ Honours(t[i], AckOffset(a.in))
    BY Zenon
  <2>2. i + 1 \in 1..Len(s)
    BY <2>1
  <2> QED BY <1>3, <2>1, <2>2, Zenon DEF LinkOK, CarryOK
<1>6. down'[k] = t
  BY <1>1, Zenon
<1> HIDE DEF t
<1>7. LinkOK(k)'
  <2>1. ~(k > used)
    BY DEF InputInv, Wired, Conns, NoConn
  <2> QED BY <1>3, <1>5, <1>6, <2>1, Zenon DEF LinkOK
<1>8. CarryOK(k)'
  <2>1. ac[k].stage # "closed" => Reached(c'.out.next, a.in.recv, up[k], Len(up[k]))
    BY <1>3, Zenon DEF CarryOK, Reached
  <2> QED BY <1>3, <1>5, <1>6, <2>1, Zenon DEF CarryOK
<1>9. Keyed'
  BY <1>3, KeyedKept, ZenonT(30)
<1>10. Unaccused' /\ cConn' \in {NoConn, used'} /\ (cLive' = TRUE => cConn' # NoConn)
  BY Zenon DEF InputInv, Unaccused, Wired
<1>11. \A j \in Conns : LinkOK(j)' /\ CarryOK(j)'
  BY <1>4, <1>7, <1>8, Zenon
<1> QED
  BY <1>1, <1>2, <1>9, <1>10, <1>11, ClientMoves, Zenon

(* The client leaves its connection, and every frame to it is lost.        *)
LEMMA LeaveKeeps ==
    ASSUME InputInv, cConn # NoConn, ClientLeaves(c),
           UNCHANGED <<plan, agentVars, cGen, used, window, screen, up>>,
           fatal' = FALSE, cEnd' \in BOOLEAN,
           \/ errors' = errors
           \/ \E err \in {"UnexpectedMessage", "StreamGap"} :
                 errors' = errors \cup {<<"client", err>>}
    PROVE  InputInv'
<1>0. /\ StreamOK(c) /\ CursorOK(c.in) /\ cConn \in Conns /\ down \in Links
  BY ClientStream, Zenon DEF InputInv, TypeInv, ClientTyped
<1>1. /\ StreamOK(c') /\ c'.out = c.out /\ c'.in = c.in
      /\ c'.overflow = c.overflow /\ c'.state # "Reaped"
  BY <1>0, DetachTyped, ClientStream, Zenon DEF ClientLeaves
<1>2. cConn' = NoConn /\ cLive' = FALSE /\ pendApply' = 0 /\ cc' = NewClientChannel
  BY Zenon DEF ClientLeaves
<1>3. cc' \in ClientChannels
  BY <1>2, Zenon DEF NewClientChannel, ClientChannels
<1>4. ClientTyped'
  BY <1>1, <1>2, <1>3, Zenon DEF InputInv, TypeInv, ClientTyped
<1>5. GoesOn'
  BY <1>1, Zenon DEF InputInv, GoesOn
<1>6. /\ down' \in Links /\ \A j \in Conns : down'[j] = <<>>
  <2>1. down' = [down EXCEPT ![cConn] = <<>>]
    BY Zenon DEF ClientLeaves
  <2>2. \A j \in Conns \ {cConn} : down[j] = <<>>
    BY Zenon DEF InputInv, Wired, LinkOK
  <2> QED BY <1>0, <2>1, <2>2 DEF Links
<1>7. up' \in Links
  BY Zenon DEF InputInv, TypeInv
<1>8. /\ TypeInv /\ TypeInv' /\ Keyed /\ ac' = ac /\ a' = a
      /\ UNCHANGED <<ptyIn, ptyGot, shell>>
      /\ \A j \in Conns : LinkOK(j) /\ CarryOK(j)
  BY <1>4, <1>6, <1>7, ClientFrame, Zenon
<1>9. ASSUME NEW j \in Conns PROVE LinkOK(j)' /\ CarryOK(j)'
  <2>1. j # cConn' /\ down'[j] = <<>>
    BY <1>2, <1>6 DEF Conns, NoConn
  <2>2. LinkOK(j)'
    BY <1>8, <2>1, Zenon DEF LinkOK
  <2>3. CarryOK(j)'
    <3>1. CarryOK(j) /\ up' = up /\ a' = a /\ ac' = ac /\ c'.out = c.out
      BY <1>1, <1>8, Zenon
    <3>2. \A i \in 1..Len(down'[j]) : Honours(down'[j][i], AckOffset(a'.in))
      BY <2>1
    <3> QED BY <2>1, <3>1, <3>2, Zenon DEF CarryOK
  <2> QED BY <2>2, <2>3, Zenon
<1>10. Keyed'
  BY <1>1, <1>8, KeyedKept, Zenon
<1>11. Unaccused'
  <2>1. \A err \in {"UnexpectedMessage", "StreamGap"} :
           <<"client", err>> \notin InputErrors
    BY Zenon DEF InputErrors, KillReasons
  <2> QED BY <2>1 DEF InputInv, Unaccused
<1> QED
  BY <1>2, <1>4, <1>5, <1>6, <1>7, <1>9, <1>10, <1>11, ClientMoves, ZenonT(30)

(* The client finds fault with the agent's output and drops the connection. *)
LEMMA FailKeeps ==
    ASSUME InputInv, cConn # NoConn, NEW err \in {"UnexpectedMessage", "StreamGap"},
           ClientFails(c, err),
           UNCHANGED <<plan, agentVars, cGen, used, window, screen, cEnd, up>>
    PROVE  InputInv'
<1>1. err \notin KillReasons
  BY Zenon DEF KillReasons
<1>2. ClientLeaves(c) /\ errors' = errors \cup {<<"client", err>>}
  BY <1>1, Zenon DEF ClientFails
<1>3. fatal' = FALSE
  <2>1. fatal' = (err \in KillReasons)
    BY Zenon DEF ClientFails
  <2>2. (err \in KillReasons) = FALSE
    BY <1>1
  <2> QED BY <2>1, <2>2, ZenonT(30)
<1>4. cEnd' \in BOOLEAN
  BY ClientStream, Zenon
<1> QED
  BY <1>2, <1>3, <1>4, LeaveKeeps, Zenon

LEMMA ClientDropsKeeps ==
    ASSUME InputInv, plan' = plan, ClientDrops
    PROVE  InputInv'
<1>1. /\ cConn # NoConn /\ ClientLeaves(c) /\ errors' = errors
      /\ fatal' = FALSE /\ cEnd' \in BOOLEAN
      /\ UNCHANGED <<plan, agentVars, cGen, used, window, screen, up>>
  BY ClientStream, Zenon DEF ClientDrops
<1> QED
  BY <1>1, LeaveKeeps, Zenon

LEMMA ClientReceivesEndKeeps ==
    ASSUME InputInv, plan' = plan, NEW k \in Conns, ClientReceivesEnd(k)
    PROVE  InputInv'
<1>1. /\ cConn # NoConn /\ ClientLeaves(c) /\ errors' = errors
      /\ fatal' = FALSE /\ cEnd' \in BOOLEAN
      /\ UNCHANGED <<plan, agentVars, cGen, used, window, screen, up>>
  BY ClientStream DEF ClientReceivesEnd, ClientReads, On, Conns, NoConn
<1> QED
  BY <1>1, LeaveKeeps, ZenonT(30)

(* A frame that the client reads, and what it acknowledges.                *)
LEMMA ClientHead ==
    ASSUME InputInv, NEW k \in Conns, NEW type, ClientReads(k, type)
    PROVE  /\ k = cConn /\ cConn # NoConn /\ cLive = TRUE /\ down[k] # <<>>
           /\ Head(down[k]) \in Frames /\ Head(down[k]).type = type
           /\ Honours(Head(down[k]), AckOffset(a.in))
<1>1. k = cConn /\ cLive = TRUE /\ down[k] # <<>> /\ Head(down[k]).type = type
  BY ClientStream, Zenon DEF ClientReads, On, Arrived
<1>2. down[k] \in Seq(Frames) /\ CarryOK(k)
  BY Zenon DEF InputInv, TypeInv, Links, Wired
<1>3. Head(down[k]) \in Frames /\ Head(down[k]) = down[k][1] /\ 1 \in 1..Len(down[k])
  BY <1>1, <1>2, SMTT(30)
<1> QED
  BY <1>1, <1>2, <1>3 DEF CarryOK, Conns, NoConn

(* The agent acknowledges nothing that was not typed.                      *)
LEMMA ClientAcked ==
    ASSUME InputInv, NEW n \in Nat, n <= AckOffset(a.in)
    PROVE  LET o == Acknowledge(c.out, n) IN
           /\ Held(o.buf) /\ o.err = "ok" /\ o.buf.log = c.out.log
           /\ o.buf.overflowed = FALSE
           /\ o.buf.base = c.out.base \/ o.buf.base <= AckOffset(a.in)
           /\ o.buf.next = c.out.next \/ o.buf.next <= a.in.recv
<1> DEFINE o == Acknowledge(c.out, n)
<1>0. Held(c.out)
  BY ClientStream, Zenon
<1>1. /\ Held(o.buf) /\ o.err \in {"ok", "AckBeyondSent"}
      /\ o.buf.log = c.out.log /\ o.buf.overflowed = c.out.overflowed
      /\ o.err = "AckBeyondSent" => o.buf = c.out /\ n > Len(c.out.log)
      /\ o.buf.base = c.out.base \/ o.buf.base = n
      /\ o.buf.next = c.out.next \/ o.buf.next = n
  BY <1>0, AckTyped, ZenonT(30)
<1> HIDE DEF o
<1>2. /\ a.in.recv \in Nat /\ AckOffset(a.in) \in Nat /\ AckOffset(a.in) <= a.in.recv
      /\ a.in.recv <= Len(c.out.log) /\ Len(c.out.log) \in Nat
  <2>1. /\ a.in.recv \in Nat /\ AckOffset(a.in) \in Nat /\ AckOffset(a.in) <= a.in.recv
    BY AgentStream, StreamNumbers, Zenon
  <2>2. Len(c.out.log) \in Nat
    BY ClientStream, StreamNumbers, Zenon
  <2> QED BY <2>1, <2>2, Zenon DEF InputInv, Keyed
<1>3. o.err = "ok"
  BY <1>1, <1>2
<1>4. n <= a.in.recv
  BY <1>2
<1> SUFFICES /\ Held(o.buf) /\ o.err = "ok" /\ o.buf.log = c.out.log
             /\ o.buf.overflowed = FALSE
             /\ o.buf.base = c.out.base \/ o.buf.base <= AckOffset(a.in)
             /\ o.buf.next = c.out.next \/ o.buf.next <= a.in.recv
  BY Zenon DEF o
<1> QED
  BY <1>1, <1>3, <1>4, ClientStream, Zenon

LEMMA ClientReceivesDataKeeps ==
    ASSUME InputInv, plan' = plan, NEW k \in Conns, ClientReceivesData(k)
    PROVE  InputInv'
<1> DEFINE m     == Head(down[k])
           acked == Acknowledge(c.out, m.ack)
           got   == Receive(c.in, m.off, m.bytes)
           err   == IF cc.rx # "none" THEN "UnexpectedMessage"
                    ELSE IF acked.err # "ok" THEN acked.err ELSE got.err
<1>1. /\ ClientReads(k, "Data")
      /\ IF err = "ok"
         THEN /\ c' = [c EXCEPT !.out = acked.buf, !.in = got.cur]
              /\ screen' = screen \o got.new
              /\ down' = Popped(down, k)
              /\ UNCHANGED cc /\ ClientKeeps
         ELSE ClientFails(c, err) /\ UNCHANGED screen
      /\ UNCHANGED <<cGen, used, window, cEnd, agentVars, up>>
  BY Zenon DEF ClientReceivesData
<1>2. /\ k = cConn /\ cConn # NoConn /\ cLive = TRUE /\ down[k] # <<>>
      /\ m \in Frames /\ m.type = "Data" /\ Honours(m, AckOffset(a.in))
  BY <1>1, ClientHead, Zenon
<1> HIDE DEF m
<1>3. /\ m.ack \in Nat /\ m.off \in Nat /\ m.bytes \in Seq(Nat)
      /\ m.ack <= AckOffset(a.in)
  BY <1>2, FrameFields, Zenon DEF Honours
<1>4. /\ Held(acked.buf) /\ acked.err = "ok" /\ acked.buf.log = c.out.log
      /\ acked.buf.overflowed = FALSE
      /\ acked.buf.base = c.out.base \/ acked.buf.base <= AckOffset(a.in)
      /\ acked.buf.next = c.out.next \/ acked.buf.next <= a.in.recv
  BY <1>3, ClientAcked, Zenon
<1>5. /\ CursorOK(got.cur) /\ got.cur.onDelivery = c.in.onDelivery
      /\ got.new \in Seq(Nat) /\ got.err \in {"ok", "StreamGap"}
      /\ got.cur.pending = IF c.in.onDelivery THEN c.in.pending + Len(got.new)
                           ELSE c.in.pending
  BY <1>3, ClientStream, ReceiveTyped, SMTT(30)
<1> HIDE DEF acked, got
<1>6. CASE err = "ok"
  <2>1. /\ c' = [c EXCEPT !.out = acked.buf, !.in = got.cur]
        /\ screen' = screen \o got.new /\ down' = Popped(down, k)
        /\ UNCHANGED <<cc, cConn, cLive, pendApply, fatal, errors>>
    BY <1>1, <1>6, Zenon DEF ClientKeeps
  <2>2. /\ c' \in Streams /\ c'.out = acked.buf /\ c'.in = got.cur
        /\ c'.state = c.state /\ c'.overflow = c.overflow
    BY <1>4, <1>5, <2>1, ClientStream, Zenon DEF Streams, Held, CursorOK
  <2>3. got.cur.pending = 0 /\ got.cur.onDelivery = FALSE
    BY <1>5, ClientStream, Zenon
  <2>4. screen' \in Seq(Nat)
    BY <1>5, <2>1, ClientStream, ConcatProperties, Zenon
  <2>5. StreamOK(c')
    BY <1>4, <2>2, Zenon DEF StreamOK
  <2>6. ClientTyped'
    BY <1>1, <1>5, <2>1, <2>2, <2>3, <2>4, <2>5 DEF InputInv, TypeInv, ClientTyped
  <2>7. GoesOn'
    BY <1>4, <2>1, <2>2, Zenon DEF InputInv, GoesOn
  <2> QED BY <1>1, <1>2, <1>4, <2>1, <2>2, <2>6, <2>7, PopKeeps, Zenon
<1>7. CASE err # "ok"
  <2>1. err \in {"UnexpectedMessage", "StreamGap"}
    BY <1>4, <1>5, <1>7, Zenon
  <2> HIDE DEF err
  <2> QED BY <1>1, <1>2, <1>7, <2>1, FailKeeps, Zenon
<1> QED
  BY <1>6, <1>7, Zenon

LEMMA ClientReceivesAckKeeps ==
    ASSUME InputInv, plan' = plan, NEW k \in Conns, ClientReceivesAck(k)
    PROVE  InputInv'
<1> DEFINE m     == Head(down[k])
           acked == Acknowledge(c.out, m.ack)
<1>1. /\ k = cConn /\ cConn # NoConn /\ cLive = TRUE /\ down[k] # <<>>
      /\ m \in Frames /\ m.type = "Ack" /\ Honours(m, AckOffset(a.in))
  BY ClientHead, Zenon DEF ClientReceivesAck
<1>2. m.ack \in Nat /\ m.ack <= AckOffset(a.in)
  <2> HIDE DEF m
  <2> QED BY <1>1, FrameFields, Zenon DEF Honours
<1>3. /\ Held(acked.buf) /\ acked.err = "ok" /\ acked.buf.log = c.out.log
      /\ acked.buf.overflowed = FALSE
      /\ acked.buf.base = c.out.base \/ acked.buf.base <= AckOffset(a.in)
      /\ acked.buf.next = c.out.next \/ acked.buf.next <= a.in.recv
  BY <1>2, ClientAcked, Zenon
<1>4. /\ c' = [c EXCEPT !.out = acked.buf] /\ down' = Popped(down, k)
      /\ UNCHANGED <<cc, cConn, cLive, pendApply, fatal, errors>>
      /\ UNCHANGED <<cGen, used, window, screen, cEnd, agentVars, up>>
  BY <1>3, Zenon DEF ClientReceivesAck, ClientKeeps
<1> HIDE DEF acked
<1>5. /\ c' \in Streams /\ c'.out = acked.buf /\ c'.in = c.in
      /\ c'.state = c.state /\ c'.overflow = c.overflow
  BY <1>3, <1>4, ClientStream, Zenon DEF Streams, Held
<1>6. ClientTyped'
  BY <1>3, <1>4, <1>5, Zenon DEF InputInv, TypeInv, ClientTyped, StreamOK
<1>7. GoesOn'
  BY <1>3, <1>4, <1>5, Zenon DEF InputInv, GoesOn
<1> QED
  BY <1>1, <1>3, <1>4, <1>5, <1>6, <1>7, PopKeeps, Zenon

LEMMA ClientReceivesGridKeeps ==
    ASSUME InputInv, plan' = plan, NEW k \in Conns, ClientReceivesGrid(k)
    PROVE  InputInv'
<1> DEFINE m      == Head(down[k])
           begins == m.type = "GridBegin" /\ cc.rx = "none" /\ m.gen > cc.agentGen
           goesOn == m.type = "GridChunk" /\ cc.rx = "begun"
<1>1. /\ ClientReads(k, "GridBegin") \/ ClientReads(k, "GridChunk")
      /\ UNCHANGED <<cGen, used, window, screen, cEnd, agentVars, up>>
  BY Zenon DEF ClientReceivesGrid
<1>2. /\ k = cConn /\ cConn # NoConn /\ cLive = TRUE /\ down[k] # <<>> /\ m \in Frames
  BY <1>1, ClientHead, Zenon
<1>3. CASE begins \/ goesOn
  <2>1. /\ cc' = IF begins THEN [cc EXCEPT !.rx = "begun", !.rxGen = m.gen]
                 ELSE [cc EXCEPT !.rx = "whole", !.rxSnap = m.snap]
        /\ down' = Popped(down, k) /\ c' = c
        /\ UNCHANGED <<cConn, cLive, pendApply, fatal, errors>>
    BY <1>3, Zenon DEF ClientReceivesGrid, ClientKeeps
  <2> HIDE DEF m
  <2>2. cc' \in ClientChannels
    <3>1. CASE begins
      <4>1. m.gen \in Nat
        BY <1>2, <3>1, FrameFields, Zenon
      <4> QED BY <2>1, <3>1, <4>1, ClientStream, Zenon DEF ClientChannels
    <3>2. CASE ~begins
      <4>1. m.snap \in Nat
        BY <1>2, <1>3, <3>2, FrameFields, Zenon
      <4> QED BY <2>1, <3>2, <4>1, ClientStream, ZenonT(30) DEF ClientChannels
    <3> QED BY <3>1, <3>2, Zenon
  <2>3. ClientTyped' /\ GoesOn'
    BY <1>1, <2>1, <2>2, Zenon DEF InputInv, TypeInv, ClientTyped, GoesOn
  <2> QED BY <1>1, <1>2, <2>1, <2>3, PopKeeps, Zenon
<1>4. CASE ~(begins \/ goesOn)
  <2>1. ClientFails(c, "UnexpectedMessage")
    BY <1>4, Zenon DEF ClientReceivesGrid
  <2> QED BY <1>1, <1>2, <2>1, FailKeeps, Zenon
<1> QED
  BY <1>3, <1>4, Zenon

LEMMA ClientReceivesGridEndKeeps ==
    ASSUME InputInv, plan' = plan, NEW k \in Conns, ClientReceivesGridEnd(k)
    PROVE  InputInv'
<1>1. /\ k = cConn /\ cConn # NoConn /\ cLive = TRUE /\ down[k] # <<>>
      /\ UNCHANGED <<cGen, used, window, cEnd, agentVars, up>>
  BY ClientHead, Zenon DEF ClientReceivesGridEnd
<1>2. CASE cc.rx = "whole"
  <2> DEFINE r == Reset(c.in, 0)
  <2>1. /\ c' = [c EXCEPT !.in = Reset(@, 0)]
        /\ cc' = [cc EXCEPT !.rx = "none", !.lastAcked = 0, !.agentGen = cc.rxGen]
        /\ screen' = Shown(cc.rxSnap) /\ pendApply' = cc.rxGen
        /\ down' = Popped(down, k) /\ UNCHANGED <<cConn, cLive, fatal, errors>>
    BY <1>2, Zenon DEF ClientReceivesGridEnd
  <2>2. CursorOK(r) /\ r.onDelivery = FALSE /\ r.pending = 0
    BY ClientStream, ResetCursorTyped, Zenon
  <2>3. c' = [c EXCEPT !.in = r]
    BY <2>1, Zenon
  <2> HIDE DEF r
  <2>4. /\ c' \in Streams /\ c'.out = c.out /\ c'.in = r
        /\ c'.state = c.state /\ c'.overflow = c.overflow
    BY <2>2, <2>3, ClientStream, ZenonT(30) DEF Streams, CursorOK
  <2>5. cc.rxGen \in Nat /\ cc.rxSnap \in Nat
    BY ClientStream, Zenon DEF ClientChannels
  <2>6. cc' \in ClientChannels
    BY <2>1, <2>5, ClientStream, ZenonT(30) DEF ClientChannels
  <2>7. screen' \in Seq(Nat)
    BY <2>1, <2>5 DEF Shown
  <2>8. StreamOK(c')
    BY <2>4, ClientStream, Zenon DEF StreamOK
  <2>9. ClientTyped' /\ GoesOn'
    BY <1>1, <2>1, <2>2, <2>4, <2>5, <2>6, <2>7, <2>8
       DEF InputInv, TypeInv, ClientTyped, GoesOn
  <2> QED BY <1>1, <2>1, <2>4, <2>9, PopKeeps, Zenon
<1>3. CASE cc.rx # "whole"
  <2>1. ClientFails(c, "UnexpectedMessage") /\ screen' = screen
    BY <1>3, Zenon DEF ClientReceivesGridEnd
  <2> QED BY <1>1, <2>1, FailKeeps, Zenon
<1> QED
  BY <1>2, <1>3, Zenon

LEMMA SnapshotDrainedKeeps ==
    ASSUME InputInv, plan' = plan, SnapshotDrained
    PROVE  InputInv'
<1>1. /\ cc' = [cc EXCEPT !.applied = pendApply] /\ cGen' = pendApply /\ pendApply' = 0
      /\ UNCHANGED <<c, cConn, cLive, used, window, screen, cEnd, fatal>>
      /\ UNCHANGED <<agentVars, netVars>>
  BY Zenon DEF SnapshotDrained
<1>2. cc' \in ClientChannels
  BY <1>1, ClientStream, Zenon DEF ClientChannels
<1>3. ClientTyped' /\ GoesOn'
  BY <1>1, <1>2, Zenon DEF InputInv, TypeInv, ClientTyped, GoesOn
<1>4. Keyed'
  BY <1>1, AgentStands, KeyedKept, Zenon DEF InputInv
<1>5. Len(c.out.log) <= Len(c'.out.log)
  BY <1>1, ClientStream, StreamNumbers
<1> QED
  BY <1>1, <1>3, <1>4, <1>5, ClientAlone, Zenon

LEMMA UserResizesKeeps ==
    ASSUME InputInv, plan' = plan, NEW sz \in Sizes, UserResizes(sz)
    PROVE  InputInv'
<1>1. /\ window' = [size |-> sz, changes |-> window.changes + 1]
      /\ window.changes < plan.resizes
      /\ cc' = IF cLive THEN [cc EXCEPT !.resize = sz] ELSE cc
      /\ UNCHANGED <<c, cGen, cConn, cLive, used, screen, pendApply, cEnd, fatal>>
      /\ UNCHANGED <<agentVars, netVars>>
  BY Zenon DEF UserResizes
<1>2. cc' \in ClientChannels
  BY <1>1, ClientStream, Zenon DEF ClientChannels
<1>3. window' \in [size : Sizes, changes : 0..plan.resizes]
  <2>1. plan.resizes \in Nat /\ window.changes \in 0..plan.resizes
    BY BoundsAssumption, Zenon DEF InputInv, TypeInv, ClientTyped
  <2>2. window.changes + 1 \in 0..plan.resizes
    BY <1>1, <2>1
  <2> QED BY <1>1, <2>2, Zenon
<1>4. ClientTyped' /\ GoesOn'
  BY <1>1, <1>2, <1>3, Zenon DEF InputInv, TypeInv, ClientTyped, GoesOn
<1>5. Keyed'
  BY <1>1, AgentStands, KeyedKept, Zenon DEF InputInv
<1>6. Len(c.out.log) <= Len(c'.out.log)
  BY <1>1, ClientStream, StreamNumbers
<1> QED
  BY <1>1, <1>4, <1>5, <1>6, ClientAlone, Zenon

LEMMA UserTypesKeeps ==
    ASSUME InputInv, plan' = plan, UserTypes
    PROVE  InputInv'
<1> DEFINE n == Len(c.out.log) + 1
<1>1. /\ c' = Write(c, <<n>>, Limits).stream
      /\ Len(c.out.log) < plan.in /\ AcceptsWrites(c, Limits)
      /\ UNCHANGED <<cGen, cConn, cLive, cc, used, window, screen, pendApply>>
      /\ UNCHANGED <<cEnd, fatal, agentVars, netVars>>
  BY Zenon DEF UserTypes
<1>2. c.out.log \in Seq(Nat) /\ Len(c.out.log) \in Nat /\ plan \in Plans
  BY ClientStream, StreamNumbers, Zenon DEF InputInv, TypeInv
<1>3. n \in Nat /\ <<n>> \in Seq(Nat)
  BY <1>2, SMTT(30)
<1> HIDE DEF n
<1>4. /\ StreamOK(c') /\ c'.in = c.in /\ c'.overflow = c.overflow
      /\ c'.out.base = c.out.base /\ c'.out.next = c.out.next
  BY <1>1, <1>2, <1>3, ClientStream, WriteTyped, Zenon
<1>5. /\ c'.out.log = Append(c.out.log, n) /\ c'.state = c.state
      /\ c'.out.overflowed = FALSE
  BY <1>1, <1>2, <1>3, ClientStream, TypesOne, ZenonT(30)
<1>6. ClientTyped'
  BY <1>1, <1>4, Zenon DEF InputInv, TypeInv, ClientTyped
<1>7. GoesOn'
  BY <1>1, <1>4, <1>5, Zenon DEF InputInv, GoesOn
<1>8. a' = a /\ UNCHANGED <<ptyIn, ptyGot, shell>>
  BY <1>1, AgentStands, Zenon
<1>9. /\ Len(c'.out.log) = n /\ \A i \in 1..n : c'.out.log[i] = i
  <2>1. Keyed
    BY Zenon DEF InputInv
  <2> QED BY <1>2, <1>5, <2>1 DEF n, Keyed
<1>10. Len(c.out.log) <= n /\ n <= plan.in
  <2>1. plan.in \in Nat
    BY <1>2, BoundsAssumption
  <2> QED BY <1>1, <1>2, <2>1 DEF n
<1>11. Keyed'
  <2>1. a.in.recv \in Nat
    BY AgentStream, StreamNumbers, Zenon
  <2>2. Keyed
    BY Zenon DEF InputInv
  <2>3. a.in.recv <= n
    BY <1>2, <1>3, <1>10, <2>1, <2>2 DEF Keyed
  <2> QED BY <1>4, <1>8, <1>9, <1>10, <2>2, <2>3, Zenon DEF Keyed
<1> QED
  BY <1>1, <1>4, <1>6, <1>7, <1>9, <1>10, <1>11, ClientAlone, Zenon

(* A frame that the client sends away from what is typed.                  *)
LEMMA ClientSendsKeeps ==
    ASSUME InputInv, plan' = plan, NEW k \in Conns, NEW m \in Frames,
           m.type \notin {"Hello", "Data"}, ClientSends(k), ClientSent(k, m),
           c' = c, cc' \in ClientChannels
    PROVE  InputInv'
<1>1. /\ k = cConn /\ cLive = TRUE /\ up' = Pushed(up, k, m)
      /\ UNCHANGED <<cGen, cConn, cLive, used, window, screen, pendApply, cEnd,
                     fatal, agentVars, down, errors>>
  BY ClientStream, Zenon DEF ClientSends, ClientSent, On
<1>2. ClientTyped' /\ GoesOn'
  BY <1>1, Zenon DEF InputInv, TypeInv, ClientTyped, GoesOn
<1>3. Excerpt(m, Len(c.out.log))
  BY Zenon DEF Excerpt
<1> QED
  BY <1>1, <1>2, <1>3, PushKeeps, Zenon

LEMMA ClientSendsOtherKeeps ==
    ASSUME InputInv, plan' = plan, NEW k \in Conns,
           ClientSendsGridApplied(k) \/ ClientSendsResize(k) \/ ClientSendsAck(k)
    PROVE  InputInv'
<1>0. cc \in ClientChannels /\ cc.applied \in Nat /\ cc.resize \in Sizes \cup {Unknown}
  BY ClientStream, Zenon DEF ClientChannels
<1>1. CASE ClientSendsGridApplied(k)
  <2> DEFINE m == GridApplied(cc.applied)
  <2>1. m \in Frames /\ m.type = "GridApplied"
    BY <1>0, FramesBuilt, Zenon DEF GridApplied
  <2>2. cc' \in ClientChannels
    BY <1>0, <1>1, Zenon DEF ClientSendsGridApplied, ClientChannels
  <2>3. ClientSends(k) /\ ClientSent(k, m) /\ c' = c
    BY <1>1, Zenon DEF ClientSendsGridApplied
  <2> HIDE DEF m
  <2> QED BY <2>1, <2>2, <2>3, ClientSendsKeeps, Zenon
<1>2. CASE ClientSendsResize(k)
  <2> DEFINE m == Resize(cc.resize)
  <2>1. m \in Frames /\ m.type = "Resize"
    BY <1>0, <1>2, FramesBuilt, Zenon DEF Resize, ClientSendsResize
  <2>2. cc' \in ClientChannels
    BY <1>0, <1>2, Zenon DEF ClientSendsResize, ClientChannels
  <2>3. ClientSends(k) /\ ClientSent(k, m) /\ c' = c
    BY <1>2, Zenon DEF ClientSendsResize
  <2> HIDE DEF m
  <2> QED BY <2>1, <2>2, <2>3, ClientSendsKeeps, Zenon
<1>3. CASE ClientSendsAck(k)
  <2> DEFINE n == AckOffset(c.in)
             m == Ack(n)
  <2>1. n \in Nat
    BY ClientStream, StreamNumbers, Zenon
  <2>2. ClientSends(k) /\ ClientSent(k, m) /\ c' = c /\ cc' = [cc EXCEPT !.lastAcked = n]
    BY <1>3, Zenon DEF ClientSendsAck
  <2> HIDE DEF n
  <2>3. m \in Frames /\ m.type = "Ack"
    BY <2>1, FramesBuilt, Zenon DEF Ack
  <2>4. cc' \in ClientChannels
    BY <1>0, <2>1, <2>2, Zenon DEF ClientChannels
  <2> HIDE DEF m
  <2> QED BY <2>2, <2>3, <2>4, ClientSendsKeeps, Zenon
<1> QED
  BY <1>1, <1>2, <1>3, Zenon

LEMMA ClientSendsDataKeeps ==
    ASSUME InputInv, plan' = plan, NEW k \in Conns, ClientSendsData(k)
    PROVE  InputInv'
<1> DEFINE want  == AtMost(plan.payload, Unsent(c.out))
           bytes == CopyOut(c.out, c.out.next, want)
           ack   == AckOffset(c.in)
           m     == Data(ack, c.out.next, bytes)
           b     == AdvanceSendNext(c.out, Len(bytes))
<1>0. /\ StreamOK(c) /\ CursorOK(c.in) /\ c \in Streams /\ Held(c.out)
      /\ plan.payload \in Nat /\ ack \in Nat /\ c.out.next \in Nat
      /\ Len(c.out.log) \in Nat /\ c.out.next <= Len(c.out.log) /\ cc \in ClientChannels
  BY ClientStream, StreamNumbers, BoundsAssumption, Zenon DEF InputInv, TypeInv
<1>1. want \in Nat
  BY <1>0 DEF AtMost, Unsent, End
<1> HIDE DEF want, ack
<1>2. /\ bytes \in Seq(Nat) /\ (bytes # <<>> => c.out.next + Len(bytes) <= Len(c.out.log))
      /\ \A i \in 1..Len(bytes) : bytes[i] = c.out.log[c.out.next + i]
  BY <1>0, <1>1, CopyTyped, ZenonT(30)
<1>3. /\ ClientSends(k) /\ ClientSent(k, m)
      /\ c' = [c EXCEPT !.out = AdvanceSendNext(@, Len(bytes))]
      /\ cc' = [cc EXCEPT !.lastAcked = ack]
  BY Zenon DEF ClientSendsData, want, ack
<1> HIDE DEF bytes
<1>4. Len(bytes) \in Nat /\ c.out.next + Len(bytes) <= Len(c.out.log)
  BY <1>0, <1>2
<1>5. /\ Held(b) /\ b.log = c.out.log /\ b.base = c.out.base
      /\ b.overflowed = c.out.overflowed /\ b.next <= c.out.next + Len(bytes)
  BY <1>0, <1>4, AdvanceTyped, Zenon
<1>6. c' = [c EXCEPT !.out = b]
  BY <1>3, Zenon
<1> HIDE DEF b
<1>7. /\ c' \in Streams /\ c'.out = b /\ c'.in = c.in /\ c'.state = c.state
      /\ c'.overflow = c.overflow
  BY <1>0, <1>5, <1>6, Zenon DEF Streams, Held
<1>8. StreamOK(c') /\ cc' \in ClientChannels
  BY <1>0, <1>3, <1>5, <1>7, ZenonT(30) DEF StreamOK, ClientChannels
<1>9. /\ m \in Frames /\ m.type = "Data" /\ m.off = c.out.next /\ m.bytes = bytes
  BY <1>0, <1>2, DataBuilt, Zenon DEF Data
<1> HIDE DEF m
<1>10. Excerpt(m, Len(c.out.log))
  <2>1. \A i \in 1..Len(bytes) : bytes[i] = c.out.next + i
    <3> SUFFICES ASSUME NEW i \in 1..Len(bytes) PROVE bytes[i] = c.out.next + i
      BY Zenon
    <3>1. c.out.next + i \in 1..Len(c.out.log)
      BY <1>0, <1>4
    <3> QED BY <1>2, <3>1, Zenon DEF InputInv, Keyed
  <2> QED BY <1>4, <1>9, <2>1, Zenon DEF Excerpt
<1>11. /\ k = cConn /\ cLive = TRUE /\ up' = Pushed(up, k, m)
       /\ UNCHANGED <<cGen, cConn, cLive, used, window, screen, pendApply, cEnd,
                      fatal, agentVars, down, errors>>
  BY <1>3, ClientStream, Zenon DEF ClientSends, ClientSent, On
<1>12. ClientTyped'
  BY <1>7, <1>8, <1>11, Zenon DEF InputInv, TypeInv, ClientTyped
<1>13. GoesOn'
  BY <1>5, <1>7, <1>11, Zenon DEF InputInv, GoesOn
<1> QED
  BY <1>5, <1>7, <1>9, <1>10, <1>11, <1>12, <1>13, PushKeeps, Zenon

LEMMA ClientConnectsKeeps ==
    ASSUME InputInv, plan' = plan, ClientConnects
    PROVE  InputInv'
<1>0. used + 1 \in Conns /\ used \in Nat /\ plan.conns \in Nat /\ used < plan.conns
  <2>1. plan.conns \in 1..MaxConns /\ MaxConns \in Nat
    BY BoundsAssumption, Zenon DEF InputInv, TypeInv
  <2> QED BY <2>1, ClientStream DEF Conns, ClientConnects
<1> PICK n \in Conns : n = used + 1
  BY <1>0, Zenon
<1>1. /\ cConn = NoConn /\ used < plan.conns /\ used' = n /\ cConn' = n
      /\ up' = Pushed(up, n, Hello)
      /\ UNCHANGED <<c, cGen, cLive, cc, window, screen, pendApply, cEnd, fatal>>
      /\ UNCHANGED <<agentVars, down, errors>>
  BY Zenon DEF ClientConnects
<1>2. n <= plan.conns /\ n \in Nat /\ used \in Nat /\ used < n
  BY <1>0
<1>3. cLive = FALSE
  BY <1>1, ClientStream, Zenon DEF InputInv, Wired
<1>4. ClientTyped' /\ GoesOn'
  BY <1>1, <1>2, Zenon DEF InputInv, TypeInv, ClientTyped, GoesOn
<1>5. LinkOK(n) /\ ac[n].stage = "new" /\ up[n] = <<>> /\ down[n] = <<>>
  <2>1. n # NoConn
    BY <1>2 DEF Conns, NoConn
  <2> QED BY <1>1, <1>2, <2>1, Zenon DEF InputInv, Wired, LinkOK
<1>6. up \in Links /\ Hello \in Frames
  BY FramesBuilt, Zenon DEF InputInv, TypeInv
<1>7. /\ up' \in Links /\ up'[n] = <<Hello>> /\ \A j \in Conns \ {n} : up'[j] = up[j]
  <2>1. Pushed(up, n, Hello)[n] = Append(up[n], Hello)
    BY <1>2, <1>6, PushedLink, Zenon
  <2>2. Append(up[n], Hello) = <<Hello>>
    BY <1>5
  <2> QED BY <1>1, <1>2, <1>6, <2>1, <2>2, PushedLink, ZenonT(30)
<1>8. down' \in Links
  BY <1>1, Zenon DEF InputInv, TypeInv
<1>9. /\ TypeInv /\ TypeInv' /\ Keyed /\ ac' = ac /\ a' = a
      /\ UNCHANGED <<ptyIn, ptyGot, shell>>
      /\ a.in.recv <= a'.in.recv /\ AckOffset(a.in) <= AckOffset(a'.in)
      /\ Len(c.out.log) \in Nat /\ \A j \in Conns : LinkOK(j) /\ CarryOK(j)
  BY <1>1, <1>4, <1>7, <1>8, ClientFrame, Zenon
<1>10. ASSUME NEW j \in Conns \ {n} PROVE LinkOK(j)' /\ CarryOK(j)'
  <2>1. j # cConn /\ j # cConn' /\ (j > used' => j > used)
    BY <1>1, <1>2 DEF Conns, NoConn
  <2>2. LinkOK(j)'
    BY <1>1, <1>7, <1>9, <2>1, Zenon DEF LinkOK
  <2>3. Len(c.out.log) <= Len(c'.out.log)
    BY <1>1, <1>9
  <2> QED BY <1>1, <1>7, <1>9, <2>1, <2>2, <2>3, CarryKept, ZenonT(30)
<1>11. LinkOK(n)'
  <2>1. Greeting(n)'
    BY <1>1, <1>5, <1>7, <1>9, Zenon DEF Greeting
  <2> QED BY <1>1, <1>2, <1>3, <2>1 DEF LinkOK
<1>12. CarryOK(n)'
  <2>1. Len(<<Hello>>) = 1 /\ <<Hello>>[1].type = "Hello"
    BY Zenon DEF Hello
  <2>2. \A i \in 1..Len(up'[n]) : Excerpt(up'[n][i], Len(c'.out.log))
    BY <1>7, <2>1 DEF Excerpt
  <2>3. \A i \in 1..Len(down'[n]) : Honours(down'[n][i], AckOffset(a'.in))
    BY <1>1, <1>5
  <2>4. NoGap(up'[n], a'.in.recv)
    BY <1>7, <2>1, SMTT(30) DEF NoGap
  <2> QED BY <1>1, <1>3, <2>2, <2>3, <2>4, Zenon DEF CarryOK
<1>13. Keyed'
  BY <1>1, <1>9, KeyedKept, Zenon
<1>14. Unaccused' /\ cConn' \in {NoConn, used'} /\ (cLive' = TRUE => cConn' # NoConn)
  BY <1>1, <1>3, Zenon DEF InputInv, Unaccused
<1>15. \A j \in Conns : LinkOK(j)' /\ CarryOK(j)'
  BY <1>10, <1>11, <1>12, Zenon
<1> QED
  BY <1>1, <1>4, <1>7, <1>8, <1>13, <1>14, <1>15, ClientMoves, ZenonT(30)

(* The offset that the agent answers with is one the client still holds:   *)
(* a resumption never fails.                                               *)
LEMMA ClientReceivesAuthOkKeeps ==
    ASSUME InputInv, plan' = plan, NEW k \in Conns, ClientReceivesAuthOk(k)
    PROVE  InputInv'
<1> DEFINE off == Head(down[k]).off
           r   == Attach(c, off)
           m   == Resume(cGen, c.in.recv)
<1>1. /\ k = cConn /\ cLive = FALSE /\ down[k] # <<>> /\ Head(down[k]).type = "AuthOk"
      /\ UNCHANGED <<cGen, used, window, screen, cEnd, agentVars>>
  BY ClientStream, Zenon DEF ClientReceivesAuthOk, On, Arrived
<1>2. /\ up \in Links /\ down \in Links /\ up[k] \in Seq(Frames) /\ down[k] \in Seq(Frames)
      /\ LinkOK(k) /\ CarryOK(k)
  BY Zenon DEF InputInv, TypeInv, Links, Wired
<1>3. Greeting(k)
  BY <1>1, <1>2, Zenon DEF LinkOK
<1>4. /\ Len(down[k]) = 1 /\ down[k][1].type = "AuthOk" /\ c.out.base <= down[k][1].off
      /\ ac[k].stage # "new" /\ up[k] = <<>>
  BY <1>1, <1>3, Zenon DEF Greeting
<1>5. Head(down[k]) = down[k][1] /\ 1 \in 1..Len(down[k]) /\ Head(down[k]) \in Frames
  BY <1>2, <1>4
<1>6. off \in Nat /\ c.out.base <= off /\ off <= AckOffset(a.in)
  BY <1>1, <1>2, <1>4, <1>5, FrameFields, ZenonT(30) DEF CarryOK, Honours
<1>7. /\ a.in.recv \in Nat /\ AckOffset(a.in) \in Nat /\ AckOffset(a.in) <= a.in.recv
  BY AgentStream, StreamNumbers, Zenon
<1>8. /\ Len(c.out.log) \in Nat /\ c.in.recv \in Nat /\ AckOffset(c.in) \in Nat
      /\ StreamOK(c) /\ CursorOK(c.in) /\ Held(c.out)
  BY ClientStream, StreamNumbers, Zenon
<1>9. off <= Len(c.out.log) /\ off <= a.in.recv
  BY <1>6, <1>7, <1>8, SMTT(30) DEF InputInv, Keyed
<1>10. r.err = "ok"
  <2> HIDE DEF off
  <2> QED BY <1>6, <1>8, <1>9, ClientStream, AttachTyped, Zenon
<1>11. /\ c' = r.stream /\ cLive' = TRUE
       /\ cc' = [NewClientChannel EXCEPT !.agentGen = cGen,
                                         !.lastAcked = AckOffset(c.in),
                                         !.resize = window.size]
       /\ up' = Pushed(up, k, m) /\ down' = Popped(down, k)
       /\ UNCHANGED <<cConn, pendApply, fatal, errors>>
  BY <1>10, Zenon DEF ClientReceivesAuthOk
<1> HIDE DEF off
<1>12. /\ StreamOK(r.stream) /\ r.stream.in = c.in /\ r.stream.overflow = c.overflow
       /\ r.stream.state = "Live" /\ r.stream.out = ResetSendNext(c.out, off).buf
  BY <1>6, <1>8, <1>10, AttachTyped, Zenon
<1>13. /\ ResetSendNext(c.out, off).buf.base = off /\ ResetSendNext(c.out, off).buf.next = off
       /\ ResetSendNext(c.out, off).buf.log = c.out.log
       /\ ResetSendNext(c.out, off).buf.overflowed = c.out.overflowed
  BY <1>6, <1>8, <1>9, ResetTyped, Zenon
<1> HIDE DEF r
<1>14. /\ c'.out.base = off /\ c'.out.next = off /\ c'.out.log = c.out.log
       /\ c'.out.overflowed = FALSE /\ c'.in = c.in /\ c'.overflow = c.overflow
       /\ c'.state # "Reaped" /\ StreamOK(c')
  BY <1>11, <1>12, <1>13, ClientStream, Zenon
<1>15. cc' \in ClientChannels
  <2>1. window.size \in Sizes /\ cGen \in Nat
    BY Zenon DEF InputInv, TypeInv, ClientTyped
  <2> QED BY <1>8, <1>11, <2>1, ZenonT(30) DEF ClientChannels, NewClientChannel
<1>16. ClientTyped'
  BY <1>1, <1>11, <1>14, <1>15 DEF InputInv, TypeInv, ClientTyped
<1>17. GoesOn'
  BY <1>11, <1>14, Zenon DEF InputInv, GoesOn
<1>18. m \in Frames /\ m.type = "Resume"
  BY <1>8, ClientStream, FramesBuilt, Zenon DEF Resume
<1> HIDE DEF m
<1>19. /\ up' \in Links /\ up'[k] = <<m>> /\ \A j \in Conns \ {k} : up'[j] = up[j]
  <2>1. Pushed(up, k, m)[k] = Append(up[k], m)
    BY <1>2, <1>18, PushedLink, Zenon
  <2>2. Append(up[k], m) = <<m>>
    BY <1>4
  <2> QED BY <1>2, <1>11, <1>18, <2>1, <2>2, PushedLink, Zenon
<1>20. /\ down' \in Links /\ down'[k] = <<>> /\ \A j \in Conns \ {k} : down'[j] = down[j]
  <2>1. Tail(down[k]) \in Seq(Frames) /\ Len(Tail(down[k])) = 0
    BY <1>1, <1>2, <1>4, HeadTailProperties, SMTT(30)
  <2>2. Tail(down[k]) = <<>>
    BY <2>1, EmptySeq, Zenon
  <2> QED BY <1>1, <1>2, <1>11, <2>2, PoppedLink, Zenon
<1>21. /\ TypeInv /\ TypeInv' /\ Keyed /\ ac' = ac /\ a' = a
       /\ UNCHANGED <<ptyIn, ptyGot, shell>>
       /\ a.in.recv <= a'.in.recv /\ AckOffset(a.in) <= AckOffset(a'.in)
       /\ \A j \in Conns : LinkOK(j) /\ CarryOK(j)
  BY <1>1, <1>16, <1>19, <1>20, ClientFrame, Zenon
<1>22. ASSUME NEW j \in Conns \ {k} PROVE LinkOK(j)' /\ CarryOK(j)'
  <2>1. j # cConn /\ j # cConn'
    BY <1>1, <1>11, Zenon
  <2>2. LinkOK(j)'
    BY <1>1, <1>19, <1>20, <1>21, <2>1, Zenon DEF LinkOK
  <2>3. Len(c.out.log) <= Len(c'.out.log)
    BY <1>8, <1>14, SMTT(30)
  <2> QED BY <1>19, <1>20, <1>21, <2>1, <2>2, <2>3, CarryKept, Zenon
<1>23. LinkOK(k)'
  <2>1. ~(k > used)
    BY <1>1 DEF InputInv, Wired, Conns, NoConn
  <2> QED BY <1>1, <1>4, <1>11, <1>20, <1>21, <2>1 DEF LinkOK
<1>24. CarryOK(k)'
  <2>1. Len(<<m>>) = 1 /\ <<m>>[1] = m
    BY Zenon
  <2>2. \A i \in 1..Len(up'[k]) : Excerpt(up'[k][i], Len(c'.out.log))
    BY <1>18, <1>19, <2>1 DEF Excerpt
  <2>3. \A i \in 1..Len(down'[k]) : Honours(down'[k][i], AckOffset(a'.in))
    BY <1>20
  <2>4. NoGap(up'[k], a'.in.recv)
    BY <1>18, <1>19, <2>1, SMTT(30) DEF NoGap
  <2>5. Reached(c'.out.next, a'.in.recv, up'[k], Len(up'[k]))
    BY <1>9, <1>14, <1>21, Zenon DEF Reached
  <2> QED BY <2>2, <2>3, <2>4, <2>5, Zenon DEF CarryOK
<1>25. Keyed'
  BY <1>1, <1>6, <1>14, <1>21, KeyedKept, Zenon
<1>26. Unaccused' /\ cConn' \in {NoConn, used'} /\ (cLive' = TRUE => cConn' # NoConn)
  BY <1>1, <1>11 DEF InputInv, Unaccused, Wired, Conns, NoConn
<1>27. \A j \in Conns : LinkOK(j)' /\ CarryOK(j)'
  BY <1>22, <1>23, <1>24, Zenon
<1> QED
  BY <1>1, <1>11, <1>16, <1>17, <1>19, <1>20, <1>25, <1>26, <1>27, ClientMoves

-----------------------------------------------------------------------------
(* The invariant *)

LEMMA InputInvInit == Init => InputInv
<1> SUFFICES ASSUME Init PROVE InputInv
  BY Zenon
<1>1. StreamOK(a) /\ StreamOK(c)
  BY NewTyped, Zenon DEF Init, OverflowModes
<1>2. /\ a.in = [recv |-> 0, pending |-> 0, onDelivery |-> TRUE]
      /\ c.in = [recv |-> 0, pending |-> 0, onDelivery |-> FALSE]
      /\ c.state = "Detached" /\ c.overflow = "Backpressure"
      /\ c.out.log = <<>> /\ c.out.base = 0 /\ c.out.next = 0
      /\ c.out.overflowed = FALSE
  BY Zenon DEF Init, NewStream, NewCursor, NewBuffer
<1>3. CursorOK(a.in) /\ CursorOK(c.in) /\ AckOffset(a.in) = 0
  BY <1>2 DEF CursorOK, Cursors, AckOffset
<1>4. /\ plan \in Plans /\ plan.conns \in Nat /\ plan.in \in Nat /\ plan.resizes \in Nat
      /\ plan.size \in Sizes
  BY BoundsAssumption DEF Init
<1>5. <<>> \in Seq(Nat) /\ <<>> \in Seq(Frames) /\ Len(<<>>) = 0
  BY EmptySeq, Zenon
<1>6. AgentTyped
  <2>1. NewAgentConn \in AgentConns
    BY Zenon DEF NewAgentConn, AgentConns
  <2>2. ac \in [Conns -> AgentConns]
    BY <2>1, Zenon DEF Init
  <2>3. /\ fed = 0 /\ ptyBuf = <<>> /\ ptyIn = <<>> /\ ptyGot = <<>> /\ shell = "running"
        /\ size = Unknown /\ snapWait = NoConn /\ done = FALSE
    BY Zenon DEF Init
  <2>4. a.in.onDelivery = TRUE
    BY <1>2
  <2> QED BY <1>1, <1>3, <1>5, <2>2, <2>3, <2>4, ZenonT(30) DEF AgentTyped
<1>7. ClientTyped
  <2>1. NewClientChannel \in ClientChannels
    BY Zenon DEF NewClientChannel, ClientChannels
  <2>2. window \in [size : Sizes, changes : 0..plan.resizes]
    BY <1>4 DEF Init
  <2>3. /\ cGen = 0 /\ cConn = NoConn /\ cLive = FALSE /\ cc = NewClientChannel
        /\ used = 0 /\ screen = <<>> /\ pendApply = 0 /\ cEnd = FALSE /\ fatal = FALSE
    BY Zenon DEF Init
  <2>4. c.in.onDelivery = FALSE /\ c.in.pending = 0
    BY <1>2
  <2>5. used \in Nat /\ used <= plan.conns /\ cGen \in Nat /\ pendApply \in Nat
    BY <1>4, <2>3
  <2>6. cLive \in BOOLEAN /\ cEnd \in BOOLEAN /\ fatal \in BOOLEAN
    BY <2>3, Zenon
  <2> QED BY <1>1, <1>3, <1>5, <2>1, <2>2, <2>3, <2>4, <2>5, <2>6 DEF ClientTyped
<1>8. TypeInv
  <2>1. up \in Links /\ down \in Links
    BY <1>5, Zenon DEF Init, Links
  <2> QED BY <1>4, <1>6, <1>7, <2>1, Zenon DEF TypeInv
<1>9. Keyed
  <2>1. ptyIn = <<>> /\ ptyGot = <<>>
    BY Zenon DEF Init
  <2>2. a.in.recv = 0 /\ a.in.pending = 0
    BY <1>2
  <2> QED BY <1>2, <1>3, <1>4, <1>5, <2>1, <2>2 DEF Keyed
<1>10. GoesOn
  BY <1>2, Zenon DEF Init, GoesOn
<1>11. ASSUME NEW k \in Conns PROVE LinkOK(k) /\ CarryOK(k)
  <2>1. /\ up[k] = <<>> /\ down[k] = <<>> /\ ac[k].stage = "new" /\ k # cConn
    BY DEF Init, NewAgentConn, Conns, NoConn
  <2> QED BY <1>5, <2>1 DEF LinkOK, CarryOK, NoGap
<1>12. Wired
  BY <1>11, Zenon DEF Init, Wired
<1>13. Unaccused
  BY Zenon DEF Init, Unaccused
<1> QED
  BY <1>8, <1>9, <1>10, <1>12, <1>13, Zenon DEF InputInv

LEMMA InputInvNext == InputInv /\ [Next]_vars => InputInv'
<1> SUFFICES ASSUME InputInv, [Next]_vars PROVE InputInv'
  BY Zenon
<1>1. CASE UNCHANGED vars
  <2>1. /\ UNCHANGED <<plan, agentVars, netVars, clientVars>>
        /\ UNCHANGED <<cConn, cLive, used, c>>
    BY <1>1, Zenon DEF vars, clientVars
  <2>2. ClientTyped' /\ GoesOn'
    BY <2>1, ClientStands, Zenon
  <2>3. Keyed'
    BY <2>1, AgentStands, KeyedKept, Zenon DEF InputInv
  <2>4. Len(c.out.log) <= Len(c'.out.log)
    BY <2>1, ClientStream, StreamNumbers
  <2> QED BY <2>1, <2>2, <2>3, <2>4, ClientAlone, Zenon
<1>2. CASE Next
  <2>0. plan' = plan
    BY <1>2, Zenon DEF Next
  <2>1. CASE ShellSteps
    BY <2>0, <2>1, ShellWritesKeeps, PtyOutputMovesKeeps, ShellEndsKeeps,
       PtyTakesInputKeeps, PtyInputDiscardedKeeps, Zenon DEF ShellSteps
  <2>2. CASE TrySupplySnapshot
    BY <2>0, <2>2, TrySupplySnapshotKeeps, Zenon
  <2>3. ASSUME NEW k \in Conns, AgentReceives(k) PROVE InputInv'
    BY <2>0, <2>3, AgentRoutesKeeps, AgentResumesKeeps, AgentReceivesDataKeeps,
       AgentReceivesAckKeeps, AgentReceivesResizeKeeps, AgentReceivesGridAppliedKeeps,
       AgentClosesKeeps, Zenon DEF AgentReceives
  <2>4. ASSUME NEW k \in Conns, AgentPolls(k) PROVE InputInv'
    BY <2>0, <2>4, AgentSendsGridKeeps, AgentSendsDataKeeps, AgentSendsEndKeeps,
       AgentSendsAckKeeps, Zenon DEF AgentPolls
  <2>5. ASSUME NEW k \in Conns, AgentCloses(k) \/ AgentNeedsSnapshot(k) PROVE InputInv'
    BY <2>0, <2>5, AgentClosesKeeps, AgentNeedsSnapshotKeeps, Zenon
  <2>6. ASSUME NEW k \in Conns, ClientReceives(k) PROVE InputInv'
    BY <2>0, <2>6, ClientReceivesAuthOkKeeps, ClientReceivesDataKeeps,
       ClientReceivesAckKeeps, ClientReceivesGridKeeps, ClientReceivesGridEndKeeps,
       ClientReceivesEndKeeps, Zenon DEF ClientReceives
  <2>7. ASSUME NEW k \in Conns, ClientPolls(k) PROVE InputInv'
    BY <2>0, <2>7, ClientSendsOtherKeeps, ClientSendsDataKeeps, Zenon DEF ClientPolls
  <2>8. CASE ClientConnects \/ ClientDrops \/ SnapshotDrained \/ UserTypes
    BY <2>0, <2>8, ClientConnectsKeeps, ClientDropsKeeps, SnapshotDrainedKeeps,
       UserTypesKeeps, Zenon
  <2>9. ASSUME NEW sz \in Sizes, UserResizes(sz) PROVE InputInv'
    BY <2>0, <2>9, UserResizesKeeps, Zenon
  <2> QED
    BY <1>2, <2>1, <2>2, <2>3, <2>4, <2>5, <2>6, <2>7, <2>8, <2>9, Zenon DEF Next
<1> QED
  BY <1>1, <1>2, Zenon

LEMMA InputInvAlways == Spec => []InputInv
BY InputInvInit, InputInvNext, PTL DEF Spec

(* Everything either end keeps stays what the code declares it to be: no   *)
(* subtraction of an offset, of a ring or of the queue of the pty wraps.   *)
THEOREM SessionTyped == Spec => []TypeOK
<1>1. InputInv => TypeOK
  <2> SUFFICES ASSUME InputInv PROVE TypeOK
    BY Zenon
  <2>1. used \in 0..MaxConns
    <3>1. plan.conns \in 1..MaxConns /\ MaxConns \in Nat
      BY BoundsAssumption, Zenon DEF InputInv, TypeInv
    <3> QED BY <3>1 DEF InputInv, TypeInv, ClientTyped
  <2> QED
    BY <2>1, Zenon DEF InputInv, TypeInv, AgentTyped, ClientTyped, StreamOK, Links, TypeOK
<1> QED
  BY <1>1, InputInvAlways, PTL

(* The client forgets a keystroke only after a running shell has read it,  *)
(* however many connections were cut, overlapped or resumed on the way     *)
(* (SendBuffer::Acknowledge, ReceiveCursor::AckOffset, Agent::PumpPty).    *)
THEOREM ForgottenInputWasRead == Spec => []AckedInputWasRead
<1>1. InputInv => AckedInputWasRead
  BY Zenon DEF InputInv, Keyed, AckedInputWasRead
<1> QED
  BY <1>1, InputInvAlways, PTL

(* What the shell has read is a beginning of what was typed.               *)
ReadInOrder ==
    /\ Len(ptyGot) <= Len(c.out.log)
    /\ \A i \in 1..Len(ptyGot) : ptyGot[i] = c.out.log[i]

(* Every keystroke reaches the shell at most once, in the order typed and  *)
(* with none left out before it, although Data frames are sent again from  *)
(* the agent's offset on every resumption (ReceiveCursor::Receive,         *)
(* SendBuffer::ResetSendNext).                                             *)
THEOREM KeystrokesInOrder == Spec => []ReadInOrder
<1>1. InputInv => ReadInOrder
  <2> SUFFICES ASSUME InputInv PROVE ReadInOrder
    BY Zenon
  <2>1. /\ AckOffset(a.in) \in Nat /\ a.in.recv \in Nat /\ AckOffset(a.in) <= a.in.recv
    BY AgentStream, StreamNumbers, Zenon
  <2>2. Len(c.out.log) \in Nat
    BY ClientStream, StreamNumbers, Zenon
  <2>3. Len(ptyGot) \in Nat
    BY DEF InputInv, TypeInv, AgentTyped
  <2>4. Len(ptyGot) <= Len(c.out.log)
    BY <2>1, <2>2, <2>3 DEF InputInv, Keyed
  <2> QED
    BY <2>2, <2>3, <2>4 DEF InputInv, Keyed, ReadInOrder
<1> QED
  BY <1>1, InputInvAlways, PTL

(* Nobody is accused over the input: the client never gives its session up *)
(* (Client::Fatal), never refuses an acknowledgement or an offset, and the *)
(* agent never finds a gap in what was typed.                              *)
THEOREM InputIsNeverRefused == Spec => [](~fatal /\ Unaccused)
<1>1. InputInv => ~fatal /\ Unaccused
  BY Zenon DEF InputInv, GoesOn
<1> QED
  BY <1>1, InputInvAlways, PTL

=============================================================================
