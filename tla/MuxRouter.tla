------------------------------- MODULE MuxRouter -------------------------------
(***************************************************************************)
(* The decisions of zet-muxd, without its descriptors                      *)
(* (src/src/session/mux_router): which agent connection holds which        *)
(* session, which client connections have not finished their Hello, and    *)
(* what becomes of a connection once they have.  A router is a value, the  *)
(* class's methods are operators on it.                                    *)
(*                                                                         *)
(*   regs      the live entries of Registrations_                          *)
(*   regCount  RegistrationCount_                                          *)
(*   waiting   the live entries of Waiting_; `due' once Until has passed   *)
(*   pending   PendingCount_                                               *)
(*                                                                         *)
(* `lim' holds the named limits: registrations, perUid, connections,       *)
(* perAddress and hello, the width of a slot's buffer in pieces.           *)
(***************************************************************************)
EXTENDS Integers, FiniteSets

NoAgent == 0

NewRouter == [regs |-> {}, regCount |-> 0, waiting |-> {}, pending |-> 0]

HeldFor(r, id) == {e \in r.regs : e.id = id}

OwnedBy(r, uid) == {e \in r.regs : e.owner = uid}

\* Register: the same user takes its session over, another is refused.
Register(r, agent, uid, id, lim) ==
    LET held  == HeldFor(r, id)
        entry == [id |-> id, agent |-> agent, owner |-> uid]
        Refuse(reason) == [err |-> reason, router |-> r]
    IN IF held # {}
       THEN IF \E e \in held : e.owner # uid THEN Refuse("Taken")
            ELSE [err |-> "ok",
                  router |-> [r EXCEPT !.regs = (@ \ held) \cup {entry}]]
       ELSE IF \/ Cardinality(OwnedBy(r, uid)) >= lim.perUid
               \/ Cardinality(r.regs) >= lim.registrations
            THEN Refuse("Limit")
            ELSE [err |-> "ok",
                  router |-> [r EXCEPT !.regs = @ \cup {entry},
                                       !.regCount = @ + 1]]

\* Every registration the connection still holds goes with it.
Unregister(r, agent) ==
    LET gone == {e \in r.regs : e.agent = agent}
    IN [r EXCEPT !.regs = @ \ gone, !.regCount = @ - Cardinality(gone)]

Find(r, id) ==
    IF HeldFor(r, id) = {} THEN NoAgent
    ELSE (CHOOSE e \in HeldFor(r, id) : TRUE).agent

FindWaiting(r, conn) == {w \in r.waiting : w.conn = conn}

From(r, address) == {w \in r.waiting : w.from = address}

Accept(r, conn, from, lim) ==
    IF FindWaiting(r, conn) # {} THEN [err |-> "Unknown", router |-> r]
    ELSE IF \/ Cardinality(From(r, from)) >= lim.perAddress
            \/ Cardinality(r.waiting) >= lim.connections
         THEN [err |-> "Limit", router |-> r]
    ELSE [err |-> "ok",
          router |-> [r EXCEPT !.pending = @ + 1, !.waiting = @ \cup
                      {[conn |-> conn, from |-> from, len |-> 0,
                        due |-> FALSE]}]]

Release(r, w) == [r EXCEPT !.waiting = @ \ {w}, !.pending = @ - 1]

RoomOf(r, conn, lim) ==
    IF FindWaiting(r, conn) = {} THEN 0
    ELSE lim.hello - (CHOOSE w \in FindWaiting(r, conn) : TRUE).len

\* PeekHello on the first `len' pieces of what a client sends.
PeekHello(wish, len, lim) ==
    IF wish = "junk" THEN "Malformed"
    ELSE IF len < lim.hello THEN "Truncated" ELSE "Hello"

\* Feed: `n' more pieces of what the client sends; wish is the session its
\* Hello names.  The slot is free before the decision is reported.
Feed(r, conn, wish, n, lim) ==
    IF FindWaiting(r, conn) = {}
    THEN [decision |-> "Close", agent |-> NoAgent, router |-> r]
    ELSE LET w    == CHOOSE x \in FindWaiting(r, conn) : TRUE
             more == [w EXCEPT !.len = @ + n]
             peek == PeekHello(wish, more.len, lim)
             free == Release(r, w)
             As(decision, agent, router) ==
                 [decision |-> decision, agent |-> agent, router |-> router]
         IN IF peek = "Truncated"
            THEN As("NeedMore", NoAgent,
                    [r EXCEPT !.waiting = (@ \ {w}) \cup {more}])
            ELSE IF peek = "Malformed" THEN As("Close", NoAgent, free)
            ELSE IF Find(free, wish) # NoAgent
                 THEN As("Handoff", Find(free, wish), free)
            ELSE As("Decoy", NoAgent, free)

Closed(r, conn) ==
    IF FindWaiting(r, conn) = {} THEN r
    ELSE Release(r, CHOOSE w \in FindWaiting(r, conn) : TRUE)

Due(r) == {w \in r.waiting : w.due}

\* Fault: nothing expires.
ExpireNone(r) == [router |-> r, expired |-> {}]

\* Fault: the slot is released and the connection is not told.
ExpireSilently(r) ==
    [router |-> [r EXCEPT !.waiting = @ \ Due(r),
                          !.pending = @ - Cardinality(Due(r))],
     expired |-> {}]

\* Expire, called until it finds nothing that is due.
ExpireAll(r) ==
    [router |-> [r EXCEPT !.waiting = @ \ Due(r),
                          !.pending = @ - Cardinality(Due(r))],
     expired |-> {w.conn : w \in Due(r)}]

\* The clock reaches the deadline of a slot.
DeadlinePasses(r, w) ==
    [r EXCEPT !.waiting = (@ \ {w}) \cup {[w EXCEPT !.due = TRUE]}]
===============================================================================
