------------------------------ MODULE ClientLink ------------------------------
(***************************************************************************)
(* The client's event loop (class Client of src/src/client/client.cpp)     *)
(* with the escape scanner (escape.cpp), its queues (app/byte_queue.cpp)   *)
(* and the stages of ClientConnection (session/connection.cpp).            *)
(*                                                                         *)
(* Turn is one pass of Run up to Poller_.Wait; the other Client actions    *)
(* are the events of one Wait, reported for what the last pass asked for.  *)
(* The agent is what the client can see of it: it answers, sends output,   *)
(* a snapshot or the end, acknowledges, or closes.  Output is counted; the *)
(* resend of lost output is the subject of Session.                        *)
(***************************************************************************)
EXTENDS Integers, Sequences, SequencesExt

CONSTANTS
    StdoutMax,          \* STDOUT_QUEUE_MAX, in items
    ReadMax,            \* ReadCapacity: frames one read can bring
    SnapSize,           \* items of a snapshot
    LiveWindow, DetachedWindow,     \* RESEND_BUFFER_MAX, DISCONNECT_BUFFER_MAX
    Typed,              \* what one read of the terminal may return
    MaxOutput, MaxGen, MaxAttempts, MaxConns      \* bounds

\* client.cpp:88 asserts the first part; a notice is small against the rest.
ASSUME ClientAssumption == ReadMax + 1 <= StdoutMax /\ LiveWindow <= DetachedWindow

VARIABLES
    cl,         \* the Client object, see LinkInit
    peer,       \* what the agent does with this connection, see NewPeer
    typed,      \* how the line the user types begins, see TypedOn
    agent,      \* [gen, sent]: the agent's generation, output sent
    shown,      \* output items the terminal has taken
    conns       \* connections made: a bound

linkVars == <<cl, peer, typed, agent, shown, conns>>

NewConn == [stage |-> "none", frames |-> <<>>, late |-> FALSE, applyGen |-> 0, confirm |-> FALSE,
            moved |-> FALSE]
NewPeer == [state |-> "none", wire |-> <<>>]

\* conn is Connection_ with its Frames_, an expired deadline (late),
\* PendingApplyGen_, the GridApplied it has to send, and whether CreditProgress
\* counts it (moved); queue is Stdout_, out SocketOut_, in the bytes of In_, window the
\* session's unacknowledged input, gen its StreamGen; timer is LinkDeadline_,
\* overdue that the agent's orphan timeout has passed since LostSince_; exit is
\* how far Run is in ending.  Which address is tried next is left out.
LinkInit ==
    /\ cl = [link |-> "waiting", timer |-> "due", attempts |-> 0,
             conn |-> NewConn, out |-> <<>>, queue |-> <<>>, pending |-> 0,
             announced |-> FALSE, lost |-> FALSE, overdue |-> FALSE,
             ended |-> "none", signaled |-> FALSE, escaped |-> FALSE, fatal |-> FALSE,
             in |-> 0, window |-> 0, lineStart |-> TRUE, held |-> FALSE,
             received |-> 0, gen |-> 0, exit |-> "none", cut |-> FALSE, awake |-> TRUE]
    /\ peer = NewPeer
    /\ typed = <<>> /\ agent = [gen |-> 0, sent |-> 0] /\ shown = 0
    /\ conns = 0

Live(c) == c.conn.stage = "live"
Up(c) == c.conn.stage # "none"

(***************************************************************************)
(* The queue: Room and Append with a ceiling.                              *)
(***************************************************************************)
\* Items of the queue; a snapshot's are its generation.
Output == 0
NoticeText == -1

Room(c) == IF Len(c.queue) < StdoutMax THEN StdoutMax - Len(c.queue) ELSE 0
Fits(c, n, ceiling) == Len(c.queue) + n <= ceiling
Notice(c) == IF Fits(c, 1, StdoutMax) THEN [c EXCEPT !.queue = Append(@, NoticeText)] ELSE c

(***************************************************************************)
(* FeedStdin: the session takes what its window allows.                    *)
(***************************************************************************)
Window(c) == IF Live(c) THEN LiveWindow ELSE DetachedWindow
AcceptsWrites(c) == c.window < Window(c)
FeedStdin(c) ==
    LET room == IF AcceptsWrites(c) THEN Window(c) - c.window ELSE 0
        n == IF c.in < room THEN c.in ELSE room
    IN  [c EXCEPT !.in = @ - n, !.window = @ + n]

(***************************************************************************)
(* Backoff, CreditProgress and Drop.                                       *)
(***************************************************************************)
Backoff(c) ==
    [c EXCEPT !.attempts = IF @ < MaxAttempts THEN @ + 1 ELSE @, !.timer = "set"]

\* Fault: to be live is progress.
CreditLive(c) == IF Live(c) THEN [c EXCEPT !.attempts = 0] ELSE c

\* The backoff restarts once something moved, or after a keepalive interval.
CreditProgress(c) ==
    IF Live(c) /\ c.conn.moved THEN [c EXCEPT !.attempts = 0] ELSE c

\* The first drop of a live connection is announced.
Dropped(c) ==
    LET told == IF Live(c) /\ ~c.fatal /\ ~c.announced
                THEN [Notice(c) EXCEPT !.announced = TRUE] ELSE c
    IN  [CreditProgress(told) EXCEPT !.lost = TRUE, !.conn = NewConn, !.out = <<>>, !.link = "waiting"]

Drop(c) == Backoff([Dropped(c) EXCEPT !.pending = 0])

(***************************************************************************)
(* Pump: the frames read, in order, then what the channel has to send.     *)
(* A handshake that is late ends; a live connection is silent only if      *)
(* nothing has been read.                                                  *)
(***************************************************************************)
Sends(c, frame) == [c EXCEPT !.out = Append(@, frame)]

PumpFrame(c, f) ==
    CASE ~Up(c) \/ c.ended # "none" -> c
      [] Up(c) /\ c.ended = "none" /\ ~Live(c) ->
           CASE f = "challenge" -> Sends(c, "auth")
             [] f = "authOk" -> [Sends(c, "resume") EXCEPT !.conn.stage = "live"]
             [] OTHER -> Drop([c EXCEPT !.fatal = TRUE])    \* AuthenticationFailed
      [] Up(c) /\ c.ended = "none" /\ Live(c) ->
           CASE f = "data" ->
                  LET taken == [c EXCEPT !.received = @ + 1, !.conn.moved = TRUE]
                  IN  IF Fits(c, 1, StdoutMax)
                      THEN [taken EXCEPT !.queue = Append(@, Output)] ELSE Drop(taken)
             [] f = "ack" -> [c EXCEPT !.window = 0, !.conn.moved = TRUE]
             [] f \in {"exited", "overflow"} -> [c EXCEPT !.ended = f]
             [] f = "kill" -> Drop([c EXCEPT !.fatal = TRUE])       \* KillSession
             [] f = "grid" ->
                  IF Fits(c, SnapSize, StdoutMax + SnapSize)
                  THEN [c EXCEPT !.queue = @ \o [i \in 1..SnapSize |-> agent.gen],
                                 !.pending = agent.gen, !.conn.applyGen = agent.gen]
                  ELSE Drop(c)

\* GridApplied, once ConfirmApply queued it.
PollChannel(c) ==
    IF Live(c) /\ c.conn.confirm
    THEN [Sends(c, "applied") EXCEPT !.conn.confirm = FALSE] ELSE c

PumpAfter(c) ==
    IF Live(c) /\ c.ended = "none"
    THEN LET d == [CreditProgress(c) EXCEPT !.lost = FALSE, !.overdue = FALSE]
         IN  IF d.announced THEN [Notice(d) EXCEPT !.announced = FALSE] ELSE d
    ELSE c

Pump(c) ==
    LET hello == IF c.conn.stage = "hello"
                 THEN [Sends(c, "hello") EXCEPT !.conn.stage = "handshake"] ELSE c
        read == FoldLeft(PumpFrame, [hello EXCEPT !.conn.frames = <<>>, !.conn.late = FALSE],
                         c.conn.frames)
        expired == c.conn.late /\ (~Live(c) \/ c.conn.frames = <<>>)
    IN  CASE c.link # "up" -> c
          [] c.link = "up" /\ expired -> Drop(c)
          [] c.link = "up" /\ ~expired -> PumpAfter(PollChannel(read))

(***************************************************************************)
(* The rest of the pass.                                                   *)
(***************************************************************************)
GivesUp(c) == c.lost /\ c.overdue

\* The process is gone; what the properties look at stays.
Gone(c) == [c EXCEPT !.exit = "done", !.conn = NewConn, !.out = <<>>, !.timer = "none",
                     !.in = 0, !.window = 0, !.announced = FALSE,
                     !.overdue = FALSE, !.lineStart = FALSE, !.pending = 0]

Flush(c) == [c EXCEPT !.exit = "flush"]

\* The order of the tests in Run.  Every way out but ~. goes through Finish.
Exit(c) ==
    CASE c.ended # "none" ->
           Flush(IF c.ended = "overflow" THEN Notice(c) ELSE c)
      [] c.ended = "none" /\ c.escaped -> Gone(c)
      [] c.ended = "none" /\ ~c.escaped /\ c.fatal -> Gone(c)
      [] c.ended = "none" /\ ~c.escaped /\ ~c.fatal /\ GivesUp(c) ->
           Gone([c EXCEPT !.fatal = TRUE])
      [] c.ended = "none" /\ ~c.escaped /\ ~c.fatal /\ ~GivesUp(c) /\ c.signaled ->
           Flush(c)
      [] OTHER -> c

\* StartConnecting with the outcome of StartConnect, or a connect that timed out.
Connecting(c, starts) ==
    CASE c.link = "waiting" /\ c.timer = "due" ->
           IF starts THEN [c EXCEPT !.link = "connecting", !.timer = "set"]
           ELSE Backoff(c)
      [] c.link = "connecting" /\ c.timer = "due" -> Drop(c)
      [] OTHER -> c

\* Fault: the socket is read whatever the terminal has not taken.
NeverStalled(c) == FALSE

\* A live connection is read only while the terminal has room for all of it.
Stalled(c) == Live(c) /\ Room(c) < ReadMax

\* UpdateInterest: what the poller is asked for.
WantsStdin(c) == c.in = 0 /\ AcceptsWrites(c)
WantsStdout(c) == c.queue # <<>>
WantsRead(c) == c.link = "up" /\ Len(c.conn.frames) < ReadMax /\ ~Stalled(c)
WantsWrite(c) == c.link = "connecting" \/ (c.link = "up" /\ c.out # <<>>)

Pass(c, starts) ==
    LET e == Exit(Pump(FeedStdin(c)))
    IN  [IF e.exit # "none" THEN e ELSE Connecting(e, starts) EXCEPT !.awake = FALSE]

(***************************************************************************)
(* Actions of the client.                                                  *)
(***************************************************************************)
Running == cl.exit = "none"

\* The peer of a connection that is dropped, or no longer read, goes with it.
Becomes(c) ==
    cl' = c /\ peer' = IF (Up(cl) /\ ~Up(c)) \/ c.exit # "none" THEN NewPeer ELSE peer
Woken(c) == [c EXCEPT !.awake = TRUE]

Turn ==
    /\ Running /\ cl.awake
    /\ \E starts \in BOOLEAN :
         /\ starts => conns < MaxConns
         /\ Becomes(Pass(cl, starts))
         /\ conns' = IF cl.link = "waiting" /\ cl'.link = "connecting" THEN conns + 1 ELSE conns
    /\ UNCHANGED <<typed, agent, shown>>

\* EscapeScanner::Feed, byte by byte; n is the number of bytes for the session.
ScanByte(r, b) ==
    CASE r.quit -> r
      [] ~r.quit /\ r.held /\ b = "." -> [r EXCEPT !.quit = TRUE, !.held = FALSE]
      [] ~r.quit /\ r.held /\ b = "~" -> [r EXCEPT !.n = @ + 1, !.held = FALSE, !.lineStart = FALSE]
      [] ~r.quit /\ r.held /\ b \notin {".", "~"} ->
           [r EXCEPT !.n = @ + 2, !.held = FALSE, !.lineStart = b = "cr"]
      [] ~r.quit /\ ~r.held /\ r.lineStart /\ b = "~" -> [r EXCEPT !.held = TRUE]
      [] OTHER -> [r EXCEPT !.n = @ + 1, !.lineStart = b = "cr"]

\* Fault: a held ~ does not survive the chunk.
FeedForgetful(c, chunk) ==
    FoldLeft(ScanByte, [quit |-> FALSE, held |-> FALSE, lineStart |-> c.lineStart, n |-> 0], chunk)

FeedEscape(c, chunk) ==
    FoldLeft(ScanByte, [quit |-> FALSE, held |-> c.held, lineStart |-> c.lineStart, n |-> 0], chunk)

\* The line typed so far, as long as it may become ~. and <<"other">> after.
TypedOn(line, b) ==
    CASE b = "cr" -> <<>>
      [] b # "cr" -> IF IsPrefix(Append(line, b), <<"~", ".">>) THEN Append(line, b) ELSE <<"other">>

\* Once between two passes.
ReadStdin ==
    /\ Running /\ WantsStdin(cl) /\ ~cl.escaped
    /\ \E chunk \in Typed :
         LET r == FeedEscape(cl, chunk)
         IN  /\ Becomes([Woken(cl) EXCEPT
                   !.in = r.n, !.escaped = r.quit, !.held = r.held, !.lineStart = r.lineStart])
             /\ typed' = FoldLeft(TypedOn, typed, chunk)
    /\ UNCHANGED <<agent, shown, conns>>

\* Connection_->ConfirmApply and the notice.
ConfirmApply(c) ==
    IF c.pending = 0 \/ ~Up(c) THEN c
    ELSE [Notice(c) EXCEPT
            !.pending = 0, !.conn.applyGen = 0,
            !.conn.confirm = c.conn.applyGen = c.pending,
            !.gen = IF c.conn.applyGen = c.pending THEN c.pending ELSE @]

\* WriteStdout that writes n items; the snapshot is confirmed when all went.
Written(c, n) ==
    LET d == [c EXCEPT !.queue = SubSeq(@, n + 1, Len(@))]
    IN  IF d.queue = <<>> THEN ConfirmApply(d) ELSE d

Shows(n) == shown' = shown + Len(SelectSeq(SubSeq(cl.queue, 1, n), LAMBDA x : x = Output))

WriteStdout ==
    /\ Running /\ WantsStdout(cl)
    /\ \/ \E n \in 1..Len(cl.queue) : Becomes(Written(Woken(cl), n)) /\ Shows(n)
       \/ Becomes([Woken(cl) EXCEPT !.fatal = TRUE]) /\ UNCHANGED shown
    /\ UNCHANGED <<typed, agent, conns>>

FinishConnecting ==
    /\ Running /\ cl.link = "connecting"
    /\ \/ Becomes([Woken(cl) EXCEPT
                     !.conn.stage = "hello", !.link = "up", !.timer = "none"])
       \/ Becomes(Drop(Woken(cl)))
    /\ UNCHANGED <<typed, agent, shown, conns>>

\* What the agent makes of a frame of the client.
Sees(p, f) ==
    CASE f \in {"hello", "auth", "resume"} -> [p EXCEPT !.state = f]
      [] f = "applied" -> [p EXCEPT !.state = "live"]

WriteSocket ==
    /\ Running /\ cl.link = "up" /\ WantsWrite(cl)
    /\ \/ cl' = [Woken(cl) EXCEPT !.out = <<>>] /\ peer' = FoldLeft(Sees, peer, cl.out)
       \/ Becomes(Drop(Woken(cl)))
    /\ UNCHANGED <<typed, agent, shown, conns>>

ReadSocket ==
    /\ Running /\ WantsRead(cl)
    /\ \/ \E n \in 1..Len(peer.wire) :
            /\ n <= ReadMax - Len(cl.conn.frames)
            /\ cl' = [Woken(cl) EXCEPT
                        !.conn.frames = @ \o SubSeq(peer.wire, 1, n)]
            /\ peer' = [peer EXCEPT !.wire = SubSeq(@, n + 1, Len(@))]
       \/ Becomes(Drop(Woken(cl)))
    /\ UNCHANGED <<typed, agent, shown, conns>>

Signal ==
    /\ Running /\ ~cl.signaled
    /\ Becomes([cl EXCEPT !.signaled = TRUE, !.awake = TRUE])
    /\ UNCHANGED <<typed, agent, shown, conns>>

\* LinkDeadline_ passes.
LinkDue ==
    /\ Running /\ cl.timer = "set" /\ Becomes([cl EXCEPT !.timer = "due", !.awake = TRUE])
    /\ UNCHANGED <<typed, agent, shown, conns>>

\* The connection's deadline: the handshake's, or silence, which waits while the
\* client does not read.
ConnectionDue ==
    /\ Running /\ Up(cl) /\ ~cl.conn.late /\ ~Stalled(cl)
    /\ Becomes([cl EXCEPT !.conn.late = TRUE, !.awake = TRUE])
    /\ UNCHANGED <<typed, agent, shown, conns>>

\* A live connection outlives a keepalive interval.
Ages ==
    /\ Running /\ Live(cl) /\ ~cl.conn.moved
    /\ Becomes([cl EXCEPT !.conn.moved = TRUE, !.awake = TRUE])
    /\ UNCHANGED <<typed, agent, shown, conns>>

GiveUpDue ==
    /\ Running /\ cl.lost /\ ~cl.overdue
    /\ Becomes([cl EXCEPT !.overdue = TRUE, !.awake = TRUE])
    /\ UNCHANGED <<typed, agent, shown, conns>>

\* Finish: the queue is written until it is empty, FLUSH_TIMEOUT or an error.
Finish ==
    /\ cl.exit = "flush"
    /\ \/ cl.queue = <<>> /\ cl' = Gone(cl) /\ UNCHANGED shown
       \/ \E n \in 1..Len(cl.queue) : cl' = Written(cl, n) /\ Shows(n)
       \/ /\ cl.queue # <<>> /\ cl' = Gone([cl EXCEPT !.cut = TRUE])
          /\ UNCHANGED shown
    /\ UNCHANGED <<peer, typed, agent, conns>>

(***************************************************************************)
(* The agent, as the client sees it.                                       *)
(***************************************************************************)
PeerAnswers ==
    /\ \/ /\ peer.state = "hello"
          /\ peer' = [peer EXCEPT !.state = "challenged", !.wire = Append(@, "challenge")]
          /\ UNCHANGED agent
       \/ /\ peer.state = "auth"
          /\ \E f \in {"authOk", "badTag"} :
               peer' = [peer EXCEPT !.state = "authed", !.wire = Append(@, f)]
          /\ UNCHANGED agent
       \/ /\ peer.state = "resume" /\ agent.gen = cl.gen
          /\ peer' = [peer EXCEPT !.state = "live"] /\ UNCHANGED agent
       \/ /\ peer.state = "resume" /\ agent.gen < MaxGen
          /\ peer' = [peer EXCEPT !.state = "grid", !.wire = Append(@, "grid")]
          /\ agent' = [agent EXCEPT !.gen = @ + 1]
       \/ /\ peer.state = "resume"
          /\ peer' = [peer EXCEPT !.state = "over", !.wire = Append(@, "overflow")]
          /\ UNCHANGED agent
    /\ UNCHANGED <<cl, typed, shown, conns>>

PeerSends ==
    /\ peer.state = "live" /\ Len(peer.wire) < ReadMax
    /\ \/ /\ agent.sent < MaxOutput /\ agent' = [agent EXCEPT !.sent = @ + 1]
          /\ peer' = [peer EXCEPT !.wire = Append(@, "data")]
       \/ /\ cl.window > 0 /\ UNCHANGED agent
          /\ peer' = [peer EXCEPT !.wire = Append(@, "ack")]
       \/ /\ \E f \in {"exited", "kill"} :
               peer' = [peer EXCEPT !.state = "over", !.wire = Append(@, f)]
          /\ UNCHANGED agent
    /\ UNCHANGED <<cl, typed, shown, conns>>

LinkNext ==
    \/ Turn \/ ReadStdin \/ WriteStdout \/ FinishConnecting \/ WriteSocket \/ ReadSocket
    \/ Signal \/ LinkDue \/ ConnectionDue \/ Ages \/ GiveUpDue \/ Finish
    \/ PeerAnswers \/ PeerSends

-----------------------------------------------------------------------------
(***************************************************************************)
(* The link's state agrees with the connection it owns, the queue of the   *)
(* terminal and the window of unacknowledged input stay within their       *)
(* limits, and an unconfirmed snapshot belongs to the connection that is   *)
(* live (PendingApply_ is cleared by Drop).                                *)
(***************************************************************************)
LinkTypeOK ==
    /\ cl.link \in {"waiting", "connecting", "up"} /\ (Running => (cl.link = "up" <=> Up(cl)))
    /\ Len(cl.queue) <= StdoutMax + SnapSize /\ cl.window <= DetachedWindow
    /\ cl.attempts <= MaxAttempts
    /\ Running /\ cl.pending # 0 => Live(cl) /\ cl.conn.applyGen = cl.pending

Queued(x) == Len(SelectSeq(cl.queue, LAMBDA y : y = x))

(***************************************************************************)
(* Client::Pump drops the connection when the terminal's queue refuses     *)
(* output, but the session has counted it and the agent will not send it   *)
(* again.  The read gate has to make that impossible: what was received is *)
(* shown or queued.                                                        *)
(***************************************************************************)
ReceivedIsKept == cl.received = shown + Queued(Output)

(***************************************************************************)
(* The client tells the agent that it has a snapshot, and moves to its     *)
(* generation, only when the last byte is on the terminal.                 *)
(***************************************************************************)
ConfirmedIsWritten == \A g \in 1..MaxGen : cl.gen = g => Queued(g) = 0

\* Client::Finish: after the end of the session, the terminal has everything
\* that came, unless it failed or took longer than FLUSH_TIMEOUT.
EndShowsAll == cl.exit = "done" /\ cl.ended # "none" /\ ~cl.cut => shown = cl.received

\* What the client has taken over from the agent reaches the terminal.
OutputIsKept == LinkTypeOK /\ ReceivedIsKept /\ ConfirmedIsWritten /\ EndShowsAll

(***************************************************************************)
(* escape.hpp: ~. at the start of a line quits, nothing else does, however *)
(* the terminal's reads cut it up.                                         *)
(***************************************************************************)
QuitIsAsked == cl.escaped <=> typed = <<"~", ".">>

\* Client::CreditProgress: an agent that lets the handshake through and closes
\* is not met with the shortest delay again.
BackoffNeedsProgress ==
    cl'.attempts < cl.attempts =>
        \/ cl.conn.moved
        \/ \E i \in DOMAIN cl.conn.frames : cl.conn.frames[i] \in {"data", "ack"}

(***************************************************************************)
(* Client::Run: a client that has been without a connection for longer     *)
(* than the agent keeps the session ends in the next pass, whatever else   *)
(* happened, unless that very pass finds the connection live.              *)
(***************************************************************************)
OverdueEnds == cl.overdue /\ Turn => cl'.exit # "none" \/ Live(cl')

(***************************************************************************)
(* Without a connection there is always a next attempt: every way into     *)
(* Waiting or Connecting leaves a deadline behind.                         *)
(***************************************************************************)
TriesAgain == Running /\ cl.link # "up" => cl.timer # "none"

\* A lost connection is followed by attempts, neither too few, nor too fast, nor
\* for longer than the session can live.
ReconnectsInMeasure == [][BackoffNeedsProgress /\ OverdueEnds /\ TriesAgain']_linkVars

\* client.cpp:123: "Enter ~ . to quit", told when the connection is lost.
EscapeIsRead == Running /\ cl.announced /\ ~cl.awake => WantsStdin(cl)
=============================================================================
