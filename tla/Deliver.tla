------------------------------- MODULE Deliver -------------------------------
(***************************************************************************)
(* Installing the agent and exchanging the keys, over ssh, before there is *)
(* a session: DeliverAgent and Bootstrap of src/src/client/client.cpp, the *)
(* installer, a shell script in src/src/client/deliver.hpp that runs on    *)
(* the host, and Bootstrap of src/src/agent/agent.cpp.                     *)
(*                                                                         *)
(* Each of Procs is a client with its ssh and the process ssh started on   *)
(* the host.  They share the cache directory of the user, and each command *)
(* of the script is a step.  What the host prints is a sequence of lines;  *)
(* the scanners of src/src/wire/probe.cpp and armor.cpp read it.           *)
(***************************************************************************)
EXTENDS Integers, Sequences, FiniteSets

CONSTANTS
    Procs,      \* clients, each with one process on the host
    Hashes,     \* versions of the agent: numbers, as HashOf gives them
    Noise,      \* what a login shell may print first: sequences of lines
    Stale       \* process ids of the past, whose part files may be left

VARIABLES
    procs,      \* by process, see NewProc
    cache       \* [dirs, agents, whole, parts], see DeliverInit

deliverVars == <<procs, cache>>

\* client and host are the program counters; out is what the host printed, in
\* what was written to its input, eof that it is closed; plan and doomed
\* belong to the clean-up, late is history, see OpenPart; block is the state of the ArmorScanner.
NewProc(h) ==
    [client |-> "probe", host |-> "start", hash |-> h, out |-> <<>>, in |-> "none",
     eof |-> FALSE, plan |-> {}, doomed |-> 0, late |-> FALSE, block |-> "none"]

\* agents has an executable zet-agent, whole a complete one; a part is a file
\* .part.<pid> of a directory.
DeliverInit ==
    /\ procs \in [Procs -> {NewProc(h) : h \in Hashes}]
    /\ \E old \in Hashes :
         cache \in {[dirs |-> {}, agents |-> {}, whole |-> {}, parts |-> {}],
                    [dirs |-> {old}, agents |-> {old}, whole |-> {old}, parts |-> {}],
                    [dirs |-> {old}, agents |-> {}, whole |-> {},
                     parts |-> {[hash |-> old, pid |-> s] : s \in Stale}]}

Put(p, r) == procs' = [procs EXCEPT ![p] = r]
At(p, host) == procs[p].host = host
Goes(p, host) == Put(p, [procs[p] EXCEPT !.host = host])
Prints(p, line, host) ==
    Put(p, [procs[p] EXCEPT !.out = Append(@, line), !.host = host])

(***************************************************************************)
(* The installer, command by command.                                      *)
(***************************************************************************)
PartOf(p) == [hash |-> procs[p].hash, pid |-> p]

\* kill -0: the process is there, as the script or as the agent it became.
Alive(pid) == pid \in Procs /\ procs[pid].host # "gone"

\* Whatever the login shell prints, then ZET-PROBE.
Probe(p) ==
    /\ At(p, "start")
    /\ \E noise \in Noise, probe \in {"PROBE", "NOEXEC"} :
         Put(p, [procs[p] EXCEPT !.out = noise \o <<probe>>, !.host = "read"])
    /\ UNCHANGED cache

\* read -r hs || exit 1
ReadHash(p) ==
    /\ At(p, "read") /\ (procs[p].in = "hash" \/ procs[p].eof)
    /\ Put(p, [procs[p] EXCEPT !.in = "none",
                               !.host = IF procs[p].in = "hash" THEN "mkdir" ELSE "gone"])
    /\ UNCHANGED cache

MakeDir(p) ==
    /\ At(p, "mkdir") /\ Goes(p, "writable")
    /\ cache' = [cache EXCEPT !.dirs = @ \union {procs[p].hash}]

CheckWritable(p) ==
    /\ At(p, "writable")
    /\ IF procs[p].hash \in cache.dirs THEN Goes(p, "test") ELSE Prints(p, "FAILED", "gone")
    /\ UNCHANGED cache

TestAgent(p) ==
    /\ At(p, "test")
    /\ IF procs[p].hash \in cache.agents THEN Prints(p, "HAVE", "exec") ELSE Prints(p, "SEND", "open")
    /\ UNCHANGED cache

\* A clean-up has looked at directory d, found nothing alive and not removed it yet.
Doomed(d) == \E q \in Procs : At(q, "remove") /\ procs[q].doomed = d

\* head -c opens the part file before it reads; late records that a clean-up had
\* doomed the directory by then.
OpenPart(p) ==
    /\ At(p, "open")
    /\ IF procs[p].hash \in cache.dirs
       THEN /\ Put(p, [procs[p] EXCEPT !.host = "head", !.late = Doomed(procs[p].hash)])
            /\ cache' = [cache EXCEPT !.parts = @ \union {PartOf(p)}]
       ELSE Prints(p, "FAILED", "exec") /\ UNCHANGED cache

\* head -c ends with the last byte or with the input.
ReadPart(p) ==
    /\ At(p, "head") /\ (procs[p].in = "bytes" \/ procs[p].eof)
    /\ Goes(p, "size") /\ UNCHANGED cache

\* Fault: the size is not compared.
AnySize(p) == PartOf(p) \in cache.parts

\* wc -c finds the file, with all of its bytes.
RightSize(p) == PartOf(p) \in cache.parts /\ procs[p].in = "bytes"

CheckSize(p) ==
    /\ At(p, "size")
    /\ IF RightSize(p)
       THEN Goes(p, "move") /\ UNCHANGED cache
       ELSE Prints(p, "FAILED", "exec") /\ cache' = [cache EXCEPT !.parts = @ \ {PartOf(p)}]

MovePart(p) ==
    LET h == procs[p].hash
        complete == procs[p].in = "bytes"
    IN  /\ At(p, "move")
        /\ IF PartOf(p) \in cache.parts
           THEN Goes(p, "stale")
                /\ cache' = [cache EXCEPT
                     !.parts = @ \ {PartOf(p)}, !.agents = @ \union {h},
                     !.whole = IF complete THEN @ \union {h} ELSE @ \ {h}]
           ELSE Prints(p, "FAILED", "exec") /\ UNCHANGED cache

\* Part files of dead processes go, then every other directory is looked at.
CleanOwn(p) ==
    LET h == procs[p].hash
    IN  /\ At(p, "stale")
        /\ cache' = [cache EXCEPT !.parts = {f \in @ : f.hash # h \/ Alive(f.pid)}]
        /\ Put(p, [procs[p] EXCEPT !.host = "scan", !.plan = cache.dirs \ {h}])

\* Fault: the clean-up does not look for part files.
NoPartCounts(d) == FALSE

\* A live part file protects a directory.
HasLivePart(d) == \E f \in cache.parts : f.hash = d /\ Alive(f.pid)

ScanDir(p) ==
    /\ At(p, "scan")
    /\ \E d \in procs[p].plan :
         Put(p, [procs[p] EXCEPT
                   !.plan = @ \ {d}, !.host = IF HasLivePart(d) THEN "scan" ELSE "remove",
                   !.doomed = IF HasLivePart(d) THEN 0 ELSE d])
    /\ UNCHANGED cache

RemoveDir(p) ==
    LET d == procs[p].doomed
    IN  /\ At(p, "remove")
        /\ cache' = [dirs |-> cache.dirs \ {d}, agents |-> cache.agents \ {d},
                     whole |-> cache.whole \ {d},
                     parts |-> {f \in cache.parts : f.hash # d}]
        /\ Put(p, [procs[p] EXCEPT !.host = "scan", !.doomed = 0])

Stored(p) ==
    /\ At(p, "scan") /\ procs[p].plan = {}
    /\ Prints(p, "STORED", "exec") /\ UNCHANGED cache

\* Also after ZET-FAILED.  Without a file to execute the script ends.
ExecAgent(p) ==
    /\ At(p, "exec")
    /\ Goes(p, IF procs[p].hash \in cache.agents THEN "agent" ELSE "gone")
    /\ UNCHANGED cache

\* The agent takes the Offer, answers with an Accept in armor and detaches; the
\* end of its input ends it.
AgentBootstrap(p) ==
    /\ At(p, "agent") /\ (procs[p].in = "offer" \/ procs[p].eof)
    /\ IF procs[p].in = "offer"
       THEN Put(p, [procs[p] EXCEPT !.out = @ \o <<"begin", "text", "end">>, !.host = "gone"])
       ELSE Goes(p, "gone")
    /\ UNCHANGED cache

\* The process is killed, or its host goes down.
HostDies(p) == ~At(p, "gone") /\ Goes(p, "gone") /\ UNCHANGED cache

(***************************************************************************)
(* The client.                                                             *)
(***************************************************************************)
\* process.In.Reset(), Reap.
Failed(r) == [r EXCEPT !.client = "failed", !.eof = TRUE]

Answers == {"PROBE", "NOEXEC", "HAVE", "SEND", "STORED", "FAILED"}

Expects(p, stage) == procs[p].client = stage /\ procs[p].out # <<>>
Line(p) == Head(procs[p].out)
Took(p) == [procs[p] EXCEPT !.out = Tail(@)]

\* Stage 1: only ZET-PROBE opens the exchange, everything before it is noise.
AwaitProbe(p) ==
    /\ Expects(p, "probe")
    /\ \/ Line(p) = "PROBE" /\ Put(p, [Took(p) EXCEPT !.client = "answer", !.in = "hash"])
       \/ Line(p) = "PROBE" /\ Put(p, Failed(Took(p)))      \* no binary for the host
       \/ Line(p) = "NOEXEC" /\ Put(p, Failed(Took(p)))
       \/ Line(p) \notin {"PROBE", "NOEXEC"} /\ Put(p, Took(p))
    /\ UNCHANGED cache

\* Fault: the client waits for ZET-STORED whatever the answer was.
AfterAnswerStored(line) ==
    CASE line = "HAVE" -> "stored" [] line = "SEND" -> "send" [] OTHER -> "failed"

AfterAnswer(line) ==
    CASE line = "HAVE" -> "offer" [] line = "SEND" -> "send" [] OTHER -> "failed"

\* The next answer of stage 2 or 3; lines that are none are skipped.
AwaitAnswer(p, stage, after) ==
    /\ Expects(p, stage)
    /\ Put(p, CASE Line(p) \notin Answers -> Took(p)
                [] Line(p) \in Answers /\ after = "failed" -> Failed(Took(p))
                [] Line(p) \in Answers /\ after # "failed" -> [Took(p) EXCEPT !.client = after])
    /\ UNCHANGED cache

AwaitHave(p) == Expects(p, "answer") /\ AwaitAnswer(p, "answer", AfterAnswer(Line(p)))
AwaitStored(p) ==
    Expects(p, "stored") /\ AwaitAnswer(p, "stored", IF Line(p) = "STORED" THEN "offer" ELSE "failed")

\* WriteAllPipe, or the one write of the Offer: it fails once the host is gone.
Send(p) ==
    /\ procs[p].client \in {"send", "offer"}
    /\ Put(p, CASE At(p, "gone") -> Failed(procs[p])
                [] ~At(p, "gone") /\ procs[p].client = "send" ->
                     [procs[p] EXCEPT !.in = "bytes", !.client = "stored"]
                [] ~At(p, "gone") /\ procs[p].client = "offer" ->
                     [procs[p] EXCEPT !.in = "offer", !.client = "accept"])
    /\ UNCHANGED cache

\* ArmorScanner: a block, abandoned by what is no armor and begun again by BEGIN.
EndLine(block, line) ==
    CASE line = "begin" -> "open"
      [] line = "text" -> IF block = "none" THEN "none" ELSE "text"
      [] line = "end" -> IF block = "text" THEN "ready" ELSE "none"
      [] OTHER -> "none"

AwaitAccept(p) ==
    LET block == EndLine(procs[p].block, Line(p))
    IN  /\ Expects(p, "accept")
        /\ Put(p, [Took(p) EXCEPT !.block = block, !.client = IF block = "ready" THEN "up" ELSE @])
        /\ UNCHANGED cache

Waiting == {"probe", "answer", "stored", "accept"}

\* The output of ssh ended.
OutputEnds(p) ==
    /\ procs[p].client \in Waiting /\ procs[p].out = <<>> /\ At(p, "gone")
    /\ Put(p, Failed(procs[p])) /\ UNCHANGED cache

\* until passed.
Timeout(p) ==
    /\ procs[p].client \in Waiting \union {"send"}
    /\ Put(p, Failed(procs[p])) /\ UNCHANGED cache

HostStep(p) ==
    \/ Probe(p) \/ ReadHash(p) \/ MakeDir(p) \/ CheckWritable(p) \/ TestAgent(p)
    \/ OpenPart(p) \/ ReadPart(p) \/ CheckSize(p) \/ MovePart(p) \/ CleanOwn(p)
    \/ ScanDir(p) \/ RemoveDir(p) \/ Stored(p) \/ ExecAgent(p) \/ AgentBootstrap(p)

ClientStep(p) ==
    \/ AwaitProbe(p) \/ AwaitHave(p) \/ AwaitStored(p) \/ Send(p) \/ AwaitAccept(p)
    \/ OutputEnds(p)

DeliverNext == \E p \in Procs : HostStep(p) \/ ClientStep(p) \/ HostDies(p) \/ Timeout(p)

-----------------------------------------------------------------------------
(***************************************************************************)
(* deliver.hpp, the installer: what the cache offers for execution is a    *)
(* complete agent, whoever was cut off and whoever else installs at the    *)
(* same time.                                                              *)
(***************************************************************************)
OffersWholeAgents == cache.agents \subseteq cache.whole

(***************************************************************************)
(* deliver.hpp: a live part file means that delivery is in flight from     *)
(* another client and its directory is left alone.  A running installer    *)
(* loses the file it is receiving only to a clean-up that had looked at    *)
(* the directory before the file was there.                                *)
(***************************************************************************)
TransfersAreSpared ==
    \A p \in Procs :
        procs[p].host \in {"head", "size", "move"} /\ ~procs[p].late
            => PartOf(p) \in cache.parts

\* Installers that share a cache do each other no harm.
InstallersGetAlong == OffersWholeAgents /\ TransfersAreSpared

(***************************************************************************)
(* DeliverAgent and the installer never wait for each other: only a slow   *)
(* link can make the client wait until its deadline.                       *)
(***************************************************************************)
NeverWaitForEachOther ==
    \A p \in Procs :
        procs[p].client \in Waiting /\ procs[p].out = <<>>
          => ~(procs[p].host \in {"read", "head", "agent"} /\ procs[p].in = "none")

=============================================================================
