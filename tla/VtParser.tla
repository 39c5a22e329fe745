------------------------------ MODULE VtParser ------------------------------
(***************************************************************************)
(* How bytes become sequences: the state machine of VtParser::FeedByte     *)
(* (src/src/grid/vt_parser.cpp).  Module VtDispatch models what complete   *)
(* sequences do.                                                           *)
(*                                                                         *)
(* A byte stands for its class: CAN or SUB "can", "esc", "bel", another C0 *)
(* control "c0", 20-2F "inter", 30-39 "digit", 3A-3B "sep", 3C-3F "mark",  *)
(* the letters that open a string or a sequence after ESC ("P", "[", "]",  *)
(* and "X" for X ^ _), any other final byte "final", "del", the UTF-8      *)
(* leads "lead1", "lead2" and "lead3" named for what must follow, the      *)
(* continuations "cont" and the invalid leads F8-FF "bad".                 *)
(***************************************************************************)
EXTENDS Integers, Sequences, SequencesExt

CONSTANT BypassLimit    \* BYPASS_LIMIT_BYTES

Leads == {"lead1", "lead2", "lead3"}
Params == {"digit", "sep", "mark"}
Finals == {"P", "[", "]", "X", "final"}
Printable == {"inter"} \cup Params \cup Finals
ByteClasses == Printable \cup Leads \cup {"can", "esc", "bel", "c0", "del", "cont", "bad"}
States == {"ground", "escape", "escapeInter", "csiEntry", "csiParam", "csiInter",
           "csiIgnore", "dcsEntry", "bypass"}

\* Reset: "partial" is true while parameters, intermediates or a private marker
\* are held; "diverged" stands for the grid's mark that the parser lost track.
NewParser == [state |-> "ground", utf8 |-> 0, partial |-> FALSE, osc |-> FALSE,
              bypass |-> 0, diverged |-> FALSE]
Reset(p) == [NewParser EXCEPT !.diverged = p.diverged]

\* TransitionTo(Ground) after a dispatch or an abort.
ToGround(p) == [p EXCEPT !.state = "ground", !.partial = FALSE, !.osc = FALSE, !.bypass = 0]
ToBypass(p, osc) == [p EXCEPT !.state = "bypass", !.osc = osc, !.bypass = 0]
ToEscape(p) == [p EXCEPT !.state = "escape", !.utf8 = 0, !.partial = FALSE]
Collect(p, state) == [p EXCEPT !.state = state, !.partial = TRUE]

\* Payload of a DCS, OSC, APC, PM or SOS.  UTF-8 is not looked at; what is held
\* is not cleared; too much of it ends the string and marks the grid.
FeedBypass(p, b) ==
    LET end(state) == [p EXCEPT !.state = state, !.osc = FALSE, !.bypass = 0]
    IN  CASE b = "can" \/ (b = "bel" /\ p.osc)  -> end("ground")
          [] b = "esc"                          -> end("escape")
          [] OTHER                              ->
               IF p.bypass + 1 >= BypassLimit
               THEN [end("ground") EXCEPT !.diverged = TRUE]
               ELSE [p EXCEPT !.bypass = @ + 1]

FeedEscape(p, b) ==
    CASE b = "inter"                          -> Collect(p, "escapeInter")
      [] b = "P"                              -> [p EXCEPT !.state = "dcsEntry", !.partial = FALSE]
      [] b = "["                              -> [p EXCEPT !.state = "csiEntry", !.partial = FALSE]
      [] b = "]"                              -> ToBypass(p, TRUE)
      [] b = "X"                              -> ToBypass(p, FALSE)
      [] b \in Params \cup {"final"}          -> ToGround(p)
      [] OTHER                                -> p

FeedEscapeInter(p, b) ==
    CASE b = "inter"              -> Collect(p, "escapeInter")
      [] b \in Params \cup Finals -> ToGround(p)
      [] OTHER                    -> p

\* CsiEntry and CsiParam.
FeedCsi(p, b) ==
    CASE b \in Params  -> Collect(p, "csiParam")
      [] b = "inter"   -> Collect(p, "csiInter")
      [] b \in Finals  -> ToGround(p)
      [] OTHER         -> p

FeedCsiInter(p, b) ==
    CASE b = "inter"   -> p
      [] b \in Params  -> [p EXCEPT !.state = "csiIgnore"]
      [] b \in Finals  -> ToGround(p)
      [] OTHER         -> p

FeedCsiIgnore(p, b) == IF b \in Finals THEN ToGround(p) ELSE p

\* The switch over the state.  Printing in Ground leaves the parser alone.
FeedState(p, b) ==
    CASE p.state = "ground"                   -> p
      [] p.state = "escape"                   -> FeedEscape(p, b)
      [] p.state = "escapeInter"              -> FeedEscapeInter(p, b)
      [] p.state \in {"csiEntry", "csiParam"} -> FeedCsi(p, b)
      [] p.state = "csiInter"                 -> FeedCsiInter(p, b)
      [] p.state = "csiIgnore"                -> FeedCsiIgnore(p, b)
      [] p.state = "dcsEntry"                 -> ToBypass(p, FALSE)

\* A byte that continues no character: controls run in any state, a lead counts
\* in Ground only, DEL does nothing.
FeedFresh(p, b) ==
    CASE p.state = "ground" /\ b \in Leads ->
            [p EXCEPT !.utf8 = CASE b = "lead1" -> 1 [] b = "lead2" -> 2 [] b = "lead3" -> 3]
      [] p.state = "ground" /\ b = "bad" -> p
      [] b \in {"bel", "c0", "del"}      -> p
      [] OTHER                           -> FeedState(p, b)

\* A byte that breaks off a character is processed after all.
FeedByte(p, b) ==
    CASE p.state = "bypass"                          -> FeedBypass(p, b)
      [] p.state # "bypass" /\ b = "can"             -> ToGround([p EXCEPT !.utf8 = 0])
      [] p.state # "bypass" /\ b = "esc"             -> ToEscape(p)
      [] p.state # "bypass" /\ p.utf8 > 0 /\ b = "cont" -> [p EXCEPT !.utf8 = @ - 1]
      [] OTHER                                       -> FeedFresh([p EXCEPT !.utf8 = 0], b)

Feed(p, bytes) == FoldLeft(FeedByte, p, bytes)

\* What must hold between bytes: what is held belongs to an open sequence, a
\* character is open in Ground only, a string's count and kind in Bypass only.
ParserClean(p) ==
    /\ p.state \in States /\ p.utf8 \in 0..3 /\ p.bypass \in 0..BypassLimit
    /\ p.partial => p.state \in {"escapeInter", "csiParam", "csiInter", "csiIgnore"}
    /\ p.utf8 > 0 => p.state = "ground"
    /\ (p.osc \/ p.bypass > 0) => p.state = "bypass"
=============================================================================
