-------------------------------- MODULE Armor --------------------------------
(***************************************************************************)
(* The armored blocks that carry bootstrap frames through a terminal       *)
(* (src/src/wire/armor): base64, the writer, and the scanner that finds a  *)
(* block in a stream of anything.  A character is a pair: <<"c", n>> is    *)
(* the n-th of the alphabet, Padding is '=', and one pair stands for each  *)
(* of the markers, for a newline, a carriage return and any other text.    *)
(***************************************************************************)
EXTENDS Integers, SequencesExt

CONSTANTS LineMax,      \* MAX_ARMOR_LINE, in characters
          LineWidth,    \* ARMOR_LINE_WIDTH
          TextMax       \* MAX_ARMOR_TEXT

ASSUME ArmorAssumption ==
    /\ {LineMax, LineWidth, TextMax} \subseteq Nat \ {0} /\ LineWidth <= LineMax

Padding == <<"=", 0>>
ArmorBegin == <<"begin", 0>>
ArmorEnd == <<"end", 0>>
Newline == <<"nl", 0>>
Return == <<"cr", 0>>

IsArmorText(c) == c = Padding \/ c[1] = "c"

\* The k-th of the four characters of a group of one to three bytes.
Sextet(group, k) ==
    LET byte(i) == IF i <= Len(group) THEN group[i] ELSE 0
        all == (byte(1) * 256 + byte(2)) * 256 + byte(3)
    IN IF k > Len(group) + 1 THEN Padding ELSE <<"c", (all \div 64^(4 - k)) % 64>>

Base64Encode(bytes) ==
    [i \in 1..(((Len(bytes) + 2) \div 3) * 4) |->
        LET first == ((i - 1) \div 4) * 3
        IN Sextet(SubSeq(bytes, first + 1, Min({first + 3, Len(bytes)})),
                  ((i - 1) % 4) + 1)]

Malformed == [err |-> "MalformedField"]

\* Padding at the end only, and no bits set below the last whole byte.
Base64Decode(text) ==
    LET n == Len(text)
        padding == IF n = 0 \/ text[n] # Padding THEN 0
                   ELSE IF n >= 2 /\ text[n - 1] = Padding THEN 2 ELSE 1
        value(i) == IF i > n - padding THEN 0 ELSE text[i][2]
        group(g) == ((value(4*g + 1) * 64 + value(4*g + 2)) * 64
                     + value(4*g + 3)) * 64 + value(4*g + 4)
        spare == CASE padding = 0 -> 1 [] padding = 1 -> 256 [] padding = 2 -> 65536
    IN IF n % 4 # 0 \/ (\E i \in 1..(n - padding) : text[i][1] # "c") THEN Malformed
       ELSE IF n > 0 /\ group(n \div 4 - 1) % spare # 0 THEN Malformed
       ELSE [err |-> "ok",
             bytes |-> [i \in 1..((n \div 4) * 3 - padding) |->
                 (group((i - 1) \div 3) \div 256^(2 - ((i - 1) % 3))) % 256]]
-------------------------------------------------------------------------------
\* The text cut into lines of LineWidth, each with its newline.
Lines(text) ==
    FlattenSeq([i \in 1..((Len(text) + LineWidth - 1) \div LineWidth) |->
        SubSeq(text, (i - 1) * LineWidth + 1, Min({i * LineWidth, Len(text)}))
        \o <<Newline>>])

WriteArmor(frame) ==
    <<Newline, ArmorBegin, Newline>> \o Lines(Base64Encode(frame)) \o <<ArmorEnd, Newline>>

NewScanner == [line |-> <<>>, tooLong |-> FALSE, inBlock |-> FALSE, text |-> <<>>,
               ready |-> Malformed]

Abandon(s) == [s EXCEPT !.inBlock = FALSE, !.text = <<>>]

\* A block that never ended, then a fresh one.
Reopen(s) == [s EXCEPT !.text = <<>>]

EndLine(s) ==
    LET bare == s.line
        line == IF bare # <<>> /\ Last(bare) = Return THEN Front(bare) ELSE bare
        next == [s EXCEPT !.line = <<>>, !.tooLong = FALSE, !.ready = Malformed]
    IN IF ~ s.inBlock
       THEN IF ~ s.tooLong /\ line = <<ArmorBegin>>
            THEN [next EXCEPT !.inBlock = TRUE, !.text = <<>>] ELSE next
       ELSE IF s.tooLong THEN Abandon(next)
       ELSE IF line = <<ArmorEnd>>
       THEN [next EXCEPT !.inBlock = FALSE, !.text = <<>>,
                         !.ready = Base64Decode(s.text)]
       ELSE IF line = <<ArmorBegin>> THEN Reopen(next)
       ELSE IF \/ line = <<>> \/ \E i \in DOMAIN line : ~ IsArmorText(line[i])
               \/ Len(line) > TextMax - Len(s.text)
       THEN Abandon(next)
       ELSE [next EXCEPT !.text = @ \o line]

\* One character of Feed; ready holds the block it ended, if it did.
FeedChar(s, c) ==
    IF c = Newline THEN EndLine(s)
    ELSE IF Len(s.line) < LineMax
    THEN [s EXCEPT !.line = Append(@, c), !.ready = Malformed]
    ELSE [s EXCEPT !.tooLong = TRUE, !.ready = Malformed]
=============================================================================
