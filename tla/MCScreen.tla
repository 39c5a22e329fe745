------------------------------ MODULE MCScreen ------------------------------
(* A screen of three rows and three columns with two lines of scrollback.  *)
EXTENDS Screen

Csi1(final) == CsiNums(<<>>, final)

\* Screens to start from: empty; full, with a pair, a colour and scrollback;
\* a pair at the right edge with a wrap pending; on the alternate screen.
MCPrepared ==
    { <<>>,
      <<Char("W"), Char("a"), Char("W"), Sgr(Nums(<<44>>)), Char("q"),
        Ctl("CR"), Ctl("LF"), Char("a"), Char("W"), Ctl("CR"), Ctl("LF"), Char("q")>>,
      <<Char("a"), Char("W"), CsiNums(<<2, 3>>, "r"), Dec(6, "h")>>,
      <<Char("q"), Char("a"), Sgr(<<Num(38), Num(2), Num(200), Num(9), Num(9), Num(4), Sub(3), Num(58), Num(5), Num(9)>>),
        Char("a"), Dec(1049, "h"), Char("W"), Char("q")>> }
MCChars == {"a", "q", "W"}
MCControls == {"CR", "LF", "HT", "SO"}
MCEscapes == {Esc("", "7"), Esc("", "8"), Esc("", "M"), Esc("(", "0"), Esc(")", "0")}
\* The parameter 257 of EL is 1 in the eight bits that are looked at.
MCSequences ==
    { Csi1("A"), Csi1("B"), Csi1("D"), Cup(2, 3), Csi1("J"), Csi1("K"),
      CsiNums(<<257>>, "K"), Csi1("X"), Csi1("P"), Csi1("@"), Csi1("L"), Csi1("M"),
      Csi1("S"), Csi1("T"), CsiNums(<<2, 3>>, "r"), CsiNums(<<4>>, "h"),
      Dec(6, "h"), Dec(7, "l"), Dec(47, "h"), Dec(1049, "h"), Dec(1049, "l"),
      Sgr(Nums(<<42>>)), Csi("", <<>>, "!", "p"), Csi1("b") }
\* Each is clamped: to four rows of two columns by the number of cells, to two of
\* three by the number of columns, to five of one by the number of rows.
MCSizes == {<<2, 9>>, <<9, 2>>, <<0, 9>>}
=============================================================================
