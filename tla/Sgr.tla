-------------------------------- MODULE Sgr --------------------------------
(***************************************************************************)
(* Select Graphic Rendition: how the terminal reads it (Grid::ApplySgr in  *)
(* src/src/grid/grid.cpp) and how a snapshot writes it (EmitSgr and the    *)
(* colour reduction in src/src/grid/snapshot.cpp).                         *)
(*                                                                         *)
(* An attribute is named by the SGR number that sets it, so a pen's attrs  *)
(* are a set of numbers.  A colour is <<>> (default), <<index>> or         *)
(* <<r, g, b>>.  A parameter is a number and whether a colon precedes it.  *)
(***************************************************************************)
EXTENDS GridLine, Sequences, FiniteSetsExt

Num(n) == [n |-> n, colon |-> FALSE]
Sub(n) == [n |-> n, colon |-> TRUE]
Nums(ns) == [i \in DOMAIN ns |-> Num(ns[i])]

\* The parameters of the first one's that hang on it by colons.
SubCount(ps) ==
    Max({k \in 0..(Len(ps) - 1) : \A i \in 2..(k + 1) : ps[i].colon})

\* The colour of 38, 48 or 58: 5;n, 2;r;g;b, 5:n, 2:r:g:b or 2::r:g:b, each
\* value cut to eight bits.  "used" counts what is consumed after the first.
ColourOf(ps) ==
    LET subs == SubCount(ps)
        kind == IF Len(ps) > 1 THEN ps[2].n ELSE 0
        byte(i) == ps[i].n % 256
        rgb(i) == {<<byte(i), byte(i + 1), byte(i + 2)>>}
    IN  CASE subs >= 2 /\ kind = 5            -> [used |-> subs, colour |-> {<<byte(3)>>}]
          [] subs >= 5 /\ kind = 2            -> [used |-> subs, colour |-> rgb(4)]
          [] subs = 4 /\ kind = 2             -> [used |-> subs, colour |-> rgb(3)]
          [] subs = 0 /\ kind = 5 /\ Len(ps) >= 3 -> [used |-> 2, colour |-> {<<byte(3)>>}]
          [] subs = 0 /\ kind = 2 /\ Len(ps) >= 5 -> [used |-> 4, colour |-> rgb(3)]
          [] OTHER                            -> [used |-> subs, colour |-> {}]

WithColour(pen, field, colours) ==
    [f \in DOMAIN pen |-> IF f = field /\ colours # {}
                          THEN CHOOSE c \in colours : TRUE ELSE pen[f]]

\* One parameter with what belongs to it: the new pen and how many are used.
SgrStep(pen, ps) ==
    LET n == ps[1].n
        styled == Len(ps) > 1 /\ ps[2].colon /\ ps[2].n <= 5
        just(p) == [pen |-> p, used |-> 1]
        under(k, used) ==
            [pen |-> [pen EXCEPT !.style = k,
                                 !.attrs = IF k = 0 THEN @ \ {4} ELSE @ \cup {4}],
             used |-> used]
        colour(p) == [pen |-> p, used |-> 1 + ColourOf(ps).used]
    IN  CASE n = 0                        -> just(NoPen)
          [] n \in {1, 2, 3, 5, 7, 8, 9}  -> just([pen EXCEPT !.attrs = @ \cup {n}])
          [] n = 4 /\ styled              -> under(ps[2].n, 2)
          [] n = 4 /\ ~styled             -> under(1, 1)
          [] n = 21                       -> under(2, 1)
          [] n = 22                       -> just([pen EXCEPT !.attrs = @ \ {1, 2}])
          [] n = 24                       -> under(0, 1)
          [] n \in {23, 25, 27, 28, 29}   -> just([pen EXCEPT !.attrs = @ \ {n - 20}])
          [] n \in 30..37                 -> just([pen EXCEPT !.fg = <<n - 30>>])
          [] n \in 90..97                 -> just([pen EXCEPT !.fg = <<n - 82>>])
          [] n \in 40..47                 -> just([pen EXCEPT !.bg = <<n - 40>>])
          [] n \in 100..107               -> just([pen EXCEPT !.bg = <<n - 92>>])
          [] n = 39                       -> just([pen EXCEPT !.fg = <<>>])
          [] n = 49                       -> just([pen EXCEPT !.bg = <<>>])
          [] n = 59                       -> just([pen EXCEPT !.underline = 0])
          [] n = 38                       -> colour(WithColour(pen, "fg", ColourOf(ps).colour))
          [] n = 48                       -> colour(WithColour(pen, "bg", ColourOf(ps).colour))
          \* The underline keeps an index only: a true colour is dropped.
          [] n = 58 -> colour(WithColour(pen, "underline",
                         {c[1] : c \in {d \in ColourOf(ps).colour : Len(d) = 1}}))
          [] OTHER                        -> just(pen)

RECURSIVE ApplySgr(_, _)
ApplySgr(pen, ps) ==
    IF ps = <<>> THEN pen
    ELSE LET one == SgrStep(pen, ps)
         IN  ApplySgr(one.pen, SubSeq(ps, one.used + 1, Len(ps)))

(***************************************************************************)
(* EmitSgr: nothing if the terminal's pen already is the wanted one, else  *)
(* reset + attributes + foreground, and a second sequence for background   *)
(* and underline colour if there are any.  Each is a parameter list.       *)
(***************************************************************************)
ColourParams(base, c) ==
    CASE c = <<>>                     -> <<>>
      [] Len(c) = 1 /\ c[1] < 8       -> Nums(<<base + c[1]>>)
      [] Len(c) = 1 /\ c[1] \in 8..15 -> Nums(<<base + 60 + c[1] - 8>>)
      [] Len(c) = 1 /\ c[1] > 15      -> Nums(<<base + 8, 5>> \o c)
      [] Len(c) = 3                   -> Nums(<<base + 8, 2>> \o c)

\* In the order the code tests them; a style above 1 hangs on the 4.
AttrParams(pen) ==
    LET one(a) == CASE a \notin pen.attrs           -> <<>>
                    [] a = 4 /\ pen.style > 1       -> <<Num(4), Sub(pen.style)>>
                    [] OTHER                        -> <<Num(a)>>
    IN  one(1) \o one(2) \o one(3) \o one(4) \o one(5) \o one(7) \o one(8) \o one(9)

EmitSgr(pen, new) ==
    IF pen = new THEN <<>>
    ELSE <<Nums(<<0>>) \o AttrParams(new) \o ColourParams(30, new.fg)>>
         \o (IF new.bg = <<>> /\ new.underline = 0 THEN <<>>
             ELSE <<ColourParams(40, new.bg)
                    \o (IF new.underline = 0 THEN <<>>
                        ELSE Nums(<<58, 5, new.underline>>))>>)

(***************************************************************************)
(* TrueColorTo256 and NormalizeCell: the reductions of the degrade ladder. *)
(***************************************************************************)
CubeSteps == <<0, 95, 135, 175, 215, 255>>
Squared(x) == x * x
Distance(c, d) == Squared(c[1] - d[1]) + Squared(c[2] - d[2]) + Squared(c[3] - d[3])

\* Per channel the first nearest step of the colour cube, against the grey
\* nearest to the mean; the cube wins a tie.
TrueColorTo256(c) ==
    LET off(v, i) == Squared(v - CubeSteps[i])
        step(v) == Min({i \in 1..6 : \A j \in 1..6 : off(v, i) <= off(v, j)})
        at == [k \in 1..3 |-> step(c[k])]
        cube == [k \in 1..3 |-> CubeSteps[at[k]]]
        mean == (c[1] + c[2] + c[3]) \div 3
        grey == IF mean < 3 THEN 0 ELSE Min({23, (mean - 3) \div 10})
        level == 8 + 10 * grey
    IN  IF Distance(<<level, level, level>>, c) < Distance(cube, c)
        THEN 232 + grey
        ELSE 16 + 36 * (at[1] - 1) + 6 * (at[2] - 1) + at[3] - 1

NormalizePen(pen, mode) ==
    LET to256(c) == IF Len(c) = 3 THEN <<TrueColorTo256(c)>> ELSE c
    IN  CASE mode = "full"  -> pen
          [] mode = "256"   -> [pen EXCEPT !.fg = to256(@), !.bg = to256(@)]
          [] mode = "none"  -> [pen EXCEPT !.fg = <<>>, !.bg = <<>>]
=============================================================================
