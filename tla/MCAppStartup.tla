---------------------------- MODULE MCAppStartup ----------------------------
(* Four pairs, and up to two pipelines: one pair is always free to rotate  *)
(* to, and both slots can be replaced in one rotation.                     *)
EXTENDS AppStartup

CONSTANTS p1, p2, p3, p4

Pairs == {p1, p2, p3, p4}
ByHand == <<p2>>

(* A pair without traps or flaws.                                          *)
Calm(sym, turnover, sector, cost) ==
  [sym |-> sym, turnover |-> turnover, sector |-> sector, cost |-> cost,
   online |-> TRUE, tight |-> TRUE, banned |-> FALSE, unfit |-> {},
   levels |-> 20, wall |-> 10, asymmetry |-> 10, gap |-> 5, thin |-> FALSE,
   candles |-> 50, wick |-> 60, hunts |-> 0, breakouts |-> 0, depth |-> 0,
   chop |-> 30, efficiency |-> 50, reversal |-> 0, funding |-> 10,
   merit |-> turnover \div 20, strong |-> 5]

(* Two pairs to trade, the third too thinly traded to be looked at.        *)
Lively == {Calm(p1, 2000, "major", 20), Calm(p2, 1500, "L1", 30),
           [Calm(p3, 400, "meme", 5) EXCEPT !.unfit = {"LowLiquidity"}]}
(* One to trade: the second is of the same sector, the third full of traps.*)
Mixed == {Calm(p1, 2000, "major", 20), Calm(p2, 1500, "major", 30),
          [Calm(p3, 1000, "meme", 5) EXCEPT !.wall = 40, !.thin = TRUE, !.chop = 80]}
(* Nothing to trade.                                                       *)
Dull == {[Calm(p1, 900, "major", 20) EXCEPT !.strong = 1],
         [Calm(p2, 800, "L1", 30) EXCEPT !.levels = 3, !.funding = 250]}
(* Two that rank equal, one too dear for half of the funds; and one too    *)
(* dear for all of them, so that only the symbol of a position is left.    *)
Dear == {Calm(p1, 2000, "major", 60), Calm(p2, 2000, "L1", 30)}
TooDear == {Calm(p1, 2000, "major", 200)}

Long(s) == [sym |-> s, side |-> "Long"]
Short(s) == [sym |-> s, side |-> "Short"]
Held(held, entries) == [held |-> held, entries |-> entries,
                        stops |-> held \cup {Long(p3)}]

Cases ==
  {[markets |-> {Lively, Dull}, exchange |-> Held({}, {Long(p1)})],
   [markets |-> {Mixed}, exchange |-> Held({Short(p4)}, {Long(p4)})],
   [markets |-> {Dear, TooDear}, exchange |-> Held({Long(p4), Short(p4)}, {})]}
=============================================================================
