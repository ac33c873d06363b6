------------------------------ MODULE MCReplay ------------------------------
(***************************************************************************)
(* Instance of Replay for TLC: three candles.  A long position gaps        *)
(* through its stop in one tape, ruinously in another and reaches its      *)
(* target in the third.  A short one follows it unless the account is      *)
(* gone: it reaches its target in the first tape, is open when the session *)
(* ends in the third, and gaps through its stop where a revision joins the *)
(* first two candles of the first tape to the last of the third.  The      *)
(* default fee, the risk of grade A+.                                      *)
(***************************************************************************)
EXTENDS Replay, TLC

Candle(o, h, l, c) == [open |-> o, high |-> h, low |-> l, close |-> c]

MCSignals == <<"Buy", "Sell", "Buy">>
MCStopDistance == <<1, 5, 5>>

Falling == <<Candle(1000, 1000, 990, 1000), Candle(990, 1000, 980, 990), Candle(990, 990, 940, 970)>>
Ruinous == <<Candle(1000, 1000, 990, 1000), Candle(850, 860, 840, 850), Candle(850, 865, 848, 860)>>
Rising == <<Candle(1000, 1000, 990, 1000), Candle(1000, 1010, 1000, 1005), Candle(1005, 1008, 998, 1000)>>

MCTapes == {Falling, Rising, Ruinous}
Symmetry == Permutations(Proc) \cup Permutations(Request)
=============================================================================
