-------------------------- MODULE ReplayExecution --------------------------
(***************************************************************************)
(* The simulated execution of one replay step: the strategy's decision at  *)
(* each candle, exits and entries of the single simulated trade, fees,     *)
(* limited liability and the equity marks.  Amounts are integers in the    *)
(* money quantum, so the ROUND_DOWN of _quantize is exact on sums and      *)
(* truncates products and quotients, none of which is negative.            *)
(***************************************************************************)
EXTENDS Integers, Sequences, FiniteSets, FiniteSetsExt

CONSTANTS
    N,               \* candles of the selected range, at 1..N
    Signals,         \* the signal the votes give at each candle
    StopDistance,    \* 1.5 ATR at each candle
    RiskPct,         \* GRADE_RISK_PCT of the grade
    FeeBps,          \* replayFeeBps
    LeverageCap,     \* maxLeverage
    InitialBalance

\* execution_config: the bounds of the fee and of the leverage of a session.
ExecutionConfig(fee, leverage) == fee \in 0..100 /\ leverage \in 1..10

ASSUME ExecutionAssumption ==
    /\ N \in Nat \ {0, 1}
    /\ Signals \in [1..N -> {"Buy", "Sell", "WAIT"}]
    /\ StopDistance \in [1..N -> Nat \ {0}]
    /\ RiskPct \in 1..100
    /\ ExecutionConfig(FeeBps, LeverageCap)
    /\ InitialBalance \in Nat \ {0}

BPS_DIVISOR == 10000

\* normalize_replay_candle: positive prices, the high and the low bound the others.
ValidCandle(c) ==
    /\ {c.open, c.high, c.low, c.close} \subseteq Nat \ {0}
    /\ c.high >= c.open /\ c.high >= c.close
    /\ c.low <= c.open /\ c.low <= c.close

NoTrade == [entryTime |-> 0]

\* evaluate: the votes of the indicators are given by Signals, an eligible one
\* carries a stop at 1.5 ATR and a target at twice that distance.
evaluate(i, c) ==
    [eligible |-> Signals[i] # "WAIT",
     signal |-> Signals[i],
     stopLoss |-> IF Signals[i] = "Buy" THEN c.close - StopDistance[i] ELSE c.close + StopDistance[i],
     takeProfit |-> IF Signals[i] = "Buy" THEN c.close + 2 * StopDistance[i]
                                          ELSE c.close - 2 * StopDistance[i]]

Fee(price, quantity) == (price * quantity * FeeBps) \div BPS_DIVISOR

GrossPnl(side, entry, exit, quantity) ==
    (IF side = "Buy" THEN exit - entry ELSE entry - exit) * quantity

\* The loss the account takes is capped at the balance it has.
LimitedLiabilityDelta(raw, available) == Max({raw, -Max({0, available})})

\* _exit_decision: the stop wins when a candle reaches both, a gap through the
\* stop fills at the open, and the entry candle never exits.  Price 0: no exit.
ExitPrice(t, i, c) ==
    LET buy == t.side = "Buy"
        stopHit == IF buy THEN c.low <= t.stop ELSE c.high >= t.stop
        targetHit == IF buy THEN c.high >= t.target ELSE c.low <= t.target
    IN  CASE i <= t.entryTime -> 0
          [] i > t.entryTime /\ stopHit -> IF buy THEN Min({c.open, t.stop}) ELSE Max({c.open, t.stop})
          [] i > t.entryTime /\ ~stopHit /\ targetHit -> t.target
          [] OTHER -> 0

\* Mutant: the entry fee is left out of the trade's result.
CloseTradeGross(x, i, price) ==
    LET t == x.open
        exitFee == Fee(price, t.quantity)
        delta == LimitedLiabilityDelta(GrossPnl(t.side, t.entryPrice, price, t.quantity) - exitFee,
                                       x.balance)
    IN  [x EXCEPT !.open = NoTrade,
                  !.balance = @ + delta,
                  !.equity = x.balance + delta,
                  !.closed = @ \cup {[t EXCEPT !.exitTime = i, !.realizedPnl = delta, !.fees = @ + exitFee]}]

\* _close_trade: the balance moves by the capped result, the trade's own result
\* is net of the entry fee that was paid when it opened.
CloseTrade(x, i, price) ==
    LET t == x.open
        exitFee == Fee(price, t.quantity)
        delta == LimitedLiabilityDelta(GrossPnl(t.side, t.entryPrice, price, t.quantity) - exitFee,
                                       x.balance)
    IN  [x EXCEPT !.open = NoTrade,
                  !.balance = @ + delta,
                  !.equity = x.balance + delta,
                  !.closed = @ \cup {[t EXCEPT !.exitTime = i, !.realizedPnl = delta - t.fees,
                                               !.fees = @ + exitFee]}]

\* _open_trade's quantity: the risked amount over the stop distance, capped by leverage.
EntryQuantity(d, entry, equity) ==
    LET distance == IF d.signal = "Buy" THEN entry - d.stopLoss ELSE d.stopLoss - entry
    IN  Min({((equity * RiskPct) \div 100) \div distance, (equity * LeverageCap) \div entry})

\* No trade may be opened, whatever the decision.
Barred(x, final) == x.open # NoTrade \/ final \/ x.equity <= 0 \/ x.balance <= 0

\* _open_trade takes positive prices only: a stop or a target that is none raises,
\* and the whole transaction fails.
Raises(x, d, final) == ~Barred(x, final) /\ (d.stopLoss <= 0 \/ d.takeProfit <= 0)

\* Why an eligible decision opens no trade.
Skipped(x, i, c, d, final) ==
    \/ Barred(x, final)
    \/ IF d.signal = "Buy" THEN ~(d.stopLoss < c.close /\ c.close < d.takeProfit)
                           ELSE ~(d.takeProfit < c.close /\ c.close < d.stopLoss)
    \/ EntryQuantity(d, c.close, x.equity) <= 0
    \/ Fee(c.close, EntryQuantity(d, c.close, x.equity)) >= x.balance

\* _open_trade: a second row for the entry candle breaks the primary key, and
\* the whole transaction fails.
OpenTrade(x, i, c, d) ==
    LET quantity == EntryQuantity(d, c.close, x.equity)
        fee == Fee(c.close, quantity)
    IN  [x EXCEPT !.open = [entryTime |-> i, side |-> d.signal, entryPrice |-> c.close,
                            quantity |-> quantity, stop |-> d.stopLoss, target |-> d.takeProfit,
                            fees |-> fee, exitTime |-> 0, realizedPnl |-> 0],
                  !.balance = @ - fee,
                  !.failed = @ \/ \E t \in x.closed : t.entryTime = i]

MarkedEquity(x, c) ==
    IF x.open = NoTrade THEN x.balance
    ELSE Max({0, x.balance + GrossPnl(x.open.side, x.open.entryPrice, c.close, x.open.quantity)})

\* The three stages of the loop over the candles of a step, and the mark.
ExitStage(x, i, c) ==
    IF x.open # NoTrade /\ ExitPrice(x.open, i, c) # 0
    THEN CloseTrade(x, i, ExitPrice(x.open, i, c)) ELSE x

EntryStage(x, i, c, final) ==
    LET d == evaluate(i, c)
    IN  CASE d.eligible /\ Raises(x, d, final) -> [x EXCEPT !.failed = TRUE]
          [] d.eligible /\ ~Raises(x, d, final) /\ ~Skipped(x, i, c, d, final) -> OpenTrade(x, i, c, d)
          [] OTHER -> x

SessionEndStage(x, i, c, final) ==
    IF final /\ x.open # NoTrade THEN CloseTrade(x, i, c.close) ELSE x

Mark(x, i, c) ==
    [x EXCEPT !.equity = MarkedEquity(x, c),
              !.marks = Append(@, [candle |-> i, equity |-> MarkedEquity(x, c)])]

ExecuteCandle(x, i, c, final) ==
    Mark(SessionEndStage(EntryStage(ExitStage(x, i, c), i, c, final), i, c, final), i, c)

\* Candles lo..hi from the account x; the last one ends a completed session.
ExecuteCandles(x, candles, lo, hi, completed) ==
    LET run[i \in (lo - 1)..hi] ==
            IF i = lo - 1 THEN x ELSE ExecuteCandle(run[i - 1], i, candles[i], completed /\ i = hi)
    IN  run[hi]

FreshAccount == [balance |-> InitialBalance, equity |-> InitialBalance, open |-> NoTrade,
                 closed |-> {}, marks |-> <<>>, failed |-> FALSE]
=============================================================================
