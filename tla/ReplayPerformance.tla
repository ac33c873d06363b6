------------------------- MODULE ReplayPerformance -------------------------
(***************************************************************************)
(* The performance report of a replay session, computed from its persisted *)
(* trades and equity marks by replay_performance_journal.                  *)
(***************************************************************************)
EXTENDS ReplayExecution

\* calculate_trade_metrics: the amounts and counts, closed trades first.
calculate_trade_metrics(closed, open) ==
    LET wins == {t \in closed : t.realizedPnl > 0}
        losses == {t \in closed : t.realizedPnl < 0}
    IN  [closedTrades |-> Cardinality(closed), openTrades |-> Cardinality(open),
         winningTrades |-> Cardinality(wins), losingTrades |-> Cardinality(losses),
         breakevenTrades |-> Cardinality(closed \ (wins \cup losses)),
         grossProfit |-> MapThenSumSet(LAMBDA t : t.realizedPnl, wins),
         grossLoss |-> -MapThenSumSet(LAMBDA t : t.realizedPnl, losses),
         netRealizedPnl |-> MapThenSumSet(LAMBDA t : t.realizedPnl, closed),
         feesPaid |-> MapThenSumSet(LAMBDA t : t.fees, closed \cup open)]

NewDrawdown == [peak |-> InitialBalance, current |-> InitialBalance, maxAmount |-> 0]

AdvanceDrawdown(d, equity) ==
    LET peak == Max({d.peak, equity})
    IN  [peak |-> peak, current |-> equity, maxAmount |-> Max({d.maxAmount, peak - equity})]

calculate_drawdown(points) ==
    LET run[k \in 0..Len(points)] ==
            IF k = 0 THEN NewDrawdown ELSE AdvanceDrawdown(run[k - 1], points[k].equity)
    IN  run[Len(points)]

\* The marks of the returned curve, as zero-based indexes.
equity_sample_indexes(count, limit) ==
    IF count <= limit THEN 0..(count - 1)
    ELSE {(k * (count - 1)) \div (limit - 1) : k \in 0..(limit - 1)}
=============================================================================
