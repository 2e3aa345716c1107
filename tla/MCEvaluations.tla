--------------------------- MODULE MCEvaluations ---------------------------
(***************************************************************************)
(* Evaluations for TLC: the thresholds of config.yaml, with shorter times, *)
(* the modes a configuration may choose, one market for each strategy and  *)
(* one for the fallback, and what may move.                                *)
(***************************************************************************)
EXTENDS Evaluations

Book(spread, slippage, depth1, depth2) ==
    [spread |-> spread, slippage |-> slippage, depth1 |-> depth1, depth2 |-> depth2]

\* Depths in thousands of USDT.
Config(squeeze, liquidity) == [
    book |-> Book(30, 35, 30, 60), climax_book |-> Book(80, 100, 5, 10),
    pullback_min |-> 240, pullback_max |-> 800, wick_min |-> 15, rejection_min |-> 80,
    volz_min |-> 80, vwap_min |-> 750, event_ret_1h |-> 800,
    squeeze |-> squeeze, min_public_grade |-> "B", send_grade_c |-> FALSE,
    watch |-> TRUE, watch_min_score |-> 45, grade_c |-> "watch_only",
    climax_min_score |-> 70,
    volume_min_ratio |-> 300, volume_min_volz |-> 250, volume_min_ret_5m |-> 300,
    volume_min_ret_15m |-> 1200, volume_max_oi |-> -100, volume_min_rejection |-> 200,
    volume_max_distance |-> 2000, volume_min_closed |-> 2,
    volume_window |-> 2, volume_lifetime |-> 4,
    low_min_extension |-> 500, low_max_ratio |-> 70, low_min_rejection |-> 200,
    low_max_distance |-> 1500, low_max_age |-> 4, low_min_closed |-> 2,
    low_tolerance |-> 30, low_liquidity |-> liquidity]

\* The grade C is sent too: a WATCH starts lower.
SendingC(squeeze) ==
    [Config(squeeze, "warn") EXCEPT !.send_grade_c = TRUE, !.watch_min_score = 40]

MCShipped == Config("warn_only", "warn")
MCConfigs == {MCShipped, Config("score_penalty", "block"),
              Config("watch_only", "warn"), Config("block_extreme", "block"),
              SendingC("score_penalty"), SendingC("watch_only")}

Deep == Book(10, 10, 90, 200)

\* Two candles closed after the high, one 5m candle below the breakout and a
\* lower retest.
Failure == [closed |-> 2, low |-> 9900, peak |-> 9960, retest |-> 9960]

\* A pullback that the baseline admits.
Pulled == [
    ret5 |-> 0 - 50, ret15 |-> 900, ret1h |-> 900, ret4h |-> 2000, oi |-> 20, oi1h |-> 20,
    status |-> "OK", funding |-> 1, wick |-> 25, rejection |-> 160, red |-> TRUE, volz |-> 150,
    vol |-> [prev |-> 1000, cur |-> 1500, last |-> 300], windows |-> TRUE,
    price |-> 9650, top |-> EventHigh, after |-> Failure, close |-> 9650, age |-> 0,
    vwap |-> 900, body |-> 50, breakout |-> FALSE, ripe |-> TRUE, rest |-> 3000, book |-> Deep]

\* A volume climax.
Climax == [Pulled EXCEPT !.ret5 = 400, !.ret15 = 1300, !.oi = 0 - 150, !.rejection = 250,
                         !.volz = 300, !.vol = [prev |-> 1000, cur |-> 3200, last |-> 600]]

\* An extension on little volume that failed.
Extension == [Pulled EXCEPT !.ret5 = 550, !.oi = 0 - 50, !.rejection = 250,
                            !.vol = [prev |-> 1000, cur |-> 600, last |-> 100]]

\* A climax that has calmed down, its confirmation window over with no 5m candle
\* complete: with one that broke down, the low-volume branch has the higher
\* score, is selected, vetoed or not, and the lifecycle stands still.
Calm == [Climax EXCEPT !.ret5 = 0 - 50, !.after = [NothingAfter EXCEPT !.closed = 2]]

MCBases == {Pulled, Climax, Extension, Calm}

MCLevels == [
    ret5 |-> {0 - 50, 400, 550}, ret1h |-> {500, 900, 1500}, oi |-> {None, 0 - 150, 20, 120},
    status |-> {"OK", "MISSING"}, funding |-> {None, 0 - 1, 1},
    wick |-> {10, 25}, rejection |-> {60, 160, 250}, red |-> BOOLEAN, volz |-> {60, 150, 300},
    vol |-> {[prev |-> 0, cur |-> 600, last |-> 100], [prev |-> 1000, cur |-> 600, last |-> 100]},
    windows |-> BOOLEAN,
    price |-> {9990, 9850, 9650}, top |-> {EventHigh, 10100},
    after |-> {NothingAfter, [NothingAfter EXCEPT !.closed = 2], Failure,
               [Failure EXCEPT !.peak = 10100, !.retest = 10100]},
    vwap |-> {800, 900}, body |-> {50, 120}, breakout |-> BOOLEAN, ripe |-> BOOLEAN,
    rest |-> {1500, 2500},
    book |-> {None, Deep, Book(10, 10, 20, 200), Book(40, 10, 90, 200), Book(50, 40, 20, 40),
              Book(90, 10, 90, 200)}]
=============================================================================
