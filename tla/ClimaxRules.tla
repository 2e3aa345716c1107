---------------------------- MODULE ClimaxRules ----------------------------
(***************************************************************************)
(* The rules of the climax shorts: the branches VOLUME_CLIMAX_UNWIND and   *)
(* LOW_VOLUME_EXTENSION_FAILURE of evaluate_climax_bundle, on closed       *)
(* candles only, as the bot calls it.                                      *)
(*                                                                         *)
(* The facts of the frame: f.top is the highest closed 1m candle,          *)
(* f.after what came after the event's high: closed (candles of the        *)
(* confirmation window), low (lowest 5m close in it), peak (highest 5m     *)
(* candle) and retest (highest one after the window), f.close the last 5m  *)
(* close; f.vol the volume of two legs and of the last candle.             *)
(***************************************************************************)
EXTENDS BaselineRules

\* data["event_high"]: the event's high or a later one.
High(f) == Larger(EventHigh, f.top)

\* entry_distance_below_high_pct.
Distance(f) == ((High(f) - f.price) * 10000) \div High(f)

\* A distance of exactly zero counts as an unknown one, far away.
TooFar(f, bound) == Distance(f) = 0 \/ Distance(f) > bound

\* _score and _grade of the conditions that hold.
ClimaxScore(n) == Lesser(100, 15 * n + 10)
ClimaxGrade(score) == IF score >= 85 THEN "A" ELSE IF score >= 70 THEN "B" ELSE "C"

\* The names of the reasons that hold.
Reasons(holds) == {r \in DOMAIN holds : holds[r]}
Count(holds) == Cardinality({i \in DOMAIN holds : holds[i]})

\* Mutant: an unknown book is let through.
LiquidityVetoesKnown(f, c) ==
    IF f.book = None THEN {}
    ELSE IF OverLimits(f.book, c.climax_book) # {} THEN {"climax_liquidity_block"} ELSE {}

LiquidityVetoes(f, c) ==
    IF f.book = None THEN {"liquidity_not_confirmed"}
    ELSE IF OverLimits(f.book, c.climax_book) # {} THEN {"climax_liquidity_block"} ELSE {}

\* liquidity_warning: admitted, but thinner than the baseline asks for.
Warned(f, c) ==
    /\ f.book # None /\ LiquidityVetoes(f, c) = {}
    /\ OverLimits(f.book, c.book) \cap {"depth1", "depth2"} # {}

\* A branch's evaluation.
Evaluation(branch, score, grade, vetoes) ==
    [branch |-> branch, score |-> score, grade |-> grade, vetoes |-> vetoes]

Actionable(e, c) ==
    e.vetoes = {} /\ e.score >= c.climax_min_score /\ e.grade \in {"A", "B"}

-----------------------------------------------------------------------------
(* VOLUME_CLIMAX_UNWIND.                                                   *)

LegRatio(f) == IF f.vol.prev > 0 THEN (100 * f.vol.cur) \div f.vol.prev ELSE 0

\* No volume to compare with counts as three times as much: the snapshot that
\* _volume_ratio asks never holds previous_leg_volume.
VolumeRatio(f) == IF LegRatio(f) = 0 THEN 300 ELSE LegRatio(f)

Extreme(f, c) == VolumeRatio(f) >= c.volume_min_ratio \/ f.volz >= c.volume_min_volz

VolumeVetoes(f, c) ==
    LiquidityVetoes(f, c) \cup Reasons([
        oi_missing |-> f.oi = None \/ f.status # "OK",
        price_oi_accelerating_together |->
            f.oi # None /\ f.status = "OK" /\ f.oi >= 0 /\ f.ret5 > 0,
        not_extreme |-> ~Extreme(f, c),
        price_acceleration_below_threshold |-> f.ret5 < c.volume_min_ret_5m,
        pump_below_threshold |-> f.ret15 < c.volume_min_ret_15m,
        rejection_missing |-> f.rejection < c.volume_min_rejection,
        too_far |-> TooFar(f, c.volume_max_distance)])

Volume(f, c) ==
    LET score == ClimaxScore(Count(<<
                    f.ret5 >= c.volume_min_ret_5m, Extreme(f, c),
                    f.oi # None /\ f.oi < c.volume_max_oi,
                    f.rejection >= c.volume_min_rejection, FailedRetest(f)>>))
    IN  Evaluation("VOLUME", score, IF Warned(f, c) THEN "B" ELSE ClimaxGrade(score),
                   VolumeVetoes(f, c))

-----------------------------------------------------------------------------
(* LOW_VOLUME_EXTENSION_FAILURE.                                           *)

\* Without a previous leg the last candle is what the current one is held to.
LowRatio(f) ==
    LET prev == IF f.vol.prev > 0 THEN f.vol.prev ELSE Larger(f.vol.last, 1)
        cur == IF f.vol.cur > 0 THEN f.vol.cur ELSE f.vol.last
    IN  (100 * cur) \div prev

Efficiency(f) == IF LegRatio(f) = 0 THEN LowRatio(f) ELSE LegRatio(f)

Tolerated(f, c) == High(f) + (High(f) * c.low_tolerance) \div 10000

LowerHigh(f, c) == f.after.retest # None /\ f.after.retest <= Tolerated(f, c)

\* The last 5m candle failed, or closed well below the highest retest.
RetestFailed(f) ==
    \/ FailedRetest(f)
    \/ f.after.retest # None /\ 1000 * f.close < 997 * f.after.retest

\* A 5m close below breakout_reference, 0.5 % under the event's own high: the
\* break of the microstructure as well.
BrokeDown(f) == f.after.low # None /\ f.after.low < EventHigh - 50

LowVetoes(f, c) ==
    LiquidityVetoes(f, c) \cup Reasons([
        incomparable_volume_windows |-> ~f.windows,
        insufficient_closed_candles_after_high |-> f.after.closed < c.low_min_closed,
        confirmation_window_expired |-> f.age > c.low_max_age,
        new_high_before_delivery |-> Above(f.after.peak, Tolerated(f, c)),
        extension_below_threshold |-> f.ret5 < c.low_min_extension,
        second_leg_volume_confirmed |->
            LowRatio(f) > c.low_max_ratio \/ Efficiency(f) > c.low_max_ratio,
        close_not_below_breakout_reference |-> ~BrokeDown(f),
        lower_high_or_failed_retest_missing |-> ~(LowerHigh(f, c) /\ RetestFailed(f)),
        oi_accelerating_up |-> Above(f.oi, 99),
        active_short_squeeze |->
            Negative(f.oi) /\ 2 * f.ret5 > c.low_min_extension /\ ~RetestFailed(f),
        price_acceleration_resumed |-> f.ret5 > 0 /\ ~RetestFailed(f),
        rejection_missing |-> f.rejection < c.low_min_rejection,
        too_far |-> TooFar(f, c.low_max_distance),
        high_liquidity_risk |-> c.low_liquidity = "block" /\ Warned(f, c)])

Low(f, c) ==
    LET score == ClimaxScore(Count(<<
                    TRUE, LowRatio(f) <= c.low_max_ratio, Efficiency(f) <= c.low_max_ratio,
                    BrokeDown(f), LowerHigh(f, c) /\ RetestFailed(f), BrokeDown(f),
                    f.oi = None \/ Negative(f.oi)>>))
        warned == c.low_liquidity = "warn" /\ Warned(f, c)
        held == IF warned THEN "B" ELSE ClimaxGrade(score)
    IN  Evaluation("LOW", IF warned THEN Lesser(score, c.climax_min_score) ELSE score,
                   IF f.oi = None \/ (f.oi < 0 /\ held = "A") THEN "B" ELSE held,
                   LowVetoes(f, c))

-----------------------------------------------------------------------------
(* evaluate_climax_bundle.                                                 *)

\* The branch with the higher score, of two with the same the first.
Better(e1, e2) == IF e2.score > e1.score THEN e2 ELSE e1

NoAdmission == Evaluation("NONE", 0, "C", {"no_climax_admission"})

\* An actionable branch comes before any other, a vetoed one before none.
Selected(f, c) ==
    LET v == Volume(f, c)
        l == Low(f, c)
        Pick(vIn, lIn) == IF vIn /\ lIn THEN Better(v, l) ELSE IF vIn THEN v ELSE l
    IN  IF Actionable(v, c) \/ Actionable(l, c)
        THEN Pick(Actionable(v, c), Actionable(l, c))
        ELSE IF v.vetoes # {} \/ l.vetoes # {} THEN Pick(v.vetoes # {}, l.vetoes # {})
        ELSE NoAdmission
=============================================================================
