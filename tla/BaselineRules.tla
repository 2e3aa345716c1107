--------------------------- MODULE BaselineRules ---------------------------
(***************************************************************************)
(* The rules of the baseline pullback short: SignalEngine.analyze with its *)
(* filters, its score, the squeeze guard and the limits on the order book. *)
(*                                                                         *)
(* f are the features of one evaluation, c the configuration.  Percents,   *)
(* ratios and z-scores are integers in hundredths; a price is in units in  *)
(* which the event's high is 10000, so that the pullback is their          *)
(* difference; points of the score are in hundredths until it is rounded.  *)
(* None stands for a value that could not be had.                          *)
(***************************************************************************)
EXTENDS Integers, FiniteSets

CONSTANT None

EventHigh == 10000

Lesser(a, b) == IF a < b THEN a ELSE b
Larger(a, b) == IF a > b THEN a ELSE b

\* n points if the condition holds.
If(condition, n) == IF condition THEN n ELSE 0

Above(v, bound) == v # None /\ v > bound

\* pullback_from_high_pct and distance_to_event_high_pct are one number.
Pullback(f) == EventHigh - f.price

\* latest_failed_retest of the last complete 5m candle.
FailedRetest(f) == f.wick >= 12 /\ f.rejection >= 50 /\ f.red

-----------------------------------------------------------------------------
(* The order book: None, or [spread, slippage, depth1, depth2].            *)

\* The limits that a book breaks.
OverLimits(book, limits) ==
    {k \in {"spread", "slippage"} : book[k] > limits[k]}
        \cup {k \in {"depth1", "depth2"} : book[k] < limits[k]}

Severe(book, limits) ==
    \/ \E k \in {"spread", "slippage"} : 2 * book[k] > 3 * limits[k]
    \/ \E k \in {"depth1", "depth2"} : 2 * book[k] < limits[k]

\* _liquidity_block_level.
LiquidityLevel(f, c) ==
    IF f.book = None THEN "block"
    ELSE LET over == OverLimits(f.book, c.book)
         IN  IF Severe(f.book, c.book) \/ Cardinality(over) >= 2 THEN "block"
             ELSE IF over # {} THEN "watch" ELSE "ok"

-----------------------------------------------------------------------------
(* Filters and risk flags.                                                 *)

Shallow(f, c) == Pullback(f) > 0 /\ Pullback(f) < c.pullback_min
WeakRejection(f, c) == f.wick < c.wick_min /\ f.rejection < c.rejection_min

CoreFilters(f, c) ==
    {k \in {"dist_to_vwap", "rejection", "volume", "pullback"} :
        CASE k = "dist_to_vwap" -> f.vwap >= c.vwap_min
          [] k = "rejection" -> ~WeakRejection(f, c)
          [] k = "volume" -> f.volz >= c.volz_min
          [] k = "pullback" -> Pullback(f) \in c.pullback_min .. c.pullback_max}

AllCoreFilters == {"dist_to_vwap", "rejection", "volume", "pullback"}

\* Mutant: a book that is too thin is left to the level of the engine.
BreakoutRiskBookless(f, c) == f.breakout \/ f.body > 100

BreakoutRisk(f, c) ==
    \/ f.breakout \/ f.body > 100
    \/ f.book # None /\ OverLimits(f.book, c.book) # {}

NearHigh(f) == Pullback(f) < 100

Penalty(f, c) ==
    Lesser(40,
        If(Shallow(f, c), 8) + If(NearHigh(f), 4) + If(WeakRejection(f, c), 8)
      + If(f.vwap < c.vwap_min + 100, 6)
      + If(f.breakout, 12) + If(f.body > 100, 10) + If(~FailedRetest(f), 4)
      + If(Shallow(f, c) /\ WeakRejection(f, c) /\ ~FailedRetest(f) /\ NearHigh(f), 6)
      + If(f.book = None, 10))

-----------------------------------------------------------------------------
(* The score.                                                              *)

Scale(v, from, to, points) ==
    IF v <= from THEN 0 ELSE IF v >= to THEN points
    ELSE ((v - from) * points) \div (to - from)

IdealBand(v, ideal, width, points) ==
    LET distance == IF v > ideal THEN v - ideal ELSE ideal - v
    IN  IF distance >= width THEN 0 ELSE points - (distance * points) \div width

\* The part of event_quality that the strongest of three returns earns.
EventQuality(f) ==
    Larger(Scale(f.ret15, 600, 1200, 500),
           Larger(Scale(f.ret1h, 800, 1500, 500), Scale(f.ret4h, 2000, 3500, 500)))

\* raw_total.  f.rest is what EMA distance, close position, range, range of the
\* event and place in the zone add, values that no rule looks at otherwise.
Merit(f, c) ==
    Scale(f.vwap, 600, 1200, 1000) + Scale(f.vwap, c.vwap_min, c.vwap_min + 400, 500)
  + Scale(f.wick, 12, 25, 800) + Scale(f.rejection, 80, 160, 800) + If(FailedRetest(f), 200)
  + Scale(f.volz, 40, 200, 600) + IdealBand(Pullback(f), 350, 350, 1000)
  + If(Above(f.oi, 0), 200) + If(Above(f.oi1h, 0), 200) + If(Above(f.funding, 0), 100)
  + EventQuality(f) + f.rest

\* Rounded to the nearest point.
SetupScore(f, c) ==
    (Larger(0, Lesser(10000, Merit(f, c) - 100 * Penalty(f, c))) + 50) \div 100

-----------------------------------------------------------------------------
(* The squeeze guard.                                                      *)

Negative(v) == v # None /\ v < 0

SqueezeScore(f, c) ==
    If(Negative(f.funding) /\ f.ret1h >= c.event_ret_1h, 12)
  + If(Above(f.oi, 0) /\ f.ret15 > 0, 6) + If(Above(f.oi1h, 0) /\ f.ret1h > 0, 5)
  + If(Shallow(f, c), 6) + If(~FailedRetest(f), 6) + If(WeakRejection(f, c), 6)
  + If(NearHigh(f), 6) + If(f.breakout, 12)
  + (IF f.book = None THEN 0
     ELSE LET over == OverLimits(f.book, c.book)
          IN  If("spread" \in over, IF 2 * f.book.spread > 3 * c.book.spread THEN 14 ELSE 8)
            + If("slippage" \in over, 8) + If("depth1" \in over, 10) + If("depth2" \in over, 8))

\* Mutant: the level starts where HIGH should.
SqueezeLevelEarly(f, c) ==
    LET score == SqueezeScore(f, c)
    IN  IF score >= 24 THEN "EXTREME" ELSE IF score >= 12 THEN "MEDIUM" ELSE "LOW"

SqueezeLevel(f, c) ==
    LET score == SqueezeScore(f, c)
    IN  IF score >= 34 THEN "EXTREME" ELSE IF score >= 24 THEN "HIGH"
        ELSE IF score >= 12 THEN "MEDIUM" ELSE "LOW"

Guards(f, c) == c.squeeze # "off" /\ SqueezeLevel(f, c) # "LOW"

BlockSignal(f, c) == c.squeeze = "block_extreme" /\ SqueezeLevel(f, c) = "EXTREME"
ForceWatch(f, c) == c.squeeze = "watch_only" /\ Guards(f, c)

\* _squeeze_penalty, which only the mode score_penalty has.
SqueezePenalty(f, c) ==
    IF c.squeeze # "score_penalty" THEN 0
    ELSE [LOW |-> 0, MEDIUM |-> 6, HIGH |-> 10, EXTREME |-> 16][SqueezeLevel(f, c)]

\* Some blocker or squeeze reason that _derive_blockers would list.
HasBlocker(f, c) ==
    \/ "pullback" \notin CoreFilters(f, c) \/ "rejection" \notin CoreFilters(f, c)
    \/ Pullback(f) > 0 /\ Pullback(f) < Larger(200, c.pullback_min)
    \/ ~FailedRetest(f)
    \/ f.book = None
    \/ LiquidityLevel(f, c) # "ok" /\ f.book.spread > 0
    \/ f.funding = None \/ (Negative(f.funding) /\ f.ret1h >= c.event_ret_1h)
    \/ f.oi = None /\ f.oi1h = None

-----------------------------------------------------------------------------
(* SignalEngine.analyze.                                                   *)

Score(f, c) == Larger(0, SetupScore(f, c) - SqueezePenalty(f, c))

GradeOf(score) == IF score >= 80 THEN "A" ELSE IF score >= 65 THEN "B" ELSE "C"

\* _public_grade_allowed.
PublicGrade(grade, c) ==
    \/ grade = "C" /\ c.send_grade_c
    \/ grade \in [A |-> {"A"}, B |-> {"A", "B"}, C |-> {"A", "B", "C"}][c.min_public_grade]

\* Some core filter is failed by a little and the others hold.
CoreWatchFlag(f, c) ==
    LET failed == AllCoreFilters \ CoreFilters(f, c)
    IN  /\ failed \subseteq {"rejection", "volume"}
        /\ \/ /\ "rejection" \in failed
              /\ 100 * f.wick >= 85 * c.wick_min \/ 100 * f.rejection >= 85 * c.rejection_min
           \/ "volume" \in failed /\ 100 * f.volz >= Lesser(85 * c.volz_min, 6900)

Admits(f, c) ==
    /\ f.ripe
    /\ CoreFilters(f, c) = AllCoreFilters
    /\ Score(f, c) >= 50 /\ PublicGrade(GradeOf(Score(f, c)), c)
    /\ LiquidityLevel(f, c) # "block" /\ ~BlockSignal(f, c) /\ ~BreakoutRisk(f, c)
    /\ ~ForceWatch(f, c)

\* _is_watch_candidate, and what grade_c_mode makes of a grade that is not sent.
Watches(f, c) ==
    LET hidden == ~PublicGrade(GradeOf(Score(f, c)), c) /\ GradeOf(Score(f, c)) = "C"
    IN  /\ f.ripe /\ c.watch /\ Score(f, c) >= c.watch_min_score
        /\ ~(hidden /\ c.grade_c = "suppress")
        /\ \/ hidden
           \/ /\ ~BlockSignal(f, c)
              /\ \/ HasBlocker(f, c) \/ CoreWatchFlag(f, c)
                 \/ LiquidityLevel(f, c) = "watch" \/ ForceWatch(f, c)
                 \/ CoreFilters(f, c) # AllCoreFilters

\* The type of the decision, if there is one.
Baseline(f, c) ==
    IF Admits(f, c) THEN "SIGNAL" ELSE IF Watches(f, c) THEN "WATCH" ELSE "NONE"
=============================================================================
