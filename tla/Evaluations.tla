---------------------------- MODULE Evaluations ----------------------------
(***************************************************************************)
(* The evaluations of one event, minute by minute: what the market shows,  *)
(* which strategies admit it, and the shadow lifecycle of the volume       *)
(* climax that _evaluate_and_send_climax stores in the event's row and     *)
(* advances from one evaluation to the next.                               *)
(*                                                                         *)
(* From one evaluation to the next one feature moves to another of its     *)
(* Levels, never further than MaxMoves from one of the Bases; each is a    *)
(* market on which some strategy is near its decision.                     *)
(***************************************************************************)
EXTENDS ClimaxRules

CONSTANTS Configs,   \* configurations, records of thresholds
          Shipped,   \* the one of them that the lifecycle runs under
          Bases,     \* features to start from
          Levels,    \* the values a feature takes, per feature
          MaxMoves,  \* bound: features that differ from a base
          MaxRoot    \* bound: minutes followed

\* What AppConfig accepts of it; "off" is a guard that is not enabled.
ValidConfig(c) ==
    /\ 0 <= c.pullback_min /\ c.pullback_min <= c.pullback_max
    /\ \A bound \in {c.wick_min, c.rejection_min, c.volz_min, c.vwap_min, c.event_ret_1h,
                     c.watch_min_score} : bound >= 0
    /\ \A k \in DOMAIN c.book : c.book[k] >= 0
    /\ c.squeeze \in {"off", "warn_only", "score_penalty", "watch_only", "block_extreme"}
    /\ c.min_public_grade \in {"A", "B", "C"}
    /\ c.send_grade_c \in BOOLEAN
    /\ c.low_liquidity \in {"block", "warn"} /\ c.grade_c \in {"watch_only", "suppress"}

ASSUME EvaluationsAssumption ==
    /\ Shipped \in Configs /\ MaxMoves \in Nat /\ MaxRoot \in Nat
    /\ \A c \in Configs : ValidConfig(c)
    /\ \A b \in Bases : DOMAIN Levels \subseteq DOMAIN b

\* Numbers where the lifecycle compares them; time is no feature that moves.
ASSUME LifecycleAssumption ==
    /\ {Shipped.volume_window, Shipped.volume_lifetime, Shipped.volume_min_ret_5m} \subseteq Int
    /\ \A b \in Bases : {"age", "top", "ret5"} \subseteq DOMAIN b /\ b.ret5 \in Int
    /\ {"top", "ret5"} \subseteq DOMAIN Levels /\ "age" \notin DOMAIN Levels
    /\ Levels.top \subseteq Int /\ Levels.ret5 \subseteq Int

\* Not checked by AppConfig: without it the fallback might be ready for a market
\* that the live branch admits as well.
ASSUME LiveRetAssumption == Shipped.volume_min_ret_5m > 0

\* Not checked by AppConfig: with less, the grade B of a thin book or a missing
\* open interest lifts a branch that its score has graded C.
ASSUME MinScoreAssumption == \A c \in Configs : c.climax_min_score >= 70

\* Features a rule looks at, and those of them that are numbers whenever the
\* rules compare them, or may also be missing.
Features == {"ret5", "ret15", "ret1h", "ret4h", "oi", "oi1h", "status", "funding", "wick",
             "rejection", "red", "volz", "vol", "windows", "price", "top", "after", "close",
             "age", "vwap", "body", "breakout", "ripe", "rest", "book"}
Numbers == {"ret15", "ret1h", "ret4h", "wick", "rejection", "volz", "price", "vwap", "body",
            "rest"}
Optional == {"oi", "funding"}
Thresholds == {"pullback_min", "pullback_max", "wick_min", "rejection_min", "volz_min",
               "vwap_min", "event_ret_1h", "watch_min_score", "climax_min_score",
               "volume_min_volz", "volume_max_oi", "volume_min_rejection",
               "low_min_rejection", "low_max_age"}

Choices == {"squeeze", "min_public_grade", "send_grade_c"}

Books == [{"spread", "slippage", "depth1", "depth2"} -> Int]

IsTyped(k, v) ==
    /\ k \in Numbers => v \in Int
    /\ k \in Optional => v = None \/ v \in Int
    /\ k = "book" => v = None \/ v \in Books

\* Numbers are numbers.
ASSUME FeaturesAssumption ==
    /\ \A b \in Bases : Features \subseteq DOMAIN b /\ \A k \in Features : IsTyped(k, b[k])
    /\ \A k \in DOMAIN Levels : \A v \in Levels[k] : IsTyped(k, v)
    /\ \A c \in Configs :
        /\ Thresholds \cup Choices \cup {"book", "climax_book"} \subseteq DOMAIN c
        /\ \A k \in Thresholds : c[k] \in Int
        /\ c.book \in Books /\ c.climax_book \in Books

VARIABLES f,     \* features of the last evaluation
          root,  \* minutes since event_start_time
          life,  \* the volume_climax_* entries of event_features_snapshot
          quiet  \* ghost: minutes since a new high that the event's row tells of

vars == <<f, root, life, quiet>>

\* high is volume_climax_latest_high relative to the event's, window the minutes
\* since confirmation_started_at; before its first evaluation it is "NONE".
Life == [state : {"NONE", "CLIMAX_WATCHING", "FALLBACK_READY", "EXPIRED"},
         high : Int, window : Nat]

\* No candle has closed since the event's high.
NothingAfter == [closed |-> 0, low |-> None, peak |-> None, retest |-> None]

\* A complete 5m candle is made of closed 1m candles, and the confirmation
\* window has one of them for a minute.
Possible(x) ==
    /\ x.after.closed <= x.age
    /\ x.after.peak # None => x.after.peak <= High(x)
    /\ x.after.retest # None => x.after.peak # None /\ x.after.retest <= x.after.peak

Near(x) == \E b \in Bases : Cardinality({k \in DOMAIN Levels : x[k] # b[k]}) <= MaxMoves

TypeOK ==
    /\ \A k \in DOMAIN Levels : f[k] \in Levels[k] \cup {b[k] : b \in Bases}
    /\ Possible(f) /\ root \in 0 .. MaxRoot /\ f.age <= root
    /\ life \in Life /\ quiet \in Nat

Fresh(b) == [b EXCEPT !.after = NothingAfter, !.top = EventHigh, !.age = 0]

Init ==
    /\ f \in {Fresh(b) : b \in Bases}
    /\ root = 0 /\ quiet = 0
    /\ life = [state |-> "NONE", high |-> 0, window |-> 0]

-----------------------------------------------------------------------------
(* advance_volume_climax_lifecycle.                                        *)

\* is_volume_climax_candidate: the branch has no veto, or its vetoed evaluation
\* is the one selected.
VolumeConcerned(x) ==
    Volume(x, Shipped).vetoes = {} \/ Selected(x, Shipped).branch = "VOLUME"

\* Reasons to go on watching.
FallbackVetoes(x, window) == Reasons([
    insufficient_closed_candles_after_high |-> x.after.closed < Shipped.volume_min_closed,
    confirmation_window_open |-> window < Shipped.volume_window,
    price_acceleration_resumed |-> x.ret5 > 0,
    active_short_squeeze |-> Negative(x.oi) /\ x.ret5 > 0,
    oi_continuation |-> x.oi = None \/ x.oi >= 0,
    rejection_missing |-> x.rejection < Shipped.volume_min_rejection,
    liquidity_not_confirmed |-> x.book = None \/ Warned(x, Shipped),
    entry_distance_not_confirmed |-> TooFar(x, Shipped.volume_max_distance)])

\* An expired root keeps what it knew; nothing else does for good.
Expire(known) == [known EXCEPT !.state = "EXPIRED"]

\* Mutant: a new high leaves the confirmation window as it is.
NewHighRunsOn(known, over) == [known EXCEPT !.state = "CLIMAX_WATCHING", !.high = over]

\* A new high begins a confirmation window (and a revision: ShadowAttempts).
NewHigh(known, over) ==
    [known EXCEPT !.state = "CLIMAX_WATCHING", !.high = over, !.window = 0]

Watch(known, x) ==
    [known EXCEPT !.state =
        IF FallbackVetoes(x, known.window) = {} THEN "FALLBACK_READY" ELSE "CLIMAX_WATCHING"]

\* What the evaluation starts from: the row, or, the first time, the high that
\* the frame shows now and a confirmation that began with the event's high.
Known(x, stored) ==
    IF stored.state # "NONE" THEN stored
    ELSE [stored EXCEPT !.high = High(x) - EventHigh, !.window = x.age]

Advance(x, minutes, stored) ==
    LET known == Known(x, stored)
        over == High(x) - EventHigh
    IN  IF minutes > Shipped.volume_lifetime THEN Expire(known)
        ELSE IF over > known.high THEN NewHigh(known, over)
        ELSE Watch(known, x)

-----------------------------------------------------------------------------
\* What is stored, a minute later.
Aged == IF life.state = "NONE" THEN life ELSE [life EXCEPT !.window = @ + 1]

Minute == root < MaxRoot /\ root' = root + 1

\* One feature moves and the event is evaluated: by the scan, or by the fast
\* monitor, which may see a closed high that the event does not know of yet.
Evaluate ==
    /\ Minute
    /\ \E k \in DOMAIN Levels : \E v \in Levels[k] :
        LET x == [f EXCEPT ![k] = v, !.age = @ + 1]
        IN  /\ Near(x) /\ Possible(x) /\ x.top >= f.top
            /\ f' = x
            /\ quiet' = IF x.top > f.top /\ life.state # "NONE" THEN 0 ELSE quiet + 1
            /\ life' = IF VolumeConcerned(x) THEN Advance(x, root + 1, Aged) ELSE Aged

\* reset_after_confirmed_high: the scan makes a closed high that is above it the
\* event's and evaluates nothing; what is stored is now so much lower.
ConfirmHigh ==
    /\ Minute
    /\ \E top \in Levels.top, b \in Bases :
        /\ top > EventHigh /\ top >= f.top
        /\ f' = Fresh(b)
        /\ quiet' = IF top > f.top THEN 0 ELSE quiet + 1
        /\ life' = IF life.state = "NONE" THEN life
                   ELSE [Aged EXCEPT !.high = @ - (top - EventHigh)]

Next == Evaluate \/ ConfirmHigh

Spec == Init /\ [][Next]_vars

-----------------------------------------------------------------------------
(* Properties.                                                             *)

Strategies == {"BASELINE", "VOLUME", "LOW"}

Admitted(s, x, c) ==
    CASE s = "BASELINE" -> Admits(x, c)
      [] s = "VOLUME" -> Actionable(Volume(x, c), c)
      [] s = "LOW" -> Actionable(Low(x, c), c)

\* The book of y is worse than that of x, or unknown.
WorseBook(x, y) ==
    x # None /\ (y = None \/ (OverLimits(y, x) # {} /\ OverLimits(x, y) = {}))

\* Of two grades the better one is sent if the other is: there is a choice of
\* min_public_signal_grade and send_grade_c_to_telegram that sends A and C only.
GradesNest(c) == c.send_grade_c => c.min_public_grade # "A"

\* From x to y, k has moved to what every strategy, or s, counts as a risk.  The
\* score of the baseline rewards a rising open interest, which is left out for
\* it, and a return of the hour that makes the quality of the event: it is a
\* risk where another return makes as much.
Riskier(k, x, y, s) ==
    \/ k \in {"wick", "rejection", "volz", "vwap"} /\ y[k] < x[k]
    \/ k = "body" /\ y[k] > x[k]
    \/ k = "ret1h" /\ y[k] > x[k] /\ EventQuality(y) = EventQuality(x)
    \/ k = "funding" /\ x[k] # None /\ Negative(y[k]) /\ y[k] < x[k]
    \/ k = "oi" /\ s # "BASELINE" /\ x[k] # None /\ Above(y[k], x[k])
    \/ k = "status" /\ y[k] # "OK"
    \/ k = "breakout" /\ y[k]
    \/ k \in {"red", "windows", "ripe"} /\ ~y[k]
    \/ k = "book" /\ WorseBook(x[k], y[k])

\* A market that differs from the one refused a minute ago in one feature only,
\* for the worse, is refused as well: by each strategy, in every mode of the
\* squeeze guard and of the low-volume liquidity risk, where the grades nest.
RiskNeverAdmits ==
    [][\A k \in DOMAIN Levels : f'[k] # f[k] /\ f'.age > 0 =>
        \A s \in Strategies : Riskier(k, f, f', s) =>
            \A c \in Configs : GradesNest(c) /\ Admitted(s, f', c) => Admitted(s, f, c)]_vars

\* Whoever admits an event knows its order book and keeps to the limits: the
\* climax branches to their own, the baseline, whose liquidity level stops at
\* one broken limit only to watch, to every one of its stricter ones.
SignalIsTradable ==
    \A c \in Configs : \A s \in Strategies : Admitted(s, f, c) =>
        /\ f.book # None
        /\ OverLimits(f.book, IF s = "BASELINE" THEN c.book ELSE c.climax_book) = {}
        /\ (s = "LOW" /\ c.low_liquidity = "block") => ~Warned(f, c)

\* The lowest score of a grade that is sent, and what a guard needs so that all
\* it takes is watched: pullbacks begin where the high is no longer near,
\* WATCHes are on, and a score that the penalty lowers is still worth one.
PublicScore(c) ==
    IF c.send_grade_c THEN 50 ELSE [A |-> 80, B |-> 65, C |-> 50][c.min_public_grade]

WatchesTheRest(c) ==
    /\ c.squeeze \in {"score_penalty", "block_extreme"} => c.pullback_min >= 100
    /\ c.squeeze = "watch_only" => c.watch /\ c.watch_min_score <= PublicScore(c)
    /\ c.squeeze = "score_penalty" =>
        /\ c.watch /\ c.watch_min_score <= PublicScore(c) - 10
        /\ c.grade_c = "watch_only"

\* Where the grades nest a mode of the squeeze guard only takes signals away (else
\* "score_penalty" may make a C that is sent of a B that is not), and what it
\* takes is still watched, given the room for it that WatchesTheRest asks for.
\* With it "block_extreme" takes none: a market with as many risks as that fails
\* a filter or a limit anyway.
GuardOnlyTakes ==
    \A c \in Configs : LET warning == [c EXCEPT !.squeeze = "warn_only"] IN
        /\ GradesNest(c) /\ Admits(f, c) => Admits(f, warning)
        /\ WatchesTheRest(c) /\ Admits(f, warning) => Baseline(f, c) \in {"SIGNAL", "WATCH"}

\* The fallback is ready only for a root within its lifetime that the live
\* branch refuses, and only after a whole confirmation window without a new
\* high, whichever coroutine and branch saw the high first.  A high that closes
\* before the lifecycle's first evaluation does not count: that evaluation
\* takes it for the high it begins with, and the window for the event's.
ReadyIsQuiet ==
    [][f'.age > 0 /\ VolumeConcerned(f') /\ life'.state = "FALLBACK_READY" =>
        /\ root' <= Shipped.volume_lifetime /\ quiet' >= Shipped.volume_window
        /\ Volume(f', Shipped).vetoes # {}]_vars

\* strategy_audit.md: a low-volume extension failure requires "no new high".
LowWithoutNewHigh ==
    Actionable(Low(f, Shipped), Shipped) =>
        f.top <= EventHigh + (EventHigh * Shipped.low_tolerance) \div 10000
=============================================================================
