---------------------------- MODULE FastMonitor ----------------------------
(***************************************************************************)
(* The pool of climax candidates and the task climax-fast-monitor that     *)
(* polls it: the bounded slice a poll takes and the cursor that moves it,  *)
(* the time to live of a candidate, what an exception in a poll does, and  *)
(* the full scan that feeds the pool while the monitor waits for data.     *)
(*                                                                         *)
(* Both run on one event loop: a step is the code between two awaits, and  *)
(* no step of the scan falls between two monitor steps at pc "working".    *)
(* What an evaluation does to the event is in EventSignals; here it ends,  *)
(* signals or raises.  The journal and the heartbeat are left out.         *)
(***************************************************************************)
EXTENDS Naturals, Sequences, FiniteSets, Selection

CONSTANTS Symbols,
          EventIds,   \* event ids a symbol may have, used again and again
          MaxActive,  \* config.climax_max_active_symbols: keys of one poll
          TTL         \* config.climax_candidate_ttl_minutes, in ticks

ASSUME MonitorAssumption ==
    /\ EventIds \in [Symbols -> SUBSET (Nat \ {0})]
    /\ MaxActive \in Nat \ {0} /\ TTL \in Nat \ {0}
    /\ IsFiniteSet(Symbols)

None == 0

AllKeys == UNION {{<<s, e>> : e \in EventIds[s]} : s \in Symbols}

VARIABLES row,      \* event id of each symbol's event row, persistent
          rowAge,   \* time since that row's event_high_time
          pool,     \* _active_climax_pool, in insertion order
          cursor,   \* _fast_monitor_cursor
          pc,       \* the monitor; "none": it was not started
          rest,     \* keys this poll has not dealt with
          scan,     \* the event the full scan is at: <<symbol, event, age>>
          expired,  \* ghost: keys out of time since their latest high
          missed    \* ghost: polls begun without a key since its latest turn,
                    \* or since a candidate left the pool, if that is later

vars == <<row, rowAge, pool, cursor, pc, rest, scan, expired, missed>>

Candidate == [symbol : Symbols, event : Nat, age : 0 .. TTL]

TypeOK ==
    /\ \A s \in Symbols : row[s] \in EventIds[s] \cup {None}
    /\ rowAge \in [Symbols -> 0 .. TTL]
    /\ pool \in Seq(Candidate)
    /\ cursor \in Nat
    /\ pc \in {"off", "none", "sleep", "fetching", "working", "awaiting"}
    /\ rest \in Seq(AllKeys)
    /\ scan = <<>> \/ scan \in Symbols \X Nat \X (0 .. TTL)
    /\ expired \in SUBSET AllKeys
    /\ missed \in [AllKeys -> Nat]

Init ==
    /\ row = [s \in Symbols |-> None]
    /\ rowAge = [s \in Symbols |-> 0]
    /\ pool = <<>>
    /\ cursor = 0
    /\ pc = "off"
    /\ rest = <<>>
    /\ scan = <<>>
    /\ expired = {}
    /\ missed = [k \in AllKeys |-> 0]

-----------------------------------------------------------------------------
Key(c) == <<c.symbol, c.event>>

KeysOf(p) == {Key(p[i]) : i \in 1 .. Len(p)}

Pooled == KeysOf(pool)

Without(k) == Kept(pool, {i \in DOMAIN pool : Key(pool[i]) # k})

\* Mutant: the symbol's other event stays when the new one is tracked.
ReplacedNone(s, e) == pool

\* The pool without the other events of the symbol.
Replaced(s, e) == Kept(pool, {i \in DOMAIN pool : pool[i].symbol # s \/ pool[i].event = e})

\* What has been missed when the pool becomes p: the count begins again when a
\* candidate leaves, because the cursor is a position and is not moved then.
Missed(p) == IF Pooled \subseteq KeysOf(p) THEN missed ELSE [k \in AllKeys |-> 0]

\* The monitor is not between two awaits.
LoopFree == pc # "working"

-----------------------------------------------------------------------------
(* The full scan.                                                          *)

\* Mutant: an event is taken however old its high is.
TakesAlways(k, a) == k \notin Pooled

Takes(k, a) == k \notin Pooled /\ a < TTL

\* _track_climax_candidate, for an event whose high is a old: other events of
\* the symbol leave the pool, this one is taken unless it is there or out of
\* time.  Then the scan waits for the order book.
Track(s, e, a) ==
    /\ pool' = IF Takes(<<s, e>>, a)
               THEN Append(Replaced(s, e), [symbol |-> s, event |-> e, age |-> a])
               ELSE Replaced(s, e)
    /\ scan' = <<s, e, a>>

ScanFree == scan = <<>> /\ LoopFree /\ pc # "off"

\* A pump of a symbol without an active event: its high may be hours old,
\* and the row is saved only after the wait.
DetectEvent(s, e, a) ==
    /\ ScanFree
    /\ e # row[s]
    /\ Track(s, e, a)
    /\ expired' = IF a >= TTL /\ <<s, e>> \notin Pooled THEN expired \cup {<<s, e>>}
                  ELSE expired \ {<<s, e>>}
    /\ missed' = Missed(pool')
    /\ UNCHANGED <<row, rowAge, cursor, pc, rest>>

\* The scan comes to the active event of a symbol again.
TrackAgain(s) ==
    /\ ScanFree
    /\ row[s] # None
    /\ Track(s, row[s], rowAge[s])
    /\ expired' = IF rowAge[s] >= TTL /\ <<s, row[s]>> \notin Pooled
                  THEN expired \cup {<<s, row[s]>>} ELSE expired
    /\ missed' = Missed(pool')
    /\ UNCHANGED <<row, rowAge, cursor, pc, rest>>

\* A confirmed higher high keeps the event's id and moves its high time: the
\* row is saved, the symbol is done for this cycle.
RenewHigh(s) ==
    /\ ScanFree
    /\ row[s] # None
    /\ rowAge' = [rowAge EXCEPT ![s] = 0]
    /\ expired' = expired \ {<<s, row[s]>>}
    /\ UNCHANGED <<row, pool, cursor, pc, rest, scan, missed>>

\* The scan's evaluation ends and the row is saved; _remove_climax_candidate
\* has run when it signalled or found its signal sent already.
ScanEnds ==
    /\ scan # <<>> /\ LoopFree
    /\ row' = [row EXCEPT ![scan[1]] = scan[2]]
    /\ rowAge' = [rowAge EXCEPT ![scan[1]] = scan[3]]
    /\ \/ pool' = Without(<<scan[1], scan[2]>>)
       \/ UNCHANGED pool
    /\ scan' = <<>>
    /\ missed' = Missed(pool')
    /\ UNCHANGED <<cursor, pc, rest, expired>>

\* Something raises before the row is saved: a new event stays in the pool
\* without a row.
ScanRaises ==
    /\ scan # <<>> /\ LoopFree
    /\ scan' = <<>>
    /\ UNCHANGED <<row, rowAge, pool, cursor, pc, rest, expired, missed>>

-----------------------------------------------------------------------------
(* The monitor.                                                            *)

\* startup: a failed storage check leaves the bot without its monitor.
Boot ==
    /\ pc = "off"
    /\ pc' \in {"sleep", "none"}
    /\ UNCHANGED <<row, rowAge, pool, cursor, rest, scan, expired, missed>>

Keys == [i \in 1 .. Len(pool) |-> Key(pool[i])]

Start == cursor % Len(pool)

\* _select_fast_monitor_keys: the next keys from the cursor on, around.
Selected ==
    LET ordered == SubSeq(Keys, Start + 1, Len(Keys)) \o SubSeq(Keys, 1, Start)
    IN SubSeq(ordered, 1, IF Len(pool) < MaxActive THEN Len(pool) ELSE MaxActive)

PassedOver == Pooled \ {Selected[i] : i \in DOMAIN Selected}

\* Mutant: the cursor moves on from the head of the pool.
PollFromHead ==
    /\ pc = "sleep" /\ pool # <<>>
    /\ rest' = Selected
    /\ cursor' = Len(Selected) % Len(pool)
    /\ missed' = [k \in AllKeys |-> IF k \in PassedOver THEN missed[k] + 1 ELSE 0]
    /\ pc' = "fetching"
    /\ UNCHANGED <<row, rowAge, pool, scan, expired>>

\* A poll begins: the slice is taken, the cursor moves on, candles are asked
\* for.  (A poll of an empty pool changes nothing.)
Poll ==
    /\ pc = "sleep" /\ pool # <<>>
    /\ rest' = Selected
    /\ cursor' = (Start + Len(Selected)) % Len(pool)
    /\ missed' = [k \in AllKeys |-> IF k \in PassedOver THEN missed[k] + 1 ELSE 0]
    /\ pc' = "fetching"
    /\ UNCHANGED <<row, rowAge, pool, scan, expired>>

FramesArrive ==
    /\ pc = "fetching"
    /\ pc' = "working"
    /\ UNCHANGED <<row, rowAge, pool, cursor, rest, scan, expired, missed>>

AtKey(k) == pc = "working" /\ rest # <<>> /\ Head(rest) = k

\* The candidate left the pool while the candles came.
KeyGone(k) ==
    /\ AtKey(k) /\ k \notin Pooled
    /\ rest' = Tail(rest)
    /\ UNCHANGED <<row, rowAge, pool, cursor, pc, scan, expired, missed>>

\* There are no candles for it.
KeySkipped(k) ==
    /\ AtKey(k) /\ k \in Pooled
    /\ rest' = Tail(rest)
    /\ UNCHANGED <<row, rowAge, pool, cursor, pc, scan, expired, missed>>

\* The row is not there yet or is of another event: the candidate is dropped.
KeyReplaced(k) ==
    /\ AtKey(k) /\ k \in Pooled /\ row[k[1]] # k[2]
    /\ pool' = Without(k)
    /\ rest' = Tail(rest)
    /\ missed' = Missed(pool')
    /\ UNCHANGED <<row, rowAge, cursor, pc, scan, expired>>

\* The evaluation begins and waits for derivatives and the order book.
Evaluate(k) ==
    /\ AtKey(k) /\ k \in Pooled /\ row[k[1]] = k[2]
    /\ pc' = "awaiting"
    /\ UNCHANGED <<row, rowAge, pool, cursor, rest, scan, expired, missed>>

\* It ends, with the candidate removed when there is a signal for it.
EvaluationEnds(k) ==
    /\ pc = "awaiting" /\ Head(rest) = k
    /\ \/ pool' = Without(k)
       \/ UNCHANGED pool
    /\ rest' = Tail(rest)
    /\ pc' = "working"
    /\ missed' = Missed(pool')
    /\ UNCHANGED <<row, rowAge, cursor, scan, expired>>

Raises(k) ==
    /\ pc = "awaiting" /\ Head(rest) = k

\* It raises: the poll is over, for the other keys and for the sweep too.
EvaluationRaises(k) ==
    /\ Raises(k)
    /\ rest' = <<>>
    /\ pc' = "sleep"
    /\ UNCHANGED <<row, rowAge, pool, cursor, scan, expired, missed>>

InTime == Kept(pool, {i \in DOMAIN pool : pool[i].age < TTL})

\* The keys are dealt with: candidates past their time leave, the poll ends.
Sweep ==
    /\ pc = "working" /\ rest = <<>>
    /\ pool' = InTime
    /\ expired' = expired \cup {k \in Pooled \ KeysOf(InTime) :
                                   k[2] = row[k[1]] /\ rowAge[k[1]] >= TTL}
    /\ pc' = "sleep"
    /\ missed' = Missed(pool')
    /\ UNCHANGED <<row, rowAge, cursor, rest, scan>>

-----------------------------------------------------------------------------
Older(a) == IF a < TTL THEN a + 1 ELSE TTL

Tick ==
    /\ LoopFree
    /\ rowAge' = [s \in Symbols |-> IF row[s] = None THEN 0 ELSE Older(rowAge[s])]
    /\ pool' = [i \in 1 .. Len(pool) |-> [pool[i] EXCEPT !.age = Older(@)]]
    /\ scan' = IF scan = <<>> THEN scan ELSE <<scan[1], scan[2], Older(scan[3])>>
    /\ UNCHANGED <<row, cursor, pc, rest, expired, missed>>

\* The process stops: the pool, the cursor and both coroutines are lost.
Crash ==
    /\ pc # "off"
    /\ pc' = "off"
    /\ pool' = <<>>
    /\ missed' = Missed(pool')
    /\ cursor' = 0
    /\ rest' = <<>>
    /\ scan' = <<>>
    /\ UNCHANGED <<row, rowAge, expired>>

Monitor ==
    \/ Poll \/ FramesArrive \/ Sweep
    \/ \E k \in AllKeys :
        \/ KeyGone(k) \/ KeySkipped(k) \/ KeyReplaced(k)
        \/ Evaluate(k) \/ EvaluationEnds(k) \/ EvaluationRaises(k)

Next ==
    \/ \E s \in Symbols :
        \/ TrackAgain(s) \/ RenewHigh(s)
        \/ \E e \in EventIds[s], a \in 0 .. TTL : DetectEvent(s, e, a)
    \/ ScanEnds \/ ScanRaises \/ Boot \/ Monitor \/ Tick \/ Crash

Spec == Init /\ [][Next]_vars

-----------------------------------------------------------------------------
(* Properties.                                                             *)

\* The pool never holds two events of one symbol, whatever the scan tracks
\* while the monitor waits, and no event twice: the monitor would evaluate an
\* event the scan has given up.
OneCandidatePerSymbol ==
    \A i, j \in 1 .. Len(pool) : pool[i].symbol = pool[j].symbol => i = j

\* An event that ran out of time comes back only with a new high: the time
\* to live is not refreshed by a scan, a restart or a re-add ("do not refresh
\* TTL on every full scan").
ExpiredStaysOut == expired \cap Pooled = {}

\* "Bounded, fair active-candidate monitor": while candidates only come, none
\* waits longer for its next place in a poll's slice than the polls that a
\* round over one candidate of every symbol takes, wherever the cursor is and
\* however often the pool has grown.  (Once candidates leave, the cursor may
\* pass over one again and again; and a slice may end at an exception.)
TurnComesRound ==
    \A k \in Pooled : missed[k] * MaxActive < Cardinality(Symbols)
=============================================================================
