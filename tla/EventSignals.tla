---------------------------- MODULE EventSignals ----------------------------
(***************************************************************************)
(* From a tracked pump to a signal, for one symbol: the row event_states   *)
(* keeps of it, the tables signals and watch_candidates, the in-memory     *)
(* candidate pool, and the two coroutines that read the row, wait, and     *)
(* write a whole row back: the full scan, whose copy is as old as the      *)
(* start of its cycle, and the fast monitor.                               *)
(*                                                                         *)
(* A step is the code from one await to the next.  What the market does to *)
(* a decision (a pump qualifies, a new high, a kill price, an evaluation)  *)
(* is a free choice; so is the passing of 15 minutes after a signal and of *)
(* the candidate's TTL.  The configuration is climax_short_enabled.        *)
(***************************************************************************)
EXTENDS Naturals, Sequences

CONSTANTS MaxTracks,   \* bound: events the symbol is tracked for
          MaxSignals,  \* bound: rows of signals
          MaxWatches,  \* bound: rows of watch_candidates per event and type
          MaxFaults,   \* bound: process stops and failed transactions
          Live,        \* kinds whose *_live_delivery_enabled is set
          FastMonitor, \* climax_fast_monitor_enabled
          Shadow,      \* volume_climax_lifecycle_shadow_enabled
          ReuseIds     \* a new tracking may get the id of an earlier one

Climax == {"VOLUME", "LOW"}  \* VOLUME_CLIMAX_UNWIND, LOW_VOLUME_EXTENSION_FAILURE
Kinds == Climax \cup {"BASELINE"}
WatchTypes == {"EARLY", "ZONE"}  \* EARLY_PUMP_WATCH, the WATCH_ types of the zone

ASSUME SignalsAssumption ==
    /\ MaxTracks \in Nat /\ MaxSignals \in Nat /\ MaxWatches \in Nat /\ MaxFaults \in Nat
    /\ Live \subseteq Kinds
    /\ FastMonitor \in BOOLEAN /\ Shadow \in BOOLEAN /\ ReuseIds \in BOOLEAN

Scan == "scan"
Fast == "fast"
Workers == {Scan, Fast}

Statuses == {"NONE", "PUMP_DETECTED", "PULLBACK_OBSERVED", "SHORT_ZONE_ACTIVE",
             "SIGNAL_SENT", "EXPIRED"}

\* An EventState, in the table or in a coroutine's hands.  track numbers the
\* times build_event returned one; event is its event_id; seen holds whether
\* pullback_detected_at is set and which watch types the snapshot marks.
Event == [track : Nat, event : Nat, status : Statuses,
          seen : SUBSET ({"pullback"} \cup WatchTypes), signal : Nat]

State(track, event, status, seen, signal) ==
    [track |-> track, event |-> event, status |-> status, seen |-> seen, signal |-> signal]

None == State(0, 0, "NONE", {}, 0)
Key(event) == State(0, event, "NONE", {}, 0)

VARIABLES db,       \* the row of event_states, persistent
          signals,  \* the table signals, persistent: the id is the index
          watches,  \* rows of watch_candidates per tracking and type, persistent
          pool,     \* _active_climax_pool: event ids
          pc,       \* what each coroutine waits for
          copy,     \* the EventState each coroutine holds; only the pool key
                    \* while the fast monitor waits for frames
          visit,    \* "new" when the scan's copy is one build_event made
          mine,     \* id of the signal a coroutine is sending
          tracks,   \* number of trackings so far
          late,     \* trackings whose expires_at has passed
          faults

vars == <<db, signals, watches, pool, pc, copy, visit, mine, tracks, late, faults>>

Tracks == 1 .. MaxTracks

Places == {"idle", "loaded", "frames", "liquidity", "recheck", "sending", "zone", "watch"}

TypeOK ==
    /\ db \in Event
    /\ signals \in Seq([track : Nat, event : Nat, kind : Kinds])
    /\ watches \in [Tracks \X WatchTypes -> Nat]
    /\ pool \in SUBSET Nat
    /\ pc \in [Workers -> Places]
    /\ copy \in [Workers -> Event]
    /\ visit \in {"new", "known"}
    /\ mine \in [Workers -> Nat]
    /\ tracks \in Nat
    /\ late \in SUBSET Nat
    /\ faults \in 0 .. MaxFaults

Init ==
    /\ db = None
    /\ signals = <<>>
    /\ watches = [x \in Tracks \X WatchTypes |-> 0]
    /\ pool = {}
    /\ pc = [w \in Workers |-> "idle"]
    /\ copy = [w \in Workers |-> None]
    /\ visit = "known"
    /\ mine = [w \in Workers |-> 0]
    /\ tracks = 0
    /\ late = {}
    /\ faults = 0

-----------------------------------------------------------------------------
(* What the code does to an EventState.                                    *)

WithStatus(c, status) == State(c.track, c.event, status, c.seen, c.signal)

Pulled(c) ==
    State(c.track, c.event, "PULLBACK_OBSERVED", c.seen \cup {"pullback"}, c.signal)

\* Mutant: a reset to the status the code never stores.
ResetToIdle(c) == State(c.track, c.event, "IDLE", c.seen \ {"pullback"}, c.signal)

\* Mutant: a reset that forgets to clear pullback_detected_at.
ResetStatusOnly(c) == WithStatus(c, "PUMP_DETECTED")

\* reset_after_confirmed_high: an event without a signal starts over.
Reset(c) == State(c.track, c.event, "PUMP_DETECTED", c.seen \ {"pullback"}, c.signal)

Marked(c, type) == State(c.track, c.event, c.status, c.seen \cup {type}, c.signal)

Signalled(c, id) == State(c.track, c.event, "SIGNAL_SENT", c.seen, id)

\* PullbackTracker.advance, when it does not expire the event: whatever its
\* status, an event that had no pullback yet may have one now.
Advances(c) == {c} \cup {Pulled(x) : x \in {y \in {c} : "pullback" \notin y.seen}}

EventStates == {db, copy[Scan], copy[Fast]}

\* Mutant: expired events are loaded like the others.
ActiveUnexpired(c) == c.status # "NONE" /\ c.track \notin late

Active(c) == c.status \notin {"NONE", "EXPIRED"} /\ c.track \notin late

\* has_signal_for_event
HasSignal(event, kind) ==
    \E i \in DOMAIN signals : signals[i].event = event /\ signals[i].kind = kind

\* _track_climax_candidate: the pool keeps one event of the symbol, and takes
\* a new one unless its TTL is over.
TrackCandidate(event) ==
    IF event \in pool THEN pool' = {event} ELSE pool' \in {{}, {event}}

-----------------------------------------------------------------------------
(* Where a coroutine goes at the end of a step.                            *)

Waits(w, place, c) ==
    /\ pc' = [pc EXCEPT ![w] = place]
    /\ copy' = [copy EXCEPT ![w] = c]
    /\ UNCHANGED <<mine, visit>>

Stops(w) ==
    /\ pc' = [pc EXCEPT ![w] = "idle"]
    /\ copy' = [copy EXCEPT ![w] = None]
    /\ mine' = [mine EXCEPT ![w] = 0]
    /\ visit' = IF w = Scan THEN "known" ELSE visit

\* _process_symbol returned c: run_cycle saves it.
Keeps(c) == db' = c /\ Stops(Scan) /\ UNCHANGED watches

\* Mutant: the snapshot's mark of the watch type is not looked at.
WatchUnmarked(c, type, d) ==
    /\ watches[<<c.track, type>>] < MaxWatches
    /\ watches' = [watches EXCEPT ![<<c.track, type>>] = @ + 1]
    /\ Waits(Scan, "watch", Marked(c, type))
    /\ db' = d

\* save_watch_candidate, then the wait for its delivery; d is the row as the
\* step has left it.
Watch(c, type, d) ==
    /\ type \notin c.seen
    /\ watches[<<c.track, type>>] < MaxWatches
    /\ watches' = [watches EXCEPT ![<<c.track, type>>] = @ + 1]
    /\ Waits(Scan, "watch", Marked(c, type))
    /\ db' = d

\* The rest of _process_symbol for an event just built.
Introduce(c, d) == Keeps(c) \/ Watch(c, "EARLY", d)

\* The rest of _process_symbol for an event known before, up to the zone.
Continue(c, d) ==
    \/ Keeps(WithStatus(c, "EXPIRED"))
    \/ /\ c.track \notin late
       /\ \E a \in Advances(c) :
            \/ Keeps(a)
            \/ a.status = "PUMP_DETECTED" /\ Watch(a, "EARLY", d)
            \/ /\ a.status # "PUMP_DETECTED"
               /\ Waits(Scan, "zone", a) /\ db' = d /\ UNCHANGED watches

\* _evaluate_and_send_climax returned None.
NoClimax(w, c, d) ==
    /\ UNCHANGED signals
    /\ IF w = Fast THEN Stops(Fast) /\ db' = d /\ UNCHANGED watches
       ELSE IF visit = "new" THEN Introduce(c, d) ELSE Continue(c, d)

\* save_signal, then the wait for its delivery.
Emit(w, c, kind, d) ==
    /\ Len(signals) < MaxSignals
    /\ signals' = Append(signals, [track |-> c.track, event |-> c.event, kind |-> kind])
    /\ pc' = [pc EXCEPT ![w] = "sending"]
    /\ copy' = [copy EXCEPT ![w] = c]
    /\ mine' = [mine EXCEPT ![w] = Len(signals) + 1]
    /\ db' = d
    /\ UNCHANGED <<watches, visit>>

-----------------------------------------------------------------------------
(* The full scan.                                                          *)

\* load_active, at the start of a cycle.
LoadActive ==
    /\ pc[Scan] = "idle"
    /\ Waits(Scan, "loaded", IF Active(db) THEN db ELSE None)
    /\ UNCHANGED <<db, signals, watches, pool, tracks, late, faults>>

\* No frame of the symbol, or no event and no pump.
ScanNothing ==
    /\ pc[Scan] = "loaded"
    /\ Stops(Scan)
    /\ UNCHANGED <<db, signals, watches, pool, tracks, late, faults>>

\* No active event when the cycle began: build_event makes one, whose id is
\* the high it was built on, which may be an earlier event's.
DetectPump ==
    /\ pc[Scan] = "loaded" /\ copy[Scan] = None
    /\ tracks < MaxTracks /\ tracks' = tracks + 1
    /\ \E event \in 1 .. tracks + 1 :
        /\ event = tracks + 1 \/ ReuseIds
        /\ TrackCandidate(event)
        /\ copy' = [copy EXCEPT ![Scan] =
                      State(tracks + 1, event, "PUMP_DETECTED", {}, 0)]
    /\ pc' = [pc EXCEPT ![Scan] = "liquidity"]
    /\ visit' = "new"
    /\ UNCHANGED <<db, signals, watches, mine, late, faults>>

ResetOnHigh ==
    /\ pc[Scan] = "loaded" /\ copy[Scan] # None /\ copy[Scan].signal = 0
    /\ Keeps(Reset(copy[Scan]))
    /\ UNCHANGED <<signals, pool, tracks, late, faults>>

ProcessKnown ==
    /\ pc[Scan] = "loaded" /\ copy[Scan] # None
    /\ TrackCandidate(copy[Scan].event)
    /\ Waits(Scan, "liquidity", copy[Scan])
    /\ UNCHANGED <<db, signals, watches, tracks, late, faults>>

\* Mutant: the baseline does not look at signal_id.
EvaluateZoneAgain ==
    /\ pc[Scan] = "zone"
    /\ \E c \in {copy[Scan]} :
        \/ Keeps(c) /\ UNCHANGED signals
        \/ /\ c.status \in {"PULLBACK_OBSERVED", "SHORT_ZONE_ACTIVE"}
           /\ "BASELINE" \in Live /\ Emit(Scan, c, "BASELINE", db)
    /\ UNCHANGED <<pool, tracks, late, faults>>

\* The baseline strategy, once the liquidity for the zone is there.
EvaluateZone ==
    /\ pc[Scan] = "zone"
    /\ \E c \in {copy[Scan]} \cup
                {WithStatus(x, "SHORT_ZONE_ACTIVE") :
                    x \in {y \in {copy[Scan]} : y.status = "PULLBACK_OBSERVED"}} :
        \/ Keeps(c) /\ UNCHANGED signals
        \/ /\ c.status \in {"PULLBACK_OBSERVED", "SHORT_ZONE_ACTIVE"} /\ c.signal = 0
           /\ \/ Watch(c, "ZONE", db) /\ UNCHANGED signals
              \/ "BASELINE" \in Live /\ Emit(Scan, c, "BASELINE", db)
    /\ UNCHANGED <<pool, tracks, late, faults>>

\* The delivery of a WATCH came back, with whatever result.
WatchDone ==
    /\ pc[Scan] = "watch"
    /\ Keeps(copy[Scan])
    /\ UNCHANGED <<signals, pool, tracks, late, faults>>

-----------------------------------------------------------------------------
(* The fast monitor.                                                       *)

SelectCandidate ==
    /\ FastMonitor /\ pc[Fast] = "idle"
    /\ \E event \in pool : Waits(Fast, "frames", Key(event))
    /\ UNCHANGED <<db, signals, watches, pool, tracks, late, faults>>

\* The candidate left the pool meanwhile, or there is no frame of it, or the
\* event has its signal.
PollNothing ==
    /\ pc[Fast] = "frames"
    /\ Stops(Fast)
    /\ UNCHANGED <<db, signals, watches, pool, tracks, late, faults>>

\* The row is of another event.
DropReplaced ==
    /\ pc[Fast] = "frames" /\ copy[Fast].event \in pool /\ db.event # copy[Fast].event
    /\ pool' = pool \ {copy[Fast].event}
    /\ Stops(Fast)
    /\ UNCHANGED <<db, signals, watches, tracks, late, faults>>

\* The row is loaded, whatever its status.
LoadCandidate ==
    /\ pc[Fast] = "frames" /\ copy[Fast].event \in pool
    /\ db.event = copy[Fast].event /\ db.signal = 0
    /\ Waits(Fast, "liquidity", db)
    /\ UNCHANGED <<db, signals, watches, pool, tracks, late, faults>>

\* candidate_expired, at the end of a poll.
CandidateExpires ==
    /\ FastMonitor /\ pc[Fast] = "idle"
    /\ \E event \in pool : pool' = pool \ {event}
    /\ UNCHANGED <<db, signals, watches, pc, copy, visit, mine, tracks, late, faults>>

-----------------------------------------------------------------------------
(* _evaluate_and_send_climax, which both coroutines run on their copy.     *)

\* The shadow lifecycle of a volume climax saves the state it works on.
ShadowSaves(c) == {db} \cup {x \in {c} : Shadow /\ c.signal = 0}

\* No climax, or a LOW_VOLUME decision that contradicts its own metadata, or
\* a kind whose delivery is off.
NotActionable(w) ==
    /\ pc[w] = "liquidity"
    /\ \E d \in ShadowSaves(copy[w]) : NoClimax(w, copy[w], d)
    /\ UNCHANGED <<pool, tracks, late, faults>>

Duplicate(w) ==
    /\ pc[w] = "liquidity" /\ copy[w].signal = 0
    /\ \E kind \in Climax : HasSignal(copy[w].event, kind)
    /\ pool' = pool \ {copy[w].event}
    /\ \E d \in ShadowSaves(copy[w]) : NoClimax(w, copy[w], d)
    /\ UNCHANGED <<tracks, late, faults>>

\* A volume climax goes from the duplicate check to the table at once, after
\* the shadow lifecycle has saved its state.
EmitVolume(w) ==
    /\ pc[w] = "liquidity" /\ copy[w].signal = 0
    /\ "VOLUME" \in Live /\ ~ HasSignal(copy[w].event, "VOLUME")
    /\ Emit(w, copy[w], "VOLUME", IF Shadow THEN copy[w] ELSE db)
    /\ UNCHANGED <<pool, tracks, late, faults>>

\* A low-volume one is evaluated again on fresh data after the check.
Recheck(w) ==
    /\ pc[w] = "liquidity" /\ copy[w].signal = 0
    /\ ~ HasSignal(copy[w].event, "LOW")
    /\ db' \in ShadowSaves(copy[w])
    /\ Waits(w, "recheck", copy[w])
    /\ UNCHANGED <<signals, watches, pool, tracks, late, faults>>

RecheckFails(w) ==
    /\ pc[w] = "recheck"
    /\ NoClimax(w, copy[w], db)
    /\ UNCHANGED <<pool, tracks, late, faults>>

\* Mutant: no unique index, only the check made before the fresh data came.
EmitLowUnchecked(w) ==
    /\ pc[w] = "recheck"
    /\ "LOW" \in Live
    /\ Emit(w, copy[w], "LOW", db)
    /\ UNCHANGED <<pool, tracks, late, faults>>

\* save_signal, after the fresh evaluation agreed.
EmitLow(w) ==
    /\ pc[w] = "recheck"
    /\ "LOW" \in Live /\ ~ HasSignal(copy[w].event, "LOW")
    /\ Emit(w, copy[w], "LOW", db)
    /\ UNCHANGED <<pool, tracks, late, faults>>

\* The unique index of signals refuses the row; the exception ends the scan
\* of the symbol, or the poll.
SaveConflicts(w) ==
    /\ pc[w] = "recheck"
    /\ "LOW" \in Live /\ HasSignal(copy[w].event, "LOW")
    /\ Stops(w)
    /\ UNCHANGED <<db, signals, watches, pool, tracks, late, faults>>

\* Mutant: the signal is marked on the row as it is after the delivery.
SignalDoneReloaded(w) ==
    /\ pc[w] = "sending"
    /\ db' = Signalled(db, mine[w])
    /\ pool' = IF signals[mine[w]].kind \in Climax THEN pool \ {copy[w].event} ELSE pool
    /\ Stops(w)
    /\ UNCHANGED <<signals, watches, tracks, late, faults>>

\* The delivery came back, with whatever result: mark_signal_sent, save, and
\* a climax leaves the pool.
SignalDone(w) ==
    /\ pc[w] = "sending"
    /\ db' = Signalled(copy[w], mine[w])
    /\ pool' = IF signals[mine[w]].kind \in Climax THEN pool \ {copy[w].event} ELSE pool
    /\ Stops(w)
    /\ UNCHANGED <<signals, watches, tracks, late, faults>>

-----------------------------------------------------------------------------
\* A transaction raises: the scan goes on with the next symbol, the monitor
\* with the next poll.
Fails(w) ==
    /\ pc[w] # "idle" /\ faults < MaxFaults
    /\ faults' = faults + 1
    /\ Stops(w)
    /\ UNCHANGED <<db, signals, watches, pool, tracks, late>>

Crash ==
    /\ faults < MaxFaults
    /\ faults' = faults + 1
    /\ pool' = {}
    /\ pc' = [w \in Workers |-> "idle"]
    /\ copy' = [w \in Workers |-> None]
    /\ mine' = [w \in Workers |-> 0]
    /\ visit' = "known"
    /\ UNCHANGED <<db, signals, watches, tracks, late>>

\* expires_at of a tracking somebody still holds passes.
BecomeLate ==
    /\ \E c \in EventStates :
        c.track \notin late \cup {0} /\ late' = late \cup {c.track}
    /\ UNCHANGED <<db, signals, watches, pool, pc, copy, visit, mine, tracks, faults>>

Next ==
    \/ LoadActive \/ ScanNothing \/ DetectPump \/ ResetOnHigh \/ ProcessKnown
    \/ EvaluateZone \/ WatchDone
    \/ SelectCandidate \/ PollNothing \/ DropReplaced \/ LoadCandidate \/ CandidateExpires
    \/ \E w \in Workers :
        \/ NotActionable(w) \/ Duplicate(w) \/ EmitVolume(w) \/ Recheck(w)
        \/ RecheckFails(w) \/ EmitLow(w) \/ SaveConflicts(w) \/ SignalDone(w) \/ Fails(w)
    \/ Crash \/ BecomeLate

Spec == Init /\ [][Next]_vars

-----------------------------------------------------------------------------
(* Properties.                                                             *)

\* An event gets at most one signal of each climax kind, whichever coroutine
\* finds it, across crashes and trackings of the same high: the duplicate
\* check and the unique index together leave no gap.
ClimaxOncePerEvent ==
    \A i, j \in DOMAIN signals :
        /\ signals[i].kind \in Climax
        /\ signals[i].kind = signals[j].kind /\ signals[i].event = signals[j].event
        => i = j

\* A signal_id, in the table or in a coroutine's hands, is of a signal of that
\* very tracking, however old the copy it was written from.
SignalIdIsOwn ==
    /\ \A c \in EventStates : c.signal # 0 =>
        c.signal \in DOMAIN signals /\ signals[c.signal].track = c.track
    /\ \A w \in Workers : pc[w] = "sending" =>
        mine[w] \in DOMAIN signals /\ signals[mine[w]].track = copy[w].track

\* A status is backed by the rest of its row: a pullback stage by a pullback
\* since the last new high, SIGNAL_SENT by a signal, PUMP_DETECTED by neither.
StatusIsBacked ==
    \A c \in EventStates :
        /\ c.status \in {"PULLBACK_OBSERVED", "SHORT_ZONE_ACTIVE"} => "pullback" \in c.seen
        /\ c.status = "SIGNAL_SENT" => c.signal # 0
        /\ c.status = "PUMP_DETECTED" => "pullback" \notin c.seen /\ c.signal = 0

\* A tracked event gets at most one signal.
OneSignalPerTracking ==
    \A i, j \in DOMAIN signals : signals[i].track = signals[j].track => i = j

\* A tracked event gets at most one WATCH of each type.
WatchOncePerTracking == \A x \in DOMAIN watches : watches[x] <= 1

\* The row keeps its signal as long as it is of the same tracking, and never
\* goes back to an earlier tracking or revives an expired one.
RowMovesOn ==
    [][/\ db'.track >= db.track
       /\ db'.track = db.track /\ db.signal # 0 => db'.signal = db.signal
       /\ db'.track = db.track /\ db.status = "EXPIRED" => db'.status = "EXPIRED"]_vars

=============================================================================
