------------------------- MODULE EventSignalsProofs -------------------------
(***************************************************************************)
(* Proofs about EventSignals for every value of its constants: both        *)
(* coroutines, faults and reused event ids included; and at the end, what  *)
(* holds of the scan alone and without faults.                             *)
(***************************************************************************)
EXTENDS EventSignals, TLAPS

Records == [track : Nat, event : Nat, kind : Kinds]

\* What holds of an EventState wherever it is, in the table or in a
\* coroutine's hands: StatusIsBacked and SignalIdIsOwn state by state, s
\* being the table of signals.
Backed(c) ==
    /\ c.status \in {"PULLBACK_OBSERVED", "SHORT_ZONE_ACTIVE"} => "pullback" \in c.seen
    /\ c.status = "SIGNAL_SENT" => c.signal # 0
    /\ c.status = "PUMP_DETECTED" => "pullback" \notin c.seen /\ c.signal = 0

Owns(track, id, s) == id \in DOMAIN s /\ s[id].track = track

Good(c, s) ==
    /\ c \in Event
    /\ Backed(c)
    /\ c.signal # 0 => Owns(c.track, c.signal, s)

\* A status no constraint looks at may follow any other.
LEMMA ExpiredGood ==
    ASSUME NEW s, NEW c, Good(c, s)
    PROVE  Good(WithStatus(c, "EXPIRED"), s)
  BY DEF Good, Backed, Owns, Event, WithStatus, State, Statuses, WatchTypes

\* PullbackTracker.advance keeps a state good, whatever status it comes from.
LEMMA AdvanceGood ==
    ASSUME NEW s, NEW c, Good(c, s), NEW a \in Advances(c)
    PROVE  Good(a, s) /\ a.track = c.track
<1>1. Good(Pulled(c), s) /\ Pulled(c).track = c.track
  BY DEF Good, Backed, Owns, Event, Pulled, State, Statuses, WatchTypes
<1>2. a = c \/ a = Pulled(c)
  BY DEF Advances
<1>3. QED
  BY <1>1, <1>2

\* The zone becomes active only after a pullback.
LEMMA ZoneGood ==
    ASSUME NEW s, NEW c, Good(c, s), c.status = "PULLBACK_OBSERVED"
    PROVE  Good(WithStatus(c, "SHORT_ZONE_ACTIVE"), s)
  BY DEF Good, Backed, Owns, Event, WithStatus, State, Statuses, WatchTypes

\* A mark of a WATCH touches nothing a status rests on.
LEMMA MarkedGood ==
    ASSUME NEW s, NEW c, Good(c, s), NEW type \in WatchTypes
    PROVE  Good(Marked(c, type), s) /\ Marked(c, type).track = c.track
  BY DEF Good, Backed, Owns, Event, Marked, State, Statuses, WatchTypes

\* reset_after_confirmed_high leaves no trace of the pullback.
LEMMA ResetGood ==
    ASSUME NEW s, NEW c, Good(c, s), c.signal = 0
    PROVE  Good(Reset(c), s)
  BY DEF Good, Backed, Owns, Event, Reset, State, Statuses, WatchTypes

\* mark_signal_sent with a signal of the same tracking.
LEMMA SignalledGood ==
    ASSUME NEW s \in Seq(Records), NEW c, Good(c, s), NEW id, Owns(c.track, id, s)
    PROVE  Good(Signalled(c, id), s)
<1>1. id \in Nat /\ id # 0
  BY DEF Owns
<1>2. QED
  BY <1>1 DEF Good, Backed, Owns, Event, Signalled, State, Statuses, WatchTypes

\* An event just built, the key of a candidate and no event at all.
LEMMA FreshGood ==
    ASSUME NEW s, NEW track \in Nat, NEW event \in Nat
    PROVE  /\ Good(State(track, event, "PUMP_DETECTED", {}, 0), s)
           /\ Good(Key(event), s) /\ Good(None, s)
  BY DEF Good, Backed, Owns, Event, State, Key, None, Statuses, WatchTypes

\* A new signal changes nothing about the earlier ones.
LEMMA AppendGood ==
    ASSUME NEW s \in Seq(Records), NEW r \in Records
    PROVE  /\ Append(s, r) \in Seq(Records)
           /\ \A c : Good(c, s) => Good(c, Append(s, r))
           /\ \A track, id : Owns(track, id, s) => Owns(track, id, Append(s, r))
           /\ Owns(r.track, Len(s) + 1, Append(s, r))
<1>1. /\ Append(s, r) \in Seq(Records)
      /\ Len(Append(s, r)) = Len(s) + 1
      /\ DOMAIN Append(s, r) = 1 .. Len(s) + 1
      /\ DOMAIN s = 1 .. Len(s) /\ Len(s) \in Nat
      /\ \A i \in 1 .. Len(s) : Append(s, r)[i] = s[i]
      /\ Append(s, r)[Len(s) + 1] = r
  OBVIOUS
<1>2. \A track, id : Owns(track, id, s) => Owns(track, id, Append(s, r))
  BY <1>1 DEF Owns
<1>3. QED
  BY <1>1, <1>2 DEF Good, Owns

-----------------------------------------------------------------------------
(* The inductive invariant: the tables, what the coroutines hold, and the   *)
(* rest of the types.                                                      *)

Tables ==
    /\ signals \in Seq(Records)
    /\ watches \in [Tracks \X WatchTypes -> Nat]
    /\ Good(db, signals)

Hands ==
    /\ pc \in [Workers -> Places]
    /\ copy \in [Workers -> Event]
    /\ mine \in [Workers -> Nat]
    /\ visit \in {"new", "known"}
    /\ \A w \in Workers : Good(copy[w], signals)
    /\ \A w \in Workers : pc[w] = "sending" => Owns(copy[w].track, mine[w], signals)

Counters ==
    /\ pool \in SUBSET Nat /\ tracks \in Nat /\ late \in SUBSET Nat
    /\ faults \in 0 .. MaxFaults

IInv == Tables /\ Hands /\ Counters /\ ClimaxOncePerEvent

\* A coroutine that goes on to another await than the delivery's.
LEMMA WaitsKeeps ==
    ASSUME Hands, signals' = signals, NEW w \in Workers,
           NEW place \in Places, place # "sending",
           NEW c, Good(c, signals), Waits(w, place, c)
    PROVE  Hands'
<1>1. pc' \in [Workers -> Places] /\ copy' \in [Workers -> Event]
  BY DEF Hands, Waits, Good
<1>2. mine' = mine /\ visit' = visit
  BY DEF Waits
<1>3. ASSUME NEW v \in Workers
      PROVE  /\ Good(copy'[v], signals')
             /\ pc'[v] = "sending" => Owns(copy'[v].track, mine'[v], signals')
  <2>1. CASE v = w
    <3>1. copy'[v] = c /\ pc'[v] = place
      BY <2>1 DEF Waits, Hands
    <3>2. QED
      BY <3>1
  <2>2. CASE v # w
    <3>1. copy'[v] = copy[v] /\ pc'[v] = pc[v]
      BY <2>2 DEF Waits, Hands
    <3>2. QED
      BY <1>2, <3>1 DEF Hands
  <2>3. QED
    BY <2>1, <2>2
<1>4. QED
  BY <1>1, <1>2, <1>3 DEF Hands

\* A coroutine that is done holds nothing any more.
LEMMA StopsKeeps ==
    ASSUME Hands, signals' = signals, NEW w \in Workers, Stops(w)
    PROVE  Hands'
<1>1. None \in Event /\ Good(None, signals)
  BY FreshGood DEF Good
<1>2. /\ pc' \in [Workers -> Places] /\ copy' \in [Workers -> Event]
      /\ mine' \in [Workers -> Nat] /\ visit' \in {"new", "known"}
  BY <1>1 DEF Hands, Stops, Places
<1>3. ASSUME NEW v \in Workers
      PROVE  /\ Good(copy'[v], signals')
             /\ pc'[v] = "sending" => Owns(copy'[v].track, mine'[v], signals')
  <2>1. CASE v = w
    <3>1. copy'[v] = None /\ pc'[v] = "idle"
      BY <2>1 DEF Stops, Hands
    <3>2. QED
      BY <1>1, <3>1
  <2>2. CASE v # w
    <3>1. copy'[v] = copy[v] /\ pc'[v] = pc[v] /\ mine'[v] = mine[v]
      BY <2>2 DEF Stops, Hands
    <3>2. QED
      BY <3>1 DEF Hands
  <2>3. QED
    BY <2>1, <2>2
<1>4. QED
  BY <1>2, <1>3 DEF Hands

\* save_signal: the new row belongs to the tracking of the copy it was
\* decided on, and the coroutine holds its id.
LEMMA EmitKeeps ==
    ASSUME Tables, Hands, NEW w \in Workers, NEW kind \in Kinds, NEW c, Good(c, signals),
           NEW d, Good(d, signals), Emit(w, c, kind, d)
    PROVE  Tables' /\ Hands'
<1> DEFINE r == [track |-> c.track, event |-> c.event, kind |-> kind]
<1>1. r \in Records /\ r.track = c.track
  BY DEF Records, Good, Event
<1>2. signals \in Seq(Records) /\ Len(signals) \in Nat
  BY DEF Tables
<1>3. signals' = Append(signals, r)
  BY DEF Emit
<1> HIDE DEF r
<1>4. /\ signals' \in Seq(Records)
      /\ \A e : Good(e, signals) => Good(e, signals')
      /\ \A track, id : Owns(track, id, signals) => Owns(track, id, signals')
      /\ Owns(r.track, Len(signals) + 1, signals')
  BY <1>1, <1>2, <1>3, AppendGood
<1>5. Tables'
  BY <1>4 DEF Tables, Emit
<1>6. /\ pc' \in [Workers -> Places] /\ copy' \in [Workers -> Event]
      /\ mine' \in [Workers -> Nat] /\ visit' \in {"new", "known"}
  BY <1>2 DEF Hands, Emit, Places, Good
<1>7. ASSUME NEW v \in Workers
      PROVE  /\ Good(copy'[v], signals')
             /\ pc'[v] = "sending" => Owns(copy'[v].track, mine'[v], signals')
  <2>1. CASE v = w
    <3>1. mine'[v] = Len(signals) + 1 /\ copy'[v] = c
      BY <2>1 DEF Emit, Hands
    <3>2. QED
      BY <1>1, <1>4, <3>1
  <2>2. CASE v # w
    <3>1. copy'[v] = copy[v] /\ pc'[v] = pc[v] /\ mine'[v] = mine[v]
      BY <2>2 DEF Emit, Hands
    <3>2. QED
      BY <1>4, <3>1 DEF Hands
  <2>3. QED
    BY <2>1, <2>2
<1>8. QED
  BY <1>5, <1>6, <1>7 DEF Hands

\* run_cycle saves the row _process_symbol returned.
LEMMA KeepsKeeps ==
    ASSUME Tables, Hands, signals' = signals, NEW c, Good(c, signals), Keeps(c)
    PROVE  Tables' /\ Hands'
<1>1. Hands'
  BY StopsKeeps DEF Keeps, Workers
<1>2. QED
  BY <1>1 DEF Keeps, Tables

\* save_watch_candidate.
LEMMA WatchKeeps ==
    ASSUME Tables, Hands, signals' = signals, NEW type \in WatchTypes,
           NEW c, Good(c, signals), NEW d, Good(d, signals), Watch(c, type, d)
    PROVE  Tables' /\ Hands'
<1>1. Good(Marked(c, type), signals)
  BY MarkedGood
<1>2. Hands'
  BY <1>1, WaitsKeeps DEF Watch, Workers, Places
<1>3. watches' \in [Tracks \X WatchTypes -> Nat]
  <2> DEFINE P == Tracks \X WatchTypes
             x == <<c.track, type>>
  <2>1. watches \in [P -> Nat] /\ watches' = [watches EXCEPT ![x] = watches[x] + 1]
    BY DEF Tables, Watch
  <2> HIDE DEF P, x
  <2>2. ASSUME NEW n, NEW m \in Nat,
               watches' = [watches EXCEPT ![x] = n], x \in P => n = m
        PROVE  watches' \in [P -> Nat]
    BY <2>1, <2>2
  <2>3. CASE x \in P
    <3>1. watches[x] + 1 \in Nat
      BY <2>1, <2>3
    <3>2. QED
      BY <2>1, <2>2, <3>1 DEF P
  <2>4. CASE x \notin P
    BY <2>1, <2>2, <2>4 DEF P
  <2>5. QED
    BY <2>3, <2>4
<1>4. QED
  BY <1>2, <1>3 DEF Tables, Watch

\* The rest of _process_symbol for a new event.
LEMMA IntroduceKeeps ==
    ASSUME Tables, Hands, signals' = signals, NEW c, Good(c, signals),
           NEW d, Good(d, signals), Introduce(c, d)
    PROVE  Tables' /\ Hands'
<1>1. CASE Keeps(c)
  BY <1>1, KeepsKeeps
<1>2. CASE Watch(c, "EARLY", d)
  BY <1>2, WatchKeeps DEF WatchTypes
<1>3. QED
  BY <1>1, <1>2 DEF Introduce

\* The rest of _process_symbol for an event known before.
LEMMA ContinueKeeps ==
    ASSUME Tables, Hands, signals' = signals, NEW c, Good(c, signals),
           NEW d, Good(d, signals), Continue(c, d)
    PROVE  Tables' /\ Hands'
<1>1. CASE Keeps(WithStatus(c, "EXPIRED"))
  BY <1>1, KeepsKeeps, ExpiredGood
<1>2. ASSUME NEW a \in Advances(c),
             \/ Keeps(a)
             \/ Watch(a, "EARLY", d)
             \/ Waits(Scan, "zone", a) /\ db' = d /\ UNCHANGED watches
      PROVE  Tables' /\ Hands'
  <2>1. Good(a, signals)
    BY AdvanceGood
  <2>2. CASE Keeps(a)
    BY <2>1, <2>2, KeepsKeeps
  <2>3. CASE Watch(a, "EARLY", d)
    BY <2>1, <2>3, WatchKeeps DEF WatchTypes
  <2>4. CASE Waits(Scan, "zone", a) /\ db' = d /\ UNCHANGED watches
    <3>1. Hands'
      BY <2>1, <2>4, WaitsKeeps DEF Workers, Places
    <3>2. QED
      BY <2>4, <3>1 DEF Tables
  <2>5. QED
    BY <1>2, <2>2, <2>3, <2>4
<1>3. QED
  BY <1>1, <1>2 DEF Continue

\* Whatever follows an evaluation that found no climax.
LEMMA NoClimaxKeeps ==
    ASSUME Tables, Hands, NEW w \in Workers, NEW c, Good(c, signals),
           NEW d, Good(d, signals), NoClimax(w, c, d)
    PROVE  Tables' /\ Hands' /\ signals' = signals
<1>1. signals' = signals
  BY DEF NoClimax
<1>2. CASE w = Fast
  <2>1. Stops(w) /\ db' = d /\ UNCHANGED watches
    BY <1>2 DEF NoClimax
  <2>2. Hands'
    BY <1>1, <2>1, StopsKeeps
  <2>3. QED
    BY <1>1, <2>1, <2>2 DEF Tables
<1>3. CASE w # Fast
  BY <1>1, <1>3, IntroduceKeeps, ContinueKeeps DEF NoClimax
<1>4. QED
  BY <1>2, <1>3

\* The state the shadow lifecycle saves is as good as the one it was given.
LEMMA ShadowGood ==
    ASSUME NEW c, Good(c, signals), Good(db, signals)
    PROVE  \A d \in ShadowSaves(c) : Good(d, signals)
  BY DEF ShadowSaves

\* A signal whose kind is not among the event's signals, or no climax, leaves
\* the climax signals of every event unique.
LEMMA EmitUnique ==
    ASSUME Tables, ClimaxOncePerEvent, NEW w, NEW c, NEW kind, NEW d,
           Emit(w, c, kind, d), kind \in Climax => ~ HasSignal(c.event, kind)
    PROVE  ClimaxOncePerEvent'
<1> DEFINE r == [track |-> c.track, event |-> c.event, kind |-> kind]
<1>1. /\ signals' = Append(signals, r)
      /\ signals \in Seq(Records)
      /\ r.event = c.event /\ r.kind = kind
  BY DEF Emit, Tables
<1> HIDE DEF r
<1>2. /\ Len(signals) \in Nat /\ DOMAIN signals = 1 .. Len(signals)
      /\ DOMAIN signals' = 1 .. Len(signals) + 1
      /\ \A i \in DOMAIN signals : signals'[i] = signals[i]
      /\ signals'[Len(signals) + 1] = r
  BY <1>1
<1>3. ASSUME NEW i \in DOMAIN signals', NEW j \in DOMAIN signals',
             signals'[i].kind \in Climax, signals'[i].kind = signals'[j].kind,
             signals'[i].event = signals'[j].event
      PROVE  i = j
  <2>1. CASE i \in DOMAIN signals /\ j \in DOMAIN signals
    BY <1>2, <1>3, <2>1 DEF ClimaxOncePerEvent
  <2>2. CASE i \notin DOMAIN signals /\ j \notin DOMAIN signals
    BY <1>2, <2>2
  <2>3. CASE i \in DOMAIN signals /\ j \notin DOMAIN signals
    <3>1. j = Len(signals) + 1
      BY <1>2, <2>3
    <3>2. QED
      BY <1>1, <1>2, <1>3, <2>3, <3>1 DEF HasSignal
  <2>4. CASE i \notin DOMAIN signals /\ j \in DOMAIN signals
    <3>1. i = Len(signals) + 1
      BY <1>2, <2>4
    <3>2. QED
      BY <1>1, <1>2, <1>3, <2>4, <3>1 DEF HasSignal
  <2>5. QED
    BY <2>1, <2>2, <2>3, <2>4
<1>4. QED
  BY <1>3 DEF ClimaxOncePerEvent

-----------------------------------------------------------------------------
\* The empty database and no coroutine running.
LEMMA InitIInv == Init => IInv
<1> SUFFICES ASSUME Init PROVE IInv
  OBVIOUS
<1>1. Good(None, signals) /\ None \in Event
  BY FreshGood DEF Good
<1>2. Tables
  BY <1>1 DEF Init, Tables
<1>3. Hands
  BY <1>1 DEF Init, Hands, Places
<1>4. Counters
  BY SignalsAssumption DEF Init, Counters
<1>5. ClimaxOncePerEvent
  BY DEF Init, ClimaxOncePerEvent
<1>6. QED
  BY <1>2, <1>3, <1>4, <1>5 DEF IInv

\* The steps of the scan: one per action.
LEMMA ScanIInv ==
    ASSUME IInv,
           LoadActive \/ ScanNothing \/ DetectPump \/ ResetOnHigh \/ ProcessKnown
             \/ EvaluateZone \/ WatchDone
    PROVE  IInv'
<1> USE DEF IInv
<1>1. Scan \in Workers /\ Good(None, signals) /\ Good(db, signals)
  BY FreshGood DEF Workers, Tables
<1>2. Good(copy[Scan], signals)
  BY <1>1 DEF Hands
<1>3. CASE LoadActive
  <2>1. Hands'
    BY <1>1, <1>3, WaitsKeeps DEF LoadActive, Places
  <2>2. QED
    BY <1>3, <2>1 DEF LoadActive, Tables, Counters, ClimaxOncePerEvent
<1>4. CASE ScanNothing
  <2>1. Hands'
    BY <1>1, <1>4, StopsKeeps DEF ScanNothing
  <2>2. QED
    BY <1>4, <2>1 DEF ScanNothing, Tables, Counters, ClimaxOncePerEvent
<1>5. CASE DetectPump
  <2>1. PICK event \in 1 .. tracks + 1 :
          /\ TrackCandidate(event)
          /\ copy' = [copy EXCEPT ![Scan] = State(tracks + 1, event, "PUMP_DETECTED", {}, 0)]
    BY <1>5 DEF DetectPump
  <2>2. tracks + 1 \in Nat /\ event \in Nat
    BY DEF Counters
  <2> DEFINE c == State(tracks + 1, event, "PUMP_DETECTED", {}, 0)
  <2>3. Good(c, signals)
    BY <2>2, FreshGood
  <2> HIDE DEF c
  <2>4. copy' = [copy EXCEPT ![Scan] = c]
    BY <2>1 DEF c
  <2>5. /\ pc' = [pc EXCEPT ![Scan] = "liquidity"] /\ visit' = "new"
        /\ signals' = signals /\ mine' = mine
    BY <1>5 DEF DetectPump
  <2>6. Hands'
    <3>1. /\ pc' \in [Workers -> Places] /\ copy' \in [Workers -> Event]
          /\ mine' \in [Workers -> Nat] /\ visit' \in {"new", "known"}
      BY <2>3, <2>4, <2>5 DEF Hands, Places, Good
    <3>2. ASSUME NEW v \in Workers
          PROVE  /\ Good(copy'[v], signals')
                 /\ pc'[v] = "sending" => Owns(copy'[v].track, mine'[v], signals')
      <4>1. CASE v = Scan
        BY <2>3, <2>4, <2>5, <4>1 DEF Hands
      <4>2. CASE v # Scan
        <5>1. copy'[v] = copy[v] /\ pc'[v] = pc[v]
          BY <2>4, <2>5, <4>2 DEF Hands
        <5>2. QED
          BY <2>5, <5>1 DEF Hands
      <4>3. QED
        BY <4>1, <4>2
    <3>3. QED
      BY <3>1, <3>2 DEF Hands
  <2>7. pool' \in SUBSET Nat /\ tracks' \in Nat
    BY <1>5, <2>1, <2>2 DEF TrackCandidate, DetectPump
  <2>8. QED
    BY <1>5, <2>6, <2>7 DEF DetectPump, Tables, Counters, ClimaxOncePerEvent
<1>6. CASE ResetOnHigh
  <2>1. Good(Reset(copy[Scan]), signals) /\ signals' = signals
    BY <1>2, <1>6, ResetGood DEF ResetOnHigh
  <2>2. Tables' /\ Hands'
    BY <1>6, <2>1, KeepsKeeps DEF ResetOnHigh
  <2>3. QED
    BY <1>6, <2>2 DEF ResetOnHigh, Counters, ClimaxOncePerEvent
<1>7. CASE ProcessKnown
  <2>1. Hands'
    BY <1>1, <1>2, <1>7, WaitsKeeps DEF ProcessKnown, Places
  <2>2. pool' \in SUBSET Nat
    <3>1. copy[Scan].event \in Nat
      BY <1>2 DEF Good, Event
    <3>2. QED
      BY <1>7, <3>1 DEF ProcessKnown, TrackCandidate
  <2>3. QED
    BY <1>7, <2>1, <2>2 DEF ProcessKnown, Tables, Counters, ClimaxOncePerEvent
<1>8. CASE EvaluateZone
  <2>1. PICK c \in {copy[Scan]} \cup
                   {WithStatus(x, "SHORT_ZONE_ACTIVE") :
                      x \in {y \in {copy[Scan]} : y.status = "PULLBACK_OBSERVED"}} :
          \/ Keeps(c) /\ UNCHANGED signals
          \/ Watch(c, "ZONE", db) /\ UNCHANGED signals
          \/ Emit(Scan, c, "BASELINE", db)
    BY <1>8 DEF EvaluateZone
  <2>2. Good(c, signals)
    BY <1>2, ZoneGood
  <2>3. CASE Keeps(c) /\ UNCHANGED signals
    <3>1. Tables' /\ Hands'
      BY <2>2, <2>3, KeepsKeeps
    <3>2. QED
      BY <1>8, <2>3, <3>1 DEF EvaluateZone, Counters, ClimaxOncePerEvent
  <2>4. CASE Watch(c, "ZONE", db) /\ UNCHANGED signals
    <3>1. Tables' /\ Hands'
      BY <1>1, <2>2, <2>4, WatchKeeps DEF WatchTypes
    <3>2. QED
      BY <1>8, <2>4, <3>1 DEF EvaluateZone, Counters, ClimaxOncePerEvent
  <2>5. CASE Emit(Scan, c, "BASELINE", db)
    <3>1. "BASELINE" \in Kinds /\ "BASELINE" \notin Climax
      BY DEF Kinds, Climax
    <3>2. Tables' /\ Hands'
      BY <1>1, <2>2, <2>5, <3>1, EmitKeeps
    <3>3. ClimaxOncePerEvent'
      BY <2>5, <3>1, EmitUnique
    <3>4. QED
      BY <1>8, <3>2, <3>3 DEF EvaluateZone, Counters
  <2>6. QED
    BY <2>1, <2>3, <2>4, <2>5
<1>9. CASE WatchDone
  <2>1. Tables' /\ Hands'
    BY <1>2, <1>9, KeepsKeeps DEF WatchDone
  <2>2. QED
    BY <1>9, <2>1 DEF WatchDone, Counters, ClimaxOncePerEvent
<1>10. QED
  BY <1>3, <1>4, <1>5, <1>6, <1>7, <1>8, <1>9

\* The steps of the fast monitor.
LEMMA MonitorIInv ==
    ASSUME IInv,
           SelectCandidate \/ PollNothing \/ DropReplaced \/ LoadCandidate \/ CandidateExpires
    PROVE  IInv'
<1> USE DEF IInv
<1>1. Fast \in Workers /\ Good(db, signals)
  BY DEF Workers, Tables
<1>2. pool' \in SUBSET Nat
  BY DEF Counters, SelectCandidate, PollNothing, DropReplaced, LoadCandidate,
         CandidateExpires
<1>3. signals' = signals
  BY DEF SelectCandidate, PollNothing, DropReplaced, LoadCandidate, CandidateExpires
<1>4. Hands'
  <2>1. CASE SelectCandidate
    <3>1. PICK event \in pool : Waits(Fast, "frames", Key(event))
      BY <2>1 DEF SelectCandidate
    <3>2. Good(Key(event), signals)
      BY FreshGood DEF Counters
    <3>3. QED
      BY <1>1, <1>3, <3>1, <3>2, WaitsKeeps DEF Places
  <2>2. CASE PollNothing \/ DropReplaced
    BY <1>1, <1>3, <2>2, StopsKeeps DEF PollNothing, DropReplaced
  <2>3. CASE LoadCandidate
    BY <1>1, <1>3, <2>3, WaitsKeeps DEF LoadCandidate, Places
  <2>4. CASE CandidateExpires
    BY <1>3, <2>4 DEF CandidateExpires, Hands
  <2>5. QED
    BY <2>1, <2>2, <2>3, <2>4
<1>5. /\ db' = db /\ watches' = watches
      /\ tracks' = tracks /\ late' = late /\ faults' = faults
  BY DEF SelectCandidate, PollNothing, DropReplaced, LoadCandidate, CandidateExpires
<1>6. QED
  BY <1>2, <1>3, <1>4, <1>5 DEF Tables, Counters, ClimaxOncePerEvent

\* The steps both coroutines take.
LEMMA ClimaxIInv ==
    ASSUME IInv, NEW w \in Workers,
           NotActionable(w) \/ Duplicate(w) \/ EmitVolume(w) \/ Recheck(w)
             \/ RecheckFails(w) \/ EmitLow(w) \/ SaveConflicts(w) \/ SignalDone(w)
             \/ Fails(w)
    PROVE  IInv'
<1> USE DEF IInv
<1>1. /\ Good(db, signals) /\ Good(copy[w], signals)
      /\ \A d \in ShadowSaves(copy[w]) : Good(d, signals)
  BY ShadowGood DEF Tables, Hands
<1>2. CASE NotActionable(w)
  <2>1. PICK d \in ShadowSaves(copy[w]) : NoClimax(w, copy[w], d)
    BY <1>2 DEF NotActionable
  <2>2. Tables' /\ Hands' /\ signals' = signals
    BY <1>1, <2>1, NoClimaxKeeps
  <2>3. QED
    BY <1>2, <2>2 DEF NotActionable, Counters, ClimaxOncePerEvent
<1>3. CASE Duplicate(w)
  <2>1. PICK d \in ShadowSaves(copy[w]) : NoClimax(w, copy[w], d)
    BY <1>3 DEF Duplicate
  <2>2. Tables' /\ Hands' /\ signals' = signals
    BY <1>1, <2>1, NoClimaxKeeps
  <2>3. QED
    BY <1>3, <2>2 DEF Duplicate, Counters, ClimaxOncePerEvent
<1>4. CASE EmitVolume(w)
  <2>1. PICK d \in {copy[w], db} : d = IF Shadow THEN copy[w] ELSE db
    OBVIOUS
  <2>2. Good(d, signals)
    BY <1>1, <2>1
  <2>3. Emit(w, copy[w], "VOLUME", d)
    BY <1>4, <2>1 DEF EmitVolume
  <2>4. ~ HasSignal(copy[w].event, "VOLUME") /\ "VOLUME" \in Kinds
    BY <1>4 DEF EmitVolume, Kinds, Climax
  <2>5. Tables' /\ Hands'
    BY <1>1, <2>2, <2>3, <2>4, EmitKeeps
  <2>6. ClimaxOncePerEvent'
    BY <2>3, <2>4, EmitUnique
  <2>7. QED
    BY <1>4, <2>5, <2>6 DEF EmitVolume, Counters
<1>5. CASE Recheck(w)
  <2>1. Hands'
    BY <1>1, <1>5, WaitsKeeps DEF Recheck, Places
  <2>2. Good(db', signals') /\ signals' = signals
    BY <1>1, <1>5 DEF Recheck
  <2>3. QED
    BY <1>5, <2>1, <2>2 DEF Recheck, Tables, Counters, ClimaxOncePerEvent
<1>6. CASE RecheckFails(w)
  <2>1. Tables' /\ Hands' /\ signals' = signals
    BY <1>1, <1>6, NoClimaxKeeps DEF RecheckFails
  <2>2. QED
    BY <1>6, <2>1 DEF RecheckFails, Counters, ClimaxOncePerEvent
<1>7. CASE EmitLow(w)
  <2>1. Emit(w, copy[w], "LOW", db) /\ ~ HasSignal(copy[w].event, "LOW") /\ "LOW" \in Kinds
    BY <1>7 DEF EmitLow, Kinds, Climax
  <2>2. Tables' /\ Hands'
    BY <1>1, <2>1, EmitKeeps
  <2>3. ClimaxOncePerEvent'
    BY <2>1, EmitUnique
  <2>4. QED
    BY <1>7, <2>2, <2>3 DEF EmitLow, Counters
<1>8. CASE SaveConflicts(w)
  <2>1. Hands'
    BY <1>8, StopsKeeps DEF SaveConflicts
  <2>2. QED
    BY <1>8, <2>1 DEF SaveConflicts, Tables, Counters, ClimaxOncePerEvent
<1>9. CASE SignalDone(w)
  <2>1. Owns(copy[w].track, mine[w], signals) /\ signals \in Seq(Records)
    BY <1>9 DEF SignalDone, Hands, Tables
  <2>2. Good(Signalled(copy[w], mine[w]), signals)
    BY <1>1, <2>1, SignalledGood
  <2>3. Hands' /\ signals' = signals
    BY <1>9, StopsKeeps DEF SignalDone
  <2>4. Tables'
    BY <1>9, <2>2, <2>3 DEF SignalDone, Tables
  <2>5. QED
    BY <1>9, <2>3, <2>4 DEF SignalDone, Counters, ClimaxOncePerEvent
<1>10. CASE Fails(w)
  <2>1. Hands' /\ signals' = signals
    BY <1>10, StopsKeeps DEF Fails
  <2>2. faults' \in 0 .. MaxFaults
    BY <1>10, SignalsAssumption DEF Fails, Counters
  <2>3. QED
    BY <1>10, <2>1, <2>2 DEF Fails, Tables, Counters, ClimaxOncePerEvent
<1>11. QED
  BY <1>2, <1>3, <1>4, <1>5, <1>6, <1>7, <1>8, <1>9, <1>10

\* A stop of the process, and the passing of time.
LEMMA OutsideIInv ==
    ASSUME IInv, Crash \/ BecomeLate \/ UNCHANGED vars
    PROVE  IInv'
<1> USE DEF IInv
<1>1. CASE Crash
  <2>1. None \in Event /\ Good(None, signals)
    BY FreshGood DEF Good
  <2>2. Hands'
    BY <1>1, <2>1 DEF Crash, Hands, Places
  <2>3. faults' \in 0 .. MaxFaults
    BY <1>1, SignalsAssumption DEF Crash, Counters
  <2>4. QED
    BY <1>1, <2>2, <2>3 DEF Crash, Tables, Counters, ClimaxOncePerEvent
<1>2. CASE BecomeLate
  <2>1. PICK c \in EventStates : late' = late \cup {c.track}
    BY <1>2 DEF BecomeLate
  <2>2. c \in Event
    BY DEF EventStates, Tables, Hands, Good, Workers
  <2>3. c.track \in Nat
    BY <2>2 DEF Event
  <2>4. QED
    BY <1>2, <2>1, <2>3 DEF BecomeLate, Tables, Hands, Counters, ClimaxOncePerEvent
<1>3. CASE UNCHANGED vars
  BY <1>3 DEF vars, Tables, Hands, Counters, ClimaxOncePerEvent
<1>4. QED
  BY <1>1, <1>2, <1>3

\* The invariant of every reachable state.
LEMMA SpecIInv == Spec => []IInv
<1>1. IInv /\ [Next]_vars => IInv'
  <2> SUFFICES ASSUME IInv, [Next]_vars PROVE IInv'
    OBVIOUS
  <2>1. CASE LoadActive \/ ScanNothing \/ DetectPump \/ ResetOnHigh \/ ProcessKnown
               \/ EvaluateZone \/ WatchDone
    BY <2>1, ScanIInv
  <2>2. CASE SelectCandidate \/ PollNothing \/ DropReplaced \/ LoadCandidate
               \/ CandidateExpires
    BY <2>2, MonitorIInv
  <2>3. ASSUME NEW w \in Workers,
               NotActionable(w) \/ Duplicate(w) \/ EmitVolume(w) \/ Recheck(w)
                 \/ RecheckFails(w) \/ EmitLow(w) \/ SaveConflicts(w) \/ SignalDone(w)
                 \/ Fails(w)
        PROVE  IInv'
    BY <2>3, ClimaxIInv
  <2>4. CASE Crash \/ BecomeLate \/ UNCHANGED vars
    BY <2>4, OutsideIInv
  <2>5. QED
    BY <2>1, <2>2, <2>3, <2>4 DEF Next
<1>2. QED
  BY <1>1, InitIInv, PTL DEF Spec

-----------------------------------------------------------------------------
(* What the invariant gives.                                               *)

\* The rows of event_states and signals, and what each coroutine holds of
\* them, keep their types in every reachable state, whatever the constants.
THEOREM SignalsTypeCorrect == Spec => []TypeOK
<1>1. IInv => TypeOK
  BY DEF IInv, Tables, Hands, Counters, TypeOK, Good, Records
<1>2. QED
  BY <1>1, SpecIInv, PTL

\* The duplicate check before the awaits and the unique index at save_signal
\* let at most one signal of each climax kind through for an event_id, for
\* any number of trackings, crashes and failed transactions.
THEOREM ClimaxUnique == Spec => []ClimaxOncePerEvent
<1>1. IInv => ClimaxOncePerEvent
  BY DEF IInv
<1>2. QED
  BY <1>1, SpecIInv, PTL

\* However stale the copy a coroutine writes back, the signal_id it stores is
\* of a signal of the very tracking the row is of.
THEOREM SignalIdsOwn == Spec => []SignalIdIsOwn
<1>1. IInv => SignalIdIsOwn
  BY DEF IInv, Tables, Hands, Good, Owns, SignalIdIsOwn, EventStates, Workers
<1>2. QED
  BY <1>1, SpecIInv, PTL

\* The status of an event state is never ahead of, or behind, the pullback
\* and the signal it rests on, in the table or in a coroutine's hands.
THEOREM StatusesBacked == Spec => []StatusIsBacked
<1>1. IInv => StatusIsBacked
  BY DEF IInv, Tables, Hands, Good, Backed, StatusIsBacked, EventStates, Workers
<1>2. QED
  BY <1>1, SpecIInv, PTL

-----------------------------------------------------------------------------
(* The full scan alone, without a fault: what the signals of a crash or of  *)
(* the monitor break.                                                      *)

ScanAlone == ~ FastMonitor /\ MaxFaults = 0

\* The scan holds an event, which it may know more of than the row does.
Working == pc[Scan] # "idle" /\ ~ (pc[Scan] = "loaded" /\ copy[Scan] = None)

\* c may be saved over the row d: RowMovesOn, state by state.
Follows(c, d) ==
    /\ c.track >= d.track
    /\ c.track = d.track /\ d.signal # 0 => c.signal = d.signal
    /\ c.track = d.track /\ d.status = "EXPIRED" => c.status = "EXPIRED"

\* c knows of every row its tracking has in the two tables; id is the signal.
Latest(c, id) ==
    /\ c.track <= tracks
    /\ \A i \in DOMAIN signals : signals[i].track = c.track => i = id
    /\ \A x \in DOMAIN watches : x[1] = c.track /\ watches[x] > 0 => x[2] \in c.seen

\* No row is of a tracking to come, and none is there twice.
TablesOnce ==
    /\ OneSignalPerTracking /\ WatchOncePerTracking
    /\ \A i \in DOMAIN signals : signals[i].track <= tracks
    /\ \A x \in DOMAIN watches : x[1] > tracks => watches[x] = 0

\* What the scan is at, in between two awaits.
ScanAt ==
    /\ pc[Fast] = "idle"
    /\ pc[Scan] = "loaded" => copy[Scan] \in {None, db}
    /\ pc[Scan] \in {"recheck", "sending"} => copy[Scan].signal = 0
    /\ pc[Scan] = "recheck" => ~ HasSignal(copy[Scan].event, "LOW")
    /\ ~ Working => Latest(db, db.signal)
    /\ Working =>
        /\ Follows(copy[Scan], db) /\ copy[Scan].status # "EXPIRED"
        /\ Latest(copy[Scan], IF pc[Scan] = "sending" THEN mine[Scan] ELSE copy[Scan].signal)

Alone == TablesOnce /\ ScanAt

\* A state the scan may go on with, d being the row.
Ready(c, d) ==
    /\ c \in Event /\ c.status # "EXPIRED"
    /\ Follows(c, d) /\ Latest(c, c.signal)

LEMMA FollowsItself == \A c \in Event : Follows(c, c)
  BY DEF Follows, Event

\* What _process_symbol does to a state leaves it as current as it was.
LEMMA SameTrack ==
    ASSUME Tables, NEW c \in Event, NEW d \in Event, Ready(c, d)
    PROVE  /\ \A a \in Advances(c) : Ready(a, d)
           /\ c.status = "PULLBACK_OBSERVED" => Ready(WithStatus(c, "SHORT_ZONE_ACTIVE"), d)
           /\ Follows(WithStatus(c, "EXPIRED"), d)
           /\ Latest(WithStatus(c, "EXPIRED"), c.signal)
           /\ Follows(Reset(c), d) /\ Latest(Reset(c), c.signal)
<1> DEFINE Like(a) == /\ a \in Event /\ a.track = c.track /\ a.signal = c.signal
                      /\ \A type \in WatchTypes : type \in c.seen => type \in a.seen
<1>1. /\ Like(c) /\ Like(Pulled(c)) /\ Like(WithStatus(c, "SHORT_ZONE_ACTIVE"))
      /\ Like(WithStatus(c, "EXPIRED")) /\ Like(Reset(c))
  BY DEF Event, State, Pulled, WithStatus, Reset, Statuses, WatchTypes
<1>2. /\ Pulled(c).status # "EXPIRED" /\ WithStatus(c, "SHORT_ZONE_ACTIVE").status # "EXPIRED"
      /\ WithStatus(c, "EXPIRED").status = "EXPIRED" /\ Reset(c).status # "EXPIRED"
  BY DEF State, Pulled, WithStatus, Reset
<1>3. ASSUME NEW a, Like(a)
      PROVE  Follows(a, d) /\ Latest(a, c.signal)
  <2>1. Follows(a, d)
    BY <1>3 DEF Ready, Follows
  <2>2. \A x \in DOMAIN watches : x[1] = a.track /\ watches[x] > 0 => x[2] \in a.seen
    <3>1. ASSUME NEW x \in DOMAIN watches, x[1] = a.track, watches[x] > 0
          PROVE  x[2] \in a.seen
      <4>1. x[2] \in c.seen
        BY <1>3, <3>1 DEF Ready, Latest
      <4>2. x[2] \in WatchTypes
        BY DEF Tables
      <4>3. QED
        BY <1>3, <4>1, <4>2
    <3>2. QED
      BY <3>1
  <2>3. QED
    BY <1>3, <2>1, <2>2 DEF Ready, Latest
<1> QED
  BY <1>1, <1>2, <1>3 DEF Ready, Advances

\* What the steps of the scan leave alone, besides the tables they save to.
Untouched == pc'[Fast] = pc[Fast] /\ tracks' = tracks

\* run_cycle saves the row, and the scan is done with the symbol.
LEMMA AloneKeeps ==
    ASSUME IInv, Alone, Untouched, signals' = signals,
           NEW c \in Event, Follows(c, db), Latest(c, c.signal), Keeps(c)
    PROVE  Alone' /\ Follows(db', db)
<1>1. pc'[Scan] = "idle" /\ db' = c /\ watches' = watches
  BY DEF Keeps, Stops, IInv, Hands, Workers
<1>2. ~ Working' /\ (Latest(db, db.signal))'
  BY <1>1 DEF Working, Latest, Untouched
<1>3. TablesOnce'
  BY <1>1 DEF Alone, TablesOnce, OneSignalPerTracking, WatchOncePerTracking, Untouched
<1>4. QED
  BY <1>1, <1>2, <1>3 DEF Alone, ScanAt, Untouched

\* The scan goes on to another await with c, the row being d by now.
LEMMA AloneWaits ==
    ASSUME IInv, Alone, Untouched, UNCHANGED <<signals, watches>>,
           NEW c, NEW d \in Event, Ready(c, d), Follows(d, db),
           NEW place \in {"liquidity", "recheck", "zone"}, Waits(Scan, place, c), db' = d,
           place = "recheck" => c.signal = 0 /\ ~ HasSignal(c.event, "LOW")
    PROVE  Alone' /\ Follows(db', db)
<1>1. pc'[Scan] = place /\ copy'[Scan] = c
  BY DEF Waits, IInv, Hands, Workers
<1>2. Working' /\ (HasSignal(c.event, "LOW"))' = HasSignal(c.event, "LOW")
  BY <1>1 DEF Working, HasSignal
<1>3. Latest(c, c.signal)'
  BY DEF Ready, Latest, Untouched
<1>4. TablesOnce'
  BY DEF Alone, TablesOnce, OneSignalPerTracking, WatchOncePerTracking, Untouched
<1>5. ScanAt'
  <2>1. (Follows(copy[Scan], db))' /\ (copy[Scan])'.status # "EXPIRED"
    BY <1>1 DEF Ready
  <2>2. (copy[Scan].signal)' = c.signal /\ (HasSignal(copy[Scan].event, "LOW"))' = HasSignal(c.event, "LOW")
    BY <1>1, <1>2 DEF HasSignal
  <2>3. (Latest(copy[Scan], copy[Scan].signal))'
    BY <1>1, <1>3
  <2>4. QED
    BY <1>1, <1>2, <2>1, <2>2, <2>3 DEF ScanAt, Alone, Untouched
<1>6. QED
  BY <1>4, <1>5 DEF Alone

\* save_watch_candidate: the type was not marked, so the tracking had no such
\* row, and the mark is in the copy the scan waits with.
LEMMA AloneWatch ==
    ASSUME IInv, Alone, Untouched, signals' = signals,
           NEW c, NEW d \in Event, Ready(c, d), Follows(d, db),
           NEW type \in WatchTypes, Watch(c, type, d)
    PROVE  Alone' /\ Follows(db', db)
<1> DEFINE m == Marked(c, type)
           x == <<c.track, type>>
<1>1. /\ m.track = c.track /\ m.signal = c.signal /\ m.status = c.status
      /\ m.seen = c.seen \cup {type}
  BY DEF Marked, State
<1>2. /\ type \notin c.seen /\ watches' = [watches EXCEPT ![x] = watches[x] + 1]
      /\ Waits(Scan, "watch", m) /\ db' = d
  BY DEF Watch
<1> HIDE DEF m
<1>3. pc'[Scan] = "watch" /\ copy'[Scan] = m
  BY <1>2 DEF Waits, IInv, Hands, Workers
<1>4. /\ DOMAIN watches' = DOMAIN watches
      /\ \A y \in DOMAIN watches : y # x => watches'[y] = watches[y]
      /\ x \in DOMAIN watches => watches[x] = 0 /\ watches'[x] = 1
  <2> DEFINE P == Tracks \X WatchTypes
  <2>1. watches \in [P -> Nat]
    BY DEF IInv, Tables
  <2>2. x \in P => watches[x] = 0
    <3>1. SUFFICES ASSUME x \in P, watches[x] > 0 PROVE FALSE
      BY <2>1
    <3>2. x \in DOMAIN watches /\ x[1] = c.track /\ x[2] = type
      BY <2>1, <3>1
    <3>3. QED
      BY <1>2, <3>1, <3>2 DEF Ready, Latest
  <2> HIDE DEF P, x
  <2>3. QED
    BY <1>2, <2>1, <2>2
<1>5. Latest(m, m.signal)'
  <2>1. ASSUME NEW y \in DOMAIN watches', y[1] = m.track, watches'[y] > 0
        PROVE  y[2] \in m.seen
    <3>1. CASE y = x
      BY <1>1, <3>1
    <3>2. CASE y # x
      <4>1. y \in DOMAIN watches /\ watches[y] > 0
        BY <1>4, <2>1, <3>2
      <4>2. QED
        BY <1>1, <2>1, <4>1 DEF Ready, Latest
    <3>3. QED
      BY <3>1, <3>2
  <2>2. QED
    BY <1>1, <2>1 DEF Ready, Latest, Untouched
<1>6. TablesOnce'
  <2>1. ASSUME NEW y \in DOMAIN watches'
        PROVE  watches'[y] <= 1 /\ (y[1] > tracks' => watches'[y] = 0)
    <3>1. CASE y = x
      <4>1. x[1] = c.track /\ c.track <= tracks
        BY DEF Ready, Latest
      <4>2. c.track \in Nat /\ tracks \in Nat
        BY DEF Ready, Event, IInv, Counters
      <4>3. QED
        BY <1>4, <3>1, <4>1, <4>2 DEF Untouched
    <3>2. CASE y # x
      BY <1>4, <3>2 DEF Alone, TablesOnce, WatchOncePerTracking, Untouched
    <3>3. QED
      BY <3>1, <3>2
  <2>2. QED
    BY <2>1 DEF Alone, TablesOnce, OneSignalPerTracking, WatchOncePerTracking, Untouched
<1>7. ScanAt'
  <2>1. Working'
    BY <1>3 DEF Working
  <2>2. (Follows(copy[Scan], db))' /\ (copy[Scan])'.status # "EXPIRED"
    BY <1>1, <1>2, <1>3 DEF Ready, Follows
  <2>3. (Latest(copy[Scan], copy[Scan].signal))'
    BY <1>3, <1>5
  <2>4. QED
    BY <1>3, <2>1, <2>2, <2>3 DEF ScanAt, Alone, Untouched
<1>8. QED
  BY <1>2, <1>6, <1>7 DEF Alone

\* save_signal: the tracking had no signal, and the copy the scan waits with
\* is marked by the id it has in its hands.
LEMMA AloneEmit ==
    ASSUME IInv, Alone, Untouched,
           NEW c, NEW d \in Event, Ready(c, d), Follows(d, db), c.signal = 0,
           NEW kind \in Kinds, Emit(Scan, c, kind, d)
    PROVE  Alone' /\ Follows(db', db)
<1> DEFINE r == [track |-> c.track, event |-> c.event, kind |-> kind]
           n == Len(signals) + 1
<1>1. /\ signals' = Append(signals, r) /\ watches' = watches /\ db' = d
      /\ pc'[Scan] = "sending" /\ copy'[Scan] = c /\ mine'[Scan] = n
  BY DEF Emit, IInv, Hands, Workers
<1>2. signals \in Seq(Records) /\ r.track = c.track
  BY DEF IInv, Tables
<1> HIDE DEF r
<1>3. /\ DOMAIN signals = 1 .. Len(signals) /\ Len(signals) \in Nat
      /\ DOMAIN signals' = 1 .. n
      /\ \A i \in DOMAIN signals : signals'[i] = signals[i]
      /\ signals'[n] = r
  BY <1>1, <1>2
<1> HIDE DEF n
<1>4. \A i \in DOMAIN signals' : i \notin DOMAIN signals => i = n
  BY <1>3 DEF n
<1>5. \A i \in DOMAIN signals : signals[i].track # c.track
  BY <1>3 DEF Ready, Latest
<1>6. c.track <= tracks
  BY DEF Ready, Latest
<1>7. TablesOnce'
  <2>1. OneSignalPerTracking'
    BY <1>2, <1>3, <1>4, <1>5 DEF Alone, TablesOnce, OneSignalPerTracking
  <2>2. (\A i \in DOMAIN signals : signals[i].track <= tracks)'
    BY <1>2, <1>3, <1>4, <1>6 DEF Alone, TablesOnce, Untouched
  <2>3. QED
    BY <1>1, <2>1, <2>2 DEF Alone, TablesOnce, WatchOncePerTracking, Untouched
<1>8. \A id : id = n => Latest(c, id)'
  BY <1>1, <1>3, <1>4, <1>5 DEF Ready, Latest, Untouched
<1>9. ScanAt'
  <2>1. Working'
    BY <1>1 DEF Working
  <2>2. (Follows(copy[Scan], db))' /\ (copy[Scan])'.status # "EXPIRED"
    BY <1>1 DEF Ready
  <2>3. (Latest(copy[Scan], mine[Scan]))'
    BY <1>1, <1>8
  <2>4. QED
    BY <1>1, <2>1, <2>2, <2>3 DEF ScanAt, Alone, Untouched
<1>10. QED
  BY <1>1, <1>7, <1>9 DEF Alone

\* The rest of _process_symbol after an evaluation without a climax.
LEMMA AloneNoClimax ==
    ASSUME IInv, Alone, Untouched,
           NEW c, NEW d \in Event, Ready(c, d), Ready(c, db), Follows(d, db),
           NoClimax(Scan, c, d)
    PROVE  Alone' /\ Follows(db', db)
<1>1. signals' = signals /\ (Introduce(c, d) \/ Continue(c, d))
  BY DEF NoClimax, Scan, Fast
<1>2. /\ c \in Event /\ db \in Event
      /\ Follows(c, db) /\ Latest(c, c.signal)
  BY DEF Ready, IInv, Tables, Good
<1>3. CASE Keeps(c)
  BY <1>1, <1>2, <1>3, AloneKeeps
<1>4. CASE Watch(c, "EARLY", d)
  BY <1>1, <1>4, AloneWatch DEF WatchTypes
<1>5. CASE Keeps(WithStatus(c, "EXPIRED"))
  <2>1. /\ WithStatus(c, "EXPIRED") \in Event
        /\ WithStatus(c, "EXPIRED").signal = c.signal
    BY <1>2 DEF WithStatus, State, Event, Statuses
  <2>2. /\ Follows(WithStatus(c, "EXPIRED"), db)
        /\ Latest(WithStatus(c, "EXPIRED"), c.signal)
    BY <1>2, SameTrack DEF IInv
  <2>3. QED
    BY <1>1, <1>5, <2>1, <2>2, AloneKeeps
<1>6. ASSUME NEW a \in Advances(c),
             \/ Keeps(a)
             \/ Watch(a, "EARLY", d)
             \/ Waits(Scan, "zone", a) /\ db' = d /\ UNCHANGED watches
      PROVE  Alone' /\ Follows(db', db)
  <2>1. Ready(a, d) /\ Ready(a, db)
    BY <1>2, SameTrack DEF IInv
  <2>2. CASE Keeps(a)
    BY <1>1, <2>1, <2>2, AloneKeeps DEF Ready
  <2>3. CASE Watch(a, "EARLY", d)
    BY <1>1, <2>1, <2>3, AloneWatch DEF WatchTypes
  <2>4. CASE Waits(Scan, "zone", a) /\ db' = d /\ UNCHANGED watches
    BY <1>1, <2>1, <2>4, AloneWaits
  <2>5. QED
    BY <1>6, <2>2, <2>3, <2>4
<1>7. QED
  BY <1>1, <1>3, <1>4, <1>5, <1>6 DEF Introduce, Continue

\* Nothing runs and nothing is stored.
LEMMA AloneInit == Init => Alone
  BY DEF Init, Alone, TablesOnce, ScanAt, Working, Latest, OneSignalPerTracking,
         WatchOncePerTracking, Workers, None, State

\* What the scan holds is ready to go on with.
LEMMA HeldReady ==
    ASSUME IInv, Alone, Working, pc[Scan] # "sending"
    PROVE  /\ Ready(copy[Scan], db) /\ db \in Event
           /\ Ready(copy[Scan], copy[Scan])
           /\ \A d \in ShadowSaves(copy[Scan]) : d \in Event /\ Ready(copy[Scan], d)
                                                 /\ Follows(d, db)
<1>1. copy[Scan] \in Event /\ db \in Event
  BY DEF IInv, Hands, Tables, Good, Workers
<1>2. Follows(copy[Scan], db) /\ Follows(copy[Scan], copy[Scan]) /\ Follows(db, db)
  BY <1>1, FollowsItself DEF Alone, ScanAt
<1>3. Ready(copy[Scan], db) /\ Ready(copy[Scan], copy[Scan])
  BY <1>1, <1>2 DEF Alone, ScanAt, Ready
<1>4. QED
  BY <1>1, <1>2, <1>3 DEF ShadowSaves

\* The steps of the scan itself.
LEMMA AloneScan ==
    ASSUME IInv, Alone,
           LoadActive \/ ScanNothing \/ DetectPump \/ ResetOnHigh \/ ProcessKnown
             \/ EvaluateZone \/ WatchDone
    PROVE  Alone' /\ Follows(db', db)
<1>1. /\ db \in Event /\ copy[Scan] \in Event /\ tracks \in Nat
      /\ Follows(db, db) /\ Scan # Fast
  BY FollowsItself DEF IInv, Tables, Good, Hands, Counters, Workers, Scan, Fast
<1>2. CASE LoadActive
  <2>1. ~ Working /\ UNCHANGED <<db, signals, watches, tracks>>
    BY <1>2 DEF LoadActive, Working
  <2>2. /\ pc'[Scan] = "loaded" /\ pc'[Fast] = pc[Fast]
        /\ copy'[Scan] = IF Active(db) THEN db ELSE None
    BY <1>1, <1>2 DEF LoadActive, Waits, IInv, Hands, Workers
  <2>3. (Latest(db, db.signal))'
    BY <2>1 DEF Alone, ScanAt, Latest
  <2>4. Working' => copy'[Scan] = db' /\ db.status # "EXPIRED"
    BY <2>1, <2>2 DEF Working, Active
  <2>5. ScanAt'
    <3>1. CASE Working'
      <4>1. (Latest(copy[Scan], copy[Scan].signal))' /\ (Follows(copy[Scan], db))'
        BY <1>1, <2>1, <2>3, <2>4, <3>1
      <4>2. QED
        BY <2>1, <2>2, <2>4, <3>1, <4>1 DEF ScanAt, Alone
    <3>2. CASE ~ Working'
      BY <2>1, <2>2, <2>3, <3>2 DEF ScanAt, Alone
    <3>3. QED
      BY <3>1, <3>2
  <2>6. QED
    BY <1>1, <2>1, <2>5 DEF Alone, TablesOnce, OneSignalPerTracking, WatchOncePerTracking
<1>3. CASE ScanNothing
  <2>1. UNCHANGED <<db, signals, watches, tracks>> /\ pc'[Fast] = pc[Fast]
    BY <1>1, <1>3 DEF ScanNothing, Stops, IInv, Hands
  <2>2. Latest(db, db.signal)
    <3>1. CASE Working
      <4>1. copy[Scan] = db
        BY <1>3, <3>1 DEF ScanNothing, Alone, ScanAt, Working
      <4>2. QED
        BY <1>3, <3>1, <4>1 DEF ScanNothing, Alone, ScanAt
    <3>2. QED
      BY <3>1 DEF Alone, ScanAt
  <2>3. (Latest(db, db.signal))' /\ pc'[Scan] = "idle"
    BY <1>3, <2>1, <2>2 DEF Latest, ScanNothing, Stops, IInv, Hands, Workers
  <2>4. ScanAt'
    BY <2>1, <2>3 DEF ScanAt, Working, Alone
  <2>5. QED
    BY <1>1, <2>1, <2>4 DEF Alone, TablesOnce, OneSignalPerTracking, WatchOncePerTracking
<1>4. CASE DetectPump
  <2>1. PICK event \in 1 .. tracks + 1 :
          copy' = [copy EXCEPT ![Scan] = State(tracks + 1, event, "PUMP_DETECTED", {}, 0)]
    BY <1>4 DEF DetectPump
  <2>2. /\ UNCHANGED <<db, signals, watches>> /\ tracks' = tracks + 1
        /\ pc'[Scan] = "liquidity" /\ pc'[Fast] = pc[Fast]
    BY <1>1, <1>4 DEF DetectPump, IInv, Hands, Workers
  <2>3. /\ (copy[Scan])'.track = tracks' /\ (copy[Scan])'.signal = 0
        /\ (copy[Scan])'.status # "EXPIRED"
    BY <2>1, <2>2 DEF State, IInv, Hands, Workers
  <2>4. ~ Working /\ db.track <= tracks /\ db.track \in Nat
    BY <1>1, <1>4 DEF Working, DetectPump, Alone, ScanAt, Latest, Event
  <2>5. (Follows(copy[Scan], db))'
    BY <1>1, <2>2, <2>3, <2>4 DEF Follows
  <2>6. \A i \in DOMAIN signals : signals[i].track \in Nat /\ signals[i].track <= tracks
    <3>1. \A i \in DOMAIN signals : signals[i] \in Records
      BY DEF IInv, Tables
    <3>2. QED
      BY <3>1 DEF Alone, TablesOnce, Records
  <2>7. \A x \in DOMAIN watches : x[1] \in Nat /\ (x[1] > tracks => watches[x] = 0)
    <3>1. DOMAIN watches = Tracks \X WatchTypes
      BY DEF IInv, Tables
    <3>2. \A x \in DOMAIN watches : x[1] \in Tracks
      BY <3>1
    <3>3. QED
      BY <3>2, SignalsAssumption DEF Alone, TablesOnce, Tracks
  <2>8. TablesOnce'
    BY <1>1, <2>2, <2>6, <2>7
       DEF Alone, TablesOnce, OneSignalPerTracking, WatchOncePerTracking
  <2>9. (Latest(copy[Scan], copy[Scan].signal))'
    BY <1>1, <2>2, <2>3, <2>6, <2>7 DEF Latest
  <2>10. ScanAt' /\ Working'
    BY <2>2, <2>3, <2>5, <2>9 DEF ScanAt, Working, Alone
  <2>11. QED
    BY <1>1, <2>2, <2>8, <2>10 DEF Alone
<1>5. CASE ResetOnHigh
  <2>1. Working /\ pc[Scan] = "loaded" /\ copy[Scan].signal = 0
    BY <1>5 DEF ResetOnHigh, Working
  <2>2. Ready(copy[Scan], db)
    BY <2>1, HeldReady
  <2>3. /\ Reset(copy[Scan]) \in Event /\ Reset(copy[Scan]).signal = copy[Scan].signal
        /\ Follows(Reset(copy[Scan]), db) /\ Latest(Reset(copy[Scan]), copy[Scan].signal)
    <3>1. Reset(copy[Scan]) \in Event /\ Reset(copy[Scan]).signal = copy[Scan].signal
      BY <1>1 DEF Reset, State, Event, Statuses
    <3>2. QED
      BY <1>1, <2>2, <3>1, SameTrack DEF IInv
  <2>4. Untouched /\ signals' = signals /\ Keeps(Reset(copy[Scan]))
    BY <1>1, <1>5 DEF ResetOnHigh, Untouched, Keeps, Stops, IInv, Hands
  <2>5. QED
    BY <2>3, <2>4, AloneKeeps
<1>6. CASE ProcessKnown
  <2>1. Working /\ pc[Scan] = "loaded"
    BY <1>6 DEF ProcessKnown, Working
  <2>2. Ready(copy[Scan], db)
    BY <2>1, HeldReady
  <2>3. /\ Untouched /\ UNCHANGED <<signals, watches>> /\ db' = db
        /\ Waits(Scan, "liquidity", copy[Scan])
    BY <1>1, <1>6 DEF ProcessKnown, Untouched, Waits, IInv, Hands
  <2>4. QED
    BY <1>1, <2>2, <2>3, AloneWaits
<1>7. CASE EvaluateZone
  <2>1. Ready(copy[Scan], db)
    BY <1>7, HeldReady DEF EvaluateZone, Working
  <2>2. PICK c \in {copy[Scan]} \cup
                   {WithStatus(x, "SHORT_ZONE_ACTIVE") :
                      x \in {y \in {copy[Scan]} : y.status = "PULLBACK_OBSERVED"}} :
          \/ Keeps(c) /\ UNCHANGED signals
          \/ /\ c.signal = 0
             /\ \/ Watch(c, "ZONE", db) /\ UNCHANGED signals
                \/ Emit(Scan, c, "BASELINE", db)
    BY <1>7 DEF EvaluateZone
  <2>3. Ready(c, db)
    BY <1>1, <2>1, <2>2, SameTrack DEF IInv
  <2>4. Untouched
    <3>1. tracks' = tracks /\ pc \in [Workers -> Places] /\ Fast \in Workers
      BY <1>7 DEF EvaluateZone, IInv, Hands, Workers
    <3>2. CASE Keeps(c)
      BY <1>1, <3>1, <3>2 DEF Untouched, Keeps, Stops
    <3>3. CASE Watch(c, "ZONE", db)
      BY <1>1, <3>1, <3>3 DEF Untouched, Watch, Waits
    <3>4. CASE Emit(Scan, c, "BASELINE", db)
      BY <1>1, <3>1, <3>4 DEF Untouched, Emit
    <3>5. QED
      BY <2>2, <3>2, <3>3, <3>4
  <2>5. CASE Keeps(c) /\ UNCHANGED signals
    BY <2>3, <2>4, <2>5, AloneKeeps DEF Ready
  <2>6. CASE Watch(c, "ZONE", db) /\ UNCHANGED signals
    BY <1>1, <2>3, <2>4, <2>6, AloneWatch DEF WatchTypes
  <2>7. CASE c.signal = 0 /\ Emit(Scan, c, "BASELINE", db)
    BY <1>1, <2>3, <2>4, <2>7, AloneEmit DEF Kinds
  <2>8. QED
    BY <2>2, <2>5, <2>6, <2>7
<1>8. CASE WatchDone
  <2>1. Ready(copy[Scan], db)
    BY <1>8, HeldReady DEF WatchDone, Working
  <2>2. Untouched /\ signals' = signals /\ Keeps(copy[Scan])
    BY <1>1, <1>8 DEF WatchDone, Untouched, Keeps, Stops, IInv, Hands
  <2>3. QED
    BY <2>1, <2>2, AloneKeeps DEF Ready
<1>9. QED
  BY <1>2, <1>3, <1>4, <1>5, <1>6, <1>7, <1>8

\* The evaluation of a climax, from the liquidity to the row it ends with.
LEMMA AloneClimax ==
    ASSUME IInv, Alone,
           NotActionable(Scan) \/ Duplicate(Scan) \/ EmitVolume(Scan) \/ Recheck(Scan)
             \/ RecheckFails(Scan) \/ EmitLow(Scan) \/ SaveConflicts(Scan)
             \/ SignalDone(Scan)
    PROVE  Alone' /\ Follows(db', db)
<1>1. /\ db \in Event /\ copy[Scan] \in Event /\ Follows(db, db) /\ Scan # Fast
      /\ Working /\ tracks' = tracks
  BY FollowsItself
     DEF IInv, Tables, Good, Hands, Workers, Scan, Fast, Working, NotActionable, Duplicate,
         EmitVolume, Recheck, RecheckFails, EmitLow, SaveConflicts, SignalDone
<1>2. ASSUME NEW d, NoClimax(Scan, copy[Scan], d) PROVE Untouched
  <2>1. \E place \in Places : pc' = [pc EXCEPT ![Scan] = place]
    BY <1>1, <1>2 DEF NoClimax, Introduce, Continue, Keeps, Watch, Waits, Stops, Places
  <2>2. QED
    BY <1>1, <2>1 DEF Untouched, IInv, Hands
<1>3. CASE NotActionable(Scan) \/ Duplicate(Scan)
  <2>1. PICK d \in ShadowSaves(copy[Scan]) : NoClimax(Scan, copy[Scan], d)
    BY <1>3 DEF NotActionable, Duplicate
  <2>2. pc[Scan] # "sending"
    BY <1>3 DEF NotActionable, Duplicate
  <2>3. QED
    BY <1>1, <1>2, <2>1, <2>2, HeldReady, AloneNoClimax
<1>4. CASE EmitVolume(Scan)
  <2>1. PICK d \in {copy[Scan], db} : Emit(Scan, copy[Scan], "VOLUME", d)
    BY <1>4 DEF EmitVolume
  <2>2. pc[Scan] # "sending" /\ copy[Scan].signal = 0
    BY <1>4 DEF EmitVolume
  <2>3. Ready(copy[Scan], d) /\ d \in Event /\ Follows(d, db)
    BY <1>1, <2>2, HeldReady DEF Ready
  <2>4. Untouched
    BY <1>1, <2>1 DEF Untouched, Emit, IInv, Hands
  <2>5. QED
    BY <2>1, <2>2, <2>3, <2>4, AloneEmit DEF Kinds, Climax
<1>5. CASE Recheck(Scan)
  <2>1. PICK d \in ShadowSaves(copy[Scan]) : db' = d
    BY <1>5 DEF Recheck
  <2>2. /\ pc[Scan] # "sending" /\ copy[Scan].signal = 0
        /\ ~ HasSignal(copy[Scan].event, "LOW")
        /\ UNCHANGED <<signals, watches>> /\ Waits(Scan, "recheck", copy[Scan])
    BY <1>5 DEF Recheck
  <2>3. Ready(copy[Scan], d) /\ d \in Event /\ Follows(d, db)
    BY <1>1, <2>2, HeldReady
  <2>4. Untouched
    BY <1>1, <2>2 DEF Untouched, Waits, IInv, Hands
  <2>5. QED
    BY <2>1, <2>2, <2>3, <2>4, AloneWaits
<1>6. CASE RecheckFails(Scan)
  <2>1. NoClimax(Scan, copy[Scan], db) /\ pc[Scan] # "sending"
    BY <1>6 DEF RecheckFails
  <2>2. QED
    BY <1>1, <1>2, <2>1, HeldReady, AloneNoClimax
<1>7. CASE EmitLow(Scan)
  <2>1. /\ Emit(Scan, copy[Scan], "LOW", db) /\ pc[Scan] # "sending"
        /\ copy[Scan].signal = 0
    BY <1>7 DEF EmitLow, Alone, ScanAt
  <2>2. Untouched
    BY <1>1, <2>1 DEF Untouched, Emit, IInv, Hands
  <2>3. QED
    BY <1>1, <2>1, <2>2, HeldReady, AloneEmit DEF Kinds, Climax
<1>8. CASE SaveConflicts(Scan)
  BY <1>8 DEF SaveConflicts, Alone, ScanAt
<1>9. CASE SignalDone(Scan)
  <2> DEFINE c == Signalled(copy[Scan], mine[Scan])
  <2>1. pc[Scan] = "sending" /\ db' = c /\ Stops(Scan) /\ UNCHANGED <<signals, watches>>
    BY <1>9 DEF SignalDone
  <2>2. /\ c.track = copy[Scan].track /\ c.seen = copy[Scan].seen /\ c.signal = mine[Scan]
        /\ c.status = "SIGNAL_SENT"
    BY DEF Signalled, State
  <2> HIDE DEF c
  <2>3. Follows(copy[Scan], db) /\ copy[Scan].status # "EXPIRED" /\ copy[Scan].signal = 0
    BY <1>1, <2>1 DEF Alone, ScanAt
  <2>4. Latest(copy[Scan], mine[Scan])
    BY <1>1, <2>1 DEF Alone, ScanAt
  <2>5. Follows(c, db)
    <3>1. c.track = db.track => db.signal = 0
      BY <2>2, <2>3 DEF Follows
    <3>2. QED
      BY <2>2, <2>3, <3>1 DEF Follows
  <2>6. pc'[Scan] = "idle" /\ pc'[Fast] = pc[Fast]
    BY <1>1, <2>1 DEF Stops, IInv, Hands, Workers
  <2>7. (Latest(db, db.signal))'
    BY <1>1, <2>1, <2>2, <2>4 DEF Latest
  <2>8. TablesOnce'
    BY <1>1, <2>1 DEF Alone, TablesOnce, OneSignalPerTracking, WatchOncePerTracking
  <2>9. ScanAt'
    BY <2>6, <2>7 DEF ScanAt, Working, Alone
  <2>10. QED
    BY <2>1, <2>5, <2>8, <2>9 DEF Alone
<1>10. QED
  BY <1>3, <1>4, <1>5, <1>6, <1>7, <1>8, <1>9

\* Every step, when the monitor is off and nothing fails.
LEMMA AloneStep ==
    ASSUME ScanAlone, IInv, Alone, [Next]_vars
    PROVE  Alone' /\ Follows(db', db)
<1>1. /\ db \in Event /\ Follows(db, db) /\ ~ FastMonitor
      /\ pc[Fast] = "idle" /\ Workers = {Scan, Fast}
  BY FollowsItself DEF IInv, Tables, Good, Alone, ScanAt, ScanAlone, Workers
<1>2. ~ (faults < MaxFaults)
  BY DEF ScanAlone, IInv, Counters
<1>3. CASE LoadActive \/ ScanNothing \/ DetectPump \/ ResetOnHigh \/ ProcessKnown
             \/ EvaluateZone \/ WatchDone
  BY <1>3, AloneScan
<1>4. CASE SelectCandidate \/ PollNothing \/ DropReplaced \/ LoadCandidate \/ CandidateExpires
  BY <1>1, <1>4 DEF SelectCandidate, PollNothing, DropReplaced, LoadCandidate, CandidateExpires
<1>5. ASSUME NEW w \in Workers,
             NotActionable(w) \/ Duplicate(w) \/ EmitVolume(w) \/ Recheck(w)
               \/ RecheckFails(w) \/ EmitLow(w) \/ SaveConflicts(w) \/ SignalDone(w)
               \/ Fails(w)
      PROVE  Alone' /\ Follows(db', db)
  <2>1. CASE w = Fast
    BY <1>1, <1>5, <2>1 DEF NotActionable, Duplicate, EmitVolume, Recheck, RecheckFails,
                            EmitLow, SaveConflicts, SignalDone, Fails
  <2>2. CASE w = Scan
    <3>1. ~ Fails(w)
      BY <1>2 DEF Fails
    <3>2. QED
      BY <1>5, <2>2, <3>1, AloneClimax
  <2>3. QED
    BY <1>1, <2>1, <2>2
<1>6. CASE Crash \/ BecomeLate \/ UNCHANGED vars
  <2>1. UNCHANGED <<db, signals, watches, pc, copy, mine, tracks>>
    BY <1>2, <1>6 DEF Crash, BecomeLate, vars
  <2>2. QED
    BY <1>1, <2>1 DEF Alone, TablesOnce, ScanAt, Working, Latest, OneSignalPerTracking,
                      WatchOncePerTracking, HasSignal
<1>7. QED
  BY <1>3, <1>4, <1>5, <1>6 DEF Next

LEMMA SpecAlone == ASSUME ScanAlone PROVE Spec => [](IInv /\ Alone)
<1>1. IInv /\ Alone /\ [Next]_vars => Alone'
  BY ScanAlone, AloneStep
<1>2. QED
  BY <1>1, AloneInit, SpecIInv, PTL DEF Spec

\* The scan, when it is the only writer and loses no step, announces each
\* tracked pump at most once, whatever kinds of signal are delivered and
\* however often a high comes back.
THEOREM OneSignalAlone == ASSUME ScanAlone PROVE Spec => []OneSignalPerTracking
<1>1. Alone => OneSignalPerTracking
  BY DEF Alone, TablesOnce
<1>2. QED
  BY <1>1, SpecAlone, PTL

\* It also sends at most one WATCH of each type for a tracking: the mark in
\* the snapshot survives every reset, advance and save in between.
THEOREM OneWatchAlone == ASSUME ScanAlone PROVE Spec => []WatchOncePerTracking
<1>1. Alone => WatchOncePerTracking
  BY DEF Alone, TablesOnce
<1>2. QED
  BY <1>1, SpecAlone, PTL

\* And the row it saves keeps the signal, never goes back to an earlier
\* tracking and never revives an expired one.
THEOREM RowMovesOnAlone == ASSUME ScanAlone PROVE Spec => RowMovesOn
<1>1. IInv /\ Alone /\ [Next]_vars
        => [/\ db'.track >= db.track
            /\ db'.track = db.track /\ db.signal # 0 => db'.signal = db.signal
            /\ db'.track = db.track /\ db.status = "EXPIRED" => db'.status = "EXPIRED"]_vars
  BY ScanAlone, AloneStep DEF Follows
<1>2. QED
  BY <1>1, SpecAlone, PTL DEF Spec, RowMovesOn
=============================================================================
