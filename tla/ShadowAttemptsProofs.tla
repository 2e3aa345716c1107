------------------------ MODULE ShadowAttemptsProofs ------------------------
(***************************************************************************)
(* Proofs about ShadowAttempts for any number of roots, revisions,         *)
(* evaluations, stops and failed transactions, and any cap.                *)
(***************************************************************************)
EXTENDS ShadowAttempts, FiniteSetTheorems, SequenceTheorems, TLAPS

Existing(r) == {id \in OfRoot(r) : Exists(id)}

Capped == \A r \in Roots : IsFiniteSet(Existing(r)) /\ Cardinality(Existing(r)) <= Cap

\* HistoryTellsState of one attempt, and who has written the history so far.
Told(id) ==
    /\ attempts[id].life = "absent" => attempts[id] = Absent /\ history[id] = <<>>
    /\ Exists(id) => history[id] # <<>> /\ history[id][Len(history[id])].to = attempts[id].state
    /\ \A i \in 1 .. Len(history[id]) : history[id][i].type = "closed" =>
         i = Len(history[id]) /\ attempts[id].life = "closed"
    /\ attempts[id].life # "closed" => \A i \in 1 .. Len(history[id]) : history[id][i].by = "upsert"

AllTold == \A id \in Ids : Told(id)

\* In the histories h no upsert is told with the number n or a later one.
Below(h, n) ==
    \A id \in Ids : \A i \in 1 .. Len(h[id]) : h[id][i].by = "upsert" => h[id][i].ref < n

Unused(n) == Below(history, n)

\* The number of the evaluation that comes next is unused, and so is that of the
\* one whose attempt is about to be written.
Numbered ==
    /\ Unused(evals + 1)
    /\ \A w \in Workers : pc[w] = "attempt" => num[w] = evals /\ Unused(evals)

\* Between two transactions without an await there is one coroutine.
Critical == {"replace", "attempt", "mark"}
Alone == \A v, w \in Workers : pc[v] \in Critical /\ pc[w] \in Critical => v = w

\* What the coroutines hold has its row, if no write has failed.
Holds(w) ==
    /\ pc[w] \in {"replace", "waiting"} => root[w] \in Roots
    /\ pc[w] \in {"attempt", "mark"} => att[w] \in Ids
    /\ pc[w] = "attempt" /\ errors = 0 => roots[att[w][1]] >= att[w][3]
    /\ pc[w] \in {"replace", "waiting"} /\ tracking = TRUE /\ errors = 0 => roots[root[w]] >= 1

PoolRooted == pool # 0 /\ tracking = TRUE /\ errors = 0 => roots[pool] >= 1

Rooted == AttemptHasRoot /\ (\A w \in Workers : Holds(w)) /\ PoolRooted

\* A terminal attempt is open only on its way to being closed.
OnItsWay ==
    errors = 0 /\ stops = 0 =>
        \A id \in Ids : attempts[id].state \in Terminal /\ Open(id) =>
            /\ attempts[id].state = "SHADOW_ACTIONABLE"
            /\ \E w \in Workers : pc[w] = "mark" /\ att[w] = id

IInv == TypeOK /\ Capped /\ AllTold /\ Numbered /\ Alone /\ Rooted /\ OnItsWay

-----------------------------------------------------------------------------
(* The history.                                                            *)

LEMMA NoteTyped ==
    ASSUME NEW h \in Seq(Entry), NEW e \in Entry
    PROVE  Note(h, e) \in Seq(Entry)
  BY DEF Note

\* An entry with a key that is not there yet comes last.
LEMMA NoteNew ==
    ASSUME NEW h \in Seq(Entry), NEW e \in Entry, \A i \in 1 .. Len(h) : h[i] # e
    PROVE  /\ Note(h, e) = Append(h, e) /\ Note(h, e) \in Seq(Entry)
           /\ Len(Note(h, e)) = Len(h) + 1 /\ Len(h) \in Nat
           /\ Note(h, e)[Len(h) + 1] = e
           /\ \A i \in 1 .. Len(h) : Note(h, e)[i] = h[i]
<1>1. DOMAIN h = 1 .. Len(h)
  OBVIOUS
<1>2. Note(h, e) = Append(h, e)
  BY <1>1 DEF Note
<1>3. QED
  BY <1>2

LEMMA EnteredTyped ==
    ASSUME NEW type \in {"created", "state", "closed"}, NEW ref \in Nat,
           NEW by \in {"upsert", "evaluation", "replaced", "startup"},
           NEW to \in Observed \cup Terminal
    PROVE  /\ Entered(type, by, ref, to) \in Entry
           /\ Entered(type, by, ref, to).type = type /\ Entered(type, by, ref, to).by = by
           /\ Entered(type, by, ref, to).ref = ref /\ Entered(type, by, ref, to).to = to
  BY DEF Entered, Entry

-----------------------------------------------------------------------------
(* What a transaction may do to one attempt.                               *)

Kept(id) == attempts'[id] = attempts[id] /\ history'[id] = history[id]

Born(id) ==
    /\ attempts[id].life = "absent" /\ attempts'[id].life # "absent"
    /\ attempts'[id].state \in Observed \cup Terminal
    /\ attempts'[id].life = "open" => attempts'[id].state \notin Terminal
    /\ history'[id] = Note(history[id], Entered("created", "upsert", 0, attempts'[id].state))

Moved(id, n) ==
    /\ Open(id) /\ attempts[id].state \notin Terminal
    /\ attempts'[id].life # "absent" /\ attempts'[id].state \in Observed \cup Terminal
    /\ attempts'[id].state = "EXPIRED" => attempts'[id].life = "closed"
    /\ history'[id] = IF attempts'[id].state = attempts[id].state THEN history[id]
                      ELSE Note(history[id], Entered("state", "upsert", n, attempts'[id].state))

Shut(id) ==
    /\ Open(id)
    /\ attempts'[id].life = "closed" /\ attempts'[id].state \in Terminal
    /\ \E by \in {"evaluation", "replaced", "startup"}, ref \in Nat :
        \/ history'[id] = NoteClosing(history[id], by, ref, attempts'[id].state)
        \/ /\ attempts[id].state = attempts'[id].state
           /\ history'[id] = Note(history[id], Entered("closed", by, ref, attempts'[id].state))

Typed == attempts' \in [Ids -> Attempt] /\ history' \in [Ids -> Seq(Entry)]

\* The history goes on telling the state.
LEMMA BornTold ==
    ASSUME TypeOK, NEW id \in Ids, Told(id), Born(id), Typed
    PROVE  /\ Told(id)'
           /\ \A i \in 1 .. Len(history'[id]) :
                history'[id][i].by = "upsert" => history'[id][i].ref = 0
<1> DEFINE e == Entered("created", "upsert", 0, attempts'[id].state)
<1>1. history[id] = <<>> /\ history[id] \in Seq(Entry)
  BY DEF Told, Born, TypeOK
<1>2. /\ e \in Entry /\ e.type = "created" /\ e.by = "upsert" /\ e.ref = 0
      /\ e.to = attempts'[id].state
  BY EnteredTyped DEF Born
<1> HIDE DEF e
<1>3. history'[id] = Note(history[id], e)
  BY DEF Born, e
<1>4. Len(history'[id]) = 1 /\ history'[id][1] = e
  <2>1. Note(history[id], e) = <<e>>
    BY <1>1 DEF Note
  <2>2. QED
    BY <1>3, <2>1
<1>5. QED
  BY <1>2, <1>4 DEF Told, Exists, Born

LEMMA MovedTold ==
    ASSUME TypeOK, NEW id \in Ids, NEW n \in Nat, Told(id), Moved(id, n), Typed, Unused(n)
    PROVE  /\ Told(id)'
           /\ \A i \in 1 .. Len(history'[id]) :
                history'[id][i].by = "upsert" => history'[id][i].ref <= n
<1> DEFINE e == Entered("state", "upsert", n, attempts'[id].state)
<1>1. history[id] \in Seq(Entry) /\ Len(history[id]) \in Nat
  BY DEF TypeOK
<1>2. \A i \in 1 .. Len(history[id]) : history[id][i] \in Entry
  BY <1>1
<1>3. \A i \in 1 .. Len(history[id]) :
        /\ history[id][i].by = "upsert" /\ history[id][i].ref < n /\ history[id][i].ref \in Nat
        /\ history[id][i].type # "closed"
  BY <1>2 DEF Told, Moved, Open, Unused, Below, Entry
<1>4. CASE attempts'[id].state = attempts[id].state
  <2>1. history'[id] = history[id]
    BY <1>4 DEF Moved
  <2>2. QED
    BY <1>1, <1>3, <1>4, <2>1 DEF Told, Moved, Open, Exists
<1>5. CASE attempts'[id].state # attempts[id].state
  <2>1. e \in Entry /\ e.type = "state" /\ e.by = "upsert" /\ e.ref = n /\ e.to = attempts'[id].state
    BY EnteredTyped DEF Moved
  <2>2. history'[id] = Note(history[id], e)
    BY <1>5 DEF Moved
  <2> HIDE DEF e
  <2>3. \A i \in 1 .. Len(history[id]) : history[id][i] # e
    BY <1>3, <2>1
  <2>4. /\ Len(history'[id]) = Len(history[id]) + 1
        /\ history'[id][Len(history[id]) + 1] = e
        /\ \A i \in 1 .. Len(history[id]) : history'[id][i] = history[id][i]
    BY <1>1, <2>1, <2>2, <2>3, NoteNew
  <2>5. QED
    BY <1>1, <1>3, <2>1, <2>4 DEF Told, Moved, Exists
<1>6. QED
  BY <1>4, <1>5

\* A closing comes last.
LEMMA NoteClosed ==
    ASSUME NEW h \in Seq(Entry), NEW c \in Entry, NEW n \in Nat,
           c.type = "closed", c.by # "upsert",
           \A i \in 1 .. Len(h) :
              h[i].type # "closed" /\ (h[i].by = "upsert" => h[i].ref < n)
    PROVE  /\ Note(h, c) # <<>> /\ Note(h, c)[Len(Note(h, c))].to = c.to
           /\ \A i \in 1 .. Len(Note(h, c)) :
                /\ Note(h, c)[i].type = "closed" => i = Len(Note(h, c))
                /\ Note(h, c)[i].by = "upsert" => Note(h, c)[i].ref < n
<1>1. \A i \in 1 .. Len(h) : h[i] # c
  OBVIOUS
<1>2. /\ Len(Note(h, c)) = Len(h) + 1 /\ Len(h) \in Nat
      /\ Note(h, c)[Len(h) + 1] = c
      /\ \A i \in 1 .. Len(h) : Note(h, c)[i] = h[i]
      /\ Note(h, c) \in Seq(Entry)
  BY <1>1, NoteNew
<1>3. QED
  BY <1>2

LEMMA ShutTold ==
    ASSUME TypeOK, NEW id \in Ids, NEW n \in Nat, Told(id), Shut(id), Typed, Unused(n)
    PROVE  /\ Told(id)'
           /\ \A i \in 1 .. Len(history'[id]) :
                history'[id][i].by = "upsert" => history'[id][i].ref < n
<1>1. PICK by \in {"evaluation", "replaced", "startup"}, ref \in Nat :
        \/ history'[id] = NoteClosing(history[id], by, ref, attempts'[id].state)
        \/ /\ attempts[id].state = attempts'[id].state
           /\ history'[id] = Note(history[id], Entered("closed", by, ref, attempts'[id].state))
  BY DEF Shut
<1> DEFINE s == Entered("state", by, ref, attempts'[id].state)
           c == Entered("closed", by, ref, attempts'[id].state)
<1>2. history[id] \in Seq(Entry) /\ Len(history[id]) \in Nat
  BY DEF TypeOK
<1>3. \A i \in 1 .. Len(history[id]) : history[id][i] \in Entry
  BY <1>2
<1>4. \A i \in 1 .. Len(history[id]) :
        /\ history[id][i].by = "upsert" /\ history[id][i].ref < n
        /\ history[id][i].type # "closed"
  BY <1>3 DEF Told, Shut, Open, Unused, Below, Entry
<1>5. /\ s \in Entry /\ s.type = "state" /\ s.by = by /\ s.to = attempts'[id].state
      /\ c \in Entry /\ c.type = "closed" /\ c.by = by /\ c.to = attempts'[id].state
      /\ by # "upsert"
  BY EnteredTyped DEF Shut
<1>6. \E g \in Seq(Entry) :
        /\ history'[id] = Note(g, c)
        /\ \A i \in 1 .. Len(g) : g[i].type # "closed" /\ (g[i].by = "upsert" => g[i].ref < n)
  <2>1. CASE history'[id] = Note(history[id], c)
    BY <1>2, <1>4, <2>1
  <2>2. CASE history'[id] = NoteClosing(history[id], by, ref, attempts'[id].state)
    <3>1. \A i \in 1 .. Len(history[id]) : history[id][i] # s
      BY <1>4, <1>5
    <3>2. history'[id] = Note(Note(history[id], s), c)
      BY <2>2 DEF NoteClosing
    <3> HIDE DEF s, c
    <3>3. /\ Len(Note(history[id], s)) = Len(history[id]) + 1
          /\ Note(history[id], s) \in Seq(Entry)
          /\ Note(history[id], s)[Len(history[id]) + 1] = s
          /\ \A i \in 1 .. Len(history[id]) : Note(history[id], s)[i] = history[id][i]
      BY <1>2, <1>5, <3>1, NoteNew
    <3>4. \A i \in 1 .. Len(Note(history[id], s)) :
            /\ Note(history[id], s)[i].type # "closed"
            /\ Note(history[id], s)[i].by = "upsert" => Note(history[id], s)[i].ref < n
      BY <1>2, <1>4, <1>5, <3>3
    <3>5. QED
      BY <3>2, <3>3, <3>4
  <2>3. QED
    BY <1>1, <2>1, <2>2
<1> HIDE DEF s, c
<1>7. /\ history'[id] # <<>> /\ history'[id][Len(history'[id])].to = c.to
      /\ \A i \in 1 .. Len(history'[id]) :
            /\ history'[id][i].type = "closed" => i = Len(history'[id])
            /\ history'[id][i].by = "upsert" => history'[id][i].ref < n
  BY <1>5, <1>6, NoteClosed
<1>8. QED
  BY <1>5, <1>7 DEF Told, Shut, Exists

\* A transaction that does no more than that.
Touches(n) == Typed /\ \A id \in Ids : Kept(id) \/ Born(id) \/ Moved(id, n) \/ Shut(id)

\* ClosedIsFinal and TerminalStays, of one step.
Safe ==
    /\ \A id \in Ids : attempts[id].life = "closed" => attempts'[id] = attempts[id]
    /\ errors = 0 /\ stops' = 0 =>
        \A id \in Ids : attempts[id].state \in Terminal => attempts'[id].state = attempts[id].state

LEMMA TouchesTold ==
    ASSUME TypeOK, AllTold, NEW n \in Nat, Below(history, n), Touches(n)
    PROVE  /\ AllTold'
           /\ Below(history', n + 1)
           /\ n # 0 /\ (\A id \in Ids : Kept(id) \/ Born(id) \/ Shut(id)) => Below(history', n)
           /\ \A id \in Ids : attempts[id].life = "closed" => attempts'[id] = attempts[id]
           /\ \A id \in Ids : attempts[id].state \in Terminal =>
                attempts'[id].state = attempts[id].state \/ Shut(id)
<1>1. \A id \in Ids : \A i \in 1 .. Len(history[id]) : history[id][i] \in Entry
  BY DEF TypeOK
<1>2. \A id \in Ids : \A i \in 1 .. Len(history'[id]) : history'[id][i] \in Entry
  BY DEF Touches, Typed
<1>3. ASSUME NEW id \in Ids
      PROVE  /\ Told(id)'
             /\ \A i \in 1 .. Len(history'[id]) :
                  history'[id][i].by = "upsert" => history'[id][i].ref < n + 1
             /\ n # 0 /\ (Kept(id) \/ Born(id) \/ Shut(id)) => \A i \in 1 .. Len(history'[id]) :
                  history'[id][i].by = "upsert" => history'[id][i].ref < n
  <2>1. \A i \in 1 .. Len(history'[id]) : history'[id][i].ref \in Nat
    BY <1>2 DEF Entry
  <2>2. Told(id)
    BY DEF AllTold
  <2>3. Kept(id) => /\ Told(id)'
                    /\ \A i \in 1 .. Len(history'[id]) :
                         history'[id][i].by = "upsert" => history'[id][i].ref < n
    BY <2>2 DEF Told, Kept, Exists, Below
  <2>4. Born(id) => /\ Told(id)'
                    /\ \A i \in 1 .. Len(history'[id]) :
                         history'[id][i].by = "upsert" => history'[id][i].ref = 0
    BY <2>2, BornTold DEF Touches
  <2>5. Moved(id, n) => /\ Told(id)'
                        /\ \A i \in 1 .. Len(history'[id]) :
                             history'[id][i].by = "upsert" => history'[id][i].ref <= n
    BY <2>2, MovedTold DEF Touches, Unused
  <2>6. Shut(id) => /\ Told(id)'
                    /\ \A i \in 1 .. Len(history'[id]) :
                         history'[id][i].by = "upsert" => history'[id][i].ref < n
    BY <2>2, ShutTold DEF Touches, Unused
  <2>7. QED
    BY <2>1, <2>3, <2>4, <2>5, <2>6 DEF Touches
<1>4. AllTold' /\ Below(history', n + 1)
      /\ (n # 0 /\ (\A id \in Ids : Kept(id) \/ Born(id) \/ Shut(id)) => Below(history', n))
  BY <1>3 DEF AllTold, Below
<1>5. \A id \in Ids : attempts[id].life = "closed" => attempts'[id] = attempts[id]
  BY DEF Touches, Kept, Born, Moved, Shut, Open
<1>6. \A id \in Ids : attempts[id].state \in Terminal =>
        attempts'[id].state = attempts[id].state \/ Shut(id)
  <2> SUFFICES ASSUME NEW id \in Ids, attempts[id].state \in Terminal, Born(id) PROVE FALSE
    BY DEF Touches, Kept, Moved
  <2>1. attempts[id] = Absent
    BY DEF AllTold, Told, Born
  <2>2. QED
    BY <2>1 DEF Absent, Terminal
<1>7. QED
  BY <1>4, <1>5, <1>6

-----------------------------------------------------------------------------
(* The cap.                                                                *)

LEMMA CapKept ==
    ASSUME Capped,
           \A id \in Ids : attempts'[id].life = "absent" <=> attempts[id].life = "absent"
    PROVE  Capped'
<1>1. \A r \in Roots : Existing(r)' = Existing(r)
  BY DEF Existing, OfRoot, Exists
<1>2. QED
  BY <1>1 DEF Capped

\* The cap is looked at before an attempt joins those of its root.
LEMMA CapBorn ==
    ASSUME Capped, NEW id \in Ids, Admitted(id),
           attempts[id].life = "absent", attempts'[id].life # "absent",
           \A x \in Ids \ {id} : attempts'[x] = attempts[x]
    PROVE  Capped'
<1> SUFFICES ASSUME NEW r \in Roots
             PROVE  IsFiniteSet(Existing(r)') /\ Cardinality(Existing(r)') <= Cap
  BY DEF Capped
<1>1. IsFiniteSet(Existing(r)) /\ Cardinality(Existing(r)) <= Cap
  BY DEF Capped
<1>2. CASE r = id[1]
  <2>1. Existing(r)' = Existing(r) \cup {id} /\ id \notin Existing(r)
    BY <1>2 DEF Existing, OfRoot, Exists
  <2>2. Cardinality(Existing(r)) < Cap
    BY <1>2 DEF Admitted, Existing
  <2>3. Cardinality(Existing(r)) \in Nat
    BY <1>1, FS_CardinalityType
  <2>4. IsFiniteSet(Existing(r)') /\ Cardinality(Existing(r)') = Cardinality(Existing(r)) + 1
    BY <1>1, <2>1, FS_AddElement
  <2>5. QED
    BY <2>2, <2>3, <2>4, AttemptsAssumption
<1>3. CASE r # id[1]
  <2>1. Existing(r)' = Existing(r)
    BY <1>3 DEF Existing, OfRoot, Exists
  <2>2. QED
    BY <1>1, <2>1
<1>4. QED
  BY <1>2, <1>3

-----------------------------------------------------------------------------
(* What the functions of the repository do.                                *)

LEMMA NowTyped ==
    ASSUME TypeOK, NEW id \in Ids, NEW state \in Observed \cup Terminal, NEW life \in {"open", "closed"}
    PROVE  /\ Now(state, life, id) \in Attempt
           /\ Now(state, life, id).state = state /\ Now(state, life, id).life = life
  BY DEF TypeOK, Now, Attempt

LEMMA UpsertDoes ==
    ASSUME TypeOK, NEW id \in Ids, NEW state \in Observed \cup {"SHADOW_ACTIONABLE", "EXPIRED"},
           NEW n \in Nat, Upsert(id, state, n)
    PROVE  /\ Typed /\ due' \in SUBSET Ids
           /\ \A x \in Ids \ {id} : Kept(x)
           /\ \/ Kept(id)
              \/ Born(id) /\ Admitted(id)
              \/ Moved(id, n) /\ attempts'[id].state = state
<1>1. state \in Observed \cup Terminal /\ attempts \in [Ids -> Attempt]
      /\ history \in [Ids -> Seq(Entry)] /\ due \in SUBSET Ids
  BY DEF Terminal, TypeOK
<1>2. CASE Create(id, state, n)
  <2> DEFINE a == [state |-> state, born |-> n,
                   life |-> IF state \in Terminal THEN "closed" ELSE "open"]
             h == Note(history[id], Entered("created", "upsert", 0, state))
  <2>1. a \in Attempt /\ a.state = state /\ a.life = IF state \in Terminal THEN "closed" ELSE "open"
    BY <1>1 DEF Attempt
  <2>2. h \in Seq(Entry)
    BY <1>1, EnteredTyped, NoteTyped
  <2>3. /\ attempts' = [attempts EXCEPT ![id] = a] /\ history' = [history EXCEPT ![id] = h]
        /\ due' \in {due} \cup {due \cup {x} : x \in {y \in {id} : y[2] = "volume"}}
        /\ attempts[id].life = "absent" /\ Admitted(id)
    BY <1>2 DEF Create, Exists
  <2>4. due' \in SUBSET Ids
    BY <1>1, <2>3
  <2> HIDE DEF a, h
  <2>5. /\ attempts' \in [Ids -> Attempt] /\ history' \in [Ids -> Seq(Entry)]
        /\ attempts'[id] = a /\ history'[id] = h
        /\ \A x \in Ids \ {id} : attempts'[x] = attempts[x] /\ history'[x] = history[x]
    BY <1>1, <2>1, <2>2, <2>3
  <2>6. Born(id)
    BY <1>1, <2>1, <2>3, <2>5 DEF Born, h
  <2>7. QED
    BY <2>3, <2>4, <2>5, <2>6 DEF Typed, Kept
<1>3. CASE Observe(id, state, n)
  <2> DEFINE a == Now(state, IF state = "EXPIRED" THEN "closed" ELSE "open", id)
             h == Note(history[id], Entered("state", "upsert", n, state))
  <2>1. a \in Attempt /\ a.state = state /\ a.life = IF state = "EXPIRED" THEN "closed" ELSE "open"
    BY <1>1, NowTyped
  <2>2. h \in Seq(Entry)
    BY <1>1, EnteredTyped, NoteTyped
  <2>3. /\ attempts' = [attempts EXCEPT ![id] = a] /\ due' = due
        /\ history' = IF attempts[id].state = state THEN history ELSE [history EXCEPT ![id] = h]
        /\ Open(id) /\ attempts[id].state \notin Terminal
    BY <1>3 DEF Observe
  <2> HIDE DEF a, h
  <2>4. /\ attempts' \in [Ids -> Attempt] /\ history' \in [Ids -> Seq(Entry)]
        /\ attempts'[id] = a
        /\ history'[id] = IF state = attempts[id].state THEN history[id] ELSE h
        /\ \A x \in Ids \ {id} : attempts'[x] = attempts[x] /\ history'[x] = history[x]
    BY <1>1, <2>1, <2>2, <2>3
  <2>5. Moved(id, n) /\ attempts'[id].state = state
    BY <1>1, <2>1, <2>3, <2>4 DEF Moved, h
  <2>6. QED
    BY <1>1, <2>3, <2>4, <2>5 DEF Typed, Kept
<1>4. CASE LeaveAlone(id)
  BY <1>1, <1>4 DEF LeaveAlone, Typed, Kept
<1>5. QED
  BY <1>2, <1>3, <1>4 DEF Upsert

LEMMA ClosingTyped ==
    ASSUME NEW h \in Seq(Entry), NEW ref \in Nat, NEW to \in Terminal,
           NEW by \in {"upsert", "evaluation", "replaced", "startup"}
    PROVE  /\ NoteClosing(h, by, ref, to) \in Seq(Entry)
           /\ Note(h, Entered("closed", by, ref, to)) \in Seq(Entry)
<1>1. Entered("state", by, ref, to) \in Entry /\ Entered("closed", by, ref, to) \in Entry
  BY EnteredTyped
<1>2. QED
  BY <1>1, NoteTyped DEF NoteClosing

\* One attempt, or a set of them, is closed, those that are open.
Closes(ids, to, by, ref) ==
    /\ \A id \in ids : Open(id)
    /\ attempts' = [id \in Ids |-> IF id \in ids THEN Now(to, "closed", id) ELSE attempts[id]]
    /\ history' = [id \in Ids |-> IF id \in ids THEN history'[id] ELSE history[id]]
    /\ \A id \in ids :
          \/ history'[id] = NoteClosing(history[id], by, ref, to)
          \/ /\ attempts[id].state = to
             /\ history'[id] = Note(history[id], Entered("closed", by, ref, to))

LEMMA ClosesDoes ==
    ASSUME TypeOK, NEW ids \in SUBSET Ids, NEW ref \in Nat,
           NEW to \in Terminal, NEW by \in {"evaluation", "replaced", "startup"},
           Closes(ids, to, by, ref)
    PROVE  Typed /\ \A id \in Ids : Kept(id) \/ (Shut(id) /\ id \in ids /\ attempts'[id].state = to)
<1>1. /\ attempts \in [Ids -> Attempt] /\ history \in [Ids -> Seq(Entry)]
      /\ to \in Observed \cup Terminal
  BY DEF TypeOK
<1>2. \A id \in Ids : /\ Now(to, "closed", id) \in Attempt
                      /\ Now(to, "closed", id).state = to /\ Now(to, "closed", id).life = "closed"
  BY <1>1, NowTyped
<1>3. \A id \in ids : history'[id] \in Seq(Entry)
  <2> SUFFICES ASSUME NEW id \in ids PROVE history'[id] \in Seq(Entry)
    OBVIOUS
  <2>1. history[id] \in Seq(Entry) /\ by \in {"upsert", "evaluation", "replaced", "startup"}
    BY <1>1
  <2>2. /\ NoteClosing(history[id], by, ref, to) \in Seq(Entry)
        /\ Note(history[id], Entered("closed", by, ref, to)) \in Seq(Entry)
    BY <2>1, ClosingTyped
  <2>3. QED
    BY <2>2 DEF Closes
<1>4. Typed
  BY <1>1, <1>2, <1>3 DEF Typed, Closes
<1>5. ASSUME NEW id \in Ids, id \in ids PROVE Shut(id) /\ attempts'[id].state = to
  BY <1>2, <1>5 DEF Shut, Closes
<1>6. ASSUME NEW id \in Ids, id \notin ids PROVE Kept(id)
  BY <1>6 DEF Kept, Closes
<1>7. QED
  BY <1>4, <1>5, <1>6

-----------------------------------------------------------------------------
(* What the coroutines do.                                                 *)

\* Only w moves.
Moves(w) ==
    \A v \in Workers \ {w} :
        pc'[v] = pc[v] /\ root'[v] = root[v] /\ att'[v] = att[v] /\ num'[v] = num[v]

Hands ==
    /\ pc' \in [Workers -> Places] /\ root' \in [Workers -> 0 .. MaxRoots]
    /\ att' \in [Workers -> Ids \cup {NoAttempt}]
    /\ verdict' \in [Workers -> {"none", "actionable"}] /\ num' \in [Workers -> Nat]

LEMMA BeginsDoes ==
    ASSUME TypeOK, NEW w \in Workers, NEW place \in Places, NEW r \in 0 .. MaxRoots,
           Begins(w, place, r)
    PROVE  Hands /\ Moves(w) /\ pc'[w] = place /\ root'[w] = r
  BY DEF TypeOK, Begins, Hands, Moves

LEMMA GoesDoes ==
    ASSUME TypeOK, NEW w \in Workers, NEW place \in Places, NEW id \in Ids \cup {NoAttempt},
           NEW v \in {"none", "actionable"}, NEW n \in Nat, Goes(w, place, id, v, n)
    PROVE  Hands /\ Moves(w) /\ pc'[w] = place /\ att'[w] = id /\ num'[w] = n /\ root'[w] = root[w]
  BY DEF TypeOK, Goes, Hands, Moves

LEMMA EndsDoes ==
    ASSUME TypeOK, NEW w \in Workers, Ends(w)
    PROVE  Hands /\ Moves(w) /\ pc'[w] = "idle"
<1>1. "idle" \in Places /\ 0 \in 0 .. MaxRoots
  BY AttemptsAssumption DEF Places
<1>2. QED
  BY <1>1 DEF TypeOK, Ends, Hands, Moves

\* A failed transaction may only add to the failures.
Sound == errors' \in 0 .. MaxErrors /\ (errors' = 0 => errors = 0)

LEMMA ErrsSound ==
    ASSUME TypeOK, Errs \/ errors' = errors
    PROVE  Sound
  BY AttemptsAssumption DEF TypeOK, Errs, Sound

\* The rows of the roots only grow.
Grows == roots' \in [Roots -> 0 .. MaxRevs] /\ \A r \in Roots : roots'[r] >= roots[r]

LEMMA SameGrows ==
    ASSUME TypeOK, roots' = roots
    PROVE  Grows
  BY AttemptsAssumption DEF TypeOK, Grows

LEMMA SetRootGrows ==
    ASSUME TypeOK, NEW r \in Roots, NEW rev \in Revisions(r), SetRoot(r, rev)
    PROVE  Grows /\ roots'[r] = rev /\ rev \in 1 .. MaxRevs
<1>1. roots[r] \in 0 .. MaxRevs /\ roots[r] \in Nat /\ MaxRevs \in Nat
  BY AttemptsAssumption DEF TypeOK
<1>2. rev \in Nat /\ rev >= 1 /\ rev >= roots[r]
  BY <1>1 DEF Revisions
<1>3. rev <= MaxRevs /\ roots' = [roots EXCEPT ![r] = rev]
  BY DEF SetRoot
<1>4. QED
  BY <1>1, <1>2, <1>3, AttemptsAssumption DEF TypeOK, Grows

LEMMA HoldsKept ==
    ASSUME TypeOK, NEW v \in Workers, Holds(v), Grows, Sound, tracking' = tracking,
           pc'[v] = pc[v], root'[v] = root[v], att'[v] = att[v]
    PROVE  Holds(v)'
<1>1. \A r \in Roots : roots[r] \in Nat /\ roots'[r] \in Nat /\ roots'[r] >= roots[r]
  BY AttemptsAssumption DEF TypeOK, Grows
<1>2. \A id \in Ids : id[1] \in Roots /\ id[3] \in Nat
  BY AttemptsAssumption DEF Ids
<1>3. QED
  BY <1>1, <1>2 DEF Holds, Sound

\* The parts of the invariant that a step of w need not look at again.
LEMMA StepKeeps ==
    ASSUME IInv, NEW w \in Workers, Moves(w), TypeOK', Grows, Sound, tracking' = tracking,
           Capped', AllTold', AttemptHasRoot', OnItsWay', PoolRooted', Holds(w)',
           Below(history', evals' + 1),
           pc'[w] = "attempt" => num'[w] = evals' /\ Below(history', evals'),
           \/ Turn(w) \/ pc[w] \in Critical
           \/ pc'[w] \notin Critical /\ history' = history /\ evals' = evals
    PROVE  IInv'
<1>1. Numbered'
  <2> SUFFICES ASSUME NEW v \in Workers \ {w}, pc'[v] = "attempt"
               PROVE  num'[v] = evals' /\ Below(history', evals')
    BY DEF Numbered, Unused
  <2>1. pc[v] = "attempt" /\ num'[v] = num[v]
    BY DEF Moves
  <2>2. ~ Turn(w) /\ pc[w] \notin Critical
    BY <2>1 DEF Turn, IInv, Alone, Critical
  <2>3. history' = history /\ evals' = evals
    BY <2>2
  <2>4. QED
    BY <2>1, <2>3 DEF IInv, Numbered, Unused, Below
<1>2. Alone'
  <2> SUFFICES ASSUME NEW v \in Workers \ {w}, pc'[v] \in Critical, pc'[w] \in Critical PROVE FALSE
    <3>1. \A u, v \in Workers : u = v \/ (u # w /\ v = w) \/ (u = w /\ v # w)
      BY DEF Workers, Scan, Fast
    <3>2. QED
      BY <3>1 DEF Alone
  <2>1. pc[v] \in Critical
    BY DEF Moves
  <2>2. QED
    BY <2>1 DEF Turn, IInv, Alone, Critical
<1>3. Rooted'
  <2>1. \A v \in Workers \ {w} : Holds(v)'
    BY HoldsKept DEF Moves, IInv, Rooted
  <2>2. QED
    BY <2>1 DEF Rooted
<1>4. QED
  BY <1>1, <1>2, <1>3 DEF IInv

\* A step that leaves the attempts and their histories alone.
LEMMA Quiet ==
    ASSUME IInv, UNCHANGED <<attempts, history>>, Grows, Sound
    PROVE  /\ Capped' /\ AllTold' /\ AttemptHasRoot' /\ Safe
           /\ \A m : Below(history', m) <=> Below(history, m)
           /\ \A m \in Nat : Below(history', m) => Below(history', m + 1)
<1>1. Capped'
  BY CapKept DEF IInv
<1>2. AllTold'
  BY DEF IInv, AllTold, Told, Exists
<1>3. AttemptHasRoot'
  <2>1. \A id \in Ids : id[1] \in Roots /\ id[3] \in Nat
    BY AttemptsAssumption DEF Ids
  <2>2. \A r \in Roots : roots[r] \in Nat /\ roots'[r] \in Nat /\ roots'[r] >= roots[r]
    BY AttemptsAssumption DEF IInv, TypeOK, Grows
  <2>3. QED
    BY <2>1, <2>2 DEF IInv, Rooted, AttemptHasRoot, Exists, Sound
<1>4. \A m \in Nat : Below(history, m) => Below(history, m + 1)
  <2>1. \A id \in Ids : \A i \in 1 .. Len(history[id]) : history[id][i].ref \in Nat
    <3>1. \A id \in Ids : history[id] \in Seq(Entry)
      BY DEF IInv, TypeOK
    <3>2. \A id \in Ids : \A i \in 1 .. Len(history[id]) : history[id][i] \in Entry
      BY <3>1
    <3>3. QED
      BY <3>2 DEF Entry
  <2>2. QED
    BY <2>1 DEF Below
<1>5. QED
  BY <1>1, <1>2, <1>3, <1>4 DEF Safe, Below

\* Nor does it let go of an attempt on its way.
LEMMA QuietOnItsWay ==
    ASSUME IInv, UNCHANGED <<attempts, history, stops>>, Sound, NEW w \in Workers, Moves(w),
           pc[w] = "mark" => errors' # 0 \/ (pc'[w] = "mark" /\ att'[w] = att[w])
    PROVE  OnItsWay'
<1> SUFFICES ASSUME errors' = 0, stops' = 0, NEW id \in Ids,
                    attempts[id].state \in Terminal, Open(id)
             PROVE  /\ attempts[id].state = "SHADOW_ACTIONABLE"
                    /\ \E v \in Workers : pc'[v] = "mark" /\ att'[v] = id
  BY DEF OnItsWay, Open
<1>1. errors = 0 /\ stops = 0
  BY DEF Sound
<1>2. attempts[id].state = "SHADOW_ACTIONABLE" /\ \E v \in Workers : pc[v] = "mark" /\ att[v] = id
  BY <1>1 DEF IInv, OnItsWay
<1>3. PICK v \in Workers : pc[v] = "mark" /\ att[v] = id
  BY <1>2
<1>4. pc'[v] = "mark" /\ att'[v] = id
  BY <1>3 DEF Moves
<1>5. QED
  BY <1>2, <1>4

-----------------------------------------------------------------------------
(* The steps that write no attempt.                                        *)

\* The conclusion of each of these lemmas.
Fine == IInv' /\ Safe

LEMMA QuietFine ==
    ASSUME IInv, UNCHANGED <<tracking, attempts, history, stops>>, due' \in SUBSET Ids,
           event' \in 0 .. MaxRoots, pool' \in 0 .. MaxRoots,
           NEW w \in Workers, Moves(w), Hands, Grows, Sound, PoolRooted', Holds(w)',
           evals' = evals \/ (Turn(w) /\ evals' = evals + 1 /\ evals' \in 0 .. MaxEvals),
           pc'[w] = "attempt" => num'[w] = evals' /\ evals' = evals + 1,
           pc'[w] \in Critical => Turn(w),
           pc[w] = "mark" => errors' # 0
    PROVE  Fine
<1>1. TypeOK'
  BY DEF IInv, TypeOK, Hands, Grows, Sound
<1>2. /\ Capped' /\ AllTold' /\ AttemptHasRoot' /\ Safe
      /\ \A m : Below(history', m) <=> Below(history, m)
      /\ \A m \in Nat : Below(history', m) => Below(history', m + 1)
  BY Quiet
<1>3. OnItsWay'
  BY QuietOnItsWay
<1>4. Below(history, evals + 1) /\ evals \in Nat /\ evals + 1 \in Nat
  BY AttemptsAssumption DEF IInv, Numbered, Unused, TypeOK
<1>5. Below(history', evals' + 1)
  BY <1>2, <1>4
<1>6. pc'[w] = "attempt" => num'[w] = evals' /\ Below(history', evals')
  BY <1>2, <1>4
<1>7. \/ Turn(w) \/ pc[w] \in Critical
      \/ pc'[w] \notin Critical /\ history' = history /\ evals' = evals
  OBVIOUS
<1>8. QED
  BY <1>1, <1>2, <1>3, <1>5, <1>6, <1>7, StepKeeps DEF Fine

LEMMA PoolKept ==
    ASSUME IInv, Grows, Sound, tracking' = tracking, pool' = pool \/ pool' = 0
    PROVE  PoolRooted' /\ pool' \in 0 .. MaxRoots
<1>1. \A r \in Roots : roots[r] \in Nat /\ roots'[r] \in Nat /\ roots'[r] >= roots[r]
  BY AttemptsAssumption DEF IInv, TypeOK, Grows
<1>2. pool \in 0 .. MaxRoots /\ MaxRoots \in Nat
  BY AttemptsAssumption DEF IInv, TypeOK
<1>3. pool = 0 \/ pool \in Roots
  BY <1>2 DEF Roots
<1>4. QED
  BY <1>1, <1>2, <1>3, AttemptsAssumption DEF IInv, Rooted, PoolRooted, Sound

LEMMA TrackFine == ASSUME IInv, Track PROVE Fine
<1> DEFINE w == Scan
<1>1. TypeOK /\ w \in Workers /\ pc[w] = "idle" /\ Turn(w)
  BY DEF IInv, Workers, Track
<1>2. PICK r \in {event, event + 1} \cap Roots :
        /\ event' = r
        /\ \/ tracking /\ (\E rev \in Revisions(r) : SetRoot(r, rev)) /\ UNCHANGED errors
           \/ tracking /\ Errs /\ UNCHANGED roots
           \/ ~ tracking /\ UNCHANGED <<roots, errors>>
        /\ IF tracking /\ pool \notin {0, r}
           THEN Begins(Scan, "replace", r) /\ UNCHANGED pool
           ELSE Begins(Scan, "waiting", r) /\ Pools(r)
  BY DEF Track
<1>3. UNCHANGED <<tracking, attempts, history, due, evals, stops>>
  BY DEF Track
<1>4. r \in Roots /\ r \in 0 .. MaxRoots /\ r # 0 /\ event' = r
  BY <1>2, AttemptsAssumption DEF Roots
<1>5. Grows /\ Sound /\ (tracking = TRUE /\ errors' = 0 => roots'[r] >= 1)
  <2>1. CASE (\E rev \in Revisions(r) : SetRoot(r, rev)) /\ errors' = errors
    BY <1>1, <1>4, <2>1, SetRootGrows, ErrsSound, AttemptsAssumption
  <2>2. CASE Errs /\ roots' = roots
    BY <1>1, <2>2, SameGrows, ErrsSound, AttemptsAssumption DEF Errs, TypeOK
  <2>3. CASE tracking # TRUE /\ roots' = roots /\ errors' = errors
    BY <1>1, <2>3, SameGrows, ErrsSound
  <2>4. QED
    BY <1>2, <2>1, <2>2, <2>3
<1>6. \E place \in {"replace", "waiting"} : Begins(Scan, place, r)
  BY <1>2
<1>7. Hands /\ Moves(w) /\ pc'[w] \in {"replace", "waiting"} /\ root'[w] = r
  BY <1>1, <1>4, <1>6, BeginsDoes DEF Places
<1>8. Holds(w)'
  BY <1>3, <1>4, <1>5, <1>7 DEF Holds
<1>9. PoolRooted' /\ pool' \in 0 .. MaxRoots
  <2>1. pool' = pool \/ pool' = 0 \/ pool' = r
    BY <1>2 DEF Pools
  <2>2. CASE pool' = r
    BY <1>3, <1>4, <1>5, <2>2 DEF PoolRooted
  <2>3. QED
    BY <1>3, <1>5, <2>1, <2>2, PoolKept
<1>10. due' \in SUBSET Ids /\ event' \in 0 .. MaxRoots
  BY <1>1, <1>3, <1>4 DEF TypeOK
<1> HIDE DEF w
<1>11. QED
  BY <1>1, <1>3, <1>5, <1>7, <1>8, <1>9, <1>10, QuietFine

LEMMA SelectFine == ASSUME IInv, Select PROVE Fine
<1>1. TypeOK /\ Fast \in Workers /\ pc[Fast] = "idle" /\ Turn(Fast) /\ pool # 0
  BY DEF IInv, Workers, Select
<1>2. UNCHANGED <<tracking, tables, event, pool, counters>> /\ Begins(Fast, "waiting", pool)
  BY DEF Select
<1>3. Grows /\ Sound /\ PoolRooted' /\ pool' \in 0 .. MaxRoots
  BY <1>1, <1>2, SameGrows, ErrsSound, PoolKept DEF tables, counters
<1>4. pool \in Roots /\ pool \in 0 .. MaxRoots
  BY <1>1, AttemptsAssumption DEF TypeOK, Roots
<1>5. Hands /\ Moves(Fast) /\ pc'[Fast] = "waiting" /\ root'[Fast] = pool
  BY <1>1, <1>2, <1>4, BeginsDoes DEF Places
<1>6. Holds(Fast)'
  BY <1>1, <1>2, <1>3, <1>4, <1>5 DEF Holds, PoolRooted, counters
<1>7. due' \in SUBSET Ids /\ event' \in 0 .. MaxRoots
  BY <1>1, <1>2 DEF TypeOK, tables
<1>8. QED
  BY <1>1, <1>2, <1>3, <1>5, <1>6, <1>7, QuietFine DEF tables, counters, Critical

\* What moves no coroutine.
LEMMA StillFine ==
    ASSUME IInv, UNCHANGED <<tracking, roots, attempts, history, event, hands, counters>>,
           due' \in SUBSET Ids, pool' = pool \/ pool' = 0
    PROVE  Fine
<1>1. TypeOK /\ Scan \in Workers /\ Moves(Scan) /\ Hands
  BY DEF IInv, Workers, Moves, hands, Hands, TypeOK
<1>2. Grows /\ Sound
  BY <1>1, SameGrows, ErrsSound DEF counters
<1>3. PoolRooted' /\ pool' \in 0 .. MaxRoots
  BY <1>2, PoolKept
<1>4. TypeOK'
  BY <1>1, <1>2, <1>3 DEF TypeOK, Hands, Grows, Sound, counters
<1>5. /\ Capped' /\ AllTold' /\ AttemptHasRoot' /\ Safe
      /\ \A m : Below(history', m) <=> Below(history, m)
  BY <1>2, Quiet
<1>6. OnItsWay'
  BY <1>1, <1>2, QuietOnItsWay DEF hands, counters
<1>7. Numbered' /\ Alone'
  BY <1>5 DEF IInv, Numbered, Unused, Alone, hands, counters
<1>8. Rooted'
  BY <1>1, <1>2, <1>3, <1>5, HoldsKept DEF IInv, Rooted, hands
<1>9. QED
  BY <1>4, <1>5, <1>6, <1>7, <1>8 DEF Fine, IInv

LEMMA CandidateLeavesFine == ASSUME IInv, CandidateLeaves PROVE Fine
<1>1. due' \in SUBSET Ids
  BY DEF IInv, TypeOK, CandidateLeaves, tables
<1>2. QED
  BY <1>1, StillFine DEF CandidateLeaves, tables

LEMMA BecomeDueFine == ASSUME IInv, BecomeDue PROVE Fine
<1>1. due' \in SUBSET Ids
  BY DEF IInv, TypeOK, BecomeDue
<1>2. QED
  BY <1>1, StillFine DEF BecomeDue

\* A coroutine ends, having written nothing.
LEMMA EndsFine ==
    ASSUME IInv, NEW w \in Workers, Ends(w), UNCHANGED <<tracking, tables, event, evals, stops>>,
           pool' = pool \/ pool' = 0, Errs \/ (errors' = errors /\ pc[w] # "mark")
    PROVE  Fine
<1>1. TypeOK
  BY DEF IInv
<1>2. Grows /\ Sound /\ PoolRooted' /\ pool' \in 0 .. MaxRoots
  BY <1>1, SameGrows, ErrsSound, PoolKept DEF tables
<1>3. Hands /\ Moves(w) /\ pc'[w] = "idle"
  BY <1>1, EndsDoes
<1>4. Holds(w)'
  BY <1>3 DEF Holds
<1>5. pc[w] = "mark" => errors' # 0
  BY <1>1, AttemptsAssumption DEF Errs, TypeOK
<1>6. due' \in SUBSET Ids /\ event' \in 0 .. MaxRoots
  BY <1>1 DEF TypeOK, tables
<1>7. QED
  BY <1>1, <1>2, <1>3, <1>4, <1>5, <1>6, QuietFine DEF tables, Critical

LEMMA SkipFine == ASSUME IInv, NEW w \in Workers, Skip(w) PROVE Fine
  BY EndsFine DEF Skip, counters

LEMMA WriteFailsFine == ASSUME IInv, NEW w \in Workers, WriteFails(w) PROVE Fine
  BY EndsFine DEF WriteFails

LEMMA FailsFine == ASSUME IInv, NEW w \in Workers, Fails(w) PROVE Fine
  BY EndsFine DEF Fails

LEMMA EvaluateVolumeFine == ASSUME IInv, NEW w \in Workers, EvaluateVolume(w) PROVE Fine
<1>1. TypeOK /\ pc[w] = "waiting" /\ Turn(w) /\ evals' = evals + 1 /\ evals < MaxEvals
  BY DEF IInv, EvaluateVolume
<1>2. UNCHANGED <<tracking, attempts, history, due, event, pool, stops>>
  BY DEF EvaluateVolume
<1>3. root[w] \in Roots /\ evals \in Nat /\ evals' \in Nat /\ evals' \in 0 .. MaxEvals
  BY <1>1, AttemptsAssumption DEF IInv, Rooted, Holds, TypeOK
<1>4. \E rev \in 1 .. MaxRevs :
        /\ Goes(w, "attempt", <<root[w], "volume", rev>>, "none", evals + 1)
        /\ Grows /\ Sound /\ (errors' = 0 => roots'[root[w]] >= rev)
  <2>1. CASE \E rev \in Revisions(root[w]) :
               /\ SetRoot(root[w], rev)
               /\ Goes(w, "attempt", <<root[w], "volume", rev>>, "none", evals + 1)
               /\ UNCHANGED errors
    <3>1. PICK rev \in Revisions(root[w]) :
               /\ SetRoot(root[w], rev)
               /\ Goes(w, "attempt", <<root[w], "volume", rev>>, "none", evals + 1)
               /\ UNCHANGED errors
      BY <2>1
    <3>2. Grows /\ roots'[root[w]] = rev /\ rev \in 1 .. MaxRevs
      BY <1>1, <1>3, <3>1, SetRootGrows
    <3>3. Sound
      BY <1>1, <3>1, ErrsSound
    <3>4. QED
      BY <3>1, <3>2, <3>3, AttemptsAssumption
  <2>2. CASE /\ Errs /\ UNCHANGED roots
             /\ Goes(w, "attempt", <<root[w], "volume", 1>>, "none", evals + 1)
    <3>1. Grows /\ Sound /\ errors' # 0
      BY <1>1, <2>2, SameGrows, ErrsSound, AttemptsAssumption DEF Errs, TypeOK
    <3>2. QED
      BY <2>2, <3>1, AttemptsAssumption
  <2>3. QED
    BY <2>1, <2>2 DEF EvaluateVolume
<1>5. PICK rev \in 1 .. MaxRevs :
        /\ Goes(w, "attempt", <<root[w], "volume", rev>>, "none", evals + 1)
        /\ Grows /\ Sound /\ (errors' = 0 => roots'[root[w]] >= rev)
  BY <1>4
<1> DEFINE id == <<root[w], "volume", rev>>
<1>6. id \in Ids /\ id[1] = root[w] /\ id[3] = rev
  BY <1>3 DEF Ids, Kinds
<1> HIDE DEF id
<1>7. Hands /\ Moves(w) /\ pc'[w] = "attempt" /\ att'[w] = id /\ num'[w] = evals + 1
  BY <1>1, <1>3, <1>5, <1>6, GoesDoes DEF Places, id
<1>8. Holds(w)'
  BY <1>5, <1>6, <1>7 DEF Holds
<1>9. PoolRooted' /\ pool' \in 0 .. MaxRoots
  BY <1>2, <1>5, PoolKept
<1>10. due' \in SUBSET Ids /\ event' \in 0 .. MaxRoots
  BY <1>1, <1>2 DEF TypeOK
<1>11. QED
  BY <1>1, <1>2, <1>3, <1>5, <1>7, <1>8, <1>9, <1>10, QuietFine

LEMMA EvaluateOtherFine == ASSUME IInv, NEW w \in Workers, EvaluateOther(w) PROVE Fine
<1>1. TypeOK /\ pc[w] = "waiting" /\ Turn(w) /\ evals' = evals + 1 /\ evals < MaxEvals
  BY DEF IInv, EvaluateOther
<1>2. UNCHANGED <<tracking, tables, event, pool, stops, errors>>
  BY DEF EvaluateOther
<1>3. PICK id \in Ids \cup {NoAttempt} : Goes(w, "decide", id, "none", evals + 1)
  BY DEF EvaluateOther
<1>4. evals \in Nat /\ evals + 1 \in Nat /\ evals' \in 0 .. MaxEvals
  BY <1>1, AttemptsAssumption DEF TypeOK
<1>5. Hands /\ Moves(w) /\ pc'[w] = "decide"
  BY <1>1, <1>3, <1>4, GoesDoes DEF Places
<1>6. Holds(w)'
  BY <1>5 DEF Holds
<1>7. Grows /\ Sound /\ PoolRooted' /\ pool' \in 0 .. MaxRoots
  BY <1>1, <1>2, SameGrows, ErrsSound, PoolKept DEF tables
<1>8. due' \in SUBSET Ids /\ event' \in 0 .. MaxRoots
  BY <1>1, <1>2 DEF TypeOK, tables
<1>9. QED
  BY <1>1, <1>2, <1>4, <1>5, <1>6, <1>7, <1>8, QuietFine DEF tables, Critical

-----------------------------------------------------------------------------
(* The steps that write attempts.                                          *)

LEMMA ActionableDoes ==
    ASSUME TypeOK, NEW id \in Ids, NEW ref \in Nat, Actionable(id, ref)
    PROVE  /\ Typed /\ due' = due /\ attempts'[id].life # "open"
           /\ \A x \in Ids : Kept(x) \/ (Shut(x) /\ attempts'[x].state = "SHADOW_ACTIONABLE")
<1>1. attempts \in [Ids -> Attempt] /\ history \in [Ids -> Seq(Entry)] /\ due' = due
  BY DEF TypeOK, Actionable
<1>2. CASE ~ Open(id)
  BY <1>1, <1>2 DEF Actionable, Open, Typed, Kept
<1>3. CASE Open(id)
  <2> DEFINE a == Now("SHADOW_ACTIONABLE", "closed", id)
             h == IF attempts[id].state = "SHADOW_ACTIONABLE"
                  THEN Note(history[id], Entered("closed", "evaluation", ref, "SHADOW_ACTIONABLE"))
                  ELSE NoteClosing(history[id], "evaluation", ref, "SHADOW_ACTIONABLE")
  <2>1. attempts' = [attempts EXCEPT ![id] = a] /\ history' = [history EXCEPT ![id] = h]
    BY <1>3 DEF Actionable
  <2>2. a \in Attempt /\ a.life = "closed" /\ a.state = "SHADOW_ACTIONABLE"
    BY NowTyped DEF Terminal
  <2>3. h = NoteClosing(history[id], "evaluation", ref, "SHADOW_ACTIONABLE")
        \/ /\ attempts[id].state = "SHADOW_ACTIONABLE"
           /\ h = Note(history[id], Entered("closed", "evaluation", ref, "SHADOW_ACTIONABLE"))
    OBVIOUS
  <2> HIDE DEF a, h
  <2>4. /\ attempts' = [x \in Ids |-> IF x \in {id} THEN Now("SHADOW_ACTIONABLE", "closed", x)
                                                    ELSE attempts[x]]
        /\ history' = [x \in Ids |-> IF x \in {id} THEN history'[x] ELSE history[x]]
        /\ history'[id] = h /\ attempts'[id] = a
    BY <1>1, <2>1 DEF a
  <2>5. Typed /\ \A x \in Ids :
            Kept(x) \/ (Shut(x) /\ x \in {id} /\ attempts'[x].state = "SHADOW_ACTIONABLE")
    <3>1. \A x \in {id} :
            \/ history'[x] = NoteClosing(history[x], "evaluation", ref, "SHADOW_ACTIONABLE")
            \/ /\ attempts[x].state = "SHADOW_ACTIONABLE"
               /\ history'[x] = Note(history[x], Entered("closed", "evaluation", ref, "SHADOW_ACTIONABLE"))
      BY <2>3, <2>4
    <3>2. Closes({id}, "SHADOW_ACTIONABLE", "evaluation", ref)
      BY <1>3, <2>4, <3>1 DEF Closes
    <3>3. /\ {id} \in SUBSET Ids /\ "SHADOW_ACTIONABLE" \in Terminal
          /\ "evaluation" \in {"evaluation", "replaced", "startup"}
      BY DEF Terminal
    <3>4. QED
      BY <3>2, <3>3, ClosesDoes
  <2>6. QED
    BY <1>1, <2>2, <2>4, <2>5
<1>4. QED
  BY <1>2, <1>3

LEMMA ExpireDoes ==
    ASSUME TypeOK, NEW id \in Ids, NEW ref \in Nat, ExpireIfDue(id, ref)
    PROVE  Typed /\ due' = due /\ \A x \in Ids : Kept(x) \/ Shut(x)
<1>1. attempts \in [Ids -> Attempt] /\ history \in [Ids -> Seq(Entry)] /\ due' = due
  BY DEF TypeOK, ExpireIfDue
<1>2. CASE ~ (Open(id) /\ id \in due)
  BY <1>1, <1>2 DEF ExpireIfDue, Typed, Kept
<1>3. CASE Open(id) /\ id \in due
  <2>1. /\ attempts' = [attempts EXCEPT ![id] = Now("EXPIRED", "closed", id)]
        /\ history' = [history EXCEPT ![id] = NoteClosing(history[id], "evaluation", ref, "EXPIRED")]
    BY <1>3 DEF ExpireIfDue
  <2>2. /\ attempts' = [x \in Ids |-> IF x \in {id} THEN Now("EXPIRED", "closed", x) ELSE attempts[x]]
        /\ history' = [x \in Ids |-> IF x \in {id} THEN history'[x] ELSE history[x]]
        /\ history'[id] = NoteClosing(history[id], "evaluation", ref, "EXPIRED")
    BY <1>1, <2>1
  <2>3. /\ {id} \in SUBSET Ids /\ "EXPIRED" \in Terminal
        /\ "evaluation" \in {"evaluation", "replaced", "startup"}
    BY DEF Terminal
  <2>4. Closes({id}, "EXPIRED", "evaluation", ref)
    BY <1>3, <2>2 DEF Closes
  <2>5. Typed /\ \A x \in Ids : Kept(x) \/ (Shut(x) /\ x \in {id} /\ attempts'[x].state = "EXPIRED")
    BY <2>3, <2>4, ClosesDoes
  <2>6. QED
    BY <1>1, <2>5
<1>4. QED
  BY <1>2, <1>3

LEMMA CloseAllDoes ==
    ASSUME TypeOK, NEW ids \in SUBSET Ids, \A id \in ids : Open(id),
           NEW to \in Terminal, NEW by \in {"replaced", "startup"}, CloseAll(ids, to, by)
    PROVE  Typed /\ due' = due /\ \A x \in Ids : Kept(x) \/ Shut(x)
<1>1. /\ attempts' = [x \in Ids |-> IF x \in ids THEN Now(to, "closed", x) ELSE attempts[x]]
      /\ history' = [x \in Ids |-> IF x \in ids THEN NoteClosing(history[x], by, 0, to) ELSE history[x]]
      /\ due' = due
  BY DEF CloseAll
<1>2. history' = [x \in Ids |-> IF x \in ids THEN history'[x] ELSE history[x]]
  BY <1>1
<1>3. \A x \in ids : history'[x] = NoteClosing(history[x], by, 0, to)
  BY <1>1
<1>4. by \in {"evaluation", "replaced", "startup"} /\ 0 \in Nat
  OBVIOUS
<1>5. Typed /\ \A x \in Ids : Kept(x) \/ (Shut(x) /\ x \in ids /\ attempts'[x].state = to)
  <2>1. Closes(ids, to, by, 0)
    BY <1>1, <1>2, <1>3 DEF Closes
  <2>2. QED
    BY <1>4, <2>1, ClosesDoes
<1>6. QED
  BY <1>1, <1>5

\* An attempt may be made actionable if it is closed in the next step.
Observes(w, id) ==
    \/ attempts'[id].state \in Observed \cup {"EXPIRED"}
    \/ attempts'[id].state = "SHADOW_ACTIONABLE" /\ pc'[w] = "mark" /\ att'[w] = id

\* A coroutine's write, when it has its turn.
LEMMA WriteFine ==
    ASSUME IInv, NEW w \in Workers, Moves(w), Hands, UNCHANGED <<tracking, roots, event, stops>>,
           due' \in SUBSET Ids, pool' \in 0 .. MaxRoots, PoolRooted', Holds(w)', Sound,
           evals' \in 0 .. MaxEvals, Turn(w) \/ pc[w] \in Critical, pc'[w] # "attempt",
           NEW n \in Nat, Below(history, n), Touches(n), Capped', Below(history', evals' + 1),
           \A id \in Ids : Born(id) /\ errors' = 0 => roots[id[1]] >= id[3],
           \A id \in Ids : Kept(id) \/ Born(id) \/ Shut(id) \/ Observes(w, id),
           pc[w] = "mark" => attempts'[att[w]].life # "open",
           pc[w] = "mark" => \A id \in Ids : Shut(id) => attempts'[id].state = "SHADOW_ACTIONABLE"
    PROVE  Fine
<1>1. TypeOK /\ AllTold
  BY DEF IInv
<1>2. TypeOK'
  <2>1. Grows
    BY <1>1, SameGrows
  <2>2. QED
    BY <1>1, <2>1 DEF TypeOK, Hands, Touches, Typed, Grows, Sound
<1>3. /\ AllTold'
      /\ \A id \in Ids : attempts[id].life = "closed" => attempts'[id] = attempts[id]
      /\ \A id \in Ids : attempts[id].state \in Terminal =>
            attempts'[id].state = attempts[id].state \/ Shut(id)
  BY <1>1, TouchesTold
\* Who is on its way to closing an attempt is the one that moves.
<1>4. \A v \in Workers : pc[v] = "mark" => v = w
  BY DEF IInv, Alone, Turn, Critical
<1>5. ASSUME errors = 0, stops = 0, NEW id \in Ids, attempts[id].state \in Terminal, Open(id)
      PROVE  attempts[id].state = "SHADOW_ACTIONABLE" /\ pc[w] = "mark" /\ att[w] = id
  BY <1>4, <1>5 DEF IInv, OnItsWay
<1>6. Safe
  <2> SUFFICES ASSUME errors = 0, stops' = 0, NEW id \in Ids, attempts[id].state \in Terminal, Shut(id)
               PROVE  attempts'[id].state = attempts[id].state
    BY <1>3 DEF Safe
  <2>1. attempts[id].state = "SHADOW_ACTIONABLE" /\ pc[w] = "mark"
    BY <1>5 DEF Shut
  <2>2. QED
    BY <2>1
<1>7. OnItsWay'
  <2> SUFFICES ASSUME errors' = 0, stops' = 0, NEW id \in Ids,
                      attempts'[id].state \in Terminal, attempts'[id].life = "open"
               PROVE  /\ attempts'[id].state = "SHADOW_ACTIONABLE"
                      /\ \E v \in Workers : pc'[v] = "mark" /\ att'[v] = id
    BY DEF OnItsWay, Open
  <2>1. errors = 0 /\ stops = 0
    BY DEF Sound
  <2>2. CASE Kept(id)
    BY <1>5, <2>1, <2>2 DEF Kept, Open
  <2>3. CASE Moved(id, n) /\ Observes(w, id)
    BY <2>3 DEF Moved, Observes, Observed, Terminal
  <2>4. QED
    BY <2>2, <2>3 DEF Touches, Born, Shut
<1>8. AttemptHasRoot'
  <2> SUFFICES ASSUME errors' = 0, NEW id \in Ids, attempts'[id].life # "absent"
               PROVE  roots[id[1]] >= id[3]
    BY DEF AttemptHasRoot, Exists
  <2>1. errors = 0
    BY DEF Sound
  <2>2. CASE attempts[id].life = "absent"
    BY <2>2 DEF Touches, Kept, Moved, Shut, Open
  <2>3. CASE attempts[id].life # "absent"
    BY <2>1, <2>3 DEF IInv, Rooted, AttemptHasRoot, Exists
  <2>4. QED
    BY <2>2, <2>3
<1>9. Grows
  BY <1>1, SameGrows
<1>10. Turn(w) \/ pc[w] \in Critical \/ (pc'[w] \notin Critical /\ history' = history /\ evals' = evals)
  OBVIOUS
<1>11. QED
  BY <1>2, <1>3, <1>6, <1>7, <1>8, <1>9, <1>10, StepKeeps DEF Fine

\* A coroutine's write that closes attempts and does no more.
LEMMA ShutFine ==
    ASSUME IInv, NEW w \in Workers, Moves(w), Hands, UNCHANGED <<tracking, roots, event, stops, evals>>,
           due' \in SUBSET Ids, pool' \in 0 .. MaxRoots, PoolRooted', Holds(w)', Sound,
           Turn(w) \/ pc[w] \in Critical, pc'[w] # "attempt",
           Typed, \A id \in Ids : Kept(id) \/ Shut(id),
           pc[w] = "mark" => /\ attempts'[att[w]].life # "open"
                             /\ \A id \in Ids : Shut(id) => attempts'[id].state = "SHADOW_ACTIONABLE"
    PROVE  Fine
<1>1. /\ evals \in Nat /\ evals + 1 \in Nat /\ evals + 1 # 0 /\ Below(history, evals + 1)
      /\ evals' \in 0 .. MaxEvals
  BY AttemptsAssumption DEF IInv, TypeOK, Numbered, Unused
<1>2. Touches(evals + 1)
  BY DEF Touches
<1>3. Capped'
  <2>1. \A id \in Ids : attempts'[id].life = "absent" <=> attempts[id].life = "absent"
    BY DEF Kept, Shut, Open
  <2>2. QED
    BY <2>1, CapKept DEF IInv
<1>4. Below(history', evals' + 1)
  BY <1>1, <1>2, TouchesTold DEF IInv
<1>5. \A id \in Ids : ~ Born(id)
  BY DEF Kept, Shut, Born, Open
<1>6. QED
  BY <1>1, <1>2, <1>3, <1>4, <1>5, WriteFine

LEMMA ReplaceFine == ASSUME IInv, Replace PROVE Fine
<1>1. TypeOK /\ Scan \in Workers /\ pc[Scan] = "replace" /\ root[Scan] \in Roots
  BY DEF IInv, Replace, Workers, Rooted, Holds
<1> DEFINE ids == {id \in OfRoot(pool) : Open(id)}
<1>2. /\ CloseAll(ids, "ROOT_REPLACED", "replaced") /\ Begins(Scan, "waiting", root[Scan])
      /\ UNCHANGED <<tracking, roots, event, counters>>
  BY DEF Replace
<1>3. Typed /\ due' = due /\ \A x \in Ids : Kept(x) \/ Shut(x)
  <2>1. ids \in SUBSET Ids /\ (\A id \in ids : Open(id)) /\ "ROOT_REPLACED" \in Terminal
    BY DEF OfRoot, Terminal
  <2> HIDE DEF ids
  <2>2. QED
    BY <1>1, <1>2, <2>1, CloseAllDoes
<1>4. Hands /\ Moves(Scan) /\ pc'[Scan] = "waiting" /\ root'[Scan] = root[Scan]
  BY <1>1, <1>2, BeginsDoes DEF Places, TypeOK
<1>5. Grows /\ Sound
  BY <1>1, <1>2, SameGrows, ErrsSound DEF counters
<1>6. Holds(Scan)'
  <2>1. Holds(Scan)
    BY <1>1 DEF IInv, Rooted
  <2>2. QED
    BY <1>1, <1>2, <1>4, <2>1 DEF Holds, counters
<1>7. PoolRooted' /\ pool' \in 0 .. MaxRoots
  <2>1. pool' = 0 \/ pool' = root'[Scan]
    BY <1>4 DEF Replace
  <2>2. QED
    BY <1>1, <1>4, <1>6, <2>1, AttemptsAssumption DEF PoolRooted, Holds, Roots
<1>8. due' \in SUBSET Ids
  BY <1>1, <1>3 DEF TypeOK
<1>9. QED
  BY <1>1, <1>2, <1>3, <1>4, <1>5, <1>6, <1>7, <1>8, ShutFine DEF Critical, counters

LEMMA MarkActionableFine == ASSUME IInv, NEW w \in Workers, MarkActionable(w) PROVE Fine
<1>1. TypeOK /\ pc[w] = "mark" /\ att[w] \in Ids
  BY DEF IInv, MarkActionable, Rooted, Holds
<1>2. Actionable(att[w], 0) /\ Ends(w) /\ UNCHANGED <<tracking, roots, event, pool, counters>>
  BY DEF MarkActionable
<1>3. /\ Typed /\ due' = due /\ attempts'[att[w]].life # "open"
      /\ \A x \in Ids : Kept(x) \/ (Shut(x) /\ attempts'[x].state = "SHADOW_ACTIONABLE")
  BY <1>1, <1>2, ActionableDoes
<1>4. Hands /\ Moves(w) /\ pc'[w] = "idle"
  BY <1>1, <1>2, EndsDoes
<1>5. Grows /\ Sound /\ PoolRooted' /\ pool' \in 0 .. MaxRoots
  BY <1>1, <1>2, SameGrows, ErrsSound, PoolKept DEF counters
<1>6. Holds(w)'
  BY <1>4 DEF Holds
<1>7. due' \in SUBSET Ids
  BY <1>1, <1>3 DEF TypeOK
<1>8. \A id \in Ids : Shut(id) => attempts'[id].state = "SHADOW_ACTIONABLE"
  BY <1>3 DEF Kept, Shut, Open
<1>9. QED
  BY <1>1, <1>2, <1>3, <1>4, <1>5, <1>6, <1>7, <1>8, ShutFine DEF Critical, counters

LEMMA DecideFine == ASSUME IInv, NEW w \in Workers, Decide(w) PROVE Fine
<1>1. /\ TypeOK /\ pc[w] = "decide" /\ Turn(w) /\ Ends(w)
      /\ UNCHANGED <<tracking, roots, event, pool, evals, stops>>
  BY DEF IInv, Decide
<1>2. /\ Typed /\ due' = due /\ Sound
      /\ \A x \in Ids : Kept(x) \/ Shut(x)
  <2>1. CASE att[w] = NoAttempt /\ UNCHANGED <<attempts, history, due, errors>>
    BY <1>1, <2>1, ErrsSound DEF Typed, Kept, TypeOK
  <2>2. CASE att[w] # NoAttempt /\ \E ref \in {0, num[w]} :
              /\ IF ref = 0 THEN Errs ELSE UNCHANGED errors
              /\ IF verdict[w] = "actionable" THEN Actionable(att[w], ref)
                 ELSE ExpireIfDue(att[w], ref)
    <3>1. PICK ref \in {0, num[w]} :
              /\ IF ref = 0 THEN Errs ELSE UNCHANGED errors
              /\ IF verdict[w] = "actionable" THEN Actionable(att[w], ref)
                 ELSE ExpireIfDue(att[w], ref)
      BY <2>2
    <3>2. ref \in Nat /\ att[w] \in Ids
      BY <1>1, <2>2, <3>1 DEF TypeOK
    <3>3. Sound
      BY <1>1, <3>1, ErrsSound
    <3>4. Typed /\ due' = due /\ \A x \in Ids : Kept(x) \/ Shut(x)
      BY <1>1, <3>1, <3>2, ActionableDoes, ExpireDoes
    <3>5. QED
      BY <3>3, <3>4
  <2>3. QED
    BY <2>1, <2>2 DEF Decide
<1>3. Hands /\ Moves(w) /\ pc'[w] = "idle"
  BY <1>1, EndsDoes
<1>4. PoolRooted' /\ pool' \in 0 .. MaxRoots
  BY <1>1, <1>2, SameGrows, PoolKept
<1>5. Holds(w)'
  BY <1>3 DEF Holds
<1>6. due' \in SUBSET Ids
  BY <1>1, <1>2 DEF TypeOK
<1>7. QED
  BY <1>1, <1>2, <1>3, <1>4, <1>5, <1>6, ShutFine

\* What an upsert leaves to be shown.
LEMMA UpsertWrites ==
    ASSUME IInv, NEW w \in Workers, NEW id \in Ids, NEW n \in Nat,
           NEW state \in Observed \cup {"SHADOW_ACTIONABLE", "EXPIRED"}, Upsert(id, state, n),
           Sound, errors' = 0 => roots[id[1]] >= id[3],
           state = "SHADOW_ACTIONABLE" /\ Persists(id) => pc'[w] = "mark" /\ att'[w] = id
    PROVE  /\ Touches(n) /\ Capped' /\ due' \in SUBSET Ids
           /\ \A x \in Ids : Born(x) /\ errors' = 0 => roots[x[1]] >= x[3]
           /\ \A x \in Ids : Kept(x) \/ Born(x) \/ Shut(x) \/ Observes(w, x)
<1>1. /\ Typed /\ due' \in SUBSET Ids
      /\ \A x \in Ids \ {id} : Kept(x)
      /\ \/ Kept(id)
         \/ Born(id) /\ Admitted(id)
         \/ Moved(id, n) /\ attempts'[id].state = state
  BY UpsertDoes DEF IInv
<1>2. Touches(n)
  BY <1>1 DEF Touches
<1>3. Capped'
  <2>1. CASE Born(id) /\ Admitted(id)
    BY <1>1, <2>1, CapBorn DEF IInv, Born, Kept
  <2>2. CASE Kept(id) \/ Moved(id, n)
    <3>1. \A x \in Ids : attempts'[x].life = "absent" <=> attempts[x].life = "absent"
      BY <1>1, <2>2 DEF Kept, Moved, Open
    <3>2. QED
      BY <3>1, CapKept DEF IInv
  <2>3. QED
    BY <1>1, <2>1, <2>2
<1>4. \A x \in Ids : Born(x) => x = id
  BY <1>1 DEF Kept, Born
<1>5. CASE Moved(id, n) /\ attempts'[id].state = state
  <2>1. Persists(id)
    BY <1>5 DEF Moved, Open, Persists, Exists
  <2>2. Observes(w, id)
    BY <1>5, <2>1 DEF Observes
  <2>3. QED
    BY <1>1, <1>2, <1>3, <1>4, <2>2
<1>6. CASE Kept(id) \/ Born(id)
  BY <1>1, <1>2, <1>3, <1>4, <1>6
<1>7. QED
  BY <1>1, <1>5, <1>6

LEMMA UpsertVolumeFine == ASSUME IInv, NEW w \in Workers, UpsertVolume(w) PROVE Fine
<1>1. TypeOK /\ pc[w] = "attempt" /\ UNCHANGED <<tracking, roots, event, pool, counters>>
  BY DEF IInv, UpsertVolume
<1>2. PICK state \in {"RETEST_IN_PROGRESS", "SHADOW_ACTIONABLE", "EXPIRED"} :
        /\ Upsert(att[w], state, num[w])
        /\ IF state = "SHADOW_ACTIONABLE" /\ Persists(att[w])
           THEN Goes(w, "mark", att[w], "none", num[w])
           ELSE Ends(w)
  BY DEF UpsertVolume
<1>3. /\ att[w] \in Ids /\ num[w] = evals /\ evals \in Nat /\ Below(history, evals)
      /\ errors = 0 => roots[att[w][1]] >= att[w][3]
  BY <1>1, AttemptsAssumption DEF IInv, Rooted, Holds, Numbered, Unused, TypeOK
<1>4. Grows /\ Sound /\ PoolRooted' /\ pool' \in 0 .. MaxRoots
  BY <1>1, SameGrows, ErrsSound, PoolKept DEF counters
<1>5. /\ Hands /\ Moves(w)
      /\ pc'[w] = "idle" \/ (pc'[w] = "mark" /\ att'[w] = att[w])
      /\ state = "SHADOW_ACTIONABLE" /\ Persists(att[w]) => pc'[w] = "mark" /\ att'[w] = att[w]
  <2>1. CASE state = "SHADOW_ACTIONABLE" /\ Persists(att[w])
    BY <1>1, <1>2, <1>3, <2>1, GoesDoes DEF Places
  <2>2. CASE ~ (state = "SHADOW_ACTIONABLE" /\ Persists(att[w]))
    BY <1>1, <1>2, <2>2, EndsDoes
  <2>3. QED
    BY <2>1, <2>2
<1>6. Holds(w)'
  BY <1>3, <1>5 DEF Holds
<1>7. state \in Observed \cup {"SHADOW_ACTIONABLE", "EXPIRED"}
  BY DEF Observed
<1>8. /\ Touches(evals) /\ Capped' /\ due' \in SUBSET Ids
      /\ \A x \in Ids : Born(x) /\ errors' = 0 => roots[x[1]] >= x[3]
      /\ \A x \in Ids : Kept(x) \/ Born(x) \/ Shut(x) \/ Observes(w, x)
  BY <1>2, <1>3, <1>4, <1>5, <1>7, UpsertWrites DEF Sound
<1>9. Below(history', evals' + 1) /\ evals' \in 0 .. MaxEvals
  BY <1>1, <1>3, <1>8, TouchesTold DEF IInv, TypeOK, counters
<1>10. /\ pc[w] # "mark" /\ pc[w] \in Critical /\ pc'[w] # "attempt"
       /\ UNCHANGED <<tracking, roots, event, stops>> /\ Hands /\ Moves(w)
  BY <1>1, <1>5 DEF counters, Critical
<1>11. PICK n \in Nat : Touches(n) /\ Below(history, n)
  BY <1>3, <1>8
<1>12. /\ Sound /\ PoolRooted' /\ pool' \in 0 .. MaxRoots /\ Capped' /\ due' \in SUBSET Ids
       /\ Turn(w) \/ pc[w] \in Critical
  BY <1>4, <1>8, <1>10
<1>13. QED
  BY <1>6, <1>8, <1>9, <1>10, <1>11, <1>12, WriteFine

LEMMA EvaluateLowFine == ASSUME IInv, NEW w \in Workers, EvaluateLow(w) PROVE Fine
<1>1. /\ TypeOK /\ pc[w] = "waiting" /\ Turn(w) /\ evals' = evals + 1 /\ evals < MaxEvals
      /\ UNCHANGED <<tracking, roots, event, pool, stops>>
  BY DEF IInv, EvaluateLow
<1>2. tracking = TRUE
  BY <1>1, AttemptsAssumption DEF EvaluateLow, TypeOK
<1>3. PICK rev \in 1 .. MaxRevs, state \in Observed, v \in {"none", "actionable"} :
        /\ rev = 1 \/ rev <= roots[root[w]]
        /\ \E id \in {<<root[w], "low", rev>>} :
            \/ /\ Upsert(id, state, evals + 1)
               /\ Goes(w, "decide", IF Persists(id) THEN id ELSE NoAttempt, v, evals + 1)
               /\ UNCHANGED errors
            \/ /\ Errs /\ UNCHANGED <<attempts, history, due>>
               /\ Goes(w, "decide", NoAttempt, v, evals + 1)
  BY DEF EvaluateLow
<1> DEFINE id == <<root[w], "low", rev>>
<1>4. /\ root[w] \in Roots /\ (errors = 0 => roots[root[w]] >= 1)
      /\ evals \in Nat /\ evals + 1 \in Nat /\ evals' \in 0 .. MaxEvals
      /\ Below(history, evals + 1)
  BY <1>1, <1>2, AttemptsAssumption DEF IInv, Rooted, Holds, Numbered, Unused, TypeOK
<1>5. id \in Ids /\ id[1] = root[w] /\ id[3] = rev /\ roots[root[w]] \in Nat /\ rev \in Nat
  BY <1>1, <1>4, AttemptsAssumption DEF Ids, Kinds, TypeOK
<1>6. /\ \/ Upsert(id, state, evals + 1) /\ errors' = errors
         \/ Errs /\ UNCHANGED <<attempts, history, due>>
      /\ \E x \in Ids \cup {NoAttempt} : Goes(w, "decide", x, v, evals + 1)
  BY <1>3, <1>5
<1> HIDE DEF id
<1>7. Hands /\ Moves(w) /\ pc'[w] = "decide"
  BY <1>1, <1>4, <1>6, GoesDoes DEF Places
<1>8. Grows /\ Sound
  BY <1>1, <1>6, SameGrows, ErrsSound
<1>9. Holds(w)' /\ PoolRooted' /\ pool' \in 0 .. MaxRoots
  BY <1>1, <1>7, <1>8, PoolKept DEF Holds
<1>10. /\ Touches(evals + 1) /\ Capped' /\ due' \in SUBSET Ids
       /\ \A x \in Ids : Born(x) /\ errors' = 0 => roots[x[1]] >= x[3]
       /\ \A x \in Ids : Kept(x) \/ Born(x) \/ Shut(x) \/ Observes(w, x)
  <2>1. CASE Upsert(id, state, evals + 1) /\ errors' = errors
    <3>1. errors' = 0 => roots[id[1]] >= id[3]
      BY <1>3, <1>4, <1>5, <2>1
    <3>2. state \in Observed \cup {"SHADOW_ACTIONABLE", "EXPIRED"} /\ state # "SHADOW_ACTIONABLE"
      BY DEF Observed
    <3>3. QED
      BY <1>4, <1>5, <1>8, <2>1, <3>1, <3>2, UpsertWrites
  <2>2. CASE UNCHANGED <<attempts, history, due>>
    <3>1. \A x \in Ids : Kept(x) /\ ~ Born(x)
      BY <2>2 DEF Kept, Born
    <3>2. Typed /\ Capped' /\ due' \in SUBSET Ids
      BY <1>1, <2>2, <1>8, Quiet DEF Typed, TypeOK
    <3>3. QED
      BY <3>1, <3>2 DEF Touches
  <2>3. QED
    BY <1>6, <2>1, <2>2
<1>11. Below(history', evals' + 1)
  BY <1>1, <1>4, <1>10, TouchesTold DEF IInv
<1>12. QED
  BY <1>1, <1>4, <1>7, <1>8, <1>9, <1>10, <1>11, WriteFine

LEMMA RestartFine == ASSUME IInv, Restart PROVE Fine
<1>1. /\ TypeOK /\ stops' = stops + 1 /\ stops < MaxStops /\ Reconcile
      /\ UNCHANGED <<roots, event, evals>> /\ tracking' \in Trackings /\ pool' = 0
  BY DEF IInv, Restart
<1>2. /\ Typed /\ due' = due /\ Sound /\ \A x \in Ids : Kept(x) \/ Shut(x)
  <2>1. CASE CloseAll({id \in due : Open(id)}, "EXPIRED", "startup") /\ UNCHANGED errors
    <3>1. /\ {id \in due : Open(id)} \in SUBSET Ids
          /\ \A id \in {x \in due : Open(x)} : Open(id)
          /\ "EXPIRED" \in Terminal /\ "startup" \in {"replaced", "startup"}
      BY <1>1 DEF TypeOK, Terminal
    <3>2. Typed /\ due' = due /\ \A x \in Ids : Kept(x) \/ Shut(x)
      BY <1>1, <2>1, <3>1, CloseAllDoes
    <3>3. QED
      BY <1>1, <2>1, <3>2, ErrsSound
  <2>2. CASE Errs /\ UNCHANGED <<attempts, history, due>>
    BY <1>1, <2>2, ErrsSound DEF Typed, Kept, TypeOK
  <2>3. QED
    BY <1>1, <2>1, <2>2 DEF Reconcile
<1>3. /\ stops' \in Nat /\ stops' # 0 /\ stops' \in 0 .. MaxStops
      /\ evals \in Nat /\ evals + 1 \in Nat /\ evals + 1 # 0 /\ Below(history, evals + 1)
  BY <1>1, AttemptsAssumption DEF IInv, TypeOK, Numbered, Unused
<1>4. /\ Hands
      /\ \A w \in Workers : pc'[w] = "idle"
  BY AttemptsAssumption DEF Restart, Hands, Places
<1>5. TypeOK'
  <2>1. 0 \in 0 .. MaxRoots
    BY AttemptsAssumption
  <2>2. QED
    BY <1>1, <1>2, <1>3, <1>4, <2>1 DEF TypeOK, Hands, Typed, Sound
<1>6. Capped'
  <2>1. \A id \in Ids : attempts'[id].life = "absent" <=> attempts[id].life = "absent"
    BY <1>2 DEF Kept, Shut, Open
  <2>2. QED
    BY <2>1, CapKept DEF IInv
<1>7. /\ AllTold' /\ Below(history', evals + 1)
      /\ \A id \in Ids : attempts[id].life = "closed" => attempts'[id] = attempts[id]
  <2>1. Touches(evals + 1)
    BY <1>2 DEF Touches
  <2>2. QED
    BY <1>1, <1>2, <1>3, <2>1, TouchesTold DEF IInv
<1>8. Numbered' /\ Alone'
  BY <1>1, <1>4, <1>7 DEF Numbered, Unused, Alone, Critical
<1>9. Rooted'
  <2>1. AttemptHasRoot'
    BY <1>1, <1>2 DEF IInv, Rooted, AttemptHasRoot, Exists, Kept, Shut, Open, Sound
  <2>2. (\A w \in Workers : Holds(w)') /\ PoolRooted'
    BY <1>1, <1>4 DEF Holds, PoolRooted
  <2>3. QED
    BY <2>1, <2>2 DEF Rooted
<1>10. OnItsWay' /\ Safe
  BY <1>3, <1>7 DEF OnItsWay, Safe
<1>11. QED
  BY <1>5, <1>6, <1>7, <1>8, <1>9, <1>10 DEF Fine, IInv

-----------------------------------------------------------------------------
(* The theorems.                                                           *)

LEMMA InitIInv == Init => IInv
<1> SUFFICES ASSUME Init PROVE IInv
  OBVIOUS
<1>1. \A id \in Ids : attempts[id] = Absent /\ history[id] = <<>>
  BY DEF Init
<1>2. TypeOK
  <2>1. Absent \in Attempt
    BY DEF Absent, Attempt
  <2>2. <<>> \in Seq(Entry) /\ 0 \in 0 .. MaxRoots /\ 0 \in 0 .. MaxRevs /\ 0 \in 0 .. MaxEvals
        /\ 0 \in 0 .. MaxStops /\ 0 \in 0 .. MaxErrors /\ "idle" \in Places
    BY AttemptsAssumption DEF Places
  <2>3. QED
    BY <2>1, <2>2 DEF Init, TypeOK
<1>3. Capped
  <2>1. \A r \in Roots : Existing(r) = {}
    BY <1>1 DEF Existing, OfRoot, Exists, Absent
  <2>2. QED
    BY <2>1, FS_EmptySet, AttemptsAssumption DEF Capped
<1>4. AllTold
  BY <1>1 DEF AllTold, Told, Exists, Absent
<1>5. Numbered
  BY <1>1 DEF Numbered, Unused, Below, Init
<1>6. Alone
  BY DEF Alone, Critical, Init
<1>7. Rooted
  BY <1>1 DEF Rooted, AttemptHasRoot, Holds, PoolRooted, Exists, Absent, Init
<1>8. OnItsWay
  BY <1>1 DEF OnItsWay, Open, Absent
<1>9. QED
  BY <1>2, <1>3, <1>4, <1>5, <1>6, <1>7, <1>8 DEF IInv

LEMMA NextFine == ASSUME IInv, Next PROVE Fine
<1>1. CASE \E w \in Workers :
             \/ Skip(w) \/ EvaluateVolume(w) \/ UpsertVolume(w) \/ MarkActionable(w)
             \/ WriteFails(w) \/ EvaluateLow(w) \/ EvaluateOther(w) \/ Decide(w) \/ Fails(w)
  BY <1>1, SkipFine, EvaluateVolumeFine, UpsertVolumeFine, MarkActionableFine, WriteFailsFine,
     EvaluateLowFine, EvaluateOtherFine, DecideFine, FailsFine
<1>2. QED
  BY <1>1, TrackFine, ReplaceFine, SelectFine, CandidateLeavesFine, RestartFine, BecomeDueFine
  DEF Next

LEMMA StutterFine == ASSUME IInv, UNCHANGED vars PROVE Fine
<1>1. due' \in SUBSET Ids
  BY DEF IInv, TypeOK, vars
<1>2. QED
  BY <1>1, StillFine DEF vars, hands, counters

LEMMA SpecIInv == Spec => []IInv
<1>1. IInv /\ [Next]_vars => IInv'
  BY NextFine, StutterFine DEF Fine
<1>2. QED
  BY <1>1, InitIInv, PTL DEF Spec

\* The tables of roots, attempts and histories, and what both coroutines hold of
\* them, keep their types.
THEOREM AttemptsTypeCorrect == Spec => []TypeOK
<1>1. IInv => TypeOK
  BY DEF IInv
<1>2. QED
  BY <1>1, SpecIInv, PTL

\* upsert_shadow_entry_attempt holds every root to its cap, whoever writes.
THEOREM RootsAreCapped == Spec => []CapPerRoot
<1>1. IInv => CapPerRoot
  BY DEF IInv, Capped, CapPerRoot, Existing
<1>2. QED
  BY <1>1, SpecIInv, PTL

\* The events of an attempt tell its state, and its closing is told once, last.
THEOREM HistoryTells == Spec => []HistoryTellsState
<1>1. IInv => HistoryTellsState
  <2> SUFFICES ASSUME IInv, NEW id \in Ids
               PROVE  /\ Exists(id) => /\ history[id] # <<>>
                                       /\ history[id][Len(history[id])].to = attempts[id].state
                      /\ \A i \in DOMAIN history[id] : history[id][i].type = "closed" =>
                            i = Len(history[id]) /\ attempts[id].life = "closed"
    BY DEF HistoryTellsState
  <2>1. DOMAIN history[id] = 1 .. Len(history[id])
    BY DEF IInv, TypeOK
  <2>2. QED
    BY <2>1 DEF IInv, AllTold, Told
<1>2. QED
  BY <1>1, SpecIInv, PTL

\* As long as no write has failed an attempt's root is there, at its revision.
THEOREM RootsAreThere == Spec => []AttemptHasRoot
<1>1. IInv => AttemptHasRoot
  BY DEF IInv, Rooted
<1>2. QED
  BY <1>1, SpecIInv, PTL

\* No transaction writes an attempt that has closed.
THEOREM ClosedStays == Spec => ClosedIsFinal
<1>1. IInv /\ [Next]_vars =>
        [\A id \in Ids : attempts[id].life = "closed" => attempts'[id] = attempts[id]]_vars
  BY NextFine DEF Fine, Safe
<1>2. QED
  BY <1>1, SpecIInv, PTL DEF Spec, ClosedIsFinal

\* Without a failure or a stop a terminal state is for good.
THEOREM TerminalIsFinal == Spec => TerminalStays
<1>1. IInv /\ [Next]_vars =>
        [errors = 0 /\ stops' = 0 =>
            \A id \in Ids : attempts[id].state \in Terminal =>
                attempts'[id].state = attempts[id].state]_vars
  BY NextFine DEF Fine, Safe
<1>2. QED
  BY <1>1, SpecIInv, PTL DEF Spec, TerminalStays
=============================================================================
