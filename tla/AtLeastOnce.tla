---------------------------- MODULE AtLeastOnce ----------------------------
(***************************************************************************)
(* What the Telegram outbox promises, without rows, leases or coroutines:  *)
(* a stored message is tried at most MaxTries times, is confirmed to the   *)
(* rest of the bot only if Telegram accepted it, and is not forgotten: it  *)
(* is tried until it is confirmed or its tries are used up.                *)
(***************************************************************************)
EXTENDS Naturals

CONSTANTS Ids,       \* outbox row ids
          MaxTries   \* claims a message may have

VARIABLES stored,    \* ids whose source row and payload are committed
          tries,     \* claims made for each id
          accepted,  \* ids of which Telegram has taken at least one copy
          confirmed  \* ids whose source row says telegram_sent = True

vars == <<stored, tries, accepted, confirmed>>

Init ==
    /\ stored = {}
    /\ tries = [i \in Ids |-> 0]
    /\ accepted = {}
    /\ confirmed = {}

Store(i) ==
    /\ i \notin stored
    /\ stored' = stored \cup {i}
    /\ UNCHANGED <<tries, accepted, confirmed>>

Try(S) ==
    /\ S \subseteq stored
    /\ \A i \in S : tries[i] < MaxTries
    /\ tries' = [i \in Ids |-> IF i \in S THEN tries[i] + 1 ELSE tries[i]]
    /\ UNCHANGED <<stored, accepted, confirmed>>

Accept(i) ==
    /\ i \in stored
    /\ tries[i] > 0
    /\ accepted' = accepted \cup {i}
    /\ UNCHANGED <<stored, tries, confirmed>>

Confirm(i) ==
    /\ i \in accepted
    /\ confirmed' = confirmed \cup {i}
    /\ UNCHANGED <<stored, tries, accepted>>

Next ==
    \/ \E S \in SUBSET Ids : Try(S)
    \/ \E i \in Ids : Store(i) \/ Accept(i) \/ Confirm(i)

SafeSpec == Init /\ [][Next]_vars

\* A message that is neither confirmed nor used up is tried again.
Pursue(i) == i \notin confirmed /\ \E S \in SUBSET Ids : i \in S /\ Try(S)

Spec == SafeSpec /\ \A i \in Ids : WF_vars(Pursue(i))
=============================================================================
