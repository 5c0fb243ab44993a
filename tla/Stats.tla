-------------------------------- MODULE Stats -------------------------------
(***************************************************************************)
(* stats/stats.h: a set of counters that threads add to while another one  *)
(* resets them.  Every add and every store is atomic, an event (a packet   *)
(* processed, dropped, sent) is several adds and reset() one store for     *)
(* each counter.  They are relaxed, so those of one call take effect in    *)
(* any order.                                                              *)
(***************************************************************************)
EXTENDS Integers, FiniteSets

CONSTANTS Writers,    \* threads that count
          Kinds,      \* the counters each kind of event adds to
          Wrap,       \* 2^64
          MaxEvents,  \* bound: events in a behaviour
          MaxResets   \* bound: calls of reset()

Counters == UNION Kinds

ASSUME StatsAssumption == /\ IsFiniteSet(Writers) /\ {} \notin Kinds
                          /\ Wrap \in Nat \ {0}
                          /\ MaxEvents \in Nat /\ MaxResets \in Nat

VARIABLES value,        \* the counters
          event,        \* the event each thread is counting, {} for none
          left,         \* the counters it has yet to add to
          resetting,    \* the counters reset() has yet to store, {} when it is not running
          events,       \* events so far
          resets,       \* calls of reset() so far
          after,        \* events begun since the last reset() returned, per counter
          overlapping   \* events that ran beside it, per counter

statsVars == <<value, event, left, resetting, events, resets, after, overlapping>>

None == [c \in Counters |-> 0]

StatsInit == /\ value = None
             /\ event = [t \in Writers |-> {}] /\ left = event
             /\ resetting = {}
             /\ events = 0 /\ resets = 0
             /\ after = None /\ overlapping = None

-----------------------------------------------------------------------------

\* A thread starts to count an event.
Count(t, k) == /\ left[t] = {} /\ events < MaxEvents
               /\ events' = events + 1
               /\ event' = [event EXCEPT ![t] = k]
               /\ left' = [left EXCEPT ![t] = k]
               /\ LET more(f) == [c \in Counters |-> IF c \in k THEN f[c] + 1 ELSE f[c]]
                  IN  IF resetting = {} THEN after' = more(after) /\ UNCHANGED overlapping
                      ELSE overlapping' = more(overlapping) /\ UNCHANGED after
               /\ UNCHANGED <<value, resetting, resets>>

\* __atomic_fetch_add on one of its counters; after the last the event is over.
FetchAdd(t, c) == /\ c \in left[t]
                  /\ value' = [value EXCEPT ![c] = (@ + 1) % Wrap]
                  /\ left' = [left EXCEPT ![t] = @ \ {c}]
                  /\ event' = [event EXCEPT ![t] = IF left[t] = {c} THEN {} ELSE @]
                  /\ UNCHANGED <<resetting, events, resets, after, overlapping>>

\* Mutant: a counter is forgotten.
StoredAllButOne == Counters \ {CHOOSE c \in Counters : TRUE}

\* The counters reset() stores.
Stored == Counters

\* reset() begins.
Reset == /\ resetting = {} /\ resets < MaxResets
         /\ resetting' = Stored
         /\ resets' = resets + 1
         /\ after' = None
         /\ overlapping' = [c \in Counters |-> Cardinality({t \in Writers : c \in event[t]})]
         /\ UNCHANGED <<value, event, left, events>>

\* __atomic_store_n of one counter; with the last one reset() returns.
Store(c) == /\ c \in resetting
            /\ value' = [value EXCEPT ![c] = 0]
            /\ resetting' = resetting \ {c}
            /\ UNCHANGED <<event, left, events, resets, after, overlapping>>

StatsNext == \/ \E t \in Writers : (\E k \in Kinds : Count(t, k)) \/ (\E c \in Counters : FetchAdd(t, c))
             \/ Reset
             \/ \E c \in Counters : Store(c)

StatsSpec == StatsInit /\ [][StatsNext]_statsVars

-----------------------------------------------------------------------------
(* Properties. *)

Quiet == resetting = {} /\ \A t \in Writers : left[t] = {}

\* When nobody counts or resets, a counter holds every event that began after
\* the last reset() returned, none that ended before it was called, and some
\* of those that ran beside it.  So with no such events the counters of one
\* kind of event agree, and otherwise they differ by these at most: reset() is
\* not atomic, and adds and stores never undo each other.
CountsSinceReset ==
    Quiet => \A c \in Counters : \E n \in 0 .. overlapping[c] : value[c] = (after[c] + n) % Wrap

=============================================================================
