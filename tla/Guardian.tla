------------------------------- MODULE Guardian -------------------------------
(***************************************************************************)
(* bundled/resource_guardian: the errors and throttle events of the last   *)
(* window are counted for every (kind, agent), and a warning goes out when *)
(* they reach the threshold of their kind.  Nothing it does suspends       *)
(* before the warning is published: a handler is a step.                   *)
(***************************************************************************)
EXTENDS Integers, Sequences, SequencesExt

CONSTANTS Named,       \* agents that events name
          Unknown,     \* the agent of a throttle event that names none
          Window,      \* GUARDIAN_WINDOW_SEC
          Threshold,   \* of each kind
          UpTimes,     \* what time.monotonic() may say when the daemon starts
          LastTime,    \* bound on it
          MaxEvents    \* bound on the events between resets

Kinds == {"error", "throttled"}

ASSUME GuardianAssumption == /\ Threshold \in [Kinds -> Nat \ {0}]
                             /\ Window \in Nat /\ UpTimes \subseteq Nat

Pairs == Kinds \X (Named \cup {Unknown})

VARIABLES uptime,    \* time.monotonic()
          events,    \* ResourceGuardian._events: times, oldest first
          lastWarn,  \* ResourceGuardian._last_warn
          heard,     \* history: the times of the events since the last reset
          warned     \* history: the times of the warnings since the last reset

guardianVars == <<uptime, events, lastWarn, heard, warned>>

Never == [p \in Pairs |-> <<>>]

GuardianInit == /\ uptime \in UpTimes
                /\ events = Never
                /\ lastWarn = [p \in Pairs |-> 0]
                /\ heard = Never
                /\ warned = Never

\* Fault: an event exactly a window old is forgotten.
PrunedEarly(times) ==
    LET n == CHOOSE n \in 0..Len(times) :
                /\ \A i \in 1..n : times[i] <= uptime - Window
                /\ n < Len(times) => times[n + 1] > uptime - Window
    IN  SubSeq(times, n + 1, Len(times))

\* _prune: pops from the left as long as what it finds there is too old.
Pruned(times) ==
    LET n == CHOOSE n \in 0..Len(times) :
                /\ \A i \in 1..n : times[i] < uptime - Window
                /\ n < Len(times) => times[n + 1] >= uptime - Window
    IN  SubSeq(times, n + 1, Len(times))

\* The bound on the events between resets.
MoreEvents == FoldFunction(+, 0, [q \in Pairs |-> Len(heard[q])]) < MaxEvents

\* _record: a pair that was never warned of counts as warned of at time 0.
Record(p) ==
    LET recent == Pruned(Append(events[p], uptime))
        warns  == Len(recent) >= Threshold[p[1]] /\ uptime - lastWarn[p] > Window
    IN /\ MoreEvents
       /\ events' = [events EXCEPT ![p] = recent]
       /\ heard' = [heard EXCEPT ![p] = Append(@, uptime)]
       /\ IF warns
          THEN /\ lastWarn' = [lastWarn EXCEPT ![p] = uptime]
               /\ warned' = [warned EXCEPT ![p] = Append(@, uptime)]
          ELSE UNCHANGED <<lastWarn, warned>>
       /\ UNCHANGED uptime

\* `<agent>.error`; a topic without an agent is passed over.
OnError(a) == a # Unknown /\ Record(<<"error", a>>)

OnThrottle(a) == Record(<<"throttled", a>>)

\* report prunes what it counts.
Report == /\ events' = [p \in Pairs |-> Pruned(events[p])]
          /\ UNCHANGED <<uptime, lastWarn, heard, warned>>

Reset == /\ events' = Never
         /\ lastWarn' = [p \in Pairs |-> 0]
         /\ heard' = Never
         /\ warned' = Never
         /\ UNCHANGED uptime

UpLonger == /\ uptime < LastTime
            /\ uptime' = uptime + 1
            /\ UNCHANGED <<events, lastWarn, heard, warned>>

GuardianNext == \/ \E a \in Named \cup {Unknown} : OnError(a) \/ OnThrottle(a)
                \/ Report \/ Reset \/ UpLonger

GuardianSpec == GuardianInit /\ [][GuardianNext]_guardianVars

-----------------------------------------------------------------------------
\* Every burst is warned of, once in a window: when the threshold is reached within
\* the window that ends with an event there has been a warning in that window, two
\* warnings are more than a window apart, and pruning by reports in between loses
\* nothing.  A machine that is not yet up for a window is excepted: there a warning
\* that was never given passes for a recent one.
BurstWarnedOnce ==
    \A p \in Pairs :
       /\ heard[p] # <<>> /\ Last(heard[p]) > Window =>
             LET since == Last(heard[p]) - Window IN
             Cardinality({i \in DOMAIN heard[p] : heard[p][i] >= since}) >= Threshold[p[1]]
                => \E w \in Range(warned[p]) : w >= since
       /\ \A i \in 1..Len(warned[p]) - 1 : warned[p][i + 1] - warned[p][i] > Window
=============================================================================
