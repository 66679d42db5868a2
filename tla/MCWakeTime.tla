------------------------------ MODULE MCWakeTime ------------------------------
EXTENDS WakeTime

Zone(west, hours) == [west |-> west, hours |-> hours]
MCZones == {Zone(FALSE, 8), Zone(FALSE, 9), Zone(TRUE, 4)}

MCFirst == 2 * WEEK
MCLast == MCFirst + 12 * DAY

(* Some moments: in the morning, just before and after midnight; on days of  *)
(* the first week, and later than a week.                                    *)
Morning == 7 * HOUR
Late == 24 * HOUR - MINUTE
MCModes ==
    {[kind |-> "clock", points |-> p] : p \in {{}, {Late}, {0, Morning}}}
    \union {[kind |-> "track", interval |-> i * MINUTE] : i \in {5, 7}}
    \union {[kind |-> "week", days |-> d, point |-> p] :
               d \in {{}, {1}, {4, 7}}, p \in {0, Late}}
    \union {[kind |-> "loop", start |-> MCFirst + s, interval |-> i * MINUTE, stop |-> e] :
               s \in {2 * DAY + 1, 8 * DAY - 10}, i \in {0, 4, 50}, e \in {0, MCFirst + 6 * DAY}}
    \union {[kind |-> "points", points |-> p] :
               p \in {{MCFirst + DAY + 1, MCFirst + 3 * DAY}, {MCFirst + 8 * HOUR + 3, MCFirst + 9 * DAY - 5}}}
==============================================================================
