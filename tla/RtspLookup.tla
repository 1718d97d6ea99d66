---------------------------- MODULE RtspLookup ----------------------------
(***************************************************************************)
(* The binary search of rtsp/rtsp.c, which is written out twice: over the  *)
(* header names of a set (_get_header) and over the status codes           *)
(* (get_status).  A table is a sequence of integers; for names they are    *)
(* the places strcmp gives them.  Every comparison is a step.              *)
(***************************************************************************)
EXTENDS Integers, Sequences

CONSTANTS
    LookupTables,   \* the tables that may be searched
    LookupKeys      \* what may be looked for

ASSUME LookupAssumption ==
    /\ LookupTables \subseteq Seq(Int)
    /\ LookupKeys \subseteq Int

VARIABLES
    table, key,     \* the arguments of the call
    s, g,           \* the places from s up to g - 1 are still to be searched
    hit             \* the place that was found, 0 for none

lookupVars == <<table, key, s, g, hit>>

\* C counts places from 0, sequences from 1.
Middle == (s + g) \div 2
Entry == table[Middle + 1]

Start(t, k) ==
    /\ table' = t
    /\ key' = k
    /\ s' = 0
    /\ g' = Len(t)
    /\ hit' = 0

Searching == s < g /\ hit = 0
Done == ~Searching

\* Mutant: the place before the middle is left out.
GoLeftTooFar ==
    /\ Searching
    /\ key < Entry
    /\ g' = IF Middle > s THEN Middle - 1 ELSE s
    /\ UNCHANGED <<table, key, s, hit>>

GoLeft ==
    /\ Searching
    /\ key < Entry
    /\ g' = Middle
    /\ UNCHANGED <<table, key, s, hit>>

\* Mutant: the interval may stay as it is.
GoRightToMiddle ==
    /\ Searching
    /\ key > Entry
    /\ s' = Middle
    /\ UNCHANGED <<table, key, g, hit>>

GoRight ==
    /\ Searching
    /\ key > Entry
    /\ s' = Middle + 1
    /\ UNCHANGED <<table, key, g, hit>>

Hit ==
    /\ Searching
    /\ key = Entry
    /\ hit' = Middle + 1
    /\ UNCHANGED <<table, key, s, g>>

Look == GoLeft \/ GoRight \/ Hit

\* Before the first call there is nothing to search.
LookupInit ==
    /\ table = <<>>
    /\ key \in LookupKeys
    /\ s = 0 /\ g = 0 /\ hit = 0

\* The next call begins when the last has returned.
Call == Done /\ \E t \in LookupTables, k \in LookupKeys : Start(t, k)

LookupNext == Look \/ Call

LookupSpec == LookupInit /\ [][LookupNext]_lookupVars

LookupTypeOK ==
    /\ table \in LookupTables \cup {<<>>}
    /\ key \in LookupKeys
    /\ s \in 0 .. Len(table)
    /\ g \in 0 .. Len(table)
    /\ hit \in 0 .. Len(table)

Sorted(t) == \A i, j \in 1 .. Len(t) : i < j => t[i] < t[j]

\* What the search returns is what it was asked for, and in a table that is in
\* dictionary order (the comment of rtsp.h:70) it returns nothing only if there
\* is nothing (_get_header and get_status in rtsp.c).
FoundWhereSorted ==
    /\ hit # 0 => table[hit] = key
    /\ Done /\ hit = 0 /\ Sorted(table) => \A i \in 1 .. Len(table) : table[i] # key

===========================================================================
