--------------------------- MODULE StatisticDays ---------------------------
(***************************************************************************)
(* Statistic() (statistic/max_bhr.cc), called once per day: load the map   *)
(* of every key seen until yesterday, read today's trace, report the bytes *)
(* requested and the bytes of distinct keys, for today and in total, and   *)
(* dump the map for tomorrow.  Nobody sees the map between two lines of a  *)
(* load or a dump, so each is one action here; a death inside a dump is an *)
(* action of its own.  Sums are doubles in the code: exact below 2^53.     *)
(***************************************************************************)
EXTENDS Integers, SequencesExt

CONSTANTS
    Key, Size,      \* what a trace line can carry
    Day,            \* consecutive days, as numbers
    NoFile,         \* the file does not exist
    BASE,           \* ten: a double is printed in decimal ...
    PRECISION,      \* ... with six significant digits, the stream's default
    MaxRequests,    \* bound: trace lines per day
    MaxCalls        \* bound: calls of Statistic()

\* What a module that instantiates this one assumes.
StatisticAssumption ==
    /\ Size \subseteq Nat /\ Day \subseteq Nat \ {0}
    /\ BASE \in Nat /\ BASE > 1 /\ PRECISION \in Nat \ {0}
    /\ MaxRequests \in Nat /\ MaxCalls \in Nat

VARIABLES
    phase,          \* "off", "load", "looping", "read", "dump": where Statistic() is
    day,            \* dt, or 0
    input,          \* the previous day's file, or NoFile
    tot_stat_map,   \* every key seen, with the size it was first seen with
    stat_map,       \* the keys of today
    last_tot_req,   \* last_tot_req_bytes
    request_bytes,
    metrics,        \* *metrics
    stat_file,      \* stat_map.gz of each day
    calls,          \* the calls made, counted for MaxCalls
    past,           \* history: the trace lines each day's file should stand for
    dumps,          \* history: the files each day's file was handed down through
    base, today     \* history: the lines behind `input`, the lines read today

memory  == <<tot_stat_map, stat_map, last_tot_req, request_bytes, base, today>>
disk    == <<stat_file, past, dumps>>
vars    == <<phase, day, input, metrics, calls, memory, disk>>

Nothing == [k \in {} |-> 0]
NoMetrics == [uniq |-> 0, req |-> 0, tot_uniq |-> 0, tot_req |-> 0]
Bytes(map) == FoldFunction(LAMBDA a, b : a + b, 0, map)

-----------------------------------------------------------------------------
\* `writer << double`: the nearest number of PRECISION digits, ties to even.
Power[n \in Nat] == IF n = 0 THEN 1 ELSE BASE * Power[n - 1]
Unit(x) ==
    Power[CHOOSE e \in 0 .. x : /\ x < Power[e + PRECISION]
                                /\ \A f \in 0 .. e - 1 : x >= Power[f + PRECISION]]
Printed(x) ==
    LET u == Unit(x)
        q == x \div u
        r == x % u
    IN  IF 2 * r < u \/ (2 * r = u /\ q % 2 = 0) THEN q * u ELSE (q + 1) * u

\* A map with a trace line's key counted in.
FirstSeen(map, k, s) == [j \in DOMAIN map \union {k} |-> IF j \in DOMAIN map THEN map[j] ELSE s]

TodaysTotal == request_bytes                    \* fault: yesterday's total is forgotten
TotalRequests == last_tot_req + request_bytes

Init ==
    /\ phase = "off" /\ day = 0 /\ calls = 0
    /\ input = NoFile
    /\ tot_stat_map = Nothing /\ stat_map = Nothing
    /\ last_tot_req = 0 /\ request_bytes = 0
    /\ metrics = NoMetrics
    /\ stat_file = [d \in Day |-> NoFile]
    /\ past = [d \in Day |-> << >>] /\ dumps = [d \in Day |-> 0]
    /\ base = << >> /\ today = << >>

-----------------------------------------------------------------------------
StartDay(d) ==
    /\ phase = "off"
    /\ calls < MaxCalls
    /\ calls' = calls + 1
    /\ phase' = "load"
    /\ day' = d
    /\ input' = IF d - 1 \in Day THEN stat_file[d - 1] ELSE NoFile
    /\ UNCHANGED <<metrics, memory, disk>>

\* There is no file, or it cannot be opened, which is passed over in silence.
LoadNothing ==
    /\ phase = "load"
    /\ input' = NoFile
    /\ phase' = "read"
    /\ UNCHANGED <<day, metrics, calls, memory, disk>>

\* The loop of LoadPreStatMap ends at eof() and only there.
OverAtFailure(file) == TRUE                     \* fault: fail() ends the loop too
LoopOver(file) == ~file.torn

LoadFile ==
    /\ phase = "load" /\ input # NoFile
    /\ LoopOver(input)
    /\ tot_stat_map' = input.map
    /\ last_tot_req' = input.req
    /\ base' = past[day - 1]
    /\ phase' = "read"
    /\ UNCHANGED <<day, input, stat_map, request_bytes, today, metrics, calls, disk>>

\* A gzip stream that was cut short fails without coming to its eof(): `key` is
\* never assigned, and what it happens to be enters the map with size 0, again
\* and again.
LoadLoops ==
    /\ phase \in {"load", "looping"} /\ input # NoFile
    /\ input.torn
    /\ phase' = "looping"
    /\ \E k \in Key :
         tot_stat_map' = [j \in DOMAIN tot_stat_map \union DOMAIN input.map \union {k} |->
                            IF j = k \/ j \notin DOMAIN input.map THEN 0 ELSE input.map[j]]
    /\ UNCHANGED <<day, input, stat_map, last_tot_req, request_bytes, base, today,
                   metrics, calls, disk>>

\* A trace line.
ReadLine(k, s) ==
    /\ phase = "read"
    /\ Len(today) < MaxRequests
    /\ request_bytes' = request_bytes + s
    /\ tot_stat_map' = FirstSeen(tot_stat_map, k, s)
    /\ stat_map' = FirstSeen(stat_map, k, s)
    /\ today' = Append(today, [key |-> k, size |-> s])
    /\ UNCHANGED <<phase, day, input, last_tot_req, base, metrics, calls, disk>>

Report ==
    /\ phase = "read"
    /\ metrics' = [uniq |-> Bytes(stat_map), req |-> request_bytes,
                   tot_uniq |-> Bytes(tot_stat_map), tot_req |-> TotalRequests]
    /\ phase' = "dump"
    /\ UNCHANGED <<day, input, calls, memory, disk>>

-----------------------------------------------------------------------------
\* Statistic() returns its metrics to the caller, or its process dies.
Over ==
    /\ phase' = "off" /\ day' = 0 /\ input' = NoFile
    /\ tot_stat_map' = Nothing /\ stat_map' = Nothing
    /\ last_tot_req' = 0 /\ request_bytes' = 0 /\ base' = << >> /\ today' = << >>
    /\ metrics' = NoMetrics /\ UNCHANGED calls

\* The file of the day is written anew.
HandedDown ==
    /\ past' = [past EXCEPT ![day] = base \o today]
    /\ dumps' = [dumps EXCEPT ![day] = IF input = NoFile THEN 1 ELSE dumps[day - 1] + 1]

\* Tomorrow's header and keys; the second number of the header is never used.
Dump ==
    /\ phase = "dump"
    /\ stat_file' = [stat_file EXCEPT ![day] =
                       [req |-> Printed(metrics.tot_req), map |-> tot_stat_map, torn |-> FALSE]]
    /\ HandedDown
    /\ Over

\* DumpCurStatMap returns without a word when the file cannot be opened.
OpenFails == phase = "dump" /\ Over /\ UNCHANGED disk

\* A death after the file was opened leaves it truncated, with some of the keys.
DiesDumping ==
    /\ phase = "dump"
    /\ \E written \in SUBSET DOMAIN tot_stat_map :
         stat_file' = [stat_file EXCEPT ![day] =
                         [req |-> Printed(metrics.tot_req), torn |-> TRUE,
                          map |-> [k \in written |-> tot_stat_map[k]]]]
    /\ HandedDown
    /\ Over

\* Killed, or PrintError: a trace that cannot be opened or parsed.
Dies == phase # "off" /\ Over /\ UNCHANGED disk

Next ==
    \/ \E d \in Day : StartDay(d)
    \/ \E k \in Key, s \in Size : ReadLine(k, s)
    \/ LoadNothing \/ LoadFile \/ LoadLoops \/ Report \/ Dump \/ OpenFails
    \/ DiesDumping \/ Dies

Spec == Init /\ [][Next]_vars

-----------------------------------------------------------------------------
(* Properties *)

\* Reference definitions over trace lines.
FirstOfItsKey(t) == { i \in DOMAIN t : \A j \in 1 .. i - 1 : t[j].key # t[i].key }
Asked(t, lines) == FoldFunctionOnSet(LAMBDA r, sum : r.size + sum, 0, t, lines)

\* The bytes of distinct keys are those of the first request of each key, in
\* today's trace and in all the traces behind the loaded file, whatever sizes
\* later requests carry, whichever days were run again, and although a dump that
\* was cut short leaves a file with keys missing for the next day to find.
UniqueBytesExact ==
    phase = "dump" =>
        /\ metrics.uniq = Asked(today, FirstOfItsKey(today))
        /\ metrics.tot_uniq = Asked(base \o today, FirstOfItsKey(base \o today))

\* The total of the requested bytes is not exact, for it is handed down in six
\* digits: it is off by at most half a unit of its last printed digit per file.
RequestTotalDrifts ==
    LET handed == IF input = NoFile THEN 0 ELSE dumps[day - 1]
        exact  == Asked(base \o today, DOMAIN (base \o today))
        drift  == IF metrics.tot_req > exact THEN metrics.tot_req - exact ELSE exact - metrics.tot_req
    IN  phase = "dump" => 2 * drift <= handed * Unit(metrics.tot_req)
=============================================================================
