-------------------------------- MODULE OkxFetch --------------------------------
(* kline_fetch_window of market_data/okx_client.py with one attempt, as the      *)
(* momentum gate calls it, and what strategy/momentum_gate.py makes of the three *)
(* fetches of a round. The candles of the window are 1 .. Bars, oldest first; 0  *)
(* is one from before it. Prices, the order of the three answers and the         *)
(* round-trip times are left out.                                                *)
EXTENDS Integers, Sequences, FiniteSets, SequencesExt

CONSTANTS
    Symbols,        \* _OKX_SYMBOLS_FETCHED
    Bars            \* expected_count

ASSUME FetchAssumption == Symbols # {} /\ Bars \in Nat \ {0, 1}

Window == 1 .. Bars
Blank == -1         \* a row that is no list, or an empty one
Garbled == -2       \* a row whose first field is no number
Rows == 0 .. Bars \cup {Blank, Garbled}

\* A request ends without an answer, in a refusal that may pass or one that will not,
\* or with rows, newest first.
Responses ==
    [kind : {"network", "retryable", "permanent"}]
        \cup [kind : {"rows"}, rows : UNION {[1 .. n -> Rows] : n \in 0 .. Bars + 1}]

-------------------------------------------------------------------------------
(* One request *)

\* How many rows have a first field, and what these fields say.
Stamped(rows) == Cardinality({i \in DOMAIN rows : rows[i] # Blank})
Times(rows) == Range(rows) \ {Blank}

\* Mutant: as many candles as the tail of the window would leave.
MissingPositionByCount(rows) ==
    IF Times(rows) # {} /\ Stamped(rows) < Bars THEN "tail" ELSE "gap_or_head"
\* _missing_position: which end of the window a short answer lacks. In order, n times
\* are the first n of the window if and only if they are those as a set.
MissingPosition(rows) ==
    IF Contains(rows, Garbled) THEN "gap_or_head"
    ELSE IF Times(rows) = {} THEN "none"
    ELSE IF Stamped(rows) <= Bars /\ Times(rows) = 1 .. Stamped(rows)
    THEN "tail" ELSE "gap_or_head"

\* _classify_response and _classify_exception
Classified(resp) ==
    IF resp.kind = "network" THEN "retryable"
    ELSE IF resp.kind # "rows" THEN resp.kind
    ELSE IF Len(resp.rows) # Bars THEN "insufficient" ELSE "success"

\* Mutant: the first and the last candle are looked at, not those between.
WholeByBounds(rows) == rows[1] = Bars /\ rows[Len(rows)] = 1
\* The checks of a full answer: rows, bounds, steps of one second.
PassesChecks(rows) ==
    LET old == Reverse(rows)
    IN  /\ \A i \in DOMAIN old : old[i] \notin {Blank, Garbled}
        /\ old[1] = 1 /\ old[Len(old)] = Bars
        /\ \A i \in 2 .. Len(old) : old[i] = old[i - 1] + 1

\* What the future of one symbol holds: rows, an exception that ends the process, or a
\* TransientOkxError, of a window without its newest candles or of any other kind.
Fetched(resp) ==
    LET class == Classified(resp)
    IN  IF class = "success" THEN IF PassesChecks(resp.rows) THEN "ok" ELSE "fatal"
        ELSE IF class = "permanent" THEN "fatal"
        ELSE IF class = "insufficient" /\ MissingPosition(resp.rows) = "tail"
        THEN "late" ELSE "failed"

-------------------------------------------------------------------------------
(* The three of a round *)

\* Whether an answer is the window, and whether no candle is missing before one that is
\* there; both by what was asked for, not by how it is checked.
IsWindow(resp) == resp.kind = "rows" /\ resp.rows = [i \in 1 .. Bars |-> Bars + 1 - i]
HasNoHole(resp) ==
    /\ resp.kind = "rows"
    /\ \A t \in Times(resp.rows) : 1 .. t \subseteq Range(resp.rows) /\ t \in Window

\* The answers, by all that a round can tell of them.
Answers == {[got |-> Fetched(r), window |-> IsWindow(r), noHole |-> HasNoHole(r)] : r \in Responses}

\* Mutant: one late symbol makes the round a publish delay.
ClassByAnyDelay(got) ==
    IF "late" \in got THEN "publish_delay" ELSE IF "failed" \in got THEN "fetch_failure" ELSE "none"
\* evaluate: the class of a round, for the set of what its symbols got.
TransientClass(got) ==
    IF "failed" \in got THEN "fetch_failure" ELSE IF "late" \in got THEN "publish_delay" ELSE "none"

\* The rounds that end in a signal or a skip. Any fatal answer ends the process instead.
Evaluations ==
    {[class |-> TransientClass({a[s].got : s \in Symbols}),
      window |-> \A s \in Symbols : a[s].window,
      noHole |-> \A s \in Symbols : a[s].noHole] :
         a \in [Symbols -> {x \in Answers : x.got # "fatal"}]}
=================================================================================
