------------------------------ MODULE JsonlStore ------------------------------
(* The append-only JSON Lines files of the market-data subsystem:               *)
(* market_data/round_store.py, kline_store.py and epoch_scan.py.                *)
(*                                                                              *)
(* A line is the sequence of what was written on it: e for a complete record of *)
(* epoch e, -e for the first part of one. A file is `open` when its last line   *)
(* has no newline yet; what is written next then lands on that line.            *)
EXTENDS Integers, Sequences, FiniteSets

Magnitude(t) == IF t < 0 THEN -t ELSE t

\* An absent file and an empty one read alike.
NoFile == [lines |-> <<>>, open |-> FALSE]

Files(Epoch) == [lines : Seq(Seq(Epoch \union {-e : e \in Epoch})), open : BOOLEAN]

\* json.loads accepts the line: one record, all of it, and nothing after it.
Parses(line) == Len(line) = 1 /\ line[1] > 0

\* f.write of one record, or of the part that reached the disk.
Put(f, token, ended) ==
    [lines |-> IF f.open
               THEN [f.lines EXCEPT ![Len(f.lines)] = Append(@, token)]
               ELSE Append(f.lines, <<token>>),
     open |-> ~ended]

WriteRecord(f, e) == Put(f, e, TRUE)

\* What a kill leaves of the record being written: all, nothing, its first part
\* or, when bare is possible, everything but the newline.
CutRecord(f, e, bare) ==
    {f, WriteRecord(f, e), Put(f, -e, FALSE)}
        \union (IF bare THEN {Put(f, e, FALSE)} ELSE {})

\* write_new, rewrite: records in ascending order, one to a line.
Ascending(S) ==
    [i \in 1 .. Cardinality(S) |-> CHOOSE x \in S : Cardinality({y \in S : y < x}) = i - 1]

FromEpochs(S) ==
    [lines |-> [i \in 1 .. Cardinality(S) |-> <<Ascending(S)[i]>>], open |-> FALSE]

-------------------------------------------------------------------------------
(* The readers. Those that parse raise on a line that does not.                 *)

BadLines(f) == {i \in DOMAIN f.lines : ~Parses(f.lines[i])}
Readable(f) == BadLines(f) = {}

\* The epochs of the lines that parse: load_done_epochs of a readable file.
Records(f) == {f.lines[i][1] : i \in DOMAIN f.lines \ BadLines(f)}

\* load_earliest_epoch, load_latest_epoch: first and last in file order.
Earliest(f) == f.lines[1][1]
Latest(f) == f.lines[Len(f.lines)][1]

\* scan_epochs does not parse: it finds the key "epoch" anywhere on a line.
Scan(f) == UNION {{<<i, j>> : j \in DOMAIN f.lines[i]} : i \in DOMAIN f.lines}
ScanAt(f, p) == Magnitude(f.lines[p[1]][p[2]])
Scanned(f) == {ScanAt(f, p) : p \in Scan(f)}

\* duplicates and out_of_order of contiguity(): a later record is not larger.
Disordered(f) ==
    \E p, q \in Scan(f) :
        /\ p[1] < q[1] \/ (p[1] = q[1] /\ p[2] < q[2])
        /\ ScanAt(f, q) <= ScanAt(f, p)

\* Epochs absent inside the span of a set of epochs.
Holes(S) ==
    IF S = {} THEN {}
    ELSE LET lo == CHOOSE x \in S : \A y \in S : x <= y
             hi == CHOOSE x \in S : \A y \in S : x >= y
         IN (lo .. hi) \ S

-------------------------------------------------------------------------------
(* repair_torn_tail                                                             *)

\* It refuses when a line that does not parse is not the last one, or not alone.
Repairable(f) == BadLines(f) \subseteq {Len(f.lines)}

\* Mutant: the truncation starts one line too early.
RepairTwoLines(f) ==
    IF Readable(f) THEN f
    ELSE [lines |-> SubSeq(f.lines, 1, Len(f.lines) - 2), open |-> FALSE]

\* Mutant: nothing is repaired.
RepairNothing(f) == f

\* Truncate the last line if it does not parse; a last line that parses is left
\* alone, newline or not.
RepairTornTail(f) ==
    IF Readable(f) THEN f
    ELSE [lines |-> SubSeq(f.lines, 1, Len(f.lines) - 1), open |-> FALSE]
===============================================================================
