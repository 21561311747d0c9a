------------------------------ MODULE TableScan ------------------------------
(***************************************************************************)
(* Reading a large table piece by piece while others insert and delete     *)
(* rows: by key (keyset_pagination, process_large_result_set) and by       *)
(* offset (chunked_fetch, execute_in_batches).  Each piece is a query of   *)
(* its own that sees what is committed then.                               *)
(***************************************************************************)
EXTENDS Integers, FiniteSets, FiniteSetsExt

CONSTANTS
    Keys,          \* primary keys, a set of naturals
    ChunkSize,     \* rows of a piece
    MaxEdits       \* bound on the rows inserted and deleted during a scan

ASSUME ScanAssumption ==
    /\ Keys \subseteq Nat \ {0} /\ IsFiniteSet(Keys)
    /\ ChunkSize \in Nat \ {0} /\ MaxEdits \in Nat

VARIABLES
    present,   \* keys of the rows in the table
    scan,      \* [by, pc, last, offset, seen, again, kept]
    edits      \* rows inserted and deleted so far
scanVars == <<present, scan, edits>>

\* `kept` are the rows that were there all the time, `again` the rows the
\* processor was given twice.
ScanInit ==
    /\ present \in SUBSET Keys
    /\ \E by \in {"key", "offset"} :
          scan = [by |-> by, pc |-> "reading", last |-> 0, offset |-> 0, seen |-> {},
                  again |-> {}, kept |-> present]
    /\ edits = 0

\* The n smallest of a set of keys.
Smallest(S, n) == {k \in S : Cardinality({j \in S : j < k}) < n}

\* Mutant: >= for >.
Beyond_Inclusive == {k \in present : k >= scan.last}

Beyond == {k \in present : k > scan.last}
Skipped == Smallest(present, scan.offset)
Chunk ==
    IF scan.by = "key" THEN Smallest(Beyond, ChunkSize)
    ELSE Smallest(present \ Skipped, ChunkSize)

\* One query and the processing of its rows; an empty piece ends the scan.
NextChunk ==
    /\ scan.pc = "reading"
    /\ scan' = IF Chunk = {} THEN [scan EXCEPT !.pc = "ended"]
               ELSE [scan EXCEPT !.last = IF scan.by = "key" THEN Max(Chunk) ELSE @,
                                 !.offset = IF scan.by = "key" THEN @ ELSE @ + ChunkSize,
                                 !.seen = @ \cup Chunk, !.again = @ \cup (Chunk \cap scan.seen)]
    /\ UNCHANGED <<present, edits>>

AddRow(k) ==
    /\ k \in Keys \ present /\ edits < MaxEdits
    /\ present' = present \cup {k} /\ edits' = edits + 1
    /\ UNCHANGED scan

RemoveRow(k) ==
    /\ k \in present /\ edits < MaxEdits
    /\ present' = present \ {k} /\ edits' = edits + 1
    /\ scan' = [scan EXCEPT !.kept = @ \ {k}]

ScanNext == NextChunk \/ \E k \in Keys : AddRow(k) \/ RemoveRow(k)
ScanSpec == ScanInit /\ [][ScanNext]_scanVars /\ WF_scanVars(NextChunk)

---------------------------------------------------------------------------
(* Properties.                                                             *)

\* The type invariant.
ScanTypeOK ==
    /\ present \subseteq Keys /\ edits \in 0 .. MaxEdits
    /\ scan.by \in {"key", "offset"} /\ scan.pc \in {"reading", "ended"}
    /\ scan.last \in Keys \cup {0} /\ scan.offset \in Nat
    /\ scan.seen \subseteq Keys /\ scan.again \subseteq scan.seen /\ scan.kept \subseteq present

\* A scan by key misses no row that was there from start to end and gives
\* none twice, whatever is inserted and deleted meanwhile.
KeyScanExact ==
    scan.by = "key" => scan.again = {} /\ (scan.pc = "ended" => scan.kept \subseteq scan.seen)

\* A scan by offset misses kept rows only when rows were deleted during it,
\* at most one for each, and repeats at most one for each row inserted.
OffsetScanErrs ==
    scan.by = "offset" =>
        /\ scan.pc = "ended" => Cardinality(scan.kept \ scan.seen) <= edits
        /\ Cardinality(scan.again) <= edits

\* A scan ends once the table is left alone.
ScanEnds == <>(scan.pc = "ended")

\* What a scan may miss or repeat while the table changes.
ScansComplete == ScanTypeOK /\ KeyScanExact /\ OffsetScanErrs
=============================================================================
