----------------------------- MODULE LedgerFile -----------------------------
(***************************************************************************)
(* A runtime ledger: a JSONL file that several processes append to without *)
(* a lock (scripts/pipeline_common.py) and that the data hygiene script    *)
(* rewrites from what it has read a moment before (scripts/data_hygiene.py,*)
(* started by hand or at the end of the nightly review).                   *)
(*                                                                         *)
(* A process that is killed while it appends leaves a line without its end:*)
(* what is appended next becomes part of that line.  Every reader of the   *)
(* ledger raises on such a line; the compaction alone leaves it out.       *)
(***************************************************************************)
EXTENDS Naturals

CONSTANTS
  Rows,       \* what may be appended
  Synthetic,  \* rows of tests, which compaction removes
  MaxSweeps   \* bound: compactions that rewrite the ledger

ASSUME LedgerAssumption ==
  /\ Synthetic \subseteq Rows
  /\ MaxSweeps \in Nat

VARIABLES
  ledger,    \* the rows on its lines that parse
  damage,    \* "torn": the last line has no end; "spoilt": some line does not parse
  archive,   \* rows that are in an archived original
  step,      \* the step of the compaction under way
  kept,      \* the rows it will write
  written,   \* rows whose append was complete
  racing,    \* rows appended between a compaction's reading and its writing ...
  late,      \* ... and those among them it had archived the original before
  spoilt,    \* rows that became part of a torn line
  sweeps

fileVars == <<ledger, damage, archive, step, kept, written, racing, late, spoilt, sweeps>>
sweepVars == <<archive, step, kept, sweeps>>

\* read_jsonl returns the rows, or raises.
Readable == damage = "none"

\* append_jsonl.
AppendRow(r) ==
  /\ IF damage = "torn"
     THEN damage' = "spoilt" /\ spoilt' = spoilt \cup {r} /\ UNCHANGED ledger
     ELSE ledger' = ledger \cup {r} /\ UNCHANGED <<damage, spoilt>>
  /\ written' = written \cup {r}
  /\ racing' = IF step = "idle" THEN racing ELSE racing \cup {r}
  /\ late' = IF step = "archived" THEN late \cup {r} ELSE late
  /\ UNCHANGED sweepVars

\* The process is killed in the middle of the line.
TearRow ==
  /\ damage' = "torn"
  /\ UNCHANGED <<ledger, written, spoilt, racing, late>>
  /\ UNCHANGED sweepVars

-----------------------------------------------------------------------------
(* compact_runtime_ledgers on this file.                                   *)

\* Rows of tests are left out, and lines that do not parse.
Compacted == ledger \ Synthetic

\* The file is rewritten only if that saves enough bytes.
SweepRead ==
  /\ step = "idle"
  /\ sweeps < MaxSweeps
  /\ Compacted # ledger \/ ~Readable
  /\ kept' = Compacted
  /\ step' = "read"
  /\ sweeps' = sweeps + 1
  /\ UNCHANGED <<ledger, damage, archive, written, racing, late, spoilt>>

\* archive_original copies the file as it is now.
SweepArchive ==
  /\ step = "read"
  /\ archive' = archive \cup ledger
  /\ step' = "archived"
  /\ UNCHANGED <<ledger, damage, kept, written, racing, late, spoilt, sweeps>>

\* write_jsonl replaces the file.
SweepReplace ==
  /\ step = "archived"
  /\ ledger' = kept
  /\ damage' = "none"
  /\ step' = "idle"
  /\ kept' = {}
  /\ UNCHANGED <<archive, written, racing, late, spoilt, sweeps>>

\* (slip: the file is replaced in place)
SlipSweepCrash ==
  /\ step # "idle"
  /\ step' = "idle"
  /\ kept' = {}
  /\ ledger' = IF step = "archived" THEN {} ELSE ledger
  /\ UNCHANGED <<damage, archive, written, racing, late, spoilt, sweeps>>

\* The file is replaced by rename: a compaction that is killed leaves it as it was.
SweepCrash ==
  /\ step # "idle"
  /\ step' = "idle"
  /\ kept' = {}
  /\ UNCHANGED <<ledger, damage, archive, written, racing, late, spoilt, sweeps>>

Sweep == SweepRead \/ SweepArchive \/ SweepReplace \/ SweepCrash

FileInit ==
  /\ ledger = {} /\ kept = {} /\ damage = "none"
  /\ archive = {} /\ written = {} /\ racing = {} /\ late = {} /\ spoilt = {}
  /\ step = "idle"
  /\ sweeps = 0

-----------------------------------------------------------------------------

FileTypeOK ==
  /\ damage \in {"none", "torn", "spoilt"}
  /\ \A rows \in {ledger, kept, archive, written, racing, late, spoilt} : rows \subseteq Rows
  /\ step \in {"idle", "read", "archived"}
  /\ sweeps \in 0..MaxSweeps

\* A row that was appended in full stays in the active ledger whatever is compacted
\* and wherever it is killed, unless it is a row of a test, was glued to a torn line,
\* or was appended while a compaction stood between reading and writing.
OnlyRacesLoseRows ==
  written \ ledger \subseteq Synthetic \cup spoilt \cup racing

\* What the active ledger has lost is in an archive, unless the row was appended
\* after the original had been copied, or glued to a torn line.
SweptIsArchived ==
  written \ ledger \subseteq archive \cup late \cup spoilt

\* Appending, tearing and compacting in any order lose rows to each other only where the
\* two exceptions say so.
RowsSurvive == OnlyRacesLoseRows /\ SweptIsArchived

\* Compaction keeps the original (SKILL.md: archive-first): no row is lost to both (no:
\* a row appended after the copy is).
NothingIsLost ==
  written \subseteq ledger \cup archive \cup spoilt

=============================================================================
