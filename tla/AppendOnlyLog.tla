---------------------------- MODULE AppendOnlyLog ----------------------------
(***************************************************************************)
(* What libs/journal promises its readers: a log that only grows, one      *)
(* record at a time, and that is read as a whole or not at all.  Nothing   *)
(* repairs a log that cannot be read.                                      *)
(***************************************************************************)
EXTENDS Naturals, Sequences

VARIABLES
  entries,   \* the records of the log, oldest first
  readable   \* read_journal_records returns them, rather than raise

LogInit == entries = <<>> /\ readable = TRUE

Add == /\ Len(entries') = Len(entries) + 1
       /\ SubSeq(entries', 1, Len(entries)) = entries
       /\ readable' \in BOOLEAN
       /\ readable' => readable

LogNext == Add

LogSpec == LogInit /\ [][LogNext]_<<entries, readable>>
=============================================================================
