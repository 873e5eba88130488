--------------------------- MODULE AtMostOnceLog ---------------------------
(***************************************************************************)
(* What the usage log promises: a row that was accepted reaches the table  *)
(* at most once.  Rows may be lost, before or after they were handed to    *)
(* the database, and batches may overtake each other.                      *)
(***************************************************************************)
EXTENDS Naturals, Sequences, Functions

CONSTANT Rows

VARIABLES
    pending,  \* rows accepted that may still reach the table
    written   \* the table, a sequence of rows

logVars == <<pending, written>>

LogInit == pending = {} /\ written = <<>>

Accept == \E row \in Rows \ (pending \cup Range(written)) :
              pending' = pending \cup {row} /\ UNCHANGED written

(* Some pending rows are written, each once. *)
Write ==
    LET new == SubSeq(written', Len(written) + 1, Len(written'))
    IN  /\ written' = written \o new
        /\ IsInjective(new)
        /\ Range(new) \subseteq pending
        /\ pending' = pending \ Range(new)

Lose == pending' \subseteq pending /\ UNCHANGED written

LogNext == Accept \/ Write \/ Lose

LogSpec == LogInit /\ [][LogNext]_logVars
=============================================================================
