----------------------------- MODULE EventStream -----------------------------
(***************************************************************************)
(* What a client of a streamed completion is promised: the messages of the  *)
(* stream, in order, none twice, from the first on.  The stream may end      *)
(* before all of them have arrived.                                         *)
(***************************************************************************)
EXTENDS Naturals, SequencesExt

VARIABLES
    sent,    \* messages of the stream so far
    seen,    \* messages the client has
    ended    \* whether the stream has ended

streamVars == <<sent, seen, ended>>

StreamInit == sent = <<>> /\ seen = <<>> /\ ended = FALSE

Emit == IsStrictPrefix(sent, sent') /\ UNCHANGED <<seen, ended>>

Deliver ==
    /\ ~ ended
    /\ Len(seen) < Len(sent)
    /\ seen' = Append(seen, sent[Len(seen) + 1])
    /\ UNCHANGED <<sent, ended>>

End == ~ ended /\ ended' = TRUE /\ UNCHANGED <<sent, seen>>

StreamNext == Emit \/ Deliver \/ End

StreamSpec == StreamInit /\ [][StreamNext]_streamVars
=============================================================================
