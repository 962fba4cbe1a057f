--------------------------- MODULE RecordingSpoolLog ---------------------------
(***************************************************************************)
(* RecordingSpool implements ConversationLog.  The log of a conversation   *)
(* is not a variable of the code: it is what Karte's record and the turn   *)
(* files say together, in the order of seq.                                *)
(***************************************************************************)
EXTENDS RecordingSpool, FiniteSetsExt

Accepted(c) ==
  LET stored == {e \in Events : Conv(e) = c /\ Item(file, e).seq > Len(canon[c])}
      last == Max({Len(canon[c])} \cup {Item(file, e).seq : e \in stored})
  IN  [n \in 1..last |->
         IF n =< Len(canon[c]) THEN canon[c][n].event
         ELSE CHOOSE e \in stored : Item(file, e).seq = n]

Log == INSTANCE ConversationLog WITH
  ConvOfEvent <- Conv,
  log <- [c \in Convs |-> Accepted(c)],
  delivered <- [c \in Convs |-> Len(canon[c])]

\* Accepted events are numbered without gaps or repetitions, none is lost by a
\* crash, a failed write or a retry, and Karte's record is at every moment a
\* prefix of them, each event once.
ImplementsLog == Log!LogSpec

===============================================================================
