---------------------------- MODULE ConversationLog ----------------------------
(***************************************************************************)
(* What the recording of conversations promises, without files, proposals, *)
(* retries or crashes: every conversation has a log of accepted events, an *)
(* event enters the log of its conversation at most once and never leaves  *)
(* it, and the canonical store receives a growing prefix of that log, each *)
(* event once and in order.  RecordingSpool implements this specification. *)
(***************************************************************************)
EXTENDS Naturals, Sequences, SequencesExt

CONSTANTS Convs,            \* the conversations
          Events,           \* everything that can be recorded
          ConvOfEvent(_)    \* the conversation an event belongs to

VARIABLES log,              \* log[c]: the accepted events of c, in seq order
          delivered         \* delivered[c]: how many of them are canonical

logVars == <<log, delivered>>

LogInit ==
  /\ log = [c \in Convs |-> <<>>]
  /\ delivered = [c \in Convs |-> 0]

\* The spool takes responsibility for one more event of conversation c.
Accept(c) ==
  /\ UNCHANGED delivered
  /\ log'[c] # log[c]
  /\ \E e \in {x \in Events : ConvOfEvent(x) = c} \ ToSet(log[c]) :
       log' = [log EXCEPT ![c] = Append(@, e)]

\* The canonical store takes the next event of a conversation.
Deliver(c) ==
  /\ delivered[c] < Len(log[c])
  /\ delivered' = [delivered EXCEPT ![c] = @ + 1]
  /\ UNCHANGED log

LogNext == \E c \in Convs : Accept(c) \/ Deliver(c)

LogSpec == LogInit /\ [][LogNext]_logVars

===============================================================================
