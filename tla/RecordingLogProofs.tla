--------------------------- MODULE RecordingLogProofs ---------------------------
(***************************************************************************)
(* RecordingSpool implements ConversationLog for every set of turns and    *)
(* conversations, any number of crashes and any order of Karte's answers,  *)
(* when a write that reports an error left the old file.  With a write     *)
(* that fails after its rename it does not: a number may then be given     *)
(* twice.                                                                  *)
(***************************************************************************)
EXTENDS RecordingSpoolLog, RecordingSpoolProofs

-----------------------------------------------------------------------------
(* The inductive invariant.  AckedDurable and Handoff say that an event is  *)
(* somewhere; the log needs to know under which number, in which order and  *)
(* only once, on disk between any two writes and in memory.                 *)

\* The number the files give an event, and the events of a conversation.
Num(e) == Item(file, e).seq
Of(c)  == {e \in Events : Conv(e) = c}

\* Two copies of a turn have the same draft and the same deliveries, up to
\* whether one is blocked.
Same(i, j) ==
  /\ i.seq = j.seq
  /\ i.seq > 0 => i.cand = j.cand /\ i.base = j.base /\ i.verified = j.verified
Alike(t, u) == t.open = u.open /\ \A kd \in Kinds : Same(t.items[kd], u.items[kd])

\* Events that are not in Karte's record have the numbers after it, up to t.
Gapless(c, t) ==
  /\ t \in Nat /\ Len(canon[c]) =< t
  /\ \A e \in Of(c) : Num(e) =< t
  /\ \A n \in (Len(canon[c]) + 1)..t : \E e \in Of(c) : Num(e) = n

\* The n-th entry of the record is the event with number n, which is still in
\* its file, or was completed and is covered by the saved head.
Placed(c) ==
  \A n \in 1..Len(canon[c]) : LET e == canon[c][n].event IN
    /\ Conv(e) = c
    /\ Has(file, e) => Num(e) = n
    /\ Has(file, e) \/ (e[1] \in completedFile /\ n =< headsFile[c].seq)
    /\ \A m \in 1..Len(canon[c]) : canon[c][m].event = e => m = n

\* A number is given once; what is prepared or verified was sent against the
\* revision before its own; verified events come before the others.
Numbered(e) == LET d == Item(file, e) IN
  Has(file, e) =>
    /\ d.cand # NoCandidate \/ d.verified => d.seq = d.base + 1
    /\ d.verified \/ headsFile[Conv(e)].seq < d.seq
    /\ \A f \in Of(Conv(e)) : Has(file, f) =>
         /\ Num(f) = d.seq => f = e
         /\ d.verified \/ ~Item(file, f).verified \/ Num(f) < d.seq

\* A proposal under way carries the number of its event and the revision before.
Sent(p) == LET c == Conv(p.event) IN
  /\ p.seq = p.base + 1
  /\ \/ Num(p.event) = p.seq
     \/ p.seq =< Len(canon[c]) /\ canon[c][p.seq].event = p.event

HeadOK(h, c) == h.rev = h.seq /\ h.seq =< Len(canon[c])

Disk ==
  /\ \A c \in Convs : /\ Placed(c) /\ HeadOK(headsFile[c], c)
                      /\ \E t \in Nat : Gapless(c, t)
  /\ \A e \in Events : Numbered(e)
  /\ \A k \in completedFile : ~file[k].open
  /\ \A p \in outbox : Sent(p)

Busy == {"prepare", "send", "poll", "readback"}

\* What the process holds is what the files hold, seq is the last number, an
\* event is verified if the head covers its number, and the event of an attempt
\* is the next one.
Memory ==
  /\ \A k \in Keys : Alike(turns[k], file[k])
  /\ completedFile \subseteq completed
  /\ \A k \in completed : ~turns[k].open
  /\ \A c \in Convs : /\ Gapless(c, seq[c])
                      /\ HeadOK(heads[c], c)
                      /\ headsFile[c].seq =< heads[c].seq
  /\ phase = "loading" => headsFile = heads
  /\ \A e \in Events : Has(file, e) =>
       (Item(file, e).verified <=> Num(e) =< heads[Conv(e)].seq)
  /\ flight.step \in Busy =>
       Num(flight.event) = heads[Conv(flight.event)].seq + 1

Ledger == Disk /\ (phase # "down" => Memory)
LogInv == IInv /\ Ledger

-----------------------------------------------------------------------------
(* Types *)

\* What the files and Karte's record hold.
LEMMA LogTypes ==
  ASSUME TypeOK
  PROVE  /\ \A e \in Events :
              /\ Item(file, e) \in Items /\ Num(e) \in Nat
              /\ Item(turns, e) \in Items /\ Item(turns, e).seq \in Nat
              /\ e[1] \in Keys /\ e[2] \in Kinds /\ Conv(e) \in Convs
         /\ \A c \in Convs :
              /\ Len(canon[c]) \in Nat /\ seq[c] \in Nat
              /\ \A n \in 1..Len(canon[c]) : canon[c][n].event \in Events
              /\ heads[c] \in Heads /\ heads[c].seq \in Nat /\ heads[c].rev \in Nat
              /\ headsFile[c] \in Heads /\ headsFile[c].seq \in Nat
              /\ headsFile[c].rev \in Nat
  <1>1. \A e \in Events : e[1] \in Keys /\ e[2] \in Kinds /\ Conv(e) \in Convs
    BY EventPair, ConvOfAssumption DEF Conv
  <1>2. file \in [Keys -> Turns] /\ turns \in [Keys -> Turns]
    BY DEF TypeOK
  <1>3. \A e \in Events : Item(file, e) \in Items /\ Item(turns, e) \in Items
    BY <1>1, <1>2 DEF Item, Turns
  <1>4. \A i \in Items : i.seq \in Nat
    BY DEF Items
  <1>5. \A e \in Events : Num(e) \in Nat /\ Item(turns, e).seq \in Nat
    BY <1>3, <1>4 DEF Num
  <1>6. \A c \in Convs : canon[c] \in Seq(Proposals) /\ seq[c] \in Nat
                         /\ heads[c] \in Heads /\ headsFile[c] \in Heads
    BY DEF TypeOK
  <1>7. \A h \in Heads : h.seq \in Nat /\ h.rev \in Nat
    BY DEF Heads
  <1>8. \A p \in Proposals : p.event \in Events
    BY DEF Proposals
  <1>9. \A c \in Convs : Len(canon[c]) \in Nat
                         /\ \A n \in 1..Len(canon[c]) : canon[c][n] \in Proposals
    BY <1>6
  <1> QED BY <1>1, <1>3, <1>5, <1>6, <1>7, <1>8, <1>9

-----------------------------------------------------------------------------
(* The log of a conversation as a relation: event e is its n-th entry. *)

Entry(c, n, e) ==
  IF n =< Len(canon[c]) THEN canon[c][n].event = e
                        ELSE Conv(e) = c /\ Num(e) = n

\* s is the sequence of the entries.
Book(c, s) ==
  /\ s \in Seq(Events)
  /\ \A n \in 1..Len(s) : Entry(c, n, s[n])
  /\ \A n \in Nat \ {0} : \A e \in Events :
       Entry(c, n, e) => n \in 1..Len(s) /\ s[n] = e

\* Accepted(c) is.
LEMMA AcceptedBook ==
  ASSUME TypeOK, Disk, NEW c \in Convs
  PROVE  Book(c, Accepted(c))
  <1> DEFINE L == Len(canon[c])
             stored == {e \in Events : Conv(e) = c /\ Item(file, e).seq > L}
             S == {L} \cup {Item(file, e).seq : e \in stored}
             last == Max(S)
             s == Accepted(c)
  <1>1. PICK t \in Nat : Gapless(c, t)
    BY DEF Disk
  <1>2. L \in Nat /\ L =< t /\ \A e \in Events : Item(file, e).seq \in Nat
    BY <1>1, LogTypes DEF Gapless, Num
  <1>3. S \subseteq Nat /\ t \in S /\ \A n \in S : t >= n
    <2>1. \A n \in S : n \in Nat /\ n =< t
      BY <1>1, <1>2 DEF Gapless, Num, Of
    <2>2. t \in S
      <3>1. CASE t = L
        BY <3>1
      <3>2. CASE t # L
        <4>1. t \in (L + 1)..t
          BY <1>2, <3>2
        <4>2. PICK e \in Of(c) : Num(e) = t
          BY <1>1, <4>1 DEF Gapless
        <4>3. e \in stored /\ Item(file, e).seq = t
          BY <1>2, <3>2, <4>2 DEF Of, Num
        <4> QED BY <4>3
      <3> QED BY <3>1, <3>2
    <2> QED BY <2>1, <2>2
  <1>4. last = t
    <2>1. last \in S /\ \A n \in S : last >= n
      BY <1>3 DEF Max
    <2> HIDE DEF S, last
    <2> QED BY <1>3, <2>1
  <1>5. s = [n \in 1..last |-> IF n =< L THEN canon[c][n].event
                               ELSE CHOOSE e \in stored : Item(file, e).seq = n]
    BY DEF Accepted
  <1> HIDE DEF last, s
  <1>6. \A n \in 1..L : canon[c][n].event \in Events /\ s[n] = canon[c][n].event
    BY <1>2, <1>4, <1>5, LogTypes
  <1>7. ASSUME NEW n \in 1..t, n > L
        PROVE  s[n] \in Events /\ Conv(s[n]) = c /\ Num(s[n]) = n
    <2>1. n \in (L + 1)..t
      BY <1>2, <1>7
    <2>2. \E e \in stored : Item(file, e).seq = n
      BY <1>1, <1>2, <1>7, <2>1 DEF Gapless, Num, Of
    <2>3. s[n] = CHOOSE e \in stored : Item(file, e).seq = n
      BY <1>2, <1>4, <1>5, <1>7
    <2>4. s[n] \in stored /\ Item(file, s[n]).seq = n
      BY <2>2, <2>3
    <2> QED BY <2>4 DEF Num
  <1>8. DOMAIN s = 1..t
    BY <1>4, <1>5
  <1>9. s \in Seq(Events) /\ Len(s) = t
    <2>1. \A n \in 1..t : s[n] \in Events
      BY <1>2, <1>6, <1>7
    <2>2. s = [n \in 1..t |-> s[n]]
      BY <1>4, <1>5
    <2>3. s \in [1..t -> Events]
      BY <2>1, <2>2
    <2> QED BY <1>8, <2>3
  <1>10. \A n \in 1..t : Entry(c, n, s[n])
    BY <1>2, <1>6, <1>7 DEF Entry
  <1>11. ASSUME NEW n \in Nat \ {0}, NEW e \in Events, Entry(c, n, e)
         PROVE  n \in 1..t /\ s[n] = e
    <2>1. CASE n =< L
      BY <1>2, <1>6, <1>11, <2>1 DEF Entry
    <2>2. CASE n > L
      <3>1. Conv(e) = c /\ Num(e) = n
        BY <1>2, <1>11, <2>2 DEF Entry
      <3>2. n =< t
        BY <1>1, <3>1 DEF Gapless, Of
      <3>3. s[n] \in Events /\ Conv(s[n]) = c /\ Num(s[n]) = n
        BY <1>7, <2>2, <3>2
      <3>4. s[n] = e
        BY <1>2, <2>2, <3>1, <3>3 DEF Disk, Numbered, Of, Has, Num
      <3> QED BY <3>2, <3>4
    <2> QED BY <1>2, <2>1, <2>2
  <1> QED BY <1>9, <1>10, <1>11 DEF Book, s

-----------------------------------------------------------------------------
(* How the log of a step is related to the log before it *)

\* Accepted(c) is, in the next state too.
LEMMA AcceptedBookNext ==
  (TypeOK /\ Disk)' => \A c \in Convs : Book(c, Accepted(c))'
  <1>1. TypeOK /\ Disk => \A c \in Convs : Book(c, Accepted(c))
    BY AcceptedBook
  <1>2. (TypeOK /\ Disk)' => (\A c \in Convs : Book(c, Accepted(c)))'
    BY <1>1, PTL
  <1> QED BY <1>2

\* A step that makes no new entry.
SameEntries(c) ==
  \A n \in Nat \ {0} : \A e \in Events : Entry(c, n, e)' <=> Entry(c, n, e)

\* A step that makes f the n-th entry.
NewEntry(c, m, f) ==
  \A n \in Nat \ {0} : \A e \in Events :
    Entry(c, n, e)' <=> Entry(c, n, e) \/ (n = m /\ e = f)

\* Without one the sequence of the entries stays as it is.
LEMMA SameBook ==
  ASSUME NEW c \in Convs, NEW s, NEW r, Book(c, s), Book(c, r)', SameEntries(c)
  PROVE  r = s
  <1>1. /\ r \in Seq(Events)
        /\ \A n \in 1..Len(r) : Entry(c, n, r[n])'
        /\ \A n \in Nat \ {0} : \A e \in Events :
             Entry(c, n, e)' => n \in 1..Len(r) /\ r[n] = e
    BY DEF Book
  <1>2. /\ s \in Seq(Events)
        /\ \A n \in 1..Len(s) : Entry(c, n, s[n])
        /\ \A n \in Nat \ {0} : \A e \in Events :
             Entry(c, n, e) => n \in 1..Len(s) /\ s[n] = e
    BY DEF Book
  <1>3. \A n \in 1..Len(s) : n \in 1..Len(r) /\ r[n] = s[n]
    BY <1>1, <1>2 DEF SameEntries
  <1>4. \A n \in 1..Len(r) : n \in 1..Len(s)
    BY <1>1, <1>2 DEF SameEntries
  <1>5. Len(r) \in Nat /\ Len(s) \in Nat
    BY <1>1, <1>2
  <1>6. Len(r) = Len(s)
    <2>1. CASE Len(r) < Len(s)
      <3>1. Len(s) \in 1..Len(s)
        BY <1>5, <2>1
      <3> QED BY <1>3, <1>5, <2>1, <3>1
    <2>2. CASE Len(s) < Len(r)
      <3>1. Len(r) \in 1..Len(r)
        BY <1>5, <2>2
      <3> QED BY <1>4, <1>5, <2>2, <3>1
    <2> QED BY <1>5, <2>1, <2>2
  <1> QED BY <1>1, <1>2, <1>3, <1>6

\* Without a new entry Accepted(c) stays as it is.
LEMMA SameAccepted ==
  ASSUME TypeOK, Disk, (TypeOK /\ Disk)', NEW c \in Convs, SameEntries(c)
  PROVE  Accepted(c)' = Accepted(c)
  <1>1. Book(c, Accepted(c)) /\ Book(c, Accepted(c))'
    BY AcceptedBook, AcceptedBookNext
  <1>2. PICK s : s = Accepted(c)
    OBVIOUS
  <1>3. PICK r : r = Accepted(c)'
    OBVIOUS
  <1>4. Book(c, s) /\ Book(c, r)'
    BY <1>1, <1>2, <1>3 DEF Book
  <1> QED BY <1>2, <1>3, <1>4, SameBook

\* A new entry at the end is appended to the sequence.
LEMMA MoreBook ==
  ASSUME NEW c \in Convs, NEW s, NEW r, Book(c, s), Book(c, r)',
         NEW f \in Events, NewEntry(c, Len(s) + 1, f)
  PROVE  r = Append(s, f)
  <1>1. /\ r \in Seq(Events)
        /\ \A n \in 1..Len(r) : Entry(c, n, r[n])'
        /\ \A n \in Nat \ {0} : \A e \in Events :
             Entry(c, n, e)' => n \in 1..Len(r) /\ r[n] = e
    BY DEF Book
  <1>2. /\ s \in Seq(Events)
        /\ \A n \in 1..Len(s) : Entry(c, n, s[n])
        /\ \A n \in Nat \ {0} : \A e \in Events :
             Entry(c, n, e) => n \in 1..Len(s) /\ s[n] = e
    BY DEF Book
  <1>3. Len(r) \in Nat /\ Len(s) \in Nat
    BY <1>1, <1>2
  <1>4. \A n \in 1..Len(s) : n \in 1..Len(r) /\ r[n] = s[n]
    BY <1>1, <1>2 DEF NewEntry
  <1>5. Len(s) + 1 \in 1..Len(r) /\ r[Len(s) + 1] = f
    BY <1>1, <1>3 DEF NewEntry
  <1>6. \A n \in 1..Len(r) : n \in 1..Len(s) \/ n = Len(s) + 1
    BY <1>1, <1>2 DEF NewEntry
  <1>7. Len(r) = Len(s) + 1
    <2>1. Len(r) \in 1..Len(r)
      BY <1>3, <1>5
    <2> QED BY <1>3, <1>5, <1>6, <2>1
  <1> QED BY <1>1, <1>2, <1>3, <1>4, <1>5, <1>7

\* No new entry, no entry delivered: the abstract log stutters.
LEMMA LogStutter ==
  ASSUME TypeOK, Disk, (TypeOK /\ Disk)',
         \A c \in Convs : SameEntries(c) /\ Len(canon'[c]) = Len(canon[c])
  PROVE  UNCHANGED Log!logVars
  <1>1. \A c \in Convs : Accepted(c)' = Accepted(c)
    BY SameAccepted
  <1>2. UNCHANGED [c \in Convs |-> Accepted(c)]
    BY <1>1
  <1>3. UNCHANGED [c \in Convs |-> Len(canon[c])]
    OBVIOUS
  <1> QED BY <1>2, <1>3 DEF Log!logVars

\* The event f of c gets the next number: the abstract log accepts it.
LEMMA LogAccept ==
  ASSUME TypeOK, Disk, (TypeOK /\ Disk)', NEW d \in Convs, NEW f \in Of(d),
         NEW t \in Nat, Gapless(d, t), NewEntry(d, t + 1, f),
         \A n \in Nat \ {0} : ~Entry(d, n, f),
         \A c \in Convs \ {d} : SameEntries(c), UNCHANGED canon
  PROVE  Log!LogNext
  <1>1. \A c \in Convs \ {d} : Accepted(c)' = Accepted(c)
    BY SameAccepted
  <1>2. PICK s : s = Accepted(d)
    OBVIOUS
  <1>3. PICK r : r = Accepted(d)'
    OBVIOUS
  <1>4. Book(d, s) /\ Book(d, r)'
    <2>1. Book(d, Accepted(d)) /\ Book(d, Accepted(d))'
      BY AcceptedBook, AcceptedBookNext
    <2> QED BY <1>2, <1>3, <2>1 DEF Book
  <1>5. f \in Events /\ Conv(f) = d
    BY DEF Of
  <1>6. Len(s) = t
    <2>1. /\ s \in Seq(Events)
          /\ \A n \in 1..Len(s) : Entry(d, n, s[n])
          /\ \A n \in Nat \ {0} : \A e \in Events :
               Entry(d, n, e) => n \in 1..Len(s) /\ s[n] = e
      BY <1>4 DEF Book
    <2>2. Len(s) \in Nat /\ Len(canon[d]) \in Nat /\ Len(canon[d]) =< t
      BY <2>1, LogTypes DEF Gapless
    <2>3. CASE Len(s) < t
      <3>1. \E e \in Events : Entry(d, t, e)
        <4>1. CASE t = Len(canon[d])
          BY <2>2, <2>3, <4>1, LogTypes DEF Entry
        <4>2. CASE t # Len(canon[d])
          <5>1. t \in (Len(canon[d]) + 1)..t
            BY <2>2, <4>2
          <5>2. PICK e \in Of(d) : Num(e) = t
            BY <5>1 DEF Gapless
          <5> QED BY <2>2, <4>2, <5>2 DEF Entry, Of
        <4> QED BY <4>1, <4>2
      <3> QED BY <2>1, <2>2, <2>3, <3>1
    <2>4. CASE t < Len(s)
      <3>1. Entry(d, Len(s), s[Len(s)]) /\ s[Len(s)] \in Events
        BY <2>1, <2>2, <2>4
      <3>2. Conv(s[Len(s)]) = d /\ Num(s[Len(s)]) = Len(s)
        BY <2>2, <2>4, <3>1 DEF Entry
      <3> QED BY <2>2, <2>4, <3>1, <3>2 DEF Gapless, Of
    <2> QED BY <2>2, <2>3, <2>4
  <1>7. r = Append(s, f)
    BY <1>4, <1>5, <1>6, MoreBook
  <1>8. s \in Seq(Events) /\ \A n \in 1..Len(s) : s[n] # f
    <2>1. s \in Seq(Events) /\ \A n \in 1..Len(s) : Entry(d, n, s[n])
      BY <1>4 DEF Book
    <2> QED BY <2>1
  <1>9. f \in {x \in Events : Conv(x) = d} \ Log!ToSet(s) /\ r # s
    <2>1. DOMAIN s = 1..Len(s) /\ Len(s) \in Nat /\ Len(r) = Len(s) + 1
      BY <1>7, <1>8
    <2> QED BY <1>5, <1>8, <2>1 DEF Log!ToSet
  <1> DEFINE l == [c \in Convs |-> Accepted(c)]
  <1>10. l[d] = s /\ l'[d] = r
    BY <1>2, <1>3
  <1>11. l' = [l EXCEPT ![d] = Append(s, f)]
    <2>1. l' = [c \in Convs |-> Accepted(c)']
      OBVIOUS
    <2>2. \A c \in Convs : Accepted(c)' = IF c = d THEN Append(s, f) ELSE Accepted(c)
      BY <1>1, <1>3, <1>7
    <2> QED BY <2>1, <2>2
  <1>12. UNCHANGED [c \in Convs |-> Len(canon[c])]
    OBVIOUS
  <1> HIDE DEF l
  <1>13. /\ l'[d] # l[d]
         /\ \E e \in {x \in Events : Conv(x) = d} \ Log!ToSet(l[d]) :
              l' = [l EXCEPT ![d] = Append(@, e)]
    BY <1>9, <1>10, <1>11
  <1>14. Log!Accept(d)
    BY <1>12, <1>13 DEF Log!Accept, l
  <1> QED BY <1>14 DEF Log!LogNext

\* Karte takes an entry into its record: the abstract log delivers it.
LEMMA LogDeliver ==
  ASSUME TypeOK, Disk, (TypeOK /\ Disk)', NEW d \in Convs,
         \A c \in Convs : SameEntries(c),
         NEW p \in Proposals, canon' = [canon EXCEPT ![d] = Append(@, p)],
         Entry(d, Len(canon[d]) + 1, p.event)
  PROVE  Log!LogNext
  <1>1. \A c \in Convs : Accepted(c)' = Accepted(c)
    BY SameAccepted
  <1>2. UNCHANGED [c \in Convs |-> Accepted(c)]
    BY <1>1
  <1>3. canon \in [Convs -> Seq(Proposals)]
    BY DEF TypeOK
  <1> DEFINE n == [c \in Convs |-> Len(canon[c])]
  <1>4. n' = [n EXCEPT ![d] = @ + 1]
    <2>1. n' = [c \in Convs |-> Len(canon'[c])]
      OBVIOUS
    <2>2. \A c \in Convs : Len(canon'[c]) = IF c = d THEN Len(canon[c]) + 1 ELSE Len(canon[c])
      BY <1>3
    <2> QED BY <2>1, <2>2
  <1>5. n[d] < Len([c \in Convs |-> Accepted(c)][d])
    <2>1. Book(d, Accepted(d))
      BY AcceptedBook
    <2>2. p.event \in Events /\ Len(canon[d]) \in Nat
      BY LogTypes DEF Proposals
    <2>3. Len(canon[d]) + 1 \in 1..Len(Accepted(d))
      BY <2>1, <2>2 DEF Book
    <2>4. Accepted(d) \in Seq(Events)
      BY <2>1 DEF Book
    <2> QED BY <2>2, <2>3, <2>4
  <1>6. Log!Deliver(d)
    BY <1>2, <1>4, <1>5 DEF Log!Deliver
  <1> QED BY <1>6 DEF Log!LogNext

-----------------------------------------------------------------------------
(* Steps that keep the numbers *)

\* A step that makes no entry and delivers none.
Still == \A c \in Convs : SameEntries(c) /\ Len(canon'[c]) = Len(canon[c])

\* The items of a turn that is alike.
LEMMA AlikeItems ==
  ASSUME NEW t, NEW u, \A k \in Keys : Alike(t[k], u[k]), NEW e \in Events
  PROVE  Same(Item(t, e), Item(u, e))
  BY EventPair DEF Alike, Item

\* A turn is alike itself, and likeness is symmetric and transitive.
LEMMA AlikeLaws ==
  /\ \A t : Alike(t, t)
  /\ \A t, u : Alike(t, u) => Alike(u, t)
  /\ \A t, u, v : Alike(t, u) /\ Alike(u, v) => Alike(t, v)
  BY DEF Alike, Same

\* The file of e keeps its number, and what is prepared stays sent against the
\* revision before it.
Kept(e) == LET d == Item(file, e)' IN
  /\ d.seq = Num(e)
  /\ Has(file, e) =>
       /\ d.verified = Item(file, e).verified
       /\ d.cand # NoCandidate \/ d.verified => d.seq = d.base + 1

\* An item replaced by the same one is.
LEMMA SameKept ==
  ASSUME Disk, NEW e \in Events, Same(Item(file, e)', Item(file, e))
  PROVE  Kept(e)
  BY DEF Disk, Numbered, Same, Kept, Num, Has

\* The files keep their numbers, and completed turns stay closed.
LEMMA DiskFrame ==
  ASSUME TypeOK, Disk, UNCHANGED <<canon, headsFile>>,
         completedFile \subseteq completedFile',
         \A e \in Events : Kept(e),
         \A k \in completedFile' : ~file'[k].open,
         \A p \in outbox' : p \in outbox \/ (p \in Proposals /\ Sent(p))
  PROVE  Disk' /\ Still
  <1>1. \A e \in Events :
          /\ Num(e)' = Num(e) /\ Has(file, e)' = Has(file, e)
          /\ Item(file, e)'.seq = Item(file, e).seq
          /\ Has(file, e) => Item(file, e)'.verified = Item(file, e).verified
    BY DEF Kept, Num, Has
  <1>2. \A c : Of(c) \subseteq Events /\ Of(c)' = Of(c)
    BY DEF Of, Conv, Events
  <1>3. \A c \in Convs : Placed(c)'
    BY <1>1, LogTypes DEF Disk, Placed
  <1>4. \A c \in Convs : HeadOK(headsFile[c], c)'
    BY DEF Disk, HeadOK
  <1>5. \A c \in Convs : \E t \in Nat : Gapless(c, t)'
    BY <1>1, <1>2 DEF Disk, Gapless
  <1>6. ASSUME NEW e \in Events PROVE Numbered(e)'
    <2>1. Numbered(e) /\ Kept(e) /\ headsFile' = headsFile
      BY DEF Disk
    <2>2. \A f \in Of(Conv(e)) :
            /\ Has(file, f)' = Has(file, f) /\ Num(f)' = Num(f)
            /\ Has(file, f) => Item(file, f)'.verified = Item(file, f).verified
      BY <1>1, <1>2
    <2>3. Of(Conv(e))' = Of(Conv(e)) /\ Conv(e)' = Conv(e)
      BY DEF Of, Conv
    <2> QED BY <1>1, <2>1, <2>2, <2>3 DEF Numbered, Kept
  <1>7. \A p \in outbox' : Sent(p)'
    <2>1. \A p \in outbox' : p \in Proposals /\ Sent(p) /\ p.event \in Events
      BY DEF Disk, TypeOK, Proposals
    <2> QED BY <1>1, <2>1 DEF Sent
  <1>8. Still
    BY <1>1 DEF Still, SameEntries, Entry
  <1> QED BY <1>3, <1>4, <1>5, <1>6, <1>7, <1>8 DEF Disk

\* Memory follows the files.
LEMMA MemoryFrame ==
  ASSUME TypeOK, Memory, UNCHANGED <<canon, seq, heads, headsFile>>,
         \A e \in Events : Kept(e),
         \A k \in Keys : Alike(turns'[k], file'[k]),
         completedFile' \subseteq completed',
         \A k \in completed' : ~turns'[k].open,
         phase' = "loading" => phase = "loading",
         flight'.step \in Busy =>
           /\ flight'.event \in Events
           /\ Num(flight'.event) = heads[Conv(flight'.event)].seq + 1
  PROVE  Memory'
  <1>1. \A e \in Events :
          /\ Num(e)' = Num(e) /\ Has(file, e)' = Has(file, e)
          /\ Has(file, e) => Item(file, e)'.verified = Item(file, e).verified
    BY DEF Kept, Num, Has
  <1>2. \A c : Of(c) \subseteq Events /\ Of(c)' = Of(c)
    BY DEF Of, Conv, Events
  <1>3. \A c \in Convs : Gapless(c, seq[c])'
    BY <1>1, <1>2 DEF Memory, Gapless
  <1>4. \A c \in Convs : HeadOK(heads[c], c)' /\ headsFile'[c].seq =< heads'[c].seq
    BY DEF Memory, HeadOK
  <1>5. \A e \in Events : (Has(file, e) =>
          (Item(file, e).verified <=> Num(e) =< heads[Conv(e)].seq))'
    BY <1>1 DEF Memory
  <1>6. (flight.step \in Busy => Num(flight.event) = heads[Conv(flight.event)].seq + 1)'
    BY <1>1 DEF Busy
  <1> QED BY <1>3, <1>4, <1>5, <1>6 DEF Memory

\* A step that replaces turns by ones alike, and chooses only the next event.
LEMMA QuietLog ==
  ASSUME TypeOK, Ledger, UNCHANGED <<canon, headsFile, completedFile>>,
         \A k \in Keys : \/ file'[k] = file[k]
                         \/ phase # "down" /\ Alike(file'[k], turns[k]),
         \A p \in outbox' : p \in outbox \/ (p \in Proposals /\ Sent(p)),
         phase' # "down" =>
           /\ phase # "down" /\ UNCHANGED <<seq, heads, completed>>
           /\ \A k \in Keys : Alike(turns'[k], turns[k])
           /\ phase' = "loading" => phase = "loading"
           /\ flight'.step \in Busy =>
                \/ flight.step \in Busy /\ flight'.event = flight.event
                \/ /\ flight'.event \in Events
                   /\ Num(flight'.event) = heads[Conv(flight'.event)].seq + 1
  PROVE  Ledger' /\ Still
  <1>1. \A k \in Keys : Alike(file'[k], file[k])
    BY AlikeLaws DEF Ledger, Memory
  <1>2. \A e \in Events : Kept(e)
    <2>1. \A e \in Events : Same(Item(file', e), Item(file, e))
      BY <1>1, AlikeItems
    <2>2. \A e \in Events : Same(Item(file, e)', Item(file, e))
      BY <2>1 DEF Item
    <2> QED BY <2>2, SameKept DEF Ledger
  <1>3. Disk' /\ Still
    <2>1. completedFile' \subseteq Keys /\ \A k \in completedFile' : ~file'[k].open
      BY <1>1 DEF Ledger, Disk, TypeOK, Alike
    <2> QED BY <1>2, <2>1, DiskFrame DEF Ledger
  <1>4. ASSUME phase' # "down" PROVE Memory'
    <2>1. Memory /\ \A k \in Keys : Alike(turns'[k], file'[k])
      BY <1>1, <1>4, AlikeLaws DEF Ledger, Memory
    <2>2. \A k \in completed' : ~turns'[k].open
      BY <1>4, <2>1 DEF Memory, TypeOK, Alike
    <2>3. completedFile' \subseteq completed' /\ UNCHANGED <<seq, heads>>
          /\ (phase' = "loading" => phase = "loading")
      BY <1>4, <2>1 DEF Memory
    <2>4. flight.step \in Busy =>
            /\ flight.event \in Events
            /\ Num(flight.event) = heads[Conv(flight.event)].seq + 1
      BY <2>1 DEF Memory, TypeOK, Busy
    <2>5. flight'.step \in Busy =>
            /\ flight'.event \in Events
            /\ Num(flight'.event) = heads[Conv(flight'.event)].seq + 1
      BY <1>4, <2>4
    <2> QED BY <1>2, <2>1, <2>2, <2>3, <2>5, MemoryFrame
  <1> QED BY <1>3, <1>4 DEF Ledger

\* The oldest event that is not verified has the number after the head.
LEMMA OldestIsNext ==
  ASSUME TypeOK, Ledger, phase # "down", NEW e \in Events, Oldest(e)
  PROVE  Num(e) = heads[Conv(e)].seq + 1
  <1> DEFINE c == Conv(e)
             h == heads[c].seq
  <1>1. Memory /\ Disk /\ c \in Convs /\ h \in Nat /\ Num(e) \in Nat
    BY LogTypes DEF Ledger
  <1>2. \A f \in Events : Same(Item(turns, f), Item(file, f))
    BY <1>1, AlikeItems DEF Memory
  <1>3. \A f \in Events : /\ Item(turns, f).seq = Num(f) /\ Num(f) \in Nat
                          /\ Unverified(f) <=> Has(file, f) /\ ~Item(file, f).verified
    BY <1>2, LogTypes DEF Same, Num, Unverified, Has
  <1>4. h < Num(e)
    <2>1. Has(file, e) /\ ~Item(file, e).verified
      BY <1>3 DEF Oldest
    <2> QED BY <1>1, <2>1 DEF Memory
  <1>5. PICK f \in Of(c) : Num(f) = h + 1
    <2>1. e \in Of(c) /\ Num(e) =< seq[c] /\ Len(canon[c]) \in Nat /\ seq[c] \in Nat
      BY <1>1, LogTypes DEF Memory, Gapless, Of
    <2>2. CASE h + 1 > Len(canon[c])
      <3>1. h + 1 \in (Len(canon[c]) + 1)..seq[c]
        BY <1>1, <1>4, <2>1, <2>2
      <3> QED BY <1>1, <3>1 DEF Memory, Gapless
    <2>3. CASE h + 1 =< Len(canon[c])
      <3>1. h + 1 \in 1..Len(canon[c])
        BY <1>1, <2>1, <2>3
      <3> DEFINE f == canon[c][h + 1].event
      <3>2. f \in Events /\ Conv(f) = c /\ (Has(file, f) => Num(f) = h + 1)
              /\ (Has(file, f) \/ h + 1 =< headsFile[c].seq)
        BY <1>1, <3>1, LogTypes DEF Disk, Placed
      <3>3. headsFile[c].seq =< h /\ headsFile[c].seq \in Nat
        BY <1>1, LogTypes DEF Memory
      <3>4. f \in Of(c) /\ Num(f) = h + 1
        BY <1>1, <3>2, <3>3 DEF Of
      <3> QED BY <3>4
    <2> QED BY <1>1, <2>1, <2>2, <2>3
  <1>6. Unverified(f)
    <2>1. f \in Events /\ Conv(f) = c /\ Has(file, f)
      BY <1>1, <1>5 DEF Of, Has, Num
    <2>2. ~Item(file, f).verified
      BY <1>1, <1>5, <2>1 DEF Memory
    <2> QED BY <1>3, <2>1, <2>2
  <1>7. Num(e) =< Num(f)
    BY <1>3, <1>5, <1>6 DEF Oldest, Of
  <1> QED BY <1>1, <1>4, <1>5, <1>7

-----------------------------------------------------------------------------
(* The actions that move no number *)

\* No write fails after its rename.
LEMMA EarlyOnly ==
  ASSUME "late" \notin Faults, NEW w \in Faults
  PROVE  w = "early" /\ \A x, y : Written(x, y, w) = x
  BY FaultAssumption DEF Written

\* The steps of an attempt name its event.
LEMMA GotoBusy ==
  ASSUME TypeOK, NEW step, NEW code, Goto(step, code)
  PROVE  flight'.event = flight.event /\ flight'.step = step
  BY DEF Goto, TypeOK

\* The actions that touch neither turns nor files.
LEMMA SettingsLog ==
  ASSUME LogInv,
         \/ ConfigureOff \/ ConfigureOn \/ Close \/ Loaded \/ AttemptFails \/ Poll
         \/ UNCHANGED vars
         \/ \E k \in Keys : \/ BeginRefused(k) \/ Commit(k)
                            \/ CheckpointRefused(k) \/ RecoverPending(k)
         \/ \E p \in outbox : KarteReceipt(p) \/ KarteReject(p)
  PROVE  Ledger' /\ Still
  <1>1. /\ UNCHANGED <<turns, file, seq, heads, completed, canon, headsFile, completedFile>>
        /\ phase' # "down" => phase # "down"
        /\ phase' = "loading" => phase = "loading"
    BY DEF ConfigureOff, ConfigureOn, Close, Loaded, BeginRefused, Commit,
           CheckpointRefused, RecoverPending, AttemptFails, Poll, KarteReceipt,
           KarteReject, vars, life, store, disk, karte, ghost
  <1>2. \A p \in outbox' : p \in outbox
    BY DEF ConfigureOff, ConfigureOn, Close, Loaded, BeginRefused, Commit,
           CheckpointRefused, RecoverPending, AttemptFails, Poll, KarteReceipt,
           KarteReject, vars, karte
  <1>3. flight'.step \in Busy => flight.step \in Busy /\ flight'.event = flight.event
    <2>1. \/ flight' = flight
          \/ flight.step \in Busy /\ \E step, code : Goto(step, code)
      BY DEF ConfigureOff, ConfigureOn, Close, Loaded, BeginRefused, Commit,
             CheckpointRefused, RecoverPending, AttemptFails, Poll, KarteReceipt,
             KarteReject, vars, Busy
    <2>2. TypeOK
      BY DEF LogInv, IInv, SpoolInv
    <2> QED BY <2>1, <2>2, GotoBusy
  <1>4. TypeOK /\ Ledger
    BY DEF LogInv, IInv, SpoolInv
  <1> QED BY <1>1, <1>2, <1>3, <1>4, AlikeLaws, QuietLog

\* Sending: the proposal is the one prepared for the number of its event.
LEMMA SendLog ==
  ASSUME LogInv, Send
  PROVE  Ledger' /\ Still
  <1> DEFINE e == flight.event
             p == Proposal(e)
  <1>1. /\ UNCHANGED <<turns, file, seq, heads, completed, canon, headsFile, completedFile, phase>>
        /\ outbox' \subseteq outbox \cup {p}
        /\ flight.step = "send" /\ \E step, code : Goto(step, code)
    BY DEF Send, life, store, disk
  <1>2. TypeOK /\ Ledger /\ Disk /\ Memory /\ e \in Events /\ phase # "down"
        /\ Has(turns, e) /\ Item(turns, e).cand \in Candidates
    BY <1>1 DEF LogInv, IInv, SpoolInv, Wellformed, TypeOK, Ledger
  <1>3. Same(Item(turns, e), Item(file, e)) /\ Item(turns, e) \in Items
    BY <1>2, AlikeItems, LogTypes DEF Memory
  <1>4. p \in Proposals
    BY <1>2, <1>3 DEF Proposal, Proposals, Items
  <1>5. Sent(p)
    <2>1. p.event = e /\ p.seq = Num(e) /\ p.base = Item(file, e).base
      BY <1>2, <1>3 DEF Proposal, Same, Num, Has
    <2>2. Has(file, e) /\ Item(file, e).cand # NoCandidate
      BY <1>2, <1>3, CandidateAssumption DEF Same, Has
    <2>3. Num(e) = Item(file, e).base + 1
      BY <1>2, <2>2 DEF Disk, Numbered, Num
    <2> QED BY <2>1, <2>3 DEF Sent
  <1>6. flight'.step \in Busy => flight.step \in Busy /\ flight'.event = flight.event
    BY <1>1, <1>2, GotoBusy DEF Busy
  <1>7. \A q \in outbox' : q \in outbox \/ (q \in Proposals /\ Sent(q))
    BY <1>1, <1>4, <1>5
  <1> HIDE DEF p
  <1> QED BY <1>1, <1>2, <1>6, <1>7, AlikeLaws, QuietLog

\* A checkpoint changes the text of a draft only.
LEMMA CheckpointLog ==
  ASSUME LogInv, NEW k \in Keys, Checkpoint(k)
  PROVE  Ledger' /\ Still
  <1> DEFINE d == [turns[k] EXCEPT !.text = Captured(k), !.complete = Complete(k)]
  <1>1. /\ turns \in [Keys -> Turns] /\ file \in [Keys -> Turns]
        /\ TypeOK /\ Ledger
    BY DEF LogInv, IInv, SpoolInv, TypeOK
  <1>2. d.open = turns[k].open /\ d.items = turns[k].items
    BY <1>1 DEF Turns
  <1>3. Alike(d, turns[k])
    BY <1>2 DEF Alike, Same
  <1>4. /\ \E w : SaveTurn(k, d, w)
        /\ turns' = turns \/ turns' = [turns EXCEPT ![k] = d]
        /\ UNCHANGED <<phase, seq, heads, completed, flight, headsFile, completedFile, canon, outbox>>
        /\ phase # "down"
    BY DEF Checkpoint, life, karte
  <1> HIDE DEF d
  <1>5. \A j \in Keys : /\ file'[j] = file[j] \/ Alike(file'[j], turns[j])
                        /\ Alike(turns'[j], turns[j])
    BY <1>1, <1>3, <1>4, AlikeLaws DEF SaveTurn, Written
  <1> QED BY <1>1, <1>4, <1>5, QuietLog

\* Retry unblocks.
LEMMA RetryLog ==
  ASSUME LogInv, Retry
  PROVE  Ledger' /\ Still
  <1>1. turns \in [Keys -> Turns] /\ file \in [Keys -> Turns] /\ TypeOK /\ Ledger
    BY DEF LogInv, IInv, SpoolInv, TypeOK
  <1>2. \A k \in Keys : Alike(ResetItems(turns[k]), turns[k])
    BY <1>1, ResetItemsType DEF Alike, Same
  <1>3. \A k \in Keys : /\ turns'[k] \in {turns[k], ResetItems(turns[k])}
                        /\ file'[k] = file[k] \/ file'[k] = turns'[k]
    BY <1>1 DEF Retry, Written
  <1>4. /\ UNCHANGED <<phase, seq, heads, completed, flight, headsFile, completedFile, canon, outbox>>
        /\ phase # "down"
    BY DEF Retry, life, karte
  <1>5. \A k \in Keys : /\ file'[k] = file[k] \/ Alike(file'[k], turns[k])
                        /\ Alike(turns'[k], turns[k])
    BY <1>2, <1>3, AlikeLaws
  <1> QED BY <1>1, <1>4, <1>5, QuietLog

\* The choice saves the turn again and names the next event.
LEMMA DispatchLog ==
  ASSUME LogInv, NEW e \in Events, Dispatch(e)
  PROVE  Ledger' /\ Still
  <1>1. turns \in [Keys -> Turns] /\ file \in [Keys -> Turns] /\ TypeOK /\ Ledger
    BY DEF LogInv, IInv, SpoolInv, TypeOK
  <1>2. /\ \E w : SaveTurn(e[1], turns[e[1]], w)
        /\ UNCHANGED <<phase, turns, seq, heads, completed, headsFile, completedFile, canon, outbox>>
        /\ phase # "down" /\ Oldest(e)
    BY DEF Dispatch, life, karte, store
  <1>3. \A k \in Keys : file'[k] = file[k] \/ Alike(file'[k], turns[k])
    BY <1>1, <1>2, AlikeLaws, EventPair DEF SaveTurn, Written
  <1>4. Num(e) = heads[Conv(e)].seq + 1
    BY <1>1, <1>2, OldestIsNext
  <1>5. flight' = flight \/ flight' = [event |-> e, step |-> "prepare", code |-> "none"]
    BY DEF Dispatch
  <1>6. flight'.step \in Busy =>
          \/ flight.step \in Busy /\ flight'.event = flight.event
          \/ /\ flight'.event \in Events
             /\ Num(flight'.event) = heads[Conv(flight'.event)].seq + 1
    BY <1>4, <1>5
  <1> QED BY <1>1, <1>2, <1>3, <1>6, AlikeLaws, QuietLog

\* The end of a failed attempt is that its item is blocked or not.
LEMMA RecordFailureLog ==
  ASSUME LogInv, RecordFailure
  PROVE  Ledger' /\ Still
  <1> DEFINE e == flight.event
             i == [Item(turns, e) EXCEPT !.blocked = (flight.code # "offline")]
             t == SetItem(turns[e[1]], e[2], i)
  <1>1. /\ turns \in [Keys -> Turns] /\ file \in [Keys -> Turns] /\ TypeOK /\ Ledger
        /\ e \in Events /\ phase # "down"
    BY DEF RecordFailure, LogInv, IInv, SpoolInv, TypeOK, Wellformed
  <1>2. e[1] \in Keys /\ e[2] \in Kinds /\ Item(turns, e) \in Items
    BY <1>1, EventPair, LogTypes
  <1>3. i \in Items /\ Same(i, Item(turns, e))
    BY <1>2 DEF Items, Same
  <1> HIDE DEF i
  <1>4. Alike(t, turns[e[1]])
    <2>1. /\ t.open = turns[e[1]].open /\ t.items[e[2]] = i
          /\ \A x \in Kinds \ {e[2]} : t.items[x] = turns[e[1]].items[x]
      BY <1>1, <1>2, <1>3, SetItemType
    <2>2. Same(t.items[e[2]], turns[e[1]].items[e[2]])
      BY <1>3, <2>1 DEF Item
    <2>3. \A x \in Kinds \ {e[2]} : Same(t.items[x], turns[e[1]].items[x])
      BY <2>1 DEF Same
    <2> HIDE DEF t
    <2> QED BY <2>1, <2>2, <2>3 DEF Alike
  <1>5. /\ turns' = [turns EXCEPT ![e[1]] = t] /\ \E w : SaveTurn(e[1], t, w)
        /\ UNCHANGED <<phase, seq, heads, completed, headsFile, completedFile, canon, outbox>>
        /\ flight' = NoFlight
    BY DEF RecordFailure, t, i, life, karte
  <1> HIDE DEF t
  <1>6. \A k \in Keys : /\ file'[k] = file[k] \/ Alike(file'[k], turns[k])
                        /\ Alike(turns'[k], turns[k])
    BY <1>1, <1>2, <1>4, <1>5, AlikeLaws DEF SaveTurn, Written
  <1>7. flight'.step \notin Busy
    BY <1>5 DEF NoFlight, Busy
  <1> HIDE DEF e
  <1> QED BY <1>1, <1>5, <1>6, <1>7, QuietLog

\* Memory is lost, the files are not.
LEMMA CrashLog ==
  ASSUME LogInv, Crash \/ Exit \/ LoadFails
  PROVE  Ledger' /\ Still
  <1>1. /\ phase' = "down"
        /\ UNCHANGED <<file, headsFile, completedFile, canon, outbox>>
    BY DEF Crash, Exit, LoadFails, Gone, disk, karte
  <1>2. TypeOK /\ Ledger
    BY DEF LogInv, IInv, SpoolInv
  <1> QED BY <1>1, <1>2, QuietLog

-----------------------------------------------------------------------------
(* Preparing a proposal *)

\* It is built against the revision before the number of its event.
LEMMA PrepareLog ==
  ASSUME "late" \notin Faults, LogInv, Prepare
  PROVE  Ledger' /\ Still
  <1> DEFINE e == flight.event
             i == Item(turns, e)
  <1>1. /\ TypeOK /\ Ledger /\ Disk /\ Memory /\ phase # "down" /\ e \in Events
        /\ turns \in [Keys -> Turns] /\ file \in [Keys -> Turns] /\ Has(turns, e)
        /\ flight.step = "prepare" /\ flight.step \in Busy
    BY DEF Prepare, LogInv, IInv, SpoolInv, TypeOK, Wellformed, Ledger, Busy
  <1>2. e[1] \in Keys /\ e[2] \in Kinds /\ i \in Items /\ turns[e[1]] \in Turns
        /\ Conv(e) \in Convs /\ heads[Conv(e)].rev \in Nat
    BY <1>1, EventPair, LogTypes
  <1>3. /\ UNCHANGED <<phase, seq, heads, completed, headsFile, completedFile, canon, outbox>>
    BY DEF Prepare, life, karte
  <1>4. ASSUME turns' = turns, file' = file, NEW step, NEW code, Goto(step, code)
        PROVE  Ledger' /\ Still
    <2>1. flight'.step \in Busy => flight.step \in Busy /\ flight'.event = flight.event
      BY <1>1, <1>4, GotoBusy
    <2> HIDE DEF e
    <2> QED BY <1>1, <1>3, <1>4, <2>1, AlikeLaws, QuietLog
  <1>5. ASSUME NEW id \in Candidates, Goto("send", "none"),
               NEW t, t = SetItem(turns[e[1]], e[2],
                            [i EXCEPT !.cand = id, !.base = heads[Conv(e)].rev]),
               turns' = [turns EXCEPT ![e[1]] = t], file' = [file EXCEPT ![e[1]] = t]
        PROVE  Ledger' /\ Still
    <2> DEFINE j == [i EXCEPT !.cand = id, !.base = heads[Conv(e)].rev]
    <2>1. j \in Items /\ j.seq = i.seq /\ j.verified = i.verified
            /\ j.base = heads[Conv(e)].rev
      BY <1>2 DEF Items
    <2> HIDE DEF j
    <2>2. /\ t.open = turns[e[1]].open /\ t.items[e[2]] = j
          /\ \A x \in Kinds \ {e[2]} : t.items[x] = turns[e[1]].items[x]
      <3>1. t = SetItem(turns[e[1]], e[2], j)
        BY <1>5 DEF j
      <3> QED BY <1>2, <2>1, <3>1, SetItemType
    <2>3. \A f \in Events : Same(Item(turns, f), Item(file, f))
      BY <1>1, AlikeItems DEF Memory
    <2>4. ASSUME NEW f \in Events PROVE Kept(f)
      <3>1. f[1] \in Keys /\ f[2] \in Kinds
        BY EventPair
      <3>2. CASE f[1] # e[1]
        <4>1. Item(file, f)' = Item(file, f)
          BY <1>1, <1>5, <3>1, <3>2 DEF Item
        <4> QED BY <1>1, <4>1, SameKept DEF Same
      <3>3. CASE f[1] = e[1] /\ f[2] # e[2]
        <4>1. Item(file, f)' = Item(turns, f)
          BY <1>1, <1>2, <1>5, <2>2, <3>1, <3>3 DEF Item
        <4> QED BY <1>1, <2>3, <4>1, SameKept
      <3>4. CASE f[1] = e[1] /\ f[2] = e[2]
        <4>1. f = e
          BY <1>1, <3>4, EventPair
        <4>2. Item(file, f)' = j
          BY <1>1, <1>2, <1>5, <2>2, <3>4 DEF Item
        <4>3. j.seq = Num(e) /\ (Has(file, e) => j.verified = Item(file, e).verified)
          BY <1>1, <2>1, <2>3 DEF Same, Num, Has
        <4>4. j.seq = j.base + 1
          BY <1>1, <1>2, <2>1, <4>3 DEF Memory, HeadOK
        <4> QED BY <4>1, <4>2, <4>3, <4>4 DEF Kept
      <3> QED BY <3>2, <3>3, <3>4
    <2>5. t.open = file[e[1]].open
      BY <1>1, <1>2, <2>2 DEF Memory, Alike
    <2>6. Disk' /\ Still
      <3>1. \A k \in completedFile' : ~file'[k].open
        BY <1>1, <1>2, <1>3, <1>5, <2>5 DEF Disk, TypeOK
      <3> QED BY <1>1, <1>3, <2>4, <3>1, DiskFrame
    <2>7. Memory'
      <3>1. \A k \in Keys : Alike(turns'[k], file'[k])
        BY <1>1, <1>2, <1>5, AlikeLaws DEF Memory
      <3>2. \A k \in completed' : ~turns'[k].open
        BY <1>1, <1>2, <1>3, <1>5, <2>2 DEF Memory, TypeOK
      <3>3. flight'.event = e
        BY <1>1, <1>5, GotoBusy
      <3>4. flight'.event \in Events
              /\ Num(flight'.event) = heads[Conv(flight'.event)].seq + 1
        BY <1>1, <3>3 DEF Memory
      <3>5. completedFile' \subseteq completed'
        BY <1>1, <1>3 DEF Memory
      <3> QED BY <1>1, <1>3, <2>4, <3>1, <3>2, <3>4, <3>5, MemoryFrame
    <2> QED BY <2>6, <2>7 DEF Ledger
  <1>6. \/ UNCHANGED <<turns, file>> /\ Goto("send", "none")
        \/ \E id \in Candidates, w \in {"ok"} \cup Faults : \E t :
             /\ t = SetItem(turns[e[1]], e[2],
                      [i EXCEPT !.cand = id, !.base = heads[Conv(e)].rev])
             /\ SaveTurn(e[1], t, w)
             /\ \/ w = "ok" /\ turns' = [turns EXCEPT ![e[1]] = t] /\ Goto("send", "none")
                \/ w # "ok" /\ UNCHANGED turns /\ Goto("failed", "storage")
    BY DEF Prepare
  <1>7. ASSUME NEW id \in Candidates, NEW w \in {"ok"} \cup Faults, NEW t,
               t = SetItem(turns[e[1]], e[2],
                     [i EXCEPT !.cand = id, !.base = heads[Conv(e)].rev]),
               SaveTurn(e[1], t, w),
               \/ w = "ok" /\ turns' = [turns EXCEPT ![e[1]] = t] /\ Goto("send", "none")
               \/ w # "ok" /\ UNCHANGED turns /\ Goto("failed", "storage")
        PROVE  Ledger' /\ Still
    <2>1. CASE w = "ok"
      <3>1. file' = [file EXCEPT ![e[1]] = t]
        BY <1>7, <2>1 DEF SaveTurn, Written
      <3> QED BY <1>5, <1>7, <2>1, <3>1
    <2>2. CASE w # "ok"
      <3>1. file' = file
        BY <1>1, <1>2, <1>7, <2>2, EarlyOnly DEF SaveTurn
      <3> QED BY <1>4, <1>7, <2>2, <3>1
    <2> QED BY <2>1, <2>2
  <1> HIDE DEF e
  <1> QED BY <1>4, <1>6, <1>7

-----------------------------------------------------------------------------
(* A new number *)

\* A step that makes an event the last entry of its log.
Accepts ==
  /\ UNCHANGED canon
  /\ \E d \in Convs : \E f \in Of(d) : \E t \in Nat :
       /\ Gapless(d, t) /\ NewEntry(d, t + 1, f)
       /\ \A n \in Nat \ {0} : ~Entry(d, n, f)
       /\ \A c \in Convs \ {d} : SameEntries(c)

\* Turn k gets its event of kind kd, with the next number, on disk and in
\* memory.
LEMMA AddEntry ==
  ASSUME TypeOK, Ledger, phase # "down", NEW k \in Keys, NEW kd \in Kinds,
         k \notin completed, turns[k].items[kd].seq = 0,
         NEW t, t.items[kd] = NewItem(seq[ConvOf[k]] + 1),
         \A x \in Kinds \ {kd} : Same(t.items[x], turns[k].items[x]),
         file' = [file EXCEPT ![k] = t], turns' = [turns EXCEPT ![k] = t],
         seq' = [seq EXCEPT ![ConvOf[k]] = seq[ConvOf[k]] + 1],
         UNCHANGED <<phase, heads, completed, flight, headsFile, completedFile,
                     canon, outbox>>
  PROVE  Ledger' /\ Accepts
  <1> DEFINE e == <<k, kd>>
             c == ConvOf[k]
             m == seq[c] + 1
  <1>1. /\ Disk /\ Memory /\ e \in Events /\ Conv(e) = c /\ c \in Convs
        /\ seq[c] \in Nat /\ m \in Nat /\ m > 0
        /\ turns \in [Keys -> Turns] /\ file \in [Keys -> Turns]
        /\ seq \in [Convs -> Nat]
    BY ConvOfAssumption, LogTypes DEF Ledger, Events, Conv, TypeOK
  <1>2. \A f \in Events : Same(Item(turns, f), Item(file, f))
    BY <1>1, AlikeItems DEF Memory
  <1>3. ~Has(file, e) /\ Num(e) = 0
    BY <1>1, <1>2 DEF Same, Has, Num, Item
  <1>4. /\ NewItem(m).seq = m /\ ~NewItem(m).verified
        /\ NewItem(m).cand = NoCandidate
    BY <1>1, NewItemType DEF NewItem, NoItem
  <1>5. Item(file, e)' = NewItem(m)
    BY <1>1 DEF Item
  <1>6. ASSUME NEW f \in Events, f # e
        PROVE  Same(Item(file, f)', Item(file, f))
    <2>1. f[1] \in Keys /\ f[2] \in Kinds /\ f = <<f[1], f[2]>>
      BY EventPair
    <2>2. CASE f[1] # k
      <3>1. Item(file, f)' = Item(file, f)
        BY <1>1, <2>1, <2>2 DEF Item
      <3> QED BY <3>1 DEF Same
    <2>3. CASE f[1] = k
      <3>1. f[2] # kd
        BY <1>6, <2>1, <2>3
      <3>2. Item(file, f)' = t.items[f[2]]
        BY <1>1, <2>3 DEF Item
      <3>3. Same(t.items[f[2]], Item(turns, f))
        BY <2>1, <2>3, <3>1 DEF Item
      <3> QED BY <1>2, <3>2, <3>3 DEF Same
    <2> QED BY <2>2, <2>3
  <1>7. /\ Num(e)' = m /\ Has(file, e)' /\ ~Item(file, e)'.verified
        /\ Item(file, e)'.cand = NoCandidate /\ Item(file, e)'.seq = m
    BY <1>1, <1>4, <1>5 DEF Num, Has
  <1>8. \A f \in Events : f # e =>
          /\ Num(f)' = Num(f) /\ Has(file, f)' = Has(file, f)
          /\ Item(file, f)'.seq = Item(file, f).seq
          /\ Has(file, f) => /\ Item(file, f)'.cand = Item(file, f).cand
                             /\ Item(file, f)'.base = Item(file, f).base
                             /\ Item(file, f)'.verified = Item(file, f).verified
    BY <1>6 DEF Same, Num, Has
  <1>9. /\ Gapless(c, seq[c]) /\ Len(canon[c]) \in Nat /\ Len(canon[c]) < m
        /\ headsFile[c].seq < m /\ heads[c].seq < m
        /\ \A f \in Of(c) : Num(f) \in Nat /\ Num(f) < m
    <2>1. Gapless(c, seq[c]) /\ HeadOK(heads[c], c) /\ headsFile[c].seq =< heads[c].seq
      BY <1>1 DEF Memory
    <2>2. /\ Len(canon[c]) \in Nat /\ heads[c].seq \in Nat /\ headsFile[c].seq \in Nat
          /\ \A f \in Of(c) : Num(f) \in Nat
      BY <1>1, LogTypes DEF Of
    <2> QED BY <1>1, <2>1, <2>2 DEF Gapless, HeadOK
  <1>10. \A d \in Convs : \A n \in 1..Len(canon[d]) : canon[d][n].event # e
    <2> SUFFICES ASSUME NEW d \in Convs, NEW n \in 1..Len(canon[d]), canon[d][n].event = e
                 PROVE  FALSE
      OBVIOUS
    <2>1. Placed(d)
      BY <1>1 DEF Disk
    <2>2. e[1] \in completedFile
      BY <1>3, <2>1 DEF Placed
    <2> QED BY <1>1, <2>2 DEF Memory
  <1>11. \A d : Of(d) \subseteq Events /\ Of(d)' = Of(d)
           /\ \A f : f \in Of(d) <=> f \in Events /\ Conv(f) = d
    BY DEF Of, Conv, Events
  <1> HIDE DEF e, m
  <1>12. ASSUME NEW d \in Convs PROVE Gapless(d, seq[d])'
    <2>1. Gapless(d, seq[d])
      BY <1>1 DEF Memory
    <2>2. CASE d # c
      <3>1. \A f \in Of(d) : f # e
        BY <1>1, <1>11, <2>2
      <3>2. seq'[d] = seq[d] /\ canon' = canon /\ \A f \in Of(d) : Num(f)' = Num(f)
        BY <1>1, <1>8, <1>11, <2>2, <3>1
      <3>3. Of(d)' = Of(d)
        BY <1>11
      <3> QED BY <2>1, <3>2, <3>3 DEF Gapless
    <2>3. CASE d = c
      <3>1. seq'[d] = m
        BY <1>1, <2>3 DEF m
      <3>2. \A f \in Of(d) : Num(f)' = IF f = e THEN m ELSE Num(f)
        BY <1>7, <1>8, <1>11, <2>3
      <3>3. \A f \in Of(d) : Num(f)' =< m
        BY <1>1, <1>9, <2>3, <3>2
      <3>4. ASSUME NEW n \in (Len(canon[d]) + 1)..m
            PROVE  \E f \in Of(d) : Num(f)' = n
        <4>1. CASE n = m
          BY <1>1, <1>7, <1>11, <2>3, <4>1
        <4>2. CASE n # m
          <5>1. n \in (Len(canon[d]) + 1)..seq[d] /\ n > 0
            BY <1>1, <1>9, <2>3, <3>4, <4>2 DEF m
          <5>2. PICK f \in Of(d) : Num(f) = n
            BY <2>1, <5>1 DEF Gapless
          <5> QED BY <1>3, <3>2, <5>1, <5>2
        <4> QED BY <4>1, <4>2
      <3>5. Len(canon'[d]) =< m /\ m \in Nat
        BY <1>1, <1>9, <2>3
      <3> QED BY <1>11, <3>1, <3>3, <3>4, <3>5 DEF Gapless
    <2> QED BY <2>2, <2>3
  <1>13. ASSUME NEW d \in Convs PROVE Placed(d)'
    <2>1. \A n \in 1..Len(canon[d]) : canon[d][n].event \in Events \ {e}
      BY <1>10, LogTypes
    <2>2. Placed(d) /\ UNCHANGED <<canon, headsFile, completedFile>>
      BY <1>1 DEF Disk
    <2>3. \A n \in 1..Len(canon[d]) : LET f == canon[d][n].event IN
            Num(f)' = Num(f) /\ Has(file, f)' = Has(file, f) /\ Conv(f)' = Conv(f)
      BY <1>8, <2>1 DEF Conv
    <2> QED BY <2>2, <2>3 DEF Placed
  <1>14. ASSUME NEW f \in Events PROVE Numbered(f)'
    <2>1. Of(Conv(f))' = Of(Conv(f)) /\ Conv(f)' = Conv(f)
      BY DEF Of, Conv
    <2>2. CASE f = e
      <3>1. \A g \in Of(c) : g \in Events /\ (g = e \/ Num(g)' < m)
        BY <1>8, <1>9, <1>11
      <3>2. \A g \in Of(c) : Num(g)' \in Nat
        BY <1>1, <1>7, <1>8, <1>9, <1>11
      <3>3. \A g \in Of(c) : (Num(g)' = m => g = e) /\ (g = e \/ Num(g)' < m)
        BY <1>1, <3>1, <3>2
      <3>4. Of(Conv(e))' = Of(c) /\ headsFile'[Conv(e)'].seq < m /\ ~Item(file, e)'.verified
            /\ Item(file, e)'.cand = NoCandidate /\ Item(file, e)'.seq = m
        BY <1>1, <1>7, <1>9, <2>1, <2>2
      <3>5. \A g \in Of(Conv(e))' : Has(file, g)' =>
              /\ Num(g)' = Item(file, e)'.seq => g = e
              /\ Item(file, e)'.verified \/ ~Item(file, g)'.verified
                   \/ Num(g)' < Item(file, e)'.seq
        BY <3>3, <3>4
      <3>6. Numbered(e)'
        BY <3>4, <3>5 DEF Numbered
      <3> QED BY <2>2, <3>6
    <2>3. CASE f # e /\ Has(file, f)
      <3>1. Numbered(f) /\ Has(file, f)
        BY <1>1, <2>3 DEF Disk
      <3>2. \A g \in Of(Conv(f)) : g # e =>
              /\ Has(file, g)' = Has(file, g) /\ Num(g)' = Num(g)
              /\ Has(file, g) => Item(file, g)'.verified = Item(file, g).verified
        BY <1>8, <1>11
      <3>3. e \in Of(Conv(f)) => Item(file, f).seq # m
        BY <1>1, <1>9, <1>11, <2>3 DEF Num
      <3> QED BY <1>7, <1>8, <2>1, <2>3, <3>1, <3>2, <3>3 DEF Numbered
    <2>4. CASE f # e /\ ~Has(file, f)
      <3>1. ~Has(file, f)'
        BY <1>8, <2>4
      <3> QED BY <3>1 DEF Numbered
    <2> QED BY <2>2, <2>3, <2>4
  <1>15. \A p \in outbox : Sent(p)'
    <2>1. \A p \in outbox : /\ p \in Proposals /\ Sent(p) /\ p.event \in Events
                            /\ p.base \in Nat /\ Conv(p.event) \in Convs
      BY <1>1, LogTypes DEF Disk, TypeOK, Proposals
    <2>2. \A p \in outbox : p.seq > 0 /\ p.seq \in Nat
      BY <2>1 DEF Sent
    <2>3. \A p \in outbox : p.event = e =>
            p.seq =< Len(canon[Conv(p.event)]) /\ canon[Conv(p.event)][p.seq].event = e
      BY <1>3, <2>1, <2>2 DEF Sent
    <2>4. \A p \in outbox : p.event # e
      <3> SUFFICES ASSUME NEW p \in outbox, p.event = e PROVE FALSE
        OBVIOUS
      <3>1. p.seq \in 1..Len(canon[c]) /\ canon[c][p.seq].event = e
        BY <1>1, <1>9, <2>2, <2>3
      <3> QED BY <1>1, <1>10, <3>1
    <2> QED BY <1>8, <2>1, <2>4 DEF Sent
  <1>16. Disk'
    <2>1. \A d \in Convs : HeadOK(headsFile[d], d)'
      BY <1>1 DEF Disk, HeadOK
    <2>2. \A d \in Convs : \E n \in Nat : Gapless(d, n)'
      BY <1>12 DEF Gapless
    <2>3. \A j \in completedFile' : ~file'[j].open
      <3>1. completedFile \subseteq Keys \ {k}
        BY <1>1 DEF Memory, TypeOK
      <3> QED BY <1>1, <3>1 DEF Disk
    <2>4. \A p \in outbox' : Sent(p)'
      BY <1>15
    <2> QED BY <1>13, <1>14, <2>1, <2>2, <2>3, <2>4 DEF Disk
  <1>17. Memory'
    <2>1. \A j \in Keys : Alike(turns'[j], file'[j])
      BY <1>1, AlikeLaws DEF Memory
    <2>2. completedFile' \subseteq completed' /\ \A j \in completed' : ~turns'[j].open
      <3>1. completed \subseteq Keys \ {k}
        BY DEF TypeOK
      <3> QED BY <1>1, <3>1 DEF Memory
    <2>3. \A d \in Convs : HeadOK(heads[d], d)' /\ headsFile'[d].seq =< heads'[d].seq
      BY <1>1 DEF Memory, HeadOK
    <2>4. phase' = "loading" => headsFile' = heads'
      BY <1>1 DEF Memory
    <2>5. ASSUME NEW f \in Events, Has(file, f)'
          PROVE  (Item(file, f).verified <=> Num(f) =< heads[Conv(f)].seq)'
      <3>1. CASE f = e
        BY <1>1, <1>7, <1>9, <3>1, LogTypes
      <3>2. CASE f # e
        BY <1>1, <1>8, <2>5, <3>2 DEF Memory
      <3> QED BY <3>1, <3>2
    <2>6. (flight.step \in Busy => Num(flight.event) = heads[Conv(flight.event)].seq + 1)'
      <3> SUFFICES ASSUME flight.step \in Busy
                   PROVE  Num(flight.event)' = heads[Conv(flight.event)].seq + 1
        BY DEF Busy
      <3>1. flight.event \in Events /\ Num(flight.event) = heads[Conv(flight.event)].seq + 1
        BY <1>1 DEF Memory, TypeOK, Busy
      <3>2. flight.event # e
        BY <1>3, <3>1, LogTypes
      <3> QED BY <1>8, <3>1, <3>2
    <2> QED BY <1>12, <2>1, <2>2, <2>3, <2>4, <2>5, <2>6 DEF Memory
  <1>18. Accepts
    <2>1. \A n \in Nat \ {0} : ~Entry(c, n, e)
      BY <1>1, <1>3, <1>9, <1>10 DEF Entry
    <2>2. NewEntry(c, seq[c] + 1, e)
      <3> SUFFICES ASSUME NEW n \in Nat \ {0}, NEW f \in Events
                   PROVE  Entry(c, n, f)' <=> Entry(c, n, f) \/ (n = m /\ f = e)
        BY DEF NewEntry, m
      <3>1. CASE n =< Len(canon[c])
        BY <1>1, <1>9, <3>1 DEF Entry
      <3>2. CASE n > Len(canon[c])
        <4>1. Entry(c, n, f) <=> Conv(f) = c /\ Num(f) = n
          BY <1>9, <3>2 DEF Entry
        <4>2. Entry(c, n, f)' <=> Conv(f) = c /\ Num(f)' = n
          BY <1>1, <1>9, <3>2 DEF Entry, Conv
        <4> QED BY <1>1, <1>3, <1>7, <1>8, <4>1, <4>2
      <3> QED BY <1>9, <3>1, <3>2
    <2>3. ASSUME NEW d \in Convs \ {c} PROVE SameEntries(d)
      BY <1>1, <1>8, <2>3 DEF SameEntries, Entry, Conv
    <2>4. e \in Of(c)
      BY <1>1, <1>11
    <2> HIDE DEF c
    <2> QED BY <1>1, <1>9, <2>1, <2>2, <2>3, <2>4 DEF Accepts
  <1> QED BY <1>16, <1>17, <1>18 DEF Ledger

-----------------------------------------------------------------------------
(* Turns that begin and end *)

\* A write that failed early changed nothing.
LEMMA FailedWrite ==
  ASSUME "late" \notin Faults, TypeOK, NEW k \in Keys, NEW t,
         NEW w \in {"ok"} \cup Faults, w # "ok", SaveTurn(k, t, w)
  PROVE  file' = file
  <1>1. Written(file[k], t, w) = file[k] /\ file \in [Keys -> Turns]
    BY EarlyOnly DEF TypeOK
  <1> QED BY <1>1 DEF SaveTurn

\* A turn without an event makes no entry.
LEMMA EmptyTurn ==
  ASSUME TypeOK, Ledger, phase = "up", NEW k \in Keys, ~Known(k),
         NEW t, \A kd \in Kinds : t.items[kd].seq = 0,
         file' = [file EXCEPT ![k] = t], turns' = [turns EXCEPT ![k] = t],
         UNCHANGED <<phase, seq, heads, completed, flight, headsFile,
                     completedFile, canon, outbox>>
  PROVE  Ledger' /\ Still
  <1>1. /\ Disk /\ Memory /\ k \notin completed
        /\ \A kd \in Kinds : ~(turns[k].items[kd].seq > 0)
        /\ turns \in [Keys -> Turns] /\ file \in [Keys -> Turns]
        /\ completed \subseteq Keys \ {k} /\ completedFile \subseteq Keys \ {k}
    BY DEF Ledger, Known, Present, Memory, TypeOK
  <1>2. ASSUME NEW e \in Events PROVE Kept(e)
    <2>1. e[1] \in Keys /\ e[2] \in Kinds
      BY EventPair
    <2>2. CASE e[1] # k
      <3>1. Item(file, e)' = Item(file, e)
        BY <1>1, <2>1, <2>2 DEF Item
      <3> QED BY <1>1, <3>1, SameKept DEF Same
    <2>3. CASE e[1] = k
      <3>1. Item(file, e)' = t.items[e[2]] /\ ~(Item(turns, e).seq > 0)
        BY <1>1, <2>1, <2>3 DEF Item
      <3>2. Same(Item(turns, e), Item(file, e)) /\ Item(turns, e).seq \in Nat
        BY <1>1, AlikeItems, LogTypes DEF Memory
      <3>3. Item(file, e)'.seq = 0 /\ Item(file, e).seq = 0
        BY <2>1, <3>1, <3>2 DEF Same
      <3> QED BY <3>3 DEF Kept, Num, Has
    <2> QED BY <2>2, <2>3
  <1>3. Disk' /\ Still
    <2>1. \A j \in completedFile' : ~file'[j].open
      BY <1>1 DEF Disk
    <2> QED BY <1>1, <1>2, <2>1, DiskFrame
  <1>4. Memory'
    <2>1. \A j \in Keys : Alike(turns'[j], file'[j])
      BY <1>1, AlikeLaws DEF Memory
    <2>2. \A j \in completed' : ~turns'[j].open
      BY <1>1 DEF Memory
    <2>3. completedFile' \subseteq completed'
      BY <1>1 DEF Memory
    <2>4. flight'.step \in Busy =>
            /\ flight'.event \in Events
            /\ Num(flight'.event) = heads[Conv(flight'.event)].seq + 1
      BY <1>1 DEF Memory, TypeOK, Busy
    <2> QED BY <1>1, <1>2, <2>1, <2>2, <2>3, <2>4, MemoryFrame
  <1> QED BY <1>3, <1>4 DEF Ledger

\* A turn enters the spool, with its user event or without.
LEMMA StartTurnLog ==
  ASSUME "late" \notin Faults, LogInv, phase = "up", NEW k \in Keys, ~Known(k),
         NEW s, NEW n \in {0, seq[ConvOf[k]] + 1}, NEW w \in {"ok"} \cup Faults,
         StartTurn(k, s, n, w)
  PROVE  Ledger' /\ (Still \/ Accepts)
  <1> DEFINE draft == [NoTurn EXCEPT !.open = TRUE, !.skip = s]
             t == IF n = 0 THEN draft ELSE SetItem(draft, "user_final", NewItem(n))
  <1>1. /\ TypeOK /\ Ledger /\ turns \in [Keys -> Turns]
        /\ k \notin completed /\ \A kd \in Kinds : ~(turns[k].items[kd].seq > 0)
        /\ ConvOf[k] \in Convs /\ seq[ConvOf[k]] \in Nat
    BY ConvOfAssumption DEF LogInv, IInv, SpoolInv, Known, Present, TypeOK
  <1>2. draft.items = NoTurn.items
    BY DEF NoTurn
  <1>3. \A kd \in Kinds : turns[k].items[kd].seq = 0 /\ NoTurn.items[kd] = NoItem
    BY <1>1 DEF NoTurn, Turns, Items
  <1>4. /\ SaveTurn(k, t, w)
        /\ UNCHANGED <<phase, heads, completed, flight, headsFile, completedFile,
                       canon, outbox>>
        /\ IF w = "ok"
             THEN /\ turns' = [turns EXCEPT ![k] = t]
                  /\ seq' = IF n = 0 THEN seq ELSE [seq EXCEPT ![ConvOf[k]] = n]
             ELSE UNCHANGED <<turns, seq>>
    BY DEF StartTurn, life, karte
  <1>5. CASE w # "ok"
    <2>1. file' = file
      BY <1>1, <1>4, <1>5, FailedWrite
    <2> QED BY <1>1, <1>4, <1>5, <2>1, AlikeLaws, QuietLog
  <1>6. CASE w = "ok" /\ n = 0
    <2>1. t.items = NoTurn.items
      BY <1>2, <1>6
    <2>2. \A kd \in Kinds : t.items[kd].seq = 0
      BY <1>3, <2>1 DEF NoItem
    <2> HIDE DEF t
    <2>3. file' = [file EXCEPT ![k] = t]
      BY <1>4, <1>6 DEF SaveTurn, Written
    <2> QED BY <1>1, <1>4, <1>6, <2>2, <2>3, EmptyTurn
  <1>7. CASE w = "ok" /\ n # 0
    <2>1. n = seq[ConvOf[k]] + 1 /\ t = SetItem(draft, "user_final", NewItem(n))
      BY <1>7
    <2>2. t.items = [NoTurn.items EXCEPT !["user_final"] = NewItem(n)]
      BY <1>2, <2>1 DEF SetItem, NoTurn
    <2>3. /\ "user_final" \in Kinds /\ t.items["user_final"] = NewItem(n)
          /\ \A x \in Kinds \ {"user_final"} : t.items[x] = NoItem
      BY <1>3, <2>2 DEF NoTurn, Kinds
    <2> HIDE DEF t
    <2>4. \A x \in Kinds \ {"user_final"} : Same(t.items[x], turns[k].items[x])
      BY <1>3, <2>3 DEF Same, NoItem
    <2>5. file' = [file EXCEPT ![k] = t]
      BY <1>4, <1>7 DEF SaveTurn, Written
    <2>6. turns' = [turns EXCEPT ![k] = t]
          /\ seq' = [seq EXCEPT ![ConvOf[k]] = seq[ConvOf[k]] + 1]
      BY <1>4, <1>7, <2>1
    <2> QED BY <1>1, <1>3, <1>4, <2>1, <2>3, <2>4, <2>5, <2>6, AddEntry
  <1> QED BY <1>5, <1>6, <1>7

\* Begin, BeginCandidate and BeginContinuation.
LEMMA BeginLog ==
  ASSUME "late" \notin Faults, LogInv, NEW k \in Keys,
         \/ Begin(k) \/ BeginCandidate(k)
         \/ \E orig \in Keys : BeginContinuation(k, orig)
  PROVE  Ledger' /\ (Still \/ Accepts)
  <1>1. /\ phase = "up" /\ ~Known(k)
        /\ \E s : \E n \in {0, seq[ConvOf[k]] + 1}, w \in {"ok"} \cup Faults :
             StartTurn(k, s, n, w)
    <2>1. CASE Begin(k)
      BY <2>1 DEF Begin
    <2>2. CASE BeginCandidate(k)
      BY <2>2 DEF BeginCandidate
    <2>3. CASE \E orig \in Keys : BeginContinuation(k, orig)
      BY <2>3 DEF BeginContinuation
    <2> QED BY <2>1, <2>2, <2>3
  <1> QED BY <1>1, StartTurnLog

\* Closing a draft: the result gets the next number.
LEMMA ClosedLog ==
  ASSUME LogInv, phase # "down", NEW k \in Keys, turns[k].open, NEW b \in BOOLEAN,
         NEW t, t = Closed(turns[k], seq[ConvOf[k]] + 1, b),
         file' = [file EXCEPT ![k] = t], turns' = [turns EXCEPT ![k] = t],
         seq' = [seq EXCEPT ![ConvOf[k]] = seq[ConvOf[k]] + 1],
         UNCHANGED <<phase, heads, completed, flight, headsFile, completedFile,
                     canon, outbox>>
  PROVE  Ledger' /\ Accepts
  <1>1. /\ TypeOK /\ Ledger /\ turns[k] \in Turns
        /\ ConvOf[k] \in Convs /\ seq[ConvOf[k]] + 1 \in Nat
        /\ turns[k].items["assistant_result"].seq = 0
        /\ k \notin completed
    <2>1. TypeOK /\ Wellformed /\ Ledger /\ Memory
      BY DEF LogInv, IInv, SpoolInv, Ledger
    <2>2. turns[k] \in Turns /\ turns[k].items["assistant_result"].seq = 0
      BY <2>1 DEF Wellformed, TypeOK
    <2>3. k \notin completed
      BY <2>1 DEF Memory
    <2>4. ConvOf[k] \in Convs /\ seq[ConvOf[k]] + 1 \in Nat
      BY <2>1, ConvOfAssumption DEF TypeOK
    <2> QED BY <2>1, <2>2, <2>3, <2>4
  <1>2. /\ "assistant_result" \in Kinds
        /\ t.items["assistant_result"] = NewItem(seq[ConvOf[k]] + 1)
        /\ \A x \in Kinds \ {"assistant_result"} : t.items[x] = turns[k].items[x]
    BY <1>1, ClosedType DEF Kinds
  <1>3. \A x \in Kinds \ {"assistant_result"} : Same(t.items[x], turns[k].items[x])
    BY <1>2 DEF Same
  <1> QED BY <1>1, <1>2, <1>3, AddEntry

\* Finish, and the end of an interrupted turn in New().
LEMMA FinishLog ==
  ASSUME "late" \notin Faults, LogInv, NEW k \in Keys, Finish(k) \/ RecoverDraft(k)
  PROVE  Ledger' /\ (Still \/ Accepts)
  <1>1. TypeOK /\ Ledger /\ turns[k] \in Turns /\ phase # "down" /\ turns[k].open
    BY DEF LogInv, IInv, SpoolInv, TypeOK, Finish, RecoverDraft
  <1>2. PICK b \in BOOLEAN, w \in {"ok"} \cup Faults : \E t :
          /\ t = Closed(turns[k], seq[ConvOf[k]] + 1, b)
          /\ SaveTurn(k, t, w)
          /\ UNCHANGED <<headsFile, completedFile, canon, outbox>>
          /\ \/ /\ w = "ok" /\ turns' = [turns EXCEPT ![k] = t]
                /\ seq' = [seq EXCEPT ![ConvOf[k]] = seq[ConvOf[k]] + 1]
                /\ UNCHANGED <<phase, heads, completed, flight>>
             \/ /\ w # "ok"
                /\ \/ UNCHANGED <<phase, turns, seq, heads, completed, flight>>
                   \/ phase' = "down"
    <2>1. CASE Finish(k)
      <3>1. Complete(k) \in BOOLEAN
        BY DEF Complete
      <3> QED BY <2>1, <3>1 DEF Finish, life, karte
    <2>2. CASE RecoverDraft(k)
      <3>1. turns[k].complete \in BOOLEAN
        BY <1>1 DEF Turns
      <3> QED BY <2>2, <3>1 DEF RecoverDraft, karte, Gone
    <2> QED BY <2>1, <2>2
  <1>3. CASE w = "ok"
    <2> DEFINE t == Closed(turns[k], seq[ConvOf[k]] + 1, b)
    <2>1. file' = [file EXCEPT ![k] = t]
      BY <1>2, <1>3 DEF SaveTurn, Written
    <2> QED BY <1>1, <1>2, <1>3, <2>1, ClosedLog
  <1>4. CASE w # "ok"
    <2>1. file' = file
      BY <1>1, <1>2, <1>4, FailedWrite
    <2> QED BY <1>1, <1>2, <1>4, <2>1, AlikeLaws, QuietLog
  <1> QED BY <1>3, <1>4

-----------------------------------------------------------------------------
(* Delivered events leave the files *)

\* The number of a canonical event that is still in its file is its place in
\* Karte's record.
LEMMA CanonicalPlace ==
  ASSUME TypeOK, Disk, NEW e \in Events, Canonical(e), Has(file, e)
  PROVE  Num(e) \in 1..Len(canon[Conv(e)]) /\ canon[Conv(e)][Num(e)].event = e
  <1>1. PICK i \in 1..Len(canon[Conv(e)]) : canon[Conv(e)][i].event = e
    BY DEF Canonical
  <1>2. Placed(Conv(e))
    BY LogTypes DEF Disk
  <1>3. Num(e) = i
    BY <1>1, <1>2 DEF Placed
  <1> QED BY <1>1, <1>3

\* An event leaves its file without a trace but that its turn is completed and
\* the saved head covers its number.
Left(e) == /\ Canonical(e) /\ Num(e)' = 0
           /\ e[1] \in completedFile' /\ Num(e) =< headsFile'[Conv(e)].seq

\* Files that lose only such events, with heads and marks that agree.
LEMMA DiskMove ==
  ASSUME TypeOK, Disk, UNCHANGED <<canon, outbox>>,
         \A e \in Events : Num(e)' = Num(e) \/ (Has(file, e) /\ Left(e)),
         \A c \in Convs : /\ HeadOK(headsFile'[c], c) /\ headsFile'[c].seq \in Nat
                          /\ headsFile[c].seq =< headsFile'[c].seq,
         completedFile \subseteq completedFile',
         \A k \in completedFile' : ~file'[k].open,
         NEW b \in [Convs -> Nat],
         \A c \in Convs : headsFile'[c].seq =< b[c],
         \A e \in Events : Has(file, e)' => LET d == Item(file, e)' IN
           /\ d.cand # NoCandidate \/ d.verified => d.seq = d.base + 1
           /\ d.verified <=> Num(e) =< b[Conv(e)]
  PROVE  /\ Disk' /\ Still
         /\ \A c \in Convs : \A t \in Nat : Gapless(c, t) => Gapless(c, t)'
  <1>1. /\ \A e \in Events : /\ Num(e) \in Nat /\ Conv(e) \in Convs
                             /\ Has(file, e) <=> Num(e) > 0
                             /\ Has(file, e)' <=> Num(e)' > 0
                             /\ Item(file, e)'.seq = Num(e)'
        /\ \A c \in Convs : /\ Len(canon[c]) \in Nat /\ headsFile[c].seq \in Nat
                            /\ \A n \in 1..Len(canon[c]) : canon[c][n].event \in Events
    BY LogTypes DEF Has, Num
  <1>2. \A e \in Events : Num(e)' # Num(e) =>
          /\ Num(e) \in 1..Len(canon[Conv(e)]) /\ canon[Conv(e)][Num(e)].event = e
          /\ Num(e)' = 0 /\ e[1] \in completedFile' /\ Num(e) =< headsFile'[Conv(e)].seq
    BY CanonicalPlace DEF Left
  <1>3. \A c : Of(c) \subseteq Events /\ Of(c)' = Of(c)
                /\ \A e \in Of(c) : Conv(e) = c
    BY DEF Of, Conv, Events
  <1>4. ASSUME NEW c \in Convs PROVE Placed(c)'
    <2>1. Placed(c)
      BY DEF Disk
    <2>2. ASSUME NEW n \in 1..Len(canon[c]), NEW e, e = canon[c][n].event
          PROVE  /\ Conv(e)' = c
                 /\ Has(file, e)' => Num(e)' = n
                 /\ Has(file, e)' \/ (e[1] \in completedFile' /\ n =< headsFile'[c].seq)
      <3>1. /\ e \in Events /\ Conv(e) = c /\ (Has(file, e) => Num(e) = n)
            /\ Has(file, e) \/ (e[1] \in completedFile /\ n =< headsFile[c].seq)
        BY <1>1, <2>1, <2>2 DEF Placed
      <3>2. CASE Num(e)' = Num(e)
        <4>1. Has(file, e)' <=> Has(file, e)
          BY <1>1, <3>1, <3>2
        <4>2. n =< headsFile[c].seq => n =< headsFile'[c].seq
          BY <1>1
        <4> QED BY <3>1, <3>2, <4>1, <4>2 DEF Conv
      <3>3. CASE Num(e)' # Num(e)
        <4>1. Has(file, e) /\ ~Has(file, e)'
          BY <1>1, <1>2, <3>1, <3>3
        <4> QED BY <1>2, <3>1, <3>3, <4>1 DEF Conv
      <3> QED BY <3>2, <3>3
    <2>3. canon' = canon /\ \A n \in 1..Len(canon[c]) : \A m \in 1..Len(canon[c]) :
            canon[c][m].event = canon[c][n].event => m = n
      BY <2>1 DEF Placed
    <2> QED BY <2>2, <2>3 DEF Placed
  <1>5. ASSUME NEW c \in Convs, NEW t \in Nat, Gapless(c, t) PROVE Gapless(c, t)'
    <2>1. \A e \in Of(c) : Num(e)' =< t
      BY <1>2, <1>3, <1>5 DEF Gapless
    <2>2. ASSUME NEW n \in (Len(canon[c]) + 1)..t PROVE \E e \in Of(c) : Num(e)' = n
      <3>1. PICK e \in Of(c) : Num(e) = n
        BY <1>5 DEF Gapless
      <3>2. n \notin 1..Len(canon[c])
        BY <1>1
      <3>3. Num(e)' = Num(e)
        BY <1>2, <1>3, <3>1, <3>2
      <3> QED BY <3>1, <3>3
    <2>3. Len(canon'[c]) =< t /\ canon' = canon
      BY <1>5 DEF Gapless
    <2> QED BY <1>3, <2>1, <2>2, <2>3 DEF Gapless
  <1>6. ASSUME NEW e \in Events PROVE Numbered(e)'
    <2> SUFFICES ASSUME Has(file, e)' PROVE Numbered(e)'
      BY DEF Numbered
    <2>1. \A f \in Events : Has(file, f)' => Num(f)' = Num(f) /\ Has(file, f)
      BY <1>1, <1>2
    <2>2. /\ Numbered(e) /\ Num(e) \in Nat /\ Item(file, e)'.seq = Num(e)
          /\ Item(file, e).seq = Num(e)
          /\ Of(Conv(e))' = Of(Conv(e)) /\ Conv(e)' = Conv(e) /\ Conv(e) \in Convs
      BY <1>1, <2>1 DEF Disk, Of, Conv, Num
    <2>3. headsFile'[Conv(e)].seq \in Nat /\ headsFile'[Conv(e)].seq =< b[Conv(e)]
          /\ b[Conv(e)] \in Nat
      BY <2>2
    <2>4. Item(file, e)'.verified \/ headsFile'[Conv(e)].seq < Num(e)
      BY <2>1, <2>2, <2>3
    <2>5. ASSUME NEW f \in Of(Conv(e)), Has(file, f)'
          PROVE  /\ Num(f)' = Item(file, e)'.seq => f = e
                 /\ Item(file, e)'.verified \/ ~Item(file, f)'.verified
                     \/ Num(f)' < Item(file, e)'.seq
      <3>1. f \in Events /\ Conv(f) = Conv(e) /\ Num(f)' = Num(f) /\ Has(file, f)
            /\ Has(file, e) /\ Num(f) \in Nat
        BY <1>1, <1>3, <2>1, <2>5
      <3>2. Num(f) = Num(e) => f = e
        BY <2>2, <3>1 DEF Numbered
      <3>3. Item(file, e)'.verified \/ ~Item(file, f)'.verified \/ Num(f) < Num(e)
        BY <2>1, <2>2, <2>3, <2>5, <3>1
      <3> QED BY <2>2, <3>1, <3>2, <3>3
    <2>6. Item(file, e)'.cand # NoCandidate \/ Item(file, e)'.verified
            => Item(file, e)'.seq = Item(file, e)'.base + 1
      OBVIOUS
    <2> QED BY <2>2, <2>4, <2>5, <2>6 DEF Numbered
  <1>7. ASSUME NEW p \in outbox PROVE Sent(p)'
    <2>1. p \in Proposals /\ p.event \in Events /\ Sent(p) /\ Conv(p.event)' = Conv(p.event)
      BY DEF Disk, TypeOK, Proposals, Conv
    <2>2. CASE Num(p.event)' = Num(p.event)
      BY <2>1, <2>2 DEF Sent
    <2>3. CASE Num(p.event)' # Num(p.event)
      BY <1>1, <1>2, <2>1, <2>3 DEF Sent
    <2> QED BY <2>2, <2>3
  <1>8. \A c \in Convs : HeadOK(headsFile[c], c)'
    BY DEF HeadOK
  <1>9. \A c \in Convs : \E t \in Nat : Gapless(c, t)'
    BY <1>5 DEF Disk
  <1>10. Disk'
    <2>1. \A p \in outbox' : Sent(p)'
      BY <1>7
    <2> QED BY <1>4, <1>6, <1>8, <1>9, <2>1 DEF Disk
  <1>11. Still
    <2> SUFFICES ASSUME NEW c \in Convs, NEW n \in Nat \ {0}, NEW e \in Events
                 PROVE  Entry(c, n, e)' <=> Entry(c, n, e)
      BY DEF Still, SameEntries
    <2>1. n > Len(canon[c]) /\ Conv(e) = c => (Num(e)' = n <=> Num(e) = n)
      BY <1>1, <1>2
    <2> QED BY <1>1, <2>1 DEF Entry, Conv
  <1> QED BY <1>5, <1>10, <1>11

\* A verified event is canonical and, in its file, covered by the head.
LEMMA VerifiedCovered ==
  ASSUME LogInv, phase # "down", NEW e \in Events, Has(turns, e),
         Item(turns, e).verified
  PROVE  Has(file, e) /\ Canonical(e) /\ Num(e) =< heads[Conv(e)].seq
  <1>1. TypeOK /\ Memory /\ Canonical(e)
    BY DEF LogInv, IInv, SpoolInv, Handoff, Ledger
  <1>2. Same(Item(turns, e), Item(file, e))
    BY <1>1, AlikeItems DEF Memory
  <1>3. Has(file, e) /\ Item(file, e).verified
    BY <1>2 DEF Same, Has
  <1> QED BY <1>1, <1>3 DEF Memory

\* The head after the event of the attempt.
NextHeads ==
  [heads EXCEPT ![Conv(flight.event)] = Advanced(@, Item(turns, flight.event))]

\* The event whose receipt was read back is the next one, and its proposal was
\* sent against the revision before it.
LEMMA ReadbackIsNext ==
  ASSUME LogInv, flight.step = "readback"
  PROVE  LET e == flight.event
             i == Item(turns, e)
         IN  /\ TypeOK /\ Disk /\ Memory /\ phase \in {"up", "closing"}
             /\ e \in Events /\ Has(turns, e) /\ Has(file, e) /\ Canonical(e)
             /\ i \in Items /\ i.seq = Num(e) /\ i.seq = i.base + 1
             /\ Num(e) = heads[Conv(e)].seq + 1 /\ Num(e) =< Len(canon[Conv(e)])
  <1> DEFINE e == flight.event
             i == Item(turns, e)
  <1>1. /\ TypeOK /\ Ledger /\ phase \in {"up", "closing"} /\ e \in Events
        /\ Has(turns, e) /\ i.cand \in Candidates
    BY DEF LogInv, IInv, SpoolInv, Wellformed, TypeOK
  <1>2. Disk /\ Memory /\ i \in Items /\ i.seq \in Nat
    BY <1>1, LogTypes DEF Ledger
  <1>3. Same(i, Item(file, e))
    BY <1>1, <1>2, AlikeItems DEF Memory
  <1>4. /\ Has(file, e) /\ i.seq = Num(e) /\ Item(file, e).cand # NoCandidate
        /\ i.base = Item(file, e).base
    BY <1>1, <1>2, <1>3, CandidateAssumption DEF Same, Has, Num
  <1>5. i.seq = i.base + 1
    <2>1. Numbered(e)
      BY <1>1, <1>2 DEF Disk
    <2> QED BY <1>4, <2>1 DEF Numbered, Num
  <1>6. Num(e) = heads[Conv(e)].seq + 1
    BY <1>2 DEF Memory, Busy
  <1>7. Canonical(e)
    BY ReadbackCanonical DEF LogInv
  <1>8. Num(e) =< Len(canon[Conv(e)])
    BY <1>1, <1>2, <1>4, <1>7, CanonicalPlace, LogTypes
  <1> QED BY <1>1, <1>2, <1>4, <1>5, <1>6, <1>7, <1>8

\* Its head covers its number and no other new one.
LEMMA NextHeadsMove ==
  ASSUME LogInv, flight.step = "readback"
  PROVE  LET e == flight.event IN
         /\ NextHeads \in [Convs -> Heads]
         /\ NextHeads[Conv(e)].seq = Num(e)
         /\ \A c \in Convs \ {Conv(e)} : NextHeads[c] = heads[c]
         /\ \A c \in Convs : /\ HeadOK(NextHeads[c], c) /\ NextHeads[c].seq \in Nat
                             /\ heads[c].seq =< NextHeads[c].seq
                             /\ headsFile[c].seq =< NextHeads[c].seq
                             /\ HeadOK(headsFile[c], c) /\ headsFile[c].seq \in Nat
         /\ \A f \in Events : Has(file, f) =>
              (Num(f) =< NextHeads[Conv(f)].seq <=> Item(file, f).verified \/ f = e)
  <1> DEFINE e == flight.event
             i == Item(turns, e)
             c == Conv(e)
  <1>1. /\ TypeOK /\ Disk /\ Memory /\ e \in Events /\ Has(file, e)
        /\ i \in Items /\ i.seq = Num(e) /\ i.seq = i.base + 1
        /\ Num(e) = heads[c].seq + 1 /\ Num(e) =< Len(canon[c])
    BY ReadbackIsNext
  <1>2. /\ c \in Convs /\ heads \in [Convs -> Heads] /\ heads[c].seq \in Nat
        /\ \A d \in Convs : heads[d].seq \in Nat /\ headsFile[d].seq \in Nat
        /\ Num(e) \in Nat /\ i.base \in Nat /\ Len(canon[c]) \in Nat
    BY <1>1, LogTypes DEF TypeOK, Items
  <1>3. NextHeads[c] = Advanced(heads[c], i) /\ \A d \in Convs \ {c} : NextHeads[d] = heads[d]
    BY <1>2 DEF NextHeads
  <1>4. NextHeads \in [Convs -> Heads]
    <2>1. Advanced(heads[c], i) \in Heads
      BY <1>1, <1>2, AdvancedType
    <2> QED BY <1>2, <2>1 DEF NextHeads
  <1>5. Advanced(heads[c], i) = [seq |-> Num(e), rev |-> Num(e)]
    <2>1. ASSUME NEW h, NEW j, NEW n \in Nat, h.seq \in Nat, j.base \in Nat,
                 n = h.seq + 1, j.seq = n, j.seq = j.base + 1
          PROVE  Advanced(h, j) = [seq |-> n, rev |-> n]
      BY <2>1 DEF Advanced
    <2> HIDE DEF e, i
    <2> QED BY <1>1, <1>2, <2>1
  <1> HIDE DEF e, i
  <1>6. NextHeads[c].seq = Num(e) /\ NextHeads[c].rev = Num(e)
    BY <1>3, <1>5
  <1>7. ASSUME NEW d \in Convs
        PROVE  /\ HeadOK(NextHeads[d], d) /\ NextHeads[d].seq \in Nat
               /\ heads[d].seq =< NextHeads[d].seq
               /\ headsFile[d].seq =< NextHeads[d].seq
    <2>1. HeadOK(heads[d], d) /\ headsFile[d].seq =< heads[d].seq
      BY <1>1 DEF Memory
    <2>2. CASE d = c
      <3>1. /\ NextHeads[d].seq = Num(e) /\ NextHeads[d].rev = Num(e)
            /\ Num(e) = heads[d].seq + 1 /\ Num(e) =< Len(canon[d])
        BY <1>1, <1>6, <2>2
      <3>2. heads[d].seq \in Nat /\ headsFile[d].seq \in Nat
        BY <1>2
      <3>3. HeadOK(NextHeads[d], d)
        BY <3>1 DEF HeadOK
      <3> QED BY <1>2, <2>1, <3>1, <3>2, <3>3
    <2>3. CASE d # c
      BY <1>2, <1>3, <2>1, <2>3
    <2> QED BY <2>2, <2>3
  <1>8. \A d \in Convs : HeadOK(headsFile[d], d)
    BY <1>1 DEF Disk
  <1>9. ASSUME NEW f \in Events, Has(file, f)
        PROVE  Num(f) =< NextHeads[Conv(f)].seq <=> Item(file, f).verified \/ f = e
    <2>1. Item(file, f).verified <=> Num(f) =< heads[Conv(f)].seq
      BY <1>1, <1>9 DEF Memory
    <2>2. CASE Conv(f) # c
      <3>1. f # e /\ NextHeads[Conv(f)] = heads[Conv(f)]
        BY <1>1, <1>3, <2>2, LogTypes
      <3> QED BY <2>1, <3>1
    <2>3. CASE Conv(f) = c
      <3>1. Num(f) = Num(e) <=> f = e
        BY <1>1, <1>9, <2>3 DEF Disk, Numbered, Of, Num
      <3>2. Num(f) \in Nat
        BY <1>1, LogTypes
      <3>3. /\ NextHeads[Conv(f)].seq = Num(e)
            /\ Num(e) = heads[Conv(f)].seq + 1 /\ heads[Conv(f)].seq \in Nat
        BY <1>1, <1>2, <1>6, <2>3
      <3> QED BY <2>1, <3>1, <3>2, <3>3
    <2> QED BY <2>2, <2>3
  <1> QED BY <1>2, <1>3, <1>4, <1>6, <1>7, <1>8, <1>9 DEF e

\* What stays of a confirmed turn: its item is verified and keeps its number.
LEMMA ConfirmedTurn ==
  ASSUME LogInv, flight.step = "readback"
  PROVE  LET e == flight.event
             t == Confirmed(e)
         IN  /\ e[1] \in Keys /\ e[2] \in Kinds /\ t.open = turns[e[1]].open
             /\ t.items[e[2]].seq = Num(e) /\ t.items[e[2]].verified
             /\ Num(e) = t.items[e[2]].base + 1
             /\ \A x \in Kinds \ {e[2]} : t.items[x] = turns[e[1]].items[x]
  <1> DEFINE e == flight.event
             i == Item(turns, e)
             j == [i EXCEPT !.cand = NoCandidate, !.verified = TRUE, !.blocked = FALSE]
  <1>1. /\ TypeOK /\ e \in Events /\ i \in Items /\ i.seq = Num(e) /\ i.seq = i.base + 1
    BY ReadbackIsNext
  <1>2. e[1] \in Keys /\ e[2] \in Kinds /\ turns[e[1]] \in Turns
    BY <1>1, EventPair DEF TypeOK
  <1>3. j \in Items /\ j.seq = i.seq /\ j.base = i.base /\ j.verified
    BY <1>1 DEF Items
  <1>4. PICK x \in Items : /\ x.seq = i.seq /\ x.base = i.base /\ x.verified
                           /\ Confirmed(e) = SetItem(turns[e[1]], e[2], x)
    BY <1>3 DEF Confirmed
  <1> HIDE DEF j, i, e
  <1>5. /\ Confirmed(e).open = turns[e[1]].open /\ Confirmed(e).items[e[2]] = x
        /\ \A y \in Kinds \ {e[2]} : Confirmed(e).items[y] = turns[e[1]].items[y]
    BY <1>2, <1>4, SetItemType
  <1> QED BY <1>1, <1>2, <1>4, <1>5 DEF e

\* The turn file after the first n writes of a confirmation.
LEMMA ConfirmFile ==
  ASSUME LogInv, flight.step = "readback", NEW n \in 1..4, ConfirmDisk(flight.event, n)
  PROVE  LET k == flight.event[1] IN
         /\ file' = [file EXCEPT ![k] = IF n = 4 THEN NoTurn ELSE Confirmed(flight.event)]
         /\ headsFile' = IF n >= 2 THEN NextHeads ELSE headsFile
         /\ completedFile' = IF n >= 3 THEN completed \cup {k} ELSE completedFile
  <1> DEFINE e == flight.event
             t == Confirmed(e)
  <1>1. (CASE n = 4 -> NoTurn [] n \in 1..3 -> t [] n = 0 -> file[e[1]])
          = IF n = 4 THEN NoTurn ELSE t
    <2>1. CASE n = 4
      BY <2>1
    <2>2. CASE n \in 1..3
      BY <2>2
    <2> QED BY <2>1, <2>2
  <1>2. file' = [file EXCEPT ![e[1]] =
          CASE n = 4 -> NoTurn [] n \in 1..3 -> t [] n = 0 -> file[e[1]]]
    BY DEF ConfirmDisk
  <1>3. /\ headsFile' = IF n >= 2 THEN NextHeads ELSE headsFile
        /\ completedFile' = IF n >= 3 THEN completed \cup {e[1]} ELSE completedFile
    BY DEF ConfirmDisk, NextHeads
  <1> QED BY <1>1, <1>2, <1>3

\* These writes move the files, and the marks agree with the next heads.
LEMMA ConfirmMove ==
  ASSUME LogInv, flight.step = "readback", NEW n \in 1..4,
         n >= 3 => ConfirmWrites(Confirmed(flight.event)) = 4,
         ConfirmDisk(flight.event, n), UNCHANGED <<canon, outbox>>
  PROVE  /\ Disk' /\ Still
         /\ \A c \in Convs : \A t \in Nat : Gapless(c, t) => Gapless(c, t)'
         /\ \A c \in Convs : headsFile'[c].seq =< NextHeads[c].seq
         /\ \A f \in Events : Has(file, f)' =>
              (Item(file, f)'.verified <=> Num(f)' =< NextHeads[Conv(f)].seq)
  <1> DEFINE e == flight.event
             k == e[1]
             t == Confirmed(e)
             b == [c \in Convs |-> NextHeads[c].seq]
  <1>1. /\ TypeOK /\ Disk /\ Memory /\ phase # "down" /\ file \in [Keys -> Turns]
        /\ e \in Events /\ Has(file, e) /\ Canonical(e) /\ Has(turns, e)
        /\ Item(turns, e).seq = Num(e) /\ turns \in [Keys -> Turns]
    BY ReadbackIsNext DEF TypeOK
  <1>2. /\ k \in Keys /\ e[2] \in Kinds /\ t.open = turns[k].open
        /\ t.items[e[2]].seq = Num(e) /\ t.items[e[2]].verified
        /\ Num(e) = t.items[e[2]].base + 1
        /\ \A x \in Kinds \ {e[2]} : t.items[x] = turns[k].items[x]
    BY ConfirmedTurn
  <1>3. /\ file' = [file EXCEPT ![k] = IF n = 4 THEN NoTurn ELSE t]
        /\ headsFile' = IF n >= 2 THEN NextHeads ELSE headsFile
        /\ completedFile' = IF n >= 3 THEN completed \cup {k} ELSE completedFile
    BY ConfirmFile
  <1>4. /\ NextHeads[Conv(e)].seq = Num(e)
        /\ \A c \in Convs : /\ HeadOK(NextHeads[c], c) /\ NextHeads[c].seq \in Nat
                            /\ heads[c].seq =< NextHeads[c].seq
                            /\ headsFile[c].seq =< NextHeads[c].seq
                            /\ HeadOK(headsFile[c], c) /\ headsFile[c].seq \in Nat
        /\ \A f \in Events : Has(file, f) =>
             (Num(f) =< NextHeads[Conv(f)].seq <=> Item(file, f).verified \/ f = e)
    BY NextHeadsMove
  <1>5. /\ \A f \in Events : /\ Same(Item(turns, f), Item(file, f)) /\ Num(f) \in Nat
                             /\ f[1] \in Keys /\ f[2] \in Kinds /\ f = <<f[1], f[2]>>
                             /\ Conv(f) \in Convs
                             /\ Has(turns, f) <=> Has(file, f)
        /\ \A c \in Convs : heads[c].seq \in Nat
    BY <1>1, AlikeItems, EventPair, LogTypes DEF Memory, Same, Has
  <1>6. n >= 3 => ~t.open /\ AllVerified(t)
    BY DEF ConfirmWrites
  <1> HIDE DEF t, e
  <1>7. /\ b \in [Convs -> Nat] /\ \A c \in Convs : headsFile'[c].seq =< b[c]
        /\ \A c \in Convs : /\ HeadOK(headsFile'[c], c) /\ headsFile'[c].seq \in Nat
                            /\ headsFile[c].seq =< headsFile'[c].seq
                            /\ headsFile'[c].seq =< NextHeads[c].seq
    BY <1>3, <1>4
  <1>8. completedFile \subseteq completedFile' /\ \A j \in completedFile' : ~file'[j].open
    <2>1. completed \subseteq Keys /\ completedFile \subseteq completed
          /\ \A j \in completed : ~turns[j].open /\ ~file[j].open
      BY <1>1 DEF Memory, TypeOK, Alike
    <2>2. ~NoTurn.open
      BY DEF NoTurn
    <2> QED BY <1>1, <1>2, <1>3, <1>6, <2>1, <2>2
  <1>9. ASSUME NEW f \in Events, f[1] # k
        PROVE  Item(file, f)' = Item(file, f)
    BY <1>1, <1>2, <1>3, <1>5, <1>9 DEF Item
  <1>10. ASSUME NEW f \in Events, f[1] = k, n # 4
         PROVE  Item(file, f)' = IF f = e THEN t.items[e[2]] ELSE Item(turns, f)
    <2>1. Item(file, f)' = t.items[f[2]]
      BY <1>1, <1>2, <1>3, <1>10 DEF Item
    <2>2. f = e <=> f[2] = e[2]
      BY <1>1, <1>5, <1>10
    <2> QED BY <1>2, <1>5, <1>10, <2>1, <2>2 DEF Item
  <1>11. ASSUME NEW f \in Events, f[1] = k, n = 4
         PROVE  Item(file, f)' = NoItem
    BY <1>1, <1>2, <1>3, <1>5, <1>11 DEF Item, NoTurn
  <1>12. ASSUME NEW f \in Events, ~(f[1] = k /\ n = 4)
         PROVE  /\ Num(f)' = Num(f)
                /\ Has(file, f)' => LET d == Item(file, f)' IN
                     /\ d.cand # NoCandidate \/ d.verified => d.seq = d.base + 1
                     /\ d.verified <=> Item(file, f).verified \/ f = e
    <2>1. CASE f = e
      <3>1. Item(file, f)' = t.items[e[2]]
        BY <1>10, <1>12, <2>1
      <3> QED BY <1>2, <2>1, <3>1 DEF Num
    <2>2. CASE f # e
      <3>1. Same(Item(file, f)', Item(file, f))
        BY <1>5, <1>9, <1>10, <1>12, <2>2 DEF Same
      <3>2. Kept(f)
        BY <1>1, <3>1, SameKept
      <3> QED BY <2>2, <3>2 DEF Kept, Num, Has
    <2> QED BY <2>1, <2>2
  <1>13. ASSUME NEW f \in Events, f[1] = k, n = 4, Has(file, f)
         PROVE  Left(f)
    <2>1. Num(f)' = 0
      BY <1>11, <1>13 DEF Num, NoItem
    <2>2. f[1] \in completedFile' /\ headsFile' = NextHeads
      BY <1>3, <1>13
    <2>3. CASE f = e
      BY <1>1, <1>4, <2>1, <2>2, <2>3 DEF Left
    <2>4. CASE f # e
      <3>1. f[2] # e[2]
        BY <1>1, <1>5, <1>13, <2>4
      <3>2. t.items[f[2]] = Item(turns, f) /\ Has(turns, f)
        BY <1>2, <1>5, <1>13, <3>1 DEF Item
      <3>3. Item(turns, f).verified
        BY <1>5, <1>6, <1>13, <3>2 DEF AllVerified, Has
      <3>4. Canonical(f) /\ Num(f) =< heads[Conv(f)].seq
        BY <1>1, <3>2, <3>3, VerifiedCovered
      <3>5. heads[Conv(f)].seq =< NextHeads[Conv(f)].seq
        BY <1>4, <1>5
      <3> QED BY <1>4, <1>5, <2>1, <2>2, <3>4, <3>5 DEF Left
    <2> QED BY <2>3, <2>4
  <1>14. \A f \in Events : Num(f)' = Num(f) \/ (Has(file, f) /\ Left(f))
    <2> SUFFICES ASSUME NEW f \in Events, f[1] = k, n = 4, ~Has(file, f)
                 PROVE  Num(f)' = Num(f)
      BY <1>12, <1>13
    <2> QED BY <1>5, <1>11 DEF Num, Has, NoItem
  <1>15. ASSUME NEW f \in Events, Has(file, f)'
         PROVE  LET d == Item(file, f)' IN
                /\ d.cand # NoCandidate \/ d.verified => d.seq = d.base + 1
                /\ d.verified <=> Num(f) =< b[Conv(f)]
                /\ Num(f)' = Num(f) /\ b[Conv(f)] = NextHeads[Conv(f)].seq
    <2>1. ~(f[1] = k /\ n = 4)
      BY <1>11, <1>15 DEF Has, NoItem
    <2>2. Num(f)' = Num(f) /\ Has(file, f)
      BY <1>12, <1>15, <2>1 DEF Num, Has
    <2>3. b[Conv(f)] = NextHeads[Conv(f)].seq
      BY <1>5
    <2> QED BY <1>4, <1>12, <1>15, <2>1, <2>2, <2>3
  <1> HIDE DEF b
  <1>16. /\ Disk' /\ Still
         /\ \A c \in Convs : \A u \in Nat : Gapless(c, u) => Gapless(c, u)'
    BY <1>1, <1>7, <1>8, <1>14, <1>15, DiskMove
  <1>17. \A f \in Events : Has(file, f)' =>
           (Item(file, f)'.verified <=> Num(f)' =< NextHeads[Conv(f)].seq)
    BY <1>15
  <1> QED BY <1>7, <1>16, <1>17

\* Memory goes with the files.
LEMMA ConfirmMemory ==
  ASSUME LogInv, flight.step = "readback", NEW n \in 1..4,
         n >= 3 => ConfirmWrites(Confirmed(flight.event)) = 4,
         ConfirmDisk(flight.event, n), UNCHANGED <<canon, outbox, phase, seq>>,
         heads' = NextHeads,
         turns' = [turns EXCEPT ![flight.event[1]] = IF n = 4 THEN NoTurn
                                                     ELSE Confirmed(flight.event)],
         \/ completed' = completed /\ n =< 2
         \/ /\ completed' = completed \cup {flight.event[1]}
            /\ ConfirmWrites(Confirmed(flight.event)) = 4,
         flight'.step \notin Busy
  PROVE  Ledger' /\ Still
  <1> DEFINE e == flight.event
             k == e[1]
             t == IF n = 4 THEN NoTurn ELSE Confirmed(e)
  <1>1. /\ Disk' /\ Still
        /\ \A c \in Convs : \A u \in Nat : Gapless(c, u) => Gapless(c, u)'
        /\ \A c \in Convs : headsFile'[c].seq =< NextHeads[c].seq
        /\ \A f \in Events : Has(file, f)' =>
             (Item(file, f)'.verified <=> Num(f)' =< NextHeads[Conv(f)].seq)
    BY ConfirmMove
  <1>2. /\ TypeOK /\ Memory /\ phase' \in {"up", "closing"} /\ file \in [Keys -> Turns]
        /\ turns \in [Keys -> Turns] /\ completed \subseteq Keys
        /\ \A c \in Convs : seq[c] \in Nat
    BY ReadbackIsNext DEF TypeOK
  <1>3. /\ k \in Keys /\ Confirmed(e).open = turns[k].open
        /\ ConfirmWrites(Confirmed(e)) = 4 => ~Confirmed(e).open
        /\ ~NoTurn.open
    BY ConfirmedTurn DEF ConfirmWrites, NoTurn
  <1>4. /\ file' = [file EXCEPT ![k] = t]
        /\ completedFile' = IF n >= 3 THEN completed \cup {k} ELSE completedFile
    BY ConfirmFile
  <1>5. turns' = [turns EXCEPT ![k] = t] /\ (t.open => turns[k].open)
        /\ (ConfirmWrites(Confirmed(e)) = 4 => ~t.open)
    BY <1>3
  <1> HIDE DEF t, e
  <1>6. \A j \in Keys : Alike(turns'[j], file'[j])
    BY <1>2, <1>3, <1>4, <1>5, AlikeLaws DEF Memory
  <1>7. completedFile' \subseteq completed'
    BY <1>2, <1>4 DEF Memory, e
  <1>8. \A j \in completed' : ~turns'[j].open
    <2>1. completed' = completed \/ (completed' = completed \cup {k} /\ ~t.open)
      BY <1>5 DEF e
    <2> QED BY <1>2, <1>3, <1>5, <2>1 DEF Memory
  <1>9. \A c \in Convs : Gapless(c, seq[c])'
    <2>1. \A c \in Convs : Gapless(c, seq[c]) /\ seq[c] \in Nat
      BY <1>2 DEF Memory
    <2> QED BY <1>1, <2>1 DEF Gapless
  <1>10. \A c \in Convs : HeadOK(heads[c], c)' /\ headsFile'[c].seq =< heads'[c].seq
    BY <1>1, NextHeadsMove DEF HeadOK
  <1>11. \A f \in Events : (Has(file, f) =>
           (Item(file, f).verified <=> Num(f) =< heads[Conv(f)].seq))'
    BY <1>1 DEF Conv
  <1>12. Memory'
    BY <1>2, <1>6, <1>7, <1>8, <1>9, <1>10, <1>11 DEF Memory, Busy
  <1> QED BY <1>1, <1>12 DEF Ledger

\* Confirm and the ways it ends half-way.
LEMMA ConfirmLog ==
  ASSUME "late" \notin Faults, LogInv, Confirm \/ ConfirmFails \/ ConfirmCrashes
  PROVE  Ledger' /\ Still
  <1> DEFINE e == flight.event
             all == ConfirmWrites(Confirmed(e))
  <1>1. flight.step = "readback" /\ all \in {2, 4}
    BY ConfirmWritesType DEF Confirm, ConfirmFails, ConfirmCrashes
  <1>2. TypeOK /\ Ledger
    BY DEF LogInv, IInv, SpoolInv
  <1>3. CASE Confirm
    <2>1. /\ ConfirmDisk(e, all) /\ UNCHANGED <<canon, outbox, phase, seq>>
          /\ heads' = NextHeads /\ flight' = NoFlight
          /\ turns' = [turns EXCEPT ![e[1]] = IF all = 4 THEN NoTurn ELSE Confirmed(e)]
          /\ completed' = IF all = 4 THEN completed \cup {e[1]} ELSE completed
      BY <1>3 DEF Confirm, NextHeads, life, karte
    <2>2. flight'.step \notin Busy
      BY <2>1 DEF NoFlight, Busy
    <2>3. all \in 1..4 /\ (all >= 3 => all = 4) /\ (all # 4 => all =< 2)
      BY <1>1
    <2> QED BY <1>1, <2>1, <2>2, <2>3, ConfirmMemory
  <1>4. CASE ConfirmFails
    <2>1. PICK n \in 0..(all - 1) :
            /\ ConfirmDisk(e, n)
            /\ turns' = IF n = 0 THEN turns ELSE [turns EXCEPT ![e[1]] = Confirmed(e)]
            /\ heads' = IF n = 0 THEN heads ELSE NextHeads
            /\ completed' = IF n >= 2 THEN completed \cup {e[1]} ELSE completed
            /\ UNCHANGED <<canon, outbox, phase, seq>>
            /\ Goto("failed", "storage")
      <3>1. \A w \in Faults : w # "late"
        OBVIOUS
      <3> QED BY <1>4, <3>1 DEF ConfirmFails, NextHeads, life, karte
    <2>2. flight'.step \notin Busy
      BY <1>2, <2>1, GotoBusy DEF Busy
    <2>3. CASE n = 0
      <3>1. /\ file' = [file EXCEPT ![e[1]] = file[e[1]]]
            /\ UNCHANGED <<headsFile, completedFile>>
        BY <2>1, <2>3 DEF ConfirmDisk
      <3>2. file' = file /\ UNCHANGED <<turns, heads, completed>>
        BY <1>2, <2>1, <2>3, <3>1 DEF TypeOK
      <3>3. phase # "down"
        BY <1>1 DEF LogInv, IInv, SpoolInv, Wellformed
      <3> QED BY <1>2, <2>1, <2>2, <3>1, <3>2, <3>3, AlikeLaws, QuietLog
    <2>4. CASE n # 0
      <3>1. n \in 1..4 /\ n # 4 /\ (n >= 2 => all = 4) /\ (n >= 3 => all = 4)
        BY <1>1, <2>4
      <3>2. turns' = [turns EXCEPT ![e[1]] = IF n = 4 THEN NoTurn ELSE Confirmed(e)]
        BY <2>1, <2>4, <3>1
      <3>3. \/ completed' = completed /\ n =< 2
            \/ completed' = completed \cup {e[1]} /\ all = 4
        BY <2>1, <3>1
      <3> QED BY <1>1, <2>1, <2>2, <2>4, <3>1, <3>2, <3>3, ConfirmMemory
    <2> QED BY <2>3, <2>4
  <1>5. CASE ConfirmCrashes
    <2>1. PICK n \in 1..(all - 1) : ConfirmDisk(e, n)
      BY <1>5 DEF ConfirmCrashes
    <2>2. phase' = "down" /\ UNCHANGED <<canon, outbox>>
      BY <1>5 DEF ConfirmCrashes, Gone, karte
    <2>3. n \in 1..4 /\ (n >= 3 => all = 4)
      BY <1>1
    <2>4. Disk' /\ Still
      BY <1>1, <2>1, <2>2, <2>3, ConfirmMove
    <2> QED BY <2>2, <2>4 DEF Ledger
  <1> QED BY <1>3, <1>4, <1>5

\* New() drops a turn whose events are all verified.
LEMMA RecoverVerifiedLog ==
  ASSUME LogInv, NEW k \in Keys, RecoverVerified(k)
  PROVE  Ledger' /\ Still
  <1> DEFINE b == [c \in Convs |-> heads[c].seq]
  <1>1. /\ TypeOK /\ Disk /\ Memory /\ phase = "loading" /\ headsFile = heads
        /\ file \in [Keys -> Turns] /\ turns \in [Keys -> Turns]
        /\ ~turns[k].open /\ AllVerified(turns[k])
    BY DEF RecoverVerified, LogInv, IInv, SpoolInv, Ledger, Memory, TypeOK
  <1>2. /\ completedFile' = completed \cup {k}
        /\ UNCHANGED <<canon, outbox, headsFile>>
        /\ \/ /\ file' = [file EXCEPT ![k] = NoTurn]
              /\ turns' = [turns EXCEPT ![k] = NoTurn]
              /\ completed' = completed \cup {k}
              /\ UNCHANGED <<phase, seq, heads, flight>>
           \/ phase' = "down" /\ file' = file
    BY DEF RecoverVerified, karte, Gone
  <1>3. /\ \A f \in Events : /\ Num(f) \in Nat /\ Conv(f) \in Convs
                             /\ f[1] \in Keys /\ f[2] \in Kinds
                             /\ Same(Item(turns, f), Item(file, f))
        /\ \A c \in Convs : heads[c].seq \in Nat
    BY <1>1, AlikeItems, EventPair, LogTypes DEF Memory
  <1>4. /\ b \in [Convs -> Nat] /\ \A c \in Convs : headsFile'[c].seq =< b[c]
        /\ \A f \in Events : b[Conv(f)] = heads[Conv(f)].seq
        /\ \A c \in Convs : /\ HeadOK(headsFile'[c], c) /\ headsFile'[c].seq \in Nat
                            /\ headsFile[c].seq =< headsFile'[c].seq
    BY <1>1, <1>2, <1>3 DEF Disk
  <1>5. /\ completedFile \subseteq completedFile' /\ completed \subseteq Keys
        /\ \A j \in completedFile' : ~file'[j].open
        /\ \A j \in completed : ~turns[j].open
    <2>1. /\ completed \subseteq Keys /\ completedFile \subseteq completed
          /\ \A j \in completed \cup {k} : ~turns[j].open /\ ~file[j].open
      BY <1>1 DEF Memory, TypeOK, Alike
    <2>2. ~NoTurn.open
      BY DEF NoTurn
    <2> QED BY <1>1, <1>2, <2>1, <2>2
  <1>6. ASSUME NEW f \in Events, f[1] # k \/ file' = file
        PROVE  Item(file, f)' = Item(file, f)
    BY <1>1, <1>2, <1>3, <1>6 DEF Item
  <1>7. ASSUME NEW f \in Events, f[1] = k, file' # file
        PROVE  Item(file, f)' = NoItem
    BY <1>1, <1>2, <1>3, <1>7 DEF Item, NoTurn
  <1>8. ASSUME NEW f \in Events, f[1] = k, file' # file, Has(file, f)
        PROVE  Left(f)
    <2>1. Has(turns, f) /\ Item(turns, f).verified
      BY <1>1, <1>3, <1>8 DEF Same, Has, Item, AllVerified
    <2>2. Canonical(f) /\ Num(f) =< heads[Conv(f)].seq
      BY <1>1, <2>1, VerifiedCovered
    <2>3. Num(f)' = 0
      BY <1>7, <1>8 DEF Num, NoItem
    <2> QED BY <1>1, <1>2, <1>8, <2>2, <2>3 DEF Left
  <1>9. \A f \in Events : Num(f)' = Num(f) \/ (Has(file, f) /\ Left(f))
    <2>1. \A f \in Events : f[1] # k \/ file' = file => Num(f)' = Num(f)
      BY <1>6 DEF Num
    <2>2. \A f \in Events : f[1] = k /\ file' # file /\ ~Has(file, f) => Num(f)' = Num(f)
      BY <1>3, <1>7 DEF Num, Has, NoItem
    <2> QED BY <1>8, <2>1, <2>2
  <1>10. ASSUME NEW f \in Events, Has(file, f)'
         PROVE  LET d == Item(file, f)' IN
                /\ d.cand # NoCandidate \/ d.verified => d.seq = d.base + 1
                /\ d.verified <=> Num(f) =< b[Conv(f)]
                /\ Num(f)' = Num(f)
    <2>1. Item(file, f)' = Item(file, f) /\ Has(file, f)
      BY <1>6, <1>7, <1>10 DEF Has, NoItem
    <2>2. Numbered(f) /\ (Item(file, f).verified <=> Num(f) =< heads[Conv(f)].seq)
      BY <1>1, <2>1 DEF Disk, Memory
    <2> QED BY <1>4, <2>1, <2>2 DEF Numbered, Num
  <1> HIDE DEF b
  <1>11. /\ Disk' /\ Still
         /\ \A c \in Convs : \A t \in Nat : Gapless(c, t) => Gapless(c, t)'
    BY <1>1, <1>2, <1>4, <1>5, <1>9, <1>10, DiskMove
  <1>12. ASSUME phase' # "down" PROVE Memory'
    <2>1. /\ file' = [file EXCEPT ![k] = NoTurn]
          /\ turns' = [turns EXCEPT ![k] = NoTurn]
          /\ completed' = completed \cup {k}
          /\ UNCHANGED <<phase, seq, heads, flight>>
      BY <1>2, <1>12
    <2>2. \A j \in Keys : Alike(turns'[j], file'[j])
      BY <1>1, <2>1, AlikeLaws DEF Memory
    <2>3. completedFile' \subseteq completed' /\ \A j \in completed' : ~turns'[j].open
      <3>1. ~NoTurn.open
        BY DEF NoTurn
      <3> QED BY <1>1, <1>2, <1>5, <2>1, <3>1
    <2>4. \A c \in Convs : Gapless(c, seq[c])'
      <3>1. \A c \in Convs : Gapless(c, seq[c]) /\ seq[c] \in Nat
        BY <1>1 DEF Memory, TypeOK
      <3> QED BY <1>11, <2>1, <3>1 DEF Gapless
    <2>5. \A c \in Convs : HeadOK(heads[c], c)' /\ headsFile'[c].seq =< heads'[c].seq
      BY <1>1, <1>2, <2>1 DEF Memory, HeadOK
    <2>6. \A f \in Events : (Has(file, f) =>
            (Item(file, f).verified <=> Num(f) =< heads[Conv(f)].seq))'
      BY <1>4, <1>10, <2>1 DEF Conv
    <2>7. flight'.step \notin Busy /\ headsFile' = heads'
      BY <1>1, <1>2, <2>1 DEF LogInv, IInv, SpoolInv, Wellformed, Busy
    <2> QED BY <2>2, <2>3, <2>4, <2>5, <2>6, <2>7 DEF Memory, Busy
  <1> QED BY <1>11, <1>12 DEF Ledger

\* What New() takes for the head covers exactly the verified events.
LEMMA LoadedHead ==
  ASSUME LogInv, NEW c \in Convs, NEW h \in LoadedHeads(c)
  PROVE  /\ HeadOK(h, c) /\ h.seq \in Nat /\ headsFile[c].seq =< h.seq
         /\ \A e \in Of(c) : Has(file, e) => (Item(file, e).verified <=> Num(e) =< h.seq)
  <1>1. /\ TypeOK /\ Disk /\ Len(canon[c]) \in Nat
        /\ headsFile[c].seq \in Nat /\ HeadOK(headsFile[c], c)
        /\ \A e \in Of(c) : /\ e \in Events /\ Conv(e) = c /\ Item(file, e).seq = Num(e)
                            /\ Num(e) \in Nat /\ Item(file, e) \in Items
    BY LogTypes DEF LogInv, IInv, SpoolInv, Ledger, Disk, Of, Num
  <1>2. /\ h \in KnownHeads(c)
        /\ \A g \in KnownHeads(c) : g.seq =< h.seq
    BY DEF LoadedHeads
  <1>3. ASSUME NEW e \in Of(c), Has(file, e), Item(file, e).verified,
               NEW g, g = Advanced(headsFile[c], Item(file, e))
        PROVE  /\ HeadOK(g, c) /\ g.seq \in Nat /\ Num(e) =< g.seq
               /\ g.seq = headsFile[c].seq \/ g.seq = Num(e)
    <2>1. Num(e) = Item(file, e).base + 1
      BY <1>1, <1>3 DEF Disk, Numbered
    <2>2. Canonical(e)
      BY <1>1, <1>3 DEF LogInv, IInv, Handoff
    <2>3. Num(e) =< Len(canon[c])
      BY <1>1, <1>3, <2>2, CanonicalPlace
    <2>4. CASE headsFile[c].seq >= Num(e)
      <3>1. g = headsFile[c]
        BY <1>1, <1>3, <2>4 DEF Advanced
      <3> QED BY <1>1, <2>4, <3>1
    <2>5. CASE ~(headsFile[c].seq >= Num(e))
      <3>1. g = [seq |-> Num(e), rev |-> Num(e)]
        BY <1>1, <1>3, <2>1, <2>5 DEF Advanced
      <3> QED BY <1>1, <2>3, <3>1 DEF HeadOK
    <2> QED BY <2>4, <2>5
  <1>4. \/ h = headsFile[c]
        \/ \E e \in Of(c) : /\ Has(file, e) /\ Item(file, e).verified
                            /\ h = Advanced(headsFile[c], Item(file, e))
    BY <1>2 DEF KnownHeads, Of
  <1>5. /\ HeadOK(h, c) /\ h.seq \in Nat
        /\ \/ h.seq = headsFile[c].seq
           \/ \E e \in Of(c) : Has(file, e) /\ Item(file, e).verified /\ h.seq = Num(e)
    <2>1. CASE h = headsFile[c]
      BY <1>1, <2>1
    <2>2. CASE h # headsFile[c]
      <3>1. PICK e \in Of(c) : /\ Has(file, e) /\ Item(file, e).verified
                               /\ h = Advanced(headsFile[c], Item(file, e))
        BY <1>4, <2>2
      <3>2. /\ HeadOK(h, c) /\ h.seq \in Nat
            /\ h.seq = headsFile[c].seq \/ h.seq = Num(e)
        BY <1>3, <3>1
      <3> QED BY <3>1, <3>2
    <2> QED BY <2>1, <2>2
  <1>6. headsFile[c].seq =< h.seq
    BY <1>2 DEF KnownHeads
  <1>7. ASSUME NEW e \in Of(c), Has(file, e)
        PROVE  Item(file, e).verified <=> Num(e) =< h.seq
    <2>1. CASE Item(file, e).verified
      <3>1. PICK g : g = Advanced(headsFile[c], Item(file, e))
        OBVIOUS
      <3>2. g \in KnownHeads(c)
        BY <1>1, <1>7, <2>1, <3>1 DEF KnownHeads
      <3>3. Num(e) =< g.seq /\ g.seq =< h.seq /\ g.seq \in Nat
        BY <1>2, <1>3, <1>7, <2>1, <3>1, <3>2
      <3> QED BY <1>1, <1>5, <2>1, <3>3
    <2>2. CASE ~Item(file, e).verified
      <3>1. /\ headsFile[c].seq < Num(e)
            /\ \A f \in Of(c) : Has(file, f) /\ Item(file, f).verified => Num(f) < Num(e)
        BY <1>1, <1>7, <2>2 DEF Disk, Numbered
      <3>2. h.seq < Num(e)
        BY <1>5, <3>1
      <3> QED BY <1>1, <1>5, <2>2, <3>2
    <2> QED BY <2>1, <2>2
  <1> QED BY <1>5, <1>6, <1>7

\* What New() takes for the last number is it.
LEMMA LoadedSeq ==
  ASSUME LogInv, NEW c \in Convs, NEW h \in LoadedHeads(c), NEW n \in LoadedSeqs(c, h)
  PROVE  Gapless(c, n)
  <1>1. /\ TypeOK /\ Disk /\ Placed(c) /\ Len(canon[c]) \in Nat
        /\ \A e \in Of(c) : /\ e \in Events /\ Item(file, e).seq = Num(e) /\ Num(e) \in Nat
        /\ HeadOK(h, c) /\ h.seq \in Nat /\ headsFile[c].seq =< h.seq
        /\ headsFile[c].seq \in Nat
    BY LoadedHead, LogTypes DEF LogInv, IInv, SpoolInv, Ledger, Disk, Of, Num
  <1>2. /\ NumbersOf(c, h) = {h.seq} \cup {Num(e) : e \in Of(c)}
    BY DEF NumbersOf, Of, Num
  <1>3. /\ n = h.seq \/ \E e \in Of(c) : n = Num(e)
        /\ h.seq =< n /\ \A e \in Of(c) : Num(e) =< n
    BY <1>2 DEF LoadedSeqs
  <1>4. PICK t \in Nat : Gapless(c, t)
    BY <1>1 DEF Disk
  <1>5. n \in Nat /\ n =< t
    BY <1>1, <1>3, <1>4 DEF Gapless, HeadOK
  <1>6. t =< n
    <2>1. CASE t = Len(canon[c])
      <3>1. CASE t = 0
        BY <1>5, <3>1
      <3>2. CASE t # 0
        <4>1. t \in 1..Len(canon[c])
          BY <1>4, <2>1, <3>2
        <4>2. PICK e : e = canon[c][t].event
          OBVIOUS
        <4>3. e \in Events /\ Conv(e) = c /\ (Has(file, e) => Num(e) = t)
              /\ (Has(file, e) \/ t =< headsFile[c].seq)
          BY <1>1, <4>1, <4>2, LogTypes DEF Placed
        <4> QED BY <1>1, <1>3, <1>5, <4>3 DEF Of
      <3> QED BY <3>1, <3>2
    <2>2. CASE t # Len(canon[c])
      <3>1. t \in (Len(canon[c]) + 1)..t
        BY <1>1, <1>4, <2>2 DEF Gapless
      <3>2. \E e \in Of(c) : Num(e) = t
        BY <1>4, <3>1 DEF Gapless
      <3> QED BY <1>3, <3>2
    <2> QED BY <2>1, <2>2
  <1> QED BY <1>4, <1>5, <1>6

\* New() takes the files as they are.
LEMMA OpenLog ==
  ASSUME LogInv, Open
  PROVE  Ledger' /\ Still
  <1>1. /\ TypeOK /\ Disk /\ phase = "down" /\ file \in [Keys -> Turns]
        /\ flight.step \notin Busy
    BY DEF Open, LogInv, IInv, SpoolInv, Ledger, TypeOK, Wellformed, Busy
  <1>2. /\ turns' = file /\ completed' = completedFile /\ headsFile' = heads'
        /\ UNCHANGED <<flight, file, completedFile, canon, outbox>>
        /\ \A c \in Convs : heads'[c] \in LoadedHeads(c)
                            /\ seq'[c] \in LoadedSeqs(c, heads'[c])
    BY DEF Open, karte
  <1>3. \A c \in Convs :
          /\ HeadOK(heads'[c], c) /\ heads'[c].seq \in Nat
          /\ headsFile[c].seq =< heads'[c].seq
          /\ \A e \in Of(c) : Has(file, e) =>
               (Item(file, e).verified <=> Num(e) =< heads'[c].seq)
          /\ Gapless(c, seq'[c])
    BY <1>2, LoadedHead, LoadedSeq
  <1> DEFINE b == [c \in Convs |-> heads'[c].seq]
  <1>4. /\ b \in [Convs -> Nat] /\ \A c \in Convs : headsFile'[c].seq =< b[c]
        /\ \A c \in Convs : b[c] = heads'[c].seq
    BY <1>2, <1>3
  <1>5. \A e \in Events : /\ Item(file, e)' = Item(file, e) /\ Num(e)' = Num(e)
                          /\ Has(file, e)' <=> Has(file, e)
                          /\ Conv(e) \in Convs /\ e \in Of(Conv(e))
    BY <1>1, <1>2, LogTypes DEF Item, Num, Has, Of
  <1>6. ASSUME NEW e \in Events, Has(file, e)
        PROVE  LET d == Item(file, e)' IN
               /\ d.cand # NoCandidate \/ d.verified => d.seq = d.base + 1
               /\ d.verified <=> Num(e) =< b[Conv(e)]
    <2>1. Numbered(e)
      BY <1>1 DEF Disk
    <2> QED BY <1>3, <1>4, <1>5, <1>6, <2>1 DEF Numbered
  <1>7. \A k \in completedFile' : ~file'[k].open
    BY <1>1, <1>2 DEF Disk
  <1> HIDE DEF b
  <1>8. /\ Disk' /\ Still
        /\ \A c \in Convs : \A t \in Nat : Gapless(c, t) => Gapless(c, t)'
    BY <1>1, <1>2, <1>3, <1>4, <1>5, <1>6, <1>7, DiskMove
  <1>9. Memory'
    <2>1. \A k \in Keys : Alike(turns'[k], file'[k])
      BY <1>2, AlikeLaws
    <2>2. \A c \in Convs : Gapless(c, seq[c])'
      <3>1. \A c \in Convs : Gapless(c, seq'[c]) /\ seq'[c] \in Nat
        BY <1>3 DEF Gapless
      <3> QED BY <1>8, <3>1 DEF Gapless
    <2>3. \A c \in Convs : HeadOK(heads[c], c)' /\ headsFile'[c].seq =< heads'[c].seq
      BY <1>2, <1>3 DEF HeadOK
    <2>4. \A e \in Events : (Has(file, e) =>
            (Item(file, e).verified <=> Num(e) =< heads[Conv(e)].seq))'
      BY <1>3, <1>5 DEF Conv
    <2>5. flight'.step \notin Busy /\ completedFile' \subseteq completed'
          /\ \A k \in completed' : ~turns'[k].open
      BY <1>1, <1>2, <1>7
    <2> QED BY <1>2, <2>1, <2>2, <2>3, <2>4, <2>5 DEF Memory, Busy
  <1> QED BY <1>8, <1>9 DEF Ledger

-----------------------------------------------------------------------------
(* Karte takes the next entry *)

\* A proposal that Karte takes is for the event with the next number.
LEMMA KarteApplyLog ==
  ASSUME LogInv, NEW p \in outbox, KarteApply(p)
  PROVE  /\ Ledger' /\ \A c \in Convs : SameEntries(c)
         /\ p \in Proposals /\ Conv(p.event) \in Convs
         /\ canon' = [canon EXCEPT ![Conv(p.event)] = Append(@, p)]
         /\ Entry(Conv(p.event), Len(canon[Conv(p.event)]) + 1, p.event)
  <1> DEFINE c == Conv(p.event)
             L == Len(canon[c])
  <1>1. /\ TypeOK /\ Ledger /\ Disk /\ p \in Proposals /\ p.event \in Events
        /\ p.base \in Nat /\ c \in Convs /\ L \in Nat
        /\ canon \in [Convs -> Seq(Proposals)] /\ outbox \subseteq Proposals
    BY LogTypes DEF LogInv, IInv, SpoolInv, Ledger, TypeOK, Proposals
  <1>2. /\ p.base = L /\ canon' = [canon EXCEPT ![c] = Append(@, p)]
        /\ UNCHANGED <<phase, file, turns, seq, heads, completed, headsFile,
                       completedFile, flight, outbox>>
    BY DEF KarteApply, life, store, disk
  <1>3. Num(p.event) = L + 1 /\ Has(file, p.event)
    <2>1. Sent(p)
      BY <1>1 DEF Disk
    <2> QED BY <1>1, <1>2, <2>1 DEF Sent, Has, Num
  <1>4. /\ canon'[c] = Append(canon[c], p) /\ canon[c] \in Seq(Proposals)
        /\ \A d \in Convs \ {c} : canon'[d] = canon[d]
    BY <1>1, <1>2
  <1>5. /\ Len(canon'[c]) = L + 1 /\ canon'[c][L + 1] = p
        /\ \A n \in 1..L : canon'[c][n] = canon[c][n]
    BY <1>4
  <1>6. \A d \in Convs :
          /\ Len(canon[d]) \in Nat /\ Len(canon'[d]) \in Nat
          /\ Len(canon[d]) =< Len(canon'[d])
          /\ \A n \in 1..Len(canon[d]) : canon'[d][n] = canon[d][n]
          /\ \A n \in 1..Len(canon'[d]) :
               n \in 1..Len(canon[d]) \/ (d = c /\ n = L + 1 /\ canon'[d][n] = p)
    <2> SUFFICES ASSUME NEW d \in Convs
                 PROVE  /\ Len(canon[d]) \in Nat /\ Len(canon'[d]) \in Nat
                        /\ Len(canon[d]) =< Len(canon'[d])
                        /\ \A n \in 1..Len(canon[d]) : canon'[d][n] = canon[d][n]
                        /\ \A n \in 1..Len(canon'[d]) :
                             \/ n \in 1..Len(canon[d])
                             \/ d = c /\ n = L + 1 /\ canon'[d][n] = p
      OBVIOUS
    <2>1. CASE d = c
      BY <1>1, <1>5, <2>1
    <2>2. CASE d # c
      BY <1>1, <1>4, <2>2, LogTypes
    <2> QED BY <2>1, <2>2
  <1> HIDE DEF c, L
  <1>7. \A e : Num(e)' = Num(e) /\ Item(file, e)' = Item(file, e)
               /\ Has(file, e)' = Has(file, e) /\ Conv(e)' = Conv(e)
    BY <1>2 DEF Num, Item, Has, Conv
  <1>8. \A d : Of(d)' = Of(d)
    BY DEF Of, Conv, Events
  <1>9. ASSUME NEW d \in Convs PROVE Placed(d)'
    <2>1. Placed(d)
      BY <1>1 DEF Disk
    <2>2. \A n \in 1..Len(canon[d]) : canon[d][n].event # p.event
      <3> SUFFICES ASSUME NEW n \in 1..Len(canon[d]), canon[d][n].event = p.event
                   PROVE  FALSE
        OBVIOUS
      <3>1. d = c /\ Num(p.event) = n
        BY <1>3, <2>1 DEF Placed, c
      <3> QED BY <1>1, <1>3, <3>1 DEF L
    <2>3. ASSUME NEW n \in 1..Len(canon'[d]), NEW e, e = canon'[d][n].event
          PROVE  /\ Conv(e) = d
                 /\ Has(file, e) => Num(e) = n
                 /\ Has(file, e) \/ (e[1] \in completedFile /\ n =< headsFile[d].seq)
                 /\ \A m \in 1..Len(canon'[d]) : canon'[d][m].event = e => m = n
      <3>1. CASE n \in 1..Len(canon[d])
        <4>1. e = canon[d][n].event /\ e # p.event
          BY <1>6, <2>2, <2>3, <3>1
        <4>2. /\ Conv(e) = d
              /\ Has(file, e) => Num(e) = n
              /\ Has(file, e) \/ (e[1] \in completedFile /\ n =< headsFile[d].seq)
              /\ \A m \in 1..Len(canon[d]) : canon[d][m].event = e => m = n
          BY <2>1, <3>1, <4>1 DEF Placed
        <4>3. ASSUME NEW m \in 1..Len(canon'[d]), canon'[d][m].event = e
              PROVE  m = n
          <5>1. m \in 1..Len(canon[d])
            BY <1>6, <4>1, <4>3
          <5>2. canon'[d][m] = canon[d][m]
            BY <1>6, <5>1
          <5> QED BY <4>2, <4>3, <5>1, <5>2
        <4> QED BY <4>2, <4>3
      <3>2. CASE n \notin 1..Len(canon[d])
        <4>1. d = c /\ n = L + 1 /\ e = p.event
          BY <1>6, <2>3, <3>2
        <4>2. ASSUME NEW m \in 1..Len(canon'[d]), canon'[d][m].event = e
              PROVE  m = n
          <5>1. m \notin 1..Len(canon[d])
            BY <1>6, <2>2, <4>1, <4>2
          <5> QED BY <1>6, <4>1, <5>1
        <4> QED BY <1>3, <4>1, <4>2 DEF c
      <3> QED BY <3>1, <3>2
    <2> QED BY <1>2, <1>7, <2>3 DEF Placed
  <1>10. ASSUME NEW d \in Convs, NEW t \in Nat, Gapless(d, t) PROVE Gapless(d, t)'
    <2>1. Len(canon[d]) =< t /\ (\A e \in Of(d) : Num(e) =< t)
      BY <1>10 DEF Gapless
    <2>2. Len(canon'[d]) =< t
      <3>1. CASE d = c
        <4>1. p.event \in Of(d)
          BY <1>1, <3>1 DEF Of, c
        <4> QED BY <1>3, <1>5, <2>1, <3>1, <4>1
      <3>2. CASE d # c
        BY <1>4, <2>1, <3>2
      <3> QED BY <3>1, <3>2
    <2>3. ASSUME NEW n \in (Len(canon'[d]) + 1)..t PROVE \E e \in Of(d) : Num(e) = n
      <3>1. n \in (Len(canon[d]) + 1)..t
        BY <1>6, <2>3
      <3> QED BY <1>10, <3>1 DEF Gapless
    <2> QED BY <1>7, <1>8, <2>1, <2>2, <2>3 DEF Gapless
  <1>11. ASSUME NEW d \in Convs, NEW h, h.seq \in Nat, HeadOK(h, d) PROVE HeadOK(h, d)'
    BY <1>6, <1>11 DEF HeadOK
  <1>12. \A d \in Convs : HeadOK(headsFile[d], d)'
    BY <1>1, <1>2, <1>11, LogTypes DEF Disk, HeadOK
  <1>13. \A e \in Events : Numbered(e)'
    BY <1>1, <1>2, <1>7, <1>8 DEF Disk, Numbered
  <1>14. \A q \in outbox : Sent(q)'
    <2> SUFFICES ASSUME NEW q \in outbox PROVE Sent(q)'
      OBVIOUS
    <2>1. /\ Sent(q) /\ q.base \in Nat /\ Conv(q.event) \in Convs /\ q.seq \in Nat
      BY <1>1, LogTypes DEF Disk, Proposals
    <2>2. q.seq =< Len(canon[Conv(q.event)]) => q.seq \in 1..Len(canon[Conv(q.event)])
      BY <1>1, <2>1, LogTypes DEF Sent
    <2> QED BY <1>6, <1>7, <2>1, <2>2 DEF Sent
  <1>15. Disk'
    <2>1. \A d \in Convs : \E t \in Nat : Gapless(d, t)'
      BY <1>1, <1>10 DEF Disk
    <2>2. (\A k \in completedFile' : ~file'[k].open) /\ (\A q \in outbox' : Sent(q)')
      BY <1>1, <1>2, <1>14 DEF Disk
    <2> QED BY <1>9, <1>12, <1>13, <2>1, <2>2 DEF Disk
  <1>16. ASSUME phase' # "down" PROVE Memory'
    <2>1. Memory /\ \A d \in Convs : /\ seq[d] \in Nat /\ Gapless(d, seq[d])
                                     /\ heads[d].seq \in Nat /\ HeadOK(heads[d], d)
      BY <1>1, <1>2, <1>16, LogTypes DEF Ledger, Memory
    <2>2. \A d \in Convs : Gapless(d, seq[d])'
      BY <1>2, <1>10, <2>1 DEF Gapless
    <2>3. \A d \in Convs : HeadOK(heads[d], d)' /\ headsFile'[d].seq =< heads'[d].seq
      BY <1>2, <1>11, <2>1 DEF Memory, HeadOK
    <2>4. \A e \in Events : (Has(file, e) =>
            (Item(file, e).verified <=> Num(e) =< heads[Conv(e)].seq))'
      BY <1>2, <1>7, <2>1 DEF Memory
    <2>5. (flight.step \in Busy => Num(flight.event) = heads[Conv(flight.event)].seq + 1)'
      BY <1>2, <1>7, <2>1 DEF Memory, Busy
    <2>6. /\ \A k \in Keys : Alike(turns'[k], file'[k])
          /\ completedFile' \subseteq completed' /\ \A k \in completed' : ~turns'[k].open
      BY <1>2, <2>1 DEF Memory
    <2>7. phase' = "loading" => headsFile' = heads'
      BY <1>2, <2>1 DEF Memory
    <2> QED BY <2>2, <2>3, <2>4, <2>5, <2>6, <2>7 DEF Memory
  <1>17. ASSUME NEW d \in Convs, NEW n \in Nat \ {0}, NEW e \in Events
         PROVE  Entry(d, n, e)' <=> Entry(d, n, e)
    <2>1. CASE n =< Len(canon[d])
      BY <1>6, <2>1 DEF Entry
    <2>2. CASE n > Len(canon'[d])
      BY <1>6, <1>7, <2>2 DEF Entry
    <2>3. CASE ~(n =< Len(canon[d])) /\ ~(n > Len(canon'[d]))
      <3>1. d = c /\ n = L + 1 /\ canon'[d][n] = p /\ n =< Len(canon'[d])
        BY <1>6, <2>3
      <3>2. Entry(d, n, e)' <=> e = p.event
        BY <3>1 DEF Entry
      <3>3. Entry(d, n, e) <=> Conv(e) = c /\ Num(e) = L + 1
        BY <2>3, <3>1 DEF Entry
      <3>4. Conv(e) = c /\ Num(e) = L + 1 => e = p.event
        BY <1>1, <1>3 DEF Disk, Numbered, Of, Num, Has, c
      <3> QED BY <1>3, <3>2, <3>3, <3>4 DEF c
    <2> QED BY <1>6, <2>1, <2>2, <2>3
  <1>18. Entry(c, L + 1, p.event)
    BY <1>1, <1>3 DEF Entry, L, c
  <1>19. Ledger' /\ \A d \in Convs : SameEntries(d)
    BY <1>15, <1>16, <1>17 DEF Ledger, SameEntries
  <1> QED BY <1>1, <1>2, <1>18, <1>19 DEF c, L

-----------------------------------------------------------------------------
(* The refinement *)

\* The spool begins with nothing said and nothing delivered.
LEMMA InitLog == Init => LogInv /\ Log!LogInit
  <1> SUFFICES ASSUME Init PROVE Ledger /\ Log!LogInit
    BY InitIInv DEF LogInv
  <1>1. TypeOK
    BY InitIInv DEF IInv, SpoolInv
  <1>2. /\ file = [k \in Keys |-> NoTurn] /\ turns = file
        /\ heads = [c \in Convs |-> NoHead] /\ headsFile = heads
        /\ completed = {} /\ completedFile = {} /\ outbox = {}
        /\ seq = [c \in Convs |-> 0] /\ canon = [c \in Convs |-> <<>>]
        /\ flight = NoFlight /\ phase = "up"
    BY DEF Init
  <1>3. \A e \in Events : Num(e) = 0 /\ ~Has(file, e)
    <2>1. \A e \in Events : Item(file, e) = NoItem
      BY <1>2, EventPair DEF Item, NoTurn
    <2> QED BY <2>1 DEF Num, Has, NoItem
  <1>4. \A c \in Convs : /\ Len(canon[c]) = 0 /\ canon[c] = <<>> /\ seq[c] = 0
                         /\ headsFile[c].seq = 0 /\ headsFile[c].rev = 0
    BY <1>2 DEF NoHead
  <1>5. \A c \in Convs : Gapless(c, 0)
    BY <1>3, <1>4 DEF Gapless, Of
  <1>6. \A c \in Convs : Placed(c) /\ HeadOK(headsFile[c], c)
    BY <1>4 DEF Placed, HeadOK
  <1>7. Disk
    BY <1>2, <1>3, <1>5, <1>6 DEF Disk, Numbered
  <1>8. Memory
    BY <1>2, <1>3, <1>4, <1>5, <1>6, AlikeLaws DEF Memory, NoFlight, Busy
  <1>9. \A c \in Convs : Accepted(c) = <<>>
    <2> SUFFICES ASSUME NEW c \in Convs PROVE Accepted(c) = <<>>
      OBVIOUS
    <2>1. PICK s : s = Accepted(c)
      OBVIOUS
    <2>2. /\ s \in Seq(Events)
          /\ \A n \in 1..Len(s) : Entry(c, n, s[n])
      BY <1>1, <1>7, <2>1, AcceptedBook DEF Book
    <2>3. \A n \in 1..Len(s) : FALSE
      BY <1>3, <1>4, <2>2 DEF Entry
    <2>4. Len(s) = 0
      BY <2>2, <2>3
    <2> QED BY <2>1, <2>2, <2>4
  <1>10. Log!LogInit
    BY <1>4, <1>9 DEF Log!LogInit
  <1> QED BY <1>7, <1>8, <1>10 DEF Ledger

\* Every step of the spool accepts an entry, delivers one, or is none of the
\* log's business.
LEMMA LogStep ==
  ASSUME "late" \notin Faults, LogInv, [Next]_vars
  PROVE  LogInv' /\ [Log!LogNext]_(Log!logVars)
  <1>1. IInv' /\ TypeOK' /\ TypeOK
    BY IInvStep DEF LogInv, IInv, SpoolInv
  <1>2. \/ Ledger' /\ (Still \/ Accepts)
        \/ \E p \in outbox : KarteApply(p)
    <2>1. CASE Interaction
      BY <2>1, BeginLog, CheckpointLog, FinishLog, SettingsLog DEF Interaction
    <2>2. CASE Settings
      BY <2>2, RetryLog, SettingsLog DEF Settings
    <2>3. CASE Dispatcher
      BY <2>3, ConfirmLog, DispatchLog, PrepareLog, RecordFailureLog, SendLog,
         SettingsLog DEF Dispatcher
    <2>4. CASE Restart
      BY <2>4, FinishLog, OpenLog, RecoverVerifiedLog, SettingsLog DEF Restart
    <2>5. CASE Failure
      BY <2>5, ConfirmLog, CrashLog, SettingsLog DEF Failure
    <2>6. CASE Karte
      BY <2>6, SettingsLog DEF Karte
    <2>7. CASE UNCHANGED vars
      BY <2>7, SettingsLog
    <2> QED BY <2>1, <2>2, <2>3, <2>4, <2>5, <2>6, <2>7 DEF Next
  <1>3. Disk
    BY DEF LogInv, Ledger
  <1>4. CASE Ledger' /\ Still
    <2>1. (TypeOK /\ Disk)'
      BY <1>1, <1>4 DEF Ledger
    <2>2. UNCHANGED Log!logVars
      BY <1>1, <1>3, <1>4, <2>1, LogStutter DEF Still
    <2> QED BY <1>1, <1>4, <2>2 DEF LogInv
  <1>5. CASE Ledger' /\ Accepts
    <2>1. (TypeOK /\ Disk)'
      BY <1>1, <1>5 DEF Ledger
    <2>2. Log!LogNext
      BY <1>1, <1>3, <1>5, <2>1, LogAccept DEF Accepts
    <2> QED BY <1>1, <1>5, <2>2 DEF LogInv
  <1>6. CASE \E p \in outbox : KarteApply(p)
    <2>1. PICK p \in outbox : KarteApply(p)
      BY <1>6
    <2>2. /\ Ledger' /\ \A c \in Convs : SameEntries(c)
          /\ p \in Proposals /\ Conv(p.event) \in Convs
          /\ canon' = [canon EXCEPT ![Conv(p.event)] = Append(@, p)]
          /\ Entry(Conv(p.event), Len(canon[Conv(p.event)]) + 1, p.event)
      BY <2>1, KarteApplyLog
    <2>3. (TypeOK /\ Disk)'
      BY <1>1, <2>2 DEF Ledger
    <2>4. Log!LogNext
      BY <1>1, <1>3, <2>2, <2>3, LogDeliver
    <2> QED BY <1>1, <2>2, <2>4 DEF LogInv
  <1> QED BY <1>2, <1>4, <1>5, <1>6

\* The ledger is kept: the files number the events of a conversation without
\* gaps or repetitions, Karte's record is the beginning of that numbering, and
\* what the process holds agrees with both (store.go: New, Begin, Finish,
\* advanceHead, confirm).
THEOREM LedgerInvariant ==
  ASSUME "late" \notin Faults
  PROVE  Spec => []LogInv
  <1>1. Init => LogInv
    BY InitLog
  <1>2. LogInv /\ [Next]_vars => LogInv'
    BY LogStep
  <1> QED BY <1>1, <1>2, PTL DEF Spec

\* The spool implements the abstract log: accepted events are numbered without
\* gaps or repetitions, none is lost by a crash, a failed write or a retry, and
\* Karte's record is at every moment a prefix of them, each event once.
THEOREM SpoolImplementsLog ==
  ASSUME "late" \notin Faults
  PROVE  Spec => ImplementsLog
  <1>1. Init => LogInv /\ Log!LogInit
    BY InitLog
  <1>2. LogInv /\ [Next]_vars => LogInv' /\ [Log!LogNext]_(Log!logVars)
    BY LogStep
  <1> QED BY <1>1, <1>2, PTL DEF Spec, ImplementsLog, Log!LogSpec

\* No number is given twice on disk, where the order of delivery is read from
\* after a restart (store.go: Begin, Finish, recover).
THEOREM NumbersOnce ==
  ASSUME "late" \notin Faults
  PROVE  Spec => []SeqsDistinct
  <1>1. LogInv => SeqsDistinct
    BY DEF LogInv, Ledger, Disk, Numbered, SeqsDistinct, Of, Num
  <1> QED BY <1>1, LedgerInvariant, PTL

===============================================================================
