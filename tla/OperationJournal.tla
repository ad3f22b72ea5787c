--------------------------- MODULE OperationJournal ---------------------------
(***************************************************************************)
(* The event history of one operation: the append-only journal with its    *)
(* torn writes, repairs and compaction, the bounded window in memory, the  *)
(* debt of events that could not be written, and a client that follows by  *)
(* sequence number.  Every step runs under the manager's mutex.            *)
(***************************************************************************)
EXTENDS Absence, Filtering, SequencesExt

CONSTANTS
    MaxEvents,      \* events the window and a compacted journal retain
    MaxLines,       \* the journal's byte cap, in lines of one size
    Writes,         \* the outcomes of a write that are considered
    MaxSequence,    \* bound: sequence numbers handed out
    MaxDebt         \* bound: lost events not yet accounted for

ASSUME JournalConstants ==
    /\ MaxEvents \in Nat \ {0} /\ MaxLines \in Nat \ {0}
    /\ Writes \subseteq {"all", "nothing", "part", "no newline"}
    /\ MaxSequence \in Nat \ {0} /\ MaxDebt \in Nat \ {0}

VARIABLES
    journal,        \* <id>.jsonl: its lines, what its last bytes are, and
                    \* whether an append handle is open
    window,         \* m.events
    debt,           \* m.droppedEvents
    reader          \* the client: its position, the events and the gap
                    \* markers it was given

journalVars == <<journal, window, debt, reader>>

(* A line is the event it holds, or None when it does not parse.           *)
Event == [seq: 1..MaxSequence, gap: BOOLEAN]
Real(n) == [seq |-> n, gap |-> FALSE]
Gap(n) == [seq |-> n, gap |-> TRUE]

(* clean: ends in a newline; unterminated: the last line lacks it; torn: a *)
(* part of a line follows the last one.                                    *)
Tails == {"clean", "unterminated", "torn"}
Journal == [lines: Seq(Event \cup {None}), tail: Tails, open: BOOLEAN]

ASSUME JournalRecords == None \notin Event

-----------------------------------------------------------------------------
(* Reading.                                                                *)

Suffix(s, n) == SubSeq(s, Max({1, Len(s) - n + 1}), Len(s))
First(es) == IF es = <<>> THEN 1 ELSE es[1].seq
Sequence(es) == IF es = <<>> THEN 0 ELSE es[Len(es)].seq
Sequences(es, gap) == {e.seq : e \in {e \in ToSet(es) : e.gap = gap}}
After(es, n) == Filtered(es, {e \in ToSet(es) : e.seq > n})

(* The longest prefix of parsing lines with increasing sequences.          *)
Sound(ls) ==
    Max({n \in 0..Len(ls) : /\ \A i \in 1..n : ls[i] # None
                            /\ \A i \in 1..n-1 : ls[i].seq < ls[i + 1].seq})
Damaged(j) == Sound(j.lines) < Len(j.lines) \/ j.tail = "torn"
Parsed(j) == SubSeq(j.lines, 1, Sound(j.lines))

(* scanLocked repairs: damage is cut off, a missing newline is added.      *)
Repaired(j) == [lines |-> Parsed(j), tail |-> "clean", open |-> j.open /\ ~Damaged(j)]

(* Mutant: a jump of the sequence is passed over.                          *)
HolesUnmarked(es) == {}

(* sort.Slice of events with sequences of their own.                       *)
InOrder(es) ==
    [i \in 1..Cardinality(es) |-> CHOOSE e \in es : Cardinality({d \in es : d.seq <= e.seq}) = i]

(* loadEvents merges markers for the holes and for the damage.             *)
Holes(es) == {Gap(es[i].seq + 1) : i \in {i \in 1..Len(es)-1 : es[i + 1].seq > es[i].seq + 1}}
Loaded(j) ==
    LET es == Parsed(j)
        markers == Holes(es) \cup (IF Damaged(j) THEN {Gap(Sequence(es) + 1)} ELSE {}) IN
    InOrder(ToSet(es) \cup markers)

(* replayLocked: the window when it reaches back far enough, else the      *)
(* journal.                                                                *)
FromWindow(n) == window = <<>> \/ n >= First(window) - 1

(* Mutant: only who reads from the start is told what compaction dropped.  *)
ReplayUntold(n) ==
    LET es == Loaded(journal)
        head == IF n = 0 /\ First(es) > 1 THEN <<Gap(First(es) - 1)>> ELSE <<>> IN
    CASE FromWindow(n) -> After(window, n)
      [] ~FromWindow(n) /\ es = <<>> -> <<Gap(First(window) - 1)>> \o After(window, n)
      [] OTHER -> After(head \o es, n)

Replay(n) ==
    LET es == Loaded(journal)
        head == IF First(es) > n + 1 THEN <<Gap(First(es) - 1)>> ELSE <<>> IN
    CASE FromWindow(n) -> After(window, n)
      [] ~FromWindow(n) /\ es = <<>> -> <<Gap(First(window) - 1)>> \o After(window, n)
      [] OTHER -> After(head \o es, n)

-----------------------------------------------------------------------------
(* Writing.                                                                *)

(* journalLocked ends an unfinished line before it reuses the file.        *)
Opened(j) ==
    IF j.open THEN j
    ELSE [lines |-> IF j.tail = "torn" THEN Append(j.lines, None) ELSE j.lines,
          tail |-> "clean", open |-> TRUE]

(* compactLocked keeps what fits the lower watermark with the new line.    *)
Compacted(j) ==
    LET keep == Min({MaxEvents, Max({1, (MaxLines * 3) \div 4 - 1})}) IN
    [lines |-> Suffix(Parsed(j), keep), tail |-> "clean", open |-> FALSE]

Ready(j) == LET o == Opened(j) IN
            IF Len(o.lines) + 1 > MaxLines THEN Opened(Compacted(o)) ELSE o

(* One write: all of the line, nothing, a part of it, or all but its       *)
(* newline; only the first is a success.  On an unfinished line it makes   *)
(* one line that does not parse.                                           *)
Joined(j) == IF j.tail = "unterminated" THEN Front(j.lines) ELSE j.lines
Written(j, e, w) ==
    CASE w = "nothing" -> j
      [] w = "all" /\ j.tail = "clean" -> [j EXCEPT !.lines = Append(@, e)]
      [] w = "all" /\ j.tail # "clean" -> [j EXCEPT !.lines = Append(Joined(j), None), !.tail = "clean"]
      [] w = "no newline" /\ j.tail = "clean" ->
            [j EXCEPT !.lines = Append(@, e), !.tail = "unterminated"]
      [] OTHER -> [j EXCEPT !.lines = Joined(j), !.tail = "torn"]

(* Mutant: the window in memory is not cut.                                *)
PushedAll(es, e) == Append(es, e)

Pushed(es, e) == Suffix(Append(es, e), MaxEvents)
Next1 == Sequence(window) + 1

(* appendEventLocked without a debt: the event, or one more lost.          *)
AppendEvent(w) ==
    /\ debt = 0 /\ Next1 <= MaxSequence
    /\ journal' = Written(Ready(journal), Real(Next1), w)
    /\ IF w = "all" THEN window' = Pushed(window, Real(Next1)) /\ debt' = 0
       ELSE debt' = 1 /\ UNCHANGED window
    /\ UNCHANGED reader

(* With a debt the marker goes first; the event is lost with it when the   *)
(* marker cannot be written, and opens a new debt when only it cannot.     *)
AppendAfterDebt(w1, w2) ==
    LET j == Written(Ready(journal), Gap(Next1), w1) IN
    /\ debt > 0 /\ Next1 + 1 <= MaxSequence
    /\ IF w1 # "all"
       THEN /\ journal' = j /\ debt' = Min({debt + 1, MaxDebt})
            /\ UNCHANGED window
       ELSE LET told == Pushed(window, Gap(Next1)) IN
            /\ journal' = Written(Ready(j), Real(Next1 + 1), w2)
            /\ IF w2 = "all" THEN window' = Pushed(told, Real(Next1 + 1)) /\ debt' = 0
               ELSE window' = told /\ debt' = 1
    /\ UNCHANGED reader

(* The handle of a finished operation is released.                         *)
CloseJournal ==
    /\ journal.open
    /\ journal' = [journal EXCEPT !.open = FALSE]
    /\ UNCHANGED <<window, debt, reader>>

(* EventsAfter of the client's position; reading the file repairs it.      *)
ReadOn ==
    LET es == Replay(reader.pos) IN
    /\ es # <<>>
    /\ reader' = [pos |-> Sequence(es),
                  got |-> reader.got \cup Sequences(es, FALSE),
                  gaps |-> reader.gaps \cup Sequences(es, TRUE)]
    /\ journal' = IF FromWindow(reader.pos) THEN journal ELSE Repaired(journal)
    /\ UNCHANGED <<window, debt>>

(* The process dies and starts; what was written stays written.  The debt  *)
(* is forgotten.                                                           *)
JournalRestart ==
    /\ window' = Suffix(Loaded(journal), MaxEvents)
    /\ journal' = [Repaired(journal) EXCEPT !.open = FALSE]
    /\ debt' = 0
    /\ UNCHANGED reader

-----------------------------------------------------------------------------
JournalInit ==
    /\ journal = [lines |-> <<>>, tail |-> "clean", open |-> FALSE]
    /\ window = <<>>
    /\ debt = 0
    /\ reader = [pos |-> 0, got |-> {}, gaps |-> {}]

JournalNext ==
    \/ \E w \in Writes : AppendEvent(w)
    \/ \E w1, w2 \in Writes : AppendAfterDebt(w1, w2)
    \/ CloseJournal
    \/ ReadOn
    \/ JournalRestart

JournalSpec == JournalInit /\ [][JournalNext]_journalVars

-----------------------------------------------------------------------------
(* Properties                                                              *)

JournalTypeOK ==
    /\ journal \in Journal
    /\ Len(journal.lines) <= MaxLines + 1
    /\ window \in Seq(Event) /\ Len(window) <= MaxEvents
    /\ debt \in 0..MaxDebt
    /\ reader \in [pos: 0..MaxSequence, got: SUBSET (1..MaxSequence), gaps: SUBSET (1..MaxSequence)]

(* What is missing of 1..n is accounted for: each run of missing sequences *)
(* has a marker in it.                                                     *)
Accounted(n, got, gaps) ==
    LET missed == (1..n) \ got IN
    \A m \in missed : \E g \in gaps :
        (Min({m, g})..Max({m, g})) \subseteq missed

(* A client that reads the history from its start is told of every hole in *)
(* it, over torn writes, compaction, repairs and restarts (loadEvents,     *)
(* replayLocked).                                                          *)
WholeReplayIsHonest ==
    LET es == Replay(0) IN
    Accounted(Sequence(es), Sequences(es, FALSE), Sequences(es, TRUE))

(* So is a client that goes on from its last event, if the history still   *)
(* has that event or all that is kept begins behind it: "a gap event marks *)
(* the truncation instead of silently returning a shorter stream"          *)
(* (replayLocked).                                                         *)
ResumedReplayIsHonest ==
    LET whole == Replay(0) IN
    \A n \in Sequences(whole, FALSE) \cup 0..Min({First(whole), First(window)}) - 1 :
        LET es == Replay(n) IN
        Accounted(Sequence(es), (1..n) \cup Sequences(es, FALSE), Sequences(es, TRUE))

(* The same of whatever a client was sent.  It fails when its last event   *)
(* is no longer there: the marker of that hole may lie before it.          *)
NoSilentHole == Accounted(reader.pos, reader.got, reader.gaps)
=============================================================================
