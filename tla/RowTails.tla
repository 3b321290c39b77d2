------------------------------ MODULE RowTails ------------------------------
(***************************************************************************)
(* How panes follow sessions that are kept in a database: Hermes' messages *)
(* (hermes.rs HermesTailer), rows that are only added, and OpenCode's      *)
(* parts (opencode.rs OpenCodeTailer), rows that are changed in place.     *)
(*                                                                         *)
(* A poll is a few queries, each of which sees the tables as they are then *)
(* and may fail; what was read is shown only if the last one succeeds.     *)
(***************************************************************************)
EXTENDS Naturals, Sequences, SequencesExt, FiniteSets

CONSTANTS
  None,
  Windows,   \* how many of the newest rows a pane may replay
  Limit,     \* rows of a query: 500, 1000
  Period,    \* every so many polls the counters are read: 7
  MaxRows, MaxTime, MaxFails

RowsAssumption ==
  /\ Windows \subseteq Nat \ {0} /\ {Limit, MaxRows} \subseteq Nat \ {0}
  /\ Period \in Nat \ {0, 1} /\ {MaxTime, MaxFails} \subseteq Nat

VARIABLES
  messages,  \* Hermes: IDs of the session's rows; other sessions have the rest
  parts,     \* OpenCode: the session's rows, in the order of their rowids
  clock,     \* in milliseconds
  over,      \* ended_at, time_archived
  tail,      \* HermesTailer
  part,      \* OpenCodeTailer
  fails

rvars == <<messages, parts, clock, over, tail, part, fails>>

\* The lines of a poll in progress are in "lines", those shown in "said".  The
\* history "lost" holds rows that were read by a poll that failed, "tied"
\* parts that took the time of the newest part read after it was read.
NewTail(window) ==
  [at |-> "idle", window |-> window, from |-> None, last |-> None, tick |-> 0,
   closed |-> FALSE, lines |-> <<>>, said |-> <<>>, lost |-> {}]
NewPart(window) ==
  [at |-> "idle", window |-> window, mark |-> None, from |-> None, tick |-> 0,
   closed |-> FALSE, seen |-> [p \in {} |-> None], lines |-> <<>>, said |-> <<>>,
   lost |-> {}, tied |-> {}]

Limited(seq) == SubSeq(seq, 1, IF Len(seq) < Limit THEN Len(seq) ELSE Limit)
Newest(seq, n) == SubSeq(seq, IF Len(seq) > n THEN Len(seq) - n + 1 ELSE 1, Len(seq))
Smallest(S) == CHOOSE n \in S : \A m \in S : n <= m
Counts(t) == (t + 1) % Period = 1

Fails == fails < MaxFails /\ fails' = fails + 1
-----------------------------------------------------------------------------
(* Hermes. *)

Ids == SetToSortSeq(messages, <)

\* Just below the oldest row of the window, or below all of them.
Seed ==
  /\ tail.at = "idle" /\ ~tail.closed /\ tail.last = None
  /\ LET from == IF Ids = <<>> THEN 0 ELSE Smallest(ToSet(Newest(Ids, tail.window))) - 1
     IN tail' = [tail EXCEPT !.last = from, !.from = from]
  /\ UNCHANGED <<messages, parts, clock, over, part, fails>>

\* Rows are behind the cursor once they are read.
ReadRows ==
  /\ tail.at = "idle" /\ ~tail.closed /\ tail.last # None
  /\ LET rows == Limited(SelectSeq(Ids, LAMBDA i : i > tail.last))
     IN tail' = [tail EXCEPT !.at = "rows", !.lines = rows,
                             !.last = IF rows = <<>> THEN @ ELSE Last(rows)]
  /\ UNCHANGED <<messages, parts, clock, over, part, fails>>

\* The counters, and with them the end of the session, are read now and then.
ReadCounters ==
  /\ tail.at = "rows"
  /\ tail' = [tail EXCEPT !.at = "idle", !.tick = (@ + 1) % Period,
                          !.said = @ \o tail.lines, !.lines = <<>>,
                          !.closed = Counts(tail.tick) /\ over]
  /\ UNCHANGED <<messages, parts, clock, over, part, fails>>

\* An error there takes the rows along.
CountersFail ==
  /\ tail.at = "rows" /\ Counts(tail.tick) /\ Fails
  /\ tail' = [tail EXCEPT !.at = "idle", !.tick = (@ + 1) % Period,
                          !.lost = @ \cup ToSet(tail.lines), !.lines = <<>>]
  /\ UNCHANGED <<messages, parts, clock, over, part>>

TailStep == Seed \/ ReadRows \/ ReadCounters \/ CountersFail
-----------------------------------------------------------------------------
(* OpenCode. *)

\* What is new of a part, given what was last shown of it: a call once and its
\* result once it is there, anything else once.
Finished == {"completed", "error"}
Rendered(p, status, was) ==
  CASE status = "bad" -> <<<<p, "skip">>>>
    [] status = "text" -> IF was = None THEN <<<<p, "text">>>> ELSE <<>>
    [] OTHER ->
         (IF was = None THEN <<<<p, "call">>>> ELSE <<>>)
           \o (IF status \in Finished /\ status # was THEN <<<<p, status>>>> ELSE <<>>)

Was(seen, p) == IF p \in DOMAIN seen THEN seen[p] ELSE None
Remembered(seen, p, status) ==
  IF status = "bad" THEN seen
  ELSE [q \in DOMAIN seen \cup {p} |->
          IF q # p THEN seen[q]
          ELSE IF status = "text" /\ p \in DOMAIN seen THEN seen[p] ELSE status]

SeedMark ==
  /\ part.at = "idle" /\ ~part.closed /\ part.mark = None
  /\ LET from == IF parts = <<>> THEN 0
                 ELSE Smallest({p.time : p \in ToSet(Newest(parts, part.window))}) - 1
     IN part' = [part EXCEPT !.mark = from, !.from = from]
  /\ UNCHANGED <<messages, parts, clock, over, tail, fails>>

\* Parts changed after the mark, in the order they were changed in.
Changed ==
  SetToSortSeq({i \in DOMAIN parts : parts[i].time > part.mark},
               LAMBDA i, j : \/ parts[i].time < parts[j].time
                             \/ parts[i].time = parts[j].time /\ i < j)

Show(p, i) ==
  LET status == parts[i].status
      was == Was(p.seen, i)
  IN [p EXCEPT !.mark = IF parts[i].time > @ THEN parts[i].time ELSE @,
               !.lines = @ \o Rendered(i, status, was),
               !.seen = Remembered(@, i, status)]

ReadParts ==
  /\ part.at = "idle" /\ ~part.closed /\ part.mark # None
  /\ LET rows == Limited(Changed)
         next == FoldLeft(Show, [part EXCEPT !.at = "rows"], rows)
         cut == {i \in ToSet(Changed) \ ToSet(rows) : parts[i].time = next.mark}
     IN part' = [next EXCEPT !.tied = (@ \ ToSet(rows)) \cup cut]
  /\ UNCHANGED <<messages, parts, clock, over, tail, fails>>

ReadStats ==
  /\ part.at = "rows"
  /\ part' = [part EXCEPT !.at = "idle", !.tick = (@ + 1) % Period,
                          !.said = @ \o part.lines, !.lines = <<>>,
                          !.closed = Counts(part.tick) /\ over]
  /\ UNCHANGED <<messages, parts, clock, over, tail, fails>>

StatsFail ==
  /\ part.at = "rows" /\ Counts(part.tick) /\ Fails
  /\ part' = [part EXCEPT !.at = "idle", !.tick = (@ + 1) % Period,
                          !.lost = @ \cup ToSet(part.lines), !.lines = <<>>]
  /\ UNCHANGED <<messages, parts, clock, over, tail>>

PartStep == SeedMark \/ ReadParts \/ ReadStats \/ StatsFail
-----------------------------------------------------------------------------
(* The agents write to their databases. *)

Speaks ==
  /\ \E id \in 1 .. MaxRows :
       /\ \A m \in messages : m < id
       /\ messages' = messages \cup {id}
  /\ UNCHANGED <<parts, clock, over, tail, part, fails>>

Tied(i) ==
  part' = [part EXCEPT !.tied = IF part.mark # None /\ clock <= part.mark
                                THEN @ \cup {i} ELSE @ \ {i}]

Adds ==
  /\ Len(parts) < MaxRows
  /\ \E status \in {"text", "pending", "completed", "bad"} :
       parts' = Append(parts, [status |-> status, time |-> clock])
  /\ Tied(Len(parts) + 1)
  /\ UNCHANGED <<messages, clock, over, tail, fails>>

\* A part is changed in place, a tool's from call to result.
Touches ==
  /\ \E i \in DOMAIN parts :
       /\ \E status \in {parts[i].status}
                          \cup (IF parts[i].status = "pending" THEN Finished ELSE {}) :
            parts' = [parts EXCEPT ![i] = [status |-> status, time |-> clock]]
       /\ parts' # parts /\ Tied(i)
  /\ UNCHANGED <<messages, clock, over, tail, fails>>

Ticks ==
  /\ clock < MaxTime /\ clock' = clock + 1
  /\ UNCHANGED <<messages, parts, over, tail, part, fails>>

SessionEnds ==
  /\ ~over /\ over' = TRUE
  /\ UNCHANGED <<messages, parts, clock, tail, part, fails>>

RInit ==
  /\ messages \in SUBSET (1 .. MaxRows - 1)
  /\ parts \in {<<>>, <<[status |-> "pending", time |-> 1]>>}
  /\ clock = 1 /\ over = FALSE /\ fails = 0
  /\ \E window \in Windows : tail = NewTail(window) /\ part = NewPart(window)
-----------------------------------------------------------------------------
\* A Hermes pane has said every message from its window on up to its cursor,
\* once and in order, but for those that were read by a poll that failed
\* (HermesTailer::poll_inner).
MessagesInOrder ==
  tail.last # None =>
    tail.said \o tail.lines =
      SelectSeq(Ids, LAMBDA i : tail.from < i /\ i <= tail.last /\ i \notin tail.lost)

\* An OpenCode pane says a call once and before its result, and whatever else
\* once; the parts it has passed are remembered as they are, but for those
\* that changed in the millisecond of the newest one after that was read
\* (read_parts, render_opencode_part).
PartsInStep ==
  LET all == part.said \o part.lines IN
  /\ \A i, j \in DOMAIN all : all[i] = all[j] /\ all[i][2] # "skip" => i = j
  /\ \A i, j \in DOMAIN all :
       all[i][1] = all[j][1] /\ all[i][2] = "call" /\ all[j][2] # "call" => i < j
  /\ part.mark # None =>
       \A i \in DOMAIN parts :
         /\ part.from < parts[i].time /\ parts[i].time <= part.mark
         /\ i \notin part.tied /\ parts[i].status # "bad"
         => /\ Was(part.seen, i) = parts[i].status
            /\ parts[i].status \in Finished => <<i, parts[i].status>> \in ToSet(all) \cup part.lost
            /\ <<i, IF parts[i].status = "text" THEN "text" ELSE "call">>
                 \in ToSet(all) \cup part.lost
=============================================================================
