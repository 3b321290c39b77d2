----------------------------- MODULE JsonlTails -----------------------------
(***************************************************************************)
(* How JSONL transcripts are read while they change: Claude's totals and   *)
(* its pane (claude.rs), Codex rollouts (codex.rs) and Grok's history      *)
(* (grok.rs).  Every poll is split where the file may change in between.   *)
(* Offsets count pieces of lines; what records say is not looked at.       *)
(*                                                                         *)
(* The transcript: a path naming a file of lines that another program      *)
(* appends to, cuts short, replaces or removes whenever it likes.  A line  *)
(* is a record when its first piece is also its last, so that a torn or an *)
(* overlong line is none.                                                  *)
(***************************************************************************)
EXTENDS Naturals, Sequences, SequencesExt

CONSTANTS MaxFiles, MaxRecords, MaxChanges, MaxPieces

FileAssumption ==
  /\ {MaxFiles, MaxRecords, MaxPieces} \subseteq Nat \ {0} /\ MaxChanges \in Nat

VARIABLES
  path,      \* the file the path names, 0 for none
  disk,      \* every file that ever had the path; files stay while open
  files, changes,
  written,   \* records begun so far
  midway     \* the last of them has no end yet

fvars == <<path, disk, files, changes, written, midway>>

\* A piece of record r; piece 0 is the end of its line.
Cell(r, i) == [of |-> r, piece |-> i]
Whole(r) == <<Cell(r, 1), Cell(r, 0)>>
Ends(c) == c.piece = 0

Stamp(f) == [ident |-> disk[f].ident, len |-> Len(disk[f].cells), at |-> disk[f].at]

\* The record a line holds, as a sequence of at most one.
Parse(line) ==
  IF Len(line) = 1 /\ line[1].piece = 1 THEN <<line[1].of>> ELSE <<>>

\* Reference: the records of the complete lines that begin at "from" or later.
RecordsOf(cells, from) ==
  LET Is(e) == /\ Ends(cells[e]) /\ e - 2 >= from /\ e >= 2
               /\ cells[e - 1].piece = 1
               /\ e = 2 \/ Ends(cells[e - 2])
      found == SetToSortSeq({e \in DOMAIN cells : Is(e)}, <)
  IN [i \in DOMAIN found |-> cells[found[i] - 1].of]

Put(f, cells, cut) ==
  /\ changes < MaxChanges /\ changes' = changes + 1
  /\ disk' = [disk EXCEPT ![f] = [@ EXCEPT !.cells = cells, !.at = changes + 1,
                                           !.cuts = IF cut THEN @ + 1 ELSE @]]

Appends ==
  /\ path # 0
  /\ LET cells == disk[path].cells
         more == IF midway
                 THEN {Cell(written, 0)}
                        \cup {Cell(written, i) : i \in {Last(cells).piece + 1} \cap 1 .. MaxPieces}
                 ELSE {}
     IN \E c \in more \cup {Cell(r, 1) : r \in {written + 1} \cap 1 .. MaxRecords} :
          Put(path, Append(cells, c), FALSE) /\ written' = c.of /\ midway' = ~Ends(c)
  /\ UNCHANGED <<path, files>>

Shrinks ==
  /\ path # 0
  /\ \E n \in 0 .. Len(disk[path].cells) - 1 :
       Put(path, SubSeq(disk[path].cells, 1, n), TRUE)
  /\ midway' = FALSE
  /\ UNCHANGED <<path, files, written>>

\* Another file takes the path, with a part of the old one's text and perhaps
\* a record of its own; it may have got the old one's inode number.
Replaces ==
  /\ files < MaxFiles /\ changes < MaxChanges
  /\ LET old == IF path = 0 THEN <<>> ELSE disk[path].cells
     IN \E id \in {1, 2}, n \in 0 .. Len(old),
           w \in {written, written + 1} \cap 0 .. MaxRecords :
          /\ disk' = Append(disk,
               [ident |-> id, at |-> changes + 1, cuts |-> 0,
                cells |-> SubSeq(old, 1, n) \o (IF w > written THEN Whole(w) ELSE <<>>)])
          /\ written' = w
  /\ files' = files + 1 /\ path' = files + 1 /\ changes' = changes + 1
  /\ midway' = FALSE

Removes == path # 0 /\ path' = 0 /\ midway' = FALSE
           /\ UNCHANGED <<disk, files, written, changes>>

FileInit ==
  /\ \E n \in 0 .. MaxRecords - 1 :
       /\ written = n
       /\ disk = <<[ident |-> 1, at |-> 0, cuts |-> 0,
                    cells |-> FlattenSeq([r \in 1 .. n |-> Whole(r)])]>>
  /\ files = 1 /\ path \in {0, 1} /\ changes = 0 /\ midway = FALSE

OtherProgram == Appends \/ Shrinks \/ Replaces \/ Removes
-----------------------------------------------------------------------------
CONSTANTS
  None,
  Replays,    \* how much of the end of a file a pane may ask for
  ReadCap,    \* MAX_READ, and WINDOW of Grok
  LineCap,    \* MAX_RECORD
  AnchorCap   \* bytes kept to recognise what was read

TailsAssumption ==
  /\ Replays \subseteq Nat /\ {ReadCap, LineCap, AnchorCap} \subseteq Nat \ {0}

VARIABLES
  stats, counting,   \* ClaudeStats, and the size update has looked at
  pane, checking,    \* ClaudeTailer, and whether the path is still to be checked
  codex, opened,     \* Codex's Reader, and what a poll has opened
  grok, looked       \* Grok's Reader and transcript, and what a poll has seen

tvars == <<stats, counting, pane, checking, codex, opened, grok, looked>>
jvars == <<fvars, tvars>>
-----------------------------------------------------------------------------
Before(n, m) == IF n > m THEN n - m ELSE 0
Upto(cells, n) == SubSeq(cells, 1, n)
Least(m, n) == IF m < n THEN m ELSE n

\* Reading a piece: whole lines are said, unless they are discarded or longer
\* than a record may be.
Eat(r, c) ==
  LET at == [r EXCEPT !.offset = @ + 1]
  IN IF Ends(c)
     THEN [at EXCEPT !.said = IF r.skipping \/ r.start < r.from THEN @
                              ELSE @ \o Parse(r.line),
                     !.line = <<>>, !.skipping = FALSE, !.start = r.offset + 1]
     ELSE IF r.skipping THEN at
     ELSE IF Len(r.line) = LineCap THEN [at EXCEPT !.line = <<>>, !.skipping = TRUE]
     ELSE [at EXCEPT !.line = Append(@, c)]

Drained(r, cells, cap) ==
  FoldLeft(Eat, r, SubSeq(cells, r.offset + 1, Least(Len(cells), r.offset + cap)))
-----------------------------------------------------------------------------
\* ClaudeStats counts what was appended; a file that shrank is counted anew.
FreshStats == [offset |-> 0, counted |-> <<>>, of |-> <<0, 0>>]

StatsLook ==
  /\ counting = None /\ path # 0
  /\ LET size == Len(disk[path].cells)
     IN /\ stats' = IF size < stats.offset THEN FreshStats ELSE stats
        /\ counting' = IF size = stats'.offset THEN None ELSE size
StatsLooks ==
  StatsLook /\ UNCHANGED <<fvars, pane, checking, codex, opened, grok, looked>>

\* Complete lines are counted; a partial one is read again next time.
StatsRead ==
  /\ counting # None /\ counting' = None
  /\ IF path = 0 THEN stats' = stats
     ELSE LET cells == disk[path].cells
              rest == SubSeq(cells, stats.offset + 1, Len(cells))
              to == SelectLastInSeq(rest, Ends)
              read == FoldLeft(Eat, [offset |-> stats.offset, start |-> 0, from |-> 0,
                                     line |-> <<>>, skipping |-> FALSE,
                                     said |-> stats.counted], Upto(rest, to))
          IN stats' = [offset |-> read.offset, counted |-> read.said,
                       of |-> IF stats.offset = 0 THEN <<path, disk[path].cuts>>
                                                  ELSE stats.of]
  /\ UNCHANGED <<fvars, pane, checking, codex, opened, grok, looked>>
-----------------------------------------------------------------------------
\* ClaudeTailer holds the file it opened.  The replay window opens only once,
\* at the first line that begins in it.
NoPane(replay, first) ==
  [file |-> 0, cuts |-> 0, replay |-> replay, first |-> first,
   offset |-> 0, start |-> 0, from |-> 0, line |-> <<>>, skipping |-> FALSE,
   said |-> <<>>]

Entry(cells, replay) ==
  LET from == Len(cells) - replay
      after == {e \in from + 1 .. Len(cells) : Ends(cells[e])}
  IN IF Len(cells) <= replay THEN 0
     ELSE IF after = {} THEN Len(cells) ELSE CHOOSE e \in after : \A o \in after : e <= o

Opened(p) ==
  LET from == IF p.first THEN Entry(disk[path].cells, p.replay) ELSE 0
  IN [NoPane(p.replay, FALSE) EXCEPT !.file = path, !.cuts = disk[path].cuts,
                                     !.offset = from, !.start = from, !.from = from]

PaneRead ==
  /\ ~checking /\ (pane.file # 0 \/ path # 0)
  /\ LET p == IF pane.file = 0 THEN Opened(pane) ELSE pane
         cells == disk[p.file].cells
     IN pane' = Drained(p, cells, Len(cells))
  /\ checking' = TRUE
  /\ UNCHANGED <<fvars, stats, counting, codex, opened, grok, looked>>

\* What the path says at the end of the file: gone, or cut short.
PaneChecks ==
  /\ checking /\ checking' = FALSE
  /\ pane' = IF path = 0 \/ Len(disk[path].cells) < pane.offset
             THEN NoPane(pane.replay, FALSE) ELSE pane
  /\ UNCHANGED <<fvars, stats, counting, codex, opened, grok, looked>>
-----------------------------------------------------------------------------
\* Codex's Reader recognises another file by its stamp and by the last bytes
\* it has read.
NewCodex(cutoff) ==
  [stamp |-> None, anchor |-> <<>>, unavailable |-> FALSE,
   offset |-> 0, start |-> 0, from |-> cutoff, line |-> <<>>, skipping |-> FALSE,
   said |-> <<>>, raced |-> FALSE]

Replaced(new, old) ==
  \/ new.ident # old.ident \/ new.len < old.len
  \/ new.len = old.len /\ new # old

AnchorAt(cells, n) ==
  IF n > Len(cells) THEN <<>> ELSE SubSeq(cells, Before(n, AnchorCap) + 1, n)
AnchorHolds(r, cells) ==
  r.anchor = <<>> \/ (r.offset <= Len(cells) /\ r.anchor = AnchorAt(cells, r.offset))

\* Mutant: what was read is taken for granted while the file only grows.
CodexResetsByStamp(stamp, cells) ==
  codex.unavailable \/ (codex.stamp # None /\ Replaced(stamp, codex.stamp))
CodexResets(stamp, cells) ==
  \/ codex.unavailable
  \/ codex.stamp # None /\ Replaced(stamp, codex.stamp)
  \/ codex.stamp # stamp /\ ~AnchorHolds(codex, cells)

CodexOpens ==
  /\ opened = None /\ path # 0
  /\ opened' = [file |-> path, stamp |-> Stamp(path), cuts |-> disk[path].cuts]
  /\ UNCHANGED <<fvars, stats, counting, pane, checking, codex, grok, looked>>

CodexReads ==
  /\ opened # None /\ opened' = None
  /\ LET cells == disk[opened.file].cells
         reset == CodexResets(opened.stamp, cells)
         next == Drained(IF reset THEN NewCodex(0) ELSE codex, cells, ReadCap)
         idle == next.offset = (IF reset THEN 0 ELSE codex.offset)
     IN codex' = [next EXCEPT !.stamp = opened.stamp, !.unavailable = FALSE,
                              !.raced = @ \/ opened.cuts # disk[opened.file].cuts,
                              !.anchor = IF idle THEN @ ELSE AnchorAt(cells, next.offset)]
  /\ UNCHANGED <<fvars, stats, counting, pane, checking, grok, looked>>

\* The file cannot be opened, or an operation on it fails.
CodexFails ==
  /\ opened # None \/ path = 0
  /\ opened' = None /\ codex' = [codex EXCEPT !.unavailable = TRUE]
  /\ UNCHANGED <<fvars, stats, counting, pane, checking, grok, looked>>
-----------------------------------------------------------------------------
\* Grok's Reader looks at the path, then opens it.  Its transcript remembers
\* the calls without a result; odd records are calls, the next ones results.
NewGrok(replay) ==
  [stamp |-> None, anchor |-> <<>>, missing |-> FALSE, replay |-> replay,
   offset |-> 0, start |-> 0, from |-> 0, line |-> <<>>, skipping |-> FALSE,
   said |-> <<>>, calls |-> {}]

Apply(calls, r) == IF r % 2 = 1 THEN calls \cup {r} ELSE calls \ {r - 1}

GrokLooks ==
  /\ looked = None
  /\ IF path = 0 THEN grok' = [grok EXCEPT !.missing = TRUE] /\ looked' = None
                 ELSE looked' = Stamp(path) /\ grok' = grok
  /\ UNCHANGED <<fvars, stats, counting, pane, checking, codex, opened>>

GrokResets(stamp, cells) ==
  /\ grok.stamp # None
  /\ \/ grok.missing \/ grok.stamp.ident # stamp.ident \/ stamp.len < grok.offset
     \/ grok.stamp # stamp /\ grok.stamp.len = stamp.len
     \/ ~AnchorHolds(grok, cells)

GrokIdle(stamp) ==
  grok.stamp = stamp /\ grok.offset = stamp.len /\ ~grok.missing

\* From the window before the end; the line it begins in is discarded unless
\* the window begins with a line.
GrokBegins(stamp, cells, window) ==
  LET from == Before(stamp.len, window)
      cut == from > 0 /\ (from > Len(cells) \/ ~Ends(cells[from]))
  IN [NewGrok(grok.replay) EXCEPT !.offset = from, !.start = from, !.from = from,
                                  !.skipping = cut]

GrokReads ==
  /\ looked # None /\ looked' = None
  /\ IF path = 0 THEN grok' = [grok EXCEPT !.missing = TRUE]
     ELSE IF GrokIdle(looked) THEN grok' = grok
     ELSE LET cells == disk[path].cells
              reset == GrokResets(looked, cells)
              base == IF grok.stamp # None /\ ~reset THEN grok
                      ELSE GrokBegins(looked, cells,
                             IF reset \/ grok.missing THEN ReadCap ELSE grok.replay)
              next == Drained(base, cells, ReadCap)
              new == SubSeq(next.said, Len(base.said) + 1, Len(next.said))
          IN grok' = [next EXCEPT !.stamp = looked, !.missing = FALSE,
                                  !.anchor = AnchorAt(cells, next.offset),
                                  !.calls = FoldLeft(Apply, base.calls, new)]
  /\ UNCHANGED <<fvars, stats, counting, pane, checking, codex, opened>>
-----------------------------------------------------------------------------
TailsInit ==
  /\ FileInit
  /\ stats = FreshStats /\ counting = None
  /\ \E replay \in Replays :
       /\ pane = NoPane(replay, TRUE)
       /\ codex = NewCodex(Before(Len(disk[1].cells), replay))
       /\ grok = NewGrok(Least(replay, ReadCap))
  /\ checking = FALSE /\ opened = None /\ looked = None

Elsewhere == OtherProgram /\ UNCHANGED tvars
StatsStep == StatsLooks \/ StatsRead
PaneStep == PaneRead \/ PaneChecks
CodexStep == CodexOpens \/ CodexReads \/ CodexFails
GrokStep == GrokLooks \/ GrokReads
-----------------------------------------------------------------------------
\* A poll during which the file is left alone leaves exactly the records read
\* so far as said, whatever was done to the file before: none twice, none of
\* another file, none left out (Reader::poll, Reader::read).  For Codex only,
\* a file cut in the middle of an earlier poll is left out of account: the
\* stamp of that poll was taken before, and vouches for the text found after.
CodexSaysAll ==
  [][opened # None /\ CodexReads /\ opened.stamp = Stamp(opened.file) /\ ~codex'.raced =>
       codex'.said = RecordsOf(Upto(disk[opened.file].cells, codex'.offset), codex'.from)]_jvars

GrokSaysAll ==
  [][looked # None /\ path # 0 /\ looked = Stamp(path) /\ GrokReads =>
       /\ grok'.said = RecordsOf(Upto(disk[path].cells, grok'.offset), grok'.from)
       /\ grok'.calls = {r \in ToSet(grok'.said) : r % 2 = 1 /\ r + 1 \notin ToSet(grok'.said)}]_jvars

\* A Claude pane has said every record of the file it holds, from its window
\* on, unless that file was cut and grew again between two polls.
PaneSaysAll ==
  pane.file # 0 /\ pane.cuts = disk[pane.file].cuts =>
    pane.said = RecordsOf(SubSeq(disk[pane.file].cells, pane.from + 1, pane.offset), 0)

\* Claude's totals never count a record twice, and miss none of a file that
\* was appended to only; one that is replaced by a longer one is not noticed
\* (ClaudeStats::update).
StatsCountOnce ==
  /\ \A i, j \in DOMAIN stats.counted : i < j => stats.counted[i] < stats.counted[j]
  /\ path # 0 /\ stats.of = <<path, disk[path].cuts>> =>
       stats.counted = RecordsOf(Upto(disk[path].cells, stats.offset), 0)
=============================================================================
