----------------------------- MODULE GeminiStore -----------------------------
(***************************************************************************)
(* A Gemini session is rebuilt from a file of patches and shown in a pane  *)
(* that cannot take lines back (gemini.rs SessionStore, LogsCache,         *)
(* GeminiTailer).  Messages the transcript lacks come from the project's   *)
(* log.  A message's id stands for its time, so ids order messages.        *)
(***************************************************************************)
EXTENDS Naturals, Sequences, SequencesExt, FiniteSets

CONSTANTS
  Ids, Texts, Hidden,   \* Hidden: texts that are scaffolding or blank
  Patches,              \* what the transcript may record
  Logs,                 \* what the project's log may hold
  Budget,               \* replay
  RecordCap,            \* MAX_JSONL_RECORDS
  MessageCap,           \* MAX_MESSAGES
  MaxLines, MaxChanges

GeminiAssumption ==
  /\ Ids \subseteq Nat /\ Hidden \subseteq Texts
  /\ \A p \in Patches : p.kind \in {"header", "message", "set"}
  /\ {RecordCap, MessageCap, MaxLines, MaxChanges, Budget} \subseteq Nat

VARIABLES
  file,      \* the transcript
  log,       \* the project's log, "whole" unless it is being written
  store,     \* SessionStore
  cache,     \* LogsCache
  syncing,   \* what sync has found and not read yet
  pane,      \* GeminiTailer
  shown      \* what the pane has printed since it last began anew

gvars == <<file, log, store, cache, syncing, pane, shown>>

Nobody == [i \in {} |-> {}]
Keyed(ms) == [i \in {m.id : m \in ms} |->
                [text |-> (CHOOSE m \in ms : m.id = i).text, logged |-> FALSE]]
-----------------------------------------------------------------------------
\* A complete line has size 2, a torn one 1.  The fingerprint of a file is
\* its first line, as far as it goes.
Size(f) == 2 * Len(f.lines) + (IF f.torn THEN 1 ELSE 0)
Prefix(f) == IF f.lines # <<>> THEN <<f.lines[1]>> ELSE IF f.torn THEN <<[kind |-> "torn"]>> ELSE <<>>

FreshStore ==
  [offset |-> 0, size |-> 0, at |-> 0, prefix |-> <<>>, read |-> 0, full |-> FALSE,
   header |-> FALSE, messages |-> Nobody, of |-> 0]
Reset(s) == [FreshStore EXCEPT !.size = s.size, !.at = s.at]

\* The limit on messages holds for new ones only.
Upsert(s, id, m) ==
  IF id \notin DOMAIN s.messages /\ Cardinality(DOMAIN s.messages) >= MessageCap
  THEN [s EXCEPT !.full = TRUE]
  ELSE [s EXCEPT !.messages =
          [i \in DOMAIN @ \cup {id} |-> IF i = id THEN m ELSE @[i]]]

Ingest(s0, p) ==
  LET s == [s0 EXCEPT !.offset = @ + 2, !.read = @ + 1]
      put(t, i) == Upsert(t, i, [text |-> Keyed(p.messages)[i].text, logged |-> FALSE])
  IN CASE p.kind = "header"  -> [s EXCEPT !.header = TRUE]
       [] p.kind = "message" -> FoldLeft(put, s, SetToSeq({m.id : m \in p.messages}))
       [] p.kind = "set"     -> FoldLeft(put, [s EXCEPT !.messages = Nobody],
                                         SetToSeq({m.id : m \in p.messages}))

\* The complete lines from an offset on, within the limit.
ReadFrom(s, f) ==
  LET rest == SubSeq(f.lines, s.offset \div 2 + 1, Len(f.lines))
      room == RecordCap - s.read
  IN IF Len(rest) >= room
     THEN [FoldLeft(Ingest, s, SubSeq(rest, 1, room)) EXCEPT !.full = TRUE]
     ELSE FoldLeft(Ingest, s, rest)

\* Messages of the log come last and give way.
ApplyLogs(s, entries) ==
  LET own == [s EXCEPT !.messages =
                [i \in {j \in DOMAIN @ : ~@[j].logged} |-> @[i]]]
      add(t, i) == IF i \in DOMAIN t.messages THEN t
                   ELSE Upsert(t, i, [text |-> entries[i], logged |-> TRUE])
  IN IF s.header THEN FoldLeft(add, own, SetToSeq(DOMAIN entries)) ELSE own
-----------------------------------------------------------------------------
GInit ==
  /\ file = [exists |-> FALSE, lines |-> <<>>, torn |-> FALSE, at |-> 0, of |-> 1,
             changes |-> 0]
  /\ log = [whole |-> TRUE, entries |-> Nobody, at |-> 0]
  /\ store = FreshStore
  /\ cache = [entries |-> Nobody, at |-> 0]
  /\ syncing = "none"
  /\ pane = [first |-> TRUE, emitted |-> <<>>, skipped |-> 0]
  /\ shown = <<>>

Change(f) ==
  /\ file.changes < MaxChanges
  /\ file' = [f EXCEPT !.changes = @ + 1, !.at = @ + 1]
  /\ UNCHANGED <<log, store, cache, syncing, pane, shown>>

\* Gemini appends, in two writes perhaps; the file may be rewritten or removed.
Appends ==
  /\ Len(file.lines) < MaxLines
  /\ \/ \E p \in Patches :
          Change([file EXCEPT !.exists = TRUE, !.torn = FALSE, !.lines = Append(@, p)])
     \/ ~file.torn /\ Change([file EXCEPT !.exists = TRUE, !.torn = TRUE])
Rewrites ==
  /\ file.exists
  /\ \E p \in Patches, n \in 0 .. Len(file.lines) :
       Change([file EXCEPT !.torn = FALSE, !.of = @ + 1,
                           !.lines = <<p>> \o SubSeq(@, 2, n)])
Removes ==
  file.exists /\ Change([file EXCEPT !.exists = FALSE, !.lines = <<>>, !.torn = FALSE,
                                     !.of = @ + 1])

LogIsWritten ==
  /\ file.changes < MaxChanges /\ file' = [file EXCEPT !.changes = @ + 1]
  /\ \/ \E e \in Logs : log' = [whole |-> TRUE, entries |-> e, at |-> log.at + 1]
     \/ log.whole /\ log' = [log EXCEPT !.whole = FALSE, !.at = @ + 1]
  /\ UNCHANGED <<store, cache, syncing, pane, shown>>
-----------------------------------------------------------------------------
Truncated == Size(file) < store.offset
Replaced ==
  /\ store.offset > 0
  /\ \/ store.prefix # <<>> /\ Prefix(file) # <<>> /\ Prefix(file) # store.prefix
     \/ Size(file) = store.size /\ store.offset = Size(file) /\ file.at # store.at

\* The first half of sync: what the path says.
Looks ==
  /\ syncing = "none" /\ file.exists
  /\ LET known == [store EXCEPT !.size = Size(file), !.at = file.at]
     IN IF Truncated \/ Replaced
        THEN /\ store' = [Reset(known) EXCEPT !.prefix = Prefix(file)]
             /\ syncing' = IF Truncated THEN "truncated" ELSE "replaced"
        ELSE IF Size(file) = store.offset /\ file.at = store.at
        THEN store' = store /\ syncing' = "unchanged"
        ELSE /\ store' = [known EXCEPT !.prefix = IF @ = <<>> THEN Prefix(file) ELSE @]
             /\ syncing' = "appended"
  /\ UNCHANGED <<file, log, cache, pane, shown>>

Missing ==
  /\ syncing = "none" /\ ~file.exists
  /\ store' = IF store.offset > 0 \/ store.messages # Nobody THEN FreshStore ELSE store
  /\ UNCHANGED <<file, log, cache, syncing, pane, shown>>

\* LogsCache.refresh: a log that does not parse leaves the last good one.
Refreshed ==
  IF log.at # cache.at /\ log.whole THEN [entries |-> log.entries, at |-> log.at]
                                    ELSE cache

Fingerprint(s) ==
  LET seen == SetToSortSeq({i \in DOMAIN s.messages : s.messages[i].text \notin Hidden}, <)
  IN [n \in DOMAIN seen |-> <<seen[n], s.messages[seen[n]].text>>]

Suffix(fps, n) ==
  SubSeq(fps, IF Len(fps) > n THEN Len(fps) - n + 1 ELSE 1, Len(fps))
Most(m, n) == IF m > n THEN m ELSE n

\* What a pane prints: the end of the session at first and after a revision,
\* else what was added.
Prints(fps) ==
  LET anew(n) == /\ shown' = Suffix(fps, n)
                 /\ pane' = [first |-> FALSE, emitted |-> fps,
                             skipped |-> Len(fps) - Len(Suffix(fps, n))]
  IN IF pane.first THEN anew(Budget)
     ELSE IF IsPrefix(pane.emitted, fps)
     THEN /\ shown' = shown \o SubSeq(fps, Len(pane.emitted) + 1, Len(fps))
          /\ pane' = [pane EXCEPT !.emitted = fps]
     ELSE anew(Most(Budget, 1))

\* The second half of sync reads, then the pane is brought up to date.
Reads ==
  /\ syncing # "none" /\ syncing' = "none"
  /\ cache' = Refreshed
  /\ LET known == [store EXCEPT !.of = IF store.offset = 0 THEN file.of ELSE @]
         read == IF syncing = "unchanged" \/ ~file.exists THEN store
                 ELSE ReadFrom(known, file)
     IN store' = ApplyLogs(read, cache'.entries)
  /\ Prints(Fingerprint(store'))
  /\ UNCHANGED <<file, log>>

GNext == \/ Appends \/ Rewrites \/ Removes \/ LogIsWritten
         \/ Looks \/ Missing \/ Reads
-----------------------------------------------------------------------------
\* Reference: what a session is, from the whole of its file and log.
LastOf(lines, i) ==
  LET Of(n) == lines[n].kind # "header" /\ i \in {m.id : m \in lines[n].messages}
      At == {n \in DOMAIN lines : Of(n)}
  IN CHOOSE n \in At : \A o \in At : o <= n
Session(lines, entries) ==
  LET sets == {n \in DOMAIN lines : lines[n].kind = "set"}
      from == IF sets = {} THEN 1 ELSE CHOOSE n \in sets : \A o \in sets : o <= n
      kept == {i \in Ids : \E n \in from .. Len(lines) :
                 lines[n].kind # "header" /\ i \in {m.id : m \in lines[n].messages}}
      headed == \E n \in DOMAIN lines : lines[n].kind = "header"
      extra == IF headed THEN DOMAIN entries \ kept ELSE {}
  IN [i \in kept \cup extra |->
        IF i \in extra THEN [text |-> entries[i], logged |-> TRUE]
        ELSE Keyed(lines[LastOf(lines, i)].messages)[i]]

\* Following the patches as they come gives what reading the whole file would,
\* with the newest log that could be read, as long as no limit is hit and the
\* file is not rewritten without a trace (SessionStore::sync, apply_logs).
FollowingIsRebuilding ==
  [][syncing # "none" /\ Reads /\ file.exists =>
       \/ store'.full \/ store'.of # file.of
       \/ store'.offset < 2 * Len(file.lines)
       \/ store'.messages = Session(file.lines, cache'.entries)]_gvars

\* A file that was cut or begins otherwise is read anew.
RewritesAreSeen ==
  [][syncing # "none" /\ Reads /\ file.exists /\ file.at = store.at
       /\ (store.of # file.of => Prefix(file) # store.prefix) => store'.of = file.of]_gvars

\* Since it last began anew a pane has printed every message after those it
\* skipped once, in order, and nothing that was changed since
\* (GeminiTailer::poll_impl).
PanePrintsOnce ==
  shown = SubSeq(pane.emitted, pane.skipped + 1, Len(pane.emitted))
=============================================================================
