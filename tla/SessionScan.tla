---------------------------- MODULE SessionScan ----------------------------
(***************************************************************************)
(* How the sources that keep transcripts in files find their sessions and  *)
(* open them again by id: Claude, Codex, Grok, Gemini.  Each remembers     *)
(* what it has read of a file and makes an index of ids; nothing prevents  *)
(* two files from having the same id, or a file from getting another one.  *)
(***************************************************************************)
EXTENDS Naturals, Sequences, FiniteSets

CONSTANTS
  None,
  Vendors,   \* of {"claude", "codex", "grok", "gemini"}
  Paths,     \* natural numbers: their order counts
  Ids,
  NameOf,    \* the id a path has by its file's or directory's name
  Window,    \* RECENCY_WINDOW
  MaxTime

ScanAssumption ==
  /\ Vendors \subseteq {"claude", "codex", "grok", "gemini"} /\ Paths \subseteq Nat
  /\ NameOf \in [Paths -> Ids] /\ None \notin Ids /\ {Window, MaxTime} \subseteq Nat

VARIABLES
  vendor,
  tree,      \* path -> None or [says, at, whole]: the id it states, when it was changed
  hour,
  known,     \* path -> what was read of it
  statistics,  \* Claude: id -> the path whose totals count
  listed,    \* the rows of the last scan: [id, path, found]
  index,     \* id -> the paths a tailer may be given
  ever       \* paths that have been there

scanvars == <<vendor, tree, hour, known, statistics, listed, index, ever>>

Present == {p \in Paths : tree[p] # None}

\* By newest change, then by path.
Earlier(p, q) ==
  tree[p].at > tree[q].at \/ (tree[p].at = tree[q].at /\ p < q)
Best(S, Before(_, _)) == CHOOSE p \in S : \A q \in S \ {p} : Before(p, q)

\* What is known of the files in S, those that can be read read again.
Read(S, Id(_)) ==
  [p \in S |-> IF tree[p].whole THEN Id(p)
               ELSE IF p \in DOMAIN known THEN known[p] ELSE NameOf[p]]
Stated(p) == IF tree[p].says = None THEN NameOf[p] ELSE tree[p].says
-----------------------------------------------------------------------------
\* Codex: the newest readable file of an id is its row.
CodexScan ==
  LET ids == Read(Present, Stated)
      Of(i) == {p \in Present : tree[p].whole /\ ids[p] = i}
      found == {i \in Ids : Of(i) # {}}
  IN /\ known' = ids
     /\ listed' = {[id |-> i, path |-> Best(Of(i), Earlier), found |-> Best(Of(i), Earlier)] :
                     i \in found}
     /\ index' = [i \in found |-> {Best(Of(i), Earlier)}]
     /\ UNCHANGED statistics

\* Grok: every directory counts, whether its summary can be read or not; the
\* newest is the row, but the first by path is opened.
GrokScan ==
  LET ids == Read(Present, Stated)
      Of(i) == {p \in Present : ids[p] = i}
      found == {i \in Ids : Of(i) # {}}
  IN /\ known' = ids
     /\ listed' = {[id |-> i, path |-> Best(Of(i), Earlier), found |-> Best(Of(i), Earlier)] :
                     i \in found}
     /\ index' = [i \in found |-> {Best(Of(i), <)}]
     /\ UNCHANGED statistics

\* Gemini: every file is a row, by the id in its header once there is one, and
\* is opened by that and by its name, in no order.
GeminiScan ==
  LET ids == Read(Present, Stated)
      Of(i) == {p \in Present : i \in {ids[p], NameOf[p]}}
  IN /\ known' = ids
     /\ listed' = {[id |-> ids[p], path |-> p, found |-> p] : p \in Present}
     /\ index' = [i \in {j \in Ids : Of(j) # {}} |-> Of(i)]
     /\ UNCHANGED statistics

\* Claude: files changed lately, by name.  The totals of a name stay with the
\* first path it was found at.
ClaudeScan ==
  LET recent == {p \in Present : hour <= tree[p].at + Window}
      names == {NameOf[p] : p \in recent}
  IN /\ \E first \in [names -> recent] :
          /\ \A i \in names : NameOf[first[i]] = i
          /\ statistics' = [i \in DOMAIN statistics \cup names |->
                              IF i \in DOMAIN statistics THEN statistics[i] ELSE first[i]]
     /\ listed' = {[id |-> NameOf[p], path |-> statistics'[NameOf[p]], found |-> p] : p \in recent}
     /\ index' = [i \in DOMAIN statistics' |-> {statistics'[i]}]
     /\ UNCHANGED known

Scan ==
  /\ CASE vendor = "claude" -> ClaudeScan [] vendor = "codex"  -> CodexScan
       [] vendor = "grok"   -> GrokScan   [] vendor = "gemini" -> GeminiScan
  /\ UNCHANGED <<vendor, tree, hour, ever>>
-----------------------------------------------------------------------------
\* A file appears, is changed, torn or removed; time passes.
Put(p, file) ==
  /\ tree' = [tree EXCEPT ![p] = file] /\ tree' # tree
  /\ ever' = ever \cup {p}
  /\ UNCHANGED <<vendor, hour, known, statistics, listed, index>>
Writes ==
  \E p \in Paths, says \in Ids \cup {None}, whole \in BOOLEAN :
    Put(p, [says |-> says, at |-> hour, whole |-> whole])
Removes == \E p \in Present : Put(p, None)
Passes ==
  /\ hour < MaxTime /\ hour' = hour + 1
  /\ UNCHANGED <<vendor, tree, known, statistics, listed, index, ever>>

ScanInit ==
  /\ vendor \in Vendors /\ tree = [p \in Paths |-> None] /\ hour = 0
  /\ known = [p \in {} |-> None] /\ statistics = [i \in {} |-> None]
  /\ listed = {} /\ index = [i \in {} |-> {}] /\ ever = {}

ScanNext == Scan \/ Writes \/ Removes \/ Passes
ScanSpec == ScanInit /\ [][ScanNext]_scanvars
-----------------------------------------------------------------------------
\* The files that could be meant by an id.
Sharing(i) ==
  CASE vendor = "codex"  -> {}
    [] vendor = "grok"   -> {p \in DOMAIN known : known[p] = i}
    [] vendor = "gemini" -> {p \in DOMAIN known : i \in {known[p], NameOf[p]}}
    [] vendor = "claude" -> {p \in ever : NameOf[p] = i}

\* The tailer that is opened for a row reads the file the row was found at and
\* was made of, and no two rows have the same id: for Codex in any case, for
\* the others unless two files could be meant by the id (open_tailer, sessions).
RowsOpenTheirFile ==
  \A r \in listed :
    Cardinality(Sharing(r.id)) <= 1 =>
      /\ r.path = r.found /\ index[r.id] = {r.path}
      /\ \A o \in listed : o.id = r.id => o = r

\* No session goes unseen: whatever id a file states that can be read, and for
\* Claude was changed lately, is on a row (sessions).
NothingUnseen ==
  [][Scan => \A p \in Present :
       tree[p].whole /\ (vendor = "claude" => hour <= tree[p].at + Window) =>
         LET id == IF vendor = "claude" THEN NameOf[p] ELSE Stated(p)
         IN \E r \in listed' : r.id = id]_scanvars
=============================================================================
