------------------------------- MODULE Checks -------------------------------
(***************************************************************************)
(* The checks of an attempt and the evidence for it (checks.rs check,      *)
(* frozen, evidence_inner; host.rs HostGit.check), for a step that writes  *)
(* tests ("red") and a step that makes them pass ("green").                *)
(*                                                                         *)
(* A check looks at git and runs the project's commands in the worktree,   *)
(* which somebody may edit or commit to meanwhile: what was looked at      *)
(* first must still be there at the end.  The receipt of a check is kept   *)
(* in memory until the evidence is tagged, in the same tick or never; a    *)
(* tag is completed by a git note.                                         *)
(*                                                                         *)
(* A tree is the version of the tests and that of the source; the suite    *)
(* fails while the tests ask for more than the source does.                *)
(***************************************************************************)
EXTENDS Naturals, Sequences, FiniteSets, SequencesExt

CONSTANTS
  None,
  MaxVersion,  \* versions of the tests and of the source
  MaxCommits,  \* commits of a behaviour
  MaxAttempts, \* attempts of a behaviour
  Star, Query, \* the characters * and ? of a component of a path set
  Deep         \* the component **

ChecksAssumption == MaxVersion \in Nat

VARIABLES
  commits,   \* the branch: a sequence of [id, tree]
  made,      \* commits made so far, on the branch or no longer on it
  work,      \* the tree in the worktree
  attempt,   \* step, number, base_commit and the freeze it was given
  at,        \* where the host is with it
  head,      \* what the check found at HEAD when it began
  covers,   \* of a successful check: the commit it covers
  tags,      \* annotated tags
  noted,     \* those of them that have their note
  accepted   \* the attempts whose evidence the run has taken

kvars ==
  <<commits, made, work, attempt, at, head, covers, tags, noted, accepted>>

Trees == [test : 0 .. MaxVersion, src : 0 .. MaxVersion]
Fails(tree) == tree.test > tree.src
Tip == Last(commits)
Clean == work = Tip.tree
Changed(from, to) == {p \in {"test", "src"} : from[p] # to[p]}
Intake == [id |-> 0, tree |-> [test |-> 0, src |-> 0]]
NoAttempt == [step |-> None, number |-> 0, base |-> Intake, freeze |-> None]

KInit ==
  /\ commits = <<Intake>> /\ made = 0 /\ work = Intake.tree
  /\ attempt = NoAttempt /\ at = "idle" /\ head = None /\ covers = None
  /\ tags = {} /\ noted = {} /\ accepted = {}
-----------------------------------------------------------------------------
(* The attempt. *)

Revision(step) == Cardinality({e \in accepted : e.step = step})
Freezes == {e \in accepted : e.step = "red" /\ e.revision = Revision("red")}

\* prepare records base_commit, and a green step its freeze.
SetAttempt(step) ==
  /\ at = "idle" /\ attempt.number < MaxAttempts
  /\ \E freeze \in IF step = "red" THEN {None} ELSE Freezes :
       attempt' = [step |-> step, number |-> attempt.number + 1, base |-> Tip,
                   freeze |-> freeze]
  /\ at' = "working"
  /\ UNCHANGED <<commits, made, work, head, covers, tags, noted, accepted>>

Commit ==
  /\ made < MaxCommits /\ made' = made + 1
  /\ commits' = Append(commits, [id |-> made + 1, tree |-> work])

\* The worker edits, commits, and may take commits back.
Works ==
  /\ at = "working"
  /\ \/ /\ work' \in Trees
        /\ UNCHANGED <<commits, made>>
     \/ Commit /\ UNCHANGED work
     \/ /\ \E n \in 1 .. Len(commits) : commits' = SubSeq(commits, 1, n)
        /\ UNCHANGED <<made, work>>
  /\ UNCHANGED <<attempt, at, head, covers, tags, noted, accepted>>

WorkerEnds ==
  /\ at = "working" /\ at' = "ended"
  /\ UNCHANGED <<commits, made, work, attempt, head, covers, tags, noted,
                 accepted>>

\* Somebody else edits the worktree or commits to the branch, and does not
\* undo it while a check runs.
Meddles ==
  /\ at # "working"
  /\ \/ /\ work' \in Trees \ {Tip.tree}
        /\ UNCHANGED <<commits, made>>
     \/ Commit /\ UNCHANGED work
  /\ UNCHANGED <<attempt, at, head, covers, tags, noted, accepted>>
-----------------------------------------------------------------------------
(* check *)

\* A block: the step is tried again as another attempt.
Blocks ==
  /\ at' = "idle" /\ covers' = None
  /\ UNCHANGED <<commits, made, work, attempt, head, tags, noted, accepted>>

\* only_paths_changed:tests, since base_commit.
OnlyTests(tree) == Changed(attempt.base.tree, tree) \subseteq {"test"}

\* frozen_unchanged:red: the tag has its note, its commit is an ancestor of
\* HEAD and what it froze has not changed since.
FrozenPaths(tree) == Changed(Intake.tree, tree) \cap {"test"}
FrozenUnchanged(tree) ==
  LET freeze == attempt.freeze.commit IN
  /\ [name |-> "red", revision |-> attempt.freeze.revision] \in noted
  /\ freeze \in ToSet(commits)
  /\ Changed(freeze.tree, tree) \cap FrozenPaths(freeze.tree) = {}

Paths(tree) ==
  IF attempt.step = "red" THEN OnlyTests(tree) ELSE FrozenUnchanged(tree)

BeginCheck ==
  /\ at = "ended"
  /\ IF Clean /\ Paths(Tip.tree)
     THEN /\ head' = Tip /\ at' = "running" /\ covers' = None
          /\ UNCHANGED <<commits, made, work, attempt, tags, noted, accepted>>
     ELSE Blocks

\* tests_fail and project_check run in the worktree as it is.
RunCommands ==
  /\ at = "running"
  /\ IF Fails(work) <=> attempt.step = "red"
     THEN /\ at' = "ran"
          /\ UNCHANGED <<commits, made, work, attempt, head, covers, tags,
                         noted, accepted>>
     ELSE Blocks

\* A command times out or cannot be run.
CommandFails == at = "running" /\ Blocks

SameHead == Clean /\ Tip = head

EndCheck ==
  /\ at = "ran"
  /\ IF SameHead
     THEN /\ covers' = head /\ at' = "checked"
          /\ UNCHANGED <<commits, made, work, attempt, head, tags, noted, accepted>>
     ELSE Blocks
-----------------------------------------------------------------------------
(* evidence_inner *)

Key == [name |-> attempt.step, revision |-> Revision(attempt.step) + 1]
Held == {t \in tags : t.name = Key.name /\ t.revision = Key.revision}

Accept(commit) ==
  /\ accepted' = accepted \cup
       {[step |-> attempt.step, revision |-> Key.revision, commit |-> commit,
         base |-> attempt.base, freeze |-> attempt.freeze]}
  /\ at' = "idle" /\ covers' = None

\* A tag of the same identity is completed, wherever HEAD is by now; a tag of
\* another attempt is a conflict.
Recover ==
  /\ at = "checked" /\ Held # {}
  /\ \E t \in Held :
       IF t.attempt = attempt.number
       THEN /\ noted' = noted \cup {Key} /\ Accept(t.commit)
            /\ UNCHANGED <<commits, made, work, attempt, head, tags>>
       ELSE Blocks

Tag == tags' = tags \cup {[name |-> Key.name, revision |-> Key.revision,
                           attempt |-> attempt.number, commit |-> covers]}

CreateTag ==
  /\ at = "checked" /\ Held = {}
  /\ IF Clean /\ Tip = covers
     THEN /\ Tag /\ noted' = noted \cup {Key} /\ Accept(covers)
          /\ UNCHANGED <<commits, made, work, attempt, head>>
     ELSE Blocks

\* The host dies with the tag made, or fails to write the note; or it dies
\* anywhere in the tick.  The next tick finds the attempt ended, as before.
TagTorn ==
  /\ at = "checked" /\ Held = {} /\ Clean /\ Tip = covers
  /\ Tag /\ at' = "ended" /\ covers' = None
  /\ UNCHANGED <<commits, made, work, attempt, head, noted, accepted>>

HostDies ==
  /\ at \in {"running", "ran", "checked"}
  /\ at' = "ended" /\ covers' = None
  /\ UNCHANGED <<commits, made, work, attempt, head, tags, noted, accepted>>

KNext ==
  \/ \E step \in {"red", "green"} : SetAttempt(step)
  \/ Works \/ WorkerEnds \/ Meddles
  \/ BeginCheck \/ RunCommands \/ CommandFails \/ EndCheck
  \/ Recover \/ CreateTag \/ TagTorn \/ HostDies

KSpec == KInit /\ [][KNext]_kvars
-----------------------------------------------------------------------------
\* Accepted evidence is what it says, whoever touched the worktree while it
\* was checked and wherever the host died: red evidence is a commit that adds
\* failing tests and nothing else, green evidence passes the tests of the red
\* evidence its attempt was given, unchanged (check, frozen, evidence_inner).
EvidenceHolds ==
  \A e \in accepted :
    LET tree == e.commit.tree IN
    IF e.step = "red"
    THEN Fails(tree) /\ Changed(e.base.tree, tree) \subseteq {"test"}
    ELSE ~Fails(tree) /\ tree.test = e.freeze.commit.tree.test
-----------------------------------------------------------------------------
(* What a run of the test command establishes (VitestReport checked,      *)
(* parse_report, check): the report is read strictly, and the tests the    *)
(* plan asks for must be among those that failed ("tests_fail") or passed  *)
(* ("tests_pass").  A document holds the assertions of its files in order, *)
(* each with the status of its file, and a summary.                        *)

With(doc, status) ==
  SelectSeq(doc.assertions, LAMBDA a : a.status = status)
NamesOf(assertions) == {a.name : a \in ToSet(assertions)}
Ignored(doc) == Len(doc.assertions) - Len(With(doc, "passed")) - Len(With(doc, "failed"))

\* Runtime and collection errors are no result; the counts must agree.
Counted(doc) ==
  /\ ~doc.errors
  /\ doc.summary = [passed |-> Len(With(doc, "passed")),
                    failed |-> Len(With(doc, "failed")), ignored |-> Ignored(doc)]

\* Every failure has an ID of its own.
Distinct(doc) == Cardinality(NamesOf(With(doc, "failed"))) = Len(With(doc, "failed"))
Parsed(doc) == Counted(doc) /\ Distinct(doc)

\* A name that is used twice says nothing of either test.
Ambiguous(doc) ==
  {a.name : a \in {b \in ToSet(doc.assertions) :
     Len(SelectSeq(doc.assertions, LAMBDA c : c.name = b.name)) > 1}}
Successful(doc) == doc.success /\ \A a \in ToSet(doc.assertions) : a.file = "passed"

TestsFail(doc, exit, expected, baseline) ==
  /\ Parsed(doc) /\ exit # 0
  /\ With(doc, "failed") # <<>>
  /\ expected # {} /\ expected \subseteq NamesOf(With(doc, "failed"))
  /\ expected \cap baseline = {}

NamedOnce(doc, expected) ==
  /\ expected \subseteq NamesOf(With(doc, "passed"))
  /\ expected \cap Ambiguous(doc) = {}

TestsPass(doc, exit, expected, baseline) ==
  /\ Parsed(doc) /\ exit = 0
  /\ With(doc, "failed") = <<>> /\ Successful(doc)
  /\ expected # {} /\ baseline = {}
  /\ NamedOnce(doc, expected)
-----------------------------------------------------------------------------
\* What the verdicts are to mean, of the assertions alone.
Establishes(doc, test, status) ==
  \E a \in ToSet(doc.assertions) : a.name = test /\ a.status = status

Red(doc, expected) == \A t \in expected : Establishes(doc, t, "failed")
Green(doc, expected) ==
  /\ \A a \in ToSet(doc.assertions) : a.status # "failed"
  /\ \A t \in expected, i, j \in DOMAIN doc.assertions :
       doc.assertions[i].name = t /\ doc.assertions[j].name = t =>
         i = j /\ doc.assertions[i].status = "passed"
  /\ \A t \in expected : Establishes(doc, t, "passed")
-----------------------------------------------------------------------------
(* Path sets of a project (glob_matches, component_matches): a table of    *)
(* which prefixes of the text the pattern so far may cover, row by row.    *)
(* Components are sequences of characters, paths sequences of components.  *)

EmptyRow(text) == [i \in 0 .. Len(text) |-> i = 0]

\* A wild item covers any number of elements, any other exactly one.
ComponentRow(row, c, text) ==
  LET next[i \in 0 .. Len(text)] ==
        IF c = Star THEN row[i] \/ (i > 0 /\ next[i - 1])
        ELSE i > 0 /\ row[i - 1] /\ (c = Query \/ c = text[i])
  IN  next
ComponentMatches(pattern, text) ==
  FoldLeft(LAMBDA row, c : ComponentRow(row, c, text), EmptyRow(text),
           pattern)[Len(text)]

PathRow(row, part, path) ==
  LET next[i \in 0 .. Len(path)] ==
        IF part = Deep THEN row[i] \/ (i > 0 /\ next[i - 1])
        ELSE i > 0 /\ row[i - 1] /\ ComponentMatches(part, path[i])
  IN  next
GlobMatches(pattern, path) ==
  FoldLeft(LAMBDA row, part : PathRow(row, part, path), EmptyRow(path),
           pattern)[Len(path)]
\* The reference: the text can be cut into consecutive pieces, one for each
\* item of the pattern, that the item covers.
Covered(pattern, text, Wild(_), Fits(_, _)) ==
  \E cut \in [0 .. Len(pattern) -> 0 .. Len(text)] :
    /\ cut[0] = 0 /\ cut[Len(pattern)] = Len(text)
    /\ \A k \in 1 .. Len(pattern) :
         IF Wild(pattern[k]) THEN cut[k - 1] <= cut[k]
         ELSE cut[k] = cut[k - 1] + 1 /\ Fits(pattern[k], text[cut[k]])

IsStar(c) == c = Star
FitsChar(c, d) == c = Query \/ c = d
IsDeep(part) == part = Deep
FitsComponent(part, component) == Covered(part, component, IsStar, FitsChar)
InGlob(pattern, path) == Covered(pattern, path, IsDeep, FitsComponent)
=============================================================================
