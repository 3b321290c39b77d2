----------------------------- MODULE MCServices -----------------------------
(***************************************************************************)
(* What the hub relies on, and what the desk programs read of sessions,    *)
(* side by side.  In a behaviour only one of them takes steps, so that the *)
(* states checked are the sum of theirs.                                   *)
(***************************************************************************)
EXTENDS Journal, VisitLog, TLC

CONSTANTS
  Parts, x, y, z,
  b1, b2,              \* what a plan may say, what a record may hold
  Star, Query, Deep,   \* globs
  s_go, s_code, s_review, s_pr,
  g, q, ok, no,        \* a gate, a question, words of the owner
  Go, Blank, Owner, App, Stranger,
  i, j                 \* ids of sessions

VARIABLES
  part,
  receipt, text, endpoint, asked, prs, base, target, pushed, passed, witnessed,
  commits, made, work, attempt, at, head, covers, tags, noted, accepted,
  targets, bounded, incoming, ready, verdict,
  mem, disk, thread, clock, call, heard,
  newest, topic,  \* the order of the service's pages; what the host asks about
  deaths,         \* of the host
  sample,
  hub, kept, turn, issue,
  task, saved, phase, results, tasks, given, fresh, stale, forgotten,
  path, drive, files, changes, written, midway,
  stats, counting, pane, checking, codex, opened, grok, looked,
  style, rollout, wrote, decoder, printed, spent, usage,
  chat, logged, store, cache, syncing, gpane, gshown,
  messages, parts, ticks, over, tail, slice, fails,
  vendor, tree, hour, known, statistics, listed, index, ever,
  time, meta, handle, seen, state

H == INSTANCE CodeHost WITH Texts <- {b1, b2}, Endpoints <- {x, y}, MaxPrs <- 2
K == INSTANCE Checks WITH MaxVersion <- 1, MaxCommits <- 2, MaxAttempts <- 2
W == INSTANCE WorkflowCycles WITH Names <- {x, y, z}, Missing <- None, MaxTargets <- 2

\* Saves of no, one or two new events, of records that differ in more than
\* their events.
MCRecords == [events : 0 .. 3, content : {b1, b2}]
MCFirst == [events |-> 0, content |-> b1]

\* A plan that is read by every later step, and may be asked for again.
NoBlock ==
  [kind \in {"owner_question", "scope_change", "unknown", "capability"} |-> None]
MCPlan ==
  s_go :> [kind |-> "bot", next |-> s_code, on_block |-> NoBlock, inputs |-> {},
           expects |-> None]
  @@ s_code :> [kind |-> "bot", next |-> s_review,
                on_block |-> [NoBlock EXCEPT !["scope_change"] = s_go],
                inputs |-> {s_go}, expects |-> s_go]
  @@ s_review :> [kind |-> "gate", next |-> s_pr, on_block |-> NoBlock,
                  inputs |-> {s_go, s_code}, expects |-> None]
  @@ s_pr :> [kind |-> "open_pr", next |-> None, on_block |-> NoBlock,
              inputs |-> {s_go, s_code}, expects |-> None]

Message(n, what) == [id |-> n, text |-> what]
MCPatches ==
  {[kind |-> "header"], [kind |-> "set", messages |-> {Message(1, y), Message(2, y)}]}
    \cup {[kind |-> "message", messages |-> {m}] :
            m \in {Message(1, x), Message(2, b1), Message(2, y)}}

\* A gate that may be approved, and two steps routed anywhere.
NoRoute == [kind \in BlockKinds |-> None]
FreeStep ==
  [kind |-> "bot", next |-> None, on_block |-> NoRoute,
   on_verdict |-> [v \in Verdicts |-> None], differs |-> None,
   checked |-> FALSE, tag |-> None, max_runs |-> 0, max_rounds |-> 0]
MCFlow ==
  [s \in Steps |-> IF s = s_go THEN [FreeStep EXCEPT !.kind = "owner_go", !.next = s_code]
                  ELSE FreeStep]
MCRemarks ==
  [user : {Owner}, body : {ok, no}, to : {q}]
    \cup {[user |-> Owner, body |-> Go, to |-> g],
          [user |-> Stranger, body |-> ok, to |-> q]}
T == INSTANCE Tracker WITH
       Gates <- {g}, Questions <- {q}, Alerts <- {}, Words <- {ok, no},
       Rendered <- (g :> {b1, b2}) @@ (q :> {b1}), Remarks <- MCRemarks,
       PageSize <- 1, PageLimit <- 1, MaxRemarks <- 2, MaxTime <- 2

I == INSTANCE TaskInputs WITH
       Plan <- MCPlan, First <- s_go, TransientRetries <- 1, MaxRuns <- 3,
       MaxForgotten <- 1, MaxEvents <- 8,
       Results <- {"done", "scope_change", "owner_question"}, run <- task, seen <- given
N == INSTANCE Notices WITH Hosts <- {b1, b2}, MaxEvents <- 6, MaxNotices <- 2
J == INSTANCE JsonlTails WITH
       MaxFiles <- 2, MaxRecords <- 2, MaxChanges <- 3, MaxPieces <- 2,
       Replays <- {1, 3}, ReadCap <- 3, LineCap <- 1, AnchorCap <- 1, disk <- drive
C == INSTANCE CodexTurns WITH
       MaxMessages <- 4, MaxCalls <- 1, MaxTurns <- 2, MaxSpent <- 2,
       FallbackCap <- 9, IdCap <- 9, codex <- rollout, shown <- printed
D == INSTANCE GeminiStore WITH
       Ids <- 1 .. 3, Texts <- {x, y, b1}, Hidden <- {b1}, Patches <- MCPatches,
       Logs <- {[n \in {1} |-> x], [n \in {1, 3} |-> y]}, Budget <- 1, RecordCap <- 9,
       MessageCap <- 9, MaxLines <- 3, MaxChanges <- 3,
       file <- chat, log <- logged, pane <- gpane, shown <- gshown
R == INSTANCE RowTails WITH
       Windows <- {1}, Limit <- 1, Period <- 2, MaxRows <- 2, MaxTime <- 2, MaxFails <- 1,
       clock <- ticks, part <- slice
\* Two files of different ids, and two of the same name.
X == INSTANCE SessionScan WITH
       Vendors <- {"codex", "grok", "gemini"}, Paths <- {1, 2}, Ids <- {i, j},
       NameOf <- 1 :> i @@ 2 :> j, Window <- 0, MaxTime <- 1
Y == INSTANCE SessionScan WITH
       Vendors <- {"claude"}, Paths <- {1, 2}, Ids <- {i, j},
       NameOf <- 1 :> i @@ 2 :> i, Window <- 0, MaxTime <- 1
L == INSTANCE Liveness WITH
       Silence <- 1, Idle <- 2, Mult <- 2, Fresh <- 6, MaxTime <- 9,
       now <- time, writer <- handle

codehost ==
  <<receipt, text, endpoint, asked, prs, base, target, pushed, passed, witnessed>>
checks == <<commits, made, work, attempt, at, head, covers, tags, noted, accepted>>
cycles == <<targets, bounded, incoming, ready, verdict>>
visits == <<run, log>>
tracker == <<mem, disk, thread, clock, call, heard, newest, topic, deaths>>
inputs == <<task, saved, phase, results, tasks, given, fresh, stale, forgotten>>
jsonl == <<path, drive, files, changes, written, midway,
           stats, counting, pane, checking, codex, opened, grok, looked>>
turns == <<style, rollout, wrote, decoder, printed, spent, usage>>
gemini == <<chat, logged, store, cache, syncing, gpane, gshown>>
sessionrows == <<messages, parts, ticks, over, tail, slice, fails>>
scans == <<vendor, tree, hour, known, statistics, listed, index, ever>>
session == <<time, meta, handle, seen, state>>
transcripts == <<jsonl, turns, gemini, sessionrows, scans, session>>
notices == <<hub, kept, turn, issue>>
hosted == <<codehost, checks, cycles, vars, visits, tracker, inputs, notices>>
mcvars == <<part, hosted, transcripts, sample>>

ASSUME /\ H!CodeHostAssumption /\ T!TrackerAssumption /\ I!TasksAssumption
       /\ W!CyclesAssumption /\ N!NoticesAssumption /\ K!ChecksAssumption
       /\ J!FileAssumption /\ J!TailsAssumption /\ C!TurnsAssumption
       /\ D!GeminiAssumption /\ R!RowsAssumption /\ L!LivenessAssumption
       /\ X!ScanAssumption /\ Y!ScanAssumption
-----------------------------------------------------------------------------
UpTo(n, S) == UNION {[1 .. k -> S] : k \in 0 .. n}

\* Patterns and texts of components, and of paths.
GlobSamples ==
  [of : {"component"}, pattern : UpTo(3, {x, y, Star, Query}), text : UpTo(3, {x, y})]
    \cup [of : {"path"}, pattern : UpTo(3, {<<x>>, <<Star>>, <<x, Star>>, Deep}),
          text : UpTo(3, {<<x>>, <<x, y>>, <<y>>})]

Status == {"passed", "failed", "skipped"}
ReportSamples ==
  {[of |-> "report", exit |-> exit, expected |-> expected, baseline |-> baseline,
    doc |-> [assertions |-> assertions, errors |-> FALSE, success |-> success,
             summary |-> [passed |-> counts[1], failed |-> counts[2], ignored |-> 0]]] :
     exit \in {0, 1}, expected \in {{x}, {x, y}}, baseline \in {{}, {x}},
     assertions \in UpTo(2, [name : {x, y}, status : Status, file : {"passed", "failed"}]),
     success \in BOOLEAN, counts \in {<<0, 1>>, <<1, 1>>, <<1, 0>>, <<2, 0>>, <<0, 2>>}}

\* Steps are interchangeable: those with more targets come first.
Ordered ==
  /\ Len(targets[x]) >= Len(targets[y]) /\ Len(targets[y]) >= Len(targets[z])
  /\ Len(targets[x]) = Len(targets[y]) => x \in bounded \/ y \notin bounded

Tails == {"stats", "pane", "rollouts", "history"}

MCInit ==
  /\ part \in Parts
  /\ H!CodeHostInit /\ (part = "codehost" \/ (text = b1 /\ endpoint = x))
  /\ K!KInit /\ Init /\ LogInit
  /\ IF part = "cycles" THEN W!WInit /\ Ordered
     ELSE /\ targets = [n \in {x, y, z} |-> <<>>] /\ bounded = {}
          /\ incoming = [n \in {x, y, z} |-> 0] /\ ready = {} /\ verdict = "counting"
  /\ T!TrackerInit /\ deaths = 0
  /\ newest \in (IF part = "tracker" THEN BOOLEAN ELSE {TRUE})
  /\ topic \in (IF part = "tracker" THEN {g, q} ELSE {q})
  /\ sample \in (IF part = "samples" THEN GlobSamples \cup ReportSamples ELSE {None})
  /\ I!InputsInit
  /\ N!NInit /\ (part = "notices" \/ kept.started)
  /\ J!TailsInit /\ (part \in Tails \/ (written = 0 /\ path = 0 /\ pane.replay = 1))
  /\ C!CInit /\ (part \in {"turns", "usage"} \/ style = CHOOSE s \in C!Styles : TRUE)
  /\ D!GInit
  /\ R!RInit /\ (part \in {"messages", "parts"} \/ (messages = {} /\ parts = <<>>))
  /\ IF part = "namesakes" THEN Y!ScanInit
     ELSE X!ScanInit /\ (part = "scans" \/ vendor = "codex")
  /\ L!LInit /\ (part = "ages" \/ (~handle /\ ~meta.claude /\ ~meta.tool
                                     /\ ~meta.pending /\ ~meta.closed))

HubNext ==
  /\ UNCHANGED <<part, sample, transcripts>>
  /\ \/ part = "codehost" /\ H!CodeHostNext
        /\ UNCHANGED <<checks, cycles, vars, visits, tracker, inputs, notices>>
     \/ part = "checks" /\ K!KNext
        /\ UNCHANGED <<codehost, cycles, vars, visits, tracker, inputs, notices>>
     \/ part = "cycles" /\ W!WNext
        /\ UNCHANGED <<codehost, checks, vars, visits, tracker, inputs, notices>>
     \/ part = "journal" /\ Next
        /\ UNCHANGED <<codehost, checks, cycles, visits, tracker, inputs, notices>>
     \/ part = "visits" /\ LogNext
        /\ UNCHANGED <<codehost, checks, cycles, vars, tracker, inputs, notices>>
     \/ part = "inputs" /\ I!InputsNext
        /\ UNCHANGED <<codehost, checks, cycles, vars, visits, tracker, notices>>
     \/ part = "notices" /\ N!NNext
        /\ UNCHANGED <<codehost, checks, cycles, vars, visits, tracker, inputs>>
     \/ part = "tracker"
        /\ UNCHANGED <<codehost, checks, cycles, vars, visits, newest, topic, inputs,
                       notices>>
        /\ \/ /\ T!Calls(topic) \/ T!Exchange(newest) \/ T!Outsiders \/ T!ClockTicks
              /\ UNCHANGED deaths
           \/ T!Restart /\ call # T!Idle /\ deaths < 1 /\ deaths' = deaths + 1

\* What is read while it changes: a file by one reader, Codex's messages or
\* its usage, the rows of a database one message each or in parts.
TranscriptNext ==
  /\ UNCHANGED <<part, sample, hosted>>
  /\ \/ /\ part \in Tails
        /\ \/ J!Elsewhere
           \/ part = "stats" /\ J!StatsStep
           \/ part = "pane" /\ J!PaneStep
           \/ part = "rollouts" /\ J!CodexStep
           \/ part = "history" /\ J!GrokStep
        /\ UNCHANGED <<turns, gemini, sessionrows, scans, session>>
     \/ /\ \/ part = "turns" /\ C!TalkNext
           \/ part = "usage" /\ C!UsageNext
        /\ UNCHANGED <<jsonl, gemini, sessionrows, scans, session>>
     \/ /\ part = "gemini" /\ D!GNext
        /\ UNCHANGED <<jsonl, turns, sessionrows, scans, session>>
     \/ /\ \/ part = "messages" /\ (R!Speaks \/ R!SessionEnds \/ R!TailStep)
           \/ /\ part = "parts"
              /\ R!Adds \/ R!Touches \/ R!Ticks \/ R!SessionEnds \/ R!PartStep
        /\ UNCHANGED <<jsonl, turns, gemini, scans, session>>
     \/ /\ \/ part = "scans" /\ X!ScanNext
           \/ part = "namesakes" /\ Y!ScanNext
        /\ UNCHANGED <<jsonl, turns, gemini, sessionrows, session>>
     \/ /\ part = "ages" /\ L!LNext
        /\ UNCHANGED <<jsonl, turns, gemini, sessionrows, scans>>

MCNext == HubNext \/ TranscriptNext
MCSpec == MCInit /\ [][MCNext]_mcvars
-----------------------------------------------------------------------------
\* A run has one pull request, and its merge gate passes on its merge and on
\* nothing less (CodeHost).
MergesOnce == H!PassesOnMerge /\ [](part = "codehost" => H!OnePullRequest)

\* The tracker keeps its promise to the hub (every step of it is a step of
\* Correspondence, or none), its cursor hides no reply (Tracker), and it is told
\* of what the owner decides in Hermon, in order and in time (Notices).
Corresponds ==
  /\ T!C!Init
  /\ [][part = "tracker" => [T!C!Next]_<<T!Copies, T!Said, heard>>]_tracker
  /\ [](part = "tracker" => T!NothingBehindCursor(newest))
  /\ N!ActsWhenTold
  /\ [](part = "notices" => N!NoticesInOrder /\ N!HostsTakeTurns)

\* Accepted evidence is what it says, and an attempt is given what the run has
\* accepted, and told why it was started (Checks, TaskInputs).
EvidenceHolds ==
  /\ I!GivenAccepted /\ I!LaunchedIsDue /\ I!ToldWhy
  /\ [](/\ part = "checks" => K!EvidenceHolds
        /\ part = "inputs" => I!ExpectsAccepted)

\* What the panes and the roster show of transcripts is what was written, once
\* and in order, whatever their files and rows go through meanwhile
\* (JsonlTails, CodexTurns, GeminiStore, RowTails, SessionScan, Liveness).
TranscriptsHold ==
  /\ J!CodexSaysAll /\ J!GrokSaysAll
  /\ D!FollowingIsRebuilding /\ D!RewritesAreSeen
  /\ X!NothingUnseen /\ Y!NothingUnseen
  /\ L!WriterKeepsSession
  /\ [](/\ (part = "pane" => J!PaneSaysAll)
        /\ (part = "stats" => J!StatsCountOnce)
        /\ (part = "turns" => C!EachMessageOnce /\ C!RowIsCurrent)
        /\ (part = "usage" => C!NoUseTwice)
        /\ (part = "gemini" => D!PanePrintsOnce)
        /\ (part = "messages" => R!MessagesInOrder)
        /\ (part = "parts" => R!PartsInStep)
        /\ (part = "scans" => X!RowsOpenTheirFile)
        /\ (part = "namesakes" => Y!RowsOpenTheirFile)
        /\ (part = "ages" => L!SilenceOnlyAges))

\* What is read is what it stands for: a workflow that is accepted cannot go
\* round by itself, a path is in a set just if it can be cut along the pattern,
\* an accepted report just says that the tests failed, or that they all passed
\* (WorkflowCycles, Checks).
ReadsAsMeant ==
  /\ part = "cycles" => W!CyclesAreBounded
  /\ part = "samples" =>
      CASE sample.of = "component" ->
             K!ComponentMatches(sample.pattern, sample.text)
               = K!FitsComponent(sample.pattern, sample.text)
        [] sample.of = "path" ->
             K!GlobMatches(sample.pattern, sample.text)
               = K!InGlob(sample.pattern, sample.text)
        [] sample.of = "report" ->
             /\ K!TestsFail(sample.doc, sample.exit, sample.expected, sample.baseline) =>
                  K!Red(sample.doc, sample.expected)
             /\ K!TestsPass(sample.doc, sample.exit, sample.expected, sample.baseline) =>
                  K!Green(sample.doc, sample.expected)
=============================================================================
