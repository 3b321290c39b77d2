------------------------------ MODULE MCMonitor ------------------------------
(***************************************************************************)
(* The desk side: panes and alerts of the watcher loop, the terminal UI,   *)
(* who raises banners, what is told of hosted runs, the rows of bots and   *)
(* what they open, remotes and their discovery.  In a behaviour only one   *)
(* of them takes steps.                                                    *)
(***************************************************************************)
EXTENDS Naturals, Sequences, SequencesExt, FiniteSets, TLC

CONSTANTS
  Parts, None,
  k1, k2, k3,          \* sessions
  p1, p2, p3,          \* programs
  a, b, c, x, y, e,    \* containers, names
  Bad,
  v1, v2, Default      \* vendors' ids, the profile every store has

VARIABLES
  part,
  now, tracked, ids, panes, wanted, pinned, errors, muted, booted, fired,
  opening, alerts, heard, app, cmds, events, unread, unsettled,
  stage, notifies, pidfile, reused, saw,
  link, alias, held, broken, reports, inventory, scanning, routes, rows, owners,
  shown, asked, got, turns,
  run, late, quiet, conditions, stops, told, passed,
  stop, phase, transport, snapshot, pending, context, tails, asking, rcmds, reading,
  frame, greeted, owes, writer, hand, child, leftover, stdin, wire, agent, scans,
  connections, filled, lost,
  upcoming, strikes, capped, delay, streak, storm,
  managed, remotes, disabled, listed

Row(s, young) == [state |-> s, young |-> young]
Live == Row("live", FALSE)
Done == Row("done", FALSE)

E == INSTANCE Engine WITH
       Keys <- {k1, k2}, Tailable <- {k1, k2}, Rows <- {Live, Done}, Enabled <- {},
       MaxPanes <- 1, Linger <- 1, Cooldown <- 1, Refire <- 1, MaxTime <- 3
N == INSTANCE Engine WITH
       Keys <- {k1}, Tailable <- {k1},
       Rows <- {Row(s, FALSE) : s \in {"live", "perm", "done"}} \cup {Row("done", TRUE)},
       Enabled <- {"perm", "error", "finished"},
       MaxPanes <- 1, Linger <- 1, Cooldown <- 2, Refire <- 2, MaxTime <- 4
W == INSTANCE Watch WITH
       Keys <- {k1, k2}, Sessions <- {k1, k2}, Tailable <- {k1, k2},
       Rows <- {Live, Done}, Enabled <- {},
       MaxPanes <- 1, Linger <- 1, Cooldown <- 1, Refire <- 1, MaxTime <- 1,
       GridSlots <- 2, Filters <- {{k1, k2}}, MaxCmds <- 1, MaxEvents <- 1
G == INSTANCE Watch WITH
       Keys <- {k1, k2, k3}, Sessions <- {k1, k2, k3}, Tailable <- {k1, k2, k3},
       Rows <- {Live, Done}, Enabled <- {},
       MaxPanes <- 2, Linger <- 1, Cooldown <- 1, Refire <- 1, MaxTime <- 1,
       GridSlots <- 2, Filters <- {{k1, k2}, {k1, k2, k3}}, MaxCmds <- 1, MaxEvents <- 1
A == INSTANCE Arbitration WITH
       Programs <- {p1, p2, p3}, Flag <- [p \in {p1, p2, p3} |-> "default"],
       Kind <- p1 :> "menubar" @@ p2 :> "watch" @@ p3 :> "hub"
\* Three stores, two of which may be configured; two profiles; a remote whose
\* rows name stores of its own, and one nested in another.
S == INSTANCE Routes WITH
       Stores <- {1, 2, 3}, Ids <- {v1, v2}, Short <- v1 :> 0 @@ v2 :> 0, Names <- <<x, y>>,
       Explicit <- None, MaxStores <- 2, Remotes <- {a}, MaxTurns <- 1, MaxConnections <- 2,
       Wires <- {[source |-> "C", store |-> 0, nested |-> TRUE, vendor |-> v2]}
                  \cup {[source |-> f, store |-> t, nested |-> FALSE, vendor |-> v1] :
                          f \in {"C", None}, t \in {0, 2}}
\* A bot step and a gate that leads back to it.
F == INSTANCE FlowFeed WITH
       Begin <- x, Next <- x :> y @@ y :> None, Gates <- {y},
       OnBlock <- x :> None @@ y :> x, Reasons <- {e}, Failures <- {Bad},
       Enabled <- {"perm", "stuck"}, MaxEvents <- 7, MaxReopens <- 1, muted <- quiet
R == INSTANCE RemoteLink WITH
       Keys <- {}, CommandCap <- 2, PipeCap <- 1, WireCap <- 3,
       TooLong <- {TRUE, FALSE}, MaxScans <- 2, MaxConnections <- 2,
       cmds <- rcmds, link <- transport
P == INSTANCE RemoteLink WITH
       Keys <- {k1}, CommandCap <- 1, PipeCap <- 1, WireCap <- 2,
       TooLong <- {FALSE}, MaxScans <- 1, MaxConnections <- 1,
       cmds <- rcmds, link <- transport
B == INSTANCE Backoff WITH
       BackoffMin <- 1, BackoffMax <- 30, InstantExit <- 1, HealthyUptime <- 10,
       InstantExitStrikes <- 3, Uptimes <- {0, 1, 9, 10}, pinned <- capped
D == INSTANCE Discovery WITH
       Containers <- {a, b, c}, Created <- a :> 1 @@ b :> 2 @@ c :> 2,
       Names <- {x, y, e}, Explicit <- {e},
       Reports <- {[name |-> x, label |-> None], [name |-> y, label |-> None],
                   [name |-> x, label |-> y], [name |-> Bad, label |-> x],
                   [name |-> y, label |-> e]}

ASSUME /\ E!EngineAssumption /\ N!EngineAssumption
       /\ W!WatchAssumption /\ W!AppAssumption
       /\ G!WatchAssumption /\ G!AppAssumption
       /\ A!ArbitrationAssumption /\ S!RoutesAssumption /\ F!FeedAssumption
       /\ R!RemoteAssumption /\ P!RemoteAssumption
       /\ B!BackoffAssumption /\ D!DiscoveryAssumption

engine == <<now, tracked, ids, panes, wanted, pinned, errors, muted, booted, fired,
            opening, alerts, heard>>
ui == <<app, cmds, events, unread, unsettled>>
programs == <<stage, notifies, pidfile, reused, saw>>
bots == <<link, alias, held, broken, reports, inventory, scanning, routes, rows, owners,
          shown, asked, got, turns>>
feed == <<run, late, quiet, conditions, stops, told, passed>>
remote == <<stop, phase, transport, snapshot, pending, context, tails, asking, rcmds,
            reading, frame, greeted, owes, writer, hand, child, leftover, stdin,
            wire, agent, scans, connections, filled, lost>>
backoff == <<upcoming, strikes, capped, delay, streak, storm>>
docker == <<managed, remotes, disabled, listed>>
mcvars == <<part, engine, ui, programs, bots, feed, remote, backoff, docker>>
-----------------------------------------------------------------------------
\* What a scan of the watch finds: both sessions, or the second alone.
MCSights ==
  {[rows |-> k1 :> v @@ k2 :> Live, roster |-> <<k1, k2>>] : v \in {Live, Done}}
    \cup (IF part = "leaves" THEN {[rows |-> k2 :> Live, roster |-> <<k2>>]} ELSE {})
\* The keys of a list and of the pipelines, with dismissals while nobody leaves.
MCKeys ==
  {W!ToggleFlows(app)}
    \cup (IF part = "watch" THEN {W!ToggleMode(app)} ELSE {})
    \cup (IF app.flows THEN {W!LeaveFlows(app), W!OpenStep(app, k1)}
                       ELSE {W!Down(app), W!Up(app)})
    \cup (IF app.mode = "grid" THEN {W!Dismiss(app)} ELSE {})

\* A grid of two pages, filtered and sorted.
GridSights ==
  {[rows |-> [k \in {k1, k2, k3} |-> Live], roster |-> <<k1, k2, k3>>],
   [rows |-> [k \in {k2, k3} |-> Live], roster |-> <<k3, k2>>]}
GridKeys ==
  {G!ToggleMode(app), G!Down(app)}
    \cup {G!Arrange(app, app.roster, filter) : filter \in {{k1, k2}, {k1, k2, k3}}}
    \cup (IF app.mode = "grid" THEN G!GridKey(app) ELSE {})

MCInit ==
  /\ part \in Parts
  /\ W!WatchInit /\ A!ArbitrationInit /\ R!RemoteInit /\ B!BackoffInit
  /\ D!DiscoveryInit
  /\ S!SInit /\ F!FeedInit

\* Symbolic links change under the stores, remotes say what they like, or the
\* profiles of a store come and go.
RoutesChange ==
  \/ S!ScanReads \/ S!ScanAdmits
  \/ part # "profiles" /\ (S!Asks \/ S!AsksByKey \/ S!Opens)
  \/ part = "links" /\ (S!Retargets \/ S!Sessions) /\ UNCHANGED <<alias, broken>>
  \/ part = "wires" /\ S!Reports
  \/ part = "profiles" /\ S!Retargets /\ UNCHANGED link

MCNext ==
  /\ UNCHANGED part
  /\ \/ /\ part = "panes"
        /\ \/ E!ScanAny \/ E!Settle \/ E!ClockTicks
           \/ \E k \in {k1, k2} : E!Command(k)
           \/ \E keys \in {{}, {k1}} : E!Pinned(keys)
        /\ UNCHANGED <<ui, programs, bots, feed, remote, backoff, docker>>
     \/ /\ part = "alerts"
        /\ \/ N!ScanAny \/ N!Settle \/ N!PumpPanes \/ N!ClockTicks
           \/ N!Command(k1) \/ \E on \in BOOLEAN : N!SetMuted(on)
        /\ UNCHANGED <<ui, programs, bots, feed, remote, backoff, docker>>
     \/ /\ part \in {"watch", "leaves"}
        /\ \/ W!EngineScans(MCSights) \/ W!EngineSettles \/ W!EngineObeys
           \/ W!EnginePumps \/ W!EngineWaits
           \/ W!UserPresses(MCKeys) \/ W!UserPins \/ W!UiHears
        /\ UNCHANGED <<programs, bots, feed, remote, backoff, docker>>
     \/ /\ part = "grid"
        /\ \/ G!EngineScans(GridSights) \/ G!EngineSettles \/ G!EngineObeys
           \/ G!EnginePumps \/ G!UserPresses(GridKeys) \/ G!UiHears
        /\ UNCHANGED <<programs, bots, feed, remote, backoff, docker>>
     \/ /\ part = "banners" /\ A!ArbitrationNext
        /\ UNCHANGED <<engine, ui, bots, feed, remote, backoff, docker>>
     \/ /\ part \in {"links", "wires", "profiles"} /\ RoutesChange
        /\ UNCHANGED <<engine, ui, programs, feed, remote, backoff, docker>>
     \/ /\ part = "feed" /\ F!FeedNext
        /\ UNCHANGED <<engine, ui, programs, bots, remote, backoff, docker>>
     \/ /\ part = "frames" /\ R!RemoteNext
        /\ UNCHANGED <<engine, ui, programs, bots, feed, backoff, docker>>
     \/ /\ part = "tails" /\ P!RemoteNext
        /\ UNCHANGED <<engine, ui, programs, bots, feed, backoff, docker>>
     \/ /\ part = "respawns" /\ B!BackoffNext
        /\ UNCHANGED <<engine, ui, programs, bots, feed, remote, docker>>
     \/ /\ part = "docker" /\ D!DiscoveryNext
        /\ UNCHANGED <<engine, ui, programs, bots, feed, remote, backoff>>

MCSpec == MCInit /\ [][MCNext]_mcvars
-----------------------------------------------------------------------------
\* Panes are kept while they may be and given up when they must (Engine).
PanesHold ==
  E!PaneKept /\ E!ForgottenWhenDue /\ [](part \in {"panes", "watch", "leaves"} => E!PanesInOrder)

\* Alerts are raised when they should, by the program that should
\* (Engine, Arbitration), and for all a hosted run wants of its owner (FlowFeed).
AlertsHold ==
  /\ N!NoStorm /\ N!AttentionIsTold /\ F!EverythingTold
  /\ [](/\ part = "banners" => A!YieldsToHolder /\ A!SilentForSomeone
        /\ part = "feed" => F!DoneWasPassed)

\* The screen, the cursor and the engine agree (Watch).
ScreenHolds ==
  /\ part \in {"watch", "leaves"} => W!ScreenHolds
  /\ part = "grid" => G!ScreenHolds

\* ui/mod.rs, of a resumed session: "the engine's own tailer already closed or
\* is about to reopen with a fresh replay".  So the buffer that is dropped
\* would be filled again (App::apply_lifecycle).
HistoryKept == part = "watch" => W!HistoryKept

\* What comes from a remote belongs together, a remote that fails is left in
\* peace, containers keep their names, and a row opens the session it shows
\* (RemoteLink, Backoff, Discovery, Routes).
RemotesHold ==
  /\ D!NoHandover /\ D!OldestIsFollowed /\ D!FollowedSoon /\ B!WaitsGrow
  /\ S!OwnersStay
  /\ [](/\ part = "docker" => D!RosterInStep
        /\ part = "respawns" => B!StormIsOver
        /\ part \in {"links", "wires", "profiles"} => S!OpensWhatIsShown /\ S!FreshRowsOpen
        /\ part \in {"frames", "tails"} => R!OldFramesNeverFold /\ R!ContextIsOfSnapshot)
=============================================================================
