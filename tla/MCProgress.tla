----------------------------- MODULE MCProgress -----------------------------
(***************************************************************************)
(* What must happen in the end, under the fairness of the processes and    *)
(* threads involved: a Hermes turn, the tracker, intake, the panes of the  *)
(* watcher loop, the terminal UI with it, a remote that is dropped, and    *)
(* the panes of a remote.  In a behaviour only one of them takes steps.    *)
(***************************************************************************)
EXTENDS HermesTurn, Sequences, FiniteSets, TLC

CONSTANTS
  Parts,
  k1, k2,                            \* sessions
  q, b1, ok,                         \* a question, its text, a reply
  Go, Blank, Owner, App, Stranger,
  i1, i2, i3                         \* intakes

VARIABLES
  part,
  mem, disk, thread, clock, call, replies,
  newest,  \* the order of the service's pages
  deaths,  \* of the host
  pc, intakeLock, runLock, branch, worktree, published, record, comment,
  now, tracked, ids, panes, wanted, pinned, errors, muted, booted, fired,
  opening, alerts, heard, app, cmds, events, unread, unsettled,
  stop, phase, link, snapshot, pending, context, tails, asking, rcmds, reading,
  frame, greeted, owes, writer, hand, child, leftover, stdin, wire, agent, scans,
  connections, filled, lost

\* What the owner and a stranger say to the question.
MCRemarks == [user : {Owner, Stranger}, body : {ok}, to : {q}]

Live == [state |-> "live", young |-> FALSE]
Done == [state |-> "done", young |-> FALSE]

T == INSTANCE Tracker WITH
       Gates <- {}, Questions <- {q}, Alerts <- {}, Words <- {ok},
       Rendered <- (q :> {b1}), Remarks <- MCRemarks,
       PageSize <- 1, PageLimit <- 1, MaxRemarks <- 2, MaxTime <- 2,
       heard <- replies
I == INSTANCE Intake WITH Intakes <- {i1, i2, i3}
E == INSTANCE Engine WITH
       Keys <- {k1, k2}, Tailable <- {k1, k2}, Rows <- {Live, Done}, Enabled <- {},
       MaxPanes <- 1, Linger <- 1, Cooldown <- 1, Refire <- 1, MaxTime <- 2
W == INSTANCE Watch WITH
       Keys <- {k1, k2}, Sessions <- {k1, k2}, Tailable <- {k1, k2},
       Rows <- {Live, Done}, Enabled <- {},
       MaxPanes <- 1, Linger <- 1, Cooldown <- 1, Refire <- 1, MaxTime <- 1,
       GridSlots <- 2, Filters <- {{k1, k2}}, MaxCmds <- 1, MaxEvents <- 1
Q == INSTANCE RemoteLink WITH
       Keys <- {}, CommandCap <- 1, PipeCap <- 1, WireCap <- 2, TooLong <- {FALSE},
       MaxScans <- 1, MaxConnections <- 2, cmds <- rcmds
R == INSTANCE RemoteLink WITH
       Keys <- {k1}, CommandCap <- 1, PipeCap <- 1, WireCap <- 2, TooLong <- {FALSE},
       MaxScans <- 1, MaxConnections <- 2, cmds <- rcmds

ASSUME /\ T!TrackerAssumption /\ I!IntakeAssumption
       /\ E!EngineAssumption /\ W!WatchAssumption /\ W!AppAssumption
       /\ Q!RemoteAssumption /\ R!RemoteAssumption

tracker == <<mem, disk, thread, clock, call, replies, newest, deaths>>
intake == <<pc, intakeLock, runLock, branch, worktree, published, record, comment>>
engine == <<now, tracked, ids, panes, wanted, pinned, errors, muted, booted, fired,
            opening, alerts, heard>>
ui == <<app, cmds, events, unread, unsettled>>
remote == <<stop, phase, link, snapshot, pending, context, tails, asking, rcmds,
            reading, frame, greeted, owes, writer, hand, child, leftover, stdin,
            wire, agent, scans, connections, filled, lost>>
mcvars == <<part, vars, tracker, intake, engine, ui, remote>>
-----------------------------------------------------------------------------
(* A step of one of the parts. *)

OfHermes(step) ==
  part = "hermes" /\ step /\ UNCHANGED <<part, tracker, intake, engine, ui, remote>>
OfTracker(step) ==
  /\ part = "tracker" /\ step
  /\ UNCHANGED <<part, vars, newest, intake, engine, ui, remote>>
OfIntake(step) ==
  part = "intake" /\ step /\ UNCHANGED <<part, vars, tracker, engine, ui, remote>>
OfPanes(step) ==
  part = "panes" /\ step /\ UNCHANGED <<part, vars, tracker, intake, ui, remote>>
OfWatch(step) ==
  part = "watch" /\ step /\ UNCHANGED <<part, vars, tracker, intake, remote>>
OfQuits(step) ==
  /\ part = "quits" /\ step
  /\ UNCHANGED <<part, vars, tracker, intake, engine, ui>>
OfRefills(step) ==
  /\ part = "refills" /\ step
  /\ UNCHANGED <<part, vars, tracker, intake, engine, ui>>

\* The host dies once.
Dies == T!Restart /\ call # T!Idle /\ deaths < 1 /\ deaths' = deaths + 1
Lives(step) == step /\ UNCHANGED deaths

\* What a scan of the watch finds: both sessions, or the second alone.
MCSights ==
  {[rows |-> k1 :> a @@ k2 :> b, roster |-> <<k1, k2>>] : a, b \in {Live, Done}}
    \cup {[rows |-> k2 :> Live, roster |-> <<k2>>]}
Scans == W!EngineScans(MCSights)
MCKeys == {W!Down(app), W!Up(app), W!ToggleMode(app)}

MCInit ==
  /\ part \in Parts
  /\ Init /\ T!TrackerInit /\ I!IntakeInit /\ W!WatchInit /\ R!RemoteInit
  /\ newest \in (IF part = "tracker" THEN BOOLEAN ELSE {TRUE})
  /\ deaths = 0

MCNext ==
  \/ OfHermes(Next)
  \/ OfTracker(\/ Dies
               \/ Lives(T!Calls(q) \/ T!Exchange(newest) \/ T!Outsiders
                          \/ T!ClockTicks))
  \/ OfIntake(I!IntakeNext)
  \/ OfPanes(\/ E!ScanAny \/ E!Settle \/ E!ClockTicks
             \/ \E k \in {k1, k2} : E!Command(k)
             \/ \E keys \in {{}, {k1}} : E!Pinned(keys))
  \/ OfWatch(\/ Scans \/ W!EngineSettles \/ W!EngineObeys \/ W!EnginePumps
             \/ W!EngineWaits \/ W!UserPresses(MCKeys) \/ W!UiHears)
  \/ OfQuits(Q!RemoteNext)
  \/ OfRefills(\/ R!OpenTailer(k1) \/ R!Ask \/ R!Supervise \/ R!Read \/ R!Write
               \/ R!Agent \/ (R!ChildDies /\ ~leftover'))

\* The fairness of the parts, each step beside steps of the others.
MCFairness ==
  /\ WF_mcvars(\/ OfHermes(WorkerStep) \/ OfTracker(Lives(T!Exchange(newest)))
               \/ OfIntake(I!IntakeStep(i1)) \/ OfPanes(E!ScanAny)
               \/ OfWatch(W!EngineSettles)
               \/ OfQuits(Q!Supervise) \/ OfRefills(R!Supervise))
  /\ WF_mcvars(\/ OfTracker(Lives(T!Calls(q)))
               \/ OfIntake(I!IntakeStep(i2)) \/ OfPanes(E!Settle) \/ OfRefills(R!Ask))
  /\ WF_mcvars(OfIntake(I!IntakeStep(i3)) \/ OfRefills(R!Read))
  /\ WF_mcvars(OfIntake(I!TickAnnounces) \/ OfRefills(R!Write))
  /\ WF_mcvars(OfRefills(R!Agent))
  /\ SF_mcvars(OfTracker(Lives(T!Bind /\ disk' # disk)) \/ OfWatch(Scans))
  /\ SF_mcvars(\/ OfTracker(Lives(T!RecoverPosted /\ disk' # disk))
               \/ OfWatch(W!EngineObeys))
  /\ SF_mcvars(OfTracker(Lives(T!Create /\ disk' # disk)) \/ OfWatch(W!EnginePumps))
  /\ SF_mcvars(OfTracker(Lives(T!ReadPage(newest) /\ disk' # disk)))
  /\ []<>(events = <<>>)

MCSpec == MCInit /\ [][MCNext]_mcvars /\ MCFairness
-----------------------------------------------------------------------------
\* A question that the host keeps asking is answered once the owner replied.
AnswerArrives == part = "tracker" => T!AnswerArrives

\* A run that can be seen is whole, and its owner hears of it (Intake).
IntakeHolds ==
  I!CancelOutlivesIntake /\ []I!RunIsWhole /\ (part = "intake" => I!StartedIsTold)

\* A pane that is wanted comes, and comes back (Engine), and is read (Watch).
PanesArrive ==
  (part = "panes" => E!PaneReturns) /\ (part = "watch" => W!LinesArrive)

\* A remote that is dropped ends, and one that is connected again shows its
\* sessions' history again (RemoteLink).
RemoteProgress ==
  (part = "quits" => Q!QuitsAlways) /\ (part = "refills" => R!PaneRefills)
=============================================================================
