------------------------------- MODULE Watch -------------------------------
(***************************************************************************)
(* hermon watch: the terminal UI (App) and the watcher loop (Engine) on    *)
(* their two threads, and the channels between them: commands one way,     *)
(* events the other (ui/mod.rs run_terminal, engine.rs run, scan).         *)
(***************************************************************************)
EXTENDS Engine, App

CONSTANTS
  Filters,             \* what the filter may admit
  MaxCmds, MaxEvents   \* bounds: the UI and the engine wait for one another

WatchAssumption ==
  /\ Sessions = Keys /\ IsFiniteSet(Keys) /\ Filters \subseteq SUBSET Keys
  /\ {MaxCmds, MaxEvents} \subseteq Nat \ {0}

VARIABLES
  app,
  cmds, events,
  unread,    \* open panes whose replay has not been polled
  unsettled  \* history: since the last roster a session was evicted or resumed,
             \* or the pipelines were left with [Esc]

wvars == <<evars, app, cmds, events, unread, unsettled>>

WatchInit ==
  /\ EngineInit /\ app = NewApp
  /\ cmds = <<>> /\ events = <<>> /\ unread = {} /\ unsettled = FALSE

\* Panes the engine step leaves open, and those it opens.
Unread == unread' = (unread \cap panes') \cup (panes' \ panes)
-----------------------------------------------------------------------------
(* The engine's thread. *)

Resumptions(rows) ==
  {k \in Present(rows) :
     Tracks(k) /\ tracked[k].state = "done" /\ rows[k].state # "done"}

\* What a scan may find, and the order it lists it in.
Sights ==
  UNION {{[rows |-> rows, roster |-> roster] : roster \in SetToSeqs(Present(rows))} :
           rows \in Decks}

Narrated(type, ks) == SetToSeq({[type |-> type, key |-> k] : k \in ks})

EngineScans(sights) ==
  /\ Len(events) < MaxEvents /\ Len(cmds) <= MaxCmds
  /\ \E sight \in sights :
       /\ Scan(sight.rows)
       /\ events' = events \o <<[type |-> "roster", rows |-> sight.roster]>>
                      \o Narrated("resumed", Resumptions(sight.rows))
  /\ Unread /\ UNCHANGED <<app, cmds, unsettled>>

\* A pane that makes way for another is reported; one that has lingered is not.
EngineSettles ==
  /\ Settle /\ Unread
  /\ events' = events \o Narrated("evicted", panes \ panes')
  /\ UNCHANGED <<app, cmds, unsettled>>

EngineObeys ==
  /\ cmds # <<>> /\ cmds' = Tail(cmds)
  /\ LET cmd == Head(cmds) IN
       \/ cmd.type = "open" /\ OpenPane(cmd.key)
            /\ events' = events \o Narrated("evicted", panes \ panes')
       \/ cmd.type = "close" /\ ClosePane(cmd.key) /\ UNCHANGED events
       \/ cmd.type = "pinned" /\ Pinned(cmd.keys) /\ UNCHANGED events
  /\ Unread /\ UNCHANGED <<app, unsettled>>

EnginePumps ==
  /\ opening = {} /\ Len(events) < MaxEvents
  /\ \E k \in unread :
       /\ events' = Append(events, [type |-> "lines", key |-> k])
       /\ unread' = unread \ {k}
  /\ UNCHANGED <<evars, app, cmds, unsettled>>

EngineWaits == ClockTicks /\ UNCHANGED <<app, cmds, events, unread, unsettled>>
-----------------------------------------------------------------------------
(* The UI's thread: a turn of its loop takes a key, if there is one, then  *)
(* all events that have arrived, and then sends its commands.              *)

\* Of a turn: what it has made of the state, the commands so far.
Step(turn, next, more) ==
  [app |-> next, cmds |-> turn.cmds \o more \o Commands(turn.app, next)]

Hear(turn, e) ==
  Step(turn, CASE e.type = "roster"  -> OnRoster(turn.app, e.rows)
               [] e.type = "resumed" -> OnResumed(turn.app, e.key)
               [] e.type = "evicted" -> OnEvicted(turn.app, e.key)
               [] e.type = "lines"   -> OnLines(turn.app, e.key), <<>>)

Turn(next, more) ==
  LET turns[i \in 0 .. Len(events)] ==
        IF i = 0 THEN Step([app |-> app, cmds |-> <<>>], next, more)
        ELSE Hear(turns[i - 1], events[i])
      turn == turns[Len(events)]
  IN  /\ app' = turn.app /\ cmds' = cmds \o turn.cmds
      /\ events' = <<>> /\ UNCHANGED <<evars, unread>>

\* The commotion since the last roster.
Unsettles(e) == e.type \in {"resumed", "evicted"}
Settled(after) == \E j \in DOMAIN events : j > after /\ events[j].type = "roster"
Commotion(was) ==
  unsettled' = (\/ was /\ ~Settled(0)
                \/ \E i \in DOMAIN events : Unsettles(events[i]) /\ ~Settled(i))

UserPresses(keys) ==
  /\ Len(cmds) < MaxCmds
  /\ \E next \in keys :
       /\ Sync(next) # app /\ Turn(Sync(next), <<>>)
       /\ Commotion(unsettled \/ (next = LeaveFlows(app) /\ app.flows))

UserPins ==
  /\ Len(cmds) < MaxCmds /\ Selected(app)
  /\ Turn(Sync(TogglePin(app)), PinCommand(TogglePin(app)))
  /\ Commotion(unsettled)

UiHears == events # <<>> /\ Turn(app, <<>>) /\ Commotion(unsettled)

WatchNext ==
  \/ EngineScans(Sights) \/ EngineSettles \/ EngineObeys \/ EnginePumps \/ EngineWaits
  \/ UserPresses(Pressed(app, Filters)) \/ UserPins \/ UiHears

WatchSpec == WatchInit /\ [][WatchNext]_wvars

\* Both threads go round their loops: the engine scans every interval, polls
\* its panes in between and takes its commands; nobody has to press a key.
WatchFairness(sights) ==
  /\ SF_wvars(EngineScans(sights)) /\ WF_wvars(EngineSettles)
  /\ SF_wvars(EngineObeys) /\ SF_wvars(EnginePumps)
  /\ []<>(events = <<>>)
-----------------------------------------------------------------------------
\* Of a session the last command counts.
Orders(sent, type, k) == {i \in DOMAIN sent : sent[i] = [type |-> type, key |-> k]}
After(keys, sent) ==
  {k \in Keys :
     \/ k \in keys /\ Orders(sent, "close", k) = {}
     \/ \E i \in Orders(sent, "open", k) : \A j \in Orders(sent, "close", k) : j < i}

\* What the engine is told to tail is what the screen shows: the commands on
\* their way lead from what it has been told to the panes the UI counts as
\* open, and these are the ones the view calls for (sync_panes, run).
EngineInStep ==
  /\ After(wanted, cmds) = Range(app.open)
  /\ unsettled \/ app.open = Wants(app)

\* Unless all is hidden the cursor is on a session one can see, whatever
\* the roster, the filter and the keys did (resync_selection, apply_event).
CursorIsVisible ==
  \/ unsettled \/ app.flows \/ Visible(app) = <<>>
  \/ Selected(app)

\* Only panes that are open have a buffer: an old transcript is never found
\* when a pane is opened again (sync_panes, buffer_pane).
BuffersOfOpen == DOMAIN app.buffers \subseteq Range(app.open)

ScreenHolds == EngineInStep /\ CursorIsVisible /\ BuffersOfOpen

Quiet == events = <<>> /\ cmds = <<>> /\ opening = {}

\* ui/mod.rs apply_lifecycle: a buffer is dropped because the tailer has closed
\* or is about to be opened anew, with a fresh replay.  So a pane that is open at
\* both ends and has been read shows its history.
HistoryKept ==
  Quiet => \A k \in (panes \ unread) \cap Range(app.open) : Held(app, k) >= 1

\* A pane the screen shows of a session at work, with room for it at the
\* engine, is open there and read in the end, or no longer shown: a command
\* that comes too early, an eviction in between and a resumption lose nothing
\* (run, scan, sync_panes).
Showing(k) ==
  /\ k \in Range(app.open) /\ k \in ids /\ k \in Tailable
  /\ Tracks(k) /\ tracked[k].state = "live" /\ Cardinality(wanted) <= MaxPanes
LinesArrive == \A k \in Keys : Showing(k) ~> (k \in panes \ unread \/ ~Showing(k))
=============================================================================
