----------------------------- MODULE RemoteLink -----------------------------
(***************************************************************************)
(* A remote roster (remote/source.rs) and the agent at its other end       *)
(* (remote/agent.rs).                                                      *)
(*                                                                         *)
(* On the host, a supervisor starts the transport's child and starts it    *)
(* again when the connection ends; for each connection a reader folds the  *)
(* agent's frames into what the roster shows and a writer passes on the    *)
(* commands of the panes, which all connections share in one bounded       *)
(* queue.  The agent scans its sessions, obeys commands and replays the    *)
(* history of each session it is told to tail.  The child may die at any   *)
(* time, and may leave behind a process that keeps its pipes open.         *)
(***************************************************************************)
EXTENDS Naturals, Sequences, FiniteSets

CONSTANTS
  None,
  Keys,        \* sessions of the agent
  CommandCap,  \* CMD_QUEUE
  PipeCap,     \* commands the child's stdin holds
  WireCap,     \* frames its writer and its stdout hold
  TooLong,     \* whether a snapshot or a context may be too long for a frame
  MaxScans, MaxConnections  \* bounds

\* What the agent sends.
Frames ==
  [type : {"hello"}, ours : BOOLEAN] \cup [type : {"context"}, scan : Nat]
    \cup [type : {"snap"}, scan : Nat, keys : SUBSET Keys]
    \cup [type : {"tail"}, key : Keys] \cup [type : {"refused", "bye"}]

RemoteAssumption ==
  /\ None \notin Keys \cup Frames /\ TooLong \subseteq BOOLEAN
  /\ {CommandCap, PipeCap, WireCap, MaxScans, MaxConnections} \subseteq Nat \ {0}
  /\ WireCap > 1

VARIABLES
  stop,      \* the RemoteSource was dropped
  phase,     \* of the supervisor
  link,      \* "connecting", "up", "down", "mismatch"
  snapshot,  \* newest Snap: its scan, its sessions
  pending,   \* the BotContext that came last: the scan it is of, or 0
  context,   \* the one in use
  tails,     \* sessions with an open pane
  asking,    \* the engine is about to queue this command
  cmds,      \* commands for the agent
  reading,   \* the reader runs
  frame,     \* what it has read and not folded yet
  greeted,   \* a Hello of our version came on this connection
  owes,      \* tails it has yet to reopen
  writer,    \* "wait", "put", "none"
  hand,      \* the command the writer holds
  child,     \* "none", "running", "dead"
  leftover,  \* a process the child started keeps its pipes open
  stdin, wire,
  agent,     \* its stage, the sessions it admits, tails, has yet to replay
  scans, connections,
  filled,    \* history: panes that got their replay on this connection
  lost       \* history: panes for which a command or a frame was dropped

host == <<stop, phase, link, snapshot, pending, context, tails, asking>>
reader == <<reading, frame, greeted, owes>>
pipes == <<child, leftover, stdin, wire>>
counts == <<scans, connections>>
rvars == <<host, reader, cmds, writer, hand, pipes, agent, counts, filled, lost>>

Shutdown == [type |-> "shutdown"]
Open(k) == [type |-> "open", key |-> k]
Close(k) == [type |-> "close", key |-> k]
Stages == {"start", "scan", "run"}
NewAgent == [stage |-> "start", admitted |-> {}, opened |-> {}, fresh |-> {}]

RemoteInit ==
  /\ stop = FALSE /\ phase = "idle" /\ link = "connecting"
  /\ snapshot = [scan |-> 0, keys |-> {}] /\ pending = 0 /\ context = 0
  /\ tails = {} /\ asking = None /\ cmds = <<>>
  /\ reading = FALSE /\ frame = None /\ greeted = FALSE /\ owes = {}
  /\ writer = "none" /\ hand = None
  /\ child = "none" /\ leftover = FALSE /\ stdin = <<>> /\ wire = <<>>
  /\ agent = NewAgent /\ scans = 0 /\ connections = 0
  /\ filled = {} /\ lost = {}

\* try_send: a command that finds the queue full is dropped.
Queue(cmd, k) ==
  IF Len(cmds) < CommandCap THEN cmds' = Append(cmds, cmd) /\ lost' = lost
                            ELSE cmds' = cmds /\ lost' = lost \cup {k}
-----------------------------------------------------------------------------
(* Panes of the engine: open_tailer, Drop for RemoteTailer, Drop. *)

OpenTailer(k) ==
  /\ ~stop /\ asking = None /\ k \in snapshot.keys \ tails
  /\ tails' = tails \cup {k} /\ asking' = Open(k)
  /\ filled' = filled \ {k} /\ lost' = lost \ {k}
  /\ UNCHANGED <<stop, phase, link, snapshot, pending, context, reader, cmds,
                 writer, hand, pipes, agent, counts>>

CloseTailer(k) ==
  /\ ~stop /\ asking = None /\ k \in tails
  /\ tails' = tails \ {k} /\ asking' = Close(k)
  /\ UNCHANGED <<stop, phase, link, snapshot, pending, context, reader, cmds,
                 writer, hand, pipes, agent, counts, filled, lost>>

Ask ==
  /\ asking # None /\ Queue(asking, asking.key) /\ asking' = None
  /\ UNCHANGED <<stop, phase, link, snapshot, pending, context, tails, reader,
                 writer, hand, pipes, agent, counts, filled>>

DropSource ==
  /\ ~stop /\ asking = None /\ stop' = TRUE
  /\ UNCHANGED <<phase, link, snapshot, pending, context, tails, asking, reader,
                 cmds, writer, hand, pipes, agent, counts, filled, lost>>
-----------------------------------------------------------------------------
(* supervise, run_connection *)

Kept == UNCHANGED <<stop, snapshot, pending, context, tails, asking, cmds, hand,
                    scans, filled, lost>>

\* The waits before a respawn outlast what is left of the last writer, unless
\* that is blocked for good; then it is forgotten.
Spawn ==
  /\ phase = "idle" /\ ~stop /\ connections < MaxConnections
  /\ writer \in {"none", "put"}
  /\ phase' = "run" /\ connections' = connections + 1
  /\ child' = "running" /\ leftover' = FALSE /\ stdin' = <<>> /\ wire' = <<>>
  /\ agent' = NewAgent
  /\ reading' = TRUE /\ frame' = None /\ greeted' = FALSE /\ owes' = {}
  /\ writer' = "wait"
  /\ UNCHANGED link /\ Kept

\* The transport cannot be started.
SpawnFails ==
  /\ phase = "idle" /\ ~stop /\ phase' = "pause"
  /\ UNCHANGED <<link, reader, writer, pipes, agent, connections>> /\ Kept

\* The connection is over.  Mutant: as soon as its child is dead.
OverWithChild == child = "dead" \/ stop
Over == ~reading \/ stop

\* The grace lets the writer say Shutdown, then the child is killed.
EndConnection ==
  /\ phase = "run" /\ Over /\ phase' = "grace"
  /\ UNCHANGED <<link, reader, writer, pipes, agent, connections>> /\ Kept

Kill ==
  /\ phase = "grace" /\ phase' = "join"
  /\ child' = "dead" /\ UNCHANGED <<leftover, stdin, wire>>
  /\ UNCHANGED <<link, reader, writer, agent, connections>> /\ Kept

\* join_before gives up on threads that do not end.  Mutant: it waits for them.
JoinedAll == ~reading /\ writer = "none"
Joined == TRUE

Join ==
  /\ phase = "join" /\ Joined
  /\ phase' = IF stop THEN "ended" ELSE "pause"
  /\ link' = IF link = "up" THEN "down" ELSE link
  /\ UNCHANGED <<reader, writer, pipes, agent, connections>> /\ Kept

\* sleep_until
Resume ==
  /\ phase = "pause" \/ (phase = "idle" /\ stop)
  /\ phase' = IF stop THEN "ended" ELSE "idle"
  /\ UNCHANGED <<link, reader, writer, pipes, agent, connections>> /\ Kept

Supervise == Spawn \/ SpawnFails \/ EndConnection \/ Kill \/ Join \/ Resume
-----------------------------------------------------------------------------
(* read_frames, apply_frame *)

Live == phase \in {"run", "grace"}

ReadFrame ==
  /\ reading /\ Live /\ frame = None /\ owes = {} /\ wire # <<>>
  /\ frame' = Head(wire) /\ wire' = Tail(wire)
  /\ UNCHANGED <<host, reading, greeted, owes, cmds, writer, hand, child,
                 leftover, stdin, agent, counts, filled, lost>>

Fold(type) == frame # None /\ frame.type = type /\ frame' = None
FoldKeeps == UNCHANGED <<stop, phase, tails, asking, cmds, writer, hand, pipes,
                         agent, counts>>

\* What is reopened on a Hello: once on each connection.  Mutant: nothing.
ReopenedNever == {}
Reopened == IF greeted THEN {} ELSE tails

FoldHello ==
  /\ Fold("hello")
  /\ IF frame.ours
     THEN /\ link' = "up" /\ pending' = 0 /\ context' = 0
          /\ owes' = Reopened /\ greeted' = TRUE
          /\ filled' = IF greeted THEN filled ELSE {}
          /\ lost' = IF greeted THEN lost ELSE {}
          /\ UNCHANGED reading
     ELSE /\ link' = "mismatch" /\ reading' = FALSE
          /\ UNCHANGED <<pending, context, owes, greeted, filled, lost>>
  /\ UNCHANGED snapshot /\ FoldKeeps

\* A context waits for the snapshot that follows it.  Mutant: it is used at once.
InUseAtOnce == frame.scan
InUse == context

FoldContext ==
  /\ Fold("context")
  /\ IF link = "up" THEN pending' = frame.scan /\ context' = InUse
                    ELSE UNCHANGED <<pending, context>>
  /\ UNCHANGED <<link, snapshot, reading, greeted, owes, filled, lost>>
  /\ FoldKeeps

FoldSnap ==
  /\ Fold("snap")
  /\ IF link = "up"
     THEN /\ snapshot' = [scan |-> frame.scan, keys |-> frame.keys]
          /\ context' = pending /\ pending' = 0
     ELSE UNCHANGED <<snapshot, context, pending>>
  /\ UNCHANGED <<link, reading, greeted, owes, filled, lost>> /\ FoldKeeps

FoldTail ==
  /\ Fold("tail")
  /\ filled' = IF link = "up" THEN filled \cup ({frame.key} \cap tails) ELSE filled
  /\ UNCHANGED <<link, snapshot, pending, context, reading, greeted, owes, lost>>
  /\ FoldKeeps

\* Refused: longer than a frame may be, or not a message.  It takes the context
\* that waits with it.
FoldRefused ==
  /\ Fold("refused") /\ pending' = 0
  /\ UNCHANGED <<link, snapshot, context, reading, greeted, owes, filled, lost>>
  /\ FoldKeeps

FoldBye ==
  /\ Fold("bye") /\ reading' = FALSE
  /\ UNCHANGED <<link, snapshot, pending, context, greeted, owes, filled, lost>>
  /\ FoldKeeps

Reopen(k) ==
  /\ k \in owes /\ owes' = owes \ {k} /\ Queue(Open(k), k)
  /\ UNCHANGED <<host, reading, frame, greeted, writer, hand, pipes, agent,
                 counts, filled>>

ReaderEnds ==
  /\ reading /\ frame = None /\ owes = {}
  /\ \/ wire = <<>> /\ child = "dead" /\ ~leftover
     \/ ~Live
  /\ reading' = FALSE
  /\ UNCHANGED <<host, frame, greeted, owes, cmds, writer, hand, pipes, agent,
                 counts, filled, lost>>

Read ==
  \/ ReadFrame \/ FoldHello \/ FoldContext \/ FoldSnap \/ FoldTail \/ FoldRefused
  \/ FoldBye \/ ReaderEnds \/ \E k \in Keys : Reopen(k)
-----------------------------------------------------------------------------
(* write_cmds *)

WriterKeeps == UNCHANGED <<host, reader, child, leftover, wire, agent, counts,
                           filled, lost>>

\* It waits for a command, and looks up now and then.
WriterTakes ==
  /\ writer = "wait" /\ cmds # <<>>
  /\ writer' = "put" /\ hand' = Head(cmds) /\ cmds' = Tail(cmds)
  /\ UNCHANGED stdin /\ WriterKeeps

WriterLeaves ==
  /\ writer = "wait" /\ (~reading \/ stop)
  /\ writer' = "put" /\ hand' = Shutdown
  /\ UNCHANGED <<cmds, stdin>> /\ WriterKeeps

\* The write blocks while the pipe is full.
WriterPuts ==
  /\ writer = "put"
  /\ \/ /\ \/ hand # Shutdown /\ stop
           \/ child = "dead" /\ ~leftover
        /\ writer' = "none" /\ UNCHANGED stdin
     \/ /\ ~(hand # Shutdown /\ stop)
        /\ child = "running" \/ leftover
        /\ Len(stdin) < PipeCap /\ stdin' = Append(stdin, hand)
        /\ writer' = IF hand = Shutdown THEN "none" ELSE "wait"
  /\ hand' = None
  /\ UNCHANGED cmds /\ WriterKeeps

Write == WriterLeaves \/ WriterTakes \/ WriterPuts
-----------------------------------------------------------------------------
(* The agent: run_options, pump_tails, read_stdin; and what may befall it. *)

AgentKeeps == UNCHANGED <<host, reader, cmds, writer, hand, connections, filled>>

AgentGreets ==
  /\ child = "running" /\ agent.stage = "start"
  /\ \E ours \in BOOLEAN : wire' = Append(wire, [type |-> "hello", ours |-> ours])
  /\ agent' = [agent EXCEPT !.stage = "scan"]
  /\ UNCHANGED <<child, leftover, stdin, scans, lost>> /\ AgentKeeps

\* A context too long for a frame is sent empty; a snapshot too long is refused.
AgentScans ==
  /\ child = "running" /\ agent.stage \in {"scan", "run"}
  /\ agent.stage = "run" => scans < MaxScans
  /\ Len(wire) + 2 <= WireCap
  /\ scans' = scans + 1
  /\ \E longContext, longSnap \in TooLong :
       wire' = wire \o
         << [type |-> "context", scan |-> IF longContext THEN 0 ELSE scans'],
            IF longSnap THEN [type |-> "refused"]
            ELSE [type |-> "snap", scan |-> scans', keys |-> Keys] >>
  /\ agent' = [agent EXCEPT !.stage = "run", !.admitted = Keys]
  /\ UNCHANGED <<child, leftover, stdin, lost>> /\ AgentKeeps

AgentObeys ==
  /\ child = "running" /\ agent.stage = "run" /\ stdin # <<>>
  /\ stdin' = Tail(stdin)
  /\ LET cmd == Head(stdin) IN
       \/ /\ cmd.type = "open"
          /\ agent' = IF cmd.key \in agent.admitted
                      THEN [agent EXCEPT !.opened = @ \cup {cmd.key},
                                         !.fresh = @ \cup {cmd.key}]
                      ELSE agent
          /\ UNCHANGED <<wire, child, leftover>>
       \/ /\ cmd.type = "close"
          /\ agent' = [agent EXCEPT !.opened = @ \ {cmd.key}, !.fresh = @ \ {cmd.key}]
          /\ UNCHANGED <<wire, child, leftover>>
       \/ /\ cmd.type = "shutdown" /\ Len(wire) < WireCap
          /\ wire' = Append(wire, [type |-> "bye"])
          /\ child' = "dead" /\ UNCHANGED <<agent, leftover>>
  /\ UNCHANGED <<scans, lost>> /\ AgentKeeps

\* The end of its stdin shuts it down.
AgentStops ==
  /\ child = "running" /\ agent.stage = "run" /\ stdin = <<>> /\ writer = "none"
  /\ Len(wire) < WireCap /\ wire' = Append(wire, [type |-> "bye"])
  /\ child' = "dead"
  /\ UNCHANGED <<leftover, stdin, agent, scans, lost>> /\ AgentKeeps

AgentPumps(k) ==
  /\ child = "running" /\ agent.stage = "run" /\ k \in agent.fresh
  /\ agent' = [agent EXCEPT !.fresh = @ \ {k}]
  /\ IF Len(wire) < WireCap
     THEN wire' = Append(wire, [type |-> "tail", key |-> k]) /\ UNCHANGED lost
     ELSE lost' = lost \cup {k} /\ UNCHANGED wire
  /\ UNCHANGED <<child, leftover, stdin, scans>> /\ AgentKeeps

Agent == AgentGreets \/ AgentScans \/ AgentObeys \/ AgentStops
           \/ \E k \in Keys : AgentPumps(k)

\* What its pipes still hold may be lost with it, from the end.
ChildDies ==
  /\ child = "running" /\ child' = "dead" /\ leftover' \in BOOLEAN
  /\ \E n \in 0 .. Len(wire) : wire' = SubSeq(wire, 1, n)
  /\ UNCHANGED <<stdin, agent, scans, lost>> /\ AgentKeeps

LeftoverEnds ==
  /\ leftover /\ leftover' = FALSE
  /\ UNCHANGED <<child, stdin, wire, agent, scans, lost>> /\ AgentKeeps
-----------------------------------------------------------------------------
RemoteNext ==
  \/ \E k \in Keys : OpenTailer(k) \/ CloseTailer(k)
  \/ Ask \/ DropSource \/ Supervise \/ Read \/ Write \/ Agent
  \/ ChildDies \/ LeftoverEnds

RemoteSpec == RemoteInit /\ [][RemoteNext]_rvars
SuperviseFairness == WF_rvars(Supervise)
RemoteFairness ==
  SuperviseFairness /\ WF_rvars(Ask) /\ WF_rvars(Read) /\ WF_rvars(Write)
    /\ WF_rvars(Agent)
-----------------------------------------------------------------------------
\* A frame is only folded into the roster while the connection it came on is
\* the current one: no reader outlives its connection, unless the source itself
\* is being dropped (run_connection, join_before, read_frames).
OldFramesNeverFold == frame # None => Live \/ stop

\* The ownership the roster shows was sent with the very snapshot it shows,
\* whatever frames were refused or lost in between (apply_frame, proto.rs).
ContextIsOfSnapshot == context \in {0, snapshot.scan}

\* Dropping the source ends its supervisor, even if the child reads nothing,
\* says nothing or leaves its pipes open: only the supervisor needs to run
\* (run_connection, join_before, sleep_until).
QuitsAlways == stop ~> phase = "ended"

\* A pane that stays open gets its session's history on every connection, on
\* the first as on a later one, if nothing was dropped at a full queue
\* (open_tailer, apply_frame, read_frames).
PaneRefills ==
  \A k \in Keys :
    <>[](k \in tails /\ link = "up" /\ child = "running" /\ k \notin lost)
      => <>[](k \in filled)
=============================================================================
