------------------------------ MODULE Liveness ------------------------------
(***************************************************************************)
(* Whether a session is live, needs attention or is done (source/mod.rs    *)
(* classify, claude.rs session_for, roster.rs roster_row), judged from the *)
(* last thing its store records and from the clock.                        *)
(*                                                                         *)
(* One session is followed: its store records events, some process may     *)
(* hold a Claude transcript open, and the roster is scanned now and then.  *)
(***************************************************************************)
EXTENDS Naturals

CONSTANTS
  Silence,   \* PERM_WAIT_SILENCE
  Idle,      \* --idle-timeout
  Mult,      \* TOOL_PENDING_CEILING_MULT and LSOF_STALE_MULT
  Fresh,     \* --fresh-window
  MaxTime

LivenessAssumption == {Silence, Idle, Fresh, MaxTime} \subseteq Nat /\ Mult \in Nat \ {0}

VARIABLES
  now,
  meta,     \* what the store says
  writer,   \* a process holds the transcript open for writing
  seen,     \* the source has followed the session before
  state     \* how the last scan classified it; "gone" when it has no row

lvars == <<now, meta, writer, seen, state>>

Metas == [claude : BOOLEAN, last : 0 .. MaxTime, tool : BOOLEAN,
          pending : BOOLEAN, closed : BOOLEAN]

\* turn_liveness_raw: a running tool has a longer leash.
Ceiling(m) == IF m.pending THEN Idle * Mult ELSE Idle
RawLive(m, t, forced) == ~m.closed /\ (forced \/ t - m.last <= Ceiling(m))

\* Mutant: the fresh window is forgotten, and a wedged tool is stuck for ever.
ClassifyUnaged(m, t, forced) ==
  IF RawLive(m, t, forced)
  THEN IF m.tool /\ t - m.last > Silence THEN "perm" ELSE "live"
  ELSE IF m.pending /\ ~m.closed THEN "stuck" ELSE "done"
Classify(m, t, forced) ==
  IF RawLive(m, t, forced)
  THEN IF m.tool /\ t - m.last > Silence THEN "perm" ELSE "live"
  ELSE IF m.pending /\ ~m.closed /\ t - m.last <= Fresh THEN "stuck" ELSE "done"

\* An open write handle is looked for only where it may change the verdict.
\* Mutant: a session that is followed already is not looked at again.
ProbedWhileRecent(m, t, followed) ==
  m.claude /\ t - m.last > Idle /\ t - m.last <= Idle * Mult
Probed(m, t, followed) ==
  m.claude /\ t - m.last > Idle /\ (followed \/ t - m.last <= Idle * Mult)

\* A done session leaves the roster when it is old.
Row(s, m, t) == IF s = "done" /\ t - m.last > Fresh THEN "gone" ELSE s

LInit ==
  /\ now = 1 /\ writer \in BOOLEAN
  /\ meta \in {m \in Metas : m.last = 0 /\ (m.claude => ~m.pending /\ ~m.closed)}
  /\ seen = FALSE /\ state = "gone"

\* Claude's store has neither pending calls nor the end of a turn.
StoreRecords ==
  /\ meta' \in {m \in Metas : /\ m.last = now /\ m.claude = meta.claude
                              /\ m.claude => ~m.pending /\ ~m.closed}
  /\ UNCHANGED <<now, writer, seen, state>>

Handle == meta.claude /\ writer' \in BOOLEAN /\ UNCHANGED <<now, meta, seen, state>>

Scans ==
  /\ state' = Row(Classify(meta, now, writer /\ Probed(meta, now, seen)), meta, now)
  /\ seen' = TRUE
  /\ UNCHANGED <<now, meta, writer>>

Passes == now < MaxTime /\ now' = now + 1 /\ UNCHANGED <<meta, writer, seen, state>>

LNext == StoreRecords \/ Handle \/ Scans \/ Passes
LSpec == LInit /\ [][LNext]_lvars
-----------------------------------------------------------------------------
Age == [live |-> 0, perm |-> 1, stuck |-> 2, done |-> 3, gone |-> 4]
Verdict(t, followed) ==
  Row(Classify(meta, t, writer /\ Probed(meta, t, followed)), meta, t)

\* A silent session only ages, from live by way of attention to done and gone:
\* no verdict is taken back by the mere passing of time, and in the end the
\* session is gone, or a process keeps it (classify, session_for).
SilenceOnlyAges ==
  /\ \A t, u \in now .. MaxTime :
       t <= u /\ seen => Age[Verdict(t, TRUE)] <= Age[Verdict(u, TRUE)]
  /\ \A t \in now .. MaxTime :
       t - meta.last > Fresh /\ t - meta.last > Idle * Mult =>
         \/ Verdict(t, TRUE) = "gone"
         \/ writer /\ Verdict(t, TRUE) \in {"live", "perm"}

\* A Claude session whose process still holds its transcript is not shown as
\* done once it is followed, however long it is silent (session_for).
WriterKeepsSession ==
  [][meta.claude /\ writer /\ seen /\ Scans => state' \in {"live", "perm"}]_lvars
=============================================================================
