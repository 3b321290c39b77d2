------------------------------- MODULE Engine -------------------------------
(***************************************************************************)
(* The watcher loop (engine.rs run, scan, try_open; notify.rs              *)
(* decide_alerts): it follows the sessions of the roster from scan to      *)
(* scan, opens panes for those the UI wants, closes panes of sessions that *)
(* finished, and decides which desktop alerts to raise.                    *)
(*                                                                         *)
(* The loop is one thread: commands of the UI, scans and polls of the open *)
(* panes alternate.  A scan ends by opening, one by one and in no given    *)
(* order, the panes that are wanted and have none: `opening`.              *)
(***************************************************************************)
EXTENDS Naturals, FiniteSets

CONSTANTS
  Keys,       \* routing keys of sessions
  Tailable,   \* those whose source can tail them
  Rows,       \* what the roster may say of a session: state, young
  Enabled,    \* alert kinds of the configuration
  MaxPanes,   \* --max-panes
  Linger,     \* --linger; 0 is for ever
  Cooldown,   \* --notify-cooldown
  Refire,     \* ATTENTION_REFIRE_SECS
  MaxTime     \* bound on the clock

EngineAssumption ==
  /\ Tailable \subseteq Keys
  /\ Rows \subseteq [state : {"live", "perm", "stuck", "done"}, young : BOOLEAN]
  /\ Enabled \subseteq {"finished", "error", "perm", "stuck"}
  /\ {MaxPanes, Linger, Cooldown} \subseteq Nat /\ {Refire, MaxTime} \subseteq Nat \ {0}

VARIABLES
  now,
  tracked,  \* followed session -> state, finished, killed, attn
  ids,      \* sessions of the last scan
  panes,    \* open panes
  wanted,   \* panes the UI asked for
  pinned,
  errors,   \* panes that showed an error since their session's last row
  muted,
  booted,   \* the startup grace is over
  fired,    \* <<key, kind>> -> when it was last fired
  opening,  \* sessions the scan in progress is to open panes for
  alerts,   \* history: the alerts of the last scan
  heard     \* history: alert -> when it was last raised, and whether the
            \* session was seen outside of the state since

evars == <<now, tracked, ids, panes, wanted, pinned, errors, muted, booted,
           fired, opening, alerts, heard>>

Attentions == {"perm", "stuck"}
Entries == [state : {"live", "perm", "stuck", "done"}, finished : 0 .. MaxTime,
            killed : BOOLEAN, attn : 0 .. MaxTime]
Names == Keys \X {"finished", "error", "perm", "stuck"}

EngineInit ==
  /\ now = 1
  /\ tracked = <<>> /\ ids = {} /\ panes = {} /\ wanted = {} /\ pinned = {}
  /\ errors = {} /\ muted = FALSE /\ booted = FALSE /\ fired = <<>>
  /\ opening = {} /\ alerts = {} /\ heard = <<>>

Tracks(k) == k \in DOMAIN tracked
Present(rows) == DOMAIN rows

\* A session that leaves the roster is done.
Now(k, rows) == IF k \in Present(rows) THEN rows[k].state ELSE "done"
-----------------------------------------------------------------------------
(* lifecycle_events, attention_events, vanished_events, apply_lifecycle,   *)
(* refresh_liveness: what is remembered of a session after a scan.         *)

\* Mutant: a session that resumes is not given its pane back.
EntryKilledForGood(k, rows) ==
  LET state == Now(k, rows)
      new   == ~Tracks(k)
      turn  == new \/ (tracked[k].state = "done") # (state = "done")
  IN  [state |-> state,
       finished |-> IF state # "done" THEN 0
                    ELSE IF turn THEN now ELSE tracked[k].finished,
       killed |-> ~new /\ tracked[k].killed,
       attn |-> IF state \notin Attentions THEN 0
                ELSE IF new \/ tracked[k].state # state THEN now
                ELSE tracked[k].attn]
Entry(k, rows) ==
  LET state == Now(k, rows)
      new   == ~Tracks(k)
      turn  == new \/ (tracked[k].state = "done") # (state = "done")
  IN  [state |-> state,
       finished |-> IF state # "done" THEN 0
                    ELSE IF turn THEN now ELSE tracked[k].finished,
       killed |-> ~turn /\ tracked[k].killed,
       attn |-> IF state \notin Attentions THEN 0
                ELSE IF new \/ tracked[k].state # state THEN now
                ELSE tracked[k].attn]

Followed(rows) == [k \in DOMAIN tracked \cup Present(rows) |-> Entry(k, rows)]

\* linger_expire
Lingered(entry) ==
  /\ Linger > 0 /\ entry.state = "done" /\ ~entry.killed
  /\ now - entry.finished >= Linger
Aged(followed) ==
  [k \in DOMAIN followed |->
     [followed[k] EXCEPT !.killed = @ \/ Lingered(followed[k])]]

\* forget.  Mutant: a session that is gone is forgotten at once.
KeptWhilePresent(aged, rows) == DOMAIN aged \cap Present(rows)
Kept(aged, rows) ==
  {k \in DOMAIN aged : aged[k].killed => k \in Present(rows)}

\* killed_and_done: closed for having finished, and not resumed since.
Closed(entry) == entry.killed /\ entry.state = "done"
KilledDone(k) == Tracks(k) /\ Closed(tracked[k])

\* What the scan is to open panes for.  Mutant: what it finds for the first time.
PendingNew(aged, kept, left) ==
  {k \in wanted \ left : k \notin ids /\ ~(k \in kept /\ Closed(aged[k]))}
Pending(aged, kept, left) ==
  {k \in wanted \ left : ~(k \in kept /\ Closed(aged[k]))}
-----------------------------------------------------------------------------
(* build_transitions, decide_alerts *)

From(k, rows) == IF Tracks(k) THEN tracked[k].state ELSE rows[k].state
Left(rows) ==
  {n \in Present(rows) \X Attentions :
     From(n[1], rows) = n[2] /\ rows[n[1]].state # n[2]}
Entered(rows) == {n \in Present(rows) \X Attentions : rows[n[1]].state = n[2]}

\* The clock of an alert has run out.  Mutant: of every alert's, at once.
DueAlways(n, rows, interval) == TRUE
Due(n, rows, interval) ==
  n \in DOMAIN fired \ Left(rows) => now - fired[n] >= interval

Finishes(k, rows) ==
  /\ rows[k].state = "done" /\ From(k, rows) # "done"
  /\ From(k, rows) \notin Attentions /\ ~rows[k].young

Alerts(rows) ==
  IF ~booted \/ muted THEN {}
  ELSE {n \in Present(rows) \X Enabled :
          CASE n[2] = "finished" -> Finishes(n[1], rows) /\ Due(n, rows, Cooldown)
            [] n[2] = "error" -> n[1] \in errors /\ Due(n, rows, Cooldown)
            [] OTHER -> n \in Entered(rows) /\ Due(n, rows, Refire)}

\* The first scan seeds the clocks of sessions that need attention already.
\* Mutant: it does not.
SeededNever(rows) == {}
Seeded(rows) == IF booted THEN {} ELSE Entered(rows)

Fired(rows) ==
  LET new == Alerts(rows) \cup Seeded(rows) IN
  [n \in (DOMAIN fired \ Left(rows)) \cup new |-> IF n \in new THEN now ELSE fired[n]]

Outside(n, rows) == n[2] \in Attentions /\ Now(n[1], rows) # n[2]
Heard(rows) ==
  [n \in DOMAIN heard \cup Alerts(rows) |->
     IF n \in Alerts(rows) THEN [at |-> now, left |-> FALSE]
     ELSE [heard[n] EXCEPT !.left = @ \/ Outside(n, rows)]]
-----------------------------------------------------------------------------
Scan(rows) ==
  /\ opening = {}
  /\ LET aged == Aged(Followed(rows))
         kept == Kept(aged, rows)
     IN  /\ tracked' = [k \in kept |-> aged[k]]
         /\ panes' = {k \in panes \cap kept :
                        ~Lingered(Followed(rows)[k])}
         /\ opening' = Pending(aged, kept, panes')
  /\ ids' = Present(rows)
  /\ alerts' = Alerts(rows) /\ fired' = Fired(rows) /\ heard' = Heard(rows)
  /\ booted' = TRUE
  /\ errors' = errors \ Present(rows)
  /\ UNCHANGED <<now, wanted, pinned, muted>>

Decks == UNION {[S -> Rows] : S \in SUBSET Keys}
ScanAny == \E rows \in Decks : Scan(rows)
-----------------------------------------------------------------------------
(* try_open: a full set of panes gives up the one that finished first.     *)

\* Mutant: a pane is opened beside a full set.
FullLate == Cardinality(panes) > MaxPanes
Full == Cardinality(panes) >= MaxPanes

\* Mutant: pins are not looked at.
DisplaceableUnpinned == {v \in panes : tracked[v].state = "done"}
Displaceable == {v \in panes \ pinned : tracked[v].state = "done"}
Victims ==
  {v \in Displaceable :
     \A u \in Displaceable : tracked[v].finished <= tracked[u].finished}

Opens(k) == k \in ids /\ k \in Tailable /\ (Full => Victims # {})

\* The pane is opened, if it can be.
TryOpen(k) ==
  \/ ~Opens(k) /\ UNCHANGED <<panes, tracked>>
  \/ Opens(k) /\ ~Full /\ panes' = panes \cup {k} /\ UNCHANGED tracked
  \/ Opens(k) /\ Full
     /\ \E v \in Victims : /\ panes' = (panes \ {v}) \cup {k}
                           /\ tracked' = [tracked EXCEPT ![v].killed = TRUE]

Keep == UNCHANGED <<now, ids, errors, booted, fired, alerts, heard>>

OpenNext(k) ==
  /\ k \in opening /\ opening' = opening \ {k}
  /\ TryOpen(k)
  /\ UNCHANGED <<wanted, pinned, muted>> /\ Keep
-----------------------------------------------------------------------------
(* Commands of the UI, polls of the panes, the clock. *)

OpenPane(k) ==
  /\ opening = {}
  /\ wanted' = wanted \cup {k}
  /\ IF k \in panes \/ KilledDone(k) THEN UNCHANGED <<panes, tracked>>
     ELSE TryOpen(k)
  /\ UNCHANGED <<pinned, muted, opening>> /\ Keep

ClosePane(k) ==
  /\ opening = {}
  /\ wanted' = wanted \ {k} /\ panes' = panes \ {k}
  /\ UNCHANGED <<tracked, pinned, muted, opening>> /\ Keep

Pinned(keys) ==
  /\ opening = {} /\ pinned' = keys
  /\ UNCHANGED <<tracked, panes, wanted, muted, opening>> /\ Keep

SetMuted(on) ==
  /\ opening = {} /\ muted' = on
  /\ UNCHANGED <<tracked, panes, wanted, pinned, opening>> /\ Keep

\* pump_panes: some of the open panes show an error, in the history they
\* replay or in what is new.
PumpPanes ==
  /\ opening = {}
  /\ \E shown \in SUBSET panes : errors' = errors \cup shown
  /\ UNCHANGED <<now, tracked, ids, panes, wanted, pinned, muted, booted, fired,
                 opening, alerts, heard>>

ClockTicks ==
  /\ opening = {} /\ now < MaxTime /\ now' = now + 1
  /\ UNCHANGED <<tracked, ids, panes, wanted, pinned, errors, muted, booted,
                 fired, opening, alerts, heard>>

Command(k) == OpenPane(k) \/ ClosePane(k)
Settle == \E k \in Keys : OpenNext(k)

EngineNext ==
  \/ ScanAny \/ Settle \/ PumpPanes \/ ClockTicks
  \/ \E k \in Keys : Command(k)
  \/ \E keys \in SUBSET Keys : Pinned(keys)
  \/ \E on \in BOOLEAN : SetMuted(on)

\* The loop scans every interval and finishes every scan.
EngineFairness == WF_evars(ScanAny) /\ WF_evars(Settle)
EngineSpec == EngineInit /\ [][EngineNext]_evars
-----------------------------------------------------------------------------
(* What the watcher loop promises the UI and the desktop. *)

\* The panes stay within their limit, are wanted and followed, and none is
\* left of a session that was closed for having finished: a slot that a
\* finished session gave up is free (linger_expire, forget, try_open).
PanesInOrder ==
  /\ Cardinality(panes) <= MaxPanes
  /\ panes \subseteq wanted \cap DOMAIN tracked
  /\ \A k \in panes : ~KilledDone(k)

\* While the UI wants a pane it is only lost to the session's own end: never
\* while the session lives or needs attention, and when it is pinned only by
\* lingering or for having left the roster (try_open, linger_expire, forget).
PaneKept ==
  [][\A k \in panes \ panes' :
       k \in wanted' =>
         /\ k \in DOMAIN tracked' => tracked'[k].state = "done"
         /\ k \in pinned /\ k \in DOMAIN tracked' =>
              Linger > 0 /\ now - tracked'[k].finished >= Linger]_evars

\* A finished session the UI shows is followed until its time is up: it does
\* not lose its record, and with it its pane, merely by leaving the roster.
ForgottenWhenDue ==
  [][\A k \in DOMAIN tracked \ DOMAIN tracked' :
       \/ tracked[k].killed
       \/ Linger > 0 /\ tracked[k].state = "done"
          /\ now - tracked[k].finished >= Linger]_evars

Busy == {k \in wanted : k \in pinned \/ (Tracks(k) /\ tracked[k].state # "done")}
Deserving(k) ==
  /\ k \in wanted \cap ids \cap Tailable
  /\ Tracks(k) /\ tracked[k].state # "done"
  /\ Cardinality(Busy \cup (panes \cap pinned)) <= MaxPanes

\* A pane the UI wants of a session at work is opened in the end if those
\* that are at work or pinned leave room for it: finished panes give way, and
\* one that was closed for having finished comes back when it resumes
\* (try_open, the pending panes of scan).
PaneReturns == \A k \in Keys : <>[]Deserving(k) => <>(k \in panes)

Interval(n) == IF n[2] \in Attentions THEN Refire ELSE Cooldown

\* No alert is raised again before its interval is over, unless the session
\* was seen to leave the state in between; none at all is raised by the first
\* scan or while muted (decide_alerts, AlertHistory).
NoStorm ==
  [][alerts' # {} =>
       \A rows \in Decks :
         Scan(rows) =>
           /\ booted /\ ~muted
           /\ \A n \in alerts' \cap DOMAIN heard :
                heard[n].left \/ now - heard[n].at >= Interval(n)]_evars

\* A session that needs attention, as of a scan that could alert, was alerted
\* or found in that state at start within the refire interval: restarting,
\* muting and switching from one state to the other lose nothing.
AttentionIsTold ==
  [][\A rows \in Decks :
       Entered(rows) # {} /\ ids' = Present(rows) /\ ~muted /\ Scan(rows) =>
         \A n \in Entered(rows) :
           n[2] \in Enabled => /\ n \in DOMAIN fired' /\ now - fired'[n] < Refire
                               /\ booted \/ n \notin alerts']_evars
=============================================================================
