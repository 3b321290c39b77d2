-------------------------------- MODULE App --------------------------------
(***************************************************************************)
(* The state of the terminal UI and what keys and engine events do to it   *)
(* (ui/mod.rs App, view.rs apply_context, overlay.rs Palette).  As in the  *)
(* code it is plain data: every transition is an operator from a state to  *)
(* the next one, and what the engine is told follows from the two.         *)
(* Zoom and scroll, which only change what is drawn, are left out.         *)
(*                                                                         *)
(* Sort keys and attention-first are orders of the sessions; a filter or a *)
(* selected bot is the set of the sessions it admits.                      *)
(***************************************************************************)
EXTENDS Naturals, Sequences, SequencesExt, FiniteSetsExt, Functions

CONSTANTS
  None,
  Sessions,
  GridSlots  \* GRID_SLOTS

AppAssumption == None \notin Sessions /\ GridSlots \in Nat \ {0, 1}

NewApp ==
  [roster  |-> <<>>,      \* the sessions in the view's order
   filter  |-> Sessions,  \* those the filter admits
   pins    |-> {},
   cursor  |-> None,      \* selected_id
   mode    |-> "list", page |-> 0,
   flows   |-> FALSE,     \* show_pipeline
   shut    |-> {},        \* closed: dismissed or evicted
   open    |-> <<>>,      \* open_panes
   buffers |-> <<>>]      \* open pane -> how many replays its buffer holds
-----------------------------------------------------------------------------
(* What is visible. *)

\* Those of a sequence that are in S, in its order.
Among(s, S) ==
  LET kept[i \in 0 .. Len(s)] ==
        IF i = 0 THEN <<>>
        ELSE IF s[i] \in S THEN Append(kept[i - 1], s[i]) ELSE kept[i - 1]
  IN  kept[Len(s)]

Visible(app) ==
  LET rows == Among(app.roster, app.filter)
  IN  Among(rows, app.pins) \o Among(rows, Sessions \ app.pins)

Selected(app) == app.cursor \in Range(Visible(app))

\* selected_index, from 1 here; an absent cursor counts as at the start.
At(app) ==
  IF Selected(app) THEN CHOOSE i \in DOMAIN Visible(app) : Visible(app)[i] = app.cursor
  ELSE 1

SelectAt(app, i) ==
  LET rows == Visible(app) IN
  [app EXCEPT !.cursor = IF rows = <<>> THEN None ELSE rows[Min({i, Len(rows)})]]

\* Mutant: a selection the filter hides is left alone.
ResyncOnlyGone(app) ==
  IF app.cursor \in Range(app.roster) THEN app ELSE SelectAt(app, At(app))
Resync(app) == IF Selected(app) THEN app ELSE SelectAt(app, At(app))

GridKeys(app) == Among(Visible(app), Sessions \ app.shut)
PageSize(total) == IF total <= GridSlots THEN Max({total, 1}) ELSE GridSlots - 1
PageCount(app) ==
  LET total == Len(GridKeys(app)) size == PageSize(total) IN
  Max({(total + size - 1) \div size, 1})

Slots(app) ==
  LET keys == GridKeys(app)
      size == PageSize(Len(keys))
      first == Min({app.page, PageCount(app) - 1}) * size
  IN  SubSeq(keys, first + 1, Min({first + size, Len(keys)}))

\* wanted_panes
Wants(app) ==
  IF app.flows \/ app.mode = "list"
  THEN IF Selected(app) THEN <<app.cursor>> ELSE <<>>
  ELSE Slots(app)

\* sync_panes: a pane that closes loses its buffer and its place.
\* Mutants: the buffer is kept; panes are compared by their number.
BuffersKept(app, keys) == app.buffers
Buffers(app, keys) == Restrict(app.buffers, keys \cap DOMAIN app.buffers)
SyncSameLength(app) ==
  IF Len(Wants(app)) = Len(app.open) THEN app
  ELSE LET keys == Range(app.open) \cap Range(Wants(app)) IN
       [app EXCEPT !.open = Wants(app), !.buffers = Buffers(app, keys)]
Sync(app) ==
  LET keys == Range(app.open) \cap Range(Wants(app)) IN
  [app EXCEPT !.open = Wants(app), !.buffers = Buffers(app, keys)]

\* The commands of a step: panes to close, panes to open, the pins.
Loses(app, next) == Among(app.open, Sessions \ Range(next.open))
Gains(app, next) == Among(next.open, Sessions \ Range(app.open))
Commands(app, next) ==
  [i \in DOMAIN Loses(app, next) |-> [type |-> "close", key |-> Loses(app, next)[i]]]
    \o [i \in DOMAIN Gains(app, next) |-> [type |-> "open", key |-> Gains(app, next)[i]]]
PinCommand(app) == <<[type |-> "pinned", keys |-> app.pins \cap Range(app.roster)]>>
-----------------------------------------------------------------------------
(* Keys: handle_key, handle_grid_key. *)

Follow(app) ==
  LET keys == GridKeys(app) IN
  IF app.mode = "grid" /\ Selected(app) /\ app.cursor \in Range(keys)
  THEN LET i == CHOOSE i \in DOMAIN keys : keys[i] = app.cursor IN
       [app EXCEPT !.page = (i - 1) \div PageSize(Len(keys))]
  ELSE app

Down(app) == Follow(SelectAt(app, At(app) + 1))
Up(app) == Follow(SelectAt(app, Max({At(app) - 1, 1})))

ToggleMode(app) ==
  [app EXCEPT !.mode = IF @ = "list" THEN "grid" ELSE "list"]

NextPage(app) ==
  LET count == PageCount(app)
      page  == (Min({app.page, count - 1}) + 1) % count
      keys  == GridKeys(app)
      first == page * PageSize(Len(keys)) + 1
  IN  [app EXCEPT !.page = page,
                  !.cursor = IF first \in DOMAIN keys THEN keys[first] ELSE @]

Dismiss(app) ==
  IF ~Selected(app) THEN app
  ELSE [app EXCEPT !.shut = @ \cup {app.cursor}]
Restore(app) == IF Selected(app) THEN [app EXCEPT !.shut = @ \ {app.cursor}] ELSE app

TogglePin(app) ==
  IF app.cursor \in app.pins THEN [app EXCEPT !.pins = @ \ {app.cursor}]
                             ELSE [app EXCEPT !.pins = @ \cup {app.cursor}]

\* The palette, the bot menu, [a] and [c]: another order, another filter.
Arrange(app, roster, filter) ==
  Resync([app EXCEPT !.roster = roster, !.filter = filter])

\* [v]; [Esc] leaves the pipelines too, but does not look after the cursor.
ToggleFlows(app) ==
  LET next == [app EXCEPT !.flows = ~@] IN IF next.flows THEN next ELSE Resync(next)
LeaveFlows(app) == [app EXCEPT !.flows = FALSE]

\* select_pipeline: the session of a running step, if the roster has it.
OpenStep(app, k) ==
  IF k \in Range(app.roster)
  THEN [app EXCEPT !.filter = Sessions, !.cursor = k, !.mode = "list",
                   !.shut = @ \ {k}]
  ELSE [app EXCEPT !.cursor = None]

GridKey(app) == {NextPage(app), Dismiss(app), Restore(app)}

\* What a key other than [p] leads to.
Pressed(app, filters) ==
  {ToggleMode(app), ToggleFlows(app)}
    \cup {Arrange(app, roster, filter) :
            roster \in {app.roster, Reverse(app.roster)}, filter \in filters}
    \cup (IF app.flows THEN {LeaveFlows(app)} \cup {OpenStep(app, k) : k \in Sessions}
                       ELSE {Down(app), Up(app)})
    \cup (IF app.mode = "grid" THEN GridKey(app) ELSE {})
-----------------------------------------------------------------------------
(* Events: apply_event, apply_lifecycle, buffer_pane. *)

OnRoster(app, roster) ==
  LET i == At(app)
      next == [app EXCEPT !.roster = roster]
  IN  Sync(IF ~next.flows /\ ~Selected(next) THEN SelectAt(next, i) ELSE next)

Forgotten(app, k) ==
  [app EXCEPT !.buffers = Restrict(@, DOMAIN @ \ {k})]
OnEvicted(app, k) == [Forgotten(app, k) EXCEPT !.shut = @ \cup {k}]
OnResumed(app, k) == [Forgotten(app, k) EXCEPT !.shut = @ \ {k}]

Held(app, k) == IF k \in DOMAIN app.buffers THEN app.buffers[k] ELSE 0

\* Lines of a pane that is not open are stale.
OnLines(app, k) ==
  IF k \notin Range(app.open) THEN app
  ELSE [app EXCEPT !.buffers =
          [j \in DOMAIN @ \cup {k} |-> IF j = k THEN Min({Held(app, k) + 1, 2}) ELSE @[j]]]
=============================================================================
