------------------------------ MODULE Notices ------------------------------
(***************************************************************************)
(* What a run owes its tracker (control.rs apply, reopen, request_stop,    *)
(* flush_notices; host.rs tick_run, advance, publish_outcome; flow_ui.rs   *)
(* HostThread): the started comment, a notice of every decision the owner  *)
(* takes in Hermon, the outcome.                                           *)
(*                                                                         *)
(* A control or a tick holds run.lock from its first step to its last and  *)
(* works on a copy of run.json.  Any exchange with the tracker may fail    *)
(* before or after it has taken effect and the program may die between any *)
(* two steps; comments are posted under a key, once (Correspondence).      *)
(***************************************************************************)
EXTENDS Naturals, SequencesExt, TLAPS

CONSTANTS
  Hosts,                  \* programs that may host the hub of the data directory
  MaxEvents, MaxNotices   \* bounds

NoticesAssumption == "nobody" \notin Hosts /\ "owner" \notin Hosts

VARIABLES
  hub,    \* the program that holds hub.lock, "nobody" when there is none
  kept,   \* run.json
  turn,   \* who holds run.lock, the step it has come to, its copy
  issue   \* the comments, in the order they were posted

nvars == <<hub, kept, turn, issue>>

Statuses == {"ready", "running", "gate", "question", "blocked", "done"}
NoticeLists == Seq([sequence : Nat, delivered : BOOLEAN])
RunRecords ==
  [status : Statuses, active : BOOLEAN, cancelled : BOOLEAN, paused : BOOLEAN,
   started : BOOLEAN, attempts : Nat, error : BOOLEAN, events : Nat,
   notices : NoticeLists]

\* Comments, by their keys: started, cli:<sequence>, outcome (with what its body
\* depends on).
Started == <<"started", 0>>
Cli(notice) == <<"cli", notice.sequence>>
OutcomeOf(r) == <<"outcome", r.attempts>>

\* create leaves a run whose started comment may not have been posted.
NInit ==
  /\ hub = "nobody"
  /\ kept \in [status : {"ready"}, active : {FALSE}, cancelled : {FALSE},
               paused : {FALSE}, started : BOOLEAN, attempts : {0}, error : {FALSE},
               events : {0}, notices : {<<>>}]
  /\ turn = [who |-> "nobody"]
  /\ issue = IF kept.started THEN <<Started>> ELSE <<>>

Free == turn.who = "nobody" /\ kept.events < MaxEvents
Over == turn' = [who |-> "nobody"]
Goes(step, r) == turn' = [turn EXCEPT !.at = step, !.record = r]

\* An event of the run; `error` says that the last one is a host_error.
Event(r) == [r EXCEPT !.events = @ + 1, !.error = FALSE]
Troubled(r) == IF r.error THEN r ELSE [Event(r) EXCEPT !.error = TRUE]
Recovered(r) == IF r.error THEN Event(r) ELSE r

\* A notice bears the number of events the run then has.
Noticed(r) ==
  [r EXCEPT !.notices = Append(@, [sequence |-> r.events, delivered |-> FALSE])]
Due(r) == {n \in DOMAIN r.notices : ~r.notices[n].delivered}
-----------------------------------------------------------------------------
(* The owner's controls. *)

\* The decision is saved before anybody is told of it.
Controls(r) ==
  /\ Free /\ Len(r.notices) <= MaxNotices
  /\ kept' = r
  /\ turn' = [who |-> "owner", record |-> r,
              at |-> IF r.cancelled /\ r.active THEN "stop"
                     ELSE IF ~r.started /\ ~r.cancelled THEN "announce" ELSE "flush"]
  /\ UNCHANGED <<hub, issue>>

May == ~kept.cancelled /\ kept.status # "done"

Approve ==
  /\ May /\ kept.status = "gate"
  /\ \E status \in {"ready", "done"} :
       Controls([Noticed(Event(kept)) EXCEPT !.status = status])

Answer ==
  /\ May /\ kept.status = "question"
  /\ Controls([Noticed(Event(kept)) EXCEPT !.status = "ready"])

\* A retry, or an override, of a blocked step is not told.
Retry ==
  /\ May /\ kept.status \in {"blocked", "question"} /\ ~kept.active
  /\ \E status \in {"ready", "done"} :
       Controls([Event(kept) EXCEPT !.status = status])

Pause == May /\ Controls([Event(kept) EXCEPT !.paused = ~@])

Cancel ==
  /\ May /\ Controls([Event(kept) EXCEPT !.cancelled = TRUE, !.status = "blocked"])

Reopen ==
  /\ kept.cancelled /\ ~kept.active
  /\ Controls([Noticed(Event(kept)) EXCEPT !.cancelled = FALSE])

Decisions == Approve \/ Answer \/ Retry \/ Pause \/ Cancel \/ Reopen
-----------------------------------------------------------------------------
(* Hosts, and the steps of a control and of a tick. *)

\* The first to come hosts the hub, and others do without.
Takes(host) ==
  /\ hub = "nobody" /\ hub' = host
  /\ UNCHANGED <<kept, turn, issue>>

\* A host quits, or is killed: its thread is not waited for, and both locks are
\* released with the program.
Leaves ==
  /\ hub # "nobody" /\ hub' = "nobody"
  /\ IF turn.who = hub THEN Over ELSE UNCHANGED turn
  /\ UNCHANGED <<kept, issue>>

\* A tick of a cancelled run stops its worker, and of a paused one does nothing.
Tick ==
  /\ Free /\ hub # "nobody" /\ UNCHANGED <<hub, issue>>
  /\ IF (kept.cancelled /\ ~kept.active) \/ (~kept.cancelled /\ kept.paused)
     THEN kept' = Recovered(kept) /\ UNCHANGED turn
     ELSE /\ turn' = [who |-> hub, record |-> kept,
                      at |-> IF kept.cancelled THEN "stop"
                             ELSE IF ~kept.started THEN "announce" ELSE "flush"]
          /\ UNCHANGED kept

At(step) == turn.who # "nobody" /\ turn.at = step

\* The worker may be found stopped, or not yet.
Stop ==
  /\ At("stop") /\ UNCHANGED <<hub, issue>>
  /\ \E confirmed \in BOOLEAN :
       LET r == [turn.record EXCEPT !.active = @ /\ ~confirmed] IN
       IF turn.who = "owner" THEN kept' = r /\ Goes("flush", r)
       ELSE kept' = Recovered(r) /\ Over

Posted(comment) == IF comment \in ToSet(issue) THEN issue ELSE Append(issue, comment)

Announce ==
  LET r == [turn.record EXCEPT !.started = TRUE] IN
  /\ At("announce") /\ issue' = Posted(Started)
  /\ kept' = r /\ Goes("flush", r) /\ UNCHANGED hub

\* Notices are posted in their order, up to the first that fails.
NextDue(r) == {n \in Due(r) : \A m \in Due(r) : n <= m}

Flush ==
  /\ At("flush") /\ UNCHANGED hub
  /\ \E n \in NextDue(turn.record) :
       LET r == [turn.record EXCEPT !.notices[n].delivered = TRUE] IN
       issue' = Posted(Cli(r.notices[n])) /\ kept' = r /\ Goes("flush", r)

\* All is told.  The host goes on with the run, or with its outcome.
Flushed ==
  /\ At("flush") /\ Due(turn.record) = {}
  /\ IF turn.who = "owner" THEN Over
     ELSE Goes(IF turn.record.status = "done" THEN "outcome" ELSE "advance", turn.record)
  /\ UNCHANGED <<hub, kept, issue>>

\* hub::advance: a worker is started, or its result is taken, or the owner has
\* replied in the tracker.
Advanced(r) ==
  CASE r.status = "ready" ->
         {[Event(r) EXCEPT !.status = "running", !.active = TRUE, !.attempts = @ + 1]}
    [] r.status = "running" ->
         {r} \cup {[Event(r) EXCEPT !.status = s, !.active = FALSE] :
                     s \in Statuses \ {"running"}}
    [] r.status \in {"gate", "question"} ->
         {r} \cup {[Event(r) EXCEPT !.status = s] : s \in {"ready", "done"}}
    [] OTHER -> {r}

\* A tick goes on as far as it can; a run that is done tells so before it is
\* saved.
Advance ==
  /\ At("advance") /\ UNCHANGED <<hub, issue>>
  /\ \E r \in Advanced(turn.record) :
       \/ /\ UNCHANGED kept /\ r # turn.record /\ r.events < MaxEvents
          /\ Goes(IF r.status = "done" THEN "outcome" ELSE "advance", r)
       \/ r.status # "done" /\ kept' = Recovered(r) /\ Over

\* The outcome quotes the last result; the key is bound to its first body.
Bound(r) == \A c \in ToSet(issue) : c[1] = "outcome" => c = OutcomeOf(r)
Outcome ==
  LET r == turn.record IN
  /\ At("outcome") /\ Bound(r)
  /\ issue' = Posted(OutcomeOf(r))
  /\ kept' = Recovered(r) /\ Over /\ UNCHANGED hub

\* A step fails, whether or not its comment was posted.  A control returns the
\* error; the host saves what it has, and an event.
Fail ==
  /\ turn.who # "nobody" /\ Over /\ UNCHANGED hub
  /\ kept' = IF turn.who \in Hosts THEN Troubled(turn.record) ELSE kept
  /\ issue' \in {issue} \cup
       (CASE turn.at = "announce" -> {Posted(Started)}
          [] turn.at = "flush" ->
               {Posted(Cli(turn.record.notices[n])) : n \in NextDue(turn.record)}
          [] turn.at = "outcome" /\ Bound(turn.record) ->
               {Posted(OutcomeOf(turn.record))}
          [] OTHER -> {})

\* A control's program dies; nothing more is saved.
Dies == turn.who = "owner" /\ Over /\ UNCHANGED <<hub, kept, issue>>

NNext ==
  \/ (\E host \in Hosts : Takes(host)) \/ Leaves
  \/ Decisions \/ Tick
  \/ Stop \/ Announce \/ Flush \/ Flushed \/ Advance \/ Outcome
  \/ Fail \/ Dies
NSpec == NInit /\ [][NNext]_nvars
-----------------------------------------------------------------------------
Told ==
  /\ Started \in ToSet(issue)
  /\ \A n \in DOMAIN kept.notices : Cli(kept.notices[n]) \in ToSet(issue)

\* Only the program that holds hub.lock works on a run for the hub: a host that
\* quits in a tick does not go on beside the one that follows (HostThread).
HostsTakeTurns == turn.who \in Hosts => turn.who = hub

\* Every comment on a decision is a notice's, none is posted twice, and no notice
\* is posted before those that precede it.
InOrder(notices, comments) ==
  /\ \A c \in ToSet(comments) :
       c[1] = "cli" => \E n \in DOMAIN notices : c = Cli(notices[n])
  /\ \A i, j \in DOMAIN comments : comments[i] = comments[j] => i = j
  /\ \A n \in DOMAIN notices, i \in DOMAIN comments :
       comments[i] = Cli(notices[n]) =>
         \A m \in 1 .. n - 1 : \E h \in 1 .. i - 1 : comments[h] = Cli(notices[m])

\* Whatever fails or dies on the way, the tracker has one comment of each
\* decision and reads them in the order they were taken (flush_notices).
NoticesInOrder == InOrder(kept.notices, issue)

\* No worker is started on a decision of the owner, and no outcome is told,
\* before the tracker has been told of that decision (advance).
ActsWhenTold ==
  [][(kept'.attempts > kept.attempts
        \/ \E c \in ToSet(issue') \ ToSet(issue) : c[1] = "outcome")
     => Told]_nvars
-----------------------------------------------------------------------------
(* The tracker is told first, whatever the bounds and the hosts: what a    *)
(* record says was posted was posted, and a tick that has come to the run  *)
(* has nothing left to tell.                                               *)

Comments == {"started", "cli", "outcome"} \X Nat
Turns ==
  [who : {"nobody"}]
    \cup [who : Hosts \cup {"owner"}, record : RunRecords,
          at : {"stop", "announce", "flush", "advance", "outcome"}]
NTypeOK ==
  /\ hub \in Hosts \cup {"nobody"}
  /\ kept \in RunRecords /\ issue \in Seq(Comments) /\ turn \in Turns

\* What the record says was told.
Said(r, comments) ==
  /\ r.started => Started \in ToSet(comments)
  /\ \A n \in DOMAIN r.notices : r.notices[n].delivered => Cli(r.notices[n]) \in ToSet(comments)

Moving == turn.at \in {"advance", "outcome"}
TInv ==
  /\ NTypeOK /\ Said(kept, issue)
  /\ turn.who # "nobody" =>
       /\ turn.record.notices = kept.notices /\ turn.record.started = kept.started
       /\ ~Moving => turn.record.attempts = kept.attempts
       /\ Moving => turn.who # "owner" /\ kept.started /\ Due(kept) = {}
       /\ turn.at = "flush" /\ turn.who # "owner" => kept.started

LEMMA EventKeeps ==
  ASSUME NEW r \in RunRecords
  PROVE  \A q \in {Event(r), Troubled(r), Recovered(r)} :
           /\ q \in RunRecords
           /\ q.notices = r.notices /\ q.started = r.started /\ q.attempts = r.attempts
<1> DEFINE Fine(q) == /\ q \in RunRecords /\ q.notices = r.notices
                      /\ q.started = r.started /\ q.attempts = r.attempts
<1>1. Fine(Event(r)) /\ Fine(r)
  <2>1. [r EXCEPT !.events = @ + 1] \in RunRecords
    BY DEF RunRecords
  <2>2. \A x \in RunRecords : [x EXCEPT !.error = FALSE] \in RunRecords
    BY DEF RunRecords
  <2>3. Event(r) = [[r EXCEPT !.events = @ + 1] EXCEPT !.error = FALSE]
    BY DEF Event
  <2>4. Event(r) \in RunRecords
    BY <2>1, <2>2, <2>3
  <2>5. QED
    BY <2>4 DEF RunRecords, Event
<1>2. Fine([Event(r) EXCEPT !.error = TRUE])
  BY <1>1 DEF RunRecords
<1>3. QED
  BY <1>1, <1>2 DEF Troubled, Recovered

LEMMA PostedAdds ==
  ASSUME issue \in Seq(Comments), NEW c \in Comments
  PROVE  Posted(c) \in Seq(Comments) /\ ToSet(Posted(c)) = ToSet(issue) \cup {c}
<1>1. CASE c \in ToSet(issue)
  BY <1>1 DEF Posted
<1>2. CASE c \notin ToSet(issue)
  <2>1. Posted(c) = Append(issue, c)
    BY <1>2 DEF Posted
  <2>2. \A d : d \in ToSet(Append(issue, c)) <=> d \in ToSet(issue) \/ d = c
    <3> DEFINE more == Append(issue, c)
    <3>1. more \in Seq(Comments) /\ Len(more) = Len(issue) + 1 /\ more[Len(more)] = c
          /\ DOMAIN more = 1 .. Len(more) /\ DOMAIN issue = 1 .. Len(issue)
          /\ Len(issue) \in Nat
      OBVIOUS
    <3>2. \A n \in 1 .. Len(issue) : more[n] = issue[n]
      OBVIOUS
    <3> HIDE DEF more
    <3>3. \A d : (\E n \in DOMAIN more : more[n] = d)
                <=> (\E n \in DOMAIN issue : issue[n] = d) \/ d = c
      BY <3>1, <3>2
    <3>4. QED
      BY <3>3 DEF ToSet, more
  <2>3. QED
    BY <2>1, <2>2
<1>3. QED
  BY <1>1, <1>2

LEMMA AdvancedKeeps ==
  ASSUME NEW r \in RunRecords, NEW q \in Advanced(r)
  PROVE  q \in RunRecords /\ q.notices = r.notices /\ q.started = r.started
<1> DEFINE e == Event(r)
<1>1. e \in RunRecords /\ e.notices = r.notices /\ e.started = r.started
  BY EventKeeps
<1> HIDE DEF e
<1>2. \/ q = r
      \/ q = [e EXCEPT !.status = "running", !.active = TRUE, !.attempts = @ + 1]
      \/ \E s \in Statuses : q = [e EXCEPT !.status = s, !.active = FALSE]
      \/ \E s \in Statuses : q = [e EXCEPT !.status = s]
  <2>1. CASE r.status \in {"ready", "running"}
    BY <2>1 DEF Advanced, e
  <2>2. CASE r.status \in {"gate", "question"}
    BY <2>2 DEF Advanced, e, Statuses
  <2>3. CASE r.status \notin {"ready", "running", "gate", "question"}
    BY <2>3 DEF Advanced
  <2>4. QED
    BY <2>1, <2>2, <2>3
<1>3. CASE q = r
  BY <1>1, <1>3
<1>4. CASE q = [e EXCEPT !.status = "running", !.active = TRUE, !.attempts = @ + 1]
  <2>1. "running" \in Statuses
    BY DEF Statuses
  <2>2. \A x \in RunRecords : [x EXCEPT !.status = "running"] \in RunRecords
    BY <2>1 DEF RunRecords
  <2>3. \A x \in RunRecords : [x EXCEPT !.active = TRUE] \in RunRecords
    BY DEF RunRecords
  <2>4. \A x \in RunRecords : [x EXCEPT !.attempts = @ + 1] \in RunRecords
    <3>1. \A x \in RunRecords : x.attempts + 1 \in Nat
      BY DEF RunRecords
    <3>2. \A x \in RunRecords : \A k \in Nat : [x EXCEPT !.attempts = k] \in RunRecords
      BY DEF RunRecords
    <3>3. QED
      BY <3>1, <3>2
  <2>5. q = [[[e EXCEPT !.status = "running"] EXCEPT !.active = TRUE]
               EXCEPT !.attempts = @ + 1]
    BY <1>4
  <2>6. q \in RunRecords
    BY <1>1, <2>2, <2>3, <2>4, <2>5
  <2>7. QED
    BY <1>1, <1>4, <2>6 DEF RunRecords
<1>5. ASSUME NEW s \in Statuses, q = [e EXCEPT !.status = s, !.active = FALSE]
      PROVE  q \in RunRecords /\ q.notices = r.notices /\ q.started = r.started
  BY <1>1, <1>5 DEF RunRecords
<1>6. ASSUME NEW s \in Statuses, q = [e EXCEPT !.status = s]
      PROVE  q \in RunRecords /\ q.notices = r.notices /\ q.started = r.started
  BY <1>1, <1>6 DEF RunRecords
<1>7. QED
  BY <1>2, <1>3, <1>4, <1>5, <1>6

LEMMA InitTold == NInit => TInv
<1> SUFFICES ASSUME NInit PROVE TInv
  OBVIOUS
<1>1. kept \in RunRecords /\ kept.notices = <<>> /\ turn = [who |-> "nobody"]
  <2>1. kept.notices = <<>> /\ turn = [who |-> "nobody"]
    BY DEF NInit
  <2>2. <<>> \in NoticeLists
    BY DEF NoticeLists
  <2>3. {"ready"} \subseteq Statuses
    BY DEF Statuses
  <2>4. /\ kept.status \in Statuses /\ kept.notices \in NoticeLists
        /\ kept.started \in BOOLEAN
        /\ kept.active \in BOOLEAN /\ kept.cancelled \in BOOLEAN
        /\ kept.paused \in BOOLEAN /\ kept.error \in BOOLEAN
    BY <2>1, <2>2, <2>3 DEF NInit
  <2>5. kept.attempts \in Nat /\ kept.events \in Nat
    BY DEF NInit
  <2>6. kept = [status |-> kept.status, active |-> kept.active,
                cancelled |-> kept.cancelled, paused |-> kept.paused,
                started |-> kept.started, attempts |-> kept.attempts,
                error |-> kept.error, events |-> kept.events,
                notices |-> kept.notices]
    BY DEF NInit
  <2>7. kept \in RunRecords
    BY <2>4, <2>5, <2>6 DEF RunRecords
  <2>8. QED
    BY <2>1, <2>7
<1>2. issue \in Seq(Comments) /\ (kept.started => Started \in ToSet(issue))
  BY DEF NInit, Comments, Started, ToSet
<1>3. QED
  BY <1>1, <1>2 DEF NInit, TInv, NTypeOK, Turns, Said, Due

LEMMA NoticedKeeps ==
  ASSUME NEW r \in RunRecords, NEW comments, Said(r, comments)
  PROVE  /\ Noticed(r) \in RunRecords /\ Said(Noticed(r), comments)
         /\ Noticed(r).started = r.started /\ Noticed(r).attempts = r.attempts
<1> DEFINE new == [sequence |-> r.events, delivered |-> FALSE]
           Notice == [sequence : Nat, delivered : BOOLEAN]
<1>1. r.notices \in Seq(Notice) /\ new \in Notice
  BY DEF RunRecords, NoticeLists
<1> HIDE DEF new
<1>2. Noticed(r) = [r EXCEPT !.notices = Append(r.notices, new)]
  BY DEF Noticed, new
<1>3. Append(r.notices, new) \in Seq(Notice)
  BY <1>1
<1>4. \A n \in DOMAIN Append(r.notices, new) :
        \/ n \in DOMAIN r.notices /\ Append(r.notices, new)[n] = r.notices[n]
        \/ Append(r.notices, new)[n] = new
  BY <1>1
<1>5. Noticed(r) \in RunRecords /\ Noticed(r).notices = Append(r.notices, new)
      /\ Noticed(r).started = r.started /\ Noticed(r).attempts = r.attempts
  BY <1>2, <1>3 DEF RunRecords, NoticeLists
<1>6. ~new.delivered
  BY DEF new
<1>7. QED
  BY <1>4, <1>5, <1>6 DEF Said

\* A control tells nobody before it has saved.
LEMMA ControlsKeep ==
  ASSUME TInv, NEW r \in RunRecords, Said(r, issue), Controls(r)
  PROVE  TInv' /\ kept' = r /\ issue' = issue
<1>1. kept' = r /\ issue' = issue /\ hub' = hub
  BY DEF Controls
<1>2. /\ turn' \in Turns /\ turn'.who = "owner" /\ turn'.record = r
      /\ turn'.at \in {"stop", "announce", "flush"}
  BY DEF Controls, Turns
<1>3. QED
  BY <1>1, <1>2 DEF TInv, NTypeOK, Said, Moving, Due

LEMMA DecisionsKeep ==
  ASSUME TInv, Decisions
  PROVE  TInv' /\ kept'.attempts = kept.attempts /\ issue' = issue
<1> DEFINE e == Event(kept)  n == Noticed(e)
<1>1. /\ e \in RunRecords /\ Said(e, issue) /\ e.attempts = kept.attempts
  BY EventKeeps DEF TInv, NTypeOK, Said
<1>2. n \in RunRecords /\ Said(n, issue) /\ n.attempts = kept.attempts
  BY <1>1, NoticedKeeps
<1> HIDE DEF e, n
<1> DEFINE Fine(r) ==
      r \in RunRecords /\ Said(r, issue) /\ r.attempts = kept.attempts /\ Controls(r)
<1>3. \A status \in Statuses :
        /\ Controls([n EXCEPT !.status = status]) => Fine([n EXCEPT !.status = status])
        /\ Controls([e EXCEPT !.status = status]) => Fine([e EXCEPT !.status = status])
  BY <1>1, <1>2 DEF RunRecords, Said
<1>4. Controls([e EXCEPT !.paused = ~@]) => Fine([e EXCEPT !.paused = ~@])
  BY <1>1 DEF RunRecords, Said
<1>5. Controls([e EXCEPT !.cancelled = TRUE, !.status = "blocked"]) =>
        Fine([e EXCEPT !.cancelled = TRUE, !.status = "blocked"])
  BY <1>1 DEF RunRecords, Said, Statuses
<1>6. Controls([n EXCEPT !.cancelled = FALSE]) => Fine([n EXCEPT !.cancelled = FALSE])
  BY <1>2 DEF RunRecords, Said
<1>7. \E r : Fine(r)
  <2>1. CASE Approve
    BY <2>1, <1>3 DEF Approve, n, e, Statuses
  <2>2. CASE Answer
    BY <2>2, <1>3 DEF Answer, n, e, Statuses
  <2>3. CASE Retry
    BY <2>3, <1>3 DEF Retry, e, Statuses
  <2>4. CASE Pause
    BY <2>4, <1>4 DEF Pause, e
  <2>5. CASE Cancel
    BY <2>5, <1>5 DEF Cancel, e
  <2>6. CASE Reopen
    BY <2>6, <1>6 DEF Reopen, n, e
  <2>7. QED
    BY <2>1, <2>2, <2>3, <2>4, <2>5, <2>6 DEF Decisions
<1>8. PICK r : Fine(r)
  BY <1>7
<1>9. QED
  BY <1>8, ControlsKeep

\* A step of the holder that leaves it a record told no less of.
LEMMA GoesKeeps ==
  ASSUME TInv, NEW r \in RunRecords, NEW step, turn.who # "nobody",
         Goes(step, r), kept' = r, hub' = hub,
         issue' \in Seq(Comments), Said(r, issue'),
         step = "flush", r.started \/ turn.who = "owner"
  PROVE  TInv'
<1>1. turn \in [who : Hosts \cup {"owner"}, record : RunRecords,
               at : {"stop", "announce", "flush", "advance", "outcome"}]
  BY DEF TInv, NTypeOK, Turns
<1>2. turn' \in Turns /\ turn'.who = turn.who /\ turn'.at = "flush" /\ turn'.record = r
  BY <1>1 DEF Goes, Turns
<1>3. QED
  BY <1>2 DEF TInv, NTypeOK, Moving

\* A step that ends the turn, and leaves the tracker with more rather than less.
LEMMA OverKeeps ==
  ASSUME TInv, Over, kept' \in RunRecords, hub' \in Hosts \cup {"nobody"},
         issue' \in Seq(Comments), Said(kept', issue')
  PROVE  TInv'
<1>1. turn' \in Turns /\ turn'.who = "nobody"
  BY DEF Over, Turns
<1>2. QED
  BY <1>1 DEF TInv, NTypeOK

LEMMA Recovers ==
  ASSUME NEW r \in RunRecords, NEW comments, Said(r, comments)
  PROVE  \A q \in {r, Troubled(r), Recovered(r)} :
           q \in RunRecords /\ Said(q, comments) /\ q.attempts = r.attempts
  BY EventKeeps DEF Said

\* What a holder's copy says.
LEMMA HolderSays ==
  ASSUME TInv, turn.who # "nobody"
  PROVE  turn.record \in RunRecords /\ Said(turn.record, issue)
  BY DEF TInv, NTypeOK, Turns, Said

LEMMA TickKeeps ==
  ASSUME TInv, Tick
  PROVE  TInv' /\ kept'.attempts = kept.attempts /\ issue' = issue
<1>1. Said(Recovered(kept), issue) /\ Recovered(kept) \in RunRecords
      /\ Recovered(kept).attempts = kept.attempts
  BY Recovers DEF TInv, NTypeOK
<1>2. turn.who = "nobody" /\ hub \in Hosts /\ hub' = hub /\ issue' = issue
  BY DEF Tick, Free, TInv, NTypeOK
<1>3. CASE kept' = Recovered(kept) /\ UNCHANGED turn
  BY <1>1, <1>2, <1>3 DEF TInv, NTypeOK
<1>4. CASE /\ kept' = kept
           /\ turn' = [who |-> hub, record |-> kept,
                       at |-> IF kept.cancelled THEN "stop"
                              ELSE IF ~kept.started THEN "announce" ELSE "flush"]
  <2>1. /\ turn' \in Turns /\ turn'.record = kept
        /\ turn'.at \in {"stop", "announce", "flush"}
        /\ turn'.at = "flush" => kept.started
    BY <1>2, <1>4 DEF Turns, TInv, NTypeOK
  <2>2. QED
    BY <1>2, <1>4, <2>1 DEF TInv, NTypeOK, Moving
<1>5. QED
  BY <1>3, <1>4 DEF Tick

LEMMA StopKeeps ==
  ASSUME TInv, Stop
  PROVE  TInv' /\ kept'.attempts = kept.attempts /\ issue' = issue
<1>1. PICK confirmed \in BOOLEAN :
        LET r == [turn.record EXCEPT !.active = @ /\ ~confirmed] IN
        IF turn.who = "owner" THEN kept' = r /\ Goes("flush", r)
        ELSE kept' = Recovered(r) /\ Over
  BY DEF Stop
<1> DEFINE r == [turn.record EXCEPT !.active = @ /\ ~confirmed]
<1>2. r \in RunRecords /\ Said(r, issue) /\ r.attempts = kept.attempts
  BY HolderSays DEF Stop, At, TInv, Moving, RunRecords, Said
<1>3. turn.who # "nobody" /\ hub' = hub /\ issue' = issue /\ issue \in Seq(Comments)
  BY DEF Stop, At, TInv, NTypeOK
<1> HIDE DEF r
<1>4. CASE turn.who = "owner" /\ kept' = r /\ Goes("flush", r)
  BY <1>2, <1>3, <1>4, GoesKeeps
<1>5. CASE kept' = Recovered(r) /\ Over
  BY <1>2, <1>3, <1>5, Recovers, OverKeeps DEF TInv, NTypeOK
<1>6. QED
  BY <1>1, <1>4, <1>5 DEF r

LEMMA AnnounceKeeps ==
  ASSUME TInv, Announce
  PROVE  TInv' /\ kept'.attempts = kept.attempts
         /\ ToSet(issue') = ToSet(issue) \cup {Started}
<1> DEFINE r == [turn.record EXCEPT !.started = TRUE]
<1>1. /\ kept' = r /\ Goes("flush", r) /\ hub' = hub /\ turn.who # "nobody"
      /\ issue' = Posted(Started) /\ turn.at = "announce"
  BY DEF Announce, At
<1>2. issue' \in Seq(Comments) /\ ToSet(issue') = ToSet(issue) \cup {Started}
  BY <1>1, PostedAdds DEF TInv, NTypeOK, Comments, Started
<1>3. r \in RunRecords /\ r.started /\ Said(r, issue') /\ r.attempts = kept.attempts
  BY <1>1, <1>2, HolderSays DEF TInv, Moving, RunRecords, Said
<1> HIDE DEF r
<1>4. QED
  BY <1>1, <1>2, <1>3, GoesKeeps

LEMMA NoticeTyped ==
  ASSUME NEW r \in RunRecords
  PROVE  /\ r.notices \in Seq([sequence : Nat, delivered : BOOLEAN])
         /\ \A n \in DOMAIN r.notices :
              r.notices[n] \in [sequence : Nat, delivered : BOOLEAN]
<1> DEFINE Notice == [sequence : Nat, delivered : BOOLEAN]
           notices == r.notices
<1>1. notices \in Seq(Notice)
  BY DEF RunRecords, NoticeLists
<1> HIDE DEF Notice, notices
<1>2. \A n \in DOMAIN notices : notices[n] \in Notice
  BY <1>1
<1>3. QED
  BY <1>1, <1>2 DEF Notice, notices

LEMMA CliTyped ==
  ASSUME NEW r \in RunRecords, NEW n \in DOMAIN r.notices
  PROVE  Cli(r.notices[n]) \in Comments /\ Cli(r.notices[n])[1] = "cli"
<1>1. r.notices[n] \in [sequence : Nat, delivered : BOOLEAN]
  BY NoticeTyped
<1>2. QED
  BY <1>1 DEF Cli, Comments

\* A notice that is marked delivered.
LEMMA DeliveredKeeps ==
  ASSUME NEW r \in RunRecords, NEW n \in DOMAIN r.notices, NEW comments,
         Said(r, comments)
  PROVE  LET told == [r EXCEPT !.notices[n].delivered = TRUE] IN
         /\ told \in RunRecords /\ told.started = r.started /\ told.attempts = r.attempts
         /\ \A more : comments \in Seq(Comments) /\ more \in Seq(Comments)
                /\ ToSet(more) = ToSet(comments) \cup {Cli(r.notices[n])}
                => Said(told, more)
         /\ Cli(told.notices[n]) = Cli(r.notices[n])
<1> DEFINE Notice == [sequence : Nat, delivered : BOOLEAN]
           notices == [r.notices EXCEPT ![n].delivered = TRUE]
           told == [r EXCEPT !.notices[n].delivered = TRUE]
<1>1. r.notices \in Seq(Notice) /\ r.notices[n] \in Notice
  BY NoticeTyped
<1>2. [r.notices[n] EXCEPT !.delivered = TRUE] \in Notice
      /\ [r.notices[n] EXCEPT !.delivered = TRUE].sequence = r.notices[n].sequence
  BY <1>1
<1>3. /\ notices \in Seq(Notice) /\ DOMAIN notices = DOMAIN r.notices
      /\ \A m \in DOMAIN r.notices \ {n} : notices[m] = r.notices[m]
      /\ notices[n].sequence = r.notices[n].sequence
  BY <1>1, <1>2
<1>4. told = [r EXCEPT !.notices = notices]
  BY DEF RunRecords
<1> HIDE DEF notices
<1>5. /\ told \in RunRecords /\ told.started = r.started /\ told.attempts = r.attempts
      /\ told.notices = notices
  BY <1>3, <1>4 DEF RunRecords, NoticeLists
<1> HIDE DEF told
<1>6. \A more : ToSet(more) = ToSet(comments) \cup {Cli(r.notices[n])} => Said(told, more)
  BY <1>3, <1>5 DEF Said, Cli
<1>7. QED
  BY <1>3, <1>5, <1>6 DEF told, Cli

LEMMA FlushKeeps ==
  ASSUME TInv, Flush
  PROVE  /\ TInv' /\ kept'.attempts = kept.attempts
         /\ \A c \in ToSet(issue') \ ToSet(issue) : c[1] = "cli"
<1>1. turn.who # "nobody" /\ turn.at = "flush" /\ hub' = hub
  BY DEF Flush, At
<1>2. turn.record \in RunRecords /\ Said(turn.record, issue) /\ issue \in Seq(Comments)
  BY <1>1, HolderSays DEF TInv, NTypeOK
<1>3. PICK n \in NextDue(turn.record) :
        LET r == [turn.record EXCEPT !.notices[n].delivered = TRUE] IN
        issue' = Posted(Cli(r.notices[n])) /\ kept' = r /\ Goes("flush", r)
  BY DEF Flush
<1> DEFINE r == [turn.record EXCEPT !.notices[n].delivered = TRUE]
<1>4. n \in DOMAIN turn.record.notices
  BY DEF NextDue, Due
<1>5. /\ r \in RunRecords /\ r.started = turn.record.started
      /\ r.attempts = turn.record.attempts
      /\ Cli(r.notices[n]) = Cli(turn.record.notices[n])
      /\ \A more : /\ more \in Seq(Comments)
                   /\ ToSet(more) = ToSet(issue) \cup {Cli(turn.record.notices[n])}
                   => Said(r, more)
  BY <1>2, <1>4, DeliveredKeeps
<1> HIDE DEF r
<1>6. kept' = r /\ Goes("flush", r) /\ issue' = Posted(Cli(r.notices[n]))
  BY <1>3 DEF r
<1>7. /\ issue' \in Seq(Comments) /\ Cli(r.notices[n])[1] = "cli"
      /\ ToSet(issue') = ToSet(issue) \cup {Cli(r.notices[n])}
  BY <1>2, <1>4, <1>5, <1>6, CliTyped, PostedAdds
<1>8. Said(r, issue')
  BY <1>5, <1>7
<1>9. r.attempts = kept.attempts /\ (r.started \/ turn.who = "owner")
  BY <1>1, <1>5 DEF TInv, Moving
<1>10. QED
  BY <1>1, <1>5, <1>6, <1>7, <1>8, <1>9, GoesKeeps

LEMMA FlushedKeeps ==
  ASSUME TInv, Flushed
  PROVE  TInv' /\ kept' = kept /\ issue' = issue
<1>1. /\ turn.who # "nobody" /\ turn.at = "flush" /\ Due(turn.record) = {}
      /\ hub' = hub /\ kept' = kept /\ issue' = issue
  BY DEF Flushed, At
<1>2. CASE Over
  BY <1>1, <1>2, OverKeeps DEF TInv, NTypeOK
<1>3. ASSUME NEW step \in {"outcome", "advance"}, Goes(step, turn.record),
             turn.who # "owner"
      PROVE  TInv'
  <2>1. turn \in [who : Hosts \cup {"owner"}, record : RunRecords,
                 at : {"stop", "announce", "flush", "advance", "outcome"}]
    BY <1>1 DEF TInv, NTypeOK, Turns
  <2>2. turn' \in Turns /\ turn'.who = turn.who /\ turn'.at = step
        /\ turn'.record = turn.record
    BY <1>3, <2>1 DEF Goes, Turns
  <2>3. Due(kept) = {} /\ kept.started
    BY <1>1, <1>3 DEF TInv, Due
  <2>4. QED
    BY <1>1, <1>3, <2>2, <2>3 DEF TInv, NTypeOK, Moving, Said, Due
<1>4. QED
  BY <1>1, <1>2, <1>3 DEF Flushed

\* A tick that has come to the run has told all.
LEMMA MovingTold ==
  ASSUME TInv, turn.who # "nobody", Moving
  PROVE  Told
<1>1. kept.started /\ Due(kept) = {} /\ Said(kept, issue)
  BY DEF TInv
<1>2. QED
  BY <1>1 DEF Told, Said, Due

LEMMA AdvanceKeeps ==
  ASSUME TInv, Advance
  PROVE  TInv' /\ issue' = issue
<1>1. turn.who # "nobody" /\ turn.at = "advance" /\ hub' = hub /\ issue' = issue
  BY DEF Advance, At
<1>2. PICK r \in Advanced(turn.record) :
        \/ /\ UNCHANGED kept
           /\ Goes(IF r.status = "done" THEN "outcome" ELSE "advance", r)
        \/ kept' = Recovered(r) /\ Over
  BY DEF Advance
<1>3. /\ r \in RunRecords /\ r.notices = turn.record.notices
      /\ r.started = turn.record.started /\ Said(r, issue)
  BY <1>1, AdvancedKeeps, HolderSays DEF Said
<1>4. CASE kept' = Recovered(r) /\ Over
  BY <1>1, <1>3, <1>4, Recovers, OverKeeps DEF TInv, NTypeOK
<1>5. CASE /\ UNCHANGED kept
           /\ Goes(IF r.status = "done" THEN "outcome" ELSE "advance", r)
  <2>1. turn \in [who : Hosts \cup {"owner"}, record : RunRecords,
                 at : {"stop", "announce", "flush", "advance", "outcome"}]
    BY <1>1 DEF TInv, NTypeOK, Turns
  <2>2. turn' \in Turns /\ turn'.who = turn.who /\ turn'.record = r
        /\ turn'.at \in {"advance", "outcome"}
    BY <1>3, <1>5, <2>1 DEF Goes, Turns
  <2>3. QED
    BY <1>1, <1>3, <1>5, <2>2 DEF TInv, NTypeOK, Moving, Said, Due
<1>6. QED
  BY <1>2, <1>4, <1>5

LEMMA OutcomeTyped ==
  ASSUME NEW r \in RunRecords
  PROVE  OutcomeOf(r) \in Comments
  BY DEF RunRecords, OutcomeOf, Comments

LEMMA OutcomeKeeps ==
  ASSUME TInv, Outcome
  PROVE  TInv'
<1>1. /\ turn.who # "nobody" /\ Over /\ hub' = hub
      /\ kept' = Recovered(turn.record) /\ issue' = Posted(OutcomeOf(turn.record))
  BY DEF Outcome, At
<1>2. turn.record \in RunRecords /\ Said(turn.record, issue)
  BY <1>1, HolderSays
<1>3. issue' \in Seq(Comments)
      /\ ToSet(issue') = ToSet(issue) \cup {OutcomeOf(turn.record)}
  BY <1>1, <1>2, OutcomeTyped, PostedAdds DEF TInv, NTypeOK
<1>4. Said(turn.record, issue')
  BY <1>2, <1>3 DEF Said
<1>5. QED
  BY <1>1, <1>2, <1>3, <1>4, Recovers, OverKeeps DEF TInv, NTypeOK

LEMMA FailKeeps ==
  ASSUME TInv, Fail
  PROVE  /\ TInv'
         /\ ~Moving => /\ kept'.attempts = kept.attempts
                       /\ \A c \in ToSet(issue') \ ToSet(issue) : c[1] # "outcome"
<1>1. /\ turn.who # "nobody" /\ Over /\ hub' = hub
      /\ kept' \in {kept, Troubled(turn.record)}
  BY DEF Fail
<1>2. turn.record \in RunRecords /\ Said(turn.record, issue) /\ issue \in Seq(Comments)
  BY <1>1, HolderSays DEF TInv, NTypeOK
<1>3. \/ issue' = issue
      \/ issue' = Posted(Started)
      \/ \E n \in NextDue(turn.record) : issue' = Posted(Cli(turn.record.notices[n]))
      \/ Moving /\ issue' = Posted(OutcomeOf(turn.record))
  BY DEF Fail, Moving
<1>4. \/ issue' = issue
      \/ \E c \in Comments : /\ issue' = Posted(c)
                             /\ ~Moving => c[1] # "outcome"
  <2>1. \A n \in NextDue(turn.record) :
          /\ Cli(turn.record.notices[n]) \in Comments
          /\ Cli(turn.record.notices[n])[1] = "cli"
    BY <1>2, CliTyped DEF NextDue, Due
  <2>2. Started \in Comments /\ Started[1] = "started"
    BY DEF Started, Comments
  <2>3. OutcomeOf(turn.record) \in Comments
    BY <1>2, OutcomeTyped
  <2>4. QED
    BY <1>3, <2>1, <2>2, <2>3
<1>5. /\ issue' \in Seq(Comments) /\ ToSet(issue) \subseteq ToSet(issue')
      /\ ~Moving => \A c \in ToSet(issue') \ ToSet(issue) : c[1] # "outcome"
  BY <1>2, <1>4, PostedAdds
<1>6. Said(kept, issue') /\ Said(turn.record, issue') /\ kept \in RunRecords
  BY <1>2, <1>5 DEF TInv, NTypeOK, Said
<1>7. /\ kept' \in RunRecords /\ Said(kept', issue')
      /\ ~Moving => kept'.attempts = kept.attempts
  BY <1>1, <1>2, <1>6, Recovers DEF TInv
<1>8. QED
  BY <1>1, <1>5, <1>7, OverKeeps DEF TInv, NTypeOK

LEMMA OthersKeep ==
  ASSUME TInv, Leaves \/ Dies \/ (\E host \in Hosts : Takes(host)) \/ UNCHANGED nvars
  PROVE  TInv' /\ kept' = kept /\ issue' = issue
<1>1. CASE Leaves \/ Dies
  <2>1. kept' = kept /\ issue' = issue /\ hub' \in Hosts \cup {"nobody"}
        /\ (Over \/ turn' = turn)
    BY <1>1 DEF Leaves, Dies, TInv, NTypeOK
  <2>2. CASE Over
    BY <2>1, <2>2, OverKeeps DEF TInv, NTypeOK
  <2>3. CASE turn' = turn
    BY <2>1, <2>3 DEF TInv, NTypeOK, Said, Moving, Due
  <2>4. QED
    BY <2>1, <2>2, <2>3
<1>2. CASE (\E host \in Hosts : Takes(host)) \/ UNCHANGED nvars
  <2>1. /\ kept' = kept /\ issue' = issue /\ turn' = turn
        /\ hub' \in Hosts \cup {"nobody"}
    BY <1>2 DEF Takes, nvars, TInv, NTypeOK
  <2>2. QED
    BY <2>1 DEF TInv, NTypeOK, Said, Moving, Due
<1>3. QED
  BY <1>1, <1>2

LEMMA NextTold ==
  ASSUME TInv, [NNext]_nvars
  PROVE  /\ TInv'
         /\ \/ kept'.attempts > kept.attempts
            \/ \E c \in ToSet(issue') \ ToSet(issue) : c[1] = "outcome"
            => Told
<1> DEFINE Acts == \/ kept'.attempts > kept.attempts
                   \/ \E c \in ToSet(issue') \ ToSet(issue) : c[1] = "outcome"
<1>0. kept.attempts \in Nat
  BY DEF TInv, NTypeOK, RunRecords
<1>1. CASE Decisions \/ Tick \/ Stop
  BY <1>0, <1>1, DecisionsKeep, TickKeeps, StopKeeps
<1>2. CASE Announce
  BY <1>0, <1>2, AnnounceKeeps DEF Started
<1>3. CASE Flush
  BY <1>0, <1>3, FlushKeeps
<1>4. CASE Advance \/ Outcome
  BY <1>4, AdvanceKeeps, OutcomeKeeps, MovingTold DEF Advance, Outcome, At, Moving
<1>5. CASE Fail
  <2>1. turn.who # "nobody"
    BY <1>5 DEF Fail
  <2>2. QED
    BY <1>0, <1>5, <2>1, FailKeeps, MovingTold
<1>6. CASE Flushed
  BY <1>0, <1>6, FlushedKeeps
<1>7. CASE Leaves \/ Dies \/ (\E host \in Hosts : Takes(host)) \/ UNCHANGED nvars
  BY <1>0, <1>7, OthersKeep
<1>8. QED
  BY <1>1, <1>2, <1>3, <1>4, <1>5, <1>6, <1>7 DEF NNext

\* However many programs host the hub, and whichever of them or of the tracker's
\* answers is lost: no worker is started on a decision of the owner, and no
\* outcome told, before the tracker has been told of the decision (advance).
THEOREM ToldFirst == NSpec => ActsWhenTold
<1>1. NInit => TInv
  BY InitTold
<1>2. TInv /\ [NNext]_nvars => TInv'
  BY NextTold
<1>3. TInv /\ [NNext]_nvars =>
        [(kept'.attempts > kept.attempts
            \/ \E c \in ToSet(issue') \ ToSet(issue) : c[1] = "outcome") => Told]_nvars
  BY NextTold
<1>4. QED
  BY <1>1, <1>2, <1>3, PTL DEF NSpec, ActsWhenTold
-----------------------------------------------------------------------------
(* The order of the notices.  Each bears a greater number than those before *)
(* it, so that no two are posted under one key; and the one that is posted  *)
(* is the first that is due, those before it having been posted.            *)

Ranked(r) ==
  \A n \in DOMAIN r.notices :
    /\ r.notices[n].sequence <= r.events
    /\ \A m \in 1 .. n - 1 : r.notices[m].sequence < r.notices[n].sequence

Orderly(r, comments) == Ranked(r) /\ InOrder(r.notices, comments)
OInv ==
  /\ TInv /\ Orderly(kept, issue)
  /\ turn.who # "nobody" => Orderly(turn.record, issue)

LEMMA CliEqual ==
  ASSUME NEW x, NEW y
  PROVE  Cli(x) = Cli(y) <=> x.sequence = y.sequence
  BY DEF Cli

\* Notices of a record have keys of their own.
LEMMA RankedDiffer ==
  ASSUME NEW r \in RunRecords, Ranked(r)
  PROVE  \A m, n \in DOMAIN r.notices : Cli(r.notices[m]) = Cli(r.notices[n]) => m = n
<1> DEFINE ns == r.notices
<1>1. DOMAIN ns = 1 .. Len(ns) /\ Len(ns) \in Nat
      /\ \A n \in DOMAIN ns : ns[n].sequence \in Nat
  BY NoticeTyped
<1>2. \A n \in DOMAIN ns : \A m \in 1 .. n - 1 : ns[m].sequence < ns[n].sequence
  BY DEF Ranked
<1> HIDE DEF ns
<1>3. ASSUME NEW m \in DOMAIN ns, NEW n \in DOMAIN ns, m < n
      PROVE  ns[m].sequence # ns[n].sequence
  <2>1. m \in 1 .. n - 1
    BY <1>1, <1>3
  <2>2. ns[m].sequence < ns[n].sequence
    BY <1>2, <2>1
  <2>3. QED
    BY <1>1, <2>2
<1>4. \A m, n \in DOMAIN ns : m = n \/ m < n \/ n < m
  BY <1>1
<1>5. QED
  BY <1>3, <1>4, CliEqual DEF ns

\* A record that has the same notices and has not lost events.
LEMMA RankedGrows ==
  ASSUME NEW r \in RunRecords, Ranked(r), NEW q \in RunRecords,
         q.notices = r.notices, q.events >= r.events
  PROVE  Ranked(q)
<1>1. r.events \in Nat /\ q.events \in Nat
  BY DEF RunRecords
<1>2. \A n \in DOMAIN r.notices : r.notices[n].sequence \in Nat
  BY NoticeTyped
<1>3. QED
  BY <1>1, <1>2 DEF Ranked

LEMMA EventsGrow ==
  ASSUME NEW r \in RunRecords
  PROVE  /\ \A q \in {r, Event(r), Troubled(r), Recovered(r)} : q.events >= r.events
         /\ Event(r).events = r.events + 1
<1>1. r.events \in Nat /\ Event(r).events = r.events + 1
  BY DEF Event, RunRecords
<1>2. [Event(r) EXCEPT !.error = TRUE].events = Event(r).events
  BY DEF Event, RunRecords
<1>3. QED
  BY <1>1, <1>2 DEF Troubled, Recovered

LEMMA AdvancedGrows ==
  ASSUME NEW r \in RunRecords, NEW q \in Advanced(r)
  PROVE  q.events >= r.events
<1>1. r.events \in Nat /\ Event(r).events = r.events + 1 /\ Event(r) \in RunRecords
  BY EventKeeps, EventsGrow DEF RunRecords
<1> DEFINE e == Event(r)
<1>2. e.events = r.events + 1 /\ e \in RunRecords
  BY <1>1
<1>3. \/ q = r
      \/ q = [e EXCEPT !.status = "running", !.active = TRUE, !.attempts = @ + 1]
      \/ \E s \in Statuses : q = [e EXCEPT !.status = s, !.active = FALSE]
      \/ \E s \in Statuses : q = [e EXCEPT !.status = s]
  <2>1. CASE r.status \in {"ready", "running"}
    BY <2>1 DEF Advanced
  <2>2. CASE r.status \in {"gate", "question"}
    BY <2>2 DEF Advanced, Statuses
  <2>3. CASE r.status \notin {"ready", "running", "gate", "question"}
    BY <2>3 DEF Advanced
  <2>4. QED
    BY <2>1, <2>2, <2>3
<1> HIDE DEF e
<1>4. q = r \/ q.events = e.events
  BY <1>2, <1>3 DEF RunRecords
<1>5. QED
  BY <1>1, <1>2, <1>4

\* A comment that is no notice, or the notice after those that are posted.
LEMMA PostedInOrder ==
  ASSUME NEW r \in RunRecords, Ranked(r), InOrder(r.notices, issue),
         issue \in Seq(Comments), NEW c \in Comments,
         \/ c[1] # "cli"
         \/ \E n \in DOMAIN r.notices :
              c = Cli(r.notices[n])
              /\ \A m \in 1 .. n - 1 : Cli(r.notices[m]) \in ToSet(issue)
  PROVE  InOrder(r.notices, Posted(c))
<1> DEFINE ns == r.notices  more == Append(issue, c)  last == Len(issue)
<1>1. CASE c \in ToSet(issue)
  BY <1>1 DEF Posted
<1>2. CASE c \notin ToSet(issue)
  <2>1. Posted(c) = more
    BY <1>2 DEF Posted
  <2>2. /\ last \in Nat /\ DOMAIN issue = 1 .. last /\ DOMAIN more = 1 .. last + 1
        /\ more[last + 1] = c /\ \A i \in 1 .. last : more[i] = issue[i]
    OBVIOUS
  <2>3. DOMAIN ns = 1 .. Len(ns) /\ Len(ns) \in Nat
    BY NoticeTyped
  <2> HIDE DEF more, last
  <2>4. ASSUME NEW i \in DOMAIN more
        PROVE  i = last + 1 \/ (i \in 1 .. last /\ more[i] = issue[i])
    BY <2>2
  <2>5. ASSUME NEW d \in ToSet(more), d[1] = "cli"
        PROVE  \E n \in DOMAIN ns : d = Cli(ns[n])
    <3>1. PICK i \in DOMAIN more : more[i] = d
      BY <2>5 DEF ToSet
    <3>2. CASE i = last + 1
      BY <2>2, <2>5, <3>1, <3>2
    <3>3. CASE i \in 1 .. last /\ more[i] = issue[i]
      BY <2>2, <2>5, <3>1, <3>3 DEF InOrder, ToSet
    <3>4. QED
      BY <2>4, <3>2, <3>3
  <2>6. ASSUME NEW i \in DOMAIN more, NEW j \in DOMAIN more, more[i] = more[j]
        PROVE  i = j
    <3>1. \A k \in 1 .. last : issue[k] # c
      BY <1>2, <2>2 DEF ToSet
    <3>2. \A k, l \in 1 .. last : issue[k] = issue[l] => k = l
      BY <2>2 DEF InOrder
    <3>3. QED
      BY <2>2, <2>4, <2>6, <3>1, <3>2
  <2>7. ASSUME NEW n \in DOMAIN ns, NEW i \in DOMAIN more, more[i] = Cli(ns[n]),
               NEW m \in 1 .. n - 1
        PROVE  \E h \in 1 .. i - 1 : more[h] = Cli(ns[m])
    <3>1. CASE i = last + 1
      <4>1. c = Cli(ns[n]) /\ c[1] = "cli"
        BY <2>2, <2>7, <3>1, CliTyped
      <4>2. Cli(ns[m]) \in ToSet(issue)
        BY <4>1, <2>3, RankedDiffer
      <4>3. PICK h \in 1 .. last : issue[h] = Cli(ns[m])
        BY <2>2, <4>2 DEF ToSet
      <4>4. h \in 1 .. i - 1 /\ more[h] = issue[h]
        BY <2>2, <3>1
      <4>5. QED
        BY <4>3, <4>4
    <3>2. CASE i \in 1 .. last /\ more[i] = issue[i]
      <4>1. issue[i] = Cli(ns[n]) /\ i \in DOMAIN issue
        BY <2>2, <2>7, <3>2
      <4>2. \E h \in 1 .. i - 1 : issue[h] = Cli(ns[m])
        BY <2>7, <4>1 DEF InOrder
      <4>3. PICK h \in 1 .. i - 1 : issue[h] = Cli(ns[m])
        BY <4>2
      <4>4. h \in 1 .. last
        BY <2>2, <3>2
      <4>5. QED
        BY <2>2, <4>3, <4>4
    <3>3. QED
      BY <2>4, <3>1, <3>2
  <2>8. InOrder(ns, more)
    BY <2>5, <2>6, <2>7 DEF InOrder
  <2>9. QED
    BY <2>1, <2>8
<1>3. QED
  BY <1>1, <1>2

\* A notice that is marked delivered.
LEMMA MarkedInOrder ==
  ASSUME NEW r \in RunRecords, NEW n \in DOMAIN r.notices, NEW comments,
         Ranked(r), InOrder(r.notices, comments)
  PROVE  LET told == [r EXCEPT !.notices[n].delivered = TRUE] IN
         Ranked(told) /\ InOrder(told.notices, comments)
<1> DEFINE Notice == [sequence : Nat, delivered : BOOLEAN]
           notices == [r.notices EXCEPT ![n].delivered = TRUE]
           told == [r EXCEPT !.notices[n].delivered = TRUE]
<1>1. r.notices \in Seq(Notice) /\ \A m \in DOMAIN r.notices : r.notices[m] \in Notice
  BY NoticeTyped
<1>2. [r.notices[n] EXCEPT !.delivered = TRUE].sequence = r.notices[n].sequence
  BY <1>1
<1>3. /\ DOMAIN notices = DOMAIN r.notices
      /\ \A m \in DOMAIN r.notices : notices[m].sequence = r.notices[m].sequence
  BY <1>1, <1>2
<1>4. told.notices = notices /\ told.events = r.events
  BY DEF RunRecords
<1> HIDE DEF notices, told
<1>5. \A m \in DOMAIN r.notices : Cli(notices[m]) = Cli(r.notices[m])
  BY <1>3, CliEqual
<1>6. DOMAIN r.notices = 1 .. Len(r.notices) /\ Len(r.notices) \in Nat
  BY <1>1
<1>7. \A k \in DOMAIN r.notices : \A m \in 1 .. k - 1 : m \in DOMAIN r.notices
  BY <1>6
<1>8. Ranked(told)
  BY <1>3, <1>4, <1>7 DEF Ranked
<1>9. InOrder(notices, comments)
  BY <1>3, <1>5, <1>7 DEF InOrder
<1>10. QED
  BY <1>4, <1>8, <1>9 DEF told

LEMMA OrderlyGrows ==
  ASSUME NEW r \in RunRecords, NEW comments, Orderly(r, comments)
  PROVE  \A q \in {r, Event(r), Troubled(r), Recovered(r)} : Orderly(q, comments)
<1>1. \A q \in {r, Event(r), Troubled(r), Recovered(r)} :
        q \in RunRecords /\ q.notices = r.notices /\ q.events >= r.events
  BY EventKeeps, EventsGrow
<1>2. QED
  BY <1>1, RankedGrows DEF Orderly

\* A new notice is numbered after all others, and nobody has posted it.
LEMMA NoticedOrderly ==
  ASSUME NEW r \in RunRecords, NEW comments, Orderly(r, comments)
  PROVE  Orderly(Noticed(Event(r)), comments)
<1> DEFINE Notice == [sequence : Nat, delivered : BOOLEAN]
           e == Event(r)
           new == [sequence |-> e.events, delivered |-> FALSE]
           ns == r.notices
           more == Append(ns, new)
           told == Noticed(e)
<1>1. e \in RunRecords /\ e.notices = ns /\ e.events = r.events + 1 /\ r.events \in Nat
  BY EventKeeps, EventsGrow DEF RunRecords
<1>2. ns \in Seq(Notice) /\ \A n \in DOMAIN ns : ns[n] \in Notice
  BY NoticeTyped
<1>3. told.notices = more /\ told.events = e.events
  BY <1>1 DEF Noticed, RunRecords
<1>4. new \in Notice /\ new.sequence = r.events + 1
  BY <1>1
<1> HIDE DEF e, new
<1>5. /\ Len(ns) \in Nat /\ DOMAIN ns = 1 .. Len(ns) /\ DOMAIN more = 1 .. Len(ns) + 1
      /\ more[Len(ns) + 1] = new /\ \A n \in 1 .. Len(ns) : more[n] = ns[n]
  BY <1>2, <1>4
<1> HIDE DEF more, told
<1>6. \A n \in DOMAIN ns : ns[n].sequence \in Nat /\ ns[n].sequence <= r.events
  BY <1>2 DEF Orderly, Ranked
<1>7. Ranked(told)
  <2>1. ASSUME NEW n \in DOMAIN more
        PROVE  /\ more[n].sequence <= told.events
               /\ \A m \in 1 .. n - 1 : more[m].sequence < more[n].sequence
    <3>1. CASE n = Len(ns) + 1
      BY <1>1, <1>3, <1>4, <1>5, <1>6, <3>1
    <3>2. CASE n \in DOMAIN ns
      <4>1. \A m \in 1 .. n - 1 : ns[m].sequence < ns[n].sequence
        BY <3>2 DEF Orderly, Ranked
      <4>2. \A m \in 1 .. n - 1 : more[m] = ns[m]
        BY <1>5, <3>2
      <4>3. more[n] = ns[n] /\ ns[n].sequence <= told.events
        BY <1>1, <1>3, <1>5, <1>6, <3>2
      <4>4. QED
        BY <4>1, <4>2, <4>3
    <3>3. QED
      BY <1>5, <3>1, <3>2
  <2>2. QED
    BY <1>3, <2>1 DEF Ranked
<1>8. InOrder(more, comments)
  <2>1. \A c \in ToSet(comments) : c[1] = "cli" => \E n \in DOMAIN ns : c = Cli(ns[n])
    BY DEF Orderly, InOrder
  <2>2. \A c \in ToSet(comments) : c[1] = "cli" => \E n \in DOMAIN more : c = Cli(more[n])
    BY <1>5, <2>1
  <2>3. \A i \in DOMAIN comments : comments[i] # Cli(new)
    <3>1. \A n \in DOMAIN ns : Cli(ns[n]) # Cli(new)
      BY <1>1, <1>4, <1>6, CliEqual
    <3>2. Cli(new)[1] = "cli"
      BY DEF Cli
    <3>3. QED
      BY <2>1, <3>1, <3>2 DEF ToSet
  <2>4. ASSUME NEW n \in DOMAIN more, NEW i \in DOMAIN comments, comments[i] = Cli(more[n])
        PROVE  \A m \in 1 .. n - 1 : \E h \in 1 .. i - 1 : comments[h] = Cli(more[m])
    <3>1. n \in DOMAIN ns /\ more[n] = ns[n]
      BY <1>5, <2>3, <2>4
    <3>2. \A m \in 1 .. n - 1 : \E h \in 1 .. i - 1 : comments[h] = Cli(ns[m])
      BY <2>4, <3>1 DEF Orderly, InOrder
    <3>3. \A m \in 1 .. n - 1 : more[m] = ns[m]
      BY <1>5, <3>1
    <3>4. QED
      BY <3>2, <3>3
  <2>5. QED
    BY <2>2, <2>4 DEF Orderly, InOrder
<1>9. QED
  BY <1>3, <1>7, <1>8 DEF Orderly, told, e

LEMMA GoneWith ==
  ASSUME TInv, turn.who # "nobody", NEW step, NEW r, Goes(step, r)
  PROVE  turn'.record = r
<1>1. turn \in [who : Hosts \cup {"owner"}, record : RunRecords,
               at : {"stop", "announce", "flush", "advance", "outcome"}]
  BY DEF TInv, NTypeOK, Turns
<1>2. QED
  BY <1>1 DEF Goes

\* A decision leaves the record with another notice, or none.
LEMMA DecisionsOrderly ==
  ASSUME OInv, Decisions
  PROVE  Orderly(kept', issue') /\ Orderly(turn'.record, issue')
<1> DEFINE e == Event(kept)  n == Noticed(e)
<1>1. kept \in RunRecords /\ e \in RunRecords /\ Said(e, issue)
  BY EventKeeps DEF OInv, TInv, NTypeOK, Said
<1>2. Orderly(e, issue) /\ Orderly(n, issue)
  BY <1>1, OrderlyGrows, NoticedOrderly DEF OInv
<1>3. n \in RunRecords
  BY <1>1, NoticedKeeps
<1> HIDE DEF e, n
<1> DEFINE Fine(r) == Orderly(r, issue) /\ Controls(r)
<1>4. \A q \in {e, n} : \A status :
        /\ [q EXCEPT !.status = status].notices = q.notices
        /\ [q EXCEPT !.status = status].events = q.events
  BY <1>1, <1>3 DEF RunRecords
<1>5. \A status :
        /\ Controls([n EXCEPT !.status = status]) => Fine([n EXCEPT !.status = status])
        /\ Controls([e EXCEPT !.status = status]) => Fine([e EXCEPT !.status = status])
  BY <1>2, <1>4 DEF Orderly, Ranked
<1>6. Controls([e EXCEPT !.paused = ~@]) => Fine([e EXCEPT !.paused = ~@])
  <2>1. /\ [e EXCEPT !.paused = ~@].notices = e.notices
        /\ [e EXCEPT !.paused = ~@].events = e.events
    BY <1>1 DEF RunRecords
  <2>2. QED
    BY <1>2, <2>1 DEF Orderly, Ranked
<1>7. Controls([e EXCEPT !.cancelled = TRUE, !.status = "blocked"]) =>
        Fine([e EXCEPT !.cancelled = TRUE, !.status = "blocked"])
  <2>1. /\ [e EXCEPT !.cancelled = TRUE, !.status = "blocked"].notices = e.notices
        /\ [e EXCEPT !.cancelled = TRUE, !.status = "blocked"].events = e.events
    BY <1>1 DEF RunRecords
  <2>2. QED
    BY <1>2, <2>1 DEF Orderly, Ranked
<1>8. Controls([n EXCEPT !.cancelled = FALSE]) => Fine([n EXCEPT !.cancelled = FALSE])
  <2>1. /\ [n EXCEPT !.cancelled = FALSE].notices = n.notices
        /\ [n EXCEPT !.cancelled = FALSE].events = n.events
    BY <1>3 DEF RunRecords
  <2>2. QED
    BY <1>2, <2>1 DEF Orderly, Ranked
<1>9. \E r : Fine(r)
  <2>1. CASE Approve
    BY <2>1, <1>5 DEF Approve, n, e
  <2>2. CASE Answer
    BY <2>2, <1>5 DEF Answer, n, e
  <2>3. CASE Retry
    BY <2>3, <1>5 DEF Retry, e
  <2>4. CASE Pause
    BY <2>4, <1>6 DEF Pause, e
  <2>5. CASE Cancel
    BY <2>5, <1>7 DEF Cancel, e
  <2>6. CASE Reopen
    BY <2>6, <1>8 DEF Reopen, n, e
  <2>7. QED
    BY <2>1, <2>2, <2>3, <2>4, <2>5, <2>6 DEF Decisions
<1>10. PICK r : Fine(r)
  BY <1>9
<1>11. kept' = r /\ turn'.record = r /\ issue' = issue
  BY <1>10 DEF Controls
<1>12. QED
  BY <1>10, <1>11

LEMMA TickOrderly ==
  ASSUME OInv, Tick
  PROVE  Orderly(kept', issue') /\ (turn'.who # "nobody" => Orderly(turn'.record, issue'))
<1>1. kept \in RunRecords /\ issue' = issue /\ turn.who = "nobody"
  BY DEF OInv, TInv, NTypeOK, Tick, Free
<1>2. \/ kept' = Recovered(kept) /\ turn' = turn
      \/ kept' = kept /\ turn'.record = kept
  BY DEF Tick
<1>3. QED
  BY <1>1, <1>2, OrderlyGrows DEF OInv

\* A step that posts a comment that is no notice, or the first notice that is due.
LEMMA PostsOrderly ==
  ASSUME TInv, NEW r \in RunRecords, Orderly(r, issue), Said(r, issue), NEW c \in Comments,
         \/ c[1] # "cli"
         \/ \E n \in NextDue(r) : c = Cli(r.notices[n])
  PROVE  Orderly(r, Posted(c))
<1>1. ASSUME NEW n \in NextDue(r), NEW m \in 1 .. n - 1
      PROVE  Cli(r.notices[m]) \in ToSet(issue)
  <2>1. DOMAIN r.notices = 1 .. Len(r.notices) /\ Len(r.notices) \in Nat
    BY NoticeTyped
  <2>2. n \in DOMAIN r.notices /\ \A k \in Due(r) : n <= k
    BY DEF NextDue, Due
  <2>3. m \in DOMAIN r.notices /\ ~(n <= m)
    BY <2>1, <2>2
  <2>4. r.notices[m].delivered
    BY <2>2, <2>3 DEF Due
  <2>5. QED
    BY <2>3, <2>4 DEF Said
<1>2. \/ c[1] # "cli"
      \/ \E n \in DOMAIN r.notices :
           c = Cli(r.notices[n]) /\ \A m \in 1 .. n - 1 : Cli(r.notices[m]) \in ToSet(issue)
  BY <1>1 DEF NextDue, Due
<1>3. QED
  BY <1>2, PostedInOrder DEF Orderly, TInv, NTypeOK

LEMMA HolderOrderly ==
  ASSUME OInv, turn.who # "nobody"
  PROVE  /\ turn.record \in RunRecords /\ Orderly(turn.record, issue)
         /\ Said(turn.record, issue) /\ kept \in RunRecords /\ Orderly(kept, issue)
  BY HolderSays DEF OInv, TInv, NTypeOK

LEMMA StopOrderly ==
  ASSUME OInv, Stop
  PROVE  Orderly(kept', issue') /\ (turn'.who # "nobody" => Orderly(turn'.record, issue'))
<1>1. PICK confirmed \in BOOLEAN :
        LET r == [turn.record EXCEPT !.active = @ /\ ~confirmed] IN
        IF turn.who = "owner" THEN kept' = r /\ Goes("flush", r)
        ELSE kept' = Recovered(r) /\ Over
  BY DEF Stop
<1>2. turn.who # "nobody" /\ issue' = issue
  BY DEF Stop, At
<1> DEFINE r == [turn.record EXCEPT !.active = @ /\ ~confirmed]
<1>3. r \in RunRecords /\ r.notices = turn.record.notices /\ r.events = turn.record.events
  BY <1>2, HolderOrderly DEF RunRecords
<1>4. Orderly(r, issue)
  BY <1>2, <1>3, HolderOrderly DEF Orderly, Ranked
<1> HIDE DEF r
<1>5. CASE kept' = r /\ Goes("flush", r)
  BY <1>2, <1>4, <1>5, GoneWith DEF OInv
<1>6. CASE kept' = Recovered(r) /\ Over
  <2>1. turn'.who = "nobody"
    BY <1>6 DEF Over
  <2>2. QED
    BY <1>2, <1>3, <1>4, <1>6, <2>1, OrderlyGrows
<1>7. QED
  BY <1>1, <1>5, <1>6 DEF r

LEMMA AnnounceOrderly ==
  ASSUME OInv, Announce
  PROVE  Orderly(kept', issue') /\ Orderly(turn'.record, issue')
<1> DEFINE r == [turn.record EXCEPT !.started = TRUE]
<1>1. kept' = r /\ Goes("flush", r) /\ turn.who # "nobody" /\ issue' = Posted(Started)
  BY DEF Announce, At
<1>2. Started \in Comments /\ Started[1] # "cli"
  BY DEF Started, Comments
<1>3. Orderly(turn.record, issue')
  BY <1>1, <1>2, HolderOrderly, PostsOrderly DEF OInv
<1>4. r.notices = turn.record.notices /\ r.events = turn.record.events
  BY <1>1, HolderOrderly DEF RunRecords
<1> HIDE DEF r
<1>5. Orderly(r, issue')
  BY <1>3, <1>4 DEF Orderly, Ranked
<1>6. QED
  BY <1>1, <1>5, GoneWith DEF OInv

LEMMA FlushOrderly ==
  ASSUME OInv, Flush
  PROVE  Orderly(kept', issue') /\ Orderly(turn'.record, issue')
<1>1. turn.who # "nobody"
  BY DEF Flush, At
<1>2. PICK n \in NextDue(turn.record) :
        LET r == [turn.record EXCEPT !.notices[n].delivered = TRUE] IN
        issue' = Posted(Cli(r.notices[n])) /\ kept' = r /\ Goes("flush", r)
  BY DEF Flush
<1> DEFINE r == [turn.record EXCEPT !.notices[n].delivered = TRUE]
<1>3. n \in DOMAIN turn.record.notices
  BY DEF NextDue, Due
<1>4. Cli(r.notices[n]) = Cli(turn.record.notices[n])
  BY <1>1, <1>3, HolderOrderly, DeliveredKeeps
<1>5. Cli(turn.record.notices[n]) \in Comments
  BY <1>1, <1>3, HolderOrderly, CliTyped
<1>6. Orderly(turn.record, Posted(Cli(turn.record.notices[n])))
  BY <1>1, <1>5, HolderOrderly, PostsOrderly DEF OInv
<1>7. Orderly(r, Posted(Cli(turn.record.notices[n])))
  BY <1>1, <1>3, <1>6, HolderOrderly, MarkedInOrder DEF Orderly
<1> HIDE DEF r
<1>8. issue' = Posted(Cli(turn.record.notices[n])) /\ kept' = r /\ Goes("flush", r)
  BY <1>2, <1>4 DEF r
<1>9. QED
  BY <1>1, <1>7, <1>8, GoneWith DEF OInv

LEMMA AdvanceOrderly ==
  ASSUME OInv, Advance
  PROVE  Orderly(kept', issue') /\ (turn'.who # "nobody" => Orderly(turn'.record, issue'))
<1>1. turn.who # "nobody" /\ issue' = issue
  BY DEF Advance, At
<1>2. PICK r \in Advanced(turn.record) :
        \/ /\ UNCHANGED kept
           /\ Goes(IF r.status = "done" THEN "outcome" ELSE "advance", r)
        \/ kept' = Recovered(r) /\ Over
  BY DEF Advance
<1>3. r \in RunRecords /\ r.notices = turn.record.notices
  BY <1>1, HolderOrderly, AdvancedKeeps
<1>4. r.events >= turn.record.events
  BY <1>1, HolderOrderly, AdvancedGrows
<1>5. Orderly(r, issue)
  BY <1>1, <1>3, <1>4, HolderOrderly, RankedGrows DEF Orderly
<1>6. CASE /\ UNCHANGED kept
           /\ Goes(IF r.status = "done" THEN "outcome" ELSE "advance", r)
  BY <1>1, <1>5, <1>6, HolderOrderly, GoneWith DEF OInv
<1>7. CASE kept' = Recovered(r) /\ Over
  <2>1. turn'.who = "nobody"
    BY <1>7 DEF Over
  <2>2. QED
    BY <1>1, <1>3, <1>5, <1>7, <2>1, OrderlyGrows
<1>8. QED
  BY <1>2, <1>6, <1>7

LEMMA EndsOrderly ==
  ASSUME OInv, Outcome \/ Fail
  PROVE  Orderly(kept', issue') /\ turn'.who = "nobody"
<1>1. turn.who # "nobody" /\ turn'.who = "nobody"
  BY DEF Outcome, Fail, At, Over
<1>2. kept' \in {kept, Troubled(turn.record), Recovered(turn.record)}
  BY DEF Outcome, Fail
<1>3. /\ turn.record \in RunRecords /\ Orderly(turn.record, issue)
      /\ kept \in RunRecords /\ Orderly(kept, issue) /\ Said(turn.record, issue)
  BY <1>1, HolderOrderly
<1>4. Orderly(turn.record, issue')
  <2>1. \/ issue' = issue
        \/ issue' = Posted(Started)
        \/ \E n \in NextDue(turn.record) : issue' = Posted(Cli(turn.record.notices[n]))
        \/ issue' = Posted(OutcomeOf(turn.record))
    BY DEF Outcome, Fail
  <2>2. Started \in Comments /\ Started[1] # "cli"
    BY DEF Started, Comments
  <2>3. OutcomeOf(turn.record) \in Comments /\ OutcomeOf(turn.record)[1] # "cli"
    BY <1>3, OutcomeTyped DEF OutcomeOf
  <2>4. \A n \in NextDue(turn.record) : Cli(turn.record.notices[n]) \in Comments
    BY <1>3, CliTyped DEF NextDue, Due
  <2>5. ASSUME NEW n \in NextDue(turn.record),
               issue' = Posted(Cli(turn.record.notices[n]))
        PROVE  Orderly(turn.record, issue')
    BY <1>3, <2>4, <2>5, PostsOrderly DEF OInv
  <2>6. QED
    BY <1>3, <2>1, <2>2, <2>3, <2>5, PostsOrderly DEF OInv
<1>5. Orderly(kept, issue')
  BY <1>1, <1>3, <1>4 DEF Orderly, OInv, TInv
<1>6. QED
  BY <1>1, <1>2, <1>3, <1>4, <1>5, OrderlyGrows

LEMMA NextOrderly == OInv /\ [NNext]_nvars => OInv'
<1> SUFFICES ASSUME OInv, [NNext]_nvars PROVE OInv'
  OBVIOUS
<1>1. TInv'
  BY NextTold DEF OInv
<1> DEFINE Kept == /\ Orderly(kept', issue')
                   /\ turn'.who # "nobody" => Orderly(turn'.record, issue')
<1> SUFFICES Kept
  BY <1>1 DEF OInv
<1>2. CASE Decisions \/ Tick \/ Stop \/ Announce
  BY <1>2, DecisionsOrderly, TickOrderly, StopOrderly, AnnounceOrderly
<1>3. CASE Flush \/ Advance \/ Outcome \/ Fail
  BY <1>3, FlushOrderly, AdvanceOrderly, EndsOrderly
<1>4. CASE Flushed
  <2>1. turn.who # "nobody" /\ kept' = kept /\ issue' = issue
    BY <1>4 DEF Flushed, At
  <2>2. CASE Over
    BY <2>1, <2>2 DEF OInv, Over
  <2>3. ASSUME NEW step, Goes(step, turn.record)
        PROVE  Kept
    BY <2>1, <2>3, GoneWith DEF OInv
  <2>4. QED
    BY <1>4, <2>2, <2>3 DEF Flushed
<1>5. CASE Leaves \/ Dies \/ (\E host \in Hosts : Takes(host)) \/ UNCHANGED nvars
  BY <1>5 DEF Leaves, Dies, Takes, Over, nvars, OInv
<1>6. QED
  BY <1>2, <1>3, <1>4, <1>5 DEF NNext

\* Whoever hosts, and whatever fails or dies on the way: the tracker has one
\* comment of each decision and has them in the order they were taken
\* (flush_notices).
THEOREM NoticesOrdered == NSpec => []NoticesInOrder
<1>1. NInit => OInv
  <2> SUFFICES ASSUME NInit PROVE OInv
    OBVIOUS
  <2>1. kept.notices = <<>> /\ turn.who = "nobody"
    BY DEF NInit
  <2>2. DOMAIN kept.notices = {} /\ Ranked(kept)
    BY <2>1 DEF Ranked
  <2>3. issue = <<>> \/ issue = <<Started>>
    BY DEF NInit
  <2>4. InOrder(kept.notices, issue)
    BY <2>2, <2>3 DEF InOrder, Started, ToSet
  <2>5. QED
    BY <2>1, <2>2, <2>4, InitTold DEF OInv, Orderly
<1>2. OInv /\ [NNext]_nvars => OInv'
  BY NextOrderly
<1>3. OInv => NoticesInOrder
  BY DEF OInv, Orderly, NoticesInOrder
<1>4. QED
  BY <1>1, <1>2, <1>3, PTL DEF NSpec


\* With a host killed and another taking over in a tick or a control: only the
\* program that holds hub.lock works on a run for the hub (HostThread).
THEOREM OneHostWorks ==
  ASSUME NoticesAssumption
  PROVE  NSpec => []HostsTakeTurns
<1>1. NInit => HostsTakeTurns
  BY NoticesAssumption DEF NoticesAssumption, NInit, HostsTakeTurns
<1>2. TInv /\ HostsTakeTurns /\ [NNext]_nvars => HostsTakeTurns'
  <2> SUFFICES ASSUME TInv, HostsTakeTurns, [NNext]_nvars PROVE HostsTakeTurns'
    OBVIOUS
  <2>1. CASE turn' = turn /\ hub' = hub
    BY <2>1 DEF HostsTakeTurns
  <2>2. CASE Over
    BY <2>2, NoticesAssumption DEF NoticesAssumption, Over, HostsTakeTurns
  <2>3. CASE Decisions
    BY <2>3, NoticesAssumption DEF NoticesAssumption, Decisions, Approve, Answer, Retry,
         Pause, Cancel, Reopen, Controls, HostsTakeTurns
  <2>4. CASE turn'.who = hub /\ hub' = hub
    BY <2>4 DEF HostsTakeTurns
  <2>5. ASSUME NEW step, NEW r, Goes(step, r), turn.who # "nobody", hub' = hub
        PROVE  HostsTakeTurns'
    <3>1. turn \in [who : Hosts \cup {"owner"}, record : RunRecords,
                   at : {"stop", "announce", "flush", "advance", "outcome"}]
      BY <2>5 DEF TInv, NTypeOK, Turns
    <3>2. turn'.who = turn.who
      BY <2>5, <3>1 DEF Goes
    <3>3. QED
      BY <2>5, <3>2 DEF HostsTakeTurns
  <2>6. CASE Stop \/ Announce \/ Flush \/ Flushed \/ Advance
    BY <2>2, <2>5, <2>6 DEF Stop, Announce, Flush, Flushed, Advance, At
  <2>7. CASE Tick
    BY <2>1, <2>4, <2>7 DEF Tick
  <2>8. CASE \E host \in Hosts : Takes(host)
    BY <2>8, NoticesAssumption DEF NoticesAssumption, Takes, HostsTakeTurns
  <2>9. CASE Leaves
    BY <2>2, <2>9 DEF Leaves, HostsTakeTurns
  <2>10. QED
    BY <2>1, <2>2, <2>3, <2>6, <2>7, <2>8, <2>9
       DEF NNext, nvars, Outcome, Fail, Dies
<1>3. NInit => TInv
  BY InitTold
<1>4. TInv /\ [NNext]_nvars => TInv'
  BY NextTold
<1>5. QED
  BY <1>1, <1>2, <1>3, <1>4, PTL DEF NSpec
=============================================================================
