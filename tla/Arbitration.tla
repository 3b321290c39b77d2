----------------------------- MODULE Arbitration -----------------------------
(***************************************************************************)
(* Which of several hermon programs raises desktop banners (arbitration.rs *)
(* decide, claim, PidGuard; lib.rs arbitrated_notify_cfg; flow_cli.rs).    *)
(*                                                                         *)
(* A program of the UI decides once, when it starts, by looking for the    *)
(* pidfile of a higher kind whose process exists, and afterwards writes    *)
(* its own; the terminal hub writes first and decides before every tick.   *)
(* Programs exit, with their pidfile, or die and leave it; the system may  *)
(* give a dead program's pid to another process.                           *)
(***************************************************************************)
EXTENDS Naturals, FiniteSets

CONSTANTS
  None,
  Programs,   \* their pids
  Kind,       \* program -> "watch", "gui", "menubar", or "hub", which is a watch
  Flag        \* program -> "default", "on" (--notify), "off" (--no-notify)

ArbitrationAssumption ==
  /\ None \notin Programs
  /\ Kind \in [Programs -> {"watch", "gui", "menubar", "hub"}]
  /\ Flag \in [Programs -> {"default", "on", "off"}]

VARIABLES
  stage,     \* program -> "new", "decided", "claimed", "running", "gone"
  notifies,  \* those that deliver banners
  pidfile,   \* kind -> pid
  reused,    \* pids of gone programs that other processes have now
  saw        \* history: program -> of the programs above it, those that were
             \* running when it decided and had claimed their kind, and those
             \* whose pid belonged to a process

avars == <<stage, notifies, pidfile, reused, saw>>

Kinds == {"watch", "gui", "menubar"}
Rank == [watch |-> 0, gui |-> 1, menubar |-> 2]
Ui(p) == IF Kind[p] = "hub" THEN "watch" ELSE Kind[p]
Above(p) == {k \in Kinds : Rank[k] > Rank[Ui(p)]}

ArbitrationInit ==
  /\ stage = [p \in Programs |-> "new"]
  /\ notifies = {} /\ reused = {}
  /\ pidfile = [k \in Kinds |-> None]
  /\ saw = [p \in Programs |-> [held |-> {}, alive |-> {}]]

Runs(p) == stage[p] \in {"decided", "claimed", "running"}
Alive(pid) == pid # None /\ (Runs(pid) \/ pid \in reused)

\* Mutant: a pidfile is believed whatever became of its process.
HeldByFile(k) == pidfile[k] # None
Held(k) == Alive(pidfile[k])

\* Mutant: a program looks only for the kind directly above it.
DecisionNearest(p) ==
  CASE Flag[p] = "on"  -> TRUE
    [] Flag[p] = "off" -> FALSE
    [] OTHER           -> \A k \in Above(p) : Rank[k] = Rank[Ui(p)] + 1 => ~Held(k)
Decision(p) ==
  CASE Flag[p] = "on"  -> TRUE
    [] Flag[p] = "off" -> FALSE
    [] OTHER           -> \A k \in Above(p) : ~Held(k)

Sight(p) ==
  LET above == {q \in Programs : Ui(q) \in Above(p)} IN
  [held  |-> {q \in above : Runs(q) /\ pidfile[Ui(q)] = q},
   alive |-> {q \in above : Alive(q)}]

Decide(p) ==
  /\ notifies' = IF Decision(p) THEN notifies \cup {p} ELSE notifies \ {p}
  /\ saw' = [saw EXCEPT ![p] = Sight(p)]

StartUi(p) ==
  /\ stage[p] = "new" /\ Kind[p] # "hub"
  /\ Decide(p) /\ stage' = [stage EXCEPT ![p] = "decided"]
  /\ UNCHANGED <<pidfile, reused>>

\* Some other work lies between the decision and the claim.  The claim may
\* fail; watch makes none.
Claim(p) ==
  /\ stage[p] = "decided"
  /\ pidfile' \in {pidfile} \cup
       IF p \in notifies /\ Kind[p] # "watch"
       THEN {[pidfile EXCEPT ![Ui(p)] = p]} ELSE {}
  /\ stage' = [stage EXCEPT ![p] = "running"]
  /\ UNCHANGED <<notifies, reused, saw>>

\* The hub claims the kind of watch unless it was started with --no-notify, and
\* knows no --notify.
StartHub(p) ==
  /\ stage[p] = "new" /\ Kind[p] = "hub" /\ Flag[p] # "on"
  /\ pidfile' \in {pidfile} \cup
       IF Flag[p] # "off" THEN {[pidfile EXCEPT !["watch"] = p]} ELSE {}
  /\ stage' = [stage EXCEPT ![p] = "claimed"]
  /\ UNCHANGED <<notifies, reused, saw>>

HubTick(p) ==
  /\ stage[p] \in {"claimed", "running"} /\ Kind[p] = "hub"
  /\ Decide(p) /\ stage' = [stage EXCEPT ![p] = "running"]
  /\ UNCHANGED <<pidfile, reused>>

Stops(p) ==
  /\ Runs(p)
  /\ stage' = [stage EXCEPT ![p] = "gone"] /\ notifies' = notifies \ {p}
  /\ UNCHANGED <<reused, saw>>

\* The guard removes the file of its kind, whoever wrote it last.  A program
\* whose claim failed has no guard, nor has watch.
Exit(p) ==
  /\ Stops(p)
  /\ pidfile' \in {pidfile} \cup
       IF Kind[p] # "watch" /\ Flag[p] # "off" /\ stage[p] \in {"claimed", "running"}
       THEN {[pidfile EXCEPT ![Ui(p)] = None]} ELSE {}

Die(p) == Stops(p) /\ UNCHANGED pidfile

ReusePid(p) ==
  /\ stage[p] = "gone" /\ reused' = reused \cup {p}
  /\ UNCHANGED <<stage, notifies, pidfile, saw>>

ArbitrationNext ==
  \E p \in Programs :
    \/ StartUi(p) \/ Claim(p) \/ StartHub(p) \/ HubTick(p)
    \/ Exit(p) \/ Die(p) \/ ReusePid(p)

ArbitrationSpec == ArbitrationInit /\ [][ArbitrationNext]_avars
-----------------------------------------------------------------------------
Undecided(p) == Flag[p] = "default"

\* A program that was left to decide for itself does not raise banners beside a
\* running program above it that had claimed its kind when it decided, even if
\* that one's file was replaced or removed since (decide, claim, PidGuard).
YieldsToHolder == \A p \in notifies : Undecided(p) => saw[p].held = {}

\* Such a program is silent only for the sake of a process above it: a file
\* that a program left when it died silences nobody, unless its pid belongs to
\* another process (pid_alive).
SilentForSomeone ==
  \A p \in Programs \ notifies :
    stage[p] \in {"decided", "running"} /\ Undecided(p) => saw[p].alive # {}
=============================================================================
