------------------------------- MODULE Intake -------------------------------
(***************************************************************************)
(* Creation of a run (intake.rs create, announce; host.rs advance): the    *)
(* worktree and its branch, the run directory, the started comment.        *)
(*                                                                         *)
(* Several intakes of the same run ID may be under way, one may die at any *)
(* step, and the host and the owner's controls take the run up as soon as  *)
(* its directory appears.  The directory is staged beside the runs and     *)
(* renamed into place with its run.lock held, so that nobody sees it half  *)
(* made.                                                                   *)
(***************************************************************************)
EXTENDS Naturals, FiniteSets

CONSTANTS
  None,
  Intakes    \* the processes that create the run

IntakeAssumption == None \notin Intakes

VARIABLES
  pc,         \* the step an intake has come to
  intakeLock, \* who holds intake.lock
  runLock,    \* who holds run.lock of the published directory
  branch,     \* who made the run's branch; None when there is none
  worktree,   \* who made the worktree
  published,  \* the run directory: who staged it
  record,     \* run.json: started, status
  comment     \* the started comment is in the thread

ivars ==
  <<pc, intakeLock, runLock, branch, worktree, published, record, comment>>

Steps ==
  {"checks", "waiting", "locked", "added", "announce", "failed", "stopped"}
Fresh == [started |-> FALSE, status |-> "Ready"]

IntakeInit ==
  /\ pc = [i \in Intakes |-> "checks"]
  /\ intakeLock = None /\ runLock = None
  /\ branch = None /\ worktree = None /\ published = None
  /\ record = Fresh /\ comment = FALSE

Goes(i, step) == pc' = [pc EXCEPT ![i] = step]

\* The confirmed request, the project, the ticket and doctor are checked, and
\* the run directory must not exist.
Check(i) ==
  /\ pc[i] = "checks"
  /\ IF published = None THEN Goes(i, "waiting") ELSE Goes(i, "stopped")
  /\ UNCHANGED <<intakeLock, runLock, branch, worktree, published, record, comment>>

Refuse(i) ==
  /\ pc[i] = "checks" /\ Goes(i, "stopped")
  /\ UNCHANGED <<intakeLock, runLock, branch, worktree, published, record, comment>>

\* Under intake.lock the directory is looked for again.
Lock(i) ==
  /\ pc[i] = "waiting" /\ intakeLock = None
  /\ IF published = None
     THEN Goes(i, "locked") /\ intakeLock' = i
     ELSE Goes(i, "stopped") /\ UNCHANGED intakeLock
  /\ UNCHANGED <<runLock, branch, worktree, published, record, comment>>

\* git worktree add -b: neither may be there, and nothing is undone.
AddWorktree(i) ==
  /\ pc[i] = "locked" /\ branch = None /\ worktree = None
  /\ branch' = i /\ worktree' = i /\ Goes(i, "added")
  /\ UNCHANGED <<intakeLock, runLock, published, record, comment>>

\* The command may leave the branch behind.
AddFails(i) ==
  /\ pc[i] = "locked"
  /\ branch' \in {branch, IF branch = None THEN i ELSE branch}
  /\ Goes(i, "stopped") /\ intakeLock' = None
  /\ UNCHANGED <<runLock, worktree, published, record, comment>>

\* The staged directory holds context, templates, roles, its run.lock and the
\* record; the rename fails when there is a run directory.  Mutant: run.lock is
\* taken once the directory is in place.
PublishUnlocked(i) ==
  /\ pc[i] = "added" /\ published = None
  /\ published' = i /\ record' = Fresh
  /\ Goes(i, "announce")
  /\ UNCHANGED <<intakeLock, runLock, branch, worktree, comment>>
Publish(i) ==
  /\ pc[i] = "added" /\ published = None
  /\ published' = i /\ runLock' = i /\ record' = Fresh
  /\ Goes(i, "announce")
  /\ UNCHANGED <<intakeLock, branch, worktree, comment>>

\* Any step of the staging fails: the worktree and the branch are removed.
\* Either command may fail too.
StagingFails(i) ==
  /\ pc[i] = "added"
  /\ worktree' \in {None, worktree}
  /\ branch' \in {None, branch} /\ (worktree' # None => branch' = branch)
  /\ Goes(i, "stopped") /\ intakeLock' = None
  /\ UNCHANGED <<runLock, published, record, comment>>

\* Both locks are held until create returns.
Ends(i) ==
  /\ Goes(i, "stopped")
  /\ intakeLock' = None /\ runLock' = None

\* The record that is saved last is the one create made.
Announce(i) ==
  /\ pc[i] = "announce"
  /\ comment' = TRUE /\ record' = [Fresh EXCEPT !.started = TRUE]
  /\ Ends(i)
  /\ UNCHANGED <<branch, worktree, published>>

\* The tracker fails, whether or not the comment was posted, and the run is
\* blocked if that can be saved.  Mutant: the worktree is removed as well.
AnnounceFailsUndone(i) ==
  /\ pc[i] = "announce"
  /\ comment' \in {comment, TRUE}
  /\ record' = [Fresh EXCEPT !.status = "Blocked"]
  /\ worktree' = None /\ branch' = None
  /\ Ends(i)
  /\ UNCHANGED published
AnnounceFails(i) ==
  /\ pc[i] = "announce"
  /\ comment' \in {comment, TRUE}
  /\ record' \in {record, [Fresh EXCEPT !.status = "Blocked"]}
  /\ Ends(i)
  /\ UNCHANGED <<branch, worktree, published>>

\* The process is killed: its locks are released, and nothing else.
Dies(i) ==
  /\ pc[i] \notin {"stopped", "failed"} /\ Goes(i, "failed")
  /\ intakeLock' = IF intakeLock = i THEN None ELSE intakeLock
  /\ runLock' = IF runLock = i THEN None ELSE runLock
  /\ UNCHANGED <<branch, worktree, published, record, comment>>
-----------------------------------------------------------------------------
(* The host and the owner, under run.lock. *)

Free == published # None /\ runLock = None

\* A tick announces what is not announced, blocked or not; post_comment is
\* idempotent.  Mutant: only a run that may go on is looked at.
UnannouncedReady == ~record.started /\ record.status = "Ready"
Unannounced == ~record.started /\ record.status # "Cancelled"

TickAnnounces ==
  /\ Free /\ Unannounced
  /\ comment' = TRUE
  /\ record' \in {record, [record EXCEPT !.started = TRUE]}
  /\ UNCHANGED <<pc, intakeLock, runLock, branch, worktree, published>>

\* The first step is started in the worktree, once the run is announced.
TickRuns ==
  /\ Free /\ record.started /\ record.status = "Ready"
  /\ record' = [record EXCEPT !.status = "Running"]
  /\ UNCHANGED <<pc, intakeLock, runLock, branch, worktree, published, comment>>

Retries ==
  /\ Free /\ record.status = "Blocked"
  /\ record' = [record EXCEPT !.status = "Ready"]
  /\ UNCHANGED <<pc, intakeLock, runLock, branch, worktree, published, comment>>

Cancels ==
  /\ Free /\ record.status # "Cancelled"
  /\ record' = [record EXCEPT !.status = "Cancelled"]
  /\ UNCHANGED <<pc, intakeLock, runLock, branch, worktree, published, comment>>

IntakeStep(i) ==
  \/ Check(i) \/ Refuse(i) \/ Lock(i)
  \/ AddWorktree(i) \/ AddFails(i) \/ Publish(i) \/ StagingFails(i)
  \/ Announce(i) \/ AnnounceFails(i) \/ Dies(i)

IntakeNext ==
  \/ \E i \in Intakes : IntakeStep(i)
  \/ TickAnnounces \/ TickRuns \/ Retries \/ Cancels

\* An intake goes on, and the host ticks.
IntakeFairness ==
  /\ \A i \in Intakes : WF_ivars(IntakeStep(i))
  /\ WF_ivars(TickAnnounces)
IntakeSpec == IntakeInit /\ [][IntakeNext]_ivars /\ IntakeFairness
-----------------------------------------------------------------------------
\* A run directory that can be seen is whole: the worktree and the branch are
\* those of the intake that staged it, though another intake of the same ID
\* fails or dies beside it, and its run is announced before it runs (create).
RunIsWhole ==
  published # None =>
    /\ worktree = published /\ branch = published
    /\ record.status = "Running" => comment

\* A run that is cancelled as soon as it can be seen stays cancelled: its intake
\* still holds run.lock while it has a record of its own to save (create).
CancelOutlivesIntake ==
  [][record.status = "Cancelled" => record'.status = "Cancelled"]_ivars

\* The host announces what its intake did not, while the run is not cancelled
\* (announce, advance).
StartedIsTold ==
  published # None ~> comment \/ record.status = "Cancelled"
=============================================================================
