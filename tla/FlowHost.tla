------------------------------ MODULE FlowHost -----------------------------
(***************************************************************************)
(* The host that keeps a run (host.rs tick_run, control.rs apply).  A tick *)
(* takes run.lock, reads the run, advances it in memory and saves it when  *)
(* advance returns.  What the adapters do in between outlives the host: a  *)
(* worker is launched under the key of its attempt directory, and evidence *)
(* is a git tag under the key (tag, revision).  When the host dies, or the *)
(* save fails, the iterations of the tick are forgotten and these are not; *)
(* the next tick takes the run up again where it was last saved.           *)
(*                                                                         *)
(* run.json and its journal are one register here (module Journal shows    *)
(* that a save is atomic).  The iterations of advance are those of Hub.    *)
(***************************************************************************)
EXTENDS FlowRun

CONSTANTS
  Start, AdapterKinds, WorkerKinds,  \* as in Hub
  BotOf,                             \* step -> the bot that executes it
  MaxCrashes                         \* bound on the crashes of a behaviour

ASSUME HostAssumption ==
  /\ Start \in Steps
  /\ AdapterKinds \subseteq BlockKinds /\ WorkerKinds \subseteq BlockKinds
  /\ MaxCrashes \in Nat

VARIABLES
  disk,      \* the run as last saved
  mem,       \* the run as the holder of run.lock sees it; disk when it is free
  phase,     \* of the tick: "free" (of the lock), "advancing", "returned"
  launched,  \* handles of the attempts whose launch.json is reserved
  stranded,  \* those of them the host died over, before it spawned the worker
  tags,      \* evidence tags in git, with the attempt in their annotation
  crashes,
  live, overdue, replies, merged     \* as in Hub

H == INSTANCE Hub WITH run <- mem, tainted <- FALSE,
                       released <- [s \in Steps |-> 0], reruns <- 0

hvars ==
  <<disk, mem, phase, launched, stranded, tags, crashes, live, overdue,
    replies, merged>>

EvidenceTags ==
  [tag : Tags, revision : Nat, attempt : Steps \X Nat]

HostTypeOK ==
  /\ disk \in RunType /\ mem \in RunType
  /\ phase \in {"free", "advancing", "returned"}
  /\ phase = "free" => mem = disk
  /\ launched \subseteq Steps \X Nat
  /\ live \subseteq launched /\ stranded \subseteq launched \ live
  /\ tags \subseteq EvidenceTags
  /\ crashes \in 0 .. MaxCrashes
  /\ overdue \in BOOLEAN /\ merged \in BOOLEAN
  /\ replies \subseteq H!Requests

HostInit ==
  /\ disk \in H!IntakeRuns /\ mem = disk /\ phase = "free"
  /\ launched = {} /\ stranded = {} /\ tags = {} /\ crashes = 0
  /\ live = {} /\ overdue = FALSE /\ replies = {} /\ merged = FALSE
-----------------------------------------------------------------------------
(* A tick. *)

Begin ==
  /\ phase = "free" /\ phase' = "advancing"
  /\ UNCHANGED <<disk, mem, launched, stranded, tags, crashes, live, overdue,
                 replies, merged>>

Iterate ==
  /\ phase = "advancing" /\ H!Iteration
  /\ UNCHANGED <<disk, phase, launched, stranded, tags, crashes>>

\* The key under which the evidence of the finished attempt is to be tagged.
Evidence ==
  [tag |-> H!Step.tag, revision |-> mem.evidence[H!Step.tag] + 1,
   attempt |-> Handle(mem.active)]
KeyHolders ==
  {t.attempt : t \in {u \in tags : /\ u.tag = Evidence.tag
                                   /\ u.revision = Evidence.revision}}

\* A tag under the key is this evidence if the same attempt left it.
Accept ==
  /\ phase = "advancing" /\ H!ResultAccepted
  /\ IF H!Step.tag = None THEN UNCHANGED tags
     ELSE /\ KeyHolders \subseteq {Handle(mem.active)}
          /\ tags' = tags \cup {Evidence}
  /\ UNCHANGED <<disk, phase, launched, stranded, crashes>>

\* "existing evidence key has a different identity".
EvidenceConflict ==
  /\ phase = "advancing" /\ H!Finished /\ H!Step.tag # None
  /\ ~(KeyHolders \subseteq {Handle(mem.active)})
  /\ mem' = HandleBlock(H!Collected, "unknown")
  /\ UNCHANGED <<disk, phase, launched, stranded, tags, crashes, live, overdue,
                 replies, merged>>

\* The tag is created and the git note that completes it is not.
EvidenceTorn ==
  /\ phase = "advancing" /\ H!Finished /\ H!Step.tag # None
  /\ KeyHolders \subseteq {Handle(mem.active)}
  /\ tags' = tags \cup {Evidence}
  /\ mem' = HandleBlock(H!Collected, "unknown")
  /\ UNCHANGED <<disk, phase, launched, stranded, crashes, live, overdue,
                 replies, merged>>

\* Mutants: capacity is what the run knows of its own attempts; every launch
\* is held against its bot.
AvailableToRun == mem.active = None
AvailableUnlessLaunched ==
  \A handle \in launched : BotOf[handle[1]] # BotOf[mem.current]

\* A bot executes one attempt at a time, whatever the run knows of it, and
\* none while it may be executing one that has left no receipt.
Available ==
  \A handle \in live \cup stranded : BotOf[handle[1]] # BotOf[mem.current]

\* start returns the handle of a reserved launch as it is, live or not.
Launch ==
  /\ phase = "advancing" /\ H!IsBotReady /\ Available
  /\ \E family \in Families :
       /\ H!FamilyAllowed(family)
       /\ LET attempt == H!NextAttempt(family)
              handle  == Handle(attempt)
          IN  /\ mem' = H!Started(attempt)
              /\ live' = IF handle \in launched THEN live
                         ELSE live \cup {handle}
              /\ launched' = launched \cup {handle}
  /\ overdue' = FALSE /\ phase' = "returned"
  /\ UNCHANGED <<disk, stranded, tags, crashes, replies, merged>>

LaunchFails ==
  /\ phase = "advancing" /\ Available /\ H!StartFails
  /\ UNCHANGED <<disk, phase, launched, stranded, tags, crashes>>

\* advance returns at a wait: only an unfinished route goes on.
AtRest ==
  \/ mem.cancelled /\ (mem.active # None => H!ActiveLive)
  \/ ~mem.cancelled /\ mem.paused
  \/ H!Hosted /\ mem.status \in {"Gate", "Blocked", "Done"}
  \/ H!Hosted /\ mem.status = "Running" /\ H!ActiveLive /\ ~overdue
  \/ H!IsBotReady /\ ~Available

\* The budget of iterations is spent, which leaves the run anywhere on a route.
BudgetSpent == mem # disk /\ H!Hosted

\* tick_run notes an error of advance, and the recovery from it, in the run.
Save ==
  /\ \/ phase = "returned"
     \/ phase = "advancing" /\ (AtRest \/ BudgetSpent)
  /\ mem' \in {mem, Event(mem)} /\ disk' = mem'
  /\ phase' = "free"
  /\ UNCHANGED <<launched, stranded, tags, crashes, live, overdue, replies,
                 merged>>

\* The tick is forgotten.  The attempt saved last may be past its deadline.
Forget ==
  /\ phase # "free" /\ crashes < MaxCrashes
  /\ mem' = disk /\ phase' = "free" /\ crashes' = crashes + 1
  /\ overdue' \in IF mem.active = disk.active THEN {overdue}
                  ELSE IF disk.active = None THEN {FALSE} ELSE BOOLEAN
  /\ UNCHANGED <<disk, tags, live, replies, merged>>

Crash == Forget /\ UNCHANGED <<launched, stranded>>

\* The host dies between the reservation of a launch and its spawn.
CrashInLaunch ==
  /\ phase = "advancing" /\ H!IsBotReady /\ Available
  /\ \E family \in Families :
       /\ H!FamilyAllowed(family)
       /\ LET handle == Handle(H!NextAttempt(family))
          IN  /\ handle \notin launched
              /\ launched' = launched \cup {handle}
              /\ stranded' = stranded \cup {handle}
  /\ Forget
-----------------------------------------------------------------------------
(* The owner and the workers. *)

\* Mutant: a cancellation does not wait for the lock.
ControlUnlocked ==
  \/ /\ phase = "free" /\ H!OwnerControl /\ disk' = mem'
     /\ UNCHANGED <<phase, launched, stranded, tags, crashes>>
  \/ /\ phase # "free" /\ ~disk.cancelled /\ disk.status # "Done"
     /\ disk' = CancelRun(disk)
     /\ UNCHANGED <<mem, phase, launched, stranded, tags, crashes, live,
                    overdue, replies, merged>>

\* A control takes run.lock, rewrites the run and saves it.
Control ==
  /\ phase = "free" /\ H!OwnerControl /\ disk' = mem'
  /\ UNCHANGED <<phase, launched, stranded, tags, crashes>>

Outside ==
  /\ H!WorkerEnds \/ H!DeadlinePasses \/ H!OwnerReplies \/ H!OwnerMerges
  /\ UNCHANGED <<disk, phase, launched, stranded, tags, crashes>>

Tick ==
  \/ Begin \/ Iterate \/ Accept \/ EvidenceConflict \/ EvidenceTorn
  \/ Launch \/ LaunchFails \/ Save

HostNext == Tick \/ Crash \/ CrashInLaunch \/ Control \/ Outside

HostSpec == HostInit /\ [][HostNext]_hvars

\* A host is started again after a crash and ticks for ever; a worker ends
\* by itself or by its supervisor's deadline.
WorkersEnd ==
  H!WorkerEnds /\ UNCHANGED <<disk, phase, launched, stranded, tags, crashes>>
HostFairness == WF_hvars(Tick) /\ WF_hvars(WorkersEnd)
-----------------------------------------------------------------------------
(* What the owner has saved stays as saved: no tick, and no crash of one,  *)
(* writes an older run over it (hosting-pipelines.md: "an answer,          *)
(* cancellation or host tick cannot overwrite another action"), and from   *)
(* then on a cancelled run has no worker launched.                         *)
ControlsHold ==
  [][/\ disk.cancelled /\ ~disk'.cancelled => H!Reopen
     /\ disk.paused /\ ~disk'.paused => H!Resume
     /\ disk.cancelled => live' \subseteq live]_hvars

(* However often the host dies between a launch and the save that records  *)
(* it, one step never has two workers executing.                           *)
OneWorkerPerStep ==
  \A a, b \in live : a[1] = b[1] => a = b

(* A saved run is one advance accepts: a running run has its attempt, an   *)
(* unsettled one is blocked with its worker's handle, and no other holds a *)
(* worker.  A restarted host never errs on it.                             *)
SavedConsistent ==
  /\ disk.status = "Running" => disk.active # None /\ ~disk.unsettled
  /\ disk.unsettled => disk.active # None /\ disk.status = "Blocked"
  /\ disk.active # None =>
       /\ disk.active.step = disk.current
       /\ Handle(disk.active) \in launched
       /\ disk.status = "Running" \/ disk.unsettled

(* A tick interrupted and repeated comes to rest all the same: the run is  *)
(* saved waiting for its owner, or done, again and again, unless a launch  *)
(* left uncertain keeps the bot it needs ("never automatically relaunched",*)
(* agent.rs).                                                              *)
SavedAtRest ==
  []<>(\/ disk.status \in {"Gate", "Blocked", "Done"}
       \/ disk.paused \/ disk.cancelled
       \/ \E handle \in stranded : BotOf[handle[1]] = BotOf[disk.current])

(* The worker of a cancelled run settles, also when the host dies between  *)
(* saving the cancellation and asking for the stop.                        *)
CancelSettlesSaved == disk.cancelled ~> (disk.active = None)
-----------------------------------------------------------------------------
(* intake-controls.md: reopen "requires a cancelled run whose worker       *)
(* settlement is confirmed".                                               *)
ReopenSettled == [][H!Reopen => live = {}]_hvars

(* checks.md: "A tag that exists without its explicit git note is          *)
(* recovered from its annotation": evidence is not refused for it.         *)
TagRecovered == [][~EvidenceConflict]_hvars
=============================================================================
