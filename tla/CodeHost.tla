------------------------------ MODULE CodeHost ------------------------------
(***************************************************************************)
(* Publication of a run's branch (code_host.rs, host.rs HostCodeHost).     *)
(*                                                                         *)
(* open_pr and merged are sequences of git and gh commands: any of them    *)
(* may fail, or time out after it has taken effect, and the host may die   *)
(* in between.  What is known of the pull request is a receipt, saved once *)
(* the service has answered; the pull request carries the run's marker, so *)
(* that it can be found when the receipt was never written.                *)
(*                                                                         *)
(* GitHub is external: a branch has at most one open pull request, which   *)
(* people may close, or merge into the base; the base may be rewritten.    *)
(***************************************************************************)
EXTENDS Naturals, FiniteSets

CONSTANTS
  None,
  Texts,      \* what the accepted plan and review of the run may say
  Endpoints,  \* what the names of the git remote may resolve to
  MaxPrs      \* bound on the pull requests of the branch

CodeHostAssumption == None \notin Texts \cup Endpoints

VARIABLES
  receipt,   \* the state file: binding, remote, pr, merged
  text,      \* the artifacts a new adapter is made with
  endpoint,  \* where the remote leads at present
  asked,      \* the call in progress and the command it has come to
  prs,       \* GitHub: number -> state, marker; numbers are 1, 2, ...
  base,      \* the pull requests whose merge commit the base contains
  target,    \* and those of the ref of the run the base is fetched into
  pushed,    \* the endpoints the branch was pushed to
  passed,    \* the pull requests the merge gate was passed for
  witnessed  \* history: what the base has contained since the call began

cvars ==
  <<receipt, text, endpoint, asked, prs, base, target, pushed, passed, witnessed>>

\* The digests of what the run is bound to, and of the remote's URLs.
Marker == [binding |-> receipt.binding, remote |-> receipt.remote]
Numbers == DOMAIN prs
PullRequests == [state : {"OPEN", "CLOSED", "MERGED"}, binding : Texts \cup {None},
                 remote : Endpoints \cup {None}]
NoReceipt == [binding |-> None, remote |-> None, pr |-> 0, merged |-> 0]
Idle == [op |-> "idle", at |-> "done", pr |-> 0]

CodeHostInit ==
  /\ receipt = NoReceipt
  /\ text \in Texts /\ endpoint \in Endpoints
  /\ asked = Idle
  /\ prs = <<>> /\ base = {} /\ target = {} /\ pushed = {} /\ passed = {}
  /\ witnessed = {}
-----------------------------------------------------------------------------
\* Every error is a block of the run.  The adapter is made anew in every tick.
Fails == asked' = Idle
At(command) == asked' = [asked EXCEPT !.at = command]
Keep == UNCHANGED <<text, endpoint>>

\* GithubCodeHost::new: a state file of another intake is refused.
Calls(op, pr) ==
  /\ asked = Idle
  /\ IF receipt.binding = None
     THEN /\ receipt' = [NoReceipt EXCEPT !.binding = text, !.remote = endpoint]
          /\ asked' = [op |-> op, at |-> "verify", pr |-> pr]
     ELSE /\ receipt.binding = text
          /\ asked' = [op |-> op, at |-> "verify", pr |-> pr]
          /\ UNCHANGED receipt
  /\ UNCHANGED <<prs, base, target, pushed, passed>> /\ Keep

CallOpen == Calls("open", 0)
\* The hub asks about the pull request open_pr gave it.
CallMerged == \E pr \in Numbers : Calls("merged", pr)

VerifyRemote ==
  /\ asked.at = "verify"
  /\ IF endpoint # receipt.remote THEN Fails
     ELSE IF asked.op = "open" THEN At("lookup")
     ELSE IF receipt.pr = asked.pr THEN At("view") ELSE Fails
  /\ UNCHANGED <<receipt, prs, base, target, pushed, passed>> /\ Keep

\* Mutant: the lookup lists open pull requests only.
ListedOpen == {n \in Numbers : prs[n].state = "OPEN"}
Listed == Numbers

\* validate: the marker; numbers and branches are those of the lookup.
Ours(n) == prs[n].binding = receipt.binding /\ prs[n].remote = receipt.remote

SavePr(n) == receipt' = [receipt EXCEPT !.pr = n]

Lookup ==
  /\ asked.at = "lookup"
  /\ IF Listed = {}
     THEN /\ IF receipt.pr # 0 THEN Fails ELSE At("push")
          /\ UNCHANGED receipt
     ELSE \E n \in Listed :
            IF /\ Cardinality(Listed) = 1
               /\ Ours(n) /\ prs[n].state # "CLOSED"
               /\ receipt.pr \in {0, n}
            THEN SavePr(n) /\ Fails
            ELSE Fails /\ UNCHANGED receipt
  /\ UNCHANGED <<prs, base, target, pushed, passed>> /\ Keep

Push ==
  /\ asked.at = "push"
  /\ pushed' = pushed \cup {endpoint}
  /\ At("create") \/ Fails
  /\ UNCHANGED <<receipt, prs, base, target, passed>> /\ Keep

\* gh pr create: its answer, or the save of it, may be lost.
Create ==
  /\ asked.at = "create"
  /\ \A n \in Numbers : prs[n].state # "OPEN"
  /\ Cardinality(Numbers) < MaxPrs
  /\ LET n == Cardinality(Numbers) + 1 IN
     /\ prs' = [m \in Numbers \cup {n} |->
                  IF m = n THEN [state |-> "OPEN", binding |-> receipt.binding,
                                 remote |-> receipt.remote]
                  ELSE prs[m]]
     /\ SavePr(n) \/ UNCHANGED receipt
  /\ Fails
  /\ UNCHANGED <<base, target, pushed, passed>> /\ Keep

View ==
  /\ asked.at = "view" /\ asked.pr \in Numbers
  /\ IF Ours(asked.pr) /\ prs[asked.pr].state = "MERGED" THEN At("fetch") ELSE Fails
  /\ UNCHANGED <<receipt, prs, base, target, pushed, passed>> /\ Keep

\* A forced fetch: the ref is what the base contains now.  Mutant: it keeps
\* what was fetched before, as a fetch that is not forced would.
FetchedOnto == target \cup base
Fetched == base

Fetch ==
  /\ asked.at = "fetch"
  /\ target' = Fetched /\ At("ancestor")
  /\ UNCHANGED <<receipt, prs, base, pushed, passed>> /\ Keep

\* The merge commit is saved before the gate passes.
Ancestor ==
  /\ asked.at = "ancestor"
  /\ \/ /\ asked.pr \in target
        /\ receipt' = [receipt EXCEPT !.merged = asked.pr]
        /\ passed' = passed \cup {asked.pr}
     \/ UNCHANGED <<receipt, passed>>
  /\ Fails
  /\ UNCHANGED <<prs, base, target, pushed>> /\ Keep

\* A command fails without effect, or the host dies.
CommandFails ==
  /\ asked # Idle /\ Fails
  /\ UNCHANGED <<receipt, prs, base, target, pushed, passed>> /\ Keep
-----------------------------------------------------------------------------
(* Outside of the adapter. *)

\* The state directory is lost, which is only a cache of the publication.
LoseReceipt ==
  /\ asked = Idle /\ receipt # NoReceipt
  /\ receipt' = NoReceipt
  /\ UNCHANGED <<asked, prs, base, target, pushed, passed>> /\ Keep

\* Another plan or review is accepted; the remote is pointed elsewhere.
ArtifactsChange ==
  /\ asked = Idle /\ text' \in Texts
  /\ UNCHANGED <<receipt, endpoint, asked, prs, base, target, pushed, passed>>

RemoteChanges ==
  /\ asked = Idle /\ endpoint' \in Endpoints
  /\ UNCHANGED <<receipt, text, asked, prs, base, target, pushed, passed>>

Becomes(n, state) == prs' = [prs EXCEPT ![n].state = state]

Merges(n) ==
  /\ prs[n].state = "OPEN" /\ Becomes(n, "MERGED")
  /\ base' = base \cup {n}
  /\ UNCHANGED <<receipt, asked, target, pushed, passed>> /\ Keep

Closes(n) ==
  /\ prs[n].state = "OPEN" /\ Becomes(n, "CLOSED")
  /\ UNCHANGED <<receipt, asked, base, target, pushed, passed>> /\ Keep

Reopens(n) ==
  /\ prs[n].state = "CLOSED" /\ \A m \in Numbers : prs[m].state # "OPEN"
  /\ Becomes(n, "OPEN")
  /\ UNCHANGED <<receipt, asked, base, target, pushed, passed>> /\ Keep

\* Somebody opens a pull request of the branch by hand.
OpensByHand ==
  /\ \A n \in Numbers : prs[n].state # "OPEN"
  /\ Cardinality(Numbers) < MaxPrs /\ pushed # {}
  /\ LET n == Cardinality(Numbers) + 1 IN
     prs' = [m \in Numbers \cup {n} |->
               IF m = n THEN [state |-> "OPEN", binding |-> None, remote |-> None]
               ELSE prs[m]]
  /\ UNCHANGED <<receipt, asked, base, target, pushed, passed>> /\ Keep

\* The owner force-pushes the base.
RewritesBase ==
  /\ base # {} /\ base' = {}
  /\ UNCHANGED <<receipt, asked, prs, target, pushed, passed>> /\ Keep

People ==
  \/ \E n \in Numbers : Merges(n) \/ Closes(n) \/ Reopens(n)
  \/ OpensByHand \/ RewritesBase

Command ==
  \/ VerifyRemote \/ Lookup \/ Push \/ Create \/ View \/ Fetch \/ Ancestor
  \/ CommandFails

Step ==
  \/ CallOpen \/ CallMerged
  \/ Command
  \/ LoseReceipt \/ ArtifactsChange \/ RemoteChanges
  \/ People

CodeHostNext ==
  /\ Step
  /\ witnessed' = base' \cup IF asked = Idle THEN {} ELSE witnessed

CodeHostSpec == CodeHostInit /\ [][CodeHostNext]_cvars
-----------------------------------------------------------------------------
CodeHostTypeOK ==
  /\ receipt.pr \in 0 .. MaxPrs /\ receipt.merged \in 0 .. MaxPrs
  /\ receipt.binding \in Texts \cup {None}
  /\ receipt.remote \in Endpoints \cup {None}
  /\ text \in Texts /\ endpoint \in Endpoints
  /\ asked.at \in {"verify", "lookup", "push", "create", "view", "fetch",
                  "ancestor", "done"}
  /\ Numbers = 1 .. Cardinality(Numbers)
  /\ \A n \in Numbers : prs[n] \in PullRequests
  /\ base \subseteq Numbers /\ passed \subseteq Numbers
  /\ pushed \subseteq Endpoints

\* A run publishes its branch in one pull request, though answers are lost and
\* the receipt with them, and a merged one is not followed by another; the
\* receipt, once it names a pull request, names one of ours (open_pr).
OnePullRequest ==
  /\ Cardinality({n \in Numbers : prs[n].binding # None}) <= 1
  /\ receipt.pr # 0 => receipt.pr \in Numbers /\ Ours(receipt.pr)

\* The merge gate passes for the run's own pull request, which is merged and
\* whose merge commit the base has contained since the gate was asked, however
\* the base was rewritten before and after (merged).
PassesOnMerge ==
  [][\A n \in passed' \ passed :
       /\ prs[n].state = "MERGED" /\ n \in witnessed
       /\ receipt.pr = n /\ Ours(n) /\ receipt'.merged = n]_cvars
=============================================================================
