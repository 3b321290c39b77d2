------------------------------ MODULE Discovery ------------------------------
(***************************************************************************)
(* Docker auto-discovery (remote/discover.rs reconcile, resolve_name,      *)
(* untieable_names; engine.rs sync_docker_auto; roster.rs add_remote,      *)
(* remove_remote): every scan compares the labelled containers with those  *)
(* it follows, and starts or drops remotes of the roster.                  *)
(*                                                                         *)
(* A remote's name is the prefix of its sessions' keys, so that a container*)
(* must not come by the name of another one or of a --remote of the user.  *)
(***************************************************************************)
EXTENDS Naturals, FiniteSets, Functions

CONSTANTS
  None, Bad,   \* no label; a name validate_name refuses
  Containers,  \* ids
  Created,     \* id -> its creation time; the largest stands for an unknown one
  Names,       \* usable names
  Explicit,    \* those of --remote
  Reports      \* what docker ps may say of a container: its name, its label

DiscoveryAssumption ==
  /\ Created \in [Containers -> Nat]
  /\ Explicit \subseteq Names /\ {None, Bad} \cap Names = {}
  /\ Reports \subseteq [name : Names \cup {Bad}, label : Names \cup {None, Bad}]

VARIABLES
  managed,   \* followed container -> the name it is followed under
  remotes,   \* name -> how many remotes of the roster run under it
  disabled,  \* docker failed once
  listed     \* history: the names of the last listing

dvars == <<managed, remotes, disabled, listed>>

DiscoveryInit ==
  /\ managed = <<>> /\ disabled = FALSE /\ listed = <<>>
  /\ remotes = [n \in Names |-> IF n \in Explicit THEN 1 ELSE 0]

\* resolve_name: the label if it is usable, else the container's own name,
\* which has to be usable in any case.
Resolved(c) ==
  IF c.name = Bad THEN Bad
  ELSE IF c.label \in {None, Bad} THEN c.name ELSE c.label

Contenders(list, n) == {id \in DOMAIN list : Resolved(list[id]) = n}
Claimed(names, n) == {id \in DOMAIN names : names[id] = n}

\* The incumbent owns its name, even in the scan that finds it gone; the name of
\* nobody goes to the oldest, if there is one oldest.
\* Mutants: names are free at the start of every scan; ties are settled; a name
\* that is held is refused to its holder as well.
HeldByNobody(n) == {}
Holders(n) == {id \in DOMAIN managed : managed[id] = n}

OldestOfTie(ids) == {CHOOSE id \in ids : \A other \in ids : Created[id] <= Created[other]}
Oldest(ids) ==
  {id \in ids : \A other \in ids \ {id} : Created[id] < Created[other]}

WinnersOfFree(list, n) ==
  LET ids == Contenders(list, n) IN
  IF n \in Explicit \/ ids = {} \/ Holders(n) # {} THEN {} ELSE Oldest(ids)
Winners(list, n) ==
  LET ids == Contenders(list, n) IN
  IF n \in Explicit \/ ids = {} THEN {}
  ELSE IF Holders(n) # {} THEN ids \cap Holders(n)
  ELSE Oldest(ids)

Follows(list) == {id \in DOMAIN list : \E n \in Names : id \in Winners(list, n)}

\* Mutant: a container that was renamed keeps its old remote as well.
RemovesGone(next) == {managed[id] : id \in DOMAIN managed \ DOMAIN next}
Removes(next) ==
  {managed[id] : id \in {i \in DOMAIN managed : i \in DOMAIN next => next[i] # managed[i]}}
Spawns(next) ==
  {next[id] : id \in {i \in DOMAIN next : i \in DOMAIN managed => next[i] # managed[i]}}

Tick(list) ==
  /\ ~disabled
  /\ LET next == [id \in Follows(list) |-> Resolved(list[id])] IN
       /\ managed' = next
       /\ remotes' = [n \in Names |->
            (IF n \in Removes(next) THEN 0 ELSE remotes[n])
              + (IF n \in Spawns(next) THEN 1 ELSE 0)]
  /\ listed' = [id \in DOMAIN list |-> Resolved(list[id])] /\ UNCHANGED disabled

DockerFails ==
  /\ ~disabled /\ disabled' = TRUE /\ UNCHANGED <<managed, remotes, listed>>

Listings == UNION {[S -> Reports] : S \in SUBSET Containers}
DiscoveryNext == DockerFails \/ \E list \in Listings : Tick(list)
DiscoverySpec == DiscoveryInit /\ [][DiscoveryNext]_dvars
-----------------------------------------------------------------------------
\* The roster has one remote under each name of the user's and of the followed
\* containers, and none besides: what is torn down and started on a rename, a
\* swap of names or a departure adds up (reconcile, sync_docker_auto).
RosterInStep ==
  /\ IsInjective(managed) /\ Range(managed) \cap Explicit = {}
  /\ \A n \in Names :
       remotes[n] = IF n \in Explicit \cup Range(managed) THEN 1 ELSE 0

\* A name never passes from one container straight to another: for a scan at
\* least nobody is followed under it (the claims reconcile is seeded with).
NoHandover ==
  [][\A id, other \in Containers :
       id # other /\ id \in DOMAIN managed /\ other \in DOMAIN managed' =>
         managed[id] # managed'[other]]_dvars

\* Where several containers contend for a free name, only one that is older than
\* all the others comes to be followed under it (untieable_names).
OldestIsFollowed ==
  [][\A id \in DOMAIN managed' :
       \/ id \in DOMAIN managed /\ managed[id] = managed'[id]
       \/ \A other \in Claimed(listed', managed'[id]) \ {id} :
            Created[id] < Created[other]]_dvars

\* A container that alone claims a usable name is followed under it by the
\* second scan that finds things so (the claim of a departed container lasts
\* for one scan).
FollowedSoon ==
  [][\A id \in Containers :
       \A n \in Names \ Explicit :
         Claimed(listed, n) = {id} /\ Claimed(listed', n) = {id}
             /\ ~disabled /\ ~disabled'
           => id \in DOMAIN managed' /\ managed'[id] = n]_dvars
=============================================================================
