------------------------------- MODULE Routes -------------------------------
(***************************************************************************)
(* From a row on the deck back to its session (roster.rs Sources, bots.rs  *)
(* Route), and the registry of Hermes profiles that some of the rows come  *)
(* from (hermes_profiles.rs).                                              *)
(*                                                                         *)
(* A route names a store by its canonical path.  Links may be turned to    *)
(* another store at any time, also between the two halves of a scan and    *)
(* between the check of a route and the opening of its store.              *)
(***************************************************************************)
EXTENDS Naturals, Sequences, FiniteSets

CONSTANTS
  None,
  Stores,      \* canonical paths, natural numbers: their order counts
  Ids,         \* what sessions are called; stores may call two the same
  Short,       \* what is shown of an id
  Default, Names,  \* the slug "default"; the other slugs, in order
  Explicit,    \* --hermes-db, or None
  MaxStores,   \* MAX_STORES
  Remotes,     \* names of remotes
  Wires,       \* what a remote may call a session; 0 is no store of its own
  MaxTurns, MaxConnections

Order == <<Default>> \o Names
Aliases == {Order[i] : i \in DOMAIN Order}

RoutesAssumption ==
  /\ Stores \subseteq Nat /\ Explicit \in Stores \cup {None}
  /\ DOMAIN Short = Ids
  /\ Names \in Seq(Aliases) /\ \A i \in DOMAIN Names : Names[i] # Default
  /\ None \notin Remotes \cup Aliases
  /\ MaxStores \in Nat \ {0} /\ {MaxTurns, MaxConnections} \subseteq Nat
  /\ 0 \notin Stores
  /\ Wires \subseteq [source : {"C", "H", None}, store : Stores \cup {0},
                      nested : BOOLEAN, vendor : Ids]

VARIABLES
  link,       \* of the source C, to a store
  alias,      \* of every slug, the store its state.db is, or None
  held,       \* the sessions of every store
  broken,     \* stores that cannot be read
  reports,    \* remote -> [of: its connection, wires]
  inventory,  \* store -> [owner, active, available]
  scanning,   \* the sessions of C that a scan has read, None between scans
  routes, rows, owners,  \* what the last scan admitted
  shown,      \* the rows of this scan and the one before
  asked,      \* the row a tailer is being opened for, and the link then
  got,        \* what the last tailer opened reads
  turns       \* what changed outside since the last scan

svars == <<link, alias, held, broken, reports, inventory, scanning, routes, rows,
           owners, shown, asked, got, turns>>
outside == <<link, alias, held, broken, reports>>
-----------------------------------------------------------------------------
(* The registry. *)

\* The slugs of a store.
Slugs(s) == {n \in Aliases : alias[n] = s}

Admissible ==
  IF Explicit # None THEN {Explicit} ELSE {s \in Stores : Slugs(s) # {}}

\* The default's store comes first, then by first slug, a store without one
\* before those with, and by path.
Place(s) ==
  IF Slugs(s) = {} THEN 0
  ELSE CHOOSE i \in DOMAIN Order :
         Order[i] \in Slugs(s) /\ \A j \in DOMAIN Order : Order[j] \in Slugs(s) => i <= j
Precedes(s, t) ==
  IF alias[Default] \in {s, t} THEN alias[Default] = s /\ s # t
  ELSE IF Place(s) # Place(t) THEN Place(s) < Place(t) ELSE s < t

\* The first n of the stores there are, and of those that are no longer found.
Admitted(n) ==
  {s \in Admissible : Cardinality({t \in Admissible : Precedes(t, s)}) < n}
Retained(gone, n) == {s \in gone : Cardinality({t \in gone : t < s}) < n}

\* The default wins, then the slug that was the owner, then the first.
Winner(s) ==
  LET known == IF s \in DOMAIN inventory THEN inventory[s].owner ELSE None
  IN IF Slugs(s) = {} THEN None
     ELSE IF Default \in Slugs(s) THEN Default
     ELSE IF known \in Slugs(s) THEN known
     ELSE Order[Place(s)]

\* Stores that are no longer found stay known while there is room.
Refreshed ==
  LET admitted == Admitted(MaxStores)
      room == MaxStores - Cardinality(admitted)
      kept == Retained(DOMAIN inventory \ admitted, room)
  IN [s \in admitted \cup kept |->
        IF s \in admitted
        THEN [owner |-> Winner(s), active |-> TRUE,
              available |-> s \in DOMAIN inventory /\ inventory[s].available]
        ELSE [inventory[s] EXCEPT !.active = FALSE]]

\* Every scan asks the stores; a refresh is not due every time.
Probed(inv) ==
  [s \in DOMAIN inv |->
     [inv[s] EXCEPT !.available = inv[s].active /\ s \notin broken]]
Profiled(inv) == {s \in DOMAIN inv : inv[s].active /\ inv[s].available}
-----------------------------------------------------------------------------
(* The scan. *)

Route(origin, source, store, vendor) == <<origin, source, store, vendor>>
Alias(origin, source, vendor) == <<origin, source, Short[vendor]>>

\* A row is known by its route; "of" is the session it was made of.
Row(route, key, of) == [route |-> route, key |-> key, of |-> of]

\* What a remote calls a session must be one of the six sources, and a route
\* of its own must agree with it and have no origin.
Decodes(w) == w.source # None /\ ~w.nested

LocalRows(read, inv) ==
  {Row(Route(None, "C", link, i), Alias(None, "C", i), <<"C", read.store, i>>) : i \in read.ids}
    \cup UNION {{Row(Route(None, "H", s, i), Alias(None, "H", i), <<"H", s, i>>) : i \in held[s]} :
                  s \in Profiled(inv)}
RemoteRows ==
  UNION {{Row(Route(r, w.source, w.store, w.vendor), Alias(r, w.source, w.vendor),
              <<r, reports[r].of, w>>) : w \in {v \in reports[r].wires : Decodes(v)}} :
           r \in Remotes}

\* One thread scans and opens.
ScanReads ==
  /\ scanning = None /\ asked = None /\ got' = None
  /\ scanning' = [store |-> link, ids |-> IF link \in broken THEN {} ELSE held[link]]
  /\ UNCHANGED <<outside, inventory, routes, rows, owners, shown, asked, turns>>

ScanAdmits ==
  /\ scanning # None /\ scanning' = None
  /\ \E inv \in {inventory, Refreshed} : inventory' = Probed(inv)
  /\ rows' = LocalRows(scanning, inventory') \cup RemoteRows
  /\ routes' = [r \in {w.route : w \in rows'} |-> (CHOOSE w \in rows' : w.route = r).key]
  /\ owners' = [r \in {w.route : w \in {v \in rows' : v.of[1] = "H" /\
                                            inventory'[v.of[2]].owner # None}} |->
                  inventory'[r[3]].owner]
  /\ shown' = rows \cup rows' /\ turns' = 0
  /\ UNCHANGED <<outside, asked, got>>
-----------------------------------------------------------------------------
(* Opening a row, of this scan or of an earlier one, by its route or its key. *)

Valid(route) ==
  /\ route \in DOMAIN routes
  /\ route[1] = None =>
       IF route[2] = "C" THEN route[3] = link
       ELSE route[3] \in DOMAIN inventory /\ route[3] \in Profiled(inventory)

Asks ==
  /\ scanning = None /\ asked = None /\ got' = None
  /\ \E row \in shown :
       /\ Valid(row.route) /\ routes[row.route] = row.key
       /\ asked' = [row |-> row, link |-> link]
  /\ UNCHANGED <<outside, inventory, scanning, routes, rows, owners, shown, turns>>

\* A key names a row just if it names no other.
Resolved(key) ==
  LET matches == {row \in rows : row.key = key}
  IN IF Cardinality(matches) = 1 THEN matches ELSE {}
AsksByKey ==
  /\ scanning = None /\ asked = None /\ got' = None
  /\ \E key \in {row.key : row \in rows} : \E row \in Resolved(key) :
       Valid(row.route) /\ asked' = [row |-> row, link |-> link]
  /\ UNCHANGED <<outside, inventory, scanning, routes, rows, owners, shown, turns>>

\* The source follows its link; a profile's store is opened by its path, and
\* a remote is asked for what it called the session.
Opens ==
  /\ asked # None /\ asked' = None
  /\ LET route == asked.row.route
         name == CHOOSE w \in Wires : Decodes(w) /\ <<w.source, w.store, w.vendor>>
                                        = <<route[2], route[3], route[4]>>
     IN got' = [row |-> asked.row, link |-> asked.link,
                is |-> IF route[1] # None THEN <<route[1], reports[route[1]].of, name>>
                       ELSE <<route[2], IF route[2] = "C" THEN link ELSE route[3], route[4]>>]
  /\ UNCHANGED <<outside, inventory, scanning, routes, rows, owners, shown, turns>>
-----------------------------------------------------------------------------
Changes == turns < MaxTurns /\ turns' = turns + 1 /\
           UNCHANGED <<inventory, scanning, routes, rows, owners, shown, asked, got>>

Retargets ==
  /\ Changes
  /\ \/ link' \in Stores \ {link} /\ UNCHANGED <<alias, held, broken, reports>>
     \/ /\ \E n \in Aliases, s \in Stores \cup {None} : alias' = [alias EXCEPT ![n] = s]
        /\ alias' # alias /\ UNCHANGED <<link, held, broken, reports>>
Sessions ==
  /\ Changes
  /\ \/ /\ \E s \in Stores, i \in Ids : held' = [held EXCEPT ![s] = @ \cup {i}]
        /\ held' # held /\ UNCHANGED broken
     \/ /\ \E s \in Stores : broken' \in {broken \cup {s}, broken \ {s}}
        /\ broken' # broken /\ UNCHANGED held
  /\ UNCHANGED <<link, alias, reports>>
Reports ==
  /\ Changes
  /\ \E r \in Remotes, wires \in SUBSET Wires :
       \/ reports' = [reports EXCEPT ![r].wires = wires]
       \/ reports[r].of < MaxConnections
          /\ reports' = [reports EXCEPT ![r] = [of |-> @.of + 1, wires |-> wires]]
  /\ UNCHANGED <<link, alias, held, broken>>

SInit ==
  /\ link = 1 /\ alias = [n \in Aliases |-> None] /\ broken = {}
  /\ held = [s \in Stores |-> {CHOOSE i \in Ids : TRUE}]
  /\ reports = [r \in Remotes |-> [of |-> 1, wires |-> {}]]
  /\ inventory = [s \in {} |-> None] /\ scanning = None
  /\ routes = [r \in {} |-> None] /\ rows = {} /\ owners = [r \in {} |-> None]
  /\ shown = {} /\ asked = None /\ got = None /\ turns = 0

SNext == \/ ScanReads \/ ScanAdmits \/ Asks \/ AsksByKey \/ Opens
         \/ Retargets \/ Sessions \/ Reports
RoutesSpec == SInit /\ [][SNext]_svars
-----------------------------------------------------------------------------
\* What is opened for a row, also one of an earlier scan, is the session the
\* row was made of.  There are three exceptions: the link of its source was
\* turned between the two halves of the scan, it was turned after the route
\* was checked, or another remote has taken the name of the row's
\* (Sources::scan_local, open_tailer).
OpensWhatIsShown ==
  got # None =>
    \/ got.is = got.row.of
    \/ got.row.of[1] = "C" /\ (got.row.of[2] # got.row.route[3] \/ got.is[2] # got.link)
    \/ got.row.of[1] \in Remotes /\ got.is[3] = got.row.of[3] /\ got.is[2] # got.row.of[2]

\* While nothing changes, every row of the last scan can be opened.
FreshRowsOpen ==
  scanning = None /\ turns = 0 =>
    \A row \in rows : Valid(row.route) /\ routes[row.route] = row.key

\* A store keeps its owner as long as the owner's name leads to it, also
\* through times it could not be found, unless it becomes the default's; and
\* the default's is followed whatever else there is (HermesProfiles::refresh).
OwnersStay ==
  [][/\ \A s \in DOMAIN inventory \cap DOMAIN inventory' :
          LET was == inventory[s].owner
              is == inventory'[s].owner
          IN was # is /\ was # None => alias[was] # s \/ is = Default
     /\ ScanAdmits /\ Explicit = None /\ alias[Default] # None /\ inventory' = Probed(Refreshed) =>
          inventory'[alias[Default]].active]_svars
=============================================================================
