------------------------------ MODULE Journal ------------------------------
(***************************************************************************)
(* The directory of a run: run.json, replaced by rename, and events.jsonl, *)
(* appended line by line (store.rs, control.rs save and read).  Every line *)
(* of a save carries the whole record being saved, so a read finds there   *)
(* what a crash kept from run.json.  The caller holds run.lock throughout. *)
(*                                                                         *)
(* Of a record only the number of its events matters here, and which       *)
(* record it is.  Each write is synced before the next: a crash leaves the *)
(* writes before it, and possibly part of the line being appended.         *)
(***************************************************************************)
EXTENDS Naturals, Sequences, TLAPS

CONSTANTS Records, First, NoRecord

Events(record) == record.events

ASSUME JournalAssumption ==
  /\ NoRecord \notin Records /\ First \in Records
  /\ \A record \in Records : Events(record) \in Nat
  /\ Events(First) = 0

VARIABLES
  file,    \* run.json
  lines,   \* the complete lines of events.jsonl: a record, or NoRecord if garbled
  torn,    \* an incomplete line follows them
  held,    \* the record in the memory of the lock's holder, NoRecord without one
  saving   \* the record being saved, NoRecord outside save

vars == <<file, lines, torn, held, saving>>

LastLine == lines[Len(lines)]

\* Mutant: of two records with as many events the journal's is taken.
StoredOfLine ==
  IF lines # <<>> /\ Events(LastLine) >= Events(file) THEN LastLine ELSE file

\* The record read decides for: the last line's if run.json is behind it.
Stored ==
  IF lines # <<>> /\ Events(LastLine) > Events(file) THEN LastLine ELSE file

JTypeOK ==
  /\ file \in Records /\ lines \in Seq(Records \cup {NoRecord})
  /\ torn \in BOOLEAN
  /\ held \in Records \cup {NoRecord} /\ saving \in Records \cup {NoRecord}

Init ==
  /\ file = First /\ lines = <<>> /\ torn = FALSE
  /\ held = NoRecord /\ saving = NoRecord
-----------------------------------------------------------------------------
\* read: the torn line is dropped, and a record recovered is saved at once.
Read ==
  /\ held = NoRecord
  /\ held' = Stored /\ torn' = FALSE
  /\ saving' = IF Stored # file \/ Len(lines) # Events(Stored)
               THEN Stored ELSE NoRecord
  /\ UNCHANGED <<file, lines>>

\* Mutant: what a failed append left is not removed before the next one.
SaveKeepsTorn ==
  /\ held # NoRecord /\ saving = NoRecord
  /\ \E record \in Records :
       /\ Events(record) >= Events(held)
       /\ held' = record /\ saving' = record
  /\ UNCHANGED <<file, lines, torn>>

\* save, of a record that only ever adds events to the one in memory.
Save ==
  /\ held # NoRecord /\ saving = NoRecord
  /\ \E record \in Records :
       /\ Events(record) >= Events(held)
       /\ held' = record /\ saving' = record
  /\ torn' = FALSE
  /\ UNCHANGED <<file, lines>>

\* Mutant: each line carries the record as it was before the save.
AppendEventOfFile ==
  /\ saving # NoRecord /\ Len(lines) < Events(saving)
  /\ lines' = Append(lines, file)
  /\ UNCHANGED <<file, torn, held, saving>>

\* append_event.  A line appended to a torn one cannot be parsed.
AppendEvent ==
  /\ saving # NoRecord /\ Len(lines) < Events(saving)
  /\ lines' = Append(lines, IF torn THEN NoRecord ELSE saving)
  /\ torn' = FALSE
  /\ UNCHANGED <<file, held, saving>>

\* write_run, once every event has its line.
WriteRun ==
  /\ saving # NoRecord /\ Len(lines) >= Events(saving)
  /\ file' = saving /\ saving' = NoRecord
  /\ UNCHANGED <<lines, torn, held>>

\* A save that fails leaves the record in memory, and maybe part of a line.
SaveFails ==
  /\ saving # NoRecord
  /\ saving' = NoRecord
  /\ torn' \in {torn, torn \/ Len(lines) < Events(saving)}
  /\ UNCHANGED <<file, lines, held>>

\* The holder is done with the run.
Release ==
  /\ held # NoRecord /\ saving = NoRecord
  /\ held' = NoRecord
  /\ UNCHANGED <<file, lines, torn, saving>>

\* The holder dies, which releases the lock.
Crash ==
  /\ held # NoRecord
  /\ held' = NoRecord /\ saving' = NoRecord
  /\ torn' \in
       {torn, torn \/ (saving # NoRecord /\ Len(lines) < Events(saving))}
  /\ UNCHANGED <<file, lines>>

Next ==
  \/ Read \/ Save \/ AppendEvent \/ WriteRun \/ SaveFails \/ Release \/ Crash

Spec == Init /\ [][Next]_vars
-----------------------------------------------------------------------------
(* The directory is an atomic register: whatever a crash or a failed write *)
(* cuts short, a read returns the record saved last or the one that was    *)
(* being saved, and never an older one.                                    *)
Register == INSTANCE RunRegister
  WITH value <- Stored, pending <- saving, returned <- file, None <- NoRecord
Atomic == Register!Spec

(* No line is ever garbled, and save never refuses a record for having     *)
(* fewer events than the journal has lines ("snapshot would discard        *)
(* committed events"): a crash never locks the owner out of the run.       *)
Readable ==
  /\ \A i \in 1 .. Len(lines) : lines[i] # NoRecord
  /\ held # NoRecord => Len(lines) <= Events(held)

(* The inductive invariant.  The record in memory is the one being saved,  *)
(* and is behind nothing in the directory; the last line has at least as   *)
(* many events as the journal has lines.                                   *)
JInv ==
  /\ JTypeOK /\ Readable
  /\ saving # NoRecord => held = saving /\ ~torn
  /\ held # NoRecord => Events(held) >= Events(Stored)
  /\ lines # <<>> => Events(LastLine) >= Len(lines)
-----------------------------------------------------------------------------
(* Proofs, for every set of records.  The record being saved is behind     *)
(* nothing in the directory, so a write to either file can only replace    *)
(* what a read would return by that record.                                *)

\* The last line of a journal that has one.
LEMMA LastLineFacts ==
  ASSUME JInv, lines # <<>>
  PROVE  /\ Len(lines) \in Nat \ {0}
         /\ LastLine \in Records /\ Events(LastLine) \in Nat
         /\ Events(LastLine) >= Len(lines)
<1>1. lines \in Seq(Records \cup {NoRecord}) /\ Len(lines) \in Nat \ {0}
  BY DEF JInv, JTypeOK
<1>2. LastLine \in Records \cup {NoRecord} /\ LastLine # NoRecord
  BY <1>1 DEF JInv, Readable, LastLine
<1>3. QED
  BY <1>1, <1>2, JournalAssumption DEF JInv

\* The record a read returns.
LEMMA StoredFacts ==
  ASSUME JInv
  PROVE  /\ Stored \in Records /\ Events(Stored) \in Nat
         /\ Events(file) \in Nat /\ Events(Stored) >= Events(file)
         /\ lines # <<>> => Events(Stored) >= Events(LastLine)
<1>1. file \in Records /\ Events(file) \in Nat
  BY JournalAssumption DEF JInv, JTypeOK
<1>2. CASE lines = <<>>
  BY <1>1, <1>2 DEF Stored
<1>3. CASE lines # <<>>
  BY <1>1, <1>3, LastLineFacts DEF Stored
<1>4. QED
  BY <1>2, <1>3

\* A line appended to the journal.
LEMMA AppendFacts ==
  ASSUME JInv, AppendEvent
  PROVE  /\ saving \in Records /\ Events(saving) \in Nat
         /\ lines' \in Seq(Records \cup {NoRecord}) /\ lines' # <<>>
         /\ Len(lines') = Len(lines) + 1 /\ Len(lines) \in Nat
         /\ LastLine' = saving
         /\ \A i \in 1 .. Len(lines') : lines'[i] # NoRecord
         /\ Len(lines') <= Events(saving)
<1>1. /\ saving \in Records /\ ~torn /\ lines \in Seq(Records \cup {NoRecord})
      /\ lines' = Append(lines, saving) /\ Len(lines) < Events(saving)
  BY DEF JInv, JTypeOK, AppendEvent
<1>2. Events(saving) \in Nat /\ saving # NoRecord
  BY <1>1, JournalAssumption
<1>3. /\ lines' \in Seq(Records \cup {NoRecord}) /\ Len(lines') = Len(lines) + 1
      /\ Len(lines) \in Nat /\ lines'[Len(lines) + 1] = saving
      /\ \A i \in 1 .. Len(lines) : lines'[i] = lines[i]
  BY <1>1
<1>4. LastLine' = saving /\ lines' # <<>>
  BY <1>3 DEF LastLine
<1>5. \A i \in 1 .. Len(lines') : lines'[i] # NoRecord
  BY <1>2, <1>3 DEF JInv, Readable
<1>6. QED
  BY <1>1, <1>2, <1>3, <1>4, <1>5

\* What a read returns stays, or turns into the record being saved.
LEMMA StoredMoves ==
  ASSUME JInv, [Next]_vars
  PROVE  /\ ~AppendEvent /\ ~WriteRun => Stored' = Stored
         /\ AppendEvent => Stored' \in {Stored, saving}
         /\ WriteRun => Stored' = saving
<1>1. ASSUME ~AppendEvent, ~WriteRun
      PROVE  Stored' = Stored
  <2>1. file' = file /\ lines' = lines
    BY <1>1 DEF Next, vars, Read, Save, SaveFails, Release, Crash
  <2>2. QED
    BY <2>1 DEF Stored, LastLine
<1>2. ASSUME AppendEvent
      PROVE  Stored' \in {Stored, saving}
  <2>1. file' = file /\ held = saving /\ saving # NoRecord
    BY <1>2 DEF AppendEvent, JInv
  <2>2. Stored' = IF Events(saving) > Events(file) THEN saving ELSE file
    BY <1>2, <2>1, AppendFacts DEF Stored, Events
  <2>3. Events(saving) >= Events(Stored)
    BY <2>1 DEF JInv
  <2>4. CASE Events(saving) > Events(file)
    BY <2>2, <2>4
  <2>5. CASE ~(Events(saving) > Events(file))
    <3>1. Stored = file
      BY <1>2, <2>3, <2>5, StoredFacts, AppendFacts, LastLineFacts DEF Stored
    <3>2. QED
      BY <2>2, <2>5, <3>1
  <2>6. QED
    BY <2>4, <2>5
<1>3. ASSUME WriteRun
      PROVE  Stored' = saving
  <2>1. /\ file' = saving /\ lines' = lines /\ saving \in Records
        /\ Events(saving) >= Events(Stored)
    BY <1>3 DEF WriteRun, JInv, JTypeOK
  <2>2. lines # <<>> => Events(saving) >= Events(LastLine)
    BY <2>1, StoredFacts, LastLineFacts, JournalAssumption
  <2>3. LastLine' = LastLine
    BY <2>1 DEF LastLine
  <2>4. QED
    BY <2>1, <2>2, <2>3, LastLineFacts, JournalAssumption DEF Stored, Events
<1>4. QED
  BY <1>1, <1>2, <1>3
-----------------------------------------------------------------------------
(* The inductive invariant. *)

\* It holds of a new run's directory.
LEMMA InitJournal ==
  ASSUME Init
  PROVE  JInv
<1>1. /\ file = First /\ lines = <<>> /\ torn = FALSE
      /\ held = NoRecord /\ saving = NoRecord
  BY DEF Init
<1>2. lines \in Seq(Records \cup {NoRecord}) /\ Len(lines) = 0
  BY <1>1
<1>3. JTypeOK
  BY <1>1, <1>2, JournalAssumption DEF JTypeOK
<1>4. Readable
  BY <1>1, <1>2 DEF Readable
<1>5. QED
  BY <1>1, <1>3, <1>4 DEF JInv

\* Every step preserves it.
LEMMA StepJournal ==
  ASSUME JInv, [Next]_vars
  PROVE  JInv'
<1>1. /\ JTypeOK /\ Readable /\ Stored \in Records /\ Events(Stored) \in Nat
  BY StoredFacts DEF JInv
<1>2. CASE UNCHANGED vars
  BY <1>2 DEF vars, JInv, JTypeOK, Readable, Stored, LastLine
<1>3. CASE AppendEvent
  <2>1. /\ file' = file /\ torn' = FALSE /\ held' = held /\ saving' = saving
        /\ saving # NoRecord /\ held = saving
    BY <1>3 DEF AppendEvent, JInv
  <2>2. JTypeOK'
    BY <1>1, <1>3, <2>1, AppendFacts DEF JTypeOK
  <2>3. Events(held') >= Events(Stored')
    BY <1>1, <1>3, <2>1, AppendFacts, StoredMoves DEF JInv
  <2>4. QED
    BY <1>3, <2>1, <2>2, <2>3, AppendFacts DEF JInv, Readable
<1>4. CASE WriteRun
  <2>1. /\ file' = saving /\ lines' = lines /\ torn' = torn /\ held' = held
        /\ saving' = NoRecord /\ saving # NoRecord /\ held = saving
    BY <1>4 DEF WriteRun, JInv
  <2>2. JTypeOK'
    BY <1>1, <2>1 DEF JTypeOK
  <2>3. held' # NoRecord => Events(held') >= Events(Stored')
    BY <1>1, <1>4, <2>1, StoredMoves, JournalAssumption DEF JTypeOK
  <2>4. QED
    BY <2>1, <2>2, <2>3 DEF JInv, Readable, LastLine
<1>5. CASE Read \/ Save \/ SaveFails \/ Release \/ Crash
  <2>1. file' = file /\ lines' = lines /\ Stored' = Stored
    BY <1>5 DEF Read, Save, SaveFails, Release, Crash, Stored, LastLine
  <2>2. /\ torn' \in BOOLEAN
        /\ held' \in Records \cup {NoRecord} /\ saving' \in Records \cup {NoRecord}
        /\ saving' # NoRecord => held' = saving' /\ ~torn'
    BY <1>1, <1>5 DEF Read, Save, SaveFails, Release, Crash, JTypeOK
  <2>3. held' # NoRecord => Events(held') >= Events(Stored)
    <3>1. CASE Read
      BY <1>1, <3>1 DEF Read
    <3>2. CASE Save
      <4>1. /\ held # NoRecord /\ held' \in Records
            /\ Events(held') >= Events(held)
        BY <3>2 DEF Save
      <4>2. Events(held') \in Nat /\ Events(held) \in Nat
        BY <1>1, <4>1, JournalAssumption DEF JTypeOK
      <4>3. QED
        BY <1>1, <4>1, <4>2 DEF JInv
    <3>3. CASE SaveFails \/ Release \/ Crash
      BY <3>3 DEF SaveFails, Release, Crash, JInv
    <3>4. QED
      BY <1>5, <3>1, <3>2, <3>3
  <2>4. held' # NoRecord => Len(lines) <= Events(held')
    <3>1. lines = <<>> => Len(lines) = 0
      OBVIOUS
    <3>2. Len(lines) <= Events(Stored)
      BY <1>1, <3>1, StoredFacts, LastLineFacts
    <3>3. held' \in Records => Events(held') \in Nat
      BY JournalAssumption
    <3>4. QED
      BY <1>1, <2>2, <2>3, <3>2, <3>3 DEF JTypeOK
  <2>5. LastLine' = LastLine
    BY <2>1 DEF LastLine
  <2>6. QED
    BY <1>1, <2>1, <2>2, <2>3, <2>4, <2>5 DEF JInv, JTypeOK, Readable
<1>6. QED
  BY <1>2, <1>3, <1>4, <1>5 DEF Next

\* The invariant of the specification.
LEMMA JournalInvariance == Spec => []JInv
<1>1. Init => JInv
  BY InitJournal
<1>2. JInv /\ [Next]_vars => JInv'
  BY StepJournal
<1>3. QED
  BY <1>1, <1>2, PTL DEF Spec

(* The journal is never garbled and never ahead of the record to be saved: *)
(* neither read nor save refuses a run for what a crash left of it.        *)
THEOREM JournalReadable == Spec => []Readable
<1>1. JInv => Readable
  BY DEF JInv
<1>2. QED
  BY <1>1, JournalInvariance, PTL

(* The directory implements the register, whatever the records are and     *)
(* wherever a crash or an error cuts a save short.                         *)
THEOREM JournalAtomic == Spec => Atomic
<1>1. Init => Register!Init
  BY DEF Init, Register!Init, Stored
<1>2. JInv /\ [Next]_vars => [Register!Next]_<<Stored, saving, file>>
  <2> SUFFICES ASSUME JInv, [Next]_vars
               PROVE  [Register!Next]_<<Stored, saving, file>>
    OBVIOUS
  <2>1. Stored \in Records
    BY StoredFacts
  <2>2. CASE UNCHANGED vars
    BY <2>2 DEF vars, Stored, LastLine
  <2>3. CASE AppendEvent
    <3>1. saving # NoRecord /\ saving' = saving /\ file' = file
      BY <2>3 DEF AppendEvent
    <3>2. QED
      BY <2>3, <3>1, StoredMoves DEF Register!Next, Register!Commit
  <2>4. CASE WriteRun
    BY <2>4, StoredMoves DEF WriteRun, Register!Next, Register!Return
  <2>5. CASE Read
    <3>1. saving = NoRecord /\ Stored' = Stored /\ file' = file
      BY <2>5 DEF Read, Stored, LastLine, JInv
    <3>2. saving' = NoRecord \/ saving' \in Records
      BY <2>1, <2>5 DEF Read
    <3>3. QED
      BY <3>1, <3>2 DEF Register!Next, Register!Begin
  <2>6. CASE Save
    BY <2>6 DEF Save, Stored, LastLine, Register!Next, Register!Begin
  <2>7. CASE SaveFails \/ Release \/ Crash
    BY <2>7 DEF SaveFails, Release, Crash, Stored, LastLine,
                Register!Next, Register!Abort
  <2>8. QED
    BY <2>2, <2>3, <2>4, <2>5, <2>6, <2>7 DEF Next
<1>3. QED
  BY <1>1, <1>2, JournalInvariance, PTL DEF Spec, Atomic, Register!Spec
=============================================================================
