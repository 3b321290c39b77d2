----------------------------- MODULE CodexTurns -----------------------------
(***************************************************************************)
(* What a Codex rollout says (codex.rs Decoder).  Codex may record a       *)
(* message as a response item, as an event, as both or only in the         *)
(* completion of its turn; the reader polls between any two records and    *)
(* must show each message once.  A record is read as soon as it is         *)
(* written: a poll that comes late only reads more of them.                *)
(***************************************************************************)
EXTENDS Naturals, Sequences, SequencesExt, FiniteSets

CONSTANTS
  None,
  MaxMessages, MaxCalls, MaxTurns, MaxSpent,
  FallbackCap,   \* 256
  IdCap          \* MAX_IDS

TurnsAssumption ==
  {MaxMessages, MaxCalls, MaxTurns, MaxSpent, FallbackCap, IdCap} \subseteq Nat

VARIABLES
  style,    \* how this Codex records messages, and whether both copies share an id
  codex,    \* what it is doing: its turn, prompts, calls and what it still writes
  wrote,    \* the messages so far, and the last thing that happened
  decoder, shown, spent, usage

cvars == <<style, codex, wrote, decoder, shown, spent, usage>>

Styles == [records : {"items", "events", "itemFirst", "eventFirst", "completion"},
           shared : BOOLEAN]
-----------------------------------------------------------------------------
\* The streams of the user (1) and the assistant (2): 0 undecided, 1 response
\* items, 2 events only; the same for tools.
NewDecoder ==
  [turn |-> None, done |-> FALSE, pending |-> {}, seen |-> {}, streams |-> <<0, 0>>,
   tools |-> 0, fallbacks |-> <<>>, commands |-> <<>>, completion |-> None,
   sequence |-> 0, semantic |-> 0, last |-> None, out |-> {}]

\* Whether an id was unknown, and the decoder that knows it.
Unique(d, id) == id = None \/ (id \notin d.seen /\ Cardinality(d.seen) < IdCap)
Knowing(d, id) == IF id = None THEN d ELSE [d EXCEPT !.seen = @ \cup {id}]

\* An older entry never becomes the last thing that happened.
Happens(d, seq, what) ==
  IF seq >= d.semantic THEN [d EXCEPT !.last = what, !.semantic = seq] ELSE d

Display(d, m) ==
  IF ~Unique(d, m.id) THEN d
  ELSE [Happens(Knowing(d, m.id), m.seq, m.what) EXCEPT
          !.done = IF m.role = 1 THEN FALSE ELSE @,
          !.out = @ \cup {[seq |-> m.seq, what |-> m.what]}]

FlushMessage(d, m) ==
  IF d.streams[m.role] = 1 THEN d
  ELSE Display([d EXCEPT !.streams[m.role] = 2], m)

FlushCompletion(d) ==
  IF d.completion = None THEN d
  ELSE LET c == d.completion
           off == [d EXCEPT !.completion = None]
       IN IF d.streams[2] # 0 \/ c.what = None THEN off
          ELSE Display([off EXCEPT !.streams[2] = 2], c)

FlushCommand(d, c) ==
  IF d.tools = 1 THEN d
  ELSE LET on == [d EXCEPT !.tools = 2]
       IN IF ~Unique(on, c.id) THEN on ELSE Happens(Knowing(on, c.id), c.seq, c.what)

Flush(d) ==
  LET messages == FlushCompletion(FoldLeft(FlushMessage, d, d.fallbacks))
      all == FoldLeft(FlushCommand, messages, d.commands)
  IN [all EXCEPT !.fallbacks = <<>>, !.commands = <<>>, !.done = d.done]

NewTurn(d, turn) ==
  [Flush(d) EXCEPT !.turn = turn, !.done = FALSE, !.pending = {}, !.seen = {},
                   !.streams = <<0, 0>>, !.tools = 0]

\* A message of a role: the copy of the stream that was chosen counts, events
\* wait for the end of the poll.  Another prompt begins a turn.
Message(d0, m, item) ==
  LET d == IF m.role = 1 /\ d0.done THEN NewTurn(d0, None) ELSE d0
      e == IF m.role = 1 /\ d.streams[1] # 0 THEN NewTurn(d, None) ELSE d
  IN IF m.id \in d0.seen THEN d0
     ELSE IF (item /\ d.streams[m.role] = 2) \/ (~item /\ d.streams[m.role] = 1) THEN d
     ELSE IF item THEN Display([e EXCEPT !.streams[m.role] = 1], m)
     ELSE IF Len(e.fallbacks) < FallbackCap THEN [e EXCEPT !.fallbacks = Append(@, m)]
     ELSE e

Started(d, turn) ==
  IF turn # d.turn \/ d.done THEN NewTurn(d, turn) ELSE d

\* Only the end of the turn that was begun ends it.
Completed(d, turn, what) ==
  IF turn # d.turn THEN d
  ELSE [d EXCEPT !.done = TRUE, !.pending = {},
                 !.completion = [role |-> 2, id |-> None, seq |-> d.sequence,
                                 what |-> what]]

Called(d, c) ==
  LET e == IF d.tools = 0 THEN [d EXCEPT !.tools = 1] ELSE d
      id == <<"call", c>>
  IN IF ~Unique(e, id) THEN e
     ELSE [Knowing(e, id) EXCEPT
             !.pending = IF e.done \/ Cardinality(@) >= IdCap THEN @ ELSE @ \cup {c},
             !.last = <<"call", c>>, !.semantic = e.sequence]

Answered(d, c) ==
  LET e == IF d.tools = 0 THEN [d EXCEPT !.tools = 1] ELSE d
      id == <<"result", c>>
  IN IF ~Unique(e, id) THEN e
     ELSE [Knowing(e, id) EXCEPT !.pending = @ \ {c}, !.last = <<"result", c>>,
                                 !.semantic = e.sequence]

Commanded(d, c) ==
  IF d.tools = 1 \/ Len(d.commands) >= FallbackCap THEN d
  ELSE [d EXCEPT !.commands = Append(@, [id |-> <<"command", c>>, seq |-> d.sequence,
                                         what |-> <<"result", c>>])]

\* A total of the thread outranks one of the response; a response counts once.
Accounted(u, rank, response, total) ==
  IF rank < u.rank THEN u
  ELSE IF rank > 1 THEN [u EXCEPT !.rank = rank, !.total = total]
  ELSE IF response \in u.responses \/ Cardinality(u.responses) >= IdCap THEN u
  ELSE [rank |-> 1, responses |-> u.responses \cup {response}, total |-> u.total + 1]
-----------------------------------------------------------------------------
CInit ==
  /\ style \in Styles
  /\ codex = [turn |-> 0, runs |-> FALSE, steered |-> FALSE, prompts |-> 0, calls |-> 0,
              open |-> {}, next |-> None, unsaid |-> None]
  /\ wrote = [messages |-> <<>>, last |-> None]
  /\ decoder = NewDecoder /\ shown = <<>>
  /\ spent = 0 /\ usage = [rank |-> 0, responses |-> {}, total |-> 0]

\* One more record is read.
Counting == [decoder EXCEPT !.sequence = @ + 1]
Quiet == UNCHANGED <<style, shown, spent, usage>>

Starts ==
  /\ ~codex.runs /\ codex.next = None /\ codex.turn < MaxTurns
  /\ codex' = [codex EXCEPT !.turn = @ + 1, !.runs = TRUE, !.steered = FALSE,
                            !.prompts = 0, !.unsaid = None]
  /\ decoder' = Started(Counting, codex.turn + 1)
  /\ UNCHANGED wrote /\ Quiet

\* What an entry of message n is to the reader.
Copy(n, role, item) ==
  [role |-> role, what |-> <<"message", n>>, seq |-> decoder.sequence + 1,
   id |-> IF style.shared THEN <<"id", n, 0>>
          ELSE IF item THEN None ELSE <<"id", n, 1>>]
Items == style.records \in {"items", "itemFirst"}

\* The user prompts, also in the middle of a turn; the assistant speaks.
Says(role) ==
  LET n == Len(wrote.messages) + 1
      unsaid == role = 2 /\ style.records = "completion"
  IN /\ codex.runs /\ codex.next = None /\ n <= MaxMessages
     /\ role = 2 => codex.prompts > 0 /\ codex.unsaid = None
     /\ codex' = [codex EXCEPT
          !.prompts = IF role = 1 THEN @ + 1 ELSE @,
          !.steered = @ \/ (role = 1 /\ codex.prompts > 0),
          !.unsaid = IF unsaid THEN n ELSE @,
          !.next = IF style.records \in {"itemFirst", "eventFirst"} THEN <<n, role>> ELSE @]
     /\ IF unsaid THEN UNCHANGED <<wrote, decoder>>
        ELSE /\ wrote' = [messages |-> Append(wrote.messages, n),
                          last |-> <<"message", n>>]
             /\ decoder' = Message(Counting, Copy(n, role, Items), Items)
     /\ Quiet

\* The other copy follows before anything else.
SaysAgain ==
  /\ codex.next # None
  /\ LET item == style.records = "eventFirst"
     IN decoder' = Message(Counting, Copy(codex.next[1], codex.next[2], item), item)
  /\ codex' = [codex EXCEPT !.next = None]
  /\ UNCHANGED wrote /\ Quiet

\* A steered turn may have lost its name to the reader: what it only says at
\* its end is then never shown.
Completes ==
  /\ codex.runs /\ codex.next = None /\ codex.prompts > 0 /\ codex.open = {}
  /\ codex' = [codex EXCEPT !.runs = FALSE, !.unsaid = None]
  /\ wrote' = IF codex.unsaid = None \/ decoder.turn # codex.turn THEN wrote
              ELSE [messages |-> Append(wrote.messages, codex.unsaid),
                    last |-> <<"message", codex.unsaid>>]
  /\ decoder' = Completed(Counting, codex.turn,
                          IF codex.unsaid = None THEN None
                          ELSE <<"message", codex.unsaid>>)
  /\ Quiet

Calls ==
  /\ codex.runs /\ codex.next = None /\ codex.prompts > 0 /\ codex.calls < MaxCalls
  /\ LET c == codex.calls + 1
     IN /\ codex' = [codex EXCEPT !.calls = c, !.open = @ \cup {c}]
        /\ IF Items THEN decoder' = Called(Counting, c)
                         /\ wrote' = [wrote EXCEPT !.last = <<"call", c>>]
                    ELSE UNCHANGED <<decoder, wrote>>
  /\ Quiet

Returns ==
  /\ codex.next = None
  /\ \E c \in codex.open :
       /\ codex' = [codex EXCEPT !.open = @ \ {c}]
       /\ decoder' = IF Items THEN Answered(Counting, c) ELSE Commanded(Counting, c)
       /\ wrote' = [wrote EXCEPT !.last = <<"result", c>>]
  /\ Quiet

\* The context of a turn names it again.
Context ==
  /\ codex.runs /\ codex.next = None /\ codex.steered
  /\ codex' = [codex EXCEPT !.steered = FALSE]
  /\ decoder' = IF decoder.turn = None THEN [Counting EXCEPT !.turn = codex.turn]
                                       ELSE Counting
  /\ UNCHANGED wrote /\ Quiet

\* The end of a poll: what waited is decided, and all is shown in its order.
Polls ==
  /\ LET d == Flush(decoder)
         found == SetToSortSeq(d.out, LAMBDA x, y : x.seq < y.seq)
     IN /\ decoder' = [d EXCEPT !.out = {}]
        /\ shown' = shown \o [i \in DOMAIN found |-> found[i].what[2]]
  /\ UNCHANGED <<style, codex, wrote, spent, usage>>

Spends ==
  /\ spent < MaxSpent /\ spent' = spent + 1
  /\ UNCHANGED <<style, codex, wrote, decoder, shown, usage>>
\* Accounts of any rank, of this or an earlier response, or of another thread.
Accounts ==
  /\ \E rank \in 1 .. 3, r \in 1 .. spent :
       usage' = Accounted(usage, rank, r, spent)
  /\ UNCHANGED <<style, codex, wrote, decoder, shown, spent>>

TalkNext == \/ Starts \/ \E role \in {1, 2} : Says(role)
            \/ SaysAgain \/ Completes \/ Calls \/ Returns \/ Context \/ Polls
UsageNext == Spends \/ Accounts
-----------------------------------------------------------------------------
\* Every message is shown exactly once and in order, however Codex records
\* it and wherever the polls fall (Decoder::message, flush).
EachMessageOnce ==
  codex.next = None /\ Flush(decoder) = decoder /\ decoder.out = {} =>
    shown = wrote.messages

\* A turn counts as done only when it is, and one that was not steered does;
\* a tool only while it runs; the last line is that of the last thing that
\* happened, although events are decided late.
RowIsCurrent ==
  /\ decoder.done => ~codex.runs
  /\ ~codex.runs /\ codex.turn > 0 /\ ~codex.steered => decoder.done
  /\ decoder.pending \subseteq codex.open
  /\ (codex.next = None => Flush(decoder).last = wrote.last)

\* No use of tokens counts twice, by whatever accounts it is reported.
NoUseTwice == usage.total <= spent /\ (usage.rank = 1 => usage.total = Cardinality(usage.responses))
=============================================================================
