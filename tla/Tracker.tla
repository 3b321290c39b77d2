------------------------------ MODULE Tracker ------------------------------
(***************************************************************************)
(* The Linear tracker of one run (tracker.rs): comments are posted under a *)
(* request ID and the owner's replies to them are read page by page.       *)
(*                                                                         *)
(* What the tracker knows of its requests is saved before and after every  *)
(* effect on the network.  A call is several exchanges with the service;   *)
(* between two of them the host may die, and any exchange may fail before  *)
(* or after it has taken effect.  `mem` is the state of the LinearTracker  *)
(* in memory, `disk` its state file, `thread` the comments of the issue in *)
(* the order they were created, `clock` the service's time, which several  *)
(* comments may share.                                                     *)
(***************************************************************************)
EXTENDS Naturals, Sequences, FiniteSets, Functions

CONSTANTS
  None,
  Gates, Questions, Alerts,  \* request IDs gate:*, question:* and alert:*
  Rendered,                  \* request ID -> what its template may render to;
                             \* the artifacts of a gate may change
  Go, Blank,                 \* replies of the owner: "GO", only whitespace
  Words,                     \* and everything else
  Owner, App, Stranger,      \* authors of comments
  Remarks,                   \* what people may say, [user, body, to]
  PageSize,                  \* comments in a page (100)
  PageLimit,                 \* pages read in one observation (32)
  MaxRemarks, MaxTime        \* bounds on what is said and on the clock


VARIABLES mem, disk, thread, clock, call, heard

tvars == <<mem, disk, thread, clock, call, heard>>

\* The acknowledgement of an answer is a request of its own, answer:*.
Ack(q) == <<q, "ack">>
Keys == Gates \cup Questions \cup Alerts \cup {Ack(q) : q \in Questions}
Replies == Words \cup {Go, Blank}

\* The kind of a request is part of its ID.
TrackerAssumption ==
  /\ None \notin Replies \cup Keys /\ \A k \in Keys : None # <<k, 0>>
  /\ Go \notin Words /\ Blank \notin Words /\ Go # Blank
  /\ Gates \cap (Questions \cup Alerts) = {} /\ Questions \cap Alerts = {}
  /\ \A k \in Gates \cup Questions \cup Alerts :
       Ack(k) \notin Gates \cup Questions \cup Alerts
  /\ DOMAIN Rendered = Gates \cup Questions \cup Alerts
  /\ \A remark \in Remarks : /\ remark.to \in Keys \cup {None}
                             /\ remark.body \in Replies
  /\ PageSize \in Nat \ {0} /\ PageLimit \in Nat \ {0}

\* The UUID of a comment is a digest of the request's marker, whenever it is
\* computed.  Mutant: it is drawn afresh for every exchange.
CommentIdDrawn(k) == <<k, Len(thread)>>
CommentId(k) == <<k, 0>>

\* The cursor of a request's replies: comments from time `since` on, those of
\* the scan in progress only beyond comment `after`; `max` is the newest time
\* seen in that scan.  0 stands for an absent field.
Cursors == [since : 0 .. MaxTime, after : Nat, max : 0 .. MaxTime]
StartCursor == [since |-> 0, after |-> 0, max |-> 0]
RequestType ==
  [body : (UNION Range(Rendered)) \cup Replies, posted : BOOLEAN, cursor : Cursors,
   reply : Replies \cup {None}]
NewRequest(body) ==
  [body |-> body, posted |-> FALSE, cursor |-> StartCursor, reply |-> None]
States == UNION {[K -> RequestType] : K \in SUBSET Keys}

\* call.at is the exchange a call has come to, call.key the request it is
\* about and call.for the one the caller asked for.
Idle == [at |-> "idle", for |-> None, key |-> None, body |-> None, pages |-> 0]

Comments(k) == {i \in DOMAIN thread : thread[i].id[1] = k}
Published(k) == \E i \in DOMAIN thread : thread[i].id = CommentId(k)

TrackerInit ==
  /\ mem = <<>> /\ disk = mem
  /\ thread = <<>> /\ clock = 1
  /\ call = Idle
  /\ heard = {}
-----------------------------------------------------------------------------
(* Ends of a call. *)

Return == call' = Idle /\ UNCHANGED heard
Hear(value) == call' = Idle /\ heard' = heard \cup {<<call.for, value>>}

\* An error of a gate is a block that may be retried in the same tick; any
\* other ends the tick, and with it the tracker that was made for it.
Fail(state) ==
  /\ mem' = IF call.for \in Gates THEN state ELSE disk
  /\ UNCHANGED disk /\ Return

With(k, request) ==
  [l \in DOMAIN mem \cup {k} |-> IF l = k THEN request ELSE mem[l]]

\* store.write_run replaces the file or fails; memory has changed before.
Save(k, request, next) ==
  \/ mem' = With(k, request) /\ disk' = mem' /\ next
  \/ Fail(With(k, request))
-----------------------------------------------------------------------------
(* Calls of the hub: a gate, an alert, a question and then its answer. *)

Calls(k) ==
  /\ call = Idle /\ k \in Gates \cup Questions \cup Alerts
  /\ \E body \in Rendered[k] :
       call' = [at |-> "bind", for |-> k, key |-> k, body |-> body, pages |-> 0]
  /\ UNCHANGED <<mem, disk, thread, clock, heard>>
-----------------------------------------------------------------------------
(* post_comment *)

\* What follows a comment that is known to be posted.
Proceed ==
  IF call.key \in Gates \cup Questions
  THEN call' = [call EXCEPT !.at = "reply"] /\ UNCHANGED heard
  ELSE IF call.key = Ack(call.for) THEN Hear(mem[call.for].reply)
       ELSE Return

Bind ==
  /\ call.at = "bind" /\ call.key \notin DOMAIN mem
  /\ Save(call.key, NewRequest(call.body),
          call' = [call EXCEPT !.at = "create"] /\ UNCHANGED heard)
  /\ UNCHANGED <<thread, clock>>

Bound ==
  /\ call.at = "bind" /\ call.key \in DOMAIN mem
  /\ LET request == mem[call.key] IN
     IF request.body # call.body THEN Fail(mem)
     ELSE /\ IF request.posted THEN Proceed
             ELSE call' = [call EXCEPT !.at = "recover"] /\ UNCHANGED heard
          /\ UNCHANGED <<mem, disk>>
  /\ UNCHANGED <<thread, clock>>

KnownPosted ==
  Save(call.key, [mem[call.key] EXCEPT !.posted = TRUE], Proceed)

\* The response to an earlier post was lost.
RecoverPosted ==
  /\ call.at = "recover"
  /\ \E i \in DOMAIN thread :
       /\ thread[i].id = CommentId(call.key)
       /\ IF thread[i].body = call.body THEN KnownPosted ELSE Fail(mem)
  /\ UNCHANGED <<thread, clock>>

\* There is no such comment, or the query fails.
RecoverNothing ==
  /\ call.at = "recover"
  /\ call' = [call EXCEPT !.at = "create"]
  /\ UNCHANGED <<mem, disk, thread, clock, heard>>

\* The service takes a comment's ID once.
Publish ==
  /\ ~Published(call.key)
  /\ thread' = Append(thread, [id |-> CommentId(call.key), body |-> call.body,
                               user |-> App, parent |-> None, time |-> clock])

Create ==
  /\ call.at = "create" /\ Publish
  /\ KnownPosted
  /\ UNCHANGED clock

\* The comment is created and its response does not arrive.
CreateLost ==
  /\ call.at = "create" /\ Publish
  /\ Fail(mem)
  /\ UNCHANGED clock
-----------------------------------------------------------------------------
(* reply *)

Scan(c, newest) ==
  {i \in DOMAIN thread :
     /\ thread[i].time >= c.since
     /\ c.after = 0 \/ IF newest THEN i < c.after ELSE i > c.after}
Page(c, newest) ==
  LET scan == Scan(c, newest) IN
  {i \in scan :
     Cardinality({j \in scan : IF newest THEN j > i ELSE j < i}) < PageSize}

Latest(S) == CHOOSE t \in S : \A u \in S : u <= t
EndOf(page, newest) ==
  CHOOSE i \in page : \A j \in page : IF newest THEN j >= i ELSE j <= i
FirstOf(page, newest) ==
  CHOOSE i \in page : \A j \in page : IF newest THEN j <= i ELSE j >= i

\* Mutant: a scan that begins at its first page's newest comment anew.
AdvanceEarly(c, newest) ==
  LET page == Page(c, newest)
      max  == Latest({c.max} \cup {thread[i].time : i \in page})
  IN  [since |-> IF max # 0 THEN max ELSE c.since,
       after |-> IF page # Scan(c, newest) THEN EndOf(page, newest) ELSE 0,
       max |-> 0]
Advance(c, newest) ==
  LET page == Page(c, newest)
      max  == Latest({c.max} \cup {thread[i].time : i \in page})
  IN  IF page # Scan(c, newest)
      THEN [c EXCEPT !.after = EndOf(page, newest), !.max = max]
      ELSE [since |-> IF max # 0 THEN max ELSE c.since, after |-> 0, max |-> 0]

\* Mutant: any comment of the thread may be the reply.
FitsAnyone(comment, k) ==
  /\ comment.parent = CommentId(k)
  /\ IF k \in Gates THEN comment.body = Go ELSE comment.body # Blank
Fits(comment, k) ==
  /\ comment.parent = CommentId(k)
  /\ comment.user = Owner
  /\ IF k \in Gates THEN comment.body = Go ELSE comment.body # Blank
Fitting(k) == {i \in DOMAIN thread : Fits(thread[i], k)}

\* An answer is given to the hub once its acknowledgement is posted.
Replied(reply) ==
  IF call.key \in Gates THEN Hear(reply)
  ELSE call' = [call EXCEPT !.at = "bind", !.key = Ack(call.for), !.body = reply]
       /\ UNCHANGED heard

ReplyKnown ==
  /\ call.at = "reply" /\ mem[call.key].reply # None
  /\ Replied(mem[call.key].reply)
  /\ UNCHANGED <<mem, disk, thread, clock>>

ReadPage(newest) ==
  /\ call.at = "reply" /\ mem[call.key].reply = None
  /\ LET c       == mem[call.key].cursor
         fitting == Page(c, newest) \cap Fitting(call.key)
         reply   == IF fitting = {} THEN None
                    ELSE thread[FirstOf(fitting, newest)].body
     IN  Save(call.key,
              [mem[call.key] EXCEPT !.reply = reply,
                                    !.cursor = Advance(c, newest)],
              IF reply # None THEN Replied(reply)
              ELSE IF /\ Advance(c, newest).after # 0
                      /\ call.pages + 1 < PageLimit
                   THEN call' = [call EXCEPT !.pages = @ + 1] /\ UNCHANGED heard
                   ELSE Return)
  /\ UNCHANGED <<thread, clock>>
-----------------------------------------------------------------------------
\* An exchange fails and has had no effect.
ExchangeFails ==
  /\ \/ call.at = "create"
     \/ call.at = "reply" /\ mem[call.key].reply = None
  /\ Fail(mem)
  /\ UNCHANGED <<thread, clock>>

\* The host dies, or ends its tick; the next one reads the state file.
Restart ==
  /\ mem' = disk /\ Return
  /\ UNCHANGED <<disk, thread, clock>>

\* Anybody comments, on a request or beside it.
Outsiders ==
  /\ Cardinality({i \in DOMAIN thread : thread[i].user # App}) < MaxRemarks
  /\ \E remark \in Remarks :
       /\ remark.to = None \/ Published(remark.to)
       /\ thread' = Append(thread,
                           [id |-> <<None, 0>>, body |-> remark.body,
                            user |-> remark.user, time |-> clock,
                            parent |-> IF remark.to = None THEN None
                                       ELSE CommentId(remark.to)])
  /\ UNCHANGED <<mem, disk, clock, call, heard>>

ClockTicks ==
  /\ clock < MaxTime /\ clock' = clock + 1
  /\ UNCHANGED <<mem, disk, thread, call, heard>>

\* The order of a page is the service's.
Exchange(newest) ==
  \/ Bind \/ Bound \/ RecoverPosted \/ RecoverNothing \/ Create \/ CreateLost
  \/ ReplyKnown \/ ReadPage(newest) \/ ExchangeFails

TrackerNext(newest) ==
  \/ \E k \in Keys : Calls(k)
  \/ Exchange(newest)
  \/ Restart
  \/ Outsiders
  \/ ClockTicks

TrackerSpec(newest) == TrackerInit /\ [][TrackerNext(newest)]_tvars
-----------------------------------------------------------------------------
(* What the tracker promises the hub. *)

\* The correspondence as it stands in the thread.
Copies == [k \in Keys |-> Cardinality(Comments(k))]
Said ==
  [k \in Keys |->
     {thread[i].body : i \in {j \in DOMAIN thread :
                                /\ thread[j].user = Owner
                                /\ thread[j].parent # None
                                /\ thread[j].parent[1] = k}}]

C == INSTANCE Correspondence WITH copies <- Copies, said <- Said

\* A request becomes one comment though responses are lost and hosts die, and
\* what the hub hears is the owner's, always the same, and acknowledged
\* (post_comment, reply, answer).
Corresponds == C!Spec

\* The cursor of a request that waits for its reply never passes a fitting
\* reply: the scan in progress or the one after it will come to it, though
\* comments arrive between two pages and share their time with others
\* (list_comments_since).
NothingBehindCursor(newest) ==
  \A k \in DOMAIN mem :
    mem[k].posted /\ mem[k].reply = None =>
      \A i \in Fitting(k) :
        LET c == mem[k].cursor IN
        \/ i \in Scan(c, newest)
        \/ i \in Scan([since |-> IF c.max # 0 THEN c.max ELSE c.since,
                       after |-> 0, max |-> 0], newest)

\* A question the host goes on asking about is answered to the hub once the
\* owner has replied to it, whatever pages, losses and crashes lie between
\* (reply, answer).
AnswerArrives ==
  \A q \in Questions : Fitting(q) # {} ~> \E entry \in heard : entry[1] = q
=============================================================================
