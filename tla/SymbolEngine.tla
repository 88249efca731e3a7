---------------------------- MODULE SymbolEngine ----------------------------
(***************************************************************************)
(* One symbol partition of the engine: class SymbolEngine                  *)
(* (engine/src/symbol_engine.cpp), its Journal (engine/src/journal.cpp)    *)
(* and the PartitionWorker that runs it (engine/src/main.cpp).             *)
(*                                                                         *)
(* Every journal record is one step, so the process may crash or an append *)
(* may fail between any two of them.  The matching core is abstracted to   *)
(* unit orders at one price: an order fills against the oldest open one or *)
(* rests.  What matters here is that its output is a function of the       *)
(* commands applied so far, which is what restore() relies on; the book    *)
(* itself is the subject of OrderBook.                                     *)
(***************************************************************************)
EXTENDS Integers, Sequences, FiniteSets, SequencesExt

CONSTANTS
  Orders,       \* ids of order commands
  Refused,      \* the orders the book rejects on arrival
  Cancels,      \* cancel commands: records [kind, id, order]
  Controls,     \* replay and snapshot commands: records [kind, id, from]
  MaxFaults,    \* bound on the crashes and failed appends of a behaviour
  MaxJournal,   \* bound on the records in the file when a command is accepted
  MaxErrors,    \* bound on the failed appends of a behaviour
  TornWrites    \* may a crash leave part of a record in the file?

ASSUME OrdersAssumption  == IsFiniteSet(Orders) /\ Refused \subseteq Orders
\* Command ids are random, so no two commands share one.
ASSUME ControlsAssumption ==
  /\ Cancels \subseteq [kind: {"cancel"}, id: STRING, order: Orders]
  /\ Controls \subseteq [kind: {"replay", "snapshot"}, id: STRING, from: Nat]
  /\ \A c \in Cancels, d \in Controls : c.id # d.id
ASSUME BoundsAssumption  == MaxFaults \in Nat /\ MaxErrors \in Nat /\ MaxJournal \in Nat
                            /\ TornWrites \in BOOLEAN

OrderRequests == [kind: {"order"}, id: Orders]
Requests == OrderRequests \cup Cancels \cup Controls

VARIABLES
  file,             \* the journal file: records [kind, seq, data, ok]; ~ok is a fragment
  records,          \* records_
  journal_sequence, \* journal_sequence_
  book,             \* book_
  order_replies,    \* order_replies_: order id -> reply
  control_replies,  \* control_replies_: command id -> reply
  pc,               \* "down", "restore", "idle", or "work" inside submit()/control()
  job,              \* the request being served
  todo,             \* records still to be appended for it
  reply,            \* what submit() or control() will return for it
  published,        \* events handed to the publisher
  answers,          \* <<request, reply>> pairs returned to the router
  crashes, errors   \* counters of the faults

disk     == <<file>>
volatile == <<records, journal_sequence, book, order_replies, control_replies,
              pc, job, todo, reply>>
observed == <<published, answers>>
vars     == <<disk, volatile, observed, crashes, errors>>

NoJob   == [kind |-> "none", id |-> "none"]
NoReply == <<>>
-----------------------------------------------------------------------------
(* The deterministic book. *)

EmptyBook == [seen |-> {}, open |-> <<>>, trades |-> 0, statuses |-> 0, depth |-> 0]

TradeEvent(n, maker, taker) == [kind |-> "trade_event", data |-> <<n, maker, taker>>]
StatusRecord(n, id, status) == [kind |-> "status_event", data |-> <<n, id, status>>]
BookSnapshot(n)             == [kind |-> "book_snapshot", data |-> <<n>>]

\* encode_result(): trades, then statuses, then a snapshot if the depth moved.
BookSubmit(b, id) ==
  CASE id \in b.seen -> [book |-> b, events |-> <<>>]
    [] id \notin b.seen /\ id \in Refused ->
         [book   |-> [b EXCEPT !.seen = @ \cup {id}, !.statuses = @ + 1],
          events |-> <<StatusRecord(b.statuses + 1, id, "rejected")>>]
    [] id \notin b.seen /\ id \notin Refused /\ b.open = <<>> ->
         [book   |-> [b EXCEPT !.seen = @ \cup {id}, !.open = <<id>>,
                               !.statuses = @ + 1, !.depth = @ + 1],
          events |-> <<StatusRecord(b.statuses + 1, id, "open"), BookSnapshot(b.depth + 1)>>]
    [] OTHER ->
         [book   |-> [b EXCEPT !.seen = @ \cup {id}, !.open = Tail(@), !.trades = @ + 1,
                               !.statuses = @ + 2, !.depth = @ + 1],
          events |-> <<TradeEvent(b.trades + 1, Head(b.open), id),
                       StatusRecord(b.statuses + 1, Head(b.open), "filled"),
                       StatusRecord(b.statuses + 2, id, "filled"),
                       BookSnapshot(b.depth + 1)>>]

BookCancel(b, id) ==
  IF id \in Range(b.open)
  THEN [book   |-> [b EXCEPT !.open = SelectSeq(@, LAMBDA x : x # id),
                             !.statuses = @ + 1, !.depth = @ + 1],
        events |-> <<StatusRecord(b.statuses + 1, id, "canceled"), BookSnapshot(b.depth + 1)>>]
  ELSE [book |-> b, events |-> <<>>]

Apply(b, c) == IF c.kind = "order" THEN BookSubmit(b, c.id) ELSE BookCancel(b, c.order)

\* The reply to an order is its last status, the reply to a cancel an
\* acknowledgement with the sequence of the last status of the book.
IsStatus(e)        == e.kind = "status_event"
OrderReply(events) == events[Max({i \in DOMAIN events : IsStatus(events[i])})].data
CancelAck(c, r) ==
  [kind |-> "control_ack", data |-> <<c.id, r.events # <<>>, r.book.statuses>>]

\* Everything a command adds to the journal after itself.
Outputs(c, r) == IF c.kind = "order" THEN r.events ELSE Append(r.events, CancelAck(c, r))

CommandRecord(c) ==
  [kind |-> IF c.kind = "order" THEN "order_command" ELSE "cancel_command", data |-> c]
IsCommand(rec) == rec.kind \in {"order_command", "cancel_command"}
-----------------------------------------------------------------------------
(* Recovery. *)

\* Journal::recover(): every record complete and the sequence without a gap.
recover(f) == \A i \in DOMAIN f : f[i].ok /\ f[i].seq = i

\* The reply maps are sets of <<id, reply>> with one entry per id.
Put(replies, id, v) == {e \in replies : e[1] # id} \cup {<<id, v>>}

\* The replies restore() puts back for a command.
RestoredOrder(a, c, r) ==
  IF c.kind = "order" /\ r.events # <<>> THEN Put(a.orders, c.id, OrderReply(r.events)) ELSE a.orders
RestoredControl(a, c, r) ==
  IF c.kind = "cancel" THEN Put(a.controls, c.id, CancelAck(c, r).data) ELSE a.controls

\* Mistake: commands are replayed, the outputs after them are not compared.
RestoreStep_Unverified(a, rec) ==
  IF ~IsCommand(rec)
  THEN [a EXCEPT !.expect = IF @ = <<>> THEN @ ELSE Tail(@)]
  ELSE LET c == rec.data
           r == Apply(a.book, c)
       IN [ok |-> a.ok, book |-> r.book, expect |-> Outputs(c, r),
           orders |-> RestoredOrder(a, c, r),
           controls |-> RestoredControl(a, c, r)]

\* One turn of the loop of restore(): a command is applied again, and each
\* following record has to be the next output of that command.
RestoreStep(a, rec) ==
  CASE a.expect # <<>> ->
         [a EXCEPT !.ok = @ /\ rec.kind = Head(a.expect).kind /\ rec.data = Head(a.expect).data,
                   !.expect = Tail(@)]
    [] a.expect = <<>> /\ IsCommand(rec) ->
         LET c == rec.data
             r == Apply(a.book, c)
         IN [ok       |-> a.ok /\ (c.kind = "order" => r.events # <<>>),
             book     |-> r.book,
             expect   |-> Outputs(c, r),
             orders   |-> RestoredOrder(a, c, r),
             controls |-> RestoredControl(a, c, r)]
    [] OTHER -> [a EXCEPT !.ok = FALSE]

\* The state after the loop.  (The bound variable a makes TLC evaluate the
\* state before a record once.)
RestoreFrom(f) ==
  LET after[i \in 0..Len(f)] ==
        IF i = 0
        THEN [ok |-> TRUE, book |-> EmptyBook, expect |-> <<>>, orders |-> {}, controls |-> {}]
        ELSE CHOOSE b \in {RestoreStep(a, f[i]) : a \in {after[i - 1]}} : TRUE
  IN after[Len(f)]

\* Mistake: a journal that ends inside a command is refused.
Restorable_OnlyComplete(f) == recover(f) /\ RestoreFrom(f).ok /\ RestoreFrom(f).expect = <<>>

\* restore() succeeds on this file.
Restorable(f) == recover(f) /\ RestoreFrom(f).ok
-----------------------------------------------------------------------------
Init ==
  /\ file = <<>> /\ records = <<>> /\ journal_sequence = 0
  /\ book = EmptyBook /\ order_replies = {} /\ control_replies = {}
  /\ pc = "down" /\ job = NoJob /\ todo = <<>> /\ reply = NoReply
  /\ published = {} /\ answers = {}
  /\ crashes = 0 /\ errors = 0

\* The worker is constructed: restore() rebuilds the book and the replies and
\* finds the outputs the last command still lacks.
Restart ==
  /\ pc = "down"
  /\ Restorable(file)
  /\ LET r == RestoreFrom(file) IN
       /\ book' = r.book
       /\ order_replies' = r.orders
       /\ control_replies' = r.controls
       /\ todo' = r.expect
  /\ records' = file
  /\ journal_sequence' = Len(file)
  /\ pc' = "restore"
  /\ UNCHANGED <<file, job, reply, observed, crashes, errors>>

\* restore() throws: the request that needed the worker is rejected.
RestartRefused ==
  /\ pc = "down"
  /\ ~Restorable(file)
  /\ UNCHANGED vars

RestoreDone ==
  /\ pc = "restore"
  /\ todo = <<>>
  /\ pc' = "idle"
  /\ UNCHANGED <<file, records, journal_sequence, book, order_replies, control_replies,
                 job, todo, reply, observed, crashes, errors>>

Replies(r) == IF r.kind = "order" THEN order_replies ELSE control_replies
Known(r)   == \E e \in Replies(r) : e[1] = r.id

\* A command seen before: the cached reply, without touching the book.
AnswerAgain(r) ==
  /\ pc = "idle"
  /\ \E e \in Replies(r) : e[1] = r.id /\ answers' = answers \cup {<<r, e[2]>>}
  /\ UNCHANGED <<disk, volatile, published, crashes, errors>>

\* A new order or cancel: its command record is appended first.
Accept(r) ==
  /\ pc = "idle"
  /\ r.kind \in {"order", "cancel"}
  /\ ~Known(r)
  /\ Len(file) < MaxJournal
  /\ job' = r
  /\ todo' = <<CommandRecord(r)>>
  /\ pc' = "work"
  /\ UNCHANGED <<file, records, journal_sequence, book, order_replies, control_replies,
                 reply, observed, crashes, errors>>

\* A new replay or snapshot command: nothing is journaled.
ReplayedTrades(from) ==
  {records[i] : i \in {j \in DOMAIN records : records[j].kind = "trade_event"
                                               /\ records[j].data[1] >= from}}

AtLeastOne(n) == IF n > 1 THEN n ELSE 1

AnswerControl(r) ==
  /\ pc = "idle"
  /\ r \in Controls
  /\ ~Known(r)
  /\ LET ack == IF r.kind = "replay" THEN AtLeastOne(book.trades) ELSE AtLeastOne(book.depth)
     IN /\ control_replies' = control_replies \cup {<<r.id, ack>>}
        /\ answers' = answers \cup {<<r, ack>>}
  /\ published' = published \cup
       (IF r.kind = "replay"
        THEN {[kind |-> e.kind, data |-> e.data] : e \in ReplayedTrades(r.from)}
        ELSE {BookSnapshot(book.depth)})
  /\ UNCHANGED <<file, records, journal_sequence, book, order_replies, pc, job, todo,
                 reply, crashes, errors>>

\* Mistake: the record carries the sequence before the increment.
Stored_OldSequence(rec, ok) ==
  [kind |-> rec.kind, seq |-> journal_sequence, data |-> rec.data, ok |-> ok]

Stored(rec, ok) == [kind |-> rec.kind, seq |-> journal_sequence + 1, data |-> rec.data, ok |-> ok]

\* persist_and_publish(): an event goes out once its record is on disk.
Publishable(rec) ==
  IF pc = "work" /\ rec.kind \in {"trade_event", "status_event", "book_snapshot"}
  THEN {[kind |-> rec.kind, data |-> rec.data]} ELSE {}

\* append() succeeds; after the command record the book takes the command.
AppendRecord ==
  /\ pc \in {"work", "restore"}
  /\ todo # <<>>
  /\ LET rec == Head(todo)
         r   == Apply(book, job)
     IN
     /\ file' = Append(file, Stored(rec, TRUE))
     /\ records' = Append(records, Stored(rec, TRUE))
     /\ IF IsCommand(rec)
        THEN /\ book' = r.book
             /\ todo' = Outputs(job, r)
             /\ reply' = IF job.kind = "cancel" THEN CancelAck(job, r).data
                         ELSE IF r.events = <<>> THEN NoReply ELSE OrderReply(r.events)
        ELSE todo' = Tail(todo) /\ UNCHANGED <<book, reply>>
     /\ published' = published \cup Publishable(rec)
  /\ journal_sequence' = journal_sequence + 1
  /\ UNCHANGED <<order_replies, control_replies, pc, job, answers, crashes, errors>>

\* All outputs are on disk: the reply is cached and returned.
Reply ==
  /\ pc = "work" /\ todo = <<>> /\ reply # NoReply
  /\ answers' = answers \cup {<<job, reply>>}
  /\ IF job.kind = "order"
     THEN order_replies' = order_replies \cup {<<job.id, reply>>} /\ UNCHANGED control_replies
     ELSE control_replies' = control_replies \cup {<<job.id, reply>>} /\ UNCHANGED order_replies
  /\ pc' = "idle" /\ job' = NoJob /\ reply' = NoReply
  /\ UNCHANGED <<file, records, journal_sequence, book, todo, published, crashes, errors>>

\* "new order produced no status": the book had taken the order in an attempt
\* whose outputs could not be written.
NoResponse ==
  /\ pc = "work" /\ todo = <<>> /\ reply = NoReply
  /\ pc' = "idle" /\ job' = NoJob
  /\ UNCHANGED <<file, records, journal_sequence, book, order_replies, control_replies,
                 todo, reply, observed, crashes, errors>>

\* What an append that does not return normally may have left in the file.
Unfinished == {file, Append(file, Stored(Head(todo), TRUE)), Append(file, Stored(Head(todo), FALSE))}

\* Journal::append() throws after journal_sequence_ was advanced.  The worker
\* reports an error and goes on with the book as it is; a worker that is being
\* constructed is dropped.
AppendError ==
  /\ errors < MaxErrors /\ crashes + errors < MaxFaults
  /\ pc \in {"work", "restore"} /\ todo # <<>>
  /\ file' \in Unfinished
  /\ journal_sequence' = journal_sequence + 1
  /\ pc' = IF pc = "work" THEN "idle" ELSE "down"
  /\ job' = NoJob /\ todo' = <<>> /\ reply' = NoReply
  /\ errors' = errors + 1
  /\ UNCHANGED <<records, book, order_replies, control_replies, observed, crashes>>

\* Mistake: append() returns without fdatasync, the tail may be lost.
CrashFiles_NoSync == {SubSeq(file, 1, n) : n \in 0..Len(file)}

\* What a crash may leave: all that was synced and, while a record is being
\* written, that record, nothing of it or a fragment.
CrashFiles ==
  IF todo = <<>> THEN {file} ELSE {f \in Unfinished : TornWrites \/ f = file \/ Last(f).ok}

\* The process or the host stops; what is in memory is gone.
Crash ==
  /\ crashes + errors < MaxFaults
  /\ pc # "down"
  /\ file' \in CrashFiles
  /\ records' = <<>> /\ journal_sequence' = 0
  /\ book' = EmptyBook /\ order_replies' = {} /\ control_replies' = {}
  /\ pc' = "down" /\ job' = NoJob /\ todo' = <<>> /\ reply' = NoReply
  /\ crashes' = crashes + 1
  /\ UNCHANGED <<observed, errors>>

\* The worker waits for a job.
Wait == pc = "idle" /\ UNCHANGED vars

Next ==
  \/ Restart \/ RestartRefused \/ RestoreDone
  \/ \E r \in Requests : AnswerAgain(r) \/ Accept(r) \/ AnswerControl(r)
  \/ AppendRecord \/ Reply \/ NoResponse \/ AppendError
  \/ Crash \/ Wait

Spec == Init /\ [][Next]_vars

\* The worker thread keeps running, and a container that stopped is started
\* again (restart: unless-stopped) and meets a request for the pair.
FairSpec == Spec /\ WF_vars(Restart) /\ WF_vars(RestoreDone) /\ WF_vars(AppendRecord) /\ WF_vars(Reply)
-----------------------------------------------------------------------------
(* Properties. *)

\* The records before the first fragment, what an operator can still read.
Whole(f) == SubSeq(f, 1, CHOOSE n \in 0..Len(f) :
                           /\ \A i \in 1..n : f[i].ok
                           /\ n = Len(f) \/ ~f[n + 1].ok)

\* Stopping an idle engine at any moment and starting it again gives the same
\* book and the same cached replies, so a command is never executed twice, as long
\* as no append has failed: after a failed append the worker keeps what it has done.
RestartRebuilds ==
  pc = "idle" /\ errors = 0 =>
    LET r == RestoreFrom(file) IN
    /\ Restorable(file)
    /\ r.book = book
    /\ r.expect = <<>>
    /\ r.orders = order_replies
    /\ r.controls = {e \in control_replies : \E c \in Cancels : c.id = e[1]}

\* Every order and cancel that was answered can be recovered from the journal
\* with that answer, however often the engine stopped since.  It is not so after a
\* failed append, whose sequence number is lost while the worker goes on.
AnswersInJournal ==
  LET r == RestoreFrom(Whole(file)) IN
  errors = 0 => \A a \in answers :
    /\ a[1].kind \in {"order", "cancel"} => Restorable(Whole(file))
    /\ a[1].kind = "order"  => <<a[1].id, a[2]>> \in r.orders
    /\ a[1].kind = "cancel" => <<a[1].id, a[2]>> \in r.controls

ReplyStable ==
  \A a, b \in answers : a[1] = b[1] /\ a[1].kind \in {"order", "cancel"} => a[2] = b[2]

OneTradePerSequence ==
  \A e, f \in published :
    e.kind = "trade_event" /\ f.kind = "trade_event" /\ e.data[1] = f.data[1] => e = f

\* The outside world sees one history, across crashes and failed appends: a
\* command gets one answer however often it is sent, and two trades never share
\* the sequence by which consumers tell trades apart.  restore() refuses a
\* journal rather than continue another history.
OneHistory == ReplyStable /\ OneTradePerSequence

Fragmented == \E i \in DOMAIN file : ~file[i].ok

\* After a crash that left no fragment the partition always comes back, however
\* often it crashes again while it restores, as long as no fragment is left then
\* and no append fails.
ComesBack == (pc = "down" /\ ~Fragmented /\ errors = 0) ~> (pc = "idle" \/ Fragmented \/ errors > 0)
=============================================================================
