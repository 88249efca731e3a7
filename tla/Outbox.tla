------------------------------- MODULE Outbox -------------------------------
(***************************************************************************)
(* How a committed event reaches the queue of its worker: the table        *)
(* outbox_events, the publishers that lease its rows (internal/outbox),    *)
(* the queues (internal/platform/queue) and the router that copies events  *)
(* from the shared queue (internal/eventrouter).                           *)
(*                                                                         *)
(* A queue is the set of the events it holds.  A message that has been     *)
(* received may be received again at any time until it is deleted, because *)
(* its visibility timeout may pass.  The router ends its batch at the      *)
(* first error, and takes messages one by one here: no event is refused by *)
(* it.  The processes may stop between any two calls.                      *)
(***************************************************************************)
EXTENDS Integers, Sequences, FiniteSets, FiniteSetsExt

CONSTANTS
  Scenarios,   \* sequences of the events that are committed: [type, ref]
  Length,      \* bound on their length
  Publishers,  \* processes of cmd/outbox
  BatchSize,   \* rows leased at once
  MaxFaults    \* bound on the failures

ASSUME OutboxAssumption ==
  /\ BatchSize \in Nat \ {0} /\ MaxFaults \in Nat
  /\ Length \in Nat /\ \A s \in Scenarios : Len(s) \in 0..Length

VARIABLES
  produced,  \* the events of this run
  outbox,    \* rows of outbox_events, in the order of occurred_at
  batch,     \* leased rows that each publisher has to deal with: <<id, token>>
  sent,      \* whether the first of them, the oldest, has been published
  queue,     \* messages in each queue
  router,    \* event that the router has copied and not deleted, or 0
  faults     \* failures so far

outboxVars == <<produced, outbox, batch, sent, queue, router, faults>>

Ids    == 1..Length
Queues == {"source", "deposits", "notifications", "unrouted"}

Fault == faults < MaxFaults /\ faults' = faults + 1

\* RoutedEventTypes.  "deposit" and "security" stand for the types that the worker treats
\* alike; "enabled" and "cleared" are those of the anti-phishing code.
RoutedEventTypes == {"email", "deposit", "transfer", "security", "enabled", "cleared"}

Enqueue ==
  /\ Len(outbox) < Len(produced)
  /\ outbox' = Append(outbox, [published |-> FALSE, lease |-> "none", token |-> 0])
  /\ UNCHANGED <<produced, batch, sent, queue, router, faults>>

-----------------------------------------------------------------------------
(* Publisher *)

\* Mistake: only rows that were never leased.
Leasable_Fresh == {i \in DOMAIN outbox : ~outbox[i].published /\ outbox[i].lease = "none"}

Leasable == {i \in DOMAIN outbox : ~outbox[i].published /\ outbox[i].lease # "held"}

\* The oldest rows, each under a new token.
LeaseOutbox(p) ==
  LET ids == {i \in Leasable : Cardinality({j \in Leasable : j < i}) < BatchSize} IN
  /\ batch[p] = {} /\ ids # {}
  /\ outbox' = [i \in DOMAIN outbox |->
       IF i \in ids THEN [outbox[i] EXCEPT !.lease = "held", !.token = @ + 1] ELSE outbox[i]]
  /\ batch' = [batch EXCEPT ![p] = {<<i, outbox[i].token + 1>> : i \in ids}]
  /\ UNCHANGED <<produced, sent, queue, router, faults>>

\* The events are published in the order in which the rows were read.
First(p) == CHOOSE e \in batch[p] : \A f \in batch[p] : e[1] <= f[1]

Publish(p) ==
  /\ batch[p] # {} /\ ~sent[p]
  /\ queue' = [queue EXCEPT !["source"] = @ \cup {First(p)[1]}]
  /\ sent' = [sent EXCEPT ![p] = TRUE]
  /\ UNCHANGED <<produced, outbox, batch, router, faults>>

\* The row is marked unless another lease has taken it over.
MarkOutboxPublished(p) ==
  LET i == First(p)[1]
      mine == outbox[i].token = First(p)[2] /\ ~outbox[i].published IN
  /\ sent[p]
  /\ outbox' = IF mine THEN [outbox EXCEPT ![i] = [@ EXCEPT !.published = TRUE, !.lease = "none"]] ELSE outbox
  /\ batch' = [batch EXCEPT ![p] = @ \ {First(p)}]
  /\ sent' = [sent EXCEPT ![p] = FALSE]
  /\ UNCHANGED <<produced, queue, router, faults>>

\* RunOnce returns at the first error, or the process ends: what is left stays leased.
PublisherStops(p) ==
  /\ batch[p] # {} /\ Fault
  /\ batch' = [batch EXCEPT ![p] = {}] /\ sent' = [sent EXCEPT ![p] = FALSE]
  /\ UNCHANGED <<produced, outbox, queue, router>>

HasHolder(i) == \E p \in Publishers : <<i, outbox[i].token>> \in batch[p]

\* Two minutes pass.
LeaseExpires(i) ==
  /\ outbox[i].lease = "held"
  /\ IF HasHolder(i) THEN Fault ELSE UNCHANGED faults
  /\ outbox' = [outbox EXCEPT ![i].lease = "expired"]
  /\ UNCHANGED <<produced, batch, sent, queue, router>>

-----------------------------------------------------------------------------
(* Router *)

Destination(type) ==
  CASE type = "webhook" -> "deposits"
    [] type \in RoutedEventTypes -> "notifications"
    [] OTHER -> "unrouted"

\* Mistake: an event without a worker is not kept.
Copied_Known(i) ==
  IF Destination(produced[i].type) = "unrouted" THEN queue
  ELSE [queue EXCEPT ![Destination(produced[i].type)] = @ \cup {i}]

Copied(i) == [queue EXCEPT ![Destination(produced[i].type)] = @ \cup {i}]

\* The copy is accepted before the source is acknowledged.
Route(i) ==
  /\ router = 0 /\ i \in queue["source"]
  /\ queue' = Copied(i) /\ router' = i
  /\ UNCHANGED <<produced, outbox, batch, sent, faults>>

RouteDelete ==
  /\ router # 0
  /\ queue' = [queue EXCEPT !["source"] = @ \ {router}] /\ router' = 0
  /\ UNCHANGED <<produced, outbox, batch, sent, faults>>

RouterStops ==
  /\ router # 0 /\ Fault /\ router' = 0
  /\ UNCHANGED <<produced, outbox, batch, sent, queue>>

-----------------------------------------------------------------------------
OutboxInit ==
  /\ produced \in Scenarios /\ outbox = <<>>
  /\ batch = [p \in Publishers |-> {}] /\ sent = [p \in Publishers |-> FALSE]
  /\ queue = [q \in Queues |-> {}] /\ router = 0 /\ faults = 0

RunPublisher(p) == LeaseOutbox(p) \/ Publish(p) \/ MarkOutboxPublished(p)
RunRouter       == (\E i \in Ids : Route(i)) \/ RouteDelete

OutboxNext ==
  \/ Enqueue \/ RunRouter \/ RouterStops
  \/ \E p \in Publishers : RunPublisher(p) \/ PublisherStops(p)
  \/ \E i \in DOMAIN outbox : LeaseExpires(i)

\* The processes run in loops; a lease ends in two minutes.
OutboxFairness ==
  /\ \A p \in Publishers : WF_outboxVars(RunPublisher(p))
  /\ WF_outboxVars(RunRouter)
  /\ WF_outboxVars(\E i \in DOMAIN outbox : ~HasHolder(i) /\ LeaseExpires(i))

-----------------------------------------------------------------------------
\* The event is somewhere: in the table, with a publisher, or in a queue.
Somewhere(i) ==
  \/ ~outbox[i].published
  \/ \E p \in Publishers : \E e \in batch[p] : e[1] = i /\ ~(sent[p] /\ e = First(p))
  \/ \E q \in Queues : i \in queue[q]
=============================================================================
