--------------------------- MODULE Notifications ---------------------------
(***************************************************************************)
(* The notification worker (internal/notifications) at the end of the      *)
(* event pipeline, with the customer's requests about notifications.       *)
(* A notification is a row of its customer, event type and reference; its  *)
(* deliveries by mail and push are marked one by one.                      *)
(*                                                                         *)
(* A worker receives a batch of messages, in any order, and ends it at the *)
(* first message that it cannot process: that one and those behind it stay *)
(* in the queue and come back when their visibility timeout has passed.  A *)
(* message whose ciphertext was sealed with another key is deleted.        *)
(*                                                                         *)
(* Left out: texts, codes in the mails, and counters of attempts.  What    *)
(* reads an event from the queue of the deposit worker is in Deposits.     *)
(***************************************************************************)
EXTENDS Outbox, Functions

CONSTANTS
  Consumers,   \* processes of cmd/notifications
  Customers,   \* customers
  Party,       \* recipients of an event with this reference, in order
  Unreadable,  \* references and customers whose code was sealed with another key
  MaxMessages, \* messages received at once
  MaxCalls     \* bound on the customers' requests

ASSUME NotificationsAssumption == MaxMessages \in Nat

VARIABLES
  frozen,      \* customers who are not active
  expired,     \* events whose code has expired
  rows,        \* table notifications: <<user, type, ref>>
  read,        \* rows with read_at
  device,      \* owner of the device's token in notification_devices, or "nobody"
  delivered,   \* notification_deliveries with delivered_at: <<row, channel>>
  hidden,      \* messages of the queue whose visibility timeout runs
  inbox,       \* messages that each process has received and not begun
  consumer,    \* where each process is
  handled,     \* events that a worker has finished with
  calls

notificationVars == <<frozen, expired, rows, read, device, delivered, hidden, inbox, consumer, handled, calls>>
pipelineVars == <<outboxVars, notificationVars>>

Idle == [pc |-> "idle", id |-> 0, todo |-> <<>>]

Row(u, i) == <<u, produced[i].type, produced[i].ref>>

AllRows == {<<u, e.type, e.ref>> : u \in Customers, e \in {produced[i] : i \in DOMAIN produced}}

-----------------------------------------------------------------------------
(* Worker *)

\* Priority and whether mail is required.
notificationPriority(type) ==
  CASE type \in {"security", "enabled", "cleared"} -> <<"urgent", TRUE>>
    [] type = "deposit"  -> <<"high", TRUE>>
    [] type = "transfer" -> <<"normal", FALSE>>

\* The types that have a text: the removal of the anti-phishing code has none.
TemplateForEvent(type) == type \in RoutedEventTypes \ {"email", "cleared"}

\* A transfer has two parties, and those who are frozen are left out; in
\* other cases a frozen recipient is an error.
NotificationRecipients(i) ==
  LET p == Party[produced[i].ref]
      active == SelectSeq(p, LAMBDA u : u \notin frozen) IN
  IF produced[i].type = "transfer" \/ active = p THEN active ELSE <<>>

NotificationDeviceRecipients(u) == IF device = u THEN <<"push">> ELSE <<>>

\* "message authentication failed": a ciphertext of the event, or of its customer, cannot be opened.
Open(x) == x \notin Unreadable

\* processNotification returns an error before it has done anything.
Refused(i) ==
  /\ produced[i].type # "email"
  /\ \/ ~TemplateForEvent(produced[i].type)
     \/ ~(produced[i].type = "enabled" /\ ~Open(produced[i].ref)) /\ NotificationRecipients(i) = <<>>

\* As many messages as there are, up to the limit, in any order.
Batches(ms) ==
  {s \in UNION {[1..n -> ms] : n \in 1..MaxMessages} : IsInjective(s) /\ (Len(s) = MaxMessages \/ Range(s) = ms)}

Receive(c) ==
  /\ consumer[c].pc = "idle" /\ inbox[c] = <<>>
  /\ \E ms \in Batches(queue["notifications"] \ hidden) :
       inbox' = [inbox EXCEPT ![c] = ms] /\ hidden' = hidden \cup Range(ms)
  /\ UNCHANGED <<outboxVars, frozen, expired, rows, read, device, delivered, consumer, handled, calls>>

Closed(c) == consumer' = [consumer EXCEPT ![c].pc = "delete"] /\ handled' = handled \cup {consumer[c].id}

\* RunOnce returns the error; what is left of the batch comes back later.
Refuse(c) ==
  /\ consumer[c].pc = "idle" /\ inbox[c] # <<>> /\ Refused(Head(inbox[c]))
  /\ inbox' = [inbox EXCEPT ![c] = <<>>]
  /\ UNCHANGED <<outboxVars, frozen, expired, rows, read, device, delivered, hidden, consumer, handled, calls>>

\* Nobody is told of what cannot be opened, and a code that cannot be used any more is dropped.
Dropped(i) == produced[i].type \in {"email", "enabled"} /\ (~Open(produced[i].ref) \/ i \in expired)

processNotification(i) ==
  IF produced[i].type = "email" THEN [Idle EXCEPT !.pc = "code", !.id = i]
  ELSE [pc |-> "create", id |-> i, todo |-> NotificationRecipients(i)]

Process(c) ==
  LET i == Head(inbox[c]) IN
  /\ consumer[c].pc = "idle" /\ inbox[c] # <<>> /\ ~Refused(i)
  /\ inbox' = [inbox EXCEPT ![c] = Tail(@)]
  /\ \/ /\ Dropped(i) /\ handled' = handled \cup {i}
        /\ consumer' = [consumer EXCEPT ![c] = [Idle EXCEPT !.pc = "delete", !.id = i]]
     \/ /\ ~Dropped(i) /\ UNCHANGED handled
        /\ consumer' = [consumer EXCEPT ![c] = processNotification(i)]
  /\ UNCHANGED <<outboxVars, frozen, expired, rows, read, device, delivered, hidden, calls>>

\* The mail with the code; nothing remembers that it was sent.
SendCode(c) ==
  /\ consumer[c].pc = "code" /\ Closed(c)
  /\ UNCHANGED <<outboxVars, frozen, expired, rows, read, device, delivered, hidden, inbox, calls>>

\* A row that exists is kept with its read_at.
ReadAfter(r) == read

CreateNotification(c) ==
  LET u == Head(consumer[c].todo) IN
  /\ consumer[c].pc = "create"
  /\ rows' = rows \cup {Row(u, consumer[c].id)} /\ read' = ReadAfter(Row(u, consumer[c].id))
  /\ consumer' = [consumer EXCEPT ![c].pc = "email"]
  /\ UNCHANGED <<outboxVars, frozen, expired, device, delivered, hidden, inbox, handled, calls>>

NotificationDeliveryComplete(r, channel) == <<r, channel>> \in delivered

\* The channels of a recipient: the mail, then the device.
Wanted(c, channel) ==
  LET u == Head(consumer[c].todo)
      p == notificationPriority(produced[consumer[c].id].type) IN
  /\ CASE channel = "email" -> p[2] [] channel = "push" -> p[1] = "urgent" /\ NotificationDeviceRecipients(u) # <<>>
  /\ ~NotificationDeliveryComplete(Row(u, consumer[c].id), channel)

After(channel) == IF channel = "email" THEN "push" ELSE "next"

Skip(c, channel) ==
  /\ consumer[c].pc = channel /\ ~Wanted(c, channel)
  /\ consumer' = [consumer EXCEPT ![c].pc = After(channel)]
  /\ UNCHANGED <<outboxVars, frozen, expired, rows, read, device, delivered, hidden, inbox, handled, calls>>

\* SendTransactionalEmail or SendPush; until it is marked only the process knows.
Deliver(c, channel) ==
  /\ consumer[c].pc = channel /\ Wanted(c, channel) /\ (channel = "email" => Open(Head(consumer[c].todo)))
  /\ consumer' = [consumer EXCEPT ![c].pc = IF channel = "email" THEN "mailed" ELSE "pushed"]
  /\ UNCHANGED <<outboxVars, frozen, expired, rows, read, device, delivered, hidden, inbox, handled, calls>>

MarkNotificationDeliveryComplete(c, channel) ==
  /\ consumer[c].pc = (IF channel = "email" THEN "mailed" ELSE "pushed")
  /\ delivered' = delivered \cup {<<Row(Head(consumer[c].todo), consumer[c].id), channel>>}
  /\ consumer' = [consumer EXCEPT ![c].pc = After(channel)]
  /\ UNCHANGED <<outboxVars, frozen, expired, rows, read, device, hidden, inbox, handled, calls>>

\* The anti-phishing code that belongs in the mail cannot be opened: the message is given up.
GiveUp(c) ==
  /\ consumer[c].pc = "email" /\ Wanted(c, "email") /\ ~Open(Head(consumer[c].todo)) /\ Closed(c)
  /\ UNCHANGED <<outboxVars, frozen, expired, rows, read, device, delivered, hidden, inbox, calls>>

\* The next recipient, or the end of processNotification.
NextRecipient(c) ==
  /\ consumer[c].pc = "next"
  /\ IF Len(consumer[c].todo) > 1
     THEN consumer' = [consumer EXCEPT ![c].pc = "create", ![c].todo = Tail(@)] /\ UNCHANGED handled
     ELSE Closed(c)
  /\ UNCHANGED <<outboxVars, frozen, expired, rows, read, device, delivered, hidden, inbox, calls>>

Delete(c) ==
  /\ consumer[c].pc = "delete"
  /\ queue' = [queue EXCEPT !["notifications"] = @ \ {consumer[c].id}] /\ hidden' = hidden \ {consumer[c].id}
  /\ consumer' = [consumer EXCEPT ![c] = Idle]
  /\ UNCHANGED <<produced, outbox, batch, sent, router, faults, frozen, expired, rows, read, device, delivered, inbox, handled, calls>>

\* A call fails, or the process ends; the messages will be received again.
ConsumerStops(c) ==
  /\ consumer[c].pc # "idle" /\ Fault
  /\ consumer' = [consumer EXCEPT ![c] = Idle] /\ inbox' = [inbox EXCEPT ![c] = <<>>]
  /\ UNCHANGED <<produced, outbox, batch, sent, queue, router, frozen, expired, rows, read, device, delivered, hidden, handled, calls>>

InHand(i) == \E c \in Consumers : i \in Range(inbox[c]) \/ (consumer[c].pc # "idle" /\ consumer[c].id = i)

\* A minute passes.
Reappear(i) ==
  /\ i \in hidden /\ hidden' = hidden \ {i}
  /\ IF InHand(i) THEN Fault ELSE UNCHANGED faults
  /\ UNCHANGED <<produced, outbox, batch, sent, queue, router, frozen, expired, rows, read, device, delivered, inbox, consumer, handled, calls>>

\* The deposit worker finishes with a receipt: MarkWebhookProcessed, then Delete.
DepositWorker(i) ==
  /\ i \in queue["deposits"]
  /\ IF i \in handled
     THEN queue' = [queue EXCEPT !["deposits"] = @ \ {i}] /\ UNCHANGED handled
     ELSE handled' = handled \cup {i} /\ UNCHANGED queue
  /\ UNCHANGED <<produced, outbox, batch, sent, router, faults, frozen, expired, rows, read, device, delivered, hidden, inbox, consumer, calls>>

-----------------------------------------------------------------------------
(* Customers *)

Call == calls < MaxCalls /\ calls' = calls + 1
Untouched == UNCHANGED <<outboxVars, frozen, expired, delivered, hidden, inbox, consumer, handled>>

MarkNotificationRead(r) == Call /\ r \in rows /\ read' = read \cup {r} /\ UNCHANGED <<rows, device>> /\ Untouched

MarkNotificationUnread(r) == Call /\ r \in rows /\ read' = read \ {r} /\ UNCHANGED <<rows, device>> /\ Untouched

MarkAllNotificationsRead(u) ==
  Call /\ read' = read \cup {r \in rows : r[1] = u} /\ UNCHANGED <<rows, device>> /\ Untouched

\* A customer may store a notification of a routed type; mail types are refused.
CreateByCustomer(r) ==
  /\ Call /\ r[2] \in RoutedEventTypes \ {"email"}
  /\ rows' = rows \cup {r} /\ UNCHANGED <<read, device>> /\ Untouched

\* A token belongs to the last who registered it.
UpsertNotificationDevice(u) == Call /\ device' = u /\ UNCHANGED <<rows, read>> /\ Untouched

CustomerRequest ==
  \/ \E r \in AllRows : MarkNotificationRead(r) \/ MarkNotificationUnread(r) \/ CreateByCustomer(r)
  \/ \E u \in Customers : MarkAllNotificationsRead(u) \/ UpsertNotificationDevice(u)

\* A customer is not active any more.  FreezeUser would do so, but its transaction fails
\* (see SignIn): it is done outside the repository.
Suspend(u) ==
  /\ Call /\ u \notin frozen /\ frozen' = frozen \cup {u}
  /\ UNCHANGED <<outboxVars, expired, rows, read, device, delivered, hidden, inbox, consumer, handled>>

CodeExpires(i) ==
  /\ i \in DOMAIN outbox /\ produced[i].type = "email" /\ i \notin expired /\ expired' = expired \cup {i}
  /\ UNCHANGED <<outboxVars, frozen, rows, read, device, delivered, hidden, inbox, consumer, handled, calls>>

-----------------------------------------------------------------------------
PipelineInit ==
  /\ OutboxInit
  /\ frozen = {} /\ expired = {} /\ rows = {} /\ read = {} /\ device = "nobody" /\ delivered = {}
  /\ hidden = {} /\ inbox = [c \in Consumers |-> <<>>] /\ consumer = [c \in Consumers |-> Idle] /\ handled = {} /\ calls = 0

RunOnce(c) ==
  \/ Receive(c) \/ Refuse(c) \/ Process(c) \/ SendCode(c) \/ CreateNotification(c)
  \/ \E channel \in {"email", "push"} :
       Skip(c, channel) \/ Deliver(c, channel) \/ MarkNotificationDeliveryComplete(c, channel)
  \/ GiveUp(c) \/ NextRecipient(c) \/ Delete(c)

PipelineNext ==
  \/ OutboxNext /\ UNCHANGED notificationVars
  \/ \E c \in Consumers : RunOnce(c) \/ ConsumerStops(c)
  \/ \E i \in DOMAIN produced : DepositWorker(i) \/ CodeExpires(i) \/ Reappear(i)
  \/ CustomerRequest
  \/ \E u \in Customers : Suspend(u)

PipelineSpec == PipelineInit /\ [][PipelineNext]_pipelineVars

\* The processes run in loops, and a visibility timeout ends; the queue returns messages in
\* any order, and may return first, every time, one that is refused.
PipelineFairness ==
  /\ OutboxFairness
  /\ \A c \in Consumers : WF_pipelineVars(RunOnce(c))
  /\ WF_pipelineVars(\E i \in Ids : DepositWorker(i))
  /\ \A i \in Ids : WF_pipelineVars(~InHand(i) /\ Reappear(i))

FairPipelineSpec == PipelineSpec /\ PipelineFairness

-----------------------------------------------------------------------------
(* Properties *)

\* An event that was committed is kept in the table, by a publisher or in a queue
\* until a worker has finished with it, whatever fails between two calls.
Channel == INSTANCE AtLeastOnce WITH
  Events   <- Ids,
  status   <- [i \in Ids |-> IF i > Len(outbox) THEN "none" ELSE IF Somewhere(i) THEN "kept" ELSE "gone"],
  received <- handled

KeptUntilReceived == Channel!Spec

\* The recipient gets the notification, the mail that is required, or the code, unless it expires.
Reached(u, i) ==
  IF produced[i].type = "email" THEN i \in handled
  ELSE /\ Row(u, i) \in rows
       /\ notificationPriority(produced[i].type)[2] => <<Row(u, i), "email">> \in delivered

\* Whoever an event concerns is told: every recipient who is active and whose code, as that
\* of the event, can be opened, although messages fail and their batches end there.  Only a
\* message that the worker refuses for ever, and that comes first every time, prevents it.
Told ==
  \A i \in Ids :
    (i \in DOMAIN outbox /\ produced[i].type \in RoutedEventTypes)
      ~> /\ i \in DOMAIN outbox
         /\ \/ \A u \in Range(Party[produced[i].ref]) :
                 u \in frozen \/ ~Open(u) \/ ~Open(produced[i].ref) \/ Reached(u, i)
            \/ \E j \in queue["notifications"] : Refused(j)

\* A code that was asked for is mailed, or expires and is dropped: no message that the
\* worker cannot process blocks it, which is why the consumer deletes expired codes.
MailsGetThrough ==
  \A i \in Ids : (i \in DOMAIN outbox /\ produced[i].type = "email") ~> (i \in handled)
=============================================================================
