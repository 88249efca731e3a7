----------------------------- MODULE Withdrawals -----------------------------
(***************************************************************************)
(* The withdrawals of one customer, from the request to the custody        *)
(* provider and back:                                                      *)
(*   - datamanager.Manager: RequestWithdrawal, ApproveWithdrawal,          *)
(*     CancelWithdrawal, BeginWithdrawalDispatch, MarkWithdrawalSubmitted, *)
(*     RecordWithdrawalCustodyUpdate; each is one transaction that locks   *)
(*     the rows it reads, hence one step;                                  *)
(*   - the processes of cmd/withdrawals, which in turn reconcile the open  *)
(*     dispatches and send the approved withdrawals; between two of their  *)
(*     transactions they ask the provider, and they may crash anywhere;    *)
(*   - the deposits worker, which applies the provider's webhooks;         *)
(*   - the custody provider, as far as this code sees it: one transaction  *)
(*     per external id, paid from the customer's vault or failed, lookups, *)
(*     and webhooks that come late, twice or never.                        *)
(*                                                                         *)
(* The ledger is the set of journals of each withdrawal.  One account, one *)
(* asset with an approved capacity route, an active user with KYC; audit   *)
(* rows and outbox events, the address book, and the pause of 30 seconds   *)
(* between two lookups of one withdrawal are left out.                     *)
(***************************************************************************)
EXTENDS Integers, Sequences, FiniteSets, FiniteSetsExt, Functions

CONSTANTS
  Ids,         \* the withdrawals the customer may request
  Amount,      \* amount_atomic of each
  Cost,        \* what it takes from the vault: Cost[w].asset, and Cost[w].gas for a fee in another asset
  OwnAddress,  \* the withdrawals whose destination is a deposit address of this exchange
  Approvers,   \* users with the role treasury_approver
  Processes,   \* running instances of cmd/withdrawals
  Modes,       \* values of the control automatic_withdrawals
  Production,  \* the environment is "production"
  Deposited,   \* credited deposits of the customer
  Grant,       \* test money that may be issued to the customer
  Vault,       \* what the customer's vault holds at the provider at the start
  Outcomes,    \* the final statuses the provider uses
  MaxFaults    \* bound on crashes and lost messages

Kinds    == {"asset", "gas"}
Pending  == {"SUBMITTED", "QUEUED", "PENDING_AUTHORIZATION", "PENDING_SIGNATURE", "BROADCASTING"}
Succeeds == {"COMPLETED", "CONFIRMED"}
Fails    == {"FAILED", "REJECTED", "CANCELLED"}
Final    == {"completed", "failed", "cancelled"}

ASSUME AmountsAssumption ==
  /\ IsFiniteSet(Ids) /\ Amount \in [Ids -> Nat \ {0}]
  /\ Cost \in [Ids -> [Kinds -> Nat]] /\ \A w \in Ids : Cost[w].asset >= Amount[w]
  /\ {Deposited, Grant, MaxFaults} \subseteq Nat /\ Vault \in [Kinds -> Nat]
ASSUME FlagsAssumption ==
  Modes \subseteq BOOLEAN /\ Production \in BOOLEAN /\ OwnAddress \subseteq Ids /\ Outcomes \subseteq Succeeds \cup Fails

VARIABLES
  enabled,     \* operational_controls: withdrawals_enabled
  automatic,   \* operational_controls: automatic_withdrawals
  limits,      \* test_money_control: enabled, withdrawal_limits_ready
  granted,     \* a row of test_money_grants for the customer
  status,      \* withdrawals.status, "none" before the request
  bound,       \* withdrawals whose provider_transaction_id is set
  requested,   \* the withdrawals in the order of their rows
  approvals,   \* table withdrawal_approvals
  journals,    \* the journals of each withdrawal
  dispatches,  \* table withdrawal_dispatches, in the order of its rows
  reserved,    \* table custody_capacity_reservations
  closed,      \* table custody_capacity_terminal_events
  process,     \* what each process is doing
  tx,          \* provider: the transaction of each external id
  calls,       \* provider: how often its creation was asked for
  vault,       \* provider: balances of the vault
  inbox,       \* webhooks received and not yet processed
  faults       \* faults that may still happen

controls == <<enabled, automatic, limits, granted>>
tables   == <<status, bound, requested, approvals, journals, dispatches, reserved, closed>>
provider == <<tx, calls, vault>>
vars     == <<controls, tables, process, provider, inbox, faults>>

Listed(s) == {s[i] : i \in DOMAIN s}
Spend     == faults > 0 /\ faults' = faults - 1

-----------------------------------------------------------------------------
(* The ledger *)

Sum(ws)   == SumFunctionOnSet(Amount, ws)
Posted(k) == {w \in Ids : k \in journals[w]}

Available == Deposited + (IF granted THEN Grant ELSE 0)
             - Sum(Posted("hold")) + Sum(Posted("cancel")) + Sum(Posted("release"))
Held      == Sum(Posted("hold")) - Sum(Posted("cancel")) - Sum(Posted("release")) - Sum(Posted("settlement"))

(* checkWithdrawalEntitlement *)

Enforced == limits \/ granted

\* Mistake: a withdrawal without a provider id is taken as not sent.
Committed_Acknowledged == {w \in bound : "release" \notin journals[w]}

Committed ==
  {w \in Ids : /\ status[w] # "none"
               /\ \/ status[w] \notin {"failed", "cancelled"}
                  \/ journals[w] \cap {"release", "cancel"} = {}}

Entitled(amount) == Enforced => Sum(Committed) + amount <= Deposited

-----------------------------------------------------------------------------
(* Customer, approvers, administrators *)

RequestWithdrawal(w) ==
  /\ enabled
  /\ status[w] = "none"
  /\ Entitled(Amount[w])
  /\ Available >= Amount[w]
  /\ status' = [status EXCEPT ![w] = IF automatic THEN "approved" ELSE "pending_approval"]
  /\ requested' = Append(requested, w)
  /\ journals' = [journals EXCEPT ![w] = {"hold"}]
  /\ UNCHANGED <<controls, bound, approvals, dispatches, reserved, closed, process, provider, inbox, faults>>

EnoughApprovals(n) == n >= 2

ApproveWithdrawal(a, w) ==
  /\ enabled
  /\ status[w] = "pending_approval"
  /\ a \notin approvals[w]
  /\ approvals' = [approvals EXCEPT ![w] = @ \cup {a}]
  /\ status' = IF EnoughApprovals(Cardinality(approvals'[w])) THEN [status EXCEPT ![w] = "approved"] ELSE status
  /\ UNCHANGED <<controls, bound, requested, journals, dispatches, reserved, closed, process, provider, inbox, faults>>

\* Mistake: an approved withdrawal can still be canceled.
Cancellable_Approved(w) == status[w] \in {"pending_approval", "approved"}

Cancellable(w) == status[w] = "pending_approval"

CancelWithdrawal(w) ==
  /\ Cancellable(w)
  /\ status' = [status EXCEPT ![w] = "cancelled"]
  /\ journals' = [journals EXCEPT ![w] = @ \cup {"cancel"}]
  /\ UNCHANGED <<controls, bound, requested, approvals, dispatches, reserved, closed, process, provider, inbox, faults>>

\* The kill switch; how often it is used is bounded with the faults.
DisableWithdrawals ==
  /\ enabled
  /\ Spend
  /\ enabled' = FALSE
  /\ UNCHANGED <<automatic, limits, granted, tables, process, provider, inbox>>

EnableWithdrawals ==
  /\ ~enabled
  /\ enabled' = TRUE
  /\ UNCHANGED <<automatic, limits, granted, tables, process, provider, inbox, faults>>

\* ConfigurePilot turns test money and the withdrawal limits on, for good.
ConfigurePilot ==
  /\ ~limits /\ ~Production
  /\ limits' = TRUE
  /\ UNCHANGED <<enabled, automatic, granted, tables, process, provider, inbox, faults>>

\* Service.Approve posts test money to the account.
IssueTestMoney ==
  /\ limits /\ ~granted
  /\ granted' = TRUE
  /\ UNCHANGED <<enabled, automatic, limits, tables, process, provider, inbox, faults>>

-----------------------------------------------------------------------------
(* MarkWithdrawalSubmitted and RecordWithdrawalCustodyUpdate, as changes of *)
(* status, bound, journals and closed                                       *)

MarkWithdrawalSubmitted(w) ==
  IF status[w] = "approved" /\ w \notin bound
  THEN status' = [status EXCEPT ![w] = "submitted"] /\ bound' = bound \cup {w}
  ELSE UNCHANGED <<status, bound>>

\* Mistake: only FAILED gives the money back.
OutcomeJournal_FailedOnly(s) == IF s = "FAILED" THEN "release" ELSE "settlement"

OutcomeJournal(s) == IF s \in Succeeds THEN "settlement" ELSE "release"

Closes(w) == {w} \cap reserved

Updatable(w, s) ==
  /\ w \in bound
  /\ status[w] \notin Final
  /\ s \in Succeeds \cup Fails

\* A webhook or lookup of an unknown transaction id, of a final row, or with a
\* status that is not final changes nothing but time stamps.
RecordWithdrawalCustodyUpdate(w, s) ==
  IF Updatable(w, s)
  THEN /\ status' = [status EXCEPT ![w] = IF s \in Succeeds THEN "completed" ELSE "failed"]
       /\ journals' = [journals EXCEPT ![w] = @ \cup {OutcomeJournal(s)}]
       /\ closed' = closed \cup Closes(w)
  ELSE UNCHANGED <<status, journals, closed>>

-----------------------------------------------------------------------------
(* The loop of cmd/withdrawals: reconcile, then send *)

NoEvidence == [taken |-> FALSE, asset |-> 0, gas |-> 0]
NoItem     == "none"

\* At op, working on item, with the other withdrawals of the list still to come.
At(op, item, others) == [op |-> op, item |-> item, others |-> others, seen |-> "NONE", evidence |-> NoEvidence]

\* Top of the loop; an error of either part leads back to it.
Restarted == At("reconcile", NoItem, {})
Listing   == At("list", NoItem, {})

\* A list is taken in the order of the rows of its table.
First(rows, list) ==
  {w \in list : \E i \in DOMAIN rows : rows[i] = w /\ \A k \in 1..(i - 1) : rows[k] \notin list}

NextLookup(list) == IF list = {} THEN {Listing} ELSE {At("lookup", w, list \ {w}) : w \in First(dispatches, list)}
NextItem(list)   == IF list = {} THEN {Restarted} ELSE {At("observe", w, list \ {w}) : w \in First(requested, list)}

In(p, op) == process[p].op = op
Item(p)   == process[p].item
Others(p) == process[p].others
Goto(p, nexts) == \E next \in nexts : process' = [process EXCEPT ![p] = next]
SameItem(p, op) == {At(op, Item(p), Others(p))}

(* Reconciler.RunOnce *)

\* Mistake: only dispatches that were acknowledged are looked up.
Candidates_Acknowledged == (reserved \ closed) \cap bound

\* WithdrawalReconciliationCandidates
Candidates == reserved \ closed

StartReconciliation(p) ==
  /\ In(p, "reconcile")
  /\ Goto(p, NextLookup(Candidates))
  /\ UNCHANGED <<controls, tables, provider, inbox, faults>>

\* FindWithdrawalByExternalID
Lookup(p) ==
  /\ In(p, "lookup")
  /\ Goto(p, {[process[p] EXCEPT !.op = IF tx[Item(p)] = "NONE" THEN "record" ELSE "mark", !.seen = tx[Item(p)]]})
  /\ UNCHANGED <<controls, tables, provider, inbox, faults>>

BindFound(p) ==
  /\ In(p, "mark")
  /\ MarkWithdrawalSubmitted(Item(p))
  /\ Goto(p, {[process[p] EXCEPT !.op = "record"]})
  /\ UNCHANGED <<controls, requested, approvals, journals, dispatches, reserved, closed, provider, inbox, faults>>

\* RecordWithdrawalReconciliationObservation keeps the observation unless the
\* dispatch was closed meanwhile.
RecordObservation(p) ==
  /\ In(p, "record")
  /\ Goto(p, IF Item(p) \in closed \/ process[p].seen = "NONE" THEN NextLookup(Others(p))
             ELSE {[process[p] EXCEPT !.op = "update"]})
  /\ UNCHANGED <<controls, tables, provider, inbox, faults>>

ApplyObservation(p) ==
  /\ In(p, "update")
  /\ RecordWithdrawalCustodyUpdate(Item(p), process[p].seen)
  /\ Goto(p, NextLookup(Others(p)))
  /\ UNCHANGED <<controls, bound, requested, approvals, dispatches, reserved, provider, inbox, faults>>

(* Worker.RunOnce *)

\* Mistake: the row of the dispatch is not looked for.
Claimable_Again(w) == status[w] = "approved" /\ w \notin bound

Claimable(w) == status[w] = "approved" /\ w \notin bound /\ w \notin Listed(dispatches)

ApprovedWithdrawals == {w \in Ids : Claimable(w)}

StartSending(p) ==
  /\ In(p, "list")
  /\ Goto(p, NextItem(ApprovedWithdrawals))
  /\ UNCHANGED <<controls, tables, provider, inbox, faults>>

CapacityRequired == Enforced \/ Production

\* WithdrawalCapacityRoute, and the balances if capacity has to be reserved.
Observe(p) ==
  /\ In(p, "observe")
  /\ Goto(p, {[process[p] EXCEPT !.op = "begin", !.evidence =
       IF CapacityRequired THEN [taken |-> TRUE, asset |-> vault.asset, gas |-> vault.gas] ELSE NoEvidence]})
  /\ UNCHANGED <<controls, tables, provider, inbox, faults>>

OpenCapacity(k) == MapThenSumSet(LAMBDA w : Cost[w][k], reserved \ closed)

HasCapacity(w, e) == \A k \in Kinds : OpenCapacity(k) + Cost[w][k] <= e[k]

HoldPosted(w) == journals[w] = {"hold"} /\ Held >= Amount[w]

\* The errors that BeginWithdrawalDispatch returns for a withdrawal it could claim.
Dispatchable(w, e) ==
  /\ HoldPosted(w)
  /\ Enforced => e.taken
  /\ e.taken => HasCapacity(w, e)

DispatchAllowed == enabled /\ Entitled(0)

\* BeginWithdrawalDispatch gives this process, and no other, the right to call.
BeginDispatch(p) ==
  LET w == Item(p)   e == process[p].evidence
  IN /\ In(p, "begin")
     /\ DispatchAllowed /\ Claimable(w) /\ Dispatchable(w, e)
     /\ dispatches' = Append(dispatches, w)
     /\ reserved' = IF e.taken THEN reserved \cup {w} ELSE reserved
     /\ Goto(p, SameItem(p, "call"))
     /\ UNCHANGED <<controls, status, bound, requested, approvals, journals, closed, provider, inbox, faults>>

\* Someone else was faster: the next withdrawal.
SkipDispatch(p) ==
  /\ In(p, "begin")
  /\ DispatchAllowed /\ ~Claimable(Item(p))
  /\ Goto(p, NextItem(Others(p)))
  /\ UNCHANGED <<controls, tables, provider, inbox, faults>>

\* Any error ends the pass over all withdrawals.
DispatchError(p) ==
  /\ In(p, "begin")
  /\ \/ ~DispatchAllowed
     \/ Claimable(Item(p)) /\ ~Dispatchable(Item(p), process[p].evidence)
  /\ Goto(p, {Restarted})
  /\ UNCHANGED <<controls, tables, provider, inbox, faults>>

\* The provider creates one transaction per external id.
Created(w) == /\ calls' = [calls EXCEPT ![w] = @ + 1]
              /\ tx' = [tx EXCEPT ![w] = IF @ = "NONE" THEN "SUBMITTED" ELSE @]
              /\ UNCHANGED vault

CreateWithdrawal(p) ==
  /\ In(p, "call")
  /\ Created(Item(p))
  /\ Goto(p, SameItem(p, "ack"))
  /\ UNCHANGED <<controls, tables, inbox, faults>>

\* The answer of the provider is lost.
LostAnswer(p) ==
  /\ In(p, "call")
  /\ Spend
  /\ Created(Item(p))
  /\ Goto(p, {Restarted})
  /\ UNCHANGED <<controls, tables, inbox>>

Acknowledge(p) ==
  /\ In(p, "ack")
  /\ MarkWithdrawalSubmitted(Item(p))
  /\ Goto(p, NextItem(Others(p)))
  /\ UNCHANGED <<controls, requested, approvals, journals, dispatches, reserved, closed, provider, inbox, faults>>

\* A crash, a failed lookup or observation, a request that does not reach the
\* provider, evidence that is too old: the loop starts again.
CrashOrError(p) ==
  /\ ~In(p, "reconcile")
  /\ Spend
  /\ Goto(p, {Restarted})
  /\ UNCHANGED <<controls, tables, provider, inbox>>

-----------------------------------------------------------------------------
(* The provider and its webhooks *)

Pays(w, s) ==
  /\ tx[w] \in Pending
  /\ \A k \in Kinds : vault[k] >= Cost[w][k]
  /\ tx' = [tx EXCEPT ![w] = s]
  /\ vault' = [k \in Kinds |-> vault[k] - Cost[w][k]]

DoesNotPay(w, s) ==
  /\ tx[w] \in Pending
  /\ tx' = [tx EXCEPT ![w] = s]
  /\ UNCHANGED vault

ProviderDecides(w) ==
  /\ \/ \E s \in Outcomes \cap Succeeds : Pays(w, s)
     \/ \E s \in Outcomes \cap Fails : DoesNotPay(w, s)
  /\ inbox' = inbox \cup {[id |-> w, status |-> tx'[w]]}
  /\ UNCHANGED <<controls, tables, process, calls, faults>>

DepositStatus(s) == s \in {"CONFIRMING", "COMPLETED", "FAILED", "REJECTED"}

\* A deposit status for an address that is not a deposit address ends the
\* processing of the webhook; every other one goes on to the withdrawals.  The
\* deposit that a transfer to a deposit address also makes is left out.
ApplyWebhook(m) ==
  /\ IF DepositStatus(m.status) /\ m.id \notin OwnAddress
     THEN UNCHANGED <<status, journals, closed>>
     ELSE RecordWithdrawalCustodyUpdate(m.id, m.status)
  /\ UNCHANGED <<controls, bound, requested, approvals, dispatches, reserved, process, provider>>

ProcessWebhook(m) ==
  /\ ApplyWebhook(m)
  /\ inbox' = inbox \ {m}
  /\ UNCHANGED faults

\* The worker crashes before the receipt is marked: the webhook is processed again.
ProcessWebhookAgain(m) ==
  /\ ApplyWebhook(m)
  /\ Spend
  /\ UNCHANGED inbox

LoseWebhook(m) ==
  /\ Spend
  /\ inbox' = inbox \ {m}
  /\ UNCHANGED <<controls, tables, process, provider>>

-----------------------------------------------------------------------------
Init ==
  /\ enabled = TRUE /\ automatic \in Modes /\ limits = FALSE /\ granted = FALSE
  /\ status = [w \in Ids |-> "none"] /\ bound = {} /\ requested = <<>>
  /\ approvals = [w \in Ids |-> {}] /\ journals = [w \in Ids |-> {}]
  /\ dispatches = <<>> /\ reserved = {} /\ closed = {}
  /\ process = [p \in Processes |-> Restarted]
  /\ tx = [w \in Ids |-> "NONE"] /\ calls = [w \in Ids |-> 0] /\ vault = Vault
  /\ inbox = {} /\ faults = MaxFaults

People ==
  \/ \E w \in Ids : RequestWithdrawal(w) \/ CancelWithdrawal(w) \/ \E a \in Approvers : ApproveWithdrawal(a, w)
  \/ DisableWithdrawals \/ EnableWithdrawals \/ ConfigurePilot \/ IssueTestMoney

Step(p) ==
  \/ StartReconciliation(p) \/ Lookup(p) \/ BindFound(p) \/ RecordObservation(p) \/ ApplyObservation(p)
  \/ StartSending(p) \/ Observe(p) \/ BeginDispatch(p) \/ SkipDispatch(p) \/ DispatchError(p)
  \/ CreateWithdrawal(p) \/ Acknowledge(p)

Outside ==
  \/ \E p \in Processes : LostAnswer(p) \/ CrashOrError(p)
  \/ \E w \in Ids : ProviderDecides(w)
  \/ \E m \in inbox : ProcessWebhook(m) \/ ProcessWebhookAgain(m) \/ LoseWebhook(m)

Next == People \/ Outside \/ \E p \in Processes : Step(p)

Spec == Init /\ [][Next]_vars

\* cmd/withdrawals is an endless loop.
FairSpec == Spec /\ \A p \in Processes : WF_vars(Step(p))

-----------------------------------------------------------------------------
(* Correctness *)

Process == [op: {"reconcile", "list", "lookup", "mark", "record", "update", "observe", "begin", "call", "ack"},
            item: Ids \cup {NoItem}, others: SUBSET Ids, seen: {"NONE"} \cup Pending \cup Succeeds \cup Fails,
            evidence: [taken: BOOLEAN, asset: Nat, gas: Nat]]

\* The type invariant of the tables and of the processes.
TypeOK ==
  /\ {enabled, automatic, limits, granted} \subseteq BOOLEAN
  /\ status \in [Ids -> {"none", "pending_approval", "approved", "submitted"} \cup Final]
  /\ bound \subseteq Ids /\ reserved \subseteq Ids /\ closed \subseteq reserved
  /\ approvals \in [Ids -> SUBSET Approvers]
  /\ journals \in [Ids -> SUBSET {"hold", "cancel", "release", "settlement"}]
  /\ requested \in Seq(Ids) /\ dispatches \in Seq(Ids)
  /\ process \in [Processes -> Process]
  /\ tx \in [Ids -> {"NONE"} \cup Pending \cup Succeeds \cup Fails]
  /\ calls \in [Ids -> Nat] /\ vault \in [Kinds -> Nat] /\ faults \in 0..MaxFaults

\* A withdrawal has exactly the journals its status calls for: whoever comes
\* first of customer, webhook and reconciler, the hold is ended once.
LedgerFollowsStatus ==
  \A w \in Ids : journals[w] = CASE status[w] = "none"      -> {}
                               [] status[w] = "cancelled" -> {"hold", "cancel"}
                               [] status[w] = "failed"    -> {"hold", "release"}
                               [] status[w] = "completed" -> {"hold", "settlement"}
                               [] OTHER                   -> {"hold"}

\* The provider is asked at most once to pay a withdrawal, with several
\* processes, crashes after the commit of BeginWithdrawalDispatch and lost answers.
CalledOnce == \A w \in Ids : calls[w] <= 1

\* The ledger never contradicts the provider: a settled withdrawal was paid, a
\* released one was not and never will be, a canceled one was never sent.
OutcomeIsTrue ==
  \A w \in Ids : /\ "settlement" \in journals[w] => tx[w] \in Succeeds
                 /\ "release" \in journals[w] => tx[w] \in Fails
                 /\ "cancel" \in journals[w] => tx[w] = "NONE" /\ w \notin Listed(dispatches)

\* Test money does not leave: what was paid, or may still be, is covered by the
\* customer's credited deposits.
PaidFromDeposits == Sum({w \in Ids : tx[w] \in Pending \cup Succeeds}) <= Deposited

\* Without the automatic mode the provider is only asked to pay what two
\* different approvers approved.
DualControl == \A w \in Ids : calls[w] > 0 => automatic \/ Cardinality(approvals[w]) >= 2

\* What the provider has decided about a dispatch with a reservation reaches the
\* ledger, even if the answer and every webhook are lost.
OutcomeReachesLedger ==
  \A w \in Ids : (tx[w] \in Succeeds \cup Fails /\ w \in reserved) ~> status[w] \in Final
=============================================================================
