------------------------------ MODULE Deposits ------------------------------
(***************************************************************************)
(* One customer's deposit of one asset: the address he is told             *)
(* (internal/custody), the provider's webhooks about his transfer, the     *)
(* worker that interprets them (internal/deposits), the credit, and the    *)
(* tool that reconciles a transfer with the chain                          *)
(* (cmd/deposit-reconcile-sepolia).                                        *)
(*                                                                         *)
(* A vault is its number and has one address for the asset.  The way of a  *)
(* receipt from the webhook to the worker is the channel of AtLeastOnce: a *)
(* set of receipts, each of which may be delivered until it is deleted.    *)
(* Left out: withdrawals, whose webhooks come the same way (Withdrawals).  *)
(***************************************************************************)
EXTENDS Integers, FiniteSets

CONSTANTS
  Requests,   \* requests for the address, at the same time
  Workers,    \* processes of cmd/deposits
  Reports,    \* what the provider may report: [status, conf, exact, hash, index]
  Required,   \* confirmations the asset requires
  Counts,     \* confirmations the chain may show to the tool
  MaxHooks,   \* bound on the receipts
  MaxStops    \* bound on stops of workers, key changes, expiries and flags

ASSUME DepositsAssumption ==
  /\ Required \in Nat \ {0} /\ Counts \subseteq Nat \ {0} /\ {MaxHooks, MaxStops} \subseteq Nat
  /\ Reports \subseteq [status : STRING, conf : Nat, exact : BOOLEAN, hash : BOOLEAN, index : STRING]

NoIndex == "none"   \* blockchain_index is empty

\* blockchain_index: the reports', or empty as the tool leaves it
Indexes == {NoIndex} \cup {h.index : h \in Reports}

\* A row's key: provider_transaction_id, the provider's or the hash when the tool finds none, and blockchain_index
Rows == {"provider", "hash"} \X Indexes

FinalDeposit == {"credited", "reorged", "rejected"}

VARIABLES
  vaults,    \* vaults the provider has created
  wallet,    \* external_vault_id in custody_wallets, or 0
  address,   \* vault of the row in deposit_addresses, or 0
  request,   \* where each request for the address is
  told,      \* addresses the customer has been told
  paid,      \* address his transfer went to, or 0
  signer,    \* number of the provider's signing key
  jwks,      \* the verifier's copy: [key, fresh]
  receipts,  \* webhook_receipts: "none", "stored" or "processed"
  queue,     \* receipts on the deposit worker's queue
  worker,    \* where each process is
  tool,      \* where the reconciliation is
  deposits,  \* rows of deposits
  credits,   \* journals deposit-credit-<row>
  stops

addressVars == <<vaults, wallet, address, request, told>>
hookVars    == <<signer, jwks, receipts>>
depositVars == <<addressVars, paid, hookVars, queue, worker, tool, deposits, credits, stops>>

Fault == stops < MaxStops /\ stops' = stops + 1

-----------------------------------------------------------------------------
(* The address *)

\* The route is enabled; the address may exist already.
ActiveDepositAddress(r) ==
  /\ request[r].pc = "start"
  /\ IF address # 0
     THEN told' = told \cup {address} /\ request' = [request EXCEPT ![r].pc = "done"]
     ELSE request' = [request EXCEPT ![r].pc = "wallet"] /\ UNCHANGED told
  /\ UNCHANGED <<vaults, wallet, address>>

CustodyWallet(r) ==
  /\ request[r].pc = "wallet"
  /\ request' = [request EXCEPT ![r] = IF wallet = 0 THEN [@ EXCEPT !.pc = "create"] ELSE [pc |-> "address", vault |-> wallet]]
  /\ UNCHANGED <<vaults, wallet, address, told>>

\* The provider may create another vault for the customer it knows.
CreateCustomerWallet(r) ==
  /\ request[r].pc = "create" /\ vaults' = vaults + 1
  /\ request' = [request EXCEPT ![r] = [pc |-> "save", vault |-> vaults']]
  /\ UNCHANGED <<wallet, address, told>>

\* Mistake: the last vault wins.
Linked_Last(v) == v

\* The first vault is kept.
Linked(v) == IF wallet = 0 THEN v ELSE wallet

SaveCustodyWallet(r) ==
  /\ request[r].pc = "save" /\ wallet' = Linked(request[r].vault)
  /\ request' = [request EXCEPT ![r] = [pc |-> "address", vault |-> wallet']]
  /\ UNCHANGED <<vaults, address, told>>

\* The provider names the vault's address; the first that is stored is the one told.
SaveDepositAddress(r) ==
  /\ request[r].pc = "address"
  /\ address' = IF address = 0 THEN request[r].vault ELSE address
  /\ told' = told \cup {address'}
  /\ request' = [request EXCEPT ![r].pc = "done"]
  /\ UNCHANGED <<vaults, wallet>>

DepositAddress(r) ==
  /\ \/ ActiveDepositAddress(r) \/ CustodyWallet(r) \/ CreateCustomerWallet(r)
     \/ SaveCustodyWallet(r) \/ SaveDepositAddress(r)
  /\ UNCHANGED <<paid, hookVars, queue, worker, tool, deposits, credits, stops>>

\* The customer pays to an address he was told.
Pay ==
  /\ paid = 0 /\ \E a \in told : paid' = a
  /\ UNCHANGED <<addressVars, hookVars, queue, worker, tool, deposits, credits, stops>>

-----------------------------------------------------------------------------
(* Webhooks *)

\* A key that is not in a fresh copy is fetched; a key of the copy is good while it is fresh.
Keys(k) == IF jwks.fresh /\ jwks.key = k THEN jwks ELSE [key |-> signer, fresh |-> TRUE]

\* Receipts are found by their digest.
Known(h) == receipts[h] # "none"

RecordWebhookReceipt(h) ==
  /\ ~Known(h) /\ Cardinality({x \in Reports : Known(x)}) < MaxHooks
  /\ receipts' = [receipts EXCEPT ![h] = "stored"] /\ queue' = queue \cup {h}

\* The call is signed with the current key or the one before; the provider repeats a refused call.
fireblocksWebhook(h) ==
  /\ paid # 0
  /\ \E k \in {signer, signer - 1} :
       /\ jwks' = Keys(k)
       /\ IF jwks'.key = k THEN RecordWebhookReceipt(h) ELSE UNCHANGED <<receipts, queue>>
  /\ UNCHANGED <<addressVars, paid, signer, worker, tool, deposits, credits, stops>>

-----------------------------------------------------------------------------
(* Observations *)

isDepositStatus(s) == s \in {"CONFIRMING", "COMPLETED", "FAILED", "REJECTED"}

Failed(s) == s \in {"FAILED", "REJECTED"}

DepositAssetDecimals == paid = address

Observed(o) ==
  IF Failed(o.status) THEN "reorged" ELSE IF o.conf >= Required THEN "pending_risk_review" ELSE "confirming"

\* Mistake: a row that is credited takes the status of a late report.
Merged_Late(row, o) ==
  [row EXCEPT !.conf = IF o.conf > @ THEN o.conf ELSE @, !.hash = @ \/ o.hash,
              !.status = IF @ \in FinalDeposit \ {"credited"} THEN @ ELSE Observed(o)]

\* ON CONFLICT: the larger count, the hash once it is reported, and the new status unless the old one is final.
Merged(row, o) ==
  [row EXCEPT !.conf = IF o.conf > @ THEN o.conf ELSE @, !.hash = @ \/ o.hash,
              !.status = IF @ \in FinalDeposit THEN @ ELSE Observed(o)]

\* A deposit that nobody flagged is credited in the same transaction.
autoCreditConfirmedDeposit(k, row) == row.status = "pending_risk_review" /\ row.risk = "not_started"

Credit(row) == [row EXCEPT !.status = "credited", !.risk = "approved"]

\* The journal's key is unique: a second credit of a row is an error.
ApplyDepositObservation(k, o) ==
  LET row == Merged(deposits[k], o)
      credit == Observed(o) = "pending_risk_review" /\ autoCreditConfirmedDeposit(k, row) IN
  IF ~DepositAssetDecimals THEN UNCHANGED <<deposits, credits>>
  ELSE /\ credit => credits[k] = 0
       /\ deposits' = [deposits EXCEPT ![k] = IF credit THEN Credit(row) ELSE row]
       /\ credits' = IF credit THEN [credits EXCEPT ![k] = @ + 1] ELSE credits

-----------------------------------------------------------------------------
(* Worker *)

IdleWorker == [pc |-> "idle", hook |-> CHOOSE h \in Reports : TRUE]

Proceed(w, pc) == worker' = [worker EXCEPT ![w].pc = pc]

\* AtomicAmount refuses an amount with too many digits: the pass ends, the message stays.
Readable(h) == receipts[h] = "processed" \/ ~isDepositStatus(h.status) \/ ~DepositAssetDecimals \/ h.exact

\* Reads the receipt; one that is processed, or not about a deposit of ours, needs no observation.
WebhookPayload(w) ==
  /\ worker[w].pc = "idle"
  /\ \E h \in queue :
       /\ Readable(h)
       /\ worker' = [worker EXCEPT ![w] =
            [hook |-> h, pc |-> IF receipts[h] = "processed" THEN "delete"
                                ELSE IF isDepositStatus(h.status) /\ DepositAssetDecimals THEN "apply" ELSE "mark"]]
  /\ UNCHANGED <<receipts, queue, deposits, credits>>

ObserveDeposit(w) ==
  /\ worker[w].pc = "apply"
  /\ ApplyDepositObservation(<<"provider", worker[w].hook.index>>, worker[w].hook) /\ Proceed(w, "mark")
  /\ UNCHANGED <<receipts, queue>>

MarkWebhookProcessed(w) ==
  /\ worker[w].pc = "mark" /\ receipts' = [receipts EXCEPT ![worker[w].hook] = "processed"] /\ Proceed(w, "delete")
  /\ UNCHANGED <<queue, deposits, credits>>

Delete(w) ==
  /\ worker[w].pc = "delete" /\ queue' = queue \ {worker[w].hook} /\ worker' = [worker EXCEPT ![w] = IdleWorker]
  /\ UNCHANGED <<receipts, deposits, credits>>

\* Mistake: a receipt is processed once it has been read.
RunOnce_MarkFirst(w) ==
  \/ worker[w].pc = "apply" /\ receipts' = [receipts EXCEPT ![worker[w].hook] = "processed"]
     /\ Proceed(w, "observe") /\ UNCHANGED <<queue, deposits, credits>>
  \/ worker[w].pc = "observe"
     /\ ApplyDepositObservation(<<"provider", worker[w].hook.index>>, worker[w].hook) /\ Proceed(w, "delete")
     /\ UNCHANGED <<receipts, queue>>
  \/ WebhookPayload(w) \/ MarkWebhookProcessed(w) \/ Delete(w)

RunOnce(w) == WebhookPayload(w) \/ ObserveDeposit(w) \/ MarkWebhookProcessed(w) \/ Delete(w)

Work(w) == RunOnce(w) /\ UNCHANGED <<addressVars, paid, signer, jwks, tool, stops>>

-----------------------------------------------------------------------------
(* Operators *)

\* CreditApprovedDeposit: the customer's identity is approved.
ApproveDeposit(k) ==
  /\ deposits[k].status = "pending_risk_review" /\ deposits[k].risk \in {"not_started", "pending"} /\ credits[k] = 0
  /\ deposits' = [deposits EXCEPT ![k] = Credit(@)] /\ credits' = [credits EXCEPT ![k] = @ + 1]
  /\ UNCHANGED <<addressVars, paid, hookVars, queue, worker, tool, stops>>

\* A row is looked up by the hash, and only its provider_transaction_id is kept: the observation will
\* name no index.  Without a row the hash takes the place of the provider's id.
DepositForReconciliation ==
  /\ tool.pc = "idle" /\ paid # 0
  /\ \/ \E k \in Rows : deposits[k].hash /\ tool' = [pc |-> "apply", row |-> <<k[1], NoIndex>>]
     \/ (\A k \in Rows : ~deposits[k].hash) /\ DepositAssetDecimals /\ tool' = [pc |-> "apply", row |-> <<"hash", NoIndex>>]
  /\ UNCHANGED <<addressVars, paid, hookVars, queue, worker, deposits, credits, stops>>

\* The chain answers with a count in between.
Reconcile ==
  /\ tool.pc = "apply" /\ tool' = [tool EXCEPT !.pc = "done"]
  /\ \E n \in Counts : ApplyDepositObservation(tool.row, [status |-> "CONFIRMING", conf |-> n, hash |-> TRUE])
  /\ UNCHANGED <<addressVars, paid, hookVars, queue, worker, stops>>

-----------------------------------------------------------------------------
(* Surroundings *)

WorkerStops(w) ==
  /\ worker[w].pc # "idle" /\ Fault /\ worker' = [worker EXCEPT ![w] = IdleWorker]
  /\ UNCHANGED <<addressVars, paid, hookVars, queue, tool, deposits, credits>>

\* The provider changes its key.
Rotate ==
  /\ Fault /\ signer' = signer + 1
  /\ UNCHANGED <<addressVars, paid, jwks, receipts, queue, worker, tool, deposits, credits>>

\* An hour passes.
CopyExpires ==
  /\ jwks.fresh /\ Fault /\ jwks' = [jwks EXCEPT !.fresh = FALSE]
  /\ UNCHANGED <<addressVars, paid, signer, receipts, queue, worker, tool, deposits, credits>>

\* The risk worker wants a review.
Flag(k) ==
  /\ deposits[k].status = "confirming" /\ deposits[k].risk = "not_started" /\ Fault
  /\ deposits' = [deposits EXCEPT ![k].risk = "pending"]
  /\ UNCHANGED <<addressVars, paid, hookVars, queue, worker, tool, credits>>

-----------------------------------------------------------------------------
DepositInit ==
  /\ vaults = 0 /\ wallet = 0 /\ address = 0 /\ told = {} /\ paid = 0
  /\ request = [r \in Requests |-> [pc |-> "start", vault |-> 0]]
  /\ signer = 1 /\ jwks = [key |-> 0, fresh |-> FALSE]
  /\ receipts = [h \in Reports |-> "none"] /\ queue = {}
  /\ worker = [w \in Workers |-> IdleWorker] /\ tool = [pc |-> "idle", row |-> <<"hash", NoIndex>>]
  /\ deposits = [k \in Rows |-> [status |-> "none", conf |-> 0, risk |-> "not_started", hash |-> FALSE]]
  /\ credits = [k \in Rows |-> 0] /\ stops = 0

DepositNext ==
  \/ \E r \in Requests : DepositAddress(r)
  \/ Pay \/ \E h \in Reports : fireblocksWebhook(h)
  \/ \E w \in Workers : Work(w) \/ WorkerStops(w)
  \/ \E k \in Rows : ApproveDeposit(k) \/ Flag(k)
  \/ DepositForReconciliation \/ Reconcile \/ Rotate \/ CopyExpires

DepositSpec == DepositInit /\ [][DepositNext]_depositVars

\* An unreadable receipt stays, and ends the batch of those behind it.
Blocked(w) == worker[w].pc = "idle" /\ \E h \in queue : ~Readable(h)

\* A worker runs in a loop, but a queue may return an unreadable receipt first every time.
Fairness == \A w \in Workers : WF_depositVars(~Blocked(w) /\ Work(w))

FairDepositSpec == DepositSpec /\ Fairness

-----------------------------------------------------------------------------
(* Properties *)

\* The customer is told one address, the one at which deposits are recognised, and it
\* belongs to the vault that is linked to him, although requests race and the provider
\* may create a vault for each.
OneAddress == told \subseteq {address} /\ (address # 0 => address = wallet)

\* A row is credited exactly when its status says so, with reports out of order and
\* repeated, two workers on one receipt, an officer and the tool: late reports
\* neither undo a credit nor lead to another, and what failed is not credited.
CreditFollowsStatus ==
  \A k \in Rows : credits[k] = (IF deposits[k].status = "credited" THEN 1 ELSE 0)

\* A report of enough confirmations that was accepted leads to the credit of its row, unless
\* the provider takes the transfer back or somebody wants a review, or a report that the worker
\* cannot read stays in front of it.  The credit is automatic, as the comment inside
\* ApplyDepositObservation says and the one above it denies (CreditsAreReviewed).
DepositSettled ==
  \A h \in {x \in Reports : x.exact /\ isDepositStatus(x.status) /\ ~Failed(x.status) /\ x.conf >= Required} :
    receipts[h] # "none" ~> LET row == deposits[<<"provider", h.index>>] IN
                            \/ row.status \in {"credited", "reorged"} \/ row.risk = "pending"
                            \/ \E x \in queue : ~Readable(x)

\* What the comments at ApplyDepositObservation and CreditApprovedDeposit say: an officer's
\* approval is the only way to a credit.  ApplyDepositObservation credits by itself.
CreditsAreReviewed ==
  [][\A k \in Rows : credits'[k] # credits[k] => ApproveDeposit(k)]_depositVars
=============================================================================
