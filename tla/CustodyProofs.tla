--------------------------- MODULE CustodyProofs ---------------------------
(***************************************************************************)
(* Proofs about the two directions of custody.                             *)
(*                                                                         *)
(* Withdrawals, for any number of withdrawals, processes, approvers and    *)
(* faults: the type invariant, one call per withdrawal, journals that      *)
(* follow the status, a ledger that agrees with the provider, dual         *)
(* control, and payments that the deposits cover.                          *)
(*                                                                         *)
(* Deposits, for any number of requests, workers and reports: one address, *)
(* and credits that follow the status.                                     *)
(***************************************************************************)
EXTENDS Withdrawals, Deposits, SumLemmas, SequenceTheorems, TLAPS

USE AmountsAssumption, FlagsAssumption

Decided   == Succeeds \cup Fails
Sent(w)   == w \in Listed(dispatches)
Past      == {"approved", "submitted", "completed", "failed"}
Submitted == {"submitted", "completed", "failed"}

-----------------------------------------------------------------------------
(* The inductive invariant *)

\* A dispatch stays with an approved withdrawal; a provider id comes after it.
DispatchRows ==
  /\ \A w \in Ids : w \in bound <=> status[w] \in Submitted
  /\ \A w \in Ids : Sent(w) => status[w] \in Past
  /\ \A w \in Ids : w \in bound \cup reserved => Sent(w)

\* What is approved was approved by two, or automatically.
Approved == \A w \in Ids : status[w] \in Past => automatic \/ Cardinality(approvals[w]) >= 2

\* The provider knows what it was asked for, and was asked only after a dispatch.
Calls ==
  \A w \in Ids : /\ calls[w] \in {0, 1}
                 /\ calls[w] = 0 <=> tx[w] = "NONE"
                 /\ calls[w] = 1 => Sent(w)
                 /\ w \in bound => calls[w] = 1

\* What a process may rely on at its point of the loop.
WorksOn(p) ==
  LET q == process[p]
  IN /\ q.op \notin {"reconcile", "list"} => q.item \in Ids
     /\ q.op = "call" => Sent(q.item) /\ calls[q.item] = 0
     /\ q.op \in {"ack", "mark"} => calls[q.item] = 1
     /\ q.op \in {"mark", "record", "update"} /\ q.seen \in Decided => tx[q.item] = q.seen

\* The dispatch belongs to one process.
OneCaller ==
  \A p, q \in Processes : In(p, "call") /\ In(q, "call") /\ Item(p) = Item(q) => p = q

\* A webhook reports a decision of the provider, which does not change any more.
Webhooks == \A m \in inbox : m.id \in Ids /\ m.status \in Decided /\ tx[m.id] = m.status

IInv == /\ TypeOK /\ LedgerFollowsStatus /\ OutcomeIsTrue /\ DispatchRows /\ Approved /\ Calls
        /\ (\A p \in Processes : WorksOn(p)) /\ OneCaller /\ Webhooks

-----------------------------------------------------------------------------
(* Lists and the next item *)

\* Inserting a row.
LEMMA ListedAppend ==
  ASSUME NEW s \in Seq(Ids), NEW w \in Ids
  PROVE  Listed(Append(s, w)) = Listed(s) \cup {w}
<1>1. /\ DOMAIN s = 1..Len(s) /\ Len(s) \in Nat
      /\ DOMAIN Append(s, w) = 1..(Len(s) + 1)
      /\ \A i \in 1..Len(s) : Append(s, w)[i] = s[i]
      /\ Append(s, w)[Len(s) + 1] = w
  BY AppendProperties, LenProperties
<1>2. \A x : x \in Listed(Append(s, w)) <=> \E i \in 1..(Len(s) + 1) : Append(s, w)[i] = x
  BY <1>1 DEF Listed
<1>3. \A x : x \in Listed(s) <=> \E i \in 1..Len(s) : s[i] = x
  BY <1>1 DEF Listed
<1> QED
  BY <1>1, <1>2, <1>3

\* What At returns is a state of a process.
LEMMA AtType ==
  ASSUME NEW op \in {"reconcile", "list", "lookup", "observe", "call", "ack"},
         NEW item \in Ids \cup {NoItem}, NEW others \in SUBSET Ids
  PROVE  /\ At(op, item, others) \in Process
         /\ At(op, item, others).op = op /\ At(op, item, others).item = item
         /\ At(op, item, others).seen = "NONE"
  BY DEF At, Process, NoEvidence

\* States in which a process may be whatever the tables hold.
Harmless(n) ==
  /\ n \in Process
  /\ n.op \in {"reconcile", "list", "lookup", "observe"}
  /\ n.op \in {"lookup", "observe"} => n.item \in Ids

\* The loop starts again.
LEMMA RestartedHarmless == Harmless(Restarted) /\ Harmless(Listing)
  BY DEF Restarted, Listing, Harmless, At, Process, NoEvidence

\* The next withdrawal to look up is one of the list.
LEMMA NextLookupHarmless ==
  ASSUME NEW list \in SUBSET Ids, NEW n \in NextLookup(list)
  PROVE  Harmless(n)
<1>1. CASE list = {}
  BY <1>1, RestartedHarmless DEF NextLookup
<1>2. CASE list # {}
  <2>1. PICK w \in First(dispatches, list) : n = At("lookup", w, list \ {w})
    BY <1>2 DEF NextLookup
  <2>2. w \in Ids
    BY <2>1 DEF First
  <2> QED
    BY <2>1, <2>2, AtType DEF Harmless
<1> QED
  BY <1>1, <1>2

\* The next withdrawal to send is one of the list.
LEMMA NextItemHarmless ==
  ASSUME NEW list \in SUBSET Ids, NEW n \in NextItem(list)
  PROVE  Harmless(n)
<1>1. CASE list = {}
  BY <1>1, RestartedHarmless DEF NextItem
<1>2. CASE list # {}
  <2>1. PICK w \in First(requested, list) : n = At("observe", w, list \ {w})
    BY <1>2 DEF NextItem
  <2>2. w \in Ids
    BY <2>1 DEF First
  <2> QED
    BY <2>1, <2>2, AtType DEF Harmless
<1> QED
  BY <1>1, <1>2

-----------------------------------------------------------------------------
(* Steps of a process that leave the tables and the provider alone *)

\* What n must satisfy to be the next state of a process.
Fits(n) ==
  /\ n \in Process
  /\ n.op # "call"
  /\ n.op \notin {"reconcile", "list"} => n.item \in Ids
  /\ n.op \in {"ack", "mark"} => calls[n.item] = 1
  /\ n.op \in {"mark", "record", "update"} /\ n.seen \in Decided => tx[n.item] = n.seen

\* A harmless state fits.
LEMMA HarmlessFits == ASSUME NEW n, Harmless(n) PROVE Fits(n)
  BY DEF Harmless, Fits

\* One process moves to a state that fits, and no dispatch or transaction changes.
LEMMA ProcessMoves ==
  ASSUME IInv, UNCHANGED <<dispatches, calls, tx>>,
         NEW p \in Processes, NEW n, Fits(n), process' = [process EXCEPT ![p] = n]
  PROVE  process' \in [Processes -> Process] /\ (\A q \in Processes : WorksOn(q)') /\ OneCaller'
<1>1. process' \in [Processes -> Process]
  BY DEF IInv, TypeOK, Fits
<1>2. \A q \in Processes : process'[q] = IF q = p THEN n ELSE process[q]
  BY DEF IInv, TypeOK
<1>3. \A q \in Processes : WorksOn(q)'
  BY <1>2 DEF IInv, WorksOn, Fits, Sent, Listed
<1>4. OneCaller'
  BY <1>2 DEF IInv, OneCaller, In, Item, Fits
<1> QED
  BY <1>1, <1>3, <1>4

\* Only the state of one process changes.
LEMMA ProcessStep ==
  ASSUME IInv, UNCHANGED <<controls, tables, provider, inbox>>, faults' \in 0..MaxFaults,
         NEW p \in Processes, NEW n, Fits(n), process' = [process EXCEPT ![p] = n]
  PROVE  IInv'
<1> USE DEF controls, tables, provider
<1>1. process' \in [Processes -> Process] /\ (\A q \in Processes : WorksOn(q)') /\ OneCaller'
  BY ProcessMoves
<1>2. TypeOK'
  BY <1>1 DEF IInv, TypeOK
<1>3. LedgerFollowsStatus' /\ OutcomeIsTrue' /\ DispatchRows' /\ Approved' /\ Calls' /\ Webhooks'
  BY DEF IInv, LedgerFollowsStatus, OutcomeIsTrue, DispatchRows, Approved, Calls, Webhooks, Sent, Listed
<1> QED
  BY <1>1, <1>2, <1>3 DEF IInv

\* A fault is spent only while one is left.
LEMMA SpendType == ASSUME IInv, Spend PROVE faults' \in 0..MaxFaults
  BY DEF IInv, TypeOK, Spend

\* Steps that are no fault keep the counter.
LEMMA FaultsType == ASSUME IInv, UNCHANGED faults PROVE faults' \in 0..MaxFaults
  BY DEF IInv, TypeOK

\* The parts of the state of a process have their types.
LEMMA OthersType ==
  ASSUME IInv, NEW p \in Processes
  PROVE  process[p] \in Process /\ Others(p) \in SUBSET Ids /\ Item(p) \in Ids \cup {NoItem}
  BY DEF IInv, TypeOK, Process, Others, Item

\* What holds of the item of a process that has one.
LEMMA ItemFacts ==
  ASSUME IInv, NEW p \in Processes, ~In(p, "reconcile"), ~In(p, "list")
  PROVE  Item(p) \in Ids /\ tx[Item(p)] \in {"NONE"} \cup Pending \cup Decided
  BY DEF IInv, TypeOK, WorksOn, In, Item, Decided

\* The list of open dispatches.
LEMMA StartReconciliationInv ==
  ASSUME IInv, NEW p \in Processes, StartReconciliation(p) PROVE IInv'
<1>1. PICK n \in NextLookup(Candidates) : process' = [process EXCEPT ![p] = n]
  BY DEF StartReconciliation, Goto
<1>2. Candidates \in SUBSET Ids
  BY DEF IInv, TypeOK, Candidates
<1>3. Fits(n)
  BY <1>1, <1>2, NextLookupHarmless, HarmlessFits
<1> QED
  BY <1>1, <1>3, FaultsType, ProcessStep DEF StartReconciliation

\* FindWithdrawalByExternalID returns what the provider holds.
LEMMA LookupInv ==
  ASSUME IInv, NEW p \in Processes, Lookup(p) PROVE IInv'
<1> DEFINE n == [process[p] EXCEPT !.op = IF tx[Item(p)] = "NONE" THEN "record" ELSE "mark", !.seen = tx[Item(p)]]
<1>1. process' = [process EXCEPT ![p] = n]
  BY DEF Lookup, Goto
<1>2. Item(p) \in Ids /\ tx[Item(p)] \in {"NONE"} \cup Pending \cup Decided
  BY ItemFacts DEF Lookup, In
<1>3. calls[Item(p)] \in {0, 1} /\ (calls[Item(p)] = 0 <=> tx[Item(p)] = "NONE")
  BY <1>2 DEF IInv, Calls
<1>4. Fits(n)
  <2>1. /\ n \in Process /\ n.item = Item(p) /\ n.seen = tx[Item(p)]
        /\ n.op = (IF tx[Item(p)] = "NONE" THEN "record" ELSE "mark")
    BY <1>2, OthersType DEF Process, Item, Decided
  <2> HIDE DEF n
  <2> QED
    BY <2>1, <1>2, <1>3 DEF Fits
<1> QED
  BY <1>1, <1>4, FaultsType, ProcessStep DEF Lookup

\* The observation is kept or dropped.
LEMMA RecordObservationInv ==
  ASSUME IInv, NEW p \in Processes, RecordObservation(p) PROVE IInv'
<1>1. PICK n \in NextLookup(Others(p)) \cup {[process[p] EXCEPT !.op = "update"]} : process' = [process EXCEPT ![p] = n]
  BY DEF RecordObservation, Goto
<1>2. CASE n \in NextLookup(Others(p))
  BY <1>2, NextLookupHarmless, HarmlessFits, OthersType, <1>1, FaultsType, ProcessStep DEF RecordObservation
<1>3. CASE n = [process[p] EXCEPT !.op = "update"]
  <2>1. WorksOn(p) /\ In(p, "record")
    BY DEF IInv, RecordObservation
  <2>2. Fits(n)
    BY <1>3, <2>1, OthersType DEF Fits, Process, WorksOn, In
  <2> QED
    BY <1>1, <2>2, FaultsType, ProcessStep DEF RecordObservation
<1> QED
  BY <1>1, <1>2, <1>3

\* The list of approved withdrawals.
LEMMA StartSendingInv ==
  ASSUME IInv, NEW p \in Processes, StartSending(p) PROVE IInv'
<1>1. PICK n \in NextItem(ApprovedWithdrawals) : process' = [process EXCEPT ![p] = n]
  BY DEF StartSending, Goto
<1>2. ApprovedWithdrawals \in SUBSET Ids
  BY DEF ApprovedWithdrawals
<1>3. Fits(n)
  BY <1>1, <1>2, NextItemHarmless, HarmlessFits
<1> QED
  BY <1>1, <1>3, FaultsType, ProcessStep DEF StartSending

\* The balances are read.
LEMMA ObserveInv ==
  ASSUME IInv, NEW p \in Processes, Observe(p) PROVE IInv'
<1> DEFINE e == IF CapacityRequired THEN [taken |-> TRUE, asset |-> vault.asset, gas |-> vault.gas] ELSE NoEvidence
           n == [process[p] EXCEPT !.op = "begin", !.evidence = e]
<1>1. process' = [process EXCEPT ![p] = n]
  BY DEF Observe, Goto
<1>2. e \in [taken: BOOLEAN, asset: Nat, gas: Nat]
  <2>1. vault["asset"] \in Nat /\ vault["gas"] \in Nat
    BY DEF IInv, TypeOK, Kinds
  <2> QED
    BY <2>1 DEF NoEvidence
<1>3. WorksOn(p) /\ In(p, "observe")
  BY DEF IInv, Observe
<1>4. Fits(n)
  <2> HIDE DEF e
  <2>1. n \in Process /\ n.op = "begin" /\ n.item = process[p].item
    BY <1>2, OthersType DEF Process
  <2>2. process[p].item \in Ids
    BY <1>3 DEF WorksOn, In
  <2> HIDE DEF n
  <2> QED
    BY <2>1, <2>2 DEF Fits
<1> QED
  BY <1>1, <1>4, FaultsType, ProcessStep DEF Observe

\* Somebody else dispatched it.
LEMMA SkipDispatchInv ==
  ASSUME IInv, NEW p \in Processes, SkipDispatch(p) PROVE IInv'
<1>1. PICK n \in NextItem(Others(p)) : process' = [process EXCEPT ![p] = n]
  BY DEF SkipDispatch, Goto
<1>2. Fits(n)
  BY <1>1, NextItemHarmless, HarmlessFits, OthersType
<1> QED
  BY <1>1, <1>2, FaultsType, ProcessStep DEF SkipDispatch

\* Errors and crashes lead to the top of the loop.
LEMMA RestartInv ==
  ASSUME IInv, NEW p \in Processes, DispatchError(p) \/ CrashOrError(p) PROVE IInv'
<1>1. process' = [process EXCEPT ![p] = Restarted] /\ UNCHANGED <<controls, tables, provider, inbox>>
  BY DEF DispatchError, CrashOrError, Goto
<1>2. Fits(Restarted)
  BY RestartedHarmless, HarmlessFits
<1>3. faults' \in 0..MaxFaults
  BY FaultsType, SpendType DEF DispatchError, CrashOrError
<1> QED
  BY <1>1, <1>2, <1>3, ProcessStep

-----------------------------------------------------------------------------
(* Acknowledgement and custody update *)

\* MarkWithdrawalSubmitted of a withdrawal the provider has a transaction for.
LEMMA MarkTables ==
  ASSUME IInv, NEW w \in Ids, calls[w] = 1, MarkWithdrawalSubmitted(w),
         UNCHANGED <<automatic, approvals, journals, dispatches, reserved, tx, calls>>
  PROVE  /\ status' \in [Ids -> {"none", "pending_approval", "approved", "submitted"} \cup Final] /\ bound' \subseteq Ids
         /\ LedgerFollowsStatus' /\ OutcomeIsTrue' /\ DispatchRows' /\ Approved' /\ Calls'
<1>1. CASE status[w] = "approved" /\ w \notin bound
  <2>1. status' = [status EXCEPT ![w] = "submitted"] /\ bound' = bound \cup {w}
    BY <1>1 DEF MarkWithdrawalSubmitted
  <2>2. status \in [Ids -> {"none", "pending_approval", "approved", "submitted"} \cup Final] /\ bound \subseteq Ids
    BY DEF IInv, TypeOK
  <2>3. LedgerFollowsStatus'
    BY <1>1, <2>1, <2>2 DEF IInv, LedgerFollowsStatus
  <2>4. OutcomeIsTrue'
    BY DEF IInv, OutcomeIsTrue, Listed
  <2>5. Sent(w)
    BY DEF IInv, Calls
  <2>6. DispatchRows'
    BY <2>1, <2>2, <2>5 DEF IInv, DispatchRows, Submitted, Past, Sent, Listed
  <2>7. Approved'
    BY <1>1, <2>1, <2>2 DEF IInv, Approved, Past
  <2>8. Calls'
    BY <2>1 DEF IInv, Calls, Sent, Listed
  <2> QED
    BY <2>1, <2>2, <2>3, <2>4, <2>6, <2>7, <2>8
<1>2. CASE ~(status[w] = "approved" /\ w \notin bound)
  BY <1>2 DEF MarkWithdrawalSubmitted, IInv, TypeOK, LedgerFollowsStatus, OutcomeIsTrue, DispatchRows, Approved, Calls, Sent, Listed
<1> QED
  BY <1>1, <1>2

\* An acknowledgement, by the sender or by the reconciler.
LEMMA MarkInv ==
  ASSUME IInv, NEW p \in Processes, NEW n, Fits(n), In(p, "mark") \/ In(p, "ack"),
         MarkWithdrawalSubmitted(Item(p)), process' = [process EXCEPT ![p] = n],
         UNCHANGED <<controls, requested, approvals, journals, dispatches, reserved, closed, provider, inbox, faults>>
  PROVE  IInv'
<1> USE DEF controls, provider
<1>1. Item(p) \in Ids /\ calls[Item(p)] = 1
  BY DEF IInv, WorksOn, In, Item
<1>2. /\ status' \in [Ids -> {"none", "pending_approval", "approved", "submitted"} \cup Final] /\ bound' \subseteq Ids
      /\ LedgerFollowsStatus' /\ OutcomeIsTrue' /\ DispatchRows' /\ Approved' /\ Calls'
  BY <1>1, MarkTables
<1>3. process' \in [Processes -> Process] /\ (\A q \in Processes : WorksOn(q)') /\ OneCaller'
  BY ProcessMoves
<1>4. TypeOK'
  BY <1>2, <1>3 DEF IInv, TypeOK
<1>5. Webhooks'
  BY DEF IInv, Webhooks
<1> QED
  BY <1>2, <1>3, <1>4, <1>5 DEF IInv

\* The reconciler binds a transaction it found.
LEMMA BindFoundInv ==
  ASSUME IInv, NEW p \in Processes, BindFound(p) PROVE IInv'
<1>1. process' = [process EXCEPT ![p] = [process[p] EXCEPT !.op = "record"]]
  BY DEF BindFound, Goto
<1>2. WorksOn(p) /\ In(p, "mark")
  BY DEF IInv, BindFound
<1>3. Fits([process[p] EXCEPT !.op = "record"])
  BY <1>2, OthersType DEF Fits, Process, WorksOn, In
<1> QED
  BY <1>1, <1>2, <1>3, MarkInv DEF BindFound

\* The sender binds the transaction it created.
LEMMA AcknowledgeInv ==
  ASSUME IInv, NEW p \in Processes, Acknowledge(p) PROVE IInv'
<1>1. PICK n \in NextItem(Others(p)) : process' = [process EXCEPT ![p] = n]
  BY DEF Acknowledge, Goto
<1>2. Fits(n)
  BY <1>1, NextItemHarmless, HarmlessFits, OthersType
<1> QED
  BY <1>1, <1>2, MarkInv DEF Acknowledge

\* RecordWithdrawalCustodyUpdate with a status the provider reported.
LEMMA UpdateTables ==
  ASSUME IInv, NEW w \in Ids, NEW s, s \in Decided => tx[w] = s, RecordWithdrawalCustodyUpdate(w, s),
         UNCHANGED <<automatic, bound, approvals, dispatches, reserved, tx, calls>>
  PROVE  /\ status' \in [Ids -> {"none", "pending_approval", "approved", "submitted"} \cup Final]
         /\ journals' \in [Ids -> SUBSET {"hold", "cancel", "release", "settlement"}]
         /\ closed' \subseteq reserved
         /\ LedgerFollowsStatus' /\ OutcomeIsTrue' /\ DispatchRows' /\ Approved' /\ Calls'
<1>0. /\ status \in [Ids -> {"none", "pending_approval", "approved", "submitted"} \cup Final]
      /\ journals \in [Ids -> SUBSET {"hold", "cancel", "release", "settlement"}]
      /\ closed \subseteq reserved
  BY DEF IInv, TypeOK
<1>1. CASE Updatable(w, s)
  <2> DEFINE t == IF s \in Succeeds THEN "completed" ELSE "failed"
             j == IF s \in Succeeds THEN "settlement" ELSE "release"
  <2>1. /\ status' = [status EXCEPT ![w] = t]
        /\ journals' = [journals EXCEPT ![w] = @ \cup {j}]
        /\ closed' = closed \cup ({w} \cap reserved)
    BY <1>1 DEF RecordWithdrawalCustodyUpdate, OutcomeJournal, Closes
  <2>2. w \in bound /\ status[w] = "submitted" /\ tx[w] = s /\ s \in Decided
    BY <1>1 DEF Updatable, IInv, DispatchRows, Submitted, Final, Decided
  <2>3. journals[w] = {"hold"}
    BY <2>2 DEF IInv, LedgerFollowsStatus
  <2>4. status'[w] = t /\ journals'[w] = {"hold", j} /\ t \in {"completed", "failed"}
    BY <1>0, <2>1, <2>3
  <2>5. \A v \in Ids : v # w => status'[v] = status[v] /\ journals'[v] = journals[v]
    BY <1>0, <2>1
  <2>6. LedgerFollowsStatus'
    BY <2>4, <2>5 DEF IInv, LedgerFollowsStatus
  <2>7. OutcomeIsTrue'
    <3>1. /\ "settlement" \in journals'[w] => tx'[w] \in Succeeds
          /\ "release" \in journals'[w] => tx'[w] \in Fails
          /\ "cancel" \notin journals'[w]
      BY <2>2, <2>4 DEF Decided
    <3>2. ASSUME NEW v \in Ids, v # w
          PROVE  /\ "settlement" \in journals'[v] => tx'[v] \in Succeeds
                 /\ "release" \in journals'[v] => tx'[v] \in Fails
                 /\ "cancel" \in journals'[v] => tx'[v] = "NONE" /\ v \notin Listed(dispatches')
      <4>1. journals'[v] = journals[v] /\ tx' = tx /\ dispatches' = dispatches
        BY <2>5, <3>2
      <4> QED
        BY <4>1 DEF IInv, OutcomeIsTrue
    <3> QED
      BY <3>1, <3>2 DEF OutcomeIsTrue, Listed
  <2>8. DispatchRows'
    <3>1. \A v \in Ids : (status'[v] \in Submitted <=> status[v] \in Submitted) /\ (status[v] \in Past => status'[v] \in Past)
      BY <2>2, <2>4, <2>5 DEF Submitted, Past
    <3>2. DispatchRows
      BY DEF IInv
    <3> QED
      BY <3>1, <3>2 DEF DispatchRows, Sent, Listed
  <2>9. Approved'
    BY <2>2, <2>4, <2>5 DEF IInv, Approved, Past
  <2>10. Calls'
    BY DEF IInv, Calls, Sent, Listed
  <2> QED
    BY <1>0, <2>1, <2>6, <2>7, <2>8, <2>9, <2>10 DEF Final
<1>2. CASE ~Updatable(w, s)
  BY <1>0, <1>2 DEF RecordWithdrawalCustodyUpdate, IInv, LedgerFollowsStatus, OutcomeIsTrue, DispatchRows, Approved, Calls, Sent, Listed
<1> QED
  BY <1>1, <1>2

\* The reconciler applies what it saw: an outcome it saw is still the outcome.
LEMMA ApplyObservationInv ==
  ASSUME IInv, NEW p \in Processes, ApplyObservation(p) PROVE IInv'
<1> USE DEF controls, provider
<1>1. PICK n \in NextLookup(Others(p)) : process' = [process EXCEPT ![p] = n]
  BY DEF ApplyObservation, Goto
<1>2. Fits(n)
  BY <1>1, NextLookupHarmless, HarmlessFits, OthersType
<1>3. Item(p) \in Ids /\ (process[p].seen \in Decided => tx[Item(p)] = process[p].seen)
  BY DEF IInv, WorksOn, ApplyObservation, In, Item
<1>4. /\ status' \in [Ids -> {"none", "pending_approval", "approved", "submitted"} \cup Final]
      /\ journals' \in [Ids -> SUBSET {"hold", "cancel", "release", "settlement"}]
      /\ closed' \subseteq reserved
      /\ LedgerFollowsStatus' /\ OutcomeIsTrue' /\ DispatchRows' /\ Approved' /\ Calls'
  BY <1>3, UpdateTables DEF ApplyObservation
<1>5. process' \in [Processes -> Process] /\ (\A q \in Processes : WorksOn(q)') /\ OneCaller'
  BY <1>1, <1>2, ProcessMoves DEF ApplyObservation
<1>6. TypeOK'
  BY <1>4, <1>5 DEF IInv, TypeOK, ApplyObservation
<1>7. Webhooks'
  BY DEF IInv, Webhooks, ApplyObservation
<1> QED
  BY <1>4, <1>5, <1>6, <1>7 DEF IInv

\* Processes, dispatches and transactions are left alone.
LEMMA ProcessesStay ==
  ASSUME IInv, UNCHANGED <<process, dispatches, calls, tx>>
  PROVE  process' \in [Processes -> Process] /\ (\A q \in Processes : WorksOn(q)') /\ OneCaller'
  BY DEF IInv, TypeOK, WorksOn, OneCaller, In, Item, Sent, Listed

\* A webhook applies an outcome the provider still stands by.
LEMMA ApplyWebhookInv ==
  ASSUME IInv, NEW m \in inbox, ApplyWebhook(m), inbox' \subseteq inbox, faults' \in 0..MaxFaults
  PROVE  IInv'
<1> USE DEF controls, provider
<1>1. m.id \in Ids /\ tx[m.id] = m.status
  BY DEF IInv, Webhooks
<1>2. /\ status' \in [Ids -> {"none", "pending_approval", "approved", "submitted"} \cup Final]
      /\ journals' \in [Ids -> SUBSET {"hold", "cancel", "release", "settlement"}]
      /\ closed' \subseteq reserved
      /\ LedgerFollowsStatus' /\ OutcomeIsTrue' /\ DispatchRows' /\ Approved' /\ Calls'
  <2>1. CASE RecordWithdrawalCustodyUpdate(m.id, m.status)
    BY <1>1, <2>1, UpdateTables DEF ApplyWebhook
  <2>2. CASE UNCHANGED <<status, journals, closed>>
    BY <2>2 DEF ApplyWebhook, IInv, TypeOK, LedgerFollowsStatus, OutcomeIsTrue, DispatchRows, Approved, Calls, Sent, Listed
  <2> QED
    BY <2>1, <2>2 DEF ApplyWebhook
<1>3. process' \in [Processes -> Process] /\ (\A q \in Processes : WorksOn(q)') /\ OneCaller'
  BY ProcessesStay DEF ApplyWebhook
<1>4. TypeOK'
  BY <1>2, <1>3 DEF IInv, TypeOK, ApplyWebhook
<1>5. Webhooks'
  BY DEF IInv, Webhooks, ApplyWebhook
<1> QED
  BY <1>2, <1>3, <1>4, <1>5 DEF IInv

\* Webhooks processed, processed again or lost.
LEMMA WebhookInv ==
  ASSUME IInv, NEW m \in inbox, ProcessWebhook(m) \/ ProcessWebhookAgain(m) \/ LoseWebhook(m)
  PROVE  IInv'
<1>1. CASE ProcessWebhook(m)
  BY <1>1, ApplyWebhookInv, FaultsType DEF ProcessWebhook
<1>2. CASE ProcessWebhookAgain(m)
  BY <1>2, ApplyWebhookInv, SpendType DEF ProcessWebhookAgain
<1>3. CASE LoseWebhook(m)
  <2> USE DEF controls, tables, provider
  <2>1. faults' \in 0..MaxFaults
    BY <1>3, SpendType DEF LoseWebhook
  <2>2. process' \in [Processes -> Process] /\ (\A q \in Processes : WorksOn(q)') /\ OneCaller'
    BY <1>3, ProcessesStay DEF LoseWebhook
  <2>3. TypeOK'
    BY <1>3, <2>1 DEF IInv, TypeOK, LoseWebhook
  <2>4. LedgerFollowsStatus' /\ OutcomeIsTrue' /\ DispatchRows' /\ Approved' /\ Calls' /\ Webhooks'
    BY <1>3 DEF LoseWebhook, IInv, LedgerFollowsStatus, OutcomeIsTrue, DispatchRows, Approved, Calls, Webhooks, Sent, Listed
  <2> QED
    BY <2>2, <2>3, <2>4 DEF IInv
<1> QED
  BY <1>1, <1>2, <1>3

-----------------------------------------------------------------------------
(* The dispatch, the call and the provider *)

\* The row of the dispatch is the right to call: nobody else has it.
LEMMA BeginDispatchInv ==
  ASSUME IInv, NEW p \in Processes, BeginDispatch(p) PROVE IInv'
<1> DEFINE w == Item(p)
           n == At("call", w, Others(p))
<1> USE DEF controls, provider
<1>1. /\ process' = [process EXCEPT ![p] = n]
      /\ dispatches' = Append(dispatches, w)
      /\ reserved' \subseteq reserved \cup {w} /\ reserved \subseteq reserved'
      /\ UNCHANGED <<controls, status, bound, requested, approvals, journals, closed, provider, inbox, faults>>
  BY DEF BeginDispatch, Goto, SameItem
<1>2. w \in Ids
  BY ItemFacts DEF BeginDispatch, In
<1>3. status[w] = "approved" /\ w \notin bound /\ ~Sent(w) /\ journals[w] = {"hold"}
  BY DEF BeginDispatch, Claimable, Dispatchable, HoldPosted, Sent
<1>4. calls[w] = 0 /\ tx[w] = "NONE"
  BY <1>2, <1>3 DEF IInv, Calls
<1>5. n \in Process /\ n.op = "call" /\ n.item = w /\ n.seen = "NONE"
  BY <1>2, OthersType, AtType
<1>6. dispatches \in Seq(Ids)
  BY DEF IInv, TypeOK
<1>7. \A v : Sent(v)' <=> Sent(v) \/ v = w
  BY <1>1, <1>2, <1>6, ListedAppend DEF Sent
<1>8. TypeOK'
  <2>1. process' \in [Processes -> Process] /\ dispatches' \in Seq(Ids) /\ reserved' \subseteq Ids /\ closed \subseteq reserved'
    BY <1>1, <1>2, <1>5, <1>6, AppendProperties DEF IInv, TypeOK
  <2> QED
    BY <1>1, <2>1 DEF IInv, TypeOK
<1>9. LedgerFollowsStatus'
  BY <1>1 DEF IInv, LedgerFollowsStatus
<1>10. OutcomeIsTrue'
  BY <1>1, <1>3, <1>7 DEF IInv, OutcomeIsTrue, Sent
<1>11. DispatchRows'
  BY <1>1, <1>3, <1>7 DEF IInv, DispatchRows, Past, Submitted
<1>12. Approved' /\ Webhooks'
  BY <1>1 DEF IInv, Approved, Webhooks
<1>13. Calls'
  BY <1>1, <1>7 DEF IInv, Calls
<1>14. \A q \in Processes : process'[q] = IF q = p THEN n ELSE process[q]
  BY <1>1 DEF IInv, TypeOK
<1>15. \A q \in Processes : WorksOn(q)'
  <2> HIDE DEF n
  <2> QED
    BY <1>1, <1>2, <1>4, <1>5, <1>7, <1>14 DEF IInv, WorksOn
<1>16. OneCaller'
  <2>1. \A q \in Processes : In(q, "call") => Item(q) # w
    BY <1>3 DEF IInv, WorksOn, In, Item
  <2> HIDE DEF n, w
  <2> QED
    BY <1>5, <1>14, <2>1 DEF IInv, OneCaller, In, Item
<1> QED
  BY <1>8, <1>9, <1>10, <1>11, <1>12, <1>13, <1>15, <1>16 DEF IInv

\* The one call of a withdrawal, whatever becomes of its answer.
LEMMA CreatedInv ==
  ASSUME IInv, NEW p \in Processes, In(p, "call"), Created(Item(p)),
         NEW n \in SameItem(p, "ack") \cup {Restarted}, process' = [process EXCEPT ![p] = n],
         UNCHANGED <<controls, tables, inbox>>, faults' \in 0..MaxFaults
  PROVE  IInv'
<1> DEFINE w == Item(p)
<1> USE DEF controls, tables
<1>1. w \in Ids /\ Sent(w) /\ calls[w] = 0 /\ tx[w] = "NONE"
  BY DEF IInv, WorksOn, In, Item, Calls
<1>2. calls \in [Ids -> Nat] /\ tx \in [Ids -> {"NONE"} \cup Pending \cup Succeeds \cup Fails]
  BY DEF IInv, TypeOK
<1>3. /\ calls' = [calls EXCEPT ![w] = 1] /\ tx' = [tx EXCEPT ![w] = "SUBMITTED"] /\ vault' = vault
  BY <1>1, <1>2 DEF Created
<1>4. n \in Process /\ n.op \in {"ack", "reconcile"} /\ (n.op = "ack" => n.item = w)
  <2>1. CASE n = Restarted
    BY <2>1, RestartedHarmless DEF Harmless, Restarted, At
  <2>2. CASE n = At("ack", w, Others(p))
    BY <1>1, <2>2, OthersType, AtType
  <2> QED
    BY <2>1, <2>2 DEF SameItem
<1>5. TypeOK'
  <2>1. process' \in [Processes -> Process]
    BY <1>4 DEF IInv, TypeOK
  <2>2. calls' \in [Ids -> Nat] /\ tx' \in [Ids -> {"NONE"} \cup Pending \cup Succeeds \cup Fails]
    BY <1>1, <1>2, <1>3 DEF Pending
  <2> QED
    BY <1>3, <2>1, <2>2 DEF IInv, TypeOK
<1>6. LedgerFollowsStatus' /\ DispatchRows' /\ Approved'
  BY DEF IInv, LedgerFollowsStatus, DispatchRows, Approved, Sent, Listed
<1>7. OutcomeIsTrue'
  BY <1>1, <1>2, <1>3 DEF IInv, OutcomeIsTrue, Sent, Listed, Succeeds, Fails
<1>8. Calls'
  BY <1>1, <1>2, <1>3 DEF IInv, Calls, Sent, Listed
<1>9. Webhooks'
  BY <1>1, <1>2, <1>3 DEF IInv, Webhooks, Decided, Succeeds, Fails
<1>10. \A q \in Processes : process'[q] = IF q = p THEN n ELSE process[q]
  BY DEF IInv, TypeOK
<1>11. \A q \in Processes : q # p /\ In(q, "call") => Item(q) # w
  BY DEF IInv, OneCaller
<1>12. \A q \in Processes : WorksOn(q)'
  <2> SUFFICES ASSUME NEW q \in Processes PROVE WorksOn(q)'
    OBVIOUS
  <2>1. CASE q = p
    BY <1>1, <1>2, <1>3, <1>4, <1>10, <2>1 DEF WorksOn
  <2>2. CASE q # p
    <3>1. process'[q] = process[q] /\ WorksOn(q) /\ (process[q].op = "call" => process[q].item # w)
      BY <1>10, <1>11, <2>2 DEF IInv, In, Item
    <3> HIDE DEF w
    <3> QED
      BY <1>1, <1>2, <1>3, <3>1 DEF WorksOn, Sent, Listed, Decided, Succeeds, Fails
  <2> QED
    BY <2>1, <2>2
<1>13. OneCaller'
  BY <1>4, <1>10 DEF IInv, OneCaller, In, Item
<1> QED
  BY <1>5, <1>6, <1>7, <1>8, <1>9, <1>12, <1>13 DEF IInv

\* The answer arrives or is lost.
LEMMA CreateWithdrawalInv ==
  ASSUME IInv, NEW p \in Processes, CreateWithdrawal(p) \/ LostAnswer(p) PROVE IInv'
<1>1. CASE CreateWithdrawal(p)
  BY <1>1, CreatedInv, FaultsType DEF CreateWithdrawal, Goto
<1>2. CASE LostAnswer(p)
  BY <1>2, CreatedInv, SpendType DEF LostAnswer, Goto
<1> QED
  BY <1>1, <1>2

\* The provider decides once about each transaction.
LEMMA ProviderDecidesInv ==
  ASSUME IInv, NEW w \in Ids, ProviderDecides(w) PROVE IInv'
<1> USE DEF controls, tables
<1>1. PICK s \in Decided : /\ tx[w] \in Pending
                           /\ tx' = [tx EXCEPT ![w] = s]
                           /\ Pays(w, s) \/ UNCHANGED vault
  BY DEF ProviderDecides, Pays, DoesNotPay, Decided
<1>2. calls \in [Ids -> Nat] /\ tx \in [Ids -> {"NONE"} \cup Pending \cup Succeeds \cup Fails] /\ vault \in [Kinds -> Nat]
  BY DEF IInv, TypeOK
<1>3. tx'[w] = s /\ \A v \in Ids : v # w => tx'[v] = tx[v]
  BY <1>1, <1>2
<1>4. /\ UNCHANGED <<controls, tables, process, calls, faults>>
      /\ inbox' = inbox \cup {[id |-> w, status |-> s]}
  BY <1>3 DEF ProviderDecides
<1>5. vault' \in [Kinds -> Nat]
  BY <1>1, <1>2 DEF Pays
<1>6. TypeOK'
  BY <1>1, <1>2, <1>4, <1>5 DEF IInv, TypeOK, Decided
<1>7. LedgerFollowsStatus' /\ DispatchRows' /\ Approved' /\ OneCaller'
  BY <1>4 DEF IInv, LedgerFollowsStatus, DispatchRows, Approved, Sent, Listed, OneCaller, In, Item
<1>8. tx[w] \notin Decided /\ tx[w] # "NONE" /\ s # "NONE"
  BY <1>1 DEF Pending, Decided, Succeeds, Fails
<1>9. OutcomeIsTrue'
  BY <1>3, <1>4, <1>8 DEF IInv, OutcomeIsTrue, Listed, Decided
<1>10. Calls'
  BY <1>3, <1>4, <1>8 DEF IInv, Calls, Sent, Listed
<1>11. \A q \in Processes : WorksOn(q)'
  <2> SUFFICES ASSUME NEW q \in Processes PROVE WorksOn(q)'
    OBVIOUS
  <2>1. WorksOn(q) /\ process'[q] = process[q]
    BY <1>4 DEF IInv
  <2>2. process[q] \in Process
    BY DEF IInv, TypeOK
  <2> QED
    BY <1>3, <1>4, <1>8, <2>1, <2>2 DEF WorksOn, Sent, Listed, Process
<1>12. Webhooks'
  BY <1>3, <1>4, <1>8 DEF IInv, Webhooks
<1> QED
  BY <1>6, <1>7, <1>9, <1>10, <1>11, <1>12 DEF IInv

-----------------------------------------------------------------------------
(* Customer, approvers and administrators *)

\* A request holds the amount.
LEMMA RequestInv == ASSUME IInv, NEW w \in Ids, RequestWithdrawal(w) PROVE IInv'
<1> USE DEF controls, provider
<1> DEFINE t == IF automatic THEN "approved" ELSE "pending_approval"
<1>1. /\ status[w] = "none"
      /\ status' = [status EXCEPT ![w] = t]
      /\ requested' = Append(requested, w) /\ journals' = [journals EXCEPT ![w] = {"hold"}]
      /\ UNCHANGED <<controls, bound, approvals, dispatches, reserved, closed, process, provider, inbox, faults>>
  BY DEF RequestWithdrawal
<1>2. /\ status \in [Ids -> {"none", "pending_approval", "approved", "submitted"} \cup Final]
      /\ journals \in [Ids -> SUBSET {"hold", "cancel", "release", "settlement"}]
      /\ requested \in Seq(Ids)
  BY DEF IInv, TypeOK
<1>3. /\ status'[w] = t /\ journals'[w] = {"hold"}
      /\ \A v \in Ids : v # w => status'[v] = status[v] /\ journals'[v] = journals[v]
  BY <1>1, <1>2
<1>4. t \in {"approved", "pending_approval"} /\ (t = "approved" => automatic)
  OBVIOUS
<1>5. w \notin bound /\ ~Sent(w)
  BY <1>1 DEF IInv, DispatchRows, Submitted, Past
<1>6. process' \in [Processes -> Process] /\ (\A q \in Processes : WorksOn(q)') /\ OneCaller'
  BY <1>1, ProcessesStay
<1> HIDE DEF t
<1>7. TypeOK'
  <2>1. /\ status' \in [Ids -> {"none", "pending_approval", "approved", "submitted"} \cup Final]
        /\ journals' \in [Ids -> SUBSET {"hold", "cancel", "release", "settlement"}]
        /\ requested' \in Seq(Ids)
    BY <1>1, <1>2, <1>4, AppendProperties
  <2> QED
    BY <1>1, <2>1 DEF IInv, TypeOK
<1>8. LedgerFollowsStatus'
  BY <1>3, <1>4 DEF IInv, LedgerFollowsStatus
<1>9. OutcomeIsTrue'
  BY <1>1, <1>3 DEF IInv, OutcomeIsTrue, Listed
<1>10. DispatchRows'
  BY <1>1, <1>3, <1>4, <1>5 DEF IInv, DispatchRows, Submitted, Past, Sent, Listed
<1>11. Approved'
  BY <1>1, <1>3, <1>4 DEF IInv, Approved, Past
<1>12. Calls' /\ Webhooks'
  BY <1>1 DEF IInv, Calls, Webhooks, Sent, Listed
<1> QED
  BY <1>6, <1>7, <1>8, <1>9, <1>10, <1>11, <1>12 DEF IInv

\* An approval is counted with those before it.
LEMMA ApproveInv == ASSUME IInv, NEW w \in Ids, NEW a \in Approvers, ApproveWithdrawal(a, w) PROVE IInv'
<1> USE DEF controls, provider
<1>1. /\ status[w] = "pending_approval"
      /\ approvals' = [approvals EXCEPT ![w] = @ \cup {a}]
      /\ \/ status' = [status EXCEPT ![w] = "approved"] /\ Cardinality(approvals'[w]) >= 2
         \/ status' = status
      /\ UNCHANGED <<controls, bound, requested, journals, dispatches, reserved, closed, process, provider, inbox, faults>>
  BY DEF ApproveWithdrawal, EnoughApprovals
<1>2. /\ status \in [Ids -> {"none", "pending_approval", "approved", "submitted"} \cup Final]
      /\ approvals \in [Ids -> SUBSET Approvers]
  BY DEF IInv, TypeOK
<1>3. \A v \in Ids : v # w => status'[v] = status[v] /\ approvals'[v] = approvals[v]
  BY <1>1, <1>2
<1>4. status'[w] = "pending_approval" \/ (status'[w] = "approved" /\ Cardinality(approvals'[w]) >= 2)
  BY <1>1, <1>2
<1>5. w \notin bound /\ ~Sent(w) /\ journals[w] = {"hold"}
  BY <1>1 DEF IInv, DispatchRows, Submitted, Past, LedgerFollowsStatus
<1>6. process' \in [Processes -> Process] /\ (\A q \in Processes : WorksOn(q)') /\ OneCaller'
  BY <1>1, ProcessesStay
<1>7. TypeOK'
  <2>1. /\ status' \in [Ids -> {"none", "pending_approval", "approved", "submitted"} \cup Final]
        /\ approvals' \in [Ids -> SUBSET Approvers]
    BY <1>1, <1>2
  <2> QED
    BY <1>1, <2>1 DEF IInv, TypeOK
<1>8. LedgerFollowsStatus'
  BY <1>1, <1>3, <1>4, <1>5 DEF IInv, LedgerFollowsStatus
<1>9. OutcomeIsTrue' /\ Calls' /\ Webhooks'
  BY <1>1 DEF IInv, OutcomeIsTrue, Listed, Calls, Webhooks, Sent
<1>10. DispatchRows'
  BY <1>1, <1>3, <1>4, <1>5 DEF IInv, DispatchRows, Submitted, Past, Sent, Listed
<1>11. Approved'
  BY <1>1, <1>3, <1>4 DEF IInv, Approved, Past
<1> QED
  BY <1>6, <1>7, <1>8, <1>9, <1>10, <1>11 DEF IInv

\* A cancellation finds a withdrawal that was never dispatched.
LEMMA CancelInv == ASSUME IInv, NEW w \in Ids, CancelWithdrawal(w) PROVE IInv'
<1> USE DEF controls, provider
<1>1. /\ status[w] = "pending_approval"
      /\ status' = [status EXCEPT ![w] = "cancelled"] /\ journals' = [journals EXCEPT ![w] = @ \cup {"cancel"}]
      /\ UNCHANGED <<controls, bound, requested, approvals, dispatches, reserved, closed, process, provider, inbox, faults>>
  BY DEF CancelWithdrawal, Cancellable
<1>2. /\ status \in [Ids -> {"none", "pending_approval", "approved", "submitted"} \cup Final]
      /\ journals \in [Ids -> SUBSET {"hold", "cancel", "release", "settlement"}]
  BY DEF IInv, TypeOK
<1>3. journals[w] = {"hold"}
  BY <1>1 DEF IInv, LedgerFollowsStatus
<1>4. /\ status'[w] = "cancelled" /\ journals'[w] = {"hold", "cancel"}
      /\ \A v \in Ids : v # w => status'[v] = status[v] /\ journals'[v] = journals[v]
  BY <1>1, <1>2, <1>3
<1>5. w \notin bound /\ ~Sent(w) /\ tx[w] = "NONE"
  BY <1>1 DEF IInv, DispatchRows, Submitted, Past, Calls
<1>6. process' \in [Processes -> Process] /\ (\A q \in Processes : WorksOn(q)') /\ OneCaller'
  BY <1>1, ProcessesStay
<1>7. TypeOK'
  <2>1. /\ status' \in [Ids -> {"none", "pending_approval", "approved", "submitted"} \cup Final]
        /\ journals' \in [Ids -> SUBSET {"hold", "cancel", "release", "settlement"}]
    BY <1>1, <1>2 DEF Final
  <2> QED
    BY <1>1, <2>1 DEF IInv, TypeOK
<1>8. LedgerFollowsStatus'
  BY <1>4 DEF IInv, LedgerFollowsStatus
<1>9. OutcomeIsTrue'
  BY <1>1, <1>4, <1>5 DEF IInv, OutcomeIsTrue, Listed, Sent
<1>10. DispatchRows'
  BY <1>1, <1>4, <1>5 DEF IInv, DispatchRows, Submitted, Past, Sent, Listed
<1>11. Approved'
  BY <1>1, <1>4 DEF IInv, Approved, Past
<1>12. Calls' /\ Webhooks'
  BY <1>1 DEF IInv, Calls, Webhooks, Sent, Listed
<1> QED
  BY <1>6, <1>7, <1>8, <1>9, <1>10, <1>11, <1>12 DEF IInv

\* The switches change no row of a withdrawal.
LEMMA SwitchInv ==
  ASSUME IInv, DisableWithdrawals \/ EnableWithdrawals \/ ConfigurePilot \/ IssueTestMoney PROVE IInv'
<1> USE DEF tables, provider
<1>1. UNCHANGED <<automatic, tables, process, provider, inbox>>
  BY DEF DisableWithdrawals, EnableWithdrawals, ConfigurePilot, IssueTestMoney
<1>2. faults' \in 0..MaxFaults
  BY FaultsType, SpendType DEF DisableWithdrawals, EnableWithdrawals, ConfigurePilot, IssueTestMoney
<1>3. {enabled, automatic, limits, granted}' \subseteq BOOLEAN
  BY DEF IInv, TypeOK, DisableWithdrawals, EnableWithdrawals, ConfigurePilot, IssueTestMoney
<1>4. process' \in [Processes -> Process] /\ (\A q \in Processes : WorksOn(q)') /\ OneCaller'
  BY <1>1, ProcessesStay
<1>5. TypeOK'
  BY <1>1, <1>2, <1>3 DEF IInv, TypeOK
<1>6. LedgerFollowsStatus' /\ OutcomeIsTrue' /\ DispatchRows' /\ Approved' /\ Calls' /\ Webhooks'
  BY <1>1 DEF IInv, LedgerFollowsStatus, OutcomeIsTrue, DispatchRows, Approved, Calls, Webhooks, Sent, Listed
<1> QED
  BY <1>4, <1>5, <1>6 DEF IInv

-----------------------------------------------------------------------------
(* The theorems *)

\* Before the first request.
LEMMA InitInv == Init => IInv
<1> SUFFICES ASSUME Init PROVE IInv
  OBVIOUS
<1> USE DEF Init
<1>1. TypeOK
  <2>1. Restarted \in Process
    BY RestartedHarmless DEF Harmless
  <2>2. {enabled, automatic, limits, granted} \subseteq BOOLEAN
    BY Zenon
  <2>3. process \in [Processes -> Process]
    BY <2>1
  <2>4. /\ requested \in Seq(Ids) /\ dispatches \in Seq(Ids)
        /\ vault \in [Kinds -> Nat] /\ faults \in 0..MaxFaults
    OBVIOUS
  <2>5. /\ status \in [Ids -> {"none", "pending_approval", "approved", "submitted"} \cup Final]
        /\ approvals \in [Ids -> SUBSET Approvers]
        /\ journals \in [Ids -> SUBSET {"hold", "cancel", "release", "settlement"}]
        /\ tx \in [Ids -> {"NONE"} \cup Pending \cup Succeeds \cup Fails] /\ calls \in [Ids -> Nat]
    OBVIOUS
  <2>6. bound \subseteq Ids /\ reserved \subseteq Ids /\ closed \subseteq reserved
    OBVIOUS
  <2> QED
    BY <2>2, <2>3, <2>4, <2>5, <2>6 DEF TypeOK
<1>2. Listed(dispatches) = {}
  BY DEF Listed
<1>3. LedgerFollowsStatus /\ OutcomeIsTrue /\ Webhooks
  BY <1>2 DEF LedgerFollowsStatus, OutcomeIsTrue, Webhooks
<1>4. DispatchRows /\ Approved /\ Calls
  BY <1>2 DEF DispatchRows, Approved, Calls, Sent, Submitted, Past
<1>5. \A p \in Processes : process[p].op = "reconcile"
  BY DEF Restarted, At
<1>6. (\A p \in Processes : WorksOn(p)) /\ OneCaller
  BY <1>5 DEF WorksOn, OneCaller, In
<1> QED
  BY <1>1, <1>3, <1>4, <1>6 DEF IInv

\* Steps that change nothing.
LEMMA StutterInv == ASSUME IInv, UNCHANGED vars PROVE IInv'
<1> USE DEF vars, controls, tables, provider
<1>1. process' \in [Processes -> Process] /\ (\A q \in Processes : WorksOn(q)') /\ OneCaller'
  BY ProcessesStay
<1>2. TypeOK'
  BY DEF IInv, TypeOK
<1>3. LedgerFollowsStatus' /\ OutcomeIsTrue' /\ DispatchRows' /\ Approved' /\ Calls' /\ Webhooks'
  BY DEF IInv, LedgerFollowsStatus, OutcomeIsTrue, DispatchRows, Approved, Calls, Webhooks, Sent, Listed
<1> QED
  BY <1>1, <1>2, <1>3 DEF IInv

\* Every step keeps the invariant.
LEMMA NextInv == ASSUME IInv, [Next]_vars PROVE IInv'
<1>1. CASE People
  BY <1>1, RequestInv, CancelInv, ApproveInv, SwitchInv DEF People
<1>2. CASE Outside
  BY <1>2, CreateWithdrawalInv, RestartInv, ProviderDecidesInv, WebhookInv DEF Outside
<1>3. ASSUME NEW p \in Processes, Step(p) PROVE IInv'
  BY <1>3, StartReconciliationInv, LookupInv, BindFoundInv, RecordObservationInv, ApplyObservationInv,
     StartSendingInv, ObserveInv, BeginDispatchInv, SkipDispatchInv, RestartInv, CreateWithdrawalInv, AcknowledgeInv
     DEF Step
<1>4. CASE UNCHANGED vars
  BY <1>4, StutterInv
<1> QED
  BY <1>1, <1>2, <1>3, <1>4 DEF Next

\* IInv holds throughout: the tables, the processes and the provider stay in step.
THEOREM WithdrawalInvariance == Spec => []IInv
<1>1. Init => IInv
  BY InitInv
<1>2. IInv /\ [Next]_vars => IInv'
  BY NextInv
<1> QED
  BY <1>1, <1>2, PTL DEF Spec

\* Tables and processes keep their types; in particular only reserved capacity is closed.
THEOREM WithdrawalTypes == Spec => []TypeOK
<1>1. IInv => TypeOK
  BY DEF IInv
<1> QED
  BY <1>1, WithdrawalInvariance, PTL

\* With any number of processes, crashes and lost answers, BeginWithdrawalDispatch
\* lets the provider be asked at most once to pay a withdrawal.
THEOREM AtMostOneCall == Spec => []CalledOnce
<1>1. IInv => CalledOnce
  BY DEF IInv, Calls, CalledOnce
<1> QED
  BY <1>1, WithdrawalInvariance, PTL

\* RequestWithdrawal, CancelWithdrawal and RecordWithdrawalCustodyUpdate leave each
\* withdrawal with exactly the journals of its status.
THEOREM JournalsFollowStatus == Spec => []LedgerFollowsStatus
<1>1. IInv => LedgerFollowsStatus
  BY DEF IInv
<1> QED
  BY <1>1, WithdrawalInvariance, PTL

\* Settlement, release and cancellation are only posted when the provider paid,
\* will never pay, or was never asked.
THEOREM LedgerIsTrue == Spec => []OutcomeIsTrue
<1>1. IInv => OutcomeIsTrue
  BY DEF IInv
<1> QED
  BY <1>1, WithdrawalInvariance, PTL

\* Nothing is sent that neither two approvers nor the automatic mode approved.
THEOREM DualControlKept == Spec => []DualControl
<1>1. IInv => DualControl
  BY DEF IInv, Calls, DispatchRows, Approved, DualControl
<1> QED
  BY <1>1, WithdrawalInvariance, PTL

-----------------------------------------------------------------------------
(* Test money does not leave: the bound on what is committed *)

\* The withdrawals that are on their way or paid, for a column of statuses.
Gone     == {"none", "failed", "cancelled"}
Live(st) == {w \in Ids : st[w] \notin Gone}

\* What is on its way or paid is covered by deposits.
CoveredInv == Sum(Live(status)) <= Deposited

\* The amounts, as the lemmas about sums need them.
LEMMA Amounts ==
  /\ Amount \in [Ids -> Int] /\ IsFiniteSet(Ids) /\ Deposited \in Nat /\ Grant \in Nat
  /\ \A w \in Ids : Amount[w] \in Int /\ 0 <= Amount[w]
  BY AmountsAssumption

\* Sums of amounts are integers.
LEMMA SumsAreInt == ASSUME NEW S \in SUBSET Ids PROVE IsFiniteSet(S) /\ Sum(S) \in Int
<1>1. IsFiniteSet(S)
  BY Amounts, FS_Subset
<1> QED
  BY <1>1, Amounts, SumType DEF Sum

\* Fewer withdrawals have a smaller sum.
LEMMA FewerLess == ASSUME NEW S \in SUBSET Ids, NEW T \in SUBSET S PROVE Sum(T) <= Sum(S)
<1>1. IsFiniteSet(S) /\ \A x \in S \ T : 0 <= Amount[x]
  BY SumsAreInt, Amounts
<1> QED
  BY <1>1, Amounts, SumSubset DEF Sum

\* A part and the rest add up to the whole.
LEMMA PartsAddUp == ASSUME NEW S \in SUBSET Ids, NEW T \in SUBSET S PROVE Sum(S) = Sum(T) + Sum(S \ T)
<1>1. IsFiniteSet(S) /\ Amount \in [Ids -> Int]
  BY SumsAreInt, Amounts
<1> QED
  BY <1>1, SumSplit DEF Sum

\* What checkWithdrawalEntitlement counts is what is on its way or paid.
LEMMA CommittedIsLive == ASSUME IInv PROVE Committed = Live(status)
  BY DEF IInv, LedgerFollowsStatus, Committed, Live, Gone

\* The balance the request checks is what the live withdrawals leave over.
LEMMA AvailableIs ==
  ASSUME IInv
  PROVE  Available = Deposited + (IF granted THEN Grant ELSE 0) - Sum(Live(status))
<1> DEFINE H == Posted("hold")  C == Posted("cancel")  R == Posted("release")
<1>1. C \in SUBSET H /\ R \in SUBSET (H \ C) /\ (H \ C) \ R = Live(status)
  <2>1. ASSUME NEW w \in Ids
        PROVE  /\ "hold" \in journals[w] <=> status[w] # "none"
               /\ "cancel" \in journals[w] <=> status[w] = "cancelled"
               /\ "release" \in journals[w] <=> status[w] = "failed"
    BY DEF IInv, LedgerFollowsStatus
  <2> QED
    BY <2>1 DEF Posted, Live, Gone
<1>2. H \in SUBSET Ids /\ H \ C \in SUBSET Ids /\ C \in SUBSET Ids /\ R \in SUBSET Ids /\ Live(status) \in SUBSET Ids
  BY DEF Posted, Live
<1> HIDE DEF H, C, R
<1>3. Sum(H) = Sum(C) + Sum(H \ C)
  BY <1>1, <1>2, PartsAddUp
<1>4. Sum(H \ C) = Sum(R) + Sum((H \ C) \ R)
  BY <1>1, <1>2, PartsAddUp
<1>5. Sum(H) \in Int /\ Sum(C) \in Int /\ Sum(R) \in Int /\ Sum(H \ C) \in Int /\ Sum(Live(status)) \in Int
  BY <1>2, SumsAreInt
<1>6. Sum(H) = Sum(C) + Sum(R) + Sum(Live(status))
  <2>1. \A h, c, r, l, k \in Int : h = c + k /\ k = r + l => h = c + r + l
    OBVIOUS
  <2>2. Sum(H \ C) = Sum(R) + Sum(Live(status))
    BY <1>1, <1>4
  <2> QED
    BY <2>1, <2>2, <1>3, <1>5
<1>7. \A h, c, r, l, d, g \in Int : h = c + r + l => d + g - h + c + r = d + g - l
  OBVIOUS
<1>8. (IF granted THEN Grant ELSE 0) \in Int /\ Deposited \in Int
  BY Amounts
<1> QED
  BY <1>5, <1>6, <1>7, <1>8 DEF Available, H, C, R

\* A step that makes no withdrawal live keeps the bound.
LEMMA NoneGoesLive ==
  ASSUME CoveredInv, \A w \in Ids : status'[w] \notin Gone => status[w] \notin Gone
  PROVE  CoveredInv'
<1>1. Live(status') \in SUBSET Live(status) /\ Live(status) \in SUBSET Ids /\ Live(status') \in SUBSET Ids
  BY DEF Live
<1>2. Sum(Live(status')) <= Sum(Live(status)) /\ Sum(Live(status')) \in Int /\ Sum(Live(status)) \in Int
  BY <1>1, FewerLess, SumsAreInt
<1> QED
  BY <1>2, Amounts DEF CoveredInv

\* RequestWithdrawal: with test money about, the entitlement limits it to the
\* deposits; without, the balance does.
LEMMA RequestCovered == ASSUME IInv, CoveredInv, NEW w \in Ids, RequestWithdrawal(w) PROVE CoveredInv'
<1> DEFINE L == Live(status)
<1>1. L \in SUBSET Ids /\ w \notin L /\ status[w] = "none"
  BY DEF RequestWithdrawal, Live, Gone
<1>2. Live(status') = L \cup {w}
  <2>1. status'[w] \notin Gone /\ \A v \in Ids : v # w => status'[v] = status[v]
    BY DEF RequestWithdrawal, IInv, TypeOK, Gone
  <2> QED
    BY <2>1 DEF Live
<1>3. Sum(L) \in Int /\ IsFiniteSet(L)
  BY <1>1, SumsAreInt
<1>4. Sum(Live(status')) = Amount[w] + Sum(L)
  BY <1>1, <1>2, <1>3, Amounts, SumAdd DEF Sum
<1> HIDE DEF L
<1>5. Amount[w] + Sum(L) <= Deposited
  <2>1. CASE granted
    <3>1. Sum(L) + Amount[w] <= Deposited
      BY <2>1, CommittedIsLive DEF RequestWithdrawal, Entitled, Enforced, L
    <3> QED
      BY <3>1, <1>3, Amounts
  <2>2. CASE ~granted
    <3>1. Available = Deposited + 0 - Sum(L)
      BY <2>2, AvailableIs DEF L
    <3>2. Available >= Amount[w]
      BY DEF RequestWithdrawal
    <3> QED
      BY <3>1, <3>2, <1>3, Amounts
  <2> QED
    BY <2>1, <2>2
<1> QED
  BY <1>4, <1>5 DEF CoveredInv

\* MarkWithdrawalSubmitted moves an approved withdrawal on.
LEMMA MarkKeepsLive ==
  ASSUME IInv, NEW w, MarkWithdrawalSubmitted(w), NEW v \in Ids, status'[v] \notin Gone
  PROVE  status[v] \notin Gone
  BY DEF IInv, TypeOK, MarkWithdrawalSubmitted, Gone

\* RecordWithdrawalCustodyUpdate ends a submitted withdrawal.
LEMMA UpdateKeepsLive ==
  ASSUME IInv, NEW w \in Ids, NEW s, RecordWithdrawalCustodyUpdate(w, s), NEW v \in Ids, status'[v] \notin Gone
  PROVE  status[v] \notin Gone
<1>1. CASE Updatable(w, s)
  <2>1. status[w] \notin Gone
    BY <1>1 DEF Updatable, IInv, DispatchRows, Submitted, Gone, Final
  <2>2. v # w => status'[v] = status[v]
    BY <1>1 DEF RecordWithdrawalCustodyUpdate, IInv, TypeOK
  <2> QED
    BY <2>1, <2>2
<1>2. CASE ~Updatable(w, s)
  BY <1>2 DEF RecordWithdrawalCustodyUpdate
<1> QED
  BY <1>1, <1>2

\* A webhook does no more than that.
LEMMA WebhookKeepsLive ==
  ASSUME IInv, NEW m \in inbox, ApplyWebhook(m), NEW v \in Ids, status'[v] \notin Gone
  PROVE  status[v] \notin Gone
<1>1. m.id \in Ids
  BY DEF IInv, Webhooks
<1>2. status' = status \/ RecordWithdrawalCustodyUpdate(m.id, m.status)
  BY DEF ApplyWebhook
<1> QED
  BY <1>1, <1>2, UpdateKeepsLive

\* Approvals and cancellations concern withdrawals that were already requested.
LEMMA PeopleKeepLive ==
  ASSUME IInv, NEW w \in Ids, CancelWithdrawal(w) \/ \E a \in Approvers : ApproveWithdrawal(a, w),
         NEW v \in Ids, status'[v] \notin Gone
  PROVE  status[v] \notin Gone
<1>1. status[w] = "pending_approval"
  BY DEF CancelWithdrawal, Cancellable, ApproveWithdrawal
<1>2. v # w => status'[v] = status[v]
  BY DEF CancelWithdrawal, ApproveWithdrawal, IInv, TypeOK
<1> QED
  BY <1>1, <1>2 DEF Gone

\* Every step keeps the bound.
LEMMA NextCovered == ASSUME IInv, CoveredInv, [Next]_vars PROVE CoveredInv'
<1> DEFINE Keeps == \A v \in Ids : status'[v] \notin Gone => status[v] \notin Gone
<1>1. CASE People
  <2>1. ASSUME NEW w \in Ids, RequestWithdrawal(w) PROVE CoveredInv'
    BY <2>1, RequestCovered
  <2>2. ASSUME NEW w \in Ids, CancelWithdrawal(w) \/ \E a \in Approvers : ApproveWithdrawal(a, w) PROVE Keeps
    BY <2>2, PeopleKeepLive
  <2>3. ASSUME DisableWithdrawals \/ EnableWithdrawals \/ ConfigurePilot \/ IssueTestMoney PROVE Keeps
    BY <2>3 DEF DisableWithdrawals, EnableWithdrawals, ConfigurePilot, IssueTestMoney, tables
  <2> QED
    BY <1>1, <2>1, <2>2, <2>3, NoneGoesLive DEF People
<1>2. CASE Outside
  <2>1. ASSUME NEW p \in Processes, LostAnswer(p) \/ CrashOrError(p) PROVE Keeps
    BY <2>1 DEF LostAnswer, CrashOrError, tables
  <2>2. ASSUME NEW w \in Ids, ProviderDecides(w) PROVE Keeps
    BY <2>2 DEF ProviderDecides, tables
  <2>3. ASSUME NEW m \in inbox, ProcessWebhook(m) \/ ProcessWebhookAgain(m) \/ LoseWebhook(m) PROVE Keeps
    BY <2>3, WebhookKeepsLive DEF ProcessWebhook, ProcessWebhookAgain, LoseWebhook, tables
  <2> QED
    BY <1>2, <2>1, <2>2, <2>3, NoneGoesLive DEF Outside
<1>3. ASSUME NEW p \in Processes, Step(p) PROVE CoveredInv'
  <2>1. ASSUME BindFound(p) \/ Acknowledge(p) PROVE Keeps
    BY <2>1, MarkKeepsLive DEF BindFound, Acknowledge
  <2>2. ASSUME ApplyObservation(p) PROVE Keeps
    <3>1. Item(p) \in Ids
      BY <2>2, ItemFacts DEF ApplyObservation, In
    <3> QED
      BY <2>2, <3>1, UpdateKeepsLive DEF ApplyObservation
  <2>3. ASSUME StartReconciliation(p) \/ Lookup(p) \/ RecordObservation(p) \/ StartSending(p) \/ Observe(p)
               \/ BeginDispatch(p) \/ SkipDispatch(p) \/ DispatchError(p) \/ CreateWithdrawal(p)
        PROVE  Keeps
    BY <2>3 DEF StartReconciliation, Lookup, RecordObservation, StartSending, Observe, BeginDispatch, SkipDispatch,
                DispatchError, CreateWithdrawal, tables
  <2> QED
    BY <1>3, <2>1, <2>2, <2>3, NoneGoesLive DEF Step
<1>4. CASE UNCHANGED vars
  <2>1. Keeps
    BY <1>4 DEF vars, tables
  <2> QED
    BY <2>1, NoneGoesLive
<1> QED
  BY <1>1, <1>2, <1>3, <1>4 DEF Next

\* Nothing is requested at the start.
LEMMA InitCovered == Init => CoveredInv
<1> SUFFICES ASSUME Init PROVE CoveredInv
  OBVIOUS
<1>1. Live(status) = {}
  BY DEF Init, Live, Gone
<1> QED
  BY <1>1, SumEmpty, Amounts DEF CoveredInv, Sum

\* What the provider paid, or may still pay, is on its way or paid in the ledger.
LEMMA PaidIsLive == ASSUME IInv PROVE {w \in Ids : tx[w] \in Pending \cup Succeeds} \in SUBSET Live(status)
<1> SUFFICES ASSUME NEW w \in Ids, tx[w] \in Pending \cup Succeeds PROVE status[w] \notin Gone
  BY DEF Live
<1>1. tx[w] # "NONE" /\ tx[w] \notin Fails
  BY DEF Pending, Succeeds, Fails
<1>2. Sent(w)
  BY <1>1 DEF IInv, Calls
<1>3. status[w] \in Past
  BY <1>2 DEF IInv, DispatchRows
<1>4. status[w] # "failed"
  BY <1>1 DEF IInv, LedgerFollowsStatus, OutcomeIsTrue
<1> QED
  BY <1>3, <1>4 DEF Past, Gone

\* What was paid, or may still be, never exceeds the credited deposits, whatever test
\* money was issued: RequestWithdrawal checks the entitlement once there is any.
THEOREM DepositsCover == Spec => []PaidFromDeposits
<1>1. Init => CoveredInv
  BY InitCovered
<1>2. IInv /\ CoveredInv /\ [Next]_vars => CoveredInv'
  BY NextCovered
<1>3. IInv /\ CoveredInv => PaidFromDeposits
  <2> SUFFICES ASSUME IInv, CoveredInv PROVE PaidFromDeposits
    OBVIOUS
  <2> DEFINE P == {w \in Ids : tx[w] \in Pending \cup Succeeds}
  <2>1. P \in SUBSET Live(status) /\ Live(status) \in SUBSET Ids /\ P \in SUBSET Ids
    BY PaidIsLive DEF Live
  <2>2. Sum(P) <= Sum(Live(status)) /\ Sum(P) \in Int /\ Sum(Live(status)) \in Int
    BY <2>1, FewerLess, SumsAreInt
  <2> QED
    BY <2>2, Amounts DEF CoveredInv, PaidFromDeposits
<1> QED
  BY <1>1, <1>2, <1>3, WithdrawalInvariance, PTL DEF Spec

-----------------------------------------------------------------------------
(* Deposits: the address a customer is told, and the credit *)

\* A request that has a vault.
HasVault(q) == q = [pc |-> q.pc, vault |-> q.vault]

\* The vault linked to the customer is never replaced, and every request that goes on to the address has it.
AddressInv ==
  /\ vaults \in Nat /\ request = [r \in Requests |-> request[r]]
  /\ \A r \in Requests :
       /\ HasVault(request[r])
       /\ request[r].pc = "save" => request[r].vault # 0
       /\ request[r].pc = "address" => request[r].vault = wallet /\ wallet # 0
  /\ address # 0 => address = wallet /\ told \subseteq {address}
  /\ address = 0 => told = {}

\* It holds at first.
LEMMA AddressInit == DepositInit => AddressInv
<1>1. DepositInit => /\ vaults = 0 /\ wallet = 0 /\ address = 0 /\ told = {}
                     /\ request = [r \in Requests |-> [pc |-> "start", vault |-> 0]]
  BY DEF DepositInit
<1> QED
  BY <1>1 DEF AddressInv, HasVault

\* Every step of a request keeps it, and nothing else touches the address.
LEMMA AddressStep == ASSUME AddressInv, [DepositNext]_depositVars PROVE AddressInv'
<1>1. CASE UNCHANGED addressVars
  BY <1>1 DEF AddressInv, addressVars
<1>2. ASSUME NEW r \in Requests, ActiveDepositAddress(r) PROVE AddressInv'
  <2>1. CASE address # 0
    <3>1. address' = wallet' /\ told' \subseteq {address'} /\ address' # 0
      BY <1>2, <2>1 DEF AddressInv, ActiveDepositAddress
    <3>2. request' = [request EXCEPT ![r].pc = "done"] /\ UNCHANGED <<vaults, wallet>>
      BY <1>2, <2>1 DEF ActiveDepositAddress
    <3> QED
      BY <3>1, <3>2 DEF AddressInv, HasVault
  <2>2. CASE address = 0
    BY <1>2, <2>2 DEF AddressInv, HasVault, ActiveDepositAddress
  <2> QED
    BY <2>1, <2>2
<1>3. ASSUME NEW r \in Requests, CustodyWallet(r) PROVE AddressInv'
  BY <1>3 DEF AddressInv, HasVault, CustodyWallet
<1>4. ASSUME NEW r \in Requests, CreateCustomerWallet(r) PROVE AddressInv'
  BY <1>4 DEF AddressInv, HasVault, CreateCustomerWallet
<1>5. ASSUME NEW r \in Requests, SaveCustodyWallet(r) PROVE AddressInv'
  BY <1>5 DEF AddressInv, HasVault, SaveCustodyWallet, Linked
<1>6. ASSUME NEW r \in Requests, SaveDepositAddress(r) PROVE AddressInv'
  BY <1>6 DEF AddressInv, HasVault, SaveDepositAddress
<1>7. CASE \E r \in Requests : DepositAddress(r)
  BY <1>2, <1>3, <1>4, <1>5, <1>6, <1>7 DEF DepositAddress
<1>8. CASE ~\E r \in Requests : DepositAddress(r)
  <2>1. UNCHANGED addressVars
    BY <1>8 DEF DepositNext, depositVars, Pay, fireblocksWebhook, Work, WorkerStops, ApproveDeposit, Flag,
                DepositForReconciliation, Reconcile, Rotate, CopyExpires
  <2> QED
    BY <1>1, <2>1
<1> QED
  BY <1>7, <1>8

\* The customer is told one address, that of the vault linked to him, for any number of
\* requests at the same time: of two vaults that Service.DepositAddress lets the provider
\* create, SaveCustodyWallet keeps the first.
THEOREM OneAddressTold == DepositSpec => []OneAddress
<1>1. DepositInit => AddressInv
  BY AddressInit
<1>2. AddressInv /\ [DepositNext]_depositVars => AddressInv'
  BY AddressStep
<1>3. AddressInv => OneAddress
  BY DEF AddressInv, OneAddress
<1> QED
  BY <1>1, <1>2, <1>3, PTL DEF DepositSpec

\* A row of the deposits has a status and a risk decision.
IsDeposit(d) == {"status", "risk"} \subseteq DOMAIN d

\* The queue has reports of the provider, and a worker that goes on to apply one has it from there.
HasReport ==
  /\ queue \subseteq Reports /\ worker = [w \in Workers |-> worker[w]]
  /\ \A w \in Workers : worker[w].pc = "apply" => worker[w].hook \in Reports

\* It holds at first.
LEMMA ReportInit == DepositInit => HasReport
<1>1. DepositInit => queue = {} /\ worker = [w \in Workers |-> IdleWorker]
  BY DEF DepositInit
<1>2. IdleWorker.pc = "idle"
  BY DEF IdleWorker
<1> QED
  BY <1>1, <1>2 DEF HasReport

\* A report comes to the queue from the provider and to a worker from the queue.
LEMMA ReportStep == ASSUME HasReport, [DepositNext]_depositVars PROVE HasReport'
<1>1. CASE UNCHANGED <<queue, worker>>
  BY <1>1 DEF HasReport
<1>2. ASSUME NEW h \in Reports, fireblocksWebhook(h) PROVE HasReport'
  BY <1>2 DEF fireblocksWebhook, RecordWebhookReceipt, HasReport
<1>3. ASSUME NEW w \in Workers, Work(w) \/ WorkerStops(w) PROVE HasReport'
  <2>1. IdleWorker.pc = "idle"
    BY DEF IdleWorker
  <2>2. CASE WebhookPayload(w)
    <3>1. PICK h \in queue : worker' = [worker EXCEPT ![w] = [hook |-> h, pc |-> worker'[w].pc]]
      BY <2>2 DEF WebhookPayload, HasReport
    <3>2. queue' = queue
      BY <2>2 DEF WebhookPayload
    <3> QED
      BY <3>1, <3>2 DEF HasReport
  <2>3. CASE ObserveDeposit(w)
    <3>1. worker' = [worker EXCEPT ![w].pc = "mark"] /\ queue' = queue
      BY <2>3 DEF ObserveDeposit, Proceed
    <3> QED
      BY <3>1 DEF HasReport
  <2>4. CASE MarkWebhookProcessed(w)
    BY <2>4 DEF MarkWebhookProcessed, Proceed, HasReport
  <2>5. CASE Delete(w)
    BY <2>1, <2>5 DEF Delete, HasReport
  <2>6. CASE WorkerStops(w)
    BY <2>1, <2>6 DEF WorkerStops, HasReport
  <2> QED
    BY <1>3, <2>2, <2>3, <2>4, <2>5, <2>6 DEF Work, RunOnce
<1>4. CASE \/ \E r \in Requests : DepositAddress(r)
           \/ \E k \in Rows : ApproveDeposit(k) \/ Flag(k)
           \/ Pay \/ DepositForReconciliation \/ Reconcile \/ Rotate \/ CopyExpires
           \/ UNCHANGED depositVars
  BY <1>1, <1>4 DEF DepositAddress, ApproveDeposit, Flag, Pay, DepositForReconciliation, Reconcile, Rotate,
                    CopyExpires, depositVars
<1> QED
  BY <1>2, <1>3, <1>4 DEF DepositNext

\* Rows keep their shape, the tool works on one of them, and a row has a credit exactly if its status says so.
CreditInv ==
  /\ deposits = [k \in Rows |-> deposits[k]] /\ credits = [k \in Rows |-> credits[k]]
  /\ \A k \in Rows : IsDeposit(deposits[k])
  /\ tool = [pc |-> tool.pc, row |-> tool.row] /\ tool.row \in Rows
  /\ CreditFollowsStatus

\* It holds at first.
LEMMA CreditInit == DepositInit => CreditInv
<1>1. <<"hash", NoIndex>> \in Rows
  BY DEF Rows, Indexes
<1>2. DepositInit => /\ tool = [pc |-> "idle", row |-> <<"hash", NoIndex>>]
                     /\ deposits = [k \in Rows |-> [status |-> "none", conf |-> 0, risk |-> "not_started", hash |-> FALSE]]
                     /\ credits = [k \in Rows |-> 0]
  BY DEF DepositInit
<1>3. DepositInit => \A k \in Rows : IsDeposit(deposits[k]) /\ credits[k] = 0 /\ deposits[k].status # "credited"
  BY <1>2 DEF IsDeposit
<1>4. DepositInit => tool = [pc |-> tool.pc, row |-> tool.row] /\ tool.row \in Rows
  <2> DEFINE first == <<"hash", NoIndex>>
  <2>1. first \in Rows /\ (DepositInit => tool = [pc |-> "idle", row |-> first])
    BY <1>1, <1>2
  <2> HIDE DEF first
  <2> QED
    BY <2>1
<1>5. DepositInit => deposits = [k \in Rows |-> deposits[k]] /\ credits = [k \in Rows |-> credits[k]]
  BY <1>2
<1> QED
  BY <1>3, <1>4, <1>5 DEF CreditInv, CreditFollowsStatus

\* No report turns a row into a credited one, or a credited one into another.
LEMMA MergedKeepsCredit ==
  ASSUME NEW d, NEW o, IsDeposit(d)
  PROVE IsDeposit(Merged(d, o)) /\ (Merged(d, o).status = "credited" <=> d.status = "credited")
<1>1. Observed(o) # "credited"
  BY DEF Observed
<1>2. Merged(d, o).status = IF d.status \in FinalDeposit THEN d.status ELSE Observed(o)
  BY DEF Merged, IsDeposit
<1>3. IsDeposit(Merged(d, o))
  BY DEF Merged, IsDeposit
<1> QED
  BY <1>1, <1>2, <1>3 DEF FinalDeposit

\* A row that is credited keeps its fields.
LEMMA CreditedRow ==
  ASSUME NEW d, IsDeposit(d)
  PROVE IsDeposit(Credit(d)) /\ Credit(d).status = "credited"
BY DEF Credit, IsDeposit

\* An observation keeps the agreement of credits and status, whichever row it is about.
LEMMA ObservationKeepsCredits ==
  ASSUME CreditInv, NEW k \in Rows, NEW o, ApplyDepositObservation(k, o),
         tool' = [pc |-> tool'.pc, row |-> tool'.row], tool'.row \in Rows
  PROVE CreditInv'
<1> DEFINE row == Merged(deposits[k], o)
           credit == Observed(o) = "pending_risk_review" /\ autoCreditConfirmedDeposit(k, row)
<1>1. IsDeposit(row) /\ (row.status = "credited" <=> deposits[k].status = "credited")
  BY MergedKeepsCredit DEF CreditInv
<1>2. IsDeposit(Credit(row)) /\ Credit(row).status = "credited"
  BY <1>1, CreditedRow
<1>3. CASE ~DepositAssetDecimals
  BY <1>3 DEF ApplyDepositObservation, CreditInv, CreditFollowsStatus
<1>4. CASE DepositAssetDecimals /\ credit
  <2>1. credits[k] = 0 /\ deposits' = [deposits EXCEPT ![k] = Credit(row)] /\ credits' = [credits EXCEPT ![k] = @ + 1]
    BY <1>4 DEF ApplyDepositObservation
  <2> HIDE DEF row, credit
  <2>2. credits'[k] = 1
    BY <2>1 DEF CreditInv
  <2> QED
    BY <1>2, <2>1, <2>2 DEF CreditInv, CreditFollowsStatus
<1>5. CASE DepositAssetDecimals /\ ~credit
  <2>1. deposits' = [deposits EXCEPT ![k] = row] /\ credits' = credits
    BY <1>5 DEF ApplyDepositObservation
  <2> HIDE DEF row, credit
  <2> QED
    BY <1>1, <2>1 DEF CreditInv, CreditFollowsStatus
<1> QED
  BY <1>3, <1>4, <1>5

\* Observations, officers and the tool keep it; nothing else touches a deposit.
LEMMA CreditStep == ASSUME HasReport, CreditInv, [DepositNext]_depositVars PROVE CreditInv'
<1>1. CASE UNCHANGED <<tool, deposits, credits>>
  BY <1>1 DEF CreditInv, CreditFollowsStatus
<1>2. ASSUME NEW w \in Workers, Work(w) PROVE CreditInv'
  <2>1. CASE ObserveDeposit(w)
    <3>1. PICK k \in Rows : k = <<"provider", worker[w].hook.index>>
      BY <2>1 DEF ObserveDeposit, HasReport, Rows, Indexes
    <3>2. ApplyDepositObservation(k, worker[w].hook)
      BY <2>1, <3>1 DEF ObserveDeposit
    <3>3. tool' = [pc |-> tool'.pc, row |-> tool'.row] /\ tool'.row \in Rows
      BY <1>2 DEF Work, CreditInv
    <3> QED
      BY <3>2, <3>3, ObservationKeepsCredits
  <2>2. CASE ~ObserveDeposit(w)
    BY <1>1, <1>2, <2>2 DEF Work, RunOnce, WebhookPayload, MarkWebhookProcessed, Delete
  <2> QED
    BY <2>1, <2>2
<1>3. ASSUME NEW k \in Rows, ApproveDeposit(k) PROVE CreditInv'
  <2>1. IsDeposit(Credit(deposits[k])) /\ Credit(deposits[k]).status = "credited"
    BY CreditedRow DEF CreditInv
  <2>2. credits'[k] = 1
    BY <1>3 DEF ApproveDeposit, CreditInv
  <2> QED
    BY <1>3, <2>1, <2>2 DEF ApproveDeposit, CreditInv, CreditFollowsStatus
<1>4. ASSUME NEW k \in Rows, Flag(k) PROVE CreditInv'
  BY <1>4 DEF Flag, CreditInv, CreditFollowsStatus, IsDeposit
<1>5. CASE DepositForReconciliation
  <2>1. \A k \in Rows : <<k[1], NoIndex>> \in Rows
    BY DEF Rows, Indexes
  <2>2. <<"hash", NoIndex>> \in Rows
    BY DEF Rows, Indexes
  <2>3. PICK k \in Rows : tool' = [pc |-> "apply", row |-> k]
    BY <1>5, <2>1, <2>2 DEF DepositForReconciliation
  <2> QED
    BY <1>5, <2>3 DEF DepositForReconciliation, CreditInv, CreditFollowsStatus
<1>6. CASE Reconcile
  <2>1. tool' = [pc |-> tool'.pc, row |-> tool'.row] /\ tool'.row \in Rows
    BY <1>6 DEF Reconcile, CreditInv
  <2>2. PICK n \in Counts : ApplyDepositObservation(tool.row, [status |-> "CONFIRMING", conf |-> n, hash |-> TRUE])
    BY <1>6 DEF Reconcile
  <2>3. PICK k \in Rows : k = tool.row
    BY DEF CreditInv
  <2> QED
    BY <2>1, <2>2, <2>3, ObservationKeepsCredits
<1>7. CASE UNCHANGED depositVars
  BY <1>1, <1>7 DEF depositVars
<1>8. CASE \/ \E r \in Requests : DepositAddress(r)
           \/ Pay \/ Rotate \/ CopyExpires
           \/ \E h \in Reports : fireblocksWebhook(h)
           \/ \E w \in Workers : WorkerStops(w)
  BY <1>1, <1>8 DEF DepositAddress, Pay, Rotate, CopyExpires, fireblocksWebhook, WorkerStops
<1> QED
  BY <1>2, <1>3, <1>4, <1>5, <1>6, <1>7, <1>8 DEF DepositNext

\* A deposit is credited exactly once when its status says so and never otherwise, for any
\* number of workers, reports in any order and repeated, officers and the tool:
\* ApplyDepositObservation neither undoes a credit nor makes a second.
THEOREM CreditsFollowStatus == DepositSpec => []CreditFollowsStatus
<1>1. DepositInit => HasReport /\ CreditInv
  BY ReportInit, CreditInit
<1>2. HasReport /\ CreditInv /\ [DepositNext]_depositVars => HasReport' /\ CreditInv'
  BY ReportStep, CreditStep
<1>3. CreditInv => CreditFollowsStatus
  BY DEF CreditInv
<1> QED
  BY <1>1, <1>2, <1>3, PTL DEF DepositSpec
=============================================================================
