------------------------------ MODULE Executor ------------------------------
(***************************************************************************)
(* HighPerformanceStateMachine (state_machine/executor.rs) and the block   *)
(* processor of main.rs that drives it: a block is cut into groups by the  *)
(* dependencies between its transactions, the transactions of a group run  *)
(* on concurrent workers, and a block whose transactions all succeed is    *)
(* committed.                                                              *)
(*                                                                         *)
(* get_account and set_account are single steps here; what can happen      *)
(* inside them is the subject of StateDB.  Of the transaction data only    *)
(* the gas it needs is kept, and gas is counted in units.                  *)
(***************************************************************************)
EXTENDS Integers, Sequences, FiniteSets, FiniteSetsExt, TLC

CONSTANTS Addrs,       \* addresses of ordinary accounts
          Contracts,   \* addresses with code at the start
          Blocks,      \* the blocks consensus may deliver: sequences of Tx
          Genesis,     \* [Addrs \cup Contracts -> balance]: the first state
          Workers,     \* MAX_PARALLEL_WORKERS
          BaseGas,     \* the gas of any transaction
          CallGas,     \* estimate_contract_gas
          GasPrice,    \* the gas price of every transaction
          MaxBlocks,   \* how many blocks are delivered
          Create,      \* the recipient of a contract creation (None in the code)
          NoAccount    \* get_account's None

(* calculate_contract_address: a hash of the creator and its nonce, whose  *)
(* range is a bound: a block holds at most two transactions of one sender. *)
Nonces == 0..2 * MaxBlocks
Created == Addrs \X Nonces
Address == Addrs \cup Contracts \cup Created
Account == [bal : Nat, nonce : Nat, code : BOOLEAN]
Default == [bal |-> 0, nonce |-> 0, code |-> FALSE]

(* A signed transfer, call (a recipient with code) or creation. *)
Transaction == [from : Addrs, to : Address \cup {Create}, value : Nat,
                nonce : Nat, gas : Nat, signed : BOOLEAN]

ASSUME ExecutorAssumption ==
    /\ Workers \in Nat \ {0}
    /\ {BaseGas, CallGas, GasPrice, MaxBlocks} \subseteq Nat
    /\ \A a \in Addrs \cup Contracts : a \notin Addrs \X Nat
    /\ Contracts \cap Addrs = {}
    /\ Genesis \in [Addrs \cup Contracts -> Nat]
    /\ NoAccount \notin Account
    /\ \A b \in Blocks :
          /\ b \in Seq(Transaction)
          /\ \A a \in Addrs : Cardinality({i \in DOMAIN b : b[i].from = a}) <= 2

VARIABLES
    accounts,   \* [Address -> Account or NoAccount]: what get_account answers
    committed,  \* what the backend holds
    delivered,  \* how many blocks have been delivered
    phase,      \* where the block processor is
    block,      \* the block it works on
    groups,     \* the execution groups: sequences of sets of positions
    pc,         \* where each transaction of the block is
    changes,    \* each transaction's state_changes not yet applied
    start       \* history: the accounts when the block was delivered

vars == <<accounts, committed, delivered, phase, block, groups, pc, changes, start>>

Init ==
    /\ accounts = [a \in Address |->
          CASE a \in Addrs -> [Default EXCEPT !.bal = Genesis[a]]
            [] a \in Contracts -> [Default EXCEPT !.bal = Genesis[a], !.code = TRUE]
            [] OTHER -> NoAccount]
    /\ committed = accounts
    /\ delivered = 0
    /\ phase = "waiting"
    /\ block = <<>> /\ groups = <<>> /\ pc = <<>> /\ changes = <<>>
    /\ start = accounts

IsContract(a) == accounts[a] # NoAccount /\ accounts[a].code
Account0(a) == IF accounts[a] = NoAccount THEN Default ELSE accounts[a]
Positions == DOMAIN block

-----------------------------------------------------------------------------
(* build_dependency_graph.  account_last_tx knows the senders, and the     *)
(* recipients that are contracts; the sender of i is entered before its    *)
(* recipient is looked up.                                                 *)

LastUse(b, a, upTo) ==
    {j \in 1..upTo : b[j].from = a} \cup
    {j \in 1..upTo : b[j].to = a /\ b[j].to # Create /\ IsContract(a)}

Deps(b, i) ==
    LET sender == LastUse(b, b[i].from, i - 1)
        calls == b[i].to # Create /\ IsContract(b[i].to)
        callee == LastUse(b, b[i].to, i - 1) \cup
                  IF b[i].from = b[i].to THEN {i} ELSE {}
    IN (IF sender = {} THEN {} ELSE {Max(sender)}) \cup
       (IF calls /\ callee # {} THEN {Max(callee)} ELSE {})

(* group_by_dependency: a pass over the block takes every position whose   *)
(* dependencies are processed, and marks it processed within the pass.     *)
Pass(b, processed) ==
    LET seen[i \in 0..Len(b)] ==
            IF i = 0 THEN processed
            ELSE IF Deps(b, i) \subseteq seen[i - 1] THEN seen[i - 1] \cup {i}
            ELSE seen[i - 1]
    IN seen[Len(b)]

GroupByDependency(b) ==
    LET done[k \in 0..Len(b)] == IF k = 0 THEN {} ELSE Pass(b, done[k - 1])
        count == Cardinality({k \in 1..Len(b) : done[k] # done[k - 1]})
    IN [k \in 1..count |-> done[k] \ done[k - 1]]

-----------------------------------------------------------------------------
(* The block processor takes a block and has it cut into groups. *)
Deliver(b) ==
    /\ phase = "waiting" /\ delivered < MaxBlocks
    /\ delivered' = delivered + 1
    /\ block' = b
    /\ groups' = GroupByDependency(b)
    /\ pc' = [i \in DOMAIN b |-> "queued"]
    /\ changes' = [i \in DOMAIN b |-> {}]
    /\ phase' = "running"
    /\ start' = accounts
    /\ UNCHANGED <<accounts, committed>>

(* execute_group_parallel: a free worker takes the first queued position   *)
(* of the current group.                                                   *)
Running == {i \in Positions : pc[i] \notin {"queued", "done", "failed"}}
Ended == {i \in Positions : pc[i] \in {"done", "failed"}}

Goto(i, label) == pc' = [pc EXCEPT ![i] = label]
Rest == <<committed, delivered, phase, block, groups, start>>

Take(i) ==
    /\ phase = "running" /\ groups # <<>>
    /\ Cardinality(Running) < Workers
    /\ i = Min({j \in Head(groups) : pc[j] = "queued"} \cup {Len(block) + 1})
    /\ Goto(i, "validate")
    /\ UNCHANGED <<accounts, changes, Rest>>

TotalCost(tx) == tx.value + tx.gas * GasPrice

Validate_Retry(i) ==
    LET tx == block[i]
        ok == tx.signed /\ accounts[tx.from].nonce = tx.nonce
    IN /\ pc[i] = "validate"
       /\ Goto(i, IF ok THEN "read_from" ELSE "queued")
       /\ UNCHANGED <<accounts, changes, Rest>>

(* validate_transaction *)
Validate(i) ==
    LET tx == block[i]
        ok == /\ tx.signed
              /\ accounts[tx.from] # NoAccount
              /\ accounts[tx.from].nonce = tx.nonce
              /\ accounts[tx.from].bal >= TotalCost(tx)
              /\ tx.gas >= BaseGas
    IN /\ pc[i] = "validate"
       /\ Goto(i, IF ok THEN "read_from" ELSE "failed")
       /\ UNCHANGED <<accounts, changes, Rest>>

(* execute_single_transaction reads the sender a second time. *)
ReadFrom(i) ==
    LET tx == block[i]
        from == accounts[tx.from]
    IN /\ pc[i] = "read_from"
       /\ IF from.bal >= TotalCost(tx)
          THEN /\ changes' = [changes EXCEPT ![i] =
                     {[addr |-> tx.from,
                       acc |-> [from EXCEPT !.bal = @ - TotalCost(tx), !.nonce = @ + 1]]}]
               /\ Goto(i, "read_to")
          ELSE Goto(i, "failed") /\ UNCHANGED changes
       /\ UNCHANGED <<accounts, Rest>>

GasUsed(tx) ==
    BaseGas + (IF tx.to = Create THEN 2 * CallGas
               ELSE IF IsContract(tx.to) THEN CallGas ELSE 0)

(* The recipient as it is credited: an existing account, or a new contract *)
(* at an address made from the sender and its nonce before this            *)
(* transaction.                                                            *)
Credited(tx, from) ==
    IF tx.to = Create
    THEN [addr |-> <<tx.from, from.nonce - 1>>,
          acc |-> [bal |-> tx.value, nonce |-> 0, code |-> TRUE]]
    ELSE [addr |-> tx.to, acc |-> [Account0(tx.to) EXCEPT !.bal = @ + tx.value]]

(* state_changes is a map: the recipient's entry replaces the sender's     *)
(* when they are the same, and the gas refund goes to the entry that is    *)
(* there.                                                                  *)
ReadTo_NoRefund(i) ==
    LET tx == block[i]
        from == CHOOSE c \in changes[i] : TRUE
        credited == Credited(tx, from.acc)
    IN /\ pc[i] = "read_to"
       /\ IF GasUsed(tx) > tx.gas
          THEN Goto(i, "failed") /\ changes' = [changes EXCEPT ![i] = {}]
          ELSE /\ changes' = [changes EXCEPT ![i] = {from, credited}]
               /\ Goto(i, "apply")
       /\ UNCHANGED <<accounts, Rest>>

ReadTo(i) ==
    LET tx == block[i]
        from == CHOOSE c \in changes[i] : TRUE
        credited == Credited(tx, from.acc)
        entries == IF credited.addr = from.addr THEN {credited} ELSE {from, credited}
        refund == (tx.gas - GasUsed(tx)) * GasPrice
    IN /\ pc[i] = "read_to"
       /\ IF GasUsed(tx) > tx.gas
          THEN Goto(i, "failed") /\ changes' = [changes EXCEPT ![i] = {}]
          ELSE /\ changes' = [changes EXCEPT ![i] =
                     {IF c.addr = tx.from THEN [c EXCEPT !.acc.bal = @ + refund]
                                          ELSE c : c \in entries}]
               /\ Goto(i, "apply")
       /\ UNCHANGED <<accounts, Rest>>

(* set_account for each change, in the order of a hash map. *)
Apply(i) ==
    /\ pc[i] = "apply"
    /\ \E c \in changes[i] :
          /\ accounts' = [accounts EXCEPT ![c.addr] = c.acc]
          /\ changes' = [changes EXCEPT ![i] = @ \ {c}]
          /\ Goto(i, IF changes[i] = {c} THEN "done" ELSE "apply")
    /\ UNCHANGED Rest

-----------------------------------------------------------------------------
GroupEnded == groups # <<>> /\ Head(groups) \subseteq Ended
GroupOk == GroupEnded /\ \A i \in Head(groups) : pc[i] = "done"

(* The receipts are collected once all workers have ended: the first error *)
(* ends the block. *)
NextGroup ==
    /\ phase = "running" /\ GroupOk
    /\ groups' = Tail(groups)
    /\ UNCHANGED <<accounts, committed, delivered, phase, block, pc, changes, start>>

BlockFails ==
    /\ phase = "running" /\ GroupEnded /\ ~GroupOk
    /\ phase' = "err"
    /\ UNCHANGED <<accounts, committed, delivered, block, groups, pc, changes, start>>

(* The average time per transaction: a division by the block's length. *)
BlockExecuted ==
    /\ phase = "running" /\ groups = <<>>
    /\ phase' = IF block = <<>> THEN "dead" ELSE "ok"
    /\ UNCHANGED <<accounts, committed, delivered, block, groups, pc, changes, start>>

(* main.rs commits after an Ok and only logs an Err, of either call. *)
CommitState ==
    /\ phase = "ok"
    /\ committed' \in {accounts, committed}
    /\ phase' = "waiting"
    /\ UNCHANGED <<accounts, delivered, block, groups, pc, changes, start>>

LogError ==
    /\ phase = "err"
    /\ phase' = "waiting"
    /\ UNCHANGED <<accounts, committed, delivered, block, groups, pc, changes, start>>

Work(i) == Take(i) \/ Validate(i) \/ ReadFrom(i) \/ ReadTo(i) \/ Apply(i)
Control == NextGroup \/ BlockFails \/ BlockExecuted \/ CommitState \/ LogError

Next ==
    \/ \E b \in Blocks : Deliver(b)
    \/ \E i \in Positions : Work(i)
    \/ Control

Spec == Init /\ [][Next]_vars

(* The runtime polls the workers and the block processor. *)
FairSpec == Spec /\ WF_vars(\E i \in Positions : Work(i)) /\ WF_vars(Control)

-----------------------------------------------------------------------------
(* The reference: transactions one after the other, each whole or not at   *)
(* all, the sender paying value and used gas and the recipient receiving   *)
(* the value.                                                              *)

RefValid(s, tx) ==
    /\ tx.signed
    /\ s[tx.from] # NoAccount
    /\ s[tx.from].nonce = tx.nonce
    /\ s[tx.from].bal >= TotalCost(tx)
    /\ tx.gas >= BaseGas

RefGas(s, tx) ==
    BaseGas + (IF tx.to = Create THEN 2 * CallGas
               ELSE IF s[tx.to] # NoAccount /\ s[tx.to].code THEN CallGas ELSE 0)

RefSucceeds(s, tx) == RefValid(s, tx) /\ RefGas(s, tx) <= tx.gas

RefPay(s, tx) ==
    [s EXCEPT ![tx.from].bal = @ - tx.value - RefGas(s, tx) * GasPrice,
              ![tx.from].nonce = @ + 1]

RefCredit(s, tx, value) ==
    IF tx.to = Create
    THEN [s EXCEPT ![<<tx.from, tx.nonce>>] = [bal |-> value, nonce |-> 0, code |-> TRUE]]
    ELSE [s EXCEPT ![tx.to] = [bal |-> (IF @ = NoAccount THEN 0 ELSE @.bal) + value,
                               nonce |-> IF @ = NoAccount THEN 0 ELSE @.nonce,
                               code |-> IF @ = NoAccount THEN FALSE ELSE @.code]]

RefStep(s, tx) ==
    IF RefSucceeds(s, tx) THEN RefCredit(RefPay(s, tx), tx, tx.value) ELSE s

(* The states a serial execution of b in the given order goes through. *)
RefStates(b, order) ==
    LET s[k \in 0..Len(b)] == IF k = 0 THEN start ELSE RefStep(s[k - 1], b[order[k]])
    IN s

InOrder == [k \in Positions |-> k]

-----------------------------------------------------------------------------
(* Properties *)

(* TypeOK: every variable has the shape of the data it models. *)
TypeOK ==
    /\ accounts \in [Address -> Account \cup {NoAccount}]
    /\ committed \in [Address -> Account \cup {NoAccount}]
    /\ phase \in {"waiting", "running", "ok", "err", "dead"}
    /\ \A i \in Positions :
          /\ pc[i] \in {"queued", "validate", "read_from", "read_to", "apply",
                        "done", "failed"}
          /\ \A c \in changes[i] : c.addr \in Address /\ c.acc \in Account

(* ConflictFreeIsSerial: when no account is touched by two transactions of *)
(* a block, every interleaving of the workers leaves the accounts that the *)
(* transactions one after the other would leave, whichever of them fail.   *)
Touches(tx) == {tx.from, IF tx.to = Create THEN <<tx.from, tx.nonce>> ELSE tx.to}
ConflictFree(b) ==
    /\ \A i \in DOMAIN b : b[i].from # b[i].to
    /\ \A i, j \in DOMAIN b : i # j => Touches(b[i]) \cap Touches(b[j]) = {}
ConflictFreeIsSerial ==
    phase \in {"ok", "err"} /\ ConflictFree(block) =>
        accounts = RefStates(block, InOrder)[Len(block)]

(* VerdictIsSerial: when the transactions of a block touch different       *)
(* accounts, the block ends with an error only if one of them fails in     *)
(* block order, and ends Ok only if every one of them succeeds.            *)
VerdictIsSerial ==
    ConflictFree(block) =>
        /\ phase = "ok" => \A k \in Positions :
              RefSucceeds(RefStates(block, InOrder)[k - 1], block[k])
        /\ phase = "err" => \E k \in Positions :
              ~RefSucceeds(RefStates(block, InOrder)[k - 1], block[k])

(* SerialWhenFree: a block without shared accounts has the outcome of its  *)
(* transactions one after the other, in the accounts and in the verdict,   *)
(* and no field leaves its range on the way.                               *)
SerialWhenFree == TypeOK /\ ConflictFreeIsSerial /\ VerdictIsSerial

(* BlockEnds: a block that has been delivered and is not empty ends, with  *)
(* however few workers, and the processor goes back to the next one.       *)
BlockEnds == phase = "running" /\ block # <<>> ~> phase = "waiting"

-----------------------------------------------------------------------------
(* The instance for TLC: the blocks that consensus delivers. *)

CONSTANTS A, B, C, K

Pay(from, to, value, nonce, gas) ==
    [from |-> from, to |-> to, value |-> value, nonce |-> nonce, gas |-> gas,
     signed |-> TRUE]

MCGenesis == (A :> 6) @@ (B :> 4) @@ (C :> 0) @@ (K :> 0)

(* Payments, contract calls and creations, with enough gas or too little, *)
(* with a right or a wrong nonce, and one without a signature.            *)
Txs == {Pay(f, t, v, 0, g) : f \in {A, B}, t \in {A, B, C, K, Create},
                             v \in {1, 3}, g \in {1, 3}}
       \cup {Pay(A, B, 1, 0, 0), Pay(B, C, 1, 1, 1),
             [Pay(A, C, 1, 0, 1) EXCEPT !.signed = FALSE]}

(* Three transactions for two workers. *)
Queue == <<Pay(A, C, 1, 0, 1), Pay(B, K, 1, 0, 2), Pay(A, B, 1, 1, 1)>>

MCBlocks == {<<>>, Queue} \cup {<<t>> : t \in Txs} \cup {<<t, u>> : t, u \in Txs}
=============================================================================
