---------------------------- MODULE Wallet_proofs ----------------------------
(***************************************************************************)
(* Proofs about Wallet, for any transactions, amounts and gap limits.      *)
(***************************************************************************)
EXTENDS Wallet, TLAPS, FiniteSetTheorems, SequenceTheorems, SharedFacts

----------------------------------------------------------------------------
(***************************************************************************)
(* What happens to the list of transactions.                               *)
(***************************************************************************)
\* A function on 1..n is a sequence of length n.
LEMMA FunctionIsSeq ==
  ASSUME NEW S, NEW n \in Nat, NEW f \in [1..n -> S]
  PROVE  f \in Seq(S) /\ Len(f) = n
<1>1. f \in Seq(S)
  BY SeqDef, Zenon
<1>2. Len(f) \in Nat /\ DOMAIN f = 1..Len(f) /\ DOMAIN f = 1..n
  BY <1>1, LenProperties
<1> QED
  BY <1>1, <1>2, SMT

\* registerTransaction: inserts one that is not in the list.
LEMMA ListInserted ==
  ASSUME NEW S, NEW s, Lists(s, S), NEW t, t \notin S
  PROVE  Lists(<<t>> \o s, S \cup {t})
<1> DEFINE T == S \cup {t}
           r == <<t>> \o s
<1>1. s \in Seq(S) /\ s \in Seq(T) /\ <<t>> \in Seq(T)
  BY DEF Lists
<1>2. r \in Seq(T) /\ Len(r) = Len(s) + 1 /\ Len(s) \in Nat
  BY <1>1
<1>3. r[1] = t /\ \A i \in 2..Len(r) : r[i] = s[i - 1] /\ r[i] \in S
  BY <1>1, <1>2
<1> HIDE DEF r
<1>4. ASSUME NEW i \in 1..Len(r), NEW j \in 1..Len(r), r[i] = r[j] PROVE i = j
  <2>1. CASE i = 1 \/ j = 1
    BY <1>2, <1>3, <1>4, <2>1
  <2>2. CASE i # 1 /\ j # 1
    <3>1. i - 1 \in 1..Len(s) /\ j - 1 \in 1..Len(s) /\ s[i - 1] = s[j - 1]
      BY <1>2, <1>3, <1>4, <2>2
    <3>2. i - 1 = j - 1
      BY <3>1 DEF Lists
    <3> QED
      BY <1>2, <3>2
  <2> QED
    BY <2>1, <2>2
<1>5. ASSUME NEW u \in T PROVE \E i \in 1..Len(r) : r[i] = u
  <2>1. CASE u = t
    BY <1>2, <1>3, <2>1
  <2>2. CASE u \in S
    <3>1. PICK i \in 1..Len(s) : s[i] = u
      BY <2>2 DEF Lists
    <3>2. i + 1 \in 2..Len(r) /\ i + 1 \in 1..Len(r) /\ (i + 1) - 1 = i
      BY <1>2
    <3>3. r[i + 1] = u
      BY <1>3, <3>1, <3>2
    <3> QED
      BY <3>2, <3>3
  <2> QED
    BY <2>1, <2>2
<1>6. Lists(r, T)
  BY <1>2, <1>4, <1>5 DEF Lists
<1> QED
  BY <1>6 DEF r

\* removeTransaction: takes one out of it.
LEMMA ListRemoved ==
  ASSUME NEW S, NEW s, Lists(s, S), NEW i \in 1..Len(s)
  PROVE  Lists([j \in 1..(Len(s) - 1) |-> IF j < i THEN s[j] ELSE s[j + 1]], S \ {s[i]})
<1> DEFINE n == Len(s) - 1
           at(j) == IF j < i THEN j ELSE j + 1
           r == [j \in 1..n |-> IF j < i THEN s[j] ELSE s[j + 1]]
<1>1. s \in Seq(S) /\ Len(s) \in Nat /\ n \in Nat
  BY DEF Lists
<1>2. \A j \in 1..n : at(j) \in 1..Len(s) /\ at(j) # i /\ r[j] = s[at(j)]
  BY <1>1
<1>3. \A j \in 1..n : r[j] \in S \ {s[i]}
  <2> TAKE j \in 1..n
  <2>1. PICK k \in 1..Len(s) : k # i /\ r[j] = s[k]
    BY <1>2
  <2>2. s[k] \in S /\ s[k] # s[i]
    BY <1>1, <2>1 DEF Lists
  <2> QED
    BY <2>1, <2>2
<1>4. r \in Seq(S \ {s[i]}) /\ Len(r) = n
  <2>1. r \in [1..n -> S \ {s[i]}]
    BY <1>3
  <2> HIDE DEF n, r
  <2> QED
    BY <2>1, <1>1, FunctionIsSeq
<1>5. ASSUME NEW j \in 1..n, NEW k \in 1..n, r[j] = r[k] PROVE j = k
  <2>1. at(j) = at(k)
    BY <1>2, <1>5 DEF Lists
  <2> QED
    BY <1>1, <2>1
<1>6. ASSUME NEW u \in S \ {s[i]} PROVE \E j \in 1..n : r[j] = u
  <2>1. PICK k \in 1..Len(s) : s[k] = u
    BY DEF Lists
  <2>2. k # i
    BY <2>1
  <2>3. CASE k < i
    BY <1>1, <2>1, <2>3
  <2>4. CASE k > i
    <3>1. k - 1 \in 1..n /\ ~(k - 1 < i) /\ (k - 1) + 1 = k
      BY <1>1, <2>4
    <3> QED
      BY <2>1, <3>1
  <2> QED
    BY <1>1, <2>2, <2>3, <2>4
<1> HIDE DEF r
<1>7. Lists(r, S \ {s[i]})
  BY <1>4, <1>5, <1>6 DEF Lists
<1> QED
  BY <1>7 DEF r

\* sortTransactions reorders it.
LEMMA ListSorted ==
  ASSUME NEW S, IsFiniteSet(S), NEW height, NEW s \in Sorted(S, height)
  PROVE  Lists(s, S)
<1>1. Cardinality(S) \in Nat
  BY FS_CardinalityType
<1>2. /\ s \in [1..Cardinality(S) -> S]
      /\ \A i, j \in 1..Cardinality(S) : s[i] = s[j] => i = j
      /\ \A t \in S : \E i \in 1..Cardinality(S) : s[i] = t
  BY DEF Sorted
<1>3. s \in Seq(S) /\ Len(s) = Cardinality(S)
  BY <1>1, <1>2, FunctionIsSeq
<1> QED
  BY <1>2, <1>3 DEF Lists

----------------------------------------------------------------------------
(***************************************************************************)
(* Addresses are only ever added.                                          *)
(***************************************************************************)
\* The backward walk of addressesWithGapLimit: stops within the chain.
LEMMA FirstUnusedType ==
  ASSUME NEW c, NEW n \in Nat
  PROVE  FirstUnused(c, n) \in 0..n
<1> DEFINE Trailing == {k \in 0..n : \A j \in k..(n - 1) : <<c, j>> \notin usedAddresses}
<1>1. n \in Trailing /\ Trailing \in SUBSET Nat
  OBVIOUS
<1>2. PICK m \in Trailing : \A k \in Trailing : m <= k
  BY <1>1, LeastOf
<1>3. m > 0 => <<c, m - 1>> \in usedAddresses
  <2> SUFFICES ASSUME m > 0, <<c, m - 1>> \notin usedAddresses PROVE FALSE
    OBVIOUS
  <2>1. m - 1 \in 0..n /\ \A j \in (m - 1)..(n - 1) : j = m - 1 \/ j \in m..(n - 1)
    OBVIOUS
  <2>2. m - 1 \in Trailing
    BY <2>1
  <2> QED
    BY <1>2, <2>2
<1>4. \E k \in 0..n : /\ \A j \in k..(n - 1) : <<c, j>> \notin usedAddresses
                      /\ k > 0 => <<c, k - 1>> \in usedAddresses
  BY <1>2, <1>3
<1> QED
  BY <1>4 DEF FirstUnused

LEMMA WithGapLimitGrows ==
  ASSUME NEW c, NEW n \in Nat, NEW limit \in Nat
  PROVE  WithGapLimit(c, n, limit) \in Nat /\ WithGapLimit(c, n, limit) >= n
  BY FirstUnusedType DEF WithGapLimit

LEMMA RefilledGrows ==
  ASSUME addressCount \in [Chain -> Nat], NEW limit \in [Chain -> Nat]
  PROVE  /\ Refilled(limit) \in [Chain -> Nat]
         /\ \A c \in Chain : Refilled(limit)[c] >= addressCount[c]
<1>1. ASSUME NEW c \in Chain
      PROVE  /\ WithGapLimit(c, WithGapLimit(c, addressCount[c], 1), limit[c]) \in Nat
             /\ WithGapLimit(c, WithGapLimit(c, addressCount[c], 1), limit[c]) >= addressCount[c]
  <2> DEFINE first == WithGapLimit(c, addressCount[c], 1)
             second == WithGapLimit(c, first, limit[c])
  <2>0. addressCount[c] \in Nat /\ limit[c] \in Nat
    OBVIOUS
  <2>1. first \in Nat /\ first >= addressCount[c]
    BY <2>0, WithGapLimitGrows
  <2> HIDE DEF first
  <2>2. second \in Nat /\ second >= first
    BY <2>0, <2>1, WithGapLimitGrows
  <2> HIDE DEF second
  <2>3. second \in Nat /\ second >= addressCount[c]
    BY <2>0, <2>1, <2>2
  <2> QED
    BY <2>3 DEF first, second
<1> QED
  BY <1>1 DEF Refilled

\* No step takes an address from a chain.
LEMMA AddressesGrow ==
  ASSUME addressCount \in [Chain -> Nat], Next
  PROVE  /\ addressCount' \in [Chain -> Nat]
         /\ \A c \in Chain : addressCount'[c] >= addressCount[c]
<1>1. CASE PrepareAddresses
  <2>1. [c \in Chain |-> 2 * Gap["external"]] \in [Chain -> Nat]
    BY LedgerAssumption DEF Chain
  <2> QED
    BY <1>1, <2>1, RefilledGrows DEF PrepareAddresses
<1>2. CASE Refill
  <2>1. Gap \in [Chain -> Nat]
    BY LedgerAssumption
  <2> QED
    BY <1>2, <2>1, RefilledGrows DEF Refill
<1>3. ASSUME NEW c \in Chain, FirstUnusedAddress(c)
      PROVE  /\ addressCount' \in [Chain -> Nat]
             /\ \A d \in Chain : addressCount'[d] >= addressCount[d]
  <2> DEFINE n == WithGapLimit(c, addressCount[c], 1)
  <2>1. n \in Nat /\ n >= addressCount[c]
    BY WithGapLimitGrows
  <2>2. addressCount' = [addressCount EXCEPT ![c] = n]
    BY <1>3 DEF FirstUnusedAddress
  <2> HIDE DEF n
  <2> QED
    BY <2>1, <2>2
<1>4. CASE UNCHANGED addressCount
  BY <1>4
<1> QED
  BY <1>1, <1>2, <1>3, <1>4
  DEF Next, addressVars, RegisterTransaction, RemoveUnrelayed, RemoveTransaction, ConfirmBlock,
      Reorganize, ConfirmBranch, RemoveDependent, RemoveItself, UpdateNext, UpdateDone, Restart

----------------------------------------------------------------------------
(***************************************************************************)
(* Types.                                                                  *)
(***************************************************************************)
\* The local variables of updateBalance, which TypeOK says only the position of.
LoopRecord ==
  loop = [left |-> loop.left, invalid |-> loop.invalid, spent |-> loop.spent,
          utxos |-> loop.utxos, balance |-> loop.balance]

Typed == TypeOK /\ LoopRecord

LEMMA StartUpdateType ==
  ASSUME NEW s, NEW S, Lists(s, S), StartUpdate(s)
  PROVE  updating' = TRUE /\ loop'.left \in 0..Len(s) /\ LoopRecord'
<1>1. Len(s) \in Nat
  BY DEF Lists
<1> QED
  BY <1>1 DEF StartUpdate, Locals, LoopRecord

LEMMA UpdateNextType ==
  ASSUME Typed, UpdateNext
  PROVE  loop'.left = loop.left - 1 /\ loop'.left \in 0..Len(transactions) /\ LoopRecord'
<1> DEFINE t == transactions[loop.left]
<1>1. Len(transactions) \in Nat /\ loop.left \in 1..Len(transactions)
  BY DEF Typed, TypeOK, Lists, UpdateNext
<1>2. CASE Invalid(t)
  <2>1. loop' = [loop EXCEPT !.left = @ - 1, !.invalid = @ \cup {t}]
    BY <1>2 DEF UpdateNext
  <2>2. loop' = [left |-> loop.left - 1, invalid |-> loop.invalid \cup {t}, spent |-> loop.spent,
                 utxos |-> loop.utxos, balance |-> loop.balance]
    BY <2>1 DEF Typed, LoopRecord
  <2> QED
    BY <1>1, <2>2 DEF LoopRecord
<1>3. CASE ~Invalid(t)
  <2>1. loop' = [left |-> loop.left - 1, invalid |-> loop.invalid,
                 spent |-> loop.spent \cup Inputs[t],
                 utxos |-> (loop.utxos \cup OwnOutputs(t)) \ SpentNow(t),
                 balance |-> BalanceAfter(t)]
    BY <1>3 DEF UpdateNext
  <2> QED
    BY <1>1, <2>1 DEF LoopRecord
<1> QED
  BY <1>2, <1>3

\* setBlockHeight:forTxHashes: and a restart sort the list.
LEMMA SortedType ==
  ASSUME TypeOK, NEW height, NEW s \in Sorted(allTx, height)
  PROVE  Lists(s, allTx)
<1>1. IsFiniteSet(allTx)
  BY LedgerAssumption, FS_Subset DEF TypeOK
<1> QED
  BY <1>1, ListSorted

LEMMA SetBlockHeightType ==
  ASSUME Typed, NEW h \in Nat, NEW txs, SetBlockHeight(h, txs), allTx' = allTx
  PROVE  /\ Lists(transactions', allTx)
         /\ blockHeight' \in [Tx -> Nat]
         /\ \/ StartUpdate(transactions')
            \/ UNCHANGED <<transactions, blockHeight, loopVars>>
<1>1. CASE UNCHANGED <<transactions, blockHeight, loopVars>>
  BY <1>1 DEF Typed, TypeOK
<1>2. CASE /\ blockHeight' = [t \in Tx |-> IF t \in txs \cap allTx THEN h ELSE blockHeight[t]]
           /\ transactions' \in Sorted(allTx, blockHeight')
           /\ StartUpdate(transactions')
  <2>1. PICK height : height = blockHeight'
    OBVIOUS
  <2>2. transactions' \in Sorted(allTx, height)
    BY <1>2, <2>1
  <2>3. Lists(transactions', allTx)
    BY <2>2, SortedType DEF Typed
  <2>4. blockHeight' \in [Tx -> Nat]
    BY <1>2 DEF Typed, TypeOK
  <2> QED
    BY <1>2, <2>3, <2>4
<1> QED
  BY <1>1, <1>2 DEF SetBlockHeight

LEMMA RemoveItselfType ==
  ASSUME Typed, RemoveItself
  PROVE  /\ Lists(transactions', allTx') /\ allTx' \subseteq Tx
         /\ StartUpdate(transactions')
<1> DEFINE t == Innermost.tx
<1>1. allTx' = allTx \ {t} /\ allTx' \subseteq Tx
  BY DEF RemoveItself, Typed, TypeOK
<1>2. CASE t \notin allTx /\ UNCHANGED transactions /\ StartUpdate(transactions')
  <2>1. allTx' = allTx
    BY <1>1, <1>2
  <2> QED
    BY <1>1, <1>2, <2>1 DEF Typed, TypeOK
<1>3. ASSUME NEW i \in 1..Len(transactions), transactions[i] = t,
             transactions' = [j \in 1..(Len(transactions) - 1) |->
                                IF j < i THEN transactions[j] ELSE transactions[j + 1]],
             StartUpdate(transactions')
      PROVE  Lists(transactions', allTx') /\ StartUpdate(transactions')
  <2>1. Lists(transactions, allTx)
    BY DEF Typed, TypeOK
  <2>2. Lists(transactions', allTx \ {transactions[i]})
    BY <1>3, <2>1, ListRemoved
  <2> QED
    BY <1>1, <1>3, <2>2
<1> QED
  BY <1>1, <1>2, <1>3 DEF RemoveItself

LEMMA TypedIsInductive ==
  ASSUME Typed, Next
  PROVE  Typed'
<1>1. addressCount' \in [Chain -> Nat]
  BY AddressesGrow DEF Typed, TypeOK
<1> DEFINE
  Rest == /\ allTx' \subseteq Tx
          /\ Lists(transactions', allTx')
          /\ blockHeight' \in [Tx -> Nat] /\ branch' \in [Tx -> Nat]
          /\ updating' \in BOOLEAN /\ loop'.left \in 0..Len(transactions') /\ LoopRecord'
          /\ refilling' \in BOOLEAN /\ restarts' \in Nat
<1>2. ASSUME allTx' \subseteq Tx, Lists(transactions', allTx'), blockHeight' \in [Tx -> Nat],
             branch' \in [Tx -> Nat], StartUpdate(transactions'), refilling' \in BOOLEAN,
             restarts' \in Nat
      PROVE  Rest
  BY <1>2, StartUpdateType
<1>3. ASSUME UNCHANGED <<allTx, transactions, blockHeight, branch, loopVars, restarts>>,
             refilling' \in BOOLEAN
      PROVE  Rest
  BY <1>3 DEF Typed, TypeOK, LoopRecord, loopVars
<1>4. ASSUME PrepareAddresses PROVE Rest
  BY <1>3, <1>4 DEF PrepareAddresses, Typed, TypeOK
<1>5. ASSUME NEW t \in Tx, RegisterTransaction(t)
      PROVE  Rest
  <2>1. allTx' = allTx \cup {t} /\ transactions' = <<t>> \o transactions /\ t \notin allTx
    BY <1>5 DEF RegisterTransaction, Inserted
  <2>2. Lists(transactions', allTx')
    BY <2>1, ListInserted DEF Typed, TypeOK
  <2>3. blockHeight' \in [Tx -> Nat]
    BY <1>5, LedgerAssumption DEF RegisterTransaction, Typed, TypeOK, TX_UNCONFIRMED
  <2> QED
    BY <1>2, <1>5, <2>1, <2>2, <2>3 DEF RegisterTransaction, Typed, TypeOK
<1>6. ASSUME NEW t \in Tx, RemoveTransaction(t)
      PROVE  Rest
  BY <1>3, <1>6 DEF RemoveTransaction, Typed, TypeOK
<1>7. ASSUME RemoveUnrelayed PROVE Rest
  BY <1>3, <1>7 DEF RemoveUnrelayed, Typed, TypeOK
<1>8. ASSUME Refill PROVE Rest
  BY <1>3, <1>8 DEF Refill
<1>9. ASSUME NEW h \in Nat, NEW txs, SetBlockHeight(h, txs), branch' \in [Tx -> Nat],
             UNCHANGED <<allTx, refilling, restarts>>
      PROVE  Rest
  <2>1. CASE StartUpdate(transactions')
    BY <1>2, <1>9, <2>1, SetBlockHeightType DEF Typed, TypeOK
  <2>2. CASE UNCHANGED <<transactions, blockHeight, loopVars>>
    BY <1>9, <2>2 DEF Typed, TypeOK, LoopRecord, loopVars
  <2> QED
    BY <1>9, <2>1, <2>2, SetBlockHeightType
<1>10. ASSUME NEW h \in 1..MaxHeight, NEW txs \in SUBSET allTx, ConfirmBlock(h, txs)
       PROVE  Rest
  BY <1>9, <1>10, LedgerAssumption DEF ConfirmBlock, Typed, TypeOK
<1>11. ASSUME NEW join \in 0..MaxHeight, NEW heights \in [Tx -> 0..MaxHeight],
              Reorganize(join, heights)
       PROVE  Rest
  <2>1. TX_UNCONFIRMED \in Nat /\ branch' \in [Tx -> Nat]
    BY <1>11, LedgerAssumption DEF Reorganize, TX_UNCONFIRMED
  <2> QED
    BY <1>9, <1>11, <2>1 DEF Reorganize
<1>12. ASSUME ConfirmBranch PROVE Rest
  <2>1. PICK t \in Tx :
          /\ SetBlockHeight(branch[t], {u \in Tx : branch[u] = branch[t]})
          /\ branch' = [u \in Tx |-> IF branch[u] = branch[t] THEN 0 ELSE branch[u]]
    BY <1>12 DEF ConfirmBranch
  <2>2. branch[t] \in Nat /\ branch' \in [Tx -> Nat]
    BY <2>1 DEF Typed, TypeOK
  <2> QED
    BY <1>9, <1>12, <2>1, <2>2 DEF ConfirmBranch
<1>13. ASSUME RemoveDependent PROVE Rest
  BY <1>3, <1>13 DEF RemoveDependent, Typed, TypeOK
<1>14. ASSUME RemoveItself PROVE Rest
  BY <1>2, <1>14, RemoveItselfType DEF RemoveItself, Typed, TypeOK
<1>15. ASSUME UpdateNext PROVE Rest
  BY <1>15, UpdateNextType DEF UpdateNext, Typed, TypeOK
<1>16. ASSUME UpdateDone PROVE Rest
  <2>1. Len(transactions) \in Nat
    BY DEF Typed, TypeOK, Lists
  <2> QED
    BY <1>16, <2>1 DEF UpdateDone, Locals, LoopRecord, Typed, TypeOK
<1>17. ASSUME NEW c \in Chain, FirstUnusedAddress(c)
       PROVE  Rest
  BY <1>3, <1>17 DEF FirstUnusedAddress, Typed, TypeOK
<1>18. ASSUME Restart PROVE Rest
  <2>1. transactions' \in Sorted(allTx, blockHeight)
    BY <1>18 DEF Restart
  <2>2. Lists(transactions', allTx)
    BY <2>1, SortedType DEF Typed
  <2>3. allTx' = allTx /\ blockHeight' = blockHeight /\ StartUpdate(transactions')
    BY <1>18, Zenon DEF Restart
  <2>4. branch' = branch
    BY <1>18, Zenon DEF Restart
  <2>5. /\ allTx' \subseteq Tx /\ Lists(transactions', allTx')
        /\ blockHeight' \in [Tx -> Nat] /\ branch' \in [Tx -> Nat]
    BY <2>2, <2>3, <2>4 DEF Typed, TypeOK
  <2>6. refilling' \in BOOLEAN /\ restarts' = restarts + 1
    BY <1>18, Zenon DEF Restart
  <2>7. restarts \in Nat
    BY DEF Typed, TypeOK
  <2>8. restarts' \in Nat
    BY <2>6, <2>7
  <2> QED
    BY <1>2, <2>3, <2>5, <2>6, <2>8
<1> HIDE DEF Rest
<1>19. Rest
  BY <1>4, <1>5, <1>6, <1>7, <1>8, <1>10, <1>11, <1>12, <1>13, <1>14, <1>15, <1>16,
     <1>17, <1>18 DEF Next
<1> QED
  BY <1>1, <1>19 DEF Rest, Typed, TypeOK

LEMMA InitTyped ==
  ASSUME Init
  PROVE  Typed
<1>1. Lists(<<>>, {}) /\ Len(<<>>) = 0
  BY DEF Lists
<1>2. loop = Locals(0) /\ LoopRecord
  BY DEF Init, Locals, LoopRecord
<1>3. blockHeight \in [Tx -> Nat] /\ branch \in [Tx -> Nat] /\ addressCount \in [Chain -> Nat]
  BY LedgerAssumption DEF Init, TX_UNCONFIRMED, NoBranch
<1>4. allTx = {} /\ transactions = <<>> /\ Lists(transactions, allTx)
  BY <1>1 DEF Init
<1>5. loop.left \in 0..Len(transactions)
  BY <1>1, <1>2, <1>4 DEF Locals
<1> QED
  BY <1>2, <1>3, <1>4, <1>5 DEF Init, Typed, TypeOK

LEMMA AlwaysTyped == Spec => []Typed
<1>1. Init => Typed
  BY InitTyped
<1>2. Typed /\ [Next]_vars => Typed'
  <2> SUFFICES ASSUME Typed, [Next]_vars PROVE Typed'
    OBVIOUS
  <2>1. CASE Next
    BY <2>1, TypedIsInductive
  <2>2. CASE UNCHANGED vars
    BY <2>2 DEF vars, addressVars, loopVars, Typed, TypeOK, LoopRecord
  <2> QED
    BY <2>1, <2>2
<1> QED
  BY <1>1, <1>2, PTL DEF Spec

\* In every run the variables have their types, and `transactions' lists each
\* registered transaction once, through insertions, removals and sorts.
THEOREM TypeCorrect == Spec => []TypeOK
<1>1. Typed => TypeOK
  BY DEF Typed
<1> QED
  BY <1>1, AlwaysTyped, PTL

----------------------------------------------------------------------------
(***************************************************************************)
(* Unspent outputs.  A step of updateBalance sees one more transaction: up *)
(* to there, its local variables have for the transactions it has seen     *)
(* what the ledger has for all.                                            *)
(***************************************************************************)
Visited == {transactions[i] : i \in (loop.left + 1)..Len(transactions)}

LoopSound ==
  updating => /\ loop.invalid \subseteq Visited
              /\ loop.spent = SpentBy(Visited \ loop.invalid)
              /\ loop.utxos \subseteq OwnedBy(Visited \ loop.invalid) \ loop.spent

Sound == LoopSound /\ OffersOnlyUnspent

\* What an address more makes of the outputs of the wallet.
LEMMA OwnOutputsGrow ==
  ASSUME Typed, Next, NEW t \in Tx
  PROVE  OwnOutputs(t) \subseteq OwnOutputs(t)'
<1>1. addressCount \in [Chain -> Nat]
  BY DEF Typed, TypeOK
<1>2. /\ addressCount' \in [Chain -> Nat]
      /\ \A c \in Chain : addressCount'[c] >= addressCount[c]
  BY <1>1, AddressesGrow
<1>3. ASSUME NEW n \in DOMAIN Outputs[t], ContainsAddress(Outputs[t][n].address)
      PROVE  ContainsAddress(Outputs[t][n].address)'
  <2> DEFINE a == Outputs[t][n].address
  <2>1. a[2] \in Nat
    BY LedgerAssumption
  <2> HIDE DEF a
  <2>2. a[1] \in Chain /\ a[2] < addressCount[a[1]] => a[2] < addressCount'[a[1]]
    BY <1>1, <1>2, <2>1
  <2> QED
    BY <1>3, <2>2 DEF ContainsAddress, a
<1> QED
  BY <1>3 DEF OwnOutputs

\* A step that leaves the list, the ledger and the loop alone.
LEMMA SoundWhenUnchanged ==
  ASSUME Typed, Next, Sound,
         UNCHANGED <<allTx, transactions, ledgerVars, loopVars>>
  PROVE  Sound'
<1>1. ASSUME NEW txs \in SUBSET Tx PROVE OwnedBy(txs) \subseteq OwnedBy(txs)'
  BY OwnOutputsGrow DEF OwnedBy
<1>2. LoopSound'
  <2>1. Visited' = Visited /\ Visited \ loop.invalid \in SUBSET Tx
    BY DEF Visited, loopVars, Typed, TypeOK, Lists
  <2> QED
    BY <1>1, <2>1 DEF Sound, LoopSound, loopVars, SpentBy
<1>3. OffersOnlyUnspent'
  <2>1. Valid \in SUBSET Tx
    BY DEF Valid, Typed, TypeOK
  <2> QED
    BY <1>1, <2>1 DEF Sound, OffersOnlyUnspent, Valid, SpentBy, ledgerVars, loopVars
<1> QED
  BY <1>2, <1>3 DEF Sound

\* A step that starts updateBalance.
LEMMA SoundWhenStarted ==
  ASSUME Lists(transactions', allTx'), StartUpdate(transactions')
  PROVE  Sound'
<1>1. Len(transactions') \in Nat
  BY DEF Lists
<1>2. /\ updating' = TRUE /\ loop'.left = Len(transactions')
      /\ loop'.invalid = {} /\ loop'.spent = {} /\ loop'.utxos = {}
  BY DEF StartUpdate, Locals
<1>3. Visited' = {}
  BY <1>1, <1>2 DEF Visited
<1>4. LoopSound'
  BY <1>2, <1>3 DEF LoopSound, SpentBy
<1> QED
  BY <1>2, <1>4 DEF Sound, OffersOnlyUnspent

\* A step of updateBalance sees one transaction more.
LEMMA VisitsOneMore ==
  ASSUME Typed, UpdateNext
  PROVE  /\ loop.left \in 1..Len(transactions) /\ Len(transactions) \in Nat
         /\ transactions[loop.left] \in allTx /\ transactions[loop.left] \notin Visited
         /\ Visited' = Visited \cup {transactions[loop.left]}
<1> DEFINE n == loop.left
           t == transactions[n]
<1>1. Lists(transactions, allTx)
  BY DEF Typed, TypeOK
<1>2. transactions \in Seq(allTx) /\ Len(transactions) \in Nat
  BY <1>1 DEF Lists
<1>3. n \in 1..Len(transactions)
  BY <1>2 DEF Typed, TypeOK, UpdateNext
<1>4. t \in allTx
  BY <1>2, <1>3
<1>5. t \notin Visited
  BY <1>1, <1>3 DEF Visited, Lists
<1>6. (n - 1) + 1 = n /\ n..Len(transactions) = {n} \cup (n + 1)..Len(transactions)
  BY <1>2, <1>3
<1>7. loop'.left = n - 1 /\ transactions' = transactions
  BY UpdateNextType DEF UpdateNext
<1>8. Visited' = {transactions[i] : i \in n..Len(transactions)}
  BY <1>6, <1>7 DEF Visited
<1>9. Visited' = Visited \cup {t}
  BY <1>6, <1>8 DEF Visited
<1> QED
  BY <1>2, <1>3, <1>4, <1>5, <1>9

\* A step of updateBalance.
LEMMA SoundAfterUpdateNext ==
  ASSUME Typed, Sound, UpdateNext
  PROVE  Sound'
<1> DEFINE n == loop.left
           t == transactions[n]
<1>1. updating /\ updating' = updating
  BY DEF UpdateNext
<1>2. Visited' = Visited \cup {t} /\ t \notin Visited
  BY VisitsOneMore
<1>3. /\ updating /\ loop.invalid \subseteq Visited
      /\ loop.spent = SpentBy(Visited \ loop.invalid)
      /\ loop.utxos \subseteq OwnedBy(Visited \ loop.invalid) \ loop.spent
  BY DEF Sound, LoopSound, UpdateNext
<1>4. \A txs : OwnedBy(txs)' = OwnedBy(txs)
  BY DEF OwnedBy, OwnOutputs, ContainsAddress, UpdateNext, addressVars
<1>5. CASE Invalid(t)
  <2>1. /\ loop'.invalid = loop.invalid \cup {t}
        /\ loop'.spent = loop.spent /\ loop'.utxos = loop.utxos
    BY <1>5 DEF UpdateNext, Typed, LoopRecord
  <2>2. Visited' \ loop'.invalid = Visited \ loop.invalid
    BY <1>2, <2>1
  <2>3. LoopSound'
    BY <1>2, <1>3, <1>4, <2>1, <2>2 DEF LoopSound, SpentBy
  <2> QED
    BY <1>1, <2>3 DEF Sound, OffersOnlyUnspent
<1>6. CASE ~Invalid(t)
  <2>1. /\ loop'.invalid = loop.invalid
        /\ loop'.spent = loop.spent \cup Inputs[t]
        /\ loop'.utxos = (loop.utxos \cup OwnOutputs(t)) \ SpentNow(t)
    BY <1>6 DEF UpdateNext
  <2>2. Visited' \ loop'.invalid = (Visited \ loop.invalid) \cup {t}
    BY <1>2, <1>3, <2>1
  <2>3. loop'.spent = SpentBy(Visited' \ loop'.invalid)
    BY <1>3, <2>1, <2>2 DEF SpentBy
  <2>4. OwnedBy(Visited' \ loop'.invalid) = OwnedBy(Visited \ loop.invalid) \cup OwnOutputs(t)
    BY <2>2 DEF OwnedBy
  <2>5. loop'.utxos \subseteq OwnedBy(Visited' \ loop'.invalid) \ loop'.spent
    BY <1>3, <2>1, <2>4 DEF SpentNow
  <2>6. LoopSound'
    BY <1>2, <1>3, <1>4, <2>1, <2>3, <2>5 DEF LoopSound, SpentBy
  <2> QED
    BY <1>1, <2>6 DEF Sound, OffersOnlyUnspent
<1> QED
  BY <1>5, <1>6

\* The end of updateBalance.
LEMMA SoundAfterUpdateDone ==
  ASSUME Typed, Sound, UpdateDone
  PROVE  Sound'
<1>1. Visited = allTx
  <2>1. Lists(transactions, allTx) /\ loop.left + 1 = 1
    BY DEF Typed, TypeOK, UpdateDone
  <2>2. Len(transactions) \in Nat /\ transactions \in Seq(allTx)
    BY <2>1 DEF Lists
  <2> QED
    BY <2>1, <2>2 DEF Visited, Lists
<1>2. /\ loop.spent = SpentBy(allTx \ loop.invalid)
      /\ loop.utxos \subseteq OwnedBy(allTx \ loop.invalid) \ loop.spent
  BY <1>1 DEF Sound, LoopSound, UpdateDone
<1>3. \A txs : OwnedBy(txs)' = OwnedBy(txs)
  BY DEF OwnedBy, OwnOutputs, ContainsAddress, UpdateDone, addressVars
<1>4. /\ Valid' = allTx \ loop.invalid
      /\ spentOutputs' = loop.spent /\ utxos' = loop.utxos /\ updating' = FALSE
  BY DEF UpdateDone, Valid
<1>5. OffersOnlyUnspent'
  BY <1>2, <1>3, <1>4 DEF OffersOnlyUnspent, SpentBy
<1> QED
  BY <1>4, <1>5 DEF Sound, LoopSound

LEMMA SoundIsInductive ==
  ASSUME Typed, Sound, Next
  PROVE  Sound'
<1>1. Lists(transactions', allTx')
  BY TypedIsInductive DEF Typed, TypeOK
<1>2. ASSUME StartUpdate(transactions') PROVE Sound'
  BY <1>1, <1>2, SoundWhenStarted
<1>3. ASSUME UNCHANGED <<allTx, transactions, ledgerVars, loopVars>> PROVE Sound'
  BY <1>3, SoundWhenUnchanged
<1>4. CASE PrepareAddresses
  BY <1>3, <1>4 DEF PrepareAddresses
<1>5. ASSUME NEW t \in Tx, RegisterTransaction(t) \/ RemoveTransaction(t) PROVE Sound'
  BY <1>2, <1>3, <1>5 DEF RegisterTransaction, RemoveTransaction
<1>6. CASE Refill \/ RemoveUnrelayed
  BY <1>3, <1>6 DEF Refill, RemoveUnrelayed
<1>7. ASSUME NEW h, NEW txs, SetBlockHeight(h, txs), UNCHANGED <<allTx, ledgerVars>> PROVE Sound'
  BY <1>2, <1>3, <1>7 DEF SetBlockHeight
<1>8. CASE \/ \E h \in 1..MaxHeight, txs \in SUBSET allTx : ConfirmBlock(h, txs)
           \/ \E join \in 0..MaxHeight, heights \in [Tx -> 0..MaxHeight] : Reorganize(join, heights)
           \/ ConfirmBranch
  BY <1>7, <1>8 DEF ConfirmBlock, Reorganize, ConfirmBranch
<1>9. CASE RemoveDependent
  BY <1>3, <1>9 DEF RemoveDependent
<1>10. CASE RemoveItself
  BY <1>2, <1>10 DEF RemoveItself
<1>11. CASE UpdateNext \/ UpdateDone
  BY <1>11, SoundAfterUpdateNext, SoundAfterUpdateDone
<1>12. ASSUME NEW c \in Chain, FirstUnusedAddress(c) PROVE Sound'
  BY <1>3, <1>12 DEF FirstUnusedAddress
<1>13. CASE Restart
  BY <1>2, <1>13 DEF Restart
<1> QED
  BY <1>4, <1>5, <1>6, <1>8, <1>9, <1>10, <1>11, <1>12, <1>13 DEF Next

LEMMA AlwaysSound == Spec => []Sound
<1>1. Init => Sound
  BY DEF Init, Sound, LoopSound, OffersOnlyUnspent, Valid, SpentBy, OwnedBy
<1>2. Typed /\ Sound /\ [Next]_vars => Sound'
  <2> SUFFICES ASSUME Typed, Sound, [Next]_vars PROVE Sound'
    OBVIOUS
  <2>1. CASE Next
    BY <2>1, SoundIsInductive
  <2>2. CASE UNCHANGED vars
    BY <2>2 DEF vars, addressVars, ledgerVars, loopVars, Sound, LoopSound, Visited,
       OffersOnlyUnspent, Valid, SpentBy, OwnedBy, OwnOutputs, ContainsAddress
  <2> QED
    BY <2>1, <2>2
<1> QED
  BY <1>1, <1>2, AlwaysTyped, PTL DEF Spec

\* The wallet never offers to spend an output that one of its valid transactions
\* has spent, whatever the transactions are, and in whatever order updateBalance
\* meets them: "transaction ordering is not guaranteed".
THEOREM OnlyUnspentOffered == Spec => []OffersOnlyUnspent
<1>1. Sound => OffersOnlyUnspent
  BY DEF Sound
<1> QED
  BY <1>1, AlwaysSound, PTL


----------------------------------------------------------------------------
(***************************************************************************)
(* Double spends.  Only unconfirmed transactions are ever found invalid:   *)
(* that this is enough rests on the chain, which spends nothing twice, and *)
(* on the order of the list, in which updateBalance has seen all the       *)
(* confirmed transactions when it comes to the first unconfirmed one.      *)
(***************************************************************************)
HeightsBounded == blockHeight \in [Tx -> 0..TX_UNCONFIRMED] /\ branch \in [Tx -> 0..MaxHeight]

\* Confirmed, or to be confirmed in the reorganisation that is going on.
InChain(t) == Confirmed(t) \/ branch[t] > 0

ChainSpendsOnce ==
  \A t, u \in allTx : InChain(t) /\ InChain(u) /\ t # u => Inputs[t] \cap Inputs[u] = {}

UnconfirmedFirst ==
  \A i, j \in 1..Len(transactions) :
    i <= j /\ Confirmed(transactions[i]) => Confirmed(transactions[j])

Ordered == HeightsBounded /\ ChainSpendsOnce /\ UnconfirmedFirst

LoopSpendsOnce ==
  updating => \A t, u \in Visited \ loop.invalid : t # u => Inputs[t] \cap Inputs[u] = {}

SpendsOnce == LoopSpendsOnce /\ NoDoubleSpend

\* sortTransactions compares neighbours: so an unconfirmed transaction that comes
\* after a confirmed one would have a confirmed one just before it.
LEMMA SortedUnconfirmedFirst ==
  ASSUME NEW S, IsFiniteSet(S), NEW height, \A t \in S : height[t] \in 0..TX_UNCONFIRMED,
         NEW s \in Sorted(S, height),
         NEW i \in 1..Len(s), NEW j \in 1..Len(s), i <= j, height[s[i]] # TX_UNCONFIRMED
  PROVE  height[s[j]] # TX_UNCONFIRMED
<1> DEFINE n == Cardinality(S)
           Late == {k \in i..j : height[s[k]] = TX_UNCONFIRMED}
<1>1. n \in Nat /\ TX_UNCONFIRMED \in Nat
  BY FS_CardinalityType, LedgerAssumption DEF TX_UNCONFIRMED
<1>2. s \in [1..n -> S] /\ \A k \in 1..(n - 1) : height[s[k]] >= height[s[k + 1]]
  <2>1. s \in [1..n -> S]
    BY DEF Sorted
  <2>2. ASSUME NEW k \in 1..(n - 1) PROVE height[s[k]] >= height[s[k + 1]]
    <3>1. k \in 1..n /\ k + 1 \in 1..n
      BY <1>1
    <3>2. s[k] \in S /\ s[k + 1] \in S
      BY <2>1, <3>1
    <3>3. <<s[k], s[k + 1]>> \notin {p \in S \X S : \/ height[p[1]] < height[p[2]]
                                                    \/ /\ height[p[1]] = height[p[2]]
                                                       /\ Descends(p[2], p[1], height)}
      BY <2>2 DEF Sorted
    <3>4. ~(height[s[k]] < height[s[k + 1]])
      BY <3>2, <3>3
    <3>5. height[s[k]] \in 0..TX_UNCONFIRMED /\ height[s[k + 1]] \in 0..TX_UNCONFIRMED
      BY <3>2
    <3> QED
      BY <1>1, <3>4, <3>5
  <2> QED
    BY <2>1, <2>2
<1>3. Len(s) = n
  BY <1>1, <1>2, FunctionIsSeq
<1> SUFFICES ASSUME height[s[j]] = TX_UNCONFIRMED PROVE FALSE
  OBVIOUS
<1>4. Late \in SUBSET Nat /\ j \in Late
  BY <1>1, <1>3
<1>5. PICK k \in Late : \A l \in Late : k <= l
  BY <1>4, LeastOf
<1>6. k \in (i + 1)..j /\ k - 1 \in i..j /\ k - 1 \in 1..(n - 1) /\ (k - 1) + 1 = k
  BY <1>1, <1>3, <1>5
<1>7. k - 1 \notin Late
  BY <1>5, <1>6
<1>8. /\ height[s[k - 1]] >= TX_UNCONFIRMED
      /\ height[s[k - 1]] # TX_UNCONFIRMED
      /\ height[s[k - 1]] \in 0..TX_UNCONFIRMED
  <2>1. height[s[k - 1]] >= height[s[k]] /\ height[s[k]] = TX_UNCONFIRMED
    BY <1>2, <1>5, <1>6
  <2>2. s[k - 1] \in S
    BY <1>1, <1>2, <1>6
  <2> QED
    BY <1>6, <1>7, <2>1, <2>2
<1> QED
  BY <1>1, <1>8

LEMMA OrderedAfterRegister ==
  ASSUME Typed, Ordered, NEW t \in Tx, RegisterTransaction(t)
  PROVE  Ordered'
<1>1. /\ t \notin allTx /\ allTx' = allTx \cup {t}
      /\ transactions' = <<t>> \o transactions
      /\ blockHeight' = [blockHeight EXCEPT ![t] = TX_UNCONFIRMED]
      /\ branch = NoBranch /\ branch' = NoBranch
  BY DEF RegisterTransaction, Inserted, Idle
<1>2. TX_UNCONFIRMED \in 0..TX_UNCONFIRMED
  BY LedgerAssumption DEF TX_UNCONFIRMED
<1>3. HeightsBounded'
  BY <1>1, <1>2 DEF Ordered, HeightsBounded
<1>4. \A u \in allTx' : Confirmed(u)' <=> u # t /\ u \in allTx /\ Confirmed(u)
  BY <1>1 DEF Confirmed, Ordered, HeightsBounded, Typed, TypeOK
<1>5. ChainSpendsOnce'
  <2>1. \A u \in allTx' : InChain(u)' => u \in allTx /\ InChain(u)
    BY <1>1, <1>4 DEF InChain, NoBranch, Typed, TypeOK
  <2> QED
    BY <1>1, <2>1 DEF Ordered, ChainSpendsOnce
<1>6. /\ transactions \in Seq(allTx) /\ Len(transactions) \in Nat
      /\ Len(transactions') = Len(transactions) + 1
      /\ transactions'[1] = t
      /\ \A i \in 2..Len(transactions') : transactions'[i] = transactions[i - 1]
  <2>1. transactions \in Seq(allTx) /\ transactions \in Seq(Tx) /\ <<t>> \in Seq(Tx)
    BY DEF Typed, TypeOK, Lists
  <2> QED
    BY <1>1, <2>1
<1>7. UnconfirmedFirst'
  <2> SUFFICES ASSUME NEW i \in 1..Len(transactions'), NEW j \in 1..Len(transactions'), i <= j,
                      Confirmed(transactions[i])'
               PROVE  Confirmed(transactions[j])'
    BY DEF UnconfirmedFirst
  <2>1. \A k \in 1..Len(transactions') : transactions'[k] \in allTx'
    BY <1>1, <1>6
  <2>2. transactions'[i] # t /\ Confirmed(transactions'[i])
    BY <1>4, <2>1
  <2>3. i # 1 /\ i - 1 \in 1..Len(transactions) /\ j - 1 \in 1..Len(transactions) /\ i - 1 <= j - 1
    BY <1>6, <2>2
  <2>4. Confirmed(transactions[i - 1])
    BY <1>6, <2>2, <2>3
  <2>5. Confirmed(transactions[j - 1])
    BY <2>3, <2>4 DEF Ordered, UnconfirmedFirst
  <2>6. transactions'[j] = transactions[j - 1] /\ transactions[j - 1] \in allTx
    BY <1>6, <2>3
  <2> QED
    BY <1>1, <1>4, <2>5, <2>6
<1> QED
  BY <1>3, <1>5, <1>7 DEF Ordered

\* After a sort by the heights in blockHeight'.
LEMMA UnconfirmedFirstWhenSorted ==
  ASSUME Typed, HeightsBounded', allTx' = allTx, transactions' \in Sorted(allTx, blockHeight')
  PROVE  UnconfirmedFirst'
<1>1. IsFiniteSet(allTx) /\ allTx \subseteq Tx
  BY LedgerAssumption, FS_Subset DEF Typed, TypeOK
<1>2. PICK height, s : height = blockHeight' /\ s = transactions'
  OBVIOUS
<1>3. \A t \in allTx : height[t] \in 0..TX_UNCONFIRMED
  BY <1>1, <1>2 DEF HeightsBounded, TX_UNCONFIRMED
<1>4. s \in Sorted(allTx, height)
  BY <1>2
<1>5. s \in Seq(allTx) /\ \A k \in 1..Len(s) : s[k] \in allTx
  <2>1. Lists(s, allTx)
    BY <1>1, <1>4, ListSorted
  <2> QED
    BY <2>1 DEF Lists
<1>6. \A i, j \in 1..Len(s) :
        i <= j /\ height[s[i]] # TX_UNCONFIRMED => height[s[j]] # TX_UNCONFIRMED
  BY <1>1, <1>3, <1>4, SortedUnconfirmedFirst
<1> QED
  BY <1>2, <1>5, <1>6 DEF UnconfirmedFirst, Confirmed, TX_UNCONFIRMED

\* setBlockHeight:forTxHashes: on a transaction of the wallet.
LEMMA HeightsAfterSet ==
  ASSUME Typed, Ordered, NEW h \in 0..TX_UNCONFIRMED, NEW txs, SetBlockHeight(h, txs),
         allTx' = allTx, branch' \in [Tx -> 0..MaxHeight]
  PROVE  /\ \A t \in allTx : blockHeight'[t] = IF t \in txs THEN h ELSE blockHeight[t]
         /\ HeightsBounded' /\ UnconfirmedFirst'
<1>1. CASE /\ \A t \in txs \cap allTx : blockHeight[t] = h
           /\ UNCHANGED <<transactions, blockHeight, loopVars>>
  BY <1>1 DEF Ordered, HeightsBounded, UnconfirmedFirst, Confirmed, TX_UNCONFIRMED
<1>2. CASE /\ blockHeight' = [t \in Tx |-> IF t \in txs \cap allTx THEN h ELSE blockHeight[t]]
           /\ transactions' \in Sorted(allTx, blockHeight')
  <2>1. \A t \in allTx : blockHeight'[t] = IF t \in txs THEN h ELSE blockHeight[t]
    BY <1>2 DEF Typed, TypeOK
  <2>2. HeightsBounded'
    BY <1>2 DEF Ordered, HeightsBounded, TX_UNCONFIRMED
  <2> QED
    BY <1>2, <2>1, <2>2, UnconfirmedFirstWhenSorted
<1> QED
  BY <1>1, <1>2 DEF SetBlockHeight

LEMMA OrderedAfterConfirm ==
  ASSUME Typed, Ordered, NEW h \in 1..MaxHeight, NEW txs \in SUBSET allTx, ConfirmBlock(h, txs)
  PROVE  Ordered'
<1> DEFINE heights == [t \in Tx |-> IF t \in txs THEN h ELSE 0]
<1>1. /\ allTx' = allTx /\ branch = NoBranch /\ branch' = branch
      /\ OfOneChain(heights, h) /\ SetBlockHeight(h, txs)
      /\ \A t \in allTx : Confirmed(t) => blockHeight[t] <= h
  BY Zenon DEF ConfirmBlock, Idle
<1>2. h \in 0..TX_UNCONFIRMED /\ h # TX_UNCONFIRMED
  BY LedgerAssumption DEF TX_UNCONFIRMED
<1>3. /\ \A t \in allTx : blockHeight'[t] = IF t \in txs THEN h ELSE blockHeight[t]
      /\ HeightsBounded' /\ UnconfirmedFirst'
  BY <1>1, <1>2, HeightsAfterSet DEF Ordered, HeightsBounded
<1>4. \A t \in allTx : InChain(t)' => t \in txs \/ (Confirmed(t) /\ blockHeight[t] <= h)
  BY <1>1, <1>3 DEF InChain, Confirmed, TX_UNCONFIRMED, NoBranch, Typed, TypeOK
<1>5. \A t \in txs : heights[t] > 0
  BY DEF Typed, TypeOK
<1>6. \A t \in txs, u \in allTx :
        t # u /\ (u \in txs \/ (Confirmed(u) /\ blockHeight[u] <= h)) => Inputs[t] \cap Inputs[u] = {}
  BY <1>1, <1>5 DEF OfOneChain
<1>7. ChainSpendsOnce'
  BY <1>1, <1>4, <1>6 DEF Ordered, ChainSpendsOnce, InChain
<1> QED
  BY <1>3, <1>7 DEF Ordered

LEMMA OrderedAfterReorganize ==
  ASSUME Typed, Ordered, NEW join \in 0..MaxHeight, NEW heights \in [Tx -> 0..MaxHeight],
         Reorganize(join, heights)
  PROVE  Ordered'
<1> DEFINE above == {t \in allTx : blockHeight[t] > join}
<1>1. /\ allTx' = allTx /\ branch' = heights
      /\ OfOneChain(heights, join) /\ SetBlockHeight(TX_UNCONFIRMED, above)
  BY Zenon DEF Reorganize
<1>2. TX_UNCONFIRMED \in 0..TX_UNCONFIRMED
  BY LedgerAssumption DEF TX_UNCONFIRMED
<1>3. /\ \A t \in allTx : blockHeight'[t] = IF t \in above THEN TX_UNCONFIRMED ELSE blockHeight[t]
      /\ HeightsBounded' /\ UnconfirmedFirst'
  BY <1>1, <1>2, HeightsAfterSet
<1>4. \A t \in allTx : Confirmed(t)' => Confirmed(t) /\ blockHeight[t] <= join
  BY <1>1, <1>3 DEF Confirmed, TX_UNCONFIRMED, Typed, TypeOK
<1>5. ASSUME NEW t \in allTx, NEW u \in allTx, InChain(t)', InChain(u)', t # u
      PROVE  Inputs[t] \cap Inputs[u] = {}
  <2>1. CASE heights[t] > 0
    BY <1>1, <1>4, <1>5, <2>1 DEF InChain, OfOneChain
  <2>2. CASE heights[u] > 0
    BY <1>1, <1>4, <1>5, <2>2 DEF InChain, OfOneChain
  <2>3. CASE Confirmed(t) /\ Confirmed(u)
    BY <1>5, <2>3 DEF Ordered, ChainSpendsOnce, InChain
  <2> QED
    BY <1>1, <1>4, <1>5, <2>1, <2>2, <2>3 DEF InChain
<1> QED
  BY <1>1, <1>3, <1>5 DEF Ordered, ChainSpendsOnce

LEMMA OrderedAfterConfirmBranch ==
  ASSUME Typed, Ordered, ConfirmBranch
  PROVE  Ordered'
<1>1. PICK t \in Tx :
        /\ branch[t] > 0
        /\ SetBlockHeight(branch[t], {u \in Tx : branch[u] = branch[t]})
        /\ branch' = [u \in Tx |-> IF branch[u] = branch[t] THEN 0 ELSE branch[u]]
  BY DEF ConfirmBranch
<1>2. allTx' = allTx
  BY DEF ConfirmBranch
<1>3. /\ branch[t] \in 0..TX_UNCONFIRMED /\ branch[t] # TX_UNCONFIRMED
      /\ branch' \in [Tx -> 0..MaxHeight]
  BY <1>1, LedgerAssumption DEF Ordered, HeightsBounded, TX_UNCONFIRMED
<1>4. /\ \A u \in allTx : blockHeight'[u] = IF u \in {v \in Tx : branch[v] = branch[t]}
                                            THEN branch[t] ELSE blockHeight[u]
      /\ HeightsBounded' /\ UnconfirmedFirst'
  BY <1>1, <1>2, <1>3, HeightsAfterSet
<1>5. \A u \in allTx : InChain(u)' => InChain(u)
  <2> SUFFICES ASSUME NEW u \in allTx, InChain(u)' PROVE InChain(u)
    OBVIOUS
  <2>1. u \in Tx
    BY DEF Typed, TypeOK
  <2>2. CASE branch[u] = branch[t]
    BY <1>1, <2>2 DEF InChain
  <2>3. CASE branch[u] # branch[t]
    BY <1>1, <1>2, <1>4, <2>1, <2>3 DEF InChain, Confirmed, TX_UNCONFIRMED
  <2> QED
    BY <2>2, <2>3
<1>6. ChainSpendsOnce'
  BY <1>2, <1>5 DEF Ordered, ChainSpendsOnce
<1> QED
  BY <1>4, <1>6 DEF Ordered

LEMMA OrderedAfterRemoval ==
  ASSUME Typed, Ordered, RemoveItself
  PROVE  Ordered'
<1>1. allTx' \subseteq allTx /\ blockHeight' = blockHeight /\ branch' = branch
  BY DEF RemoveItself
<1>2. \A t \in allTx' : Confirmed(t)' <=> Confirmed(t)
  BY <1>1 DEF Confirmed, TX_UNCONFIRMED
<1>3. HeightsBounded' /\ ChainSpendsOnce'
  BY <1>1, <1>2 DEF Ordered, HeightsBounded, ChainSpendsOnce, InChain, TX_UNCONFIRMED
<1>4. Lists(transactions, allTx) /\ Lists(transactions', allTx')
  BY RemoveItselfType DEF Typed, TypeOK
<1>5. \A i \in 1..Len(transactions') : transactions'[i] \in allTx'
  BY <1>4 DEF Lists
<1>6. ASSUME NEW i \in 1..Len(transactions'), NEW j \in 1..Len(transactions'), i <= j
      PROVE  \E k, l \in 1..Len(transactions) :
               k <= l /\ transactions'[i] = transactions[k] /\ transactions'[j] = transactions[l]
  <2>1. CASE transactions' = transactions
    BY <1>6, <2>1
  <2>2. ASSUME NEW m \in 1..Len(transactions),
               transactions' = [k \in 1..(Len(transactions) - 1) |->
                                  IF k < m THEN transactions[k] ELSE transactions[k + 1]]
        PROVE  \E k, l \in 1..Len(transactions) :
                 k <= l /\ transactions'[i] = transactions[k] /\ transactions'[j] = transactions[l]
    <3> DEFINE n == Len(transactions) - 1
               at(k) == IF k < m THEN k ELSE k + 1
    <3>1. Len(transactions) \in Nat /\ n \in Nat
      <4>1. transactions \in Seq(allTx)
        BY <1>4 DEF Lists
      <4>2. Len(transactions) \in Nat
        BY <4>1, LenProperties
      <4> QED
        BY <4>2
    <3>2. DOMAIN transactions' = 1..n /\ DOMAIN transactions' = 1..Len(transactions')
      <4>1. transactions' \in Seq(allTx')
        BY <1>4 DEF Lists
      <4> QED
        BY <2>2, <4>1, LenProperties
    <3>3. i \in 1..n /\ j \in 1..n
      BY <3>2
    <3>4. transactions'[i] = transactions[at(i)] /\ transactions'[j] = transactions[at(j)]
      BY <2>2, <3>3
    <3>5. at(i) \in 1..Len(transactions) /\ at(j) \in 1..Len(transactions) /\ at(i) <= at(j)
      BY <1>6, <3>1, <3>3
    <3> QED
      BY <3>4, <3>5
  <2> QED
    BY <2>1, <2>2 DEF RemoveItself
<1>7. UnconfirmedFirst'
  <2> SUFFICES ASSUME NEW i \in 1..Len(transactions'), NEW j \in 1..Len(transactions'), i <= j,
                      Confirmed(transactions[i])'
               PROVE  Confirmed(transactions[j])'
    BY DEF UnconfirmedFirst
  <2>1. PICK k, l \in 1..Len(transactions) :
          k <= l /\ transactions'[i] = transactions[k] /\ transactions'[j] = transactions[l]
    BY <1>6
  <2>2. Confirmed(transactions[k])
    BY <1>2, <1>5, <2>1
  <2>3. Confirmed(transactions[l])
    BY <2>1, <2>2 DEF Ordered, UnconfirmedFirst
  <2> QED
    BY <1>2, <1>5, <2>1, <2>3
<1> QED
  BY <1>3, <1>7 DEF Ordered

LEMMA OrderedAfterRestart ==
  ASSUME Typed, Ordered, Restart
  PROVE  Ordered'
<1>1. /\ allTx' = allTx /\ blockHeight' = blockHeight /\ branch' = branch
      /\ transactions' \in Sorted(allTx, blockHeight')
  BY Zenon DEF Restart
<1>2. HeightsBounded' /\ ChainSpendsOnce'
  BY <1>1 DEF Ordered, HeightsBounded, ChainSpendsOnce, InChain, Confirmed, TX_UNCONFIRMED
<1> QED
  BY <1>1, <1>2, UnconfirmedFirstWhenSorted DEF Ordered

LEMMA OrderedWhenUnchanged ==
  ASSUME Ordered, UNCHANGED <<allTx, transactions, blockHeight, branch>>
  PROVE  Ordered'
BY DEF Ordered, HeightsBounded, ChainSpendsOnce, UnconfirmedFirst, InChain, Confirmed, TX_UNCONFIRMED

LEMMA OrderedIsInductive ==
  ASSUME Typed, Ordered, Next
  PROVE  Ordered'
<1>1. CASE UNCHANGED <<allTx, transactions, blockHeight, branch>>
  BY <1>1, OrderedWhenUnchanged
<1>2. ASSUME NEW t \in Tx, RegisterTransaction(t) PROVE Ordered'
  BY <1>2, OrderedAfterRegister
<1>3. ASSUME NEW h \in 1..MaxHeight, NEW txs \in SUBSET allTx, ConfirmBlock(h, txs) PROVE Ordered'
  BY <1>3, OrderedAfterConfirm
<1>4. ASSUME NEW join \in 0..MaxHeight, NEW heights \in [Tx -> 0..MaxHeight],
             Reorganize(join, heights)
      PROVE  Ordered'
  BY <1>4, OrderedAfterReorganize
<1>5. CASE RemoveItself
  BY <1>5, OrderedAfterRemoval
<1>6. CASE Restart
  BY <1>6, OrderedAfterRestart
<1>7. CASE ConfirmBranch
  BY <1>7, OrderedAfterConfirmBranch
<1> QED
  BY <1>1, <1>2, <1>3, <1>4, <1>5, <1>6, <1>7
  DEF Next, PrepareAddresses, Refill, RemoveUnrelayed, RemoveTransaction, RemoveDependent,
      UpdateNext, UpdateDone, FirstUnusedAddress

LEMMA AlwaysOrdered == Spec => []Ordered
<1>1. Init => Ordered
  BY LedgerAssumption
  DEF Init, Ordered, HeightsBounded, ChainSpendsOnce, UnconfirmedFirst, TX_UNCONFIRMED, NoBranch
<1>2. Typed /\ Ordered /\ [Next]_vars => Ordered'
  <2> SUFFICES ASSUME Typed, Ordered, [Next]_vars PROVE Ordered'
    OBVIOUS
  <2>1. CASE Next
    BY <2>1, OrderedIsInductive
  <2>2. CASE UNCHANGED vars
    BY <2>2, OrderedWhenUnchanged DEF vars
  <2> QED
    BY <2>1, <2>2
<1> QED
  BY <1>1, <1>2, AlwaysTyped, PTL DEF Spec

----------------------------------------------------------------------------
\* A step of updateBalance: an unconfirmed transaction is compared with all that is
\* spent; before a confirmed one it has seen only confirmed ones.
LEMMA SpendsOnceAfterUpdateNext ==
  ASSUME Typed, Sound, Ordered, SpendsOnce, UpdateNext
  PROVE  SpendsOnce'
<1> DEFINE n == loop.left
           t == transactions[n]
<1>1. n \in 1..Len(transactions) /\ Len(transactions) \in Nat /\ t \in allTx
  BY VisitsOneMore
<1>2. updating /\ updating' = updating
  BY DEF UpdateNext
<1>3. Visited' = Visited \cup {t}
  BY VisitsOneMore
<1>4. /\ loop.spent = SpentBy(Visited \ loop.invalid)
      /\ \A u, v \in Visited \ loop.invalid : u # v => Inputs[u] \cap Inputs[v] = {}
  BY <1>2 DEF Sound, LoopSound, SpendsOnce, LoopSpendsOnce
<1>5. CASE Invalid(t)
  <2>1. loop'.invalid = loop.invalid \cup {t}
    BY <1>5 DEF UpdateNext, Typed, LoopRecord
  <2>2. Visited' \ loop'.invalid \subseteq Visited \ loop.invalid
    BY <1>3, <2>1
  <2> QED
    BY <1>4, <1>2, <2>2 DEF SpendsOnce, LoopSpendsOnce, NoDoubleSpend
<1>6. CASE ~Invalid(t)
  <2>1. loop'.invalid = loop.invalid
    BY <1>6 DEF UpdateNext
  <2>2. Visited' \ loop'.invalid \subseteq (Visited \ loop.invalid) \cup {t}
    BY <1>3, <2>1
  <2>3. ASSUME NEW u \in Visited \ loop.invalid, u # t PROVE Inputs[t] \cap Inputs[u] = {}
    <3>1. CASE blockHeight[t] = TX_UNCONFIRMED
      <4>1. Inputs[t] \cap loop.spent = {}
        BY <1>6, <3>1 DEF Invalid
      <4> QED
        BY <1>4, <2>3, <4>1 DEF SpentBy
    <3>2. CASE blockHeight[t] # TX_UNCONFIRMED
      <4>1. Confirmed(t)
        BY <1>1, <3>2 DEF Confirmed
      <4>2. PICK i \in (n + 1)..Len(transactions) : u = transactions[i]
        BY <2>3 DEF Visited
      <4>3. i \in 1..Len(transactions) /\ n <= i
        BY <1>1, <4>2
      <4>4. Confirmed(u)
        BY <1>1, <4>1, <4>2, <4>3 DEF Ordered, UnconfirmedFirst
      <4> QED
        BY <2>3, <4>1, <4>4 DEF Ordered, ChainSpendsOnce, InChain, Confirmed
    <3> QED
      BY <3>1, <3>2
  <2> QED
    BY <1>4, <1>2, <2>2, <2>3 DEF SpendsOnce, LoopSpendsOnce, NoDoubleSpend
<1> QED
  BY <1>5, <1>6

LEMMA SpendsOnceAfterUpdateDone ==
  ASSUME Typed, SpendsOnce, UpdateDone
  PROVE  SpendsOnce'
<1>1. Visited = allTx
  BY DEF Typed, TypeOK, Lists, Visited, UpdateDone
<1>2. Valid' = Visited \ loop.invalid /\ updating /\ updating' = FALSE
  BY <1>1 DEF UpdateDone, Valid
<1> QED
  BY <1>2 DEF SpendsOnce, LoopSpendsOnce, NoDoubleSpend

LEMMA SpendsOnceWhenStarted ==
  ASSUME Lists(transactions', allTx'), StartUpdate(transactions')
  PROVE  SpendsOnce'
<1>1. Len(transactions') \in Nat
  BY DEF Lists
<1>2. updating' = TRUE /\ loop'.left = Len(transactions')
  BY DEF StartUpdate, Locals
<1>3. Visited' = {}
  BY <1>1, <1>2 DEF Visited
<1> QED
  BY <1>2, <1>3 DEF SpendsOnce, LoopSpendsOnce, NoDoubleSpend

LEMMA SpendsOnceWhenUnchanged ==
  ASSUME SpendsOnce, UNCHANGED <<allTx, transactions, ledgerVars, loopVars>>
  PROVE  SpendsOnce'
BY DEF SpendsOnce, LoopSpendsOnce, NoDoubleSpend, Valid, Visited, ledgerVars, loopVars

LEMMA SpendsOnceIsInductive ==
  ASSUME Typed, Sound, Ordered, SpendsOnce, Next
  PROVE  SpendsOnce'
<1>1. Lists(transactions', allTx')
  BY TypedIsInductive DEF Typed, TypeOK
<1>2. CASE StartUpdate(transactions')
  BY <1>1, <1>2, SpendsOnceWhenStarted
<1>3. CASE UNCHANGED <<allTx, transactions, ledgerVars, loopVars>>
  BY <1>3, SpendsOnceWhenUnchanged
<1>4. CASE UpdateNext \/ UpdateDone
  BY <1>4, SpendsOnceAfterUpdateNext, SpendsOnceAfterUpdateDone
<1> QED
  BY <1>2, <1>3, <1>4
  DEF Next, PrepareAddresses, RegisterTransaction, Refill, ConfirmBlock, Reorganize, ConfirmBranch,
      SetBlockHeight, RemoveUnrelayed, RemoveTransaction, RemoveDependent, RemoveItself, FirstUnusedAddress, Restart

\* The wallet never counts two transactions that spend the same output, as long as
\* the network's chain does not: updateBalance finds one of them invalid, whatever
\* was registered, confirmed, reorganised and removed, and in whatever order.
THEOREM NeverDoubleSpent == Spec => []NoDoubleSpend
<1>1. Init => SpendsOnce
  BY DEF Init, SpendsOnce, LoopSpendsOnce, NoDoubleSpend, Valid
<1>2. Typed /\ Sound /\ Ordered /\ SpendsOnce /\ [Next]_vars => SpendsOnce'
  <2> SUFFICES ASSUME Typed, Sound, Ordered, SpendsOnce, [Next]_vars PROVE SpendsOnce'
    OBVIOUS
  <2>1. CASE Next
    BY <2>1, SpendsOnceIsInductive
  <2>2. CASE UNCHANGED vars
    BY <2>2, SpendsOnceWhenUnchanged DEF vars
  <2> QED
    BY <2>1, <2>2
<1>3. SpendsOnce => NoDoubleSpend
  BY DEF SpendsOnce
<1> QED
  BY <1>1, <1>2, <1>3, AlwaysTyped, AlwaysSound, AlwaysOrdered, PTL DEF Spec
----------------------------------------------------------------------------
(***************************************************************************)
(* Removals.  removeTransaction: looks for dependent transactions from the *)
(* most recent one on, down to the first that is older.  That this finds   *)
(* all of them rests on the chain, which has parents before children: what *)
(* depends on an unconfirmed transaction is unconfirmed, and thus at the   *)
(* front of the list.                                                      *)
(***************************************************************************)
ChainHeight(t) == IF Confirmed(t) THEN blockHeight[t] ELSE branch[t]

BranchUnconfirmed ==
  \A t \in Tx : branch[t] > 0 => t \in allTx /\ blockHeight[t] = TX_UNCONFIRMED

ParentsInChain ==
  \A t, u \in Tx :
    InChain(t) /\ Spends(t, u) => InChain(u) /\ ChainHeight(u) <= ChainHeight(t)

\* No reorganisation goes on while transactions are removed, none of which is
\* confirmed.
RemovesUnconfirmed ==
  /\ unrelayed # {} \/ removing # <<>> => branch = NoBranch
  /\ \A t \in unrelayed : t \in Tx /\ ~Confirmed(t)
  /\ removing \in Seq([tx : Tx, hashes : SUBSET Tx])
  /\ \A i \in 1..Len(removing) :
       ~Confirmed(removing[i].tx) /\ \A u \in removing[i].hashes : ~Confirmed(u)

\* What depends on the transaction of a frame is yet to be removed from there, or is
\* what the next frame removes.
FramesCover ==
  \A i \in 1..Len(removing) : \A u \in allTx \ {removing[i].tx} :
    Spends(u, removing[i].tx) =>
      u \in removing[i].hashes \/ (i < Len(removing) /\ u = removing[i + 1].tx)

Related == BranchUnconfirmed /\ ParentsInChain

Removable == RemovesUnconfirmed /\ FramesCover

LEMMA RelatedAfterRegister ==
  ASSUME Typed, Ordered, Related, NEW t \in Tx, RegisterTransaction(t)
  PROVE  Related'
<1>1. /\ t \notin allTx /\ allTx' = allTx \cup {t}
      /\ blockHeight' = [blockHeight EXCEPT ![t] = TX_UNCONFIRMED]
      /\ branch = NoBranch /\ branch' = NoBranch
  BY DEF RegisterTransaction, Idle
<1>2. \A u \in Tx : /\ Confirmed(u)' <=> Confirmed(u)
                    /\ Confirmed(u) => blockHeight'[u] = blockHeight[u]
  BY <1>1 DEF Confirmed, TX_UNCONFIRMED, Typed, TypeOK
<1>3. \A u \in Tx : branch[u] = 0 /\ branch'[u] = 0
  BY <1>1 DEF NoBranch
<1>4. BranchUnconfirmed'
  BY <1>3 DEF BranchUnconfirmed
<1>5. ParentsInChain'
  BY <1>2, <1>3 DEF Related, ParentsInChain, InChain, ChainHeight, Spends
<1> QED
  BY <1>4, <1>5 DEF Related

LEMMA RelatedAfterConfirm ==
  ASSUME Typed, Ordered, Related, NEW h \in 1..MaxHeight, NEW txs \in SUBSET allTx, ConfirmBlock(h, txs)
  PROVE  Related'
<1> DEFINE heights == [t \in Tx |-> IF t \in txs THEN h ELSE 0]
<1>1. /\ allTx' = allTx /\ branch = NoBranch /\ branch' = branch
      /\ OfOneChain(heights, h) /\ SetBlockHeight(h, txs)
      /\ \A t \in allTx : Confirmed(t) => blockHeight[t] <= h
  BY Zenon DEF ConfirmBlock, Idle
<1>2. h \in 0..TX_UNCONFIRMED /\ h # TX_UNCONFIRMED
  BY LedgerAssumption DEF TX_UNCONFIRMED
<1>3. \A t \in allTx : blockHeight'[t] = IF t \in txs THEN h ELSE blockHeight[t]
  BY <1>1, <1>2, HeightsAfterSet DEF Ordered, HeightsBounded
<1>4. \A t \in Tx : branch[t] = 0 /\ branch'[t] = 0
  BY <1>1 DEF NoBranch
<1>5. \A t \in Tx : Confirmed(t)' <=> t \in txs \/ Confirmed(t)
  BY <1>1, <1>2, <1>3 DEF Confirmed, TX_UNCONFIRMED
<1>6. \A t \in Tx : Confirmed(t)' => blockHeight'[t] = IF t \in txs THEN h ELSE blockHeight[t]
  BY <1>1, <1>3 DEF Confirmed
<1>7. ASSUME NEW t \in Tx, NEW u \in Tx, Confirmed(t)', Spends(t, u)
      PROVE  Confirmed(u)' /\ blockHeight'[u] <= blockHeight'[t]
  <2>1. CASE t \in txs
    <3>1. heights[t] = h /\ h > 0
      BY <2>1
    <3>2. (Confirmed(u) /\ blockHeight[u] <= h) \/ heights[u] > 0
      BY <1>1, <1>7, <3>1, Zenon DEF OfOneChain
    <3>3. Confirmed(u) \/ u \in txs
      BY <3>2
    <3>4. blockHeight'[t] = h
      BY <1>6, <1>7, <2>1
    <3>5. Confirmed(u) => blockHeight[u] <= h /\ u \in allTx
      BY <1>1 DEF Confirmed
    <3> QED
      BY <1>5, <1>6, <3>3, <3>4, <3>5
  <2>2. CASE t \notin txs
    <3>1. Confirmed(t) /\ InChain(t) /\ blockHeight'[t] = blockHeight[t]
      BY <1>5, <1>6, <1>7, <2>2 DEF InChain
    <3>2. InChain(u) /\ ChainHeight(u) <= ChainHeight(t)
      BY <1>7, <3>1 DEF Related, ParentsInChain
    <3>3. Confirmed(u) /\ blockHeight[u] <= blockHeight[t]
      BY <1>4, <3>1, <3>2 DEF InChain, ChainHeight
    <3>4. u \notin txs
      <4> SUFFICES ASSUME u \in txs PROVE FALSE
        OBVIOUS
      <4>1. heights[u] > 0
        BY <1>2
      <4>2. ~(Confirmed(u) /\ blockHeight[u] <= h)
        BY <1>1, <4>1, Zenon DEF OfOneChain
      <4> QED
        BY <1>1, <3>3, <4>2 DEF Confirmed
    <3> QED
      BY <1>5, <1>6, <3>1, <3>3, <3>4
  <2> QED
    BY <2>1, <2>2
<1>8. ParentsInChain'
  BY <1>4, <1>7 DEF ParentsInChain, InChain, ChainHeight, Spends
<1>9. BranchUnconfirmed'
  BY <1>4 DEF BranchUnconfirmed
<1> QED
  BY <1>8, <1>9 DEF Related

LEMMA RelatedAfterReorganize ==
  ASSUME Typed, Ordered, Related, NEW join \in 0..MaxHeight, NEW heights \in [Tx -> 0..MaxHeight],
         Reorganize(join, heights)
  PROVE  Related'
<1> DEFINE above == {t \in allTx : blockHeight[t] > join}
           Old(t) == Confirmed(t) /\ blockHeight[t] <= join
<1>1. /\ allTx' = allTx /\ branch' = heights /\ branch = NoBranch
      /\ OfOneChain(heights, join) /\ SetBlockHeight(TX_UNCONFIRMED, above)
      /\ \A t \in Tx : heights[t] \notin 1..join
  BY Zenon DEF Reorganize, Idle
<1>2. TX_UNCONFIRMED \in 0..TX_UNCONFIRMED /\ join < TX_UNCONFIRMED
  BY LedgerAssumption DEF TX_UNCONFIRMED
<1>3. \A t \in allTx : blockHeight'[t] = IF t \in above THEN TX_UNCONFIRMED ELSE blockHeight[t]
  BY <1>1, <1>2, HeightsAfterSet
<1>4. \A t \in Tx : Confirmed(t)' <=> Old(t)
  BY <1>1, <1>2, <1>3 DEF Confirmed, TX_UNCONFIRMED, Typed, TypeOK
<1>5. \A t \in Tx : Old(t) => blockHeight'[t] = blockHeight[t]
  BY <1>3 DEF Confirmed, Typed, TypeOK
<1>6. \A t \in Tx : heights[t] > 0 => /\ t \in allTx /\ ~Old(t) /\ heights[t] > join
                                      /\ blockHeight'[t] = TX_UNCONFIRMED
  <2> SUFFICES ASSUME NEW t \in Tx, heights[t] > 0
               PROVE  /\ t \in allTx /\ ~Old(t) /\ heights[t] > join
                      /\ blockHeight'[t] = TX_UNCONFIRMED
    OBVIOUS
  <2>1. t \in allTx /\ ~Old(t)
    BY <1>1, Zenon DEF OfOneChain
  <2>2. heights[t] > join
    BY <1>1
  <2>3. blockHeight'[t] = TX_UNCONFIRMED
    BY <1>1, <1>4, <2>1 DEF Confirmed, TX_UNCONFIRMED
  <2> QED
    BY <2>1, <2>2, <2>3
<1>7. BranchUnconfirmed'
  BY <1>1, <1>6 DEF BranchUnconfirmed, TX_UNCONFIRMED
<1>8. ASSUME NEW t \in Tx, NEW u \in Tx, InChain(t)', Spends(t, u)
      PROVE  InChain(u)' /\ ChainHeight(u)' <= ChainHeight(t)'
  <2>1. CASE heights[t] > 0
    <3>1. Old(u) \/ (heights[u] > 0 /\ heights[u] <= heights[t])
      BY <1>1, <1>8, <2>1, Zenon DEF OfOneChain
    <3>2. ChainHeight(t)' = heights[t] /\ heights[t] > join
      BY <1>1, <1>4, <1>6, <2>1 DEF ChainHeight
    <3>3. CASE Old(u)
      <4>1. blockHeight[u] \in Nat
        BY DEF Typed, TypeOK
      <4> QED
        BY <1>4, <1>5, <3>2, <3>3, <4>1 DEF InChain, ChainHeight
    <3>4. CASE heights[u] > 0 /\ heights[u] <= heights[t]
      BY <1>1, <1>4, <1>6, <3>2, <3>4 DEF InChain, ChainHeight
    <3> QED
      BY <3>1, <3>3, <3>4
  <2>2. CASE ~(heights[t] > 0)
    <3>1. Old(t) /\ InChain(t)
      BY <1>1, <1>4, <1>8, <2>2 DEF InChain
    <3>2. InChain(u) /\ ChainHeight(u) <= ChainHeight(t)
      BY <1>8, <3>1 DEF Related, ParentsInChain
    <3>3. branch[u] = 0
      BY <1>1 DEF NoBranch
    <3>4. Confirmed(u) /\ blockHeight[u] <= blockHeight[t]
      BY <3>1, <3>2, <3>3 DEF InChain, ChainHeight
    <3>5. blockHeight[u] \in Nat /\ blockHeight[t] \in Nat
      BY DEF Typed, TypeOK
    <3>6. Old(u)
      BY <3>1, <3>4, <3>5
    <3> QED
      BY <1>4, <1>5, <3>1, <3>4, <3>6 DEF InChain, ChainHeight
  <2> QED
    BY <2>1, <2>2
<1>9. ParentsInChain'
  BY <1>8 DEF ParentsInChain, Spends
<1> QED
  BY <1>7, <1>9 DEF Related

LEMMA RelatedAfterConfirmBranch ==
  ASSUME Typed, Ordered, Related, ConfirmBranch
  PROVE  Related'
<1>1. PICK t \in Tx :
        /\ branch[t] > 0
        /\ SetBlockHeight(branch[t], {u \in Tx : branch[u] = branch[t]})
        /\ branch' = [u \in Tx |-> IF branch[u] = branch[t] THEN 0 ELSE branch[u]]
  BY DEF ConfirmBranch
<1>2. allTx' = allTx
  BY DEF ConfirmBranch
<1>3. /\ branch[t] \in 0..TX_UNCONFIRMED /\ branch[t] # TX_UNCONFIRMED
      /\ branch' \in [Tx -> 0..MaxHeight]
  BY <1>1, LedgerAssumption DEF Ordered, HeightsBounded, TX_UNCONFIRMED
<1>4. \A u \in allTx : blockHeight'[u] = IF u \in {v \in Tx : branch[v] = branch[t]}
                                         THEN branch[t] ELSE blockHeight[u]
  BY <1>1, <1>2, <1>3, HeightsAfterSet
<1>5. \A u \in Tx : branch[u] = branch[t] =>
        /\ InChain(u) /\ ~Confirmed(u) /\ ChainHeight(u) = branch[t]
        /\ Confirmed(u)' /\ blockHeight'[u] = branch[t]
  <2> SUFFICES ASSUME NEW u \in Tx, branch[u] = branch[t]
               PROVE  /\ InChain(u) /\ ~Confirmed(u) /\ ChainHeight(u) = branch[t]
                      /\ Confirmed(u)' /\ blockHeight'[u] = branch[t]
    OBVIOUS
  <2>1. u \in allTx /\ blockHeight[u] = TX_UNCONFIRMED
    BY <1>1 DEF Related, BranchUnconfirmed
  <2>2. blockHeight'[u] = branch[t]
    BY <1>4, <2>1
  <2> QED
    BY <1>1, <1>2, <1>3, <2>1, <2>2 DEF InChain, Confirmed, ChainHeight, TX_UNCONFIRMED
<1>6. \A u \in Tx : branch[u] # branch[t] =>
        /\ Confirmed(u)' <=> Confirmed(u)
        /\ branch'[u] = branch[u] /\ (u \in allTx => blockHeight'[u] = blockHeight[u])
  BY <1>1, <1>2, <1>4 DEF Confirmed, TX_UNCONFIRMED
<1>7. \A u \in Tx : /\ InChain(u) <=> InChain(u)'
                    /\ InChain(u) => ChainHeight(u)' = ChainHeight(u)
  <2> SUFFICES ASSUME NEW u \in Tx
               PROVE  /\ InChain(u) <=> InChain(u)'
                      /\ InChain(u) => ChainHeight(u)' = ChainHeight(u)
    OBVIOUS
  <2>1. CASE branch[u] = branch[t]
    BY <1>5, <2>1 DEF InChain, ChainHeight
  <2>2. CASE branch[u] # branch[t]
    <3>1. Confirmed(u) => u \in allTx
      BY DEF Confirmed
    <3> QED
      BY <1>6, <2>2, <3>1 DEF InChain, ChainHeight
  <2> QED
    BY <2>1, <2>2
<1>8. ParentsInChain'
  BY <1>7 DEF Related, ParentsInChain, Spends
<1>9. BranchUnconfirmed'
  <2> SUFFICES ASSUME NEW u \in Tx, branch'[u] > 0
               PROVE  u \in allTx /\ blockHeight'[u] = TX_UNCONFIRMED
    BY <1>2 DEF BranchUnconfirmed, TX_UNCONFIRMED
  <2>1. branch[u] # branch[t]
    BY <1>1
  <2> QED
    BY <1>6, <2>1 DEF Related, BranchUnconfirmed
<1> QED
  BY <1>8, <1>9 DEF Related

\* Only what no confirmed transaction depends on is removed.
LEMMA RelatedAfterRemoval ==
  ASSUME Typed, Ordered, Related, Removable, RemoveItself
  PROVE  Related'
<1>1. /\ allTx' = allTx \ {Innermost.tx} /\ blockHeight' = blockHeight /\ branch' = branch
      /\ removing # <<>>
  BY DEF RemoveItself
<1>2. branch = NoBranch /\ \A t \in Tx : branch[t] = 0
  BY <1>1 DEF Removable, RemovesUnconfirmed, NoBranch
<1>3. ~Confirmed(Innermost.tx)
  <2>1. removing \in Seq([tx : Tx, hashes : SUBSET Tx])
    BY DEF Removable, RemovesUnconfirmed
  <2>2. Len(removing) \in 1..Len(removing)
    BY <1>1, <2>1
  <2> QED
    BY <2>2 DEF Removable, RemovesUnconfirmed, Innermost
<1>4. \A t \in Tx : Confirmed(t)' <=> Confirmed(t)
  BY <1>1, <1>3 DEF Confirmed, TX_UNCONFIRMED
<1>5. ParentsInChain'
  BY <1>1, <1>4 DEF Related, ParentsInChain, InChain, ChainHeight, Spends
<1>6. BranchUnconfirmed'
  BY <1>1, <1>2 DEF BranchUnconfirmed
<1> QED
  BY <1>5, <1>6 DEF Related

LEMMA RelatedWhenUnchanged ==
  ASSUME Related, UNCHANGED <<allTx, blockHeight, branch>>
  PROVE  Related'
BY DEF Related, BranchUnconfirmed, ParentsInChain, InChain, ChainHeight, Confirmed, Spends, TX_UNCONFIRMED

LEMMA RelatedIsInductive ==
  ASSUME Typed, Ordered, Related, Removable, Next
  PROVE  Related'
<1>1. CASE UNCHANGED <<allTx, blockHeight, branch>>
  BY <1>1, RelatedWhenUnchanged
<1>2. ASSUME NEW t \in Tx, RegisterTransaction(t) PROVE Related'
  BY <1>2, RelatedAfterRegister
<1>3. ASSUME NEW h \in 1..MaxHeight, NEW txs \in SUBSET allTx, ConfirmBlock(h, txs) PROVE Related'
  BY <1>3, RelatedAfterConfirm
<1>4. ASSUME NEW join \in 0..MaxHeight, NEW heights \in [Tx -> 0..MaxHeight],
             Reorganize(join, heights)
      PROVE  Related'
  BY <1>4, RelatedAfterReorganize
<1>5. CASE RemoveItself
  BY <1>5, RelatedAfterRemoval
<1>6. CASE ConfirmBranch
  BY <1>6, RelatedAfterConfirmBranch
<1> QED
  BY <1>1, <1>2, <1>3, <1>4, <1>5, <1>6
  DEF Next, PrepareAddresses, Refill, RemoveUnrelayed, RemoveTransaction, RemoveDependent,
      UpdateNext, UpdateDone, FirstUnusedAddress, Restart

\* With the chain's parents before its children, the search for what depends on an
\* unconfirmed transaction finds all of it, and nothing that is confirmed.
LEMMA DependentsComplete ==
  ASSUME Typed, Ordered, Related, branch = NoBranch, NEW t \in Tx, ~Confirmed(t)
  PROVE  /\ Dependents(t) \in SUBSET allTx
         /\ \A u \in Dependents(t) : ~Confirmed(u)
         /\ \A u \in allTx \ {t} : Spends(u, t) => u \in Dependents(t)
<1> DEFINE h == IF t \in allTx THEN blockHeight[t] ELSE 0
           n == Len(transactions)
           D == {j \in 1..n : /\ \A k \in 1..j : blockHeight[transactions[k]] >= h
                              /\ transactions[j] # t /\ Spends(transactions[j], t)}
<1>1. Dependents(t) = {transactions[i] : i \in D}
  BY Zenon DEF Dependents
<1>2. /\ n \in Nat /\ \A i \in 1..n : transactions[i] \in allTx
      /\ \A u \in allTx : \E i \in 1..n : transactions[i] = u
  <2>1. Lists(transactions, allTx)
    BY DEF Typed, TypeOK
  <2>2. transactions \in Seq(allTx)
    BY <2>1 DEF Lists
  <2> QED
    BY <2>1, <2>2, LenProperties DEF Lists
<1>3. ~InChain(t)
  BY DEF InChain, NoBranch
<1>4. \A u \in allTx : Spends(u, t) => ~Confirmed(u)
  BY <1>3 DEF Related, ParentsInChain, InChain, Typed, TypeOK
<1>5. \A u \in allTx : ~Confirmed(u) => blockHeight[u] >= h
  BY DEF Confirmed, Typed, TypeOK
<1>6. ASSUME NEW u \in allTx \ {t}, Spends(u, t) PROVE u \in Dependents(t)
  <2>1. PICK i \in 1..n : transactions[i] = u
    BY <1>2
  <2>2. \A k \in 1..i : ~Confirmed(transactions[k])
    <3> SUFFICES ASSUME NEW k \in 1..i, Confirmed(transactions[k]) PROVE FALSE
      OBVIOUS
    <3>1. k \in 1..n /\ k <= i
      BY <1>2
    <3>2. Confirmed(u)
      BY <2>1, <3>1 DEF Ordered, UnconfirmedFirst
    <3> QED
      BY <1>4, <1>6, <3>2
  <2>3. \A k \in 1..i : blockHeight[transactions[k]] >= h
    BY <1>2, <1>5, <2>2
  <2>4. i \in D
    BY <1>6, <2>1, <2>3
  <2> QED
    BY <1>1, <2>1, <2>4
<1>7. Dependents(t) \in SUBSET allTx /\ \A u \in Dependents(t) : ~Confirmed(u)
  BY <1>1, <1>2, <1>4
<1> QED
  BY <1>6, <1>7

\* The innermost frame, and those without it.
LEMMA LastFrame ==
  ASSUME NEW S, NEW s \in Seq(S), s # <<>>
  PROVE  /\ Len(s) \in Nat /\ Len(s) \in 1..Len(s) /\ s[Len(s)] \in S
         /\ SubSeq(s, 1, Len(s) - 1) \in Seq(S)
         /\ Len(SubSeq(s, 1, Len(s) - 1)) = Len(s) - 1
         /\ \A i \in 1..(Len(s) - 1) : SubSeq(s, 1, Len(s) - 1)[i] = s[i]
<1>1. Len(s) \in Nat /\ Len(s) \in 1..Len(s)
  OBVIOUS
<1>2. s[Len(s)] \in S
  BY <1>1
<1>3. SubSeq(s, 1, Len(s) - 1) \in Seq(S)
  BY <1>1
<1>4. Len(SubSeq(s, 1, Len(s) - 1)) = Len(s) - 1
  BY <1>1
<1>5. \A i \in 1..(Len(s) - 1) : SubSeq(s, 1, Len(s) - 1)[i] = s[i]
  BY <1>1
<1> QED
  BY <1>1, <1>2, <1>3, <1>4, <1>5

\* The frames with one more, for a transaction of the innermost one or for the first.
LEMMA RemovableAfterStart ==
  ASSUME Typed, Ordered, Related, Removable, NEW t \in Tx, RemoveTransaction(t)
  PROVE  Removable'
<1>1. /\ t \in unrelayed /\ removing = <<>> /\ removing' = <<Frame(t)>>
      /\ unrelayed' = unrelayed \ {t}
      /\ UNCHANGED <<allTx, transactions, blockHeight, branch>>
  BY DEF RemoveTransaction
<1>2. branch = NoBranch /\ ~Confirmed(t)
  BY <1>1 DEF Removable, RemovesUnconfirmed
<1>3. /\ Dependents(t) \in SUBSET allTx
      /\ \A u \in Dependents(t) : ~Confirmed(u)
      /\ \A u \in allTx \ {t} : Spends(u, t) => u \in Dependents(t)
  BY <1>2, DependentsComplete
<1>4. Frame(t) \in [tx : Tx, hashes : SUBSET Tx]
  BY <1>3 DEF Frame, Typed, TypeOK
<1>5. /\ removing' \in Seq([tx : Tx, hashes : SUBSET Tx])
      /\ \A i \in 1..Len(removing') : removing'[i] = [tx |-> t, hashes |-> Dependents(t)]
  BY <1>1, <1>4 DEF Frame
<1>6. RemovesUnconfirmed'
  BY <1>1, <1>2, <1>3, <1>5
  DEF Removable, RemovesUnconfirmed, Confirmed, TX_UNCONFIRMED, NoBranch
<1>7. FramesCover'
  BY <1>1, <1>3, <1>5 DEF FramesCover, Spends
<1> QED
  BY <1>6, <1>7 DEF Removable

LEMMA RemovableAfterDependent ==
  ASSUME Typed, Ordered, Related, Removable, RemoveDependent
  PROVE  Removable'
<1> DEFINE n == Len(removing)
           f == removing[n]
           Frames == [tx : Tx, hashes : SUBSET Tx]
<1>1. /\ removing # <<>>
      /\ UNCHANGED <<allTx, transactions, blockHeight, branch, unrelayed>>
  BY DEF RemoveDependent
<1>2. PICK u \in f.hashes :
        removing' = Append([removing EXCEPT ![n].hashes = @ \ {u}], Frame(u))
  BY DEF RemoveDependent, Innermost
<1>3. removing \in Seq(Frames) /\ n \in Nat /\ n \in 1..n /\ f \in Frames
  <2>1. removing \in Seq(Frames)
    BY DEF Removable, RemovesUnconfirmed
  <2> HIDE DEF Frames
  <2> QED
    BY <1>1, <2>1, LastFrame
<1>4. /\ branch = NoBranch /\ ~Confirmed(f.tx) /\ \A v \in f.hashes : ~Confirmed(v)
      /\ u \in Tx /\ ~Confirmed(u)
  BY <1>1, <1>3 DEF Removable, RemovesUnconfirmed
<1>5. /\ Dependents(u) \in SUBSET allTx
      /\ \A v \in Dependents(u) : ~Confirmed(v)
      /\ \A v \in allTx \ {u} : Spends(v, u) => v \in Dependents(u)
  BY <1>4, DependentsComplete
<1>6. Frame(u) \in Frames /\ Frame(u).tx = u /\ Frame(u).hashes = Dependents(u)
  BY <1>4, <1>5 DEF Frame, Typed, TypeOK
<1> DEFINE rest == [removing EXCEPT ![n].hashes = @ \ {u}]
<1>7. /\ rest \in Seq(Frames) /\ Len(rest) = n
      /\ \A i \in 1..n : rest[i].tx = removing[i].tx
      /\ \A i \in 1..n : i # n => rest[i] = removing[i]
      /\ rest[n].hashes = f.hashes \ {u}
  <2>1. [f EXCEPT !.hashes = @ \ {u}] \in Frames
    BY <1>3
  <2>2. rest = [removing EXCEPT ![n] = [f EXCEPT !.hashes = @ \ {u}]]
    OBVIOUS
  <2> QED
    BY <1>3, <2>1, <2>2
<1> HIDE DEF rest
<1>8. /\ removing' \in Seq(Frames) /\ Len(removing') = n + 1
      /\ removing'[n + 1] = Frame(u) /\ \A i \in 1..n : removing'[i] = rest[i]
  <2>1. removing' = Append(rest, Frame(u))
    BY <1>2 DEF rest
  <2> QED
    BY <1>3, <1>6, <1>7, <2>1
<1>9. RemovesUnconfirmed'
  <2>1. ASSUME NEW i \in 1..(n + 1)
        PROVE  ~Confirmed(removing'[i].tx) /\ \A v \in removing'[i].hashes : ~Confirmed(v)
    <3>1. CASE i = n + 1
      BY <1>4, <1>5, <1>6, <1>8, <3>1
    <3>2. CASE i = n
      BY <1>3, <1>4, <1>7, <1>8, <3>2
    <3>3. CASE i \in 1..n /\ i # n
      BY <1>7, <1>8, <3>3 DEF Removable, RemovesUnconfirmed
    <3> QED
      BY <1>3, <3>1, <3>2, <3>3
  <2>2. \A v : Confirmed(v)' <=> Confirmed(v)
    BY <1>1 DEF Confirmed, TX_UNCONFIRMED
  <2> QED
    BY <1>1, <1>4, <1>8, <2>1, <2>2 DEF Removable, RemovesUnconfirmed, NoBranch
<1>10. FramesCover'
  <2> SUFFICES ASSUME NEW i \in 1..(n + 1), NEW v \in allTx \ {removing'[i].tx},
                      Spends(v, removing'[i].tx)
               PROVE  v \in removing'[i].hashes \/ (i < n + 1 /\ v = removing'[i + 1].tx)
    BY <1>1, <1>8 DEF FramesCover, Spends
  <2>1. CASE i = n + 1
    BY <1>5, <1>6, <1>8, <2>1
  <2>2. CASE i = n
    BY <1>3, <1>6, <1>7, <1>8, <2>2 DEF Removable, FramesCover
  <2>3. CASE i \in 1..n /\ i # n
    <3>1. i + 1 \in 1..n /\ i < n
      BY <1>3, <2>3
    <3> QED
      BY <1>3, <1>7, <1>8, <2>3, <3>1 DEF Removable, FramesCover
  <2> QED
    BY <1>3, <2>1, <2>2, <2>3
<1> QED
  BY <1>9, <1>10 DEF Removable

LEMMA RemovableAfterItself ==
  ASSUME Typed, Removable, RemoveItself
  PROVE  Removable'
<1> DEFINE n == Len(removing)
           Frames == [tx : Tx, hashes : SUBSET Tx]
<1>1. /\ removing # <<>> /\ removing' = SubSeq(removing, 1, n - 1)
      /\ allTx' = allTx \ {removing[n].tx}
      /\ UNCHANGED <<blockHeight, branch, unrelayed>>
  BY DEF RemoveItself, Innermost
<1>2. removing \in Seq(Frames) /\ n \in Nat /\ n \in 1..n
  <2>1. removing \in Seq(Frames)
    BY DEF Removable, RemovesUnconfirmed
  <2> QED
    BY <1>1, <2>1
<1>3. /\ removing' \in Seq(Frames) /\ Len(removing') = n - 1
      /\ \A i \in 1..(n - 1) : removing'[i] = removing[i]
  <2> HIDE DEF Frames
  <2> QED
    BY <1>1, <1>2, LastFrame
<1>4. \A v : Confirmed(v)' => Confirmed(v)
  BY <1>1 DEF Confirmed, TX_UNCONFIRMED
<1>5. RemovesUnconfirmed'
  BY <1>1, <1>2, <1>3, <1>4 DEF Removable, RemovesUnconfirmed, NoBranch
<1>6. FramesCover'
  <2> SUFFICES ASSUME NEW i \in 1..(n - 1), NEW v \in allTx' \ {removing[i].tx},
                      Spends(v, removing[i].tx)
               PROVE  v \in removing[i].hashes \/ (i < n - 1 /\ v = removing'[i + 1].tx)
    BY <1>3 DEF FramesCover, Spends
  <2>1. i \in 1..n /\ v \in allTx /\ v # removing[n].tx
    BY <1>1, <1>2
  <2>2. v \in removing[i].hashes \/ (i < n /\ v = removing[i + 1].tx)
    BY <2>1 DEF Removable, FramesCover
  <2> QED
    BY <1>2, <1>3, <2>1, <2>2
<1> QED
  BY <1>5, <1>6 DEF Removable

LEMMA RemovableWhenIdle ==
  ASSUME unrelayed' = {}, removing' = <<>>
  PROVE  Removable'
BY DEF Removable, RemovesUnconfirmed, FramesCover

LEMMA RemovableWhenUnchanged ==
  ASSUME Removable, UNCHANGED <<allTx, blockHeight, branch, removalVars>>
  PROVE  Removable'
BY DEF Removable, RemovesUnconfirmed, FramesCover, Spends, Confirmed, NoBranch, TX_UNCONFIRMED, removalVars

LEMMA RemovableAfterUnrelayed ==
  ASSUME Typed, RemoveUnrelayed
  PROVE  Removable'
<1>1. /\ removing' = <<>> /\ branch' = NoBranch
      /\ \A t \in unrelayed' : t \in allTx /\ blockHeight[t] = TX_UNCONFIRMED
      /\ UNCHANGED <<allTx, blockHeight>>
  BY DEF RemoveUnrelayed, Idle
<1>2. \A t \in unrelayed' : t \in Tx /\ ~Confirmed(t)'
  BY <1>1 DEF Confirmed, TX_UNCONFIRMED, Typed, TypeOK
<1> QED
  BY <1>1, <1>2 DEF Removable, RemovesUnconfirmed, FramesCover, NoBranch

\* Nothing is registered or confirmed while transactions are removed.
LEMMA RemovableWhenSet ==
  ASSUME Typed, Ordered, Removable, UNCHANGED removalVars, Idle \/ ConfirmBranch
  PROVE  Removable'
<1>1. CASE Idle
  BY <1>1, RemovableWhenIdle DEF Idle, removalVars
<1>2. CASE ConfirmBranch
  <2>1. branch # NoBranch
    <3>1. PICK t \in Tx : branch[t] > 0
      BY <1>2 DEF ConfirmBranch
    <3> QED
      BY <3>1 DEF NoBranch
  <2>2. unrelayed = {} /\ removing = <<>>
    BY <2>1 DEF Removable, RemovesUnconfirmed
  <2> QED
    BY <2>2, RemovableWhenIdle DEF removalVars
<1> QED
  BY <1>1, <1>2

LEMMA RemovableIsInductive ==
  ASSUME Typed, Ordered, Related, Removable, Next
  PROVE  Removable'
<1>1. CASE UNCHANGED <<allTx, blockHeight, branch, removalVars>>
  BY <1>1, RemovableWhenUnchanged
<1>2. ASSUME NEW t \in Tx, RegisterTransaction(t) PROVE Removable'
  BY <1>2, RemovableWhenSet DEF RegisterTransaction
<1>3. ASSUME NEW h \in 1..MaxHeight, NEW txs \in SUBSET allTx, ConfirmBlock(h, txs) PROVE Removable'
  BY <1>3, RemovableWhenSet DEF ConfirmBlock
<1>4. ASSUME NEW join \in 0..MaxHeight, NEW heights \in [Tx -> 0..MaxHeight],
             Reorganize(join, heights)
      PROVE  Removable'
  BY <1>4, RemovableWhenSet DEF Reorganize
<1>5. CASE ConfirmBranch
  BY <1>5, RemovableWhenSet DEF ConfirmBranch
<1>6. CASE RemoveUnrelayed
  BY <1>6, RemovableAfterUnrelayed
<1>7. ASSUME NEW t \in Tx, RemoveTransaction(t) PROVE Removable'
  BY <1>7, RemovableAfterStart
<1>8. CASE RemoveDependent
  BY <1>8, RemovableAfterDependent
<1>9. CASE RemoveItself
  BY <1>9, RemovableAfterItself
<1>10. CASE Restart
  BY <1>10, RemovableWhenIdle DEF Restart
<1> QED
  BY <1>1, <1>2, <1>3, <1>4, <1>5, <1>6, <1>7, <1>8, <1>9, <1>10
  DEF Next, PrepareAddresses, Refill, UpdateNext, UpdateDone, FirstUnusedAddress

\* Only removeTransaction: takes a transaction out, and nothing that depends on it is
\* left then: its frame has covered all of it.
LEMMA NoDependentLeft ==
  ASSUME Typed, Removable, Next
  PROVE  \A t \in allTx \ allTx' : \A u \in allTx' : ~Spends(u, t)
<1>1. CASE allTx \subseteq allTx'
  BY <1>1
<1>2. CASE RemoveItself
  <2> DEFINE n == Len(removing)
  <2>1. /\ removing # <<>> /\ removing[n].hashes = {}
        /\ allTx' = allTx \ {removing[n].tx}
    BY <1>2 DEF RemoveItself, Innermost
  <2>2. removing \in Seq([tx : Tx, hashes : SUBSET Tx])
    BY DEF Removable, RemovesUnconfirmed
  <2>3. n \in 1..n /\ ~(n < n)
    BY <2>1, <2>2
  <2>4. \A u \in allTx \ {removing[n].tx} : ~Spends(u, removing[n].tx)
    BY <2>1, <2>3 DEF Removable, FramesCover
  <2> QED
    BY <2>1, <2>4
<1> QED
  BY <1>1, <1>2
  DEF Next, PrepareAddresses, RegisterTransaction, Refill, ConfirmBlock, Reorganize, ConfirmBranch,
      RemoveUnrelayed, RemoveTransaction, RemoveDependent, UpdateNext, UpdateDone,
      FirstUnusedAddress, Restart

LEMMA AlwaysRemovable == Spec => [](Related /\ Removable)
<1>1. Init => Related /\ Removable
  BY DEF Init, Related, Removable, BranchUnconfirmed, ParentsInChain, RemovesUnconfirmed, FramesCover,
         InChain, Confirmed, NoBranch
<1>2. Typed /\ Ordered /\ Related /\ Removable /\ [Next]_vars => Related' /\ Removable'
  <2> SUFFICES ASSUME Typed, Ordered, Related, Removable, [Next]_vars PROVE Related' /\ Removable'
    OBVIOUS
  <2>1. CASE Next
    BY <2>1, RelatedIsInductive, RemovableIsInductive
  <2>2. CASE UNCHANGED vars
    BY <2>2, RelatedWhenUnchanged, RemovableWhenUnchanged DEF vars
  <2> QED
    BY <2>1, <2>2
<1> QED
  BY <1>1, <1>2, AlwaysTyped, AlwaysOrdered, PTL DEF Spec

\* A transaction that removeTransaction: takes out leaves nothing behind that spends
\* its outputs, however long the chain of dependent ones, in whatever order the list
\* is, and whatever was confirmed and reorganised before.
THEOREM DependentsAlwaysRemoved == Spec => DependentsRemoved
<1>1. Typed /\ Removable /\ [Next]_vars =>
        [\A t \in allTx \ allTx' : \A u \in allTx' : ~Spends(u, t)]_vars
  BY NoDependentLeft
<1> QED
  BY <1>1, AlwaysTyped, AlwaysRemovable, PTL DEF Spec, DependentsRemoved
----------------------------------------------------------------------------
(***************************************************************************)
(* The balance.  Total adds amounts up in an order that CHOOSE decides:    *)
(* what it gives for a set without an output, and for two sets together,   *)
(* needs induction on the size of the set.                                 *)
(***************************************************************************)
First(R) == CHOOSE o \in R : TRUE

SumStep(f, R) == IF R = {} THEN 0 ELSE Amount(First(R)) + f[R \ {First(R)}]

IsSum(f, S) == f = [R \in SUBSET S |-> SumStep(f, R)]

LEMMA FirstIsMember ==
  ASSUME NEW R, R # {}
  PROVE  First(R) \in R
BY DEF First

\* The function that Total defines exists: on sets of at most n outputs, for every n.
LEMMA SumExists ==
  ASSUME NEW S, IsFiniteSet(S)
  PROVE  \E f : IsSum(f, S)
<1> DEFINE UpTo(n) == {R \in SUBSET S : Cardinality(R) <= n}
           SumsUpTo(f, n) == \A R \in UpTo(n) : f[R] = SumStep(f, R)
           Bad == {n \in Nat : \A f : ~SumsUpTo(f, n)}
<1>1. \A R \in SUBSET S : IsFiniteSet(R) /\ Cardinality(R) \in Nat
  BY FS_Subset, FS_CardinalityType
<1>2. 0 \notin Bad
  <2> DEFINE f == [R \in SUBSET S |-> 0]
  <2>1. ASSUME NEW R \in UpTo(0) PROVE f[R] = SumStep(f, R)
    <3>1. R = {}
      BY <1>1, FS_EmptySet
    <3> QED
      BY <3>1 DEF SumStep
  <2>2. SumsUpTo(f, 0)
    BY <2>1
  <2> QED
    BY <2>2
<1>3. ASSUME NEW n \in Nat, n \notin Bad PROVE n + 1 \notin Bad
  <2>1. PICK f : SumsUpTo(f, n)
    BY <1>3
  <2> DEFINE g == [R \in SUBSET S |-> SumStep(f, R)]
  <2>2. ASSUME NEW R \in UpTo(n + 1) PROVE g[R] = SumStep(g, R)
    <3>1. CASE R = {}
      BY <3>1 DEF SumStep
    <3>2. CASE R # {}
      <4> DEFINE Q == R \ {First(R)}
      <4>1. First(R) \in R
        BY <3>2, FirstIsMember
      <4>2. Q \in SUBSET S /\ Cardinality(Q) < Cardinality(R) /\ Cardinality(Q) \in Nat
        BY <4>1, SmallerSet
      <4>3. Q \in UpTo(n)
        BY <1>1, <4>2
      <4>4. g[Q] = f[Q]
        BY <2>1, <4>2, <4>3
      <4> QED
        BY <3>2, <4>4 DEF SumStep
    <3> QED
      BY <3>1, <3>2
  <2>3. SumsUpTo(g, n + 1)
    BY <2>2
  <2> QED
    BY <2>3
<1> HIDE DEF Bad
<1>4. Bad = {}
  <2> SUFFICES ASSUME Bad # {} PROVE FALSE
    OBVIOUS
  <2>1. Bad \in SUBSET Nat
    BY DEF Bad
  <2>2. PICK m \in Bad : \A k \in Bad : m <= k
    BY <2>1, LeastOf
  <2>3. m # 0 /\ m - 1 \in Nat /\ (m - 1) + 1 = m /\ m - 1 \notin Bad
    BY <1>2, <2>1, <2>2
  <2> QED
    BY <1>3, <2>2, <2>3
<1>5. PICK f : SumsUpTo(f, Cardinality(S))
  BY <1>1, <1>4 DEF Bad
<1>6. \A R \in SUBSET S : f[R] = SumStep(f, R)
  <2>1. \A R \in SUBSET S : Cardinality(R) <= Cardinality(S)
    BY FS_Subset
  <2> QED
    BY <1>5, <2>1
<1> DEFINE h == [R \in SUBSET S |-> f[R]]
<1>7. ASSUME NEW R \in SUBSET S PROVE f[R] = SumStep(h, R)
  <2>1. R # {} => R \ {First(R)} \in SUBSET S
    OBVIOUS
  <2> QED
    BY <1>6, <2>1 DEF SumStep
<1>8. IsSum(h, S)
  BY <1>7 DEF IsSum
<1> QED
  BY <1>8

\* Of the sets that two of them are defined on, they give the same sums.
LEMMA SumUnique ==
  ASSUME NEW S, NEW T, NEW f, NEW g, IsSum(f, S), IsSum(g, T),
         NEW R \in SUBSET S, R \subseteq T, IsFiniteSet(R)
  PROVE  f[R] = g[R]
<1> DEFINE Good == {Q \in SUBSET R : f[Q] = g[Q]}
<1>1. ASSUME NEW P \in SUBSET R,
             \A Q \in SUBSET R : Cardinality(Q) < Cardinality(P) => Q \in Good
      PROVE  P \in Good
  <2>1. f[P] = SumStep(f, P) /\ g[P] = SumStep(g, P)
    <3>1. P \in SUBSET S /\ P \in SUBSET T
      OBVIOUS
    <3> QED
      BY <3>1 DEF IsSum
  <2>2. CASE P = {}
    BY <2>1, <2>2 DEF SumStep
  <2>3. CASE P # {}
    <3>1. First(P) \in P
      BY <2>3, FirstIsMember
    <3>2. P \ {First(P)} \in Good
      BY <1>1, <3>1, SmallerSet
    <3> QED
      BY <2>1, <2>3, <3>2 DEF SumStep
  <2> QED
    BY <2>2, <2>3
<1>2. Good \in SUBSET (SUBSET R)
  OBVIOUS
<1> HIDE DEF Good
<1>3. Good = SUBSET R
  BY <1>1, <1>2, InductionOnSize
<1> QED
  BY <1>3 DEF Good

LEMMA TotalStep ==
  ASSUME NEW S, IsFiniteSet(S)
  PROVE  /\ S = {} => Total(S) = 0
         /\ S # {} => Total(S) = Amount(First(S)) + Total(S \ {First(S)})
<1> DEFINE f == CHOOSE f : IsSum(f, S)
<1>1. IsSum(f, S) /\ Total(S) = f[S]
  <2>1. \E g : IsSum(g, S)
    BY SumExists
  <2>2. Total(S) = f[S]
    BY DEF Total, IsSum, SumStep, First
  <2> QED
    BY <2>1, <2>2
<1> HIDE DEF f
<1>2. f[S] = SumStep(f, S)
  BY <1>1 DEF IsSum
<1>3. CASE S = {}
  BY <1>1, <1>2, <1>3 DEF SumStep
<1>4. CASE S # {}
  <2> DEFINE Q == S \ {First(S)}
             g == CHOOSE g : IsSum(g, Q)
  <2>1. Q \in SUBSET S /\ IsFiniteSet(Q)
    BY FS_Subset
  <2>2. IsSum(g, Q) /\ Total(Q) = g[Q]
    <3>1. \E k : IsSum(k, Q)
      BY <2>1, SumExists
    <3>2. Total(Q) = g[Q]
      BY DEF Total, IsSum, SumStep, First
    <3> QED
      BY <3>1, <3>2
  <2> HIDE DEF g, Q
  <2>3. f[Q] = g[Q]
    BY <1>1, <2>1, <2>2, SumUnique
  <2> QED
    BY <1>1, <1>2, <1>4, <2>2, <2>3 DEF SumStep, Q
<1> QED
  BY <1>3, <1>4

HaveAmounts(S) == IsFiniteSet(S) /\ \A o \in S : Amount(o) \in Nat

LEMMA TotalType ==
  ASSUME NEW S, HaveAmounts(S)
  PROVE  Total(S) \in Int
<1> DEFINE Good == {R \in SUBSET S : Total(R) \in Int}
<1>1. ASSUME NEW P \in SUBSET S,
             \A Q \in SUBSET S : Cardinality(Q) < Cardinality(P) => Q \in Good
      PROVE  P \in Good
  <2>1. IsFiniteSet(S) /\ IsFiniteSet(P)
    BY FS_Subset DEF HaveAmounts
  <2>2. CASE P = {}
    <3>1. Total(P) = 0
      BY <2>1, <2>2, TotalStep
    <3> QED
      BY <3>1
  <2>3. CASE P # {}
    <3>1. First(P) \in P
      BY <2>3, FirstIsMember
    <3>2. P \ {First(P)} \in Good
      BY <1>1, <2>1, <3>1, SmallerSet
    <3>3. Total(P) = Amount(First(P)) + Total(P \ {First(P)})
      BY <2>1, <2>3, TotalStep
    <3>4. Amount(First(P)) \in Nat
      BY <3>1 DEF HaveAmounts
    <3> QED
      BY <3>2, <3>3, <3>4
  <2> QED
    BY <2>2, <2>3
<1>2. Good \in SUBSET (SUBSET S) /\ IsFiniteSet(S)
  BY DEF HaveAmounts
<1> HIDE DEF Good
<1>3. Good = SUBSET S
  BY <1>1, <1>2, InductionOnSize
<1> QED
  BY <1>3 DEF Good

\* Any output may be the first that is added.
LEMMA TotalWithout ==
  ASSUME NEW S, HaveAmounts(S), NEW x \in S
  PROVE  Total(S) = Amount(x) + Total(S \ {x})
<1> DEFINE Good == {R \in SUBSET S : \A o \in R : Total(R) = Amount(o) + Total(R \ {o})}
<1>1. IsFiniteSet(S) /\ \A R \in SUBSET S : HaveAmounts(R) /\ Total(R) \in Int
  BY FS_Subset, TotalType DEF HaveAmounts
<1>2. ASSUME NEW P \in SUBSET S,
             \A Q \in SUBSET S : Cardinality(Q) < Cardinality(P) => Q \in Good,
             NEW o \in P
      PROVE  Total(P) = Amount(o) + Total(P \ {o})
  <2> DEFINE c == First(P)
  <2>1. c \in P /\ Total(P) = Amount(c) + Total(P \ {c})
    BY <1>1, FirstIsMember, TotalStep DEF HaveAmounts
  <2> HIDE DEF c
  <2>2. CASE o = c
    BY <2>1, <2>2
  <2>3. CASE o # c
    <3>1. P \ {c} \in Good /\ P \ {o} \in Good
      BY <1>1, <1>2, <2>1, SmallerSet
    <3>2. o \in P \ {c} /\ c \in P \ {o}
      BY <2>1, <2>3
    <3>3. /\ Total(P \ {c}) = Amount(o) + Total((P \ {c}) \ {o})
          /\ Total(P \ {o}) = Amount(c) + Total((P \ {o}) \ {c})
      BY <3>1, <3>2
    <3>4. (P \ {c}) \ {o} = (P \ {o}) \ {c}
      OBVIOUS
    <3> DEFINE r == Total((P \ {c}) \ {o})
    <3>5. r \in Int /\ Amount(c) \in Nat /\ Amount(o) \in Nat
      <4>1. (P \ {c}) \ {o} \in SUBSET S
        OBVIOUS
      <4>2. r \in Int
        BY <1>1, <4>1
      <4> QED
        BY <1>1, <2>1, <4>2 DEF HaveAmounts
    <3>6. /\ Total(P) = Amount(c) + (Amount(o) + r)
          /\ Total(P \ {o}) = Amount(c) + r
      BY <2>1, <3>3, <3>4
    <3> HIDE DEF r
    <3> QED
      BY <3>5, <3>6
  <2> QED
    BY <2>2, <2>3
<1>3. Good \in SUBSET (SUBSET S)
  OBVIOUS
<1>4. ASSUME NEW P \in SUBSET S,
             \A Q \in SUBSET S : Cardinality(Q) < Cardinality(P) => Q \in Good
      PROVE  P \in Good
  BY <1>2, <1>4
<1> HIDE DEF Good
<1>5. Good = SUBSET S
  BY <1>1, <1>3, <1>4, InductionOnSize
<1> QED
  BY <1>5 DEF Good

\* Outputs that are in one of two sets.
LEMMA TotalUnion ==
  ASSUME NEW S, NEW T, HaveAmounts(S), HaveAmounts(T), S \cap T = {}
  PROVE  Total(S \cup T) = Total(S) + Total(T)
<1> DEFINE Good == {R \in SUBSET T : Total(S \cup R) = Total(S) + Total(R)}
<1>1. IsFiniteSet(T) /\ \A R \in SUBSET T : HaveAmounts(R) /\ HaveAmounts(S \cup R)
  BY FS_Subset, FS_Union DEF HaveAmounts
<1>2. ASSUME NEW P \in SUBSET T,
             \A Q \in SUBSET T : Cardinality(Q) < Cardinality(P) => Q \in Good
      PROVE  P \in Good
  <2> DEFINE U(R) == S \cup R
  <2> SUFFICES Total(U(P)) = Total(S) + Total(P)
    OBVIOUS
  <2>1. CASE P = {}
    <3>1. U(P) = S /\ Total(P) = 0 /\ Total(S) \in Int
      BY <1>1, <2>1, TotalStep, TotalType DEF HaveAmounts
    <3> HIDE DEF U
    <3> QED
      BY <3>1
  <2>2. CASE P # {}
    <3>1. PICK o \in P : TRUE
      BY <2>2
    <3>2. P \ {o} \in Good
      BY <1>1, <1>2, SmallerSet
    <3>3. Total(P) = Amount(o) + Total(P \ {o})
      BY <1>1, TotalWithout
    <3>4. Total(U(P)) = Amount(o) + Total(U(P) \ {o})
      BY <1>1, TotalWithout
    <3>5. U(P) \ {o} = U(P \ {o})
      OBVIOUS
    <3>6. /\ Total(S) \in Int /\ Total(P \ {o}) \in Int /\ Amount(o) \in Nat
          /\ Total(U(P \ {o})) = Total(S) + Total(P \ {o})
      BY <1>1, <3>2, TotalType DEF HaveAmounts
    <3> HIDE DEF U
    <3>7. Total(U(P)) = Amount(o) + (Total(S) + Total(P \ {o}))
      BY <3>4, <3>5, <3>6, Zenon
    <3>8. \A s, p \in Int, a \in Nat : a + (s + p) = s + (a + p)
      OBVIOUS
    <3>9. Amount(o) + (Total(S) + Total(P \ {o})) = Total(S) + (Amount(o) + Total(P \ {o}))
      BY <3>6, <3>8, Zenon
    <3> QED
      BY <3>3, <3>7, <3>9, Zenon
  <2> QED
    BY <2>1, <2>2
<1>3. Good \in SUBSET (SUBSET T)
  OBVIOUS
<1> HIDE DEF Good
<1>4. Good = SUBSET T
  BY <1>1, <1>2, <1>3, InductionOnSize
<1> QED
  BY <1>4 DEF Good

\* What updateBalance adds and subtracts.
LEMMA TotalOfStep ==
  ASSUME NEW S, NEW T, NEW R, HaveAmounts(S), HaveAmounts(T), S \cap T = {}, R \subseteq S \cup T
  PROVE  Total((S \cup T) \ R) = Total(S) + Total(T) - Total(R)
<1> DEFINE A == S \cup T
<1>1. HaveAmounts(A)
  BY FS_Union DEF HaveAmounts
<1>2. HaveAmounts(R) /\ HaveAmounts(A \ R)
  BY <1>1, FS_Subset DEF HaveAmounts
<1>3. (A \ R) \cap R = {} /\ (A \ R) \cup R = A
  OBVIOUS
<1> DEFINE B == A \ R
<1>4. Total(A) = Total(B) + Total(R)
  BY <1>2, <1>3, TotalUnion
<1>5. Total(A) = Total(S) + Total(T)
  BY TotalUnion
<1>6. Total(S) \in Int /\ Total(T) \in Int /\ Total(R) \in Int /\ Total(B) \in Int
  BY <1>2, TotalType
<1> HIDE DEF A, B
<1>7. \A s, t, r, b \in Int : b + r = s + t => b = s + t - r
  OBVIOUS
<1>8. Total(B) + Total(R) = Total(S) + Total(T)
  BY <1>4, <1>5, Zenon
<1>9. Total(B) = Total(S) + Total(T) - Total(R)
  BY <1>6, <1>7, <1>8, Zenon
<1> QED
  BY <1>9 DEF A, B

BalanceOfLoop == updating => HaveAmounts(loop.utxos) /\ loop.balance = Total(loop.utxos)

Balanced == BalanceOfLoop /\ BalanceIsSum

LEMMA OwnOutputsHaveAmounts ==
  ASSUME NEW t \in Tx
  PROVE  HaveAmounts(OwnOutputs(t))
<1> DEFINE N == {m \in DOMAIN Outputs[t] : ContainsAddress(Outputs[t][m].address)}
           f == [n \in N |-> <<t, n>>]
<1>1. IsFiniteSet(N)
  BY LedgerAssumption, FS_Subset
<1>2. OwnOutputs(t) = {<<t, n>> : n \in N}
  BY DEF OwnOutputs
<1> HIDE DEF N
<1>3. f \in Surjection(N, OwnOutputs(t))
  BY <1>2 DEF Surjection
<1>4. IsFiniteSet(OwnOutputs(t))
  BY <1>1, <1>3, FS_Surjection
<1>5. ASSUME NEW o \in OwnOutputs(t) PROVE Amount(o) \in Nat
  <2>1. PICK n \in DOMAIN Outputs[t] : o = <<t, n>>
    BY DEF OwnOutputs
  <2> QED
    BY <2>1, LedgerAssumption DEF Amount
<1> QED
  BY <1>4, <1>5 DEF HaveAmounts

LEMMA BalancedAfterStep ==
  ASSUME Typed, Sound, Balanced, UpdateNext
  PROVE  Balanced'
<1> DEFINE t == transactions[loop.left]
<1>1. updating /\ updating' = updating /\ balance' = balance /\ utxos' = utxos
  BY DEF UpdateNext, ledgerVars
<1>2. t \in Tx /\ t \notin Visited
  BY VisitsOneMore DEF Typed, TypeOK
<1>3. /\ HaveAmounts(loop.utxos) /\ loop.balance = Total(loop.utxos)
      /\ loop.utxos \subseteq OwnedBy(Visited)
  BY <1>1 DEF Balanced, BalanceOfLoop, Sound, LoopSound, OwnedBy
<1>4. HaveAmounts(OwnOutputs(t)) /\ loop.utxos \cap OwnOutputs(t) = {}
  <2>1. \A o \in OwnOutputs(t) : o[1] = t
    BY DEF OwnOutputs
  <2>2. \A o \in OwnedBy(Visited) : o[1] \in Visited
    BY DEF OwnedBy, OwnOutputs
  <2> QED
    BY <1>2, <1>3, <2>1, <2>2, OwnOutputsHaveAmounts
<1>5. CASE Invalid(t)
  <2>1. loop'.utxos = loop.utxos /\ loop'.balance = loop.balance
    BY <1>5 DEF UpdateNext, Typed, LoopRecord
  <2> QED
    BY <1>1, <1>3, <2>1 DEF Balanced, BalanceOfLoop, BalanceIsSum
<1>6. CASE ~Invalid(t)
  <2> DEFINE S == loop.utxos
             T == OwnOutputs(t)
             R == SpentNow(t)
  <2>1. loop'.utxos = (S \cup T) \ R /\ loop'.balance = Total(S) + Total(T) - Total(R)
    BY <1>3, <1>6 DEF UpdateNext, BalanceAfter
  <2>2. R \subseteq S \cup T
    BY DEF SpentNow
  <2> HIDE DEF S, T, R
  <2>3. Total((S \cup T) \ R) = Total(S) + Total(T) - Total(R)
    BY <1>3, <1>4, <2>2, TotalOfStep DEF S, T
  <2>4. HaveAmounts((S \cup T) \ R)
    BY <1>3, <1>4, FS_Union, FS_Subset DEF HaveAmounts, S, T
  <2> QED
    BY <1>1, <2>1, <2>3, <2>4 DEF Balanced, BalanceOfLoop, BalanceIsSum
<1> QED
  BY <1>5, <1>6

LEMMA EmptyTotal == HaveAmounts({}) /\ Total({}) = 0
BY FS_EmptySet, TotalStep DEF HaveAmounts

LEMMA BalancedIsInductive ==
  ASSUME Typed, Sound, Balanced, Next
  PROVE  Balanced'
<1>1. CASE UNCHANGED <<ledgerVars, loopVars>>
  BY <1>1 DEF Balanced, BalanceOfLoop, BalanceIsSum, ledgerVars, loopVars
<1>2. ASSUME StartUpdate(transactions'), UNCHANGED ledgerVars PROVE Balanced'
  BY <1>2, EmptyTotal DEF StartUpdate, Locals, Balanced, BalanceOfLoop, BalanceIsSum, ledgerVars
<1>3. CASE UpdateNext
  BY <1>3, BalancedAfterStep
<1>4. CASE UpdateDone
  BY <1>4 DEF UpdateDone, Balanced, BalanceOfLoop, BalanceIsSum
<1>5. CASE Restart
  BY <1>5, EmptyTotal DEF Restart, StartUpdate, Locals, Balanced, BalanceOfLoop, BalanceIsSum
<1> QED
  BY <1>1, <1>2, <1>3, <1>4, <1>5
  DEF Next, PrepareAddresses, RegisterTransaction, Refill, ConfirmBlock, Reorganize, ConfirmBranch,
      SetBlockHeight, RemoveUnrelayed, RemoveTransaction, RemoveDependent, RemoveItself,
      FirstUnusedAddress

\* The balance is the sum of the unspent outputs, as updateBalance adds and subtracts
\* amounts in whatever order it meets the transactions: nothing is counted twice, and
\* nothing is subtracted that was not added.
THEOREM BalanceAlwaysSum == Spec => []BalanceIsSum
<1>1. Init => Balanced
  BY EmptyTotal DEF Init, Locals, Balanced, BalanceOfLoop, BalanceIsSum
<1>2. Typed /\ Sound /\ Balanced /\ [Next]_vars => Balanced'
  <2> SUFFICES ASSUME Typed, Sound, Balanced, [Next]_vars PROVE Balanced'
    OBVIOUS
  <2>1. CASE Next
    BY <2>1, BalancedIsInductive
  <2>2. CASE UNCHANGED vars
    BY <2>2 DEF vars, ledgerVars, loopVars, Balanced, BalanceOfLoop, BalanceIsSum
  <2> QED
    BY <2>1, <2>2
<1>3. Balanced => BalanceIsSum
  BY DEF Balanced
<1> QED
  BY <1>1, <1>2, <1>3, AlwaysTyped, AlwaysSound, PTL DEF Spec

----------------------------------------------------------------------------
(***************************************************************************)
(* That all unspent outputs are offered.  An address that is generated     *)
(* after a transaction to it was registered makes an output of the wallet  *)
(* that updateBalance has not seen as one: so this is for transactions to  *)
(* addresses that the wallet has generated, as those it gave out are.      *)
(***************************************************************************)
KnownAddresses ==
  \A t \in allTx : \A a \in OutputAddresses(t) : a[1] \in Chain => ContainsAddress(a)

LoopComplete ==
  updating => OwnedBy(Visited \ loop.invalid) \ loop.spent \subseteq loop.utxos

Complete == LoopComplete /\ OffersEveryUnspent

\* More addresses make no more outputs, then.
LEMMA OwnOutputsKnown ==
  ASSUME Typed, KnownAddresses, KnownAddresses', NEW t \in allTx, t \in allTx'
  PROVE  OwnOutputs(t)' = OwnOutputs(t)
<1>1. \A n \in DOMAIN Outputs[t] : Outputs[t][n].address \in OutputAddresses(t)
  BY DEF OutputAddresses
<1>2. OutputAddresses(t)' = OutputAddresses(t)
  BY DEF OutputAddresses
<1>3. ASSUME NEW n \in DOMAIN Outputs[t]
      PROVE  ContainsAddress(Outputs[t][n].address)' <=> ContainsAddress(Outputs[t][n].address)
  <2> DEFINE a == Outputs[t][n].address
  <2>1. a \in OutputAddresses(t) /\ a \in OutputAddresses(t)'
    BY <1>1, <1>2
  <2> HIDE DEF a
  <2>2. a[1] \in Chain => ContainsAddress(a) /\ ContainsAddress(a)'
    BY <2>1 DEF KnownAddresses
  <2>3. (ContainsAddress(a) => a[1] \in Chain) /\ (ContainsAddress(a)' => a[1] \in Chain)
    BY DEF ContainsAddress
  <2> QED
    BY <2>2, <2>3 DEF a
<1> QED
  BY <1>3 DEF OwnOutputs

LEMMA CompleteWhenUnchanged ==
  ASSUME Typed, Complete, KnownAddresses, KnownAddresses',
         UNCHANGED <<allTx, transactions, ledgerVars, loopVars>>
  PROVE  Complete'
<1>1. ASSUME NEW txs \in SUBSET allTx PROVE OwnedBy(txs)' = OwnedBy(txs)
  BY OwnOutputsKnown DEF OwnedBy
<1>2. Visited' = Visited /\ Visited \ loop.invalid \in SUBSET allTx /\ Valid \in SUBSET allTx
  BY DEF Visited, Valid, loopVars, Typed, TypeOK, Lists
<1>3. LoopComplete'
  BY <1>1, <1>2 DEF Complete, LoopComplete, loopVars
<1>4. OffersEveryUnspent'
  BY <1>1, <1>2 DEF Complete, OffersEveryUnspent, Valid, SpentBy, ledgerVars, loopVars
<1> QED
  BY <1>3, <1>4 DEF Complete

LEMMA CompleteWhenStarted ==
  ASSUME Lists(transactions', allTx'), StartUpdate(transactions')
  PROVE  Complete'
<1>1. Len(transactions') \in Nat
  BY DEF Lists
<1>2. updating' = TRUE /\ loop'.left = Len(transactions')
  BY DEF StartUpdate, Locals
<1>3. Visited' = {}
  BY <1>1, <1>2 DEF Visited
<1> QED
  BY <1>2, <1>3 DEF Complete, LoopComplete, OffersEveryUnspent, OwnedBy

LEMMA CompleteAfterUpdateNext ==
  ASSUME Typed, Sound, Complete, UpdateNext
  PROVE  Complete'
<1> DEFINE t == transactions[loop.left]
<1>1. updating /\ updating' = updating
  BY DEF UpdateNext
<1>2. Visited' = Visited \cup {t} /\ t \notin Visited
  BY VisitsOneMore
<1>3. /\ loop.invalid \subseteq Visited
      /\ OwnedBy(Visited \ loop.invalid) \ loop.spent \subseteq loop.utxos
  BY <1>1 DEF Sound, LoopSound, Complete, LoopComplete
<1>4. \A txs : OwnedBy(txs)' = OwnedBy(txs)
  BY DEF OwnedBy, OwnOutputs, ContainsAddress, UpdateNext, addressVars
<1>5. CASE Invalid(t)
  <2>1. /\ loop'.invalid = loop.invalid \cup {t}
        /\ loop'.spent = loop.spent /\ loop'.utxos = loop.utxos
    BY <1>5 DEF UpdateNext, Typed, LoopRecord
  <2>2. Visited' \ loop'.invalid = Visited \ loop.invalid
    BY <1>2, <2>1
  <2> QED
    BY <1>1, <1>3, <1>4, <2>1, <2>2 DEF Complete, LoopComplete, OffersEveryUnspent
<1>6. CASE ~Invalid(t)
  <2>1. /\ loop'.invalid = loop.invalid
        /\ loop'.spent = loop.spent \cup Inputs[t]
        /\ loop'.utxos = (loop.utxos \cup OwnOutputs(t)) \ SpentNow(t)
    BY <1>6 DEF UpdateNext
  <2>2. Visited' \ loop'.invalid = (Visited \ loop.invalid) \cup {t}
    BY <1>2, <1>3, <2>1
  <2>3. OwnedBy(Visited' \ loop'.invalid) = OwnedBy(Visited \ loop.invalid) \cup OwnOutputs(t)
    BY <2>2 DEF OwnedBy
  <2>4. SpentNow(t) \subseteq loop'.spent
    BY <2>1 DEF SpentNow
  <2>5. OwnedBy(Visited' \ loop'.invalid) \ loop'.spent \subseteq loop'.utxos
    BY <1>3, <2>1, <2>3, <2>4
  <2> QED
    BY <1>1, <1>4, <2>5 DEF Complete, LoopComplete, OffersEveryUnspent
<1> QED
  BY <1>5, <1>6

LEMMA CompleteAfterUpdateDone ==
  ASSUME Typed, Sound, Complete, UpdateDone
  PROVE  Complete'
<1>1. Visited = allTx
  <2>1. Lists(transactions, allTx) /\ loop.left + 1 = 1
    BY DEF Typed, TypeOK, UpdateDone
  <2>2. Len(transactions) \in Nat /\ transactions \in Seq(allTx)
    BY <2>1 DEF Lists
  <2> QED
    BY <2>1, <2>2 DEF Visited, Lists
<1>2. /\ loop.spent = SpentBy(allTx \ loop.invalid)
      /\ OwnedBy(allTx \ loop.invalid) \ loop.spent \subseteq loop.utxos
  BY <1>1 DEF Sound, LoopSound, Complete, LoopComplete, UpdateDone
<1>3. \A txs : OwnedBy(txs)' = OwnedBy(txs) /\ SpentBy(txs)' = SpentBy(txs)
  BY DEF OwnedBy, OwnOutputs, ContainsAddress, SpentBy, UpdateDone, addressVars
<1>4. Valid' = allTx \ loop.invalid /\ utxos' = loop.utxos /\ updating' = FALSE
  BY DEF UpdateDone, Valid
<1> QED
  BY <1>2, <1>3, <1>4 DEF Complete, LoopComplete, OffersEveryUnspent

LEMMA CompleteIsInductive ==
  ASSUME Typed, Sound, Complete, KnownAddresses, KnownAddresses', Next
  PROVE  Complete'
<1>1. Lists(transactions', allTx')
  BY TypedIsInductive DEF Typed, TypeOK
<1>2. CASE StartUpdate(transactions')
  BY <1>1, <1>2, CompleteWhenStarted
<1>3. CASE UNCHANGED <<allTx, transactions, ledgerVars, loopVars>>
  BY <1>3, CompleteWhenUnchanged
<1>4. CASE UpdateNext \/ UpdateDone
  BY <1>4, CompleteAfterUpdateNext, CompleteAfterUpdateDone
<1> QED
  BY <1>2, <1>3, <1>4
  DEF Next, PrepareAddresses, RegisterTransaction, Refill, ConfirmBlock, Reorganize, ConfirmBranch,
      SetBlockHeight, RemoveUnrelayed, RemoveTransaction, RemoveDependent, RemoveItself, FirstUnusedAddress, Restart

\* The wallet offers every output of a valid transaction that no valid transaction
\* has spent, as long as transactions pay addresses that it has generated.
THEOREM EveryUnspentOffered == Spec /\ []KnownAddresses => []OffersEveryUnspent
<1>1. Init => Complete
  BY DEF Init, Complete, LoopComplete, OffersEveryUnspent, Valid, OwnedBy
<1>2. /\ Typed /\ Sound /\ Complete /\ KnownAddresses /\ KnownAddresses' /\ [Next]_vars
      => Complete'
  <2> SUFFICES ASSUME Typed, Sound, Complete, KnownAddresses, KnownAddresses', [Next]_vars
               PROVE  Complete'
    OBVIOUS
  <2>1. CASE Next
    BY <2>1, CompleteIsInductive
  <2>2. CASE UNCHANGED vars
    BY <2>2, CompleteWhenUnchanged DEF vars
  <2> QED
    BY <2>1, <2>2
<1>3. Complete => OffersEveryUnspent
  BY DEF Complete
<1> QED
  BY <1>1, <1>2, <1>3, AlwaysTyped, AlwaysSound, PTL DEF Spec
=============================================================================
