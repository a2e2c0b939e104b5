------------------------ MODULE PeerMessages_proofs ------------------------
(***************************************************************************)
(* What holds of PeerMessages for every chain, wallet and bound: its types, *)
(* that a node which follows the protocol is not found to break it, that   *)
(* blocks are handed over in the order of the chain, and that no block     *)
(* comes before its transactions.                                          *)
(*                                                                         *)
(* The types need those of the messages under way (Queues), and what there *)
(* is in each stage of a connection (Stages): the filter is the first      *)
(* message, so that the node has one when it is asked for blocks.          *)
(*                                                                         *)
(* What a queue of messages says of the blocks or of the requests in it is *)
(* gathered message by message (Gather), so that a step which takes,       *)
(* answers or adds a message changes it at one place.                      *)
(***************************************************************************)
EXTENDS PeerMessages, SharedFacts

----------------------------------------------------------------------------
(***************************************************************************)
(* Functions and sequences, defined step by step.                          *)
(***************************************************************************)
\* Counting up to k.
LEMMA CountingUp ==
  ASSUME NEW k \in Nat, NEW P \in SUBSET (0..k), 0 \in P, \A n \in 1..k : n - 1 \in P => n \in P
  PROVE  P = 0..k
<1> DEFINE Q == (0..k) \ P
<1>1. ASSUME Q # {} PROVE FALSE
  <2>1. Q \in SUBSET Nat
    OBVIOUS
  <2> HIDE DEF Q
  <2>2. PICK m \in Q : \A n \in Q : m <= n
    BY <1>1, <2>1, LeastOf
  <2>3. m \in 1..k /\ m \notin P
    BY <2>2 DEF Q
  <2>4. m - 1 \notin Q
    BY <2>1, <2>2, <2>3
  <2> QED
    BY <2>3, <2>4 DEF Q
<1> QED
  BY <1>1

\* f is what starts with v and goes on from n - 1 to n as G says.
Stepwise(f, k, v, G) == f[0] = v /\ \A n \in 1..k : f[n] = G[n][f[n - 1]]

Steps(k, V) == [1..k -> [V -> V]]

\* A function defined by what it is at 0, and by a step from each number to the next.
LEMMA StepwiseExists ==
  ASSUME NEW V, NEW v \in V, NEW k \in Nat, NEW G \in Steps(k, V)
  PROVE  \E f \in [0..k -> V] : Stepwise(f, k, v, G)
<1>1. G \in [1..k -> [V -> V]]
  BY DEF Steps
<1> DEFINE Good(j) == \E f \in [0..j -> V] : f[0] = v /\ \A n \in 1..j : f[n] = G[n][f[n - 1]]
           P == {j \in 0..k : Good(j)}
<1>2. Good(0)
  <2> DEFINE g == [i \in 0..0 |-> v]
  <2>1. g \in [0..0 -> V] /\ g[0] = v /\ \A n \in 1..0 : g[n] = G[n][g[n - 1]]
    OBVIOUS
  <2> HIDE DEF g
  <2> QED
    BY <2>1
<1>3. ASSUME NEW n \in 1..k, Good(n - 1) PROVE Good(n)
  <2>1. PICK f \in [0..(n - 1) -> V] : f[0] = v /\ \A i \in 1..(n - 1) : f[i] = G[i][f[i - 1]]
    BY <1>3
  <2>2. f[n - 1] \in V /\ G[n] \in [V -> V]
    BY <1>1
  <2> DEFINE y == G[n][f[n - 1]]
             g == [i \in 0..n |-> IF i = n THEN y ELSE f[i]]
  <2>3. y \in V
    BY <2>2
  <2> HIDE DEF y
  <2>4. g \in [0..n -> V] /\ g[0] = v /\ g[n] = y /\ \A i \in 0..(n - 1) : g[i] = f[i]
    BY <2>1, <2>3
  <2> HIDE DEF g
  <2>5. ASSUME NEW i \in 1..n PROVE g[i] = G[i][g[i - 1]]
    <3>1. i - 1 \in 0..(n - 1)
      OBVIOUS
    <3>2. g[i - 1] = f[i - 1]
      BY <2>4, <3>1
    <3>3. CASE i = n
      BY <2>4, <3>2, <3>3 DEF y
    <3>4. CASE i # n
      <4>1. i \in 1..(n - 1) /\ i \in 0..(n - 1)
        BY <3>4
      <4> QED
        BY <2>1, <2>4, <3>2, <4>1
    <3> QED
      BY <3>3, <3>4
  <2> QED
    BY <2>4, <2>5
<1> HIDE DEF Good
<1>4. P = 0..k
  <2>1. P \in SUBSET (0..k) /\ 0 \in P
    BY <1>2
  <2>2. \A n \in 1..k : n - 1 \in P => n \in P
    BY <1>3
  <2> HIDE DEF P
  <2> QED
    BY <2>1, <2>2, CountingUp
<1>5. Good(k)
  BY <1>4
<1> QED
  BY <1>5 DEF Good, Stepwise

\* Sequences, put together.
LEMMA FlattenFacts ==
  ASSUME NEW S, NEW ss \in Seq(Seq(S))
  PROVE  \E g \in [0..Len(ss) -> Seq(S)] :
           /\ g[0] = <<>> /\ \A n \in 1..Len(ss) : g[n] = g[n - 1] \o ss[n]
           /\ FlattenSeq(ss) = g[Len(ss)]
<1> DEFINE k == Len(ss)
           G == [n \in 1..k |-> [x \in Seq(S) |-> x \o ss[n]]]
<1>1. k \in Nat /\ \A n \in 1..k : ss[n] \in Seq(S)
  OBVIOUS
<1>2. ASSUME NEW u \in Seq(S), NEW w \in Seq(S) PROVE u \o w \in Seq(S)
  OBVIOUS
<1>3. G \in [1..k -> [Seq(S) -> Seq(S)]]
  BY <1>1, <1>2
<1>4. <<>> \in Seq(S)
  OBVIOUS
<1> HIDE DEF k
<1>5. PICK g \in [0..k -> Seq(S)] : g[0] = <<>> /\ \A n \in 1..k : g[n] = G[n][g[n - 1]]
  <2> DEFINE V == Seq(S)
  <2>1. \E g \in [0..k -> V] : g[0] = <<>> /\ \A n \in 1..k : g[n] = G[n][g[n - 1]]
    <3> HIDE DEF G
    <3>1. G \in [1..k -> [V -> V]] /\ <<>> \in V
      BY <1>3, <1>4
    <3> HIDE DEF V
    <3> QED
      <4>1. k \in Nat /\ G \in Steps(k, V)
        BY <1>1, <3>1 DEF Steps
      <4>2. \E g \in [0..k -> V] : Stepwise(g, k, <<>>, G)
        BY <3>1, <4>1, StepwiseExists
      <4> QED
        BY <4>2 DEF Stepwise
  <2> QED
    BY <2>1
<1>6. ASSUME NEW n \in 1..k PROVE g[n] = g[n - 1] \o ss[n] /\ g[n - 1] \in Seq(S)
  <2>1. n - 1 \in 0..k
    BY <1>1
  <2> QED
    BY <1>5, <2>1
<1>6a. ASSUME k # 0 PROVE g[1] = ss[1]
  <2>1. 1 \in 1..k /\ 1 - 1 = 0
    BY <1>1, <1>6a
  <2>2. g[1] = g[1 - 1] \o ss[1] /\ ss[1] \in Seq(S)
    BY <1>1, <1>6, <2>1, Zenon
  <2>3. g[1] = <<>> \o ss[1]
    BY <1>5, <2>1, <2>2
  <2> QED
    BY <2>2, <2>3, ConcatEmptySeq
<1>7. CASE k = 0
  <2>1. ss = <<>>
    BY <1>7 DEF k
  <2>2. FlattenSeq(ss) = <<>>
    BY <2>1, <1>7 DEF FlattenSeq, k
  <2> QED
    BY <1>5, <1>6, <1>7, <2>2 DEF k
<1>8. CASE k # 0
  <2> DEFINE Eqn(f) == f = [i \in 1..k |-> IF i = 1 THEN ss[i] ELSE f[i - 1] \o ss[i]]
             h == [i \in 1..k |-> g[i]]
             flatten == CHOOSE f : Eqn(f)
  <2>1. Eqn(h)
    <3>1. ASSUME NEW i \in 1..k PROVE h[i] = IF i = 1 THEN ss[i] ELSE h[i - 1] \o ss[i]
      <4>1. CASE i = 1
        BY <1>6a, <1>8, <4>1
      <4>2. CASE i # 1
        <5>1. i - 1 \in 1..k
          BY <1>1, <4>2
        <5> QED
          BY <1>6, <4>2, <5>1
      <4> QED
        BY <4>1, <4>2
    <3> QED
      BY <3>1, Zenon
  <2> HIDE DEF h
  <2>2. Eqn(flatten)
    BY <2>1, Zenon
  <2>3. FlattenSeq(ss) = flatten[k]
    BY <1>8 DEF FlattenSeq, k
  <2> HIDE DEF flatten
  <2>4. \A i \in 1..k : flatten[i] = IF i = 1 THEN ss[i] ELSE flatten[i - 1] \o ss[i]
    BY <2>2, Zenon
  <2> DEFINE P == {i \in 0..k : i > 0 => flatten[i] = g[i]}
  <2>5. 0 \in P
    BY <1>1
  <2>6. ASSUME NEW n \in 1..k, n - 1 \in P PROVE n \in P
    <3>1. CASE n = 1
      <4>1. flatten[n] = ss[1] /\ n \in 0..k
        BY <1>1, <2>4, <3>1
      <4> QED
        BY <1>6a, <1>8, <3>1, <4>1
    <3>2. CASE n # 1
      <4>1. n - 1 > 0 /\ flatten[n - 1] = g[n - 1]
        BY <1>1, <2>6, <3>2
      <4>2. flatten[n] = flatten[n - 1] \o ss[n]
        BY <2>4, <3>2
      <4>3. flatten[n] = g[n] /\ n \in 0..k
        <5>1. g[n] = g[n - 1] \o ss[n]
          BY <1>6, Zenon
        <5>2. n \in 0..k
          BY <1>1
        <5> QED
          BY <4>1, <4>2, <5>1, <5>2
      <4> QED
        BY <4>3
    <3> QED
      BY <3>1, <3>2
  <2>7. P = 0..k
    <3>1. P \in SUBSET (0..k)
      OBVIOUS
    <3> HIDE DEF P
    <3> QED
      BY <1>1, <2>5, <2>6, <3>1, CountingUp
  <2>8. flatten[k] = g[k]
    <3>1. k \in 0..k /\ k > 0
      BY <1>1, <1>8
    <3>2. k \in P
      BY <2>7, <3>1
    <3> QED
      BY <3>1, <3>2
  <2>9. FlattenSeq(ss) = g[k]
    BY <2>3, <2>8
  <2> QED
    BY <1>5, <1>6, <2>9 DEF k
<1> QED
  BY <1>7, <1>8

----------------------------------------------------------------------------
(***************************************************************************)
(* Sequences.                                                              *)
(***************************************************************************)
LEMMA ThoseTaken ==
  ASSUME NEW T, NEW s \in Seq(T), NEW S
  PROVE  \E g \in [0..Len(s) -> Seq(T)] :
           /\ g[0] = <<>> /\ Those(s, S) = g[Len(s)]
           /\ \A n \in 1..Len(s) : g[n] = IF s[n] \in S THEN Append(g[n - 1], s[n]) ELSE g[n - 1]
<1> DEFINE k == Len(s)
           G == [n \in 1..k |-> [x \in Seq(T) |-> IF s[n] \in S THEN Append(x, s[n]) ELSE x]]
           Eqn(f) == f = [n \in 0..k |-> IF n = 0 THEN <<>>
                                         ELSE IF s[n] \in S THEN Append(f[n - 1], s[n]) ELSE f[n - 1]]
           taken == CHOOSE f : Eqn(f)
<1>1. k \in Nat /\ (\A n \in 1..k : s[n] \in T) /\ <<>> \in Seq(T)
  OBVIOUS
<1>2. Those(s, S) = taken[k]
  BY DEF Those
<1> HIDE DEF k
<1>3. G \in [1..k -> [Seq(T) -> Seq(T)]]
  BY <1>1
<1> HIDE DEF G
<1>4. PICK g \in [0..k -> Seq(T)] : Stepwise(g, k, <<>>, G)
  BY <1>1, <1>3, StepwiseExists DEF Steps
<1>5. /\ g[0] = <<>>
      /\ \A n \in 1..k : g[n] = IF s[n] \in S THEN Append(g[n - 1], s[n]) ELSE g[n - 1]
  <2>1. ASSUME NEW n \in 1..k
        PROVE  g[n] = IF s[n] \in S THEN Append(g[n - 1], s[n]) ELSE g[n - 1]
    <3>1. n - 1 \in 0..k
      BY <1>1
    <3>2. g[n - 1] \in Seq(T) /\ g[n] = G[n][g[n - 1]]
      BY <1>4, <3>1 DEF Stepwise
    <3> QED
      BY <3>2 DEF G
  <2> QED
    BY <1>4, <2>1 DEF Stepwise
<1>6. Eqn(g)
  <2>1. ASSUME NEW n \in 0..k
        PROVE  g[n] = IF n = 0 THEN <<>>
                      ELSE IF s[n] \in S THEN Append(g[n - 1], s[n]) ELSE g[n - 1]
    <3>1. n = 0 \/ n \in 1..k
      BY <1>1
    <3> QED
      BY <1>5, <3>1
  <2> QED
    BY <2>1, Zenon
<1>7. Eqn(taken)
  BY <1>6, Zenon
<1> HIDE DEF taken
<1>8. \A n \in 0..k : taken[n] = IF n = 0 THEN <<>>
                                 ELSE IF s[n] \in S THEN Append(taken[n - 1], s[n]) ELSE taken[n - 1]
  BY <1>7, Zenon
<1> DEFINE P == {n \in 0..k : taken[n] = g[n]}
<1>9. 0 \in P
  BY <1>1, <1>5, <1>8
<1>10. ASSUME NEW n \in 1..k, n - 1 \in P PROVE n \in P
  <2>1. taken[n - 1] = g[n - 1] /\ n \in 0..k /\ n # 0
    BY <1>1, <1>10
  <2> QED
    BY <1>5, <1>8, <2>1
<1>11. P = 0..k
  <2>1. P \in SUBSET (0..k)
    OBVIOUS
  <2> HIDE DEF P
  <2> QED
    BY <1>1, <1>9, <1>10, <2>1, CountingUp
<1>12. taken[k] = g[k]
  <2>1. k \in 0..k
    BY <1>1
  <2> QED
    BY <1>11, <2>1
<1> QED
  BY <1>2, <1>5, <1>12 DEF k

LEMMA AppendRange ==
  ASSUME NEW T, NEW s \in Seq(T), NEW x \in T
  PROVE  ToSet(Append(s, x)) = ToSet(s) \cup {x}
<1>1. \A i \in DOMAIN s : i \in DOMAIN Append(s, x) /\ Append(s, x)[i] = s[i]
  BY AppendFacts
<1>2. Len(s) + 1 \in DOMAIN Append(s, x) /\ Append(s, x)[Len(s) + 1] = x
  BY AppendFacts
<1>3. \A i \in DOMAIN Append(s, x) : i = Len(s) + 1 \/ i \in DOMAIN s
  BY AppendFacts
<1> QED
  BY <1>1, <1>2, <1>3 DEF ToSet

\* What Those(s, S) has.
LEMMA ThoseFacts ==
  ASSUME NEW T, NEW s \in Seq(T), NEW S
  PROVE  /\ Those(s, S) \in Seq(T)
         /\ ToSet(Those(s, S)) = ToSet(s) \cap S
         /\ ToSet(s) \subseteq S => Those(s, S) = s
<1>1. PICK g \in [0..Len(s) -> Seq(T)] :
        /\ g[0] = <<>> /\ Those(s, S) = g[Len(s)]
        /\ \A n \in 1..Len(s) : g[n] = IF s[n] \in S THEN Append(g[n - 1], s[n]) ELSE g[n - 1]
  BY ThoseTaken
<1>2. Len(s) \in Nat /\ (\A n \in 1..Len(s) : s[n] \in T) /\ DOMAIN s = 1..Len(s)
  OBVIOUS
<1> DEFINE P == {n \in 0..Len(s) :
                  /\ ToSet(g[n]) = {s[i] : i \in 1..n} \cap S
                  /\ ToSet(s) \subseteq S => Len(g[n]) = n /\ \A i \in 1..n : g[n][i] = s[i]}
<1>3. 0 \in P
  <2>1. ToSet(<<>>) = {} /\ 1..0 = {}
    BY DEF ToSet
  <2> QED
    BY <1>1, <1>2, <2>1
<1>4. ASSUME NEW n \in 1..Len(s), n - 1 \in P PROVE n \in P
  <2> DEFINE x == g[n - 1]
             y == g[n]
  <2>1. /\ x \in Seq(T) /\ s[n] \in T /\ n \in 0..Len(s) /\ n - 1 \in Nat
        /\ y = IF s[n] \in S THEN Append(x, s[n]) ELSE x
    <3>1. n - 1 \in 0..Len(s)
      BY <1>2
    <3> QED
      BY <1>1, <1>2, <3>1
  <2>2. /\ ToSet(x) = {s[i] : i \in 1..(n - 1)} \cap S
        /\ ToSet(s) \subseteq S => Len(x) = n - 1 /\ \A i \in 1..(n - 1) : x[i] = s[i]
    BY <1>4
  <2>3. {s[i] : i \in 1..n} = {s[i] : i \in 1..(n - 1)} \cup {s[n]}
    BY <1>2
  <2>4. s[n] \in ToSet(s)
    BY <1>2 DEF ToSet
  <2> HIDE DEF x, y
  <2>5. ToSet(Append(x, s[n])) = ToSet(x) \cup {s[n]}
    BY <2>1, AppendRange
  <2>6. CASE s[n] \in S
    <3>1. y = Append(x, s[n])
      BY <2>1, <2>6
    <3>2. ToSet(y) = {s[i] : i \in 1..n} \cap S
      BY <2>2, <2>3, <2>5, <2>6, <3>1
    <3>3. ASSUME ToSet(s) \subseteq S PROVE Len(y) = n /\ \A i \in 1..n : y[i] = s[i]
      BY <2>1, <2>2, <3>1, <3>3
    <3> QED
      BY <2>1, <3>2, <3>3 DEF y
  <2>7. CASE s[n] \notin S
    <3>1. y = x
      BY <2>1, <2>7
    <3>2. ToSet(y) = {s[i] : i \in 1..n} \cap S
      BY <2>2, <2>3, <2>7, <3>1
    <3> QED
      BY <2>1, <2>4, <2>7, <3>2 DEF y
  <2> QED
    BY <2>6, <2>7
<1>5. P = 0..Len(s)
  <2>1. P \in SUBSET (0..Len(s))
    OBVIOUS
  <2> HIDE DEF P
  <2> QED
    BY <1>2, <1>3, <1>4, <2>1, CountingUp
<1>6. Len(s) \in P
  BY <1>2, <1>5
<1>7. ToSet(s) = {s[i] : i \in 1..Len(s)}
  BY <1>2 DEF ToSet
<1>8. g[Len(s)] \in Seq(T)
  BY <1>1, <1>2
<1>9. ToSet(s) \subseteq S => Those(s, S) = s
  BY <1>1, <1>6, <1>8, SeqEqual
<1> QED
  BY <1>1, <1>6, <1>7, <1>8, <1>9

----------------------------------------------------------------------------
(***************************************************************************)
(* Types.                                                                  *)
(***************************************************************************)
WireMessage ==
  [type : {"version"}] \cup [type : {"tx"}, tx : Tx]
    \cup [type : {"inv"}, txs : Seq(Tx), blocks : Seq(Block)]
    \cup [type : {"merkleblock"}, block : Block, matched : SUBSET Tx]

OutMessage ==
  [type : {"filterload"}, filter : Filter] \cup [type : {"getblocks"}, from : 0..Length]
    \cup [type : {"getdata"}, txs : Seq(Tx), blocks : Seq(Block)]

LoopMessage == OutMessage \cup [type : {"rerequest"}, from : 0..Length]

CallbackBlock == [type : {"tx"}, tx : Tx] \cup [type : {"block"}, block : Block, txs : SUBSET Tx]

Waiting == [block : Block, txs : SUBSET Tx, missing : (SUBSET Tx) \ {{}}]

Queues ==
  /\ wire \in Seq(WireMessage) /\ out \in Seq(OutMessage)
  /\ loop \in Seq(LoopMessage) /\ queue \in Seq(CallbackBlock)

\* What there is before the handshake; the filter is the first message after it.
Stages ==
  /\ ~Connected => queue = <<>> /\ loop = <<>> /\ out = <<>> /\ nodeFilter = None /\ told = {}
  /\ status = "disconnected" => wire = <<>>
  /\ status = "connecting" => wire = <<[type |-> "version"]>>
  /\ Connected => bloomFilter \in Filter
  /\ Connected /\ nodeFilter \notin Filter =>
       \/ out # <<>> /\ Head(out).type = "filterload"
       \/ out = <<>> /\ loop # <<>> /\ Head(loop).type = "filterload"

Typed == MessagesTypeOK /\ Queues /\ Stages

LEMMA WireTypes ==
  ASSUME NEW m \in WireMessage
  PROVE  /\ m.type = "tx" => m.tx \in Tx /\ m = TxMessage(m.tx)
         /\ m.type = "inv" => m.txs \in Seq(Tx) /\ m.blocks \in Seq(Block)
         /\ m.type = "merkleblock" => m.block \in Block /\ m.matched \in SUBSET Tx
BY DEF WireMessage, TxMessage

LEMMA LoopTypes ==
  ASSUME NEW m \in LoopMessage
  PROVE  /\ m.type # "rerequest" => m \in OutMessage
         /\ m.type = "rerequest" => m.from \in 0..Length
         /\ m.type = "filterload" => m.filter \in Filter
         /\ m.type = "getblocks" => m.from \in 0..Length
         /\ m.type = "getdata" => m.txs \in Seq(Tx) /\ m.blocks \in Seq(Block)
BY DEF LoopMessage, OutMessage

LEMMA CallbackTypes ==
  ASSUME NEW m \in CallbackBlock
  PROVE  /\ m.type = "tx" => m.tx \in Tx
         /\ m.type = "block" => m.block \in Block /\ m.txs \in SUBSET Tx
BY DEF CallbackBlock

LEMMA OutIsLoop == OutMessage \subseteq LoopMessage
BY DEF LoopMessage

LEMMA MessageTypes ==
  /\ \A t \in Tx : TxMessage(t) \in WireMessage /\ TxCallback(t) \in CallbackBlock
  /\ \A txs \in Seq(Tx), bs \in Seq(Block) :
       Inv(txs, bs) \in WireMessage /\ GetData(txs, bs) \in OutMessage
  /\ \A b \in Block, txs \in SUBSET Tx :
       Merkleblock(b, txs) \in WireMessage /\ BlockCallback(b, txs) \in CallbackBlock
  /\ \A f \in Filter : FilterLoad(f) \in OutMessage
  /\ \A b \in 0..Length : GetBlocks(b) \in OutMessage /\ Rerequest(b) \in LoopMessage
BY DEF TxMessage, TxCallback, Inv, GetData, Merkleblock, BlockCallback, FilterLoad, GetBlocks, Rerequest,
       WireMessage, OutMessage, LoopMessage, CallbackBlock

LEMMA RangeType ==
  ASSUME NEW T, NEW s \in Seq(T)
  PROVE  ToSet(s) \in SUBSET T
BY DEF ToSet

LEMMA WithGapLimitType ==
  ASSUME NEW n \in Nat, NEW txs \in SUBSET Tx, NEW limit \in Nat
  PROVE  WithGapLimit(n, txs, limit) \in Nat
<1> DEFINE used == {a \in UNION {Pays[t] : t \in txs} : a < n}
           Unused(k) == /\ k > 0 => k - 1 \in used
                        /\ \A a \in used : a < k
<1>1. used \in SUBSET Nat /\ \A a \in used : a < n
  BY MessageAssumption
<1> HIDE DEF used
<1>2. \E k \in 0..n : Unused(k)
  <2>1. CASE used = {}
    <3>1. 0 \in 0..n /\ Unused(0)
      BY <2>1
    <3> QED
      BY <3>1
  <2>2. CASE used # {}
    <3>1. \A a \in used : a <= n
      BY <1>1
    <3>2. PICK m \in used : \A a \in used : a <= m
      BY <1>1, <2>2, <3>1, GreatestOf
    <3>3. m + 1 \in 0..n /\ Unused(m + 1)
      BY <1>1, <3>2
    <3> QED
      BY <3>3
  <2> QED
    BY <2>1, <2>2
<1> DEFINE unused == CHOOSE k \in 0..n : Unused(k)
<1>3. unused \in 0..n
  BY <1>2
<1>4. WithGapLimit(n, txs, limit) = IF unused + limit > n THEN unused + limit ELSE n
  BY DEF WithGapLimit, used
<1> HIDE DEF unused
<1> QED
  BY <1>3, <1>4

LEMMA GrownType ==
  ASSUME NEW f \in Filter, NEW txs \in SUBSET Tx
  PROVE  Grown(f, txs) \in Filter
BY DEF Grown, Filter

LEMMA BlockTxsType ==
  ASSUME NEW bs \in Seq(Block)
  PROVE  BlockTxs(bs) \in SUBSET Tx
<1>1. \A b \in ToSet(bs) : ToSet(TxIn[b]) \in SUBSET Tx
  BY MessageAssumption, RangeType
<1> QED
  BY <1>1 DEF BlockTxs

LEMMA NewFilterType ==
  ASSUME wallet' \in SUBSET Tx, addresses' \in Nat
  PROVE  NewFilter \in Filter
BY DEF NewFilter, Filter, UnspentOutputs

\* Messages, one for each transaction.
TxMessages(txs) == [i \in DOMAIN txs |-> TxMessage(txs[i])]

LEMMA TxMessagesType ==
  ASSUME NEW txs \in Seq(Tx)
  PROVE  /\ TxMessages(txs) \in Seq(WireMessage) /\ Len(TxMessages(txs)) = Len(txs)
         /\ DOMAIN TxMessages(txs) = 1..Len(txs) /\ Len(txs) \in Nat
         /\ \A i \in DOMAIN TxMessages(txs) :
              TxMessages(txs)[i] = TxMessage(txs[i]) /\ TxMessages(txs)[i].type = "tx"
<1>1. \A i \in DOMAIN txs : TxMessage(txs[i]) \in WireMessage
  BY MessageTypes
<1>2. DOMAIN txs = 1..Len(txs) /\ Len(txs) \in Nat
  OBVIOUS
<1> QED
  BY <1>1, <1>2 DEF TxMessages, TxMessage

\* A merkleblock, and after it what it matches that the peer was not told of.
LEMMA BlockAnswerFacts ==
  ASSUME NEW b \in Block, NEW f
  PROVE  \E txs \in SUBSET Tx : \E new \in Seq(Tx) :
           /\ BlockAnswer(b, f) = <<Merkleblock(b, txs)>> \o TxMessages(new)
           /\ txs \ told \subseteq ToSet(new)
<1> DEFINE matched == Those(TxIn[b], {t \in Tx : Matches(t, f)})
           new == Those(matched, Tx \ told)
<1>1. matched \in Seq(Tx)
  BY MessageAssumption, ThoseFacts
<1>2. BlockAnswer(b, f) = <<Merkleblock(b, ToSet(matched))>> \o TxMessages(new)
  BY DEF BlockAnswer, TxMessages
<1> HIDE DEF matched
<1>3. new \in Seq(Tx) /\ ToSet(new) = ToSet(matched) \cap (Tx \ told)
  BY <1>1, ThoseFacts
<1>4. ToSet(matched) \in SUBSET Tx
  BY <1>1, RangeType
<1> HIDE DEF new
<1>5. ToSet(matched) \ told \subseteq ToSet(new)
  BY <1>3, <1>4
<1> QED
  BY <1>2, <1>3, <1>4, <1>5

LEMMA BlockAnswerType ==
  ASSUME NEW b \in Block, NEW f
  PROVE  BlockAnswer(b, f) \in Seq(WireMessage)
<1>1. PICK txs \in SUBSET Tx, new \in Seq(Tx) :
        BlockAnswer(b, f) = <<Merkleblock(b, txs)>> \o TxMessages(new)
  BY BlockAnswerFacts
<1>2. Merkleblock(b, txs) \in WireMessage /\ TxMessages(new) \in Seq(WireMessage)
  BY MessageTypes, TxMessagesType
<1> QED
  BY <1>1, <1>2

\* The answers to a getdata, block by block.
LEMMA AnswersFacts ==
  ASSUME NEW bs \in Seq(Block)
  PROVE  \E g \in [0..Len(bs) -> Seq(WireMessage)] :
           /\ g[0] = <<>> /\ Answers(bs) = g[Len(bs)]
           /\ \A n \in 1..Len(bs) :
                g[n] = g[n - 1] \o BlockAnswer(bs[n], Grown(nodeFilter, BlockTxs(SubSeq(bs, 1, n))))
<1> DEFINE F(i) == Grown(nodeFilter, BlockTxs(SubSeq(bs, 1, i)))
           ss == [i \in DOMAIN bs |-> BlockAnswer(bs[i], F(i))]
<1>1. Answers(bs) = FlattenSeq(ss)
  BY DEF Answers
<1> HIDE DEF F
<1>2. DOMAIN bs = 1..Len(bs) /\ Len(bs) \in Nat /\ \A i \in DOMAIN bs : bs[i] \in Block
  OBVIOUS
<1>3. \A i \in DOMAIN bs : BlockAnswer(bs[i], F(i)) \in Seq(WireMessage)
  BY <1>2, BlockAnswerType
<1>4. ss \in Seq(Seq(WireMessage)) /\ Len(ss) = Len(bs) /\ \A n \in 1..Len(bs) : ss[n] = BlockAnswer(bs[n], F(n))
  BY <1>2, <1>3
<1> HIDE DEF ss
<1>5. PICK g \in [0..Len(ss) -> Seq(WireMessage)] :
        /\ g[0] = <<>> /\ \A n \in 1..Len(ss) : g[n] = g[n - 1] \o ss[n]
        /\ FlattenSeq(ss) = g[Len(ss)]
  BY <1>4, FlattenFacts
<1>6. /\ g[0] = <<>> /\ Answers(bs) = g[Len(bs)] /\ g \in [0..Len(bs) -> Seq(WireMessage)]
      /\ \A n \in 1..Len(bs) : g[n] = g[n - 1] \o BlockAnswer(bs[n], F(n))
  BY <1>1, <1>4, <1>5
<1> QED
  BY <1>6 DEF F

LEMMA AnswersType ==
  ASSUME NEW bs \in Seq(Block)
  PROVE  Answers(bs) \in Seq(WireMessage)
<1>1. PICK g \in [0..Len(bs) -> Seq(WireMessage)] : Answers(bs) = g[Len(bs)]
  BY AnswersFacts
<1>2. Len(bs) \in 0..Len(bs)
  OBVIOUS
<1> QED
  BY <1>1, <1>2

\* The first message is the same when others are added.
LEMMA ConcatFacts ==
  ASSUME NEW S, NEW s \in Seq(S), NEW t \in Seq(S)
  PROVE  /\ s \o t \in Seq(S)
         /\ s # <<>> => s \o t # <<>> /\ Head(s \o t) = Head(s)
         /\ Len(s \o t) = Len(s) + Len(t)
         /\ DOMAIN s = 1..Len(s) /\ DOMAIN t = 1..Len(t) /\ DOMAIN (s \o t) = 1..(Len(s) + Len(t))
         /\ Len(s) \in Nat /\ Len(t) \in Nat
         /\ \A i \in 1..(Len(s) + Len(t)) : (s \o t)[i] = IF i <= Len(s) THEN s[i] ELSE t[i - Len(s)]
OBVIOUS

\* One message, sent from the loop.
LEMMA SendFacts ==
  ASSUME NEW S, NEW s \in Seq(S), NEW t \in Seq(S), t # <<>>
  PROVE  /\ Append(s, Head(t)) \o Tail(t) = s \o t
         /\ Head(Append(s, Head(t))) = IF s = <<>> THEN Head(t) ELSE Head(s)
         /\ Append(s, Head(t)) # <<>>
OBVIOUS

LEMMA RememberedFacts ==
  ASSUME NEW s \in Seq(Block)
  PROVE  Remembered(s) \in Seq(Block) /\ Len(Remembered(s)) <= MaxHashes
<1>1. MaxHashes \in Nat \ {0} /\ Len(s) \in Nat
  BY MessageAssumption
<1> DEFINE m == Len(s) - MaxHashes \div 2 + 1
<1>2. CASE Len(s) > MaxHashes
  <2>1. MaxHashes \div 2 \in Nat /\ MaxHashes \div 2 <= MaxHashes
    BY <1>1
  <2>2. m \in 1..(Len(s) + 1) /\ Len(s) - m + 1 <= MaxHashes /\ m \in Int
    BY <1>1, <1>2, <2>1
  <2>3. Remembered(s) = SubSeq(s, m, Len(s))
    BY <1>2 DEF Remembered
  <2> HIDE DEF m
  <2>4. \A i \in m..Len(s) : s[i] \in Block
    BY <2>2
  <2>5. /\ SubSeq(s, m, Len(s)) \in Seq(Block)
        /\ Len(SubSeq(s, m, Len(s))) = IF m <= Len(s) THEN Len(s) - m + 1 ELSE 0
    BY <1>1, <2>2, <2>4, SubSeqProperties
  <2> QED
    BY <1>1, <2>2, <2>3, <2>5
<1>3. CASE ~(Len(s) > MaxHashes)
  BY <1>1, <1>3 DEF Remembered
<1> QED
  BY <1>2, <1>3

\* What a getdata adds to the loop.
Request(txs, bs) ==
  (IF filterBlockCount + Len(bs) > FilterBlocks THEN <<FilterLoad(bloomFilter)>> ELSE <<>>)
    \o <<GetData(txs, bs)>>

LEMMA SendGetDataTypes ==
  ASSUME Typed, bloomFilter \in Filter, NEW messages \in Seq(LoopMessage),
         NEW txs \in Seq(Tx), NEW bs \in Seq(Block), SendGetData(messages, txs, bs)
  PROVE  /\ requested' \in [Block -> Nat] /\ filterBlockCount' \in Nat
         /\ Request(txs, bs) \in Seq(OutMessage) /\ Request(txs, bs) \in Seq(LoopMessage)
         /\ loop' = messages \o Request(txs, bs) /\ loop' \in Seq(LoopMessage)
<1> USE DEF SendGetData
<1>1. Len(bs) \in Nat /\ filterBlockCount \in Nat /\ requested \in [Block -> Nat]
  BY DEF Typed, MessagesTypeOK
<1>2. FilterLoad(bloomFilter) \in OutMessage /\ GetData(txs, bs) \in OutMessage
  BY MessageTypes
<1>3. Request(txs, bs) \in Seq(OutMessage)
  BY <1>2 DEF Request
<1>4. Request(txs, bs) \in Seq(LoopMessage)
  BY <1>3, OutIsLoop, SeqMonotonic
<1>5. loop' = messages \o Request(txs, bs)
  <2> DEFINE again == IF filterBlockCount + Len(bs) > FilterBlocks THEN <<FilterLoad(bloomFilter)>> ELSE <<>>
             getdata == <<GetData(txs, bs)>>
  <2>1. again \in Seq(LoopMessage) /\ getdata \in Seq(LoopMessage)
    BY <1>2, OutIsLoop
  <2>2. loop' = (messages \o again) \o getdata /\ Request(txs, bs) = again \o getdata
    BY DEF Request
  <2> HIDE DEF again, getdata
  <2>3. (messages \o again) \o getdata = messages \o (again \o getdata)
    BY <2>1, ConcatAssociative
  <2> QED
    BY <2>2, <2>3, Zenon
<1>6. loop' \in Seq(LoopMessage)
  BY <1>4, <1>5, ConcatFacts
<1>7. \A b \in Block : requested[b] + (IF b \in ToSet(bs) THEN 1 ELSE 0) \in Nat
  BY <1>1
<1>8. requested' \in [Block -> Nat]
  BY <1>7
<1>9. filterBlockCount' \in Nat
  BY <1>1
<1> QED
  BY <1>3, <1>4, <1>5, <1>6, <1>8, <1>9

LEMMA ConnectionTyped ==
  ASSUME Typed, Connect \/ LoseConnection \/ IncompleteBlock
  PROVE  Typed'
<1>1. [type |-> "version"] \in WireMessage
  BY DEF WireMessage
<1>2. MessagesTypeOK'
  <2>1. CASE Connect
    <3>1. requested' \in [Block -> Nat] /\ blockHashes' \in Seq(Block) /\ Len(blockHashes') <= MaxHashes
      BY <2>1, MessageAssumption DEF Connect
    <3> QED
      BY <2>1, <3>1 DEF Typed, MessagesTypeOK, Connect, managerVars, nodeVars, historyVars
  <2>2. CASE LoseConnection
    <3>1. drops' \in 0..MaxDrops
      BY <2>2, MessageAssumption DEF Typed, MessagesTypeOK, LoseConnection
    <3>2. skipped' \in BOOLEAN
      <4>1. skipped \in BOOLEAN /\ skipped' = (skipped \/ AgainUnderWay)
        BY <2>2 DEF Typed, MessagesTypeOK, LoseConnection
      <4> QED
        BY <4>1, Zenon
    <3> QED
      <4>1. /\ UNCHANGED <<managerVars, messageVars, height, blamed>>
            /\ status' = "disconnected" /\ nodeFilter' = None /\ told' = {}
        BY <2>2 DEF LoseConnection
      <4> QED
        BY <3>1, <3>2, <4>1 DEF Typed, MessagesTypeOK, managerVars, messageVars
  <2>3. CASE IncompleteBlock
    BY <2>3 DEF Typed, MessagesTypeOK, IncompleteBlock, managerVars
  <2> QED
    BY <2>1, <2>2, <2>3
<1>3. Queues'
  <2>1. CASE Connect
    <3>1. wire' \in Seq(WireMessage)
      BY <1>1, <2>1 DEF Connect
    <3> QED
      BY <2>1, <3>1 DEF Typed, Queues, Connect
  <2>2. CASE LoseConnection \/ IncompleteBlock
    <3>1. wire' = <<>> /\ out' = <<>> /\ loop' = <<>> /\ queue' = <<>>
      BY <2>2, Zenon DEF LoseConnection, IncompleteBlock
    <3> QED
      BY <3>1 DEF Queues
  <2> QED
    BY <2>1, <2>2
<1>4. Stages'
  BY DEF Typed, Stages, Connect, LoseConnection, IncompleteBlock, Connected, nodeVars
<1> QED
  BY <1>2, <1>3, <1>4 DEF Typed

LEMMA HandshakeTyped ==
  ASSUME Typed, Handshake
  PROVE  Typed' /\ loop' # <<>> /\ Head(loop').type = "filterload" /\ wire' = <<>>
<1> DEFINE ask == IF lastBlock < height THEN <<GetBlocks(lastBlock)>> ELSE <<>>
<1>1. /\ wire = <<[type |-> "version"]>> /\ wire' = <<>> /\ queue = <<>> /\ out = <<>>
      /\ status' = "connected" /\ loop' = <<FilterLoad(bloomFilter')>> \o ask
      /\ bloomFilter' = NewFilter
  BY DEF Typed, Stages, Handshake, Accept, Connected
<1>2. wallet' = wallet /\ wallet \in SUBSET Tx /\ addresses' \in Nat
  <2>1. 2 * Gap \in Nat
    BY MessageAssumption
  <2> QED
    BY <2>1, WithGapLimitType DEF Typed, MessagesTypeOK, Handshake
<1>3. bloomFilter' \in Filter
  BY <1>1, <1>2, NewFilterType
<1>4. lastBlock \in 0..Length
  BY DEF Typed, MessagesTypeOK
<1>5. ask \in Seq(LoopMessage) /\ <<FilterLoad(bloomFilter')>> \in Seq(LoopMessage)
  BY <1>3, <1>4, MessageTypes, OutIsLoop
<1> HIDE DEF ask
<1>6. loop' \in Seq(LoopMessage) /\ loop' # <<>> /\ Head(loop') = FilterLoad(bloomFilter')
  BY <1>1, <1>5, ConcatFacts
<1>7. Head(loop').type = "filterload"
  BY <1>6 DEF FilterLoad
<1>8. MessagesTypeOK'
  BY <1>2, <1>3 DEF Typed, MessagesTypeOK, Handshake, nodeVars, historyVars
<1>9. Queues'
  BY <1>1, <1>6 DEF Typed, Queues, Handshake
<1>10. Stages'
  BY <1>1, <1>3, <1>6, <1>7 DEF Typed, Stages, Handshake, nodeVars, Connected
<1> QED
  BY <1>1, <1>6, <1>7, <1>8, <1>9, <1>10 DEF Typed

LEMMA NodeTyped ==
  ASSUME Typed, NodeAnswers
  PROVE  Typed'
<1> DEFINE m == Head(out)
<1>1. /\ out # <<>> /\ out \in Seq(OutMessage) /\ out' = Tail(out) /\ m \in OutMessage /\ out' \in Seq(OutMessage)
      /\ wire \in Seq(WireMessage) /\ Connected
  BY TailFacts DEF Typed, Queues, Stages, NodeAnswers
<1>2. /\ m.type = "filterload" => m.filter \in Filter
      /\ m.type = "getblocks" => m.from \in 0..Length
      /\ m.type = "getdata" => m.txs \in Seq(Tx) /\ m.blocks \in Seq(Block)
  BY <1>1, OutIsLoop, LoopTypes
<1>3. m.type # "filterload" => nodeFilter \in Filter
  BY <1>1 DEF Typed, Stages
<1> DEFINE Loads == m.type = "filterload" /\ nodeFilter' = m.filter /\ UNCHANGED wire
           n == IF height - m.from < MaxInv THEN height - m.from ELSE MaxInv
           GivesInv == /\ m.type = "getblocks" /\ UNCHANGED nodeFilter
                       /\ wire' = IF n = 0 THEN wire
                                  ELSE Append(wire, Inv(<<>>, [i \in 1..n |-> m.from + i]))
           GivesData == /\ m.type = "getdata"
                        /\ nodeFilter' = Grown(nodeFilter, BlockTxs(m.blocks))
                        /\ wire' = wire \o TxMessages(m.txs) \o Answers(m.blocks)
<1>4. Loads \/ GivesInv \/ GivesData
  BY DEF NodeAnswers, TxMessages
<1> HIDE DEF m
<1>5. nodeFilter' \in Filter /\ wire' \in Seq(WireMessage)
  <2>1. CASE Loads
    BY <1>1, <1>2, <2>1
  <2>2. CASE GivesInv
    <3>1. height \in 0..Length /\ MaxInv \in Nat \ {0} /\ m.from \in 0..Length /\ Length \in Nat
      BY <1>2, <2>2, MessageAssumption DEF Typed, MessagesTypeOK
    <3>2. n \in Int /\ \A i \in 1..n : m.from + i \in Block
      BY <3>1 DEF Block
    <3> DEFINE bs == [i \in 1..n |-> m.from + i]
    <3>3. n <= 0 => 1..n = {}
      BY <3>2
    <3> HIDE DEF n
    <3>4. bs \in Seq(Block)
      <4>1. CASE n <= 0
        <5>1. 1..n = 1..0 /\ \A i \in 1..0 : m.from + i \in Block
          BY <3>3, <4>1
        <5>2. bs = [i \in 1..0 |-> m.from + i]
          BY <5>1
        <5>3. [i \in 1..0 |-> m.from + i] \in Seq(Block)
          BY <5>1
        <5> QED
          BY <5>2, <5>3
      <4>2. CASE n > 0
        BY <3>2, <4>2
      <4> QED
        BY <3>2, <4>1, <4>2
    <3> HIDE DEF bs
    <3>5. Inv(<<>>, bs) \in WireMessage
      <4>1. <<>> \in Seq(Tx)
        OBVIOUS
      <4> QED
        BY <3>4, <4>1, MessageTypes
    <3>6. wire' = wire \/ wire' = Append(wire, Inv(<<>>, bs))
      BY <2>2 DEF bs
    <3> QED
      BY <1>1, <1>3, <2>2, <3>5, <3>6, AppendFacts
  <2>3. CASE GivesData
    <3>1. TxMessages(m.txs) \in Seq(WireMessage) /\ Answers(m.blocks) \in Seq(WireMessage)
      BY <1>2, <2>3, TxMessagesType, AnswersType
    <3>2. nodeFilter' \in Filter
      BY <1>2, <1>3, <2>3, BlockTxsType, GrownType
    <3> QED
      BY <1>1, <2>3, <3>1, <3>2, ConcatFacts
  <2> QED
    BY <1>4, <2>1, <2>2, <2>3
<1>6. UNCHANGED <<managerVars, queue, status, messageVars, loop, height, told, historyVars>>
  BY DEF NodeAnswers
<1>7. MessagesTypeOK'
  BY <1>5, <1>6 DEF Typed, MessagesTypeOK, managerVars, messageVars, historyVars
<1>8. Queues' /\ Stages'
  BY <1>1, <1>5, <1>6 DEF Typed, Queues, Stages, Connected, managerVars
<1> QED
  BY <1>7, <1>8 DEF Typed

LEMMA AnnouncedTyped ==
  ASSUME Typed, Mine \/ \E t \in Tx : Announce(t)
  PROVE  Typed'
<1>1. wire \in Seq(WireMessage) /\ height \in FirstHeight..Length /\ FirstHeight \in Nat /\ Length \in Nat
  BY MessageAssumption DEF Typed, Queues, MessagesTypeOK
<1>2. CASE Mine
  <2>1. height' \in FirstHeight..Length /\ height' \in Block
    <3>1. height < Length /\ height' = height + 1
      BY <1>2, Zenon DEF Mine
    <3> QED
      BY <1>1, <3>1 DEF Block
  <2>2. Inv(<<>>, <<height'>>) \in WireMessage
    <3>1. <<>> \in Seq(Tx) /\ <<height'>> \in Seq(Block)
      BY <2>1
    <3> QED
      BY <3>1, MessageTypes
  <2>3. Append(wire, Inv(<<>>, <<height'>>)) \in Seq(WireMessage)
    BY <1>1, <2>2
  <2>4. wire' \in Seq(WireMessage) /\ (status # "connected" => status = "disconnected" /\ wire' = wire)
    BY <1>1, <1>2, <2>3 DEF Mine, Connected
  <2>5. UNCHANGED <<managerVars, queue, status, messageVars, loop, out, nodeFilter, told, historyVars>>
    BY <1>2 DEF Mine
  <2>6. MessagesTypeOK'
    BY <2>1, <2>5 DEF Typed, MessagesTypeOK, managerVars, messageVars, historyVars
  <2>7. Queues' /\ Stages'
    BY <2>4, <2>5 DEF Typed, Queues, Stages, Connected, managerVars
  <2> QED
    BY <2>6, <2>7 DEF Typed
<1>3. ASSUME NEW t \in Tx, Announce(t) PROVE Typed'
  <2>1. Connected /\ nodeFilter \in Filter
    BY <1>3 DEF Announce, Typed, MessagesTypeOK
  <2>2. told' \in SUBSET Tx /\ nodeFilter' \in Filter
    <3>1. told' = told \cup {t} /\ nodeFilter' = Grown(nodeFilter, {t}) /\ told \in SUBSET Tx
      BY <1>3 DEF Announce, Typed, MessagesTypeOK
    <3> QED
      BY <2>1, <3>1, GrownType
  <2>3. Inv(<<t>>, <<>>) \in WireMessage
    <3>1. <<t>> \in Seq(Tx) /\ <<>> \in Seq(Block)
      OBVIOUS
    <3> QED
      BY <3>1, MessageTypes
  <2>4. wire' \in Seq(WireMessage)
    BY <1>1, <1>3, <2>3, AppendFacts DEF Announce
  <2>5. UNCHANGED <<managerVars, queue, status, messageVars, loop, out, height, historyVars>>
    BY <1>3 DEF Announce
  <2>6. MessagesTypeOK'
    BY <2>2, <2>5 DEF Typed, MessagesTypeOK, managerVars, messageVars, historyVars
  <2>7. Queues' /\ Stages'
    BY <2>1, <2>2, <2>4, <2>5 DEF Typed, Queues, Stages, Connected, managerVars
  <2> QED
    BY <2>6, <2>7 DEF Typed
<1> QED
  BY <1>2, <1>3

LEMMA SendTyped ==
  ASSUME Typed, Send
  PROVE  Typed'
<1>1. /\ loop \in Seq(LoopMessage) /\ loop # <<>> /\ loop' = Tail(loop) /\ loop' \in Seq(LoopMessage)
      /\ Head(loop) \in OutMessage /\ out \in Seq(OutMessage) /\ out' = Append(out, Head(loop)) /\ Connected
  BY TailFacts, LoopTypes DEF Typed, Queues, Stages, Send
<1>2. out' \in Seq(OutMessage) /\ out' # <<>> /\ Head(out') = IF out = <<>> THEN Head(loop) ELSE Head(out)
  <2> DEFINE h == Head(loop)
  <2>1. h \in OutMessage /\ out' = Append(out, h)
    BY <1>1
  <2> HIDE DEF h
  <2>2. out' \in Seq(OutMessage) /\ out' # <<>> /\ Head(out') = IF out = <<>> THEN h ELSE Head(out)
    BY <1>1, <2>1
  <2> QED
    BY <2>2 DEF h
<1>3. UNCHANGED <<managerVars, queue, status, messageVars, wire, nodeVars, historyVars>>
  BY DEF Send
<1>4. MessagesTypeOK'
  BY <1>3 DEF Typed, MessagesTypeOK, managerVars, messageVars, nodeVars, historyVars
<1>5. Queues'
  BY <1>1, <1>2, <1>3 DEF Typed, Queues
<1>6. Stages'
  BY <1>1, <1>2, <1>3 DEF Typed, Stages, Connected, managerVars, nodeVars
<1> QED
  BY <1>4, <1>5, <1>6 DEF Typed

\* Where the block b is among the hashes kept.
LEMMA RestFacts ==
  ASSUME NEW b \in ToSet(blockHashes), blockHashes \in Seq(Block)
  PROVE  \E i \in 1..Len(blockHashes) :
           /\ blockHashes[i] = b
           /\ SelectInSeq(blockHashes, LAMBDA x : x = b) = i
           /\ SubSeq(blockHashes, i, Len(blockHashes)) \in Seq(Block)
           /\ Len(SubSeq(blockHashes, i, Len(blockHashes))) = Len(blockHashes) - i + 1
           /\ \A j \in 1..(Len(blockHashes) - i + 1) :
                SubSeq(blockHashes, i, Len(blockHashes))[j] = blockHashes[i + j - 1]
<1> DEFINE I == {i \in 1..Len(blockHashes) : blockHashes[i] = b}
<1>1. Len(blockHashes) \in Nat /\ \A i \in 1..Len(blockHashes) : blockHashes[i] \in Block
  OBVIOUS
<1>2. I # {} /\ I \in SUBSET Nat
  BY <1>1 DEF ToSet
<1>3. SelectInSeq(blockHashes, LAMBDA x : x = b) = IF I # {} THEN Min(I) ELSE 0
  BY DEF SelectInSeq
<1>4. \A i \in I : i \in 1..Len(blockHashes) /\ blockHashes[i] = b
  OBVIOUS
<1> HIDE DEF I
<1> DEFINE m == Min(I)
<1>5. m \in I
  <2>1. \E i \in I : \A j \in I : i <= j
    BY <1>2, LeastOf
  <2> QED
    BY <2>1 DEF Min
<1>6. m \in 1..Len(blockHashes) /\ blockHashes[m] = b /\ SelectInSeq(blockHashes, LAMBDA x : x = b) = m
  BY <1>2, <1>3, <1>4, <1>5
<1> HIDE DEF m
<1>7. /\ SubSeq(blockHashes, m, Len(blockHashes)) \in Seq(Block)
      /\ Len(SubSeq(blockHashes, m, Len(blockHashes))) = Len(blockHashes) - m + 1
      /\ \A j \in 1..(Len(blockHashes) - m + 1) :
           SubSeq(blockHashes, m, Len(blockHashes))[j] = blockHashes[m + j - 1]
  <2>1. \A i \in m..Len(blockHashes) : blockHashes[i] \in Block
    BY <1>1, <1>6
  <2> QED
    BY <1>1, <1>6, <2>1, SubSeqProperties
<1> QED
  BY <1>6, <1>7

LEMMA RequestAgainTyped ==
  ASSUME Typed, RequestAgain
  PROVE  Typed'
<1> DEFINE b == Head(loop).from
           rest == SubSeq(blockHashes, SelectInSeq(blockHashes, LAMBDA x : x = b), Len(blockHashes))
<1>1. /\ loop \in Seq(LoopMessage) /\ loop # <<>> /\ Tail(loop) \in Seq(LoopMessage) /\ Connected
      /\ Head(loop).type = "rerequest" /\ bloomFilter \in Filter
      /\ blockHashes \in Seq(Block) /\ Len(blockHashes) <= MaxHashes
  BY TailFacts DEF Typed, Queues, Stages, RequestAgain, MessagesTypeOK
<1>2. \/ /\ b \in ToSet(blockHashes) /\ blockHashes' = rest
         /\ SendGetData(Tail(loop), <<>>, rest) /\ UNCHANGED skipped
      \/ /\ loop' = Tail(loop) /\ skipped' = TRUE /\ UNCHANGED <<blockHashes, requested, filterBlockCount>>
  BY DEF RequestAgain
<1>3. UNCHANGED <<managerVars, queue, status, current, knownTx, out, wire, nodeVars, blamed, drops>>
  BY DEF RequestAgain
<1>4. ASSUME b \in ToSet(blockHashes) PROVE rest \in Seq(Block) /\ Len(rest) <= MaxHashes
  <2>1. Len(blockHashes) \in Nat /\ MaxHashes \in Nat
    BY <1>1, MessageAssumption
  <2> HIDE DEF b
  <2>2. PICK i \in 1..Len(blockHashes) :
          /\ SelectInSeq(blockHashes, LAMBDA x : x = b) = i
          /\ SubSeq(blockHashes, i, Len(blockHashes)) \in Seq(Block)
          /\ Len(SubSeq(blockHashes, i, Len(blockHashes))) = Len(blockHashes) - i + 1
    BY <1>1, <1>4, RestFacts
  <2>3. rest = SubSeq(blockHashes, i, Len(blockHashes))
    BY <2>2, Zenon
  <2>4. Len(rest) = Len(blockHashes) - i + 1
    BY <2>2, <2>3, Zenon
  <2>5. rest \in Seq(Block)
    BY <2>2, <2>3, Zenon
  <2> HIDE DEF rest
  <2> QED
    BY <1>1, <2>1, <2>4, <2>5
<1> HIDE DEF b, rest
<1>5. /\ blockHashes' \in Seq(Block) /\ Len(blockHashes') <= MaxHashes /\ requested' \in [Block -> Nat]
      /\ filterBlockCount' \in Nat /\ loop' \in Seq(LoopMessage)
  <2>1. <<>> \in Seq(Tx)
    OBVIOUS
  <2>2. CASE b \in ToSet(blockHashes) /\ blockHashes' = rest /\ SendGetData(Tail(loop), <<>>, rest)
    BY <1>1, <1>4, <2>1, <2>2, SendGetDataTypes
  <2>3. CASE loop' = Tail(loop) /\ UNCHANGED <<blockHashes, requested, filterBlockCount>>
    BY <1>1, <2>3 DEF Typed, MessagesTypeOK
  <2> QED
    BY <1>2, <2>2, <2>3
<1>6. skipped' \in BOOLEAN
  BY <1>2 DEF Typed, MessagesTypeOK
<1>7. MessagesTypeOK'
  BY <1>3, <1>5, <1>6 DEF Typed, MessagesTypeOK, managerVars, nodeVars
<1>8. Queues'
  BY <1>3, <1>5 DEF Typed, Queues
<1>9. Stages'
  BY <1>1, <1>3 DEF Typed, Stages, Connected, managerVars, nodeVars
<1> QED
  BY <1>7, <1>8, <1>9 DEF Typed

\* What acceptInvMessage: makes of an announcement.
LEMMA AcceptInvFacts ==
  ASSUME Typed, AcceptInv
  PROVE  LET m == Head(wire)
             txs == Those(m.txs, Tx \ knownTx)
             bs == Those(m.blocks, Block \ ToSet(blockHashes))
             full == IF Len(m.blocks) >= MaxInv THEN <<GetBlocks(m.blocks[Len(m.blocks)])>> ELSE <<>>
         IN  /\ m \in WireMessage /\ m.type = "inv" /\ m.txs \in Seq(Tx) /\ m.blocks \in Seq(Block)
             /\ wire # <<>> /\ wire' = Tail(wire) /\ wire' \in Seq(WireMessage) /\ current = None /\ Connected
             /\ txs \in Seq(Tx) /\ knownTx' = knownTx \cup ToSet(m.txs)
             /\ full \in Seq(LoopMessage) /\ loop \o full \in Seq(LoopMessage)
             /\ \/ txs = <<>> /\ m.blocks = <<>> /\ loop' = loop \o full /\ UNCHANGED <<requested, filterBlockCount>>
                \/ SendGetData(loop \o full, txs, m.blocks)
             /\ bs \in Seq(Block) /\ blockHashes' = Remembered(blockHashes \o bs)
<1> DEFINE m == Head(wire)
           txs == Those(m.txs, Tx \ knownTx)
           bs == Those(m.blocks, Block \ ToSet(blockHashes))
           full == IF Len(m.blocks) >= MaxInv THEN <<GetBlocks(m.blocks[Len(m.blocks)])>> ELSE <<>>
<1>1. /\ wire \in Seq(WireMessage) /\ wire # <<>> /\ m.type = "inv" /\ wire' = Tail(wire) /\ current = None
      /\ Connected
  BY DEF Typed, Queues, AcceptInv, Accept
<1>2. /\ knownTx' = knownTx \cup ToSet(txs)
      /\ \/ txs = <<>> /\ m.blocks = <<>> /\ loop' = loop \o full /\ UNCHANGED <<requested, filterBlockCount>>
         \/ SendGetData(loop \o full, txs, m.blocks)
      /\ blockHashes' = Remembered(blockHashes \o bs)
  BY DEF AcceptInv
<1>3. m \in WireMessage /\ wire' \in Seq(WireMessage)
  BY <1>1, TailFacts
<1> HIDE DEF m
<1>4. m.txs \in Seq(Tx) /\ m.blocks \in Seq(Block)
  BY <1>1, <1>3, WireTypes
<1>5. txs \in Seq(Tx) /\ ToSet(txs) = ToSet(m.txs) \cap (Tx \ knownTx) /\ bs \in Seq(Block)
  BY <1>4, ThoseFacts
<1>6. ToSet(m.txs) \in SUBSET Tx
  BY <1>4, RangeType
<1>7. full \in Seq(LoopMessage)
  <2>1. ASSUME Len(m.blocks) >= MaxInv PROVE GetBlocks(m.blocks[Len(m.blocks)]) \in LoopMessage
    <3>1. Len(m.blocks) \in 1..Len(m.blocks)
      BY <1>4, <2>1, MessageAssumption
    <3>2. m.blocks[Len(m.blocks)] \in Block
      BY <1>4, <3>1, ElementOfSeq
    <3>3. \A b \in Block : b \in 0..Length
      BY MessageAssumption DEF Block
    <3>4. m.blocks[Len(m.blocks)] \in 0..Length
      BY <3>2, <3>3, Zenon
    <3> QED
      BY <3>4, MessageTypes, OutIsLoop
  <2> QED
    BY <2>1
<1> HIDE DEF txs, bs, full
<1>8. loop \o full \in Seq(LoopMessage)
  BY <1>7, ConcatFacts DEF Typed, Queues
<1>9. knownTx' = knownTx \cup ToSet(m.txs)
  BY <1>2, <1>5, <1>6
<1> QED
  BY <1>1, <1>2, <1>3, <1>4, <1>5, <1>7, <1>8, <1>9 DEF m, txs, bs, full

LEMMA AcceptInvTyped ==
  ASSUME Typed, AcceptInv
  PROVE  Typed'
<1> DEFINE m == Head(wire)
           txs == Those(m.txs, Tx \ knownTx)
           bs == Those(m.blocks, Block \ ToSet(blockHashes))
           full == IF Len(m.blocks) >= MaxInv THEN <<GetBlocks(m.blocks[Len(m.blocks)])>> ELSE <<>>
<1>1. /\ m.txs \in Seq(Tx) /\ m.blocks \in Seq(Block) /\ wire' \in Seq(WireMessage) /\ Connected
      /\ txs \in Seq(Tx) /\ knownTx' = knownTx \cup ToSet(m.txs)
      /\ full \in Seq(LoopMessage) /\ loop \o full \in Seq(LoopMessage)
      /\ \/ loop' = loop \o full /\ UNCHANGED <<requested, filterBlockCount>>
         \/ SendGetData(loop \o full, txs, m.blocks)
      /\ bs \in Seq(Block) /\ blockHashes' = Remembered(blockHashes \o bs)
  BY AcceptInvFacts
<1> HIDE DEF m, txs, bs, full
<1>2. UNCHANGED <<managerVars, queue, status, current, out, nodeVars, historyVars>>
  BY DEF AcceptInv
<1>3. bloomFilter \in Filter /\ loop \in Seq(LoopMessage) /\ blockHashes \in Seq(Block) /\ knownTx \in SUBSET Tx
  BY <1>1 DEF Typed, Stages, Queues, MessagesTypeOK
<1>4. blockHashes' \in Seq(Block) /\ Len(blockHashes') <= MaxHashes
  BY <1>1, <1>3, RememberedFacts, ConcatFacts
<1>5. /\ requested' \in [Block -> Nat] /\ filterBlockCount' \in Nat /\ loop' \in Seq(LoopMessage)
      /\ loop # <<>> => loop' # <<>> /\ Head(loop') = Head(loop)
  <2>1. loop # <<>> => loop \o full # <<>> /\ Head(loop \o full) = Head(loop)
    BY <1>1, <1>3, ConcatFacts
  <2>2. CASE loop' = loop \o full /\ UNCHANGED <<requested, filterBlockCount>>
    BY <1>1, <2>1, <2>2 DEF Typed, MessagesTypeOK
  <2>3. CASE SendGetData(loop \o full, txs, m.blocks)
    <3> DEFINE before == loop \o full
    <3> HIDE DEF before
    <3>1. before \in Seq(LoopMessage) /\ SendGetData(before, txs, m.blocks)
      BY <1>1, <2>3 DEF before
    <3>2. /\ requested' \in [Block -> Nat] /\ filterBlockCount' \in Nat
          /\ Request(txs, m.blocks) \in Seq(LoopMessage)
          /\ loop' = before \o Request(txs, m.blocks) /\ loop' \in Seq(LoopMessage)
      BY <1>1, <1>3, <3>1, SendGetDataTypes
    <3>3. before # <<>> => loop' # <<>> /\ Head(loop') = Head(before)
      BY <3>1, <3>2, ConcatFacts
    <3> QED
      BY <2>1, <3>2, <3>3 DEF before
  <2> QED
    BY <1>1, <2>2, <2>3
<1>6. knownTx' \in SUBSET Tx
  BY <1>1, <1>3, RangeType
<1>7. MessagesTypeOK'
  BY <1>2, <1>4, <1>5, <1>6 DEF Typed, MessagesTypeOK, managerVars, nodeVars, historyVars
<1>8. Queues'
  BY <1>1, <1>2, <1>5 DEF Typed, Queues
<1>9. Stages'
  BY <1>1, <1>2, <1>5 DEF Typed, Stages, Connected, managerVars, nodeVars
<1> QED
  BY <1>7, <1>8, <1>9 DEF Typed

\* What a step of the run loop that takes a message leaves of the types.
LEMMA AcceptMerkleblockFacts ==
  ASSUME Typed, AcceptMerkleblock
  PROVE  LET m == Head(wire)
             n == requested[m.block]
             missing == m.matched \ knownTx
         IN  /\ m \in WireMessage /\ m.type = "merkleblock" /\ m.block \in Block /\ m.matched \in SUBSET Tx
             /\ wire # <<>> /\ wire' = Tail(wire) /\ wire' \in Seq(WireMessage) /\ current = None /\ Connected
             /\ n \in Nat /\ requested' = [requested EXCEPT ![m.block] = IF n = 0 THEN 0 ELSE n - 1]
             /\ \/ n > 1 /\ current' = None /\ queue' = queue
                \/ /\ n \in 0..1 /\ missing # {} /\ queue' = queue
                   /\ current' = [block |-> m.block, txs |-> m.matched, missing |-> missing]
                   /\ current' \in Waiting
                \/ /\ n \in 0..1 /\ missing = {} /\ current' = None
                   /\ queue' = Append(queue, BlockCallback(m.block, m.matched))
<1> DEFINE m == Head(wire)
           n == requested[m.block]
           missing == m.matched \ knownTx
<1>1. /\ wire \in Seq(WireMessage) /\ wire # <<>> /\ m.type = "merkleblock" /\ wire' = Tail(wire)
      /\ current = None /\ Connected /\ requested \in [Block -> Nat]
  BY DEF Typed, Queues, MessagesTypeOK, AcceptMerkleblock, Accept
<1>2. /\ requested' = [requested EXCEPT ![m.block] = IF n = 0 THEN 0 ELSE n - 1]
      /\ \/ Superseded(n) /\ UNCHANGED <<current, queue>>
         \/ /\ ~Superseded(n) /\ missing # {} /\ queue' = queue
            /\ current' = [block |-> m.block, txs |-> m.matched, missing |-> missing]
         \/ /\ ~Superseded(n) /\ missing = {} /\ current' = current
            /\ queue' = Append(queue, BlockCallback(m.block, m.matched))
  BY DEF AcceptMerkleblock, Missing
<1>3. m \in WireMessage /\ wire' \in Seq(WireMessage)
  BY <1>1, TailFacts
<1> HIDE DEF m
<1>4. m.block \in Block /\ m.matched \in SUBSET Tx
  BY <1>1, <1>3, WireTypes
<1>5. n \in Nat
  BY <1>1, <1>4
<1>6. missing # {} => [block |-> m.block, txs |-> m.matched, missing |-> missing] \in Waiting
  <2>1. missing \in SUBSET Tx
    BY <1>4
  <2> HIDE DEF missing
  <2> QED
    BY <1>4, <2>1 DEF Waiting
<1> HIDE DEF n, missing
<1>7. (Superseded(n) <=> n > 1) /\ (~Superseded(n) <=> n \in 0..1)
  BY <1>5 DEF Superseded
<1>8. \/ n > 1 /\ current' = None /\ queue' = queue
      \/ /\ n \in 0..1 /\ missing # {} /\ queue' = queue
         /\ current' = [block |-> m.block, txs |-> m.matched, missing |-> missing]
         /\ current' \in Waiting
      \/ /\ n \in 0..1 /\ missing = {} /\ current' = None
         /\ queue' = Append(queue, BlockCallback(m.block, m.matched))
  <2>1. CASE Superseded(n) /\ UNCHANGED <<current, queue>>
    BY <1>1, <1>7, <2>1
  <2>2. CASE /\ ~Superseded(n) /\ missing # {} /\ queue' = queue
             /\ current' = [block |-> m.block, txs |-> m.matched, missing |-> missing]
    BY <1>6, <1>7, <2>2
  <2>3. CASE /\ ~Superseded(n) /\ missing = {} /\ current' = current
             /\ queue' = Append(queue, BlockCallback(m.block, m.matched))
    BY <1>1, <1>7, <2>3
  <2> QED
    BY <1>2, <2>1, <2>2, <2>3
<1> QED
  BY <1>1, <1>2, <1>3, <1>4, <1>5, <1>8 DEF m, n, missing

LEMMA AcceptMerkleblockTyped ==
  ASSUME Typed, AcceptMerkleblock
  PROVE  Typed'
<1> DEFINE m == Head(wire)
           n == requested[m.block]
           missing == m.matched \ knownTx
<1>1. /\ m.block \in Block /\ m.matched \in SUBSET Tx /\ wire' \in Seq(WireMessage) /\ Connected
      /\ n \in Nat /\ requested' = [requested EXCEPT ![m.block] = IF n = 0 THEN 0 ELSE n - 1]
      /\ \/ current' = None /\ queue' = queue
         \/ current' \in Waiting /\ queue' = queue
         \/ current' = None /\ queue' = Append(queue, BlockCallback(m.block, m.matched))
  BY AcceptMerkleblockFacts
<1> HIDE DEF m, n, missing
<1>2. UNCHANGED <<managerVars, status, knownTx, blockHashes, filterBlockCount, loop, out, nodeVars, historyVars>>
  BY DEF AcceptMerkleblock
<1>3. requested' \in [Block -> Nat]
  <2>1. (IF n = 0 THEN 0 ELSE n - 1) \in Nat /\ requested \in [Block -> Nat]
    BY <1>1 DEF Typed, MessagesTypeOK
  <2> QED
    BY <1>1, <2>1
<1>4. queue' \in Seq(CallbackBlock)
  <2>1. BlockCallback(m.block, m.matched) \in CallbackBlock /\ queue \in Seq(CallbackBlock)
    BY <1>1, MessageTypes DEF Typed, Queues
  <2> QED
    BY <1>1, <2>1, AppendFacts
<1>5. current' \in {None} \cup Waiting
  BY <1>1
<1>6. MessagesTypeOK'
  BY <1>2, <1>3, <1>5 DEF Typed, MessagesTypeOK, Waiting, managerVars, nodeVars, historyVars
<1>7. Queues' /\ Stages'
  BY <1>1, <1>2, <1>4 DEF Typed, Queues, Stages, Connected, managerVars, nodeVars
<1> QED
  BY <1>6, <1>7 DEF Typed

LEMMA AcceptTxFacts ==
  ASSUME Typed, AcceptTx
  PROVE  LET t == Head(wire).tx
             relayed == Append(queue, TxCallback(t))
         IN  /\ t \in Tx /\ wire # <<>> /\ Head(wire) = TxMessage(t) /\ Connected
             /\ wire' = Tail(wire) /\ wire' \in Seq(WireMessage) /\ relayed \in Seq(CallbackBlock)
             /\ \/ current = None /\ current' = None /\ queue' = relayed
                \/ /\ current \in Waiting /\ current # None /\ current' \in Waiting /\ queue' = relayed
                   /\ current'.block = current.block /\ current'.missing = current.missing \ {t}
                   /\ current'.txs = current.txs
                \/ /\ current \in Waiting /\ current.missing \subseteq {t} /\ current' = None
                   /\ queue' = Append(relayed, BlockCallback(current.block, current.txs))
<1> DEFINE t == Head(wire).tx
           relayed == Append(queue, TxCallback(t))
<1>1. /\ wire \in Seq(WireMessage) /\ wire # <<>> /\ Head(wire).type = "tx" /\ wire' = Tail(wire)
      /\ Connected /\ queue \in Seq(CallbackBlock) /\ current \in {None} \cup Waiting
  BY DEF Typed, Queues, MessagesTypeOK, Waiting, AcceptTx, Accept
<1>2. \/ current = None /\ queue' = relayed /\ UNCHANGED current
      \/ /\ current # None /\ current.missing \ {t} # {} /\ queue' = relayed
         /\ current' = [current EXCEPT !.missing = current.missing \ {t}]
      \/ /\ current # None /\ current.missing \subseteq {t}
         /\ queue' = Append(relayed, BlockCallback(current.block, current.txs)) /\ current' = None
  BY DEF AcceptTx
<1>3. Head(wire) \in WireMessage /\ wire' \in Seq(WireMessage)
  BY <1>1, TailFacts
<1>4. t \in Tx /\ Head(wire) = TxMessage(t)
  BY <1>1, <1>3, WireTypes
<1> HIDE DEF t
<1>5. TxCallback(t) \in CallbackBlock
  BY <1>4, MessageTypes
<1>6. relayed \in Seq(CallbackBlock)
  BY <1>1, <1>5, AppendFacts
<1> HIDE DEF relayed
<1>7. \/ current = None /\ current' = None /\ queue' = relayed
      \/ /\ current \in Waiting /\ current # None /\ current' \in Waiting /\ queue' = relayed
         /\ current'.block = current.block /\ current'.missing = current.missing \ {t}
         /\ current'.txs = current.txs
      \/ /\ current \in Waiting /\ current.missing \subseteq {t} /\ current' = None
         /\ queue' = Append(relayed, BlockCallback(current.block, current.txs))
  <2>1. CASE current = None /\ queue' = relayed /\ UNCHANGED current
    BY <2>1
  <2>2. CASE /\ current # None /\ current.missing \ {t} # {} /\ queue' = relayed
             /\ current' = [current EXCEPT !.missing = current.missing \ {t}]
    <3>1. current \in Waiting
      BY <1>1, <2>2
    <3>2. /\ current' \in Waiting /\ current'.block = current.block /\ current'.txs = current.txs
          /\ current'.missing = current.missing \ {t}
      BY <2>2, <3>1 DEF Waiting
    <3> QED
      BY <2>2, <3>1, <3>2
  <2>3. CASE /\ current # None /\ current.missing \subseteq {t}
             /\ queue' = Append(relayed, BlockCallback(current.block, current.txs)) /\ current' = None
    BY <1>1, <2>3
  <2> QED
    BY <1>2, <2>1, <2>2, <2>3
<1> QED
  BY <1>1, <1>3, <1>4, <1>6, <1>7 DEF t, relayed

LEMMA AcceptTxTyped ==
  ASSUME Typed, AcceptTx
  PROVE  Typed'
<1> DEFINE relayed == Append(queue, TxCallback(Head(wire).tx))
<1>1. /\ Connected /\ wire' \in Seq(WireMessage) /\ relayed \in Seq(CallbackBlock)
      /\ \/ current' = None /\ queue' = relayed
         \/ current' \in Waiting /\ queue' = relayed
         \/ /\ current \in Waiting /\ current' = None
            /\ queue' = Append(relayed, BlockCallback(current.block, current.txs))
  BY AcceptTxFacts
<1> HIDE DEF relayed
<1>2. UNCHANGED <<managerVars, status, knownTx, blockHashes, requested, filterBlockCount, loop, out, nodeVars, historyVars>>
  BY DEF AcceptTx
<1>3. queue' \in Seq(CallbackBlock)
  <2>1. ASSUME current \in Waiting
        PROVE  Append(relayed, BlockCallback(current.block, current.txs)) \in Seq(CallbackBlock)
    <3>1. current.block \in Block /\ current.txs \in SUBSET Tx
      BY <2>1 DEF Waiting
    <3>2. BlockCallback(current.block, current.txs) \in CallbackBlock
      BY <3>1, MessageTypes
    <3> QED
      BY <1>1, <3>2, AppendFacts
  <2> QED
    BY <1>1, <2>1
<1>4. current' \in {None} \cup Waiting
  BY <1>1
<1>5. MessagesTypeOK'
  BY <1>2, <1>4 DEF Typed, MessagesTypeOK, Waiting, managerVars, nodeVars, historyVars
<1>6. Queues' /\ Stages'
  BY <1>1, <1>2, <1>3 DEF Typed, Queues, Stages, Connected, managerVars, nodeVars
<1> QED
  BY <1>5, <1>6 DEF Typed

LEMMA RelayedTransactionTyped ==
  ASSUME Typed, RelayedTransaction
  PROVE  Typed' /\ (loop' = loop \/ \E f \in Filter : loop' = loop \o <<FilterLoad(f), Rerequest(lastBlock)>>)
<1> DEFINE t == Head(queue).tx
           txs == wallet \cup {t}
           n == WithGapLimit(addresses, txs, Gap)
<1>1. /\ queue # <<>> /\ queue \in Seq(CallbackBlock) /\ Head(queue).type = "tx" /\ queue' = Tail(queue)
      /\ Connected /\ bloomFilter \in Filter /\ loop \in Seq(LoopMessage) /\ lastBlock \in 0..Length
      /\ wallet \in SUBSET Tx /\ addresses \in Nat /\ confirmed \in SUBSET wallet
  BY DEF Typed, Queues, Stages, MessagesTypeOK, RelayedTransaction
<1>2. \/ UNCHANGED <<wallet, addresses, bloomFilter, loop>>
      \/ /\ wallet' = txs /\ addresses' = n /\ UNCHANGED <<bloomFilter, loop>>
      \/ /\ wallet' = txs /\ addresses' = WithGapLimit(n, txs, 2 * Gap) /\ bloomFilter' = NewFilter
         /\ loop' = loop \o <<FilterLoad(bloomFilter'), Rerequest(lastBlock)>>
  BY DEF RelayedTransaction
<1>3. /\ UNCHANGED <<lastBlock, confirmed, status, current, knownTx, blockHashes, requested, out, wire,
                      nodeVars, historyVars>>
      /\ filterBlockCount' \in {filterBlockCount, 0}
  BY DEF RelayedTransaction
<1>4. t \in Tx /\ queue' \in Seq(CallbackBlock)
  BY <1>1, TailFacts, CallbackTypes
<1> HIDE DEF t
<1>5. txs \in SUBSET Tx /\ wallet \subseteq txs
  BY <1>1, <1>4
<1> HIDE DEF txs
<1>6. n \in Nat /\ WithGapLimit(n, txs, 2 * Gap) \in Nat
  <2>1. Gap \in Nat /\ 2 * Gap \in Nat
    BY MessageAssumption
  <2>2. n \in Nat
    BY <1>1, <1>5, <2>1, WithGapLimitType
  <2> HIDE DEF n
  <2> QED
    BY <1>5, <2>1, <2>2, WithGapLimitType
<1> HIDE DEF n
<1>7. /\ wallet' \in SUBSET Tx /\ wallet \subseteq wallet' /\ addresses' \in Nat /\ bloomFilter' \in Filter
      /\ loop' = loop \/ \E f \in Filter : loop' = loop \o <<FilterLoad(f), Rerequest(lastBlock)>>
  <2>1. CASE UNCHANGED <<wallet, addresses, bloomFilter, loop>>
    BY <1>1, <2>1
  <2>2. CASE wallet' = txs /\ addresses' = n /\ UNCHANGED <<bloomFilter, loop>>
    BY <1>1, <1>5, <1>6, <2>2
  <2>3. CASE /\ wallet' = txs /\ addresses' = WithGapLimit(n, txs, 2 * Gap) /\ bloomFilter' = NewFilter
             /\ loop' = loop \o <<FilterLoad(bloomFilter'), Rerequest(lastBlock)>>
    <3>1. wallet' \in SUBSET Tx /\ wallet \subseteq wallet' /\ addresses' \in Nat
      BY <1>5, <1>6, <2>3
    <3>2. bloomFilter' \in Filter
      BY <2>3, <3>1, NewFilterType
    <3> QED
      BY <2>3, <3>1, <3>2
  <2> QED
    BY <1>2, <2>1, <2>2, <2>3
<1>8. loop' \in Seq(LoopMessage) /\ (loop # <<>> => loop' # <<>> /\ Head(loop') = Head(loop))
  <2>1. CASE loop' = loop
    BY <1>1, <2>1
  <2>2. ASSUME NEW f \in Filter, loop' = loop \o <<FilterLoad(f), Rerequest(lastBlock)>>
        PROVE  loop' \in Seq(LoopMessage) /\ (loop # <<>> => loop' # <<>> /\ Head(loop') = Head(loop))
    <3>1. FilterLoad(f) \in LoopMessage /\ Rerequest(lastBlock) \in LoopMessage
      BY <1>1, MessageTypes, OutIsLoop
    <3>2. <<FilterLoad(f), Rerequest(lastBlock)>> \in Seq(LoopMessage)
      BY <3>1
    <3> QED
      BY <1>1, <2>2, <3>2, ConcatFacts
  <2> QED
    BY <1>7, <2>1, <2>2
<1>9. confirmed' \subseteq wallet'
  BY <1>1, <1>3, <1>7
<1>10. MessagesTypeOK'
  BY <1>3, <1>7, <1>9 DEF Typed, MessagesTypeOK, nodeVars, historyVars
<1>11. Queues' /\ Stages'
  BY <1>1, <1>3, <1>4, <1>7, <1>8 DEF Typed, Queues, Stages, Connected, nodeVars
<1> QED
  BY <1>7, <1>10, <1>11 DEF Typed

LEMMA RelayedBlockTyped ==
  ASSUME Typed, RelayedBlock
  PROVE  Typed' /\ Head(queue).block \in Block
<1>1. /\ queue # <<>> /\ queue \in Seq(CallbackBlock) /\ Head(queue).type = "block" /\ queue' = Tail(queue)
      /\ Connected /\ lastBlock \in 0..Length /\ Length \in Nat /\ confirmed \in SUBSET wallet
  BY MessageAssumption DEF Typed, Queues, Stages, MessagesTypeOK, RelayedBlock
<1>2. Head(queue).block \in Block /\ queue' \in Seq(CallbackBlock)
  BY <1>1, TailFacts, CallbackTypes
<1>3. lastBlock' \in 0..Length /\ confirmed' \in SUBSET wallet
  <2> DEFINE b == Head(queue).block
             T == Head(queue).txs
  <2>1. /\ lastBlock' = IF b = lastBlock + 1 THEN b ELSE lastBlock
        /\ confirmed' = IF b <= lastBlock + 1 THEN confirmed \cup (T \cap wallet) ELSE confirmed
    BY DEF RelayedBlock
  <2> HIDE DEF b, T
  <2>2. b \in Block
    BY <1>2 DEF b
  <2> QED
    BY <1>1, <2>1, <2>2 DEF Block
<1>4. UNCHANGED <<wallet, addresses, bloomFilter, status, messageVars, loop, out, wire, nodeVars, historyVars>>
  BY DEF RelayedBlock
<1>5. MessagesTypeOK'
  BY <1>3, <1>4 DEF Typed, MessagesTypeOK, messageVars, nodeVars, historyVars
<1>6. Queues' /\ Stages'
  BY <1>1, <1>2, <1>4 DEF Typed, Queues, Stages, Connected, nodeVars
<1> QED
  BY <1>2, <1>5, <1>6 DEF Typed

LEMMA InitTyped ==
  ASSUME Init
  PROVE  Typed
<1>1. MessagesTypeOK
  <2>1. 0 \in 0..Length /\ FirstHeight \in FirstHeight..Length /\ 0 \in 0..MaxDrops /\ 0 <= MaxHashes
    BY MessageAssumption
  <2>2. [b \in Block |-> 0] \in [Block -> Nat]
    OBVIOUS
  <2>3. blockHashes \in Seq(Block) /\ Len(blockHashes) <= MaxHashes
    BY <2>1 DEF Init
  <2> QED
    BY <2>1, <2>2, <2>3, Zenon DEF Init, MessagesTypeOK
<1>2. Queues /\ Stages
  BY DEF Init, Queues, Stages, Connected
<1> QED
  BY <1>1, <1>2 DEF Typed

LEMMA StutterTyped ==
  ASSUME Typed, UNCHANGED vars
  PROVE  Typed'
<1> USE DEF vars, managerVars, messageVars, nodeVars, historyVars
<1>1. MessagesTypeOK'
  BY DEF Typed, MessagesTypeOK
<1>2. Queues' /\ Stages'
  BY DEF Typed, Queues, Stages, Connected
<1> QED
  BY <1>1, <1>2 DEF Typed

LEMMA NextTyped ==
  ASSUME Typed, [Next]_vars
  PROVE  Typed'
BY NodeTyped, AnnouncedTyped, SendTyped, RequestAgainTyped, AcceptInvTyped, AcceptMerkleblockTyped,
   AcceptTxTyped, ConnectionTyped, HandshakeTyped, RelayedTransactionTyped, RelayedBlockTyped,
   StutterTyped DEF Next

\* The types of PeerMessages: what the peer keeps for a re-request never grows past
\* MAX_GETDATA_HASHES, and its counts of requested blocks never go below zero.
THEOREM MessagesTypeCorrect == Spec => []MessagesTypeOK
<1>1. Init => Typed
  BY InitTyped
<1>2. Typed /\ [Next]_vars => Typed'
  BY NextTyped
<1>3. Typed => MessagesTypeOK
  BY DEF Typed
<1> QED
  BY <1>1, <1>2, <1>3, PTL DEF Spec

----------------------------------------------------------------------------
(***************************************************************************)
(* What an honest node sends.                                              *)
(***************************************************************************)
\* The peer knows t, or learns of it before the message i of w.
ToldBefore(w, i, K, t) ==
  t \in K \/ \E j \in DOMAIN w : j < i /\ w[j].type = "inv" /\ t \in ToSet(w[j].txs)

\* t comes after the message i of w, with nothing but transactions between them.
Comes(w, i, t) ==
  \E k \in DOMAIN w : k > i /\ w[k] = TxMessage(t) /\ \A l \in (i + 1)..k : w[l].type = "tx"

TxAhead(w, S) == \A t \in S : Comes(w, 0, t)

\* Behind every merkleblock come the transactions that it matches and that the peer is
\* not told of.
FollowedIn(w, K) ==
  \A i \in DOMAIN w : w[i].type = "merkleblock" =>
    \A t \in w[i].matched : ToldBefore(w, i, K, t) \/ Comes(w, i, t)

ToldIn(w, K) == \A t \in told : ToldBefore(w, Len(w) + 1, K, t)

Honest ==
  /\ FollowedIn(wire, knownTx) /\ ToldIn(wire, knownTx)
  /\ drops = 0 /\ current # None => TxAhead(wire, current.missing)
  /\ drops = 0 /\ ~Connected => current = None
  /\ HonestWithinConnection

LEMMA ConcatIndexed ==
  ASSUME NEW S, NEW s \in Seq(S), NEW t \in Seq(S)
  PROVE  /\ \A i \in 1..Len(s) : (s \o t)[i] = s[i]
         /\ \A j \in 1..Len(t) : (s \o t)[Len(s) + j] = t[j]
OBVIOUS

LEMMA OneBefore ==
  ASSUME NEW S, NEW x \in S, NEW t \in Seq(S)
  PROVE  /\ Len(<<x>> \o t) = Len(t) + 1 /\ (<<x>> \o t)[1] = x
         /\ \A j \in 1..Len(t) : (<<x>> \o t)[j + 1] = t[j]
OBVIOUS

LEMMA TailIndexed ==
  ASSUME NEW S, NEW w \in Seq(S), w # <<>>
  PROVE  /\ Tail(w) \in Seq(S) /\ Len(Tail(w)) = Len(w) - 1 /\ Len(w) \in Nat \ {0}
         /\ DOMAIN w = 1..Len(w) /\ DOMAIN Tail(w) = 1..(Len(w) - 1)
         /\ \A i \in 1..(Len(w) - 1) : Tail(w)[i] = w[i + 1]
         /\ Head(w) = w[1] /\ Head(w) \in S
OBVIOUS

LEMMA ComesTail ==
  ASSUME NEW S, NEW w \in Seq(S), w # <<>>, NEW i \in Nat, NEW t, Comes(w, i + 1, t)
  PROVE  Comes(Tail(w), i, t)
<1>1. PICK k \in DOMAIN w : k > i + 1 /\ w[k] = TxMessage(t) /\ \A l \in (i + 2)..k : w[l].type = "tx"
  BY DEF Comes
<1>2. k \in 1..Len(w) /\ k - 1 \in 1..(Len(w) - 1) /\ k - 1 > i
  BY <1>1, TailIndexed
<1>3. Tail(w)[k - 1] = TxMessage(t) /\ k - 1 \in DOMAIN Tail(w)
  BY <1>1, <1>2, TailIndexed
<1>4. ASSUME NEW l \in (i + 1)..(k - 1) PROVE Tail(w)[l].type = "tx"
  <2>1. l \in 1..(Len(w) - 1) /\ l + 1 \in (i + 2)..k
    BY <1>2, <1>4
  <2> QED
    BY <1>1, <2>1, TailIndexed
<1> QED
  BY <1>2, <1>3, <1>4 DEF Comes

LEMMA ToldTail ==
  ASSUME NEW S, NEW w \in Seq(S), w # <<>>, NEW i \in Nat, NEW t, NEW K, NEW L,
         ToldBefore(w, i + 1, K, t), K \subseteq L,
         Head(w).type = "inv" => ToSet(Head(w).txs) \subseteq L
  PROVE  ToldBefore(Tail(w), i, L, t)
<1>1. CASE t \in K
  BY <1>1 DEF ToldBefore
<1>2. ASSUME NEW j \in DOMAIN w, j < i + 1, w[j].type = "inv", t \in ToSet(w[j].txs)
      PROVE  ToldBefore(Tail(w), i, L, t)
  <2>1. j \in 1..Len(w)
    BY TailIndexed
  <2>2. CASE j = 1
    <3>1. t \in L
      BY <1>2, <2>2, TailIndexed
    <3> QED
      BY <3>1 DEF ToldBefore
  <2>3. CASE j # 1
    <3>1. j - 1 \in 1..(Len(w) - 1) /\ j - 1 < i /\ (j - 1) + 1 = j
      BY <1>2, <2>1, <2>3
    <3>2. Tail(w)[j - 1] = w[j] /\ j - 1 \in DOMAIN Tail(w)
      BY <3>1, TailIndexed
    <3> QED
      BY <1>2, <3>1, <3>2 DEF ToldBefore
  <2> QED
    BY <2>2, <2>3
<1> QED
  BY <1>1, <1>2 DEF ToldBefore

LEMMA FollowedTail ==
  ASSUME NEW S, NEW w \in Seq(S), w # <<>>, NEW K, NEW L, FollowedIn(w, K), K \subseteq L,
         Head(w).type = "inv" => ToSet(Head(w).txs) \subseteq L
  PROVE  FollowedIn(Tail(w), L)
<1> SUFFICES ASSUME NEW i \in DOMAIN Tail(w), Tail(w)[i].type = "merkleblock", NEW t \in Tail(w)[i].matched
             PROVE  ToldBefore(Tail(w), i, L, t) \/ Comes(Tail(w), i, t)
  BY DEF FollowedIn
<1>1. i \in 1..(Len(w) - 1) /\ i + 1 \in DOMAIN w /\ Tail(w)[i] = w[i + 1] /\ i \in Nat
  BY TailIndexed
<1>2. ToldBefore(w, i + 1, K, t) \/ Comes(w, i + 1, t)
  BY <1>1 DEF FollowedIn
<1> QED
  BY <1>1, <1>2, ToldTail, ComesTail

LEMMA ToldInTail ==
  ASSUME NEW S, NEW w \in Seq(S), w # <<>>, NEW K, NEW L, ToldIn(w, K), K \subseteq L,
         Head(w).type = "inv" => ToSet(Head(w).txs) \subseteq L
  PROVE  ToldIn(Tail(w), L)
<1>1. Len(w) \in Nat /\ Len(Tail(w)) + 1 = Len(w)
  BY TailIndexed
<1>2. ASSUME NEW t \in told PROVE ToldBefore(Tail(w), Len(w), L, t)
  <2>1. ToldBefore(w, Len(w) + 1, K, t)
    BY DEF ToldIn
  <2> QED
    BY <1>1, <2>1, ToldTail
<1> QED
  BY <1>1, <1>2 DEF ToldIn

LEMMA ComesConcat ==
  ASSUME NEW S, NEW w \in Seq(S), NEW a \in Seq(S), NEW i \in Nat, NEW t, Comes(w, i, t)
  PROVE  Comes(w \o a, i, t)
<1>1. PICK k \in DOMAIN w : k > i /\ w[k] = TxMessage(t) /\ \A l \in (i + 1)..k : w[l].type = "tx"
  BY DEF Comes
<1>2. k \in 1..Len(w) /\ \A l \in 1..k : l \in 1..(Len(w) + Len(a)) /\ l <= Len(w)
  BY <1>1, ConcatFacts
<1>3. \A l \in 1..k : (w \o a)[l] = w[l]
  BY <1>2, ConcatFacts
<1>4. k \in DOMAIN (w \o a) /\ \A l \in (i + 1)..k : l \in 1..k
  BY <1>2, ConcatFacts
<1> QED
  BY <1>1, <1>2, <1>3, <1>4 DEF Comes

LEMMA ToldConcat ==
  ASSUME NEW S, NEW w \in Seq(S), NEW a \in Seq(S), NEW i, NEW t, NEW K, ToldBefore(w, i, K, t)
  PROVE  ToldBefore(w \o a, i, K, t)
<1>1. \A j \in DOMAIN w : j \in DOMAIN (w \o a) /\ (w \o a)[j] = w[j]
  BY ConcatFacts
<1> QED
  BY <1>1 DEF ToldBefore

\* More is told of at the end than before.
LEMMA ToldLater ==
  ASSUME NEW S, NEW w \in Seq(S), NEW i \in Nat, i > Len(w), NEW t, NEW K, ToldBefore(w, Len(w) + 1, K, t)
  PROVE  ToldBefore(w, i, K, t)
<1>1. \A j \in DOMAIN w : j < i
  OBVIOUS
<1> QED
  BY <1>1 DEF ToldBefore

LEMMA ToldInConcat ==
  ASSUME NEW S, NEW w \in Seq(S), NEW a \in Seq(S), NEW K, ToldIn(w, K)
  PROVE  ToldIn(w \o a, K)
<1>1. Len(w \o a) + 1 \in Nat /\ Len(w \o a) + 1 > Len(w)
  BY ConcatFacts
<1> DEFINE n == Len(w \o a) + 1
<1> HIDE DEF n
<1>2. ASSUME NEW t \in told PROVE ToldBefore(w \o a, n, K, t)
  <2>1. ToldBefore(w, n, K, t)
    BY <1>1, ToldLater DEF ToldIn, n
  <2> QED
    BY <2>1, ToldConcat
<1> QED
  BY <1>2 DEF ToldIn, n

\* Messages that are no merkleblocks are added.
LEMMA FollowedConcat ==
  ASSUME NEW S, NEW w \in Seq(S), NEW a \in Seq(S), NEW K, FollowedIn(w, K),
         \A i \in DOMAIN a : a[i].type # "merkleblock"
  PROVE  FollowedIn(w \o a, K)
<1> SUFFICES ASSUME NEW i \in DOMAIN (w \o a), (w \o a)[i].type = "merkleblock",
                    NEW t \in (w \o a)[i].matched
             PROVE  ToldBefore(w \o a, i, K, t) \/ Comes(w \o a, i, t)
  BY DEF FollowedIn
<1>1. i \in DOMAIN w /\ (w \o a)[i] = w[i] /\ i \in Nat
  <2>1. i \in 1..(Len(w) + Len(a)) /\ Len(w) \in Nat /\ Len(a) \in Nat
    BY ConcatFacts
  <2>2. CASE i <= Len(w)
    BY <2>1, <2>2, ConcatFacts
  <2>3. CASE ~(i <= Len(w))
    <3>1. i - Len(w) \in 1..Len(a)
      BY <2>1, <2>3
    <3>2. (w \o a)[i] = a[i - Len(w)] /\ i - Len(w) \in DOMAIN a
      BY <2>1, <2>3, <3>1, ConcatFacts
    <3> QED
      BY <3>2
  <2> QED
    BY <2>2, <2>3
<1>2. ToldBefore(w, i, K, t) \/ Comes(w, i, t)
  BY <1>1 DEF FollowedIn
<1> QED
  BY <1>1, <1>2, ToldConcat, ComesConcat

\* The answer for a block is added.
LEMMA FollowedAnswer ==
  ASSUME NEW w \in Seq(WireMessage), NEW K, FollowedIn(w, K), ToldIn(w, K), NEW b \in Block, NEW f
  PROVE  FollowedIn(w \o BlockAnswer(b, f), K)
<1>1. PICK txs \in SUBSET Tx, new \in Seq(Tx) :
        /\ BlockAnswer(b, f) = <<Merkleblock(b, txs)>> \o TxMessages(new)
        /\ txs \ told \subseteq ToSet(new)
  BY BlockAnswerFacts
<1> DEFINE n == Len(w)
           k == Len(new)
           a == BlockAnswer(b, f)
           v == w \o a
<1>2. a \in Seq(WireMessage) /\ n \in Nat /\ k \in Nat
  BY BlockAnswerType
<1>3. /\ Len(a) = k + 1 /\ a[1] = Merkleblock(b, txs)
      /\ \A j \in 1..k : a[j + 1] = TxMessage(new[j])
  <2> DEFINE m == Merkleblock(b, txs)
             rest == TxMessages(new)
  <2>1. /\ m \in WireMessage /\ rest \in Seq(WireMessage) /\ Len(rest) = k
        /\ \A j \in 1..k : rest[j] = TxMessage(new[j])
    BY MessageTypes, TxMessagesType
  <2>2. a = <<m>> \o rest
    BY <1>1
  <2> HIDE DEF m, rest, a, k
  <2>3. /\ Len(<<m>> \o rest) = Len(rest) + 1 /\ (<<m>> \o rest)[1] = m
        /\ \A j \in 1..Len(rest) : (<<m>> \o rest)[j + 1] = rest[j]
    BY <2>1, OneBefore
  <2> QED
    BY <2>1, <2>2, <2>3 DEF m
<1> HIDE DEF a
<1>4. /\ v \in Seq(WireMessage) /\ DOMAIN v = 1..(n + k + 1)
      /\ \A i \in 1..n : v[i] = w[i]
      /\ v[n + 1] = Merkleblock(b, txs)
      /\ \A j \in 1..k : v[n + 1 + j] = TxMessage(new[j])
  <2>1. v \in Seq(WireMessage) /\ DOMAIN v = 1..(Len(w) + Len(a))
    BY <1>2, ConcatFacts
  <2>2. \A i \in 1..n : v[i] = w[i]
    BY <1>2, ConcatIndexed
  <2>3. \A j \in 1..(k + 1) : v[n + j] = a[j]
    BY <1>2, <1>3, ConcatIndexed
  <2>4. v[n + 1] = Merkleblock(b, txs)
    BY <1>2, <1>3, <2>3
  <2>5. ASSUME NEW j \in 1..k PROVE v[n + 1 + j] = TxMessage(new[j])
    <3>1. j + 1 \in 1..(k + 1) /\ n + (j + 1) = n + 1 + j
      BY <1>2
    <3> QED
      BY <1>3, <2>3, <3>1
  <2>6. Len(w) + Len(a) = n + k + 1
    BY <1>2, <1>3
  <2> QED
    BY <2>1, <2>2, <2>4, <2>5, <2>6
<1> SUFFICES ASSUME NEW i \in DOMAIN v, v[i].type = "merkleblock", NEW t \in v[i].matched
             PROVE  ToldBefore(v, i, K, t) \/ Comes(v, i, t)
  BY DEF FollowedIn, a
<1> HIDE DEF n, k, v
<1>5. CASE i \in 1..n
  <2>1. v[i] = w[i] /\ i \in DOMAIN w /\ i \in Nat
    BY <1>4, <1>5 DEF n
  <2>2. ToldBefore(w, i, K, t) \/ Comes(w, i, t)
    BY <2>1 DEF FollowedIn
  <2> QED
    BY <1>2, <2>1, <2>2, ToldConcat, ComesConcat DEF v
<1>6. CASE i = n + 1
  <2>1. t \in txs
    BY <1>4, <1>6 DEF Merkleblock
  <2>2. CASE t \in told
    <3>1. ToldBefore(w, n + 1, K, t)
      BY <2>2 DEF ToldIn, n
    <3> QED
      BY <1>2, <1>6, <3>1, ToldConcat DEF v
  <2>3. CASE t \notin told
    <3>1. PICK j \in 1..k : new[j] = t
      <4>1. t \in ToSet(new)
        BY <1>1, <2>1, <2>3
      <4> QED
        BY <4>1 DEF ToSet, k
    <3>2. n + 1 + j \in DOMAIN v /\ n + 1 + j > i /\ v[n + 1 + j] = TxMessage(t)
      BY <1>2, <1>4, <1>6, <3>1
    <3>3. ASSUME NEW l \in (i + 1)..(n + 1 + j) PROVE v[l].type = "tx"
      <4>1. l - (n + 1) \in 1..k /\ n + 1 + (l - (n + 1)) = l
        BY <1>2, <1>6, <3>3
      <4>2. v[l] = TxMessage(new[l - (n + 1)])
        BY <1>4, <4>1
      <4> QED
        BY <4>2 DEF TxMessage
    <3>4. Comes(v, i, t)
      BY <3>2, <3>3 DEF Comes
    <3> QED
      BY <3>4
  <2> QED
    BY <2>2, <2>3
<1>7. CASE i \notin 1..n /\ i # n + 1
  <2>1. i - (n + 1) \in 1..k /\ n + 1 + (i - (n + 1)) = i
    BY <1>2, <1>4, <1>7
  <2>2. v[i] = TxMessage(new[i - (n + 1)])
    BY <1>4, <2>1
  <2> QED
    BY <2>2 DEF TxMessage
<1> QED
  BY <1>5, <1>6, <1>7

LEMMA FollowedAnswers ==
  ASSUME NEW w \in Seq(WireMessage), NEW K, FollowedIn(w, K), ToldIn(w, K), NEW bs \in Seq(Block)
  PROVE  FollowedIn(w \o Answers(bs), K)
<1>1. PICK g \in [0..Len(bs) -> Seq(WireMessage)] :
        /\ g[0] = <<>> /\ Answers(bs) = g[Len(bs)]
        /\ \A n \in 1..Len(bs) : \E f : g[n] = g[n - 1] \o BlockAnswer(bs[n], f)
  BY AnswersFacts
<1>2. Len(bs) \in Nat /\ \A n \in 1..Len(bs) : bs[n] \in Block
  OBVIOUS
<1> DEFINE P == {n \in 0..Len(bs) : FollowedIn(w \o g[n], K)}
<1>3. 0 \in P
  <2>1. w \o <<>> = w
    BY ConcatEmptySeq
  <2>2. FollowedIn(w \o g[0], K)
    BY <1>1, <2>1
  <2> QED
    BY <1>2, <2>2
<1>4. ASSUME NEW n \in 1..Len(bs), n - 1 \in P PROVE n \in P
  <2>1. PICK f : g[n] = g[n - 1] \o BlockAnswer(bs[n], f)
    BY <1>1
  <2>2. n - 1 \in 0..Len(bs) /\ n \in 0..Len(bs) /\ bs[n] \in Block
    BY <1>2
  <2> DEFINE x == g[n - 1]
             y == BlockAnswer(bs[n], f)
  <2>3. x \in Seq(WireMessage) /\ y \in Seq(WireMessage) /\ FollowedIn(w \o x, K)
    BY <1>4, <2>2, BlockAnswerType
  <2>4. ToldIn(w \o x, K) /\ w \o x \in Seq(WireMessage)
    BY <2>3, ToldInConcat, ConcatFacts
  <2>5. FollowedIn((w \o x) \o y, K)
    <3> DEFINE u == w \o x
    <3>1. u \in Seq(WireMessage) /\ FollowedIn(u, K) /\ ToldIn(u, K)
      BY <2>3, <2>4
    <3> HIDE DEF u
    <3>2. FollowedIn(u \o BlockAnswer(bs[n], f), K)
      BY <2>2, <3>1, FollowedAnswer
    <3> QED
      BY <3>2 DEF u
  <2> HIDE DEF x, y
  <2>6. (w \o x) \o y = w \o (x \o y)
    BY <2>3, ConcatAssociative
  <2>7. g[n] = x \o y
    BY <2>1 DEF x, y
  <2>8. FollowedIn(w \o g[n], K)
    BY <2>5, <2>6, <2>7, Zenon
  <2> QED
    BY <2>2, <2>8
<1>5. P = 0..Len(bs)
  <2>1. P \in SUBSET (0..Len(bs))
    OBVIOUS
  <2> HIDE DEF P
  <2> QED
    BY <1>2, <1>3, <1>4, <2>1, CountingUp
<1>6. Len(bs) \in P
  BY <1>2, <1>5
<1> QED
  BY <1>1, <1>6

LEMMA AppendBack ==
  ASSUME NEW S, NEW s \in Seq(S), NEW x, Append(s, x) \in Seq(S)
  PROVE  x \in S /\ Append(s, x) = s \o <<x>>
<1>1. Append(s, x)[Len(s) + 1] = x /\ Len(s) + 1 \in 1..Len(Append(s, x))
  OBVIOUS
<1>2. x \in S
  BY <1>1, ElementOfSeq
<1> QED
  BY <1>2

\* A message that is no merkleblock is added.
LEMMA FollowedOne ==
  ASSUME NEW S, NEW w \in Seq(S), NEW x \in S, NEW K, FollowedIn(w, K), x.type # "merkleblock"
  PROVE  <<x>> \in Seq(S) /\ FollowedIn(w \o <<x>>, K)
<1>1. <<x>> \in Seq(S) /\ \A i \in DOMAIN <<x>> : <<x>>[i] = x
  OBVIOUS
<1> QED
  BY <1>1, FollowedConcat

LEMMA HonestNode ==
  ASSUME Typed, Honest, NodeAnswers
  PROVE  Honest'
<1> DEFINE m == Head(out)
           n == IF height - m.from < MaxInv THEN height - m.from ELSE MaxInv
           bs == [i \in 1..n |-> m.from + i]
<1>1. /\ wire \in Seq(WireMessage) /\ wire' \in Seq(WireMessage) /\ out \in Seq(OutMessage) /\ out # <<>>
      /\ m \in OutMessage
  BY NodeTyped, TailFacts DEF Typed, Queues, NodeAnswers
<1>2. m.type = "getdata" => m.txs \in Seq(Tx) /\ m.blocks \in Seq(Block)
  BY <1>1, OutIsLoop, LoopTypes
<1>3. \/ wire' = wire
      \/ wire' = Append(wire, Inv(<<>>, bs))
      \/ m.type = "getdata" /\ wire' = wire \o TxMessages(m.txs) \o Answers(m.blocks)
  BY DEF NodeAnswers, TxMessages
<1>4. UNCHANGED <<managerVars, queue, status, messageVars, loop, height, told, historyVars>>
  BY DEF NodeAnswers
<1> HIDE DEF m, n, bs
<1>5. /\ FollowedIn(wire', knownTx) /\ ToldIn(wire', knownTx)
      /\ \E a \in Seq(WireMessage) : wire' = wire \o a
  <2>1. CASE wire' = wire
    BY <1>1, <2>1, ConcatEmptySeq, EmptySeq DEF Honest
  <2>2. CASE wire' = Append(wire, Inv(<<>>, bs))
    <3> DEFINE x == Inv(<<>>, bs)
    <3>1. x.type = "inv" /\ wire' = Append(wire, x)
      BY <2>2 DEF Inv
    <3> HIDE DEF x
    <3>2. x \in WireMessage /\ wire' = wire \o <<x>>
      BY <1>1, <3>1, AppendBack
    <3> QED
      BY <1>1, <3>1, <3>2, FollowedOne, ToldInConcat DEF Honest
  <2>3. CASE m.type = "getdata" /\ wire' = wire \o TxMessages(m.txs) \o Answers(m.blocks)
    <3> DEFINE a == TxMessages(m.txs)
               c == Answers(m.blocks)
               u == wire \o a
    <3>1. a \in Seq(WireMessage) /\ c \in Seq(WireMessage) /\ \A i \in DOMAIN a : a[i].type = "tx"
      BY <1>2, <2>3, TxMessagesType, AnswersType
    <3> HIDE DEF a
    <3>2. u \in Seq(WireMessage) /\ FollowedIn(u, knownTx) /\ ToldIn(u, knownTx)
      <4>1. \A i \in DOMAIN a : a[i].type # "merkleblock"
        BY <3>1
      <4> QED
        BY <1>1, <3>1, <4>1, ConcatFacts, FollowedConcat, ToldInConcat DEF Honest
    <3> HIDE DEF u
    <3>3. FollowedIn(u \o c, knownTx)
      BY <1>2, <2>3, <3>2, FollowedAnswers
    <3> HIDE DEF c
    <3>4. ToldIn(u \o c, knownTx)
      BY <3>1, <3>2, ToldInConcat
    <3>5. wire' = u \o c
      BY <2>3 DEF u, a, c
    <3>6. wire' = wire \o (a \o c) /\ a \o c \in Seq(WireMessage)
      <4>1. (wire \o a) \o c = wire \o (a \o c)
        BY <1>1, <3>1, ConcatAssociative
      <4> QED
        BY <3>1, <3>5, <4>1, ConcatFacts DEF u
    <3> QED
      BY <3>3, <3>4, <3>5, <3>6
  <2> QED
    BY <1>3, <2>1, <2>2, <2>3
<1>6. ASSUME NEW S, TxAhead(wire, S) PROVE TxAhead(wire', S)
  BY <1>1, <1>5, <1>6, ComesConcat DEF TxAhead
<1>7. (drops = 0 /\ current # None => TxAhead(wire', current.missing))
  BY <1>6 DEF Honest
<1>8. /\ knownTx' = knownTx /\ told' = told /\ drops' = drops /\ current' = current /\ status' = status
      /\ blamed' = blamed
  BY <1>4 DEF messageVars, historyVars
<1>9. ToldIn(wire, knownTx)' <=> ToldIn(wire', knownTx)
  BY <1>8 DEF ToldIn
<1> QED
  BY <1>5, <1>7, <1>8, <1>9 DEF Honest, HonestWithinConnection, Connected

LEMMA HonestAnnounced ==
  ASSUME Typed, Honest, Mine \/ \E t \in Tx : Announce(t)
  PROVE  Honest'
<1>1. wire \in Seq(WireMessage) /\ wire' \in Seq(WireMessage)
  BY AnnouncedTyped DEF Typed, Queues
<1>2. UNCHANGED <<current, knownTx, status, drops, blamed>>
  BY DEF Mine, Announce, messageVars, historyVars
<1>3. PICK txs, bs :
        \/ wire' = wire /\ told' = told
        \/ wire' = Append(wire, Inv(txs, bs)) /\ told' \subseteq told \cup ToSet(txs)
  <2>1. CASE Mine
    <3>1. told' \subseteq told \cup ToSet(<<>>)
      BY <2>1 DEF Mine
    <3>2. (wire' = wire /\ told' = told) \/ wire' = Append(wire, Inv(<<>>, <<height'>>))
      BY <2>1 DEF Mine
    <3> QED
      BY <3>1, <3>2
  <2>2. ASSUME NEW t \in Tx, Announce(t)
        PROVE  wire' = Append(wire, Inv(<<t>>, <<>>)) /\ told' \subseteq told \cup ToSet(<<t>>)
    <3>1. t \in ToSet(<<t>>)
      BY DEF ToSet
    <3> QED
      BY <2>2, <3>1 DEF Announce
  <2> QED
    BY <2>1, <2>2
<1>4. CASE wire' = wire /\ told' = told
  BY <1>2, <1>4 DEF Honest, HonestWithinConnection, ToldIn, Connected
<1>5. CASE wire' = Append(wire, Inv(txs, bs)) /\ told' \subseteq told \cup ToSet(txs)
  <2> DEFINE x == Inv(txs, bs)
  <2>1. x.type = "inv" /\ x.txs = txs /\ wire' = Append(wire, x)
    BY <1>5 DEF Inv
  <2> HIDE DEF x
  <2>2. x \in WireMessage /\ wire' = wire \o <<x>>
    BY <1>1, <2>1, AppendBack
  <2>3. FollowedIn(wire', knownTx) /\ <<x>> \in Seq(WireMessage)
    BY <1>1, <2>1, <2>2, FollowedOne DEF Honest
  <2>4. \A t \in told : ToldBefore(wire', Len(wire') + 1, knownTx, t)
    <3>1. ToldIn(wire', knownTx)
      BY <1>1, <2>2, <2>3, ToldInConcat DEF Honest
    <3> QED
      BY <3>1 DEF ToldIn
  <2>5. \A t \in ToSet(txs) : ToldBefore(wire', Len(wire') + 1, knownTx, t)
    <3>1. Len(wire) + 1 \in DOMAIN wire' /\ Len(wire) + 1 < Len(wire') + 1 /\ wire'[Len(wire) + 1] = x
      BY <1>1, <2>1
    <3> QED
      BY <2>1, <3>1 DEF ToldBefore
  <2>6. ToldIn(wire, knownTx)'
    BY <1>2, <1>5, <2>4, <2>5 DEF ToldIn
  <2>7. drops = 0 /\ current # None => TxAhead(wire', current.missing)
    BY <1>1, <2>2, <2>3, ComesConcat DEF Honest, TxAhead
  <2> QED
    BY <1>2, <2>3, <2>6, <2>7 DEF Honest, HonestWithinConnection, Connected
<1> QED
  BY <1>3, <1>4, <1>5

LEMMA HonestInv ==
  ASSUME Typed, Honest, AcceptInv
  PROVE  Honest'
<1> DEFINE m == Head(wire)
<1>1. /\ m.type = "inv" /\ wire # <<>> /\ wire' = Tail(wire) /\ current = None /\ Connected
      /\ knownTx' = knownTx \cup ToSet(m.txs)
  BY AcceptInvFacts
<1>2. wire \in Seq(WireMessage)
  BY DEF Typed, Queues
<1>3. UNCHANGED <<current, status, told, drops, blamed>>
  BY DEF AcceptInv, nodeVars, historyVars
<1>4. FollowedIn(wire', knownTx') /\ ToldIn(wire', knownTx')
  BY <1>1, <1>2, FollowedTail, ToldInTail DEF Honest
<1>5. ToldIn(wire, knownTx)'
  BY <1>3, <1>4 DEF ToldIn
<1> QED
  BY <1>1, <1>3, <1>4, <1>5 DEF Honest, HonestWithinConnection, Connected

LEMMA HonestMerkleblock ==
  ASSUME Typed, Honest, AcceptMerkleblock
  PROVE  Honest'
<1> DEFINE m == Head(wire)
           missing == m.matched \ knownTx
<1>1. /\ m \in WireMessage /\ m.type = "merkleblock" /\ wire # <<>> /\ wire' = Tail(wire)
      /\ Connected
      /\ \/ current' = None
         \/ current' = [block |-> m.block, txs |-> m.matched, missing |-> missing]
  BY AcceptMerkleblockFacts
<1>2. wire \in Seq(WireMessage)
  BY DEF Typed, Queues
<1>3. UNCHANGED <<knownTx, status, told, drops, blamed>>
  BY DEF AcceptMerkleblock, nodeVars, historyVars
<1>4. FollowedIn(wire', knownTx) /\ ToldIn(wire', knownTx)
  BY <1>1, <1>2, FollowedTail, ToldInTail DEF Honest
<1>5. TxAhead(wire', missing)
  <2>1. ASSUME NEW t \in missing PROVE Comes(wire', 0, t)
    <3>1. wire[1] = m /\ 1 \in DOMAIN wire
      BY <1>1, <1>2, TailIndexed
    <3>2. ToldBefore(wire, 1, knownTx, t) \/ Comes(wire, 1, t)
      BY <1>1, <3>1 DEF Honest, FollowedIn
    <3>3. ~ToldBefore(wire, 1, knownTx, t)
      <4>1. \A j \in DOMAIN wire : ~(j < 1)
        BY <1>2
      <4> QED
        BY <4>1 DEF ToldBefore
    <3>4. Comes(wire, 0 + 1, t)
      BY <3>2, <3>3
    <3> QED
      BY <1>1, <1>2, <3>4, ComesTail
  <2> QED
    BY <2>1 DEF TxAhead
<1> HIDE DEF m, missing
<1>6. current' # None => TxAhead(wire', current'.missing)
  BY <1>1, <1>5
<1>7. ToldIn(wire, knownTx)'
  BY <1>3, <1>4 DEF ToldIn
<1> QED
  BY <1>1, <1>3, <1>4, <1>6, <1>7 DEF Honest, HonestWithinConnection, Connected

LEMMA HonestTx ==
  ASSUME Typed, Honest, AcceptTx
  PROVE  Honest'
<1> DEFINE t == Head(wire).tx
<1>1. /\ wire # <<>> /\ Head(wire) = TxMessage(t) /\ Connected /\ wire' = Tail(wire)
      /\ \/ current' = None
         \/ current # None /\ current'.missing = current.missing \ {t}
  BY AcceptTxFacts
<1>2. wire \in Seq(WireMessage)
  BY DEF Typed, Queues
<1>3. UNCHANGED <<knownTx, status, told, drops, blamed>>
  BY DEF AcceptTx, nodeVars, historyVars
<1>4. FollowedIn(wire', knownTx) /\ ToldIn(wire', knownTx)
  <2>1. Head(wire).type # "inv"
    BY <1>1 DEF TxMessage
  <2> QED
    BY <1>1, <1>2, <2>1, FollowedTail, ToldInTail DEF Honest
<1> HIDE DEF t
<1>5. ASSUME NEW u, u # t, Comes(wire, 0, u) PROVE Comes(wire', 0, u)
  <2>1. Comes(wire, 0 + 1, u)
    <3>1. wire[1] # TxMessage(u)
      BY <1>1, <1>2, <1>5, TailIndexed DEF TxMessage
    <3>2. PICK k \in DOMAIN wire : k > 0 /\ wire[k] = TxMessage(u) /\ \A l \in 1..k : wire[l].type = "tx"
      BY <1>5 DEF Comes
    <3>3. k # 1 /\ k \in Nat
      BY <1>2, <3>1, <3>2
    <3>4. k > 1 /\ \A l \in 2..k : l \in 1..k
      BY <3>2, <3>3
    <3> QED
      BY <3>2, <3>4 DEF Comes
  <2> QED
    BY <1>1, <1>2, <2>1, ComesTail
<1>6. drops = 0 /\ current' # None => TxAhead(wire', current'.missing)
  <2>1. ASSUME drops = 0, current # None, current'.missing = current.missing \ {t}
        PROVE  TxAhead(wire', current'.missing)
    <3>1. \A u \in current.missing : Comes(wire, 0, u)
      BY <2>1 DEF Honest, TxAhead
    <3> QED
      BY <1>5, <2>1, <3>1 DEF TxAhead
  <2> QED
    BY <1>1, <2>1
<1>7. ToldIn(wire, knownTx)'
  BY <1>3, <1>4 DEF ToldIn
<1> QED
  BY <1>1, <1>3, <1>4, <1>6, <1>7 DEF Honest, HonestWithinConnection, Connected

\* An honest node's connection is not found to misbehave: the first message is one of the
\* transactions that are waited for.
LEMMA HonestConnection ==
  ASSUME Typed, Honest, Connect \/ Handshake \/ LoseConnection \/ IncompleteBlock
  PROVE  Honest'
<1>1. CASE Connect
  <2>1. wire' = <<[type |-> "version"]>> /\ ~Connected /\ ~Connected'
    BY <1>1 DEF Connect, Connected
  <2>2. UNCHANGED <<current, told, drops, blamed>> /\ told = {}
    BY <1>1, <2>1 DEF Typed, Stages, Connect, nodeVars, historyVars
  <2>3. FollowedIn(wire', knownTx')
    BY <2>1 DEF FollowedIn
  <2>4. ToldIn(wire, knownTx)'
    BY <2>2 DEF ToldIn
  <2> QED
    BY <2>1, <2>2, <2>3, <2>4 DEF Honest, HonestWithinConnection
<1>2. CASE Handshake
  <2>1. wire' = <<>> /\ Connected' /\ ~Connected /\ current = None
    BY <1>2, HandshakeTyped DEF Handshake, Accept, Connected
  <2>2. UNCHANGED <<current, told, drops, blamed>> /\ told = {}
    BY <1>2, <2>1 DEF Typed, Stages, Handshake, nodeVars, historyVars
  <2>3. FollowedIn(wire', knownTx')
    BY <2>1 DEF FollowedIn
  <2>4. ToldIn(wire, knownTx)'
    BY <2>2 DEF ToldIn
  <2> QED
    BY <2>1, <2>2, <2>3, <2>4 DEF Honest, HonestWithinConnection
<1>3. CASE LoseConnection
  <2>1. wire' = <<>> /\ told' = {} /\ drops' # 0
    <3>1. drops \in Nat /\ drops' = drops + 1
      BY <1>3, MessageAssumption DEF LoseConnection, Typed, MessagesTypeOK
    <3> QED
      BY <1>3, <3>1 DEF LoseConnection
  <2>2. FollowedIn(wire', knownTx')
    BY <2>1 DEF FollowedIn
  <2>3. ToldIn(wire, knownTx)'
    BY <2>1 DEF ToldIn
  <2> QED
    BY <2>1, <2>2, <2>3 DEF Honest, HonestWithinConnection
<1>4. CASE IncompleteBlock
  <2>1. wire' = <<>> /\ told' = {} /\ drops' = drops /\ current' = None
    BY <1>4 DEF IncompleteBlock
  <2>2. FollowedIn(wire', knownTx')
    BY <2>1 DEF FollowedIn
  <2>3. ToldIn(wire, knownTx)'
    BY <2>1 DEF ToldIn
  <2>4. drops # 0
    <3> SUFFICES ASSUME drops = 0 PROVE FALSE
      OBVIOUS
    <3>1. wire # <<>> /\ Head(wire).type # "tx" /\ current # None /\ current \in Waiting /\ wire \in Seq(WireMessage)
      BY <1>4 DEF IncompleteBlock, Typed, Queues, MessagesTypeOK, Waiting
    <3>2. PICK t : t \in current.missing
      BY <3>1 DEF Waiting
    <3>3. PICK k \in DOMAIN wire : k > 0 /\ \A l \in 1..k : wire[l].type = "tx"
      BY <3>1, <3>2 DEF Honest, TxAhead, Comes
    <3>4. 1 \in 1..k
      BY <3>1, <3>3
    <3>5. wire[1].type = "tx" /\ Head(wire) = wire[1]
      BY <3>1, <3>3, <3>4, TailIndexed
    <3> QED
      BY <3>1, <3>5
  <2> QED
    BY <2>1, <2>2, <2>3, <2>4 DEF Honest, HonestWithinConnection
<1> QED
  BY <1>1, <1>2, <1>3, <1>4

LEMMA HonestOtherwise ==
  ASSUME Honest, UNCHANGED <<wire, knownTx, told, current, drops, status, blamed>>
  PROVE  Honest'
BY DEF Honest, ToldIn, HonestWithinConnection, Connected

LEMMA HonestNext ==
  ASSUME Typed, Honest, [Next]_vars
  PROVE  Honest'
<1>1. CASE Send \/ RequestAgain \/ RelayedTransaction \/ RelayedBlock \/ UNCHANGED vars
  <2>1. UNCHANGED <<wire, knownTx, told, current, drops, status, blamed>>
    BY <1>1 DEF Send, RequestAgain, RelayedTransaction, RelayedBlock, vars, messageVars, nodeVars, historyVars
  <2> QED
    BY <2>1, HonestOtherwise
<1>2. CASE ~(Send \/ RequestAgain \/ RelayedTransaction \/ RelayedBlock \/ UNCHANGED vars)
  BY <1>2, HonestNode, HonestAnnounced, HonestInv, HonestMerkleblock, HonestTx, HonestConnection DEF Next
<1> QED
  BY <1>1, <1>2

\* A node that follows the protocol is never taken for one that does not, for as long as
\* its first connection lasts: behind a merkleblock there is every transaction that the
\* peer waits for, whatever was announced, requested again or filtered meanwhile.
THEOREM HonestWithinOneConnection == Spec => []HonestWithinConnection
<1>1. Init => Typed /\ Honest
  <2> SUFFICES ASSUME Init PROVE Honest
    BY InitTyped
  <2>1. wire = <<>> /\ told = {} /\ current = None /\ blamed = FALSE
    BY DEF Init
  <2> QED
    BY <2>1 DEF Honest, FollowedIn, ToldIn, HonestWithinConnection
<1>2. Typed /\ Honest /\ [Next]_vars => Typed' /\ Honest'
  BY NextTyped, HonestNext
<1>3. Honest => HonestWithinConnection
  BY DEF Honest
<1> QED
  BY <1>1, <1>2, <1>3, PTL DEF Spec

----------------------------------------------------------------------------
(***************************************************************************)
(* What is under way, in order.                                            *)
(***************************************************************************)
\* What C has for each element of s, put together.
Gather(C, s) == FlattenSeq([i \in DOMAIN s |-> C[s[i]]])

\* What C may be, for the elements of M.
Parts(M, V) == [M -> Seq(V)]

LEMMA PartType ==
  ASSUME NEW M, NEW V, NEW C \in Parts(M, V), NEW m \in M
  PROVE  C[m] \in Seq(V)
BY DEF Parts

\* g has them put together one by one.
Gathers(g, C, s, V) ==
  /\ g \in [0..Len(s) -> Seq(V)] /\ g[0] = <<>> /\ Gather(C, s) = g[Len(s)]
  /\ \A n \in 1..Len(s) : g[n] = g[n - 1] \o C[s[n]]

LEMMA GatherSteps ==
  ASSUME NEW M, NEW V, NEW C \in Parts(M, V), NEW s \in Seq(M)
  PROVE  \E g : Gathers(g, C, s, V)
<1> DEFINE ss == [i \in DOMAIN s |-> C[s[i]]]
<1>1. DOMAIN s = 1..Len(s) /\ Len(s) \in Nat /\ \A i \in DOMAIN s : C[s[i]] \in Seq(V)
  BY PartType
<1>2. ss \in Seq(Seq(V)) /\ Len(ss) = Len(s) /\ \A n \in 1..Len(s) : ss[n] = C[s[n]]
  BY <1>1
<1>3. Gather(C, s) = FlattenSeq(ss)
  BY DEF Gather
<1> HIDE DEF ss
<1>4. PICK g \in [0..Len(ss) -> Seq(V)] :
        /\ g[0] = <<>> /\ \A n \in 1..Len(ss) : g[n] = g[n - 1] \o ss[n]
        /\ FlattenSeq(ss) = g[Len(ss)]
  BY <1>2, FlattenFacts
<1>5. /\ g[0] = <<>> /\ Gather(C, s) = g[Len(s)] /\ g \in [0..Len(s) -> Seq(V)]
      /\ \A n \in 1..Len(s) : g[n] = g[n - 1] \o C[s[n]]
  BY <1>2, <1>3, <1>4
<1> QED
  BY <1>5 DEF Gathers

LEMMA GatherType ==
  ASSUME NEW M, NEW V, NEW C \in Parts(M, V), NEW s \in Seq(M)
  PROVE  Gather(C, s) \in Seq(V) /\ Gather(C, <<>>) = <<>>
<1>1. PICK g : Gathers(g, C, s, V)
  BY GatherSteps
<1>2. Len(s) \in 0..Len(s) /\ <<>> \in Seq(M) /\ Len(<<>>) = 0
  OBVIOUS
<1>3. PICK h : Gathers(h, C, <<>>, V)
  BY <1>2, GatherSteps
<1>4. Gather(C, s) \in Seq(V)
  BY <1>1, <1>2 DEF Gathers
<1>5. Gather(C, <<>>) = <<>>
  BY <1>2, <1>3 DEF Gathers
<1> QED
  BY <1>4, <1>5

LEMMA GatherConcat ==
  ASSUME NEW M, NEW V, NEW C \in Parts(M, V), NEW s \in Seq(M), NEW t \in Seq(M)
  PROVE  Gather(C, s \o t) = Gather(C, s) \o Gather(C, t)
<1> DEFINE k == Len(s)
           l == Len(t)
           u == s \o t
<1>1. k \in Nat /\ l \in Nat /\ u \in Seq(M) /\ Len(u) = k + l
  BY ConcatFacts
<1>2. (\A i \in 1..k : u[i] = s[i] /\ s[i] \in M) /\ (\A j \in 1..l : u[k + j] = t[j] /\ t[j] \in M)
  BY ConcatIndexed, ElementOfSeq
<1> HIDE DEF u
<1>3. PICK g, gs, gt : Gathers(g, C, u, V) /\ Gathers(gs, C, s, V) /\ Gathers(gt, C, t, V)
  <2>1. (\E g : Gathers(g, C, u, V)) /\ (\E g : Gathers(g, C, s, V)) /\ (\E g : Gathers(g, C, t, V))
    BY <1>1, GatherSteps
  <2> QED
    BY <2>1, Zenon
<1>4. /\ g[0] = <<>> /\ Gather(C, u) = g[k + l] /\ \A n \in 0..(k + l) : g[n] \in Seq(V)
      /\ \A n \in 1..(k + l) : g[n] = g[n - 1] \o C[u[n]]
  BY <1>3, <1>1 DEF Gathers
<1>5. /\ gs[0] = <<>> /\ Gather(C, s) = gs[k] /\ \A n \in 0..k : gs[n] \in Seq(V)
      /\ \A n \in 1..k : gs[n] = gs[n - 1] \o C[s[n]]
  BY <1>3 DEF Gathers
<1>6. /\ gt[0] = <<>> /\ Gather(C, t) = gt[l] /\ \A n \in 0..l : gt[n] \in Seq(V)
      /\ \A n \in 1..l : gt[n] = gt[n - 1] \o C[t[n]]
  BY <1>3 DEF Gathers
<1> HIDE DEF k, l
<1> DEFINE P == {n \in 0..k : g[n] = gs[n]}
           Q == {n \in 0..l : g[k + n] = gs[k] \o gt[n]}
<1>7. P = 0..k
  <2>1. 0 \in P
    BY <1>1, <1>4, <1>5
  <2>2. ASSUME NEW n \in 1..k, n - 1 \in P PROVE n \in P
    <3>1. n \in 0..k /\ n \in 1..(k + l) /\ g[n - 1] = gs[n - 1]
      BY <1>1, <2>2
    <3> QED
      BY <1>2, <1>4, <1>5, <3>1
  <2>3. P \in SUBSET (0..k)
    OBVIOUS
  <2> HIDE DEF P
  <2> QED
    BY <1>1, <2>1, <2>2, <2>3, CountingUp
<1>8. Q = 0..l
  <2>1. 0 \in Q
    <3>1. k \in P /\ k + 0 = k
      BY <1>1, <1>7
    <3>2. g[k] = gs[k] /\ gs[k] \in Seq(V)
      BY <1>1, <1>5, <3>1
    <3>3. gs[k] \o <<>> = gs[k]
      BY <3>2, ConcatEmptySeq
    <3>4. g[k + 0] = gs[k] \o gt[0]
      BY <1>6, <3>1, <3>2, <3>3
    <3>5. 0 \in 0..l
      BY <1>1
    <3> QED
      BY <3>4, <3>5, Zenon
  <2>2. ASSUME NEW n \in 1..l, n - 1 \in Q PROVE n \in Q
    <3>1. n \in 0..l /\ n - 1 \in 0..l /\ k + n \in 1..(k + l) /\ (k + n) - 1 = k + (n - 1)
      BY <1>1, <2>2
    <3>2. g[k + (n - 1)] = gs[k] \o gt[n - 1]
      BY <2>2
    <3>3. g[k + n] = g[k + (n - 1)] \o C[t[n]]
      <4>1. u[k + n] = t[n]
        BY <1>2
      <4>2. g[k + n] = g[(k + n) - 1] \o C[u[k + n]]
        BY <1>4, <3>1, Zenon
      <4> QED
        BY <3>1, <4>1, <4>2, Zenon
    <3>4. gs[k] \in Seq(V) /\ gt[n - 1] \in Seq(V) /\ C[t[n]] \in Seq(V)
      BY <1>1, <1>2, <1>5, <1>6, <3>1, PartType
    <3> DEFINE x == gs[k]
               y == gt[n - 1]
               z == C[t[n]]
    <3>5. g[k + n] = (x \o y) \o z /\ gt[n] = y \o z /\ x \in Seq(V) /\ y \in Seq(V) /\ z \in Seq(V)
      BY <1>6, <3>2, <3>3, <3>4
    <3> HIDE DEF x, y, z
    <3>6. (x \o y) \o z = x \o (y \o z)
      BY <3>5, ConcatAssociative
    <3>7. g[k + n] = x \o gt[n]
      BY <3>5, <3>6, Zenon
    <3> QED
      BY <3>1, <3>7 DEF x
  <2>3. Q \in SUBSET (0..l)
    OBVIOUS
  <2> HIDE DEF Q
  <2> QED
    BY <1>1, <2>1, <2>2, <2>3, CountingUp
<1>9. g[k + l] = gs[k] \o gt[l]
  <2>1. l \in 0..l
    BY <1>1
  <2>2. l \in Q
    BY <1>8, <2>1, Zenon
  <2> QED
    BY <2>2, Zenon
<1> QED
  BY <1>4, <1>5, <1>6, <1>9 DEF u

LEMMA GatherOne ==
  ASSUME NEW M, NEW V, NEW C \in Parts(M, V), NEW m \in M
  PROVE  Gather(C, <<m>>) = C[m]
<1>1. <<m>> \in Seq(M) /\ Len(<<m>>) = 1 /\ <<m>>[1] = m /\ C[m] \in Seq(V) /\ 1 \in 1..1
  BY PartType
<1>2. PICK g : Gathers(g, C, <<m>>, V)
  BY <1>1, GatherSteps
<1>3. /\ g[0] = <<>> /\ Gather(C, <<m>>) = g[1]
      /\ \A n \in 1..1 : g[n] = g[n - 1] \o C[<<m>>[n]]
  BY <1>2, <1>1 DEF Gathers
<1>4. g[1] = <<>> \o C[m]
  <2>1. g[1] = g[1 - 1] \o C[<<m>>[1]]
    BY <1>1, <1>3, Zenon
  <2>2. 1 - 1 = 0
    OBVIOUS
  <2> QED
    BY <1>1, <1>3, <2>1, <2>2, Zenon
<1>5. <<>> \o C[m] = C[m]
  BY <1>1, ConcatEmptySeq
<1> QED
  BY <1>3, <1>4, <1>5

\* The first one, and the rest.
LEMMA GatherTail ==
  ASSUME NEW M, NEW V, NEW C \in Parts(M, V), NEW s \in Seq(M), s # <<>>
  PROVE  Head(s) \in M /\ Gather(C, s) = C[Head(s)] \o Gather(C, Tail(s))
<1>1. Head(s) \in M /\ Tail(s) \in Seq(M) /\ s = <<Head(s)>> \o Tail(s)
  OBVIOUS
<1> DEFINE h == <<Head(s)>>
           t == Tail(s)
<1>2. h \in Seq(M) /\ t \in Seq(M) /\ s = h \o t
  BY <1>1
<1>3. Gather(C, h) = C[Head(s)]
  BY <1>1, GatherOne
<1> HIDE DEF h, t
<1>4. Gather(C, s) = Gather(C, h) \o Gather(C, t)
  BY <1>2, GatherConcat
<1> QED
  BY <1>1, <1>3, <1>4 DEF t

\* Of elements that have nothing.
LEMMA GatherNothing ==
  ASSUME NEW M, NEW V, NEW C \in Parts(M, V), NEW s \in Seq(M), \A i \in DOMAIN s : C[s[i]] = <<>>
  PROVE  Gather(C, s) = <<>>
<1>1. PICK g : Gathers(g, C, s, V)
  BY GatherSteps
<1>2. /\ g[0] = <<>> /\ Gather(C, s) = g[Len(s)]
      /\ \A n \in 1..Len(s) : g[n] = g[n - 1] \o C[s[n]]
  BY <1>1 DEF Gathers
<1>3. Len(s) \in Nat /\ DOMAIN s = 1..Len(s) /\ <<>> \in Seq(V)
  OBVIOUS
<1> DEFINE P == {n \in 0..Len(s) : g[n] = <<>>}
<1>4. 0 \in P
  BY <1>2, <1>3
<1>5. ASSUME NEW n \in 1..Len(s), n - 1 \in P PROVE n \in P
  <2>1. g[n] = <<>> \o <<>>
    BY <1>2, <1>3, <1>5
  <2> QED
    BY <1>3, <2>1, ConcatEmptySeq
<1>6. P = 0..Len(s)
  <2>1. P \in SUBSET (0..Len(s))
    OBVIOUS
  <2> HIDE DEF P
  <2> QED
    BY <1>3, <1>4, <1>5, <2>1, CountingUp
<1>7. Len(s) \in P
  BY <1>3, <1>6
<1> QED
  BY <1>2, <1>7

\* How often b is in s.
Only(b) == [x \in Block |-> IF x = b THEN <<b>> ELSE <<>>]

Count(s, b) == Len(Gather(Only(b), s))

LEMMA OnlyType ==
  ASSUME NEW b \in Block
  PROVE  Only(b) \in Parts(Block, Block)
BY DEF Only, Parts

LEMMA CountConcat ==
  ASSUME NEW b \in Block, NEW s \in Seq(Block), NEW t \in Seq(Block)
  PROVE  Count(s \o t, b) = Count(s, b) + Count(t, b) /\ Count(s, b) \in Nat /\ Count(<<>>, b) = 0
<1> DEFINE x == Gather(Only(b), s)
           y == Gather(Only(b), t)
<1>1. x \in Seq(Block) /\ y \in Seq(Block) /\ Gather(Only(b), <<>>) = <<>>
  BY OnlyType, GatherType
<1>2. Gather(Only(b), s \o t) = x \o y
  BY OnlyType, GatherConcat
<1> HIDE DEF x, y
<1>3. Len(x \o y) = Len(x) + Len(y) /\ Len(x) \in Nat
  BY <1>1, ConcatFacts
<1> QED
  BY <1>1, <1>2, <1>3 DEF Count, x, y

LEMMA CountOne ==
  ASSUME NEW b \in Block, NEW c \in Block
  PROVE  Count(<<c>>, b) = IF c = b THEN 1 ELSE 0
<1>1. Gather(Only(b), <<c>>) = Only(b)[c]
  BY OnlyType, GatherOne
<1>2. Only(b)[c] = IF c = b THEN <<b>> ELSE <<>>
  BY DEF Only
<1>3. Len(<<b>>) = 1 /\ Len(<<>>) = 0
  OBVIOUS
<1>4. Len(Only(b)[c]) = IF c = b THEN 1 ELSE 0
  BY <1>2, <1>3
<1> QED
  BY <1>1, <1>4 DEF Count

LEMMA CountSteps ==
  ASSUME NEW b \in Block, NEW s \in Seq(Block)
  PROVE  \E c : /\ c[0] = 0 /\ Count(s, b) = c[Len(s)] /\ \A n \in 0..Len(s) : c[n] \in Nat
                /\ \A n \in 1..Len(s) : c[n] = c[n - 1] + (IF s[n] = b THEN 1 ELSE 0)
<1>1. PICK g : Gathers(g, Only(b), s, Block)
  BY OnlyType, GatherSteps
<1>2. Len(s) \in Nat /\ \A n \in 1..Len(s) : s[n] \in Block
  OBVIOUS
<1> DEFINE c == [n \in 0..Len(s) |-> Len(g[n])]
<1>3. \A n \in 0..Len(s) : g[n] \in Seq(Block) /\ c[n] = Len(g[n]) /\ c[n] \in Nat
  BY <1>1 DEF Gathers
<1>4. ASSUME NEW n \in 1..Len(s) PROVE c[n] = c[n - 1] + (IF s[n] = b THEN 1 ELSE 0)
  <2>1. n \in 0..Len(s) /\ n - 1 \in 0..Len(s)
    BY <1>2
  <2> DEFINE x == g[n - 1]
             y == Only(b)[s[n]]
  <2>2. g[n] = x \o y
    BY <1>1 DEF Gathers
  <2>3. y = IF s[n] = b THEN <<b>> ELSE <<>>
    BY <1>2 DEF Only
  <2>4. x \in Seq(Block) /\ y \in Seq(Block) /\ Len(y) = IF s[n] = b THEN 1 ELSE 0
    BY <1>3, <2>1, <2>3
  <2>5. c[n] = Len(g[n]) /\ c[n - 1] = Len(x)
    BY <1>3, <2>1
  <2> HIDE DEF c, x, y
  <2>6. Len(x \o y) = Len(x) + Len(y)
    BY <2>4, ConcatFacts
  <2> QED
    BY <2>2, <2>4, <2>5, <2>6
<1>5. c[0] = 0 /\ Count(s, b) = c[Len(s)]
  BY <1>1, <1>2 DEF Gathers, Count
<1> HIDE DEF c
<1> QED
  BY <1>3, <1>4, <1>5

LEMMA CountFacts ==
  ASSUME NEW b \in Block, NEW s \in Seq(Block)
  PROVE  /\ Count(s, b) = 0 <=> b \notin ToSet(s)
         /\ (\A i, j \in DOMAIN s : s[i] = s[j] => i = j) =>
              Count(s, b) = IF b \in ToSet(s) THEN 1 ELSE 0
<1> DEFINE k == Len(s)
           Among(n) == \E i \in 1..n : s[i] = b
           Once == \A i, j \in 1..k : s[i] = s[j] => i = j
<1>1. PICK c : /\ c[0] = 0 /\ Count(s, b) = c[k] /\ \A n \in 0..k : c[n] \in Nat
               /\ \A n \in 1..k : c[n] = c[n - 1] + (IF s[n] = b THEN 1 ELSE 0)
  BY CountSteps
<1>2. k \in Nat /\ DOMAIN s = 1..k /\ (b \in ToSet(s) <=> Among(k))
  BY DEF ToSet
<1> HIDE DEF k
<1> DEFINE P == {n \in 0..k : (c[n] = 0 <=> ~Among(n)) /\ (Once => c[n] = IF Among(n) THEN 1 ELSE 0)}
<1>3. 0 \in P
  BY <1>1, <1>2
<1>4. ASSUME NEW n \in 1..k, n - 1 \in P PROVE n \in P
  <2>1. n \in 0..k /\ n - 1 \in 0..k /\ n \in 1..n /\ c[n - 1] \in Nat
    BY <1>1, <1>2
  <2>2. c[n] = c[n - 1] + (IF s[n] = b THEN 1 ELSE 0)
    BY <1>1
  <2>3. (c[n - 1] = 0 <=> ~Among(n - 1)) /\ (Once => c[n - 1] = IF Among(n - 1) THEN 1 ELSE 0)
    BY <1>4
  <2>4. Among(n) <=> Among(n - 1) \/ s[n] = b
    <3>1. \A i \in 1..n : i = n \/ i \in 1..(n - 1)
      BY <2>1
    <3>2. \A i \in 1..(n - 1) : i \in 1..n
      BY <2>1
    <3> QED
      BY <2>1, <3>1, <3>2
  <2>5. Once /\ s[n] = b => ~Among(n - 1)
    <3>1. \A i \in 1..(n - 1) : i \in 1..k /\ i # n
      BY <1>2
    <3> QED
      BY <3>1
  <2> HIDE DEF Among, Once
  <2>6. c[n] = 0 <=> ~Among(n)
    BY <2>1, <2>2, <2>3, <2>4
  <2>7. Once => c[n] = IF Among(n) THEN 1 ELSE 0
    BY <2>1, <2>2, <2>3, <2>4, <2>5
  <2> QED
    BY <2>1, <2>6, <2>7
<1>5. P = 0..k
  <2>1. P \in SUBSET (0..k)
    OBVIOUS
  <2> HIDE DEF P
  <2> QED
    BY <1>2, <1>3, <1>4, <2>1, CountingUp
<1>6. (c[k] = 0 <=> ~Among(k)) /\ (Once => c[k] = IF Among(k) THEN 1 ELSE 0)
  <2>1. k \in 0..k
    BY <1>2
  <2>2. k \in P
    BY <1>5, <2>1, Zenon
  <2> QED
    BY <2>2, Zenon
<1> HIDE DEF Among
<1> QED
  BY <1>1, <1>2, <1>6

----------------------------------------------------------------------------
(***************************************************************************)
(* The blocks under way: H are those handed to q and F those that are      *)
(* still to come, with the copies of those requested again.  k is the      *)
(* height of the manager's chain.                                          *)
(***************************************************************************)
\* No other copy of the block i of s comes after it.
LastCopy(s, i) == \A j \in DOMAIN s : j > i => s[j] # s[i]

\* Every block handed over extends the chain, or one handed over before it.
InLine(H, k) ==
  \A i \in DOMAIN H : H[i] <= k + 1 \/ \E j \in DOMAIN H : j < i /\ H[j] = H[i] - 1

\* So does the last copy of every block to come; or it extends the last copy of another.
ComesInLine(F, H, k) ==
  \A i \in DOMAIN F : LastCopy(F, i) =>
    \/ F[i] <= k + 1 \/ F[i] - 1 \in ToSet(H)
    \/ \E j \in DOMAIN F : j < i /\ LastCopy(F, j) /\ F[j] = F[i] - 1

\* The blocks of s follow one another up to e.
Consecutive(s, e) == \A i \in DOMAIN s : s[i] = e - Len(s) + i

\* There is a last copy.
LEMMA LastCopyExists ==
  ASSUME NEW s \in Seq(Block), NEW b \in ToSet(s)
  PROVE  \E i \in DOMAIN s : s[i] = b /\ LastCopy(s, i)
<1> DEFINE I == {i \in DOMAIN s : s[i] = b}
<1>1. I \in SUBSET Nat /\ I # {} /\ \A i \in I : i <= Len(s)
  BY DEF ToSet
<1>2. Len(s) \in Nat
  OBVIOUS
<1>3. \A i \in DOMAIN s : s[i] = b <=> i \in I
  OBVIOUS
<1>4. \A i \in I : i \in DOMAIN s
  OBVIOUS
<1> HIDE DEF I
<1>5. PICK m \in I : \A i \in I : i <= m
  BY <1>1, <1>2, GreatestOf
<1>6. ASSUME NEW j \in DOMAIN s, j > m PROVE s[j] # s[m]
  <2>1. m \in Nat /\ j \in Nat
    BY <1>1, <1>5
  <2>2. j \notin I
    BY <1>5, <1>6, <2>1
  <2> QED
    BY <1>3, <1>4, <1>5, <2>2
<1> QED
  BY <1>3, <1>4, <1>5, <1>6 DEF LastCopy

LEMMA LastCopyTail ==
  ASSUME NEW s \in Seq(Block), s # <<>>
  PROVE  \A i \in 1..(Len(s) - 1) : LastCopy(Tail(s), i) <=> LastCopy(s, i + 1)
<1> DEFINE T == Tail(s)
           n == Len(s)
<1>1. /\ n \in Nat \ {0} /\ DOMAIN s = 1..n /\ DOMAIN T = 1..(n - 1)
      /\ \A i \in 1..(n - 1) : T[i] = s[i + 1]
  BY TailIndexed
<1> HIDE DEF T, n
<1>2. ASSUME NEW i \in 1..(n - 1), LastCopy(T, i), NEW j \in 1..n, j > i + 1 PROVE s[j] # s[i + 1]
  <2>1. j - 1 \in 1..(n - 1) /\ j - 1 > i /\ (j - 1) + 1 = j
    BY <1>1, <1>2
  <2>2. T[j - 1] # T[i] /\ T[j - 1] = s[j] /\ T[i] = s[i + 1]
    BY <1>1, <1>2, <2>1 DEF LastCopy
  <2> QED
    BY <2>2
<1>3. ASSUME NEW i \in 1..(n - 1), LastCopy(s, i + 1), NEW j \in 1..(n - 1), j > i PROVE T[j] # T[i]
  <2>1. j + 1 \in 1..n /\ j + 1 > i + 1
    BY <1>1, <1>3
  <2> QED
    BY <1>1, <1>3, <2>1 DEF LastCopy
<1> QED
  BY <1>1, <1>2, <1>3 DEF LastCopy, T, n

\* The first of the copies to come is dropped, when there is another one.
LEMMA CopyDropped ==
  ASSUME NEW F \in Seq(Block), F # <<>>, NEW H \in Seq(Block), NEW k \in Nat,
         ComesInLine(F, H, k), Count(F, F[1]) > 1
  PROVE  ComesInLine(Tail(F), H, k) /\ ToSet(Tail(F)) = ToSet(F)
<1> DEFINE T == Tail(F)
           n == Len(F)
<1>1. /\ n \in Nat \ {0} /\ DOMAIN F = 1..n /\ DOMAIN T = 1..(n - 1) /\ T \in Seq(Block)
      /\ \A i \in 1..(n - 1) : T[i] = F[i + 1]
  BY TailIndexed
<1>2. F[1] \in Block /\ F = <<F[1]>> \o T
  OBVIOUS
<1> HIDE DEF T, n
<1>3. F[1] \in ToSet(T)
  <2> DEFINE b == F[1]
             one == <<b>>
  <2>1. b \in Block /\ one \in Seq(Block) /\ F = one \o T
    BY <1>2
  <2> HIDE DEF b
  <2>2. Count(one, b) = 1
    BY <2>1, CountOne
  <2> HIDE DEF one
  <2>3. Count(F, b) = Count(one, b) + Count(T, b) /\ Count(T, b) \in Nat
    BY <1>1, <2>1, CountConcat
  <2>4. Count(F, b) > 1
    BY DEF b
  <2>5. Count(T, b) # 0
    BY <2>2, <2>3, <2>4
  <2> QED
    BY <1>1, <2>1, <2>5, CountFacts DEF b
<1>4. ToSet(T) = ToSet(F)
  <2>1. \A i \in 1..n : i = 1 \/ (i - 1 \in 1..(n - 1) /\ (i - 1) + 1 = i)
    BY <1>1
  <2>2. \A i \in 1..(n - 1) : i + 1 \in 1..n
    BY <1>1
  <2>3. ToSet(T) = {T[i] : i \in 1..(n - 1)} /\ ToSet(F) = {F[i] : i \in 1..n}
    BY <1>1 DEF ToSet
  <2>4. \A i \in 1..(n - 1) : T[i] \in ToSet(F)
    BY <1>1, <2>2, <2>3
  <2>5. \A i \in 1..n : F[i] \in ToSet(T)
    BY <1>1, <1>3, <2>1, <2>3
  <2> QED
    BY <2>3, <2>4, <2>5
<1>5. ~LastCopy(F, 1)
  <2>1. PICK j \in 1..(n - 1) : T[j] = F[1]
    BY <1>1, <1>3 DEF ToSet
  <2>2. j + 1 \in 1..n /\ j + 1 > 1 /\ F[j + 1] = F[1]
    BY <1>1, <2>1
  <2> QED
    BY <1>1, <2>2 DEF LastCopy
<1>6. \A i \in 1..(n - 1) : LastCopy(T, i) <=> LastCopy(F, i + 1)
  BY <1>1, LastCopyTail DEF T, n
<1>7. ASSUME NEW i \in DOMAIN T, LastCopy(T, i)
      PROVE  \/ T[i] <= k + 1 \/ T[i] - 1 \in ToSet(H)
             \/ \E j \in DOMAIN T : j < i /\ LastCopy(T, j) /\ T[j] = T[i] - 1
  <2>1. i \in 1..(n - 1) /\ i + 1 \in 1..n /\ LastCopy(F, i + 1) /\ T[i] = F[i + 1]
    BY <1>1, <1>6, <1>7
  <2>2. CASE \E j \in DOMAIN F : j < i + 1 /\ LastCopy(F, j) /\ F[j] = F[i + 1] - 1
    <3>1. PICK j \in 1..n : j < i + 1 /\ LastCopy(F, j) /\ F[j] = F[i + 1] - 1
      BY <1>1, <2>2
    <3>2. j # 1
      BY <1>5, <3>1
    <3>3. j - 1 \in 1..(n - 1) /\ j - 1 < i /\ (j - 1) + 1 = j
      BY <1>1, <2>1, <3>1, <3>2
    <3>4. LastCopy(T, j - 1) /\ T[j - 1] = T[i] - 1
      BY <1>1, <1>6, <2>1, <3>1, <3>3
    <3> QED
      BY <1>1, <3>3, <3>4
  <2>3. CASE F[i + 1] <= k + 1 \/ F[i + 1] - 1 \in ToSet(H)
    BY <2>1, <2>3
  <2> QED
    BY <1>1, <2>1, <2>2, <2>3 DEF ComesInLine
<1> QED
  BY <1>4, <1>7 DEF ComesInLine, T

\* The first block to come is counted.
LEMMA CountFirst ==
  ASSUME NEW F \in Seq(Block), F # <<>>
  PROVE  /\ F[1] \in Block /\ Tail(F) \in Seq(Block) /\ Count(F, F[1]) \in Nat \ {0}
         /\ \A c \in Block : Count(F, c) = Count(Tail(F), c) + (IF c = F[1] THEN 1 ELSE 0)
<1> DEFINE b == F[1]
           T == Tail(F)
           one == <<b>>
<1>1. b \in Block /\ T \in Seq(Block) /\ one \in Seq(Block) /\ F = one \o T
  OBVIOUS
<1> HIDE DEF b, T
<1>2. ASSUME NEW c \in Block
      PROVE  Count(F, c) = Count(T, c) + (IF c = b THEN 1 ELSE 0) /\ Count(T, c) \in Nat
  <2>1. Count(one, c) = IF b = c THEN 1 ELSE 0
    BY <1>1, CountOne
  <2> HIDE DEF one
  <2>2. Count(F, c) = Count(one, c) + Count(T, c) /\ Count(T, c) \in Nat
    BY <1>1, CountConcat
  <2> QED
    BY <2>1, <2>2
<1>3. Count(F, b) \in Nat \ {0}
  BY <1>1, <1>2
<1> QED
  BY <1>1, <1>2, <1>3 DEF b, T

\* The first block to come is handed over, when there is no other copy of it.
LEMMA CopyTaken ==
  ASSUME NEW F \in Seq(Block), F # <<>>, NEW H \in Seq(Block), NEW k \in Nat,
         ComesInLine(F, H, k), InLine(H, k), ~(Count(F, F[1]) > 1)
  PROVE  /\ ComesInLine(Tail(F), H \o <<F[1]>>, k) /\ InLine(H \o <<F[1]>>, k)
         /\ ToSet(F) = ToSet(Tail(F)) \cup {F[1]} /\ ToSet(H \o <<F[1]>>) = ToSet(H) \cup {F[1]}
<1> DEFINE T == Tail(F)
           n == Len(F)
           b == F[1]
           G == H \o <<b>>
           l == Len(H)
<1>1. /\ n \in Nat \ {0} /\ DOMAIN F = 1..n /\ DOMAIN T = 1..(n - 1) /\ T \in Seq(Block)
      /\ \A i \in 1..(n - 1) : T[i] = F[i + 1]
  BY TailIndexed
<1>2. b \in Block /\ \A c \in ToSet(T) : c \in Block
  BY <1>1, CountFirst, RangeType
<1>3. b \notin ToSet(T)
  <2>1. Count(F, b) = Count(T, b) + 1
    BY CountFirst
  <2>2. Count(T, b) \in Nat
    BY <1>1, <1>2, CountConcat
  <2>3. Count(T, b) = 0
    BY <2>1, <2>2
  <2> QED
    BY <1>1, <1>2, <2>3, CountFacts
<1>4. /\ G \in Seq(Block) /\ l \in Nat /\ DOMAIN H = 1..l /\ DOMAIN G = 1..(l + 1) /\ G[l + 1] = b
      /\ \A i \in 1..l : G[i] = H[i]
  <2> HIDE DEF b
  <2> QED
    BY <1>2
<1> HIDE DEF T, n, b, G, l
<1>5. \A i \in 1..(n - 1) : LastCopy(T, i) <=> LastCopy(F, i + 1)
  BY <1>1, LastCopyTail DEF T, n
<1>6. LastCopy(F, 1)
  <2>1. ASSUME NEW j \in 1..n, j > 1 PROVE F[j] # b
    <3>1. j - 1 \in 1..(n - 1) /\ (j - 1) + 1 = j
      BY <1>1, <2>1
    <3>2. F[j] \in ToSet(T)
      BY <1>1, <3>1 DEF ToSet
    <3> QED
      BY <1>3, <3>2
  <2> QED
    BY <1>1, <2>1 DEF LastCopy, b
<1>7. ToSet(G) = ToSet(H) \cup {b}
  <2>1. \A i \in 1..(l + 1) : i = l + 1 \/ i \in 1..l
    BY <1>4
  <2>2. l + 1 \in 1..(l + 1) /\ \A i \in 1..l : i \in 1..(l + 1)
    BY <1>4
  <2>3. ToSet(G) = {G[i] : i \in 1..(l + 1)} /\ ToSet(H) = {H[i] : i \in 1..l}
    BY <1>4 DEF ToSet
  <2> QED
    BY <1>4, <2>1, <2>2, <2>3
<1>8. ToSet(F) = ToSet(T) \cup {b}
  <2>1. \A i \in 1..n : i = 1 \/ (i - 1 \in 1..(n - 1) /\ (i - 1) + 1 = i)
    BY <1>1
  <2>2. 1 \in 1..n /\ \A i \in 1..(n - 1) : i + 1 \in 1..n
    BY <1>1
  <2>3. ToSet(T) = {T[i] : i \in 1..(n - 1)} /\ ToSet(F) = {F[i] : i \in 1..n}
    BY <1>1 DEF ToSet
  <2>4. \A i \in 1..(n - 1) : T[i] \in ToSet(F)
    BY <1>1, <2>2, <2>3
  <2>5. \A i \in 1..n : F[i] \in ToSet(T) \cup {b}
    BY <1>1, <2>1, <2>3 DEF b
  <2>6. b \in ToSet(F)
    BY <2>2, <2>3 DEF b
  <2> QED
    BY <2>3, <2>4, <2>5, <2>6
<1>9. InLine(G, k)
  <2> SUFFICES ASSUME NEW i \in 1..(l + 1)
               PROVE  G[i] <= k + 1 \/ \E j \in 1..(l + 1) : j < i /\ G[j] = G[i] - 1
    BY <1>4 DEF InLine
  <2>1. CASE i \in 1..l
    <3>1. G[i] = H[i] /\ (H[i] <= k + 1 \/ \E j \in 1..l : j < i /\ H[j] = H[i] - 1)
      BY <1>4, <2>1 DEF InLine
    <3>2. \A j \in 1..l : j \in 1..(l + 1) /\ G[j] = H[j]
      BY <1>4
    <3> QED
      BY <3>1, <3>2
  <2>2. CASE i = l + 1
    <3>1. \/ b <= k + 1 \/ b - 1 \in ToSet(H)
          \/ \E j \in 1..n : j < 1 /\ LastCopy(F, j) /\ F[j] = b - 1
      BY <1>1, <1>6 DEF ComesInLine, b
    <3>2. \A j \in 1..n : ~(j < 1)
      BY <1>1
    <3>3. b <= k + 1 \/ \E j \in 1..l : H[j] = b - 1
      BY <1>4, <3>1, <3>2 DEF ToSet
    <3>4. \A j \in 1..l : j \in 1..(l + 1) /\ j < l + 1 /\ G[j] = H[j]
      BY <1>4
    <3> QED
      BY <1>4, <2>2, <3>3, <3>4
  <2> QED
    BY <1>4, <2>1, <2>2
<1>10. ASSUME NEW i \in DOMAIN T, LastCopy(T, i)
       PROVE  \/ T[i] <= k + 1 \/ T[i] - 1 \in ToSet(G)
              \/ \E j \in DOMAIN T : j < i /\ LastCopy(T, j) /\ T[j] = T[i] - 1
  <2>1. i \in 1..(n - 1) /\ i + 1 \in 1..n /\ LastCopy(F, i + 1) /\ T[i] = F[i + 1]
    BY <1>1, <1>5, <1>10
  <2>2. CASE \E j \in DOMAIN F : j < i + 1 /\ LastCopy(F, j) /\ F[j] = F[i + 1] - 1
    <3>1. PICK j \in 1..n : j < i + 1 /\ LastCopy(F, j) /\ F[j] = F[i + 1] - 1
      BY <1>1, <2>2
    <3>2. CASE j = 1
      BY <1>7, <2>1, <3>1, <3>2 DEF b
    <3>3. CASE j # 1
      <4>1. j - 1 \in 1..(n - 1) /\ j - 1 < i /\ (j - 1) + 1 = j
        BY <1>1, <2>1, <3>1, <3>3
      <4>2. LastCopy(T, j - 1) /\ T[j - 1] = T[i] - 1
        BY <1>1, <1>5, <2>1, <3>1, <4>1
      <4> QED
        BY <1>1, <4>1, <4>2
    <3> QED
      BY <3>2, <3>3
  <2>3. CASE F[i + 1] <= k + 1 \/ F[i + 1] - 1 \in ToSet(H)
    BY <1>7, <2>1, <2>3
  <2> QED
    BY <1>1, <2>1, <2>2, <2>3 DEF ComesInLine
<1> QED
  BY <1>7, <1>8, <1>9, <1>10 DEF ComesInLine, T, b, G

\* The manager takes the first of the blocks that were handed over.
LEMMA BlockFollowed ==
  ASSUME NEW F \in Seq(Block), NEW H \in Seq(Block), H # <<>>, NEW k \in Nat,
         ComesInLine(F, H, k), InLine(H, k), NEW n \in Nat, n = IF H[1] = k + 1 THEN k + 1 ELSE k
  PROVE  /\ H[1] <= k + 1 /\ InLine(Tail(H), n) /\ ComesInLine(F, Tail(H), n)
         /\ ToSet(H) = ToSet(Tail(H)) \cup {H[1]}
<1> DEFINE T == Tail(H)
           l == Len(H)
<1>1. /\ l \in Nat \ {0} /\ DOMAIN H = 1..l /\ DOMAIN T = 1..(l - 1) /\ T \in Seq(Block)
      /\ \A i \in 1..(l - 1) : T[i] = H[i + 1]
  BY TailIndexed
<1> HIDE DEF T, l
<1>2. 1 \in DOMAIN H /\ \A i \in DOMAIN H : H[i] \in Nat
  <2>1. \A i \in DOMAIN H : H[i] \in Block
    OBVIOUS
  <2> QED
    BY <1>1, <2>1 DEF Block
<1>3. H[1] <= k + 1
  <2>1. \A j \in DOMAIN H : ~(j < 1)
    BY <1>1
  <2> QED
    BY <1>2, <2>1 DEF InLine
<1>4. k <= n /\ H[1] <= n
  BY <1>2, <1>3
<1>5. ASSUME NEW i \in 1..(l - 1)
      PROVE  T[i] <= n + 1 \/ \E j \in 1..(l - 1) : j < i /\ T[j] = T[i] - 1
  <2>1. i + 1 \in 1..l /\ T[i] = H[i + 1] /\ H[i + 1] \in Nat
    <3>1. i + 1 \in 1..l
      BY <1>1
    <3> QED
      BY <1>1, <1>2, <3>1
  <2>2. H[i + 1] <= k + 1 \/ \E j \in 1..l : j < i + 1 /\ H[j] = H[i + 1] - 1
    BY <1>1, <2>1 DEF InLine
  <2>3. CASE H[i + 1] <= k + 1
    BY <1>4, <2>1, <2>3
  <2>4. ASSUME NEW j \in 1..l, j < i + 1, H[j] = H[i + 1] - 1
        PROVE  T[i] <= n + 1 \/ \E m \in 1..(l - 1) : m < i /\ T[m] = T[i] - 1
    <3>1. CASE j = 1
      BY <1>2, <1>4, <2>1, <2>4, <3>1
    <3>2. CASE j # 1
      <4>1. j - 1 \in 1..(l - 1) /\ j - 1 < i /\ (j - 1) + 1 = j
        BY <1>1, <2>4, <3>2
      <4>2. T[j - 1] = H[j]
        BY <1>1, <4>1
      <4> QED
        BY <2>1, <2>4, <4>1, <4>2
    <3> QED
      BY <3>1, <3>2
  <2> QED
    BY <2>2, <2>3, <2>4
<1>6. ToSet(H) = ToSet(T) \cup {H[1]}
  <2>1. \A i \in 1..l : i = 1 \/ (i - 1 \in 1..(l - 1) /\ (i - 1) + 1 = i)
    BY <1>1
  <2>2. 1 \in 1..l /\ \A i \in 1..(l - 1) : i + 1 \in 1..l
    BY <1>1
  <2>3. ToSet(T) = {T[i] : i \in 1..(l - 1)} /\ ToSet(H) = {H[i] : i \in 1..l}
    BY <1>1 DEF ToSet
  <2>4. \A i \in 1..(l - 1) : T[i] \in ToSet(H)
    BY <1>1, <2>2, <2>3
  <2>5. \A i \in 1..l : H[i] \in ToSet(T) \cup {H[1]}
    BY <1>1, <2>1, <2>3
  <2>6. H[1] \in ToSet(H)
    BY <2>2, <2>3
  <2> QED
    BY <2>3, <2>4, <2>5, <2>6
<1>7. ASSUME NEW i \in DOMAIN F, LastCopy(F, i)
      PROVE  \/ F[i] <= n + 1 \/ F[i] - 1 \in ToSet(T)
             \/ \E j \in DOMAIN F : j < i /\ LastCopy(F, j) /\ F[j] = F[i] - 1
  <2>1. F[i] \in Nat
    <3>1. F[i] \in Block
      OBVIOUS
    <3> QED
      BY <3>1 DEF Block
  <2>2. \/ F[i] <= k + 1 \/ F[i] - 1 \in ToSet(H)
        \/ \E j \in DOMAIN F : j < i /\ LastCopy(F, j) /\ F[j] = F[i] - 1
    BY <1>7 DEF ComesInLine
  <2>3. CASE F[i] <= k + 1
    BY <1>4, <2>1, <2>3
  <2>4. CASE F[i] - 1 \in ToSet(H)
    <3>1. F[i] - 1 \in ToSet(T) \/ F[i] - 1 = H[1]
      BY <1>6, <2>4
    <3> QED
      BY <1>2, <1>4, <2>1, <3>1
  <2> QED
    BY <2>2, <2>3, <2>4
<1> QED
  BY <1>1, <1>3, <1>5, <1>6, <1>7 DEF InLine, ComesInLine, T

\* Blocks that follow one another are requested, the first of which extends what there is.
LEMMA BlocksRequested ==
  ASSUME NEW F \in Seq(Block), NEW H \in Seq(Block), NEW k \in Nat, ComesInLine(F, H, k),
         NEW s \in Seq(Block), s # <<>>, NEW e \in Nat, Consecutive(s, e), \A c \in ToSet(F) : c <= e,
         LET a == e - Len(s) + 1 IN a <= k + 1 \/ a - 1 \in ToSet(H) \/ a - 1 \in ToSet(F)
  PROVE  /\ ComesInLine(F \o s, H, k) /\ ToSet(F \o s) = ToSet(F) \cup ToSet(s)
         /\ \A c \in Block : Count(F \o s, c) = Count(F, c) + (IF c \in ToSet(s) THEN 1 ELSE 0)
         /\ \A c \in ToSet(s) : c <= e
         /\ \A c \in (e - Len(s) + 1)..e : c \in ToSet(s)
<1> DEFINE n == Len(F)
           m == Len(s)
           G == F \o s
           a == e - m + 1
<1>1. /\ n \in Nat /\ m \in Nat \ {0} /\ DOMAIN F = 1..n /\ DOMAIN s = 1..m /\ DOMAIN G = 1..(n + m)
      /\ G \in Seq(Block)
  BY ConcatFacts
<1>2. (\A i \in 1..n : G[i] = F[i]) /\ (\A i \in 1..m : G[n + i] = s[i])
  BY ConcatIndexed
<1>3. \A i \in 1..m : s[i] = e - m + i
  BY <1>1 DEF Consecutive
<1>4. a <= k + 1 \/ a - 1 \in ToSet(H) \/ a - 1 \in ToSet(F)
  OBVIOUS
<1>4a. \A i \in 1..n : F[i] \in Nat /\ F[i] <= e
  <2>1. \A i \in 1..n : F[i] \in Block /\ F[i] \in ToSet(F)
    BY <1>1 DEF ToSet
  <2> QED
    BY <2>1 DEF Block
<1>5. \A c \in Block : Count(G, c) = Count(F, c) + (IF c \in ToSet(s) THEN 1 ELSE 0)
  <2>1. ASSUME NEW i \in DOMAIN s, NEW j \in DOMAIN s, s[i] = s[j] PROVE i = j
    BY <1>1, <1>3, <2>1
  <2>2. \A c \in Block : Count(s, c) = IF c \in ToSet(s) THEN 1 ELSE 0
    BY <2>1, CountFacts
  <2> QED
    BY <2>2, CountConcat
<1> HIDE DEF n, m, G
<1>6. a \in Int /\ ToSet(s) = a..e
  <2>1. a \in Int
    BY <1>1
  <2>2. ASSUME NEW c \in a..e PROVE c \in ToSet(s)
    <3>1. c - a + 1 \in 1..m /\ e - m + (c - a + 1) = c
      BY <1>1, <2>1
    <3>2. s[c - a + 1] = c
      BY <1>3, <3>1
    <3> QED
      BY <1>1, <3>1, <3>2 DEF ToSet
  <2>3. \A i \in 1..m : e - m + i \in a..e
    BY <1>1
  <2>4. \A c \in ToSet(s) : c \in a..e
    BY <1>1, <1>3, <2>3 DEF ToSet
  <2> HIDE DEF a
  <2> QED
    BY <2>1, <2>2, <2>4
<1>7. ToSet(G) = ToSet(F) \cup ToSet(s)
  <2>1. ASSUME NEW i \in 1..(n + m) PROVE i \in 1..n \/ (i - n \in 1..m /\ n + (i - n) = i)
    BY <1>1
  <2>2. (\A i \in 1..n : i \in 1..(n + m)) /\ (\A i \in 1..m : n + i \in 1..(n + m))
    BY <1>1
  <2>3. ToSet(F) = {F[i] : i \in 1..n} /\ ToSet(s) = {s[i] : i \in 1..m} /\ ToSet(G) = {G[i] : i \in 1..(n + m)}
    BY <1>1 DEF ToSet
  <2>4. \A i \in 1..(n + m) : G[i] \in ToSet(F) \cup ToSet(s)
    BY <1>2, <2>1, <2>3
  <2>5. (\A i \in 1..n : F[i] \in ToSet(G)) /\ (\A i \in 1..m : s[i] \in ToSet(G))
    BY <1>2, <2>2, <2>3
  <2> QED
    BY <2>3, <2>4, <2>5
\* The last copies in F stay the last ones, unless they are requested again.
<1>8. ASSUME NEW i \in 1..n PROVE LastCopy(G, i) <=> LastCopy(F, i) /\ F[i] \notin a..e
  <2>1. LastCopy(G, i) => LastCopy(F, i)
    <3>1. \A j \in 1..n : j \in 1..(n + m)
      BY <1>1
    <3> QED
      BY <1>1, <1>2, <3>1 DEF LastCopy
  <2>2. LastCopy(G, i) => F[i] \notin a..e
    <3> SUFFICES ASSUME F[i] \in ToSet(s) PROVE ~LastCopy(G, i)
      BY <1>6
    <3>1. PICK j \in 1..m : s[j] = F[i]
      BY <1>1 DEF ToSet
    <3>2. n + j \in 1..(n + m) /\ n + j > i /\ G[n + j] = G[i]
      BY <1>1, <1>2, <3>1
    <3> QED
      BY <1>1, <3>2 DEF LastCopy
  <2>3. ASSUME LastCopy(F, i), F[i] \notin a..e, NEW j \in 1..(n + m), j > i PROVE G[j] # G[i]
    <3>1. CASE j \in 1..n
      BY <1>1, <1>2, <2>3, <3>1 DEF LastCopy
    <3>2. CASE j \notin 1..n
      <4>1. j - n \in 1..m /\ n + (j - n) = j
        BY <1>1, <3>2
      <4>2. G[j] \in ToSet(s)
        BY <1>1, <1>2, <4>1 DEF ToSet
      <4> QED
        BY <1>2, <1>6, <2>3, <4>2
    <3> QED
      BY <3>1, <3>2
  <2> QED
    BY <1>1, <2>1, <2>2, <2>3 DEF LastCopy
<1>9. \A i \in 1..m : LastCopy(G, n + i)
  <2> SUFFICES ASSUME NEW i \in 1..m, NEW j \in 1..(n + m), j > n + i PROVE G[j] # G[n + i]
    BY <1>1 DEF LastCopy
  <2>1. j - n \in 1..m /\ n + (j - n) = j /\ j - n # i
    BY <1>1
  <2>2. G[j] = s[j - n] /\ G[n + i] = s[i]
    BY <1>2, <2>1
  <2> QED
    BY <1>1, <1>3, <2>1, <2>2
<1>10. ASSUME NEW i \in 1..(n + m), LastCopy(G, i)
       PROVE  \/ G[i] <= k + 1 \/ G[i] - 1 \in ToSet(H)
              \/ \E j \in 1..(n + m) : j < i /\ LastCopy(G, j) /\ G[j] = G[i] - 1
  <2>1. CASE i \in 1..n
    <3>1. LastCopy(F, i) /\ F[i] \notin a..e /\ G[i] = F[i] /\ F[i] \in Nat /\ F[i] <= e
      BY <1>2, <1>4a, <1>8, <1>10, <2>1
    <3>2. F[i] < a
      BY <1>6, <3>1
    <3>3. CASE \E j \in 1..n : j < i /\ LastCopy(F, j) /\ F[j] = F[i] - 1
      <4>1. PICK j \in 1..n : j < i /\ LastCopy(F, j) /\ F[j] = F[i] - 1
        BY <3>3
      <4>2. F[j] \notin a..e /\ j \in 1..(n + m)
        BY <1>1, <1>6, <3>1, <3>2, <4>1
      <4> QED
        BY <1>2, <1>8, <3>1, <4>1, <4>2
    <3> QED
      BY <1>1, <2>1, <3>1, <3>3 DEF ComesInLine
  <2>2. CASE i = n + 1
    <3>1. G[i] = a
      BY <1>1, <1>2, <1>3, <2>2
    <3>2. CASE a - 1 \in ToSet(F)
      <4>1. PICK j \in 1..n : F[j] = a - 1 /\ LastCopy(F, j)
        BY <1>1, <3>2, LastCopyExists
      <4>2. a - 1 \notin a..e /\ j \in 1..(n + m) /\ j < i
        BY <1>1, <1>6, <2>2
      <4>3. LastCopy(G, j) /\ G[j] = G[i] - 1
        BY <1>2, <1>8, <3>1, <4>1, <4>2
      <4> QED
        BY <4>2, <4>3
    <3> HIDE DEF a
    <3> QED
      BY <1>4, <3>1, <3>2
  <2>3. CASE i \notin 1..n /\ i # n + 1
    <3>1. i - n \in 1..m /\ n + (i - n) = i /\ i - n - 1 \in 1..m /\ n + (i - n - 1) = i - 1
      BY <1>1, <2>3
    <3>2. G[i] = e - m + (i - n) /\ G[i - 1] = e - m + (i - n - 1)
      BY <1>2, <1>3, <3>1
    <3>3. G[i - 1] = G[i] - 1 /\ i - 1 < i /\ i - 1 \in 1..(n + m)
      BY <1>1, <3>1, <3>2
    <3>4. LastCopy(G, i - 1)
      BY <1>9, <3>1
    <3> QED
      BY <3>3, <3>4
  <2> QED
    BY <2>1, <2>2, <2>3
<1>11. ComesInLine(G, H, k)
  BY <1>1, <1>10 DEF ComesInLine
<1> QED
  BY <1>5, <1>6, <1>7, <1>11 DEF G, m

----------------------------------------------------------------------------
(***************************************************************************)
(* The order of the blocks.                                                *)
(***************************************************************************)
WayMessage == WireMessage \cup LoopMessage

\* What is between the node and the peer, the next message first.
OnWay == wire \o (out \o loop)

\* The copies of blocks that a message is, or will have sent.
CopyOf ==
  [m \in WayMessage |-> IF m.type = "merkleblock" THEN <<m.block>>
                        ELSE IF m.type = "getdata" THEN m.blocks ELSE <<>>]

\* Whether it asks for more of the chain, or announces more of it.
AskOf ==
  [m \in WayMessage |-> IF m.type = "getblocks" \/ (m.type = "inv" /\ m.blocks # <<>>) THEN <<m>> ELSE <<>>]

HandedBy == [m \in CallbackBlock |-> IF m.type = "block" THEN <<m.block>> ELSE <<>>]

Flow == Gather(CopyOf, OnWay)

Asks == Gather(AskOf, OnWay)

\* The blocks that were handed over, or are as soon as their transactions have come.
Handed == Gather(HandedBy, queue) \o (IF current = None THEN <<>> ELSE <<current.block>>)

\* The last block requested.
Top == IF blockHashes = <<>> THEN lastBlock ELSE blockHashes[Len(blockHashes)]

\* An announcement of what comes after the block e: of all that the node has, or MaxInv.
Continues(bs, e) ==
  /\ bs # <<>> /\ Consecutive(bs, e + Len(bs)) /\ e + Len(bs) <= height
  /\ Len(bs) < MaxInv => e + Len(bs) = height

\* The chain is asked for once at a time, from the last block requested on.
Asked ==
  \/ Asks = <<>> /\ Top = height
  \/ \E m : Asks = <<m>> /\ \/ m.type = "getblocks" /\ m.from = Top
                            \/ m.type = "inv" /\ Continues(m.blocks, Top)

\* The blocks after k up to e are under way, and in order.
Covered(F, H, k, e) ==
  /\ InLine(H, k) /\ ComesInLine(F, H, k) /\ k <= e
  /\ \A c \in ToSet(H) \cup ToSet(F) : c <= e
  /\ \A c \in (k + 1)..e : c \in ToSet(H) \cup ToSet(F)

\* Blocks are requested again from one on that the manager has.
AgainBelow(s, k) == \A i \in DOMAIN s : s[i].type = "rerequest" => s[i].from <= k

Ordered ==
  /\ Connected =>
       /\ \A b \in Block : requested[b] = Count(Flow, b)
       /\ Covered(Flow, Handed, lastBlock, Top) /\ Top <= height
       /\ blockHashes = <<>> => Flow = <<>> /\ Handed = <<>>
       /\ Asked
  /\ Consecutive(blockHashes, Top) /\ lastBlock <= height /\ AgainBelow(loop, lastBlock)
  /\ status = "connecting" => blockHashes = <<>> /\ \A b \in Block : requested[b] = 0

----------------------------------------------------------------------------
LEMMA CoveredDropped ==
  ASSUME NEW F \in Seq(Block), F # <<>>, NEW H \in Seq(Block), NEW k \in Nat, NEW e \in Nat,
         Covered(F, H, k, e), Count(F, F[1]) > 1
  PROVE  Covered(Tail(F), H, k, e)
BY CopyDropped DEF Covered

LEMMA CoveredTaken ==
  ASSUME NEW F \in Seq(Block), F # <<>>, NEW H \in Seq(Block), NEW k \in Nat, NEW e \in Nat,
         Covered(F, H, k, e), ~(Count(F, F[1]) > 1)
  PROVE  Covered(Tail(F), H \o <<F[1]>>, k, e)
<1>1. /\ ComesInLine(Tail(F), H \o <<F[1]>>, k) /\ InLine(H \o <<F[1]>>, k)
      /\ ToSet(F) = ToSet(Tail(F)) \cup {F[1]} /\ ToSet(H \o <<F[1]>>) = ToSet(H) \cup {F[1]}
  BY CopyTaken DEF Covered
<1>2. ToSet(H \o <<F[1]>>) \cup ToSet(Tail(F)) = ToSet(H) \cup ToSet(F)
  BY <1>1
<1> QED
  BY <1>1, <1>2 DEF Covered

LEMMA CoveredFollowed ==
  ASSUME NEW F \in Seq(Block), NEW H \in Seq(Block), H # <<>>, NEW k \in Nat, NEW e \in Nat,
         Covered(F, H, k, e), NEW n \in Nat, n = IF H[1] = k + 1 THEN k + 1 ELSE k
  PROVE  H[1] <= k + 1 /\ Covered(F, Tail(H), n, e)
<1>1. /\ H[1] <= k + 1 /\ InLine(Tail(H), n) /\ ComesInLine(F, Tail(H), n)
      /\ ToSet(H) = ToSet(Tail(H)) \cup {H[1]}
  BY BlockFollowed DEF Covered
<1>2. H[1] \in Nat /\ H[1] <= e
  <2>1. H[1] \in Block /\ H[1] \in ToSet(H)
    BY DEF ToSet
  <2> QED
    BY <2>1 DEF Block, Covered
<1>3. k <= e /\ n <= e
  BY <1>1, <1>2 DEF Covered
<1>4. \A c \in ToSet(Tail(H)) \cup ToSet(F) : c <= e
  BY <1>1 DEF Covered
<1>5. ASSUME NEW c \in (n + 1)..e PROVE c \in ToSet(Tail(H)) \cup ToSet(F)
  <2>1. c \in (k + 1)..e /\ c # H[1]
    BY <1>1, <1>2, <1>3
  <2> QED
    BY <1>1, <2>1 DEF Covered
<1> QED
  BY <1>1, <1>3, <1>4, <1>5 DEF Covered

LEMMA CoveredRequested ==
  ASSUME NEW F \in Seq(Block), NEW H \in Seq(Block), NEW k \in Nat, NEW e \in Nat, Covered(F, H, k, e),
         NEW s \in Seq(Block), s # <<>>, NEW d \in Nat, e <= d, Consecutive(s, d), d - Len(s) + 1 <= e + 1
  PROVE  /\ Covered(F \o s, H, k, d)
         /\ \A c \in Block : Count(F \o s, c) = Count(F, c) + (IF c \in ToSet(s) THEN 1 ELSE 0)
<1> DEFINE a == d - Len(s) + 1
<1>1. a \in Int /\ a <= e + 1
  OBVIOUS
<1>2. \A c \in ToSet(F) \cup ToSet(H) : c \in Nat /\ c <= e
  <2>1. \A c \in ToSet(F) \cup ToSet(H) : c \in Block
    BY RangeType
  <2> QED
    BY <2>1 DEF Block, Covered
<1>3. a <= k + 1 \/ a - 1 \in ToSet(H) \/ a - 1 \in ToSet(F)
  <2> SUFFICES ASSUME ~(a <= k + 1) PROVE a - 1 \in (k + 1)..e
    BY DEF Covered
  <2> HIDE DEF a
  <2> QED
    BY <1>1
<1>4. \A c \in ToSet(F) : c <= d
  BY <1>2
<1>5. /\ ComesInLine(F \o s, H, k) /\ ToSet(F \o s) = ToSet(F) \cup ToSet(s)
      /\ \A c \in Block : Count(F \o s, c) = Count(F, c) + (IF c \in ToSet(s) THEN 1 ELSE 0)
      /\ \A c \in ToSet(s) : c <= d
      /\ \A c \in a..d : c \in ToSet(s)
  BY <1>3, <1>4, BlocksRequested DEF Covered
<1> HIDE DEF a
<1>6. k <= d /\ \A c \in ToSet(H) \cup ToSet(F \o s) : c <= d
  BY <1>2, <1>5 DEF Covered
<1>7. ASSUME NEW c \in (k + 1)..d PROVE c \in ToSet(H) \cup ToSet(F \o s)
  <2>1. CASE c <= e
    BY <1>5, <2>1 DEF Covered
  <2>2. CASE ~(c <= e)
    <3>1. c \in a..d
      BY <1>1, <2>2
    <3> QED
      BY <1>5, <3>1
  <2> QED
    BY <2>1, <2>2
<1> QED
  BY <1>5, <1>6, <1>7 DEF Covered

----------------------------------------------------------------------------
LEMMA PartTypes ==
  /\ CopyOf \in Parts(WayMessage, Block) /\ AskOf \in Parts(WayMessage, WayMessage)
  /\ HandedBy \in Parts(CallbackBlock, Block)
<1>1. \A m \in WayMessage : CopyOf[m] \in Seq(Block)
  <2> SUFFICES ASSUME NEW m \in WayMessage PROVE CopyOf[m] \in Seq(Block)
    OBVIOUS
  <2>1. m.type = "merkleblock" => m.block \in Block
    BY DEF WayMessage, WireMessage, LoopMessage, OutMessage
  <2>2. m.type = "getdata" => m.blocks \in Seq(Block)
    BY DEF WayMessage, WireMessage, LoopMessage, OutMessage
  <2> QED
    BY <2>1, <2>2 DEF CopyOf
<1>2. \A m \in WayMessage : AskOf[m] \in Seq(WayMessage)
  <2> HIDE DEF WayMessage
  <2> QED
    BY DEF AskOf
<1>3. \A m \in CallbackBlock : HandedBy[m] \in Seq(Block)
  BY CallbackTypes DEF HandedBy
<1> QED
  <2>1. CopyOf = [m \in WayMessage |-> CopyOf[m]] /\ AskOf = [m \in WayMessage |-> AskOf[m]]
        /\ HandedBy = [m \in CallbackBlock |-> HandedBy[m]]
    BY DEF CopyOf, AskOf, HandedBy
  <2> QED
    BY <1>1, <1>2, <1>3, <2>1, Zenon DEF Parts

\* What each message has of them.
LEMMA PartsOf ==
  /\ \A t \in Tx : CopyOf[TxMessage(t)] = <<>> /\ AskOf[TxMessage(t)] = <<>> /\ HandedBy[TxCallback(t)] = <<>>
  /\ \A txs \in Seq(Tx), bs \in Seq(Block) :
       /\ CopyOf[Inv(txs, bs)] = <<>> /\ CopyOf[GetData(txs, bs)] = bs /\ AskOf[GetData(txs, bs)] = <<>>
       /\ AskOf[Inv(txs, bs)] = IF bs = <<>> THEN <<>> ELSE <<Inv(txs, bs)>>
  /\ \A b \in Block, txs \in SUBSET Tx :
       /\ CopyOf[Merkleblock(b, txs)] = <<b>> /\ AskOf[Merkleblock(b, txs)] = <<>>
       /\ HandedBy[BlockCallback(b, txs)] = <<b>>
  /\ \A f \in Filter : CopyOf[FilterLoad(f)] = <<>> /\ AskOf[FilterLoad(f)] = <<>>
  /\ \A b \in 0..Length :
       /\ CopyOf[GetBlocks(b)] = <<>> /\ AskOf[GetBlocks(b)] = <<GetBlocks(b)>>
       /\ CopyOf[Rerequest(b)] = <<>> /\ AskOf[Rerequest(b)] = <<>>
<1> USE DEF WayMessage
<1>1. \A t \in Tx : CopyOf[TxMessage(t)] = <<>> /\ AskOf[TxMessage(t)] = <<>> /\ HandedBy[TxCallback(t)] = <<>>
  BY MessageTypes DEF CopyOf, AskOf, HandedBy, TxMessage, TxCallback
<1>2. \A txs \in Seq(Tx), bs \in Seq(Block) :
        /\ CopyOf[Inv(txs, bs)] = <<>> /\ CopyOf[GetData(txs, bs)] = bs /\ AskOf[GetData(txs, bs)] = <<>>
        /\ AskOf[Inv(txs, bs)] = IF bs = <<>> THEN <<>> ELSE <<Inv(txs, bs)>>
  BY MessageTypes, OutIsLoop DEF CopyOf, AskOf, Inv, GetData
<1>3. \A b \in Block, txs \in SUBSET Tx :
        /\ CopyOf[Merkleblock(b, txs)] = <<b>> /\ AskOf[Merkleblock(b, txs)] = <<>>
        /\ HandedBy[BlockCallback(b, txs)] = <<b>>
  BY MessageTypes DEF CopyOf, AskOf, HandedBy, Merkleblock, BlockCallback
<1>4. \A f \in Filter : CopyOf[FilterLoad(f)] = <<>> /\ AskOf[FilterLoad(f)] = <<>>
  BY MessageTypes, OutIsLoop DEF CopyOf, AskOf, FilterLoad
<1>5. \A b \in 0..Length :
        /\ CopyOf[GetBlocks(b)] = <<>> /\ AskOf[GetBlocks(b)] = <<GetBlocks(b)>>
        /\ CopyOf[Rerequest(b)] = <<>> /\ AskOf[Rerequest(b)] = <<>>
  BY MessageTypes, OutIsLoop DEF CopyOf, AskOf, GetBlocks, Rerequest
<1> QED
  BY <1>1, <1>2, <1>3, <1>4, <1>5

LEMMA WayTypes ==
  ASSUME Queues
  PROVE  /\ wire \in Seq(WayMessage) /\ out \in Seq(WayMessage) /\ loop \in Seq(WayMessage)
         /\ OnWay \in Seq(WayMessage)
<1>1. WireMessage \subseteq WayMessage /\ LoopMessage \subseteq WayMessage /\ OutMessage \subseteq WayMessage
  BY OutIsLoop DEF WayMessage
<1>2. wire \in Seq(WayMessage) /\ out \in Seq(WayMessage) /\ loop \in Seq(WayMessage)
  BY <1>1, SeqMonotonic DEF Queues
<1> QED
  BY <1>2, ConcatFacts DEF OnWay

\* Parts of the way.
LEMMA WayParts ==
  ASSUME NEW V, NEW C \in Parts(WayMessage, V), NEW s \in Seq(WayMessage), NEW t \in Seq(WayMessage),
         NEW u \in Seq(WayMessage)
  PROVE  /\ Gather(C, s \o (t \o u)) = Gather(C, s) \o (Gather(C, t) \o Gather(C, u))
         /\ Gather(C, s) \in Seq(V) /\ Gather(C, t) \in Seq(V) /\ Gather(C, u) \in Seq(V)
<1>1. PICK v \in Seq(WayMessage) : v = t \o u
  BY ConcatFacts
<1>2. Gather(C, v) = Gather(C, t) \o Gather(C, u)
  BY <1>1, GatherConcat
<1>3. Gather(C, s \o v) = Gather(C, s) \o Gather(C, v)
  BY GatherConcat
<1> QED
  BY <1>1, <1>2, <1>3, GatherType

LEMMA Associative ==
  ASSUME NEW V, NEW a \in Seq(V), NEW b \in Seq(V), NEW c \in Seq(V)
  PROVE  /\ (a \o b) \o c = a \o (b \o c) /\ a \o b \in Seq(V)
         /\ a \o <<>> = a /\ <<>> \o a = a
OBVIOUS

----------------------------------------------------------------------------
(***************************************************************************)
(* How the way changes.                                                    *)
(***************************************************************************)
Join(s, t) == s \o t

LEMMA JoinGroups ==
  ASSUME NEW V, NEW a \in Seq(V), NEW b \in Seq(V), NEW c \in Seq(V)
  PROVE  Join(Join(a, b), c) = Join(a, Join(b, c)) /\ Join(a, b) \in Seq(V)
BY Associative DEF Join

LEMMA GatherJoin ==
  ASSUME NEW M, NEW V, NEW C \in Parts(M, V), NEW s \in Seq(M), NEW t \in Seq(M), NEW u, u = Join(s, t)
  PROVE  Gather(C, u) = Gather(C, s) \o Gather(C, t)
BY GatherConcat DEF Join

LEMMA WayQueues ==
  /\ \A s \in Seq(WireMessage) : s \in Seq(WayMessage)
  /\ \A s \in Seq(OutMessage) : s \in Seq(WayMessage) /\ s \in Seq(LoopMessage)
  /\ \A s \in Seq(LoopMessage) : s \in Seq(WayMessage)
<1>1. WireMessage \subseteq WayMessage /\ LoopMessage \subseteq WayMessage /\ OutMessage \subseteq WayMessage
  BY OutIsLoop DEF WayMessage
<1> QED
  BY <1>1, OutIsLoop, SeqMonotonic

\* Before and after a step.
LEMMA WayBoth ==
  ASSUME Queues, Queues', NEW V, NEW C \in Parts(WayMessage, V)
  PROVE  /\ Gather(C, OnWay) = Gather(C, wire) \o (Gather(C, out) \o Gather(C, loop))
         /\ Gather(C, OnWay') = Gather(C, wire') \o (Gather(C, out') \o Gather(C, loop'))
         /\ Gather(C, wire) \in Seq(V) /\ Gather(C, out) \in Seq(V) /\ Gather(C, loop) \in Seq(V)
         /\ Gather(C, wire') \in Seq(V) /\ Gather(C, out') \in Seq(V) /\ Gather(C, loop') \in Seq(V)
<1>1. wire \in Seq(WayMessage) /\ out \in Seq(WayMessage) /\ loop \in Seq(WayMessage)
  BY WayQueues DEF Queues
<1>2. wire' \in Seq(WayMessage) /\ out' \in Seq(WayMessage) /\ loop' \in Seq(WayMessage)
  BY WayQueues DEF Queues
<1>3. /\ Gather(C, OnWay) = Gather(C, wire) \o (Gather(C, out) \o Gather(C, loop))
      /\ Gather(C, wire) \in Seq(V) /\ Gather(C, out) \in Seq(V) /\ Gather(C, loop) \in Seq(V)
  BY <1>1, WayParts DEF OnWay
<1>4. /\ Gather(C, OnWay') = Gather(C, wire') \o (Gather(C, out') \o Gather(C, loop'))
      /\ Gather(C, wire') \in Seq(V) /\ Gather(C, out') \in Seq(V) /\ Gather(C, loop') \in Seq(V)
  BY <1>2, WayParts DEF OnWay
<1> QED
  BY <1>3, <1>4

\* A message is taken from the wire, and others are put on the loop.
LEMMA WayTaken ==
  ASSUME Queues, Queues', wire # <<>>, wire' = Tail(wire), out' = out,
         NEW x \in Seq(WayMessage), loop' = loop \o x, NEW V, NEW C \in Parts(WayMessage, V)
  PROVE  \E R \in Seq(V) : /\ Gather(C, OnWay) = C[Head(wire)] \o R
                           /\ Gather(C, OnWay') = R \o Gather(C, x)
<1>1. wire \in Seq(WayMessage) /\ loop \in Seq(WayMessage)
  BY WayQueues DEF Queues
<1>2. /\ Gather(C, wire) = C[Head(wire)] \o Gather(C, wire') /\ C[Head(wire)] \in Seq(V)
      /\ Gather(C, loop') = Gather(C, loop) \o Gather(C, x) /\ Gather(C, x) \in Seq(V)
  <2>1. Gather(C, wire) = C[Head(wire)] \o Gather(C, wire') /\ Head(wire) \in WayMessage
    BY <1>1, GatherTail
  <2>2. Gather(C, loop') = Gather(C, loop) \o Gather(C, x)
    BY <1>1, GatherConcat
  <2> QED
    BY <2>1, <2>2, GatherType, PartType
<1> DEFINE W == Gather(C, wire')
           L == Gather(C, loop)
           O == Gather(C, out)
           X == Gather(C, x)
           h == C[Head(wire)]
<1>3. /\ Gather(C, OnWay) = (h \o W) \o (O \o L) /\ Gather(C, OnWay') = W \o (O \o (L \o X))
      /\ W \in Seq(V) /\ L \in Seq(V) /\ O \in Seq(V) /\ X \in Seq(V) /\ h \in Seq(V)
  BY <1>2, WayBoth
<1> HIDE DEF W, L, O, X, h
<1>4. /\ O \o L \in Seq(V) /\ W \o (O \o L) \in Seq(V)
      /\ (h \o W) \o (O \o L) = h \o (W \o (O \o L))
      /\ W \o (O \o (L \o X)) = (W \o (O \o L)) \o X
  <2>1. Join(O, L) \in Seq(V) /\ Join(W, Join(O, L)) \in Seq(V)
    BY <1>3, JoinGroups
  <2>2. Join(Join(h, W), Join(O, L)) = Join(h, Join(W, Join(O, L)))
    BY <1>3, <2>1, JoinGroups
  <2>3. Join(O, Join(L, X)) = Join(Join(O, L), X)
    BY <1>3, JoinGroups
  <2>4. Join(W, Join(Join(O, L), X)) = Join(Join(W, Join(O, L)), X)
    BY <1>3, <2>1, JoinGroups
  <2> QED
    BY <2>1, <2>2, <2>3, <2>4 DEF Join
<1> QED
  BY <1>3, <1>4 DEF X, h

\* The node answers a message.
LEMMA WayAnswered ==
  ASSUME Queues, Queues', out # <<>>, out' = Tail(out), loop' = loop,
         NEW x \in Seq(WayMessage), wire' = wire \o x, NEW V, NEW C \in Parts(WayMessage, V)
  PROVE  \E P \in Seq(V) : \E R \in Seq(V) :
           /\ Gather(C, OnWay) = P \o (C[Head(out)] \o R)
           /\ Gather(C, OnWay') = P \o (Gather(C, x) \o R)
<1>1. wire \in Seq(WayMessage) /\ out \in Seq(WayMessage)
  BY WayQueues DEF Queues
<1>2. /\ Gather(C, out) = C[Head(out)] \o Gather(C, out') /\ C[Head(out)] \in Seq(V)
      /\ Gather(C, wire') = Gather(C, wire) \o Gather(C, x) /\ Gather(C, x) \in Seq(V)
  <2>1. Gather(C, out) = C[Head(out)] \o Gather(C, out') /\ Head(out) \in WayMessage
    BY <1>1, GatherTail
  <2>2. Gather(C, wire') = Gather(C, wire) \o Gather(C, x)
    BY <1>1, GatherConcat
  <2> QED
    BY <2>1, <2>2, GatherType, PartType
<1> DEFINE W == Gather(C, wire)
           L == Gather(C, loop)
           O == Gather(C, out')
           X == Gather(C, x)
           h == C[Head(out)]
<1>3. /\ Gather(C, OnWay) = W \o ((h \o O) \o L) /\ Gather(C, OnWay') = (W \o X) \o (O \o L)
      /\ W \in Seq(V) /\ L \in Seq(V) /\ O \in Seq(V) /\ X \in Seq(V) /\ h \in Seq(V)
  BY <1>2, WayBoth
<1> HIDE DEF W, L, O, X, h
<1>4. /\ O \o L \in Seq(V) /\ W \o ((h \o O) \o L) = W \o (h \o (O \o L))
      /\ (W \o X) \o (O \o L) = W \o (X \o (O \o L))
  <2>1. Join(O, L) \in Seq(V)
    BY <1>3, JoinGroups
  <2>2. Join(Join(h, O), L) = Join(h, Join(O, L))
    BY <1>3, JoinGroups
  <2>3. Join(Join(W, X), Join(O, L)) = Join(W, Join(X, Join(O, L)))
    BY <1>3, <2>1, JoinGroups
  <2> QED
    BY <2>1, <2>2, <2>3 DEF Join
<1> QED
  BY <1>3, <1>4 DEF X, h

\* The node announces something.
LEMMA WaySent ==
  ASSUME Queues, Queues', out' = out, loop' = loop,
         NEW x \in Seq(WayMessage), wire' = wire \o x, NEW V, NEW C \in Parts(WayMessage, V)
  PROVE  /\ Gather(C, OnWay) = Gather(C, wire) \o (Gather(C, out) \o Gather(C, loop))
         /\ Gather(C, OnWay') = Gather(C, wire) \o (Gather(C, x) \o (Gather(C, out) \o Gather(C, loop)))
         /\ Gather(C, wire) \in Seq(V) /\ Gather(C, out) \o Gather(C, loop) \in Seq(V)
<1>1. wire \in Seq(WayMessage)
  BY WayQueues DEF Queues
<1>2. Gather(C, wire') = Gather(C, wire) \o Gather(C, x) /\ Gather(C, x) \in Seq(V)
  BY <1>1, GatherConcat, GatherType
<1> DEFINE W == Gather(C, wire)
           L == Gather(C, loop)
           O == Gather(C, out)
           X == Gather(C, x)
<1>3. /\ Gather(C, OnWay) = W \o (O \o L) /\ Gather(C, OnWay') = (W \o X) \o (O \o L)
      /\ W \in Seq(V) /\ L \in Seq(V) /\ O \in Seq(V) /\ X \in Seq(V)
  BY <1>2, WayBoth
<1> HIDE DEF W, L, O, X
<1>4. O \o L \in Seq(V) /\ (W \o X) \o (O \o L) = W \o (X \o (O \o L))
  <2>1. Join(O, L) \in Seq(V)
    BY <1>3, JoinGroups
  <2>2. Join(Join(W, X), Join(O, L)) = Join(W, Join(X, Join(O, L)))
    BY <1>3, <2>1, JoinGroups
  <2> QED
    BY <2>1, <2>2 DEF Join
<1> QED
  BY <1>3, <1>4 DEF W, L, O, X

\* Messages are put on the loop, after one of it is done if that was to request again.
LEMMA WayAsked ==
  ASSUME Queues, Queues', out' = out, wire' = wire,
         NEW x \in Seq(WayMessage), NEW V, NEW C \in Parts(WayMessage, V),
         \/ loop' = loop \o x
         \/ loop # <<>> /\ C[Head(loop)] = <<>> /\ loop' = Tail(loop) \o x
  PROVE  /\ Gather(C, OnWay') = Gather(C, OnWay) \o Gather(C, x)
         /\ Gather(C, OnWay) \in Seq(V) /\ Gather(C, x) \in Seq(V)
<1>1. loop \in Seq(WayMessage) /\ Gather(C, x) \in Seq(V)
  BY WayQueues, GatherType DEF Queues
<1>2. Gather(C, loop') = Gather(C, loop) \o Gather(C, x)
  <2>1. CASE loop' = loop \o x
    BY <1>1, <2>1, GatherConcat
  <2>2. CASE loop # <<>> /\ C[Head(loop)] = <<>> /\ loop' = Tail(loop) \o x
    <3>1. Tail(loop) \in Seq(WayMessage)
      BY <1>1, <2>2, TailIndexed
    <3>2. Gather(C, loop) = <<>> \o Gather(C, Tail(loop)) /\ Gather(C, Tail(loop)) \in Seq(V)
      BY <1>1, <2>2, <3>1, GatherTail, GatherType
    <3>3. Gather(C, loop) = Gather(C, Tail(loop))
      BY <3>2, Associative
    <3>4. loop' = Join(Tail(loop), x)
      BY <2>2 DEF Join
    <3>5. Gather(C, loop') = Gather(C, Tail(loop)) \o Gather(C, x)
      BY <2>2, <3>1, <3>4, GatherJoin
    <3> QED
      BY <3>3, <3>5
  <2> QED
    BY <2>1, <2>2
<1> DEFINE W == Gather(C, wire)
           L == Gather(C, loop)
           O == Gather(C, out)
           X == Gather(C, x)
<1>3. /\ Gather(C, OnWay) = W \o (O \o L) /\ Gather(C, OnWay') = W \o (O \o (L \o X))
      /\ W \in Seq(V) /\ L \in Seq(V) /\ O \in Seq(V) /\ X \in Seq(V)
  BY <1>1, <1>2, WayBoth
<1> HIDE DEF W, L, O, X
<1>4. O \o L \in Seq(V) /\ W \o (O \o L) \in Seq(V) /\ W \o (O \o (L \o X)) = (W \o (O \o L)) \o X
  <2>1. Join(O, L) \in Seq(V) /\ Join(W, Join(O, L)) \in Seq(V)
    BY <1>3, JoinGroups
  <2>2. Join(O, Join(L, X)) = Join(Join(O, L), X)
    BY <1>3, JoinGroups
  <2>3. Join(W, Join(Join(O, L), X)) = Join(Join(W, Join(O, L)), X)
    BY <1>3, <2>1, JoinGroups
  <2> QED
    BY <2>1, <2>2, <2>3 DEF Join
<1> QED
  BY <1>3, <1>4 DEF X

----------------------------------------------------------------------------
(***************************************************************************)
(* The order of the blocks, step by step.                                  *)
(***************************************************************************)
\* A message is taken: what it was is gone, and what is put on the loop comes at the end.
LEMMA Taken ==
  ASSUME Queues, Queues', wire # <<>>, wire' = Tail(wire), out' = out,
         NEW x \in Seq(WayMessage), loop' = loop \o x
  PROVE  /\ \E R \in Seq(Block) : Flow = CopyOf[Head(wire)] \o R /\ Flow' = R \o Gather(CopyOf, x)
         /\ \E Q \in Seq(WayMessage) : Asks = AskOf[Head(wire)] \o Q /\ Asks' = Q \o Gather(AskOf, x)
<1>1. \E R \in Seq(Block) : /\ Gather(CopyOf, OnWay) = CopyOf[Head(wire)] \o R
                            /\ Gather(CopyOf, OnWay') = R \o Gather(CopyOf, x)
  BY WayTaken, PartTypes
<1>2. \E Q \in Seq(WayMessage) : /\ Gather(AskOf, OnWay) = AskOf[Head(wire)] \o Q
                                 /\ Gather(AskOf, OnWay') = Q \o Gather(AskOf, x)
  BY WayTaken, PartTypes
<1> QED
  BY <1>1, <1>2 DEF Flow, Asks

LEMMA TakenOnly ==
  ASSUME Queues, Queues', wire # <<>>, wire' = Tail(wire), out' = out, loop' = loop
  PROVE  /\ Flow = CopyOf[Head(wire)] \o Flow' /\ Flow' \in Seq(Block)
         /\ Asks = AskOf[Head(wire)] \o Asks' /\ Asks' \in Seq(WayMessage)
<1>1. <<>> \in Seq(WayMessage) /\ loop' = loop \o <<>>
  BY Associative DEF Queues
<1>2. Gather(CopyOf, <<>>) = <<>> /\ Gather(AskOf, <<>>) = <<>>
  BY <1>1, PartTypes, GatherType
<1>3. PICK R \in Seq(Block) : Flow = CopyOf[Head(wire)] \o R /\ Flow' = R \o <<>>
  BY <1>1, <1>2, Taken
<1>4. PICK Q \in Seq(WayMessage) : Asks = AskOf[Head(wire)] \o Q /\ Asks' = Q \o <<>>
  BY <1>1, <1>2, Taken
<1>5. Flow' = R /\ Asks' = Q
  BY <1>3, <1>4, Associative
<1> QED
  BY <1>3, <1>4, <1>5

LEMMA OrderedKept ==
  ASSUME Ordered, Flow' = Flow, Asks' = Asks, Handed' = Handed,
         UNCHANGED <<lastBlock, blockHashes, requested, status, height>>, AgainBelow(loop', lastBlock)
  PROVE  Ordered'
<1>1. Top' = Top
  BY DEF Top
<1>2. Asked => Asked'
  BY <1>1 DEF Asked, Continues
<1> QED
  BY <1>1, <1>2 DEF Ordered, Connected

\* What waits for the manager.
LEMMA HandedTypes ==
  ASSUME Typed
  PROVE  /\ Gather(HandedBy, queue) \in Seq(Block) /\ Handed \in Seq(Block)
         /\ \A m \in CallbackBlock : Gather(HandedBy, Append(queue, m)) = Gather(HandedBy, queue) \o HandedBy[m]
         /\ \A m \in CallbackBlock : HandedBy[m] \in Seq(Block)
<1>1. queue \in Seq(CallbackBlock) /\ HandedBy \in Parts(CallbackBlock, Block)
  BY PartTypes DEF Typed, Queues
<1>2. Gather(HandedBy, queue) \in Seq(Block)
  BY <1>1, GatherType
<1>3. ASSUME NEW m \in CallbackBlock
      PROVE  Gather(HandedBy, Append(queue, m)) = Gather(HandedBy, queue) \o HandedBy[m]
  <2>1. <<m>> \in Seq(CallbackBlock) /\ Append(queue, m) = Join(queue, <<m>>)
    BY <1>1 DEF Join
  <2>2. Gather(HandedBy, Append(queue, m)) = Gather(HandedBy, queue) \o Gather(HandedBy, <<m>>)
    BY <1>1, <2>1, GatherJoin
  <2> QED
    BY <1>1, <2>2, GatherOne
<1>4. \A m \in CallbackBlock : HandedBy[m] \in Seq(Block)
  BY <1>1, PartType
<1>5. Handed \in Seq(Block)
  <2>1. CASE current = None
    BY <1>2, <2>1, Associative DEF Handed
  <2>2. CASE current # None
    <3>1. <<current.block>> \in Seq(Block)
      BY <2>2 DEF Typed, MessagesTypeOK
    <3> QED
      BY <1>2, <2>2, <3>1, ConcatFacts DEF Handed
  <2> QED
    BY <2>1, <2>2
<1> QED
  BY <1>2, <1>3, <1>4, <1>5

LEMMA OrderedTx ==
  ASSUME Typed, Typed', Ordered, AcceptTx
  PROVE  Ordered'
<1> DEFINE t == Head(wire).tx
           G == Gather(HandedBy, queue)
<1>1. /\ t \in Tx /\ wire # <<>> /\ Head(wire) = TxMessage(t) /\ wire' = Tail(wire)
      /\ \/ current = None /\ current' = None /\ queue' = Append(queue, TxCallback(t))
         \/ /\ current \in Waiting /\ current' \in Waiting /\ queue' = Append(queue, TxCallback(t))
            /\ current'.block = current.block
         \/ /\ current \in Waiting /\ current' = None
            /\ queue' = Append(Append(queue, TxCallback(t)), BlockCallback(current.block, current.txs))
  BY AcceptTxFacts
<1>2. UNCHANGED <<lastBlock, blockHashes, requested, status, height, out, loop>>
  BY DEF AcceptTx, managerVars, nodeVars
<1>3. CopyOf[Head(wire)] = <<>> /\ AskOf[Head(wire)] = <<>> /\ HandedBy[TxCallback(t)] = <<>>
      /\ TxCallback(t) \in CallbackBlock
  BY <1>1, PartsOf, MessageTypes
<1>4. Flow' = Flow /\ Asks' = Asks
  <2>1. /\ Flow = <<>> \o Flow' /\ Flow' \in Seq(Block)
        /\ Asks = <<>> \o Asks' /\ Asks' \in Seq(WayMessage)
    BY <1>1, <1>2, <1>3, TakenOnly DEF Typed
  <2> QED
    BY <2>1, Associative
<1>5. Gather(HandedBy, Append(queue, TxCallback(t))) = G /\ G \in Seq(Block)
  <2>1. Gather(HandedBy, Append(queue, TxCallback(t))) = G \o <<>> /\ G \in Seq(Block)
    BY <1>3, HandedTypes
  <2> QED
    BY <2>1, Associative
<1>6. None \notin Waiting
  BY MessageAssumption DEF Waiting
<1>7. Handed' = Handed
  <2>1. CASE current = None /\ current' = None /\ queue' = Append(queue, TxCallback(t))
    BY <1>5, <2>1 DEF Handed
  <2>2. CASE /\ current \in Waiting /\ current' \in Waiting /\ queue' = Append(queue, TxCallback(t))
             /\ current'.block = current.block
    BY <1>5, <1>6, <2>2 DEF Handed
  <2>3. CASE /\ current \in Waiting /\ current' = None
             /\ queue' = Append(Append(queue, TxCallback(t)), BlockCallback(current.block, current.txs))
    <3>1. PICK q \in Seq(CallbackBlock) : q = Append(queue, TxCallback(t))
      <4>1. queue \in Seq(CallbackBlock) /\ TxCallback(t) \in CallbackBlock
        BY <1>3 DEF Typed, Queues
      <4> QED
        BY <4>1, AppendFacts
    <3>2. /\ BlockCallback(current.block, current.txs) \in CallbackBlock
          /\ HandedBy[BlockCallback(current.block, current.txs)] = <<current.block>>
      BY <2>3, MessageTypes, PartsOf DEF Waiting
    <3>3. Gather(HandedBy, queue') = Gather(HandedBy, q) \o Gather(HandedBy, <<BlockCallback(current.block, current.txs)>>)
      <4>1. <<BlockCallback(current.block, current.txs)>> \in Seq(CallbackBlock)
            /\ queue' = Join(q, <<BlockCallback(current.block, current.txs)>>)
        BY <2>3, <3>1, <3>2 DEF Join
      <4> QED
        BY <4>1, PartTypes, GatherJoin
    <3>4. Gather(HandedBy, queue') = G \o <<current.block>>
      BY <1>5, <3>1, <3>2, <3>3, PartTypes, GatherOne
    <3>5. Gather(HandedBy, queue') \in Seq(Block)
      BY PartTypes, GatherType DEF Typed, Queues
    <3> QED
      BY <1>6, <2>3, <3>4, <3>5, Associative DEF Handed
  <2> QED
    BY <1>1, <2>1, <2>2, <2>3
<1>8. AgainBelow(loop', lastBlock)
  BY <1>2 DEF Ordered
<1> QED
  BY <1>2, <1>4, <1>7, <1>8, OrderedKept

\* A queue of blocks, from its first block on.
LEMMA FirstOf ==
  ASSUME NEW V, NEW b \in V, NEW s \in Seq(V)
  PROVE  <<b>> \o s # <<>> /\ (<<b>> \o s)[1] = b /\ Tail(<<b>> \o s) = s /\ <<b>> \o s \in Seq(V)
OBVIOUS

LEMMA AskedKept ==
  ASSUME Asked, Asks' = Asks, Top' = Top, height' = height
  PROVE  Asked'
BY DEF Asked, Continues

LEMMA OrderedMerkleblock ==
  ASSUME Typed, Typed', Ordered, AcceptMerkleblock
  PROVE  Ordered'
<1> DEFINE m == Head(wire)
           b == m.block
           n == requested[b]
           G == Gather(HandedBy, queue)
<1>1. /\ m \in WireMessage /\ m.type = "merkleblock" /\ b \in Block /\ m.matched \in SUBSET Tx
      /\ wire # <<>> /\ wire' = Tail(wire) /\ current = None /\ Connected
      /\ n \in Nat /\ requested' = [requested EXCEPT ![b] = IF n = 0 THEN 0 ELSE n - 1]
      /\ \/ n > 1 /\ current' = None /\ queue' = queue
         \/ n \in 0..1 /\ queue' = queue /\ current' \in Waiting /\ current'.block = b
         \/ n \in 0..1 /\ current' = None /\ queue' = Append(queue, BlockCallback(b, m.matched))
  BY AcceptMerkleblockFacts
<1>2. UNCHANGED <<lastBlock, blockHashes, status, height, out, loop>>
  BY DEF AcceptMerkleblock, managerVars, nodeVars
<1>3. CopyOf[m] = <<b>> /\ AskOf[m] = <<>>
  BY <1>1 DEF CopyOf, AskOf, WayMessage
<1>4. /\ Flow = <<b>> \o Flow' /\ Flow' \in Seq(Block)
      /\ Asks = <<>> \o Asks' /\ Asks' \in Seq(WayMessage)
  BY <1>1, <1>2, <1>3, TakenOnly DEF Typed
<1>5. Flow \in Seq(Block) /\ Flow # <<>> /\ Flow[1] = b /\ Tail(Flow) = Flow' /\ Asks' = Asks
  BY <1>1, <1>4, FirstOf, Associative
<1>6. Handed = G /\ G \in Seq(Block)
  BY <1>1, HandedTypes, Associative DEF Handed
<1>7. /\ n = Count(Flow, b) /\ Covered(Flow, Handed, lastBlock, Top) /\ Top <= height
      /\ blockHashes # <<>> /\ Asked
  BY <1>1, <1>5 DEF Ordered
<1>8. \A c \in Block : requested'[c] = Count(Flow', c)
  <2>1. \A c \in Block : requested[c] = Count(Flow, c) /\ requested[c] \in Nat
    BY <1>1 DEF Ordered, Typed, MessagesTypeOK
  <2>2. \A c \in Block : /\ Count(Flow, c) = Count(Flow', c) + (IF c = b THEN 1 ELSE 0)
                         /\ Count(Flow', c) \in Nat
    <3>1. \A c \in Block : Count(Flow', c) \in Nat
      BY <1>4, CountConcat
    <3> QED
      BY <1>5, <3>1, CountFirst
  <2>3. requested \in [Block -> Nat]
    BY DEF Typed, MessagesTypeOK
  <2> HIDE DEF n, b
  <2>4. n = requested[b]
    BY DEF n
  <2>5. SUFFICES ASSUME NEW c \in Block PROVE requested'[c] = Count(Flow', c)
    OBVIOUS
  <2>6. requested'[c] = IF c = b THEN (IF n = 0 THEN 0 ELSE n - 1) ELSE requested[c]
    BY <1>1, <2>3
  <2> QED
    BY <1>1, <2>1, <2>2, <2>4, <2>6
<1>9. Top' = Top /\ Top \in Nat /\ lastBlock \in Nat
  <2>1. blockHashes[Len(blockHashes)] \in Block /\ lastBlock \in Nat
    BY <1>7, MessageAssumption DEF Typed, MessagesTypeOK
  <2> QED
    BY <1>2, <1>7, <2>1 DEF Top, Block
<1>10. Covered(Flow', Handed', lastBlock, Top)
  <2>1. CASE n > 1
    <3>1. Handed' = Handed
      <4>1. current' = None /\ queue' = queue /\ current = None
        BY <1>1, <2>1
      <4> QED
        BY <4>1 DEF Handed
    <3> QED
      BY <1>5, <1>6, <1>7, <1>9, <2>1, <3>1, CoveredDropped
  <2>2. CASE ~(n > 1)
    <3>1. Handed' = Handed \o <<b>>
      <4>1. CASE queue' = queue /\ current' \in Waiting /\ current'.block = b
        <5>1. current' # None
          BY <4>1, MessageAssumption DEF Waiting
        <5> QED
          BY <1>6, <4>1, <5>1 DEF Handed
      <4>2. CASE current' = None /\ queue' = Append(queue, BlockCallback(b, m.matched))
        <5>1. /\ BlockCallback(b, m.matched) \in CallbackBlock
              /\ HandedBy[BlockCallback(b, m.matched)] = <<b>>
          BY <1>1, MessageTypes, PartsOf
        <5>2. Gather(HandedBy, queue') = G \o <<b>>
          BY <4>2, <5>1, HandedTypes
        <5>3. Gather(HandedBy, queue') \in Seq(Block)
          BY PartTypes, GatherType DEF Typed, Queues
        <5> QED
          BY <1>6, <4>2, <5>2, <5>3, Associative DEF Handed
      <4> QED
        BY <1>1, <2>2, <4>1, <4>2
    <3>2. ~(Count(Flow, Flow[1]) > 1)
      BY <1>5, <1>7, <2>2
    <3>3. Covered(Tail(Flow), Handed \o <<Flow[1]>>, lastBlock, Top)
      BY <1>5, <1>6, <1>7, <1>9, <3>2, CoveredTaken
    <3> QED
      BY <1>5, <3>1, <3>3
  <2> QED
    BY <2>1, <2>2
<1>11. Asked'
  BY <1>2, <1>5, <1>7, <1>9, AskedKept
<1> HIDE DEF m, b, n, G
<1> QED
  BY <1>1, <1>2, <1>7, <1>8, <1>9, <1>10, <1>11 DEF Ordered, Connected

\* A callback runs: what is on the way stays there.
LEMMA OrderedRelayedBlock ==
  ASSUME Typed, Typed', Ordered, RelayedBlock
  PROVE  Head(queue).block <= lastBlock + 1 /\ Ordered'
<1> DEFINE m == Head(queue)
           b == m.block
<1>1. /\ queue # <<>> /\ m.type = "block" /\ queue' = Tail(queue)
      /\ lastBlock' = IF b = lastBlock + 1 THEN b ELSE lastBlock
      /\ UNCHANGED <<current, blockHashes, requested, status, loop, out, wire, height>>
  BY DEF RelayedBlock, messageVars, nodeVars
<1>2. queue \in Seq(CallbackBlock) /\ m \in CallbackBlock /\ b \in Block /\ Connected
  BY <1>1, CallbackTypes DEF Typed, Queues, Stages
<1>3. Flow' = Flow /\ Asks' = Asks
  BY <1>1 DEF Flow, Asks, OnWay
<1>4. Gather(HandedBy, queue) = <<b>> \o Gather(HandedBy, queue') /\ Gather(HandedBy, queue') \in Seq(Block)
  <2>1. HandedBy[m] = <<b>>
    BY <1>1, <1>2 DEF HandedBy
  <2>2. Gather(HandedBy, queue) = HandedBy[m] \o Gather(HandedBy, queue')
    BY <1>1, <1>2, PartTypes, GatherTail
  <2>3. Gather(HandedBy, queue') \in Seq(Block)
    BY PartTypes, GatherType DEF Typed, Queues
  <2> QED
    BY <2>1, <2>2, <2>3
<1> DEFINE g == Gather(HandedBy, queue')
           c == IF current = None THEN <<>> ELSE <<current.block>>
<1>5. c \in Seq(Block) /\ Handed = (<<b>> \o g) \o c /\ Handed' = g \o c
  <2>1. current # None => current.block \in Block
    BY DEF Typed, MessagesTypeOK
  <2> QED
    BY <1>1, <1>4, <2>1 DEF Handed
<1>6. Handed = <<b>> \o Handed' /\ Handed' \in Seq(Block)
  <2> HIDE DEF g, c
  <2>1. g \in Seq(Block) /\ <<b>> \in Seq(Block)
    BY <1>2, <1>4 DEF g
  <2> QED
    BY <1>5, <2>1, Associative
<1> HIDE DEF g, c
<1>7. Handed \in Seq(Block) /\ Handed # <<>> /\ Handed[1] = b /\ Tail(Handed) = Handed'
  BY <1>2, <1>6, FirstOf
<1>8. /\ Covered(Flow, Handed, lastBlock, Top) /\ Top <= height /\ blockHashes # <<>> /\ Asked
      /\ \A x \in Block : requested[x] = Count(Flow, x)
      /\ Consecutive(blockHashes, Top) /\ AgainBelow(loop, lastBlock)
  BY <1>2, <1>7 DEF Ordered
<1>9. Top' = Top /\ Top \in Nat /\ lastBlock \in Nat /\ lastBlock' \in Nat /\ b \in Nat
      /\ height \in Nat /\ Flow \in Seq(Block)
  <2>1. blockHashes[Len(blockHashes)] \in Block /\ lastBlock \in Nat /\ lastBlock' \in Nat /\ height \in Nat
    BY <1>8, MessageAssumption DEF Typed, MessagesTypeOK
  <2>2. Flow \in Seq(Block)
    BY WayTypes, PartTypes, GatherType DEF Typed, Flow
  <2> QED
    BY <1>1, <1>2, <1>8, <2>1, <2>2 DEF Top, Block
<1> HIDE DEF m, b
<1>10. Handed[1] <= lastBlock + 1 /\ Covered(Flow, Tail(Handed), lastBlock', Top)
  <2>1. lastBlock' = IF Handed[1] = lastBlock + 1 THEN lastBlock + 1 ELSE lastBlock
    BY <1>1, <1>7
  <2> QED
    BY <1>7, <1>8, <1>9, <2>1, CoveredFollowed
<1>11. lastBlock <= lastBlock' /\ lastBlock' <= height
  BY <1>1, <1>8, <1>9, <1>10 DEF Covered
<1>12. AgainBelow(loop, lastBlock')
  <2>1. \A i \in DOMAIN loop : loop[i].type = "rerequest" => loop[i].from \in Nat
    <3>1. \A i \in DOMAIN loop : loop[i] \in LoopMessage
      BY DEF Typed, Queues
    <3> QED
      BY <3>1, LoopTypes
  <2> QED
    BY <1>8, <1>9, <1>11, <2>1 DEF AgainBelow
<1>13. Asked'
  BY <1>1, <1>3, <1>8, <1>9, AskedKept
<1>14. Head(queue).block <= lastBlock + 1
  BY <1>7, <1>10 DEF b, m
<1>15. Ordered'
  BY <1>1, <1>2, <1>3, <1>7, <1>8, <1>9, <1>10, <1>11, <1>12, <1>13 DEF Ordered, Connected
<1> QED
  BY <1>14, <1>15

----------------------------------------------------------------------------
\* Blocks that are requested again, from one that the manager has on.
LEMMA AgainConcat ==
  ASSUME NEW s \in Seq(LoopMessage), NEW t \in Seq(LoopMessage), NEW k,
         AgainBelow(s, k), AgainBelow(t, k)
  PROVE  AgainBelow(s \o t, k)
<1> SUFFICES ASSUME NEW i \in 1..(Len(s) + Len(t)), (s \o t)[i].type = "rerequest"
             PROVE  (s \o t)[i].from <= k
  BY ConcatFacts DEF AgainBelow
<1>1. CASE i <= Len(s)
  <2>1. i \in DOMAIN s /\ (s \o t)[i] = s[i]
    BY <1>1, ConcatFacts
  <2> QED
    BY <2>1 DEF AgainBelow
<1>2. CASE ~(i <= Len(s))
  <2>1. i - Len(s) \in DOMAIN t /\ (s \o t)[i] = t[i - Len(s)]
    BY <1>2, ConcatFacts
  <2> QED
    BY <2>1 DEF AgainBelow
<1> QED
  BY <1>1, <1>2

LEMMA AgainTail ==
  ASSUME NEW s \in Seq(LoopMessage), s # <<>>, NEW k, AgainBelow(s, k)
  PROVE  AgainBelow(Tail(s), k) /\ (Head(s).type = "rerequest" => Head(s).from <= k)
BY TailFacts DEF AgainBelow

LEMMA AgainNot ==
  ASSUME NEW s \in Seq(OutMessage), NEW k
  PROVE  AgainBelow(s, k)
<1>1. \A i \in DOMAIN s : s[i] \in OutMessage
  OBVIOUS
<1>2. \A m \in OutMessage : m.type # "rerequest"
  BY DEF OutMessage
<1> QED
  BY <1>1, <1>2 DEF AgainBelow

\* What a request consists of.
LEMMA RequestParts ==
  ASSUME bloomFilter \in Filter, NEW txs \in Seq(Tx), NEW bs \in Seq(Block)
  PROVE  /\ Request(txs, bs) \in Seq(OutMessage) /\ Request(txs, bs) \in Seq(WayMessage)
         /\ Gather(CopyOf, Request(txs, bs)) = bs /\ Gather(AskOf, Request(txs, bs)) = <<>>
<1> DEFINE g == GetData(txs, bs)
           l == FilterLoad(bloomFilter)
<1>1. g \in OutMessage /\ l \in OutMessage /\ g \in WayMessage /\ l \in WayMessage
  BY MessageTypes, OutIsLoop DEF WayMessage
<1>2. CopyOf[g] = bs /\ AskOf[g] = <<>> /\ CopyOf[l] = <<>> /\ AskOf[l] = <<>>
  BY PartsOf
<1>3. Request(txs, bs) = <<g>> \/ Request(txs, bs) = Join(<<l>>, <<g>>)
  <2> HIDE DEF g, l
  <2>1. <<>> \o <<g>> = <<g>>
    OBVIOUS
  <2> QED
    BY <2>1 DEF Request, Join, g, l
<1> HIDE DEF g, l
<1>4. <<g>> \in Seq(OutMessage) /\ <<l>> \in Seq(OutMessage) /\ <<g>> \in Seq(WayMessage) /\ <<l>> \in Seq(WayMessage)
  BY <1>1
<1>5. Join(<<l>>, <<g>>) \in Seq(OutMessage) /\ Join(<<l>>, <<g>>) \in Seq(WayMessage)
  BY <1>4, ConcatFacts DEF Join
<1>6. /\ Gather(CopyOf, <<g>>) = bs /\ Gather(AskOf, <<g>>) = <<>>
      /\ Gather(CopyOf, <<l>>) = <<>> /\ Gather(AskOf, <<l>>) = <<>>
  BY <1>1, <1>2, PartTypes, GatherOne
<1>7. Gather(CopyOf, Join(<<l>>, <<g>>)) = bs /\ Gather(AskOf, Join(<<l>>, <<g>>)) = <<>>
  <2>1. /\ Gather(CopyOf, Join(<<l>>, <<g>>)) = Gather(CopyOf, <<l>>) \o Gather(CopyOf, <<g>>)
        /\ Gather(AskOf, Join(<<l>>, <<g>>)) = Gather(AskOf, <<l>>) \o Gather(AskOf, <<g>>)
    BY <1>4, PartTypes, GatherJoin
  <2>2. <<>> \o bs = bs /\ <<>> \o <<>> = <<>>
    OBVIOUS
  <2> QED
    BY <1>6, <2>1, <2>2
<1> QED
  BY <1>3, <1>4, <1>5, <1>6, <1>7

\* Runs of consecutive blocks.
LEMMA ConsecutiveConcat ==
  ASSUME NEW s \in Seq(Block), NEW t \in Seq(Block), NEW e \in Nat,
         Consecutive(s, e), Consecutive(t, e + Len(t))
  PROVE  Consecutive(s \o t, e + Len(t))
<1> SUFFICES ASSUME NEW i \in 1..(Len(s) + Len(t))
             PROVE  (s \o t)[i] = (e + Len(t)) - (Len(s) + Len(t)) + i
  BY ConcatFacts DEF Consecutive
<1>1. Len(s) \in Nat /\ Len(t) \in Nat
  OBVIOUS
<1>2. CASE i <= Len(s)
  <2>1. (s \o t)[i] = s[i] /\ i \in DOMAIN s
    BY <1>2, ConcatFacts
  <2> QED
    BY <1>1, <2>1 DEF Consecutive
<1>3. CASE ~(i <= Len(s))
  <2>1. (s \o t)[i] = t[i - Len(s)] /\ i - Len(s) \in DOMAIN t
    BY <1>3, ConcatFacts
  <2>2. t[i - Len(s)] = (e + Len(t)) - Len(t) + (i - Len(s))
    BY <2>1 DEF Consecutive
  <2> QED
    BY <1>1, <2>1, <2>2
<1> QED
  BY <1>2, <1>3

LEMMA ConsecutiveSub ==
  ASSUME NEW s \in Seq(Block), NEW e \in Nat, Consecutive(s, e), NEW i \in 1..Len(s), NEW r \in Seq(Block),
         Len(r) = Len(s) - i + 1, \A j \in 1..(Len(s) - i + 1) : r[j] = s[i + j - 1]
  PROVE  Consecutive(r, e) /\ r # <<>> /\ r[Len(r)] = e /\ r[1] = s[i]
<1>1. Len(s) \in Nat /\ i \in Nat /\ Len(r) \in Nat /\ Len(r) >= 1 /\ DOMAIN r = 1..Len(r) /\ DOMAIN s = 1..Len(s)
  OBVIOUS
<1>2. ASSUME NEW j \in 1..Len(r) PROVE r[j] = e - Len(r) + j
  <2>1. j \in 1..(Len(s) - i + 1) /\ i + j - 1 \in 1..Len(s)
    BY <1>1
  <2>2. s[i + j - 1] = e - Len(s) + (i + j - 1)
    BY <1>1, <2>1 DEF Consecutive
  <2> QED
    BY <1>1, <2>1, <2>2
<1>3. r[Len(r)] = e
  BY <1>1, <1>2
<1>4. r[1] = s[i]
  BY <1>1
<1> QED
  BY <1>1, <1>2, <1>3, <1>4 DEF Consecutive

\* The hashes that are kept end like those that were.
LEMMA RememberedRun ==
  ASSUME NEW s \in Seq(Block), s # <<>>, NEW e \in Nat, Consecutive(s, e)
  PROVE  /\ Remembered(s) \in Seq(Block) /\ Remembered(s) # <<>>
         /\ Consecutive(Remembered(s), e) /\ Remembered(s)[Len(Remembered(s))] = e
<1>1. Len(s) \in Nat \ {0} /\ DOMAIN s = 1..Len(s)
  OBVIOUS
<1>2. CASE ~(Len(s) > MaxHashes)
  <2>1. Remembered(s) = s
    BY <1>2 DEF Remembered
  <2>2. s[Len(s)] = e
    BY <1>1 DEF Consecutive
  <2> QED
    BY <2>1, <2>2
<1>3. CASE Len(s) > MaxHashes
  <2> DEFINE h == MaxHashes \div 2
             i == Len(s) - h + 1
             r == SubSeq(s, i, Len(s))
  <2>1. Remembered(s) = r
    BY <1>3 DEF Remembered
  <2>2. h \in Nat /\ h >= 1 /\ h <= MaxHashes
    BY MessageAssumption
  <2>3. MaxHashes \in Nat
    BY MessageAssumption
  <2> HIDE DEF h
  <2>4. i \in 1..Len(s)
    BY <1>1, <1>3, <2>2, <2>3
  <2> HIDE DEF i
  <2>5. r \in Seq(Block) /\ Len(r) = Len(s) - i + 1
    BY <1>1, <2>4
  <2>6. \A j \in 1..(Len(s) - i + 1) : r[j] = s[i + j - 1]
    BY <1>1, <2>4
  <2> HIDE DEF r
  <2> QED
    BY <2>1, <2>4, <2>5, <2>6, ConsecutiveSub
<1> QED
  BY <1>2, <1>3

LEMMA OrderedSend ==
  ASSUME Typed, Typed', Ordered, Send
  PROVE  Ordered'
<1>1. /\ loop # <<>> /\ loop' = Tail(loop) /\ out' = Append(out, Head(loop))
      /\ UNCHANGED <<lastBlock, blockHashes, requested, status, height, wire, queue, current>>
  BY DEF Send, managerVars, messageVars, nodeVars
<1>2. loop \in Seq(WayMessage) /\ out \in Seq(WayMessage) /\ loop \in Seq(LoopMessage)
  BY WayQueues DEF Typed, Queues
<1>3. OnWay' = OnWay
  <2>1. Append(out, Head(loop)) \o Tail(loop) = out \o loop
    BY <1>1, <1>2, SendFacts
  <2> QED
    BY <1>1, <2>1 DEF OnWay
<1>4. Flow' = Flow /\ Asks' = Asks /\ Handed' = Handed
  BY <1>1, <1>3 DEF Flow, Asks, Handed
<1>5. AgainBelow(loop', lastBlock)
  BY <1>1, <1>2, AgainTail DEF Ordered
<1> QED
  BY <1>1, <1>4, <1>5, OrderedKept

LEMMA OrderedRelayedTransaction ==
  ASSUME Typed, Typed', Ordered, RelayedTransaction
  PROVE  Ordered'
<1>1. /\ queue # <<>> /\ Head(queue).type = "tx" /\ queue' = Tail(queue)
      /\ UNCHANGED <<lastBlock, blockHashes, requested, status, height, wire, out, current>>
  BY DEF RelayedTransaction, nodeVars
<1>2. queue \in Seq(CallbackBlock) /\ Head(queue) \in CallbackBlock /\ loop \in Seq(LoopMessage)
      /\ lastBlock \in 0..Length
  BY <1>1 DEF Typed, Queues, MessagesTypeOK
<1>3. Handed' = Handed
  <2>1. HandedBy[Head(queue)] = <<>>
    BY <1>1, <1>2 DEF HandedBy
  <2>2. Gather(HandedBy, queue) = <<>> \o Gather(HandedBy, queue')
    BY <1>1, <1>2, <2>1, PartTypes, GatherTail
  <2>3. Gather(HandedBy, queue') \in Seq(Block)
    BY PartTypes, GatherType DEF Typed, Queues
  <2>4. Gather(HandedBy, queue) = Gather(HandedBy, queue')
    BY <2>2, <2>3, Associative
  <2> QED
    BY <1>1, <2>4 DEF Handed
<1>4. CASE loop' = loop
  <2>1. Flow' = Flow /\ Asks' = Asks
    BY <1>1, <1>4 DEF Flow, Asks, OnWay
  <2>2. AgainBelow(loop', lastBlock)
    BY <1>4 DEF Ordered
  <2> QED
    BY <1>1, <1>3, <2>1, <2>2, OrderedKept
<1>5. ASSUME NEW f \in Filter, loop' = loop \o <<FilterLoad(f), Rerequest(lastBlock)>>
      PROVE  Ordered'
  <2> DEFINE l == FilterLoad(f)
             r == Rerequest(lastBlock)
  <2>1. /\ l \in LoopMessage /\ r \in LoopMessage /\ l \in WayMessage /\ r \in WayMessage
        /\ CopyOf[l] = <<>> /\ CopyOf[r] = <<>> /\ AskOf[l] = <<>> /\ AskOf[r] = <<>>
        /\ l.type # "rerequest" /\ r.from = lastBlock
    <3>1. l \in LoopMessage /\ r \in LoopMessage
      BY <1>2, MessageTypes, OutIsLoop
    <3>2. CopyOf[l] = <<>> /\ CopyOf[r] = <<>> /\ AskOf[l] = <<>> /\ AskOf[r] = <<>>
      BY <1>2, PartsOf
    <3> QED
      BY <3>1, <3>2 DEF WayMessage, FilterLoad, Rerequest
  <2> HIDE DEF l, r
  <2> DEFINE x == <<l, r>>
  <2>2. /\ x \in Seq(LoopMessage) /\ x \in Seq(WayMessage) /\ DOMAIN x = 1..2 /\ x[1] = l /\ x[2] = r
    BY <2>1
  <2>3. loop' = loop \o x
    BY <1>5 DEF l, r
  <2> HIDE DEF x
  <2>4. AgainBelow(x, lastBlock)
    BY <1>2, <2>1, <2>2 DEF AgainBelow
  <2>5. AgainBelow(loop', lastBlock)
    BY <1>2, <2>2, <2>3, <2>4, AgainConcat DEF Ordered
  <2>6. \A i \in DOMAIN x : CopyOf[x[i]] = <<>> /\ AskOf[x[i]] = <<>>
    BY <2>1, <2>2
  <2>7. Gather(CopyOf, x) = <<>> /\ Gather(AskOf, x) = <<>>
    BY <2>2, <2>6, PartTypes, GatherNothing
  <2>8. Flow' = Flow \o <<>> /\ Flow \in Seq(Block)
    BY <1>1, <2>2, <2>3, <2>7, PartTypes, WayAsked DEF Flow, Typed
  <2>9. Asks' = Asks \o <<>> /\ Asks \in Seq(WayMessage)
    BY <1>1, <2>2, <2>3, <2>7, PartTypes, WayAsked DEF Asks, Typed
  <2>10. Flow' = Flow /\ Asks' = Asks
    BY <2>8, <2>9, Associative
  <2> QED
    BY <1>1, <1>3, <2>5, <2>10, OrderedKept
<1> QED
  BY <1>4, <1>5, RelayedTransactionTyped

LEMMA OrderedRequestAgain ==
  ASSUME Typed, Typed', Ordered, RequestAgain
  PROVE  Ordered'
<1> DEFINE m == Head(loop)
           b == m.from
           rest == SubSeq(blockHashes, SelectInSeq(blockHashes, LAMBDA x : x = b), Len(blockHashes))
<1>1. /\ loop # <<>> /\ m.type = "rerequest"
      /\ UNCHANGED <<lastBlock, status, height, wire, out, current, queue>>
      /\ \/ b \in ToSet(blockHashes) /\ blockHashes' = rest /\ SendGetData(Tail(loop), <<>>, rest)
         \/ loop' = Tail(loop) /\ UNCHANGED <<blockHashes, requested, filterBlockCount>>
  BY DEF RequestAgain, managerVars, nodeVars
<1>2. /\ loop \in Seq(LoopMessage) /\ m \in LoopMessage /\ m \in WayMessage /\ Tail(loop) \in Seq(LoopMessage)
      /\ Connected /\ bloomFilter \in Filter
  BY <1>1 DEF Typed, Queues, Stages, WayMessage
<1>3. AgainBelow(Tail(loop), lastBlock) /\ b <= lastBlock
  BY <1>1, <1>2, AgainTail DEF Ordered
<1>4. CopyOf[m] = <<>> /\ AskOf[m] = <<>>
  BY <1>1, <1>2 DEF CopyOf, AskOf
<1>5. Handed' = Handed /\ Handed \in Seq(Block)
  BY <1>1, HandedTypes DEF Handed
<1>6. CASE loop' = Tail(loop) /\ UNCHANGED <<blockHashes, requested, filterBlockCount>>
  <2>1. <<>> \in Seq(WayMessage) /\ loop' = Tail(loop) \o <<>>
    BY <1>2, <1>6, Associative
  <2>2. Gather(CopyOf, <<>>) = <<>> /\ Gather(AskOf, <<>>) = <<>>
    BY <2>1, PartTypes, GatherType
  <2>3. Flow' = Flow \o <<>> /\ Flow \in Seq(Block)
    BY <1>1, <1>4, <2>1, <2>2, PartTypes, WayAsked DEF Flow, Typed
  <2>4. Asks' = Asks \o <<>> /\ Asks \in Seq(WayMessage)
    BY <1>1, <1>4, <2>1, <2>2, PartTypes, WayAsked DEF Asks, Typed
  <2>5. Flow' = Flow /\ Asks' = Asks
    BY <2>3, <2>4, Associative
  <2> QED
    BY <1>1, <1>3, <1>5, <1>6, <2>5, OrderedKept
<1>7. CASE b \in ToSet(blockHashes) /\ blockHashes' = rest /\ SendGetData(Tail(loop), <<>>, rest)
  <2>1. blockHashes \in Seq(Block) /\ requested \in [Block -> Nat] /\ lastBlock \in Nat /\ height \in Nat
    BY MessageAssumption DEF Typed, MessagesTypeOK
  <2>2. \E i \in 1..Len(blockHashes) :
           /\ blockHashes[i] = b
           /\ rest \in Seq(Block)
           /\ Len(rest) = Len(blockHashes) - i + 1
           /\ \A j \in 1..(Len(blockHashes) - i + 1) : rest[j] = blockHashes[i + j - 1]
    <3> HIDE DEF b
    <3>1. PICK i \in 1..Len(blockHashes) :
           /\ blockHashes[i] = b
           /\ SelectInSeq(blockHashes, LAMBDA x : x = b) = i
           /\ SubSeq(blockHashes, i, Len(blockHashes)) \in Seq(Block)
           /\ Len(SubSeq(blockHashes, i, Len(blockHashes))) = Len(blockHashes) - i + 1
           /\ \A j \in 1..(Len(blockHashes) - i + 1) :
                SubSeq(blockHashes, i, Len(blockHashes))[j] = blockHashes[i + j - 1]
      BY <1>7, <2>1, RestFacts
    <3>2. rest = SubSeq(blockHashes, i, Len(blockHashes))
      BY <3>1, Zenon
    <3> HIDE DEF rest
    <3> QED
      BY <3>1, <3>2, Zenon
  <2>3. /\ loop' = Tail(loop) \o Request(<<>>, rest)
        /\ \A c \in Block : requested'[c] = requested[c] + (IF c \in ToSet(rest) THEN 1 ELSE 0)
    <3> HIDE DEF rest, m, b
    <3>1. rest \in Seq(Block) /\ <<>> \in Seq(Tx)
      BY <2>2
    <3>2. loop' = Tail(loop) \o Request(<<>>, rest)
      BY <1>2, <1>7, <3>1, SendGetDataTypes
    <3> QED
      BY <1>7, <3>2 DEF SendGetData
  <2>4. blockHashes' = rest
    BY <1>7
  <2> HIDE DEF rest
  <2>5. PICK i \in 1..Len(blockHashes) :
           /\ blockHashes[i] = b
           /\ rest \in Seq(Block)
           /\ Len(rest) = Len(blockHashes) - i + 1
           /\ \A j \in 1..(Len(blockHashes) - i + 1) : rest[j] = blockHashes[i + j - 1]
    BY <2>2
  <2>6. Top = blockHashes[Len(blockHashes)] /\ Top \in Nat /\ b \in Nat /\ blockHashes # <<>>
    <3>1. blockHashes # <<>> /\ blockHashes[Len(blockHashes)] \in Block /\ blockHashes[i] \in Block
      BY <2>1, <2>5
    <3> QED
      BY <2>5, <3>1 DEF Top, Block
  <2>7. /\ Covered(Flow, Handed, lastBlock, Top) /\ Top <= height /\ Asked /\ lastBlock <= height
        /\ \A c \in Block : requested[c] = Count(Flow, c)
        /\ Consecutive(blockHashes, Top)
    BY <1>2 DEF Ordered
  <2> HIDE DEF m, b
  <2>8. Consecutive(rest, Top) /\ rest # <<>> /\ rest[Len(rest)] = Top /\ rest[1] = b
    <3>1. Consecutive(rest, Top) /\ rest # <<>> /\ rest[Len(rest)] = Top /\ rest[1] = blockHashes[i]
      <4>1. PICK e \in Nat : e = Top
        BY <2>6
      <4>2. Consecutive(blockHashes, e)
        BY <2>7, <4>1
      <4>3. Consecutive(rest, e) /\ rest # <<>> /\ rest[Len(rest)] = e /\ rest[1] = blockHashes[i]
        BY <2>1, <2>5, <4>2, ConsecutiveSub
      <4> QED
        BY <4>1, <4>3
    <3> QED
      BY <2>5, <3>1
  <2>9. Top' = Top
    BY <2>4, <2>8 DEF Top
  <2>10. /\ Request(<<>>, rest) \in Seq(OutMessage) /\ Request(<<>>, rest) \in Seq(WayMessage)
        /\ Gather(CopyOf, Request(<<>>, rest)) = rest /\ Gather(AskOf, Request(<<>>, rest)) = <<>>
    <3>1. <<>> \in Seq(Tx) /\ rest \in Seq(Block)
      BY <2>5
    <3> QED
      BY <1>2, <3>1, RequestParts
  <2>11. Flow' = Flow \o rest /\ Flow \in Seq(Block)
    BY <1>1, <1>4, <2>3, <2>10, PartTypes, WayAsked DEF Flow, Typed, m
  <2>12. Asks' = Asks
    <3>1. Asks' = Asks \o <<>> /\ Asks \in Seq(WayMessage)
      BY <1>1, <1>4, <2>3, <2>10, PartTypes, WayAsked DEF Asks, Typed, m
    <3> QED
      BY <3>1, Associative
  <2>13. Top - Len(rest) + 1 <= Top + 1
    <3>1. Len(rest) \in Nat
      BY <2>5
    <3> QED
      BY <2>6, <3>1
  <2>14. /\ Covered(Flow', Handed', lastBlock, Top)
         /\ \A c \in Block : requested'[c] = Count(Flow', c)
    <3>1. /\ Covered(Flow \o rest, Handed, lastBlock, Top)
          /\ \A c \in Block : Count(Flow \o rest, c) = Count(Flow, c) + (IF c \in ToSet(rest) THEN 1 ELSE 0)
      <4>1. rest \in Seq(Block) /\ rest # <<>> /\ Consecutive(rest, Top) /\ Top <= Top
        BY <2>6, <2>8, <2>5
      <4>2. PICK e \in Nat : e = Top
        BY <2>6
      <4>3. Covered(Flow, Handed, lastBlock, e) /\ Consecutive(rest, e) /\ e <= e /\ e - Len(rest) + 1 <= e + 1
        BY <2>7, <2>13, <4>1, <4>2
      <4>4. Flow \in Seq(Block) /\ Handed \in Seq(Block) /\ lastBlock \in Nat
        BY <1>5, <2>1, <2>11
      <4>5. /\ Covered(Flow \o rest, Handed, lastBlock, e)
            /\ \A c \in Block : Count(Flow \o rest, c) = Count(Flow, c) + (IF c \in ToSet(rest) THEN 1 ELSE 0)
        BY <4>1, <4>3, <4>4, CoveredRequested
      <4> QED
        BY <4>2, <4>5
    <3> QED
      BY <1>5, <2>3, <2>7, <2>11, <3>1
  <2>15. AgainBelow(loop', lastBlock)
    <3>1. Request(<<>>, rest) \in Seq(LoopMessage)
      BY <2>10, WayQueues
    <3> QED
      BY <1>2, <1>3, <2>3, <2>10, <3>1, AgainNot, AgainConcat
  <2>16. Asked'
    BY <1>1, <2>7, <2>9, <2>12, AskedKept
  <2> QED
    BY <1>1, <1>2, <2>4, <2>7, <2>8, <2>9, <2>14, <2>15, <2>16 DEF Ordered, Connected
<1> QED
  BY <1>1, <1>6, <1>7

LEMMA OrderedNoBlocks ==
  ASSUME Typed, Typed', Ordered, AcceptInv, Head(wire).blocks = <<>>
  PROVE  Ordered'
<1> DEFINE m == Head(wire)
           txs == Those(m.txs, Tx \ knownTx)
           bs == Those(m.blocks, Block \ ToSet(blockHashes))
           full == IF Len(m.blocks) >= MaxInv THEN <<GetBlocks(m.blocks[Len(m.blocks)])>> ELSE <<>>
<1>1. /\ m \in WireMessage /\ m.type = "inv" /\ m.blocks \in Seq(Block) /\ txs \in Seq(Tx)
      /\ wire # <<>> /\ wire' = Tail(wire) /\ Connected
      /\ \/ loop' = loop \o full /\ UNCHANGED <<requested, filterBlockCount>>
         \/ SendGetData(loop \o full, txs, m.blocks)
      /\ blockHashes' = Remembered(blockHashes \o bs)
  BY AcceptInvFacts
<1>2. UNCHANGED <<lastBlock, status, height, out, current, queue>>
  BY DEF AcceptInv, managerVars, nodeVars
<1>3. full = <<>>
  BY MessageAssumption
<1>4. bs = <<>>
  <2>1. <<>> \in Seq(Block) /\ ToSet(<<>>) \subseteq Block \ ToSet(blockHashes)
    BY DEF ToSet
  <2> QED
    BY <2>1, ThoseFacts
<1> HIDE DEF bs, full, txs
<1>5. blockHashes' = blockHashes
  <2>1. blockHashes \in Seq(Block) /\ Len(blockHashes) <= MaxHashes /\ Len(blockHashes) \in Nat /\ MaxHashes \in Nat
    BY MessageAssumption DEF Typed, MessagesTypeOK
  <2>2. blockHashes \o bs = blockHashes
    BY <1>4, <2>1, Associative
  <2> QED
    BY <1>1, <2>1, <2>2 DEF Remembered
<1>6. loop \in Seq(LoopMessage) /\ loop \o full = loop /\ bloomFilter \in Filter /\ requested \in [Block -> Nat]
  BY <1>1, <1>3, Associative DEF Typed, Queues, Stages, MessagesTypeOK
<1>7. CopyOf[m] = <<>> /\ AskOf[m] = <<>>
  BY <1>1 DEF CopyOf, AskOf, WayMessage
<1>8. \E x \in Seq(OutMessage) :
        /\ loop' = loop \o x /\ x \in Seq(WayMessage)
        /\ Gather(CopyOf, x) = <<>> /\ Gather(AskOf, x) = <<>> /\ requested' = requested
  <2>1. CASE loop' = loop \o full /\ UNCHANGED <<requested, filterBlockCount>>
    <3>1. <<>> \in Seq(OutMessage) /\ <<>> \in Seq(WayMessage)
      OBVIOUS
    <3>2. Gather(CopyOf, <<>>) = <<>> /\ Gather(AskOf, <<>>) = <<>>
      BY <3>1, PartTypes, GatherType
    <3> QED
      BY <1>3, <2>1, <3>1, <3>2
  <2>2. CASE SendGetData(loop \o full, txs, m.blocks)
    <3>1. SendGetData(loop, txs, <<>>) /\ <<>> \in Seq(Block) /\ txs \in Seq(Tx)
      BY <1>1, <1>6, <2>2
    <3>2. /\ Request(txs, <<>>) \in Seq(OutMessage) /\ Request(txs, <<>>) \in Seq(WayMessage)
          /\ Gather(CopyOf, Request(txs, <<>>)) = <<>> /\ Gather(AskOf, Request(txs, <<>>)) = <<>>
      BY <1>6, <3>1, RequestParts
    <3>3. loop' = loop \o Request(txs, <<>>)
      BY <1>6, <3>1, SendGetDataTypes
    <3>4. requested' = requested
      <4>1. requested' = [b \in Block |-> requested[b] + (IF b \in ToSet(<<>>) THEN 1 ELSE 0)]
        BY <3>1 DEF SendGetData
      <4>2. \A b \in Block : b \notin ToSet(<<>>) /\ requested[b] + 0 = requested[b]
        BY <1>6 DEF ToSet
      <4>3. requested' = [b \in Block |-> requested[b]]
        BY <4>1, <4>2
      <4> QED
        BY <1>6, <4>3
    <3> QED
      BY <3>2, <3>3, <3>4
  <2> QED
    BY <1>1, <2>1, <2>2
<1>9. PICK x \in Seq(OutMessage) :
        /\ loop' = loop \o x /\ x \in Seq(WayMessage)
        /\ Gather(CopyOf, x) = <<>> /\ Gather(AskOf, x) = <<>> /\ requested' = requested
  BY <1>8
<1>10. /\ \E R \in Seq(Block) : Flow = <<>> \o R /\ Flow' = R \o <<>>
       /\ \E Q \in Seq(WayMessage) : Asks = <<>> \o Q /\ Asks' = Q \o <<>>
  BY <1>1, <1>2, <1>7, <1>9, Taken DEF Typed
<1>11. Flow' = Flow /\ Asks' = Asks
  BY <1>10, Associative
<1>12. AgainBelow(loop', lastBlock)
  <2>1. x \in Seq(LoopMessage)
    BY WayQueues
  <2> QED
    BY <1>6, <1>9, <2>1, AgainNot, AgainConcat DEF Ordered
<1>13. Handed' = Handed
  BY <1>2 DEF Handed
<1> QED
  BY <1>2, <1>5, <1>9, <1>11, <1>12, <1>13, OrderedKept

LEMMA OrderedBlocks ==
  ASSUME Typed, Typed', Ordered, AcceptInv, Head(wire).blocks # <<>>
  PROVE  Ordered'
<1> DEFINE m == Head(wire)
           s == m.blocks
           txs == Those(m.txs, Tx \ knownTx)
           bs == Those(m.blocks, Block \ ToSet(blockHashes))
           full == IF Len(m.blocks) >= MaxInv THEN <<GetBlocks(m.blocks[Len(m.blocks)])>> ELSE <<>>
           d == Top + Len(s)
<1>1. /\ m \in WireMessage /\ m.type = "inv" /\ s \in Seq(Block) /\ s # <<>> /\ txs \in Seq(Tx)
      /\ wire # <<>> /\ wire' = Tail(wire) /\ Connected
      /\ full \in Seq(LoopMessage) /\ loop \o full \in Seq(LoopMessage)
      /\ SendGetData(loop \o full, txs, s)
      /\ blockHashes' = Remembered(blockHashes \o bs)
  BY AcceptInvFacts
<1>2. UNCHANGED <<lastBlock, status, height, out, current, queue>>
  BY DEF AcceptInv, managerVars, nodeVars
<1>3. full = IF Len(s) >= MaxInv THEN <<GetBlocks(s[Len(s)])>> ELSE <<>>
  OBVIOUS
<1>4. CopyOf[m] = <<>> /\ AskOf[m] = <<m>> /\ m \in WayMessage
  BY <1>1 DEF CopyOf, AskOf, WayMessage
<1>5. /\ Covered(Flow, Handed, lastBlock, Top) /\ Top <= height /\ Asked
      /\ \A c \in Block : requested[c] = Count(Flow, c)
      /\ Consecutive(blockHashes, Top) /\ AgainBelow(loop, lastBlock) /\ lastBlock <= height
  BY <1>1 DEF Ordered
<1>6. /\ blockHashes \in Seq(Block) /\ lastBlock \in Nat /\ height \in 0..Length /\ loop \in Seq(LoopMessage)
      /\ bloomFilter \in Filter /\ requested \in [Block -> Nat] /\ Top \in Nat
  <2>1. /\ blockHashes \in Seq(Block) /\ lastBlock \in Nat /\ height \in 0..Length /\ loop \in Seq(LoopMessage)
        /\ bloomFilter \in Filter /\ requested \in [Block -> Nat]
    BY <1>1, MessageAssumption DEF Typed, Queues, Stages, MessagesTypeOK
  <2>2. blockHashes # <<>> => blockHashes[Len(blockHashes)] \in Block
    BY <2>1
  <2> QED
    BY <2>1, <2>2 DEF Top, Block
<1> HIDE DEF full, txs
\* The announcement is the only one, and what comes after the last block requested.
<1>7. /\ Continues(s, Top)
      /\ \A Q \in Seq(WayMessage) : Asks = <<m>> \o Q => Q = <<>>
  <2>1. PICK Q \in Seq(WayMessage) : Asks = <<m>> \o Q
    <3>1. <<>> \in Seq(WayMessage)
      OBVIOUS
    <3>2. full \o Request(txs, s) \in Seq(WayMessage) /\ loop' = loop \o (full \o Request(txs, s))
      <4>1. Request(txs, s) \in Seq(LoopMessage) /\ loop' = (loop \o full) \o Request(txs, s)
        BY <1>1, <1>6, SendGetDataTypes
      <4>2. full \o Request(txs, s) \in Seq(LoopMessage)
        BY <1>1, <4>1, ConcatFacts
      <4>3. Join(Join(loop, full), Request(txs, s)) = Join(loop, Join(full, Request(txs, s)))
        BY <1>1, <1>6, <4>1, JoinGroups
      <4> QED
        BY <4>1, <4>2, <4>3, WayQueues DEF Join
    <3> QED
      BY <1>1, <1>2, <1>4, <3>2, Taken DEF Typed
  <2>2. Asks # <<>> /\ Asks[1] = m
    BY <1>4, <2>1, FirstOf
  <2>3. PICK a : /\ Asks = <<a>>
                 /\ \/ a.type = "getblocks" /\ a.from = Top
                    \/ a.type = "inv" /\ Continues(a.blocks, Top)
    BY <1>5, <2>2 DEF Asked
  <2>4. a = m
    BY <2>2, <2>3
  <2>5. Continues(s, Top)
    <3>1. m.type # "getblocks"
      BY <1>1
    <3> QED
      BY <2>3, <2>4, <3>1
  <2>6. ASSUME NEW P \in Seq(WayMessage), Asks = <<m>> \o P PROVE P = <<>>
    <3>1. Tail(Asks) = P
      BY <1>4, <2>6, FirstOf
    <3>2. Tail(<<a>>) = <<>>
      OBVIOUS
    <3> QED
      BY <2>3, <3>1, <3>2
  <2> QED
    BY <2>5, <2>6
<1> HIDE DEF m, s
<1>8. /\ Consecutive(s, d) /\ d <= height /\ (Len(s) < MaxInv => d = height) /\ d \in Nat /\ Top <= d
      /\ Len(s) \in Nat /\ Len(s) >= 1 /\ s[Len(s)] = d /\ d \in 0..Length /\ MaxInv \in Nat /\ height \in Nat
  <2>1. Len(s) \in Nat /\ Len(s) >= 1 /\ DOMAIN s = 1..Len(s)
    BY <1>1
  <2>2. Consecutive(s, d) /\ d <= height /\ (Len(s) < MaxInv => d = height)
    BY <1>7 DEF Continues
  <2>3. s[Len(s)] = d - Len(s) + Len(s)
    BY <2>1, <2>2 DEF Consecutive
  <2> QED
    BY <1>6, <2>1, <2>2, <2>3, MessageAssumption
<1>9. bs = s
  <2>1. ASSUME NEW c \in ToSet(s) PROVE c \in Block \ ToSet(blockHashes)
    <3>1. PICK i \in 1..Len(s) : s[i] = c
      BY <1>1, <2>1 DEF ToSet
    <3>2. c = d - Len(s) + i /\ c \in Block
      BY <1>1, <1>8, <3>1 DEF Consecutive
    <3>3. c > Top
      BY <1>6, <1>8, <3>1, <3>2
    <3>4. ASSUME NEW j \in DOMAIN blockHashes PROVE blockHashes[j] # c
      <4>1. blockHashes[j] = Top - Len(blockHashes) + j /\ j <= Len(blockHashes) /\ j \in Nat /\ Len(blockHashes) \in Nat
        BY <1>5, <1>6 DEF Consecutive
      <4> QED
        BY <1>6, <3>3, <4>1
    <3> QED
      BY <3>2, <3>4 DEF ToSet
  <2>2. Those(s, Block \ ToSet(blockHashes)) = s
    BY <1>1, <2>1, ThoseFacts
  <2> QED
    BY <2>2 DEF s
<1> HIDE DEF bs
<1>10. Consecutive(blockHashes', d) /\ Top' = d /\ blockHashes' # <<>>
  <2>1. blockHashes \o s \in Seq(Block) /\ blockHashes \o s # <<>>
    BY <1>1, <1>6
  <2>2. PICK e \in Nat : e = Top
    BY <1>6
  <2>3. Consecutive(blockHashes \o s, e + Len(s))
    <3>1. Consecutive(blockHashes, e) /\ Consecutive(s, e + Len(s))
      BY <1>5, <1>8, <2>2
    <3> QED
      BY <1>1, <1>6, <3>1, ConsecutiveConcat
  <2>4. PICK r : r = blockHashes \o s
    OBVIOUS
  <2>5. r \in Seq(Block) /\ r # <<>> /\ Consecutive(r, d) /\ blockHashes' = Remembered(r)
    BY <1>1, <1>9, <2>1, <2>2, <2>3, <2>4
  <2> HIDE DEF d
  <2>6. /\ Remembered(r) # <<>> /\ Consecutive(Remembered(r), d)
        /\ Remembered(r)[Len(Remembered(r))] = d
    BY <1>8, <2>5, RememberedRun
  <2> QED
    BY <2>5, <2>6 DEF Top
<1> DEFINE x == full \o Request(txs, s)
<1>11. /\ x \in Seq(WayMessage) /\ loop' = loop \o x /\ AgainBelow(x, lastBlock) /\ x \in Seq(LoopMessage)
       /\ Gather(CopyOf, x) = s /\ Gather(AskOf, x) = full
  <2>1. /\ Request(txs, s) \in Seq(OutMessage) /\ Request(txs, s) \in Seq(WayMessage)
        /\ Gather(CopyOf, Request(txs, s)) = s /\ Gather(AskOf, Request(txs, s)) = <<>>
    BY <1>1, <1>6, RequestParts
  <2>2. Request(txs, s) \in Seq(LoopMessage) /\ loop' = (loop \o full) \o Request(txs, s)
    BY <1>1, <1>6, SendGetDataTypes
  <2>3. loop' = loop \o x /\ x \in Seq(LoopMessage)
    <3>1. Join(Join(loop, full), Request(txs, s)) = Join(loop, Join(full, Request(txs, s)))
      BY <1>1, <1>6, <2>2, JoinGroups
    <3>2. x \in Seq(LoopMessage)
      BY <1>1, <2>2, ConcatFacts
    <3> QED
      BY <2>2, <3>1, <3>2 DEF Join
  <2>4. full \in Seq(OutMessage) /\ full \in Seq(WayMessage) /\ Gather(CopyOf, full) = <<>> /\ Gather(AskOf, full) = full
    <3>1. CASE Len(s) >= MaxInv
      <4>1. full = <<GetBlocks(d)>>
        BY <1>3, <1>8, <3>1 DEF full, s
      <4>2. /\ GetBlocks(d) \in OutMessage /\ CopyOf[GetBlocks(d)] = <<>> /\ AskOf[GetBlocks(d)] = <<GetBlocks(d)>>
        BY <1>8, MessageTypes, PartsOf
      <4>3. GetBlocks(d) \in WayMessage
        BY <4>2, OutIsLoop DEF WayMessage
      <4>4. Gather(CopyOf, <<GetBlocks(d)>>) = <<>> /\ Gather(AskOf, <<GetBlocks(d)>>) = <<GetBlocks(d)>>
        BY <4>2, <4>3, PartTypes, GatherOne
      <4> QED
        BY <4>1, <4>2, <4>3, <4>4
    <3>2. CASE ~(Len(s) >= MaxInv)
      <4>1. full = <<>>
        BY <3>2 DEF full, s
      <4>2. <<>> \in Seq(OutMessage) /\ <<>> \in Seq(WayMessage)
        OBVIOUS
      <4>3. Gather(CopyOf, <<>>) = <<>> /\ Gather(AskOf, <<>>) = <<>>
        BY <4>2, PartTypes, GatherType
      <4> QED
        BY <4>1, <4>2, <4>3
    <3> QED
      BY <3>1, <3>2
  <2>5. x = Join(full, Request(txs, s))
    BY DEF Join
  <2> HIDE DEF x
  <2>6. Gather(CopyOf, x) = <<>> \o s /\ Gather(AskOf, x) = full \o <<>>
    <3>1. full \in Seq(WayMessage) /\ Request(txs, s) \in Seq(WayMessage)
      BY <2>1, <2>4
    <3>2. /\ Gather(CopyOf, x) = Gather(CopyOf, full) \o Gather(CopyOf, Request(txs, s))
          /\ Gather(AskOf, x) = Gather(AskOf, full) \o Gather(AskOf, Request(txs, s))
      BY <2>5, <3>1, PartTypes, GatherJoin
    <3> QED
      BY <2>1, <2>4, <3>2
  <2>7. Gather(CopyOf, x) = s /\ Gather(AskOf, x) = full
    BY <1>1, <2>4, <2>6, Associative
  <2>8. AgainBelow(x, lastBlock)
    BY <1>1, <2>1, <2>2, <2>4, <2>5, AgainNot, AgainConcat DEF Join
  <2> QED
    BY <2>3, <2>5, <2>7, <2>8, WayQueues
<1> HIDE DEF x
<1>12. /\ \E R \in Seq(Block) : Flow = <<>> \o R /\ Flow' = R \o s
       /\ \E Q \in Seq(WayMessage) : Asks = <<m>> \o Q /\ Asks' = Q \o full
  BY <1>1, <1>2, <1>4, <1>11, Taken DEF Typed, m
<1>13. Flow' = Flow \o s /\ Flow \in Seq(Block)
  BY <1>12, Associative
<1>14. Asks' = full
  BY <1>1, <1>7, <1>12, Associative
<1>15. Handed' = Handed /\ Handed \in Seq(Block)
  BY <1>2, HandedTypes DEF Handed
<1>16. /\ Covered(Flow', Handed', lastBlock, d)
       /\ \A c \in Block : requested'[c] = Count(Flow', c)
  <2>1. PICK e \in Nat : e = Top
    BY <1>6
  <2>2. Covered(Flow, Handed, lastBlock, e) /\ e <= d /\ d - Len(s) + 1 <= e + 1 /\ Consecutive(s, d)
    BY <1>5, <1>6, <1>8, <2>1
  <2>3. d \in Nat
    BY <1>8
  <2> HIDE DEF d
  <2>4. /\ Covered(Flow \o s, Handed, lastBlock, d)
        /\ \A c \in Block : Count(Flow \o s, c) = Count(Flow, c) + (IF c \in ToSet(s) THEN 1 ELSE 0)
    BY <1>1, <1>6, <1>13, <1>15, <2>2, <2>3, CoveredRequested
  <2>5. \A c \in Block : requested'[c] = requested[c] + (IF c \in ToSet(s) THEN 1 ELSE 0)
    BY <1>1 DEF SendGetData
  <2> QED
    BY <1>5, <1>13, <1>15, <2>4, <2>5
<1>17. AgainBelow(loop', lastBlock)
  BY <1>5, <1>6, <1>11, AgainConcat
<1>18. Asked'
  <2>1. CASE Len(s) >= MaxInv
    <3>1. Asks' = <<GetBlocks(d)>>
      BY <1>8, <1>14, <2>1 DEF full, s
    <3> QED
      BY <1>10, <3>1 DEF Asked, GetBlocks
  <2>2. CASE ~(Len(s) >= MaxInv)
    <3>1. Asks' = <<>>
      BY <1>14, <2>2 DEF full, s
    <3>2. Top' = height'
      BY <1>2, <1>8, <1>10, <2>2
    <3> QED
      BY <3>1, <3>2 DEF Asked
  <2> QED
    BY <2>1, <2>2
<1> HIDE DEF d
<1> QED
  BY <1>1, <1>2, <1>5, <1>8, <1>10, <1>16, <1>17, <1>18 DEF Ordered, Connected

----------------------------------------------------------------------------
\* The answers to a request hold the blocks requested, and ask for nothing.
LEMMA TxParts ==
  ASSUME NEW txs \in Seq(Tx)
  PROVE  /\ TxMessages(txs) \in Seq(WayMessage)
         /\ Gather(CopyOf, TxMessages(txs)) = <<>> /\ Gather(AskOf, TxMessages(txs)) = <<>>
<1> DEFINE a == TxMessages(txs)
<1>1. a \in Seq(WireMessage) /\ a \in Seq(WayMessage) /\ \A i \in DOMAIN a : a[i].type = "tx"
  BY TxMessagesType, WayQueues
<1> HIDE DEF a
<1>2. \A i \in DOMAIN a : a[i] \in WayMessage
  BY <1>1
<1>3. \A i \in DOMAIN a : CopyOf[a[i]] = <<>> /\ AskOf[a[i]] = <<>>
  BY <1>1, <1>2 DEF CopyOf, AskOf
<1>4. Gather(CopyOf, a) = <<>> /\ Gather(AskOf, a) = <<>>
  BY <1>1, <1>3, PartTypes, GatherNothing
<1> QED
  BY <1>1, <1>4 DEF a

LEMMA BlockAnswerParts ==
  ASSUME NEW b \in Block, NEW f
  PROVE  /\ BlockAnswer(b, f) \in Seq(WayMessage)
         /\ Gather(CopyOf, BlockAnswer(b, f)) = <<b>> /\ Gather(AskOf, BlockAnswer(b, f)) = <<>>
<1>1. PICK txs \in SUBSET Tx : \E new \in Seq(Tx) : BlockAnswer(b, f) = <<Merkleblock(b, txs)>> \o TxMessages(new)
  BY BlockAnswerFacts
<1>2. PICK new \in Seq(Tx) : BlockAnswer(b, f) = <<Merkleblock(b, txs)>> \o TxMessages(new)
  BY <1>1
<1> DEFINE m == Merkleblock(b, txs)
           a == TxMessages(new)
<1>3. /\ m \in WayMessage /\ CopyOf[m] = <<b>> /\ AskOf[m] = <<>>
      /\ a \in Seq(WayMessage) /\ Gather(CopyOf, a) = <<>> /\ Gather(AskOf, a) = <<>>
  BY MessageTypes, PartsOf, TxParts DEF WayMessage
<1> HIDE DEF m, a
<1>4. <<m>> \in Seq(WayMessage) /\ BlockAnswer(b, f) = Join(<<m>>, a)
  BY <1>2, <1>3 DEF Join, m, a
<1>5. Gather(CopyOf, <<m>>) = <<b>> /\ Gather(AskOf, <<m>>) = <<>>
  BY <1>3, PartTypes, GatherOne
<1>6. /\ Gather(CopyOf, BlockAnswer(b, f)) = <<b>> \o <<>>
      /\ Gather(AskOf, BlockAnswer(b, f)) = <<>> \o <<>>
  <2>1. /\ Gather(CopyOf, BlockAnswer(b, f)) = Gather(CopyOf, <<m>>) \o Gather(CopyOf, a)
        /\ Gather(AskOf, BlockAnswer(b, f)) = Gather(AskOf, <<m>>) \o Gather(AskOf, a)
    BY <1>3, <1>4, PartTypes, GatherJoin
  <2> QED
    BY <1>3, <1>5, <2>1
<1>7. <<b>> \o <<>> = <<b>> /\ <<>> \o <<>> = <<>>
  OBVIOUS
<1>8. BlockAnswer(b, f) \in Seq(WayMessage)
  BY BlockAnswerType, WayQueues
<1> QED
  BY <1>6, <1>7, <1>8

LEMMA AnswersParts ==
  ASSUME NEW bs \in Seq(Block)
  PROVE  /\ Answers(bs) \in Seq(WayMessage)
         /\ Gather(CopyOf, Answers(bs)) = bs /\ Gather(AskOf, Answers(bs)) = <<>>
<1>1. PICK g \in [0..Len(bs) -> Seq(WireMessage)] :
        /\ g[0] = <<>> /\ Answers(bs) = g[Len(bs)]
        /\ \A n \in 1..Len(bs) : \E f : g[n] = g[n - 1] \o BlockAnswer(bs[n], f)
  BY AnswersFacts
<1>2. Len(bs) \in Nat /\ \A n \in 1..Len(bs) : bs[n] \in Block
  OBVIOUS
<1>3. \A n \in 0..Len(bs) : g[n] \in Seq(WayMessage)
  BY WayQueues
<1> DEFINE P == {n \in 0..Len(bs) : Gather(CopyOf, g[n]) = SubSeq(bs, 1, n) /\ Gather(AskOf, g[n]) = <<>>}
<1>4. 0 \in P
  <2>1. SubSeq(bs, 1, 0) = <<>> /\ g[0] = <<>> /\ <<>> \in Seq(WayMessage)
    BY <1>1
  <2>2. Gather(CopyOf, <<>>) = <<>> /\ Gather(AskOf, <<>>) = <<>>
    BY <2>1, PartTypes, GatherType
  <2> QED
    BY <1>2, <2>1, <2>2
<1>5. ASSUME NEW n \in 1..Len(bs), n - 1 \in P PROVE n \in P
  <2>1. PICK f : g[n] = g[n - 1] \o BlockAnswer(bs[n], f)
    BY <1>1
  <2>2. n - 1 \in 0..Len(bs) /\ n \in 0..Len(bs) /\ bs[n] \in Block
    BY <1>2
  <2>3. Gather(CopyOf, g[n - 1]) = SubSeq(bs, 1, n - 1) /\ Gather(AskOf, g[n - 1]) = <<>>
    BY <1>5
  <2> DEFINE x == g[n - 1]
             y == BlockAnswer(bs[n], f)
  <2>4. /\ x \in Seq(WayMessage) /\ y \in Seq(WayMessage)
        /\ Gather(CopyOf, y) = <<bs[n]>> /\ Gather(AskOf, y) = <<>>
    BY <1>3, <2>2, BlockAnswerParts
  <2>5. g[n] = Join(x, y)
    BY <2>1 DEF Join
  <2>6. /\ Gather(CopyOf, g[n]) = SubSeq(bs, 1, n - 1) \o <<bs[n]>>
        /\ Gather(AskOf, g[n]) = <<>> \o <<>>
    <3> HIDE DEF x, y
    <3>1. /\ Gather(CopyOf, g[n]) = Gather(CopyOf, x) \o Gather(CopyOf, y)
          /\ Gather(AskOf, g[n]) = Gather(AskOf, x) \o Gather(AskOf, y)
      BY <2>4, <2>5, PartTypes, GatherJoin
    <3> QED
      BY <2>3, <2>4, <3>1 DEF x
  <2>7. SubSeq(bs, 1, n - 1) \o <<bs[n]>> = SubSeq(bs, 1, n) /\ <<>> \o <<>> = <<>>
    BY <1>2
  <2> QED
    BY <2>2, <2>6, <2>7
<1> HIDE DEF P
<1>6. P = 0..Len(bs)
  <2>1. P \in SUBSET (0..Len(bs))
    BY DEF P
  <2> QED
    BY <1>2, <1>4, <1>5, <2>1, CountingUp
<1>7. Len(bs) \in P
  BY <1>2, <1>6
<1>8. Gather(CopyOf, Answers(bs)) = SubSeq(bs, 1, Len(bs)) /\ Gather(AskOf, Answers(bs)) = <<>>
  BY <1>1, <1>7 DEF P
<1>9. SubSeq(bs, 1, Len(bs)) = bs
  OBVIOUS
<1> QED
  BY <1>8, <1>9, AnswersType, WayQueues

\* A message that is the only one.
LEMMA OnlyOne ==
  ASSUME NEW V, NEW p \in Seq(V), NEW r \in Seq(V), NEW m \in V, NEW a, p \o (<<m>> \o r) = <<a>>
  PROVE  p = <<>> /\ r = <<>> /\ a = m
<1>1. <<m>> \o r \in Seq(V) /\ Len(<<m>> \o r) = Len(r) + 1 /\ Len(p) \in Nat /\ Len(r) \in Nat
      /\ (<<m>> \o r)[1] = m
  OBVIOUS
<1>2. PICK s \in Seq(V) : s = <<m>> \o r
  BY <1>1
<1>3. Len(p \o s) = Len(p) + Len(s) /\ Len(<<a>>) = 1
  BY ConcatFacts
<1>4. Len(p) = 0 /\ Len(r) = 0
  BY <1>1, <1>2, <1>3
<1>5. p = <<>> /\ r = <<>>
  BY <1>4
<1>6. <<>> \o s = s
  BY Associative
<1>7. s = <<a>> /\ s[1] = m
  BY <1>1, <1>2, <1>5, <1>6
<1> QED
  BY <1>5, <1>7

\* The node sends x in answer to a message.
LEMMA NodeSends ==
  ASSUME Typed, Typed', NodeAnswers, NEW x \in Seq(WayMessage), wire' = wire \o x
  PROVE  /\ \E P \in Seq(Block) : \E R \in Seq(Block) :
              Flow = P \o (CopyOf[Head(out)] \o R) /\ Flow' = P \o (Gather(CopyOf, x) \o R)
         /\ \E P \in Seq(WayMessage) : \E R \in Seq(WayMessage) :
              Asks = P \o (AskOf[Head(out)] \o R) /\ Asks' = P \o (Gather(AskOf, x) \o R)
<1>1. out # <<>> /\ out' = Tail(out) /\ loop' = loop /\ Queues /\ Queues'
  BY DEF NodeAnswers, Typed
<1>2. CopyOf \in Parts(WayMessage, Block)
  BY PartTypes
<1>3. AskOf \in Parts(WayMessage, WayMessage)
  BY PartTypes
<1>4. \E P \in Seq(Block) : \E R \in Seq(Block) :
        /\ Gather(CopyOf, OnWay) = P \o (CopyOf[Head(out)] \o R)
        /\ Gather(CopyOf, OnWay') = P \o (Gather(CopyOf, x) \o R)
  <2>1. PICK V : V = Block
    OBVIOUS
  <2>2. PICK C \in Parts(WayMessage, V) : C = CopyOf
    BY <1>2, <2>1
  <2>3. \E P \in Seq(V) : \E R \in Seq(V) :
          /\ Gather(C, OnWay) = P \o (C[Head(out)] \o R)
          /\ Gather(C, OnWay') = P \o (Gather(C, x) \o R)
    BY <1>1, WayAnswered, ZenonT(30)
  <2> QED
    BY <2>1, <2>2, <2>3
<1>5. \E P \in Seq(WayMessage) : \E R \in Seq(WayMessage) :
        /\ Gather(AskOf, OnWay) = P \o (AskOf[Head(out)] \o R)
        /\ Gather(AskOf, OnWay') = P \o (Gather(AskOf, x) \o R)
  <2>1. PICK V : V = WayMessage
    OBVIOUS
  <2>2. PICK C \in Parts(WayMessage, V) : C = AskOf
    BY <1>3, <2>1
  <2>3. \E P \in Seq(V) : \E R \in Seq(V) :
          /\ Gather(C, OnWay) = P \o (C[Head(out)] \o R)
          /\ Gather(C, OnWay') = P \o (Gather(C, x) \o R)
    BY <1>1, WayAnswered, ZenonT(30)
  <2> QED
    BY <2>1, <2>2, <2>3
<1> QED
  BY <1>4, <1>5 DEF Flow, Asks

\* What it answers with the copies it was asked for.
LEMMA NodeSendsSame ==
  ASSUME Typed, Typed', NodeAnswers, NEW x \in Seq(WayMessage), wire' = wire \o x
  PROVE  /\ Gather(CopyOf, x) = CopyOf[Head(out)] => Flow' = Flow
         /\ Gather(AskOf, x) = AskOf[Head(out)] => Asks' = Asks
<1>1. PICK P \in Seq(Block) : \E R \in Seq(Block) :
        Flow = P \o (CopyOf[Head(out)] \o R) /\ Flow' = P \o (Gather(CopyOf, x) \o R)
  BY NodeSends
<1>2. PICK Q \in Seq(WayMessage) : \E R \in Seq(WayMessage) :
        Asks = Q \o (AskOf[Head(out)] \o R) /\ Asks' = Q \o (Gather(AskOf, x) \o R)
  BY NodeSends
<1> QED
  BY <1>1, <1>2

LEMMA OrderedNode ==
  ASSUME Typed, Typed', Ordered, NodeAnswers
  PROVE  Ordered'
<1> DEFINE m == Head(out)
           n == IF height - m.from < MaxInv THEN height - m.from ELSE MaxInv
           bs == [i \in 1..n |-> m.from + i]
<1>1. /\ out # <<>> /\ out \in Seq(OutMessage) /\ m \in OutMessage /\ m \in WayMessage /\ Connected
      /\ wire \in Seq(WireMessage)
  BY TailFacts, OutIsLoop DEF Typed, Queues, Stages, NodeAnswers, WayMessage
<1>2. UNCHANGED <<lastBlock, blockHashes, requested, status, height, loop, queue, current>>
  BY DEF NodeAnswers, managerVars, messageVars
<1>3. /\ m.type = "getblocks" => m.from \in 0..Length
      /\ m.type = "getdata" => m.txs \in Seq(Tx) /\ m.blocks \in Seq(Block)
  BY <1>1, OutIsLoop, LoopTypes
<1>4. \/ m.type = "filterload" /\ wire' = wire
      \/ m.type = "getblocks" /\ wire' = IF n = 0 THEN wire ELSE Append(wire, Inv(<<>>, bs))
      \/ m.type = "getdata" /\ wire' = wire \o TxMessages(m.txs) \o Answers(m.blocks)
  BY DEF NodeAnswers, TxMessages
<1>5. Handed' = Handed /\ AgainBelow(loop', lastBlock) /\ Top' = Top
  BY <1>2 DEF Ordered, Handed, Top
<1> HIDE DEF m
<1>6. <<>> \in Seq(WayMessage) /\ wire = wire \o <<>> /\ Gather(CopyOf, <<>>) = <<>> /\ Gather(AskOf, <<>>) = <<>>
  <2>1. <<>> \in Seq(WayMessage) /\ wire = wire \o <<>>
    BY <1>1, Associative
  <2> QED
    BY <2>1, PartTypes, GatherType
<1>7. CASE m.type = "filterload" /\ wire' = wire
  <2>1. CopyOf[m] = <<>> /\ AskOf[m] = <<>>
    BY <1>1, <1>7 DEF CopyOf, AskOf
  <2>2. Flow' = Flow /\ Asks' = Asks
    <3>1. wire' = wire \o <<>>
      BY <1>6, <1>7
    <3>2. Gather(CopyOf, <<>>) = CopyOf[m] /\ Gather(AskOf, <<>>) = AskOf[m]
      BY <1>6, <2>1
    <3> QED
      BY <1>6, <3>1, <3>2, NodeSendsSame DEF m
  <2> QED
    BY <1>2, <1>5, <2>2, OrderedKept
<1>8. CASE m.type = "getdata" /\ wire' = wire \o TxMessages(m.txs) \o Answers(m.blocks)
  <2> DEFINE a == TxMessages(m.txs)
             c == Answers(m.blocks)
             x == a \o c
  <2>1. /\ a \in Seq(WayMessage) /\ Gather(CopyOf, a) = <<>> /\ Gather(AskOf, a) = <<>>
        /\ c \in Seq(WayMessage) /\ Gather(CopyOf, c) = m.blocks /\ Gather(AskOf, c) = <<>>
    BY <1>3, <1>8, TxParts, AnswersParts
  <2>2. wire' = (wire \o a) \o c
    BY <1>8
  <2> HIDE DEF a, c
  <2>3. x = Join(a, c) /\ x \in Seq(WayMessage)
    BY <2>1, JoinGroups DEF Join
  <2>4. wire' = wire \o x
    <3>1. wire \in Seq(WayMessage)
      BY <1>1, WayQueues
    <3>2. Join(Join(wire, a), c) = Join(wire, Join(a, c))
      BY <2>1, <3>1, JoinGroups
    <3> QED
      BY <2>2, <2>3, <3>2 DEF Join
  <2> HIDE DEF x
  <2>5. Gather(CopyOf, x) = m.blocks /\ Gather(AskOf, x) = <<>>
    <3>1. /\ Gather(CopyOf, x) = Gather(CopyOf, a) \o Gather(CopyOf, c)
          /\ Gather(AskOf, x) = Gather(AskOf, a) \o Gather(AskOf, c)
      BY <2>1, <2>3, PartTypes, GatherJoin
    <3>2. <<>> \o m.blocks = m.blocks /\ <<>> \o <<>> = <<>>
      BY <1>3, <1>8, Associative
    <3> QED
      BY <2>1, <3>1, <3>2
  <2>6. CopyOf[m] = m.blocks /\ AskOf[m] = <<>>
    BY <1>1, <1>8 DEF CopyOf, AskOf
  <2>7. Flow' = Flow /\ Asks' = Asks
    <3>1. Gather(CopyOf, x) = CopyOf[m] /\ Gather(AskOf, x) = AskOf[m]
      BY <2>5, <2>6
    <3> QED
      BY <2>3, <2>4, <3>1, NodeSendsSame DEF m
  <2> QED
    BY <1>2, <1>5, <2>7, OrderedKept
<1>9. CASE m.type = "getblocks" /\ wire' = IF n = 0 THEN wire ELSE Append(wire, Inv(<<>>, bs))
  <2>1. CopyOf[m] = <<>> /\ AskOf[m] = <<m>>
    BY <1>1, <1>9 DEF CopyOf, AskOf
  <2>2. Asked /\ Top <= height
    BY <1>1 DEF Ordered
  <2>3. ASSUME NEW p \in Seq(WayMessage), NEW r \in Seq(WayMessage), Asks = p \o (<<m>> \o r)
        PROVE  p = <<>> /\ r = <<>> /\ m.from = Top
    <3>1. Asks # <<>>
      <4>1. <<m>> \o r \in Seq(WayMessage) /\ Len(<<m>> \o r) = Len(r) + 1 /\ Len(r) \in Nat /\ Len(p) \in Nat
        BY <1>1
      <4>2. PICK s \in Seq(WayMessage) : s = <<m>> \o r
        BY <4>1
      <4>3. Len(p \o s) = Len(p) + Len(s)
        BY ConcatFacts
      <4>4. Len(p \o s) # 0
        BY <4>1, <4>2, <4>3
      <4>5. p \o s # <<>>
        BY <4>4
      <4> QED
        BY <2>3, <4>2, <4>5
    <3>2. PICK a : /\ Asks = <<a>>
                   /\ \/ a.type = "getblocks" /\ a.from = Top
                      \/ a.type = "inv" /\ Continues(a.blocks, Top)
      BY <2>2, <3>1 DEF Asked
    <3>3. p = <<>> /\ r = <<>> /\ a = m
      BY <1>1, <2>3, <3>2, OnlyOne
    <3> QED
      BY <1>9, <3>2, <3>3
  <2>4. m.from \in Nat /\ height \in 0..Length /\ height \in Nat /\ Length \in Nat /\ MaxInv \in Nat \ {0}
    BY <1>3, <1>9, MessageAssumption DEF Typed, MessagesTypeOK
  <2>5. m.from = Top
    <3>1. \E p \in Seq(WayMessage) : \E r \in Seq(WayMessage) : Asks = p \o (<<m>> \o r)
      <4>1. wire' = wire \/ wire' = Append(wire, Inv(<<>>, bs))
        BY <1>9
      <4>2. \E x \in Seq(WayMessage) : wire' = wire \o x
        <5>1. wire' \in Seq(WireMessage)
          BY DEF Typed, Queues
        <5>2. CASE wire' = Append(wire, Inv(<<>>, bs))
          <6> DEFINE z == Inv(<<>>, bs)
          <6>1. wire' = Append(wire, z)
            BY <5>2
          <6> HIDE DEF z
          <6>2. z \in WireMessage /\ wire' = wire \o <<z>>
            BY <1>1, <5>1, <6>1, AppendBack
          <6>3. <<z>> \in Seq(WayMessage)
            BY <6>2 DEF WayMessage
          <6> QED
            BY <6>2, <6>3
        <5> QED
          BY <1>6, <4>1, <5>2
      <4> QED
        BY <2>1, <4>2, NodeSends DEF m
    <3> QED
      BY <2>3, <3>1
  <2>6. n \in Nat /\ (n = 0 => Top = height) /\ Top + n <= height /\ (n < MaxInv => Top + n = height) /\ n <= MaxInv
    BY <2>2, <2>4, <2>5
  <2>7. \E x \in Seq(WayMessage) :
          /\ wire' = wire \o x /\ Gather(CopyOf, x) = <<>>
          /\ \/ n = 0 /\ Gather(AskOf, x) = <<>>
             \/ n > 0 /\ Gather(AskOf, x) = <<Inv(<<>>, bs)>> /\ bs \in Seq(Block) /\ Len(bs) = n
    <3>1. CASE n = 0
      BY <1>6, <1>9, <3>1
    <3>2. CASE n > 0
      <4> HIDE DEF n
      <4>1. bs \in Seq(Block) /\ Len(bs) = n /\ bs # <<>>
        <5>1. \A i \in 1..n : m.from + i \in Block
          BY <2>4, <2>5, <2>6, <3>2 DEF Block
        <5> QED
          BY <2>6, <3>2, <5>1
      <4> HIDE DEF bs
      <4> DEFINE z == Inv(<<>>, bs)
      <4>2. z \in WireMessage /\ CopyOf[z] = <<>> /\ AskOf[z] = <<z>>
        <5>1. <<>> \in Seq(Tx)
          OBVIOUS
        <5> QED
          BY <4>1, <5>1, MessageTypes, PartsOf
      <4>3. wire' = Append(wire, z)
        BY <1>9, <3>2
      <4> HIDE DEF z
      <4>4. <<z>> \in Seq(WayMessage) /\ z \in WayMessage /\ wire' = wire \o <<z>>
        <5>1. wire' \in Seq(WireMessage)
          BY DEF Typed, Queues
        <5>2. wire' = wire \o <<z>>
          BY <1>1, <4>3, <5>1, AppendBack
        <5> QED
          BY <4>2, <5>2 DEF WayMessage
      <4>5. Gather(CopyOf, <<z>>) = <<>> /\ Gather(AskOf, <<z>>) = <<z>>
        BY <4>2, <4>4, PartTypes, GatherOne
      <4> QED
        BY <3>2, <4>1, <4>4, <4>5 DEF z
    <3>3. n = 0 \/ n > 0
      BY <2>6
    <3> HIDE DEF n, bs
    <3> QED
      BY <3>1, <3>2, <3>3
  <2>8. PICK x \in Seq(WayMessage) :
          /\ wire' = wire \o x /\ Gather(CopyOf, x) = <<>>
          /\ \/ n = 0 /\ Gather(AskOf, x) = <<>>
             \/ n > 0 /\ Gather(AskOf, x) = <<Inv(<<>>, bs)>> /\ bs \in Seq(Block) /\ Len(bs) = n
    BY <2>7
  <2> HIDE DEF n, bs
  <2>9. Flow' = Flow
    <3>1. Gather(CopyOf, x) = CopyOf[m]
      BY <2>1, <2>8
    <3> QED
      BY <2>8, <3>1, NodeSendsSame DEF m
  <2>10. PICK p \in Seq(WayMessage) : \E r \in Seq(WayMessage) :
           Asks = p \o (<<m>> \o r) /\ Asks' = p \o (Gather(AskOf, x) \o r)
    BY <2>1, <2>8, NodeSends DEF m
  <2>11. Asks' = Gather(AskOf, x)
    <3>1. PICK r \in Seq(WayMessage) : Asks = p \o (<<m>> \o r) /\ Asks' = p \o (Gather(AskOf, x) \o r)
      BY <2>10
    <3>2. p = <<>> /\ r = <<>>
      BY <2>3, <3>1
    <3>3. Gather(AskOf, x) \in Seq(WayMessage)
      BY PartTypes, GatherType
    <3>4. Gather(AskOf, x) \o <<>> = Gather(AskOf, x) /\ <<>> \o Gather(AskOf, x) = Gather(AskOf, x)
      BY <3>3, Associative
    <3> QED
      BY <3>1, <3>2, <3>4
  <2>12. Asked'
    <3>1. CASE n = 0 /\ Gather(AskOf, x) = <<>>
      BY <1>2, <1>5, <2>6, <2>11, <3>1 DEF Asked
    <3>2. CASE n > 0 /\ Gather(AskOf, x) = <<Inv(<<>>, bs)>> /\ bs \in Seq(Block) /\ Len(bs) = n
      <4>1. \A i \in DOMAIN bs : bs[i] = Top + i
        BY <2>5, <3>2 DEF bs
      <4>2. Continues(bs, Top)
        <5>1. bs # <<>>
          BY <3>2
        <5>2. Top \in Nat
          BY <2>4, <2>5
        <5>3. Consecutive(bs, Top + Len(bs))
          <6>1. \A i \in DOMAIN bs : bs[i] = (Top + Len(bs)) - Len(bs) + i
            BY <2>6, <3>2, <4>1, <5>2
          <6> QED
            BY <6>1 DEF Consecutive
        <5> QED
          BY <2>6, <3>2, <5>1, <5>3 DEF Continues
      <4>3. Inv(<<>>, bs).type = "inv" /\ Inv(<<>>, bs).blocks = bs
        BY DEF Inv
      <4>4. PICK z : z = Inv(<<>>, bs)
        OBVIOUS
      <4>5. z.type = "inv" /\ Continues(z.blocks, Top) /\ Asks' = <<z>>
        BY <2>11, <3>2, <4>2, <4>3, <4>4
      <4> QED
        BY <1>2, <1>5, <4>5 DEF Asked, Continues
    <3> QED
      BY <2>8, <3>1, <3>2
  <2> QED
    BY <1>1, <1>2, <1>5, <2>9, <2>12 DEF Ordered, Connected
<1> QED
  BY <1>4, <1>7, <1>8, <1>9

\* The node announces something: x comes at the end of the wire.
LEMMA NodeAnnounces ==
  ASSUME Typed, Typed', out' = out, loop' = loop, NEW z \in WireMessage, wire' = Append(wire, z),
         CopyOf[z] = <<>>
  PROVE  /\ Flow' = Flow
         /\ AskOf[z] = <<>> => Asks' = Asks
         /\ AskOf[z] = <<z>> /\ Gather(AskOf, wire) = <<>> /\ Gather(AskOf, out) = <<>> /\ Gather(AskOf, loop) = <<>>
              => Asks' = <<z>> /\ Asks = <<>>
<1>1. z \in WayMessage /\ <<z>> \in Seq(WayMessage) /\ wire' = wire \o <<z>> /\ Queues /\ Queues'
  <2>1. z \in WayMessage /\ <<z>> \in Seq(WayMessage)
    BY DEF WayMessage
  <2>2. Queues /\ Queues'
    BY DEF Typed
  <2>3. wire \in Seq(WireMessage) /\ wire' \in Seq(WireMessage)
    BY <2>2 DEF Queues
  <2>4. wire' = wire \o <<z>>
    BY <2>3, AppendBack
  <2> QED
    BY <2>1, <2>2, <2>4
<1>2. PICK x \in Seq(WayMessage) : x = <<z>>
  BY <1>1
<1>3. wire' = wire \o x /\ Queues /\ Queues' /\ out' = out /\ loop' = loop
  BY <1>1, <1>2
<1>4. Gather(CopyOf, <<z>>) = <<>> /\ Gather(AskOf, <<z>>) = AskOf[z]
  BY <1>1, PartTypes, GatherOne
<1>5. Flow' = Flow
  <2>1. CopyOf \in Parts(WayMessage, Block)
    BY PartTypes
  <2>2. /\ Gather(CopyOf, OnWay) = Gather(CopyOf, wire) \o (Gather(CopyOf, out) \o Gather(CopyOf, loop))
        /\ Gather(CopyOf, OnWay') =
             Gather(CopyOf, wire) \o (Gather(CopyOf, x) \o (Gather(CopyOf, out) \o Gather(CopyOf, loop)))
        /\ Gather(CopyOf, out) \o Gather(CopyOf, loop) \in Seq(Block)
    BY <1>3, <2>1, WaySent
  <2>3. PICK R \in Seq(Block) : R = Gather(CopyOf, out) \o Gather(CopyOf, loop)
    BY <2>2
  <2>4. <<>> \o R = R
    BY Associative
  <2> QED
    BY <1>4, <1>2, <2>2, <2>3, <2>4 DEF Flow
<1>6. /\ Gather(AskOf, OnWay) = Gather(AskOf, wire) \o (Gather(AskOf, out) \o Gather(AskOf, loop))
      /\ Gather(AskOf, OnWay') =
           Gather(AskOf, wire) \o (Gather(AskOf, x) \o (Gather(AskOf, out) \o Gather(AskOf, loop)))
      /\ Gather(AskOf, wire) \in Seq(WayMessage) /\ Gather(AskOf, out) \o Gather(AskOf, loop) \in Seq(WayMessage)
  <2>1. PICK V : V = WayMessage
    OBVIOUS
  <2>2. PICK C \in Parts(WayMessage, V) : C = AskOf
    BY <2>1, PartTypes
  <2>3. /\ Gather(C, OnWay) = Gather(C, wire) \o (Gather(C, out) \o Gather(C, loop))
        /\ Gather(C, OnWay') =
             Gather(C, wire) \o (Gather(C, x) \o (Gather(C, out) \o Gather(C, loop)))
        /\ Gather(C, wire) \in Seq(V) /\ Gather(C, out) \o Gather(C, loop) \in Seq(V)
    BY <1>3, WaySent
  <2> QED
    BY <2>1, <2>2, <2>3
<1>7. PICK Q \in Seq(WayMessage) : \E R \in Seq(WayMessage) :
        /\ Q = Gather(AskOf, wire) /\ R = Gather(AskOf, out) \o Gather(AskOf, loop)
        /\ Asks = Q \o R /\ Asks' = Q \o (AskOf[z] \o R)
  BY <1>4, <1>6, <1>2 DEF Asks
<1>8. PICK R \in Seq(WayMessage) :
        /\ Q = Gather(AskOf, wire) /\ R = Gather(AskOf, out) \o Gather(AskOf, loop)
        /\ Asks = Q \o R /\ Asks' = Q \o (AskOf[z] \o R)
  BY <1>7
<1>9. ASSUME AskOf[z] = <<>> PROVE Asks' = Asks
  <2>1. <<>> \o R = R
    BY Associative
  <2> QED
    BY <1>8, <1>9, <2>1
<1>10. ASSUME AskOf[z] = <<z>>, Gather(AskOf, wire) = <<>>, Gather(AskOf, out) = <<>>, Gather(AskOf, loop) = <<>>
      PROVE  Asks' = <<z>> /\ Asks = <<>>
  <2>1. <<>> \o <<>> = <<>> /\ <<z>> \o <<>> = <<z>> /\ <<>> \o <<z>> = <<z>>
    BY <1>1, Associative
  <2>2. R = <<>> /\ Q = <<>>
    BY <1>8, <1>10, <2>1
  <2> QED
    BY <1>8, <1>10, <2>1, <2>2
<1> QED
  BY <1>5, <1>9, <1>10

LEMMA OrderedAnnounce ==
  ASSUME Typed, Typed', Ordered, NEW t \in Tx, Announce(t)
  PROVE  Ordered'
<1> DEFINE z == Inv(<<t>>, <<>>)
<1>1. /\ wire' = Append(wire, z)
      /\ UNCHANGED <<lastBlock, blockHashes, requested, status, height, loop, out, queue, current>>
  BY DEF Announce, managerVars, messageVars
<1>2. z \in WireMessage /\ CopyOf[z] = <<>> /\ AskOf[z] = <<>>
  <2>1. <<t>> \in Seq(Tx) /\ <<>> \in Seq(Block)
    OBVIOUS
  <2> QED
    BY <2>1, MessageTypes, PartsOf
<1> HIDE DEF z
<1>3. Flow' = Flow /\ Asks' = Asks
  BY <1>1, <1>2, NodeAnnounces
<1>4. Handed' = Handed /\ AgainBelow(loop', lastBlock)
  BY <1>1 DEF Handed, Ordered
<1> QED
  BY <1>1, <1>3, <1>4, OrderedKept

\* Nothing of what is under way is an announcement, or asks for one.
LEMMA NothingAsked ==
  ASSUME Typed, Announced
  PROVE  Gather(AskOf, wire) = <<>> /\ Gather(AskOf, out) = <<>> /\ Gather(AskOf, loop) = <<>>
<1>1. /\ wire \in Seq(WayMessage) /\ out \in Seq(WayMessage) /\ loop \in Seq(WayMessage)
      /\ wire \in Seq(WireMessage) /\ out \in Seq(OutMessage) /\ loop \in Seq(LoopMessage)
  BY WayQueues DEF Typed, Queues
<1>2. ASSUME NEW i \in DOMAIN wire PROVE AskOf[wire[i]] = <<>>
  <2>1. wire[i] \in WireMessage /\ wire[i] \in WayMessage
    BY <1>1
  <2>2. wire[i].type # "getblocks"
    BY <2>1 DEF WireMessage
  <2> QED
    BY <2>1, <2>2 DEF Announced, AskOf
<1>3. \A m \in LoopMessage : m.type # "inv"
  BY DEF LoopMessage, OutMessage
<1>4. ASSUME NEW i \in DOMAIN out PROVE AskOf[out[i]] = <<>>
  <2>1. out[i] \in OutMessage /\ out[i] \in WayMessage /\ out[i] \in ToSet(out)
    BY <1>1 DEF ToSet
  <2>2. out[i].type # "getblocks" /\ out[i].type # "inv"
    BY <1>3, <2>1, OutIsLoop DEF Announced
  <2> QED
    BY <2>1, <2>2 DEF AskOf
<1>5. ASSUME NEW i \in DOMAIN loop PROVE AskOf[loop[i]] = <<>>
  <2>1. loop[i] \in LoopMessage /\ loop[i] \in WayMessage /\ loop[i] \in ToSet(loop)
    BY <1>1 DEF ToSet
  <2>2. loop[i].type # "getblocks" /\ loop[i].type # "inv"
    BY <1>3, <2>1 DEF Announced
  <2> QED
    BY <2>1, <2>2 DEF AskOf
<1>6. Gather(AskOf, wire) = <<>>
  BY <1>1, <1>2, PartTypes, GatherNothing
<1>7. Gather(AskOf, out) = <<>>
  BY <1>1, <1>4, PartTypes, GatherNothing
<1>8. Gather(AskOf, loop) = <<>>
  BY <1>1, <1>5, PartTypes, GatherNothing
<1> QED
  BY <1>6, <1>7, <1>8

LEMMA OrderedMine ==
  ASSUME Typed, Typed', Ordered, Mine
  PROVE  Ordered'
<1>1. UNCHANGED <<lastBlock, blockHashes, requested, status, loop, out, queue, current>>
  BY DEF Mine, managerVars, messageVars
<1>2. height < Length /\ height' = height + 1
  BY Zenon DEF Mine
<1>3. \/ Connected /\ Announced /\ wire' = Append(wire, Inv(<<>>, <<height'>>))
      \/ status = "disconnected"
  BY DEF Mine
<1>4. height \in Nat /\ lastBlock \in Nat /\ Length \in Nat /\ lastBlock <= height /\ height' \in Block
  BY <1>2, MessageAssumption DEF Typed, MessagesTypeOK, Ordered, Block
<1>5. Top' = Top /\ Consecutive(blockHashes, Top) /\ AgainBelow(loop, lastBlock)
      /\ (status = "connecting" => blockHashes = <<>> /\ \A b \in Block : requested[b] = 0)
  BY <1>1 DEF Top, Ordered
<1>6. CASE status = "disconnected"
  BY <1>1, <1>2, <1>4, <1>5, <1>6 DEF Ordered, Connected
<1>7. CASE Connected /\ Announced /\ wire' = Append(wire, Inv(<<>>, <<height'>>))
  <2> DEFINE z == Inv(<<>>, <<height'>>)
  <2>1. z \in WireMessage /\ CopyOf[z] = <<>> /\ AskOf[z] = <<z>>
    <3>1. <<height'>> \in Seq(Block) /\ <<height'>> # <<>> /\ <<>> \in Seq(Tx)
      BY <1>4
    <3> QED
      BY <3>1, MessageTypes, PartsOf
  <2>2. z.type = "inv" /\ z.blocks = <<height'>> /\ wire' = Append(wire, z)
    BY <1>7 DEF Inv
  <2>3. PICK y \in WireMessage : y = z
    BY <2>1
  <2> HIDE DEF z
  <2>4. Flow' = Flow /\ Asks' = <<y>> /\ Asks = <<>>
    BY <1>1, <1>7, <2>1, <2>2, <2>3, NothingAsked, NodeAnnounces
  <2>5. /\ \A b \in Block : requested[b] = Count(Flow, b)
        /\ Covered(Flow, Handed, lastBlock, Top) /\ Top <= height
        /\ blockHashes = <<>> => Flow = <<>> /\ Handed = <<>>
        /\ Asked
    BY <1>7 DEF Ordered
  <2>6. Top = height
    BY <2>4, <2>5 DEF Asked
  <2>7. Continues(y.blocks, Top)'
    <3>1. y.blocks = <<height + 1>>
      BY <1>2, <2>2, <2>3
    <3>2. Consecutive(<<height + 1>>, height + 1)
      BY <1>4 DEF Consecutive
    <3>3. Len(<<height + 1>>) = 1 /\ <<height + 1>> # <<>>
      OBVIOUS
    <3> QED
      BY <1>2, <1>4, <1>5, <2>6, <3>1, <3>2, <3>3 DEF Continues
  <2>8. Asked'
    BY <2>2, <2>3, <2>4, <2>7 DEF Asked
  <2>9. Handed' = Handed /\ Top <= height'
    BY <1>1, <1>2, <1>4, <2>6 DEF Handed
  <2> QED
    BY <1>1, <1>2, <1>4, <1>5, <1>7, <2>4, <2>5, <2>8, <2>9 DEF Ordered, Connected
<1> QED
  BY <1>3, <1>6, <1>7

LEMMA OrderedConnection ==
  ASSUME Typed, Typed', Ordered, Connect \/ LoseConnection \/ IncompleteBlock
  PROVE  Ordered'
<1>1. UNCHANGED <<lastBlock, height>> /\ ~Connected'
  BY DEF Connect, LoseConnection, IncompleteBlock, managerVars, nodeVars, Connected
<1>2. CASE Connect
  <2>1. status' = "connecting" /\ blockHashes' = <<>> /\ requested' = [b \in Block |-> 0] /\ loop' = loop
    BY <1>2 DEF Connect
  <2>2. Consecutive(<<>>, Top')
    BY DEF Consecutive
  <2> QED
    BY <1>1, <2>1, <2>2 DEF Ordered
<1>3. CASE LoseConnection \/ IncompleteBlock
  <2>1. status' = "disconnected" /\ blockHashes' = blockHashes /\ loop' = <<>>
    BY <1>3 DEF LoseConnection, IncompleteBlock, messageVars
  <2>2. Top' = Top /\ AgainBelow(<<>>, lastBlock)
    BY <1>1, <2>1 DEF Top, AgainBelow
  <2> QED
    BY <1>1, <2>1, <2>2 DEF Ordered
<1> QED
  BY <1>2, <1>3

LEMMA OrderedHandshake ==
  ASSUME Typed, Typed', Ordered, Handshake
  PROVE  Ordered'
<1> DEFINE l == FilterLoad(bloomFilter')
           ask == IF lastBlock < height THEN <<GetBlocks(lastBlock)>> ELSE <<>>
<1>1. /\ status = "connecting" /\ wire' = <<>> /\ queue' = <<>> /\ out' = <<>> /\ current' = None
      /\ status' = "connected" /\ loop' = <<l>> \o ask
      /\ UNCHANGED <<lastBlock, blockHashes, requested, height>>
  BY DEF Typed, Stages, Handshake, Accept, Connected, nodeVars
<1>2. /\ blockHashes = <<>> /\ lastBlock <= height /\ \A b \in Block : requested[b] = 0
      /\ lastBlock \in 0..Length /\ lastBlock \in Nat /\ height \in Nat /\ bloomFilter' \in Filter
  <2>1. bloomFilter' \in Filter
    BY <1>1 DEF Typed, Stages, Connected
  <2>2. lastBlock \in 0..Length /\ lastBlock \in Nat /\ height \in Nat
    BY MessageAssumption DEF Typed, MessagesTypeOK
  <2> QED
    BY <1>1, <2>1, <2>2 DEF Ordered
<1>3. /\ l \in OutMessage /\ l \in WayMessage /\ CopyOf[l] = <<>> /\ AskOf[l] = <<>>
  BY <1>2, MessageTypes, PartsOf, OutIsLoop DEF WayMessage
<1> HIDE DEF l
<1>4. ask \in Seq(OutMessage) /\ ask \in Seq(WayMessage) /\ Gather(CopyOf, ask) = <<>> /\ Gather(AskOf, ask) = ask
  <2> DEFINE g == GetBlocks(lastBlock)
  <2>1. g \in OutMessage /\ g \in WayMessage /\ CopyOf[g] = <<>> /\ AskOf[g] = <<g>>
    BY <1>2, MessageTypes, PartsOf, OutIsLoop DEF WayMessage
  <2>2. ask = <<g>> \/ ask = <<>>
    OBVIOUS
  <2> HIDE DEF ask, g
  <2>3. <<g>> \in Seq(OutMessage) /\ <<g>> \in Seq(WayMessage) /\ <<>> \in Seq(OutMessage) /\ <<>> \in Seq(WayMessage)
    BY <2>1
  <2>4. Gather(CopyOf, <<g>>) = <<>> /\ Gather(AskOf, <<g>>) = <<g>>
    BY <2>1, PartTypes, GatherOne
  <2>5. Gather(CopyOf, <<>>) = <<>> /\ Gather(AskOf, <<>>) = <<>>
    BY <2>3, PartTypes, GatherType
  <2> QED
    BY <2>2, <2>3, <2>4, <2>5
<1> HIDE DEF ask
<1>5. <<l>> \in Seq(WayMessage) /\ <<l>> \in Seq(OutMessage) /\ loop' = Join(<<l>>, ask)
  BY <1>1, <1>3 DEF Join
<1>6. loop' \in Seq(OutMessage) /\ loop' \in Seq(WayMessage)
  BY <1>4, <1>5, JoinGroups
<1>7. Gather(CopyOf, loop') = <<>> /\ Gather(AskOf, loop') = ask
  <2>1. Gather(CopyOf, <<l>>) = <<>> /\ Gather(AskOf, <<l>>) = <<>>
    BY <1>3, PartTypes, GatherOne
  <2>2. /\ Gather(CopyOf, loop') = Gather(CopyOf, <<l>>) \o Gather(CopyOf, ask)
        /\ Gather(AskOf, loop') = Gather(AskOf, <<l>>) \o Gather(AskOf, ask)
    <3>1. PICK f \in Seq(WayMessage) : f = <<l>>
      BY <1>5
    <3>2. ask \in Seq(WayMessage) /\ loop' = Join(f, ask)
      BY <1>4, <1>5, <3>1
    <3>3. /\ Gather(CopyOf, loop') = Gather(CopyOf, f) \o Gather(CopyOf, ask)
          /\ Gather(AskOf, loop') = Gather(AskOf, f) \o Gather(AskOf, ask)
      BY <3>2, PartTypes, GatherJoin
    <3> QED
      BY <3>1, <3>3
  <2>3. <<>> \o <<>> = <<>> /\ <<>> \o ask = ask
    BY <1>4, Associative
  <2> QED
    BY <1>4, <2>1, <2>2, <2>3
<1>8. OnWay' = loop'
  <2>1. <<>> \o loop' = loop'
    BY <1>6, Associative
  <2> QED
    BY <1>1, <2>1 DEF OnWay
<1>9. Flow' = <<>> /\ Asks' = ask
  BY <1>7, <1>8 DEF Flow, Asks
<1>10. Handed' = <<>>
  <2>1. Gather(HandedBy, <<>>) = <<>> /\ <<>> \o <<>> = <<>>
    <3>1. <<>> \in Seq(CallbackBlock) /\ <<>> \o <<>> = <<>>
      OBVIOUS
    <3> QED
      BY <3>1, PartTypes, GatherType
  <2> QED
    BY <1>1, <2>1 DEF Handed
<1>11. Top' = lastBlock
  BY <1>1, <1>2 DEF Top
<1>12. Covered(<<>>, <<>>, lastBlock, lastBlock)
  <2>1. ToSet(<<>>) = {} /\ (lastBlock + 1)..lastBlock = {}
    BY <1>2 DEF ToSet
  <2>2. InLine(<<>>, lastBlock) /\ ComesInLine(<<>>, <<>>, lastBlock)
    BY DEF InLine, ComesInLine
  <2> QED
    BY <1>2, <2>1, <2>2 DEF Covered
<1>13. \A b \in Block : Count(<<>>, b) = 0
  <2>1. <<>> \in Seq(Block)
    OBVIOUS
  <2> QED
    BY <2>1, CountConcat
<1>14. AgainBelow(loop', lastBlock)
  BY <1>6, AgainNot
<1>15. Consecutive(<<>>, lastBlock)
  BY DEF Consecutive
<1>16. Asked'
  <2>1. CASE lastBlock < height
    <3>1. Asks' = <<GetBlocks(lastBlock)>>
      BY <1>9, <2>1 DEF ask
    <3> QED
      BY <1>11, <3>1 DEF Asked, GetBlocks
  <2>2. CASE ~(lastBlock < height)
    <3>1. Asks' = <<>> /\ Top' = height'
      BY <1>1, <1>2, <1>9, <1>11, <2>2 DEF ask
    <3> QED
      BY <3>1 DEF Asked
  <2> QED
    BY <2>1, <2>2
<1>17. Covered(Flow, Handed, lastBlock, Top)'
  BY <1>1, <1>9, <1>10, <1>11, <1>12
<1> QED
  BY <1>1, <1>2, <1>9, <1>10, <1>11, <1>13, <1>14, <1>15, <1>16, <1>17 DEF Ordered, Connected

LEMMA OrderedInit ==
  ASSUME Init
  PROVE  Ordered
<1>1. lastBlock = 0 /\ blockHashes = <<>> /\ loop = <<>> /\ status = "disconnected" /\ height = FirstHeight
  BY DEF Init
<1>2. 0 <= FirstHeight
  BY MessageAssumption
<1> QED
  BY <1>1, <1>2 DEF Ordered, Connected, Consecutive, AgainBelow

LEMMA OrderedStutter ==
  ASSUME Ordered, UNCHANGED vars
  PROVE  Ordered'
<1>1. UNCHANGED <<lastBlock, blockHashes, requested, status, height, loop, out, wire, queue, current>>
  BY DEF vars, managerVars, messageVars, nodeVars
<1>2. Flow' = Flow /\ Asks' = Asks /\ Handed' = Handed /\ AgainBelow(loop', lastBlock)
  BY <1>1 DEF Flow, Asks, Handed, OnWay, Ordered
<1> QED
  BY <1>1, <1>2, OrderedKept

LEMMA OrderedNext ==
  ASSUME Typed, Ordered, [Next]_vars
  PROVE  Ordered'
<1>1. Typed'
  BY NextTyped
<1>2. AcceptInv => Ordered'
  BY <1>1, OrderedNoBlocks, OrderedBlocks
<1> QED
  BY <1>1, <1>2, OrderedNode, OrderedMine, OrderedAnnounce, OrderedSend, OrderedRequestAgain, OrderedMerkleblock,
     OrderedTx, OrderedConnection, OrderedHandshake, OrderedRelayedTransaction, OrderedRelayedBlock,
     OrderedStutter DEF Next

LEMMA FirstInOrder ==
  ASSUME Typed, Ordered
  PROVE  InOrder
<1> SUFFICES ASSUME queue # <<>>, Head(queue).type = "block" PROVE Head(queue).block <= lastBlock + 1
  BY DEF InOrder
<1> DEFINE m == Head(queue)
           b == m.block
           g == Gather(HandedBy, Tail(queue))
           c == IF current = None THEN <<>> ELSE <<current.block>>
<1>1. queue \in Seq(CallbackBlock) /\ Tail(queue) \in Seq(CallbackBlock) /\ m \in CallbackBlock
      /\ b \in Block /\ Connected
  BY TailFacts, CallbackTypes DEF Typed, Queues, Stages
<1>2. Gather(HandedBy, queue) = <<b>> \o g /\ g \in Seq(Block)
  <2>1. HandedBy[m] = <<b>>
    BY <1>1 DEF HandedBy
  <2> QED
    BY <1>1, <2>1, PartTypes, GatherTail, GatherType
<1>3. c \in Seq(Block) /\ Handed = (<<b>> \o g) \o c
  <2>1. current # None => current.block \in Block
    BY DEF Typed, MessagesTypeOK
  <2> QED
    BY <1>2, <2>1 DEF Handed
<1> HIDE DEF m, b, g, c
<1>4. PICK r \in Seq(Block) : Handed = <<b>> \o r
  <2>1. <<b>> \in Seq(Block) /\ g \in Seq(Block)
    BY <1>1, <1>2
  <2>2. PICK f \in Seq(Block) : f = <<b>>
    BY <2>1
  <2>3. Join(Join(f, g), c) = Join(f, Join(g, c)) /\ Join(g, c) \in Seq(Block)
    BY <1>3, <2>1, JoinGroups
  <2> QED
    BY <1>3, <2>2, <2>3 DEF Join
<1>5. Handed \in Seq(Block) /\ Handed # <<>> /\ Handed[1] = b
  BY <1>1, <1>4, FirstOf
<1>6. InLine(Handed, lastBlock)
  BY <1>1 DEF Ordered, Covered
<1>7. b <= lastBlock + 1
  <2>1. 1 \in DOMAIN Handed /\ \A j \in DOMAIN Handed : ~(j < 1)
    BY <1>5
  <2> QED
    BY <1>5, <1>6, <2>1 DEF InLine
<1> QED
  BY <1>7 DEF b, m

\* The blocks are handed to the manager in the order of the chain, however many of them
\* are requested again meanwhile, and whatever else is asked for and announced.
THEOREM BlocksAlwaysInOrder == Spec => []InOrder
<1>1. Init => Typed /\ Ordered
  BY InitTyped, OrderedInit
<1>2. Typed /\ Ordered /\ [Next]_vars => Typed' /\ Ordered'
  BY NextTyped, OrderedNext
<1>3. Typed /\ Ordered => InOrder
  BY FirstInOrder
<1> QED
  BY <1>1, <1>2, <1>3, PTL DEF Spec

----------------------------------------------------------------------------
(***************************************************************************)
(* Transactions before their block.  Each message gives some transactions  *)
(* and needs others: a queue is supplied when what a message needs was     *)
(* given before it, and a transaction is only given when the wallet will   *)
(* know it for its own: it pays one of the addresses, or spends from one   *)
(* given before.                                                           *)
(***************************************************************************)
\* C is what each message of s gives.
Given(s, C) == UNION {C[s[j]] : j \in DOMAIN s}

GivenBefore(s, C, i) == UNION {C[s[j]] : j \in 1..(i - 1)}

\* t is known by one who has n addresses and the transactions of A.
Reason(t, n, A) == (\E a \in Pays[t] : a < n) \/ Spends[t] \cap A # {}

\* What the message m needs of N, after A: what it gives itself comes first.
Served(m, C, D, N, n, A) ==
  /\ (D[m] \cap N) \ FalsePositives \subseteq A \cup C[m]
  /\ \A t \in C[m] : Reason(t, n, A)

Supplied(s, C, D, N, n, A) ==
  \A i \in DOMAIN s : Served(s[i], C, D, N, n, A \cup GivenBefore(s, C, i))

LEMMA ServedMore ==
  ASSUME NEW M, NEW m \in M, NEW C \in [M -> SUBSET Tx], NEW D \in [M -> SUBSET Tx],
         NEW N, NEW N2, N2 \cap D[m] \subseteq N, NEW n \in Nat, NEW n2 \in Nat, n <= n2,
         NEW A, NEW B, A \subseteq B, Served(m, C, D, N, n, A)
  PROVE  Served(m, C, D, N2, n2, B)
<1>1. (D[m] \cap N2) \ FalsePositives \subseteq B \cup C[m]
  BY DEF Served
<1>2. ASSUME NEW t \in C[m] PROVE Reason(t, n2, B)
  <2>1. t \in Tx /\ Reason(t, n, A)
    BY DEF Served
  <2>2. Pays[t] \subseteq Nat
    BY <2>1, MessageAssumption
  <2>3. \A a \in Pays[t] : a < n => a < n2
    BY <2>2
  <2> QED
    BY <2>1, <2>3 DEF Reason
<1> QED
  BY <1>1, <1>2 DEF Served

\* More addresses, more given before, and less needed.
LEMMA SuppliedMore ==
  ASSUME NEW M, NEW s \in Seq(M), NEW C \in [M -> SUBSET Tx], NEW D \in [M -> SUBSET Tx],
         NEW N, NEW N2, \A i \in DOMAIN s : N2 \cap D[s[i]] \subseteq N,
         NEW n \in Nat, NEW n2 \in Nat, n <= n2,
         NEW A, NEW B, A \subseteq B, Supplied(s, C, D, N, n, A)
  PROVE  Supplied(s, C, D, N2, n2, B)
<1> SUFFICES ASSUME NEW i \in DOMAIN s
             PROVE  Served(s[i], C, D, N2, n2, B \cup GivenBefore(s, C, i))
  BY DEF Supplied
<1>1. s[i] \in M /\ N2 \cap D[s[i]] \subseteq N
  OBVIOUS
<1>2. Served(s[i], C, D, N, n, A \cup GivenBefore(s, C, i))
  BY DEF Supplied
<1>3. A \cup GivenBefore(s, C, i) \subseteq B \cup GivenBefore(s, C, i)
  OBVIOUS
<1> QED
  BY <1>1, <1>2, <1>3, ServedMore

LEMMA GivenType ==
  ASSUME NEW M, NEW s \in Seq(M), NEW C \in [M -> SUBSET Tx]
  PROVE  Given(s, C) \in SUBSET Tx
<1>1. \A i \in DOMAIN s : C[s[i]] \in SUBSET Tx
  OBVIOUS
<1> QED
  BY <1>1 DEF Given

LEMMA GivenConcat ==
  ASSUME NEW M, NEW s \in Seq(M), NEW t \in Seq(M), NEW C
  PROVE  Given(s \o t, C) = Given(s, C) \cup Given(t, C)
<1>1. /\ DOMAIN s = 1..Len(s) /\ DOMAIN t = 1..Len(t) /\ DOMAIN (s \o t) = 1..(Len(s) + Len(t))
      /\ Len(s) \in Nat /\ Len(t) \in Nat
      /\ \A i \in 1..(Len(s) + Len(t)) : (s \o t)[i] = IF i <= Len(s) THEN s[i] ELSE t[i - Len(s)]
  BY ConcatFacts
<1>2. ASSUME NEW x, x \in Given(s \o t, C) PROVE x \in Given(s, C) \cup Given(t, C)
  <2>1. PICK i \in 1..(Len(s) + Len(t)) : x \in C[(s \o t)[i]]
    BY <1>1, <1>2 DEF Given
  <2>2. CASE i <= Len(s)
    <3>1. i \in DOMAIN s /\ (s \o t)[i] = s[i]
      BY <1>1, <2>2
    <3> QED
      BY <2>1, <3>1 DEF Given
  <2>3. CASE ~(i <= Len(s))
    <3>1. i - Len(s) \in DOMAIN t /\ (s \o t)[i] = t[i - Len(s)]
      BY <1>1, <2>3
    <3> QED
      BY <2>1, <3>1 DEF Given
  <2> QED
    BY <2>2, <2>3
<1>3. ASSUME NEW x, x \in Given(s, C) PROVE x \in Given(s \o t, C)
  <2>1. PICK i \in DOMAIN s : x \in C[s[i]]
    BY <1>3 DEF Given
  <2>2. i \in DOMAIN (s \o t) /\ (s \o t)[i] = s[i]
    BY <1>1
  <2> QED
    BY <2>1, <2>2 DEF Given
<1>4. ASSUME NEW x, x \in Given(t, C) PROVE x \in Given(s \o t, C)
  <2>1. PICK i \in DOMAIN t : x \in C[t[i]]
    BY <1>4 DEF Given
  <2>2. Len(s) + i \in DOMAIN (s \o t) /\ (s \o t)[Len(s) + i] = t[i]
    BY <1>1
  <2> QED
    BY <2>1, <2>2 DEF Given
<1> QED
  BY <1>2, <1>3, <1>4

\* What comes before a message of the second sequence.
LEMMA BeforeConcat ==
  ASSUME NEW M, NEW s \in Seq(M), NEW t \in Seq(M), NEW C
  PROVE  /\ \A i \in DOMAIN s : GivenBefore(s \o t, C, i) = GivenBefore(s, C, i)
         /\ \A i \in DOMAIN t :
              GivenBefore(s \o t, C, Len(s) + i) = Given(s, C) \cup GivenBefore(t, C, i)
<1>1. /\ DOMAIN s = 1..Len(s) /\ DOMAIN t = 1..Len(t) /\ DOMAIN (s \o t) = 1..(Len(s) + Len(t))
      /\ Len(s) \in Nat /\ Len(t) \in Nat
      /\ \A i \in 1..(Len(s) + Len(t)) : (s \o t)[i] = IF i <= Len(s) THEN s[i] ELSE t[i - Len(s)]
  BY ConcatFacts
<1>2. ASSUME NEW i \in DOMAIN s PROVE GivenBefore(s \o t, C, i) = GivenBefore(s, C, i)
  <2>1. \A j \in 1..(i - 1) : (s \o t)[j] = s[j]
    BY <1>1
  <2> QED
    BY <2>1 DEF GivenBefore
<1>3. ASSUME NEW i \in DOMAIN t
      PROVE  GivenBefore(s \o t, C, Len(s) + i) = Given(s, C) \cup GivenBefore(t, C, i)
  <2>1. ASSUME NEW x, x \in GivenBefore(s \o t, C, Len(s) + i)
        PROVE  x \in Given(s, C) \cup GivenBefore(t, C, i)
    <3>1. PICK j \in 1..(Len(s) + i - 1) : x \in C[(s \o t)[j]]
      BY <2>1 DEF GivenBefore
    <3>2. CASE j <= Len(s)
      <4>1. j \in DOMAIN s /\ (s \o t)[j] = s[j]
        BY <1>1, <3>2
      <4> QED
        BY <3>1, <4>1 DEF Given
    <3>3. CASE ~(j <= Len(s))
      <4>1. j - Len(s) \in 1..(i - 1) /\ (s \o t)[j] = t[j - Len(s)]
        BY <1>1, <3>3
      <4> QED
        BY <3>1, <4>1 DEF GivenBefore
    <3> QED
      BY <3>2, <3>3
  <2>2. ASSUME NEW x, x \in Given(s, C) PROVE x \in GivenBefore(s \o t, C, Len(s) + i)
    <3>1. PICK j \in DOMAIN s : x \in C[s[j]]
      BY <2>2 DEF Given
    <3>2. j \in 1..((Len(s) + i) - 1) /\ (s \o t)[j] = s[j]
      BY <1>1
    <3>3. C[(s \o t)[j]] \in {C[(s \o t)[k]] : k \in 1..((Len(s) + i) - 1)}
      BY <3>2
    <3>4. x \in C[(s \o t)[j]]
      BY <3>1, <3>2
    <3> QED
      BY <3>3, <3>4, Zenon DEF GivenBefore
  <2>3. ASSUME NEW x, x \in GivenBefore(t, C, i) PROVE x \in GivenBefore(s \o t, C, Len(s) + i)
    <3>1. PICK j \in 1..(i - 1) : x \in C[t[j]]
      BY <2>3 DEF GivenBefore
    <3>2. Len(s) + j \in 1..((Len(s) + i) - 1) /\ (s \o t)[Len(s) + j] = t[j]
      BY <1>1
    <3>3. C[(s \o t)[Len(s) + j]] \in {C[(s \o t)[k]] : k \in 1..((Len(s) + i) - 1)}
      BY <3>2
    <3>4. x \in C[(s \o t)[Len(s) + j]]
      BY <3>1, <3>2
    <3> QED
      BY <3>3, <3>4, Zenon DEF GivenBefore
  <2> QED
    BY <2>1, <2>2, <2>3
<1> QED
  BY <1>2, <1>3

\* One after the other; and back.
LEMMA SuppliedConcat ==
  ASSUME NEW M, NEW s \in Seq(M), NEW t \in Seq(M), NEW C, NEW D, NEW N, NEW n, NEW A
  PROVE  Supplied(s \o t, C, D, N, n, A)
           <=> Supplied(s, C, D, N, n, A) /\ Supplied(t, C, D, N, n, A \cup Given(s, C))
<1>1. /\ DOMAIN s = 1..Len(s) /\ DOMAIN t = 1..Len(t) /\ DOMAIN (s \o t) = 1..(Len(s) + Len(t))
      /\ Len(s) \in Nat /\ Len(t) \in Nat
      /\ \A i \in 1..(Len(s) + Len(t)) : (s \o t)[i] = IF i <= Len(s) THEN s[i] ELSE t[i - Len(s)]
  BY ConcatFacts
<1> DEFINE Good(i) == Served((s \o t)[i], C, D, N, n, A \cup GivenBefore(s \o t, C, i))
<1>2. ASSUME NEW i \in DOMAIN s
      PROVE  /\ i \in DOMAIN (s \o t)
             /\ Good(i) <=> Served(s[i], C, D, N, n, A \cup GivenBefore(s, C, i))
  <2>1. i \in DOMAIN (s \o t) /\ (s \o t)[i] = s[i]
    BY <1>1
  <2>2. GivenBefore(s \o t, C, i) = GivenBefore(s, C, i)
    BY BeforeConcat
  <2> QED
    BY <2>1, <2>2
<1>3. ASSUME NEW i \in DOMAIN t
      PROVE  /\ Len(s) + i \in DOMAIN (s \o t)
             /\ Good(Len(s) + i) <=> Served(t[i], C, D, N, n, (A \cup Given(s, C)) \cup GivenBefore(t, C, i))
  <2>1. Len(s) + i \in DOMAIN (s \o t) /\ (s \o t)[Len(s) + i] = t[i]
    BY <1>1
  <2>2. GivenBefore(s \o t, C, Len(s) + i) = Given(s, C) \cup GivenBefore(t, C, i)
    BY BeforeConcat
  <2>3. A \cup GivenBefore(s \o t, C, Len(s) + i) = (A \cup Given(s, C)) \cup GivenBefore(t, C, i)
    BY <2>2
  <2> QED
    BY <2>1, <2>3
<1>4. \A i \in DOMAIN (s \o t) : i \in DOMAIN s \/ \E j \in DOMAIN t : i = Len(s) + j
  <2>1. ASSUME NEW i \in 1..(Len(s) + Len(t)), ~(i <= Len(s)) PROVE \E j \in DOMAIN t : i = Len(s) + j
    <3>1. i - Len(s) \in DOMAIN t /\ i = Len(s) + (i - Len(s))
      BY <1>1, <2>1
    <3> QED
      BY <3>1
  <2> QED
    BY <1>1, <2>1
<1>5. Supplied(s \o t, C, D, N, n, A) <=> \A i \in DOMAIN (s \o t) : Good(i)
  BY DEF Supplied
<1> HIDE DEF Good
<1> QED
  BY <1>2, <1>3, <1>4, <1>5 DEF Supplied

LEMMA SuppliedOne ==
  ASSUME NEW M, NEW m \in M, NEW C, NEW D, NEW N, NEW n, NEW A
  PROVE  /\ <<m>> \in Seq(M) /\ Given(<<m>>, C) = C[m]
         /\ Supplied(<<m>>, C, D, N, n, A) <=> Served(m, C, D, N, n, A)
<1>1. <<m>> \in Seq(M) /\ DOMAIN <<m>> = {1} /\ <<m>>[1] = m
  OBVIOUS
<1>2. Given(<<m>>, C) = C[m]
  BY <1>1 DEF Given
<1>3. GivenBefore(<<m>>, C, 1) = {}
  BY DEF GivenBefore
<1>4. A \cup GivenBefore(<<m>>, C, 1) = A
  BY <1>3
<1> QED
  BY <1>1, <1>2, <1>4 DEF Supplied

LEMMA SuppliedNone ==
  ASSUME NEW C, NEW D, NEW N, NEW n, NEW A
  PROVE  Given(<<>>, C) = {} /\ Supplied(<<>>, C, D, N, n, A)
BY DEF Given, Supplied

\* The first message is taken.
LEMMA SuppliedTail ==
  ASSUME NEW M, NEW s \in Seq(M), s # <<>>, NEW C, NEW D, NEW N, NEW n, NEW A,
         Supplied(s, C, D, N, n, A)
  PROVE  /\ Served(Head(s), C, D, N, n, A)
         /\ Supplied(Tail(s), C, D, N, n, A \cup C[Head(s)])
         /\ Given(s, C) = C[Head(s)] \cup Given(Tail(s), C)
<1>1. Head(s) \in M /\ Tail(s) \in Seq(M) /\ s = <<Head(s)>> \o Tail(s) /\ <<Head(s)>> \in Seq(M)
  <2>1. Head(s) \in M /\ Tail(s) \in Seq(M) /\ <<Head(s)>> \in Seq(M)
    BY TailFacts
  <2>2. s = <<Head(s)>> \o Tail(s)
    OBVIOUS
  <2> QED
    BY <2>1, <2>2
<1> DEFINE h == <<Head(s)>>
           t == Tail(s)
<1>2. Given(h, C) = C[Head(s)] /\ (Supplied(h, C, D, N, n, A) <=> Served(Head(s), C, D, N, n, A))
  BY <1>1, SuppliedOne
<1> HIDE DEF h, t
<1>3. /\ Given(h \o t, C) = Given(h, C) \cup Given(t, C)
      /\ Supplied(h \o t, C, D, N, n, A) <=> Supplied(h, C, D, N, n, A) /\ Supplied(t, C, D, N, n, A \cup Given(h, C))
  <2>1. h \in Seq(M) /\ t \in Seq(M)
    BY <1>1 DEF h, t
  <2> QED
    BY <2>1, GivenConcat, SuppliedConcat
<1>4. s = h \o t
  BY <1>1 DEF h, t
<1> QED
  BY <1>2, <1>3, <1>4 DEF t

\* A message is added.
LEMMA GivenAppend ==
  ASSUME NEW M, NEW s \in Seq(M), NEW m \in M, NEW C
  PROVE  Given(Append(s, m), C) = Given(s, C) \cup C[m]
<1> DEFINE one == <<m>>
<1>1. one \in Seq(M) /\ DOMAIN one = {1} /\ one[1] = m
  OBVIOUS
<1>2. Append(s, m) = s \o one
  OBVIOUS
<1> HIDE DEF one
<1>3. Given(s \o one, C) = Given(s, C) \cup Given(one, C)
  BY <1>1, GivenConcat
<1>4. Given(one, C) = C[m]
  BY <1>1 DEF Given
<1> QED
  BY <1>2, <1>3, <1>4

LEMMA SuppliedAppend ==
  ASSUME NEW M, NEW s \in Seq(M), NEW m \in M, NEW C, NEW D, NEW N, NEW n, NEW A
  PROVE  Supplied(Append(s, m), C, D, N, n, A)
           <=> Supplied(s, C, D, N, n, A) /\ Served(m, C, D, N, n, A \cup Given(s, C))
<1> DEFINE one == <<m>>
<1>1. /\ one \in Seq(M)
      /\ Supplied(one, C, D, N, n, A \cup Given(s, C)) <=> Served(m, C, D, N, n, A \cup Given(s, C))
  BY SuppliedOne
<1>2. Append(s, m) = s \o one
  OBVIOUS
<1> HIDE DEF one
<1>3. Supplied(s \o one, C, D, N, n, A)
        <=> Supplied(s, C, D, N, n, A) /\ Supplied(one, C, D, N, n, A \cup Given(s, C))
  BY <1>1, SuppliedConcat
<1> QED
  BY <1>1, <1>2, <1>3

\* Messages that neither give nor need.
LEMMA SuppliedIdle ==
  ASSUME NEW M, NEW s \in Seq(M), NEW C, NEW D, NEW N, NEW n, NEW A,
         \A i \in DOMAIN s : C[s[i]] = {} /\ D[s[i]] = {}
  PROVE  Given(s, C) = {} /\ Supplied(s, C, D, N, n, A)
BY DEF Given, Supplied, Served

----------------------------------------------------------------------------
(***************************************************************************)
(* What gives and needs, on each queue, and the invariant.                 *)
(***************************************************************************)
Ups(bs) == UNION {UpTo(b) : b \in ToSet(bs)}

\* What the callbacks on q give the wallet; a block needs all of its transactions.
CallbackGives == [m \in CallbackBlock |-> IF m.type = "tx" THEN {m.tx} \ FalsePositives ELSE {}]
CallbackNeeds == [m \in CallbackBlock |-> IF m.type = "block" THEN m.txs ELSE {}]

\* What the node has sent.
WireGives == [m \in WireMessage |-> IF m.type = "tx" THEN {m.tx} \ FalsePositives ELSE {}]
WireNeeds == [m \in WireMessage |-> IF m.type = "merkleblock" THEN m.matched ELSE {}]

\* What the peer has asked for, or will have.  The node sends of a block what it was
\* not told of, so the others have to come before.
AskGives == [m \in LoopMessage |-> IF m.type = "getdata" THEN ToSet(m.txs) \ FalsePositives ELSE {}]
AskNeeds == [m \in LoopMessage |-> IF m.type = "getdata" THEN Ups(m.blocks) ELSE {}]

\* What the peer will ask for, of what is announced.
ToldGives == [m \in WireMessage |-> IF m.type = "inv" THEN ToSet(m.txs) \ FalsePositives ELSE {}]
ToldNeeds == [m \in WireMessage |-> IF m.type = "inv" THEN Ups(m.blocks) ELSE {}]

\* The requests, sent or not.
Outgoing == out \o loop

\* What the wallet has or will have: with what is on q, what the node has sent, what it
\* is asked for, and what is announced.
AtManager == wallet \cup Given(queue, CallbackGives)
OnWire == AtManager \cup Given(wire, WireGives)
InRequests == OnWire \cup Given(Outgoing, AskGives)
InAll == InRequests \cup Given(wire, ToldGives)

InSupply ==
  /\ Supplied(queue, CallbackGives, CallbackNeeds, Tx, addresses, wallet)
  /\ Supplied(wire, WireGives, WireNeeds, told, addresses, AtManager)
  /\ Supplied(Outgoing, AskGives, AskNeeds, told, addresses, OnWire)
  /\ Supplied(wire, ToldGives, ToldNeeds, told, addresses, InRequests)

\* What the peer counts on having, and what the node has told of, is under way.
CountedOn ==
  /\ Connected /\ current # None =>
       (current.txs \ current.missing) \ FalsePositives \subseteq AtManager
  /\ told \ FalsePositives \subseteq InAll
  /\ status # "disconnected" =>
       /\ knownTx \subseteq told /\ knownTx \ FalsePositives \subseteq InRequests
       /\ (Ups(blockHashes) \cap told) \ FalsePositives \subseteq InRequests

\* A filter is made of the wallet's addresses and outputs.
Own(f, n, txs) == f.addresses <= n /\ f.outputs \subseteq txs

FiltersOwn ==
  /\ nodeFilter \in Filter => nodeFilter.outputs \subseteq InAll /\ nodeFilter.addresses <= addresses
  /\ bloomFilter \in Filter => Own(bloomFilter, addresses, wallet)
  /\ \A m \in ToSet(Outgoing) : m.type = "filterload" => Own(m.filter, addresses, wallet)

\* Announced transactions, and blocks that were found.
WireReal(m) ==
  /\ m.type = "inv" => ToSet(m.txs) \subseteq told /\ ToSet(m.blocks) \subseteq 1..height
  /\ m.type = "merkleblock" => m.matched \subseteq UpTo(height)

AskReal(m) ==
  m.type = "getdata" => ToSet(m.txs) \subseteq told /\ ToSet(m.blocks) \subseteq 1..height

Real ==
  /\ \A m \in ToSet(wire) : WireReal(m)
  /\ \A m \in ToSet(Outgoing) : AskReal(m)
  /\ status # "disconnected" => ToSet(blockHashes) \subseteq 1..height

InTime == InSupply /\ CountedOn /\ FiltersOwn /\ Real

----------------------------------------------------------------------------
LEMMA UpToType ==
  /\ \A b \in Block : UpTo(b) \in SUBSET Tx
  /\ \A bs \in Seq(Block) : Ups(bs) \in SUBSET Tx
<1>1. ASSUME NEW b \in Block PROVE UpTo(b) \in SUBSET Tx
  <2>1. ASSUME NEW c \in 1..b PROVE ToSet(TxIn[c]) \in SUBSET Tx
    <3>1. c \in Block
      BY MessageAssumption DEF Block
    <3> QED
      BY <3>1, MessageAssumption, RangeType
  <2> QED
    BY <2>1 DEF UpTo
<1>2. ASSUME NEW bs \in Seq(Block) PROVE Ups(bs) \in SUBSET Tx
  <2>1. ToSet(bs) \in SUBSET Block
    BY RangeType
  <2> QED
    BY <1>1, <2>1 DEF Ups
<1> QED
  BY <1>1, <1>2

LEMMA UpToMore ==
  ASSUME NEW b \in Int, NEW c \in Int, b <= c
  PROVE  UpTo(b) \subseteq UpTo(c)
<1>1. 1..b \subseteq 1..c
  OBVIOUS
<1> QED
  BY <1>1 DEF UpTo

LEMMA UpsMined ==
  ASSUME NEW h \in Int, NEW bs, ToSet(bs) \subseteq 1..h
  PROVE  Ups(bs) \subseteq UpTo(h)
<1>1. ASSUME NEW b \in ToSet(bs) PROVE UpTo(b) \subseteq UpTo(h)
  <2>1. b \in 1..h
    OBVIOUS
  <2> QED
    BY <2>1, UpToMore
<1> QED
  BY <1>1 DEF Ups

LEMMA SupplyTypes ==
  /\ CallbackGives \in [CallbackBlock -> SUBSET Tx] /\ CallbackNeeds \in [CallbackBlock -> SUBSET Tx]
  /\ WireGives \in [WireMessage -> SUBSET Tx] /\ WireNeeds \in [WireMessage -> SUBSET Tx]
  /\ AskGives \in [LoopMessage -> SUBSET Tx] /\ AskNeeds \in [LoopMessage -> SUBSET Tx]
  /\ ToldGives \in [WireMessage -> SUBSET Tx] /\ ToldNeeds \in [WireMessage -> SUBSET Tx]
<1>1. \A m \in CallbackBlock :
        /\ (IF m.type = "tx" THEN {m.tx} \ FalsePositives ELSE {}) \in SUBSET Tx
        /\ (IF m.type = "block" THEN m.txs ELSE {}) \in SUBSET Tx
  BY CallbackTypes
<1>2. ASSUME NEW m \in WireMessage
      PROVE  /\ (IF m.type = "tx" THEN {m.tx} \ FalsePositives ELSE {}) \in SUBSET Tx
             /\ (IF m.type = "merkleblock" THEN m.matched ELSE {}) \in SUBSET Tx
             /\ (IF m.type = "inv" THEN ToSet(m.txs) \ FalsePositives ELSE {}) \in SUBSET Tx
             /\ (IF m.type = "inv" THEN Ups(m.blocks) ELSE {}) \in SUBSET Tx
  <2>1. m.type = "inv" => ToSet(m.txs) \in SUBSET Tx /\ Ups(m.blocks) \in SUBSET Tx
    BY WireTypes, RangeType, UpToType
  <2> QED
    BY <2>1, WireTypes
<1>3. ASSUME NEW m \in LoopMessage
      PROVE  /\ (IF m.type = "getdata" THEN ToSet(m.txs) \ FalsePositives ELSE {}) \in SUBSET Tx
             /\ (IF m.type = "getdata" THEN Ups(m.blocks) ELSE {}) \in SUBSET Tx
  <2>1. m.type = "getdata" => ToSet(m.txs) \in SUBSET Tx /\ Ups(m.blocks) \in SUBSET Tx
    BY LoopTypes, RangeType, UpToType
  <2> QED
    BY <2>1
<1> QED
  BY <1>1, <1>2, <1>3 DEF CallbackGives, CallbackNeeds, WireGives, WireNeeds, AskGives, AskNeeds,
     ToldGives, ToldNeeds

LEMMA CallbackSupply ==
  ASSUME NEW m \in CallbackBlock
  PROVE  /\ CallbackGives[m] = IF m.type = "tx" THEN {m.tx} \ FalsePositives ELSE {}
         /\ CallbackNeeds[m] = IF m.type = "block" THEN m.txs ELSE {}
BY DEF CallbackGives, CallbackNeeds

LEMMA WireSupply ==
  ASSUME NEW m \in WireMessage
  PROVE  /\ WireGives[m] = IF m.type = "tx" THEN {m.tx} \ FalsePositives ELSE {}
         /\ WireNeeds[m] = IF m.type = "merkleblock" THEN m.matched ELSE {}
         /\ ToldGives[m] = IF m.type = "inv" THEN ToSet(m.txs) \ FalsePositives ELSE {}
         /\ ToldNeeds[m] = IF m.type = "inv" THEN Ups(m.blocks) ELSE {}
BY DEF WireGives, WireNeeds, ToldGives, ToldNeeds

LEMMA AskSupply ==
  ASSUME NEW m \in LoopMessage
  PROVE  /\ AskGives[m] = IF m.type = "getdata" THEN ToSet(m.txs) \ FalsePositives ELSE {}
         /\ AskNeeds[m] = IF m.type = "getdata" THEN Ups(m.blocks) ELSE {}
BY DEF AskGives, AskNeeds

LEMMA RangeConcat ==
  ASSUME NEW M, NEW s \in Seq(M), NEW t \in Seq(M)
  PROVE  ToSet(s \o t) = ToSet(s) \cup ToSet(t)
<1>1. /\ DOMAIN s = 1..Len(s) /\ DOMAIN t = 1..Len(t) /\ DOMAIN (s \o t) = 1..(Len(s) + Len(t))
      /\ Len(s) \in Nat /\ Len(t) \in Nat
      /\ \A i \in 1..(Len(s) + Len(t)) : (s \o t)[i] = IF i <= Len(s) THEN s[i] ELSE t[i - Len(s)]
  BY ConcatFacts
<1>2. ASSUME NEW i \in DOMAIN (s \o t) PROVE (s \o t)[i] \in ToSet(s) \cup ToSet(t)
  <2>1. CASE i <= Len(s)
    <3>1. i \in DOMAIN s /\ (s \o t)[i] = s[i]
      BY <1>1, <2>1
    <3> QED
      BY <3>1 DEF ToSet
  <2>2. CASE ~(i <= Len(s))
    <3>1. i - Len(s) \in DOMAIN t /\ (s \o t)[i] = t[i - Len(s)]
      BY <1>1, <2>2
    <3> QED
      BY <3>1 DEF ToSet
  <2> QED
    BY <2>1, <2>2
<1>3. ASSUME NEW i \in DOMAIN s PROVE s[i] \in ToSet(s \o t)
  <2>1. i \in DOMAIN (s \o t) /\ (s \o t)[i] = s[i]
    BY <1>1
  <2> QED
    BY <2>1 DEF ToSet
<1>4. ASSUME NEW i \in DOMAIN t PROVE t[i] \in ToSet(s \o t)
  <2>1. Len(s) + i \in DOMAIN (s \o t) /\ (s \o t)[Len(s) + i] = t[i]
    BY <1>1
  <2> QED
    BY <2>1 DEF ToSet
<1> QED
  BY <1>2, <1>3, <1>4 DEF ToSet

LEMMA RangeTail ==
  ASSUME NEW M, NEW s \in Seq(M), s # <<>>
  PROVE  Head(s) \in ToSet(s) /\ ToSet(Tail(s)) \subseteq ToSet(s)
BY TailFacts DEF ToSet

LEMMA RequestTypes ==
  ASSUME Typed
  PROVE  /\ Outgoing \in Seq(LoopMessage) /\ out \in Seq(LoopMessage) /\ loop \in Seq(LoopMessage)
         /\ wire \in Seq(WireMessage) /\ queue \in Seq(CallbackBlock)
<1>1. out \in Seq(LoopMessage)
  BY OutIsLoop, SeqMonotonic DEF Typed, Queues
<1> QED
  BY <1>1, ConcatFacts DEF Typed, Queues, Outgoing

LEMMA WithGapLimitMore ==
  ASSUME NEW n \in Nat, NEW txs \in SUBSET Tx, NEW limit \in Nat
  PROVE  n <= WithGapLimit(n, txs, limit)
<1> DEFINE used == {a \in UNION {Pays[t] : t \in txs} : a < n}
           unused == CHOOSE k \in 0..n : /\ k > 0 => k - 1 \in used
                                         /\ \A a \in used : a < k
<1>1. WithGapLimit(n, txs, limit) = IF unused + limit > n THEN unused + limit ELSE n
  BY DEF WithGapLimit
<1>2. WithGapLimit(n, txs, limit) \in Nat
  BY WithGapLimitType
<1> HIDE DEF unused
<1> QED
  BY <1>1, <1>2

----------------------------------------------------------------------------
(***************************************************************************)
(* The steps of the peer, of q and of the network.                         *)
(***************************************************************************)
\* A step on q that gives the wallet nothing new, or one that only moves a request.
LEMMA InTimeKept ==
  ASSUME InTime,
         UNCHANGED <<wire, told, addresses, wallet, current, knownTx, blockHashes, nodeFilter, bloomFilter,
                     height, status>>,
         Outgoing' = Outgoing, Given(queue, CallbackGives)' = Given(queue, CallbackGives),
         Supplied(queue, CallbackGives, CallbackNeeds, Tx, addresses, wallet)'
  PROVE  InTime'
<1>1. AtManager' = AtManager
  BY DEF AtManager
<1>2. OnWire' = OnWire
  BY <1>1 DEF OnWire
<1>3. InRequests' = InRequests
  BY <1>2 DEF InRequests
<1>4. InAll' = InAll
  BY <1>3 DEF InAll
<1>5. InSupply'
  BY <1>1, <1>2, <1>3 DEF InTime, InSupply
<1>6. CountedOn'
  BY <1>1, <1>3, <1>4 DEF InTime, CountedOn, Connected
<1>7. FiltersOwn'
  BY <1>4 DEF InTime, FiltersOwn, Own
<1>8. Real'
  BY DEF InTime, Real, WireReal, AskReal
<1> QED
  BY <1>5, <1>6, <1>7, <1>8 DEF InTime

LEMMA SendInTime ==
  ASSUME Typed, InTime, Send
  PROVE  InTime'
<1>1. /\ UNCHANGED <<queue, wire, told, addresses, wallet, current, knownTx, blockHashes, nodeFilter,
                     bloomFilter, height, status>>
      /\ loop # <<>> /\ loop' = Tail(loop) /\ out' = Append(out, Head(loop))
  BY DEF Send, managerVars, messageVars, nodeVars
<1>2. out' \o loop' = out \o loop
  BY <1>1, RequestTypes, SendFacts
<1>3. Outgoing' = Outgoing
  BY <1>2 DEF Outgoing
<1>4. /\ Given(queue, CallbackGives)' = Given(queue, CallbackGives)
      /\ Supplied(queue, CallbackGives, CallbackNeeds, Tx, addresses, wallet)'
  BY <1>1 DEF InTime, InSupply
<1> QED
  BY <1>1, <1>3, <1>4, InTimeKept

LEMMA StutterInTime ==
  ASSUME InTime, UNCHANGED vars
  PROVE  InTime'
<1>1. UNCHANGED <<queue, wire, told, addresses, wallet, current, knownTx, blockHashes, nodeFilter,
                  bloomFilter, height, status, loop, out>>
  BY DEF vars, managerVars, messageVars, nodeVars
<1>2. Outgoing' = Outgoing
  BY <1>1 DEF Outgoing
<1>3. /\ Given(queue, CallbackGives)' = Given(queue, CallbackGives)
      /\ Supplied(queue, CallbackGives, CallbackNeeds, Tx, addresses, wallet)'
  BY <1>1 DEF InTime, InSupply
<1> QED
  BY <1>1, <1>2, <1>3, InTimeKept

LEMMA RelayedBlockInTime ==
  ASSUME Typed, InTime, RelayedBlock
  PROVE  InTime'
<1> DEFINE m == Head(queue)
<1>1. /\ UNCHANGED <<wire, told, addresses, wallet, current, knownTx, blockHashes, nodeFilter,
                     bloomFilter, height, status, loop, out>>
      /\ queue # <<>> /\ queue' = Tail(queue) /\ m.type = "block"
  BY DEF RelayedBlock, messageVars, nodeVars
<1>2. queue \in Seq(CallbackBlock) /\ m \in CallbackBlock
  BY <1>1, RequestTypes, TailFacts
<1>3. CallbackGives[m] = {}
  BY <1>1, <1>2, CallbackSupply
<1>4. Outgoing' = Outgoing
  BY <1>1 DEF Outgoing
<1>5. Supplied(queue, CallbackGives, CallbackNeeds, Tx, addresses, wallet)
  BY DEF InTime, InSupply
<1> HIDE DEF m
<1>6. /\ Supplied(Tail(queue), CallbackGives, CallbackNeeds, Tx, addresses, wallet \cup CallbackGives[m])
      /\ Given(queue, CallbackGives) = CallbackGives[m] \cup Given(Tail(queue), CallbackGives)
  BY <1>1, <1>2, <1>5, SuppliedTail DEF m
<1>7. wallet \cup CallbackGives[m] = wallet
  BY <1>3
<1>8. /\ Supplied(Tail(queue), CallbackGives, CallbackNeeds, Tx, addresses, wallet)
      /\ Given(queue, CallbackGives) = Given(Tail(queue), CallbackGives)
  BY <1>3, <1>6, <1>7
<1>9. /\ Given(queue, CallbackGives)' = Given(queue, CallbackGives)
      /\ Supplied(queue, CallbackGives, CallbackNeeds, Tx, addresses, wallet)'
  BY <1>1, <1>8
<1> QED
  BY <1>1, <1>4, <1>9, InTimeKept

\* The address chain grew: all that was supplied is.
LEMMA AddressesMore ==
  ASSUME Typed, InSupply, NEW n \in Nat, addresses <= n
  PROVE  /\ Supplied(queue, CallbackGives, CallbackNeeds, Tx, n, wallet)
         /\ Supplied(wire, WireGives, WireNeeds, told, n, AtManager)
         /\ Supplied(Outgoing, AskGives, AskNeeds, told, n, OnWire)
         /\ Supplied(wire, ToldGives, ToldNeeds, told, n, InRequests)
<1>1. addresses \in Nat
  BY DEF Typed, MessagesTypeOK
<1>2. /\ Supplied(queue, CallbackGives, CallbackNeeds, Tx, addresses, wallet)
      /\ Supplied(wire, WireGives, WireNeeds, told, addresses, AtManager)
      /\ Supplied(Outgoing, AskGives, AskNeeds, told, addresses, OnWire)
      /\ Supplied(wire, ToldGives, ToldNeeds, told, addresses, InRequests)
  BY DEF InSupply
<1>3. /\ queue \in Seq(CallbackBlock) /\ wire \in Seq(WireMessage) /\ Outgoing \in Seq(LoopMessage)
  BY RequestTypes
<1>4. Supplied(queue, CallbackGives, CallbackNeeds, Tx, n, wallet)
  <2>1. \A i \in DOMAIN queue : Tx \cap CallbackNeeds[queue[i]] \subseteq Tx
    OBVIOUS
  <2> QED
    BY <1>1, <1>2, <1>3, <2>1, SupplyTypes, SuppliedMore
<1>5. Supplied(wire, WireGives, WireNeeds, told, n, AtManager)
  <2>1. \A i \in DOMAIN wire : told \cap WireNeeds[wire[i]] \subseteq told
    OBVIOUS
  <2> QED
    BY <1>1, <1>2, <1>3, <2>1, SupplyTypes, SuppliedMore
<1>6. Supplied(Outgoing, AskGives, AskNeeds, told, n, OnWire)
  <2>1. \A i \in DOMAIN Outgoing : told \cap AskNeeds[Outgoing[i]] \subseteq told
    OBVIOUS
  <2> QED
    BY <1>1, <1>2, <1>3, <2>1, SupplyTypes, SuppliedMore
<1>7. Supplied(wire, ToldGives, ToldNeeds, told, n, InRequests)
  <2>1. \A i \in DOMAIN wire : told \cap ToldNeeds[wire[i]] \subseteq told
    OBVIOUS
  <2> QED
    BY <1>1, <1>2, <1>3, <2>1, SupplyTypes, SuppliedMore
<1> QED
  BY <1>4, <1>5, <1>6, <1>7

\* A filter the manager builds.
LEMMA NewFilterOwn ==
  ASSUME addresses' \in Nat, bloomFilter' = NewFilter
  PROVE  Own(bloomFilter', addresses', wallet')
<1>1. bloomFilter'.addresses = addresses' /\ bloomFilter'.outputs = UnspentOutputs'
  BY DEF NewFilter
<1>2. UnspentOutputs' \subseteq wallet'
  BY DEF UnspentOutputs
<1> QED
  BY <1>1, <1>2 DEF Own

\* Nothing but filters and re-requests is asked for.
LEMMA IdleRequests ==
  ASSUME NEW s \in Seq(LoopMessage), \A i \in DOMAIN s : s[i].type # "getdata", NEW N, NEW n, NEW A
  PROVE  Given(s, AskGives) = {} /\ Supplied(s, AskGives, AskNeeds, N, n, A)
<1>1. ASSUME NEW i \in DOMAIN s PROVE AskGives[s[i]] = {} /\ AskNeeds[s[i]] = {}
  <2>1. s[i] \in LoopMessage
    OBVIOUS
  <2> QED
    BY <1>1, <2>1, AskSupply
<1> QED
  BY <1>1, SuppliedIdle

\* The wallet has after it what the transaction gave.
LEMMA RelayedTransactionFacts ==
  ASSUME Typed, InTime, ChanceIsForeign, RelayedTransaction
  PROVE  /\ UNCHANGED <<lastBlock, status, current, knownTx, blockHashes, out, wire, height, nodeFilter, told>>
         /\ queue # <<>> /\ queue' = Tail(queue)
         /\ wallet' = wallet \cup CallbackGives[Head(queue)]
         /\ addresses' \in Nat /\ addresses <= addresses' /\ wallet' \in SUBSET Tx
         /\ \/ loop' = loop /\ bloomFilter' = bloomFilter
            \/ loop' = loop \o <<FilterLoad(bloomFilter'), Rerequest(lastBlock)>> /\ bloomFilter' = NewFilter
<1> DEFINE m == Head(queue)
           t == m.tx
           txs == wallet \cup {t}
           n == WithGapLimit(addresses, txs, Gap)
<1>1. /\ UNCHANGED <<lastBlock, status, current, knownTx, blockHashes, out, wire, height, nodeFilter, told>>
      /\ queue # <<>> /\ queue' = Tail(queue) /\ m.type = "tx"
      /\ \/ ~Known(t, addresses, wallet) /\ UNCHANGED <<wallet, addresses, bloomFilter, loop>>
         \/ /\ Known(t, addresses, wallet) /\ wallet' = txs /\ addresses' = n
            /\ UNCHANGED <<bloomFilter, loop>>
         \/ /\ Known(t, addresses, wallet) /\ wallet' = txs /\ addresses' = WithGapLimit(n, txs, 2 * Gap)
            /\ bloomFilter' = NewFilter
            /\ loop' = loop \o <<FilterLoad(bloomFilter'), Rerequest(lastBlock)>>
  BY DEF RelayedTransaction, nodeVars
<1>2. queue \in Seq(CallbackBlock) /\ m \in CallbackBlock /\ t \in Tx
  BY <1>1, RequestTypes, TailFacts, CallbackTypes
<1>3. CallbackGives[m] = {t} \ FalsePositives
  BY <1>1, <1>2, CallbackSupply
<1>4. \A x \in CallbackGives[m] : Reason(x, addresses, wallet)
  <2>1. Supplied(queue, CallbackGives, CallbackNeeds, Tx, addresses, wallet)
    BY DEF InTime, InSupply
  <2> HIDE DEF m
  <2>2. Served(m, CallbackGives, CallbackNeeds, Tx, addresses, wallet)
    BY <1>1, <1>2, <2>1, SuppliedTail DEF m
  <2> QED
    BY <2>2 DEF Served
<1> HIDE DEF m
<1>5. Known(t, addresses, wallet) <=> t \notin FalsePositives
  <2>1. CASE t \in FalsePositives
    BY <2>1 DEF ChanceIsForeign, Known
  <2>2. CASE t \notin FalsePositives
    BY <1>3, <1>4, <2>2 DEF Known, Reason
  <2> QED
    BY <2>1, <2>2
<1>6. wallet' = wallet \cup CallbackGives[m]
  BY <1>1, <1>3, <1>5
<1>7. addresses \in Nat /\ Gap \in Nat /\ 2 * Gap \in Nat /\ txs \in SUBSET Tx /\ wallet \in SUBSET Tx
  BY <1>2, MessageAssumption DEF Typed, MessagesTypeOK
<1> HIDE DEF t
<1>8. n \in Nat /\ addresses <= n
  BY <1>7, WithGapLimitType, WithGapLimitMore
<1> HIDE DEF n
<1>9. WithGapLimit(n, txs, 2 * Gap) \in Nat /\ n <= WithGapLimit(n, txs, 2 * Gap)
  BY <1>7, <1>8, WithGapLimitType, WithGapLimitMore
<1> DEFINE n2 == WithGapLimit(n, txs, 2 * Gap)
<1>10. n2 \in Nat /\ n <= n2
  BY <1>9
<1>11. addresses' = addresses \/ addresses' = n \/ addresses' = n2
  BY <1>1
<1> HIDE DEF n2
<1>12. addresses' \in Nat /\ addresses <= addresses'
  BY <1>7, <1>8, <1>10, <1>11
<1>13. wallet' \in SUBSET Tx
  BY <1>1, <1>7
<1>14. \/ loop' = loop /\ bloomFilter' = bloomFilter
       \/ loop' = loop \o <<FilterLoad(bloomFilter'), Rerequest(lastBlock)>> /\ bloomFilter' = NewFilter
  BY <1>1
<1> QED
  BY <1>1, <1>6, <1>12, <1>13, <1>14 DEF m

LEMMA RelayedTransactionInTime ==
  ASSUME Typed, Typed', InTime, ChanceIsForeign, RelayedTransaction
  PROVE  InTime'
<1> DEFINE m == Head(queue)
<1>1. /\ UNCHANGED <<lastBlock, status, current, knownTx, blockHashes, out, wire, height, nodeFilter, told>>
      /\ queue # <<>> /\ queue' = Tail(queue)
      /\ wallet' = wallet \cup CallbackGives[m]
      /\ addresses' \in Nat /\ addresses <= addresses' /\ wallet' \in SUBSET Tx
      /\ \/ loop' = loop /\ bloomFilter' = bloomFilter
         \/ loop' = loop \o <<FilterLoad(bloomFilter'), Rerequest(lastBlock)>> /\ bloomFilter' = NewFilter
  BY RelayedTransactionFacts
<1>2. queue \in Seq(CallbackBlock) /\ m \in CallbackBlock
  BY <1>1, RequestTypes, TailFacts
<1>3. /\ Supplied(queue, CallbackGives, CallbackNeeds, Tx, addresses', wallet)
      /\ Supplied(wire, WireGives, WireNeeds, told, addresses', AtManager)
      /\ Supplied(Outgoing, AskGives, AskNeeds, told, addresses', OnWire)
      /\ Supplied(wire, ToldGives, ToldNeeds, told, addresses', InRequests)
  BY <1>1, AddressesMore DEF InTime
<1> HIDE DEF m
<1>4. /\ Supplied(queue', CallbackGives, CallbackNeeds, Tx, addresses', wallet')
      /\ Given(queue, CallbackGives) = CallbackGives[m] \cup Given(queue', CallbackGives)
  BY <1>1, <1>2, <1>3, SuppliedTail DEF m
<1>5. AtManager' = AtManager
  BY <1>1, <1>4 DEF AtManager
<1>6. OnWire' = OnWire
  BY <1>1, <1>5 DEF OnWire
<1>7. \E s \in Seq(LoopMessage) :
        /\ Outgoing' = Outgoing \o s
        /\ \A i \in DOMAIN s : /\ s[i].type # "getdata"
                               /\ s[i].type = "filterload" => Own(s[i].filter, addresses', wallet')
  <2>1. CASE loop' = loop
    <3>1. Outgoing' = Outgoing /\ Outgoing \in Seq(LoopMessage)
      BY <1>1, <2>1, RequestTypes DEF Outgoing
    <3> DEFINE s == <<>>
    <3>2. Outgoing' = Outgoing \o s /\ s \in Seq(LoopMessage) /\ DOMAIN s = {}
      BY <3>1
    <3> HIDE DEF s
    <3> QED
      BY <3>2
  <2>2. CASE loop' = loop \o <<FilterLoad(bloomFilter'), Rerequest(lastBlock)>> /\ bloomFilter' = NewFilter
    <3> DEFINE f == FilterLoad(bloomFilter')
               r == Rerequest(lastBlock)
               s == <<f, r>>
    <3>1. bloomFilter' \in Filter /\ lastBlock \in 0..Length
      BY <1>1, <2>2, NewFilterType DEF Typed, MessagesTypeOK
    <3>2. f \in LoopMessage /\ r \in LoopMessage
      BY <3>1, MessageTypes, OutIsLoop
    <3>3. f.type = "filterload" /\ f.filter = bloomFilter' /\ r.type = "rerequest"
      BY DEF FilterLoad, Rerequest
    <3>4. Own(bloomFilter', addresses', wallet')
      BY <1>1, <2>2, NewFilterOwn
    <3>5. Own(f.filter, addresses', wallet')
      BY <3>3, <3>4 DEF Own
    <3> HIDE DEF f, r
    <3>6. s \in Seq(LoopMessage) /\ \A i \in DOMAIN s : s[i] = f \/ s[i] = r
      BY <3>2
    <3>7. \A i \in DOMAIN s : s[i].type # "getdata" /\ (s[i].type = "filterload" => Own(s[i].filter, addresses', wallet'))
      BY <3>3, <3>5, <3>6
    <3>8. Outgoing' = Outgoing \o s
      <4>1. Outgoing' = out \o (loop \o s)
        BY <1>1, <2>2 DEF f, r, Outgoing
      <4>2. out \in Seq(LoopMessage) /\ loop \in Seq(LoopMessage)
        BY RequestTypes
      <4>3. out \o (loop \o s) = (out \o loop) \o s
        BY <3>6, <4>2, ConcatAssociative
      <4> QED
        BY <4>1, <4>3 DEF Outgoing
    <3> HIDE DEF s
    <3> QED
      BY <3>6, <3>7, <3>8
  <2> QED
    BY <1>1, <2>1, <2>2
<1>8. PICK s \in Seq(LoopMessage) :
        /\ Outgoing' = Outgoing \o s
        /\ \A i \in DOMAIN s : /\ s[i].type # "getdata"
                               /\ s[i].type = "filterload" => Own(s[i].filter, addresses', wallet')
  BY <1>7
<1>9. /\ Given(Outgoing', AskGives) = Given(Outgoing, AskGives)
      /\ Supplied(Outgoing', AskGives, AskNeeds, told, addresses', OnWire)
  <2>1. Given(s, AskGives) = {} /\ Supplied(s, AskGives, AskNeeds, told, addresses', OnWire \cup Given(Outgoing, AskGives))
    BY <1>8, IdleRequests
  <2>2. Outgoing \in Seq(LoopMessage)
    BY RequestTypes
  <2>3. Given(Outgoing \o s, AskGives) = Given(Outgoing, AskGives) \cup Given(s, AskGives)
    BY <2>2, GivenConcat
  <2>4. Supplied(Outgoing \o s, AskGives, AskNeeds, told, addresses', OnWire)
    BY <1>3, <2>1, <2>2, SuppliedConcat
  <2> QED
    BY <1>8, <2>1, <2>3, <2>4
<1>10. InRequests' = InRequests
  BY <1>6, <1>9 DEF InRequests
<1>11. InAll' = InAll
  BY <1>1, <1>10 DEF InAll
<1>12. InSupply'
  BY <1>1, <1>3, <1>4, <1>5, <1>6, <1>9, <1>10 DEF InSupply
<1>13. CountedOn'
  BY <1>1, <1>5, <1>10, <1>11 DEF InTime, CountedOn, Connected
<1>14. FiltersOwn'
  <2>1. \A f \in Filter : f.addresses \in Nat /\ (Own(f, addresses, wallet) => Own(f, addresses', wallet'))
    <3>1. addresses \in Nat
      BY DEF Typed, MessagesTypeOK
    <3>2. ASSUME NEW f \in Filter PROVE f.addresses \in Nat
      BY DEF Filter
    <3>3. ASSUME NEW f \in Filter, Own(f, addresses, wallet) PROVE Own(f, addresses', wallet')
      <4>1. f.addresses <= addresses'
        BY <1>1, <3>1, <3>2, <3>3 DEF Own
      <4> QED
        BY <1>1, <3>3, <4>1 DEF Own
    <3> QED
      BY <3>2, <3>3
  <2>2. nodeFilter' \in Filter => nodeFilter'.outputs \subseteq InAll' /\ nodeFilter'.addresses <= addresses'
    <3>1. addresses \in Nat
      BY DEF Typed, MessagesTypeOK
    <3> QED
      BY <1>1, <1>11, <2>1, <3>1 DEF InTime, FiltersOwn
  <2>3. bloomFilter' \in Filter => Own(bloomFilter', addresses', wallet')
    <3>1. CASE bloomFilter' = bloomFilter
      <4>1. bloomFilter \in Filter => Own(bloomFilter, addresses, wallet)
        BY DEF InTime, FiltersOwn
      <4> QED
        BY <1>1, <2>1, <3>1, <4>1 DEF Own
    <3>2. CASE bloomFilter' = NewFilter
      BY <1>1, <3>2, NewFilterOwn
    <3> QED
      BY <1>1, <3>1, <3>2
  <2>4. ASSUME NEW x \in ToSet(Outgoing)', x.type = "filterload" PROVE Own(x.filter, addresses', wallet')
    <3>1. Outgoing \in Seq(LoopMessage)
      BY RequestTypes
    <3>2. x \in ToSet(Outgoing) \/ x \in ToSet(s)
      BY <1>8, <3>1, RangeConcat
    <3>3. CASE x \in ToSet(Outgoing)
      <4>1. x \in LoopMessage
        BY <3>1, <3>3, RangeType
      <4>2. x.filter \in Filter /\ Own(x.filter, addresses, wallet)
        BY <2>4, <3>3, <4>1, LoopTypes DEF InTime, FiltersOwn
      <4> QED
        BY <2>1, <4>2
    <3>4. CASE x \in ToSet(s)
      BY <1>8, <2>4, <3>4 DEF ToSet
    <3> QED
      BY <3>2, <3>3, <3>4
  <2> QED
    BY <2>2, <2>3, <2>4 DEF FiltersOwn
<1>15. Real'
  <2>1. \A x \in ToSet(Outgoing') : AskReal(x)
    <3>1. Outgoing \in Seq(LoopMessage)
      BY RequestTypes
    <3>2. ToSet(Outgoing') = ToSet(Outgoing) \cup ToSet(s)
      BY <1>8, <3>1, RangeConcat
    <3>3. \A x \in ToSet(s) : x.type # "getdata"
      BY <1>8 DEF ToSet
    <3> QED
      BY <3>2, <3>3 DEF InTime, Real, AskReal
  <2>2. \A x \in ToSet(Outgoing') : AskReal(x)'
    BY <1>1, <2>1 DEF AskReal
  <2>3. \A x \in ToSet(wire') : WireReal(x)'
    BY <1>1 DEF InTime, Real, WireReal
  <2> QED
    BY <1>1, <2>2, <2>3 DEF InTime, Real
<1> QED
  BY <1>12, <1>13, <1>14, <1>15 DEF InTime

\* The node announces blocks it has.
LEMMA InvInTime ==
  ASSUME Typed, Typed', InTime, NEW bs \in Seq(Block), ToSet(bs) \subseteq 1..height',
         UNCHANGED <<queue, told, addresses, wallet, current, knownTx, blockHashes, nodeFilter, bloomFilter, status>>,
         height <= height', NEW s \in Seq(LoopMessage), Outgoing = s \o Outgoing',
         \A i \in DOMAIN s : s[i].type # "getdata",
         wire' = Append(wire, Inv(<<>>, bs)) \/ wire' = wire
  PROVE  InTime'
<1> DEFINE m == Inv(<<>>, bs)
<1>1. /\ Outgoing \in Seq(LoopMessage) /\ wire \in Seq(WireMessage) /\ addresses \in Nat
      /\ Outgoing' \in Seq(LoopMessage) /\ height \in Nat /\ height' \in Nat
  <2>1. (out' \o loop') \in Seq(LoopMessage)
    <3>1. out' \in Seq(OutMessage) /\ loop' \in Seq(LoopMessage)
      BY DEF Typed, Queues
    <3>2. out' \in Seq(LoopMessage)
      BY <3>1, OutIsLoop, SeqMonotonic
    <3> QED
      BY <3>1, <3>2, ConcatFacts
  <2>2. height \in Nat /\ height' \in Nat /\ addresses \in Nat
    BY MessageAssumption DEF Typed, MessagesTypeOK
  <2> QED
    BY <2>1, <2>2, RequestTypes DEF Outgoing
<1>2. /\ m \in WireMessage /\ m.type = "inv" /\ m.txs = <<>> /\ m.blocks = bs
      /\ WireGives[m] = {} /\ WireNeeds[m] = {} /\ ToldGives[m] = {} /\ ToldNeeds[m] = Ups(bs)
  <2>1. m \in WireMessage
    <3>1. <<>> \in Seq(Tx)
      OBVIOUS
    <3> QED
      BY <3>1, MessageTypes
  <2>2. m.type = "inv" /\ m.txs = <<>> /\ m.blocks = bs
    BY DEF Inv
  <2>3. ToSet(<<>>) = {}
    BY DEF ToSet
  <2> QED
    BY <2>1, <2>2, <2>3, WireSupply
<1> HIDE DEF m
<1>3. wire' = Append(wire, m) \/ wire' = wire
  BY DEF m
<1>5. Given(wire', WireGives) = Given(wire, WireGives) /\ Given(wire', ToldGives) = Given(wire, ToldGives)
  <2>1. CASE wire' = Append(wire, m)
    <3>0. wire \in Seq(WireMessage) /\ m \in WireMessage
      BY <1>1, <1>2
    <3>1. Given(Append(wire, m), WireGives) = Given(wire, WireGives) \cup WireGives[m]
      BY <3>0, GivenAppend
    <3>2. Given(Append(wire, m), ToldGives) = Given(wire, ToldGives) \cup ToldGives[m]
      BY <3>0, GivenAppend
    <3> QED
      BY <1>2, <2>1, <3>1, <3>2
  <2> QED
    BY <1>3, <2>1
<1>6. Given(s, AskGives) = {} /\ Given(Outgoing, AskGives) = Given(Outgoing', AskGives)
  <2>1. Given(s, AskGives) = {}
    BY IdleRequests
  <2>2. Given(s \o Outgoing', AskGives) = Given(s, AskGives) \cup Given(Outgoing', AskGives)
    BY <1>1, GivenConcat
  <2> QED
    BY <2>1, <2>2
<1>7. AtManager' = AtManager
  BY DEF AtManager
<1>8. OnWire' = OnWire
  BY <1>5, <1>7 DEF OnWire
<1>9. InRequests' = InRequests
  BY <1>6, <1>8 DEF InRequests
<1>10. InAll' = InAll
  BY <1>5, <1>9 DEF InAll
<1>11. InSupply'
  <2>1. Supplied(wire', WireGives, WireNeeds, told, addresses, AtManager)
    <3>1. CASE wire' = Append(wire, m)
      <4>1. Served(m, WireGives, WireNeeds, told, addresses, AtManager \cup Given(wire, WireGives))
        BY <1>2 DEF Served
      <4>2. Supplied(wire, WireGives, WireNeeds, told, addresses, AtManager)
        BY DEF InTime, InSupply
      <4> QED
        BY <1>1, <1>2, <3>1, <4>1, <4>2, SuppliedAppend
    <3> QED
      BY <1>3, <3>1 DEF InTime, InSupply
  <2>2. Supplied(wire', ToldGives, ToldNeeds, told, addresses, InRequests)
    <3>1. CASE wire' = Append(wire, m)
      <4>1. told \ FalsePositives \subseteq InRequests \cup Given(wire, ToldGives)
        BY DEF InTime, CountedOn, InAll
      <4>2. Served(m, ToldGives, ToldNeeds, told, addresses, InRequests \cup Given(wire, ToldGives))
        BY <1>2, <4>1 DEF Served
      <4>3. Supplied(wire, ToldGives, ToldNeeds, told, addresses, InRequests)
        BY DEF InTime, InSupply
      <4> QED
        BY <1>1, <1>2, <3>1, <4>2, <4>3, SuppliedAppend
    <3> QED
      BY <1>3, <3>1 DEF InTime, InSupply
  <2>3. Supplied(Outgoing', AskGives, AskNeeds, told, addresses, OnWire)
    <3>1. Supplied(s \o Outgoing', AskGives, AskNeeds, told, addresses, OnWire)
      BY DEF InTime, InSupply
    <3>2. Supplied(Outgoing', AskGives, AskNeeds, told, addresses, OnWire \cup Given(s, AskGives))
      BY <1>1, <3>1, SuppliedConcat
    <3>3. OnWire \cup Given(s, AskGives) = OnWire
      BY <1>6
    <3> QED
      BY <3>2, <3>3
  <2>4. Supplied(queue, CallbackGives, CallbackNeeds, Tx, addresses, wallet)
    BY DEF InTime, InSupply
  <2> QED
    BY <1>7, <1>8, <1>9, <2>1, <2>2, <2>3, <2>4 DEF InSupply
<1>12. CountedOn'
  BY <1>7, <1>9, <1>10 DEF InTime, CountedOn, Connected
<1>13. ToSet(Outgoing') \subseteq ToSet(Outgoing)
  BY <1>1, RangeConcat
<1>14. FiltersOwn'
  BY <1>10, <1>13 DEF InTime, FiltersOwn
<1>15. Real'
  <2>1. 1..height \subseteq 1..height' /\ UpTo(height) \subseteq UpTo(height')
    BY <1>1, UpToMore
  <2>2. ASSUME NEW x \in ToSet(wire') PROVE WireReal(x)'
    <3>1. ToSet(Append(wire, m)) = ToSet(wire) \cup {m}
      BY <1>1, <1>2, AppendRange
    <3>2. x = m \/ x \in ToSet(wire)
      BY <1>3, <3>1
    <3>3. CASE x = m
      <4>1. ToSet(<<>>) = {}
        BY DEF ToSet
      <4> QED
        BY <1>2, <3>3, <4>1 DEF WireReal
    <3>4. CASE x \in ToSet(wire)
      <4>1. WireReal(x)
        BY <3>4 DEF InTime, Real
      <4> QED
        BY <2>1, <4>1 DEF WireReal
    <3> QED
      BY <3>2, <3>3, <3>4
  <2>3. \A x \in ToSet(Outgoing') : AskReal(x)'
    BY <1>13, <2>1 DEF InTime, Real, AskReal
  <2> QED
    BY <2>1, <2>2, <2>3 DEF InTime, Real
<1> QED
  BY <1>11, <1>12, <1>14, <1>15 DEF InTime

LEMMA MineInTime ==
  ASSUME Typed, Typed', InTime, Mine
  PROVE  InTime'
<1> DEFINE bs == <<height'>>
<1>1. /\ UNCHANGED <<queue, told, addresses, wallet, current, knownTx, blockHashes, nodeFilter, bloomFilter,
                     status, out, loop>>
      /\ height' = height + 1 /\ height < Length
      /\ wire' = Append(wire, Inv(<<>>, bs)) \/ wire' = wire
  BY DEF Mine, managerVars, messageVars
<1>2. height \in Nat /\ height' \in Nat /\ height <= height' /\ height' \in Block
  BY <1>1, MessageAssumption DEF Typed, MessagesTypeOK, Block
<1>3. bs \in Seq(Block) /\ ToSet(bs) = {height'}
  BY <1>2 DEF ToSet
<1>4. ToSet(bs) \subseteq 1..height'
  BY <1>2, <1>3 DEF Block
<1> DEFINE s == <<>>
<1>5. s \in Seq(LoopMessage) /\ DOMAIN s = {}
  OBVIOUS
<1>6. Outgoing = s \o Outgoing'
  BY <1>1, RequestTypes, Associative DEF Outgoing
<1> HIDE DEF bs, s
<1> QED
  BY <1>1, <1>2, <1>3, <1>4, <1>5, <1>6, InvInTime

\* A transaction that is not in a block yet is needed by nothing under way.
LEMMA NotNeeded ==
  ASSUME Typed, InTime, NEW t \in Tx, t \notin UpTo(height)
  PROVE  /\ \A i \in DOMAIN wire : /\ (told \cup {t}) \cap WireNeeds[wire[i]] \subseteq told
                                   /\ (told \cup {t}) \cap ToldNeeds[wire[i]] \subseteq told
         /\ \A i \in DOMAIN Outgoing : (told \cup {t}) \cap AskNeeds[Outgoing[i]] \subseteq told
         /\ status # "disconnected" => t \notin Ups(blockHashes)
<1>1. /\ Outgoing \in Seq(LoopMessage) /\ wire \in Seq(WireMessage) /\ height \in Int
  BY RequestTypes, MessageAssumption DEF Typed, MessagesTypeOK
<1>2. ASSUME NEW i \in DOMAIN wire PROVE t \notin WireNeeds[wire[i]] /\ t \notin ToldNeeds[wire[i]]
  <2>1. wire[i] \in WireMessage /\ wire[i] \in ToSet(wire)
    BY <1>1 DEF ToSet
  <2>2. WireReal(wire[i])
    BY <2>1 DEF InTime, Real
  <2> DEFINE m == wire[i]
  <2> HIDE DEF m
  <2>3. m \in WireMessage /\ WireReal(m)
    BY <2>1, <2>2 DEF m
  <2>4. t \notin WireNeeds[m]
    BY <2>3, WireSupply DEF WireReal
  <2>5. t \notin ToldNeeds[m]
    <3>1. CASE m.type = "inv"
      <4>1. Ups(m.blocks) \subseteq UpTo(height)
        BY <1>1, <2>3, <3>1, UpsMined DEF WireReal
      <4> QED
        BY <2>3, <3>1, <4>1, WireSupply
    <3>2. CASE m.type # "inv"
      BY <2>3, <3>2, WireSupply
    <3> QED
      BY <3>1, <3>2
  <2> QED
    BY <2>4, <2>5 DEF m
<1>3. ASSUME NEW i \in DOMAIN Outgoing PROVE t \notin AskNeeds[Outgoing[i]]
  <2> DEFINE m == Outgoing[i]
  <2>1. m \in LoopMessage /\ m \in ToSet(Outgoing)
    BY <1>1 DEF ToSet
  <2>2. AskReal(m)
    BY <2>1 DEF InTime, Real
  <2> HIDE DEF m
  <2>3. t \notin AskNeeds[m]
    <3>1. CASE m.type = "getdata"
      <4>1. Ups(m.blocks) \subseteq UpTo(height)
        BY <1>1, <2>2, <3>1, UpsMined DEF AskReal
      <4> QED
        BY <2>1, <3>1, <4>1, AskSupply
    <3>2. CASE m.type # "getdata"
      BY <2>1, <3>2, AskSupply
    <3> QED
      BY <3>1, <3>2
  <2> QED
    BY <2>3 DEF m
<1>4. ASSUME status # "disconnected" PROVE t \notin Ups(blockHashes)
  <2>1. Ups(blockHashes) \subseteq UpTo(height)
    BY <1>1, <1>4, UpsMined DEF InTime, Real
  <2> QED
    BY <2>1
<1> QED
  BY <1>2, <1>3, <1>4

\* What a filter of the node matches, and is not matched by chance, pays the wallet or
\* spends what it has or will have.
LEMMA MatchedReason ==
  ASSUME Typed, InTime, nodeFilter \in Filter, NEW t \in Tx, t \notin FalsePositives
  PROVE  /\ PaysTo(t, nodeFilter) => Reason(t, addresses, {})
         /\ Matches(t, nodeFilter) => Reason(t, addresses, InAll)
<1>1. nodeFilter.addresses \in Nat /\ nodeFilter.addresses <= addresses /\ nodeFilter.outputs \subseteq InAll
      /\ addresses \in Nat /\ Pays[t] \subseteq Nat
  BY MessageAssumption DEF InTime, FiltersOwn, Filter, Typed, MessagesTypeOK
<1>2. ASSUME NEW a \in Pays[t], a < nodeFilter.addresses PROVE a < addresses
  <2>1. a \in Nat
    BY <1>1
  <2> QED
    BY <1>1, <1>2, <2>1
<1> QED
  BY <1>1, <1>2 DEF PaysTo, Matches, Reason

LEMMA AnnounceInTime ==
  ASSUME Typed, InTime, ChanceIsForeign, NEW t \in Tx, Announce(t)
  PROVE  InTime'
<1> DEFINE m == Inv(<<t>>, <<>>)
<1>1. /\ UNCHANGED <<queue, addresses, wallet, current, knownTx, blockHashes, bloomFilter, status, out, loop, height>>
      /\ told' = told \cup {t} /\ nodeFilter # None /\ nodeFilter' = Grown(nodeFilter, {t})
      /\ Matches(t, nodeFilter) /\ wire' = Append(wire, m) /\ t \notin UpTo(height) /\ Connected
  BY DEF Announce, managerVars, messageVars, UpTo
<1>2. /\ Outgoing \in Seq(LoopMessage) /\ wire \in Seq(WireMessage) /\ queue \in Seq(CallbackBlock)
      /\ addresses \in Nat /\ nodeFilter \in Filter
  BY <1>1, RequestTypes DEF Typed, MessagesTypeOK
<1>3. /\ m \in WireMessage /\ m.type = "inv" /\ ToSet(m.txs) = {t} /\ ToSet(m.blocks) = {}
      /\ WireGives[m] = {} /\ WireNeeds[m] = {} /\ ToldGives[m] = {t} \ FalsePositives /\ ToldNeeds[m] = {}
  <2>1. m \in WireMessage
    <3>1. <<>> \in Seq(Block) /\ <<t>> \in Seq(Tx)
      OBVIOUS
    <3> QED
      BY <3>1, MessageTypes
  <2>2. m.type = "inv" /\ m.txs = <<t>> /\ m.blocks = <<>>
    BY DEF Inv
  <2>3. ToSet(<<>>) = {} /\ ToSet(<<t>>) = {t}
    BY DEF ToSet
  <2>4. Ups(<<>>) = {}
    BY <2>3 DEF Ups
  <2> HIDE DEF m
  <2> QED
    BY <2>1, <2>2, <2>3, <2>4, WireSupply
<1> HIDE DEF m
<1>4. wire \in Seq(WireMessage) /\ m \in WireMessage
  BY <1>2, <1>3
<1>5. Given(wire', WireGives) = Given(wire, WireGives)
  <2>1. Given(Append(wire, m), WireGives) = Given(wire, WireGives) \cup WireGives[m]
    BY <1>4, GivenAppend
  <2> QED
    BY <1>1, <1>3, <2>1
<1>6. Given(wire', ToldGives) = Given(wire, ToldGives) \cup ({t} \ FalsePositives)
  <2>1. Given(Append(wire, m), ToldGives) = Given(wire, ToldGives) \cup ToldGives[m]
    BY <1>4, GivenAppend
  <2> QED
    BY <1>1, <1>3, <2>1
<1>7. AtManager' = AtManager
  BY <1>1 DEF AtManager
<1>8. OnWire' = OnWire
  BY <1>5, <1>7 DEF OnWire
<1>9. Outgoing' = Outgoing
  BY <1>1 DEF Outgoing
<1>10. InRequests' = InRequests
  BY <1>8, <1>9 DEF InRequests
<1>11. InAll' = InAll \cup ({t} \ FalsePositives)
  BY <1>6, <1>10 DEF InAll
<1>12. /\ \A i \in DOMAIN wire : /\ told' \cap WireNeeds[wire[i]] \subseteq told
                                 /\ told' \cap ToldNeeds[wire[i]] \subseteq told
       /\ \A i \in DOMAIN Outgoing : told' \cap AskNeeds[Outgoing[i]] \subseteq told
       /\ status # "disconnected" => t \notin Ups(blockHashes)
  BY <1>1, NotNeeded
<1>13. Supplied(wire', WireGives, WireNeeds, told', addresses, AtManager)
  <2>1. Served(m, WireGives, WireNeeds, told', addresses, AtManager \cup Given(wire, WireGives))
    BY <1>3 DEF Served
  <2>2. Supplied(wire, WireGives, WireNeeds, told, addresses, AtManager) /\ addresses <= addresses
    BY <1>2 DEF InTime, InSupply
  <2>3. Supplied(wire, WireGives, WireNeeds, told', addresses, AtManager)
    BY <1>2, <1>12, <2>2, SupplyTypes, SuppliedMore
  <2>4. Supplied(Append(wire, m), WireGives, WireNeeds, told', addresses, AtManager)
    BY <1>4, <2>1, <2>3, SuppliedAppend
  <2> QED
    BY <1>1, <2>4
<1>14. Supplied(wire', ToldGives, ToldNeeds, told', addresses, InRequests)
  <2>1. Served(m, ToldGives, ToldNeeds, told', addresses, InRequests \cup Given(wire, ToldGives))
    <3>1. ASSUME t \notin FalsePositives PROVE Reason(t, addresses, InAll)
      BY <1>1, <1>2, <3>1, MatchedReason
    <3> QED
      BY <1>3, <3>1 DEF Served, InAll
  <2>2. Supplied(wire, ToldGives, ToldNeeds, told, addresses, InRequests) /\ addresses <= addresses
    BY <1>2 DEF InTime, InSupply
  <2>3. Supplied(wire, ToldGives, ToldNeeds, told', addresses, InRequests)
    BY <1>2, <1>12, <2>2, SupplyTypes, SuppliedMore
  <2>4. Supplied(Append(wire, m), ToldGives, ToldNeeds, told', addresses, InRequests)
    BY <1>4, <2>1, <2>3, SuppliedAppend
  <2> QED
    BY <1>1, <2>4
<1>15. Supplied(Outgoing, AskGives, AskNeeds, told', addresses, OnWire)
  <2>1. Supplied(Outgoing, AskGives, AskNeeds, told, addresses, OnWire) /\ addresses <= addresses
    BY <1>2 DEF InTime, InSupply
  <2> QED
    BY <1>2, <1>12, <2>1, SupplyTypes, SuppliedMore
<1>16. InSupply'
  <2>1. Supplied(queue, CallbackGives, CallbackNeeds, Tx, addresses, wallet)
    BY DEF InTime, InSupply
  <2> QED
    BY <1>1, <1>7, <1>8, <1>9, <1>10, <1>13, <1>14, <1>15, <2>1 DEF InSupply
<1>17. CountedOn'
  <2>1. told' \ FalsePositives \subseteq InAll'
    BY <1>1, <1>11 DEF InTime, CountedOn
  <2>2. Connected /\ current # None => (current.txs \ current.missing) \ FalsePositives \subseteq AtManager
    BY DEF InTime, CountedOn
  <2>3. status # "disconnected" => Ups(blockHashes) \cap told' = Ups(blockHashes) \cap told
    BY <1>1, <1>12
  <2>4. status # "disconnected" =>
          /\ knownTx \subseteq told' /\ knownTx \ FalsePositives \subseteq InRequests
          /\ (Ups(blockHashes) \cap told') \ FalsePositives \subseteq InRequests
    BY <1>1, <2>3 DEF InTime, CountedOn
  <2> QED
    BY <1>1, <1>7, <1>10, <2>1, <2>2, <2>4 DEF CountedOn, Connected
<1>18. FiltersOwn'
  <2>1. /\ nodeFilter'.addresses = nodeFilter.addresses
        /\ nodeFilter'.outputs \subseteq nodeFilter.outputs \cup {x \in {t} : PaysTo(x, nodeFilter)}
    BY <1>1, <1>2 DEF Grown, Filter
  <2>2. PaysTo(t, nodeFilter) => t \notin FalsePositives
    BY DEF ChanceIsForeign, PaysTo
  <2>3. nodeFilter'.outputs \subseteq InAll' /\ nodeFilter'.addresses <= addresses'
    BY <1>1, <1>2, <1>11, <2>1, <2>2 DEF InTime, FiltersOwn
  <2> QED
    BY <1>1, <1>9, <2>3 DEF InTime, FiltersOwn
<1>19. Real'
  <2>1. ASSUME NEW x \in ToSet(wire') PROVE WireReal(x)'
    <3>1. ToSet(Append(wire, m)) = ToSet(wire) \cup {m}
      BY <1>4, AppendRange
    <3>2. CASE x = m
      BY <1>1, <1>3, <3>2 DEF WireReal
    <3>3. CASE x \in ToSet(wire)
      <4>1. WireReal(x)
        BY <3>3 DEF InTime, Real
      <4> QED
        BY <1>1, <4>1 DEF WireReal
    <3> QED
      BY <1>1, <3>1, <3>2, <3>3
  <2>2. \A x \in ToSet(Outgoing) : AskReal(x)'
    BY <1>1 DEF InTime, Real, AskReal
  <2> QED
    BY <1>1, <1>9, <2>1, <2>2 DEF InTime, Real
<1> QED
  BY <1>16, <1>17, <1>18, <1>19 DEF InTime

\* A getdata, after the filter or not.
LEMMA RequestSupply ==
  ASSUME Typed, InTime, bloomFilter \in Filter, NEW txs \in Seq(Tx), NEW bs \in Seq(Block),
         Request(txs, bs) \in Seq(LoopMessage), NEW A,
         (Ups(bs) \cap told) \ FalsePositives \subseteq A \cup (ToSet(txs) \ FalsePositives),
         \A t \in ToSet(txs) \ FalsePositives : Reason(t, addresses, A)
  PROVE  /\ Given(Request(txs, bs), AskGives) = ToSet(txs) \ FalsePositives
         /\ Supplied(Request(txs, bs), AskGives, AskNeeds, told, addresses, A)
         /\ \A m \in ToSet(Request(txs, bs)) :
              /\ m.type = "filterload" => Own(m.filter, addresses, wallet)
              /\ m.type = "getdata" => m.txs = txs /\ m.blocks = bs
<1> DEFINE f == FilterLoad(bloomFilter)
           g == GetData(txs, bs)
           first == IF filterBlockCount + Len(bs) > FilterBlocks THEN <<f>> ELSE <<>>
<1>1. f \in LoopMessage /\ f.type = "filterload" /\ f.filter = bloomFilter
  BY MessageTypes, OutIsLoop DEF FilterLoad
<1>2. g \in LoopMessage /\ g.type = "getdata" /\ g.txs = txs /\ g.blocks = bs
  BY MessageTypes, OutIsLoop DEF GetData
<1>3. Request(txs, bs) = first \o <<g>>
  BY DEF Request
<1> HIDE DEF f, g
<1>4. first \in Seq(LoopMessage) /\ \A i \in DOMAIN first : first[i] = f
  BY <1>1
<1> HIDE DEF first
<1>5. Request(txs, bs) = Append(first, g)
  BY <1>2, <1>3, <1>4
<1>6. Given(first, AskGives) = {} /\ Supplied(first, AskGives, AskNeeds, told, addresses, A)
  <2>1. \A i \in DOMAIN first : first[i].type # "getdata"
    BY <1>1, <1>4
  <2> QED
    BY <1>4, <2>1, IdleRequests
<1>7. AskGives[g] = ToSet(txs) \ FalsePositives /\ AskNeeds[g] = Ups(bs)
  BY <1>2, AskSupply
<1>8. Given(Append(first, g), AskGives) = ToSet(txs) \ FalsePositives
  <2>1. first \in Seq(LoopMessage) /\ g \in LoopMessage
    BY <1>2, <1>4
  <2>2. Given(Append(first, g), AskGives) = Given(first, AskGives) \cup AskGives[g]
    BY <2>1, GivenAppend
  <2> QED
    BY <1>6, <1>7, <2>2
<1>9. Supplied(Append(first, g), AskGives, AskNeeds, told, addresses, A)
  <2>1. first \in Seq(LoopMessage) /\ g \in LoopMessage
    BY <1>2, <1>4
  <2>2. A \cup Given(first, AskGives) = A
    BY <1>6
  <2>3. Served(g, AskGives, AskNeeds, told, addresses, A)
    BY <1>7 DEF Served
  <2>4. Served(g, AskGives, AskNeeds, told, addresses, A \cup Given(first, AskGives))
    BY <2>2, <2>3
  <2> QED
    BY <1>6, <2>1, <2>4, SuppliedAppend
<1>10. ASSUME NEW m \in ToSet(Request(txs, bs)) PROVE m = f \/ m = g
  <2>1. first \in Seq(LoopMessage) /\ g \in LoopMessage
    BY <1>2, <1>4
  <2>2. ToSet(Append(first, g)) = ToSet(first) \cup {g}
    BY <2>1, AppendRange
  <2>3. \A x \in ToSet(first) : x = f
    BY <1>4 DEF ToSet
  <2> QED
    BY <1>5, <2>2, <2>3
<1>11. Own(bloomFilter, addresses, wallet)
  BY DEF InTime, FiltersOwn
<1>12. ASSUME NEW m \in ToSet(Request(txs, bs))
       PROVE  /\ m.type = "filterload" => Own(m.filter, addresses, wallet)
              /\ m.type = "getdata" => m.txs = txs /\ m.blocks = bs
  BY <1>1, <1>2, <1>10, <1>11
<1> QED
  BY <1>5, <1>8, <1>9, <1>12

\* Messages for the node are added, which give what is given anyway.
LEMMA RequestsMore ==
  ASSUME Typed, NEW s \in Seq(LoopMessage), NEW t \in Seq(LoopMessage),
         Supplied(s, AskGives, AskNeeds, told, addresses, OnWire),
         Supplied(t, AskGives, AskNeeds, told, addresses, OnWire \cup Given(s, AskGives))
  PROVE  /\ Supplied(s \o t, AskGives, AskNeeds, told, addresses, OnWire)
         /\ Given(s \o t, AskGives) = Given(s, AskGives) \cup Given(t, AskGives)
         /\ ToSet(s \o t) = ToSet(s) \cup ToSet(t)
<1>1. Supplied(s \o t, AskGives, AskNeeds, told, addresses, OnWire)
  BY SuppliedConcat
<1>2. Given(s \o t, AskGives) = Given(s, AskGives) \cup Given(t, AskGives)
  BY GivenConcat
<1>3. ToSet(s \o t) = ToSet(s) \cup ToSet(t)
  BY RangeConcat
<1> QED
  BY <1>1, <1>2, <1>3

\* The re-request at the head of the loop, taken from what is asked for.
LEMMA AgainTaken ==
  ASSUME Typed, InTime, loop # <<>>, Head(loop).type = "rerequest"
  PROVE  LET rest == out \o Tail(loop)
         IN  /\ rest \in Seq(LoopMessage) /\ Given(rest, AskGives) = Given(Outgoing, AskGives)
             /\ Supplied(rest, AskGives, AskNeeds, told, addresses, OnWire)
             /\ ToSet(rest) \subseteq ToSet(Outgoing)
<1> DEFINE h == Head(loop)
           t == Tail(loop)
           rest == out \o t
<1>1. out \in Seq(LoopMessage) /\ loop \in Seq(LoopMessage) /\ h \in LoopMessage /\ t \in Seq(LoopMessage)
  BY RequestTypes, TailFacts
<1>2. AskGives[h] = {} /\ AskNeeds[h] = {}
  BY <1>1, AskSupply
<1>3. Supplied(out \o loop, AskGives, AskNeeds, told, addresses, OnWire)
  BY DEF InTime, InSupply, Outgoing
<1>4. /\ Supplied(out, AskGives, AskNeeds, told, addresses, OnWire)
      /\ Supplied(loop, AskGives, AskNeeds, told, addresses, OnWire \cup Given(out, AskGives))
  BY <1>1, <1>3, SuppliedConcat
<1> HIDE DEF h
<1>5. /\ Supplied(t, AskGives, AskNeeds, told, addresses, (OnWire \cup Given(out, AskGives)) \cup AskGives[h])
      /\ Given(loop, AskGives) = AskGives[h] \cup Given(t, AskGives)
  BY <1>1, <1>4, SuppliedTail DEF h
<1>6. (OnWire \cup Given(out, AskGives)) \cup AskGives[h] = OnWire \cup Given(out, AskGives)
  BY <1>2
<1>7. Supplied(t, AskGives, AskNeeds, told, addresses, OnWire \cup Given(out, AskGives))
  BY <1>5, <1>6
<1>8. ToSet(t) \subseteq ToSet(loop)
  BY <1>1, RangeTail
<1> HIDE DEF t
<1>9. /\ Supplied(out \o t, AskGives, AskNeeds, told, addresses, OnWire)
      /\ Given(out \o t, AskGives) = Given(out, AskGives) \cup Given(t, AskGives)
      /\ ToSet(out \o t) = ToSet(out) \cup ToSet(t)
  BY <1>1, <1>4, <1>7, RequestsMore
<1>10. Given(out \o loop, AskGives) = Given(out, AskGives) \cup Given(loop, AskGives)
  BY <1>1, GivenConcat
<1>11. ToSet(out \o loop) = ToSet(out) \cup ToSet(loop)
  BY <1>1, RangeConcat
<1>12. rest \in Seq(LoopMessage)
  BY <1>1, ConcatFacts
<1>13. Given(rest, AskGives) = Given(Outgoing, AskGives)
  BY <1>2, <1>5, <1>9, <1>10 DEF Outgoing
<1>14. ToSet(rest) \subseteq ToSet(Outgoing)
  BY <1>8, <1>9, <1>11 DEF Outgoing
<1> QED
  BY <1>9, <1>12, <1>13, <1>14 DEF t

LEMMA UpsFewer ==
  ASSUME NEW bs, NEW cs, ToSet(bs) \subseteq ToSet(cs)
  PROVE  Ups(bs) \subseteq Ups(cs)
BY DEF Ups

LEMMA RestOf ==
  ASSUME blockHashes \in Seq(Block), NEW b \in ToSet(blockHashes)
  PROVE  LET rest == SubSeq(blockHashes, SelectInSeq(blockHashes, LAMBDA x : x = b), Len(blockHashes))
         IN  rest \in Seq(Block) /\ ToSet(rest) \subseteq ToSet(blockHashes)
<1> DEFINE rest == SubSeq(blockHashes, SelectInSeq(blockHashes, LAMBDA x : x = b), Len(blockHashes))
<1>1. PICK i \in 1..Len(blockHashes) :
        /\ SelectInSeq(blockHashes, LAMBDA x : x = b) = i
        /\ SubSeq(blockHashes, i, Len(blockHashes)) \in Seq(Block)
        /\ Len(SubSeq(blockHashes, i, Len(blockHashes))) = Len(blockHashes) - i + 1
        /\ \A j \in 1..(Len(blockHashes) - i + 1) :
             SubSeq(blockHashes, i, Len(blockHashes))[j] = blockHashes[i + j - 1]
  BY RestFacts
<1>2. rest = SubSeq(blockHashes, i, Len(blockHashes))
  BY <1>1, Zenon
<1>3. /\ rest \in Seq(Block) /\ Len(rest) = Len(blockHashes) - i + 1
      /\ \A j \in 1..(Len(blockHashes) - i + 1) : rest[j] = blockHashes[i + j - 1]
  BY <1>1, <1>2, Zenon
<1> HIDE DEF rest
<1>4. ASSUME NEW j \in DOMAIN rest PROVE rest[j] \in ToSet(blockHashes)
  <2>1. j \in 1..(Len(blockHashes) - i + 1) /\ Len(blockHashes) \in Nat
    BY <1>3
  <2>2. i + j - 1 \in DOMAIN blockHashes /\ rest[j] = blockHashes[i + j - 1]
    BY <1>1, <1>3, <2>1
  <2> QED
    BY <2>2 DEF ToSet
<1>5. ToSet(rest) \subseteq ToSet(blockHashes)
  BY <1>4 DEF ToSet
<1> QED
  BY <1>3, <1>5 DEF rest

LEMMA RequestAgainInTime ==
  ASSUME Typed, InTime, RequestAgain
  PROVE  InTime'
<1> DEFINE b == Head(loop).from
           rest == SubSeq(blockHashes, SelectInSeq(blockHashes, LAMBDA x : x = b), Len(blockHashes))
           first == out \o Tail(loop)
<1>1. /\ loop # <<>> /\ Head(loop).type = "rerequest" /\ Connected /\ bloomFilter \in Filter
      /\ blockHashes \in Seq(Block)
      /\ UNCHANGED <<queue, wire, told, addresses, wallet, current, knownTx, nodeFilter, bloomFilter,
                     height, status, out>>
      /\ \/ /\ b \in ToSet(blockHashes) /\ blockHashes' = rest
            /\ SendGetData(Tail(loop), <<>>, rest)
         \/ loop' = Tail(loop) /\ blockHashes' = blockHashes
  BY DEF RequestAgain, managerVars, nodeVars, Typed, Stages, MessagesTypeOK
<1>2. /\ first \in Seq(LoopMessage) /\ Given(first, AskGives) = Given(Outgoing, AskGives)
      /\ Supplied(first, AskGives, AskNeeds, told, addresses, OnWire)
      /\ ToSet(first) \subseteq ToSet(Outgoing)
  BY <1>1, AgainTaken
<1>3. /\ \A x \in ToSet(first) : x.type = "filterload" => Own(x.filter, addresses, wallet)
      /\ \A x \in ToSet(first) : AskReal(x)
      /\ ToSet(blockHashes) \subseteq 1..height /\ Connected /\ status # "disconnected"
  BY <1>1, <1>2 DEF InTime, FiltersOwn, Real, Connected
<1>4. out \in Seq(LoopMessage) /\ Tail(loop) \in Seq(LoopMessage)
  BY <1>1, RequestTypes, TailFacts
<1>5. /\ Given(Outgoing', AskGives) = Given(Outgoing, AskGives)
      /\ Supplied(Outgoing', AskGives, AskNeeds, told, addresses, OnWire)
      /\ \A x \in ToSet(Outgoing') : x.type = "filterload" => Own(x.filter, addresses, wallet)
      /\ \A x \in ToSet(Outgoing') : AskReal(x)
      /\ ToSet(blockHashes') \subseteq ToSet(blockHashes)
  <2>1. CASE loop' = Tail(loop) /\ blockHashes' = blockHashes
    <3>1. Outgoing' = first
      BY <1>1, <2>1 DEF Outgoing
    <3> QED
      BY <1>2, <1>3, <2>1, <3>1
  <2>2. CASE b \in ToSet(blockHashes) /\ blockHashes' = rest /\ SendGetData(Tail(loop), <<>>, rest)
    <3> HIDE DEF b
    <3>1. rest \in Seq(Block) /\ ToSet(rest) \subseteq ToSet(blockHashes)
      BY <1>1, <2>2, RestOf
    <3> HIDE DEF rest
    <3> DEFINE r == Request(<<>>, rest)
    <3>2. <<>> \in Seq(Tx) /\ ToSet(<<>>) = {}
      BY DEF ToSet
    <3>3. r \in Seq(LoopMessage) /\ loop' = Tail(loop) \o r
      BY <1>1, <1>4, <2>2, <3>1, <3>2, SendGetDataTypes
    <3>4. Outgoing' = first \o r
      <4> HIDE DEF r
      <4>1. out \o (Tail(loop) \o r) = (out \o Tail(loop)) \o r
        BY <1>4, <3>3, ConcatAssociative
      <4> QED
        BY <1>1, <3>3, <4>1 DEF Outgoing
    <3>5. (Ups(rest) \cap told) \ FalsePositives \subseteq OnWire \cup Given(first, AskGives)
      <4>1. Ups(rest) \subseteq Ups(blockHashes)
        BY <3>1, UpsFewer
      <4>2. (Ups(blockHashes) \cap told) \ FalsePositives \subseteq InRequests
        BY <1>3 DEF InTime, CountedOn
      <4> QED
        BY <1>2, <4>1, <4>2 DEF InRequests
    <3>6. /\ Given(r, AskGives) = {}
          /\ Supplied(r, AskGives, AskNeeds, told, addresses, OnWire \cup Given(first, AskGives))
          /\ \A m \in ToSet(r) :
              /\ m.type = "filterload" => Own(m.filter, addresses, wallet)
              /\ m.type = "getdata" => m.txs = <<>> /\ m.blocks = rest
      <4> DEFINE no == <<>>
      <4>1. no \in Seq(Tx) /\ ToSet(no) = {} /\ r = Request(no, rest)
        BY <3>2
      <4> HIDE DEF no, r
      <4>2. Request(no, rest) \in Seq(LoopMessage)
        BY <3>3, <4>1
      <4>3. ToSet(no) \ FalsePositives = {}
        BY <4>1
      <4>4. /\ Given(r, AskGives) = ToSet(no) \ FalsePositives
            /\ Supplied(r, AskGives, AskNeeds, told, addresses, OnWire \cup Given(first, AskGives))
            /\ \A m \in ToSet(r) :
                /\ m.type = "filterload" => Own(m.filter, addresses, wallet)
                /\ m.type = "getdata" => m.txs = no /\ m.blocks = rest
        <5>1. (Ups(rest) \cap told) \ FalsePositives
                \subseteq (OnWire \cup Given(first, AskGives)) \cup (ToSet(no) \ FalsePositives)
          BY <3>5
        <5>2. \A t \in ToSet(no) \ FalsePositives : Reason(t, addresses, OnWire \cup Given(first, AskGives))
          BY <4>1
        <5> QED
          BY <1>1, <3>1, <4>1, <4>2, <5>1, <5>2, RequestSupply
      <4> QED
        BY <4>3, <4>4 DEF no
    <3> HIDE DEF r, first
    <3>7. /\ Supplied(first \o r, AskGives, AskNeeds, told, addresses, OnWire)
          /\ Given(first \o r, AskGives) = Given(first, AskGives) \cup Given(r, AskGives)
          /\ ToSet(first \o r) = ToSet(first) \cup ToSet(r)
      BY <1>2, <3>3, <3>6, RequestsMore
    <3>8. ASSUME NEW x \in ToSet(r) PROVE AskReal(x)
      <4>1. x.type = "getdata" => x.txs = <<>> /\ x.blocks = rest
        BY <3>6
      <4>2. ToSet(rest) \subseteq 1..height
        BY <1>3, <3>1
      <4> QED
        BY <3>2, <4>1, <4>2 DEF AskReal
    <3> QED
      BY <1>2, <1>3, <2>2, <3>1, <3>4, <3>6, <3>7, <3>8
  <2> QED
    BY <1>1, <2>1, <2>2
<1> HIDE DEF b, rest, first
<1>6. AtManager' = AtManager
  BY <1>1 DEF AtManager
<1>7. OnWire' = OnWire
  BY <1>1, <1>6 DEF OnWire
<1>8. InRequests' = InRequests
  BY <1>5, <1>7 DEF InRequests
<1>9. InAll' = InAll
  BY <1>1, <1>8 DEF InAll
<1>10. InSupply'
  BY <1>1, <1>5, <1>6, <1>7, <1>8 DEF InTime, InSupply
<1>11. CountedOn'
  <2>1. Ups(blockHashes') \subseteq Ups(blockHashes)
    BY <1>5, UpsFewer
  <2>2. (Ups(blockHashes') \cap told) \ FalsePositives \subseteq InRequests
    BY <1>3, <2>1 DEF InTime, CountedOn
  <2> QED
    BY <1>1, <1>6, <1>8, <1>9, <2>2 DEF InTime, CountedOn, Connected
<1>12. FiltersOwn'
  BY <1>1, <1>5, <1>9 DEF InTime, FiltersOwn
<1>13. Real'
  BY <1>1, <1>3, <1>5 DEF InTime, Real, WireReal, AskReal
<1> QED
  BY <1>10, <1>11, <1>12, <1>13 DEF InTime

LEMMA RememberedRange ==
  ASSUME NEW s \in Seq(Block)
  PROVE  ToSet(Remembered(s)) \subseteq ToSet(s)
<1>1. MaxHashes \in Nat \ {0} /\ Len(s) \in Nat
  BY MessageAssumption
<1> DEFINE m == Len(s) - MaxHashes \div 2 + 1
           r == SubSeq(s, m, Len(s))
<1>2. CASE Len(s) > MaxHashes
  <2>1. MaxHashes \div 2 \in Nat /\ MaxHashes \div 2 <= MaxHashes
    BY <1>1
  <2>2. m \in 1..(Len(s) + 1) /\ m \in Int
    BY <1>1, <1>2, <2>1
  <2>3. Remembered(s) = r
    BY <1>2 DEF Remembered
  <2> HIDE DEF m
  <2>4. \A i \in m..Len(s) : s[i] \in Block
    BY <2>2
  <2>5. /\ r \in Seq(Block) /\ Len(r) = IF m <= Len(s) THEN Len(s) - m + 1 ELSE 0
        /\ \A j \in 1..(Len(s) - m + 1) : r[j] = s[m + j - 1]
    BY <1>1, <2>2, <2>4, SubSeqProperties
  <2> HIDE DEF r
  <2>6. ASSUME NEW j \in DOMAIN r PROVE r[j] \in ToSet(s)
    <3>1. j \in 1..(Len(s) - m + 1)
      BY <1>1, <2>2, <2>5
    <3>2. m + j - 1 \in 1..Len(s) /\ DOMAIN s = 1..Len(s)
      BY <1>1, <2>2, <3>1
    <3>3. r[j] = s[m + j - 1]
      BY <2>5, <3>1
    <3> QED
      BY <3>2, <3>3 DEF ToSet
  <2> QED
    BY <2>3, <2>6 DEF ToSet
<1>3. CASE ~(Len(s) > MaxHashes)
  BY <1>1, <1>3 DEF Remembered
<1> QED
  BY <1>2, <1>3

\* The announced transactions are asked for from now on, unless they were before.
LEMMA AnnouncedAsked ==
  ASSUME Typed, InTime, AcceptInv
  PROVE  LET new == ToSet(Head(wire).txs) \ FalsePositives
         IN  /\ OnWire' = OnWire
             /\ InRequests' = InRequests \cup new
             /\ Supplied(Outgoing', AskGives, AskNeeds, told, addresses, OnWire)
             /\ \A x \in ToSet(Outgoing') : x.type = "filterload" => Own(x.filter, addresses, wallet)
             /\ \A x \in ToSet(Outgoing') : AskReal(x)
             /\ (Ups(Head(wire).blocks) \cap told) \ FalsePositives \subseteq InRequests \cup new
<1> DEFINE m == Head(wire)
           new == ToSet(m.txs) \ FalsePositives
           txs == Those(m.txs, Tx \ knownTx)
           full == IF Len(m.blocks) >= MaxInv THEN <<GetBlocks(m.blocks[Len(m.blocks)])>> ELSE <<>>
<1>1. /\ m \in WireMessage /\ m.type = "inv" /\ m.txs \in Seq(Tx) /\ m.blocks \in Seq(Block)
      /\ wire # <<>> /\ wire' = Tail(wire) /\ Connected
      /\ txs \in Seq(Tx)
      /\ full \in Seq(LoopMessage) /\ loop \o full \in Seq(LoopMessage)
      /\ \/ txs = <<>> /\ m.blocks = <<>> /\ loop' = loop \o full
         \/ SendGetData(loop \o full, txs, m.blocks)
  BY AcceptInvFacts
<1>2. UNCHANGED <<queue, addresses, wallet, told, nodeFilter, bloomFilter, height, status, current, out>>
  BY DEF AcceptInv, managerVars, nodeVars
<1>3. /\ wire \in Seq(WireMessage) /\ out \in Seq(LoopMessage) /\ loop \in Seq(LoopMessage)
      /\ bloomFilter \in Filter
  BY <1>1, RequestTypes DEF Typed, Stages
<1>4. \A i \in DOMAIN full : full[i].type = "getblocks"
  BY DEF GetBlocks
<1>5. ToSet(txs) = ToSet(m.txs) \ knownTx
  <2>1. ToSet(txs) = ToSet(m.txs) \cap (Tx \ knownTx) /\ ToSet(m.txs) \in SUBSET Tx
    BY <1>1, ThoseFacts, RangeType
  <2> QED
    BY <2>1
<1>6. m \in ToSet(wire)
  BY <1>1, <1>3, RangeTail
<1>7. ToSet(m.txs) \subseteq told /\ ToSet(m.blocks) \subseteq 1..height
  BY <1>1, <1>6 DEF InTime, Real, WireReal
<1>8. /\ WireGives[m] = {} /\ ToldGives[m] = new /\ ToldNeeds[m] = Ups(m.blocks)
  BY <1>1, WireSupply
<1>9. Served(m, ToldGives, ToldNeeds, told, addresses, InRequests)
  <2>1. Supplied(wire, ToldGives, ToldNeeds, told, addresses, InRequests)
    BY DEF InTime, InSupply
  <2> HIDE DEF m
  <2> QED
    BY <1>1, <1>3, <2>1, SuppliedTail DEF m
<1>10. /\ (Ups(m.blocks) \cap told) \ FalsePositives \subseteq InRequests \cup new
       /\ \A t \in new : Reason(t, addresses, InRequests)
  BY <1>8, <1>9 DEF Served
<1>11. OnWire' = OnWire
  <2> HIDE DEF m
  <2>1. Given(wire, WireGives) = WireGives[m] \cup Given(Tail(wire), WireGives)
    <3>1. Supplied(wire, WireGives, WireNeeds, told, addresses, AtManager)
      BY DEF InTime, InSupply
    <3> QED
      BY <1>1, <1>3, <3>1, SuppliedTail DEF m
  <2>2. AtManager' = AtManager
    BY <1>2 DEF AtManager
  <2> QED
    BY <1>1, <1>8, <2>1, <2>2 DEF OnWire
<1> HIDE DEF m, txs, full
<1> DEFINE first == Outgoing \o full
<1>12. Outgoing \in Seq(LoopMessage) /\ first \in Seq(LoopMessage) /\ first = out \o (loop \o full)
  <2>1. Outgoing \in Seq(LoopMessage)
    BY RequestTypes
  <2>2. out \in Seq(LoopMessage) /\ loop \in Seq(LoopMessage) /\ full \in Seq(LoopMessage)
    BY <1>1, <1>3
  <2>3. (out \o loop) \o full = out \o (loop \o full)
    BY <2>2, ConcatAssociative
  <2> QED
    BY <1>1, <2>1, <2>3, ConcatFacts DEF Outgoing
<1>13. /\ Supplied(first, AskGives, AskNeeds, told, addresses, OnWire)
       /\ Given(first, AskGives) = Given(Outgoing, AskGives)
       /\ \A x \in ToSet(first) : x.type = "filterload" => Own(x.filter, addresses, wallet)
       /\ \A x \in ToSet(first) : AskReal(x)
  <2>1. Given(full, AskGives) = {}
    BY <1>1, <1>4, IdleRequests
  <2>2. Supplied(full, AskGives, AskNeeds, told, addresses, OnWire \cup Given(Outgoing, AskGives))
    BY <1>1, <1>4, IdleRequests
  <2>3. Supplied(Outgoing, AskGives, AskNeeds, told, addresses, OnWire)
    BY DEF InTime, InSupply
  <2>4. /\ Supplied(first, AskGives, AskNeeds, told, addresses, OnWire)
        /\ Given(first, AskGives) = Given(Outgoing, AskGives) \cup Given(full, AskGives)
        /\ ToSet(first) = ToSet(Outgoing) \cup ToSet(full)
    BY <1>1, <1>12, <2>2, <2>3, RequestsMore
  <2>5. \A x \in ToSet(full) : x.type = "getblocks"
    BY <1>4 DEF ToSet
  <2>6. \A x \in ToSet(first) : x.type = "filterload" => Own(x.filter, addresses, wallet)
    BY <2>4, <2>5 DEF InTime, FiltersOwn
  <2>7. \A x \in ToSet(first) : AskReal(x)
    BY <2>4, <2>5 DEF InTime, Real, AskReal
  <2> QED
    BY <2>1, <2>4, <2>6, <2>7
<1> HIDE DEF first
<1>14. knownTx \ FalsePositives \subseteq InRequests
  BY <1>1 DEF InTime, CountedOn, Connected
<1>15. new \subseteq InRequests \cup (ToSet(txs) \ FalsePositives)
  BY <1>5, <1>14
<1>16. /\ InRequests' = InRequests \cup new
       /\ Supplied(Outgoing', AskGives, AskNeeds, told, addresses, OnWire)
       /\ \A x \in ToSet(Outgoing') : x.type = "filterload" => Own(x.filter, addresses, wallet)
       /\ \A x \in ToSet(Outgoing') : AskReal(x)
  <2>1. CASE txs = <<>> /\ m.blocks = <<>> /\ loop' = loop \o full
    <3>1. Outgoing' = first
      BY <1>2, <1>12, <2>1 DEF Outgoing
    <3>2. ToSet(txs) = {}
      BY <2>1 DEF ToSet
    <3>3. InRequests' = InRequests
      BY <1>11, <1>13, <3>1 DEF InRequests
    <3> QED
      BY <1>13, <1>15, <3>1, <3>2, <3>3
  <2>2. CASE SendGetData(loop \o full, txs, m.blocks)
    <3> DEFINE r == Request(txs, m.blocks)
    <3>1. r \in Seq(LoopMessage) /\ loop' = (loop \o full) \o r
      BY <1>1, <1>3, <2>2, SendGetDataTypes
    <3>2. InRequests = OnWire \cup Given(first, AskGives)
      BY <1>13 DEF InRequests
    <3>3. /\ Given(r, AskGives) = ToSet(txs) \ FalsePositives
          /\ Supplied(r, AskGives, AskNeeds, told, addresses, InRequests)
          /\ \A x \in ToSet(r) :
              /\ x.type = "filterload" => Own(x.filter, addresses, wallet)
              /\ x.type = "getdata" => x.txs = txs /\ x.blocks = m.blocks
      <4>1. (Ups(m.blocks) \cap told) \ FalsePositives \subseteq InRequests \cup (ToSet(txs) \ FalsePositives)
        BY <1>10, <1>15
      <4>2. \A t \in ToSet(txs) \ FalsePositives : Reason(t, addresses, InRequests)
        BY <1>5, <1>10
      <4> QED
        BY <1>1, <1>3, <3>1, <4>1, <4>2, RequestSupply
    <3> HIDE DEF r
    <3>4. Outgoing' = first \o r
      <4> DEFINE lf == loop \o full
      <4>1. out \in Seq(LoopMessage) /\ lf \in Seq(LoopMessage) /\ r \in Seq(LoopMessage)
        BY <1>1, <1>3, <3>1
      <4>2. loop' = lf \o r /\ first = out \o lf
        BY <1>12, <3>1
      <4> HIDE DEF lf
      <4>3. out \o (lf \o r) = (out \o lf) \o r
        BY <4>1, ConcatAssociative
      <4> QED
        BY <1>2, <4>2, <4>3 DEF Outgoing
    <3>5. /\ Supplied(first \o r, AskGives, AskNeeds, told, addresses, OnWire)
          /\ Given(first \o r, AskGives) = Given(first, AskGives) \cup Given(r, AskGives)
          /\ ToSet(first \o r) = ToSet(first) \cup ToSet(r)
      BY <1>12, <1>13, <3>1, <3>2, <3>3, RequestsMore
    <3>6. \A x \in ToSet(r) : AskReal(x)
      BY <1>5, <1>7, <3>3 DEF AskReal
    <3>7. InRequests' = InRequests \cup (ToSet(txs) \ FalsePositives)
      BY <1>11, <3>2, <3>3, <3>4, <3>5 DEF InRequests
    <3>8. InRequests' = InRequests \cup new
      BY <1>5, <1>15, <3>7
    <3> QED
      BY <1>13, <3>3, <3>4, <3>5, <3>6, <3>8
  <2> QED
    BY <1>1, <2>1, <2>2
<1> QED
  BY <1>10, <1>11, <1>16 DEF m

LEMMA AcceptInvInTime ==
  ASSUME Typed, InTime, AcceptInv
  PROVE  InTime'
<1> DEFINE m == Head(wire)
           new == ToSet(m.txs) \ FalsePositives
           bs == Those(m.blocks, Block \ ToSet(blockHashes))
<1>1. /\ m \in WireMessage /\ m.type = "inv" /\ m.txs \in Seq(Tx) /\ m.blocks \in Seq(Block)
      /\ wire # <<>> /\ wire' = Tail(wire) /\ Connected /\ current = None
      /\ knownTx' = knownTx \cup ToSet(m.txs)
      /\ bs \in Seq(Block) /\ blockHashes' = Remembered(blockHashes \o bs)
  BY AcceptInvFacts
<1>2. /\ UNCHANGED <<queue, addresses, wallet, told, nodeFilter, bloomFilter, height, status, current>>
      /\ wire \in Seq(WireMessage) /\ blockHashes \in Seq(Block) /\ status # "disconnected"
  BY <1>1, RequestTypes DEF AcceptInv, managerVars, nodeVars, Typed, MessagesTypeOK, Connected
<1>3. /\ OnWire' = OnWire
      /\ InRequests' = InRequests \cup new
      /\ Supplied(Outgoing', AskGives, AskNeeds, told, addresses, OnWire)
      /\ \A x \in ToSet(Outgoing') : x.type = "filterload" => Own(x.filter, addresses, wallet)
      /\ \A x \in ToSet(Outgoing') : AskReal(x)
      /\ (Ups(m.blocks) \cap told) \ FalsePositives \subseteq InRequests \cup new
  BY AnnouncedAsked
<1>4. /\ WireGives[m] = {} /\ ToldGives[m] = new
  BY <1>1, WireSupply
<1> HIDE DEF m
<1>5. m \in ToSet(wire) /\ ToSet(Tail(wire)) \subseteq ToSet(wire)
  BY <1>1, <1>2, RangeTail DEF m
<1>6. ToSet(m.txs) \subseteq told /\ ToSet(m.blocks) \subseteq 1..height
  BY <1>1, <1>5 DEF InTime, Real, WireReal
<1>7. /\ Supplied(Tail(wire), ToldGives, ToldNeeds, told, addresses, InRequests \cup new)
      /\ Given(wire, ToldGives) = new \cup Given(Tail(wire), ToldGives)
  <2>1. Supplied(wire, ToldGives, ToldNeeds, told, addresses, InRequests)
    BY DEF InTime, InSupply
  <2>2. /\ Supplied(Tail(wire), ToldGives, ToldNeeds, told, addresses, InRequests \cup ToldGives[m])
        /\ Given(wire, ToldGives) = ToldGives[m] \cup Given(Tail(wire), ToldGives)
    BY <1>1, <1>2, <2>1, SuppliedTail DEF m
  <2> QED
    BY <1>4, <2>2
<1>8. Supplied(Tail(wire), WireGives, WireNeeds, told, addresses, AtManager)
  <2>1. Supplied(wire, WireGives, WireNeeds, told, addresses, AtManager)
    BY DEF InTime, InSupply
  <2>2. Supplied(Tail(wire), WireGives, WireNeeds, told, addresses, AtManager \cup WireGives[m])
    BY <1>1, <1>2, <2>1, SuppliedTail DEF m
  <2>3. AtManager \cup WireGives[m] = AtManager
    BY <1>4
  <2> QED
    BY <2>2, <2>3
<1>9. AtManager' = AtManager
  BY <1>2 DEF AtManager
<1>10. InAll' = InAll
  BY <1>1, <1>3, <1>7 DEF InAll
<1>11. ToSet(blockHashes') \subseteq ToSet(blockHashes) \cup ToSet(m.blocks)
  <2>1. ToSet(bs) \subseteq ToSet(m.blocks)
    BY <1>1, ThoseFacts
  <2> HIDE DEF bs
  <2>2. ToSet(blockHashes \o bs) = ToSet(blockHashes) \cup ToSet(bs) /\ blockHashes \o bs \in Seq(Block)
    BY <1>1, <1>2, RangeConcat, ConcatFacts
  <2>3. ToSet(blockHashes') \subseteq ToSet(blockHashes \o bs)
    BY <1>1, <2>2, RememberedRange
  <2> QED
    BY <2>1, <2>2, <2>3
<1>12. InSupply'
  <2>1. Supplied(wire', ToldGives, ToldNeeds, told, addresses, InRequests')
    BY <1>1, <1>3, <1>7
  <2> QED
    BY <1>1, <1>2, <1>3, <1>8, <1>9, <2>1 DEF InTime, InSupply
<1>13. CountedOn'
  <2>1. Ups(blockHashes') \subseteq Ups(blockHashes) \cup Ups(m.blocks)
    BY <1>11 DEF Ups
  <2>2. (Ups(blockHashes') \cap told) \ FalsePositives \subseteq InRequests'
    BY <1>2, <1>3, <2>1 DEF InTime, CountedOn
  <2>3. knownTx' \subseteq told /\ knownTx' \ FalsePositives \subseteq InRequests'
    BY <1>1, <1>2, <1>3, <1>6 DEF InTime, CountedOn
  <2>4. told \ FalsePositives \subseteq InAll'
    BY <1>10 DEF InTime, CountedOn
  <2> QED
    BY <1>1, <1>2, <2>2, <2>3, <2>4 DEF CountedOn
<1>14. FiltersOwn'
  BY <1>2, <1>3, <1>10 DEF InTime, FiltersOwn
<1>15. Real'
  <2>1. \A x \in ToSet(wire') : WireReal(x)'
    BY <1>1, <1>2, <1>5 DEF InTime, Real, WireReal
  <2>2. \A x \in ToSet(Outgoing') : AskReal(x)'
    BY <1>2, <1>3 DEF AskReal
  <2>3. ToSet(blockHashes') \subseteq 1..height'
    BY <1>2, <1>6, <1>11 DEF InTime, Real
  <2> QED
    BY <2>1, <2>2, <2>3 DEF Real
<1> QED
  BY <1>12, <1>13, <1>14, <1>15 DEF InTime

\* A message that the peer has taken, and that announces nothing.
LEMMA WireTaken ==
  ASSUME Typed, InTime, wire # <<>>, Head(wire).type # "inv"
  PROVE  LET m == Head(wire)
         IN  /\ m \in WireMessage /\ ToSet(Tail(wire)) \subseteq ToSet(wire)
             /\ Served(m, WireGives, WireNeeds, told, addresses, AtManager)
             /\ Supplied(Tail(wire), WireGives, WireNeeds, told, addresses, AtManager \cup WireGives[m])
             /\ Given(wire, WireGives) = WireGives[m] \cup Given(Tail(wire), WireGives)
             /\ Supplied(Tail(wire), ToldGives, ToldNeeds, told, addresses, InRequests)
             /\ Given(wire, ToldGives) = Given(Tail(wire), ToldGives)
<1> DEFINE m == Head(wire)
<1>1. wire \in Seq(WireMessage) /\ m \in WireMessage /\ ToSet(Tail(wire)) \subseteq ToSet(wire)
  BY RequestTypes, TailFacts, RangeTail
<1>2. ToldGives[m] = {}
  BY <1>1, WireSupply
<1> HIDE DEF m
<1>3. /\ Supplied(wire, WireGives, WireNeeds, told, addresses, AtManager)
      /\ Supplied(wire, ToldGives, ToldNeeds, told, addresses, InRequests)
  BY DEF InTime, InSupply
<1>4. /\ Served(m, WireGives, WireNeeds, told, addresses, AtManager)
      /\ Supplied(Tail(wire), WireGives, WireNeeds, told, addresses, AtManager \cup WireGives[m])
      /\ Given(wire, WireGives) = WireGives[m] \cup Given(Tail(wire), WireGives)
  BY <1>1, <1>3, SuppliedTail DEF m
<1>5. /\ Supplied(Tail(wire), ToldGives, ToldNeeds, told, addresses, InRequests \cup ToldGives[m])
      /\ Given(wire, ToldGives) = ToldGives[m] \cup Given(Tail(wire), ToldGives)
  BY <1>1, <1>3, SuppliedTail DEF m
<1>6. InRequests \cup ToldGives[m] = InRequests
  BY <1>2
<1>7. Supplied(Tail(wire), ToldGives, ToldNeeds, told, addresses, InRequests)
  BY <1>5, <1>6
<1>8. Given(wire, ToldGives) = Given(Tail(wire), ToldGives)
  BY <1>2, <1>5
<1> QED
  BY <1>1, <1>4, <1>7, <1>8 DEF m

\* What the message gave goes to q: all else is as it was.
LEMMA InTimeTaken ==
  ASSUME Typed, InTime, wire # <<>>, Head(wire).type # "inv", wire' = Tail(wire),
         UNCHANGED <<addresses, wallet, told, knownTx, blockHashes, nodeFilter, bloomFilter, height, status,
                     out, loop>>,
         Given(queue', CallbackGives) = Given(queue, CallbackGives) \cup WireGives[Head(wire)],
         Supplied(queue', CallbackGives, CallbackNeeds, Tx, addresses, wallet),
         Connected /\ current' # None =>
           (current'.txs \ current'.missing) \ FalsePositives \subseteq AtManager \cup WireGives[Head(wire)]
  PROVE  InTime'
<1> DEFINE m == Head(wire)
<1>1. /\ ToSet(Tail(wire)) \subseteq ToSet(wire)
      /\ Supplied(Tail(wire), WireGives, WireNeeds, told, addresses, AtManager \cup WireGives[m])
      /\ Given(wire, WireGives) = WireGives[m] \cup Given(Tail(wire), WireGives)
      /\ Supplied(Tail(wire), ToldGives, ToldNeeds, told, addresses, InRequests)
      /\ Given(wire, ToldGives) = Given(Tail(wire), ToldGives)
  BY WireTaken
<1> HIDE DEF m
<1>2. AtManager' = AtManager \cup WireGives[m]
  BY DEF AtManager, m
<1>3. OnWire' = OnWire
  BY <1>1, <1>2 DEF OnWire
<1>4. Outgoing' = Outgoing
  BY DEF Outgoing
<1>5. InRequests' = InRequests
  BY <1>3, <1>4 DEF InRequests
<1>6. InAll' = InAll
  BY <1>1, <1>5 DEF InAll
<1>7. InSupply'
  BY <1>1, <1>2, <1>3, <1>4, <1>5 DEF InTime, InSupply
<1>8. CountedOn'
  BY <1>2, <1>5, <1>6 DEF InTime, CountedOn, Connected, m
<1>9. FiltersOwn'
  BY <1>4, <1>6 DEF InTime, FiltersOwn
<1>10. Real'
  BY <1>1, <1>4 DEF InTime, Real, WireReal, AskReal
<1> QED
  BY <1>7, <1>8, <1>9, <1>10 DEF InTime

LEMMA AcceptMerkleblockInTime ==
  ASSUME Typed, InTime, AcceptMerkleblock
  PROVE  InTime'
<1> DEFINE m == Head(wire)
           missing == m.matched \ knownTx
           c == BlockCallback(m.block, m.matched)
<1>1. /\ m \in WireMessage /\ m.type = "merkleblock" /\ m.block \in Block /\ m.matched \in SUBSET Tx
      /\ wire # <<>> /\ wire' = Tail(wire) /\ current = None /\ Connected
      /\ \/ current' = None /\ queue' = queue
         \/ /\ queue' = queue
            /\ current' = [block |-> m.block, txs |-> m.matched, missing |-> missing]
         \/ missing = {} /\ current' = None /\ queue' = Append(queue, c)
  BY AcceptMerkleblockFacts
<1>2. /\ UNCHANGED <<addresses, wallet, told, knownTx, blockHashes, nodeFilter, bloomFilter, height, status, out, loop>>
      /\ queue \in Seq(CallbackBlock) /\ status # "disconnected"
  BY <1>1, RequestTypes DEF AcceptMerkleblock, managerVars, nodeVars, Connected
<1>3. WireGives[m] = {} /\ WireNeeds[m] = m.matched
  BY <1>1, WireSupply
<1>4. Served(m, WireGives, WireNeeds, told, addresses, AtManager)
  BY <1>1, WireTaken
<1>5. (m.matched \cap told) \ FalsePositives \subseteq AtManager
  BY <1>3, <1>4 DEF Served
<1>6. knownTx \subseteq told
  BY <1>2 DEF InTime, CountedOn
<1>7. /\ c \in CallbackBlock /\ c.type = "block" /\ c.txs = m.matched
  BY <1>1, MessageTypes DEF BlockCallback
<1> HIDE DEF c
<1>8. CallbackGives[c] = {} /\ CallbackNeeds[c] = m.matched
  BY <1>7, CallbackSupply
<1>9. Supplied(queue, CallbackGives, CallbackNeeds, Tx, addresses, wallet)
  BY DEF InTime, InSupply
<1>10. /\ Given(queue', CallbackGives) = Given(queue, CallbackGives) \cup WireGives[m]
       /\ Supplied(queue', CallbackGives, CallbackNeeds, Tx, addresses, wallet)
  <2>1. CASE queue' = queue
    BY <1>3, <1>9, <2>1
  <2>2. CASE missing = {} /\ queue' = Append(queue, c)
    <3>1. m.matched \ FalsePositives \subseteq wallet \cup Given(queue, CallbackGives)
      BY <1>5, <1>6, <2>2 DEF AtManager
    <3>2. Served(c, CallbackGives, CallbackNeeds, Tx, addresses, wallet \cup Given(queue, CallbackGives))
      BY <1>8, <3>1 DEF Served
    <3>3. queue \in Seq(CallbackBlock) /\ c \in CallbackBlock
      BY <1>2, <1>7
    <3>4. Supplied(Append(queue, c), CallbackGives, CallbackNeeds, Tx, addresses, wallet)
      BY <1>9, <3>2, <3>3, SuppliedAppend
    <3>5. Given(Append(queue, c), CallbackGives) = Given(queue, CallbackGives) \cup CallbackGives[c]
      BY <3>3, GivenAppend
    <3> QED
      BY <1>3, <1>8, <2>2, <3>4, <3>5
  <2> QED
    BY <1>1, <2>1, <2>2
<1>11. current' # None => (current'.txs \ current'.missing) \ FalsePositives \subseteq AtManager \cup WireGives[m]
  <2>1. CASE current' = [block |-> m.block, txs |-> m.matched, missing |-> missing]
    <3>1. current'.txs \ current'.missing \subseteq m.matched \cap told
      BY <1>6, <2>1
    <3> QED
      BY <1>5, <3>1
  <2> QED
    BY <1>1, <2>1
<1> QED
  BY <1>1, <1>2, <1>10, <1>11, InTimeTaken

LEMMA AcceptTxInTime ==
  ASSUME Typed, InTime, AcceptTx
  PROVE  InTime'
<1> DEFINE m == Head(wire)
           t == m.tx
           r == TxCallback(t)
           relayed == Append(queue, r)
           c == BlockCallback(current.block, current.txs)
<1>1. /\ t \in Tx /\ wire # <<>> /\ m = TxMessage(t) /\ Connected /\ wire' = Tail(wire)
      /\ \/ current = None /\ current' = None /\ queue' = relayed
         \/ /\ current \in Waiting /\ current # None /\ queue' = relayed
            /\ current'.missing = current.missing \ {t} /\ current'.txs = current.txs
         \/ /\ current \in Waiting /\ current.missing \subseteq {t} /\ current' = None
            /\ queue' = Append(relayed, c)
  BY AcceptTxFacts
<1>2. /\ UNCHANGED <<addresses, wallet, told, knownTx, blockHashes, nodeFilter, bloomFilter, height, status, out, loop>>
      /\ queue \in Seq(CallbackBlock)
  BY RequestTypes DEF AcceptTx, managerVars, nodeVars
<1>3. m \in WireMessage /\ m.type = "tx" /\ WireGives[m] = {t} \ FalsePositives
  <2>1. m \in WireMessage /\ m.type = "tx"
    BY <1>1, RequestTypes, TailFacts DEF AcceptTx, Accept
  <2> QED
    BY <2>1, WireSupply
<1>4. \A x \in {t} \ FalsePositives : Reason(x, addresses, AtManager)
  <2>1. Served(m, WireGives, WireNeeds, told, addresses, AtManager)
    BY <1>1, <1>3, WireTaken
  <2> QED
    BY <1>3, <2>1 DEF Served
<1>5. r \in CallbackBlock /\ r.type = "tx" /\ r.tx = t
  BY <1>1, MessageTypes DEF TxCallback
<1> HIDE DEF m, t
<1>6. CallbackGives[r] = {t} \ FalsePositives /\ CallbackNeeds[r] = {}
  BY <1>5, CallbackSupply
<1> HIDE DEF r
<1>7. /\ Given(relayed, CallbackGives) = Given(queue, CallbackGives) \cup ({t} \ FalsePositives)
      /\ Supplied(relayed, CallbackGives, CallbackNeeds, Tx, addresses, wallet)
      /\ relayed \in Seq(CallbackBlock)
  <2>1. queue \in Seq(CallbackBlock) /\ r \in CallbackBlock
    BY <1>2, <1>5
  <2>2. Supplied(queue, CallbackGives, CallbackNeeds, Tx, addresses, wallet)
    BY DEF InTime, InSupply
  <2>3. Served(r, CallbackGives, CallbackNeeds, Tx, addresses, wallet \cup Given(queue, CallbackGives))
    BY <1>4, <1>6 DEF Served, AtManager
  <2>4. Given(Append(queue, r), CallbackGives) = Given(queue, CallbackGives) \cup CallbackGives[r]
    BY <2>1, GivenAppend
  <2>5. Supplied(Append(queue, r), CallbackGives, CallbackNeeds, Tx, addresses, wallet)
    BY <2>1, <2>2, <2>3, SuppliedAppend
  <2> QED
    BY <1>6, <2>1, <2>4, <2>5, AppendFacts
<1> HIDE DEF relayed
<1>8. /\ Given(queue', CallbackGives) = Given(queue, CallbackGives) \cup WireGives[m]
      /\ Supplied(queue', CallbackGives, CallbackNeeds, Tx, addresses, wallet)
  <2>1. CASE queue' = relayed
    BY <1>3, <1>7, <2>1
  <2>2. CASE current \in Waiting /\ current.missing \subseteq {t} /\ queue' = Append(relayed, c)
    <3>1. c \in CallbackBlock /\ c.type = "block" /\ c.txs = current.txs /\ current # None
      <4>1. current.block \in Block /\ current.txs \in SUBSET Tx
        BY <2>2 DEF Waiting
      <4>2. None \notin Waiting
        BY MessageAssumption DEF Waiting
      <4> QED
        BY <2>2, <4>1, <4>2, MessageTypes DEF BlockCallback
    <3> HIDE DEF c
    <3>2. CallbackGives[c] = {} /\ CallbackNeeds[c] = current.txs
      BY <3>1, CallbackSupply
    <3>3. (current.txs \ current.missing) \ FalsePositives \subseteq AtManager
      BY <1>1, <3>1 DEF InTime, CountedOn
    <3>4. current.txs \ FalsePositives \subseteq wallet \cup Given(relayed, CallbackGives)
      BY <1>7, <2>2, <3>3 DEF AtManager
    <3>5. Served(c, CallbackGives, CallbackNeeds, Tx, addresses, wallet \cup Given(relayed, CallbackGives))
      BY <3>2, <3>4 DEF Served
    <3>6. relayed \in Seq(CallbackBlock) /\ c \in CallbackBlock
      BY <1>7, <3>1
    <3>7. Supplied(Append(relayed, c), CallbackGives, CallbackNeeds, Tx, addresses, wallet)
      BY <1>7, <3>5, <3>6, SuppliedAppend
    <3>8. Given(Append(relayed, c), CallbackGives) = Given(relayed, CallbackGives) \cup CallbackGives[c]
      BY <3>6, GivenAppend
    <3> QED
      BY <1>3, <1>7, <2>2, <3>2, <3>7, <3>8
  <2> QED
    BY <1>1, <2>1, <2>2
<1>9. current' # None => (current'.txs \ current'.missing) \ FalsePositives \subseteq AtManager \cup WireGives[m]
  <2>1. CASE current # None /\ current'.missing = current.missing \ {t} /\ current'.txs = current.txs
    <3>1. (current.txs \ current.missing) \ FalsePositives \subseteq AtManager
      BY <1>1, <2>1 DEF InTime, CountedOn
    <3> QED
      BY <1>3, <2>1, <3>1
  <2> QED
    BY <1>1, <2>1
<1>10. Head(wire) = m /\ m.type # "inv"
  BY <1>3 DEF m
<1> QED
  BY <1>1, <1>2, <1>8, <1>9, <1>10, InTimeTaken

\* Nothing is under way.
LEMMA Unconnected ==
  Typed /\ ~Connected /\ (bloomFilter \in Filter => Own(bloomFilter, addresses, wallet))
    /\ (status = "connecting" => knownTx = {} /\ blockHashes = <<>>)
  => InTime
<1> SUFFICES ASSUME Typed, ~Connected, bloomFilter \in Filter => Own(bloomFilter, addresses, wallet),
                    status = "connecting" => knownTx = {} /\ blockHashes = <<>>
             PROVE  InTime
  OBVIOUS
<1>1. /\ queue = <<>> /\ loop = <<>> /\ out = <<>> /\ nodeFilter = None /\ told = {}
      /\ status \in {"disconnected", "connecting"}
      /\ wire = <<>> \/ wire = <<[type |-> "version"]>>
  BY DEF Typed, Stages, MessagesTypeOK, Connected
<1>2. Outgoing = <<>>
  BY <1>1 DEF Outgoing
<1>3. [type |-> "version"] \in WireMessage
  BY DEF WireMessage
<1>4. \A i \in DOMAIN wire : /\ wire[i] = [type |-> "version"]
                             /\ WireGives[wire[i]] = {} /\ WireNeeds[wire[i]] = {}
                             /\ ToldGives[wire[i]] = {} /\ ToldNeeds[wire[i]] = {}
  <2> DEFINE v == [type |-> "version"]
  <2>1. v.type = "version" /\ v \in WireMessage
    BY <1>3
  <2>2. \A i \in DOMAIN wire : wire[i] = v
    BY <1>1
  <2> HIDE DEF v
  <2>3. WireGives[v] = {} /\ WireNeeds[v] = {} /\ ToldGives[v] = {} /\ ToldNeeds[v] = {}
    BY <2>1, WireSupply
  <2>4. \A i \in DOMAIN wire : /\ wire[i] = v
                               /\ WireGives[wire[i]] = {} /\ WireNeeds[wire[i]] = {}
                               /\ ToldGives[wire[i]] = {} /\ ToldNeeds[wire[i]] = {}
    BY <2>2, <2>3
  <2> QED
    BY <2>4 DEF v
<1>5. wire \in Seq(WireMessage)
  BY RequestTypes
<1>6. InSupply
  <2>1. Supplied(wire, WireGives, WireNeeds, told, addresses, AtManager)
    BY <1>4, <1>5, SuppliedIdle
  <2>2. Supplied(wire, ToldGives, ToldNeeds, told, addresses, InRequests)
    BY <1>4, <1>5, SuppliedIdle
  <2>3. Supplied(<<>>, AskGives, AskNeeds, told, addresses, OnWire)
    BY SuppliedNone
  <2>4. Supplied(<<>>, CallbackGives, CallbackNeeds, Tx, addresses, wallet)
    BY SuppliedNone
  <2> QED
    BY <1>1, <1>2, <2>1, <2>2, <2>3, <2>4 DEF InSupply
<1>7. CountedOn
  <2>1. blockHashes = <<>> => ToSet(blockHashes) = {} /\ Ups(blockHashes) = {}
    BY DEF ToSet, Ups
  <2> QED
    BY <1>1, <2>1 DEF CountedOn
<1>8. FiltersOwn
  <2>1. nodeFilter \notin Filter
    BY <1>1, MessageAssumption DEF Filter
  <2>2. ToSet(Outgoing) = {}
    BY <1>2 DEF ToSet
  <2> QED
    BY <2>1, <2>2 DEF FiltersOwn
<1>9. Real
  <2>1. \A x \in ToSet(wire) : x = [type |-> "version"]
    BY <1>4 DEF ToSet
  <2>2. \A x \in ToSet(wire) : WireReal(x)
    BY <2>1 DEF WireReal
  <2>3. ToSet(Outgoing) = {} /\ (blockHashes = <<>> => ToSet(blockHashes) = {})
    BY <1>2 DEF ToSet
  <2> QED
    BY <1>1, <2>2, <2>3 DEF Real
<1> QED
  BY <1>6, <1>7, <1>8, <1>9 DEF InTime

LEMMA ConnectionInTime ==
  ASSUME Typed', InTime, Connect \/ LoseConnection \/ IncompleteBlock
  PROVE  InTime'
<1>1. /\ UNCHANGED <<addresses, wallet, bloomFilter>> /\ ~Connected'
      /\ status' = "connecting" => knownTx' = {} /\ blockHashes' = <<>>
  BY DEF Connect, LoseConnection, IncompleteBlock, managerVars, Connected
<1>2. (bloomFilter \in Filter => Own(bloomFilter, addresses, wallet))'
  BY <1>1 DEF InTime, FiltersOwn
<1>3. (status = "connecting" => knownTx = {} /\ blockHashes = <<>>)'
  BY <1>1
<1> QED
  BY <1>1, <1>2, <1>3, Unconnected, PTL

LEMMA InitInTime ==
  ASSUME Init
  PROVE  InTime
<1>1. Typed
  BY InitTyped
<1>2. status = "disconnected" /\ bloomFilter = None
  BY DEF Init
<1>3. bloomFilter \notin Filter
  BY <1>2, MessageAssumption DEF Filter
<1> QED
  BY <1>1, <1>2, <1>3, Unconnected DEF Connected

LEMMA HandshakeInTime ==
  ASSUME Typed, Typed', InTime, Handshake
  PROVE  InTime'
<1> DEFINE f == FilterLoad(bloomFilter')
           ask == IF lastBlock < height THEN <<GetBlocks(lastBlock)>> ELSE <<>>
<1>0. wire' = <<>>
  BY HandshakeTyped
<1>1. /\ status = "connecting" /\ status' = "connected" /\ wire' = <<>>
      /\ addresses' = WithGapLimit(addresses, wallet, 2 * Gap)
      /\ bloomFilter' = NewFilter /\ loop' = <<f>> \o ask
      /\ UNCHANGED <<wallet, queue, knownTx, blockHashes, out, nodeFilter, told, height>>
  BY <1>0 DEF Handshake, nodeVars
<1>2. /\ queue' = <<>> /\ out' = <<>> /\ nodeFilter' = None /\ told' = {} /\ current' = None
      /\ addresses' \in Nat /\ bloomFilter' \in Filter /\ loop' \in Seq(LoopMessage)
  BY <1>1 DEF Typed, Stages, MessagesTypeOK, Queues, Handshake, Accept, Connected
<1>3. Own(bloomFilter', addresses', wallet')
  BY <1>1, <1>2, NewFilterOwn
<1>4. f.type = "filterload" /\ f.filter = bloomFilter'
  BY DEF FilterLoad
<1>5. ask = <<>> \/ (\E b \in {lastBlock} : ask = <<GetBlocks(b)>>)
  BY DEF GetBlocks
<1>6. \A i \in DOMAIN loop' : loop'[i] = f \/ loop'[i].type = "getblocks"
  <2> HIDE DEF f
  <2>1. CASE lastBlock < height
    <3> DEFINE g == GetBlocks(lastBlock)
    <3>1. g.type = "getblocks"
      BY DEF GetBlocks
    <3>2. loop' = <<f>> \o <<g>>
      BY <1>1, <2>1
    <3> HIDE DEF g
    <3>3. \A i \in DOMAIN loop' : loop'[i] = f \/ loop'[i] = g
      BY <3>2
    <3> QED
      BY <3>1, <3>3
  <2>2. CASE ~(lastBlock < height)
    <3>1. loop' = <<f>> \o <<>>
      BY <1>1, <2>2
    <3> QED
      BY <3>1
  <2> QED
    BY <2>1, <2>2
<1> HIDE DEF f, ask
<1>7. Outgoing' = loop'
  <2>1. <<>> \o loop' = loop'
    BY <1>2, Associative
  <2> QED
    BY <1>2, <2>1 DEF Outgoing
<1>8. \A i \in DOMAIN loop' : loop'[i].type # "getdata"
  BY <1>4, <1>6
<1>9. InSupply'
  <2>1. Supplied(loop', AskGives, AskNeeds, told', addresses', OnWire')
    BY <1>2, <1>8, IdleRequests
  <2>2. /\ Supplied(<<>>, WireGives, WireNeeds, told', addresses', AtManager')
        /\ Supplied(<<>>, ToldGives, ToldNeeds, told', addresses', InRequests')
        /\ Supplied(<<>>, CallbackGives, CallbackNeeds, Tx, addresses', wallet')
    BY SuppliedNone
  <2> QED
    BY <1>1, <1>2, <1>7, <2>1, <2>2 DEF InSupply
<1>10. knownTx = {} /\ ToSet(blockHashes) \subseteq 1..height
  <2>1. told = {} /\ status # "disconnected"
    BY <1>1, <1>2
  <2> QED
    BY <2>1 DEF InTime, CountedOn, Real
<1>11. CountedOn'
  BY <1>1, <1>2, <1>10 DEF CountedOn
<1>12. ToSet(loop') \subseteq {loop'[i] : i \in DOMAIN loop'}
  BY DEF ToSet
<1>13. FiltersOwn'
  <2>1. nodeFilter' \notin Filter
    BY <1>2, MessageAssumption DEF Filter
  <2>2. \A x \in ToSet(loop') : x.type = "filterload" => Own(x.filter, addresses', wallet')
    BY <1>3, <1>4, <1>6, <1>12
  <2> QED
    BY <1>3, <1>7, <2>1, <2>2 DEF FiltersOwn
<1>14. Real'
  <2>1. ToSet(wire') = {}
    BY <1>1 DEF ToSet
  <2>2. \A x \in ToSet(loop') : x.type # "getdata"
    BY <1>8, <1>12
  <2> QED
    BY <1>1, <1>7, <1>10, <2>1, <2>2 DEF Real, AskReal
<1> QED
  BY <1>9, <1>11, <1>13, <1>14 DEF InTime

----------------------------------------------------------------------------
(***************************************************************************)
(* The node's answers.                                                     *)
(***************************************************************************)
\* Those of S that come before one of them in s do so in r.
KeepsOrder(s, S, r) ==
  \A k \in DOMAIN r : \E i \in DOMAIN s :
    /\ s[i] = r[k]
    /\ \A j \in 1..(i - 1) : s[j] \in S => \E l \in 1..(k - 1) : r[l] = s[j]

LEMMA ThoseInOrder ==
  ASSUME NEW T, NEW s \in Seq(T), NEW S
  PROVE  KeepsOrder(s, S, Those(s, S))
<1>1. PICK g \in [0..Len(s) -> Seq(T)] :
        /\ g[0] = <<>> /\ Those(s, S) = g[Len(s)]
        /\ \A n \in 1..Len(s) : g[n] = IF s[n] \in S THEN Append(g[n - 1], s[n]) ELSE g[n - 1]
  BY ThoseTaken
<1>2. Len(s) \in Nat /\ DOMAIN s = 1..Len(s) /\ \A n \in 1..Len(s) : s[n] \in T
  OBVIOUS
<1> DEFINE First(x, k, j) == \E l \in 1..(k - 1) : x[l] = s[j]
           Placed(x, k, n) == \E i \in 1..n : s[i] = x[k] /\ \A j \in 1..(i - 1) : s[j] \in S => First(x, k, j)
           Has(x, n) == \A j \in 1..n : s[j] \in S => \E l \in DOMAIN x : x[l] = s[j]
           P == {n \in 0..Len(s) : Has(g[n], n) /\ \A k \in DOMAIN g[n] : Placed(g[n], k, n)}
<1>3. 0 \in P
  BY <1>1, <1>2
<1>4. ASSUME NEW n \in 1..Len(s), n - 1 \in P PROVE n \in P
  <2> DEFINE x == g[n - 1]
             y == g[n]
  <2>1. n - 1 \in 0..Len(s) /\ n \in 0..Len(s) /\ n \in Nat
    BY <1>2
  <2>2. x \in Seq(T) /\ y \in Seq(T) /\ s[n] \in T
    BY <1>2, <2>1
  <2>3. Has(x, n - 1) /\ \A k \in DOMAIN x : Placed(x, k, n - 1)
    BY <1>4
  <2>4. y = IF s[n] \in S THEN Append(x, s[n]) ELSE x
    BY <1>1
  <2> SUFFICES Has(y, n) /\ \A k \in DOMAIN y : Placed(y, k, n)
    BY <2>1
  <2> HIDE DEF x, y, P
  <2>5. CASE s[n] \notin S
    <3>1. y = x
      BY <2>4, <2>5
    <3>2. Has(y, n)
      <4>1. \A j \in 1..n : s[j] \in S => j \in 1..(n - 1)
        BY <2>1, <2>5
      <4> QED
        BY <2>3, <3>1, <4>1
    <3>3. ASSUME NEW k \in DOMAIN y PROVE Placed(y, k, n)
      <4>1. PICK i \in 1..(n - 1) : s[i] = x[k] /\ \A j \in 1..(i - 1) : s[j] \in S => First(x, k, j)
        BY <2>3, <3>1, <3>3
      <4>2. i \in 1..n
        BY <2>1
      <4> QED
        BY <3>1, <4>1, <4>2
    <3> QED
      BY <3>2, <3>3
  <2>6. CASE s[n] \in S
    <3>1. /\ Len(x) \in Nat /\ DOMAIN x = 1..Len(x) /\ DOMAIN y = 1..(Len(x) + 1)
          /\ y[Len(x) + 1] = s[n] /\ \A k \in DOMAIN x : y[k] = x[k]
      BY <2>2, <2>4, <2>6
    <3>2. Has(y, n)
      <4>1. ASSUME NEW j \in 1..n, s[j] \in S PROVE \E l \in DOMAIN y : y[l] = s[j]
        <5>1. CASE j = n
          <6>1. Len(x) + 1 \in DOMAIN y
            BY <3>1
          <6> QED
            BY <3>1, <5>1, <6>1
        <5>2. CASE j # n
          <6>1. j \in 1..(n - 1)
            BY <2>1, <5>2
          <6>2. PICK l \in DOMAIN x : x[l] = s[j]
            BY <2>3, <4>1, <6>1
          <6>3. l \in DOMAIN y /\ y[l] = s[j]
            BY <3>1, <6>2
          <6> QED
            BY <6>3
        <5> QED
          BY <5>1, <5>2
      <4> QED
        BY <4>1
    <3>3. ASSUME NEW k \in DOMAIN y PROVE Placed(y, k, n)
      <4>1. CASE k \in DOMAIN x
        <5>1. PICK i \in 1..(n - 1) : s[i] = x[k] /\ \A j \in 1..(i - 1) : s[j] \in S => First(x, k, j)
          BY <2>3, <4>1
        <5>2. i \in 1..n /\ y[k] = x[k]
          BY <2>1, <3>1, <4>1
        <5>3. ASSUME NEW j \in 1..(i - 1), s[j] \in S PROVE First(y, k, j)
          <6>1. PICK l \in 1..(k - 1) : x[l] = s[j]
            BY <5>1, <5>3
          <6>2. l \in DOMAIN x
            BY <3>1, <4>1
          <6>3. y[l] = s[j]
            BY <3>1, <6>1, <6>2
          <6> QED
            BY <6>3
        <5> QED
          BY <5>1, <5>2, <5>3
      <4>2. CASE k \notin DOMAIN x
        <5>1. k = Len(x) + 1 /\ 1..(k - 1) = DOMAIN x
          BY <3>1, <4>2
        <5>2. ASSUME NEW j \in 1..(n - 1), s[j] \in S PROVE First(y, k, j)
          <6>1. PICK l \in DOMAIN x : x[l] = s[j]
            BY <2>3, <5>2
          <6>2. l \in 1..(k - 1) /\ y[l] = s[j]
            BY <3>1, <5>1, <6>1
          <6> QED
            BY <6>2
        <5>3. n \in 1..n /\ s[n] = y[k]
          BY <2>1, <3>1, <5>1
        <5> QED
          BY <5>2, <5>3
      <4> QED
        BY <4>1, <4>2
    <3> QED
      BY <3>2, <3>3
  <2> QED
    BY <2>5, <2>6
<1>5. P = 0..Len(s)
  <2>1. P \in SUBSET (0..Len(s))
    OBVIOUS
  <2> HIDE DEF P
  <2> QED
    BY <1>2, <1>3, <1>4, <2>1, CountingUp
<1>6. Len(s) \in P
  BY <1>2, <1>5
<1> QED
  BY <1>1, <1>2, <1>6 DEF KeepsOrder

\* The transactions of a block that a filter matches, and those that pay its addresses.
MatchedIn(b, f) == {t \in ToSet(TxIn[b]) : Matches(t, f)}
PaidIn(b, f) == {t \in ToSet(TxIn[b]) : PaysTo(t, f)}

\* A merkleblock with the transactions of the block that match, and after it those the
\* peer was not told of, in the order of the block.
LEMMA BlockAnswerInOrder ==
  ASSUME NEW b \in Block, NEW f
  PROVE  \E txs \in SUBSET Tx : \E new \in Seq(Tx) :
           /\ BlockAnswer(b, f) = <<Merkleblock(b, txs)>> \o TxMessages(new)
           /\ txs = MatchedIn(b, f) /\ ToSet(new) = txs \ told
           /\ KeepsOrder(TxIn[b], txs \ told, new)
<1> DEFINE s == TxIn[b]
           S == {t \in Tx : Matches(t, f)}
           matched == Those(s, S)
           new == Those(matched, Tx \ told)
           txs == ToSet(matched)
<1>1. s \in Seq(Tx) /\ ToSet(s) \in SUBSET Tx
  BY MessageAssumption, RangeType
<1>2. BlockAnswer(b, f) = <<Merkleblock(b, txs)>> \o TxMessages(new)
  BY DEF BlockAnswer, TxMessages
<1> HIDE DEF s
<1>3. matched \in Seq(Tx) /\ txs = ToSet(s) \cap S
  BY <1>1, ThoseFacts
<1>4. txs \in SUBSET Tx /\ txs = {t \in ToSet(s) : Matches(t, f)}
  BY <1>1, <1>3
<1>5. KeepsOrder(s, S, matched)
  BY <1>1, ThoseInOrder
<1>6. /\ DOMAIN s = 1..Len(s) /\ Len(s) \in Nat /\ DOMAIN matched = 1..Len(matched) /\ Len(matched) \in Nat
      /\ \A k \in DOMAIN s : s[k] \in ToSet(s)
  BY <1>1, <1>3 DEF ToSet
<1> HIDE DEF matched
<1>7. new \in Seq(Tx) /\ ToSet(new) = txs \cap (Tx \ told)
  BY <1>3, ThoseFacts
<1>8. KeepsOrder(matched, Tx \ told, new)
  BY <1>3, ThoseInOrder
<1> HIDE DEF new, txs, S
<1>9. ToSet(new) = txs \ told
  BY <1>4, <1>7
<1>10. ASSUME NEW k \in DOMAIN new
       PROVE  \E i \in DOMAIN s :
                /\ s[i] = new[k]
                /\ \A j \in 1..(i - 1) : s[j] \in txs \ told => \E l \in 1..(k - 1) : new[l] = s[j]
  <2>1. PICK h \in DOMAIN matched :
          /\ matched[h] = new[k]
          /\ \A j \in 1..(h - 1) : matched[j] \in Tx \ told => \E l \in 1..(k - 1) : new[l] = matched[j]
    BY <1>8 DEF KeepsOrder
  <2>2. PICK i \in DOMAIN s :
          /\ s[i] = matched[h]
          /\ \A j \in 1..(i - 1) : s[j] \in S => \E l \in 1..(h - 1) : matched[l] = s[j]
    BY <1>5 DEF KeepsOrder
  <2>3. ASSUME NEW j \in 1..(i - 1), s[j] \in txs \ told PROVE \E l \in 1..(k - 1) : new[l] = s[j]
    <3>1. s[j] \in S /\ s[j] \in Tx \ told
      BY <1>3, <1>4, <2>3
    <3>2. PICK q \in 1..(h - 1) : matched[q] = s[j]
      BY <2>2, <3>1
    <3>3. PICK l \in 1..(k - 1) : new[l] = matched[q]
      BY <2>1, <3>1, <3>2
    <3> QED
      BY <3>2, <3>3
  <2> QED
    BY <2>1, <2>2, <2>3
<1> QED
  BY <1>2, <1>4, <1>7, <1>9, <1>10 DEF s, KeepsOrder, MatchedIn

\* Transactions give themselves.
LEMMA TxMessagesGive ==
  ASSUME NEW new \in Seq(Tx)
  PROVE  /\ Given(TxMessages(new), WireGives) = ToSet(new) \ FalsePositives
         /\ \A i \in DOMAIN new : /\ WireGives[TxMessages(new)[i]] = {new[i]} \ FalsePositives
                                  /\ WireNeeds[TxMessages(new)[i]] = {}
<1>1. /\ TxMessages(new) \in Seq(WireMessage) /\ DOMAIN TxMessages(new) = 1..Len(new) /\ DOMAIN new = 1..Len(new)
      /\ Len(new) \in Nat
      /\ \A i \in DOMAIN TxMessages(new) : TxMessages(new)[i] = TxMessage(new[i])
  BY TxMessagesType
<1>2. \A t \in Tx : WireGives[TxMessage(t)] = {t} \ FalsePositives /\ WireNeeds[TxMessage(t)] = {}
  <2>1. ASSUME NEW t \in Tx
        PROVE  WireGives[TxMessage(t)] = {t} \ FalsePositives /\ WireNeeds[TxMessage(t)] = {}
    <3> DEFINE m == TxMessage(t)
    <3>1. m \in WireMessage /\ m.type = "tx" /\ m.tx = t
      BY MessageTypes DEF TxMessage
    <3> HIDE DEF m
    <3>2. WireGives[m] = {t} \ FalsePositives /\ WireNeeds[m] = {}
      BY <3>1, WireSupply
    <3> QED
      BY <3>2 DEF m
  <2> QED
    BY <2>1
<1>3. ASSUME NEW i \in DOMAIN new
      PROVE  new[i] \in Tx /\ WireGives[TxMessages(new)[i]] = {new[i]} \ FalsePositives
             /\ WireNeeds[TxMessages(new)[i]] = {}
  <2>1. new[i] \in Tx
    BY <1>1
  <2> QED
    BY <1>1, <1>2, <2>1
<1>4. Given(TxMessages(new), WireGives) = ToSet(new) \ FalsePositives
  <2>1. ASSUME NEW t, t \in Given(TxMessages(new), WireGives) PROVE t \in ToSet(new) \ FalsePositives
    <3>1. PICK i \in DOMAIN new : t \in WireGives[TxMessages(new)[i]]
      BY <1>1, <2>1 DEF Given
    <3>2. new[i] \in ToSet(new)
      BY <3>1 DEF ToSet
    <3> QED
      BY <1>3, <3>1, <3>2
  <2>2. ASSUME NEW t \in ToSet(new) \ FalsePositives PROVE t \in Given(TxMessages(new), WireGives)
    <3>1. PICK i \in DOMAIN new : new[i] = t
      BY <2>2 DEF ToSet
    <3>2. i \in DOMAIN TxMessages(new) /\ t \in WireGives[TxMessages(new)[i]]
      BY <1>1, <1>3, <3>1
    <3> QED
      BY <3>2 DEF Given
  <2> QED
    BY <2>1, <2>2
<1> QED
  BY <1>3, <1>4

\* Transactions that a filter matches, each after those it spends from.
LEMMA MatchedSupplied ==
  ASSUME ChanceIsForeign, ParentsFirst, NEW b \in Block, NEW F \in Filter, NEW A, NEW n \in Nat,
         F.addresses <= n,
         (UpTo(b) \cap told) \ FalsePositives \subseteq A,
         F.outputs \subseteq (A \cup (told \ FalsePositives)) \cup PaidIn(b, F),
         NEW txs \in SUBSET Tx, txs = MatchedIn(b, F),
         NEW new \in Seq(Tx), ToSet(new) = txs \ told, KeepsOrder(TxIn[b], txs \ told, new)
  PROVE  Supplied(TxMessages(new), WireGives, WireNeeds, told, n, A)
<1>1. /\ DOMAIN TxMessages(new) = 1..Len(new) /\ DOMAIN new = 1..Len(new) /\ Len(new) \in Nat
      /\ \A i \in DOMAIN new : /\ WireGives[TxMessages(new)[i]] = {new[i]} \ FalsePositives
                               /\ WireNeeds[TxMessages(new)[i]] = {}
  BY TxMessagesType, TxMessagesGive
<1>3. \A i \in DOMAIN new : new[i] \in Tx /\ new[i] \in txs \ told
  BY DEF ToSet
<1>5. ASSUME NEW i \in DOMAIN new, new[i] \notin FalsePositives
      PROVE  Reason(new[i], n, A \cup GivenBefore(TxMessages(new), WireGives, i))
  <2> DEFINE t == new[i]
             s == TxIn[b]
             Before == GivenBefore(TxMessages(new), WireGives, i)
  <2>1. t \in Tx /\ t \in txs \ told /\ Matches(t, F) /\ t \in ToSet(s)
    BY <1>3 DEF MatchedIn
  <2>2. Pays[t] \subseteq Nat /\ F.addresses \in Nat
    BY <2>1, MessageAssumption DEF Filter
  <2>3. CASE PaysTo(t, F)
    <3>1. PICK a \in Pays[t] : a < F.addresses
      BY <2>3 DEF PaysTo
    <3>2. a \in Nat /\ a < n
      BY <2>2, <3>1
    <3> QED
      BY <3>1, <3>2 DEF Reason
  <2>4. CASE Spends[t] \cap F.outputs # {}
    <3>1. PICK u \in Spends[t] : u \in F.outputs
      BY <2>4
    <3>2. u \in UpTo(b)
      BY <2>1, <3>1 DEF ParentsFirst
    <3>3. u \in A \cup Before
      <4>1. CASE u \in A
        BY <4>1
      <4>2. CASE u \in told \ FalsePositives
        BY <3>2, <4>2
      <4>3. CASE u \in ToSet(s) /\ PaysTo(u, F)
        <5>1. u \notin FalsePositives /\ Matches(u, F)
          BY <4>3 DEF ChanceIsForeign, PaysTo, Matches
        <5>2. CASE u \in told
          BY <3>2, <5>1, <5>2
        <5>3. CASE u \notin told
          <6>1. u \in txs \ told
            BY <4>3, <5>1, <5>3 DEF MatchedIn
          <6>2. PICK j \in DOMAIN s : s[j] = u
            BY <4>3 DEF ToSet
          <6>3. PICK h \in DOMAIN s :
                  /\ s[h] = t
                  /\ \A k \in 1..(h - 1) : s[k] \in txs \ told => \E l \in 1..(i - 1) : new[l] = s[k]
            BY DEF KeepsOrder
          <6>4. j < h
            <7>1. s[j] \in Spends[s[h]]
              BY <3>1, <6>2, <6>3
            <7>2. b < b \/ (b = b /\ j < h)
              BY <6>2, <6>3, <7>1 DEF ParentsFirst
            <7>3. b \in Int
              BY DEF Block
            <7> QED
              BY <7>2, <7>3
          <6>5. j \in 1..(h - 1)
            <7>1. s \in Seq(Tx)
              BY MessageAssumption
            <7>2. j \in Nat /\ 1 <= j /\ h \in Nat
              BY <7>1, <6>2, <6>3
            <7> QED
              BY <6>4, <7>2
          <6>6. PICK l \in 1..(i - 1) : new[l] = u
            BY <6>1, <6>2, <6>3, <6>5
          <6>7. l \in DOMAIN new
            BY <1>1
          <6>8. u \in WireGives[TxMessages(new)[l]]
            BY <1>1, <5>1, <6>6, <6>7
          <6> QED
            BY <6>8 DEF GivenBefore
        <5> QED
          BY <5>2, <5>3
      <4> QED
        BY <3>1, <4>1, <4>2, <4>3 DEF PaidIn
    <3> QED
      BY <3>1, <3>3 DEF Reason
  <2> QED
    BY <1>5, <2>1, <2>3, <2>4 DEF Matches
<1>6. Supplied(TxMessages(new), WireGives, WireNeeds, told, n, A)
  <2>1. ASSUME NEW i \in DOMAIN TxMessages(new)
        PROVE  Served(TxMessages(new)[i], WireGives, WireNeeds, told, n,
                      A \cup GivenBefore(TxMessages(new), WireGives, i))
    <3>1. i \in DOMAIN new
      BY <1>1
    <3>2. WireGives[TxMessages(new)[i]] = {new[i]} \ FalsePositives /\ WireNeeds[TxMessages(new)[i]] = {}
      BY <1>1, <3>1
    <3>3. \A x \in {new[i]} \ FalsePositives : Reason(x, n, A \cup GivenBefore(TxMessages(new), WireGives, i))
      BY <1>5, <3>1
    <3> QED
      BY <3>2, <3>3 DEF Served
  <2> QED
    BY <2>1 DEF Supplied
<1> QED
  BY <1>6

LEMMA AnswerSupplied ==
  ASSUME ChanceIsForeign, ParentsFirst, NEW b \in Block, NEW F \in Filter, NEW A, NEW n \in Nat,
         F.addresses <= n,
         (UpTo(b) \cap told) \ FalsePositives \subseteq A,
         F.outputs \subseteq (A \cup (told \ FalsePositives)) \cup PaidIn(b, F)
  PROVE  /\ Supplied(BlockAnswer(b, F), WireGives, WireNeeds, told, n, A)
         /\ PaidIn(b, F) \subseteq A \cup Given(BlockAnswer(b, F), WireGives)
         /\ \A m \in ToSet(BlockAnswer(b, F)) :
              m.type # "inv" /\ (m.type = "merkleblock" => m.matched \subseteq UpTo(b))
<1>1. PICK txs \in SUBSET Tx, new \in Seq(Tx) :
        /\ BlockAnswer(b, F) = <<Merkleblock(b, txs)>> \o TxMessages(new)
        /\ txs = MatchedIn(b, F) /\ ToSet(new) = txs \ told
        /\ KeepsOrder(TxIn[b], txs \ told, new)
  BY BlockAnswerInOrder
<1> DEFINE k == Merkleblock(b, txs)
           first == <<k>>
           rest == TxMessages(new)
<1>2. ToSet(TxIn[b]) \subseteq UpTo(b) /\ txs \subseteq UpTo(b)
  <2>1. b \in 1..b
    BY DEF Block
  <2> QED
    BY <1>1, <2>1 DEF UpTo, MatchedIn
<1>3. k \in WireMessage /\ k.type = "merkleblock" /\ k.matched = txs
  BY MessageTypes DEF Merkleblock
<1> HIDE DEF k
<1>4. WireGives[k] = {} /\ WireNeeds[k] = txs
  BY <1>3, WireSupply
<1>5. /\ first \in Seq(WireMessage) /\ Given(first, WireGives) = {}
      /\ Supplied(first, WireGives, WireNeeds, told, n, A) <=> Served(k, WireGives, WireNeeds, told, n, A)
  BY <1>3, <1>4, SuppliedOne
<1>6. ToSet(first) = {k}
  BY DEF ToSet
<1> HIDE DEF first
<1>7. Served(k, WireGives, WireNeeds, told, n, A)
  BY <1>2, <1>4 DEF Served
<1>8. /\ Supplied(rest, WireGives, WireNeeds, told, n, A)
      /\ Given(rest, WireGives) = (txs \ told) \ FalsePositives
  <2>1. Supplied(TxMessages(new), WireGives, WireNeeds, told, n, A)
    BY <1>1, MatchedSupplied
  <2>2. Given(TxMessages(new), WireGives) = ToSet(new) \ FalsePositives
    BY TxMessagesGive
  <2> QED
    BY <1>1, <2>1, <2>2
<1>9. /\ rest \in Seq(WireMessage) /\ \A m \in ToSet(rest) : m.type = "tx"
  BY TxMessagesType DEF ToSet
<1> HIDE DEF rest
<1>10. BlockAnswer(b, F) = first \o rest
  BY <1>1 DEF first, rest, k
<1>11. Supplied(first \o rest, WireGives, WireNeeds, told, n, A)
  <2>1. A \cup Given(first, WireGives) = A
    BY <1>5
  <2>2. Supplied(rest, WireGives, WireNeeds, told, n, A \cup Given(first, WireGives))
    BY <1>8, <2>1
  <2>3. Supplied(first, WireGives, WireNeeds, told, n, A)
    BY <1>5, <1>7
  <2> QED
    BY <1>5, <1>9, <2>2, <2>3, SuppliedConcat
<1>12. Given(first \o rest, WireGives) = (txs \ told) \ FalsePositives
  <2>1. first \in Seq(WireMessage) /\ rest \in Seq(WireMessage)
    BY <1>5, <1>9
  <2>2. Given(first \o rest, WireGives) = Given(first, WireGives) \cup Given(rest, WireGives)
    BY <2>1, GivenConcat
  <2> QED
    BY <1>5, <1>8, <2>2
<1>13. ASSUME NEW t \in ToSet(TxIn[b]), PaysTo(t, F) PROVE t \in A \cup ((txs \ told) \ FalsePositives)
  <2>1. t \notin FalsePositives /\ t \in txs /\ t \in UpTo(b)
    BY <1>1, <1>2, <1>13 DEF ChanceIsForeign, PaysTo, Matches, MatchedIn
  <2> QED
    BY <2>1
<1>14. ToSet(first \o rest) = {k} \cup ToSet(rest)
  BY <1>5, <1>6, <1>9, RangeConcat
<1>15. ASSUME NEW m \in ToSet(BlockAnswer(b, F))
       PROVE  m.type # "inv" /\ (m.type = "merkleblock" => m.matched \subseteq UpTo(b))
  BY <1>2, <1>3, <1>9, <1>10, <1>14
<1> QED
  BY <1>10, <1>11, <1>12, <1>13, <1>15 DEF PaidIn

\* The transactions that pay a filter, of the first n blocks of bs.
PaidBefore(bs, f, n) == UNION {PaidIn(bs[i], f) : i \in 1..n}

LEMMA PaidSoFar ==
  ASSUME NEW bs \in Seq(Block), NEW n \in 1..Len(bs), NEW f
  PROVE  {t \in BlockTxs(SubSeq(bs, 1, n)) : PaysTo(t, f)} \subseteq PaidBefore(bs, f, n - 1) \cup PaidIn(bs[n], f)
<1> DEFINE s == SubSeq(bs, 1, n)
<1>1. Len(bs) \in Nat /\ \A i \in 1..n : bs[i] \in Block
  OBVIOUS
<1>2. DOMAIN s = 1..n /\ \A i \in 1..n : s[i] = bs[i]
  <2>1. s \in Seq(Block) /\ Len(s) = n /\ \A i \in 1..n : s[i] = bs[i]
    <3>1. s \in Seq(Block) /\ Len(s) = (IF 1 <= n THEN n - 1 + 1 ELSE 0) /\ \A i \in 1..(n - 1 + 1) : s[i] = bs[1 + i - 1]
      BY <1>1, SubSeqProperties
    <3> HIDE DEF s
    <3>2. n - 1 + 1 = n /\ 1 <= n /\ \A i \in 1..n : 1 + i - 1 = i
      BY <1>1
    <3> QED
      BY <3>1, <3>2
  <2> HIDE DEF s
  <2> QED
    BY <2>1
<1> HIDE DEF s
<1>3. ASSUME NEW t \in BlockTxs(s), PaysTo(t, f)
      PROVE  t \in PaidBefore(bs, f, n - 1) \cup PaidIn(bs[n], f)
  <2>1. PICK c \in ToSet(s) : t \in ToSet(TxIn[c])
    BY DEF BlockTxs
  <2>2. PICK i \in 1..n : c = bs[i]
    BY <1>2, <2>1 DEF ToSet
  <2>3. t \in PaidIn(bs[i], f)
    BY <1>3, <2>1, <2>2 DEF PaidIn
  <2>4. i = n \/ i \in 1..(n - 1)
    BY <1>1
  <2> QED
    BY <2>3, <2>4 DEF PaidBefore
<1> QED
  BY <1>3 DEF s

LEMMA GrownFacts ==
  ASSUME NEW f \in Filter, NEW txs \in SUBSET Tx
  PROVE  /\ Grown(f, txs) \in Filter /\ Grown(f, txs).addresses = f.addresses
         /\ Grown(f, txs).outputs = f.outputs \cup {t \in txs : PaysTo(t, f)}
         /\ \A b : PaidIn(b, Grown(f, txs)) = PaidIn(b, f)
<1>1. /\ Grown(f, txs) \in Filter /\ Grown(f, txs).addresses = f.addresses
      /\ Grown(f, txs).outputs = f.outputs \cup {t \in txs : PaysTo(t, f)}
  BY DEF Grown, Filter
<1>2. \A t : PaysTo(t, Grown(f, txs)) <=> PaysTo(t, f)
  BY <1>1 DEF PaysTo
<1> QED
  BY <1>1, <1>2 DEF PaidIn

LEMMA BlockTxsWhole ==
  ASSUME NEW bs \in Seq(Block), NEW f
  PROVE  {t \in BlockTxs(bs) : PaysTo(t, f)} \subseteq PaidBefore(bs, f, Len(bs))
<1>1. ASSUME NEW t \in BlockTxs(bs), PaysTo(t, f) PROVE t \in PaidBefore(bs, f, Len(bs))
  <2>1. PICK c \in ToSet(bs) : t \in ToSet(TxIn[c])
    BY DEF BlockTxs
  <2>2. PICK i \in 1..Len(bs) : c = bs[i]
    <3>1. DOMAIN bs = 1..Len(bs)
      OBVIOUS
    <3> QED
      BY <2>1, <3>1 DEF ToSet
  <2>3. t \in PaidIn(bs[i], f)
    BY <1>1, <2>1, <2>2 DEF PaidIn
  <2> QED
    BY <2>3 DEF PaidBefore
<1> QED
  BY <1>1

\* The answers to a getdata: what the node leaves out, as it told of it, was given before.
LEMMA AnswersSupplied ==
  ASSUME ChanceIsForeign, ParentsFirst, NEW bs \in Seq(Block), nodeFilter \in Filter,
         NEW n \in Nat, NEW Z, nodeFilter.addresses <= n,
         nodeFilter.outputs \subseteq Z \cup (told \ FalsePositives),
         (Ups(bs) \cap told) \ FalsePositives \subseteq Z
  PROVE  /\ Supplied(Answers(bs), WireGives, WireNeeds, told, n, Z)
         /\ PaidBefore(bs, nodeFilter, Len(bs)) \subseteq Z \cup Given(Answers(bs), WireGives)
         /\ \A m \in ToSet(Answers(bs)) :
              m.type # "inv" /\ (m.type = "merkleblock" => m.matched \subseteq Ups(bs))
<1> DEFINE F(i) == Grown(nodeFilter, BlockTxs(SubSeq(bs, 1, i)))
<1>1. PICK g \in [0..Len(bs) -> Seq(WireMessage)] :
        /\ g[0] = <<>> /\ Answers(bs) = g[Len(bs)]
        /\ \A i \in 1..Len(bs) : g[i] = g[i - 1] \o BlockAnswer(bs[i], F(i))
  BY AnswersFacts
<1>2. Len(bs) \in Nat /\ DOMAIN bs = 1..Len(bs) /\ \A i \in 1..Len(bs) : bs[i] \in Block /\ bs[i] \in ToSet(bs)
  BY DEF ToSet
<1> DEFINE Fine(m) == m.type # "inv" /\ (m.type = "merkleblock" => m.matched \subseteq Ups(bs))
           Good(s, i) == /\ Supplied(s, WireGives, WireNeeds, told, n, Z)
                         /\ PaidBefore(bs, nodeFilter, i) \subseteq Z \cup Given(s, WireGives)
                         /\ \A m \in ToSet(s) : Fine(m)
           P == {i \in 0..Len(bs) : Good(g[i], i)}
<1>3. 0 \in P
  <2>1. Supplied(<<>>, WireGives, WireNeeds, told, n, Z)
    BY SuppliedNone
  <2>2. PaidBefore(bs, nodeFilter, 0) = {} /\ ToSet(<<>>) = {}
    BY DEF PaidBefore, ToSet
  <2> QED
    BY <1>1, <1>2, <2>1, <2>2
<1>4. ASSUME NEW i \in 1..Len(bs), i - 1 \in P PROVE i \in P
  <2> DEFINE s == g[i - 1]
             f == F(i)
             a == BlockAnswer(bs[i], f)
             A == Z \cup Given(s, WireGives)
  <2>1. Good(s, i - 1) /\ i \in 0..Len(bs) /\ i - 1 \in 0..Len(bs) /\ bs[i] \in Block
    BY <1>2, <1>4
  <2>2. s \in Seq(WireMessage) /\ g[i] = s \o a
    BY <1>1, <2>1
  <2>3. BlockTxs(SubSeq(bs, 1, i)) \in SUBSET Tx
    <3>1. SubSeq(bs, 1, i) \in Seq(Block)
      BY <1>2, SubSeqProperties
    <3> QED
      BY <3>1, BlockTxsType
  <2>4. /\ f \in Filter /\ f.addresses = nodeFilter.addresses
        /\ f.outputs = nodeFilter.outputs \cup {t \in BlockTxs(SubSeq(bs, 1, i)) : PaysTo(t, nodeFilter)}
        /\ PaidIn(bs[i], f) = PaidIn(bs[i], nodeFilter)
    BY <2>3, GrownFacts
  <2> HIDE DEF F, s, f, P
  <2>5. a \in Seq(WireMessage)
    BY <2>1, BlockAnswerType
  <2>6. UpTo(bs[i]) \subseteq Ups(bs)
    BY <1>2 DEF Ups
  <2>7. (UpTo(bs[i]) \cap told) \ FalsePositives \subseteq A
    BY <2>6
  <2>8. f.outputs \subseteq (A \cup (told \ FalsePositives)) \cup PaidIn(bs[i], f)
    <3>1. {t \in BlockTxs(SubSeq(bs, 1, i)) : PaysTo(t, nodeFilter)}
            \subseteq PaidBefore(bs, nodeFilter, i - 1) \cup PaidIn(bs[i], nodeFilter)
      BY PaidSoFar
    <3> QED
      BY <2>1, <2>4, <3>1
  <2>9. /\ Supplied(a, WireGives, WireNeeds, told, n, A)
        /\ PaidIn(bs[i], f) \subseteq A \cup Given(a, WireGives)
        /\ \A m \in ToSet(a) : m.type # "inv" /\ (m.type = "merkleblock" => m.matched \subseteq UpTo(bs[i]))
    <3> DEFINE b == bs[i]
    <3>1. b \in Block /\ (UpTo(b) \cap told) \ FalsePositives \subseteq A /\ f.addresses <= n
      BY <2>1, <2>4, <2>7
    <3>2. f.outputs \subseteq (A \cup (told \ FalsePositives)) \cup PaidIn(b, f)
      BY <2>8
    <3> HIDE DEF b, A
    <3>3. /\ Supplied(BlockAnswer(b, f), WireGives, WireNeeds, told, n, A)
          /\ PaidIn(b, f) \subseteq A \cup Given(BlockAnswer(b, f), WireGives)
          /\ \A m \in ToSet(BlockAnswer(b, f)) :
               m.type # "inv" /\ (m.type = "merkleblock" => m.matched \subseteq UpTo(b))
      BY <2>4, <3>1, <3>2, AnswerSupplied
    <3> QED
      BY <3>3 DEF b
  <2> HIDE DEF a
  <2>10. Supplied(s \o a, WireGives, WireNeeds, told, n, Z)
    BY <2>1, <2>2, <2>5, <2>9, SuppliedConcat
  <2>11. Given(s \o a, WireGives) = Given(s, WireGives) \cup Given(a, WireGives)
    BY <2>2, <2>5, GivenConcat
  <2>12. ToSet(s \o a) = ToSet(s) \cup ToSet(a)
    BY <2>2, <2>5, RangeConcat
  <2>13. PaidBefore(bs, nodeFilter, i) \subseteq PaidBefore(bs, nodeFilter, i - 1) \cup PaidIn(bs[i], nodeFilter)
    <3>1. \A j \in 1..i : j = i \/ j \in 1..(i - 1)
      OBVIOUS
    <3> QED
      BY <3>1 DEF PaidBefore
  <2>14. PaidBefore(bs, nodeFilter, i) \subseteq Z \cup Given(s \o a, WireGives)
    BY <2>1, <2>4, <2>9, <2>11, <2>13
  <2>15. \A m \in ToSet(s \o a) : Fine(m)
    BY <2>1, <2>6, <2>9, <2>12
  <2>16. Good(g[i], i)
    BY <2>2, <2>10, <2>14, <2>15
  <2> QED
    BY <2>1, <2>16 DEF P
<1>5. P = 0..Len(bs)
  <2>1. P \in SUBSET (0..Len(bs))
    OBVIOUS
  <2> HIDE DEF P
  <2> QED
    BY <1>2, <1>3, <1>4, <2>1, CountingUp
<1>6. Good(Answers(bs), Len(bs))
  <2>1. Len(bs) \in P
    BY <1>2, <1>5
  <2> QED
    BY <1>1, <2>1
<1> QED
  BY <1>6

----------------------------------------------------------------------------
(***************************************************************************)
(* The steps of the node, and the theorem.                                 *)
(***************************************************************************)
\* The node takes a request.
LEMMA NodeTakes ==
  ASSUME Typed, out # <<>>, out' = Tail(out), loop' = loop
  PROVE  /\ Head(out) \in LoopMessage /\ <<Head(out)>> \in Seq(LoopMessage) /\ Outgoing' \in Seq(LoopMessage)
         /\ Outgoing = <<Head(out)>> \o Outgoing' /\ Head(out) \in ToSet(Outgoing)
         /\ ToSet(Outgoing') \subseteq ToSet(Outgoing)
<1> DEFINE h == <<Head(out)>>
           t == Tail(out)
<1>1. /\ out \in Seq(LoopMessage) /\ loop \in Seq(LoopMessage) /\ Head(out) \in LoopMessage
      /\ t \in Seq(LoopMessage) /\ h \in Seq(LoopMessage)
  BY RequestTypes, TailFacts
<1>2. out = h \o t /\ ToSet(h) = {Head(out)}
  <2>1. out = h \o t
    BY <1>1
  <2> QED
    BY <2>1 DEF ToSet
<1> HIDE DEF h, t
<1>3. t \o loop \in Seq(LoopMessage) /\ out \o loop = h \o (t \o loop)
  <2>1. t \in Seq(LoopMessage) /\ h \in Seq(LoopMessage) /\ loop \in Seq(LoopMessage)
    BY <1>1
  <2>2. (h \o t) \o loop = h \o (t \o loop)
    BY <2>1, Associative
  <2>3. t \o loop \in Seq(LoopMessage)
    BY <2>1, ConcatFacts
  <2> QED
    BY <1>2, <2>2, <2>3
<1>4. Outgoing' = t \o loop
  BY DEF Outgoing, t
<1>5. Outgoing = h \o Outgoing' /\ Outgoing' \in Seq(LoopMessage)
  BY <1>3, <1>4 DEF Outgoing
<1>6. ToSet(h \o Outgoing') = ToSet(h) \cup ToSet(Outgoing')
  BY <1>1, <1>5, RangeConcat
<1> QED
  BY <1>1, <1>2, <1>5, <1>6 DEF h

\* What is asked for, and what is announced, was told of.
LEMMA InAllTold ==
  ASSUME Typed, InTime
  PROVE  InAll \subseteq OnWire \cup (told \ FalsePositives)
<1>1. Outgoing \in Seq(LoopMessage) /\ wire \in Seq(WireMessage)
  BY RequestTypes
<1>2. ASSUME NEW i \in DOMAIN Outgoing PROVE AskGives[Outgoing[i]] \subseteq told \ FalsePositives
  <2> DEFINE m == Outgoing[i]
  <2>1. m \in LoopMessage /\ m \in ToSet(Outgoing)
    BY <1>1 DEF ToSet
  <2>2. AskReal(m)
    BY <2>1 DEF InTime, Real
  <2> HIDE DEF m
  <2>3. AskGives[m] = IF m.type = "getdata" THEN ToSet(m.txs) \ FalsePositives ELSE {}
    BY <2>1, AskSupply
  <2>4. AskGives[m] \subseteq told \ FalsePositives
    BY <2>2, <2>3 DEF AskReal
  <2> QED
    BY <2>4 DEF m
<1>3. ASSUME NEW i \in DOMAIN wire PROVE ToldGives[wire[i]] \subseteq told \ FalsePositives
  <2> DEFINE m == wire[i]
  <2>1. m \in WireMessage /\ m \in ToSet(wire)
    BY <1>1 DEF ToSet
  <2>2. WireReal(m)
    BY <2>1 DEF InTime, Real
  <2> HIDE DEF m
  <2>3. ToldGives[m] = IF m.type = "inv" THEN ToSet(m.txs) \ FalsePositives ELSE {}
    BY <2>1, WireSupply
  <2>4. ToldGives[m] \subseteq told \ FalsePositives
    BY <2>2, <2>3 DEF WireReal
  <2> QED
    BY <2>4 DEF m
<1>4. Given(Outgoing, AskGives) \subseteq told \ FalsePositives
  BY <1>2 DEF Given
<1>5. Given(wire, ToldGives) \subseteq told \ FalsePositives
  BY <1>3 DEF Given
<1> QED
  BY <1>4, <1>5 DEF InAll, InRequests

LEMMA NodeInvInTime ==
  ASSUME Typed, Typed', InTime, NodeAnswers, Head(out).type = "getblocks"
  PROVE  InTime'
<1> DEFINE m == Head(out)
           s == <<m>>
           n == IF height - m.from < MaxInv THEN height - m.from ELSE MaxInv
           bs == [i \in 1..n |-> m.from + i]
<1>1. /\ UNCHANGED <<queue, told, addresses, wallet, current, knownTx, blockHashes, nodeFilter, bloomFilter,
                     status, height, loop>>
      /\ out # <<>> /\ out' = Tail(out)
      /\ wire' = IF n = 0 THEN wire ELSE Append(wire, Inv(<<>>, bs))
  BY DEF NodeAnswers, managerVars, messageVars
<1>2. m \in LoopMessage /\ s \in Seq(LoopMessage) /\ Outgoing = s \o Outgoing'
  BY <1>1, NodeTakes
<1>3. /\ height \in 0..Length /\ MaxInv \in Nat \ {0} /\ m.from \in 0..Length /\ Length \in Nat
  <2>1. m.from \in 0..Length
    BY <1>2, LoopTypes
  <2> QED
    BY <2>1, MessageAssumption DEF Typed, MessagesTypeOK
<1>4. \A i \in DOMAIN s : s[i].type # "getdata"
  OBVIOUS
<1> HIDE DEF m, s
<1>5. n \in Int /\ \A i \in 1..n : m.from + i \in Block /\ m.from + i \in 1..height
  BY <1>3 DEF Block
<1>6. bs \in Seq(Block) /\ ToSet(bs) \subseteq 1..height
  <2> HIDE DEF n
  <2>1. CASE n <= 0
    <3>1. 1..n = 1..0 /\ \A i \in 1..0 : m.from + i \in Block
      BY <1>5, <2>1
    <3>2. bs = [i \in 1..0 |-> m.from + i]
      BY <3>1
    <3>3. [i \in 1..0 |-> m.from + i] \in Seq(Block)
      BY <3>1
    <3> QED
      BY <1>5, <3>2, <3>3 DEF ToSet
  <2>2. CASE n > 0
    BY <1>5, <2>2 DEF ToSet
  <2> QED
    BY <1>5, <2>1, <2>2
<1> HIDE DEF bs, n
<1>7. wire' = Append(wire, Inv(<<>>, bs)) \/ wire' = wire
  BY <1>1
<1>8. height' = height /\ height <= height'
  BY <1>1, <1>3
<1>9. ToSet(bs) \subseteq 1..height'
  BY <1>6, <1>8
<1> QED
  BY <1>1, <1>2, <1>4, <1>6, <1>7, <1>8, <1>9, InvInTime

LEMMA NodeLoadsInTime ==
  ASSUME Typed, Typed', InTime, NodeAnswers, Head(out).type = "filterload"
  PROVE  InTime'
<1> DEFINE m == Head(out)
           s == <<m>>
<1>1. /\ UNCHANGED <<queue, told, addresses, wallet, current, knownTx, blockHashes, bloomFilter,
                     status, height, loop, wire>>
      /\ out # <<>> /\ out' = Tail(out) /\ nodeFilter' = m.filter
  BY DEF NodeAnswers, managerVars, messageVars
<1>2. /\ m \in LoopMessage /\ s \in Seq(LoopMessage) /\ Outgoing' \in Seq(LoopMessage)
      /\ Outgoing = s \o Outgoing' /\ m \in ToSet(Outgoing) /\ ToSet(Outgoing') \subseteq ToSet(Outgoing)
  BY <1>1, NodeTakes
<1>3. Own(m.filter, addresses, wallet)
  BY <1>2 DEF InTime, FiltersOwn
<1>4. \A i \in DOMAIN s : s[i].type # "getdata"
  OBVIOUS
<1> HIDE DEF s
<1>5. Given(s, AskGives) = {} /\ Given(s \o Outgoing', AskGives) = Given(s, AskGives) \cup Given(Outgoing', AskGives)
  <2>1. s \in Seq(LoopMessage) /\ Outgoing' \in Seq(LoopMessage)
    BY <1>2
  <2>2. Given(s, AskGives) = {}
    BY <1>4, <2>1, IdleRequests
  <2>3. Given(s \o Outgoing', AskGives) = Given(s, AskGives) \cup Given(Outgoing', AskGives)
    BY <2>1, GivenConcat
  <2> QED
    BY <2>2, <2>3
<1>6. AtManager' = AtManager
  BY <1>1 DEF AtManager
<1>7. OnWire' = OnWire
  BY <1>1, <1>6 DEF OnWire
<1>8. InRequests' = InRequests
  BY <1>2, <1>5, <1>7 DEF InRequests
<1>9. InAll' = InAll
  BY <1>1, <1>8 DEF InAll
<1>10. InSupply'
  <2>1. Supplied(s \o Outgoing', AskGives, AskNeeds, told, addresses, OnWire)
    BY <1>2 DEF InTime, InSupply
  <2>2. Supplied(Outgoing', AskGives, AskNeeds, told, addresses, OnWire \cup Given(s, AskGives))
    BY <1>2, <2>1, SuppliedConcat
  <2>3. OnWire \cup Given(s, AskGives) = OnWire
    BY <1>5
  <2>4. Supplied(Outgoing', AskGives, AskNeeds, told, addresses, OnWire)
    BY <2>2, <2>3
  <2> QED
    BY <1>1, <1>6, <1>7, <1>8, <2>4 DEF InTime, InSupply
<1>11. CountedOn'
  BY <1>1, <1>6, <1>8, <1>9 DEF InTime, CountedOn, Connected
<1>12. wallet \subseteq InAll
  BY DEF InAll, InRequests, OnWire, AtManager
<1>13. FiltersOwn'
  BY <1>1, <1>2, <1>3, <1>9, <1>12 DEF InTime, FiltersOwn, Own
<1>14. Real'
  BY <1>1, <1>2 DEF InTime, Real, WireReal, AskReal
<1> QED
  BY <1>10, <1>11, <1>13, <1>14 DEF InTime

LEMMA ReasonMore ==
  ASSUME NEW t, NEW n, NEW A, NEW B, A \subseteq B, Reason(t, n, A)
  PROVE  Reason(t, n, B)
BY DEF Reason

\* What was asked for is given as it is.
LEMMA AskedSupplied ==
  ASSUME NEW txs \in Seq(Tx), NEW N, NEW n, NEW A,
         \A t \in ToSet(txs) \ FalsePositives : Reason(t, n, A)
  PROVE  Supplied(TxMessages(txs), WireGives, WireNeeds, N, n, A)
<1>1. DOMAIN TxMessages(txs) = DOMAIN txs
  BY DEF TxMessages
<1>2. ASSUME NEW i \in DOMAIN txs
      PROVE  Served(TxMessages(txs)[i], WireGives, WireNeeds, N, n, A \cup GivenBefore(TxMessages(txs), WireGives, i))
  <2> DEFINE B == A \cup GivenBefore(TxMessages(txs), WireGives, i)
             m == TxMessages(txs)[i]
  <2>1. WireGives[m] = {txs[i]} \ FalsePositives /\ WireNeeds[m] = {}
    BY TxMessagesGive
  <2>2. txs[i] \in ToSet(txs) /\ A \subseteq B
    BY DEF ToSet
  <2> HIDE DEF B, m
  <2>3. \A t \in WireGives[m] : Reason(t, n, B)
    BY <2>1, <2>2, ReasonMore
  <2>4. Served(m, WireGives, WireNeeds, N, n, B)
    BY <2>1, <2>3 DEF Served
  <2> QED
    BY <2>4 DEF B, m
<1> QED
  BY <1>1, <1>2 DEF Supplied

\* More of the wire, with nothing announced.
LEMMA NothingTold ==
  ASSUME NEW s \in Seq(WireMessage), \A m \in ToSet(s) : m.type # "inv", NEW N, NEW n, NEW A
  PROVE  Given(s, ToldGives) = {} /\ Supplied(s, ToldGives, ToldNeeds, N, n, A)
<1>1. ASSUME NEW i \in DOMAIN s PROVE ToldGives[s[i]] = {} /\ ToldNeeds[s[i]] = {}
  <2> DEFINE m == s[i]
  <2>1. m \in WireMessage /\ m \in ToSet(s)
    BY DEF ToSet
  <2> HIDE DEF m
  <2>2. ToldGives[m] = {} /\ ToldNeeds[m] = {}
    BY <2>1, WireSupply
  <2> QED
    BY <2>2 DEF m
<1> QED
  BY <1>1, SuppliedIdle

LEMMA NodeDataFacts ==
  ASSUME Typed, InTime, NodeAnswers, Head(out).type = "getdata"
  PROVE  LET m == Head(out)
         IN  /\ m.txs \in Seq(Tx) /\ m.blocks \in Seq(Block) /\ nodeFilter \in Filter
             /\ ToSet(m.blocks) \subseteq 1..height
             /\ Given(Outgoing, AskGives) = (ToSet(m.txs) \ FalsePositives) \cup Given(Outgoing', AskGives)
             /\ \A t \in ToSet(m.txs) \ FalsePositives : Reason(t, addresses, OnWire)
             /\ (Ups(m.blocks) \cap told) \ FalsePositives \subseteq OnWire \cup (ToSet(m.txs) \ FalsePositives)
             /\ Supplied(Outgoing', AskGives, AskNeeds, told, addresses,
                         OnWire \cup (ToSet(m.txs) \ FalsePositives))
<1> DEFINE m == Head(out)
           s == <<m>>
<1>1. out # <<>> /\ out' = Tail(out) /\ loop' = loop
  BY DEF NodeAnswers
<1>2. /\ m \in LoopMessage /\ s \in Seq(LoopMessage) /\ Outgoing' \in Seq(LoopMessage)
      /\ Outgoing = s \o Outgoing' /\ m \in ToSet(Outgoing)
  BY <1>1, NodeTakes
<1>3. nodeFilter \in Filter
  BY <1>1 DEF Typed, Stages
<1>4. AskReal(m) /\ m.type = "getdata"
  BY <1>2 DEF InTime, Real
<1> HIDE DEF m
<1>5. m.txs \in Seq(Tx) /\ m.blocks \in Seq(Block) /\ ToSet(m.blocks) \subseteq 1..height
  BY <1>2, <1>4, LoopTypes DEF AskReal
<1>6. AskGives[m] = ToSet(m.txs) \ FalsePositives /\ AskNeeds[m] = Ups(m.blocks)
  BY <1>2, <1>4, AskSupply
<1>7. /\ Given(s, AskGives) = AskGives[m]
      /\ Supplied(s, AskGives, AskNeeds, told, addresses, OnWire)
           <=> Served(m, AskGives, AskNeeds, told, addresses, OnWire)
  BY <1>2, SuppliedOne
<1> HIDE DEF s
<1>8. Given(s \o Outgoing', AskGives) = Given(s, AskGives) \cup Given(Outgoing', AskGives)
  BY <1>2, GivenConcat
<1>9. /\ Supplied(s, AskGives, AskNeeds, told, addresses, OnWire)
      /\ Supplied(Outgoing', AskGives, AskNeeds, told, addresses, OnWire \cup Given(s, AskGives))
  <2>1. Supplied(s \o Outgoing', AskGives, AskNeeds, told, addresses, OnWire)
    BY <1>2 DEF InTime, InSupply
  <2>2. s \in Seq(LoopMessage) /\ Outgoing' \in Seq(LoopMessage)
    BY <1>2
  <2> QED
    BY <2>1, <2>2, SuppliedConcat
<1>10. Served(m, AskGives, AskNeeds, told, addresses, OnWire)
  BY <1>7, <1>9
<1>11. /\ (Ups(m.blocks) \cap told) \ FalsePositives \subseteq OnWire \cup (ToSet(m.txs) \ FalsePositives)
       /\ \A t \in ToSet(m.txs) \ FalsePositives : Reason(t, addresses, OnWire)
  BY <1>6, <1>10 DEF Served
<1>12. Given(Outgoing, AskGives) = (ToSet(m.txs) \ FalsePositives) \cup Given(Outgoing', AskGives)
  BY <1>2, <1>6, <1>7, <1>8
<1>13. Supplied(Outgoing', AskGives, AskNeeds, told, addresses, OnWire \cup (ToSet(m.txs) \ FalsePositives))
  BY <1>6, <1>7, <1>9
<1> QED
  BY <1>3, <1>5, <1>11, <1>12, <1>13 DEF m

LEMMA NodeDataInTime ==
  ASSUME Typed, Typed', InTime, ChanceIsForeign, ParentsFirst, NodeAnswers, Head(out).type = "getdata"
  PROVE  InTime'
<1> DEFINE m == Head(out)
           txs == m.txs
           bs == m.blocks
           G == ToSet(txs) \ FalsePositives
           Z == OnWire \cup G
           T == TxMessages(txs)
           R == Answers(bs)
           new == Given(R, WireGives)
<1>1. /\ UNCHANGED <<queue, told, addresses, wallet, current, knownTx, blockHashes, bloomFilter,
                     status, height, loop>>
      /\ out # <<>> /\ out' = Tail(out)
      /\ nodeFilter' = Grown(nodeFilter, BlockTxs(bs))
      /\ wire' = (wire \o T) \o R
  BY DEF NodeAnswers, managerVars, messageVars, TxMessages
<1>2. /\ txs \in Seq(Tx) /\ bs \in Seq(Block) /\ nodeFilter \in Filter /\ ToSet(bs) \subseteq 1..height
      /\ Given(Outgoing, AskGives) = G \cup Given(Outgoing', AskGives)
      /\ \A t \in G : Reason(t, addresses, OnWire)
      /\ (Ups(bs) \cap told) \ FalsePositives \subseteq Z
      /\ Supplied(Outgoing', AskGives, AskNeeds, told, addresses, Z)
  BY NodeDataFacts
<1>3. /\ Outgoing' \in Seq(LoopMessage) /\ ToSet(Outgoing') \subseteq ToSet(Outgoing)
      /\ wire \in Seq(WireMessage) /\ addresses \in Nat /\ height \in Nat
  <2>1. addresses \in Nat /\ height \in Nat
    BY MessageAssumption DEF Typed, MessagesTypeOK
  <2> QED
    BY <1>1, <2>1, NodeTakes, RequestTypes
<1> HIDE DEF m, txs, bs
<1>4. T \in Seq(WireMessage) /\ R \in Seq(WireMessage) /\ wire \o T \in Seq(WireMessage)
  <2>1. T \in Seq(WireMessage) /\ R \in Seq(WireMessage)
    BY <1>2, TxMessagesType, AnswersType
  <2> HIDE DEF T, R
  <2> QED
    BY <1>3, <2>1, ConcatFacts
<1>5. Given(T, WireGives) = G /\ Supplied(T, WireGives, WireNeeds, told, addresses, OnWire)
  BY <1>2, TxMessagesGive, AskedSupplied
<1>6. \A x \in ToSet(T) : x.type = "tx"
  BY <1>2, TxMessagesType DEF ToSet
<1>7. nodeFilter.outputs \subseteq Z \cup (told \ FalsePositives) /\ nodeFilter.addresses <= addresses
      /\ nodeFilter.outputs \subseteq InAll
  <2>1. nodeFilter.outputs \subseteq InAll /\ nodeFilter.addresses <= addresses
    BY <1>2 DEF InTime, FiltersOwn
  <2>2. InAll \subseteq OnWire \cup (told \ FalsePositives)
    BY InAllTold
  <2> QED
    BY <2>1, <2>2
<1>8. /\ Supplied(R, WireGives, WireNeeds, told, addresses, Z)
      /\ PaidBefore(bs, nodeFilter, Len(bs)) \subseteq Z \cup new
      /\ \A x \in ToSet(R) : x.type # "inv" /\ (x.type = "merkleblock" => x.matched \subseteq Ups(bs))
  <2> HIDE DEF G, Z
  <2> QED
    BY <1>2, <1>3, <1>7, AnswersSupplied
<1>9. /\ Given(T, ToldGives) = {} /\ Given(R, ToldGives) = {}
      /\ \A A : /\ Supplied(T, ToldGives, ToldNeeds, told, addresses, A)
                /\ Supplied(R, ToldGives, ToldNeeds, told, addresses, A)
  BY <1>4, <1>6, <1>8, NothingTold
<1>10. /\ nodeFilter' \in Filter /\ nodeFilter'.addresses = nodeFilter.addresses
       /\ nodeFilter'.outputs \subseteq (nodeFilter.outputs \cup Z) \cup new
  <2>1. BlockTxs(bs) \in SUBSET Tx
    BY <1>2, BlockTxsType
  <2>2. /\ nodeFilter' \in Filter /\ nodeFilter'.addresses = nodeFilter.addresses
        /\ nodeFilter'.outputs = nodeFilter.outputs \cup {t \in BlockTxs(bs) : PaysTo(t, nodeFilter)}
    BY <1>1, <1>2, <2>1, GrownFacts
  <2>3. {t \in BlockTxs(bs) : PaysTo(t, nodeFilter)} \subseteq PaidBefore(bs, nodeFilter, Len(bs))
    BY <1>2, BlockTxsWhole
  <2> QED
    BY <1>8, <2>2, <2>3
<1> HIDE DEF T, R, new, G
<1>11. Given(wire', WireGives) = (Given(wire, WireGives) \cup G) \cup new
  <2>1. Given(wire \o T, WireGives) = Given(wire, WireGives) \cup Given(T, WireGives)
    BY <1>3, <1>4, GivenConcat
  <2>2. Given((wire \o T) \o R, WireGives) = Given(wire \o T, WireGives) \cup Given(R, WireGives)
    <3> DEFINE u == wire \o T
    <3>1. u \in Seq(WireMessage) /\ R \in Seq(WireMessage)
      BY <1>4
    <3> HIDE DEF u
    <3>2. Given(u \o R, WireGives) = Given(u, WireGives) \cup Given(R, WireGives)
      BY <3>1, GivenConcat
    <3> QED
      BY <3>2 DEF u
  <2> QED
    BY <1>1, <1>5, <2>1, <2>2 DEF new
<1>12. Given(wire', ToldGives) = Given(wire, ToldGives)
  <2>1. Given(wire \o T, ToldGives) = Given(wire, ToldGives) \cup Given(T, ToldGives)
    BY <1>3, <1>4, GivenConcat
  <2>2. Given((wire \o T) \o R, ToldGives) = Given(wire \o T, ToldGives) \cup Given(R, ToldGives)
    <3> DEFINE u == wire \o T
    <3>1. u \in Seq(WireMessage) /\ R \in Seq(WireMessage)
      BY <1>4
    <3> HIDE DEF u
    <3>2. Given(u \o R, ToldGives) = Given(u, ToldGives) \cup Given(R, ToldGives)
      BY <3>1, GivenConcat
    <3> QED
      BY <3>2 DEF u
  <2> QED
    BY <1>1, <1>9, <2>1, <2>2
<1>13. AtManager' = AtManager
  BY <1>1 DEF AtManager
<1>14. OnWire' = Z \cup new
  BY <1>11, <1>13 DEF OnWire
<1>15. InRequests' = InRequests \cup new
  BY <1>2, <1>14 DEF InRequests
<1>16. InAll' = InAll \cup new
  BY <1>12, <1>15 DEF InAll
<1>17. Supplied(wire', WireGives, WireNeeds, told, addresses, AtManager)
  <2>1. Supplied(wire, WireGives, WireNeeds, told, addresses, AtManager)
    BY DEF InTime, InSupply
  <2>2. Supplied(T, WireGives, WireNeeds, told, addresses, AtManager \cup Given(wire, WireGives))
    BY <1>5 DEF OnWire
  <2>3. Supplied(wire \o T, WireGives, WireNeeds, told, addresses, AtManager)
    BY <1>3, <1>4, <2>1, <2>2, SuppliedConcat
  <2>4. AtManager \cup Given(wire \o T, WireGives) = Z
    <3>1. Given(wire \o T, WireGives) = Given(wire, WireGives) \cup Given(T, WireGives)
      BY <1>3, <1>4, GivenConcat
    <3> QED
      BY <1>5, <3>1 DEF OnWire
  <2>5. Supplied(R, WireGives, WireNeeds, told, addresses, AtManager \cup Given(wire \o T, WireGives))
    BY <1>8, <2>4
  <2> QED
    BY <1>1, <1>4, <2>3, <2>5, SuppliedConcat
<1>18. Supplied(wire', ToldGives, ToldNeeds, told, addresses, InRequests')
  <2> DEFINE B == InRequests \cup new
  <2>1. Supplied(wire, ToldGives, ToldNeeds, told, addresses, InRequests)
    BY DEF InTime, InSupply
  <2>2. Supplied(wire, ToldGives, ToldNeeds, told, addresses, B)
    <3>1. \A i \in DOMAIN wire : told \cap ToldNeeds[wire[i]] \subseteq told
      OBVIOUS
    <3>2. addresses <= addresses /\ InRequests \subseteq B
      BY <1>3
    <3> HIDE DEF B
    <3> QED
      BY <1>3, <2>1, <3>1, <3>2, SupplyTypes, SuppliedMore
  <2> HIDE DEF B
  <2>3. Supplied(wire \o T, ToldGives, ToldNeeds, told, addresses, B)
    BY <1>3, <1>4, <1>9, <2>2, SuppliedConcat
  <2>4. Supplied((wire \o T) \o R, ToldGives, ToldNeeds, told, addresses, B)
    BY <1>4, <1>9, <2>3, SuppliedConcat
  <2> QED
    BY <1>1, <1>15, <2>4 DEF B
<1>19. Supplied(Outgoing', AskGives, AskNeeds, told, addresses, OnWire')
  <2> DEFINE B == Z \cup new
             q == Outgoing'
  <2>1. \A i \in DOMAIN q : told \cap AskNeeds[q[i]] \subseteq told
    OBVIOUS
  <2>2. /\ addresses <= addresses /\ Z \subseteq B /\ addresses \in Nat /\ q \in Seq(LoopMessage)
        /\ Supplied(q, AskGives, AskNeeds, told, addresses, Z)
    BY <1>2, <1>3
  <2> HIDE DEF B, Z, q
  <2>3. Supplied(q, AskGives, AskNeeds, told, addresses, B)
    BY <2>1, <2>2, SupplyTypes, SuppliedMore
  <2> QED
    BY <1>14, <2>3 DEF B, q
<1>20. InSupply'
  BY <1>1, <1>13, <1>17, <1>18, <1>19 DEF InTime, InSupply
<1>21. CountedOn'
  BY <1>1, <1>13, <1>15, <1>16 DEF InTime, CountedOn, Connected
<1>22. FiltersOwn'
  <2>1. Z \subseteq InAll
    BY <1>2 DEF InAll, InRequests
  <2>2. nodeFilter'.outputs \subseteq InAll'
    BY <1>7, <1>10, <1>16, <2>1
  <2> QED
    BY <1>1, <1>3, <1>7, <1>10, <2>2 DEF InTime, FiltersOwn, Own
<1>23. Real'
  <2>1. ToSet(wire') = (ToSet(wire) \cup ToSet(T)) \cup ToSet(R)
    <3>1. ToSet(wire \o T) = ToSet(wire) \cup ToSet(T)
      BY <1>3, <1>4, RangeConcat
    <3>2. ToSet((wire \o T) \o R) = ToSet(wire \o T) \cup ToSet(R)
      BY <1>4, RangeConcat
    <3> QED
      BY <1>1, <3>1, <3>2
  <2>2. Ups(bs) \subseteq UpTo(height)
    BY <1>2, <1>3, UpsMined
  <2>3. ASSUME NEW x \in ToSet(wire') PROVE WireReal(x)
    BY <1>6, <1>8, <2>1, <2>2, <2>3 DEF InTime, Real, WireReal
  <2> QED
    BY <1>1, <1>3, <2>3 DEF InTime, Real, WireReal, AskReal
<1> QED
  BY <1>20, <1>21, <1>22, <1>23 DEF InTime

LEMMA NodeInTime ==
  ASSUME Typed, Typed', InTime, ChanceIsForeign, ParentsFirst, NodeAnswers
  PROVE  InTime'
<1>1. Head(out).type \in {"filterload", "getblocks", "getdata"}
  BY DEF NodeAnswers
<1> QED
  BY <1>1, NodeLoadsInTime, NodeInvInTime, NodeDataInTime

LEMMA NextInTime ==
  ASSUME Typed, InTime, ChanceIsForeign, ParentsFirst, [Next]_vars
  PROVE  InTime'
<1>1. Typed'
  BY NextTyped
<1> QED
  BY <1>1, NodeInTime, MineInTime, AnnounceInTime, SendInTime, RequestAgainInTime, AcceptInvInTime,
     AcceptMerkleblockInTime, AcceptTxInTime, ConnectionInTime, HandshakeInTime, RelayedTransactionInTime,
     RelayedBlockInTime, StutterInTime DEF Next

LEMMA HandedInTime ==
  ASSUME Typed, InTime, ChanceIsForeign
  PROVE  TransactionsBeforeBlock
<1> DEFINE m == Head(queue)
<1> SUFFICES ASSUME queue # <<>>, m.type = "block", NEW t \in m.txs, Known(t, addresses, wallet)
             PROVE  t \in wallet
  BY DEF TransactionsBeforeBlock
<1>1. queue \in Seq(CallbackBlock) /\ m \in CallbackBlock
  BY RequestTypes, TailFacts
<1>2. CallbackGives[m] = {} /\ CallbackNeeds[m] = m.txs /\ m.txs \in SUBSET Tx
  <2> HIDE DEF m
  <2> QED
    BY <1>1, CallbackSupply, CallbackTypes
<1>3. Served(m, CallbackGives, CallbackNeeds, Tx, addresses, wallet)
  <2>1. Supplied(queue, CallbackGives, CallbackNeeds, Tx, addresses, wallet)
    BY DEF InTime, InSupply
  <2> QED
    BY <1>1, <2>1, SuppliedTail
<1> HIDE DEF m
<1>4. t \notin FalsePositives
  BY DEF ChanceIsForeign, Known
<1> QED
  BY <1>2, <1>3, <1>4 DEF Served

\* No transaction of the wallet comes after its block, and so none stays unconfirmed that
\* way: for blocks that hold what their transactions spend from before them, and when what
\* a filter matches by chance is foreign to the wallet.  The node leaves out of a block
\* what it told of: that is on the way, asked for before the block, or registered.
THEOREM TransactionsAlwaysBeforeBlock ==
  ASSUME ChanceIsForeign, ParentsFirst
  PROVE  Spec => []TransactionsBeforeBlock
<1>1. Init => Typed /\ InTime
  BY InitTyped, InitInTime
<1>2. Typed /\ InTime /\ [Next]_vars => Typed' /\ InTime'
  BY NextTyped, NextInTime
<1>3. Typed /\ InTime => TransactionsBeforeBlock
  BY HandedInTime
<1> QED
  BY <1>1, <1>2, <1>3, PTL DEF Spec
============================================================================
