--------------------------- MODULE BlockChainProofs ---------------------------
(***************************************************************************)
(* For any tree of blocks: at every step of an insertion, a reorganisation *)
(* and a rewind, and so after a crash, the index is the chain of the head; *)
(* an invalid block whose root is not another's never becomes canonical;   *)
(* the head has its state unless a fork outgrows it, and an orderly stop   *)
(* keeps it; transactions are found; and an insertion obeys fork choice    *)
(* and artificial finality.                                                *)
(***************************************************************************)
EXTENDS BlockChain, TLAPS, WellFoundedInduction

\* The database has the ancestors of its blocks.
Linked == \A b \in db \cap Blocks : Parent[b] \in db

\* The head header is on one chain with the head block: the index has its
\* ancestors or, above the head block, nothing in their place.
HeaderInv ==
  \A c \in Path[headHeader] :
    /\ canon[Number[c]] \in {c, None}
    /\ Number[c] <= Number[headBlock] => canon[Number[c]] = c

\* A block that was executed, on states of blocks that were.
Sound(c) == c \notin Invalid /\ Path[c] \cap Unmasked = {}

\* Every state is that of a block which was executed.
StatesValid ==
  /\ Root[Genesis] \in saved
  /\ \A c \in cached : Sound(c)
  /\ \A r \in saved : \E c \in All : Sound(c) /\ Root[c] = r

\* The first step of a rewind takes the head block below the header.
RewindInv ==
  pc = "rewind" /\ Number[headHeader] <= op.target =>
    Number[headBlock] <= Number[headHeader]

\* A reorganisation to op.block: what is left to write is the end of its chain,
\* and the rest of its chain is that of the head block.
Left == op.newChain \cup {op.block}

ReorgInv ==
  pc = "reorg" =>
    /\ op.block \in db \cap Blocks /\ HasState(op.block)
    /\ op.newChain \subseteq Path[op.block] \ {op.block}
    /\ Path[op.block] \ Left \subseteq Path[headBlock]
    /\ Left \cap Path[headBlock] = {}
    /\ \A c \in Path[op.block] \ Left, d \in Left : Number[c] < Number[d]

SideInv == pc = "side" => op.previous \in db

\* HeadHasState, in all states in which no reorganisation is under way.
HeadKept ==
  pc \notin {"reorg", "down"} => HasState(headBlock) \/ Outgrown

CleanInv ==
  clean # None => pc = "down" /\ clean = headBlock /\ Root[headBlock] \in saved

Inv ==
  /\ TypeOK /\ CanonicalChain /\ InvalidNeverCanonical
  /\ Linked /\ HeaderInv /\ StatesValid /\ RewindInv /\ ReorgInv /\ SideInv
  /\ HeadKept /\ CleanInv

\* LookupRight; in a reorganisation, of the blocks that are not to be written.
Found(S) == \A b \in S : \A t \in TxsOf[b] : lookup[t] = Number[b]

LookupInv ==
  crashes = 0 => Found(IF pc = "reorg" THEN Path[op.block] \ Left
                       ELSE Path[headBlock])

\* The block that is or will be the head.
Chosen == IF pc = "reorg" THEN op.block ELSE headBlock

\* A list of blocks is a part of one chain.
Segment(S) ==
  /\ \E b \in All : S \subseteq Path[b]
  /\ \A c \in S : Parent[c] \in S \/ \A d \in S : Number[c] <= Number[d]

\* The head at the end of an insertion that made b the head obeys fork choice.
Obeys(b) ==
  /\ Td[b] >= Td[start]
  /\ op.finality /\ start \notin Path[b] => ~ecbp1100(start, b)

\* Once the head has changed, the rest of the insertion extends it.
ForkInv ==
  /\ pc \in {"insert", "reorg", "side"} => Segment(op.todo)
  /\ pc \in {"insert", "reorg"} /\ op.mode # "middle" =>
       /\ Obeys(Chosen)
       /\ Chosen # start \/ op.mode = "known" =>
            /\ op.mode # "skip" /\ HasBlockAndState(Chosen)
            /\ op.todo # {} => Parent[First(op.todo)] = Chosen
  /\ pc = "side" => headBlock = start /\ op.mode = "skip"

-----------------------------------------------------------------------------
(* The tree of blocks                                                      *)

\* The assumptions, by the names that the proofs need.
LEMMA Tree ==
  /\ Genesis \in All /\ Blocks \subseteq All /\ Genesis \notin Blocks
  /\ None \notin All
  /\ \A b \in All : Number[b] \in Nat /\ Td[b] \in Nat /\ Number[b] \in Numbers
  /\ \A b \in Blocks : /\ Parent[b] \in All
                       /\ Number[b] = Number[Parent[b]] + 1
                       /\ Td[b] > Td[Parent[b]]
  /\ Number[Genesis] = 0 /\ Numbers \subseteq Nat /\ 0 \in Numbers
  /\ TriesInMemory \in Nat \ {0}
BY BlockChainAssumption DEF All, Numbers

\* The path of a block has the block and the parents of its blocks.
LEMMA PathClosed ==
  ASSUME NEW b \in All
  PROVE  /\ Path[b] \subseteq All /\ b \in Path[b]
         /\ \A c \in Path[b] : c # Genesis => c \in Blocks /\ Parent[c] \in Path[b]
<1>1. Path[b] \subseteq All /\ b \in Path[b]
  BY DEF Path
<1>2. ASSUME NEW c \in Path[b], c # Genesis
      PROVE  c \in Blocks /\ Parent[c] \in Path[b]
  <2>1. c \in Blocks /\ Parent[c] \in All
    BY <1>1, <1>2, Tree DEF All
  <2>2. ASSUME NEW S \in SUBSET All, \A d \in S \cap Blocks : Parent[d] \in S, b \in S
        PROVE  Parent[c] \in S
    <3>1. c \in S
      BY <2>2 DEF Path
    <3> QED BY <3>1, <2>1, <2>2
  <2> QED BY <2>1, <2>2 DEF Path
<1> QED BY <1>1, <1>2

\* It is the smallest such set.
LEMMA PathLeast ==
  ASSUME NEW b \in All, NEW S \in SUBSET All, b \in S,
         \A c \in S \cap Blocks : Parent[c] \in S
  PROVE  Path[b] \subseteq S
BY DEF Path

\* The ancestors of an ancestor are ancestors.
LEMMA PathTrans ==
  ASSUME NEW b \in All, NEW c \in Path[b]
  PROVE  Path[c] \subseteq Path[b] /\ c \in All
<1>1. c \in All /\ Path[b] \in SUBSET All
  BY PathClosed
<1>2. \A d \in Path[b] \cap Blocks : Parent[d] \in Path[b]
  BY PathClosed, Tree
<1> QED BY <1>1, <1>2, PathLeast

\* The path of a block is that of its parent and the block.
LEMMA PathStep ==
  ASSUME NEW b \in Blocks
  PROVE  Path[b] = Path[Parent[b]] \cup {b} /\ Parent[b] \in Path[b]
<1>1. b \in All /\ Parent[b] \in All /\ b # Genesis
  BY Tree
<1>2. Parent[b] \in Path[b] /\ b \in Path[b]
  BY <1>1, PathClosed
<1>3. Path[Parent[b]] \subseteq Path[b]
  BY <1>1, <1>2, PathTrans
<1> DEFINE S == Path[Parent[b]] \cup {b}
<1>4. S \in SUBSET All /\ b \in S
  BY <1>1, PathClosed
<1>5. \A c \in S \cap Blocks : Parent[c] \in S
  BY <1>1, PathClosed, Tree
<1> HIDE DEF S
<1>6. Path[b] \subseteq S
  BY <1>1, <1>4, <1>5, PathLeast
<1> QED BY <1>2, <1>3, <1>6 DEF S

\* The path of the first block.
LEMMA PathGenesis == Path[Genesis] = {Genesis}
<1>1. {Genesis} \in SUBSET All /\ \A c \in {Genesis} \cap Blocks : Parent[c] \in {Genesis}
  BY Tree
<1>2. Path[Genesis] \subseteq {Genesis}
  BY <1>1, Tree, PathLeast
<1> QED BY <1>2, Tree, PathClosed

\* Ancestors have lower numbers and are lighter.
LEMMA PathLower ==
  ASSUME NEW b \in All, NEW c \in Path[b], c # b
  PROVE  Number[c] < Number[b] /\ Td[c] < Td[b]
<1> DEFINE S == {d \in All : d = b \/ (Number[d] < Number[b] /\ Td[d] < Td[b])}
<1>1. S \in SUBSET All /\ b \in S
  OBVIOUS
<1>2. \A d \in S \cap Blocks : Parent[d] \in S
  <2>1. SUFFICES ASSUME NEW d \in S \cap Blocks
                 PROVE  Parent[d] \in S
    OBVIOUS
  <2>2. /\ Parent[d] \in All /\ Number[d] = Number[Parent[d]] + 1
        /\ Td[d] > Td[Parent[d]]
        /\ Number[d] \in Nat /\ Number[b] \in Nat /\ Td[d] \in Nat /\ Td[b] \in Nat
        /\ Number[Parent[d]] \in Nat /\ Td[Parent[d]] \in Nat
    BY Tree
  <2> QED BY <2>2
<1> HIDE DEF S
<1>3. Path[b] \subseteq S
  BY <1>1, <1>2, PathLeast
<1> QED BY <1>3 DEF S

\* Of two blocks on one path the lower one is an ancestor of the other.
LEMMA PathLinear ==
  ASSUME NEW b \in All, NEW a \in Path[b], NEW c \in Path[b],
         Number[a] <= Number[c]
  PROVE  a \in Path[c]
<1> DEFINE S == {d \in Path[b] : Number[a] <= Number[d] => a \in Path[d]}
<1>1. S \in SUBSET All /\ b \in S
  BY PathClosed
<1>2. \A d \in S \cap Blocks : Parent[d] \in S
  <2>1. SUFFICES ASSUME NEW d \in S \cap Blocks, Number[a] <= Number[Parent[d]]
                 PROVE  a \in Path[Parent[d]]
    BY PathClosed, Tree
  <2>2. a \in All /\ d \in All /\ Parent[d] \in All
    BY Tree, PathClosed
  <2>3. Number[a] <= Number[d] /\ Number[a] # Number[d]
    BY <2>1, <2>2, Tree
  <2>4. a \in Path[d] /\ a # d
    BY <2>3
  <2> QED BY <2>4, PathStep
<1> HIDE DEF S
<1>3. Path[b] \subseteq S
  BY <1>1, <1>2, PathLeast
<1> QED BY <1>3 DEF S

\* The number tells the blocks of a path apart.
LEMMA PathNumber ==
  ASSUME NEW b \in All, NEW a \in Path[b], NEW c \in Path[b],
         Number[a] = Number[c]
  PROVE  a = c
<1>1. a \in All /\ c \in All /\ Number[a] \in Nat
  BY PathClosed, Tree
<1>2. a \in Path[c]
  BY <1>1, PathLinear
<1> QED BY <1>1, <1>2, PathLower

\* A set of numbers has a least one.
LEMMA LeastNumber ==
  ASSUME NEW S \in SUBSET Nat, S # {}
  PROVE  \E n \in S : \A m \in S : n <= m
<1> DEFINE R == OpToRel(<, Nat)
<1>1. IsWellFoundedOn(R, Nat)
  BY NatLessThanWellFounded
<1> HIDE DEF R
<1>2. PICK n \in S : \A m \in S : ~(<<m, n>> \in R)
  BY <1>1, WFMin
<1>3. ASSUME NEW m \in S PROVE n <= m
  <2>1. m \in Nat /\ n \in Nat
    OBVIOUS
  <2>2. m < n => <<m, n>> \in R
    BY <2>1 DEF R, OpToRel
  <2>3. ~(m < n)
    BY <1>2, <2>2
  <2> QED BY <2>1, <2>3
<1> QED BY <1>3

\* A set of blocks has a lowest one, which is its first.
LEMMA FirstBlock ==
  ASSUME NEW S \in SUBSET All, S # {}
  PROVE  First(S) \in S /\ \A c \in S : Number[First(S)] <= Number[c]
<1> DEFINE N == {Number[b] : b \in S}
<1>1. N \in SUBSET Nat /\ N # {}
  BY Tree
<1> HIDE DEF N
<1>2. PICK n \in N : \A m \in N : n <= m
  BY <1>1, LeastNumber
<1>3. PICK b \in S : Number[b] = n
  BY DEF N
<1>4. \A c \in S : Number[b] <= Number[c]
  BY <1>2, <1>3 DEF N
<1> QED BY <1>4 DEF First

\* Every path begins with the first block.
LEMMA PathRoot ==
  ASSUME NEW b \in All
  PROVE  Genesis \in Path[b]
<1>1. Path[b] \in SUBSET All /\ Path[b] # {}
  BY PathClosed
<1> DEFINE f == First(Path[b])
<1>2. f \in Path[b] /\ \A c \in Path[b] : Number[f] <= Number[c]
  BY <1>1, FirstBlock
<1> HIDE DEF f
<1>3. CASE f # Genesis
  <2>1. f \in Blocks /\ Parent[f] \in Path[b]
    BY <1>2, <1>3, PathClosed
  <2>2. Number[f] <= Number[Parent[f]] /\ Number[f] = Number[Parent[f]] + 1
        /\ Number[Parent[f]] \in Nat
    BY <1>2, <2>1, Tree
  <2> QED BY <2>2
<1> QED BY <1>2, <1>3

\* A set of blocks on a path has a highest one.
LEMMA HighestBlock ==
  ASSUME NEW b \in All, NEW S \in SUBSET Path[b], S # {}
  PROVE  \E a \in S : \A c \in S : Number[c] <= Number[a]
<1> DEFINE N == {Number[b] - Number[c] : c \in S}
<1>1. \A c \in S : c \in All /\ Number[c] \in Nat /\ Number[c] <= Number[b]
  BY PathClosed, PathLower, Tree
<1>2. Number[b] \in Nat
  BY Tree
<1>3. N \in SUBSET Nat /\ N # {}
  BY <1>1, <1>2
<1> HIDE DEF N
<1>4. PICK n \in N : \A m \in N : n <= m
  BY <1>3, LeastNumber
<1>5. PICK a \in S : Number[b] - Number[a] = n
  BY DEF N
<1>6. \A c \in S : Number[b] - Number[a] <= Number[b] - Number[c]
  BY <1>4, <1>5 DEF N
<1> QED BY <1>1, <1>2, <1>6

\* On a path every block but the last one has a child.
LEMMA PathChild ==
  ASSUME NEW b \in All, NEW p \in Path[b], p # b
  PROVE  \E y \in Path[b] : y \in Blocks /\ Parent[y] = p
<1> DEFINE S == {d \in Path[b] : Number[d] > Number[p]}
           y == First(S)
<1>1. Path[b] \subseteq All /\ b \in Path[b] /\ p \in All
  BY PathClosed
<1>2. b \in S
  BY <1>1, PathLower, Tree
<1>3. y \in S /\ \A c \in S : Number[y] <= Number[c]
  BY <1>1, <1>2, FirstBlock
<1> HIDE DEF y
<1>4. y \in All /\ y # Genesis
  BY <1>1, <1>3, Tree
<1>5. y \in Path[b] /\ y \in Blocks /\ Parent[y] \in Path[b]
  BY <1>3, <1>4, PathClosed
<1>6. Parent[y] \in All /\ Number[y] = Number[Parent[y]] + 1
  BY <1>5, Tree
<1>7. ~(Number[Parent[y]] > Number[p])
  <2>1. Parent[y] \in S => Number[y] <= Number[Parent[y]]
    BY <1>3
  <2>2. Number[Parent[y]] \in Nat
    BY <1>6, Tree
  <2> QED BY <2>1, <2>2, <1>5, <1>6
<1>8. Number[y] > Number[p]
  BY <1>3
<1>9. Number[y] \in Nat /\ Number[p] \in Nat /\ Number[Parent[y]] \in Nat
  BY <1>1, <1>4, <1>6, Tree
<1>10. Number[Parent[y]] = Number[p]
  BY <1>6, <1>7, <1>8, <1>9
<1>11. Parent[y] = p
  BY <1>5, <1>10, PathNumber
<1> QED BY <1>5, <1>11

-----------------------------------------------------------------------------
(* The database and the index                                              *)

Modes == {"skip", "known", "main", "middle"}
Phases == {"idle", "insert", "side", "reorg", "rewind", "down"}

\* The types of the state.
LEMMA Types ==
  ASSUME Inv
  PROVE  /\ Genesis \in db /\ db \subseteq All
         /\ canon \in [Numbers -> All \cup {None}]
         /\ headBlock \in db /\ headHeader \in db
         /\ headBlock \in All /\ headHeader \in All
         /\ lookup \in [Txs -> Numbers]
         /\ saved \subseteq Roots(All) /\ cached \subseteq All
         /\ op \in Ops /\ stopping \in BOOLEAN /\ panicked \in BOOLEAN
         /\ pc \in Phases /\ start \in All /\ clean \in All \cup {None}
         /\ crashes \in 0 .. MaxEvents /\ others \in 0 .. MaxEvents
BY DEF Inv, TypeOK, Phases

\* The types of an operation.
LEMMA OpTypes ==
  ASSUME NEW o \in Ops
  PROVE  /\ o.finality \in BOOLEAN /\ o.todo \subseteq Blocks /\ o.mode \in Modes
         /\ o.previous \in All \cup {None} /\ o.newChain \subseteq Blocks
         /\ o.block \in All \cup {None} /\ o.old \in All \cup {None}
         /\ o.target \in Numbers
BY DEF Ops, Modes

\* The empty operation.
LEMMA NoOpTypes == NoOp \in Ops
BY Tree DEF NoOp, Ops

\* The database has the chain of each of its blocks.
LEMMA PathInDb ==
  ASSUME Linked, db \subseteq All, NEW b \in db
  PROVE  Path[b] \subseteq db
<1>1. b \in All /\ db \in SUBSET All /\ \A c \in db \cap Blocks : Parent[c] \in db
  BY DEF Linked
<1> QED BY <1>1, PathLeast

\* The first block is sound; None is no block.
LEMMA GenesisSound == Sound(Genesis) /\ None \notin Unmasked /\ Genesis \notin Unmasked
BY BlockChainAssumption, PathGenesis DEF Sound, Unmasked, All

\* A block with a state, also one that was not executed: it has the root of one
\* that was, so that invalid ancestors, if it has any, are not unmasked.
LEMMA StateSound ==
  ASSUME Inv, NEW b \in All, HasState(b)
  PROVE  Path[b] \cap Unmasked = {}
<1>1. PICK c \in All : Sound(c) /\ Root[c] = Root[b]
  <2>1. CASE Root[b] \in saved
    BY <2>1 DEF Inv, StatesValid
  <2>2. CASE Root[b] \in Roots(cached)
    BY <2>2, Types DEF Inv, StatesValid, Roots
  <2> QED BY <2>1, <2>2 DEF HasState
<1>2. SUFFICES ASSUME NEW z \in Path[b], z \in Unmasked PROVE FALSE
  OBVIOUS
<1>3. c = b
  BY <1>1, <1>2 DEF Unmasked, Sound
<1> QED BY <1>1, <1>2, <1>3 DEF Sound

\* The last block with a state, to which a head without one goes back.
LEMMA StatefulBlock ==
  ASSUME Inv, NEW b \in All
  PROVE  /\ Stateful(b) \in Path[b] /\ HasState(Stateful(b)) /\ Stateful(b) \in All
         /\ HasState(b) => Stateful(b) = b
<1> DEFINE S == {a \in Path[b] : HasState(a)}
<1>1. Genesis \in S
  BY PathRoot DEF HasState, Inv, StatesValid
<1>2. S \in SUBSET Path[b] /\ S # {}
  BY <1>1
<1>3. \E a \in S : \A c \in S : Number[c] <= Number[a]
  BY <1>2, HighestBlock
<1>4. /\ Stateful(b) \in Path[b] /\ HasState(Stateful(b))
      /\ \A c \in Path[b] : HasState(c) => Number[c] <= Number[Stateful(b)]
  BY <1>3 DEF Stateful
<1> DEFINE a == Stateful(b)
<1>5. a \in All /\ b \in Path[b]
  BY <1>4, PathClosed
<1> HIDE DEF a
<1>6. ASSUME HasState(b) PROVE a = b
  <2>1. Number[b] <= Number[a] /\ Number[a] \in Nat /\ Number[b] \in Nat
    BY <1>4, <1>5, <1>6, Tree DEF a
  <2> QED BY <2>1, <1>4, PathLower DEF a
<1> QED BY <1>4, <1>5, <1>6 DEF a

\* The parts of the invariant that are about the database and the index.
IndexInv ==
  /\ Genesis \in db /\ db \subseteq All
  /\ canon \in [Numbers -> All \cup {None}]
  /\ headBlock \in db /\ headHeader \in db /\ lookup \in [Txs -> Numbers]
  /\ CanonicalChain /\ InvalidNeverCanonical /\ Linked /\ HeaderInv

\* writeHeadBlock moves the head to a block whose parent is canonical, and the
\* index follows.
LEMMA WriteHeadIndex ==
  ASSUME IndexInv, NEW x \in Blocks, x \in db, x \notin Unmasked,
         Parent[x] \in Path[headBlock], x \notin Path[headBlock],
         writeHeadBlock(x), db' = db
  PROVE  IndexInv'
<1>1. /\ canon' = [canon EXCEPT ![Number[x]] = x]
      /\ lookup' = [t \in Txs |-> IF t \in TxsOf[x] THEN Number[x] ELSE lookup[t]]
      /\ headBlock' = x
      /\ headHeader' = IF canon[Number[x]] # x THEN x ELSE headHeader
  BY DEF writeHeadBlock
<1>2. /\ x \in All /\ headBlock \in All /\ headHeader \in All /\ Parent[x] \in All
      /\ Number[x] \in Numbers /\ Number[x] \in Nat /\ Number[x] = Number[Parent[x]] + 1
      /\ canon \in [Numbers -> All \cup {None}] /\ lookup \in [Txs -> Numbers]
      /\ db \subseteq All
  BY Tree DEF IndexInv
<1>3. /\ canon' \in [Numbers -> All \cup {None}] /\ canon'[Number[x]] = x
      /\ \A n \in Numbers : n # Number[x] => canon'[n] = canon[n]
      /\ lookup' \in [Txs -> Numbers]
  BY <1>1, <1>2
<1>4. Path[x] = Path[Parent[x]] \cup {x} /\ Path[Parent[x]] \subseteq Path[headBlock]
  BY <1>2, PathStep, PathTrans
<1>5. ASSUME NEW c \in Path[x] PROVE canon'[Number[c]] = c /\ c \in db
  <2>1. CASE c = x
    BY <2>1, <1>3
  <2>2. CASE c # x
    <3>1. c \in Path[headBlock] /\ Number[c] < Number[x] /\ Number[c] \in Numbers
          /\ Number[c] \in Nat
      BY <2>2, <1>2, <1>4, PathLower, PathClosed, Tree
    <3>2. canon[Number[c]] = c /\ c \in db
      BY <3>1 DEF IndexInv, CanonicalChain
    <3> QED BY <3>1, <3>2, <1>2, <1>3
  <2> QED BY <2>1, <2>2
<1>6. CanonicalChain'
  BY <1>1, <1>5 DEF CanonicalChain
<1>7. InvalidNeverCanonical'
  BY <1>3 DEF InvalidNeverCanonical, IndexInv
<1>8. HeaderInv'
  <2>1. CASE canon[Number[x]] # x
    <3>1. headHeader' = x
      BY <2>1, <1>1
    <3> QED BY <3>1, <1>5 DEF HeaderInv
  <2>2. CASE canon[Number[x]] = x
    <3>1. headHeader' = headHeader
      BY <2>2, <1>1
    <3>2. \A n \in Numbers : canon'[n] = canon[n]
      BY <2>2, <1>3
    <3>3. Parent[x] = headBlock
      <4>1. SUFFICES ASSUME Parent[x] # headBlock PROVE FALSE
        OBVIOUS
      <4>2. PICK y \in Path[headBlock] : y \in Blocks /\ Parent[y] = Parent[x]
        BY <4>1, <1>2, PathChild
      <4>3. Number[y] = Number[x]
        BY <4>2, Tree
      <4>4. canon[Number[y]] = y
        BY DEF IndexInv, CanonicalChain
      <4> QED BY <2>2, <4>2, <4>3, <4>4
    <3>4. Number[headBlock] \in Nat /\ Number[x] = Number[headBlock] + 1
      BY <3>3, <1>2, Tree
    <3>5. SUFFICES ASSUME NEW c \in Path[headHeader]
                   PROVE  /\ canon[Number[c]] \in {c, None}
                          /\ Number[c] <= Number[x] => canon[Number[c]] = c
      BY <3>1, <3>2, <1>1, <1>2, PathClosed, Tree DEF HeaderInv
    <3>6. c \in All /\ Number[c] \in Nat
      BY <1>2, PathClosed, Tree
    <3>7. /\ canon[Number[c]] \in {c, None}
          /\ Number[c] <= Number[headBlock] => canon[Number[c]] = c
      BY DEF IndexInv, HeaderInv
    <3>8. CASE Number[c] = Number[x]
      BY <3>7, <3>8, <2>2, <1>2, Tree
    <3>9. CASE Number[c] # Number[x]
      BY <3>4, <3>6, <3>7, <3>9
    <3> QED BY <3>8, <3>9
  <2> QED BY <2>1, <2>2
<1>9. headHeader' \in db
  BY <1>1 DEF IndexInv
<1>10. Linked'
  BY DEF Linked, IndexInv
<1> QED BY <1>1, <1>3, <1>6, <1>7, <1>8, <1>9, <1>10 DEF IndexInv

\* The index stays what it is.
LEMMA IndexKept ==
  ASSUME IndexInv, UNCHANGED <<db, canon, headBlock, headHeader, lookup>>
  PROVE  IndexInv'
BY DEF IndexInv, CanonicalChain, InvalidNeverCanonical, Linked, HeaderInv

\* A block with its parent is added to the database.
LEMMA StoreIndex ==
  ASSUME IndexInv, NEW x \in Blocks, Parent[x] \in db, db' = db \cup {x},
         UNCHANGED <<canon, headBlock, headHeader, lookup>>
  PROVE  IndexInv'
<1>1. x \in All
  BY Tree
<1>2. Linked'
  BY DEF Linked, IndexInv
<1>3. CanonicalChain' /\ InvalidNeverCanonical' /\ HeaderInv'
  BY DEF IndexInv, CanonicalChain, InvalidNeverCanonical, HeaderInv
<1> QED BY <1>1, <1>2, <1>3 DEF IndexInv

\* The head block goes back to an ancestor.
LEMMA BackIndex ==
  ASSUME IndexInv, NEW x \in Path[headBlock], headBlock' = x,
         UNCHANGED <<db, canon, headHeader, lookup>>
  PROVE  IndexInv'
<1>1. headBlock \in All /\ headHeader \in All
  BY DEF IndexInv
<1>2. /\ x \in All /\ Path[x] \subseteq Path[headBlock] /\ Number[x] \in Nat
      /\ Number[headBlock] \in Nat /\ Number[x] <= Number[headBlock]
  BY <1>1, PathTrans, PathLower, Tree
<1>3. CanonicalChain' /\ x \in db
  BY <1>2 DEF IndexInv, CanonicalChain
<1>4. HeaderInv'
  <2>1. \A c \in Path[headHeader] : Number[c] \in Nat
    BY <1>1, PathClosed, Tree
  <2>2. \A c \in Path[headHeader] : Number[c] <= Number[x] => Number[c] <= Number[headBlock]
    BY <2>1, <1>2
  <2> QED BY <2>2 DEF IndexInv, HeaderInv
<1> QED BY <1>3, <1>4 DEF IndexInv, InvalidNeverCanonical, Linked

-----------------------------------------------------------------------------
(* Insertions                                                              *)

ControlTypes ==
  /\ saved \subseteq Roots(All) /\ cached \subseteq All
  /\ op \in Ops /\ stopping \in BOOLEAN /\ panicked \in BOOLEAN
  /\ pc \in Phases /\ start \in All /\ clean \in All \cup {None}
  /\ crashes \in 0 .. MaxEvents /\ others \in 0 .. MaxEvents

\* The invariant and its parts, before a step and after it.
LEMMA InvParts ==
  /\ Inv <=> /\ IndexInv /\ ControlTypes /\ StatesValid /\ RewindInv /\ ReorgInv
             /\ SideInv /\ HeadKept /\ CleanInv
  /\ Inv' <=> /\ IndexInv' /\ ControlTypes' /\ StatesValid' /\ RewindInv'
              /\ ReorgInv' /\ SideInv' /\ HeadKept' /\ CleanInv'
BY DEF Inv, TypeOK, IndexInv, ControlTypes, Phases

\* The blocks of a list.
LEMMA FirstTodo ==
  ASSUME NEW S \in SUBSET Blocks, S # {}
  PROVE  First(S) \in S /\ First(S) \in Blocks /\ Rest(S) \subseteq Blocks
BY FirstBlock, Tree DEF Rest

\* What an insertion may do to the operation.
LEMMA OpSteps ==
  ASSUME NEW o \in Ops
  PROVE  /\ \A S \in SUBSET Blocks : [o EXCEPT !.todo = S] \in Ops
         /\ \A S \in SUBSET Blocks, m \in Modes :
              [o EXCEPT !.todo = S, !.mode = m] \in Ops
         /\ \A S \in SUBSET Blocks : [o EXCEPT !.newChain = S] \in Ops
         /\ [o EXCEPT !.old = None] \in Ops /\ [o EXCEPT !.block = None] \in Ops
         /\ \A S \in SUBSET Blocks, b \in All :
              [o EXCEPT !.todo = S, !.previous = b] \in Ops
         /\ \A S \in SUBSET Blocks, m \in Modes, b \in All, a \in All \cup {None},
              T \in SUBSET Blocks :
              [o EXCEPT !.todo = S, !.mode = m, !.block = b, !.old = a,
                        !.newChain = T] \in Ops
BY DEF Ops, Modes

\* A step that begins or ends an operation, or goes on with its list.
LEMMA ControlInv ==
  ASSUME Inv, UNCHANGED <<db, canon, headBlock, headHeader, lookup, saved, cached>>,
         pc \notin {"reorg", "down"}, pc' \in Phases \ {"reorg", "down"}, op' \in Ops,
         stopping' \in BOOLEAN, panicked' = panicked, start' \in All, clean' = clean,
         crashes' = crashes, others' \in 0 .. MaxEvents,
         RewindInv', SideInv'
  PROVE  Inv'
<1>1. IndexInv'
  BY IndexKept, InvParts
<1>2. ControlTypes'
  BY InvParts DEF ControlTypes
<1>3. StatesValid' /\ HeadKept' /\ ReorgInv' /\ CleanInv'
  BY InvParts DEF StatesValid, HeadKept, ReorgInv, CleanInv, HasState, Outgrown
<1> QED BY <1>1, <1>2, <1>3, InvParts

\* The chains that may be inserted have blocks other than the first.
LEMMA ChainBlocks ==
  ASSUME NEW chain \in Chains
  PROVE  chain \subseteq Blocks /\ Segment(chain)
<1>1. PICK q \in Blocks \X Numbers :
        q[2] # 0 /\ chain = {c \in Path[q[1]] : Number[c] >= q[2]}
  BY DEF Chains
<1> DEFINE b == q[1]
           n == q[2]
<1>2. b \in Blocks /\ b \in All /\ n \in Nat /\ n # 0
  BY <1>1, Tree
<1> HIDE DEF b, n
<1>3. chain = {c \in Path[b] : Number[c] >= n}
  BY <1>1 DEF b, n
<1>4. ASSUME NEW c \in chain
      PROVE  c \in Blocks /\ Parent[c] \in Path[b]
  <2>1. c \in Path[b] /\ Number[c] >= n /\ c \in All
    BY <1>2, <1>3, PathClosed
  <2>2. c # Genesis
    BY <2>1, <1>2, Tree
  <2> QED BY <2>1, <2>2, <1>2, PathClosed
<1>5. ASSUME NEW c \in chain, Parent[c] \notin chain, NEW d \in chain
      PROVE  Number[c] <= Number[d]
  <2>1. /\ Parent[c] \in All /\ Number[c] = Number[Parent[c]] + 1 /\ d \in All
        /\ Number[Parent[c]] \in Nat /\ Number[d] \in Nat
    BY <1>4, Tree
  <2>2. Number[d] >= n /\ ~(Number[Parent[c]] >= n)
    BY <1>3, <1>4, <1>5
  <2> QED BY <2>1, <2>2, <1>2
<1> QED BY <1>2, <1>3, <1>4, <1>5 DEF Segment

\* InsertChain begins.
LEMMA InsertChainInv ==
  ASSUME Inv, NEW chain \in Chains, NEW f \in BOOLEAN, InsertChain(chain, f)
  PROVE  Inv'
<1>1. /\ pc = "idle" /\ pc' = "insert" /\ start' = headBlock
      /\ op' = [NoOp EXCEPT !.todo = chain, !.finality = f]
      /\ UNCHANGED <<db, canon, headBlock, headHeader, lookup, saved, cached,
                     stopping, clean, panicked, crashes, others>>
  BY DEF InsertChain, index, bounds
<1>2. op' \in Ops
  BY <1>1, NoOpTypes, ChainBlocks DEF Ops
<1>3. RewindInv' /\ SideInv'
  BY <1>1 DEF RewindInv, SideInv
<1> QED BY <1>1, <1>2, <1>3, Types, ControlInv DEF Phases

\* What a verdict says.
LEMMA Verdicts ==
  ASSUME Inv, NEW v, Inserting(v)
  PROVE  LET b == First(op.todo) IN
         /\ pc = "insert" /\ b \in Blocks /\ b \in op.todo /\ Rest(op.todo) \subseteq Blocks
         /\ v = "known" => HasBlockAndState(b)
         /\ v = "ok" => HasBlockAndState(Parent[b])
BY Types, OpTypes, FirstTodo DEF Inserting, Verdict

\* A known block is ignored.
LEMMA IgnoreKnownInv ==
  ASSUME Inv, IgnoreKnown
  PROVE  Inv'
<1>1. /\ pc = "insert" /\ op' = [op EXCEPT !.todo = Rest(op.todo)]
      /\ Rest(op.todo) \subseteq Blocks
      /\ UNCHANGED <<db, canon, headBlock, headHeader, lookup, saved, cached,
                     stopping, pc, start, clean, panicked, crashes, others>>
  BY Verdicts DEF IgnoreKnown, index, history, bounds
<1>2. op' \in Ops
  BY <1>1, Types, OpSteps
<1>3. RewindInv' /\ SideInv'
  BY <1>1 DEF RewindInv, SideInv
<1> QED BY <1>1, <1>2, <1>3, Types, ControlInv DEF Phases

\* The process ends.
LEMMA DieInv ==
  ASSUME IndexInv', ControlTypes, StatesValid, Die, saved \subseteq saved',
         \A r \in saved' : \E c \in All : Sound(c) /\ Root[c] = r,
         CleanInv', clean' \in All \cup {None}, panicked' \in BOOLEAN,
         crashes' \in 0 .. MaxEvents, others' \in 0 .. MaxEvents
  PROVE  Inv'
<1>1. pc' = "down" /\ op' = NoOp /\ cached' = {} /\ stopping' = FALSE /\ start' = Genesis
  BY DEF Die
<1>2. ControlTypes'
  BY <1>1, NoOpTypes, Tree DEF ControlTypes, Phases, Roots
<1>3. StatesValid'
  BY <1>1 DEF StatesValid
<1>4. RewindInv' /\ ReorgInv' /\ SideInv' /\ HeadKept'
  BY <1>1 DEF RewindInv, ReorgInv, SideInv, HeadKept
<1> QED BY <1>2, <1>3, <1>4, InvParts

\* A block is chosen to be the head: the blocks to write are those of its chain
\* that are not on the chain of the head.
LEMMA MakeHeadReorg ==
  ASSUME Inv, NEW b \in Blocks, NEW mode \in Modes, MakeHead(b, mode),
         Parent[b] = headBlock \/ ~Impossible(headBlock, b),
         op.todo # {}, b \in db', headBlock' = headBlock, HasState(b)'
  PROVE  /\ op' \in Ops /\ pc' = "reorg" /\ ReorgInv' /\ op'.block = b
         /\ op'.todo = Rest(op.todo) /\ op'.mode = mode /\ op'.finality = op.finality
         /\ Path[b] \ Left' = Path[b] \cap Path[headBlock]
         /\ UNCHANGED <<stopping, start, clean, panicked>>
<1> DEFINE T == IF Parent[b] = headBlock THEN {} ELSE NewChain(headBlock, b) \ {b}
           a == IF Parent[b] = headBlock THEN None ELSE headBlock
<1>1. /\ pc' = "reorg" /\ UNCHANGED <<stopping, start, clean, panicked>>
      /\ op' = [op EXCEPT !.todo = Rest(op.todo), !.mode = mode, !.block = b,
                          !.old = a, !.newChain = T]
  BY DEF MakeHead, history
<1>2. b \in All /\ headBlock \in All /\ op \in Ops /\ Rest(op.todo) \subseteq Blocks
      /\ Path[b] \subseteq All /\ Path[headBlock] \subseteq All
  BY Types, OpTypes, FirstTodo, Tree, PathClosed
<1>3. T \subseteq Path[b] \ {b} /\ T \subseteq Blocks
  <2>1. NewChain(headBlock, b) \subseteq Path[b] \ Path[headBlock]
    BY DEF NewChain
  <2>2. Genesis \in Path[headBlock]
    BY <1>2, PathRoot
  <2> QED BY <2>1, <2>2, <1>2 DEF All
<1>4. b \notin Path[headBlock]
  <2>1. CASE Parent[b] = headBlock
    <3>1. /\ Number[headBlock] \in Nat /\ Number[b] = Number[headBlock] + 1
          /\ Number[b] \in Nat
      BY <2>1, <1>2, Tree
    <3>2. b # headBlock /\ ~(Number[b] < Number[headBlock])
      BY <3>1
    <3> QED BY <3>2, <1>2, PathLower
  <2>2. CASE ~Impossible(headBlock, b)
    BY <2>2, <1>2, PathTrans DEF Impossible, NewChain
  <2> QED BY <2>1, <2>2
<1>5. /\ Path[b] \ (T \cup {b}) = Path[b] \cap Path[headBlock]
      /\ T \cup {b} = Path[b] \ Path[headBlock]
  <2>1. CASE Parent[b] = headBlock
    <3>1. Path[b] = Path[headBlock] \cup {b} /\ T = {}
      BY <2>1, PathStep
    <3> QED BY <3>1, <1>4
  <2>2. CASE Parent[b] # headBlock
    <3>1. T = (Path[b] \ Path[headBlock]) \ {b} /\ b \in Path[b]
      BY <2>2, <1>2, PathClosed DEF NewChain
    <3> QED BY <3>1, <1>4
  <2> QED BY <2>1, <2>2
<1>6. \A c \in Path[b] \cap Path[headBlock], d \in Path[b] \ Path[headBlock] :
        Number[c] < Number[d]
  <2>1. SUFFICES ASSUME NEW c \in Path[b] \cap Path[headBlock],
                        NEW d \in Path[b] \ Path[headBlock],
                        ~(Number[c] < Number[d])
                 PROVE  FALSE
    OBVIOUS
  <2>2. Number[d] <= Number[c]
    BY <2>1, <1>2, Tree
  <2>3. d \in Path[c]
    BY <2>2, <1>2, PathLinear
  <2> QED BY <2>3, <1>2, PathTrans
<1>7. /\ op' \in Ops /\ op'.block = b /\ op'.newChain = T
      /\ op'.todo = Rest(op.todo) /\ op'.mode = mode /\ op'.finality = op.finality
  <2>1. a \in All \cup {None}
    BY <1>2
  <2> HIDE DEF T, a
  <2>2. op' \in Ops
    BY <2>1, <1>1, <1>2, <1>3, OpSteps
  <2> QED BY <2>2, <1>1, <1>2 DEF Ops
<1> HIDE DEF T
<1>8. Left' = T \cup {b}
  BY <1>7 DEF Left
<1>9. ReorgInv'
  BY <1>1, <1>3, <1>5, <1>6, <1>7, <1>8 DEF ReorgInv, HasState
<1> QED BY <1>1, <1>5, <1>7, <1>8, <1>9

\* A block with a state and with its parent is made the head, or the process
\* ends; db', saved' and cached' are what it has written before.
LEMMA MakeHeadInv ==
  ASSUME Inv, NEW b \in Blocks, NEW mode \in Modes, NEW states \in SUBSET All,
         MakeHeadOrPanic(b, mode, states), op.todo # {}, pc = "insert",
         IndexInv', UNCHANGED <<canon, headBlock, headHeader, lookup, crashes, others>>,
         b \in db', Root[b] \in saved' \cup Roots(states), saved \subseteq saved',
         \A c \in states : Sound(c),
         \A r \in saved' : \E c \in All : Sound(c) /\ Root[c] = r
  PROVE  Inv'
<1>1. CASE Parent[b] # headBlock /\ Impossible(headBlock, b)
  <2>1. Die /\ panicked' = TRUE /\ clean' = None
    BY <1>1 DEF MakeHeadOrPanic, Panic
  <2>2. CleanInv'
    BY <2>1 DEF CleanInv
  <2> QED BY <2>1, <2>2, InvParts, Types, DieInv
<1>2. CASE ~(Parent[b] # headBlock /\ Impossible(headBlock, b))
  <2>1. MakeHead(b, mode) /\ cached' = states
    BY <1>2 DEF MakeHeadOrPanic
  <2>2. /\ op' \in Ops /\ pc' = "reorg" /\ ReorgInv'
        /\ UNCHANGED <<stopping, start, clean, panicked>>
    BY <2>1, <1>2, MakeHeadReorg DEF HasState
  <2>3. ControlTypes'
    BY <2>1, <2>2, InvParts DEF ControlTypes, Phases, Roots
  <2>4. StatesValid'
    BY <2>1, InvParts DEF StatesValid
  <2>5. RewindInv' /\ SideInv' /\ HeadKept'
    BY <2>2 DEF RewindInv, SideInv, HeadKept
  <2>6. CleanInv'
    BY <2>2 DEF CleanInv, Inv
  <2> QED BY <2>2, <2>3, <2>4, <2>5, <2>6, InvParts
<1> QED BY <1>1, <1>2

\* A known block becomes the head.
LEMMA WriteKnownInv ==
  ASSUME Inv, WriteKnown
  PROVE  Inv'
<1> DEFINE b == First(op.todo)
<1>1. /\ pc = "insert" /\ b \in Blocks /\ op.todo # {} /\ b \in db /\ HasState(b)
  BY Verdicts DEF WriteKnown, HasBlockAndState, Inserting
<1>2. /\ MakeHeadOrPanic(b, KnownMode, cached)
      /\ UNCHANGED <<db, canon, headBlock, headHeader, lookup, saved, crashes, others>>
  BY DEF WriteKnown, index, bounds
<1>3. KnownMode \in Modes
  BY Types, OpTypes DEF KnownMode, Modes
<1>4. IndexInv'
  BY <1>2, InvParts, IndexKept
<1>5. cached \subseteq All
  BY Types
<1> HIDE DEF b
<1> QED BY <1>1, <1>2, <1>3, <1>4, <1>5, MakeHeadInv DEF HasState, Inv, StatesValid

\* The states after a block is executed: its own is new, some are written to
\* disk, and those in memory go by their number.
LEMMA Collecting ==
  ASSUME Inv, NEW b \in Blocks, HasBlockAndState(Parent[b]), b \notin Invalid,
         WriteBlock(b)
  PROVE  /\ b \in Collected(b) /\ Collected(b) \subseteq cached \cup {b}
         /\ Collected(b) \subseteq All
         /\ \A c \in cached \ Collected(b) : Number[b] >= Number[c] + TriesInMemory
         /\ saved \subseteq saved' /\ db' = db \cup {b}
         /\ \A c \in Collected(b) : Sound(c)
         /\ \A r \in saved' : \E c \in All : Sound(c) /\ Root[c] = r
<1>1. b \in All /\ Number[b] \in Nat /\ TriesInMemory \in Nat \ {0} /\ cached \subseteq All
      /\ \A c \in cached : Number[c] \in Nat
  BY Tree, Types
<1>2. b \in Collected(b) /\ Collected(b) \subseteq cached \cup {b}
  BY <1>1 DEF Collected
<1>3. \A c \in cached \ Collected(b) : Number[b] >= Number[c] + TriesInMemory
  BY <1>1 DEF Collected
<1>4. /\ saved \subseteq saved' /\ saved' \subseteq saved \cup Roots(cached \cup {b})
      /\ db' = db \cup {b}
  BY DEF WriteBlock, Flushed
<1>5. Sound(b)
  <2>1. Path[Parent[b]] \cap Unmasked = {}
    BY StateSound, Tree DEF HasBlockAndState
  <2> QED BY <2>1, PathStep DEF Sound, Unmasked
<1>6. /\ \A c \in Collected(b) : Sound(c)
      /\ \A r \in saved' : \E c \in All : Sound(c) /\ Root[c] = r
  BY <1>1, <1>2, <1>4, <1>5 DEF Inv, StatesValid, Roots
<1> QED BY <1>1, <1>2, <1>3, <1>4, <1>6

\* A block is executed.
LEMMA ExecuteInv ==
  ASSUME Inv, Execute
  PROVE  Inv'
<1> DEFINE b == First(op.todo)
           mode == IF op.mode = "middle" THEN "middle" ELSE "main"
<1>1. /\ pc = "insert" /\ b \in Blocks /\ op.todo # {} /\ HasBlockAndState(Parent[b])
      /\ Rest(op.todo) \subseteq Blocks
  BY Verdicts DEF Execute, Inserting
<1>2. /\ b \notin Invalid /\ WriteBlock(b)
      /\ UNCHANGED <<canon, headBlock, headHeader, lookup, crashes, others>>
      /\ \/ MakeHeadOrPanic(b, mode, Collected(b))
         \/ /\ op' = [op EXCEPT !.todo = Rest(op.todo), !.mode = mode]
            /\ cached' = Collected(b)
            /\ UNCHANGED <<stopping, pc, start, clean, panicked>>
  BY DEF Execute, index, bounds, history
<1>3. mode \in Modes
  BY DEF Modes
<1> HIDE DEF b, mode
<1>4. /\ b \in Collected(b) /\ Collected(b) \subseteq cached \cup {b}
      /\ Collected(b) \subseteq All
      /\ \A c \in cached \ Collected(b) : Number[b] >= Number[c] + TriesInMemory
      /\ saved \subseteq saved' /\ db' = db \cup {b}
      /\ \A c \in Collected(b) : Sound(c)
      /\ \A r \in saved' : \E c \in All : Sound(c) /\ Root[c] = r
  BY <1>1, <1>2, Collecting
<1>5. IndexInv'
  BY <1>1, <1>2, <1>4, InvParts, StoreIndex DEF HasBlockAndState
<1>6. saved' \subseteq Roots(All) /\ Root[b] \in Roots(Collected(b))
  BY <1>4 DEF Roots
<1>7. CASE MakeHeadOrPanic(b, mode, Collected(b))
  BY <1>1, <1>2, <1>3, <1>4, <1>5, <1>6, <1>7, MakeHeadInv
<1>8. CASE /\ op' = [op EXCEPT !.todo = Rest(op.todo), !.mode = mode]
           /\ cached' = Collected(b)
           /\ UNCHANGED <<stopping, pc, start, clean, panicked>>
  <2>1. op' \in Ops
    BY <1>1, <1>3, <1>8, Types, OpSteps
  <2>2. ControlTypes'
    BY <2>1, <1>2, <1>4, <1>6, <1>8, InvParts DEF ControlTypes
  <2>3. StatesValid'
    BY <1>4, <1>8, InvParts DEF StatesValid
  <2>4. HeadKept'
    <3>1. CASE Root[headBlock] \in saved
      BY <3>1, <1>2, <1>4 DEF HeadKept, HasState
    <3>2. ASSUME NEW c \in cached, Root[c] = Root[headBlock]
          PROVE  HeadKept'
      <4>1. CASE c \in Collected(b)
        BY <4>1, <3>2, <1>2, <1>8 DEF HeadKept, HasState, Roots
      <4>2. CASE c \notin Collected(b)
        <5>1. Number[b] >= Number[c] + TriesInMemory /\ c \in All
          BY <4>2, <1>4, Types
        <5> QED BY <5>1, <3>2, <1>2, <1>4, <1>8 DEF HeadKept, Outgrown
      <4> QED BY <4>1, <4>2
    <3>3. ASSUME NEW d \in cached, NEW c \in All, Root[c] = Root[headBlock],
                 Number[d] >= Number[c] + TriesInMemory
          PROVE  HeadKept'
      <4>1. /\ Number[c] \in Nat /\ Number[d] \in Nat /\ Number[b] \in Nat
            /\ TriesInMemory \in Nat
        BY <1>1, Types, Tree
      <4>2. CASE d \in Collected(b)
        BY <4>2, <3>3, <1>2, <1>8 DEF HeadKept, Outgrown
      <4>3. CASE d \notin Collected(b)
        <5>1. Number[b] >= Number[c] + TriesInMemory
          BY <4>1, <4>3, <3>3, <1>4
        <5> QED BY <5>1, <3>3, <1>2, <1>4, <1>8 DEF HeadKept, Outgrown
      <4> QED BY <4>2, <4>3
    <3> QED BY <3>1, <3>2, <3>3, <1>1, InvParts DEF HeadKept, HasState, Roots, Outgrown
  <2>5. RewindInv' /\ SideInv' /\ ReorgInv' /\ CleanInv'
    BY <1>1, <1>2, <1>8, InvParts DEF RewindInv, SideInv, ReorgInv, CleanInv
  <2> QED BY <2>2, <2>3, <2>4, <2>5, <1>5, InvParts
<1> QED BY <1>2, <1>7, <1>8

\* insertSideChain stores a block.
LEMMA StoreSideInv ==
  ASSUME Inv, StoreSide
  PROVE  Inv'
<1> DEFINE b == First(op.todo)
<1>1. /\ op.todo # {} /\ Verdict(b) = "pruned" /\ pc \in {"side", "insert"}
      /\ pc' = "side" /\ db' = db \cup {b}
      /\ op' = [op EXCEPT !.todo = Rest(op.todo), !.previous = b]
      /\ UNCHANGED <<canon, headBlock, headHeader, lookup, saved, cached, stopping,
                     start, clean, panicked, crashes, others>>
  BY DEF StoreSide, Storing, index, history, bounds
<1>2. b \in Blocks /\ b \in All /\ Rest(op.todo) \subseteq Blocks /\ op \in Ops
  BY <1>1, Types, OpTypes, FirstTodo, Tree
<1>3. Parent[b] \in db
  BY <1>1 DEF Verdict
<1> HIDE DEF b
<1>4. IndexInv'
  BY <1>1, <1>2, <1>3, InvParts, StoreIndex
<1>5. op' \in Ops /\ op'.previous = b
  BY <1>1, <1>2, OpSteps DEF Ops
<1>6. ControlTypes'
  BY <1>1, <1>5, InvParts DEF ControlTypes, Phases
<1>7. StatesValid' /\ HeadKept' /\ CleanInv'
  BY <1>1, InvParts DEF StatesValid, HeadKept, HasState, Outgrown, CleanInv
<1>8. RewindInv' /\ ReorgInv' /\ SideInv'
  BY <1>1, <1>5 DEF RewindInv, ReorgInv, SideInv
<1> QED BY <1>4, <1>6, <1>7, <1>8, InvParts

\* The side chain is inserted again.
LEMMA ReimportInv ==
  ASSUME Inv, Reimport
  PROVE  Inv'
<1> DEFINE a == Stateful(op.previous)
           S == Path[op.previous] \ Path[a]
<1>1. /\ pc = "side" /\ pc' = "insert"
      /\ op' = [NoOp EXCEPT !.todo = S, !.finality = op.finality]
      /\ UNCHANGED <<db, canon, headBlock, headHeader, lookup, saved, cached,
                     stopping, start, clean, panicked, crashes, others>>
  BY DEF Reimport, index, history, bounds
<1>2. op.previous \in All /\ op.finality \in BOOLEAN
  BY <1>1, Types, OpTypes DEF Inv, SideInv
<1>3. a \in All
  BY <1>2, StatefulBlock
<1>4. S \subseteq Blocks
  BY <1>2, <1>3, PathClosed, PathRoot DEF All
<1> HIDE DEF S
<1>5. op' \in Ops
  BY <1>1, <1>2, <1>4, NoOpTypes DEF Ops
<1>6. RewindInv' /\ SideInv'
  BY <1>1 DEF RewindInv, SideInv
<1> QED BY <1>1, <1>5, <1>6, Types, ControlInv DEF Phases

\* The insertion is over.
LEMMA FinishInv ==
  ASSUME Inv, Finish
  PROVE  Inv'
<1>1. /\ pc \in {"insert", "side"} /\ pc' = "idle" /\ op' = NoOp /\ start' = Genesis
      /\ UNCHANGED <<db, canon, headBlock, headHeader, lookup, saved, cached,
                     stopping, clean, panicked, crashes, others>>
  BY DEF Finish, Over, Storing, Inserting, index, bounds
<1>2. RewindInv' /\ SideInv'
  BY <1>1 DEF RewindInv, SideInv
<1> QED BY <1>1, <1>2, NoOpTypes, Tree, Types, ControlInv DEF Phases

-----------------------------------------------------------------------------
(* Reorganisations                                                         *)

\* A step of a reorganisation.
LEMMA ReorgStep ==
  ASSUME Inv, pc = "reorg", IndexInv', op' \in Ops, pc' \in {"reorg", "insert"}, ReorgInv',
         pc' = "insert" => HasState(headBlock'),
         UNCHANGED <<saved, cached, stopping, start, clean, panicked, crashes, others>>
  PROVE  Inv'
<1>1. ControlTypes'
  BY InvParts DEF ControlTypes, Phases
<1>2. StatesValid'
  BY InvParts DEF StatesValid
<1>3. HeadKept' /\ RewindInv' /\ SideInv' /\ CleanInv'
  BY InvParts DEF HeadKept, HasState, RewindInv, SideInv, CleanInv
<1> QED BY <1>1, <1>2, <1>3, InvParts

\* The first of the blocks that are left: its parent is canonical.
LEMMA FirstLeft ==
  ASSUME Inv, pc = "reorg", NEW x \in Left, \A d \in Left : Number[x] <= Number[d]
  PROVE  /\ x \in Blocks /\ x \in db /\ x \notin Unmasked /\ x \in Path[op.block]
         /\ Parent[x] \in Path[headBlock] /\ x \notin Path[headBlock]
         /\ op.block \in All /\ op.block \in Blocks /\ Left \subseteq Path[op.block]
<1>1. /\ op.block \in db /\ op.block \in Blocks /\ op.block \in All
      /\ HasState(op.block) /\ op.newChain \subseteq Path[op.block]
      /\ Path[op.block] \ Left \subseteq Path[headBlock]
      /\ Left \cap Path[headBlock] = {}
  BY Tree DEF Inv, ReorgInv
<1>2. Left \subseteq Path[op.block]
  BY <1>1, PathClosed DEF Left
<1>3. x \in Path[op.block] /\ x \notin Path[headBlock]
  BY <1>1, <1>2
<1>4. x # Genesis
  BY <1>3, PathRoot, Types
<1>5. x \in Blocks /\ Parent[x] \in Path[op.block]
  BY <1>1, <1>3, <1>4, PathClosed
<1>6. Parent[x] \notin Left
  <2>1. Number[x] = Number[Parent[x]] + 1 /\ Number[Parent[x]] \in Nat
    BY <1>5, Tree
  <2>2. ~(Number[x] <= Number[Parent[x]])
    BY <2>1
  <2> QED BY <2>2
<1>7. x \in db
  BY <1>1, <1>3, Types, PathInDb DEF Inv
<1>8. x \notin Unmasked
  BY <1>1, <1>3, StateSound
<1> QED BY <1>1, <1>2, <1>3, <1>5, <1>6, <1>7, <1>8

\* A block of the new chain is written.
LEMMA ReorgWriteInv ==
  ASSUME Inv, ReorgWrite
  PROVE  Inv'
<1> DEFINE x == First(op.newChain)
           b == op.block
<1>1. /\ pc = "reorg" /\ op.newChain # {} /\ writeHeadBlock(x)
      /\ op' = [op EXCEPT !.newChain = Rest(op.newChain)]
      /\ UNCHANGED <<db, saved, cached, stopping, pc, start, clean, panicked,
                     crashes, others>>
  BY DEF ReorgWrite, history, bounds
<1>2. op \in Ops /\ op.newChain \in SUBSET Blocks
  BY Types, OpTypes
<1>3. /\ x \in op.newChain /\ \A d \in op.newChain : Number[x] <= Number[d]
      /\ Rest(op.newChain) = op.newChain \ {x}
  BY <1>1, <1>2, FirstBlock, Tree DEF Rest
<1>4. op' \in Ops /\ op'.block = b /\ op'.newChain = op.newChain \ {x}
  BY <1>1, <1>2, <1>3, OpSteps DEF Ops
<1> HIDE DEF x, b
<1>5. /\ b \in db \cap Blocks /\ HasState(b) /\ b \in All
      /\ op.newChain \subseteq Path[b] \ {b}
      /\ \A c \in Path[b] \ Left, d \in Left : Number[c] < Number[d]
  BY <1>1, Tree DEF Inv, ReorgInv, b
<1>6. Number[x] < Number[b] /\ Number[x] \in Nat /\ Number[b] \in Nat /\ x \in All
  BY <1>3, <1>5, PathLower, PathClosed, Tree
<1>7. Left = op.newChain \cup {b} /\ Left' = (op.newChain \ {x}) \cup {b}
  BY <1>4 DEF Left, b
<1>8. x \in Left /\ \A d \in Left : Number[x] <= Number[d]
  BY <1>3, <1>6, <1>7
<1>9. /\ x \in Blocks /\ x \in db /\ x \notin Unmasked /\ x \in Path[b]
      /\ Parent[x] \in Path[headBlock] /\ x \notin Path[headBlock]
      /\ Left \subseteq Path[b]
  BY <1>1, <1>8, FirstLeft DEF b
<1>10. IndexInv' /\ headBlock' = x
  BY <1>1, <1>9, InvParts, WriteHeadIndex DEF writeHeadBlock
<1>11. x \in Path[x]
  BY <1>6, PathClosed
<1>12. \A d \in Left' : d # x /\ d \in Left /\ d \in All /\ Number[d] \in Nat
  BY <1>5, <1>6, <1>7, <1>9, PathClosed, Tree
<1>13. \A d \in Left' : Number[x] < Number[d]
  <2>1. SUFFICES ASSUME NEW d \in Left' PROVE Number[x] < Number[d]
    OBVIOUS
  <2>2. Number[x] # Number[d]
    BY <1>5, <1>9, <1>12, PathNumber
  <2> QED BY <2>2, <1>6, <1>8, <1>12
<1>14. Path[b] \ Left' \subseteq Path[x]
  <2>1. SUFFICES ASSUME NEW c \in Path[b] \ Left', c # x PROVE c \in Path[x]
    BY <1>11
  <2>2. c \in Path[b] \ Left
    BY <2>1, <1>7
  <2>3. Number[c] < Number[x] /\ Number[c] \in Nat
    BY <2>2, <1>5, <1>8, PathClosed, Tree
  <2>4. Number[c] <= Number[x]
    BY <2>3, <1>6
  <2> QED BY <2>4, <1>5, <1>9, PathLinear
<1>15. Left' \cap Path[x] = {}
  <2>1. SUFFICES ASSUME NEW d \in Left', d \in Path[x] PROVE FALSE
    OBVIOUS
  <2>2. Number[d] < Number[x]
    BY <2>1, <1>6, <1>12, PathLower
  <2> QED BY <2>2, <1>6, <1>12, <1>13
<1>16. \A c \in Path[b] \ Left', d \in Left' : Number[c] < Number[d]
  <2>1. \A c \in Path[b] \ Left' : c = x \/ c \in Path[b] \ Left
    BY <1>7
  <2> QED BY <2>1, <1>5, <1>12, <1>13
<1>17. ReorgInv'
  BY <1>1, <1>4, <1>5, <1>10, <1>14, <1>15, <1>16 DEF ReorgInv, HasState
<1> QED BY <1>1, <1>4, <1>10, <1>17, ReorgStep

\* The index above the head is deleted.
LEMMA ReorgDeleteInv ==
  ASSUME Inv, ReorgDelete
  PROVE  Inv'
<1>1. /\ pc = "reorg" /\ op' = [op EXCEPT !.old = None]
      /\ \A t \in Txs : lookup'[t] \in {0, lookup[t]}
      /\ DOMAIN lookup' = Txs /\ lookup' = [t \in Txs |-> lookup'[t]]
      /\ UNCHANGED <<db, headBlock, headHeader, saved, cached, stopping, pc,
                     start, clean, panicked, crashes, others>>
  BY DEF ReorgDelete, history, bounds
<1>2. /\ canon' = [n \in Numbers |-> canon'[n]]
      /\ \A n \in Numbers :
           canon'[n] = canon[n] \/ (n > Number[headBlock] /\ canon'[n] = None)
  BY DEF ReorgDelete
<1>3. op' \in Ops /\ op'.block = op.block /\ op'.newChain = op.newChain
  BY <1>1, Types, OpSteps DEF Ops
<1>4. canon' \in [Numbers -> All \cup {None}] /\ lookup' \in [Txs -> Numbers]
  <2>1. \A n \in Numbers : canon'[n] \in All \cup {None}
    BY <1>2, Types
  <2>2. \A t \in Txs : lookup'[t] \in Numbers
    BY <1>1, Types, Tree
  <2> QED BY <2>1, <2>2, <1>1, <1>2
<1>5. headBlock \in All /\ headHeader \in All /\ Number[headBlock] \in Nat
  BY Types, Tree
<1>6. CanonicalChain'
  <2>1. \A c \in Path[headBlock] : /\ Number[c] \in Numbers
                                   /\ ~(Number[c] > Number[headBlock])
    BY <1>5, PathClosed, PathLower, Tree
  <2> QED BY <2>1, <1>1, <1>2 DEF Inv, CanonicalChain
<1>7. HeaderInv'
  <2>1. \A c \in Path[headHeader] : Number[c] \in Numbers /\ Number[c] \in Nat
    BY <1>5, PathClosed, Tree
  <2>2. \A c \in Path[headHeader] :
          /\ canon[Number[c]] \in {c, None}
          /\ Number[c] <= Number[headBlock] => canon[Number[c]] = c
    BY DEF Inv, HeaderInv
  <2>3. ASSUME NEW c \in Path[headHeader]
        PROVE  /\ canon'[Number[c]] \in {c, None}
               /\ Number[c] <= Number[headBlock] => canon'[Number[c]] = c
    BY <2>1, <2>2, <1>2, <1>5
  <2> QED BY <2>3, <1>1 DEF HeaderInv
<1>8. InvalidNeverCanonical' /\ Linked'
  BY <1>1, <1>2, GenesisSound DEF Inv, InvalidNeverCanonical, Linked
<1>9. IndexInv'
  BY <1>1, <1>4, <1>6, <1>7, <1>8, Types DEF IndexInv
<1>10. ReorgInv'
  BY <1>1, <1>3 DEF Inv, ReorgInv, Left, HasState
<1> QED BY <1>1, <1>3, <1>9, <1>10, ReorgStep

\* The last block is written.
LEMMA WriteHeadInv ==
  ASSUME Inv, WriteHead
  PROVE  Inv'
<1>1. /\ pc = "reorg" /\ op.newChain = {} /\ writeHeadBlock(op.block)
      /\ pc' = "insert" /\ op' = [op EXCEPT !.block = None]
      /\ UNCHANGED <<db, saved, cached, stopping, start, clean, panicked,
                     crashes, others>>
  BY DEF WriteHead, history, bounds
<1>2. Left = {op.block}
  BY <1>1 DEF Left
<1>3. Number[op.block] \in Nat /\ HasState(op.block)
  BY <1>1, Tree DEF Inv, ReorgInv
<1>4. op.block \in Left /\ \A d \in Left : Number[op.block] <= Number[d]
  BY <1>2, <1>3
<1>5. /\ op.block \in Blocks /\ op.block \in db /\ op.block \notin Unmasked
      /\ Parent[op.block] \in Path[headBlock] /\ op.block \notin Path[headBlock]
  BY <1>1, <1>4, FirstLeft
<1>6. IndexInv' /\ headBlock' = op.block
  BY <1>1, <1>5, InvParts, WriteHeadIndex DEF writeHeadBlock
<1>7. op' \in Ops
  BY <1>1, Types, OpSteps
<1>8. ReorgInv'
  BY <1>1 DEF ReorgInv
<1> QED BY <1>1, <1>3, <1>6, <1>7, <1>8, ReorgStep

-----------------------------------------------------------------------------
(* Rewinds, stops and crashes                                              *)

\* SetHead begins, or takes the head block back to one that has a state.
LEMMA SetHeadInv ==
  ASSUME Inv, NEW n \in Numbers, SetHead(n)
  PROVE  Inv'
<1>1. /\ pc = "idle" /\ others' = others + 1 /\ crashes + others < MaxEvents
      /\ UNCHANGED <<db, canon, headHeader, lookup, saved, cached, stopping, start,
                     clean, panicked, crashes>>
      /\ \/ headBlock' = Stateful(headBlock) /\ UNCHANGED <<pc, op>>
         \/ /\ n < Number[headHeader] /\ headBlock' = headBlock
            /\ pc' = "rewind" /\ op' = [NoOp EXCEPT !.target = n]
  BY DEF SetHead, history
<1>2. others' \in 0 .. MaxEvents
  BY <1>1, Types, BlockChainAssumption
<1>3. CASE headBlock' = Stateful(headBlock) /\ UNCHANGED <<pc, op>>
  <2> DEFINE a == Stateful(headBlock)
  <2>1. a \in Path[headBlock] /\ HasState(a)
    BY Types, StatefulBlock
  <2> HIDE DEF a
  <2>2. IndexInv'
    BY <2>1, <1>1, <1>3, InvParts, BackIndex DEF a
  <2>3. ControlTypes' /\ StatesValid'
    BY <1>1, <1>2, <1>3, InvParts DEF ControlTypes, StatesValid
  <2>4. HeadKept'
    BY <2>1, <1>1, <1>3 DEF HeadKept, HasState, a
  <2>5. RewindInv' /\ ReorgInv' /\ SideInv' /\ CleanInv'
    BY <1>1, <1>3, InvParts DEF RewindInv, ReorgInv, SideInv, CleanInv
  <2> QED BY <2>2, <2>3, <2>4, <2>5, InvParts
<1>4. CASE /\ n < Number[headHeader] /\ headBlock' = headBlock
           /\ pc' = "rewind" /\ op' = [NoOp EXCEPT !.target = n]
  <2>1. op' \in Ops /\ op'.target = n
    BY <1>4, NoOpTypes DEF Ops
  <2>2. ~(Number[headHeader] <= n)
    BY <1>4, Types, Tree
  <2>3. RewindInv' /\ SideInv'
    BY <2>1, <2>2, <1>1, <1>4 DEF RewindInv, SideInv
  <2> QED BY <2>1, <2>3, <1>1, <1>2, <1>4, Types, ControlInv DEF Phases
<1> QED BY <1>1, <1>3, <1>4

\* The markers go back by one block.
LEMMA RewindMarkersInv ==
  ASSUME Inv, RewindMarkers
  PROVE  Inv'
<1> DEFINE p == Parent[headHeader]
<1>1. /\ pc = "rewind" /\ Number[headHeader] > op.target /\ headHeader' = p
      /\ headBlock' = IF Number[p] <= Number[headBlock] THEN Stateful(p) ELSE headBlock
      /\ UNCHANGED <<db, canon, lookup, saved, cached, stopping, pc, op, start,
                     clean, panicked, crashes, others>>
  BY DEF RewindMarkers, history, bounds
<1>2. headHeader \in All /\ headHeader # Genesis /\ headHeader \in Blocks /\ headBlock \in All
  <2>1. op.target \in Nat /\ headHeader \in All /\ headBlock \in All
    BY Types, OpTypes, Tree
  <2>2. headHeader # Genesis
    BY <2>1, <1>1, Tree
  <2> QED BY <2>1, <2>2 DEF All
<1>3. /\ p \in Path[headHeader] /\ p \in All /\ p \in db
      /\ Number[p] \in Nat /\ Number[headBlock] \in Nat
  BY <1>2, PathStep, Tree, Types DEF Inv, Linked
<1>4. Path[p] \subseteq Path[headHeader]
  BY <1>2, <1>3, PathTrans
<1> HIDE DEF p
<1>5. ControlTypes' /\ StatesValid'
  BY <1>1, InvParts DEF ControlTypes, StatesValid
<1>6. ReorgInv' /\ SideInv' /\ CleanInv'
  BY <1>1, InvParts DEF ReorgInv, SideInv, CleanInv
<1>7. CASE Number[p] <= Number[headBlock]
  <2> DEFINE a == Stateful(p)
  <2>1. headBlock' = a /\ a \in Path[p] /\ HasState(a) /\ a \in All
    BY <1>1, <1>3, <1>7, StatefulBlock
  <2> HIDE DEF a
  <2>2. Path[a] \subseteq Path[p] /\ Number[a] \in Nat /\ Number[a] <= Number[p]
    BY <2>1, <1>3, PathTrans, PathLower, Tree
  <2>3. \A c \in Path[p] : /\ Number[c] \in Nat /\ Number[c] <= Number[headBlock]
                           /\ canon[Number[c]] = c
    <3>1. SUFFICES ASSUME NEW c \in Path[p]
                   PROVE  /\ Number[c] \in Nat /\ Number[c] <= Number[headBlock]
                          /\ canon[Number[c]] = c
      OBVIOUS
    <3>2. Number[c] \in Nat /\ Number[c] <= Number[p]
      BY <1>3, PathClosed, PathLower, Tree
    <3>3. Number[c] <= Number[headBlock]
      BY <3>2, <1>3, <1>7
    <3> QED BY <3>2, <3>3, <1>4 DEF Inv, HeaderInv
  <2>4. Path[p] \subseteq db
    BY <1>3, Types, PathInDb DEF Inv
  <2>5. CanonicalChain'
    BY <2>1, <2>2, <2>3, <2>4, <1>1 DEF CanonicalChain
  <2>6. HeaderInv'
    BY <2>1, <2>3, <1>1 DEF HeaderInv
  <2>7. IndexInv'
    BY <2>1, <2>4, <2>5, <2>6, <1>1, <1>3, InvParts
       DEF IndexInv, InvalidNeverCanonical, Linked
  <2>8. RewindInv' /\ HeadKept'
    BY <2>1, <2>2, <1>1 DEF RewindInv, HeadKept, HasState
  <2> QED BY <2>7, <2>8, <1>5, <1>6, InvParts
<1>8. CASE ~(Number[p] <= Number[headBlock])
  <2>1. headBlock' = headBlock
    BY <1>1, <1>8
  <2>2. HeaderInv'
    BY <2>1, <1>1, <1>4 DEF Inv, HeaderInv
  <2>3. CanonicalChain'
    BY <2>1, <1>1 DEF Inv, CanonicalChain
  <2>4. IndexInv'
    BY <2>1, <2>2, <2>3, <1>1, <1>3, InvParts
       DEF IndexInv, InvalidNeverCanonical, Linked
  <2>5. Number[headBlock] <= Number[p]
    BY <1>3, <1>8
  <2>6. RewindInv' /\ HeadKept'
    BY <2>1, <2>5, <1>1 DEF Inv, RewindInv, HeadKept, HasState, Outgrown
  <2> QED BY <2>4, <2>6, <1>5, <1>6, InvParts
<1> QED BY <1>7, <1>8

\* What lies above the new head is deleted.
LEMMA RewindDeleteInv ==
  ASSUME Inv, RewindDelete
  PROVE  Inv'
<1> DEFINE n == op.target
<1>1. /\ pc = "rewind" /\ Number[headHeader] <= n
      /\ db' = {b \in db : Number[b] <= n}
      /\ canon' = [m \in Numbers |-> IF m > n THEN None ELSE canon[m]]
      /\ pc' = "idle" /\ op' = NoOp
      /\ UNCHANGED <<headBlock, headHeader, lookup, saved, cached, stopping,
                     start, clean, panicked, crashes, others>>
  BY DEF RewindDelete, history, bounds
<1>2. /\ n \in Nat /\ headBlock \in All /\ headHeader \in All
      /\ Number[headBlock] \in Nat /\ Number[headHeader] \in Nat
  BY Types, OpTypes, Tree
<1>3. Number[headBlock] <= Number[headHeader]
  BY <1>1 DEF Inv, RewindInv
<1> HIDE DEF n
<1>4. \A c \in Path[headBlock] \cup Path[headHeader] :
        Number[c] \in Numbers /\ Number[c] <= n /\ ~(Number[c] > n)
  <2>1. \A c \in Path[headBlock] : Number[c] \in Nat /\ Number[c] <= Number[headBlock]
    BY <1>2, PathClosed, PathLower, Tree
  <2>2. \A c \in Path[headHeader] : Number[c] \in Nat /\ Number[c] <= Number[headHeader]
    BY <1>2, PathClosed, PathLower, Tree
  <2>3. \A c \in Path[headBlock] \cup Path[headHeader] : Number[c] \in Numbers
    BY <1>2, PathClosed, Tree
  <2> QED BY <2>1, <2>2, <2>3, <1>1, <1>2, <1>3
<1>5. \A c \in Path[headBlock] \cup Path[headHeader] : canon'[Number[c]] = canon[Number[c]]
  BY <1>1, <1>4
<1>6. CanonicalChain' /\ HeaderInv'
  BY <1>1, <1>4, <1>5 DEF Inv, CanonicalChain, HeaderInv
<1>7. Linked'
  <2>1. SUFFICES ASSUME NEW b \in db' \cap Blocks PROVE Parent[b] \in db'
    BY DEF Linked
  <2>2. b \in db /\ Number[b] <= n /\ Parent[b] \in db
    BY <1>1 DEF Inv, Linked
  <2>3. Number[Parent[b]] <= n
    BY <2>2, <1>2, Tree
  <2> QED BY <2>2, <2>3, <1>1
<1>8. InvalidNeverCanonical'
  <2>1. \A m \in Numbers : canon'[m] \in {canon[m], None}
    BY <1>1
  <2> QED BY <2>1, GenesisSound DEF Inv, InvalidNeverCanonical
<1>9. headBlock \in db' /\ headHeader \in db' /\ Genesis \in db' /\ db' \subseteq All
  BY <1>1, <1>2, <1>3, Types, Tree
<1>10. canon' \in [Numbers -> All \cup {None}]
  BY <1>1, Types
<1>11. IndexInv'
  BY <1>1, <1>6, <1>7, <1>8, <1>9, <1>10, Types DEF IndexInv
<1>12. ControlTypes' /\ StatesValid' /\ HeadKept'
  BY <1>1, NoOpTypes, InvParts
     DEF ControlTypes, StatesValid, HeadKept, HasState, Outgrown, Phases
<1>13. RewindInv' /\ ReorgInv' /\ SideInv' /\ CleanInv'
  BY <1>1, InvParts DEF RewindInv, ReorgInv, SideInv, CleanInv
<1> QED BY <1>11, <1>12, <1>13, InvParts

\* procInterrupt is set.
LEMMA StopInsertInv ==
  ASSUME Inv, StopInsert
  PROVE  Inv'
<1>1. /\ stopping' = TRUE /\ others' = others + 1 /\ crashes + others < MaxEvents
      /\ UNCHANGED <<db, canon, headBlock, headHeader, lookup, saved, cached, pc, op,
                     start, clean, panicked, crashes>>
  BY DEF StopInsert, index, history
<1>2. others' \in 0 .. MaxEvents
  BY <1>1, Types, BlockChainAssumption
<1>3. IndexInv'
  BY <1>1, InvParts, IndexKept
<1>4. ControlTypes' /\ StatesValid' /\ HeadKept'
  BY <1>1, <1>2, InvParts DEF ControlTypes, StatesValid, HeadKept, HasState, Outgrown
<1>5. RewindInv' /\ SideInv' /\ CleanInv'
  BY <1>1, InvParts DEF RewindInv, SideInv, CleanInv
<1>6. ReorgInv'
  BY <1>1, InvParts DEF ReorgInv, Left, HasState
<1> QED BY <1>3, <1>4, <1>5, <1>6, InvParts

\* The node is stopped in order, and the state of the head is written; or some
\* states are written while a rewind goes on.
LEMMA StopInv ==
  ASSUME Inv, Stop
  PROVE  Inv'
<1> DEFINE S == {canon[Number[headBlock] - o] :
                   o \in {q \in Offsets : Number[headBlock] > q}}
<1>1. /\ saved' = saved \cup (Roots(cached) \cap Roots(S))
      /\ UNCHANGED <<db, canon, headBlock, headHeader, lookup, panicked, crashes, others>>
      /\ \/ Die /\ clean' = IF HasState(headBlock) THEN headBlock ELSE None
         \/ UNCHANGED <<pc, op, cached, stopping, start, clean>>
      /\ pc \in {"idle", "rewind"}
  BY DEF Stop, index, bounds
<1>2. IndexInv'
  BY <1>1, InvParts, IndexKept
<1>3. HasState(headBlock) => Root[headBlock] \in saved'
  <2>1. CASE headBlock = Genesis
    BY <2>1, <1>1 DEF Inv, StatesValid
  <2>2. CASE headBlock # Genesis
    <3>1. /\ headBlock \in Blocks /\ Number[headBlock] \in Nat
          /\ Number[Parent[headBlock]] \in Nat
          /\ Number[headBlock] = Number[Parent[headBlock]] + 1
      BY <2>2, Types, Tree DEF All
    <3>2. Number[headBlock] > 0 /\ Number[headBlock] - 0 = Number[headBlock]
      BY <3>1
    <3>3. canon[Number[headBlock]] = headBlock
      BY Types, PathClosed DEF Inv, CanonicalChain
    <3>4. headBlock \in S
      BY <3>2, <3>3 DEF Offsets
    <3>5. Root[headBlock] \in Roots(S)
      BY <3>4 DEF Roots
    <3> QED BY <3>5, <1>1 DEF HasState
  <2> QED BY <2>1, <2>2
<1> HIDE DEF S
<1>4. /\ saved \subseteq saved' /\ saved' \subseteq Roots(All)
      /\ \A r \in saved' : \E c \in All : Sound(c) /\ Root[c] = r
  BY <1>1, Types DEF Inv, StatesValid, Roots
<1>5. CASE Die /\ clean' = IF HasState(headBlock) THEN headBlock ELSE None
  <2>1. CleanInv' /\ clean' \in All \cup {None}
    BY <1>1, <1>3, <1>5, Types DEF CleanInv, Die
  <2> QED BY <2>1, <1>1, <1>2, <1>4, <1>5, InvParts, Types, DieInv
<1>6. CASE UNCHANGED <<pc, op, cached, stopping, start, clean>>
  <2>1. ControlTypes' /\ StatesValid'
    BY <1>1, <1>4, <1>6, InvParts DEF ControlTypes, StatesValid
  <2>2. HeadKept'
    BY <1>1, <1>4, <1>6, InvParts DEF HeadKept, HasState, Outgrown
  <2>3. RewindInv' /\ ReorgInv' /\ SideInv' /\ CleanInv'
    BY <1>1, <1>6, InvParts DEF RewindInv, ReorgInv, SideInv, CleanInv
  <2> QED BY <2>1, <2>2, <2>3, <1>2, InvParts
<1> QED BY <1>1, <1>5, <1>6

\* A crash.
LEMMA CrashInv ==
  ASSUME Inv, Crash
  PROVE  Inv'
<1>1. /\ Die /\ clean' = None /\ crashes' = crashes + 1 /\ crashes + others < MaxEvents
      /\ UNCHANGED <<db, canon, headBlock, headHeader, lookup, saved, panicked, others>>
  BY DEF Crash, index
<1>2. IndexInv'
  BY <1>1, InvParts, IndexKept
<1>3. crashes' \in 0 .. MaxEvents
  BY <1>1, Types, BlockChainAssumption
<1>4. CleanInv'
  BY <1>1 DEF CleanInv
<1> QED BY <1>1, <1>2, <1>3, <1>4, InvParts, Types, DieInv DEF StatesValid

\* The node starts.
LEMMA NewBlockChainInv ==
  ASSUME Inv, NewBlockChain
  PROVE  Inv' /\ (clean # None => headBlock' = clean)
<1>1. /\ pc = "down" /\ headBlock' = Stateful(headBlock) /\ pc' = "idle"
      /\ clean' = None /\ panicked' = FALSE
      /\ UNCHANGED <<db, canon, headHeader, lookup, saved, cached, stopping, op,
                     start, crashes, others>>
  BY DEF NewBlockChain, bounds
<1> DEFINE a == Stateful(headBlock)
<1>2. a \in Path[headBlock] /\ HasState(a) /\ (HasState(headBlock) => a = headBlock)
  BY Types, StatefulBlock
<1> HIDE DEF a
<1>3. IndexInv'
  BY <1>1, <1>2, InvParts, BackIndex DEF a
<1>4. ControlTypes' /\ StatesValid'
  BY <1>1, InvParts DEF ControlTypes, StatesValid, Phases
<1>5. HeadKept'
  BY <1>1, <1>2 DEF HeadKept, HasState, a
<1>6. RewindInv' /\ ReorgInv' /\ SideInv' /\ CleanInv'
  BY <1>1 DEF RewindInv, ReorgInv, SideInv, CleanInv
<1>7. clean # None => headBlock' = clean
  BY <1>1, <1>2 DEF Inv, CleanInv, HasState, a
<1> QED BY <1>3, <1>4, <1>5, <1>6, <1>7, InvParts

-----------------------------------------------------------------------------
(* The invariant                                                           *)

\* The node begins with the first block.
LEMMA InitInv ==
  ASSUME Init
  PROVE  Inv
<1>1. /\ db = {Genesis} /\ canon = [n \in Numbers |-> IF n = 0 THEN Genesis ELSE None]
      /\ headBlock = Genesis /\ headHeader = Genesis
      /\ lookup = [t \in Txs |-> 0] /\ saved = Roots({Genesis}) /\ cached = {}
      /\ stopping = FALSE /\ pc = "idle" /\ op = NoOp /\ start = Genesis
      /\ clean = None /\ panicked = FALSE /\ crashes = 0 /\ others = 0
  BY DEF Init
<1>2. canon[0] = Genesis /\ canon \in [Numbers -> All \cup {None}]
      /\ \A n \in Numbers : canon[n] \in {Genesis, None}
  BY <1>1, Tree
<1>3. Genesis \notin Unmasked /\ None \notin Unmasked
  BY GenesisSound
<1>4. CanonicalChain /\ HeaderInv
  BY <1>1, <1>2, PathGenesis, Tree DEF CanonicalChain, HeaderInv
<1>5. InvalidNeverCanonical /\ Linked
  BY <1>1, <1>2, <1>3, Tree DEF InvalidNeverCanonical, Linked
<1>6. IndexInv
  BY <1>1, <1>2, <1>4, <1>5, Tree DEF IndexInv
<1>7. ControlTypes
  <2>1. op \in Ops
    BY <1>1, NoOpTypes
  <2>2. 0 \in 0 .. MaxEvents
    BY BlockChainAssumption
  <2>3. crashes \in 0 .. MaxEvents /\ others \in 0 .. MaxEvents
    BY <2>2, <1>1
  <2>4. /\ saved \subseteq Roots(All) /\ cached \subseteq All /\ pc \in Phases
        /\ start \in All /\ clean \in All \cup {None}
        /\ stopping \in BOOLEAN /\ panicked \in BOOLEAN
    BY <1>1, Tree DEF Phases, Roots
  <2> QED BY <2>1, <2>3, <2>4 DEF ControlTypes
<1>8. StatesValid
  BY <1>1, GenesisSound, Tree DEF StatesValid, Roots
<1>9. RewindInv /\ ReorgInv /\ SideInv /\ HeadKept /\ CleanInv
  BY <1>1 DEF RewindInv, ReorgInv, SideInv, HeadKept, CleanInv, HasState, Roots
<1> QED BY <1>6, <1>7, <1>8, <1>9, InvParts

\* Every step keeps the invariant.
LEMMA StepInv ==
  ASSUME Inv, [Next]_vars
  PROVE  Inv'
<1>1. CASE UNCHANGED vars
  <2>1. /\ UNCHANGED <<db, canon, headBlock, headHeader, lookup, saved, cached, pc, op,
                       start, clean, panicked, crashes, others, stopping>>
    BY <1>1 DEF vars, index, history, bounds
  <2>2. IndexInv'
    BY <2>1, InvParts, IndexKept
  <2>3. ControlTypes' /\ StatesValid' /\ HeadKept'
    BY <2>1, InvParts DEF ControlTypes, StatesValid, HeadKept, HasState, Outgrown
  <2>4. RewindInv' /\ SideInv' /\ CleanInv' /\ ReorgInv'
    BY <2>1, InvParts DEF RewindInv, SideInv, CleanInv, ReorgInv, Left, HasState
  <2> QED BY <2>2, <2>3, <2>4, InvParts
<1>2. CASE Insertion
  BY <1>2, IgnoreKnownInv, WriteKnownInv, ExecuteInv, ReorgWriteInv, ReorgDeleteInv,
     WriteHeadInv, StoreSideInv, ReimportInv, FinishInv DEF Insertion
<1>3. CASE \E chain \in Chains, f \in BOOLEAN : InsertChain(chain, f)
  BY <1>3, InsertChainInv
<1>4. CASE \E n \in Numbers : SetHead(n)
  BY <1>4, SetHeadInv
<1>5. CASE \/ RewindMarkers \/ RewindDelete
           \/ StopInsert \/ Stop \/ Crash \/ NewBlockChain
  BY <1>5, RewindMarkersInv, RewindDeleteInv, StopInsertInv, StopInv, CrashInv,
     NewBlockChainInv
<1> QED BY <1>1, <1>2, <1>3, <1>4, <1>5 DEF Next

\* Inv is invariant.
LEMMA AlwaysInv == Spec => []Inv
<1>1. Init => Inv
  BY InitInv
<1>2. Inv /\ [Next]_vars => Inv'
  BY StepInv
<1> QED BY <1>1, <1>2, PTL DEF Spec

\* At every step of an insertion, a reorganisation (reorg, writeHeadBlock) and
\* a rewind (SetHead), and so after a crash between two batches, the canonical
\* index is the chain of the head block, and all of it is in the database.
THEOREM ChainCanonical == Spec => []ChainInv
<1>1. Inv => ChainInv
  BY DEF Inv, ChainInv
<1> QED BY <1>1, AlwaysInv, PTL

\* A block that fails when it is executed never becomes canonical, also when
\* insertSideChain has stored it unexecuted and it is met again later, and also
\* when other blocks share or claim roots that were executed before (HasState asks
\* for a root, not for a block); unless it or a descendant is itself a block that
\* claims the root of another, valid one.
THEOREM ChainValid == Spec => []InvalidNeverCanonical
<1>1. Inv => InvalidNeverCanonical
  BY DEF Inv
<1> QED BY <1>1, AlwaysInv, PTL

\* Between two operations the head has its state, after crashes, rewinds, stops in
\* the middle of one, and garbage collection (writeBlockWithState, Stateful),
\* unless blocks TriesInMemory above it, or above one that shares its state, were
\* executed that did not become the head.
THEOREM ChainHeadHasState == Spec => []HeadHasState
<1>1. Inv => HeadHasState
  BY DEF Inv, HeadKept, HeadHasState
<1> QED BY <1>1, AlwaysInv, PTL

\* A node that was stopped in order and had the state of its head starts with
\* this head: Stop writes the state, and NewBlockChain finds it.
THEOREM ChainCleanRestart == Spec => CleanRestart
<1>1. Inv /\ [Next]_vars => [NewBlockChain /\ clean # None => headBlock' = clean]_vars
  BY NewBlockChainInv
<1> QED BY <1>1, AlwaysInv, PTL DEF Spec, CleanRestart

-----------------------------------------------------------------------------
(* Transactions are found                                                  *)

\* A path has a block of every number up to that of its last block.
LEMMA PathNumbers ==
  ASSUME NEW b \in All, NEW n \in Nat, n <= Number[b]
  PROVE  \E a \in Path[b] : Number[a] = n
<1> DEFINE S == {d \in Path[b] : Number[d] >= n}
           y == First(S)
<1>1. Path[b] \subseteq All /\ b \in Path[b]
  BY PathClosed
<1>2. b \in S /\ S \in SUBSET All
  BY <1>1, Tree
<1>3. y \in S /\ \A c \in S : Number[y] <= Number[c]
  BY <1>2, FirstBlock
<1> HIDE DEF y
<1>4. y \in Path[b] /\ y \in All /\ Number[y] \in Nat /\ Number[y] >= n
  BY <1>1, <1>3, Tree
<1>5. SUFFICES ASSUME Number[y] # n PROVE FALSE
  BY <1>4
<1>6. y # Genesis
  BY <1>4, <1>5, Tree
<1>7. Parent[y] \in Path[b] /\ y \in Blocks
  BY <1>4, <1>6, PathClosed
<1>8. Number[y] = Number[Parent[y]] + 1 /\ Number[Parent[y]] \in Nat
  BY <1>7, Tree
<1>9. Number[Parent[y]] >= n
  BY <1>4, <1>5, <1>8
<1>10. Number[y] <= Number[Parent[y]]
  BY <1>3, <1>7, <1>9
<1> QED BY <1>8, <1>10

\* Different blocks of a path have no transaction in common.
LEMMA PathTxs ==
  ASSUME NEW b \in All, NEW c \in Path[b], NEW d \in Path[b], c # d
  PROVE  TxsOf[c] \cap TxsOf[d] = {} /\ TxsOf[c] \subseteq Txs
<1>1. c \in All
  BY PathClosed
<1> QED BY <1>1, BlockChainAssumption

\* The index of transactions stays, and the head block or goes back.
LEMMA LookupKept ==
  ASSUME LookupInv, pc # "reorg", pc' # "reorg", UNCHANGED <<lookup, crashes>>,
         Path[headBlock'] \subseteq Path[headBlock]
  PROVE  LookupInv'
BY DEF LookupInv, Found

\* writeHeadBlock writes the transactions of a block of the new chain.
LEMMA LookupWrite ==
  ASSUME Inv, NEW b \in All, NEW x \in Path[b], NEW S \in SUBSET Path[b],
         x \notin S, Found(S), writeHeadBlock(x)
  PROVE  \A c \in S \cup {x} : \A t \in TxsOf[c] : lookup'[t] = Number[c]
<1>1. lookup' = [t \in Txs |-> IF t \in TxsOf[x] THEN Number[x] ELSE lookup[t]]
  BY DEF writeHeadBlock
<1>2. \A t \in TxsOf[x] : t \in Txs
  BY PathClosed, BlockChainAssumption
<1>3. \A t \in TxsOf[x] : lookup'[t] = Number[x]
  BY <1>1, <1>2
<1>4. ASSUME NEW c \in S, NEW t \in TxsOf[c]
      PROVE  lookup'[t] = Number[c]
  <2>1. t \notin TxsOf[x] /\ t \in Txs
    BY PathTxs
  <2> QED BY <2>1, <1>1, <1>4 DEF Found
<1> QED BY <1>3, <1>4 DEF Found

\* A block is chosen to be the head, or the process ends.
LEMMA MakeHeadLookup ==
  ASSUME Inv, LookupInv, NEW b \in Blocks, NEW mode \in Modes, NEW states \in SUBSET All,
         MakeHeadOrPanic(b, mode, states), op.todo # {}, pc = "insert",
         UNCHANGED <<headBlock, lookup, crashes>>,
         b \in db', Root[b] \in saved' \cup Roots(states)
  PROVE  LookupInv'
<1>1. CASE Parent[b] # headBlock /\ Impossible(headBlock, b)
  <2>1. pc' = "down"
    BY <1>1 DEF MakeHeadOrPanic, Panic, Die
  <2> QED BY <2>1, LookupKept
<1>2. CASE ~(Parent[b] # headBlock /\ Impossible(headBlock, b))
  <2>1. MakeHead(b, mode) /\ cached' = states
    BY <1>2 DEF MakeHeadOrPanic
  <2>2. /\ pc' = "reorg" /\ op'.block = b
        /\ Path[b] \ Left' = Path[b] \cap Path[headBlock]
    BY <2>1, <1>2, MakeHeadReorg DEF HasState
  <2>3. Path[op'.block] \ Left' \subseteq Path[headBlock]
    BY <2>2
  <2> QED BY <2>2, <2>3 DEF LookupInv, Found
<1> QED BY <1>1, <1>2

\* reorg writes a block of the new chain.
LEMMA ReorgWriteLookup ==
  ASSUME Inv, LookupInv, ReorgWrite
  PROVE  LookupInv'
<1> DEFINE x == First(op.newChain)
           b == op.block
<1>1. /\ pc = "reorg" /\ op.newChain # {} /\ writeHeadBlock(x)
      /\ op' = [op EXCEPT !.newChain = Rest(op.newChain)]
      /\ UNCHANGED <<pc, crashes>>
  BY DEF ReorgWrite, bounds
<1>2. op \in Ops /\ op.newChain \in SUBSET Blocks
  BY Types, OpTypes
<1>3. x \in op.newChain /\ Rest(op.newChain) = op.newChain \ {x}
  BY <1>1, <1>2, FirstBlock, Tree DEF Rest
<1>4. op'.block = b /\ op'.newChain = op.newChain \ {x}
  BY <1>1, <1>2, <1>3 DEF Ops
<1> HIDE DEF x, b
<1>5. b \in All /\ op.newChain \subseteq Path[b] \ {b}
  BY <1>1, Tree DEF Inv, ReorgInv, b
<1>6. Left = op.newChain \cup {b} /\ Left' = (op.newChain \ {x}) \cup {b}
  BY <1>4 DEF Left, b
<1> DEFINE S == Path[b] \ Left
<1>7. Path[b] \ Left' = S \cup {x} /\ x \notin S /\ S \in SUBSET Path[b] /\ x \in Path[b]
  BY <1>3, <1>5, <1>6
<1>8. crashes = 0 => Found(S)
  BY <1>1 DEF LookupInv, b
<1> HIDE DEF S
<1>9. crashes = 0 =>
         \A c \in S \cup {x} : \A t \in TxsOf[c] : lookup'[t] = Number[c]
  BY <1>1, <1>5, <1>7, <1>8, LookupWrite
<1> QED BY <1>1, <1>4, <1>7, <1>9 DEF LookupInv, Found

\* reorg deletes the entries of transactions of the old chain that the blocks
\* it has written do not have.
LEMMA ReorgDeleteLookup ==
  ASSUME Inv, LookupInv, ReorgDelete
  PROVE  LookupInv'
<1> DEFINE b == op.block
           old == op.old
           deleted == UNION {TxsOf[c] : c \in OldChain(old, b)}
           added == UNION {TxsOf[c] : c \in NewChain(old, b) \ {b}}
<1>1. /\ pc = "reorg" /\ op.newChain = {} /\ op' = [op EXCEPT !.old = None]
      /\ lookup' = [t \in Txs |-> IF t \in deleted \ added THEN 0 ELSE lookup[t]]
      /\ UNCHANGED <<pc, crashes>> /\ old # None
  BY DEF ReorgDelete, bounds
<1>2. op \in Ops /\ old \in All /\ b \in All
  BY <1>1, Types, OpTypes, Tree DEF Inv, ReorgInv
<1>3. op'.block = b /\ op'.newChain = {} /\ Left = {b} /\ Left' = {b}
  BY <1>1, <1>2 DEF Ops, Left
<1>4. ASSUME NEW c \in Path[b] \ {b}, NEW t \in TxsOf[c], t \in deleted
      PROVE  t \in added
  <2>1. PICK d \in Path[old] \ Path[b] : t \in TxsOf[d]
    BY <1>4 DEF OldChain
  <2>2. c # d
    BY <2>1
  <2>3. c \notin Path[old]
    BY <2>1, <2>2, <1>2, PathTxs
  <2>4. c \in NewChain(old, b) \ {b}
    BY <2>3 DEF NewChain
  <2> QED BY <2>4
<1> HIDE DEF deleted, added
<1>5. ASSUME crashes = 0, NEW c \in Path[b] \ {b}, NEW t \in TxsOf[c]
      PROVE  lookup'[t] = Number[c]
  <2>1. lookup[t] = Number[c]
    BY <1>1, <1>3, <1>5 DEF LookupInv, Found
  <2>2. t \in Txs
    BY <1>2, PathClosed, BlockChainAssumption
  <2> QED BY <2>1, <2>2, <1>1, <1>4
<1> HIDE DEF b
<1> QED BY <1>1, <1>3, <1>5 DEF LookupInv, Found

\* The last block is written.
LEMMA WriteHeadLookup ==
  ASSUME Inv, LookupInv, WriteHead
  PROVE  LookupInv'
<1> DEFINE b == op.block
<1>1. /\ pc = "reorg" /\ op.newChain = {} /\ writeHeadBlock(b) /\ pc' = "insert"
      /\ UNCHANGED crashes /\ headBlock' = b
  BY DEF WriteHead, bounds, writeHeadBlock
<1>2. b \in All
  BY <1>1, Tree DEF Inv, ReorgInv
<1>3. Left = {b}
  BY <1>1 DEF Left
<1> DEFINE S == Path[b] \ {b}
<1>4. S \cup {b} = Path[b] /\ b \notin S /\ b \in Path[b] /\ S \in SUBSET Path[b]
  BY <1>2, PathClosed
<1>5. crashes = 0 => Found(S)
  BY <1>1, <1>3 DEF LookupInv
<1> HIDE DEF S, b
<1>6. crashes = 0 =>
         \A c \in S \cup {b} : \A t \in TxsOf[c] : lookup'[t] = Number[c]
  BY <1>1, <1>2, <1>4, <1>5, LookupWrite
<1> QED BY <1>1, <1>4, <1>6 DEF LookupInv, Found

\* A rewind takes the head block to one of its ancestors.
LEMMA RewindMarkersBack ==
  ASSUME Inv, RewindMarkers
  PROVE  Path[headBlock'] \subseteq Path[headBlock]
<1> DEFINE p == Parent[headHeader]
<1>1. /\ pc = "rewind" /\ Number[headHeader] > op.target
      /\ headBlock' = IF Number[p] <= Number[headBlock] THEN Stateful(p) ELSE headBlock
  BY DEF RewindMarkers
<1>2. op.target \in Nat /\ headHeader \in All /\ headBlock \in All
  BY Types, OpTypes, Tree
<1>3. headHeader # Genesis
  BY <1>1, <1>2, Tree
<1>4. headHeader \in Blocks
  BY <1>2, <1>3 DEF All
<1>5. p \in Path[headHeader] /\ p \in All /\ Number[p] \in Nat
  BY <1>4, PathStep, Tree
<1> HIDE DEF p
<1>6. SUFFICES ASSUME Number[p] <= Number[headBlock]
               PROVE  Path[headBlock'] \subseteq Path[headBlock]
  BY <1>1
<1>7. PICK a \in Path[headBlock] : Number[a] = Number[p]
  BY <1>2, <1>5, <1>6, PathNumbers
<1>8. canon[Number[p]] = p /\ canon[Number[a]] = a
  BY <1>5, <1>6 DEF Inv, HeaderInv, CanonicalChain
<1>9. p \in Path[headBlock]
  BY <1>7, <1>8
<1>10. Stateful(p) \in Path[p]
  BY <1>5, StatefulBlock
<1>11. Path[p] \subseteq Path[headBlock]
  BY <1>2, <1>9, PathTrans
<1>12. Stateful(p) \in Path[headBlock]
  BY <1>10, <1>11
<1> QED BY <1>1, <1>2, <1>6, <1>12, PathTrans

\* Every step keeps the index of transactions right.
LEMMA StepLookup ==
  ASSUME Inv, LookupInv, [Next]_vars
  PROVE  LookupInv'
<1>1. CASE UNCHANGED vars \/ StopInsert
  <2>1. UNCHANGED <<headBlock, lookup, pc, op, crashes>>
    BY <1>1 DEF vars, index, bounds, StopInsert
  <2> QED BY <2>1 DEF LookupInv, Found, Left
<1>2. CASE WriteKnown
  <2> DEFINE b == First(op.todo)
  <2>1. pc = "insert" /\ b \in Blocks /\ op.todo # {} /\ b \in db /\ HasState(b)
    BY <1>2, Verdicts DEF WriteKnown, HasBlockAndState, Inserting
  <2>2. /\ MakeHeadOrPanic(b, KnownMode, cached)
        /\ UNCHANGED <<db, headBlock, lookup, saved, crashes>>
    BY <1>2 DEF WriteKnown, index, bounds
  <2>3. KnownMode \in Modes /\ cached \in SUBSET All
    BY Types, OpTypes DEF KnownMode, Modes
  <2> HIDE DEF b
  <2> QED BY <2>1, <2>2, <2>3, MakeHeadLookup DEF HasState
<1>3. CASE Execute
  <2> DEFINE b == First(op.todo)
             mode == IF op.mode = "middle" THEN "middle" ELSE "main"
  <2>1. /\ pc = "insert" /\ b \in Blocks /\ op.todo # {} /\ HasBlockAndState(Parent[b])
    BY <1>3, Verdicts DEF Execute, Inserting
  <2>2. /\ b \notin Invalid /\ WriteBlock(b)
        /\ UNCHANGED <<headBlock, lookup, crashes>>
        /\ MakeHeadOrPanic(b, mode, Collected(b)) \/ UNCHANGED pc
    BY <1>3 DEF Execute, index, bounds
  <2>3. mode \in Modes
    BY DEF Modes
  <2> HIDE DEF b, mode
  <2>4. Root[b] \in Roots(Collected(b)) /\ Collected(b) \subseteq All /\ db' = db \cup {b}
    BY <2>1, <2>2, Collecting DEF Roots
  <2>5. CASE MakeHeadOrPanic(b, mode, Collected(b))
    BY <2>1, <2>2, <2>3, <2>4, <2>5, MakeHeadLookup
  <2>6. CASE UNCHANGED pc
    BY <2>1, <2>2, <2>6, LookupKept
  <2> QED BY <2>2, <2>5, <2>6
<1>4. CASE ReorgWrite \/ ReorgDelete \/ WriteHead
  BY <1>4, ReorgWriteLookup, ReorgDeleteLookup, WriteHeadLookup
<1>5. CASE IgnoreKnown \/ StoreSide \/ Reimport \/ Finish
  <2>1. pc # "reorg" /\ pc' # "reorg" /\ UNCHANGED <<headBlock, lookup, crashes>>
    BY <1>5 DEF IgnoreKnown, StoreSide, Reimport, Finish, Over, Storing, Inserting,
                index, bounds
  <2> QED BY <2>1, LookupKept
<1>6. CASE \/ \E chain \in Chains, f \in BOOLEAN : InsertChain(chain, f)
           \/ RewindDelete \/ Stop
  <2>1. pc # "reorg" /\ pc' # "reorg" /\ UNCHANGED <<headBlock, lookup, crashes>>
    BY <1>6 DEF InsertChain, RewindDelete, Stop, Die, index, bounds
  <2> QED BY <2>1, LookupKept
<1>7. CASE RewindMarkers
  <2>1. pc # "reorg" /\ pc' # "reorg" /\ UNCHANGED <<lookup, crashes>>
    BY <1>7 DEF RewindMarkers, bounds
  <2> QED BY <2>1, <1>7, RewindMarkersBack, LookupKept
<1>8. CASE Crash
  <2>1. crashes' = crashes + 1 /\ crashes \in Nat
    BY <1>8, Types, BlockChainAssumption DEF Crash
  <2>2. crashes' # 0
    BY <2>1
  <2> QED BY <2>2 DEF LookupInv
<1>9. CASE NewBlockChain \/ \E n \in Numbers : SetHead(n)
  <2>1. /\ pc # "reorg" /\ pc' # "reorg" /\ UNCHANGED <<lookup, crashes>>
        /\ headBlock' \in {Stateful(headBlock), headBlock}
    BY <1>9 DEF NewBlockChain, SetHead, bounds
  <2>2. Stateful(headBlock) \in Path[headBlock] /\ headBlock \in All
    BY Types, StatefulBlock
  <2>3. Path[headBlock'] \subseteq Path[headBlock]
    BY <2>1, <2>2, PathTrans
  <2> QED BY <2>1, <2>3, LookupKept
<1> QED BY <1>1, <1>2, <1>3, <1>4, <1>5, <1>6, <1>7, <1>8, <1>9 DEF Next, Insertion

\* Every transaction of the canonical chain is found in its block: the entries
\* that reorg writes and deletes, in two batches, are the right ones, and a
\* rewind leaves those below; only a crash between the batches can lose one.
THEOREM ChainLookup == Spec => []LookupRight
<1>1. Init => LookupInv
  <2>1. SUFFICES ASSUME Init PROVE LookupInv
    OBVIOUS
  <2>2. headBlock = Genesis /\ pc = "idle" /\ lookup = [t \in Txs |-> 0]
    BY <2>1 DEF Init
  <2>3. Path[Genesis] = {Genesis} /\ Number[Genesis] = 0 /\ TxsOf[Genesis] \subseteq Txs
    BY PathGenesis, Tree, BlockChainAssumption
  <2> QED BY <2>2, <2>3 DEF LookupInv, Found
<1>2. Inv /\ LookupInv /\ [Next]_vars => LookupInv'
  BY StepLookup
<1>3. LookupInv => LookupRight
  BY DEF LookupInv, LookupRight, Found
<1> QED BY <1>1, <1>2, <1>3, AlwaysInv, PTL DEF Spec

-----------------------------------------------------------------------------
(* Fork choice and artificial finality                                     *)

\* Without its first block, a part of a chain is one, and goes on where it was.
LEMMA SegmentRest ==
  ASSUME NEW S \in SUBSET Blocks, S # {}, Segment(S)
  PROVE  /\ Segment(Rest(S))
         /\ Rest(S) # {} => Parent[First(Rest(S))] = First(S)
<1> DEFINE f == First(S)
           R == S \ {f}
<1>1. S \in SUBSET All /\ Rest(S) = R /\ R \in SUBSET All
  BY Tree DEF Rest
<1>2. f \in S /\ \A c \in S : Number[f] <= Number[c]
  BY <1>1, FirstBlock
<1>3. PICK b \in All : S \subseteq Path[b]
  BY DEF Segment
<1> HIDE DEF f
<1>4. \A c \in S : /\ Number[c] \in Nat /\ Number[Parent[c]] \in Nat
                   /\ Number[c] = Number[Parent[c]] + 1
  BY Tree
<1>5. \A c \in R : Number[f] < Number[c]
  <2>1. SUFFICES ASSUME NEW c \in R PROVE Number[f] < Number[c]
    OBVIOUS
  <2>2. Number[f] # Number[c]
    BY <1>2, <1>3, PathNumber
  <2> QED BY <2>2, <1>2, <1>4
<1>6. \A c \in R : Parent[c] \in S
  <2>1. SUFFICES ASSUME NEW c \in R PROVE Parent[c] \in S
    OBVIOUS
  <2>2. ~(Number[c] <= Number[f])
    BY <1>2, <1>4, <1>5
  <2> QED BY <2>2, <1>2 DEF Segment
<1>7. Segment(R)
  <2>1. ASSUME NEW c \in R, Parent[c] \notin R, NEW d \in R
        PROVE  Number[c] <= Number[d]
    <3>1. Parent[c] = f
      BY <2>1, <1>6
    <3>2. Number[c] = Number[f] + 1 /\ Number[f] < Number[d]
      BY <3>1, <1>4, <1>5
    <3> QED BY <3>2, <1>2, <1>4
  <2> QED BY <2>1, <1>3 DEF Segment
<1>8. ASSUME R # {} PROVE Parent[First(R)] = f
  <2> DEFINE g == First(R)
  <2>1. g \in R /\ \A c \in R : Number[g] <= Number[c]
    BY <1>1, <1>8, FirstBlock
  <2> HIDE DEF g
  <2>2. Parent[g] \in S /\ Number[g] = Number[Parent[g]] + 1 /\ Number[Parent[g]] \in Nat
    BY <2>1, <1>4, <1>6
  <2>3. ~(Number[g] <= Number[Parent[g]])
    BY <2>2
  <2>4. Parent[g] = f
    BY <2>1, <2>2, <2>3
  <2> QED BY <2>4 DEF g
<1> HIDE DEF R
<1> QED BY <1>1, <1>7, <1>8 DEF f

\* The blocks of a chain above one of them.
LEMMA SegmentAbove ==
  ASSUME NEW b \in All, NEW a \in Path[b]
  PROVE  Segment(Path[b] \ Path[a])
<1> DEFINE S == Path[b] \ Path[a]
<1>1. a \in All /\ Number[a] \in Nat /\ Genesis \in Path[a]
  BY PathTrans, Tree, PathRoot
<1>2. ASSUME NEW d \in S PROVE Number[a] < Number[d] /\ Number[d] \in Nat
  <2>1. d \in All /\ Number[d] \in Nat
    BY PathClosed, Tree
  <2>2. ~(Number[d] <= Number[a])
    BY PathLinear
  <2> QED BY <2>1, <2>2, <1>1
<1>3. ASSUME NEW c \in S, Parent[c] \notin S, NEW d \in S
      PROVE  Number[c] <= Number[d]
  <2>1. c # Genesis
    BY <1>1
  <2>2. c \in Blocks /\ Parent[c] \in Path[b]
    BY <2>1, PathClosed
  <2>3. Parent[c] \in Path[a]
    BY <2>2, <1>3
  <2>4. Number[c] = Number[Parent[c]] + 1 /\ Number[Parent[c]] \in Nat
    BY <2>2, Tree
  <2>5. Number[Parent[c]] <= Number[a]
    BY <2>3, <2>4, <1>1, PathLower
  <2> QED BY <2>4, <2>5, <1>1, <1>2
<1> QED BY <1>3 DEF Segment

\* The curve of artificial finality.
LEMMA PolynomialInt ==
  ASSUME NEW x \in Int
  PROVE  PolynomialV(x) \in Int
<1> DEFINE y == IF x > XCap THEN XCap ELSE x
           height == Denominator * Ampl * 2
<1>1. /\ XCap \in Int /\ XCap > 0 /\ XCap * XCap \in Int /\ XCap * XCap > 0
      /\ Denominator \in Int /\ Ampl \in Int
  BY BlockChainAssumption
<1>2. y \in Int /\ height \in Int
  BY <1>1
<1> HIDE DEF y, height
<1>3. 3 * y * y \in Int /\ 2 * y * y * y \in Int
  BY <1>2
<1>4. (2 * y * y * y) \div XCap \in Int
  BY <1>1, <1>3
<1>5. (3 * y * y - (2 * y * y * y) \div XCap) * height \in Int
  BY <1>2, <1>3, <1>4
<1>6. ((3 * y * y - (2 * y * y * y) \div XCap) * height) \div (XCap * XCap) \in Int
  BY <1>1, <1>5
<1>7. Denominator + ((3 * y * y - (2 * y * y * y) \div XCap) * height)
                      \div (XCap * XCap) \in Int
  BY <1>1, <1>6
<1> QED BY <1>7 DEF PolynomialV, y, height

\* A factor keeps an order.
LEMMA Scaled ==
  ASSUME NEW x \in Int, NEW y \in Int, NEW k \in Nat, x <= y
  PROVE  x * k <= y * k
<1>1. (y - x) * k >= 0
  OBVIOUS
<1> QED BY <1>1

\* The common block of two chains.
LEMMA CommonTypes ==
  ASSUME NEW a \in All, NEW b \in All
  PROVE  CommonBlock(a, b) \in All
<1> DEFINE S == Path[a] \cap Path[b]
<1>1. S \in SUBSET Path[a] /\ Genesis \in S
  BY PathRoot
<1>2. S # {}
  BY <1>1
<1>3. \E c \in S : \A d \in S : Number[d] <= Number[c]
  BY <1>1, <1>2, HighestBlock
<1>4. CommonBlock(a, b) \in S
  BY <1>3 DEF CommonBlock
<1> QED BY <1>4, PathClosed

\* A chain that obeys fork choice still does when a block is added to it.
LEMMA ObeysMore ==
  ASSUME NEW s \in All, NEW b \in Blocks, Td[Parent[b]] >= Td[s],
         s \notin Path[Parent[b]] => ~ecbp1100(s, Parent[b]),
         s \notin Path[b]
  PROVE  ~ecbp1100(s, b)
<1> DEFINE h == Parent[b]
           c == CommonBlock(s, h)
<1>1. h \in All /\ b \in All /\ Path[b] = Path[h] \cup {b} /\ h \in Path[b]
  BY Tree, PathStep
<1>2. s \notin Path[h] /\ h # s
  BY <1>1, PathClosed
<1>3. b \notin Path[s]
  <2>1. SUFFICES ASSUME b \in Path[s] PROVE FALSE
    OBVIOUS
  <2>2. h \in Path[s]
    BY <2>1, <1>1, PathTrans
  <2>3. Td[h] < Td[s]
    BY <2>2, <1>2, PathLower
  <2> QED BY <2>3, <1>1, Tree
<1>4. Path[s] \cap Path[b] = Path[s] \cap Path[h]
  BY <1>1, <1>3
<1>5. CommonBlock(s, b) = c
  BY <1>4 DEF CommonBlock
<1>6. c \in All
  BY <1>1, CommonTypes
<1> DEFINE want == PolynomialV(Time[s] - Time[c]) * (Td[s] - Td[c])
<1> HIDE DEF c
<1>7. /\ Td[c] \in Int /\ Td[s] \in Int /\ Td[h] \in Int /\ Td[b] \in Int
      /\ Time[s] - Time[c] \in Int /\ Denominator \in Nat /\ Td[h] < Td[b]
  BY <1>1, <1>6, Tree, BlockChainAssumption
<1>8. PolynomialV(Time[s] - Time[c]) \in Int
  BY <1>7, PolynomialInt
<1>9. want \in Int
  BY <1>7, <1>8
<1> DEFINE low == (Td[h] - Td[c]) * Denominator
           high == (Td[b] - Td[c]) * Denominator
<1>10. Td[h] - Td[c] \in Int /\ Td[b] - Td[c] \in Int /\ Td[h] - Td[c] <= Td[b] - Td[c]
  BY <1>7
<1>11. low <= high /\ low \in Int /\ high \in Int
  BY <1>7, <1>10, Scaled
<1>12. ~(low < want)
  BY <1>2 DEF ecbp1100, c
<1> HIDE DEF low, high, want
<1>13. ~(high < want)
  BY <1>9, <1>11, <1>12
<1> QED BY <1>13, <1>5 DEF ecbp1100, high, want

\* The head an insertion begins with obeys fork choice.
LEMMA ObeysStart ==
  ASSUME NEW s \in All
  PROVE  Td[s] >= Td[s] /\ s \in Path[s]
BY Tree, PathClosed

\* A block that reorganises the head, and that finality does not reject.
LEMMA ObeysChosen ==
  ASSUME Inv, headBlock = start, NEW b \in Blocks, Td[b] >= Td[headBlock], ~Disallowed(b),
         Parent[b] = headBlock \/ ~Impossible(headBlock, b)
  PROVE  Obeys(b)
<1>1. Parent[b] = headBlock => start \in Path[b]
  BY PathStep
<1>2. Parent[b] # headBlock /\ op.finality => ~ecbp1100(start, b)
  BY DEF Disallowed
<1> QED BY <1>1, <1>2 DEF Obeys

\* A block that extends a head which obeys fork choice.
LEMMA ObeysExtends ==
  ASSUME Inv, Obeys(headBlock), NEW b \in Blocks, Parent[b] = headBlock
  PROVE  Obeys(b)
<1>1. /\ start \in All /\ Td[headBlock] \in Nat /\ Td[start] \in Nat /\ Td[b] \in Nat
      /\ Td[b] > Td[headBlock]
  BY Types, Tree
<1>2. Td[headBlock] >= Td[start]
  BY DEF Obeys
<1>3. Td[b] >= Td[start]
  BY <1>1, <1>2
<1>4. ASSUME op.finality, start \notin Path[b]
      PROVE  ~ecbp1100(start, b)
  <2>1. start \notin Path[headBlock] => ~ecbp1100(start, headBlock)
    BY <1>4 DEF Obeys
  <2> QED BY <2>1, <1>1, <1>2, <1>4, ObeysMore
<1> QED BY <1>3, <1>4 DEF Obeys

\* The next block of an insertion is chosen to be the head.
LEMMA MakeHeadFork ==
  ASSUME Inv, NEW b \in Blocks, NEW mode \in Modes, NEW states \in SUBSET All,
         MakeHeadOrPanic(b, mode, states), op.todo # {}, b = First(op.todo),
         Segment(op.todo), headBlock' = headBlock, b \in db', mode # "skip",
         Root[b] \in saved' \cup Roots(states),
         mode # "middle" /\ (Parent[b] = headBlock \/ ~Impossible(headBlock, b))
           => Obeys(b)
  PROVE  ForkInv'
<1>1. CASE Parent[b] # headBlock /\ Impossible(headBlock, b)
  <2>1. pc' = "down"
    BY <1>1 DEF MakeHeadOrPanic, Panic, Die
  <2> QED BY <2>1 DEF ForkInv
<1>2. CASE ~(Parent[b] # headBlock /\ Impossible(headBlock, b))
  <2>1. MakeHead(b, mode) /\ cached' = states
    BY <1>2 DEF MakeHeadOrPanic
  <2>2. /\ pc' = "reorg" /\ op'.block = b /\ op'.todo = Rest(op.todo)
        /\ op'.mode = mode /\ op'.finality = op.finality /\ start' = start
    BY <2>1, <1>2, MakeHeadReorg DEF HasState
  <2>3. op.todo \in SUBSET Blocks
    BY Types, OpTypes
  <2>4. Segment(Rest(op.todo)) /\ (Rest(op.todo) # {} => Parent[First(Rest(op.todo))] = b)
    BY <2>3, SegmentRest
  <2>5. Segment(op'.todo) /\ (op'.todo # {} => Parent[First(op'.todo)] = b)
    BY <2>2, <2>4
  <2>6. Chosen' = b
    BY <2>2 DEF Chosen
  <2>7. mode # "middle" => Obeys(b)'
    BY <2>2, <1>2 DEF Obeys
  <2>8. HasBlockAndState(b)'
    BY <2>1 DEF HasBlockAndState, HasState
  <2>9. op'.mode # "middle" =>
          /\ Obeys(Chosen)' /\ op'.mode # "skip" /\ HasBlockAndState(Chosen)'
          /\ op'.todo # {} => Parent[First(op'.todo)] = Chosen'
    BY <2>2, <2>5, <2>6, <2>7, <2>8 DEF Obeys, HasBlockAndState, HasState
  <2> QED BY <2>2, <2>5, <2>9 DEF ForkInv
<1> QED BY <1>1, <1>2

\* The head stays what it was when the insertion began.
LEMMA StartFork ==
  ASSUME Inv, headBlock = start, UNCHANGED <<headBlock, start>>,
         pc' = "insert", op'.mode # "known", Segment(op'.todo)
  PROVE  ForkInv'
<1>1. Chosen' = headBlock' /\ headBlock' = start'
  BY DEF Chosen
<1>2. start' \in All
  BY Types
<1>3. Obeys(Chosen)'
  BY <1>1, <1>2, ObeysStart DEF Obeys
<1> QED BY <1>1, <1>3 DEF ForkInv

\* A known block is written.
LEMMA WriteKnownFork ==
  ASSUME Inv, ForkInv, WriteKnown
  PROVE  ForkInv'
<1> DEFINE b == First(op.todo)
<1>1. pc = "insert" /\ b \in Blocks /\ op.todo # {} /\ b \in db /\ HasState(b)
  BY Verdicts DEF WriteKnown, HasBlockAndState, Inserting
<1>2. /\ MakeHeadOrPanic(b, KnownMode, cached)
      /\ op.mode = "skip" => Contender(b)
      /\ UNCHANGED <<db, headBlock, saved>>
  BY DEF WriteKnown, index
<1>3. KnownMode \in Modes /\ cached \in SUBSET All /\ op.mode \in Modes
      /\ KnownMode # "skip" /\ (op.mode = "main" => KnownMode = "middle")
      /\ (op.mode = "middle" => KnownMode = "middle")
  BY Types, OpTypes DEF KnownMode, Modes
<1>4. /\ Segment(op.todo) /\ Chosen = headBlock
      /\ op.mode # "middle" =>
           /\ Obeys(headBlock)
           /\ headBlock # start \/ op.mode = "known" =>
                op.mode # "skip" /\ Parent[b] = headBlock
  BY <1>1 DEF ForkInv, Chosen
<1> HIDE DEF b
<1>5. ASSUME KnownMode # "middle", Parent[b] = headBlock \/ ~Impossible(headBlock, b)
      PROVE  Obeys(b)
  <2>1. op.mode \in {"skip", "known"}
    BY <1>3, <1>5 DEF Modes
  <2>2. CASE op.mode = "skip"
    <3>1. headBlock = start /\ Contender(b)
      BY <2>2, <1>2, <1>4
    <3>2. Td[b] >= Td[headBlock] /\ ~Disallowed(b)
      BY <3>1, <1>1, Types, Tree DEF Contender
    <3> QED BY <3>1, <3>2, <1>1, <1>5, ObeysChosen
  <2>3. CASE op.mode = "known"
    BY <2>3, <1>1, <1>4, ObeysExtends
  <2> QED BY <2>1, <2>2, <2>3
<1>6. b \in db' /\ Root[b] \in saved' \cup Roots(cached)
  BY <1>1, <1>2 DEF HasState
<1> QED BY <1>1, <1>2, <1>3, <1>4, <1>5, <1>6, MakeHeadFork DEF b

\* A heavier block replaces the head, and a lighter one does not.
LEMMA ReorgsHeavier ==
  ASSUME NEW b \in All, headBlock \in All, NEW reorg \in Reorgs(b)
  PROVE  /\ reorg => Td[b] >= Td[headBlock]
         /\ Td[b] > Td[headBlock] => reorg
<1> DEFINE heavier == Td[b] > Td[headBlock]
<1>1. Td[b] \in Nat /\ Td[headBlock] \in Nat
  BY Tree
<1>2. CASE Td[b] = Td[headBlock]
  BY <1>1, <1>2
<1>3. CASE Td[b] # Td[headBlock]
  <2>1. Reorgs(b) = {heavier}
    BY <1>3 DEF Reorgs
  <2>2. heavier => Td[b] >= Td[headBlock]
    BY <1>1
  <2> HIDE DEF heavier
  <2>3. reorg = heavier
    BY <2>1
  <2>4. (reorg => heavier) /\ (heavier => reorg)
    BY <2>3
  <2>5. reorg => Td[b] >= Td[headBlock]
    BY <2>2, <2>4
  <2>6. Td[b] > Td[headBlock] => reorg
    BY <2>4 DEF heavier
  <2> QED BY <2>5, <2>6
<1> QED BY <1>2, <1>3

\* A block is executed.
LEMMA ExecuteFork ==
  ASSUME Inv, ForkInv, Execute
  PROVE  ForkInv'
<1> DEFINE b == First(op.todo)
           mode == IF op.mode = "middle" THEN "middle" ELSE "main"
<1>1. /\ pc = "insert" /\ b \in Blocks /\ op.todo # {} /\ HasBlockAndState(Parent[b])
      /\ op.todo \in SUBSET Blocks /\ Rest(op.todo) \subseteq Blocks /\ op \in Ops
  BY Verdicts, Types, OpTypes DEF Execute, Inserting
<1>2. PICK reorg \in Reorgs(b) :
        /\ b \notin Invalid /\ WriteBlock(b) /\ UNCHANGED headBlock
        /\ IF reorg /\ ~Disallowed(b)
           THEN MakeHeadOrPanic(b, mode, Collected(b))
           ELSE /\ op' = [op EXCEPT !.todo = Rest(op.todo), !.mode = mode]
                /\ UNCHANGED <<pc, start>>
  BY DEF Execute, index, history
<1>3. /\ Segment(op.todo) /\ Chosen = headBlock
      /\ op.mode # "middle" =>
           /\ Obeys(headBlock)
           /\ headBlock # start \/ op.mode = "known" => Parent[b] = headBlock
  BY <1>1 DEF ForkInv, Chosen
<1>4. mode \in Modes /\ mode # "skip" /\ mode # "known"
      /\ (mode = "middle" <=> op.mode = "middle")
  BY DEF Modes
<1>5. Segment(Rest(op.todo))
  BY <1>1, <1>3, SegmentRest
<1>6. Td[b] \in Nat /\ Td[headBlock] \in Nat /\ Parent[b] \in All
      /\ (Parent[b] = headBlock => Td[b] > Td[headBlock])
  BY <1>1, Types, Tree
<1>7. Root[b] \in Roots(Collected(b)) /\ Collected(b) \subseteq All /\ db' = db \cup {b}
  BY <1>1, <1>2, Collecting DEF Roots
<1>8. b \in All /\ headBlock \in All
  BY <1>1, Types, Tree
<1> HIDE DEF mode, b
<1>9. CASE reorg /\ ~Disallowed(b)
  <2>1. Td[b] >= Td[headBlock]
    BY <1>2, <1>9, <1>8, ReorgsHeavier
  <2>2. ASSUME mode # "middle", Parent[b] = headBlock \/ ~Impossible(headBlock, b)
        PROVE  Obeys(b)
    <3>1. CASE Parent[b] = headBlock
      BY <3>1, <2>2, <1>1, <1>3, <1>4, ObeysExtends
    <3>2. CASE Parent[b] # headBlock
      <4>1. headBlock = start
        BY <3>2, <2>2, <1>3, <1>4
      <4> QED BY <4>1, <2>1, <2>2, <1>1, <1>9, ObeysChosen
    <3> QED BY <3>1, <3>2
  <2> QED BY <2>2, <1>1, <1>2, <1>3, <1>4, <1>7, <1>9, MakeHeadFork DEF b
<1>10. CASE ~(reorg /\ ~Disallowed(b))
  <2>1. /\ pc' = "insert" /\ UNCHANGED <<start, headBlock>>
        /\ op' = [op EXCEPT !.todo = Rest(op.todo), !.mode = mode]
    BY <1>1, <1>2, <1>10
  <2>2. op'.todo = Rest(op.todo) /\ op'.mode = mode
    BY <2>1, <1>1 DEF Ops
  <2>3. Parent[b] # headBlock
    <3>1. Td[b] > Td[headBlock] => reorg
      BY <1>2, <1>8, ReorgsHeavier
    <3> QED BY <3>1, <1>6, <1>10 DEF Disallowed
  <2>4. CASE mode = "middle"
    BY <2>1, <2>2, <2>4, <1>5 DEF ForkInv
  <2>5. CASE mode # "middle"
    <3>1. headBlock = start
      BY <2>3, <2>5, <1>3, <1>4
    <3> QED BY <3>1, <2>1, <2>2, <1>4, <1>5, StartFork
  <2> QED BY <2>4, <2>5
<1> QED BY <1>9, <1>10

\* Steps of a reorganisation.
LEMMA ReorgFork ==
  ASSUME Inv, ForkInv, ReorgWrite \/ ReorgDelete \/ WriteHead
  PROVE  ForkInv'
<1>1. op \in Ops
  BY Types
<1>2. /\ pc = "reorg" /\ UNCHANGED <<db, saved, cached, start>>
      /\ \/ pc' = "reorg" /\ op'.block = op.block
         \/ pc' = "insert" /\ headBlock' = op.block
      /\ op'.todo = op.todo /\ op'.mode = op.mode /\ op'.finality = op.finality
  BY <1>1 DEF ReorgWrite, ReorgDelete, WriteHead, writeHeadBlock, history, Ops
<1>3. Chosen' = Chosen
  BY <1>2 DEF Chosen
<1> QED BY <1>2, <1>3 DEF ForkInv, Obeys, HasBlockAndState, HasState

\* A side chain is stored: no block of the insertion has become the head.
LEMMA StoreSideFork ==
  ASSUME Inv, ForkInv, StoreSide
  PROVE  ForkInv'
<1> DEFINE b == First(op.todo)
<1>1. /\ op.todo # {} /\ Verdict(b) = "pruned"
      /\ pc = "side" \/ (pc = "insert" /\ op.mode \in {"skip", "known"})
      /\ pc' = "side" /\ UNCHANGED <<headBlock, start>>
      /\ op' = [op EXCEPT !.todo = Rest(op.todo), !.previous = b]
  BY DEF StoreSide, Storing, index, history
<1>2. op \in Ops /\ op.todo \in SUBSET Blocks
  BY Types, OpTypes
<1>3. op'.todo = Rest(op.todo) /\ op'.mode = op.mode
  BY <1>1, <1>2 DEF Ops
<1>4. Segment(Rest(op.todo))
  BY <1>1, <1>2, SegmentRest DEF ForkInv
<1>5. ~HasBlockAndState(Parent[b])
  BY <1>1 DEF Verdict
<1>6. headBlock = start /\ op.mode = "skip"
  BY <1>1, <1>5 DEF ForkInv, Chosen
<1> QED BY <1>1, <1>3, <1>4, <1>6 DEF ForkInv

\* The side chain is inserted again.
LEMMA ReimportFork ==
  ASSUME Inv, ForkInv, Reimport
  PROVE  ForkInv'
<1> DEFINE p == op.previous
           S == Path[p] \ Path[Stateful(p)]
<1>1. /\ pc = "side" /\ pc' = "insert" /\ UNCHANGED <<headBlock, start>>
      /\ op' = [NoOp EXCEPT !.todo = S, !.finality = op.finality]
  BY DEF Reimport, index, history
<1>2. p \in All
  BY <1>1, Types DEF Inv, SideInv
<1>3. Segment(S)
  BY <1>2, StatefulBlock, SegmentAbove
<1>4. headBlock = start
  BY <1>1 DEF ForkInv
<1> HIDE DEF S
<1>5. op'.todo = S /\ op'.mode = "skip"
  BY <1>1 DEF NoOp
<1> QED BY <1>1, <1>3, <1>4, <1>5, StartFork

\* Every step keeps ForkInv.
LEMMA StepFork ==
  ASSUME Inv, ForkInv, [Next]_vars
  PROVE  ForkInv'
<1>1. CASE UNCHANGED vars \/ StopInsert
  <2>1. UNCHANGED <<db, headBlock, saved, cached, pc, op, start>>
    BY <1>1 DEF vars, index, history, StopInsert
  <2> QED BY <2>1 DEF ForkInv, Chosen, Obeys, HasBlockAndState, HasState
<1>2. CASE WriteKnown \/ Execute
  BY <1>2, WriteKnownFork, ExecuteFork
<1>3. CASE ReorgWrite \/ ReorgDelete \/ WriteHead
  BY <1>3, ReorgFork
<1>4. CASE StoreSide \/ Reimport
  BY <1>4, StoreSideFork, ReimportFork
<1>5. CASE IgnoreKnown
  <2>1. /\ pc = "insert" /\ op.todo # {} /\ op.mode = "skip" /\ pc' = "insert"
        /\ op' = [op EXCEPT !.todo = Rest(op.todo)] /\ UNCHANGED <<headBlock, start>>
    BY <1>5 DEF IgnoreKnown, Inserting, index, history
  <2>2. op \in Ops /\ op.todo \in SUBSET Blocks
    BY Types, OpTypes
  <2>3. op'.todo = Rest(op.todo) /\ op'.mode = "skip"
    BY <2>1, <2>2 DEF Ops
  <2>4. Segment(Rest(op.todo))
    BY <2>1, <2>2, SegmentRest DEF ForkInv
  <2>5. headBlock = start
    BY <2>1 DEF ForkInv, Chosen
  <2> QED BY <2>1, <2>3, <2>4, <2>5, StartFork
<1>6. ASSUME NEW chain \in Chains, NEW f \in BOOLEAN, InsertChain(chain, f)
      PROVE  ForkInv'
  <2>1. /\ pc' = "insert" /\ start' = headBlock /\ headBlock' = headBlock
        /\ op' = [NoOp EXCEPT !.todo = chain, !.finality = f]
    BY <1>6 DEF InsertChain, index
  <2>2. op'.todo = chain /\ op'.mode = "skip" /\ Segment(chain)
    BY <2>1, ChainBlocks DEF NoOp
  <2>3. Chosen' = start' /\ start' \in All
    BY <2>1, Types DEF Chosen
  <2>4. Obeys(Chosen)'
    BY <2>3, ObeysStart DEF Obeys
  <2> QED BY <2>1, <2>2, <2>3, <2>4 DEF ForkInv
<1>7. CASE \/ \E n \in Numbers : SetHead(n)
           \/ RewindMarkers \/ RewindDelete \/ Stop \/ Crash \/ NewBlockChain \/ Finish
  <2>1. pc' \notin {"insert", "reorg", "side"}
    BY <1>7 DEF SetHead, RewindMarkers, RewindDelete, Stop, Crash, NewBlockChain,
                Finish, Die
  <2> QED BY <2>1 DEF ForkInv
<1> QED BY <1>1, <1>2, <1>3, <1>4, <1>5, <1>6, <1>7 DEF Next, Insertion

\* An insertion, also one that reorganises several times, stores side chains
\* and inserts them again, ends with a chain that is not lighter than the one
\* before it, and that artificial finality accepts (insertChain, ReorgNeeded,
\* ecbp1100).
THEOREM ChainForkChoice == Spec => ForkChoice
<1>1. Init => ForkInv
  BY DEF Init, ForkInv
<1>2. Inv /\ ForkInv /\ [Next]_vars => ForkInv'
  BY StepFork
<1>3. ASSUME Inv, ForkInv, Finish, op.mode # "middle"
      PROVE  /\ Td[headBlock] >= Td[start]
             /\ op.finality /\ start \notin Path[headBlock]
                  => ~ecbp1100(start, headBlock)
  <2>1. pc \in {"insert", "side"}
    BY <1>3 DEF Finish, Over, Storing, Inserting
  <2>2. CASE pc = "insert"
    BY <2>2, <1>3 DEF ForkInv, Chosen, Obeys
  <2>3. CASE pc = "side"
    BY <2>3, <1>3, Types, ObeysStart DEF ForkInv
  <2> QED BY <2>1, <2>2, <2>3
<1>4. Inv /\ ForkInv /\ [Next]_vars =>
        [Finish /\ op.mode # "middle" =>
           /\ Td[headBlock] >= Td[start]
           /\ op.finality /\ start \notin Path[headBlock]
                => ~ecbp1100(start, headBlock)]_vars
  BY <1>3
<1> QED BY <1>1, <1>2, <1>4, AlwaysInv, PTL DEF Spec, ForkChoice
=============================================================================
