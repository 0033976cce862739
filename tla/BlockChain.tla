------------------------------ MODULE BlockChain ------------------------------
(***************************************************************************)
(* The block chain of a node that synchronises fully (core/blockchain.go,  *)
(* headerchain.go, blockchain_af.go): blocks are executed or, if the state *)
(* of their parent is pruned, stored and executed later; the heaviest      *)
(* chain becomes canonical, unless artificial finality forbids the         *)
(* reorganisation; only some states ever reach the disk, and a crash,      *)
(* between any two batches of the database, loses the others.              *)
(*                                                                         *)
(* Abstractions.                                                           *)
(*  - The tree of all blocks is given, with the state root that each block *)
(*    claims, which several may share; some blocks fail when they are      *)
(*    executed on the state that their parent claims.                      *)
(*  - The markers in memory equal those on disk, which are written first;  *)
(*    so does the fast block the header, as there is no fast sync.         *)
(*  - Operations hold chainmu from beginning to end, so they do not        *)
(*    interleave, but for Stop; a mined block is written as an inserted    *)
(*    one is.                                                              *)
(*  - When states are written to disk (gcproc, the size of the cache) is   *)
(*    a choice; a part of a state on disk is none.                         *)
(*  - No freezer, no future blocks, no banned blocks, no snapshots, no     *)
(*    events to subscribers.                                               *)
(***************************************************************************)
EXTENDS Integers, FiniteSets

CONSTANTS
  Blocks,        \* all blocks but the first
  Genesis,       \* the first block
  None,          \* no block
  Parent,        \* of each block: its parent
  Number, Td,    \* of each block, and of Genesis: total difficulty with Td
  Time,          \* likewise
  Root,          \* likewise: the state root in its header
  Invalid,       \* blocks that fail when they are executed
  Txs,           \* transactions
  TxsOf,         \* of each block: its transactions
  MaxChain,      \* bound on the number of blocks in one insertion
  TriesInMemory, \* TriesInMemory
  XCap, Ampl, Denominator, \* the curve of artificial finality
  MaxEvents      \* bound on crashes, stops and calls of SetHead

All == Blocks \cup {Genesis}

\* A block and its ancestors: what every set with the block has that has the
\* parents of its members.
Path ==
  LET closed == {S \in SUBSET All : \A c \in S \cap Blocks : Parent[c] \in S}
  IN [b \in All |-> {a \in All : \A S \in closed : b \in S => a \in S}]

Numbers == {Number[b] : b \in All}

ASSUME BlockChainAssumption ==
  /\ IsFiniteSet(Blocks) /\ Genesis \notin Blocks /\ None \notin All
  /\ Parent \in [Blocks -> All] /\ Number \in [All -> Nat]
  /\ Number[Genesis] = 0 /\ Td \in [All -> Nat] /\ Time \in [All -> Nat]
  /\ DOMAIN Root = All
  /\ \A b \in Blocks : /\ Number[b] = Number[Parent[b]] + 1
                       /\ Td[b] > Td[Parent[b]] /\ Time[b] > Time[Parent[b]]
  /\ Invalid \subseteq Blocks /\ TxsOf \in [All -> SUBSET Txs]
  /\ \A b \in All : \A c, d \in Path[b] : c # d => TxsOf[c] \cap TxsOf[d] = {}
  /\ TriesInMemory \in Nat \ {0} /\ XCap \in Nat \ {0} /\ Ampl \in Nat
  /\ Denominator \in Nat \ {0}
  /\ MaxChain \in Nat /\ MaxEvents \in Nat

VARIABLES
  db,         \* blocks in the database
  canon,      \* number -> canonical block
  headBlock,  \* the head block, in the database and in memory
  headHeader, \* the head header, likewise
  lookup,     \* transaction -> number of its block, 0 if there is no entry
  saved,      \* roots of the states on disk
  cached,     \* executed blocks, each with a reference to its state in memory
  stopping,   \* procInterrupt
  pc,         \* what the chain does
  op,         \* the operation that is under way
  start,      \* the head when it began
  clean,      \* the head, if it had a state, when the node was stopped in order
  panicked,   \* whether the node was ended by a panic
  crashes,    \* crashes so far
  others      \* stops and calls of SetHead so far

\* The variables of an operation:
\*   finality   artificialFinalityEnabled
\*   todo       blocks of the insertion that are not done
\*   mode       which loop of insertChain; "middle" if the last one has met a
\*              known block
\*   previous   insertSideChain: the last block that was stored
\*   newChain   reorg: blocks to make canonical, without the last
\*   block      the block that becomes the head
\*   old        reorg: the old head, or None
\*   target     SetHead: the number to go back to
NoOp == [finality |-> FALSE, todo |-> {}, mode |-> "skip", previous |-> None,
         newChain |-> {}, block |-> None, old |-> None, target |-> 0]

index == <<canon, headBlock, headHeader, lookup>>
history == <<start, clean, panicked>>
bounds == <<crashes, others>>
vars == <<db, index, saved, cached, stopping, pc, op, history, bounds>>

Roots(S) == {Root[b] : b \in S}

\* The state is found by its root; in memory it is there as long as a reference is.
HasState(b) == Root[b] \in saved \cup Roots(cached)
HasBlockAndState(b) == b \in db /\ HasState(b)

\* Mutant of Verdict: a block that is stored counts as known.
VerdictStored(b) ==
  IF b \in db THEN "known"
  ELSE IF HasBlockAndState(Parent[b]) THEN "ok"
  ELSE IF Parent[b] \in db THEN "pruned" ELSE "unknown"

\* What VerifyHeaders and ValidateBody say of a block.
Verdict(b) ==
  IF HasBlockAndState(b) THEN "known"
  ELSE IF HasBlockAndState(Parent[b]) THEN "ok"
  ELSE IF Parent[b] \in db THEN "pruned" ELSE "unknown"

\* The last ancestor of b, or b, that has a state.
Stateful(b) ==
  CHOOSE a \in Path[b] : HasState(a) /\
    \A c \in Path[b] : HasState(c) => Number[c] <= Number[a]

\* The lists of blocks of an operation are parts of one chain in ascending order,
\* so they are given as sets.
First(S) == CHOOSE b \in S : \A c \in S : Number[b] <= Number[c]
Rest(S) == S \ {First(S)}

OldChain(old, new) == Path[old] \ Path[new]
NewChain(old, new) == Path[new] \ Path[old]
CommonBlock(old, new) ==
  CHOOSE c \in Path[old] \cap Path[new] :
    \A d \in Path[old] \cap Path[new] : Number[d] <= Number[c]

\* getReorgData gives up: one block is an ancestor of the other.
Impossible(old, new) == OldChain(old, new) = {} \/ NewChain(old, new) = {}

\* ecbp1100PolynomialV
PolynomialV(x) ==
  LET y == IF x > XCap THEN XCap ELSE x
      height == Denominator * Ampl * 2
  IN Denominator
       + ((3 * y * y - (2 * y * y * y) \div XCap) * height) \div (XCap * XCap)

\* Artificial finality rejects the reorganisation from current to proposed.
ecbp1100(current, proposed) ==
  LET common == CommonBlock(current, proposed)
      got == (Td[proposed] - Td[common]) * Denominator
      want == PolynomialV(Time[current] - Time[common])
                * (Td[current] - Td[common])
  IN got < want

Disallowed(b) ==
  /\ Parent[b] # headBlock /\ ~Impossible(headBlock, b)
  /\ op.finality /\ ecbp1100(headBlock, b)
-----------------------------------------------------------------------------
Init ==
  /\ db = {Genesis}
  /\ canon = [n \in Numbers |-> IF n = 0 THEN Genesis ELSE None]
  /\ headBlock = Genesis /\ headHeader = Genesis
  /\ lookup = [t \in Txs |-> 0] /\ saved = Roots({Genesis}) /\ cached = {}
  /\ stopping = FALSE /\ pc = "idle" /\ op = NoOp
  /\ start = Genesis /\ clean = None
  /\ panicked = FALSE /\ crashes = 0 /\ others = 0

\* The chains that may be inserted: each block is the parent of the next.
Chains ==
  {{c \in Path[p[1]] : Number[c] >= p[2]} :
     p \in {q \in Blocks \X Numbers :
              /\ q[2] # 0 /\ q[2] <= Number[q[1]]
              /\ Number[q[1]] - q[2] < MaxChain}}

\* Artificial finality is turned on and off by eth/sync.go, with the number of
\* peers and the age of the head; here, between insertions.
InsertChain(chain, finality) ==
  /\ pc = "idle" /\ ~stopping
  /\ pc' = "insert"
  /\ op' = [NoOp EXCEPT !.todo = chain, !.finality = finality]
  /\ start' = headBlock
  /\ UNCHANGED <<db, index, saved, cached, stopping, clean, panicked, bounds>>

Inserting(v) == pc = "insert" /\ op.todo # {} /\ Verdict(First(op.todo)) = v

\* Mutant of Contender: artificial finality is not asked.
ContenderHeavy(b) == Td[b] > Td[headBlock]

\* A known block that is to become the head, not to be ignored.
Contender(b) == Td[b] > Td[headBlock] /\ ~Disallowed(b)

IgnoreKnown ==
  /\ Inserting("known") /\ op.mode = "skip" /\ ~Contender(First(op.todo))
  /\ op' = [op EXCEPT !.todo = Rest(op.todo)]
  /\ UNCHANGED <<db, index, saved, cached, stopping, pc, history, bounds>>

\* The process ends, and with it all that is in memory.
Die ==
  /\ pc' = "down" /\ op' = NoOp /\ cached' = {}
  /\ stopping' = FALSE /\ start' = Genesis

\* Mutant of MakeHead: only the last block of the new chain is written.
MakeHeadAlone(b, mode) ==
  /\ pc' = "reorg"
  /\ op' = [op EXCEPT
       !.todo = Rest(op.todo), !.mode = mode, !.block = b, !.newChain = {},
       !.old = IF Parent[b] = headBlock THEN None ELSE headBlock]
  /\ UNCHANGED <<stopping, history>>

\* Block b, the next of the insertion, is to become the head: the arguments of
\* reorg, if it does not extend the head, and of writeHeadBlock.
MakeHead(b, mode) ==
  LET extends == Parent[b] = headBlock
  IN
  /\ pc' = "reorg"
  /\ op' = [op EXCEPT
       !.todo = Rest(op.todo), !.mode = mode, !.block = b,
       !.old = IF extends THEN None ELSE headBlock,
       !.newChain = IF extends THEN {}
                    ELSE NewChain(headBlock, b) \ {b}]
  /\ UNCHANGED <<stopping, history>>

\* reorg logs an impossible reorganisation with the numbers of two blocks that
\* getReorgData did not return: a nil dereference.
Panic == Die /\ panicked' = TRUE /\ clean' = None

MakeHeadOrPanic(b, mode, states) ==
  IF Parent[b] # headBlock /\ Impossible(headBlock, b)
  THEN Panic
  ELSE MakeHead(b, mode) /\ cached' = states

\* Only the last loop of insertChain looks whether the chain is being stopped.
Halted == stopping /\ op.mode \in {"main", "middle"}

\* The loop in which a known block is written.
KnownMode ==
  CASE op.mode = "skip" -> "known" [] op.mode = "main" -> "middle"
    [] OTHER -> op.mode

WriteKnown ==
  /\ Inserting("known") /\ ~Halted
  /\ op.mode = "skip" => Contender(First(op.todo))
  /\ MakeHeadOrPanic(First(op.todo), KnownMode, cached)
  /\ UNCHANGED <<db, index, saved, bounds>>

\* Whether b shall replace the head; it may be a choice of the miner's own
\* block, or at random.
Reorgs(b) ==
  IF Td[b] # Td[headBlock] THEN {Td[b] > Td[headBlock]}
  ELSE IF Number[b] # Number[headBlock] THEN {Number[b] < Number[headBlock]}
  ELSE BOOLEAN

\* What is flushed to disk when b is written: perhaps the state of the canonical
\* block which is TriesInMemory below, if it is in memory.
Flushed(b) ==
  LET chosen == Number[b] - TriesInMemory
  IN IF chosen > 0
     THEN {{}, Roots(cached \cup {b}) \cap Roots({canon[chosen]} \ {None})}
     ELSE {{}}

\* References to states in memory after b is written.
Collected(b) ==
  LET chosen == Number[b] - TriesInMemory
  IN {c \in cached \cup {b} : chosen > 0 => Number[c] > chosen}

\* The first part of writeBlockWithState.
WriteBlock(b) ==
  /\ db' = db \cup {b}
  /\ \E f \in Flushed(b) : saved' = saved \cup f

\* The block is executed, and written with its state.
Execute ==
  /\ Inserting("ok") /\ ~stopping
  /\ LET b == First(op.todo)
         mode == IF op.mode = "middle" THEN "middle" ELSE "main"
     IN
     /\ b \notin Invalid
     /\ WriteBlock(b)
     /\ \E reorg \in Reorgs(b) :
          IF reorg /\ ~Disallowed(b)
          THEN MakeHeadOrPanic(b, mode, Collected(b))
          ELSE /\ op' = [op EXCEPT !.todo = Rest(op.todo), !.mode = mode]
               /\ cached' = Collected(b)
               /\ UNCHANGED <<stopping, pc, history>>
     /\ UNCHANGED <<index, bounds>>

\* writeHeadBlock
writeHeadBlock(b) ==
  /\ canon' = [canon EXCEPT ![Number[b]] = b]
  /\ lookup' = [t \in Txs |-> IF t \in TxsOf[b] THEN Number[b] ELSE lookup[t]]
  /\ headBlock' = b
  /\ headHeader' = IF canon[Number[b]] # b THEN b ELSE headHeader

ReorgWrite ==
  /\ pc = "reorg" /\ op.newChain # {}
  /\ writeHeadBlock(First(op.newChain))
  /\ op' = [op EXCEPT !.newChain = Rest(op.newChain)]
  /\ UNCHANGED <<db, saved, cached, stopping, pc, history, bounds>>

\* Mutant of ReorgDelete: the entries of all transactions of the old chain go.
ReorgDeleteAll ==
  /\ pc = "reorg" /\ op.newChain = {} /\ op.old # None
  /\ lookup' = [t \in Txs |->
       IF \E b \in OldChain(op.old, op.block) : t \in TxsOf[b]
       THEN 0 ELSE lookup[t]]
  /\ op' = [op EXCEPT !.old = None]
  /\ UNCHANGED <<db, canon, headBlock, headHeader, saved, cached, stopping, pc,
                 history, bounds>>

\* reorg deletes the entries of transactions that are in the old chain only,
\* and what the index has above the head.
ReorgDelete ==
  LET deleted == UNION {TxsOf[b] : b \in OldChain(op.old, op.block)}
      added == UNION {TxsOf[b] : b \in NewChain(op.old, op.block) \ {op.block}}
      above == {n \in Numbers : \A m \in Number[headBlock] + 1 .. n :
                                   canon[m] # None}
  IN
  /\ pc = "reorg" /\ op.newChain = {} /\ op.old # None
  /\ lookup' = [t \in Txs |-> IF t \in deleted \ added THEN 0 ELSE lookup[t]]
  /\ canon' = [n \in Numbers |->
                 IF n > Number[headBlock] /\ n \in above THEN None ELSE canon[n]]
  /\ op' = [op EXCEPT !.old = None]
  /\ UNCHANGED <<db, headBlock, headHeader, saved, cached, stopping, pc, history,
                 bounds>>

WriteHead ==
  /\ pc = "reorg" /\ op.newChain = {} /\ op.old = None
  /\ writeHeadBlock(op.block)
  /\ pc' = "insert"
  /\ op' = [op EXCEPT !.block = None]
  /\ UNCHANGED <<db, saved, cached, stopping, history, bounds>>

\* insertSideChain stores blocks without executing them.
Storing ==
  /\ op.todo # {} /\ Verdict(First(op.todo)) = "pruned"
  /\ pc = "side" \/ (pc = "insert" /\ op.mode \in {"skip", "known"})

\* A block that claims the root of another block, the canonical one of its number.
Ghost(b) ==
  LET canonical == canon[Number[b]]
  IN /\ Number[b] <= Number[headBlock]
     /\ canonical \notin {b, None} /\ Root[canonical] = Root[b]

StoreSide ==
  /\ Storing /\ ~Ghost(First(op.todo))
  /\ pc' = "side" /\ db' = db \cup {First(op.todo)}
  /\ op' = [op EXCEPT !.todo = Rest(op.todo), !.previous = First(op.todo)]
  /\ UNCHANGED <<index, saved, cached, stopping, history, bounds>>

\* If the side chain is not lighter, the blocks without a state are inserted
\* again, this time to be executed.
Reimport ==
  /\ pc = "side" /\ ~Storing /\ ~stopping
  /\ Td[op.previous] >= Td[headBlock]
  /\ pc' = "insert"
  /\ op' = [NoOp EXCEPT
       !.todo = Path[op.previous] \ Path[Stateful(op.previous)],
       !.finality = op.finality]
  /\ UNCHANGED <<db, index, saved, cached, stopping, history, bounds>>

\* The insertion is over: all blocks are done, one cannot be linked, is invalid or
\* may not be stored, the side chain is too light, or the chain is being stopped.
Over ==
  \/ Storing /\ Ghost(First(op.todo))
  \/ pc = "side" /\ ~Storing /\ (stopping \/ Td[op.previous] < Td[headBlock])
  \/ pc = "insert" /\ op.todo = {}
  \/ Inserting("unknown") \/ (Inserting("known") /\ Halted)
  \/ Inserting("ok") /\ (stopping \/ First(op.todo) \in Invalid)

Finish ==
  /\ Over
  /\ pc' = "idle" /\ op' = NoOp /\ start' = Genesis
  /\ UNCHANGED <<db, index, saved, cached, stopping, clean, panicked, bounds>>

\* SetHead: the markers go back block by block, then all is deleted.  With the
\* number of the head block only that block goes back, if it has no state.
SetHead(n) ==
  /\ pc = "idle" /\ crashes + others < MaxEvents
  /\ IF n = Number[headBlock]
     THEN headBlock' = Stateful(headBlock) /\ UNCHANGED <<pc, op>>
     ELSE /\ n < Number[headHeader]
          /\ pc' = "rewind" /\ op' = [NoOp EXCEPT !.target = n]
          /\ UNCHANGED headBlock
  /\ others' = others + 1
  /\ UNCHANGED <<db, canon, headHeader, lookup, saved, cached, stopping, history,
                 crashes>>

\* Mutant of RewindMarkers: the head block goes back to the parent, come what
\* may.
RewindMarkersBlind ==
  LET parent == Parent[headHeader]
  IN
  /\ pc = "rewind" /\ Number[headHeader] > op.target
  /\ headHeader' = parent
  /\ headBlock' = IF Number[parent] <= Number[headBlock] THEN parent
                  ELSE headBlock
  /\ UNCHANGED <<db, canon, lookup, saved, cached, stopping, pc, op, history,
                 bounds>>

\* The head block does not go back to a block without a state.
RewindMarkers ==
  LET parent == Parent[headHeader]
  IN
  /\ pc = "rewind" /\ Number[headHeader] > op.target
  /\ headHeader' = parent
  /\ headBlock' = IF Number[parent] <= Number[headBlock]
                  THEN Stateful(parent) ELSE headBlock
  /\ UNCHANGED <<db, canon, lookup, saved, cached, stopping, pc, op, history,
                 bounds>>

RewindDelete ==
  /\ pc = "rewind" /\ Number[headHeader] <= op.target
  /\ db' = {b \in db : Number[b] <= op.target}
  /\ canon' = [n \in Numbers |-> IF n > op.target THEN None ELSE canon[n]]
  /\ pc' = "idle" /\ op' = NoOp
  /\ UNCHANGED <<headBlock, headHeader, lookup, saved, cached, stopping, history,
                 bounds>>

StopInsert ==
  /\ pc # "down" /\ ~stopping /\ crashes + others < MaxEvents
  /\ stopping' = TRUE /\ others' = others + 1
  /\ UNCHANGED <<db, index, saved, cached, pc, op, history, crashes>>

\* Mutant of Offsets: the state of the head is not written.
OffsetsBelow == {1, TriesInMemory - 1}

Offsets == {0, 1, TriesInMemory - 1}

\* Stop waits until no insertion is under way; some recent states go to disk, then
\* the process ends.  It does not wait for a rewind, which goes on until the process
\* is ended as by a crash.
Stop ==
  LET recent == {canon[Number[headBlock] - o] :
                   o \in {p \in Offsets : Number[headBlock] > p}}
  IN
  /\ pc \in {"idle", "rewind"} /\ stopping
  /\ saved' = saved \cup (Roots(cached) \cap Roots(recent))
  /\ IF pc = "idle"
     THEN Die /\ clean' = IF HasState(headBlock) THEN headBlock ELSE None
     ELSE UNCHANGED <<pc, op, cached, stopping, start, clean>>
  /\ UNCHANGED <<db, index, panicked, bounds>>

Crash ==
  /\ pc # "down" /\ crashes + others < MaxEvents
  /\ Die /\ clean' = None /\ crashes' = crashes + 1
  /\ UNCHANGED <<db, index, saved, panicked, others>>

\* NewBlockChain: a head without a state goes back to one that has it.
NewBlockChain ==
  /\ pc = "down"
  /\ headBlock' = Stateful(headBlock)
  /\ pc' = "idle" /\ clean' = None /\ panicked' = FALSE
  /\ UNCHANGED <<db, canon, headHeader, lookup, saved, cached, stopping, op,
                 start, bounds>>

Insertion ==
  \/ IgnoreKnown \/ WriteKnown \/ Execute \/ ReorgWrite \/ ReorgDelete
  \/ WriteHead \/ StoreSide \/ Reimport \/ Finish

Next ==
  \/ \E chain \in Chains, f \in BOOLEAN : InsertChain(chain, f)
  \/ Insertion
  \/ \E n \in Numbers : SetHead(n)
  \/ RewindMarkers \/ RewindDelete
  \/ StopInsert \/ Stop \/ Crash
  \/ NewBlockChain

Spec == Init /\ [][Next]_vars
-----------------------------------------------------------------------------
Ops ==
  [finality : BOOLEAN, todo : SUBSET Blocks,
   mode : {"skip", "known", "main", "middle"}, previous : All \cup {None},
   newChain : SUBSET Blocks, block : All \cup {None}, old : All \cup {None},
   target : Numbers]

TypeOK ==
  /\ {Genesis} \subseteq db /\ db \subseteq All
  /\ canon \in [Numbers -> All \cup {None}]
  /\ headBlock \in db /\ headHeader \in db
  /\ lookup \in [Txs -> Numbers]
  /\ saved \subseteq Roots(All) /\ cached \subseteq All
  /\ op \in Ops /\ stopping \in BOOLEAN /\ panicked \in BOOLEAN
  /\ pc \in {"idle", "insert", "side", "reorg", "rewind", "down"}
  /\ start \in All /\ clean \in All \cup {None}
  /\ crashes \in 0 .. MaxEvents /\ others \in 0 .. MaxEvents

\* The index is the chain of the head block, and all of it is in the database,
\* at every step of a reorganisation and of a rewind, and so after a crash.
CanonicalChain ==
  \A b \in Path[headBlock] : canon[Number[b]] = b /\ b \in db

\* Together, with the types: the markers are blocks of the database.
ChainInv == TypeOK /\ CanonicalChain

\* The head's state was collected: the node has executed a block TriesInMemory
\* above the head, or above a block that shares its state.
Outgrown ==
  \E b \in cached, c \in All :
    Root[c] = Root[headBlock] /\ Number[b] >= Number[c] + TriesInMemory

\* A node that is up, between two operations, has the state of its head; unless
\* it has executed a block TriesInMemory above, of a chain that is lighter or
\* that artificial finality rejects: states are collected by number alone.
HeadHasState == pc = "idle" => HasState(headBlock) \/ Outgrown

\* The invalid blocks of which neither they nor any descendant claims the root of
\* another block that is valid.
Unmasked ==
  {z \in Invalid : \A g \in All, c \in All \ Invalid :
                     z \in Path[g] /\ Root[c] = Root[g] => c = g}

\* A block that is stored without being executed does not become canonical if it is
\* invalid; unless it, or a descendant, claims the root of another block.  Such a
\* block may count as known; storing it is refused only if the other one is the
\* canonical block of the same number.
InvalidNeverCanonical == \A n \in Numbers : canon[n] \notin Unmasked

\* Every transaction of the canonical chain is found in its block, in a node that
\* has not crashed: a crash may come between the two batches of a reorganisation.
LookupRight ==
  pc = "idle" /\ crashes = 0 =>
    \A b \in Path[headBlock] : \A t \in TxsOf[b] : lookup[t] = Number[b]

\* An insertion ends with a chain that is not lighter than the one before and,
\* with artificial finality, heavy enough for the age of what it replaces;
\* unless a known block in the middle was made the head without a comparison.
ForkChoice ==
  [][Finish /\ op.mode # "middle" =>
       /\ Td[headBlock] >= Td[start]
       /\ op.finality /\ start \notin Path[headBlock]
            => ~ecbp1100(start, headBlock)]_vars

\* A node that had the state of its head when it was stopped in order starts
\* with the same head.
CleanRestart == [][NewBlockChain /\ clean # None => headBlock' = clean]_vars

=============================================================================
