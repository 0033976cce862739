------------------------------- MODULE TxPool -------------------------------
(***************************************************************************)
(* The transaction pool of core/tx_pool.go, core/tx_list.go and            *)
(* core/tx_noncer.go.                                                      *)
(*                                                                         *)
(* Whatever holds pool.mu is cut into the iterations of its loops: a run   *)
(* of runReorg visits one account or one transaction per step (phase says  *)
(* where it is), a loop that removes transactions removes one per step     *)
(* (drops holds the rest), and add inserts its transaction (adding) once   *)
(* the loop that makes room for it is over.  The lock is free when Quiet   *)
(* holds.                                                                  *)
(*                                                                         *)
(* Abstractions.                                                           *)
(*  - A transaction is its sender, nonce and gas price.  Its cost is its   *)
(*    price, so "too costly" stands for both limits of txList.Filter       *)
(*    (balance and block gas limit); it takes one slot.                    *)
(*  - A txList is a set of transactions.                                   *)
(*  - The price heap is the order Cheaper on all; its stale entries are    *)
(*    not modelled.                                                        *)
(*  - A heartbeat is "fresh", or "old" once it is beyond Lifetime.         *)
(*  - The chain is external: a reset brings another account state and the  *)
(*    transactions that left the chain.                                    *)
(*  - dirty holds the accounts whose promotion is requested and not yet    *)
(*    started; a run serves those whose request has reached the scheduler. *)
(*  - A batch of AddLocals or AddRemotes is one AddTx after the other.     *)
(*  - Journal and events are left out.                                     *)
(***************************************************************************)
EXTENDS Integers, FiniteSets, Sequences

CONSTANTS
  Accounts,
  MaxNonce,       \* bound: transactions have nonces 0..MaxNonce
  Prices,         \* gas prices
  PriceBump,      \* config.PriceBump, percent
  AccountSlots,   \* config.AccountSlots
  GlobalSlots,    \* config.GlobalSlots
  AccountQueue,   \* config.AccountQueue
  GlobalQueue,    \* config.GlobalQueue
  Balances,       \* balances an account may have
  Resets,         \* a new head arrives
  Reorgs          \* a new head may undo transactions

ASSUME TxPoolAssumption ==
  /\ IsFiniteSet(Accounts)
  /\ MaxNonce \in Nat
  /\ Prices \subseteq Nat /\ IsFiniteSet(Prices)
  /\ Balances \subseteq Nat
  /\ PriceBump \in Nat \ {0}
  /\ AccountSlots \in Nat \ {0} /\ GlobalSlots \in Nat \ {0}
  /\ AccountQueue \in Nat \ {0} /\ GlobalQueue \in Nat \ {0}
  /\ Resets \in BOOLEAN /\ Reorgs \in BOOLEAN

Txs == [acc : Accounts, nonce : 0..MaxNonce, price : Prices]

VARIABLES
  pending,     \* account -> processable transactions
  queue,       \* account -> future transactions
  all,         \* pool.all
  nonces,      \* pool.pendingNonces
  beats,       \* pool.beats, "none" if there is no entry
  locals,      \* pool.locals
  gasPrice,    \* pool.gasPrice
  nonce,       \* pool.currentState: nonces
  balance,     \* pool.currentState: balances
  dirty,       \* accounts waiting for promotion
  drops,       \* transactions the current loop has yet to remove
  adding,      \* the transaction that add makes room for, and whether it is local
  phase,       \* where the background run is
  todo,        \* accounts the loop of this phase has yet to visit
  inject,      \* transactions the reset has yet to reinject
  resetting,   \* the run includes a reset
  spammers,    \* truncatePending: accounts not popped yet, with their sizes
  offenders,   \* truncatePending: accounts popped so far
  count        \* truncatePending: its count of pending transactions

poolVars == <<pending, queue, all, nonces, beats>>
chainVars == <<nonce, balance>>
truncVars == <<spammers, offenders, count>>
vars == <<poolVars, locals, gasPrice, chainVars, dirty, drops, adding, phase, todo,
          inject, resetting, truncVars>>

Phases == {"idle", "reinject", "promote", "demote", "truncate", "truncPending",
           "truncQueue", "finish"}

Adding == [tx : Txs, local : BOOLEAN]

\* Every variable has its type: lists hold transactions, virtual nonces are in
\* range, and the loops of the run range over accounts.
TypeOK ==
  /\ pending \in [Accounts -> SUBSET Txs]
  /\ queue \in [Accounts -> SUBSET Txs]
  /\ all \in SUBSET Txs
  /\ nonces \in [Accounts -> 0..MaxNonce + 1]
  /\ beats \in [Accounts -> {"none", "fresh", "old"}]
  /\ locals \in SUBSET Accounts
  /\ gasPrice \in Prices
  /\ nonce \in [Accounts -> 0..MaxNonce + 1]
  /\ balance \in [Accounts -> Balances]
  /\ dirty \in SUBSET Accounts
  /\ drops \in SUBSET Txs
  /\ adding \in SUBSET Adding
  /\ phase \in Phases
  /\ todo \in SUBSET Accounts
  /\ inject \in SUBSET Txs
  /\ resetting \in BOOLEAN
  /\ spammers \in SUBSET [acc : Accounts, size : Nat]
  /\ offenders \in Seq(Accounts)
  /\ count \in Int

Init ==
  /\ pending = [a \in Accounts |-> {}]
  /\ queue = [a \in Accounts |-> {}]
  /\ all = {}
  /\ nonces = [a \in Accounts |-> 0]
  /\ beats = [a \in Accounts |-> "none"]
  /\ locals = {}
  /\ gasPrice \in Prices
  /\ nonce = [a \in Accounts |-> 0]
  /\ balance \in [Accounts -> Balances]
  /\ dirty = {}
  /\ drops = {}
  /\ adding = {}
  /\ phase = "idle"
  /\ todo = {}
  /\ inject = {}
  /\ resetting = FALSE
  /\ spammers = {}
  /\ offenders = <<>>
  /\ count = 0

\* No loop inside an operation is under way.
NoLoop == drops = {} /\ adding = {}

\* pool.mu is free.
Quiet == phase = "idle" /\ NoLoop

(***************************************************************************)
(* txList                                                                  *)
(***************************************************************************)
Nonces(L) == {t.nonce : t \in L}

\* txList.Add: t outbids u, which has the same nonce.
Outbids(t, u) == t.price > u.price /\ t.price >= (u.price * (100 + PriceBump)) \div 100

\* The transactions of S (of distinct nonces) that Add accepts into list L,
\* and those they replace.
Inserted(L, S) == {t \in S : \A u \in L : u.nonce = t.nonce => Outbids(t, u)}
Replaced(L, S) == {u \in L : \E t \in Inserted(L, S) : t.nonce = u.nonce}
ListAdd(L, S) == (L \ Replaced(L, S)) \cup Inserted(L, S)

\* txSortedMap.Cap: the transactions beyond the n with the lowest nonces.
Excess(L, n) == {t \in L : Cardinality({u \in L : u.nonce < t.nonce}) >= n}

\* Mutant of Ready: the list must start below start, not at it.
ReadyBelow(L, start) ==
  {t \in L : /\ \E u \in L : u.nonce < start
             /\ \A n \in 0..t.nonce : (\E u \in L : u.nonce =< n) => n \in Nonces(L)}

\* txSortedMap.Ready: the run of consecutive nonces at the front of L, if it
\* starts at or below start.
Ready(L, start) ==
  {t \in L : /\ \E u \in L : u.nonce =< start
             /\ \A n \in 0..t.nonce : (\E u \in L : u.nonce =< n) => n \in Nonces(L)}

\* The highest nonce of a nonempty list.
LastNonce(L) == CHOOSE n \in Nonces(L) : \A k \in Nonces(L) : k =< n

(***************************************************************************)
(* Pool internals, on a record of the five tracked structures.             *)
(***************************************************************************)
Pool == [pending |-> pending, queue |-> queue, all |-> all, nonces |-> nonces,
         beats |-> beats]

SetPool(P) ==
  /\ pending' = P.pending
  /\ queue' = P.queue
  /\ all' = P.all
  /\ nonces' = P.nonces
  /\ beats' = P.beats

\* Mutant: what is replaced stays in all.
enqueueTxLeaky(P, a, S) ==
  [P EXCEPT !.queue[a] = ListAdd(@, S),
            !.all = @ \cup Inserted(P.queue[a], S),
            !.beats[a] = IF @ = "none" THEN "fresh" ELSE @]

\* enqueueTx for the transactions S (of distinct nonces) of account a.
enqueueTx(P, a, S) ==
  LET accepted == Inserted(P.queue[a], S)
  IN [P EXCEPT
        !.queue[a] = ListAdd(@, S),
        !.all = (@ \ Replaced(P.queue[a], S)) \cup accepted,
        !.beats[a] = IF @ = "none" /\ accepted # {} THEN "fresh" ELSE @]

Lower(n, m) == IF n < m THEN n ELSE m

\* Mutant: the virtual nonce stays above the gap.
removeTxKeepsNonce(P, t) ==
  LET a == t.acc
  IN IF t.nonce \in Nonces(P.pending[a])
     THEN enqueueTx([P EXCEPT !.pending[a] = {u \in @ : u.nonce < t.nonce}, !.all = @ \ {t}],
                    a, {u \in P.pending[a] : u.nonce > t.nonce})
     ELSE [P EXCEPT !.queue[a] = @ \ {t}, !.all = @ \ {t},
                    !.beats[a] = IF P.queue[a] = {t} THEN "none" ELSE @]

\* removeTx: it finds the transaction in the lists by its nonce.  What follows
\* a removed pending transaction is postponed to the queue, and the virtual
\* nonce falls back to the gap.
removeTx(P, t) ==
  LET a == t.acc
      left == {u \in P.queue[a] : u.nonce # t.nonce}
  IN IF t.nonce \in Nonces(P.pending[a])
     THEN enqueueTx([P EXCEPT !.pending[a] = {u \in @ : u.nonce < t.nonce},
                              !.all = @ \ {t},
                              !.nonces[a] = Lower(t.nonce, @)],
                    a, {u \in P.pending[a] : u.nonce > t.nonce})
     ELSE [P EXCEPT !.queue[a] = left,
                    !.all = @ \ {t},
                    !.beats[a] = IF P.queue[a] # {} /\ left = {} THEN "none" ELSE @]

\* priceHeap.Less
Cheaper(t, u) == t.price < u.price \/ (t.price = u.price /\ t.nonce > u.nonce)

\* One iteration of a loop that removes transactions, in heap order: the order
\* makes no difference to the loops that only remove from the queue.
Drop(t) ==
  /\ t \in drops
  /\ \A u \in drops : ~Cheaper(u, t)
  /\ drops' = drops \ {t}
  /\ SetPool(IF t \in all THEN removeTx(Pool, t) ELSE Pool)
  /\ UNCHANGED <<locals, gasPrice, chainVars, dirty, adding, phase, todo, inject,
                 resetting, truncVars>>

(***************************************************************************)
(* add                                                                     *)
(***************************************************************************)
IsLocal(t) == t.acc \in locals

\* validateTx, the checks that depend on the pool's state.
validateTx(t, local) ==
  /\ local \/ IsLocal(t) \/ t.price >= gasPrice
  /\ nonce[t.acc] =< t.nonce
  /\ t.price =< balance[t.acc]

Capacity == GlobalSlots + GlobalQueue
Full == Cardinality(all) >= Capacity

\* txPricedList.Underpriced
Underpriced(t) == ~IsLocal(t) /\ \A u \in all : u.price >= t.price

\* Mutant: makes no room for the new transaction itself.
DiscardShort ==
  {D \in SUBSET {t \in all : ~IsLocal(t)} : Cardinality(D) = Cardinality(all) - Capacity}

\* txPricedList.Discard: the cheapest remote transactions, as many as the pool
\* holds too many for one more.
Discard ==
  LET remote == {t \in all : ~IsLocal(t)}
      slots == Cardinality(all) - Capacity + 1
  IN {D \in SUBSET remote : /\ Cardinality(D) = Lower(slots, Cardinality(remote))
                            /\ \A t \in D, u \in remote \ D : ~Cheaper(u, t)}

\* The transaction passes the checks of add that return early.
Admitted(t, local) ==
  /\ t \notin all
  /\ validateTx(t, local)
  /\ Full => local \/ ~Underpriced(t)

\* The end of add: t replaces a pending transaction, or else goes to the queue.
Insert(t, local) ==
  LET a == t.acc
      overlaps == t.nonce \in Nonces(pending[a])
      list == IF overlaps THEN pending[a] ELSE queue[a]
      ok == t \in Inserted(list, {t})
      old == Replaced(list, {t})
  IN /\ SetPool(IF ~ok THEN Pool
                ELSE IF overlaps THEN [Pool EXCEPT !.pending[a] = ListAdd(@, {t}),
                                                   !.all = (@ \ old) \cup {t},
                                                   !.beats[a] = "fresh"]
                ELSE enqueueTx(Pool, a, {t}))
     /\ locals' = IF ok /\ local /\ ~overlaps THEN locals \cup {a} ELSE locals
     \* addTxsLocked: only a transaction that replaces none makes its sender
     \* dirty; the result is discarded when it is the reset that reinjects.
     /\ dirty' = IF ok /\ old = {} /\ phase = "idle" THEN dirty \cup {a} ELSE dirty

\* add: a refused transaction changes nothing; a full pool first makes room.
Add(t, local) ==
  IF Admitted(t, local)
  THEN IF Full
       THEN /\ drops' \in Discard
            /\ adding' = {[tx |-> t, local |-> local]}
            /\ UNCHANGED <<poolVars, locals, dirty>>
       ELSE Insert(t, local) /\ UNCHANGED <<drops, adding>>
  ELSE UNCHANGED <<poolVars, locals, dirty, drops, adding>>

\* AddLocal, AddRemote
AddTx(t, local) ==
  /\ Quiet
  /\ Add(t, local)
  /\ UNCHANGED <<gasPrice, chainVars, phase, todo, inject, resetting, truncVars>>

\* There is room now.
AddRoomy ==
  /\ drops = {}
  /\ \E x \in adding : Insert(x.tx, x.local)
  /\ adding' = {}
  /\ UNCHANGED <<gasPrice, chainVars, drops, phase, todo, inject, resetting, truncVars>>

(***************************************************************************)
(* Other entry points.                                                     *)
(***************************************************************************)
\* RemoveTx does not take pool.mu, but is modelled as if it did: with it in the
\* middle of a run, truncatePending may work on a list that is gone.
RemoveTx(t) ==
  /\ Quiet
  /\ t \in all
  /\ SetPool(removeTx(Pool, t))
  /\ UNCHANGED <<locals, gasPrice, chainVars, dirty, drops, adding, phase, todo, inject,
                 resetting, truncVars>>

SetGasPrice(price) ==
  /\ Quiet
  /\ gasPrice' = price
  /\ drops' = {t \in all : t.price < price /\ ~IsLocal(t)}
  /\ UNCHANGED <<poolVars, locals, chainVars, dirty, adding, phase, todo, inject,
                 resetting, truncVars>>

\* The eviction ticker of loop.
Evict ==
  /\ Quiet
  /\ drops' = UNION {queue[a] : a \in {b \in Accounts \ locals : beats[b] # "fresh"}}
  /\ UNCHANGED <<poolVars, locals, gasPrice, chainVars, dirty, adding, phase, todo,
                 inject, resetting, truncVars>>

\* Time passes (external): the heartbeat of a is beyond Lifetime.
Lapse(a) ==
  /\ beats[a] = "fresh"
  /\ beats' = [beats EXCEPT ![a] = "old"]
  /\ UNCHANGED <<pending, queue, all, nonces, locals, gasPrice, chainVars, dirty, drops,
                 adding, phase, todo, inject, resetting, truncVars>>

(***************************************************************************)
(* runReorg                                                                *)
(***************************************************************************)
\* A run without a reset, for the accounts D.
RunPromote(D) ==
  /\ Quiet
  /\ dirty' = dirty \ D
  /\ phase' = "promote"
  /\ todo' = D
  /\ resetting' = FALSE
  /\ UNCHANGED <<poolVars, locals, gasPrice, chainVars, drops, adding, inject, truncVars>>

\* A run with a reset to a head with nonces ns and balances bs; the
\* transactions R left the chain.  It takes the requests of D with it.
RunReset(ns, bs, R, D) ==
  /\ Quiet
  /\ nonce' = ns
  /\ balance' = bs
  /\ nonces' = ns
  /\ inject' = R
  /\ phase' = "reinject"
  /\ resetting' = TRUE
  /\ dirty' = dirty \ D
  /\ UNCHANGED <<pending, queue, all, beats, locals, gasPrice, drops, adding, todo,
                 truncVars>>

\* The reset returns early (the old head is gone after a setHead, or the new
\* state is not available); the run goes on with the state it had.
RunFailedReset(D) ==
  /\ Quiet
  /\ phase' = "reinject"
  /\ resetting' = TRUE
  /\ dirty' = dirty \ D
  /\ UNCHANGED <<poolVars, locals, gasPrice, chainVars, drops, adding, todo, inject,
                 truncVars>>

\* reset: addTxsLocked(reinject, false)
Reinject(t) ==
  /\ phase = "reinject" /\ NoLoop
  /\ t \in inject
  /\ inject' = inject \ {t}
  /\ Add(t, FALSE)
  /\ UNCHANGED <<gasPrice, chainVars, phase, todo, resetting, truncVars>>

\* The reset is done: every account with queued transactions is to be promoted.
Reinjected ==
  /\ phase = "reinject" /\ NoLoop
  /\ inject = {}
  /\ phase' = "promote"
  /\ todo' = {a \in Accounts : queue[a] # {}}
  /\ UNCHANGED <<poolVars, locals, gasPrice, chainVars, dirty, drops, adding, inject,
                 resetting, truncVars>>

\* promoteExecutables and promoteTx, on account a.
Promote(P, a) ==
  LET live == {t \in P.queue[a] : t.nonce >= nonce[a] /\ t.price =< balance[a]}
      ready == Ready(live, P.nonces[a])
      accepted == Inserted(P.pending[a], ready)
      left == live \ ready
      caps == IF a \in locals THEN {} ELSE Excess(left, AccountQueue)
  IN [P EXCEPT
        !.pending[a] = ListAdd(@, ready),
        !.queue[a] = left \ caps,
        !.all = @ \ ((P.queue[a] \ live) \cup (ready \ accepted)
                      \cup Replaced(P.pending[a], ready) \cup caps),
        !.nonces[a] = IF accepted = {} THEN @ ELSE LastNonce(accepted) + 1,
        !.beats[a] = IF left \ caps = {} THEN "none" ELSE IF accepted # {} THEN "fresh" ELSE @]

PromoteAccount(a) ==
  /\ phase = "promote"
  /\ a \in todo
  /\ todo' = todo \ {a}
  /\ SetPool(IF queue[a] = {} THEN Pool ELSE Promote(Pool, a))
  /\ UNCHANGED <<locals, gasPrice, chainVars, dirty, drops, adding, phase, inject,
                 resetting, truncVars>>

Promoted ==
  /\ phase = "promote"
  /\ todo = {}
  /\ phase' = IF resetting THEN "demote" ELSE "truncate"
  /\ todo' = IF resetting THEN {a \in Accounts : pending[a] # {}} ELSE {}
  /\ UNCHANGED <<poolVars, locals, gasPrice, chainVars, dirty, drops, adding, inject,
                 resetting, truncVars>>

\* Mutant: a gap in front is not looked for.
DemoteGapped(P, a) ==
  LET new == {t \in P.pending[a] : t.nonce >= nonce[a]}
      unpayable == {t \in new : t.price > balance[a]}
      invalids == {t \in new \ unpayable : \E u \in unpayable : u.nonce < t.nonce}
  IN enqueueTx([P EXCEPT !.pending[a] = new \ (unpayable \cup invalids),
                         !.all = @ \ ((P.pending[a] \ new) \cup unpayable)],
               a, invalids)

\* demoteUnexecutables, on account a: what is included or unpayable is dropped,
\* what follows it, or a gap in front, goes back to the queue.
Demote(P, a) ==
  LET new == {t \in P.pending[a] : t.nonce >= nonce[a]}
      unpayable == {t \in new : t.price > balance[a]}
      invalids == {t \in new \ unpayable : \E u \in unpayable : u.nonce < t.nonce}
      kept == new \ (unpayable \cup invalids)
      gapped == IF nonce[a] \in Nonces(kept) THEN {} ELSE kept
  IN enqueueTx([P EXCEPT !.pending[a] = kept \ gapped,
                         !.all = @ \ ((P.pending[a] \ new) \cup unpayable)],
               a, invalids \cup gapped)

DemoteAccount(a) ==
  /\ phase = "demote"
  /\ a \in todo
  /\ todo' = todo \ {a}
  /\ SetPool(Demote(Pool, a))
  /\ UNCHANGED <<locals, gasPrice, chainVars, dirty, drops, adding, phase, inject,
                 resetting, truncVars>>

Demoted ==
  /\ phase = "demote"
  /\ todo = {}
  /\ phase' = "truncate"
  /\ UNCHANGED <<poolVars, locals, gasPrice, chainVars, dirty, drops, adding, todo,
                 inject, resetting, truncVars>>

(***************************************************************************)
(* truncatePending                                                         *)
(***************************************************************************)
Size(a) == Cardinality(pending[a])
PendingCount == Cardinality(UNION {pending[a] : a \in Accounts})

\* The spam order: remote accounts above their guaranteed slots.
StartTruncate ==
  /\ phase = "truncate"
  /\ phase' = "truncPending"
  /\ count' = PendingCount
  /\ spammers' = {[acc |-> a, size |-> Size(a)] :
                    a \in {b \in Accounts \ locals : Size(b) > AccountSlots}}
  /\ UNCHANGED <<poolVars, locals, gasPrice, chainVars, dirty, drops, adding, todo,
                 inject, resetting, offenders>>

\* The offenders before the last one have more than it.
Unequal ==
  LET n == Len(offenders) IN n > 1 /\ Size(offenders[n - 1]) > Size(offenders[n])

\* Cap(Len - 1) on each of the accounts S.
Shorten(S) ==
  LET top(a) == IF a \in S THEN Excess(pending[a], Size(a) - 1) ELSE {}
  IN /\ SetPool([Pool EXCEPT
                   !.pending = [a \in Accounts |-> @[a] \ top(a)],
                   !.all = @ \ UNION {top(a) : a \in S},
                   !.nonces = [a \in Accounts |-> IF top(a) = {} THEN @[a]
                                                  ELSE Lower(LastNonce(top(a)), @[a])]])
     /\ count' = count - Cardinality(S)

Truncating == phase = "truncPending" /\ count > GlobalSlots

NextOffender ==
  /\ Truncating /\ ~Unequal
  /\ \E s \in spammers :
       /\ \A r \in spammers : r.size =< s.size
       /\ offenders' = Append(offenders, s.acc)
       /\ spammers' = spammers \ {s}
  /\ UNCHANGED <<poolVars, locals, gasPrice, chainVars, dirty, drops, adding, phase,
                 todo, inject, resetting, count>>

Equalize ==
  /\ Truncating /\ Unequal
  /\ Shorten({offenders[i] : i \in 1..Len(offenders) - 1})
  /\ UNCHANGED <<locals, gasPrice, chainVars, dirty, drops, adding, phase, todo, inject,
                 resetting, spammers, offenders>>

\* Mutants: the guarantee is off by one, either way.
ExcessiveLate == offenders # <<>> /\ Size(offenders[Len(offenders)]) > AccountSlots + 1
ExcessiveEarly == offenders # <<>> /\ Size(offenders[Len(offenders)]) >= AccountSlots

\* The last offender has more than its guaranteed slots.
Excessive == offenders # <<>> /\ Size(offenders[Len(offenders)]) > AccountSlots

Reduce ==
  /\ Truncating /\ ~Unequal /\ spammers = {} /\ Excessive
  /\ Shorten({offenders[i] : i \in DOMAIN offenders})
  /\ UNCHANGED <<locals, gasPrice, chainVars, dirty, drops, adding, phase, todo, inject,
                 resetting, spammers, offenders>>

PendingTruncated ==
  /\ phase = "truncPending"
  /\ count =< GlobalSlots \/ (~Unequal /\ spammers = {} /\ ~Excessive)
  /\ phase' = "truncQueue"
  /\ spammers' = {}
  /\ offenders' = <<>>
  /\ count' = 0
  /\ UNCHANGED <<poolVars, locals, gasPrice, chainVars, dirty, drops, adding, todo,
                 inject, resetting>>

(***************************************************************************)
(* truncateQueue and the end of runReorg                                   *)
(***************************************************************************)
QueueCount == Cardinality(UNION {queue[a] : a \in Accounts})

\* Mutant: locals are not spared.
VictimsAll == {a \in Accounts : queue[a] # {}}

\* The remote accounts with queued transactions.
Victims == {a \in Accounts \ locals : queue[a] # {}}

\* The heartbeat of a is after that of b.
Later(a, b) == beats[a] = "fresh" /\ beats[b] # "fresh"

\* The account at the end of addressesByHeartbeat loses all it has, or the
\* highest nonces as far as the queue is above its limit.
TruncateQueue(a) ==
  /\ phase = "truncQueue" /\ NoLoop
  /\ QueueCount > GlobalQueue
  /\ a \in Victims
  /\ \A b \in Victims : ~Later(b, a)
  /\ drops' = Excess(queue[a], Cardinality(queue[a]) - (QueueCount - GlobalQueue))
  /\ UNCHANGED <<poolVars, locals, gasPrice, chainVars, dirty, adding, phase, todo,
                 inject, resetting, truncVars>>

QueueTruncated ==
  /\ phase = "truncQueue" /\ NoLoop
  /\ QueueCount =< GlobalQueue \/ Victims = {}
  /\ phase' = "finish"
  /\ UNCHANGED <<poolVars, locals, gasPrice, chainVars, dirty, drops, adding, todo,
                 inject, resetting, truncVars>>

\* The virtual nonces follow the last pending transactions; pool.mu is released.
Finish ==
  /\ phase = "finish"
  /\ phase' = "idle"
  /\ resetting' = FALSE
  /\ nonces' = [a \in Accounts |->
                  IF pending[a] = {} THEN nonces[a] ELSE LastNonce(pending[a]) + 1]
  /\ UNCHANGED <<pending, queue, all, beats, locals, gasPrice, chainVars, dirty, drops,
                 adding, todo, inject, truncVars>>

-----------------------------------------------------------------------------
\* What a head with nonces ns undoes (external): one transaction for each nonce
\* that is unused again, or, if the reorg is too deep to look, none.
Undone(ns) ==
  {R \in SUBSET {t \in Txs : ns[t.acc] =< t.nonce /\ t.nonce < nonce[t.acc]} :
     \/ R = {}
     \/ \A a \in Accounts : \A n \in ns[a]..nonce[a] - 1 :
          Cardinality({t \in R : t.acc = a /\ t.nonce = n}) = 1}

Heads ==
  {ns \in [Accounts -> 0..MaxNonce + 1] : Reorgs \/ \A a \in Accounts : nonce[a] =< ns[a]}

NewHead ==
  /\ Resets
  /\ \E D \in SUBSET dirty :
       \/ \E ns \in Heads, bs \in [Accounts -> Balances] :
            \E R \in Undone(ns) : RunReset(ns, bs, R, D)
       \/ RunFailedReset(D)

Run ==
  \/ \E t \in inject : Reinject(t)
  \/ Reinjected
  \/ \E a \in Accounts : PromoteAccount(a)
  \/ Promoted
  \/ \E a \in Accounts : DemoteAccount(a)
  \/ Demoted
  \/ StartTruncate \/ NextOffender \/ Equalize \/ Reduce \/ PendingTruncated
  \/ \E a \in Accounts : TruncateQueue(a)
  \/ QueueTruncated
  \/ Finish

Next ==
  \/ \E t \in Txs, local \in BOOLEAN : AddTx(t, local)
  \/ AddRoomy
  \/ \E t \in drops : Drop(t)
  \/ \E t \in all : RemoveTx(t)
  \/ \E price \in Prices : SetGasPrice(price)
  \/ Evict
  \/ \E a \in Accounts : Lapse(a)
  \/ \E D \in SUBSET dirty : RunPromote(D)
  \/ NewHead
  \/ Run

Spec == Init /\ [][Next]_vars
-----------------------------------------------------------------------------
(***************************************************************************)
(* Properties                                                              *)
(***************************************************************************)
Listed == UNION {pending[a] \cup queue[a] : a \in Accounts}

\* pool.all is exactly what the lists hold: a transaction that an outbid, a
\* demotion or a removal takes out of a list does not stay known for ever, and
\* a listed one can always be found and removed by its hash.
AllTracked == all = Listed

\* A nonce of an account is held once, in its pending list or in its queue, so
\* that removeTx, which looks a transaction up by its nonce, removes that one.
NoncesUnique ==
  \A a \in Accounts : \A t, u \in pending[a] \cup queue[a] :
    /\ t.acc = a
    /\ t.nonce = u.nonce => t = u
    /\ t \in pending[a] => t \notin queue[a]

\* At rest the pending transactions of an account are payable, and the first
\* of them is the one the chain state asks for.
FrontExecutable ==
  Quiet => \A a \in Accounts :
             /\ \A t \in pending[a] : nonce[a] =< t.nonce /\ t.price =< balance[a]
             /\ pending[a] # {} => nonce[a] \in Nonces(pending[a])

\* At rest the pending nonces of an account lead from its state nonce to its
\* virtual nonce without a gap: all of them can be executed in turn, and the
\* virtual nonce is the next one to use.
NoGaps ==
  Quiet => \A a \in Accounts : /\ nonce[a] =< nonces[a]
                               /\ Nonces(pending[a]) = nonce[a]..nonces[a] - 1

\* A queued account has a heartbeat: without one the next eviction tick would
\* take a transaction that has just arrived.
QueueBeats == \A a \in Accounts : queue[a] # {} => beats[a] # "none"

\* The pool holds no more than its capacity, unless local transactions fill it:
\* then at most one remote one is among them.
PoolBound ==
  NoLoop => \/ Cardinality(all) =< Capacity
            \/ Cardinality({t \in all : ~IsLocal(t)}) =< 1

\* A run leaves the pending transactions within GlobalSlots unless every remote
\* account is within its guaranteed slots, and the queue within GlobalQueue
\* unless only local accounts have queued transactions.
LimitsHold ==
  phase = "finish" =>
    /\ \/ PendingCount =< GlobalSlots
       \/ \A a \in Accounts \ locals : Size(a) =< AccountSlots
    /\ QueueCount =< GlobalQueue \/ Victims = {}

\* truncatePending cuts no account below its guaranteed slots, and no local
\* account at all.
GuaranteedSlots ==
  [][phase = "truncPending" =>
       \A a \in Accounts : pending'[a] # pending[a] =>
         a \notin locals /\ Cardinality(pending'[a]) >= AccountSlots]_vars

\* A transaction of a local account leaves the pool only when it is included
\* or unpayable, when another with its nonce takes its place, or when RemoveTx
\* asks for it: no limit and no price drops it.
LocalsKept ==
  [][\A t \in all \ all' : IsLocal(t) =>
       \/ t.nonce < nonce[t.acc] \/ t.price > balance[t.acc]
       \/ \E u \in all' : u.acc = t.acc /\ u.nonce = t.nonce
       \/ RemoveTx(t)]_vars

\* At rest no account has nothing pending while its next transaction is in the
\* queue, unless the promotion of the account is still to run.  (Behind pending
\* ones a transaction may be left: a run with a reset promotes from the nonce
\* of the state.)
ReadyPromoted ==
  Quiet => \A a \in Accounts \ dirty :
    pending[a] = {} => nonces[a] \notin Nonces(queue[a])
=============================================================================
