---------------------------- MODULE TxPoolProofs ----------------------------
(***************************************************************************)
(* For any accounts, prices and limits: the lists of the transaction pool  *)
(* and its lookup table agree, also between the steps of a run; local      *)
(* transactions are kept; at rest the pending lists are executable, and    *)
(* without reorganisations have no gaps; what is ready is promoted; and    *)
(* the pool stays within its capacity and limits.                          *)
(*                                                                         *)
(* Every operation but truncatePending works on the lists of one account.  *)
(* AccountInv is what the lists of an account must satisfy, PoolInv that   *)
(* every account satisfies it; one lemma per operation shows that the pool *)
(* it computes satisfies PoolInv.  For the rest a step is reduced to what  *)
(* it does to the lists of one account (Kept, Cut, Queued, Promotes,       *)
(* Demotes), and each further invariant is shown to survive those.         *)
(***************************************************************************)
EXTENDS TxPool, TxPoolReorg, TLAPS, FiniteSetTheorems, WellFoundedInduction

PoolType ==
  [pending : [Accounts -> SUBSET Txs], queue : [Accounts -> SUBSET Txs], all : SUBSET Txs,
   nonces : [Accounts -> 0..MaxNonce + 1], beats : [Accounts -> {"none", "fresh", "old"}]]

\* Pending list p and queue q of account a agree with the lookup table A and
\* the heartbeat beat.
AccountInv(a, p, q, A, beat) ==
  /\ \A t \in p \cup q : t.acc = a
  /\ \A t, u \in p \cup q : t.nonce = u.nonce => t = u
  /\ \A t \in p : t \notin q
  /\ \A t \in Txs : t.acc = a => (t \in A <=> t \in p \/ t \in q)
  /\ q # {} => beat # "none"

PoolInv(P) ==
  /\ P \in PoolType
  /\ \A a \in Accounts : AccountInv(a, P.pending[a], P.queue[a], P.all, P.beats[a])

-----------------------------------------------------------------------------
(***************************************************************************)
(* Finite sets and nonces                                                  *)
(***************************************************************************)
\* There are finitely many transactions, so every list has a size.
LEMMA TxsFinite == IsFiniteSet(Txs)
<1> DEFINE Triples == (Accounts \X (0..MaxNonce)) \X Prices
           f == [x \in Triples |-> [acc |-> x[1][1], nonce |-> x[1][2], price |-> x[2]]]
<1>1. IsFiniteSet(Accounts) /\ IsFiniteSet(Prices) /\ MaxNonce \in Nat
  BY TxPoolAssumption
<1>2. IsFiniteSet(0..MaxNonce)
  BY <1>1, FS_Interval
<1>3. IsFiniteSet(Accounts \X (0..MaxNonce))
  BY <1>1, <1>2, FS_Product
<1>4. IsFiniteSet(Triples)
  BY <1>1, <1>3, FS_Product
<1>5. Txs = {f[x] : x \in Triples}
  <2>1. ASSUME NEW t \in Txs PROVE t \in {f[x] : x \in Triples}
    <3>1. <<<<t.acc, t.nonce>>, t.price>> \in Triples
      BY DEF Txs
    <3>2. f[<<<<t.acc, t.nonce>>, t.price>>] = t
      BY <3>1 DEF Txs
    <3> QED BY <3>1, <3>2
  <2>2. ASSUME NEW x \in Triples PROVE f[x] \in Txs
    BY DEF Txs
  <2> QED BY <2>1, <2>2
<1>6. IsFiniteSet({f[x] : x \in Triples})
  <2> HIDE DEF Triples, f
  <2>1. f \in [Triples -> {f[x] : x \in Triples}]
    BY DEF f
  <2>2. \A y \in {f[x] : x \in Triples} : \E x \in Triples : f[x] = y
    OBVIOUS
  <2>3. f \in Surjection(Triples, {f[x] : x \in Triples})
    BY <2>1, <2>2 DEF Surjection
  <2> QED BY <1>4, <2>3, FS_Surjection
<1> QED BY <1>5, <1>6

LEMMA ListSize ==
  ASSUME NEW L, L \subseteq Txs PROVE IsFiniteSet(L) /\ Cardinality(L) \in Nat
BY TxsFinite, FS_Subset, FS_CardinalityType

\* A nonempty list has a last nonce.
LEMMA LastNonceType ==
  ASSUME NEW L, L \subseteq Txs, L # {}
  PROVE  /\ LastNonce(L) \in Nonces(L) /\ LastNonce(L) \in 0..MaxNonce
         /\ \A k \in Nonces(L) : k =< LastNonce(L)
<1> DEFINE T == {MaxNonce - n : n \in Nonces(L)}
<1>1. MaxNonce \in Nat
  BY TxPoolAssumption
<1>2. Nonces(L) \subseteq 0..MaxNonce /\ Nonces(L) # {}
  BY DEF Nonces, Txs
<1>3. T \subseteq Nat /\ T # {}
  BY <1>1, <1>2
<1>4. \E x \in T : \A y \in T : ~(<<y, x>> \in OpToRel(<, Nat))
  <2> HIDE DEF T
  <2> QED BY <1>3, NatLessThanWellFounded, WFMin
<1>5. PICK x \in T : \A y \in T : ~(y < x)
  <2> HIDE DEF T
  <2> QED BY <1>3, <1>4 DEF OpToRel
<1>6. PICK n \in Nonces(L) : x = MaxNonce - n
  OBVIOUS
<1>7. \A k \in Nonces(L) : k =< n
  <2>1. ASSUME NEW k \in Nonces(L) PROVE k =< n
    <3>1. MaxNonce - k \in T
      OBVIOUS
    <3>2. ~(MaxNonce - k < MaxNonce - n)
      BY <3>1, <1>5, <1>6
    <3>3. k \in Int /\ n \in Int
      BY <1>2, <1>1
    <3> HIDE DEF T
    <3> QED BY <3>2, <3>3, <1>1
  <2> QED BY <2>1
<1>8. LastNonce(L) \in Nonces(L) /\ \A k \in Nonces(L) : k =< LastNonce(L)
  <2>1. \E m \in Nonces(L) : \A k \in Nonces(L) : k =< m
    BY <1>7
  <2> QED BY <2>1 DEF LastNonce
<1> QED BY <1>2, <1>8

-----------------------------------------------------------------------------
(***************************************************************************)
(* Lists                                                                   *)
(***************************************************************************)
\* enqueueTx keeps the lists of its account in order, if what it enqueues is
\* not pending, and if the table lists what it lists but for what is accepted.
LEMMA EnqueueAccount ==
  ASSUME NEW a \in Accounts, NEW p \in SUBSET Txs, NEW q \in SUBSET Txs,
         NEW A \in SUBSET Txs, NEW S \in SUBSET Txs, NEW beat,
         \A t \in p \cup q \cup S : t.acc = a,
         \A t, u \in p \cup q : t.nonce = u.nonce => t = u,
         \A t, u \in p \cup S : t.nonce = u.nonce => t = u,
         \A t \in p : t \notin q /\ t \notin S,
         \A t \in Txs : t.acc = a =>
           (t \in A \/ t \in Inserted(q, S) <=> t \in p \/ t \in q \/ t \in Inserted(q, S)),
         q # {} => beat # "none"
  PROVE  AccountInv(a, p, ListAdd(q, S), (A \ Replaced(q, S)) \cup Inserted(q, S),
                    IF beat = "none" /\ Inserted(q, S) # {} THEN "fresh" ELSE beat)
<1> DEFINE I == Inserted(q, S)
           R == Replaced(q, S)
<1>1. I \subseteq S /\ R \subseteq q /\ ListAdd(q, S) = (q \ R) \cup I
  BY DEF Inserted, Replaced, ListAdd
<1>2. \A u \in q, t \in I : u.nonce = t.nonce => u \in R
  BY DEF Inserted, Replaced
<1>3. \A u \in R : \E t \in I : t.nonce = u.nonce
  BY DEF Replaced
<1>4. I \cap R = {}
  <2>1. ASSUME NEW t \in I, t \in R PROVE FALSE
    <3>1. t \in q /\ t \in Txs
      BY <2>1, <1>1
    <3>2. Outbids(t, t)
      BY <3>1 DEF Inserted
    <3>3. t.price \in Nat
      BY <3>1, TxPoolAssumption DEF Txs
    <3> QED BY <3>2, <3>3 DEF Outbids
  <2> QED BY <2>1
<1>5. \A t \in Txs : t.acc = a => (t \in A \/ t \in I <=> t \in p \/ t \in q \/ t \in I)
  OBVIOUS
<1> HIDE DEF I, R
<1>6. \A t \in Txs : t.acc = a =>
        (t \in (A \ R) \cup I <=> t \in p \/ t \in (q \ R) \cup I)
  BY <1>1, <1>4, <1>5
<1>7. \A t, u \in p \cup ((q \ R) \cup I) : t.nonce = u.nonce => t = u
  BY <1>1, <1>2
<1>8. (q \ R) \cup I # {} =>
        (IF beat = "none" /\ I # {} THEN "fresh" ELSE beat) # "none"
  OBVIOUS
<1>9. \A t \in p \cup ((q \ R) \cup I) : t.acc = a
  BY <1>1
<1>10. \A t \in p : t \notin (q \ R) \cup I
  BY <1>1
<1>11. AccountInv(a, p, (q \ R) \cup I, (A \ R) \cup I,
                  IF beat = "none" /\ I # {} THEN "fresh" ELSE beat)
  BY <1>6, <1>7, <1>8, <1>9, <1>10 DEF AccountInv
<1> QED BY <1>1, <1>11 DEF I, R

-----------------------------------------------------------------------------
(***************************************************************************)
(* Operations                                                              *)
(***************************************************************************)
\* Pools P and Q differ at most in what they hold of account a.
SameElsewhere(P, Q, a) ==
  /\ \A b \in Accounts \ {a} :
       Q.pending[b] = P.pending[b] /\ Q.queue[b] = P.queue[b] /\ Q.beats[b] = P.beats[b]
  /\ \A t \in Txs : t.acc # a => (t \in Q.all <=> t \in P.all)

\* An operation on the lists of one account has to keep that account in order.
LEMMA OneAccount ==
  ASSUME NEW P, NEW Q \in PoolType, NEW a \in Accounts,
         \A b \in Accounts \ {a} : AccountInv(b, P.pending[b], P.queue[b], P.all, P.beats[b]),
         SameElsewhere(P, Q, a),
         AccountInv(a, Q.pending[a], Q.queue[a], Q.all, Q.beats[a])
  PROVE  PoolInv(Q)
<1>1. ASSUME NEW b \in Accounts
      PROVE  AccountInv(b, Q.pending[b], Q.queue[b], Q.all, Q.beats[b])
  <2>1. CASE b = a
    BY <2>1
  <2>2. CASE b # a
    BY <2>2 DEF AccountInv, SameElsewhere
  <2> QED BY <2>1, <2>2
<1> QED BY <1>1 DEF PoolInv

LEMMA EnqueueFields ==
  ASSUME NEW P \in PoolType, NEW a \in Accounts, NEW S \in SUBSET Txs
  PROVE  LET Q == enqueueTx(P, a, S)
         IN /\ Q \in PoolType
            /\ Q.pending = P.pending /\ Q.nonces = P.nonces
            /\ Q.queue = [P.queue EXCEPT ![a] = ListAdd(P.queue[a], S)]
            /\ Q.all = (P.all \ Replaced(P.queue[a], S)) \cup Inserted(P.queue[a], S)
            /\ Q.beats = [P.beats EXCEPT ![a] =
                            IF P.beats[a] = "none" /\ Inserted(P.queue[a], S) # {}
                            THEN "fresh" ELSE P.beats[a]]
<1>1. /\ Inserted(P.queue[a], S) \in SUBSET Txs
      /\ ListAdd(P.queue[a], S) \in SUBSET Txs
  BY DEF PoolType, Inserted, ListAdd
<1>2. /\ P.queue[a] \in SUBSET Txs /\ P.beats[a] \in {"none", "fresh", "old"}
      /\ P.queue \in [Accounts -> SUBSET Txs]
      /\ P.beats \in [Accounts -> {"none", "fresh", "old"}]
  BY DEF PoolType
<1> DEFINE I == Inserted(P.queue[a], S)
           R == Replaced(P.queue[a], S)
           L == ListAdd(P.queue[a], S)
           q == [P.queue EXCEPT ![a] = L]
           b == [P.beats EXCEPT ![a] = IF P.beats[a] = "none" /\ I # {} THEN "fresh"
                                       ELSE P.beats[a]]
<1>3. enqueueTx(P, a, S) = [P EXCEPT !.queue = q, !.all = (P.all \ R) \cup I, !.beats = b]
  BY <1>2 DEF enqueueTx, PoolType
<1>4. /\ q \in [Accounts -> SUBSET Txs] /\ b \in [Accounts -> {"none", "fresh", "old"}]
      /\ (P.all \ R) \cup I \in SUBSET Txs
  BY <1>1, <1>2 DEF PoolType
<1> HIDE DEF I, R, L, q, b
<1>5. /\ enqueueTx(P, a, S) \in PoolType
      /\ enqueueTx(P, a, S).pending = P.pending
      /\ enqueueTx(P, a, S).nonces = P.nonces
      /\ enqueueTx(P, a, S).queue = q
      /\ enqueueTx(P, a, S).all = (P.all \ R) \cup I
      /\ enqueueTx(P, a, S).beats = b
  BY <1>3, <1>4 DEF PoolType
<1> QED BY <1>5 DEF I, R, L, q, b

\* EnqueueAccount for the pool as a whole.
LEMMA EnqueueInv ==
  ASSUME NEW P \in PoolType, NEW a \in Accounts, NEW S \in SUBSET Txs,
         \A b \in Accounts \ {a} : AccountInv(b, P.pending[b], P.queue[b], P.all, P.beats[b]),
         \A t \in P.pending[a] \cup P.queue[a] \cup S : t.acc = a,
         \A t, u \in P.pending[a] \cup P.queue[a] : t.nonce = u.nonce => t = u,
         \A t, u \in P.pending[a] \cup S : t.nonce = u.nonce => t = u,
         \A t \in P.pending[a] : t \notin P.queue[a] /\ t \notin S,
         \A t \in Txs : t.acc = a =>
           (t \in P.all \/ t \in Inserted(P.queue[a], S)
              <=> t \in P.pending[a] \/ t \in P.queue[a] \/ t \in Inserted(P.queue[a], S)),
         P.queue[a] # {} => P.beats[a] # "none"
  PROVE  PoolInv(enqueueTx(P, a, S))
<1> DEFINE Q == enqueueTx(P, a, S)
<1>1. /\ Q \in PoolType
      /\ Q.pending = P.pending
      /\ Q.queue = [P.queue EXCEPT ![a] = ListAdd(P.queue[a], S)]
      /\ Q.all = (P.all \ Replaced(P.queue[a], S)) \cup Inserted(P.queue[a], S)
      /\ Q.beats = [P.beats EXCEPT ![a] =
                      IF P.beats[a] = "none" /\ Inserted(P.queue[a], S) # {}
                      THEN "fresh" ELSE P.beats[a]]
  BY EnqueueFields
<1>2. P.pending[a] \in SUBSET Txs /\ P.queue[a] \in SUBSET Txs /\ P.all \in SUBSET Txs
  BY DEF PoolType
<1>3. /\ P.queue \in [Accounts -> SUBSET Txs]
      /\ P.beats \in [Accounts -> {"none", "fresh", "old"}]
  BY DEF PoolType
<1>4. AccountInv(a, P.pending[a], ListAdd(P.queue[a], S),
                 (P.all \ Replaced(P.queue[a], S)) \cup Inserted(P.queue[a], S),
                 IF P.beats[a] = "none" /\ Inserted(P.queue[a], S) # {} THEN "fresh"
                 ELSE P.beats[a])
  BY <1>2, EnqueueAccount
<1> HIDE DEF Q
<1>5. AccountInv(a, Q.pending[a], Q.queue[a], Q.all, Q.beats[a])
  BY <1>1, <1>3, <1>4
<1>6. \A t \in Replaced(P.queue[a], S) \cup Inserted(P.queue[a], S) : t.acc = a
  BY DEF Replaced, Inserted
<1>7. SameElsewhere(P, Q, a)
  BY <1>1, <1>3, <1>6 DEF SameElsewhere
<1>8. PoolInv(Q)
  BY <1>1, <1>5, <1>7, OneAccount
<1> QED BY <1>8 DEF Q

\* removeTx removes the transaction it is asked for, and loses no other.
LEMMA RemoveInv ==
  ASSUME NEW P, PoolInv(P), NEW t \in P.all
  PROVE  PoolInv(removeTx(P, t)) /\ removeTx(P, t).all = P.all \ {t}
<1> DEFINE a == t.acc
           p == P.pending[a]
           q == P.queue[a]
<1>1. /\ P \in PoolType /\ t \in Txs /\ a \in Accounts
      /\ p \in SUBSET Txs /\ q \in SUBSET Txs /\ t.nonce \in Nat
      /\ P.pending \in [Accounts -> SUBSET Txs] /\ P.queue \in [Accounts -> SUBSET Txs]
      /\ P.nonces \in [Accounts -> 0..MaxNonce + 1]
      /\ P.beats \in [Accounts -> {"none", "fresh", "old"}]
      /\ P.all \in SUBSET Txs
  BY TxPoolAssumption DEF PoolInv, PoolType, Txs
<1>2. AccountInv(a, p, q, P.all, P.beats[a])
  BY <1>1 DEF PoolInv
<1>3. \A b \in Accounts \ {a} : AccountInv(b, P.pending[b], P.queue[b], P.all, P.beats[b])
  BY DEF PoolInv
<1>4. \A u \in Txs : u.nonce \in 0..MaxNonce
  BY DEF Txs
<1>5. CASE t.nonce \in Nonces(p)
  <2> DEFINE S == {u \in p : u.nonce > t.nonce}
             p1 == [P.pending EXCEPT ![a] = {u \in p : u.nonce < t.nonce}]
             n1 == [P.nonces EXCEPT ![a] = Lower(t.nonce, P.nonces[a])]
             M == [P EXCEPT !.pending = p1, !.all = P.all \ {t}, !.nonces = n1]
  <2>1. removeTx(P, t) = enqueueTx(M, a, S)
    BY <1>1, <1>5 DEF removeTx, PoolType
  <2>2. p1 \in [Accounts -> SUBSET Txs]
    BY <1>1
  <2>3. Lower(t.nonce, P.nonces[a]) \in 0..MaxNonce + 1
    BY <1>1, <1>4, TxPoolAssumption DEF Lower
  <2>4. n1 \in [Accounts -> 0..MaxNonce + 1]
    BY <1>1, <2>3
  <2>5. /\ M \in PoolType /\ M.pending = p1 /\ M.all = P.all \ {t}
        /\ M.queue = P.queue /\ M.beats = P.beats
    <3> HIDE DEF p1, n1
    <3> QED BY <1>1, <2>2, <2>4 DEF PoolType
  <2>6. t \in p
    <3>1. t \in p \cup q
      BY <1>1, <1>2 DEF AccountInv
    <3>2. PICK u \in p : u.nonce = t.nonce
      BY <1>5 DEF Nonces
    <3> QED BY <3>1, <3>2, <1>2 DEF AccountInv
  <2>7. /\ M.pending[a] = {u \in p : u.nonce < t.nonce}
        /\ M.queue[a] = q /\ M.beats[a] = P.beats[a]
        /\ \A b \in Accounts \ {a} : M.pending[b] = P.pending[b]
    BY <1>1, <2>5
  <2> HIDE DEF M, p1, n1
  <2>8. S \in SUBSET Txs /\ S \subseteq p
    BY <1>1
  <2>9. \A u \in p : u = t \/ u \in M.pending[a] \/ u \in S
    BY <1>1, <1>2, <1>4, <2>6, <2>7 DEF AccountInv
  <2>10. t \notin M.pending[a] /\ t \notin S /\ t \notin q /\ M.pending[a] \subseteq p
    BY <1>1, <1>2, <2>6, <2>7 DEF AccountInv
  <2>11. Inserted(q, S) = S
    BY <1>2, <2>8 DEF AccountInv, Inserted
  <2>12. \A u \in M.pending[a] : u \notin S
    BY <1>1, <1>4, <2>7
  <2>13. \A u \in Txs : u.acc = a =>
           (u \in M.all \/ u \in S <=> u \in M.pending[a] \/ u \in q \/ u \in S)
    BY <1>2, <2>5, <2>6, <2>8, <2>9, <2>10 DEF AccountInv
  <2>14. \A b \in Accounts \ {a} : AccountInv(b, M.pending[b], M.queue[b], M.all, M.beats[b])
    BY <1>3, <2>5, <2>7 DEF AccountInv
  <2>15. /\ \A u \in M.pending[a] \cup M.queue[a] \cup S : u.acc = a
         /\ \A u, v \in M.pending[a] \cup M.queue[a] : u.nonce = v.nonce => u = v
         /\ \A u, v \in M.pending[a] \cup S : u.nonce = v.nonce => u = v
         /\ \A u \in M.pending[a] : u \notin M.queue[a] /\ u \notin S
         /\ M.queue[a] # {} => M.beats[a] # "none"
    BY <1>2, <2>7, <2>8, <2>10, <2>12 DEF AccountInv
  <2> HIDE DEF S
  <2>16. PoolInv(enqueueTx(M, a, S))
    BY <1>1, <2>5, <2>7, <2>8, <2>11, <2>13, <2>14, <2>15, EnqueueInv
  <2>17. Replaced(q, S) = {}
    BY <1>2, <2>8 DEF AccountInv, Replaced, Inserted
  <2>18. enqueueTx(M, a, S).all = (M.all \ Replaced(q, S)) \cup S
    <3>1. enqueueTx(M, a, S).all
            = (M.all \ Replaced(M.queue[a], S)) \cup Inserted(M.queue[a], S)
      <4> HIDE DEF a
      <4> QED BY <1>1, <2>5, <2>8, EnqueueFields
    <3> QED BY <2>7, <2>11, <3>1
  <2>19. S \subseteq M.all
    BY <1>1, <1>2, <2>5, <2>8, <2>10 DEF AccountInv
  <2> QED BY <2>1, <2>5, <2>16, <2>17, <2>18, <2>19
<1>6. CASE t.nonce \notin Nonces(p)
  <2> DEFINE left == {u \in q : u.nonce # t.nonce}
             q1 == [P.queue EXCEPT ![a] = left]
             b1 == [P.beats EXCEPT ![a] = IF q # {} /\ left = {} THEN "none" ELSE P.beats[a]]
             Q == [P EXCEPT !.queue = q1, !.all = P.all \ {t}, !.beats = b1]
  <2>1. removeTx(P, t) = Q
    BY <1>1, <1>6 DEF removeTx, PoolType
  <2>2. q1 \in [Accounts -> SUBSET Txs] /\ b1 \in [Accounts -> {"none", "fresh", "old"}]
    BY <1>1
  <2>3. /\ Q \in PoolType /\ Q.pending = P.pending /\ Q.all = P.all \ {t}
        /\ Q.queue = q1 /\ Q.beats = b1
    <3> HIDE DEF q1, b1
    <3> QED BY <1>1, <2>2 DEF PoolType
  <2>4. t \in q
    BY <1>1, <1>2, <1>6 DEF AccountInv, Nonces
  <2>5. left = q \ {t} /\ t \notin p
    BY <1>2, <2>4 DEF AccountInv
  <2>6. /\ Q.queue[a] = q \ {t} /\ Q.pending[a] = p
        /\ Q.queue[a] # {} => Q.beats[a] # "none"
        /\ \A b \in Accounts \ {a} : Q.queue[b] = P.queue[b] /\ Q.beats[b] = P.beats[b]
    <3>1. q # {} => P.beats[a] # "none"
      BY <1>2 DEF AccountInv
    <3> QED BY <1>1, <2>3, <2>5, <3>1
  <2> HIDE DEF Q, q1, b1, left
  <2>7. AccountInv(a, Q.pending[a], Q.queue[a], Q.all, Q.beats[a])
    BY <1>2, <2>3, <2>5, <2>6 DEF AccountInv
  <2>8. SameElsewhere(P, Q, a)
    BY <2>3, <2>6 DEF SameElsewhere
  <2>9. PoolInv(Q)
    BY <1>1, <1>3, <2>3, <2>7, <2>8, OneAccount
  <2> QED BY <2>1, <2>3, <2>9
<1> QED BY <1>5, <1>6

\* The account state a run works with.
ChainType == nonce \in [Accounts -> 0..MaxNonce + 1] /\ balance \in [Accounts -> Balances]

\* The chain state makes t invalid: it is included or unpayable.
Invalid(t) == t.nonce < nonce[t.acc] \/ t.price > balance[t.acc]

\* The nonce and the price of a transaction are numbers.
LEMMA TxNumbers ==
  ASSUME NEW t \in Txs PROVE t.nonce \in Int /\ t.price \in Int
<1>1. t.nonce \in 0..MaxNonce /\ t.price \in Prices
  BY DEF Txs
<1>2. \A x \in Prices : x \in Int
  BY TxPoolAssumption
<1> QED BY <1>1, <1>2

LEMMA ChainNumbers ==
  ASSUME ChainType, NEW a \in Accounts PROVE nonce[a] \in Int /\ balance[a] \in Int
<1>1. nonce[a] \in 0..MaxNonce + 1 /\ balance[a] \in Balances
  BY DEF ChainType
<1>2. \A b \in Balances : b \in Int
  BY TxPoolAssumption
<1>3. MaxNonce \in Nat
  BY TxPoolAssumption
<1> QED BY <1>1, <1>2, <1>3

\* promoteExecutables on one account: a local account loses only what is invalid.
LEMMA PromoteInv ==
  ASSUME NEW P, PoolInv(P), NEW a \in Accounts, P.queue[a] # {}, ChainType
  PROVE  /\ PoolInv(Promote(P, a))
         /\ \A t \in P.all \ Promote(P, a).all : t.acc = a /\ (a \in locals => Invalid(t))
<1> DEFINE p == P.pending[a]
           q == P.queue[a]
           live == {t \in q : t.nonce >= nonce[a] /\ t.price =< balance[a]}
           ready == Ready(live, P.nonces[a])
           accepted == Inserted(p, ready)
           left == live \ ready
           caps == IF a \in locals THEN {} ELSE Excess(left, AccountQueue)
           gone == (q \ live) \cup (ready \ accepted) \cup Replaced(p, ready) \cup caps
           n == IF accepted = {} THEN P.nonces[a] ELSE LastNonce(accepted) + 1
           b == IF left \ caps = {} THEN "none"
                ELSE IF accepted # {} THEN "fresh" ELSE P.beats[a]
           p1 == [P.pending EXCEPT ![a] = ListAdd(p, ready)]
           q1 == [P.queue EXCEPT ![a] = left \ caps]
           n1 == [P.nonces EXCEPT ![a] = n]
           b1 == [P.beats EXCEPT ![a] = b]
           Q == [P EXCEPT !.pending = p1, !.queue = q1, !.all = P.all \ gone,
                          !.nonces = n1, !.beats = b1]
<1>1. /\ P \in PoolType
      /\ P.pending \in [Accounts -> SUBSET Txs] /\ P.queue \in [Accounts -> SUBSET Txs]
      /\ P.nonces \in [Accounts -> 0..MaxNonce + 1]
      /\ P.beats \in [Accounts -> {"none", "fresh", "old"}]
      /\ P.all \in SUBSET Txs /\ p \in SUBSET Txs /\ q \in SUBSET Txs
  BY DEF PoolInv, PoolType
<1>2. AccountInv(a, p, q, P.all, P.beats[a])
  BY DEF PoolInv
<1>3. live \subseteq q /\ ready \subseteq live /\ caps \subseteq left /\ accepted \subseteq ready
  BY DEF Ready, Excess, Inserted
<1>4. Promote(P, a) = Q
  BY <1>1 DEF Promote, PoolType
<1>5. accepted = ready /\ Replaced(p, ready) = {}
  <2> HIDE DEF ready, live
  <2>1. ASSUME NEW t \in ready, NEW u \in p PROVE t.nonce # u.nonce
    BY <1>2, <1>3 DEF AccountInv
  <2> QED BY <2>1 DEF Inserted, Replaced
<1>6. ListAdd(p, ready) = p \cup ready
  <2> HIDE DEF ready
  <2> QED BY <1>5 DEF ListAdd
<1> HIDE DEF live, ready, caps
<1>7. n \in 0..MaxNonce + 1
  <2>1. CASE accepted = {}
    BY <1>1, <2>1
  <2>2. CASE accepted # {}
    <3>1. accepted \subseteq Txs
      BY <1>1, <1>3
    <3> HIDE DEF accepted
    <3>2. LastNonce(accepted) \in 0..MaxNonce
      BY <3>1, <2>2, LastNonceType
    <3> QED BY <3>2, <2>2, TxPoolAssumption
  <2> QED BY <2>1, <2>2
<1>8. p1 \in [Accounts -> SUBSET Txs] /\ q1 \in [Accounts -> SUBSET Txs]
  BY <1>1, <1>3, <1>6
<1>9. n1 \in [Accounts -> 0..MaxNonce + 1] /\ b1 \in [Accounts -> {"none", "fresh", "old"}]
  <2> HIDE DEF n
  <2> QED BY <1>1, <1>7
<1>10. /\ Q \in PoolType /\ Q.pending = p1 /\ Q.queue = q1 /\ Q.all = P.all \ gone
       /\ Q.beats = b1
  <2> HIDE DEF p1, q1, n1, b1, gone
  <2> QED BY <1>1, <1>8, <1>9 DEF PoolType
<1>11. /\ Q.pending[a] = p \cup ready /\ Q.queue[a] = left \ caps
       /\ Q.beats[a] = b
       /\ \A c \in Accounts \ {a} : /\ Q.pending[c] = P.pending[c]
                                    /\ Q.queue[c] = P.queue[c] /\ Q.beats[c] = P.beats[c]
  <2> HIDE DEF b, Q
  <2> QED BY <1>1, <1>6, <1>10
<1>12. left \ caps # {} => b # "none"
  BY <1>2 DEF AccountInv
<1>13. gone = (q \ live) \cup caps
  BY <1>5
<1> HIDE DEF Q, b, gone
<1>14. AccountInv(a, Q.pending[a], Q.queue[a], Q.all, Q.beats[a])
  <2>1. \A t \in Txs : t.acc = a =>
          (t \in Q.all <=> t \in p \cup ready \/ t \in left \ caps)
    BY <1>2, <1>3, <1>10, <1>13 DEF AccountInv
  <2>2. \A t \in (p \cup ready) \cup (left \ caps) : t \in p \cup q
    BY <1>3
  <2>3. \A t \in p \cup ready : t \notin left \ caps
    BY <1>2, <1>3 DEF AccountInv
  <2> HIDE DEF left
  <2> QED BY <1>2, <1>11, <1>12, <2>1, <2>2, <2>3 DEF AccountInv
<1>15. \A t \in gone : t.acc = a
  BY <1>2, <1>3, <1>13 DEF AccountInv
<1>16. SameElsewhere(P, Q, a)
  BY <1>10, <1>11, <1>15 DEF SameElsewhere
<1>17. \A c \in Accounts \ {a} : AccountInv(c, P.pending[c], P.queue[c], P.all, P.beats[c])
  BY DEF PoolInv
<1>18. PoolInv(Q)
  BY <1>10, <1>14, <1>16, <1>17, OneAccount
<1>19. ASSUME NEW t \in P.all \ Q.all, a \in locals PROVE Invalid(t)
  <2>1. t \in q \ live /\ t.acc = a
    BY <1>10, <1>13, <1>15, <1>19 DEF caps
  <2>2. ~(t.nonce >= nonce[a] /\ t.price =< balance[a])
    BY <2>1 DEF live
  <2>3. t.nonce \in Int /\ t.price \in Int
    <3>1. t \in Txs
      BY <1>1
    <3> QED BY <3>1, TxNumbers
  <2>4. nonce[a] \in Int /\ balance[a] \in Int
    BY ChainNumbers
  <2> QED BY <2>1, <2>2, <2>3, <2>4 DEF Invalid
<1>20. \A t \in P.all \ Q.all : t.acc = a
  BY <1>10, <1>15
<1> QED BY <1>4, <1>18, <1>19, <1>20

\* demoteUnexecutables on one account: only what is invalid is lost.
LEMMA DemoteInv ==
  ASSUME NEW P, PoolInv(P), NEW a \in Accounts, ChainType
  PROVE  /\ PoolInv(Demote(P, a))
         /\ \A t \in P.all \ Demote(P, a).all : Invalid(t)
<1> DEFINE p == P.pending[a]
           q == P.queue[a]
           new == {t \in p : t.nonce >= nonce[a]}
           unpayable == {t \in new : t.price > balance[a]}
           invalids == {t \in new \ unpayable : \E u \in unpayable : u.nonce < t.nonce}
           kept == new \ (unpayable \cup invalids)
           gapped == IF nonce[a] \in Nonces(kept) THEN {} ELSE kept
           gone == (p \ new) \cup unpayable
           S == invalids \cup gapped
           p1 == [P.pending EXCEPT ![a] = kept \ gapped]
           M == [P EXCEPT !.pending = p1, !.all = P.all \ gone]
<1>1. /\ P \in PoolType
      /\ P.pending \in [Accounts -> SUBSET Txs]
      /\ P.all \in SUBSET Txs /\ p \in SUBSET Txs /\ q \in SUBSET Txs
  BY DEF PoolInv, PoolType
<1>2. AccountInv(a, p, q, P.all, P.beats[a])
  BY DEF PoolInv
<1>3. /\ new \subseteq p /\ unpayable \subseteq new /\ invalids \subseteq new \ unpayable
      /\ gapped \subseteq kept
  OBVIOUS
<1>4. Demote(P, a) = enqueueTx(M, a, S)
  BY <1>1 DEF Demote, PoolType
<1> HIDE DEF new, unpayable, invalids, gapped
<1>5. p1 \in [Accounts -> SUBSET Txs]
  BY <1>1, <1>3
<1>6. /\ M \in PoolType /\ M.pending = p1 /\ M.all = P.all \ gone
      /\ M.queue = P.queue /\ M.beats = P.beats
  <2> HIDE DEF p1, gone
  <2> QED BY <1>1, <1>5 DEF PoolType
<1>7. /\ M.pending[a] = kept \ gapped
      /\ \A c \in Accounts \ {a} : M.pending[c] = P.pending[c]
  <2> HIDE DEF M, kept
  <2> QED BY <1>1, <1>6
<1> HIDE DEF M, p1
<1>8. /\ S \in SUBSET Txs /\ S \subseteq p /\ M.pending[a] \subseteq p
      /\ \A t \in M.pending[a] : t \notin S
      /\ gone \subseteq p
  BY <1>1, <1>3, <1>7
<1>9. \A t \in p : (t \notin gone <=> t \in M.pending[a] \/ t \in S)
  BY <1>3, <1>7
<1> HIDE DEF S, gone
<1>10. Inserted(q, S) = S
  BY <1>2, <1>8 DEF AccountInv, Inserted
<1>11. \A t \in Txs : t.acc = a =>
         (t \in M.all \/ t \in S <=> t \in M.pending[a] \/ t \in q \/ t \in S)
  BY <1>2, <1>6, <1>8, <1>9 DEF AccountInv
<1>12. \A t \in gone : t.acc = a
  BY <1>2, <1>8 DEF AccountInv
<1>13. \A c \in Accounts \ {a} : AccountInv(c, M.pending[c], M.queue[c], M.all, M.beats[c])
  <2>1. ASSUME NEW c \in Accounts \ {a}
        PROVE  AccountInv(c, M.pending[c], M.queue[c], M.all, M.beats[c])
    <3>1. AccountInv(c, P.pending[c], P.queue[c], P.all, P.beats[c])
      BY DEF PoolInv
    <3> QED BY <3>1, <1>6, <1>7, <1>12 DEF AccountInv
  <2> QED BY <2>1
<1>14. /\ \A t \in M.pending[a] \cup M.queue[a] \cup S : t.acc = a
       /\ \A t, u \in M.pending[a] \cup M.queue[a] : t.nonce = u.nonce => t = u
       /\ \A t, u \in M.pending[a] \cup S : t.nonce = u.nonce => t = u
       /\ \A t \in M.pending[a] : t \notin M.queue[a] /\ t \notin S
       /\ M.queue[a] # {} => M.beats[a] # "none"
  BY <1>2, <1>6, <1>8 DEF AccountInv
<1>15. PoolInv(enqueueTx(M, a, S))
  BY <1>6, <1>8, <1>10, <1>11, <1>13, <1>14, EnqueueInv
<1>16. Replaced(q, S) = {}
  BY <1>2, <1>8 DEF AccountInv, Replaced, Inserted
<1>17. enqueueTx(M, a, S).all = (M.all \ Replaced(q, S)) \cup S
  <2>1. enqueueTx(M, a, S).all
          = (M.all \ Replaced(M.queue[a], S)) \cup Inserted(M.queue[a], S)
    BY <1>6, <1>8, EnqueueFields
  <2> QED BY <1>6, <1>10, <2>1
<1>18. ASSUME NEW t \in P.all \ enqueueTx(M, a, S).all PROVE Invalid(t)
  <2>1. t \in gone /\ t.acc = a
    BY <1>6, <1>12, <1>16, <1>17
  <2>2. ~(t.nonce >= nonce[a]) \/ t.price > balance[a]
    BY <2>1 DEF gone, new, unpayable
  <2>3. t.nonce \in Int /\ nonce[a] \in Int
    <3>1. t \in Txs
      BY <1>1
    <3> QED BY <3>1, TxNumbers, ChainNumbers
  <2> QED BY <2>1, <2>2, <2>3 DEF Invalid
<1> QED BY <1>4, <1>15, <1>18

\* The end of add, into pending list p or queue q: whoever is replaced has the
\* sender and the nonce of the new transaction.
LEMMA InsertInv ==
  ASSUME PoolInv(Pool), NEW t \in Txs, NEW local \in BOOLEAN, Insert(t, local),
         locals \in SUBSET Accounts, dirty \in SUBSET Accounts
  PROVE  /\ PoolInv(Pool')
         /\ locals' \in SUBSET Accounts /\ dirty' \in SUBSET Accounts
         /\ \A u \in all \ all' : t \in all' /\ t.acc = u.acc /\ t.nonce = u.nonce
<1> DEFINE a == t.acc
           p == pending[a]
           q == queue[a]
<1>1. /\ Pool \in PoolType /\ a \in Accounts
      /\ pending \in [Accounts -> SUBSET Txs] /\ queue \in [Accounts -> SUBSET Txs]
      /\ nonces \in [Accounts -> 0..MaxNonce + 1]
      /\ beats \in [Accounts -> {"none", "fresh", "old"}]
      /\ all \in SUBSET Txs /\ p \in SUBSET Txs /\ q \in SUBSET Txs
  BY DEF PoolInv, PoolType, Pool, Txs
<1>2. /\ Pool.pending = pending /\ Pool.queue = queue /\ Pool.all = all
      /\ Pool.nonces = nonces /\ Pool.beats = beats
  BY DEF Pool
<1>3. AccountInv(a, p, q, all, beats[a])
  BY <1>1, <1>2 DEF PoolInv
<1>4. \A c \in Accounts \ {a} :
        AccountInv(c, Pool.pending[c], Pool.queue[c], Pool.all, Pool.beats[c])
  BY DEF PoolInv
<1>5. locals' \in SUBSET Accounts /\ dirty' \in SUBSET Accounts
  BY <1>1 DEF Insert
<1>6. ASSUME NEW X \in PoolType, SetPool(X) PROVE Pool' = X /\ all' = X.all
  BY <1>6 DEF SetPool, Pool, PoolType
<1>7. ~Outbids(t, t)
  <2>1. t.price \in Nat
    BY TxPoolAssumption DEF Txs
  <2> QED BY <2>1 DEF Outbids
<1>8. CASE t.nonce \in Nonces(p)
  <2>1. CASE t \notin Inserted(p, {t})
    <3>1. SetPool(Pool)
      BY <1>8, <2>1 DEF Insert
    <3>2. Pool' = Pool /\ all' = all
      BY <1>1, <1>2, <1>6, <3>1
    <3> QED BY <1>5, <3>2
  <2>2. CASE t \in Inserted(p, {t})
    <3> DEFINE old == Replaced(p, {t})
               p1 == [pending EXCEPT ![a] = ListAdd(p, {t})]
               b1 == [beats EXCEPT ![a] = "fresh"]
               Q == [Pool EXCEPT !.pending = p1, !.all = (all \ old) \cup {t}, !.beats = b1]
    <3>1. SetPool(Q)
      <4>1. SetPool([Pool EXCEPT !.pending[a] = ListAdd(@, {t}), !.all = (@ \ old) \cup {t},
                                 !.beats[a] = "fresh"])
        BY <1>8, <2>2 DEF Insert
      <4>2. [Pool EXCEPT !.pending[a] = ListAdd(@, {t}), !.all = (@ \ old) \cup {t},
                         !.beats[a] = "fresh"] = Q
        BY DEF Pool
      <4> QED BY <4>1, <4>2
    <3>2. /\ Inserted(p, {t}) = {t} /\ old \subseteq p /\ ListAdd(p, {t}) = (p \ old) \cup {t}
          /\ \A u \in p : (u \in old <=> u.nonce = t.nonce)
      BY <2>2 DEF Inserted, Replaced, ListAdd
    <3>3. t \notin p /\ t \notin q
      <4>1. t \notin p
        BY <1>7, <2>2 DEF Inserted
      <4>2. PICK u \in p : u.nonce = t.nonce
        BY <1>8 DEF Nonces
      <4> QED BY <4>1, <4>2, <1>3 DEF AccountInv
    <3> HIDE DEF old
    <3>4. p1 \in [Accounts -> SUBSET Txs] /\ b1 \in [Accounts -> {"none", "fresh", "old"}]
      BY <1>1, <3>2
    <3>5. /\ Q \in PoolType /\ Q.pending = p1 /\ Q.queue = queue /\ Q.beats = b1
          /\ Q.all = (all \ old) \cup {t}
      <4> HIDE DEF p1, b1
      <4> QED BY <1>1, <3>4 DEF PoolType, Pool
    <3> HIDE DEF Q
    <3>6. /\ Q.pending[a] = (p \ old) \cup {t} /\ Q.queue[a] = q /\ Q.beats[a] = "fresh"
          /\ \A c \in Accounts \ {a} : Q.pending[c] = pending[c] /\ Q.beats[c] = beats[c]
      BY <1>1, <3>2, <3>5
    <3> HIDE DEF p1, b1
    <3>7. \A u, v \in ((p \ old) \cup {t}) \cup q : u.nonce = v.nonce => u = v
      <4>1. \A u \in q : u.nonce # t.nonce
        <5>1. PICK w \in p : w.nonce = t.nonce
          BY <1>8 DEF Nonces
        <5> QED BY <5>1, <1>3 DEF AccountInv
      <4> QED BY <4>1, <1>3, <3>2 DEF AccountInv
    <3>8. AccountInv(a, Q.pending[a], Q.queue[a], Q.all, Q.beats[a])
      BY <1>3, <3>2, <3>3, <3>5, <3>6, <3>7 DEF AccountInv
    <3>9. \A u \in old : u.acc = a
      BY <1>3, <3>2 DEF AccountInv
    <3>10. SameElsewhere(Pool, Q, a)
      BY <1>2, <3>5, <3>6, <3>9 DEF SameElsewhere
    <3>11. PoolInv(Q)
      BY <1>1, <1>4, <3>5, <3>8, <3>10, OneAccount
    <3>12. Pool' = Q /\ all' = (all \ old) \cup {t}
      BY <1>6, <3>1, <3>5
    <3> QED BY <1>5, <3>2, <3>9, <3>11, <3>12
  <2> QED BY <2>1, <2>2
<1>9. CASE t.nonce \notin Nonces(p)
  <2>1. CASE t \notin Inserted(q, {t})
    <3>1. SetPool(Pool)
      BY <1>9, <2>1 DEF Insert
    <3>2. Pool' = Pool /\ all' = all
      BY <1>1, <1>2, <1>6, <3>1
    <3> QED BY <1>5, <3>2
  <2>2. CASE t \in Inserted(q, {t})
    <3>1. SetPool(enqueueTx(Pool, a, {t}))
      BY <1>9, <2>2 DEF Insert
    <3>2. Inserted(q, {t}) = {t}
      BY <2>2 DEF Inserted
    <3>3. \A u \in p : u.nonce # t.nonce /\ u # t
      BY <1>9 DEF Nonces
    <3>4. PoolInv(enqueueTx(Pool, a, {t}))
      <4>1. \A u \in Txs : u.acc = a => (u \in all \/ u \in {t} <=> u \in p \/ u \in q \/ u \in {t})
        BY <1>3 DEF AccountInv
      <4>2. /\ \A u \in p \cup q \cup {t} : u.acc = a
            /\ \A u, v \in p \cup q : u.nonce = v.nonce => u = v
            /\ \A u, v \in p \cup {t} : u.nonce = v.nonce => u = v
            /\ \A u \in p : u \notin q /\ u \notin {t}
            /\ q # {} => beats[a] # "none"
        BY <1>3, <3>3 DEF AccountInv
      <4> QED BY <1>1, <1>2, <1>4, <3>2, <4>1, <4>2, EnqueueInv
    <3>5. /\ enqueueTx(Pool, a, {t}) \in PoolType
          /\ enqueueTx(Pool, a, {t}).all = (all \ Replaced(q, {t})) \cup {t}
      <4>1. {t} \in SUBSET Txs
        OBVIOUS
      <4>2. /\ enqueueTx(Pool, a, {t}) \in PoolType
            /\ enqueueTx(Pool, a, {t}).all
                 = (Pool.all \ Replaced(Pool.queue[a], {t})) \cup Inserted(Pool.queue[a], {t})
        <5> HIDE DEF a
        <5> QED BY <1>1, <4>1, EnqueueFields
      <4> QED BY <1>2, <3>2, <4>2
    <3>6. Pool' = enqueueTx(Pool, a, {t}) /\ all' = (all \ Replaced(q, {t})) \cup {t}
      BY <1>6, <3>1, <3>5
    <3>7. \A u \in Replaced(q, {t}) : u.acc = a /\ u.nonce = t.nonce
      BY <1>3 DEF Replaced, Inserted, AccountInv
    <3> QED BY <1>5, <3>4, <3>6, <3>7
  <2> QED BY <2>1, <2>2
<1> QED BY <1>8, <1>9

\* Shortening some pending lists: the accounts that lose are among S.
LEMMA ShortenInv ==
  ASSUME PoolInv(Pool), NEW S \in SUBSET Accounts, Shorten(S)
  PROVE  PoolInv(Pool') /\ \A t \in all \ all' : t.acc \in S
<1> DEFINE top(a) == IF a \in S THEN Excess(pending[a], Size(a) - 1) ELSE {}
           p1 == [a \in Accounts |-> pending[a] \ top(a)]
           A1 == all \ UNION {top(a) : a \in S}
           n1 == [a \in Accounts |-> IF top(a) = {} THEN nonces[a]
                                     ELSE Lower(LastNonce(top(a)), nonces[a])]
           Q == [Pool EXCEPT !.pending = p1, !.all = A1, !.nonces = n1]
<1>1. /\ Pool \in PoolType
      /\ pending \in [Accounts -> SUBSET Txs] /\ queue \in [Accounts -> SUBSET Txs]
      /\ nonces \in [Accounts -> 0..MaxNonce + 1]
      /\ beats \in [Accounts -> {"none", "fresh", "old"}]
      /\ all \in SUBSET Txs
  BY DEF PoolInv, PoolType, Pool
<1>2. \A a \in Accounts : AccountInv(a, pending[a], queue[a], all, beats[a])
  BY DEF PoolInv, Pool
<1>3. \A a \in Accounts : top(a) \subseteq pending[a]
  BY DEF Excess
<1>4. SetPool(Q)
  BY DEF Shorten, Pool
<1>5. \A a \in Accounts : top(a) # {} => a \in S
  OBVIOUS
<1> HIDE DEF top
<1>6. \A a \in Accounts : top(a) # {} => Lower(LastNonce(top(a)), nonces[a]) \in 0..MaxNonce + 1
  <2>1. ASSUME NEW a \in Accounts, top(a) # {}
        PROVE  Lower(LastNonce(top(a)), nonces[a]) \in 0..MaxNonce + 1
    <3>1. top(a) \subseteq Txs
      BY <1>1, <1>3
    <3>2. LastNonce(top(a)) \in 0..MaxNonce
      BY <2>1, <3>1, LastNonceType
    <3>3. nonces[a] \in 0..MaxNonce + 1
      BY <1>1
    <3> QED BY <3>2, <3>3, TxPoolAssumption DEF Lower
  <2> QED BY <2>1
<1>7. p1 \in [Accounts -> SUBSET Txs] /\ n1 \in [Accounts -> 0..MaxNonce + 1]
      /\ A1 \in SUBSET Txs
  BY <1>1, <1>6
<1>8. /\ Q \in PoolType /\ Q.pending = p1 /\ Q.queue = queue /\ Q.all = A1
      /\ Q.nonces = n1 /\ Q.beats = beats
  <2> HIDE DEF p1, n1, A1
  <2> QED BY <1>1, <1>7 DEF PoolType, Pool
<1>9. Pool' = Q /\ all' = A1
  <2> HIDE DEF Q, p1, n1, A1
  <2> QED BY <1>4, <1>8 DEF SetPool, Pool, PoolType
<1>10. ASSUME NEW a \in Accounts
       PROVE  AccountInv(a, Q.pending[a], Q.queue[a], Q.all, Q.beats[a])
  <2>1. Q.pending[a] = pending[a] \ top(a)
    BY <1>8
  <2>2. \A t \in Txs : t.acc = a => (t \in A1 <=> t \in all /\ t \notin top(a))
    <3>1. \A t \in Txs, c \in Accounts : t \in top(c) => t.acc = c
      BY <1>2, <1>3 DEF AccountInv
    <3> QED BY <1>5, <3>1
  <2>3. AccountInv(a, pending[a], queue[a], all, beats[a])
    BY <1>2
  <2>4. top(a) \subseteq pending[a]
    BY <1>3
  <2> HIDE DEF Q, A1
  <2> QED BY <1>8, <2>1, <2>2, <2>3, <2>4 DEF AccountInv
<1>11. ASSUME NEW t \in all \ all' PROVE t.acc \in S
  <2>1. PICK a \in S : t \in top(a)
    BY <1>9
  <2>2. t.acc = a
    BY <1>2, <1>3, <2>1 DEF AccountInv
  <2> QED BY <2>2
<1> HIDE DEF Q
<1>12. PoolInv(Q)
  BY <1>8, <1>10 DEF PoolInv
<1> QED BY <1>9, <1>11, <1>12

-----------------------------------------------------------------------------
(***************************************************************************)
(* The inductive invariant                                                 *)
(***************************************************************************)
\* TypeOK for what is not in Pool.
RestType ==
  /\ locals \in SUBSET Accounts
  /\ gasPrice \in Prices
  /\ ChainType
  /\ dirty \in SUBSET Accounts
  /\ drops \in SUBSET Txs
  /\ adding \in SUBSET Adding
  /\ phase \in Phases
  /\ todo \in SUBSET Accounts
  /\ inject \in SUBSET Txs
  /\ resetting \in BOOLEAN
  /\ spammers \in SUBSET [acc : Accounts, size : Nat]
  /\ offenders \in Seq(Accounts)
  /\ count \in Int

\* The loops that drop transactions hold none of a local account, and the set
\* of local accounts does not grow while one is under way.
LoopsSpareLocals ==
  /\ \A t \in drops : t.acc \notin locals
  /\ \A s \in spammers : s.acc \notin locals
  /\ \A i \in DOMAIN offenders : offenders[i] \notin locals
  /\ phase # "truncPending" => spammers = {} /\ offenders = <<>>
  /\ adding # {} => phase \in {"idle", "reinject"}

Inv == PoolInv(Pool) /\ RestType /\ LoopsSpareLocals

\* The step formula of LocalsKept.
KeepsLocals ==
  \A t \in all \ all' : IsLocal(t) =>
    \/ t.nonce < nonce[t.acc] \/ t.price > balance[t.acc]
    \/ \E u \in all' : u.acc = t.acc /\ u.nonce = t.nonce
    \/ RemoveTx(t)

LEMMA PoolFields ==
  /\ Pool.pending = pending /\ Pool.queue = queue /\ Pool.all = all
  /\ Pool.nonces = nonces /\ Pool.beats = beats
BY DEF Pool

LEMMA PoolTypes ==
  ASSUME PoolInv(Pool)
  PROVE  /\ Pool \in PoolType
         /\ pending \in [Accounts -> SUBSET Txs] /\ queue \in [Accounts -> SUBSET Txs]
         /\ nonces \in [Accounts -> 0..MaxNonce + 1]
         /\ beats \in [Accounts -> {"none", "fresh", "old"}]
         /\ all \in SUBSET Txs
BY DEF PoolInv, PoolType, Pool

\* PoolInv is what the properties say.
LEMMA PoolInvParts == PoolInv(Pool) /\ RestType => TypeOK /\ AllTracked /\ NoncesUnique /\ QueueBeats
<1> SUFFICES ASSUME PoolInv(Pool), RestType
             PROVE  TypeOK /\ AllTracked /\ NoncesUnique /\ QueueBeats
  OBVIOUS
<1>1. /\ pending \in [Accounts -> SUBSET Txs] /\ queue \in [Accounts -> SUBSET Txs]
      /\ nonces \in [Accounts -> 0..MaxNonce + 1]
      /\ beats \in [Accounts -> {"none", "fresh", "old"}]
      /\ all \in SUBSET Txs
  BY PoolTypes
<1>2. \A a \in Accounts : AccountInv(a, pending[a], queue[a], all, beats[a])
  BY PoolFields DEF PoolInv
<1>3. TypeOK
  BY <1>1 DEF TypeOK, RestType, ChainType
<1>4. AllTracked
  <2>1. ASSUME NEW t \in all PROVE t \in Listed
    <3>1. t \in Txs /\ t.acc \in Accounts
      BY <1>1 DEF Txs
    <3> QED BY <3>1, <1>2 DEF AccountInv, Listed
  <2>2. ASSUME NEW t \in Listed PROVE t \in all
    <3>1. PICK a \in Accounts : t \in pending[a] \cup queue[a]
      BY DEF Listed
    <3>2. t \in Txs
      BY <1>1, <3>1
    <3> QED BY <1>2, <3>1, <3>2 DEF AccountInv
  <2> QED BY <2>1, <2>2 DEF AllTracked
<1>5. NoncesUnique
  BY <1>2 DEF NoncesUnique, AccountInv
<1>6. QueueBeats
  BY <1>2 DEF QueueBeats, AccountInv
<1> QED BY <1>3, <1>4, <1>5, <1>6

\* SetPool(Q) makes Q the pool.
LEMMA SetPoolIs ==
  ASSUME NEW Q \in PoolType, SetPool(Q) PROVE Pool' = Q /\ all' = Q.all
BY DEF SetPool, Pool, PoolType

LEMMA PoolUnchanged ==
  ASSUME UNCHANGED poolVars PROVE Pool' = Pool /\ all' = all
BY DEF poolVars, Pool

LEMMA InitInv == Init => Inv
<1> SUFFICES ASSUME Init PROVE Inv
  OBVIOUS
<1> USE TxPoolAssumption
<1>1. MaxNonce + 1 \in Nat
  OBVIOUS
<1>2. /\ pending \in [Accounts -> SUBSET Txs] /\ queue \in [Accounts -> SUBSET Txs]
      /\ nonces \in [Accounts -> 0..MaxNonce + 1] /\ all \in SUBSET Txs
      /\ beats \in [Accounts -> {"none", "fresh", "old"}]
  BY <1>1 DEF Init
<1>3. Pool \in PoolType
  BY <1>2 DEF Pool, PoolType
<1>4. \A a \in Accounts : AccountInv(a, pending[a], queue[a], all, beats[a])
  BY DEF Init, AccountInv
<1>5. PoolInv(Pool)
  BY <1>3, <1>4, PoolFields DEF PoolInv
<1>6. RestType
  <2>1. ChainType
    BY <1>1 DEF Init, ChainType
  <2>2. offenders \in Seq(Accounts) /\ count \in Int
    BY DEF Init
  <2>3. gasPrice \in Prices /\ phase \in Phases /\ resetting \in BOOLEAN
    BY DEF Init, Phases
  <2> QED BY <2>1, <2>2, <2>3 DEF Init, RestType
<1>7. LoopsSpareLocals
  BY DEF Init, LoopsSpareLocals
<1> QED BY <1>5, <1>6, <1>7 DEF Inv

-----------------------------------------------------------------------------
(***************************************************************************)
(* One lemma per group of actions                                          *)
(***************************************************************************)
LEMMA DropStep ==
  ASSUME Inv, NEW t \in drops, Drop(t) PROVE Inv' /\ KeepsLocals
<1>1. RestType' /\ LoopsSpareLocals' /\ t.acc \notin locals
  BY DEF Inv, RestType, ChainType, LoopsSpareLocals, Drop, chainVars, truncVars
<1>2. CASE t \in all
  <2>1. PoolInv(removeTx(Pool, t)) /\ removeTx(Pool, t).all = all \ {t}
    BY <1>2, PoolFields, RemoveInv DEF Inv
  <2>2. SetPool(removeTx(Pool, t))
    BY <1>2 DEF Drop
  <2>3. Pool' = removeTx(Pool, t) /\ all' = all \ {t}
    BY <2>1, <2>2, SetPoolIs DEF PoolInv
  <2>4. KeepsLocals
    BY <1>1, <2>3 DEF KeepsLocals, IsLocal
  <2> QED BY <1>1, <2>1, <2>3, <2>4 DEF Inv
<1>3. CASE t \notin all
  <2>1. SetPool(Pool)
    BY <1>3 DEF Drop
  <2>2. Pool' = Pool /\ all' = all
    BY <2>1, SetPoolIs, PoolFields DEF Inv, PoolInv
  <2> QED BY <1>1, <2>2 DEF Inv, KeepsLocals
<1> QED BY <1>2, <1>3

LEMMA RemoveStep ==
  ASSUME Inv, NEW t \in all, RemoveTx(t) PROVE Inv' /\ KeepsLocals
<1>1. RestType' /\ LoopsSpareLocals'
  BY DEF Inv, RestType, ChainType, LoopsSpareLocals, RemoveTx, chainVars, truncVars
<1>2. PoolInv(removeTx(Pool, t)) /\ removeTx(Pool, t).all = all \ {t}
  BY PoolFields, RemoveInv DEF Inv
<1>3. SetPool(removeTx(Pool, t))
  BY DEF RemoveTx
<1>4. Pool' = removeTx(Pool, t) /\ all' = all \ {t}
  BY <1>2, <1>3, SetPoolIs DEF PoolInv
<1>5. KeepsLocals
  BY <1>4 DEF KeepsLocals
<1> QED BY <1>1, <1>2, <1>4, <1>5 DEF Inv

\* Add under way in the lock-free state or in the reset.
LEMMA AddStep ==
  ASSUME Inv, NEW t \in Txs, NEW local \in BOOLEAN, Add(t, local), NoLoop,
         phase \in {"idle", "reinject"}, phase' = phase,
         UNCHANGED <<gasPrice, chainVars, todo, resetting, truncVars>>,
         inject' \in SUBSET Txs
  PROVE  Inv' /\ KeepsLocals
<1>1. CASE ~Admitted(t, local)
  <2>1. UNCHANGED <<poolVars, locals, dirty, drops, adding>>
    BY <1>1 DEF Add
  <2>2. Pool' = Pool /\ all' = all
    BY <2>1, PoolUnchanged
  <2>3. RestType' /\ LoopsSpareLocals'
    BY <2>1 DEF Inv, RestType, ChainType, LoopsSpareLocals, chainVars, truncVars
  <2> QED BY <2>2, <2>3 DEF Inv, KeepsLocals
<1>2. CASE Admitted(t, local) /\ Full
  <2>1. /\ drops' \in Discard /\ adding' = {[tx |-> t, local |-> local]}
        /\ UNCHANGED <<poolVars, locals, dirty>>
    BY <1>2 DEF Add
  <2>2. Pool' = Pool /\ all' = all
    BY <2>1, PoolUnchanged
  <2>3. drops' \subseteq all /\ \A u \in drops' : u.acc \notin locals
    BY <2>1 DEF Discard, IsLocal
  <2>4. all \subseteq Txs
    BY PoolTypes DEF Inv
  <2>5. adding' \in SUBSET Adding
    BY <2>1 DEF Adding
  <2>6. RestType' /\ LoopsSpareLocals'
    BY <2>1, <2>3, <2>4, <2>5
    DEF Inv, RestType, ChainType, LoopsSpareLocals, chainVars, truncVars
  <2> QED BY <2>2, <2>6 DEF Inv, KeepsLocals
<1>3. CASE Admitted(t, local) /\ ~Full
  <2>1. Insert(t, local) /\ UNCHANGED <<drops, adding>>
    BY <1>3 DEF Add
  <2>2. /\ PoolInv(Pool')
        /\ locals' \in SUBSET Accounts /\ dirty' \in SUBSET Accounts
        /\ \A u \in all \ all' : t \in all' /\ t.acc = u.acc /\ t.nonce = u.nonce
    BY <2>1, InsertInv DEF Inv, RestType
  <2>3. RestType'
    BY <2>1, <2>2 DEF Inv, RestType, ChainType, chainVars, truncVars
  <2>4. LoopsSpareLocals'
    BY <2>1 DEF Inv, LoopsSpareLocals, NoLoop, truncVars
  <2>5. KeepsLocals
    BY <2>2 DEF KeepsLocals
  <2> QED BY <2>2, <2>3, <2>4, <2>5 DEF Inv
<1> QED BY <1>1, <1>2, <1>3

LEMMA AddRoomyStep ==
  ASSUME Inv, AddRoomy PROVE Inv' /\ KeepsLocals
<1>1. PICK x \in adding : Insert(x.tx, x.local)
  BY DEF AddRoomy
<1>2. x.tx \in Txs /\ x.local \in BOOLEAN
  BY DEF Inv, RestType, Adding
<1>3. /\ PoolInv(Pool')
      /\ locals' \in SUBSET Accounts /\ dirty' \in SUBSET Accounts
      /\ \A u \in all \ all' : x.tx \in all' /\ x.tx.acc = u.acc /\ x.tx.nonce = u.nonce
  BY <1>1, <1>2, InsertInv DEF Inv, RestType
<1>4. RestType'
  BY <1>3 DEF Inv, RestType, ChainType, AddRoomy, chainVars, truncVars
<1>5. LoopsSpareLocals'
  BY <1>1 DEF Inv, LoopsSpareLocals, AddRoomy, truncVars
<1>6. KeepsLocals
  BY <1>3 DEF KeepsLocals
<1> QED BY <1>3, <1>4, <1>5, <1>6 DEF Inv

LEMMA PromoteStep ==
  ASSUME Inv, NEW a \in Accounts, PromoteAccount(a) PROVE Inv' /\ KeepsLocals
<1>1. RestType' /\ LoopsSpareLocals'
  BY DEF Inv, RestType, ChainType, LoopsSpareLocals, PromoteAccount, chainVars, truncVars
<1>2. CASE queue[a] = {}
  <2>1. SetPool(Pool)
    BY <1>2 DEF PromoteAccount
  <2>2. Pool' = Pool /\ all' = all
    BY <2>1, SetPoolIs, PoolFields DEF Inv, PoolInv
  <2> QED BY <1>1, <2>2 DEF Inv, KeepsLocals
<1>3. CASE queue[a] # {}
  <2>1. SetPool(Promote(Pool, a))
    BY <1>3 DEF PromoteAccount
  <2>2. /\ PoolInv(Promote(Pool, a))
        /\ \A t \in all \ Promote(Pool, a).all : t.acc = a /\ (a \in locals => Invalid(t))
    BY <1>3, PoolFields, PromoteInv DEF Inv, RestType
  <2>3. Pool' = Promote(Pool, a) /\ all' = Promote(Pool, a).all
    BY <2>1, <2>2, SetPoolIs DEF PoolInv
  <2>4. KeepsLocals
    BY <2>2, <2>3 DEF KeepsLocals, IsLocal, Invalid
  <2> QED BY <1>1, <2>2, <2>3, <2>4 DEF Inv
<1> QED BY <1>2, <1>3

LEMMA DemoteStep ==
  ASSUME Inv, NEW a \in Accounts, DemoteAccount(a) PROVE Inv' /\ KeepsLocals
<1>1. RestType' /\ LoopsSpareLocals'
  BY DEF Inv, RestType, ChainType, LoopsSpareLocals, DemoteAccount, chainVars, truncVars
<1>2. SetPool(Demote(Pool, a))
  BY DEF DemoteAccount
<1>3. PoolInv(Demote(Pool, a)) /\ \A t \in all \ Demote(Pool, a).all : Invalid(t)
  BY PoolFields, DemoteInv DEF Inv, RestType
<1>4. Pool' = Demote(Pool, a) /\ all' = Demote(Pool, a).all
  BY <1>2, <1>3, SetPoolIs DEF PoolInv
<1>5. KeepsLocals
  BY <1>3, <1>4 DEF KeepsLocals, Invalid
<1> QED BY <1>1, <1>3, <1>4, <1>5 DEF Inv

\* The two loops of truncatePending that shorten lists.
LEMMA ShortenStep ==
  ASSUME Inv, Equalize \/ Reduce PROVE Inv' /\ KeepsLocals
<1>1. PICK S : /\ Shorten(S)
               /\ \A a \in S : \E i \in DOMAIN offenders : a = offenders[i]
  <2>1. offenders \in Seq(Accounts)
    BY DEF Inv, RestType
  <2>2. Len(offenders) \in Nat /\ DOMAIN offenders = 1..Len(offenders)
    BY <2>1
  <2>3. 1..Len(offenders) - 1 \subseteq DOMAIN offenders
    BY <2>2
  <2>4. CASE Equalize
    <3> DEFINE S == {offenders[i] : i \in 1..Len(offenders) - 1}
    <3>1. Shorten(S)
      BY <2>4 DEF Equalize
    <3>2. \A a \in S : \E i \in DOMAIN offenders : a = offenders[i]
      BY <2>3
    <3> QED BY <3>1, <3>2
  <2>5. CASE Reduce
    <3> DEFINE S == {offenders[i] : i \in DOMAIN offenders}
    <3>1. Shorten(S)
      BY <2>5 DEF Reduce
    <3> QED BY <3>1
  <2> QED BY <2>4, <2>5
<1>2. S \in SUBSET Accounts /\ \A a \in S : a \notin locals
  <2>1. \A i \in DOMAIN offenders : offenders[i] \in Accounts /\ offenders[i] \notin locals
    BY DEF Inv, RestType, LoopsSpareLocals
  <2> QED BY <1>1, <2>1
<1>3. PoolInv(Pool') /\ \A t \in all \ all' : t.acc \in S
  BY <1>1, <1>2, ShortenInv DEF Inv
<1>4. count' \in Int
  <2>1. count' = count - Cardinality(S)
    BY <1>1 DEF Shorten
  <2>2. Cardinality(S) \in Nat
    BY <1>2, TxPoolAssumption, FS_Subset, FS_CardinalityType
  <2> QED BY <2>1, <2>2 DEF Inv, RestType
<1>5. RestType' /\ LoopsSpareLocals'
  BY <1>4 DEF Inv, RestType, ChainType, LoopsSpareLocals, Equalize, Reduce, chainVars
<1>6. KeepsLocals
  BY <1>2, <1>3 DEF KeepsLocals, IsLocal
<1> QED BY <1>3, <1>5, <1>6 DEF Inv

\* The steps that leave the lists alone: entry points, starts of runs and of
\* their phases.
LEMMA QuietStep ==
  ASSUME Inv, UNCHANGED poolVars, RestType', LoopsSpareLocals' PROVE Inv' /\ KeepsLocals
<1>1. Pool' = Pool /\ all' = all
  BY PoolUnchanged
<1> QED BY <1>1 DEF Inv, KeepsLocals

\* The steps that change a virtual nonce or a heartbeat only.
LEMMA NonceBeatStep ==
  ASSUME Inv, UNCHANGED <<pending, queue, all>>, RestType', LoopsSpareLocals',
         nonces' \in [Accounts -> 0..MaxNonce + 1],
         beats' \in [Accounts -> {"none", "fresh", "old"}],
         \A a \in Accounts : beats'[a] = "none" => beats[a] = "none"
  PROVE  Inv' /\ KeepsLocals
<1>1. /\ Pool'.pending = pending /\ Pool'.queue = queue /\ Pool'.all = all
      /\ Pool'.beats = beats'
  BY DEF Pool
<1>2. Pool' \in PoolType
  <2>1. /\ pending' \in [Accounts -> SUBSET Txs] /\ queue' \in [Accounts -> SUBSET Txs]
        /\ all' \in SUBSET Txs
    BY PoolTypes DEF Inv
  <2> QED BY <2>1 DEF Pool, PoolType
<1>3. \A a \in Accounts : AccountInv(a, pending[a], queue[a], all, beats[a])
  BY PoolFields DEF Inv, PoolInv
<1>4. \A a \in Accounts : AccountInv(a, pending[a], queue[a], all, beats'[a])
  BY <1>3 DEF AccountInv
<1>5. PoolInv(Pool')
  BY <1>1, <1>2, <1>4 DEF PoolInv
<1> QED BY <1>5 DEF Inv, KeepsLocals

LEMMA EntryStep ==
  ASSUME Inv, \/ \E price \in Prices : SetGasPrice(price)
              \/ Evict
              \/ \E D \in SUBSET dirty : RunPromote(D)
              \/ \E D \in SUBSET dirty : RunFailedReset(D)
  PROVE  Inv' /\ KeepsLocals
<1>1. /\ all \subseteq Txs
      /\ \A a \in Accounts : queue[a] \subseteq Txs /\ \A t \in queue[a] : t.acc = a
  <2>1. /\ all \in SUBSET Txs /\ queue \in [Accounts -> SUBSET Txs]
    BY PoolTypes DEF Inv
  <2>2. \A a \in Accounts : AccountInv(a, pending[a], queue[a], all, beats[a])
    BY PoolFields DEF Inv, PoolInv
  <2> QED BY <2>1, <2>2 DEF AccountInv
<1>2. ASSUME NEW price \in Prices, SetGasPrice(price) PROVE Inv' /\ KeepsLocals
  <2>1. RestType' /\ LoopsSpareLocals'
    BY <1>1, <1>2 DEF Inv, RestType, ChainType, LoopsSpareLocals, SetGasPrice, IsLocal,
                      chainVars, truncVars
  <2> QED BY <1>2, <2>1, QuietStep DEF SetGasPrice
<1>3. CASE Evict
  <2>1. \A t \in drops' : t \in Txs /\ t.acc \notin locals
    BY <1>1, <1>3 DEF Evict
  <2>2. RestType' /\ LoopsSpareLocals'
    BY <1>3, <2>1 DEF Inv, RestType, ChainType, LoopsSpareLocals, Evict, chainVars, truncVars
  <2> QED BY <1>3, <2>2, QuietStep DEF Evict
<1>4. ASSUME NEW D \in SUBSET dirty, RunPromote(D) PROVE Inv' /\ KeepsLocals
  <2>1. RestType' /\ LoopsSpareLocals'
    BY <1>4 DEF Inv, RestType, ChainType, LoopsSpareLocals, RunPromote, Quiet, NoLoop,
                Phases, chainVars, truncVars
  <2> QED BY <1>4, <2>1, QuietStep DEF RunPromote
<1>5. ASSUME NEW D \in SUBSET dirty, RunFailedReset(D) PROVE Inv' /\ KeepsLocals
  <2>1. RestType' /\ LoopsSpareLocals'
    BY <1>5 DEF Inv, RestType, ChainType, LoopsSpareLocals, RunFailedReset, Quiet, NoLoop,
                Phases, chainVars, truncVars
  <2> QED BY <1>5, <2>1, QuietStep DEF RunFailedReset
<1> QED BY <1>2, <1>3, <1>4, <1>5

\* Moving from one phase of the run to the next.
LEMMA PhaseStep ==
  ASSUME Inv, \/ Reinjected \/ Promoted \/ Demoted \/ StartTruncate \/ NextOffender
              \/ PendingTruncated \/ QueueTruncated \/ \E a \in Accounts : TruncateQueue(a)
  PROVE  Inv' /\ KeepsLocals
<1>1. /\ pending \in [Accounts -> SUBSET Txs] /\ queue \in [Accounts -> SUBSET Txs]
  BY PoolTypes DEF Inv
<1>2. CASE Reinjected
  <2>1. RestType' /\ LoopsSpareLocals'
    BY <1>2 DEF Inv, RestType, ChainType, LoopsSpareLocals, Reinjected, NoLoop, Phases,
                chainVars, truncVars
  <2> QED BY <1>2, <2>1, QuietStep DEF Reinjected
<1>3. CASE Promoted
  <2>1. RestType' /\ LoopsSpareLocals'
    BY <1>3 DEF Inv, RestType, ChainType, LoopsSpareLocals, Promoted, Phases,
                chainVars, truncVars
  <2> QED BY <1>3, <2>1, QuietStep DEF Promoted
<1>4. CASE Demoted
  <2>1. RestType' /\ LoopsSpareLocals'
    BY <1>4 DEF Inv, RestType, ChainType, LoopsSpareLocals, Demoted, Phases,
                chainVars, truncVars
  <2> QED BY <1>4, <2>1, QuietStep DEF Demoted
<1>5. CASE StartTruncate
  <2>1. PendingCount \in Nat
    <3>1. UNION {pending[a] : a \in Accounts} \subseteq Txs
      BY <1>1
    <3> QED BY <3>1, ListSize DEF PendingCount
  <2>2. \A a \in Accounts : Size(a) \in Nat
    BY <1>1, ListSize DEF Size
  <2>3. \A s \in spammers' : s \in [acc : Accounts, size : Nat] /\ s.acc \notin locals
    BY <1>5, <2>2 DEF StartTruncate
  <2>4. RestType' /\ LoopsSpareLocals'
    BY <1>5, <2>1, <2>3 DEF Inv, RestType, ChainType, LoopsSpareLocals, StartTruncate,
                            Phases, chainVars
  <2> QED BY <1>5, <2>4, QuietStep DEF StartTruncate
<1>6. CASE NextOffender
  <2>1. PICK s \in spammers : offenders' = Append(offenders, s.acc) /\ spammers' = spammers \ {s}
    BY <1>6 DEF NextOffender
  <2>2. s.acc \in Accounts /\ s.acc \notin locals /\ offenders \in Seq(Accounts)
    BY DEF Inv, RestType, LoopsSpareLocals
  <2>3. /\ offenders' \in Seq(Accounts)
        /\ \A i \in DOMAIN offenders' : offenders'[i] \notin locals
    BY <2>1, <2>2 DEF Inv, LoopsSpareLocals
  <2>4. RestType'
    BY <1>6, <2>1, <2>3 DEF Inv, RestType, ChainType, NextOffender, chainVars
  <2>5. LoopsSpareLocals'
    BY <1>6, <2>1, <2>3 DEF Inv, LoopsSpareLocals, NextOffender, Truncating
  <2> QED BY <1>6, <2>4, <2>5, QuietStep DEF NextOffender
<1>7. CASE PendingTruncated
  <2>1. <<>> \in Seq(Accounts) /\ DOMAIN <<>> = {}
    OBVIOUS
  <2>2. RestType' /\ LoopsSpareLocals'
    BY <1>7, <2>1 DEF Inv, RestType, ChainType, LoopsSpareLocals, PendingTruncated, Phases,
                      chainVars
  <2> QED BY <1>7, <2>2, QuietStep DEF PendingTruncated
<1>8. CASE QueueTruncated
  <2>1. RestType' /\ LoopsSpareLocals'
    BY <1>8 DEF Inv, RestType, ChainType, LoopsSpareLocals, QueueTruncated, Phases,
                chainVars, truncVars
  <2> QED BY <1>8, <2>1, QuietStep DEF QueueTruncated
<1>9. ASSUME NEW a \in Accounts, TruncateQueue(a) PROVE Inv' /\ KeepsLocals
  <2>1. drops' \subseteq queue[a] /\ a \notin locals
    BY <1>9 DEF TruncateQueue, Excess, Victims
  <2>2. \A t \in queue[a] : t.acc = a /\ t \in Txs
    <3>1. AccountInv(a, pending[a], queue[a], all, beats[a])
      BY PoolFields DEF Inv, PoolInv
    <3> QED BY <1>1, <3>1 DEF AccountInv
  <2>3. RestType' /\ LoopsSpareLocals'
    BY <1>9, <2>1, <2>2 DEF Inv, RestType, ChainType, LoopsSpareLocals, TruncateQueue,
                            chainVars, truncVars
  <2> QED BY <1>9, <2>3, QuietStep DEF TruncateQueue
<1> QED BY <1>2, <1>3, <1>4, <1>5, <1>6, <1>7, <1>8, <1>9

LEMMA FinishStep ==
  ASSUME Inv, Finish PROVE Inv' /\ KeepsLocals
<1>1. pending \in [Accounts -> SUBSET Txs] /\ nonces \in [Accounts -> 0..MaxNonce + 1]
  BY PoolTypes DEF Inv
<1>2. nonces' \in [Accounts -> 0..MaxNonce + 1]
  <2>1. ASSUME NEW a \in Accounts, pending[a] # {}
        PROVE  LastNonce(pending[a]) + 1 \in 0..MaxNonce + 1
    <3>1. LastNonce(pending[a]) \in 0..MaxNonce
      BY <1>1, <2>1, LastNonceType
    <3> QED BY <3>1, TxPoolAssumption
  <2> QED BY <1>1, <2>1 DEF Finish
<1>3. RestType' /\ LoopsSpareLocals'
  BY DEF Inv, RestType, ChainType, LoopsSpareLocals, Finish, Phases, chainVars, truncVars
<1>4. UNCHANGED <<pending, queue, all, beats>>
  BY DEF Finish
<1>5. beats' \in [Accounts -> {"none", "fresh", "old"}]
  BY <1>4, PoolTypes DEF Inv
<1> QED BY <1>2, <1>3, <1>4, <1>5, NonceBeatStep

LEMMA LapseStep ==
  ASSUME Inv, NEW a \in Accounts, Lapse(a) PROVE Inv' /\ KeepsLocals
<1>1. beats \in [Accounts -> {"none", "fresh", "old"}] /\ nonces \in [Accounts -> 0..MaxNonce + 1]
  BY PoolTypes DEF Inv
<1>2. /\ beats' \in [Accounts -> {"none", "fresh", "old"}]
      /\ \A c \in Accounts : beats'[c] = "none" => beats[c] = "none"
  BY <1>1 DEF Lapse
<1>3. RestType' /\ LoopsSpareLocals'
  BY DEF Inv, RestType, ChainType, LoopsSpareLocals, Lapse, chainVars, truncVars
<1>4. UNCHANGED <<pending, queue, all, nonces>>
  BY DEF Lapse
<1> QED BY <1>1, <1>2, <1>3, <1>4, NonceBeatStep

LEMMA ResetStep ==
  ASSUME Inv, NEW D \in SUBSET dirty, NEW ns \in Heads, NEW bs \in [Accounts -> Balances],
         NEW R \in Undone(ns), RunReset(ns, bs, R, D)
  PROVE  Inv' /\ KeepsLocals
<1>1. ns \in [Accounts -> 0..MaxNonce + 1] /\ R \in SUBSET Txs
  BY DEF Heads, Undone
<1>2. RestType' /\ LoopsSpareLocals'
  BY <1>1 DEF Inv, RestType, ChainType, LoopsSpareLocals, RunReset, Quiet, NoLoop, Phases,
              truncVars
<1>3. UNCHANGED <<pending, queue, all, beats>> /\ nonces' = ns
  BY DEF RunReset
<1>4. beats' \in [Accounts -> {"none", "fresh", "old"}]
  BY <1>3, PoolTypes DEF Inv
<1> QED BY <1>1, <1>2, <1>3, <1>4, NonceBeatStep

LEMMA NextStep ==
  ASSUME Inv, Next PROVE Inv' /\ KeepsLocals
<1>1. ASSUME NEW t \in Txs, NEW local \in BOOLEAN, AddTx(t, local) PROVE Inv' /\ KeepsLocals
  <2>1. inject' \in SUBSET Txs
    BY <1>1 DEF AddTx, Inv, RestType
  <2> QED BY <1>1, <2>1, AddStep DEF AddTx, Quiet
<1>2. ASSUME NEW t \in inject, Reinject(t) PROVE Inv' /\ KeepsLocals
  <2>1. t \in Txs /\ inject' \in SUBSET Txs
    BY <1>2 DEF Reinject, Inv, RestType
  <2> QED BY <1>2, <2>1, AddStep DEF Reinject
<1>3. CASE NewHead
  BY <1>3, ResetStep, EntryStep DEF NewHead
<1>4. CASE Run
  BY <1>2, <1>4, PromoteStep, DemoteStep, ShortenStep, PhaseStep, FinishStep DEF Run
<1> QED
  BY <1>1, <1>3, <1>4, AddRoomyStep, DropStep, RemoveStep, EntryStep, LapseStep DEF Next

LEMMA StutterStep ==
  ASSUME Inv, UNCHANGED vars PROVE Inv'
<1>1. RestType' /\ LoopsSpareLocals' /\ UNCHANGED poolVars
  BY DEF Inv, RestType, ChainType, LoopsSpareLocals, vars, chainVars, truncVars
<1> QED BY <1>1, QuietStep

-----------------------------------------------------------------------------
(***************************************************************************)
(* Theorems                                                                *)
(***************************************************************************)
LEMMA Invariance == Spec => []Inv
<1>1. Inv /\ [Next]_vars => Inv'
  BY NextStep, StutterStep
<1> QED BY <1>1, InitInv, PTL DEF Spec

\* The variables of the pool keep their types: in particular the virtual nonces
\* stay within the nonces there are, whatever is promoted, demoted or removed.
THEOREM PoolTypeOK == Spec => []TypeOK
<1>1. Inv => TypeOK
  BY PoolInvParts DEF Inv
<1> QED BY <1>1, Invariance, PTL

\* pool.all holds exactly the transactions of pool.pending and pool.queue, at
\* every step of every operation.
THEOREM PoolAllTracked == Spec => []AllTracked
<1>1. Inv => AllTracked
  BY PoolInvParts DEF Inv
<1> QED BY <1>1, Invariance, PTL

\* A nonce of an account is held by one transaction, pending or queued, so that
\* the lookup by nonce in removeTx is sound.
THEOREM PoolNoncesUnique == Spec => []NoncesUnique
<1>1. Inv => NoncesUnique
  BY PoolInvParts DEF Inv
<1> QED BY <1>1, Invariance, PTL

\* Every account with queued transactions has a heartbeat, so that the eviction
\* loop never takes one that has just come.
THEOREM PoolQueueBeats == Spec => []QueueBeats
<1>1. Inv => QueueBeats
  BY PoolInvParts DEF Inv
<1> QED BY <1>1, Invariance, PTL

\* Local transactions leave the pool only when they are included, unpayable,
\* replaced or removed on request: no eviction, limit or price drops them.
THEOREM PoolLocalsKept == Spec => LocalsKept
<1>1. Inv /\ [Next]_vars => [KeepsLocals]_vars
  BY NextStep
<1>2. Spec => [][KeepsLocals]_vars
  BY <1>1, Invariance, PTL DEF Spec
<1> QED BY <1>2 DEF LocalsKept, KeepsLocals
-----------------------------------------------------------------------------
(***************************************************************************)
(* What a step does to the lists of one account                            *)
(***************************************************************************)
SameLists(a) == pending'[a] = pending[a] /\ queue'[a] = queue[a] /\ nonces'[a] = nonces[a]

\* The chain state allows transaction t of account a.
Valid(a, t) == nonce[a] =< t.nonce /\ t.price =< balance[a]

\* The lists keep their nonces, the queue may lose some, and what is new in the
\* pending list is valid.
Kept(a) ==
  /\ nonces'[a] = nonces[a]
  /\ Nonces(pending'[a]) = Nonces(pending[a])
  /\ \A t \in pending'[a] : t \in pending[a] \/ Valid(a, t)
  /\ Nonces(queue'[a]) \subseteq Nonces(queue[a])

\* Pending transaction t is removed, and what follows it is postponed.
Cut(a, t) ==
  /\ t \in pending[a]
  /\ pending'[a] = {u \in pending[a] : u.nonce < t.nonce}
  /\ queue'[a] = queue[a] \cup {u \in pending[a] : u.nonce > t.nonce}
  /\ nonces'[a] = Lower(t.nonce, nonces[a])

\* A new transaction is queued.
Queued(a) == pending'[a] = pending[a] /\ nonces'[a] = nonces[a]

\* The executable transactions at the front of the queue become pending.
Promotes(a) ==
  LET live == {t \in queue[a] : nonce[a] =< t.nonce /\ t.price =< balance[a]}
      ready == Ready(live, nonces[a])
  IN /\ pending'[a] = pending[a] \cup ready
     /\ queue'[a] \subseteq live \ ready
     /\ nonces'[a] = IF ready = {} THEN nonces[a] ELSE LastNonce(ready) + 1

\* What demoteUnexecutables leaves pending and what it postpones, of list p.
StaysPending(a, p) ==
  LET new == {t \in p : t.nonce >= nonce[a]}
      unpayable == {t \in new : t.price > balance[a]}
      invalids == {t \in new \ unpayable : \E u \in unpayable : u.nonce < t.nonce}
      kept == new \ (unpayable \cup invalids)
  IN IF nonce[a] \in Nonces(kept) THEN kept ELSE {}

Postponed(a, p) ==
  {t \in p : /\ t.nonce >= nonce[a] /\ ~(t.price > balance[a])
             /\ t \notin StaysPending(a, p)}

\* What is included or unpayable leaves the pending list; what follows, or is
\* not the next transaction, goes back to the queue.
Demotes(a) ==
  /\ pending'[a] = StaysPending(a, pending[a])
  /\ queue'[a] = queue[a] \cup Postponed(a, pending[a])
  /\ nonces'[a] = nonces[a]

\* The lists of an account have its transactions, of distinct nonces.
LEMMA Lists ==
  ASSUME PoolInv(Pool), NEW a \in Accounts
  PROVE  /\ pending[a] \in SUBSET Txs /\ queue[a] \in SUBSET Txs
         /\ nonces[a] \in 0..MaxNonce + 1
         /\ \A t \in pending[a] \cup queue[a] : t.acc = a
         /\ \A t, u \in pending[a] \cup queue[a] : t.nonce = u.nonce => t = u
         /\ \A t \in pending[a] : t \notin queue[a]
         /\ \A t \in Txs : t.acc = a => (t \in all <=> t \in pending[a] \/ t \in queue[a])
<1>1. AccountInv(a, pending[a], queue[a], all, beats[a])
  BY PoolFields DEF PoolInv
<1> QED BY <1>1, PoolTypes DEF AccountInv

\* Pool' from the fields of the new pool.
LEMMA SetPoolFields ==
  ASSUME NEW Q, SetPool(Q)
  PROVE  pending' = Q.pending /\ queue' = Q.queue /\ nonces' = Q.nonces
BY DEF SetPool

\* A list that takes transactions with new nonces just grows.
LEMMA ListGrows ==
  ASSUME NEW L, NEW S, \A t \in S, u \in L : t.nonce # u.nonce
  PROVE  Inserted(L, S) = S /\ Replaced(L, S) = {} /\ ListAdd(L, S) = L \cup S
BY DEF Inserted, Replaced, ListAdd

\* removeTx on the lists.
LEMMA RemoveFields ==
  ASSUME NEW P, PoolInv(P), NEW t \in P.all
  PROVE  LET a == t.acc
             p == P.pending[a]
             Q == removeTx(P, t)
         IN IF t \in p
            THEN /\ Q.pending = [P.pending EXCEPT ![a] = {u \in p : u.nonce < t.nonce}]
                 /\ Q.queue = [P.queue EXCEPT ![a] = P.queue[a] \cup {u \in p : u.nonce > t.nonce}]
                 /\ Q.nonces = [P.nonces EXCEPT ![a] = Lower(t.nonce, P.nonces[a])]
            ELSE /\ Q.pending = P.pending /\ Q.nonces = P.nonces
                 /\ Q.queue = [P.queue EXCEPT ![a] = {u \in @ : u.nonce # t.nonce}]
<1> DEFINE a == t.acc
           p == P.pending[a]
           q == P.queue[a]
<1>1. /\ P \in PoolType /\ t \in Txs /\ a \in Accounts
      /\ p \in SUBSET Txs /\ q \in SUBSET Txs
      /\ P.pending \in [Accounts -> SUBSET Txs] /\ P.queue \in [Accounts -> SUBSET Txs]
      /\ P.nonces \in [Accounts -> 0..MaxNonce + 1]
      /\ P.all \in SUBSET Txs
  BY DEF PoolInv, PoolType, Txs
<1>2. AccountInv(a, p, q, P.all, P.beats[a])
  BY <1>1 DEF PoolInv
<1>3. t.nonce \in Nonces(p) <=> t \in p
  BY <1>1, <1>2 DEF AccountInv, Nonces
<1>4. CASE t \in p
  <2> DEFINE S == {u \in p : u.nonce > t.nonce}
             p1 == [P.pending EXCEPT ![a] = {u \in p : u.nonce < t.nonce}]
             n1 == [P.nonces EXCEPT ![a] = Lower(t.nonce, P.nonces[a])]
             M == [P EXCEPT !.pending = p1, !.all = P.all \ {t}, !.nonces = n1]
  <2>1. removeTx(P, t) = enqueueTx(M, a, S)
    BY <1>1, <1>3, <1>4 DEF removeTx, PoolType
  <2>2. p1 \in [Accounts -> SUBSET Txs]
    BY <1>1
  <2>3. n1 \in [Accounts -> 0..MaxNonce + 1]
    <3>1. t.nonce \in 0..MaxNonce /\ P.nonces[a] \in 0..MaxNonce + 1
      BY <1>1 DEF Txs
    <3>2. Lower(t.nonce, P.nonces[a]) \in 0..MaxNonce + 1
      BY <3>1, TxPoolAssumption DEF Lower
    <3> QED BY <1>1, <3>2
  <2>4. /\ M \in PoolType /\ M.pending = p1 /\ M.nonces = n1 /\ M.queue = P.queue
    <3> HIDE DEF p1, n1
    <3> QED BY <1>1, <2>2, <2>3 DEF PoolType
  <2>5. S \in SUBSET Txs
    BY <1>1
  <2>6. ListAdd(q, S) = q \cup S
    <3>1. \A u \in S, v \in q : u.nonce # v.nonce
      BY <1>2 DEF AccountInv
    <3> HIDE DEF S
    <3> QED BY <3>1, ListGrows
  <2> HIDE DEF M, p1, n1, S
  <2>7. /\ enqueueTx(M, a, S).pending = M.pending /\ enqueueTx(M, a, S).nonces = M.nonces
        /\ enqueueTx(M, a, S).queue = [M.queue EXCEPT ![a] = ListAdd(M.queue[a], S)]
    <3> DEFINE E == enqueueTx(M, a, S)
    <3>1. M \in PoolType /\ a \in Accounts /\ S \in SUBSET Txs
      BY <1>1, <2>4, <2>5
    <3> HIDE DEF a
    <3>2. /\ E \in PoolType
          /\ E.pending = M.pending /\ E.nonces = M.nonces
          /\ E.queue = [M.queue EXCEPT ![a] = ListAdd(M.queue[a], S)]
          /\ E.all = (M.all \ Replaced(M.queue[a], S)) \cup Inserted(M.queue[a], S)
          /\ E.beats = [M.beats EXCEPT ![a] =
                          IF M.beats[a] = "none" /\ Inserted(M.queue[a], S) # {}
                          THEN "fresh" ELSE M.beats[a]]
      BY <3>1, EnqueueFields
    <3> QED BY <3>2
  <2>8. /\ removeTx(P, t).pending = p1 /\ removeTx(P, t).nonces = n1
        /\ removeTx(P, t).queue = [P.queue EXCEPT ![a] = q \cup S]
    BY <2>1, <2>4, <2>6, <2>7
  <2> QED BY <1>4, <2>8 DEF p1, n1, S
<1>5. CASE t \notin p
  <2>1. removeTx(P, t) = [P EXCEPT !.queue[a] = {u \in q : u.nonce # t.nonce},
                                   !.all = @ \ {t},
                                   !.beats[a] = IF q # {} /\ {u \in q : u.nonce # t.nonce} = {}
                                                THEN "none" ELSE @]
    BY <1>3, <1>5 DEF removeTx
  <2>2. /\ removeTx(P, t).pending = P.pending /\ removeTx(P, t).nonces = P.nonces
        /\ removeTx(P, t).queue = [P.queue EXCEPT ![a] = {u \in q : u.nonce # t.nonce}]
    BY <1>1, <2>1 DEF PoolType
  <2> QED BY <1>5, <2>2
<1> QED BY <1>4, <1>5

\* removeTx cuts the pending list or takes one transaction from the queue.
LEMMA RemoveLists ==
  ASSUME PoolInv(Pool), NEW t \in all, SetPool(removeTx(Pool, t))
  PROVE  /\ Cut(t.acc, t) \/ Kept(t.acc)
         /\ \A b \in Accounts \ {t.acc} : SameLists(b)
<1> DEFINE a == t.acc
           Q == removeTx(Pool, t)
<1>1. t \in Txs /\ a \in Accounts
  BY PoolTypes DEF Txs
<1>2. /\ pending \in [Accounts -> SUBSET Txs] /\ queue \in [Accounts -> SUBSET Txs]
      /\ nonces \in [Accounts -> 0..MaxNonce + 1]
  BY PoolTypes
<1>3. pending' = Q.pending /\ queue' = Q.queue /\ nonces' = Q.nonces
  BY SetPoolFields
<1>4. IF t \in pending[a]
      THEN /\ Q.pending = [pending EXCEPT ![a] = {u \in pending[a] : u.nonce < t.nonce}]
           /\ Q.queue = [queue EXCEPT ![a] = queue[a] \cup {u \in pending[a] : u.nonce > t.nonce}]
           /\ Q.nonces = [nonces EXCEPT ![a] = Lower(t.nonce, nonces[a])]
      ELSE /\ Q.pending = pending /\ Q.nonces = nonces
           /\ Q.queue = [queue EXCEPT ![a] = {u \in @ : u.nonce # t.nonce}]
  BY PoolFields, RemoveFields
<1> HIDE DEF Q
<1>5. CASE t \in pending[a]
  BY <1>1, <1>2, <1>3, <1>4, <1>5 DEF Cut, SameLists
<1>6. CASE t \notin pending[a]
  BY <1>1, <1>2, <1>3, <1>4, <1>6 DEF Kept, SameLists, Nonces
<1> QED BY <1>5, <1>6

LEMMA SameKept == ASSUME NEW a, SameLists(a) PROVE Kept(a)
BY DEF SameLists, Kept, Nonces

\* promoteExecutables on the lists.
LEMMA PromoteFields ==
  ASSUME NEW P, PoolInv(P), NEW a \in Accounts
  PROVE  LET live == {t \in P.queue[a] : t.nonce >= nonce[a] /\ t.price =< balance[a]}
             ready == Ready(live, P.nonces[a])
             left == live \ ready
             caps == IF a \in locals THEN {} ELSE Excess(left, AccountQueue)
             Q == Promote(P, a)
         IN /\ Q.pending = [P.pending EXCEPT ![a] = P.pending[a] \cup ready]
            /\ Q.queue = [P.queue EXCEPT ![a] = left \ caps]
            /\ Q.nonces = [P.nonces EXCEPT ![a] = IF ready = {} THEN P.nonces[a]
                                                  ELSE LastNonce(ready) + 1]
            /\ Q.all \subseteq P.all
<1> DEFINE p == P.pending[a]
           q == P.queue[a]
           live == {t \in q : t.nonce >= nonce[a] /\ t.price =< balance[a]}
           ready == Ready(live, P.nonces[a])
           accepted == Inserted(p, ready)
           left == live \ ready
           caps == IF a \in locals THEN {} ELSE Excess(left, AccountQueue)
           gone == (q \ live) \cup (ready \ accepted) \cup Replaced(p, ready) \cup caps
           n == IF accepted = {} THEN P.nonces[a] ELSE LastNonce(accepted) + 1
           b == IF left \ caps = {} THEN "none"
                ELSE IF accepted # {} THEN "fresh" ELSE P.beats[a]
           p1 == [P.pending EXCEPT ![a] = ListAdd(p, ready)]
           q1 == [P.queue EXCEPT ![a] = left \ caps]
           n1 == [P.nonces EXCEPT ![a] = n]
           b1 == [P.beats EXCEPT ![a] = b]
           Q == [P EXCEPT !.pending = p1, !.queue = q1, !.all = P.all \ gone,
                          !.nonces = n1, !.beats = b1]
<1>1. /\ P \in PoolType
      /\ P.pending \in [Accounts -> SUBSET Txs] /\ P.queue \in [Accounts -> SUBSET Txs]
      /\ P.nonces \in [Accounts -> 0..MaxNonce + 1]
      /\ P.beats \in [Accounts -> {"none", "fresh", "old"}]
      /\ P.all \in SUBSET Txs /\ p \in SUBSET Txs /\ q \in SUBSET Txs
  BY DEF PoolInv, PoolType
<1>2. AccountInv(a, p, q, P.all, P.beats[a])
  BY DEF PoolInv
<1>3. ready \subseteq q
  BY DEF Ready
<1>4. Promote(P, a) = Q
  BY <1>1 DEF Promote, PoolType
<1>5. accepted = ready /\ ListAdd(p, ready) = p \cup ready
  <2> HIDE DEF ready
  <2>1. \A t \in ready, u \in p : t.nonce # u.nonce
    BY <1>2, <1>3 DEF AccountInv
  <2> QED BY <2>1, ListGrows
<1>6. Q.pending = p1 /\ Q.queue = q1 /\ Q.nonces = n1 /\ Q.all = P.all \ gone
  <2> HIDE DEF p1, q1, n1, b1, gone
  <2> QED BY <1>1 DEF PoolType
<1>7. /\ p1 = [P.pending EXCEPT ![a] = p \cup ready]
      /\ n1 = [P.nonces EXCEPT ![a] = IF ready = {} THEN P.nonces[a] ELSE LastNonce(ready) + 1]
  <2> HIDE DEF ready
  <2> QED BY <1>5
<1> HIDE DEF Q, p1, n1
<1> QED BY <1>4, <1>6, <1>7

LEMMA PromoteLists ==
  ASSUME PoolInv(Pool), ChainType, NEW a \in Accounts, PromoteAccount(a)
  PROVE  Promotes(a) /\ (\A b \in Accounts \ {a} : SameLists(b)) /\ all' \subseteq all
<1>1. /\ pending \in [Accounts -> SUBSET Txs] /\ queue \in [Accounts -> SUBSET Txs]
      /\ nonces \in [Accounts -> 0..MaxNonce + 1]
  BY PoolTypes
<1> DEFINE live == {t \in queue[a] : t.nonce >= nonce[a] /\ t.price =< balance[a]}
           ready == Ready(live, nonces[a])
<1>2. live = {t \in queue[a] : nonce[a] =< t.nonce /\ t.price =< balance[a]}
  <2>1. \A t \in queue[a] : t.nonce \in Int
    BY <1>1, TxNumbers
  <2>2. nonce[a] \in Int
    BY ChainNumbers
  <2> QED BY <2>1, <2>2
<1>3. CASE queue[a] = {}
  <2>1. pending' = pending /\ queue' = queue /\ nonces' = nonces /\ all' = all
    BY <1>3, PoolFields DEF PromoteAccount, SetPool
  <2>2. live = {} /\ ready = {}
    BY <1>3 DEF Ready
  <2> HIDE DEF ready
  <2>3. Promotes(a)
    BY <1>1, <1>2, <1>3, <2>1, <2>2 DEF Promotes, ready
  <2> QED BY <2>1, <2>3 DEF SameLists
<1>4. CASE queue[a] # {}
  <2> DEFINE left == live \ ready
             caps == IF a \in locals THEN {} ELSE Excess(left, AccountQueue)
             Q == Promote(Pool, a)
  <2>1. /\ Q.pending = [pending EXCEPT ![a] = pending[a] \cup ready]
        /\ Q.queue = [queue EXCEPT ![a] = left \ caps]
        /\ Q.nonces = [nonces EXCEPT ![a] = IF ready = {} THEN nonces[a]
                                            ELSE LastNonce(ready) + 1]
        /\ Q.all \subseteq all
    BY PoolFields, PromoteFields
  <2>2. pending' = Q.pending /\ queue' = Q.queue /\ nonces' = Q.nonces /\ all' = Q.all
    BY <1>4 DEF PromoteAccount, SetPool
  <2> HIDE DEF Q, caps
  <2>3. /\ pending'[a] = pending[a] \cup ready
        /\ queue'[a] \subseteq live \ ready
        /\ nonces'[a] = IF ready = {} THEN nonces[a] ELSE LastNonce(ready) + 1
    <3> HIDE DEF ready, live
    <3> QED BY <1>1, <2>1, <2>2
  <2>4. Promotes(a)
    BY <1>2, <2>3 DEF Promotes
  <2>5. \A b \in Accounts \ {a} : SameLists(b)
    <3> HIDE DEF ready, live
    <3> QED BY <1>1, <2>1, <2>2 DEF SameLists
  <2> QED BY <2>1, <2>2, <2>4, <2>5
<1> QED BY <1>3, <1>4

\* demoteUnexecutables on the lists.
LEMMA DemoteFields ==
  ASSUME NEW P, PoolInv(P), NEW a \in Accounts
  PROVE  /\ Demote(P, a).pending = [P.pending EXCEPT ![a] = StaysPending(a, P.pending[a])]
         /\ Demote(P, a).queue = [P.queue EXCEPT ![a] = P.queue[a] \cup Postponed(a, P.pending[a])]
         /\ Demote(P, a).nonces = P.nonces
         /\ Demote(P, a).all \subseteq P.all
<1> DEFINE p == P.pending[a]
           q == P.queue[a]
           new == {t \in p : t.nonce >= nonce[a]}
           unpayable == {t \in new : t.price > balance[a]}
           invalids == {t \in new \ unpayable : \E u \in unpayable : u.nonce < t.nonce}
           kept == new \ (unpayable \cup invalids)
           gapped == IF nonce[a] \in Nonces(kept) THEN {} ELSE kept
           gone == (p \ new) \cup unpayable
           S == invalids \cup gapped
           p1 == [P.pending EXCEPT ![a] = kept \ gapped]
           M == [P EXCEPT !.pending = p1, !.all = P.all \ gone]
           E == enqueueTx(M, a, S)
<1>1. /\ P \in PoolType
      /\ P.pending \in [Accounts -> SUBSET Txs]
      /\ P.all \in SUBSET Txs /\ p \in SUBSET Txs /\ q \in SUBSET Txs
  BY DEF PoolInv, PoolType
<1>2. AccountInv(a, p, q, P.all, P.beats[a])
  BY DEF PoolInv
<1>3. Demote(P, a) = E
  BY <1>1 DEF Demote, PoolType
<1>4. S \subseteq p /\ kept \subseteq p
  OBVIOUS
<1>5. p1 \in [Accounts -> SUBSET Txs]
  BY <1>1
<1>6. /\ M \in PoolType /\ M.pending = p1 /\ M.queue = P.queue /\ M.nonces = P.nonces
      /\ M.all \subseteq P.all
  <2> HIDE DEF p1, gone
  <2> QED BY <1>1, <1>5 DEF PoolType
<1>7. S \subseteq P.all
  <2> HIDE DEF S
  <2> QED BY <1>1, <1>2, <1>4 DEF AccountInv
<1>8. S \in SUBSET Txs
  BY <1>1, <1>4
<1>9. Inserted(q, S) = S /\ ListAdd(q, S) = q \cup S
  <2> HIDE DEF S
  <2>1. \A t \in S, u \in q : t.nonce # u.nonce
    BY <1>2, <1>4 DEF AccountInv
  <2> QED BY <2>1, ListGrows
<1>10. kept \ gapped = StaysPending(a, p) /\ S = Postponed(a, p)
  <2>1. kept \ gapped = StaysPending(a, p)
    BY DEF StaysPending
  <2>2. S = Postponed(a, p)
    <3>1. S = {t \in new \ unpayable : t \notin kept \ gapped}
      OBVIOUS
    <3> HIDE DEF S, kept, gapped
    <3> QED BY <2>1, <3>1 DEF Postponed
  <2> QED BY <2>1, <2>2
<1>11. p1 = [P.pending EXCEPT ![a] = StaysPending(a, p)]
  <2> HIDE DEF kept, gapped
  <2> QED BY <1>10
<1> HIDE DEF M, S, p1, E
<1>12. /\ E.pending = M.pending /\ E.nonces = M.nonces
       /\ E.queue = [M.queue EXCEPT ![a] = ListAdd(M.queue[a], S)]
       /\ E.all = (M.all \ Replaced(M.queue[a], S)) \cup Inserted(M.queue[a], S)
  <2>1. M \in PoolType /\ S \in SUBSET Txs
    BY <1>6, <1>8
  <2>2. E.pending = M.pending /\ E.nonces = M.nonces
    BY <2>1 DEF E, enqueueTx, PoolType
  <2>3. E.queue = [M.queue EXCEPT ![a] = ListAdd(M.queue[a], S)]
    BY <2>1 DEF E, enqueueTx, PoolType
  <2>4. E.all = (M.all \ Replaced(M.queue[a], S)) \cup Inserted(M.queue[a], S)
    BY <2>1, EnqueueFields DEF E
  <2> QED BY <2>2, <2>3, <2>4
<1>13. /\ E.pending = p1 /\ E.nonces = P.nonces
       /\ E.queue = [P.queue EXCEPT ![a] = q \cup S]
       /\ E.all \subseteq P.all
  BY <1>6, <1>7, <1>9, <1>12
<1> QED BY <1>3, <1>10, <1>11, <1>13

LEMMA DemoteLists ==
  ASSUME PoolInv(Pool), ChainType, NEW a \in Accounts, DemoteAccount(a)
  PROVE  Demotes(a) /\ (\A b \in Accounts \ {a} : SameLists(b)) /\ all' \subseteq all
<1>1. /\ pending \in [Accounts -> SUBSET Txs] /\ queue \in [Accounts -> SUBSET Txs]
      /\ nonces \in [Accounts -> 0..MaxNonce + 1]
  BY PoolTypes
<1> DEFINE Q == Demote(Pool, a)
<1>3. /\ Q.pending = [pending EXCEPT ![a] = StaysPending(a, pending[a])]
      /\ Q.queue = [queue EXCEPT ![a] = queue[a] \cup Postponed(a, pending[a])]
      /\ Q.nonces = nonces
      /\ Q.all \subseteq all
  BY PoolFields, DemoteFields
<1>4. pending' = Q.pending /\ queue' = Q.queue /\ nonces' = Q.nonces /\ all' = Q.all
  BY DEF DemoteAccount, SetPool
<1> HIDE DEF Q
<1> QED BY <1>1, <1>3, <1>4 DEF SameLists, Demotes

\* The end of add on the lists: whoever is replaced has the nonce of the new
\* transaction, and a transaction that is new in the queue makes its sender dirty.
LEMMA InsertLists ==
  ASSUME PoolInv(Pool), NEW t \in Txs, NEW local \in BOOLEAN, Insert(t, local),
         Valid(t.acc, t)
  PROVE  /\ Kept(t.acc) \/ (Queued(t.acc) /\ (phase = "idle" => t.acc \in dirty'))
         /\ \A b \in Accounts \ {t.acc} : SameLists(b)
         /\ all' \subseteq all \cup {t}
         /\ locals \subseteq locals' /\ dirty \subseteq dirty'
<1> DEFINE a == t.acc
           p == pending[a]
           q == queue[a]
<1>1. a \in Accounts
  BY DEF Txs
<1>2. /\ pending \in [Accounts -> SUBSET Txs] /\ queue \in [Accounts -> SUBSET Txs]
      /\ nonces \in [Accounts -> 0..MaxNonce + 1] /\ all \in SUBSET Txs
  BY PoolTypes
<1>3. locals \subseteq locals' /\ dirty \subseteq dirty'
  BY DEF Insert
<1>4. CASE t.nonce \in Nonces(p) /\ t \notin Inserted(p, {t})
  <2>1. SetPool(Pool)
    BY <1>4 DEF Insert
  <2>2. pending' = pending /\ queue' = queue /\ nonces' = nonces /\ all' = all
    BY <2>1, PoolFields DEF SetPool
  <2> QED BY <1>1, <1>3, <2>2, SameKept DEF SameLists
<1>5. CASE t.nonce \notin Nonces(p) /\ t \notin Inserted(q, {t})
  <2>1. SetPool(Pool)
    BY <1>5 DEF Insert
  <2>2. pending' = pending /\ queue' = queue /\ nonces' = nonces /\ all' = all
    BY <2>1, PoolFields DEF SetPool
  <2> QED BY <1>1, <1>3, <2>2, SameKept DEF SameLists
<1>6. CASE t.nonce \in Nonces(p) /\ t \in Inserted(p, {t})
  <2> DEFINE old == Replaced(p, {t})
             Q == [Pool EXCEPT !.pending[a] = ListAdd(@, {t}), !.all = (@ \ old) \cup {t},
                               !.beats[a] = "fresh"]
  <2>1. SetPool(Q)
    BY <1>6 DEF Insert
  <2>2. /\ Q.pending = [pending EXCEPT ![a] = ListAdd(p, {t})] /\ Q.queue = queue
        /\ Q.nonces = nonces /\ Q.all = (all \ old) \cup {t}
    BY DEF Pool
  <2>3. /\ pending' = [pending EXCEPT ![a] = ListAdd(p, {t})] /\ queue' = queue
        /\ nonces' = nonces /\ all' = (all \ old) \cup {t}
    <3> HIDE DEF Q
    <3> QED BY <2>1, <2>2 DEF SetPool
  <2>4. ListAdd(p, {t}) = {u \in p : u.nonce # t.nonce} \cup {t}
    BY <1>6 DEF ListAdd, Replaced, Inserted
  <2>5. Nonces(ListAdd(p, {t})) = Nonces(p)
    BY <1>6, <2>4 DEF Nonces
  <2>6. pending'[a] = ListAdd(p, {t})
    BY <1>1, <1>2, <2>3
  <2>7. \A u \in pending'[a] : u \in p \/ Valid(a, u)
    BY <2>4, <2>6
  <2>8. Kept(a)
    BY <2>3, <2>5, <2>6, <2>7 DEF Kept
  <2>9. \A b \in Accounts \ {a} : SameLists(b)
    BY <1>2, <2>3 DEF SameLists
  <2> QED BY <1>3, <2>3, <2>8, <2>9
<1>7. CASE t.nonce \notin Nonces(p) /\ t \in Inserted(q, {t})
  <2> DEFINE Q == enqueueTx(Pool, a, {t})
  <2>1. SetPool(Q)
    BY <1>7 DEF Insert
  <2>2. /\ Q.pending = pending /\ Q.nonces = nonces
        /\ Q.queue = [queue EXCEPT ![a] = ListAdd(q, {t})]
        /\ Q.all = (all \ Replaced(q, {t})) \cup Inserted(q, {t})
    BY DEF Pool, enqueueTx
  <2>3. /\ pending' = pending /\ nonces' = nonces
        /\ queue' = [queue EXCEPT ![a] = ListAdd(q, {t})]
        /\ all' = (all \ Replaced(q, {t})) \cup Inserted(q, {t})
    <3> HIDE DEF Q
    <3> QED BY <2>1, <2>2 DEF SetPool
  <2>4. \A b \in Accounts \ {a} : SameLists(b)
    BY <1>2, <2>3 DEF SameLists
  <2>5. all' \subseteq all \cup {t}
    BY <2>3 DEF Inserted
  <2>6. CASE Replaced(q, {t}) = {}
    <3>1. phase = "idle" => a \in dirty'
      BY <1>7, <2>6 DEF Insert
    <3> QED BY <1>3, <2>3, <2>4, <2>5, <3>1 DEF Queued
  <2>7. CASE Replaced(q, {t}) # {}
    <3>1. ListAdd(q, {t}) = {u \in q : u.nonce # t.nonce} \cup {t}
      BY <1>7 DEF ListAdd, Replaced, Inserted
    <3>2. t.nonce \in Nonces(q)
      BY <2>7 DEF Replaced, Inserted, Nonces
    <3>3. Nonces(ListAdd(q, {t})) = Nonces(q)
      BY <3>1, <3>2 DEF Nonces
    <3>4. queue'[a] = ListAdd(q, {t})
      BY <1>1, <1>2, <2>3
    <3>5. Kept(a)
      BY <2>3, <3>3, <3>4 DEF Kept
    <3> QED BY <1>3, <2>4, <2>5, <3>5
  <2> QED BY <2>6, <2>7
<1> QED BY <1>4, <1>5, <1>6, <1>7

\* Cap(Len - 1) takes the transaction with the highest nonce.
LEMMA TopOne ==
  ASSUME NEW L \in SUBSET Txs, L # {},
         \A t, u \in L : t.nonce = u.nonce => t = u
  PROVE  \E t \in L : /\ Excess(L, Cardinality(L) - 1) = {t}
                      /\ \A u \in L : u # t => u.nonce < t.nonce
<1>1. IsFiniteSet(L) /\ Cardinality(L) \in Nat /\ \A t \in L : t.nonce \in Int
  BY ListSize, TxNumbers
<1>2. LastNonce(L) \in Nonces(L) /\ \A k \in Nonces(L) : k =< LastNonce(L)
  BY LastNonceType
<1>3. PICK t \in L : t.nonce = LastNonce(L)
  BY <1>2 DEF Nonces
<1>4. \A u \in L : u # t => u.nonce < t.nonce
  BY <1>1, <1>2, <1>3 DEF Nonces
<1>5. Cardinality(L \ {t}) = Cardinality(L) - 1
  BY <1>1, FS_RemoveElement
<1>6. {u \in L : u.nonce < t.nonce} = L \ {t}
  BY <1>1, <1>4
<1>7. ASSUME NEW u \in L, u # t
      PROVE  ~(Cardinality({v \in L : v.nonce < u.nonce}) >= Cardinality(L) - 1)
  <2> DEFINE V == {v \in L : v.nonce < u.nonce}
  <2>1. V \subseteq L \ {t} /\ u \notin V
    BY <1>1, <1>4, <1>7
  <2>2. IsFiniteSet(L \ {t})
    BY <1>1, FS_RemoveElement
  <2> HIDE DEF V
  <2>3. IsFiniteSet(V) /\ Cardinality(V) <= Cardinality(L \ {t}) /\ Cardinality(V) \in Nat
    BY <2>1, <2>2, FS_Subset, FS_CardinalityType
  <2>4. V # L \ {t}
    BY <1>7, <2>1
  <2>5. Cardinality(V) # Cardinality(L \ {t})
    BY <2>1, <2>2, <2>4, FS_Subset
  <2> QED BY <1>1, <1>5, <2>3, <2>5 DEF V
<1>8. Cardinality({u \in L : u.nonce < t.nonce}) >= Cardinality(L) - 1
  <2> DEFINE V == {u \in L : u.nonce < t.nonce}
  <2>1. V = L \ {t}
    BY <1>6
  <2> HIDE DEF V
  <2>2. Cardinality(V) >= Cardinality(L) - 1
    BY <1>1, <1>5, <2>1
  <2> QED BY <2>2 DEF V
<1>9. Excess(L, Cardinality(L) - 1) = {t}
  BY <1>7, <1>8 DEF Excess
<1> QED BY <1>4, <1>9

\* Shortening cuts the last transaction of each of the accounts.
LEMMA ShortenLists ==
  ASSUME PoolInv(Pool), NEW S \in SUBSET Accounts, Shorten(S)
  PROVE  /\ \A a \in S : IF pending[a] = {} THEN SameLists(a)
                         ELSE \E t \in pending[a] :
                                /\ Cut(a, t) /\ pending'[a] = pending[a] \ {t}
                                /\ \A u \in pending[a] : u # t => u.nonce < t.nonce
         /\ \A b \in Accounts \ S : SameLists(b)
         /\ all' \subseteq all
<1> DEFINE top(a) == IF a \in S THEN Excess(pending[a], Size(a) - 1) ELSE {}
           p1 == [a \in Accounts |-> pending[a] \ top(a)]
           A1 == all \ UNION {top(a) : a \in S}
           n1 == [a \in Accounts |-> IF top(a) = {} THEN nonces[a]
                                     ELSE Lower(LastNonce(top(a)), nonces[a])]
           Q == [Pool EXCEPT !.pending = p1, !.all = A1, !.nonces = n1]
<1>1. SetPool(Q)
  BY DEF Shorten, Pool
<1>2. Q.pending = p1 /\ Q.queue = queue /\ Q.nonces = n1 /\ Q.all = A1
  <2> HIDE DEF p1, A1, n1
  <2> QED BY DEF Pool
<1>3. pending' = p1 /\ queue' = queue /\ nonces' = n1 /\ all' = A1
  <2> HIDE DEF Q, p1, A1, n1
  <2> QED BY <1>1, <1>2 DEF SetPool
<1>4. ASSUME NEW b \in Accounts, top(b) = {} PROVE SameLists(b)
  <2>1. pending[b] \in SUBSET Txs
    BY Lists
  <2> HIDE DEF top
  <2>2. pending'[b] = pending[b] \ top(b) /\ nonces'[b] = nonces[b]
    BY <1>3, <1>4
  <2> QED BY <1>3, <1>4, <2>2 DEF SameLists
<1>5. ASSUME NEW a \in S, pending[a] # {}
      PROVE  \E t \in pending[a] :
               /\ Cut(a, t) /\ pending'[a] = pending[a] \ {t}
               /\ \A u \in pending[a] : u # t => u.nonce < t.nonce
  <2>1. /\ pending[a] \in SUBSET Txs
        /\ \A t, u \in pending[a] : t.nonce = u.nonce => t = u
        /\ \A t \in pending[a] : t.nonce \in Int
    BY Lists, TxNumbers
  <2>2. PICK t \in pending[a] :
           /\ Excess(pending[a], Size(a) - 1) = {t}
           /\ \A u \in pending[a] : u # t => u.nonce < t.nonce
    BY <1>5, <2>1, TopOne DEF Size
  <2>3. top(a) = {t}
    BY <2>2
  <2>4. LastNonce({t}) = t.nonce
    <3>1. LastNonce({t}) \in Nonces({t})
      BY <2>1, LastNonceType
    <3> QED BY <3>1 DEF Nonces
  <2> HIDE DEF top
  <2>5. pending'[a] = pending[a] \ {t} /\ nonces'[a] = Lower(t.nonce, nonces[a])
    BY <1>3, <2>3, <2>4
  <2>6. /\ pending[a] \ {t} = {u \in pending[a] : u.nonce < t.nonce}
        /\ {u \in pending[a] : u.nonce > t.nonce} = {}
    BY <2>1, <2>2
  <2>7. Cut(a, t)
    BY <1>3, <2>5, <2>6 DEF Cut
  <2> QED BY <2>2, <2>5, <2>7
<1>6. ASSUME NEW a \in S, pending[a] = {} PROVE SameLists(a)
  <2>1. top(a) = {}
    BY <1>6 DEF Excess
  <2> QED BY <1>4, <2>1
<1>7. \A b \in Accounts \ S : SameLists(b)
  BY <1>4
<1>8. all' \subseteq all
  BY <1>3
<1> QED BY <1>5, <1>6, <1>7, <1>8
-----------------------------------------------------------------------------
(***************************************************************************)
(* Kinds of steps                                                          *)
(***************************************************************************)
\* Where loops and resets may be, and what they hold.
PhaseInv ==
  /\ drops # {} => phase \in {"idle", "reinject", "truncQueue"}
  /\ phase \in {"reinject", "demote"} => resetting
  /\ phase # "reinject" => inject = {}
  /\ \A x \in adding : Valid(x.tx.acc, x.tx)

\* Steps inside a phase, except for the loops of promoteExecutables and
\* demoteUnexecutables.
Operation ==
  \/ \E t \in Txs, local \in BOOLEAN : AddTx(t, local)
  \/ AddRoomy
  \/ \E t \in drops : Drop(t)
  \/ \E t \in all : RemoveTx(t)
  \/ \E price \in Prices : SetGasPrice(price)
  \/ Evict
  \/ \E a \in Accounts : Lapse(a)
  \/ \E t \in inject : Reinject(t)
  \/ NextOffender \/ Equalize \/ Reduce
  \/ \E a \in Accounts : TruncateQueue(a)

\* Steps from one phase to the next that leave the pool alone.
Turn ==
  \/ \E D \in SUBSET dirty : RunPromote(D)
  \/ \E D \in SUBSET dirty : RunFailedReset(D)
  \/ Reinjected \/ Promoted \/ Demoted \/ StartTruncate \/ PendingTruncated
  \/ QueueTruncated

Reset ==
  \E D \in SUBSET dirty, ns \in Heads, bs \in [Accounts -> Balances] :
    \E R \in Undone(ns) : RunReset(ns, bs, R, D)

LEMMA NextCases ==
  ASSUME Next
  PROVE  \/ Operation \/ Turn \/ Reset \/ Finish
         \/ \E a \in Accounts : PromoteAccount(a)
         \/ \E a \in Accounts : DemoteAccount(a)
<1>1. CASE NewHead
  BY <1>1 DEF NewHead, Turn, Reset
<1>2. CASE Run
  BY <1>2 DEF Run, Operation, Turn
<1>3. CASE \E D \in SUBSET dirty : RunPromote(D)
  BY <1>3 DEF Turn
<1> QED BY <1>1, <1>2, <1>3 DEF Next, Operation

\* What an Operation does to the lists.
Steady ==
  /\ UNCHANGED <<chainVars, phase, todo, resetting>> /\ dirty \subseteq dirty'
  /\ \A a \in Accounts :
       \/ Kept(a)
       \/ /\ phase \in {"idle", "reinject", "truncPending", "truncQueue"}
          /\ \E t \in pending[a] : Cut(a, t)
       \/ /\ phase \in {"idle", "reinject"}
          /\ Queued(a) /\ (phase = "idle" => a \in dirty')
  /\ phase = "reinject" /\ NoLoop /\ inject = {} => \A a \in Accounts : Kept(a)

LEMMA OffendersShortened ==
  ASSUME Inv, Equalize \/ Reduce
  PROVE  \E S \in SUBSET Accounts : Shorten(S)
<1>1. offenders \in Seq(Accounts)
  BY DEF Inv, RestType
<1>2. /\ DOMAIN offenders = 1..Len(offenders) /\ Len(offenders) \in Nat
      /\ \A i \in DOMAIN offenders : offenders[i] \in Accounts
  BY <1>1
<1>3. CASE Equalize
  <2>1. \A i \in 1..Len(offenders) - 1 : offenders[i] \in Accounts
    BY <1>2
  <2>2. {offenders[i] : i \in 1..Len(offenders) - 1} \in SUBSET Accounts
    BY <2>1
  <2> QED BY <1>3, <2>2 DEF Equalize
<1>4. CASE Reduce
  <2>1. {offenders[i] : i \in DOMAIN offenders} \in SUBSET Accounts
    BY <1>2
  <2> QED BY <1>4, <2>1 DEF Reduce
<1> QED BY <1>3, <1>4

LEMMA PoolSame ==
  ASSUME UNCHANGED <<pending, queue, nonces>> PROVE \A a \in Accounts : Kept(a)
BY SameKept DEF SameLists

LEMMA InsertSteady ==
  ASSUME Inv, NEW t \in Txs, NEW local \in BOOLEAN, Insert(t, local), Valid(t.acc, t),
         phase \in {"idle", "reinject"}, adding # {} \/ inject # {} \/ phase = "idle",
         UNCHANGED <<chainVars, phase, todo, resetting>>
  PROVE  Steady
<1>1. /\ Kept(t.acc) \/ (Queued(t.acc) /\ (phase = "idle" => t.acc \in dirty'))
      /\ \A b \in Accounts \ {t.acc} : SameLists(b)
      /\ dirty \subseteq dirty'
  BY InsertLists DEF Inv
<1>2. \A b \in Accounts \ {t.acc} : Kept(b)
  BY <1>1, SameKept
<1> QED BY <1>1, <1>2 DEF Steady, NoLoop

LEMMA OperationSteady ==
  ASSUME Inv, PhaseInv, Operation PROVE Steady
<1>1. ASSUME NEW t \in Txs, NEW local \in BOOLEAN, Add(t, local), NoLoop,
             phase = "idle" \/ (phase = "reinject" /\ inject # {}),
             UNCHANGED <<chainVars, phase, todo, resetting>>
      PROVE  Steady
  <2>1. CASE Admitted(t, local) /\ ~Full
    <3>1. Insert(t, local)
      BY <1>1, <2>1 DEF Add
    <3>2. Valid(t.acc, t)
      BY <2>1 DEF Admitted, validateTx, Valid
    <3> QED BY <1>1, <3>1, <3>2, InsertSteady
  <2>2. CASE ~(Admitted(t, local) /\ ~Full)
    <3>1. UNCHANGED <<poolVars, dirty>>
      BY <1>1, <2>2 DEF Add
    <3> QED BY <1>1, <3>1, PoolSame DEF Steady, poolVars
  <2> QED BY <2>1, <2>2
<1>2. ASSUME NEW t \in Txs, NEW local \in BOOLEAN, AddTx(t, local) PROVE Steady
  BY <1>1, <1>2 DEF AddTx, Quiet
<1>3. ASSUME NEW t \in inject, Reinject(t) PROVE Steady
  <2>1. t \in Txs
    BY DEF Inv, RestType
  <2> QED BY <1>1, <1>3, <2>1 DEF Reinject
<1>4. CASE AddRoomy
  <2>1. PICK x \in adding : Insert(x.tx, x.local)
    BY <1>4 DEF AddRoomy
  <2>2. x.tx \in Txs /\ x.local \in BOOLEAN /\ phase \in {"idle", "reinject"}
    BY DEF Inv, RestType, Adding, LoopsSpareLocals
  <2>3. Valid(x.tx.acc, x.tx)
    BY DEF PhaseInv
  <2>4. UNCHANGED <<chainVars, phase, todo, resetting>>
    BY <1>4 DEF AddRoomy
  <2> QED BY <2>1, <2>2, <2>3, <2>4, InsertSteady
<1>5. ASSUME NEW t \in all, SetPool(removeTx(Pool, t)), drops # {} \/ phase = "idle",
             UNCHANGED <<chainVars, dirty, phase, todo, resetting>>
      PROVE  Steady
  <2>1. /\ Cut(t.acc, t) \/ Kept(t.acc)
        /\ \A b \in Accounts \ {t.acc} : SameLists(b)
    BY <1>5, RemoveLists DEF Inv
  <2>2. \A b \in Accounts \ {t.acc} : Kept(b)
    BY <2>1, SameKept
  <2>3. phase \in {"idle", "reinject", "truncQueue"}
    BY <1>5 DEF PhaseInv
  <2>4. \A a \in Accounts : Kept(a) \/ \E u \in pending[a] : Cut(a, u)
    BY <2>1, <2>2 DEF Cut
  <2> QED BY <1>5, <2>3, <2>4 DEF Steady, NoLoop
<1>6. ASSUME NEW t \in drops, Drop(t) PROVE Steady
  <2>1. UNCHANGED <<chainVars, dirty, phase, todo, resetting>>
    BY <1>6 DEF Drop
  <2>2. CASE t \in all
    BY <1>5, <1>6, <2>1, <2>2 DEF Drop
  <2>3. CASE t \notin all
    <3>1. UNCHANGED <<pending, queue, nonces>>
      BY <1>6, <2>3, PoolFields DEF Drop, SetPool
    <3> QED BY <2>1, <3>1, PoolSame DEF Steady
  <2> QED BY <2>2, <2>3
<1>7. ASSUME NEW t \in all, RemoveTx(t) PROVE Steady
  BY <1>5, <1>7 DEF RemoveTx, Quiet
<1>8. CASE Equalize \/ Reduce
  <2>1. PICK S \in SUBSET Accounts : Shorten(S)
    BY <1>8, OffendersShortened
  <2>2. \A a \in Accounts : Kept(a) \/ \E t \in pending[a] : Cut(a, t)
    BY <2>1, ShortenLists, SameKept DEF Inv
  <2>3. /\ UNCHANGED <<chainVars, dirty, phase, todo, resetting>>
        /\ phase = "truncPending"
    BY <1>8 DEF Equalize, Reduce, Truncating
  <2> QED BY <2>2, <2>3 DEF Steady
<1>9. CASE \/ \E price \in Prices : SetGasPrice(price)
           \/ Evict \/ NextOffender
           \/ \E a \in Accounts : Lapse(a) \/ TruncateQueue(a)
  <2>1. UNCHANGED <<pending, queue, nonces, chainVars, dirty, phase, todo, resetting>>
    BY <1>9 DEF SetGasPrice, Evict, NextOffender, Lapse, TruncateQueue, poolVars
  <2> QED BY <2>1, PoolSame DEF Steady
<1> QED BY <1>2, <1>3, <1>4, <1>6, <1>7, <1>8, <1>9 DEF Operation

LEMMA PhaseInvStep ==
  ASSUME Inv, PhaseInv, Next PROVE PhaseInv'
<1>1. ASSUME UNCHANGED <<adding, chainVars>>
      PROVE  \A x \in adding' : Valid(x.tx.acc, x.tx)'
  BY <1>1 DEF PhaseInv, Valid, chainVars
<1>2. ASSUME NEW t \in Txs, NEW local \in BOOLEAN, Add(t, local), NoLoop,
             phase \in {"idle", "reinject"}, inject' \subseteq inject,
             UNCHANGED <<chainVars, phase, resetting>>
      PROVE  PhaseInv'
  <2>1. CASE Admitted(t, local) /\ Full
    <3>1. adding' = {[tx |-> t, local |-> local]}
      BY <1>2, <2>1 DEF Add
    <3>2. Valid(t.acc, t)
      BY <2>1 DEF Admitted, validateTx, Valid
    <3>3. \A x \in adding' : Valid(x.tx.acc, x.tx)'
      BY <1>2, <3>1, <3>2 DEF Valid, chainVars
    <3> QED BY <1>2, <3>3 DEF PhaseInv
  <2>2. CASE ~(Admitted(t, local) /\ Full)
    <3>1. UNCHANGED <<drops, adding>>
      BY <1>2, <2>2 DEF Add
    <3> QED BY <1>1, <1>2, <3>1 DEF PhaseInv
  <2> QED BY <2>1, <2>2
<1>3. ASSUME NEW t \in Txs, NEW local \in BOOLEAN, AddTx(t, local) PROVE PhaseInv'
  BY <1>2, <1>3 DEF AddTx, Quiet
<1>4. ASSUME NEW t \in inject, Reinject(t) PROVE PhaseInv'
  <2>1. t \in Txs
    BY DEF Inv, RestType
  <2> QED BY <1>2, <1>4, <2>1 DEF Reinject
<1>5. CASE AddRoomy
  BY <1>5 DEF AddRoomy, PhaseInv
<1>6. ASSUME NEW t, Drop(t) PROVE PhaseInv'
  BY <1>1, <1>6 DEF Drop, PhaseInv
<1>7. CASE \/ \E t \in all : RemoveTx(t)
           \/ \E price \in Prices : SetGasPrice(price)
           \/ Evict \/ NextOffender \/ Equalize \/ Reduce
           \/ \E a \in Accounts : Lapse(a) \/ TruncateQueue(a)
  <2>1. /\ UNCHANGED <<adding, chainVars, phase, inject, resetting>>
        /\ drops' # {} => drops # {} \/ phase \in {"idle", "truncQueue"}
    BY <1>7 DEF RemoveTx, SetGasPrice, Evict, NextOffender, Equalize, Reduce, Lapse,
                TruncateQueue, Quiet
  <2> QED BY <1>1, <2>1 DEF PhaseInv
<1>8. CASE Operation
  BY <1>3, <1>4, <1>5, <1>6, <1>7, <1>8 DEF Operation
<1>9. CASE Turn
  <2>1. UNCHANGED <<adding, chainVars, drops, inject>>
    BY <1>9 DEF Turn, RunPromote, RunFailedReset, Reinjected, Promoted, Demoted,
                StartTruncate, PendingTruncated, QueueTruncated
  <2>2. drops # {} => phase' \in {"idle", "reinject", "truncQueue"}
    BY <1>9 DEF Turn, RunPromote, RunFailedReset, Reinjected, Promoted, Demoted,
                StartTruncate, PendingTruncated, QueueTruncated, Quiet, NoLoop, PhaseInv
  <2>3. phase' \in {"reinject", "demote"} => resetting'
    BY <1>9 DEF Turn, RunPromote, RunFailedReset, Reinjected, Promoted, Demoted,
                StartTruncate, PendingTruncated, QueueTruncated
  <2>4. phase' # "reinject" => inject = {}
    BY <1>9 DEF Turn, RunPromote, RunFailedReset, Reinjected, Promoted, Demoted,
                StartTruncate, PendingTruncated, QueueTruncated, Quiet, PhaseInv
  <2> QED BY <1>1, <2>1, <2>2, <2>3, <2>4 DEF PhaseInv
<1>10. CASE Reset
  <2>1. adding' = {} /\ drops' = {} /\ phase' = "reinject" /\ resetting' = TRUE
    BY <1>10 DEF Reset, RunReset, Quiet, NoLoop
  <2> QED BY <2>1 DEF PhaseInv
<1>11. CASE Finish
  BY <1>1, <1>11 DEF Finish, PhaseInv
<1>12. ASSUME NEW a \in Accounts, PromoteAccount(a) \/ DemoteAccount(a) PROVE PhaseInv'
  BY <1>1, <1>12 DEF PromoteAccount, DemoteAccount, PhaseInv
<1> QED BY <1>8, <1>9, <1>10, <1>11, <1>12, NextCases

LEMMA PhaseInvInit == Init => PhaseInv
BY DEF Init, PhaseInv
-----------------------------------------------------------------------------
(***************************************************************************)
(* The front of the pending lists                                          *)
(***************************************************************************)
\* A reset is under way and has not yet settled the pending list of a.
Unsettled(a) ==
  resetting /\ (phase \in {"reinject", "promote"} \/ (phase = "demote" /\ a \in todo))

\* FrontExecutable for account a; without pending transactions the virtual
\* nonce is not ahead, so that a promotion starts at the front.
Front(a) ==
  /\ \A t \in pending[a] : Valid(a, t)
  /\ pending[a] # {} => nonce[a] \in Nonces(pending[a])
  /\ pending[a] = {} => nonces[a] =< nonce[a]

\* The same before the list is settled: it may hold what the chain has included.
Started(a) ==
  nonces[a] =< nonce[a] \/ \E t \in pending[a] : t.nonce = nonce[a] /\ t.price =< balance[a]

FrontInv == \A a \in Accounts : IF Unsettled(a) THEN Started(a) ELSE Front(a)

\* The numbers of an account.
LEMMA AccountNumbers ==
  ASSUME Inv, NEW a \in Accounts
  PROVE  /\ nonces[a] \in Int /\ nonce[a] \in Int /\ balance[a] \in Int
         /\ \A t \in pending[a] \cup queue[a] :
              t.nonce \in Int /\ t.price \in Int /\ t.nonce >= 0
         /\ \A t, u \in pending[a] \cup queue[a] : t.nonce = u.nonce => t = u
         /\ \A t \in pending[a] : t \notin queue[a]
<1>1. /\ pending[a] \in SUBSET Txs /\ queue[a] \in SUBSET Txs
      /\ nonces[a] \in 0..MaxNonce + 1
      /\ \A t, u \in pending[a] \cup queue[a] : t.nonce = u.nonce => t = u
      /\ \A t \in pending[a] : t \notin queue[a]
  BY Lists DEF Inv
<1>2. nonce[a] \in Int /\ balance[a] \in Int
  BY ChainNumbers DEF Inv, RestType
<1>3. \A t \in Txs : t.nonce \in Int /\ t.price \in Int /\ t.nonce >= 0
  <2>1. \A t \in Txs : t.nonce \in 0..MaxNonce
    BY DEF Txs
  <2> QED BY <2>1, TxNumbers, TxPoolAssumption
<1> QED BY <1>1, <1>2, <1>3, TxPoolAssumption

LEMMA KeptFront ==
  ASSUME Inv, NEW a \in Accounts, Kept(a), UNCHANGED chainVars
  PROVE  (Front(a) => Front(a)') /\ (Started(a) => Started(a)')
<1> USE DEF chainVars
<1>1. ASSUME Front(a) PROVE Front(a)'
  <2>1. \A t \in pending'[a] : Valid(a, t)'
    BY <1>1 DEF Front, Kept, Valid
  <2>2. pending'[a] # {} <=> pending[a] # {}
    <3>1. Nonces(pending'[a]) = Nonces(pending[a])
      BY DEF Kept
    <3> QED BY <3>1 DEF Nonces
  <2>3. nonces'[a] = nonces[a] /\ Nonces(pending'[a]) = Nonces(pending[a])
    BY DEF Kept
  <2>4. Nonces(pending[a])' = Nonces(pending'[a])
    BY DEF Nonces
  <2> QED BY <1>1, <2>1, <2>2, <2>3, <2>4 DEF Front
<1>2. ASSUME Started(a) PROVE Started(a)'
  <2>1. nonces'[a] = nonces[a] /\ Nonces(pending'[a]) = Nonces(pending[a])
    BY DEF Kept
  <2>2. CASE nonces[a] =< nonce[a]
    BY <2>1, <2>2 DEF Started
  <2>3. ASSUME NEW t \in pending[a], t.nonce = nonce[a], t.price =< balance[a]
        PROVE  Started(a)'
    <3>1. t.nonce \in Nonces(pending'[a])
      BY <2>1 DEF Nonces
    <3>2. PICK u \in pending'[a] : u.nonce = t.nonce
      BY <3>1 DEF Nonces
    <3>3. u.price =< balance[a]
      BY <2>3, <3>2, AccountNumbers DEF Kept, Valid
    <3> QED BY <2>3, <3>2, <3>3 DEF Started
  <2> QED BY <1>2, <2>2, <2>3 DEF Started
<1> QED BY <1>1, <1>2

LEMMA QueuedFront ==
  ASSUME NEW a \in Accounts, Queued(a), UNCHANGED chainVars
  PROVE  (Front(a) => Front(a)') /\ (Started(a) => Started(a)')
BY DEF Queued, Front, Started, Valid, Nonces, chainVars

LEMMA CutFront ==
  ASSUME Inv, NEW a \in Accounts, NEW t \in pending[a], Cut(a, t), UNCHANGED chainVars
  PROVE  (Front(a) => Front(a)') /\ (Started(a) => Started(a)')
<1> USE DEF chainVars
<1>1. /\ nonces[a] \in Int /\ nonce[a] \in Int /\ t.nonce \in Int
      /\ \A u \in pending[a] : u.nonce \in Int
  BY AccountNumbers
<1>2. /\ pending'[a] = {u \in pending[a] : u.nonce < t.nonce}
      /\ nonces'[a] = Lower(t.nonce, nonces[a])
  BY DEF Cut
<1>3. nonces'[a] =< t.nonce /\ nonces'[a] =< nonces[a] /\ nonces'[a] \in Int
  BY <1>1, <1>2 DEF Lower
<1>4. ASSUME Front(a) PROVE Front(a)'
  <2>1. PICK f \in pending[a] : f.nonce = nonce[a]
    BY <1>4 DEF Front, Nonces
  <2>2. \A u \in pending'[a] : Valid(a, u)'
    BY <1>2, <1>4 DEF Front, Valid
  <2>3. CASE f.nonce < t.nonce
    <3>1. f \in pending'[a]
      BY <1>2, <2>3
    <3> QED BY <2>1, <2>2, <3>1 DEF Front, Nonces
  <2>4. CASE ~(f.nonce < t.nonce)
    <3>1. nonces'[a] =< nonce[a]
      BY <1>1, <1>3, <2>1, <2>4
    <3>2. pending'[a] = {}
      BY <1>1, <1>2, <1>4, <2>1, <2>4 DEF Front, Valid
    <3> QED BY <3>1, <3>2 DEF Front
  <2> QED BY <2>3, <2>4
<1>5. ASSUME Started(a) PROVE Started(a)'
  <2>1. CASE nonces[a] =< nonce[a]
    BY <1>1, <1>3, <2>1 DEF Started
  <2>2. ASSUME NEW f \in pending[a], f.nonce = nonce[a], f.price =< balance[a]
        PROVE  Started(a)'
    BY <1>1, <1>2, <1>3, <2>2 DEF Started
  <2> QED BY <1>5, <2>1, <2>2 DEF Started
<1> QED BY <1>4, <1>5

\* A promotion that starts at or below the nonce of the state starts with it.
LEMMA ReadyFirst ==
  ASSUME NEW L, NEW n \in Int, NEW m \in Int, m =< n,
         \A t \in L : t.nonce \in Int /\ n =< t.nonce, Ready(L, m) # {}
  PROVE  \E t \in Ready(L, m) : t.nonce = n
<1>1. PICK u \in L : u.nonce =< m
  BY DEF Ready
<1>2. u.nonce = n
  BY <1>1
<1>3. \A k \in 0..u.nonce : (\E v \in L : v.nonce =< k) => k \in Nonces(L)
  BY <1>2 DEF Nonces
<1>4. u \in Ready(L, m)
  BY <1>1, <1>3 DEF Ready
<1> QED BY <1>2, <1>4

LEMMA PromotesFront ==
  ASSUME Inv, NEW a \in Accounts, Promotes(a), UNCHANGED chainVars
  PROVE  (Front(a) => Front(a)') /\ (Started(a) => Started(a)')
<1> USE DEF chainVars
<1> DEFINE live == {t \in queue[a] : nonce[a] =< t.nonce /\ t.price =< balance[a]}
           ready == Ready(live, nonces[a])
<1>1. /\ nonces[a] \in Int /\ nonce[a] \in Int
      /\ \A u \in live : u.nonce \in Int /\ nonce[a] =< u.nonce
  BY AccountNumbers
<1>2. /\ pending'[a] = pending[a] \cup ready
      /\ nonces'[a] = IF ready = {} THEN nonces[a] ELSE LastNonce(ready) + 1
  BY DEF Promotes
<1>3. \A t \in ready : Valid(a, t) /\ t.price =< balance[a]
  BY DEF Ready, Valid
<1>4. nonces[a] =< nonce[a] /\ ready # {} => \E t \in ready : t.nonce = nonce[a]
  <2> HIDE DEF live
  <2> QED BY <1>1, ReadyFirst
<1> HIDE DEF ready, live
<1>5. ASSUME Front(a) PROVE Front(a)'
  <2>1. \A t \in pending'[a] : Valid(a, t)'
    BY <1>2, <1>3, <1>5 DEF Front, Valid
  <2>2. pending'[a] # {} => nonce[a] \in Nonces(pending'[a])
    BY <1>2, <1>4, <1>5 DEF Front, Nonces
  <2>3. pending'[a] = {} => nonces'[a] =< nonce[a]
    BY <1>2, <1>5 DEF Front
  <2>4. Nonces(pending[a])' = Nonces(pending'[a])
    BY DEF Nonces
  <2> QED BY <2>1, <2>2, <2>3, <2>4 DEF Front
<1>6. ASSUME Started(a) PROVE Started(a)'
  <2>1. CASE nonces[a] =< nonce[a] /\ ready # {}
    BY <1>2, <1>3, <1>4, <2>1 DEF Started
  <2>2. CASE nonces[a] =< nonce[a] /\ ready = {}
    BY <1>2, <2>2 DEF Started
  <2>3. CASE \E t \in pending[a] : t.nonce = nonce[a] /\ t.price =< balance[a]
    BY <1>2, <2>3 DEF Started
  <2> QED BY <1>6, <2>1, <2>2, <2>3 DEF Started
<1> QED BY <1>5, <1>6

\* What stays pending is valid and starts with the next transaction, which stays
\* if it is payable.
LEMMA StaysValid ==
  ASSUME Inv, NEW a \in Accounts
  PROVE  LET L == StaysPending(a, pending[a])
         IN /\ \A t \in L : t \in pending[a] /\ Valid(a, t)
            /\ L # {} => nonce[a] \in Nonces(L)
            /\ \A t \in pending[a] : t.nonce = nonce[a] /\ t.price =< balance[a] => t \in L
<1>1. /\ nonce[a] \in Int /\ balance[a] \in Int
      /\ \A u \in pending[a] : u.nonce \in Int /\ u.price \in Int
  BY AccountNumbers
<1> DEFINE new == {t \in pending[a] : t.nonce >= nonce[a]}
           unpayable == {t \in new : t.price > balance[a]}
           invalids == {t \in new \ unpayable : \E u \in unpayable : u.nonce < t.nonce}
           kept == new \ (unpayable \cup invalids)
           L == StaysPending(a, pending[a])
<1>2. L = IF nonce[a] \in Nonces(kept) THEN kept ELSE {}
  BY DEF StaysPending
<1>3. \A t \in kept : t \in pending[a] /\ Valid(a, t)
  BY <1>1 DEF Valid
<1>4. \A t \in pending[a] : t.nonce = nonce[a] /\ t.price =< balance[a] => t \in kept
  BY <1>1
<1> HIDE DEF kept, L
<1>5. \A t \in pending[a] : t.nonce = nonce[a] /\ t.price =< balance[a] => t \in L
  BY <1>2, <1>4 DEF Nonces
<1>6. L # {} => nonce[a] \in Nonces(L)
  BY <1>2
<1>7. \A t \in L : t \in pending[a] /\ Valid(a, t)
  BY <1>2, <1>3
<1> QED BY <1>5, <1>6, <1>7 DEF L

LEMMA DemotesFront ==
  ASSUME Inv, NEW a \in Accounts, Demotes(a), Started(a), UNCHANGED chainVars
  PROVE  Front(a)'
<1> USE DEF chainVars
<1> DEFINE L == StaysPending(a, pending[a])
<1>1. /\ \A t \in L : t \in pending[a] /\ Valid(a, t)
      /\ L # {} => nonce[a] \in Nonces(L)
      /\ \A t \in pending[a] : t.nonce = nonce[a] /\ t.price =< balance[a] => t \in L
  BY StaysValid
<1>2. pending'[a] = L /\ nonces'[a] = nonces[a]
  BY DEF Demotes
<1> HIDE DEF L
<1>3. L = {} => nonces[a] =< nonce[a]
  BY <1>1 DEF Started
<1> QED BY <1>1, <1>2, <1>3 DEF Front, Valid, Nonces

\* Unchanged lists.
LEMMA SameFront ==
  ASSUME NEW a \in Accounts, SameLists(a), UNCHANGED chainVars
  PROVE  (Front(a) <=> Front(a)') /\ (Started(a) <=> Started(a)')
BY DEF SameLists, Front, Started, Valid, Nonces, chainVars

LEMMA FrontStarted ==
  ASSUME NEW a \in Accounts, Front(a) PROVE Started(a)
BY DEF Front, Started, Valid, Nonces

LEMMA FrontStep ==
  ASSUME Inv, PhaseInv, FrontInv, Next PROVE FrontInv'
<1>1. ASSUME NEW a \in Accounts,
             (Front(a) => Front(a)') /\ (Started(a) => Started(a)'),
             Unsettled(a)' <=> Unsettled(a)
      PROVE  IF Unsettled(a)' THEN Started(a)' ELSE Front(a)'
  BY <1>1 DEF FrontInv
<1>2. CASE Operation
  <2>1. Steady
    BY <1>2, OperationSteady
  <2>2. ASSUME NEW a \in Accounts
        PROVE  IF Unsettled(a)' THEN Started(a)' ELSE Front(a)'
    <3>1. (Front(a) => Front(a)') /\ (Started(a) => Started(a)')
      BY <2>1, KeptFront, CutFront, QueuedFront DEF Steady
    <3>2. Unsettled(a)' <=> Unsettled(a)
      BY <2>1 DEF Steady, Unsettled
    <3> QED BY <1>1, <3>1, <3>2
  <2> QED BY <2>2 DEF FrontInv
<1>3. CASE Turn
  <2>1. UNCHANGED <<pending, queue, nonces, chainVars>>
    BY <1>3 DEF Turn, RunPromote, RunFailedReset, Reinjected, Promoted, Demoted,
                StartTruncate, PendingTruncated, QueueTruncated, poolVars
  <2>2. ASSUME NEW a \in Accounts
        PROVE  IF Unsettled(a)' THEN Started(a)' ELSE Front(a)'
    <3>1. (Front(a) <=> Front(a)') /\ (Started(a) <=> Started(a)')
      BY <2>1, SameFront DEF SameLists
    <3>2. CASE ~Unsettled(a)
      BY <3>1, <3>2, FrontStarted DEF FrontInv
    <3>3. CASE Unsettled(a) /\ Unsettled(a)'
      BY <3>1, <3>3 DEF FrontInv
    <3>4. CASE Unsettled(a) /\ ~Unsettled(a)'
      <4>1. pending[a] = {}
        <5>1. Promoted
          BY <1>3, <3>4 DEF Turn, RunPromote, RunFailedReset, Reinjected, Demoted,
               StartTruncate, PendingTruncated, QueueTruncated, Quiet, Unsettled
        <5> QED BY <3>4, <5>1 DEF Promoted, Unsettled
      <4>2. Started(a)
        BY <3>4 DEF FrontInv
      <4>3. Front(a)
        BY <4>1, <4>2 DEF Front, Started
      <4> QED BY <3>1, <3>4, <4>3
    <3> QED BY <3>2, <3>3, <3>4
  <2> QED BY <2>2 DEF FrontInv
<1>4. ASSUME NEW c \in Accounts, PromoteAccount(c) PROVE FrontInv'
  <2>1. Promotes(c) /\ (\A b \in Accounts \ {c} : SameLists(b))
    BY <1>4, PromoteLists DEF Inv, RestType
  <2>2. UNCHANGED chainVars /\ \A a \in Accounts : Unsettled(a)' <=> Unsettled(a)
    BY <1>4 DEF PromoteAccount, Unsettled
  <2>3. ASSUME NEW a \in Accounts
        PROVE  (Front(a) => Front(a)') /\ (Started(a) => Started(a)')
    BY <2>1, <2>2, PromotesFront, SameFront
  <2> QED BY <1>1, <2>2, <2>3 DEF FrontInv
<1>5. ASSUME NEW c \in Accounts, DemoteAccount(c) PROVE FrontInv'
  <2>1. Demotes(c) /\ (\A b \in Accounts \ {c} : SameLists(b))
    BY <1>5, DemoteLists DEF Inv, RestType
  <2>2. /\ UNCHANGED chainVars /\ Unsettled(c) /\ ~Unsettled(c)'
        /\ \A a \in Accounts \ {c} : Unsettled(a)' <=> Unsettled(a)
    BY <1>5 DEF DemoteAccount, Unsettled, PhaseInv
  <2>3. Front(c)'
    BY <2>1, <2>2, DemotesFront DEF FrontInv
  <2>4. \A a \in Accounts \ {c} : IF Unsettled(a)' THEN Started(a)' ELSE Front(a)'
    BY <1>1, <2>1, <2>2, SameFront
  <2> QED BY <2>2, <2>3, <2>4 DEF FrontInv
<1>6. CASE Reset
  <2>1. PICK D \in SUBSET dirty, ns \in Heads, bs \in [Accounts -> Balances], R \in SUBSET Txs :
           RunReset(ns, bs, R, D)
    BY <1>6 DEF Reset, Undone
  <2>2. ns \in [Accounts -> 0..MaxNonce + 1]
    BY DEF Heads
  <2>3. nonces' = ns /\ nonce' = ns /\ resetting' = TRUE /\ phase' = "reinject"
    BY <2>1 DEF RunReset
  <2>4. \A a \in Accounts : ns[a] =< ns[a]
    BY <2>2, TxPoolAssumption
  <2> QED BY <2>3, <2>4 DEF FrontInv, Unsettled, Started
<1>7. CASE Finish
  <2>1. /\ UNCHANGED <<pending, chainVars>>
        /\ \A a \in Accounts : pending[a] = {} => nonces'[a] = nonces[a]
        /\ \A a \in Accounts : ~Unsettled(a) /\ ~Unsettled(a)'
    BY <1>7 DEF Finish, Unsettled
  <2>2. ASSUME NEW a \in Accounts PROVE Front(a)'
    <3>1. Front(a)
      BY <2>1 DEF FrontInv
    <3> QED BY <2>1, <3>1 DEF Front, Valid, Nonces, chainVars
  <2> QED BY <2>1, <2>2 DEF FrontInv
<1> QED BY <1>2, <1>3, <1>4, <1>5, <1>6, <1>7, NextCases

LEMMA FrontInit == Init => FrontInv
<1> SUFFICES ASSUME Init PROVE FrontInv
  OBVIOUS
<1>1. \A a \in Accounts : Front(a) /\ ~Unsettled(a)
  BY DEF Init, Front, Unsettled
<1> QED BY <1>1 DEF FrontInv

LEMMA FrontInvariance == Spec => [](Inv /\ PhaseInv /\ FrontInv)
<1>1. Inv /\ PhaseInv /\ FrontInv /\ [Next]_vars => (PhaseInv /\ FrontInv)'
  <2> SUFFICES ASSUME Inv, PhaseInv, FrontInv, [Next]_vars PROVE (PhaseInv /\ FrontInv)'
    OBVIOUS
  <2>1. CASE Next
    BY <2>1, PhaseInvStep, FrontStep
  <2>2. CASE UNCHANGED vars
    <3>1. PhaseInv'
      BY <2>2 DEF PhaseInv, Valid, vars, chainVars
    <3>2. FrontInv'
      BY <2>2 DEF FrontInv, Front, Started, Unsettled, Valid, Nonces, vars, poolVars, chainVars
    <3> QED BY <3>1, <3>2
  <2> QED BY <2>1, <2>2
<1>2. Init => PhaseInv /\ FrontInv
  BY PhaseInvInit, FrontInit
<1> QED BY <1>1, <1>2, Invariance, PTL DEF Spec

\* At rest the pending transactions of every account are payable and start with
\* the one that the chain state asks for, whatever was reorganised, reinjected,
\* repriced, truncated or removed before.
THEOREM PoolFrontExecutable == Spec => []FrontExecutable
<1>1. FrontInv => FrontExecutable
  <2> SUFFICES ASSUME FrontInv, Quiet, NEW a \in Accounts
               PROVE  /\ \A t \in pending[a] : nonce[a] =< t.nonce /\ t.price =< balance[a]
                      /\ pending[a] # {} => nonce[a] \in Nonces(pending[a])
    BY DEF FrontExecutable
  <2>1. Front(a)
    BY DEF FrontInv, Unsettled, Quiet
  <2> QED BY <2>1 DEF Front, Valid
<1> QED BY <1>1, FrontInvariance, PTL
-----------------------------------------------------------------------------
(***************************************************************************)
(* What is ready is promoted                                               *)
(***************************************************************************)
\* A list has a first nonce.
LEMMA FirstNonce ==
  ASSUME NEW L, L \subseteq Txs, L # {}
  PROVE  \E f \in L : \A u \in L : f.nonce =< u.nonce
<1>1. \A t \in L : t.nonce \in Nat
  <2>1. \A t \in L : t.nonce \in 0..MaxNonce
    BY DEF Txs
  <2> QED BY <2>1, TxPoolAssumption
<1>2. Nonces(L) \subseteq Nat /\ Nonces(L) # {}
  BY <1>1 DEF Nonces
<1>3. \E x \in Nonces(L) : \A y \in Nonces(L) : ~(<<y, x>> \in OpToRel(<, Nat))
  BY <1>2, NatLessThanWellFounded, WFMin
<1>4. PICK x \in Nonces(L) : \A y \in Nonces(L) : ~(y < x)
  BY <1>2, <1>3 DEF OpToRel
<1>5. PICK f \in L : f.nonce = x
  BY DEF Nonces
<1>6. \A u \in L : u.nonce \in Nonces(L)
  BY DEF Nonces
<1>7. \A u \in L : ~(u.nonce < f.nonce)
  BY <1>4, <1>5, <1>6
<1> QED BY <1>1, <1>7

\* What a promotion leaves does not have the nonce that comes next.
LEMMA ReadyMaximal ==
  ASSUME NEW L, L \subseteq Txs, NEW start \in Int, NEW u \in L, u \notin Ready(L, start)
  PROVE  IF Ready(L, start) = {} THEN u.nonce # start
         ELSE u.nonce # LastNonce(Ready(L, start)) + 1
<1> DEFINE R == Ready(L, start)
<1>1. \A t \in L : t.nonce \in Int /\ t.nonce >= 0
  <2>1. \A t \in L : t.nonce \in 0..MaxNonce
    BY DEF Txs
  <2> QED BY <2>1, TxPoolAssumption
<1>2. R \subseteq L
  BY DEF Ready
<1>3. CASE R = {}
  <2>1. SUFFICES ASSUME u.nonce = start PROVE FALSE
    BY <1>3
  <2>2. PICK f \in L : \A v \in L : f.nonce =< v.nonce
    BY FirstNonce
  <2>3. f.nonce =< start
    BY <2>1, <2>2
  <2>4. \A n \in 0..f.nonce : (\E v \in L : v.nonce =< n) => n = f.nonce
    <3> SUFFICES ASSUME NEW n \in 0..f.nonce, NEW v \in L, v.nonce =< n PROVE n = f.nonce
      OBVIOUS
    <3>1. f.nonce =< v.nonce /\ f.nonce \in Int /\ v.nonce \in Int
      BY <1>1, <2>2
    <3> QED BY <3>1
  <2>5. f \in R
    BY <2>3, <2>4 DEF Ready, Nonces
  <2> QED BY <1>3, <2>5
<1>4. CASE R # {}
  <2> DEFINE m == LastNonce(R)
  <2>1. m \in Nonces(R)
    <3> HIDE DEF R
    <3> QED BY <1>2, <1>4, LastNonceType
  <2>2. PICK t \in R : t.nonce = m
    BY <2>1 DEF Nonces
  <2>3. SUFFICES ASSUME u.nonce = m + 1 PROVE FALSE
    BY <1>4
  <2> HIDE DEF m
  <2>4. /\ \E v \in L : v.nonce =< start
        /\ \A n \in 0..t.nonce : (\E v \in L : v.nonce =< n) => n \in Nonces(L)
        /\ t.nonce \in Int /\ u.nonce \in Int
    BY <1>1, <1>2, <2>2 DEF Ready
  <2>5. PICK n \in 0..u.nonce : (\E v \in L : v.nonce =< n) /\ n \notin Nonces(L)
    BY <2>4 DEF Ready
  <2>6. n # u.nonce
    BY <2>5 DEF Nonces
  <2>7. n \in 0..t.nonce
    BY <2>2, <2>3, <2>4, <2>6
  <2> QED BY <2>4, <2>5, <2>7
<1> QED BY <1>3, <1>4

\* The next transaction of a is not in the queue.
Strong(a) == nonces[a] \notin Nonces(queue[a])

\* It is not, or others are pending.
Served(a) == (pending[a] # {} /\ nonces[a] >= nonce[a]) \/ Strong(a)

\* Which accounts are served, by phase: a promotion serves those it has visited,
\* and the demotion keeps them so.
ReadyInv ==
  \A a \in Accounts :
    /\ phase = "promote" /\ resetting /\ a \notin todo => Strong(a)
    /\ phase = "promote" /\ ~resetting /\ a \notin todo \cup dirty => Served(a)
    /\ phase = "demote" => IF a \in todo THEN Strong(a) ELSE Served(a)
    /\ phase \notin {"reinject", "promote", "demote"} /\ a \notin dirty => Served(a)

LEMMA PromotesServes ==
  ASSUME Inv, NEW a \in Accounts, Promotes(a) PROVE Strong(a)'
<1> DEFINE live == {t \in queue[a] : nonce[a] =< t.nonce /\ t.price =< balance[a]}
           ready == Ready(live, nonces[a])
<1>1. live \subseteq Txs /\ nonces[a] \in Int
  BY Lists, AccountNumbers DEF Inv
<1>2. /\ queue'[a] \subseteq live \ ready
      /\ nonces'[a] = IF ready = {} THEN nonces[a] ELSE LastNonce(ready) + 1
  BY DEF Promotes
<1> HIDE DEF live
<1>3. \A u \in live \ ready : u.nonce # nonces'[a]
  BY <1>1, <1>2, ReadyMaximal
<1> QED BY <1>2, <1>3 DEF Strong, Nonces

LEMMA KeptServes ==
  ASSUME NEW a \in Accounts, Kept(a), UNCHANGED chainVars
  PROVE  (Served(a) => Served(a)') /\ (Strong(a) => Strong(a)')
<1>1. /\ nonces'[a] = nonces[a] /\ Nonces(pending'[a]) = Nonces(pending[a])
      /\ Nonces(queue'[a]) \subseteq Nonces(queue[a])
  BY DEF Kept
<1>2. Nonces(queue[a])' = Nonces(queue'[a])
  BY DEF Nonces
<1>3. pending[a] # {} => pending'[a] # {}
  BY <1>1 DEF Nonces
<1> QED BY <1>1, <1>2, <1>3 DEF Served, Strong, chainVars

LEMMA SameServes ==
  ASSUME NEW a \in Accounts, SameLists(a), UNCHANGED chainVars
  PROVE  (Served(a) <=> Served(a)') /\ (Strong(a) <=> Strong(a)')
BY DEF SameLists, Served, Strong, Nonces, chainVars

LEMMA CutServes ==
  ASSUME Inv, NEW a \in Accounts, NEW t \in pending[a], Cut(a, t), Front(a), Served(a),
         UNCHANGED chainVars
  PROVE  Served(a)'
<1> USE DEF chainVars
<1>1. /\ nonces[a] \in Int /\ nonce[a] \in Int
      /\ \A u \in pending[a] \cup queue[a] : u.nonce \in Int
      /\ \A u, v \in pending[a] \cup queue[a] : u.nonce = v.nonce => u = v
      /\ \A u \in pending[a] : u \notin queue[a]
  BY AccountNumbers
<1>2. /\ pending'[a] = {u \in pending[a] : u.nonce < t.nonce}
      /\ queue'[a] = queue[a] \cup {u \in pending[a] : u.nonce > t.nonce}
      /\ nonces'[a] = Lower(t.nonce, nonces[a])
  BY DEF Cut
<1>3. t.nonce \in Int /\ t.nonce >= nonce[a]
  BY <1>1 DEF Front, Valid
<1>4. CASE nonces[a] < nonce[a]
  <2>1. nonces'[a] = nonces[a] /\ nonces[a] < t.nonce
    BY <1>1, <1>2, <1>3, <1>4 DEF Lower
  <2>2. \A u \in queue[a] : u.nonce # nonces[a]
    BY <1>1, <1>4 DEF Served, Strong, Nonces
  <2>3. \A u \in queue'[a] : u.nonce # nonces'[a]
    BY <1>1, <1>2, <1>3, <2>1, <2>2
  <2> QED BY <2>3 DEF Served, Strong, Nonces
<1>5. CASE nonces[a] >= nonce[a] /\ t.nonce = nonce[a]
  <2>1. nonces'[a] = t.nonce
    BY <1>1, <1>2, <1>3, <1>5 DEF Lower
  <2>2. \A u \in queue'[a] : u.nonce # t.nonce
    BY <1>1, <1>2, <1>3
  <2> QED BY <2>1, <2>2 DEF Served, Strong, Nonces
<1>6. CASE nonces[a] >= nonce[a] /\ t.nonce > nonce[a]
  <2>1. nonces'[a] >= nonce[a]
    BY <1>1, <1>2, <1>3, <1>6 DEF Lower
  <2>2. PICK f \in pending[a] : f.nonce = nonce[a]
    BY DEF Front, Nonces
  <2>3. f \in pending'[a]
    BY <1>2, <1>6, <2>2
  <2> QED BY <2>1, <2>3 DEF Served
<1> QED BY <1>1, <1>3, <1>4, <1>5, <1>6

LEMMA DemotesServes ==
  ASSUME Inv, NEW a \in Accounts, Demotes(a), Started(a), Strong(a), UNCHANGED chainVars
  PROVE  Served(a)'
<1> USE DEF chainVars
<1> DEFINE L == StaysPending(a, pending[a])
           B == Postponed(a, pending[a])
<1>1. /\ nonces[a] \in Int /\ nonce[a] \in Int /\ balance[a] \in Int
      /\ \A u \in pending[a] : u.nonce \in Int /\ u.price \in Int
  BY AccountNumbers
<1>2. \A t \in pending[a] : t.nonce = nonce[a] /\ t.price =< balance[a] => t \in L
  BY StaysValid
<1>3. pending'[a] = L /\ nonces'[a] = nonces[a] /\ queue'[a] = queue[a] \cup B
  BY DEF Demotes
<1>4. \A t \in B : /\ t \in pending[a] /\ t.nonce >= nonce[a] /\ t.price =< balance[a]
                   /\ t \notin L
  BY <1>1 DEF Postponed
<1>5. \A t \in B : t.nonce > nonce[a]
  <2> HIDE DEF L, B
  <2> QED BY <1>1, <1>2, <1>4
<1> HIDE DEF L, B
<1>6. CASE nonces[a] =< nonce[a]
  <2>1. \A u \in queue[a] : u.nonce # nonces[a]
    BY DEF Strong, Nonces
  <2>2. \A u \in B : u.nonce # nonces[a]
    BY <1>1, <1>4, <1>5, <1>6
  <2>3. \A u \in queue'[a] : u.nonce # nonces'[a]
    BY <1>3, <2>1, <2>2
  <2> QED BY <2>3 DEF Served, Strong, Nonces
<1>7. CASE ~(nonces[a] =< nonce[a])
  BY <1>1, <1>2, <1>3, <1>7 DEF Served, Started
<1> QED BY <1>6, <1>7

LEMMA ReadyStep ==
  ASSUME Inv, PhaseInv, FrontInv, ReadyInv, Next PROVE ReadyInv'
<1> DEFINE Ok(a) ==
      /\ phase = "promote" /\ resetting /\ a \notin todo => Strong(a)
      /\ phase = "promote" /\ ~resetting /\ a \notin todo \cup dirty => Served(a)
      /\ phase = "demote" => IF a \in todo THEN Strong(a) ELSE Served(a)
      /\ phase \notin {"reinject", "promote", "demote"} /\ a \notin dirty => Served(a)
<1>0. \A a \in Accounts : Ok(a)
  BY DEF ReadyInv
<1>1. CASE Operation
  <2>1. Steady
    BY <1>1, OperationSteady
  <2>2. /\ UNCHANGED <<chainVars, phase, todo, resetting>> /\ dirty \subseteq dirty'
    BY <2>1 DEF Steady
  <2>3. ASSUME NEW a \in Accounts PROVE Ok(a)'
    <3>1. CASE Kept(a)
      <4>1. (Served(a) => Served(a)') /\ (Strong(a) => Strong(a)')
        BY <2>2, <3>1, KeptServes
      <4> QED BY <1>0, <2>2, <4>1
    <3>2. ASSUME NEW t \in pending[a], Cut(a, t),
                 phase \in {"idle", "reinject", "truncPending", "truncQueue"}
          PROVE  Ok(a)'
      <4>1. phase # "reinject" => Front(a)
        BY <3>2 DEF FrontInv, Unsettled
      <4>2. phase # "reinject" /\ Served(a) => Served(a)'
        BY <2>2, <3>2, <4>1, CutServes
      <4> QED BY <1>0, <2>2, <3>2, <4>2
    <3>3. CASE phase = "reinject" \/ (phase = "idle" /\ a \in dirty')
      BY <2>2, <3>3
    <3> QED BY <2>1, <3>1, <3>2, <3>3 DEF Steady
  <2> QED BY <2>3 DEF ReadyInv
<1>2. CASE Turn
  <2>1. UNCHANGED <<pending, queue, nonces, chainVars>>
    BY <1>2 DEF Turn, RunPromote, RunFailedReset, Reinjected, Promoted, Demoted,
                StartTruncate, PendingTruncated, QueueTruncated, poolVars
  <2>2. ASSUME NEW a \in Accounts PROVE Ok(a)'
    <3>1. (Served(a) <=> Served(a)') /\ (Strong(a) <=> Strong(a)')
      BY <2>1, SameServes DEF SameLists
    <3>2. Strong(a) => Served(a)
      BY DEF Served
    <3>3. queue[a] = {} => Strong(a)
      BY DEF Strong, Nonces
    <3>4. Ok(a)
      BY <1>0
    <3>5. CASE Reinjected
      BY <3>1, <3>3, <3>5 DEF Reinjected, PhaseInv
    <3>6. CASE \E D \in SUBSET dirty : RunPromote(D)
      BY <3>1, <3>4, <3>6 DEF RunPromote, Quiet
    <3>7. CASE \E D \in SUBSET dirty : RunFailedReset(D)
      BY <3>7 DEF RunFailedReset
    <3>8. CASE Promoted
      BY <3>1, <3>2, <3>4, <3>8 DEF Promoted
    <3>9. CASE Demoted \/ StartTruncate \/ PendingTruncated \/ QueueTruncated
      BY <3>1, <3>4, <3>9 DEF Demoted, StartTruncate, PendingTruncated, QueueTruncated
    <3> QED BY <1>2, <3>5, <3>6, <3>7, <3>8, <3>9 DEF Turn
  <2> QED BY <2>2 DEF ReadyInv
<1>3. ASSUME NEW c \in Accounts, PromoteAccount(c) PROVE ReadyInv'
  <2>1. Promotes(c) /\ (\A b \in Accounts \ {c} : SameLists(b))
    BY <1>3, PromoteLists DEF Inv, RestType
  <2>2. /\ UNCHANGED <<chainVars, phase, resetting, dirty>> /\ todo' = todo \ {c}
        /\ phase = "promote"
    BY <1>3 DEF PromoteAccount
  <2>3. Strong(c)' /\ Served(c)'
    BY <2>1, PromotesServes DEF Served
  <2>4. ASSUME NEW a \in Accounts \ {c} PROVE Ok(a)'
    <3>1. (Served(a) <=> Served(a)') /\ (Strong(a) <=> Strong(a)')
      BY <2>1, <2>2, SameServes
    <3> QED BY <1>0, <2>2, <3>1
  <2>5. Ok(c)'
    BY <2>2, <2>3
  <2> QED BY <2>4, <2>5 DEF ReadyInv
<1>4. ASSUME NEW c \in Accounts, DemoteAccount(c) PROVE ReadyInv'
  <2>1. Demotes(c) /\ (\A b \in Accounts \ {c} : SameLists(b))
    BY <1>4, DemoteLists DEF Inv, RestType
  <2>2. /\ UNCHANGED <<chainVars, phase, resetting, dirty>> /\ todo' = todo \ {c}
        /\ phase = "demote" /\ c \in todo
    BY <1>4 DEF DemoteAccount
  <2>3. Started(c) /\ Strong(c)
    BY <1>0, <2>2 DEF FrontInv, Unsettled, PhaseInv
  <2>4. Served(c)'
    BY <2>1, <2>2, <2>3, DemotesServes
  <2>5. ASSUME NEW a \in Accounts \ {c} PROVE Ok(a)'
    <3>1. (Served(a) <=> Served(a)') /\ (Strong(a) <=> Strong(a)')
      BY <2>1, <2>2, SameServes
    <3> QED BY <1>0, <2>2, <3>1
  <2>6. Ok(c)'
    BY <2>2, <2>4
  <2> QED BY <2>5, <2>6 DEF ReadyInv
<1>5. CASE Reset
  <2>1. phase' = "reinject"
    BY <1>5 DEF Reset, RunReset
  <2> QED BY <2>1 DEF ReadyInv
<1>6. CASE Finish
  <2>1. /\ UNCHANGED <<pending, queue, chainVars, dirty>> /\ phase = "finish" /\ phase' = "idle"
        /\ \A a \in Accounts :
             nonces'[a] = IF pending[a] = {} THEN nonces[a] ELSE LastNonce(pending[a]) + 1
    BY <1>6 DEF Finish
  <2>2. ASSUME NEW a \in Accounts, Served(a) PROVE Served(a)'
    <3>1. CASE pending[a] = {}
      BY <2>1, <2>2, <3>1 DEF Served, Strong, Nonces
    <3>2. CASE pending[a] # {}
      <4>1. pending[a] \in SUBSET Txs /\ nonce[a] \in Int
        BY Lists, AccountNumbers DEF Inv
      <4>2. nonce[a] \in Nonces(pending[a])
        BY <2>1, <3>2 DEF FrontInv, Front, Unsettled
      <4>3. LastNonce(pending[a]) \in 0..MaxNonce /\ nonce[a] =< LastNonce(pending[a])
        BY <3>2, <4>1, <4>2, LastNonceType
      <4>4. nonces'[a] >= nonce[a]
        BY <2>1, <3>2, <4>1, <4>3, TxPoolAssumption
      <4> QED BY <2>1, <3>2, <4>4 DEF Served, chainVars
    <3> QED BY <3>1, <3>2
  <2> QED BY <1>0, <2>1, <2>2 DEF ReadyInv
<1> QED BY <1>1, <1>2, <1>3, <1>4, <1>5, <1>6, NextCases

LEMMA ReadyInvariance == Spec => [](Inv /\ PhaseInv /\ FrontInv /\ ReadyInv)
<1>1. Inv /\ PhaseInv /\ FrontInv /\ ReadyInv /\ [Next]_vars => ReadyInv'
  <2> SUFFICES ASSUME Inv, PhaseInv, FrontInv, ReadyInv, [Next]_vars PROVE ReadyInv'
    OBVIOUS
  <2>1. CASE UNCHANGED vars
    BY <2>1 DEF ReadyInv, Served, Strong, Nonces, vars, poolVars, chainVars
  <2> QED BY <2>1, ReadyStep
<1>2. Init => ReadyInv
  BY DEF Init, ReadyInv, Served, Strong, Nonces
<1> QED BY <1>1, <1>2, FrontInvariance, PTL DEF Spec

\* No account is left at rest with an executable transaction in its queue and
\* nothing pending, unless its promotion was requested and has not run yet.
THEOREM PoolReadyPromoted == Spec => []ReadyPromoted
<1>1. ReadyInv => ReadyPromoted
  BY DEF ReadyInv, ReadyPromoted, Served, Strong, Quiet
<1> QED BY <1>1, ReadyInvariance, PTL
-----------------------------------------------------------------------------
(***************************************************************************)
(* The capacity of the pool                                                *)
(***************************************************************************)
\* The pool that A is, or would be, is within its capacity; Roomy(A) leaves room
\* for one more transaction, or only local ones.
Within(A) == Cardinality(A) =< Capacity \/ Cardinality({t \in A : ~IsLocal(t)}) =< 1
Roomy(A) == Cardinality(A) < Capacity \/ \A t \in A : IsLocal(t)

\* While add makes room there is room but for what is still to be dropped.
BoundInv == IF adding = {} THEN Within(all) ELSE Roomy(all \ drops)

\* Both hold of any smaller pool, when there are more locals.
LEMMA Shrinks ==
  ASSUME NEW A, A \subseteq Txs, NEW B, B \subseteq A, locals \subseteq locals'
  PROVE  /\ Within(A) => (Cardinality(B) =< Capacity \/ Cardinality({t \in B : t.acc \notin locals'}) =< 1)
         /\ Roomy(A) => (Cardinality(B) < Capacity \/ \A t \in B : t.acc \in locals')
<1> DEFINE RA == {t \in A : ~IsLocal(t)}
           RB == {t \in B : t.acc \notin locals'}
<1>1. Capacity \in Int
  BY TxPoolAssumption DEF Capacity
<1>2. /\ IsFiniteSet(A) /\ Cardinality(A) \in Nat /\ Cardinality(B) \in Nat
      /\ Cardinality(B) =< Cardinality(A)
  BY ListSize, FS_Subset
<1>3. RB \subseteq RA /\ RA \subseteq Txs
  BY DEF IsLocal
<1> HIDE DEF RA, RB
<1>4. /\ IsFiniteSet(RA) /\ Cardinality(RA) \in Nat /\ Cardinality(RB) \in Nat
      /\ Cardinality(RB) =< Cardinality(RA)
  BY <1>3, ListSize, FS_Subset
<1>5. Within(A) => Cardinality(A) =< Capacity \/ Cardinality(RA) =< 1
  BY DEF Within, RA
<1>6. Within(A) => Cardinality(B) =< Capacity \/ Cardinality(RB) =< 1
  BY <1>1, <1>2, <1>4, <1>5
<1>7. Roomy(A) => (Cardinality(B) < Capacity \/ \A t \in B : t.acc \in locals')
  BY <1>1, <1>2 DEF Roomy, IsLocal
<1> QED BY <1>6, <1>7 DEF RB

LEMMA WithinStep ==
  ASSUME Inv, BoundInv, adding = {}, adding' = {}, all' \subseteq all, locals \subseteq locals'
  PROVE  BoundInv'
<1>1. all \subseteq Txs
  BY PoolTypes DEF Inv
<1>2. Within(all)
  BY DEF BoundInv
<1>3. Cardinality(all') =< Capacity \/ Cardinality({t \in all' : t.acc \notin locals'}) =< 1
  BY <1>1, <1>2, Shrinks
<1> QED BY <1>3 DEF BoundInv, Within, IsLocal, Capacity

LEMMA RoomyStep ==
  ASSUME Inv, BoundInv, adding # {}, adding' = adding, all' \ drops' \subseteq all \ drops,
         locals \subseteq locals'
  PROVE  BoundInv'
<1>1. all \ drops \subseteq Txs
  BY PoolTypes DEF Inv
<1>2. Roomy(all \ drops)
  BY DEF BoundInv
<1>3. Cardinality(all' \ drops') < Capacity \/ \A t \in all' \ drops' : t.acc \in locals'
  BY <1>1, <1>2, Shrinks
<1> QED BY <1>3 DEF BoundInv, Roomy, IsLocal, Capacity

\* A transaction that is inserted fits.
LEMMA InsertFits ==
  ASSUME Inv, NEW t \in Txs, Roomy(all), all' \subseteq all \cup {t}, locals \subseteq locals',
         adding' = {}
  PROVE  BoundInv'
<1> DEFINE R == {u \in all' : u.acc \notin locals'}
<1>1. all \subseteq Txs /\ Capacity \in Int
  BY PoolTypes, TxPoolAssumption DEF Inv, Capacity
<1>2. IsFiniteSet(all) /\ Cardinality(all) \in Nat
  BY <1>1, ListSize
<1>3. Cardinality(all') \in Nat /\ Cardinality(all') =< Cardinality(all) + 1
  <2>1. /\ IsFiniteSet(all \cup {t}) /\ Cardinality(all \cup {t}) \in Nat
        /\ Cardinality(all \cup {t}) =< Cardinality(all) + 1
    <3>1. /\ IsFiniteSet(all \cup {t})
          /\ Cardinality(all \cup {t}) =
               IF t \in all THEN Cardinality(all) ELSE Cardinality(all) + 1
      BY <1>2, FS_AddElement
    <3> QED BY <1>2, <3>1
  <2>2. Cardinality(all') =< Cardinality(all \cup {t}) /\ Cardinality(all') \in Nat
    BY <2>1, FS_Subset, FS_CardinalityType
  <2> QED BY <1>2, <2>1, <2>2
<1>4. CASE Cardinality(all) < Capacity
  <2>1. Cardinality(all') =< Capacity
    BY <1>1, <1>2, <1>3, <1>4
  <2> QED BY <2>1 DEF BoundInv, Within, Capacity
<1>5. CASE \A u \in all : IsLocal(u)
  <2>1. R \in SUBSET {t}
    BY <1>5 DEF IsLocal
  <2> HIDE DEF R
  <2>2. IsFiniteSet({t}) /\ Cardinality({t}) = 1
    BY FS_Singleton
  <2>3. Cardinality(R) =< 1
    BY <2>1, <2>2, FS_Subset
  <2> QED BY <2>3 DEF BoundInv, Within, IsLocal, R
<1> QED BY <1>4, <1>5 DEF Roomy

\* What Discard chooses makes room.
LEMMA DiscardRoomy ==
  ASSUME all \subseteq Txs, Full, NEW D \in Discard PROVE Roomy(all \ D)
<1> DEFINE R == {t \in all : ~IsLocal(t)}
           slots == Cardinality(all) - Capacity + 1
<1>1. D \in SUBSET R /\ Cardinality(D) = Lower(slots, Cardinality(R))
  BY DEF Discard
<1>2. R \subseteq Txs /\ R \subseteq all /\ Capacity \in Int
  BY TxPoolAssumption DEF Capacity
<1>3. \A t \in all : t \notin R => IsLocal(t)
  OBVIOUS
<1> HIDE DEF R
<1>4. /\ IsFiniteSet(R) /\ Cardinality(R) \in Nat /\ IsFiniteSet(all)
      /\ Cardinality(all) \in Nat
  BY <1>2, ListSize
<1>5. CASE slots < Cardinality(R)
  <2>1. Cardinality(D) = slots
    BY <1>1, <1>5 DEF Lower
  <2>2. Cardinality(all \ D) = Cardinality(all) - Cardinality(all \cap D)
    BY <1>4, FS_Difference
  <2>3. all \cap D = D
    BY <1>1, <1>2
  <2>4. Cardinality(all \ D) = Cardinality(all) - slots
    BY <2>1, <2>2, <2>3
  <2>5. Cardinality(all \ D) < Capacity
    BY <1>2, <1>4, <2>4
  <2> QED BY <2>5 DEF Roomy
<1>6. CASE ~(slots < Cardinality(R))
  <2>1. D = R
    BY <1>1, <1>4, <1>6, FS_Subset DEF Lower
  <2> QED BY <1>3, <2>1 DEF Roomy
<1> QED BY <1>5, <1>6

LEMMA BoundStep ==
  ASSUME Inv, PhaseInv, BoundInv, Next PROVE BoundInv'
<1>1. all \subseteq Txs
  BY PoolTypes DEF Inv
<1>2. ASSUME NEW t \in Txs, NEW local \in BOOLEAN, Add(t, local), adding = {} PROVE BoundInv'
  <2>1. CASE Admitted(t, local) /\ Full
    <3>1. /\ drops' \in Discard /\ adding' = {[tx |-> t, local |-> local]}
          /\ UNCHANGED <<all, locals>>
      BY <1>2, <2>1 DEF Add, poolVars
    <3>2. Roomy(all \ drops')
      BY <1>1, <2>1, <3>1, DiscardRoomy
    <3> QED BY <3>1, <3>2 DEF BoundInv, Roomy, IsLocal, Capacity
  <2>2. CASE Admitted(t, local) /\ ~Full
    <3>1. Insert(t, local) /\ adding' = {}
      BY <1>2, <2>2 DEF Add
    <3>2. Valid(t.acc, t)
      BY <2>2 DEF Admitted, validateTx, Valid
    <3>3. all' \subseteq all \cup {t} /\ locals \subseteq locals'
      BY <3>1, <3>2, InsertLists DEF Inv
    <3>4. Roomy(all)
      <4>1. Cardinality(all) \in Nat /\ Capacity \in Int
        BY <1>1, ListSize, TxPoolAssumption DEF Capacity
      <4> QED BY <2>2, <4>1 DEF Roomy, Full
    <3> QED BY <3>1, <3>3, <3>4, InsertFits
  <2>3. CASE ~Admitted(t, local)
    <3>1. UNCHANGED <<all, locals, adding>>
      BY <1>2, <2>3 DEF Add, poolVars
    <3> QED BY <1>2, <3>1, WithinStep
  <2> QED BY <2>1, <2>2, <2>3
<1>3. ASSUME NEW t \in Txs, NEW local \in BOOLEAN, AddTx(t, local) PROVE BoundInv'
  BY <1>2, <1>3 DEF AddTx, Quiet, NoLoop
<1>4. ASSUME NEW t \in inject, Reinject(t) PROVE BoundInv'
  <2>1. t \in Txs
    BY DEF Inv, RestType
  <2> QED BY <1>2, <1>4, <2>1 DEF Reinject, NoLoop
<1>5. CASE AddRoomy
  <2>1. PICK x \in adding : Insert(x.tx, x.local)
    BY <1>5 DEF AddRoomy
  <2>2. x.tx \in Txs /\ x.local \in BOOLEAN
    BY DEF Inv, RestType, Adding
  <2>3. Valid(x.tx.acc, x.tx)
    BY DEF PhaseInv
  <2>4. all' \subseteq all \cup {x.tx} /\ locals \subseteq locals'
    BY <2>1, <2>2, <2>3, InsertLists DEF Inv
  <2>5. all \ drops = all /\ adding' = {}
    BY <1>5 DEF AddRoomy
  <2>6. Roomy(all)
    BY <2>5 DEF BoundInv
  <2> QED BY <2>2, <2>4, <2>5, <2>6, InsertFits
<1>6. ASSUME NEW t \in drops, Drop(t) PROVE BoundInv'
  <2>1. all' = all \ {t}
    <3>1. CASE t \in all
      <4>1. all' = removeTx(Pool, t).all
        BY <1>6, <3>1 DEF Drop, SetPool
      <4> QED BY <3>1, <4>1, RemoveInv, PoolFields DEF Inv
    <3>2. CASE t \notin all
      BY <1>6, <3>2, PoolFields DEF Drop, SetPool
    <3> QED BY <3>1, <3>2
  <2>2. drops' = drops \ {t} /\ UNCHANGED <<adding, locals>>
    BY <1>6 DEF Drop
  <2>3. CASE adding = {}
    BY <2>1, <2>2, <2>3, WithinStep
  <2>4. CASE adding # {}
    <3>1. all' \ drops' \subseteq all \ drops
      BY <2>1, <2>2
    <3> QED BY <2>2, <2>4, <3>1, RoomyStep
  <2> QED BY <2>3, <2>4
<1>7. ASSUME adding = {}, UNCHANGED <<adding, locals>>, all' \subseteq all PROVE BoundInv'
  BY <1>7, WithinStep
<1>8. ASSUME NEW t \in all, RemoveTx(t) PROVE BoundInv'
  <2>1. all' = removeTx(Pool, t).all
    BY <1>8 DEF RemoveTx, SetPool
  <2>2. all' \subseteq all
    BY <2>1, RemoveInv, PoolFields DEF Inv
  <2> QED BY <1>7, <1>8, <2>2 DEF RemoveTx, Quiet, NoLoop
<1>9. ASSUME NEW a \in Accounts, Lapse(a) PROVE BoundInv'
  BY <1>9 DEF Lapse, BoundInv, Within, Roomy, IsLocal, Capacity
<1>10. phase \notin {"idle", "reinject"} => adding = {}
  BY DEF Inv, RestType, LoopsSpareLocals
<1>11. CASE Equalize \/ Reduce
  <2>1. PICK S \in SUBSET Accounts : Shorten(S)
    BY <1>11, OffendersShortened
  <2>2. all' \subseteq all
    BY <2>1, ShortenLists DEF Inv
  <2> QED BY <1>7, <1>10, <1>11, <2>2 DEF Equalize, Reduce, Truncating
<1>12. CASE \/ \E price \in Prices : SetGasPrice(price)
            \/ Evict \/ NextOffender
            \/ \E a \in Accounts : TruncateQueue(a)
  BY <1>7, <1>10, <1>12
     DEF SetGasPrice, Evict, NextOffender, TruncateQueue, Quiet, NoLoop, Truncating, poolVars
<1>13. CASE Operation
  BY <1>3, <1>4, <1>5, <1>6, <1>8, <1>9, <1>11, <1>12, <1>13 DEF Operation
<1>14. CASE Turn
  <2>1. UNCHANGED <<all, adding, locals>>
    BY <1>14 DEF Turn, RunPromote, RunFailedReset, Reinjected, Promoted, Demoted,
                 StartTruncate, PendingTruncated, QueueTruncated, poolVars
  <2>2. adding = {}
    BY <1>10, <1>14 DEF Turn, RunPromote, RunFailedReset, Reinjected, Promoted, Demoted,
                 StartTruncate, PendingTruncated, QueueTruncated, Quiet, NoLoop
  <2> QED BY <1>7, <2>1, <2>2
<1>15. ASSUME NEW c \in Accounts, PromoteAccount(c) PROVE BoundInv'
  <2>1. all' \subseteq all
    BY <1>15, PromoteLists DEF Inv, RestType
  <2> QED BY <1>7, <1>10, <1>15, <2>1 DEF PromoteAccount
<1>16. ASSUME NEW c \in Accounts, DemoteAccount(c) PROVE BoundInv'
  <2>1. all' \subseteq all
    BY <1>16, DemoteLists DEF Inv, RestType
  <2> QED BY <1>7, <1>10, <1>16, <2>1 DEF DemoteAccount
<1>17. CASE Reset
  BY <1>7, <1>17 DEF Reset, RunReset, Quiet, NoLoop
<1>18. CASE Finish
  BY <1>7, <1>10, <1>18 DEF Finish
<1> QED BY <1>13, <1>14, <1>15, <1>16, <1>17, <1>18, NextCases

LEMMA BoundInit == Init => BoundInv
<1> SUFFICES ASSUME Init PROVE BoundInv
  OBVIOUS
<1>1. all = {} /\ adding = {}
  BY DEF Init
<1>2. Cardinality(all) =< Capacity
  BY <1>1, FS_EmptySet, TxPoolAssumption DEF Capacity
<1> QED BY <1>1, <1>2 DEF BoundInv, Within

\* The pool stays within GlobalSlots + GlobalQueue, except for local transactions
\* and one remote one: a full pool has made room before it takes a transaction,
\* and no step of a run adds one.
THEOREM PoolWithinBound == Spec => []PoolBound
<1>1. Inv /\ PhaseInv /\ BoundInv /\ [Next]_vars => BoundInv'
  <2> SUFFICES ASSUME Inv, PhaseInv, BoundInv, [Next]_vars PROVE BoundInv'
    OBVIOUS
  <2>1. CASE UNCHANGED vars
    BY <2>1 DEF BoundInv, Within, Roomy, IsLocal, Capacity, vars, poolVars
  <2> QED BY <2>1, BoundStep
<1>2. BoundInv => PoolBound
  BY DEF BoundInv, Within, PoolBound, NoLoop
<1> QED BY <1>1, <1>2, BoundInit, FrontInvariance, PTL DEF Spec
-----------------------------------------------------------------------------
(***************************************************************************)
(* Gaps                                                                    *)
(***************************************************************************)
\* NoGaps for account a.
Gapless(a) ==
  /\ nonce[a] =< nonces[a]
  /\ \A t \in pending[a] : nonce[a] =< t.nonce /\ t.nonce < nonces[a]
  /\ \A k \in nonce[a]..nonces[a] - 1 : \E t \in pending[a] : t.nonce = k

\* Below a pending transaction there is no gap down to the nonce of the state.
Down(a) ==
  \A t \in pending[a] : \A k \in nonce[a]..t.nonce : \E u \in pending[a] : u.nonce = k

\* Before the list is settled: the reset has set the virtual nonce back to the
\* nonce of the state, or a promotion has set it to the end of the list, all of
\* which is then payable.
Resumes(a) ==
  /\ Down(a) /\ nonce[a] =< nonces[a]
  /\ \/ nonces[a] = nonce[a]
     \/ /\ \A t \in pending[a] : t.nonce >= nonce[a] => t.price =< balance[a] /\ t.nonce < nonces[a]
        /\ \E t \in pending[a] : t.nonce = nonces[a] - 1

\* Before Finish sets the virtual nonce.
Rests(a) ==
  /\ Down(a) /\ \A t \in pending[a] : nonce[a] =< t.nonce
  /\ nonces[a] = nonce[a] \/ Gapless(a)

GapInv ==
  /\ inject = {}
  /\ phase = "reinject" => NoLoop
  /\ \A a \in Accounts : IF Unsettled(a) THEN Resumes(a)
                         ELSE IF phase \in {"idle", "promote"} THEN Gapless(a) ELSE Rests(a)

LEMMA GaplessRests ==
  ASSUME Inv, NEW a \in Accounts, Gapless(a) PROVE Rests(a)
<1>1. /\ nonces[a] \in Int /\ nonce[a] \in Int
      /\ \A t \in pending[a] : t.nonce \in Int
  BY AccountNumbers
<1>2. Down(a)
  <2> SUFFICES ASSUME NEW t \in pending[a], NEW k \in nonce[a]..t.nonce
               PROVE  \E u \in pending[a] : u.nonce = k
    BY DEF Down
  <2>1. k \in nonce[a]..nonces[a] - 1
    BY <1>1 DEF Gapless
  <2> QED BY <2>1 DEF Gapless
<1> QED BY <1>2 DEF Rests, Gapless

LEMMA GaplessResumes ==
  ASSUME Inv, NEW a \in Accounts, Gapless(a), Front(a) PROVE Resumes(a)
<1>1. /\ nonces[a] \in Int /\ nonce[a] \in Int
      /\ \A t \in pending[a] : t.nonce \in Int
  BY AccountNumbers
<1>2. Down(a)
  BY GaplessRests DEF Rests
<1>3. nonces[a] # nonce[a] => nonces[a] - 1 \in nonce[a]..nonces[a] - 1
  BY <1>1 DEF Gapless
<1> QED BY <1>2, <1>3 DEF Resumes, Gapless, Front, Valid

LEMMA SameGaps ==
  ASSUME NEW a \in Accounts, SameLists(a), UNCHANGED chainVars
  PROVE  /\ Gapless(a) <=> Gapless(a)'
         /\ Resumes(a) <=> Resumes(a)'
         /\ Rests(a) <=> Rests(a)'
BY DEF SameLists, Gapless, Resumes, Rests, Down, chainVars

LEMMA KeptGaps ==
  ASSUME Inv, NEW a \in Accounts, Kept(a), UNCHANGED chainVars
  PROVE  /\ Gapless(a) => Gapless(a)'
         /\ Resumes(a) => Resumes(a)'
         /\ Rests(a) => Rests(a)'
<1> USE DEF chainVars
<1>1. nonces'[a] = nonces[a]
  BY DEF Kept
<1>2. Nonces(pending'[a]) = Nonces(pending[a])
  BY DEF Kept
<1>3. \A t \in pending'[a] : \E u \in pending[a] : u.nonce = t.nonce
  BY <1>2 DEF Nonces
<1>4. \A u \in pending[a] : \E t \in pending'[a] : u.nonce = t.nonce
  BY <1>2 DEF Nonces
<1>5. \A t \in pending'[a] : t \in pending[a] \/ t.price =< balance[a]
  BY DEF Kept, Valid
<1>6. Gapless(a) => Gapless(a)'
  BY <1>1, <1>3, <1>4 DEF Gapless
<1>7. Down(a) => Down(a)'
  <2> SUFFICES ASSUME Down(a), NEW t \in pending'[a], NEW k \in nonce[a]..t.nonce
               PROVE  \E u \in pending'[a] : u.nonce = k
    BY DEF Down
  <2>1. PICK v \in pending[a] : v.nonce = t.nonce
    BY <1>3
  <2>2. \E u \in pending[a] : u.nonce = k
    BY <2>1 DEF Down
  <2> QED BY <1>4, <2>2
<1>8. Rests(a) => Rests(a)'
  BY <1>1, <1>3, <1>6, <1>7 DEF Rests
<1>9. ASSUME \A t \in pending[a] : t.nonce >= nonce[a] => t.price =< balance[a] /\ t.nonce < nonces[a]
      PROVE  \A t \in pending'[a] : t.nonce >= nonce[a] => t.price =< balance[a] /\ t.nonce < nonces[a]
  BY <1>3, <1>5, <1>9
<1>10. Resumes(a) => Resumes(a)'
  BY <1>1, <1>4, <1>7, <1>9 DEF Resumes
<1> QED BY <1>6, <1>8, <1>10

LEMMA CutGaps ==
  ASSUME Inv, NEW a \in Accounts, NEW t \in pending[a], Cut(a, t), UNCHANGED chainVars
  PROVE  (Gapless(a) => Gapless(a)') /\ (Rests(a) => Rests(a)')
<1> USE DEF chainVars
<1>1. /\ nonces[a] \in Int /\ nonce[a] \in Int
      /\ \A u \in pending[a] : u.nonce \in Int
  BY AccountNumbers
<1>2. /\ pending'[a] = {u \in pending[a] : u.nonce < t.nonce}
      /\ nonces'[a] = Lower(t.nonce, nonces[a])
  BY DEF Cut
<1>3. ASSUME Gapless(a) PROVE Gapless(a)'
  <2>1. nonces'[a] = t.nonce /\ nonce[a] =< t.nonce /\ t.nonce < nonces[a]
    BY <1>1, <1>2, <1>3 DEF Gapless, Lower
  <2>2. ASSUME NEW k \in nonce[a]..t.nonce - 1 PROVE \E u \in pending'[a] : u.nonce = k
    <3>1. k \in nonce[a]..nonces[a] - 1 /\ k < t.nonce
      BY <1>1, <2>1
    <3>2. PICK u \in pending[a] : u.nonce = k
      BY <1>3, <3>1 DEF Gapless
    <3> QED BY <1>2, <3>1, <3>2
  <2> QED BY <1>2, <1>3, <2>1, <2>2 DEF Gapless
<1>4. ASSUME Rests(a) PROVE Rests(a)'
  <2>1. Down(a)'
    <3> SUFFICES ASSUME NEW u \in pending'[a], NEW k \in nonce[a]..u.nonce
                 PROVE  \E v \in pending'[a] : v.nonce = k
      BY DEF Down
    <3>1. u \in pending[a] /\ u.nonce < t.nonce
      BY <1>2
    <3>2. PICK v \in pending[a] : v.nonce = k
      BY <1>4, <3>1 DEF Rests, Down
    <3>3. v.nonce < t.nonce
      BY <1>1, <3>1, <3>2
    <3> QED BY <1>2, <3>2, <3>3
  <2>2. CASE Gapless(a)
    BY <1>2, <1>3, <1>4, <2>1, <2>2 DEF Rests
  <2>3. CASE nonces[a] = nonce[a]
    <3>1. nonces'[a] = nonce[a]
      BY <1>1, <1>2, <1>4, <2>3 DEF Rests, Lower
    <3> QED BY <1>2, <1>4, <2>1, <3>1 DEF Rests
  <2> QED BY <1>4, <2>2, <2>3 DEF Rests
<1> QED BY <1>3, <1>4

LEMMA QueuedGaps ==
  ASSUME NEW a \in Accounts, Queued(a), UNCHANGED chainVars, Gapless(a)
  PROVE  Gapless(a)'
BY DEF Queued, Gapless, chainVars

\* A promotion from a list that starts at n or above takes the run of nonces
\* from n on.
LEMMA ReadyRun ==
  ASSUME NEW L, L \subseteq Txs, NEW n \in Int, \A t \in L : n =< t.nonce, Ready(L, n) # {}
  PROVE  LET R == Ready(L, n)
         IN /\ LastNonce(R) \in Int /\ n =< LastNonce(R)
            /\ \A t \in R : t.nonce \in Int /\ n =< t.nonce /\ t.nonce =< LastNonce(R)
            /\ \A k \in n..LastNonce(R) : \E t \in R : t.nonce = k
            /\ \E t \in R : t.nonce = LastNonce(R)
<1> DEFINE R == Ready(L, n)
           m == LastNonce(R)
<1>1. \A t \in L : t.nonce \in Int /\ t.nonce >= 0
  <2>1. \A t \in L : t.nonce \in 0..MaxNonce
    BY DEF Txs
  <2> QED BY <2>1, TxPoolAssumption
<1>2. R \subseteq L /\ R # {}
  BY DEF Ready
<1>3. m \in Nonces(R) /\ \A k \in Nonces(R) : k =< m
  <2> HIDE DEF R
  <2> QED BY <1>2, LastNonceType
<1>4. \A t \in R : t.nonce =< m
  BY <1>3 DEF Nonces
<1>5. PICK l \in R : l.nonce = m
  BY <1>3 DEF Nonces
<1>6. PICK f \in L : f.nonce =< n
  BY <1>5 DEF Ready
<1>7. f.nonce = n /\ n >= 0
  BY <1>1, <1>6
<1>8. l \in L /\ m \in Int /\ n =< m
  BY <1>1, <1>2, <1>5
<1> HIDE DEF m
<1>9. \A j \in 0..m : (\E u \in L : u.nonce =< j) => j \in Nonces(L)
  BY <1>5 DEF Ready
<1>10. ASSUME NEW k \in n..m PROVE \E t \in R : t.nonce = k
  <2>1. k \in 0..m /\ f.nonce =< k
    BY <1>7, <1>8
  <2>2. PICK t \in L : t.nonce = k
    BY <1>9, <2>1 DEF Nonces
  <2>3. \A j \in 0..t.nonce : j \in 0..m
    BY <1>8, <2>2
  <2>4. t \in R
    BY <1>6, <1>9, <2>3 DEF Ready
  <2> QED BY <2>2, <2>4
<1> QED BY <1>1, <1>2, <1>4, <1>5, <1>8, <1>10 DEF m

\* Promotions go on where the pending list ends.
LEMMA PromotesGaps ==
  ASSUME Inv, NEW a \in Accounts, Promotes(a), UNCHANGED chainVars
  PROVE  (Gapless(a) => Gapless(a)') /\ (Resumes(a) => Resumes(a)')
<1> USE DEF chainVars
<1> DEFINE live == {t \in queue[a] : nonce[a] =< t.nonce /\ t.price =< balance[a]}
           R == Ready(live, nonces[a])
           m == LastNonce(R)
<1>1. /\ nonces[a] \in Int /\ nonce[a] \in Int
      /\ \A u \in pending[a] \cup queue[a] : u.nonce \in Int
      /\ \A u, v \in pending[a] \cup queue[a] : u.nonce = v.nonce => u = v
      /\ \A u \in pending[a] : u \notin queue[a]
  BY AccountNumbers
<1>2. /\ pending'[a] = pending[a] \cup R
      /\ nonces'[a] = IF R = {} THEN nonces[a] ELSE m + 1
  BY DEF Promotes
<1>3. live \subseteq Txs
  BY Lists DEF Inv
<1>4. \A t \in R : nonce[a] =< t.nonce /\ t.price =< balance[a] /\ t \in queue[a]
  BY DEF Ready
<1>5. ASSUME \A k \in nonce[a]..nonces[a] - 1 : \E t \in pending[a] : t.nonce = k, R # {}
      PROVE  /\ m \in Int /\ nonces[a] =< m
             /\ \A t \in R : t.nonce \in Int /\ nonces[a] =< t.nonce /\ t.nonce =< m
             /\ \A k \in nonces[a]..m : \E t \in R : t.nonce = k
             /\ \E t \in R : t.nonce = m
  <2>1. ASSUME NEW t \in live PROVE nonces[a] =< t.nonce
    <3>1. t \in queue[a] /\ nonce[a] =< t.nonce /\ t.nonce \in Int
      BY <1>1
    <3>2. t.nonce \notin nonce[a]..nonces[a] - 1
      BY <1>1, <1>5, <3>1
    <3> QED BY <1>1, <3>1, <3>2
  <2> HIDE DEF live
  <2> QED BY <1>1, <1>3, <1>5, <2>1, ReadyRun
<1> HIDE DEF R, m, live
<1>6. ASSUME Gapless(a) PROVE Gapless(a)'
  <2>1. CASE R = {}
    BY <1>2, <1>6, <2>1 DEF Gapless
  <2>2. CASE R # {}
    <3>1. /\ m \in Int /\ nonces[a] =< m
          /\ \A t \in R : t.nonce \in Int /\ nonces[a] =< t.nonce /\ t.nonce =< m
          /\ \A k \in nonces[a]..m : \E t \in R : t.nonce = k
      BY <1>5, <1>6, <2>2 DEF Gapless
    <3>2. nonces'[a] = m + 1 /\ nonce[a] =< nonces[a]
      BY <1>2, <1>6, <2>2 DEF Gapless
    <3>3. ASSUME NEW t \in pending'[a] PROVE nonce[a] =< t.nonce /\ t.nonce < m + 1
      <4>1. CASE t \in R
        BY <1>1, <3>1, <3>2, <4>1
      <4>2. CASE t \in pending[a]
        <5>1. nonce[a] =< t.nonce /\ t.nonce < nonces[a] /\ t.nonce \in Int
          BY <1>1, <1>6, <4>2 DEF Gapless
        <5> QED BY <1>1, <3>1, <5>1
      <4> QED BY <1>2, <4>1, <4>2
    <3>4. ASSUME NEW k \in nonce[a]..(m + 1) - 1 PROVE \E t \in pending'[a] : t.nonce = k
      <4>1. k \in nonce[a]..nonces[a] - 1 \/ k \in nonces[a]..m
        BY <1>1, <3>1, <3>2
      <4> QED BY <1>2, <1>6, <3>1, <4>1 DEF Gapless
    <3>5. nonce[a] =< m + 1
      BY <1>1, <3>1, <3>2
    <3> QED BY <3>2, <3>3, <3>4, <3>5 DEF Gapless
  <2> QED BY <2>1, <2>2
<1>7. ASSUME Resumes(a) PROVE Resumes(a)'
  <2>1. CASE R = {}
    BY <1>2, <1>7, <2>1 DEF Resumes, Down
  <2>2. CASE R # {}
    <3>1. ASSUME NEW k \in nonce[a]..nonces[a] - 1 PROVE \E t \in pending[a] : t.nonce = k
      <4>1. nonces[a] # nonce[a]
        BY <1>1
      <4>2. PICK t \in pending[a] : t.nonce = nonces[a] - 1
        BY <1>7, <4>1 DEF Resumes
      <4> QED BY <1>7, <4>2 DEF Resumes, Down
    <3>2. /\ m \in Int /\ nonces[a] =< m
          /\ \A t \in R : t.nonce \in Int /\ nonces[a] =< t.nonce /\ t.nonce =< m
          /\ \A k \in nonces[a]..m : \E t \in R : t.nonce = k
          /\ \E t \in R : t.nonce = m
      BY <1>5, <2>2, <3>1
    <3>3. nonces'[a] = m + 1 /\ nonce[a] =< nonces[a]
      BY <1>2, <1>7, <2>2 DEF Resumes
    \* Nothing pending is beyond: its first nonce would be in both lists.
    <3>4. \A t \in pending[a] :
            t.nonce >= nonce[a] => t.price =< balance[a] /\ t.nonce < nonces[a]
      <4>1. CASE nonces[a] = nonce[a]
        <5> SUFFICES ASSUME NEW t \in pending[a], t.nonce >= nonce[a] PROVE FALSE
          OBVIOUS
        <5>1. nonce[a] \in nonce[a]..t.nonce /\ nonces[a] \in nonces[a]..m
          BY <1>1, <3>2
        <5>2. PICK u \in pending[a] : u.nonce = nonce[a]
          BY <1>7, <5>1 DEF Resumes, Down
        <5>3. PICK v \in R : v.nonce = nonces[a]
          BY <3>2, <5>1
        <5> QED BY <1>1, <1>4, <4>1, <5>2, <5>3
      <4> QED BY <1>7, <4>1 DEF Resumes
    <3>5. ASSUME NEW k \in nonce[a]..m PROVE \E t \in pending'[a] : t.nonce = k
      <4>1. k \in nonce[a]..nonces[a] - 1 \/ k \in nonces[a]..m
        BY <1>1, <3>2, <3>3
      <4> QED BY <1>2, <3>1, <3>2, <4>1
    <3>6. \A t \in pending'[a] : t.nonce >= nonce[a] => t.price =< balance[a] /\ t.nonce < m + 1
      <4> SUFFICES ASSUME NEW t \in pending'[a], t.nonce >= nonce[a]
                   PROVE  t.price =< balance[a] /\ t.nonce < m + 1
        OBVIOUS
      <4>1. CASE t \in R
        BY <1>4, <3>2, <4>1
      <4>2. CASE t \in pending[a]
        <5>1. t.price =< balance[a] /\ t.nonce < nonces[a] /\ t.nonce \in Int
          BY <1>1, <3>4, <4>2
        <5> QED BY <1>1, <3>2, <5>1
      <4> QED BY <1>2, <4>1, <4>2
    <3>7. \A t \in pending'[a] : t.nonce \in Int
      BY <1>1, <1>2, <1>4
    <3>8. Down(a)'
      <4> SUFFICES ASSUME NEW t \in pending'[a], NEW k \in nonce[a]..t.nonce
                   PROVE  \E u \in pending'[a] : u.nonce = k
        BY DEF Down
      <4>1. t.nonce \in Int /\ t.nonce >= nonce[a]
        BY <1>1, <3>7
      <4>2. t.nonce < m + 1
        BY <3>6, <4>1
      <4>3. k \in nonce[a]..m
        BY <1>1, <3>2, <4>1, <4>2
      <4> QED BY <3>5, <4>3
    <3>9. nonce[a] =< m + 1 /\ (m + 1) - 1 = m
      BY <1>1, <3>2, <3>3
    <3>10. \E t \in pending'[a] : t.nonce = (m + 1) - 1
      BY <1>2, <3>2, <3>9
    <3> QED BY <3>3, <3>6, <3>8, <3>9, <3>10 DEF Resumes
  <2> QED BY <2>1, <2>2
<1> QED BY <1>6, <1>7

\* A demotion leaves the list without a gap, up to the virtual nonce if that was
\* moved since the reset.
LEMMA DemotesGaps ==
  ASSUME Inv, NEW a \in Accounts, Demotes(a), Resumes(a), UNCHANGED chainVars
  PROVE  Rests(a)'
<1> USE DEF chainVars
<1> DEFINE new == {t \in pending[a] : t.nonce >= nonce[a]}
           unpayable == {t \in new : t.price > balance[a]}
           invalids == {t \in new \ unpayable : \E u \in unpayable : u.nonce < t.nonce}
           kept == new \ (unpayable \cup invalids)
<1>1. /\ nonces[a] \in Int /\ nonce[a] \in Int /\ balance[a] \in Int
      /\ \A u \in pending[a] : u.nonce \in Int /\ u.price \in Int
      /\ \A u, v \in pending[a] : u.nonce = v.nonce => u = v
  BY AccountNumbers
<1>2. /\ pending'[a] = IF nonce[a] \in Nonces(kept) THEN kept ELSE {}
      /\ nonces'[a] = nonces[a]
  BY DEF Demotes, StaysPending
<1>3. \A t \in pending[a] :
        t \in kept <=> /\ t.nonce >= nonce[a] /\ t.price =< balance[a]
                       /\ \A u \in pending[a] :
                            u.nonce >= nonce[a] /\ u.price > balance[a] => ~(u.nonce < t.nonce)
  BY <1>1
<1>4. kept \subseteq pending[a]
  OBVIOUS
<1> HIDE DEF kept, new, unpayable, invalids
<1>5. ASSUME NEW t \in kept, NEW k \in nonce[a]..t.nonce PROVE \E u \in kept : u.nonce = k
  <2>1. PICK v \in pending[a] : v.nonce = k
    BY <1>4 DEF Resumes, Down
  <2>2. /\ v.nonce >= nonce[a] /\ v.nonce =< t.nonce /\ t \in pending[a]
        /\ v.nonce \in Int /\ t.nonce \in Int
    BY <1>1, <1>4, <2>1
  <2>3. v.price =< balance[a]
    BY <1>1, <1>3, <2>2
  <2>4. \A u \in pending[a] :
          u.nonce >= nonce[a] /\ u.price > balance[a] => ~(u.nonce < v.nonce)
    BY <1>1, <1>3, <2>2
  <2>5. v \in kept
    BY <1>3, <2>2, <2>3, <2>4
  <2> QED BY <2>1, <2>5
<1>6. Down(a)'
  BY <1>2, <1>5 DEF Down
<1>7. \A t \in pending'[a] : nonce[a] =< t.nonce
  BY <1>1, <1>2, <1>3, <1>4
<1>8. CASE nonces[a] = nonce[a]
  BY <1>2, <1>6, <1>7, <1>8 DEF Rests
<1>9. CASE nonces[a] # nonce[a]
  <2>1. \A t \in pending[a] : t.nonce >= nonce[a] => t.price =< balance[a] /\ t.nonce < nonces[a]
    BY <1>9 DEF Resumes
  <2>2. \A t \in pending[a] : t.nonce >= nonce[a] => t \in kept
    BY <1>1, <1>3, <2>1
  <2>3. PICK l \in pending[a] : l.nonce = nonces[a] - 1
    BY <1>9 DEF Resumes
  <2>4. nonce[a] =< nonces[a] /\ nonce[a] =< l.nonce
    BY <1>1, <1>9, <2>3 DEF Resumes
  <2>5. \A k \in nonce[a]..nonces[a] - 1 : \E t \in kept : t.nonce = k
    BY <1>5, <2>2, <2>3, <2>4, <1>1
  <2>6. nonce[a] \in Nonces(kept)
    <3>1. nonce[a] \in nonce[a]..nonces[a] - 1
      BY <1>1, <2>3, <2>4
    <3> QED BY <2>5, <3>1 DEF Nonces
  <2>7. pending'[a] = kept
    BY <1>2, <2>6
  <2>8. \A t \in kept : nonce[a] =< t.nonce /\ t.nonce < nonces[a]
    BY <1>1, <1>3, <1>4, <2>1
  <2>9. Gapless(a)'
    BY <1>2, <2>4, <2>5, <2>7, <2>8 DEF Gapless
  <2> QED BY <1>6, <1>7, <2>9 DEF Rests
<1> QED BY <1>8, <1>9

\* The loops of a reinjection do not start, and heads do not go back.
LEMMA NoInjection ==
  ASSUME ~Reorgs, Inv, PhaseInv, GapInv, Next
  PROVE  inject' = {} /\ (phase' = "reinject" => NoLoop')
<1>1. inject = {} /\ (phase = "reinject" => NoLoop)
  BY DEF GapInv
<1>2. CASE Operation
  <2>1. ~(\E t \in inject : Reinject(t))
    BY <1>1
  <2>2. CASE \/ \E t \in Txs, local \in BOOLEAN : AddTx(t, local)
             \/ \E t \in all : RemoveTx(t)
             \/ \E price \in Prices : SetGasPrice(price)
             \/ Evict
    BY <1>1, <2>2 DEF AddTx, RemoveTx, SetGasPrice, Evict, Quiet
  <2>3. CASE AddRoomy \/ \E t \in drops : Drop(t)
    BY <1>1, <2>3 DEF AddRoomy, Drop, NoLoop
  <2>4. CASE \/ NextOffender \/ Equalize \/ Reduce
             \/ \E a \in Accounts : TruncateQueue(a) \/ Lapse(a)
    BY <1>1, <2>4 DEF NextOffender, Equalize, Reduce, TruncateQueue, Lapse, Truncating, NoLoop
  <2> QED BY <1>2, <2>1, <2>2, <2>3, <2>4 DEF Operation
<1>3. CASE Turn
  BY <1>1, <1>3 DEF Turn, RunPromote, RunFailedReset, Reinjected, Promoted, Demoted,
                    StartTruncate, PendingTruncated, QueueTruncated, Quiet, NoLoop
<1>4. CASE Reset
  <2>1. PICK D \in SUBSET dirty, ns \in Heads, bs \in [Accounts -> Balances], R \in SUBSET Txs :
           R \in Undone(ns) /\ RunReset(ns, bs, R, D)
    BY <1>4 DEF Reset, Undone
  <2>2. ASSUME NEW t \in Txs, ns[t.acc] =< t.nonce, t.nonce < nonce[t.acc] PROVE FALSE
    <3>1. t.acc \in Accounts /\ t.nonce \in Int
      BY TxNumbers DEF Txs
    <3>2. nonce[t.acc] =< ns[t.acc] /\ ns[t.acc] \in 0..MaxNonce + 1
      BY <3>1 DEF Heads
    <3>3. nonce[t.acc] \in Int /\ ns[t.acc] \in Int
      BY <3>1, <3>2, AccountNumbers, TxPoolAssumption
    <3> QED BY <2>2, <3>1, <3>2, <3>3
  <2>3. R = {}
    BY <2>1, <2>2 DEF Undone
  <2> QED BY <2>1, <2>3 DEF RunReset, Quiet, NoLoop
<1>5. CASE Finish \/ \E a \in Accounts : PromoteAccount(a) \/ DemoteAccount(a)
  BY <1>1, <1>5 DEF Finish, PromoteAccount, DemoteAccount
<1> QED BY <1>2, <1>3, <1>4, <1>5, NextCases

LEMMA GapStep ==
  ASSUME ~Reorgs, Inv, PhaseInv, FrontInv, GapInv, Next PROVE GapInv'
<1> DEFINE Ok(a) == IF Unsettled(a) THEN Resumes(a)
                    ELSE IF phase \in {"idle", "promote"} THEN Gapless(a) ELSE Rests(a)
<1>1. inject' = {} /\ (phase' = "reinject" => NoLoop')
  BY NoInjection
<1>2. \A a \in Accounts : Ok(a)
  BY DEF GapInv
<1>3. CASE Operation
  <2>1. Steady
    BY <1>3, OperationSteady
  <2>2. UNCHANGED <<chainVars, phase, todo, resetting>>
    BY <2>1 DEF Steady
  <2>3. phase = "reinject" => \A a \in Accounts : Kept(a)
    BY <2>1 DEF Steady, GapInv
  <2>4. ASSUME NEW a \in Accounts PROVE Ok(a)'
    <3>1. Unsettled(a)' <=> Unsettled(a)
      BY <2>2 DEF Unsettled
    <3>2. CASE Kept(a)
      <4>1. /\ Gapless(a) => Gapless(a)'
            /\ Resumes(a) => Resumes(a)'
            /\ Rests(a) => Rests(a)'
        BY <2>2, <3>2, KeptGaps
      <4> QED BY <1>2, <2>2, <3>1, <4>1
    <3>3. ASSUME NEW t \in pending[a], Cut(a, t), phase \in {"idle", "truncPending", "truncQueue"}
          PROVE  Ok(a)'
      <4>1. ~Unsettled(a)
        BY <3>3 DEF Unsettled
      <4>2. (Gapless(a) => Gapless(a)') /\ (Rests(a) => Rests(a)')
        BY <2>2, <3>3, CutGaps
      <4> QED BY <1>2, <2>2, <3>1, <4>1, <4>2
    <3>4. CASE Queued(a) /\ phase = "idle"
      <4>1. ~Unsettled(a)
        BY <3>4 DEF Unsettled
      <4>2. Gapless(a)'
        BY <1>2, <2>2, <3>4, <4>1, QueuedGaps
      <4> QED BY <2>2, <3>1, <3>4, <4>1, <4>2
    <3> QED BY <2>1, <2>3, <3>2, <3>3, <3>4 DEF Steady
  <2> QED BY <1>1, <2>4 DEF GapInv
<1>4. CASE Turn
  <2>1. UNCHANGED <<pending, queue, nonces, chainVars>>
    BY <1>4 DEF Turn, RunPromote, RunFailedReset, Reinjected, Promoted, Demoted,
                StartTruncate, PendingTruncated, QueueTruncated, poolVars
  <2>2. ASSUME NEW a \in Accounts PROVE Ok(a)'
    <3>1. /\ Gapless(a) <=> Gapless(a)'
          /\ Resumes(a) <=> Resumes(a)'
          /\ Rests(a) <=> Rests(a)'
      BY <2>1, SameGaps DEF SameLists
    <3>2. Gapless(a) => Rests(a)
      BY GaplessRests
    <3>3. CASE \E D \in SUBSET dirty : RunPromote(D)
      BY <1>2, <3>1, <3>3 DEF RunPromote, Quiet, Unsettled
    <3>4. CASE \E D \in SUBSET dirty : RunFailedReset(D)
      <4>1. phase = "idle" /\ phase' = "reinject" /\ resetting'
        BY <3>4 DEF RunFailedReset, Quiet
      <4>2. Gapless(a) /\ Front(a)
        BY <1>2, <4>1 DEF FrontInv, Unsettled
      <4>3. Resumes(a)
        BY <4>2, GaplessResumes
      <4> QED BY <3>1, <4>1, <4>3 DEF Unsettled
    <3>5. CASE Reinjected
      BY <1>2, <3>1, <3>5 DEF Reinjected, Unsettled, PhaseInv
    <3>6. CASE Promoted
      <4>1. CASE ~resetting
        BY <1>2, <3>1, <3>2, <3>6, <4>1 DEF Promoted, Unsettled
      <4>2. CASE resetting /\ pending[a] # {}
        BY <1>2, <3>1, <3>6, <4>2 DEF Promoted, Unsettled
      <4>3. CASE resetting /\ pending[a] = {}
        <5>1. Resumes(a) /\ ~Unsettled(a)' /\ phase' = "demote"
          BY <1>2, <3>6, <4>3 DEF Promoted, Unsettled
        <5>2. Rests(a)
          BY <4>3, <5>1 DEF Resumes, Rests
        <5> QED BY <3>1, <5>1, <5>2
      <4> QED BY <4>1, <4>2, <4>3
    <3>7. CASE Demoted \/ StartTruncate \/ PendingTruncated \/ QueueTruncated
      BY <1>2, <3>1, <3>7
         DEF Demoted, StartTruncate, PendingTruncated, QueueTruncated, Unsettled
    <3> QED BY <1>4, <3>3, <3>4, <3>5, <3>6, <3>7 DEF Turn
  <2> QED BY <1>1, <2>2 DEF GapInv
<1>5. ASSUME NEW c \in Accounts, PromoteAccount(c) PROVE GapInv'
  <2>1. Promotes(c) /\ (\A b \in Accounts \ {c} : SameLists(b))
    BY <1>5, PromoteLists DEF Inv, RestType
  <2>2. /\ UNCHANGED <<chainVars, phase, resetting>> /\ phase = "promote"
        /\ \A a \in Accounts : Unsettled(a)' <=> Unsettled(a)
    BY <1>5 DEF PromoteAccount, Unsettled
  <2>3. ASSUME NEW a \in Accounts
        PROVE  (Gapless(a) => Gapless(a)') /\ (Resumes(a) => Resumes(a)')
    BY <2>1, <2>2, PromotesGaps, SameGaps
  <2>4. \A a \in Accounts : Ok(a)'
    BY <1>2, <2>2, <2>3
  <2> QED BY <1>1, <2>4 DEF GapInv
<1>6. ASSUME NEW c \in Accounts, DemoteAccount(c) PROVE GapInv'
  <2>1. Demotes(c) /\ (\A b \in Accounts \ {c} : SameLists(b))
    BY <1>6, DemoteLists DEF Inv, RestType
  <2>2. /\ UNCHANGED <<chainVars, phase, resetting>> /\ phase = "demote"
        /\ Unsettled(c) /\ ~Unsettled(c)'
        /\ \A a \in Accounts \ {c} : Unsettled(a)' <=> Unsettled(a)
    BY <1>6 DEF DemoteAccount, Unsettled, PhaseInv
  <2>3. Rests(c)'
    BY <1>2, <2>1, <2>2, DemotesGaps
  <2>4. ASSUME NEW a \in Accounts \ {c} PROVE Ok(a)'
    <3>1. /\ Gapless(a) <=> Gapless(a)'
          /\ Resumes(a) <=> Resumes(a)'
          /\ Rests(a) <=> Rests(a)'
      BY <2>1, <2>2, SameGaps
    <3> QED BY <1>2, <2>2, <3>1
  <2>5. Ok(c)'
    BY <2>2, <2>3
  <2> QED BY <1>1, <2>4, <2>5 DEF GapInv
<1>7. CASE Reset
  <2>1. PICK D \in SUBSET dirty, ns \in Heads, bs \in [Accounts -> Balances], R \in SUBSET Txs :
           RunReset(ns, bs, R, D)
    BY <1>7 DEF Reset, Undone
  <2>2. /\ nonces' = ns /\ nonce' = ns /\ resetting' = TRUE /\ phase' = "reinject"
        /\ phase = "idle" /\ UNCHANGED pending
    BY <2>1 DEF RunReset, Quiet
  <2>3. ASSUME NEW a \in Accounts PROVE Resumes(a)'
    <3>1. Gapless(a)
      BY <1>2, <2>2 DEF Unsettled
    <3>2. nonce[a] =< ns[a] /\ ns[a] \in 0..MaxNonce + 1
      BY DEF Heads
    <3>3. /\ ns[a] \in Int /\ nonces[a] \in Int /\ nonce[a] \in Int
          /\ \A t \in pending[a] : t.nonce \in Int
      BY <3>2, AccountNumbers, TxPoolAssumption
    <3>4. ASSUME NEW t \in pending[a], NEW k \in ns[a]..t.nonce
          PROVE  \E u \in pending[a] : u.nonce = k
      <4>1. t.nonce < nonces[a] /\ t.nonce \in Int
        BY <3>1, <3>3 DEF Gapless
      <4>2. k \in nonce[a]..nonces[a] - 1
        BY <3>2, <3>3, <4>1
      <4> QED BY <3>1, <4>2 DEF Gapless
    <3> QED BY <2>2, <3>3, <3>4 DEF Resumes, Down
  <2> QED BY <1>1, <2>2, <2>3 DEF GapInv, Unsettled
<1>8. CASE Finish
  <2>1. /\ UNCHANGED <<pending, chainVars>> /\ phase = "finish" /\ phase' = "idle"
        /\ \A a \in Accounts :
             nonces'[a] = IF pending[a] = {} THEN nonces[a] ELSE LastNonce(pending[a]) + 1
    BY <1>8 DEF Finish
  <2>2. ASSUME NEW a \in Accounts PROVE Gapless(a)'
    <3>1. Rests(a)
      BY <1>2, <2>1 DEF Unsettled
    <3>2. /\ nonces[a] \in Int /\ nonce[a] \in Int
          /\ \A t \in pending[a] : t.nonce \in Int
      BY AccountNumbers
    <3>3. CASE pending[a] = {}
      BY <2>1, <3>1, <3>2, <3>3 DEF Rests, Gapless, chainVars
    <3>4. CASE pending[a] # {}
      <4> DEFINE m == LastNonce(pending[a])
      <4>1. m \in Nonces(pending[a]) /\ \A k \in Nonces(pending[a]) : k =< m
        BY <3>4, Lists, LastNonceType DEF Inv
      <4>2. PICK l \in pending[a] : l.nonce = m
        BY <4>1 DEF Nonces
      <4>3. \A t \in pending[a] : t.nonce =< m
        BY <4>1 DEF Nonces
      <4>4. nonces'[a] = m + 1 /\ m \in Int /\ nonce[a] =< m
        BY <2>1, <3>1, <3>2, <3>4, <4>2 DEF Rests
      <4> HIDE DEF m
      <4>5. nonce[a] =< m + 1 /\ (m + 1) - 1 = m
        BY <3>2, <4>4
      <4>6. \A t \in pending[a] : nonce[a] =< t.nonce /\ t.nonce < m + 1
        BY <3>1, <3>2, <4>3, <4>4 DEF Rests
      <4>7. \A k \in nonce[a]..m : \E t \in pending[a] : t.nonce = k
        BY <3>1, <4>2 DEF Rests, Down
      <4> QED BY <2>1, <4>4, <4>5, <4>6, <4>7 DEF Gapless, chainVars
    <3> QED BY <3>3, <3>4
  <2> QED BY <1>1, <2>1, <2>2 DEF GapInv, Unsettled
<1> QED BY <1>3, <1>4, <1>5, <1>6, <1>7, <1>8, NextCases

LEMMA GapInit == Init => GapInv
<1> SUFFICES ASSUME Init PROVE GapInv
  OBVIOUS
<1>1. \A a \in Accounts : pending[a] = {} /\ nonces[a] = 0 /\ nonce[a] = 0
  BY DEF Init
<1>2. \A a \in Accounts : Gapless(a) /\ ~Unsettled(a)
  BY <1>1 DEF Gapless, Unsettled, Init
<1> QED BY <1>2 DEF GapInv, Init

\* As long as no head takes back transactions, the pending nonces of an account
\* run from its state nonce to its virtual nonce without a gap, whatever is
\* included, replaced, demoted, truncated or removed.
THEOREM PoolNoGaps ==
  ASSUME ~Reorgs PROVE Spec => []NoGaps
<1>1. Inv /\ PhaseInv /\ FrontInv /\ GapInv /\ [Next]_vars => GapInv'
  <2> SUFFICES ASSUME Inv, PhaseInv, FrontInv, GapInv, [Next]_vars PROVE GapInv'
    OBVIOUS
  <2>1. CASE UNCHANGED vars
    BY <2>1 DEF GapInv, Gapless, Resumes, Rests, Down, Unsettled, NoLoop, vars, poolVars, chainVars
  <2> QED BY <2>1, GapStep
<1>2. Inv /\ GapInv => NoGaps
  <2> SUFFICES ASSUME Inv, GapInv, Quiet, NEW a \in Accounts
               PROVE  /\ nonce[a] =< nonces[a]
                      /\ Nonces(pending[a]) = nonce[a]..nonces[a] - 1
    BY DEF NoGaps
  <2>1. Gapless(a)
    BY DEF GapInv, Unsettled, Quiet
  <2>2. /\ nonces[a] \in Int /\ nonce[a] \in Int
        /\ \A t \in pending[a] : t.nonce \in Int
    BY AccountNumbers
  <2> QED BY <2>1, <2>2 DEF Gapless, Nonces
<1> QED BY <1>1, <1>2, GapInit, FrontInvariance, PTL DEF Spec
-----------------------------------------------------------------------------
(***************************************************************************)
(* The limits of a run                                                     *)
(***************************************************************************)
\* All pending transactions.
Pendings == UNION {pending[a] : a \in Accounts}

LEMMA PendingSizes ==
  ASSUME Inv
  PROVE  /\ Pendings \subseteq Txs /\ IsFiniteSet(Pendings) /\ PendingCount \in Nat
         /\ PendingCount = Cardinality(Pendings)
         /\ \A a \in Accounts : IsFiniteSet(pending[a]) /\ Size(a) \in Nat
<1>1. pending \in [Accounts -> SUBSET Txs]
  BY PoolTypes DEF Inv
<1>2. Pendings \subseteq Txs
  BY <1>1 DEF Pendings
<1>3. IsFiniteSet(Pendings) /\ Cardinality(Pendings) \in Nat
  BY <1>2, ListSize
<1>4. PendingCount = Cardinality(Pendings)
  BY DEF PendingCount, Pendings
<1>5. \A a \in Accounts : IsFiniteSet(pending[a]) /\ Size(a) \in Nat
  BY <1>1, ListSize DEF Size
<1> QED BY <1>2, <1>3, <1>4, <1>5

\* Each list that Shorten cuts loses one transaction.
LEMMA ShortenSizes ==
  ASSUME Inv, NEW S \in SUBSET Accounts, Shorten(S), \A a \in S : Size(a) >= 1
  PROVE  /\ \A a \in S : Cardinality(pending'[a]) = Size(a) - 1
         /\ \A a \in Accounts \ S : pending'[a] = pending[a]
         /\ PendingCount' =< PendingCount - Cardinality(S)
         /\ PendingCount' \in Nat /\ Cardinality(S) \in Nat
<1>1. \A a \in Accounts : IsFiniteSet(pending[a]) /\ Size(a) \in Nat
  BY PendingSizes
<1>2. \A a \in S : pending[a] # {}
  BY FS_EmptySet DEF Size
<1>3. \A a \in S : \E t \in pending[a] : pending'[a] = pending[a] \ {t}
  BY <1>2, ShortenLists DEF Inv
<1>4. \A a \in Accounts \ S : pending'[a] = pending[a]
  BY ShortenLists DEF Inv, SameLists
<1>5. \A a \in S : Cardinality(pending'[a]) = Size(a) - 1
  BY <1>1, <1>3, FS_RemoveElement DEF Size
<1> DEFINE f == [a \in S |-> CHOOSE t \in pending[a] : pending'[a] = pending[a] \ {t}]
           T == {f[a] : a \in S}
           U == Pendings
           V == UNION {pending'[a] : a \in Accounts}
<1>6. \A a \in S : f[a] \in pending[a] /\ pending'[a] = pending[a] \ {f[a]}
  BY <1>3
<1>7. \A a \in Accounts : \A t \in pending[a] : t.acc = a
  BY Lists DEF Inv
<1>8. IsFiniteSet(S)
  BY TxPoolAssumption, FS_Subset
<1>9. Cardinality(T) = Cardinality(S)
  <2>1. f \in [S -> T] /\ \A t \in T : \E a \in S : f[a] = t
    OBVIOUS
  <2>2. \A a, b \in S : f[a] = f[b] => a = b
    BY <1>6, <1>7
  <2> HIDE DEF f, T
  <2>3. f \in Surjection(S, T) /\ f \in Injection(S, T)
    BY <2>1, <2>2 DEF Surjection, Injection, IsInjective
  <2> QED BY <1>8, <2>3, FS_Surjection
<1>10. T \subseteq U
  BY <1>6 DEF Pendings
<1>11. ASSUME NEW x \in V PROVE x \in U \ T
  <2>1. PICK a \in Accounts : x \in pending'[a]
    OBVIOUS
  <2>2. x \in pending[a]
    BY <1>4, <1>6, <2>1
  <2>3. ASSUME NEW b \in S, x = f[b] PROVE FALSE
    <3>1. a = b
      BY <1>6, <1>7, <2>2, <2>3
    <3> QED BY <1>6, <2>1, <2>3, <3>1
  <2> QED BY <2>2, <2>3 DEF Pendings
<1>12. PendingCount' = Cardinality(V)
  BY DEF PendingCount
<1>13. IsFiniteSet(U) /\ Cardinality(U) \in Nat /\ PendingCount = Cardinality(U)
  BY PendingSizes
<1> HIDE DEF f, T, U, V
<1>14. U \cap T = T
  BY <1>10
<1>15. IsFiniteSet(U \ T) /\ Cardinality(U \ T) = Cardinality(U) - Cardinality(T)
  BY <1>13, <1>14, FS_Difference
<1>16. V \in SUBSET (U \ T)
  BY <1>11
<1>17. IsFiniteSet(V) /\ Cardinality(V) =< Cardinality(U \ T)
  BY <1>15, <1>16, FS_Subset
<1>18. Cardinality(S) \in Nat /\ Cardinality(V) \in Nat
  BY <1>8, <1>17, FS_CardinalityType
<1>19. PendingCount' =< PendingCount - Cardinality(S)
  BY <1>9, <1>12, <1>13, <1>15, <1>17, <1>18
<1> QED BY <1>4, <1>5, <1>12, <1>18, <1>19

\* truncatePending: the count is no less than what is pending; spammers have the
\* sizes they were entered with; the offenders were popped by size, all but the
\* last have been cut to one size, and none below the guaranteed slots; whoever
\* has more than these is a spammer or an offender.
TruncInv ==
  phase = "truncPending" =>
    LET n == Len(offenders) IN
    /\ PendingCount =< count
    /\ \A s \in spammers : s.size = Size(s.acc) /\ s.size > AccountSlots
    /\ \A i, j \in 1..n : offenders[i] = offenders[j] => i = j
    /\ \A s \in spammers : \A i \in 1..n : s.acc # offenders[i]
    /\ \A i \in 1..n : Size(offenders[i]) >= AccountSlots /\ Size(offenders[i]) >= Size(offenders[n])
    /\ \A i, j \in 1..n - 1 : Size(offenders[i]) = Size(offenders[j])
    /\ n > 0 => \A s \in spammers : s.size =< Size(offenders[n])
    /\ \A a \in Accounts \ locals : Size(a) > AccountSlots =>
         (\E s \in spammers : s.acc = a) \/ (\E i \in 1..n : offenders[i] = a)

LimitInv ==
  /\ TruncInv
  /\ phase \in {"truncQueue", "finish"} =>
       \/ PendingCount =< GlobalSlots
       \/ \A a \in Accounts \ locals : Size(a) =< AccountSlots
  /\ phase = "finish" => QueueCount =< GlobalQueue \/ Victims = {}

\* When the last offender is as large as the ones before it, they are all alike.
LEMMA AllEqual ==
  ASSUME Inv, TruncInv, phase = "truncPending", ~Unequal,
         NEW i \in 1..Len(offenders)
  PROVE  Size(offenders[i]) = Size(offenders[Len(offenders)])
<1> DEFINE n == Len(offenders)
<1>1. n \in Nat /\ \A j \in 1..n : offenders[j] \in Accounts
  BY DEF Inv, RestType
<1>2. \A j \in 1..n : Size(offenders[j]) \in Nat
  BY <1>1, PendingSizes
<1>3. /\ \A j \in 1..n : Size(offenders[j]) >= Size(offenders[n])
      /\ \A j, k \in 1..n - 1 : Size(offenders[j]) = Size(offenders[k])
  BY DEF TruncInv
<1>4. n > 1 => ~(Size(offenders[n - 1]) > Size(offenders[n]))
  BY DEF Unequal
<1> HIDE DEF n
<1>5. CASE i = n
  BY <1>5 DEF n
<1>6. CASE i # n
  <2>1. n > 1 /\ i \in 1..n - 1 /\ n - 1 \in 1..n - 1 /\ n - 1 \in 1..n /\ n \in 1..n
    BY <1>1, <1>6 DEF n
  <2>2. Size(offenders[i]) = Size(offenders[n - 1])
    BY <1>3, <2>1
  <2>3. Size(offenders[n - 1]) = Size(offenders[n])
    <3>1. Size(offenders[n - 1]) \in Nat /\ Size(offenders[n]) \in Nat
      BY <1>2, <2>1
    <3>2. Size(offenders[n - 1]) >= Size(offenders[n])
      BY <1>3, <2>1
    <3> QED BY <1>4, <2>1, <3>1, <3>2
  <2> QED BY <2>2, <2>3 DEF n
<1> QED BY <1>5, <1>6

\* The step formula of GuaranteedSlots.
SparesSlots ==
  phase = "truncPending" =>
    \A a \in Accounts : pending'[a] # pending[a] =>
      a \notin locals /\ Cardinality(pending'[a]) >= AccountSlots

\* A step of Equalize (all offenders but the last) or Reduce (all).
LEMMA OffendersCut ==
  ASSUME Inv, TruncInv, phase = "truncPending",
         NEW m \in Nat, m = Len(offenders) \/ m = Len(offenders) - 1,
         Shorten({offenders[i] : i \in 1..m}),
         \A i \in 1..m : Size(offenders[i]) > AccountSlots,
         m = Len(offenders) => spammers = {} /\ ~Unequal,
         m # Len(offenders) => \A i \in 1..m : Size(offenders[i]) > Size(offenders[Len(offenders)]),
         UNCHANGED <<phase, spammers, offenders, locals>>
  PROVE  TruncInv' /\ SparesSlots
<1> DEFINE n == Len(offenders)
           S == {offenders[i] : i \in 1..m}
           sz(i) == Cardinality(pending'[offenders[i]])
<1>1. n \in Nat /\ (\A i \in 1..n : offenders[i] \in Accounts /\ offenders[i] \notin locals)
  BY DEF Inv, RestType, LoopsSpareLocals
<1>2. AccountSlots \in Int /\ AccountSlots >= 1
  BY TxPoolAssumption
<1>3. /\ PendingCount =< count
      /\ \A s \in spammers : s.size = Size(s.acc) /\ s.size > AccountSlots
      /\ \A i, j \in 1..n : offenders[i] = offenders[j] => i = j
      /\ \A s \in spammers : \A i \in 1..n : s.acc # offenders[i]
      /\ \A i \in 1..n : Size(offenders[i]) >= AccountSlots /\ Size(offenders[i]) >= Size(offenders[n])
      /\ \A i, j \in 1..n - 1 : Size(offenders[i]) = Size(offenders[j])
      /\ n > 0 => \A s \in spammers : s.size =< Size(offenders[n])
      /\ \A a \in Accounts \ locals : Size(a) > AccountSlots =>
           (\E s \in spammers : s.acc = a) \/ (\E i \in 1..n : offenders[i] = a)
  BY DEF TruncInv
<1>4. \A a \in Accounts : Size(a) \in Nat
  BY PendingSizes
<1>5. m =< n /\ \A i \in 1..m : i \in 1..n
  BY <1>1
<1>6. S \in SUBSET Accounts
  BY <1>1, <1>5
<1>7. \A a \in S : Size(a) > AccountSlots /\ Size(a) \in Nat
  BY <1>4, <1>6
<1>8. \A a \in S : Size(a) >= 1
  BY <1>2, <1>7
<1>9. count' = count - Cardinality(S)
  BY DEF Shorten
<1>10. \A i \in 1..m : offenders[i] \in S
  OBVIOUS
<1>11. \A i \in 1..n : i \notin 1..m => offenders[i] \notin S
  BY <1>3, <1>5
<1>12. \A s \in spammers : s.acc \in Accounts /\ s.acc \notin S
  <2>1. \A s \in spammers : s.acc \in Accounts
    BY DEF Inv, RestType
  <2> QED BY <1>3, <1>5, <2>1
<1>13. Shorten(S)
  OBVIOUS
<1>14. \A a \in S : a \notin locals
  BY <1>1, <1>5
<1> HIDE DEF S
<1>15. /\ \A a \in S : Cardinality(pending'[a]) = Size(a) - 1
       /\ \A a \in Accounts \ S : pending'[a] = pending[a]
       /\ PendingCount' =< PendingCount - Cardinality(S)
       /\ PendingCount' \in Nat /\ Cardinality(S) \in Nat
  BY <1>6, <1>8, <1>13, ShortenSizes
<1>16. \A a \in Accounts : Cardinality(pending'[a]) \in Nat /\ Cardinality(pending'[a]) =< Size(a)
  <2>1. \A a \in S : Cardinality(pending'[a]) \in Nat /\ Cardinality(pending'[a]) =< Size(a)
    BY <1>2, <1>7, <1>15
  <2>2. \A a \in Accounts \ S :
          Cardinality(pending'[a]) \in Nat /\ Cardinality(pending'[a]) =< Size(a)
    BY <1>4, <1>15 DEF Size
  <2> QED BY <2>1, <2>2
<1>17. PendingCount' =< count'
  <2>1. PendingCount \in Nat /\ count \in Int
    BY PendingSizes DEF Inv, RestType
  <2> QED BY <1>3, <1>9, <1>15, <2>1
<1>18. \A s \in spammers : s.size = Cardinality(pending'[s.acc])
  BY <1>3, <1>12, <1>15 DEF Size
<1>19. \A i \in 1..m : sz(i) = Size(offenders[i]) - 1
  BY <1>10, <1>15
<1>20. \A i \in 1..n : i \notin 1..m => sz(i) = Size(offenders[i])
  BY <1>1, <1>11, <1>15 DEF Size
<1>21. \A i \in 1..n : Size(offenders[i]) \in Nat
  BY <1>1, <1>4
<1> HIDE DEF sz
<1>22. \A i \in 1..n : sz(i) >= AccountSlots
  <2>1. \A i \in 1..m : sz(i) >= AccountSlots
    BY <1>2, <1>5, <1>19, <1>21
  <2>2. \A i \in 1..n : i \notin 1..m => sz(i) >= AccountSlots
    BY <1>3, <1>20
  <2> QED BY <2>1, <2>2
<1>23. \A i \in 1..n : sz(i) >= sz(n)
  <2>1. CASE m = n
    <3> SUFFICES ASSUME NEW i \in 1..n PROVE sz(i) >= sz(n)
      OBVIOUS
    <3>1. n \in 1..n /\ Size(offenders[i]) >= Size(offenders[n])
      BY <1>1, <1>3
    <3>2. sz(i) = Size(offenders[i]) - 1 /\ sz(n) = Size(offenders[n]) - 1
      BY <1>19, <2>1, <3>1
    <3> QED BY <1>21, <3>1, <3>2
  <2>2. CASE m # n
    <3> SUFFICES ASSUME NEW i \in 1..n PROVE sz(i) >= sz(n)
      OBVIOUS
    <3>1. m = n - 1 /\ n \in 1..n /\ n \notin 1..m /\ (i \in 1..m \/ i = n)
      BY <1>1, <2>2
    <3>2. sz(n) = Size(offenders[n])
      BY <1>20, <3>1
    <3>3. CASE i \in 1..m
      BY <1>19, <1>21, <2>2, <3>1, <3>2, <3>3
    <3>4. CASE i = n
      BY <1>21, <3>1, <3>2, <3>4
    <3> QED BY <3>1, <3>3, <3>4
  <2> QED BY <2>1, <2>2
<1>24. \A i, j \in 1..n - 1 : sz(i) = sz(j)
  <2> SUFFICES ASSUME NEW i \in 1..n - 1, NEW j \in 1..n - 1 PROVE sz(i) = sz(j)
    OBVIOUS
  <2>1. i \in 1..m /\ j \in 1..m
    BY <1>1
  <2>2. Size(offenders[i]) = Size(offenders[j])
    BY <1>3
  <2> QED BY <1>19, <2>1, <2>2
<1>25. n > 0 => \A s \in spammers : s.size =< sz(n)
  <2>1. CASE m = n
    BY <2>1
  <2>2. CASE m # n
    <3>1. n > 0 => n \in 1..n /\ n \notin 1..m
      BY <1>1, <2>2
    <3> QED BY <1>3, <1>20, <3>1
  <2> QED BY <2>1, <2>2
<1>26. \A a \in Accounts \ locals : Cardinality(pending'[a]) > AccountSlots =>
         (\E s \in spammers : s.acc = a) \/ (\E i \in 1..n : offenders[i] = a)
  <2> SUFFICES ASSUME NEW a \in Accounts \ locals, Cardinality(pending'[a]) > AccountSlots
               PROVE  Size(a) > AccountSlots
    BY <1>3
  <2> QED BY <1>2, <1>4, <1>16
<1>27. TruncInv'
  BY <1>3, <1>17, <1>18, <1>22, <1>23, <1>24, <1>25, <1>26 DEF TruncInv, Size, sz
<1>28. SparesSlots
  <2> SUFFICES ASSUME NEW a \in Accounts, pending'[a] # pending[a]
               PROVE  a \notin locals /\ Cardinality(pending'[a]) >= AccountSlots
    BY DEF SparesSlots
  <2>1. a \in S
    BY <1>15
  <2>2. Cardinality(pending'[a]) = Size(a) - 1 /\ Size(a) > AccountSlots /\ Size(a) \in Nat
    BY <1>7, <1>15, <2>1
  <2> QED BY <1>2, <1>14, <2>1, <2>2
<1> QED BY <1>27, <1>28

LEMMA EqualizeStep ==
  ASSUME Inv, TruncInv, Equalize PROVE TruncInv' /\ SparesSlots
<1> DEFINE n == Len(offenders)
<1>1. /\ phase = "truncPending" /\ n > 1 /\ Size(offenders[n - 1]) > Size(offenders[n])
      /\ Shorten({offenders[i] : i \in 1..n - 1})
      /\ UNCHANGED <<phase, spammers, offenders, locals>>
  BY DEF Equalize, Truncating, Unequal
<1>2. n \in Nat /\ n - 1 \in Nat /\ n - 1 # n /\ n - 1 \in 1..n - 1
  <2>1. n \in Nat
    BY DEF Inv, RestType
  <2> QED BY <1>1, <2>1
<1>3. /\ \A i, j \in 1..n - 1 : Size(offenders[i]) = Size(offenders[j])
      /\ \A i \in 1..n : Size(offenders[i]) >= AccountSlots
  BY <1>1 DEF TruncInv
<1>4. \A i \in 1..n - 1 : Size(offenders[i]) > Size(offenders[n])
  BY <1>1, <1>2, <1>3
<1>5. \A i \in 1..n : Size(offenders[i]) \in Nat
  BY PendingSizes DEF Inv, RestType
<1>6. AccountSlots \in Int
  BY TxPoolAssumption
<1>7. ASSUME NEW i \in 1..n - 1 PROVE Size(offenders[i]) > AccountSlots
  <2>1. i \in 1..n /\ n \in 1..n
    BY <1>1, <1>2
  <2> QED BY <1>3, <1>4, <1>5, <1>6, <2>1
<1> HIDE DEF n
<1> DEFINE m == n - 1
<1>8. m \in Nat /\ m # Len(offenders) /\ m = Len(offenders) - 1
  BY <1>2 DEF n
<1>9. /\ \A i \in 1..m : Size(offenders[i]) > AccountSlots
      /\ \A i \in 1..m : Size(offenders[i]) > Size(offenders[Len(offenders)])
      /\ Shorten({offenders[i] : i \in 1..m})
  BY <1>1, <1>4, <1>7 DEF n
<1> HIDE DEF m
<1> QED BY <1>1, <1>8, <1>9, OffendersCut

LEMMA ReduceStep ==
  ASSUME Inv, TruncInv, Reduce PROVE TruncInv' /\ SparesSlots
<1> DEFINE n == Len(offenders)
<1>1. /\ phase = "truncPending" /\ spammers = {} /\ ~Unequal
      /\ Size(offenders[n]) > AccountSlots
      /\ Shorten({offenders[i] : i \in DOMAIN offenders})
      /\ UNCHANGED <<phase, spammers, offenders, locals>>
  BY DEF Reduce, Truncating, Excessive
<1>2. n \in Nat /\ DOMAIN offenders = 1..n
  BY DEF Inv, RestType
<1>3. \A i \in 1..n : Size(offenders[i]) > AccountSlots
  BY <1>1, AllEqual
<1> HIDE DEF n
<1>4. n = Len(offenders)
  BY DEF n
<1>5. Shorten({offenders[i] : i \in 1..n})
  BY <1>1, <1>2
<1> QED BY <1>1, <1>2, <1>3, <1>4, <1>5, OffendersCut

LEMMA NextOffenderStep ==
  ASSUME Inv, TruncInv, NextOffender PROVE TruncInv'
<1> DEFINE n == Len(offenders)
<1>1. PICK s \in spammers : /\ \A r \in spammers : r.size =< s.size
                            /\ offenders' = Append(offenders, s.acc)
                            /\ spammers' = spammers \ {s}
  BY DEF NextOffender
<1>2. phase = "truncPending" /\ ~Unequal /\ UNCHANGED <<pending, phase, locals, count>>
  BY DEF NextOffender, Truncating, poolVars
<1>3. /\ PendingCount =< count
      /\ \A r \in spammers : r.size = Size(r.acc) /\ r.size > AccountSlots
      /\ \A i, j \in 1..n : offenders[i] = offenders[j] => i = j
      /\ \A r \in spammers : \A i \in 1..n : r.acc # offenders[i]
      /\ \A i \in 1..n : Size(offenders[i]) >= AccountSlots /\ Size(offenders[i]) >= Size(offenders[n])
      /\ n > 0 => \A r \in spammers : r.size =< Size(offenders[n])
      /\ \A a \in Accounts \ locals : Size(a) > AccountSlots =>
           (\E r \in spammers : r.acc = a) \/ (\E i \in 1..n : offenders[i] = a)
  BY <1>2 DEF TruncInv
<1>4. /\ n \in Nat /\ offenders \in Seq(Accounts)
      /\ \A r \in spammers : r.acc \in Accounts /\ r.size \in Nat
                             /\ r = [acc |-> r.acc, size |-> r.size]
  BY DEF Inv, RestType
<1>5. /\ Len(offenders') = n + 1 /\ offenders'[n + 1] = s.acc
      /\ \A i \in 1..n : offenders'[i] = offenders[i]
  BY <1>1, <1>4
<1>6. \A i \in 1..n : Size(offenders[i]) = Size(offenders[n])
  BY <1>2, AllEqual
<1>7. AccountSlots \in Int
  BY TxPoolAssumption
<1>8. \A i \in 1..n : Size(offenders[i]) \in Nat
  BY <1>4, PendingSizes
<1> DEFINE sz(i) == Size(offenders'[i])
<1>9. sz(n + 1) = s.size /\ \A i \in 1..n : sz(i) = Size(offenders[i])
  BY <1>3, <1>5
<1> HIDE DEF sz, n
<1>10. \A i \in 1..n + 1 : i \in 1..n \/ i = n + 1
  BY <1>4
<1>11. \A i \in 1..n : n > 0 /\ i # n + 1
  BY <1>4
<1>12. \A i, j \in 1..n + 1 : offenders'[i] = offenders'[j] => i = j
  BY <1>3, <1>5, <1>10 DEF n
<1>13. \A r \in spammers \ {s} : r.acc # s.acc
  BY <1>3, <1>4
<1>14. \A r \in spammers \ {s} : \A i \in 1..n + 1 : r.acc # offenders'[i]
  BY <1>3, <1>5, <1>10, <1>13 DEF n
<1>15. \A i \in 1..n + 1 : sz(i) >= AccountSlots /\ sz(i) >= sz(n + 1)
  <2>1. \A i \in 1..n : sz(i) >= AccountSlots /\ sz(i) >= sz(n + 1)
    <3> SUFFICES ASSUME NEW i \in 1..n
                 PROVE  sz(i) >= AccountSlots /\ sz(i) >= sz(n + 1)
      OBVIOUS
    <3>1. s.size =< Size(offenders[n]) /\ Size(offenders[i]) >= AccountSlots
      BY <1>3, <1>11 DEF n
    <3>2. Size(offenders[i]) = Size(offenders[n]) /\ Size(offenders[i]) \in Nat
      BY <1>6, <1>8 DEF n
    <3> QED BY <1>4, <1>9, <3>1, <3>2
  <2>2. sz(n + 1) >= AccountSlots /\ sz(n + 1) >= sz(n + 1)
    BY <1>3, <1>4, <1>7, <1>9
  <2> QED BY <1>10, <2>1, <2>2
<1>16. \A i, j \in 1..(n + 1) - 1 : sz(i) = sz(j)
  <2>1. (n + 1) - 1 = n
    BY <1>4 DEF n
  <2>2. \A i, j \in 1..n : sz(i) = sz(j)
    BY <1>6, <1>9 DEF n
  <2> QED BY <2>1, <2>2
<1>17. \A r \in spammers \ {s} : r.size =< sz(n + 1)
  BY <1>1, <1>9
<1>18. \A a \in Accounts \ locals : Size(a) > AccountSlots =>
         (\E r \in spammers \ {s} : r.acc = a) \/ (\E i \in 1..n + 1 : offenders'[i] = a)
  <2>1. n + 1 \in 1..n + 1 /\ \A i \in 1..n : i \in 1..n + 1
    BY <1>4 DEF n
  <2> QED BY <1>3, <1>5, <2>1 DEF n
<1>19. PendingCount' =< count'
  BY <1>2, <1>3 DEF PendingCount
<1>20. /\ \A r \in spammers' : r.size = Size(r.acc) /\ r.size > AccountSlots
       /\ \A r \in spammers' : r.size =< sz(n + 1)
  BY <1>1, <1>3, <1>17
<1> DEFINE m == Len(offenders')
<1>21. m = n + 1
  BY <1>5 DEF n
<1> HIDE DEF m
<1>22. /\ \A i, j \in 1..m : offenders'[i] = offenders'[j] => i = j
       /\ \A r \in spammers' : \A i \in 1..m : r.acc # offenders'[i]
       /\ \A i \in 1..m : sz(i) >= AccountSlots /\ sz(i) >= sz(m)
       /\ \A i, j \in 1..m - 1 : sz(i) = sz(j)
       /\ \A r \in spammers' : r.size =< sz(m)
       /\ \A a \in Accounts \ locals : Size(a) > AccountSlots =>
            (\E r \in spammers' : r.acc = a) \/ (\E i \in 1..m : offenders'[i] = a)
  BY <1>1, <1>12, <1>14, <1>15, <1>16, <1>18, <1>20, <1>21
<1> QED BY <1>2, <1>19, <1>20, <1>22 DEF TruncInv, Size, sz, m

LEMMA StartTruncateStep ==
  ASSUME Inv, StartTruncate PROVE TruncInv'
<1>1. /\ count' = PendingCount /\ UNCHANGED <<pending, locals, offenders>>
      /\ spammers' = {[acc |-> a, size |-> Size(a)] :
                        a \in {b \in Accounts \ locals : Size(b) > AccountSlots}}
  BY DEF StartTruncate, poolVars
<1>2. offenders = <<>>
  BY DEF StartTruncate, Inv, LoopsSpareLocals
<1>3. Len(offenders') = 0
  BY <1>1, <1>2
<1>4. \A i : i \notin 1..0 /\ i \notin 1..(0 - 1)
  OBVIOUS
<1>5. PendingCount \in Nat /\ PendingCount' = PendingCount
  BY <1>1, PendingSizes DEF PendingCount
<1>6. \A s \in spammers' : s.size = Cardinality(pending'[s.acc]) /\ s.size > AccountSlots
  BY <1>1 DEF Size
<1>7. \A a \in Accounts \ locals : Size(a) > AccountSlots => \E s \in spammers' : s.acc = a
  <2> SUFFICES ASSUME NEW a \in Accounts \ locals, Size(a) > AccountSlots
               PROVE  \E s \in spammers' : s.acc = a
    OBVIOUS
  <2>1. [acc |-> a, size |-> Size(a)] \in spammers'
    BY <1>1
  <2> QED BY <2>1
<1>8. PendingCount' =< count'
  BY <1>1, <1>5
<1> QED BY <1>1, <1>3, <1>4, <1>6, <1>7, <1>8 DEF TruncInv, Size

\* Once truncatePending ends, its limit holds.
LEMMA TruncatedLimit ==
  ASSUME Inv, TruncInv, PendingTruncated
  PROVE  \/ PendingCount =< GlobalSlots
         \/ \A a \in Accounts \ locals : Size(a) =< AccountSlots
<1>1. phase = "truncPending" /\ PendingCount =< count
  BY DEF PendingTruncated, TruncInv
<1>2. CASE count =< GlobalSlots
  <2>1. PendingCount \in Nat /\ count \in Int /\ GlobalSlots \in Int
    BY PendingSizes, TxPoolAssumption DEF Inv, RestType
  <2> QED BY <1>1, <1>2, <2>1
<1>3. CASE ~Unequal /\ spammers = {} /\ ~Excessive
  <2> SUFFICES ASSUME NEW a \in Accounts \ locals, ~(Size(a) =< AccountSlots) PROVE FALSE
    OBVIOUS
  <2>1. Size(a) \in Nat /\ AccountSlots \in Int
    BY PendingSizes, TxPoolAssumption
  <2>2. Size(a) > AccountSlots
    BY <2>1
  <2>3. PICK i \in 1..Len(offenders) : offenders[i] = a
    BY <1>1, <1>3, <2>2 DEF TruncInv
  <2>4. Size(offenders[Len(offenders)]) > AccountSlots
    BY <1>1, <1>3, <2>2, <2>3, AllEqual
  <2>5. offenders # <<>>
    BY <2>3
  <2> QED BY <1>3, <2>4, <2>5 DEF Excessive
<1> QED BY <1>2, <1>3 DEF PendingTruncated

\* Removals do not break it.
LEMMA LimitShrinks ==
  ASSUME Inv, \A a \in Accounts : pending'[a] \subseteq pending[a], UNCHANGED locals,
         \/ PendingCount =< GlobalSlots
         \/ \A a \in Accounts \ locals : Size(a) =< AccountSlots
  PROVE  \/ PendingCount' =< GlobalSlots
         \/ \A a \in Accounts \ locals' : Cardinality(pending'[a]) =< AccountSlots
<1> DEFINE V == UNION {pending'[a] : a \in Accounts}
<1>1. V \in SUBSET Pendings
  BY DEF Pendings
<1>2. PendingCount' = Cardinality(V)
  BY DEF PendingCount
<1> HIDE DEF V
<1>3. PendingCount' \in Nat /\ PendingCount' =< PendingCount /\ PendingCount \in Nat
  BY <1>1, <1>2, PendingSizes, FS_Subset, FS_CardinalityType
<1>4. \A a \in Accounts : /\ Cardinality(pending'[a]) =< Size(a)
                          /\ Cardinality(pending'[a]) \in Nat /\ Size(a) \in Nat
  BY PendingSizes, FS_Subset, FS_CardinalityType DEF Size
<1>5. GlobalSlots \in Int /\ AccountSlots \in Int
  BY TxPoolAssumption
<1> QED BY <1>3, <1>4, <1>5

LEMMA RemoveShrinks ==
  ASSUME PoolInv(Pool), NEW t \in all, SetPool(removeTx(Pool, t)), NEW a \in Accounts
  PROVE  pending'[a] \subseteq pending[a]
<1>1. /\ pending \in [Accounts -> SUBSET Txs] /\ pending' = removeTx(Pool, t).pending
  BY PoolTypes, SetPoolFields
<1>2. \/ removeTx(Pool, t).pending =
           [pending EXCEPT ![t.acc] = {u \in pending[t.acc] : u.nonce < t.nonce}]
      \/ removeTx(Pool, t).pending = pending
  BY PoolFields, RemoveFields
<1> QED BY <1>1, <1>2

LEMMA LimitStep ==
  ASSUME Inv, PhaseInv, LimitInv, Next PROVE LimitInv' /\ SparesSlots
<1>1. ASSUME phase' \notin {"truncPending", "truncQueue", "finish"}, phase # "truncPending"
      PROVE  LimitInv' /\ SparesSlots
  BY <1>1 DEF LimitInv, TruncInv, SparesSlots
<1>2. ASSUME UNCHANGED <<pending, queue, locals, phase, truncVars>>
      PROVE  LimitInv' /\ SparesSlots
  BY <1>2 DEF LimitInv, TruncInv, SparesSlots, Size, PendingCount, QueueCount, Victims, truncVars
<1>3. ASSUME TruncInv', phase' = "truncPending", SparesSlots PROVE LimitInv' /\ SparesSlots
  BY <1>3 DEF LimitInv
<1>4. /\ TruncInv
      /\ phase = "truncPending" => drops = {} /\ adding = {}
      /\ phase \in {"truncQueue", "finish"} => adding = {}
      /\ phase = "finish" => drops = {}
  BY DEF LimitInv, PhaseInv, Inv, LoopsSpareLocals
<1>5. CASE \/ \E t \in Txs, local \in BOOLEAN : AddTx(t, local)
           \/ \E t \in all : RemoveTx(t)
           \/ \E price \in Prices : SetGasPrice(price)
           \/ Evict
  <2>1. phase = "idle" /\ phase' = "idle"
    BY <1>5 DEF AddTx, RemoveTx, SetGasPrice, Evict, Quiet
  <2> QED BY <1>1, <2>1
<1>6. ASSUME NEW t \in inject, Reinject(t) PROVE LimitInv' /\ SparesSlots
  BY <1>1, <1>6 DEF Reinject
<1>7. CASE AddRoomy
  <2>1. phase \in {"idle", "reinject"} /\ phase' = phase
    BY <1>7 DEF AddRoomy, Inv, LoopsSpareLocals
  <2> QED BY <1>1, <2>1
<1>8. ASSUME NEW t \in drops, Drop(t) PROVE LimitInv' /\ SparesSlots
  <2>1. phase \in {"idle", "reinject", "truncQueue"} /\ UNCHANGED <<phase, locals>>
    BY <1>8 DEF Drop, PhaseInv
  <2>2. CASE phase # "truncQueue"
    BY <1>1, <2>1, <2>2
  <2>3. CASE phase = "truncQueue"
    <3>1. \A a \in Accounts : pending'[a] \subseteq pending[a]
      <4>1. CASE t \in all
        BY <1>8, <4>1, RemoveShrinks DEF Drop, Inv
      <4>2. CASE t \notin all
        BY <1>8, <4>2, PoolFields DEF Drop, SetPool
      <4> QED BY <4>1, <4>2
    <3>2. \/ PendingCount =< GlobalSlots
          \/ \A a \in Accounts \ locals : Size(a) =< AccountSlots
      BY <2>3 DEF LimitInv
    <3>3. \/ PendingCount' =< GlobalSlots
          \/ \A a \in Accounts \ locals' : Cardinality(pending'[a]) =< AccountSlots
      BY <2>1, <3>1, <3>2, LimitShrinks
    <3> QED BY <2>1, <2>3, <3>3 DEF LimitInv, TruncInv, SparesSlots, Size
  <2> QED BY <2>2, <2>3
<1>9. CASE \E a \in Accounts : TruncateQueue(a) \/ Lapse(a)
  BY <1>2, <1>9 DEF TruncateQueue, Lapse, poolVars
<1>10. CASE NextOffender
  <2>1. TruncInv'
    BY <1>4, <1>10, NextOffenderStep
  <2>2. UNCHANGED pending /\ phase' = "truncPending"
    BY <1>10 DEF NextOffender, Truncating, poolVars
  <2> QED BY <1>3, <2>1, <2>2 DEF SparesSlots
<1>11. CASE Equalize
  <2>1. phase' = "truncPending"
    BY <1>11 DEF Equalize, Truncating
  <2> QED BY <1>3, <1>4, <1>11, <2>1, EqualizeStep
<1>12. CASE Reduce
  <2>1. phase' = "truncPending"
    BY <1>12 DEF Reduce, Truncating
  <2> QED BY <1>3, <1>4, <1>12, <2>1, ReduceStep
<1>13. CASE Operation
  BY <1>5, <1>6, <1>7, <1>8, <1>9, <1>10, <1>11, <1>12, <1>13 DEF Operation
<1>14. CASE \/ \E D \in SUBSET dirty : RunPromote(D) \/ RunFailedReset(D)
            \/ Reinjected \/ Promoted \/ Demoted \/ Reset \/ Finish
            \/ \E a \in Accounts : PromoteAccount(a) \/ DemoteAccount(a)
  <2>1. phase # "truncPending" /\ phase' \notin {"truncPending", "truncQueue", "finish"}
    BY <1>14 DEF RunPromote, RunFailedReset, Reinjected, Promoted, Demoted, Reset, RunReset,
                 Finish, PromoteAccount, DemoteAccount, Quiet
  <2> QED BY <1>1, <2>1
<1>15. CASE StartTruncate
  <2>1. phase = "truncate" /\ phase' = "truncPending"
    BY <1>15 DEF StartTruncate
  <2> QED BY <1>3, <1>15, <2>1, StartTruncateStep DEF SparesSlots
<1>16. CASE PendingTruncated
  <2>1. \/ PendingCount =< GlobalSlots
        \/ \A a \in Accounts \ locals : Size(a) =< AccountSlots
    BY <1>4, <1>16, TruncatedLimit
  <2>2. phase' = "truncQueue" /\ UNCHANGED <<pending, locals>>
    BY <1>16 DEF PendingTruncated, poolVars
  <2> QED BY <2>1, <2>2 DEF LimitInv, TruncInv, SparesSlots, PendingCount, Size
<1>17. CASE QueueTruncated
  <2>1. /\ phase = "truncQueue" /\ phase' = "finish" /\ UNCHANGED <<pending, queue, locals>>
        /\ QueueCount =< GlobalQueue \/ Victims = {}
    BY <1>17 DEF QueueTruncated, poolVars
  <2> QED BY <2>1 DEF LimitInv, TruncInv, SparesSlots, PendingCount, QueueCount, Victims, Size
<1>18. CASE Turn
  BY <1>14, <1>15, <1>16, <1>17, <1>18 DEF Turn
<1> QED BY <1>13, <1>14, <1>18, NextCases

LEMMA LimitStutter ==
  ASSUME LimitInv, UNCHANGED vars PROVE LimitInv' /\ SparesSlots
BY DEF LimitInv, TruncInv, SparesSlots, Size, PendingCount, QueueCount, Victims, vars,
       poolVars, truncVars

LEMMA LimitInvariance == Spec => [](Inv /\ PhaseInv /\ LimitInv)
<1>1. Inv /\ PhaseInv /\ LimitInv /\ [Next]_vars => LimitInv'
  BY LimitStep, LimitStutter
<1>2. Init => LimitInv
  BY DEF Init, LimitInv, TruncInv
<1> QED BY <1>1, <1>2, FrontInvariance, PTL DEF Spec

\* A run ends with the pool within its limits: truncatePending stops only when
\* few enough transactions are pending or no remote account is above its
\* guaranteed slots, and truncateQueue does not undo that.
THEOREM PoolLimitsHold == Spec => []LimitsHold
<1>1. LimitInv => LimitsHold
  BY DEF LimitInv, LimitsHold
<1> QED BY <1>1, LimitInvariance, PTL

\* truncatePending, whichever account it cuts and however often, leaves every
\* remote account its guaranteed slots and local accounts alone.
THEOREM PoolGuaranteedSlots == Spec => GuaranteedSlots
<1>1. Inv /\ PhaseInv /\ LimitInv /\ [Next]_vars => [SparesSlots]_vars
  BY LimitStep, LimitStutter
<1>2. Spec => [][SparesSlots]_vars
  BY <1>1, LimitInvariance, PTL DEF Spec
<1> QED BY <1>2 DEF GuaranteedSlots, SparesSlots

-----------------------------------------------------------------------------
(***************************************************************************)
(* The scheduler (TxPoolReorg), for any callers and heads: who holds       *)
(* pool.mu, what a synchronous caller may rely on when it returns, and     *)
(* where a reset starts.                                                   *)
(***************************************************************************)
Early == {"start", "event", "reset", "promote"}

\* The scheduler has a channel open exactly while a run is under way, stays in
\* its loop until the shutdown, and replies to one requester at a time.
RunTracked ==
  /\ curDone = "open" <=> run # "none"
  /\ ~shutdown => sched \in {"select", "reply"}
  /\ loop = "reply" => sched = "reply"
  /\ \A c \in Callers : pc[c] = "reply" => /\ sched = "reply" /\ loop # "reply"
                                         /\ \A d \in Callers : pc[d] = "reply" => c = d

\* Where the transaction of synchronous caller c is on its way to a run: with c
\* itself, with the scheduler, or with a run that has not come to it yet; and
\* the channel c waits on is that of the run.
OnItsWay(c) ==
  /\ pc[c] # "wait" => waits[c] = "none"
  /\ c \in unserved => \/ pc[c] = "request"
                       \/ c \in dirtyAccounts
                       \/ c \in visits /\ run \in Early
  /\ c \in unsent => \/ pc[c] = "event"
                     \/ c \in queued
                     \/ c \in events /\ run \in Early \cup {"send"}
  /\ pc[c] = "event" => c \notin unserved
  /\ pc[c] \in {"idle", "event"} \/ (pc[c] = "wait" /\ waits[c] # "next")
       => c \notin dirtyAccounts \cup queued
  /\ pc[c] = "request" => c \notin dirtyAccounts
  /\ pc[c] = "idle" \/ (pc[c] = "wait" /\ waits[c] = "none") => c \notin unserved \cup unsent

AllOnTheirWay == ~shutdown => \A c \in SyncCallers : OnItsWay(c)

\* The head that the pool has, or will have once the run has reset it.
RunHead(h) ==
  \/ run = "start" /\ \E r \in runReset : h = r.new
  \/ (run # "start" \/ runReset = {}) /\ h = poolHead

\* The head that it will have after the waiting request as well.
NextHead(h) ==
  \/ \E r \in reset : h = r.new
  \/ reset = {} /\ RunHead(h)

\* The requests form a chain from the pool's head to the loop's.
Chained ==
  /\ \A r, s \in reset : r = s
  /\ \A r, s \in runReset : r = s
  /\ HeadsContiguous
  /\ \A r \in reset : RunHead(r.old)
  /\ NextHead(IF loop = "reply" THEN event ELSE head)
  /\ loop = "reply" => reset # {}

ReorgInv == ReorgTypeOK /\ RunTracked /\ AllOnTheirWay /\ Chained
-----------------------------------------------------------------------------
\* The initial state is consistent.
LEMMA ReorgInitInv == ReorgInit => ReorgInv
BY ReorgAssumption DEF ReorgInit, ReorgInv, ReorgTypeOK, RunTracked, AllOnTheirWay, OnItsWay, Chained,
   HeadsContiguous, RunHead, NextHead

\* A step keeps the types; that a launch finds no run under way is RunTracked.
LEMMA ReorgTypeStep == ReorgTypeOK /\ RunTracked /\ [ReorgNext]_reorgVars => ReorgTypeOK'
<1> SUFFICES ASSUME ReorgTypeOK, RunTracked, [ReorgNext]_reorgVars PROVE ReorgTypeOK'
  OBVIOUS
<1> USE ReorgAssumption DEF ReorgTypeOK, ResetRequests
<1>1. ASSUME NEW c \in Callers, AddReplacement(c) PROVE ReorgTypeOK'
  BY <1>1 DEF AddReplacement, loopVars, schedVars, runVars
<1>2. ASSUME NEW c \in Callers, AddQueued(c) PROVE ReorgTypeOK'
  BY <1>2 DEF AddQueued, loopVars, schedVars, runVars
<1>3. ASSUME NEW c \in Callers, QueueTxEvent(c) PROVE ReorgTypeOK'
  BY <1>3 DEF QueueTxEvent, loopVars, schedVars, runVars
<1>4. ASSUME NEW c \in Callers, RequestPromote(c) PROVE ReorgTypeOK'
  BY <1>4 DEF RequestPromote, loopVars, runVars, history
<1>5. ASSUME NEW c \in Callers, ReplyPromote(c) PROVE ReorgTypeOK'
  BY <1>5 DEF ReplyPromote, loopVars, runVars, history
<1>6. ASSUME NEW c \in Callers, RequestRefused(c) PROVE ReorgTypeOK'
  BY <1>6 DEF RequestRefused, loopVars, schedVars, runVars, history
<1>7. ASSUME NEW c \in Callers, Return(c) PROVE ReorgTypeOK'
  BY <1>7 DEF Return, loopVars, schedVars, runVars, history
<1>8. ASSUME NEW h \in ChainHeads, ChainHeadEvent(h) PROVE ReorgTypeOK'
  BY <1>8 DEF ChainHeadEvent, callerVars, schedVars, runVars, history
<1>9. CASE RequestReset
  BY <1>9 DEF RequestReset, Merged, callerVars, runVars, history
<1>10. CASE ReplyReset
  BY <1>10 DEF ReplyReset, callerVars, runVars, history
<1>11. CASE Shutdown
  BY <1>11 DEF Shutdown, callerVars, schedVars, runVars, history
<1>12. CASE Launch
  BY <1>12 DEF Launch, MayLaunch, RunTracked, loopVars, history
<1>13. CASE NoticeDone
  BY <1>13 DEF NoticeDone, callerVars, loopVars, runVars, history
<1>14. CASE ShutdownSeen
  BY <1>14 DEF ShutdownSeen, callerVars, loopVars, runVars, history
<1>15. CASE Drained
  BY <1>15 DEF Drained, loopVars, runVars, history
<1>16. CASE RunLock
  BY <1>16 DEF RunLock, callerVars, loopVars, schedVars, history
<1>17. CASE ReinjectEvent
  BY <1>17 DEF ReinjectEvent, callerVars, loopVars, history
<1>18. CASE ResetDone
  BY <1>18 DEF ResetDone, callerVars, loopVars, schedVars
<1>19. CASE RunPromotion
  BY <1>19 DEF RunPromotion, callerVars, loopVars, schedVars
<1>20. CASE RunSend
  BY <1>20 DEF RunSend, callerVars, loopVars, schedVars
<1>21. CASE RunDone
  BY <1>21 DEF RunDone, loopVars, history
<1>22. CASE SubscriberReads
  BY <1>22 DEF SubscriberReads, callerVars, loopVars, schedVars, runVars, history
<1>23. CASE UNCHANGED reorgVars
  BY <1>23 DEF reorgVars, callerVars, loopVars, schedVars, runVars, history
<1> QED
  BY <1>1, <1>2, <1>3, <1>4, <1>5, <1>6, <1>7, <1>8, <1>9, <1>10, <1>11, <1>12, <1>13,
     <1>14, <1>15, <1>16, <1>17, <1>18, <1>19, <1>20, <1>21, <1>22, <1>23
     DEF ReorgNext, CallerSteps, SchedSteps, RunSteps

\* A step keeps the scheduler's view of the run and of its requesters.
LEMMA TrackedStep == ReorgTypeOK /\ RunTracked /\ [ReorgNext]_reorgVars => RunTracked'
<1> SUFFICES ASSUME ReorgTypeOK, RunTracked, [ReorgNext]_reorgVars PROVE RunTracked'
  OBVIOUS
<1> USE ReorgAssumption DEF ReorgTypeOK, RunTracked
<1>1. ASSUME NEW c \in Callers, AddReplacement(c) PROVE RunTracked'
  BY <1>1 DEF AddReplacement, loopVars, schedVars, runVars
<1>2. ASSUME NEW c \in Callers, AddQueued(c) PROVE RunTracked'
  BY <1>2 DEF AddQueued, loopVars, schedVars, runVars
<1>3. ASSUME NEW c \in Callers, QueueTxEvent(c) PROVE RunTracked'
  BY <1>3 DEF QueueTxEvent, Selecting, MayLaunch, loopVars, runVars
<1>4. ASSUME NEW c \in Callers, RequestPromote(c) PROVE RunTracked'
  BY <1>4 DEF RequestPromote, Selecting, MayLaunch, loopVars, runVars, history
<1>5. ASSUME NEW c \in Callers, ReplyPromote(c) PROVE RunTracked'
  BY <1>5 DEF ReplyPromote, loopVars, runVars, history
<1>6. ASSUME NEW c \in Callers, RequestRefused(c) PROVE RunTracked'
  BY <1>6 DEF RequestRefused, loopVars, schedVars, runVars, history
<1>7. ASSUME NEW c \in Callers, Return(c) PROVE RunTracked'
  BY <1>7 DEF Return, loopVars, schedVars, runVars, history
<1>8. ASSUME NEW h \in ChainHeads, ChainHeadEvent(h) PROVE RunTracked'
  BY <1>8 DEF ChainHeadEvent, callerVars, schedVars, runVars, history
<1>9. CASE RequestReset
  BY <1>9 DEF RequestReset, Selecting, MayLaunch, callerVars, runVars, history
<1>10. CASE ReplyReset
  BY <1>10 DEF ReplyReset, callerVars, runVars, history
<1>11. CASE Shutdown
  BY <1>11 DEF Shutdown, callerVars, schedVars, runVars, history
<1>12. CASE Launch
  BY <1>12 DEF Launch, MayLaunch, loopVars, history
<1>13. CASE NoticeDone
  BY <1>13 DEF NoticeDone, Selecting, MayLaunch, callerVars, loopVars, runVars, history
<1>14. CASE ShutdownSeen
  BY <1>14 DEF ShutdownSeen, Selecting, MayLaunch, callerVars, loopVars, runVars, history
<1>15. CASE Drained
  BY <1>15 DEF Drained, loopVars, runVars, history
<1>16. CASE RunLock
  BY <1>16 DEF RunLock, callerVars, loopVars, schedVars, history
<1>17. CASE ReinjectEvent
  BY <1>17 DEF ReinjectEvent, Selecting, MayLaunch, callerVars, loopVars, history
<1>18. CASE ResetDone
  BY <1>18 DEF ResetDone, callerVars, loopVars, schedVars
<1>19. CASE RunPromotion
  BY <1>19 DEF RunPromotion, callerVars, loopVars, schedVars
<1>20. CASE RunSend
  BY <1>20 DEF RunSend, callerVars, loopVars, schedVars
<1>21. CASE RunDone
  BY <1>21 DEF RunDone, loopVars, history
<1>22. CASE SubscriberReads
  BY <1>22 DEF SubscriberReads, callerVars, loopVars, schedVars, runVars, history
<1>23. CASE UNCHANGED reorgVars
  BY <1>23 DEF reorgVars, callerVars, loopVars, schedVars, runVars, history
<1> QED
  BY <1>1, <1>2, <1>3, <1>4, <1>5, <1>6, <1>7, <1>8, <1>9, <1>10, <1>11, <1>12, <1>13,
     <1>14, <1>15, <1>16, <1>17, <1>18, <1>19, <1>20, <1>21, <1>22, <1>23
     DEF ReorgNext, CallerSteps, SchedSteps, RunSteps

\* A step keeps the requests a chain of heads.
LEMMA ChainedStep == ReorgTypeOK /\ RunTracked /\ Chained /\ [ReorgNext]_reorgVars => Chained'
<1> SUFFICES ASSUME ReorgTypeOK, RunTracked, Chained, [ReorgNext]_reorgVars PROVE Chained'
  OBVIOUS
<1> USE ReorgAssumption DEF ReorgTypeOK, RunTracked, Chained, ResetRequests, HeadsContiguous, RunHead, NextHead
<1>1. ASSUME NEW c \in Callers, AddReplacement(c) PROVE Chained'
  BY <1>1 DEF AddReplacement, loopVars, schedVars, runVars
<1>2. ASSUME NEW c \in Callers, AddQueued(c) PROVE Chained'
  BY <1>2 DEF AddQueued, loopVars, schedVars, runVars
<1>3. ASSUME NEW c \in Callers, QueueTxEvent(c) PROVE Chained'
  BY <1>3 DEF QueueTxEvent, Selecting, MayLaunch, loopVars, runVars
<1>4. ASSUME NEW c \in Callers, RequestPromote(c) PROVE Chained'
  BY <1>4 DEF RequestPromote, Selecting, MayLaunch, loopVars, runVars, history
<1>5. ASSUME NEW c \in Callers, ReplyPromote(c) PROVE Chained'
  BY <1>5 DEF ReplyPromote, loopVars, runVars, history
<1>6. ASSUME NEW c \in Callers, RequestRefused(c) PROVE Chained'
  BY <1>6 DEF RequestRefused, loopVars, schedVars, runVars, history
<1>7. ASSUME NEW c \in Callers, Return(c) PROVE Chained'
  BY <1>7 DEF Return, loopVars, schedVars, runVars, history
<1>8. ASSUME NEW h \in ChainHeads, ChainHeadEvent(h) PROVE Chained'
  BY <1>8 DEF ChainHeadEvent, callerVars, schedVars, runVars, history
<1>9. CASE RequestReset
  <2>1. loop # "reply" /\ NextHead(head)
    BY <1>9 DEF RequestReset
  <2>2. CASE reset = {}
    <3>1. reset' = {[old |-> head, new |-> event]}
      BY <1>9, <2>2 DEF RequestReset, Merged
    <3> QED
      BY <1>9, <2>1, <2>2, <3>1 DEF RequestReset, runVars
  <2>3. CASE reset # {}
    <3>1. PICK r \in reset : reset = {r}
      BY <2>3
    <3>2. reset' = {[r EXCEPT !.new = event]}
      BY <1>9, <2>3, <3>1 DEF RequestReset, Merged
    <3>3. [r EXCEPT !.new = event].old = r.old /\ [r EXCEPT !.new = event].new = event
      BY <3>1
    <3> QED
      BY <1>9, <2>1, <3>1, <3>2, <3>3 DEF RequestReset, runVars
  <2> QED
    BY <2>2, <2>3
<1>10. CASE ReplyReset
  BY <1>10 DEF ReplyReset, callerVars, runVars, history
<1>11. CASE Shutdown
  BY <1>11 DEF Shutdown, callerVars, schedVars, runVars, history
<1>12. CASE Launch
  BY <1>12 DEF Launch, MayLaunch, loopVars, history
<1>13. CASE NoticeDone
  BY <1>13 DEF NoticeDone, Selecting, MayLaunch, callerVars, loopVars, runVars, history
<1>14. CASE ShutdownSeen
  BY <1>14 DEF ShutdownSeen, Selecting, MayLaunch, callerVars, loopVars, runVars, history
<1>15. CASE Drained
  BY <1>15 DEF Drained, loopVars, runVars, history
<1>16. CASE RunLock
  BY <1>16 DEF RunLock, callerVars, loopVars, schedVars, history
<1>17. CASE ReinjectEvent
  BY <1>17 DEF ReinjectEvent, Selecting, MayLaunch, callerVars, loopVars, history
<1>18. CASE ResetDone
  BY <1>18 DEF ResetDone, callerVars, loopVars, schedVars
<1>19. CASE RunPromotion
  BY <1>19 DEF RunPromotion, callerVars, loopVars, schedVars
<1>20. CASE RunSend
  BY <1>20 DEF RunSend, callerVars, loopVars, schedVars
<1>21. CASE RunDone
  BY <1>21 DEF RunDone, loopVars, history
<1>22. CASE SubscriberReads
  BY <1>22 DEF SubscriberReads, callerVars, loopVars, schedVars, runVars, history
<1>23. CASE UNCHANGED reorgVars
  BY <1>23 DEF reorgVars, callerVars, loopVars, schedVars, runVars, history
<1> QED
  BY <1>1, <1>2, <1>3, <1>4, <1>5, <1>6, <1>7, <1>8, <1>9, <1>10, <1>11, <1>12, <1>13,
     <1>14, <1>15, <1>16, <1>17, <1>18, <1>19, <1>20, <1>21, <1>22, <1>23
     DEF ReorgNext, CallerSteps, SchedSteps, RunSteps

\* A step takes a transaction on its way or leaves it there.
LEMMA WayStep == ReorgTypeOK /\ RunTracked /\ AllOnTheirWay /\ [ReorgNext]_reorgVars => AllOnTheirWay'
<1> SUFFICES ASSUME ReorgTypeOK, RunTracked, AllOnTheirWay, [ReorgNext]_reorgVars PROVE AllOnTheirWay'
  OBVIOUS
<1> USE ReorgAssumption DEF ReorgTypeOK, RunTracked, AllOnTheirWay, OnItsWay, Early
<1>1. ASSUME NEW c \in Callers, AddReplacement(c) PROVE AllOnTheirWay'
  BY <1>1 DEF AddReplacement, loopVars, schedVars, runVars
<1>2. ASSUME NEW c \in Callers, AddQueued(c) PROVE AllOnTheirWay'
  BY <1>2 DEF AddQueued, loopVars, schedVars, runVars
<1>3. ASSUME NEW c \in Callers, QueueTxEvent(c) PROVE AllOnTheirWay'
  BY <1>3 DEF QueueTxEvent, Selecting, MayLaunch, loopVars, runVars
<1>4. ASSUME NEW c \in Callers, RequestPromote(c) PROVE AllOnTheirWay'
  BY <1>4 DEF RequestPromote, Selecting, MayLaunch, loopVars, runVars, history
<1>5. ASSUME NEW c \in Callers, ReplyPromote(c) PROVE AllOnTheirWay'
  BY <1>5 DEF ReplyPromote, loopVars, runVars, history
<1>6. ASSUME NEW c \in Callers, RequestRefused(c) PROVE AllOnTheirWay'
  BY <1>6 DEF RequestRefused, loopVars, schedVars, runVars, history
<1>7. ASSUME NEW c \in Callers, Return(c) PROVE AllOnTheirWay'
  BY <1>7 DEF Return, loopVars, schedVars, runVars, history
<1>8. ASSUME NEW h \in ChainHeads, ChainHeadEvent(h) PROVE AllOnTheirWay'
  BY <1>8 DEF ChainHeadEvent, callerVars, schedVars, runVars, history
<1>9. CASE RequestReset
  BY <1>9 DEF RequestReset, Selecting, MayLaunch, callerVars, runVars, history
<1>10. CASE ReplyReset
  BY <1>10 DEF ReplyReset, callerVars, runVars, history
<1>11. CASE Shutdown
  BY <1>11 DEF Shutdown, callerVars, schedVars, runVars, history
<1>12. CASE Launch
  BY <1>12 DEF Launch, MayLaunch, loopVars, history
<1>13. CASE NoticeDone
  BY <1>13 DEF NoticeDone, Selecting, MayLaunch, callerVars, loopVars, runVars, history
<1>14. CASE ShutdownSeen
  BY <1>14 DEF ShutdownSeen, Selecting, MayLaunch, callerVars, loopVars, runVars, history
<1>15. CASE Drained
  BY <1>15 DEF Drained, loopVars, runVars, history
<1>16. CASE RunLock
  BY <1>16 DEF RunLock, callerVars, loopVars, schedVars, history
<1>17. CASE ReinjectEvent
  BY <1>17 DEF ReinjectEvent, Selecting, MayLaunch, callerVars, loopVars, history
<1>18. CASE ResetDone
  BY <1>18 DEF ResetDone, callerVars, loopVars, schedVars
<1>19. CASE RunPromotion
  BY <1>19 DEF RunPromotion, callerVars, loopVars, schedVars
<1>20. CASE RunSend
  BY <1>20 DEF RunSend, callerVars, loopVars, schedVars
<1>21. CASE RunDone
  BY <1>21 DEF RunDone, loopVars, history
<1>22. CASE SubscriberReads
  BY <1>22 DEF SubscriberReads, callerVars, loopVars, schedVars, runVars, history
<1>23. CASE UNCHANGED reorgVars
  BY <1>23 DEF reorgVars, callerVars, loopVars, schedVars, runVars, history
<1> QED
  BY <1>1, <1>2, <1>3, <1>4, <1>5, <1>6, <1>7, <1>8, <1>9, <1>10, <1>11, <1>12, <1>13,
     <1>14, <1>15, <1>16, <1>17, <1>18, <1>19, <1>20, <1>21, <1>22, <1>23
     DEF ReorgNext, CallerSteps, SchedSteps, RunSteps

\* The invariant is inductive.
LEMMA ReorgInvStep == ReorgInv /\ [ReorgNext]_reorgVars => ReorgInv'
BY ReorgTypeStep, TrackedStep, WayStep, ChainedStep DEF ReorgInv

LEMMA ReorgInvariance == ReorgSpec => []ReorgInv
BY ReorgInitInv, ReorgInvStep, PTL DEF ReorgSpec
-----------------------------------------------------------------------------
\* Every variable keeps its type and pool.mu has the holder that the callers
\* and the run believe it has.
THEOREM ReorgWellTyped == ReorgSpec => []ReorgTypeOK
<1>1. ReorgInv => ReorgTypeOK
  BY DEF ReorgInv
<1> QED
  BY <1>1, ReorgInvariance, PTL

\* When a synchronous addTxs returns from a live pool, a run has visited its
\* account and sent its event: the transaction was on its way to the run whose
\* channel the caller waited on.
THEOREM ReorgSyncServed == ReorgSpec => []SyncServed
<1>1. ReorgInv => SyncServed
  BY DEF ReorgInv, AllOnTheirWay, OnItsWay, SyncServed
<1> QED
  BY <1>1, ReorgInvariance, PTL

\* A reset starts from the head of the reset before: the merged requests form a
\* chain from the pool's head to the loop's.
THEOREM ReorgHeadsContiguous == ReorgSpec => []HeadsContiguous
<1>1. ReorgInv => HeadsContiguous
  BY DEF ReorgInv, Chained
<1> QED
  BY <1>1, ReorgInvariance, PTL
=============================================================================
