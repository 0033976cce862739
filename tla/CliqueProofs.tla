----------------------------- MODULE CliqueProofs -----------------------------
(***************************************************************************)
(* For any accounts, any signers at first and any epoch: the snapshots of  *)
(* clique count the votes right, they implement the plain rule of          *)
(* CliqueVoting, some signer can always go on, the three places that       *)
(* decide who may sign agree, and a node that starts from a checkpoint     *)
(* agrees with one that has all blocks.                                    *)
(*                                                                         *)
(* apply changes a snapshot in steps (AtEpoch, Shift, the signature,       *)
(* Recast, Change), so the invariant is one of snapshots: Counted for the  *)
(* votes and Windowed for the recent signers, and each step has a lemma.   *)
(***************************************************************************)
EXTENDS CliqueSnapshot, TLAPS, FiniteSetTheorems

Tallies ==
  UNION {[D -> [authorize : BOOLEAN, votes : Nat \ {0}]] : D \in SUBSET Addresses}

Windows == UNION {[D -> Addresses] : D \in SUBSET (Nat \ {0})}

Snapshots ==
  [number : Nat, signers : SUBSET Addresses, recents : Windows,
   votes : SUBSET Votes, tally : Tallies]

\* The votes V on account a.
About(V, a) == {v \in V : v.address = a}

\* Tally T is what a count of the votes V gives.
Counts(V, T) ==
  /\ DOMAIN T = {v.address : v \in V}
  /\ \A a \in DOMAIN T : T[a].votes = Cardinality(About(V, a))
  /\ \A v \in V : v.authorize = T[v.address].authorize

\* The votes V are votes of signers S, for a change.
Standing(V, S) ==
  \A v \in V : v.signer \in S /\ v.authorize = (v.address \notin S)

Counted(s) == Counts(s.votes, s.tally) /\ Standing(s.votes, s.signers)

\* The window holds blocks that the next one may still conflict with.
Windowed(s) ==
  \A k \in DOMAIN s.recents : k <= s.number /\ k > s.number - Limit(s)

-----------------------------------------------------------------------------
(* Finite sets                                                             *)

\* There are finitely many votes.
LEMMA VotesFinite ==
  ASSUME NEW V, V \subseteq Votes
  PROVE  IsFiniteSet(V) /\ Cardinality(V) \in Nat
<1> DEFINE Triples == (Addresses \X Addresses) \X BOOLEAN
           g == [x \in Triples |-> [signer |-> x[1][1], address |-> x[1][2],
                                    authorize |-> x[2]]]
<1>1. IsFiniteSet(Addresses)
  BY CliqueAssumption
<1>2. IsFiniteSet(BOOLEAN)
  <2>1. BOOLEAN = {TRUE} \cup {FALSE}
    OBVIOUS
  <2>2. IsFiniteSet({TRUE}) /\ IsFiniteSet({FALSE})
    BY FS_Singleton
  <2>3. IsFiniteSet({TRUE} \cup {FALSE})
    BY <2>2, FS_Union
  <2> QED BY <2>1, <2>3
<1>3. IsFiniteSet(Triples)
  BY <1>1, <1>2, FS_Product
<1>4. Votes = {g[x] : x \in Triples}
  <2>1. ASSUME NEW v \in Votes PROVE v \in {g[x] : x \in Triples}
    <3>1. <<<<v.signer, v.address>>, v.authorize>> \in Triples
      BY DEF Votes
    <3>2. g[<<<<v.signer, v.address>>, v.authorize>>] = v
      BY <3>1 DEF Votes
    <3> QED BY <3>1, <3>2
  <2>2. ASSUME NEW x \in Triples PROVE g[x] \in Votes
    BY DEF Votes
  <2> QED BY <2>1, <2>2
<1>5. IsFiniteSet({g[x] : x \in Triples})
  <2> HIDE DEF Triples, g
  <2>1. g \in [Triples -> {g[x] : x \in Triples}]
    BY DEF g
  <2>2. g \in Surjection(Triples, {g[x] : x \in Triples})
    BY <2>1 DEF Surjection
  <2> QED BY <1>3, <2>2, FS_Surjection
<1> QED BY <1>4, <1>5, FS_Subset, FS_CardinalityType

\* There are finitely many signers.
LEMMA SignersFinite ==
  ASSUME NEW S, S \subseteq Addresses
  PROVE  IsFiniteSet(S) /\ Cardinality(S) \in Nat
BY CliqueAssumption, FS_Subset, FS_CardinalityType

-----------------------------------------------------------------------------
(* The tally                                                               *)

\* uncast takes votes off the count.
LEMMA UncastCounts ==
  ASSUME NEW V \in SUBSET Votes, NEW T \in Tallies, NEW G \in SUBSET V,
         Counts(V, T)
  PROVE  uncast(T, G) \in Tallies /\ Counts(V \ G, uncast(T, G))
<1> DEFINE left(a) == T[a].votes - Cardinality({v \in G : v.address = a
                                           /\ v.authorize = T[a].authorize})
           U == uncast(T, G)
<1>1. PICK D \in SUBSET Addresses :
        T \in [D -> [authorize : BOOLEAN, votes : Nat \ {0}]]
  BY DEF Tallies
<1>2. ASSUME NEW a \in D
      PROVE  /\ left(a) = Cardinality(About(V \ G, a)) /\ left(a) \in Nat
             /\ left(a) > 0 <=> a \in {v.address : v \in V \ G}
  <2>1. {v \in G : v.address = a /\ v.authorize = T[a].authorize} = About(G, a)
    BY <1>1 DEF Counts, About
  <2>2. About(V \ G, a) = About(V, a) \ About(G, a)
    BY DEF About
  <2>3. About(V, a) \cap About(G, a) = About(G, a)
    BY DEF About
  <2>4. IsFiniteSet(About(V, a)) /\ IsFiniteSet(About(V \ G, a))
    BY VotesFinite DEF About
  <2>5. Cardinality(About(V \ G, a))
          = Cardinality(About(V, a)) - Cardinality(About(G, a))
    <3>1. Cardinality(About(V, a) \ About(G, a)) = Cardinality(About(V, a))
            - Cardinality(About(V, a) \cap About(G, a))
      BY <2>4, FS_Difference
    <3> QED BY <3>1, <2>2, <2>3
  <2>6. left(a) = Cardinality(About(V \ G, a))
    BY <2>1, <2>5, <1>1 DEF Counts
  <2>7. Cardinality(About(V \ G, a)) \in Nat
    BY <2>4, FS_CardinalityType
  <2>8. Cardinality(About(V \ G, a)) = 0 <=> About(V \ G, a) = {}
    BY <2>4, FS_EmptySet
  <2>9. About(V \ G, a) # {} <=> a \in {v.address : v \in V \ G}
    BY DEF About
  <2>10. left(a) \in Nat /\ (left(a) > 0 <=> About(V \ G, a) # {})
    <3> HIDE DEF left
    <3> QED BY <2>6, <2>7, <2>8
  <2> QED BY <2>6, <2>9, <2>10
<1>3. U = [a \in {x \in D : left(x) > 0} |-> [T[a] EXCEPT !.votes = left(a)]]
  BY <1>1 DEF uncast
<1>4. DOMAIN U = {x \in D : left(x) > 0}
  BY <1>3
<1> HIDE DEF U
<1>5. ASSUME NEW a \in DOMAIN U
      PROVE  /\ U[a] \in [authorize : BOOLEAN, votes : Nat \ {0}]
             /\ U[a].votes = left(a) /\ U[a].authorize = T[a].authorize
  BY <1>1, <1>2, <1>3, <1>4
<1> HIDE DEF left
<1>6. U \in [{x \in D : left(x) > 0} -> [authorize : BOOLEAN, votes : Nat \ {0}]]
  BY <1>3, <1>4, <1>5
<1>7. U \in Tallies
  BY <1>6 DEF Tallies
<1>8. DOMAIN U = {v.address : v \in V \ G}
  BY <1>1, <1>2, <1>4 DEF Counts
<1>9. \A a \in DOMAIN U : U[a].votes = Cardinality(About(V \ G, a))
  BY <1>2, <1>4, <1>5
<1>10. \A v \in V \ G : v.authorize = U[v.address].authorize
  BY <1>5, <1>8 DEF Counts
<1> QED BY <1>7, <1>8, <1>9, <1>10 DEF Counts, U

\* cast adds a vote, if it agrees with the others on the account.
LEMMA CastCounts ==
  ASSUME NEW V \in SUBSET Votes, NEW T \in Tallies, NEW v \in Votes,
         Counts(V, T), v \notin V,
         \A w \in V : w.address = v.address => w.authorize = v.authorize
  PROVE  /\ cast(T, v.address, v.authorize) \in Tallies
         /\ Counts(V \cup {v}, cast(T, v.address, v.authorize))
<1> DEFINE b == v.address
           C == cast(T, v.address, v.authorize)
           W == V \cup {v}
<1>1. PICK D \in SUBSET Addresses :
        T \in [D -> [authorize : BOOLEAN, votes : Nat \ {0}]]
  BY DEF Tallies
<1>2. b \in Addresses /\ v.authorize \in BOOLEAN
  BY DEF Votes
<1>3. D = {w.address : w \in V}
  BY <1>1 DEF Counts
<1>4. ASSUME NEW a, a # b PROVE About(W, a) = About(V, a)
  BY <1>4 DEF About
<1>5. /\ About(W, b) = About(V, b) \cup {v} /\ v \notin About(V, b)
      /\ IsFiniteSet(About(V, b))
  BY VotesFinite DEF About
<1>6. Cardinality(About(W, b)) = Cardinality(About(V, b)) + 1
  BY <1>5, FS_AddElement
<1>7. {w.address : w \in W} = D \cup {b}
  BY <1>3
<1>8. CASE b \in D
  <2>1. C = [T EXCEPT ![b].votes = @ + 1]
    BY <1>8, <1>1 DEF cast
  <2>2. C \in [D -> [authorize : BOOLEAN, votes : Nat \ {0}]]
    BY <2>1, <1>1, <1>8
  <2>3. \A a \in D : /\ C[a].authorize = T[a].authorize
                     /\ C[a].votes = IF a = b THEN T[a].votes + 1 ELSE T[a].votes
    BY <2>1, <1>1, <1>8
  <2> HIDE DEF C
  <2>4. C \in Tallies
    BY <2>2 DEF Tallies
  <2>5. DOMAIN C = {w.address : w \in W}
    BY <1>7, <1>8, <2>2
  <2>6. \A a \in DOMAIN C : C[a].votes = Cardinality(About(W, a))
    BY <2>2, <2>3, <1>4, <1>6, <1>1 DEF Counts
  <2>7. T[b].authorize = v.authorize
    BY <1>3, <1>8 DEF Counts
  <2>8. \A w \in W : w.authorize = C[w.address].authorize
    BY <2>3, <2>7, <1>3, <1>8 DEF Counts
  <2> QED BY <2>4, <2>5, <2>6, <2>8 DEF Counts, C
<1>9. CASE b \notin D
  <2>1. C = [a \in D \cup {b} |->
               IF a = b THEN [authorize |-> v.authorize, votes |-> 1] ELSE T[a]]
    BY <1>9, <1>1 DEF cast
  <2>2. C \in [D \cup {b} -> [authorize : BOOLEAN, votes : Nat \ {0}]]
    BY <2>1, <1>1, <1>2
  <2>3. \A a \in D : C[a] = T[a]
    BY <2>1, <1>9
  <2>4. C[b].votes = 1 /\ C[b].authorize = v.authorize
    BY <2>1
  <2> HIDE DEF C
  <2>5. C \in Tallies
    BY <2>2, <1>1, <1>2 DEF Tallies
  <2>6. DOMAIN C = {w.address : w \in W}
    BY <1>7, <2>2
  <2>7. Cardinality(About(V, b)) = 0
    <3>1. About(V, b) = {}
      BY <1>3, <1>9 DEF About
    <3> QED BY <3>1, FS_EmptySet
  <2>8. \A a \in DOMAIN C : C[a].votes = Cardinality(About(W, a))
    <3>1. \A a \in D : a # b
      BY <1>9
    <3>2. \A a \in D : C[a].votes = Cardinality(About(W, a))
      BY <2>3, <3>1, <1>4, <1>1 DEF Counts
    <3>3. C[b].votes = Cardinality(About(W, b))
      BY <2>4, <2>7, <1>6
    <3>4. DOMAIN C = D \cup {b}
      BY <2>2
    <3> HIDE DEF b, W
    <3> QED BY <3>2, <3>3, <3>4
  <2>9. \A w \in W : w.authorize = C[w.address].authorize
    BY <2>3, <2>4, <1>3, <1>9 DEF Counts
  <2> QED BY <2>5, <2>6, <2>8, <2>9 DEF Counts, C
<1> QED BY <1>8, <1>9

\* A tally without account a counts the votes that are not on a.
LEMMA WithoutCounts ==
  ASSUME NEW V \in SUBSET Votes, NEW T \in Tallies, NEW a, Counts(V, T)
  PROVE  /\ Without(T, a) \in Tallies
         /\ Counts({v \in V : v.address # a}, Without(T, a))
<1> DEFINE W == {v \in V : v.address # a}
           U == Without(T, a)
<1>1. PICK D \in SUBSET Addresses :
        T \in [D -> [authorize : BOOLEAN, votes : Nat \ {0}]]
  BY DEF Tallies
<1>2. U \in [D \ {a} -> [authorize : BOOLEAN, votes : Nat \ {0}]]
      /\ \A b \in D \ {a} : U[b] = T[b]
  BY <1>1 DEF Without, Restrict
<1>3. U \in Tallies
  BY <1>2 DEF Tallies
<1>4. \A b : b # a => About(W, b) = About(V, b)
  BY DEF About
<1>5. D = {v.address : v \in V}
  BY <1>1 DEF Counts
<1>6. DOMAIN U = {v.address : v \in W}
  BY <1>2, <1>5
<1>7. \A b \in DOMAIN U : U[b].votes = Cardinality(About(W, b))
  BY <1>1, <1>2, <1>4 DEF Counts
<1>8. \A v \in W : v.authorize = U[v.address].authorize
  BY <1>2, <1>5 DEF Counts
<1> QED BY <1>3, <1>6, <1>7, <1>8 DEF Counts

-----------------------------------------------------------------------------
(* The steps of apply                                                      *)

\* The snapshot with the signature of header h, with its vote, and after the
\* change that the vote may have brought about.
Signed(s, h) ==
  LET n == s.number + 1
      shifted == Shift(AtEpoch(s, n), n)
  IN [shifted EXCEPT !.recents = [k \in DOMAIN @ \cup {n} |->
                                    IF k = n THEN h.signer ELSE @[k]]]

Voted(s, h) == Recast(Signed(s, h), h)

Changed(s, h) ==
  IF Passed(Voted(s, h), h.coinbase)
  THEN Change(Voted(s, h), s.number + 1, h.coinbase) ELSE Voted(s, h)

\* apply goes through these steps.
LEMMA ApplySteps ==
  ASSUME NEW s, NEW h
  PROVE  Apply(s, h) = [Changed(s, h) EXCEPT !.number = s.number + 1]
BY DEF Apply, Changed, Voted, Signed

\* What a header may be.
LEMMA HeaderType ==
  ASSUME NEW n, NEW h \in Headers(n)
  PROVE  /\ h.signer \in Addresses /\ h.authorize \in BOOLEAN
         /\ \/ h.coinbase \in Addresses
            \/ h.coinbase = Zero /\ h.coinbase \notin Addresses /\ ~h.authorize
BY CliqueAssumption DEF Headers

\* A limit is a positive number.
LEMMA LimitType ==
  ASSUME NEW s, s.signers \subseteq Addresses
  PROVE  /\ Limit(s) \in Nat \ {0}
         /\ Limit(s) = Cardinality(s.signers) \div 2 + 1
BY SignersFinite DEF Limit

\* Shift takes at most one block out of the window.
LEMMA ShiftFields ==
  ASSUME NEW s \in Snapshots, NEW n \in Nat
  PROVE  LET t == Shift(s, n) IN
         /\ t \in Snapshots
         /\ t.number = s.number /\ t.signers = s.signers
         /\ t.votes = s.votes /\ t.tally = s.tally
         /\ DOMAIN t.recents = DOMAIN s.recents \ {n - Limit(s)}
         /\ \A k \in DOMAIN t.recents : t.recents[k] = s.recents[k]
<1>1. PICK D \in SUBSET (Nat \ {0}) : s.recents \in [D -> Addresses]
  BY DEF Snapshots, Windows
<1>2. Limit(s) \in Nat \ {0}
  BY LimitType DEF Snapshots
<1>3. CASE n >= Limit(s)
  <2> DEFINE w == Without(s.recents, n - Limit(s))
  <2>1. /\ w \in [D \ {n - Limit(s)} -> Addresses]
        /\ \A k \in D \ {n - Limit(s)} : w[k] = s.recents[k]
    BY <1>1 DEF Without, Restrict
  <2>2. w \in Windows
    BY <2>1 DEF Windows
  <2>3. Shift(s, n) = [s EXCEPT !.recents = w]
    BY <1>3 DEF Shift
  <2> HIDE DEF w
  <2> QED BY <2>1, <2>2, <2>3, <1>1 DEF Snapshots
<1>4. CASE ~(n >= Limit(s))
  <2>1. Shift(s, n) = s
    BY <1>4 DEF Shift
  <2>2. n - Limit(s) \notin DOMAIN s.recents
    BY <1>1, <1>2, <1>4
  <2> QED BY <2>1, <2>2
<1> QED BY <1>3, <1>4

\* The signature: the window moves by one block, and a checkpoint drops the
\* votes.
LEMMA SignedFields ==
  ASSUME NEW s \in Snapshots, Counted(s), NEW h \in Headers(s.number + 1)
  PROVE  LET t == Signed(s, h)
             n == s.number + 1
         IN
         /\ t \in Snapshots /\ Counted(t)
         /\ t.number = s.number /\ t.signers = s.signers
         /\ t.votes = IF n % Epoch = 0 THEN {} ELSE s.votes
         /\ t.tally = IF n % Epoch = 0 THEN <<>> ELSE s.tally
         /\ DOMAIN t.recents = (DOMAIN s.recents \ {n - Limit(s)}) \cup {n}
         /\ \A k \in DOMAIN t.recents :
              t.recents[k] = IF k = n THEN h.signer ELSE s.recents[k]
<1> DEFINE n == s.number + 1
           e == AtEpoch(s, n)
           w == Shift(e, n)
           r == [k \in DOMAIN w.recents \cup {n} |->
                   IF k = n THEN h.signer ELSE w.recents[k]]
<1>1. s.number \in Nat /\ n \in Nat \ {0}
  BY DEF Snapshots
<1>2. <<>> \in Tallies /\ Counts({}, <<>>)
  <2>1. <<>> \in [{} -> [authorize : BOOLEAN, votes : Nat \ {0}]]
    OBVIOUS
  <2>2. <<>> \in Tallies
    BY <2>1 DEF Tallies
  <2> QED BY <2>1, <2>2 DEF Counts
<1>3. /\ e \in Snapshots /\ Counted(e)
      /\ e.number = s.number /\ e.signers = s.signers /\ e.recents = s.recents
      /\ e.votes = IF n % Epoch = 0 THEN {} ELSE s.votes
      /\ e.tally = IF n % Epoch = 0 THEN <<>> ELSE s.tally
  <2>1. CASE n % Epoch = 0
    <3>1. e = [s EXCEPT !.votes = {}, !.tally = <<>>]
      BY <2>1 DEF AtEpoch
    <3> HIDE DEF e
    <3>2. e \in Snapshots /\ e.votes = {} /\ e.tally = <<>>
          /\ e.number = s.number /\ e.signers = s.signers /\ e.recents = s.recents
      BY <3>1, <1>2 DEF Snapshots
    <3> QED BY <2>1, <3>2, <1>2 DEF Counted, Standing
  <2>2. CASE n % Epoch # 0
    <3>1. e = s
      BY <2>2 DEF AtEpoch
    <3> HIDE DEF e
    <3> QED BY <2>2, <3>1
  <2> QED BY <2>1, <2>2
<1> HIDE DEF e
<1>4. Limit(e) = Limit(s)
  BY <1>3 DEF Limit
<1>5. /\ w \in Snapshots
      /\ w.number = s.number /\ w.signers = s.signers
      /\ w.votes = e.votes /\ w.tally = e.tally
      /\ DOMAIN w.recents = DOMAIN s.recents \ {n - Limit(s)}
      /\ \A k \in DOMAIN w.recents : w.recents[k] = s.recents[k]
  <2>1. /\ w \in Snapshots
        /\ w.number = e.number /\ w.signers = e.signers
        /\ w.votes = e.votes /\ w.tally = e.tally
        /\ DOMAIN w.recents = DOMAIN e.recents \ {n - Limit(e)}
        /\ \A k \in DOMAIN w.recents : w.recents[k] = e.recents[k]
    BY <1>1, <1>3, ShiftFields
  <2> HIDE DEF w, n
  <2> QED BY <2>1, <1>3, <1>4
<1> HIDE DEF w
<1>6. PICK D \in SUBSET (Nat \ {0}) : w.recents \in [D -> Addresses]
  BY <1>5 DEF Snapshots, Windows
<1>7. h.signer \in Addresses
  BY HeaderType
<1>8. /\ r \in [D \cup {n} -> Addresses]
      /\ \A k \in D \cup {n} : r[k] = IF k = n THEN h.signer ELSE w.recents[k]
  BY <1>6, <1>7
<1>9. r \in Windows
  BY <1>8, <1>1 DEF Windows
<1>10. Signed(s, h) = [w EXCEPT !.recents = r]
  BY DEF Signed, w, e
<1> HIDE DEF r
<1>11. /\ Signed(s, h) \in Snapshots
       /\ Signed(s, h).number = w.number /\ Signed(s, h).signers = w.signers
       /\ Signed(s, h).votes = w.votes /\ Signed(s, h).tally = w.tally
       /\ Signed(s, h).recents = r
  BY <1>5, <1>9, <1>10 DEF Snapshots
<1>12. DOMAIN r = (DOMAIN s.recents \ {n - Limit(s)}) \cup {n}
  BY <1>5, <1>6, <1>8
<1>13. \A k \in DOMAIN r : r[k] = IF k = n THEN h.signer ELSE s.recents[k]
  BY <1>5, <1>6, <1>8
<1>14. Counted(Signed(s, h))
  BY <1>3, <1>5, <1>11 DEF Counted
<1> QED BY <1>3, <1>5, <1>11, <1>12, <1>13, <1>14

\* The votes after header h, of the votes V before it, among signers S.
CastVotes(V, S, h) ==
  LET old == {v \in V : v.signer = h.signer /\ v.address = h.coinbase}
  IN IF h.authorize = (h.coinbase \notin S)
     THEN (V \ old) \cup {[signer |-> h.signer, address |-> h.coinbase,
                           authorize |-> h.authorize]}
     ELSE V \ old

\* A vote is counted, in the place of the signer's earlier one.
LEMMA RecastFields ==
  ASSUME NEW s \in Snapshots, Counted(s), NEW n, NEW h \in Headers(n),
         h.signer \in s.signers
  PROVE  LET t == Recast(s, h) IN
         /\ t \in Snapshots /\ Counted(t)
         /\ t.number = s.number /\ t.signers = s.signers
         /\ t.recents = s.recents
         /\ t.votes = CastVotes(s.votes, s.signers, h)
<1> DEFINE old == {v \in s.votes : v.signer = h.signer /\ v.address = h.coinbase}
           U == uncast(s.tally, old)
           vote == [signer |-> h.signer, address |-> h.coinbase,
                    authorize |-> h.authorize]
           V == s.votes \ old
<1>1. s.votes \in SUBSET Votes /\ s.tally \in Tallies /\ V \in SUBSET Votes
      /\ s.signers \in SUBSET Addresses
  BY DEF Snapshots
<1>2. U \in Tallies /\ Counts(V, U)
  BY <1>1, UncastCounts DEF Counted
<1>3. Standing(V, s.signers)
  BY DEF Counted, Standing
<1> HIDE DEF U
<1>4. CASE h.authorize = (h.coinbase \notin s.signers)
  <2> DEFINE C == cast(U, h.coinbase, h.authorize)
  <2>1. vote \in Votes
    <3>1. h.coinbase \in Addresses
      BY <1>4, <1>1, HeaderType
    <3> QED BY <3>1, HeaderType DEF Votes
  <2>2. vote \notin V
    OBVIOUS
  <2>3. \A w \in V : w.address = vote.address => w.authorize = vote.authorize
    BY <1>3, <1>4 DEF Standing
  <2>4. vote.address = h.coinbase /\ vote.authorize = h.authorize
        /\ vote.signer = h.signer
    OBVIOUS
  <2> HIDE DEF V, vote
  <2>5. C \in Tallies /\ Counts(V \cup {vote}, C)
    BY <1>1, <1>2, <2>1, <2>2, <2>3, <2>4, CastCounts
  <2>6. Recast(s, h) = [s EXCEPT !.votes = V \cup {vote}, !.tally = C]
    BY <1>4 DEF Recast, validVote, V, vote, U
  <2>7. CastVotes(s.votes, s.signers, h) = V \cup {vote}
    BY <1>4 DEF CastVotes, V, vote
  <2>8. Standing(V \cup {vote}, s.signers)
    BY <1>3, <1>4, <2>4 DEF Standing
  <2> HIDE DEF C
  <2>9. /\ Recast(s, h) \in Snapshots
        /\ Recast(s, h).number = s.number /\ Recast(s, h).signers = s.signers
        /\ Recast(s, h).recents = s.recents
        /\ Recast(s, h).votes = V \cup {vote} /\ Recast(s, h).tally = C
    BY <2>1, <2>5, <2>6, <1>1 DEF Snapshots
  <2> QED BY <2>5, <2>7, <2>8, <2>9 DEF Counted
<1>5. CASE h.authorize # (h.coinbase \notin s.signers)
  <2> HIDE DEF V
  <2>1. Recast(s, h) = [s EXCEPT !.votes = V, !.tally = U]
    BY <1>5 DEF Recast, validVote, V, U
  <2>2. CastVotes(s.votes, s.signers, h) = V
    BY <1>5 DEF CastVotes, V
  <2>3. /\ Recast(s, h) \in Snapshots
        /\ Recast(s, h).number = s.number /\ Recast(s, h).signers = s.signers
        /\ Recast(s, h).recents = s.recents
        /\ Recast(s, h).votes = V /\ Recast(s, h).tally = U
    BY <2>1, <1>1, <1>2 DEF Snapshots
  <2> QED BY <2>2, <2>3, <1>2, <1>3 DEF Counted
<1> QED BY <1>4, <1>5

\* Account a joins the signers, or leaves them.
Flip(S, a) == IF a \in S THEN S \ {a} ELSE S \cup {a}

\* A change: the votes on the account and those of a signer who was dropped go,
\* and a smaller limit takes one more block out of the window.
LEMMA ChangeFields ==
  ASSUME NEW s \in Snapshots, Counted(s), NEW n \in Nat, NEW a \in DOMAIN s.tally
  PROVE  LET t == Change(s, n, a) IN
         /\ t \in Snapshots /\ Counted(t)
         /\ t.number = s.number /\ t.signers = Flip(s.signers, a)
         /\ t.votes = {v \in s.votes : v.address # a /\ v.signer \in t.signers}
         /\ DOMAIN t.recents = DOMAIN s.recents
              \ (IF a \in s.signers THEN {n - Limit(t)} ELSE {})
         /\ \A k \in DOMAIN t.recents : t.recents[k] = s.recents[k]
<1> DEFINE S == Flip(s.signers, a)
           c == [s EXCEPT !.signers = S]
           gone == IF a \in s.signers THEN {v \in s.votes : v.signer = a} ELSE {}
           V == {v \in s.votes \ gone : v.address # a}
           U == uncast(s.tally, gone)
           T == Without(U, a)
           R == IF a \in s.signers THEN Shift(c, n).recents ELSE s.recents
<1>1. s.votes \in SUBSET Votes /\ s.tally \in Tallies /\ s.recents \in Windows
      /\ s.signers \in SUBSET Addresses
  BY DEF Snapshots
<1>2. a \in Addresses /\ s.tally[a].authorize = (a \notin s.signers)
  <2>1. PICK v \in s.votes : v.address = a
    BY DEF Counted, Counts
  <2>2. v.authorize = s.tally[a].authorize /\ v.authorize = (a \notin s.signers)
    BY <2>1 DEF Counted, Counts, Standing
  <2>3. a \in Addresses
    BY <2>1, <1>1 DEF Votes
  <2> QED BY <2>2, <2>3
<1>3. S = IF s.tally[a].authorize THEN s.signers \cup {a} ELSE s.signers \ {a}
  BY <1>2 DEF Flip
<1>4. gone = IF s.tally[a].authorize THEN {} ELSE {v \in s.votes : v.signer = a}
  BY <1>2
<1>5. R = IF s.tally[a].authorize THEN s.recents ELSE Shift(c, n).recents
  BY <1>2
<1>6. S \in SUBSET Addresses
  BY <1>1, <1>2 DEF Flip
<1>7. gone \in SUBSET s.votes /\ s.votes \ gone \in SUBSET Votes
  BY <1>1
<1> HIDE DEF gone, S
<1>8. U \in Tallies /\ Counts(s.votes \ gone, U)
  BY <1>1, <1>7, UncastCounts DEF Counted
<1> HIDE DEF U
<1>9. T \in Tallies /\ Counts(V, T)
  BY <1>7, <1>8, WithoutCounts
<1>10. V = {v \in s.votes : v.address # a /\ v.signer \in S}
  BY DEF gone, S, Flip, Counted, Standing
<1>11. Standing(V, S)
  <2>1. \A v \in V : v.authorize = (v.address \notin s.signers)
    BY DEF Counted, Standing
  <2>2. \A v \in V : v.address \in s.signers <=> v.address \in S
    BY DEF S, Flip
  <2> QED BY <2>1, <2>2, <1>10 DEF Standing
<1>12. c \in Snapshots /\ c.signers = S /\ c.number = s.number
       /\ c.recents = s.recents
  BY <1>6 DEF Snapshots
<1> HIDE DEF c
<1>13. Change(s, n, a) = [c EXCEPT !.recents = R, !.votes = V, !.tally = T]
  BY <1>3, <1>4, <1>5, <1>12 DEF Change, c, T, U, V
<1>14. /\ R \in Windows
       /\ DOMAIN R = DOMAIN s.recents
                       \ (IF a \in s.signers THEN {n - Limit(c)} ELSE {})
       /\ \A k \in DOMAIN R : R[k] = s.recents[k]
  <2>1. CASE a \in s.signers
    <3>1. Shift(c, n) \in Snapshots
          /\ DOMAIN Shift(c, n).recents = DOMAIN c.recents \ {n - Limit(c)}
          /\ \A k \in DOMAIN Shift(c, n).recents :
               Shift(c, n).recents[k] = c.recents[k]
      BY <1>12, ShiftFields
    <3> QED BY <3>1, <2>1, <1>12 DEF Snapshots
  <2>2. CASE a \notin s.signers
    BY <2>2, <1>1
  <2> QED BY <2>1, <2>2
<1>15. V \in SUBSET Votes
  BY <1>1
<1> HIDE DEF R, V, T
<1>16. /\ Change(s, n, a) \in Snapshots
       /\ Change(s, n, a).number = s.number /\ Change(s, n, a).signers = S
       /\ Change(s, n, a).votes = V /\ Change(s, n, a).tally = T
       /\ Change(s, n, a).recents = R
  BY <1>9, <1>12, <1>13, <1>14, <1>15 DEF Snapshots
<1>17. Limit(Change(s, n, a)) = Limit(c)
  BY <1>12, <1>16 DEF Limit
<1>18. Counted(Change(s, n, a))
  BY <1>9, <1>11, <1>16 DEF Counted
<1>19. S = Flip(s.signers, a)
  BY DEF S
<1> QED BY <1>10, <1>14, <1>16, <1>17, <1>18, <1>19

\* The votes V on account a are those of more than half of the signers S.
Majority(V, S, a) == 2 * Cardinality(About(V, a)) > Cardinality(S)

\* The test on the tally is one on the votes.
LEMMA PassedMajority ==
  ASSUME NEW s \in Snapshots, Counted(s), NEW a
  PROVE  Passed(s, a) <=> Majority(s.votes, s.signers, a)
<1>1. s.votes \subseteq Votes /\ s.signers \subseteq Addresses
  BY DEF Snapshots
<1>2. Cardinality(s.signers) \in Nat
  BY <1>1, SignersFinite
<1>3. IsFiniteSet(About(s.votes, a)) /\ Cardinality(About(s.votes, a)) \in Nat
  BY <1>1, VotesFinite DEF About
<1>4. CASE a \in DOMAIN s.tally
  <2>1. s.tally[a].votes = Cardinality(About(s.votes, a))
    BY <1>4 DEF Counted, Counts
  <2> QED BY <2>1, <1>2, <1>3, <1>4 DEF Passed, Majority
<1>5. CASE a \notin DOMAIN s.tally
  <2>1. About(s.votes, a) = {}
    BY <1>5 DEF Counted, Counts, About
  <2>2. Cardinality(About(s.votes, a)) = 0
    BY <2>1, FS_EmptySet
  <2> QED BY <2>2, <1>2, <1>5 DEF Passed, Majority
<1> QED BY <1>4, <1>5

\* What a header makes of the votes and the signers, without a look at the
\* tally.
NewVotes(s, h) ==
  CastVotes(IF (s.number + 1) % Epoch = 0 THEN {} ELSE s.votes, s.signers, h)

NewSigners(s, h) ==
  IF Majority(NewVotes(s, h), s.signers, h.coinbase)
  THEN Flip(s.signers, h.coinbase) ELSE s.signers

\* All that apply does.
LEMMA ApplyFields ==
  ASSUME NEW s \in Snapshots, Counted(s), NEW h \in Headers(s.number + 1),
         h.signer \in s.signers
  PROVE  LET t == Apply(s, h)
             n == s.number + 1
             passed == Majority(NewVotes(s, h), s.signers, h.coinbase)
         IN
         /\ t \in Snapshots /\ Counted(t)
         /\ t.number = n /\ t.signers = NewSigners(s, h)
         /\ t.votes = IF passed
                      THEN {v \in NewVotes(s, h) :
                              v.address # h.coinbase /\ v.signer \in t.signers}
                      ELSE NewVotes(s, h)
         /\ DOMAIN t.recents = ((DOMAIN s.recents \ {n - Limit(s)}) \cup {n})
              \ (IF passed /\ h.coinbase \in s.signers THEN {n - Limit(t)} ELSE {})
         /\ \A k \in DOMAIN t.recents :
              t.recents[k] = IF k = n THEN h.signer ELSE s.recents[k]
<1> DEFINE n == s.number + 1
           g == Signed(s, h)
           u == Voted(s, h)
           c == Changed(s, h)
           passed == Majority(NewVotes(s, h), s.signers, h.coinbase)
<1>1. n \in Nat /\ s.number \in Nat
  BY DEF Snapshots
<1>2. /\ g \in Snapshots /\ Counted(g)
      /\ g.number = s.number /\ g.signers = s.signers
      /\ g.votes = IF n % Epoch = 0 THEN {} ELSE s.votes
      /\ DOMAIN g.recents = (DOMAIN s.recents \ {n - Limit(s)}) \cup {n}
      /\ \A k \in DOMAIN g.recents :
           g.recents[k] = IF k = n THEN h.signer ELSE s.recents[k]
  BY SignedFields
<1>3. u = Recast(g, h)
  BY DEF Voted
<1> HIDE DEF g, u
<1>4. /\ u \in Snapshots /\ Counted(u)
      /\ u.number = s.number /\ u.signers = s.signers /\ u.recents = g.recents
      /\ u.votes = CastVotes(g.votes, g.signers, h)
  BY <1>2, <1>3, RecastFields
<1>5. u.votes = NewVotes(s, h)
  BY <1>2, <1>4 DEF NewVotes
<1>6. Passed(u, h.coinbase) <=> passed
  BY <1>4, <1>5, PassedMajority
<1>7. c = IF passed THEN Change(u, n, h.coinbase) ELSE u
  BY <1>6 DEF Changed, u
<1>8. /\ c \in Snapshots /\ Counted(c) /\ c.signers = NewSigners(s, h)
      /\ c.votes = IF passed
                   THEN {v \in NewVotes(s, h) :
                           v.address # h.coinbase /\ v.signer \in c.signers}
                   ELSE NewVotes(s, h)
      /\ DOMAIN c.recents = DOMAIN g.recents
           \ (IF passed /\ h.coinbase \in s.signers THEN {n - Limit(c)} ELSE {})
      /\ \A k \in DOMAIN c.recents : c.recents[k] = g.recents[k]
  <2>1. CASE passed
    <3>1. h.coinbase \in DOMAIN u.tally
      BY <1>6, <2>1 DEF Passed
    <3>2. c = Change(u, n, h.coinbase)
      BY <1>7, <2>1
    <3>3. /\ c \in Snapshots /\ Counted(c) /\ c.signers = Flip(u.signers, h.coinbase)
          /\ c.votes = {v \in u.votes : v.address # h.coinbase /\ v.signer \in c.signers}
          /\ DOMAIN c.recents = DOMAIN u.recents
               \ (IF h.coinbase \in u.signers THEN {n - Limit(c)} ELSE {})
          /\ \A k \in DOMAIN c.recents : c.recents[k] = u.recents[k]
      <4> HIDE DEF c
      <4> QED BY <3>1, <3>2, <1>1, <1>4, ChangeFields
    <3> HIDE DEF c, n
    <3> QED BY <3>3, <2>1, <1>4, <1>5 DEF NewSigners
  <2>2. CASE ~passed
    <3>1. c = u
      BY <1>7, <2>2
    <3> HIDE DEF c, n
    <3> QED BY <3>1, <2>2, <1>4, <1>5 DEF NewSigners
  <2> QED BY <2>1, <2>2
<1>9. Apply(s, h) = [c EXCEPT !.number = n]
  BY ApplySteps
<1> HIDE DEF c
<1>10. /\ Apply(s, h) \in Snapshots /\ Apply(s, h).number = n
       /\ Apply(s, h).signers = c.signers /\ Apply(s, h).votes = c.votes
       /\ Apply(s, h).tally = c.tally /\ Apply(s, h).recents = c.recents
  BY <1>1, <1>8, <1>9 DEF Snapshots
<1>11. Limit(Apply(s, h)) = Limit(c) /\ Counted(Apply(s, h))
  BY <1>8, <1>10 DEF Limit, Counted
<1> HIDE DEF n, passed
<1>12. /\ DOMAIN Apply(s, h).recents = ((DOMAIN s.recents \ {n - Limit(s)}) \cup {n})
           \ (IF passed /\ h.coinbase \in s.signers
              THEN {n - Limit(Apply(s, h))} ELSE {})
       /\ \A k \in DOMAIN Apply(s, h).recents :
            Apply(s, h).recents[k] = IF k = n THEN h.signer ELSE s.recents[k]
  BY <1>2, <1>8, <1>10, <1>11
<1> QED BY <1>8, <1>10, <1>11, <1>12 DEF n, passed

-----------------------------------------------------------------------------
(* The window of recent signers                                            *)

\* apply keeps the window as wide as the limit, also when a change makes the
\* limit smaller.
LEMMA ApplyWindowed ==
  ASSUME NEW s \in Snapshots, Counted(s), Windowed(s),
         NEW h \in Headers(s.number + 1), h.signer \in s.signers
  PROVE  Windowed(Apply(s, h))
<1> DEFINE t == Apply(s, h)
           n == s.number + 1
           passed == Majority(NewVotes(s, h), s.signers, h.coinbase)
<1>1. /\ t \in Snapshots /\ t.number = n /\ t.signers = NewSigners(s, h)
      /\ DOMAIN t.recents = ((DOMAIN s.recents \ {n - Limit(s)}) \cup {n})
           \ (IF passed /\ h.coinbase \in s.signers THEN {n - Limit(t)} ELSE {})
  BY ApplyFields
<1>2. s.number \in Nat /\ s.signers \subseteq Addresses
      /\ t.signers \subseteq Addresses
  BY <1>1 DEF Snapshots
<1>3. Limit(s) \in Nat \ {0} /\ Limit(t) \in Nat \ {0}
  BY <1>2, LimitType
<1>4. DOMAIN s.recents \subseteq Nat
  BY DEF Snapshots, Windows
<1>5. \A k \in DOMAIN s.recents : k <= s.number /\ k > s.number - Limit(s)
  BY DEF Windowed
<1>6. \/ Limit(t) >= Limit(s)
      \/ passed /\ h.coinbase \in s.signers /\ Limit(t) = Limit(s) - 1
  <2>1. /\ Limit(s) = Cardinality(s.signers) \div 2 + 1
        /\ Limit(t) = Cardinality(t.signers) \div 2 + 1
    BY <1>2, LimitType
  <2>2. IsFiniteSet(s.signers) /\ Cardinality(s.signers) \in Nat
    BY <1>2, SignersFinite
  <2>3. CASE ~passed
    <3>1. t.signers = s.signers
      BY <1>1, <2>3 DEF NewSigners
    <3> QED BY <3>1, <2>1, <2>2
  <2>4. CASE passed /\ h.coinbase \in s.signers
    <3>1. t.signers = s.signers \ {h.coinbase}
      BY <1>1, <2>4 DEF NewSigners, Flip
    <3>2. Cardinality(t.signers) = Cardinality(s.signers) - 1
      BY <3>1, <2>2, <2>4, FS_RemoveElement
    <3>3. Limit(t) = Limit(s) \/ Limit(t) = Limit(s) - 1
      <4> HIDE DEF t
      <4> QED BY <3>2, <2>1, <2>2
    <3> QED BY <3>3, <2>4, <1>3
  <2>5. CASE passed /\ h.coinbase \notin s.signers
    <3>1. t.signers = s.signers \cup {h.coinbase}
      BY <1>1, <2>5 DEF NewSigners, Flip
    <3>2. Cardinality(s.signers \cup {h.coinbase}) = Cardinality(s.signers) + 1
      <4>1. \A S, x : IsFiniteSet(S) /\ x \notin S =>
              Cardinality(S \cup {x}) = Cardinality(S) + 1
        BY FS_AddElement
      <4> QED BY <4>1, <2>2, <2>5
    <3>3. Cardinality(t.signers) = Cardinality(s.signers) + 1
      BY <3>1, <3>2
    <3> HIDE DEF t
    <3> QED BY <3>3, <2>1, <2>2
  <2> QED BY <2>3, <2>4, <2>5
<1>7. ASSUME NEW k \in DOMAIN t.recents PROVE k <= t.number /\ k > t.number - Limit(t)
  <2> HIDE DEF t, passed
  <2>1. k = n \/ (k \in DOMAIN s.recents /\ k # n - Limit(s))
    BY <1>1, <1>7
  <2>2. k <= n /\ k > n - Limit(s) /\ k \in Nat
    BY <2>1, <1>2, <1>3, <1>4, <1>5
  <2>3. CASE Limit(t) >= Limit(s)
    BY <2>2, <2>3, <1>1, <1>2, <1>3
  <2>4. CASE passed /\ h.coinbase \in s.signers /\ Limit(t) = Limit(s) - 1
    <3>1. k # n - Limit(t)
      BY <1>1, <1>7, <2>4
    <3> QED BY <2>2, <2>4, <3>1, <1>1, <1>2, <1>3
  <2> QED BY <1>6, <2>3, <2>4
<1> QED BY <1>7 DEF Windowed

\* After the shift for the next block, fewer blocks than half of the signers
\* are left in the window, so somebody may sign.
LEMMA SomeoneApplies ==
  ASSUME NEW s \in Snapshots, Windowed(s), s.signers # {}
  PROVE  \E a \in s.signers : Applies(s, a)
<1> DEFINE n == s.number + 1
           r == Shift(s, n).recents
           D == DOMAIN r
           I == {r[k] : k \in D}
<1>1. s.number \in Nat /\ s.signers \subseteq Addresses /\ n \in Nat
  BY DEF Snapshots
<1>2. /\ IsFiniteSet(s.signers) /\ Cardinality(s.signers) \in Nat
      /\ Cardinality(s.signers) # 0
  BY <1>1, SignersFinite, FS_EmptySet
<1>3. /\ Limit(s) \in Nat \ {0}
      /\ Limit(s) = Cardinality(s.signers) \div 2 + 1
  BY <1>1, LimitType
<1>4. D = DOMAIN s.recents \ {n - Limit(s)} /\ r \in Windows
  BY <1>1, ShiftFields DEF Snapshots
<1>5. DOMAIN s.recents \subseteq Nat
  BY DEF Snapshots, Windows
<1>6. D \subseteq n - Limit(s) + 1 .. s.number
  <2>1. ASSUME NEW k \in D PROVE k \in n - Limit(s) + 1 .. s.number
    <3>1. k \in Nat /\ k <= s.number /\ k > s.number - Limit(s) /\ k # n - Limit(s)
      BY <1>4, <1>5 DEF Windowed
    <3> QED BY <3>1, <1>1, <1>3
  <2> QED BY <2>1
<1>7. IsFiniteSet(D) /\ Cardinality(D) <= Limit(s) - 1
  <2> DEFINE lo == n - Limit(s) + 1
             W == lo .. s.number
  <2>1. lo \in Int /\ s.number \in Int
    BY <1>1, <1>3
  <2>2. /\ IsFiniteSet(W)
        /\ Cardinality(W) = IF lo > s.number THEN 0 ELSE s.number - lo + 1
    BY <2>1, FS_Interval
  <2>3. Cardinality(W) = Limit(s) - 1
    <3> HIDE DEF W
    <3> QED BY <2>2, <1>1, <1>3
  <2>4. IsFiniteSet(D) /\ Cardinality(D) <= Cardinality(W)
    BY <2>2, <1>6, FS_Subset
  <2> QED BY <2>3, <2>4
<1> HIDE DEF D
<1>8. IsFiniteSet(I) /\ Cardinality(I) <= Cardinality(D)
  <2>1. r \in [D -> I]
    BY <1>4 DEF D, Windows
  <2>2. \A y \in I : \E x \in D : r[x] = y
    OBVIOUS
  <2>3. r \in Surjection(D, I)
    BY <2>1, <2>2 DEF Surjection
  <2> HIDE DEF I
  <2> QED BY <2>3, <1>7, FS_Surjection
<1>9. Cardinality(I) \in Nat /\ Cardinality(D) \in Nat
  BY <1>7, <1>8, FS_CardinalityType
<1>10. ~(s.signers \subseteq I)
  <2>1. SUFFICES ASSUME s.signers \subseteq I PROVE FALSE
    OBVIOUS
  <2> HIDE DEF I
  <2>2. Cardinality(s.signers) <= Cardinality(I)
    BY <2>1, <1>8, FS_Subset
  <2> QED BY <2>2, <1>2, <1>3, <1>7, <1>8, <1>9
<1>11. PICK a \in s.signers : a \notin I
  BY <1>10
<1>12. Applies(s, a)
  BY <1>11 DEF Applies, D
<1> QED BY <1>12

\* The oldest block of the window is all that Seal, verifySeal and apply could
\* take differently, and they do not.
LEMMA SameRules ==
  ASSUME NEW s \in Snapshots, Windowed(s), NEW a
  PROVE  /\ Seals(s, a) <=> Applies(s, a)
         /\ Applies(s, a) => verifySeal(s, a)
         /\ s.number + 1 >= Limit(s) /\ verifySeal(s, a) => Applies(s, a)
<1> DEFINE n == s.number + 1
           w == Shift(s, n)
<1>1. s.number \in Nat /\ n \in Nat
  BY DEF Snapshots
<1>2. Limit(s) \in Nat \ {0}
  BY LimitType DEF Snapshots
<1>3. /\ DOMAIN w.recents = DOMAIN s.recents \ {n - Limit(s)}
      /\ \A k \in DOMAIN w.recents : w.recents[k] = s.recents[k]
  BY <1>1, ShiftFields
<1>4. \A k \in DOMAIN s.recents : k \in Nat \ {0} /\ k <= s.number
                                /\ k > s.number - Limit(s)
  BY DEF Snapshots, Windows, Windowed
<1>5. \A k \in DOMAIN s.recents : k <= n - Limit(s) <=> k = n - Limit(s)
  BY <1>1, <1>2, <1>4
<1>6. \A k \in DOMAIN s.recents : k = n - Limit(s) => n >= Limit(s)
  BY <1>1, <1>2, <1>4
<1>7. Applies(s, a) <=>
        /\ a \in s.signers
        /\ \A k \in DOMAIN s.recents : s.recents[k] = a => k = n - Limit(s)
  <2>1. Applies(s, a) <=> a \in s.signers /\ \A k \in DOMAIN w.recents : w.recents[k] # a
    BY DEF Applies
  <2> HIDE DEF w, n
  <2> QED BY <2>1, <1>3
<1>8. Seals(s, a) <=>
        /\ a \in s.signers
        /\ \A k \in DOMAIN s.recents :
             s.recents[k] = a => n >= Limit(s) /\ k <= n - Limit(s)
  BY <1>1, <1>2, <1>4 DEF Seals
<1>9. verifySeal(s, a) <=>
        /\ a \in s.signers
        /\ \A k \in DOMAIN s.recents :
             s.recents[k] = a => n < Limit(s) \/ k <= n - Limit(s)
  BY <1>1, <1>2, <1>4 DEF verifySeal
<1>10. n < Limit(s) <=> ~(n >= Limit(s))
  BY <1>1, <1>2
<1> HIDE DEF n
<1> QED BY <1>5, <1>6, <1>7, <1>8, <1>9, <1>10 DEF n

-----------------------------------------------------------------------------
(* The node that trusts a checkpoint                                       *)

\* A count of the same votes gives the same tally.
LEMMA SameTally ==
  ASSUME NEW V, NEW T \in Tallies, NEW U \in Tallies, Counts(V, T), Counts(V, U)
  PROVE  T = U
<1>1. PICK D : T \in [D -> [authorize : BOOLEAN, votes : Nat \ {0}]]
  BY DEF Tallies
<1>2. PICK E : U \in [E -> [authorize : BOOLEAN, votes : Nat \ {0}]]
  BY DEF Tallies
<1>3. D = E
  BY <1>1, <1>2 DEF Counts
<1>4. ASSUME NEW a \in D PROVE T[a] = U[a]
  <2>1. T[a].votes = U[a].votes
    BY <1>1, <1>2, <1>3 DEF Counts
  <2>2. PICK v \in V : v.address = a
    BY <1>1 DEF Counts
  <2>3. T[a].authorize = U[a].authorize
    BY <2>2 DEF Counts
  <2>4. /\ T[a] \in [authorize : BOOLEAN, votes : Nat \ {0}]
        /\ U[a] \in [authorize : BOOLEAN, votes : Nat \ {0}]
    BY <1>1, <1>2, <1>3
  <2> QED BY <2>1, <2>3, <2>4
<1> QED BY <1>1, <1>2, <1>3, <1>4

\* Snapshot s is snapshot t without the recent signers up to block b.
Agrees(s, t, b) ==
  /\ s.number = t.number /\ s.signers = t.signers
  /\ s.votes = t.votes /\ s.tally = t.tally
  /\ s.recents = Restrict(t.recents, {n \in DOMAIN t.recents : n > b})

\* apply keeps two snapshots that agree in agreement.
LEMMA ApplyAgrees ==
  ASSUME NEW s \in Snapshots, NEW t \in Snapshots, NEW b \in 0 .. t.number,
         Counted(t), Agrees(s, t, b),
         NEW h \in Headers(t.number + 1), h.signer \in t.signers
  PROVE  Apply(s, h) \in Snapshots /\ Agrees(Apply(s, h), Apply(t, h), b)
<1> DEFINE x == Apply(s, h)
           y == Apply(t, h)
           n == t.number + 1
           passed == Majority(NewVotes(t, h), t.signers, h.coinbase)
           cut == IF passed /\ h.coinbase \in t.signers THEN {n - Limit(y)} ELSE {}
<1>1. /\ s.number = t.number /\ s.signers = t.signers
      /\ s.votes = t.votes /\ s.tally = t.tally
      /\ s.recents = Restrict(t.recents, {k \in DOMAIN t.recents : k > b})
  BY DEF Agrees
<1>2. Counted(s)
  BY <1>1 DEF Counted
<1>3. NewVotes(s, h) = NewVotes(t, h) /\ NewSigners(s, h) = NewSigners(t, h)
  BY <1>1 DEF NewVotes, NewSigners
<1>4. Limit(s) = Limit(t)
  BY <1>1 DEF Limit
<1>5. /\ y \in Snapshots /\ Counted(y) /\ y.number = n /\ y.signers = NewSigners(t, h)
      /\ y.votes = IF passed THEN {v \in NewVotes(t, h) :
                                    v.address # h.coinbase /\ v.signer \in y.signers}
                   ELSE NewVotes(t, h)
      /\ DOMAIN y.recents = ((DOMAIN t.recents \ {n - Limit(t)}) \cup {n}) \ cut
      /\ \A k \in DOMAIN y.recents :
           y.recents[k] = IF k = n THEN h.signer ELSE t.recents[k]
  BY ApplyFields
<1>6. /\ x \in Snapshots /\ Counted(x) /\ x.number = n /\ x.signers = NewSigners(s, h)
      /\ x.votes = IF passed THEN {v \in NewVotes(s, h) :
                                    v.address # h.coinbase /\ v.signer \in x.signers}
                   ELSE NewVotes(s, h)
      /\ DOMAIN x.recents = ((DOMAIN s.recents \ {n - Limit(s)}) \cup {n})
           \ (IF passed /\ h.coinbase \in s.signers THEN {n - Limit(x)} ELSE {})
      /\ \A k \in DOMAIN x.recents :
           x.recents[k] = IF k = n THEN h.signer ELSE s.recents[k]
  <2> DEFINE m == s.number + 1
             wins == Majority(NewVotes(s, h), s.signers, h.coinbase)
  <2>1. h \in Headers(m) /\ h.signer \in s.signers
    BY <1>1
  <2>2. /\ x \in Snapshots /\ Counted(x) /\ x.number = m /\ x.signers = NewSigners(s, h)
        /\ x.votes = IF wins THEN {v \in NewVotes(s, h) :
                                    v.address # h.coinbase /\ v.signer \in x.signers}
                     ELSE NewVotes(s, h)
        /\ DOMAIN x.recents = ((DOMAIN s.recents \ {m - Limit(s)}) \cup {m})
             \ (IF wins /\ h.coinbase \in s.signers THEN {m - Limit(x)} ELSE {})
        /\ \A k \in DOMAIN x.recents :
             x.recents[k] = IF k = m THEN h.signer ELSE s.recents[k]
    BY <2>1, <1>2, ApplyFields
  <2>3. m = n /\ wins = passed
    BY <1>1, <1>3
  <2> HIDE DEF m, n, wins, passed, x
  <2> QED BY <2>2, <2>3
<1> HIDE DEF x, y, passed
<1>7. x.number = y.number /\ x.signers = y.signers /\ x.votes = y.votes
  BY <1>3, <1>5, <1>6
<1>8. x.tally = y.tally
  BY <1>5, <1>6, <1>7, SameTally DEF Counted, Snapshots
<1>9. Limit(x) = Limit(y)
  BY <1>7 DEF Limit
<1>10. /\ DOMAIN s.recents = {k \in DOMAIN t.recents : k > b}
       /\ \A k \in DOMAIN s.recents : s.recents[k] = t.recents[k]
  BY <1>1 DEF Restrict
<1>11. DOMAIN x.recents = ((DOMAIN s.recents \ {n - Limit(t)}) \cup {n}) \ cut
  BY <1>1, <1>4, <1>6, <1>9
<1>12. n > b
  BY DEF Snapshots
<1> HIDE DEF n, cut
<1>13. DOMAIN x.recents = {k \in DOMAIN y.recents : k > b}
  BY <1>5, <1>10, <1>11, <1>12
<1>14. \A k \in DOMAIN x.recents : x.recents[k] = y.recents[k]
  BY <1>5, <1>6, <1>10, <1>11, <1>13
<1>15. x.recents = Restrict(y.recents, {k \in DOMAIN y.recents : k > b})
  <2>1. x.recents = [k \in DOMAIN x.recents |-> x.recents[k]]
    BY <1>6 DEF Snapshots, Windows
  <2> QED BY <2>1, <1>13, <1>14 DEF Restrict
<1> QED BY <1>6, <1>7, <1>8, <1>15 DEF Agrees, x, y

-----------------------------------------------------------------------------
(* The theorems                                                            *)

Inv ==
  /\ snap \in Snapshots /\ snap.number <= MaxNumber
  /\ Counted(snap) /\ Windowed(snap)
  /\ snap.number % Epoch = 0 => snap.votes = {}
  /\ base \in 0 .. snap.number
  /\ light = {} \/ \E s \in Snapshots : light = {s} /\ Agrees(s, snap, base)

\* The fields of a new snapshot have their types.
LEMMA EmptyFields == <<>> \in Tallies /\ <<>> \in Windows
<1>1. /\ <<>> \in [{} -> [authorize : BOOLEAN, votes : Nat \ {0}]]
      /\ <<>> \in [{} -> Addresses]
  OBVIOUS
<1> QED BY <1>1 DEF Tallies, Windows

\* A checkpoint leaves no votes, not even its own.
LEMMA EpochVotes ==
  ASSUME NEW s \in Snapshots, Counted(s), NEW h \in Headers(s.number + 1),
         h.signer \in s.signers, (s.number + 1) % Epoch = 0
  PROVE  Apply(s, h).votes = {}
<1>1. h.coinbase = Zero /\ h.authorize = FALSE
  BY DEF Headers
<1>2. h.coinbase \notin s.signers
  BY <1>1, CliqueAssumption DEF Snapshots
<1>3. NewVotes(s, h) = {}
  BY <1>1, <1>2 DEF NewVotes, CastVotes
<1>4. Apply(s, h).votes =
        IF Majority(NewVotes(s, h), s.signers, h.coinbase)
        THEN {v \in NewVotes(s, h) : /\ v.address # h.coinbase
                                     /\ v.signer \in Apply(s, h).signers}
        ELSE NewVotes(s, h)
  BY ApplyFields
<1> QED BY <1>3, <1>4

\* The snapshot of the genesis block is consistent.
LEMMA InitInv == Init => Inv
<1> SUFFICES ASSUME Init PROVE Inv
  OBVIOUS
<1>1. <<>> \in Tallies /\ <<>> \in Windows
  BY EmptyFields
<1>2. /\ snap = [number |-> 0, signers |-> InitSigners, recents |-> <<>>,
                 votes |-> {}, tally |-> <<>>]
      /\ light = {} /\ base = 0
  BY DEF Init, NewSnapshot
<1>3. snap \in Snapshots /\ snap.number = 0
  BY <1>1, <1>2, CliqueAssumption DEF Snapshots
<1>4. Counted(snap)
  BY <1>2 DEF Counted, Counts, Standing
<1>5. Windowed(snap)
  BY <1>2 DEF Windowed
<1> QED BY <1>2, <1>3, <1>4, <1>5, CliqueAssumption DEF Inv

\* A block or a trusted checkpoint keeps the snapshots consistent.
LEMMA StepInv == Inv /\ [Next]_vars => Inv'
<1> SUFFICES ASSUME Inv, [Next]_vars PROVE Inv'
  OBVIOUS
<1>1. ASSUME NEW h \in Headers(snap.number + 1), Block(h) PROVE Inv'
  <2>1. h.signer \in snap.signers
    BY <1>1 DEF Block, Seals
  <2>2. snap' = Apply(snap, h) /\ light' = {Apply(s, h) : s \in light}
        /\ base' = base /\ snap.number < MaxNumber
    BY <1>1 DEF Block
  <2>3. snap' \in Snapshots /\ Counted(snap') /\ snap'.number = snap.number + 1
    BY <2>1, <2>2, ApplyFields DEF Inv
  <2>4. Windowed(snap')
    BY <2>1, <2>2, ApplyWindowed DEF Inv
  <2>5. snap'.number <= MaxNumber /\ base' \in 0 .. snap'.number
    BY <2>2, <2>3, CliqueAssumption DEF Inv, Snapshots
  <2>6. light' = {} \/ \E s \in Snapshots : light' = {s} /\ Agrees(s, snap', base')
    <3>1. CASE light = {}
      BY <2>2, <3>1
    <3>2. CASE light # {}
      <4>1. PICK s \in Snapshots : light = {s} /\ Agrees(s, snap, base)
        BY <3>2 DEF Inv
      <4>2. Apply(s, h) \in Snapshots /\ Agrees(Apply(s, h), Apply(snap, h), base)
        BY <4>1, <2>1, ApplyAgrees DEF Inv
      <4>3. light' = {Apply(s, h)}
        BY <4>1, <2>2
      <4> QED BY <4>2, <4>3, <2>2
    <3> QED BY <3>1, <3>2
  <2>7. snap'.number % Epoch = 0 => snap'.votes = {}
    BY <2>1, <2>2, <2>3, EpochVotes DEF Inv
  <2> QED BY <2>3, <2>4, <2>5, <2>6, <2>7 DEF Inv
<1>2. CASE TrustCheckpoint
  <2> DEFINE s == NewSnapshot(snap.number, snap.signers)
  <2>1. /\ snap' = snap /\ light' = {s} /\ base' = snap.number
        /\ snap.number % Epoch = 0 /\ snap.number > 0
    BY <1>2 DEF TrustCheckpoint
  <2>2. snap \in Snapshots /\ Counted(snap) /\ Windowed(snap)
        /\ snap.votes = {} /\ snap.number <= MaxNumber
    BY <2>1 DEF Inv
  <2>3. /\ s.number = snap.number /\ s.signers = snap.signers
        /\ s.votes = {} /\ s.tally = <<>> /\ s.recents = <<>>
    BY DEF NewSnapshot
  <2>4. s \in Snapshots
    BY <2>2, EmptyFields DEF NewSnapshot, Snapshots
  <2>5. snap.tally = <<>>
    <3>1. Counts({}, <<>>)
      BY DEF Counts
    <3> QED BY <3>1, <2>2, EmptyFields, SameTally DEF Counted, Snapshots
  <2>6. Restrict(snap.recents, {k \in DOMAIN snap.recents : k > base'}) = <<>>
    <3>1. DOMAIN snap.recents \subseteq Nat
      BY <2>2 DEF Snapshots, Windows
    <3>2. \A k \in DOMAIN snap.recents : ~(k > base')
      BY <2>1, <2>2, <3>1 DEF Windowed, Snapshots
    <3>3. {k \in DOMAIN snap.recents : k > base'} = {}
      BY <3>2
    <3> QED BY <3>3 DEF Restrict
  <2>7. Agrees(s, snap', base')
    BY <2>1, <2>2, <2>3, <2>5, <2>6 DEF Agrees
  <2>8. base' \in 0 .. snap'.number
    BY <2>1, <2>2 DEF Snapshots
  <2> QED BY <2>1, <2>2, <2>4, <2>7, <2>8 DEF Inv
<1>3. CASE UNCHANGED vars
  BY <1>3 DEF vars, Inv, Counted, Windowed, Agrees, Limit
<1> QED BY <1>1, <1>2, <1>3 DEF Next

\* Every reachable pair of snapshots is consistent.
LEMMA AlwaysInv == Spec => []Inv
BY InitInv, StepInv, PTL DEF Spec

\* The invariant gives what the runs check.
LEMMA InvSnapshot == Inv => SnapshotInv
<1> SUFFICES ASSUME Inv PROVE SnapshotInv
  OBVIOUS
<1>1. /\ snap \in Snapshots /\ snap.number <= MaxNumber
      /\ Counted(snap) /\ Windowed(snap) /\ base \in 0 .. snap.number
  BY DEF Inv
<1>2. TypeOK
  <2>1. /\ snap.number \in Nat /\ snap.signers \subseteq Addresses
        /\ snap.votes \subseteq Votes
    BY <1>1 DEF Snapshots
  <2>2. PICK D \in SUBSET (Nat \ {0}) : snap.recents \in [D -> Addresses]
    BY <1>1 DEF Snapshots, Windows
  <2>3. /\ DOMAIN snap.recents \subseteq 1 .. MaxNumber
        /\ \A n \in DOMAIN snap.recents : snap.recents[n] \in Addresses
    <3>1. \A n \in D : n \in 1 .. MaxNumber
      BY <1>1, <2>1, <2>2, CliqueAssumption DEF Windowed
    <3> QED BY <3>1, <2>2
  <2>4. PICK E \in SUBSET Addresses :
          snap.tally \in [E -> [authorize : BOOLEAN, votes : Nat \ {0}]]
    BY <1>1 DEF Snapshots, Tallies
  <2>5. /\ DOMAIN snap.tally \subseteq Addresses
        /\ \A a \in DOMAIN snap.tally :
             snap.tally[a] \in [authorize : BOOLEAN, votes : Nat \ {0}]
    BY <2>4
  <2>6. Cardinality(light) <= 1
    <3>1. light = {} \/ \E s : light = {s}
      BY DEF Inv
    <3>2. light = {} => Cardinality(light) = 0
      BY FS_EmptySet
    <3>3. ASSUME NEW s, light = {s} PROVE Cardinality(light) = 1
      BY <3>3, FS_Singleton
    <3> QED BY <3>1, <3>2, <3>3
  <2> QED BY <2>1, <2>3, <2>5, <2>6, <1>1 DEF TypeOK
<1>3. TallyCounts
  BY <1>1 DEF TallyCounts, Counted, Counts, Standing, About, validVote
<1>4. NoStall
  BY <1>1, SomeoneApplies DEF NoStall
<1> QED BY <1>2, <1>3, <1>4 DEF SnapshotInv

\* For any accounts, first signers and epoch length, apply (snapshot.go) keeps
\* the cached tally equal to a count of the standing votes, all of them votes
\* of signers for a change, and the window of recent signers always leaves
\* somebody who may sign the next block.
THEOREM CliqueSnapshotInv == Spec => []SnapshotInv
BY AlwaysInv, InvSnapshot, PTL

\* Seal, verifySeal and apply decide alike who may sign, for any number of
\* signers, but for the first blocks, where the unsigned difference in
\* verifySeal wraps around and lets all signers through.
THEOREM CliqueRulesAgree == Spec => []RulesAgree
<1>1. Inv => RulesAgree
  BY SameRules DEF Inv, RulesAgree
<1> QED BY <1>1, AlwaysInv, PTL

\* A node that takes the signers from a trusted checkpoint and applies the
\* blocks after it has the same signers, votes and tally as one that applied
\* all blocks, and the same recent signers after the checkpoint.
THEOREM CliqueCheckpointAgrees == Spec => []CheckpointAgrees
<1>1. Inv => CheckpointAgrees
  <2> SUFFICES ASSUME Inv, NEW s \in light PROVE Agrees(s, snap, base)
    BY DEF CheckpointAgrees, Agrees
  <2> QED BY DEF Inv
<1> QED BY <1>1, AlwaysInv, PTL

\* The instance counts with the same operator.
LEMMA SameCardinality == ASSUME NEW S PROVE Voting!Cardinality(S) = Cardinality(S)
BY DEF Voting!Cardinality, Cardinality

\* apply with its tally, its window and its steps implements the rule of
\* CliqueVoting: the account that a block names changes if, with this vote,
\* more than half of the signers are for it.
THEOREM CliqueVotingRefined == Spec => VotingSpec
<1>1. Init => Voting!Init
  BY DEF Init, NewSnapshot, Voting!Init
<1>2. Inv /\ [Next]_vars => [Voting!Next]_(Voting!vars)
  <2> SUFFICES ASSUME Inv, [Next]_vars PROVE [Voting!Next]_(Voting!vars)
    OBVIOUS
  <2>1. ASSUME NEW h \in Headers(snap.number + 1), Block(h) PROVE Voting!Next
    <3> DEFINE passed == Majority(NewVotes(snap, h), snap.signers, h.coinbase)
               after == Flip(snap.signers, h.coinbase)
    <3>1. h.signer \in snap.signers /\ snap' = Apply(snap, h)
      BY <2>1 DEF Block, Seals
    <3>2. /\ snap'.number = snap.number + 1
          /\ snap'.signers = NewSigners(snap, h)
          /\ snap'.votes = IF passed
                           THEN {v \in NewVotes(snap, h) :
                                   v.address # h.coinbase /\ v.signer \in snap'.signers}
                           ELSE NewVotes(snap, h)
      BY <3>1, ApplyFields DEF Inv
    <3>3. snap'.signers = IF passed THEN after ELSE snap.signers
      BY <3>2 DEF NewSigners
    <3>4. snap'.votes = IF passed
                        THEN {v \in NewVotes(snap, h) :
                                v.address # h.coinbase /\ v.signer \in after}
                        ELSE NewVotes(snap, h)
      BY <3>2, <3>3
    <3>5. Voting!Block(h.signer, h.coinbase, h.authorize)
      <4> DEFINE standing == IF (snap.number + 1) % Epoch = 0 THEN {}
                             ELSE snap.votes
                 kept == {v \in standing : ~(/\ v.signer = h.signer
                                             /\ v.address = h.coinbase)}
                 cast1 == IF h.authorize = (h.coinbase \notin snap.signers)
                          THEN kept \cup {[signer |-> h.signer,
                                           address |-> h.coinbase,
                                           authorize |-> h.authorize]}
                          ELSE kept
      <4>1. kept = standing \ {v \in standing : /\ v.signer = h.signer
                                                /\ v.address = h.coinbase}
        OBVIOUS
      <4>2. cast1 = NewVotes(snap, h)
        <5> HIDE DEF kept
        <5> QED BY <4>1 DEF NewVotes, CastVotes
      <4>3. passed = (2 * Cardinality({v \in cast1 : v.address = h.coinbase})
                        > Cardinality(snap.signers))
        <5> HIDE DEF cast1
        <5> QED BY <4>2 DEF Majority, About
      <4>4. /\ snap'.signers = IF passed THEN after ELSE snap.signers
            /\ snap'.votes = IF passed
                             THEN {v \in cast1 : /\ v.address # h.coinbase
                                                 /\ v.signer \in after}
                             ELSE cast1
        <5> HIDE DEF cast1, passed, after
        <5> QED BY <3>3, <3>4, <4>2
      <4> DEFINE most == 2 * Cardinality({v \in cast1 : v.address = h.coinbase})
                           > Cardinality(snap.signers)
      <4>5. /\ snap'.signers = IF most THEN after ELSE snap.signers
            /\ snap'.votes = IF most
                             THEN {v \in cast1 : /\ v.address # h.coinbase
                                                 /\ v.signer \in after}
                             ELSE cast1
        BY <4>3, <4>4
      <4> QED BY <3>1, <3>2, <4>5, SameCardinality, Zenon DEF Voting!Block, Flip
    <3> QED BY <3>5, HeaderType DEF Voting!Next
  <2>2. CASE TrustCheckpoint
    BY <2>2 DEF TrustCheckpoint, Voting!vars
  <2>3. CASE UNCHANGED vars
    BY <2>3 DEF vars, Voting!vars
  <2> QED BY <2>1, <2>2, <2>3 DEF Next
<1> QED BY <1>1, <1>2, AlwaysInv, PTL DEF Spec, VotingSpec, Voting!Spec
=============================================================================
