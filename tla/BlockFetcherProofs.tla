-------------------------- MODULE BlockFetcherProofs --------------------------
(***************************************************************************)
(* For any blocks, peers and limits: the block fetcher imports a block     *)
(* once at a time, keeps it in one stage, counts each peer's blocks and    *)
(* announcements without leaks, and never waits for a timer that is not    *)
(* set.                                                                    *)
(*                                                                         *)
(* All actions are made of forgetHash, forgetBlock and enqueue on the      *)
(* record of maps, so the parts of the invariant are predicates of such a  *)
(* record and each of the three operators has a lemma.                     *)
(***************************************************************************)
EXTENDS BlockFetcher, TLAPS, FiniteSetTheorems

\* OneStage, QueuesCount and NotShutOut, of any maps.
Staged(g) ==
  \A h \in Blocks :
    /\ g.announced[h] # <<>> =>
         g.fetching[h] = None /\ g.fetched[h] = None /\ g.completing[h] = None
    /\ g.fetched[h] # None =>
         /\ g.completing[h] = None
         /\ g.fetching[h] = [peer |-> g.fetched[h], right |-> TRUE]

From(g, p) == {h \in Blocks : g.queued[h] = p}

Counted(g) == \A p \in Peers : g.queues[p] = Cardinality(From(g, p))

Backed(g) ==
  \A p \in Peers : g.announces[p] <= Cardinality(AnnouncedBy(g, p, Blocks))

\* No block has more than n announcements, so that the bound on them cuts no
\* list of announcements short.
Short(g, n) == \A h \in Blocks : Len(g.announced[h]) <= n

\* The entries of queued are the blocks that wait for their import and those
\* that the goroutines I import.
Listed(g, I) ==
  /\ \A i \in I, j \in I : i.hash = j.hash => i = j
  /\ \A i \in I : i.hash \notin g.queue
  /\ \A h \in Blocks :
       g.queued[h] # None <=> h \in g.queue \/ \E i \in I : i.hash = h

Sound(g, n, I) ==
  /\ g \in Maps /\ Staged(g) /\ Counted(g) /\ Backed(g) /\ Short(g, n)
  /\ Listed(g, I)

Inv == TypeOK /\ Sound(f, notified, imports) /\ TimersSet

\* No more blocks wait for a timer in maps t than in maps g.
Fewer(t, g) ==
  \A h \in Blocks :
    /\ t.announced[h] # <<>> => g.announced[h] # <<>>
    /\ t.fetched[h] # None => g.fetched[h] # None

-----------------------------------------------------------------------------
(* Finite sets and numbers                                                 *)

\* A part of a finite set leaves the rest.
LEMMA CardRest ==
  ASSUME NEW S, IsFiniteSet(S), NEW T \in SUBSET S
  PROVE  /\ IsFiniteSet(T) /\ Cardinality(T) \in Nat
         /\ Cardinality(S \ T) = Cardinality(S) - Cardinality(T)
<1>1. IsFiniteSet(T) /\ Cardinality(T) \in Nat
  BY FS_Subset, FS_CardinalityType
<1>2. S \cap T = T
  OBVIOUS
<1>3. Cardinality(S \ T) = Cardinality(S) - Cardinality(S \cap T)
  BY FS_Difference
<1> QED BY <1>1, <1>2, <1>3

\* Disjoint finite sets add up.
LEMMA CardSum ==
  ASSUME NEW S, IsFiniteSet(S), NEW T, IsFiniteSet(T), S \cap T = {}
  PROVE  Cardinality(S \cup T) = Cardinality(S) + Cardinality(T)
<1>1. Cardinality(S \cup T) = Cardinality(S) + Cardinality(T) - Cardinality({})
  BY FS_Union
<1>2. Cardinality({}) = 0 /\ Cardinality(S) \in Nat /\ Cardinality(T) \in Nat
  BY FS_EmptySet, FS_CardinalityType
<1> QED BY <1>1, <1>2

\* What a count that does not go below 0 becomes.
LEMMA MaxZero ==
  ASSUME NEW a \in Int
  PROVE  Max({0, a}) = IF a > 0 THEN a ELSE 0
<1>1. \E x \in {0, a} : \A y \in {0, a} : x >= y
  OBVIOUS
<1>2. Max({0, a}) \in {0, a} /\ \A y \in {0, a} : Max({0, a}) >= y
  BY <1>1 DEF Max
<1> QED BY <1>2

\* The smaller of two numbers.
LEMMA MinTwo ==
  ASSUME NEW a \in Int, NEW b \in Int
  PROVE  Min({a, b}) = IF a <= b THEN a ELSE b
<1>1. \E x \in {a, b} : \A y \in {a, b} : x <= y
  OBVIOUS
<1>2. Min({a, b}) \in {a, b} /\ \A y \in {a, b} : Min({a, b}) <= y
  BY <1>1 DEF Min
<1> QED BY <1>2

\* The blocks of a peer are finitely many.
LEMMA BlocksFinite ==
  ASSUME NEW H \in SUBSET Blocks
  PROVE  IsFiniteSet(H) /\ Cardinality(H) \in Nat
BY BlockFetcherAssumption, FS_Subset, FS_CardinalityType

\* And so are its announcements.
LEMMA AnnouncedFinite ==
  ASSUME NEW g, NEW p, NEW H \in SUBSET Blocks
  PROVE  /\ IsFiniteSet(AnnouncedBy(g, p, H))
         /\ Cardinality(AnnouncedBy(g, p, H)) \in Nat
<1>1. IsFiniteSet(H) /\ IsFiniteSet(1 .. MaxNotify)
  <2>1. MaxNotify \in Int /\ 1 \in Int
    BY BlockFetcherAssumption
  <2>2. IsFiniteSet(1 .. MaxNotify)
    BY <2>1, FS_Interval
  <2> QED BY <2>2, BlocksFinite
<1>2. IsFiniteSet(H \X (1 .. MaxNotify))
  BY <1>1, FS_Product
<1>3. AnnouncedBy(g, p, H) \in SUBSET (H \X (1 .. MaxNotify))
  BY DEF AnnouncedBy
<1> QED BY <1>2, <1>3, FS_Subset, FS_CardinalityType

-----------------------------------------------------------------------------
(* forgetHash                                                              *)

Cleared(m, H, empty) == [h \in Blocks |-> IF h \in H THEN empty ELSE m[h]]

Traces(g, p, H) ==
  Cardinality(AnnouncedBy(g, p, H)) + Cardinality(FetchingFrom(g, p, H))
    + Cardinality({h \in H : g.fetched[h] = p})
    + Cardinality({h \in H : g.completing[h] = p})

\* The traces of a peer include its announcements.
LEMMA TracesType ==
  ASSUME NEW g, NEW p, NEW H \in SUBSET Blocks
  PROVE  /\ Traces(g, p, H) \in Nat
         /\ Traces(g, p, H) >= Cardinality(AnnouncedBy(g, p, H))
<1>1. /\ FetchingFrom(g, p, H) \in SUBSET Blocks
      /\ {h \in H : g.fetched[h] = p} \in SUBSET Blocks
      /\ {h \in H : g.completing[h] = p} \in SUBSET Blocks
  BY DEF FetchingFrom
<1>2. /\ Cardinality(FetchingFrom(g, p, H)) \in Nat
      /\ Cardinality({h \in H : g.fetched[h] = p}) \in Nat
      /\ Cardinality({h \in H : g.completing[h] = p}) \in Nat
  BY <1>1, BlocksFinite
<1>3. Cardinality(AnnouncedBy(g, p, H)) \in Nat
  BY AnnouncedFinite
<1> QED BY <1>2, <1>3 DEF Traces

\* forgetHash clears four maps and counts the announcements down.
LEMMA ForgetHashFields ==
  ASSUME NEW g \in Maps, NEW H \in SUBSET Blocks
  PROVE  LET t == forgetHash(g, H) IN
         /\ t \in Maps
         /\ t.queue = g.queue /\ t.queues = g.queues /\ t.queued = g.queued
         /\ t.announced = Cleared(g.announced, H, <<>>)
         /\ t.fetching = Cleared(g.fetching, H, None)
         /\ t.fetched = Cleared(g.fetched, H, None)
         /\ t.completing = Cleared(g.completing, H, None)
         /\ \A p \in Peers :
              t.announces[p] = IF g.announces[p] - Traces(g, p, H) > 0
                               THEN g.announces[p] - Traces(g, p, H) ELSE 0
<1> DEFINE t == forgetHash(g, H)
           count == [p \in Peers |-> Max({0, g.announces[p] - Traces(g, p, H)})]
<1>1. /\ g.announces \in [Peers -> 0 .. HashLimit]
      /\ g.announced \in [Blocks -> Seq(Announcements)]
      /\ g.fetching \in [Blocks -> Announcements \cup {None}]
      /\ g.fetched \in [Blocks -> Peers \cup {None}]
      /\ g.completing \in [Blocks -> Peers \cup {None}]
  BY DEF Maps
<1>2. /\ Cleared(g.announced, H, <<>>) \in [Blocks -> Seq(Announcements)]
      /\ Cleared(g.fetching, H, None) \in [Blocks -> Announcements \cup {None}]
      /\ Cleared(g.fetched, H, None) \in [Blocks -> Peers \cup {None}]
      /\ Cleared(g.completing, H, None) \in [Blocks -> Peers \cup {None}]
  BY <1>1 DEF Cleared
<1>3. \A p \in Peers : Traces(g, p, H) \in Nat
  BY TracesType
<1>4. ASSUME NEW p \in Peers
      PROVE  /\ count[p] = IF g.announces[p] - Traces(g, p, H) > 0
                           THEN g.announces[p] - Traces(g, p, H) ELSE 0
             /\ count[p] \in 0 .. HashLimit
  <2>1. g.announces[p] \in 0 .. HashLimit /\ HashLimit \in Nat
    BY <1>1, BlockFetcherAssumption
  <2>2. g.announces[p] - Traces(g, p, H) \in Int
    BY <2>1, <1>3
  <2>3. Max({0, g.announces[p] - Traces(g, p, H)})
          = IF g.announces[p] - Traces(g, p, H) > 0
            THEN g.announces[p] - Traces(g, p, H) ELSE 0
    BY <2>2, MaxZero
  <2> QED BY <2>1, <2>3, <1>3
<1>5. count \in [Peers -> 0 .. HashLimit]
  BY <1>4
<1>6. t = [g EXCEPT !.announces = count,
                    !.announced = Cleared(g.announced, H, <<>>),
                    !.fetching = Cleared(g.fetching, H, None),
                    !.fetched = Cleared(g.fetched, H, None),
                    !.completing = Cleared(g.completing, H, None)]
  BY DEF forgetHash, Cleared, Traces
<1> HIDE DEF t, count
<1>7. /\ t \in Maps
      /\ t.queue = g.queue /\ t.queues = g.queues /\ t.queued = g.queued
      /\ t.announced = Cleared(g.announced, H, <<>>)
      /\ t.fetching = Cleared(g.fetching, H, None)
      /\ t.fetched = Cleared(g.fetched, H, None)
      /\ t.completing = Cleared(g.completing, H, None)
      /\ t.announces = count
  BY <1>2, <1>5, <1>6 DEF Maps
<1> QED BY <1>4, <1>7 DEF t

\* The stages, and the announcements that a peer's count stands for.
Announcing(g) ==
  <<g.announces, g.announced, g.fetching, g.fetched, g.completing>>

\* What is said of the announcements does not depend on the queue.
LEMMA SameAnnouncing ==
  ASSUME NEW g, NEW t, Announcing(t) = Announcing(g)
  PROVE  /\ Staged(g) => Staged(t)
         /\ Backed(g) => Backed(t)
         /\ \A n : Short(g, n) => Short(t, n)
<1>1. /\ t.announces = g.announces /\ t.announced = g.announced
      /\ t.fetching = g.fetching /\ t.fetched = g.fetched
      /\ t.completing = g.completing
  BY DEF Announcing
<1>2. \A p : AnnouncedBy(t, p, Blocks) = AnnouncedBy(g, p, Blocks)
  BY <1>1 DEF AnnouncedBy
<1> QED BY <1>1, <1>2 DEF Staged, Backed, Short

\* Forgotten announcements are counted down, and what is left stays in order.
LEMMA ForgetHashKeeps ==
  ASSUME NEW g \in Maps, NEW H \in SUBSET Blocks
  PROVE  LET t == forgetHash(g, H) IN
         /\ Staged(g) => Staged(t)
         /\ Backed(g) => Backed(t)
         /\ \A n \in Nat : Short(g, n) => Short(t, n)
<1> DEFINE t == forgetHash(g, H)
<1>1. /\ t.announced = Cleared(g.announced, H, <<>>)
      /\ t.fetching = Cleared(g.fetching, H, None)
      /\ t.fetched = Cleared(g.fetched, H, None)
      /\ t.completing = Cleared(g.completing, H, None)
  BY ForgetHashFields
<1>2. \A p \in Peers :
        t.announces[p] = IF g.announces[p] - Traces(g, p, H) > 0
                         THEN g.announces[p] - Traces(g, p, H) ELSE 0
  BY ForgetHashFields
<1> HIDE DEF t
<1>3. ASSUME Staged(g) PROVE Staged(t)
  BY <1>1, <1>3 DEF Staged, Cleared
<1>4. ASSUME NEW n \in Nat, Short(g, n) PROVE Short(t, n)
  <2>1. ASSUME NEW h \in Blocks PROVE Len(t.announced[h]) <= n
    <3>1. t.announced[h] = IF h \in H THEN <<>> ELSE g.announced[h]
      BY <1>1 DEF Cleared
    <3>2. Len(g.announced[h]) <= n
      BY <1>4 DEF Short
    <3> QED BY <3>1, <3>2
  <2> QED BY <2>1 DEF Short
<1>5. ASSUME Backed(g), NEW p \in Peers
      PROVE  t.announces[p] <= Cardinality(AnnouncedBy(t, p, Blocks))
  <2> DEFINE A == AnnouncedBy(g, p, Blocks)
             B == AnnouncedBy(g, p, H)
  <2>1. AnnouncedBy(t, p, Blocks) = A \ B
    BY <1>1 DEF AnnouncedBy, Cleared
  <2>2. B \in SUBSET A
    BY DEF AnnouncedBy
  <2>3. IsFiniteSet(A) /\ Cardinality(A) \in Nat
    BY AnnouncedFinite
  <2>4. g.announces[p] <= Cardinality(A) /\ g.announces[p] \in Nat
    BY <1>5, BlockFetcherAssumption DEF Backed, Maps
  <2>5. Traces(g, p, H) \in Nat /\ Traces(g, p, H) >= Cardinality(B)
    BY TracesType
  <2> HIDE DEF A, B
  <2>6. /\ Cardinality(B) \in Nat
        /\ Cardinality(A \ B) = Cardinality(A) - Cardinality(B)
        /\ Cardinality(A \ B) \in Nat
    BY <2>2, <2>3, CardRest, FS_CardinalityType
  <2> QED BY <1>2, <2>1, <2>3, <2>4, <2>5, <2>6
<1>6. Backed(g) => Backed(t)
  BY <1>5 DEF Backed
<1> QED BY <1>3, <1>4, <1>6 DEF t

-----------------------------------------------------------------------------
(* forgetBlock and enqueue                                                 *)

\* forgetBlock gives the peers their allowance back.
LEMMA ForgetBlockFields ==
  ASSUME NEW g \in Maps, Counted(g), NEW H \in SUBSET Blocks
  PROVE  LET t == forgetBlock(g, H) IN
         /\ t \in Maps /\ Counted(t) /\ Announcing(t) = Announcing(g)
         /\ t.queue = g.queue /\ t.queued = Cleared(g.queued, H, None)
<1> DEFINE t == forgetBlock(g, H)
           gone(p) == {h \in H : g.queued[h] = p}
           count == [p \in Peers |-> g.queues[p] - Cardinality(gone(p))]
           left == Cleared(g.queued, H, None)
<1>1. /\ g.queues \in [Peers -> 0 .. BlockLimit]
      /\ g.queued \in [Blocks -> Peers \cup {None}]
  BY DEF Maps
<1>2. left \in [Blocks -> Peers \cup {None}]
  BY <1>1 DEF Cleared
<1>3. ASSUME NEW p \in Peers
      PROVE  /\ count[p] = Cardinality({h \in Blocks : left[h] = p})
             /\ count[p] \in 0 .. BlockLimit
  <2>1. {h \in Blocks : left[h] = p} = From(g, p) \ gone(p)
    BY BlockFetcherAssumption DEF Cleared, From
  <2>2. gone(p) \in SUBSET From(g, p) /\ From(g, p) \in SUBSET Blocks
    BY DEF From
  <2>3. IsFiniteSet(From(g, p)) /\ Cardinality(From(g, p)) \in Nat
    BY <2>2, BlocksFinite
  <2>4. g.queues[p] = Cardinality(From(g, p)) /\ g.queues[p] \in 0 .. BlockLimit
    BY <1>1 DEF Counted
  <2>5. count[p] = g.queues[p] - Cardinality(gone(p))
    OBVIOUS
  <2> HIDE DEF gone, count, left
  <2>6. /\ Cardinality(gone(p)) \in Nat
        /\ Cardinality(From(g, p) \ gone(p))
             = Cardinality(From(g, p)) - Cardinality(gone(p))
    BY <2>2, <2>3, CardRest
  <2>7. Cardinality(From(g, p) \ gone(p)) \in Nat
    BY <2>2, BlocksFinite
  <2> QED BY <2>1, <2>4, <2>5, <2>6, <2>7, BlockFetcherAssumption
<1>4. count \in [Peers -> 0 .. BlockLimit]
  BY <1>3
<1>5. t = [g EXCEPT !.queues = count, !.queued = left]
  BY DEF forgetBlock, Cleared
<1>6. \A p \in Peers : count[p] = Cardinality({h \in Blocks : left[h] = p})
  BY <1>3
<1> HIDE DEF t, count, left
<1>7. /\ t \in Maps /\ t.queue = g.queue /\ t.queued = left /\ t.queues = count
      /\ t.announces = g.announces /\ t.announced = g.announced
      /\ t.fetching = g.fetching /\ t.fetched = g.fetched
      /\ t.completing = g.completing
  BY <1>2, <1>4, <1>5 DEF Maps
<1>8. Counted(t)
  BY <1>6, <1>7 DEF Counted, From
<1> QED BY <1>7, <1>8 DEF t, left, Announcing

\* The blocks of 'fits' that are new.
New(g, fits) == {h \in fits : g.queued[h] = None}

\* What fits is within the allowance of the peer.
LEMMA FittingFits ==
  ASSUME NEW g \in Maps, NEW p \in Peers, NEW H \in SUBSET Blocks,
         NEW fits \in Fitting(g, p, H)
  PROVE  /\ fits \in SUBSET H
         /\ g.queues[p] + Cardinality(New(g, fits)) <= BlockLimit
<1> DEFINE near == {h \in H : ~Far(h)}
           room == BlockLimit - g.queues[p]
<1>1. fits \in SUBSET near /\ Cardinality(fits) = Min({Cardinality(near), room})
  BY DEF Fitting
<1>2. g.queues[p] \in 0 .. BlockLimit /\ BlockLimit \in Nat
  BY BlockFetcherAssumption DEF Maps
<1>3. Cardinality(near) \in Nat
  BY BlocksFinite
<1>4. room \in Int
  BY <1>2
<1>5. fits \in SUBSET Blocks /\ New(g, fits) \in SUBSET fits
  BY <1>1 DEF New
<1>6. /\ IsFiniteSet(fits) /\ Cardinality(fits) \in Nat
      /\ Cardinality(New(g, fits)) \in Nat
      /\ Cardinality(New(g, fits)) <= Cardinality(fits)
  BY <1>5, BlocksFinite, FS_Subset, FS_CardinalityType
<1>7. Cardinality(fits) <= room
  <2> HIDE DEF near, room
  <2>1. Min({Cardinality(near), room}) = IF Cardinality(near) <= room
                                         THEN Cardinality(near) ELSE room
    BY <1>3, <1>4, MinTwo
  <2> QED BY <2>1, <1>1, <1>3, <1>4, <1>6
<1>8. fits \in SUBSET H
  BY <1>1
<1> HIDE DEF near
<1> QED BY <1>2, <1>6, <1>7, <1>8

\* enqueue takes what fits and is new, and forgets the announcements of the rest.
LEMMA EnqueueFields ==
  ASSUME NEW g \in Maps, Counted(g), NEW p \in Peers, NEW H \in SUBSET Blocks,
         NEW fits \in Fitting(g, p, H)
  PROVE  LET t == enqueue(g, p, H, fits) IN
         /\ t \in Maps /\ Counted(t)
         /\ Announcing(t) = Announcing(forgetHash(g, H \ fits))
         /\ t.queue = g.queue \cup New(g, fits)
         /\ t.queued = [h \in Blocks |-> IF h \in New(g, fits) THEN p
                                         ELSE g.queued[h]]
<1> DEFINE t == enqueue(g, p, H, fits)
           u == forgetHash(g, H \ fits)
           N == New(g, fits)
           count == [g.queues EXCEPT ![p] = @ + Cardinality(N)]
           put == [h \in Blocks |-> IF h \in N THEN p ELSE g.queued[h]]
<1>1. H \ fits \in SUBSET Blocks
  OBVIOUS
<1>2. /\ u \in Maps
      /\ u.queue = g.queue /\ u.queues = g.queues /\ u.queued = g.queued
  BY <1>1, ForgetHashFields
<1>3. /\ g.queues \in [Peers -> 0 .. BlockLimit] /\ g.queue \in SUBSET Blocks
      /\ g.queued \in [Blocks -> Peers \cup {None}]
  BY DEF Maps
<1>4. /\ fits \in SUBSET H
      /\ g.queues[p] + Cardinality(N) <= BlockLimit
  BY FittingFits
<1>5. N \in SUBSET Blocks /\ IsFiniteSet(N) /\ Cardinality(N) \in Nat
  <2>1. N \in SUBSET Blocks
    BY <1>4 DEF New
  <2> QED BY <2>1, BlocksFinite
<1>6. put \in [Blocks -> Peers \cup {None}]
  BY <1>3
<1>7. count \in [Peers -> 0 .. BlockLimit]
  BY <1>3, <1>4, <1>5, BlockFetcherAssumption
<1>8. ASSUME NEW q \in Peers
      PROVE  count[q] = Cardinality({h \in Blocks : put[h] = q})
  <2>1. g.queues[q] = Cardinality(From(g, q))
    BY DEF Counted
  <2>2. From(g, q) \in SUBSET Blocks /\ IsFiniteSet(From(g, q))
    BY BlocksFinite DEF From
  <2>3. CASE q = p
    <3>1. {h \in Blocks : put[h] = p} = From(g, p) \cup N
      BY <1>5 DEF From
    <3>2. From(g, p) \cap N = {}
      BY BlockFetcherAssumption DEF From, New
    <3>3. Cardinality(From(g, p) \cup N) = Cardinality(From(g, p)) + Cardinality(N)
      BY <3>2, <2>2, <2>3, <1>5, CardSum
    <3>4. count[p] = g.queues[p] + Cardinality(N)
      BY <1>3
    <3> QED BY <3>1, <3>3, <3>4, <2>1, <2>3
  <2>4. CASE q # p
    <3>1. {h \in Blocks : put[h] = q} = From(g, q)
      BY <2>4, BlockFetcherAssumption DEF From, New
    <3>2. count[q] = g.queues[q]
      BY <1>3, <2>4
    <3> QED BY <3>1, <3>2, <2>1
  <2> QED BY <2>3, <2>4
<1>9. t = [u EXCEPT !.queues[p] = @ + Cardinality(N), !.queued = put,
                    !.queue = @ \cup N]
  BY <1>2 DEF enqueue, New
<1>10. g.queue \cup N \in SUBSET Blocks
  BY <1>3, <1>5
<1> HIDE DEF t, u, N, count, put
<1>11. t = [u EXCEPT !.queues = count, !.queued = put, !.queue = g.queue \cup N]
  BY <1>2, <1>9 DEF count, Maps
<1>12. /\ t \in Maps /\ t.queue = g.queue \cup N /\ t.queued = put
       /\ t.queues = count
       /\ t.announces = u.announces /\ t.announced = u.announced
       /\ t.fetching = u.fetching /\ t.fetched = u.fetched
       /\ t.completing = u.completing
  BY <1>2, <1>6, <1>7, <1>10, <1>11 DEF Maps
<1>13. Counted(t)
  BY <1>8, <1>12 DEF Counted, From
<1> QED BY <1>12, <1>13 DEF t, u, N, put, Announcing

-----------------------------------------------------------------------------
(* The three operators keep the maps sound                                 *)

\* Forgetting blocks.
LEMMA ForgetHashSound ==
  ASSUME NEW g, NEW n \in Nat, NEW I, Sound(g, n, I), NEW H \in SUBSET Blocks
  PROVE  LET t == forgetHash(g, H) IN Sound(t, n, I) /\ Fewer(t, g)
<1> DEFINE t == forgetHash(g, H)
<1>1. /\ g \in Maps /\ Staged(g) /\ Counted(g) /\ Backed(g) /\ Short(g, n)
      /\ Listed(g, I)
  BY DEF Sound
<1>2. /\ t \in Maps
      /\ t.queue = g.queue /\ t.queues = g.queues /\ t.queued = g.queued
      /\ t.announced = Cleared(g.announced, H, <<>>)
      /\ t.fetched = Cleared(g.fetched, H, None)
  BY <1>1, ForgetHashFields
<1>3. Staged(t) /\ Backed(t) /\ Short(t, n)
  BY <1>1, ForgetHashKeeps
<1> HIDE DEF t
<1>4. Counted(t)
  BY <1>1, <1>2 DEF Counted, From
<1>5. Listed(t, I)
  BY <1>1, <1>2 DEF Listed
<1>6. Fewer(t, g)
  BY <1>2 DEF Fewer, Cleared
<1> QED BY <1>2, <1>3, <1>4, <1>5, <1>6 DEF Sound, t

\* Queueing blocks.
LEMMA EnqueueSound ==
  ASSUME NEW g, NEW n \in Nat, NEW I, Sound(g, n, I),
         NEW p \in Peers, NEW H \in SUBSET Blocks, NEW fits \in Fitting(g, p, H)
  PROVE  LET t == enqueue(g, p, H, fits) IN Sound(t, n, I) /\ Fewer(t, g)
<1> DEFINE t == enqueue(g, p, H, fits)
           u == forgetHash(g, H \ fits)
           N == New(g, fits)
<1>1. g \in Maps /\ Counted(g) /\ Listed(g, I)
  BY DEF Sound
<1>2. Sound(u, n, I) /\ Fewer(u, g)
  <2>1. H \ fits \in SUBSET Blocks
    OBVIOUS
  <2> QED BY <2>1, ForgetHashSound
<1>3. /\ t \in Maps /\ Counted(t) /\ Announcing(t) = Announcing(u)
      /\ t.queue = g.queue \cup N
      /\ t.queued = [h \in Blocks |-> IF h \in N THEN p ELSE g.queued[h]]
  BY <1>1, EnqueueFields
<1>4. N \in SUBSET Blocks /\ \A h \in N : g.queued[h] = None
  BY <1>1, FittingFits DEF New
<1> HIDE DEF t, u, N
<1>5. Staged(t) /\ Backed(t) /\ Short(t, n)
  BY <1>2, <1>3, SameAnnouncing DEF Sound
<1>6. Fewer(t, g)
  BY <1>2, <1>3 DEF Fewer, Announcing
<1>7. Listed(t, I)
  <2>1. \A i \in I : i.hash \notin N
    BY <1>1, <1>4 DEF Listed
  <2>2. \A i \in I : i.hash \notin t.queue
    BY <2>1, <1>1, <1>3 DEF Listed
  <2>3. p # None
    BY BlockFetcherAssumption
  <2>4. \A h \in Blocks : t.queued[h] # None
                            <=> h \in t.queue \/ \E i \in I : i.hash = h
    BY <2>3, <1>1, <1>3, <1>4 DEF Listed
  <2> QED BY <2>2, <2>4, <1>1 DEF Listed
<1> QED BY <1>3, <1>5, <1>6, <1>7 DEF Sound, t

-----------------------------------------------------------------------------
(* The actions                                                             *)

\* A step of the loop that leaves no more blocks waiting leaves the timers right.
LEMMA TimersKept ==
  ASSUME TimersSet, Fewer(f', f), UNCHANGED <<fetchTimer, completeTimer>>
  PROVE  TimersSet'
BY DEF TimersSet, Fewer

\* An import is over: its entry goes, and the allowance comes back.
LEMMA DoneInv ==
  ASSUME Inv, NEW i \in imports, Done(i)
  PROVE  Inv'
<1> DEFINE u == forgetHash(f, {i.hash})
           J == imports \ {i}
<1>1. /\ at = "select" /\ at' = "top" /\ light' = light /\ imports' = J
      /\ f' = forgetBlock(u, {i.hash})
      /\ UNCHANGED <<fetchTimer, completeTimer, chain, notified>>
  BY DEF Done, Select
<1>2. i.hash \in Blocks /\ notified \in Nat
  BY DEF Inv, TypeOK, Imports
<1>3. Sound(u, notified, imports) /\ Fewer(u, f)
  BY <1>2, ForgetHashSound DEF Inv
<1> HIDE DEF u
<1>4. /\ f' \in Maps /\ Counted(f') /\ Announcing(f') = Announcing(u)
      /\ f'.queue = u.queue /\ f'.queued = Cleared(u.queued, {i.hash}, None)
  BY <1>1, <1>2, <1>3, ForgetBlockFields DEF Sound
<1>5. Staged(f') /\ Backed(f') /\ Short(f', notified)
  BY <1>3, <1>4, SameAnnouncing DEF Sound
<1>6. Fewer(f', f)
  BY <1>3, <1>4 DEF Fewer, Announcing
<1>7. Listed(f', J)
  <2>1. Listed(u, imports)
    BY <1>3 DEF Sound
  <2>2. \A j \in imports : j.hash = i.hash => j = i
    BY <2>1 DEF Listed
  <2>3. i.hash \notin u.queue
    BY <2>1 DEF Listed
  <2>4. \A h \in Blocks : f'.queued[h] # None
                            <=> h \in f'.queue \/ \E j \in J : j.hash = h
    BY <2>1, <2>2, <2>3, <1>4 DEF Listed, Cleared
  <2> QED BY <2>1, <2>4, <1>4 DEF Listed
<1>8. Sound(f', notified', imports')
  BY <1>1, <1>4, <1>5, <1>7 DEF Sound
<1>9. TimersSet'
  BY <1>1, <1>6, TimersKept DEF Inv
<1>10. TypeOK'
  BY <1>1, <1>4 DEF Inv, TypeOK
<1> QED BY <1>8, <1>9, <1>10 DEF Inv

\* A message that touches only the maps.
LEMMA MessageKept ==
  ASSUME Inv, Select, Sound(f', notified, imports), Fewer(f', f),
         UNCHANGED <<fetchTimer, completeTimer, imports, chain, notified>>
  PROVE  Inv'
<1>1. at' = "top" /\ light' = light
  BY DEF Select
<1>2. TypeOK'
  BY <1>1 DEF Inv, TypeOK, Sound
<1>3. TimersSet'
  BY TimersKept DEF Inv
<1> QED BY <1>2, <1>3 DEF Inv

\* What the proofs of the actions start from.
LEMMA InvTypes ==
  ASSUME Inv
  PROVE  /\ f \in Maps /\ notified \in Nat /\ Sound(f, notified, imports)
         /\ Fewer(f, f)
BY DEF Inv, TypeOK, Fewer

\* A block is sent.
LEMMA InjectInv ==
  ASSUME Inv, NEW p \in Peers, NEW h \in Blocks, Inject(p, h)
  PROVE  Inv'
<1>1. /\ Select
      /\ UNCHANGED <<fetchTimer, completeTimer, imports, chain, notified>>
      /\ f' = f \/ \E fits \in Fitting(f, p, {h}) : f' = enqueue(f, p, {h}, fits)
  BY DEF Inject
<1>2. Sound(f', notified, imports) /\ Fewer(f', f)
  <2>1. CASE f' = f
    BY <2>1, InvTypes
  <2>2. ASSUME NEW fits \in Fitting(f, p, {h}), f' = enqueue(f, p, {h}, fits)
        PROVE  Sound(f', notified, imports) /\ Fewer(f', f)
    BY <2>2, InvTypes, EnqueueSound
  <2> QED BY <2>1, <2>2, <1>1
<1> QED BY <1>1, <1>2, MessageKept

\* A header that nobody asked for.
LEMMA HeaderUnknownInv ==
  ASSUME Inv, NEW p, NEW h, HeaderUnknown(p, h)
  PROVE  Inv'
<1>1. /\ Select /\ f' = f
      /\ UNCHANGED <<fetchTimer, completeTimer, imports, chain, notified>>
  BY DEF HeaderUnknown
<1>2. Sound(f', notified, imports) /\ Fewer(f', f)
  BY <1>1, InvTypes
<1> QED BY <1>1, <1>2, MessageKept

\* A header with another number than announced, or too late.
LEMMA HeaderRefusedInv ==
  ASSUME Inv, NEW p \in Peers, NEW h \in Blocks, HeaderRefused(p, h)
  PROVE  Inv'
<1>1. /\ Select /\ f' = forgetHash(f, {h})
      /\ UNCHANGED <<fetchTimer, completeTimer, imports, chain, notified>>
  BY DEF HeaderRefused
<1>2. Sound(f', notified, imports) /\ Fewer(f', f)
  BY <1>1, InvTypes, ForgetHashSound
<1> QED BY <1>1, <1>2, MessageKept

\* A header that needs no body.
LEMMA HeaderCompleteInv ==
  ASSUME Inv, NEW p \in Peers, NEW h \in Blocks, HeaderComplete(p, h)
  PROVE  Inv'
<1> DEFINE q == f.fetching[h].peer
           g == IF light THEN forgetHash(f, {h})
                ELSE [f EXCEPT !.completing[h] = q]
<1>1. /\ Select /\ HeaderWanted(p, h)
      /\ UNCHANGED <<fetchTimer, completeTimer, imports, chain, notified>>
      /\ \E fits \in Fitting(g, q, {h}) : f' = enqueue(g, q, {h}, fits)
  BY DEF HeaderComplete
<1>2. /\ f.fetching[h] # None /\ q = p
      /\ f.fetched[h] = None /\ f.completing[h] = None
  BY <1>1 DEF HeaderWanted
<1>3. Sound(g, notified, imports) /\ Fewer(g, f)
  <2>1. CASE light
    BY <2>1, InvTypes, ForgetHashSound
  <2>2. CASE ~light
    <3>1. g = [f EXCEPT !.completing[h] = q]
      BY <2>2
    <3> HIDE DEF g
    <3>2. /\ g \in Maps /\ g.completing = [f.completing EXCEPT ![h] = q]
          /\ g.announces = f.announces /\ g.announced = f.announced
          /\ g.fetching = f.fetching /\ g.fetched = f.fetched
          /\ g.queue = f.queue /\ g.queues = f.queues /\ g.queued = f.queued
      BY <3>1, <1>2, InvTypes DEF Maps
    <3>3. Staged(g)
      <4>1. Staged(f) /\ f.completing \in [Blocks -> Peers \cup {None}]
        BY DEF Inv, Sound, Maps
      <4>2. ASSUME NEW k \in Blocks, k # h PROVE g.completing[k] = f.completing[k]
        BY <3>2, <4>1, <4>2
      <4> QED BY <3>2, <4>1, <4>2, <1>2 DEF Staged
    <3>4. \A x : AnnouncedBy(g, x, Blocks) = AnnouncedBy(f, x, Blocks)
      BY <3>2 DEF AnnouncedBy
    <3>5. Counted(g) /\ Backed(g) /\ Short(g, notified) /\ Listed(g, imports)
      BY <3>2, <3>4 DEF Inv, Sound, Counted, From, Backed, Short, Listed
    <3>6. Fewer(g, f)
      BY <3>2 DEF Fewer
    <3> QED BY <3>2, <3>3, <3>5, <3>6 DEF Sound
  <2> QED BY <2>1, <2>2
<1> HIDE DEF g, q
<1>4. PICK fits \in Fitting(g, q, {h}) : f' = enqueue(g, q, {h}, fits)
  BY <1>1
<1>5. Sound(f', notified, imports) /\ Fewer(f', g)
  BY <1>2, <1>3, <1>4, InvTypes, EnqueueSound
<1>6. Fewer(f', f)
  BY <1>3, <1>5 DEF Fewer
<1> QED BY <1>1, <1>5, <1>6, MessageKept

\* Bodies arrive.
LEMMA BodyFilterInv ==
  ASSUME Inv, NEW p \in Peers, NEW B \in SUBSET Blocks, BodyFilter(p, B)
  PROVE  Inv'
<1> DEFINE matched == {h \in B : f.completing[h] = p /\ f.queued[h] = None}
           known == {h \in matched : Known(h)}
           blocks == {h \in matched : ~Known(h)}
           g == forgetHash(f, known)
<1>1. /\ Select
      /\ UNCHANGED <<fetchTimer, completeTimer, imports, chain, notified>>
      /\ \E fits \in Fitting(g, p, blocks) : f' = enqueue(g, p, blocks, fits)
  BY DEF BodyFilter
<1>2. known \in SUBSET Blocks /\ blocks \in SUBSET Blocks
  OBVIOUS
<1> HIDE DEF known, blocks
<1>3. Sound(g, notified, imports) /\ Fewer(g, f)
  BY <1>2, InvTypes, ForgetHashSound
<1> HIDE DEF g
<1>4. PICK fits \in Fitting(g, p, blocks) : f' = enqueue(g, p, blocks, fits)
  BY <1>1
<1>5. Sound(f', notified, imports) /\ Fewer(f', g)
  BY <1>2, <1>3, <1>4, InvTypes, EnqueueSound
<1>6. Fewer(f', f)
  BY <1>3, <1>5 DEF Fewer
<1> QED BY <1>1, <1>5, <1>6, MessageKept

\* A header whose body is to be fetched sets the timer if it is the first.
LEMMA HeaderIncompleteInv ==
  ASSUME Inv, NEW p \in Peers, NEW h \in Blocks, HeaderIncomplete(p, h)
  PROVE  Inv'
<1> DEFINE q == f.fetching[h].peer
           W == {k \in Blocks : f'.fetched[k] # None}
<1>1. /\ Select /\ HeaderWanted(p, h) /\ f.fetching[h].right
      /\ f' = [f EXCEPT !.fetched[h] = q]
      /\ completeTimer' = (completeTimer \/ Cardinality(W) = 1)
      /\ UNCHANGED <<fetchTimer, imports, chain, notified>>
  BY DEF HeaderIncomplete
<1>2. /\ f.fetching[h] # None /\ q = p
      /\ f.fetched[h] = None /\ f.completing[h] = None
  BY <1>1 DEF HeaderWanted
<1>3. f.fetching[h] = [peer |-> p, right |-> TRUE]
  BY <1>1, <1>2, InvTypes DEF Maps, Announcements
<1>4. /\ f' \in Maps /\ f'.fetched = [f.fetched EXCEPT ![h] = p]
      /\ f'.announces = f.announces /\ f'.announced = f.announced
      /\ f'.fetching = f.fetching /\ f'.completing = f.completing
      /\ f'.queue = f.queue /\ f'.queues = f.queues /\ f'.queued = f.queued
  BY <1>1, <1>2, InvTypes DEF Maps
<1> HIDE DEF q
<1>5. f.fetched \in [Blocks -> Peers \cup {None}] /\ p # None
  BY InvTypes, BlockFetcherAssumption DEF Maps
<1>6. Staged(f')
  <2>1. Staged(f)
    BY DEF Inv, Sound
  <2>2. f'.fetched[h] = p /\ \A k \in Blocks : k # h => f'.fetched[k] = f.fetched[k]
    BY <1>4, <1>5
  <2> QED BY <2>1, <2>2, <1>2, <1>3, <1>4 DEF Staged
<1>7. \A x : AnnouncedBy(f', x, Blocks) = AnnouncedBy(f, x, Blocks)
  BY <1>4 DEF AnnouncedBy
<1>8. Counted(f') /\ Backed(f') /\ Short(f', notified) /\ Listed(f', imports)
  BY <1>4, <1>7 DEF Inv, Sound, Counted, From, Backed, Short, Listed
<1>9. Sound(f', notified', imports')
  BY <1>1, <1>4, <1>6, <1>8 DEF Sound
<1>10. completeTimer'
  <2>1. CASE completeTimer
    BY <2>1, <1>1
  <2>2. CASE ~completeTimer
    <3>1. \A k \in Blocks : f.fetched[k] = None
      BY <2>2 DEF Inv, TimersSet
    <3>2. W = {h}
      BY <3>1, <1>4, <1>5
    <3>3. Cardinality(W) = 1
      BY <3>2, FS_Singleton
    <3> HIDE DEF W
    <3> QED BY <3>3, <1>1
  <2> QED BY <2>1, <2>2
<1>11. TimersSet'
  BY <1>1, <1>4, <1>10 DEF Inv, TimersSet
<1>12. TypeOK'
  BY <1>1, <1>4, <1>10 DEF Inv, TypeOK, Select
<1> QED BY <1>9, <1>11, <1>12 DEF Inv

\* An announcement sets the timer if its block is the first.
LEMMA NotifyInv ==
  ASSUME Inv, NEW p \in Peers, NEW h \in Blocks, NEW right \in BOOLEAN,
         Notify(p, h, right)
  PROVE  Inv'
<1> DEFINE ann == [peer |-> p, right |-> right]
           W == {k \in Blocks : f'.announced[k] # <<>>}
<1>1. /\ Select /\ notified < MaxNotify /\ notified' = notified + 1
      /\ UNCHANGED <<completeTimer, imports, chain>>
  BY DEF Notify
<1>2. f \in Maps /\ notified \in Nat /\ Sound(f, notified, imports)
  BY InvTypes
<1>3. CASE f' = f /\ fetchTimer' = fetchTimer
  <2>1. Short(f, notified + 1)
    <3>1. ASSUME NEW k \in Blocks PROVE Len(f.announced[k]) <= notified + 1
      <4>1. Len(f.announced[k]) \in Nat /\ Len(f.announced[k]) <= notified
        BY <1>2 DEF Sound, Short, Maps
      <4> QED BY <4>1, <1>2
    <3> QED BY <3>1 DEF Short
  <2>2. Sound(f', notified', imports')
    BY <2>1, <1>1, <1>2, <1>3 DEF Sound
  <2>3. TimersSet'
    BY <1>1, <1>3 DEF Inv, TimersSet
  <2>4. TypeOK'
    BY <1>1, <1>2, <1>3, BlockFetcherAssumption DEF Inv, TypeOK, Select
  <2> QED BY <2>2, <2>3, <2>4 DEF Inv
<1>4. CASE /\ f.announces[p] + 1 <= HashLimit
           /\ f.fetching[h] = None /\ f.completing[h] = None
           /\ f' = [f EXCEPT !.announces[p] = @ + 1,
                             !.announced[h] = Append(@, ann)]
           /\ fetchTimer' = (fetchTimer \/ Cardinality(W) = 1)
  <2>1. /\ f.announces \in [Peers -> 0 .. HashLimit]
        /\ f.announced \in [Blocks -> Seq(Announcements)]
        /\ f.announced[h] \in Seq(Announcements) /\ f.announces[p] \in 0 .. HashLimit
        /\ ann \in Announcements /\ HashLimit \in Nat
    BY <1>2, BlockFetcherAssumption DEF Maps, Announcements
  <2> HIDE DEF ann
  <2>2. /\ f'.announces = [f.announces EXCEPT ![p] = @ + 1]
        /\ f'.announced = [f.announced EXCEPT ![h] = Append(@, ann)]
        /\ f'.fetching = f.fetching /\ f'.fetched = f.fetched
        /\ f'.completing = f.completing
        /\ f'.queue = f.queue /\ f'.queues = f.queues /\ f'.queued = f.queued
    BY <1>2, <1>4 DEF Maps
  <2>3. f'.announces \in [Peers -> 0 .. HashLimit]
    BY <2>1, <2>2, <1>4
  <2>4. /\ Append(f.announced[h], ann) \in Seq(Announcements)
        /\ Append(f.announced[h], ann) # <<>>
        /\ Len(Append(f.announced[h], ann)) = Len(f.announced[h]) + 1
        /\ Len(f.announced[h]) \in Nat
        /\ \A i \in 1 .. Len(f.announced[h]) :
             Append(f.announced[h], ann)[i] = f.announced[h][i]
        /\ Append(f.announced[h], ann)[Len(f.announced[h]) + 1] = ann
    BY <2>1
  <2>5. /\ f'.announced \in [Blocks -> Seq(Announcements)]
        /\ f'.announced[h] = Append(f.announced[h], ann)
        /\ \A k \in Blocks : k # h => f'.announced[k] = f.announced[k]
    BY <2>1, <2>2, <2>4
  <2>6. f' \in Maps
    <3>1. f' = [f EXCEPT !.announces = f'.announces, !.announced = f'.announced]
      BY <1>2, <1>4, <2>2 DEF Maps
    <3> QED BY <1>2, <2>3, <2>5, <3>1 DEF Maps
  <2>7. Staged(f')
    <3>1. Staged(f)
      BY <1>2 DEF Sound
    <3>2. f.fetched[h] = None
      <4>1. CASE f.fetched[h] # None
        <5>1. f.fetching[h] = [peer |-> f.fetched[h], right |-> TRUE]
          BY <3>1, <4>1 DEF Staged
        <5>2. f.fetched[h] \in Peers
          BY <1>2, <4>1 DEF Maps
        <5>3. [peer |-> f.fetched[h], right |-> TRUE] \in [peer : Peers, right : BOOLEAN]
          BY <5>2
        <5>4. None \notin [peer : Peers, right : BOOLEAN]
          BY BlockFetcherAssumption
        <5>5. f.fetching[h] = None
          BY <1>4
        <5> QED BY <5>1, <5>3, <5>4, <5>5
      <4> QED BY <4>1
    <3> QED BY <3>1, <3>2, <2>2, <2>5, <1>4 DEF Staged
  <2>8. Short(f', notified + 1)
    <3>1. ASSUME NEW k \in Blocks PROVE Len(f'.announced[k]) <= notified + 1
      <4>1. Len(f.announced[k]) \in Nat /\ Len(f.announced[k]) <= notified
        BY <1>2 DEF Sound, Short, Maps
      <4>2. CASE k = h
        BY <4>1, <4>2, <2>4, <2>5, <1>2
      <4>3. CASE k # h
        BY <4>1, <4>3, <2>5, <1>2
      <4> QED BY <4>2, <4>3
    <3> QED BY <3>1 DEF Short
  <2>9. Backed(f')
    <3> DEFINE n == Len(f.announced[h]) + 1
    <3>1. n \in 1 .. MaxNotify
      <4>1. Len(f.announced[h]) <= notified
        BY <1>2 DEF Sound, Short
      <4> QED BY <4>1, <2>4, <1>1, <1>2, BlockFetcherAssumption
    <3>2. ASSUME NEW q \in Peers
          PROVE  AnnouncedBy(f, q, Blocks) \subseteq AnnouncedBy(f', q, Blocks)
      <4>1. SUFFICES ASSUME NEW x \in AnnouncedBy(f, q, Blocks)
                     PROVE  x \in AnnouncedBy(f', q, Blocks)
        OBVIOUS
      <4>2. /\ x \in Blocks \X (1 .. MaxNotify)
            /\ x[2] \in DOMAIN f.announced[x[1]]
            /\ f.announced[x[1]][x[2]].peer = q
        BY DEF AnnouncedBy
      <4>3. x[2] \in DOMAIN f'.announced[x[1]]
            /\ f'.announced[x[1]][x[2]] = f.announced[x[1]][x[2]]
        <5>1. CASE x[1] = h
          <6>1. x[2] \in 1 .. Len(f.announced[h])
            BY <5>1, <4>2, <2>1
          <6>2. DOMAIN f'.announced[h] = 1 .. Len(f.announced[h]) + 1
            BY <2>4, <2>5
          <6> QED BY <6>1, <6>2, <5>1, <2>4, <2>5
        <5>2. CASE x[1] # h
          BY <5>2, <4>2, <2>5
        <5> QED BY <5>1, <5>2
      <4> QED BY <4>2, <4>3 DEF AnnouncedBy
    <3>3. ASSUME NEW q \in Peers
          PROVE  /\ f.announces[q] <= Cardinality(AnnouncedBy(f, q, Blocks))
                 /\ f.announces[q] \in Nat
                 /\ IsFiniteSet(AnnouncedBy(f, q, Blocks))
                 /\ IsFiniteSet(AnnouncedBy(f', q, Blocks))
                 /\ Cardinality(AnnouncedBy(f, q, Blocks)) \in Nat
                 /\ Cardinality(AnnouncedBy(f', q, Blocks)) \in Nat
      <4>1. f.announces[q] <= Cardinality(AnnouncedBy(f, q, Blocks))
        BY <1>2 DEF Sound, Backed
      <4>2. f.announces[q] \in Nat
        BY <2>1
      <4> QED BY <4>1, <4>2, AnnouncedFinite
    <3>4. ASSUME NEW q \in Peers
          PROVE  f'.announces[q] <= Cardinality(AnnouncedBy(f', q, Blocks))
      <4>1. CASE q = p
        <5> DEFINE A == AnnouncedBy(f, p, Blocks)
                   B == AnnouncedBy(f', p, Blocks)
                   x == <<h, n>>
        <5>1. x \in B
          <6>1. x \in Blocks \X (1 .. MaxNotify) /\ x[1] = h /\ x[2] = n
            BY <3>1
          <6>2. n \in DOMAIN f'.announced[h] /\ f'.announced[h][n] = ann
            BY <2>4, <2>5
          <6>3. ann.peer = p
            BY DEF ann
          <6> QED BY <6>1, <6>2, <6>3 DEF AnnouncedBy
        <5>2. x \notin A
          <6>1. x[1] = h /\ x[2] = n
            OBVIOUS
          <6>2. n \notin DOMAIN f.announced[h]
            BY <2>1, <2>4
          <6> QED BY <6>1, <6>2 DEF AnnouncedBy
        <5> HIDE DEF A, B, x
        <5>3. A \cup {x} \subseteq B
          BY <5>1, <3>2 DEF A, B
        <5>4. Cardinality(A \cup {x}) = Cardinality(A) + 1
          BY <5>2, <3>3, FS_AddElement DEF A
        <5>5. Cardinality(A \cup {x}) <= Cardinality(B)
          BY <5>3, <3>3, FS_Subset DEF B
        <5>6. f'.announces[p] = f.announces[p] + 1
          BY <2>1, <2>2
        <5>7. /\ f.announces[p] <= Cardinality(A) /\ f.announces[p] \in Nat
              /\ Cardinality(A) \in Nat /\ Cardinality(B) \in Nat
          BY <3>3 DEF A, B
        <5>8. f'.announces[p] <= Cardinality(B)
          BY <5>4, <5>5, <5>6, <5>7
        <5> QED BY <5>8, <4>1 DEF B
      <4>2. CASE q # p
        <5>1. f'.announces[q] = f.announces[q]
          BY <4>2, <2>1, <2>2
        <5>2. Cardinality(AnnouncedBy(f, q, Blocks))
                <= Cardinality(AnnouncedBy(f', q, Blocks))
          BY <3>2, <3>3, FS_Subset
        <5> QED BY <5>1, <5>2, <3>3
      <4> QED BY <4>1, <4>2
    <3> QED BY <3>4 DEF Backed
  <2>10. Counted(f') /\ Listed(f', imports)
    BY <1>2, <2>2 DEF Sound, Counted, From, Listed
  <2>11. Sound(f', notified', imports')
    BY <1>1, <2>6, <2>7, <2>8, <2>9, <2>10 DEF Sound
  <2>12. fetchTimer'
    <3>1. CASE fetchTimer
      BY <3>1, <1>4
    <3>2. CASE ~fetchTimer
      <4>1. \A k \in Blocks : f.announced[k] = <<>>
        BY <3>2 DEF Inv, TimersSet
      <4>2. W = {h}
        BY <4>1, <2>4, <2>5
      <4>3. Cardinality(W) = 1
        BY <4>2, FS_Singleton
      <4> HIDE DEF W
      <4> QED BY <4>3, <1>4
    <3> QED BY <3>1, <3>2
  <2>13. TimersSet'
    BY <1>1, <2>2, <2>12 DEF Inv, TimersSet
  <2>14. TypeOK'
    BY <1>1, <1>2, <2>6, <2>12, BlockFetcherAssumption DEF Inv, TypeOK, Select
  <2> QED BY <2>11, <2>13, <2>14 DEF Inv
<1>5. \/ f' = f /\ fetchTimer' = fetchTimer
      \/ /\ f.announces[p] + 1 <= HashLimit
         /\ f.fetching[h] = None /\ f.completing[h] = None
         /\ f' = [f EXCEPT !.announces[p] = @ + 1, !.announced[h] = Append(@, ann)]
         /\ fetchTimer' = (fetchTimer \/ Cardinality(W) = 1)
  <2>1. f.announces[p] \in Nat /\ HashLimit \in Nat
    BY <1>2, BlockFetcherAssumption DEF Maps
  <2> QED BY <2>1 DEF Notify
<1> QED BY <1>3, <1>4, <1>5

\* Headers are asked for; the timer is set again if blocks are left.
LEMMA FetchTimerInv ==
  ASSUME Inv, NEW due \in SUBSET Blocks, FetchTimer(due)
  PROVE  Inv'
<1> DEFINE wanted == {h \in due : ~Known(h)}
           g == forgetHash(f, due)
<1>1. /\ Select
      /\ fetchTimer' = \E h \in Blocks : f'.announced[h] # <<>>
      /\ UNCHANGED <<completeTimer, imports, chain, notified>>
  BY DEF FetchTimer
<1>2. PICK chosen \in [wanted -> Announcements] :
        f' = [g EXCEPT !.fetching =
                [h \in Blocks |-> IF h \in wanted THEN chosen[h] ELSE @[h]]]
  BY DEF FetchTimer
<1>3. f \in Maps /\ notified \in Nat /\ Sound(f, notified, imports)
  BY InvTypes
<1>4. Sound(g, notified, imports) /\ Fewer(g, f)
  BY <1>3, ForgetHashSound
<1>5. /\ g.announced = Cleared(f.announced, due, <<>>)
      /\ g.fetched = Cleared(f.fetched, due, None)
  BY <1>3, ForgetHashFields
<1>6. wanted \subseteq due
  OBVIOUS
<1> HIDE DEF g, wanted
<1> DEFINE put == [h \in Blocks |-> IF h \in wanted THEN chosen[h] ELSE g.fetching[h]]
<1>7. g \in Maps /\ g.fetching \in [Blocks -> Announcements \cup {None}]
  BY <1>4 DEF Sound, Maps
<1>8. put \in [Blocks -> Announcements \cup {None}]
  BY <1>7
<1>9. f' = [g EXCEPT !.fetching = put]
  BY <1>2
<1> HIDE DEF put
<1>10. /\ f' \in Maps /\ f'.fetching = put
       /\ f'.announces = g.announces /\ f'.announced = g.announced
       /\ f'.fetched = g.fetched /\ f'.completing = g.completing
       /\ f'.queue = g.queue /\ f'.queues = g.queues /\ f'.queued = g.queued
  BY <1>7, <1>8, <1>9 DEF Maps
<1>11. Staged(f')
  <2>1. Staged(g)
    BY <1>4 DEF Sound
  <2>2. \A h \in wanted : g.announced[h] = <<>> /\ g.fetched[h] = None
    BY <1>5, <1>6 DEF Cleared
  <2>3. \A h \in Blocks : h \notin wanted => put[h] = g.fetching[h]
    BY DEF put
  <2> QED BY <2>1, <2>2, <2>3, <1>10 DEF Staged
<1>12. \A x : AnnouncedBy(f', x, Blocks) = AnnouncedBy(g, x, Blocks)
  BY <1>10 DEF AnnouncedBy
<1>13. Counted(f') /\ Backed(f') /\ Short(f', notified) /\ Listed(f', imports)
  BY <1>4, <1>10, <1>12 DEF Sound, Counted, From, Backed, Short, Listed
<1>14. Sound(f', notified', imports')
  BY <1>1, <1>10, <1>11, <1>13 DEF Sound
<1>15. TimersSet'
  <2>1. \A h \in Blocks : f'.fetched[h] # None => f.fetched[h] # None
    BY <1>4, <1>10 DEF Fewer
  <2> QED BY <1>1, <2>1 DEF Inv, TimersSet
<1>16. TypeOK'
  BY <1>1, <1>10 DEF Inv, TypeOK, Select
<1> QED BY <1>14, <1>15, <1>16 DEF Inv

\* All bodies are asked for, so none is left to wait for the timer.
LEMMA CompleteTimerInv ==
  ASSUME Inv, CompleteTimer
  PROVE  Inv'
<1> DEFINE due == {h \in Blocks : f.fetched[h] # None}
           g == forgetHash(f, due)
           put == [h \in Blocks |-> IF h \in due /\ ~Known(h) THEN f.fetched[h]
                                    ELSE g.completing[h]]
<1>1. /\ Select /\ completeTimer' = FALSE
      /\ f' = [g EXCEPT !.completing =
                 [h \in Blocks |-> IF h \in due /\ ~Known(h) THEN f.fetched[h]
                                   ELSE @[h]]]
      /\ UNCHANGED <<fetchTimer, imports, chain, notified>>
  BY DEF CompleteTimer
<1>2. f \in Maps /\ notified \in Nat /\ Sound(f, notified, imports)
  BY InvTypes
<1>3. due \in SUBSET Blocks
  OBVIOUS
<1>4. \A h \in Blocks : h \notin due => f.fetched[h] = None
  OBVIOUS
<1> HIDE DEF due
<1>5. Sound(g, notified, imports) /\ Fewer(g, f)
  BY <1>2, <1>3, ForgetHashSound
<1>6. /\ g.announced = Cleared(f.announced, due, <<>>)
      /\ g.fetched = Cleared(f.fetched, due, None)
  BY <1>2, <1>3, ForgetHashFields
<1> HIDE DEF g
<1>7. /\ g \in Maps /\ g.completing \in [Blocks -> Peers \cup {None}]
      /\ f.fetched \in [Blocks -> Peers \cup {None}]
  BY <1>2, <1>5 DEF Sound, Maps
<1>8. put \in [Blocks -> Peers \cup {None}]
  BY <1>7
<1>9. f' = [g EXCEPT !.completing = put]
  BY <1>1
<1>10. \A h \in Blocks : h \notin due => put[h] = g.completing[h]
  OBVIOUS
<1> HIDE DEF put
<1>11. /\ f' \in Maps /\ f'.completing = put
       /\ f'.announces = g.announces /\ f'.announced = g.announced
       /\ f'.fetched = g.fetched /\ f'.fetching = g.fetching
       /\ f'.queue = g.queue /\ f'.queues = g.queues /\ f'.queued = g.queued
  BY <1>7, <1>8, <1>9 DEF Maps
<1>12. \A h \in Blocks : g.fetched[h] = None
  BY <1>4, <1>6 DEF Cleared
<1>13. Staged(f')
  <2>1. Staged(g)
    BY <1>5 DEF Sound
  <2>2. \A h \in due : g.announced[h] = <<>>
    BY <1>3, <1>6 DEF Cleared
  <2> QED BY <2>1, <2>2, <1>10, <1>11, <1>12 DEF Staged
<1>14. \A x : AnnouncedBy(f', x, Blocks) = AnnouncedBy(g, x, Blocks)
  BY <1>11 DEF AnnouncedBy
<1>15. Counted(f') /\ Backed(f') /\ Short(f', notified) /\ Listed(f', imports)
  BY <1>5, <1>11, <1>14 DEF Sound, Counted, From, Backed, Short, Listed
<1>16. Sound(f', notified', imports')
  BY <1>1, <1>11, <1>13, <1>15 DEF Sound
<1>17. TimersSet'
  <2>1. \A h \in Blocks : f'.announced[h] # <<>> => f.announced[h] # <<>>
    BY <1>5, <1>11 DEF Fewer
  <2> QED BY <1>1, <1>11, <1>12, <2>1 DEF Inv, TimersSet
<1>18. TypeOK'
  BY <1>1, <1>11 DEF Inv, TypeOK, Select
<1> QED BY <1>16, <1>17, <1>18 DEF Inv

\* Queued blocks become imports or are forgotten.
LEMMA LoopTopInv ==
  ASSUME Inv, NEW expired \in SUBSET Blocks, LoopTop(expired)
  PROVE  Inv'
<1> DEFINE ready == {h \in f.queue : Number[h] <= Height + 1}
           stale == {h \in ready : Number[h] + MaxUncleDist < Height \/ Known(h)}
           u == forgetHash(f, expired)
           g == forgetBlock(u, stale)
           start == {[hash |-> h, peer |-> f.queued[h], at |-> "start"] :
                       h \in ready \ stale}
<1>1. /\ at' = "select"
      /\ f' = [g EXCEPT !.queue = @ \ ready]
      /\ imports' = imports \cup start
      /\ UNCHANGED <<light, fetchTimer, completeTimer, chain, notified>>
  BY DEF LoopTop
<1>2. f \in Maps /\ notified \in Nat /\ Sound(f, notified, imports)
  BY InvTypes
<1>3. ready \subseteq f.queue /\ stale \subseteq ready /\ f.queue \subseteq Blocks
  BY <1>2 DEF Maps
<1>4. ready \in SUBSET Blocks /\ stale \in SUBSET Blocks
  BY <1>3
<1>5. /\ \A i \in start : i.hash \in ready \ stale
      /\ \A h \in ready \ stale : \E i \in start : i.hash = h
      /\ \A i \in start, j \in start : i.hash = j.hash => i = j
  <2> DEFINE R == ready \ stale
             job(h) == [hash |-> h, peer |-> f.queued[h], at |-> "start"]
  <2>1. start = {job(h) : h \in R} /\ \A h : job(h).hash = h
    OBVIOUS
  <2> HIDE DEF start, job, R
  <2>2. \A i \in start : i.hash \in R /\ i = job(i.hash)
    BY <2>1
  <2>3. \A h \in R : job(h) \in start /\ job(h).hash = h
    BY <2>1
  <2> QED BY <2>2, <2>3 DEF R
<1>6. start \subseteq Imports
  <2>1. ASSUME NEW h \in ready \ stale PROVE f.queued[h] \in Peers /\ h \in Blocks
    <3>1. h \in Blocks /\ h \in f.queue
      BY <1>3
    <3>2. f.queued[h] # None /\ f.queued[h] \in Peers \cup {None}
      BY <3>1, <1>2 DEF Sound, Listed, Maps
    <3> QED BY <3>1, <3>2
  <2> HIDE DEF ready, stale
  <2> QED BY <2>1 DEF Imports
<1> HIDE DEF ready, stale, start
<1>7. Sound(u, notified, imports) /\ Fewer(u, f) /\ u.queue = f.queue /\ u.queued = f.queued
  BY <1>2, ForgetHashSound, ForgetHashFields
<1> HIDE DEF u
<1>8. /\ g \in Maps /\ Counted(g) /\ Announcing(g) = Announcing(u)
      /\ g.queue = f.queue /\ g.queued = Cleared(f.queued, stale, None)
  BY <1>4, <1>7, ForgetBlockFields DEF Sound
<1> HIDE DEF g
<1>9. /\ f' \in Maps /\ f'.queue = f.queue \ ready
      /\ f'.queued = Cleared(f.queued, stale, None)
      /\ f'.queues = g.queues /\ Announcing(f') = Announcing(u)
  <2>1. /\ f'.queue = g.queue \ ready /\ f'.queued = g.queued
        /\ f'.queues = g.queues /\ f'.announces = g.announces
        /\ f'.announced = g.announced /\ f'.fetching = g.fetching
        /\ f'.fetched = g.fetched /\ f'.completing = g.completing
        /\ f' \in Maps
    BY <1>1, <1>8 DEF Maps
  <2> QED BY <2>1, <1>8 DEF Announcing
<1>10. Staged(f') /\ Backed(f') /\ Short(f', notified)
  BY <1>7, <1>9, SameAnnouncing DEF Sound
<1>11. Counted(f')
  BY <1>8, <1>9 DEF Counted, From
<1>12. Listed(f', imports')
  <2>1. Listed(f, imports)
    BY <1>2 DEF Sound
  <2>2. \A i \in imports : i.hash \notin ready
    BY <2>1, <1>3 DEF Listed
  <2>3. \A i \in imports', j \in imports' : i.hash = j.hash => i = j
    BY <2>1, <2>2, <1>1, <1>5 DEF Listed
  <2>4. \A i \in imports' : i.hash \notin f'.queue
    BY <2>1, <1>1, <1>5, <1>9 DEF Listed
  <2>5. ASSUME NEW h \in Blocks
        PROVE  f'.queued[h] # None
                 <=> h \in f'.queue \/ \E i \in imports' : i.hash = h
    <3>1. f.queued[h] # None <=> h \in f.queue \/ \E i \in imports : i.hash = h
      BY <2>1 DEF Listed
    <3>2. f'.queued[h] = IF h \in stale THEN None ELSE f.queued[h]
      BY <1>9 DEF Cleared
    <3>3. (\E i \in imports' : i.hash = h)
            <=> (\E i \in imports : i.hash = h) \/ h \in ready \ stale
      BY <1>1, <1>5
    <3> QED BY <3>1, <3>2, <3>3, <2>2, <1>3, <1>9
  <2> QED BY <2>3, <2>4, <2>5 DEF Listed
<1>13. Sound(f', notified', imports')
  BY <1>1, <1>9, <1>10, <1>11, <1>12 DEF Sound
<1>14. Fewer(f', f)
  BY <1>7, <1>9 DEF Fewer, Announcing
<1>15. TimersSet'
  BY <1>1, <1>14, TimersKept DEF Inv
<1>16. TypeOK'
  BY <1>1, <1>6, <1>9 DEF Inv, TypeOK
<1> QED BY <1>13, <1>15, <1>16 DEF Inv

\* A goroutine goes on.
LEMMA BecomesInv ==
  ASSUME Inv, NEW i \in imports, NEW stage \in {"start", "verified", "done"},
         Becomes(i, stage), chain' \subseteq Blocks,
         UNCHANGED <<light, at, f, fetchTimer, completeTimer, notified>>
  PROVE  Inv'
<1> DEFINE j == [i EXCEPT !.at = stage]
<1>1. i \in Imports
  BY DEF Inv, TypeOK
<1>2. j \in Imports /\ j.hash = i.hash
  BY <1>1 DEF Imports
<1>3. imports' = (imports \ {i}) \cup {j}
  BY DEF Becomes
<1> HIDE DEF j
<1>4. Listed(f, imports) /\ Sound(f, notified, imports)
  BY InvTypes DEF Sound
<1>5. Listed(f', imports')
  <2>1. \A k \in imports : k.hash = i.hash => k = i
    BY <1>4 DEF Listed
  <2>2. \A k \in imports', l \in imports' : k.hash = l.hash => k = l
    BY <2>1, <1>2, <1>3, <1>4 DEF Listed
  <2>3. \A h : (\E k \in imports' : k.hash = h) <=> \E k \in imports : k.hash = h
    BY <1>2, <1>3
  <2>4. \A k \in imports' : k.hash \notin f.queue
    BY <1>2, <1>3, <1>4 DEF Listed
  <2> QED BY <2>2, <2>3, <2>4, <1>4 DEF Listed
<1>6. Sound(f', notified', imports')
  BY <1>4, <1>5 DEF Sound
<1>7. TimersSet'
  BY DEF Inv, TimersSet
<1>8. TypeOK'
  BY <1>2, <1>3 DEF Inv, TypeOK
<1> QED BY <1>6, <1>7, <1>8 DEF Inv

\* The header is verified.
LEMMA VerifyInv ==
  ASSUME Inv, NEW i \in imports, NEW ok \in BOOLEAN, Verify(i, ok)
  PROVE  Inv'
<1>1. Becomes(i, "verified") \/ Becomes(i, "done")
  BY DEF Verify
<1>2. UNCHANGED <<light, at, f, fetchTimer, completeTimer, notified>>
      /\ chain' \subseteq Blocks
  BY DEF Verify, Inv, TypeOK
<1> QED BY <1>1, <1>2, BecomesInv

\* The block is inserted.
LEMMA InsertInv ==
  ASSUME Inv, NEW i \in imports, NEW ok \in BOOLEAN, Insert(i, ok)
  PROVE  Inv'
<1>1. Becomes(i, "done")
  BY DEF Insert
<1>2. UNCHANGED <<light, at, f, fetchTimer, completeTimer, notified>>
      /\ chain' \subseteq Blocks
  BY DEF Insert, Inv, TypeOK, Imports
<1> QED BY <1>1, <1>2, BecomesInv

\* The fetcher starts with empty maps and both timers set.
LEMMA InitInv == Init => Inv
<1> SUFFICES ASSUME Init PROVE Inv
  OBVIOUS
<1>1. /\ f \in Maps
      /\ f.announces = [p \in Peers |-> 0] /\ f.announced = [h \in Blocks |-> <<>>]
      /\ f.fetching = [h \in Blocks |-> None] /\ f.fetched = [h \in Blocks |-> None]
      /\ f.queue = {} /\ f.queues = [p \in Peers |-> 0]
      /\ f.queued = [h \in Blocks |-> None]
  <2>1. /\ [p \in Peers |-> 0] \in [Peers -> 0 .. HashLimit]
        /\ [p \in Peers |-> 0] \in [Peers -> 0 .. BlockLimit]
        /\ [h \in Blocks |-> <<>>] \in [Blocks -> Seq(Announcements)]
    BY BlockFetcherAssumption
  <2> QED BY <2>1 DEF Init, Maps
<1>2. imports = {} /\ notified = 0
  BY DEF Init
<1>3. Staged(f)
  BY <1>1 DEF Staged
<1>4. Counted(f)
  <2>1. \A p \in Peers : From(f, p) = {}
    BY <1>1, BlockFetcherAssumption DEF From
  <2> QED BY <2>1, <1>1, FS_EmptySet DEF Counted
<1>5. Backed(f)
  <2>1. \A p \in Peers : f.announces[p] = 0
    BY <1>1
  <2>2. \A p \in Peers : Cardinality(AnnouncedBy(f, p, Blocks)) \in Nat
    BY AnnouncedFinite
  <2> QED BY <2>1, <2>2 DEF Backed
<1>6. Short(f, notified)
  BY <1>1, <1>2 DEF Short
<1>7. Listed(f, imports)
  BY <1>1, <1>2 DEF Listed
<1>8. Sound(f, notified, imports)
  BY <1>1, <1>3, <1>4, <1>5, <1>6, <1>7 DEF Sound
<1>9. TimersSet
  BY DEF Init, TimersSet
<1>10. TypeOK
  BY <1>1, BlockFetcherAssumption DEF Init, TypeOK
<1> QED BY <1>8, <1>9, <1>10 DEF Inv

\* Every case of the loop's select and every step of an import keeps the maps
\* sound.
LEMMA StepInv == Inv /\ [Next]_vars => Inv'
<1> SUFFICES ASSUME Inv, [Next]_vars PROVE Inv'
  OBVIOUS
<1>1. CASE Top
  BY <1>1, LoopTopInv DEF Top
<1>2. CASE Stop
  <2>1. Sound(f', notified', imports')
    BY <1>2, InvTypes DEF Stop
  <2> QED BY <2>1, <1>2 DEF Stop, Inv, TypeOK, TimersSet
<1>3. CASE Message
  BY <1>3, NotifyInv, InjectInv, HeaderUnknownInv, HeaderRefusedInv,
     HeaderCompleteInv, HeaderIncompleteInv, BodyFilterInv DEF Message
<1>4. CASE Fetch
  BY <1>4, FetchTimerInv DEF Fetch
<1>5. CASE CompleteTimer
  BY <1>5, CompleteTimerInv
<1>6. CASE Import
  BY <1>6, DoneInv, VerifyInv, InsertInv DEF Import
<1>7. ASSUME NEW h \in Blocks, Advance(h) PROVE Inv'
  <2>1. Sound(f', notified', imports')
    BY <1>7, InvTypes DEF Advance
  <2> QED BY <2>1, <1>7 DEF Advance, Inv, TypeOK, TimersSet
<1>8. CASE UNCHANGED vars
  <2>1. Sound(f', notified', imports')
    BY <1>8, InvTypes DEF vars
  <2> QED BY <2>1, <1>8 DEF vars, Inv, TypeOK, TimersSet
<1> QED BY <1>1, <1>2, <1>3, <1>4, <1>5, <1>6, <1>7, <1>8 DEF Next

\* The maps are always sound.
LEMMA AlwaysInv == Spec => []Inv
BY InitInv, StepInv, PTL DEF Spec

-----------------------------------------------------------------------------
(* The theorems                                                            *)

\* For any blocks, peers and limits, at most one goroutine imports a block at
\* a time, a block whose import runs is not queued again, and f.queued has an
\* entry exactly as long as the block is queued or imported.
THEOREM FetcherImportedOnce == Spec => []ImportedOnce
<1>1. Inv => ImportedOnce
  <2> SUFFICES ASSUME Inv, NEW h \in Blocks
               PROVE  Cardinality({i \in imports : i.hash = h})
                        + Cardinality({h} \cap f.queue)
                        = IF f.queued[h] = None THEN 0 ELSE 1
    BY DEF ImportedOnce
  <2> DEFINE I == {i \in imports : i.hash = h}
             Q == {h} \cap f.queue
  <2>1. Listed(f, imports)
    BY InvTypes DEF Sound
  <2>2. Cardinality({}) = 0 /\ \A x : Cardinality({x}) = 1
    BY FS_EmptySet, FS_Singleton
  <2>3. \/ I = {} /\ Q = {h} /\ f.queued[h] # None
        \/ (\E i : I = {i}) /\ Q = {} /\ f.queued[h] # None
        \/ I = {} /\ Q = {} /\ f.queued[h] = None
    <3>1. CASE h \in f.queue
      BY <2>1, <3>1 DEF Listed
    <3>2. CASE h \notin f.queue /\ f.queued[h] # None
      <4>1. PICK i \in imports : i.hash = h
        BY <2>1, <3>2 DEF Listed
      <4> QED BY <4>1, <2>1, <3>2 DEF Listed
    <3>3. CASE h \notin f.queue /\ f.queued[h] = None
      BY <2>1, <3>3 DEF Listed
    <3> QED BY <3>1, <3>2, <3>3
  <2> HIDE DEF I, Q
  <2>4. Cardinality(I) + Cardinality(Q) = IF f.queued[h] = None THEN 0 ELSE 1
    <3>1. /\ I = {} => Cardinality(I) = 0
          /\ Q = {} => Cardinality(Q) = 0
          /\ Q = {h} => Cardinality(Q) = 1
          /\ (\E i : I = {i}) => Cardinality(I) = 1
      BY <2>2
    <3> QED BY <2>3, <3>1
  <2> QED BY <2>4 DEF I, Q
<1> QED BY <1>1, AlwaysInv, PTL

\* For any blocks, peers and limits, a block is in one stage at a time, the
\* counts that limit a peer's blocks and announcements do not leak, and what
\* waits for fetchTimer or completeTimer has it set.
THEOREM FetcherStages == Spec => []StagesInv
<1>1. Inv => StagesInv
  BY DEF Inv, Sound, StagesInv, Staged, OneStage, Counted, From, QueuesCount,
         Backed, NotShutOut
<1> QED BY <1>1, AlwaysInv, PTL
=============================================================================
