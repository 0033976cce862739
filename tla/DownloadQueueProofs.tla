-------------------------- MODULE DownloadQueueProofs --------------------------
(***************************************************************************)
(* For any headers, peers and limits of the queue: no part of a block is   *)
(* lost, asked for twice at the same time or delivered into a slot that is *)
(* gone, through timeouts, late answers and disconnections; the processor  *)
(* does not sleep through its wakeup; and the download implements the      *)
(* ordered delivery of complete blocks.                                    *)
(***************************************************************************)
EXTENDS DownloadQueue, TLAPS, FiniteSetTheorems, SequenceTheorems,
        WellFoundedInduction

Errors == {"nil", "canceled", "fail"}
Places == {"check", "lock", "wait", "woken", "take"}
Procs == [at : Places, closed : BOOLEAN]
Syncs == [returned : SUBSET Routines, err : Errors]
Results(n) == [pending : SUBSET Wanted(n), has : SUBSET (Kinds \X Numbers)]
Block(n) == {<<k, n>> : k \in Wanted(n)}
Chains == Seq(SUBSET (Kinds \X Numbers))

\* The result store: the slots are in the window, a slot has the parts that are
\* not pending, and the count is not ahead.
StoreInv ==
  /\ offset \in 1 .. N + 1
  /\ DOMAIN slots \subseteq Numbers \cap (offset .. offset + Size - 1)
  /\ \A n \in DOMAIN slots :
       /\ slots[n] \in Results(n)
       /\ slots[n].has = {<<k, n>> : k \in Wanted(n) \ slots[n].pending}
  /\ incomplete \in 0 .. Size /\ threshold \in 1 .. Size
  /\ CountHonest

Holders(k, n) == {p \in DOMAIN pendPool[k] : n \in pendPool[k][p]}

\* Where a part of a header is: queued, in flight, or done.  A body that is done
\* has made a slot, also if it is empty.
Task(k, n) ==
  /\ n \in taskPool[k] <=> n \in taskQueue[k] \/ Holders(k, n) # {}
  /\ n \in taskQueue[k] => Holders(k, n) = {}
  /\ \A p, q \in Holders(k, n) : p = q
  /\ Holders(k, n) # {} => n \in DOMAIN slots /\ k \in slots[n].pending
  /\ n > scheduled => n \notin taskPool[k] /\ n \notin DOMAIN slots
  /\ n <= scheduled /\ n \notin taskPool[k] /\ (k = "body" \/ k \in Wanted(n)) =>
       n < offset \/ (n \in DOMAIN slots /\ k \notin slots[n].pending)

TaskInv ==
  /\ scheduled \in 0 .. N
  /\ taskPool \in [Kinds -> SUBSET Numbers]
  /\ taskQueue \in [Kinds -> SUBSET Numbers]
  /\ DOMAIN pendPool = Kinds
  /\ \A k \in Kinds :
       /\ DOMAIN pendPool[k] \subseteq Peers
       /\ \A p \in DOMAIN pendPool[k] : pendPool[k][p] \in (SUBSET Numbers) \ {{}}
  /\ \A k \in Kinds, n \in Numbers : Task(k, n)

PeerInv ==
  /\ lacking \in [Peers -> SUBSET Numbers] /\ peers \subseteq Peers
  /\ busy \in [Kinds -> SUBSET Peers]
  /\ BusyHasRequest

\* The processor does not sleep for nothing, and finds nothing only when the
\* queue is closed.
ProcInv ==
  /\ proc \in Procs /\ closed \in BOOLEAN /\ canceled \in BOOLEAN
  /\ NoLostWakeup
  /\ proc.closed => closed
  /\ proc.at = "take" /\ ~Returned("processor") => HasCompletedItems(slots) \/ closed

\* Without an error or a peer that leaves unseen: a goroutine returns when its work
\* is done, and the queue is closed for the processor when the others have returned.
SyncInv ==
  /\ sync \in Syncs
  /\ ~canceled /\ ~unseen =>
       /\ Returned("headers") => scheduled = N
       /\ \A k \in Kinds : Returned(k) => scheduled = N /\ taskPool[k] = {}
       /\ closed => Routines \ {"processor"} \subseteq sync.returned
       /\ Returned("processor") => closed /\ Len(chain) = N

\* The chain has the blocks in order, up to those that wait in the store.
ChainInv ==
  /\ chain \in Chains /\ Len(chain) <= N
  /\ \A i \in 1 .. Len(chain) : chain[i] = Block(i)
  /\ ~Returned("processor") => Len(chain) = offset - 1

\* A loop that looks for what is in flight has nothing queued, unless a peer left
\* unseen.
LoopInv ==
  /\ DOMAIN loop = Kinds /\ unseen \in BOOLEAN
  /\ \A k \in Kinds :
       /\ "at" \in DOMAIN loop[k] /\ loop[k].at \in {"select", "flying", "serve"}
       /\ ~unseen /\ loop[k].at = "flying" => scheduled = N /\ taskQueue[k] = {}

Inv == StoreInv /\ TaskInv /\ PeerInv /\ ProcInv /\ SyncInv /\ ChainInv /\ LoopInv

-----------------------------------------------------------------------------
(* Constants and types                                                     *)

\* The assumptions, by the names that the proofs need.
LEMMA Consts ==
  /\ N \in Nat /\ Size \in Nat \ {0} /\ Initial \in Nat \ {0}
  /\ MaxResults \in Nat \ {0} /\ MaxRequest \in Nat \ {0} /\ MaxQueued \in Nat \ {0}
  /\ Kinds = {"body", "receipt"}
  /\ \A n \in Numbers : n \in Nat /\ n >= 1 /\ n <= N /\ Wanted(n) \subseteq Kinds
BY QueueAssumption DEF Numbers, Kinds, Wanted

\* The types of the state.
LEMMA Types ==
  ASSUME Inv
  PROVE  /\ offset \in Nat /\ offset >= 1 /\ offset <= N + 1
         /\ DOMAIN slots \subseteq Numbers
         /\ \A n \in DOMAIN slots : n \in Nat /\ offset <= n /\ n < offset + Size
         /\ incomplete \in Nat /\ incomplete <= Size
         /\ threshold \in Nat /\ threshold >= 1 /\ threshold <= Size
         /\ scheduled \in Nat /\ scheduled <= N
         /\ proc \in Procs /\ closed \in BOOLEAN /\ canceled \in BOOLEAN
         /\ sync \in Syncs
<1>1. N \in Nat /\ Size \in Nat /\ \A n \in Numbers : n \in Nat
  BY Consts
<1>2. /\ offset \in 1 .. N + 1
      /\ DOMAIN slots \subseteq Numbers \cap (offset .. offset + Size - 1)
      /\ incomplete \in 0 .. Size /\ threshold \in 1 .. Size
  BY DEF Inv, StoreInv
<1>3. scheduled \in 0 .. N
  BY DEF Inv, TaskInv
<1>4. proc \in Procs /\ closed \in BOOLEAN /\ canceled \in BOOLEAN /\ sync \in Syncs
  BY DEF Inv, ProcInv, SyncInv
<1>5. \A n \in DOMAIN slots : n \in Nat /\ offset <= n /\ n < offset + Size
  BY <1>1, <1>2
<1> QED BY <1>1, <1>2, <1>3, <1>4, <1>5

\* The types of a slot.
LEMMA SlotTypes ==
  ASSUME Inv, NEW n \in DOMAIN slots
  PROVE  /\ slots[n] \in Results(n) /\ slots[n].pending \subseteq Wanted(n)
         /\ slots[n].has = {<<k, n>> : k \in Wanted(n) \ slots[n].pending}
BY DEF Inv, StoreInv, Results

\* The types of the tasks.
LEMMA TaskTypes ==
  ASSUME Inv, NEW k \in Kinds
  PROVE  /\ taskPool[k] \subseteq Numbers /\ taskQueue[k] \subseteq Numbers
         /\ DOMAIN taskPool = Kinds /\ DOMAIN taskQueue = Kinds /\ DOMAIN pendPool = Kinds
         /\ DOMAIN pendPool[k] \subseteq Peers
         /\ \A p \in DOMAIN pendPool[k] : pendPool[k][p] \in (SUBSET Numbers) \ {{}}
         /\ \A n \in Numbers : Task(k, n)
BY DEF Inv, TaskInv

\* What the queue has is missing, and it is scheduled.
LEMMA QueuedTasks ==
  ASSUME Inv, NEW k \in Kinds, NEW n \in taskQueue[k]
  PROVE  n \in Numbers /\ n \in taskPool[k] /\ n <= scheduled /\ Holders(k, n) = {}
<1>1. n \in Numbers /\ Task(k, n)
  BY TaskTypes
<1>2. n \in Nat /\ scheduled \in Nat
  BY <1>1, Consts, Types
<1> QED BY <1>1, <1>2 DEF Task

-----------------------------------------------------------------------------
(* The result store                                                        *)

\* The store stays what it is.
LEMMA StoreKept ==
  ASSUME StoreInv, UNCHANGED <<offset, slots, incomplete, threshold>>
  PROVE  StoreInv'
BY DEF StoreInv, CountHonest, Complete

\* What is complete stays complete.
LEMMA CountKept ==
  ASSUME CountHonest, UNCHANGED <<offset, incomplete>>,
         \A n \in DOMAIN slots : Complete(slots, n) => Complete(slots', n)
  PROVE  CountHonest'
BY DEF CountHonest, Complete

\* A new slot.
LEMMA NewResult ==
  ASSUME NEW n \in Numbers
  PROVE  LET r == newFetchResult(n) IN
         /\ r \in Results(n) /\ r.pending = Wanted(n)
         /\ r.has = {<<k, n>> : k \in Wanted(n) \ r.pending}
<1>1. newFetchResult(n) = [pending |-> Wanted(n), has |-> {}]
  BY DEF newFetchResult
<1> QED BY <1>1 DEF Results

\* The slots grow: those that were there stay, the others are new.
Grown(s) ==
  /\ DOMAIN slots \subseteq DOMAIN s
  /\ \A n \in DOMAIN slots : s[n] = slots[n]
  /\ \A n \in DOMAIN s \ DOMAIN slots :
       /\ n \in Numbers /\ offset <= n /\ n < offset + threshold
       /\ s[n] = newFetchResult(n)

\* The store with more slots is still right.
LEMMA GrownStore ==
  ASSUME Inv, Grown(slots'), UNCHANGED <<offset, incomplete, threshold>>
  PROVE  StoreInv'
<1>1. /\ offset \in Nat /\ threshold \in Nat /\ Size \in Nat /\ threshold <= Size
      /\ DOMAIN slots \subseteq Numbers /\ \A n \in Numbers : n \in Nat
      /\ \A n \in DOMAIN slots : offset <= n /\ n < offset + Size
  BY Types, Consts
<1>2. ASSUME NEW n \in DOMAIN slots' PROVE n \in Numbers \cap (offset .. offset + Size - 1)
  <2>1. CASE n \in DOMAIN slots
    BY <2>1, <1>1
  <2>2. CASE n \notin DOMAIN slots
    <3>1. n \in Numbers /\ offset <= n /\ n < offset + threshold
      BY <2>2, <1>2 DEF Grown
    <3> QED BY <3>1, <1>1
  <2> QED BY <2>1, <2>2
<1>3. ASSUME NEW n \in DOMAIN slots'
      PROVE  /\ slots'[n] \in Results(n)
             /\ slots'[n].has = {<<k, n>> : k \in Wanted(n) \ slots'[n].pending}
  <2>1. CASE n \in DOMAIN slots
    <3>1. slots'[n] = slots[n]
      BY <2>1 DEF Grown
    <3> QED BY <3>1, <2>1, SlotTypes
  <2>2. CASE n \notin DOMAIN slots
    <3>1. n \in Numbers /\ slots'[n] = newFetchResult(n)
      BY <2>2, <1>3 DEF Grown
    <3> QED BY <3>1, NewResult
  <2> QED BY <2>1, <2>2
<1>4. CountHonest'
  <2>1. \A n \in DOMAIN slots : Complete(slots, n) => Complete(slots', n)
    BY DEF Grown, Complete
  <2> QED BY <2>1, CountKept DEF Inv, StoreInv
<1> QED BY <1>2, <1>3, <1>4 DEF StoreInv, Inv

\* The headers that a peer's data is valid for are among those it was asked for,
\* and the data is theirs.
LEMMA ValidData ==
  ASSUME NEW request \in SUBSET Numbers, NEW data, NEW n \in Valid(request, data)
  PROVE  n \in request /\ data[Place(request, n)] = n
<1>1. n \in request /\ n \in Nat
  BY Consts DEF Valid
<1>2. n <= n
  BY <1>1
<1> QED BY <1>1, <1>2 DEF Valid

\* A delivery fills slots.
Filled(k, accepted) ==
  /\ DOMAIN slots' = DOMAIN slots
  /\ \A n \in DOMAIN slots :
       slots'[n] = IF n \notin accepted THEN slots[n]
                   ELSE [pending |-> slots[n].pending \ {k},
                         has |-> slots[n].has \cup {<<k, n>>}]

\* The store after a delivery is still right.
LEMMA FilledStore ==
  ASSUME Inv, NEW k \in Kinds, NEW accepted, Filled(k, accepted),
         \A n \in accepted : n \in DOMAIN slots /\ k \in slots[n].pending,
         UNCHANGED <<offset, incomplete, threshold>>
  PROVE  StoreInv'
<1>1. ASSUME NEW n \in DOMAIN slots
      PROVE  /\ slots'[n] \in Results(n)
             /\ slots'[n].has = {<<j, n>> : j \in Wanted(n) \ slots'[n].pending}
             /\ slots[n].pending = {} => slots'[n].pending = {}
  <2>1. /\ slots[n] \in Results(n) /\ slots[n].pending \subseteq Wanted(n) /\ n \in Numbers
        /\ slots[n].has = {<<j, n>> : j \in Wanted(n) \ slots[n].pending}
    BY SlotTypes, Types
  <2>2. CASE n \notin accepted
    BY <2>1, <2>2 DEF Filled
  <2>3. CASE n \in accepted
    <3> DEFINE r == [pending |-> slots[n].pending \ {k},
                     has |-> slots[n].has \cup {<<k, n>>}]
    <3>1. slots'[n] = r
      BY <2>3 DEF Filled
    <3>2. k \in slots[n].pending /\ k \in Wanted(n)
      BY <2>1, <2>3
    <3>3. r.pending = slots[n].pending \ {k} /\ r.has = slots[n].has \cup {<<k, n>>}
      OBVIOUS
    <3>4. slots[n].has \subseteq Kinds \X Numbers
      BY <2>1 DEF Results
    <3>5. r \in Results(n)
      BY <2>1, <3>4 DEF Results
    <3>6. r.has = {<<j, n>> : j \in Wanted(n) \ (slots[n].pending \ {k})}
      BY <2>1, <3>2, <3>3
    <3> QED BY <3>1, <3>2, <3>3, <3>5, <3>6
  <2> QED BY <2>2, <2>3
<1>2. DOMAIN slots' = DOMAIN slots
  BY DEF Filled
<1>3. CountHonest'
  <2>1. \A n \in DOMAIN slots : Complete(slots, n) => Complete(slots', n)
    BY <1>1, <1>2 DEF Complete
  <2> QED BY <2>1, CountKept DEF Inv, StoreInv
<1> QED BY <1>1, <1>2, <1>3 DEF StoreInv, Inv

\* A set of numbers has a least one.
LEMMA LeastNumber ==
  ASSUME NEW S \in SUBSET Nat, S # {}
  PROVE  \E n \in S : \A m \in S : n <= m
<1> DEFINE R == OpToRel(<, Nat)
<1>1. IsWellFoundedOn(R, Nat)
  BY NatLessThanWellFounded
<1> HIDE DEF R
<1>2. PICK n \in S : \A m \in S : ~(<<m, n>> \in R)
  BY <1>1, WFMin
<1>3. ASSUME NEW m \in S PROVE n <= m
  <2>1. m \in Nat /\ n \in Nat
    OBVIOUS
  <2>2. m < n => <<m, n>> \in R
    BY <2>1 DEF R, OpToRel
  <2>3. ~(m < n)
    BY <1>2, <2>2
  <2> QED BY <2>1, <2>3
<1> QED BY <1>3

\* countCompleted finds the first slot that is not complete.
LEMMA Counting ==
  ASSUME Inv
  PROVE  /\ countCompleted \in Nat /\ countCompleted <= Size
         /\ \A i \in 0 .. countCompleted - 1 : Complete(slots, offset + i)
         /\ countCompleted < Size => ~Complete(slots, offset + countCompleted)
<1> DEFINE S == {c \in incomplete .. Size : c = Size \/ ~Complete(slots, offset + c)}
           count(c) == /\ \A i \in incomplete .. c - 1 : Complete(slots, offset + i)
                       /\ c < Size => ~Complete(slots, offset + c)
<1>1. incomplete \in Nat /\ Size \in Nat /\ incomplete <= Size
  BY Types, Consts
<1>2. S \in SUBSET Nat /\ Size \in S
  BY <1>1
<1>3. PICK c \in S : \A m \in S : c <= m
  BY <1>2, LeastNumber
<1>4. c \in incomplete .. Size /\ count(c)
  <2>1. c \in incomplete .. Size /\ (c < Size => ~Complete(slots, offset + c))
    BY <1>1
  <2>2. ASSUME NEW i \in incomplete .. c - 1 PROVE Complete(slots, offset + i)
    <3>1. i \in incomplete .. Size /\ ~(c <= i)
      BY <2>1, <1>1
    <3> QED BY <3>1, <1>3
  <2> QED BY <2>1, <2>2
<1> HIDE DEF S
<1>5. countCompleted = CHOOSE d \in incomplete .. Size : count(d)
  BY DEF countCompleted
<1> HIDE DEF count
<1>6. countCompleted \in incomplete .. Size /\ count(countCompleted)
  BY <1>4, <1>5
<1> DEFINE k == countCompleted
<1>7. k \in Nat /\ k <= Size /\ incomplete <= k
  BY <1>1, <1>6
<1> HIDE DEF k
<1>8. ASSUME NEW i \in 0 .. k - 1 PROVE Complete(slots, offset + i)
  <2>1. CASE i < incomplete
    <3>1. i \in 0 .. incomplete - 1
      BY <2>1, <1>1, <1>7
    <3> QED BY <3>1 DEF Inv, StoreInv, CountHonest
  <2>2. CASE ~(i < incomplete)
    <3>1. i \in incomplete .. k - 1
      BY <2>2, <1>1, <1>7
    <3> QED BY <3>1, <1>6 DEF count, k
  <2> QED BY <2>1, <2>2
<1> QED BY <1>6, <1>7, <1>8 DEF count, k

\* How many results the processor takes.
LEMMA Taking ==
  ASSUME Inv
  PROVE  LET taken == Smaller(MaxResults, countCompleted) IN
         /\ taken \in Nat /\ taken <= countCompleted /\ taken <= Size
         /\ offset + taken <= N + 1
         /\ \A i \in 0 .. taken - 1 : Complete(slots, offset + i)
         /\ HasCompletedItems(slots) => taken > 0
<1> DEFINE c == countCompleted
           taken == Smaller(MaxResults, c)
<1>1. /\ c \in Nat /\ c <= Size /\ Size \in Nat \ {0} /\ MaxResults \in Nat \ {0}
      /\ \A i \in 0 .. c - 1 : Complete(slots, offset + i)
      /\ c < Size => ~Complete(slots, offset + c)
  BY Counting, Consts
<1> HIDE DEF c
<1>2. taken \in Nat /\ taken <= c /\ taken <= Size /\ (c > 0 => taken > 0)
  BY <1>1 DEF Smaller
<1> HIDE DEF taken
<1>3. \A i \in 0 .. taken - 1 : Complete(slots, offset + i)
  BY <1>1, <1>2
<1>4. offset + taken <= N + 1
  <2>1. CASE taken = 0
    BY <2>1, Types, Consts
  <2>2. CASE taken > 0
    <3>1. Complete(slots, offset + (taken - 1))
      BY <2>2, <1>2, <1>3
    <3>2. offset + (taken - 1) \in Numbers
      BY <3>1, Types DEF Complete
    <3> QED BY <3>2, <1>2, Types, Consts
  <2> QED BY <2>1, <2>2, <1>2
<1>5. ASSUME HasCompletedItems(slots) PROVE taken > 0
  <2>1. Complete(slots, offset) /\ offset \in Nat
    BY <1>5, Types DEF HasCompletedItems
  <2>2. offset + 0 = offset
    BY <2>1
  <2>3. c # 0
    BY <2>1, <2>2, <1>1
  <2> QED BY <2>3, <1>1, <1>2
<1> QED BY <1>2, <1>3, <1>4, <1>5 DEF c, taken

\* The processor takes results: the window moves.
LEMMA TakeStore ==
  ASSUME Inv, NEW taken, taken = Smaller(MaxResults, countCompleted),
         offset' = offset + taken,
         slots' = Restrict(slots, DOMAIN slots \ (offset .. offset + taken - 1)),
         incomplete' = countCompleted - taken, threshold' \in 1 .. Size
  PROVE  /\ StoreInv'
         /\ \A n \in DOMAIN slots : n >= offset' => n \in DOMAIN slots'
         /\ \A n \in DOMAIN slots' : n \in DOMAIN slots /\ slots'[n] = slots[n]
         /\ \A n \in DOMAIN slots \ DOMAIN slots' : slots[n].pending = {} /\ n < offset'
<1> DEFINE c == countCompleted
<1>1. /\ taken \in Nat /\ taken <= c /\ taken <= Size /\ offset + taken <= N + 1
      /\ \A i \in 0 .. taken - 1 : Complete(slots, offset + i)
  BY Taking
<1>2. /\ c \in Nat /\ c <= Size /\ \A i \in 0 .. c - 1 : Complete(slots, offset + i)
  BY Counting
<1> HIDE DEF c
<1>3. /\ Size \in Nat /\ N \in Nat /\ offset \in Nat /\ offset >= 1
      /\ DOMAIN slots \subseteq Numbers
      /\ \A n \in DOMAIN slots : n \in Nat /\ offset <= n /\ n < offset + Size
  BY Types, Consts
<1>4. /\ DOMAIN slots' = DOMAIN slots \ (offset .. offset + taken - 1)
      /\ \A n \in DOMAIN slots' : slots'[n] = slots[n]
  BY DEF Restrict
<1>5. \A n \in DOMAIN slots : n \in DOMAIN slots' <=> n >= offset + taken
  BY <1>1, <1>3, <1>4
<1>6. \A n \in DOMAIN slots' : n \in Numbers \cap (offset' .. offset' + Size - 1)
  BY <1>1, <1>3, <1>4, <1>5
<1>7. ASSUME NEW n \in DOMAIN slots \ DOMAIN slots' PROVE slots[n].pending = {}
  <2>1. n \in offset .. offset + taken - 1
    BY <1>4
  <2>2. n - offset \in 0 .. taken - 1 /\ offset + (n - offset) = n
    BY <2>1, <1>1, <1>3
  <2>3. Complete(slots, n)
    BY <2>2, <1>1
  <2> QED BY <2>3 DEF Complete
<1>8. CountHonest'
  <2>1. SUFFICES ASSUME NEW i \in 0 .. c - taken - 1
                 PROVE  Complete(slots', offset + taken + i)
    BY DEF CountHonest, c, Complete
  <2>2. taken + i \in 0 .. c - 1 /\ offset + (taken + i) = offset + taken + i
        /\ offset + taken + i >= offset + taken
    BY <1>1, <1>2, <1>3
  <2>3. Complete(slots, offset + taken + i)
    BY <2>2, <1>2
  <2> QED BY <2>2, <2>3, <1>4, <1>5 DEF Complete
<1>9. offset' \in 1 .. N + 1 /\ incomplete' \in 0 .. Size
  BY <1>1, <1>2, <1>3 DEF c
<1>10. \A n \in DOMAIN slots' :
         /\ slots'[n] \in Results(n)
         /\ slots'[n].has = {<<k, n>> : k \in Wanted(n) \ slots'[n].pending}
  BY <1>4, SlotTypes
<1>11. StoreInv'
  BY <1>6, <1>8, <1>9, <1>10 DEF StoreInv
<1>12. \A n \in DOMAIN slots \ DOMAIN slots' : n < offset'
  BY <1>1, <1>3, <1>5
<1> QED BY <1>4, <1>5, <1>7, <1>11, <1>12

-----------------------------------------------------------------------------
(* The tasks                                                               *)

\* The tasks and the slots stay what they are.
LEMMA TasksKept ==
  ASSUME TaskInv, UNCHANGED <<scheduled, taskPool, taskQueue, pendPool, offset, slots>>
  PROVE  TaskInv'
BY DEF TaskInv, Task, Holders

\* The processor takes slots that are complete.
LEMMA TakeTasks ==
  ASSUME Inv, UNCHANGED <<scheduled, taskPool, taskQueue, pendPool>>,
         offset' \in Nat, offset <= offset',
         \A n \in DOMAIN slots' : n \in DOMAIN slots /\ slots'[n] = slots[n],
         \A n \in DOMAIN slots \ DOMAIN slots' : slots[n].pending = {} /\ n < offset'
  PROVE  TaskInv'
<1>1. ASSUME NEW k \in Kinds, NEW n \in Numbers PROVE Task(k, n)'
  <2>1. Task(k, n) /\ n \in Nat /\ offset \in Nat
    BY <1>1, TaskTypes, Consts, Types
  <2>2. Holders(k, n)' = Holders(k, n)
    BY DEF Holders
  <2>3. Holders(k, n) # {} => n \in DOMAIN slots' /\ k \in slots'[n].pending
    BY <2>1 DEF Task
  <2>4. n < offset => n < offset'
    BY <2>1
  <2>5. n \in DOMAIN slots /\ k \notin slots[n].pending =>
          n < offset' \/ (n \in DOMAIN slots' /\ k \notin slots'[n].pending)
    OBVIOUS
  <2> QED BY <2>1, <2>2, <2>3, <2>4, <2>5 DEF Task
<1> QED BY <1>1 DEF Inv, TaskInv

\* Schedule adds the next headers.
LEMMA ScheduleTasks ==
  ASSUME Inv, NEW c \in 1 .. MaxQueued, Schedule(c)
  PROVE  TaskInv'
<1> DEFINE new == scheduled + 1 .. scheduled + c
           fresh(k) == {n \in new : k = "body" \/ k \in Wanted(n)}
<1>1. /\ scheduled + c <= N /\ scheduled' = scheduled + c
      /\ taskPool' = [k \in Kinds |-> taskPool[k] \cup fresh(k)]
      /\ taskQueue' = [k \in Kinds |-> taskQueue[k] \cup fresh(k)]
      /\ UNCHANGED <<pendPool, offset, slots>>
  BY DEF Schedule, store
<1>2. scheduled \in Nat /\ c \in Nat /\ N \in Nat
  BY Types, Consts
<1>3. new \subseteq Numbers /\ \A n \in new : n > scheduled /\ n <= scheduled'
  BY <1>1, <1>2 DEF Numbers
<1>4. \A n \in Numbers : n \in Nat /\ (n <= scheduled' /\ n \notin new => n <= scheduled)
  BY <1>1, <1>2, Consts
<1>5. \A n \in Numbers : n > scheduled' => n > scheduled /\ n \notin new
  BY <1>1, <1>2, <1>3, Consts
<1> HIDE DEF new
<1>6. ASSUME NEW k \in Kinds, NEW n \in Numbers PROVE Task(k, n)'
  <2>1. Task(k, n)
    BY <1>6, TaskTypes
  <2>2. Holders(k, n)' = Holders(k, n)
    BY <1>1 DEF Holders
  <2>3. /\ taskPool'[k] = taskPool[k] \cup fresh(k)
        /\ taskQueue'[k] = taskQueue[k] \cup fresh(k)
    BY <1>1
  <2>4. CASE n \in fresh(k)
    <3>1. n \in new /\ n > scheduled /\ n <= scheduled' /\ n \in Nat /\ scheduled' \in Nat
      BY <2>4, <1>1, <1>2, <1>3, Consts
    <3>2. n \notin taskPool[k] /\ Holders(k, n) = {} /\ n \notin DOMAIN slots
      BY <2>1, <3>1 DEF Task
    <3>3. ~(n > scheduled')
      BY <3>1
    <3> QED BY <2>2, <2>3, <2>4, <3>1, <3>2, <3>3 DEF Task
  <2>5. CASE n \notin fresh(k)
    <3>1. n \in new => ~(k = "body" \/ k \in Wanted(n))
      BY <2>5
    <3> QED BY <2>1, <2>2, <2>3, <2>5, <3>1, <1>1, <1>4, <1>5 DEF Task
  <2> QED BY <2>4, <2>5
<1>7. \A k \in Kinds : fresh(k) \subseteq Numbers
  BY <1>3
<1>8. taskPool' \in [Kinds -> SUBSET Numbers] /\ taskQueue' \in [Kinds -> SUBSET Numbers]
  BY <1>1, <1>7, TaskTypes
<1>9. scheduled' \in 0 .. N
  BY <1>1, <1>2
<1> QED BY <1>1, <1>6, <1>8, <1>9 DEF Inv, TaskInv

\* Requests of some peers go back to the queue, when they expire or the peers
\* leave.
LEMMA RequeueTasks ==
  ASSUME Inv, NEW G,
         taskQueue' = [k \in Kinds |-> Requeue(k, G[k])],
         pendPool' = [k \in Kinds |-> Unpend(k, G[k])],
         UNCHANGED <<scheduled, taskPool, offset, slots>>
  PROVE  TaskInv'
<1>1. \A k \in Kinds : DOMAIN pendPool'[k] = DOMAIN pendPool[k] \ G[k]
  BY DEF Unpend, Restrict
<1>2. \A k \in Kinds : \A p \in DOMAIN pendPool'[k] : pendPool'[k][p] = pendPool[k][p]
  BY DEF Unpend, Restrict
<1>3. ASSUME NEW k \in Kinds
      PROVE  \A n : n \in taskQueue'[k] <=>
                      \/ n \in taskQueue[k]
                      \/ \E p \in G[k] \cap DOMAIN pendPool[k] : n \in pendPool[k][p]
  BY <1>3 DEF Requeue
<1>4. ASSUME NEW k \in Kinds, NEW n \in Numbers PROVE Task(k, n)'
  <2>1. Task(k, n)
    BY <1>4, TaskTypes
  <2>2. Holders(k, n)' = Holders(k, n) \ G[k]
    BY <1>1, <1>2 DEF Holders
  <2>3. n \in taskQueue'[k] <=> n \in taskQueue[k] \/ Holders(k, n) \cap G[k] # {}
    BY <1>3 DEF Holders
  <2> QED BY <2>1, <2>2, <2>3 DEF Task
<1>5. ASSUME NEW k \in Kinds
      PROVE  /\ taskQueue'[k] \subseteq Numbers /\ DOMAIN pendPool'[k] \subseteq Peers
             /\ \A p \in DOMAIN pendPool'[k] : pendPool'[k][p] \in (SUBSET Numbers) \ {{}}
  <2>1. /\ taskQueue[k] \subseteq Numbers /\ DOMAIN pendPool[k] \subseteq Peers
        /\ \A p \in DOMAIN pendPool[k] : pendPool[k][p] \in (SUBSET Numbers) \ {{}}
    BY <1>5, TaskTypes
  <2>2. ASSUME NEW n \in taskQueue'[k] PROVE n \in Numbers
    BY <2>1, <2>2, <1>3, <1>5
  <2>3. DOMAIN pendPool'[k] \subseteq DOMAIN pendPool[k]
    BY <1>1, <1>5
  <2>4. \A p \in DOMAIN pendPool'[k] : pendPool'[k][p] \in (SUBSET Numbers) \ {{}}
    BY <2>1, <2>3, <1>2, <1>5
  <2> QED BY <2>1, <2>2, <2>3, <2>4
<1>6. taskQueue' \in [Kinds -> SUBSET Numbers]
  BY <1>5
<1> QED BY <1>4, <1>5, <1>6 DEF Inv, TaskInv

\* What reserveHeaders takes from the queue, and the slots it makes.
LEMMA Reserved ==
  ASSUME Inv, NEW k \in Kinds, NEW p \in Peers, NEW c \in 1 .. MaxRequest
  PROVE  LET r == Reservation(k, p, c) IN
         /\ r.send \subseteq taskQueue[k] /\ r.dropped \subseteq taskQueue[k]
         /\ r.send \cap r.dropped = {}
         /\ Grown(r.slots)
         /\ \A n \in DOMAIN r.slots \ DOMAIN slots : n \in taskQueue[k]
         /\ \A n \in r.send : n \in DOMAIN r.slots /\ k \in r.slots[n].pending
         /\ \A n \in r.dropped :
              n < offset \/ (n \in DOMAIN r.slots /\ k \notin r.slots[n].pending)
<1> DEFINE queue == taskQueue[k]
           inside == {n \in queue : n < offset + threshold}
           result(n) == IF n \in DOMAIN slots THEN slots[n] ELSE newFetchResult(n)
           missing == {n \in inside : n >= offset /\ k \in result(n).pending}
           send == Smallest(missing \ lacking[p], c)
           seen == IF Cardinality(send) < c THEN inside
                   ELSE {n \in inside : \E m \in send : n <= m}
           skip == (seen \cap missing) \ send
           D == DOMAIN slots \cup {m \in seen : m >= offset}
           r == Reservation(k, p, c)
<1>1. /\ r.send = send /\ r.dropped = seen \ missing
      /\ r.slots = [n \in D |-> result(n)]
  BY DEF Reservation
<1>2. \A n \in queue : n \in Numbers /\ n \in Nat
  BY TaskTypes, Consts
<1>3. send \subseteq missing
  BY DEF Smallest
<1> HIDE DEF send
<1>4. send \subseteq seen /\ seen \subseteq inside
  <2>1. \A n \in send : n \in inside /\ n <= n
    BY <1>2, <1>3
  <2> QED BY <2>1
<1> HIDE DEF seen, r
<1>5. offset \in Nat
  BY Types
<1>6. DOMAIN r.slots = D /\ \A n \in D : r.slots[n] = result(n)
  BY <1>1
<1>7. \A n \in D \ DOMAIN slots : n \in inside /\ n >= offset
  BY <1>4
<1>8. \A n \in D \ DOMAIN slots : r.slots[n] = newFetchResult(n)
  BY <1>6
<1>9. \A n \in DOMAIN slots : n \in D /\ r.slots[n] = slots[n]
  BY <1>6
<1>10. Grown(r.slots)
  <2>1. \A n \in D \ DOMAIN slots : n \in Numbers /\ offset <= n /\ n < offset + threshold
    BY <1>2, <1>5, <1>7
  <2> QED BY <2>1, <1>6, <1>8, <1>9 DEF Grown
<1>11. ASSUME NEW n \in send PROVE n \in DOMAIN r.slots /\ k \in r.slots[n].pending
  <2>1. n \in D /\ k \in result(n).pending
    BY <1>3, <1>4
  <2> QED BY <2>1, <1>6
<1>12. ASSUME NEW n \in seen \ missing
       PROVE  n < offset \/ (n \in DOMAIN r.slots /\ k \notin r.slots[n].pending)
  <2>1. n \in inside /\ n \in Nat
    BY <1>2, <1>4
  <2>2. CASE n >= offset
    <3>1. n \in D /\ k \notin result(n).pending
      BY <2>1, <2>2
    <3> QED BY <3>1, <1>6
  <2> QED BY <2>1, <2>2, <1>5
<1>13. r.send \subseteq queue /\ r.dropped \subseteq queue /\ r.send \cap r.dropped = {}
  BY <1>1, <1>3, <1>4
<1>14. \A n \in DOMAIN r.slots \ DOMAIN slots : n \in queue
  BY <1>6, <1>7
<1> QED BY <1>1, <1>10, <1>11, <1>12, <1>13, <1>14 DEF r

\* reserveHeaders: tasks are sent to a peer, or are found to be done.
LEMMA ReserveTasks ==
  ASSUME Inv, NEW k \in Kinds, NEW p \in Peers, p \notin DOMAIN pendPool[k],
         NEW send \in SUBSET taskQueue[k], NEW dropped \in SUBSET taskQueue[k],
         send \cap dropped = {}, Grown(slots'),
         \A n \in DOMAIN slots' \ DOMAIN slots : \E j \in Kinds : n \in taskQueue[j],
         \A n \in send : n \in DOMAIN slots' /\ k \in slots'[n].pending,
         \A n \in dropped :
           n < offset \/ (n \in DOMAIN slots' /\ k \notin slots'[n].pending),
         taskQueue' = [taskQueue EXCEPT ![k] = @ \ (send \cup dropped)],
         taskPool' = [taskPool EXCEPT ![k] = @ \ dropped],
         DOMAIN pendPool' = Kinds, \A j \in Kinds \ {k} : pendPool'[j] = pendPool[j],
         DOMAIN pendPool'[k] = DOMAIN pendPool[k] \cup (IF send = {} THEN {} ELSE {p}),
         \A q \in DOMAIN pendPool[k] : pendPool'[k][q] = pendPool[k][q],
         send # {} => pendPool'[k][p] = send,
         UNCHANGED <<scheduled, offset>>
  PROVE  TaskInv'
<1>1. ASSUME NEW j \in Kinds
      PROVE  /\ taskPool[j] \subseteq Numbers /\ taskQueue[j] \subseteq Numbers
             /\ DOMAIN taskPool = Kinds /\ DOMAIN taskQueue = Kinds
             /\ DOMAIN pendPool[j] \subseteq Peers
             /\ \A q \in DOMAIN pendPool[j] : pendPool[j][q] \in (SUBSET Numbers) \ {{}}
             /\ \A n \in Numbers : Task(j, n)
  BY <1>1, TaskTypes
<1>2. /\ taskQueue'[k] = taskQueue[k] \ (send \cup dropped)
      /\ taskPool'[k] = taskPool[k] \ dropped
      /\ \A j \in Kinds \ {k} : taskQueue'[j] = taskQueue[j] /\ taskPool'[j] = taskPool[j]
  BY <1>1
<1>3. \A n \in DOMAIN slots : n \in DOMAIN slots' /\ slots'[n] = slots[n]
  BY DEF Grown
<1>4. \A n \in DOMAIN slots' \ DOMAIN slots : n \in Numbers /\ ~(n > scheduled)
  <2>1. SUFFICES ASSUME NEW n \in DOMAIN slots' \ DOMAIN slots
                 PROVE  n \in Numbers /\ ~(n > scheduled)
    OBVIOUS
  <2>2. PICK j \in Kinds : n \in taskQueue[j]
    OBVIOUS
  <2>3. n \in Numbers /\ n <= scheduled
    BY <2>2, QueuedTasks
  <2> QED BY <2>3, Consts, Types
<1>5. ASSUME NEW j \in Kinds \ {k}, NEW n \in Numbers PROVE Task(j, n)'
  <2>1. Task(j, n)
    BY <1>1
  <2>2. Holders(j, n)' = Holders(j, n)
    BY DEF Holders
  <2> QED BY <2>1, <2>2, <1>2, <1>3, <1>4 DEF Task
<1>6. ASSUME NEW n \in Numbers PROVE Task(k, n)'
  <2>1. Task(k, n)
    BY <1>1
  <2>2. CASE n \in send
    <3>1. n \in taskPool[k] /\ Holders(k, n) = {} /\ n <= scheduled /\ n \notin dropped
      BY <2>2, QueuedTasks
    <3>2. Holders(k, n)' = {p}
      BY <2>2, <3>1 DEF Holders
    <3>3. n \in taskPool'[k] /\ n \notin taskQueue'[k] /\ ~(n > scheduled)
      BY <2>2, <3>1, <1>2, Types, Consts
    <3> QED BY <2>2, <3>2, <3>3 DEF Task
  <2>3. CASE n \in dropped
    <3>1. n \in taskPool[k] /\ Holders(k, n) = {} /\ n <= scheduled /\ n \notin send
      BY <2>3, QueuedTasks
    <3>2. Holders(k, n)' = {}
      BY <3>1 DEF Holders
    <3>3. n \notin taskPool'[k] /\ n \notin taskQueue'[k] /\ ~(n > scheduled)
      BY <2>3, <3>1, <1>2, Types, Consts
    <3> QED BY <2>3, <3>2, <3>3 DEF Task
  <2>4. CASE n \notin send /\ n \notin dropped
    <3>1. Holders(k, n)' = Holders(k, n)
      BY <2>4 DEF Holders
    <3>2. /\ n \in taskPool'[k] <=> n \in taskPool[k]
          /\ n \in taskQueue'[k] <=> n \in taskQueue[k]
      BY <2>4, <1>2
    <3> QED BY <2>1, <3>1, <3>2, <1>3, <1>4 DEF Task
  <2> QED BY <2>2, <2>3, <2>4
<1>7. \A q \in DOMAIN pendPool'[k] :
        q \in Peers /\ pendPool'[k][q] \in (SUBSET Numbers) \ {{}}
  <2>1. SUFFICES ASSUME NEW q \in DOMAIN pendPool'[k]
                 PROVE  q \in Peers /\ pendPool'[k][q] \in (SUBSET Numbers) \ {{}}
    OBVIOUS
  <2>2. CASE q \in DOMAIN pendPool[k]
    BY <2>2, <1>1
  <2>3. CASE q \notin DOMAIN pendPool[k]
    <3>1. q = p /\ send # {}
      BY <2>3
    <3> QED BY <3>1, <1>1
  <2> QED BY <2>2, <2>3
<1>8. taskPool' \in [Kinds -> SUBSET Numbers] /\ taskQueue' \in [Kinds -> SUBSET Numbers]
  BY <1>1, <1>2
<1>9. scheduled' \in 0 .. N
  BY DEF Inv, TaskInv
<1>10. \A j \in Kinds : /\ DOMAIN pendPool'[j] \subseteq Peers
                        /\ \A q \in DOMAIN pendPool'[j] :
                             pendPool'[j][q] \in (SUBSET Numbers) \ {{}}
  BY <1>1, <1>7
<1>11. \A j \in Kinds, n \in Numbers : Task(j, n)'
  BY <1>5, <1>6
<1> QED BY <1>8, <1>9, <1>10, <1>11 DEF TaskInv

\* A delivery: what is accepted is done, the rest goes back to the queue.
LEMMA DeliverTasks ==
  ASSUME Inv, NEW k \in Kinds, NEW p \in DOMAIN pendPool[k],
         NEW accepted \in SUBSET pendPool[k][p], Filled(k, accepted),
         pendPool' = [pendPool EXCEPT ![k] = Unpend(k, {p})],
         taskPool' = [taskPool EXCEPT ![k] = @ \ accepted],
         taskQueue' = [taskQueue EXCEPT ![k] = @ \cup (pendPool[k][p] \ accepted)],
         UNCHANGED <<scheduled, offset>>
  PROVE  TaskInv'
<1> DEFINE request == pendPool[k][p]
<1>1. ASSUME NEW j \in Kinds
      PROVE  /\ taskPool[j] \subseteq Numbers /\ taskQueue[j] \subseteq Numbers
             /\ DOMAIN taskPool = Kinds /\ DOMAIN taskQueue = Kinds
             /\ DOMAIN pendPool = Kinds /\ DOMAIN pendPool[j] \subseteq Peers
             /\ \A q \in DOMAIN pendPool[j] : pendPool[j][q] \in (SUBSET Numbers) \ {{}}
             /\ \A n \in Numbers : Task(j, n)
  BY <1>1, TaskTypes
<1>2. /\ taskQueue'[k] = taskQueue[k] \cup (request \ accepted)
      /\ taskPool'[k] = taskPool[k] \ accepted
      /\ \A j \in Kinds \ {k} : taskQueue'[j] = taskQueue[j] /\ taskPool'[j] = taskPool[j]
  BY <1>1
<1>3. DOMAIN pendPool' = Kinds /\ \A j \in Kinds \ {k} : pendPool'[j] = pendPool[j]
  BY <1>1
<1>4. pendPool'[k] = [q \in DOMAIN pendPool[k] \ {p} |-> pendPool[k][q]]
  BY <1>1 DEF Unpend, Restrict
<1>5. /\ DOMAIN pendPool'[k] = DOMAIN pendPool[k] \ {p}
      /\ \A q \in DOMAIN pendPool[k] \ {p} : pendPool'[k][q] = pendPool[k][q]
  BY <1>4
<1>6. DOMAIN slots' = DOMAIN slots
  BY DEF Filled
<1>7. ASSUME NEW n \in DOMAIN slots
      PROVE  /\ n \notin accepted => slots'[n].pending = slots[n].pending
             /\ n \in accepted => slots'[n].pending = slots[n].pending \ {k}
  BY <1>7 DEF Filled
<1>8. ASSUME NEW j \in Kinds \ {k}, NEW n \in Numbers PROVE Task(j, n)'
  <2>1. Task(j, n)
    BY <1>1
  <2>2. Holders(j, n)' = Holders(j, n)
    BY <1>3 DEF Holders
  <2>3. n \in DOMAIN slots => (j \in slots'[n].pending <=> j \in slots[n].pending)
    BY <1>7
  <2> QED BY <2>1, <2>2, <2>3, <1>2, <1>6 DEF Task
<1>9. ASSUME NEW n \in Numbers PROVE Task(k, n)'
  <2>1. Task(k, n)
    BY <1>1
  <2>2. Holders(k, n)' = Holders(k, n) \ {p}
    BY <1>5 DEF Holders
  <2>3. CASE n \in request
    <3>1. p \in Holders(k, n)
      BY <2>3 DEF Holders
    <3>2. /\ Holders(k, n)' = {} /\ n \in taskPool[k] /\ n \notin taskQueue[k]
          /\ n \in DOMAIN slots /\ k \in slots[n].pending /\ ~(n > scheduled)
      BY <2>1, <2>2, <3>1 DEF Task
    <3>3. CASE n \in accepted
      <4>1. n \notin taskPool'[k] /\ n \notin taskQueue'[k] /\ k \notin slots'[n].pending
        BY <3>2, <3>3, <1>2, <1>7
      <4> QED BY <3>2, <4>1, <1>6 DEF Task
    <3>4. CASE n \notin accepted
      <4>1. n \in taskPool'[k] /\ n \in taskQueue'[k]
        BY <2>3, <3>2, <3>4, <1>2
      <4> QED BY <3>2, <4>1, <1>6 DEF Task
    <3> QED BY <3>3, <3>4
  <2>4. CASE n \notin request
    <3>1. Holders(k, n)' = Holders(k, n)
      BY <2>2, <2>4 DEF Holders
    <3>2. /\ n \in taskPool'[k] <=> n \in taskPool[k]
          /\ n \in taskQueue'[k] <=> n \in taskQueue[k]
          /\ n \notin accepted
      BY <2>4, <1>2
    <3>3. n \in DOMAIN slots => slots'[n].pending = slots[n].pending
      BY <3>2, <1>7
    <3> QED BY <2>1, <3>1, <3>2, <3>3, <1>6 DEF Task
  <2> QED BY <2>3, <2>4
<1>10. request \subseteq Numbers
  BY <1>1
<1>11. taskPool' \in [Kinds -> SUBSET Numbers] /\ taskQueue' \in [Kinds -> SUBSET Numbers]
  BY <1>1, <1>10
<1>12. \A j \in Kinds : /\ DOMAIN pendPool'[j] \subseteq Peers
                        /\ \A q \in DOMAIN pendPool'[j] :
                             pendPool'[j][q] \in (SUBSET Numbers) \ {{}}
  <2>1. ASSUME NEW j \in Kinds \ {k}
        PROVE  /\ DOMAIN pendPool'[j] \subseteq Peers
               /\ \A q \in DOMAIN pendPool'[j] : pendPool'[j][q] \in (SUBSET Numbers) \ {{}}
    <3>1. pendPool'[j] = pendPool[j]
      BY <1>3
    <3> QED BY <3>1, <1>1
  <2>2. DOMAIN pendPool[k] \subseteq Peers
        /\ \A q \in DOMAIN pendPool[k] : pendPool[k][q] \in (SUBSET Numbers) \ {{}}
    BY <1>1
  <2>3. /\ DOMAIN pendPool'[k] \subseteq Peers
        /\ \A q \in DOMAIN pendPool'[k] : pendPool'[k][q] \in (SUBSET Numbers) \ {{}}
    BY <2>2, <1>5
  <2> QED BY <2>1, <2>3
<1>13. scheduled' \in 0 .. N
  BY DEF Inv, TaskInv
<1>14. \A j \in Kinds, n \in Numbers : Task(j, n)'
  BY <1>8, <1>9
<1> QED BY <1>3, <1>11, <1>12, <1>13, <1>14 DEF TaskInv

-----------------------------------------------------------------------------
(* The peers                                                               *)

\* The idle flags stay what they are.
LEMMA PeersKept ==
  ASSUME PeerInv, UNCHANGED <<lacking, peers, busy, pendPool>>, canceled => canceled'
  PROVE  PeerInv'
BY DEF PeerInv, BusyHasRequest

\* Requests expire: the tasks go back, and the peers become idle or are dropped.
LEMMA ExpiredInv ==
  ASSUME Inv, NEW k \in Kinds, NEW ps \in SUBSET DOMAIN pendPool[k], NEW seen \in SUBSET ps,
         Expired(k, ps, seen), seen = ps \/ canceled', canceled => canceled',
         UNCHANGED <<scheduled, taskPool, offset, slots, lacking>>
  PROVE  TaskInv' /\ PeerInv'
<1> DEFINE dropped == {p \in seen \cap peers : Cardinality(pendPool[k][p]) <= MinFails}
           gone(j) == IF j = k THEN ps \cup dropped ELSE dropped
           G == [j \in Kinds |-> gone(j)]
<1>1. /\ taskQueue' = [j \in Kinds |-> Requeue(j, gone(j))]
      /\ pendPool' = [j \in Kinds |-> Unpend(j, gone(j))]
      /\ peers' = peers \ dropped /\ busy' = [busy EXCEPT ![k] = @ \ seen]
  BY DEF Expired
<1>2. dropped \subseteq ps
  OBVIOUS
<1> HIDE DEF dropped
<1>3. /\ taskQueue' = [j \in Kinds |-> Requeue(j, G[j])]
      /\ pendPool' = [j \in Kinds |-> Unpend(j, G[j])]
  BY <1>1
<1>4. TaskInv'
  <2> HIDE DEF G
  <2> QED BY <1>3, RequeueTasks
<1>5. /\ lacking \in [Peers -> SUBSET Numbers] /\ peers \subseteq Peers
      /\ busy \in [Kinds -> SUBSET Peers]
      /\ ~canceled => \A j \in Kinds : busy[j] \cap peers \subseteq DOMAIN pendPool[j]
  BY DEF Inv, PeerInv, BusyHasRequest
<1>6. ASSUME ~canceled', NEW j \in Kinds
      PROVE  busy'[j] \cap peers' \subseteq DOMAIN pendPool'[j]
  <2>1. DOMAIN pendPool'[j] = DOMAIN pendPool[j] \ gone(j)
    BY <1>1, <1>6 DEF Unpend, Restrict
  <2>2. CASE j = k
    <3>1. busy'[j] = busy[j] \ ps
      BY <2>2, <1>1, <1>5, <1>6
    <3> QED BY <2>1, <2>2, <3>1, <1>1, <1>2, <1>5, <1>6
  <2>3. CASE j # k
    <3>1. busy'[j] = busy[j]
      BY <2>3, <1>1, <1>5
    <3> QED BY <2>1, <2>3, <3>1, <1>1, <1>5, <1>6
  <2> QED BY <2>2, <2>3
<1>7. busy' \in [Kinds -> SUBSET Peers] /\ peers' \subseteq Peers
  BY <1>1, <1>5
<1>8. PeerInv'
  BY <1>5, <1>6, <1>7 DEF PeerInv, BusyHasRequest
<1> QED BY <1>4, <1>8

-----------------------------------------------------------------------------
(* The processor and spawnSync                                             *)

\* Woken wakes a processor that waits, and nobody else.
LEMMA WokenProc ==
  ASSUME NEW pr \in Procs, NEW s
  PROVE  /\ Woken(pr, s) \in Procs /\ Woken(pr, s).closed = pr.closed
         /\ Woken(pr, s).at = "wait" => pr.at = "wait" /\ ~s
         /\ Woken(pr, s).at = "take" => pr.at = "take"
         /\ pr.at # "wait" => Woken(pr, s) = pr
BY DEF Woken, Procs, Places

\* The processor is told when the first slot is complete or the queue is closed.
LEMMA ProcWoken ==
  ASSUME Inv, NEW s, proc' = Woken(proc, s), closed' \in BOOLEAN, canceled' \in BOOLEAN,
         closed => closed', ~s => ~HasCompletedItems(slots)' \/ HasCompletedItems(slots),
         HasCompletedItems(slots) => HasCompletedItems(slots)',
         ~s => closed' = closed, Returned("processor") => Returned("processor")'
  PROVE  ProcInv'
<1>1. /\ proc \in Procs /\ NoLostWakeup /\ (proc.closed => closed)
      /\ proc.at = "take" /\ ~Returned("processor") => HasCompletedItems(slots) \/ closed
  BY DEF Inv, ProcInv
<1>2. /\ proc' \in Procs /\ proc'.closed = proc.closed
      /\ proc'.at = "wait" => proc.at = "wait" /\ ~s
      /\ proc'.at = "take" => proc.at = "take"
  BY <1>1, WokenProc
<1>3. NoLostWakeup'
  BY <1>1, <1>2 DEF NoLostWakeup
<1> QED BY <1>1, <1>2, <1>3 DEF ProcInv

\* The processor is not concerned.
LEMMA ProcKept ==
  ASSUME Inv, UNCHANGED <<proc, closed, offset, slots>>, canceled' \in BOOLEAN,
         Returned("processor") => Returned("processor")'
  PROVE  ProcInv'
BY DEF Inv, ProcInv, NoLostWakeup, HasCompletedItems, Complete

\* A goroutine returns.
LEMMA ReturnTypes ==
  ASSUME Inv, NEW g \in Routines, NEW err \in Errors, NEW pr, Return(g, err, pr)
  PROVE  /\ sync' \in Syncs /\ sync'.returned = sync.returned \cup {g}
         /\ closed' \in BOOLEAN /\ canceled' \in BOOLEAN /\ (closed => closed')
         /\ canceled' = (canceled \/ err = "fail")
         /\ \E s \in BOOLEAN :
              /\ proc' = Woken(pr, s) /\ closed' = (closed \/ s)
              /\ s => err = "fail" \/ Cardinality(Routines \ sync'.returned) <= 1
<1> DEFINE returned == sync.returned \cup {g}
           error == IF sync.err = "fail" THEN "fail" ELSE err
           close == err = "fail" \/ Cardinality(Routines \ returned) <= 1
<1>1. /\ sync' = [returned |-> returned, err |-> error]
      /\ closed' = (closed \/ close) /\ canceled' = (canceled \/ err = "fail")
      /\ proc' = Woken(pr, close)
  BY DEF Return
<1>2. sync \in Syncs /\ closed \in BOOLEAN /\ canceled \in BOOLEAN
  BY Types
<1>3. returned \in SUBSET Routines /\ error \in Errors
  BY <1>2 DEF Syncs, Errors
<1>4. close \in BOOLEAN
  OBVIOUS
<1>5. sync'.returned = returned
  BY <1>1
<1>6. close => err = "fail" \/ Cardinality(Routines \ sync'.returned) <= 1
  BY <1>5
<1> HIDE DEF returned, error, close
<1>7. sync' \in Syncs
  BY <1>1, <1>3 DEF Syncs
<1>8. closed' \in BOOLEAN /\ canceled' \in BOOLEAN /\ (closed => closed')
  BY <1>1
<1>9. \E s \in BOOLEAN :
        /\ proc' = Woken(pr, s) /\ closed' = (closed \/ s)
        /\ s => err = "fail" \/ Cardinality(Routines \ sync'.returned) <= 1
  BY <1>1, <1>4, <1>6
<1> QED BY <1>1, <1>5, <1>7, <1>8, <1>9 DEF returned

\* The processor after a return of another goroutine.
LEMMA ReturnProc ==
  ASSUME Inv, NEW g \in Routines, NEW err \in Errors, Return(g, err, proc),
         UNCHANGED <<offset, slots>>
  PROVE  ProcInv'
<1>1. /\ closed' \in BOOLEAN /\ canceled' \in BOOLEAN /\ (closed => closed')
      /\ sync'.returned = sync.returned \cup {g}
  BY ReturnTypes
<1>2. PICK s \in BOOLEAN : proc' = Woken(proc, s) /\ closed' = (closed \/ s)
  BY ReturnTypes
<1>3. ~s => closed' = closed
  BY <1>2, Types
<1>4. HasCompletedItems(slots)' <=> HasCompletedItems(slots)
  BY DEF HasCompletedItems, Complete
<1>5. Returned("processor") => Returned("processor")'
  BY <1>1 DEF Returned
<1> QED BY <1>1, <1>2, <1>3, <1>4, <1>5, ProcWoken

\* A set with at most one element.
LEMMA AtMostOne ==
  ASSUME NEW S, IsFiniteSet(S), Cardinality(S) <= 1, NEW x \in S
  PROVE  S = {x}
<1>1. SUFFICES ASSUME NEW y \in S, y # x PROVE FALSE
  OBVIOUS
<1> DEFINE T == {x, y}
<1>2. T \subseteq S /\ IsFiniteSet(T) /\ Cardinality(T) = 2
  <2>1. IsFiniteSet({x}) /\ Cardinality({x}) = 1
    BY FS_Singleton
  <2>2. IsFiniteSet({x} \cup {y}) /\ Cardinality({x} \cup {y}) = Cardinality({x}) + 1
    BY <1>1, <2>1, FS_AddElement
  <2>3. {x} \cup {y} = T
    OBVIOUS
  <2> QED BY <1>1, <2>1, <2>2, <2>3
<1> HIDE DEF T
<1>3. Cardinality(T) <= Cardinality(S) /\ Cardinality(S) \in Nat
  BY <1>2, FS_Subset, FS_CardinalityType
<1> QED BY <1>2, <1>3

\* spawnSync after a return, if the goroutine had done its work.
LEMMA ReturnSync ==
  ASSUME Inv, NEW g \in Routines, ~Returned(g), NEW err \in Errors, NEW pr,
         Return(g, err, pr), UNCHANGED <<scheduled, taskPool, chain>>,
         err = "canceled" => canceled, unseen => unseen',
         err = "nil" /\ ~canceled /\ ~unseen =>
           /\ g = "headers" => scheduled = N
           /\ g \in Kinds => scheduled = N /\ taskPool[g] = {}
           /\ g = "processor" => closed /\ Len(chain) = N
  PROVE  SyncInv'
<1>1. /\ sync' \in Syncs /\ sync'.returned = sync.returned \cup {g}
      /\ canceled' = (canceled \/ err = "fail") /\ (closed => closed')
  BY ReturnTypes
<1>2. SUFFICES ASSUME ~canceled', ~unseen'
               PROVE  /\ Returned("headers")' => scheduled' = N
                      /\ \A k \in Kinds : Returned(k)' =>
                           scheduled' = N /\ taskPool'[k] = {}
                      /\ closed' => Routines \ {"processor"} \subseteq sync'.returned
                      /\ Returned("processor")' => closed' /\ Len(chain') = N
  BY <1>1 DEF SyncInv
<1>3. err = "nil" /\ ~canceled /\ ~unseen
  BY <1>1, <1>2 DEF Errors
<1>4. /\ Returned("headers") => scheduled = N
      /\ \A k \in Kinds : Returned(k) => scheduled = N /\ taskPool[k] = {}
      /\ closed => Routines \ {"processor"} \subseteq sync.returned
      /\ Returned("processor") => closed /\ Len(chain) = N
  BY <1>3 DEF Inv, SyncInv
<1>5. \A h \in Routines : Returned(h)' <=> Returned(h) \/ h = g
  BY <1>1 DEF Returned
<1>6. Kinds \subseteq Routines /\ "headers" \in Routines /\ "processor" \in Routines
  BY DEF Routines
<1>7. Returned("headers")' => scheduled' = N
  BY <1>3, <1>4, <1>5, <1>6
<1>8. \A k \in Kinds : Returned(k)' => scheduled' = N /\ taskPool'[k] = {}
  BY <1>3, <1>4, <1>5, <1>6
<1>9. Returned("processor")' => closed /\ Len(chain) = N
  BY <1>3, <1>4, <1>5, <1>6
<1>10. ASSUME closed' PROVE Routines \ {"processor"} \subseteq sync'.returned
  <2>1. CASE closed
    BY <2>1, <1>1, <1>4
  <2>2. CASE ~closed
    <3>1. PICK s \in BOOLEAN :
            /\ closed' = (closed \/ s)
            /\ s => err = "fail" \/ Cardinality(Routines \ sync'.returned) <= 1
      BY ReturnTypes
    <3>2. s
      BY <3>1, <2>2, <1>10
    <3>3. Cardinality(Routines \ sync'.returned) <= 1
      BY <3>1, <3>2, <1>3
    <3>4. "processor" \in Routines \ sync'.returned
      BY <2>2, <1>6, <1>9 DEF Returned
    <3>5. IsFiniteSet(Routines)
      <4>1. Routines = (({"body"} \cup {"receipt"}) \cup {"headers"}) \cup {"processor"}
        BY DEF Routines, Kinds
      <4>2. IsFiniteSet({"body"})
        BY FS_Singleton
      <4>3. IsFiniteSet({"body"} \cup {"receipt"})
        BY <4>2, FS_AddElement
      <4>4. IsFiniteSet(({"body"} \cup {"receipt"}) \cup {"headers"})
        BY <4>3, FS_AddElement
      <4> QED BY <4>1, <4>4, FS_AddElement
    <3>6. IsFiniteSet(Routines \ sync'.returned)
      BY <3>5, FS_Subset
    <3>7. Routines \ sync'.returned = {"processor"}
      BY <3>3, <3>4, <3>6, AtMostOne
    <3> QED BY <3>7
  <2> QED BY <2>1, <2>2
<1> QED BY <1>1, <1>7, <1>8, <1>9, <1>10

\* No goroutine returns, and tasks are only done.
LEMMA SyncKept ==
  ASSUME Inv, UNCHANGED <<sync, closed, scheduled>>,
         \A k \in Kinds : taskPool'[k] \subseteq taskPool[k],
         Returned("processor") => chain' = chain, canceled => canceled', unseen => unseen'
  PROVE  SyncInv'
<1>1. SyncInv
  BY DEF Inv
<1>2. \A k \in Kinds : taskPool[k] = {} => taskPool'[k] = {}
  OBVIOUS
<1> QED BY <1>1, <1>2 DEF SyncInv, Returned

\* The chain stays what it is.
LEMMA ChainKept ==
  ASSUME ChainInv, UNCHANGED <<chain, offset>>, Returned("processor") => Returned("processor")'
  PROVE  ChainInv'
BY DEF ChainInv

\* The loops stay where they are, and nothing more is queued unseen.
LEMMA LoopsKept ==
  ASSUME Inv, UNCHANGED <<loop, scheduled>>, unseen' \in BOOLEAN, unseen => unseen',
         ~unseen' => \A k \in Kinds :
                       loop[k].at = "flying" => taskQueue'[k] \subseteq taskQueue[k]
  PROVE  LoopInv'
<1>1. ASSUME NEW k \in Kinds
      PROVE  /\ "at" \in DOMAIN loop[k] /\ loop[k].at \in {"select", "flying", "serve"}
             /\ ~unseen /\ loop[k].at = "flying" => scheduled = N /\ taskQueue[k] = {}
  BY <1>1 DEF Inv, LoopInv
<1>2. DOMAIN loop = Kinds
  BY DEF Inv, LoopInv
<1>3. \A k \in Kinds : ~unseen' /\ loop[k].at = "flying" => taskQueue'[k] = {}
  BY <1>1
<1> QED BY <1>1, <1>2, <1>3 DEF LoopInv

\* One loop moves, and nothing more is queued unseen.
LEMMA LoopMoved ==
  ASSUME Inv, NEW k \in Kinds, NEW l, loop' = [loop EXCEPT ![k] = l],
         "at" \in DOMAIN l, l.at \in {"select", "flying", "serve"},
         l.at = "flying" => scheduled = N /\ taskQueue'[k] = {},
         scheduled' = scheduled, unseen' \in BOOLEAN, unseen => unseen',
         ~unseen' => \A j \in Kinds \ {k} :
                       loop[j].at = "flying" => taskQueue'[j] \subseteq taskQueue[j]
  PROVE  LoopInv'
<1>1. ASSUME NEW j \in Kinds
      PROVE  /\ "at" \in DOMAIN loop[j] /\ loop[j].at \in {"select", "flying", "serve"}
             /\ ~unseen /\ loop[j].at = "flying" => scheduled = N /\ taskQueue[j] = {}
  BY <1>1 DEF Inv, LoopInv
<1>2. DOMAIN loop = Kinds
  BY DEF Inv, LoopInv
<1>3. DOMAIN loop' = Kinds /\ loop'[k] = l /\ \A j \in Kinds \ {k} : loop'[j] = loop[j]
  BY <1>2
<1>4. \A j \in Kinds \ {k} : ~unseen' /\ loop[j].at = "flying" => taskQueue'[j] = {}
  BY <1>1
<1>5. ASSUME NEW j \in Kinds
      PROVE  /\ "at" \in DOMAIN loop'[j] /\ loop'[j].at \in {"select", "flying", "serve"}
             /\ ~unseen' /\ loop'[j].at = "flying" => scheduled = N /\ taskQueue'[j] = {}
  BY <1>1, <1>3, <1>4, <1>5
<1> QED BY <1>3, <1>5 DEF LoopInv

-----------------------------------------------------------------------------
(* The actions                                                             *)

\* A step that leaves the tasks, the store and the chain alone.
LEMMA ControlInv ==
  ASSUME Inv, ProcInv', SyncInv', LoopInv', sync.returned \subseteq sync'.returned,
         canceled => canceled',
         UNCHANGED <<scheduled, taskPool, taskQueue, pendPool, offset, slots, incomplete,
                     threshold, lacking, peers, busy, chain>>
  PROVE  Inv'
<1>1. StoreInv'
  BY StoreKept DEF Inv
<1>2. TaskInv'
  BY TasksKept DEF Inv
<1>3. PeerInv'
  BY PeersKept DEF Inv
<1>4. ChainInv'
  BY ChainKept DEF Inv, Returned
<1> QED BY <1>1, <1>2, <1>3, <1>4 DEF Inv

\* A goroutine other than the processor returns.
LEMMA ReturnInv ==
  ASSUME Inv, NEW g \in Routines, ~Returned(g), NEW err \in Errors, g # "processor",
         Return(g, err, proc), LoopInv',
         UNCHANGED <<scheduled, taskPool, taskQueue, pendPool, offset, slots, incomplete,
                     threshold, lacking, peers, busy, chain, unseen>>,
         err = "canceled" => canceled,
         err = "nil" /\ ~unseen =>
           /\ g = "headers" => scheduled = N
           /\ g \in Kinds => scheduled = N /\ taskPool[g] = {}
  PROVE  Inv'
<1>1. ProcInv'
  BY ReturnProc
<1>2. SyncInv'
  BY ReturnSync
<1>3. sync'.returned = sync.returned \cup {g} /\ (canceled => canceled')
  BY ReturnTypes
<1> QED BY <1>1, <1>2, <1>3, ControlInv

\* Headers are scheduled.
LEMMA ScheduleInv ==
  ASSUME Inv, NEW c \in 1 .. MaxQueued, Schedule(c)
  PROVE  Inv'
<1>1. /\ ~Returned("headers") /\ DOMAIN pendPool = Kinds
      /\ UNCHANGED <<pendPool, offset, slots, incomplete, threshold, lacking, peers, busy,
                     loop, proc, closed, canceled, sync, chain, unseen>>
  BY DEF Schedule, store, net_, run, Inv, TaskInv
<1>2. TaskInv'
  BY ScheduleTasks
<1>3. StoreInv' /\ PeerInv'
  BY <1>1, StoreKept, PeersKept DEF Inv
<1>4. ProcInv'
  BY <1>1, ProcKept, Types DEF Returned
<1>7. scheduled # N
  <2>1. scheduled + c <= N /\ c \in Nat \ {0} /\ scheduled \in Nat /\ N \in Nat
    BY Types, Consts DEF Schedule
  <2> QED BY <2>1
<1>8. LoopInv'
  BY <1>1, <1>7 DEF Inv, LoopInv
<1>5. SyncInv'
  <2>1. "headers" \in Routines \ {"processor"}
    BY DEF Routines
  <2>2. ~canceled /\ ~unseen => /\ ~Returned("headers")' /\ ~closed'
                                /\ \A k \in Kinds : ~Returned(k)'
                                /\ ~Returned("processor")'
    BY <2>1, <1>1, <1>7 DEF Inv, SyncInv, Returned
  <2> QED BY <2>2, <1>1 DEF Inv, SyncInv
<1>6. ChainInv'
  BY <1>1, ChainKept DEF Inv, Returned
<1> QED BY <1>2, <1>3, <1>4, <1>5, <1>6, <1>8 DEF Inv

\* processHeaders returns.
LEMMA HeadersReturnInv ==
  ASSUME Inv, HeadersReturn
  PROVE  Inv'
<1>1. /\ ~Returned("headers")
      /\ UNCHANGED <<scheduled, taskPool, taskQueue, pendPool, offset, slots, incomplete,
                     threshold, lacking, peers, busy, loop, chain, unseen>>
  BY DEF HeadersReturn, tasks, store, net_
<1>2. PICK err \in Errors : /\ Return("headers", err, proc) /\ (err = "nil" => scheduled = N)
                            /\ err = "canceled" => canceled
  BY DEF HeadersReturn, Errors
<1>3. "headers" \in Routines /\ "headers" \notin Kinds
  BY DEF Routines, Kinds
<1>4. LoopInv'
  BY <1>1, LoopsKept DEF Inv, LoopInv
<1> QED BY <1>1, <1>2, <1>3, <1>4, ReturnInv

\* The loop of a kind sees that the synchronisation is canceled.
LEMMA LoopCanceledInv ==
  ASSUME Inv, NEW k \in Kinds, LoopCanceled(k)
  PROVE  Inv'
<1>1. /\ ~Returned(k) /\ canceled /\ Return(k, "canceled", proc)
      /\ UNCHANGED <<scheduled, taskPool, taskQueue, pendPool, offset, slots, incomplete,
                     threshold, lacking, peers, busy, loop, chain, unseen>>
  BY DEF LoopCanceled, Selecting, tasks, store, net_
<1>2. k \in Routines /\ k # "processor" /\ "canceled" \in Errors
  BY DEF Routines, Kinds, Errors
<1>3. LoopInv'
  BY <1>1, LoopsKept DEF Inv, LoopInv
<1> QED BY <1>1, <1>2, <1>3, ReturnInv

\* A loop looks for what is in flight: if nothing is, it is done.
LEMMA InFlightInv ==
  ASSUME Inv, NEW k \in Kinds, InFlight(k)
  PROVE  Inv'
<1>1. /\ ~Returned(k) /\ loop[k].at = "flying"
      /\ \/ DOMAIN pendPool[k] = {} /\ Return(k, "nil", proc)
         \/ UNCHANGED <<sync, closed, canceled, proc>>
      /\ loop' = [loop EXCEPT ![k] = [at |-> "select"]]
      /\ UNCHANGED <<scheduled, taskPool, taskQueue, pendPool, offset, slots, incomplete,
                     threshold, lacking, peers, busy, chain, unseen>>
  BY DEF InFlight, tasks, store, net_
<1>2. LoopInv'
  <2> DEFINE l == [at |-> "select"]
  <2>1. "at" \in DOMAIN l /\ l.at = "select" /\ loop' = [loop EXCEPT ![k] = l]
    BY <1>1
  <2>2. unseen' \in BOOLEAN
    BY <1>1 DEF Inv, LoopInv
  <2> HIDE DEF l
  <2> QED BY <2>1, <2>2, <1>1, LoopMoved
<1>3. CASE DOMAIN pendPool[k] = {} /\ Return(k, "nil", proc)
  <2>1. k \in Routines /\ k # "processor" /\ k # "headers" /\ "nil" \in Errors
    BY DEF Routines, Kinds, Errors
  <2>2. ASSUME ~unseen PROVE scheduled = N /\ taskPool[k] = {}
    <3>1. scheduled = N /\ taskQueue[k] = {}
      BY <2>2, <1>1 DEF Inv, LoopInv
    <3>2. ASSUME NEW n \in taskPool[k] PROVE FALSE
      <4>1. Task(k, n)
        BY <3>2, TaskTypes
      <4>2. Holders(k, n) = {}
        BY <1>3 DEF Holders
      <4> QED BY <3>1, <3>2, <4>1, <4>2 DEF Task
    <3> QED BY <3>1, <3>2
  <2> QED BY <2>1, <2>2, <1>1, <1>2, <1>3, ReturnInv
<1>4. CASE UNCHANGED <<sync, closed, canceled, proc>>
  <2>1. ProcInv'
    BY <1>1, <1>4, ProcKept, Types DEF Returned
  <2>2. SyncInv'
    BY <1>1, <1>4, SyncKept
  <2> QED BY <2>1, <2>2, <1>1, <1>2, <1>4, ControlInv
<1> QED BY <1>1, <1>3, <1>4

\* All idle peers are served.
LEMMA ServeEndInv ==
  ASSUME Inv, NEW k \in Kinds, ServeEnd(k)
  PROVE  Inv'
<1>1. /\ ~Returned(k)
      /\ Return(k, "fail", proc) \/ UNCHANGED <<sync, closed, canceled, proc>>
      /\ loop' = [loop EXCEPT ![k] = [at |-> "select"]]
      /\ UNCHANGED <<scheduled, taskPool, taskQueue, pendPool, offset, slots, incomplete,
                     threshold, lacking, peers, busy, chain, unseen>>
  BY DEF ServeEnd, tasks, store, net_
<1>4. LoopInv'
  <2> DEFINE l == [at |-> "select"]
  <2>1. "at" \in DOMAIN l /\ l.at = "select" /\ loop' = [loop EXCEPT ![k] = l]
    BY <1>1
  <2>2. unseen' \in BOOLEAN
    BY <1>1 DEF Inv, LoopInv
  <2> HIDE DEF l
  <2> QED BY <2>1, <2>2, <1>1, LoopMoved
<1>2. CASE Return(k, "fail", proc)
  <2>1. k \in Routines /\ k # "processor" /\ "fail" \in Errors
    BY DEF Routines, Kinds, Errors
  <2> QED BY <2>1, <1>1, <1>2, <1>4, ReturnInv
<1>3. CASE UNCHANGED <<sync, closed, canceled, proc>>
  <2>1. ProcInv'
    BY <1>1, <1>3, ProcKept, Types DEF Returned
  <2>2. SyncInv'
    BY <1>1, <1>3, SyncKept
  <2> QED BY <2>1, <2>2, <1>1, <1>3, <1>4, ControlInv
<1> QED BY <1>1, <1>2, <1>3

\* The processor looks for results, or is woken.
LEMMA ProcessInv ==
  ASSUME Inv, Check \/ Lock \/ Wake
  PROVE  Inv'
<1>1. /\ ~Returned("processor")
      /\ UNCHANGED <<scheduled, taskPool, taskQueue, pendPool, offset, slots, incomplete,
                     threshold, lacking, peers, busy, loop, closed, canceled, sync, chain,
                     unseen>>
  BY DEF Check, Lock, Wake, tasks, store, net_, run
<1>2. /\ proc \in Procs /\ closed \in BOOLEAN /\ canceled \in BOOLEAN
      /\ proc.closed \in BOOLEAN /\ (proc.closed => closed)
  BY DEF Inv, ProcInv, Procs
<1>3. HasCompletedItems(slots)' <=> HasCompletedItems(slots)
  BY <1>1 DEF HasCompletedItems, Complete
<1>4. ProcInv'
  <2>1. CASE Check
    <3>1. /\ proc' \in Procs /\ proc'.closed = proc.closed /\ proc'.at # "wait"
          /\ proc'.at = "take" => proc.closed \/ HasCompletedItems(slots)
      BY <2>1, <1>2 DEF Check, Procs, Places
    <3> QED BY <3>1, <1>1, <1>2, <1>3 DEF ProcInv, NoLostWakeup
  <2>2. CASE Lock
    <3>1. /\ proc' \in Procs /\ proc'.closed = proc.closed
          /\ proc'.at = "take" => HasCompletedItems(slots) \/ closed
          /\ proc'.at = "wait" => ~HasCompletedItems(slots) /\ ~closed
      BY <2>2, <1>2 DEF Lock, Procs, Places
    <3> QED BY <3>1, <1>1, <1>2, <1>3 DEF ProcInv, NoLostWakeup
  <2>3. CASE Wake
    <3>1. proc' = [at |-> "check", closed |-> closed]
      BY <2>3 DEF Wake
    <3>2. proc' \in Procs /\ proc'.closed = closed /\ proc'.at = "check"
      BY <3>1, <1>2 DEF Procs, Places
    <3> QED BY <3>2, <1>1, <1>2 DEF ProcInv, NoLostWakeup
  <2> QED BY <2>1, <2>2, <2>3
<1>5. SyncInv'
  BY <1>1, SyncKept
<1>6. LoopInv'
  BY <1>1, LoopsKept DEF Inv, LoopInv
<1> QED BY <1>1, <1>4, <1>5, <1>6, ControlInv

\* Cancel by the user.
LEMMA CancelInv ==
  ASSUME Inv, Cancel
  PROVE  Inv'
<1>1. /\ canceled' = TRUE
      /\ UNCHANGED <<scheduled, taskPool, taskQueue, pendPool, offset, slots, incomplete,
                     threshold, lacking, peers, busy, loop, proc, closed, sync, chain,
                     unseen>>
  BY DEF Cancel, tasks, store, net_
<1>2. ProcInv'
  BY <1>1, ProcKept DEF Returned
<1>3. SyncInv'
  BY <1>1, SyncKept
<1>4. LoopInv'
  BY <1>1, LoopsKept DEF Inv, LoopInv
<1> QED BY <1>1, <1>2, <1>3, <1>4, ControlInv

\* A peer disconnects.
LEMMA DisconnectInv ==
  ASSUME Inv, NEW p \in Peers, Disconnect(p)
  PROVE  Inv'
<1> DEFINE G == [k \in Kinds |-> {p}]
<1>1. /\ peers' = peers \ {p}
      /\ taskQueue' = [k \in Kinds |-> Requeue(k, {p})]
      /\ pendPool' = [k \in Kinds |-> Unpend(k, {p})]
      /\ UNCHANGED <<scheduled, taskPool, offset, slots, incomplete, threshold, lacking,
                     busy, loop, proc, closed, canceled, sync, chain>>
      /\ unseen' = (unseen \/ Missed({p}))
  BY DEF Disconnect, store, run
<1>2. /\ taskQueue' = [k \in Kinds |-> Requeue(k, G[k])]
      /\ pendPool' = [k \in Kinds |-> Unpend(k, G[k])]
  BY <1>1
<1>3. TaskInv'
  <2> HIDE DEF G
  <2> QED BY <1>1, <1>2, RequeueTasks
<1>4. PeerInv'
  <2>1. \A k \in Kinds : DOMAIN pendPool'[k] = DOMAIN pendPool[k] \ {p}
    BY <1>1 DEF Unpend, Restrict
  <2> QED BY <2>1, <1>1 DEF Inv, PeerInv, BusyHasRequest
<1>5. StoreInv'
  BY <1>1, StoreKept DEF Inv
<1>6. ProcInv'
  BY <1>1, ProcKept, Types DEF Returned
<1>7. SyncInv'
  BY <1>1, SyncKept
<1>8. ChainInv'
  BY <1>1, ChainKept DEF Inv, Returned
<1>9. LoopInv'
  <2>1. ASSUME ~unseen', NEW k \in Kinds, loop[k].at = "flying"
        PROVE  taskQueue'[k] \subseteq taskQueue[k]
    <3>1. {p} \cap DOMAIN pendPool[k] = {}
      BY <2>1, <1>1 DEF Missed
    <3> QED BY <3>1, <1>1 DEF Requeue
  <2>2. unseen' \in BOOLEAN /\ (unseen => unseen')
    BY <1>1 DEF Missed, Inv, LoopInv
  <2> QED BY <2>1, <2>2, <1>1, LoopsKept
<1> QED BY <1>3, <1>4, <1>5, <1>6, <1>7, <1>8, <1>9 DEF Inv

\* The update of a loop: requests expire, and the loop may return.
LEMMA UpdateInv ==
  ASSUME Inv, NEW k \in Kinds, NEW ps \in SUBSET DOMAIN pendPool[k], Update(k, ps)
  PROVE  Inv'
<1> DEFINE dropsMaster == /\ Master \in ps \cap peers
                          /\ Cardinality(pendPool[k][Master]) <= MinFails
           l == IF taskQueue'[k] # {}
                THEN [at |-> "serve", idles |-> peers' \ busy'[k],
                      all |-> peers' \ busy'[k] = peers',
                      running |-> DOMAIN pendPool'[k] # {},
                      progressed |-> FALSE, throttled |-> FALSE]
                ELSE [at |-> IF finished THEN "flying" ELSE "select"]
<1>1. /\ ~Returned(k)
      /\ UNCHANGED <<scheduled, taskPool, offset, slots, incomplete, threshold,
                     lacking, chain>>
      /\ IF peers = {} \/ dropsMaster
         THEN Return(k, "fail", proc) /\ UNCHANGED loop
         ELSE loop' = [loop EXCEPT ![k] = l] /\ UNCHANGED <<sync, closed, canceled, proc>>
  BY DEF Update, Selecting, store
<1>2. PICK seen \in SUBSET ps :
        /\ IF dropsMaster THEN Master \in seen ELSE seen = ps
        /\ Expired(k, ps, seen)
  BY DEF Update
<1>3. k \in Routines /\ k # "processor" /\ k # "headers" /\ "fail" \in Errors
  BY DEF Routines, Kinds, Errors
<1>4. Return(k, "fail", proc) => canceled'
  BY <1>3, ReturnTypes
<1>5. (canceled => canceled') /\ (seen = ps \/ canceled')
  BY <1>1, <1>2, <1>4
<1>6. TaskInv' /\ PeerInv'
  BY <1>1, <1>2, <1>5, ExpiredInv
<1>7. StoreInv'
  BY <1>1, StoreKept DEF Inv
<1>8. /\ unseen' \in BOOLEAN /\ (unseen => unseen')
      /\ ~unseen' => \A j \in Kinds \ {k} :
                       loop[j].at = "flying" => taskQueue'[j] \subseteq taskQueue[j]
  <2> DEFINE dropped == {p \in seen \cap peers : Cardinality(pendPool[k][p]) <= MinFails}
             gone(j) == IF j = k THEN ps \cup dropped ELSE dropped
  <2>1. unseen' = (unseen \/ Missed(dropped)) /\ taskQueue' = [j \in Kinds |-> Requeue(j, gone(j))]
    BY <1>2 DEF Expired
  <2> HIDE DEF dropped
  <2>2. ASSUME ~unseen', NEW j \in Kinds \ {k}, loop[j].at = "flying"
        PROVE  taskQueue'[j] \subseteq taskQueue[j]
    <3>1. dropped \cap DOMAIN pendPool[j] = {} /\ taskQueue'[j] = Requeue(j, dropped)
      BY <2>1, <2>2 DEF Missed
    <3> QED BY <3>1 DEF Requeue
  <2> QED BY <2>1, <2>2 DEF Missed, Inv, LoopInv
<1>9. loop[k].at = "select"
  BY DEF Update, Selecting
<1>10. CASE peers = {} \/ dropsMaster
  <2>1. Return(k, "fail", proc) /\ loop' = loop
    BY <1>1, <1>10
  <2>2. ProcInv'
    BY <2>1, <1>1, <1>3, ReturnProc
  <2>3. SyncInv'
    BY <2>1, <1>1, <1>3, <1>8, ReturnSync
  <2>4. ChainInv'
    <3>1. sync'.returned = sync.returned \cup {k}
      BY <2>1, <1>3, ReturnTypes
    <3> QED BY <3>1, <1>1, ChainKept DEF Inv, Returned
  <2>5. LoopInv'
    BY <2>1, <1>1, <1>8, <1>9, LoopsKept
  <2> QED BY <2>2, <2>3, <2>4, <2>5, <1>6, <1>7 DEF Inv
<1>11. CASE ~(peers = {} \/ dropsMaster)
  <2>1. loop' = [loop EXCEPT ![k] = l] /\ UNCHANGED <<sync, closed, canceled, proc>>
    BY <1>1, <1>11
  <2>2. ProcInv'
    BY <2>1, <1>1, ProcKept, Types DEF Returned
  <2>3. SyncInv'
    BY <2>1, <1>1, <1>8, SyncKept
  <2>4. ChainInv'
    BY <2>1, <1>1, ChainKept DEF Inv, Returned
  <2>5. /\ "at" \in DOMAIN l /\ l.at \in {"select", "flying", "serve"}
        /\ l.at = "flying" => scheduled = N /\ taskQueue'[k] = {}
    BY DEF finished
  <2>6. LoopInv'
    <3> HIDE DEF l
    <3> QED BY <2>1, <2>5, <1>1, <1>8, LoopMoved
  <2> QED BY <2>2, <2>3, <2>4, <2>6, <1>6, <1>7 DEF Inv
<1> QED BY <1>10, <1>11

\* An idle peer is served: work is reserved for it and asked for.
LEMMA ServeInv ==
  ASSUME Inv, NEW k \in Kinds, NEW p \in Peers, NEW c \in 1 .. MaxRequest, Serve(k, p, c)
  PROVE  Inv'
<1> DEFINE r == Reservation(k, p, c)
<1>1. UNCHANGED <<scheduled, offset, incomplete, threshold, lacking, peers, closed,
                  canceled, sync, chain, unseen>>
  BY DEF Serve, run
<1>5. LoopInv'
  <2>1. /\ loop[k].at = "serve" /\ DOMAIN loop = Kinds /\ "at" \in DOMAIN loop[k]
        /\ unseen \in BOOLEAN
    BY DEF Serve, Serving, Inv, LoopInv
  <2>2. /\ DOMAIN loop' = Kinds /\ "at" \in DOMAIN loop'[k] /\ loop'[k].at = "serve"
        /\ \A j \in Kinds \ {k} : loop'[j] = loop[j]
    BY <2>1 DEF Serve
  <2>3. \A j \in Kinds \ {k} : taskQueue'[j] = taskQueue[j]
    BY TaskTypes DEF Serve
  <2> QED BY <2>1, <2>2, <2>3, <1>1 DEF Inv, LoopInv
<1>2. ChainInv'
  BY <1>1, ChainKept DEF Inv, Returned
<1>3. CASE p \in DOMAIN pendPool[k]
  <2>1. UNCHANGED <<taskQueue, taskPool, slots, proc, pendPool, busy>>
    BY <1>3 DEF Serve
  <2>2. ProcInv'
    BY <1>1, <2>1, ProcKept, Types DEF Returned
  <2>3. SyncInv'
    BY <1>1, <2>1, SyncKept
  <2> QED BY <1>1, <1>5, <2>1, <2>2, <2>3, ControlInv
<1>4. CASE p \notin DOMAIN pendPool[k]
  <2>1. /\ taskQueue' = [taskQueue EXCEPT ![k] = @ \ (r.send \cup r.dropped)]
        /\ taskPool' = [taskPool EXCEPT ![k] = @ \ r.dropped]
        /\ slots' = r.slots /\ proc' = Woken(proc, HasCompletedItems(r.slots))
        /\ r.send = {} => pendPool' = pendPool /\ busy' = busy
        /\ r.send # {} => /\ pendPool' = [pendPool EXCEPT ![k] =
                                            [q \in DOMAIN @ \cup {p} |->
                                               IF q = p THEN r.send ELSE @[q]]]
                          /\ busy' = [busy EXCEPT ![k] = @ \cup {p}]
    BY <1>4 DEF Serve
  <2>2. /\ r.send \subseteq taskQueue[k] /\ r.dropped \subseteq taskQueue[k]
        /\ r.send \cap r.dropped = {} /\ Grown(r.slots)
        /\ \A n \in DOMAIN r.slots \ DOMAIN slots : n \in taskQueue[k]
        /\ \A n \in r.send : n \in DOMAIN r.slots /\ k \in r.slots[n].pending
        /\ \A n \in r.dropped :
             n < offset \/ (n \in DOMAIN r.slots /\ k \notin r.slots[n].pending)
    BY Reserved
  <2> HIDE DEF r
  <2>3. DOMAIN pendPool = Kinds /\ DOMAIN taskPool = Kinds /\ DOMAIN taskQueue = Kinds
    BY TaskTypes
  <2>4. /\ DOMAIN pendPool' = Kinds /\ \A j \in Kinds \ {k} : pendPool'[j] = pendPool[j]
        /\ DOMAIN pendPool'[k] = DOMAIN pendPool[k] \cup (IF r.send = {} THEN {} ELSE {p})
        /\ \A q \in DOMAIN pendPool[k] : pendPool'[k][q] = pendPool[k][q]
        /\ r.send # {} => pendPool'[k][p] = r.send
    <3>1. CASE r.send = {}
      BY <3>1, <2>1, <2>3
    <3>2. CASE r.send # {}
      <4>1. /\ DOMAIN pendPool' = Kinds
            /\ \A j \in Kinds \ {k} : pendPool'[j] = pendPool[j]
            /\ pendPool'[k] = [q \in DOMAIN pendPool[k] \cup {p} |->
                                 IF q = p THEN r.send ELSE pendPool[k][q]]
        BY <3>2, <2>1, <2>3
      <4> QED BY <4>1, <3>2, <1>4
    <3> QED BY <3>1, <3>2
  <2>5. TaskInv'
    <3> DEFINE send == r.send
               dropped == r.dropped
    <3>1. send \in SUBSET taskQueue[k] /\ dropped \in SUBSET taskQueue[k]
          /\ send \cap dropped = {} /\ Grown(slots')
      BY <2>1, <2>2
    <3>2. \A n \in DOMAIN slots' \ DOMAIN slots : \E j \in Kinds : n \in taskQueue[j]
      BY <2>1, <2>2
    <3>3. /\ \A n \in send : n \in DOMAIN slots' /\ k \in slots'[n].pending
          /\ \A n \in dropped :
               n < offset \/ (n \in DOMAIN slots' /\ k \notin slots'[n].pending)
      BY <2>1, <2>2
    <3>4. /\ taskQueue' = [taskQueue EXCEPT ![k] = @ \ (send \cup dropped)]
          /\ taskPool' = [taskPool EXCEPT ![k] = @ \ dropped]
          /\ DOMAIN pendPool'[k] = DOMAIN pendPool[k] \cup (IF send = {} THEN {} ELSE {p})
          /\ send # {} => pendPool'[k][p] = send
      BY <2>1, <2>4
    <3> HIDE DEF send, dropped
    <3> QED BY <3>1, <3>2, <3>3, <3>4, <2>4, <1>1, <1>4, ReserveTasks
  <2>6. StoreInv'
    BY <2>1, <2>2, <1>1, GrownStore
  <2>7. PeerInv'
    <3>1. /\ lacking \in [Peers -> SUBSET Numbers] /\ peers \subseteq Peers
          /\ busy \in [Kinds -> SUBSET Peers]
          /\ ~canceled => \A j \in Kinds : busy[j] \cap peers \subseteq DOMAIN pendPool[j]
      BY DEF Inv, PeerInv, BusyHasRequest
    <3>2. busy' \in [Kinds -> SUBSET Peers]
      BY <3>1, <2>1
    <3>3. ASSUME ~canceled, NEW j \in Kinds
          PROVE  busy'[j] \cap peers \subseteq DOMAIN pendPool'[j]
      <4>1. CASE r.send = {}
        BY <4>1, <3>1, <3>3, <2>1
      <4>2. CASE r.send # {}
        <5>1. busy'[j] = IF j = k THEN busy[j] \cup {p} ELSE busy[j]
          BY <4>2, <3>1, <2>1
        <5> QED BY <5>1, <4>2, <3>1, <3>3, <2>4
      <4> QED BY <4>1, <4>2
    <3> QED BY <3>1, <3>2, <3>3, <1>1 DEF PeerInv, BusyHasRequest
  <2>8. ProcInv'
    <3> DEFINE s == HasCompletedItems(r.slots)
    <3>1. s <=> HasCompletedItems(slots)'
      BY <2>1, <1>1 DEF HasCompletedItems, Complete
    <3>2. HasCompletedItems(slots) => s
      BY <2>2 DEF HasCompletedItems, Complete, Grown
    <3>3. proc' = Woken(proc, s) /\ closed' \in BOOLEAN /\ canceled' \in BOOLEAN
      BY <2>1, <1>1, Types
    <3>4. Returned("processor") => Returned("processor")'
      BY <1>1 DEF Returned
    <3> HIDE DEF s
    <3> QED BY <3>1, <3>2, <3>3, <3>4, <1>1, ProcWoken
  <2>9. SyncInv'
    <3>1. \A j \in Kinds : taskPool'[j] \subseteq taskPool[j]
      BY <2>1, <2>3
    <3> QED BY <3>1, <1>1, SyncKept
  <2> QED BY <2>5, <2>6, <2>7, <2>8, <2>9, <1>2, <1>5 DEF Inv
<1> QED BY <1>3, <1>4

\* A peer's data arrives: it fills the slots of the headers it is valid for.
LEMMA DeliverInv ==
  ASSUME Inv, NEW k \in Kinds, NEW p \in Peers, NEW data, deliver(k, p, data),
         loop[k].at = "select",
         UNCHANGED <<scheduled, offset, incomplete, threshold, peers, loop, closed, canceled,
                     sync, chain, unseen>>
  PROVE  Inv'
<1> DEFINE request == pendPool[k][p]
           accepted == Valid(request, data)
<1>1. ChainInv'
  BY ChainKept DEF Inv, Returned
<1>2. busy' = [busy EXCEPT ![k] = @ \ {p}]
  BY DEF deliver
<1>3. /\ lacking \in [Peers -> SUBSET Numbers] /\ peers \subseteq Peers
      /\ busy \in [Kinds -> SUBSET Peers]
      /\ ~canceled => \A j \in Kinds : busy[j] \cap peers \subseteq DOMAIN pendPool[j]
  BY DEF Inv, PeerInv, BusyHasRequest
<1>7. LoopInv'
  <2>1. \A j \in Kinds \ {k} : taskQueue'[j] = taskQueue[j]
    BY TaskTypes DEF deliver
  <2> QED BY <2>1, LoopsKept DEF Inv, LoopInv
<1>4. /\ busy' \in [Kinds -> SUBSET Peers] /\ busy'[k] = busy[k] \ {p}
      /\ \A j \in Kinds \ {k} : busy'[j] = busy[j]
  BY <1>2, <1>3
<1>5. CASE p \notin DOMAIN pendPool[k]
  <2>1. UNCHANGED <<pendPool, lacking, slots, taskPool, taskQueue, proc>>
    BY <1>5 DEF deliver
  <2>2. StoreInv' /\ TaskInv'
    BY <2>1, StoreKept, TasksKept DEF Inv
  <2>3. PeerInv'
    <3>1. ~canceled => \A j \in Kinds : busy'[j] \cap peers \subseteq DOMAIN pendPool[j]
      BY <1>3, <1>4
    <3> QED BY <3>1, <2>1, <1>3, <1>4 DEF PeerInv, BusyHasRequest
  <2>4. ProcInv'
    BY <2>1, ProcKept, Types DEF Returned
  <2>5. SyncInv'
    BY <2>1, SyncKept
  <2> QED BY <2>2, <2>3, <2>4, <2>5, <1>1, <1>7 DEF Inv
<1>6. CASE p \in DOMAIN pendPool[k]
  <2>1. /\ pendPool' = [pendPool EXCEPT ![k] = Unpend(k, {p})]
        /\ lacking' = IF data # <<>> THEN lacking
                      ELSE [lacking EXCEPT ![p] = @ \cup request]
        /\ slots' = [n \in DOMAIN slots |->
                       IF n \notin accepted THEN slots[n]
                       ELSE [pending |-> slots[n].pending \ {k},
                             has |-> slots[n].has \cup {<<k, data[Place(request, n)]>>}]]
        /\ taskPool' = [taskPool EXCEPT ![k] = @ \ accepted]
        /\ taskQueue' = [taskQueue EXCEPT ![k] = @ \cup (request \ accepted)]
        /\ proc' = Woken(proc, accepted # {})
    BY <1>6 DEF deliver
  <2>2. request \in SUBSET Numbers /\ DOMAIN taskPool = Kinds /\ DOMAIN pendPool = Kinds
    BY <1>6, TaskTypes
  <2>3. \A n \in accepted : n \in request /\ data[Place(request, n)] = n
    BY <2>2, ValidData
  <2> HIDE DEF accepted
  <2>4. ASSUME NEW n \in request PROVE n \in DOMAIN slots /\ k \in slots[n].pending
    <3>1. Task(k, n) /\ p \in Holders(k, n)
      BY <2>2, <2>4, <1>6, TaskTypes DEF Holders
    <3> QED BY <3>1 DEF Task
  <2>5. Filled(k, accepted)
    BY <2>1, <2>3 DEF Filled
  <2>6. StoreInv'
    BY <2>3, <2>4, <2>5, FilledStore
  <2>7. TaskInv'
    <3>1. accepted \in SUBSET pendPool[k][p]
      BY <2>3
    <3>2. taskQueue' = [taskQueue EXCEPT ![k] = @ \cup (pendPool[k][p] \ accepted)]
      BY <2>1
    <3> QED BY <3>1, <3>2, <2>1, <2>5, <1>6, DeliverTasks
  <2>8. PeerInv'
    <3>1. lacking' \in [Peers -> SUBSET Numbers]
      BY <2>1, <2>2, <1>3
    <3>2. /\ DOMAIN pendPool'[k] = DOMAIN pendPool[k] \ {p}
          /\ \A j \in Kinds \ {k} : pendPool'[j] = pendPool[j]
      BY <2>1, <2>2 DEF Unpend, Restrict
    <3>3. ~canceled => \A j \in Kinds : busy'[j] \cap peers \subseteq DOMAIN pendPool'[j]
      BY <3>2, <1>3, <1>4
    <3> QED BY <3>1, <3>3, <1>3, <1>4 DEF PeerInv, BusyHasRequest
  <2>9. ProcInv'
    <3> DEFINE s == accepted # {}
    <3>1. HasCompletedItems(slots) => HasCompletedItems(slots)'
      BY <2>5 DEF HasCompletedItems, Complete, Filled
    <3>2. ~s => (HasCompletedItems(slots)' <=> HasCompletedItems(slots))
      BY <2>5 DEF HasCompletedItems, Complete, Filled
    <3>3. proc' = Woken(proc, s) /\ closed' \in BOOLEAN /\ canceled' \in BOOLEAN
      BY <2>1, Types
    <3>4. Returned("processor") => Returned("processor")'
      BY DEF Returned
    <3> HIDE DEF s
    <3> QED BY <3>1, <3>2, <3>3, <3>4, ProcWoken
  <2>10. SyncInv'
    <3>1. \A j \in Kinds : taskPool'[j] \subseteq taskPool[j]
      BY <2>1, <2>2
    <3> QED BY <3>1, SyncKept
  <2> QED BY <2>6, <2>7, <2>8, <2>9, <2>10, <1>1, <1>7 DEF Inv
<1> QED BY <1>5, <1>6

\* The blocks that the processor takes follow those of the chain.
LEMMA TakenBlocks ==
  ASSUME Inv, ~Returned("processor"), NEW taken,
         taken = Smaller(MaxResults, countCompleted),
         chain' = chain \o [i \in 1 .. taken |-> slots[offset + i - 1].has]
  PROVE  /\ chain' \in Chains /\ Len(chain') = Len(chain) + taken /\ Len(chain') <= N
         /\ \A i \in 1 .. Len(chain') : chain'[i] = Block(i)
         /\ \A i \in 1 .. Len(chain) : chain'[i] = chain[i]
<1> DEFINE blocks == [i \in 1 .. taken |-> slots[offset + i - 1].has]
           T == SUBSET (Kinds \X Numbers)
<1>1. /\ taken \in Nat /\ offset + taken <= N + 1
      /\ \A i \in 0 .. taken - 1 : Complete(slots, offset + i)
  BY Taking
<1>2. /\ chain \in Seq(T) /\ Len(chain) \in Nat /\ Len(chain) = offset - 1
      /\ \A i \in 1 .. Len(chain) : chain[i] = Block(i)
  BY LenProperties DEF Inv, ChainInv, Chains
<1>3. offset \in Nat /\ N \in Nat
  BY Types, Consts
<1>4. ASSUME NEW i \in 1 .. taken
      PROVE  blocks[i] = Block(offset + i - 1) /\ blocks[i] \in T
  <2> DEFINE n == offset + i - 1
  <2>1. i - 1 \in 0 .. taken - 1 /\ offset + (i - 1) = n
    BY <1>1, <1>3
  <2>2. n \in DOMAIN slots /\ slots[n].pending = {}
    BY <2>1, <1>1 DEF Complete
  <2> HIDE DEF n
  <2>3. /\ slots[n] \in Results(n)
        /\ slots[n].has = {<<k, n>> : k \in Wanted(n) \ slots[n].pending}
    BY <2>2, SlotTypes
  <2>4. slots[n].has = Block(n) /\ slots[n].has \in T
    BY <2>2, <2>3 DEF Block, Results
  <2> QED BY <2>4 DEF n
<1>5. blocks \in Seq(T) /\ Len(blocks) = taken
  BY <1>1, <1>4
<1> HIDE DEF blocks, T
<1>6. chain' = chain \o blocks
  BY DEF blocks
<1>7. /\ chain' \in Seq(T) /\ Len(chain') = Len(chain) + taken
      /\ \A i \in 1 .. Len(chain) + taken :
           chain'[i] = IF i <= Len(chain) THEN chain[i] ELSE blocks[i - Len(chain)]
  <2>1. /\ chain \o blocks \in Seq(T) /\ Len(chain \o blocks) = Len(chain) + Len(blocks)
        /\ \A i \in 1 .. Len(chain) + Len(blocks) :
             (chain \o blocks)[i] =
               IF i <= Len(chain) THEN chain[i] ELSE blocks[i - Len(chain)]
    BY <1>2, <1>5, ConcatProperties, Zenon
  <2> QED BY <2>1, <1>5, <1>6, Zenon
<1>8. Len(chain') <= N
  BY <1>1, <1>2, <1>3, <1>7
<1>9. ASSUME NEW i \in 1 .. Len(chain') PROVE chain'[i] = Block(i)
  <2>1. CASE i <= Len(chain)
    BY <2>1, <1>1, <1>2, <1>7
  <2>2. CASE ~(i <= Len(chain))
    <3>1. i - Len(chain) \in 1 .. taken /\ offset + (i - Len(chain)) - 1 = i
      BY <2>2, <1>1, <1>2, <1>3, <1>7
    <3>2. chain'[i] = blocks[i - Len(chain)]
      BY <2>2, <1>1, <1>2, <1>7
    <3> QED BY <3>1, <3>2, <1>4
  <2> QED BY <2>1, <2>2
<1>10. \A i \in 1 .. Len(chain) : chain'[i] = chain[i]
  BY <1>1, <1>2, <1>7
<1> QED BY <1>7, <1>8, <1>9, <1>10 DEF Chains, T

\* Without an error, the processor finds nothing only when all blocks are in the
\* chain.
LEMMA NothingLeft ==
  ASSUME Inv, closed, ~HasCompletedItems(slots), ~canceled, ~unseen,
         ~Returned("processor")
  PROVE  Len(chain) = N
<1>1. Returned("headers") /\ \A k \in Kinds : Returned(k)
  BY DEF Inv, SyncInv, Returned, Routines, Kinds
<1>2. scheduled = N /\ \A k \in Kinds : taskPool[k] = {}
  BY <1>1 DEF Inv, SyncInv
<1>3. offset \in Nat /\ offset >= 1 /\ offset <= N + 1 /\ N \in Nat
  BY Types, Consts
<1>4. ASSUME offset <= N PROVE FALSE
  <2>1. offset \in Numbers
    BY <1>3, <1>4 DEF Numbers
  <2>2. ~(offset < offset) /\ offset <= scheduled
    BY <1>2, <1>3, <1>4
  <2>3. \A k \in Kinds : k = "body" \/ k \in Wanted(offset) =>
          offset \in DOMAIN slots /\ k \notin slots[offset].pending
    BY <2>1, <2>2, <1>2, TaskTypes DEF Task
  <2>4. offset \in DOMAIN slots
    BY <2>3 DEF Kinds
  <2>5. slots[offset].pending \subseteq Wanted(offset) /\ Wanted(offset) \subseteq Kinds
    BY <2>1, <2>4, SlotTypes, Consts
  <2>6. slots[offset].pending = {}
    BY <2>3, <2>5
  <2> QED BY <2>4, <2>6 DEF HasCompletedItems, Complete
<1>5. Len(chain) = offset - 1
  BY DEF Inv, ChainInv
<1> QED BY <1>3, <1>4, <1>5

\* The processor takes results and imports them, or returns.
LEMMA TakeInv ==
  ASSUME Inv, Take
  PROVE  Inv'
<1> DEFINE taken == Smaller(MaxResults, countCompleted)
           blocks == [i \in 1 .. taken |-> slots[offset + i - 1].has]
<1>1. /\ ~Returned("processor") /\ proc.at = "take" /\ offset' = offset + taken
      /\ slots' = Restrict(slots, DOMAIN slots \ (offset .. offset + taken - 1))
      /\ incomplete' = countCompleted - taken /\ threshold' \in 1 .. Size
      /\ UNCHANGED <<scheduled, taskPool, taskQueue, pendPool, lacking, peers, busy, loop,
                     unseen>>
      /\ \/ taken = 0 /\ Return("processor", "nil", proc) /\ chain' = chain
         \/ /\ taken > 0 /\ chain' = chain \o blocks
            /\ proc' = [at |-> "check", closed |-> FALSE]
            /\ UNCHANGED <<sync, closed, canceled>>
         \/ taken > 0 /\ Return("processor", "fail", proc) /\ chain' = chain
  BY DEF Take, tasks, net_
<1>2. /\ taken \in Nat /\ offset + taken <= N + 1
      /\ HasCompletedItems(slots) => taken > 0
  BY Taking
<1>3. /\ StoreInv'
      /\ \A n \in DOMAIN slots' : n \in DOMAIN slots /\ slots'[n] = slots[n]
      /\ \A n \in DOMAIN slots \ DOMAIN slots' : slots[n].pending = {} /\ n < offset'
  BY <1>1, TakeStore
<1>4. TaskInv'
  <2>1. offset' \in Nat /\ offset <= offset'
    BY <1>1, <1>2, Types
  <2> QED BY <2>1, <1>1, <1>3, TakeTasks
<1>12. LoopInv'
  BY <1>1, LoopsKept DEF Inv, LoopInv
<1>13. ASSUME NEW err \in Errors, Return("processor", err, proc) PROVE canceled => canceled'
  BY <1>13, ReturnTypes DEF Routines
<1>5. PeerInv'
  <2>1. canceled => canceled'
    BY <1>1, <1>13 DEF Errors
  <2> QED BY <2>1, <1>1, PeersKept DEF Inv
<1>6. /\ proc \in Procs /\ (proc.closed => closed) /\ (HasCompletedItems(slots) \/ closed)
      /\ closed \in BOOLEAN /\ canceled \in BOOLEAN
  BY <1>1 DEF Inv, ProcInv
<1>7. "processor" \in Routines /\ "processor" \notin Kinds /\ "processor" # "headers"
      /\ "nil" \in Errors /\ "fail" \in Errors
  BY DEF Routines, Kinds, Errors
<1>8. ASSUME NEW err \in Errors, Return("processor", err, proc), chain' = chain,
             err = "nil" => taken = 0, err # "canceled"
      PROVE  ProcInv' /\ SyncInv' /\ ChainInv'
  <2>1. /\ sync'.returned = sync.returned \cup {"processor"}
        /\ closed' \in BOOLEAN /\ canceled' \in BOOLEAN /\ (closed => closed')
        /\ \E s \in BOOLEAN : proc' = Woken(proc, s)
    BY <1>7, <1>8, ReturnTypes
  <2>2. Returned("processor")'
    BY <2>1 DEF Returned
  <2>3. proc' = proc
    BY <2>1, <1>1, <1>6, WokenProc
  <2>4. ProcInv'
    BY <2>1, <2>2, <2>3, <1>1, <1>6 DEF ProcInv, NoLostWakeup
  <2>5. ChainInv'
    BY <2>2, <1>8 DEF Inv, ChainInv
  <2>6. err = "nil" /\ ~canceled /\ ~unseen => closed /\ Len(chain) = N
    <3>1. ASSUME err = "nil", ~canceled, ~unseen PROVE closed /\ ~HasCompletedItems(slots)
      BY <3>1, <1>2, <1>6, <1>8
    <3> QED BY <3>1, <1>1, NothingLeft
  <2>7. SyncInv'
    BY <2>6, <1>1, <1>7, <1>8, ReturnSync
  <2> QED BY <2>4, <2>5, <2>7
<1>9. CASE taken = 0 /\ Return("processor", "nil", proc) /\ chain' = chain
  BY <1>3, <1>4, <1>5, <1>7, <1>8, <1>9, <1>12 DEF Inv
<1>10. CASE taken > 0 /\ Return("processor", "fail", proc) /\ chain' = chain
  BY <1>3, <1>4, <1>5, <1>7, <1>8, <1>10, <1>12 DEF Inv
<1>11. CASE /\ taken > 0 /\ chain' = chain \o blocks
            /\ proc' = [at |-> "check", closed |-> FALSE]
            /\ UNCHANGED <<sync, closed, canceled>>
  <2>1. proc' \in Procs /\ proc'.at = "check" /\ proc'.closed = FALSE
    BY <1>11 DEF Procs, Places
  <2>2. ProcInv'
    BY <2>1, <1>6, <1>11 DEF ProcInv, NoLostWakeup
  <2>3. SyncInv'
    BY <1>1, <1>11, SyncKept
  <2>4. /\ chain' \in Chains /\ Len(chain') = Len(chain) + taken /\ Len(chain') <= N
        /\ \A i \in 1 .. Len(chain') : chain'[i] = Block(i)
    BY <1>1, <1>11, TakenBlocks
  <2>5. Len(chain) = offset - 1 /\ offset \in Nat
    BY <1>1, Types DEF Inv, ChainInv
  <2>6. Len(chain') = offset' - 1
    BY <2>4, <2>5, <1>1, <1>2
  <2>7. ChainInv'
    BY <2>4, <2>6 DEF ChainInv
  <2> QED BY <2>2, <2>3, <2>7, <1>3, <1>4, <1>5, <1>12 DEF Inv
<1> QED BY <1>1, <1>9, <1>10, <1>11

\* A peer answers a request.
LEMMA ReplyInv ==
  ASSUME Inv, NEW p \in Peers, NEW k \in Kinds, NEW m, NEW count, NEW bad,
         m.kind = k, m.peer = p, Reply(m, count, bad)
  PROVE  Inv'
<1>1. PICK data : deliver(k, p, data)
  BY DEF Reply
<1>2. UNCHANGED <<scheduled, offset, incomplete, threshold, peers, loop, closed, canceled,
                  sync, chain, unseen>>
      /\ loop[k].at = "select"
  BY DEF Reply, Selecting, run
<1> QED BY <1>1, <1>2, DeliverInv

-----------------------------------------------------------------------------
(* The specification                                                       *)

\* The invariant holds at first.
LEMMA InitInv == Init => Inv
<1>1. SUFFICES ASSUME Init PROVE Inv
  OBVIOUS
<1>2. N \in Nat /\ Size \in Nat \ {0} /\ Initial \in Nat \ {0}
  BY Consts
<1>3. StoreInv
  <2>1. offset = 1 /\ slots = <<>> /\ incomplete = 0 /\ threshold = Smaller(Initial, Size)
    BY <1>1 DEF Init
  <2>2. DOMAIN slots = {}
    BY <2>1
  <2>3. threshold \in 1 .. Size
    BY <2>1, <1>2 DEF Smaller
  <2>4. CountHonest
    BY <2>1 DEF CountHonest
  <2> QED BY <2>1, <2>2, <2>3, <2>4, <1>2 DEF StoreInv
<1>4. TaskInv
  <2>1. /\ scheduled = 0 /\ taskPool = [k \in Kinds |-> {}]
        /\ taskQueue = [k \in Kinds |-> {}] /\ pendPool = [k \in Kinds |-> <<>>]
        /\ slots = <<>>
    BY <1>1 DEF Init
  <2>2. \A k \in Kinds : DOMAIN pendPool[k] = {}
    BY <2>1
  <2>3. DOMAIN slots = {}
    BY <2>1
  <2>4. \A k \in Kinds : taskPool[k] = {} /\ taskQueue[k] = {}
    BY <2>1
  <2>5. ASSUME NEW k \in Kinds, NEW n \in Numbers PROVE Task(k, n)
    <3>1. Holders(k, n) = {}
      BY <2>2 DEF Holders
    <3>2. ~(n <= scheduled)
      BY <2>1, Consts
    <3> QED BY <3>1, <3>2, <2>3, <2>4 DEF Task
  <2> QED BY <2>1, <2>2, <2>5, <1>2 DEF TaskInv
<1>5. PeerInv
  BY <1>1 DEF Init, PeerInv, BusyHasRequest
<1>6. ProcInv
  <2>1. /\ proc = [at |-> "check", closed |-> FALSE]
        /\ closed = FALSE /\ canceled = FALSE
    BY <1>1 DEF Init
  <2>2. proc \in Procs /\ proc.at = "check" /\ proc.closed = FALSE
    BY <2>1 DEF Procs, Places
  <2> QED BY <2>1, <2>2 DEF ProcInv, NoLostWakeup
<1>7. SyncInv
  <2>1. sync = [returned |-> {}, err |-> "nil"] /\ closed = FALSE
    BY <1>1 DEF Init
  <2>2. sync \in Syncs /\ sync.returned = {}
    BY <2>1 DEF Syncs, Errors
  <2> QED BY <2>1, <2>2 DEF SyncInv, Returned
<1>8. ChainInv
  <2>1. chain = <<>> /\ offset = 1
    BY <1>1 DEF Init
  <2>2. Len(chain) = 0 /\ chain \in Chains
    BY <2>1 DEF Chains
  <2> QED BY <2>1, <2>2, <1>2 DEF ChainInv
<1>9. LoopInv
  BY <1>1 DEF Init, LoopInv
<1> QED BY <1>3, <1>4, <1>5, <1>6, <1>7, <1>8, <1>9 DEF Inv

\* A step of the specification keeps the invariant.
LEMMA StepInv == Inv /\ [Next]_vars => Inv'
<1>1. SUFFICES ASSUME Inv, [Next]_vars PROVE Inv'
  OBVIOUS
<1>2. CASE Headers
  BY <1>1, <1>2, ScheduleInv, HeadersReturnInv DEF Headers
<1>3. CASE Process
  BY <1>1, <1>3, ProcessInv, TakeInv DEF Process
<1>4. ASSUME NEW k \in Kinds, Loop(k) PROVE Inv'
  <2>1. CASE Update(k, {})
    BY <2>1, <1>1, <1>4, UpdateInv
  <2> QED BY <2>1, <1>1, <1>4, LoopCanceledInv, InFlightInv, ServeEndInv, ServeInv DEF Loop
<1>5. ASSUME NEW k \in Kinds, NEW p \in Peers, Resolve(k, p) PROVE Inv'
  <2>1. ASSUME NEW ps \in SUBSET DOMAIN pendPool[k], Update(k, ps) PROVE Inv'
    BY <2>1, <1>1, <1>5, UpdateInv
  <2>2. ASSUME NEW m \in net, NEW count \in 0 .. MaxRequest, NEW bad \in BOOLEAN,
               m.kind = k, m.peer = p, Reply(m, count, bad)
        PROVE  Inv'
    BY <2>2, <1>1, <1>5, ReplyInv
  <2> QED BY <2>1, <2>2, <1>5 DEF Resolve
<1>6. ASSUME NEW p \in Peers, Disconnect(p) PROVE Inv'
  BY <1>1, <1>6, DisconnectInv
<1>7. CASE Cancel
  BY <1>1, <1>7, CancelInv
<1>8. CASE UNCHANGED vars
  <2>1. UNCHANGED <<scheduled, taskPool, taskQueue, pendPool, offset, slots, incomplete,
                    threshold, lacking, peers, busy, loop, proc, closed, canceled, sync, chain,
                    unseen>>
    BY <1>8 DEF vars, tasks, store, net_, run
  <2>2. ProcInv'
    BY <2>1, <1>1, ProcKept, Types DEF Returned
  <2>3. SyncInv'
    BY <2>1, <1>1, SyncKept
  <2>4. LoopInv'
    BY <2>1, <1>1, LoopsKept DEF Inv, LoopInv
  <2> QED BY <2>1, <2>2, <2>3, <2>4, <1>1, ControlInv
<1> QED BY <1>1, <1>2, <1>3, <1>4, <1>5, <1>6, <1>7, <1>8 DEF Next

\* The invariant holds always.
LEMMA AlwaysInv == Spec => []Inv
BY InitInv, StepInv, PTL DEF Spec

\* For any headers, peers and limits: a missing part is queued or in flight with
\* one peer, and its slot is there when the answer comes (reserveHeaders, deliver,
\* ExpireBodies, Revoke); the processor does not sleep while there are results or
\* after Close; and no peer stays busy without a request.
THEOREM QueueCorrect == Spec => []QueueInv
<1>1. Inv => QueueInv
  <2>1. SUFFICES ASSUME Inv PROVE QueueInv
    OBVIOUS
  <2>2. TypeOK
    <3>1. proc.at \in Places /\ sync.returned \subseteq Routines
      BY <2>1, Types DEF Procs, Syncs
    <3> QED BY <2>1, <3>1 DEF TypeOK, Inv, StoreInv, TaskInv, PeerInv, ProcInv, LoopInv,
                              Results, Places
  <2>3. \A k \in Kinds, n \in Numbers : Task(k, n)
    BY <2>1 DEF Inv, TaskInv
  <2>4. TasksAccounted
    BY <2>3 DEF TasksAccounted, Task, Holders
  <2>5. SlotOutstanding
    <3>1. SUFFICES ASSUME NEW k \in Kinds, NEW p \in DOMAIN pendPool[k],
                          NEW n \in pendPool[k][p]
                   PROVE  n \in DOMAIN slots /\ k \in slots[n].pending
      BY DEF SlotOutstanding
    <3>2. n \in Numbers /\ p \in Holders(k, n)
      BY <2>1, TaskTypes DEF Holders
    <3> QED BY <3>2, <2>3 DEF Task
  <2> QED BY <2>1, <2>2, <2>4, <2>5 DEF QueueInv, Inv, StoreInv, PeerInv, ProcInv
<1> QED BY <1>1, AlwaysInv, PTL

-----------------------------------------------------------------------------
(* The refinement                                                          *)

\* The processor imports blocks.
Imports ==
  LET taken == Smaller(MaxResults, countCompleted) IN
  /\ taken > 0 /\ ~Returned("processor") /\ UNCHANGED sync
  /\ chain' = chain \o [i \in 1 .. taken |-> slots[offset + i - 1].has]

\* A goroutine returns.
Returns ==
  /\ UNCHANGED chain
  /\ \E g \in Routines, err \in Errors : ~Returned(g) /\ Return(g, err, proc)

\* Nothing happens to the chain, and nobody returns.
Waits ==
  /\ UNCHANGED <<chain, sync>>
  /\ Ended => UNCHANGED <<canceled, unseen>>

\* What a step means for the chain and for spawnSync.
LEMMA StepKinds ==
  ASSUME [Next]_vars
  PROVE  Imports \/ Returns \/ Waits
<1>1. /\ Kinds \subseteq Routines /\ "headers" \in Routines /\ "processor" \in Routines
      /\ "nil" \in Errors /\ "fail" \in Errors /\ "canceled" \in Errors
  BY DEF Routines, Errors
<1>10. \A g \in Routines : ~Returned(g) => ~Ended
  BY DEF Ended, Returned
<1>2. CASE Headers
  <2>1. ASSUME NEW c, Schedule(c) PROVE Waits
    BY <2>1 DEF Schedule, run, Waits
  <2>2. CASE HeadersReturn
    BY <2>2, <1>1 DEF HeadersReturn, Returns
  <2> QED BY <2>1, <2>2, <1>2 DEF Headers
<1>3. CASE Process
  <2>1. CASE Check \/ Lock \/ Wake
    BY <2>1 DEF Check, Lock, Wake, run, Waits
  <2>2. CASE Take
    BY <2>2, <1>1 DEF Take, Imports, Returns
  <2> QED BY <2>1, <2>2, <1>3 DEF Process
<1>4. ASSUME NEW k \in Kinds, NEW ps, Update(k, ps)
      PROVE  Returns \/ Waits
  BY <1>1, <1>4, <1>10 DEF Update, Selecting, Returns, Waits
<1>5. ASSUME NEW k \in Kinds, Loop(k) PROVE Returns \/ Waits
  <2>1. CASE LoopCanceled(k)
    BY <2>1, <1>1 DEF LoopCanceled, Selecting, Returns
  <2>2. CASE Update(k, {})
    BY <2>2, <1>4
  <2>3. CASE ServeEnd(k)
    BY <2>3, <1>1, <1>10 DEF ServeEnd, Returns, Waits
  <2>5. CASE InFlight(k)
    BY <2>5, <1>1, <1>10 DEF InFlight, Returns, Waits
  <2>4. ASSUME NEW p, NEW c, Serve(k, p, c) PROVE Waits
    BY <2>4 DEF Serve, run, Waits
  <2> QED BY <2>1, <2>2, <2>3, <2>4, <2>5, <1>5 DEF Loop
<1>6. ASSUME NEW k \in Kinds, NEW p, Resolve(k, p)
      PROVE  Returns \/ Waits
  <2>1. ASSUME NEW m, NEW count, NEW bad, Reply(m, count, bad)
        PROVE  Waits
    BY <2>1 DEF Reply, run, Waits
  <2> QED BY <2>1, <1>4, <1>6 DEF Resolve
<1>7. ASSUME NEW p, Disconnect(p) PROVE Waits
  BY <1>7 DEF Disconnect, run, Waits
<1>8. CASE Cancel
  BY <1>8 DEF Cancel, Waits
<1>9. CASE UNCHANGED vars
  BY <1>9 DEF vars, run, Waits
<1> QED BY <1>2, <1>3, <1>5, <1>6, <1>7, <1>8, <1>9 DEF Next

\* An import extends the chain by the next blocks.
LEMMA ImportExtends ==
  ASSUME Inv, Imports
  PROVE  Delivery!Extend
<1> DEFINE taken == Smaller(MaxResults, countCompleted)
           m == Len(chain')
<1>1. /\ taken > 0 /\ ~Returned("processor") /\ sync' = sync
      /\ chain' = chain \o [i \in 1 .. taken |-> slots[offset + i - 1].has]
  BY DEF Imports
<1>2. /\ chain' \in Chains /\ m = Len(chain) + taken /\ m <= N
      /\ \A i \in 1 .. m : chain'[i] = Block(i)
      /\ \A i \in 1 .. Len(chain) : chain'[i] = chain[i]
  BY <1>1, TakenBlocks
<1>3. taken \in Nat /\ N \in Nat /\ Len(chain) \in Nat
  BY Taking, Consts, LenProperties DEF Inv, ChainInv, Chains
<1> HIDE DEF taken
<1>4. m \in Len(chain) + 1 .. N
  BY <1>1, <1>2, <1>3
<1>5. chain' = [n \in 1 .. m |-> chain'[n]]
  BY <1>2, LenProperties DEF Chains
<1> HIDE DEF m
<1>6. \A n \in 1 .. m : chain'[n] = IF n <= Len(chain) THEN chain[n] ELSE Delivery!Block(n)
  <2>1. SUFFICES ASSUME NEW n \in 1 .. m
                 PROVE  chain'[n] = IF n <= Len(chain) THEN chain[n] ELSE Delivery!Block(n)
    OBVIOUS
  <2>2. Delivery!Block(n) = Block(n)
    BY DEF Block, Delivery!Block
  <2>3. n <= Len(chain) => n \in 1 .. Len(chain)
    BY <1>3, <1>4
  <2> HIDE DEF Delivery!Block
  <2> QED BY <2>2, <2>3, <1>2 DEF m
<1>7. chain' = [n \in 1 .. m |-> IF n <= Len(chain) THEN chain[n] ELSE Delivery!Block(n)]
  BY <1>5, <1>6
<1>8. ~Ended /\ ~Ended'
  BY <1>1 DEF Ended, Returned, Routines
<1>9. Outcome = "open" /\ Outcome' = "open"
  BY <1>8 DEF Outcome
<1> QED BY <1>4, <1>7, <1>9 DEF Delivery!Extend

\* The last goroutine to return ends the synchronisation; if the value is nil, and
\* nothing was canceled or missed, all blocks are in the chain.
LEMMA ReturnEnds ==
  ASSUME Inv, Inv', Returns
  PROVE  Delivery!End \/ UNCHANGED Delivery!vars
<1>1. PICK g \in Routines, err \in Errors : ~Returned(g) /\ Return(g, err, proc)
  BY DEF Returns
<1>2. chain' = chain /\ ~Ended
  BY <1>1 DEF Returns, Ended, Returned
<1>3. Outcome = "open"
  BY <1>2 DEF Outcome
<1>4. CASE ~Ended'
  <2>1. Outcome' = "open"
    BY <1>4 DEF Outcome
  <2> QED BY <2>1, <1>2, <1>3 DEF Delivery!vars
<1>5. CASE Ended'
  <2>1. CASE Outcome' = "complete"
    <3>1. Returned("processor")' /\ ~canceled' /\ ~unseen'
      BY <2>1, <1>5 DEF Outcome, Ended, Returned, Routines
    <3>2. Len(chain) = N
      BY <3>1, <1>2 DEF Inv, SyncInv
    <3> QED BY <2>1, <3>2, <1>2, <1>3 DEF Delivery!End
  <2>2. CASE Outcome' # "complete"
    <3>1. Outcome' \in {"aborted", "interrupted"}
      BY <2>2, <1>5 DEF Outcome
    <3> QED BY <3>1, <1>2, <1>3 DEF Delivery!End
  <2> QED BY <2>1, <2>2
<1> QED BY <1>4, <1>5

\* The download of bodies and receipts from any peers implements the ordered
\* delivery of complete blocks: the chain grows by the next blocks, each once and
\* with all its parts, and when spawnSync returns nil then all blocks are there,
\* unless the synchronisation was canceled or fetchParts missed, between its looks
\* at pending and inFlight, that a peer left.
THEOREM DeliveryRefined == Spec => DeliverySpec
<1>1. Init => Delivery!Init
  <2>1. SUFFICES ASSUME Init PROVE Delivery!Init
    OBVIOUS
  <2>2. chain = <<>> /\ sync.returned = {}
    BY <2>1 DEF Init
  <2>3. Outcome = "open"
    BY <2>2 DEF Outcome, Ended, Routines
  <2> QED BY <2>2, <2>3 DEF Delivery!Init
<1>2. Inv /\ Inv' /\ [Next]_vars => [Delivery!Next]_(Delivery!vars)
  <2>1. SUFFICES ASSUME Inv, Inv', [Next]_vars PROVE [Delivery!Next]_(Delivery!vars)
    OBVIOUS
  <2>2. CASE Imports
    BY <2>1, <2>2, ImportExtends DEF Delivery!Next
  <2>3. CASE Returns
    BY <2>1, <2>3, ReturnEnds DEF Delivery!Next
  <2>4. CASE Waits
    BY <2>4 DEF Waits, Outcome, Ended, Delivery!vars
  <2> QED BY <2>1, <2>2, <2>3, <2>4, StepKinds
<1> QED BY <1>1, <1>2, AlwaysInv, PTL DEF Spec, DeliverySpec, Delivery!Spec
=============================================================================
