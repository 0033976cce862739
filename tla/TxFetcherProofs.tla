-------------------------- MODULE TxFetcherProofs --------------------------
(***************************************************************************)
(* For any peers, hashes and limits: the loop of the transaction fetcher   *)
(* keeps its trackers consistent, and so reaches none of its panics; a     *)
(* peer that timed out is not asked for the same hash again, and a failure *)
(* costs a hash the one announcer that failed.                             *)
(*                                                                         *)
(* Every handler computes a queue and maybe lets scheduleFetches allocate  *)
(* requests on it.  The proof follows that: QueueInv is what a queue must  *)
(* satisfy, ScheduledInv that scheduleFetches keeps it, and one lemma per  *)
(* handler that the queue the handler hands over satisfies it.             *)
(***************************************************************************)
EXTENDS TxFetcher, TLAPS, FiniteSetTheorems

QueueType(q) ==
  /\ q.announces \in [Peers -> SUBSET Hashes]
  /\ q.announced \in [Hashes -> SUBSET Peers]
  /\ q.fetching \in [Hashes -> Peers \cup {NoPeer}]
  /\ q.alternates \in [Hashes -> SUBSET Peers]
  /\ q.requests \in SUBSET Peers
  /\ q.hashes \in [Peers -> SUBSET Hashes]
  /\ q.stolen \in [Peers -> SUBSET Hashes]
  /\ q.due \in SUBSET Peers
  /\ q.timer \in BOOLEAN
  /\ q.panic \in BOOLEAN

\* Queue q agrees with itself and with the wait list wl.
QueueStages(q, wl) ==
  \A h \in Hashes :
    /\ wl[h] # {} => q.announced[h] = {} /\ q.alternates[h] = {} /\ q.fetching[h] = NoPeer
    /\ q.announced[h] # {} => q.alternates[h] = {} /\ q.fetching[h] = NoPeer
    /\ q.fetching[h] # NoPeer => q.fetching[h] \in q.alternates[h]
    /\ q.alternates[h] # {} => q.fetching[h] # NoPeer

QueueTrackers(q) ==
  \A p \in Peers, h \in Hashes :
    /\ h \in q.announces[p] => p \in q.announced[h] \cup q.alternates[h]
    /\ q.fetching[h] = p => h \in q.announces[p]

RequestInv(q, p) ==
  /\ \A h \in Hashes :
       q.fetching[h] = p <=> p \in q.requests /\ h \in q.hashes[p] \ q.stolen[p]
  /\ p \notin q.requests => q.hashes[p] = {} /\ q.stolen[p] = {} /\ p \notin q.due

QueueRequests(q) == \A p \in Peers : RequestInv(q, p)

QueueInv(q, wl) ==
  /\ QueueType(q)
  /\ QueueStages(q, wl)
  /\ QueueTrackers(q)
  /\ QueueRequests(q)
  /\ ~q.panic

\* The timeout timer is armed if anything in q needs it, the peers in actives aside.
QueueTimer(q, actives) ==
  /\ q.requests # {} => q.timer
  /\ \A p \in Peers \ (q.requests \cup actives) : Available(q, p) # {} => q.timer

\* What scheduleFetches allocates: hashes nobody fetches, to idle peers that
\* announced them; and something, if there is anything to allocate.
LEMMA AllocationFacts ==
  ASSUME NEW q, QueueType(q), NEW actives \in SUBSET Peers, NEW a \in Allocations(actives, q)
  PROVE  /\ a \in [Hashes -> Peers \cup {NoPeer}]
         /\ \A h \in Hashes : a[h] # NoPeer =>
              /\ a[h] \in Peers /\ a[h] \notin q.requests
              /\ h \in q.announces[a[h]]
              /\ q.fetching[h] = NoPeer
         /\ \A p \in actives \ q.requests : Available(q, p) # {} => Asked(a) # {}
<1> DEFINE idle == {p \in actives : p \notin q.requests /\ q.announces[p] # {}}
<1>1. a \in [Hashes -> idle \cup {NoPeer}]
  BY DEF Allocations
<1>2. \A h \in Hashes : a[h] # NoPeer => h \in Available(q, a[h])
  BY DEF Allocations
<1>3. ASSUME NEW p \in actives \ q.requests, Available(q, p) # {}
      PROVE  Asked(a) # {}
  <2>1. PICK h \in Available(q, p) : TRUE
    BY <1>3
  <2>2. p \in idle /\ p \in Peers /\ h \in Hashes
    BY <1>3, <2>1 DEF Available, QueueType
  <2>3. \/ a[h] # NoPeer
        \/ Cardinality({g \in Hashes : a[g] = p}) = MaxTxRetrievals
    BY <2>1, <2>2, <1>3, TxFetcherAssumption DEF Allocations
  <2>4. CASE a[h] # NoPeer
    BY <2>4, <2>2, <1>1 DEF Asked
  <2>5. CASE Cardinality({g \in Hashes : a[g] = p}) = MaxTxRetrievals
    <3>1. Cardinality({g \in Hashes : a[g] = p}) # 0
      BY <2>5, TxFetcherAssumption
    <3>2. {g \in Hashes : a[g] = p} # {}
      BY <3>1, FS_EmptySet
    <3> QED
      BY <3>2, <2>2 DEF Asked
  <2> QED
    BY <2>3, <2>4, <2>5
<1> QED
  <2>1. a \in [Hashes -> Peers \cup {NoPeer}]
    BY <1>1
  <2>2. \A h \in Hashes : a[h] # NoPeer => a[h] \in Peers /\ a[h] \notin q.requests
    BY <1>1
  <2>3. \A h \in Hashes : a[h] # NoPeer => h \in q.announces[a[h]] /\ q.fetching[h] = NoPeer
    BY <1>2 DEF Available
  <2> QED
    BY <2>1, <2>2, <2>3, <1>3

\* scheduleFetches keeps the queue consistent.
LEMMA ScheduledInv ==
  ASSUME NEW q, NEW wl, NEW actives \in SUBSET Peers, NEW a \in Allocations(actives, q),
         QueueInv(q, wl)
  PROVE  QueueInv(Scheduled(a, q), wl)
<1> DEFINE r == Scheduled(a, q)
<1>1. QueueType(q)
  BY DEF QueueInv
<1>2. /\ a \in [Hashes -> Peers \cup {NoPeer}]
      /\ \A h \in Hashes : a[h] # NoPeer =>
           /\ a[h] \in Peers /\ a[h] \notin q.requests
           /\ h \in q.announces[a[h]]
           /\ q.fetching[h] = NoPeer
  BY <1>1, AllocationFacts
<1>3. QueueType(r)
  BY <1>1, <1>2 DEF Scheduled, QueueType, Asked, FirstRequests
<1>4. /\ r.announces = q.announces
      /\ r.announced = [h \in Hashes |-> IF a[h] # NoPeer THEN {} ELSE q.announced[h]]
      /\ r.fetching = [h \in Hashes |-> IF a[h] # NoPeer THEN a[h] ELSE q.fetching[h]]
      /\ r.alternates = [h \in Hashes |-> IF a[h] # NoPeer THEN q.announced[h] ELSE q.alternates[h]]
  BY <1>1 DEF Scheduled, QueueType
<1>5. /\ r.requests = q.requests \cup Asked(a)
      /\ r.hashes = [p \in Peers |-> IF p \in Asked(a) THEN {h \in Hashes : a[h] = p}
                                                       ELSE q.hashes[p]]
      /\ r.stolen = [p \in Peers |-> IF p \in Asked(a) THEN {} ELSE q.stolen[p]]
      /\ r.due = q.due \ Asked(a)
      /\ r.panic = (q.panic \/ \E h \in Hashes : a[h] # NoPeer /\ q.alternates[h] # {})
  BY <1>1 DEF Scheduled, QueueType
<1>6. \A h \in Hashes : a[h] # NoPeer => a[h] \in q.announced[h] /\ q.alternates[h] = {} /\ wl[h] = {}
  BY <1>1, <1>2 DEF QueueInv, QueueStages, QueueTrackers, QueueType
<1>7. QueueStages(r, wl)
  BY <1>1, <1>2, <1>4, <1>6 DEF QueueInv, QueueStages, QueueType
<1>8. QueueTrackers(r)
  BY <1>1, <1>2, <1>4, <1>6 DEF QueueInv, QueueTrackers, QueueType
<1>9. QueueRequests(r)
  BY <1>1, <1>2, <1>4, <1>5, TxFetcherAssumption DEF QueueInv, QueueRequests, RequestInv, QueueType, Asked
<1>10. ~r.panic
  BY <1>5, <1>6 DEF QueueInv
<1> QED
  BY <1>3, <1>7, <1>8, <1>9, <1>10 DEF QueueInv

\* After scheduleFetches, the timeout timer is armed if the queue needs it.
LEMMA ScheduledTimer ==
  ASSUME NEW q, QueueType(q), NEW actives \in SUBSET Peers, NEW a \in Allocations(actives, q),
         QueueTimer(q, actives)
  PROVE  QueueTimer(Scheduled(a, q), {})
<1> DEFINE r == Scheduled(a, q)
<1>1. /\ r.announces = q.announces
      /\ r.fetching = [h \in Hashes |-> IF a[h] # NoPeer THEN a[h] ELSE q.fetching[h]]
      /\ r.requests = q.requests \cup Asked(a)
      /\ r.timer = (q.timer \/ FirstRequests(q, Asked(a)))
  BY DEF Scheduled, QueueType
<1>2. r.requests # {} => r.timer
  BY <1>1 DEF QueueTimer, FirstRequests
<1>3. ASSUME NEW p \in Peers \ r.requests, Available(r, p) # {}
      PROVE  r.timer
  <2>1. Available(q, p) # {}
    BY <1>1, <1>3, AllocationFacts DEF Available, QueueType
  <2>2. CASE p \in actives
    BY <2>1, <2>2, <1>1, <1>2, <1>3, AllocationFacts
  <2>3. CASE p \notin actives
    BY <2>1, <2>3, <1>1, <1>3 DEF QueueTimer
  <2> QED
    BY <2>2, <2>3
<1> QED
  BY <1>2, <1>3 DEF QueueTimer

-----------------------------------------------------------------------------
\* The part of Inv about stage 1.
WaitInv ==
  /\ waitlist \in [Hashes -> SUBSET Peers]
  /\ waittime \in [Hashes -> {"none", "fresh", "due"}]
  /\ waitslots \in [Peers -> SUBSET Hashes]
  /\ waitTimer \in BOOLEAN
  /\ \A p \in Peers, h \in Hashes : h \in waitslots[p] <=> p \in waitlist[h]
  /\ \A h \in Hashes : waittime[h] = "none" <=> waitlist[h] = {}
  /\ (\E h \in Hashes : waitlist[h] # {}) => waitTimer

\* Inv, taken apart.
LEMMA InvParts ==
  ASSUME Inv
  PROVE  WaitInv /\ QueueInv(Queue, waitlist) /\ QueueTimer(Queue, {})
<1> USE DEF Inv, TypeOK, Queue
<1>1. QueueType(Queue) /\ ~Queue.panic
  BY DEF QueueType
<1>2. WaitInv
  BY DEF WaitInv, TrackersAgree, TimersArmed
<1>3. QueueStages(Queue, waitlist)
  BY DEF QueueStages, StagesExclusive
<1>4. QueueTrackers(Queue)
  BY DEF QueueTrackers, TrackersAgree
<1>5. QueueRequests(Queue)
  BY DEF QueueRequests, RequestInv, FetchesMatchRequests, Outstanding
<1>6. QueueTimer(Queue, {})
  BY DEF QueueTimer, TimersArmed, Available
<1> QED
  BY <1>1, <1>2, <1>3, <1>4, <1>5, <1>6 DEF QueueInv

\* Inv holds after a handler that leaves a consistent queue behind.
LEMMA InvAfter ==
  ASSUME NEW q, SetQueue(q), WaitInv', QueueInv(q, waitlist'), QueueTimer(q, {})
  PROVE  Inv'
<1> USE DEF SetQueue, QueueInv
<1>1. TypeOK'
  BY DEF TypeOK, QueueType, WaitInv
<1>2. NoPanic'
  BY DEF NoPanic
<1>3. StagesExclusive'
  BY DEF StagesExclusive, QueueStages
<1>4. TrackersAgree'
  BY DEF TrackersAgree, QueueTrackers, WaitInv
<1>5. FetchesMatchRequests'
  BY DEF FetchesMatchRequests, QueueRequests, RequestInv, Outstanding
<1>6. TimersArmed'
  BY DEF TimersArmed, QueueTimer, Available, WaitInv, Queue
<1> QED
  BY <1>1, <1>2, <1>3, <1>4, <1>5, <1>6 DEF Inv

\* Inv holds after a handler that lets scheduleFetches loose on a consistent queue.
LEMMA InvScheduled ==
  ASSUME NEW q, NEW actives \in SUBSET Peers, ScheduleFetches(actives, q),
         WaitInv', QueueInv(q, waitlist'), QueueTimer(q, actives)
  PROVE  Inv'
<1>1. PICK a \in Allocations(actives, q) : SetQueue(Scheduled(a, q))
  BY DEF ScheduleFetches
<1>2. QueueInv(Scheduled(a, q), waitlist')
  BY ScheduledInv
<1>3. QueueTimer(Scheduled(a, q), {})
  BY ScheduledTimer DEF QueueInv
<1> QED
  BY <1>1, <1>2, <1>3, InvAfter

-----------------------------------------------------------------------------
(***************************************************************************)
(* One lemma per handler.                                                  *)
(***************************************************************************)

\* An announcement.
LEMMA NotifyInv ==
  ASSUME Inv, NEW p \in Peers, NEW hs \in SUBSET Hashes, HandleNotify(p, hs)
  PROVE  Inv'
<1>1. WaitInv /\ QueueInv(Queue, waitlist) /\ QueueTimer(Queue, {})
  BY InvParts
<1>2. PICK taken \in Accepted(p, hs) : HandleNotify(p, hs)!2!(taken)
  BY DEF HandleNotify
<1> DEFINE q == Joined(p, taken)
           inflight == {h \in taken : alternates[h] # {}}
           queued == {h \in taken \ inflight : announced[h] # {}}
<1>3. taken \in SUBSET Hashes
  BY DEF Accepted
<1>4. /\ q.announces = [announces EXCEPT ![p] = @ \cup inflight \cup queued]
      /\ q.announced = [h \in Hashes |-> IF h \in queued THEN announced[h] \cup {p} ELSE announced[h]]
      /\ q.alternates = [h \in Hashes |-> IF h \in inflight THEN alternates[h] \cup {p}
                                                            ELSE alternates[h]]
      /\ q.fetching = fetching /\ q.requests = requests /\ q.hashes = reqHashes
      /\ q.stolen = stolen /\ q.due = reqDue /\ q.timer = timeoutTimer /\ ~q.panic
  BY DEF Joined, Queue
<1>5. WaitInv'
  <2>1. /\ waitlist' \in [Hashes -> SUBSET Peers]
        /\ waittime' \in [Hashes -> {"none", "fresh", "due"}]
        /\ waitslots' \in [Peers -> SUBSET Hashes]
    BY <1>1, <1>2, <1>3 DEF WaitInv, Waiting
  <2>2. waitTimer' \in BOOLEAN
    BY <1>1, <1>2 DEF WaitInv, RescheduleWait
  <2>3. (\A o \in Peers, h \in Hashes : h \in waitslots[o] <=> o \in waitlist[h])'
    BY <1>1, <1>2, <1>3 DEF WaitInv, Waiting
  <2>4. (\A h \in Hashes : waittime[h] = "none" <=> waitlist[h] = {})'
    BY <1>1, <1>2 DEF WaitInv
  <2>5. ((\E h \in Hashes : waitlist[h] # {}) => waitTimer)'
    <3>1. CASE \A h \in Hashes : waittime[h] = "none"
      BY <3>1, <1>1, <1>2, <1>3 DEF WaitInv, RescheduleWait
    <3>2. CASE ~\A h \in Hashes : waittime[h] = "none"
      BY <3>2, <1>1, <1>2 DEF WaitInv, RescheduleWait
    <3> QED
      BY <3>1, <3>2
  <2> QED
    BY <2>1, <2>2, <2>3, <2>4, <2>5 DEF WaitInv
<1>6. QueueInv(q, waitlist')
  <2>1. QueueType(q)
    BY <1>1, <1>3 DEF Joined, Queue, QueueType, QueueInv
  <2>2. QueueStages(q, waitlist')
    BY <1>1, <1>2, <1>3, <1>4 DEF QueueStages, QueueInv, Waiting, QueueType, Queue, WaitInv
  <2>3. QueueTrackers(q)
    BY <1>1, <1>3, <1>4 DEF QueueTrackers, QueueInv, QueueType, Queue
  <2>4. QueueRequests(q)
    BY <1>1, <1>4 DEF QueueRequests, RequestInv, QueueInv, Queue
  <2> QED
    BY <2>1, <2>2, <2>3, <2>4, <1>4 DEF QueueInv
<1>7. CASE announces[p] = {} /\ q.announces[p] # {}
  <2>1. QueueTimer(q, {p})
    BY <1>1, <1>4 DEF QueueTimer, QueueInv, QueueType, Queue, Available
  <2> QED
    BY <2>1, <1>2, <1>5, <1>6, <1>7, InvScheduled
<1>8. CASE ~(announces[p] = {} /\ q.announces[p] # {})
  <2>1. requests # {} => timeoutTimer
    BY <1>1 DEF QueueTimer, Queue
  <2>2. ASSUME announces[p] # {}
        PROVE  QueueTimer(q, {})
    <3>1. PICK h \in announces[p] : h \in Hashes
      BY <1>1, <2>2 DEF QueueInv, QueueType, Queue
    <3>2. ASSUME fetching[h] = NoPeer
          PROVE  timeoutTimer
      BY <3>1, <3>2, <1>1, <2>1 DEF QueueTimer, Queue, Available
    <3>3. ASSUME fetching[h] # NoPeer
          PROVE  timeoutTimer
      BY <3>1, <3>3, <1>1, <2>1 DEF QueueInv, QueueType, QueueRequests, RequestInv, Queue
    <3>4. timeoutTimer
      BY <3>2, <3>3
    <3> QED
      BY <3>4, <1>4 DEF QueueTimer
  <2>3. ASSUME announces[p] = {}
        PROVE  QueueTimer(q, {})
    <3>1. q.announces = announces
      BY <2>3, <1>1, <1>4, <1>8 DEF QueueInv, QueueType, Queue
    <3> QED
      BY <3>1, <1>1, <1>4 DEF QueueTimer, Queue, Available
  <2>4. QueueTimer(q, {})
    BY <2>2, <2>3
  <2> QED
    BY <2>4, <1>2, <1>5, <1>6, <1>8, InvAfter
<1> QED
  BY <1>7, <1>8

\* The wait timer.
LEMMA WaitTriggerInv ==
  ASSUME Inv, HandleWaitTrigger
  PROVE  Inv'
<1> DEFINE expired == {h \in Hashes : waittime[h] = "due"}
           actives == UNION {waitlist[h] : h \in expired}
           q == Promoted(expired)
<1>1. WaitInv /\ QueueInv(Queue, waitlist) /\ QueueTimer(Queue, {})
  BY InvParts
<1>2. /\ waitslots' = [p \in Peers |-> waitslots[p] \ {h \in expired : p \in waitlist[h]}]
      /\ waitlist' = [h \in Hashes |-> IF h \in expired THEN {} ELSE waitlist[h]]
      /\ waittime' = [h \in Hashes |-> IF h \in expired THEN "none" ELSE waittime[h]]
      /\ waitTimer' = RescheduleWait(FALSE, {h \in Hashes : waittime'[h] # "none"})
      /\ ScheduleFetches(actives, q)
  BY DEF HandleWaitTrigger
<1>3. /\ q.announced = [h \in Hashes |-> IF h \in expired THEN waitlist[h] ELSE announced[h]]
      /\ q.announces = [p \in Peers |-> announces[p] \cup {h \in expired : p \in waitlist[h]}]
      /\ q.panic = \E h \in expired : announced[h] # {}
      /\ q.alternates = alternates /\ q.fetching = fetching /\ q.requests = requests
      /\ q.hashes = reqHashes /\ q.stolen = stolen /\ q.due = reqDue
      /\ q.timer = timeoutTimer
  BY DEF Promoted, Queue
<1>4. WaitInv'
  BY <1>1, <1>2 DEF WaitInv, RescheduleWait
<1>5. QueueInv(q, waitlist')
  <2>1. QueueType(q)
    BY <1>1 DEF Promoted, Queue, QueueType, QueueInv, WaitInv
  <2>2. \A h \in expired : announced[h] = {} /\ alternates[h] = {} /\ fetching[h] = NoPeer
    BY <1>1 DEF WaitInv, QueueInv, QueueStages, Queue
  <2>3. QueueStages(q, waitlist')
    BY <1>1, <1>2, <1>3, <2>2 DEF QueueStages, QueueInv, Queue
  <2>4. QueueTrackers(q)
    BY <1>1, <1>3, <2>2 DEF QueueTrackers, QueueInv, QueueType, Queue
  <2>5. QueueRequests(q)
    BY <1>1, <1>3 DEF QueueRequests, RequestInv, QueueInv, Queue
  <2> QED
    BY <2>1, <2>2, <2>3, <2>4, <2>5, <1>3 DEF QueueInv
<1>6. QueueTimer(q, actives)
  <2>1. ASSUME NEW p \in Peers \ actives
        PROVE  q.announces[p] = announces[p]
    <3>1. {h \in expired : p \in waitlist[h]} = {}
      BY <2>1
    <3>2. q.announces[p] = announces[p] \cup {h \in expired : p \in waitlist[h]}
      BY <1>3
    <3> QED
      BY <3>1, <3>2
  <2>2. \A p \in Peers \ actives : Available(q, p) = Available(Queue, p)
    BY <2>1, <1>3 DEF Queue, Available
  <2> QED
    BY <2>2, <1>1, <1>3 DEF QueueTimer, Queue
<1>7. actives \in SUBSET Peers
  BY <1>1 DEF WaitInv
<1> QED
  BY <1>2, <1>4, <1>5, <1>6, <1>7, InvScheduled

\* The timeout timer.
LEMMA TimeoutTriggerInv ==
  ASSUME Inv, HandleTimeoutTrigger
  PROVE  Inv'
<1> DEFINE expired == requests \cap reqDue
           holders(h) == {p \in expired : h \in Outstanding(p)}
           lost == {h \in Hashes : holders(h) # {}}
           q == TimedOut(expired)
<1>1. WaitInv /\ QueueInv(Queue, waitlist) /\ QueueTimer(Queue, {})
  BY InvParts
<1>2. ScheduleFetches(AllActive(q), q) /\ UNCHANGED waitVars
  BY DEF HandleTimeoutTrigger
<1>3. /\ q.announced = [h \in Hashes |-> IF h \in lost THEN Fallback(h, holders(h))
                                                       ELSE announced[h]]
      /\ q.announces = [p \in Peers |-> IF p \in expired THEN announces[p] \ Outstanding(p)
                                                         ELSE announces[p]]
      /\ q.alternates = [h \in Hashes |-> IF h \in lost THEN {} ELSE alternates[h]]
      /\ q.fetching = [h \in Hashes |-> IF h \in lost THEN NoPeer ELSE fetching[h]]
      /\ q.hashes = [p \in Peers |-> IF p \in expired THEN {} ELSE reqHashes[p]]
      /\ q.timer
      /\ q.panic = \E h \in lost : announced[h] # {}
      /\ q.requests = requests /\ q.stolen = stolen /\ q.due = reqDue
  BY DEF TimedOut, Queue
<1>4. WaitInv'
  BY <1>1, <1>2 DEF WaitInv, waitVars
<1>5. \A h \in Hashes, p \in Peers : fetching[h] = p <=> h \in Outstanding(p)
  BY DEF Inv, FetchesMatchRequests
<1>6. \A h \in lost : /\ fetching[h] \in expired /\ holders(h) = {fetching[h]}
                      /\ announced[h] = {} /\ waitlist[h] = {}
  <2> SUFFICES ASSUME NEW h \in lost
               PROVE  /\ fetching[h] \in expired /\ holders(h) = {fetching[h]}
                      /\ announced[h] = {} /\ waitlist[h] = {}
    OBVIOUS
  <2>1. \A p \in holders(h) : p \in Peers /\ fetching[h] = p
    BY <1>1, <1>5 DEF QueueInv, QueueType, Queue
  <2>2. PICK p \in holders(h) : TRUE
    OBVIOUS
  <2>3. fetching[h] # NoPeer
    BY <2>1, <2>2, TxFetcherAssumption
  <2> QED
    BY <2>1, <2>2, <2>3, <1>1 DEF QueueInv, QueueStages, Queue
<1>7. \A h \in Hashes \ lost : fetching[h] \notin expired
  BY <1>1, <1>5 DEF QueueInv, QueueType, Queue
<1> HIDE DEF lost, holders, expired
<1>8. QueueInv(q, waitlist')
  <2>1. QueueType(q)
    BY <1>1 DEF TimedOut, Queue, QueueType, QueueInv, Fallback
  <2>2. QueueStages(q, waitlist')
    <3>1. \A h \in Hashes : waitlist'[h] = waitlist[h]
      BY <1>2 DEF waitVars
    <3> QED
      BY <3>1, <1>1, <1>3, <1>6 DEF QueueStages, QueueInv, Queue
  <2>3. QueueTrackers(q)
    <3> SUFFICES ASSUME NEW p \in Peers, NEW h \in Hashes
                 PROVE  /\ h \in q.announces[p] => p \in q.announced[h] \cup q.alternates[h]
                        /\ q.fetching[h] = p => h \in q.announces[p]
      BY DEF QueueTrackers
    <3>1. /\ h \in announces[p] => p \in announced[h] \cup alternates[h]
          /\ fetching[h] = p => h \in announces[p]
      BY DEF Inv, TrackersAgree
    <3>2. CASE h \in lost
      BY <3>1, <3>2, <1>3, <1>5, <1>6, TxFetcherAssumption DEF Fallback
    <3>3. CASE h \notin lost
      BY <3>1, <3>3, <1>3, <1>5, <1>7
    <3> QED
      BY <3>2, <3>3
  <2>4. QueueRequests(q)
    <3> SUFFICES ASSUME NEW p \in Peers
                 PROVE  /\ \A h \in Hashes :
                             q.fetching[h] = p <=> p \in q.requests /\ h \in q.hashes[p] \ q.stolen[p]
                        /\ p \notin q.requests => q.hashes[p] = {} /\ q.stolen[p] = {} /\ p \notin q.due
      BY DEF QueueRequests, RequestInv
    <3>1. CASE p \in expired
      <4>1. p \in q.requests /\ q.hashes[p] = {}
        BY <3>1, <1>3 DEF expired
      <4>2. \A h \in Hashes : q.fetching[h] # p
        BY <3>1, <1>3, <1>7, TxFetcherAssumption
      <4> QED
        BY <4>1, <4>2
    <3>2. CASE p \notin expired
      <4>1. q.hashes[p] = reqHashes[p] /\ q.stolen[p] = stolen[p] /\ q.requests = requests
        BY <3>2, <1>3
      <4>2. \A h \in Hashes : fetching[h] = p <=> q.fetching[h] = p
        BY <3>2, <1>3, <1>6, TxFetcherAssumption
      <4> QED
        BY <4>1, <4>2, <1>1, <1>3 DEF QueueRequests, RequestInv, QueueInv, Queue
    <3> QED
      BY <3>1, <3>2
  <2> QED
    BY <2>1, <2>2, <2>3, <2>4, <1>3, <1>6 DEF QueueInv
<1>9. QueueTimer(q, AllActive(q))
  BY <1>3 DEF QueueTimer
<1> QED
  BY <1>2, <1>4, <1>8, <1>9, InvScheduled DEF AllActive

\* What is true of the queue q without the traces of the delivery of hs by p.
UntrackedFacts(q, wl, p, hs, direct) ==
  /\ QueueType(q) /\ QueueStages(q, wl) /\ QueueTrackers(q) /\ ~q.panic
  /\ \A o \in Peers : o # p \/ ~direct \/ p \notin requests => RequestInv(q, o)
  /\ direct => \A h \in Hashes : /\ h \notin hs => q.fetching[h] = fetching[h]
                                 /\ h \in hs => q.fetching[h] # p
  /\ direct => q.hashes[p] = reqHashes[p] /\ q.stolen[p] = stolen[p]
  /\ q.requests = requests /\ q.timer = timeoutTimer
  /\ \A o \in Peers : Available(q, o) \subseteq Available(Queue, o)

\* Removing the traces of a delivery keeps the queue consistent, but for the
\* request that is being answered: what is delivered of it is no longer fetched.
LEMMA UntrackedInv ==
  ASSUME Inv, NEW p \in Peers, NEW hs \in SUBSET Hashes, NEW direct \in BOOLEAN,
         NEW wl, \A h \in Hashes : wl[h] # {} => waitlist[h] # {}
  PROVE  UntrackedFacts(Untracked(p, hs, direct), wl, p, hs, direct)
<1> DEFINE q == Untracked(p, hs, direct)
           rest == {h \in hs : waitlist[h] = {}}
           taken(o) == {h \in rest : fetching[h] = o /\ (o # p \/ ~direct)}
<1>1. WaitInv /\ QueueInv(Queue, waitlist)
  BY InvParts
<1>2. /\ q.announces = [o \in Peers |-> announces[o] \ rest]
      /\ q.announced = [h \in Hashes |-> IF h \in rest THEN {} ELSE announced[h]]
      /\ q.alternates = [h \in Hashes |-> IF h \in rest THEN {} ELSE alternates[h]]
      /\ q.fetching = [h \in Hashes |-> IF h \in rest THEN NoPeer ELSE fetching[h]]
      /\ q.stolen = [o \in Peers |-> stolen[o] \cup taken(o)]
      /\ q.panic = \E o \in Peers \ requests : taken(o) # {}
      /\ q.requests = requests /\ q.hashes = reqHashes /\ q.due = reqDue
      /\ q.timer = timeoutTimer
  BY DEF Untracked, Queue
<1>3. \A o \in Peers : RequestInv(Queue, o)
  BY <1>1 DEF QueueInv, QueueRequests
<1>4. \A h \in hs \ rest : fetching[h] = NoPeer
  BY <1>1 DEF QueueInv, QueueStages, Queue
<1>5. QueueType(q)
  BY <1>1, <1>2 DEF QueueInv, QueueType, Queue
<1>6. QueueStages(q, wl)
  BY <1>1, <1>2 DEF QueueInv, QueueStages, Queue
<1>7. QueueTrackers(q)
  BY <1>1, <1>2, TxFetcherAssumption DEF QueueInv, QueueTrackers, Queue
<1>8. ~q.panic
  BY <1>2, <1>3 DEF RequestInv, Queue
<1>9. ASSUME NEW o \in Peers, o # p \/ ~direct \/ p \notin requests
      PROVE  RequestInv(q, o)
  <2>1. taken(o) = {h \in rest : fetching[h] = o}
    BY <1>3, <1>9 DEF RequestInv, Queue
  <2>2. ASSUME NEW h \in Hashes
        PROVE  q.fetching[h] = o <=> o \in q.requests /\ h \in q.hashes[o] \ q.stolen[o]
    <3>1. fetching[h] = o <=> o \in requests /\ h \in reqHashes[o] \ stolen[o]
      BY <1>3 DEF RequestInv, Queue
    <3>2. h \in q.stolen[o] <=> h \in stolen[o] \/ (h \in rest /\ fetching[h] = o)
      BY <1>2, <2>1
    <3>3. q.fetching[h] = o <=> fetching[h] = o /\ h \notin rest
      BY <1>2, TxFetcherAssumption
    <3> HIDE DEF q
    <3> QED
      BY <3>1, <3>2, <3>3, <1>2
  <2>3. o \notin q.requests => q.hashes[o] = {} /\ q.stolen[o] = {} /\ o \notin q.due
    BY <1>2, <1>3, <2>1 DEF RequestInv, Queue
  <2> QED
    BY <2>2, <2>3 DEF RequestInv
<1>10. direct => \A h \in Hashes : /\ h \notin hs => q.fetching[h] = fetching[h]
                                   /\ h \in hs => q.fetching[h] # p
  BY <1>2, <1>4, TxFetcherAssumption
<1>11. direct => q.hashes[p] = reqHashes[p] /\ q.stolen[p] = stolen[p]
  BY <1>2
<1>12. \A o \in Peers : Available(q, o) \subseteq Available(Queue, o)
  <2> SUFFICES ASSUME NEW o \in Peers, NEW h \in Available(q, o)
               PROVE  h \in Available(Queue, o)
    OBVIOUS
  <2>1. h \in Hashes /\ h \in announces[o] \ rest
    BY <1>1, <1>2 DEF Available, QueueInv, QueueType, Queue
  <2> QED
    BY <1>2, <2>1 DEF Available, Queue
<1> QED
  BY <1>2, <1>5, <1>6, <1>7, <1>8, <1>9, <1>10, <1>11, <1>12 DEF UntrackedFacts

\* Putting back what is missing from an answer to p's request restores the queue.
LEMMA RequeuedInv ==
  ASSUME NEW q, NEW wl, NEW p \in Peers, NEW hs \in SUBSET Hashes, NEW cut \in SUBSET Hashes,
         QueueType(q), QueueStages(q, wl), QueueTrackers(q), ~q.panic, p \in q.requests,
         \A o \in Peers \ {p} : RequestInv(q, o),
         \A h \in Hashes : q.fetching[h] = p <=> h \in (q.hashes[p] \ q.stolen[p]) \ hs,
         \A h \in (q.hashes[p] \ q.stolen[p]) \cap hs :
           q.fetching[h] = NoPeer /\ q.alternates[h] = {},
         cut \subseteq (q.hashes[p] \ q.stolen[p]) \ hs
  PROVE  QueueInv(Requeued(p, hs, cut, q), wl)
<1> DEFINE r == Requeued(p, hs, cut, q)
           open == q.hashes[p] \ q.stolen[p]
           missing == open \ hs
           alt(h) == IF h \in cut THEN q.alternates[h] \ {p} ELSE q.alternates[h]
<1>1. /\ r.requests = q.requests \ {p}
      /\ r.hashes = [q.hashes EXCEPT ![p] = {}]
      /\ r.stolen = [q.stolen EXCEPT ![p] = {}]
      /\ r.due = q.due \ {p}
      /\ r.announces = [q.announces EXCEPT ![p] = @ \ cut]
      /\ r.announced = [h \in Hashes |-> IF h \in missing /\ alt(h) # {} THEN alt(h)
                                                                        ELSE q.announced[h]]
      /\ r.alternates = [h \in Hashes |-> IF h \in open THEN {} ELSE q.alternates[h]]
      /\ r.fetching = [h \in Hashes |-> IF h \in open THEN NoPeer ELSE q.fetching[h]]
      /\ r.panic = (q.panic \/ \E h \in missing : alt(h) # {} /\ q.announced[h] # {})
      /\ r.timer = q.timer
  BY DEF Requeued
<1>2. \A h \in Hashes : h \in missing => /\ q.fetching[h] = p /\ p # NoPeer
                                         /\ q.announced[h] = {} /\ wl[h] = {}
  BY TxFetcherAssumption DEF QueueStages
<1>3. QueueType(r)
  BY <1>1 DEF QueueType
<1>4. QueueStages(r, wl)
  <2> SUFFICES ASSUME NEW h \in Hashes
               PROVE  /\ wl[h] # {} => r.announced[h] = {} /\ r.alternates[h] = {} /\ r.fetching[h] = NoPeer
                      /\ r.announced[h] # {} => r.alternates[h] = {} /\ r.fetching[h] = NoPeer
                      /\ r.fetching[h] # NoPeer => r.fetching[h] \in r.alternates[h]
                      /\ r.alternates[h] # {} => r.fetching[h] # NoPeer
    BY DEF QueueStages
  <2>1. CASE h \in missing
    BY <2>1, <1>1, <1>2
  <2>2. CASE h \in open \cap hs
    BY <2>2, <1>1 DEF QueueStages
  <2>3. CASE h \notin open
    BY <2>3, <1>1 DEF QueueStages
  <2> QED
    BY <2>1, <2>2, <2>3
<1>5. QueueTrackers(r)
  <2> SUFFICES ASSUME NEW o \in Peers, NEW h \in Hashes
               PROVE  /\ h \in r.announces[o] => o \in r.announced[h] \cup r.alternates[h]
                      /\ r.fetching[h] = o => h \in r.announces[o]
    BY DEF QueueTrackers
  <2>1. /\ h \in q.announces[o] => o \in q.announced[h] \cup q.alternates[h]
        /\ q.fetching[h] = o => h \in q.announces[o]
    BY DEF QueueTrackers
  <2>2. h \in r.announces[o] <=> h \in q.announces[o] /\ (o # p \/ h \notin cut)
    BY <1>1 DEF QueueType
  <2>3. CASE h \in missing
    BY <2>1, <2>2, <2>3, <1>1, <1>2, TxFetcherAssumption
  <2>4. CASE h \in open \cap hs
    BY <2>1, <2>2, <2>4, <1>1, TxFetcherAssumption
  <2>5. CASE h \notin open
    BY <2>1, <2>2, <2>5, <1>1
  <2> QED
    BY <2>3, <2>4, <2>5
<1>6. QueueRequests(r)
  <2> SUFFICES ASSUME NEW o \in Peers
               PROVE  RequestInv(r, o)
    BY DEF QueueRequests
  <2>1. CASE o = p
    BY <2>1, <1>1, TxFetcherAssumption DEF RequestInv, QueueType
  <2>2. CASE o # p
    BY <2>2, <1>1, <1>2, TxFetcherAssumption DEF RequestInv, QueueType
  <2> QED
    BY <2>1, <2>2
<1>7. ~r.panic
  BY <1>1, <1>2 DEF QueueType
<1> QED
  BY <1>3, <1>4, <1>5, <1>6, <1>7 DEF QueueInv

\* A delivery.
LEMMA CleanupInv ==
  ASSUME Inv, NEW p \in Peers, NEW hs \in SUBSET Hashes, NEW direct \in BOOLEAN,
         HandleCleanup(p, hs, direct)
  PROVE  Inv'
<1> DEFINE waiting == {h \in hs : waitlist[h] # {}}
           q == Untracked(p, hs, direct)
<1>1. WaitInv /\ QueueInv(Queue, waitlist) /\ QueueTimer(Queue, {})
  BY InvParts
<1>2. /\ waitlist' = [h \in Hashes |-> IF h \in waiting THEN {} ELSE waitlist[h]]
      /\ waittime' = [h \in Hashes |-> IF h \in waiting THEN "none" ELSE waittime[h]]
      /\ waitslots' = [o \in Peers |-> waitslots[o] \ waiting]
      /\ UNCHANGED waitTimer
      /\ IF direct /\ p \in requests
         THEN \E cut \in Cutoffs(p, hs, q) :
                LET r == Requeued(p, hs, cut, q) IN ScheduleFetches(AllActive(r), r)
         ELSE SetQueue(q)
  BY DEF HandleCleanup
<1>3. WaitInv'
  BY <1>1, <1>2 DEF WaitInv
<1>4. \A h \in Hashes : waitlist'[h] # {} => waitlist[h] # {}
  BY <1>2
<1>5. UntrackedFacts(q, waitlist', p, hs, direct)
  BY <1>4, UntrackedInv
<1> HIDE DEF q
<1> USE DEF UntrackedFacts
<1>6. CASE direct /\ p \in requests
  <2>1. PICK cut \in Cutoffs(p, hs, q) :
               ScheduleFetches(AllActive(Requeued(p, hs, cut, q)), Requeued(p, hs, cut, q))
    BY <1>2, <1>6
  <2> DEFINE r == Requeued(p, hs, cut, q)
  <2>2. cut \subseteq (q.hashes[p] \ q.stolen[p]) \ hs
    BY DEF Cutoffs
  <2>3. \A h \in Hashes : fetching[h] = p <=> h \in q.hashes[p] \ q.stolen[p]
    BY <1>1, <1>5, <1>6 DEF QueueInv, QueueRequests, RequestInv, Queue
  <2>4. \A h \in Hashes : q.fetching[h] = p <=> h \in (q.hashes[p] \ q.stolen[p]) \ hs
    BY <1>5, <1>6, <2>3
  <2>5. \A h \in (q.hashes[p] \ q.stolen[p]) \cap hs : q.fetching[h] = NoPeer /\ q.alternates[h] = {}
    <3> SUFFICES ASSUME NEW h \in (q.hashes[p] \ q.stolen[p]) \cap hs
                 PROVE  q.fetching[h] = NoPeer /\ q.alternates[h] = {}
      OBVIOUS
    <3>1. h \in Hashes /\ fetching[h] = p
      BY <1>5, <2>3 DEF QueueType
    <3>2. waitlist[h] = {}
      BY <3>1, <1>1, TxFetcherAssumption DEF QueueInv, QueueStages, Queue
    <3> QED
      BY <3>1, <3>2 DEF q, Untracked, Queue
  <2>6. cut \in SUBSET Hashes
    BY <2>2, <1>5 DEF QueueType
  <2>7. QueueInv(r, waitlist')
    BY <1>5, <1>6, <2>2, <2>4, <2>5, <2>6, RequeuedInv
  <2>8. r.timer = timeoutTimer /\ timeoutTimer
    BY <1>1, <1>5, <1>6 DEF Requeued, QueueTimer, Queue
  <2>9. QueueTimer(r, AllActive(r))
    BY <2>8 DEF QueueTimer
  <2> QED
    BY <1>3, <2>1, <2>7, <2>9, InvScheduled DEF AllActive
<1>7. CASE ~(direct /\ p \in requests)
  <2>1. QueueInv(q, waitlist')
    BY <1>5, <1>7 DEF QueueInv, QueueRequests
  <2>2. QueueTimer(q, {})
    BY <1>1, <1>5 DEF QueueTimer, Queue
  <2> QED
    BY <1>2, <1>3, <1>7, <2>1, <2>2, InvAfter
<1> QED
  BY <1>6, <1>7

\* A peer that leaves.
LEMMA DropInv ==
  ASSUME Inv, NEW p \in Peers, HandleDrop(p)
  PROVE  Inv'
<1> DEFINE q == Dropped(p)
           lost == Outstanding(p)
           stranded(h) == IF h \in lost /\ Fallback(h, {p}) # {} THEN Fallback(h, {p})
                                                                 ELSE announced[h]
<1>1. WaitInv /\ QueueInv(Queue, waitlist) /\ QueueTimer(Queue, {})
  BY InvParts
<1>2. /\ waitlist' = [h \in Hashes |-> IF h \in waitslots[p] THEN waitlist[h] \ {p} ELSE waitlist[h]]
      /\ waittime' = [h \in Hashes |-> IF h \in waitslots[p] /\ waitlist[h] \subseteq {p}
                                       THEN "none" ELSE waittime[h]]
      /\ waitslots' = [waitslots EXCEPT ![p] = {}]
      /\ waitTimer' = RescheduleWait(waitTimer, IF waitslots[p] = {} THEN {}
                                                ELSE {h \in Hashes : waitlist'[h] # {}})
      /\ IF p \in requests THEN ScheduleFetches(AllActive(q), q) ELSE SetQueue(q)
  BY DEF HandleDrop
<1>3. /\ q.announced = [h \in Hashes |-> IF h \in announces[p] THEN stranded(h) \ {p} ELSE stranded(h)]
      /\ q.announces = [announces EXCEPT ![p] = {}]
      /\ q.alternates = [h \in Hashes |-> IF h \in lost THEN {} ELSE alternates[h]]
      /\ q.fetching = [h \in Hashes |-> IF h \in lost THEN NoPeer ELSE fetching[h]]
      /\ q.requests = requests \ {p}
      /\ q.hashes = [reqHashes EXCEPT ![p] = {}]
      /\ q.stolen = [stolen EXCEPT ![p] = {}]
      /\ q.due = reqDue \ {p}
      /\ q.timer = (timeoutTimer \/ p \in requests)
      /\ ~q.panic
  BY DEF Dropped, Queue
<1>4. WaitInv'
  <2>1. /\ waitlist' \in [Hashes -> SUBSET Peers]
        /\ waittime' \in [Hashes -> {"none", "fresh", "due"}]
        /\ waitslots' \in [Peers -> SUBSET Hashes]
    BY <1>1, <1>2 DEF WaitInv
  <2>2. waitTimer' \in BOOLEAN /\ (waitTimer => waitTimer')
    BY <1>1, <1>2 DEF WaitInv, RescheduleWait
  <2>3. (\A o \in Peers, h \in Hashes : h \in waitslots[o] <=> o \in waitlist[h])'
    BY <1>1, <1>2 DEF WaitInv
  <2>4. (\A h \in Hashes : waittime[h] = "none" <=> waitlist[h] = {})'
    BY <1>1, <1>2 DEF WaitInv
  <2>5. \A h \in Hashes : waitlist'[h] # {} => waitlist[h] # {}
    BY <1>2
  <2> QED
    BY <1>1, <2>1, <2>2, <2>3, <2>4, <2>5 DEF WaitInv
<1>5. \A h \in Hashes : h \in lost <=> fetching[h] = p
  BY DEF Inv, FetchesMatchRequests
<1>6. \A h \in Hashes : fetching[h] = p => announced[h] = {} /\ waitlist[h] = {} /\ h \in announces[p]
  BY <1>1, TxFetcherAssumption DEF QueueInv, QueueStages, QueueTrackers, Queue
<1>7. \A h \in Hashes : waitlist'[h] # {} => waitlist[h] # {}
  BY <1>2
<1>8. QueueType(q)
  <2>1. lost \in SUBSET Hashes
    BY <1>1 DEF Outstanding, QueueInv, QueueType, Queue
  <2>2. \A h \in Hashes : stranded(h) \in SUBSET Peers
    BY <1>1 DEF QueueInv, QueueType, Queue, Fallback
  <2> HIDE DEF stranded, lost, q
  <2>3. q.announced \in [Hashes -> SUBSET Peers]
    BY <2>2, <1>3
  <2>4. q.fetching \in [Hashes -> Peers \cup {NoPeer}] /\ q.alternates \in [Hashes -> SUBSET Peers]
    BY <1>1, <1>3 DEF QueueInv, QueueType, Queue
  <2>5. /\ q.announces \in [Peers -> SUBSET Hashes] /\ q.hashes \in [Peers -> SUBSET Hashes]
        /\ q.stolen \in [Peers -> SUBSET Hashes]
    BY <1>1, <1>3 DEF QueueInv, QueueType, Queue
  <2>6. q.requests \in SUBSET Peers /\ q.due \in SUBSET Peers
    BY <1>1, <1>3 DEF QueueInv, QueueType, Queue
  <2>7. q.timer \in BOOLEAN /\ q.panic \in BOOLEAN
    BY <1>1 DEF q, Dropped, QueueInv, QueueType, Queue
  <2> QED
    BY <2>3, <2>4, <2>5, <2>6, <2>7 DEF QueueType
<1> HIDE DEF lost
<1>9. QueueStages(q, waitlist')
  BY <1>1, <1>3, <1>5, <1>6, <1>7 DEF QueueInv, QueueStages, Queue, Fallback
<1>10. QueueTrackers(q)
  <2> SUFFICES ASSUME NEW o \in Peers, NEW h \in Hashes
               PROVE  /\ h \in q.announces[o] => o \in q.announced[h] \cup q.alternates[h]
                      /\ q.fetching[h] = o => h \in q.announces[o]
    BY DEF QueueTrackers
  <2>1. /\ h \in announces[o] => o \in announced[h] \cup alternates[h]
        /\ fetching[h] = o => h \in announces[o]
    BY <1>1 DEF QueueInv, QueueTrackers, Queue
  <2>2. h \in q.announces[o] <=> h \in announces[o] /\ o # p
    BY <1>1, <1>3 DEF QueueInv, QueueType, Queue
  <2>3. CASE h \in lost
    BY <2>1, <2>2, <2>3, <1>3, <1>5, <1>6, TxFetcherAssumption DEF Fallback
  <2>4. CASE h \notin lost
    BY <2>1, <2>2, <2>4, <1>3, <1>5
  <2> QED
    BY <2>3, <2>4
<1>11. QueueRequests(q)
  <2> SUFFICES ASSUME NEW o \in Peers
               PROVE  RequestInv(q, o)
    BY DEF QueueRequests
  <2>1. RequestInv(Queue, o)
    BY <1>1 DEF QueueInv, QueueRequests
  <2>2. CASE o = p
    <3>1. o \notin q.requests /\ q.hashes[o] = {} /\ q.stolen[o] = {} /\ o \notin q.due
      BY <2>2, <1>1, <1>3 DEF QueueInv, QueueType, Queue
    <3>2. \A h \in Hashes : q.fetching[h] # o
      BY <2>2, <1>3, <1>5, TxFetcherAssumption
    <3> QED
      BY <3>1, <3>2 DEF RequestInv
  <2>3. CASE o # p
    <3>1. q.hashes[o] = reqHashes[o] /\ q.stolen[o] = stolen[o]
      BY <2>3, <1>1, <1>3 DEF QueueInv, QueueType, Queue
    <3>2. \A h \in Hashes : q.fetching[h] = o <=> fetching[h] = o
      BY <2>3, <1>3, <1>5, TxFetcherAssumption
    <3> QED
      BY <2>1, <2>3, <1>3, <3>1, <3>2 DEF RequestInv, Queue
  <2> QED
    BY <2>2, <2>3
<1>12. QueueInv(q, waitlist')
  BY <1>3, <1>8, <1>9, <1>10, <1>11 DEF QueueInv
<1>13. CASE p \in requests
  <2>1. QueueTimer(q, AllActive(q))
    BY <1>3, <1>13 DEF QueueTimer
  <2> QED
    BY <1>2, <1>4, <1>12, <1>13, <2>1, InvScheduled DEF AllActive
<1>14. CASE p \notin requests
  <2>1. \A h \in Hashes : h \notin lost
    BY <1>14 DEF lost, Outstanding
  <2>2. \A o \in Peers : Available(q, o) \subseteq Available(Queue, o)
    <3> SUFFICES ASSUME NEW o \in Peers, NEW h \in Available(q, o)
                 PROVE  h \in Available(Queue, o)
      OBVIOUS
    <3>1. h \in announces[o] /\ h \in Hashes
      BY <1>1, <1>3 DEF Available, QueueInv, QueueType, Queue
    <3> QED
      BY <1>3, <2>1, <3>1 DEF Available, Queue
  <2>3. p \notin Peers \ requests \/ Available(q, p) = {}
    BY <1>1, <1>3 DEF Available, QueueInv, QueueType, Queue
  <2>4. QueueTimer(q, {})
    BY <1>1, <1>3, <1>14, <2>2, <2>3 DEF QueueTimer, Queue
  <2> QED
    BY <1>2, <1>4, <1>12, <1>14, <2>4, InvAfter
<1> QED
  BY <1>13, <1>14

\* Time passing changes no tracker.
LEMMA ClockInv ==
  ASSUME Inv, \/ \E h \in Hashes : WaitExpires(h)
              \/ \E p \in Peers : RequestExpires(p)
  PROVE  Inv'
<1>1. ASSUME NEW h \in Hashes, WaitExpires(h)
      PROVE  Inv'
  <2> USE <1>1 DEF Inv, WaitExpires, queueVars
  <2>1. TypeOK'
    BY DEF TypeOK
  <2>2. StagesExclusive' /\ FetchesMatchRequests' /\ NoPanic'
    BY DEF StagesExclusive, FetchesMatchRequests, NoPanic, Outstanding
  <2>3. TrackersAgree'
    BY DEF TrackersAgree, TypeOK
  <2>4. TimersArmed'
    BY DEF TimersArmed, Available, Queue
  <2> QED
    BY <2>1, <2>2, <2>3, <2>4
<1>2. ASSUME NEW p \in Peers, RequestExpires(p)
      PROVE  Inv'
  <2> USE <1>2 DEF Inv, RequestExpires, waitVars
  <2>1. TypeOK'
    BY DEF TypeOK
  <2>2. StagesExclusive' /\ TrackersAgree' /\ NoPanic'
    BY DEF StagesExclusive, TrackersAgree, NoPanic
  <2>3. FetchesMatchRequests'
    BY DEF FetchesMatchRequests, Outstanding
  <2>4. TimersArmed'
    BY DEF TimersArmed, Available, Queue
  <2> QED
    BY <2>1, <2>2, <2>3, <2>4
<1> QED
  BY <1>1, <1>2

-----------------------------------------------------------------------------
\* The fetcher starts with empty trackers, which agree.
LEMMA InitInv == Init => Inv
<1> SUFFICES ASSUME Init PROVE Inv
  OBVIOUS
<1> USE DEF Init
<1>1. TypeOK /\ NoPanic
  BY DEF TypeOK, NoPanic
<1>2. StagesExclusive
  BY DEF StagesExclusive
<1>3. TrackersAgree /\ FetchesMatchRequests
  BY TxFetcherAssumption DEF TrackersAgree, FetchesMatchRequests, Outstanding
<1>4. TimersArmed
  BY DEF TimersArmed, Available, Queue
<1> QED
  BY <1>1, <1>2, <1>3, <1>4 DEF Inv

\* Every case of the loop's select keeps the trackers consistent.
LEMMA NextInv == Inv /\ [Next]_vars => Inv'
<1> SUFFICES ASSUME Inv, [Next]_vars PROVE Inv'
  OBVIOUS
<1>1. ASSUME NEW p \in Peers, NEW hs \in (SUBSET Hashes) \ {{}}, HandleNotify(p, hs)
      PROVE  Inv'
  BY <1>1, NotifyInv
<1>2. CASE HandleWaitTrigger
  BY <1>2, WaitTriggerInv
<1>3. CASE HandleTimeoutTrigger
  BY <1>3, TimeoutTriggerInv
<1>4. ASSUME NEW p \in Peers, NEW hs \in SUBSET Hashes, NEW direct \in BOOLEAN,
             HandleCleanup(p, hs, direct)
      PROVE  Inv'
  BY <1>4, CleanupInv
<1>5. ASSUME NEW p \in Peers, HandleDrop(p)
      PROVE  Inv'
  BY <1>5, DropInv
<1>6. CASE \/ \E h \in Hashes : WaitExpires(h)
           \/ \E p \in Peers : RequestExpires(p)
  BY <1>6, ClockInv
<1>7. CASE UNCHANGED vars
  BY <1>7 DEF vars, Inv, TypeOK, NoPanic, StagesExclusive, TrackersAgree,
              FetchesMatchRequests, TimersArmed, Outstanding, Available, Queue
<1> QED
  BY <1>1, <1>2, <1>3, <1>4, <1>5, <1>6, <1>7 DEF Next

\* The trackers of the fetcher stay consistent under every interleaving of
\* announcements, deliveries, disconnects and timers.
THEOREM FetcherConsistent == Spec => []Inv
  BY InitInv, NextInv, PTL DEF Spec

\* The loop of tx_fetcher.go never reaches one of its panics.
THEOREM FetcherNeverPanics == Spec => []NoPanic
<1>1. Inv => NoPanic
  BY DEF Inv
<1> QED
  BY <1>1, FetcherConsistent, PTL

\* Each tracked hash is in one of the three stages only.
THEOREM FetcherStages == Spec => []StagesExclusive
<1>1. Inv => StagesExclusive
  BY DEF Inv
<1> QED
  BY <1>1, FetcherConsistent, PTL

\* A hash is fetched from one peer at a time, which has it in its request.
THEOREM FetcherRequests == Spec => []FetchesMatchRequests
<1>1. Inv => FetchesMatchRequests
  BY DEF Inv
<1> QED
  BY <1>1, FetcherConsistent, PTL

\* Whatever waits for a timer has it armed.
THEOREM FetcherTimers == Spec => []TimersArmed
<1>1. Inv => TimersArmed
  BY DEF Inv
<1> QED
  BY <1>1, FetcherConsistent, PTL

-----------------------------------------------------------------------------
(***************************************************************************)
(* What a step may not do                                                  *)
(***************************************************************************)
\* scheduleFetches leaves the announcements alone and moves origins only from
\* the queue to the alternates.
LEMMA ScheduledOrigins ==
  ASSUME NEW q, NEW actives, ScheduleFetches(actives, q)
  PROVE  /\ announces' = q.announces
         /\ \A h \in Hashes : /\ announced'[h] \subseteq q.announced[h]
                              /\ alternates'[h] \subseteq q.announced[h] \cup q.alternates[h]
<1>1. PICK a \in Allocations(actives, q) : SetQueue(Scheduled(a, q))
  BY DEF ScheduleFetches
<1> DEFINE r == Scheduled(a, q)
<1>2. /\ r.announces = q.announces
      /\ r.announced = [h \in Hashes |-> IF a[h] # NoPeer THEN {} ELSE q.announced[h]]
      /\ r.alternates = [h \in Hashes |-> IF a[h] # NoPeer THEN q.announced[h] ELSE q.alternates[h]]
  BY DEF Scheduled
<1>3. announces' = r.announces /\ announced' = r.announced /\ alternates' = r.alternates
  BY <1>1 DEF SetQueue
<1> HIDE DEF r
<1> QED BY <1>2, <1>3

\* The step formula of TimeoutNeverReasks.
NeverReasks ==
  \A p \in requests \cap reqDue : \A h \in Outstanding(p) :
    h \in announces'[p] \/ p \in announced'[h] \cup alternates'[h] => ~HandleTimeoutTrigger

LEMMA NeverReasksStep == Inv => NeverReasks
<1> SUFFICES ASSUME Inv, HandleTimeoutTrigger,
                    NEW p \in requests \cap reqDue, NEW h \in Outstanding(p)
             PROVE  h \notin announces'[p] /\ p \notin announced'[h] \cup alternates'[h]
  BY DEF NeverReasks
<1> DEFINE expired == requests \cap reqDue
           holders(g) == {o \in expired : g \in Outstanding(o)}
           lost == {g \in Hashes : holders(g) # {}}
           q == TimedOut(expired)
<1>1. ScheduleFetches(AllActive(q), q)
  BY DEF HandleTimeoutTrigger
<1>2. /\ q.announced = [g \in Hashes |-> IF g \in lost THEN Fallback(g, holders(g))
                                                       ELSE announced[g]]
      /\ q.announces = [o \in Peers |-> IF o \in expired THEN announces[o] \ Outstanding(o)
                                                         ELSE announces[o]]
      /\ q.alternates = [g \in Hashes |-> IF g \in lost THEN {} ELSE alternates[g]]
  BY DEF TimedOut, Queue
<1>3. p \in Peers /\ h \in Hashes
  BY DEF Inv, TypeOK, Outstanding
<1>4. h \in lost /\ p \in holders(h)
  BY <1>3
<1>5. p \notin q.announced[h] /\ q.alternates[h] = {}
  BY <1>2, <1>3, <1>4 DEF Fallback
<1>6. h \notin q.announces[p]
  BY <1>2, <1>3
<1> HIDE DEF q
<1> QED BY <1>1, <1>3, <1>5, <1>6, ScheduledOrigins

\* The step formula of FailureCostsOnePeer.
CostsOnePeer ==
  \A h \in Hashes :
    \/ \A p, q \in Sources(h) \ Sources(h)' : p = q
    \/ \E p \in Peers, hs \in SUBSET Hashes, direct \in BOOLEAN :
         h \in hs /\ HandleCleanup(p, hs, direct)

\* Only announcer c may be lost.
LEMMA OnlyOne ==
  ASSUME NEW h \in Hashes, NEW c,
         \A p \in Peers \ {c} : h \in waitslots[p] \/ h \in announces[p] =>
                                h \in waitslots'[p] \/ h \in announces'[p]
  PROVE  \A p, q \in Sources(h) \ Sources(h)' : p = q
BY DEF Sources

LEMMA CostsOnePeerStep == Inv /\ [Next]_vars => CostsOnePeer
<1> SUFFICES ASSUME Inv, [Next]_vars PROVE CostsOnePeer
  OBVIOUS
<1>1. /\ WaitInv /\ waitslots \in [Peers -> SUBSET Hashes]
      /\ announces \in [Peers -> SUBSET Hashes] /\ requests \in SUBSET Peers
  BY InvParts DEF Inv, TypeOK
<1>2. ASSUME NEW p \in Peers, NEW hs, HandleNotify(p, hs) PROVE CostsOnePeer
  <2>1. PICK taken \in Accepted(p, hs) : HandleNotify(p, hs)!2!(taken)
    BY <1>2 DEF HandleNotify
  <2> DEFINE q == Joined(p, taken)
             W == Waiting(taken)
  <2>2. waitslots' = [waitslots EXCEPT ![p] = @ \cup W]
    BY <2>1
  <2>3. announces' = q.announces
    BY <2>1, ScheduledOrigins DEF SetQueue
  <2>4. \E S : q.announces = [announces EXCEPT ![p] = @ \cup S]
    <3> DEFINE inflight == {h \in taken : alternates[h] # {}}
               queued == {h \in taken \ inflight : announced[h] # {}}
    <3>1. q.announces = [announces EXCEPT ![p] = @ \cup inflight \cup queued]
      BY DEF Joined, Queue
    <3>2. q.announces = [announces EXCEPT ![p] = @ \cup (inflight \cup queued)]
      BY <1>1, <3>1
    <3> HIDE DEF inflight, queued, q
    <3> QED BY <3>2
  <2> HIDE DEF q, W
  <2>5. \A o \in Peers : waitslots[o] \subseteq waitslots'[o] /\ announces[o] \subseteq announces'[o]
    BY <1>1, <2>2, <2>3, <2>4
  <2>6. ASSUME NEW h \in Hashes PROVE \A o, r \in Sources(h) \ Sources(h)' : o = r
    BY <2>5 DEF Sources
  <2> QED BY <2>6 DEF CostsOnePeer
<1>3. CASE HandleWaitTrigger
  <2> DEFINE expired == {h \in Hashes : waittime[h] = "due"}
             q == Promoted(expired)
  <2>1. /\ waitslots' = [p \in Peers |-> waitslots[p] \ {h \in expired : p \in waitlist[h]}]
        /\ \E actives : ScheduleFetches(actives, q)
    BY <1>3 DEF HandleWaitTrigger
  <2>2. announces' = q.announces
    BY <2>1, ScheduledOrigins
  <2>3. q.announces = [p \in Peers |-> announces[p] \cup {h \in expired : p \in waitlist[h]}]
    BY DEF Promoted, Queue
  <2> HIDE DEF q, expired
  <2>4. ASSUME NEW h \in Hashes PROVE \A o, r \in Sources(h) \ Sources(h)' : o = r
    BY <2>1, <2>2, <2>3 DEF Sources
  <2> QED BY <2>4 DEF CostsOnePeer
<1>4. CASE HandleTimeoutTrigger
  <2> DEFINE expired == requests \cap reqDue
             q == TimedOut(expired)
  <2>1. ScheduleFetches(AllActive(q), q) /\ UNCHANGED waitslots
    BY <1>4 DEF HandleTimeoutTrigger, waitVars
  <2>2. announces' = q.announces
    BY <2>1, ScheduledOrigins
  <2>3. q.announces = [p \in Peers |-> IF p \in expired THEN announces[p] \ Outstanding(p)
                                                         ELSE announces[p]]
    BY DEF TimedOut, Queue
  <2>4. \A h \in Hashes, p \in Peers : h \in Outstanding(p) => p = fetching[h]
    BY DEF Inv, FetchesMatchRequests
  <2> HIDE DEF q
  <2>5. ASSUME NEW h \in Hashes PROVE \A o, r \in Sources(h) \ Sources(h)' : o = r
    <3>1. \A p \in Peers \ {fetching[h]} :
            h \in waitslots[p] \/ h \in announces[p] => h \in waitslots'[p] \/ h \in announces'[p]
      BY <2>1, <2>2, <2>3, <2>4
    <3> QED BY <3>1, OnlyOne
  <2> QED BY <2>5 DEF CostsOnePeer
<1>5. ASSUME NEW p \in Peers, NEW hs \in SUBSET Hashes, NEW direct \in BOOLEAN,
             HandleCleanup(p, hs, direct)
      PROVE  CostsOnePeer
  <2> DEFINE q == Untracked(p, hs, direct)
             rest == {h \in hs : waitlist[h] = {}}
  <2>1. \A o \in Peers : waitslots'[o] = waitslots[o] \ {h \in hs : waitlist[h] # {}}
    BY <1>5 DEF HandleCleanup
  <2>2. q.announces = [o \in Peers |-> announces[o] \ rest]
    BY DEF Untracked, Queue
  <2>3. \A o \in Peers \ {p} : announces'[o] = q.announces[o]
    <3>1. CASE direct /\ p \in requests
      <4>1. PICK cut \in Cutoffs(p, hs, q) :
                LET r == Requeued(p, hs, cut, q) IN ScheduleFetches(AllActive(r), r)
        BY <1>5, <3>1 DEF HandleCleanup
      <4> DEFINE r == Requeued(p, hs, cut, q)
      <4>2. announces' = r.announces
        BY <4>1, ScheduledOrigins
      <4>3. r.announces = [q.announces EXCEPT ![p] = @ \ cut]
        BY DEF Requeued, Untracked, Queue
      <4> HIDE DEF r, q
      <4> QED BY <2>2, <4>2, <4>3
    <3>2. CASE ~(direct /\ p \in requests)
      BY <1>5, <3>2 DEF HandleCleanup, SetQueue
    <3> QED BY <3>1, <3>2
  <2>4. ASSUME NEW h \in Hashes, h \notin hs
        PROVE  \A o, r \in Sources(h) \ Sources(h)' : o = r
    <3>1. \A o \in Peers \ {p} :
            h \in waitslots[o] \/ h \in announces[o] => h \in waitslots'[o] \/ h \in announces'[o]
      <4> HIDE DEF q
      <4> QED BY <2>1, <2>2, <2>3, <2>4
    <3> QED BY <3>1, OnlyOne
  <2> QED BY <1>5, <2>4 DEF CostsOnePeer
<1>6. ASSUME NEW p \in Peers, HandleDrop(p) PROVE CostsOnePeer
  <2> DEFINE q == Dropped(p)
  <2>1. waitslots' = [waitslots EXCEPT ![p] = {}]
    BY <1>6 DEF HandleDrop
  <2>2. announces' = q.announces
    BY <1>6, ScheduledOrigins DEF HandleDrop, SetQueue
  <2>3. q.announces = [announces EXCEPT ![p] = {}]
    BY DEF Dropped, Queue
  <2> HIDE DEF q
  <2>4. ASSUME NEW h \in Hashes PROVE \A o, r \in Sources(h) \ Sources(h)' : o = r
    <3>1. \A o \in Peers \ {p} :
            h \in waitslots[o] \/ h \in announces[o] => h \in waitslots'[o] \/ h \in announces'[o]
      BY <1>1, <2>1, <2>2, <2>3
    <3> QED BY <3>1, OnlyOne
  <2> QED BY <2>4 DEF CostsOnePeer
<1>7. CASE UNCHANGED <<waitslots, announces>>
  BY <1>7 DEF CostsOnePeer, Sources
<1>8. CASE \/ UNCHANGED vars
           \/ \E h \in Hashes : WaitExpires(h)
           \/ \E p \in Peers : RequestExpires(p)
  BY <1>7, <1>8 DEF vars, WaitExpires, RequestExpires, waitVars, queueVars
<1> QED BY <1>2, <1>3, <1>4, <1>5, <1>6, <1>8 DEF Next

\* The step that gives a request up takes its peer off the origins of all that
\* it failed to send, and scheduleFetches, which runs in the same step, does not
\* ask it again.
THEOREM FetcherNeverReasks == Spec => TimeoutNeverReasks
<1>1. Inv => [NeverReasks]_vars
  BY NeverReasksStep
<1>2. Spec => [][NeverReasks]_vars
  BY <1>1, FetcherConsistent, PTL
<1> QED BY <1>2 DEF TimeoutNeverReasks, NeverReasks

\* A hash that several peers announced loses at most one of them in a step that
\* does not deliver it, however many requests the step gives up.
THEOREM FetcherCostsOnePeer == Spec => FailureCostsOnePeer
<1>1. Inv /\ [Next]_vars => [CostsOnePeer]_vars
  BY CostsOnePeerStep
<1>2. Spec => [][CostsOnePeer]_vars
  BY <1>1, FetcherConsistent, PTL DEF Spec
<1> QED BY <1>2 DEF FailureCostsOnePeer, CostsOnePeer
=============================================================================
