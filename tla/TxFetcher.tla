----------------------------- MODULE TxFetcher -----------------------------
(***************************************************************************)
(* The event loop of eth/fetcher/tx_fetcher.go: transaction hashes that    *)
(* peers announce move from a wait list, through a queue, to a retrieval   *)
(* from one peer, until they are delivered, time out or lose their peers.  *)
(*                                                                         *)
(* One action per case of the loop's select.  The messages of the three    *)
(* channels (notify, cleanup, drop) come from any peer, with any hashes,   *)
(* at any time: the senders run concurrently and are not synchronised with *)
(* the loop, so what holds here holds for every schedule of them.          *)
(*                                                                         *)
(* Abstractions.                                                           *)
(*  - A Go map entry that is missing is the empty set: the code deletes an *)
(*    entry as soon as its set becomes empty.                              *)
(*  - A timestamp is "fresh" or "due" (older than the timeout less         *)
(*    txGatherSlack); time passing is an action.                           *)
(*  - A timer is armed or not.  An armed timer may fire at any moment: the *)
(*    code cannot withdraw a trigger already in the channel, so early      *)
(*    firings happen.                                                      *)
(*  - The order of the hashes in a request is Go's map iteration order,    *)
(*    read only when the reply arrives: it is chosen there.                *)
(*  - A message holds distinct hashes.                                     *)
(***************************************************************************)
EXTENDS Naturals, FiniteSets, Functions

CONSTANTS
  Peers,            \* peer identifiers
  Hashes,           \* transaction hashes
  NoPeer,           \* no entry in fetching
  MaxTxAnnounces,   \* maxTxAnnounces: hashes tracked per peer
  MaxTxRetrievals   \* maxTxRetrievals: hashes in one request

ASSUME TxFetcherAssumption ==
  /\ NoPeer \notin Peers
  /\ MaxTxAnnounces \in Nat \ {0}
  /\ MaxTxRetrievals \in Nat \ {0}

VARIABLES
  waitlist,      \* stage 1: hash -> peers that announced it
  waittime,      \* stage 1: hash -> "none", or age of its entry
  waitslots,     \* stage 1: peer -> hashes
  announces,     \* stages 2, 3: peer -> hashes
  announced,     \* stage 2: hash -> peers
  fetching,      \* stage 3: hash -> the peer it is requested from
  alternates,    \* stage 3: hash -> peers to fall back on
  requests,      \* peers with a request in flight (keys of f.requests)
  reqHashes,     \* requests[p].hashes, {} once timed out (dangling)
  stolen,        \* requests[p].stolen
  reqDue,        \* requests[p].time is older than txFetchTimeout
  waitTimer,     \* waitTimer is armed
  timeoutTimer,  \* timeoutTimer is armed
  panicked       \* the loop hit one of its panics or a nil request

waitVars == <<waitlist, waittime, waitslots, waitTimer>>
queueVars == <<announces, announced, fetching, alternates, requests,
               reqHashes, stolen, reqDue, timeoutTimer>>
vars == <<waitlist, waittime, waitslots, announces, announced, fetching,
          alternates, requests, reqHashes, stolen, reqDue, waitTimer,
          timeoutTimer, panicked>>

\* Every tracker has its type: hashes are tracked for peers, and requested from
\* a peer or from nobody.
TypeOK ==
  /\ waitlist \in [Hashes -> SUBSET Peers]
  /\ waittime \in [Hashes -> {"none", "fresh", "due"}]
  /\ waitslots \in [Peers -> SUBSET Hashes]
  /\ announces \in [Peers -> SUBSET Hashes]
  /\ announced \in [Hashes -> SUBSET Peers]
  /\ fetching \in [Hashes -> Peers \cup {NoPeer}]
  /\ alternates \in [Hashes -> SUBSET Peers]
  /\ requests \in SUBSET Peers
  /\ reqHashes \in [Peers -> SUBSET Hashes]
  /\ stolen \in [Peers -> SUBSET Hashes]
  /\ reqDue \in SUBSET Peers
  /\ waitTimer \in BOOLEAN
  /\ timeoutTimer \in BOOLEAN
  /\ panicked \in BOOLEAN

Init ==
  /\ waitlist = [h \in Hashes |-> {}]
  /\ waittime = [h \in Hashes |-> "none"]
  /\ waitslots = [p \in Peers |-> {}]
  /\ announces = [p \in Peers |-> {}]
  /\ announced = [h \in Hashes |-> {}]
  /\ fetching = [h \in Hashes |-> NoPeer]
  /\ alternates = [h \in Hashes |-> {}]
  /\ requests = {}
  /\ reqHashes = [p \in Peers |-> {}]
  /\ stolen = [p \in Peers |-> {}]
  /\ reqDue = {}
  /\ waitTimer = FALSE
  /\ timeoutTimer = FALSE
  /\ panicked = FALSE

(***************************************************************************)
(* scheduleFetches.  The handlers update the queue and then call it, so it *)
(* is given the queue they leave behind, q.                                *)
(***************************************************************************)
Queue ==
  [announces |-> announces, announced |-> announced, fetching |-> fetching,
   alternates |-> alternates, requests |-> requests, hashes |-> reqHashes,
   stolen |-> stolen, due |-> reqDue, timer |-> timeoutTimer,
   panic |-> FALSE]

\* The peers scheduleFetches considers when it is given no whitelist.
AllActive(q) == {p \in Peers : q.announces[p] # {}}

\* The hashes scheduleFetches may give to peer p.
Available(q, p) == {h \in q.announces[p] : q.fetching[h] = NoPeer}

\* What the two nested map iterations can allocate (hash -> peer or NoPeer):
\* the idle peers take their turns in some order, and each takes every hash
\* that is still available to it, or MaxTxRetrievals of them.
Allocations(actives, q) ==
  LET idle == {p \in actives : p \notin q.requests /\ q.announces[p] # {}}
  IN {a \in [Hashes -> idle \cup {NoPeer}] :
        /\ \A h \in Hashes : a[h] # NoPeer => h \in Available(q, a[h])
        /\ \A p \in idle : Cardinality({h \in Hashes : a[h] = p}) =< MaxTxRetrievals
        /\ \E turn \in Injection(idle, 1..Cardinality(idle)) :
             \A p \in idle : \A h \in Available(q, p) :
               \/ a[h] = p
               \/ a[h] # NoPeer /\ turn[a[h]] < turn[p]
               \/ Cardinality({g \in Hashes : a[g] = p}) = MaxTxRetrievals}

\* The peers that allocation a sends a request to.
Asked(a) == {p \in Peers : \E h \in Hashes : a[h] = p}

\* Mutant: idleness is read after the requests are made.
FirstRequestsLate(q, asked) == q.requests \cup asked = {} /\ asked # {}

\* These are the first requests in flight, so the timeout timer is not armed yet.
FirstRequests(q, asked) == q.requests = {} /\ asked # {}

\* The queue after allocation a: the hashes allocated to a peer become its
\* request, their announcers the alternates; the timeout timer is armed if
\* these are the first requests.
Scheduled(a, q) ==
  LET asked == Asked(a)
      taken(h) == a[h] # NoPeer
  IN [q EXCEPT
        !.announced = [h \in Hashes |-> IF taken(h) THEN {} ELSE @[h]],
        !.fetching = [h \in Hashes |-> IF taken(h) THEN a[h] ELSE @[h]],
        !.alternates = [h \in Hashes |-> IF taken(h) THEN q.announced[h] ELSE @[h]],
        !.requests = @ \cup asked,
        !.hashes = [p \in Peers |-> IF p \in asked THEN {h \in Hashes : a[h] = p} ELSE @[p]],
        !.stolen = [p \in Peers |-> IF p \in asked THEN {} ELSE @[p]],
        !.due = @ \ asked,
        !.timer = @ \/ FirstRequests(q, asked),
        !.panic = @ \/ \E h \in Hashes : taken(h) /\ q.alternates[h] # {}]

\* A handler leaves the queue q behind.
SetQueue(q) ==
  /\ announces' = q.announces
  /\ announced' = q.announced
  /\ fetching' = q.fetching
  /\ alternates' = q.alternates
  /\ requests' = q.requests
  /\ reqHashes' = q.hashes
  /\ stolen' = q.stolen
  /\ reqDue' = q.due
  /\ timeoutTimer' = q.timer
  /\ panicked' = q.panic

\* scheduleFetches(actives), called by a handler that has made the queue q.
ScheduleFetches(actives, q) == \E a \in Allocations(actives, q) : SetQueue(Scheduled(a, q))

(***************************************************************************)
(* case ann := <-f.notify                                                  *)
(***************************************************************************)
\* rescheduleWait, called if there are hashes waiting.
RescheduleWait(armed, waiting) == armed \/ waiting # {}

\* Hashes counted against the peer by the DoS check.
Used(p) == Cardinality(waitslots[p]) + Cardinality(announces[p])

\* The parts of an announcement of hs that survive the DoS check: nothing at
\* the limit, a prefix of ann.hashes (in the sender's order, so any subset)
\* of length want-maxTxAnnounces beyond it, all of it below.
Accepted(p, hs) ==
  LET want == Used(p) + Cardinality(hs)
  IN {taken \in SUBSET hs :
        Cardinality(taken) = IF Used(p) >= MaxTxAnnounces THEN 0
                             ELSE IF want > MaxTxAnnounces THEN want - MaxTxAnnounces
                             ELSE Cardinality(hs)}

\* The hashes of an announcement that are new to stages 2 and 3.
Waiting(taken) == {h \in taken : alternates[h] = {} /\ announced[h] = {}}

\* The queue with p as one more origin of the other ones: of those in flight
\* as an alternate, of those queued as a location.
Joined(p, taken) ==
  LET inflight == {h \in taken : alternates[h] # {}}
      queued   == {h \in taken \ inflight : announced[h] # {}}
  IN [Queue EXCEPT
        !.announces[p] = @ \cup inflight \cup queued,
        !.announced = [h \in Hashes |-> IF h \in queued THEN @[h] \cup {p} ELSE @[h]],
        !.alternates = [h \in Hashes |-> IF h \in inflight THEN @[h] \cup {p} ELSE @[h]]]

\* Peer p announces the hashes hs.
HandleNotify(p, hs) ==
  /\ ~panicked
  /\ \E taken \in Accepted(p, hs) :
       LET waiting == Waiting(taken)
           q == Joined(p, taken)
       IN /\ waitlist' = [h \in Hashes |-> IF h \in waiting THEN waitlist[h] \cup {p}
                                                            ELSE waitlist[h]]
          /\ waittime' = [h \in Hashes |-> IF h \in waiting /\ waitlist[h] = {} THEN "fresh"
                                                                         ELSE waittime[h]]
          /\ waitslots' = [waitslots EXCEPT ![p] = @ \cup waiting]
          /\ waitTimer' = RescheduleWait(waitTimer, IF \A h \in Hashes : waittime[h] = "none"
                                                    THEN waiting ELSE {})
          /\ IF announces[p] = {} /\ q.announces[p] # {}
             THEN ScheduleFetches({p}, q)
             ELSE SetQueue(q)

(***************************************************************************)
(* case <-waitTrigger                                                      *)
(***************************************************************************)
\* The queue with the hashes in expired moved over from the wait list.
Promoted(expired) ==
  [Queue EXCEPT
     !.announced = [h \in Hashes |-> IF h \in expired THEN waitlist[h] ELSE @[h]],
     !.announces = [p \in Peers |-> @[p] \cup {h \in expired : p \in waitlist[h]}],
     !.panic = \E h \in expired : announced[h] # {}]

HandleWaitTrigger ==
  /\ ~panicked
  /\ waitTimer
  /\ LET expired == {h \in Hashes : waittime[h] = "due"}
         actives == UNION {waitlist[h] : h \in expired}
     IN /\ waitslots' = [p \in Peers |-> waitslots[p] \ {h \in expired : p \in waitlist[h]}]
        /\ waitlist' = [h \in Hashes |-> IF h \in expired THEN {} ELSE waitlist[h]]
        /\ waittime' = [h \in Hashes |-> IF h \in expired THEN "none" ELSE waittime[h]]
        /\ waitTimer' = RescheduleWait(FALSE, {h \in Hashes : waittime'[h] # "none"})
        /\ ScheduleFetches(actives, Promoted(expired))

(***************************************************************************)
(* case <-timeoutTrigger                                                   *)
(***************************************************************************)
\* The hashes of p's request that nobody else has delivered yet.
Outstanding(p) == IF p \in requests THEN reqHashes[p] \ stolen[p] ELSE {}

\* Mutant: the peers that failed stay origins of the hash.
FallbackOnFailed(h, failed) == alternates[h]

\* The origins a hash in flight falls back on when the peers in failed let it down.
Fallback(h, failed) == alternates[h] \ failed

\* The queue with the requests to the peers in expired left dangling: their
\* hashes go back to the queue, without those peers.
TimedOut(expired) ==
  LET holders(h) == {p \in expired : h \in Outstanding(p)}
      lost == {h \in Hashes : holders(h) # {}}
  IN [Queue EXCEPT
        !.announced = [h \in Hashes |-> IF h \in lost THEN Fallback(h, holders(h)) ELSE @[h]],
        !.announces = [p \in Peers |-> IF p \in expired THEN @[p] \ Outstanding(p) ELSE @[p]],
        !.alternates = [h \in Hashes |-> IF h \in lost THEN {} ELSE @[h]],
        !.fetching = [h \in Hashes |-> IF h \in lost THEN NoPeer ELSE @[h]],
        !.hashes = [p \in Peers |-> IF p \in expired THEN {} ELSE @[p]],
        !.timer = TRUE,
        !.panic = \E h \in lost : announced[h] # {}]

HandleTimeoutTrigger ==
  /\ ~panicked
  /\ timeoutTimer
  /\ LET q == TimedOut(requests \cap reqDue) IN ScheduleFetches(AllActive(q), q)
  /\ UNCHANGED waitVars

(***************************************************************************)
(* case delivery := <-f.cleanup                                            *)
(***************************************************************************)
\* Mutant: a broadcast by the peer the hash is requested from is no theft.
UntrackedUnstolen(p, hs, direct) ==
  LET rest == {h \in hs : waitlist[h] = {}}
      taken(o) == {h \in rest : fetching[h] = o /\ o # p}
  IN [Queue EXCEPT
        !.announces = [o \in Peers |-> @[o] \ rest],
        !.announced = [h \in Hashes |-> IF h \in rest THEN {} ELSE @[h]],
        !.alternates = [h \in Hashes |-> IF h \in rest THEN {} ELSE @[h]],
        !.fetching = [h \in Hashes |-> IF h \in rest THEN NoPeer ELSE @[h]],
        !.stolen = [o \in Peers |-> @[o] \cup taken(o)],
        !.panic = \E o \in Peers \ requests : taken(o) # {}]

\* The trackers after every trace of the delivered hashes hs is removed.
Untracked(p, hs, direct) ==
  LET rest == {h \in hs : waitlist[h] = {}}
      taken(o) == {h \in rest : fetching[h] = o /\ (o # p \/ ~direct)}
  IN [Queue EXCEPT
        !.announces = [o \in Peers |-> @[o] \ rest],
        !.announced = [h \in Hashes |-> IF h \in rest THEN {} ELSE @[h]],
        !.alternates = [h \in Hashes |-> IF h \in rest THEN {} ELSE @[h]],
        !.fetching = [h \in Hashes |-> IF h \in rest THEN NoPeer ELSE @[h]],
        !.stolen = [o \in Peers |-> @[o] \cup taken(o)],
        !.panic = \E o \in Peers \ requests : taken(o) # {}]

\* Mutant: a missing hash is forgotten for all its announcers.
RequeuedForgetful(p, hs, cut, q) ==
  LET open == q.hashes[p] \ q.stolen[p]
      missing == open \ hs
      alt(h) == IF h \in cut THEN q.alternates[h] \ {p} ELSE q.alternates[h]
  IN [q EXCEPT
        !.requests = @ \ {p},
        !.hashes[p] = {},
        !.stolen[p] = {},
        !.due = @ \ {p},
        !.announces = [o \in Peers |-> @[o] \ cut],
        !.announced = [h \in Hashes |-> IF h \in missing /\ alt(h) # {} THEN alt(h) ELSE @[h]],
        !.alternates = [h \in Hashes |-> IF h \in open THEN {} ELSE @[h]],
        !.fetching = [h \in Hashes |-> IF h \in open THEN NoPeer ELSE @[h]],
        !.panic = @ \/ \E h \in missing : alt(h) # {} /\ q.announced[h] # {}]

\* The reply of p is in, hs delivered: what is missing of the request goes back
\* to the queue, without p for the hashes in cut.
Requeued(p, hs, cut, q) ==
  LET open == q.hashes[p] \ q.stolen[p]
      missing == open \ hs
      alt(h) == IF h \in cut THEN q.alternates[h] \ {p} ELSE q.alternates[h]
  IN [q EXCEPT
        !.requests = @ \ {p},
        !.hashes[p] = {},
        !.stolen[p] = {},
        !.due = @ \ {p},
        !.announces[p] = @ \ cut,
        !.announced = [h \in Hashes |-> IF h \in missing /\ alt(h) # {} THEN alt(h) ELSE @[h]],
        !.alternates = [h \in Hashes |-> IF h \in open THEN {} ELSE @[h]],
        !.fetching = [h \in Hashes |-> IF h \in open THEN NoPeer ELSE @[h]],
        !.panic = @ \/ \E h \in missing : alt(h) # {} /\ q.announced[h] # {}]

\* The missing hashes that precede the last delivered one in the request;
\* all of them if none of the requested hashes is delivered.
Cutoffs(p, hs, q) ==
  LET missing == (q.hashes[p] \ q.stolen[p]) \ hs
  IN IF q.hashes[p] \cap hs = {} THEN {missing} ELSE SUBSET missing

\* Peer p delivers the hashes hs, as a reply (direct) or as a broadcast.
HandleCleanup(p, hs, direct) ==
  /\ ~panicked
  /\ LET waiting == {h \in hs : waitlist[h] # {}}
         q == Untracked(p, hs, direct)
     IN /\ waitlist' = [h \in Hashes |-> IF h \in waiting THEN {} ELSE waitlist[h]]
        /\ waittime' = [h \in Hashes |-> IF h \in waiting THEN "none" ELSE waittime[h]]
        /\ waitslots' = [o \in Peers |-> waitslots[o] \ waiting]
        /\ UNCHANGED waitTimer
        /\ IF direct /\ p \in requests
           THEN \E cut \in Cutoffs(p, hs, q) :
                  LET r == Requeued(p, hs, cut, q) IN ScheduleFetches(AllActive(r), r)
           ELSE SetQueue(q)

(***************************************************************************)
(* case drop := <-f.drop                                                   *)
(***************************************************************************)
\* The queue without p: the hashes requested from it go back to the queue if
\* they have another origin.
Dropped(p) ==
  LET lost == Outstanding(p)
      stranded(h) == IF h \in lost /\ Fallback(h, {p}) # {} THEN Fallback(h, {p})
                                                           ELSE announced[h]
  IN [Queue EXCEPT
        !.announced = [h \in Hashes |-> IF h \in announces[p] THEN stranded(h) \ {p}
                                                              ELSE stranded(h)],
        !.announces[p] = {},
        !.alternates = [h \in Hashes |-> IF h \in lost THEN {} ELSE @[h]],
        !.fetching = [h \in Hashes |-> IF h \in lost THEN NoPeer ELSE @[h]],
        !.requests = @ \ {p},
        !.hashes[p] = {},
        !.stolen[p] = {},
        !.due = @ \ {p},
        !.timer = @ \/ p \in requests]

HandleDrop(p) ==
  /\ ~panicked
  /\ waitlist' = [h \in Hashes |-> IF h \in waitslots[p] THEN waitlist[h] \ {p} ELSE waitlist[h]]
  /\ waittime' = [h \in Hashes |-> IF h \in waitslots[p] /\ waitlist[h] \subseteq {p}
                                   THEN "none" ELSE waittime[h]]
  /\ waitslots' = [waitslots EXCEPT ![p] = {}]
  /\ waitTimer' = RescheduleWait(waitTimer, IF waitslots[p] = {} THEN {}
                                            ELSE {h \in Hashes : waitlist'[h] # {}})
  /\ LET q == Dropped(p)
     IN IF p \in requests THEN ScheduleFetches(AllActive(q), q) ELSE SetQueue(q)

(***************************************************************************)
(* Time passes (external: mclock).                                         *)
(***************************************************************************)
\* The announcement of h is older than txArriveTimeout - txGatherSlack.
WaitExpires(h) ==
  /\ waittime[h] = "fresh"
  /\ waittime' = [waittime EXCEPT ![h] = "due"]
  /\ UNCHANGED <<waitlist, waitslots, waitTimer, queueVars, panicked>>

\* The request to p is older than txFetchTimeout - txGatherSlack.
RequestExpires(p) ==
  /\ p \in requests \ reqDue
  /\ reqDue' = reqDue \cup {p}
  /\ UNCHANGED <<waitVars, announces, announced, fetching, alternates, requests,
                 reqHashes, stolen, timeoutTimer, panicked>>

Next ==
  \/ \E p \in Peers, hs \in (SUBSET Hashes) \ {{}} : HandleNotify(p, hs)
  \/ HandleWaitTrigger
  \/ HandleTimeoutTrigger
  \/ \E p \in Peers, hs \in SUBSET Hashes, direct \in BOOLEAN : HandleCleanup(p, hs, direct)
  \/ \E p \in Peers : HandleDrop(p)
  \/ \E h \in Hashes : WaitExpires(h)
  \/ \E p \in Peers : RequestExpires(p)

Spec == Init /\ [][Next]_vars

\* The clock runs, and the runtime delivers the triggers of armed timers.
Fairness ==
  /\ \A h \in Hashes : WF_vars(WaitExpires(h))
  /\ \A p \in Peers : WF_vars(RequestExpires(p))
  /\ WF_vars(HandleWaitTrigger)
  /\ WF_vars(HandleTimeoutTrigger)

FairSpec == Spec /\ Fairness

-----------------------------------------------------------------------------
(***************************************************************************)
(* Properties.                                                             *)
(***************************************************************************)

\* None of the loop's consistency panics is reached, and a stolen delivery
\* always finds the request it was stolen from (requests[origin] is not nil).
NoPanic == ~panicked

\* "Each tracked transaction (hash) must only be present in one of the three
\* stages": waiting, queued, or in flight; and a hash in flight always has its
\* own peer among the alternates, so a failure has something to put back.
StagesExclusive ==
  \A h \in Hashes :
    /\ waitlist[h] # {} => announced[h] = {} /\ alternates[h] = {} /\ fetching[h] = NoPeer
    /\ announced[h] # {} => alternates[h] = {} /\ fetching[h] = NoPeer
    /\ fetching[h] # NoPeer => fetching[h] \in alternates[h]
    /\ alternates[h] # {} => fetching[h] # NoPeer

\* The per-peer and the per-hash trackers describe the same announcements:
\* the wait list and its slots are inverse to each other, and every hash
\* accounted to a peer is queued or in flight with that peer as an origin.
TrackersAgree ==
  /\ \A h \in Hashes : waittime[h] = "none" <=> waitlist[h] = {}
  /\ \A p \in Peers, h \in Hashes :
       /\ h \in waitslots[p] <=> p \in waitlist[h]
       /\ h \in announces[p] => p \in announced[h] \cup alternates[h]
       /\ fetching[h] = p => h \in announces[p]

\* A hash is marked as fetched from p exactly if p's request in flight asks for
\* it and nobody else delivered it: no hash is requested from two peers at a
\* time, and none stays marked after its request is gone.
FetchesMatchRequests ==
  /\ \A p \in Peers, h \in Hashes : fetching[h] = p <=> h \in Outstanding(p)
  /\ \A p \in Peers \ requests : reqHashes[p] = {} /\ stolen[p] = {} /\ p \notin reqDue

\* Whatever still needs a timer has one armed: a waiting hash the wait timer;
\* a request in flight, and a queued hash that an idle peer could be asked
\* for, the timeout timer (the only thing that will look at the queue again
\* when no reply comes).
TimersArmed ==
  /\ (\E h \in Hashes : waitlist[h] # {}) => waitTimer
  /\ requests # {} => timeoutTimer
  /\ (\E p \in Peers \ requests : Available(Queue, p) # {}) => timeoutTimer

\* All of it together: after any messages and timers the trackers, the requests
\* and the timers of the loop fit together, and no panic is reached.
Inv ==
  /\ TypeOK
  /\ NoPanic
  /\ StagesExclusive
  /\ TrackersAgree
  /\ FetchesMatchRequests
  /\ TimersArmed

\* The peers that h is accounted to.
Sources(h) == {p \in Peers : h \in waitslots[p] \cup announces[p]}

\* Unless h itself is delivered, a step (a timeout, a partial reply, a peer
\* that leaves) costs a hash at most one of its announcers: what two peers
\* announced survives the failure of either.
FailureCostsOnePeer ==
  [][\A h \in Hashes :
       \/ \A p, q \in Sources(h) \ Sources(h)' : p = q
       \/ \E p \in Peers, hs \in SUBSET Hashes, direct \in BOOLEAN :
            h \in hs /\ HandleCleanup(p, hs, direct)]_vars

\* "Clean up any expired retrievals and avoid re-requesting them from the same
\* peer": a peer that let a request time out is no longer an origin of the
\* hashes it failed to send, in whatever stage the same step leaves them.
TimeoutNeverReasks ==
  [][\A p \in requests \cap reqDue : \A h \in Outstanding(p) :
       h \in announces'[p] \/ p \in announced'[h] \cup alternates'[h]
         => ~HandleTimeoutTrigger]_vars

\* Every announced hash leaves the wait list, being delivered, losing its peers
\* or being queued for retrieval, and no retrieval blocks a hash for ever: it is
\* delivered or its request ends.
HashesMove ==
  \A h \in Hashes : /\ []<>(waitlist[h] = {})
                    /\ \A p \in Peers : []<>(fetching[h] # p)
=============================================================================
