----------------------------- MODULE DownloadQueue -----------------------------
(***************************************************************************)
(* The download of block bodies and receipts (eth/downloader): the queue   *)
(* with its tasks, requests in flight and window of results (queue.go,     *)
(* resultstore.go), the two loops that hand out work to the peers          *)
(* (fetchParts), the processor that takes the results in order, and        *)
(* spawnSync, which waits for all of them.                                 *)
(*                                                                         *)
(* Abstractions.                                                           *)
(*  - A header is its number, and what a peer delivers for it is that      *)
(*    number, or 0 for something else: the hashes in the header tell.      *)
(*  - An operation of the queue is one step.  The queue's lock makes it so *)
(*    for all but the processor, which takes results under the lock of the *)
(*    result store alone and may do so between two headers of it.          *)
(*    The looks of a loop at the queue are one step where a peer that      *)
(*    leaves between them makes no difference (Update), and two where it   *)
(*    does (InFlight).                                                     *)
(*  - A request is a set of headers; it lists them in ascending order.     *)
(*  - Fetching the headers, the pivot and the state are left out: the      *)
(*    headers arrive in order and in chunks.  The wake channels are left   *)
(*    out: the loops look at the queue every 100 ms anyway.                *)
(*  - A peer that left does not come back under the same id.               *)
(***************************************************************************)
EXTENDS Integers, FiniteSets, Sequences, Functions

CONSTANTS
  N,           \* headers, 1 .. N
  Parts,       \* for each header, the parts that are not empty
  FastSync,    \* whether receipts are wanted
  Peers,
  Master,      \* the peer that the synchronisation was started with
  Size,        \* slots of the result store (blockCacheMaxItems)
  Initial,     \* slots in use at first (blockCacheInitialItems)
  MaxResults,  \* results taken at once (maxResultsProcess)
  MaxQueued,   \* stall the headers above this (maxQueuedHeaders)
  MaxRequest,  \* bound on the capacity of a peer
  MinFails,    \* a peer that lets at most so many headers expire is dropped
  MaxLacking,  \* bound on what peers turn out to lack
  MaxFaults    \* bound on bad answers, timeouts, disconnections, failures

Kinds == {"body", "receipt"}
Numbers == 1 .. N
Routines == Kinds \cup {"headers", "processor"}

ASSUME QueueAssumption ==
  /\ N \in Nat /\ Parts \in [Numbers -> SUBSET Kinds]
  /\ FastSync \in BOOLEAN /\ Master \in Peers
  /\ {Size, Initial, MaxResults, MaxQueued, MaxRequest} \subseteq Nat \ {0}
  /\ {MinFails, MaxLacking, MaxFaults} \subseteq Nat

VARIABLES
  scheduled,  \* headers 1 .. scheduled are scheduled
  taskPool,   \* of each kind: headers whose part is missing
  taskQueue,  \* of each kind: headers to request
  pendPool,   \* of each kind: requests in flight, by peer
  offset,     \* number of the first slot
  slots,      \* results by number: parts still pending, and what came
  incomplete, \* index of the first slot not known to be complete
  threshold,  \* slots in use
  lacking,    \* of each peer: headers that it could not serve
  peers,      \* registered peers
  busy,       \* of each kind: peers that were sent a request
  net,        \* requests that a peer may still answer
  loop,       \* the loop of each kind
  proc,       \* the processor: where it is, and its closed flag
  closed,     \* the queue is closed
  canceled,   \* cancelCh is closed
  sync,       \* spawnSync: who returned, and the value kept
  chain,      \* blocks given to the chain
  unseen,     \* whether a loop missed that a peer left with its request
  faults      \* faults so far

store == <<offset, slots, incomplete, threshold>>
tasks == <<scheduled, taskPool, taskQueue, pendPool>>
net_ == <<lacking, peers, busy, net>>
run == <<closed, canceled, sync, chain, unseen>>
vars == <<tasks, store, net_, loop, proc, run, faults>>

-----------------------------------------------------------------------------
(* The result store.                                                       *)

Smaller(a, b) == IF a < b THEN a ELSE b

\* The parts of a header that are fetched.
Wanted(n) == Parts[n] \ (IF FastSync THEN {} ELSE {"receipt"})

newFetchResult(n) == [pending |-> Wanted(n), has |-> {}]

Complete(s, n) == n \in DOMAIN s /\ s[n].pending = {}

HasCompletedItems(s) == Complete(s, offset)

\* The index of the first incomplete slot, counted on from where the last
\* count ended.
countCompleted ==
  CHOOSE c \in incomplete .. Size :
    /\ \A i \in incomplete .. c - 1 : Complete(slots, offset + i)
    /\ c < Size => ~Complete(slots, offset + c)

-----------------------------------------------------------------------------
Init ==
  /\ scheduled = 0
  /\ taskPool = [k \in Kinds |-> {}] /\ taskQueue = [k \in Kinds |-> {}]
  /\ pendPool = [k \in Kinds |-> <<>>]
  /\ offset = 1 /\ slots = <<>> /\ incomplete = 0
  /\ threshold = Smaller(Initial, Size)
  /\ lacking = [p \in Peers |-> {}]
  /\ peers = Peers /\ busy = [k \in Kinds |-> {}] /\ net = {}
  /\ loop = [k \in Kinds |-> [at |-> "select"]]
  /\ proc = [at |-> "check", closed |-> FALSE]
  /\ closed = FALSE /\ canceled = FALSE
  /\ sync = [returned |-> {}, err |-> "nil"]
  /\ chain = <<>> /\ unseen = FALSE /\ faults = 0

Returned(g) == g \in sync.returned

\* spawnSync has returned: Cancel waits for all goroutines.
Ended == sync.returned = Routines

\* Signal wakes a processor that is waiting.
Woken(pr, signal) ==
  IF signal /\ pr.at = "wait" THEN [pr EXCEPT !.at = "woken"] ELSE pr

\* Mutant of Return: the queue is closed on errors only.
ReturnErrorOnly(g, err, pr) ==
  LET returned == sync.returned \cup {g}
      broken == sync.err = "fail"
      close == err = "fail"
  IN
  /\ sync' = [returned |-> returned,
              err |-> IF broken THEN "fail" ELSE err]
  /\ closed' = (closed \/ close)
  /\ canceled' = (canceled \/ err = "fail")
  /\ proc' = Woken(pr, close)

\* Goroutine g returns and spawnSync receives the value, which replaces nil or a
\* cancellation that came before: after an error it closes the queue and cancels; it closes the queue, too, when only one
\* goroutine is left.  pr is the processor before that.
Return(g, err, pr) ==
  LET returned == sync.returned \cup {g}
      broken == sync.err = "fail"
      close == err = "fail" \/ Cardinality(Routines \ returned) <= 1
  IN
  /\ sync' = [returned |-> returned,
              err |-> IF broken THEN "fail" ELSE err]
  /\ closed' = (closed \/ close)
  /\ canceled' = (canceled \/ err = "fail")
  /\ proc' = Woken(pr, close)

\* Bounds: no more faults once the download is canceled.
Fault == ~canceled /\ faults < MaxFaults /\ faults' = faults + 1

Lacks == Cardinality({pn \in Peers \X Numbers : pn[2] \in lacking[pn[1]]})

-----------------------------------------------------------------------------
(* The headers.                                                            *)

\* Mutant of Schedule: empty bodies are not scheduled.
ScheduleParts(c) ==
  LET new == scheduled + 1 .. scheduled + c
      fresh(k) == {n \in new : k \in Wanted(n)}
  IN
  /\ ~Returned("headers") /\ scheduled + c <= N
  /\ \A k \in Kinds : Cardinality(taskQueue[k]) < MaxQueued
  /\ scheduled' = scheduled + c
  /\ taskPool' = [k \in Kinds |-> taskPool[k] \cup fresh(k)]
  /\ taskQueue' = [k \in Kinds |-> taskQueue[k] \cup fresh(k)]
  /\ UNCHANGED <<pendPool, store, net_, loop, proc, run, faults>>

\* processHeaders: a chunk of c headers is scheduled, unless too many wait.
\* A body is scheduled even if it is empty, which is what creates its slot.
Schedule(c) ==
  LET new == scheduled + 1 .. scheduled + c
      fresh(k) == {n \in new : k = "body" \/ k \in Wanted(n)}
  IN
  /\ ~Returned("headers") /\ scheduled + c <= N
  /\ \A k \in Kinds : Cardinality(taskQueue[k]) < MaxQueued
  /\ scheduled' = scheduled + c
  /\ taskPool' = [k \in Kinds |-> taskPool[k] \cup fresh(k)]
  /\ taskQueue' = [k \in Kinds |-> taskQueue[k] \cup fresh(k)]
  /\ UNCHANGED <<pendPool, store, net_, loop, proc, run, faults>>

\* All headers are scheduled, a header is bad, or the sync was canceled.
HeadersReturn ==
  /\ ~Returned("headers")
  /\ \/ scheduled = N /\ Return("headers", "nil", proc) /\ UNCHANGED faults
     \/ canceled /\ Return("headers", "canceled", proc) /\ UNCHANGED faults
     \/ Fault /\ Return("headers", "fail", proc)
  /\ UNCHANGED <<tasks, store, net_, loop, chain, unseen>>

\* processHeaders has told the loops that there are no more headers.  When a loop
\* hears of it late, that is an update that comes late.
finished == scheduled = N

-----------------------------------------------------------------------------
(* The peers.                                                              *)

\* Requests of these peers go back to the queue.
Requeue(k, ps) ==
  taskQueue[k] \cup UNION {pendPool[k][p] : p \in ps \cap DOMAIN pendPool[k]}

Unpend(k, ps) == Restrict(pendPool[k], DOMAIN pendPool[k] \ ps)

\* These peers leave with requests in flight, after a loop found that nothing is
\* queued and before it looks for what is in flight.
Missed(ps) ==
  \E k \in Kinds : loop[k].at = "flying" /\ ps \cap DOMAIN pendPool[k] # {}

\* UnregisterPeer when a peer disconnects, with Revoke.
Disconnect(p) ==
  /\ p \in peers /\ ~Ended /\ Fault
  /\ peers' = peers \ {p}
  /\ taskQueue' = [k \in Kinds |-> Requeue(k, {p})]
  /\ pendPool' = [k \in Kinds |-> Unpend(k, {p})]
  /\ net' = {m \in net : m.peer # p}
  /\ unseen' = (unseen \/ Missed({p}))
  /\ UNCHANGED <<scheduled, taskPool, store, lacking, busy, loop, proc, closed,
                 canceled, sync, chain>>

-----------------------------------------------------------------------------
(* fetchParts                                                              *)

Selecting(k) == ~Returned(k) /\ loop[k].at = "select"

LoopCanceled(k) ==
  /\ Selecting(k) /\ canceled /\ Return(k, "canceled", proc)
  /\ UNCHANGED <<tasks, store, net_, loop, chain, unseen, faults>>

\* Mutant of Expired: the expired requests stay pending.
ExpiredPending(k, ps, seen) ==
  LET dropped == {p \in seen \cap peers :
                    Cardinality(pendPool[k][p]) <= MinFails}
  IN
  /\ taskQueue' = [j \in Kinds |->
                  Requeue(j, IF j = k THEN ps \cup dropped ELSE dropped)]
  /\ pendPool' = [j \in Kinds |-> Unpend(j, dropped)]
  /\ peers' = peers \ dropped
  /\ busy' = [busy EXCEPT ![k] = @ \ seen]
  /\ net' = {m \in net : m.peer \notin dropped}
  /\ unseen' = (unseen \/ Missed(dropped))

\* The requests of ps expire: the tasks go back.  Then the peers are visited;
\* those in seen that let few headers expire are dropped, which revokes their
\* other requests too, and the others become idle.
Expired(k, ps, seen) ==
  LET dropped == {p \in seen \cap peers :
                    Cardinality(pendPool[k][p]) <= MinFails}
      gone(j) == IF j = k THEN ps \cup dropped ELSE dropped
  IN
  /\ taskQueue' = [j \in Kinds |-> Requeue(j, gone(j))]
  /\ pendPool' = [j \in Kinds |-> Unpend(j, gone(j))]
  /\ peers' = peers \ dropped
  /\ busy' = [busy EXCEPT ![k] = @ \ seen]
  /\ net' = {m \in net : m.peer \notin dropped}
  /\ unseen' = (unseen \/ Missed(dropped))

\* The update: without peers the loop ends; some requests have expired; when the
\* master is dropped the loop ends before it visits the others.  If anything is
\* queued the loop turns to the idle peers.  Only this loop takes headers from the
\* queue, and what is running matters only if all peers are idle, so these looks
\* are one.
Update(k, ps) ==
  LET dropsMaster == /\ Master \in ps \cap peers
                     /\ Cardinality(pendPool[k][Master]) <= MinFails
      idles == peers' \ busy'[k]
  IN
  /\ Selecting(k)
  /\ ps \subseteq DOMAIN pendPool[k] /\ (peers = {} => ps = {})
  /\ IF \E m \in net : m.kind = k /\ m.peer \in ps
     THEN Fault ELSE UNCHANGED faults
  /\ \E seen \in SUBSET ps :
       /\ IF dropsMaster THEN Master \in seen ELSE seen = ps
       /\ Expired(k, ps, seen)
  /\ IF peers = {} \/ dropsMaster
     THEN Return(k, "fail", proc) /\ UNCHANGED loop
     ELSE /\ loop' = [loop EXCEPT ![k] =
               IF taskQueue'[k] # {}
               THEN [at |-> "serve", idles |-> idles, all |-> idles = peers',
                     running |-> DOMAIN pendPool'[k] # {},
                     progressed |-> FALSE, throttled |-> FALSE]
               ELSE [at |-> IF finished THEN "flying" ELSE "select"]]
          /\ UNCHANGED <<sync, closed, canceled, proc>>
  /\ UNCHANGED <<scheduled, taskPool, store, lacking, chain>>

\* Nothing was queued.  If nothing is in flight either, the loop is done: a
\* request that went back to the queue since then is missed.
InFlight(k) ==
  /\ ~Returned(k) /\ loop[k].at = "flying"
  /\ IF DOMAIN pendPool[k] = {} THEN Return(k, "nil", proc)
     ELSE UNCHANGED <<sync, closed, canceled, proc>>
  /\ loop' = [loop EXCEPT ![k] = [at |-> "select"]]
  /\ UNCHANGED <<tasks, store, net_, chain, unseen, faults>>

\* The c smallest of a set of numbers.
Smallest(S, c) == {n \in S : Cardinality({m \in S : m < n}) < c}

\* What reserveHeaders does with the queue of kind k for peer p: headers in
\* ascending order, up to c of them or to the end of the window.
Reservation(k, p, c) ==
  LET queue == taskQueue[k]
      inside == {n \in queue : n < offset + threshold}
      result(n) == IF n \in DOMAIN slots THEN slots[n] ELSE newFetchResult(n)
      missing == {n \in inside : n >= offset /\ k \in result(n).pending}
      send == Smallest(missing \ lacking[p], c)
      seen == IF Cardinality(send) < c THEN inside
              ELSE {n \in inside : \E m \in send : n <= m}
      skip == (seen \cap missing) \ send
  IN [send |-> send,
      dropped |-> seen \ missing,
      throttled |-> /\ Cardinality(send) < c /\ skip = {}
                    /\ queue # inside,
      slots |-> [n \in DOMAIN slots \cup {m \in seen : m >= offset} |->
                   result(n)]]

Serving(k, p) ==
  /\ ~Returned(k) /\ loop[k].at = "serve" /\ ~loop[k].throttled
  /\ p \in loop[k].idles /\ taskQueue[k] # {}

\* Reserve work for an idle peer and ask for it.  A peer that left since may
\* still be on the list.
Serve(k, p, c) ==
  LET r == Reservation(k, p, c)
      pending == p \in DOMAIN pendPool[k]
      sent == ~pending /\ r.send # {}
  IN
  /\ Serving(k, p)
  /\ IF pending THEN UNCHANGED <<taskQueue, taskPool, slots, proc>>
     ELSE /\ taskQueue' = [taskQueue EXCEPT ![k] = @ \ (r.send \cup r.dropped)]
          /\ taskPool' = [taskPool EXCEPT ![k] = @ \ r.dropped]
          /\ slots' = r.slots
          /\ proc' = Woken(proc, HasCompletedItems(r.slots))
  /\ pendPool' = IF ~sent THEN pendPool
                 ELSE [pendPool EXCEPT ![k] =
                         [q \in DOMAIN @ \cup {p} |->
                            IF q = p THEN r.send ELSE @[q]]]
  /\ busy' = IF sent THEN [busy EXCEPT ![k] = @ \cup {p}] ELSE busy
  /\ net' = IF sent /\ p \in peers
            THEN net \cup {[kind |-> k, peer |-> p, headers |-> r.send]}
            ELSE net
  /\ loop' = [loop EXCEPT
                ![k].idles = @ \ {p},
                ![k].running = @ \/ sent,
                ![k].progressed = @ \/ (~pending /\ r.dropped # {}),
                ![k].throttled = ~pending /\ r.throttled]
  /\ UNCHANGED <<scheduled, offset, incomplete, threshold, lacking, peers,
                 run, faults>>

\* All idle peers were served, or no more are needed.  If all peers are idle
\* and none can be given work, the download fails.
ServeEnd(k) ==
  LET l == loop[k]
      stuck == /\ l.idles = {} /\ l.all
               /\ ~l.progressed /\ ~l.throttled /\ ~l.running
  IN
  /\ ~Returned(k) /\ l.at = "serve"
  /\ \A p \in Peers : ~Serving(k, p)
  /\ IF stuck THEN Return(k, "fail", proc)
     ELSE UNCHANGED <<sync, closed, canceled, proc>>
  /\ loop' = [loop EXCEPT ![k] = [at |-> "select"]]
  /\ UNCHANGED <<tasks, store, net_, chain, unseen, faults>>

-----------------------------------------------------------------------------
(* Deliveries.                                                             *)

\* The place of header n in a request: they are in ascending order.
Place(request, n) == Cardinality({m \in request : m <= n})

\* The headers of a request that a list of data is valid for.
Valid(request, data) ==
  {n \in request : \A m \in request : m <= n =>
     /\ Place(request, m) <= Len(data)
     /\ data[Place(request, m)] = m}

\* The loop of kind k receives data of a peer.  It counts for whatever
\* request the peer has in flight, if any.
deliver(k, p, data) ==
  LET request == pendPool[k][p]
      accepted == Valid(request, data)
  IN
  /\ busy' = [busy EXCEPT ![k] = @ \ {p}]
  /\ IF p \notin DOMAIN pendPool[k]
     THEN UNCHANGED <<pendPool, lacking, slots, taskPool, taskQueue, proc>>
     ELSE /\ pendPool' = [pendPool EXCEPT ![k] = Unpend(k, {p})]
          /\ lacking' = IF data # <<>> THEN lacking
                        ELSE [lacking EXCEPT ![p] = @ \cup request]
          /\ slots' = [n \in DOMAIN slots |->
                         IF n \notin accepted THEN slots[n]
                         ELSE [pending |-> slots[n].pending \ {k},
                               has |-> slots[n].has \cup
                                         {<<k, data[Place(request, n)]>>}]]
          /\ taskPool' = [taskPool EXCEPT ![k] = @ \ accepted]
          /\ taskQueue' = [taskQueue EXCEPT
                             ![k] = @ \cup (request \ accepted)]
          /\ proc' = Woken(proc, accepted # {})

\* A peer answers a request, in full or in part (or with nothing, or with
\* wrong data), perhaps long after it expired here.
Reply(m, count, bad) ==
  LET data == [i \in 1 .. count |->
                 IF bad /\ i = count THEN 0
                 ELSE CHOOSE n \in m.headers : Place(m.headers, n) = i]
  IN
  /\ m \in net /\ Selecting(m.kind)
  /\ count \in 0 .. Cardinality(m.headers)
  /\ count = 0 => ~bad /\ ~canceled /\ Lacks < MaxLacking
  /\ IF bad THEN Fault ELSE UNCHANGED faults
  /\ deliver(m.kind, m.peer, data)
  /\ net' = net \ {m}
  /\ UNCHANGED <<scheduled, offset, incomplete, threshold, peers, loop, run>>

-----------------------------------------------------------------------------
(* The processor: Results in a loop.                                       *)

\* Look for results without the lock.
Check ==
  /\ ~Returned("processor") /\ proc.at = "check"
  /\ proc' = [proc EXCEPT !.at = IF proc.closed \/ HasCompletedItems(slots)
                                 THEN "take" ELSE "lock"]
  /\ UNCHANGED <<tasks, store, net_, loop, run, faults>>

\* With the lock, look again, then wait.
Lock ==
  /\ ~Returned("processor") /\ proc.at = "lock"
  /\ proc' = [proc EXCEPT !.at = IF HasCompletedItems(slots) \/ closed
                                 THEN "take" ELSE "wait"]
  /\ UNCHANGED <<tasks, store, net_, loop, run, faults>>

Wake ==
  /\ ~Returned("processor") /\ proc.at = "woken"
  /\ proc' = [at |-> "check", closed |-> closed]
  /\ UNCHANGED <<tasks, store, net_, loop, run, faults>>

\* Take the completed results, set a new threshold and import them.  Without
\* results the processor is done.  A batch whose import fails is not counted.
Take ==
  LET taken == Smaller(MaxResults, countCompleted)
      blocks == [i \in 1 .. taken |-> slots[offset + i - 1].has]
  IN
  /\ ~Returned("processor") /\ proc.at = "take"
  /\ offset' = offset + taken
  /\ slots' = Restrict(slots, DOMAIN slots \ (offset .. offset + taken - 1))
  /\ incomplete' = countCompleted - taken
  /\ threshold' \in 1 .. Size
  /\ \/ /\ taken = 0 /\ Return("processor", "nil", proc)
        /\ UNCHANGED <<chain, faults>>
     \/ /\ taken > 0 /\ chain' = chain \o blocks
        /\ proc' = [at |-> "check", closed |-> FALSE]
        /\ UNCHANGED <<sync, closed, canceled, faults>>
     \/ /\ taken > 0 /\ Fault /\ Return("processor", "fail", proc)
        /\ UNCHANGED chain
  /\ UNCHANGED <<tasks, net_, loop, unseen>>

-----------------------------------------------------------------------------
\* Cancel by the user.
Cancel ==
  /\ ~canceled /\ ~Ended /\ Fault
  /\ canceled' = TRUE
  /\ UNCHANGED <<tasks, store, net_, loop, proc, closed, sync, chain, unseen>>

Resolve(k, p) ==
  \/ \E ps \in SUBSET DOMAIN pendPool[k] : p \in ps /\ Update(k, ps)
  \/ \E m \in net, count \in 0 .. MaxRequest, bad \in BOOLEAN :
       m.kind = k /\ m.peer = p /\ Reply(m, count, bad)

Loop(k) ==
  \/ LoopCanceled(k) \/ Update(k, {}) \/ InFlight(k) \/ ServeEnd(k)
  \/ \E p \in Peers, c \in 1 .. MaxRequest : Serve(k, p, c)

Headers == (\E c \in 1 .. MaxQueued : Schedule(c)) \/ HeadersReturn

Process == Check \/ Lock \/ Wake \/ Take

Next ==
  \/ Headers \/ Process
  \/ \E k \in Kinds : Loop(k) \/ \E p \in Peers : Resolve(k, p)
  \/ \E p \in Peers : Disconnect(p)
  \/ Cancel

Spec == Init /\ [][Next]_vars

\* The goroutines run; a request is answered or expires.
FairSpec ==
  /\ Spec
  /\ WF_vars(Headers) /\ WF_vars(Process)
  /\ \A k \in Kinds :
       /\ WF_vars(Loop(k)) /\ SF_vars(LoopCanceled(k))
       /\ \A p \in Peers : SF_vars(Resolve(k, p))

-----------------------------------------------------------------------------
TypeOK ==
  /\ scheduled \in 0 .. N
  /\ taskPool \in [Kinds -> SUBSET Numbers]
  /\ taskQueue \in [Kinds -> SUBSET Numbers]
  /\ DOMAIN pendPool = Kinds
  /\ \A k \in Kinds :
       /\ DOMAIN pendPool[k] \subseteq Peers
       /\ \A p \in DOMAIN pendPool[k] :
            pendPool[k][p] \in (SUBSET Numbers) \ {{}}
  /\ offset \in 1 .. N + 1
  /\ DOMAIN slots \subseteq Numbers \cap (offset .. offset + Size - 1)
  /\ \A n \in DOMAIN slots :
       slots[n] \in [pending : SUBSET Wanted(n),
                     has : SUBSET (Kinds \X Numbers)]
  /\ incomplete \in 0 .. Size /\ threshold \in 1 .. Size
  /\ lacking \in [Peers -> SUBSET Numbers] /\ peers \subseteq Peers
  /\ busy \in [Kinds -> SUBSET Peers]
  /\ proc.at \in {"check", "lock", "wait", "woken", "take"}
  /\ \A k \in Kinds :
       loop[k].at \in {"select", "flying", "serve"}
  /\ closed \in BOOLEAN /\ canceled \in BOOLEAN /\ unseen \in BOOLEAN
  /\ sync.returned \subseteq Routines

\* A header in flight has a slot in which this part is outstanding, through
\* timeouts, late answers and moves of the window: otherwise the delivery
\* would write through a nil pointer or count a part as done twice.
SlotOutstanding ==
  \A k \in Kinds : \A p \in DOMAIN pendPool[k] : \A n \in pendPool[k][p] :
    n \in DOMAIN slots /\ k \in slots[n].pending

\* A missing part is either queued or in flight with one peer; a part that is
\* not missing has arrived.
TasksAccounted ==
  \A k \in Kinds, n \in Numbers :
    LET holders == {p \in DOMAIN pendPool[k] : n \in pendPool[k][p]}
    IN
    /\ n \in taskPool[k] <=> n \in taskQueue[k] \/ holders # {}
    /\ n \in taskQueue[k] => holders = {}
    /\ \A p, q \in holders : p = q
    /\ n > scheduled => n \notin taskPool[k] /\ n \notin DOMAIN slots
    /\ n <= scheduled /\ n \notin taskPool[k] /\ k \in Wanted(n) =>
         n < offset \/ (n \in DOMAIN slots /\ k \notin slots[n].pending)

\* The processor does not sleep while there are results, or when the queue is
\* closed.
NoLostWakeup ==
  proc.at = "wait" => ~HasCompletedItems(slots) /\ ~closed

\* The count of completed results may be late, never ahead.
CountHonest ==
  \A i \in 0 .. incomplete - 1 : Complete(slots, offset + i)

\* A peer that is marked busy has a request in flight, so that an answer or a
\* timeout makes it idle again; until the synchronisation is canceled.
BusyHasRequest ==
  ~canceled =>
    \A k \in Kinds : busy[k] \cap peers \subseteq DOMAIN pendPool[k]

\* Together: no part is lost or asked for twice, no answer finds its slot gone,
\* nobody sleeps through its wakeup, and no peer stays busy for nothing.
QueueInv ==
  /\ TypeOK
  /\ SlotOutstanding
  /\ TasksAccounted
  /\ NoLostWakeup
  /\ CountHonest
  /\ BusyHasRequest

\* What spawnSync returns.  nil says nothing about a synchronisation that was
\* canceled, as the last value replaces a cancellation, or of which a loop missed
\* that a peer left.
Outcome ==
  IF ~Ended THEN "open"
  ELSE IF sync.err # "nil" THEN "aborted"
  ELSE IF canceled \/ unseen THEN "interrupted" ELSE "complete"

Delivery == INSTANCE ChainDelivery WITH outcome <- Outcome

\* The download implements the ordered delivery of complete blocks: if spawnSync
\* returns nil then all blocks were delivered, but for the two cases of Outcome.
DeliverySpec == Delivery!Spec

\* The synchronisation ends: no goroutine waits for ever for another.
SyncEnds == <>Ended
=============================================================================
