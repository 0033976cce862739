----------------------------- MODULE TxPoolReorg -----------------------------
(***************************************************************************)
(* The hand-shake of the transaction pool's goroutines (core/tx_pool.go):  *)
(* callers of addTxs, the head loop, scheduleReorgLoop, the runReorg that  *)
(* it starts, and pool.mu.  TxPool models what a run does to the lists.    *)
(*                                                                         *)
(* Every channel is unbuffered, so a send is a step of both ends.          *)
(*                                                                         *)
(* Abstractions.                                                           *)
(*  - A caller adds one transaction of its own account at a time; it       *)
(*    stands for the account in dirtyAccounts and for the transaction in   *)
(*    queuedEvents.                                                        *)
(*  - Done channels are the one of the run (curDone, "cur") and the one of *)
(*    the next run (nextDone, "next"): a launch turns the latter into the  *)
(*    former.                                                              *)
(*  - A run promotes some transactions of the accounts it visits or none;  *)
(*    a reset reinjects some that replace pending ones or none.            *)
(*  - The subscribers of txFeed are one, which reads the pool under its    *)
(*    lock before it takes the next event (as the miner does).             *)
(***************************************************************************)
EXTENDS Naturals, FiniteSets

CONSTANTS
  Callers,     \* goroutines that call addTxs
  SyncCallers, \* those that wait for the run: AddLocals, AddRemotesSync
  ChainHeads,  \* chain heads
  Other,       \* an event that is not the replacement of a caller
  Free         \* nobody holds pool.mu

ASSUME ReorgAssumption ==
  /\ SyncCallers \subseteq Callers
  /\ Other \notin Callers /\ Free \notin Callers \cup {"run"}
  /\ "run" \notin Callers
  /\ ChainHeads # {}

VARIABLES
  pc,            \* caller -> where it is in addTxs
  waits,         \* caller -> the done channel it has been given
  mu,            \* holder of pool.mu
  loop,          \* the head loop: "select", "request", "reply", "ended"
  head,          \* loop's head
  event,         \* the head in chainHeadCh that loop is handling
  shutdown,      \* reorgShutdownCh is closed
  sched,         \* scheduleReorgLoop: "select", "reply", "drain", "ended"
  curDone,       \* "nil", "open", or "closed" and not yet noticed
  launch,        \* launchNextRun
  reset,         \* the merged reset request, as a set of at most one
  dirtyAccounts, \* accounts that the next run promotes
  queued,        \* queuedEvents
  run,           \* where runReorg is
  runReset,      \* its reset
  visits,        \* the accounts it promotes
  events,        \* the events it sends
  poolHead,      \* the head of the pool's last reset
  sub,           \* the subscriber: "ready" or "busy"
  unserved,      \* callers whose last transaction no run has visited
  unsent         \* those whose last transaction was not announced

callerVars == <<pc, waits>>
loopVars == <<loop, head, event>>
schedVars == <<sched, curDone, launch, reset, dirtyAccounts, queued>>
runVars == <<run, runReset, visits, events, poolHead>>
history == <<unserved, unsent>>
reorgVars == <<callerVars, mu, loopVars, shutdown, schedVars, runVars, sub, history>>

ResetRequests == [old : ChainHeads, new : ChainHeads]

\* Every variable has its type, and pool.mu is held exactly by the caller that
\* is inside add, or by the run while it works on the pool.
ReorgTypeOK ==
  /\ pc \in [Callers -> {"idle", "event", "request", "reply", "wait"}]
  /\ waits \in [Callers -> {"none", "cur", "next"}]
  /\ mu \in Callers \cup {"run", Free}
  /\ loop \in {"select", "request", "reply", "ended"}
  /\ head \in ChainHeads /\ event \in ChainHeads /\ poolHead \in ChainHeads
  /\ shutdown \in BOOLEAN
  /\ sched \in {"select", "reply", "drain", "ended"}
  /\ curDone \in {"nil", "open", "closed"}
  /\ launch \in BOOLEAN
  /\ reset \in SUBSET ResetRequests /\ runReset \in SUBSET ResetRequests
  /\ dirtyAccounts \subseteq Callers /\ visits \subseteq Callers
  /\ queued \subseteq Callers \cup {Other} /\ events \subseteq Callers \cup {Other}
  /\ run \in {"none", "start", "event", "reset", "promote", "send", "done"}
  /\ sub \in {"ready", "busy"}
  /\ unserved \subseteq Callers /\ unsent \subseteq Callers
  /\ \A c \in Callers : mu = c <=> pc[c] = "event"
  /\ mu = "run" <=> run \in {"event", "reset", "promote"}

ReorgInit ==
  /\ pc = [c \in Callers |-> "idle"]
  /\ waits = [c \in Callers |-> "none"]
  /\ mu = Free
  /\ loop = "select"
  /\ head \in ChainHeads /\ event = head /\ poolHead = head
  /\ shutdown = FALSE
  /\ sched = "select" /\ curDone = "nil" /\ launch = FALSE
  /\ reset = {} /\ dirtyAccounts = {} /\ queued = {}
  /\ run = "none" /\ runReset = {} /\ visits = {} /\ events = {}
  /\ sub = "ready"
  /\ unserved = {} /\ unsent = {}

(***************************************************************************)
(* scheduleReorgLoop                                                       *)
(***************************************************************************)
\* The head of the loop: a run is due.
MayLaunch == curDone = "nil" /\ launch

\* The loop waits in its select.
Selecting == sched = "select" /\ ~MayLaunch

\* go pool.runReorg(nextDone, reset, dirtyAccounts, queuedEvents)
Launch ==
  /\ sched = "select" /\ MayLaunch
  /\ run' = "start" /\ runReset' = reset /\ visits' = dirtyAccounts /\ events' = queued
  /\ curDone' = "open" /\ launch' = FALSE
  /\ reset' = {} /\ dirtyAccounts' = {} /\ queued' = {}
  /\ waits' = [c \in Callers |-> IF waits[c] = "next" THEN "cur" ELSE waits[c]]
  /\ UNCHANGED <<pc, mu, loopVars, shutdown, sched, poolHead, sub, history>>

\* case <-curDone
NoticeDone ==
  /\ Selecting /\ curDone = "closed"
  /\ curDone' = "nil"
  /\ UNCHANGED <<callerVars, mu, loopVars, shutdown, sched, launch, reset, dirtyAccounts, queued,
                 runVars, sub, history>>

\* case <-pool.reorgShutdownCh
ShutdownSeen ==
  /\ Selecting /\ shutdown
  /\ sched' = "drain"
  /\ UNCHANGED <<callerVars, mu, loopVars, shutdown, curDone, launch, reset, dirtyAccounts, queued,
                 runVars, sub, history>>

\* Mutant: nextDone is not closed.
DrainedSilently ==
  /\ sched = "drain" /\ curDone # "open"
  /\ sched' = "ended"
  /\ UNCHANGED <<callerVars, mu, loopVars, shutdown, curDone, launch, reset, dirtyAccounts, queued,
                 runVars, sub, history>>

\* The current run, if any, has finished: close(nextDone).
Drained ==
  /\ sched = "drain" /\ curDone # "open"
  /\ sched' = "ended"
  /\ waits' = [c \in Callers |-> IF waits[c] = "next" THEN "none" ELSE waits[c]]
  /\ UNCHANGED <<pc, mu, loopVars, shutdown, curDone, launch, reset, dirtyAccounts, queued, runVars,
                 sub, history>>

(***************************************************************************)
(* addTxs, by caller c                                                     *)
(***************************************************************************)
\* addTxsLocked up to the event of a transaction that replaces a pending one,
\* for which add waits with the lock held.
AddReplacement(c) ==
  /\ pc[c] = "idle" /\ mu = Free
  /\ mu' = c
  /\ pc' = [pc EXCEPT ![c] = "event"]
  /\ unsent' = unsent \cup {c}
  /\ UNCHANGED <<waits, loopVars, shutdown, schedVars, runVars, sub, unserved>>

\* queueTxEvent in add, and the unlock in addTxs.
QueueTxEvent(c) ==
  /\ pc[c] = "event"
  /\ \/ Selecting /\ queued' = queued \cup {c} /\ UNCHANGED unsent
     \/ shutdown /\ unsent' = unsent \ {c} /\ UNCHANGED queued
  /\ mu' = Free
  /\ pc' = [pc EXCEPT ![c] = "request"]
  /\ UNCHANGED <<waits, loopVars, shutdown, sched, curDone, launch, reset, dirtyAccounts, runVars,
                 sub, unserved>>

\* addTxsLocked for a transaction that goes to the queue.
AddQueued(c) ==
  /\ pc[c] = "idle" /\ mu = Free
  /\ pc' = [pc EXCEPT ![c] = "request"]
  /\ unserved' = unserved \cup {c}
  /\ UNCHANGED <<waits, mu, loopVars, shutdown, schedVars, runVars, sub, unsent>>

\* requestPromoteExecutables: the request reaches the scheduler, which merges
\* it; an account is dirty only if a transaction went to its queue.
RequestPromote(c) ==
  /\ pc[c] = "request" /\ Selecting
  /\ dirtyAccounts' = dirtyAccounts \cup ({c} \cap unserved)
  /\ launch' = TRUE
  /\ sched' = "reply"
  /\ pc' = [pc EXCEPT ![c] = "reply"]
  /\ UNCHANGED <<waits, mu, loopVars, shutdown, curDone, reset, queued, runVars, sub,
                 history>>

\* Mutant: the channel of the run that is under way.
ReplyPromoteCurrent(c) ==
  /\ pc[c] = "reply" /\ sched = "reply"
  /\ sched' = "select"
  /\ pc' = [pc EXCEPT ![c] = IF c \in SyncCallers THEN "wait" ELSE "idle"]
  /\ waits' = [waits EXCEPT ![c] = IF c \notin SyncCallers THEN "none"
                                   ELSE IF curDone = "open" THEN "cur" ELSE "next"]
  /\ UNCHANGED <<mu, loopVars, shutdown, curDone, launch, reset, dirtyAccounts, queued, runVars, sub,
                 history>>

\* pool.reorgDoneCh <- nextDone: a caller that is not synchronous returns.
ReplyPromote(c) ==
  /\ pc[c] = "reply" /\ sched = "reply"
  /\ sched' = "select"
  /\ pc' = [pc EXCEPT ![c] = IF c \in SyncCallers THEN "wait" ELSE "idle"]
  /\ waits' = [waits EXCEPT ![c] = IF c \in SyncCallers THEN "next" ELSE "none"]
  /\ UNCHANGED <<mu, loopVars, shutdown, curDone, launch, reset, dirtyAccounts, queued, runVars, sub,
                 history>>

\* requestPromoteExecutables after the shutdown: the channel is closed already.
RequestRefused(c) ==
  /\ pc[c] = "request" /\ shutdown
  /\ pc' = [pc EXCEPT ![c] = "idle"]
  /\ UNCHANGED <<waits, mu, loopVars, shutdown, schedVars, runVars, sub, history>>

\* <-done: the channel the caller was given is closed.
Return(c) ==
  /\ pc[c] = "wait" /\ waits[c] = "none"
  /\ pc' = [pc EXCEPT ![c] = "idle"]
  /\ UNCHANGED <<waits, mu, loopVars, shutdown, schedVars, runVars, sub, history>>

(***************************************************************************)
(* loop                                                                    *)
(***************************************************************************)
\* case ev := <-pool.chainHeadCh
ChainHeadEvent(h) ==
  /\ loop = "select" /\ ~shutdown
  /\ loop' = "request"
  /\ event' = h
  /\ UNCHANGED <<callerVars, mu, head, shutdown, schedVars, runVars, sub, history>>

\* Mutant: a later request replaces the one that is waiting.
MergedLast(req) == {req}

\* The first request's old head, the last one's new head.
Merged(req) ==
  IF reset = {} THEN {req} ELSE {[r EXCEPT !.new = req.new] : r \in reset}

\* requestReset reaches the scheduler.
RequestReset ==
  /\ loop = "request" /\ Selecting
  /\ reset' = Merged([old |-> head, new |-> event])
  /\ launch' = TRUE
  /\ sched' = "reply"
  /\ loop' = "reply"
  /\ UNCHANGED <<callerVars, mu, head, event, shutdown, curDone, dirtyAccounts, queued, runVars, sub,
                 history>>

\* pool.reorgDoneCh <- nextDone: the loop goes on without waiting.
ReplyReset ==
  /\ loop = "reply" /\ sched = "reply"
  /\ sched' = "select"
  /\ loop' = "select"
  /\ head' = event
  /\ UNCHANGED <<callerVars, mu, event, shutdown, curDone, launch, reset, dirtyAccounts, queued,
                 runVars, sub, history>>

\* case <-pool.chainHeadSub.Err(): Stop has unsubscribed.
Shutdown ==
  /\ loop = "select"
  /\ loop' = "ended"
  /\ shutdown' = TRUE
  /\ UNCHANGED <<callerVars, mu, head, event, schedVars, runVars, sub, history>>

(***************************************************************************)
(* runReorg                                                                *)
(***************************************************************************)
\* pool.mu.Lock(), and reset up to a transaction that it reinjects in place of
\* a pending one, if there is any.
RunLock ==
  /\ run = "start" /\ mu = Free
  /\ mu' = "run"
  /\ \/ runReset = {} /\ run' = "promote" /\ UNCHANGED poolHead
     \/ \E r \in runReset : poolHead' = r.new /\ run' \in {"event", "reset"}
  /\ UNCHANGED <<callerVars, loopVars, shutdown, schedVars, runReset, visits, events, sub,
                 history>>

\* Mutant: nothing tells the run that the scheduler waits for it.
ReinjectEventForever ==
  /\ run = "event"
  /\ Selecting /\ queued' = queued \cup {Other}
  /\ run' = "reset"
  /\ UNCHANGED <<callerVars, mu, loopVars, shutdown, sched, curDone, launch, reset, dirtyAccounts,
                 runReset, visits, events, poolHead, sub, history>>

\* queueTxEvent in the add of a reinjected transaction, with the lock held.
ReinjectEvent ==
  /\ run = "event"
  /\ \/ Selecting /\ queued' = queued \cup {Other}
     \/ shutdown /\ UNCHANGED queued
  /\ run' = "reset"
  /\ UNCHANGED <<callerVars, mu, loopVars, shutdown, sched, curDone, launch, reset, dirtyAccounts,
                 runReset, visits, events, poolHead, sub, history>>

\* The reset is over: the events of included transactions are stale, and every
\* account with queued transactions is visited.
ResetDone ==
  /\ run = "reset"
  /\ run' = "promote"
  /\ visits' = Callers
  /\ \E stale \in SUBSET events :
       /\ events' = events \ stale
       /\ unsent' = unsent \ stale
  /\ UNCHANGED <<callerVars, mu, loopVars, shutdown, schedVars, runReset, poolHead, sub,
                 unserved>>

\* Promotion, demotion, truncation; the unlock; the promoted transactions join
\* the events.
RunPromotion ==
  /\ run = "promote"
  /\ \E promoted \in SUBSET {Other} :
       /\ visits = {} => promoted = {}
       /\ events' = events \cup promoted
  /\ unserved' = unserved \ visits
  /\ mu' = Free
  /\ run' = "send"
  /\ UNCHANGED <<callerVars, loopVars, shutdown, schedVars, runReset, visits, poolHead, sub,
                 unsent>>

\* txFeed.Send, which waits for the subscriber.
RunSend ==
  /\ run = "send"
  /\ events # {} => sub = "ready"
  /\ sub' = IF events = {} THEN sub ELSE "busy"
  /\ unsent' = unsent \ events
  /\ run' = "done"
  /\ UNCHANGED <<callerVars, mu, loopVars, shutdown, schedVars, runReset, visits, events,
                 poolHead, unserved>>

\* close(done)
RunDone ==
  /\ run = "done"
  /\ run' = "none"
  /\ runReset' = {} /\ visits' = {} /\ events' = {}
  /\ curDone' = "closed"
  /\ waits' = [c \in Callers |-> IF waits[c] = "cur" THEN "none" ELSE waits[c]]
  /\ UNCHANGED <<pc, mu, loopVars, shutdown, sched, launch, reset, dirtyAccounts, queued, poolHead,
                 sub, history>>

\* The subscriber reads the pool (external).
SubscriberReads ==
  /\ sub = "busy" /\ mu = Free
  /\ sub' = "ready"
  /\ UNCHANGED <<callerVars, mu, loopVars, shutdown, schedVars, runVars, history>>
-----------------------------------------------------------------------------
CallerSteps(c) ==
  \/ QueueTxEvent(c) \/ RequestPromote(c) \/ ReplyPromote(c) \/ RequestRefused(c)
  \/ Return(c)

SchedSteps == Launch \/ NoticeDone \/ ShutdownSeen \/ Drained

RunSteps == RunLock \/ ReinjectEvent \/ ResetDone \/ RunPromotion \/ RunSend \/ RunDone

ReorgNext ==
  \/ \E c \in Callers : AddReplacement(c) \/ AddQueued(c) \/ CallerSteps(c)
  \/ \E h \in ChainHeads : ChainHeadEvent(h)
  \/ RequestReset \/ ReplyReset \/ Shutdown
  \/ SchedSteps
  \/ RunSteps
  \/ SubscriberReads

ReorgSpec == ReorgInit /\ [][ReorgNext]_reorgVars

\* Goroutines run.  A select picks among its ready cases at random and a mutex
\* does not starve a waiter, so what is ready again and again happens.
Fairness ==
  /\ \A c \in Callers : SF_reorgVars(CallerSteps(c))
  /\ SF_reorgVars(RequestReset \/ ReplyReset)
  /\ WF_reorgVars(Launch) /\ SF_reorgVars(NoticeDone) /\ SF_reorgVars(ShutdownSeen)
  /\ WF_reorgVars(Drained)
  /\ SF_reorgVars(RunSteps)
  /\ SF_reorgVars(SubscriberReads)

ReorgFairSpec == ReorgSpec /\ Fairness
-----------------------------------------------------------------------------
(***************************************************************************)
(* Properties                                                              *)
(***************************************************************************)
\* AddLocals "performs synchronous pool reorganization and event propagation":
\* when it returns, unless the pool shuts down, a run has visited its account
\* and its event was sent, and no later run will send it again.
SyncServed ==
  \A c \in SyncCallers :
    pc[c] = "idle" /\ ~shutdown => c \notin unserved \cup unsent \cup dirtyAccounts \cup queued

\* A reset starts from the head that the pool was last reset to, however many
\* requests were merged while a run was busy: the transactions of every block
\* that left the chain in between are looked for.
HeadsContiguous == run = "start" => \A r \in runReset : r.old = poolHead

\* A synchronous caller returns, also when the pool shuts down under it.
SyncReturns == \A c \in SyncCallers : []<>(pc[c] = "idle")

\* Stop returns: the scheduler ends, and no run is left behind, although runs and
\* callers send their events to it with the lock held.
StopEnds == []<>(shutdown => sched = "ended" /\ run = "none")
=============================================================================
