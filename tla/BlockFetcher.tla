----------------------------- MODULE BlockFetcher -----------------------------
(***************************************************************************)
(* The block fetcher (eth/fetcher/block_fetcher.go): blocks that peers     *)
(* announce are asked for, header and body, those that peers send are      *)
(* queued, and goroutines import them.  One action per case of the loop's  *)
(* select; LoopTop is what the loop does before it waits.                  *)
(*                                                                         *)
(* Abstractions.                                                           *)
(*  - Time is left out: when a timer fires, or the loop comes round, any   *)
(*    entries may be old enough.                                           *)
(*  - Peers may send headers and bodies asked for or not, or never; the    *)
(*    filters return what was not asked for.  A message has one header, as *)
(*    eth/handler.go filters no longer ones, and no body twice.            *)
(*  - An announcement is its peer and whether the number is right; a body  *)
(*    is known by its block.                                               *)
(*  - Before LoopTop is over, the chain does not change.                   *)
(*  - dropPeer and broadcastBlock are calls of the protocol handler, which *)
(*    tells the fetcher nothing about them.                                *)
(***************************************************************************)
EXTENDS Integers, FiniteSets, FiniteSetsExt, Sequences

CONSTANTS
  Blocks,        \* blocks, known by their hashes
  Genesis,       \* the parent of the first
  Number,        \* of each block: its number
  Parent,        \* of each block: its parent
  EmptyBlocks,   \* blocks without transactions and uncles
  Peers,
  None,          \* no entry in a map
  HashLimit,     \* hashLimit
  BlockLimit,    \* blockLimit
  MaxUncleDist,  \* maxUncleDist
  MaxQueueDist,  \* maxQueueDist
  MaxNotify      \* bound on the number of announcements

ASSUME BlockFetcherAssumption ==
  /\ IsFiniteSet(Blocks) /\ Genesis \notin Blocks
  /\ Number \in [Blocks -> Nat \ {0}]
  /\ Parent \in [Blocks -> Blocks \cup {Genesis}]
  /\ EmptyBlocks \subseteq Blocks
  /\ IsFiniteSet(Peers)
  /\ None \notin Peers /\ None \notin [peer : Peers, right : BOOLEAN]
  /\ HashLimit \in Nat \ {0} /\ BlockLimit \in Nat \ {0}
  /\ MaxUncleDist \in Nat /\ MaxQueueDist \in Nat /\ MaxNotify \in Nat

VARIABLES
  light,          \* only headers are fetched and imported
  at,             \* where the loop is: top, select or ended
  f,              \* the maps of the fetcher, below
  fetchTimer,     \* a tick of the timer is to come
  completeTimer,
  imports,        \* goroutines that import a block
  chain,          \* blocks of the local chain
  notified        \* announcements so far

vars == <<light, at, f, fetchTimer, completeTimer, imports, chain, notified>>

Announcements == [peer : Peers, right : BOOLEAN]

(***************************************************************************)
(* announces[p]: the count of p's announcements.  announced[h]: those of   *)
(* h, scheduled for fetching.  fetching[h]: the one that is being fetched. *)
(* fetched[h]: the peer whose header is there.  completing[h]: the peer    *)
(* that is asked for the body.  queue: blocks that wait for their import.  *)
(* queued[h]: the peer that sent h, until the import is over.  queues[p]:  *)
(* the count of such blocks.                                               *)
(***************************************************************************)
Init ==
  /\ light \in BOOLEAN /\ at = "top"
  /\ f = [announces  |-> [p \in Peers |-> 0],
          announced  |-> [h \in Blocks |-> <<>>],
          fetching   |-> [h \in Blocks |-> None],
          fetched    |-> [h \in Blocks |-> None],
          completing |-> [h \in Blocks |-> None],
          queue      |-> {},
          queues     |-> [p \in Peers |-> 0],
          queued     |-> [h \in Blocks |-> None]]
  /\ fetchTimer = TRUE /\ completeTimer = TRUE
  /\ imports = {} /\ chain = {} /\ notified = 0

\* chainHeight
Height == Max({Number[h] : h \in chain} \cup {0})

\* getBlock and getHeader
Known(h) == h \in chain \cup {Genesis}

Far(h) ==
  \/ Number[h] - Height < -MaxUncleDist
  \/ Number[h] - Height > MaxQueueDist

-----------------------------------------------------------------------------
(* What forgetHash, forgetBlock and enqueue make of the maps g.            *)

AnnouncedBy(g, p, H) ==
  {x \in H \X (1 .. MaxNotify) :
     x[2] \in DOMAIN g.announced[x[1]] /\ g.announced[x[1]][x[2]].peer = p}

FetchingFrom(g, p, H) ==
  {h \in H : g.fetching[h] # None /\ g.fetching[h].peer = p}

\* Every trace counts the peer's announcements down, not below 0.
forgetHash(g, H) ==
  LET traces(p) == Cardinality(AnnouncedBy(g, p, H))
                   + Cardinality(FetchingFrom(g, p, H))
                   + Cardinality({h \in H : g.fetched[h] = p})
                   + Cardinality({h \in H : g.completing[h] = p})
      cleared(m, empty) == [h \in Blocks |-> IF h \in H THEN empty ELSE m[h]]
  IN [g EXCEPT
       !.announces = [p \in Peers |-> Max({0, @[p] - traces(p)})],
       !.announced = cleared(@, <<>>),
       !.fetching = cleared(@, None),
       !.fetched = cleared(@, None),
       !.completing = cleared(@, None)]

forgetBlock(g, H) ==
  [g EXCEPT
    !.queues = [p \in Peers |-> @[p] - Cardinality({h \in H : g.queued[h] = p})],
    !.queued = [h \in Blocks |-> IF h \in H THEN None ELSE @[h]]]

\* The blocks H come from peer p.  'fits' are those that the peer's allowance
\* lets in; the others leave no trace.
Fitting(g, p, H) ==
  LET near == {h \in H : ~Far(h)}
      room == BlockLimit - g.queues[p]
  IN {F \in SUBSET near : Cardinality(F) = Min({Cardinality(near), room})}

\* Mutant of enqueue: a block that is queued already is counted again.
enqueueCounted(g, p, H, fits) ==
  LET new == {h \in fits : g.queued[h] = None} IN
  [forgetHash(g, H \ fits) EXCEPT
    !.queues[p] = @ + Cardinality(fits),
    !.queued = [h \in Blocks |-> IF h \in new THEN p ELSE @[h]],
    !.queue = @ \cup new]

enqueue(g, p, H, fits) ==
  LET new == {h \in fits : g.queued[h] = None} IN
  [forgetHash(g, H \ fits) EXCEPT
    !.queues[p] = @ + Cardinality(new),
    !.queued = [h \in Blocks |-> IF h \in new THEN p ELSE @[h]],
    !.queue = @ \cup new]

-----------------------------------------------------------------------------
(* The loop.                                                               *)

\* Mutant of LoopTop: a block is no longer queued once its import begins.
LoopTopForgets(expired) ==
  LET ready == {h \in f.queue : Number[h] <= Height + 1}
      stale == {h \in ready : Number[h] + MaxUncleDist < Height \/ Known(h)}
      g == forgetBlock(forgetHash(f, expired), ready)
  IN
  /\ at = "top" /\ at' = "select"
  /\ f' = [g EXCEPT !.queue = @ \ ready]
  /\ imports' = imports \cup
       {[hash |-> h, peer |-> f.queued[h], at |-> "start"] :
          h \in ready \ stale}
  /\ UNCHANGED <<light, fetchTimer, completeTimer, chain, notified>>

\* Expired fetches are forgotten; queued blocks that fit are imported, old or
\* known ones forgotten.
LoopTop(expired) ==
  LET ready == {h \in f.queue : Number[h] <= Height + 1}
      stale == {h \in ready : Number[h] + MaxUncleDist < Height \/ Known(h)}
      g == forgetBlock(forgetHash(f, expired), stale)
  IN
  /\ at = "top" /\ at' = "select"
  /\ f' = [g EXCEPT !.queue = @ \ ready]
  /\ imports' = imports \cup
       {[hash |-> h, peer |-> f.queued[h], at |-> "start"] :
          h \in ready \ stale}
  /\ UNCHANGED <<light, fetchTimer, completeTimer, chain, notified>>

\* <-f.quit
Stop ==
  /\ at = "select" /\ at' = "ended"
  /\ UNCHANGED <<light, f, fetchTimer, completeTimer, imports, chain, notified>>

Select == at = "select" /\ at' = "top" /\ UNCHANGED light

\* <-f.notify: peer p announces h, with the right number or not.
Notify(p, h, right) ==
  LET refused == \/ f.announces[p] + 1 > HashLimit
                 \/ right /\ Far(h)
                 \/ f.fetching[h] # None
                 \/ f.completing[h] # None
  IN
  /\ Select /\ notified < MaxNotify
  /\ notified' = notified + 1
  /\ IF refused THEN UNCHANGED <<f, fetchTimer>>
     ELSE /\ f' = [f EXCEPT !.announces[p] = @ + 1,
                            !.announced[h] = Append(@, [peer |-> p,
                                                        right |-> right])]
          \* The timer runs if other blocks are announced.
          /\ fetchTimer' = (fetchTimer
               \/ Cardinality({k \in Blocks : f'.announced[k] # <<>>}) = 1)
  /\ UNCHANGED <<completeTimer, imports, chain>>

\* <-f.inject: peer p sends block h.
Inject(p, h) ==
  /\ Select
  /\ IF light THEN UNCHANGED f
     ELSE \E fits \in Fitting(f, p, {h}) : f' = enqueue(f, p, {h}, fits)
  /\ UNCHANGED <<fetchTimer, completeTimer, imports, chain, notified>>

\* <-f.done
Done(i) ==
  /\ Select /\ i \in imports /\ i.at = "done"
  /\ imports' = imports \ {i}
  /\ f' = forgetBlock(forgetHash(f, {i.hash}), {i.hash})
  /\ UNCHANGED <<fetchTimer, completeTimer, chain, notified>>

\* <-fetchTimer.C: the headers of 'due' blocks are asked for, each from one
\* of the announcing peers.
FetchTimer(due) ==
  LET wanted == {h \in due : ~Known(h)}
      g == forgetHash(f, due)
  IN
  /\ Select /\ fetchTimer
  /\ \A h \in due : f.announced[h] # <<>>
  /\ \E chosen \in [wanted -> Announcements] :
       /\ \A h \in wanted : \E i \in DOMAIN f.announced[h] :
            chosen[h] = f.announced[h][i]
       /\ f' = [g EXCEPT !.fetching =
                  [h \in Blocks |-> IF h \in wanted THEN chosen[h] ELSE @[h]]]
  \* rescheduleFetch
  /\ fetchTimer' = \E h \in Blocks : f'.announced[h] # <<>>
  /\ UNCHANGED <<completeTimer, imports, chain, notified>>

\* <-completeTimer.C: all bodies are asked for.
CompleteTimer ==
  LET due == {h \in Blocks : f.fetched[h] # None} IN
  /\ Select /\ completeTimer
  /\ f' = [forgetHash(f, due) EXCEPT !.completing =
             [h \in Blocks |-> IF h \in due /\ ~Known(h) THEN f.fetched[h]
                               ELSE @[h]]]
  \* rescheduleComplete
  /\ completeTimer' = FALSE
  /\ UNCHANGED <<fetchTimer, imports, chain, notified>>

\* The header of h was asked for from p.
HeaderWanted(p, h) ==
  /\ f.fetching[h] # None /\ f.fetching[h].peer = p
  /\ f.fetched[h] = None /\ f.completing[h] = None /\ f.queued[h] = None

(* <-f.headerFilter: p sends the header of h.                              *)

\* Not asked for: it is returned.
HeaderUnknown(p, h) ==
  /\ Select /\ ~HeaderWanted(p, h)
  /\ UNCHANGED <<f, fetchTimer, completeTimer, imports, chain, notified>>

\* The number is not the announced one, or the block has come otherwise.
HeaderRefused(p, h) ==
  LET announce == f.fetching[h] IN
  /\ Select /\ HeaderWanted(p, h)
  /\ ~announce.right \/ Known(h)
  /\ f' = forgetHash(f, {h})
  /\ UNCHANGED <<fetchTimer, completeTimer, imports, chain, notified>>

\* All that is needed is there.  The light fetcher has forgotten the block by
\* then; otherwise it is being completed.
HeaderComplete(p, h) ==
  LET announce == f.fetching[h]
      g == IF light THEN forgetHash(f, {h})
           ELSE [f EXCEPT !.completing[h] = announce.peer]
  IN
  /\ Select /\ HeaderWanted(p, h) /\ announce.right /\ ~Known(h)
  /\ light \/ h \in EmptyBlocks
  /\ \E fits \in Fitting(g, announce.peer, {h}) :
       f' = enqueue(g, announce.peer, {h}, fits)
  /\ UNCHANGED <<fetchTimer, completeTimer, imports, chain, notified>>

\* The body is to be fetched.
HeaderIncomplete(p, h) ==
  LET announce == f.fetching[h] IN
  /\ Select /\ HeaderWanted(p, h) /\ announce.right /\ ~Known(h)
  /\ ~light /\ h \notin EmptyBlocks
  /\ f' = [f EXCEPT !.fetched[h] = announce.peer]
  \* The timer runs if other headers wait.
  /\ completeTimer' = (completeTimer
       \/ Cardinality({k \in Blocks : f'.fetched[k] # None}) = 1)
  /\ UNCHANGED <<fetchTimer, imports, chain, notified>>

\* <-f.bodyFilter: p sends bodies of blocks B.
BodyFilter(p, B) ==
  LET matched == {h \in B : f.completing[h] = p /\ f.queued[h] = None}
      g == forgetHash(f, {h \in matched : Known(h)})
      blocks == {h \in matched : ~Known(h)}
  IN
  /\ Select
  /\ \E fits \in Fitting(g, p, blocks) : f' = enqueue(g, p, blocks, fits)
  /\ UNCHANGED <<fetchTimer, completeTimer, imports, chain, notified>>

-----------------------------------------------------------------------------
(* importBlocks and importHeaders.                                         *)

Becomes(i, stage) == imports' = (imports \ {i}) \cup {[i EXCEPT !.at = stage]}

\* The parent is looked up and the header verified.
Verify(i, valid) ==
  /\ i \in imports /\ i.at = "start"
  /\ IF Known(Parent[i.hash]) /\ valid
     THEN Becomes(i, "verified") ELSE Becomes(i, "done")
  /\ UNCHANGED <<light, at, f, fetchTimer, completeTimer, chain, notified>>

\* insertChain or insertHeaders, which may fail.
Insert(i, ok) ==
  /\ i \in imports /\ i.at = "verified"
  /\ chain' = IF ok THEN chain \cup {i.hash} ELSE chain
  /\ Becomes(i, "done")
  /\ UNCHANGED <<light, at, f, fetchTimer, completeTimer, notified>>

\* Another part of the system, such as the downloader, adds a block.
Advance(h) ==
  /\ ~Known(h) /\ Known(Parent[h])
  /\ chain' = chain \cup {h}
  /\ UNCHANGED <<light, at, f, fetchTimer, completeTimer, imports, notified>>

-----------------------------------------------------------------------------
Message ==
  \/ \E p \in Peers, h \in Blocks :
       \/ \E right \in BOOLEAN : Notify(p, h, right)
       \/ Inject(p, h)
       \/ HeaderUnknown(p, h) \/ HeaderRefused(p, h)
       \/ HeaderComplete(p, h) \/ HeaderIncomplete(p, h)
  \/ \E p \in Peers, B \in SUBSET Blocks : B # {} /\ BodyFilter(p, B)

Top == \E expired \in SUBSET {h \in Blocks : f.fetching[h] # None} :
         LoopTop(expired)

Fetch == \E due \in SUBSET {h \in Blocks : f.announced[h] # <<>>} :
           FetchTimer(due)

Import ==
  \E i \in imports : \/ Done(i)
                     \/ \E ok \in BOOLEAN : Verify(i, ok) \/ Insert(i, ok)

Next ==
  \/ Top \/ Stop \/ Message \/ Fetch \/ CompleteTimer \/ Import
  \/ \E h \in Blocks : Advance(h)

Spec == Init /\ [][Next]_vars

-----------------------------------------------------------------------------
Maps ==
  [announces  : [Peers -> 0 .. HashLimit],
   announced  : [Blocks -> Seq(Announcements)],
   fetching   : [Blocks -> Announcements \cup {None}],
   fetched    : [Blocks -> Peers \cup {None}],
   completing : [Blocks -> Peers \cup {None}],
   queue      : SUBSET Blocks,
   queues     : [Peers -> 0 .. BlockLimit],
   queued     : [Blocks -> Peers \cup {None}]]

Imports == [hash : Blocks, peer : Peers, at : {"start", "verified", "done"}]

TypeOK ==
  /\ light \in BOOLEAN /\ at \in {"top", "select", "ended"}
  /\ f \in Maps
  /\ fetchTimer \in BOOLEAN /\ completeTimer \in BOOLEAN
  /\ imports \subseteq Imports /\ chain \subseteq Blocks
  /\ notified \in 0 .. MaxNotify

\* A block is queued or imported by one goroutine, not both and not twice,
\* and queued has an entry as long as that is so.
ImportedOnce ==
  \A h \in Blocks :
    Cardinality({i \in imports : i.hash = h}) + Cardinality({h} \cap f.queue)
      = IF f.queued[h] = None THEN 0 ELSE 1

\* The allowance of a peer counts its blocks, so that it is neither exceeded
\* nor used up for ever.
QueuesCount ==
  \A p \in Peers :
    f.queues[p] = Cardinality({h \in Blocks : f.queued[h] = p})

\* A block is in one stage: it is asked for from one peer at a time, and an
\* announcement is not kept for a block that is on its way.
OneStage ==
  \A h \in Blocks :
    /\ f.announced[h] # <<>> =>
         f.fetching[h] = None /\ f.fetched[h] = None /\ f.completing[h] = None
    /\ f.fetched[h] # None =>
         /\ f.completing[h] = None
         /\ f.fetching[h] = [peer |-> f.fetched[h], right |-> TRUE]

\* The count of a peer's announcements never exceeds the ones that are still
\* there: blocks that are forgotten do not shut a peer out.
NotShutOut ==
  \A p \in Peers :
    f.announces[p] <= Cardinality(AnnouncedBy(f, p, Blocks))

\* As long as blocks wait for a timer, it is set.
TimersSet ==
  /\ (\E h \in Blocks : f.announced[h] # <<>>) => fetchTimer
  /\ (\E h \in Blocks : f.fetched[h] # None) => completeTimer

\* Together: a block is in one stage, the allowances of a peer do not leak, and
\* what waits for a timer has one.
StagesInv == TypeOK /\ OneStage /\ QueuesCount /\ NotShutOut /\ TimersSet
=============================================================================
