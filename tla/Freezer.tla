------------------------------- MODULE Freezer -------------------------------
(***************************************************************************)
(* The chain freezer (core/rawdb/freezer.go, freezer_table.go) and the     *)
(* key-value store it takes old blocks from: freeze moves blocks in        *)
(* batches, append - sync - wipe; a crash may come between any two file    *)
(* operations; opening repairs every table, then all of them together, and *)
(* compares the result with the key-value store (core/rawdb/database.go).  *)
(*                                                                         *)
(* Abstractions.                                                           *)
(*  - Every item has size 1, so that offsets count items and maxFileSize   *)
(*    is a number of items; the zero entry of an index is left out.        *)
(*  - A block is its number and its version: blocks imported after a       *)
(*    rewind have a new version.                                           *)
(*  - At most one side chain, as the set of its block numbers.             *)
(*  - A failed write leaves nothing in the file, so that headBytes is the  *)
(*    length of the head file.  A truncation is durable at once; so is a   *)
(*    batch of the key-value store.                                        *)
(*  - SetHead goes back one block at a time, while freeze sleeps, and not  *)
(*    to the genesis block (which would make the database an empty one).   *)
(***************************************************************************)
EXTENDS Integers, Sequences, FiniteSets, FiniteSetsExt

CONSTANTS
  NTables,      \* tables are 1..NTables, in the order AppendAncient writes
  MaxBlock,     \* highest block number
  Threshold,    \* blocks below the head that stay in the key-value store
  BatchLimit,   \* freezerBatchLimit
  MaxRewinds,   \* bound on calls of SetHead
  Environments, \* [fileItems, events, limit]: maxFileSize, what may happen,
                \* and a bound on crashes and failed writes
  None          \* no block

ASSUME FreezerAssumption ==
  /\ NTables \in Nat \ {0} /\ MaxBlock \in Nat \ {0}
  /\ Threshold \in Nat /\ BatchLimit \in Nat \ {0}
  /\ MaxRewinds \in Nat
  /\ \A e \in Environments :
       /\ e.fileItems \in Nat \ {0} /\ e.limit \in Nat
       /\ e.events \subseteq {"side", "reader", "power", "rewind", "copy"}
  /\ None \notin Nat

\* The environments that the freezer withstands: nobody kills it in the middle of
\* a rewind; closed files are never synced, so that a power failure finds one
\* file only; and a copy is put back after the first crash, as blocks that a
\* crash left in the key-value store hide the gap behind the copy.
Tolerated(e) ==
  /\ "rewind" \notin e.events
  /\ "power" \in e.events => e.fileItems > MaxBlock
  /\ "copy" \in e.events => e.limit <= 1

Tables == 1 .. NTables
Numbers == 0 .. MaxBlock
Files == 0 .. MaxBlock + 1
Versions == 0 .. MaxRewinds

VARIABLES
  env,                  \* the environment of this behaviour
  index,                \* table -> its index file, entries [file, offset]
  data,                 \* table -> data file -> its items
  indexSynced,          \* table -> entries of the index that are durable
  dataSynced,           \* table -> data file -> items that are durable
  headId,               \* table -> number of its head file
  items,                \* table -> number of its items
  frozen,               \* blocks in the freezer
  kv,                   \* number -> canonical block in the key-value store
  side, root,           \* numbers of the side blocks in it; the canonical
                        \* block that they branch off
  head,                 \* the head marker, written before data is deleted
  chain,                \* number -> version of the canonical block
  version,              \* version of the next block
  pc,                   \* what the freezer does
  at, written,          \* AppendAncient: the table, and if its data is written
  first, limit,         \* the batch
  todo, cut, target,    \* tables still to sync or truncate; the one whose
                        \* index is truncated and its data is not; to what
  after,                \* what follows a truncation
  reader,               \* a reader of the chain
  faults                \* faults so far

disk == <<index, data, indexSynced, dataSynced>>
memory == <<headId, items>>
store == <<kv, side, root>>
markers == <<head, chain, version>>
batch == <<first, limit>>
truncation == <<todo, cut, target, after>>
vars == <<env, disk, memory, frozen, store, markers, pc, at, written, batch,
          truncation, reader, faults>>

Idle == [stage |-> "none", number |-> 0, table |-> 1]

\* The k-th entry of an index; the zero entry that a new index starts with.
Entry(t, k) == IF k = 0 THEN [file |-> 0, offset |-> 0] ELSE index[t][k]

\* getBounds and Retrieve: the item in the file and at the offset that its
\* entry and the one before it say.
Retrieve(t, n) ==
  LET end == Entry(t, n + 1)
      start == IF n # 0 /\ Entry(t, n).file = end.file
               THEN Entry(t, n).offset ELSE 0
      file == data[t][end.file]
  IN IF end.offset <= Len(file) THEN SubSeq(file, start + 1, end.offset)
     ELSE <<>>

\* The database is open for the rest of the program.
Running ==
  /\ pc \notin {"down", "validate"}
  /\ pc = "truncate" => after # "validate"

Init ==
  /\ env \in Environments
  /\ index = [t \in Tables |-> <<>>]
  /\ data = [t \in Tables |-> [f \in Files |-> <<>>]]
  /\ indexSynced = [t \in Tables |-> 0]
  /\ dataSynced = [t \in Tables |-> [f \in Files |-> 0]]
  /\ headId = [t \in Tables |-> 0] /\ items = [t \in Tables |-> 0]
  /\ frozen = 0
  /\ kv = [n \in Numbers |-> IF n = 0 THEN 0 ELSE None]
  /\ side = {} /\ root = 0
  /\ head = 0 /\ chain = kv /\ version = 0
  /\ pc = "idle" /\ at = 1 /\ written = FALSE
  /\ first = 0 /\ limit = 0
  /\ todo = {} /\ cut = 0 /\ target = 0 /\ after = "idle"
  /\ reader = Idle /\ faults = 0

-----------------------------------------------------------------------------
(* The chain: imports, side blocks, SetHead.                               *)

\* SetHead holds chainmu for its truncation.
Importing == Running /\ ~(pc = "truncate" /\ after = "rewind")

\* A block on top of the chain.
Import ==
  /\ Importing /\ head < MaxBlock
  /\ head' = head + 1
  /\ kv' = [kv EXCEPT ![head + 1] = version]
  /\ chain' = [chain EXCEPT ![head + 1] = version]
  /\ UNCHANGED <<env, disk, memory, frozen, side, root, version, pc, at, written,
                 batch, truncation, reader, faults>>

\* A side block: the first one on a canonical parent, or the next one.
ImportSide(n) ==
  /\ Importing /\ "side" \in env.events /\ n \in 1 .. head /\ n >= frozen
  /\ side # {} => n = Max(side) + 1
  /\ side' = side \cup {n}
  /\ root' = IF side = {} THEN n - 1 ELSE root
  /\ UNCHANGED <<env, disk, memory, frozen, kv, markers, pc, at, written,
                 batch, truncation, reader, faults>>

\* HeaderChain.SetHead, one block: the head marker first, then delFn: a
\* frozen block is truncated from the freezer, any other one deleted.
Rewind ==
  /\ pc = "idle" /\ head > 1
  /\ head' = head - 1
  /\ version' = IF chain[head] = version THEN version + 1 ELSE version
  /\ version' <= MaxRewinds
  /\ side' = {n \in side : n < head}
  /\ reader' = IF reader.number = head THEN Idle ELSE reader
  /\ IF head + 1 <= frozen
     THEN /\ pc' = "truncate" /\ todo' = Tables
          /\ target' = head /\ after' = "rewind"
          /\ UNCHANGED kv
     ELSE /\ kv' = [kv EXCEPT ![head] = None]
          /\ UNCHANGED <<pc, todo, target, after>>
  /\ UNCHANGED <<env, disk, memory, frozen, root, chain, at, written, batch,
                 cut, faults>>

-----------------------------------------------------------------------------
(* freeze and AppendAncient.                                               *)

\* Mutant of StartBatch: the first block of a batch is not counted.
StartBatchLate ==
  /\ pc = "idle"
  /\ head >= Threshold /\ head - Threshold > frozen + 1 /\ kv[head] # None
  /\ first' = frozen
  /\ limit' = Min({head - Threshold, frozen + BatchLimit})
  /\ pc' = "append" /\ at' = 1 /\ written' = FALSE
  /\ UNCHANGED <<env, disk, memory, frozen, store, markers, truncation,
                 reader, faults>>

\* freeze finds blocks that are old enough; the batch is limited.
StartBatch ==
  /\ pc = "idle"
  /\ head >= Threshold /\ head - Threshold > frozen /\ kv[head] # None
  /\ first' = frozen
  /\ limit' = Min({head - Threshold, frozen + BatchLimit})
  /\ pc' = "append" /\ at' = 1 /\ written' = FALSE
  /\ UNCHANGED <<env, disk, memory, frozen, store, markers, truncation,
                 reader, faults>>

\* The file that the next item of a table goes to.
NextFile(t) ==
  IF Len(data[t][headId[t]]) + 1 > env.fileItems THEN headId[t] + 1
  ELSE headId[t]

\* Mutant of AppendData: the next file is opened as it is.
AppendDataStale ==
  LET f == NextFile(at) IN
  /\ pc = "append" /\ frozen <= limit /\ kv[frozen] # None
  /\ ~written /\ items[at] = frozen
  /\ data' = [data EXCEPT ![at][f] = Append(@, kv[frozen])]
  /\ headId' = [headId EXCEPT ![at] = f]
  /\ written' = TRUE
  /\ UNCHANGED <<env, index, indexSynced, dataSynced, items, frozen, store,
                 markers, pc, at, batch, truncation, reader, faults>>

\* Append writes the item, into a new file when the head file is full; the
\* new file is opened truncated and the old one closed without a sync.
AppendData ==
  LET f == NextFile(at)
      old == IF f = headId[at] THEN data[at][f] ELSE <<>>
  IN
  /\ pc = "append" /\ frozen <= limit /\ kv[frozen] # None
  /\ ~written /\ items[at] = frozen
  /\ data' = [data EXCEPT ![at][f] = Append(old, kv[frozen])]
  /\ dataSynced' = [dataSynced EXCEPT ![at][f] = Min({@, Len(old)})]
  /\ headId' = [headId EXCEPT ![at] = f]
  /\ written' = TRUE
  /\ UNCHANGED <<env, index, indexSynced, items, frozen, store, markers, pc,
                 at, batch, truncation, reader, faults>>

\* Append writes the index entry; the last table ends AppendAncient.
AppendIndex ==
  LET entry == [file |-> headId[at], offset |-> Len(data[at][headId[at]])]
  IN
  /\ pc = "append" /\ written
  /\ index' = [index EXCEPT ![at] = Append(@, entry)]
  /\ items' = [items EXCEPT ![at] = @ + 1]
  /\ written' = FALSE
  /\ at' = IF at = NTables THEN 1 ELSE at + 1
  /\ frozen' = IF at = NTables THEN frozen + 1 ELSE frozen
  /\ UNCHANGED <<env, data, indexSynced, dataSynced, headId, store, markers,
                 pc, batch, truncation, reader, faults>>

\* A failed append makes AppendAncient repair the tables and ends the batch.
AppendFails ==
  /\ pc = "append" /\ frozen <= limit /\ ~written
  /\ items[at] # frozen \/ faults < env.limit
  /\ faults' = IF items[at] # frozen THEN faults ELSE faults + 1
  /\ pc' = "truncate" /\ after' = "sync"
  /\ todo' = Tables /\ target' = Min({items[t] : t \in Tables})
  /\ UNCHANGED <<env, disk, memory, frozen, store, markers, at, written,
                 batch, cut, reader>>

\* Mutant of EndBatch: the tables are not synced.
EndBatchUnsynced ==
  /\ pc = "append" /\ at = 1 /\ ~written
  /\ frozen > limit \/ kv[frozen] = None
  /\ pc' = "sync" /\ todo' = {}
  /\ UNCHANGED <<env, disk, memory, frozen, store, markers, at, written,
                 batch, cut, target, after, reader, faults>>

\* The batch is complete, or a block is missing in the key-value store.
EndBatch ==
  /\ pc = "append" /\ at = 1 /\ ~written
  /\ frozen > limit \/ kv[frozen] = None
  /\ pc' = "sync" /\ todo' = Tables
  /\ UNCHANGED <<env, disk, memory, frozen, store, markers, at, written,
                 batch, cut, target, after, reader, faults>>

\* Sync of one table: its index and its head file.
SyncTable(t) ==
  /\ pc = "sync" /\ t \in todo
  /\ indexSynced' = [indexSynced EXCEPT ![t] = Len(index[t])]
  /\ dataSynced' = [dataSynced EXCEPT
                      ![t][headId[t]] = Len(data[t][headId[t]])]
  /\ todo' = todo \ {t}
  /\ UNCHANGED <<env, index, data, memory, frozen, store, markers, pc, at,
                 written, batch, cut, target, after, reader, faults>>

\* The batch that deletes the frozen blocks, except for the genesis block.
Wipe ==
  /\ pc = "sync" /\ todo = {}
  /\ kv' = [n \in Numbers |->
              IF n # 0 /\ n \in first .. frozen - 1 THEN None ELSE kv[n]]
  /\ pc' = "wipeside"
  /\ UNCHANGED <<env, disk, memory, frozen, side, root, markers, at,
                 written, batch, truncation, reader, faults>>

\* The side blocks of those numbers, and all that descends from the last one.
WipeSide ==
  /\ pc = "wipeside"
  /\ side' = IF frozen - 1 \in side /\ frozen - 1 >= first
             THEN {n \in side : n < first}
             ELSE side \ (first .. frozen - 1)
  /\ pc' = "idle" /\ at' = 1 /\ first' = 0 /\ limit' = 0
  /\ UNCHANGED <<env, disk, memory, frozen, kv, root, markers, written,
                 truncation, reader, faults>>

-----------------------------------------------------------------------------
(* Truncation: TruncateAncients and repair.                                *)

\* truncate: a table that is short enough stays as it is; else its index is
\* cut ...
TruncateIndex(t) ==
  /\ pc = "truncate" /\ t \in todo /\ cut = 0
  /\ todo' = todo \ {t}
  /\ IF items[t] <= target THEN UNCHANGED <<cut, index, indexSynced>>
     ELSE /\ cut' = t
          /\ index' = [index EXCEPT ![t] = SubSeq(@, 1, target)]
          /\ indexSynced' = [indexSynced EXCEPT ![t] = Min({@, target})]
  /\ UNCHANGED <<env, data, dataSynced, memory, frozen, store, markers, pc,
                 at, written, batch, target, after, reader, faults>>

\* ... and then its data, going back to the file of the last entry and
\* removing the open files after it.
TruncateData ==
  LET last == Entry(cut, target)
      gone(f) == f > last.file /\ f <= headId[cut]
      size(f, n) == IF gone(f) THEN 0
                    ELSE IF f = last.file THEN Min({n, last.offset}) ELSE n
  IN
  /\ pc = "truncate" /\ cut # 0
  /\ data' = [data EXCEPT ![cut] =
                [f \in Files |-> SubSeq(@[f], 1, size(f, Len(@[f])))]]
  /\ dataSynced' = [dataSynced EXCEPT ![cut] =
                      [f \in Files |-> size(f, @[f])]]
  /\ headId' = [headId EXCEPT ![cut] = last.file]
  /\ items' = [items EXCEPT ![cut] = target]
  /\ cut' = 0
  /\ UNCHANGED <<env, index, indexSynced, frozen, store, markers, pc, at,
                 written, batch, todo, target, after, reader, faults>>

\* All tables have the same length.  A rewind then deletes its block; after
\* a failed append freeze goes on with the blocks that it has.
TruncateDone ==
  /\ pc = "truncate" /\ todo = {} /\ cut = 0
  /\ frozen' = target
  /\ pc' = IF after = "rewind" THEN "idle" ELSE after
  /\ todo' = IF after = "sync" THEN Tables ELSE {}
  /\ kv' = IF after = "rewind" THEN [kv EXCEPT ![target] = None] ELSE kv
  /\ target' = 0 /\ after' = "idle"
  /\ UNCHANGED <<env, disk, memory, side, root, markers, at, written, batch,
                 cut, reader, faults>>

-----------------------------------------------------------------------------
(* Crashes, and opening the database.                                      *)

\* The process is killed.  A crash between the marker and the truncation of
\* a rewind is a fault of its own.
Crash ==
  /\ pc # "down" /\ faults < env.limit
  /\ ~Importing /\ Running => "rewind" \in env.events
  /\ faults' = faults + 1
  /\ headId' = [t \in Tables |-> 0] /\ items' = [t \in Tables |-> 0]
  /\ frozen' = 0
  /\ pc' = "down" /\ at' = 1 /\ written' = FALSE
  /\ first' = 0 /\ limit' = 0
  /\ todo' = {} /\ cut' = 0 /\ target' = 0 /\ after' = "idle"
  /\ reader' = Idle
  /\ UNCHANGED <<env, disk, store, markers>>

\* A power failure also takes what was not synced, from the end of a file.
LoseIndex(t) ==
  /\ pc = "down" /\ "power" \in env.events
  /\ Len(index[t]) > indexSynced[t]
  /\ index' = [index EXCEPT ![t] = SubSeq(@, 1, Len(@) - 1)]
  /\ UNCHANGED <<env, data, indexSynced, dataSynced, memory, frozen, store,
                 markers, pc, at, written, batch, truncation, reader, faults>>

LoseData(t, f) ==
  /\ pc = "down" /\ "power" \in env.events
  /\ Len(data[t][f]) > dataSynced[t][f]
  /\ data' = [data EXCEPT ![t][f] = SubSeq(@, 1, Len(@) - 1)]
  /\ UNCHANGED <<env, index, indexSynced, dataSynced, memory, frozen, store,
                 markers, pc, at, written, batch, truncation, reader, faults>>

\* The operator puts back an older copy of the ancient directory, with n
\* blocks.
RestoreCopy(n) ==
  /\ pc = "down" /\ "copy" \in env.events
  /\ \A t \in Tables : n < Len(index[t])
  /\ index' = [t \in Tables |-> SubSeq(index[t], 1, n)]
  /\ indexSynced' = [t \in Tables |-> n]
  /\ UNCHANGED <<env, data, dataSynced, memory, frozen, store, markers, pc,
                 at, written, batch, truncation, reader, faults>>

\* The last index entry that points into a file that is long enough.
Consistent(t) ==
  Max({k \in 0 .. Len(index[t]) :
         Entry(t, k).offset <= Len(data[t][Entry(t, k).file])})

\* newFreezer opens all tables: repair cuts each index back to an entry that
\* its file covers, and that file to the entry, and syncs both; then
\* freezer.repair begins.
Open ==
  LET k(t) == Consistent(t)
      last(t) == Entry(t, k(t))
  IN
  /\ pc = "down"
  /\ index' = [t \in Tables |-> SubSeq(index[t], 1, k(t))]
  /\ indexSynced' = [t \in Tables |-> k(t)]
  /\ data' = [t \in Tables |-> [data[t] EXCEPT
                ![last(t).file] = SubSeq(@, 1, last(t).offset)]]
  /\ dataSynced' = [t \in Tables |-> [dataSynced[t] EXCEPT
                      ![last(t).file] = last(t).offset]]
  /\ headId' = [t \in Tables |-> last(t).file]
  /\ items' = [t \in Tables |-> k(t)]
  /\ pc' = "truncate" /\ after' = "validate"
  /\ todo' = Tables /\ target' = Min({k(t) : t \in Tables})
  /\ UNCHANGED <<env, frozen, store, markers, at, written, batch, cut, reader,
                 faults>>

\* validateFreezerVsKV: the block after the frozen ones is missing.
Gap ==
  /\ frozen > 0 /\ head > frozen - 1
  /\ kv[frozen] = None

\* NewDatabaseWithFreezer closes a gap with truncateKVtoFreezer.  (The rewind
\* to the head that NewBlockChain then asks for when the freezer is ahead of
\* the head finds no header above the head and leaves the freezer as it is.)
Validate ==
  /\ pc = "validate"
  /\ pc' = "idle"
  /\ IF Gap
     THEN /\ head' = frozen - 1
          /\ kv' = [n \in Numbers |->
                      IF n >= frozen /\ n # 0 THEN None ELSE kv[n]]
          /\ side' = {n \in side : n < frozen}
     ELSE UNCHANGED <<head, kv, side>>
  /\ UNCHANGED <<env, disk, memory, frozen, root, chain, version, at, written,
                 batch, truncation, reader, faults>>

-----------------------------------------------------------------------------
(* A reader of the chain: ReadCanonicalHash, ReadHeaderRLP and the like    *)
(* look into the freezer, then into the key-value store, and once more     *)
(* into the freezer, as the block may be moved in between.  A reader that  *)
(* finds its block ends; its steps are those that do not.  Retrieve waits  *)
(* for the lock that truncate holds.                                       *)

readerVars == <<env, disk, memory, frozen, store, markers, pc, at, written,
                batch, truncation, faults>>

MissAncient(n, t) ==
  /\ Running /\ "reader" \in env.events
  /\ reader = Idle /\ n <= head /\ items[t] <= n /\ cut # t
  /\ reader' = [stage |-> "kv", number |-> n, table |-> t]
  /\ UNCHANGED readerVars

\* Mutant of LookKv: the freezer is not looked at again.
LookKvLast ==
  /\ Running /\ reader.stage = "kv"
  /\ reader' = IF kv[reader.number] # None THEN Idle
               ELSE [reader EXCEPT !.stage = "missed"]
  /\ UNCHANGED readerVars

LookKv ==
  /\ Running /\ reader.stage = "kv"
  /\ reader' = IF kv[reader.number] # None THEN Idle
               ELSE [reader EXCEPT !.stage = "again"]
  /\ UNCHANGED readerVars

LookAgain ==
  /\ Running /\ reader.stage = "again" /\ cut # reader.table
  /\ reader' = IF items[reader.table] > reader.number THEN Idle
               ELSE [reader EXCEPT !.stage = "missed"]
  /\ UNCHANGED readerVars

-----------------------------------------------------------------------------
FreezeSteps ==
  \/ StartBatch \/ AppendData \/ AppendIndex \/ AppendFails \/ EndBatch
  \/ (\E t \in Tables : SyncTable(t))
  \/ Wipe \/ WipeSide
  \/ (\E t \in Tables : TruncateIndex(t)) \/ TruncateData \/ TruncateDone

OpenSteps == Open \/ Validate

Next ==
  \/ Import \/ (\E n \in Numbers : ImportSide(n)) \/ Rewind
  \/ FreezeSteps \/ OpenSteps
  \/ Crash
  \/ (\E t \in Tables : LoseIndex(t))
  \/ (\E t \in Tables, f \in Files : LoseData(t, f))
  \/ (\E n \in Numbers \ {0} : RestoreCopy(n))
  \/ (\E n \in Numbers, t \in Tables : MissAncient(n, t))
  \/ LookKv \/ LookAgain

Spec == Init /\ [][Next]_vars

\* freeze is a goroutine that never blocks; the node is started again after
\* a crash.
FairSpec == Spec /\ WF_vars(FreezeSteps) /\ WF_vars(OpenSteps)

-----------------------------------------------------------------------------
TypeOK ==
  /\ env \in Environments
  /\ \A t \in Tables :
       /\ index[t] \in Seq([file : Files, offset : Nat])
       /\ \A f \in Files :
            /\ data[t][f] \in Seq(Versions)
            /\ dataSynced[t][f] \in 0 .. Len(data[t][f])
       /\ indexSynced[t] \in 0 .. Len(index[t])
  /\ headId \in [Tables -> Files] /\ items \in [Tables -> Nat]
  /\ frozen \in Nat
  /\ kv \in [Numbers -> Versions \cup {None}]
  /\ side \subseteq Numbers /\ root \in Numbers
  /\ head \in Numbers /\ chain \in [Numbers -> Versions \cup {None}]
  /\ version \in Versions /\ faults \in 0 .. env.limit
  /\ pc \in {"idle", "append", "sync", "wipe", "wipeside", "truncate", "down",
             "validate"}
  /\ at \in Tables /\ written \in BOOLEAN
  /\ first \in Nat /\ limit \in Nat /\ target \in Nat
  /\ todo \subseteq Tables /\ cut \in Tables \cup {0}
  /\ after \in {"idle", "sync", "rewind", "validate"}
  /\ reader \in [stage : {"none", "kv", "again", "missed"},
                 number : Numbers, table : Tables]

\* While the database is open, every block of the canonical chain can be read
\* from every table (once truncate lets go of it): a table that claims the
\* number has this very block, and otherwise the key-value store has it.  So a
\* batch that is cut short by a crash or a failed write, a stale file or a
\* stale entry never shows.
ChainReadable ==
  Running => \A n \in 0 .. head, t \in Tables \ {cut} :
    IF items[t] > n THEN Retrieve(t, n) = <<chain[n]>> ELSE kv[n] = chain[n]

\* A reader that misses in the freezer and in the key-value store finds the
\* block on its second look into the freezer, however the move goes on.
ReaderFinds == reader.stage # "missed"

\* When the node comes up, the freezer has all that was wiped from the
\* key-value store: no gap, unless somebody replaced the freezer.
NoGap == pc = "validate" /\ "copy" \notin env.events => ~Gap

\* When freeze sleeps and nothing failed, the side blocks that are left
\* branch off a block at or above the last frozen one.
NoDangling ==
  pc = "idle" /\ faults = 0 /\ side # {} =>
    root >= frozen - 1 /\ Min(side) = root + 1

\* Together: what is wiped from the key-value store is what the freezer has, or
\* what no longer belongs to a chain.
FreezerInv == TypeOK /\ NoGap /\ NoDangling

\* Blocks that are old enough are frozen in the end, also after a failed
\* append or a crash: a repair leaves tables that take the next block.
FreezeEnds ==
  [](head = MaxBlock => <>(frozen >= MaxBlock - Threshold \/ head < MaxBlock))
=============================================================================
