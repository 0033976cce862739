---------------------------- MODULE FreezerProofs ----------------------------
(***************************************************************************)
(* For any number of tables, blocks, file and batch sizes, and any         *)
(* environments that the freezer withstands (Tolerated): while the         *)
(* database is open the canonical chain can be read from every table,      *)
(* readers find their blocks, and nothing is lost between the two stores.  *)
(*                                                                         *)
(* Positions in an index are compared in pairs (Ordered), so that what a   *)
(* file operation does to one table follows without induction.  A table on *)
(* disk is right as far as its files reach (DiskInv), the memory agrees    *)
(* with the disk but for the operation under way (MemoryInv, PhaseInv),    *)
(* and what was wiped is in every table, durably where the power may fail  *)
(* (BackedInv).                                                            *)
(***************************************************************************)
EXTENDS Freezer, TLAPS, SequenceTheorems, WellFoundedInduction

Power == "power" \in env.events
Copy == "copy" \in env.events

Entries == [file : Files, offset : Nat]

\* Position k of index ix: its k-th entry, or its beginning.
Pos(ix, k) == IF k = 0 THEN [file |-> 0, offset |-> 0] ELSE ix[k]

\* Positions grow by one item, in the same file or in the next one.
Ordered(ix) ==
  \A j, k \in 0 .. Len(ix) : j < k =>
    /\ Pos(ix, j).file <= Pos(ix, k).file
    /\ Pos(ix, k).file <= Pos(ix, j).file + (k - j)
    /\ Pos(ix, k).offset > 0
    /\ Pos(ix, j).file = Pos(ix, k).file => Pos(ix, k).offset = Pos(ix, j).offset + (k - j)
    /\ Pos(ix, j).file # Pos(ix, k).file => Pos(ix, k).offset <= k - j

\* The files d reach to position k.
Covered(ix, d, k) == Pos(ix, k).offset <= Len(d[Pos(ix, k).file])

\* As far as they reach, the files have the blocks of chain c.
Right(ix, d, c) ==
  \A k \in 1 .. Len(ix) :
    Covered(ix, d, k) => d[Pos(ix, k).file][Pos(ix, k).offset] = c[k - 1]

-----------------------------------------------------------------------------
(***************************************************************************)
(* Numbers and sequences                                                   *)
(***************************************************************************)
\* The smaller of two numbers.
LEMMA MinTwo ==
  ASSUME NEW a \in Int, NEW b \in Int
  PROVE  Min({a, b}) = IF a <= b THEN a ELSE b
<1>1. \E x \in {a, b} : \A y \in {a, b} : x <= y
  OBVIOUS
<1>2. Min({a, b}) \in {a, b} /\ \A y \in {a, b} : Min({a, b}) <= y
  BY <1>1 DEF Min
<1> QED BY <1>2

\* A set of naturals has a least element, and a greatest one when it has a bound.
LEMMA MinNat ==
  ASSUME NEW S, S \subseteq Nat, S # {}
  PROVE  Min(S) \in S /\ \A y \in S : Min(S) <= y
<1>1. \E x \in S : \A y \in S : ~(<<y, x>> \in OpToRel(<, Nat))
  BY NatLessThanWellFounded, WFMin
<1>2. \E x \in S : \A y \in S : ~(y < x)
  BY <1>1 DEF OpToRel
<1>3. \E x \in S : \A y \in S : x <= y
  BY <1>2
<1> QED BY <1>3 DEF Min

LEMMA MaxNat ==
  ASSUME NEW n \in Nat, NEW S, S \subseteq 0 .. n, S # {}
  PROVE  Max(S) \in S /\ \A y \in S : Max(S) >= y
<1> DEFINE T == {n - x : x \in S}
<1>1. T \subseteq Nat /\ T # {}
  <2>1. \A x \in S : n - x \in Nat
    OBVIOUS
  <2>2. PICK x : x \in S
    OBVIOUS
  <2>3. n - x \in T
    BY <2>2
  <2> QED BY <2>1, <2>3
<1>2. Min(T) \in T /\ \A y \in T : Min(T) <= y
  <2> HIDE DEF T
  <2> QED BY <1>1, MinNat
<1>3. PICK x \in S : Min(T) = n - x
  BY <1>2
<1>4. ASSUME NEW y \in S PROVE x >= y
  <2>1. n - x <= n - y
    BY <1>2, <1>3
  <2>2. x \in Int /\ y \in Int
    OBVIOUS
  <2> HIDE DEF T
  <2> QED BY <2>1, <2>2
<1>5. \E z \in S : \A y \in S : z >= y
  BY <1>4
<1> QED BY <1>5 DEF Max

\* The beginning of a sequence.
LEMMA Prefix ==
  ASSUME NEW S, NEW s \in Seq(S), NEW n \in 0 .. Len(s)
  PROVE  /\ SubSeq(s, 1, n) \in Seq(S) /\ Len(SubSeq(s, 1, n)) = n
         /\ \A i \in 1 .. n : SubSeq(s, 1, n)[i] = s[i]
<1>1. n \in Int /\ 1 \in Int /\ \A i \in 1 .. n : s[i] \in S
  OBVIOUS
<1> QED BY <1>1, SubSeqProperties

\* A sequence with one more element.
LEMMA OneMore ==
  ASSUME NEW S, NEW s \in Seq(S), NEW e \in S
  PROVE  /\ Append(s, e) \in Seq(S) /\ Len(Append(s, e)) = Len(s) + 1
         /\ \A i \in 1 .. Len(s) : Append(s, e)[i] = s[i]
         /\ Append(s, e)[Len(s) + 1] = e
OBVIOUS

\* One element of a sequence.
LEMMA Single ==
  ASSUME NEW S, NEW s \in Seq(S), NEW i \in 1 .. Len(s)
  PROVE  SubSeq(s, i, i) = <<s[i]>>
<1> DEFINE u == SubSeq(s, i, i)
           v == <<s[i]>>
<1>1. i \in Int /\ \A k \in i .. i : s[k] \in S
  OBVIOUS
<1>2. /\ u \in Seq(S) /\ Len(u) = i - i + 1
      /\ \A k \in 1 .. i - i + 1 : u[k] = s[i + k - 1]
  BY <1>1, SubSeqProperties
<1>3. v \in Seq(S) /\ Len(v) = 1 /\ v[1] = s[i]
  BY <1>1
<1> HIDE DEF u, v
<1>4. Len(u) = 1 /\ u[1] = s[i]
  BY <1>1, <1>2
<1>5. \A k \in 1 .. 1 : k = 1
  OBVIOUS
<1>6. u = v
  BY <1>2, <1>3, <1>4, <1>5, SeqEqual
<1> QED BY <1>6 DEF u, v

\* The bounds are numbers.
LEMMA Bounds ==
  /\ NTables \in Nat /\ NTables > 0 /\ MaxBlock \in Nat /\ MaxBlock > 0
  /\ Threshold \in Nat /\ BatchLimit \in Nat /\ BatchLimit > 0 /\ MaxRewinds \in Nat
  /\ None \notin Versions /\ 1 \in Tables /\ 0 \notin Tables /\ 0 \in Files
BY FreezerAssumption DEF Versions, Tables, Files

-----------------------------------------------------------------------------
(***************************************************************************)
(* The files of one table                                                  *)
(***************************************************************************)
\* The numbers of a position.
LEMMA PosNumbers ==
  ASSUME NEW ix \in Seq(Entries), NEW k \in 0 .. Len(ix)
  PROVE  /\ Pos(ix, k) \in Entries
         /\ Pos(ix, k).file \in Files /\ Pos(ix, k).file \in Nat /\ Pos(ix, k).offset \in Nat
<1>1. 0 \in Files /\ Files \subseteq Nat
  BY Bounds DEF Files
<1>2. CASE k = 0
  BY <1>1, <1>2 DEF Pos, Entries
<1>3. CASE k # 0
  <2>1. ix[k] \in Entries
    BY <1>3
  <2> QED BY <1>1, <1>3, <2>1 DEF Pos, Entries
<1> QED BY <1>2, <1>3

\* An index that is cut keeps its positions.
LEMMA PosCut ==
  ASSUME NEW ix \in Seq(Entries), NEW n \in 0 .. Len(ix)
  PROVE  LET short == SubSeq(ix, 1, n) IN
         /\ short \in Seq(Entries) /\ Len(short) = n
         /\ \A k \in 0 .. n : Pos(short, k) = Pos(ix, k)
BY Prefix DEF Pos

\* And so does one with a new entry.
LEMMA PosAppend ==
  ASSUME NEW ix \in Seq(Entries), NEW e \in Entries
  PROVE  LET long == Append(ix, e) IN
         /\ long \in Seq(Entries) /\ Len(long) = Len(ix) + 1
         /\ \A k \in 0 .. Len(ix) : Pos(long, k) = Pos(ix, k)
         /\ Pos(long, Len(ix) + 1) = e
<1>1. Len(ix) \in Nat
  OBVIOUS
<1> QED BY <1>1, OneMore DEF Pos

\* Indexes with the same positions are alike.
LEMMA OrderedCut ==
  ASSUME NEW ix \in Seq(Entries), NEW jx \in Seq(Entries), Ordered(ix), Len(jx) <= Len(ix),
         \A k \in 0 .. Len(jx) : Pos(jx, k) = Pos(ix, k)
  PROVE  Ordered(jx)
<1>1. \A k \in 0 .. Len(jx) : k \in 0 .. Len(ix)
  OBVIOUS
<1> QED BY <1>1 DEF Ordered

\* A new entry is the next item, in the file of the last one or in the next.
LEMMA OrderedAppend ==
  ASSUME NEW ix \in Seq(Entries), NEW e \in Entries, Ordered(ix),
         LET last == Pos(ix, Len(ix)) IN
         \/ e.file = last.file /\ e.offset = last.offset + 1
         \/ e.file = last.file + 1 /\ e.offset = 1
  PROVE  Ordered(Append(ix, e))
<1> DEFINE n == Len(ix)
           long == Append(ix, e)
<1>1. n \in Nat
  OBVIOUS
<1>2. /\ Len(long) = n + 1 /\ Pos(long, n + 1) = e
      /\ \A k \in 0 .. n : Pos(long, k) = Pos(ix, k)
  BY PosAppend
<1>3. \A k \in 0 .. n : Pos(ix, k).file \in Nat /\ Pos(ix, k).offset \in Nat
  BY PosNumbers
<1> SUFFICES ASSUME NEW j \in 0 .. n + 1, NEW k \in 0 .. n + 1, j < k
             PROVE  /\ Pos(long, j).file <= Pos(long, k).file
                    /\ Pos(long, k).file <= Pos(long, j).file + (k - j)
                    /\ Pos(long, k).offset > 0
                    /\ Pos(long, j).file = Pos(long, k).file =>
                         Pos(long, k).offset = Pos(long, j).offset + (k - j)
                    /\ Pos(long, j).file # Pos(long, k).file => Pos(long, k).offset <= k - j
  BY <1>2 DEF Ordered
<1>4. CASE k <= n
  <2>1. j \in 0 .. n /\ k \in 0 .. n
    BY <1>1, <1>4
  <2> QED BY <1>2, <2>1 DEF Ordered
<1>5. CASE k = n + 1
  <2>1. j \in 0 .. n /\ n \in 0 .. n
    BY <1>1, <1>5
  <2> DEFINE a == Pos(ix, j)
             last == Pos(ix, n)
  <2>2. Pos(long, j) = a /\ Pos(long, k) = e
    BY <1>2, <1>5, <2>1
  <2>3. a.file \in Nat /\ a.offset \in Nat /\ last.file \in Nat /\ last.offset \in Nat
    BY <1>3, <2>1
  <2>4. \/ e.file = last.file /\ e.offset = last.offset + 1
        \/ e.file = last.file + 1 /\ e.offset = 1
    OBVIOUS
  <2>5. j < n => /\ a.file <= last.file /\ last.file <= a.file + (n - j)
                 /\ a.file = last.file => last.offset = a.offset + (n - j)
                 /\ a.file # last.file => last.offset <= n - j
    BY <2>1 DEF Ordered
  <2>6. j = n => a = last
    OBVIOUS
  <2>9. e.file \in Nat /\ e.offset \in Nat
    BY <2>3, <2>4
  <2> HIDE DEF a, last, n, long
  <2>7. CASE j = n
    BY <1>1, <1>5, <2>2, <2>3, <2>4, <2>6, <2>7
  <2>8. CASE j < n
    <3>1. CASE e.file = last.file /\ e.offset = last.offset + 1
      <4>1. a.file <= e.file /\ e.file <= a.file + (k - j) /\ e.offset > 0
        BY <1>1, <1>5, <2>1, <2>3, <2>5, <2>8, <3>1
      <4>2. a.file = e.file => e.offset = a.offset + (k - j)
        BY <1>1, <1>5, <2>1, <2>3, <2>5, <2>8, <3>1
      <4>3. a.file # e.file => e.offset <= k - j
        BY <1>1, <1>5, <2>1, <2>3, <2>5, <2>8, <3>1
      <4> QED BY <2>2, <4>1, <4>2, <4>3
    <3>2. CASE e.file = last.file + 1 /\ e.offset = 1
      BY <1>1, <1>5, <2>1, <2>2, <2>3, <2>5, <2>8, <3>2
    <3> QED BY <2>4, <3>1, <3>2
  <2> QED BY <1>1, <2>1, <2>7, <2>8
<1> QED BY <1>1, <1>4, <1>5

\* What Right needs to know of a change of the index, the files and the chain.
LEMMA RightAgain ==
  ASSUME NEW ix \in Seq(Entries), NEW jx \in Seq(Entries), NEW d, NEW e, NEW c, NEW b,
         Right(ix, d, c), Len(jx) <= Len(ix),
         \A k \in 0 .. Len(jx) : Pos(jx, k) = Pos(ix, k),
         \A k \in 1 .. Len(jx) :
           Covered(jx, e, k) => /\ Covered(ix, d, k)
                                /\ e[Pos(ix, k).file][Pos(ix, k).offset]
                                     = d[Pos(ix, k).file][Pos(ix, k).offset],
         \A k \in 1 .. Len(jx) : b[k - 1] = c[k - 1]
  PROVE  Right(jx, e, b)
<1>1. \A k \in 1 .. Len(jx) : k \in 1 .. Len(ix) /\ k \in 0 .. Len(jx)
  OBVIOUS
<1> QED BY <1>1 DEF Right

-----------------------------------------------------------------------------
(***************************************************************************)
(* The invariant                                                           *)
(***************************************************************************)
\* Index ix, files d, and what of both is durable.
TableType(ix, d, xs, ds) ==
  /\ ix \in Seq(Entries) /\ d \in [Files -> Seq(Versions)]
  /\ xs \in 0 .. Len(ix) /\ ds \in [Files -> Nat]
  /\ \A f \in Files : ds[f] \in 0 .. Len(d[f])

DiskType ==
  /\ index = [t \in Tables |-> index[t]] /\ data = [t \in Tables |-> data[t]]
  /\ indexSynced = [t \in Tables |-> indexSynced[t]]
  /\ dataSynced = [t \in Tables |-> dataSynced[t]]
  /\ \A t \in Tables : TableType(index[t], data[t], indexSynced[t], dataSynced[t])

StoreType ==
  /\ kv \in [Numbers -> Versions \cup {None}] /\ side \in SUBSET Numbers /\ root \in Numbers
  /\ head \in Numbers /\ chain \in [Numbers -> Versions \cup {None}] /\ version \in Versions

MemoryType ==
  /\ headId \in [Tables -> Files] /\ items \in [Tables -> Nat]
  /\ frozen \in Nat

PhaseType ==
  /\ env \in Environments /\ faults \in 0 .. env.limit
  /\ pc \in {"idle", "append", "sync", "wipeside", "truncate", "down", "validate"}
  /\ at \in Tables /\ written \in BOOLEAN
  /\ first \in Nat /\ limit \in Nat /\ target \in Nat
  /\ todo \in SUBSET Tables /\ cut \in Tables \cup {0}
  /\ after \in {"idle", "sync", "rewind", "validate"}

ReaderType ==
  reader \in [stage : {"none", "kv", "again", "missed"}, number : Numbers, table : Tables]

\* An index ix over files d that has the blocks of chain c; whole: the files
\* reach to its end; one: it is about one file.
TableDisk(ix, d, c, whole, one) ==
  /\ Ordered(ix) /\ Right(ix, d, c)
  /\ whole => \A k \in 0 .. Len(ix) : Covered(ix, d, k)
  /\ one => \A k \in 0 .. Len(ix) : Pos(ix, k).file = 0

DiskInv ==
  \A t \in Tables : TableDisk(index[t], data[t], chain, ~(Power /\ pc = "down"), Power)

\* File f is the head file of an index ix and ends with its last item.
AtEnd(ix, d, f) ==
  LET last == Pos(ix, Len(ix)) IN f = last.file /\ Len(d[f]) = last.offset

\* It has one more item, block b.
Ahead(ix, d, f, b) ==
  LET last == Pos(ix, Len(ix)) IN
  /\ \/ f = last.file /\ Len(d[f]) = last.offset + 1
     \/ ~Power /\ f = last.file + 1 /\ Len(d[f]) = 1
  /\ d[f][Len(d[f])] = b

\* The memory agrees with the disk, except for a table whose truncation or whose
\* append is under way.
MemoryInv ==
  pc # "down" =>
    \A t \in Tables :
      IF t = cut THEN /\ Len(index[t]) = target /\ target < items[t]
                      /\ Pos(index[t], target).file <= headId[t]
      ELSE /\ items[t] = Len(index[t])
           /\ IF written /\ t = at THEN Ahead(index[t], data[t], headId[t], chain[frozen])
              ELSE AtEnd(index[t], data[t], headId[t])

Rewinding == pc = "truncate" /\ after = "rewind"

\* The lengths of the tables in the phases of the freezer.
LengthInv ==
  /\ pc \in {"idle", "sync", "wipeside", "validate"} => \A t \in Tables : items[t] = frozen
  /\ pc = "append" => \A t \in Tables : items[t] = IF t < at THEN frozen + 1 ELSE frozen
  /\ pc = "truncate" =>
       /\ \A t \in Tables : items[t] >= target /\ (t \notin todo /\ t # cut => items[t] = target)
       /\ after # "rewind" => \E t \in Tables : Len(index[t]) = target
  /\ \A t \in Tables : Len(index[t]) <= IF Rewinding THEN head + 2 ELSE head + 1
  /\ frozen <= IF Rewinding THEN head + 2 ELSE head + 1

PhaseInv ==
  /\ Tolerated(env)
  /\ cut # 0 => pc = "truncate" /\ cut \notin todo
  /\ written => pc = "append"
  /\ pc = "append" => limit <= head /\ (frozen <= limit \/ (at = 1 /\ ~written))
  /\ pc \in {"append", "sync", "wipeside"} => first <= frozen
  /\ pc = "truncate" =>
       /\ after # "idle"
       /\ after = "sync" => first <= target
       /\ after = "rewind" => target = head + 1 /\ frozen = target + 1 /\ target > 1
  /\ pc \in {"down", "validate"} \/ (pc = "truncate" /\ after # "rewind") => faults > 0

\* The key-value store has blocks of the chain, the genesis block among them.
StoreInv ==
  /\ \A n \in 0 .. head : chain[n] \in Versions /\ (kv[n] = None \/ kv[n] = chain[n])
  /\ kv[0] # None

\* Table t has block n, also after a power failure.
Durable(t, n) ==
  n < Len(index[t]) /\ (Power => n < indexSynced[t] /\ n < dataSynced[t][0])

\* What Sync, and opening, has made durable.
SyncedInv ==
  Power =>
    /\ pc = "sync" => \A t \in Tables : t \in todo \/
         (indexSynced[t] = Len(index[t]) /\ dataSynced[t][0] = Len(data[t][0]))
    /\ pc = "validate" \/ (pc = "truncate" /\ after = "validate") =>
         \A t \in Tables : indexSynced[t] = Len(index[t]) /\ dataSynced[t][0] >= Len(index[t])

\* The freezer has every block that was wiped.
Backed == \A n \in 1 .. head : kv[n] = None => \A t \in Tables : Durable(t, n)

\* Until a copy that was put back is compared with the key-value store, the
\* latter has no block below a wiped one.
BackedInv ==
  IF Running \/ ~Copy THEN Backed
  ELSE \A n \in 1 .. head : kv[n] = None => /\ \A t \in Tables : Durable(t, 0)
                                            /\ \A m \in 1 .. n - 1 : kv[m] = None

\* Before the first fault, exactly the blocks of complete batches are wiped.
ExactInv ==
  faults = 0 => \A n \in 1 .. head :
    kv[n] = None <=> n < IF pc \in {"append", "sync"} THEN first ELSE frozen

ReaderInv ==
  /\ reader.stage # "none" => Running /\ reader.number <= head
  /\ reader.stage = "again" => kv[reader.number] = None
  /\ reader.stage # "missed"

\* Before the first fault, the side blocks start after their root, which was not
\* frozen when the batch began.
SideInv ==
  faults = 0 /\ side # {} =>
    /\ \E m \in Numbers : m > root /\ side = root + 1 .. m
    /\ root >= (IF pc \in {"append", "sync", "wipeside"} THEN first ELSE frozen) - 1

Types == DiskType /\ StoreType /\ MemoryType /\ PhaseType /\ ReaderType

Inv ==
  /\ Types /\ DiskInv /\ MemoryInv /\ LengthInv /\ PhaseInv /\ StoreInv /\ SyncedInv
  /\ BackedInv /\ ExactInv /\ ReaderInv /\ SideInv

-----------------------------------------------------------------------------
(***************************************************************************)
(* Steps that leave the files alone                                        *)
(***************************************************************************)
\* Numbers of the state.
LEMMA StateNumbers ==
  ASSUME Types
  PROVE  /\ head \in Nat /\ head <= MaxBlock /\ frozen \in Nat /\ first \in Nat /\ limit \in Nat
         /\ target \in Nat /\ faults \in Nat /\ root \in Nat
         /\ \A t \in Tables : /\ t \in Nat /\ t > 0 /\ Len(index[t]) \in Nat /\ items[t] \in Nat
                              /\ indexSynced[t] \in Nat
<1>1. head \in Nat /\ head <= MaxBlock /\ root \in Nat
  BY Bounds DEF Types, StoreType, Numbers
<1>2. frozen \in Nat /\ first \in Nat /\ limit \in Nat /\ target \in Nat
  BY DEF Types, MemoryType, PhaseType
<1>3. faults \in Nat
  BY FreezerAssumption DEF Types, PhaseType
<1>4. ASSUME NEW t \in Tables
      PROVE  /\ t \in Nat /\ t > 0 /\ Len(index[t]) \in Nat /\ items[t] \in Nat
             /\ indexSynced[t] \in Nat
  <2>1. t \in Nat /\ t > 0
    BY Bounds DEF Tables
  <2>2. index[t] \in Seq(Entries) /\ indexSynced[t] \in 0 .. Len(index[t])
    BY DEF Types, DiskType, TableType
  <2>3. items[t] \in Nat
    BY DEF Types, MemoryType
  <2> QED BY <2>1, <2>2, <2>3
<1> QED BY <1>1, <1>2, <1>3, <1>4

\* The files and what is known of them.
LEMMA DiskKept ==
  ASSUME DiskType, DiskInv, UNCHANGED <<env, disk, chain>>, pc = "down" => pc' = "down"
  PROVE  DiskType' /\ DiskInv'
<1>1. index' = index /\ data' = data /\ indexSynced' = indexSynced /\ dataSynced' = dataSynced
  BY DEF disk
<1>2. DiskType'
  BY <1>1 DEF DiskType
<1>3. Power' = Power
  BY DEF Power
<1>4. DiskInv'
  BY <1>1, <1>3 DEF DiskInv, TableDisk
<1> QED BY <1>2, <1>4

LEMMA ImportStep ==
  ASSUME Inv, Import
  PROVE  Inv'
<1> USE DEF Import
<1>0. head + 1 \in Numbers /\ head + 1 \in Nat /\ version \in Versions /\ version # None
  BY StateNumbers, Bounds DEF Inv, Types, StoreType, Numbers
<1>1. index' = index /\ data' = data /\ indexSynced' = indexSynced /\ dataSynced' = dataSynced
      /\ Power' = Power /\ Copy' = Copy /\ Running' = Running
  BY DEF disk, Power, Copy, Running, truncation
<1>2. Types'
  BY <1>0, <1>1 DEF Inv, Types, DiskType, StoreType, MemoryType, PhaseType, ReaderType, memory, batch, truncation
<1>3. \A n \in 0 .. head : chain'[n] = chain[n] /\ kv'[n] = kv[n] 
  BY <1>0, StateNumbers DEF Inv, Types, StoreType, Numbers
<1>4. DiskInv'
  <2> SUFFICES ASSUME NEW t \in Tables
               PROVE  TableDisk(index[t], data[t], chain', ~(Power /\ pc' = "down"), Power)
    BY <1>1 DEF DiskInv
  <2>1. TableDisk(index[t], data[t], chain, ~(Power /\ pc = "down"), Power)
    BY DEF Inv, DiskInv
  <2>2. Len(index[t]) <= head + 1 /\ Len(index[t]) \in Nat /\ head \in Nat
    BY StateNumbers DEF Inv, LengthInv, Importing, Rewinding
  <2>3. \A k \in 1 .. Len(index[t]) : chain'[k - 1] = chain[k - 1]
    BY <1>3, <2>2
  <2> QED BY <2>1, <2>3 DEF TableDisk, Right
<1>5. MemoryInv'
  <2>1. written => chain'[frozen] = chain[frozen]
    BY <1>3, StateNumbers DEF Inv, PhaseInv
  <2> QED BY <1>1, <2>1 DEF Inv, MemoryInv, Ahead, AtEnd, memory, truncation
<1>6. LengthInv'
  BY <1>1, StateNumbers DEF Inv, LengthInv, Importing, Rewinding, memory, truncation
<1>7. PhaseInv'
  <2>1. Tolerated(env')
    BY DEF Inv, PhaseInv
  <2> QED BY <1>1, <2>1, StateNumbers DEF Inv, PhaseInv, Importing, Rewinding, memory, truncation, batch
<1>8. StoreInv'
  BY <1>0, <1>3, StateNumbers DEF Inv, StoreInv, Types, StoreType
<1>9. SyncedInv'
  BY <1>1 DEF Inv, SyncedInv, truncation
<1>10. BackedInv'
  <2>1. \A n \in 1 .. head + 1 : kv'[n] = None => n \in 1 .. head /\ kv[n] = None
    BY <1>0, <1>3, StateNumbers DEF Inv, Types, StoreType
  <2>2. Backed
    BY DEF Inv, BackedInv, Importing
  <2>3. Backed'
    BY <1>1, <2>1, <2>2 DEF Backed, Durable
  <2> QED BY <1>1, <2>3 DEF Importing, BackedInv
<1>11. ExactInv'
  <2>1. ~(head + 1 < IF pc \in {"append", "sync"} THEN first ELSE frozen)
    BY StateNumbers DEF Inv, LengthInv, PhaseInv, Importing, Rewinding
  <2> QED BY <1>0, <1>3, <2>1, StateNumbers DEF Inv, ExactInv, Types, StoreType, batch
<1>12. ReaderInv'
  BY <1>1, <1>3, StateNumbers DEF Inv, ReaderInv, Types, ReaderType, Numbers
<1>13. SideInv'
  BY DEF Inv, SideInv, batch
<1> QED BY <1>2, <1>4, <1>5, <1>6, <1>7, <1>8, <1>9, <1>10, <1>11, <1>12, <1>13 DEF Inv

\* The ends of an interval.
LEMMA IntervalEnds ==
  ASSUME NEW a \in Int, NEW b \in Int, a <= b
  PROVE  Min(a .. b) = a /\ Max(a .. b) = b
<1>1. /\ a \in a .. b /\ b \in a .. b
      /\ \A y \in a .. b : a <= y /\ b >= y /\ y \in Int
  OBVIOUS
<1>2. Min(a .. b) \in a .. b /\ \A y \in a .. b : Min(a .. b) <= y
  BY <1>1 DEF Min
<1>3. Max(a .. b) \in a .. b /\ \A y \in a .. b : Max(a .. b) >= y
  BY <1>1 DEF Max
<1>4. Min(a .. b) = a
  BY <1>1, <1>2
<1>5. Max(a .. b) = b
  BY <1>1, <1>3
<1> QED BY <1>4, <1>5

LEMMA ImportSideStep ==
  ASSUME Inv, NEW n \in Numbers, ImportSide(n)
  PROVE  Inv'
<1>1. /\ index' = index /\ data' = data /\ indexSynced' = indexSynced /\ dataSynced' = dataSynced
      /\ headId' = headId /\ items' = items /\ frozen' = frozen /\ kv' = kv /\ head' = head
      /\ chain' = chain /\ version' = version /\ pc' = pc /\ at' = at /\ written' = written
      /\ first' = first /\ limit' = limit /\ todo' = todo /\ cut' = cut /\ target' = target
      /\ after' = after /\ reader' = reader /\ faults' = faults /\ env' = env
  BY DEF ImportSide, disk, memory, markers, batch, truncation
<1>2. Power' = Power /\ Copy' = Copy /\ Running' = Running
  BY <1>1 DEF Power, Copy, Running
<1>3. side' \in SUBSET Numbers /\ root' \in Numbers
  <2>1. n \in 1 .. head /\ MaxBlock \in Nat /\ head \in Nat
    BY StateNumbers, Bounds DEF ImportSide, Inv
  <2>2. n - 1 \in Numbers
    BY <2>1, Bounds DEF Numbers
  <2>3. side' = side \cup {n} /\ root' \in {n - 1, root}
    BY DEF ImportSide
  <2> QED BY <2>2, <2>3 DEF Inv, Types, StoreType
<1>4. Types'
  BY <1>1, <1>3 DEF Inv, Types, DiskType, StoreType, MemoryType, PhaseType, ReaderType
<1>5. DiskInv' /\ MemoryInv' /\ LengthInv'
  BY <1>1, <1>2 DEF Inv, DiskInv, MemoryInv, LengthInv, Rewinding, TableDisk, Ahead, AtEnd
<1>6. PhaseInv' /\ StoreInv' /\ SyncedInv'
  BY <1>1, <1>2 DEF Inv, PhaseInv, StoreInv, SyncedInv
<1>7. BackedInv' /\ ExactInv' /\ ReaderInv'
  BY <1>1, <1>2 DEF Inv, BackedInv, Backed, Durable, ExactInv, ReaderInv
<1>8. SideInv'
  <2> SUFFICES ASSUME faults = 0
               PROVE  /\ \E m \in Numbers : m > root' /\ side' = root' + 1 .. m
                      /\ root' >= (IF pc \in {"append", "sync", "wipeside"} THEN first ELSE frozen) - 1
    BY <1>1 DEF SideInv
  <2>1. n \in Nat /\ n > 0 /\ n >= frozen /\ frozen \in Nat /\ first \in Nat
    BY StateNumbers DEF ImportSide, Inv, Numbers
  <2>2. CASE side = {}
    <3>1. side' = {n} /\ root' = n - 1
      BY <2>2 DEF ImportSide
    <3>2. {n} = (n - 1) + 1 .. n
      BY <2>1
    <3>3. n > n - 1 /\ n - 1 >= (IF pc \in {"append", "sync", "wipeside"} THEN first ELSE frozen) - 1
      BY <2>1, StateNumbers DEF Inv, PhaseInv
    <3> QED BY <3>1, <3>2, <3>3
  <2>3. CASE side # {}
    <3>1. PICK m \in Numbers : m > root /\ side = root + 1 .. m
      BY <2>3 DEF Inv, SideInv
    <3>2. m \in Int /\ root + 1 \in Int /\ root + 1 <= m
      BY <3>1, StateNumbers DEF Inv, Numbers
    <3>3. Max(side) = m
      BY <3>1, <3>2, IntervalEnds
    <3>4. n = m + 1 /\ side' = side \cup {n} /\ root' = root
      BY <2>3, <3>3 DEF ImportSide
    <3>5. side' = root + 1 .. n
      BY <3>1, <3>2, <3>4
    <3>6. n > root
      BY <3>1, <3>2, <3>4, StateNumbers DEF Inv
    <3> QED BY <2>3, <3>4, <3>5, <3>6 DEF Inv, SideInv
  <2> QED BY <2>2, <2>3
<1> QED BY <1>4, <1>5, <1>6, <1>7, <1>8 DEF Inv

\* A reader's step concerns the reader only.
LEMMA ReaderStep ==
  ASSUME Inv, UNCHANGED readerVars, ReaderType', ReaderInv'
  PROVE  Inv'
<1>1. /\ index' = index /\ data' = data /\ indexSynced' = indexSynced /\ dataSynced' = dataSynced
      /\ headId' = headId /\ items' = items /\ frozen' = frozen /\ kv' = kv /\ head' = head
      /\ chain' = chain /\ version' = version /\ pc' = pc /\ at' = at /\ written' = written
      /\ first' = first /\ limit' = limit /\ todo' = todo /\ cut' = cut /\ target' = target
      /\ after' = after /\ side' = side /\ root' = root /\ faults' = faults /\ env' = env
  BY DEF readerVars, disk, memory, store, markers, batch, truncation
<1>2. Power' = Power /\ Copy' = Copy /\ Running' = Running
  BY <1>1 DEF Power, Copy, Running
<1>3. Types'
  BY <1>1 DEF Inv, Types, DiskType, StoreType, MemoryType, PhaseType
<1>4. DiskInv' /\ MemoryInv' /\ LengthInv'
  BY <1>1, <1>2 DEF Inv, DiskInv, MemoryInv, LengthInv, Rewinding, TableDisk, Ahead, AtEnd
<1>5. PhaseInv' /\ StoreInv' /\ SyncedInv'
  BY <1>1, <1>2 DEF Inv, PhaseInv, StoreInv, SyncedInv
<1>6. BackedInv' /\ ExactInv' /\ SideInv'
  BY <1>1, <1>2 DEF Inv, BackedInv, Backed, Durable, ExactInv, SideInv
<1> QED BY <1>3, <1>4, <1>5, <1>6 DEF Inv

LEMMA MissAncientStep ==
  ASSUME Inv, NEW n \in Numbers, NEW t \in Tables, MissAncient(n, t)
  PROVE  Inv'
<1>1. /\ reader' = [stage |-> "kv", number |-> n, table |-> t] /\ UNCHANGED readerVars
      /\ Running /\ n <= head
  BY DEF MissAncient
<1>2. Running' /\ head' = head
  BY <1>1 DEF Running, readerVars, truncation, markers
<1>3. ReaderType' /\ ReaderInv'
  BY <1>1, <1>2 DEF ReaderType, ReaderInv
<1> QED BY <1>1, <1>3, ReaderStep

LEMMA LookKvStep ==
  ASSUME Inv, LookKv
  PROVE  Inv'
<1>1. /\ reader' = IF kv[reader.number] # None THEN Idle ELSE [reader EXCEPT !.stage = "again"]
      /\ UNCHANGED readerVars /\ Running /\ reader.stage = "kv"
  BY DEF LookKv
<1>2. Running' /\ head' = head /\ kv' = kv
  BY <1>1 DEF Running, readerVars, truncation, markers, store
<1>3. Idle \in [stage : {"none", "kv", "again", "missed"}, number : Numbers, table : Tables]
  BY Bounds DEF Idle, Numbers, Tables
<1>4. ReaderType'
  BY <1>1, <1>3 DEF Inv, Types, ReaderType
<1>5. ReaderInv'
  BY <1>1, <1>2 DEF Inv, Types, ReaderType, ReaderInv, Idle
<1> QED BY <1>1, <1>4, <1>5, ReaderStep

\* The second look finds the block: what the key-value store lacks was wiped.
LEMMA LookAgainStep ==
  ASSUME Inv, LookAgain
  PROVE  Inv'
<1>1. /\ reader' = IF items[reader.table] > reader.number THEN Idle
                   ELSE [reader EXCEPT !.stage = "missed"]
      /\ UNCHANGED readerVars /\ Running /\ reader.stage = "again" /\ cut # reader.table
  BY DEF LookAgain
<1>2. reader.number \in Numbers /\ reader.table \in Tables
  BY DEF Inv, Types, ReaderType
<1>3. kv[reader.number] = None /\ reader.number <= head
  BY <1>1 DEF Inv, ReaderInv
<1>4. reader.number \in 1 .. head
  BY <1>2, <1>3, StateNumbers DEF Inv, StoreInv, Numbers
<1>5. Durable(reader.table, reader.number)
  BY <1>1, <1>2, <1>3, <1>4 DEF Inv, BackedInv, Backed
<1>6. items[reader.table] > reader.number
  BY <1>1, <1>2, <1>4, <1>5, StateNumbers DEF Inv, Durable, MemoryInv, Running
<1>7. Idle \in [stage : {"none", "kv", "again", "missed"}, number : Numbers, table : Tables]
  BY Bounds DEF Idle, Numbers, Tables
<1>8. ReaderType' /\ ReaderInv'
  BY <1>1, <1>6, <1>7 DEF ReaderType, ReaderInv, Idle
<1> QED BY <1>1, <1>8, ReaderStep

\* A step of the freezer that leaves the files, the head and the chain alone keeps
\* what only speaks of these.
LEMMA FilesKept ==
  ASSUME Inv, UNCHANGED <<env, disk, memory, chain, cut>>, pc # "down", pc' # "down",
         written => written' /\ at' = at /\ frozen' = frozen, written' => written,
         cut # 0 => target' = target
  PROVE  DiskType' /\ DiskInv' /\ MemoryInv' /\ Power' = Power /\ Copy' = Copy
<1>1. /\ index' = index /\ data' = data /\ indexSynced' = indexSynced /\ dataSynced' = dataSynced
      /\ headId' = headId /\ items' = items /\ chain' = chain /\ cut' = cut
  BY DEF disk, memory
<1>2. Power' = Power /\ Copy' = Copy
  BY DEF Power, Copy
<1>3. DiskType' /\ DiskInv'
  BY <1>1, DiskKept DEF Inv, Types
<1>4. MemoryInv'
  BY <1>1, <1>2, Bounds DEF Inv, MemoryInv, Ahead, AtEnd
<1> QED BY <1>2, <1>3, <1>4

LEMMA StartBatchStep ==
  ASSUME Inv, StartBatch
  PROVE  Inv'
<1>1. /\ pc = "idle" /\ pc' = "append" /\ at' = 1 /\ written' = FALSE /\ first' = frozen
      /\ limit' = Min({head - Threshold, frozen + BatchLimit})
      /\ head >= Threshold /\ head - Threshold > frozen
      /\ UNCHANGED <<env, disk, memory, frozen, store, markers, truncation, reader, faults>>
  BY DEF StartBatch
<1>2. /\ index' = index /\ indexSynced' = indexSynced /\ dataSynced' = dataSynced
      /\ items' = items /\ headId' = headId
      /\ kv' = kv /\ side' = side /\ root' = root /\ head' = head /\ chain' = chain
      /\ version' = version /\ cut' = cut /\ todo' = todo /\ target' = target /\ after' = after
  BY <1>1 DEF disk, memory, store, markers, truncation
<1>3. limit' \in Nat /\ limit' <= head /\ frozen <= limit'
  <2>1. head - Threshold \in Int /\ frozen + BatchLimit \in Int
    BY StateNumbers, Bounds DEF Inv
  <2>2. limit' = IF head - Threshold <= frozen + BatchLimit THEN head - Threshold
                 ELSE frozen + BatchLimit
    BY <1>1, <2>1, MinTwo
  <2> QED BY <1>1, <2>2, StateNumbers, Bounds DEF Inv
<1>4. ~written /\ cut = 0
  BY <1>1 DEF Inv, PhaseInv
<1>5. DiskType' /\ DiskInv' /\ MemoryInv' /\ Power' = Power /\ Copy' = Copy
  BY <1>1, <1>2, <1>4, FilesKept
<1>6. Types'
  <2>1. 1 \in Tables /\ frozen \in Nat
    BY Bounds, StateNumbers DEF Inv, Tables
  <2>2. PhaseType'
    BY <1>1, <1>2, <1>3, <2>1 DEF Inv, Types, PhaseType
  <2> QED BY <1>1, <1>2, <1>5, <2>2 DEF Inv, Types, StoreType, MemoryType, ReaderType
<1>7. LengthInv'
  BY <1>1, <1>2, StateNumbers DEF Inv, LengthInv, Rewinding
<1>8. PhaseInv'
  BY <1>1, <1>2, <1>3, <1>4, StateNumbers DEF Inv, PhaseInv
<1>9. Running /\ Running'
  BY <1>1 DEF Running
<1>10. StoreInv' /\ SyncedInv' /\ BackedInv'
  BY <1>1, <1>2, <1>5, <1>9 DEF Inv, StoreInv, SyncedInv, BackedInv, Backed, Durable
<1>11. ExactInv' /\ SideInv'
  BY <1>1, <1>2 DEF Inv, ExactInv, SideInv
<1>12. ReaderInv'
  BY <1>1, <1>2, <1>9 DEF Inv, ReaderInv
<1> QED BY <1>5, <1>6, <1>7, <1>8, <1>10, <1>11, <1>12 DEF Inv

LEMMA EndBatchStep ==
  ASSUME Inv, EndBatch
  PROVE  Inv'
<1>1. /\ pc = "append" /\ pc' = "sync" /\ at = 1 /\ ~written /\ todo' = Tables
      /\ UNCHANGED <<env, disk, memory, frozen, store, markers, at, written,
                     batch, cut, target, after, reader, faults>>
  BY DEF EndBatch
<1>2. /\ index' = index /\ indexSynced' = indexSynced /\ dataSynced' = dataSynced
      /\ items' = items /\ headId' = headId
      /\ kv' = kv /\ side' = side /\ root' = root /\ head' = head /\ chain' = chain
      /\ version' = version /\ first' = first /\ limit' = limit
  BY <1>1 DEF disk, memory, store, markers, batch
<1>3. cut = 0
  BY <1>1 DEF Inv, PhaseInv
<1>4. DiskType' /\ DiskInv' /\ MemoryInv' /\ Power' = Power /\ Copy' = Copy
  BY <1>1, <1>2, <1>3, FilesKept
<1>5. Types'
  BY <1>1, <1>2, <1>4 DEF Inv, Types, StoreType, MemoryType, PhaseType, ReaderType
<1>6. LengthInv'
  BY <1>1, <1>2, StateNumbers DEF Inv, LengthInv, Rewinding
<1>7. PhaseInv'
  BY <1>1, <1>2, <1>3 DEF Inv, PhaseInv
<1>8. Running /\ Running'
  BY <1>1 DEF Running
<1>9. StoreInv' /\ SyncedInv' /\ BackedInv'
  BY <1>1, <1>2, <1>4, <1>8 DEF Inv, StoreInv, SyncedInv, BackedInv, Backed, Durable
<1>10. ExactInv' /\ SideInv'
  BY <1>1, <1>2 DEF Inv, ExactInv, SideInv
<1>11. ReaderInv'
  BY <1>1, <1>2, <1>8 DEF Inv, ReaderInv
<1> QED BY <1>4, <1>5, <1>6, <1>7, <1>9, <1>10, <1>11 DEF Inv

\* The least number of items of a table.
LEMMA LeastItems ==
  ASSUME NEW f \in [Tables -> Nat]
  PROVE  LET m == Min({f[t] : t \in Tables}) IN
         /\ m \in Nat /\ \A t \in Tables : m <= f[t]
         /\ \E t \in Tables : m = f[t]
<1> DEFINE S == {f[t] : t \in Tables}
<1>1. 1 \in Tables
  BY Bounds DEF Tables
<1>2. S # {} /\ S \subseteq Nat
  BY <1>1
<1>3. Min(S) \in S /\ \A y \in S : Min(S) <= y
  <2> HIDE DEF S
  <2> QED BY <1>2, MinNat
<1> QED BY <1>2, <1>3

LEMMA AppendFailsStep ==
  ASSUME Inv, AppendFails
  PROVE  Inv'
<1>1. /\ pc = "append" /\ pc' = "truncate" /\ ~written /\ frozen <= limit /\ todo' = Tables
      /\ items[at] # frozen \/ faults < env.limit
      /\ faults' = IF items[at] # frozen THEN faults ELSE faults + 1
      /\ after' = "sync" /\ target' = Min({items[t] : t \in Tables})
      /\ UNCHANGED <<env, disk, memory, frozen, store, markers, at, written, batch, cut, reader>>
  BY DEF AppendFails
<1>2. /\ index' = index /\ indexSynced' = indexSynced /\ dataSynced' = dataSynced
      /\ items' = items /\ headId' = headId
      /\ kv' = kv /\ side' = side /\ root' = root /\ head' = head /\ chain' = chain
      /\ version' = version /\ first' = first /\ limit' = limit
  BY <1>1 DEF disk, memory, store, markers, batch
<1>3. cut = 0
  BY <1>1 DEF Inv, PhaseInv
<1>4. DiskType' /\ DiskInv' /\ MemoryInv' /\ Power' = Power /\ Copy' = Copy
  BY <1>1, <1>2, <1>3, FilesKept
<1>5. faults' = faults + 1 /\ faults' \in 0 .. env.limit /\ faults' > 0
  <2>1. at \in Tables /\ at \in Nat
    BY StateNumbers DEF Inv, Types, PhaseType
  <2>2. items[at] = frozen
    BY <1>1, <2>1 DEF Inv, LengthInv
  <2>3. env.limit \in Nat
    BY FreezerAssumption DEF Inv, Types, PhaseType
  <2> QED BY <1>1, <2>2, <2>3, StateNumbers DEF Inv
<1>6. /\ target' \in Nat /\ first <= target'
      /\ \A t \in Tables : items[t] >= target'
      /\ \E t \in Tables : Len(index[t]) = target'
  <2>1. /\ target' \in Nat /\ \A t \in Tables : target' <= items[t]
        /\ \E t \in Tables : target' = items[t]
    BY <1>1, LeastItems DEF Inv, Types, MemoryType
  <2>2. PICK t \in Tables : target' = items[t]
    BY <2>1
  <2>3. items[t] = IF t < at THEN frozen + 1 ELSE frozen
    BY <1>1 DEF Inv, LengthInv
  <2>4. first <= frozen
    BY <1>1 DEF Inv, PhaseInv
  <2>5. first <= target'
    BY <2>2, <2>3, <2>4, StateNumbers DEF Inv
  <2>6. Len(index[t]) = target'
    BY <1>1, <1>3, <2>2, Bounds DEF Inv, MemoryInv
  <2> QED BY <2>1, <2>5, <2>6, StateNumbers DEF Inv
<1>7. Types'
  BY <1>1, <1>2, <1>4, <1>5, <1>6 DEF Inv, Types, StoreType, MemoryType, PhaseType, ReaderType
<1>8. LengthInv'
  BY <1>1, <1>2, <1>6, StateNumbers DEF Inv, LengthInv, Rewinding
<1>9. PhaseInv'
  BY <1>1, <1>2, <1>3, <1>5, <1>6 DEF Inv, PhaseInv
<1>10. Running /\ Running'
  BY <1>1 DEF Running
<1>11. StoreInv' /\ SyncedInv' /\ BackedInv'
  BY <1>1, <1>2, <1>4, <1>10 DEF Inv, StoreInv, SyncedInv, BackedInv, Backed, Durable
<1>12. ExactInv' /\ SideInv'
  BY <1>5 DEF ExactInv, SideInv
<1>13. ReaderInv'
  BY <1>1, <1>2, <1>10 DEF Inv, ReaderInv
<1> QED BY <1>4, <1>7, <1>8, <1>9, <1>11, <1>12, <1>13 DEF Inv

\* In a table of one file, positions count its items.
LEMMA OneFile ==
  ASSUME NEW ix \in Seq(Entries), Ordered(ix), NEW k \in 0 .. Len(ix),
         \A j \in 0 .. Len(ix) : Pos(ix, j).file = 0
  PROVE  Pos(ix, k).offset = k
<1>1. 0 \in 0 .. Len(ix) /\ Len(ix) \in Nat
  OBVIOUS
<1>2. Pos(ix, 0).offset = 0
  BY DEF Pos
<1>3. k > 0 => Pos(ix, k).offset = Pos(ix, 0).offset + (k - 0)
  BY <1>1 DEF Ordered
<1> QED BY <1>1, <1>2, <1>3

LEMMA WipeStep ==
  ASSUME Inv, Wipe
  PROVE  Inv'
<1>1. /\ pc = "sync" /\ todo = {} /\ pc' = "wipeside"
      /\ kv' = [n \in Numbers |-> IF n # 0 /\ n \in first .. frozen - 1 THEN None ELSE kv[n]]
      /\ UNCHANGED <<env, disk, memory, frozen, side, root, markers, at, written, batch,
                     truncation, reader, faults>>
  BY DEF Wipe
<1>2. /\ index' = index /\ indexSynced' = indexSynced /\ dataSynced' = dataSynced
      /\ items' = items /\ headId' = headId /\ head' = head /\ chain' = chain
      /\ version' = version /\ first' = first /\ limit' = limit
      /\ cut' = cut /\ todo' = todo /\ target' = target /\ after' = after
  BY <1>1 DEF disk, memory, markers, batch, truncation
<1>3. cut = 0 /\ ~written
  BY <1>1 DEF Inv, PhaseInv
<1>4. DiskType' /\ DiskInv' /\ MemoryInv' /\ Power' = Power /\ Copy' = Copy
  BY <1>1, <1>2, <1>3, FilesKept
<1>5. kv' \in [Numbers -> Versions \cup {None}]
  BY <1>1 DEF Inv, Types, StoreType
<1>6. Types'
  BY <1>1, <1>2, <1>4, <1>5 DEF Inv, Types, StoreType, MemoryType, PhaseType, ReaderType
<1>7. LengthInv'
  BY <1>1, <1>2, StateNumbers DEF Inv, LengthInv, Rewinding
<1>8. PhaseInv'
  BY <1>1, <1>2, <1>3 DEF Inv, PhaseInv
<1>9. Running /\ Running'
  BY <1>1 DEF Running
<1>10. \A n \in 0 .. head : n \in Numbers /\ n \in Nat
  BY StateNumbers, Bounds DEF Inv, Numbers
<1>11. StoreInv' /\ SyncedInv'
  <2>1. 0 \in Numbers
    BY Bounds DEF Numbers
  <2> QED BY <1>1, <1>2, <1>4, <1>10, <2>1 DEF Inv, StoreInv, SyncedInv
<1>12. BackedInv'
  <2> SUFFICES ASSUME NEW n \in 1 .. head, kv'[n] = None, NEW t \in Tables
               PROVE  Durable(t, n)
    BY <1>2, <1>4, <1>9 DEF BackedInv, Backed, Durable
  <2>1. CASE kv[n] = None
    BY <1>9, <2>1 DEF Inv, BackedInv, Backed
  <2>2. CASE kv[n] # None
    <3>1. n \in first .. frozen - 1 /\ n < frozen /\ frozen \in Nat /\ n \in Nat
      BY <1>1, <1>10, <2>2, StateNumbers DEF Inv
    <3>2. Len(index[t]) = frozen
      BY <1>1, <1>3, Bounds DEF Inv, LengthInv, MemoryInv
    <3>3. ASSUME Power PROVE n < indexSynced[t] /\ n < dataSynced[t][0]
      <4>1. indexSynced[t] = Len(index[t]) /\ dataSynced[t][0] = Len(data[t][0])
        BY <1>1, <3>3 DEF Inv, SyncedInv
      <4>2. AtEnd(index[t], data[t], headId[t])
        BY <1>1, <1>3, Bounds DEF Inv, MemoryInv
      <4>3. /\ index[t] \in Seq(Entries) /\ Ordered(index[t])
            /\ \A k \in 0 .. Len(index[t]) : Pos(index[t], k).file = 0
        BY <3>3 DEF Inv, Types, DiskType, TableType, DiskInv, TableDisk
      <4>4. Len(index[t]) \in 0 .. Len(index[t])
        BY <4>3
      <4>5. Pos(index[t], Len(index[t])).file = 0 /\ Pos(index[t], Len(index[t])).offset = frozen
        BY <3>2, <4>3, <4>4, OneFile
      <4>6. Len(data[t][0]) = frozen
        BY <4>2, <4>5 DEF AtEnd
      <4> QED BY <3>1, <3>2, <4>1, <4>6
    <3> QED BY <3>1, <3>2, <3>3 DEF Durable
  <2> QED BY <2>1, <2>2
<1>13. ExactInv'
  <2> SUFFICES ASSUME faults = 0, NEW n \in 1 .. head
               PROVE  kv'[n] = None <=> n < frozen
    BY <1>1, <1>2 DEF ExactInv
  <2>1. kv[n] = None <=> n < first
    BY <1>1 DEF Inv, ExactInv
  <2>2. n \in Nat /\ n > 0 /\ n \in Numbers /\ frozen \in Nat /\ first \in Nat /\ first <= frozen
    BY <1>1, <1>10, StateNumbers DEF Inv, PhaseInv
  <2> QED BY <1>1, <2>1, <2>2
<1>14. ReaderInv'
  BY <1>1, <1>2, <1>9 DEF Inv, ReaderInv, Types, ReaderType
<1>15. SideInv'
  BY <1>1, <1>2 DEF Inv, SideInv
<1> QED BY <1>4, <1>6, <1>7, <1>8, <1>11, <1>12, <1>13, <1>14, <1>15 DEF Inv

LEMMA WipeSideStep ==
  ASSUME Inv, WipeSide
  PROVE  Inv'
<1>1. /\ pc = "wipeside" /\ pc' = "idle" /\ at' = 1 /\ first' = 0 /\ limit' = 0
      /\ side' = IF frozen - 1 \in side /\ frozen - 1 >= first THEN {n \in side : n < first}
                 ELSE side \ (first .. frozen - 1)
      /\ UNCHANGED <<env, disk, memory, frozen, kv, root, markers, written, truncation,
                     reader, faults>>
  BY DEF WipeSide
<1>2. /\ index' = index /\ indexSynced' = indexSynced /\ dataSynced' = dataSynced
      /\ items' = items /\ headId' = headId /\ head' = head /\ chain' = chain
      /\ version' = version /\ cut' = cut /\ todo' = todo /\ target' = target /\ after' = after
  BY <1>1 DEF disk, memory, markers, truncation
<1>3. cut = 0 /\ ~written
  BY <1>1 DEF Inv, PhaseInv
<1>4. DiskType' /\ DiskInv' /\ MemoryInv' /\ Power' = Power /\ Copy' = Copy
  BY <1>1, <1>2, <1>3, FilesKept
<1>5. side' \in SUBSET Numbers
  BY <1>1 DEF Inv, Types, StoreType
<1>6. Types'
  BY <1>1, <1>2, <1>4, <1>5, Bounds DEF Inv, Types, StoreType, MemoryType, PhaseType, ReaderType
<1>7. LengthInv'
  BY <1>1, <1>2, StateNumbers DEF Inv, LengthInv, Rewinding
<1>8. PhaseInv'
  BY <1>1, <1>2, <1>3 DEF Inv, PhaseInv
<1>9. Running /\ Running'
  BY <1>1 DEF Running
<1>10. StoreInv' /\ SyncedInv' /\ BackedInv'
  BY <1>1, <1>2, <1>4, <1>9 DEF Inv, StoreInv, SyncedInv, BackedInv, Backed, Durable
<1>11. ExactInv'
  BY <1>1, <1>2 DEF Inv, ExactInv
<1>12. ReaderInv'
  BY <1>1, <1>2, <1>9 DEF Inv, ReaderInv
<1>13. SideInv'
  <2> SUFFICES ASSUME faults = 0, side' # {}
               PROVE  /\ \E m \in Numbers : m > root /\ side' = root + 1 .. m
                      /\ root >= frozen - 1
    BY <1>1 DEF SideInv
  <2>1. side # {}
    BY <1>1
  <2>2. PICK m \in Numbers : m > root /\ side = root + 1 .. m
    BY <2>1 DEF Inv, SideInv
  <2>3. root >= first - 1
    BY <1>1, <2>1 DEF Inv, SideInv
  <2>4. first <= frozen /\ first \in Nat /\ frozen \in Nat /\ root \in Nat /\ m \in Int
    BY <1>1, StateNumbers DEF Inv, PhaseInv, Numbers
  <2>5. root >= frozen - 1
    BY <1>1, <2>2, <2>3, <2>4
  <2>6. \A n \in side : n \notin first .. frozen - 1 /\ n # frozen - 1
    BY <2>2, <2>4, <2>5
  <2>7. side' = side \ (first .. frozen - 1)
    BY <1>1, <2>6
  <2>8. side' = side
    BY <2>6, <2>7
  <2> QED BY <2>2, <2>5, <2>8
<1> QED BY <1>4, <1>6, <1>7, <1>8, <1>10, <1>11, <1>12, <1>13 DEF Inv

LEMMA TruncateDoneStep ==
  ASSUME Inv, TruncateDone
  PROVE  Inv'
<1>1. /\ pc = "truncate" /\ todo = {} /\ cut = 0 /\ frozen' = target
      /\ pc' = IF after = "rewind" THEN "idle" ELSE after
      /\ todo' = IF after = "sync" THEN Tables ELSE {}
      /\ kv' = IF after = "rewind" THEN [kv EXCEPT ![target] = None] ELSE kv
      /\ target' = 0 /\ after' = "idle"
      /\ UNCHANGED <<env, disk, memory, side, root, markers, at, written, batch, cut, reader, faults>>
  BY DEF TruncateDone
<1>2. /\ index' = index /\ indexSynced' = indexSynced /\ dataSynced' = dataSynced
      /\ items' = items /\ headId' = headId /\ head' = head /\ chain' = chain
      /\ version' = version /\ first' = first /\ limit' = limit
  BY <1>1 DEF disk, memory, markers, batch
<1>3. /\ ~written /\ after \in {"sync", "rewind", "validate"}
      /\ pc' \in {"idle", "sync", "validate"} /\ pc' # "down"
  BY <1>1 DEF Inv, PhaseInv, Types, PhaseType
<1>4. DiskType' /\ DiskInv' /\ MemoryInv' /\ Power' = Power /\ Copy' = Copy
  BY <1>1, <1>2, <1>3, FilesKept
<1>5. \A n \in 0 .. head : kv'[n] = kv[n]
  BY <1>1, StateNumbers DEF Inv, PhaseInv, Types, StoreType
<1>6. kv' \in [Numbers -> Versions \cup {None}]
  BY <1>1 DEF Inv, Types, StoreType
<1>7. Types'
  BY <1>1, <1>2, <1>3, <1>4, <1>6, StateNumbers
     DEF Inv, Types, StoreType, MemoryType, PhaseType, ReaderType
<1>8. \A t \in Tables : items[t] = target /\ Len(index[t]) = target
  BY <1>1, Bounds DEF Inv, LengthInv, MemoryInv
<1>9. LengthInv'
  <2>1. target <= head + 1
    <3>1. CASE after = "rewind"
      BY <1>1, <3>1, StateNumbers DEF Inv, PhaseInv
    <3>2. CASE after # "rewind"
      BY <1>1, <1>8, <3>2, Bounds DEF Inv, LengthInv, Rewinding
    <3> QED BY <3>1, <3>2
  <2> QED BY <1>1, <1>2, <1>3, <1>8, <2>1 DEF LengthInv, Rewinding
<1>10. PhaseInv'
  BY <1>1, <1>2, <1>3 DEF Inv, PhaseInv
<1>11. Running' = Running
  BY <1>1, <1>3 DEF Running
<1>12. StoreInv' /\ SyncedInv'
  <2>1. StoreInv'
    BY <1>2, <1>5, StateNumbers DEF Inv, StoreInv
  <2>2. SyncedInv'
    <3>1. data' = data
      BY <1>1 DEF disk
    <3> QED BY <1>1, <1>2, <1>3, <1>4, <3>1 DEF Inv, SyncedInv
  <2> QED BY <2>1, <2>2
<1>13. BackedInv'
  <2>1. \A n \in 1 .. head : /\ kv'[n] = kv[n]
                             /\ \A m \in 1 .. n - 1 : kv'[m] = kv[m]
    BY <1>5, StateNumbers DEF Inv
  <2> QED BY <1>2, <1>4, <1>11, <2>1 DEF Inv, BackedInv, Backed, Durable
<1>14. ExactInv'
  <2> SUFFICES ASSUME faults = 0, NEW n \in 1 .. head
               PROVE  kv'[n] = None <=> n < IF pc' \in {"append", "sync"} THEN first ELSE target
    BY <1>1, <1>2 DEF ExactInv
  <2>1. after = "rewind"
    BY <1>1 DEF Inv, PhaseInv
  <2>2. kv[n] = None <=> n < frozen
    BY <1>1 DEF Inv, ExactInv
  <2>3. target = head + 1 /\ frozen = target + 1
    BY <1>1, <2>1 DEF Inv, PhaseInv
  <2>4. kv'[n] = kv[n]
    BY <1>5, StateNumbers DEF Inv
  <2> QED BY <1>1, <2>1, <2>2, <2>3, <2>4, StateNumbers DEF Inv
<1>15. ReaderInv'
  BY <1>1, <1>2, <1>5, <1>11 DEF Inv, ReaderInv, Types, ReaderType, Numbers
<1>16. SideInv'
  <2>1. faults = 0 => after = "rewind" /\ frozen = target + 1
    BY <1>1 DEF Inv, PhaseInv
  <2> QED BY <1>1, <2>1, StateNumbers DEF Inv, SideInv
<1> QED BY <1>4, <1>7, <1>9, <1>10, <1>12, <1>13, <1>14, <1>15, <1>16 DEF Inv

LEMMA CrashStep ==
  ASSUME Inv, Crash
  PROVE  Inv'
<1>1. /\ pc # "down" /\ faults < env.limit /\ faults' = faults + 1
      /\ ~Importing /\ Running => "rewind" \in env.events
      /\ headId' = [t \in Tables |-> 0] /\ items' = [t \in Tables |-> 0] /\ frozen' = 0
      /\ pc' = "down" /\ at' = 1 /\ written' = FALSE /\ first' = 0 /\ limit' = 0
      /\ todo' = {} /\ cut' = 0 /\ target' = 0 /\ after' = "idle" /\ reader' = Idle
      /\ UNCHANGED <<env, disk, store, markers>>
  BY DEF Crash
<1>2. /\ index' = index /\ indexSynced' = indexSynced /\ dataSynced' = dataSynced
      /\ head' = head /\ chain' = chain /\ version' = version
      /\ kv' = kv /\ side' = side /\ root' = root
  BY <1>1 DEF disk, markers, store
<1>3. Power' = Power /\ Copy' = Copy /\ ~Running'
  BY <1>1 DEF Power, Copy, Running
<1>4. DiskType' /\ DiskInv'
  BY <1>1, <1>2, DiskKept DEF Inv, Types
<1>5. env.limit \in Nat /\ faults' \in 0 .. env.limit /\ faults' > 0
  BY <1>1, StateNumbers, FreezerAssumption DEF Inv, Types, PhaseType
<1>6. Types'
  <2>1. MemoryType' /\ StoreType' /\ PhaseType'
    BY <1>1, <1>2, <1>5, Bounds DEF Inv, Types, StoreType, MemoryType, PhaseType
  <2>2. ReaderType'
    BY <1>1, Bounds DEF ReaderType, Idle, Numbers
  <2> QED BY <1>4, <2>1, <2>2 DEF Types
<1>7. MemoryInv' /\ SyncedInv' /\ ExactInv' /\ SideInv'
  BY <1>1, <1>5 DEF MemoryInv, SyncedInv, ExactInv, SideInv
<1>8. ~Rewinding
  BY <1>1 DEF Inv, PhaseInv, Tolerated, Rewinding, Importing, Running
<1>9. LengthInv'
  BY <1>1, <1>2, <1>8, StateNumbers DEF Inv, LengthInv, Rewinding
<1>10. PhaseInv'
  BY <1>1, <1>5 DEF Inv, PhaseInv
<1>11. StoreInv'
  BY <1>2 DEF Inv, StoreInv
<1>12. ReaderInv'
  BY <1>1 DEF ReaderInv, Idle
<1>13. BackedInv'
  <2>1. CASE ~Copy
    BY <1>2, <1>3, <2>1 DEF Inv, BackedInv, Backed, Durable
  <2>2. CASE Copy
    <3>1. faults = 0
      BY <1>1, <1>5, <2>2, StateNumbers DEF Inv, PhaseInv, Tolerated, Copy
    <3>2. Running
      BY <1>1, <3>1 DEF Inv, PhaseInv, Running
    <3> SUFFICES ASSUME NEW n \in 1 .. head, kv[n] = None
                 PROVE  /\ \A t \in Tables : Durable(t, 0)
                        /\ \A m \in 1 .. n - 1 : kv[m] = None
      BY <1>2, <1>3, <2>2 DEF BackedInv, Durable
    <3>3. \A t \in Tables : Durable(t, n)
      BY <3>2 DEF Inv, BackedInv, Backed
    <3>4. ASSUME NEW t \in Tables PROVE Durable(t, 0)
      <4>1. dataSynced[t][0] \in Nat /\ Len(index[t]) \in Nat /\ indexSynced[t] \in Nat
        BY StateNumbers, Bounds DEF Inv, Types, DiskType, TableType
      <4> QED BY <3>3, <4>1, StateNumbers DEF Inv, Durable
    <3>5. ASSUME NEW m \in 1 .. n - 1 PROVE kv[m] = None
      <4>1. m \in 1 .. head /\ m < n /\ m \in Nat /\ n \in Nat
        BY StateNumbers DEF Inv
      <4> DEFINE b == IF pc \in {"append", "sync"} THEN first ELSE frozen
      <4>2. (kv[n] = None <=> n < b) /\ (kv[m] = None <=> m < b)
        BY <3>1, <4>1 DEF Inv, ExactInv
      <4>3. b \in Nat
        BY StateNumbers DEF Inv
      <4> QED BY <4>1, <4>2, <4>3
    <3> QED BY <3>4, <3>5
  <2> QED BY <2>1, <2>2
<1> QED BY <1>4, <1>6, <1>7, <1>9, <1>10, <1>11, <1>12, <1>13 DEF Inv

LEMMA ValidateStep ==
  ASSUME Inv, Validate
  PROVE  Inv'
<1>1. /\ pc = "validate" /\ pc' = "idle"
      /\ UNCHANGED <<env, disk, memory, frozen, root, chain, version, at, written, batch,
                     truncation, reader, faults>>
  BY DEF Validate
<1>2. /\ index' = index /\ indexSynced' = indexSynced /\ dataSynced' = dataSynced
      /\ items' = items /\ headId' = headId /\ first' = first /\ limit' = limit
      /\ cut' = cut /\ todo' = todo /\ target' = target /\ after' = after
  BY <1>1 DEF disk, memory, batch, truncation
<1>3. cut = 0 /\ ~written /\ faults > 0
  BY <1>1 DEF Inv, PhaseInv
<1>4. DiskType' /\ DiskInv' /\ MemoryInv' /\ Power' = Power /\ Copy' = Copy
  BY <1>1, <1>2, <1>3, FilesKept
<1>5. \/ head' = head /\ kv' = kv /\ side' = side /\ ~Gap
      \/ /\ head' = frozen - 1 /\ side' = {n \in side : n < frozen} /\ Gap
         /\ kv' = [n \in Numbers |-> IF n >= frozen /\ n # 0 THEN None ELSE kv[n]]
  BY DEF Validate
<1>6. Gap => frozen > 0 /\ head > frozen - 1 /\ kv[frozen] = None
  BY DEF Gap
<1>7. /\ head' \in Nat /\ head' <= head /\ head' \in Numbers /\ side' \in SUBSET Numbers
      /\ kv' \in [Numbers -> Versions \cup {None}]
  <2>1. /\ head' \in Nat /\ head' <= head /\ head' \in Numbers
    BY <1>5, <1>6, StateNumbers, Bounds DEF Inv, Numbers
  <2>2. side' \in SUBSET Numbers
    BY <1>5 DEF Inv, Types, StoreType
  <2>3. kv' \in [Numbers -> Versions \cup {None}]
    BY <1>5 DEF Inv, Types, StoreType
  <2> QED BY <2>1, <2>2, <2>3
<1>8. Types'
  BY <1>1, <1>2, <1>4, <1>7 DEF Inv, Types, StoreType, MemoryType, PhaseType, ReaderType
<1>9. \A t \in Tables : items[t] = frozen /\ Len(index[t]) = frozen
  BY <1>1, <1>3, Bounds DEF Inv, LengthInv, MemoryInv
<1>10. LengthInv'
  <2>1. frozen <= head' + 1
    BY <1>1, <1>5, StateNumbers DEF Inv, LengthInv, Rewinding
  <2> QED BY <1>1, <1>2, <1>9, <2>1 DEF LengthInv, Rewinding
<1>11. PhaseInv'
  BY <1>1, <1>2, <1>3 DEF Inv, PhaseInv
<1>12. Running' /\ ~Running
  BY <1>1 DEF Running
<1>13. \A n \in 0 .. head' : n \in 0 .. head /\ n \in Numbers /\ kv'[n] = kv[n]
  BY <1>5, <1>6, <1>7, StateNumbers, Bounds DEF Inv, Numbers
<1>14. StoreInv' /\ SyncedInv' /\ ExactInv' /\ SideInv'
  <2>1. 0 \in 0 .. head'
    BY <1>7
  <2>2. StoreInv'
    BY <1>1, <1>13, <2>1 DEF Inv, StoreInv
  <2> QED BY <1>1, <1>3, <2>2 DEF SyncedInv, ExactInv, SideInv
<1>15. BackedInv'
  <2> SUFFICES ASSUME NEW n \in 1 .. head', kv'[n] = None, NEW t \in Tables
               PROVE  Durable(t, n)
    BY <1>2, <1>4, <1>12 DEF BackedInv, Backed, Durable
  <2>1. n \in 1 .. head /\ kv[n] = None /\ n \in Nat /\ n > 0
    BY <1>7, <1>13, StateNumbers DEF Inv
  <2>2. CASE ~Copy
    BY <2>1, <2>2 DEF Inv, BackedInv, Backed
  <2>3. CASE Copy
    <3>1. Durable(t, 0) /\ \A m \in 1 .. n - 1 : kv[m] = None
      BY <1>12, <2>1, <2>3 DEF Inv, BackedInv
    <3>2. frozen > 0 /\ frozen \in Nat
      BY <1>9, <3>1, StateNumbers DEF Inv, Durable
    <3>3. n < frozen
      <4>1. CASE Gap
        BY <1>5, <2>1, <3>2, <4>1
      <4>2. CASE ~Gap
        <5>1. head <= frozen - 1 \/ kv[frozen] # None
          BY <3>2, <4>2, StateNumbers DEF Inv, Gap
        <5>2. frozen = n \/ frozen \in 1 .. n - 1 => kv[frozen] = None
          BY <2>1, <3>1
        <5> QED BY <2>1, <3>2, <5>1, <5>2, StateNumbers DEF Inv
      <4> QED BY <4>1, <4>2
    <3>4. Power => /\ indexSynced[t] = Len(index[t]) /\ dataSynced[t][0] >= Len(index[t])
                   /\ dataSynced[t][0] \in Nat
      BY <1>1, Bounds DEF Inv, SyncedInv, Types, DiskType, TableType
    <3> QED BY <1>9, <2>1, <3>2, <3>3, <3>4 DEF Durable
  <2> QED BY <2>2, <2>3
<1>16. ReaderInv'
  BY <1>1, <1>12 DEF Inv, ReaderInv
<1> QED BY <1>4, <1>8, <1>10, <1>11, <1>14, <1>15, <1>16 DEF Inv

LEMMA RewindStep ==
  ASSUME Inv, Rewind
  PROVE  Inv'
<1>1. /\ pc = "idle" /\ head > 1 /\ head' = head - 1
      /\ version' \in {version, version + 1} /\ version' <= MaxRewinds
      /\ side' = {n \in side : n < head}
      /\ reader' = IF reader.number = head THEN Idle ELSE reader
      /\ UNCHANGED <<env, disk, memory, frozen, root, chain, at, written, batch, cut, faults>>
  BY DEF Rewind
<1>2. \/ /\ head + 1 <= frozen /\ pc' = "truncate" /\ todo' = Tables /\ target' = head
         /\ after' = "rewind" /\ kv' = kv
      \/ /\ ~(head + 1 <= frozen) /\ kv' = [kv EXCEPT ![head] = None]
         /\ pc' = "idle" /\ todo' = todo /\ target' = target /\ after' = after
  BY DEF Rewind
<1>3. /\ index' = index /\ indexSynced' = indexSynced /\ dataSynced' = dataSynced
      /\ items' = items /\ headId' = headId /\ first' = first /\ limit' = limit
  BY <1>1 DEF disk, memory, batch
<1>4. cut = 0 /\ ~written
  BY <1>1 DEF Inv, PhaseInv
<1>5. DiskType' /\ DiskInv' /\ MemoryInv' /\ Power' = Power /\ Copy' = Copy
  <2>1. pc # "down" /\ pc' # "down"
    BY <1>1, <1>2
  <2> QED BY <1>1, <1>4, <2>1, FilesKept
<1>6. head \in Nat /\ head - 1 \in Numbers /\ head \in Numbers
  BY <1>1, StateNumbers, Bounds DEF Inv, Numbers
<1>7. version' \in Versions
  BY <1>1, Bounds DEF Inv, Types, StoreType, Versions
<1>8. Types'
  <2>1. StoreType'
    BY <1>1, <1>2, <1>6, <1>7 DEF Inv, Types, StoreType
  <2>2. PhaseType'
    BY <1>1, <1>2, <1>3, <1>6 DEF Inv, Types, PhaseType
  <2>3. ReaderType'
    BY <1>1, Bounds DEF Inv, Types, ReaderType, Idle, Numbers
  <2> QED BY <1>1, <1>3, <1>5, <2>1, <2>2, <2>3 DEF Inv, Types, MemoryType
<1>9. frozen <= head + 1 /\ \A t \in Tables : items[t] = frozen /\ Len(index[t]) = frozen
  BY <1>1, <1>4, Bounds DEF Inv, LengthInv, MemoryInv, Rewinding
<1>10. LengthInv'
  <2>1. CASE pc' = "truncate"
    BY <1>1, <1>2, <1>3, <1>4, <1>9, <2>1, StateNumbers DEF Inv, LengthInv, Rewinding
  <2>2. CASE pc' = "idle"
    BY <1>1, <1>2, <1>3, <1>9, <2>2, StateNumbers DEF Inv, LengthInv, Rewinding
  <2> QED BY <1>2, <2>1, <2>2
<1>11. PhaseInv'
  BY <1>1, <1>2, <1>3, <1>4, <1>9, StateNumbers DEF Inv, PhaseInv
<1>12. Running' /\ Running
  BY <1>1, <1>2 DEF Running
<1>13. \A n \in 0 .. head' : n \in 0 .. head /\ kv'[n] = kv[n]
  <2>1. \A n \in 0 .. head - 1 : n \in 0 .. head /\ n \in Numbers /\ n # head
    BY <1>6, StateNumbers, Bounds DEF Inv, Numbers
  <2> QED BY <1>1, <1>2, <2>1 DEF Inv, Types, StoreType
<1>14. StoreInv' /\ SyncedInv'
  <2>1. 0 \in 0 .. head'
    BY <1>1, <1>6
  <2>2. StoreInv'
    BY <1>1, <1>13, <2>1 DEF Inv, StoreInv
  <2>3. SyncedInv'
    BY <1>2 DEF SyncedInv
  <2> QED BY <2>2, <2>3
<1>15. \A n \in 1 .. head' : n \in 1 .. head /\ kv'[n] = kv[n]
  BY <1>1, <1>6, <1>13
<1>16. BackedInv'
  BY <1>3, <1>5, <1>12, <1>15 DEF Inv, BackedInv, Backed, Durable
<1>17. ExactInv'
  BY <1>1, <1>2, <1>15 DEF Inv, ExactInv
<1>18. ReaderInv'
  <2>1. CASE reader.number = head
    BY <1>1, <2>1 DEF ReaderInv, Idle
  <2>2. CASE reader.number # head
    <3>1. reader.number \in Nat
      BY Bounds DEF Inv, Types, ReaderType, Numbers
    <3> QED BY <1>1, <1>6, <1>12, <1>13, <2>2, <3>1 DEF Inv, ReaderInv
  <2> QED BY <2>1, <2>2
<1>19. SideInv'
  <2> SUFFICES ASSUME faults = 0, side' # {}
               PROVE  /\ \E m \in Numbers : m > root /\ side' = root + 1 .. m
                      /\ root >= frozen - 1
    BY <1>1, <1>2 DEF SideInv
  <2>1. side # {}
    BY <1>1
  <2>2. PICK m \in Numbers : m > root /\ side = root + 1 .. m
    BY <2>1 DEF Inv, SideInv
  <2>3. root >= frozen - 1
    BY <1>1, <2>1 DEF Inv, SideInv
  <2>4. root \in Nat /\ m \in Int
    BY StateNumbers DEF Inv, Numbers
  <2>5. CASE m < head
    <3>1. side' = side
      BY <1>1, <1>6, <2>2, <2>4, <2>5
    <3> QED BY <2>2, <2>3, <3>1
  <2>6. CASE ~(m < head)
    <3>1. side' = root + 1 .. head - 1
      BY <1>1, <1>6, <2>2, <2>4, <2>6
    <3>2. head - 1 > root
      BY <1>6, <2>4, <3>1
    <3> QED BY <1>6, <2>3, <3>1, <3>2
  <2> QED BY <2>5, <2>6
<1> QED BY <1>5, <1>8, <1>10, <1>11, <1>14, <1>16, <1>17, <1>18, <1>19 DEF Inv

-----------------------------------------------------------------------------
(***************************************************************************)
(* Steps on the files of one table                                         *)
(***************************************************************************)
\* A table that is given another value.
LEMMA TableSet ==
  ASSUME NEW g, g = [t \in Tables |-> g[t]], NEW u \in Tables, NEW x, NEW h,
         h = [g EXCEPT ![u] = x]
  PROVE  h = [t \in Tables |-> h[t]] /\ h[u] = x /\ \A t \in Tables : t # u => h[t] = g[t]
OBVIOUS

\* What a step on table u has to show of u.
LEMMA TableStep ==
  ASSUME Inv, NEW u \in Tables, env' = env, chain' = chain, pc' = pc,
         index' = [t \in Tables |-> index'[t]], data' = [t \in Tables |-> data'[t]],
         indexSynced' = [t \in Tables |-> indexSynced'[t]],
         dataSynced' = [t \in Tables |-> dataSynced'[t]],
         \A t \in Tables : t # u =>
           /\ index'[t] = index[t] /\ data'[t] = data[t]
           /\ indexSynced'[t] = indexSynced[t] /\ dataSynced'[t] = dataSynced[t],
         TableType(index'[u], data'[u], indexSynced'[u], dataSynced'[u]),
         TableDisk(index'[u], data'[u], chain, ~(Power /\ pc = "down"), Power)
  PROVE  DiskType' /\ DiskInv' /\ Power' = Power /\ Copy' = Copy
<1>1. Power' = Power /\ Copy' = Copy
  BY DEF Power, Copy
<1>2. DiskType'
  BY DEF Inv, Types, DiskType
<1>3. DiskInv'
  BY <1>1 DEF Inv, DiskInv
<1> QED BY <1>1, <1>2, <1>3

\* A shorter index.
LEMMA CutTable ==
  ASSUME NEW ix \in Seq(Entries), NEW n \in 0 .. Len(ix), NEW d, NEW c,
         NEW whole \in BOOLEAN, NEW one \in BOOLEAN, TableDisk(ix, d, c, whole, one)
  PROVE  TableDisk(SubSeq(ix, 1, n), d, c, whole, one)
<1> DEFINE jx == SubSeq(ix, 1, n)
<1>1. /\ jx \in Seq(Entries) /\ Len(jx) = n
      /\ \A k \in 0 .. n : Pos(jx, k) = Pos(ix, k)
  BY PosCut
<1> HIDE DEF jx
<1>2. Len(jx) <= Len(ix) /\ \A k \in 0 .. n : k \in 0 .. Len(ix)
  BY <1>1
<1>3. \A k \in 0 .. n : Covered(jx, d, k) <=> Covered(ix, d, k)
  BY <1>1 DEF Covered
<1>4. Ordered(jx)
  BY <1>1, <1>2, OrderedCut DEF TableDisk
<1>5. Right(jx, d, c)
  BY <1>1, <1>2, <1>3 DEF TableDisk, Right
<1> QED BY <1>1, <1>2, <1>3, <1>4, <1>5 DEF TableDisk, jx

\* Files that end with the last item of an index.
LEMMA TrimTable ==
  ASSUME NEW ix \in Seq(Entries), NEW d \in [Files -> Seq(Versions)],
         NEW e \in [Files -> Seq(Versions)], NEW c, NEW one \in BOOLEAN,
         TableDisk(ix, d, c, TRUE, one), NEW last, last = Pos(ix, Len(ix)),
         Len(e[last.file]) = last.offset,
         \A i \in 1 .. last.offset : e[last.file][i] = d[last.file][i],
         \A f \in Files : f < last.file => e[f] = d[f]
  PROVE  TableDisk(ix, e, c, TRUE, one)
<1>1. Len(ix) \in Nat /\ Len(ix) \in 0 .. Len(ix)
  OBVIOUS
<1>2. Ordered(ix) /\ Right(ix, d, c) /\ \A k \in 0 .. Len(ix) : Covered(ix, d, k)
  BY DEF TableDisk
<1>3. last.file \in Files /\ last.file \in Nat /\ last.offset \in Nat
  BY <1>1, PosNumbers
<1>4. ASSUME NEW k \in 0 .. Len(ix)
      PROVE  /\ Covered(ix, e, k)
             /\ k > 0 => e[Pos(ix, k).file][Pos(ix, k).offset] = d[Pos(ix, k).file][Pos(ix, k).offset]
  <2> DEFINE p == Pos(ix, k)
  <2>1. p.file \in Files /\ p.file \in Nat /\ p.offset \in Nat
    BY PosNumbers
  <2>2. k < Len(ix) => /\ p.file <= last.file
                       /\ p.file = last.file => last.offset = p.offset + (Len(ix) - k)
    BY <1>1, <1>2 DEF Ordered
  <2>3. k = Len(ix) => p = last
    OBVIOUS
  <2>4. k > 0 => p.offset > 0
    BY <1>1, <1>2, 0 \in 0 .. Len(ix) DEF Ordered
  <2>5. p.offset <= Len(d[p.file])
    BY <1>2 DEF Covered
  <2> HIDE DEF p
  <2>6. CASE p.file = last.file
    <3>1. p.offset <= last.offset
      BY <1>1, <1>3, <2>1, <2>2, <2>3, <2>6
    <3>2. k > 0 => p.offset \in 1 .. last.offset
      BY <1>3, <2>1, <2>4, <3>1
    <3> QED BY <2>6, <3>1, <3>2 DEF Covered, p
  <2>7. CASE p.file # last.file
    <3>1. p.file < last.file
      BY <1>1, <1>3, <2>1, <2>2, <2>3, <2>7
    <3>2. e[p.file] = d[p.file]
      BY <2>1, <3>1
    <3> QED BY <2>5, <3>2 DEF Covered, p
  <2> QED BY <2>6, <2>7
<1>5. Right(ix, e, c)
  <2> SUFFICES ASSUME NEW k \in 1 .. Len(ix)
               PROVE  e[Pos(ix, k).file][Pos(ix, k).offset] = c[k - 1]
    BY DEF Right
  <2>1. k \in 0 .. Len(ix) /\ k > 0
    OBVIOUS
  <2> QED BY <1>2, <1>4, <2>1 DEF Right
<1> QED BY <1>2, <1>4, <1>5 DEF TableDisk

LEMMA SyncTableStep ==
  ASSUME Inv, NEW u \in Tables, SyncTable(u)
  PROVE  Inv'
<1> DEFINE f == headId[u]
<1>1. /\ pc = "sync" /\ u \in todo
      /\ indexSynced' = [indexSynced EXCEPT ![u] = Len(index[u])]
      /\ dataSynced' = [dataSynced EXCEPT ![u][f] = Len(data[u][f])]
      /\ todo' = todo \ {u}
      /\ UNCHANGED <<env, index, data, memory, frozen, store, markers, pc, at,
                     written, batch, cut, target, after, reader, faults>>
  BY DEF SyncTable
<1>2. /\ items' = items /\ headId' = headId /\ kv' = kv /\ side' = side /\ root' = root
      /\ head' = head /\ chain' = chain /\ version' = version /\ first' = first /\ limit' = limit
  BY <1>1 DEF memory, store, markers, batch
<1>3. f \in Files /\ DiskType /\ MemoryType
  BY DEF Inv, Types, MemoryType
<1>4. /\ indexSynced' = [t \in Tables |-> indexSynced'[t]] /\ indexSynced'[u] = Len(index[u])
      /\ \A t \in Tables : t # u => indexSynced'[t] = indexSynced[t]
  BY <1>1, <1>3, TableSet DEF DiskType
<1>5. dataSynced' = [dataSynced EXCEPT ![u] = [dataSynced[u] EXCEPT ![f] = Len(data[u][f])]]
  BY <1>1
<1>6. /\ dataSynced' = [t \in Tables |-> dataSynced'[t]]
      /\ dataSynced'[u] = [dataSynced[u] EXCEPT ![f] = Len(data[u][f])]
      /\ \A t \in Tables : t # u => dataSynced'[t] = dataSynced[t]
  <2> HIDE DEF f
  <2> QED BY <1>3, <1>5, TableSet DEF DiskType
<1>7. TableType(index[u], data[u], indexSynced[u], dataSynced[u])
  BY <1>3 DEF DiskType
<1>8. /\ dataSynced'[u] \in [Files -> Nat] /\ dataSynced'[u][f] = Len(data[u][f])
      /\ \A g \in Files : /\ dataSynced'[u][g] \in 0 .. Len(data[u][g])
                          /\ dataSynced'[u][g] >= dataSynced[u][g]
  <2> HIDE DEF f
  <2>1. \A g \in Files : Len(data[u][g]) \in Nat
    BY <1>7 DEF TableType
  <2> QED BY <1>3, <1>6, <1>7, <2>1 DEF TableType
<1>9. TableType(index[u], data[u], indexSynced'[u], dataSynced'[u])
  BY <1>4, <1>7, <1>8 DEF TableType
<1>10. DiskType' /\ DiskInv' /\ Power' = Power /\ Copy' = Copy
  <2>1. TableDisk(index[u], data[u], chain, ~(Power /\ pc = "down"), Power)
    BY DEF Inv, DiskInv
  <2>2. index' = [t \in Tables |-> index'[t]] /\ data' = [t \in Tables |-> data'[t]]
    BY <1>1, <1>3 DEF DiskType
  <2> HIDE DEF f
  <2> QED BY <1>1, <1>2, <1>4, <1>6, <1>9, <2>1, <2>2, TableStep
<1>11. Types'
  BY <1>1, <1>2, <1>10 DEF Inv, Types, StoreType, MemoryType, PhaseType, ReaderType
<1>12. MemoryInv' /\ LengthInv'
  BY <1>1, <1>2, <1>10 DEF Inv, MemoryInv, LengthInv, Rewinding, Ahead, AtEnd
<1>13. PhaseInv' /\ StoreInv' /\ ExactInv' /\ SideInv'
  BY <1>1, <1>2 DEF Inv, PhaseInv, StoreInv, ExactInv, SideInv
<1>14. Running /\ Running'
  BY <1>1 DEF Running
<1>15. ReaderInv'
  BY <1>1, <1>2, <1>14 DEF Inv, ReaderInv
<1>16. \A t \in Tables, n \in Nat : Durable(t, n) => Durable(t, n)'
  <2> SUFFICES ASSUME NEW t \in Tables, NEW n \in Nat, Durable(t, n)
               PROVE  Durable(t, n)'
    OBVIOUS
  <2>1. CASE t # u
    BY <1>1, <1>4, <1>6, <1>10, <2>1 DEF Durable
  <2>2. CASE t = u
    <3>1. 0 \in Files /\ dataSynced'[u][0] \in Nat /\ dataSynced[u][0] \in Nat
      BY <1>7, <1>8, Bounds DEF TableType
    <3>2. dataSynced'[u][0] >= dataSynced[u][0]
      BY <1>8, <3>1
    <3> QED BY <1>1, <1>4, <1>10, <2>2, <3>1, <3>2 DEF Durable
  <2> QED BY <2>1, <2>2
<1>17. BackedInv'
  BY <1>2, <1>14, <1>16, StateNumbers DEF Inv, BackedInv, Backed
<1>18. SyncedInv'
  <2> SUFFICES ASSUME Power, NEW t \in Tables, t \notin todo'
               PROVE  indexSynced'[t] = Len(index[t]) /\ dataSynced'[t][0] = Len(data[t][0])
    BY <1>1, <1>10 DEF SyncedInv
  <2>1. CASE t # u
    BY <1>1, <1>4, <1>6, <2>1 DEF Inv, SyncedInv
  <2>2. CASE t = u
    <3>1. u # cut /\ ~written
      BY <1>1, Bounds DEF Inv, PhaseInv
    <3>2. f = Pos(index[u], Len(index[u])).file
      BY <1>1, <3>1 DEF Inv, MemoryInv, AtEnd
    <3>3. Len(index[u]) \in 0 .. Len(index[u])
      BY <1>7 DEF TableType
    <3>4. f = 0
      BY <3>2, <3>3 DEF Inv, DiskInv, TableDisk
    <3> QED BY <1>4, <1>8, <2>2, <3>4
  <2> QED BY <2>1, <2>2
<1> QED BY <1>10, <1>11, <1>12, <1>13, <1>15, <1>17, <1>18 DEF Inv

\* Files that grow.
LEMMA GrowTable ==
  ASSUME NEW ix \in Seq(Entries), NEW d \in [Files -> Seq(Versions)],
         NEW e \in [Files -> Seq(Versions)], NEW c, NEW one \in BOOLEAN,
         TableDisk(ix, d, c, TRUE, one),
         \A g \in Files : g <= Pos(ix, Len(ix)).file =>
           Len(e[g]) >= Len(d[g]) /\ \A i \in 1 .. Len(d[g]) : e[g][i] = d[g][i]
  PROVE  TableDisk(ix, e, c, TRUE, one)
<1> DEFINE last == Pos(ix, Len(ix))
<1>1. Len(ix) \in Nat /\ Len(ix) \in 0 .. Len(ix) /\ 0 \in 0 .. Len(ix)
  OBVIOUS
<1>2. Ordered(ix) /\ Right(ix, d, c) /\ \A k \in 0 .. Len(ix) : Covered(ix, d, k)
  BY DEF TableDisk
<1>3. last.file \in Files /\ last.file \in Nat /\ last.offset \in Nat
  BY <1>1, PosNumbers
<1>4. ASSUME NEW k \in 0 .. Len(ix)
      PROVE  /\ Covered(ix, e, k)
             /\ k > 0 => e[Pos(ix, k).file][Pos(ix, k).offset] = d[Pos(ix, k).file][Pos(ix, k).offset]
  <2> DEFINE p == Pos(ix, k)
  <2>1. p.file \in Files /\ p.file \in Nat /\ p.offset \in Nat
    BY PosNumbers
  <2>2. p.file <= last.file
    <3>1. k < Len(ix) => p.file <= last.file
      BY <1>1, <1>2 DEF Ordered
    <3>2. k = Len(ix) => p.file = last.file
      OBVIOUS
    <3> HIDE DEF p, last
    <3> QED BY <1>1, <1>3, <2>1, <3>1, <3>2
  <2>3. k > 0 => p.offset > 0
    BY <1>1, <1>2 DEF Ordered
  <2>4. p.offset <= Len(d[p.file]) /\ Len(d[p.file]) \in Nat /\ Len(e[p.file]) \in Nat
    BY <1>2, <2>1 DEF Covered
  <2>5. Len(e[p.file]) >= Len(d[p.file]) /\ \A i \in 1 .. Len(d[p.file]) : e[p.file][i] = d[p.file][i]
    BY <2>1, <2>2
  <2> HIDE DEF p
  <2>6. k > 0 => p.offset \in 1 .. Len(d[p.file])
    BY <2>1, <2>3, <2>4
  <2>7. p.offset <= Len(e[p.file])
    BY <2>1, <2>4, <2>5
  <2> QED BY <2>5, <2>6, <2>7 DEF Covered, p
<1>5. Right(ix, e, c)
  <2> SUFFICES ASSUME NEW k \in 1 .. Len(ix)
               PROVE  e[Pos(ix, k).file][Pos(ix, k).offset] = c[k - 1]
    BY DEF Right
  <2>1. k \in 0 .. Len(ix) /\ k > 0
    OBVIOUS
  <2> QED BY <1>2, <1>4, <2>1 DEF Right
<1> QED BY <1>2, <1>4, <1>5 DEF TableDisk

\* The table that AppendAncient writes to.
LEMMA AppendTable ==
  ASSUME Inv, pc = "append", ~written, items[at] = frozen, frozen <= limit
  PROVE  LET last == Pos(index[at], Len(index[at])) IN
         /\ Len(index[at]) = frozen /\ frozen \in 0 .. head
         /\ headId[at] = last.file /\ Len(data[at][last.file]) = last.offset
         /\ last.file <= frozen /\ NextFile(at) \in Files
         /\ NextFile(at) \in {headId[at], headId[at] + 1}
         /\ Power => NextFile(at) = headId[at]
<1> DEFINE ix == index[at]
           last == Pos(ix, Len(ix))
<1>1. at \in Tables /\ at # cut /\ limit <= head
  BY Bounds DEF Inv, Types, PhaseType, PhaseInv
<1>2. TableType(ix, data[at], indexSynced[at], dataSynced[at]) /\ ix \in Seq(Entries)
  BY <1>1 DEF Inv, Types, DiskType, TableType
<1>3. Len(ix) = frozen /\ AtEnd(ix, data[at], headId[at])
  BY <1>1 DEF Inv, MemoryInv
<1>4. frozen \in 0 .. head /\ head \in Nat /\ head <= MaxBlock /\ frozen \in Nat /\ MaxBlock \in Nat
  BY <1>1, StateNumbers, Bounds DEF Inv
<1>5. Len(ix) \in 0 .. Len(ix) /\ 0 \in 0 .. Len(ix) /\ Len(ix) \in Nat
  BY <1>2
<1>6. last.file \in Files /\ last.file \in Nat /\ last.offset \in Nat
  BY <1>2, <1>5, PosNumbers
<1>7. headId[at] = last.file /\ Len(data[at][last.file]) = last.offset
  BY <1>3 DEF AtEnd
<1>8. TableDisk(ix, data[at], chain, TRUE, Power)
  BY <1>1 DEF Inv, DiskInv, TableDisk
<1>9. last.file <= frozen
  <2>1. CASE Len(ix) = 0
    BY <1>3, <1>4, <2>1 DEF Pos
  <2>2. CASE Len(ix) # 0
    <3>1. last.file <= Pos(ix, 0).file + (Len(ix) - 0)
      BY <1>5, <1>8, <2>2 DEF TableDisk, Ordered
    <3>2. Pos(ix, 0).file = 0
      BY DEF Pos
    <3> HIDE DEF last
    <3> QED BY <1>3, <1>4, <1>6, <3>1, <3>2
  <2> QED BY <2>1, <2>2
<1>10. NextFile(at) = IF last.offset + 1 > env.fileItems THEN headId[at] + 1 ELSE headId[at]
  BY <1>7 DEF NextFile
<1>11. ASSUME Power PROVE NextFile(at) = headId[at]
  <2>1. last.offset = frozen
    BY <1>2, <1>3, <1>5, <1>8, <1>11, OneFile DEF TableDisk
  <2>2. env.fileItems > MaxBlock /\ env.fileItems \in Nat
    BY <1>11, FreezerAssumption DEF Inv, PhaseInv, Tolerated, Power, Types, PhaseType
  <2> HIDE DEF last
  <2> QED BY <1>4, <1>10, <2>1, <2>2
<1>12. NextFile(at) \in {headId[at], headId[at] + 1}
  BY <1>10
<1>13. NextFile(at) \in Files
  <2> HIDE DEF last
  <2>1. headId[at] + 1 \in Files
    BY <1>4, <1>6, <1>7, <1>9 DEF Files
  <2> QED BY <1>6, <1>7, <1>12, <2>1
<1> QED BY <1>3, <1>4, <1>7, <1>9, <1>11, <1>12, <1>13

LEMMA AppendDataStep ==
  ASSUME Inv, AppendData
  PROVE  Inv'
<1> DEFINE f == NextFile(at)
           h == headId[at]
           old == IF f = h THEN data[at][f] ELSE <<>>
           ix == index[at]
           last == Pos(ix, Len(ix))
<1>1. /\ pc = "append" /\ frozen <= limit /\ kv[frozen] # None /\ ~written /\ items[at] = frozen
      /\ data' = [data EXCEPT ![at][f] = Append(old, kv[frozen])]
      /\ dataSynced' = [dataSynced EXCEPT ![at][f] = Min({@, Len(old)})]
      /\ headId' = [headId EXCEPT ![at] = f] /\ written' = TRUE
      /\ UNCHANGED <<env, index, indexSynced, items, frozen, store, markers, pc,
                     at, batch, truncation, reader, faults>>
  BY DEF AppendData
<1>2. /\ kv' = kv /\ side' = side /\ root' = root
      /\ head' = head /\ chain' = chain /\ version' = version /\ first' = first /\ limit' = limit
      /\ cut' = cut /\ todo' = todo /\ target' = target /\ after' = after
  BY <1>1 DEF store, markers, batch, truncation
<1>3. /\ at \in Tables /\ cut = 0 /\ DiskType /\ MemoryType
  BY <1>1 DEF Inv, Types, PhaseType, PhaseInv
<1>4. /\ Len(ix) = frozen /\ frozen \in 0 .. head
      /\ h = last.file /\ Len(data[at][h]) = last.offset /\ last.file <= frozen
      /\ f \in Files /\ f \in {h, h + 1} /\ (Power => f = h)
  BY <1>1, AppendTable
<1>5. TableType(ix, data[at], indexSynced[at], dataSynced[at])
  BY <1>3 DEF DiskType
<1>6. Len(ix) \in 0 .. Len(ix) /\ ix \in Seq(Entries)
  BY <1>5 DEF TableType
<1>7. last.file \in Files /\ last.file \in Nat /\ last.offset \in Nat
  BY <1>6, PosNumbers
<1>8. kv[frozen] \in Versions /\ kv[frozen] = chain[frozen]
  <2>1. frozen \in Numbers
    BY <1>4, StateNumbers, Bounds DEF Inv, Numbers
  <2> QED BY <1>1, <1>4, <2>1 DEF Inv, Types, StoreType, StoreInv
<1> HIDE DEF f, h, ix, last
<1>9. old \in Seq(Versions) /\ Len(old) \in Nat
      /\ (f = h => old = data[at][f]) /\ (f # h => Len(old) = 0)
  BY <1>4, <1>5 DEF TableType
<1>10. /\ Append(old, kv[frozen]) \in Seq(Versions)
       /\ Len(Append(old, kv[frozen])) = Len(old) + 1
       /\ \A i \in 1 .. Len(old) : Append(old, kv[frozen])[i] = old[i]
       /\ Append(old, kv[frozen])[Len(old) + 1] = chain[frozen]
  <2> HIDE DEF old
  <2> QED BY <1>8, <1>9, OneMore
<1> HIDE DEF old
<1> DEFINE new == Append(old, kv[frozen])
<1>11. dataSynced[at][f] \in 0 .. Len(data[at][f]) /\ dataSynced[at] \in [Files -> Nat]
       /\ data[at] \in [Files -> Seq(Versions)] /\ \A g \in Files : Len(data[at][g]) \in Nat
  BY <1>4, <1>5 DEF TableType
<1>12. Min({dataSynced[at][f], Len(old)})
         = IF dataSynced[at][f] <= Len(old) THEN dataSynced[at][f] ELSE Len(old)
  <2>1. dataSynced[at][f] \in Int /\ Len(old) \in Int
    BY <1>9, <1>11
  <2> QED BY <2>1, MinTwo
<1> DEFINE ds == Min({dataSynced[at][f], Len(old)})
<1>13. /\ ds \in Nat /\ ds <= Len(old) /\ (f = h => ds = dataSynced[at][f])
  BY <1>9, <1>11, <1>12
<1>14. /\ data' = [data EXCEPT ![at] = [data[at] EXCEPT ![f] = new]]
       /\ dataSynced' = [dataSynced EXCEPT ![at] = [dataSynced[at] EXCEPT ![f] = ds]]
  BY <1>1
<1> HIDE DEF new, ds
<1>15. /\ data' = [t \in Tables |-> data'[t]] /\ data'[at] = [data[at] EXCEPT ![f] = new]
       /\ \A t \in Tables : t # at => data'[t] = data[t]
  BY <1>3, <1>14, TableSet DEF DiskType
<1>16. /\ dataSynced' = [t \in Tables |-> dataSynced'[t]]
       /\ dataSynced'[at] = [dataSynced[at] EXCEPT ![f] = ds]
       /\ \A t \in Tables : t # at => dataSynced'[t] = dataSynced[t]
  BY <1>3, <1>14, TableSet DEF DiskType
<1>17. /\ data'[at] \in [Files -> Seq(Versions)] /\ data'[at][f] = new
       /\ \A g \in Files : g # f => data'[at][g] = data[at][g]
       /\ dataSynced'[at] \in [Files -> Nat] /\ dataSynced'[at][f] = ds
       /\ \A g \in Files : g # f => dataSynced'[at][g] = dataSynced[at][g]
  BY <1>4, <1>10, <1>11, <1>13, <1>15, <1>16 DEF new
<1>18. TableType(ix, data'[at], indexSynced[at], dataSynced'[at])
  <2> SUFFICES ASSUME NEW g \in Files PROVE dataSynced'[at][g] \in 0 .. Len(data'[at][g])
    BY <1>5, <1>17 DEF TableType
  <2>1. CASE g # f
    BY <1>5, <1>17, <2>1 DEF TableType
  <2>2. CASE g = f
    BY <1>9, <1>10, <1>13, <1>17, <2>2 DEF new
  <2> QED BY <2>1, <2>2
<1>19. TableDisk(ix, data'[at], chain, TRUE, Power)
  <2>1. TableDisk(ix, data[at], chain, TRUE, Power)
    BY <1>1, <1>3 DEF Inv, DiskInv, TableDisk, ix
  <2>2. ASSUME NEW g \in Files, g <= Pos(ix, Len(ix)).file
        PROVE  /\ Len(data'[at][g]) >= Len(data[at][g])
               /\ \A i \in 1 .. Len(data[at][g]) : data'[at][g][i] = data[at][g][i]
    <3>1. CASE g # f
      BY <1>11, <1>17, <3>1
    <3>2. CASE g = f
      <4>1. f = h
        BY <1>4, <1>7, <2>2, <3>2 DEF last
      <4>2. data[at][g] = old /\ data'[at][g] = new
        BY <1>9, <1>17, <3>2, <4>1
      <4>3. Len(new) = Len(old) + 1 /\ \A i \in 1 .. Len(old) : new[i] = old[i]
        BY <1>10 DEF new
      <4> QED BY <1>9, <4>2, <4>3
    <3> QED BY <3>1, <3>2
  <2>3. Power \in BOOLEAN
    BY DEF Power
  <2> QED BY <1>6, <1>11, <1>17, <2>1, <2>2, <2>3, GrowTable
<1>20. DiskType' /\ DiskInv' /\ Power' = Power /\ Copy' = Copy
  <2>1. index' = [t \in Tables |-> index'[t]] /\ indexSynced' = [t \in Tables |-> indexSynced'[t]]
    BY <1>1, <1>3 DEF DiskType
  <2>2. TableDisk(index'[at], data'[at], chain, ~(Power /\ pc = "down"), Power)
    BY <1>1, <1>19 DEF ix, TableDisk
  <2>3. TableType(index'[at], data'[at], indexSynced'[at], dataSynced'[at])
    BY <1>1, <1>18 DEF ix
  <2> QED BY <1>1, <1>2, <1>3, <1>15, <1>16, <2>1, <2>2, <2>3, TableStep
<1>21. /\ headId' \in [Tables -> Files] /\ headId'[at] = f
       /\ \A t \in Tables : t # at => headId'[t] = headId[t]
  BY <1>1, <1>3, <1>4 DEF MemoryType
<1>22. Types'
  BY <1>1, <1>2, <1>20, <1>21 DEF Inv, Types, StoreType, MemoryType, PhaseType, ReaderType
<1>23. MemoryInv'
  <2> SUFFICES ASSUME NEW t \in Tables
               PROVE  /\ (items[t] = Len(index[t]))'
                      /\ IF t = at THEN Ahead(index[t], data[t], headId[t], chain[frozen])'
                         ELSE AtEnd(index[t], data[t], headId[t])'
    BY <1>1, <1>2, <1>3, Bounds DEF MemoryInv
  <2>1. items[t] = Len(index[t]) /\ AtEnd(index[t], data[t], headId[t])
    BY <1>1, <1>3, Bounds DEF Inv, MemoryInv
  <2>2. CASE t # at
    BY <1>1, <1>15, <1>21, <2>1, <2>2 DEF AtEnd
  <2>3. CASE t = at
    <3>1. Len(new) = Len(old) + 1 /\ new[Len(new)] = chain[frozen]
      BY <1>10 DEF new
    <3>2. \/ f = last.file /\ Len(new) = last.offset + 1
          \/ ~Power /\ f = last.file + 1 /\ Len(new) = 1
      BY <1>4, <1>7, <1>9, <3>1
    <3>3. Ahead(index[t], data[t], headId[t], chain[frozen])'
      BY <1>1, <1>2, <1>17, <1>20, <1>21, <2>3, <3>1, <3>2 DEF Ahead, last, ix
    <3> QED BY <1>1, <2>1, <2>3, <3>3
  <2> QED BY <2>2, <2>3
<1>24. LengthInv' /\ PhaseInv' /\ StoreInv' /\ ExactInv' /\ SideInv' /\ SyncedInv'
  <2>1. LengthInv'
    BY <1>1, <1>2 DEF Inv, LengthInv, Rewinding
  <2>2. PhaseInv' /\ StoreInv'
    BY <1>1, <1>2 DEF Inv, PhaseInv, StoreInv
  <2>3. ExactInv' /\ SideInv' /\ SyncedInv'
    BY <1>1, <1>2 DEF Inv, ExactInv, SideInv, SyncedInv
  <2> QED BY <2>1, <2>2, <2>3
<1>25. Running /\ Running'
  BY <1>1 DEF Running
<1>26. ReaderInv'
  BY <1>1, <1>2, <1>25 DEF Inv, ReaderInv
<1>27. \A t \in Tables, n \in Nat : Durable(t, n) => Durable(t, n)'
  <2> SUFFICES ASSUME NEW t \in Tables, NEW n \in Nat, Durable(t, n)
               PROVE  Durable(t, n)'
    OBVIOUS
  <2>1. Power => dataSynced'[t][0] = dataSynced[t][0]
    <3>1. 0 \in Files
      BY Bounds
    <3> QED BY <1>4, <1>13, <1>16, <1>17, <3>1
  <2> QED BY <1>1, <1>20, <2>1 DEF Durable
<1>28. BackedInv'
  BY <1>2, <1>25, <1>27, StateNumbers DEF Inv, BackedInv, Backed
<1> QED BY <1>20, <1>22, <1>23, <1>24, <1>26, <1>28 DEF Inv

\* An index with one more entry, for the last item of the head file.
LEMMA LongTable ==
  ASSUME NEW ix \in Seq(Entries), NEW d \in [Files -> Seq(Versions)], NEW c,
         NEW one \in BOOLEAN, TableDisk(ix, d, c, TRUE, one), NEW e \in Entries,
         LET last == Pos(ix, Len(ix)) IN
         \/ e.file = last.file /\ e.offset = last.offset + 1
         \/ ~one /\ e.file = last.file + 1 /\ e.offset = 1,
         Len(d[e.file]) = e.offset, d[e.file][e.offset] = c[Len(ix)]
  PROVE  TableDisk(Append(ix, e), d, c, TRUE, one)
<1> DEFINE n == Len(ix)
           long == Append(ix, e)
<1>1. n \in Nat /\ n \in 0 .. n
  OBVIOUS
<1>2. /\ long \in Seq(Entries) /\ Len(long) = n + 1 /\ Pos(long, n + 1) = e
      /\ \A k \in 0 .. n : Pos(long, k) = Pos(ix, k)
  BY PosAppend
<1>3. Ordered(long)
  BY OrderedAppend DEF TableDisk
<1> HIDE DEF long
<1>4. ASSUME NEW k \in 0 .. n + 1
      PROVE  /\ Covered(long, d, k)
             /\ k > 0 => d[Pos(long, k).file][Pos(long, k).offset] = c[k - 1]
             /\ one => Pos(long, k).file = 0
  <2>1. CASE k = n + 1
    <3>1. Covered(long, d, k)
      BY <1>2, <2>1 DEF Covered, Entries
    <3>2. d[Pos(long, k).file][Pos(long, k).offset] = c[k - 1]
      BY <1>1, <1>2, <2>1
    <3>3. one => Pos(long, k).file = 0
      BY <1>1, <1>2, <2>1 DEF TableDisk
    <3> QED BY <3>1, <3>2, <3>3
  <2>2. CASE k # n + 1
    <3>1. k \in 0 .. n /\ (k > 0 => k \in 1 .. n)
      BY <1>1, <2>2
    <3> QED BY <1>2, <3>1 DEF TableDisk, Covered, Right
  <2> QED BY <2>1, <2>2
<1>5. Right(long, d, c)
  <2> SUFFICES ASSUME NEW k \in 1 .. n + 1
               PROVE  d[Pos(long, k).file][Pos(long, k).offset] = c[k - 1]
    BY <1>2 DEF Right
  <2>1. k \in 0 .. n + 1 /\ k > 0
    BY <1>1
  <2> QED BY <1>4, <2>1
<1> QED BY <1>2, <1>3, <1>4, <1>5 DEF TableDisk, long

LEMMA AppendIndexStep ==
  ASSUME Inv, AppendIndex
  PROVE  Inv'
<1> DEFINE h == headId[at]
           ix == index[at]
           last == Pos(ix, Len(ix))
           entry == [file |-> h, offset |-> Len(data[at][h])]
<1>1. /\ pc = "append" /\ written /\ written' = FALSE
      /\ index' = [index EXCEPT ![at] = Append(@, entry)]
      /\ items' = [items EXCEPT ![at] = @ + 1]
      /\ at' = IF at = NTables THEN 1 ELSE at + 1
      /\ frozen' = IF at = NTables THEN frozen + 1 ELSE frozen
      /\ UNCHANGED <<env, data, indexSynced, dataSynced, headId, store, markers,
                     pc, batch, truncation, reader, faults>>
  BY DEF AppendIndex
<1>2. /\ kv' = kv /\ side' = side /\ root' = root
      /\ head' = head /\ chain' = chain /\ version' = version /\ first' = first /\ limit' = limit
      /\ cut' = cut /\ todo' = todo /\ target' = target /\ after' = after
  BY <1>1 DEF store, markers, batch, truncation
<1>3. /\ at \in Tables /\ cut = 0 /\ DiskType /\ MemoryType /\ frozen <= limit /\ limit <= head
  BY <1>1 DEF Inv, Types, PhaseType, PhaseInv
<1>4. /\ at \in Nat /\ at' \in Tables /\ frozen \in Nat /\ head \in Nat /\ limit \in Nat
      /\ first \in Nat
  BY <1>1, <1>3, StateNumbers, Bounds DEF Tables, Inv
<1>5. /\ Len(ix) = frozen /\ items[at] = frozen
      /\ Ahead(ix, data[at], h, chain[frozen])
  BY <1>1, <1>3, <1>4, Bounds DEF Inv, MemoryInv, LengthInv
<1>6. TableType(ix, data[at], indexSynced[at], dataSynced[at]) /\ h \in Files
  BY <1>3 DEF DiskType, MemoryType
<1>7. entry \in Entries /\ ix \in Seq(Entries) /\ data[at] \in [Files -> Seq(Versions)]
      /\ entry.file = h /\ entry.offset = Len(data[at][h])
  BY <1>6 DEF TableType, Entries
<1>8. TableDisk(ix, data[at], chain, TRUE, Power)
  BY <1>1, <1>3 DEF Inv, DiskInv, TableDisk
<1>9. TableDisk(Append(ix, entry), data[at], chain, TRUE, Power)
  <2>1. \/ h = last.file /\ Len(data[at][h]) = last.offset + 1
        \/ ~Power /\ h = last.file + 1 /\ Len(data[at][h]) = 1
    BY <1>5 DEF Ahead
  <2>2. data[at][h][Len(data[at][h])] = chain[Len(ix)]
    BY <1>5 DEF Ahead
  <2>3. Power \in BOOLEAN
    BY DEF Power
  <2> HIDE DEF entry, h, ix
  <2> QED BY <1>7, <1>8, <2>1, <2>2, <2>3, LongTable
<1>10. /\ Append(ix, entry) \in Seq(Entries) /\ Len(Append(ix, entry)) = frozen + 1
       /\ Pos(Append(ix, entry), frozen + 1) = entry
  <2> HIDE DEF entry
  <2> QED BY <1>5, <1>7, PosAppend
<1>11. index' = [index EXCEPT ![at] = Append(ix, entry)]
  BY <1>1
<1> HIDE DEF entry, ix, h, last
<1>12. /\ index' = [t \in Tables |-> index'[t]] /\ index'[at] = Append(ix, entry)
       /\ \A t \in Tables : t # at => index'[t] = index[t]
  BY <1>3, <1>11, TableSet DEF DiskType
<1>13. DiskType' /\ DiskInv' /\ Power' = Power /\ Copy' = Copy
  <2>1. /\ data' = [t \in Tables |-> data'[t]] /\ indexSynced' = [t \in Tables |-> indexSynced'[t]]
        /\ dataSynced' = [t \in Tables |-> dataSynced'[t]]
    BY <1>1, <1>3 DEF DiskType
  <2>2. TableDisk(index'[at], data'[at], chain, ~(Power /\ pc = "down"), Power)
    BY <1>1, <1>9, <1>12 DEF TableDisk
  <2>3. indexSynced[at] \in 0 .. Len(index'[at])
    BY <1>4, <1>5, <1>6, <1>10, <1>12 DEF TableType
  <2>4. TableType(index'[at], data'[at], indexSynced'[at], dataSynced'[at])
    BY <1>1, <1>6, <1>10, <1>12, <2>3 DEF TableType
  <2> QED BY <1>1, <1>2, <1>3, <1>12, <2>1, <2>2, <2>4, TableStep
<1>14. /\ items' \in [Tables -> Nat] /\ items'[at] = frozen + 1
       /\ \A t \in Tables : t # at => items'[t] = items[t]
  BY <1>1, <1>3, <1>4, <1>5 DEF MemoryType
<1>15. frozen' \in Nat /\ frozen' >= frozen /\ frozen' <= frozen + 1
  BY <1>1, <1>4
<1>16. Types'
  BY <1>1, <1>2, <1>4, <1>13, <1>14, <1>15
     DEF Inv, Types, StoreType, MemoryType, PhaseType, ReaderType
<1>17. MemoryInv'
  <2> SUFFICES ASSUME NEW t \in Tables
               PROVE  (items[t] = Len(index[t]) /\ AtEnd(index[t], data[t], headId[t]))'
    BY <1>1, <1>2, <1>3, Bounds DEF MemoryInv
  <2>1. CASE t # at
    <3>1. items[t] = Len(index[t]) /\ AtEnd(index[t], data[t], headId[t])
      BY <1>1, <1>3, <2>1, Bounds DEF Inv, MemoryInv
    <3> QED BY <1>1, <1>12, <1>14, <2>1, <3>1 DEF AtEnd
  <2>2. CASE t = at
    BY <1>1, <1>7, <1>10, <1>12, <1>14, <2>2 DEF AtEnd, h
  <2> QED BY <2>1, <2>2
<1>18. LengthInv'
  <2>1. ASSUME NEW t \in Tables
        PROVE  /\ items'[t] = IF t < at' THEN frozen' + 1 ELSE frozen'
               /\ Len(index'[t]) <= head + 1
    <3>1. items[t] = IF t < at THEN frozen + 1 ELSE frozen
      BY <1>1 DEF Inv, LengthInv
    <3>2. t \in 1 .. NTables /\ at \in 1 .. NTables /\ NTables \in Nat
      BY <1>3, Bounds DEF Tables
    <3>3. t # at => Len(index[t]) <= head + 1
      BY <1>1 DEF Inv, LengthInv, Rewinding
    <3>4. Len(index'[t]) <= head + 1
      BY <1>3, <1>4, <1>10, <1>12, <3>3
    <3>5. items'[t] = IF t < at' THEN frozen' + 1 ELSE frozen'
      <4>1. CASE at = NTables
        BY <1>1, <1>4, <1>14, <3>1, <3>2, <4>1
      <4>2. CASE at # NTables
        BY <1>1, <1>4, <1>14, <3>1, <3>2, <4>2
      <4> QED BY <4>1, <4>2
    <3> QED BY <3>4, <3>5
  <2>2. frozen' <= head + 1
    BY <1>3, <1>4, <1>15
  <2> QED BY <1>1, <1>2, <2>1, <2>2 DEF LengthInv, Rewinding
<1>19. PhaseInv'
  <2>1. frozen' <= limit \/ (at' = 1 /\ ~written')
    BY <1>1, <1>3
  <2>2. first <= frozen'
    BY <1>1, <1>4, <1>15 DEF Inv, PhaseInv
  <2> QED BY <1>1, <1>2, <1>3, <2>1, <2>2 DEF Inv, PhaseInv
<1>20. StoreInv' /\ ExactInv' /\ SideInv' /\ SyncedInv'
  BY <1>1, <1>2 DEF Inv, StoreInv, ExactInv, SideInv, SyncedInv
<1>21. Running /\ Running'
  BY <1>1 DEF Running
<1>22. ReaderInv'
  BY <1>1, <1>2, <1>21 DEF Inv, ReaderInv
<1>23. \A t \in Tables, n \in Nat : Durable(t, n) => Durable(t, n)'
  <2>1. ASSUME NEW t \in Tables
        PROVE  Len(index'[t]) >= Len(index[t]) /\ Len(index'[t]) \in Nat /\ Len(index[t]) \in Nat
    <3>1. CASE t # at
      BY <1>12, <3>1, StateNumbers DEF Inv
    <3>2. CASE t = at
      BY <1>4, <1>5, <1>10, <1>12, <3>2 DEF ix
    <3> QED BY <3>1, <3>2
  <2> QED BY <1>1, <1>13, <2>1 DEF Durable
<1>24. BackedInv'
  BY <1>2, <1>21, <1>23, StateNumbers DEF Inv, BackedInv, Backed
<1> QED BY <1>13, <1>16, <1>17, <1>18, <1>19, <1>20, <1>22, <1>24 DEF Inv

LEMMA TruncateIndexStep ==
  ASSUME Inv, NEW u \in Tables, TruncateIndex(u)
  PROVE  Inv'
<1> DEFINE ix == index[u]
           short == SubSeq(ix, 1, target)
           xs == Min({indexSynced[u], target})
<1>1. /\ pc = "truncate" /\ u \in todo /\ cut = 0 /\ todo' = todo \ {u}
      /\ UNCHANGED <<env, data, dataSynced, memory, frozen, store, markers, pc,
                     at, written, batch, target, after, reader, faults>>
  BY DEF TruncateIndex
<1>2. /\ kv' = kv /\ side' = side /\ root' = root /\ items' = items /\ headId' = headId
      /\ head' = head /\ chain' = chain /\ version' = version /\ first' = first /\ limit' = limit
  BY <1>1 DEF store, markers, batch, memory
<1>3. \/ items[u] <= target /\ cut' = cut /\ index' = index /\ indexSynced' = indexSynced
      \/ /\ ~(items[u] <= target) /\ cut' = u
         /\ index' = [index EXCEPT ![u] = short]
         /\ indexSynced' = [indexSynced EXCEPT ![u] = xs]
  BY DEF TruncateIndex
<1>4. /\ ~written /\ DiskType /\ \A t \in Tables : t # cut
      /\ \A t \in Tables : items[t] = Len(index[t]) /\ AtEnd(index[t], data[t], headId[t])
  BY <1>1, Bounds DEF Inv, PhaseInv, Types, MemoryInv
<1>5. target \in Nat /\ head \in Nat /\ \A t \in Tables : items[t] \in Nat /\ items[t] >= target
  BY <1>1, StateNumbers DEF Inv, LengthInv
<1>6. TableType(ix, data[u], indexSynced[u], dataSynced[u])
  BY <1>4 DEF DiskType
<1>7. Running' = Running /\ Power' = Power /\ Copy' = Copy
  BY <1>1 DEF Running, Power, Copy
<1>8. StoreInv' /\ ExactInv' /\ SideInv' /\ ReaderInv'
  BY <1>1, <1>2, <1>7 DEF Inv, StoreInv, ExactInv, SideInv, ReaderInv
<1>9. CASE items[u] <= target
  <2>1. cut' = cut /\ index' = index /\ indexSynced' = indexSynced
    BY <1>3, <1>9
  <2>2. items[u] = target
    BY <1>5, <1>9
  <2>3. UNCHANGED <<env, disk, memory, chain, cut>>
    BY <1>1, <1>2, <2>1 DEF disk
  <2>4. DiskType' /\ DiskInv' /\ MemoryInv'
    BY <1>1, <1>4, <2>3, FilesKept
  <2>5. Types'
    BY <1>1, <1>2, <2>1, <2>4 DEF Inv, Types, StoreType, MemoryType, PhaseType, ReaderType
  <2>6. LengthInv'
    BY <1>1, <1>2, <2>1, <2>2 DEF Inv, LengthInv, Rewinding
  <2>7. PhaseInv'
    BY <1>1, <1>2, <2>1 DEF Inv, PhaseInv
  <2>8. SyncedInv'
    BY <1>1, <1>7, <2>1 DEF Inv, SyncedInv
  <2>9. BackedInv'
    BY <1>1, <1>2, <1>7, <2>1 DEF Inv, BackedInv, Backed, Durable
  <2> QED BY <1>8, <2>4, <2>5, <2>6, <2>7, <2>8, <2>9 DEF Inv
<1>10. CASE ~(items[u] <= target)
  <2>1. cut' = u /\ index' = [index EXCEPT ![u] = short]
        /\ indexSynced' = [indexSynced EXCEPT ![u] = xs]
    BY <1>3, <1>10
  <2>2. ix \in Seq(Entries) /\ target \in 0 .. Len(ix) /\ target < Len(ix) /\ Len(ix) \in Nat
        /\ indexSynced[u] \in 0 .. Len(ix)
    BY <1>4, <1>5, <1>6, <1>10 DEF TableType
  <2>3. /\ short \in Seq(Entries) /\ Len(short) = target
        /\ \A k \in 0 .. target : Pos(short, k) = Pos(ix, k)
    BY <2>2, PosCut
  <2>4. xs = IF indexSynced[u] <= target THEN indexSynced[u] ELSE target
    BY <2>2, MinTwo
  <2> HIDE DEF short, xs
  <2>5. /\ index' = [t \in Tables |-> index'[t]] /\ index'[u] = short
        /\ \A t \in Tables : t # u => index'[t] = index[t]
    BY <1>4, <2>1, TableSet DEF DiskType
  <2>6. /\ indexSynced' = [t \in Tables |-> indexSynced'[t]] /\ indexSynced'[u] = xs
        /\ \A t \in Tables : t # u => indexSynced'[t] = indexSynced[t]
    BY <1>4, <2>1, TableSet DEF DiskType
  <2>7. TableDisk(ix, data[u], chain, TRUE, Power)
    BY <1>1 DEF Inv, DiskInv, TableDisk
  <2>8. DiskType' /\ DiskInv'
    <3>1. data' = [t \in Tables |-> data'[t]] /\ dataSynced' = [t \in Tables |-> dataSynced'[t]]
      BY <1>1, <1>4 DEF DiskType
    <3>2. Power \in BOOLEAN
      BY DEF Power
    <3>3. TableDisk(short, data[u], chain, TRUE, Power)
      BY <2>2, <2>7, <3>2, CutTable DEF short
    <3>4. TableDisk(index'[u], data'[u], chain, ~(Power /\ pc = "down"), Power)
      BY <1>1, <2>5, <3>3 DEF TableDisk
    <3>5. TableType(index'[u], data'[u], indexSynced'[u], dataSynced'[u])
      BY <1>1, <1>6, <2>2, <2>3, <2>4, <2>5, <2>6 DEF TableType
    <3> HIDE DEF ix
    <3> QED BY <1>1, <1>2, <2>5, <2>6, <3>1, <3>4, <3>5, TableStep
  <2>9. Types'
    BY <1>1, <1>2, <2>1, <2>8 DEF Inv, Types, StoreType, MemoryType, PhaseType, ReaderType
  <2>10. MemoryInv'
    <3> SUFFICES ASSUME NEW t \in Tables
                 PROVE  IF t = u THEN (/\ Len(index[t]) = target /\ target < items[t]
                                       /\ Pos(index[t], target).file <= headId[t])'
                        ELSE (items[t] = Len(index[t]) /\ AtEnd(index[t], data[t], headId[t]))'
      BY <1>1, <1>4, <2>1 DEF MemoryInv
    <3>1. CASE t # u
      BY <1>1, <1>2, <1>4, <2>5, <3>1 DEF AtEnd
    <3>2. CASE t = u
      <4>1. headId[u] = Pos(ix, Len(ix)).file
        BY <1>4 DEF AtEnd
      <4>2. Pos(ix, target).file <= Pos(ix, Len(ix)).file
        BY <2>2, <2>7 DEF TableDisk, Ordered
      <4>3. Pos(short, target) = Pos(ix, target)
        BY <1>5, <2>3
      <4> QED BY <1>1, <1>2, <1>4, <1>5, <1>10, <2>3, <2>5, <3>2, <4>1, <4>2, <4>3
    <3> QED BY <3>1, <3>2
  <2>11. LengthInv'
    <3>1. \A t \in Tables : Len(index'[t]) <= IF Rewinding THEN head + 2 ELSE head + 1
      <4> SUFFICES ASSUME NEW t \in Tables
                   PROVE  Len(index'[t]) <= IF Rewinding THEN head + 2 ELSE head + 1
        OBVIOUS
      <4>1. Len(index[t]) <= IF Rewinding THEN head + 2 ELSE head + 1
        BY DEF Inv, LengthInv
      <4>2. Len(index'[t]) = Len(index[t]) \/ (t = u /\ Len(index'[t]) = target)
        BY <2>3, <2>5
      <4> QED BY <1>5, <2>2, <4>1, <4>2
    <3>2. \A t \in Tables : t \notin todo' /\ t # cut' => t \notin todo
      BY <1>1, <2>1
    <3>3. \E t \in Tables : Len(index'[t]) = target
      BY <2>3, <2>5
    <3> QED BY <1>1, <1>2, <1>4, <3>1, <3>2, <3>3 DEF Inv, LengthInv, Rewinding
  <2>12. PhaseInv'
    BY <1>1, <1>2, <2>1 DEF Inv, PhaseInv
  <2>13. SyncedInv'
    <3> SUFFICES ASSUME Power, after = "validate", NEW t \in Tables
                 PROVE  indexSynced'[t] = Len(index'[t]) /\ dataSynced[t][0] >= Len(index'[t])
      BY <1>1, <1>7 DEF SyncedInv
    <3>1. indexSynced[t] = Len(index[t]) /\ dataSynced[t][0] >= Len(index[t])
      BY <1>1 DEF Inv, SyncedInv
    <3>2. CASE t # u
      BY <2>5, <2>6, <3>1, <3>2
    <3>3. CASE t = u
      <4>1. dataSynced[u][0] \in Nat
        BY <1>6, Bounds DEF TableType
      <4> QED BY <1>5, <2>2, <2>3, <2>4, <2>5, <2>6, <3>1, <3>3, <4>1
    <3> QED BY <3>2, <3>3
  <2>14. ASSUME NEW n \in Nat, \A t \in Tables : Durable(t, n), n <= head
         PROVE  \A t \in Tables : Durable(t, n)'
    <3>1. n < target
      <4>1. CASE after = "rewind"
        BY <1>1, <1>5, <2>14, <4>1 DEF Inv, PhaseInv
      <4>2. CASE after # "rewind"
        BY <1>1, <2>14, <4>2 DEF Inv, LengthInv, Durable
      <4> QED BY <4>1, <4>2
    <3> SUFFICES ASSUME NEW t \in Tables
                 PROVE  Durable(t, n)'
      OBVIOUS
    <3>2. Durable(t, n)
      BY <2>14
    <3>3. CASE t # u
      BY <1>1, <1>7, <2>5, <2>6, <3>2, <3>3 DEF Durable
    <3>4. CASE t = u
      <4>1. Power => n < xs
        BY <1>5, <2>2, <2>4, <3>1, <3>2, <3>4 DEF Durable
      <4> QED BY <1>1, <1>7, <2>3, <2>5, <2>6, <3>1, <3>2, <3>4, <4>1 DEF Durable
    <3> QED BY <3>3, <3>4
  <2>15. BackedInv'
    <3>1. \A n \in 1 .. head : n \in Nat /\ n <= head
      BY <1>5
    <3>2. CASE Running \/ ~Copy
      BY <1>2, <1>7, <2>14, <3>1, <3>2 DEF Inv, BackedInv, Backed
    <3>3. CASE ~(Running \/ ~Copy)
      BY <1>2, <1>5, <1>7, <2>14, <3>1, <3>3 DEF Inv, BackedInv
    <3> QED BY <3>2, <3>3
  <2> QED BY <1>8, <2>8, <2>9, <2>10, <2>11, <2>12, <2>13, <2>15 DEF Inv
<1> QED BY <1>9, <1>10

\* All of a sequence.
LEMMA WholePrefix ==
  ASSUME NEW S, NEW s \in Seq(S)
  PROVE  SubSeq(s, 1, Len(s)) = s
<1> DEFINE u == SubSeq(s, 1, Len(s))
<1>1. Len(s) \in 0 .. Len(s)
  OBVIOUS
<1>2. u \in Seq(S) /\ Len(u) = Len(s) /\ \A i \in 1 .. Len(s) : u[i] = s[i]
  BY <1>1, Prefix
<1> HIDE DEF u
<1>3. u = s
  BY <1>2, SeqEqual
<1> QED BY <1>3 DEF u

LEMMA TruncateDataStep ==
  ASSUME Inv, TruncateData
  PROVE  Inv'
<1> DEFINE last == Entry(cut, target)
           gone(f) == f > last.file /\ f <= headId[cut]
           size(f, n) == IF gone(f) THEN 0
                         ELSE IF f = last.file THEN Min({n, last.offset}) ELSE n
           ix == index[cut]
           d == data[cut]
           e == [f \in Files |-> SubSeq(d[f], 1, size(f, Len(d[f])))]
           ds == [f \in Files |-> size(f, dataSynced[cut][f])]
<1>1. /\ pc = "truncate" /\ cut # 0 /\ cut' = 0
      /\ data' = [data EXCEPT ![cut] = e] /\ dataSynced' = [dataSynced EXCEPT ![cut] = ds]
      /\ headId' = [headId EXCEPT ![cut] = last.file]
      /\ items' = [items EXCEPT ![cut] = target]
      /\ UNCHANGED <<env, index, indexSynced, frozen, store, markers, pc, at,
                     written, batch, todo, target, after, reader, faults>>
  BY DEF TruncateData
<1>2. /\ kv' = kv /\ side' = side /\ root' = root
      /\ head' = head /\ chain' = chain /\ version' = version /\ first' = first /\ limit' = limit
  BY <1>1 DEF store, markers, batch
<1>3. /\ cut \in Tables /\ ~written /\ cut \notin todo /\ DiskType /\ MemoryType
      /\ target \in Nat
  BY <1>1, StateNumbers DEF Inv, Types, PhaseType, PhaseInv
<1>4. Len(ix) = target
  BY <1>1, <1>3 DEF Inv, MemoryInv
<1>5. TableType(ix, d, indexSynced[cut], dataSynced[cut])
  BY <1>3 DEF DiskType
<1>6. /\ ix \in Seq(Entries) /\ d \in [Files -> Seq(Versions)] /\ target \in 0 .. Len(ix)
      /\ \A f \in Files : /\ Len(d[f]) \in Nat /\ dataSynced[cut][f] \in 0 .. Len(d[f])
                          /\ dataSynced[cut][f] \in Nat
  BY <1>3, <1>4, <1>5 DEF TableType
<1>7. last = Pos(ix, Len(ix))
  BY <1>4 DEF Entry, Pos
<1>8. last.file \in Files /\ last.file \in Nat /\ last.offset \in Nat
  BY <1>4, <1>6, <1>7, PosNumbers
<1>9. TableDisk(ix, d, chain, TRUE, Power)
  BY <1>1, <1>3 DEF Inv, DiskInv, TableDisk
<1>10. last.offset <= Len(d[last.file])
  BY <1>4, <1>6, <1>7, <1>9 DEF TableDisk, Covered
<1> HIDE DEF last, ix, d
<1>11. ASSUME NEW f \in Files, NEW n \in Nat
       PROVE  /\ size(f, n) \in 0 .. n
              /\ f < last.file => size(f, n) = n
              /\ f = last.file => size(f, n) = IF n <= last.offset THEN n ELSE last.offset
              /\ \A m \in Nat : m <= n => size(f, m) <= size(f, n)
  <2>1. \A m \in Nat : Min({m, last.offset}) = IF m <= last.offset THEN m ELSE last.offset
    BY <1>8, MinTwo
  <2>2. f \in Nat
    BY Bounds DEF Files
  <2>3. CASE f < last.file
    <3>1. ~gone(f) /\ f # last.file
      BY <1>8, <2>2, <2>3
    <3> QED BY <1>8, <2>2, <2>3, <3>1
  <2>4. CASE f = last.file
    <3>1. ~gone(f)
      BY <1>8, <2>4
    <3> QED BY <1>8, <2>1, <2>4, <3>1
  <2>5. CASE f > last.file
    BY <1>8, <2>2, <2>5
  <2> QED BY <1>8, <2>2, <2>3, <2>4, <2>5
<1> HIDE DEF size
<1>12. ASSUME NEW f \in Files
       PROVE  /\ e[f] \in Seq(Versions) /\ Len(e[f]) = size(f, Len(d[f]))
              /\ \A i \in 1 .. size(f, Len(d[f])) : e[f][i] = d[f][i]
              /\ f < last.file => e[f] = d[f]
              /\ ds[f] \in Nat /\ ds[f] \in 0 .. Len(e[f]) /\ ds[f] = size(f, dataSynced[cut][f])
  <2>1. size(f, Len(d[f])) \in 0 .. Len(d[f]) /\ d[f] \in Seq(Versions)
        /\ e[f] = SubSeq(d[f], 1, size(f, Len(d[f])))
    BY <1>6, <1>11
  <2>2. /\ e[f] \in Seq(Versions) /\ Len(e[f]) = size(f, Len(d[f]))
        /\ \A i \in 1 .. size(f, Len(d[f])) : e[f][i] = d[f][i]
    <3> HIDE DEF e
    <3> QED BY <2>1, Prefix
  <2>3. f < last.file => e[f] = d[f]
    BY <1>6, <1>11, <2>1, WholePrefix
  <2>4. ds[f] = size(f, dataSynced[cut][f])
    OBVIOUS
  <2>5. /\ ds[f] \in 0 .. dataSynced[cut][f] /\ ds[f] <= size(f, Len(d[f]))
    <3>1. dataSynced[cut][f] \in Nat /\ Len(d[f]) \in Nat /\ dataSynced[cut][f] <= Len(d[f])
      BY <1>6
    <3> QED BY <1>11, <2>4, <3>1
  <2> HIDE DEF e, ds
  <2>6. dataSynced[cut][f] \in Nat /\ Len(e[f]) \in Nat
    BY <1>6, <2>2
  <2> QED BY <2>2, <2>3, <2>4, <2>5, <2>6
<1>13. e \in [Files -> Seq(Versions)] /\ ds \in [Files -> Nat]
  BY <1>12
<1> HIDE DEF e, ds
<1>14. /\ data' = [t \in Tables |-> data'[t]] /\ data'[cut] = e
       /\ \A t \in Tables : t # cut => data'[t] = data[t]
  BY <1>1, <1>3, TableSet DEF DiskType
<1>15. /\ dataSynced' = [t \in Tables |-> dataSynced'[t]] /\ dataSynced'[cut] = ds
       /\ \A t \in Tables : t # cut => dataSynced'[t] = dataSynced[t]
  BY <1>1, <1>3, TableSet DEF DiskType
<1>16. Len(e[last.file]) = last.offset
       /\ \A i \in 1 .. last.offset : e[last.file][i] = d[last.file][i]
  <2>1. size(last.file, Len(d[last.file])) = last.offset
    BY <1>6, <1>8, <1>10, <1>11
  <2> QED BY <1>8, <1>12, <2>1
<1>17. TableDisk(ix, e, chain, TRUE, Power)
  <2>1. Power \in BOOLEAN
    BY DEF Power
  <2> QED BY <1>6, <1>7, <1>9, <1>12, <1>13, <1>16, <2>1, TrimTable
<1>18. DiskType' /\ DiskInv' /\ Power' = Power /\ Copy' = Copy
  <2>1. /\ index' = [t \in Tables |-> index'[t]]
        /\ indexSynced' = [t \in Tables |-> indexSynced'[t]]
    BY <1>1, <1>3 DEF DiskType
  <2>2. TableDisk(index'[cut], data'[cut], chain, ~(Power /\ pc = "down"), Power)
    BY <1>1, <1>14, <1>17 DEF TableDisk, ix
  <2>3. TableType(index'[cut], data'[cut], indexSynced'[cut], dataSynced'[cut])
    BY <1>1, <1>5, <1>12, <1>13, <1>14, <1>15 DEF TableType, ix
  <2> QED BY <1>1, <1>2, <1>3, <1>14, <1>15, <2>1, <2>2, <2>3, TableStep
<1>19. /\ headId' \in [Tables -> Files] /\ headId'[cut] = last.file
       /\ items' \in [Tables -> Nat] /\ items'[cut] = target
       /\ \A t \in Tables : t # cut => items'[t] = items[t] /\ headId'[t] = headId[t]
  BY <1>1, <1>3, <1>8 DEF MemoryType
<1>20. Types'
  BY <1>1, <1>2, <1>18, <1>19 DEF Inv, Types, StoreType, MemoryType, PhaseType, ReaderType
<1>21. MemoryInv'
  <2> SUFFICES ASSUME NEW t \in Tables
               PROVE  (items[t] = Len(index[t]) /\ AtEnd(index[t], data[t], headId[t]))'
    BY <1>1, <1>3, Bounds DEF MemoryInv
  <2>1. CASE t # cut
    <3>1. items[t] = Len(index[t]) /\ AtEnd(index[t], data[t], headId[t])
      BY <1>1, <1>3, <2>1 DEF Inv, MemoryInv
    <3> QED BY <1>1, <1>14, <1>19, <2>1, <3>1 DEF AtEnd
  <2>2. CASE t = cut
    BY <1>1, <1>4, <1>7, <1>14, <1>16, <1>19, <2>2 DEF AtEnd, ix
  <2> QED BY <2>1, <2>2
<1>22. LengthInv'
  <2>1. ASSUME NEW t \in Tables
        PROVE  items'[t] >= target /\ (t \notin todo => items'[t] = target)
    <3>1. items[t] >= target /\ (t \notin todo /\ t # cut => items[t] = target)
      BY <1>1 DEF Inv, LengthInv
    <3> QED BY <1>3, <1>19, <3>1
  <2> QED BY <1>1, <1>2, <2>1 DEF Inv, LengthInv, Rewinding
<1>23. PhaseInv' /\ StoreInv' /\ ExactInv' /\ SideInv'
  BY <1>1, <1>2 DEF Inv, PhaseInv, StoreInv, ExactInv, SideInv
<1>24. Running' = Running
  BY <1>1 DEF Running
<1>25. ReaderInv'
  BY <1>1, <1>2, <1>24 DEF Inv, ReaderInv
<1>26. Power => ds[0] = IF dataSynced[cut][0] <= target THEN dataSynced[cut][0] ELSE target
  <2> SUFFICES ASSUME Power
               PROVE  ds[0] = IF dataSynced[cut][0] <= target THEN dataSynced[cut][0] ELSE target
    OBVIOUS
  <2>1. last.file = 0 /\ last.offset = target
    BY <1>4, <1>6, <1>7, <1>9, OneFile DEF TableDisk
  <2> QED BY <1>6, <1>8, <1>11, <1>12, <2>1
<1>27. dataSynced[cut][0] \in Nat
  BY <1>6, Bounds
<1>28. SyncedInv'
  <2> SUFFICES ASSUME Power, after = "validate", NEW t \in Tables
               PROVE  indexSynced[t] = Len(index[t]) /\ dataSynced'[t][0] >= Len(index[t])
    BY <1>1, <1>18 DEF SyncedInv
  <2>1. indexSynced[t] = Len(index[t]) /\ dataSynced[t][0] >= Len(index[t])
    BY <1>1 DEF Inv, SyncedInv
  <2>2. CASE t # cut
    BY <1>15, <2>1, <2>2
  <2>3. CASE t = cut
    BY <1>3, <1>4, <1>15, <1>26, <1>27, <2>1, <2>3 DEF ix
  <2> QED BY <2>2, <2>3
<1>29. \A t \in Tables, n \in Nat : Durable(t, n) => Durable(t, n)'
  <2> SUFFICES ASSUME NEW t \in Tables, NEW n \in Nat, Durable(t, n)
               PROVE  Durable(t, n)'
    OBVIOUS
  <2>1. CASE t # cut
    BY <1>1, <1>15, <1>18, <2>1 DEF Durable
  <2>2. CASE t = cut
    <3>1. Power => n < ds[0]
      BY <1>3, <1>4, <1>26, <1>27, <2>2 DEF Durable, ix
    <3> QED BY <1>1, <1>15, <1>18, <2>2, <3>1 DEF Durable
  <2> QED BY <2>1, <2>2
<1>30. BackedInv'
  <2>1. CASE Running \/ ~Copy
    BY <1>2, <1>18, <1>24, <1>29, <2>1, StateNumbers DEF Inv, BackedInv, Backed
  <2>2. CASE ~(Running \/ ~Copy)
    BY <1>2, <1>18, <1>24, <1>29, <2>2, StateNumbers DEF Inv, BackedInv
  <2> QED BY <2>1, <2>2
<1> QED BY <1>18, <1>20, <1>21, <1>22, <1>23, <1>25, <1>28, <1>30 DEF Inv

\* What a change of the files while the node is down has to show.
LEMMA DownStep ==
  ASSUME Inv, pc = "down", DiskType', DiskInv', BackedInv',
         UNCHANGED <<env, memory, frozen, store, markers, pc, at, written, batch,
                     truncation, reader, faults>>,
         \A t \in Tables : Len(index'[t]) <= Len(index[t]) /\ Len(index'[t]) \in Nat
  PROVE  Inv'
<1>1. /\ kv' = kv /\ side' = side /\ root' = root /\ head' = head /\ chain' = chain
      /\ version' = version /\ first' = first /\ limit' = limit /\ headId' = headId
      /\ items' = items /\ cut' = cut /\ todo' = todo /\ target' = target /\ after' = after
  BY DEF store, markers, batch, memory, truncation
<1>2. Types'
  BY <1>1 DEF Inv, Types, StoreType, MemoryType, PhaseType, ReaderType
<1>3. MemoryInv' /\ SyncedInv' /\ PhaseInv' /\ StoreInv' /\ ExactInv' /\ SideInv'
  BY <1>1 DEF Inv, MemoryInv, SyncedInv, PhaseInv, StoreInv, ExactInv, SideInv
<1>4. LengthInv'
  <2>1. ASSUME NEW t \in Tables PROVE Len(index'[t]) <= head + 1
    <3>1. Len(index[t]) <= head + 1 /\ Len(index[t]) \in Nat /\ head \in Nat
      BY StateNumbers DEF Inv, LengthInv, Rewinding
    <3>2. Len(index'[t]) <= Len(index[t]) /\ Len(index'[t]) \in Nat
      OBVIOUS
    <3> QED BY <3>1, <3>2
  <2> QED BY <1>1, <2>1 DEF Inv, LengthInv, Rewinding
<1>5. ReaderInv'
  BY <1>1 DEF Inv, ReaderInv, Running
<1> QED BY <1>2, <1>3, <1>4, <1>5 DEF Inv

\* Files that lose nothing durable.
LEMMA DownBacked ==
  ASSUME Inv, pc = "down", pc' = "down", env' = env, head' = head, kv' = kv,
         \A t \in Tables, n \in Nat : Durable(t, n) => Durable(t, n)'
  PROVE  BackedInv'
<1>1. ~Running /\ ~Running' /\ Copy' = Copy
  BY DEF Running, Copy
<1>2. CASE ~Copy
  BY <1>1, <1>2, StateNumbers DEF Inv, BackedInv, Backed
<1>3. CASE Copy
  BY <1>1, <1>3, StateNumbers DEF Inv, BackedInv
<1> QED BY <1>2, <1>3

LEMMA LoseIndexStep ==
  ASSUME Inv, NEW u \in Tables, LoseIndex(u)
  PROVE  Inv'
<1> DEFINE ix == index[u]
           short == SubSeq(ix, 1, Len(ix) - 1)
<1>1. /\ pc = "down" /\ Power /\ Len(ix) > indexSynced[u]
      /\ index' = [index EXCEPT ![u] = short]
      /\ UNCHANGED <<env, data, indexSynced, dataSynced, memory, frozen, store,
                     markers, pc, at, written, batch, truncation, reader, faults>>
  BY DEF LoseIndex, Power
<1>2. DiskType /\ TableType(ix, data[u], indexSynced[u], dataSynced[u])
  BY DEF Inv, Types, DiskType
<1>3. /\ ix \in Seq(Entries) /\ Len(ix) \in Nat /\ indexSynced[u] \in Nat
      /\ Len(ix) - 1 \in 0 .. Len(ix)
  BY <1>1, <1>2 DEF TableType
<1>4. short \in Seq(Entries) /\ Len(short) = Len(ix) - 1
  BY <1>3, PosCut
<1>5. TableDisk(short, data[u], chain, FALSE, TRUE)
  <2>1. TableDisk(ix, data[u], chain, FALSE, TRUE)
    BY <1>1 DEF Inv, DiskInv, TableDisk
  <2> QED BY <1>3, <2>1, CutTable
<1> HIDE DEF short
<1>6. /\ index' = [t \in Tables |-> index'[t]] /\ index'[u] = short
      /\ \A t \in Tables : t # u => index'[t] = index[t]
  BY <1>1, <1>2, TableSet DEF DiskType
<1>7. chain' = chain /\ kv' = kv /\ head' = head
  BY <1>1 DEF markers, store
<1>8. DiskType' /\ DiskInv' /\ Power' = Power
  <2>1. /\ data' = [t \in Tables |-> data'[t]] /\ dataSynced' = [t \in Tables |-> dataSynced'[t]]
        /\ indexSynced' = [t \in Tables |-> indexSynced'[t]]
    BY <1>1, <1>2 DEF DiskType
  <2>2. TableType(index'[u], data'[u], indexSynced'[u], dataSynced'[u])
    BY <1>1, <1>2, <1>3, <1>4, <1>6 DEF TableType
  <2>3. TableDisk(index'[u], data'[u], chain, ~(Power /\ pc = "down"), Power)
    BY <1>1, <1>5, <1>6 DEF TableDisk
  <2> QED BY <1>1, <1>6, <1>7, <2>1, <2>2, <2>3, TableStep
<1>9. ASSUME NEW t \in Tables, NEW n \in Nat, Durable(t, n)
      PROVE  Durable(t, n)'
  <2>1. CASE t # u
    BY <1>1, <1>6, <1>8, <1>9, <2>1 DEF Durable
  <2>2. CASE t = u
    BY <1>1, <1>3, <1>4, <1>6, <1>8, <1>9, <2>2 DEF Durable
  <2> QED BY <2>1, <2>2
<1>10. BackedInv'
  BY <1>1, <1>7, <1>9, DownBacked
<1>11. \A t \in Tables : Len(index'[t]) <= Len(index[t]) /\ Len(index'[t]) \in Nat
  <2>1. \A t \in Tables : Len(index[t]) \in Nat
    BY StateNumbers DEF Inv
  <2>2. Len(short) \in Nat
    BY <1>4
  <2> QED BY <1>3, <1>4, <1>6, <2>1, <2>2
<1> QED BY <1>1, <1>8, <1>10, <1>11, DownStep

LEMMA LoseDataStep ==
  ASSUME Inv, NEW u \in Tables, NEW f \in Files, LoseData(u, f)
  PROVE  Inv'
<1> DEFINE ix == index[u]
           d == data[u]
           short == SubSeq(d[f], 1, Len(d[f]) - 1)
           e == [d EXCEPT ![f] = short]
<1>1. /\ pc = "down" /\ Power /\ Len(d[f]) > dataSynced[u][f]
      /\ data' = [data EXCEPT ![u][f] = short]
      /\ UNCHANGED <<env, index, indexSynced, dataSynced, memory, frozen, store,
                     markers, pc, at, written, batch, truncation, reader, faults>>
  BY DEF LoseData, Power
<1>2. DiskType /\ TableType(ix, d, indexSynced[u], dataSynced[u])
  BY DEF Inv, Types, DiskType
<1>3. /\ ix \in Seq(Entries) /\ d \in [Files -> Seq(Versions)] /\ Len(d[f]) \in Nat
      /\ dataSynced[u][f] \in Nat /\ Len(d[f]) - 1 \in 0 .. Len(d[f])
  BY <1>1, <1>2 DEF TableType
<1>4. /\ short \in Seq(Versions) /\ Len(short) = Len(d[f]) - 1
      /\ \A i \in 1 .. Len(d[f]) - 1 : short[i] = d[f][i]
  BY <1>3, Prefix
<1>5. data' = [data EXCEPT ![u] = e]
  BY <1>1
<1> HIDE DEF short
<1>6. /\ e \in [Files -> Seq(Versions)] /\ e[f] = short
      /\ \A g \in Files : g # f => e[g] = d[g]
  BY <1>3, <1>4
<1> HIDE DEF e
<1>7. /\ data' = [t \in Tables |-> data'[t]] /\ data'[u] = e
      /\ \A t \in Tables : t # u => data'[t] = data[t]
  BY <1>2, <1>5, TableSet DEF DiskType
<1>8. chain' = chain /\ kv' = kv /\ head' = head
  BY <1>1 DEF markers, store
<1>9. TableDisk(ix, e, chain, FALSE, TRUE)
  <2>1. TableDisk(ix, d, chain, FALSE, TRUE)
    BY <1>1 DEF Inv, DiskInv, TableDisk
  <2>2. ASSUME NEW k \in 1 .. Len(ix), Covered(ix, e, k)
        PROVE  e[Pos(ix, k).file][Pos(ix, k).offset] = chain[k - 1]
    <3> DEFINE p == Pos(ix, k)
    <3>1. k \in 0 .. Len(ix) /\ 0 \in 0 .. Len(ix) /\ k > 0 /\ k \in Nat
      BY <1>3
    <3>2. p.file \in Files /\ p.offset \in Nat
      BY <1>3, <3>1, PosNumbers
    <3>3. p.offset > 0
      BY <2>1, <3>1 DEF TableDisk, Ordered
    <3>4. p.offset <= Len(e[p.file])
      BY <2>2 DEF Covered
    <3> HIDE DEF p
    <3>5. p.offset <= Len(d[p.file]) /\ e[p.file][p.offset] = d[p.file][p.offset]
      <4>1. CASE p.file # f
        BY <1>6, <3>2, <3>4, <4>1
      <4>2. CASE p.file = f
        <5>1. p.offset <= Len(d[f]) - 1 /\ p.offset \in 1 .. Len(d[f]) - 1
          BY <1>3, <1>4, <1>6, <3>2, <3>3, <3>4, <4>2
        <5>2. e[f][p.offset] = d[f][p.offset]
          BY <1>4, <1>6, <5>1
        <5>3. p.offset <= Len(d[f])
          BY <1>3, <3>2, <5>1
        <5> QED BY <4>2, <5>2, <5>3
      <4> QED BY <4>1, <4>2
    <3> QED BY <2>1, <3>1, <3>5 DEF TableDisk, Right, Covered, p
  <2> QED BY <2>1, <2>2 DEF TableDisk, Right
<1>10. DiskType' /\ DiskInv' /\ Power' = Power
  <2>1. /\ index' = [t \in Tables |-> index'[t]] /\ dataSynced' = [t \in Tables |-> dataSynced'[t]]
        /\ indexSynced' = [t \in Tables |-> indexSynced'[t]]
    BY <1>1, <1>2 DEF DiskType
  <2>2. ASSUME NEW g \in Files PROVE dataSynced[u][g] \in 0 .. Len(e[g])
    <3>1. CASE g # f
      BY <1>2, <1>6, <3>1 DEF TableType
    <3>2. CASE g = f
      BY <1>1, <1>3, <1>4, <1>6, <3>2
    <3> QED BY <3>1, <3>2
  <2>3. TableType(index'[u], data'[u], indexSynced'[u], dataSynced'[u])
    BY <1>1, <1>2, <1>6, <1>7, <2>2 DEF TableType
  <2>4. TableDisk(index'[u], data'[u], chain, ~(Power /\ pc = "down"), Power)
    BY <1>1, <1>7, <1>9 DEF TableDisk
  <2> QED BY <1>1, <1>7, <1>8, <2>1, <2>3, <2>4, TableStep
<1>11. BackedInv'
  <2>1. \A t \in Tables, n \in Nat : Durable(t, n) => Durable(t, n)'
    BY <1>1, <1>10 DEF Durable
  <2> QED BY <1>1, <1>8, <2>1, DownBacked
<1>12. \A t \in Tables : Len(index'[t]) <= Len(index[t]) /\ Len(index'[t]) \in Nat
  BY <1>1, StateNumbers DEF Inv
<1> QED BY <1>1, <1>10, <1>11, <1>12, DownStep

LEMMA RestoreCopyStep ==
  ASSUME Inv, NEW n \in Numbers \ {0}, RestoreCopy(n)
  PROVE  Inv'
<1>1. /\ pc = "down" /\ Copy /\ \A t \in Tables : n < Len(index[t])
      /\ index' = [t \in Tables |-> SubSeq(index[t], 1, n)]
      /\ indexSynced' = [t \in Tables |-> n]
      /\ UNCHANGED <<env, data, dataSynced, memory, frozen, store, markers, pc,
                     at, written, batch, truncation, reader, faults>>
  BY DEF RestoreCopy, Copy
<1>2. n \in Nat /\ n > 0
  BY Bounds DEF Numbers
<1>3. Power' = Power /\ Copy' = Copy /\ ~Running /\ ~Running'
  BY <1>1 DEF Power, Copy, Running
<1>4. chain' = chain /\ kv' = kv /\ head' = head
  BY <1>1 DEF markers, store
<1>5. ASSUME NEW t \in Tables
      PROVE  /\ TableType(index'[t], data[t], indexSynced'[t], dataSynced[t])
             /\ TableDisk(index'[t], data[t], chain, ~(Power /\ pc = "down"), Power)
             /\ index'[t] = SubSeq(index[t], 1, n) /\ Len(index'[t]) = n /\ indexSynced'[t] = n
  <2>1. TableType(index[t], data[t], indexSynced[t], dataSynced[t])
    BY DEF Inv, Types, DiskType
  <2>2. index[t] \in Seq(Entries) /\ n \in 0 .. Len(index[t])
    BY <1>1, <1>2, <2>1 DEF TableType
  <2>3. /\ index'[t] = SubSeq(index[t], 1, n) /\ indexSynced'[t] = n
        /\ index'[t] \in Seq(Entries) /\ Len(index'[t]) = n
    BY <1>1, <2>2, PosCut
  <2>4. TableDisk(index[t], data[t], chain, ~(Power /\ pc = "down"), Power)
    BY DEF Inv, DiskInv
  <2>5. Power \in BOOLEAN
    BY DEF Power
  <2>6. TableDisk(SubSeq(index[t], 1, n), data[t], chain, ~(Power /\ pc = "down"), Power)
    BY <2>2, <2>4, <2>5, CutTable
  <2>7. TableType(index'[t], data[t], indexSynced'[t], dataSynced[t])
    BY <1>2, <2>1, <2>3 DEF TableType
  <2> QED BY <2>3, <2>6, <2>7
<1>6. DiskType'
  <2>1. /\ index' = [t \in Tables |-> index'[t]]
        /\ indexSynced' = [t \in Tables |-> indexSynced'[t]]
        /\ data' = [t \in Tables |-> data'[t]] /\ dataSynced' = [t \in Tables |-> dataSynced'[t]]
    BY <1>1 DEF Inv, Types, DiskType
  <2> QED BY <1>1, <1>5, <2>1 DEF DiskType
<1>7. DiskInv'
  BY <1>1, <1>3, <1>4, <1>5 DEF DiskInv
<1>8. BackedInv'
  <2>1. \A t \in Tables : Durable(t, 0) => Durable(t, 0)'
    BY <1>1, <1>2, <1>3, <1>5 DEF Durable
  <2> QED BY <1>1, <1>3, <1>4, <2>1 DEF Inv, BackedInv
<1>9. \A t \in Tables : Len(index'[t]) <= Len(index[t]) /\ Len(index'[t]) \in Nat
  BY <1>1, <1>2, <1>5, StateNumbers DEF Inv
<1> QED BY <1>1, <1>6, <1>7, <1>8, <1>9, DownStep

\* The end of the part of a table that repair keeps.
LEMMA ConsistentTable ==
  ASSUME Inv, NEW t \in Tables
  PROVE  LET ix == index[t]
             k == Consistent(t)
         IN /\ k \in 0 .. Len(ix) /\ k \in Nat
            /\ Covered(ix, data[t], k)
            /\ \A j \in 0 .. Len(ix) : Covered(ix, data[t], j) => j <= k
            /\ ~(Power /\ pc = "down") => k = Len(ix)
            /\ TableDisk(SubSeq(ix, 1, k), data[t], chain, TRUE, Power)
<1> DEFINE ix == index[t]
           d == data[t]
           S == {j \in 0 .. Len(ix) : Covered(ix, d, j)}
           k == Consistent(t)
<1>1. TableType(ix, d, indexSynced[t], dataSynced[t])
  BY DEF Inv, Types, DiskType
<1>2. ix \in Seq(Entries) /\ d \in [Files -> Seq(Versions)] /\ Len(ix) \in Nat
  BY <1>1 DEF TableType
<1>3. TableDisk(ix, d, chain, ~(Power /\ pc = "down"), Power)
  BY DEF Inv, DiskInv
<1>4. k = Max(S)
  BY DEF Consistent, Entry, Covered, Pos
<1>5. S \subseteq 0 .. Len(ix)
  OBVIOUS
<1>6. 0 \in S
  <2>1. 0 \in Files
    BY Bounds
  <2>2. d[0] \in Seq(Versions) /\ Len(d[0]) \in Nat
    BY <1>2, <2>1
  <2>3. Covered(ix, d, 0)
    BY <2>2 DEF Covered, Pos
  <2> QED BY <1>2, <2>3
<1>7. Max(S) \in S /\ \A j \in S : Max(S) >= j
  <2> HIDE DEF S
  <2> QED BY <1>2, <1>5, <1>6, MaxNat
<1>8. /\ k \in 0 .. Len(ix) /\ k \in Nat /\ Covered(ix, d, k)
      /\ \A j \in 0 .. Len(ix) : Covered(ix, d, j) => j <= k
  BY <1>2, <1>4, <1>7
<1> HIDE DEF k, S
<1>9. ~(Power /\ pc = "down") => k = Len(ix)
  <2> SUFFICES ASSUME ~(Power /\ pc = "down")
               PROVE  k = Len(ix)
    OBVIOUS
  <2>1. Len(ix) \in 0 .. Len(ix)
    BY <1>2
  <2>2. Covered(ix, d, Len(ix))
    BY <1>3, <2>1 DEF TableDisk
  <2> QED BY <1>2, <1>8, <2>1, <2>2
<1>10. ASSUME NEW j \in 0 .. k PROVE Covered(ix, d, j)
  <2>1. j \in 0 .. Len(ix) /\ j <= k /\ j \in Nat
    BY <1>2, <1>8
  <2>2. CASE ~(Power /\ pc = "down")
    BY <1>3, <2>1, <2>2 DEF TableDisk
  <2>3. CASE Power /\ pc = "down"
    <3>1. Pos(ix, j).offset = j /\ Pos(ix, k).offset = k
      BY <1>2, <1>3, <1>8, <2>1, <2>3, OneFile DEF TableDisk
    <3>2. Pos(ix, j).file = 0 /\ Pos(ix, k).file = 0
      BY <1>3, <1>8, <2>1, <2>3 DEF TableDisk
    <3>3. k <= Len(d[0])
      BY <1>8, <3>1, <3>2 DEF Covered
    <3>4. Len(d[0]) \in Nat
      BY <1>2, Bounds
    <3> QED BY <1>8, <2>1, <3>1, <3>2, <3>3, <3>4 DEF Covered
  <2> QED BY <2>2, <2>3
<1>11. TableDisk(SubSeq(ix, 1, k), d, chain, TRUE, Power)
  <2>1. Power \in BOOLEAN /\ (~(Power /\ pc = "down")) \in BOOLEAN
    BY DEF Power
  <2>2. TableDisk(SubSeq(ix, 1, k), d, chain, ~(Power /\ pc = "down"), Power)
    BY <1>2, <1>3, <1>8, <2>1, CutTable
  <2>3. /\ Len(SubSeq(ix, 1, k)) = k
        /\ \A j \in 0 .. k : Pos(SubSeq(ix, 1, k), j) = Pos(ix, j)
    BY <1>2, <1>8, PosCut
  <2> QED BY <1>10, <2>2, <2>3 DEF TableDisk, Covered
<1> QED BY <1>8, <1>9, <1>11 DEF k

LEMMA OpenStep ==
  ASSUME Inv, Open
  PROVE  Inv'
<1> DEFINE k == [t \in Tables |-> Consistent(t)]
           last == [t \in Tables |-> Entry(t, k[t])]
<1>1. /\ pc = "down"
      /\ index' = [t \in Tables |-> SubSeq(index[t], 1, k[t])]
      /\ indexSynced' = [t \in Tables |-> k[t]]
      /\ data' = [t \in Tables |-> [data[t] EXCEPT
                    ![last[t].file] = SubSeq(@, 1, last[t].offset)]]
      /\ dataSynced' = [t \in Tables |-> [dataSynced[t] EXCEPT
                          ![last[t].file] = last[t].offset]]
      /\ headId' = [t \in Tables |-> last[t].file]
      /\ items' = [t \in Tables |-> k[t]]
      /\ pc' = "truncate" /\ after' = "validate"
      /\ todo' = Tables /\ target' = Min({k[t] : t \in Tables})
      /\ UNCHANGED <<env, frozen, store, markers, at, written, batch, cut, reader, faults>>
  BY DEF Open
<1>2. /\ kv' = kv /\ side' = side /\ root' = root /\ head' = head /\ chain' = chain
      /\ version' = version /\ first' = first /\ limit' = limit
  BY <1>1 DEF store, markers, batch
<1>3. cut = 0 /\ ~written /\ faults > 0 /\ Power' = Power /\ Copy' = Copy
      /\ ~Running /\ ~Running'
  BY <1>1 DEF Inv, PhaseInv, Power, Copy, Running
<1>4. ASSUME NEW t \in Tables
      PROVE  /\ k[t] \in 0 .. Len(index[t]) /\ k[t] \in Nat
             /\ index'[t] \in Seq(Entries) /\ Len(index'[t]) = k[t] /\ indexSynced'[t] = k[t]
             /\ last[t] = Pos(index'[t], k[t])
             /\ last[t].file \in Files /\ last[t].offset \in Nat
             /\ last[t].offset <= Len(data[t][last[t].file])
             /\ Power => last[t].file = 0 /\ last[t].offset = k[t]
  <2>0. k[t] = Consistent(t) /\ last[t] = Entry(t, k[t])
    OBVIOUS
  <2>1. /\ k[t] \in 0 .. Len(index[t]) /\ k[t] \in Nat
        /\ TableDisk(SubSeq(index[t], 1, k[t]), data[t], chain, TRUE, Power)
    BY <2>0, ConsistentTable
  <2>2. index[t] \in Seq(Entries)
    BY DEF Inv, Types, DiskType, TableType
  <2>3. index'[t] = SubSeq(index[t], 1, k[t]) /\ indexSynced'[t] = k[t]
    BY <1>1
  <2>4. last[t] = Pos(index[t], k[t])
    BY <2>0 DEF Entry, Pos
  <2> HIDE DEF k, last
  <2>5. /\ index'[t] \in Seq(Entries) /\ Len(index'[t]) = k[t]
        /\ Pos(index'[t], k[t]) = Pos(index[t], k[t])
    BY <2>1, <2>2, <2>3, PosCut
  <2>6. k[t] \in 0 .. Len(index'[t])
    BY <2>1, <2>5
  <2>7. last[t].file \in Files /\ last[t].offset \in Nat
    BY <2>4, <2>5, <2>6, PosNumbers
  <2>8. TableDisk(index'[t], data[t], chain, TRUE, Power)
    BY <2>1, <2>3
  <2>9. last[t].offset <= Len(data[t][last[t].file])
    BY <2>4, <2>5, <2>6, <2>8 DEF TableDisk, Covered
  <2>10. Power => last[t].file = 0 /\ last[t].offset = k[t]
    BY <2>4, <2>5, <2>6, <2>8, OneFile DEF TableDisk
  <2> QED BY <2>1, <2>3, <2>4, <2>5, <2>7, <2>9, <2>10
<1>5. ASSUME NEW t \in Tables
      PROVE  /\ data'[t] \in [Files -> Seq(Versions)] /\ dataSynced'[t] \in [Files -> Nat]
             /\ Len(data'[t][last[t].file]) = last[t].offset
             /\ dataSynced'[t][last[t].file] = last[t].offset
             /\ \A i \in 1 .. last[t].offset : data'[t][last[t].file][i] = data[t][last[t].file][i]
             /\ \A f \in Files : f # last[t].file =>
                  data'[t][f] = data[t][f] /\ dataSynced'[t][f] = dataSynced[t][f]
             /\ \A f \in Files : dataSynced'[t][f] \in 0 .. Len(data'[t][f])
  <2> DEFINE l == last[t]
             short == SubSeq(data[t][l.file], 1, l.offset)
  <2>1. data'[t] = [data[t] EXCEPT ![l.file] = short]
        /\ dataSynced'[t] = [dataSynced[t] EXCEPT ![l.file] = l.offset]
    BY <1>1
  <2>2. /\ l.file \in Files /\ l.offset \in Nat /\ l.offset <= Len(data[t][l.file])
    BY <1>4
  <2> HIDE DEF k, last, l
  <2>3. /\ data[t] \in [Files -> Seq(Versions)] /\ dataSynced[t] \in [Files -> Nat]
        /\ \A f \in Files : dataSynced[t][f] \in 0 .. Len(data[t][f])
    BY DEF Inv, Types, DiskType, TableType
  <2>4. data[t][l.file] \in Seq(Versions) /\ l.offset \in 0 .. Len(data[t][l.file])
    BY <2>2, <2>3
  <2>5. /\ short \in Seq(Versions) /\ Len(short) = l.offset
        /\ \A i \in 1 .. l.offset : short[i] = data[t][l.file][i]
    BY <2>4, Prefix
  <2> HIDE DEF short
  <2>6. /\ data'[t] \in [Files -> Seq(Versions)] /\ dataSynced'[t] \in [Files -> Nat]
        /\ data'[t][l.file] = short /\ dataSynced'[t][l.file] = l.offset
        /\ \A f \in Files : f # l.file =>
             data'[t][f] = data[t][f] /\ dataSynced'[t][f] = dataSynced[t][f]
    BY <2>1, <2>2, <2>3, <2>5
  <2>7. ASSUME NEW f \in Files PROVE dataSynced'[t][f] \in 0 .. Len(data'[t][f])
    <3>1. CASE f # l.file
      BY <2>3, <2>6, <3>1
    <3>2. CASE f = l.file
      BY <2>2, <2>5, <2>6, <3>2
    <3> QED BY <3>1, <3>2
  <2> QED BY <2>5, <2>6, <2>7 DEF l
<1>19. \A t \in Tables : k[t] = Consistent(t)
  OBVIOUS
<1> HIDE DEF k, last
<1>6. DiskType'
  <2>1. /\ index' = [t \in Tables |-> index'[t]] /\ indexSynced' = [t \in Tables |-> indexSynced'[t]]
        /\ data' = [t \in Tables |-> data'[t]] /\ dataSynced' = [t \in Tables |-> dataSynced'[t]]
    BY <1>1
  <2>2. \A t \in Tables : k[t] \in 0 .. k[t]
    BY <1>4
  <2>3. \A t \in Tables : TableType(index'[t], data'[t], indexSynced'[t], dataSynced'[t])
    BY <1>4, <1>5, <2>2 DEF TableType
  <2> QED BY <2>1, <2>3 DEF DiskType
<1>7. DiskInv'
  <2> SUFFICES ASSUME NEW t \in Tables
               PROVE  TableDisk(index'[t], data'[t], chain, TRUE, Power)
    BY <1>1, <1>2, <1>3 DEF DiskInv, TableDisk
  <2>1. data[t] \in [Files -> Seq(Versions)] /\ Power \in BOOLEAN
    BY DEF Inv, Types, DiskType, TableType, Power
  <2>2. last[t] = Pos(index'[t], Len(index'[t])) /\ index'[t] = SubSeq(index[t], 1, Consistent(t))
    BY <1>1, <1>4, <1>19
  <2>4. TableDisk(index'[t], data[t], chain, TRUE, Power)
    BY <2>2, ConsistentTable
  <2>3. \A f \in Files : f < last[t].file => data'[t][f] = data[t][f]
    <3>1. \A f \in Files : f \in Nat
      BY Bounds DEF Files
    <3> QED BY <1>4, <1>5, <3>1
  <2>5. /\ index'[t] \in Seq(Entries) /\ data'[t] \in [Files -> Seq(Versions)]
        /\ Len(data'[t][last[t].file]) = last[t].offset
        /\ \A i \in 1 .. last[t].offset : data'[t][last[t].file][i] = data[t][last[t].file][i]
    BY <1>4, <1>5
  <2> QED BY <2>1, <2>2, <2>3, <2>4, <2>5, TrimTable
<1>8. items' \in [Tables -> Nat] /\ headId' \in [Tables -> Files]
      /\ \A t \in Tables : items'[t] = k[t] /\ headId'[t] = last[t].file
  BY <1>1, <1>4
<1>9. /\ target' \in Nat /\ \A t \in Tables : target' <= k[t]
      /\ \E t \in Tables : target' = k[t]
  <2>1. target' = Min({items'[t] : t \in Tables})
    BY <1>1
  <2> QED BY <1>8, <2>1, LeastItems
<1>10. Types'
  BY <1>1, <1>2, <1>6, <1>8, <1>9 DEF Inv, Types, StoreType, MemoryType, PhaseType, ReaderType
<1>11. MemoryInv'
  <2> SUFFICES ASSUME NEW t \in Tables
               PROVE  (items[t] = Len(index[t]) /\ AtEnd(index[t], data[t], headId[t]))'
    BY <1>1, <1>3, Bounds DEF MemoryInv
  <2> QED BY <1>4, <1>5, <1>8 DEF AtEnd
<1>12. LengthInv'
  <2>1. ASSUME NEW t \in Tables PROVE Len(index'[t]) <= head + 1
    <3>1. Len(index[t]) <= head + 1 /\ Len(index[t]) \in Nat /\ head \in Nat
      BY <1>1, StateNumbers DEF Inv, LengthInv, Rewinding
    <3>2. Len(index'[t]) <= Len(index[t]) /\ Len(index'[t]) \in Nat
      BY <1>4
    <3> QED BY <3>1, <3>2
  <2>2. \A t \in Tables : items'[t] >= target'
    BY <1>4, <1>8, <1>9
  <2>3. \E t \in Tables : Len(index'[t]) = target'
    <3>1. PICK t \in Tables : target' = k[t]
      BY <1>9
    <3>2. Len(index'[t]) = k[t]
      BY <1>4
    <3> QED BY <3>1, <3>2
  <2>4. frozen <= head + 1
    BY <1>1 DEF Inv, LengthInv, Rewinding
  <2> QED BY <1>1, <1>2, <2>1, <2>2, <2>3, <2>4 DEF LengthInv, Rewinding
<1>13. PhaseInv'
  BY <1>1, <1>3 DEF Inv, PhaseInv
<1>14. StoreInv' /\ ExactInv' /\ SideInv'
  BY <1>1, <1>2, <1>3 DEF Inv, StoreInv, ExactInv, SideInv
<1>15. ReaderInv'
  BY <1>1, <1>3 DEF Inv, ReaderInv
<1>16. SyncedInv'
  <2> SUFFICES ASSUME Power, NEW t \in Tables
               PROVE  indexSynced'[t] = Len(index'[t]) /\ dataSynced'[t][0] >= Len(index'[t])
    BY <1>1, <1>3 DEF SyncedInv
  <2> QED BY <1>4, <1>5
<1>17. ASSUME NEW t \in Tables, NEW n \in Nat, Durable(t, n)
       PROVE  Durable(t, n)'
  <2>1. k[t] \in Nat /\ n < k[t]
    <3>1. CASE ~Power
      BY <1>4, <1>17, <1>19, <3>1, ConsistentTable DEF Durable
    <3>2. CASE Power
      <4>1. /\ index[t] \in Seq(Entries) /\ Len(index[t]) \in Nat /\ n < Len(index[t])
        BY <1>17 DEF Inv, Types, DiskType, TableType, Durable
      <4>2. n + 1 \in 0 .. Len(index[t])
        BY <4>1
      <4>3. Pos(index[t], n + 1).file = 0 /\ Pos(index[t], n + 1).offset = n + 1
        BY <3>2, <4>1, <4>2, OneFile DEF Inv, DiskInv, TableDisk
      <4>4. dataSynced[t][0] \in 0 .. Len(data[t][0]) /\ Len(data[t][0]) \in Nat
        BY Bounds DEF Inv, Types, DiskType, TableType
      <4>5. n + 1 <= Len(data[t][0])
        BY <1>17, <3>2, <4>4 DEF Durable
      <4>6. Covered(index[t], data[t], n + 1)
        BY <4>3, <4>5 DEF Covered
      <4>7. n + 1 <= k[t]
        BY <1>19, <4>2, <4>6, ConsistentTable
      <4> QED BY <1>4, <4>7
    <3> QED BY <3>1, <3>2
  <2> QED BY <1>3, <1>4, <1>5, <2>1 DEF Durable
<1>18. BackedInv'
  <2>1. CASE ~Copy
    BY <1>2, <1>3, <1>17, <2>1, StateNumbers DEF Inv, BackedInv, Backed
  <2>2. CASE Copy
    BY <1>2, <1>3, <1>17, <2>2, StateNumbers DEF Inv, BackedInv
  <2> QED BY <2>1, <2>2
<1> QED BY <1>6, <1>7, <1>10, <1>11, <1>12, <1>13, <1>14, <1>15, <1>16, <1>18 DEF Inv

-----------------------------------------------------------------------------
(***************************************************************************)
(* The theorems                                                            *)
(***************************************************************************)
LEMMA InitInv ==
  ASSUME Init, \A e \in Environments : Tolerated(e)
  PROVE  Inv
<1> USE DEF Init
<1>1. /\ env \in Environments /\ Tolerated(env) /\ env.limit \in Nat
  BY FreezerAssumption
<1>2. <<>> \in Seq(Entries) /\ <<>> \in Seq(Versions) /\ Len(<<>>) = 0
  OBVIOUS
<1>3. ASSUME NEW t \in Tables
      PROVE  /\ index[t] = <<>> /\ data[t] = [f \in Files |-> <<>>] /\ indexSynced[t] = 0
             /\ dataSynced[t] = [f \in Files |-> 0] /\ items[t] = 0 /\ headId[t] = 0
  OBVIOUS
<1>4. DiskType
  <2>1. ASSUME NEW t \in Tables
        PROVE  TableType(index[t], data[t], indexSynced[t], dataSynced[t])
    <3>1. /\ index[t] \in Seq(Entries) /\ indexSynced[t] \in 0 .. Len(index[t])
      BY <1>2, <1>3
    <3>2. /\ data[t] \in [Files -> Seq(Versions)] /\ dataSynced[t] \in [Files -> Nat]
          /\ \A f \in Files : dataSynced[t][f] \in 0 .. Len(data[t][f])
      BY <1>2, <1>3
    <3> QED BY <3>1, <3>2 DEF TableType
  <2> QED BY <2>1 DEF DiskType
<1>5. StoreType /\ MemoryType /\ PhaseType /\ ReaderType
  <2>1. 0 \in Numbers /\ 0 \in Versions /\ 0 \in Files /\ 1 \in Tables
    BY Bounds DEF Numbers, Versions
  <2>2. StoreType
    BY <2>1 DEF StoreType
  <2>3. MemoryType /\ ReaderType
    BY <2>1 DEF MemoryType, ReaderType, Idle
  <2>4. PhaseType
    <3>1. faults \in 0 .. env.limit
      BY <1>1
    <3>2. written \in BOOLEAN /\ todo \in SUBSET Tables /\ cut \in Tables \cup {0}
      OBVIOUS
    <3> QED BY <1>1, <2>1, <3>1, <3>2 DEF PhaseType
  <2> QED BY <2>2, <2>3, <2>4
<1>6. DiskInv
  <2> SUFFICES ASSUME NEW t \in Tables
               PROVE  TableDisk(index[t], data[t], chain, ~(Power /\ pc = "down"), Power)
    BY DEF DiskInv
  <2>1. 0 .. Len(index[t]) = {0} /\ 1 .. Len(index[t]) = {}
    BY <1>2, <1>3
  <2>2. Ordered(index[t])
    BY <2>1 DEF Ordered
  <2>3. Right(index[t], data[t], chain)
    BY <2>1 DEF Right
  <2>4. Pos(index[t], 0) = [file |-> 0, offset |-> 0]
    BY DEF Pos
  <2>5. data[t][0] = <<>>
    BY <1>3, Bounds
  <2>6. Covered(index[t], data[t], 0)
    BY <1>2, <2>4, <2>5 DEF Covered
  <2> QED BY <2>1, <2>2, <2>3, <2>4, <2>6 DEF TableDisk
<1>7. MemoryInv
  <2> SUFFICES ASSUME NEW t \in Tables
               PROVE  items[t] = Len(index[t]) /\ AtEnd(index[t], data[t], headId[t])
    BY Bounds DEF MemoryInv
  <2>1. data[t][0] = <<>>
    BY <1>3, Bounds
  <2> QED BY <1>2, <1>3, <2>1 DEF AtEnd, Pos
<1>8. LengthInv
  BY <1>2, <1>3 DEF LengthInv, Rewinding
<1>9. PhaseInv /\ SyncedInv /\ BackedInv /\ ExactInv /\ ReaderInv /\ SideInv
  BY <1>1 DEF PhaseInv, SyncedInv, BackedInv, Backed, ExactInv, ReaderInv, SideInv, Idle
<1>10. StoreInv
  <2>1. 0 \in Numbers /\ 0 \in Versions /\ 0 # None
    BY Bounds DEF Numbers, Versions
  <2>2. 0 .. head = {0}
    OBVIOUS
  <2> QED BY <2>1, <2>2 DEF StoreInv
<1> QED BY <1>4, <1>5, <1>6, <1>7, <1>8, <1>9, <1>10 DEF Inv, Types

LEMMA NextInv ==
  ASSUME Inv, [Next]_vars
  PROVE  Inv'
<1>1. CASE Import
  BY <1>1, ImportStep
<1>2. CASE \E n \in Numbers : ImportSide(n)
  BY <1>2, ImportSideStep
<1>3. CASE Rewind
  BY <1>3, RewindStep
<1>4. CASE FreezeSteps
  <2>1. CASE StartBatch \/ AppendData \/ AppendIndex \/ AppendFails \/ EndBatch
    BY <2>1, StartBatchStep, AppendDataStep, AppendIndexStep, AppendFailsStep, EndBatchStep
  <2>2. CASE \E t \in Tables : SyncTable(t)
    BY <2>2, SyncTableStep
  <2>3. CASE Wipe \/ WipeSide
    BY <2>3, WipeStep, WipeSideStep
  <2>4. CASE \E t \in Tables : TruncateIndex(t)
    BY <2>4, TruncateIndexStep
  <2>5. CASE TruncateData \/ TruncateDone
    BY <2>5, TruncateDataStep, TruncateDoneStep
  <2> QED BY <1>4, <2>1, <2>2, <2>3, <2>4, <2>5 DEF FreezeSteps
<1>5. CASE OpenSteps
  BY <1>5, OpenStep, ValidateStep DEF OpenSteps
<1>6. CASE Crash
  BY <1>6, CrashStep
<1>7. CASE \E t \in Tables : LoseIndex(t)
  BY <1>7, LoseIndexStep
<1>8. CASE \E t \in Tables, f \in Files : LoseData(t, f)
  BY <1>8, LoseDataStep
<1>9. CASE \E n \in Numbers \ {0} : RestoreCopy(n)
  BY <1>9, RestoreCopyStep
<1>10. CASE \E n \in Numbers, t \in Tables : MissAncient(n, t)
  BY <1>10, MissAncientStep
<1>11. CASE LookKv \/ LookAgain
  BY <1>11, LookKvStep, LookAgainStep
<1>12. CASE UNCHANGED vars
  <2>1. UNCHANGED readerVars /\ reader' = reader
    BY <1>12 DEF vars, readerVars
  <2>2. pc' = pc /\ after' = after /\ head' = head /\ kv' = kv
    BY <2>1 DEF readerVars, truncation, markers, store
  <2>3. ReaderType' /\ ReaderInv'
    BY <2>1, <2>2 DEF Inv, Types, ReaderType, ReaderInv, Running
  <2> QED BY <2>1, <2>3, ReaderStep
<1> QED BY <1>1, <1>2, <1>3, <1>4, <1>5, <1>6, <1>7, <1>8, <1>9, <1>10, <1>11, <1>12 DEF Next

\* The invariant holds in every reachable state.
LEMMA Invariance ==
  ASSUME \A e \in Environments : Tolerated(e)
  PROVE  Spec => []Inv
<1>1. Init => Inv
  BY InitInv
<1>2. Inv /\ [Next]_vars => Inv'
  BY NextInv
<1> QED BY <1>1, <1>2, PTL DEF Spec

\* Every block of the canonical chain can be read from every table while the
\* database is open (Retrieve of the freezer, or the key-value store for what is
\* not frozen): after crashes between any two file operations of freeze, failed
\* appends, rewinds, lost unsynced writes and a freezer that was put back.
THEOREM FreezerChainReadable ==
  ASSUME \A e \in Environments : Tolerated(e)
  PROVE  Spec => []ChainReadable
<1>1. Inv => ChainReadable
  <2> SUFFICES ASSUME Inv, Running, NEW n \in 0 .. head, NEW t \in Tables \ {cut}
               PROVE  IF items[t] > n THEN Retrieve(t, n) = <<chain[n]>> ELSE kv[n] = chain[n]
    BY DEF ChainReadable
  <2> DEFINE ix == index[t]
             d == data[t]
             end == Pos(ix, n + 1)
             before == Pos(ix, n)
             start == IF n # 0 /\ before.file = end.file THEN before.offset ELSE 0
             file == d[end.file]
  <2>1. items[t] = Len(ix) /\ n \in Nat /\ Len(ix) \in Nat /\ head \in Nat
    BY StateNumbers DEF Inv, MemoryInv, Running
  <2>2. CASE ~(items[t] > n)
    <3>1. CASE n = 0
      BY <2>2, <3>1 DEF Inv, StoreInv
    <3>2. CASE n # 0
      <4>1. n \in 1 .. head
        BY <2>1, <3>2
      <4>2. kv[n] = None => Durable(t, n)
        BY <4>1 DEF Inv, BackedInv, Backed
      <4>3. kv[n] # None
        BY <2>1, <2>2, <4>2 DEF Durable
      <4> QED BY <2>2, <4>3 DEF Inv, StoreInv
    <3> QED BY <3>1, <3>2
  <2>3. CASE items[t] > n
    <3>1. n \in 0 .. Len(ix) /\ n + 1 \in 0 .. Len(ix) /\ n + 1 \in 1 .. Len(ix) /\ n < n + 1
      BY <2>1, <2>3
    <3>2. TableType(ix, d, indexSynced[t], dataSynced[t])
      BY DEF Inv, Types, DiskType
    <3>3. ix \in Seq(Entries) /\ d \in [Files -> Seq(Versions)]
      BY <3>2 DEF TableType
    <3>4. /\ end.file \in Files /\ end.offset \in Nat /\ before.file \in Nat /\ before.offset \in Nat
      BY <3>1, <3>3, PosNumbers
    <3>5. TableDisk(ix, d, chain, TRUE, Power)
      BY DEF Inv, DiskInv, TableDisk, Running
    <3>6. /\ end.offset > 0
          /\ before.file = end.file => end.offset = before.offset + ((n + 1) - n)
          /\ before.file # end.file => end.offset <= (n + 1) - n
      BY <3>1, <3>5 DEF TableDisk, Ordered
    <3>7. end.offset <= Len(file) /\ file[end.offset] = chain[(n + 1) - 1]
      BY <3>1, <3>5 DEF TableDisk, Right, Covered
    <3>8. n = 0 => before.offset = 0
      BY DEF Pos
    <3>9. Retrieve(t, n) = IF end.offset <= Len(file) THEN SubSeq(file, start + 1, end.offset)
                           ELSE <<>>
      BY <2>1 DEF Retrieve, Entry, Pos
    <3> HIDE DEF end, before, ix, d
    <3>10. file \in Seq(Versions) /\ Len(file) \in Nat
      BY <3>3, <3>4
    <3>11. start + 1 = end.offset
      BY <2>1, <3>4, <3>6, <3>8
    <3> HIDE DEF start, file
    <3>12. end.offset \in 1 .. Len(file) /\ (n + 1) - 1 = n
      BY <2>1, <3>4, <3>6, <3>7, <3>10
    <3>13. SubSeq(file, end.offset, end.offset) = <<file[end.offset]>>
      BY <3>10, <3>12, Single
    <3>14. Retrieve(t, n) = <<chain[n]>>
      BY <3>7, <3>9, <3>11, <3>12, <3>13
    <3> QED BY <2>3, <3>14
  <2> QED BY <2>2, <2>3
<1> QED BY <1>1, Invariance, PTL

\* ReadHeaderRLP and the like find their block at the latest on the second look
\* into the freezer, however freeze moves it in the meantime.
THEOREM FreezerReaderFinds ==
  ASSUME \A e \in Environments : Tolerated(e)
  PROVE  Spec => []ReaderFinds
<1>1. Inv => ReaderFinds
  BY DEF Inv, ReaderInv, ReaderFinds
<1> QED BY <1>1, Invariance, PTL

\* The freezer, its tables and the key-value store are well formed; what
\* validateFreezerVsKV finds when the node comes up has no gap, unless somebody
\* replaced the freezer; and freeze leaves no side blocks without their parents.
THEOREM FreezerConsistent ==
  ASSUME \A e \in Environments : Tolerated(e)
  PROVE  Spec => []FreezerInv
<1>1. Inv => TypeOK
  <2> SUFFICES ASSUME Inv PROVE TypeOK
    OBVIOUS
  <2>1. ASSUME NEW t \in Tables
        PROVE  /\ index[t] \in Seq([file : Files, offset : Nat])
               /\ \A f \in Files : /\ data[t][f] \in Seq(Versions)
                                   /\ dataSynced[t][f] \in 0 .. Len(data[t][f])
               /\ indexSynced[t] \in 0 .. Len(index[t])
    BY DEF Inv, Types, DiskType, TableType, Entries
  <2> QED BY <2>1 DEF Inv, Types, StoreType, MemoryType, PhaseType, ReaderType, TypeOK
<1>2. Inv => NoGap
  <2> SUFFICES ASSUME Inv, pc = "validate", ~Copy, Gap
               PROVE  FALSE
    BY DEF NoGap, Copy
  <2>1. frozen \in 1 .. head /\ kv[frozen] = None
    BY StateNumbers DEF Inv, Gap
  <2>2. 1 \in Tables /\ 1 # cut
    BY Bounds DEF Inv, PhaseInv
  <2>3. Len(index[1]) = frozen
    BY <2>2 DEF Inv, MemoryInv, LengthInv
  <2>4. Durable(1, frozen)
    BY <2>1, <2>2 DEF Inv, BackedInv, Backed
  <2> QED BY <2>1, <2>3, <2>4, StateNumbers DEF Inv, Durable
<1>3. Inv => NoDangling
  <2> SUFFICES ASSUME Inv, pc = "idle", faults = 0, side # {}
               PROVE  root >= frozen - 1 /\ Min(side) = root + 1
    BY DEF NoDangling
  <2>1. PICK m \in Numbers : m > root /\ side = root + 1 .. m
    BY DEF Inv, SideInv
  <2>2. root >= frozen - 1
    BY DEF Inv, SideInv
  <2>3. root + 1 \in Int /\ m \in Int /\ root + 1 <= m
    BY <2>1, StateNumbers DEF Inv, Numbers
  <2> QED BY <2>1, <2>2, <2>3, IntervalEnds
<1>4. Inv => FreezerInv
  BY <1>1, <1>2, <1>3 DEF FreezerInv
<1> QED BY <1>4, Invariance, PTL
=============================================================================
