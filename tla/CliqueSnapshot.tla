---------------------------- MODULE CliqueSnapshot ----------------------------
(***************************************************************************)
(* The authorization snapshots of clique (consensus/clique/snapshot.go)    *)
(* along one chain of blocks, and the rules by which clique.go seals and   *)
(* verifies the next one: the signers, their votes with the cached tally,  *)
(* the recent signers, the epochs.  A second node starts from a trusted    *)
(* checkpoint and follows the same chain.                                  *)
(*                                                                         *)
(* Abstractions.                                                           *)
(*  - A header is its signer, its beneficiary (the account that it votes   *)
(*    on) and its vote; difficulty, time and extra data are left out, and  *)
(*    ecrecover never fails.                                               *)
(*  - Nobody votes for the zero address, for which nobody can sign.        *)
(*  - The block number of a vote is left out: a signer has at most one     *)
(*    vote on an account.                                                  *)
(***************************************************************************)
EXTENDS Integers, FiniteSets, Functions

CONSTANTS
  Addresses,   \* accounts that are or may become signers
  Zero,        \* the zero address, no vote
  InitSigners, \* signers of the genesis block
  Epoch,       \* blocks between two checkpoints
  MaxNumber    \* bound on the length of the chain

ASSUME CliqueAssumption ==
  /\ IsFiniteSet(Addresses)
  /\ Zero \notin Addresses
  /\ InitSigners \subseteq Addresses /\ InitSigners # {}
  /\ Epoch \in Nat \ {0} /\ MaxNumber \in Nat

VARIABLES
  snap,   \* the snapshot of the last block, of a node that has all blocks
  light,  \* the one of the node that trusts a checkpoint; a set of at most one
  base    \* the number of that checkpoint

vars == <<snap, light, base>>

Votes == [signer : Addresses, address : Addresses, authorize : BOOLEAN]

\* Headers that verifyHeader lets through: no vote at a checkpoint.
Headers(n) ==
  [signer : Addresses, coinbase : {Zero}, authorize : {FALSE}]
    \cup IF n % Epoch = 0 THEN {}
         ELSE [signer : Addresses, coinbase : Addresses, authorize : BOOLEAN]

\* newSnapshot
NewSnapshot(n, signers) ==
  [number |-> n, signers |-> signers, recents |-> <<>>, votes |-> {},
   tally |-> <<>>]

\* A signer may sign one block in so many.
Limit(s) == Cardinality(s.signers) \div 2 + 1

Without(f, k) == Restrict(f, DOMAIN f \ {k})

validVote(s, address, authorize) == authorize = (address \notin s.signers)

-----------------------------------------------------------------------------
(* The cached tally.                                                       *)

cast(tally, address, authorize) ==
  IF address \in DOMAIN tally
  THEN [tally EXCEPT ![address].votes = @ + 1]
  ELSE [a \in DOMAIN tally \cup {address} |->
          IF a = address THEN [authorize |-> authorize, votes |-> 1]
          ELSE tally[a]]

\* uncast, for each of these votes: only votes that were counted go, and a
\* tally without votes goes.
uncast(tally, gone) ==
  LET counted(a) == {v \in gone : /\ v.address = a
                                  /\ v.authorize = tally[a].authorize}
      left(a) == tally[a].votes - Cardinality(counted(a))
  IN [a \in {x \in DOMAIN tally : left(x) > 0} |->
        [tally[a] EXCEPT !.votes = left(a)]]

-----------------------------------------------------------------------------
(* apply, for one header.  An error leaves no snapshot.                    *)

\* Mutant of AtEpoch: the checkpoint drops the votes and keeps the tally.
AtEpochTally(s, n) ==
  IF n % Epoch = 0 THEN [s EXCEPT !.votes = {}] ELSE s

\* A checkpoint drops all votes.
AtEpoch(s, n) ==
  IF n % Epoch = 0 THEN [s EXCEPT !.votes = {}, !.tally = <<>>] ELSE s

\* Mutant of Shift: the window does not move.
ShiftNever(s, n) == s

\* The oldest recent signer may sign again.
Shift(s, n) ==
  IF n >= Limit(s) THEN [s EXCEPT !.recents = Without(@, n - Limit(s))] ELSE s

\* The checks of apply: a signer, and not a recent one.
Applies(s, signer) ==
  LET t == Shift(s, s.number + 1) IN
  /\ signer \in s.signers
  /\ \A n \in DOMAIN t.recents : t.recents[n] # signer

\* The signer's vote replaces the one that it had on this account.
Recast(s, h) ==
  LET old == {v \in s.votes : v.signer = h.signer /\ v.address = h.coinbase}
      tally == uncast(s.tally, old)
      vote == [signer |-> h.signer, address |-> h.coinbase,
               authorize |-> h.authorize]
  IN IF validVote(s, h.coinbase, h.authorize)
     THEN [s EXCEPT !.votes = (@ \ old) \cup {vote},
                    !.tally = cast(tally, h.coinbase, h.authorize)]
     ELSE [s EXCEPT !.votes = @ \ old, !.tally = tally]

\* More than half of the signers are for the change.
Passed(s, a) ==
  a \in DOMAIN s.tally /\ s.tally[a].votes > Cardinality(s.signers) \div 2

\* Mutant of Change: the votes of a signer who is dropped stay.
ChangeVotesKept(s, n, a) ==
  LET signers == IF s.tally[a].authorize THEN s.signers \cup {a}
                 ELSE s.signers \ {a}
      changed == [s EXCEPT !.signers = signers]
  IN [changed EXCEPT
        !.recents = IF a \in s.signers THEN Shift(changed, n).recents ELSE @,
        !.votes = {v \in s.votes : v.address # a},
        !.tally = Without(s.tally, a)]

\* The change: a signer who is dropped takes its votes along, and the window
\* of the recent signers shrinks; the votes on the account are done with.
Change(s, n, a) ==
  LET signers == IF s.tally[a].authorize THEN s.signers \cup {a}
                 ELSE s.signers \ {a}
      changed == [s EXCEPT !.signers = signers]
      gone == IF s.tally[a].authorize THEN {}
              ELSE {v \in s.votes : v.signer = a}
  IN [changed EXCEPT
        !.recents = IF s.tally[a].authorize THEN @
                    ELSE Shift(changed, n).recents,
        !.votes = {v \in s.votes \ gone : v.address # a},
        !.tally = Without(uncast(s.tally, gone), a)]

Apply(s, h) ==
  LET n == s.number + 1
      shifted == Shift(AtEpoch(s, n), n)
      signed == [shifted EXCEPT
                   !.recents = [k \in DOMAIN @ \cup {n} |->
                                  IF k = n THEN h.signer ELSE @[k]]]
      voted == Recast(signed, h)
      changed == IF Passed(voted, h.coinbase)
                 THEN Change(voted, n, h.coinbase) ELSE voted
  IN [changed EXCEPT !.number = n]

-----------------------------------------------------------------------------
(* The other two places that decide who may sign.                          *)

\* verifySeal: number - limit is unsigned and wraps around below the limit.
verifySeal(s, signer) ==
  /\ signer \in s.signers
  /\ \A seen \in DOMAIN s.recents :
       s.recents[seen] = signer =>
         s.number + 1 < Limit(s) \/ seen <= s.number + 1 - Limit(s)

\* Mutant of Seals: compares with the parent's number.
SealsLate(s, signer) ==
  /\ signer \in s.signers
  /\ \A seen \in DOMAIN s.recents :
       s.recents[seen] = signer =>
         s.number + 1 >= Limit(s) /\ seen < s.number + 1 - Limit(s)

\* Seal: the same question to the snapshot of the parent.
Seals(s, signer) ==
  /\ signer \in s.signers
  /\ \A seen \in DOMAIN s.recents :
       s.recents[seen] = signer =>
         s.number + 1 >= Limit(s) /\ seen <= s.number + 1 - Limit(s)

-----------------------------------------------------------------------------
Init ==
  /\ snap = NewSnapshot(0, InitSigners)
  /\ light = {} /\ base = 0

\* The next block, sealed by one of the signers and accepted by both nodes.
Block(h) ==
  /\ snap.number < MaxNumber
  /\ Seals(snap, h.signer) /\ verifySeal(snap, h.signer)
  /\ snap' = Apply(snap, h)
  /\ light' = {Apply(s, h) : s \in light}
  /\ UNCHANGED base

\* snapshot, on a node without the blocks before a checkpoint: the signers
\* are those that the checkpoint lists.
TrustCheckpoint ==
  /\ light = {} /\ snap.number > 0 /\ snap.number % Epoch = 0
  /\ light' = {NewSnapshot(snap.number, snap.signers)}
  /\ base' = snap.number
  /\ UNCHANGED snap

Next == (\E h \in Headers(snap.number + 1) : Block(h)) \/ TrustCheckpoint

Spec == Init /\ [][Next]_vars

-----------------------------------------------------------------------------
TypeOK ==
  /\ snap.number \in Nat /\ snap.signers \subseteq Addresses
  /\ DOMAIN snap.recents \subseteq 1 .. MaxNumber
  /\ \A n \in DOMAIN snap.recents : snap.recents[n] \in Addresses
  /\ snap.votes \subseteq Votes
  /\ DOMAIN snap.tally \subseteq Addresses
  /\ \A a \in DOMAIN snap.tally :
       snap.tally[a] \in [authorize : BOOLEAN, votes : Nat \ {0}]
  /\ base \in 0 .. snap.number /\ Cardinality(light) <= 1

\* The cached tally is what a count of the votes gives, through changed
\* minds, passed votes, dropped signers and epochs; every vote is one of a
\* signer, for a change.
TallyCounts ==
  LET about(a) == {v \in snap.votes : v.address = a} IN
  /\ DOMAIN snap.tally = {v.address : v \in snap.votes}
  /\ \A a \in DOMAIN snap.tally :
       /\ snap.tally[a].votes = Cardinality(about(a))
       /\ \A v \in about(a) : v.authorize = snap.tally[a].authorize
  /\ \A v \in snap.votes :
       v.signer \in snap.signers /\ validVote(snap, v.address, v.authorize)

\* As long as there are signers, one of them may sign the next block: the
\* recent ones are never all of them, also right after one was dropped.
NoStall ==
  snap.signers # {} => \E s \in snap.signers : Applies(snap, s)

\* Together: a snapshot counts right and can be continued.
SnapshotInv == TypeOK /\ TallyCounts /\ NoStall

\* Sealing, verifying and applying a header agree on who may sign, except
\* that verifySeal lets all signers through in the first blocks.
RulesAgree ==
  \A s \in Addresses :
    /\ Seals(snap, s) <=> Applies(snap, s)
    /\ Applies(snap, s) => verifySeal(snap, s)
    /\ snap.number + 1 >= Limit(snap) /\ verifySeal(snap, s)
         => Applies(snap, s)

\* A node that starts from a checkpoint has the same signers, votes and tally
\* as one that has seen all blocks; it only lacks the recent signers up to
\* the checkpoint.
CheckpointAgrees ==
  \A s \in light :
    /\ s.number = snap.number /\ s.signers = snap.signers
    /\ s.votes = snap.votes /\ s.tally = snap.tally
    /\ s.recents = Restrict(snap.recents, {n \in DOMAIN snap.recents :
                                             n > base})

Voting == INSTANCE CliqueVoting WITH
            number <- snap.number, signers <- snap.signers,
            votes <- snap.votes

\* The snapshots implement voting by a plain count of the votes.
VotingSpec == Voting!Spec
=============================================================================
