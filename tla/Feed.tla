--------------------------------- MODULE Feed ---------------------------------
(***************************************************************************)
(* The event feed (event/feed.go): senders deliver values to all           *)
(* subscribed channels while channels subscribe and unsubscribe.           *)
(*                                                                         *)
(* sendCases is modelled without its first entry, the removeSub channel.   *)
(* The slice 'cases' of a Send is a prefix of sendCases, so its length is  *)
(* enough.  The checks of the value's type are left out, and each channel  *)
(* has one subscription at a time.                                         *)
(***************************************************************************)
EXTENDS Integers, FiniteSets, Sequences, SequencesExt

CONSTANTS
  Channels,      \* channels that may subscribe
  Senders,       \* goroutines that call Send
  Cap,           \* buffer space of each channel
  MaxSends,      \* bound on the number of Sends
  MaxSubscribes  \* bound on the number of subscriptions

ASSUME FeedAssumption ==
  /\ IsFiniteSet(Channels) /\ IsFiniteSet(Senders)
  /\ Cap \in Nat \ {0} /\ MaxSends \in Nat /\ MaxSubscribes \in Nat

VARIABLES
  sendLock,   \* TRUE when nobody holds it
  inbox,      \* channels that the next Send adds
  sendCases,  \* channels in the order of the case list
  sender,     \* of each sender: where it is, its value, its position
  active,     \* length of 'cases' in the Send that is under way
  nsent,      \* its result so far
  sub,        \* of each channel: out, in, or leaving
  unread,     \* of each channel: values in the buffer
  log,        \* of each channel: all values sent to it
  sends,      \* Sends so far; value n is the one of Send n
  subscribes  \* subscriptions so far

vars == <<sendLock, inbox, sendCases, sender, active, nsent, sub, unread, log,
          sends, subscribes>>

Values == 1 .. MaxSends

Init ==
  /\ sendLock = TRUE /\ inbox = <<>> /\ sendCases = <<>>
  /\ sender = [s \in Senders |-> [at |-> "idle", value |-> 0, i |-> 0]]
  /\ active = 0 /\ nsent = 0
  /\ sub = [c \in Channels |-> "out"]
  /\ unread = [c \in Channels |-> 0] /\ log = [c \in Channels |-> <<>>]
  /\ sends = 0 /\ subscribes = 0

-----------------------------------------------------------------------------
(* Subscriptions.                                                          *)

Subscribe(c) ==
  /\ sub[c] = "out" /\ subscribes < MaxSubscribes
  /\ inbox' = Append(inbox, c)
  /\ sub' = [sub EXCEPT ![c] = "in"]
  /\ subscribes' = subscribes + 1
  /\ UNCHANGED <<sendLock, sendCases, sender, active, nsent, unread, log,
                 sends>>

\* caseList.find, with 0 for -1.
find(cases, c) ==
  LET here == {i \in DOMAIN cases : cases[i] = c}
  IN IF here = {} THEN 0 ELSE Min(here)

\* caseList.delete at the index that find gives, if there is one.
Delete(cases, c) ==
  IF find(cases, c) = 0 THEN cases ELSE RemoveAt(cases, find(cases, c))

\* Mutant of RemoveInbox: only the inbox is searched.
RemoveInboxOnly(c) ==
  /\ sub[c] = "in"
  /\ inbox' = Delete(inbox, c)
  /\ sub' = [sub EXCEPT ![c] = "out"]
  /\ UNCHANGED <<sendLock, sendCases, sender, active, nsent, unread, log,
                 sends, subscribes>>

\* remove: the inbox first.
RemoveInbox(c) ==
  /\ sub[c] = "in"
  /\ inbox' = Delete(inbox, c)
  /\ sub' = [sub EXCEPT ![c] = IF find(inbox, c) = 0
                               THEN "leaving" ELSE "out"]
  /\ UNCHANGED <<sendLock, sendCases, sender, active, nsent, unread, log,
                 sends, subscribes>>

\* remove, when no Send is in progress.
RemoveLocked(c) ==
  /\ sub[c] = "leaving" /\ sendLock
  /\ sendCases' = Delete(sendCases, c)
  /\ sub' = [sub EXCEPT ![c] = "out"]
  /\ UNCHANGED <<sendLock, inbox, sender, active, nsent, unread, log, sends,
                 subscribes>>

\* A subscriber takes a value out of its channel.
Read(c) ==
  /\ unread[c] > 0
  /\ unread' = [unread EXCEPT ![c] = @ - 1]
  /\ UNCHANGED <<sendLock, inbox, sendCases, sender, active, nsent, sub, log,
                 sends, subscribes>>

-----------------------------------------------------------------------------
(* Send                                                                    *)

At(s, pc) == sender[s].at = pc

Call(s) ==
  /\ At(s, "idle") /\ sends < MaxSends
  /\ sends' = sends + 1
  /\ sender' = [sender EXCEPT ![s] = [at |-> "lock", value |-> sends + 1,
                                      i |-> 0]]
  /\ UNCHANGED <<sendLock, inbox, sendCases, active, nsent, sub, unread, log,
                 subscribes>>

Lock(s) ==
  /\ At(s, "lock") /\ sendLock
  /\ sendLock' = FALSE
  /\ sender' = [sender EXCEPT ![s].at = "merge"]
  /\ UNCHANGED <<inbox, sendCases, active, nsent, sub, unread, log, sends,
                 subscribes>>

\* Add the channels of the inbox.
Merge(s) ==
  /\ At(s, "merge")
  /\ sendCases' = sendCases \o inbox
  /\ inbox' = <<>>
  /\ active' = Len(sendCases') /\ nsent' = 0
  /\ sender' = [sender EXCEPT ![s].at = "try", ![s].i = 1]
  /\ UNCHANGED <<sendLock, sub, unread, log, sends, subscribes>>

\* Mutant of deactivate: the last case is cut off without the swap.
deactivateLast(cases, i) == cases

\* deactivate: swap with the last active case.
deactivate(cases, i) ==
  [cases EXCEPT ![i] = cases[active], ![active] = cases[i]]

\* Mutant of Deliver: the case stays active.
DeliverStays(s, i) ==
  LET c == sendCases[i] IN
  /\ unread[c] < Cap
  /\ unread' = [unread EXCEPT ![c] = @ + 1]
  /\ log' = [log EXCEPT ![c] = Append(@, sender[s].value)]
  /\ nsent' = nsent + 1 /\ UNCHANGED <<sendCases, active>>

\* The channel at position i takes the value.
Deliver(s, i) ==
  LET c == sendCases[i] IN
  /\ unread[c] < Cap
  /\ unread' = [unread EXCEPT ![c] = @ + 1]
  /\ log' = [log EXCEPT ![c] = Append(@, sender[s].value)]
  /\ sendCases' = deactivate(sendCases, i)
  /\ active' = active - 1 /\ nsent' = nsent + 1

\* The fast path: TrySend, one channel after the other.
TrySend(s) ==
  LET i == sender[s].i IN
  /\ At(s, "try") /\ i <= active
  /\ IF unread[sendCases[i]] < Cap
     THEN Deliver(s, i) /\ UNCHANGED sender
     ELSE /\ sender' = [sender EXCEPT ![s].i = i + 1]
          /\ UNCHANGED <<unread, log, sendCases, active, nsent>>
  /\ UNCHANGED <<sendLock, inbox, sub, sends, subscribes>>

\* All channels were tried: done, or wait.
Tried(s) ==
  /\ At(s, "try") /\ sender[s].i > active
  /\ sender' = [sender EXCEPT ![s].at = IF active = 0 THEN "unlock"
                                        ELSE "select"]
  /\ UNCHANGED <<sendLock, inbox, sendCases, active, nsent, sub, unread, log,
                 sends, subscribes>>

\* A receiver unblocks.
SelectSend(s) ==
  /\ At(s, "select")
  /\ \E i \in 1 .. active : Deliver(s, i)
  /\ sender' = [sender EXCEPT ![s].at = "try", ![s].i = 1]
  /\ UNCHANGED <<sendLock, inbox, sub, sends, subscribes>>

\* Mutant of SelectRemove: Send does not listen to removeSub.
SelectRemoveDeaf(s, c) == FALSE

\* A channel that leaves comes in through removeSub: 'cases' shrinks with the
\* list if the channel was still active.
SelectRemove(s, c) ==
  /\ At(s, "select") /\ sub[c] = "leaving"
  /\ sendCases' = Delete(sendCases, c)
  /\ active' = IF find(sendCases, c) \in 1 .. active
               THEN active - 1 ELSE active
  /\ sub' = [sub EXCEPT ![c] = "out"]
  /\ sender' = [sender EXCEPT ![s].at = "try", ![s].i = 1]
  /\ UNCHANGED <<sendLock, inbox, nsent, unread, log, sends, subscribes>>

\* Mutant of Unlock: the lock is not handed off.
UnlockHeld(s) ==
  /\ At(s, "unlock")
  /\ sender' = [sender EXCEPT ![s].at = "idle"]
  /\ UNCHANGED <<sendLock, inbox, sendCases, active, nsent, sub, unread, log,
                 sends, subscribes>>

Unlock(s) ==
  /\ At(s, "unlock")
  /\ sendLock' = TRUE
  /\ sender' = [sender EXCEPT ![s].at = "idle"]
  /\ UNCHANGED <<inbox, sendCases, active, nsent, sub, unread, log, sends,
                 subscribes>>

-----------------------------------------------------------------------------
SendStep(s) ==
  \/ Lock(s) \/ Merge(s) \/ TrySend(s) \/ Tried(s) \/ SelectSend(s)
  \/ Unlock(s)
  \/ \E c \in Channels : SelectRemove(s, c)

Next ==
  \/ \E s \in Senders : Call(s) \/ SendStep(s)
  \/ \E c \in Channels :
       Subscribe(c) \/ RemoveInbox(c) \/ RemoveLocked(c) \/ Read(c)

Spec == Init /\ [][Next]_vars

\* Goroutines that can go on do.  Subscribers need not read.
FairSpec ==
  /\ Spec
  /\ \A s \in Senders : SF_vars(Lock(s)) /\ WF_vars(SendStep(s))
  /\ \A c \in Channels :
       SF_vars(RemoveLocked(c) \/ \E s \in Senders : SelectRemove(s, c))

-----------------------------------------------------------------------------
Sending(s) == sender[s].at \in {"try", "select", "unlock"}

TypeOK ==
  /\ sendLock \in BOOLEAN
  /\ inbox \in Seq(Channels) /\ sendCases \in Seq(Channels)
  /\ sender \in [Senders ->
       [at : {"idle", "lock", "merge", "try", "select", "unlock"},
        value : Values \cup {0}, i : 0 .. Cardinality(Channels) + 1]]
  /\ active \in 0 .. Len(sendCases) /\ nsent \in 0 .. Cardinality(Channels)
  /\ sub \in [Channels -> {"out", "in", "leaving"}]
  /\ unread \in [Channels -> 0 .. Cap]
  /\ log \in [Channels -> Seq(Values)]
  /\ sends \in 0 .. MaxSends /\ subscribes \in 0 .. MaxSubscribes

\* A subscription is listed once, in the inbox or in the case list; one that
\* is leaving is in the case list, where Send or remove will find it (delete
\* would fail with the index -1).
ListedOnce ==
  LET all == inbox \o sendCases IN
  /\ \A c \in Channels :
       Cardinality({i \in DOMAIN all : all[i] = c})
         = IF sub[c] = "out" THEN 0 ELSE 1
  /\ \A c \in Channels : sub[c] = "leaving" => Contains(sendCases, c)

\* During a Send, 'cases' holds the channels that have not got the value, and
\* the rest of the case list those that have, however the list was permuted
\* and whoever left meanwhile.
PrefixIsDue ==
  \A s \in Senders : Sending(s) =>
    \A i \in DOMAIN sendCases :
      i <= active <=> ~Contains(log[sendCases[i]], sender[s].value)

\* Nobody gets a value twice, and two channels that both get two values get them in
\* the same order: Send holds the lock from its first to its last channel.
SameOrder ==
  LET position(c, v) == CHOOSE i \in DOMAIN log[c] : log[c][i] = v
      has(c) == Range(log[c])
  IN
  /\ \A c \in Channels : Cardinality(has(c)) = Len(log[c])
  /\ \A c, d \in Channels : \A v, w \in has(c) \cap has(d) :
       position(c, v) < position(c, w) => position(d, v) < position(d, w)

\* A Send reports the number of channels that got the value.
CountRight ==
  \A s \in Senders : Sending(s) =>
    nsent = Cardinality({c \in Channels : Contains(log[c], sender[s].value)})

\* Together: the lists, the prefix and the count of a Send fit together, however
\* channels come and go during it.
CasesInv == TypeOK /\ ListedOnce /\ PrefixIsDue /\ CountRight

\* Nothing is sent to a channel after Unsubscribe returned, not even by a
\* Send that was under way.
SilentAfterwards ==
  [][\A c \in Channels : sub[c] = "out" => log'[c] = log[c]]_vars

\* Unsubscribe returns, whether or not anybody reads.
UnsubscribeReturns ==
  \A c \in Channels : sub[c] = "leaving" ~> sub[c] = "out"

\* A Send returns as long as all channels are emptied again and again, also by those
\* who have unsubscribed.
SendReturns ==
  (\A c \in Channels : []<>(unread[c] = 0))
    => \A s \in Senders : At(s, "lock") ~> At(s, "idle")
=============================================================================
