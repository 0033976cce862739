------------------------------ MODULE FeedProofs ------------------------------
(***************************************************************************)
(* For any channels, senders and buffers: the case lists of the event feed *)
(* stay consistent with the subscriptions and with the Send that is under  *)
(* way, all channels get their values once and in one order, and nothing   *)
(* is sent to a channel after Unsubscribe returned.                        *)
(***************************************************************************)
EXTENDS Feed, TLAPS, FiniteSetTheorems, SequenceTheorems

Distinct(s) == \A i \in DOMAIN s, j \in DOMAIN s : s[i] = s[j] => i = j

In(c, s) == \E i \in DOMAIN s : s[i] = c

\* ListedOnce, without counting: inbox I and case list C have no channel twice
\* and none in common, and together they have those that are subscribed.
Lists(I, C, S) ==
  /\ Distinct(I) /\ Distinct(C)
  /\ \A c : ~(In(c, I) /\ In(c, C))
  /\ \A c \in Channels : S[c] = "out" <=> ~In(c, I) /\ ~In(c, C)
  /\ \A c \in Channels : S[c] = "leaving" => In(c, C)

Holds(s) == sender[s].at \in {"merge", "try", "select", "unlock"}

\* One sender at a time has the lock, and only it has active cases.
Locks ==
  /\ sendLock <=> \A s \in Senders : ~Holds(s)
  /\ \A s \in Senders, t \in Senders : Holds(s) /\ Holds(t) => s = t
  /\ active # 0 => \E s \in Senders : sender[s].at \in {"try", "select"}
  /\ \A s \in Senders : sender[s].at = "try" => sender[s].i >= 1

\* The values of two Sends differ, and one that has not begun to send was sent
\* to nobody.
Fresh ==
  /\ \A s \in Senders : sender[s].value <= sends
  /\ \A s \in Senders, t \in Senders :
       sender[s].at # "idle" /\ sender[t].at # "idle"
         /\ sender[s].value = sender[t].value => s = t
  /\ \A s \in Senders : sender[s].at # "idle" => sender[s].value \in Values
  /\ \A c \in Channels : \A i \in DOMAIN log[c] : log[c][i] <= sends
  /\ \A s \in Senders : sender[s].at \in {"lock", "merge"} =>
       \A c \in Channels : ~In(sender[s].value, log[c])

\* The value that is being sent is the last one of every channel that has it.
Latest ==
  \A s \in Senders : Sending(s) =>
    \A c \in Channels : \A i \in DOMAIN log[c] :
      log[c][i] = sender[s].value => i = Len(log[c])

\* SameOrder, of positions.
Ordered(L) ==
  /\ \A c \in Channels : Distinct(L[c])
  /\ \A c \in Channels, d \in Channels :
       \A i \in DOMAIN L[c], j \in DOMAIN L[c],
          k \in DOMAIN L[d], l \in DOMAIN L[d] :
         L[c][i] = L[d][k] /\ L[c][j] = L[d][l] /\ i < j => k < l

\* PrefixIsDue and CountRight.
Due ==
  \A s \in Senders : Sending(s) =>
    \A i \in DOMAIN sendCases :
      i <= active <=> ~In(sender[s].value, log[sendCases[i]])

Having(v, L) == {c \in Channels : In(v, L[c])}

Counted ==
  \A s \in Senders :
    Sending(s) => nsent = Cardinality(Having(sender[s].value, log))

Inv ==
  /\ TypeOK /\ Lists(inbox, sendCases, sub) /\ Locks /\ Fresh
  /\ Due /\ Counted /\ Latest /\ Ordered(log)

-----------------------------------------------------------------------------
(* Sequences                                                               *)

\* Contains, of a sequence.
LEMMA ContainsIn ==
  ASSUME NEW T, NEW s \in Seq(T), NEW c
  PROVE  Contains(s, c) <=> In(c, s)
BY DEF Contains, In

\* A list without repetitions is not longer than the channels are many.
LEMMA DistinctShort ==
  ASSUME NEW C \in Seq(Channels), Distinct(C)
  PROVE  Len(C) \in Nat /\ Len(C) <= Cardinality(Channels)
<1>1. Len(C) \in Nat /\ C \in [1 .. Len(C) -> Channels] /\ DOMAIN C = 1 .. Len(C)
  BY LenProperties
<1>2. C \in Injection(1 .. Len(C), Channels)
  BY <1>1 DEF Distinct, Injection, IsInjective
<1>3. Cardinality(1 .. Len(C)) <= Cardinality(Channels)
  BY <1>2, FeedAssumption, FS_Injection
<1>4. Cardinality(1 .. Len(C)) = Len(C)
  <2>1. 1 \in Int /\ Len(C) \in Int
    BY <1>1
  <2>2. Cardinality(1 .. Len(C)) = IF 1 > Len(C) THEN 0 ELSE Len(C) - 1 + 1
    BY <2>1, FS_Interval
  <2> QED BY <2>2, <1>1
<1> QED BY <1>1, <1>3, <1>4

\* find gives the position of a channel that is listed once.
LEMMA FindAt ==
  ASSUME NEW C \in Seq(Channels), Distinct(C), NEW k \in DOMAIN C
  PROVE  find(C, C[k]) = k
<1> DEFINE here == {i \in DOMAIN C : C[i] = C[k]}
<1>1. here = {k}
  BY DEF Distinct
<1>2. k \in Nat
  OBVIOUS
<1>3. Min({k}) = k
  <2>1. \E x \in {k} : \A y \in {k} : x <= y
    BY <1>2
  <2> QED BY <2>1 DEF Min
<1> QED BY <1>1, <1>3 DEF find

\* find gives 0 for a channel that is not listed.
LEMMA FindAbsent ==
  ASSUME NEW C, NEW c, ~In(c, C)
  PROVE  find(C, c) = 0 /\ Delete(C, c) = C
<1>1. {i \in DOMAIN C : C[i] = c} = {}
  BY DEF In
<1>2. find(C, c) = 0
  BY <1>1 DEF find
<1> QED BY <1>2 DEF Delete

\* delete closes the gap.
LEMMA DeleteAt ==
  ASSUME NEW C \in Seq(Channels), Distinct(C), NEW k \in DOMAIN C
  PROVE  LET t == Delete(C, C[k]) IN
         /\ t \in Seq(Channels) /\ Len(t) = Len(C) - 1
         /\ \A j \in 1 .. Len(C) - 1 : t[j] = IF j < k THEN C[j] ELSE C[j + 1]
<1> DEFINE a == SubSeq(C, 1, k - 1)
           b == SubSeq(C, k + 1, Len(C))
<1>1. Len(C) \in Nat /\ DOMAIN C = 1 .. Len(C) /\ k \in 1 .. Len(C)
  BY LenProperties
<1>2. \A i \in 1 .. Len(C) : C[i] \in Channels
  BY ElementOfSeq
<1>3. /\ a \in Seq(Channels) /\ Len(a) = k - 1
      /\ \A i \in 1 .. k - 1 : a[i] = C[i]
  <2>1. 1 \in Int /\ k - 1 \in Int /\ \A i \in 1 .. k - 1 : C[i] \in Channels
    BY <1>1, <1>2
  <2>2. /\ a \in Seq(Channels) /\ Len(a) = IF 1 <= k - 1 THEN k - 1 - 1 + 1 ELSE 0
        /\ \A i \in 1 .. k - 1 - 1 + 1 : a[i] = C[1 + i - 1]
    BY <2>1, SubSeqProperties
  <2> HIDE DEF a
  <2> QED BY <2>2, <1>1
<1>4. /\ b \in Seq(Channels) /\ Len(b) = Len(C) - k
      /\ \A i \in 1 .. Len(C) - k : b[i] = C[k + i]
  <2>1. /\ k + 1 \in Int /\ Len(C) \in Int
        /\ \A i \in k + 1 .. Len(C) : C[i] \in Channels
    BY <1>1, <1>2
  <2>2. /\ b \in Seq(Channels)
        /\ Len(b) = IF k + 1 <= Len(C) THEN Len(C) - (k + 1) + 1 ELSE 0
        /\ \A i \in 1 .. Len(C) - (k + 1) + 1 : b[i] = C[(k + 1) + i - 1]
    BY <2>1, SubSeqProperties
  <2> HIDE DEF b
  <2>3. \A i \in 1 .. Len(C) - k : i \in 1 .. Len(C) - (k + 1) + 1
                                 /\ (k + 1) + i - 1 = k + i
    BY <1>1
  <2>4. \A i \in 1 .. Len(C) - k : b[i] = C[k + i]
    BY <2>2, <2>3
  <2> QED BY <2>2, <2>4, <1>1
<1>5. Delete(C, C[k]) = a \o b
  <2>1. find(C, C[k]) = k /\ k # 0
    BY FindAt, <1>1
  <2> QED BY <2>1 DEF Delete, RemoveAt
<1> HIDE DEF a, b
<1>6. /\ a \o b \in Seq(Channels) /\ Len(a \o b) = Len(a) + Len(b)
      /\ \A i \in 1 .. Len(a) + Len(b) :
           (a \o b)[i] = IF i <= Len(a) THEN a[i] ELSE b[i - Len(a)]
  BY <1>3, <1>4, ConcatProperties
<1>7. Len(a) + Len(b) = Len(C) - 1
  BY <1>1, <1>3, <1>4
<1>8. ASSUME NEW j \in 1 .. Len(C) - 1
      PROVE  (a \o b)[j] = IF j < k THEN C[j] ELSE C[j + 1]
  <2>1. CASE j < k
    BY <2>1, <1>1, <1>3, <1>6, <1>7
  <2>2. CASE ~(j < k)
    <3>1. j - Len(a) \in 1 .. Len(C) - k /\ k + (j - Len(a)) = j + 1 /\ ~(j <= Len(a))
      BY <2>2, <1>1, <1>3
    <3>2. (a \o b)[j] = b[j - Len(a)]
      BY <3>1, <1>6, <1>7
    <3>3. b[j - Len(a)] = C[k + (j - Len(a))]
      BY <3>1, <1>4
    <3> QED BY <3>1, <3>2, <3>3, <2>2
  <2> QED BY <2>1, <2>2
<1> QED BY <1>5, <1>6, <1>7, <1>8

\* Of a list without repetitions, delete takes out the channel and no other.
LEMMA DeleteElements ==
  ASSUME NEW C \in Seq(Channels), Distinct(C), NEW c
  PROVE  LET t == Delete(C, c) IN
         /\ t \in Seq(Channels) /\ Distinct(t)
         /\ \A d : In(d, t) <=> In(d, C) /\ d # c
<1> DEFINE t == Delete(C, c)
<1>1. CASE ~In(c, C)
  <2>1. t = C
    BY <1>1, FindAbsent
  <2> QED BY <2>1, <1>1 DEF In
<1>2. CASE In(c, C)
  <2>1. PICK k \in DOMAIN C : C[k] = c
    BY <1>2 DEF In
  <2>2. Len(C) \in Nat /\ DOMAIN C = 1 .. Len(C)
    BY LenProperties
  <2>3. /\ t \in Seq(Channels) /\ Len(t) = Len(C) - 1
        /\ \A j \in 1 .. Len(C) - 1 : t[j] = IF j < k THEN C[j] ELSE C[j + 1]
    BY <2>1, DeleteAt
  <2> HIDE DEF t
  <2>4. DOMAIN t = 1 .. Len(C) - 1
    BY <2>3, LenProperties
  <2>5. Distinct(t)
    <3>1. SUFFICES ASSUME NEW i \in DOMAIN t, NEW j \in DOMAIN t, t[i] = t[j]
                   PROVE  i = j
      BY DEF Distinct
    <3> DEFINE at(x) == IF x < k THEN x ELSE x + 1
    <3>2. at(i) \in DOMAIN C /\ at(j) \in DOMAIN C
      BY <2>2, <2>4
    <3>3. t[i] = C[at(i)] /\ t[j] = C[at(j)]
      BY <2>3, <2>4
    <3>4. at(i) = at(j)
      BY <3>1, <3>2, <3>3 DEF Distinct
    <3> QED BY <3>4, <2>2, <2>4
  <2>6. ASSUME NEW d, In(d, t) PROVE In(d, C) /\ d # c
    <3>1. PICK j \in DOMAIN t : t[j] = d
      BY <2>6 DEF In
    <3> DEFINE m == IF j < k THEN j ELSE j + 1
    <3>2. m \in DOMAIN C /\ m # k /\ C[m] = d
      BY <3>1, <2>2, <2>3, <2>4
    <3> QED BY <3>2, <2>1 DEF In, Distinct
  <2>7. ASSUME NEW d, In(d, C), d # c PROVE In(d, t)
    <3>1. PICK m \in DOMAIN C : C[m] = d
      BY <2>7 DEF In
    <3> DEFINE j == IF m < k THEN m ELSE m - 1
    <3>2. j \in DOMAIN t /\ t[j] = d
      BY <3>1, <2>1, <2>2, <2>3, <2>4, <2>7
    <3> QED BY <3>2 DEF In
  <2> QED BY <2>3, <2>5, <2>6, <2>7 DEF t
<1> QED BY <1>1, <1>2

\* A list with a new element at its end.
LEMMA AppendElements ==
  ASSUME NEW T, NEW s \in Seq(T), NEW e \in T
  PROVE  LET t == Append(s, e) IN
         /\ t \in Seq(T) /\ Len(t) = Len(s) + 1 /\ Len(s) \in Nat
         /\ DOMAIN s = 1 .. Len(s) /\ DOMAIN t = 1 .. Len(s) + 1
         /\ \A i \in 1 .. Len(s) : t[i] = s[i]
         /\ t[Len(s) + 1] = e
         /\ \A d : In(d, t) <=> In(d, s) \/ d = e
         /\ Distinct(s) /\ ~In(e, s) => Distinct(t)
<1> DEFINE t == Append(s, e)
<1>1. /\ t \in Seq(T) /\ Len(t) = Len(s) + 1
      /\ \A i \in 1 .. Len(s) : t[i] = s[i]
      /\ t[Len(s) + 1] = e
  BY AppendProperties
<1> HIDE DEF t
<1>2. Len(s) \in Nat /\ DOMAIN s = 1 .. Len(s) /\ DOMAIN t = 1 .. Len(s) + 1
  BY <1>1, LenProperties
<1>3. \A i \in DOMAIN t : i \in DOMAIN s \/ i = Len(s) + 1
  BY <1>2
<1>4. DOMAIN s \subseteq DOMAIN t /\ Len(s) + 1 \in DOMAIN t
  BY <1>2
<1>5. \A d : In(d, t) <=> In(d, s) \/ d = e
  BY <1>1, <1>2, <1>3, <1>4 DEF In
<1>6. Distinct(s) /\ ~In(e, s) => Distinct(t)
  BY <1>1, <1>2, <1>3 DEF Distinct, In
<1> QED BY <1>1, <1>2, <1>5, <1>6 DEF t

-----------------------------------------------------------------------------
(* A channel takes the value                                               *)

\* A channel that takes the value moves behind the active cases, and the value
\* is the last one it got.
LEMMA DeliverInv ==
  ASSUME Inv, NEW s \in Senders, sender[s].at \in {"try", "select"},
         NEW i \in 1 .. active, Deliver(s, i),
         \/ sender' = sender
         \/ sender' = [sender EXCEPT ![s].at = "try", ![s].i = 1],
         UNCHANGED <<sendLock, inbox, sub, sends, subscribes>>
  PROVE  Inv'
<1> DEFINE c == sendCases[i]
           v == sender[s].value
           C == sendCases
           D == sendCases'
<1>1. /\ C \in Seq(Channels) /\ active \in 0 .. Len(C) /\ Len(C) \in Nat
      /\ DOMAIN C = 1 .. Len(C) /\ log \in [Channels -> Seq(Values)]
      /\ unread \in [Channels -> 0 .. Cap] /\ nsent \in 0 .. Cardinality(Channels)
      /\ sends \in 0 .. MaxSends /\ sub \in [Channels -> {"out", "in", "leaving"}]
      /\ sender \in [Senders ->
           [at : {"idle", "lock", "merge", "try", "select", "unlock"},
            value : Values \cup {0}, i : 0 .. Cardinality(Channels) + 1]]
  BY LenProperties DEF Inv, TypeOK
<1>2. /\ i \in DOMAIN C /\ active \in DOMAIN C /\ i <= active /\ active \in Nat
      /\ c \in Channels /\ C[active] \in Channels
  <2>1. i \in DOMAIN C /\ active \in DOMAIN C /\ i <= active /\ active \in Nat
    BY <1>1
  <2> QED BY <2>1, <1>1, ElementOfSeq
<1>3. /\ unread[c] < Cap /\ unread' = [unread EXCEPT ![c] = @ + 1]
      /\ log' = [log EXCEPT ![c] = Append(@, v)]
      /\ D = [C EXCEPT ![i] = C[active], ![active] = C[i]]
      /\ active' = active - 1 /\ nsent' = nsent + 1
  BY DEF Deliver, deactivate
<1>4. /\ DOMAIN D = DOMAIN C /\ D \in Seq(Channels) /\ Len(D) = Len(C)
      /\ \A j \in DOMAIN C : D[j] = IF j = active THEN c
                                    ELSE IF j = i THEN C[active] ELSE C[j]
  <2> DEFINE E == [C EXCEPT ![i] = C[active]]
  <2>1. /\ E \in Seq(Channels) /\ Len(E) = Len(C)
        /\ \A j \in 1 .. Len(C) : E[j] = IF j = i THEN C[active] ELSE C[j]
    BY <1>1, <1>2, ExceptSeq
  <2>2. D = [E EXCEPT ![active] = c]
    BY <1>3
  <2> HIDE DEF E, c, C
  <2>0. active \in 1 .. Len(E) /\ c \in Channels
    BY <2>1, <1>1, <1>2
  <2>3. /\ [E EXCEPT ![active] = c] \in Seq(Channels)
        /\ Len([E EXCEPT ![active] = c]) = Len(E)
        /\ \A j \in 1 .. Len(E) :
             [E EXCEPT ![active] = c][j] = IF j = active THEN c ELSE E[j]
    BY <2>0, <2>1, ExceptSeq
  <2>4. DOMAIN D = 1 .. Len(D)
    BY <2>2, <2>3, LenProperties
  <2> QED BY <2>1, <2>2, <2>3, <2>4, <1>1
<1>5. /\ sender[s].at # "idle" /\ Sending(s) /\ Holds(s) /\ v \in Values
  BY DEF Sending, Holds, Inv, Fresh
<1>6. ~In(v, log[c])
  BY <1>2, <1>5 DEF Inv, Due
<1>7. \A t \in Senders :
        /\ sender'[t].value = sender[t].value
        /\ sender'[t].at = sender[t].at \/ (t = s /\ sender'[t].at = "try")
        /\ sender'[t].at = "try" => sender'[t].i >= 1
  <2>1. \A t \in Senders : sender[t].at = "try" => sender[t].i >= 1
    BY DEF Inv, Locks
  <2>2. CASE sender' = sender
    BY <2>1, <2>2
  <2>3. CASE sender' = [sender EXCEPT ![s].at = "try", ![s].i = 1]
    BY <2>1, <2>3, <1>1
  <2> QED BY <2>2, <2>3
<1>8. sender' \in [Senders ->
           [at : {"idle", "lock", "merge", "try", "select", "unlock"},
            value : Values \cup {0}, i : 0 .. Cardinality(Channels) + 1]]
  <2>1. CASE sender' = sender
    BY <2>1, <1>1
  <2>2. CASE sender' = [sender EXCEPT ![s].at = "try", ![s].i = 1]
    <3>1. Cardinality(Channels) \in Nat
      BY FeedAssumption, FS_CardinalityType
    <3>2. 1 \in 0 .. Cardinality(Channels) + 1
      BY <3>1
    <3> QED BY <2>2, <3>2, <1>1
  <2> QED BY <2>1, <2>2
<1>9. \A t \in Senders : /\ sender'[t].at \in {"merge", "try", "select", "unlock"}
                            <=> Holds(t)
                         /\ Sending(t)' => t = s
  BY <1>5, <1>7 DEF Holds, Sending, Inv, Locks
<1>10. /\ log'[c] = Append(log[c], v) /\ log[c] \in Seq(Values)
       /\ \A d \in Channels : d # c => log'[d] = log[d]
       /\ \A d \in Channels : log[d] \in Seq(Values)
  BY <1>1, <1>2, <1>3
<1>11. /\ log'[c] \in Seq(Values) /\ Len(log'[c]) = Len(log[c]) + 1
       /\ Len(log[c]) \in Nat
       /\ DOMAIN log[c] = 1 .. Len(log[c])
       /\ DOMAIN log'[c] = 1 .. Len(log[c]) + 1
       /\ \A k \in 1 .. Len(log[c]) : log'[c][k] = log[c][k]
       /\ log'[c][Len(log[c]) + 1] = v
       /\ \A w : In(w, log'[c]) <=> In(w, log[c]) \/ w = v
       /\ Distinct(log[c]) => Distinct(log'[c])
  BY <1>5, <1>6, <1>10, AppendElements
<1> HIDE DEF c, v, C, D
<1>12. Lists(inbox, D, sub)
  <2>1. Lists(inbox, C, sub) /\ Distinct(C)
    BY DEF Inv, Lists, C
  <2>2. Distinct(D)
    <3>1. SUFFICES ASSUME NEW j \in DOMAIN C, NEW k \in DOMAIN C, D[j] = D[k]
                   PROVE  j = k
      BY <1>4 DEF Distinct
    <3> DEFINE at(x) == IF x = active THEN i ELSE IF x = i THEN active ELSE x
    <3>2. at(j) \in DOMAIN C /\ at(k) \in DOMAIN C
      BY <1>2
    <3>3. D[j] = C[at(j)] /\ D[k] = C[at(k)]
      BY <1>4 DEF c, C
    <3>4. at(j) = at(k)
      BY <2>1, <3>1, <3>2, <3>3 DEF Distinct
    <3> QED BY <3>4
  <2>3. \A d : In(d, D) <=> In(d, C)
    BY <1>2, <1>4 DEF In, c, C
  <2> QED BY <2>1, <2>2, <2>3 DEF Lists
<1>13. Due'
  <2>1. SUFFICES ASSUME NEW t \in Senders, Sending(t)', NEW j \in DOMAIN D
                 PROVE  j <= active' <=> ~In(sender'[t].value, log'[D[j]])
    BY DEF Due, D
  <2>2. t = s /\ sender'[t].value = v
    BY <2>1, <1>7, <1>9 DEF v
  <2>3. \A k \in DOMAIN C : k <= active <=> ~In(v, log[C[k]])
    BY <1>5 DEF Inv, Due, v, C
  <2>4. \A k \in DOMAIN C : k # i => C[k] # c
    BY <1>2 DEF Inv, Lists, Distinct, c, C
  <2>5. \A k \in DOMAIN C : C[k] \in Channels
    BY <1>1, ElementOfSeq
  <2>6. CASE j = active
    <3>1. D[j] = c /\ In(v, log'[c])
      BY <2>6, <1>2, <1>4, <1>11
    <3> QED BY <3>1, <2>2, <2>6, <1>2, <1>3
  <2>7. CASE j # active /\ j = i
    <3>1. D[j] = C[active] /\ C[active] # c /\ C[active] \in Channels
      BY <2>1, <2>4, <2>5, <2>7, <1>2, <1>4
    <3>2. log'[D[j]] = log[C[active]]
      BY <3>1, <1>10
    <3>3. ~In(v, log[C[active]])
      BY <2>3, <1>2
    <3>4. j <= active'
      BY <2>7, <1>1, <1>2, <1>3
    <3> QED BY <3>2, <3>3, <3>4, <2>2
  <2>8. CASE j # active /\ j # i
    <3>1. j \in DOMAIN C /\ D[j] = C[j] /\ C[j] # c /\ C[j] \in Channels
      BY <2>1, <2>4, <2>5, <2>8, <1>4
    <3>2. log'[D[j]] = log[C[j]]
      BY <3>1, <1>10
    <3>3. j <= active' <=> j <= active
      <4>1. j \in Nat
        BY <3>1, <1>1
      <4> QED BY <4>1, <2>8, <1>2, <1>3
    <3> QED BY <3>1, <3>2, <3>3, <2>2, <2>3
  <2> QED BY <2>6, <2>7, <2>8
<1>14. Counted' /\ nsent' \in 0 .. Cardinality(Channels)
  <2>1. Having(v, log') = Having(v, log) \cup {c} /\ c \notin Having(v, log)
    BY <1>2, <1>6, <1>10, <1>11 DEF Having
  <2>2. /\ IsFiniteSet(Having(v, log)) /\ IsFiniteSet(Having(v, log'))
        /\ Cardinality(Having(v, log')) <= Cardinality(Channels)
        /\ Cardinality(Having(v, log)) \in Nat /\ Cardinality(Channels) \in Nat
    BY FeedAssumption, FS_Subset, FS_CardinalityType DEF Having
  <2>3. Cardinality(Having(v, log) \cup {c}) = Cardinality(Having(v, log)) + 1
    BY <2>1, <2>2, FS_AddElement
  <2>4. nsent = Cardinality(Having(v, log))
    BY <1>5 DEF Inv, Counted, v
  <2>5. nsent' = Cardinality(Having(v, log'))
    BY <2>1, <2>3, <2>4, <1>3
  <2>6. Counted'
    BY <2>5, <1>7, <1>9 DEF Counted, v
  <2>7. nsent' \in Nat /\ nsent' <= Cardinality(Channels)
    BY <2>2, <2>4, <2>5, <1>3
  <2> QED BY <2>2, <2>6, <2>7
<1>15. Latest'
  <2>1. SUFFICES ASSUME NEW t \in Senders, Sending(t)', NEW d \in Channels,
                        NEW k \in DOMAIN log'[d], log'[d][k] = sender'[t].value
                 PROVE  k = Len(log'[d])
    BY DEF Latest
  <2>2. t = s /\ sender'[t].value = v
    BY <2>1, <1>7, <1>9 DEF v
  <2>3. CASE d = c
    <3>1. k \notin DOMAIN log[c]
      BY <2>1, <2>2, <2>3, <1>6, <1>11 DEF In
    <3>2. k = Len(log[c]) + 1
      BY <3>1, <2>1, <2>3, <1>11
    <3> QED BY <3>2, <2>3, <1>11
  <2>4. CASE d # c
    <3>1. log'[d] = log[d]
      BY <2>4, <1>10
    <3> QED BY <3>1, <2>1, <2>2, <1>5 DEF Inv, Latest, v
  <2> QED BY <2>3, <2>4
<1>16. Ordered(log')
  <2>1. Ordered(log)
    BY DEF Inv
  <2>2. \A d \in Channels : Distinct(log'[d])
    BY <2>1, <1>10, <1>11 DEF Ordered
  <2>3. \A d \in Channels : \A k \in DOMAIN log[d] : log[d][k] = v => k = Len(log[d])
    BY <1>5 DEF Inv, Latest, v
  <2>4. \A d \in Channels : Len(log[d]) \in Nat /\ DOMAIN log[d] = 1 .. Len(log[d])
    BY <1>10, LenProperties
  <2>5. ASSUME NEW x \in Channels, NEW y \in Channels,
               NEW k \in DOMAIN log'[x], NEW l \in DOMAIN log'[x],
               NEW m \in DOMAIN log'[y], NEW n \in DOMAIN log'[y],
               log'[x][k] = log'[y][m], log'[x][l] = log'[y][n], k < l
        PROVE  m < n
    <3>1. CASE x = c /\ y = c
      BY <3>1, <2>2, <2>5 DEF Distinct
    <3>2. CASE x # c /\ y # c
      <4>1. log'[x] = log[x] /\ log'[y] = log[y]
        BY <3>2, <1>10
      <4>2. /\ k \in DOMAIN log[x] /\ l \in DOMAIN log[x]
            /\ m \in DOMAIN log[y] /\ n \in DOMAIN log[y]
            /\ log[x][k] = log[y][m] /\ log[x][l] = log[y][n]
        BY <4>1, <2>5
      <4> QED BY <4>2, <2>1, <2>5 DEF Ordered
    <3>3. CASE x = c /\ y # c
      <4>1. log'[y] = log[y]
        BY <3>3, <1>10
      <4>2. CASE l \in DOMAIN log[c]
        <5>1. k \in DOMAIN log[c]
          BY <4>2, <3>3, <2>5, <1>11
        <5>2. /\ log[c][k] = log[y][m] /\ log[c][l] = log[y][n]
              /\ m \in DOMAIN log[y] /\ n \in DOMAIN log[y]
          BY <5>1, <4>1, <4>2, <3>3, <2>5, <1>11
        <5> QED BY <5>1, <5>2, <4>2, <2>1, <2>5, <1>2 DEF Ordered
      <4>3. CASE l \notin DOMAIN log[c]
        <5>1. l = Len(log[c]) + 1 /\ log'[x][l] = v
          BY <4>3, <3>3, <1>11
        <5>2. n = Len(log[y])
          BY <5>1, <4>1, <2>3, <2>5
        <5>3. k \in DOMAIN log[c] /\ log'[x][k] = log[c][k]
          BY <5>1, <3>3, <2>5, <1>11
        <5>4. log[y][m] # v
          BY <5>3, <4>1, <2>5, <1>6 DEF In
        <5>5. m # n
          BY <5>1, <5>4, <4>1, <2>5
        <5> QED BY <5>2, <5>5, <4>1, <2>4, <2>5
      <4> QED BY <4>2, <4>3
    <3>4. CASE x # c /\ y = c
      <4>1. log'[x] = log[x]
        BY <3>4, <1>10
      <4>2. CASE n \in DOMAIN log[c]
        <5>1. CASE m \in DOMAIN log[c]
          BY <5>1, <4>1, <4>2, <3>4, <2>1, <2>5, <1>2, <1>11 DEF Ordered
        <5>2. CASE m \notin DOMAIN log[c]
          <6>1. log[x][k] = v
            BY <5>2, <4>1, <3>4, <2>5, <1>11
          <6>2. k = Len(log[x])
            BY <6>1, <4>1, <2>3
          <6> QED BY <6>2, <4>1, <2>4, <2>5
        <5> QED BY <5>1, <5>2
      <4>3. CASE n \notin DOMAIN log[c]
        <5>1. n = Len(log[c]) + 1 /\ log'[y][n] = v
          BY <4>3, <3>4, <1>11
        <5>2. log[x][l] = v
          BY <5>1, <4>1, <2>5
        <5>3. log[x][k] # v
          BY <5>2, <4>1, <2>3, <2>4, <2>5
        <5>4. m # n
          BY <5>1, <5>3, <4>1, <2>5
        <5> QED BY <5>1, <5>4, <3>4, <1>11
      <4> QED BY <4>2, <4>3
    <3> QED BY <3>1, <3>2, <3>3, <3>4
  <2> QED BY <2>2, <2>5 DEF Ordered
<1>17. Fresh'
  <2>1. \A t \in Senders : sender'[t].at # "idle" => sender[t].at # "idle"
    BY <1>5, <1>7
  <2>2. \A t \in Senders : sender'[t].at \in {"lock", "merge"} =>
                             sender[t].at = sender'[t].at /\ t # s
    BY <1>7
  <2>3. v <= sends
    BY DEF Inv, Fresh, v
  <2>4. \A d \in Channels : \A k \in DOMAIN log'[d] : log'[d][k] <= sends
    <3>1. \A k \in DOMAIN log'[c] : log'[c][k] <= sends
      <4>1. \A k \in DOMAIN log[c] : log[c][k] <= sends
        BY <1>2 DEF Inv, Fresh
      <4>2. ASSUME NEW k \in DOMAIN log'[c] PROVE k \in DOMAIN log[c] \/ k = Len(log[c]) + 1
        BY <1>11
      <4> QED BY <4>1, <4>2, <2>3, <1>11
    <3>2. \A d \in Channels : d # c => \A k \in DOMAIN log'[d] : log'[d][k] <= sends
      BY <1>10 DEF Inv, Fresh
    <3> QED BY <3>1, <3>2
  <2>5. ASSUME NEW t \in Senders, sender'[t].at \in {"lock", "merge"}, NEW d \in Channels
        PROVE  ~In(sender'[t].value, log'[d])
    <3>1. /\ sender[t].at \in {"lock", "merge"} /\ t # s
          /\ sender'[t].value = sender[t].value
      BY <2>2, <2>5, <1>7
    <3>2. ~In(sender[t].value, log[d]) /\ sender[t].value # v
      BY <3>1, <1>5 DEF Inv, Fresh, v
    <3>3. CASE d = c
      BY <3>1, <3>2, <3>3, <1>11
    <3>4. CASE d # c
      BY <3>1, <3>2, <3>4, <1>10
    <3> QED BY <3>3, <3>4
  <2> QED BY <2>1, <2>4, <2>5, <1>7 DEF Inv, Fresh
<1>18. Locks'
  <2>1. sender'[s].at \in {"try", "select"}
    BY <1>7
  <2> QED BY <2>1, <1>7, <1>9 DEF Inv, Locks, Holds
<1>19. TypeOK'
  <2>1. unread' \in [Channels -> 0 .. Cap]
    <3>1. unread[c] \in 0 .. Cap /\ Cap \in Nat
      BY <1>1, <1>2, FeedAssumption
    <3>2. unread[c] + 1 \in 0 .. Cap
      BY <3>1, <1>3
    <3> QED BY <3>2, <1>1, <1>3
  <2>2. log' \in [Channels -> Seq(Values)]
    BY <1>1, <1>3, <1>10, <1>11
  <2>3. active' \in 0 .. Len(D)
    BY <1>1, <1>2, <1>3, <1>4
  <2> QED BY <2>1, <2>2, <2>3, <1>4, <1>8, <1>14 DEF Inv, TypeOK, D
<1> QED BY <1>12, <1>13, <1>14, <1>15, <1>16, <1>17, <1>18, <1>19 DEF Inv, D

-----------------------------------------------------------------------------
(* Subscriptions                                                           *)

\* What a step that leaves the Sends alone has to show.
LEMMA ListsKept ==
  ASSUME Inv, TypeOK', Lists(inbox, sendCases, sub)', Due',
         UNCHANGED <<sendLock, sender, active, nsent, log, sends>>
  PROVE  Inv'
<1>1. Locks' /\ Fresh'
  BY DEF Inv, Locks, Fresh, Holds
<1>2. Counted' /\ Latest'
  BY DEF Inv, Counted, Latest, Sending
<1>3. Ordered(log)'
  BY DEF Inv
<1> QED BY <1>1, <1>2, <1>3 DEF Inv

\* A channel subscribes.
LEMMA SubscribeInv ==
  ASSUME Inv, NEW c \in Channels, Subscribe(c)
  PROVE  Inv'
<1>1. /\ sub[c] = "out" /\ subscribes < MaxSubscribes
      /\ inbox' = Append(inbox, c) /\ sub' = [sub EXCEPT ![c] = "in"]
      /\ subscribes' = subscribes + 1
      /\ UNCHANGED <<sendLock, sendCases, sender, active, nsent, unread, log,
                     sends>>
  BY DEF Subscribe
<1>2. /\ inbox \in Seq(Channels) /\ sub \in [Channels -> {"out", "in", "leaving"}]
      /\ subscribes \in 0 .. MaxSubscribes /\ Lists(inbox, sendCases, sub)
  BY DEF Inv, TypeOK
<1>3. ~In(c, inbox) /\ ~In(c, sendCases)
  BY <1>1, <1>2 DEF Lists
<1>4. /\ inbox' \in Seq(Channels) /\ Distinct(inbox')
      /\ \A d : In(d, inbox') <=> In(d, inbox) \/ d = c
  BY <1>1, <1>2, <1>3, AppendElements DEF Lists
<1>5. /\ sub'[c] = "in" /\ \A d \in Channels : d # c => sub'[d] = sub[d]
      /\ sub' \in [Channels -> {"out", "in", "leaving"}]
  BY <1>1, <1>2
<1>6. Lists(inbox, sendCases, sub)'
  BY <1>1, <1>2, <1>3, <1>4, <1>5 DEF Lists
<1>7. TypeOK'
  BY <1>1, <1>2, <1>4, <1>5, FeedAssumption DEF Inv, TypeOK
<1>8. Due'
  BY <1>1 DEF Inv, Due, Sending
<1> QED BY <1>1, <1>6, <1>7, <1>8, ListsKept

\* A channel leaves, or is found to be in the case list.
LEMMA RemoveInboxInv ==
  ASSUME Inv, NEW c \in Channels, RemoveInbox(c)
  PROVE  Inv'
<1>1. /\ sub[c] = "in" /\ inbox' = Delete(inbox, c)
      /\ sub' = [sub EXCEPT ![c] = IF find(inbox, c) = 0
                                   THEN "leaving" ELSE "out"]
      /\ UNCHANGED <<sendLock, sendCases, sender, active, nsent, unread, log,
                     sends, subscribes>>
  BY DEF RemoveInbox
<1>2. /\ inbox \in Seq(Channels) /\ sub \in [Channels -> {"out", "in", "leaving"}]
      /\ Lists(inbox, sendCases, sub) /\ Distinct(inbox)
  BY DEF Inv, TypeOK, Lists
<1>3. /\ inbox' \in Seq(Channels) /\ Distinct(inbox')
      /\ \A d : In(d, inbox') <=> In(d, inbox) /\ d # c
  BY <1>1, <1>2, DeleteElements
<1>4. sub'[c] = (IF In(c, inbox) THEN "out" ELSE "leaving")
      /\ \A d \in Channels : d # c => sub'[d] = sub[d]
      /\ sub' \in [Channels -> {"out", "in", "leaving"}]
  <2>1. In(c, inbox) => find(inbox, c) # 0
    <3>1. ASSUME NEW k \in DOMAIN inbox, inbox[k] = c PROVE find(inbox, c) # 0
      <4>1. find(inbox, c) = k
        BY <3>1, <1>2, FindAt
      <4>2. k \in 1 .. Len(inbox)
        BY <1>2, LenProperties
      <4> QED BY <4>1, <4>2
    <3> QED BY <3>1 DEF In
  <2>2. ~In(c, inbox) => find(inbox, c) = 0
    BY FindAbsent
  <2> QED BY <2>1, <2>2, <1>1, <1>2
<1>5. In(c, inbox) \/ In(c, sendCases)
  BY <1>1, <1>2 DEF Lists
<1>6. Lists(inbox, sendCases, sub)'
  <2>1. \A d : ~(In(d, inbox') /\ In(d, sendCases))
    BY <1>2, <1>3 DEF Lists
  <2>2. \A d \in Channels : sub'[d] = "out" <=> ~In(d, inbox') /\ ~In(d, sendCases)
    <3>1. ASSUME NEW d \in Channels, d # c
          PROVE  sub'[d] = "out" <=> ~In(d, inbox') /\ ~In(d, sendCases)
      BY <3>1, <1>2, <1>3, <1>4 DEF Lists
    <3>2. sub'[c] = "out" <=> ~In(c, inbox') /\ ~In(c, sendCases)
      BY <1>2, <1>3, <1>4, <1>5 DEF Lists
    <3> QED BY <3>1, <3>2
  <2>3. \A d \in Channels : sub'[d] = "leaving" => In(d, sendCases)
    BY <1>2, <1>4, <1>5 DEF Lists
  <2> QED BY <2>1, <2>2, <2>3, <1>1, <1>2, <1>3 DEF Lists
<1>7. TypeOK'
  BY <1>1, <1>3, <1>4 DEF Inv, TypeOK
<1>8. Due'
  BY <1>1 DEF Inv, Due, Sending
<1> QED BY <1>1, <1>6, <1>7, <1>8, ListsKept

\* The case list without a channel that is leaving.
LEMMA LeavingLists ==
  ASSUME Inv, NEW c \in Channels, sub[c] = "leaving",
         sendCases' = Delete(sendCases, c), sub' = [sub EXCEPT ![c] = "out"],
         inbox' = inbox
  PROVE  /\ sendCases' \in Seq(Channels)
         /\ sub' \in [Channels -> {"out", "in", "leaving"}]
         /\ Lists(inbox, sendCases, sub)'
<1>1. /\ sendCases \in Seq(Channels) /\ sub \in [Channels -> {"out", "in", "leaving"}]
      /\ Lists(inbox, sendCases, sub) /\ Distinct(sendCases)
  BY DEF Inv, TypeOK, Lists
<1>2. /\ sendCases' \in Seq(Channels) /\ Distinct(sendCases')
      /\ \A d : In(d, sendCases') <=> In(d, sendCases) /\ d # c
  BY <1>1, DeleteElements
<1>3. /\ sub'[c] = "out" /\ \A d \in Channels : d # c => sub'[d] = sub[d]
      /\ sub' \in [Channels -> {"out", "in", "leaving"}]
  BY <1>1
<1>4. In(c, sendCases) /\ ~In(c, inbox)
  BY <1>1 DEF Lists
<1>5. Lists(inbox, sendCases, sub)'
  BY <1>1, <1>2, <1>3, <1>4 DEF Lists
<1> QED BY <1>2, <1>3, <1>5

\* A channel leaves while nobody sends.
LEMMA RemoveLockedInv ==
  ASSUME Inv, NEW c \in Channels, RemoveLocked(c)
  PROVE  Inv'
<1>1. /\ sub[c] = "leaving" /\ sendLock
      /\ sendCases' = Delete(sendCases, c) /\ sub' = [sub EXCEPT ![c] = "out"]
      /\ UNCHANGED <<sendLock, inbox, sender, active, nsent, unread, log,
                     sends, subscribes>>
  BY DEF RemoveLocked
<1>2. /\ sendCases' \in Seq(Channels)
      /\ sub' \in [Channels -> {"out", "in", "leaving"}]
      /\ Lists(inbox, sendCases, sub)'
  BY <1>1, LeavingLists
<1>3. \A s \in Senders : ~Holds(s)
  BY <1>1 DEF Inv, Locks
<1>4. active = 0
  BY <1>3 DEF Inv, Locks, Holds
<1>5. Due'
  BY <1>1, <1>3 DEF Due, Sending, Holds
<1>6. active' \in 0 .. Len(sendCases')
  <2>1. Len(sendCases') \in Nat
    BY <1>2, LenProperties
  <2> QED BY <2>1, <1>1, <1>4
<1>7. TypeOK'
  BY <1>1, <1>2, <1>6 DEF Inv, TypeOK
<1> QED BY <1>1, <1>2, <1>5, <1>7, ListsKept

\* A value is read.
LEMMA ReadInv ==
  ASSUME Inv, NEW c \in Channels, Read(c)
  PROVE  Inv'
<1>1. /\ unread[c] > 0 /\ unread' = [unread EXCEPT ![c] = @ - 1]
      /\ UNCHANGED <<sendLock, inbox, sendCases, sender, active, nsent, sub,
                     log, sends, subscribes>>
  BY DEF Read
<1>2. unread \in [Channels -> 0 .. Cap] /\ Cap \in Nat
  BY FeedAssumption DEF Inv, TypeOK
<1>3. unread' \in [Channels -> 0 .. Cap]
  <2>1. unread[c] \in 0 .. Cap
    BY <1>2
  <2>2. unread[c] - 1 \in 0 .. Cap
    BY <2>1, <1>1, <1>2
  <2> QED BY <2>2, <1>1, <1>2
<1>4. TypeOK'
  BY <1>1, <1>3 DEF Inv, TypeOK
<1>5. Due'
  BY <1>1 DEF Inv, Due, Sending
<1>6. Lists(inbox, sendCases, sub)'
  BY <1>1 DEF Inv
<1> QED BY <1>1, <1>4, <1>5, <1>6, ListsKept

-----------------------------------------------------------------------------
(* Send                                                                    *)

SenderStates ==
  [at : {"idle", "lock", "merge", "try", "select", "unlock"},
   value : Values \cup {0}, i : 0 .. Cardinality(Channels) + 1]

\* The types of the state, and the bound on the length of the case list.
LEMMA InvTypes ==
  ASSUME Inv
  PROVE  /\ sender \in [Senders -> SenderStates]
         /\ sendCases \in Seq(Channels) /\ inbox \in Seq(Channels)
         /\ Len(sendCases) \in Nat /\ DOMAIN sendCases = 1 .. Len(sendCases)
         /\ Len(sendCases) <= Cardinality(Channels)
         /\ Cardinality(Channels) \in Nat /\ active \in 0 .. Len(sendCases)
         /\ sends \in 0 .. MaxSends /\ MaxSends \in Nat
         /\ log \in [Channels -> Seq(Values)]
<1>1. sendCases \in Seq(Channels) /\ Distinct(sendCases)
  BY DEF Inv, TypeOK, Lists
<1>2. Cardinality(Channels) \in Nat
  BY FeedAssumption, FS_CardinalityType
<1> QED BY <1>1, <1>2, DistinctShort, LenProperties, FeedAssumption
        DEF Inv, TypeOK, SenderStates

\* What a step that leaves the lists and the logs alone has to show.
LEMMA SenderKept ==
  ASSUME Inv, Locks', Fresh', sender' \in [Senders -> SenderStates],
         sendLock' \in BOOLEAN, sends' \in 0 .. MaxSends,
         \A t \in Senders : Sending(t)' =>
           Sending(t) /\ sender'[t].value = sender[t].value,
         UNCHANGED <<inbox, sendCases, active, nsent, sub, unread, log, subscribes>>
  PROVE  Inv'
<1>1. TypeOK'
  BY DEF Inv, TypeOK, SenderStates
<1>2. Due' /\ Counted' /\ Latest'
  BY DEF Inv, Due, Counted, Latest
<1>3. Lists(inbox, sendCases, sub)' /\ Ordered(log)'
  BY DEF Inv
<1> QED BY <1>1, <1>2, <1>3 DEF Inv

\* Send is called with the next value.
LEMMA CallInv ==
  ASSUME Inv, NEW s \in Senders, Call(s)
  PROVE  Inv'
<1>1. /\ sender[s].at = "idle" /\ sends < MaxSends /\ sends' = sends + 1
      /\ sender' = [sender EXCEPT ![s] = [at |-> "lock", value |-> sends + 1,
                                          i |-> 0]]
      /\ UNCHANGED <<sendLock, inbox, sendCases, active, nsent, sub, unread,
                     log, subscribes>>
  BY DEF Call, At
<1>2. /\ sender \in [Senders -> SenderStates] /\ sends \in 0 .. MaxSends
      /\ MaxSends \in Nat /\ Cardinality(Channels) \in Nat
      /\ log \in [Channels -> Seq(Values)]
  BY InvTypes
<1>3. sends' \in 0 .. MaxSends /\ sends + 1 \in Values
  BY <1>1, <1>2 DEF Values
<1>4. /\ sender' \in [Senders -> SenderStates]
      /\ sender'[s].at = "lock" /\ sender'[s].value = sends + 1
      /\ \A t \in Senders : t # s => sender'[t] = sender[t]
  <2>1. [at |-> "lock", value |-> sends + 1, i |-> 0] \in SenderStates
    BY <1>2, <1>3 DEF SenderStates
  <2> QED BY <2>1, <1>1, <1>2
<1>5. \A t \in Senders : sender[t].value \in 0 .. sends
  <2>1. ASSUME NEW t \in Senders PROVE sender[t].value \in 0 .. sends
    <3>1. sender[t].value <= sends
      BY DEF Inv, Fresh
    <3>2. sender[t].value \in Nat
      BY <1>2 DEF SenderStates, Values
    <3> QED BY <3>1, <3>2, <1>2
  <2> QED BY <2>1
<1>6. ASSUME NEW c \in Channels, NEW k \in DOMAIN log[c]
      PROVE  log[c][k] \in 0 .. sends
  <2>1. log[c] \in Seq(Values)
    BY <1>2
  <2>2. log[c][k] \in Values
    BY <2>1, LenProperties, ElementOfSeq
  <2>3. log[c][k] <= sends
    BY DEF Inv, Fresh
  <2> QED BY <2>2, <2>3, <1>2 DEF Values
<1>7. Fresh'
  <2>1. \A t \in Senders : sender'[t].value <= sends'
    BY <1>1, <1>2, <1>4, <1>5
  <2>2. \A t \in Senders, u \in Senders :
          sender'[t].at # "idle" /\ sender'[u].at # "idle"
            /\ sender'[t].value = sender'[u].value => t = u
    <3>1. \A t \in Senders : t # s => sender'[t].value # sends + 1
      BY <1>2, <1>4, <1>5
    <3>2. \A t \in Senders, u \in Senders : t # s /\ u # s
            /\ sender'[t].at # "idle" /\ sender'[u].at # "idle"
            /\ sender'[t].value = sender'[u].value => t = u
      BY <1>4 DEF Inv, Fresh
    <3> QED BY <3>1, <3>2, <1>4
  <2>3. \A t \in Senders : sender'[t].at # "idle" => sender'[t].value \in Values
    BY <1>3, <1>4 DEF Inv, Fresh
  <2>4. \A c \in Channels : \A k \in DOMAIN log'[c] : log'[c][k] <= sends'
    BY <1>1, <1>2, <1>6
  <2>5. \A c \in Channels : ~In(sends + 1, log[c])
    BY <1>2, <1>6 DEF In
  <2>6. \A t \in Senders : sender'[t].at \in {"lock", "merge"} =>
          \A c \in Channels : ~In(sender'[t].value, log'[c])
    BY <2>5, <1>1, <1>4 DEF Inv, Fresh
  <2> QED BY <2>1, <2>2, <2>3, <2>4, <2>6 DEF Fresh
<1>8. Locks'
  <2>1. \A t \in Senders : Holds(t)' <=> Holds(t)
    BY <1>1, <1>4 DEF Holds
  <2>2. \A t \in Senders : sender[t].at \in {"try", "select"} =>
                             sender'[t] = sender[t]
    BY <1>1, <1>4
  <2>3. \A t \in Senders : sender'[t].at = "try" => sender'[t] = sender[t]
    BY <1>4
  <2> QED BY <2>1, <2>2, <2>3, <1>1 DEF Inv, Locks
<1>9. \A t \in Senders : Sending(t)' =>
        Sending(t) /\ sender'[t].value = sender[t].value
  BY <1>4 DEF Sending
<1>10. sendLock' \in BOOLEAN
  BY <1>1 DEF Inv, TypeOK
<1> QED BY <1>1, <1>3, <1>4, <1>7, <1>8, <1>9, <1>10, SenderKept

\* A sender that goes on with its value: the values stay fresh.
LEMMA FreshKept ==
  ASSUME Inv, NEW s \in Senders, sender[s].at # "idle",
         \A t \in Senders : sender'[t].value = sender[t].value,
         \A t \in Senders : t # s => sender'[t] = sender[t],
         sender'[s].at \in {"lock", "merge"} => sender[s].at \in {"lock", "merge"},
         UNCHANGED <<log, sends>>
  PROVE  Fresh'
BY DEF Inv, Fresh

\* A sender gets the lock.
LEMMA LockInv ==
  ASSUME Inv, NEW s \in Senders, Lock(s)
  PROVE  Inv'
<1>1. /\ sender[s].at = "lock" /\ sendLock /\ sendLock' = FALSE
      /\ sender' = [sender EXCEPT ![s].at = "merge"]
      /\ UNCHANGED <<inbox, sendCases, active, nsent, sub, unread, log, sends,
                     subscribes>>
  BY DEF Lock, At
<1>2. sender \in [Senders -> SenderStates] /\ sends \in 0 .. MaxSends
  BY InvTypes
<1>3. /\ sender' \in [Senders -> SenderStates]
      /\ sender'[s].at = "merge" /\ sender'[s].value = sender[s].value
      /\ \A t \in Senders : t # s => sender'[t] = sender[t]
  BY <1>1, <1>2 DEF SenderStates
<1>4. \A t \in Senders : sender'[t].value = sender[t].value
  BY <1>3
<1>5. Fresh'
  BY <1>1, <1>3, <1>4, FreshKept
<1>6. Locks'
  <2>1. \A t \in Senders : ~Holds(t)
    BY <1>1 DEF Inv, Locks
  <2>2. \A t \in Senders : Holds(t)' <=> t = s
    BY <2>1, <1>3 DEF Holds
  <2>3. active = 0
    BY <2>1 DEF Inv, Locks, Holds
  <2>4. \A t \in Senders : sender'[t].at # "try"
    BY <2>1, <1>3 DEF Holds
  <2> QED BY <2>2, <2>3, <2>4, <1>1 DEF Locks
<1>7. \A t \in Senders : Sending(t)' =>
        Sending(t) /\ sender'[t].value = sender[t].value
  BY <1>3 DEF Sending
<1> QED BY <1>1, <1>2, <1>3, <1>5, <1>6, <1>7, SenderKept

\* All channels were tried.
LEMMA TriedInv ==
  ASSUME Inv, NEW s \in Senders, Tried(s)
  PROVE  Inv'
<1>1. /\ sender[s].at = "try"
      /\ sender' = [sender EXCEPT ![s].at = IF active = 0 THEN "unlock"
                                            ELSE "select"]
      /\ UNCHANGED <<sendLock, inbox, sendCases, active, nsent, sub, unread,
                     log, sends, subscribes>>
  BY DEF Tried, At
<1>2. sender \in [Senders -> SenderStates] /\ sends \in 0 .. MaxSends
  BY InvTypes
<1>3. /\ sender' \in [Senders -> SenderStates]
      /\ sender'[s].at = IF active = 0 THEN "unlock" ELSE "select"
      /\ sender'[s].value = sender[s].value
      /\ \A t \in Senders : t # s => sender'[t] = sender[t]
  BY <1>1, <1>2 DEF SenderStates
<1>4. \A t \in Senders : sender'[t].value = sender[t].value
  BY <1>3
<1>5. Fresh'
  BY <1>1, <1>3, <1>4, FreshKept
<1>6. Locks'
  <2>1. \A t \in Senders : Holds(t)' <=> Holds(t)
    BY <1>1, <1>3 DEF Holds
  <2>2. active # 0 => sender'[s].at = "select"
    BY <1>3
  <2>3. \A t \in Senders : sender'[t].at = "try" => sender'[t] = sender[t]
    BY <1>3
  <2> QED BY <2>1, <2>2, <2>3, <1>1 DEF Inv, Locks
<1>7. \A t \in Senders : Sending(t)' =>
        Sending(t) /\ sender'[t].value = sender[t].value
  BY <1>1, <1>3 DEF Sending
<1>8. sendLock' \in BOOLEAN
  BY <1>1 DEF Inv, TypeOK
<1> QED BY <1>1, <1>2, <1>3, <1>5, <1>6, <1>7, <1>8, SenderKept

\* Send returns.
LEMMA UnlockInv ==
  ASSUME Inv, NEW s \in Senders, Unlock(s)
  PROVE  Inv'
<1>1. /\ sender[s].at = "unlock" /\ sendLock' = TRUE
      /\ sender' = [sender EXCEPT ![s].at = "idle"]
      /\ UNCHANGED <<inbox, sendCases, active, nsent, sub, unread, log, sends,
                     subscribes>>
  BY DEF Unlock, At
<1>2. sender \in [Senders -> SenderStates] /\ sends \in 0 .. MaxSends
  BY InvTypes
<1>3. /\ sender' \in [Senders -> SenderStates]
      /\ sender'[s].at = "idle" /\ sender'[s].value = sender[s].value
      /\ \A t \in Senders : t # s => sender'[t] = sender[t]
  BY <1>1, <1>2 DEF SenderStates
<1>4. \A t \in Senders : sender'[t].value = sender[t].value
  BY <1>3
<1>5. Fresh'
  BY <1>1, <1>3, <1>4, FreshKept
<1>6. Locks'
  <2>1. \A t \in Senders : Holds(t) => t = s
    BY <1>1 DEF Inv, Locks, Holds
  <2>2. \A t \in Senders : ~Holds(t)'
    BY <2>1, <1>3 DEF Holds
  <2>3. active = 0
    BY <2>1, <1>1 DEF Inv, Locks, Holds
  <2>4. \A t \in Senders : sender'[t].at # "try"
    BY <2>2 DEF Holds
  <2> QED BY <2>2, <2>3, <2>4, <1>1 DEF Locks
<1>7. \A t \in Senders : Sending(t)' =>
        Sending(t) /\ sender'[t].value = sender[t].value
  BY <1>3 DEF Sending
<1> QED BY <1>1, <1>2, <1>3, <1>5, <1>6, <1>7, SenderKept

\* The channels of the inbox are added; nobody has the value yet.
LEMMA MergeInv ==
  ASSUME Inv, NEW s \in Senders, Merge(s)
  PROVE  Inv'
<1> DEFINE C == sendCases \o inbox
<1>1. /\ sender[s].at = "merge" /\ sendCases' = C /\ inbox' = <<>>
      /\ active' = Len(C) /\ nsent' = 0
      /\ sender' = [sender EXCEPT ![s].at = "try", ![s].i = 1]
      /\ UNCHANGED <<sendLock, sub, unread, log, sends, subscribes>>
  BY DEF Merge, At
<1>2. /\ sender \in [Senders -> SenderStates] /\ sends \in 0 .. MaxSends
      /\ sendCases \in Seq(Channels) /\ inbox \in Seq(Channels)
      /\ Cardinality(Channels) \in Nat
  BY InvTypes
<1>3. /\ sender' \in [Senders -> SenderStates]
      /\ sender'[s].at = "try" /\ sender'[s].value = sender[s].value
      /\ sender'[s].i = 1
      /\ \A t \in Senders : t # s => sender'[t] = sender[t]
  <2>1. 1 \in 0 .. Cardinality(Channels) + 1
    BY <1>2
  <2> QED BY <2>1, <1>1, <1>2 DEF SenderStates
<1>4. \A t \in Senders : sender'[t].value = sender[t].value
  BY <1>3
<1>5. /\ C \in Seq(Channels) /\ Len(C) = Len(sendCases) + Len(inbox)
      /\ \A i \in 1 .. Len(sendCases) + Len(inbox) :
           C[i] = IF i <= Len(sendCases) THEN sendCases[i]
                  ELSE inbox[i - Len(sendCases)]
  BY <1>2, ConcatProperties
<1>6. /\ Len(sendCases) \in Nat /\ Len(inbox) \in Nat
      /\ DOMAIN sendCases = 1 .. Len(sendCases) /\ DOMAIN inbox = 1 .. Len(inbox)
  BY <1>2, LenProperties
<1> HIDE DEF C
<1>7. DOMAIN C = 1 .. Len(sendCases) + Len(inbox)
  BY <1>5, LenProperties
<1>8. \A d : In(d, C) <=> In(d, sendCases) \/ In(d, inbox)
  <2>1. ASSUME NEW d, In(d, C) PROVE In(d, sendCases) \/ In(d, inbox)
    <3>1. PICK i \in DOMAIN C : C[i] = d
      BY <2>1 DEF In
    <3>2. CASE i <= Len(sendCases)
      <4>1. i \in DOMAIN sendCases /\ sendCases[i] = d
        BY <3>1, <3>2, <1>5, <1>6, <1>7
      <4> QED BY <4>1 DEF In
    <3>3. CASE ~(i <= Len(sendCases))
      <4>1. /\ i - Len(sendCases) \in DOMAIN inbox
            /\ inbox[i - Len(sendCases)] = d
        BY <3>1, <3>3, <1>5, <1>6, <1>7
      <4> QED BY <4>1 DEF In
    <3> QED BY <3>2, <3>3
  <2>2. ASSUME NEW d, In(d, sendCases) PROVE In(d, C)
    <3>1. PICK i \in DOMAIN sendCases : sendCases[i] = d
      BY <2>2 DEF In
    <3>2. i \in DOMAIN C /\ C[i] = d
      BY <3>1, <1>5, <1>6, <1>7
    <3> QED BY <3>2 DEF In
  <2>3. ASSUME NEW d, In(d, inbox) PROVE In(d, C)
    <3>1. PICK i \in DOMAIN inbox : inbox[i] = d
      BY <2>3 DEF In
    <3>2. /\ Len(sendCases) + i \in DOMAIN C
          /\ ~(Len(sendCases) + i <= Len(sendCases))
          /\ Len(sendCases) + i - Len(sendCases) = i
      BY <1>6, <1>7
    <3>3. C[Len(sendCases) + i] = d
      BY <3>1, <3>2, <1>5, <1>7
    <3> QED BY <3>2, <3>3 DEF In
  <2> QED BY <2>1, <2>2, <2>3
<1>9. Distinct(C)
  <2>1. /\ Distinct(sendCases) /\ Distinct(inbox)
        /\ \A d : ~(In(d, inbox) /\ In(d, sendCases))
    BY DEF Inv, Lists
  <2>2. SUFFICES ASSUME NEW i \in DOMAIN C, NEW j \in DOMAIN C, C[i] = C[j]
                 PROVE  i = j
    BY DEF Distinct
  <2>3. i \in Nat /\ j \in Nat
    BY <1>6, <1>7
  <2>4. CASE i <= Len(sendCases) /\ j <= Len(sendCases)
    <3>1. /\ i \in DOMAIN sendCases /\ j \in DOMAIN sendCases
          /\ sendCases[i] = sendCases[j]
      BY <2>2, <2>3, <2>4, <1>5, <1>6, <1>7
    <3> QED BY <3>1, <2>1 DEF Distinct
  <2>5. CASE i > Len(sendCases) /\ j > Len(sendCases)
    <3>1. /\ i - Len(sendCases) \in DOMAIN inbox /\ j - Len(sendCases) \in DOMAIN inbox
          /\ inbox[i - Len(sendCases)] = inbox[j - Len(sendCases)]
      BY <2>2, <2>3, <2>5, <1>5, <1>6, <1>7
    <3>2. i - Len(sendCases) = j - Len(sendCases)
      BY <3>1, <2>1 DEF Distinct
    <3> QED BY <3>2, <2>3, <1>6
  <2>6. CASE i <= Len(sendCases) /\ j > Len(sendCases)
    <3>1. /\ i \in DOMAIN sendCases /\ j - Len(sendCases) \in DOMAIN inbox
          /\ sendCases[i] = inbox[j - Len(sendCases)]
      BY <2>2, <2>3, <2>6, <1>5, <1>6, <1>7
    <3> QED BY <3>1, <2>1 DEF In
  <2>7. CASE i > Len(sendCases) /\ j <= Len(sendCases)
    <3>1. /\ j \in DOMAIN sendCases /\ i - Len(sendCases) \in DOMAIN inbox
          /\ sendCases[j] = inbox[i - Len(sendCases)]
      BY <2>2, <2>3, <2>7, <1>5, <1>6, <1>7
    <3> QED BY <3>1, <2>1 DEF In
  <2> QED BY <2>3, <2>4, <2>5, <2>6, <2>7, <1>6
<1>10. Lists(inbox, sendCases, sub)'
  <2>1. \A d : ~In(d, <<>>)
    BY DEF In
  <2>2. Distinct(<<>>)
    BY DEF Distinct
  <2> QED BY <2>1, <2>2, <1>1, <1>8, <1>9 DEF Inv, Lists
<1>11. Fresh'
  BY <1>1, <1>3, <1>4, FreshKept
<1>12. \A t \in Senders : Holds(t) => t = s
  BY <1>1 DEF Inv, Locks, Holds
<1>13. Locks'
  <2>1. \A t \in Senders : Holds(t)' <=> Holds(t)
    BY <1>1, <1>3 DEF Holds
  <2>2. \A t \in Senders : sender'[t].at = "try" => sender'[t].i >= 1
    BY <1>3 DEF Inv, Locks
  <2> QED BY <2>1, <2>2, <1>1, <1>3 DEF Inv, Locks
<1>14. \A t \in Senders : Sending(t)' => t = s
  BY <1>3, <1>12 DEF Sending, Holds
<1>15. \A c \in Channels : ~In(sender[s].value, log[c])
  BY <1>1 DEF Inv, Fresh
<1>16. Due'
  <2>1. SUFFICES ASSUME NEW i \in DOMAIN C
                 PROVE  i <= active' <=> ~In(sender[s].value, log[C[i]])
    BY <1>1, <1>3, <1>14 DEF Due
  <2>2. C[i] \in Channels
    BY <1>5, LenProperties, ElementOfSeq
  <2> QED BY <2>2, <1>1, <1>5, <1>6, <1>7, <1>15
<1>17. Counted'
  <2>1. Having(sender[s].value, log) = {}
    BY <1>15 DEF Having
  <2>2. Cardinality(Having(sender[s].value, log)) = 0
    BY <2>1, FS_EmptySet
  <2> QED BY <2>2, <1>1, <1>3, <1>14 DEF Counted
<1>18. Latest'
  BY <1>1, <1>3, <1>14, <1>15 DEF Latest, In
<1>19. TypeOK'
  <2>1. active' \in 0 .. Len(C) /\ nsent' \in 0 .. Cardinality(Channels)
    BY <1>1, <1>2, <1>5, <1>6
  <2>2. inbox' \in Seq(Channels) /\ sendCases' \in Seq(Channels)
    BY <1>1, <1>5
  <2> QED BY <2>1, <2>2, <1>1, <1>3 DEF Inv, TypeOK, SenderStates
<1>20. Ordered(log)'
  BY <1>1 DEF Inv
<1> QED BY <1>10, <1>11, <1>13, <1>16, <1>17, <1>18, <1>19, <1>20 DEF Inv

\* The next channel of the fast path.
LEMMA TrySendInv ==
  ASSUME Inv, NEW s \in Senders, TrySend(s)
  PROVE  Inv'
<1> DEFINE i == sender[s].i
<1>1. /\ sender[s].at = "try" /\ i <= active
      /\ UNCHANGED <<sendLock, inbox, sub, sends, subscribes>>
  BY DEF TrySend, At
<1>2. /\ sender \in [Senders -> SenderStates] /\ sends \in 0 .. MaxSends
      /\ Len(sendCases) \in Nat /\ Len(sendCases) <= Cardinality(Channels)
      /\ Cardinality(Channels) \in Nat /\ active \in 0 .. Len(sendCases)
  BY InvTypes
<1>3. i \in Nat /\ i >= 1
  BY <1>1, <1>2 DEF SenderStates, Inv, Locks
<1>4. CASE unread[sendCases[i]] < Cap
  <2>1. Deliver(s, i) /\ sender' = sender
    BY <1>4 DEF TrySend
  <2>2. i \in 1 .. active
    BY <1>1, <1>2, <1>3
  <2> QED BY <2>1, <2>2, <1>1, DeliverInv
<1>5. CASE ~(unread[sendCases[i]] < Cap)
  <2>1. /\ sender' = [sender EXCEPT ![s].i = i + 1]
        /\ UNCHANGED <<unread, log, sendCases, active, nsent>>
    BY <1>5 DEF TrySend
  <2>2. i + 1 \in 0 .. Cardinality(Channels) + 1 /\ i + 1 >= 1
    BY <1>1, <1>2, <1>3
  <2>3. /\ sender' \in [Senders -> SenderStates]
        /\ sender'[s].at = "try" /\ sender'[s].value = sender[s].value
        /\ sender'[s].i = i + 1
        /\ \A t \in Senders : t # s => sender'[t] = sender[t]
    BY <2>1, <2>2, <1>1, <1>2 DEF SenderStates
  <2>4. \A t \in Senders : sender'[t].value = sender[t].value
    BY <2>3
  <2>5. Fresh'
    BY <2>1, <2>3, <2>4, <1>1, FreshKept
  <2> HIDE DEF i
  <2>6. Locks'
    <3>1. \A t \in Senders : Holds(t)' <=> Holds(t)
      BY <2>3, <1>1 DEF Holds
    <3>2. \A t \in Senders : sender'[t].at = "try" => sender'[t].i >= 1
      BY <2>2, <2>3 DEF Inv, Locks
    <3> QED BY <3>1, <3>2, <2>1, <2>3, <1>1 DEF Inv, Locks
  <2>7. \A t \in Senders : Sending(t)' =>
          Sending(t) /\ sender'[t].value = sender[t].value
    BY <2>3, <1>1 DEF Sending
  <2>8. sendLock' \in BOOLEAN
    BY <1>1 DEF Inv, TypeOK
  <2> QED BY <2>1, <2>3, <2>5, <2>6, <2>7, <2>8, <1>1, <1>2, SenderKept
<1> QED BY <1>4, <1>5

\* A receiver unblocks.
LEMMA SelectSendInv ==
  ASSUME Inv, NEW s \in Senders, SelectSend(s)
  PROVE  Inv'
<1>1. PICK i \in 1 .. active : Deliver(s, i)
  BY DEF SelectSend
<1>2. /\ sender[s].at = "select"
      /\ sender' = [sender EXCEPT ![s].at = "try", ![s].i = 1]
      /\ UNCHANGED <<sendLock, inbox, sub, sends, subscribes>>
  BY DEF SelectSend, At
<1> QED BY <1>1, <1>2, DeliverInv

\* A channel leaves during a Send: behind it the cases move up by one, so the
\* prefix still has the channels without the value.
LEMMA SelectRemoveInv ==
  ASSUME Inv, NEW s \in Senders, NEW c \in Channels, SelectRemove(s, c)
  PROVE  Inv'
<1> DEFINE C == sendCases
           D == sendCases'
<1>1. /\ sender[s].at = "select" /\ sub[c] = "leaving"
      /\ D = Delete(C, c)
      /\ active' = IF find(C, c) \in 1 .. active THEN active - 1 ELSE active
      /\ sub' = [sub EXCEPT ![c] = "out"]
      /\ sender' = [sender EXCEPT ![s].at = "try", ![s].i = 1]
      /\ UNCHANGED <<sendLock, inbox, nsent, unread, log, sends, subscribes>>
  BY DEF SelectRemove, At
<1>2. /\ sender \in [Senders -> SenderStates]
      /\ C \in Seq(Channels) /\ Len(C) \in Nat /\ DOMAIN C = 1 .. Len(C)
      /\ active \in 0 .. Len(C) /\ Cardinality(Channels) \in Nat
  BY InvTypes
<1>3. /\ D \in Seq(Channels)
      /\ sub' \in [Channels -> {"out", "in", "leaving"}]
      /\ Lists(inbox, sendCases, sub)'
  BY <1>1, LeavingLists
<1>4. Distinct(C) /\ In(c, C)
  BY <1>1 DEF Inv, Lists
<1>5. PICK k \in DOMAIN C : C[k] = c
  BY <1>4 DEF In
<1>6. find(C, c) = k
  BY <1>2, <1>4, <1>5, FindAt
<1>7. /\ Len(D) = Len(C) - 1
      /\ \A j \in 1 .. Len(C) - 1 : D[j] = IF j < k THEN C[j] ELSE C[j + 1]
  BY <1>1, <1>2, <1>4, <1>5, DeleteAt
<1>8. DOMAIN D = 1 .. Len(C) - 1
  BY <1>3, <1>7, LenProperties
<1>9. /\ sender' \in [Senders -> SenderStates]
      /\ sender'[s].at = "try" /\ sender'[s].value = sender[s].value
      /\ sender'[s].i = 1
      /\ \A t \in Senders : t # s => sender'[t] = sender[t]
  <2>1. 1 \in 0 .. Cardinality(Channels) + 1
    BY <1>2
  <2> QED BY <2>1, <1>1, <1>2 DEF SenderStates
<1>10. \A t \in Senders : sender'[t].value = sender[t].value
  BY <1>9
<1>11. active' = IF k <= active THEN active - 1 ELSE active
  BY <1>1, <1>2, <1>5, <1>6
<1> HIDE DEF C, D
<1>12. active' \in 0 .. Len(D)
  BY <1>2, <1>5, <1>7, <1>11
<1>13. TypeOK'
  BY <1>1, <1>3, <1>9, <1>12 DEF Inv, TypeOK, SenderStates, D
<1>14. Fresh'
  BY <1>1, <1>9, <1>10, FreshKept
<1>15. \A t \in Senders : Holds(t)' <=> Holds(t)
  BY <1>1, <1>9 DEF Holds
<1>16. Locks'
  <2>1. \A t \in Senders : sender'[t].at = "try" => sender'[t].i >= 1
    BY <1>9 DEF Inv, Locks
  <2> QED BY <2>1, <1>1, <1>9, <1>15 DEF Inv, Locks
<1>17. \A t \in Senders : Sending(t)' <=> Sending(t)
  BY <1>1, <1>9 DEF Sending
<1>18. Due'
  <2>1. SUFFICES ASSUME NEW t \in Senders, Sending(t), NEW j \in DOMAIN D
                 PROVE  j <= active' <=> ~In(sender[t].value, log[D[j]])
    BY <1>1, <1>10, <1>17 DEF Due, D
  <2>2. \A m \in DOMAIN C : m <= active <=> ~In(sender[t].value, log[C[m]])
    BY <2>1 DEF Inv, Due, C
  <2>3. j \in 1 .. Len(C) - 1 /\ k \in 1 .. Len(C)
    BY <1>2, <1>8
  <2>4. CASE j < k
    <3>1. j \in DOMAIN C /\ D[j] = C[j]
      BY <2>3, <2>4, <1>2, <1>7
    <3>2. j <= active' <=> j <= active
      BY <2>3, <2>4, <1>2, <1>11
    <3> QED BY <3>1, <3>2, <2>2
  <2>5. CASE ~(j < k)
    <3>1. j + 1 \in DOMAIN C /\ D[j] = C[j + 1]
      BY <2>3, <2>5, <1>2, <1>7
    <3>2. j <= active' <=> j + 1 <= active
      BY <2>3, <2>5, <1>2, <1>11
    <3> QED BY <3>1, <3>2, <2>2
  <2> QED BY <2>4, <2>5
<1>19. Counted' /\ Latest'
  BY <1>1, <1>10, <1>17 DEF Inv, Counted, Latest
<1>20. Ordered(log)'
  BY <1>1 DEF Inv
<1> QED BY <1>3, <1>13, <1>14, <1>16, <1>18, <1>19, <1>20 DEF Inv

-----------------------------------------------------------------------------
(* The invariant                                                           *)

\* Nobody is subscribed and nobody sends.
LEMMA InitInv ==
  ASSUME Init
  PROVE  Inv
<1>1. Cardinality(Channels) \in Nat /\ MaxSends \in Nat /\ MaxSubscribes \in Nat
      /\ Cap \in Nat
  BY FeedAssumption, FS_CardinalityType
<1>2. /\ \A s \in Senders : /\ sender[s].at = "idle" /\ sender[s].value = 0
                           /\ sender[s].i = 0
      /\ \A c \in Channels : log[c] = <<>> /\ sub[c] = "out"
      /\ inbox = <<>> /\ sendCases = <<>> /\ active = 0 /\ sends = 0
      /\ sendLock = TRUE
  BY DEF Init
<1>3. Distinct(<<>>) /\ \A d : ~In(d, <<>>)
  BY DEF Distinct, In
<1>4. TypeOK
  <2>1. Len(<<>>) = 0 /\ <<>> \in Seq(Channels) /\ <<>> \in Seq(Values)
    OBVIOUS
  <2>2. /\ active \in 0 .. Len(sendCases) /\ nsent \in 0 .. Cardinality(Channels)
        /\ sends \in 0 .. MaxSends /\ subscribes \in 0 .. MaxSubscribes
    BY <2>1, <1>1 DEF Init
  <2>3. sender \in [Senders ->
         [at : {"idle", "lock", "merge", "try", "select", "unlock"},
          value : Values \cup {0}, i : 0 .. Cardinality(Channels) + 1]]
    <3>1. 0 \in 0 .. Cardinality(Channels) + 1
      BY <1>1
    <3> QED BY <3>1 DEF Init
  <2>4. unread \in [Channels -> 0 .. Cap]
    BY <1>1 DEF Init
  <2> QED BY <2>1, <2>2, <2>3, <2>4 DEF TypeOK, Init
<1>5. Lists(inbox, sendCases, sub)
  BY <1>2, <1>3 DEF Lists
<1>6. Locks /\ Fresh
  <2>1. DOMAIN <<>> = {}
    OBVIOUS
  <2> QED BY <2>1, <1>2 DEF Locks, Fresh, Holds
<1>7. Due /\ Counted /\ Latest
  BY <1>2 DEF Due, Counted, Latest, Sending
<1>8. Ordered(log)
  <2>1. DOMAIN <<>> = {}
    OBVIOUS
  <2> QED BY <2>1, <1>2, <1>3 DEF Ordered
<1> QED BY <1>4, <1>5, <1>6, <1>7, <1>8 DEF Inv

\* Every step keeps the invariant.
LEMMA StepInv ==
  ASSUME Inv, [Next]_vars
  PROVE  Inv'
<1>1. CASE UNCHANGED vars
  <2>1. TypeOK' /\ Lists(inbox, sendCases, sub)'
    BY <1>1 DEF Inv, TypeOK, vars
  <2>2. Due'
    BY <1>1 DEF Inv, Due, Sending, vars
  <2> QED BY <1>1, <2>1, <2>2, ListsKept DEF vars
<1>2. ASSUME NEW s \in Senders, Call(s) \/ SendStep(s)
      PROVE  Inv'
  BY <1>2, CallInv, LockInv, MergeInv, TrySendInv, TriedInv, SelectSendInv,
     UnlockInv, SelectRemoveInv DEF SendStep
<1>3. ASSUME NEW c \in Channels,
             Subscribe(c) \/ RemoveInbox(c) \/ RemoveLocked(c) \/ Read(c)
      PROVE  Inv'
  BY <1>3, SubscribeInv, RemoveInboxInv, RemoveLockedInv, ReadInv
<1> QED BY <1>1, <1>2, <1>3 DEF Next

\* Inv is invariant.
LEMMA AlwaysInv == Spec => []Inv
<1>1. Init => Inv
  BY InitInv
<1>2. Inv /\ [Next]_vars => Inv'
  BY StepInv
<1> QED BY <1>1, <1>2, PTL DEF Spec

-----------------------------------------------------------------------------
(* The properties                                                          *)

\* Lists says what ListedOnce counts.
LEMMA ListsListedOnce ==
  ASSUME Inv
  PROVE  ListedOnce
<1> DEFINE all == inbox \o sendCases
           here(c) == {i \in DOMAIN all : all[i] = c}
<1>1. /\ inbox \in Seq(Channels) /\ sendCases \in Seq(Channels)
      /\ Distinct(inbox) /\ Distinct(sendCases)
      /\ \A c : ~(In(c, inbox) /\ In(c, sendCases))
      /\ \A c \in Channels : sub[c] = "out" <=> ~In(c, inbox) /\ ~In(c, sendCases)
      /\ \A c \in Channels : sub[c] = "leaving" => In(c, sendCases)
  BY DEF Inv, TypeOK, Lists
<1>2. /\ Len(inbox) \in Nat /\ Len(sendCases) \in Nat
      /\ DOMAIN inbox = 1 .. Len(inbox) /\ DOMAIN sendCases = 1 .. Len(sendCases)
  BY <1>1, LenProperties
<1>3. /\ all \in Seq(Channels) /\ Len(all) = Len(inbox) + Len(sendCases)
      /\ \A i \in 1 .. Len(inbox) + Len(sendCases) :
           all[i] = IF i <= Len(inbox) THEN inbox[i] ELSE sendCases[i - Len(inbox)]
  BY <1>1, ConcatProperties
<1> HIDE DEF all
<1>4. DOMAIN all = 1 .. Len(inbox) + Len(sendCases)
  BY <1>3, LenProperties
<1>5. ASSUME NEW i \in DOMAIN all
      PROVE  \/ i \in DOMAIN inbox /\ all[i] = inbox[i]
             \/ /\ i - Len(inbox) \in DOMAIN sendCases
                /\ all[i] = sendCases[i - Len(inbox)]
  BY <1>2, <1>3, <1>4
<1>6. ASSUME NEW i \in DOMAIN inbox
      PROVE  i \in DOMAIN all /\ all[i] = inbox[i]
  BY <1>2, <1>3, <1>4
<1>7. ASSUME NEW i \in DOMAIN sendCases
      PROVE  Len(inbox) + i \in DOMAIN all /\ all[Len(inbox) + i] = sendCases[i]
  <2>1. /\ Len(inbox) + i \in 1 .. Len(inbox) + Len(sendCases)
        /\ ~(Len(inbox) + i <= Len(inbox)) /\ Len(inbox) + i - Len(inbox) = i
    BY <1>2
  <2> QED BY <2>1, <1>3, <1>4
<1>8. ASSUME NEW c \in Channels
      PROVE  Cardinality(here(c)) = IF sub[c] = "out" THEN 0 ELSE 1
  <2>1. CASE In(c, inbox)
    <3>1. PICK k \in DOMAIN inbox : inbox[k] = c
      BY <2>1 DEF In
    <3>2. ~In(c, sendCases) /\ sub[c] # "out"
      BY <2>1, <1>1
    <3>3. here(c) = {k}
      BY <3>1, <3>2, <1>1, <1>5, <1>6 DEF Distinct, In
    <3> QED BY <3>2, <3>3, FS_Singleton
  <2>2. CASE In(c, sendCases)
    <3>1. PICK k \in DOMAIN sendCases : sendCases[k] = c
      BY <2>2 DEF In
    <3>2. ~In(c, inbox) /\ sub[c] # "out"
      BY <2>2, <1>1
    <3>3. \A i \in here(c) : i = Len(inbox) + k
      <4>1. SUFFICES ASSUME NEW i \in DOMAIN all, all[i] = c
                     PROVE  i = Len(inbox) + k
        OBVIOUS
      <4>2. i - Len(inbox) \in DOMAIN sendCases /\ sendCases[i - Len(inbox)] = c
        BY <4>1, <3>2, <1>5 DEF In
      <4>3. i - Len(inbox) = k
        BY <4>2, <3>1, <1>1 DEF Distinct
      <4> QED BY <4>3, <1>2, <1>4
    <3>4. Len(inbox) + k \in here(c)
      BY <3>1, <1>7
    <3>5. here(c) = {Len(inbox) + k}
      BY <3>3, <3>4
    <3> QED BY <3>2, <3>5, FS_Singleton
  <2>3. CASE ~In(c, inbox) /\ ~In(c, sendCases)
    <3>1. here(c) = {}
      BY <2>3, <1>5 DEF In
    <3> QED BY <3>1, <2>3, <1>1, FS_EmptySet
  <2> QED BY <2>1, <2>2, <2>3
<1>9. \A c \in Channels : sub[c] = "leaving" => Contains(sendCases, c)
  BY <1>1, ContainsIn
<1> QED BY <1>8, <1>9 DEF ListedOnce, all

\* Due is PrefixIsDue, and Counted is CountRight.
LEMMA DueCounted ==
  ASSUME Inv
  PROVE  PrefixIsDue /\ CountRight
<1>1. \A c \in Channels : \A v : Contains(log[c], v) <=> In(v, log[c])
  <2>1. ASSUME NEW c \in Channels, NEW v
        PROVE  Contains(log[c], v) <=> In(v, log[c])
    <3>1. log[c] \in Seq(Values)
      BY InvTypes
    <3> QED BY <3>1, ContainsIn
  <2> QED BY <2>1
<1>2. \A i \in DOMAIN sendCases : sendCases[i] \in Channels
  BY InvTypes, ElementOfSeq
<1>3. PrefixIsDue
  BY <1>1, <1>2 DEF PrefixIsDue, Inv, Due
<1>4. \A v : Having(v, log) = {c \in Channels : Contains(log[c], v)}
  BY <1>1 DEF Having
<1>5. CountRight
  BY <1>4 DEF CountRight, Inv, Counted
<1> QED BY <1>3, <1>5

\* However channels subscribe and unsubscribe while senders compete for the
\* feed (Subscribe, remove, Send): every subscription is listed once, remove
\* finds what it looks for, the active cases of a Send are exactly the channels
\* that have not got its value, and its result is the number of those that
\* have.
THEOREM FeedCasesInv == Spec => []CasesInv
<1>1. Inv => CasesInv
  BY ListsListedOnce, DueCounted DEF CasesInv, Inv
<1> QED BY <1>1, AlwaysInv, PTL

\* No channel gets a value twice, and any two channels get the values that both
\* get in the same order, whatever fast path or select (Send) delivered them.
THEOREM FeedSameOrder == Spec => []SameOrder
<1> DEFINE position(c, v) == CHOOSE i \in DOMAIN log[c] : log[c][i] = v
           has(c) == Range(log[c])
<1>1. Inv => SameOrder
  <2>1. SUFFICES ASSUME Inv PROVE SameOrder
    OBVIOUS
  <2>2. /\ \A c \in Channels : log[c] \in Seq(Values)
        /\ Ordered(log) /\ \A c \in Channels : Distinct(log[c])
    BY <2>1, InvTypes DEF Inv, Ordered
  <2>3. ASSUME NEW c \in Channels
        PROVE  Cardinality(has(c)) = Len(log[c])
    <3>1. /\ Len(log[c]) \in Nat /\ DOMAIN log[c] = 1 .. Len(log[c])
          /\ Distinct(log[c])
      BY <2>2, LenProperties
    <3>2. log[c] \in Surjection(1 .. Len(log[c]), has(c))
      BY <3>1, <2>2 DEF Range, Surjection
    <3>3. log[c] \in Injection(1 .. Len(log[c]), has(c))
      BY <3>1, <3>2 DEF Distinct, Injection, IsInjective, Surjection
    <3>4. Cardinality(1 .. Len(log[c])) = Len(log[c])
      <4>1. Cardinality(1 .. Len(log[c]))
              = IF 1 > Len(log[c]) THEN 0 ELSE Len(log[c]) - 1 + 1
        BY <3>1, FS_Interval
      <4> QED BY <4>1, <3>1
    <3>5. IsFiniteSet(1 .. Len(log[c]))
      BY <3>1, FS_Interval
    <3>6. Cardinality(1 .. Len(log[c])) = Cardinality(has(c))
      BY <3>2, <3>3, <3>5, FS_Surjection
    <3> QED BY <3>4, <3>6
  <2>4. ASSUME NEW c \in Channels, NEW v \in has(c)
        PROVE  position(c, v) \in DOMAIN log[c] /\ log[c][position(c, v)] = v
    <3>1. \E i \in DOMAIN log[c] : log[c][i] = v
      BY DEF Range
    <3> QED BY <3>1
  <2>5. ASSUME NEW c \in Channels, NEW d \in Channels,
               NEW v \in has(c) \cap has(d), NEW w \in has(c) \cap has(d),
               position(c, v) < position(c, w)
        PROVE  position(d, v) < position(d, w)
    <3>1. /\ position(c, v) \in DOMAIN log[c] /\ log[c][position(c, v)] = v
          /\ position(c, w) \in DOMAIN log[c] /\ log[c][position(c, w)] = w
          /\ position(d, v) \in DOMAIN log[d] /\ log[d][position(d, v)] = v
          /\ position(d, w) \in DOMAIN log[d] /\ log[d][position(d, w)] = w
      BY <2>4
    <3> HIDE DEF position
    <3> QED BY <3>1, <2>2, <2>5 DEF Ordered
  <2> QED BY <2>3, <2>5 DEF SameOrder
<1> QED BY <1>1, AlwaysInv, PTL

\* Once Unsubscribe has returned nothing is sent to the channel, not even by a
\* Send that was under way: remove takes the channel out of the list that Send
\* uses before it returns.
THEOREM FeedSilentAfterwards == Spec => SilentAfterwards
<1> DEFINE Silent == \A c \in Channels : sub[c] = "out" => log'[c] = log[c]
<1>1. Inv /\ [Next]_vars => [Silent]_vars
  <2>1. SUFFICES ASSUME Inv, Next PROVE Silent
    OBVIOUS
  <2>2. ASSUME NEW s \in Senders, NEW i \in 1 .. active, Deliver(s, i)
        PROVE  Silent
    <3>1. /\ sendCases \in Seq(Channels) /\ log \in [Channels -> Seq(Values)]
          /\ i \in DOMAIN sendCases
      BY <2>1, InvTypes
    <3>2. sendCases[i] \in Channels /\ In(sendCases[i], sendCases)
      BY <3>1, ElementOfSeq, LenProperties DEF In
    <3>3. sub[sendCases[i]] # "out"
      BY <2>1, <3>2 DEF Inv, Lists
    <3> QED BY <2>2, <3>1, <3>3 DEF Deliver
  <2>3. CASE log' = log
    BY <2>3
  <2>4. ASSUME NEW s \in Senders, TrySend(s)
        PROVE  Silent
    <3>1. CASE log' = log
      BY <3>1
    <3>2. CASE Deliver(s, sender[s].i)
      <4>1. /\ sender \in [Senders -> SenderStates] /\ sender[s].at = "try"
            /\ active \in Nat /\ sender[s].i <= active
        BY <2>1, <2>4, InvTypes DEF TrySend, At
      <4>2. sender[s].i \in Nat
        BY <4>1 DEF SenderStates
      <4>3. sender[s].i >= 1
        BY <4>1, <2>1 DEF Inv, Locks
      <4>4. sender[s].i \in 1 .. active
        BY <4>1, <4>2, <4>3
      <4> QED BY <4>4, <3>2, <2>2
    <3> QED BY <2>4, <3>1, <3>2 DEF TrySend
  <2>5. ASSUME NEW s \in Senders, SelectSend(s)
        PROVE  Silent
    BY <2>2, <2>5 DEF SelectSend
  <2>6. \/ log' = log
        \/ \E s \in Senders : TrySend(s) \/ SelectSend(s)
    BY <2>1 DEF Next, SendStep, Call, Lock, Merge, Tried, Unlock, SelectRemove,
                Subscribe, RemoveInbox, RemoveLocked, Read
  <2> QED BY <2>3, <2>4, <2>5, <2>6
<1> QED BY <1>1, AlwaysInv, PTL DEF Spec, SilentAfterwards
=============================================================================
