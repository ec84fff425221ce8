-------------------------- MODULE MailBridgeProofs --------------------------
(* Proofs about MailBridge, and about MailSync within it, for every number *)
(* of mails, limit, mailbox, account and content.                          *)
EXTENDS MailBridge, FiniteSetTheorems, SequenceTheorems, TLAPS

-----------------------------------------------------------------------------
(* The inductive invariant.                                                *)

\* A fetch goes on where the store ends: what it has passed over since the newest
\* mail that is stored need not be stored, and what it parses is newer.  Nothing is
\* stored, or about to be fetched, that has not arrived.
FetchGoesOn ==
    /\ store.lastUid <= arrived
    /\ file.lastUid <= arrived
    /\ upto <= arrived
    /\ fetch # "none" =>
           /\ 1 <= next
           /\ next <= upto + 1
           /\ store.lastUid <= next
           /\ fetch = "parse" => next <= upto /\ ~HasUid(store, next)
           /\ store.emails # <<>> =>
                  \A u \in store.lastUid + 1 .. next - 1 : Passable(u)

\* A record is found under its user's name or its plain Message-ID.
KeysAreKnown == \A r \in records : r.key[1] \in {Owner, r.user}

\* The two parts of ClaimedAreRecorded: where claimed mails are, and how many of
\* them are given up.
Accounted == \A m \in Polled : <<m[1], UidIn[m]>> \in claimed => m = inHand \/ Settled(m)

FewAreDropped == IsFiniteSet(dropped) /\ Cardinality(dropped) <= faults

SyncIInv == SyncInvariant /\ NoGap /\ FetchGoesOn

IInv ==
    /\ SyncIInv
    /\ BridgeInvariant
    /\ KeysAreKnown
    /\ SafeIsDetermined
    /\ Accounted
    /\ FewAreDropped

-----------------------------------------------------------------------------
(* The store.                                                              *)

LEMMA StoreFields ==
    ASSUME NEW s \in Store
    PROVE  /\ s.emails \in Seq(Mail) /\ s.total \in Nat /\ s.lastUid \in 0 .. MaxUid
           /\ Len(s.emails) \in Nat /\ DOMAIN s.emails = 1 .. Len(s.emails)
           /\ \A i \in 1 .. Len(s.emails) : s.emails[i] \in Mail
           /\ Held(s) = {s.emails[i] : i \in 1 .. Len(s.emails)} /\ Held(s) \subseteq Mail
           /\ (s.emails = <<>>) <=> (Len(s.emails) = 0)
<1>1. s.emails \in Seq(Mail) /\ s.total \in Nat /\ s.lastUid \in 0 .. MaxUid
  BY DEF Store
<1>2. /\ Len(s.emails) \in Nat /\ DOMAIN s.emails = 1 .. Len(s.emails)
      /\ \A i \in 1 .. Len(s.emails) : s.emails[i] \in Mail
  BY <1>1, LenProperties, ElementOfSeq
<1>3. (s.emails = <<>>) <=> (Len(s.emails) = 0)
  BY <1>1, EmptySeq
<1>4. QED
  BY <1>1, <1>2, <1>3 DEF Held

\* A sound store that is not empty ends with its newest mail, lastUid.
LEMMA NewestIsLast ==
    ASSUME NEW s \in Store, Sound(s), s.emails # <<>>
    PROVE  /\ s.lastUid \in Held(s) /\ s.lastUid \in Mail
           /\ \A v \in Held(s) : v <= s.lastUid
<1> DEFINE n == Len(s.emails)
<1>1. n \in Nat /\ n # 0 /\ \A i \in 1 .. n : s.emails[i] \in Mail
  BY StoreFields
<1>2. s.lastUid = s.emails[n]
  BY DEF Sound
<1>3. \A i \in 1 .. n : i < n => s.emails[i] < s.emails[n]
  BY <1>1, StoreFields DEF Sound
<1>4. Held(s) = {s.emails[i] : i \in 1 .. n}
  BY StoreFields
<1> HIDE DEF n
<1>5. \A i \in 1 .. n : s.emails[i] <= s.emails[n]
  BY <1>1, <1>3 DEF Mail
<1>6. QED
  BY <1>1, <1>2, <1>4, <1>5

LEMMA EmptyIsSound == Empty \in Store /\ Sound(Empty) /\ Held(Empty) = {}
<1>1. Empty.emails = <<>> /\ Empty.total = 0 /\ Empty.lastUid = 0
  BY DEF Empty
<1>2. <<>> \in Seq(Mail) /\ Len(<<>>) = 0
  BY EmptySeq
<1>3. Empty \in Store
  BY <1>2, SyncAssumption DEF Empty, Store, SyncAssumption
<1>4. Len(Empty.emails) = 0 /\ DOMAIN Empty.emails = {} /\ Held(Empty) = {}
  BY <1>1, <1>2, <1>3, StoreFields
<1>5. QED
  BY <1>1, <1>3, <1>4, SyncAssumption DEF Sound, Least, SyncAssumption

\* What an addition makes of a sound store: k, one or none, of its mails go.
LEMMA AddedShape ==
    ASSUME NEW s \in Store, Sound(s), NEW u \in Mail
    PROVE  \E k \in {0, 1} :
             LET e == s.emails
                 q == Added(s, u).emails
             IN  /\ q \in Seq(Mail)
                 /\ k <= Len(e)
                 /\ Len(q) = Len(e) + 1 - k
                 /\ \A i \in 1 .. Len(q) - 1 : q[i] = e[i + k]
                 /\ q[Len(q)] = u
                 /\ Len(q) = Least(s.total + 1, MaxStored)
<1> DEFINE e == s.emails
           a == Append(e, u)
           n == Len(e)
<1>1. e \in Seq(Mail) /\ n \in Nat /\ s.total \in Nat /\ n = Least(s.total, MaxStored)
  BY StoreFields DEF Sound
<1>2. MaxStored \in Nat \ {0}
  BY SyncAssumption DEF SyncAssumption
<1>3. /\ a \in Seq(Mail) /\ Len(a) = n + 1 /\ a[n + 1] = u
      /\ \A i \in 1 .. n : a[i] = e[i]
  BY <1>1, AppendProperties
<1>4. Added(s, u).emails = Evicted(a)
  BY DEF Added
<1>5. CASE n + 1 > MaxStored
  <2>1. n = MaxStored /\ n + 1 - MaxStored + 1 = 2 /\ Least(s.total + 1, MaxStored) = n
    BY <1>1, <1>2, <1>5 DEF Least
  <2>2. Evicted(a) = SubSeq(a, 2, n + 1)
    <3>1. Len(a) - MaxStored + 1 = 2 /\ Len(a) = n + 1 /\ Len(a) > MaxStored
      BY <1>1, <1>2, <1>3, <1>5, <2>1
    <3> HIDE DEF a, n
    <3>2. QED
      BY <3>1 DEF Evicted
  <2>3. \A i \in 2 .. n + 1 : a[i] \in Mail
    BY <1>1, <1>3, ElementOfSeq
  <2>4. /\ SubSeq(a, 2, n + 1) \in Seq(Mail)
        /\ Len(SubSeq(a, 2, n + 1)) = n
        /\ \A i \in 1 .. n : SubSeq(a, 2, n + 1)[i] = a[i + 1]
    <3> DEFINE m == 2
               l == n + 1
    <3>1. m \in Int /\ l \in Int /\ \A i \in m .. l : a[i] \in Mail
      BY <1>1, <2>3
    <3> HIDE DEF m, l, a
    <3>2. /\ SubSeq(a, m, l) \in Seq(Mail)
          /\ Len(SubSeq(a, m, l)) = IF m <= l THEN l - m + 1 ELSE 0
          /\ \A i \in 1 .. l - m + 1 : SubSeq(a, m, l)[i] = a[m + i - 1]
      BY <3>1, SubSeqProperties
    <3>3. l - m + 1 = n /\ m <= l /\ \A i \in 1 .. n : m + i - 1 = i + 1
      BY <1>1, <1>2, <2>1 DEF m, l
    <3>4. QED
      BY <3>2, <3>3 DEF m, l
  <2>5. QED
    <3> DEFINE q == SubSeq(a, 2, n + 1)
    <3>1. q \in Seq(Mail) /\ Len(q) = n /\ \A i \in 1 .. n : q[i] = a[i + 1]
      BY <2>4
    <3> HIDE DEF q, a
    <3>2. \A i \in 1 .. n - 1 : q[i] = e[i + 1]
      <4>1. \A i \in 1 .. n - 1 : i \in 1 .. n /\ i + 1 \in 1 .. n
        BY <1>1
      <4> HIDE DEF n, e
      <4>2. QED
        BY <1>3, <3>1, <4>1
    <3>3. q[n] = u
      BY <1>1, <1>2, <1>3, <2>1, <3>1
    <3>4. /\ q \in Seq(Mail) /\ 1 <= n /\ Len(q) = n + 1 - 1
          /\ \A i \in 1 .. Len(q) - 1 : q[i] = e[i + 1]
          /\ q[Len(q)] = u
          /\ Len(q) = Least(s.total + 1, MaxStored)
      BY <1>1, <1>2, <2>1, <3>1, <3>2, <3>3
    <3>5. QED
      BY <1>4, <2>2, <3>4 DEF q
<1>6. CASE ~(n + 1 > MaxStored)
  <2>1. Evicted(a) = a
    BY <1>3, <1>6 DEF Evicted
  <2>2. n + 1 = Least(s.total + 1, MaxStored)
    BY <1>1, <1>2, <1>6 DEF Least
  <2> HIDE DEF a
  <2>3. /\ a \in Seq(Mail) /\ 0 <= n /\ Len(a) = n + 1 - 0
        /\ \A i \in 1 .. Len(a) - 1 : a[i] = e[i + 0]
        /\ a[Len(a)] = u
        /\ Len(a) = Least(s.total + 1, MaxStored)
    BY <1>1, <1>3, <2>2
  <2>4. QED
    BY <1>4, <2>1, <2>3
<1>7. QED
  BY <1>5, <1>6

\* Every mail is newer than those of an empty store, and than those before lastUid.
LEMMA NewerThanHeld ==
    ASSUME NEW s \in Store, Sound(s), NEW u \in Mail, s.lastUid < u
    PROVE  \A i \in 1 .. Len(s.emails) : s.emails[i] < u
<1>1. CASE s.emails = <<>>
  BY <1>1, StoreFields
<1>2. CASE s.emails # <<>>
  <2>1. \A v \in Held(s) : v \in Mail /\ v <= s.lastUid
    BY <1>2, NewestIsLast, StoreFields
  <2>2. \A i \in 1 .. Len(s.emails) : s.emails[i] \in Held(s)
    BY StoreFields
  <2>3. s.lastUid \in Int /\ u \in Int /\ \A v \in Held(s) : v \in Int
    BY <2>1, StoreFields DEF Mail
  <2>4. QED
    BY <2>1, <2>2, <2>3
<1>3. QED
  BY <1>1, <1>2

\* Adding a newer mail with a Message-ID of its own keeps the store sound.
LEMMA AddedIsSound ==
    ASSUME NEW s \in Store, Sound(s), NEW u \in Mail, s.lastUid < u, ~Has(s, u)
    PROVE  LET t == Added(s, u)
           IN  t \in Store /\ Sound(t) /\ t.lastUid = u /\ t.emails # <<>>
<1> DEFINE e == s.emails
           t == Added(s, u)
           q == t.emails
<1>0. e \in Seq(Mail) /\ Len(e) \in Nat /\ s.total \in Nat /\ s.lastUid \in 0 .. MaxUid
      /\ Held(s) = {e[i] : i \in 1 .. Len(e)} /\ DOMAIN e = 1 .. Len(e)
      /\ \A i \in 1 .. Len(e) : e[i] \in Mail
  BY StoreFields
<1>1. PICK k \in {0, 1} :
          /\ q \in Seq(Mail)
          /\ k <= Len(e)
          /\ Len(q) = Len(e) + 1 - k
          /\ \A i \in 1 .. Len(q) - 1 : q[i] = e[i + k]
          /\ q[Len(q)] = u
          /\ Len(q) = Least(s.total + 1, MaxStored)
  BY AddedShape
<1>2. MaxStored \in Nat \ {0} /\ u \in 0 .. MaxUid /\ u \in Nat
  BY SyncAssumption DEF SyncAssumption, Mail
<1>3. t.total = s.total + 1 /\ t.lastUid = u
  BY <1>0, <1>2 DEF Added
<1>4. t \in Store
  <2>1. t = [emails |-> q, total |-> s.total + 1, lastUid |-> u]
    BY <1>0, <1>2 DEF Added
  <2>2. QED
    <3> HIDE DEF t, q
    <3>1. QED
      BY <1>0, <1>1, <1>2, <2>1 DEF Store
<1>5. Len(q) \in Nat \ {0} /\ q # <<>>
  <2>1. Len(q) \in Nat \ {0}
    BY <1>0, <1>1, <1>2 DEF Least
  <2>2. QED
    BY <2>1, EmptySeq
<1>6. DOMAIN q = 1 .. Len(q) /\ Held(t) = {q[i] : i \in 1 .. Len(q)}
  BY <1>4, StoreFields
<1>7. \A i \in 1 .. Len(e) : e[i] < u /\ MsgId[e[i]] # MsgId[u]
  <2>1. \A i \in 1 .. Len(e) : e[i] \in Held(s) /\ e[i] < u
    BY <1>0, NewerThanHeld
  <2>2. QED
    BY <2>1 DEF Has
<1>8. \A i, j \in 1 .. Len(e) : i < j => e[i] < e[j]
  BY <1>0 DEF Sound
<1>9. \A i, j \in 1 .. Len(e) : MsgId[e[i]] = MsgId[e[j]] => e[i] = e[j]
  BY <1>0 DEF Sound
<1> HIDE DEF q, e, t
<1>10. \A i \in 1 .. Len(q) : IF i = Len(q) THEN q[i] = u
                              ELSE i + k \in 1 .. Len(e) /\ q[i] = e[i + k]
  <2>1. \A i \in 1 .. Len(q) : i # Len(q) => i \in 1 .. Len(q) - 1 /\ i + k \in 1 .. Len(e)
    BY <1>0, <1>1, <1>5
  <2>2. QED
    BY <1>1, <2>1
<1>11. \A i, j \in 1 .. Len(q) : i < j => q[i] < q[j]
  <2> TAKE i, j \in 1 .. Len(q)
  <2> HAVE i < j
  <2>1. i # Len(q) /\ i + k \in 1 .. Len(e) /\ q[i] = e[i + k]
    BY <1>5, <1>10
  <2>2. CASE j = Len(q)
    BY <1>7, <1>10, <2>1, <2>2
  <2>3. CASE j # Len(q)
    <3>1. j + k \in 1 .. Len(e) /\ q[j] = e[j + k] /\ i + k < j + k
      BY <1>10, <2>3
    <3>2. QED
      BY <1>8, <2>1, <3>1
  <2>4. QED
    BY <2>2, <2>3
<1>12. \A v, w \in Held(t) : MsgId[v] = MsgId[w] => v = w
  <2>1. \A v \in Held(t) : v = u \/ \E i \in 1 .. Len(e) : v = e[i]
    BY <1>6, <1>10
  <2>2. QED
    BY <1>7, <1>9, <2>1
<1>13. t.lastUid = IF q = <<>> THEN 0 ELSE q[Len(q)]
  BY <1>1, <1>3, <1>5
<1>14. Sound(t)
  BY <1>1, <1>3, <1>6, <1>11, <1>12, <1>13 DEF Sound, q
<1>15. QED
  BY <1>3, <1>4, <1>5, <1>14 DEF t, q

\* No mail is missing between the oldest and the newest of a store.
NoGapIn(s) ==
    s.emails # <<>> => \A v \in s.emails[1] .. s.lastUid : v \in Held(s) \/ Passable(v)

\* Adding a mail leaves no gap when what lies between need not be stored.
LEMMA AddedLeavesNoGap ==
    ASSUME NEW s \in Store, Sound(s), NEW u \in Mail, s.lastUid < u, ~Has(s, u),
           NoGapIn(s),
           s.emails # <<>> => \A v \in s.lastUid + 1 .. u - 1 : Passable(v)
    PROVE  NoGapIn(Added(s, u))
<1> DEFINE e == s.emails
           t == Added(s, u)
           q == t.emails
<1>0. /\ Len(e) \in Nat /\ (e = <<>>) <=> (Len(e) = 0)
      /\ Held(s) = {e[i] : i \in 1 .. Len(e)}
      /\ \A i \in 1 .. Len(e) : e[i] \in Mail
      /\ DOMAIN e = 1 .. Len(e)
  BY StoreFields
<1>1. PICK k \in {0, 1} :
          /\ k <= Len(e)
          /\ Len(q) = Len(e) + 1 - k
          /\ \A i \in 1 .. Len(q) - 1 : q[i] = e[i + k]
          /\ q[Len(q)] = u
  BY AddedShape
<1>2. t.lastUid = u /\ t \in Store /\ q # <<>>
  BY AddedIsSound
<1>3. /\ Held(t) = {q[i] : i \in 1 .. Len(q)} /\ Len(q) \in Nat \ {0}
      /\ \A i \in 1 .. Len(q) : q[i] \in Mail
  BY <1>2, StoreFields
<1>4. \A i, j \in 1 .. Len(e) : i < j => e[i] < e[j]
  BY <1>0 DEF Sound
<1> SUFFICES ASSUME NEW v \in q[1] .. u PROVE v \in Held(t) \/ Passable(v)
  BY <1>2 DEF NoGapIn
<1>5. u \in Held(t) /\ v \in Int
  BY <1>1, <1>3
<1>6. CASE e = <<>> \/ Len(q) = 1
  <2>1. q[1] = u
    BY <1>0, <1>1, <1>3, <1>6
  <2>2. v = u
    BY <2>1 DEF Mail
  <2>3. QED
    BY <1>5, <2>2
<1>7. CASE e # <<>> /\ Len(q) # 1
  <2>1. q[1] = e[1 + k] /\ 1 + k \in 1 .. Len(e)
    BY <1>0, <1>1, <1>3, <1>7
  <2>2. \A i \in 1 .. Len(e) : i >= 1 + k => e[i] \in Held(t)
    <3> TAKE i \in 1 .. Len(e)
    <3> HAVE i >= 1 + k
    <3>1. i - k \in 1 .. Len(q) - 1 /\ (i - k) + k = i
      BY <1>0, <1>1
    <3>2. i - k \in 1 .. Len(q)
      BY <1>3, <3>1
    <3>3. q[i - k] = e[i]
      BY <1>1, <3>1
    <3>4. QED
      BY <1>3, <3>2, <3>3
  <2>3. s.lastUid \in Mail /\ 1 \in 1 .. Len(e) /\ e[1] <= e[1 + k]
    <3>1. s.lastUid \in Mail /\ 1 \in 1 .. Len(e)
      BY <1>0, <1>7, NewestIsLast
    <3>2. CASE k = 0
      BY <1>0, <3>1, <3>2 DEF Mail
    <3>3. CASE k = 1
      BY <1>0, <1>4, <2>1, <3>1, <3>3 DEF Mail
    <3>4. QED
      BY <3>1, <3>2, <3>3
  <2>4. CASE v = u
    BY <1>5, <2>4
  <2>5. CASE v # u /\ v > s.lastUid
    <3>1. v \in s.lastUid + 1 .. u - 1
      BY <1>5, <2>3, <2>5 DEF Mail
    <3>2. QED
      BY <1>7, <3>1
  <2>6. CASE v <= s.lastUid
    <3>1. v \in e[1] .. s.lastUid /\ e[1 + k] <= v
      BY <1>0, <1>5, <2>1, <2>3, <2>6 DEF Mail
    <3>2. v \in Held(s) \/ Passable(v)
      BY <1>7, <3>1 DEF NoGapIn
    <3>3. CASE v \in Held(s)
      <4>1. PICK i \in 1 .. Len(e) : v = e[i]
        BY <1>0, <3>3
      <4>2. i >= 1 + k
        <5>1. CASE i < 1 + k
          <6>1. e[i] < e[1 + k]
            BY <1>4, <2>1, <5>1
          <6>2. QED
            BY <1>0, <2>1, <3>1, <4>1, <6>1 DEF Mail
        <5>2. QED
          BY <2>1, <5>1
      <4>3. QED
        BY <2>2, <4>1, <4>2
    <3>4. QED
      BY <3>2, <3>3
  <2>7. QED
    BY <1>5, <2>3, <2>4, <2>5, <2>6 DEF Mail
<1>8. QED
  BY <1>6, <1>7

-----------------------------------------------------------------------------
(* The synchronisation.                                                    *)

GoodStore(s, n) == s \in Store /\ Sound(s) /\ NoGapIn(s) /\ s.lastUid <= n

Position ==
    /\ upto <= arrived
    /\ queued => fetch # "none"
    /\ fetch # "none" =>
           /\ 1 <= next
           /\ next <= upto + 1
           /\ store.lastUid <= next
           /\ fetch = "parse" => next <= upto /\ ~HasUid(store, next)
           /\ store.emails # <<>> =>
                  \A u \in store.lastUid + 1 .. next - 1 : Passable(u)

\* The invariant, sorted by what the steps change.
LEMMA SyncParts ==
    SyncIInv <=> TypeOK /\ GoodStore(store, arrived) /\ GoodStore(file, arrived) /\ Position
  BY DEF SyncIInv, SyncInvariant, NoGap, NoGapIn, FetchGoesOn, GoodStore, Position, TypeOK

LEMMA SyncPartsNext ==
    ASSUME TypeOK', GoodStore(store', arrived'), GoodStore(file', arrived'), Position'
    PROVE  SyncIInv'
  BY DEF SyncIInv, SyncInvariant, NoGap, NoGapIn, FetchGoesOn, GoodStore, Position, TypeOK

LEMMA EmptyIsGood == ASSUME NEW n \in Nat PROVE GoodStore(Empty, n)
  BY EmptyIsSound DEF GoodStore, NoGapIn, Empty

LEMMA InitSync == Init => SyncIInv
<1> SUFFICES ASSUME Init PROVE SyncIInv
  OBVIOUS
<1>1. TypeOK
  <2>1. store \in Store /\ file \in Store
    BY EmptyIsSound DEF Init
  <2>2. 0 \in 0 .. MaxUid /\ 0 \in 0 .. MaxUid + 1 /\ 0 \in 0 .. MaxFaults
    BY SyncAssumption DEF SyncAssumption
  <2>3. QED
    BY <2>1, <2>2 DEF Init, TypeOK
<1>2. GoodStore(store, arrived) /\ GoodStore(file, arrived)
  BY EmptyIsGood DEF Init
<1>3. Position
  BY DEF Init, Position
<1>4. QED
  BY <1>1, <1>2, <1>3, SyncParts

\* A store that is current for n mails is current for more.
LEMMA GoodStoreGrows ==
    ASSUME NEW s, NEW n \in Nat, NEW m \in Nat, n <= m, GoodStore(s, n)
    PROVE  GoodStore(s, m)
  BY StoreFields DEF GoodStore

\* Where a fetch begins.
LEMMA BeginStep ==
    ASSUME TypeOK, GoodStore(store, arrived), Position, Begin,
           store' = store, arrived' = arrived
    PROVE  /\ fetch' = "next" /\ next' \in 0 .. MaxUid + 1 /\ upto' \in 0 .. MaxUid
           /\ orphan' = FALSE /\ queued' = queued
           /\ Position'
<1> USE SyncAssumption DEF SyncAssumption
<1>1. fetch = "none" /\ arrived > 0 /\ fetch' = "next" /\ next' = FirstUid
      /\ upto' = arrived /\ orphan' = FALSE /\ queued' = queued
  BY DEF Begin
<1>2. arrived \in 1 .. MaxUid /\ store.lastUid \in 0 .. MaxUid /\ store.lastUid <= arrived
  BY <1>1, StoreFields DEF TypeOK, GoodStore
<1>3. store.emails # <<>> => store.lastUid # 0
  BY NewestIsLast DEF GoodStore, Mail
<1>4. FirstUid \in 1 .. arrived /\ store.lastUid <= FirstUid
  BY <1>2 DEF FirstUid
<1>5. store.lastUid # 0 => FirstUid - 1 <= store.lastUid
  BY <1>2 DEF FirstUid
<1>6. store.emails # <<>> => \A u \in store.lastUid + 1 .. FirstUid - 1 : Passable(u)
  BY <1>2, <1>3, <1>4, <1>5
<1>7. ~queued
  BY <1>1 DEF Position
<1>8. Position'
  BY <1>1, <1>2, <1>4, <1>6, <1>7 DEF Position
<1>9. QED
  BY <1>1, <1>2, <1>4, <1>8

\* A synchronisation that may begin, be remembered or find nothing to do.
LEMMA RequestStep ==
    ASSUME SyncIInv, Exists \/ Poll \/ Refresh \/ Connect \/ RunQueued
    PROVE  SyncIInv'
<1> USE SyncAssumption DEF SyncAssumption
<1>0. TypeOK /\ GoodStore(store, arrived) /\ GoodStore(file, arrived) /\ Position
  BY SyncParts
<1>1. /\ store' = store /\ file' = file /\ arrived' = arrived
      /\ stopFlag' = stopFlag /\ faults' = faults
  BY DEF Exists, Poll, Refresh, Connect, RunQueued, diskVars
<1>2. awaited' \in BOOLEAN /\ due' \in BOOLEAN /\ link' \in {"down", "open", "active"}
  BY <1>0 DEF Exists, Poll, Refresh, Connect, RunQueued, TypeOK
<1>3. /\ fetch' \in {"none", "next", "parse"} /\ next' \in 0 .. MaxUid + 1
      /\ upto' \in 0 .. MaxUid /\ orphan' \in BOOLEAN /\ queued' \in BOOLEAN
      /\ Position'
  <2>1. \/ Begin
        \/ Defer(TRUE)
        \/ UNCHANGED <<fetchVars, queued>>
    BY DEF Exists, Poll, Refresh, Connect, RunQueued
  <2>2. CASE Begin
    BY <1>0, <1>1, <2>2, BeginStep DEF TypeOK
  <2>3. CASE Defer(TRUE)
    BY <1>0, <1>1, <2>3 DEF Defer, fetchVars, TypeOK, Position
  <2>4. CASE UNCHANGED <<fetchVars, queued>>
    BY <1>0, <1>1, <2>4 DEF fetchVars, TypeOK, Position
  <2>5. QED
    BY <2>1, <2>2, <2>3, <2>4
<1>4. TypeOK'
  BY <1>0, <1>1, <1>2, <1>3 DEF TypeOK
<1>5. QED
  BY <1>0, <1>1, <1>3, <1>4, SyncPartsNext

\* The mail that has been parsed is added, or known under its Message-ID.
LEMMA ParsedStep ==
    ASSUME SyncIInv, Parsed
    PROVE  SyncIInv'
<1> USE SyncAssumption DEF SyncAssumption
<1>0. TypeOK /\ GoodStore(store, arrived) /\ GoodStore(file, arrived) /\ Position
  BY SyncParts
<1>1. /\ fetch = "parse" /\ next' = next + 1 /\ fetch' = "next" /\ arrived' = arrived
      /\ upto' = upto /\ orphan' = orphan /\ awaited' = awaited /\ queued' = queued
      /\ due' = due /\ link' = link /\ stopFlag' = stopFlag /\ faults' = faults
  BY DEF Parsed, NextMessage
<1>2. /\ arrived \in 0 .. MaxUid /\ upto \in 0 .. MaxUid /\ next \in Int
      /\ upto <= arrived /\ 1 <= next /\ next <= upto /\ ~HasUid(store, next)
      /\ store.lastUid <= next /\ store.lastUid \in 0 .. MaxUid
  BY <1>0, <1>1, StoreFields DEF TypeOK, Position
<1>3. next \in Mail
  BY <1>2 DEF Mail
<1>4. store.lastUid < next
  <2>1. CASE store.emails = <<>>
    BY <1>0, <1>2, <2>1 DEF GoodStore, Sound
  <2>2. CASE store.emails # <<>>
    <3>1. store.lastUid \in Held(store)
      BY <1>0, <2>2, NewestIsLast DEF GoodStore
    <3>2. store.lastUid # next
      BY <1>2, <3>1 DEF HasUid
    <3>3. QED
      BY <1>2, <3>2
  <2>3. QED
    BY <2>1, <2>2
<1>5. store.emails # <<>> => \A u \in store.lastUid + 1 .. next - 1 : Passable(u)
  BY <1>0, <1>1 DEF Position
<1>6. CASE Has(store, next)
  <2>1. store' = store /\ file' = file
    BY <1>6 DEF Parsed, Add, diskVars
  <2>2. Passable(next)
    <3>1. PICK v \in Held(store) : MsgId[v] = MsgId[next]
      BY <1>6 DEF Has
    <3>2. v \in Mail /\ store.emails # <<>>
      BY <1>0, <3>1, StoreFields DEF GoodStore
    <3>3. v <= store.lastUid
      BY <1>0, <3>1, <3>2, NewestIsLast DEF GoodStore
    <3>4. v \in 1 .. next - 1
      BY <1>2, <1>4, <3>2, <3>3 DEF Mail
    <3>5. QED
      BY <3>1, <3>4 DEF Passable
  <2>3. store.emails # <<>> => \A u \in store.lastUid + 1 .. next : Passable(u)
    BY <1>2, <1>5, <2>2
  <2>4. Position'
    BY <1>0, <1>1, <1>2, <2>1, <2>3 DEF Position
  <2>5. TypeOK'
    BY <1>0, <1>1, <1>2, <2>1 DEF TypeOK
  <2>6. QED
    BY <1>0, <1>1, <2>1, <2>4, <2>5, SyncPartsNext
<1>7. CASE ~Has(store, next)
  <2>1. store' = Added(store, next) /\ (file' = store' \/ file' = file)
    BY <1>7 DEF Parsed, Add
  <2>2. store' \in Store /\ Sound(store') /\ store'.lastUid = next
    BY <1>0, <1>3, <1>4, <1>7, <2>1, AddedIsSound DEF GoodStore
  <2>3. NoGapIn(store')
    BY <1>0, <1>3, <1>4, <1>5, <1>7, <2>1, AddedLeavesNoGap DEF GoodStore
  <2>4. GoodStore(store', arrived') /\ GoodStore(file', arrived')
    BY <1>0, <1>1, <1>2, <2>1, <2>2, <2>3 DEF GoodStore
  <2>5. Position'
    BY <1>0, <1>1, <1>2, <2>2 DEF Position
  <2>6. TypeOK'
    BY <1>0, <1>1, <1>2, <2>4 DEF TypeOK, GoodStore
  <2>7. QED
    BY <2>4, <2>5, <2>6, SyncPartsNext
<1>8. QED
  BY <1>6, <1>7

\* A message passed over without being parsed need not be stored.
LEMMA SkipStep ==
    ASSUME SyncIInv, Skip
    PROVE  SyncIInv'
<1>0. TypeOK /\ GoodStore(store, arrived) /\ GoodStore(file, arrived) /\ Position
  BY SyncParts
<1>1. /\ fetch = "next" /\ next <= upto /\ Skipped(next)
      /\ next' = next + 1 /\ fetch' = "next" /\ arrived' = arrived
      /\ store' = store /\ file' = file
      /\ upto' = upto /\ orphan' = orphan /\ awaited' = awaited /\ queued' = queued
      /\ due' = due /\ link' = link /\ stopFlag' = stopFlag /\ faults' = faults
  BY DEF Skip, NextMessage, diskVars
<1>2. MaxUid \in Nat /\ next \in 0 .. MaxUid + 1 /\ upto \in 0 .. MaxUid
      /\ store.lastUid \in 0 .. MaxUid
  BY <1>0, StoreFields, SyncAssumption DEF TypeOK, SyncAssumption
<1>3. store.emails # <<>> => Passable(next) \/ next <= store.lastUid
  <2>1. CASE next \in NoSource
    BY <2>1 DEF Passable
  <2>2. CASE HasUid(store, next)
    BY <1>0, <2>2, NewestIsLast DEF GoodStore, HasUid
  <2>3. QED
    BY <1>1, <2>1, <2>2 DEF Skipped
<1>4. store.emails # <<>> => \A u \in store.lastUid + 1 .. next : Passable(u)
  BY <1>0, <1>1, <1>2, <1>3 DEF Position
<1>5. Position'
  BY <1>0, <1>1, <1>2, <1>4 DEF Position
<1>6. TypeOK'
  BY <1>0, <1>1, <1>2 DEF TypeOK
<1>7. QED
  BY <1>0, <1>1, <1>5, <1>6, SyncPartsNext

\* The end of a fetch, for whatever reason.
LEMMA EndStep ==
    ASSUME SyncIInv, ParserThrows \/ FetchDone \/ FetchBreaks
    PROVE  SyncIInv'
<1>0. TypeOK /\ GoodStore(store, arrived) /\ GoodStore(file, arrived) /\ Position
  BY SyncParts
<1>1. PICK ok \in BOOLEAN : EndFetch(ok)
  BY DEF ParserThrows, FetchDone, FetchBreaks
<1>2. /\ fetch' = "none" /\ next' = 0 /\ upto' = 0 /\ orphan' = FALSE /\ awaited' = FALSE
      /\ link' \in {link, "active"} /\ queued' = FALSE /\ arrived' = arrived
      /\ store' = store /\ file' = file /\ stopFlag' = stopFlag /\ faults' = faults
  BY <1>1 DEF EndFetch, diskVars
<1>3. due' \in BOOLEAN
  <2>1. due' = (due \/ queued)
    BY <1>1 DEF EndFetch
  <2>2. QED
    BY <2>1, Zenon
<1>4. MaxUid \in Nat /\ arrived \in 0 .. MaxUid
  BY <1>0, SyncAssumption DEF TypeOK, SyncAssumption
<1>5. Position'
  BY <1>2, <1>4 DEF Position
<1>6. TypeOK'
  <2>1. 0 \in 0 .. MaxUid /\ 0 \in 0 .. MaxUid + 1
    BY <1>4
  <2>2. link' \in {"down", "open", "active"}
    BY <1>0, <1>2 DEF TypeOK
  <2>3. QED
    BY <1>0, <1>2, <1>3, <2>1, <2>2 DEF TypeOK
<1>7. QED
  BY <1>0, <1>2, <1>5, <1>6, SyncPartsNext

LEMMA SyncStep == SyncIInv /\ Next => SyncIInv'
<1> SUFFICES ASSUME SyncIInv, Next PROVE SyncIInv'
  OBVIOUS
<1> USE SyncAssumption DEF SyncAssumption, diskVars, fetchVars
<1>0. TypeOK /\ GoodStore(store, arrived) /\ GoodStore(file, arrived) /\ Position
  BY SyncParts
<1>1. CASE Arrive
  <2>1. arrived' = arrived + 1 /\ arrived \in Nat /\ arrived' \in 0 .. MaxUid
    BY <1>0, <1>1 DEF Arrive, TypeOK
  <2>2. GoodStore(store', arrived') /\ GoodStore(file', arrived')
    BY <1>0, <1>1, <2>1, GoodStoreGrows DEF Arrive
  <2>3. TypeOK' /\ Position'
    BY <1>0, <1>1, <2>1 DEF Arrive, TypeOK, Position
  <2>4. QED
    BY <2>2, <2>3, SyncPartsNext
<1>2. CASE Parse
  <2>1. TypeOK'
    BY <1>0, <1>2 DEF Parse, TypeOK
  <2>2. Position'
    BY <1>0, <1>2 DEF Parse, Position, Skipped
  <2>3. QED
    BY <1>0, <1>2, <2>1, <2>2, SyncPartsNext DEF Parse
<1>3. CASE Lose \/ Stop \/ Start
  <2>1. TypeOK'
    <3>1. orphan' \in BOOLEAN
      BY <1>0, <1>3, Zenon DEF Lose, Stop, Start, TypeOK
    <3>2. faults' \in 0 .. MaxFaults
      BY <1>0, <1>3 DEF Lose, Stop, Start, TypeOK
    <3>3. stopFlag' \in BOOLEAN /\ link' \in {"down", "open", "active"}
      BY <1>0, <1>3 DEF Lose, Stop, Start, TypeOK
    <3>4. /\ UNCHANGED <<arrived, store, file, fetch, next, upto>>
          /\ UNCHANGED <<awaited, queued, due>>
      BY <1>3 DEF Lose, Stop, Start
    <3>5. QED
      BY <1>0, <3>1, <3>2, <3>3, <3>4 DEF TypeOK
  <2>2. Position'
    BY <1>0, <1>3 DEF Lose, Stop, Start, Position
  <2>3. QED
    BY <1>0, <1>3, <2>1, <2>2, SyncPartsNext DEF Lose, Stop, Start
<1>4. CASE Crash
  <2>1. GoodStore(store', arrived')
    BY <1>0, <1>4, EmptyIsGood DEF Crash, TypeOK
  <2>2. TypeOK'
    <3>1. faults' \in 0 .. MaxFaults /\ 0 \in 0 .. MaxUid /\ 0 \in 0 .. MaxUid + 1
      BY <1>0, <1>4 DEF Crash, TypeOK
    <3>2. store' \in Store
      BY <2>1 DEF GoodStore
    <3>3. QED
      BY <1>0, <1>4, <3>1, <3>2 DEF Crash, TypeOK
  <2>3. Position'
    BY <1>0, <1>4 DEF Crash, Position, TypeOK
  <2>4. QED
    BY <1>0, <1>4, <2>1, <2>2, <2>3, SyncPartsNext DEF Crash
<1>5. QED
  BY <1>1, <1>2, <1>3, <1>4, RequestStep, ParsedStep, SkipStep, EndStep DEF Next, Work

-----------------------------------------------------------------------------
(* The records.                                                            *)

LEMMA LabelType == ASSUME NEW mail PROVE Label(mail) \in {"dangerous", "unknown", "safe"}
<1>1. CASE mail.throws
  BY <1>1 DEF Label
<1>2. CASE ~mail.throws /\ Suspect(mail)
  BY <1>2 DEF Label
<1>3. CASE ~mail.throws /\ ~Suspect(mail)
  BY <1>3 DEF Label
<1>4. QED
  BY <1>1, <1>2, <1>3

\* A mail the dashboard labels safe has no finding and nothing undetermined.
LEMMA SafeLabel ==
    ASSUME NEW mail \in Content, Label(mail) = "safe"
    PROVE  /\ ~Suspect(mail)
           /\ ~mail.throws
           /\ ~IsVerdict(mail.scans, "errored")
           /\ \A i \in DOMAIN mail.attachments :
                  mail.attachments[i] \cap {"goodExtension", "goodType"} # {}
<1>1. ~mail.throws
  BY DEF Label
<1>2. ~Suspect(mail)
  BY <1>1 DEF Label
<1>3. ~Undetermined(mail)
  BY <1>1, <1>2 DEF Label
<1>4. QED
  BY <1>1, <1>2, <1>3 DEF Undetermined, Unresolved

RowType == [key : Key, user : Account, class : Class]

\* A row is about a mail and says what the dashboard's label of it says, or has been
\* scanned by the loop.
SaysWhatIsKnown(r) ==
    \E u \in Mail : /\ r.key[2] = MsgId[u]
                    /\ r.class = "scanned" \/ r.class = ClassOf[Label(InMail[u])]

RecordsOK ==
    /\ records \subseteq RowType
    /\ OneRecordEach
    /\ KeysAreKnown
    /\ SafeIsDetermined

LEMMA MsgIdIsId == ASSUME NEW u \in Mail PROVE MsgId[u] \in Ids
  BY DEF Ids

\* Adding rows with keys that are not taken, one of a key, keeps the records in order.
LEMMA RowsAdded ==
    ASSUME RecordsOK, NEW R, records' = records \cup R, R \subseteq RowType,
           \A r \in R : /\ ~Taken(r.key)
                        /\ r.key[1] \in {Owner, r.user}
                        /\ SaysWhatIsKnown(r),
           \A r, s \in R : r.key = s.key => r = s
    PROVE  RecordsOK'
<1>1. records' \subseteq RowType
  BY DEF RecordsOK
<1>2. KeysAreKnown'
  BY DEF RecordsOK, KeysAreKnown
<1>3. \A r, s \in records' : r.key = s.key => r = s
  <2>1. \A r, s \in records : r.key = s.key => r = s
    BY DEF RecordsOK, OneRecordEach
  <2>2. \A r \in R, s \in records : r.key # s.key
    BY DEF Taken
  <2>3. QED
    BY <2>1, <2>2
<1>4. \A r, s \in records' :
          r.user = Owner /\ s.user = Owner /\ r.key[2] = s.key[2] => r.key = s.key
  <2>1. \A r \in records' : r.key \in Account \X Ids
    BY <1>1 DEF RowType, Key
  <2>2. \A r \in records' : r.user = Owner => r.key[1] = Owner
    BY <1>2 DEF KeysAreKnown
  <2>3. \A p, q \in Account \X Ids : p[1] = q[1] /\ p[2] = q[2] => p = q
    OBVIOUS
  <2>4. QED
    BY <2>1, <2>2, <2>3
<1>5. OneRecordEach'
  BY <1>3, <1>4 DEF OneRecordEach
<1>6. SafeIsDetermined'
  <2> SUFFICES ASSUME NEW r \in R, NEW u \in Mail, r.class = "safe", r.key[2] = MsgId[u]
               PROVE  /\ ~Suspect(InMail[u])
                      /\ ~InMail[u].throws
                      /\ ~IsVerdict(InMail[u].scans, "errored")
                      /\ \A i \in DOMAIN InMail[u].attachments :
                             InMail[u].attachments[i] \cap {"goodExtension", "goodType"} # {}
    BY DEF RecordsOK, SafeIsDetermined
  <2>1. PICK v \in Mail : MsgId[v] = MsgId[u] /\ ClassOf[Label(InMail[v])] = "safe"
    BY DEF SaysWhatIsKnown
  <2>2. InMail[v] = InMail[u] /\ InMail[u] \in Content
    BY <2>1, BridgeAssumption DEF BridgeAssumption
  <2>3. Label(InMail[u]) = "safe"
    BY <2>1, <2>2, LabelType DEF ClassOf
  <2>4. QED
    BY <2>2, <2>3, SafeLabel
<1>7. QED
  BY <1>1, <1>2, <1>5, <1>6 DEF RecordsOK

LEMMA RowFields ==
    ASSUME NEW key \in Key, NEW w \in Account, NEW c \in Class
    PROVE  /\ Row(key, w, c) \in RowType
           /\ Row(key, w, c).key = key /\ Row(key, w, c).user = w /\ Row(key, w, c).class = c
  BY DEF Row, RowType

LEMMA ClassIsClass == ASSUME NEW mail PROVE ClassOf[Label(mail)] \in Class
  BY LabelType DEF ClassOf, Class

\* One row under the plain key of a mail.
LEMMA PlainRowAdded ==
    ASSUME RecordsOK, NEW u \in Mail, NEW w \in Account, NEW c \in Class,
           c \in {"scanned", ClassOf[Label(InMail[u])]}, ~Taken(PlainKey(u)),
           records' = records \cup {Row(PlainKey(u), w, c)}
    PROVE  RecordsOK'
<1>1. PlainKey(u) \in Key /\ PlainKey(u)[1] = Owner /\ PlainKey(u)[2] = MsgId[u]
  BY MsgIdIsId, BridgeAssumption DEF BridgeAssumption, PlainKey, Key
<1> DEFINE r == Row(PlainKey(u), w, c)
<1>2. r \in RowType /\ r.key = PlainKey(u) /\ r.class = c
  BY <1>1, RowFields
<1> HIDE DEF r
<1>3. ~Taken(r.key) /\ r.key[1] \in {Owner, r.user} /\ SaysWhatIsKnown(r)
  BY <1>1, <1>2 DEF SaysWhatIsKnown
<1>4. records' = records \cup {r}
  BY DEF r
<1> DEFINE R == {r}
<1>5. /\ R \subseteq RowType
      /\ \A x \in R : ~Taken(x.key) /\ x.key[1] \in {Owner, x.user} /\ SaysWhatIsKnown(x)
      /\ \A x, y \in R : x.key = y.key => x = y
  BY <1>2, <1>3
<1>6. records' = records \cup R
  BY <1>4
<1> HIDE DEF R
<1>7. QED
  BY <1>5, <1>6, RowsAdded

\* What the dashboard posts.
LEMMA SyncRawStep ==
    ASSUME RecordsOK, NEW u \in Mail, records' = SyncRaw(u)
    PROVE  RecordsOK' /\ records \subseteq records'
<1>1. CASE Taken(PlainKey(u))
  <2>1. records' = records
    BY <1>1 DEF SyncRaw
  <2>2. QED
    BY <2>1 DEF RecordsOK, OneRecordEach, KeysAreKnown, SafeIsDetermined
<1>2. CASE ~Taken(PlainKey(u))
  <2>1. records' = records \cup {Row(PlainKey(u), Owner, ClassOf[Label(InMail[u])])}
    BY <1>2 DEF SyncRaw
  <2>2. Owner \in Account /\ ClassOf[Label(InMail[u])] \in Class
    BY ClassIsClass, BridgeAssumption DEF BridgeAssumption
  <2>3. QED
    BY <1>2, <2>1, <2>2, PlainRowAdded
<1>3. QED
  BY <1>1, <1>2

\* What an import adds: every mail of the file that the account lacks is claimed and on
\* record under the account's key.
LEMMA ImportStep ==
    ASSUME RecordsOK, Held(file) \subseteq Mail, claimed \subseteq Account \X Mail,
           NEW w \in Account, Import(w)
    PROVE  /\ RecordsOK' /\ records \subseteq records'
           /\ claimed' \subseteq Account \X Mail
           /\ \A p \in claimed' : p \in claimed \/
                  \E u \in Mail : /\ p = <<w, u>>
                                  /\ \E r \in records' : r.key = ImportKey(w, u) /\ r.user = w
<1>1. CASE \E u \in ToImport(w) : Taken(ImportKey(w, u))
  <2>1. records' = records /\ claimed' = claimed
    BY <1>1 DEF Import
  <2>2. QED
    BY <2>1 DEF RecordsOK, OneRecordEach, KeysAreKnown, SafeIsDetermined
<1>2. CASE \A u \in ToImport(w) : ~Taken(ImportKey(w, u))
  <2> DEFINE row(u) == Row(ImportKey(w, u), w, ClassOf[Label(InMail[u])])
             R == {row(u) : u \in ToImport(w)}
  <2>1. records' = records \cup R /\ claimed' = claimed \cup {<<w, u>> : u \in ToImport(w)}
    BY <1>2 DEF Import
  <2>2. ToImport(w) \subseteq Mail
    BY DEF ToImport
  <2>3. ASSUME NEW u \in Mail
        PROVE  /\ row(u) \in RowType
               /\ row(u).key = ImportKey(w, u) /\ row(u).user = w
               /\ row(u).class = ClassOf[Label(InMail[u])]
    <3>1. ImportKey(w, u) \in Key
      BY MsgIdIsId DEF ImportKey, Key
    <3>2. QED
      BY <3>1, ClassIsClass, RowFields
  <2>4. ASSUME NEW u \in Mail PROVE ImportKey(w, u)[1] = w /\ ImportKey(w, u)[2] = MsgId[u]
    BY DEF ImportKey
  <2>5. \A r \in R : \E u \in ToImport(w) : r = row(u)
    OBVIOUS
  <2> HIDE DEF row
  <2>6. R \subseteq RowType
    BY <2>2, <2>3, <2>5
  <2>7. \A r \in R : /\ ~Taken(r.key)
                     /\ r.key[1] \in {Owner, r.user}
                     /\ SaysWhatIsKnown(r)
    BY <1>2, <2>2, <2>3, <2>4, <2>5 DEF SaysWhatIsKnown
  <2>8. \A r, s \in R : r.key = s.key => r = s
    <3> TAKE r, s \in R
    <3> HAVE r.key = s.key
    <3>1. PICK u \in Mail, v \in Mail : r = row(u) /\ s = row(v)
      BY <2>2, <2>5
    <3>2. MsgId[u] = MsgId[v]
      BY <2>3, <2>4, <3>1
    <3>3. InMail[u] = InMail[v]
      BY <3>2, BridgeAssumption DEF BridgeAssumption
    <3>4. QED
      BY <3>1, <3>2, <3>3 DEF row, ImportKey
  <2>9. RecordsOK'
    BY <2>1, <2>6, <2>7, <2>8, RowsAdded
  <2>10. \A p \in claimed' : p \in claimed \/ \E u \in ToImport(w) : p = <<w, u>>
    BY <2>1
  <2>11. \A u \in ToImport(w) : \E r \in records' : r.key = ImportKey(w, u) /\ r.user = w
    BY <2>1, <2>2, <2>3
  <2>12. QED
    BY <2>1, <2>2, <2>9, <2>10, <2>11
<1>3. QED
  BY <1>1, <1>2

-----------------------------------------------------------------------------
(* The bridge.                                                             *)

\* The backend's part of the invariant.
BackendOK ==
    /\ RecordsOK
    /\ claimed \subseteq Account \X Mail
    /\ inHand \in Polled \cup {Nothing}
    /\ up \in BOOLEAN
    /\ dropped \subseteq Polled
    /\ Accounted

LEMMA BridgeParts == IInv <=> SyncIInv /\ BackendOK /\ FewAreDropped
  BY DEF IInv, BackendOK, RecordsOK, RowType, BridgeInvariant, BridgeTypeOK, SyncIInv,
         SyncInvariant

LEMMA BridgePartsNext == SyncIInv' /\ BackendOK' /\ FewAreDropped' => IInv'
  BY DEF IInv, BackendOK, RecordsOK, RowType, BridgeInvariant, BridgeTypeOK, SyncIInv,
         SyncInvariant

LEMMA InitIInv == BridgeInit => IInv
<1> SUFFICES ASSUME BridgeInit PROVE IInv
  OBVIOUS
<1>1. SyncIInv
  BY InitSync DEF BridgeInit
<1>2. BackendOK
  BY DEF BridgeInit, BackendOK, RecordsOK, OneRecordEach, KeysAreKnown, SafeIsDetermined,
         Accounted
<1>3. FewAreDropped
  <2>1. dropped = {} /\ faults = 0
    BY DEF BridgeInit, Init
  <2>2. QED
    BY <2>1, FS_EmptySet DEF FewAreDropped
<1>4. QED
  BY <1>1, <1>2, <1>3, BridgeParts

\* What is settled stays settled while no record goes.
LEMMA SettledStays ==
    ASSUME records \subseteq records', dropped \subseteq dropped', NEW m \in Polled, Settled(m)
    PROVE  Settled(m)'
  BY DEF Settled, Taken, HasAny

LEMMA SyncUnchanged == ASSUME SyncIInv, UNCHANGED vars PROVE SyncIInv'
  BY DEF SyncIInv, SyncInvariant, NoGap, FetchGoesOn, TypeOK, vars

\* A step of the backend that leaves the rows claimed before as they were settled.
LEMMA StillRecorded ==
    ASSUME Accounted, records \subseteq records', dropped \subseteq dropped',
           claimed' = claimed, inHand' = inHand
    PROVE  Accounted'
  BY SettledStays DEF Accounted

LEMMA ImportKeepsBackend ==
    ASSUME SyncIInv, BackendOK, NEW w \in Account, Import(w),
           inHand' = inHand, dropped' = dropped, up' \in BOOLEAN
    PROVE  BackendOK'
<1>0. Held(file) \subseteq Mail
  BY StoreFields DEF SyncIInv, SyncInvariant, TypeOK
<1>1. /\ RecordsOK' /\ records \subseteq records'
      /\ claimed' \subseteq Account \X Mail
      /\ \A p \in claimed' : p \in claimed \/
             \E u \in Mail : /\ p = <<w, u>>
                             /\ \E r \in records' : r.key = ImportKey(w, u) /\ r.user = w
  BY <1>0, ImportStep DEF BackendOK
<1>2. Accounted'
  <2> SUFFICES ASSUME NEW m \in Polled, <<m[1], UidIn[m]>> \in claimed'
               PROVE  m = inHand' \/ Settled(m)'
    BY DEF Accounted
  <2>1. CASE <<m[1], UidIn[m]>> \in claimed
    BY <1>1, <2>1, SettledStays DEF BackendOK, Accounted
  <2>2. CASE <<m[1], UidIn[m]>> \notin claimed
    <3>1. PICK u \in Mail : /\ <<m[1], UidIn[m]>> = <<w, u>>
                            /\ \E r \in records' : r.key = ImportKey(w, u) /\ r.user = w
      BY <1>1, <2>2
    <3>2. m[1] = w /\ UidIn[m] = u
      BY <3>1
    <3>3. CASE u = m[2]
      BY <3>1, <3>2, <3>3 DEF Settled, Taken
    <3>4. CASE u # m[2]
      BY <3>1, <3>2, <3>4 DEF Settled, HasAny
    <3>5. QED
      BY <3>3, <3>4
  <2>3. QED
    BY <2>1, <2>2
<1>3. QED
  BY <1>1, <1>2 DEF BackendOK

\* A mail is given up only by a step that is counted, and one at a time.
LEMMA DroppedStep ==
    ASSUME SyncIInv, FewAreDropped, [BridgeNext]_bridgeVars
    PROVE  FewAreDropped'
<1>0. faults \in Nat /\ IsFiniteSet(dropped) /\ Cardinality(dropped) \in Nat
      /\ Cardinality(dropped) <= faults
  BY FS_CardinalityType, SyncAssumption
  DEF SyncIInv, SyncInvariant, TypeOK, SyncAssumption, FewAreDropped
<1>1. ASSUME dropped' = dropped, faults' \in {faults, faults + 1} PROVE FewAreDropped'
  BY <1>0, <1>1 DEF FewAreDropped
<1>2. ASSUME dropped' = dropped \cup {inHand}, faults' = faults + 1 PROVE FewAreDropped'
  <2>1. /\ IsFiniteSet(dropped \cup {inHand})
        /\ \/ Cardinality(dropped \cup {inHand}) = Cardinality(dropped)
           \/ Cardinality(dropped \cup {inHand}) = Cardinality(dropped) + 1
    BY <1>0, FS_AddElement
  <2>2. QED
    BY <1>0, <1>2, <2>1 DEF FewAreDropped
<1>3. CASE Dashboard
  <2>1. faults' \in {faults, faults + 1}
    BY <1>3
    DEF Dashboard, Next, Arrive, Poll, Exists, Refresh, Connect, RunQueued, Work, Skip,
        Parse, Parsed, ParserThrows, FetchDone, FetchBreaks, NextMessage, EndFetch, Lose,
        Stop, Start, Crash
  <2>2. QED
    BY <1>1, <1>3, <2>1 DEF Dashboard
<1>4. ASSUME UNCHANGED vars, dropped' = dropped PROVE FewAreDropped'
  BY <1>1, <1>4 DEF vars
<1>5. ASSUME NEW w \in Account, ImportFolder(w) PROVE FewAreDropped'
  BY <1>4, <1>5 DEF ImportFolder
<1>6. CASE BackendStarts \/ LoopStores \/ UNCHANGED bridgeVars
  BY <1>4, <1>6 DEF BackendStarts, LoopStores, bridgeVars, backendVars
<1>7. ASSUME NEW m \in Polled, LoopClaims(m) PROVE FewAreDropped'
  BY <1>4, <1>7 DEF LoopClaims
<1>8. CASE LoopFails
  BY <1>2, <1>8 DEF LoopFails
<1>9. CASE BackendDies
  <2>1. dropped' = dropped \/ dropped' = dropped \cup {inHand}
    BY <1>9 DEF BackendDies
  <2>2. faults' = faults + 1
    BY <1>9 DEF BackendDies
  <2>3. QED
    BY <1>1, <1>2, <2>1, <2>2
<1>10. QED
  BY <1>3, <1>5, <1>6, <1>7, <1>8, <1>9 DEF BridgeNext, Loop

\* Every step keeps the invariant.
LEMMA IInvStep == IInv /\ [BridgeNext]_bridgeVars => IInv'
<1> SUFFICES ASSUME IInv, [BridgeNext]_bridgeVars PROVE SyncIInv' /\ BackendOK'
  BY BridgeParts, BridgePartsNext, DroppedStep
<1>0. SyncIInv /\ BackendOK
  BY BridgeParts
<1>1. CASE Dashboard
  <2>1. SyncIInv'
    BY <1>0, <1>1, SyncStep DEF Dashboard
  <2>2. RecordsOK' /\ records \subseteq records'
    <3>1. CASE up /\ fetch' = "next" /\ store' # store
      <4>1. records' = SyncRaw(next)
        BY <1>1, <3>1 DEF Dashboard
      <4>2. Parsed
        BY <1>1, <3>1
        DEF Dashboard, Next, Arrive, Poll, Exists, Refresh, Connect, RunQueued, Work, Skip,
            Parse, ParserThrows, FetchDone, FetchBreaks, Lose, Stop, Start, Crash, EndFetch,
            diskVars, fetchVars
      <4>3. next \in Mail
        <5>1. fetch = "parse" /\ upto \in 0 .. MaxUid /\ next \in 0 .. MaxUid + 1
          BY <1>0, <4>2 DEF Parsed, SyncIInv, SyncInvariant, TypeOK
        <5>2. 1 <= next /\ next <= upto
          BY <1>0, <5>1 DEF SyncIInv, FetchGoesOn
        <5>3. QED
          BY <5>1, <5>2, SyncAssumption DEF Mail, SyncAssumption
      <4>4. QED
        BY <1>0, <4>1, <4>3, SyncRawStep DEF BackendOK
    <3>2. CASE ~(up /\ fetch' = "next" /\ store' # store)
      <4>1. records' = records
        BY <1>1, <3>2 DEF Dashboard
      <4>2. QED
        BY <1>0, <4>1 DEF BackendOK, RecordsOK, OneRecordEach, KeysAreKnown, SafeIsDetermined
    <3>3. QED
      BY <3>1, <3>2
  <2>3. claimed' = claimed /\ inHand' = inHand /\ up' = up /\ dropped' = dropped
    BY <1>1 DEF Dashboard
  <2>4. Accounted'
    BY <1>0, <2>2, <2>3, StillRecorded DEF BackendOK
  <2>5. QED
    BY <1>0, <2>1, <2>2, <2>3, <2>4 DEF BackendOK
<1>2. ASSUME NEW w \in Account, ImportFolder(w) PROVE SyncIInv' /\ BackendOK'
  <2>1. UNCHANGED vars /\ Import(w) /\ inHand' = inHand /\ dropped' = dropped /\ up' = up
    BY <1>2 DEF ImportFolder
  <2>2. QED
    BY <1>0, <2>1, SyncUnchanged, ImportKeepsBackend DEF BackendOK
<1>3. CASE BackendStarts
  <2>1. /\ UNCHANGED vars /\ Import(Owner) /\ inHand' = inHand /\ dropped' = dropped
        /\ up' = TRUE
    BY <1>3 DEF BackendStarts
  <2>2. Owner \in Account
    BY BridgeAssumption DEF BridgeAssumption
  <2>3. QED
    BY <1>0, <2>1, <2>2, SyncUnchanged, ImportKeepsBackend
<1>4. ASSUME NEW m \in Polled, LoopClaims(m) PROVE SyncIInv' /\ BackendOK'
  <2>1. /\ UNCHANGED vars /\ records' = records /\ up' = up /\ dropped' = dropped
        /\ inHand = Nothing /\ inHand' = m
        /\ claimed' = claimed \cup {<<m[1], UidIn[m]>>}
    BY <1>4 DEF LoopClaims
  <2>2. m[1] \in Account /\ UidIn[m] \in Mail
    BY BridgeAssumption DEF BridgeAssumption
  <2>3. RecordsOK'
    BY <1>0, <2>1 DEF BackendOK, RecordsOK, OneRecordEach, KeysAreKnown, SafeIsDetermined
  <2>4. Accounted'
    <3> SUFFICES ASSUME NEW k \in Polled, <<k[1], UidIn[k]>> \in claimed'
                 PROVE  k = inHand' \/ Settled(k)'
      BY DEF Accounted
    <3>1. CASE <<k[1], UidIn[k]>> \in claimed
      <4>1. k # Nothing
        BY BridgeAssumption DEF BridgeAssumption
      <4>2. Settled(k)
        BY <1>0, <2>1, <3>1, <4>1 DEF BackendOK, Accounted
      <4>3. QED
        BY <2>1, <4>2, SettledStays
    <3>2. CASE <<k[1], UidIn[k]>> = <<m[1], UidIn[m]>>
      <4>1. k = m
        BY <3>2, BridgeAssumption DEF BridgeAssumption
      <4>2. QED
        BY <2>1, <4>1
    <3>3. QED
      BY <2>1, <3>1, <3>2
  <2>5. QED
    BY <1>0, <2>1, <2>2, <2>3, <2>4, SyncUnchanged DEF BackendOK
<1>5. CASE LoopStores
  <2>0. PICK m \in Polled : m = inHand
    BY <1>0, <1>5 DEF LoopStores, BackendOK
  <2>1. /\ UNCHANGED vars /\ claimed' = claimed /\ up' = up /\ dropped' = dropped
        /\ inHand' = Nothing
        /\ records' = IF Taken(PlainKey(m[2])) THEN records
                      ELSE records \cup {Row(PlainKey(m[2]), m[1], "scanned")}
    BY <1>5, <2>0 DEF LoopStores
  <2>2. m[1] \in Account /\ m[2] \in Mail
    BY BridgeAssumption DEF BridgeAssumption
  <2>3. RecordsOK' /\ records \subseteq records' /\ Taken(PlainKey(m[2]))'
    <3>1. CASE Taken(PlainKey(m[2]))
      <4>1. records' = records
        BY <2>1, <3>1
      <4>2. QED
        BY <1>0, <3>1, <4>1
        DEF BackendOK, RecordsOK, OneRecordEach, KeysAreKnown, SafeIsDetermined, Taken
    <3>2. CASE ~Taken(PlainKey(m[2]))
      <4>1. records' = records \cup {Row(PlainKey(m[2]), m[1], "scanned")}
        BY <2>1, <3>2
      <4>2. RecordsOK'
        BY <1>0, <2>2, <3>2, <4>1, PlainRowAdded DEF BackendOK, Class
      <4>3. Row(PlainKey(m[2]), m[1], "scanned").key = PlainKey(m[2])
        BY DEF Row
      <4>4. QED
        BY <4>1, <4>2, <4>3 DEF Taken
    <3>3. QED
      BY <3>1, <3>2
  <2>4. Accounted'
    <3> SUFFICES ASSUME NEW k \in Polled, <<k[1], UidIn[k]>> \in claimed'
                 PROVE  Settled(k)'
      BY DEF Accounted
    <3>1. CASE k = m
      BY <2>3, <3>1 DEF Settled, Taken
    <3>2. CASE k # m
      BY <1>0, <2>0, <2>1, <2>3, <3>2, SettledStays DEF BackendOK, Accounted
    <3>3. QED
      BY <3>1, <3>2
  <2>5. QED
    BY <1>0, <2>1, <2>3, <2>4, SyncUnchanged DEF BackendOK
<1>6. CASE BackendDies
  <2>1. /\ faults' = faults + 1 /\ faults < MaxFaults /\ up' = FALSE /\ inHand' = Nothing
        /\ dropped' = dropped \cup ({inHand} \ {Nothing})
        /\ records' = records /\ claimed' = claimed
        /\ UNCHANGED <<arrived, store, file, fetch, next, upto, orphan, awaited, queued, due,
                       link, stopFlag>>
    BY <1>6 DEF BackendDies, diskVars, fetchVars
  <2>2. SyncIInv'
    <3>1. TypeOK'
      BY <1>0, <2>1, SyncAssumption DEF SyncIInv, SyncInvariant, TypeOK, SyncAssumption
    <3>2. QED
      BY <1>0, <2>1, <3>1 DEF SyncIInv, SyncInvariant, NoGap, FetchGoesOn
  <2>3. dropped' \subseteq Polled
    BY <1>0, <2>1 DEF BackendOK
  <2>4. RecordsOK'
    BY <1>0, <2>1 DEF BackendOK, RecordsOK, OneRecordEach, KeysAreKnown, SafeIsDetermined
  <2>5. Accounted'
    <3> SUFFICES ASSUME NEW k \in Polled, <<k[1], UidIn[k]>> \in claimed'
                 PROVE  Settled(k)'
      BY DEF Accounted
    <3>1. CASE k = inHand
      <4>1. k # Nothing
        BY BridgeAssumption DEF BridgeAssumption
      <4>2. QED
        BY <2>1, <3>1, <4>1 DEF Settled
    <3>2. CASE k # inHand
      BY <1>0, <2>1, <3>2, SettledStays DEF BackendOK, Accounted
    <3>3. QED
      BY <3>1, <3>2
  <2>6. QED
    BY <1>0, <2>1, <2>2, <2>3, <2>4, <2>5 DEF BackendOK
<1>7. CASE UNCHANGED bridgeVars
  <2>1. UNCHANGED vars /\ UNCHANGED <<records, claimed, inHand, up, dropped>>
    BY <1>7 DEF bridgeVars, backendVars
  <2>2. SyncIInv'
    BY <1>0, <2>1, SyncUnchanged
  <2>3. RecordsOK'
    BY <1>0, <2>1 DEF BackendOK, RecordsOK, OneRecordEach, KeysAreKnown, SafeIsDetermined
  <2>4. Accounted'
    BY <1>0, <2>1, StillRecorded DEF BackendOK
  <2>5. QED
    BY <1>0, <2>1, <2>2, <2>3, <2>4 DEF BackendOK
<1>8. CASE LoopFails
  <2>1. /\ faults' = faults + 1 /\ faults < MaxFaults /\ up' = up /\ inHand' = Nothing
        /\ dropped' = dropped \cup {inHand} /\ inHand # Nothing
        /\ records' = records /\ claimed' = claimed
        /\ UNCHANGED <<arrived, store, file, fetch, next, upto, orphan, awaited, queued, due,
                       link, stopFlag>>
    BY <1>8 DEF LoopFails, diskVars, fetchVars
  <2>2. SyncIInv'
    <3>1. TypeOK'
      BY <1>0, <2>1, SyncAssumption DEF SyncIInv, SyncInvariant, TypeOK, SyncAssumption
    <3>2. QED
      BY <1>0, <2>1, <3>1 DEF SyncIInv, SyncInvariant, NoGap, FetchGoesOn
  <2>3. dropped' \subseteq Polled
    BY <1>0, <2>1 DEF BackendOK
  <2>4. RecordsOK'
    BY <1>0, <2>1 DEF BackendOK, RecordsOK, OneRecordEach, KeysAreKnown, SafeIsDetermined
  <2>5. Accounted'
    <3> SUFFICES ASSUME NEW k \in Polled, <<k[1], UidIn[k]>> \in claimed'
                 PROVE  Settled(k)'
      BY DEF Accounted
    <3>1. CASE k = inHand
      BY <2>1, <3>1 DEF Settled
    <3>2. CASE k # inHand
      BY <1>0, <2>1, <3>2, SettledStays DEF BackendOK, Accounted
    <3>3. QED
      BY <3>1, <3>2
  <2>6. QED
    BY <1>0, <2>1, <2>2, <2>3, <2>4, <2>5 DEF BackendOK
<1>9. QED
  BY <1>1, <1>2, <1>3, <1>4, <1>5, <1>6, <1>7, <1>8 DEF BridgeNext, Loop

THEOREM BridgeIInv == BridgeSpec => []IInv
  BY InitIInv, IInvStep, PTL DEF BridgeSpec

\* Whatever writes fail, connections are lost and processes killed, the dashboard's
\* store and the file it would be loaded from are sound.
THEOREM StoreStaysSound == BridgeSpec => []SyncInvariant
<1>1. IInv => SyncInvariant
  BY DEF IInv, SyncIInv
<1>2. QED
  BY <1>1, BridgeIInv, PTL

\* Between the oldest mail shown and the newest none is missing, now and after a
\* restart.
THEOREM NoMailIsMissing == BridgeSpec => []NoGap
<1>1. IInv => NoGap
  BY DEF IInv, SyncIInv
<1>2. QED
  BY <1>1, BridgeIInv, PTL

\* Three ways lead a mail into the database, and it has one record for its owner.
THEOREM OneRecordIsKept == BridgeSpec => []BridgeInvariant
<1>1. IInv => BridgeInvariant
  BY DEF IInv
<1>2. QED
  BY <1>1, BridgeIInv, PTL

\* No record says safe of a mail with a finding or with something undetermined.
THEOREM SafeMeansDetermined == BridgeSpec => []SafeIsDetermined
<1>1. IInv => SafeIsDetermined
  BY DEF IInv
<1>2. QED
  BY <1>1, BridgeIInv, PTL

\* No claim of an import keeps the monitor loop from a mail that is not on record,
\* and a claim of its own costs no more mails than there were failures and kills.
THEOREM ClaimsAreAccounted == BridgeSpec => []ClaimedAreRecorded
<1>1. IInv => ClaimedAreRecorded
  BY DEF IInv, Accounted, FewAreDropped, ClaimedAreRecorded
<1>2. QED
  BY <1>1, BridgeIInv, PTL
=============================================================================
