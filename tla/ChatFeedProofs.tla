----------------------------- MODULE ChatFeedProofs ----------------------------
(***************************************************************************)
(* Chat reaches the members, for every number of members, messages, pushes,   *)
(* joins and prunings.  The argument is about what a member has once it has   *)
(* read what is on its way: the base, which is what it has heard over this    *)
(* connection or the history that will replace it, and the frames that follow.*)
(***************************************************************************)
EXTENDS ChatFeed, TLAPS, WellFoundedInduction, SequenceTheorems

UserRecord == [kind : {"user"}, of : Said, amended : BOOLEAN]
EventRecord == [kind : {"event"}, of : Event, amended : BOOLEAN]
ChatRecord == UserRecord \cup EventRecord

Jobs ==
    [then : {"broadcast"}, rec : UserRecord]
    \cup [then : {"amend"}, rec : EventRecord]
    \cup [then : {"cleared", "truncated"}, rec : {None}]

Frames ==
    [type : {"history"}, arg : Seq(ChatRecord)]
    \cup [type : {"chat"}, arg : ChatRecord]
    \cup [type : {"amend"}, arg : {"event"} \X Event]
    \cup [type : {"emptied"}, arg : {None}]

Panels == [state : {"closed", "loading", "open"}, records : Seq(ChatRecord)]

\* What the proofs need of the types.
ChatTypeOK ==
    /\ log \in Seq(ChatRecord)
    /\ jobs \subseteq Jobs
    /\ cache \in [Window -> Seq(ChatRecord)]
    /\ panel \in [Window -> Panels]
    /\ client \in [Member -> {"none", "new", "wired"}]
    /\ seated \subseteq Member
    /\ chan \in [Member -> Seq(Frames)]
    /\ owed = [m \in Member |-> owed[m]]
    /\ analysis \in [Event -> {"none", "asked", "done"}]

EventKey(x) == <<"event", x>>

\* A window without its listeners has heard nothing: its cache is of an earlier connection.
Heard(m) == IF client[m] = "wired" THEN cache[m] ELSE <<>>

\* What a member has once the history on its way, if any, has replaced its cache.
BaseOf(c, q) == IF q # <<>> /\ Head(q).type = "history" THEN Head(q).arg ELSE c
Base(m) == BaseOf(Heard(m), chan[m])

Says(f, key) == f.type = "chat" /\ Key(f.arg) = key
Amends(f, key) == f.type = "amend" /\ f.arg = key

\* The base has the record, or a frame brings it, and nothing empties the cache after.
Carries(b, q, key) ==
    \/ key \in Keys(b) /\ \A i \in 1..Len(q) : q[i].type # "emptied"
    \/ \E i \in 1..Len(q) :
          Says(q[i], key) /\ \A k \in i + 1..Len(q) : q[k].type # "emptied"

\* No record comes twice.
Once(b, q, key) ==
    /\ \A i, k \in DOMAIN b : Key(b[i]) = key /\ Key(b[k]) = key => i = k
    /\ \A i \in 1..Len(q) : Says(q[i], key) =>
          key \notin Keys(b) /\ \A k \in 1..Len(q) : Says(q[k], key) => k = i

\* Every copy of the record is amended or will be.
Amended(b, q, key) ==
    /\ \A i \in DOMAIN b : Key(b[i]) = key =>
          b[i].amended \/ \E k \in 1..Len(q) : Amends(q[k], key)
    /\ \A i \in 1..Len(q) : Says(q[i], key) =>
          q[i].arg.amended \/ \E k \in i + 1..Len(q) : Amends(q[k], key)

BroadcastDue(key) == \E j \in jobs : j.then = "broadcast" /\ Key(j.rec) = key
AmendDue(key) == \E j \in jobs : j.then = "amend" /\ Key(j.rec) = key
LogAmended(key) == \E i \in DOMAIN log : log[i].amended /\ Key(log[i]) = key

HistoryFirst ==
    \A m \in seated : \A i \in 2..Len(chan[m]) : chan[m][i].type # "history"

PanelShowsCache ==
    \A w \in Window : panel[w].state = "open" => panel[w].records = cache[w]

\* The same of a member, of what it has and what is on its way.
Has(m, key) == Carries(Base(m), chan[m], key)
Single(m, key) == Once(Base(m), chan[m], key)
WillAmend(m, key) == Amended(Base(m), chan[m], key)
Absent(m, key) == key \notin Keys(Base(m)) /\ \A i \in 1..Len(chan[m]) : ~Says(chan[m][i], key)

NothingLost == \A m \in seated : \A key \in owed[m] : BroadcastDue(key) \/ Has(m, key)

\* An event that was not announced has reached nobody.
Unannounced ==
    \A x \in Event : analysis[x] = "none" =>
       /\ EventKey(x) \notin Keys(log)
       /\ \A m \in seated : Absent(m, EventKey(x))

EventsOnce ==
    \A x \in Event :
       /\ Once(log, <<>>, EventKey(x))
       /\ \A m \in seated : Single(m, EventKey(x))

OnlyEventsAmended == \A i \in DOMAIN log : log[i].amended => log[i].kind = "event"

AmendsComing ==
    \A x \in Event : LogAmended(EventKey(x)) =>
       \/ AmendDue(EventKey(x))
       \/ \A m \in seated : EventKey(x) \in owed[m] => WillAmend(m, EventKey(x))

ChatInv ==
    /\ ChatTypeOK /\ HistoryFirst /\ PanelShowsCache /\ NothingLost /\ Unannounced /\ EventsOnce
    /\ OnlyEventsAmended /\ AmendsComing

\* What a window has kept, perhaps of an earlier connection, is not on its way to it.
Own(m, key) == Once(cache[m], chan[m], key)
Without(m, key) ==
    key \notin Keys(cache[m]) /\ \A i \in 1..Len(chan[m]) : ~Says(chan[m][i], key)

KeptOnce ==
    /\ \A m \in Member \ seated : chan[m] = <<>>
    /\ \A m \in Member, x \in Event :
          /\ Own(m, EventKey(x))
          /\ analysis[x] = "none" => Without(m, EventKey(x))

-----------------------------------------------------------------------------
(* Sequences of records *)

\* t has some of the elements of s, in the same order.
Picks(t, s) ==
    \E h \in [1..Len(t) -> 1..Len(s)] : \A i, k \in 1..Len(t) :
       t[i] = s[h[i]] /\ (i < k => h[i] < h[k])

\* A filtered sequence is a part of the sequence.
LEMMA FilteredFacts ==
  ASSUME NEW S, NEW s \in Seq(S), NEW keep
  PROVE  Filtered(s, keep) \in Seq(S) /\ Picks(Filtered(s, keep), s)
<1> DEFINE n == Len(s)
           Step(t, i) == IF s[i] \in keep THEN Append(t, s[i]) ELSE t
           Upto(g, k) == /\ g = [i \in 0..k |-> g[i]]
                         /\ g[0] = <<>>
                         /\ \A i \in 1..k : g[i] = Step(g[i - 1], i)
           Sub(t, k) == /\ t \in Seq(S)
                        /\ \E h \in [1..Len(t) -> 1..k] : \A i, j \in 1..Len(t) :
                              t[i] = s[h[i]] /\ (i < j => h[i] < h[j])
<1>1. n \in Nat
  OBVIOUS
<1>2. \E g : Upto(g, n)
  <2> DEFINE Bad == {k \in Nat : k <= n /\ \A g : ~Upto(g, k)}
  <2>1. SUFFICES Bad = {}
    <3> HIDE DEF Upto
    <3>1. QED
      BY <1>1, <2>1
  <2>2. SUFFICES ASSUME Bad # {} PROVE FALSE
    OBVIOUS
  <2>3. PICK k \in Bad : \A m \in Bad : ~(<<m, k>> \in OpToRel(<, Nat))
    BY <2>2, NatLessThanWellFounded, WFMin, Bad \subseteq Nat
  <2>4. k \in Nat /\ k <= n /\ \A g : ~Upto(g, k)
    OBVIOUS
  <2>5. k # 0
    <3>1. Upto([i \in 0..0 |-> <<>>], 0)
      OBVIOUS
    <3>2. QED
      BY <2>4, <3>1
  <2>6. k - 1 \in Nat /\ k - 1 <= n
    BY <1>1, <2>4, <2>5
  <2>7. PICK h : Upto(h, k - 1)
    <3>1. <<k - 1, k>> \in OpToRel(<, Nat)
      BY <2>4, <2>6 DEF OpToRel
    <3>2. k - 1 \notin Bad
      <4> HIDE DEF Bad
      <4>1. QED
        BY <2>3, <3>1
    <3>3. QED
      BY <2>6, <3>2
  <2>8. PICK g : g = [i \in 0..k |-> IF i = k THEN Step(h[k - 1], k) ELSE h[i]]
    OBVIOUS
  <2>9. /\ g[0] = <<>> /\ g[k] = Step(h[k - 1], k) /\ g = [i \in 0..k |-> g[i]]
        /\ \A i \in 0..k - 1 : g[i] = h[i]
    BY <2>4, <2>5, <2>6, <2>7, <2>8
  <2>10. ASSUME NEW i \in 1..k
         PROVE  g[i] = Step(g[i - 1], i)
    <3>1. CASE i = k
      <4>1. k - 1 \in 0..k - 1
        BY <2>6
      <4>2. g[k - 1] = h[k - 1]
        BY <2>9, <4>1
      <4> HIDE DEF Step
      <4>3. QED
        BY <2>9, <3>1, <4>2
    <3>2. CASE i # k
      <4>1. i \in 1..k - 1 /\ i - 1 \in 0..k - 1 /\ i \in 0..k - 1
        BY <2>6, <3>2
      <4>2. h[i] = Step(h[i - 1], i)
        BY <2>7, <4>1
      <4>3. g[i] = h[i] /\ g[i - 1] = h[i - 1]
        BY <2>9, <4>1
      <4>4. QED
        BY <4>2, <4>3
    <3>3. QED
      BY <3>1, <3>2
  <2>11. Upto(g, k)
    BY <2>9, <2>10
  <2>12. QED
    BY <2>4, <2>11
<1>3. PICK at : Upto(at, n) /\ Filtered(s, keep) = at[n]
  <2> DEFINE Steps(g) == [i \in 0..n |-> IF i = 0 THEN <<>>
                                         ELSE IF s[i] \in keep THEN Append(g[i - 1], s[i])
                                         ELSE g[i - 1]]
             a == CHOOSE g : g = Steps(g)
  <2>1. PICK g : Upto(g, n)
    BY <1>2
  <2>2. g = Steps(g)
    <3>1. ASSUME NEW i \in 0..n
          PROVE  g[i] = Steps(g)[i]
      <4>1. i # 0 => i \in 1..n
        BY <1>1
      <4>2. QED
        BY <2>1, <4>1
    <3>2. QED
      BY <2>1, <3>1
  <2>3. a = Steps(a)
    BY <2>2
  <2>4. Upto(a, n)
    <3> HIDE DEF a
    <3>1. \A i \in 0..n : a[i] = Steps(a)[i]
      BY <2>3
    <3>2. a = [i \in 0..n |-> a[i]]
      BY <2>3
    <3>3. QED
      BY <1>1, <3>1, <3>2
  <2>5. Filtered(s, keep) = a[n]
    BY DEF Filtered
  <2>6. QED
    BY <2>4, <2>5
<1>4. Sub(at[n], n)
  <2> DEFINE Bad == {k \in Nat : k <= n /\ ~Sub(at[k], k)}
  <2>1. SUFFICES Bad = {}
    <3> HIDE DEF Sub
    <3>1. QED
      BY <1>1, <2>1
  <2>2. SUFFICES ASSUME Bad # {} PROVE FALSE
    OBVIOUS
  <2>3. PICK k \in Bad : \A m \in Bad : ~(<<m, k>> \in OpToRel(<, Nat))
    BY <2>2, NatLessThanWellFounded, WFMin, Bad \subseteq Nat
  <2>4. k \in Nat /\ k <= n /\ ~Sub(at[k], k)
    OBVIOUS
  <2>5. k # 0
    <3>1. Sub(<<>>, 0)
      <4>1. <<>> \in Seq(S) /\ 1..Len(<<>>) = {}
        OBVIOUS
      <4>2. [i \in {} |-> 0] \in [{} -> 1..0]
        OBVIOUS
      <4>3. QED
        BY <4>1, <4>2
    <3>2. k = 0 => at[k] = <<>>
      BY <1>3
    <3> HIDE DEF Sub
    <3>3. QED
      BY <2>4, <3>1, <3>2
  <2>6. k - 1 \in Nat /\ k - 1 <= n /\ k \in 1..n /\ s[k] \in S
    BY <1>1, <2>4, <2>5
  <2>7. Sub(at[k - 1], k - 1)
    <3>1. <<k - 1, k>> \in OpToRel(<, Nat)
      BY <2>4, <2>6 DEF OpToRel
    <3>2. k - 1 \notin Bad
      <4> HIDE DEF Bad
      <4>1. QED
        BY <2>3, <3>1
    <3>3. QED
      BY <2>6, <3>2
  <2>8. at[k] = Step(at[k - 1], k)
    BY <1>3, <2>6
  <2>9. PICK t \in Seq(S) : t = at[k - 1]
    BY <2>7
  <2>10. PICK h \in [1..Len(t) -> 1..k - 1] : \A i, j \in 1..Len(t) :
            t[i] = s[h[i]] /\ (i < j => h[i] < h[j])
    BY <2>7, <2>9
  <2>11. CASE s[k] \in keep
    <3>1. PICK u \in Seq(S) : u = Append(t, s[k])
      <4>1. Append(t, s[k]) \in Seq(S)
        BY <2>6, <2>9
      <4>2. QED
        BY <4>1
    <3>2. /\ Len(t) \in Nat /\ Len(u) = Len(t) + 1 /\ u[Len(t) + 1] = s[k]
          /\ \A i \in 1..Len(t) : u[i] = t[i]
      BY <2>6, <3>1
    <3>3. PICK f : f = [i \in 1..Len(u) |-> IF i = Len(u) THEN k ELSE h[i]]
      OBVIOUS
    <3>4. f \in [1..Len(u) -> 1..k]
      <4>1. ASSUME NEW i \in 1..Len(u), i # Len(u) PROVE h[i] \in 1..k
        <5>1. i \in 1..Len(t)
          BY <3>2, <4>1
        <5>2. QED
          BY <2>6, <2>10, <5>1
      <4>2. k \in 1..k
        BY <2>6
      <4>3. QED
        BY <3>3, <4>1, <4>2
    <3>5. ASSUME NEW i \in 1..Len(u), NEW j \in 1..Len(u)
          PROVE  u[i] = s[f[i]] /\ (i < j => f[i] < f[j])
      <4>1. i # Len(u) => i \in 1..Len(t) /\ f[i] = h[i] /\ h[i] \in 1..k - 1
        BY <2>10, <3>2, <3>3
      <4>2. j # Len(u) => j \in 1..Len(t) /\ f[j] = h[j] /\ h[j] \in 1..k - 1
        <5>1. j # Len(u) => j \in 1..Len(t)
          BY <3>2
        <5>2. j # Len(u) => f[j] = h[j]
          BY <3>3
        <5>3. QED
          BY <5>1, <5>2
      <4>3. i = Len(u) => f[i] = k
        BY <3>3
      <4>4. j = Len(u) => f[j] = k
        BY <3>3
      <4>5. u[i] = s[f[i]]
        BY <2>10, <3>2, <4>1, <4>3
      <4>6. ASSUME i < j PROVE f[i] < f[j]
        <5>1. i # Len(u)
          BY <3>2, <4>6
        <5>2. CASE j = Len(u)
          BY <2>6, <4>1, <4>4, <5>1, <5>2
        <5>3. CASE j # Len(u)
          BY <2>10, <4>1, <4>2, <4>6, <5>1, <5>3
        <5>4. QED
          BY <5>2, <5>3
      <4>7. QED
        BY <4>5, <4>6
    <3>6. Sub(u, k)
      BY <3>4, <3>5
    <3>7. at[k] = u
      BY <2>8, <2>9, <2>11, <3>1
    <3> HIDE DEF Sub
    <3>8. QED
      BY <2>4, <3>6, <3>7
  <2>12. CASE s[k] \notin keep
    <3>1. h \in [1..Len(t) -> 1..k]
      BY <2>6, <2>10
    <3>2. Sub(t, k)
      BY <2>10, <3>1
    <3>3. at[k] = t
      BY <2>8, <2>9, <2>12
    <3> HIDE DEF Sub
    <3>4. QED
      BY <2>4, <3>2, <3>3
  <2>13. QED
    BY <2>11, <2>12
<1>5. PICK t \in Seq(S) : t = Filtered(s, keep) /\ Sub(t, n)
  <2> HIDE DEF Upto
  <2>1. QED
    BY <1>3, <1>4
<1>6. QED
  BY <1>5 DEF Picks

\* So are the last elements.
LEMMA RecentFacts ==
  ASSUME NEW S, NEW s \in Seq(S), NEW n \in Nat
  PROVE  Recent(s, n) \in Seq(S) /\ Picks(Recent(s, n), s)
<1>1. Len(s) \in Nat
  OBVIOUS
<1>2. CASE Len(s) <= n
  <2>1. Recent(s, n) = s
    BY <1>2 DEF Recent
  <2>2. PICK h : h = [i \in 1..Len(s) |-> i]
    OBVIOUS
  <2>3. h \in [1..Len(s) -> 1..Len(s)] /\ \A i \in 1..Len(s) : h[i] = i
    BY <2>2
  <2>4. Picks(s, s)
    BY <2>3 DEF Picks
  <2>5. QED
    BY <2>1, <2>4
<1>3. CASE Len(s) > n
  <2>1. PICK d \in Nat : d = Len(s) - n
    BY <1>1, <1>3
  <2>2. Recent(s, n) = SubSeq(s, d + 1, Len(s)) /\ d + 1 \in 1..Len(s) + 1
    BY <1>1, <1>3, <2>1 DEF Recent, LastOf
  <2>3. PICK t : t = SubSeq(s, d + 1, Len(s))
    OBVIOUS
  <2>4. /\ t \in Seq(S) /\ Len(t) = n
        /\ \A i \in 1..n : t[i] = s[d + i]
    <3>1. \A i \in d + 1..Len(s) : s[i] \in S
      BY <2>1
    <3>2. Len(s) - (d + 1) + 1 = n
      BY <1>1, <2>1
    <3>3. \A i \in 1..n : d + 1 + i - 1 = d + i
      BY <2>1
    <3>4. t \in Seq(S)
      BY <1>1, <2>1, <2>3, <3>1, SubSeqProperties
    <3>5. Len(t) = n
      BY <1>1, <1>3, <2>1, <2>3
    <3>6. ASSUME NEW i \in 1..n PROVE t[i] = s[d + i]
      BY <1>1, <1>3, <2>1, <2>3
    <3>7. QED
      BY <3>4, <3>5, <3>6
  <2>5. PICK h : h = [i \in 1..n |-> d + i]
    OBVIOUS
  <2>6. h \in [1..n -> 1..Len(s)] /\ \A i \in 1..n : h[i] = d + i
    BY <1>1, <1>3, <2>1, <2>5
  <2>7. Picks(t, s)
    <3>1. ASSUME NEW i \in 1..n, NEW k \in 1..n
          PROVE  t[i] = s[h[i]] /\ (i < k => h[i] < h[k])
      <4>1. h[i] = d + i /\ h[k] = d + k /\ t[i] = s[d + i]
        BY <2>4, <2>6
      <4>2. i < k => d + i < d + k
        BY <2>1
      <4>3. QED
        BY <4>1, <4>2
    <3>2. h \in [1..Len(t) -> 1..Len(s)] /\ 1..Len(t) = 1..n
      BY <2>4, <2>6
    <3>3. QED
      BY <3>1, <3>2 DEF Picks
  <2>8. QED
    BY <2>2, <2>3, <2>4, <2>7
<1>4. QED
  BY <1>1, <1>2, <1>3

\* What a part of a sequence keeps of it.
LEMMA PicksFacts ==
  ASSUME NEW s \in Seq(ChatRecord), NEW t \in Seq(ChatRecord), Picks(t, s), NEW key
  PROVE  /\ \A i \in DOMAIN t : \E k \in DOMAIN s : t[i] = s[k]
         /\ key \in Keys(t) => key \in Keys(s)
         /\ Once(s, <<>>, key) => Once(t, <<>>, key)
<1>1. PICK h \in [1..Len(t) -> 1..Len(s)] : \A i, k \in 1..Len(t) :
         t[i] = s[h[i]] /\ (i < k => h[i] < h[k])
  BY DEF Picks
<1>2. DOMAIN s = 1..Len(s) /\ DOMAIN t = 1..Len(t)
  OBVIOUS
<1>3. \A i \in DOMAIN t : \E k \in DOMAIN s : t[i] = s[k]
  BY <1>1, <1>2
<1>4. key \in Keys(t) => key \in Keys(s)
  BY <1>3 DEF Keys
<1>5. ASSUME Once(s, <<>>, key) PROVE Once(t, <<>>, key)
  <2>1. \A i \in 1..Len(<<>>) : FALSE
    OBVIOUS
  <2>2. ASSUME NEW i \in DOMAIN t, NEW k \in DOMAIN t, Key(t[i]) = key, Key(t[k]) = key
        PROVE  i = k
    <3>1. h[i] \in DOMAIN s /\ h[k] \in DOMAIN s /\ t[i] = s[h[i]] /\ t[k] = s[h[k]]
      BY <1>1, <1>2
    <3>2. h[i] = h[k]
      BY <1>5, <2>2, <3>1 DEF Once
    <3>3. ~(i < k) /\ ~(k < i) /\ i \in Int /\ k \in Int
      <4>1. h[i] \in Int
        BY <1>2, <3>1
      <4>2. (i < k => h[i] < h[k]) /\ (k < i => h[k] < h[i])
        BY <1>1, <1>2
      <4>3. QED
        BY <1>2, <3>2, <4>1, <4>2
    <3>4. QED
      BY <3>3
  <2>3. QED
    BY <2>1, <2>2 DEF Once
<1>6. QED
  BY <1>3, <1>4, <1>5

\* A patch touches the first copy of the record, in place.
LEMMA PatchedFacts ==
  ASSUME NEW s \in Seq(ChatRecord), NEW key, NEW p, p = Patched(s, key)
  PROVE  /\ p \in Seq(ChatRecord) /\ Len(p) = Len(s) /\ DOMAIN p = DOMAIN s
         /\ \A i \in DOMAIN s :
               /\ Key(p[i]) = Key(s[i]) /\ p[i].kind = s[i].kind
               /\ Key(s[i]) # key => p[i] = s[i]
         /\ Once(s, <<>>, key) => \A i \in DOMAIN s : Key(s[i]) = key => p[i].amended
<1> DEFINE at == {i \in DOMAIN s : Key(s[i]) = key}
<1>1. CASE at = {}
  BY <1>1 DEF Patched
<1>2. CASE at # {}
  <2>0. at \subseteq Nat
    <3>1. DOMAIN s = 1..Len(s) /\ Len(s) \in Nat
      OBVIOUS
    <3>2. QED
      BY <3>1
  <2>1. PICK c \in at : \A m \in at : ~(<<m, c>> \in OpToRel(<, Nat))
    <3> HIDE DEF at
    <3>1. QED
      BY <1>2, <2>0, NatLessThanWellFounded, WFMin
  <2>2. \A m \in at : c <= m
    <3> HIDE DEF at
    <3>1. c \in Nat
      BY <2>0
    <3>2. ASSUME NEW m \in at PROVE c <= m
      <4>1. m \in Nat /\ ~(m < c)
        BY <2>0, <2>1, <3>1 DEF OpToRel
      <4>2. QED
        BY <3>1, <4>1
    <3>3. QED
      BY <3>2
  <2>3. \E i \in at : \A j \in at : i <= j
    BY <2>2
  <2>4. PICK i \in at : i = CHOOSE k \in at : \A j \in at : k <= j
    BY <2>3
  <2>5. p = [s EXCEPT ![i].amended = TRUE]
    BY <1>2, <2>4 DEF Patched
  <2>6. i \in DOMAIN s /\ Key(s[i]) = key /\ s[i] \in ChatRecord /\ DOMAIN s = 1..Len(s)
    OBVIOUS
  <2>7. PICK r : r = [s[i] EXCEPT !.amended = TRUE]
    OBVIOUS
  <2>8. r \in ChatRecord /\ Key(r) = key /\ r.kind = s[i].kind /\ r.amended = TRUE
    BY <2>6, <2>7 DEF ChatRecord, UserRecord, EventRecord, Key
  <2>9. p = [s EXCEPT ![i] = r]
    BY <2>5, <2>6, <2>7
  <2>10. /\ DOMAIN p = DOMAIN s
         /\ \A k \in DOMAIN s : p[k] = IF k = i THEN r ELSE s[k]
    BY <2>9
  <2>11. p \in Seq(ChatRecord) /\ Len(p) = Len(s)
    BY <2>6, <2>8, <2>9
  <2>12. Once(s, <<>>, key) => \A k \in DOMAIN s : Key(s[k]) = key => p[k].amended
    BY <2>6, <2>8, <2>10 DEF Once
  <2>13. \A k \in DOMAIN s :
            /\ Key(p[k]) = Key(s[k]) /\ p[k].kind = s[k].kind
            /\ Key(s[k]) # key => p[k] = s[k]
    BY <2>6, <2>8, <2>10
  <2>14. QED
    BY <2>10, <2>11, <2>12, <2>13
<1>3. QED
  BY <1>1, <1>2

-----------------------------------------------------------------------------
(* A frame is sent *)

LEMMA AppendFrame ==
  ASSUME NEW q \in Seq(Frames), NEW f \in Frames
  PROVE  /\ Append(q, f) \in Seq(Frames)
         /\ Len(q) \in Nat /\ Len(Append(q, f)) = Len(q) + 1
         /\ Append(q, f)[Len(q) + 1] = f /\ \A i \in 1..Len(q) : Append(q, f)[i] = q[i]
  OBVIOUS

LEMMA BaseStays ==
  ASSUME NEW c, NEW q \in Seq(Frames), NEW f \in Frames, f.type # "history"
  PROVE  /\ BaseOf(c, Append(q, f)) = BaseOf(c, q)
         /\ (\A i \in 2..Len(q) : q[i].type # "history") =>
               \A i \in 2..Len(Append(q, f)) : Append(q, f)[i].type # "history"
<1>1. PICK r \in Seq(Frames) : r = Append(q, f)
  BY AppendFrame
<1>2. /\ Len(q) \in Nat /\ Len(r) = Len(q) + 1
      /\ r[Len(q) + 1] = f /\ \A i \in 1..Len(q) : r[i] = q[i]
  BY <1>1, AppendFrame
<1>3. r # <<>> /\ Head(r) = r[1]
  BY <1>2
<1>4. BaseOf(c, r) = BaseOf(c, q)
  <2>1. CASE q = <<>>
    <3>1. Head(r) = f
      BY <1>2, <1>3, <2>1
    <3>2. QED
      BY <1>3, <2>1, <3>1 DEF BaseOf
  <2>2. CASE q # <<>>
    <3>1. 1 \in 1..Len(q) /\ Head(q) = q[1]
      BY <1>2, <2>2
    <3>2. Head(r) = Head(q)
      BY <1>2, <1>3, <3>1
    <3>3. QED
      BY <1>3, <2>2, <3>2 DEF BaseOf
  <2>3. QED
    BY <2>1, <2>2
<1>5. ASSUME \A i \in 2..Len(q) : q[i].type # "history", NEW i \in 2..Len(r)
      PROVE  r[i].type # "history"
  <2>1. CASE i = Len(q) + 1
    BY <1>2, <2>1
  <2>2. CASE i # Len(q) + 1
    <3>1. i \in 2..Len(q) /\ i \in 1..Len(q)
      BY <1>2, <2>2
    <3>2. QED
      BY <1>2, <1>5, <3>1
  <2>3. QED
    BY <2>1, <2>2
<1>6. QED
  BY <1>1, <1>4, <1>5

LEMMA CarriesStays ==
  ASSUME NEW b, NEW q \in Seq(Frames), NEW f \in Frames, NEW key
  PROVE  /\ Carries(b, q, key) /\ f.type # "emptied" => Carries(b, Append(q, f), key)
         /\ Says(f, key) => Carries(b, Append(q, f), key)
<1>1. PICK r \in Seq(Frames) : r = Append(q, f)
  BY AppendFrame
<1>2. /\ Len(q) \in Nat /\ Len(r) = Len(q) + 1
      /\ r[Len(q) + 1] = f /\ \A i \in 1..Len(q) : r[i] = q[i]
  BY <1>1, AppendFrame
<1>3. ASSUME NEW i \in 1..Len(r) PROVE r[i] = f \/ (i \in 1..Len(q) /\ r[i] = q[i])
  BY <1>2
<1>4. ASSUME Carries(b, q, key), f.type # "emptied" PROVE Carries(b, r, key)
  <2>1. CASE key \in Keys(b) /\ \A i \in 1..Len(q) : q[i].type # "emptied"
    <3>1. \A i \in 1..Len(r) : r[i].type # "emptied"
      BY <1>3, <1>4, <2>1
    <3>2. QED
      BY <2>1, <3>1 DEF Carries
  <2>2. ASSUME NEW i \in 1..Len(q), Says(q[i], key),
               \A k \in i + 1..Len(q) : q[k].type # "emptied"
        PROVE  Carries(b, r, key)
    <3>1. i \in 1..Len(r) /\ Says(r[i], key)
      BY <1>2, <2>2
    <3>2. ASSUME NEW k \in i + 1..Len(r) PROVE r[k].type # "emptied"
      <4>1. k \in 1..Len(r) /\ (k \in 1..Len(q) => k \in i + 1..Len(q))
        BY <1>2
      <4>2. QED
        BY <1>3, <1>4, <2>2, <4>1
    <3>3. QED
      BY <3>1, <3>2 DEF Carries
  <2>3. QED
    BY <1>4, <2>1, <2>2 DEF Carries
<1>5. ASSUME Says(f, key) PROVE Carries(b, r, key)
  <2>1. Len(r) \in 1..Len(r) /\ r[Len(r)] = f /\ Len(r) + 1..Len(r) = {}
    BY <1>2
  <2>2. QED
    BY <1>5, <2>1 DEF Carries
<1>6. QED
  BY <1>1, <1>4, <1>5

LEMMA OnceStays ==
  ASSUME NEW b, NEW q \in Seq(Frames), NEW f \in Frames, NEW key
  PROVE  /\ Once(b, q, key) /\ ~Says(f, key) => Once(b, Append(q, f), key)
         /\ key \notin Keys(b) /\ (\A i \in 1..Len(q) : ~Says(q[i], key)) =>
               Once(b, Append(q, f), key)
<1>1. PICK r \in Seq(Frames) : r = Append(q, f)
  BY AppendFrame
<1>2. /\ Len(q) \in Nat /\ Len(r) = Len(q) + 1
      /\ r[Len(q) + 1] = f /\ \A i \in 1..Len(q) : r[i] = q[i]
  BY <1>1, AppendFrame
<1>3. ASSUME NEW i \in 1..Len(r)
      PROVE  (i = Len(q) + 1 /\ r[i] = f) \/ (i \in 1..Len(q) /\ r[i] = q[i])
  BY <1>2
<1>4. ASSUME Once(b, q, key), ~Says(f, key) PROVE Once(b, r, key)
  <2>1. ASSUME NEW i \in 1..Len(r), Says(r[i], key)
        PROVE  key \notin Keys(b) /\ \A k \in 1..Len(r) : Says(r[k], key) => k = i
    BY <1>3, <1>4, <2>1 DEF Once
  <2>2. QED
    BY <1>4, <2>1 DEF Once
<1>5. ASSUME key \notin Keys(b), \A i \in 1..Len(q) : ~Says(q[i], key)
      PROVE  Once(b, r, key)
  <2>1. ASSUME NEW i \in 1..Len(r), Says(r[i], key)
        PROVE  i = Len(q) + 1
    BY <1>3, <1>5, <2>1
  <2>2. \A i \in DOMAIN b : Key(b[i]) # key
    BY <1>5 DEF Keys
  <2>3. QED
    BY <1>5, <2>1, <2>2 DEF Once
<1>6. QED
  BY <1>1, <1>4, <1>5

LEMMA AmendedStays ==
  ASSUME NEW b, NEW q \in Seq(Frames), NEW f \in Frames, NEW key
  PROVE  /\ Amended(b, q, key) /\ ~Says(f, key) => Amended(b, Append(q, f), key)
         /\ Amends(f, key) => Amended(b, Append(q, f), key)
<1>1. PICK r \in Seq(Frames) : r = Append(q, f)
  BY AppendFrame
<1>2. /\ Len(q) \in Nat /\ Len(r) = Len(q) + 1
      /\ r[Len(q) + 1] = f /\ \A i \in 1..Len(q) : r[i] = q[i]
  BY <1>1, AppendFrame
<1>3. ASSUME NEW i \in 1..Len(r)
      PROVE  (i = Len(q) + 1 /\ r[i] = f) \/ (i \in 1..Len(q) /\ r[i] = q[i])
  BY <1>2
<1>4. ASSUME Amended(b, q, key), ~Says(f, key) PROVE Amended(b, r, key)
  <2>1. ASSUME NEW i \in 0..Len(q), NEW k \in i + 1..Len(q), Amends(q[k], key)
        PROVE  \E n \in i + 1..Len(r) : Amends(r[n], key)
    <3>1. k \in i + 1..Len(r) /\ r[k] = q[k]
      BY <1>2
    <3>2. QED
      BY <2>1, <3>1
  <2>2. ASSUME NEW i \in DOMAIN b, Key(b[i]) = key
        PROVE  b[i].amended \/ \E k \in 1..Len(r) : Amends(r[k], key)
    <3>1. 0 \in 0..Len(q) /\ 0 + 1 = 1
      BY <1>2
    <3>2. QED
      BY <1>4, <2>1, <2>2, <3>1 DEF Amended
  <2>3. ASSUME NEW i \in 1..Len(r), Says(r[i], key)
        PROVE  r[i].arg.amended \/ \E k \in i + 1..Len(r) : Amends(r[k], key)
    <3>1. i \in 1..Len(q) /\ r[i] = q[i] /\ i \in 0..Len(q)
      BY <1>2, <1>3, <1>4, <2>3
    <3>2. QED
      BY <1>4, <2>1, <2>3, <3>1 DEF Amended
  <2>4. QED
    BY <2>2, <2>3 DEF Amended
<1>5. ASSUME Amends(f, key) PROVE Amended(b, r, key)
  <2>1. Amends(r[Len(r)], key) /\ Len(r) \in 1..Len(r)
    BY <1>2, <1>5
  <2>2. ASSUME NEW i \in 1..Len(r), Says(r[i], key) PROVE Len(r) \in i + 1..Len(r)
    <3>1. i # Len(r)
      BY <2>1, <2>2 DEF Says, Amends
    <3>2. QED
      BY <1>2, <3>1
  <2>3. QED
    BY <2>1, <2>2 DEF Amended
<1>6. QED
  BY <1>1, <1>4, <1>5

-----------------------------------------------------------------------------
(* A frame is delivered *)

\* The cache of a member that reads the frame.
Reading(c, f) ==
    CASE f.type = "history" -> f.arg
      [] f.type = "chat"    -> Append(c, f.arg)
      [] f.type = "amend"   -> Patched(c, f.arg)
      [] f.type = "emptied" -> <<>>

LEMMA FrameCases ==
  ASSUME NEW f \in Frames
  PROVE  \/ f.type = "history" /\ f.arg \in Seq(ChatRecord)
         \/ f.type = "chat" /\ f.arg \in ChatRecord
         \/ f.type = "amend" /\ f.arg \in {"event"} \X Event
         \/ f.type = "emptied"
  BY DEF Frames

LEMMA AppendRecord ==
  ASSUME NEW s \in Seq(ChatRecord), NEW r \in ChatRecord, NEW t, t = Append(s, r)
  PROVE  /\ t \in Seq(ChatRecord) /\ Len(s) \in Nat
         /\ DOMAIN s = 1..Len(s) /\ DOMAIN t = 1..Len(s) + 1
         /\ t[Len(s) + 1] = r /\ \A i \in 1..Len(s) : t[i] = s[i]
  OBVIOUS

LEMMA ReadingType ==
  ASSUME NEW c \in Seq(ChatRecord), NEW f \in Frames
  PROVE  Reading(c, f) \in Seq(ChatRecord)
<1>1. CASE f.type = "history" /\ f.arg \in Seq(ChatRecord)
  BY <1>1 DEF Reading
<1>2. CASE f.type = "chat" /\ f.arg \in ChatRecord
  <2>1. Append(c, f.arg) \in Seq(ChatRecord)
    BY <1>2
  <2>2. QED
    BY <1>2, <2>1 DEF Reading
<1>3. CASE f.type = "amend" /\ f.arg \in {"event"} \X Event
  <2>1. PICK p : p = Patched(c, f.arg)
    OBVIOUS
  <2>2. p \in Seq(ChatRecord)
    BY <2>1, PatchedFacts
  <2>3. QED
    BY <1>3, <2>1, <2>2 DEF Reading
<1>4. CASE f.type = "emptied"
  BY <1>4 DEF Reading
<1>5. QED
  BY <1>1, <1>2, <1>3, <1>4, FrameCases

\* What is left to read.
LEMMA TailFrames ==
  ASSUME NEW q \in Seq(Frames), q # <<>>
  PROVE  /\ Tail(q) \in Seq(Frames) /\ Head(q) = q[1] /\ Head(q) \in Frames
         /\ Len(q) \in Nat \ {0} /\ Len(Tail(q)) = Len(q) - 1
         /\ \A i \in 1..Len(Tail(q)) : Tail(q)[i] = q[i + 1]
  OBVIOUS

LEMMA TailHistory ==
  ASSUME NEW q \in Seq(Frames), q # <<>>,
         \A i \in 2..Len(q) : q[i].type # "history",
         NEW d
  PROVE  /\ BaseOf(d, Tail(q)) = d
         /\ \A i \in 2..Len(Tail(q)) : Tail(q)[i].type # "history"
<1>1. PICK r \in Seq(Frames) : r = Tail(q)
  BY TailFrames
<1>2. Len(q) \in Nat \ {0} /\ Len(r) = Len(q) - 1 /\ \A i \in 1..Len(r) : r[i] = q[i + 1]
  BY <1>1, TailFrames
<1>3. ASSUME NEW i \in 1..Len(r) PROVE r[i].type # "history"
  <2>1. r[i] = q[i + 1] /\ i + 1 \in 2..Len(q)
    BY <1>2
  <2>2. QED
    BY <2>1
<1>4. BaseOf(d, r) = d
  <2>1. CASE r = <<>>
    BY <2>1 DEF BaseOf
  <2>2. CASE r # <<>>
    <3>1. Head(r) = r[1] /\ 1 \in 1..Len(r)
      BY <2>2
    <3>2. QED
      BY <1>3, <2>2, <3>1 DEF BaseOf
  <2>3. QED
    BY <2>1, <2>2
<1>5. \A i \in 2..Len(r) : r[i].type # "history"
  BY <1>2, <1>3
<1>6. QED
  BY <1>1, <1>4, <1>5

\* The keys of what a member has read, by the kind of the frame.
LEMMA ReadingKeys ==
  ASSUME NEW c \in Seq(ChatRecord), NEW f \in Frames, NEW key, f.type # "history"
  PROVE  key \in Keys(Reading(c, f)) <=>
            \/ f.type # "emptied" /\ key \in Keys(c)
            \/ Says(f, key)
<1>1. CASE f.type = "chat" /\ f.arg \in ChatRecord
  <2>1. PICK d \in Seq(ChatRecord) : d = Append(c, f.arg)
    <3>1. Append(c, f.arg) \in Seq(ChatRecord)
      BY <1>1
    <3>2. QED
      BY <3>1
  <2>2. /\ DOMAIN c = 1..Len(c) /\ DOMAIN d = 1..Len(c) + 1 /\ Len(c) \in Nat
        /\ d[Len(c) + 1] = f.arg /\ \A i \in 1..Len(c) : d[i] = c[i]
    BY <1>1, <2>1
  <2>3. key \in Keys(d) <=> key \in Keys(c) \/ key = Key(f.arg)
    <3>1. ASSUME NEW i \in DOMAIN d PROVE Key(d[i]) \in Keys(c) \/ Key(d[i]) = Key(f.arg)
      <4>1. i = Len(c) + 1 \/ i \in 1..Len(c)
        BY <2>2
      <4>2. QED
        BY <2>2, <4>1 DEF Keys
    <3>2. ASSUME NEW i \in DOMAIN c PROVE Key(c[i]) \in Keys(d)
      <4>1. i \in DOMAIN d /\ d[i] = c[i]
        BY <2>2
      <4>2. QED
        BY <4>1 DEF Keys
    <3>3. Key(f.arg) \in Keys(d)
      <4>1. Len(c) + 1 \in DOMAIN d
        BY <2>2
      <4>2. QED
        BY <2>2, <4>1 DEF Keys
    <3>4. key \in Keys(d) => key \in Keys(c) \/ key = Key(f.arg)
      BY <3>1 DEF Keys
    <3>5. key \in Keys(c) => key \in Keys(d)
      BY <3>2 DEF Keys
    <3>6. QED
      BY <3>3, <3>4, <3>5
  <2>4. Reading(c, f) = d /\ f.type # "emptied" /\ (Says(f, key) <=> key = Key(f.arg))
    BY <1>1, <2>1 DEF Reading, Says
  <2>5. QED
    BY <2>3, <2>4
<1>2. CASE f.type = "amend" /\ f.arg \in {"event"} \X Event
  <2>1. PICK p : p = Patched(c, f.arg)
    OBVIOUS
  <2>2. DOMAIN p = DOMAIN c /\ \A i \in DOMAIN c : Key(p[i]) = Key(c[i])
    BY <2>1, PatchedFacts
  <2>3. Keys(p) = Keys(c)
    BY <2>2 DEF Keys
  <2>4. Reading(c, f) = p /\ f.type # "emptied" /\ ~Says(f, key)
    BY <1>2, <2>1 DEF Reading, Says
  <2>5. QED
    BY <2>3, <2>4
<1>3. CASE f.type = "emptied"
  <2>1. Reading(c, f) = <<>> /\ ~Says(f, key)
    BY <1>3 DEF Reading, Says
  <2>2. key \notin Keys(<<>>)
    BY DEF Keys
  <2>3. QED
    BY <1>3, <2>1, <2>2
<1>4. QED
  BY <1>1, <1>2, <1>3, FrameCases

\* What a member has read is its base with the first frame read, or the base itself when the
\* frame is the history.
LEMMA ReadingBase ==
  ASSUME NEW c \in Seq(ChatRecord), NEW q \in Seq(Frames), q # <<>>,
         NEW b, b = BaseOf(c, q), NEW f, f = Head(q), NEW d, d = Reading(c, f)
  PROVE  /\ f \in Frames /\ b \in Seq(ChatRecord) /\ d \in Seq(ChatRecord)
         /\ f.type = "history" => d = b
         /\ f.type # "history" => d = Reading(b, f)
<1>1. f \in Frames
  BY TailFrames
<1>2. d \in Seq(ChatRecord)
  BY <1>1, ReadingType
<1>3. CASE f.type = "history"
  BY <1>1, <1>2, <1>3 DEF BaseOf, Reading
<1>4. CASE f.type # "history"
  BY <1>1, <1>2, <1>4 DEF BaseOf
<1>5. QED
  BY <1>1, <1>2, <1>3, <1>4

LEMMA DeliverKeys ==
  ASSUME NEW c \in Seq(ChatRecord), NEW q \in Seq(Frames), q # <<>>,
         NEW b, b = BaseOf(c, q), NEW f, f = Head(q), NEW d, d = Reading(c, f), NEW key
  PROVE  key \in Keys(d) <=> (f.type # "emptied" /\ key \in Keys(b)) \/ Says(f, key)
<1>2. /\ f \in Frames /\ b \in Seq(ChatRecord)
      /\ f.type = "history" => d = b
      /\ f.type # "history" => d = Reading(b, f)
  <2>1. f \in Frames /\ b \in Seq(ChatRecord)
    BY ReadingBase
  <2>2. f.type = "history" => d = b
    BY ReadingBase
  <2>3. f.type # "history" => d = Reading(b, f)
    BY ReadingBase
  <2>4. QED
    BY <2>1, <2>2, <2>3
<1>3. CASE f.type = "history"
  BY <1>2, <1>3 DEF Says
<1>4. CASE f.type # "history"
  <2>1. key \in Keys(Reading(b, f)) <=> \/ f.type # "emptied" /\ key \in Keys(b)
                                       \/ Says(f, key)
    BY <1>2, <1>4, ReadingKeys
  <2>2. QED
    BY <1>2, <1>4, <2>1
<1>5. QED
  BY <1>3, <1>4

LEMMA DeliverCarries ==
  ASSUME NEW c \in Seq(ChatRecord), NEW q \in Seq(Frames), q # <<>>,
         NEW b, b = BaseOf(c, q), NEW f, f = Head(q), NEW d, d = Reading(c, f), NEW key,
         Carries(b, q, key)
  PROVE  Carries(d, Tail(q), key)
<1>1. PICK r \in Seq(Frames) : r = Tail(q)
  BY TailFrames
<1>2. /\ Head(q) = q[1] /\ Len(q) \in Nat \ {0} /\ Len(r) = Len(q) - 1
      /\ \A i \in 1..Len(r) : r[i] = q[i + 1]
  BY <1>1, TailFrames
<1>3. key \in Keys(d) <=> (q[1].type # "emptied" /\ key \in Keys(b)) \/ Says(q[1], key)
  <2>1. key \in Keys(d) <=> (f.type # "emptied" /\ key \in Keys(b)) \/ Says(f, key)
    BY DeliverKeys
  <2>2. QED
    BY <1>2, <2>1
<1>4. ASSUME NEW i \in 1..Len(q), \A k \in i + 1..Len(q) : q[k].type # "emptied",
             NEW k \in i..Len(r)
      PROVE  r[k].type # "emptied"
  <2>1. k + 1 \in i + 1..Len(q) /\ k \in 1..Len(r)
    BY <1>2
  <2>2. QED
    BY <1>2, <1>4, <2>1
<1>5. CASE key \in Keys(b) /\ \A i \in 1..Len(q) : q[i].type # "emptied"
  <2>1. 1 \in 1..Len(q)
    BY <1>2
  <2>2. key \in Keys(d)
    BY <1>3, <1>5, <2>1
  <2>3. ASSUME NEW k \in 1..Len(r) PROVE r[k].type # "emptied"
    <3>1. k + 1 \in 1..Len(q)
      BY <1>2
    <3>2. QED
      BY <1>2, <1>5, <3>1
  <2>4. QED
    BY <1>1, <2>2, <2>3 DEF Carries
<1>6. ASSUME NEW i \in 1..Len(q), Says(q[i], key),
             \A k \in i + 1..Len(q) : q[k].type # "emptied"
      PROVE  Carries(d, r, key)
  <2>1. CASE i = 1
    <3>1. key \in Keys(d)
      BY <1>3, <1>6, <2>1
    <3>2. \A k \in 1..Len(r) : r[k].type # "emptied"
      BY <1>4, <1>6, <2>1
    <3>3. QED
      BY <3>1, <3>2 DEF Carries
  <2>2. CASE i # 1
    <3>1. PICK n \in 1..Len(r) : n + 1 = i
      <4>1. i - 1 \in 1..Len(r) /\ i - 1 + 1 = i
        BY <1>2, <2>2
      <4>2. QED
        BY <4>1
    <3>2. Says(r[n], key)
      BY <1>2, <1>6, <3>1
    <3>3. \A k \in n + 1..Len(r) : r[k].type # "emptied"
      BY <1>4, <1>6, <3>1
    <3>4. QED
      BY <3>2, <3>3 DEF Carries
  <2>3. QED
    BY <2>1, <2>2
<1>7. QED
  BY <1>1, <1>5, <1>6 DEF Carries

LEMMA DeliverOnce ==
  ASSUME NEW c \in Seq(ChatRecord), NEW q \in Seq(Frames), q # <<>>,
         NEW b, b = BaseOf(c, q), NEW f, f = Head(q), NEW d, d = Reading(c, f), NEW key,
         Once(b, q, key)
  PROVE  Once(d, Tail(q), key)
<1>1. PICK r \in Seq(Frames) : r = Tail(q)
  BY TailFrames
<1>2. /\ Head(q) = q[1] /\ Len(q) \in Nat \ {0} /\ Len(r) = Len(q) - 1
      /\ \A i \in 1..Len(r) : r[i] = q[i + 1]
  BY <1>1, TailFrames
<1>3. key \in Keys(d) => key \in Keys(b) \/ Says(q[1], key)
  BY <1>2, DeliverKeys
<1>4. f = q[1]
  BY <1>2
<1>5. /\ f \in Frames /\ b \in Seq(ChatRecord) /\ d \in Seq(ChatRecord)
      /\ f.type = "history" => d = b
      /\ f.type # "history" => d = Reading(b, f)
  <2>1. f \in Frames /\ b \in Seq(ChatRecord) /\ d \in Seq(ChatRecord)
    BY ReadingBase
  <2>2. f.type = "history" => d = b
    BY ReadingBase
  <2>3. f.type # "history" => d = Reading(b, f)
    BY ReadingBase
  <2>4. QED
    BY <2>1, <2>2, <2>3
<1>6. Says(f, key) => key \notin Keys(b)
  <2>1. 1 \in 1..Len(q)
    BY <1>2
  <2>2. QED
    BY <1>4, <2>1 DEF Once
<1>7. ASSUME NEW i \in DOMAIN d, NEW k \in DOMAIN d, Key(d[i]) = key, Key(d[k]) = key
      PROVE  i = k
  <2>1. CASE f.type = "history"
    BY <1>5, <1>7, <2>1 DEF Once
  <2>2. CASE f.type = "chat" /\ f.arg \in ChatRecord
    <3>1. d = Append(b, f.arg)
      BY <1>5, <2>2 DEF Reading
    <3>2. /\ DOMAIN b = 1..Len(b) /\ DOMAIN d = 1..Len(b) + 1 /\ Len(b) \in Nat
          /\ d[Len(b) + 1] = f.arg /\ \A n \in 1..Len(b) : d[n] = b[n]
      <4>1. b \in Seq(ChatRecord)
        BY <1>5
      <4>2. PICK a \in ChatRecord : a = f.arg
        BY <2>2
      <4>3. d = Append(b, a)
        BY <3>1, <4>2
      <4>4. DOMAIN b = 1..Len(b) /\ DOMAIN d = 1..Len(b) + 1
        BY <4>1, <4>3, AppendRecord
      <4>5. Len(b) \in Nat
        BY <4>1
      <4>6. d[Len(b) + 1] = a
        BY <4>1, <4>3, AppendRecord
      <4>7. ASSUME NEW n \in 1..Len(b) PROVE d[n] = b[n]
        BY <4>1, <4>3
      <4>8. QED
        BY <4>2, <4>4, <4>5, <4>6, <4>7
    <3>3. ASSUME NEW n \in DOMAIN d
          PROVE  n = Len(b) + 1 \/ (n \in DOMAIN b /\ d[n] = b[n])
      BY <3>2
    <3>4. CASE Says(f, key)
      <4>1. \A n \in DOMAIN b : Key(b[n]) # key
        BY <1>6, <3>4 DEF Keys
      <4>2. i = Len(b) + 1 /\ k = Len(b) + 1
        BY <1>7, <3>3, <4>1
      <4>3. QED
        BY <4>2
    <3>5. CASE ~Says(f, key)
      <4>1. Key(d[Len(b) + 1]) # key
        BY <2>2, <3>2, <3>5 DEF Says
      <4>2. i \in DOMAIN b /\ k \in DOMAIN b /\ d[i] = b[i] /\ d[k] = b[k]
        BY <1>7, <3>3, <4>1
      <4>3. QED
        BY <1>7, <4>2 DEF Once
    <3>6. QED
      BY <3>4, <3>5
  <2>3. CASE f.type = "amend" /\ f.arg \in {"event"} \X Event
    <3>1. d = Patched(b, f.arg)
      BY <1>5, <2>3 DEF Reading
    <3>2. DOMAIN d = DOMAIN b /\ \A n \in DOMAIN b : Key(d[n]) = Key(b[n])
      BY <1>5, <3>1, PatchedFacts
    <3>3. QED
      BY <1>7, <3>2 DEF Once
  <2>4. CASE f.type = "emptied"
    <3>1. d = <<>>
      BY <1>5, <2>4 DEF Reading
    <3>2. QED
      BY <1>7, <3>1
  <2>5. QED
    BY <2>1, <2>2, <2>3, <2>4, FrameCases
<1>8. ASSUME NEW i \in 1..Len(r), Says(r[i], key)
      PROVE  key \notin Keys(d) /\ \A k \in 1..Len(r) : Says(r[k], key) => k = i
  <2>1. i + 1 \in 1..Len(q) /\ Says(q[i + 1], key) /\ 1 \in 1..Len(q) /\ i + 1 # 1
    BY <1>2, <1>8
  <2>2. key \notin Keys(b) /\ ~Says(q[1], key)
    BY <2>1 DEF Once
  <2>3. ASSUME NEW k \in 1..Len(r), Says(r[k], key) PROVE k = i
    <3>1. k + 1 \in 1..Len(q) /\ Says(q[k + 1], key)
      BY <1>2, <2>3
    <3>2. k + 1 = i + 1
      BY <2>1, <3>1 DEF Once
    <3>3. QED
      BY <1>2, <3>2
  <2>4. QED
    BY <1>3, <2>2, <2>3
<1>9. QED
  BY <1>1, <1>7, <1>8 DEF Once

LEMMA DeliverAmended ==
  ASSUME NEW c \in Seq(ChatRecord), NEW q \in Seq(Frames), q # <<>>,
         NEW b, b = BaseOf(c, q), NEW f, f = Head(q), NEW d, d = Reading(c, f), NEW key,
         Once(b, q, key), Amended(b, q, key)
  PROVE  Amended(d, Tail(q), key)
<1>1. PICK r \in Seq(Frames) : r = Tail(q)
  BY TailFrames
<1>2. /\ Head(q) = q[1] /\ Len(q) \in Nat \ {0} /\ Len(r) = Len(q) - 1
      /\ \A i \in 1..Len(r) : r[i] = q[i + 1]
  BY <1>1, TailFrames
<1>4. f = q[1]
  BY <1>2
<1>5. /\ f \in Frames /\ b \in Seq(ChatRecord) /\ d \in Seq(ChatRecord)
      /\ f.type = "history" => d = b
      /\ f.type # "history" => d = Reading(b, f)
  <2>1. f \in Frames /\ b \in Seq(ChatRecord) /\ d \in Seq(ChatRecord)
    BY ReadingBase
  <2>2. f.type = "history" => d = b
    BY ReadingBase
  <2>3. f.type # "history" => d = Reading(b, f)
    BY ReadingBase
  <2>4. QED
    BY <2>1, <2>2, <2>3
<1>6. ASSUME NEW i \in 1..Len(q), NEW k \in i + 1..Len(q), Amends(q[k], key)
      PROVE  \E n \in i..Len(r) : Amends(r[n], key)
  <2>1. k - 1 \in i..Len(r) /\ r[k - 1] = q[k]
    <3>1. k - 1 \in i..Len(r) /\ k - 1 \in 1..Len(r) /\ k - 1 + 1 = k
      BY <1>2
    <3>2. r[k - 1] = q[k - 1 + 1]
      BY <1>2, <3>1
    <3>3. QED
      BY <3>1, <3>2
  <2>2. QED
    BY <1>6, <2>1
<1>7. 1 \in 1..Len(q)
  BY <1>2
<1>8. ASSUME ~Amends(f, key), NEW i \in DOMAIN b, Key(b[i]) = key
      PROVE  b[i].amended \/ \E n \in 1..Len(r) : Amends(r[n], key)
  <2>1. ASSUME ~b[i].amended PROVE \E n \in 1..Len(r) : Amends(r[n], key)
    <3>1. PICK k \in 1..Len(q) : Amends(q[k], key)
      BY <1>8, <2>1 DEF Amended
    <3>2. k \in 1 + 1..Len(q)
      BY <1>2, <1>4, <1>8, <3>1
    <3>3. QED
      BY <1>6, <1>7, <3>1, <3>2
  <2>2. QED
    BY <2>1
<1>9. ASSUME NEW i \in DOMAIN d, Key(d[i]) = key
      PROVE  d[i].amended \/ \E n \in 1..Len(r) : Amends(r[n], key)
  <2>1. CASE f.type = "history"
    <3>1. ~Amends(f, key)
      BY <2>1 DEF Amends
    <3>2. QED
      BY <1>5, <1>8, <1>9, <2>1, <3>1
  <2>2. CASE f.type = "chat" /\ f.arg \in ChatRecord
    <3>0. ~Amends(f, key)
      BY <2>2 DEF Amends
    <3>1. d = Append(b, f.arg)
      BY <1>5, <2>2 DEF Reading
    <3>2. /\ DOMAIN b = 1..Len(b) /\ DOMAIN d = 1..Len(b) + 1 /\ Len(b) \in Nat
          /\ d[Len(b) + 1] = f.arg /\ \A n \in 1..Len(b) : d[n] = b[n]
      <4>1. b \in Seq(ChatRecord)
        BY <1>5
      <4>2. PICK a \in ChatRecord : a = f.arg
        BY <2>2
      <4>3. d = Append(b, a)
        BY <3>1, <4>2
      <4>4. DOMAIN b = 1..Len(b) /\ DOMAIN d = 1..Len(b) + 1
        BY <4>1, <4>3, AppendRecord
      <4>5. Len(b) \in Nat
        BY <4>1
      <4>6. d[Len(b) + 1] = a
        BY <4>1, <4>3, AppendRecord
      <4>7. ASSUME NEW n \in 1..Len(b) PROVE d[n] = b[n]
        BY <4>1, <4>3
      <4>8. QED
        BY <4>2, <4>4, <4>5, <4>6, <4>7
    <3>3. CASE i = Len(b) + 1
      <4>1. Says(q[1], key) /\ d[i] = q[1].arg
        BY <1>4, <1>9, <2>2, <3>2, <3>3 DEF Says
      <4>2. d[i].amended \/ \E k \in 1 + 1..Len(q) : Amends(q[k], key)
        BY <1>7, <4>1 DEF Amended
      <4>3. QED
        BY <1>6, <1>7, <4>2
    <3>4. CASE i # Len(b) + 1
      <4>1. i \in DOMAIN b /\ d[i] = b[i]
        BY <3>2, <3>4
      <4>2. QED
        BY <1>8, <1>9, <3>0, <4>1
    <3>5. QED
      BY <3>3, <3>4
  <2>3. CASE f.type = "amend" /\ f.arg \in {"event"} \X Event
    <3>1. d = Patched(b, f.arg)
      BY <1>5, <2>3 DEF Reading
    <3>2. Once(b, <<>>, key)
      BY DEF Once
    <3>3. /\ DOMAIN d = DOMAIN b
          /\ \A n \in DOMAIN b : Key(d[n]) = Key(b[n]) /\ (Key(b[n]) # f.arg => d[n] = b[n])
      BY <1>5, <3>1, PatchedFacts
    <3>4. CASE f.arg = key
      <4>1. d[i].amended
        <5>1. \A n \in DOMAIN b : Key(b[n]) = key => d[n].amended
          BY <1>5, <3>1, <3>2, <3>4, PatchedFacts
        <5>2. QED
          BY <1>9, <3>3, <5>1
      <4>2. QED
        BY <4>1
    <3>5. CASE f.arg # key
      <4>1. i \in DOMAIN b /\ Key(b[i]) = key /\ d[i] = b[i] /\ ~Amends(f, key)
        BY <1>9, <3>3, <3>5 DEF Amends
      <4>2. QED
        BY <1>8, <4>1
    <3>6. QED
      BY <3>4, <3>5
  <2>4. CASE f.type = "emptied"
    <3>1. d = <<>>
      BY <1>5, <2>4 DEF Reading
    <3>2. QED
      BY <1>9, <3>1
  <2>5. QED
    BY <2>1, <2>2, <2>3, <2>4, FrameCases
<1>10. ASSUME NEW i \in 1..Len(r), Says(r[i], key)
       PROVE  r[i].arg.amended \/ \E n \in i + 1..Len(r) : Amends(r[n], key)
  <2>1. i + 1 \in 1..Len(q) /\ r[i] = q[i + 1]
    BY <1>2
  <2>2. r[i].arg.amended \/ \E k \in i + 1 + 1..Len(q) : Amends(q[k], key)
    BY <1>10, <2>1 DEF Amended
  <2>3. QED
    BY <1>6, <2>1, <2>2
<1>11. QED
  BY <1>1, <1>9, <1>10 DEF Amended

-----------------------------------------------------------------------------
(* The same, of the members of a session *)

LEMMA BaseType ==
  ASSUME ChatTypeOK, NEW m \in Member
  PROVE  /\ cache[m] \in Seq(ChatRecord) /\ chan[m] \in Seq(Frames)
         /\ Heard(m) \in Seq(ChatRecord) /\ Base(m) \in Seq(ChatRecord)
<1>1. cache[m] \in Seq(ChatRecord) /\ chan[m] \in Seq(Frames)
  BY DEF ChatTypeOK, Window
<1>2. Heard(m) \in Seq(ChatRecord)
  <2>1. <<>> \in Seq(ChatRecord)
    OBVIOUS
  <2>2. QED
    BY <1>1, <2>1 DEF Heard
<1>3. PICK c \in Seq(ChatRecord), q \in Seq(Frames) : c = Heard(m) /\ q = chan[m]
  BY <1>1, <1>2
<1>4. BaseOf(c, q) \in Seq(ChatRecord)
  <2>1. CASE q # <<>> /\ Head(q).type = "history"
    <3>1. Head(q) \in Frames
      BY <2>1, TailFrames
    <3>2. Head(q).arg \in Seq(ChatRecord)
      BY <2>1, <3>1, FrameCases
    <3>3. QED
      BY <2>1, <3>2 DEF BaseOf
  <2>2. CASE ~(q # <<>> /\ Head(q).type = "history")
    BY <2>2 DEF BaseOf
  <2>3. QED
    BY <2>1, <2>2
<1>5. QED
  BY <1>1, <1>2, <1>3, <1>4 DEF Base

\* A window's cache changes and its panel is told.
LEMMA ShowFacts ==
  ASSUME ChatTypeOK, PanelShowsCache, NEW w \in Window, NEW s \in Seq(ChatRecord), Show(w, s)
  PROVE  /\ cache' \in [Window -> Seq(ChatRecord)] /\ panel' \in [Window -> Panels]
         /\ PanelShowsCache'
         /\ cache'[w] = s /\ \A v \in Window \ {w} : cache'[v] = cache[v]
<1>1. cache' = [cache EXCEPT ![w] = s]
  BY DEF Show
<1>2. /\ cache' \in [Window -> Seq(ChatRecord)]
      /\ cache'[w] = s /\ \A v \in Window \ {w} : cache'[v] = cache[v]
  BY <1>1 DEF ChatTypeOK
<1>3. CASE panel[w].state = "open"
  <2>1. panel' = [panel EXCEPT ![w].records = s] /\ panel \in [Window -> Panels]
    BY <1>3 DEF Show, ChatTypeOK
  <2>2. PICK r : r = [panel[w] EXCEPT !.records = s]
    OBVIOUS
  <2>3. r \in Panels /\ r.records = s
    BY <2>1, <2>2 DEF Panels
  <2>4. panel' = [panel EXCEPT ![w] = r]
    BY <2>1, <2>2
  <2>5. panel' \in [Window -> Panels]
    BY <2>1, <2>3, <2>4
  <2>6. PanelShowsCache'
    BY <1>2, <2>1, <2>3, <2>4 DEF PanelShowsCache
  <2>7. QED
    BY <1>2, <2>5, <2>6
<1>4. CASE panel[w].state # "open"
  <2>1. panel' = panel
    BY <1>4 DEF Show
  <2>2. PanelShowsCache'
    BY <1>2, <1>4, <2>1 DEF PanelShowsCache
  <2>3. QED
    BY <1>2, <2>1, <2>2 DEF ChatTypeOK
<1>5. QED
  BY <1>3, <1>4

\* A member that nothing reaches.
LEMMA Unmoved ==
  ASSUME NEW m, Heard(m)' = Heard(m), chan'[m] = chan[m], NEW key
  PROVE  /\ Has(m, key)' <=> Has(m, key)
         /\ Single(m, key)' <=> Single(m, key)
         /\ WillAmend(m, key)' <=> WillAmend(m, key)
         /\ Absent(m, key)' <=> Absent(m, key)
<1>1. Base(m)' = Base(m)
  BY DEF Base
<1>2. QED
  BY <1>1 DEF Has, Single, WillAmend, Absent

\* A frame is sent to the members.
LEMMA SendFacts ==
  ASSUME ChatTypeOK, HistoryFirst, NEW f \in Frames, f.type # "history", Send(f),
         client' = client, seated' = seated, \A m \in Member : cache'[m] = cache[m]
  PROVE  /\ chan' \in [Member -> Seq(Frames)]
         /\ HistoryFirst'
         /\ \A m \in seated : chan'[m] = Append(chan[m], f) /\ Base(m)' = Base(m)
<1>1. seated \subseteq Member /\ chan \in [Member -> Seq(Frames)]
  BY DEF ChatTypeOK
<1>2. \A m \in Member : chan'[m] = IF m \in seated THEN Append(chan[m], f) ELSE <<>>
  BY DEF Send
<1>3. chan' \in [Member -> Seq(Frames)]
  <2>1. ASSUME NEW m \in Member
        PROVE  (IF m \in seated THEN Append(chan[m], f) ELSE <<>>) \in Seq(Frames)
    <3>1. PICK q \in Seq(Frames) : q = chan[m]
      BY <1>1
    <3>2. Append(q, f) \in Seq(Frames)
      OBVIOUS
    <3>3. QED
      BY <3>1, <3>2
  <2>2. QED
    BY <2>1 DEF Send
<1>4. ASSUME NEW m \in seated
      PROVE  /\ chan'[m] = Append(chan[m], f) /\ Base(m)' = Base(m)
             /\ \A i \in 2..Len(chan'[m]) : chan'[m][i].type # "history"
  <2>1. PICK q \in Seq(Frames), c \in Seq(ChatRecord) : q = chan[m] /\ c = Heard(m)
    BY <1>1, BaseType
  <2>2. chan'[m] = Append(q, f) /\ Heard(m)' = c
    BY <1>1, <1>2, <2>1 DEF Heard
  <2>3. \A i \in 2..Len(q) : q[i].type # "history"
    BY <2>1 DEF HistoryFirst
  <2>4. BaseOf(c, Append(q, f)) = BaseOf(c, q)
    BY BaseStays
  <2>5. \A i \in 2..Len(Append(q, f)) : Append(q, f)[i].type # "history"
    BY <2>3, BaseStays
  <2>6. QED
    BY <2>1, <2>2, <2>4, <2>5 DEF Base
<1>5. QED
  BY <1>3, <1>4 DEF HistoryFirst

LEMMA SendKeeps ==
  ASSUME ChatTypeOK, HistoryFirst, NEW f \in Frames, f.type # "history", Send(f),
         client' = client, seated' = seated, \A m \in Member : cache'[m] = cache[m],
         NEW m \in seated, NEW key
  PROVE  /\ Has(m, key) /\ f.type # "emptied" => Has(m, key)'
         /\ Says(f, key) => Has(m, key)'
         /\ Single(m, key) /\ ~Says(f, key) => Single(m, key)'
         /\ Absent(m, key) => Single(m, key)'
         /\ WillAmend(m, key) /\ ~Says(f, key) => WillAmend(m, key)'
         /\ Amends(f, key) => WillAmend(m, key)'
         /\ Absent(m, key) /\ ~Says(f, key) => Absent(m, key)'
<1>1. PICK q \in Seq(Frames), b \in Seq(ChatRecord) : q = chan[m] /\ b = Base(m)
  BY BaseType DEF ChatTypeOK
<1>2. PICK r \in Seq(Frames) : r = Append(q, f)
  BY AppendFrame
<1>3. chan'[m] = r /\ Base(m)' = b
  BY <1>1, <1>2, SendFacts
<1>4. /\ Has(m, key) <=> Carries(b, q, key)
      /\ Single(m, key) <=> Once(b, q, key)
      /\ WillAmend(m, key) <=> Amended(b, q, key)
      /\ Absent(m, key) <=> key \notin Keys(b) /\ \A i \in 1..Len(q) : ~Says(q[i], key)
  BY <1>1 DEF Has, Single, WillAmend, Absent
<1>5. /\ Has(m, key)' <=> Carries(b, r, key)
      /\ Single(m, key)' <=> Once(b, r, key)
      /\ WillAmend(m, key)' <=> Amended(b, r, key)
      /\ Absent(m, key)' <=> key \notin Keys(b) /\ \A i \in 1..Len(r) : ~Says(r[i], key)
  BY <1>3 DEF Has, Single, WillAmend, Absent
<1>6. /\ Carries(b, q, key) /\ f.type # "emptied" => Carries(b, r, key)
      /\ Says(f, key) => Carries(b, r, key)
  BY <1>2, CarriesStays
<1>7. /\ Once(b, q, key) /\ ~Says(f, key) => Once(b, r, key)
      /\ key \notin Keys(b) /\ (\A i \in 1..Len(q) : ~Says(q[i], key)) => Once(b, r, key)
  BY <1>2, OnceStays
<1>8. /\ Amended(b, q, key) /\ ~Says(f, key) => Amended(b, r, key)
      /\ Amends(f, key) => Amended(b, r, key)
  BY <1>2, AmendedStays
<1>9. (\A i \in 1..Len(q) : ~Says(q[i], key)) /\ ~Says(f, key) =>
         \A i \in 1..Len(r) : ~Says(r[i], key)
  <2>1. /\ Len(q) \in Nat /\ Len(r) = Len(q) + 1
        /\ r[Len(q) + 1] = f /\ \A i \in 1..Len(q) : r[i] = q[i]
    BY <1>2, AppendFrame
  <2>2. ASSUME NEW i \in 1..Len(r)
        PROVE  (i = Len(q) + 1 /\ r[i] = f) \/ (i \in 1..Len(q) /\ r[i] = q[i])
    BY <2>1
  <2>3. QED
    BY <2>2
<1>10. QED
  BY <1>4, <1>5, <1>6, <1>7, <1>8, <1>9

\* A frame reaches a member that listens.
LEMMA DeliverKeeps ==
  ASSUME ChatTypeOK, HistoryFirst, NEW m \in seated, chan[m] # <<>>, client[m] = "wired",
         client'[m] = client[m], chan'[m] = Tail(chan[m]),
         cache'[m] = Reading(cache[m], Head(chan[m])), NEW key
  PROVE  /\ \A i \in 2..Len(chan'[m]) : chan'[m][i].type # "history"
         /\ Has(m, key) => Has(m, key)'
         /\ Single(m, key) => Single(m, key)'
         /\ WillAmend(m, key) /\ Single(m, key) => WillAmend(m, key)'
         /\ Absent(m, key) => Absent(m, key)'
<1>1. m \in Member
  BY DEF ChatTypeOK
<1>2. PICK c \in Seq(ChatRecord), q \in Seq(Frames) : c = cache[m] /\ q = chan[m]
  BY <1>1, BaseType
<1>3. q # <<>>
  BY <1>2
<1>4. PICK b, f : b = BaseOf(c, q) /\ f = Head(q)
  OBVIOUS
<1>5. PICK r \in Seq(Frames), d \in Seq(ChatRecord) : r = Tail(q) /\ d = Reading(c, f)
  <2>1. f \in Frames
    BY <1>3, <1>4, TailFrames
  <2>2. QED
    BY <1>3, <2>1, TailFrames, ReadingType
<1>6. chan'[m] = r /\ Heard(m)' = d /\ Base(m) = b
  BY <1>2, <1>4, <1>5 DEF Base, Heard
<1>7. \A i \in 2..Len(q) : q[i].type # "history"
  BY <1>2 DEF HistoryFirst
<1>8. BaseOf(d, r) = d
  BY <1>3, <1>5, <1>7, TailHistory
<1>9. \A i \in 2..Len(r) : r[i].type # "history"
  BY <1>3, <1>5, <1>7, TailHistory
<1>10. Base(m)' = d
  BY <1>6, <1>8 DEF Base
<1>11. /\ Has(m, key) <=> Carries(b, q, key)
       /\ Single(m, key) <=> Once(b, q, key)
       /\ WillAmend(m, key) <=> Amended(b, q, key)
       /\ Absent(m, key) <=> key \notin Keys(b) /\ \A i \in 1..Len(q) : ~Says(q[i], key)
  BY <1>2, <1>6 DEF Has, Single, WillAmend, Absent
<1>12. /\ Has(m, key)' <=> Carries(d, r, key)
       /\ Single(m, key)' <=> Once(d, r, key)
       /\ WillAmend(m, key)' <=> Amended(d, r, key)
       /\ Absent(m, key)' <=> key \notin Keys(d) /\ \A i \in 1..Len(r) : ~Says(r[i], key)
  BY <1>6, <1>10 DEF Has, Single, WillAmend, Absent
<1>13. Carries(b, q, key) => Carries(d, r, key)
  BY <1>3, <1>4, <1>5, DeliverCarries
<1>14. Once(b, q, key) => Once(d, r, key)
  BY <1>3, <1>4, <1>5, DeliverOnce
<1>15. Once(b, q, key) /\ Amended(b, q, key) => Amended(d, r, key)
  BY <1>3, <1>4, <1>5, DeliverAmended
<1>16. ASSUME key \notin Keys(b), \A i \in 1..Len(q) : ~Says(q[i], key)
       PROVE  key \notin Keys(d) /\ \A i \in 1..Len(r) : ~Says(r[i], key)
  <2>1. /\ f = q[1] /\ Len(q) \in Nat \ {0} /\ Len(r) = Len(q) - 1
        /\ \A i \in 1..Len(r) : r[i] = q[i + 1]
    BY <1>3, <1>4, <1>5, TailFrames
  <2>2. key \in Keys(d) <=> (f.type # "emptied" /\ key \in Keys(b)) \/ Says(f, key)
    BY <1>3, <1>4, <1>5, DeliverKeys
  <2>3. ~Says(f, key)
    <3>1. 1 \in 1..Len(q)
      BY <2>1
    <3>2. QED
      BY <1>16, <2>1, <3>1
  <2>4. ASSUME NEW i \in 1..Len(r) PROVE ~Says(r[i], key)
    <3>1. i + 1 \in 1..Len(q) /\ r[i] = q[i + 1]
      BY <2>1
    <3>2. QED
      BY <1>16, <3>1
  <2>5. QED
    BY <1>16, <2>2, <2>3, <2>4
<1>17. QED
  BY <1>6, <1>9, <1>11, <1>12, <1>13, <1>14, <1>15, <1>16

\* A frame is read by a window that does not listen yet: only its own record is lost.
LEMMA UnheardKeeps ==
  ASSUME ChatTypeOK, HistoryFirst, NEW m \in seated, chan[m] # <<>>, client[m] # "wired",
         client'[m] = client[m], chan'[m] = Tail(chan[m]), NEW key
  PROVE  /\ \A i \in 2..Len(chan'[m]) : chan'[m][i].type # "history"
         /\ Has(m, key) =>
               \/ Has(m, key)'
               \/ Says(Head(chan[m]), key)
               \/ Head(chan[m]).type = "history" /\ key \in Keys(Head(chan[m]).arg)
         /\ Single(m, key) => Single(m, key)'
         /\ WillAmend(m, key) => WillAmend(m, key)'
         /\ Absent(m, key) => Absent(m, key)'
<1>1. m \in Member
  BY DEF ChatTypeOK
<1>2. PICK q \in Seq(Frames) : q = chan[m]
  BY <1>1, BaseType
<1>3. q # <<>>
  BY <1>2
<1>4. PICK b : b = BaseOf(<<>>, q)
  OBVIOUS
<1>5. PICK r \in Seq(Frames) : r = Tail(q)
  BY <1>3, TailFrames
<1>6. chan'[m] = r /\ Heard(m)' = <<>> /\ Base(m) = b
  BY <1>2, <1>4, <1>5 DEF Base, Heard
<1>7. \A i \in 2..Len(q) : q[i].type # "history"
  BY <1>2 DEF HistoryFirst
<1>8. BaseOf(<<>>, r) = <<>>
  BY <1>3, <1>5, <1>7, TailHistory
<1>9. \A i \in 2..Len(r) : r[i].type # "history"
  BY <1>3, <1>5, <1>7, TailHistory
<1>10. Base(m)' = <<>>
  BY <1>6, <1>8 DEF Base
<1>11. /\ Has(m, key) <=> Carries(b, q, key)
       /\ Single(m, key) <=> Once(b, q, key)
       /\ WillAmend(m, key) <=> Amended(b, q, key)
       /\ Absent(m, key) <=> key \notin Keys(b) /\ \A i \in 1..Len(q) : ~Says(q[i], key)
  BY <1>2, <1>6 DEF Has, Single, WillAmend, Absent
<1>12. /\ Has(m, key)' <=> Carries(<<>>, r, key)
       /\ Single(m, key)' <=> Once(<<>>, r, key)
       /\ WillAmend(m, key)' <=> Amended(<<>>, r, key)
       /\ Absent(m, key)' <=> key \notin Keys(<<>>) /\ \A i \in 1..Len(r) : ~Says(r[i], key)
  BY <1>6, <1>10 DEF Has, Single, WillAmend, Absent
<1>13. /\ Head(q) = q[1] /\ Len(q) \in Nat \ {0} /\ Len(r) = Len(q) - 1
       /\ \A i \in 1..Len(r) : r[i] = q[i + 1] /\ i + 1 \in 1..Len(q)
  BY <1>3, <1>5, TailFrames
<1>14. key \notin Keys(<<>>) /\ DOMAIN <<>> = {}
  BY DEF Keys
<1>15. ASSUME Carries(b, q, key)
       PROVE  \/ Carries(<<>>, r, key)
              \/ Says(Head(q), key)
              \/ Head(q).type = "history" /\ key \in Keys(Head(q).arg)
  <2>1. CASE key \in Keys(b)
    BY <1>3, <1>4, <1>14, <2>1 DEF BaseOf
  <2>2. ASSUME NEW i \in 1..Len(q), Says(q[i], key), i # 1,
               \A k \in i + 1..Len(q) : q[k].type # "emptied"
        PROVE  Carries(<<>>, r, key)
    <3>1. PICK n \in 1..Len(r) : n + 1 = i
      <4>1. i - 1 \in 1..Len(r) /\ i - 1 + 1 = i
        BY <1>13, <2>2
      <4>2. QED
        BY <4>1
    <3>2. Says(r[n], key)
      BY <1>13, <2>2, <3>1
    <3>3. ASSUME NEW k \in n + 1..Len(r) PROVE r[k].type # "emptied"
      <4>1. k \in 1..Len(r) /\ k + 1 \in i + 1..Len(q)
        BY <1>13, <3>1
      <4>2. QED
        BY <1>13, <2>2, <4>1
    <3>4. QED
      BY <3>2, <3>3 DEF Carries
  <2>3. QED
    BY <1>13, <1>15, <2>1, <2>2 DEF Carries
<1>16. ASSUME Once(b, q, key) PROVE Once(<<>>, r, key)
  <2>1. ASSUME NEW i \in 1..Len(r), Says(r[i], key), NEW k \in 1..Len(r), Says(r[k], key)
        PROVE  k = i
    <3>1. k + 1 = i + 1
      BY <1>13, <1>16, <2>1 DEF Once
    <3>2. QED
      BY <3>1
  <2>2. QED
    BY <1>14, <2>1 DEF Once
<1>17. ASSUME Amended(b, q, key) PROVE Amended(<<>>, r, key)
  <2>1. ASSUME NEW i \in 1..Len(r), Says(r[i], key)
        PROVE  r[i].arg.amended \/ \E k \in i + 1..Len(r) : Amends(r[k], key)
    <3>1. r[i].arg.amended \/ \E k \in i + 1 + 1..Len(q) : Amends(q[k], key)
      BY <1>13, <1>17, <2>1 DEF Amended
    <3>2. ASSUME NEW k \in i + 1 + 1..Len(q), Amends(q[k], key)
          PROVE  \E n \in i + 1..Len(r) : Amends(r[n], key)
      <4>1. k - 1 \in i + 1..Len(r) /\ k - 1 \in 1..Len(r) /\ k - 1 + 1 = k
        BY <1>13
      <4>2. r[k - 1] = q[k - 1 + 1]
        BY <1>13, <4>1
      <4>3. QED
        BY <3>2, <4>1, <4>2
    <3>3. QED
      BY <3>1, <3>2
  <2>2. QED
    BY <1>14, <2>1 DEF Amended
<1>18. (\A i \in 1..Len(q) : ~Says(q[i], key)) => \A i \in 1..Len(r) : ~Says(r[i], key)
  BY <1>13
<1>19. QED
  BY <1>2, <1>6, <1>9, <1>11, <1>12, <1>14, <1>15, <1>16, <1>17, <1>18

-----------------------------------------------------------------------------
(* Every action preserves the invariant *)

\* Nothing the members have changes.
LEMMA MembersUnmoved ==
  ASSUME ChatInv, client' = client, seated' = seated, chan' = chan,
         \A m \in Member : cache'[m] = cache[m]
  PROVE  \A m \in seated : \A key :
            /\ Has(m, key)' <=> Has(m, key)
            /\ Single(m, key)' <=> Single(m, key)
            /\ WillAmend(m, key)' <=> WillAmend(m, key)
            /\ Absent(m, key)' <=> Absent(m, key)
<1> TAKE m \in seated
<1> TAKE key
<1>1. Heard(m)' = Heard(m) /\ chan'[m] = chan[m]
  BY DEF ChatInv, ChatTypeOK, Heard
<1>2. QED
  BY <1>1, Unmoved

LEMMA InitSafe == Init => ChatInv
<1> SUFFICES ASSUME Init PROVE ChatInv
  OBVIOUS
<1> USE DEF Init
<1>1. \A key : key \notin Keys(<<>>)
  BY DEF Keys
<1>2. ChatTypeOK
  <2>1. <<>> \in Seq(ChatRecord) /\ <<>> \in Seq(Frames)
    OBVIOUS
  <2>2. Closed \in Panels
    BY <2>1 DEF Closed, Panels
  <2>3. QED
    BY <2>1, <2>2 DEF ChatTypeOK
<1>3. PanelShowsCache
  BY DEF PanelShowsCache, Closed
<1>4. Unannounced
  BY <1>1 DEF Unannounced
<1>5. EventsOnce
  BY DEF EventsOnce, Once
<1>6. QED
  BY <1>2, <1>3, <1>4, <1>5
  DEF ChatInv, HistoryFirst, NothingLost, OnlyEventsAmended, AmendsComing, LogAmended

LEMMA PanelSteps ==
  ASSUME ChatInv, NEW w \in Window, OpenPanel(w) \/ PanelReady(w) \/ ClosePanel(w)
  PROVE  ChatInv'
<1>1. UNCHANGED <<log, jobs, cache, client, seated, chan, owed, analysis>>
  BY DEF OpenPanel, PanelReady, ClosePanel, logVars, memberVars, clientVars
<1>2. panel \in [Window -> Panels] /\ cache[w] \in Seq(ChatRecord) /\ PanelShowsCache
  BY DEF ChatInv, ChatTypeOK
<1>3. panel' \in [Window -> Panels] /\ PanelShowsCache'
  <2>1. CASE OpenPanel(w)
    <3>1. PICK r : r = [panel[w] EXCEPT !.state = "loading"]
      OBVIOUS
    <3>2. r \in Panels /\ r.state = "loading"
      BY <1>2, <3>1 DEF Panels
    <3>3. panel' = [panel EXCEPT ![w] = r]
      BY <1>2, <2>1, <3>1 DEF OpenPanel
    <3>4. QED
      BY <1>1, <1>2, <3>2, <3>3 DEF PanelShowsCache
  <2>2. CASE PanelReady(w)
    BY <1>1, <1>2, <2>2 DEF PanelReady, PanelShowsCache, Panels
  <2>3. CASE ClosePanel(w)
    BY <1>1, <1>2, <2>3 DEF ClosePanel, PanelShowsCache, Panels, Closed
  <2>4. QED
    BY <2>1, <2>2, <2>3
<1>4. ChatTypeOK'
  BY <1>1, <1>3 DEF ChatInv, ChatTypeOK
<1>5. \A m \in seated : \A key :
         /\ Has(m, key)' <=> Has(m, key)
         /\ Single(m, key)' <=> Single(m, key)
         /\ WillAmend(m, key)' <=> WillAmend(m, key)
         /\ Absent(m, key)' <=> Absent(m, key)
  BY <1>1, MembersUnmoved
<1>6. HistoryFirst' /\ OnlyEventsAmended'
  BY <1>1 DEF ChatInv, HistoryFirst, OnlyEventsAmended
<1>7. NothingLost'
  BY <1>1, <1>5 DEF ChatInv, NothingLost, BroadcastDue
<1>8. Unannounced'
  BY <1>1, <1>5 DEF ChatInv, Unannounced
<1>9. EventsOnce'
  BY <1>1, <1>5 DEF ChatInv, EventsOnce
<1>10. AmendsComing'
  BY <1>1, <1>5 DEF ChatInv, AmendsComing, LogAmended, AmendDue
<1>11. QED
  BY <1>3, <1>4, <1>6, <1>7, <1>8, <1>9, <1>10 DEF ChatInv

\* A record is appended to the log.
LEMMA Recorded ==
  ASSUME ChatInv, NEW r \in ChatRecord, ~r.amended, Record(r)
  PROVE  /\ log' \in Seq(ChatRecord) /\ OnlyEventsAmended'
         /\ \A key : key \in Keys(log') <=> key \in Keys(log) \/ key = Key(r)
         /\ \A key : Once(log, <<>>, key) /\ key # Key(r) => Once(log', <<>>, key)
         /\ \A key : key \notin Keys(log) => Once(log', <<>>, key)
         /\ \A key : LogAmended(key)' <=> LogAmended(key)
<1>1. PICK s \in Seq(ChatRecord) : s = log
  BY DEF ChatInv, ChatTypeOK
<1>2. PICK t \in Seq(ChatRecord) : t = Append(s, r)
  <2>1. Append(s, r) \in Seq(ChatRecord)
    OBVIOUS
  <2>2. QED
    BY <2>1
<1>3. log' = t
  BY <1>1, <1>2 DEF Record
<1>4. /\ Len(s) \in Nat /\ DOMAIN s = 1..Len(s) /\ DOMAIN t = 1..Len(s) + 1
      /\ t[Len(s) + 1] = r /\ \A i \in 1..Len(s) : t[i] = s[i]
  BY <1>2
<1>5. ASSUME NEW i \in DOMAIN t
      PROVE  (i = Len(s) + 1 /\ t[i] = r) \/ (i \in DOMAIN s /\ t[i] = s[i])
  BY <1>4
<1>6. \A i \in DOMAIN s : i \in DOMAIN t /\ t[i] = s[i]
  BY <1>4
<1>7. Len(s) + 1 \in DOMAIN t
  BY <1>4
<1>8. OnlyEventsAmended'
  BY <1>1, <1>3, <1>5 DEF ChatInv, OnlyEventsAmended
<1>9. ASSUME NEW key PROVE key \in Keys(t) <=> key \in Keys(s) \/ key = Key(r)
  BY <1>4, <1>5, <1>6, <1>7 DEF Keys
<1>10. ASSUME NEW key, Once(s, <<>>, key), key # Key(r) PROVE Once(t, <<>>, key)
  <2>1. ASSUME NEW i \in DOMAIN t, NEW k \in DOMAIN t, Key(t[i]) = key, Key(t[k]) = key
        PROVE  i = k
    <3>1. i \in DOMAIN s /\ k \in DOMAIN s /\ t[i] = s[i] /\ t[k] = s[k]
      BY <1>5, <1>10, <2>1
    <3>2. QED
      BY <1>10, <2>1, <3>1 DEF Once
  <2>2. QED
    BY <2>1 DEF Once
<1>11. ASSUME NEW key, key \notin Keys(s) PROVE Once(t, <<>>, key)
  <2>1. \A i \in DOMAIN s : Key(s[i]) # key
    BY <1>11 DEF Keys
  <2>2. ASSUME NEW i \in DOMAIN t, Key(t[i]) = key PROVE i = Len(s) + 1
    BY <1>5, <2>1, <2>2
  <2>3. QED
    BY <2>2 DEF Once
<1>12. ASSUME NEW key PROVE LogAmended(key)' <=> LogAmended(key)
  <2>1. LogAmended(key)' <=> \E i \in DOMAIN t : t[i].amended /\ Key(t[i]) = key
    BY <1>3 DEF LogAmended
  <2>2. LogAmended(key) <=> \E i \in DOMAIN s : s[i].amended /\ Key(s[i]) = key
    BY <1>1 DEF LogAmended
  <2>3. QED
    BY <1>5, <1>6, <2>1, <2>2
<1>13. QED
  BY <1>1, <1>3, <1>8, <1>9, <1>10, <1>11, <1>12

LEMMA SayStep ==
  ASSUME ChatInv, FeedAssumption, NEW w \in Window, NEW n \in Said, Say(w, n)
  PROVE  ChatInv'
<1>1. PICK r : r = Rec("user", n)
  OBVIOUS
<1>2. r \in UserRecord /\ r \in ChatRecord /\ ~r.amended /\ Key(r) = <<"user", n>>
  BY <1>1 DEF Rec, UserRecord, ChatRecord, Key
<1>3. /\ Record(r) /\ jobs' = jobs \cup {Job("broadcast", r)} /\ Owe({Key(r)})
      /\ w = Host => Shown(Host, r)
      /\ w # Host => cache' = cache /\ panel' = panel
      /\ seated' = seated /\ chan' = chan /\ analysis' = analysis /\ client' = client
  BY <1>1 DEF Say, memberVars, clientVars
<1>4. ChatTypeOK /\ PanelShowsCache
  BY DEF ChatInv
<1>5. /\ cache' \in [Window -> Seq(ChatRecord)] /\ panel' \in [Window -> Panels]
      /\ PanelShowsCache' /\ \A m \in Member : cache'[m] = cache[m]
  <2>1. CASE w = Host
    <3>1. Host \in Window /\ cache[Host] \in Seq(ChatRecord)
      BY <1>4 DEF ChatTypeOK, Window
    <3>2. PICK s \in Seq(ChatRecord) : s = Append(cache[Host], r)
      <4>1. Append(cache[Host], r) \in Seq(ChatRecord)
        BY <1>2, <3>1
      <4>2. QED
        BY <4>1
    <3>3. Show(Host, s)
      BY <1>3, <2>1, <3>2 DEF Shown
    <3>4. /\ cache' \in [Window -> Seq(ChatRecord)] /\ panel' \in [Window -> Panels]
          /\ PanelShowsCache' /\ \A v \in Window \ {Host} : cache'[v] = cache[v]
      BY <1>4, <3>1, <3>3, ShowFacts
    <3>5. QED
      BY <3>4 DEF FeedAssumption, Window
  <2>2. CASE w # Host
    BY <1>3, <1>4, <2>2 DEF ChatTypeOK, PanelShowsCache
  <2>3. QED
    BY <2>1, <2>2
<1>6. \A m \in seated : \A key :
         /\ Has(m, key)' <=> Has(m, key)
         /\ Single(m, key)' <=> Single(m, key)
         /\ WillAmend(m, key)' <=> WillAmend(m, key)
         /\ Absent(m, key)' <=> Absent(m, key)
  BY <1>3, <1>5, MembersUnmoved
<1>7. /\ log' \in Seq(ChatRecord) /\ OnlyEventsAmended'
      /\ \A key : key \in Keys(log') <=> key \in Keys(log) \/ key = Key(r)
      /\ \A key : Once(log, <<>>, key) /\ key # Key(r) => Once(log', <<>>, key)
      /\ \A key : LogAmended(key)' <=> LogAmended(key)
  BY <1>2, <1>3, Recorded
<1>8. \A x : EventKey(x) # Key(r)
  BY <1>2 DEF EventKey
<1>9. jobs' \subseteq Jobs
  <2>1. Job("broadcast", r) \in Jobs
    BY <1>2 DEF Job, Jobs
  <2>2. QED
    BY <1>3, <1>4, <2>1 DEF ChatTypeOK
<1>10. owed' = [m \in Member |-> IF m \in seated THEN owed[m] \cup {Key(r)} ELSE {}]
  BY <1>3 DEF Owe
<1>11. ChatTypeOK'
  BY <1>3, <1>4, <1>5, <1>7, <1>9, <1>10 DEF ChatTypeOK
<1>12. HistoryFirst'
  BY <1>3 DEF ChatInv, HistoryFirst
<1>13. NothingLost'
  <2>1. \A key : key = Key(r) => BroadcastDue(key)'
    <3>1. PICK j : j = Job("broadcast", r)
      OBVIOUS
    <3>2. j \in jobs' /\ j.then = "broadcast" /\ j.rec = r
      BY <1>3, <3>1 DEF Job
    <3>3. QED
      BY <3>2 DEF BroadcastDue
  <2>2. \A key : BroadcastDue(key) => BroadcastDue(key)'
    BY <1>3 DEF BroadcastDue
  <2>3. \A m \in seated : m \in Member
    BY <1>4 DEF ChatTypeOK
  <2>4. \A m \in seated : owed'[m] = owed[m] \cup {Key(r)}
    BY <1>10, <2>3
  <2>5. ASSUME NEW m \in seated, NEW key \in owed'[m] PROVE BroadcastDue(key)' \/ Has(m, key)'
    <3>1. CASE key = Key(r)
      BY <2>1, <3>1
    <3>2. CASE key \in owed[m]
      BY <1>6, <2>2, <3>2 DEF ChatInv, NothingLost
    <3>3. QED
      BY <2>4, <3>1, <3>2
  <2>6. QED
    BY <1>3, <2>5 DEF NothingLost
<1>14. Unannounced'
  BY <1>3, <1>6, <1>7, <1>8 DEF ChatInv, Unannounced
<1>15. EventsOnce'
  BY <1>3, <1>6, <1>7, <1>8 DEF ChatInv, EventsOnce
<1>16. AmendsComing'
  <2>1. \A key : AmendDue(key) => AmendDue(key)'
    BY <1>3 DEF AmendDue
  <2>2. \A m \in seated, y \in Event : EventKey(y) \in owed'[m] => EventKey(y) \in owed[m]
    BY <1>4, <1>8, <1>10 DEF ChatTypeOK
  <2>3. QED
    BY <1>3, <1>6, <1>7, <2>1, <2>2 DEF ChatInv, AmendsComing
<1>17. QED
  BY <1>5, <1>7, <1>11, <1>12, <1>13, <1>14, <1>15, <1>16 DEF ChatInv

\* The host's window shows something; no member's does.
LEMMA HostShows ==
  ASSUME ChatTypeOK, PanelShowsCache, FeedAssumption, NEW s \in Seq(ChatRecord), Show(Host, s)
  PROVE  /\ cache' \in [Window -> Seq(ChatRecord)] /\ panel' \in [Window -> Panels]
         /\ PanelShowsCache' /\ \A m \in Member : cache'[m] = cache[m]
<1>1. Host \in Window
  BY DEF Window
<1>2. /\ cache' \in [Window -> Seq(ChatRecord)] /\ panel' \in [Window -> Panels]
      /\ PanelShowsCache' /\ \A v \in Window \ {Host} : cache'[v] = cache[v]
  BY <1>1, ShowFacts
<1>3. \A m \in Member : m \in Window \ {Host}
  BY DEF FeedAssumption, Window
<1>4. QED
  BY <1>2, <1>3

LEMMA HostCache ==
  ASSUME ChatTypeOK
  PROVE  cache[Host] \in Seq(ChatRecord)
  BY DEF ChatTypeOK, Window

\* What SendKeeps says, of all members.
LEMMA MembersSent ==
  ASSUME ChatInv, NEW f \in Frames, f.type # "history", Send(f),
         client' = client, seated' = seated, \A m \in Member : cache'[m] = cache[m]
  PROVE  \A m \in seated : \A key :
            /\ Has(m, key) /\ f.type # "emptied" => Has(m, key)'
            /\ Says(f, key) => Has(m, key)'
            /\ Single(m, key) /\ ~Says(f, key) => Single(m, key)'
            /\ Absent(m, key) => Single(m, key)'
            /\ WillAmend(m, key) /\ ~Says(f, key) => WillAmend(m, key)'
            /\ Amends(f, key) => WillAmend(m, key)'
            /\ Absent(m, key) /\ ~Says(f, key) => Absent(m, key)'
<1> TAKE m \in seated
<1> TAKE key
<1>1. ChatTypeOK /\ HistoryFirst
  BY DEF ChatInv
<1>2. QED
  BY <1>1, SendKeeps

LEMMA AnnounceStep ==
  ASSUME ChatInv, FeedAssumption, NEW x \in Event, Announce(x)
  PROVE  ChatInv'
<1>1. PICK r : r = Rec("event", x)
  OBVIOUS
<1>2. r \in EventRecord /\ r \in ChatRecord /\ ~r.amended /\ Key(r) = EventKey(x)
  BY <1>1 DEF Rec, EventRecord, ChatRecord, Key, EventKey
<1>3. PICK f : f = Frame("chat", r)
  OBVIOUS
<1>4. f \in Frames /\ f.type = "chat" /\ \A key : Says(f, key) <=> key = EventKey(x)
  BY <1>2, <1>3 DEF Frame, Frames, Says
<1>5. /\ Record(r) /\ Send(f) /\ Owe({Key(r)}) /\ Shown(Host, r)
      /\ jobs' = jobs /\ seated' = seated /\ client' = client /\ analysis[x] = "none"
      /\ analysis' = [analysis EXCEPT ![x] = IF x \in Analyzed THEN "asked" ELSE "done"]
  BY <1>1, <1>3 DEF Announce, SystemEvent, clientVars
<1>6. ChatTypeOK /\ PanelShowsCache /\ HistoryFirst
  BY DEF ChatInv
<1>7. /\ cache' \in [Window -> Seq(ChatRecord)] /\ panel' \in [Window -> Panels]
      /\ PanelShowsCache' /\ \A m \in Member : cache'[m] = cache[m]
  <2>1. PICK s \in Seq(ChatRecord) : s = Append(cache[Host], r)
    <3>1. Append(cache[Host], r) \in Seq(ChatRecord)
      BY <1>2, <1>6, HostCache
    <3>2. QED
      BY <3>1
  <2>2. Show(Host, s)
    BY <1>5, <2>1 DEF Shown
  <2>3. QED
    BY <1>6, <2>2, HostShows
<1>8. chan' \in [Member -> Seq(Frames)] /\ HistoryFirst'
  BY <1>4, <1>5, <1>6, <1>7, SendFacts
<1>9. \A m \in seated : \A key :
         /\ Has(m, key) => Has(m, key)'
         /\ Says(f, key) => Has(m, key)'
         /\ Single(m, key) /\ ~Says(f, key) => Single(m, key)'
         /\ Absent(m, key) => Single(m, key)'
         /\ WillAmend(m, key) /\ ~Says(f, key) => WillAmend(m, key)'
         /\ Absent(m, key) /\ ~Says(f, key) => Absent(m, key)'
  BY <1>4, <1>5, <1>7, MembersSent
<1>10. /\ log' \in Seq(ChatRecord) /\ OnlyEventsAmended'
       /\ \A key : key \in Keys(log') <=> key \in Keys(log) \/ key = EventKey(x)
       /\ \A key : Once(log, <<>>, key) /\ key # EventKey(x) => Once(log', <<>>, key)
       /\ \A key : key \notin Keys(log) => Once(log', <<>>, key)
       /\ \A key : LogAmended(key)' <=> LogAmended(key)
  BY <1>2, <1>5, Recorded
<1>11. EventKey(x) \notin Keys(log) /\ \A m \in seated : Absent(m, EventKey(x))
  BY <1>5 DEF ChatInv, Unannounced
<1>12. \A y \in Event : y # x => EventKey(y) # EventKey(x) /\ analysis'[y] = analysis[y]
  BY <1>5, <1>6 DEF EventKey, ChatTypeOK
<1>13. analysis'[x] # "none" /\ analysis' \in [Event -> {"none", "asked", "done"}]
  BY <1>5, <1>6 DEF ChatTypeOK
<1>14. owed' = [m \in Member |-> IF m \in seated THEN owed[m] \cup {EventKey(x)} ELSE {}]
  BY <1>2, <1>5 DEF Owe
<1>15. ChatTypeOK'
  BY <1>5, <1>6, <1>7, <1>8, <1>10, <1>13, <1>14 DEF ChatTypeOK
<1>16. NothingLost'
  <2>1. ASSUME NEW m \in seated, NEW key \in owed'[m]
        PROVE  BroadcastDue(key)' \/ Has(m, key)'
    <3>1. key \in owed[m] \/ key = EventKey(x)
      BY <1>6, <1>14 DEF ChatTypeOK
    <3>2. CASE key = EventKey(x)
      BY <1>4, <1>9, <3>2
    <3>3. CASE key \in owed[m]
      <4>1. BroadcastDue(key) => BroadcastDue(key)'
        BY <1>5 DEF BroadcastDue
      <4>2. QED
        BY <1>9, <3>3, <4>1 DEF ChatInv, NothingLost
    <3>4. QED
      BY <3>1, <3>2, <3>3
  <2>2. QED
    BY <1>5, <2>1 DEF NothingLost
<1>17. Unannounced'
  <2>1. ASSUME NEW y \in Event, analysis'[y] = "none"
        PROVE  EventKey(y) \notin Keys(log') /\ \A m \in seated : Absent(m, EventKey(y))'
    <3>1. y # x /\ EventKey(y) # EventKey(x) /\ analysis[y] = "none"
      BY <1>12, <1>13, <2>1
    <3>2. QED
      BY <1>4, <1>9, <1>10, <3>1 DEF ChatInv, Unannounced
  <2>2. QED
    BY <1>5, <2>1 DEF Unannounced
<1>18. EventsOnce'
  <2>1. ASSUME NEW y \in Event
        PROVE  Once(log', <<>>, EventKey(y)) /\ \A m \in seated : Single(m, EventKey(y))'
    <3>1. CASE y = x
      BY <1>9, <1>10, <1>11, <3>1
    <3>2. CASE y # x
      BY <1>4, <1>9, <1>10, <1>12, <3>2 DEF ChatInv, EventsOnce
    <3>3. QED
      BY <3>1, <3>2
  <2>2. QED
    BY <1>5, <2>1 DEF EventsOnce
<1>19. AmendsComing'
  <2>1. ASSUME NEW y \in Event, LogAmended(EventKey(y))
        PROVE  \/ AmendDue(EventKey(y))'
               \/ \A m \in seated : EventKey(y) \in owed'[m] => WillAmend(m, EventKey(y))'
    <3>1. EventKey(y) \in Keys(log)
      BY <2>1 DEF LogAmended, Keys
    <3>2. y # x
      BY <1>11, <3>1
    <3>3. AmendDue(EventKey(y)) => AmendDue(EventKey(y))'
      BY <1>5 DEF AmendDue
    <3>4. \A m \in seated : EventKey(y) \in owed'[m] => EventKey(y) \in owed[m]
      BY <1>6, <1>12, <1>14, <3>2 DEF ChatTypeOK
    <3>5. QED
      BY <1>4, <1>9, <1>12, <2>1, <3>2, <3>3, <3>4 DEF ChatInv, AmendsComing
  <2>2. QED
    BY <1>5, <1>10, <2>1 DEF AmendsComing
<1>20. QED
  BY <1>7, <1>8, <1>10, <1>15, <1>16, <1>17, <1>18, <1>19 DEF ChatInv

\* What most actions share: they announce nothing and bring no event.
LEMMA EventsKept ==
  ASSUME ChatInv, seated' \subseteq seated,
         \A y \in Event : analysis'[y] = "none" => analysis[y] = "none",
         \A y \in Event : EventKey(y) \in Keys(log') => EventKey(y) \in Keys(log),
         \A y \in Event : Once(log, <<>>, EventKey(y)) => Once(log', <<>>, EventKey(y)),
         \A m \in seated' : \A y \in Event :
            /\ Single(m, EventKey(y)) => Single(m, EventKey(y))'
            /\ Absent(m, EventKey(y)) => Absent(m, EventKey(y))'
  PROVE  Unannounced' /\ EventsOnce'
<1>1. Unannounced'
  <2>1. ASSUME NEW y \in Event, analysis'[y] = "none"
        PROVE  EventKey(y) \notin Keys(log') /\ \A m \in seated' : Absent(m, EventKey(y))'
    BY <2>1 DEF ChatInv, Unannounced
  <2>2. QED
    BY <2>1 DEF Unannounced
<1>2. EventsOnce'
  <2>1. ASSUME NEW y \in Event
        PROVE  Once(log', <<>>, EventKey(y)) /\ \A m \in seated' : Single(m, EventKey(y))'
    BY DEF ChatInv, EventsOnce
  <2>2. QED
    BY <2>1 DEF EventsOnce
<1>3. QED
  BY <1>1, <1>2

LEMMA JobCases ==
  ASSUME NEW j \in Jobs
  PROVE  \/ j.then = "broadcast" /\ j.rec \in UserRecord
         \/ j.then = "amend" /\ j.rec \in EventRecord
         \/ j.then \in {"cleared", "truncated"}
  BY DEF Jobs

\* A message is broadcast.
LEMMA BroadcastStep ==
  ASSUME ChatInv, NEW j \in jobs, j.then = "broadcast", j.rec \in UserRecord,
         Send(Frame("chat", j.rec)), jobs' = jobs \ {j},
         UNCHANGED <<log, client, seated, cache, panel, owed, analysis>>
  PROVE  ChatInv'
<1>1. PICK r \in UserRecord : r = j.rec
  OBVIOUS
<1>2. PICK f : f = Frame("chat", r)
  OBVIOUS
<1>3. /\ f \in Frames /\ f.type = "chat" /\ Send(f)
      /\ \A key : Says(f, key) <=> key = Key(r)
  BY <1>1, <1>2 DEF Frame, Frames, Says, ChatRecord
<1>4. \A y : ~Says(f, EventKey(y))
  BY <1>3 DEF UserRecord, Key, EventKey
<1>5. ChatTypeOK /\ HistoryFirst /\ PanelShowsCache /\ OnlyEventsAmended
  BY DEF ChatInv
<1>6. chan' \in [Member -> Seq(Frames)] /\ HistoryFirst'
  BY <1>3, <1>5, SendFacts
<1>7. \A m \in seated : \A key :
         /\ Has(m, key) => Has(m, key)'
         /\ Says(f, key) => Has(m, key)'
         /\ Single(m, key) /\ ~Says(f, key) => Single(m, key)'
         /\ WillAmend(m, key) /\ ~Says(f, key) => WillAmend(m, key)'
         /\ Absent(m, key) /\ ~Says(f, key) => Absent(m, key)'
  BY <1>3, MembersSent
<1>8. ChatTypeOK'
  BY <1>5, <1>6 DEF ChatTypeOK
<1>9. PanelShowsCache' /\ OnlyEventsAmended'
  BY <1>5 DEF PanelShowsCache, OnlyEventsAmended
<1>10. NothingLost'
  <2>1. ASSUME NEW m \in seated, NEW key \in owed[m]
        PROVE  BroadcastDue(key)' \/ Has(m, key)'
    <3>1. CASE key = Key(r)
      BY <1>3, <1>7, <3>1
    <3>2. CASE key # Key(r)
      <4>1. BroadcastDue(key) => BroadcastDue(key)'
        BY <1>1, <3>2 DEF BroadcastDue
      <4>2. QED
        BY <1>7, <4>1 DEF ChatInv, NothingLost
    <3>3. QED
      BY <3>1, <3>2
  <2>2. QED
    BY <2>1 DEF NothingLost
<1>11. Unannounced' /\ EventsOnce'
  BY <1>4, <1>7, EventsKept
<1>12. AmendsComing'
  <2>1. \A key : AmendDue(key) => AmendDue(key)'
    BY DEF AmendDue
  <2>2. \A key : LogAmended(key)' <=> LogAmended(key)
    BY DEF LogAmended
  <2>3. QED
    BY <1>4, <1>7, <2>1, <2>2 DEF ChatInv, AmendsComing
<1>13. QED
  BY <1>6, <1>8, <1>9, <1>10, <1>11, <1>12 DEF ChatInv

\* An amend is sent, and shown by the host.
LEMMA AmendSent ==
  ASSUME ChatInv, FeedAssumption, NEW x \in Event, Send(Frame("amend", EventKey(x))),
         Show(Host, Patched(cache[Host], EventKey(x))), client' = client, seated' = seated
  PROVE  /\ chan' \in [Member -> Seq(Frames)] /\ HistoryFirst'
         /\ cache' \in [Window -> Seq(ChatRecord)] /\ panel' \in [Window -> Panels]
         /\ PanelShowsCache'
         /\ \A m \in seated : \A key :
               /\ Has(m, key) => Has(m, key)'
               /\ Single(m, key) => Single(m, key)'
               /\ WillAmend(m, key) \/ key = EventKey(x) => WillAmend(m, key)'
               /\ Absent(m, key) => Absent(m, key)'
<1>1. PICK f : f = Frame("amend", EventKey(x))
  OBVIOUS
<1>2. /\ f \in Frames /\ f.type = "amend" /\ Send(f)
      /\ \A key : ~Says(f, key) /\ (Amends(f, key) <=> key = EventKey(x))
  BY <1>1 DEF Frame, Frames, Says, Amends, EventKey
<1>3. ChatTypeOK /\ HistoryFirst /\ PanelShowsCache
  BY DEF ChatInv
<1>4. PICK s \in Seq(ChatRecord) : s = Patched(cache[Host], EventKey(x))
  <2>0. PICK key : key = EventKey(x)
    OBVIOUS
  <2>1. PICK c \in Seq(ChatRecord) : c = cache[Host]
    BY <1>3, HostCache
  <2>2. PICK p : p = Patched(c, key)
    OBVIOUS
  <2>3. p \in Seq(ChatRecord)
    BY <2>2, PatchedFacts
  <2>4. QED
    BY <2>0, <2>1, <2>2, <2>3
<1>5. Show(Host, s)
  BY <1>4
<1>6. /\ cache' \in [Window -> Seq(ChatRecord)] /\ panel' \in [Window -> Panels]
      /\ PanelShowsCache' /\ \A m \in Member : cache'[m] = cache[m]
  BY <1>3, <1>5, HostShows
<1>7. chan' \in [Member -> Seq(Frames)] /\ HistoryFirst'
  BY <1>2, <1>3, <1>6, SendFacts
<1>8. \A m \in seated : \A key :
         /\ Has(m, key) => Has(m, key)'
         /\ Single(m, key) => Single(m, key)'
         /\ WillAmend(m, key) => WillAmend(m, key)'
         /\ Amends(f, key) => WillAmend(m, key)'
         /\ Absent(m, key) => Absent(m, key)'
  BY <1>2, <1>6, MembersSent
<1>9. QED
  BY <1>2, <1>6, <1>7, <1>8

LEMMA AmendStep ==
  ASSUME ChatInv, FeedAssumption, NEW j \in jobs, j.then = "amend", j.rec \in EventRecord,
         Send(Frame("amend", Key(j.rec))), Show(Host, Patched(cache[Host], Key(j.rec))),
         jobs' = jobs \ {j}, UNCHANGED <<log, client, seated, owed, analysis>>
  PROVE  ChatInv'
<1>1. PICK x \in Event : Key(j.rec) = EventKey(x)
  BY DEF EventRecord, Key, EventKey
<1>2. /\ chan' \in [Member -> Seq(Frames)] /\ HistoryFirst'
      /\ cache' \in [Window -> Seq(ChatRecord)] /\ panel' \in [Window -> Panels]
      /\ PanelShowsCache'
      /\ \A m \in seated : \A key :
            /\ Has(m, key) => Has(m, key)'
            /\ Single(m, key) => Single(m, key)'
            /\ WillAmend(m, key) \/ key = EventKey(x) => WillAmend(m, key)'
            /\ Absent(m, key) => Absent(m, key)'
  BY <1>1, AmendSent
<1>3. ChatTypeOK'
  BY <1>2 DEF ChatInv, ChatTypeOK
<1>4. OnlyEventsAmended'
  BY DEF ChatInv, OnlyEventsAmended
<1>5. NothingLost'
  <2>1. \A key : BroadcastDue(key) => BroadcastDue(key)'
    BY DEF BroadcastDue
  <2>2. QED
    BY <1>2, <2>1 DEF ChatInv, NothingLost
<1>6. Unannounced' /\ EventsOnce'
  BY <1>2, EventsKept
<1>7. AmendsComing'
  <2>1. \A key : LogAmended(key)' <=> LogAmended(key)
    BY DEF LogAmended
  <2>2. ASSUME NEW y \in Event, LogAmended(EventKey(y))
        PROVE  \/ AmendDue(EventKey(y))'
               \/ \A m \in seated : EventKey(y) \in owed'[m] => WillAmend(m, EventKey(y))'
    <3>1. CASE EventKey(y) = EventKey(x)
      BY <1>2, <3>1
    <3>2. CASE EventKey(y) # EventKey(x)
      <4>1. AmendDue(EventKey(y)) => AmendDue(EventKey(y))'
        BY <1>1, <3>2 DEF AmendDue
      <4>2. QED
        BY <1>2, <2>2, <4>1 DEF ChatInv, AmendsComing
    <3>3. QED
      BY <3>1, <3>2
  <2>3. QED
    BY <2>1, <2>2 DEF AmendsComing
<1>8. QED
  BY <1>2, <1>3, <1>4, <1>5, <1>6, <1>7 DEF ChatInv

\* The members are told to drop what they have.
LEMMA EmptiedStep ==
  ASSUME ChatInv, FeedAssumption, NEW j \in jobs, j.then \in {"cleared", "truncated"}, Follow(j),
         jobs' = jobs \ {j}, UNCHANGED <<log, client, seated, analysis>>
  PROVE  ChatInv'
<1>1. PICK s : s = IF j.then = "cleared" THEN <<>> ELSE log
  OBVIOUS
<1>2. s \in Seq(ChatRecord)
  BY <1>1 DEF ChatInv, ChatTypeOK
<1>3. /\ Send(Emptied) /\ Show(Host, s)
      /\ owed' = [m \in Member |->
            owed[m] \cap {Key(k.rec) : k \in {k \in jobs : k.then = "broadcast"}}]
  BY <1>1 DEF Follow
<1>4. PICK f : f = Emptied
  OBVIOUS
<1>5. /\ f \in Frames /\ f.type = "emptied" /\ Send(f) /\ \A key : ~Says(f, key)
  BY <1>3, <1>4 DEF Emptied, Frame, Frames, Says
<1>6. ChatTypeOK /\ HistoryFirst /\ PanelShowsCache /\ OnlyEventsAmended
  BY DEF ChatInv
<1>7. /\ cache' \in [Window -> Seq(ChatRecord)] /\ panel' \in [Window -> Panels]
      /\ PanelShowsCache' /\ \A m \in Member : cache'[m] = cache[m]
  BY <1>2, <1>3, <1>6, HostShows
<1>8. chan' \in [Member -> Seq(Frames)] /\ HistoryFirst'
  BY <1>5, <1>6, <1>7, SendFacts
<1>9. \A m \in seated : \A key :
         /\ Single(m, key) => Single(m, key)'
         /\ WillAmend(m, key) => WillAmend(m, key)'
         /\ Absent(m, key) => Absent(m, key)'
  BY <1>5, <1>7, MembersSent
<1>10. ChatTypeOK'
  BY <1>3, <1>6, <1>7, <1>8 DEF ChatTypeOK
<1>11. OnlyEventsAmended'
  BY <1>6 DEF OnlyEventsAmended
<1>12. NothingLost'
  <2>1. ASSUME NEW m \in seated, NEW key \in owed'[m] PROVE BroadcastDue(key)'
    <3>1. PICK k \in jobs : k.then = "broadcast" /\ key = Key(k.rec)
      BY <1>3, <1>6 DEF ChatTypeOK
    <3>2. k \in jobs'
      BY <3>1
    <3>3. QED
      BY <3>1, <3>2 DEF BroadcastDue
  <2>2. QED
    BY <2>1 DEF NothingLost
<1>13. Unannounced' /\ EventsOnce'
  BY <1>9, EventsKept
<1>14. AmendsComing'
  <2>1. \A key : AmendDue(key) => AmendDue(key)'
    BY DEF AmendDue
  <2>2. \A key : LogAmended(key)' <=> LogAmended(key)
    BY DEF LogAmended
  <2>3. \A m \in seated : owed'[m] \subseteq owed[m]
    BY <1>3, <1>6 DEF ChatTypeOK
  <2>4. QED
    BY <1>9, <2>1, <2>2, <2>3 DEF ChatInv, AmendsComing
<1>15. QED
  BY <1>7, <1>8, <1>10, <1>11, <1>12, <1>13, <1>14 DEF ChatInv

\* A clear or a truncation that could not be written stops there.
LEMMA WriteFails ==
  ASSUME ChatInv, NEW j \in jobs, j.then \in {"cleared", "truncated"}, jobs' = jobs \ {j},
         UNCHANGED <<log, client, seated, cache, panel, chan, owed, analysis>>
  PROVE  ChatInv'
<1>1. \A m \in seated : \A key :
         /\ Has(m, key)' <=> Has(m, key)
         /\ Single(m, key)' <=> Single(m, key)
         /\ WillAmend(m, key)' <=> WillAmend(m, key)
         /\ Absent(m, key)' <=> Absent(m, key)
  BY MembersUnmoved
<1>2. \A key : BroadcastDue(key) => BroadcastDue(key)'
  BY DEF BroadcastDue
<1>3. \A key : AmendDue(key) => AmendDue(key)'
  BY DEF AmendDue
<1>4. \A key : LogAmended(key)' <=> LogAmended(key)
  BY DEF LogAmended
<1>5. ChatTypeOK'
  BY DEF ChatInv, ChatTypeOK
<1>6. HistoryFirst' /\ PanelShowsCache' /\ OnlyEventsAmended'
  BY DEF ChatInv, HistoryFirst, PanelShowsCache, OnlyEventsAmended
<1>7. NothingLost'
  BY <1>1, <1>2 DEF ChatInv, NothingLost
<1>8. Unannounced' /\ EventsOnce'
  BY <1>1, EventsKept
<1>9. AmendsComing'
  BY <1>1, <1>3, <1>4 DEF ChatInv, AmendsComing
<1>10. QED
  BY <1>5, <1>6, <1>7, <1>8, <1>9 DEF ChatInv

LEMMA WriteStep ==
  ASSUME ChatInv, FeedAssumption, NEW j \in jobs, WriteEnds(j)
  PROVE  ChatInv'
<1>1. j \in Jobs
  BY DEF ChatInv, ChatTypeOK
<1>2. jobs' = jobs \ {j} /\ UNCHANGED <<log, client, seated, analysis>>
  BY DEF WriteEnds, clientVars
<1>3. CASE j.then = "broadcast" /\ j.rec \in UserRecord
  <2>1. Send(Frame("chat", j.rec)) /\ UNCHANGED <<cache, panel, owed>>
    BY <1>3 DEF WriteEnds, Follow
  <2>2. QED
    BY <1>2, <1>3, <2>1, BroadcastStep
<1>4. CASE j.then = "amend" /\ j.rec \in EventRecord
  <2>1. /\ Send(Frame("amend", Key(j.rec)))
        /\ Show(Host, Patched(cache[Host], Key(j.rec))) /\ UNCHANGED owed
    BY <1>4 DEF WriteEnds, Follow
  <2>2. QED
    BY <1>2, <1>4, <2>1, AmendStep
<1>5. CASE j.then \in {"cleared", "truncated"}
  <2>1. CASE Follow(j)
    BY <1>2, <1>5, <2>1, EmptiedStep
  <2>2. CASE UNCHANGED <<cache, panel, chan, owed>>
    BY <1>2, <1>5, <2>2, WriteFails
  <2>3. QED
    BY <1>5, <2>1, <2>2 DEF WriteEnds
<1>6. QED
  BY <1>1, <1>3, <1>4, <1>5, JobCases

\* The log is cleared or truncated.
LEMMA PruneStep ==
  ASSUME ChatInv, NEW s \in Seq(ChatRecord), Picks(s, log), NEW then \in {"cleared", "truncated"},
         Prune(then, s)
  PROVE  ChatInv'
<1>1. /\ log' = s /\ jobs' = jobs \cup {Job(then, None)}
      /\ UNCHANGED <<client, seated, cache, panel, chan, owed, analysis>>
  BY DEF Prune, memberVars, clientVars
<1>2. \A m \in seated : \A key :
         /\ Has(m, key)' <=> Has(m, key)
         /\ Single(m, key)' <=> Single(m, key)
         /\ WillAmend(m, key)' <=> WillAmend(m, key)
         /\ Absent(m, key)' <=> Absent(m, key)
  BY <1>1, MembersUnmoved
<1>3. PICK l \in Seq(ChatRecord) : l = log
  BY DEF ChatInv, ChatTypeOK
<1>4. \A i \in DOMAIN s : \E k \in DOMAIN l : s[i] = l[k]
  BY <1>3, PicksFacts
<1>5. \A key : key \in Keys(s) => key \in Keys(l)
  BY <1>4 DEF Keys
<1>6. \A key : Once(l, <<>>, key) => Once(s, <<>>, key)
  BY <1>3, PicksFacts
<1>7. ChatTypeOK'
  <2>1. Job(then, None) \in Jobs
    BY DEF Job, Jobs
  <2>2. QED
    BY <1>1, <2>1 DEF ChatInv, ChatTypeOK
<1>8. OnlyEventsAmended'
  <2>1. \A k \in DOMAIN l : l[k].amended => l[k].kind = "event"
    BY <1>3 DEF ChatInv, OnlyEventsAmended
  <2>2. QED
    BY <1>1, <1>4, <2>1 DEF OnlyEventsAmended
<1>9. HistoryFirst' /\ PanelShowsCache'
  BY <1>1 DEF ChatInv, HistoryFirst, PanelShowsCache
<1>10. NothingLost'
  <2>1. \A key : BroadcastDue(key) => BroadcastDue(key)'
    BY <1>1 DEF BroadcastDue
  <2>2. QED
    BY <1>1, <1>2, <2>1 DEF ChatInv, NothingLost
<1>11. Unannounced' /\ EventsOnce'
  BY <1>1, <1>2, <1>3, <1>5, <1>6, EventsKept
<1>12. AmendsComing'
  <2>1. \A key : AmendDue(key) => AmendDue(key)'
    BY <1>1 DEF AmendDue
  <2>2. ASSUME NEW key, LogAmended(key)' PROVE LogAmended(key)
    <3>1. PICK i \in DOMAIN s : s[i].amended /\ Key(s[i]) = key
      BY <1>1, <2>2 DEF LogAmended
    <3>2. PICK k \in DOMAIN l : l[k].amended /\ Key(l[k]) = key
      BY <1>4, <3>1
    <3>3. QED
      BY <1>3, <3>2 DEF LogAmended
  <2>3. QED
    BY <1>1, <1>2, <2>1, <2>2 DEF ChatInv, AmendsComing
<1>13. QED
  BY <1>7, <1>8, <1>9, <1>10, <1>11, <1>12 DEF ChatInv

LEMMA PruneSteps ==
  ASSUME ChatInv, ClearChat \/ TruncateKeepRecent \/ TruncateActivityOnly
  PROVE  ChatInv'
<1>1. PICK l \in Seq(ChatRecord) : l = log
  BY DEF ChatInv, ChatTypeOK
<1>2. CASE ClearChat
  <2>1. PICK s \in Seq(ChatRecord) : s = <<>>
    <3>1. <<>> \in Seq(ChatRecord)
      OBVIOUS
    <3>2. QED
      BY <3>1, Zenon
  <2>2. Picks(s, l)
    <3>1. 1..Len(s) = {} /\ [i \in {} |-> 0] \in [{} -> 1..Len(l)]
      BY <2>1
    <3>2. QED
      BY <3>1 DEF Picks
  <2>3. Prune("cleared", s)
    BY <1>2, <2>1 DEF ClearChat
  <2>4. Picks(s, log)
    BY <1>1, <2>2
  <2>5. QED
    BY <2>3, <2>4, PruneStep
<1>3. ASSUME NEW keep, Prune("truncated", Filtered(log, keep)) PROVE ChatInv'
  <2>1. PICK s : s = Filtered(l, keep)
    OBVIOUS
  <2>2. s \in Seq(ChatRecord) /\ Picks(s, l)
    BY <2>1, FilteredFacts
  <2>3. Prune("truncated", s) /\ Picks(s, log)
    BY <1>1, <1>3, <2>1, <2>2
  <2>4. QED
    BY <2>2, <2>3, PruneStep
<1>4. CASE TruncateKeepRecent
  <2>1. PICK keep : keep = {r \in Records(log) :
                       r.kind # "user" \/ Key(r) \in Keys(Recent(UserRecords(log), Kept))}
    <3>1. PICK records, recent :
             records = Records(log) /\ recent = Keys(Recent(UserRecords(log), Kept))
      OBVIOUS
    <3>2. PICK kept : kept = {r \in records : r.kind # "user" \/ Key(r) \in recent}
      OBVIOUS
    <3>3. QED
      BY <3>1, <3>2
  <2>2. Prune("truncated", Filtered(log, keep))
    BY <1>4, <2>1 DEF TruncateKeepRecent
  <2>3. QED
    BY <1>3, <2>2
<1>5. CASE TruncateActivityOnly
  <2>1. PICK keep : keep = {r \in Records(log) : r.kind # "user"}
    OBVIOUS
  <2>2. Prune("truncated", Filtered(log, keep))
    BY <1>5, <2>1 DEF TruncateActivityOnly
  <2>3. QED
    BY <1>3, <2>2
<1>6. QED
  BY <1>2, <1>4, <1>5

\* The record of a push is amended in the log.
LEMMA LogPatched ==
  ASSUME ChatInv, NEW x \in Event, log' = Patched(log, EventKey(x))
  PROVE  /\ log' \in Seq(ChatRecord) /\ OnlyEventsAmended'
         /\ \A key : key \in Keys(log') => key \in Keys(log)
         /\ \A key : Once(log, <<>>, key) => Once(log', <<>>, key)
         /\ \A key : key # EventKey(x) /\ LogAmended(key)' => LogAmended(key)
<1>0. PICK key : key = EventKey(x)
  OBVIOUS
<1>1. PICK s \in Seq(ChatRecord) : s = log
  BY DEF ChatInv, ChatTypeOK
<1>2. PICK p : p = Patched(s, key)
  OBVIOUS
<1>3. p \in Seq(ChatRecord) /\ DOMAIN p = DOMAIN s
  BY <1>2, PatchedFacts
<1>4. \A i \in DOMAIN s :
         /\ Key(p[i]) = Key(s[i]) /\ p[i].kind = s[i].kind
         /\ Key(s[i]) # key => p[i] = s[i]
  BY <1>2, PatchedFacts
<1>5. log' = p
  BY <1>0, <1>1, <1>2
<1>6. OnlyEventsAmended'
  <2>1. ASSUME NEW i \in DOMAIN s, p[i].amended PROVE p[i].kind = "event"
    <3>1. CASE Key(s[i]) = key
      <4>1. s[i].kind = "event"
        BY <1>0, <3>1 DEF Key, EventKey
      <4>2. QED
        BY <1>4, <4>1
    <3>2. CASE Key(s[i]) # key
      BY <1>1, <1>4, <2>1, <3>2 DEF ChatInv, OnlyEventsAmended
    <3>3. QED
      BY <3>1, <3>2
  <2>2. QED
    BY <1>3, <1>5, <2>1 DEF OnlyEventsAmended
<1>7. Keys(p) = Keys(s)
  BY <1>3, <1>4 DEF Keys
<1>8. \A k : Once(s, <<>>, k) => Once(p, <<>>, k)
  BY <1>3, <1>4 DEF Once
<1>9. ASSUME NEW k, k # key, LogAmended(k)' PROVE LogAmended(k)
  <2>1. PICK i \in DOMAIN s : p[i].amended /\ Key(p[i]) = k
    BY <1>3, <1>5, <1>9 DEF LogAmended
  <2>2. s[i].amended /\ Key(s[i]) = k
    BY <1>4, <1>9, <2>1
  <2>3. QED
    BY <1>1, <2>2 DEF LogAmended
<1>10. QED
  BY <1>0, <1>1, <1>3, <1>5, <1>6, <1>7, <1>8, <1>9

LEMMA AnalysisStep ==
  ASSUME ChatInv, FeedAssumption, NEW x \in Event, AnalysisEnds(x)
  PROVE  ChatInv'
<1>1. /\ analysis' = [analysis EXCEPT ![x] = "done"] /\ analysis[x] = "asked"
      /\ UNCHANGED <<client, seated, owed>>
  BY DEF AnalysisEnds, clientVars
<1>2. /\ analysis' \in [Event -> {"none", "asked", "done"}]
      /\ \A y \in Event : analysis'[y] = "none" => analysis[y] = "none"
  BY <1>1 DEF ChatInv, ChatTypeOK
<1>3. CASE UNCHANGED <<logVars, cache, panel, chan>>
  <2>1. \A m \in seated : \A key :
           /\ Has(m, key)' <=> Has(m, key)
           /\ Single(m, key)' <=> Single(m, key)
           /\ WillAmend(m, key)' <=> WillAmend(m, key)
           /\ Absent(m, key)' <=> Absent(m, key)
    BY <1>1, <1>3, MembersUnmoved
  <2>2. log' = log /\ jobs' = jobs
    BY <1>3 DEF logVars
  <2>3. ChatTypeOK'
    BY <1>1, <1>2, <1>3, <2>2 DEF ChatInv, ChatTypeOK
  <2>4. HistoryFirst' /\ PanelShowsCache' /\ OnlyEventsAmended'
    BY <1>1, <1>3, <2>2 DEF ChatInv, HistoryFirst, PanelShowsCache, OnlyEventsAmended
  <2>5. NothingLost'
    BY <1>1, <2>1, <2>2 DEF ChatInv, NothingLost, BroadcastDue
  <2>6. Unannounced' /\ EventsOnce'
    BY <1>1, <1>2, <2>1, <2>2, EventsKept
  <2>7. AmendsComing'
    BY <1>1, <2>1, <2>2 DEF ChatInv, AmendsComing, AmendDue, LogAmended
  <2>8. QED
    BY <2>3, <2>4, <2>5, <2>6, <2>7 DEF ChatInv
<1>4. CASE Amend(x) /\ EventKey(x) \in Keys(log)
  <2>1. /\ log' = Patched(log, EventKey(x)) /\ jobs' = jobs \cup {Job("amend", Rec("event", x))}
        /\ UNCHANGED <<chan, cache, panel>>
    BY <1>4 DEF Amend, EventKey
  <2>2. \A m \in seated : \A key :
           /\ Has(m, key)' <=> Has(m, key)
           /\ Single(m, key)' <=> Single(m, key)
           /\ WillAmend(m, key)' <=> WillAmend(m, key)
           /\ Absent(m, key)' <=> Absent(m, key)
    BY <1>1, <2>1, MembersUnmoved
  <2>3. /\ log' \in Seq(ChatRecord) /\ OnlyEventsAmended'
        /\ \A key : key \in Keys(log') => key \in Keys(log)
        /\ \A key : Once(log, <<>>, key) => Once(log', <<>>, key)
        /\ \A key : key # EventKey(x) /\ LogAmended(key)' => LogAmended(key)
    BY <2>1, LogPatched
  <2>4. PICK j : j = Job("amend", Rec("event", x))
    OBVIOUS
  <2>5. j \in Jobs /\ j.then = "amend" /\ Key(j.rec) = EventKey(x) /\ j \in jobs'
    BY <2>1, <2>4 DEF Job, Rec, Jobs, EventRecord, Key, EventKey
  <2>6. ChatTypeOK'
    BY <1>1, <1>2, <2>1, <2>3, <2>4, <2>5 DEF ChatInv, ChatTypeOK
  <2>7. HistoryFirst' /\ PanelShowsCache'
    BY <1>1, <2>1 DEF ChatInv, HistoryFirst, PanelShowsCache
  <2>8. NothingLost'
    <3>1. \A key : BroadcastDue(key) => BroadcastDue(key)'
      BY <2>1 DEF BroadcastDue
    <3>2. QED
      BY <1>1, <2>2, <3>1 DEF ChatInv, NothingLost
  <2>9. Unannounced' /\ EventsOnce'
    BY <1>1, <1>2, <2>2, <2>3, EventsKept
  <2>10. AmendsComing'
    <3>1. ASSUME NEW y \in Event, LogAmended(EventKey(y))'
          PROVE  \/ AmendDue(EventKey(y))'
                 \/ \A m \in seated : EventKey(y) \in owed[m] => WillAmend(m, EventKey(y))'
      <4>1. CASE EventKey(y) = EventKey(x)
        BY <2>5, <4>1 DEF AmendDue
      <4>2. CASE EventKey(y) # EventKey(x)
        <5>1. LogAmended(EventKey(y))
          BY <2>3, <3>1, <4>2
        <5>2. AmendDue(EventKey(y)) => AmendDue(EventKey(y))'
          BY <2>1 DEF AmendDue
        <5>3. QED
          BY <1>1, <2>2, <5>1, <5>2 DEF ChatInv, AmendsComing
      <4>3. QED
        BY <4>1, <4>2
    <3>2. QED
      BY <1>1, <3>1 DEF AmendsComing
  <2>11. QED
    BY <2>3, <2>6, <2>7, <2>8, <2>9, <2>10 DEF ChatInv
<1>5. CASE Amend(x) /\ EventKey(x) \notin Keys(log)
  <2>1. /\ Send(Frame("amend", EventKey(x))) /\ Show(Host, Patched(cache[Host], EventKey(x)))
        /\ log' = log /\ jobs' = jobs
    BY <1>5 DEF Amend, EventKey, logVars
  <2>2. /\ chan' \in [Member -> Seq(Frames)] /\ HistoryFirst'
        /\ cache' \in [Window -> Seq(ChatRecord)] /\ panel' \in [Window -> Panels]
        /\ PanelShowsCache'
        /\ \A m \in seated : \A key :
              /\ Has(m, key) => Has(m, key)'
              /\ Single(m, key) => Single(m, key)'
              /\ WillAmend(m, key) \/ key = EventKey(x) => WillAmend(m, key)'
              /\ Absent(m, key) => Absent(m, key)'
    BY <1>1, <2>1, AmendSent
  <2>3. ChatTypeOK'
    BY <1>1, <1>2, <2>1, <2>2 DEF ChatInv, ChatTypeOK
  <2>4. OnlyEventsAmended'
    BY <2>1 DEF ChatInv, OnlyEventsAmended
  <2>5. NothingLost'
    BY <1>1, <2>1, <2>2 DEF ChatInv, NothingLost, BroadcastDue
  <2>6. Unannounced' /\ EventsOnce'
    BY <1>1, <1>2, <2>1, <2>2, EventsKept
  <2>7. AmendsComing'
    BY <1>1, <2>1, <2>2 DEF ChatInv, AmendsComing, AmendDue, LogAmended
  <2>8. QED
    BY <2>2, <2>3, <2>4, <2>5, <2>6, <2>7 DEF ChatInv
<1>6. QED
  BY <1>3, <1>4, <1>5 DEF AnalysisEnds

\* A member joins and is sent the end of the log.
LEMMA JoinStep ==
  ASSUME ChatInv, FeedAssumption, NEW m \in Member, Join(m)
  PROVE  ChatInv'
<1>1. PICK l \in Seq(ChatRecord) : l = log
  BY DEF ChatInv, ChatTypeOK
<1>2. PICK s : s = Recent(l, Replay)
  OBVIOUS
<1>3. s \in Seq(ChatRecord) /\ Picks(s, l)
  BY <1>2, RecentFacts DEF FeedAssumption
<1>4. PICK f : f = Frame("history", s)
  OBVIOUS
<1>5. f \in Frames /\ f.type = "history" /\ f.arg = s
  BY <1>3, <1>4 DEF Frame, Frames
<1>6. /\ m \notin seated /\ seated' = seated \cup {m}
      /\ chan' = [chan EXCEPT ![m] = <<f>>] /\ owed' = [owed EXCEPT ![m] = Keys(s)]
      /\ client' = [client EXCEPT ![m] = IF @ = "none" THEN "new" ELSE @]
      /\ UNCHANGED <<log, jobs, cache, panel, analysis>>
  BY <1>1, <1>2, <1>4 DEF Join, logVars
<1>7. ChatTypeOK
  BY DEF ChatInv
<1>8. /\ chan' \in [Member -> Seq(Frames)] /\ chan'[m] = <<f>>
      /\ \A v \in Member : v # m => chan'[v] = chan[v]
  <2>1. <<f>> \in Seq(Frames)
    BY <1>5
  <2>2. QED
    BY <1>6, <1>7, <2>1 DEF ChatTypeOK
<1>9. owed' = [v \in Member |-> IF v = m THEN Keys(s) ELSE owed[v]]
  BY <1>6, <1>7 DEF ChatTypeOK
<1>10. ASSUME NEW v \in seated, NEW key
       PROVE  /\ Has(v, key)' <=> Has(v, key)
              /\ Single(v, key)' <=> Single(v, key)
              /\ WillAmend(v, key)' <=> WillAmend(v, key)
              /\ Absent(v, key)' <=> Absent(v, key)
  <2>1. chan'[v] = chan[v] /\ Heard(v)' = Heard(v)
    BY <1>6, <1>7, <1>8 DEF ChatTypeOK, Heard
  <2>2. QED
    BY <2>1, Unmoved
<1>11. PICK q : q = <<f>>
  OBVIOUS
<1>12. Len(q) = 1 /\ q[1] = f /\ q # <<>> /\ Head(q) = f
  BY <1>11
<1>13. Base(m)' = s /\ chan'[m] = q
  BY <1>5, <1>8, <1>11, <1>12 DEF Base, BaseOf
<1>14. \A i \in 1..Len(q) : i = 1 /\ q[i] = f
  BY <1>12
<1>15. ASSUME NEW key
       PROVE  /\ key \in Keys(s) => Has(m, key)'
              /\ Once(s, <<>>, key) => Single(m, key)'
              /\ (\A i \in DOMAIN s : Key(s[i]) = key => s[i].amended) => WillAmend(m, key)'
              /\ key \notin Keys(s) => Absent(m, key)'
  <2>1. ~Says(f, key) /\ f.type # "emptied"
    BY <1>5 DEF Says
  <2>2. key \in Keys(s) => Carries(s, q, key)
    BY <1>14, <2>1 DEF Carries
  <2>3. Once(s, <<>>, key) => Once(s, q, key)
    BY <1>14, <2>1 DEF Once
  <2>4. (\A i \in DOMAIN s : Key(s[i]) = key => s[i].amended) => Amended(s, q, key)
    BY <1>14, <2>1 DEF Amended
  <2>5. key \notin Keys(s) => key \notin Keys(s) /\ \A i \in 1..Len(q) : ~Says(q[i], key)
    BY <1>14, <2>1
  <2>6. QED
    BY <1>13, <2>2, <2>3, <2>4, <2>5 DEF Has, Single, WillAmend, Absent
<1>16. /\ \A i \in DOMAIN s : \E k \in DOMAIN l : s[i] = l[k]
       /\ \A key : key \in Keys(s) => key \in Keys(l)
       /\ \A key : Once(l, <<>>, key) => Once(s, <<>>, key)
  <2>1. \A i \in DOMAIN s : \E k \in DOMAIN l : s[i] = l[k]
    BY <1>3, PicksFacts
  <2>2. \A key : key \in Keys(s) => key \in Keys(l)
    BY <2>1 DEF Keys
  <2>3. \A key : Once(l, <<>>, key) => Once(s, <<>>, key)
    BY <1>3, PicksFacts
  <2>4. QED
    BY <2>1, <2>2, <2>3
<1>17. ChatTypeOK'
  BY <1>6, <1>7, <1>8, <1>9 DEF ChatTypeOK
<1>18. HistoryFirst'
  <2>1. ASSUME NEW v \in seated', NEW i \in 2..Len(chan'[v]) PROVE chan'[v][i].type # "history"
    <3>1. CASE v = m
      BY <1>12, <1>13, <2>1, <3>1
    <3>2. CASE v # m
      <4>1. v \in seated /\ chan'[v] = chan[v]
        BY <1>6, <1>7, <1>8, <3>2 DEF ChatTypeOK
      <4>2. QED
        BY <2>1, <4>1 DEF ChatInv, HistoryFirst
    <3>3. QED
      BY <3>1, <3>2
  <2>2. QED
    BY <2>1 DEF HistoryFirst
<1>19. PanelShowsCache' /\ OnlyEventsAmended'
  BY <1>6 DEF ChatInv, PanelShowsCache, OnlyEventsAmended
<1>20. NothingLost'
  <2>1. \A key : BroadcastDue(key) => BroadcastDue(key)'
    BY <1>6 DEF BroadcastDue
  <2>2. ASSUME NEW v \in seated', NEW key \in owed'[v] PROVE BroadcastDue(key)' \/ Has(v, key)'
    <3>1. CASE v = m
      BY <1>9, <1>15, <2>2, <3>1
    <3>2. CASE v # m
      <4>1. v \in seated /\ key \in owed[v]
        BY <1>6, <1>7, <1>9, <2>2, <3>2 DEF ChatTypeOK
      <4>2. QED
        BY <1>10, <2>1, <4>1 DEF ChatInv, NothingLost
    <3>3. QED
      BY <3>1, <3>2
  <2>3. QED
    BY <2>2 DEF NothingLost
<1>21. Unannounced'
  <2>1. ASSUME NEW y \in Event, analysis[y] = "none"
        PROVE  EventKey(y) \notin Keys(log) /\ \A v \in seated' : Absent(v, EventKey(y))'
    <3>1. EventKey(y) \notin Keys(log) /\ \A v \in seated : Absent(v, EventKey(y))
      BY <2>1 DEF ChatInv, Unannounced
    <3>2. Absent(m, EventKey(y))'
      BY <1>1, <1>15, <1>16, <3>1
    <3>3. \A v \in seated : Absent(v, EventKey(y))'
      BY <1>10, <3>1
    <3>4. QED
      BY <1>6, <3>1, <3>2, <3>3
  <2>2. QED
    BY <1>6, <2>1 DEF Unannounced
<1>22. EventsOnce'
  <2>1. ASSUME NEW y \in Event
        PROVE  Once(log, <<>>, EventKey(y)) /\ \A v \in seated' : Single(v, EventKey(y))'
    <3>1. Once(log, <<>>, EventKey(y)) /\ \A v \in seated : Single(v, EventKey(y))
      BY DEF ChatInv, EventsOnce
    <3>2. Single(m, EventKey(y))'
      BY <1>1, <1>15, <1>16, <3>1
    <3>3. \A v \in seated : Single(v, EventKey(y))'
      BY <1>10, <3>1
    <3>4. QED
      BY <1>6, <3>1, <3>2, <3>3
  <2>2. QED
    BY <1>6, <2>1 DEF EventsOnce
<1>23. AmendsComing'
  <2>1. ASSUME NEW y \in Event, LogAmended(EventKey(y))
        PROVE  \/ AmendDue(EventKey(y))'
               \/ \A v \in seated' : EventKey(y) \in owed'[v] => WillAmend(v, EventKey(y))'
    <3>1. AmendDue(EventKey(y)) => AmendDue(EventKey(y))'
      BY <1>6 DEF AmendDue
    <3>2. PICK k \in DOMAIN l : l[k].amended /\ Key(l[k]) = EventKey(y)
      BY <1>1, <2>1 DEF LogAmended
    <3>3. Once(l, <<>>, EventKey(y))
      BY <1>1 DEF ChatInv, EventsOnce
    <3>4. \A i \in DOMAIN l : Key(l[i]) = EventKey(y) => l[i].amended
      BY <3>2, <3>3 DEF Once
    <3>5. \A i \in DOMAIN s : Key(s[i]) = EventKey(y) => s[i].amended
      BY <1>16, <3>4
    <3>6. WillAmend(m, EventKey(y))'
      BY <1>15, <3>5
    <3>7. \/ AmendDue(EventKey(y))
          \/ \A v \in seated : EventKey(y) \in owed[v] => WillAmend(v, EventKey(y))
      BY <2>1 DEF ChatInv, AmendsComing
    <3>8. \A v \in seated : v # m => owed'[v] = owed[v]
      BY <1>7, <1>9 DEF ChatTypeOK
    <3>9. QED
      BY <1>6, <1>10, <3>1, <3>6, <3>7, <3>8
  <2>2. \A key : LogAmended(key)' <=> LogAmended(key)
    BY <1>6 DEF LogAmended
  <2>3. QED
    BY <2>1, <2>2 DEF AmendsComing
<1>24. QED
  BY <1>17, <1>18, <1>19, <1>20, <1>21, <1>22, <1>23 DEF ChatInv

\* A member goes: it loses the connection, and perhaps its client and what it had.
LEMMA GoneStep ==
  ASSUME ChatInv, NEW m \in Member, Dropped(m) \/ Ended(m) \/ (Left(m) /\ client[m] = "wired")
  PROVE  ChatInv'
<1>1. /\ Gone(m) /\ UNCHANGED <<log, jobs, analysis>>
      /\ UNCHANGED <<cache, panel>> \/ Show(m, <<>>)
      /\ client' = client \/ client' = [client EXCEPT ![m] = "none"]
  BY DEF Dropped, Ended, Left, logVars, clientVars
<1>2. /\ seated' = seated \ {m}
      /\ chan' = [chan EXCEPT ![m] = <<>>] /\ owed' = [owed EXCEPT ![m] = {}]
  BY <1>1 DEF Gone
<1>3. ChatTypeOK /\ PanelShowsCache
  BY DEF ChatInv
<1>4. /\ cache' \in [Window -> Seq(ChatRecord)] /\ panel' \in [Window -> Panels]
      /\ PanelShowsCache' /\ \A v \in Member : v # m => cache'[v] = cache[v]
  <2>1. CASE UNCHANGED <<cache, panel>>
    BY <1>3, <2>1 DEF ChatTypeOK, PanelShowsCache
  <2>2. CASE Show(m, <<>>)
    <3>1. PICK s \in Seq(ChatRecord) : s = <<>>
      <4>1. <<>> \in Seq(ChatRecord)
        OBVIOUS
      <4>2. QED
        BY <4>1, Zenon
    <3>2. Show(m, s) /\ m \in Window
      BY <2>2, <3>1 DEF Window
    <3>3. /\ cache' \in [Window -> Seq(ChatRecord)] /\ panel' \in [Window -> Panels]
          /\ PanelShowsCache' /\ \A v \in Window \ {m} : cache'[v] = cache[v]
      BY <1>3, <3>2, ShowFacts
    <3>4. QED
      BY <3>3 DEF Window
  <2>3. QED
    BY <1>1, <2>1, <2>2
<1>5. /\ chan' \in [Member -> Seq(Frames)] /\ \A v \in Member : v # m => chan'[v] = chan[v]
  <2>1. <<>> \in Seq(Frames)
    OBVIOUS
  <2>2. QED
    BY <1>2, <1>3, <2>1 DEF ChatTypeOK
<1>6. owed' = [v \in Member |-> IF v = m THEN {} ELSE owed[v]]
  BY <1>2, <1>3 DEF ChatTypeOK
<1>7. \A v \in seated' : v \in seated /\ v \in Member /\ v # m /\ owed'[v] = owed[v]
  BY <1>2, <1>3, <1>6 DEF ChatTypeOK
<1>8. ASSUME NEW v \in seated', NEW key
      PROVE  /\ Has(v, key)' <=> Has(v, key)
             /\ Single(v, key)' <=> Single(v, key)
             /\ WillAmend(v, key)' <=> WillAmend(v, key)
             /\ Absent(v, key)' <=> Absent(v, key)
  <2>1. chan'[v] = chan[v] /\ Heard(v)' = Heard(v)
    BY <1>1, <1>3, <1>4, <1>5, <1>7 DEF ChatTypeOK, Heard
  <2>2. QED
    BY <2>1, Unmoved
<1>9. ChatTypeOK'
  BY <1>1, <1>2, <1>3, <1>4, <1>5, <1>6 DEF ChatTypeOK
<1>10. HistoryFirst'
  BY <1>5, <1>7 DEF ChatInv, HistoryFirst
<1>11. OnlyEventsAmended'
  BY <1>1 DEF ChatInv, OnlyEventsAmended
<1>12. NothingLost'
  <2>1. \A key : BroadcastDue(key) => BroadcastDue(key)'
    BY <1>1 DEF BroadcastDue
  <2>2. ASSUME NEW v \in seated', NEW key \in owed'[v] PROVE BroadcastDue(key)' \/ Has(v, key)'
    BY <1>7, <1>8, <2>1, <2>2 DEF ChatInv, NothingLost
  <2>3. QED
    BY <2>2 DEF NothingLost
<1>13. Unannounced' /\ EventsOnce'
  BY <1>1, <1>2, <1>8, EventsKept
<1>14. AmendsComing'
  <2>1. ASSUME NEW y \in Event, LogAmended(EventKey(y))
        PROVE  \/ AmendDue(EventKey(y))'
               \/ \A v \in seated' : EventKey(y) \in owed'[v] => WillAmend(v, EventKey(y))'
    <3>1. AmendDue(EventKey(y)) => AmendDue(EventKey(y))'
      BY <1>1 DEF AmendDue
    <3>2. QED
      BY <1>7, <1>8, <2>1, <3>1 DEF ChatInv, AmendsComing
  <2>2. \A key : LogAmended(key)' <=> LogAmended(key)
    BY <1>1 DEF LogAmended
  <2>3. QED
    BY <2>1, <2>2 DEF AmendsComing
<1>15. QED
  BY <1>4, <1>9, <1>10, <1>11, <1>12, <1>13, <1>14 DEF ChatInv

\* A member that listens reads a frame.
LEMMA HeardStep ==
  ASSUME ChatInv, NEW m \in Member, Deliver(m), client[m] = "wired"
  PROVE  ChatInv'
<1>1. ChatTypeOK /\ PanelShowsCache /\ HistoryFirst
  BY DEF ChatInv
<1>2. /\ chan[m] # <<>> /\ Received(m, Head(chan[m])) /\ chan' = [chan EXCEPT ![m] = Tail(@)]
      /\ UNCHANGED <<log, jobs, client, seated, owed, analysis>>
  BY DEF Deliver, logVars, clientVars
<1>3. PICK c \in Seq(ChatRecord), q \in Seq(Frames) : c = cache[m] /\ q = chan[m]
  BY <1>1, BaseType
<1>4. PICK f \in Frames : f = Head(q)
  BY <1>2, <1>3, TailFrames
<1>5. PICK d \in Seq(ChatRecord) : d = Reading(c, f)
  BY ReadingType
<1>6. Show(m, d)
  <2>1. Received(m, f)
    BY <1>2, <1>3, <1>4
  <2>2. QED
    BY <1>3, <1>5, <2>1, FrameCases DEF Received, Reading, Shown
<1>7. /\ cache' \in [Window -> Seq(ChatRecord)] /\ panel' \in [Window -> Panels]
      /\ PanelShowsCache' /\ cache'[m] = d /\ \A v \in Member : v # m => cache'[v] = cache[v]
  <2>1. m \in Window
    BY DEF Window
  <2>2. /\ cache' \in [Window -> Seq(ChatRecord)] /\ panel' \in [Window -> Panels]
        /\ PanelShowsCache' /\ cache'[m] = d /\ \A v \in Window \ {m} : cache'[v] = cache[v]
    BY <1>1, <1>6, <2>1, ShowFacts
  <2>3. QED
    BY <2>2 DEF Window
<1>8. /\ chan' \in [Member -> Seq(Frames)] /\ chan'[m] = Tail(chan[m])
      /\ \A v \in Member : v # m => chan'[v] = chan[v]
  <2>1. PICK r \in Seq(Frames) : r = Tail(q)
    BY <1>2, <1>3, TailFrames
  <2>2. chan' = [chan EXCEPT ![m] = r]
    BY <1>2, <1>3, <2>1
  <2>3. QED
    BY <1>1, <1>3, <2>1, <2>2 DEF ChatTypeOK
<1>9. ASSUME NEW v \in seated, NEW key
      PROVE  /\ Has(v, key) => Has(v, key)'
             /\ Single(v, key) => Single(v, key)'
             /\ WillAmend(v, key) /\ Single(v, key) => WillAmend(v, key)'
             /\ Absent(v, key) => Absent(v, key)'
  <2>1. CASE v = m
    <3>1. cache'[v] = Reading(cache[v], Head(chan[v])) /\ chan'[v] = Tail(chan[v])
      BY <1>3, <1>4, <1>5, <1>7, <1>8, <2>1
    <3>2. chan[v] # <<>>
      BY <1>2, <2>1
    <3>3. QED
      BY <1>1, <1>2, <2>1, <3>1, <3>2, DeliverKeeps
  <2>2. CASE v # m
    <3>1. chan'[v] = chan[v] /\ Heard(v)' = Heard(v)
      BY <1>1, <1>2, <1>7, <1>8, <2>2 DEF ChatTypeOK, Heard
    <3>2. QED
      BY <3>1, Unmoved
  <2>3. QED
    BY <2>1, <2>2
<1>10. ChatTypeOK'
  BY <1>1, <1>2, <1>7, <1>8 DEF ChatTypeOK
<1>11. HistoryFirst'
  <2>1. ASSUME NEW v \in seated PROVE \A i \in 2..Len(chan'[v]) : chan'[v][i].type # "history"
    <3>1. CASE v = m
      <4>1. cache'[v] = Reading(cache[v], Head(chan[v])) /\ chan'[v] = Tail(chan[v])
        BY <1>3, <1>4, <1>5, <1>7, <1>8, <3>1
      <4>2. chan[v] # <<>>
        BY <1>2, <3>1
      <4>3. QED
        BY <1>1, <1>2, <3>1, <4>1, <4>2, DeliverKeeps
    <3>2. CASE v # m
      BY <1>1, <1>8, <3>2 DEF ChatTypeOK, HistoryFirst
    <3>3. QED
      BY <3>1, <3>2
  <2>2. QED
    BY <1>2, <2>1 DEF HistoryFirst
<1>12. OnlyEventsAmended'
  BY <1>2 DEF ChatInv, OnlyEventsAmended
<1>13. NothingLost'
  <2>1. \A key : BroadcastDue(key) => BroadcastDue(key)'
    BY <1>2 DEF BroadcastDue
  <2>2. ASSUME NEW v \in seated, NEW key \in owed[v] PROVE BroadcastDue(key)' \/ Has(v, key)'
    BY <1>9, <2>1 DEF ChatInv, NothingLost
  <2>3. QED
    BY <1>2, <2>2 DEF NothingLost
<1>14. Unannounced' /\ EventsOnce'
  BY <1>2, <1>9, EventsKept
<1>15. AmendsComing'
  <2>1. ASSUME NEW y \in Event, LogAmended(EventKey(y))
        PROVE  \/ AmendDue(EventKey(y))'
               \/ \A v \in seated : EventKey(y) \in owed'[v] => WillAmend(v, EventKey(y))'
    <3>1. AmendDue(EventKey(y)) => AmendDue(EventKey(y))'
      BY <1>2 DEF AmendDue
    <3>2. \A v \in seated : Single(v, EventKey(y))
      BY DEF ChatInv, EventsOnce
    <3>3. QED
      BY <1>2, <1>9, <2>1, <3>1, <3>2 DEF ChatInv, AmendsComing
  <2>2. \A key : LogAmended(key)' <=> LogAmended(key)
    BY <1>2 DEF LogAmended
  <2>3. QED
    BY <1>2, <2>1, <2>2 DEF AmendsComing
<1>16. QED
  BY <1>7, <1>10, <1>11, <1>12, <1>13, <1>14, <1>15 DEF ChatInv

\* A window that does not listen yet reads one.
LEMMA UnheardStep ==
  ASSUME ChatInv, NEW m \in Member, Deliver(m), client[m] # "wired"
  PROVE  ChatInv'
<1>1. ChatTypeOK /\ PanelShowsCache /\ HistoryFirst
  BY DEF ChatInv
<1>2. PICK f : f = Head(chan[m])
  OBVIOUS
<1>3. /\ chan[m] # <<>> /\ Unheard(m, f) /\ chan' = [chan EXCEPT ![m] = Tail(@)]
      /\ UNCHANGED <<log, jobs, cache, panel, client, seated, analysis>>
  BY <1>2 DEF Deliver, Unheard, logVars, clientVars
<1>4. /\ chan' \in [Member -> Seq(Frames)] /\ chan'[m] = Tail(chan[m])
      /\ \A v \in Member : v # m => chan'[v] = chan[v]
  <2>1. PICK r \in Seq(Frames) : r = Tail(chan[m])
    BY <1>1, <1>3, BaseType, TailFrames
  <2>2. chan' = [chan EXCEPT ![m] = r]
    BY <1>3, <2>1
  <2>3. QED
    BY <1>1, <2>1, <2>2 DEF ChatTypeOK
<1>5. PICK lost : lost = CASE f.type = "history" -> Keys(f.arg)
                           [] f.type = "chat"    -> {Key(f.arg)}
                           [] OTHER              -> {}
  OBVIOUS
<1>6. owed' = [v \in Member |-> IF v = m THEN owed[v] \ lost ELSE owed[v]]
  BY <1>1, <1>3, <1>5 DEF Unheard, ChatTypeOK
<1>7. ASSUME NEW v \in seated, NEW key
      PROVE  /\ Has(v, key) => Has(v, key)' \/ key \notin owed'[v]
             /\ Single(v, key) => Single(v, key)'
             /\ WillAmend(v, key) => WillAmend(v, key)'
             /\ Absent(v, key) => Absent(v, key)'
  <2>1. CASE v = m
    <3>1. /\ Has(v, key) => \/ Has(v, key)'
                            \/ Says(Head(chan[v]), key)
                            \/ Head(chan[v]).type = "history" /\ key \in Keys(Head(chan[v]).arg)
          /\ Single(v, key) => Single(v, key)'
          /\ WillAmend(v, key) => WillAmend(v, key)'
          /\ Absent(v, key) => Absent(v, key)'
      <4>1. chan'[v] = Tail(chan[v]) /\ chan[v] # <<>> /\ client[v] # "wired"
        BY <1>3, <1>4, <2>1
      <4>2. QED
        BY <1>1, <1>3, <4>1, UnheardKeeps
    <3>2. Says(f, key) => key \in lost
      BY <1>5 DEF Says
    <3>3. f.type = "history" /\ key \in Keys(f.arg) => key \in lost
      BY <1>5
    <3>4. key \in lost => key \notin owed'[v]
      BY <1>6, <2>1
    <3>5. QED
      BY <1>2, <2>1, <3>1, <3>2, <3>3, <3>4
  <2>2. CASE v # m
    <3>1. chan'[v] = chan[v] /\ Heard(v)' = Heard(v)
      BY <1>1, <1>3, <1>4, <2>2 DEF ChatTypeOK, Heard
    <3>2. QED
      BY <3>1, Unmoved
  <2>3. QED
    BY <2>1, <2>2
<1>8. \A v \in seated : owed'[v] \subseteq owed[v]
  BY <1>1, <1>6 DEF ChatTypeOK
<1>9. ChatTypeOK'
  BY <1>1, <1>3, <1>4, <1>6 DEF ChatTypeOK
<1>10. HistoryFirst'
  <2>1. ASSUME NEW v \in seated PROVE \A i \in 2..Len(chan'[v]) : chan'[v][i].type # "history"
    <3>1. CASE v = m
      <4>1. chan'[v] = Tail(chan[v]) /\ chan[v] # <<>> /\ client[v] # "wired"
        BY <1>3, <1>4, <3>1
      <4>2. QED
        BY <1>1, <1>3, <4>1, UnheardKeeps
    <3>2. CASE v # m
      BY <1>1, <1>4, <3>2 DEF ChatTypeOK, HistoryFirst
    <3>3. QED
      BY <3>1, <3>2
  <2>2. QED
    BY <1>3, <2>1 DEF HistoryFirst
<1>11. PanelShowsCache' /\ OnlyEventsAmended'
  BY <1>3 DEF ChatInv, PanelShowsCache, OnlyEventsAmended
<1>12. NothingLost'
  <2>1. \A key : BroadcastDue(key) => BroadcastDue(key)'
    BY <1>3 DEF BroadcastDue
  <2>2. ASSUME NEW v \in seated, NEW key \in owed'[v] PROVE BroadcastDue(key)' \/ Has(v, key)'
    BY <1>7, <1>8, <2>1 DEF ChatInv, NothingLost
  <2>3. QED
    BY <1>3, <2>2 DEF NothingLost
<1>13. Unannounced' /\ EventsOnce'
  BY <1>3, <1>7, EventsKept
<1>14. AmendsComing'
  <2>1. \A key : AmendDue(key) => AmendDue(key)'
    BY <1>3 DEF AmendDue
  <2>2. \A key : LogAmended(key)' <=> LogAmended(key)
    BY <1>3 DEF LogAmended
  <2>3. QED
    BY <1>3, <1>7, <1>8, <2>1, <2>2 DEF ChatInv, AmendsComing
<1>15. QED
  BY <1>9, <1>10, <1>11, <1>12, <1>13, <1>14 DEF ChatInv

\* A window whose client is gone drops what it has kept.
LEMMA ForgotStep ==
  ASSUME ChatInv, NEW m \in Member, Left(m), client[m] # "wired"
  PROVE  ChatInv'
<1>1. /\ Show(m, <<>>)
      /\ UNCHANGED <<log, jobs, client, seated, chan, owed, analysis>>
  BY DEF Left, logVars
<1>2. ChatTypeOK /\ PanelShowsCache
  BY DEF ChatInv
<1>3. /\ cache' \in [Window -> Seq(ChatRecord)] /\ panel' \in [Window -> Panels]
      /\ PanelShowsCache' /\ \A v \in Member : v # m => cache'[v] = cache[v]
  <2>1. PICK s \in Seq(ChatRecord) : s = <<>>
    <3>1. <<>> \in Seq(ChatRecord)
      OBVIOUS
    <3>2. QED
      BY <3>1, Zenon
  <2>2. Show(m, s) /\ m \in Window
    BY <1>1, <2>1 DEF Window
  <2>3. /\ cache' \in [Window -> Seq(ChatRecord)] /\ panel' \in [Window -> Panels]
        /\ PanelShowsCache' /\ \A v \in Window \ {m} : cache'[v] = cache[v]
    BY <1>2, <2>2, ShowFacts
  <2>4. QED
    BY <2>3 DEF Window
<1>4. ASSUME NEW v \in seated, NEW key
      PROVE  /\ Has(v, key)' <=> Has(v, key)
             /\ Single(v, key)' <=> Single(v, key)
             /\ WillAmend(v, key)' <=> WillAmend(v, key)
             /\ Absent(v, key)' <=> Absent(v, key)
  <2>1. chan'[v] = chan[v] /\ Heard(v)' = Heard(v)
    BY <1>1, <1>2, <1>3 DEF ChatTypeOK, Heard
  <2>2. QED
    BY <2>1, Unmoved
<1>5. ChatTypeOK'
  BY <1>1, <1>2, <1>3 DEF ChatTypeOK
<1>6. HistoryFirst' /\ OnlyEventsAmended'
  BY <1>1 DEF ChatInv, HistoryFirst, OnlyEventsAmended
<1>7. NothingLost'
  BY <1>1, <1>4 DEF ChatInv, NothingLost, BroadcastDue
<1>8. Unannounced' /\ EventsOnce'
  BY <1>1, <1>4, EventsKept
<1>9. AmendsComing'
  BY <1>1, <1>4 DEF ChatInv, AmendsComing, AmendDue, LogAmended
<1>10. QED
  BY <1>3, <1>5, <1>6, <1>7, <1>8, <1>9 DEF ChatInv

\* A client gets its listeners: what the window kept of an earlier connection counts again.
LEMMA WireStep ==
  ASSUME ChatInv, KeptOnce, NEW m \in Member, Wire(m)
  PROVE  ChatInv'
<1>1. /\ client[m] = "new" /\ client' = [client EXCEPT ![m] = "wired"]
      /\ UNCHANGED <<log, jobs, cache, panel, seated, chan, owed, analysis>>
  BY DEF Wire, logVars
<1>2. ChatTypeOK /\ PanelShowsCache /\ HistoryFirst
  BY DEF ChatInv
<1>3. ASSUME NEW v \in seated, v # m, NEW key
      PROVE  /\ Has(v, key)' <=> Has(v, key)
             /\ Single(v, key)' <=> Single(v, key)
             /\ WillAmend(v, key)' <=> WillAmend(v, key)
             /\ Absent(v, key)' <=> Absent(v, key)
  <2>1. chan'[v] = chan[v] /\ Heard(v)' = Heard(v)
    BY <1>1, <1>2, <1>3 DEF ChatTypeOK, Heard
  <2>2. QED
    BY <2>1, Unmoved
<1>4. Heard(m) = <<>> /\ Heard(m)' = cache[m] /\ chan'[m] = chan[m]
  BY <1>1, <1>2 DEF Heard, ChatTypeOK
<1>5. \/ Base(m)' = Base(m)
      \/ Base(m) = <<>> /\ Base(m)' = cache[m]
  BY <1>4 DEF Base, BaseOf
<1>6. ASSUME NEW key PROVE Has(m, key) => Has(m, key)'
  <2>1. key \notin Keys(<<>>)
    BY DEF Keys
  <2>2. QED
    BY <1>4, <1>5, <2>1 DEF Has, Carries
<1>7. ASSUME NEW y \in Event
      PROVE  /\ Single(m, EventKey(y)) => Single(m, EventKey(y))'
             /\ analysis[y] = "none" /\ Absent(m, EventKey(y)) => Absent(m, EventKey(y))'
             /\ Has(m, EventKey(y)) /\ WillAmend(m, EventKey(y)) => WillAmend(m, EventKey(y))'
  <2>1. Own(m, EventKey(y)) /\ (analysis[y] = "none" => Without(m, EventKey(y)))
    BY DEF KeptOnce
  <2>2. CASE Base(m)' = Base(m)
    BY <1>4, <2>2 DEF Single, Absent, WillAmend
  <2>3. CASE Base(m) = <<>> /\ Base(m)' = cache[m]
    <3>1. Single(m, EventKey(y))'
      BY <1>4, <2>1, <2>3 DEF Single, Own
    <3>2. analysis[y] = "none" => Absent(m, EventKey(y))'
      BY <1>4, <2>1, <2>3 DEF Absent, Without
    <3>3. ASSUME Has(m, EventKey(y)), WillAmend(m, EventKey(y))
          PROVE  WillAmend(m, EventKey(y))'
      <4>1. EventKey(y) \notin Keys(<<>>)
        BY DEF Keys
      <4>2. \E i \in 1..Len(chan[m]) : Says(chan[m][i], EventKey(y))
        BY <2>3, <3>3, <4>1 DEF Has, Carries
      <4>3. EventKey(y) \notin Keys(cache[m])
        BY <2>1, <4>2 DEF Own, Once
      <4>4. \A i \in DOMAIN cache[m] : Key(cache[m][i]) # EventKey(y)
        BY <4>3 DEF Keys
      <4>5. QED
        BY <1>4, <2>3, <3>3, <4>4 DEF WillAmend, Amended
    <3>4. QED
      BY <3>1, <3>2, <3>3
  <2>4. QED
    BY <1>5, <2>2, <2>3
<1>8. ChatTypeOK'
  BY <1>1, <1>2 DEF ChatTypeOK
<1>9. HistoryFirst' /\ PanelShowsCache' /\ OnlyEventsAmended'
  BY <1>1 DEF ChatInv, HistoryFirst, PanelShowsCache, OnlyEventsAmended
<1>10. NothingLost'
  <2>1. ASSUME NEW v \in seated, NEW key \in owed[v] PROVE BroadcastDue(key) \/ Has(v, key)'
    BY <1>3, <1>6 DEF ChatInv, NothingLost
  <2>2. QED
    BY <1>1, <2>1 DEF NothingLost, BroadcastDue
<1>11. Unannounced'
  <2>1. ASSUME NEW y \in Event, analysis[y] = "none", NEW v \in seated
        PROVE  Absent(v, EventKey(y))'
    BY <1>3, <1>7, <2>1 DEF ChatInv, Unannounced
  <2>2. QED
    BY <1>1, <2>1 DEF ChatInv, Unannounced
<1>12. EventsOnce'
  <2>1. ASSUME NEW y \in Event, NEW v \in seated PROVE Single(v, EventKey(y))'
    BY <1>3, <1>7 DEF ChatInv, EventsOnce
  <2>2. QED
    BY <1>1, <2>1 DEF ChatInv, EventsOnce
<1>13. AmendsComing'
  <2>1. ASSUME NEW y \in Event, NEW v \in seated, EventKey(y) \in owed[v],
               WillAmend(v, EventKey(y))
        PROVE  WillAmend(v, EventKey(y))'
    <3>1. CASE v # m
      BY <1>3, <2>1, <3>1
    <3>2. CASE v = m
      <4>1. ~BroadcastDue(EventKey(y))
        BY <1>2 DEF BroadcastDue, EventKey, Key, ChatTypeOK, Jobs, UserRecord
      <4>2. Has(m, EventKey(y))
        BY <2>1, <3>2, <4>1 DEF ChatInv, NothingLost
      <4>3. QED
        BY <1>7, <2>1, <3>2, <4>2
    <3>3. QED
      BY <3>1, <3>2
  <2>2. \A y \in Event : LogAmended(EventKey(y)) =>
           \/ AmendDue(EventKey(y))
           \/ \A v \in seated : EventKey(y) \in owed[v] => WillAmend(v, EventKey(y))'
    BY <2>1 DEF ChatInv, AmendsComing
  <2>3. QED
    BY <1>1, <2>2 DEF AmendsComing, LogAmended, AmendDue
<1>14. QED
  BY <1>8, <1>9, <1>10, <1>11, <1>12, <1>13 DEF ChatInv

-----------------------------------------------------------------------------
(* What the windows keep *)

LEMMA InitKept == Init => KeptOnce
<1>1. \A key : key \notin Keys(<<>>)
  BY DEF Keys
<1>2. QED
  BY <1>1 DEF Init, KeptOnce, Own, Without, Once, Window

\* Only what one window keeps or is sent changes.
LEMMA KeptBut ==
  ASSUME KeptOnce, NEW m \in Member, \A v \in Member \ seated' : chan'[v] = <<>>,
         \A v \in Member \ {m} : chan'[v] = chan[v] /\ cache'[v] = cache[v],
         \A y \in Event : analysis'[y] = "none" => analysis[y] = "none",
         \A y \in Event :
            /\ Own(m, EventKey(y)) => Own(m, EventKey(y))'
            /\ analysis'[y] = "none" /\ Without(m, EventKey(y)) => Without(m, EventKey(y))'
  PROVE  KeptOnce'
<1>1. ASSUME NEW v \in Member, NEW y \in Event
      PROVE  /\ Own(v, EventKey(y))'
             /\ analysis'[y] = "none" => Without(v, EventKey(y))'
  <2>1. Own(v, EventKey(y)) /\ (analysis[y] = "none" => Without(v, EventKey(y)))
    BY DEF KeptOnce
  <2>2. CASE v = m
    BY <2>1, <2>2
  <2>3. CASE v # m
    <3>1. chan'[v] = chan[v] /\ cache'[v] = cache[v]
      BY <2>3
    <3>2. QED
      BY <2>1, <3>1 DEF Own, Without
  <2>4. QED
    BY <2>2, <2>3
<1>2. QED
  BY <1>1 DEF KeptOnce

\* Nothing that they keep or are sent changes.
LEMMA KeptSame ==
  ASSUME KeptOnce, seated' = seated, chan' = chan, \A m \in Member : cache'[m] = cache[m],
         \A y \in Event : analysis'[y] = "none" => analysis[y] = "none"
  PROVE  KeptOnce'
  BY DEF KeptOnce, Own, Without

\* A frame is sent; if it announces an event, that event is a new one.
LEMMA KeptSent ==
  ASSUME ChatTypeOK, KeptOnce, NEW f \in Frames, Send(f), seated' = seated,
         \A m \in Member : cache'[m] = cache[m],
         \A y \in Event : analysis'[y] = "none" => analysis[y] = "none",
         \A y \in Event : Says(f, EventKey(y)) => analysis[y] = "none" /\ analysis'[y] # "none"
  PROVE  KeptOnce'
<1>1. \A m \in Member : chan'[m] = IF m \in seated THEN Append(chan[m], f) ELSE <<>>
  BY DEF Send
<1>2. ASSUME NEW m \in Member, NEW y \in Event
      PROVE  /\ Own(m, EventKey(y))'
             /\ analysis'[y] = "none" => Without(m, EventKey(y))'
  <2>1. Own(m, EventKey(y)) /\ (analysis[y] = "none" => Without(m, EventKey(y)))
    BY DEF KeptOnce
  <2>2. CASE m \notin seated
    <3>1. chan'[m] = chan[m] /\ cache'[m] = cache[m]
      BY <1>1, <2>2 DEF KeptOnce
    <3>2. QED
      BY <2>1, <3>1 DEF Own, Without
  <2>3. CASE m \in seated
    <3>1. PICK q \in Seq(Frames), c \in Seq(ChatRecord) : q = chan[m] /\ c = cache[m]
      BY BaseType
    <3>2. PICK r \in Seq(Frames) : r = Append(q, f)
      BY AppendFrame
    <3>3. chan'[m] = r /\ cache'[m] = c
      BY <1>1, <2>3, <3>1, <3>2
    <3>4. PICK key : key = EventKey(y)
      OBVIOUS
    <3>5. Own(m, key)'
      <4>1. CASE ~Says(f, key)
        <5>1. Once(c, q, key) => Once(c, r, key)
          BY <3>2, <4>1, OnceStays
        <5>2. QED
          BY <2>1, <3>1, <3>3, <3>4, <5>1 DEF Own
      <4>2. CASE Says(f, key)
        <5>1. key \notin Keys(c) /\ \A i \in 1..Len(q) : ~Says(q[i], key)
          BY <2>1, <3>1, <3>4, <4>2 DEF Without
        <5>2. Once(c, r, key)
          BY <3>2, <5>1, OnceStays
        <5>3. QED
          BY <3>3, <5>2 DEF Own
      <4>3. QED
        BY <4>1, <4>2
    <3>6. ASSUME analysis'[y] = "none" PROVE Without(m, key)'
      <4>1. ~Says(f, key) /\ Without(m, key)
        BY <2>1, <3>4, <3>6
      <4>2. /\ Len(q) \in Nat /\ Len(r) = Len(q) + 1
            /\ r[Len(q) + 1] = f /\ \A i \in 1..Len(q) : r[i] = q[i]
        BY <3>2, AppendFrame
      <4>3. \A i \in 1..Len(r) : ~Says(r[i], key)
        <5>1. ASSUME NEW i \in 1..Len(r) PROVE r[i] = f \/ (i \in 1..Len(q) /\ r[i] = q[i])
          BY <4>2
        <5>2. QED
          BY <3>1, <4>1, <5>1 DEF Without
      <4>4. QED
        BY <3>1, <3>3, <4>1, <4>3 DEF Without
    <3>7. QED
      BY <3>4, <3>5, <3>6
  <2>4. QED
    BY <2>2, <2>3
<1>3. QED
  BY <1>1, <1>2 DEF KeptOnce

\* What the host's window shows is no member's.
LEMMA HostOnly ==
  ASSUME FeedAssumption, NEW s, Show(Host, s)
  PROVE  \A m \in Member : cache'[m] = cache[m]
  BY DEF Show, FeedAssumption

\* What follows an operation on the log.
LEMMA KeptFollow ==
  ASSUME ChatInv, KeptOnce, FeedAssumption, NEW j \in jobs, WriteEnds(j)
  PROVE  KeptOnce'
<1>1. ChatTypeOK /\ j \in Jobs
  BY DEF ChatInv, ChatTypeOK
<1>2. seated' = seated /\ analysis' = analysis
  BY DEF WriteEnds
<1>3. CASE UNCHANGED <<cache, panel, chan, owed>>
  BY <1>2, <1>3, KeptSame
<1>4. CASE Follow(j) /\ j.then = "broadcast" /\ j.rec \in UserRecord
  <2>1. PICK f : f = Frame("chat", j.rec)
    OBVIOUS
  <2>2. f \in Frames /\ \A y \in Event : ~Says(f, EventKey(y))
    BY <1>4, <2>1 DEF Frame, Frames, Says, UserRecord, ChatRecord, Key, EventKey
  <2>3. Send(f) /\ cache' = cache
    BY <1>4, <2>1 DEF Follow
  <2>4. QED
    BY <1>1, <1>2, <2>2, <2>3, KeptSent
<1>5. CASE Follow(j) /\ j.then = "amend" /\ j.rec \in EventRecord
  <2>1. PICK f : f = Frame("amend", Key(j.rec))
    OBVIOUS
  <2>2. f \in Frames /\ \A y \in Event : ~Says(f, EventKey(y))
    BY <1>5, <2>1 DEF Frame, Frames, Says, EventRecord, Key
  <2>3. Send(f) /\ \A m \in Member : cache'[m] = cache[m]
    BY <1>5, <2>1, HostOnly DEF Follow
  <2>4. QED
    BY <1>1, <1>2, <2>2, <2>3, KeptSent
<1>6. CASE Follow(j) /\ j.then \in {"cleared", "truncated"}
  <2>1. PICK f : f = Emptied
    OBVIOUS
  <2>2. f \in Frames /\ \A y \in Event : ~Says(f, EventKey(y))
    BY <2>1 DEF Emptied, Frame, Frames, Says
  <2>3. Send(f) /\ \A m \in Member : cache'[m] = cache[m]
    BY <1>6, <2>1, HostOnly DEF Follow
  <2>4. QED
    BY <1>1, <1>2, <2>2, <2>3, KeptSent
<1>7. QED
  BY <1>1, <1>3, <1>4, <1>5, <1>6, JobCases DEF WriteEnds

\* An event is announced, which nobody has.
LEMMA KeptAnnounce ==
  ASSUME ChatInv, KeptOnce, FeedAssumption, NEW x \in Event, Announce(x)
  PROVE  KeptOnce'
<1>1. PICK f : f = Frame("chat", Rec("event", x))
  OBVIOUS
<1>2. f \in Frames /\ \A y \in Event : Says(f, EventKey(y)) => y = x
  BY <1>1 DEF Frame, Frames, Says, Rec, ChatRecord, EventRecord, Key, EventKey
<1>3. Send(f) /\ seated' = seated /\ \A m \in Member : cache'[m] = cache[m]
  BY <1>1, HostOnly DEF Announce, SystemEvent, Shown
<1>4. /\ analysis[x] = "none" /\ analysis'[x] # "none"
      /\ \A y \in Event : analysis'[y] = "none" => analysis[y] = "none"
  BY DEF Announce, ChatInv, ChatTypeOK
<1>5. QED
  BY <1>2, <1>3, <1>4, KeptSent DEF ChatInv

LEMMA KeptAnalysis ==
  ASSUME ChatInv, KeptOnce, FeedAssumption, NEW x \in Event, AnalysisEnds(x)
  PROVE  KeptOnce'
<1>1. /\ seated' = seated
      /\ \A y \in Event : analysis'[y] = "none" => analysis[y] = "none"
  BY DEF AnalysisEnds, ChatInv, ChatTypeOK
<1>2. CASE UNCHANGED <<chan, cache, panel>>
  BY <1>1, <1>2, KeptSame
<1>3. CASE Send(Frame("amend", EventKey(x))) /\ Show(Host, Patched(cache[Host], EventKey(x)))
  <2>1. PICK f : f = Frame("amend", EventKey(x))
    OBVIOUS
  <2>2. f \in Frames /\ \A y \in Event : ~Says(f, EventKey(y))
    BY <2>1 DEF Frame, Frames, Says, EventKey
  <2>3. Send(f) /\ \A m \in Member : cache'[m] = cache[m]
    BY <1>3, <2>1, HostOnly
  <2>4. QED
    BY <1>1, <2>2, <2>3, KeptSent DEF ChatInv
<1>4. QED
  BY <1>2, <1>3 DEF AnalysisEnds, Amend, EventKey

\* A member that joins is sent a history, which announces nothing.
LEMMA KeptJoin ==
  ASSUME ChatInv, KeptOnce, NEW m \in Member, Join(m)
  PROVE  KeptOnce'
<1>1. PICK f : f = Frame("history", Recent(log, Replay))
  OBVIOUS
<1>2. /\ seated' = seated \cup {m} /\ chan' = [chan EXCEPT ![m] = <<f>>]
      /\ UNCHANGED <<cache, analysis>>
  BY <1>1 DEF Join
<1>3. /\ chan'[m] = <<f>> /\ \A v \in Member \ {m} : chan'[v] = chan[v]
  BY <1>2 DEF ChatInv, ChatTypeOK
<1>4. \A v \in Member \ seated' : chan'[v] = <<>>
  BY <1>2, <1>3 DEF KeptOnce
<1>5. \A i \in 1..Len(chan'[m]) : \A key : ~Says(chan'[m][i], key)
  BY <1>1, <1>3 DEF Frame, Says
<1>6. ASSUME NEW y \in Event
      PROVE  /\ Own(m, EventKey(y)) => Own(m, EventKey(y))'
             /\ Without(m, EventKey(y)) => Without(m, EventKey(y))'
  BY <1>2, <1>5 DEF Own, Without, Once
<1>7. QED
  BY <1>2, <1>3, <1>4, <1>6, KeptBut

\* A window loses its connection, the records, or both.
LEMMA KeptGone ==
  ASSUME ChatInv, KeptOnce, NEW m \in Member, Dropped(m) \/ Ended(m) \/ Left(m)
  PROVE  KeptOnce'
<1>1. /\ UNCHANGED analysis
      /\ Gone(m) \/ (chan' = chan /\ seated' = seated)
      /\ cache' = cache \/ cache' = [cache EXCEPT ![m] = <<>>]
  BY DEF Dropped, Ended, Left, Show
<1>2. /\ m \in Window /\ (cache' = cache \/ cache'[m] = <<>>)
      /\ \A v \in Member \ {m} : cache'[v] = cache[v]
  BY <1>1 DEF ChatInv, ChatTypeOK, Window
<1>3. /\ chan'[m] = <<>> \/ chan' = chan
      /\ \A v \in Member \ {m} : chan'[v] = chan[v]
      /\ \A v \in Member \ seated' : chan'[v] = <<>>
  BY <1>1 DEF Gone, ChatInv, ChatTypeOK, KeptOnce
<1>4. ASSUME NEW y \in Event
      PROVE  /\ Own(m, EventKey(y)) => Own(m, EventKey(y))'
             /\ Without(m, EventKey(y)) => Without(m, EventKey(y))'
  <2>1. Len(<<>>) = 0 /\ DOMAIN <<>> = {} /\ EventKey(y) \notin Keys(<<>>)
    BY DEF Keys
  <2>2. QED
    BY <1>2, <1>3, <2>1 DEF Own, Without, Once
<1>5. QED
  BY <1>1, <1>2, <1>3, <1>4, KeptBut

\* A window reads a frame.
LEMMA KeptDelivered ==
  ASSUME ChatInv, ChatInv', KeptOnce, NEW m \in Member, Deliver(m)
  PROVE  KeptOnce'
<1>1. /\ chan[m] # <<>> /\ chan' = [chan EXCEPT ![m] = Tail(@)]
      /\ UNCHANGED <<client, seated, analysis>>
  BY DEF Deliver, clientVars
<1>2. m \in seated
  BY <1>1 DEF KeptOnce
<1>3. PICK q \in Seq(Frames) : q = chan[m]
  BY BaseType DEF ChatInv
<1>4. q # <<>> /\ \A i \in 2..Len(q) : q[i].type # "history"
  BY <1>1, <1>2, <1>3 DEF ChatInv, HistoryFirst
<1>5. PICK r \in Seq(Frames) : r = Tail(q)
  BY <1>4, TailFrames
<1>6. chan'[m] = r /\ \A v \in Member \ {m} : chan'[v] = chan[v]
  BY <1>1, <1>3, <1>5 DEF ChatInv, ChatTypeOK
<1>7. \A v \in Member \ {m} : cache'[v] = cache[v]
  <2>1. PICK f \in Frames : f = Head(chan[m])
    BY <1>3, <1>4, TailFrames
  <2>2. CASE client[m] = "wired"
    <3>1. \E d : cache' = [cache EXCEPT ![m] = d]
      <4>1. Received(m, f)
        BY <2>1, <2>2 DEF Deliver
      <4>2. QED
        BY <4>1, FrameCases DEF Received, Show, Shown
    <3>2. QED
      BY <3>1 DEF ChatInv, ChatTypeOK, Window
  <2>3. CASE client[m] # "wired"
    BY <2>3 DEF Deliver, Unheard
  <2>4. QED
    BY <2>2, <2>3
<1>8. \A v \in Member \ seated' : chan'[v] = <<>>
  BY <1>1, <1>2, <1>6 DEF KeptOnce
<1>9. ASSUME NEW y \in Event
      PROVE  /\ Own(m, EventKey(y)) => Own(m, EventKey(y))'
             /\ analysis'[y] = "none" /\ Without(m, EventKey(y)) => Without(m, EventKey(y))'
  <2>1. CASE client[m] = "wired"
    <3>1. Base(m)' = cache'[m]
      <4>1. BaseOf(cache'[m], r) = cache'[m]
        BY <1>4, <1>5, TailHistory
      <4>2. QED
        BY <1>1, <1>6, <2>1, <4>1 DEF Base, Heard
    <3>2. Single(m, EventKey(y))' /\ (analysis'[y] = "none" => Absent(m, EventKey(y))')
      BY <1>1, <1>2 DEF ChatInv, EventsOnce, Unannounced
    <3>3. QED
      BY <3>1, <3>2 DEF Own, Without, Single, Absent
  <2>2. CASE client[m] # "wired"
    <3>1. cache' = cache
      BY <2>2 DEF Deliver, Unheard
    <3>2. \A i \in 1..Len(r) : r[i] = q[i + 1] /\ i + 1 \in 1..Len(q)
      BY <1>4, <1>5, TailFrames
    <3>3. \A i \in 1..Len(r), k \in 1..Len(r) : i + 1 = k + 1 => i = k
      OBVIOUS
    <3>4. PICK c, key : c = cache[m] /\ key = EventKey(y)
      OBVIOUS
    <3>5. Once(c, q, key) => Once(c, r, key)
      BY <3>2, <3>3 DEF Once
    <3>6. (\A i \in 1..Len(q) : ~Says(q[i], key)) => \A i \in 1..Len(r) : ~Says(r[i], key)
      BY <3>2
    <3>7. QED
      BY <1>3, <1>6, <3>1, <3>4, <3>5, <3>6 DEF Own, Without
  <2>3. QED
    BY <2>1, <2>2
<1>10. QED
  BY <1>1, <1>6, <1>7, <1>8, <1>9, KeptBut

LEMMA KeptStep ==
  ASSUME FeedAssumption
  PROVE  ChatInv /\ ChatInv' /\ KeptOnce /\ [Next]_vars => KeptOnce'
<1> SUFFICES ASSUME ChatInv, ChatInv', KeptOnce, [Next]_vars PROVE KeptOnce'
  OBVIOUS
<1>1. ASSUME NEW w \in Watched, OpenPanel(w) \/ PanelReady(w) \/ ClosePanel(w) PROVE KeptOnce'
  <2>1. UNCHANGED <<cache, seated, chan, analysis>>
    BY <1>1 DEF OpenPanel, PanelReady, ClosePanel, memberVars
  <2>2. QED
    BY <2>1, KeptSame
<1>2. ASSUME NEW w \in Window, NEW n \in Said, Say(w, n) PROVE KeptOnce'
  <2>1. UNCHANGED <<seated, chan, analysis>>
    BY <1>2 DEF Say, memberVars
  <2>2. \A m \in Member : cache'[m] = cache[m]
    BY <1>2, HostOnly DEF Say, Shown
  <2>3. QED
    BY <2>1, <2>2, KeptSame
<1>3. ASSUME NEW x \in Event, Announce(x) \/ AnalysisEnds(x) PROVE KeptOnce'
  BY <1>3, KeptAnnounce, KeptAnalysis
<1>4. ASSUME NEW j \in jobs, WriteEnds(j) PROVE KeptOnce'
  BY <1>4, KeptFollow
<1>5. CASE ClearChat \/ TruncateKeepRecent \/ TruncateActivityOnly
  <2>1. UNCHANGED <<cache, seated, chan, analysis>>
    BY <1>5 DEF ClearChat, TruncateKeepRecent, TruncateActivityOnly, Prune, memberVars
  <2>2. QED
    BY <2>1, KeptSame
<1>6. ASSUME NEW m \in Member,
             Join(m) \/ Wire(m) \/ Dropped(m) \/ Ended(m) \/ Left(m) \/ Deliver(m)
      PROVE  KeptOnce'
  <2>1. CASE Wire(m)
    <3>1. UNCHANGED <<cache, seated, chan, analysis>>
      BY <2>1 DEF Wire
    <3>2. QED
      BY <3>1, KeptSame
  <2>2. QED
    BY <1>6, <2>1, KeptJoin, KeptGone, KeptDelivered
<1>7. CASE UNCHANGED vars
  <2>1. UNCHANGED <<cache, seated, chan, analysis>>
    BY <1>7 DEF vars, memberVars
  <2>2. QED
    BY <2>1, KeptSame
<1>8. QED
  BY <1>1, <1>2, <1>3, <1>4, <1>5, <1>6, <1>7 DEF Next

-----------------------------------------------------------------------------
(* The theorems *)

LEMMA StepSafe ==
  ASSUME FeedAssumption
  PROVE  ChatInv /\ KeptOnce /\ [Next]_vars => ChatInv'
<1> SUFFICES ASSUME ChatInv, KeptOnce, [Next]_vars PROVE ChatInv'
  OBVIOUS
<1>1. ASSUME NEW w \in Watched, OpenPanel(w) \/ PanelReady(w) \/ ClosePanel(w) PROVE ChatInv'
  <2>1. w \in Window
    BY DEF FeedAssumption, Window
  <2>2. QED
    BY <1>1, <2>1, PanelSteps
<1>2. ASSUME NEW w \in Window, NEW n \in Said, Say(w, n) PROVE ChatInv'
  BY <1>2, SayStep
<1>3. ASSUME NEW x \in Event, Announce(x) \/ AnalysisEnds(x) PROVE ChatInv'
  BY <1>3, AnnounceStep, AnalysisStep
<1>4. ASSUME NEW j \in jobs, WriteEnds(j) PROVE ChatInv'
  BY <1>4, WriteStep
<1>5. CASE ClearChat \/ TruncateKeepRecent \/ TruncateActivityOnly
  BY <1>5, PruneSteps
<1>6. ASSUME NEW m \in Member,
             Join(m) \/ Wire(m) \/ Dropped(m) \/ Ended(m) \/ Left(m) \/ Deliver(m)
      PROVE  ChatInv'
  <2>1. CASE Left(m)
    BY <2>1, GoneStep, ForgotStep
  <2>2. CASE Deliver(m)
    BY <2>2, HeardStep, UnheardStep
  <2>3. QED
    BY <1>6, <2>1, <2>2, JoinStep, WireStep, GoneStep
<1>7. CASE UNCHANGED vars
  <2>1. UNCHANGED <<log, jobs, cache, panel, client, seated, chan, owed, analysis>>
    BY <1>7 DEF vars, logVars, memberVars, clientVars
  <2>2. \A m \in seated : \A key :
           /\ Has(m, key)' <=> Has(m, key)
           /\ Single(m, key)' <=> Single(m, key)
           /\ WillAmend(m, key)' <=> WillAmend(m, key)
           /\ Absent(m, key)' <=> Absent(m, key)
    BY <2>1, MembersUnmoved
  <2>3. ChatTypeOK'
    BY <2>1 DEF ChatInv, ChatTypeOK
  <2>4. HistoryFirst' /\ PanelShowsCache' /\ OnlyEventsAmended'
    BY <2>1 DEF ChatInv, HistoryFirst, PanelShowsCache, OnlyEventsAmended
  <2>5. NothingLost'
    BY <2>1, <2>2 DEF ChatInv, NothingLost, BroadcastDue
  <2>6. Unannounced' /\ EventsOnce'
    BY <2>1, <2>2, EventsKept
  <2>7. AmendsComing'
    BY <2>1, <2>2 DEF ChatInv, AmendsComing, AmendDue, LogAmended
  <2>8. QED
    BY <2>3, <2>4, <2>5, <2>6, <2>7 DEF ChatInv
<1>8. QED
  BY <1>1, <1>2, <1>3, <1>4, <1>5, <1>6, <1>7 DEF Next

\* Every record that a member is owed, because it was sent while or before the window had its
\* listeners and not read too early, is in what it has or on its way; no event is there
\* twice; and every amended event of the log is amended in the copies the members are owed.
THEOREM ChatInvariance == Spec => []ChatInv
<1>1. Init => ChatInv /\ KeptOnce
  BY InitSafe, InitKept
<1>2. ChatInv /\ KeptOnce /\ [Next]_vars => ChatInv' /\ KeptOnce'
  BY FeedAssumption, StepSafe, KeptStep
<1>3. QED
  BY <1>1, <1>2, PTL DEF Spec

\* What the panel of a member shows is its cache.
LEMMA SeenIsCache ==
  ASSUME ChatInv, NEW m \in Member
  PROVE  Seen(m) = cache[m]
  BY DEF ChatInv, PanelShowsCache, Window, Seen

\* A member that stays gets every record of its replay and every later one that is not pruned,
\* but for those its window read before it had its listeners.
THEOREM NothingIsMissed == Spec => []NothingMissed
<1>1. ChatInv => NothingMissed
  <2> SUFFICES ASSUME ChatInv, NEW m \in Member, Quiet(m), NEW key \in owed[m]
               PROVE  key \in Keys(Seen(m))
    BY DEF NothingMissed
  <2>1. m \in seated /\ chan[m] = <<>> /\ jobs = {}
    BY DEF Quiet
  <2>2. Has(m, key)
    BY <2>1 DEF ChatInv, NothingLost, BroadcastDue
  <2>3. Base(m) = cache[m] \/ Base(m) = <<>>
    BY <2>1 DEF Base, BaseOf, Heard
  <2>4. key \in Keys(cache[m])
    <3>1. key \notin Keys(<<>>)
      BY DEF Keys
    <3>2. QED
      BY <2>1, <2>2, <2>3, <3>1 DEF Has, Carries
  <2>5. QED
    BY <2>4, SeenIsCache
<1>2. QED
  BY <1>1, ChatInvariance, PTL

\* An amended push of the host's log is amended in the copy of every member that was sent the
\* push over this connection and had its listeners when it read it.
THEOREM AmendsArrive == Spec => []AmendsReachMembers
<1>1. ChatInv => AmendsReachMembers
  <2> SUFFICES ASSUME ChatInv, NEW m \in Member, Quiet(m), NEW i \in DOMAIN log,
                      NEW k \in DOMAIN Seen(m), log[i].amended,
                      Key(Seen(m)[k]) = Key(log[i]), Key(log[i]) \in owed[m]
               PROVE  Seen(m)[k].amended
    BY DEF AmendsReachMembers
  <2>1. m \in seated /\ chan[m] = <<>> /\ jobs = {}
    BY DEF Quiet
  <2>2. Has(m, Key(log[i]))
    BY <2>1 DEF ChatInv, NothingLost, BroadcastDue
  <2>3. PICK x \in Event : Key(log[i]) = EventKey(x)
    <3>1. log[i] \in ChatRecord /\ log[i].kind = "event"
      BY DEF ChatInv, ChatTypeOK, OnlyEventsAmended
    <3>2. QED
      BY <3>1 DEF ChatRecord, UserRecord, EventRecord, Key, EventKey
  <2>4. LogAmended(EventKey(x)) /\ ~AmendDue(EventKey(x))
    BY <2>1, <2>3 DEF LogAmended, AmendDue
  <2>5. WillAmend(m, EventKey(x))
    BY <2>1, <2>3, <2>4 DEF ChatInv, AmendsComing
  <2>6. Seen(m) = cache[m] /\ Base(m) = cache[m]
    <3>1. Base(m) # <<>>
      BY <2>1, <2>2 DEF Has, Carries, Keys
    <3>2. Base(m) = Heard(m)
      BY <2>1 DEF Base, BaseOf
    <3>3. QED
      BY <3>1, <3>2, SeenIsCache DEF Heard
  <2>7. Amended(cache[m], <<>>, EventKey(x))
    BY <2>1, <2>5, <2>6 DEF WillAmend
  <2>8. QED
    BY <2>3, <2>6, <2>7 DEF Amended
<1>2. QED
  BY <1>1, ChatInvariance, PTL

=============================================================================
