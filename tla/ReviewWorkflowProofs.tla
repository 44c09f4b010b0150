------------------------- MODULE ReviewWorkflowProofs --------------------------
(***************************************************************************)
(* Theorems about ReviewWorkflow, for every number of members, reviews and   *)
(* requests.                                                               *)
(***************************************************************************)
EXTENDS ReviewWorkflow, TLAPS, WellFoundedInduction

-----------------------------------------------------------------------------
(* The frames a client has yet to read *)

\* h lists what an extension that starts from the given reviews knows after each frame
Course(h, known, f) ==
    /\ h = [i \in 0..Len(f) |-> h[i]]
    /\ h[0] = known
    /\ \A i \in 1..Len(f) : h[i] = Applied(h[i - 1], f[i])

\* There is only one such course.
LEMMA CourseUnique ==
    ASSUME NEW g, NEW h, NEW known, NEW S, NEW f \in Seq(S),
           Course(g, known, f), Course(h, known, f)
    PROVE  g = h
<1> DEFINE Bad == {i \in Nat : i <= Len(f) /\ g[i] # h[i]}
<1>0. Len(f) \in Nat
  OBVIOUS
<1>1. SUFFICES Bad = {}
  <2>1. \A i \in 0..Len(f) : g[i] = h[i]
    BY <1>0, <1>1
  <2> QED
    BY <2>1 DEF Course
<1>2. SUFFICES ASSUME Bad # {} PROVE FALSE
  OBVIOUS
<1>3. PICK n \in Bad : \A m \in Bad : ~(<<m, n>> \in OpToRel(<, Nat))
  BY <1>2, NatLessThanWellFounded, WFMin, Bad \subseteq Nat
<1>4. n \in Nat /\ n <= Len(f) /\ g[n] # h[n]
  OBVIOUS
<1>5. n # 0
  BY <1>4 DEF Course
<1>6. n - 1 \in Nat /\ n \in 1..Len(f)
  BY <1>0, <1>4, <1>5
<1>7. g[n - 1] = h[n - 1]
  <2>1. <<n - 1, n>> \in OpToRel(<, Nat)
    BY <1>4, <1>6 DEF OpToRel
  <2>2. n - 1 \notin Bad
    <3> HIDE DEF Bad
    <3> QED
      BY <2>1, <1>3
  <2>3. n - 1 <= Len(f)
    BY <1>0, <1>6
  <2> QED
    BY <2>2, <2>3, <1>6
<1> QED
  BY <1>4, <1>6, <1>7 DEF Course

\* The last state of a course is what After() computes.
LEMMA CourseEnds ==
    ASSUME NEW h, NEW known, NEW S, NEW f \in Seq(S), Course(h, known, f)
    PROVE  After(known, f) = h[Len(f)]
<1> DEFINE Steps(g) == [i \in 0..Len(f) |-> IF i = 0 THEN known ELSE Applied(g[i - 1], f[i])]
           at == CHOOSE g : g = Steps(g)
<1>0. Len(f) \in Nat
  OBVIOUS
<1>1. h = Steps(h)
  <2>1. \A i \in 0..Len(f) : h[i] = Steps(h)[i]
    <3> SUFFICES ASSUME NEW i \in 0..Len(f) PROVE h[i] = Steps(h)[i]
      OBVIOUS
    <3>1. CASE i = 0
      BY <3>1, <1>0 DEF Course
    <3>2. CASE i # 0
      <4>1. i \in 1..Len(f)
        BY <3>2, <1>0
      <4> QED
        BY <4>1, <3>2 DEF Course
    <3> QED
      BY <3>1, <3>2
  <2> QED
    BY <2>1 DEF Course
<1>2. at = Steps(at)
  BY <1>1
<1>3. Course(at, known, f)
  <2> HIDE DEF at
  <2>1. \A i \in 0..Len(f) : at[i] = Steps(at)[i]
    BY <1>2
  <2>2. at = [i \in 0..Len(f) |-> at[i]]
    BY <1>2
  <2> QED
    BY <2>1, <2>2, <1>0 DEF Course
<1>4. at = h
  BY <1>3, CourseUnique
<1>5. After(known, f) = at[Len(f)]
  BY DEF After
<1> QED
  BY <1>4, <1>5


\* A frame that is sent extends the course by what it makes of the last state.
LEMMA CourseAppend ==
    ASSUME NEW h, NEW known, NEW S, NEW f \in Seq(S), NEW e \in S, Course(h, known, f)
    PROVE  \E g : /\ Course(g, known, Append(f, e))
                  /\ g[Len(Append(f, e))] = Applied(h[Len(f)], e)
<1> DEFINE n == Len(f)
           q == Append(f, e)
           g == [i \in 0..n + 1 |-> IF i <= n THEN h[i] ELSE Applied(h[n], e)]
<1>1. n \in Nat /\ Len(q) = n + 1 /\ q[n + 1] = e /\ \A i \in 1..n : q[i] = f[i]
  OBVIOUS
<1>2. g[0] = known
  BY <1>1 DEF Course
<1>3. ASSUME NEW i \in 1..n + 1 PROVE g[i] = Applied(g[i - 1], q[i])
  <2>1. CASE i <= n
    <3>1. i \in 1..n /\ i - 1 \in 0..n
      BY <1>1, <2>1
    <3>2. g[i] = h[i] /\ g[i - 1] = h[i - 1] /\ q[i] = f[i]
      BY <3>1, <1>1
    <3> QED
      BY <3>1, <3>2 DEF Course
  <2>2. CASE i = n + 1
    <3>1. g[i] = Applied(h[n], e) /\ g[i - 1] = h[n]
      BY <1>1, <2>2
    <3> QED
      BY <3>1, <2>2, <1>1
  <2> QED
    BY <1>1, <2>1, <2>2
<1>4. g = [i \in 0..Len(q) |-> g[i]]
  BY <1>1
<1>5. g[Len(q)] = Applied(h[n], e)
  BY <1>1
<1>6. \A i \in 1..Len(q) : g[i] = Applied(g[i - 1], q[i])
  BY <1>1, <1>3
<1> HIDE DEF g, q, n
<1>7. Course(g, known, q)
  BY <1>2, <1>4, <1>6 DEF Course
<1> QED
  BY <1>5, <1>7 DEF q, n

\* Reading a frame takes the first step of the course.
LEMMA CourseTail ==
    ASSUME NEW h, NEW known, NEW S, NEW f \in Seq(S), f # <<>>, Course(h, known, f)
    PROVE  \E g : /\ Course(g, Applied(known, Head(f)), Tail(f))
                  /\ g[Len(Tail(f))] = h[Len(f)]
<1> DEFINE n == Len(f)
           q == Tail(f)
           g == [i \in 0..n - 1 |-> h[i + 1]]
<1>1. n \in Nat /\ n >= 1 /\ Len(q) = n - 1 /\ Head(f) = f[1]
  OBVIOUS
<1>2. \A i \in 1..n - 1 : q[i] = f[i + 1]
  BY <1>1
<1>3. g[0] = Applied(known, Head(f))
  BY <1>1 DEF Course
<1>4. ASSUME NEW i \in 1..n - 1 PROVE g[i] = Applied(g[i - 1], q[i])
  <2>1. i + 1 \in 1..n /\ i \in 0..n - 1 /\ i - 1 \in 0..n - 1 /\ (i + 1) - 1 = i /\ (i - 1) + 1 = i
    BY <1>1
  <2>2. h[i + 1] = Applied(h[i], f[i + 1])
    BY <2>1 DEF Course
  <2> QED
    BY <2>1, <2>2, <1>2
<1>5. g = [i \in 0..Len(q) |-> g[i]] /\ g[Len(q)] = h[n]
  BY <1>1
<1>6. \A i \in 1..Len(q) : g[i] = Applied(g[i - 1], q[i])
  BY <1>1, <1>4
<1> HIDE DEF g, q, n
<1>7. Course(g, Applied(known, Head(f)), q)
  BY <1>3, <1>5, <1>6 DEF Course
<1> QED
  BY <1>5, <1>7 DEF q, n

-----------------------------------------------------------------------------
(* The inductive invariant *)

MutationFrame == {FrameOf(q, r) : q \in Request, r \in Review}

\* A review, but for the bound on its stamp
Shape ==
    [id : Review, openedAt : Nat, comments : Nat,
     status : {"open", "approved", "changes-requested"} \cup Closed,
     votes : [Viewer -> Vote \cup {None}]]

Frame ==
    [type : {"review-opened"}, review : Shape]
    \cup [type : {"review-state-sync"}, review : Shape \cup {None}]
    \cup MutationFrame

Types ==
    /\ store \in Shape \cup {None}
    /\ opening \in [Review -> {"no", "abandoning", "writing", "done"}]
    /\ chain \in [Review -> Seq(Request)]
    /\ clock \in Nat
    /\ cache = [v \in Viewer |-> cache[v]]
    /\ attached \subseteq Client
    /\ toClient \in [Client -> Seq(Frame)]

\* A review that is stored was asked for, and within the cap
StoreOpened == store # None => opening[store.id] # "no" /\ store.comments <= CommentCap

Capped(review) == review \in Shape /\ review.comments <= CommentCap

\* What a write in progress will do
WriteOK(w) ==
    /\ Capped(w.review)
    /\ opening[w.review.id] # "no"
    /\ \/ w.step = "abandon" /\ Capped(w.frame) /\ opening[w.frame.id] # "no"
       \/ w.step = "open" /\ w.frame = [type |-> "review-opened", review |-> w.review]
       \/ w.step = "mutate" /\ w.frame \in {FrameOf(q, w.review.id) : q \in Request}

WritesOK == \A w \in writes : WriteOK(w)

\* What a write puts in the store is what its frame makes of the store now
InStep(w) ==
    /\ w.step # "abandon"
    /\ w.step = "open" => store = None
    /\ w.step = "mutate" => store # None /\ store.id = w.review.id
    /\ Applied(Stored, w.frame) = [Stored EXCEPT ![w.review.id] = w.review]

\* While one review has been asked for, writes come one at a time, and fit the store
OneWriter == SingleReview => \A w, x \in writes : w = x /\ InStep(w)

\* The frames on the way lead from what the member knows to what is stored
Reaches(k) == \E h : Course(h, cache[k], toClient[k]) /\ h[Len(toClient[k])] = Stored

CachesLead ==
    SingleReview => cache[Host] = Stored /\ \A k \in attached : Reaches(k)

ReviewInv == Types /\ StoreOpened /\ WritesOK /\ OneWriter /\ CachesLead

-----------------------------------------------------------------------------
(* Reviews *)

\* A mutation of a review changes that review only, and keeps it within the cap.
LEMMA MutationEffect ==
    ASSUME NEW parent \in Shape, NEW q \in Request, Capped(parent), parent # None,
           Accepted(q, parent),
           NEW known, known = [r \in Review |-> IF r = parent.id THEN parent ELSE None]
    PROVE  /\ Capped(Mutated(parent, q))
           /\ Mutated(parent, q).id = parent.id
           /\ Applied(known, FrameOf(q, parent.id))
                = [known EXCEPT ![parent.id] = Mutated(parent, q)]
<1> DEFINE f == FrameOf(q, parent.id)
<1>0. /\ Mutated(parent, q) = Applied(known, f)[parent.id]
      /\ known[parent.id] = parent
      /\ parent.id \in Review
  BY DEF Mutated, Shape
<1>1. CASE q.kind = "review-comment"
  <2>1. f = [type |-> "review-comment", id |-> parent.id]
    BY <1>1 DEF FrameOf
  <2>2. Applied(known, f) = [known EXCEPT ![parent.id].comments = @ + 1]
    BY <2>1, <1>0 DEF Applied
  <2>3. parent.comments < CommentCap
    BY <1>1 DEF Accepted, CommentAllowed
  <2> HIDE DEF f
  <2>4. Mutated(parent, q) = [parent EXCEPT !.comments = @ + 1]
    BY <2>2, <1>0
  <2>5. parent.comments + 1 <= CommentCap
    BY <2>3, ReviewConstants DEF Shape
  <2>6. Capped(Mutated(parent, q)) /\ Mutated(parent, q).id = parent.id
    BY <2>4, <2>5 DEF Capped, Shape
  <2> QED
    BY <2>2, <2>4, <2>6, <1>0 DEF f
<1>2. CASE q.kind = "review-vote"
  <2>1. f = [type |-> "review-vote", id |-> parent.id, by |-> q.by, vote |-> q.vote]
    BY <1>2 DEF FrameOf
  <2>2. q.by \in Viewer /\ q.vote \in Vote
    BY <1>2 DEF Request
  <2>3. IsActive(parent)
    BY <1>2 DEF Accepted
  <2> HIDE DEF f
  <2>4. Applied(known, f) = [known EXCEPT ![parent.id] = Voted(parent, q.by, q.vote)]
    <3>1. f.type = "review-vote" /\ f.id = parent.id /\ f.by = q.by /\ f.vote = q.vote
      BY <2>1
    <3> QED
      BY <3>1, <2>3, <1>0 DEF Applied
  <2>5. Mutated(parent, q) = Voted(parent, q.by, q.vote)
    BY <2>4, <1>0
  <2>6. \A votes : StatusOf(votes) \in {"open", "approved", "changes-requested"}
    BY DEF StatusOf
  <2>7. [parent.votes EXCEPT ![q.by] = q.vote] \in [Viewer -> Vote \cup {None}]
    BY <2>2 DEF Shape
  <2>8. Capped(Mutated(parent, q)) /\ Mutated(parent, q).id = parent.id
    BY <2>5, <2>6, <2>7 DEF Voted, Capped, Shape
  <2> QED
    BY <2>4, <2>5, <2>8, <1>0 DEF f
<1>3. CASE q.kind = "review-resolved"
  <2>1. f = [type |-> "review-resolved", id |-> parent.id]
    BY <1>3 DEF FrameOf
  <2>2. IsActive(parent)
    BY <1>3 DEF Accepted
  <2>3. Applied(known, f) = [known EXCEPT ![parent.id].status = "resolved"]
    BY <2>1, <2>2, <1>0 DEF Applied
  <2> HIDE DEF f
  <2>4. Mutated(parent, q) = [parent EXCEPT !.status = "resolved"]
    BY <2>3, <1>0
  <2>5. Capped(Mutated(parent, q)) /\ Mutated(parent, q).id = parent.id
    BY <2>4 DEF Capped, Shape, Closed
  <2> QED
    BY <2>3, <2>4, <2>5, <1>0 DEF f
<1>4. q.kind \in {"review-comment", "review-vote", "review-resolved"}
  BY DEF Request
<1> QED
  BY <1>1, <1>2, <1>3, <1>4

-----------------------------------------------------------------------------
(* Steps *)

OpeningsKept == \A r \in Review : opening[r] # "no" => opening'[r] # "no"

\* A second review that has been asked for stays asked for.
LEMMA SingleBefore ==
    ASSUME OpeningsKept, SingleReview'
    PROVE  SingleReview
  BY DEF OpeningsKept, SingleReview

\* A step that starts no write and stores nothing keeps what is said of the writes.
LEMMA HostSide ==
    ASSUME ReviewInv, OpeningsKept, UNCHANGED store, writes' \subseteq writes
    PROVE  StoreOpened' /\ WritesOK' /\ OneWriter'
<1>1. StoreOpened'
  BY DEF ReviewInv, StoreOpened, OpeningsKept, Types, Shape
<1>2. WritesOK'
  BY DEF ReviewInv, WritesOK, WriteOK, OpeningsKept, Capped, Shape
<1>3. OneWriter'
  <2> SUFFICES ASSUME SingleReview', NEW w \in writes', NEW x \in writes'
               PROVE  w = x /\ InStep(w)'
    BY DEF OneWriter
  <2>1. w = x /\ InStep(w)
    BY SingleBefore DEF ReviewInv, OneWriter
  <2> QED
    BY <2>1 DEF InStep, Stored
<1> QED
  BY <1>1, <1>2, <1>3

\* A step that sends nothing and stores nothing leaves the members where they are.
LEMMA ClientSide ==
    ASSUME ReviewInv, OpeningsKept, UNCHANGED <<store, cache>>,
           attached' \subseteq attached, \A k \in attached' : toClient'[k] = toClient[k]
    PROVE  CachesLead'
<1> SUFFICES ASSUME SingleReview'
             PROVE  (cache[Host] = Stored)' /\ \A k \in attached' : Reaches(k)'
  BY DEF CachesLead
<1>1. cache[Host] = Stored /\ \A k \in attached : Reaches(k)
  BY SingleBefore DEF ReviewInv, CachesLead
<1> QED
  BY <1>1 DEF Reaches, Stored

LEMMA OpenStep ==
    ASSUME ReviewInv, NEW r \in Review, OpenReview(r)
    PROVE  ReviewInv'
<1>1. opening[r] = "no" /\ clock' \in Nat
  BY DEF OpenReview, MayOpen, ReviewInv, Types
<1>2. Capped(Fresh(r)) /\ Fresh(r).id = r
  BY <1>1, ReviewConstants DEF Fresh, Capped, Shape
<1>3. PICK s \in {"abandoning", "writing"} : opening' = [opening EXCEPT ![r] = s]
  BY DEF OpenReview
<1>4. OpeningsKept /\ opening'[r] # "no"
  BY <1>1, <1>3 DEF OpeningsKept, ReviewInv, Types
<1>5. Types'
  BY <1>1, <1>3 DEF OpenReview, ReviewInv, Types
<1>6. StoreOpened'
  BY <1>4 DEF OpenReview, ReviewInv, StoreOpened, OpeningsKept, Types, Shape
<1>7. PICK new : /\ writes' = writes \cup {new}
                 /\ \/ /\ IsActive(store)
                       /\ new = Write("abandon", [store EXCEPT !.status = "abandoned"], Fresh(r))
                    \/ ~IsActive(store) /\ new = OpenWrite(Fresh(r))
  BY DEF OpenReview
<1>8. WriteOK(new)'
  <2>1. CASE IsActive(store)
    <3>1. store # None /\ store \in Shape
      BY <2>1 DEF IsActive, ReviewInv, Types
    <3>2. Capped(store) /\ opening'[store.id] # "no"
      BY <3>1, <1>6 DEF StoreOpened, Capped, OpenReview
    <3>3. /\ Capped([store EXCEPT !.status = "abandoned"])
          /\ [store EXCEPT !.status = "abandoned"].id = store.id
      BY <3>1, <3>2 DEF Capped, Shape, Closed
    <3>4. /\ new.step = "abandon" /\ new.frame = Fresh(r)
          /\ new.review = [store EXCEPT !.status = "abandoned"]
      BY <2>1, <1>7 DEF Write
    <3> QED
      BY <3>2, <3>3, <3>4, <1>2, <1>4 DEF WriteOK
  <2>2. CASE ~IsActive(store)
    BY <2>2, <1>2, <1>4, <1>7 DEF WriteOK, OpenWrite, Write
  <2> QED
    BY <2>1, <2>2
<1>9. WritesOK'
  <2>1. \A w \in writes : WriteOK(w)'
    BY <1>4 DEF ReviewInv, WritesOK, WriteOK, OpeningsKept, Capped, Shape
  <2> QED
    BY <2>1, <1>7, <1>8 DEF WritesOK
<1>10. OneWriter'
  <2> SUFFICES ASSUME SingleReview'
               PROVE  \A w, x \in writes' : w = x /\ InStep(w)'
    BY DEF OneWriter
  <2>1. \A t \in Review : opening[t] = "no"
    BY <1>1, <1>3, <1>4 DEF SingleReview, OpeningsKept
  <2>2. store = None /\ writes = {}
    BY <2>1 DEF ReviewInv, StoreOpened, WritesOK, WriteOK, Capped, Types, Shape
  <2>3. store' = None /\ new = OpenWrite(Fresh(r))
    BY <2>2, <1>7 DEF IsActive, OpenReview
  <2>4. /\ new.step = "open" /\ new.review = Fresh(r)
        /\ new.frame = [type |-> "review-opened", review |-> Fresh(r)]
    BY <2>3 DEF OpenWrite, Write
  <2>5. Applied(Stored', new.frame) = [Stored' EXCEPT ![Fresh(r).id] = Fresh(r)]
    BY <2>4 DEF Applied
  <2>6. InStep(new)'
    BY <2>3, <2>4, <2>5 DEF InStep
  <2> QED
    BY <2>2, <2>6, <1>7
<1>11. CachesLead'
  BY <1>4, ClientSide DEF OpenReview
<1> QED
  BY <1>5, <1>6, <1>9, <1>10, <1>11 DEF ReviewInv

LEMMA AskStep ==
    ASSUME ReviewInv, NEW v \in Viewer, NEW r \in Review, Ask(v, r)
    PROVE  ReviewInv'
<1>1. OpeningsKept
  BY DEF Ask, OpeningsKept
<1>2. Types'
  BY DEF Ask, ReviewInv, Types
<1>3. StoreOpened' /\ WritesOK' /\ OneWriter'
  BY <1>1, HostSide DEF Ask
<1>4. CachesLead'
  BY <1>1, ClientSide DEF Ask
<1> QED
  BY <1>2, <1>3, <1>4 DEF ReviewInv

LEMMA StartStep ==
    ASSUME ReviewInv, NEW r \in Review, StartMutation(r)
    PROVE  ReviewInv'
<1> DEFINE q == Head(chain[r])
<1>1. OpeningsKept
  BY DEF StartMutation, OpeningsKept
<1>2. chain[r] \in Seq(Request) /\ chain[r] # <<>> /\ q \in Request
  BY DEF StartMutation, ChainReady, ReviewInv, Types
<1>3. Types'
  BY <1>2 DEF StartMutation, ReviewInv, Types
<1>4. CachesLead'
  BY <1>1, ClientSide DEF StartMutation
<1>5. CASE UNCHANGED writes
  <2>1. StoreOpened' /\ WritesOK' /\ OneWriter'
    BY <1>1, <1>5, HostSide DEF StartMutation
  <2> QED
    BY <2>1, <1>3, <1>4 DEF ReviewInv
<1>6. CASE /\ store # None /\ store.id = r /\ Accepted(q, store)
           /\ writes' = writes \cup {Write("mutate", Mutated(store, q), FrameOf(q, r))}
  <2>0. PICK new : new = Write("mutate", Mutated(store, q), FrameOf(q, r))
    OBVIOUS
  <2>1. Capped(store) /\ store \in Shape /\ opening[r] # "no"
    BY <1>6 DEF ReviewInv, Types, StoreOpened, Capped
  <2>2. Stored = [s \in Review |-> IF s = store.id THEN store ELSE None]
    BY <1>6 DEF Stored
  <2>3. /\ Capped(Mutated(store, q)) /\ Mutated(store, q).id = r
        /\ Applied(Stored, FrameOf(q, r)) = [Stored EXCEPT ![r] = Mutated(store, q)]
    BY <1>2, <1>6, <2>1, <2>2, MutationEffect
  <2>4. new.step = "mutate" /\ new.review = Mutated(store, q) /\ new.frame = FrameOf(q, r)
    BY <2>0 DEF Write
  <2>5. UNCHANGED <<store, opening>> /\ writes' = writes \cup {new}
    BY <2>0, <1>6 DEF StartMutation
  <2>6. StoreOpened'
    BY <2>5 DEF ReviewInv, StoreOpened
  <2>7. WritesOK'
    <3>1. WriteOK(new)'
      BY <1>2, <2>1, <2>3, <2>4, <2>5 DEF WriteOK
    <3>2. \A w \in writes : WriteOK(w)'
      BY <2>5 DEF ReviewInv, WritesOK, WriteOK
    <3> QED
      BY <3>1, <3>2, <2>5 DEF WritesOK
  <2>8. OneWriter'
    <3> SUFFICES ASSUME SingleReview'
                 PROVE  \A w, x \in writes' : w = x /\ InStep(w)'
      BY DEF OneWriter
    <3>1. SingleReview
      BY <1>1, SingleBefore
    <3>2. writes = {}
      <4> SUFFICES ASSUME NEW w \in writes PROVE FALSE
        OBVIOUS
      <4>1. InStep(w) /\ WriteOK(w)
        BY <3>1 DEF ReviewInv, OneWriter, WritesOK
      <4>2. w.step = "mutate" /\ w.review.id = r
        BY <4>1, <1>6 DEF InStep, WriteOK
      <4> QED
        BY <4>2 DEF StartMutation, ChainReady
    <3>3. InStep(new)
      BY <1>6, <2>3, <2>4 DEF InStep
    <3>4. InStep(new)'
      BY <3>3, <2>5 DEF InStep, Stored
    <3> QED
      BY <3>2, <3>4, <2>5
  <2> QED
    BY <1>3, <1>4, <2>6, <2>7, <2>8 DEF ReviewInv
<1> QED
  BY <1>5, <1>6 DEF StartMutation

\* An abandoning write is only there with a second review.
LEMMA AbandonStep ==
    ASSUME ReviewInv, NEW w \in writes, AbandonSettles(w)
    PROVE  ReviewInv'
<1>1. /\ Capped(w.review) /\ opening[w.review.id] # "no"
      /\ Capped(w.frame) /\ opening[w.frame.id] # "no"
  BY DEF AbandonSettles, ReviewInv, WritesOK, WriteOK
<1>2. w.frame.id \in Review /\ opening' = [opening EXCEPT ![w.frame.id] = "writing"]
  BY <1>1 DEF AbandonSettles, Capped, Shape
<1>3. OpeningsKept
  BY <1>2 DEF OpeningsKept, ReviewInv, Types
<1>4. Types'
  BY <1>1, <1>2 DEF AbandonSettles, ReviewInv, Types, Capped
<1>5. StoreOpened'
  <2>1. store' # None => opening[store'.id] # "no" /\ store'.comments <= CommentCap
    BY <1>1 DEF AbandonSettles, ReviewInv, StoreOpened, Capped
  <2>2. store' # None => store'.id \in Review
    BY <1>4 DEF Types, Shape
  <2> QED
    BY <2>1, <2>2, <1>3 DEF StoreOpened, OpeningsKept
<1>6. WritesOK'
  <2> SUFFICES ASSUME NEW x \in writes' PROVE WriteOK(x)'
    BY DEF WritesOK
  <2>1. CASE x \in writes
    BY <2>1, <1>3 DEF ReviewInv, WritesOK, WriteOK, OpeningsKept, Capped, Shape
  <2>2. CASE x = OpenWrite(w.frame)
    <3>1. /\ x.step = "open" /\ x.review = w.frame
          /\ x.frame = [type |-> "review-opened", review |-> w.frame]
      BY <2>2 DEF OpenWrite, Write
    <3> QED
      BY <3>1, <1>1, <1>2, <1>3 DEF WriteOK, OpeningsKept
  <2> QED
    BY <2>1, <2>2 DEF AbandonSettles
<1>7. ~SingleReview'
  BY <1>3, SingleBefore DEF AbandonSettles, ReviewInv, OneWriter, InStep
<1> QED
  BY <1>4, <1>5, <1>6, <1>7 DEF ReviewInv, OneWriter, CachesLead

LEMMA SucceedStep ==
    ASSUME ReviewInv, NEW w \in writes, WriteSucceeds(w)
    PROVE  ReviewInv'
<1> DEFINE id == w.review.id
<1>1. WriteOK(w)
  BY DEF ReviewInv, WritesOK
<1>2. w.review \in Shape /\ id \in Review /\ opening[id] # "no"
  BY <1>1 DEF WriteOK, Capped, Shape
<1>3. OpeningsKept
  BY <1>2 DEF WriteSucceeds, OpeningsKept, ReviewInv, Types
<1>4. w.frame \in Frame
  BY <1>1, <1>2 DEF WriteOK, WriteSucceeds, Frame, MutationFrame
<1>5. /\ toClient' = [k \in Client |-> IF k \in attached THEN Append(toClient[k], w.frame)
                                       ELSE toClient[k]]
      /\ cache' = [cache EXCEPT ![Host] = Applied(@, w.frame)]
      /\ UNCHANGED <<chain, clock, attached>> /\ store' = w.review
      /\ writes' = writes \ {w}
  BY DEF WriteSucceeds, Broadcast, Echo
<1>6. \A k \in Client : toClient[k] \in Seq(Frame)
  BY DEF ReviewInv, Types
<1>7. Types'
  <2>1. toClient' \in [Client -> Seq(Frame)]
    BY <1>4, <1>5, <1>6
  <2>2. cache' = [v \in Viewer |-> cache'[v]]
    BY <1>5 DEF ReviewInv, Types
  <2>3. opening' \in [Review -> {"no", "abandoning", "writing", "done"}]
    BY DEF WriteSucceeds, ReviewInv, Types
  <2> QED
    BY <2>1, <2>2, <2>3, <1>2, <1>5 DEF ReviewInv, Types
<1>8. StoreOpened'
  BY <1>1, <1>2, <1>3, <1>5 DEF StoreOpened, WriteOK, Capped, OpeningsKept
<1>9. WritesOK'
  BY <1>3, <1>5 DEF ReviewInv, WritesOK, WriteOK, OpeningsKept, Capped, Shape
<1>10. OneWriter'
  BY <1>3, <1>5, SingleBefore DEF ReviewInv, OneWriter
<1>11. CachesLead'
  <2> SUFFICES ASSUME SingleReview'
               PROVE  (cache[Host] = Stored)' /\ \A k \in attached' : Reaches(k)'
    BY DEF CachesLead
  <2>1. SingleReview
    BY <1>3, SingleBefore
  <2>2. /\ InStep(w) /\ cache[Host] = Stored
        /\ \A k \in attached : Reaches(k)
    BY <2>1 DEF ReviewInv, OneWriter, CachesLead
  <2>3. Stored' = Applied(Stored, w.frame)
    <3>1. \A r \in Review : r # id => Stored[r] = None
      BY <2>2, <1>1 DEF InStep, WriteOK, WriteSucceeds, Stored
    <3>2. Applied(Stored, w.frame) = [Stored EXCEPT ![id] = w.review]
      BY <2>2 DEF InStep
    <3>3. Stored' = [r \in Review |-> IF r = id THEN w.review ELSE None]
      BY <1>5 DEF Stored
    <3>4. Stored = [r \in Review |-> Stored[r]]
      BY DEF Stored
    <3> HIDE DEF id
    <3> QED
      BY <3>1, <3>2, <3>3, <3>4
  <2>4. cache'[Host] = Stored'
    <3>1. Host \in Viewer
      BY DEF Viewer
    <3> QED
      BY <3>1, <2>2, <2>3, <1>5 DEF ReviewInv, Types
  <2>5. ASSUME NEW k \in attached' PROVE Reaches(k)'
    <3>1. k \in attached /\ k \in Client /\ k # Host
      BY <1>5, ReviewConstants DEF ReviewInv, Types
    <3>2. cache'[k] = cache[k] /\ toClient'[k] = Append(toClient[k], w.frame)
      BY <3>1, <1>5 DEF ReviewInv, Types, Viewer
    <3>3. PICK h : Course(h, cache[k], toClient[k]) /\ h[Len(toClient[k])] = Stored
      BY <2>2, <3>1 DEF Reaches
    <3>4. PICK g : /\ Course(g, cache[k], Append(toClient[k], w.frame))
                   /\ g[Len(Append(toClient[k], w.frame))]
                        = Applied(h[Len(toClient[k])], w.frame)
      BY <3>1, <3>3, <1>4, <1>6, CourseAppend
    <3>5. Course(g, cache'[k], toClient'[k]) /\ g[Len(toClient'[k])] = Stored'
      BY <3>2, <3>3, <3>4, <2>3
    <3> QED
      BY <3>5 DEF Reaches
  <2> QED
    BY <2>4, <2>5
<1> QED
  BY <1>7, <1>8, <1>9, <1>10, <1>11 DEF ReviewInv

LEMMA FailStep ==
    ASSUME ReviewInv, NEW w \in writes, WriteFails(w)
    PROVE  ReviewInv'
<1>1. w.review.id \in Review
  BY DEF ReviewInv, WritesOK, WriteOK, Capped, Shape
<1>2. OpeningsKept
  BY <1>1 DEF WriteFails, OpeningsKept, ReviewInv, Types
<1>3. Types'
  BY <1>1 DEF WriteFails, ReviewInv, Types
<1>4. StoreOpened' /\ WritesOK' /\ OneWriter'
  BY <1>2, HostSide DEF WriteFails
<1>5. CachesLead'
  BY <1>2, ClientSide DEF WriteFails
<1> QED
  BY <1>3, <1>4, <1>5 DEF ReviewInv

LEMMA ReadStep ==
    ASSUME ReviewInv, NEW k \in Client, ReadFrame(k)
    PROVE  ReviewInv'
<1>1. OpeningsKept /\ UNCHANGED <<store, writes, attached>>
  BY DEF ReadFrame, OpeningsKept
<1>2. /\ toClient[k] \in Seq(Frame) /\ toClient[k] # <<>> /\ k # Host /\ Host \in Viewer
      /\ k \in Viewer
  BY ReviewConstants DEF ReadFrame, ReviewInv, Types, Viewer
<1>3. /\ cache' = [cache EXCEPT ![k] = Applied(@, Head(toClient[k]))]
      /\ toClient' = [toClient EXCEPT ![k] = Tail(@)]
  BY DEF ReadFrame
<1>4. Types'
  <2>1. Tail(toClient[k]) \in Seq(Frame)
    BY <1>2
  <2>2. toClient' \in [Client -> Seq(Frame)]
    BY <2>1, <1>3 DEF ReviewInv, Types
  <2>3. cache' = [v \in Viewer |-> cache'[v]]
    BY <1>2, <1>3 DEF ReviewInv, Types
  <2> QED
    BY <2>2, <2>3 DEF ReadFrame, ReviewInv, Types
<1>5. StoreOpened' /\ WritesOK' /\ OneWriter'
  BY <1>1, HostSide
<1>6. CachesLead'
  <2> SUFFICES ASSUME SingleReview'
               PROVE  (cache[Host] = Stored)' /\ \A j \in attached' : Reaches(j)'
    BY DEF CachesLead
  <2>1. cache[Host] = Stored /\ \A j \in attached : Reaches(j)
    BY <1>1, SingleBefore DEF ReviewInv, CachesLead
  <2>2. Stored' = Stored
    BY <1>1 DEF Stored
  <2>3. (cache[Host] = Stored)'
    BY <2>1, <2>2, <1>2, <1>3 DEF ReviewInv, Types
  <2>4. ASSUME NEW j \in attached' PROVE Reaches(j)'
    <3>1. PICK h : Course(h, cache[j], toClient[j]) /\ h[Len(toClient[j])] = Stored
      BY <2>1, <1>1 DEF Reaches
    <3>2. j \in Client /\ j \in Viewer
      BY <1>1 DEF ReviewInv, Types, Viewer
    <3>3. CASE j # k
      <4>1. cache'[j] = cache[j] /\ toClient'[j] = toClient[j]
        BY <3>2, <3>3, <1>3 DEF ReviewInv, Types
      <4> QED
        BY <4>1, <3>1, <2>2 DEF Reaches
    <3>4. CASE j = k
      <4>1. /\ cache'[k] = Applied(cache[k], Head(toClient[k]))
            /\ toClient'[k] = Tail(toClient[k])
        BY <1>2, <1>3 DEF ReviewInv, Types
      <4>2. PICK g : /\ Course(g, Applied(cache[k], Head(toClient[k])), Tail(toClient[k]))
                     /\ g[Len(Tail(toClient[k]))] = h[Len(toClient[k])]
        BY <3>1, <3>4, <1>2, CourseTail
      <4>3. Course(g, cache'[k], toClient'[k]) /\ g[Len(toClient'[k])] = Stored'
        BY <4>1, <4>2, <3>1, <3>4, <2>2
      <4> QED
        BY <4>3, <3>4 DEF Reaches
    <3> QED
      BY <3>3, <3>4
  <2> QED
    BY <2>3, <2>4
<1> QED
  BY <1>4, <1>5, <1>6 DEF ReviewInv

LEMMA DropStep ==
    ASSUME ReviewInv, NEW k \in Client, Drop(k)
    PROVE  ReviewInv'
<1>1. OpeningsKept
  BY DEF Drop, OpeningsKept
<1>2. Types'
  BY DEF Drop, ReviewInv, Types
<1>3. StoreOpened' /\ WritesOK' /\ OneWriter'
  BY <1>1, HostSide DEF Drop
<1>4. \A j \in attached' : toClient'[j] = toClient[j]
  BY DEF Drop, ReviewInv, Types
<1>5. CachesLead'
  BY <1>1, <1>4, ClientSide DEF Drop
<1> QED
  BY <1>2, <1>3, <1>5 DEF ReviewInv

LEMMA RejoinStep ==
    ASSUME ReviewInv, NEW k \in Client, Rejoin(k)
    PROVE  ReviewInv'
<1>1. OpeningsKept
  BY DEF Rejoin, OpeningsKept
<1>2. Replay \in Seq(Frame) /\ Len(Replay) = 1
      /\ Replay[1] = [type |-> "review-state-sync", review |-> store]
  BY DEF Replay, Frame, ReviewInv, Types
<1>3. Types'
  BY <1>2 DEF Rejoin, ReviewInv, Types
<1>4. StoreOpened' /\ WritesOK' /\ OneWriter'
  BY <1>1, HostSide DEF Rejoin
<1>5. CachesLead'
  <2> SUFFICES ASSUME SingleReview'
               PROVE  (cache[Host] = Stored)' /\ \A j \in attached' : Reaches(j)'
    BY DEF CachesLead
  <2>1. cache[Host] = Stored /\ \A j \in attached : Reaches(j)
    BY <1>1, SingleBefore DEF ReviewInv, CachesLead
  <2>2. Stored' = Stored /\ cache' = cache
    BY DEF Rejoin, Stored
  <2>3. ASSUME NEW j \in attached' PROVE Reaches(j)'
    <3>1. CASE j # k
      <4>1. j \in attached /\ toClient'[j] = toClient[j]
        BY <3>1 DEF Rejoin, ReviewInv, Types
      <4> QED
        BY <4>1, <2>1, <2>2 DEF Reaches
    <3>2. CASE j = k
      <4>1. toClient'[k] = Replay
        BY DEF Rejoin, ReviewInv, Types
      <4>2. Applied(cache[k], Replay[1]) = Stored
        BY <1>2 DEF Applied, Stored
      <4>3. PICK h : h = [i \in 0..1 |-> IF i = 0 THEN cache[k] ELSE Stored]
        OBVIOUS
      <4>4. Course(h, cache[k], Replay) /\ h[Len(Replay)] = Stored
        BY <4>2, <4>3, <1>2 DEF Course
      <4> QED
        BY <4>1, <4>4, <2>2, <3>2 DEF Reaches
    <3> QED
      BY <3>1, <3>2
  <2> QED
    BY <2>1, <2>2, <2>3
<1> QED
  BY <1>3, <1>4, <1>5 DEF ReviewInv

-----------------------------------------------------------------------------
(* Theorems *)

LEMMA Initially == Init => ReviewInv
<1> SUFFICES ASSUME Init PROVE ReviewInv
  OBVIOUS
<1>1. Types
  BY DEF Init, Types
<1>2. StoreOpened /\ WritesOK /\ OneWriter
  BY DEF Init, StoreOpened, WritesOK, OneWriter
<1>3. cache[Host] = Stored
  BY DEF Init, Stored, Viewer
<1>4. ASSUME NEW k \in attached PROVE Reaches(k)
  <2>1. toClient[k] = <<>> /\ cache[k] = Stored
    BY DEF Init, Stored, Viewer
  <2>2. PICK h : h = [i \in 0..0 |-> Stored]
    OBVIOUS
  <2>3. Course(h, cache[k], toClient[k]) /\ h[Len(toClient[k])] = Stored
    BY <2>1, <2>2 DEF Course
  <2> QED
    BY <2>3 DEF Reaches
<1> QED
  BY <1>1, <1>2, <1>3, <1>4 DEF ReviewInv, CachesLead

LEMMA Inductive == ReviewInv /\ [Next]_vars => ReviewInv'
<1> SUFFICES ASSUME ReviewInv, [Next]_vars PROVE ReviewInv'
  OBVIOUS
<1>1. CASE UNCHANGED vars
  <2>1. OpeningsKept /\ Types'
    BY <1>1 DEF vars, OpeningsKept, ReviewInv, Types
  <2>2. StoreOpened' /\ WritesOK' /\ OneWriter' /\ CachesLead'
    BY <1>1, <2>1, HostSide, ClientSide DEF vars
  <2> QED
    BY <2>1, <2>2 DEF ReviewInv
<1>2. ASSUME NEW r \in Review, OpenReview(r) PROVE ReviewInv'
  BY <1>2, OpenStep
<1>3. ASSUME NEW r \in Review, StartMutation(r) PROVE ReviewInv'
  BY <1>3, StartStep
<1>4. ASSUME NEW r \in Review, NEW v \in Viewer, Ask(v, r) PROVE ReviewInv'
  BY <1>4, AskStep
<1>5. CASE Settle
  BY <1>5, AbandonStep, SucceedStep, FailStep DEF Settle
<1>6. ASSUME NEW k \in Client, ReadFrame(k) \/ Drop(k) \/ Rejoin(k) PROVE ReviewInv'
  BY <1>6, ReadStep, DropStep, RejoinStep
<1> QED
  BY <1>1, <1>2, <1>3, <1>4, <1>5, <1>6 DEF Next

\* The invariant behind the theorems below.
THEOREM Invariance == Spec => []ReviewInv
  BY Initially, Inductive, PTL DEF Spec

\* The host's extension shows what is stored, and what a seated member knows and has yet
\* to read comes to the same, while no second review of the push has been asked for
\* (processReview...() broadcast what they stored, in the order they stored it).
THEOREM Agreement == Spec => []CachesAgree
<1>1. ReviewInv => CachesAgree
  <2> SUFFICES ASSUME ReviewInv, SingleReview
               PROVE  /\ cache[Host] = Stored
                      /\ \A k \in attached : After(cache[k], toClient[k]) = Stored
    BY DEF CachesAgree
  <2>1. cache[Host] = Stored /\ \A k \in attached : Reaches(k)
    BY DEF ReviewInv, CachesLead
  <2>2. ASSUME NEW k \in attached PROVE After(cache[k], toClient[k]) = Stored
    <3>1. toClient[k] \in Seq(Frame)
      BY DEF ReviewInv, Types
    <3>2. PICK h : Course(h, cache[k], toClient[k]) /\ h[Len(toClient[k])] = Stored
      BY <2>1 DEF Reaches
    <3>3. After(cache[k], toClient[k]) = h[Len(toClient[k])]
      BY <3>1, <3>2, CourseEnds
    <3> QED
      BY <3>2, <3>3
  <2> QED
    BY <2>1, <2>2
<1> QED
  BY <1>1, Invariance, PTL

\* However many members comment at once, the stored review stays within the cap
\* (processReviewComment() counts what is stored when its turn comes).
THEOREM Cap == Spec => []CapHolds
<1>1. ReviewInv => CapHolds
  BY DEF ReviewInv, StoreOpened, CapHolds
<1> QED
  BY <1>1, Invariance, PTL
===============================================================================
