---------------------------- MODULE ReviewWorkflow -----------------------------
(***************************************************************************)
(* The reviews of one push: the host's review-* handlers, the ReviewStore   *)
(* they write through, the ReviewState each extension keeps, and the gate   *)
(* a merge asks (processReview* in src/src/host/SessionHost.ts,             *)
(* src/src/filesystem/ReviewStore.ts, src/src/state).                      *)
(*                                                                         *)
(* Reviews of different pushes share nothing, and one branch is active.    *)
(* The clients are those whose extension already listens to its session.   *)
(***************************************************************************)
EXTENDS Integers, FiniteSets, Sequences

CONSTANTS
    Review,       \* the reviews that may be opened on the push
    Client,       \* joined members
    Host,         \* the host's own identity
    Author,       \* who made the push
    Admins,       \* members with canCreateBranch
    CommentCap,   \* REVIEW_COMMENT_CAP
    MaxRequests,  \* bound: votes, comments and resolutions asked for
    None

Viewer == Client \cup {Host}

ASSUME ReviewConstants ==
    /\ Host \notin Client /\ Author \in Viewer /\ Admins \subseteq Viewer
    /\ CommentCap \in Nat /\ MaxRequests \in Nat

VARIABLES
    store,     \* ReviewStore.reviewsByPushId for the push
    opening,   \* opening[r]: how far processReviewOpened is with r
    chain,     \* chain[r]: review mutations waiting in reviewWriteChain
    writes,    \* upsertRequest() calls in progress
    clock,     \* openedAt stamps
    asked,     \* requests made so far
    cache,     \* cache[v]: ReviewState of the extension of v
    attached,  \* clients with a member socket
    toClient   \* toClient[k]: review frames in flight to k

vars == <<store, opening, chain, writes, clock, asked, cache, attached, toClient>>

Vote == {"approved", "changes-requested", "commented"}
Closed == {"resolved", "abandoned"}

ReviewRequest ==
    [id : Review, openedAt : 1..Cardinality(Review), comments : Nat,
     status : {"open", "approved", "changes-requested"} \cup Closed,
     votes : [Viewer -> Vote \cup {None}]]

Request ==
    [kind : {"review-vote"}, by : Viewer, vote : Vote]
    \cup [kind : {"review-comment"}, by : Viewer]
    \cup [kind : {"review-resolved"}, by : Viewer, reason : {"merged", "abandoned"}]

ReviewTypeOK ==
    /\ store \in ReviewRequest \cup {None}
    /\ opening \in [Review -> {"no", "abandoning", "writing", "done"}]
    /\ \A r \in Review : \A i \in DOMAIN chain[r] : chain[r][i] \in Request
    /\ \A w \in writes : w.review \in ReviewRequest
    /\ clock \in 0..Cardinality(Review)
    /\ asked \in 0..MaxRequests
    /\ cache \in [Viewer -> [Review -> ReviewRequest \cup {None}]]
    /\ attached \subseteq Client
    /\ \A k \in Client \ attached : toClient[k] = <<>>

Init ==
    /\ store = None
    /\ opening = [r \in Review |-> "no"]
    /\ chain = [r \in Review |-> <<>>]
    /\ writes = {}
    /\ clock = 0
    /\ asked = 0
    /\ cache = [v \in Viewer |-> [r \in Review |-> None]]
    /\ attached = Client
    /\ toClient = [k \in Client |-> <<>>]

-----------------------------------------------------------------------------
(* ReviewState: what an extension makes of a frame *)

IsActive(review) == review # None /\ review.status \notin Closed

\* One changes-requested vote outweighs every approval
StatusOf(votes) ==
    IF \E v \in Viewer : votes[v] = "changes-requested" THEN "changes-requested"
    ELSE IF \E v \in Viewer : votes[v] = "approved" THEN "approved" ELSE "open"

Voted(review, v, vote) ==
    LET votes == [review.votes EXCEPT ![v] = vote]
    IN  [review EXCEPT !.votes = votes, !.status = StatusOf(votes)]

\* applyStateSync() replaces the branch's reviews; the others ignore a review they do
\* not know, and votes and resolutions ignore a closed one
Applied(known, f) ==
    CASE f.type = "review-state-sync" ->
           [r \in Review |-> IF f.review # None /\ f.review.id = r THEN f.review ELSE None]
      [] f.type = "review-opened" -> [known EXCEPT ![f.review.id] = f.review]
      [] f.type = "review-comment" /\ known[f.id] # None ->
           [known EXCEPT ![f.id].comments = @ + 1]
      [] f.type = "review-vote" /\ IsActive(known[f.id]) ->
           [known EXCEPT ![f.id] = Voted(@, f.by, f.vote)]
      [] f.type = "review-resolved" /\ IsActive(known[f.id]) ->
           [known EXCEPT ![f.id].status = "resolved"]
      [] OTHER -> known

-----------------------------------------------------------------------------
(* The host *)

\* The host's own extension listens to what its SessionHost emits
Echo(f) == cache' = [cache EXCEPT ![Host] = Applied(@, f)]

\* broadcast() to the members and emit() to the host's own extension
Broadcast(f) ==
    /\ toClient' = [k \in Client |-> IF k \in attached THEN Append(toClient[k], f)
                                     ELSE toClient[k]]
    /\ Echo(f)

Write(step, review, frame) == [step |-> step, review |-> review, frame |-> frame]

Fresh(r) ==
    [id |-> r, openedAt |-> clock', comments |-> 0, status |-> "open",
     votes |-> [v \in Viewer |-> None]]

\* upsertRequest() of the fresh review; announced once it is stored
OpenWrite(review) == Write("open", review, [type |-> "review-opened", review |-> review])

\* Members ask by a frame, the host's own extension by handleLocalReview...()
Senders == attached \cup {Host}

\* Only the author of the push may open a review.  That none is known to its extension
\* is looked up before the question it is asked, and not after the answer.
MayOpen(r) == opening[r] = "no" /\ Author \in Senders

\* processReviewOpened() up to its first write: an active prior review is abandoned
\* first.  Not serialized with the review's other mutations.
OpenReview(r) ==
    /\ MayOpen(r)
    /\ clock' = clock + 1
    /\ IF IsActive(store)
       THEN /\ opening' = [opening EXCEPT ![r] = "abandoning"]
            /\ writes' = writes \cup {Write("abandon", [store EXCEPT !.status = "abandoned"],
                                            Fresh(r))}
       ELSE /\ opening' = [opening EXCEPT ![r] = "writing"]
            /\ writes' = writes \cup {OpenWrite(Fresh(r))}
    /\ UNCHANGED <<store, chain, asked, cache, attached, toClient>>

\* A vote, comment or resolution of a review its sender has seen
Ask(v, r) ==
    /\ v \in Senders
    /\ cache[v][r] # None
    /\ asked < MaxRequests
    /\ \E q \in Request :
          /\ q.by = v
          /\ chain' = [chain EXCEPT ![r] = Append(@, q)]
    /\ asked' = asked + 1
    /\ UNCHANGED <<store, opening, writes, clock, cache, attached, toClient>>

\* Slip: mutations of a review do not wait for each other
ChainOverlapping(r) == chain[r] # <<>>

\* enqueueReviewWrite(): the next mutation starts when the one before it has settled;
\* openings do not use the chain
ChainReady(r) ==
    /\ chain[r] # <<>>
    /\ \A w \in writes : w.review.id = r => w.step \in {"abandon", "open"}

\* Slip: the cap is off by one
CommentAllowedOver(parent) == parent.comments <= CommentCap

CommentAllowed(parent) == parent.comments < CommentCap

\* Only the author resolves; an admin may merge over changes-requested
MayResolve(q, parent) ==
    \/ q.by = Author
    \/ q.by \in Admins /\ parent.status = "changes-requested" /\ q.reason = "merged"

Accepted(q, parent) ==
    CASE q.kind = "review-comment" -> CommentAllowed(parent)
      [] q.kind = "review-vote" -> IsActive(parent)
      [] OTHER -> IsActive(parent) /\ MayResolve(q, parent)

FrameOf(q, r) ==
    CASE q.kind = "review-comment" -> [type |-> q.kind, id |-> r]
      [] q.kind = "review-vote" -> [type |-> q.kind, id |-> r, by |-> q.by, vote |-> q.vote]
      [] OTHER -> [type |-> q.kind, id |-> r]

\* The review as the mutation leaves it: what its frame makes of the parent
Mutated(parent, q) ==
    Applied([r \in Review |-> IF r = parent.id THEN parent ELSE None],
            FrameOf(q, parent.id))[parent.id]

\* A mutation reads its parent from the store and starts its write, or is dropped; a
\* comment may also be dropped by the rate limit
StartMutation(r) ==
    LET q == Head(chain[r])
        found == store # None /\ store.id = r
    IN  /\ ChainReady(r)
        /\ chain' = [chain EXCEPT ![r] = Tail(@)]
        /\ \/ /\ found /\ Accepted(q, store)
              /\ writes' = writes \cup {Write("mutate", Mutated(store, q), FrameOf(q, r))}
           \/ /\ ~(found /\ Accepted(q, store)) \/ q.kind = "review-comment"
              /\ UNCHANGED writes
        /\ UNCHANGED <<store, opening, clock, asked, cache, attached, toClient>>

\* An abandoning write settles, well or not: the fresh review is written next
AbandonSettles(w) ==
    LET r == w.frame.id
    IN  /\ w.step = "abandon"
        /\ store' \in {w.review, store}
        /\ writes' = (writes \ {w}) \cup {OpenWrite(w.frame)}
        /\ opening' = [opening EXCEPT ![r] = "writing"]
        /\ UNCHANGED <<chain, clock, asked, cache, attached, toClient>>

\* A write that succeeds is stored and announced in one go
WriteSucceeds(w) ==
    /\ w.step \in {"open", "mutate"}
    /\ store' = w.review
    /\ writes' = writes \ {w}
    /\ opening' = IF w.step = "open" THEN [opening EXCEPT ![w.review.id] = "done"] ELSE opening
    /\ Broadcast(w.frame)
    /\ UNCHANGED <<chain, clock, asked, attached>>

\* Slip: a rejected write is never settled, so the chain behind it waits
WriteFailsUnsettled(w) ==
    /\ w.step \in {"open", "mutate"}
    /\ writes' = (writes \ {w}) \cup {[w EXCEPT !.step = "lost"]}
    /\ opening' = IF w.step = "open" THEN [opening EXCEPT ![w.review.id] = "done"] ELSE opening
    /\ UNCHANGED <<store, chain, clock, asked, cache, attached, toClient>>

\* A write that is rejected changes nothing
WriteFails(w) ==
    /\ w.step \in {"open", "mutate"}
    /\ writes' = writes \ {w}
    /\ opening' = IF w.step = "open" THEN [opening EXCEPT ![w.review.id] = "done"] ELSE opening
    /\ UNCHANGED <<store, chain, clock, asked, cache, attached, toClient>>

-----------------------------------------------------------------------------
(* The clients *)

ReadFrame(k) ==
    /\ toClient[k] # <<>>
    /\ cache' = [cache EXCEPT ![k] = Applied(@, Head(toClient[k]))]
    /\ toClient' = [toClient EXCEPT ![k] = Tail(@)]
    /\ UNCHANGED <<store, opening, chain, writes, clock, asked, attached>>

\* The client loses its socket; its ReviewState stays
Drop(k) ==
    /\ k \in attached
    /\ attached' = attached \ {k}
    /\ toClient' = [toClient EXCEPT ![k] = <<>>]
    /\ UNCHANGED <<store, opening, chain, writes, clock, asked, cache>>

\* sendReviewStateSyncToMember()
Replay == << [type |-> "review-state-sync", review |-> store] >>

\* It is seated again and sent the stored reviews
Rejoin(k) ==
    /\ k \notin attached
    /\ attached' = attached \cup {k}
    /\ toClient' = [toClient EXCEPT ![k] = Replay]
    /\ UNCHANGED <<store, opening, chain, writes, clock, asked, cache>>

Settle == \E w \in writes : AbandonSettles(w) \/ WriteSucceeds(w) \/ WriteFails(w)

Next ==
    \/ \E r \in Review : OpenReview(r) \/ StartMutation(r) \/ \E v \in Viewer : Ask(v, r)
    \/ Settle
    \/ \E k \in Client : ReadFrame(k) \/ Drop(k) \/ Rejoin(k)

\* File system calls settle, and a chain whose turn it is goes on
Fairness == WF_vars(Settle) /\ \A r \in Review : WF_vars(StartMutation(r))

Spec == Init /\ [][Next]_vars /\ Fairness

-----------------------------------------------------------------------------
(* Properties *)

Stored == [r \in Review |-> IF store # None /\ store.id = r THEN store ELSE None]

\* No second review of the push has been asked for
SingleReview == \A r, s \in Review : opening[r] # "no" /\ opening[s] # "no" => r = s

\* What an extension that knows the given reviews makes of the frames f
After(known, f) ==
    LET at[i \in 0..Len(f)] == IF i = 0 THEN known ELSE Applied(at[i - 1], f[i])
    IN  at[Len(f)]

\* What every attached member's extension, and the host's own, make of the frames sent
\* so far is exactly the stored review, whatever votes, comments and resolutions were in
\* flight, whichever writes failed and whenever a member came back.  A second review
\* on the push breaks it: the abandonment of the first is not announced.
CachesAgree ==
    SingleReview =>
       /\ cache[Host] = Stored
       /\ \A k \in attached : After(cache[k], toClient[k]) = Stored

\* However many members comment at once, the cap holds (REVIEW_COMMENT_CAP).
CapHolds == store # None => store.comments <= CommentCap

\* A failed write does not hold up the mutations behind it
\* (enqueueReviewWrite: "a single failure does not poison the chain").
ChainDrains == \A r \in Review : chain[r] # <<>> ~> chain[r] = <<>>

-----------------------------------------------------------------------------
(* What the repository says and the code does not keep (README, section 6) *)

\* getActiveReviewForPush(): the newest active review of the push in the cache of v
ActiveReview(v) ==
    {review \in {cache[v][r] : r \in Review} :
       IsActive(review) /\ \A s \in Review :
          IsActive(cache[v][s]) => cache[v][s].openedAt <= review.openedAt}

\* checkRequireReviewGate() on a target that requires review
GateAllows(v) == \E review \in ActiveReview(v) : review.status = "approved"

Newest(v, r) ==
    cache[v][r] # None /\ \A s \in Review :
       cache[v][s] # None => cache[v][s].openedAt <= cache[v][r].openedAt

\* "resolved # approved" (requireReviewGate.ts): once the push's latest review is
\* closed, the gate blocks until a new one is approved.
ClosedReviewBlocksMerge ==
    \A r \in Review : Newest(Host, r) /\ cache[Host][r].status \in Closed => ~GateAllows(Host)
===============================================================================
