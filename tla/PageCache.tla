----------------------------- MODULE PageCache -----------------------------
(***************************************************************************)
(* The search for images of one tag: initTag of service.go, which fetches  *)
(* until the pool of the tag is full, Fetch and tryFetchPage of            *)
(* danbooru/main.go, which draw the pages of the booru at random, and the  *)
(* cache of the pages that were seen.  Later on the scheduler fetches, one *)
(* image at a time, with the same cache.                                   *)
(*                                                                         *)
(* The cache is used under danbooru.mu, and a tag is only scheduled after  *)
(* initTag is done with it: one fetcher is followed here.  Other tags have *)
(* caches of their own, and take images of this tag now and then.  What    *)
(* happens inside of a page and of an image is in module ImagePipeline.    *)
(***************************************************************************)
EXTENDS Integers, FiniteSets

CONSTANTS
    Images,       \* images of the tag on the booru
    NumPages,     \* bound on the number of non-empty pages of the booru
    Posts,        \* Posts[p]: images on page p
    Fit,          \* images that processPost accepts
    Faces,        \* images in which the classifier finds a face
    Rated,        \* images of the explicitness of the service
    MaxPages,     \* first estimate of the number of pages, 300 in the code
    LowWater,     \* a page is fetched below this number of pending images, 3
    poolMinSize   \* images that initTag is content with, 6

ASSUME CacheAssumption ==
    /\ MaxPages \in Nat \ {0} /\ LowWater \in Nat /\ poolMinSize \in Nat
    /\ NumPages \in Nat /\ Posts \in [0 .. NumPages - 1 -> SUBSET Images]

VARIABLES
    site,        \* number of non-empty pages on the booru
    pages,       \* cacheEntry.pages: the pages that were seen
    maxPages,    \* cacheEntry.maxPages
    life,        \* life[x]: the row of image x, or what became of it
    at,          \* program point
    initializing, \* whether initTag fetches, or the scheduler does
    allFetched,  \* local of Fetch
    err          \* result of the last fetch

vars == <<site, pages, maxPages, life, at, initializing, allFetched, err>>
cache == <<pages, maxPages>>
caller == <<initializing, allFetched>>

In(state) == {x \in Images : life[x] = state}
Pool == In("valid") \cap Rated

TypeOK ==
    /\ site \in 0 .. NumPages
    /\ pages \subseteq 0 .. MaxPages - 1 /\ maxPages \in 0 .. MaxPages
    /\ life \in [Images ->
            {"new", "pending", "elsewhere", "valid", "blacklisted", "lost"}]
    /\ at \in {"idle", "count", "fetch", "page", "pop"}
    /\ initializing \in BOOLEAN /\ allFetched \in BOOLEAN
    /\ err \in {"nil", "ErrNoMatch", "failed"}

Init ==
    /\ site \in 0 .. NumPages
    /\ pages = {} /\ maxPages = MaxPages
    /\ life = [x \in Images |-> "new"]
    /\ at = "idle" /\ initializing = TRUE /\ allFetched = FALSE /\ err = "nil"

-----------------------------------------------------------------------------
\* NewService calls initTag; the scheduler fetches for a tag that has its pool.
Call ==
    /\ at = "idle"
    /\ \/ at' = "count" /\ initializing' = TRUE
       \/ at' = "fetch" /\ initializing' = FALSE /\ Cardinality(Pool) >= poolMinSize
    /\ allFetched' = FALSE /\ err' = "nil"
    /\ UNCHANGED <<site, cache, life>>

\* fetch returns; initTag goes on unless there is an error.
Return(result) ==
    /\ err' = result
    /\ at' = IF initializing /\ result = "nil" THEN "count" ELSE "idle"
    /\ allFetched' = FALSE
    /\ UNCHANGED <<site, initializing>>

\* ImageCount: only the images of the service's explicitness count.
ImageCount ==
    /\ at = "count"
    /\ at' = IF Cardinality(Pool) >= poolMinSize THEN "idle" ELSE "fetch"
    /\ UNCHANGED <<site, cache, life, caller, err>>

CountPending ==
    /\ at = "fetch"
    /\ at' = IF Cardinality(In("pending")) < LowWater THEN "page" ELSE "pop"
    /\ UNCHANGED <<site, cache, life, caller, err>>

-----------------------------------------------------------------------------
(* tryFetchPage.                                                           *)
NoPages ==
    /\ at = "page" /\ maxPages = 0
    /\ Return("ErrNoMatch")
    /\ UNCHANGED <<cache, life>>

AllSeenEarly == Cardinality(pages) >= maxPages - 1     \* mutant
AllSeen == Cardinality(pages) = maxPages

ErrAllFetched ==
    /\ at = "page" /\ maxPages > 0 /\ AllSeen
    /\ at' = "pop" /\ allFetched' = TRUE
    /\ UNCHANGED <<site, cache, life, initializing, err>>

\* The first page is fetched first, and any one later.
CanDraw(p) == IF pages = {} THEN p = 0 ELSE p < maxPages

Draw(p) == at = "page" /\ maxPages > 0 /\ ~AllSeen /\ CanDraw(p)

CacheHit(p) ==
    /\ Draw(p) /\ p \in pages
    /\ at' = "pop"
    /\ UNCHANGED <<site, cache, life, caller, err>>

\* Posts of a page become pending or blacklisted.
Store(posts) ==
    life' = [x \in Images |->
        IF x \in posts /\ life[x] = "new"
        THEN IF x \in Fit THEN "pending" ELSE "blacklisted"
        ELSE life[x]]

\* All posts of the page are stored, and the page is seen.
NewPage(p) ==
    /\ Draw(p) /\ p \notin pages /\ p < site
    /\ Store(Posts[p])
    /\ pages' = pages \cup {p}
    /\ at' = "pop"
    /\ UNCHANGED <<site, maxPages, caller, err>>

\* An empty first page: there is no image for the tag.
EmptyTag ==
    /\ Draw(0) /\ 0 \notin pages /\ site = 0
    /\ maxPages' = 0
    /\ Return("ErrNoMatch")
    /\ UNCHANGED <<pages, life>>

\* An empty page: pages from there on are not tried again, and another is drawn.
EmptyPageKept(p) ==              \* mutant: the estimate is kept
    /\ Draw(p) /\ p \notin pages /\ p >= site /\ p > 0
    /\ UNCHANGED vars

EmptyPage(p) ==
    /\ Draw(p) /\ p \notin pages /\ p >= site /\ p > 0
    /\ maxPages' = p
    /\ UNCHANGED <<site, pages, life, at, caller, err>>

-----------------------------------------------------------------------------
(* PopRandomPendingImage and the rest of fetch.                            *)
Pop ==
    /\ at = "pop"
    /\ \E x \in In("pending") :
        life' = [life EXCEPT ![x] = IF x \in Faces THEN "valid" ELSE "blacklisted"]
    /\ Return("nil")
    /\ UNCHANGED cache

PopNothingNoMatch ==             \* mutant: allFetched is not looked at
    /\ at = "pop" /\ In("pending") = {}
    /\ Return("ErrNoMatch")
    /\ UNCHANGED <<cache, life>>

PopNothing ==
    /\ at = "pop" /\ In("pending") = {}
    /\ Return(IF allFetched THEN "ErrNoMatch" ELSE "nil")
    /\ UNCHANGED <<cache, life>>

\* A query, a download, the thumbnail or a statement fails.
Fails ==
    /\ at \in {"count", "fetch", "page", "pop"}
    /\ Return("failed")
    /\ \/ UNCHANGED life
       \/ at = "pop" /\ \E x \in In("pending") : life' = [life EXCEPT ![x] = "lost"]
    /\ UNCHANGED cache

\* A post of a new page fails.  Some of the others are stored nevertheless, by now or
\* by the workers that go on, but the page is not seen.
PageFails(p) ==
    /\ Draw(p) /\ p \notin pages /\ p < site
    /\ \E some \in SUBSET Posts[p] : Store(some)
    /\ Return("failed")
    /\ UNCHANGED cache

-----------------------------------------------------------------------------
\* A fetch for another tag that image x has too.
Elsewhere(x) ==
    /\ \/ life[x] = "new" /\ life' = [life EXCEPT ![x] = "elsewhere"]
       \/ /\ life[x] = "elsewhere"
          /\ \E to \in {"valid", "blacklisted", "lost"} : life' = [life EXCEPT ![x] = to]
    /\ UNCHANGED <<site, cache, at, caller, err>>

\* The process is started again: the cache is empty, and an image that is in no
\* table is as good as never seen.
Restart ==
    /\ pages' = {} /\ maxPages' = MaxPages
    /\ life' = [x \in Images |-> IF life[x] = "lost" THEN "new" ELSE life[x]]
    /\ at' = "idle" /\ initializing' = TRUE /\ allFetched' = FALSE /\ err' = "nil"
    /\ UNCHANGED site

-----------------------------------------------------------------------------
TryPage(p) == CacheHit(p) \/ NewPage(p) \/ EmptyPage(p)
Step ==
    \/ ImageCount \/ CountPending \/ NoPages \/ ErrAllFetched \/ EmptyTag
    \/ Pop \/ PopNothing \/ Fails

Next ==
    \/ Call \/ Step
    \/ \E p \in 0 .. MaxPages : TryPage(p) \/ PageFails(p)
    \/ \E x \in Images : Elsewhere(x)
    \/ Restart

Spec == Init /\ [][Next]_vars

\* The goroutine goes on, and RandomInt draws every page at last.
Fairness == WF_vars(Step) /\ \A p \in 0 .. MaxPages : SF_vars(TryPage(p))

FairSpec == Spec /\ Fairness

\* Spec has a booru that does not lose posts.  Here it loses its last page.
Shrink ==
    /\ site > 0 /\ site' = site - 1
    /\ UNCHANGED <<cache, life, at, caller, err>>

ShrinkingSpec == Init /\ [][Next \/ Shrink]_vars /\ Fairness

-----------------------------------------------------------------------------
\* errAllFetched, "all pages fetched": each page of the booru was seen, up to the
\* first estimate.
Reachable == {p \in 0 .. MaxPages - 1 : p < site}
AllFetched == allFetched => Reachable \subseteq pages

\* fetch finds no match only if there is nothing left: every image of the booru
\* is registered or blacklisted, in the hands of another tag, or lost to an error.
NoMatchIsTrue ==
    err = "ErrNoMatch" => \A p \in Reachable : \A x \in Posts[p] :
        life[x] \notin {"new", "pending"}

\* initTag ends: the pool is full, or there is an error.
InitTagReturns == at = "count" ~> at = "idle"

\* The inductive invariant of Spec: the estimate is never below the number of
\* pages, the images of seen pages are not new, and after ErrNoMatch none is left.
\* (If the booru has no page for the tag at all, images from former times may
\* still be pending: they are not looked for.)
EstimateInv ==
    /\ pages \subseteq Reachable /\ pages \subseteq 0 .. maxPages - 1
    /\ Reachable \subseteq 0 .. maxPages - 1
SeenInv == \A p \in pages : \A x \in Posts[p] : life[x] # "new"
PendingInv ==
    err = "ErrNoMatch" =>
        /\ at = "idle" /\ Reachable \subseteq pages
        /\ Reachable # {} => In("pending") = {}
CacheInv == TypeOK /\ EstimateInv /\ SeenInv /\ PendingInv /\ AllFetched
=============================================================================
