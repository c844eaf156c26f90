--------------------------- MODULE ImagePipeline ---------------------------
(***************************************************************************)
(* The way of an image from the booru into the pool: fetch of fetch.go,    *)
(* Fetch, tryFetchPage and processPost of danbooru/main.go, the tables     *)
(* "pending_images" and "images" of package db and the thumbnail files.    *)
(*                                                                         *)
(* fetch is called by several goroutines at once: by the caller of         *)
(* NewService, by the goroutine that initializes the tags after the third, *)
(* and by the scheduler goroutine of fetch.go.  The mutex danbooru.mu      *)
(* covers Fetch only: making the thumbnail and registering the image come  *)
(* after it is released.  A fetcher here fetches any tag at any time.      *)
(*                                                                         *)
(* A call of package db is one step: it runs under dbMu, in a transaction  *)
(* where it has several statements (module Captchas opens such a step).    *)
(* Which page number is drawn is left open: an unseen page is downloaded,  *)
(* a seen one is a cache hit.                                              *)
(***************************************************************************)
EXTENDS Integers, FiniteSets

CONSTANTS
    Hashes,      \* MD5 hashes of the posts on the booru
    Tags,        \* tags that are fetched, in lower case
    Fetchers,    \* goroutines that call fetch
    Pages,       \* Pages[t]: the non-empty result pages for tag t
    Unfit,       \* Unfit[t]: posts that processPost blacklists if t is requested
    Faces,       \* images in which the classifier finds a face
    LowWater,    \* a page is fetched below this number of pending images
    PostErrors,  \* whether processPost may fail (network, SQL)
    Free, NoTag, NoImage

ASSUME PipelineAssumption ==
    /\ Pages \in [Tags -> SUBSET (SUBSET Hashes \ {{}})]
    /\ Unfit \in [Tags -> SUBSET Hashes] /\ Faces \subseteq Hashes
    /\ LowWater \in Nat
    /\ PostErrors \in BOOLEAN
    /\ Free \notin Fetchers /\ NoTag \notin Tags /\ NoImage \notin Hashes

VARIABLES
    pending,   \* pending[x]: target_tag of x in table pending_images, or NoTag
    images,    \* images[x]: row of x in table images
    thumbs,    \* thumbs[x]: thumbnail file of x
    seen,      \* seen[t]: pages in the cache entry of t; in memory only
    mu,        \* holder of danbooru.mu
    fetch,     \* fetch[f]: program point and locals of fetcher f
    posts,     \* posts[x]: processPost(x), run for the holder of mu
    strays,    \* calls of processPost that outlive their tryFetchPage
    failed     \* history: images whose fetch failed or was cut off

db == <<pending, images>>
vars == <<pending, images, thumbs, seen, mu, fetch, posts, strays, failed>>

-----------------------------------------------------------------------------
Running == {"inDB", "isPending", "store"}   \* points of processPost
UnderMu == {"count", "page", "collect", "pop", "download"}
FetchPoint == UnderMu \cup
    {"idle", "lock", "thumb", "blacklist", "write", "flush", "insert"}
File == {"none", "image", "garbage"}
NoImageYet == {"lock", "count", "page", "collect", "pop"}
Fetch ==
    [at : {"idle"}, tag : {NoTag}, img : {NoImage}, file : {"none"}] \cup
    [at : NoImageYet, tag : Tags, img : {NoImage}, file : {"none"}] \cup
    [at : FetchPoint \ (NoImageYet \cup {"idle"}), tag : Tags, img : Hashes, file : File]
At(point, t, x, file) == [at |-> point, tag |-> t, img |-> x, file |-> file]
Idle == At("idle", NoTag, NoImage, "none")
NoPosts == [x \in Hashes |-> "none"]

TypeOK ==
    /\ pending \in [Hashes -> Tags \cup {NoTag}]
    /\ images \in [Hashes -> {"absent", "valid", "blacklisted"}]
    /\ thumbs \in [Hashes -> {"none", "partial", "complete"}]
    /\ seen \in [Tags -> SUBSET (SUBSET Hashes)]
    /\ mu \in Fetchers \cup {Free}
    /\ fetch \in [Fetchers -> Fetch]
    /\ posts \in [Hashes -> Running \cup {"none", "ok", "failed"}]
    /\ strays \subseteq [post : Hashes, tag : Tags, at : Running]
    /\ failed \subseteq Hashes

Init ==
    /\ pending = [x \in Hashes |-> NoTag]
    /\ images = [x \in Hashes |-> "absent"]
    /\ thumbs = [x \in Hashes |-> "none"]
    /\ seen = [t \in Tags |-> {}]
    /\ mu = Free
    /\ fetch = [f \in Fetchers |-> Idle]
    /\ posts = NoPosts
    /\ strays = {}
    /\ failed = {}

GoTo(f, point) == fetch' = [fetch EXCEPT ![f].at = point]

\* fetch returns; under mu, the deferred Unlock of Fetch runs as well.
Return(f) == fetch' = [fetch EXCEPT ![f] = Idle]
ReturnFromFetch(f) == Return(f) /\ mu' = Free

-----------------------------------------------------------------------------
(* Fetch, up to the page.                                                  *)
Start(f) ==
    /\ fetch[f] = Idle
    /\ \E t \in Tags : fetch' = [fetch EXCEPT ![f] = At("lock", t, NoImage, "none")]
    /\ UNCHANGED <<db, thumbs, seen, mu, posts, strays, failed>>

Lock(f) ==
    /\ fetch[f].at = "lock"
    /\ mu = Free /\ mu' = f
    /\ GoTo(f, "count")
    /\ UNCHANGED <<db, thumbs, seen, posts, strays, failed>>

PendingOf(t) == {x \in Hashes : pending[x] = t}

CountPending(f) ==
    /\ fetch[f].at = "count"
    /\ GoTo(f, IF Cardinality(PendingOf(fetch[f].tag)) < LowWater
               THEN "page" ELSE "pop")
    /\ UNCHANGED <<db, thumbs, seen, mu, posts, strays, failed>>

\* tryFetchPage without a download: the page drawn is in the cache, or all are.
CacheHit(f) ==
    /\ fetch[f].at = "page"
    /\ seen[fetch[f].tag] # {}
    /\ GoTo(f, "pop")
    /\ UNCHANGED <<db, thumbs, seen, mu, posts, strays, failed>>

\* The booru has no post for the tag: ErrNoMatch.
NoMatch(f) ==
    /\ fetch[f].at = "page"
    /\ Pages[fetch[f].tag] = {}
    /\ ReturnFromFetch(f)
    /\ UNCHANGED <<db, thumbs, seen, posts, strays, failed>>

\* A page is downloaded, and its posts go to the worker goroutines.
GetPage(f) ==
    /\ fetch[f].at = "page"
    /\ \E page \in Pages[fetch[f].tag] \ seen[fetch[f].tag] :
        posts' = [x \in Hashes |-> IF x \in page THEN "inDB" ELSE "none"]
    /\ GoTo(f, "collect")
    /\ UNCHANGED <<db, thumbs, seen, mu, strays, failed>>

-----------------------------------------------------------------------------
(* processPost for post x and requested tag t, at point "from".  A hash    *)
(* that is stored already violates the key of the table.                   *)
LookUpImage(x, to) ==
    /\ to = IF images[x] = "absent" THEN "isPending" ELSE "ok"
    /\ UNCHANGED db

LookUpPending(x, to) ==
    /\ to = IF pending[x] = NoTag THEN "store" ELSE "ok"
    /\ UNCHANGED db

StoreUnfit(x, to) ==
    /\ to = IF images[x] = "absent" THEN "ok" ELSE "failed"
    /\ images' = [images EXCEPT ![x] = IF @ = "absent" THEN "blacklisted" ELSE @]
    /\ UNCHANGED pending

StorePending(x, t, to) ==
    /\ to = IF pending[x] = NoTag THEN "ok" ELSE "failed"
    /\ pending' = [pending EXCEPT ![x] = IF @ = NoTag THEN t ELSE @]
    /\ UNCHANGED images

ProcessPost(x, t, from, to) ==
    \/ from = "inDB" /\ LookUpImage(x, to)
    \/ from = "isPending" /\ LookUpPending(x, to)
    \/ from = "store" /\ x \in Unfit[t] /\ StoreUnfit(x, to)
    \/ from = "store" /\ x \notin Unfit[t] /\ StorePending(x, t, to)
    \/ PostErrors /\ from \in Running /\ to = "failed" /\ UNCHANGED db

Outcome == Running \cup {"ok", "failed"}

\* A worker goes on with a post of the running tryFetchPage.
Post(x) ==
    /\ posts[x] \in Running
    /\ \E to \in Outcome :
        /\ ProcessPost(x, fetch[mu].tag, posts[x], to)
        /\ posts' = [posts EXCEPT ![x] = to]
    /\ UNCHANGED <<thumbs, seen, mu, fetch, strays, failed>>

\* A worker goes on with a post of a tryFetchPage that has returned; nobody
\* receives its result.
Stray(s) ==
    /\ \E to \in Outcome :
        /\ ProcessPost(s.post, s.tag, s.at, to)
        /\ strays' = (strays \ {s}) \cup
                IF to \in Running THEN {[s EXCEPT !.at = to]} ELSE {}
    /\ UNCHANGED <<thumbs, seen, mu, fetch, posts, failed>>

\* A worker whose context is cancelled before it takes the post exits.
StrayExits(s) ==
    /\ s.at = "inDB"
    /\ strays' = strays \ {s}
    /\ UNCHANGED <<db, thumbs, seen, mu, fetch, posts, failed>>

\* All results have come in: the page is set as seen.
Collected(f) ==
    LET t == fetch[f].tag
        page == {x \in Hashes : posts[x] # "none"}
    IN  /\ fetch[f].at = "collect"
        /\ \A x \in page : posts[x] = "ok"
        /\ seen' = [seen EXCEPT ![t] = @ \cup {page}]
        /\ posts' = NoPosts
        /\ GoTo(f, "pop")
        /\ UNCHANGED <<db, thumbs, mu, strays, failed>>

\* The first failed post ends tryFetchPage and Fetch.  The posts that the
\* workers are processing, or take before they see the cancelled context, are
\* still processed.
Abandon(f) ==
    strays' = strays \cup
        {[post |-> x, tag |-> fetch[f].tag, at |-> posts[x]] :
            x \in {y \in Hashes : posts[y] \in Running}}

CollectFailedSeen(f) ==          \* mutant: a page with a failed post is seen
    /\ fetch[f].at = "collect"
    /\ \E x \in Hashes : posts[x] = "failed"
    /\ seen' = [seen EXCEPT ![fetch[f].tag] =
                    @ \cup {{x \in Hashes : posts[x] # "none"}}]
    /\ Abandon(f)
    /\ posts' = NoPosts
    /\ ReturnFromFetch(f)
    /\ UNCHANGED <<db, thumbs, failed>>

CollectFailed(f) ==
    /\ fetch[f].at = "collect"
    /\ \E x \in Hashes : posts[x] = "failed"
    /\ Abandon(f)
    /\ posts' = NoPosts
    /\ ReturnFromFetch(f)
    /\ UNCHANGED <<db, thumbs, seen, failed>>

-----------------------------------------------------------------------------
(* Fetch, from PopRandomPendingImage on.                                   *)
PopKeepsRow(f) ==                \* mutant: the row is not deleted
    /\ fetch[f].at = "pop"
    /\ \E x \in PendingOf(fetch[f].tag) :
        fetch' = [fetch EXCEPT ![f] = At("download", @.tag, x, "none")]
    /\ UNCHANGED <<db, thumbs, seen, mu, posts, strays, failed>>

Pop(f) ==
    /\ fetch[f].at = "pop"
    /\ \E x \in PendingOf(fetch[f].tag) :
        /\ pending' = [pending EXCEPT ![x] = NoTag]
        /\ fetch' = [fetch EXCEPT ![f] = At("download", @.tag, x, "none")]
    /\ UNCHANGED <<images, thumbs, seen, mu, posts, strays, failed>>

PopNothingHolds(f) ==            \* mutant: the mutex is not released
    /\ fetch[f].at = "pop"
    /\ PendingOf(fetch[f].tag) = {}
    /\ Return(f)
    /\ UNCHANGED <<db, thumbs, seen, mu, posts, strays, failed>>

\* No pending image: ErrNoMatch if all pages are seen, and no file otherwise.
PopNothing(f) ==
    /\ fetch[f].at = "pop"
    /\ PendingOf(fetch[f].tag) = {}
    /\ ReturnFromFetch(f)
    /\ UNCHANGED <<db, thumbs, seen, posts, strays, failed>>

\* The body of the response is saved, whatever the status of the response.
Download(f) ==
    /\ fetch[f].at = "download"
    /\ \E file \in {"image", "garbage"} :
        fetch' = [fetch EXCEPT ![f] = At("thumb", @.tag, @.img, file)]
    /\ mu' = Free
    /\ UNCHANGED <<db, thumbs, seen, posts, strays, failed>>

\* A query, the download of a page or the download of the file fails.
FetchFails(f) ==
    /\ fetch[f].at \in UnderMu \ {"collect"}
    /\ ReturnFromFetch(f)
    /\ failed' = failed \cup ({fetch[f].img} \ {NoImage})
    /\ UNCHANGED <<db, thumbs, seen, posts, strays>>

-----------------------------------------------------------------------------
(* fetch, after danbooru.Fetch.  A file that is no image has no faces.     *)
Thumbnail(f) ==
    /\ fetch[f].at = "thumb"
    /\ GoTo(f, IF fetch[f].file = "image" /\ fetch[f].img \in Faces
               THEN "write" ELSE "blacklist")
    /\ UNCHANGED <<db, thumbs, seen, mu, posts, strays, failed>>

\* BlacklistImage and InsertImage: the index on "hash" is unique.
BlacklistReplace(f) ==           \* mutant: insert or replace
    /\ fetch[f].at = "blacklist"
    /\ images' = [images EXCEPT ![fetch[f].img] = "blacklisted"]
    /\ Return(f)
    /\ UNCHANGED <<pending, thumbs, seen, mu, posts, strays, failed>>

Register(f, from, row) ==
    /\ fetch[f].at = from
    /\ images' = [images EXCEPT
            ![fetch[f].img] = IF @ = "absent" THEN row ELSE @]
    /\ Return(f)
    /\ UNCHANGED <<pending, thumbs, seen, mu, posts, strays, failed>>

Blacklist(f) == Register(f, "blacklist", "blacklisted")
InsertImage(f) == Register(f, "insert", "valid")

\* writeThumbnail: the file is truncated, then written and flushed.
WriteFile(f, from, content, to) ==
    /\ fetch[f].at = from
    /\ thumbs' = [thumbs EXCEPT ![fetch[f].img] = content]
    /\ GoTo(f, to)
    /\ UNCHANGED <<db, seen, mu, posts, strays, failed>>

OpenThumbLate(f) ==              \* mutant: the image is inserted first
    /\ fetch[f].at = "write"
    /\ GoTo(f, "insert")
    /\ UNCHANGED <<db, thumbs, seen, mu, posts, strays, failed>>

FlushThumbNot(f) == WriteFile(f, "flush", "partial", "insert")   \* mutant
OpenThumb(f) == WriteFile(f, "write", "partial", "flush")
FlushThumb(f) == WriteFile(f, "flush", "complete", "insert")

\* The thumbnail, the file or the statement fails.
RegisterFails(f) ==
    /\ fetch[f].at \in {"thumb", "blacklist", "write", "flush", "insert"}
    /\ Return(f)
    /\ failed' = failed \cup {fetch[f].img}
    /\ UNCHANGED <<db, thumbs, seen, mu, posts, strays>>

-----------------------------------------------------------------------------
(* The process dies: the tables and the files remain.                      *)
Crash ==
    /\ seen' = [t \in Tags |-> {}]
    /\ mu' = Free
    /\ fetch' = [f \in Fetchers |-> Idle]
    /\ posts' = NoPosts
    /\ strays' = {}
    /\ failed' = failed \cup ({fetch[f].img : f \in Fetchers} \ {NoImage})
    /\ UNCHANGED <<db, thumbs>>

-----------------------------------------------------------------------------
Run(f) ==
    \/ CountPending(f) \/ CacheHit(f) \/ NoMatch(f) \/ GetPage(f)
    \/ Collected(f) \/ CollectFailed(f) \/ Pop(f) \/ PopNothing(f)
    \/ Download(f) \/ FetchFails(f) \/ Thumbnail(f) \/ Blacklist(f)
    \/ OpenThumb(f) \/ FlushThumb(f) \/ InsertImage(f) \/ RegisterFails(f)

Next ==
    \/ \E f \in Fetchers : Start(f) \/ Lock(f) \/ Run(f)
    \/ \E x \in Hashes : Post(x)
    \/ \E s \in strays : Stray(s) \/ StrayExits(s)
    \/ Crash

Spec == Init /\ [][Next]_vars

\* Goroutines go on; a goroutine blocked in mu.Lock gets the mutex at last.
Fairness ==
    /\ \A f \in Fetchers : WF_vars(Run(f)) /\ SF_vars(Lock(f))
    /\ \A x \in Hashes : WF_vars(Post(x))

FairSpec == Spec /\ Fairness

-----------------------------------------------------------------------------
(* Properties.                                                             *)

\* Every image that a captcha may show has a thumbnail file: the file is
\* written before the row, whoever else fetches and whatever fails.
ThumbExists == \A x \in Hashes : images[x] = "valid" => thumbs[x] # "none"

\* The thumbnail of an image that captchas show is complete, but for two cases: a
\* further fetch of the image is between the open of the file, which truncates it,
\* and its last write, or a fetch of the image has ended with an error or a crash,
\* which may have left the file like that.
Rewritten(x) == \E f \in Fetchers : fetch[f].img = x /\ fetch[f].at = "flush"
ThumbComplete ==
    \A x \in Hashes : images[x] = "valid" =>
        thumbs[x] = "complete" \/ Rewritten(x) \/ x \in failed

\* Nothing is dropped silently.  A page is only seen when each of its posts is
\* accounted for: registered, pending, in the hands of a fetcher, or lost to an
\* error that fetch reported (or to a crash).
Kept(x) ==
    \/ images[x] # "absent"
    \/ pending[x] # NoTag
    \/ x \in failed
    \/ \E f \in Fetchers : fetch[f].img = x

NothingDropped == \A t \in Tags : \A page \in seen[t] : \A x \in page : Kept(x)

\* The inductive invariant: only the holder of danbooru.mu is inside Fetch, the
\* posts in progress are its posts, a post that was processed is accounted for,
\* a fetcher that goes on to insert an image has opened its thumbnail, and an
\* incomplete file is being written, or was left by a fetch that failed.
MuHeld == \A f \in Fetchers : fetch[f].at \in UnderMu => mu = f
PostsCollected ==
    posts = NoPosts \/ (mu \in Fetchers /\ fetch[mu].at = "collect")
ProcessedKept == \A x \in Hashes : posts[x] = "ok" => Kept(x)
ThumbOpened ==
    \A f \in Fetchers : fetch[f].at \in {"flush", "insert"} =>
        thumbs[fetch[f].img] # "none"
ThumbTorn ==
    \A x \in Hashes : thumbs[x] = "partial" => Rewritten(x) \/ x \in failed

IInv ==
    /\ TypeOK /\ MuHeld /\ PostsCollected
    /\ ProcessedKept /\ NothingDropped
    /\ ThumbOpened /\ ThumbExists /\ ThumbTorn

\* The fate of an image is final: of two fetchers that process the same image
\* the first decides, and neither replaces or deletes the row.
RowsFinal ==
    [][\A x \in Hashes : images[x] # "absent" => images'[x] = images[x]]_vars

\* Fetch and fetch return: no fetcher waits for ever for danbooru.mu, which others
\* hold for their pages and files, or for the results of its posts, whichever call
\* or post fails.
FetchReturns ==
    \A f \in Fetchers : fetch[f].at # "idle" ~> fetch[f].at = "idle"

-----------------------------------------------------------------------------
(* The life of the images.                                                 *)

\* Whatever is looked up, stored, retried or cut off, an offer of an image is taken
\* by one fetcher, the image is shown only after that fetcher has written its
\* thumbnail, and the first of several fetchers decides for all.
Life == INSTANCE ImageLife WITH
    Nothing <- NoImage,
    offered <- {x \in Hashes : pending[x] # NoTag},
    row <- images,
    file <- thumbs,
    hand <- [f \in Fetchers |-> fetch[f].img],
    written <- {f \in Fetchers : fetch[f].at = "insert"}

ImplementsLife == Life!Spec

-----------------------------------------------------------------------------
(* What the comments say and the code does not do.                         *)

\* BlacklistImage: "Add image to blacklist so that it is not fetched again".
NotFetchedAgain ==
    [][\A x \in Hashes : images[x] = "blacklisted" =>
            ~\E f \in Fetchers : fetch[f].img # x /\ fetch'[f].img = x]_vars
=============================================================================
