--------------------------- MODULE PipelineProofs ---------------------------
(***************************************************************************)
(* Theorems about module ImagePipeline, for any booru, any number of       *)
(* fetchers, tags and images, failing calls and crashes.  The inductive    *)
(* invariant is IInv of module ImagePipeline.                              *)
(***************************************************************************)
EXTENDS ImagePipeline, TLAPS

USE PipelineAssumption DEF PipelineAssumption

\* IInv holds initially.
LEMMA InitInv == Init => IInv
<1> SUFFICES ASSUME Init PROVE IInv
  OBVIOUS
<1> USE DEF Init
<1>1. TypeOK
  BY DEF TypeOK, Idle, At, NoPosts, Fetch
<1>2. MuHeld /\ PostsCollected /\ ThumbOpened
  BY DEF MuHeld, PostsCollected, ThumbOpened, Idle, At, UnderMu
<1>3. ProcessedKept /\ NothingDropped /\ ThumbExists /\ ThumbTorn
  BY DEF ProcessedKept, NothingDropped, ThumbExists, ThumbTorn, NoPosts
<1> QED BY <1>1, <1>2, <1>3 DEF IInv

-----------------------------------------------------------------------------
(* Types, the mutex and the posts in progress.                             *)
Core == TypeOK /\ MuHeld /\ PostsCollected

\* The steps of Fetch up to the page.
LEMMA LookUpCore ==
    ASSUME Core, NEW f \in Fetchers,
           \/ Start(f) \/ Lock(f) \/ CountPending(f)
           \/ CacheHit(f) \/ NoMatch(f) \/ GetPage(f)
    PROVE  Core'
<1> USE DEF Core, GoTo, Return, ReturnFromFetch, db, TypeOK, MuHeld,
            PostsCollected, Idle, At, Fetch, NoImageYet, File, FetchPoint, UnderMu
<1>1. CASE Start(f)
  BY <1>1 DEF Start
<1>2. CASE Lock(f)
  BY <1>2 DEF Lock
<1>3. CASE CountPending(f)
  BY <1>3 DEF CountPending
<1>4. CASE CacheHit(f)
  BY <1>4 DEF CacheHit
<1>5. CASE NoMatch(f)
  BY <1>5 DEF NoMatch
<1>6. CASE GetPage(f)
  BY <1>6 DEF GetPage, Running
<1> QED BY <1>1, <1>2, <1>3, <1>4, <1>5, <1>6

\* processPost writes rows of the two tables and names its next point.
LEMMA ProcessPostCore ==
    ASSUME TypeOK, NEW x \in Hashes, NEW t \in Tags, NEW from, NEW to \in Outcome,
           ProcessPost(x, t, from, to)
    PROVE  /\ pending' \in [Hashes -> Tags \cup {NoTag}]
           /\ images' \in [Hashes -> {"absent", "valid", "blacklisted"}]
BY DEF TypeOK, ProcessPost, LookUpImage, LookUpPending, StoreUnfit, StorePending, db

\* The steps of the workers.
LEMMA PostCore ==
    ASSUME Core,
           \/ \E x \in Hashes : Post(x)
           \/ \E s \in strays : Stray(s) \/ StrayExits(s)
    PROVE  Core'
<1> USE DEF Core, db, MuHeld, PostsCollected
<1>1. ASSUME NEW x \in Hashes, Post(x) PROVE Core'
  <2>1. mu \in Fetchers /\ fetch[mu].at = "collect" /\ fetch[mu].tag \in Tags
    BY <1>1 DEF Post, NoPosts, Running, TypeOK, Fetch, NoImageYet
  <2>2. PICK to \in Outcome :
            ProcessPost(x, fetch[mu].tag, posts[x], to) /\ posts' = [posts EXCEPT ![x] = to]
    BY <1>1 DEF Post
  <2>3. TypeOK'
    BY <1>1, <2>1, <2>2, ProcessPostCore DEF Post, TypeOK, Outcome
  <2> QED BY <1>1, <2>1, <2>3 DEF Post
<1>2. ASSUME NEW s \in strays, Stray(s) PROVE Core'
  <2>1. s.post \in Hashes /\ s.tag \in Tags /\ s.at \in Running
    BY DEF TypeOK
  <2>2. PICK to \in Outcome :
            /\ ProcessPost(s.post, s.tag, s.at, to)
            /\ strays' = (strays \ {s}) \cup
                    IF to \in Running THEN {[s EXCEPT !.at = to]} ELSE {}
    BY <1>2 DEF Stray
  <2>3. strays' \subseteq [post : Hashes, tag : Tags, at : Running]
    BY <2>1, <2>2 DEF TypeOK
  <2>4. TypeOK'
    BY <1>2, <2>1, <2>2, <2>3, ProcessPostCore DEF Stray, TypeOK
  <2> QED BY <1>2, <2>4 DEF Stray
<1>3. ASSUME NEW s \in strays, StrayExits(s) PROVE Core'
  BY <1>3 DEF StrayExits, TypeOK
<1> QED BY <1>1, <1>2, <1>3

\* The steps of Fetch from the results of the page on.
LEMMA FetchCore ==
    ASSUME Core, NEW f \in Fetchers,
           \/ Collected(f) \/ CollectFailed(f) \/ Pop(f) \/ PopNothing(f)
           \/ Download(f) \/ FetchFails(f)
    PROVE  Core'
<1> USE DEF Core, GoTo, Return, ReturnFromFetch, db, TypeOK, MuHeld,
            PostsCollected, Idle, At, Fetch, NoImageYet, File, FetchPoint, UnderMu
<1>1. CASE Collected(f)
  BY <1>1 DEF Collected, NoPosts
<1>2. CASE CollectFailed(f)
  BY <1>2 DEF CollectFailed, Abandon, NoPosts
<1>3. CASE Pop(f)
  BY <1>3 DEF Pop, PendingOf
<1>4. CASE PopNothing(f)
  BY <1>4 DEF PopNothing
<1>5. CASE Download(f)
  BY <1>5 DEF Download
<1>6. CASE FetchFails(f)
  BY <1>6 DEF FetchFails
<1> QED BY <1>1, <1>2, <1>3, <1>4, <1>5, <1>6

\* The steps of fetch after danbooru.Fetch, and a crash.
LEMMA RegisterCore ==
    ASSUME Core,
           \/ Crash
           \/ \E f \in Fetchers :
                \/ Thumbnail(f) \/ Blacklist(f) \/ OpenThumb(f)
                \/ FlushThumb(f) \/ InsertImage(f) \/ RegisterFails(f)
    PROVE  Core'
<1> USE DEF Core, GoTo, Return, db, TypeOK, MuHeld,
            PostsCollected, Idle, At, Fetch, NoImageYet, File, FetchPoint, UnderMu
<1>1. CASE Crash
  BY <1>1 DEF Crash, NoPosts
<1>2. ASSUME NEW f \in Fetchers, Thumbnail(f) PROVE Core'
  BY <1>2 DEF Thumbnail
<1>3. ASSUME NEW f \in Fetchers, Blacklist(f) \/ InsertImage(f) PROVE Core'
  BY <1>3 DEF Blacklist, InsertImage, Register
<1>4. ASSUME NEW f \in Fetchers, OpenThumb(f) \/ FlushThumb(f) PROVE Core'
  BY <1>4 DEF OpenThumb, FlushThumb, WriteFile
<1>5. ASSUME NEW f \in Fetchers, RegisterFails(f) PROVE Core'
  BY <1>5 DEF RegisterFails
<1> QED BY <1>1, <1>2, <1>3, <1>4, <1>5

LEMMA NextCore == Core /\ [Next]_vars => Core'
<1> SUFFICES ASSUME Core, [Next]_vars PROVE Core'
  OBVIOUS
<1>1. CASE UNCHANGED vars
  BY <1>1 DEF Core, vars, db, TypeOK, MuHeld, PostsCollected
<1>2. CASE Next
  BY <1>2, LookUpCore, PostCore, FetchCore, RegisterCore DEF Next, Run
<1> QED BY <1>1, <1>2

-----------------------------------------------------------------------------
(* Thumbnails: no step removes a file, and a row is inserted by a fetcher  *)
(* that has opened the file.                                               *)
Thumbs == ThumbOpened /\ ThumbExists

\* Steps that neither insert an image nor get a fetcher closer to it.
LEMMA ThumbsKept ==
    ASSUME Core, Thumbs, UNCHANGED thumbs,
           \A x \in Hashes : images'[x] = "valid" => images[x] = "valid",
           \A f \in Fetchers : fetch'[f].at \in {"flush", "insert"} => fetch'[f] = fetch[f]
    PROVE  Thumbs'
BY DEF Thumbs, ThumbOpened, ThumbExists

LEMMA NextThumbs == Core /\ Thumbs /\ [Next]_vars => Thumbs'
<1> SUFFICES ASSUME Core, Thumbs, [Next]_vars PROVE Thumbs'
  OBVIOUS
<1> USE DEF Core, db, GoTo, Return, ReturnFromFetch
<1>1. CASE UNCHANGED vars
  BY <1>1, ThumbsKept DEF vars
<1>2. ASSUME NEW f \in Fetchers, OpenThumb(f) \/ FlushThumb(f) PROVE Thumbs'
  BY <1>2 DEF OpenThumb, FlushThumb, WriteFile, Thumbs, ThumbOpened, ThumbExists,
              TypeOK, Fetch, FetchPoint, NoImageYet, UnderMu
<1>3. ASSUME NEW f \in Fetchers, InsertImage(f) PROVE Thumbs'
  BY <1>3 DEF InsertImage, Register, Thumbs, ThumbOpened, ThumbExists, TypeOK, Idle, At
<1>4. ASSUME NEW f \in Fetchers, Blacklist(f) PROVE Thumbs'
  BY <1>4 DEF Blacklist, Register, Thumbs, ThumbOpened, ThumbExists, TypeOK, Idle, At
<1>5. ASSUME NEW f \in Fetchers,
             \/ Start(f) \/ Lock(f) \/ CountPending(f) \/ CacheHit(f) \/ NoMatch(f)
             \/ GetPage(f) \/ Collected(f) \/ CollectFailed(f) \/ Pop(f)
             \/ PopNothing(f) \/ Download(f) \/ FetchFails(f) \/ Thumbnail(f)
             \/ RegisterFails(f)
      PROVE  Thumbs'
  <2> USE <1>5 DEF TypeOK, Idle, At
  <2>1. UNCHANGED <<thumbs, images>>
    BY DEF Start, Lock, CountPending, CacheHit, NoMatch, GetPage, Collected,
           CollectFailed, Pop, PopNothing, Download, FetchFails, Thumbnail, RegisterFails
  <2>2. \A g \in Fetchers : fetch'[g].at \in {"flush", "insert"} => fetch'[g] = fetch[g]
    <3>1. CASE Start(f) \/ Pop(f) \/ Download(f)
      BY <3>1 DEF Start, Pop, Download
    <3>2. CASE Lock(f) \/ CountPending(f) \/ CacheHit(f) \/ GetPage(f) \/ Collected(f)
               \/ Thumbnail(f)
      <4>1. PICK p \in {"count", "page", "pop", "collect", "write", "blacklist"} :
                fetch' = [fetch EXCEPT ![f].at = p]
        BY <3>2 DEF Lock, CountPending, CacheHit, GetPage, Collected, Thumbnail
      <4> QED BY <4>1
    <3>3. CASE NoMatch(f) \/ CollectFailed(f) \/ PopNothing(f) \/ FetchFails(f)
               \/ RegisterFails(f)
      BY <3>3 DEF NoMatch, CollectFailed, PopNothing, FetchFails, RegisterFails
    <3> QED BY <3>1, <3>2, <3>3
  <2> QED BY <2>1, <2>2, ThumbsKept
<1>6. ASSUME NEW x \in Hashes, NEW t, NEW from, NEW to, ProcessPost(x, t, from, to),
             UNCHANGED <<thumbs, fetch>>
      PROVE  Thumbs'
  BY <1>6, ThumbsKept DEF ProcessPost, LookUpImage, LookUpPending, StoreUnfit,
                          StorePending, TypeOK
<1>7. ASSUME NEW x \in Hashes, Post(x) PROVE Thumbs'
  BY <1>6, <1>7 DEF Post
<1>8. ASSUME NEW s \in strays, Stray(s) PROVE Thumbs'
  BY <1>6, <1>8 DEF Stray, TypeOK
<1>9. ASSUME NEW s \in strays, StrayExits(s) PROVE Thumbs'
  BY <1>9, ThumbsKept DEF StrayExits
<1>10. CASE Crash
  BY <1>10, ThumbsKept DEF Crash, Idle, At
<1> QED BY <1>1, <1>2, <1>3, <1>4, <1>5, <1>7, <1>8, <1>9, <1>10 DEF Next, Run

\* A fetcher only leaves "flush" by its last write, or with an error or a crash.
LEMMA TornKept ==
    ASSUME Core, ThumbTorn, UNCHANGED thumbs, failed \subseteq failed',
           \A f \in Fetchers : fetch[f].at = "flush" =>
                fetch'[f] = fetch[f] \/ fetch[f].img \in failed'
    PROVE  ThumbTorn'
BY DEF ThumbTorn, Rewritten

LEMMA NextTorn == Core /\ ThumbTorn /\ [Next]_vars => ThumbTorn'
<1> SUFFICES ASSUME Core, ThumbTorn, [Next]_vars PROVE ThumbTorn'
  OBVIOUS
<1> USE DEF Core, TypeOK, GoTo, Return, ReturnFromFetch
<1>1. CASE UNCHANGED vars
  BY <1>1, TornKept DEF vars
<1>2. ASSUME NEW f \in Fetchers, OpenThumb(f) PROVE ThumbTorn'
  BY <1>2 DEF OpenThumb, WriteFile, ThumbTorn, Rewritten, Fetch
<1>3. ASSUME NEW f \in Fetchers, FlushThumb(f) PROVE ThumbTorn'
  BY <1>3 DEF FlushThumb, WriteFile, ThumbTorn, Rewritten, Fetch
<1>4. ASSUME NEW f \in Fetchers, fetch[f].at # "flush",
             UNCHANGED thumbs, failed \subseteq failed',
             \A g \in Fetchers \ {f} : fetch'[g] = fetch[g]
      PROVE  ThumbTorn'
  BY <1>4, TornKept
<1>5. ASSUME NEW f \in Fetchers,
             \/ Start(f) \/ Lock(f) \/ CountPending(f) \/ CacheHit(f) \/ NoMatch(f)
             \/ GetPage(f) \/ Collected(f) \/ CollectFailed(f) \/ Pop(f)
             \/ PopNothing(f) \/ Download(f) \/ FetchFails(f) \/ Thumbnail(f)
             \/ Blacklist(f) \/ InsertImage(f)
      PROVE  ThumbTorn'
  <2>1. fetch[f].at # "flush"
    BY <1>5 DEF Start, Lock, CountPending, CacheHit, NoMatch, GetPage, Collected, Idle, At,
           CollectFailed, Pop, PopNothing, Download, FetchFails, Thumbnail, Blacklist,
           InsertImage, Register, UnderMu
  <2>2. UNCHANGED thumbs /\ failed \subseteq failed'
    BY <1>5 DEF Start, Lock, CountPending, CacheHit, NoMatch, GetPage, Collected,
           CollectFailed, Pop, PopNothing, Download, FetchFails, Thumbnail, Blacklist,
           InsertImage, Register
  <2>3. \A g \in Fetchers \ {f} : fetch'[g] = fetch[g]
    BY <1>5 DEF Start, Lock, CountPending, CacheHit, NoMatch, GetPage, Collected,
           CollectFailed, Pop, PopNothing, Download, FetchFails, Thumbnail, Blacklist,
           InsertImage, Register
  <2> QED BY <1>4, <2>1, <2>2, <2>3
<1>6. ASSUME NEW f \in Fetchers, RegisterFails(f) PROVE ThumbTorn'
  BY <1>6, TornKept DEF RegisterFails
<1>7. ASSUME \/ \E x \in Hashes : Post(x)
             \/ \E s \in strays : Stray(s) \/ StrayExits(s)
      PROVE  ThumbTorn'
  BY <1>7, TornKept DEF Post, Stray, StrayExits
<1>8. CASE Crash
  BY <1>8, TornKept DEF Crash, Fetch, NoImageYet
<1> QED BY <1>1, <1>2, <1>3, <1>5, <1>6, <1>7, <1>8 DEF Next, Run

-----------------------------------------------------------------------------
(* Nothing is dropped: an image that is accounted for stays so.            *)

\* No step takes away what accounts for an image without giving it something else.
LEMMA KeptStable ==
    ASSUME Core, [Next]_vars, NEW x \in Hashes, Kept(x)
    PROVE  Kept(x)'
<1> USE DEF Core, Kept, db, GoTo, Return, ReturnFromFetch, Idle, At, TypeOK
<1>1. CASE UNCHANGED vars
  BY <1>1 DEF vars
<1>2. ASSUME NEW f \in Fetchers,
             \/ Start(f) \/ Lock(f) \/ CountPending(f) \/ CacheHit(f) \/ NoMatch(f)
             \/ GetPage(f) \/ Collected(f) \/ CollectFailed(f) \/ PopNothing(f)
      PROVE  Kept(x)'
  <2> USE <1>2 DEF Fetch, NoImageYet, FetchPoint, UnderMu
  <2>1. UNCHANGED <<pending, images, failed>>
    BY DEF Start, Lock, CountPending, CacheHit, NoMatch, GetPage, Collected,
           CollectFailed, PopNothing
  <2>2. \A g \in Fetchers : fetch'[g].img = fetch[g].img
    BY DEF Start, Lock, CountPending, CacheHit, NoMatch, GetPage, Collected,
           CollectFailed, PopNothing
  <2> QED BY <2>1, <2>2
<1>3. ASSUME NEW f \in Fetchers, Pop(f) PROVE Kept(x)'
  BY <1>3 DEF Pop, PendingOf, Fetch, NoImageYet, FetchPoint, UnderMu
<1>4. ASSUME NEW f \in Fetchers,
             Download(f) \/ Thumbnail(f) \/ OpenThumb(f) \/ FlushThumb(f)
      PROVE  Kept(x)'
  <2>1. UNCHANGED <<pending, images, failed>>
    BY <1>4 DEF Download, Thumbnail, OpenThumb, FlushThumb, WriteFile
  <2>2. \A g \in Fetchers : fetch'[g].img = fetch[g].img
    <3>1. CASE Download(f)
      BY <3>1 DEF Download
    <3>2. CASE Thumbnail(f) \/ OpenThumb(f) \/ FlushThumb(f)
      BY <3>2 DEF Thumbnail, OpenThumb, FlushThumb, WriteFile, Fetch
    <3> QED BY <1>4, <3>1, <3>2
  <2> QED BY <2>1, <2>2
<1>5. ASSUME NEW f \in Fetchers, FetchFails(f) \/ RegisterFails(f) PROVE Kept(x)'
  BY <1>5 DEF FetchFails, RegisterFails
<1>6. ASSUME NEW f \in Fetchers, Blacklist(f) \/ InsertImage(f) PROVE Kept(x)'
  BY <1>6 DEF Blacklist, InsertImage, Register, Fetch, FetchPoint, NoImageYet, UnderMu
<1>7. ASSUME NEW y \in Hashes, NEW t \in Tags, NEW from, NEW to,
             ProcessPost(y, t, from, to), UNCHANGED <<fetch, failed>>
      PROVE  Kept(x)'
  BY <1>7 DEF ProcessPost, LookUpImage, LookUpPending, StoreUnfit, StorePending
<1>8. ASSUME NEW y \in Hashes, Post(y) PROVE Kept(x)'
  <2>1. mu \in Fetchers /\ fetch[mu].tag \in Tags
    BY <1>8 DEF Post, NoPosts, Running, Fetch, NoImageYet, PostsCollected
  <2> QED BY <1>7, <1>8, <2>1 DEF Post
<1>9. ASSUME NEW s \in strays, Stray(s) PROVE Kept(x)'
  BY <1>7, <1>9 DEF Stray
<1>10. ASSUME NEW s \in strays, StrayExits(s) PROVE Kept(x)'
  BY <1>10 DEF StrayExits
<1>11. CASE Crash
  BY <1>11 DEF Crash
<1> QED BY <1>1, <1>2, <1>3, <1>4, <1>5, <1>6, <1>8, <1>9, <1>10, <1>11 DEF Next, Run

\* What processPost calls a success is accounted for.
LEMMA ProcessedOk ==
    ASSUME TypeOK, NEW x \in Hashes, NEW t \in Tags, NEW from,
           ProcessPost(x, t, from, "ok")
    PROVE  Kept(x)'
BY DEF TypeOK, ProcessPost, LookUpImage, LookUpPending, StoreUnfit, StorePending,
       Kept, db

LEMMA NextProcessed == Core /\ ProcessedKept /\ [Next]_vars => ProcessedKept'
<1> SUFFICES ASSUME Core, ProcessedKept, [Next]_vars,
                    NEW x \in Hashes, posts'[x] = "ok"
             PROVE  Kept(x)'
  BY DEF ProcessedKept
<1>1. CASE posts[x] = "ok"
  BY <1>1, KeptStable DEF ProcessedKept
<1>2. CASE posts[x] # "ok"
  <2>1. Post(x)
    <3> USE <1>2 DEF NoPosts
    <3>1. ASSUME NEW f \in Fetchers PROVE ~ GetPage(f)
      BY DEF GetPage
    <3>2. ASSUME NEW f \in Fetchers, Start(f) \/ Lock(f) \/ Run(f) PROVE FALSE
      BY <3>1, <3>2 DEF Run, Start, Lock, CountPending, CacheHit, NoMatch, Collected,
             CollectFailed, Pop, PopNothing, Download, FetchFails, Thumbnail, Blacklist,
             OpenThumb, FlushThumb, InsertImage, RegisterFails, Register, WriteFile
    <3>3. ASSUME NEW y \in Hashes, Post(y) PROVE y = x
      BY <3>3 DEF Post, Core, TypeOK
    <3>4. ~ Crash /\ ~ UNCHANGED vars
      BY DEF Crash, vars
    <3>5. \A s \in strays : ~ Stray(s) /\ ~ StrayExits(s)
      BY DEF Stray, StrayExits
    <3> QED BY <3>2, <3>3, <3>4, <3>5 DEF Next
  <2>2. mu \in Fetchers /\ fetch[mu].tag \in Tags
    BY <2>1 DEF Post, NoPosts, Running, Core, PostsCollected, TypeOK, Fetch, NoImageYet
  <2>3. ProcessPost(x, fetch[mu].tag, posts[x], "ok")
    BY <2>1 DEF Post, Core, TypeOK
  <2> QED BY <2>2, <2>3, ProcessedOk DEF Core
<1> QED BY <1>1, <1>2

\* A page becomes seen when all of its posts are processed.
LEMMA NextDropped ==
    Core /\ ProcessedKept /\ NothingDropped /\ [Next]_vars => NothingDropped'
<1> SUFFICES ASSUME Core, ProcessedKept, NothingDropped, [Next]_vars,
                    NEW t \in Tags, NEW page \in seen'[t], NEW x \in page
             PROVE  Kept(x)'
  BY DEF NothingDropped
<1>1. seen[t] \subseteq SUBSET Hashes
  BY DEF Core, TypeOK
<1>2. CASE page \in seen[t]
  BY <1>1, <1>2, KeptStable DEF NothingDropped
<1>3. CASE page \notin seen[t]
  <2>1. PICK f \in Fetchers : Collected(f)
    <3> USE <1>3
    <3>1. ASSUME NEW f \in Fetchers, Start(f) \/ Lock(f) \/ Run(f) PROVE Collected(f)
      BY <3>1 DEF Run, Start, Lock, CountPending, CacheHit, NoMatch, GetPage,
             CollectFailed, Pop, PopNothing, Download, FetchFails, Thumbnail, Blacklist,
             OpenThumb, FlushThumb, InsertImage, RegisterFails, Register, WriteFile
    <3>2. ~ Crash /\ ~ UNCHANGED vars
      BY DEF Crash, vars
    <3>3. \A y \in Hashes : ~ Post(y)
      BY DEF Post
    <3>4. \A s \in strays : ~ Stray(s) /\ ~ StrayExits(s)
      BY DEF Stray, StrayExits
    <3> QED BY <3>1, <3>2, <3>3, <3>4 DEF Next
  <2>2. page = {y \in Hashes : posts[y] # "none"}
    BY <1>3, <2>1 DEF Collected, Core, TypeOK
  <2>3. x \in Hashes /\ posts[x] = "ok"
    BY <2>1, <2>2 DEF Collected
  <2> QED BY <2>3, KeptStable DEF ProcessedKept
<1> QED BY <1>2, <1>3

-----------------------------------------------------------------------------
LEMMA NextInv == IInv /\ [Next]_vars => IInv'
BY NextCore, NextThumbs, NextTorn, NextProcessed, NextDropped DEF IInv, Core, Thumbs

\* The inductive invariant holds in every reachable state.
THEOREM PipelineInvariance == Spec => []IInv
BY InitInv, NextInv, PTL DEF Spec

\* Every image that a captcha may show has a thumbnail file.
THEOREM EveryThumbExists == Spec => []ThumbExists
<1>1. IInv => ThumbExists
  BY DEF IInv
<1> QED BY <1>1, PipelineInvariance, PTL

\* The thumbnail of an image that a captcha may show is complete, unless a further
\* fetch of the image is writing it, or a fetch of the image failed or crashed.
THEOREM EveryThumbComplete == Spec => []ThumbComplete
<1>1. IInv => ThumbComplete
  BY DEF IInv, TypeOK, ThumbExists, ThumbTorn, ThumbComplete
<1> QED BY <1>1, PipelineInvariance, PTL

\* Every post of a seen page is registered, pending, with a fetcher or lost to an
\* error that was reported.
THEOREM NoPostDropped == Spec => []NothingDropped
<1>1. IInv => NothingDropped
  BY DEF IInv
<1> QED BY <1>1, PipelineInvariance, PTL

\* No step of any fetcher changes the row of a registered image.
THEOREM FateIsFinal == Spec => RowsFinal
<1>1. ASSUME IInv, [Next]_vars, NEW x \in Hashes, images[x] # "absent"
      PROVE  images'[x] = images[x]
  <2> USE <1>1 DEF IInv, TypeOK, db
  <2>1. ASSUME NEW f \in Fetchers, Start(f) \/ Lock(f) \/ Run(f)
        PROVE  images'[x] = images[x]
    BY <2>1 DEF Run, Start, Lock, CountPending, CacheHit, NoMatch, GetPage, Collected,
           CollectFailed, Pop, PopNothing, Download, FetchFails, Thumbnail, Blacklist,
           OpenThumb, FlushThumb, InsertImage, RegisterFails, Register, WriteFile
  <2>2. ASSUME NEW y \in Hashes, NEW t, NEW from, NEW to, ProcessPost(y, t, from, to)
        PROVE  images'[x] = images[x]
    BY <2>2 DEF ProcessPost, LookUpImage, LookUpPending, StoreUnfit, StorePending
  <2>3. ASSUME NEW y \in Hashes, Post(y) PROVE images'[x] = images[x]
    BY <2>2, <2>3 DEF Post
  <2>4. ASSUME NEW s \in strays, Stray(s) \/ StrayExits(s) PROVE images'[x] = images[x]
    BY <2>2, <2>4 DEF Stray, StrayExits
  <2>5. ASSUME Crash \/ UNCHANGED vars PROVE images'[x] = images[x]
    BY <2>5 DEF Crash, vars
  <2> QED BY <2>1, <2>3, <2>4, <2>5 DEF Next
<1>2. IInv /\ [Next]_vars =>
        [\A x \in Hashes : images[x] # "absent" => images'[x] = images[x]]_vars
  BY <1>1
<1> QED BY <1>2, PipelineInvariance, PTL DEF Spec, RowsFinal

-----------------------------------------------------------------------------
(* Every step of the pipeline is a step of ImageLife or leaves it alone.   *)
LEMMA InitLife == Init => Life!Init
BY DEF Init, Life!Init, Idle, At

\* Steps of fetch that neither take an image nor decide its fate.
LEMMA LookUpLife ==
    ASSUME Core, NEW f \in Fetchers,
           \/ Start(f) \/ Lock(f) \/ CountPending(f) \/ CacheHit(f) \/ NoMatch(f)
           \/ GetPage(f) \/ Collected(f) \/ CollectFailed(f) \/ PopNothing(f)
           \/ Download(f) \/ Thumbnail(f)
    PROVE  UNCHANGED Life!vars
<1> USE DEF Core, TypeOK, db, GoTo, Return, ReturnFromFetch, Idle, At
<1>1. UNCHANGED <<pending, images, thumbs>>
  BY DEF Start, Lock, CountPending, CacheHit, NoMatch, GetPage, Collected,
         CollectFailed, PopNothing, Download, Thumbnail
<1>2. ASSUME NEW g \in Fetchers
      PROVE  fetch'[g].img = fetch[g].img /\ (fetch'[g].at = "insert" <=> fetch[g].at = "insert")
  <2>1. CASE Start(f) \/ Download(f)
    BY <2>1 DEF Start, Download
  <2>2. CASE Lock(f) \/ CountPending(f) \/ CacheHit(f) \/ GetPage(f) \/ Collected(f)
    BY <2>2 DEF Lock, CountPending, CacheHit, GetPage, Collected, Fetch
  <2>3. CASE Thumbnail(f)
    BY <2>3 DEF Thumbnail, Fetch
  <2>4. CASE NoMatch(f) \/ CollectFailed(f) \/ PopNothing(f)
    BY <2>4 DEF NoMatch, CollectFailed, PopNothing, Fetch, NoImageYet, FetchPoint, UnderMu
  <2> QED BY <2>1, <2>2, <2>3, <2>4
<1> QED BY <1>1, <1>2 DEF Life!vars

\* A post is offered, refused, or changes nothing.
LEMMA PostLife ==
    ASSUME Core, NEW x \in Hashes, NEW t \in Tags, NEW from, NEW to,
           ProcessPost(x, t, from, to), UNCHANGED <<thumbs, fetch>>
    PROVE  [Life!Next]_(Life!vars)
<1> USE DEF Core, TypeOK, db
<1>1. CASE UNCHANGED db
  BY <1>1 DEF Life!vars
<1>2. CASE StoreUnfit(x, to)
  <2>1. CASE images[x] = "absent"
    <3>1. Life!Refuse(x)
      BY <1>2, <2>1 DEF StoreUnfit, Life!Refuse
    <3> QED BY <3>1 DEF Life!Next
  <2>2. CASE images[x] # "absent"
    BY <1>1, <1>2, <2>2 DEF StoreUnfit
  <2> QED BY <2>1, <2>2
<1>3. CASE StorePending(x, t, to)
  <2>1. CASE pending[x] = NoTag
    <3>1. Life!Offer(x)
      BY <1>3, <2>1 DEF StorePending, Life!Offer
    <3> QED BY <3>1 DEF Life!Next
  <2>2. CASE pending[x] # NoTag
    BY <1>1, <1>3, <2>2 DEF StorePending
  <2> QED BY <2>1, <2>2
<1> QED BY <1>1, <1>2, <1>3 DEF ProcessPost, LookUpImage, LookUpPending

\* The steps of the fetcher that has taken an image.
LEMMA TakenLife ==
    ASSUME Core, ThumbOpened, NEW f \in Fetchers,
           \/ Pop(f) \/ OpenThumb(f) \/ FlushThumb(f) \/ InsertImage(f) \/ Blacklist(f)
           \/ FetchFails(f) \/ RegisterFails(f)
    PROVE  Life!Next
<1> USE DEF Core, TypeOK, db, GoTo, Return, ReturnFromFetch, Idle, At
<1>1. CASE Pop(f)
  <2>1. PICK x \in PendingOf(fetch[f].tag) :
            /\ pending' = [pending EXCEPT ![x] = NoTag]
            /\ fetch' = [fetch EXCEPT ![f] = At("download", @.tag, x, "none")]
    BY <1>1 DEF Pop
  <2>2. fetch[f].at = "pop" /\ fetch[f].tag \in Tags /\ fetch[f].img = NoImage
    BY <1>1 DEF Pop, Fetch, NoImageYet
  <2>3. x \in Hashes /\ pending[x] # NoTag
    BY <2>2 DEF PendingOf
  <2>4. {y \in Hashes : pending[y] # NoTag}' = {y \in Hashes : pending[y] # NoTag} \ {x}
    BY <2>1
  <2>5. [g \in Fetchers |-> fetch[g].img]' = [[g \in Fetchers |-> fetch[g].img] EXCEPT ![f] = x]
    BY <2>1
  <2>6. UNCHANGED <<images, thumbs, {g \in Fetchers : fetch[g].at = "insert"}>>
    BY <1>1, <2>1, <2>2 DEF Pop
  <2>7. Life!Take(f)
    BY <2>2, <2>3, <2>4, <2>5, <2>6 DEF Life!Take
  <2> QED BY <2>7 DEF Life!Next
<1>2. CASE OpenThumb(f)
  <2>1. fetch[f].img \in Hashes
    BY <1>2 DEF OpenThumb, WriteFile, Fetch, NoImageYet
  <2>2. Life!Open(f)
    BY <1>2, <2>1 DEF OpenThumb, WriteFile, Life!Open
  <2> QED BY <2>2 DEF Life!Next
<1>3. CASE FlushThumb(f)
  <2>1. fetch[f].img \in Hashes /\ thumbs[fetch[f].img] # "none"
    BY <1>3 DEF FlushThumb, WriteFile, Fetch, NoImageYet, ThumbOpened
  <2>2. Life!Flush(f)
    BY <1>3, <2>1 DEF FlushThumb, WriteFile, Life!Flush
  <2> QED BY <2>2 DEF Life!Next
<1>4. ASSUME NEW from \in {"blacklist", "insert"}, NEW row \in {"blacklisted", "valid"},
             Register(f, from, row), row = "valid" => from = "insert"
      PROVE  Life!Settle(f, row)
  <2>1. fetch[f].img \in Hashes /\ fetch[f].at = from
    BY <1>4 DEF Register, Fetch, NoImageYet
  <2> QED BY <1>4, <2>1 DEF Register, Life!Settle
<1>5. CASE InsertImage(f) \/ Blacklist(f)
  BY <1>4, <1>5 DEF InsertImage, Blacklist, Life!Next
<1>6. CASE FetchFails(f) \/ RegisterFails(f)
  <2>1. fetch' = [fetch EXCEPT ![f] = Idle] /\ UNCHANGED <<pending, images, thumbs>>
    BY <1>6 DEF FetchFails, RegisterFails
  <2>2. Life!Lose({f})
    BY <2>1 DEF Life!Lose
  <2> QED BY <2>2 DEF Life!Next
<1> QED BY <1>1, <1>2, <1>3, <1>5, <1>6

LEMMA NextLife == Core /\ ThumbOpened /\ [Next]_vars => [Life!Next]_(Life!vars)
<1> SUFFICES ASSUME Core, ThumbOpened, [Next]_vars PROVE [Life!Next]_(Life!vars)
  OBVIOUS
<1>1. CASE UNCHANGED vars
  BY <1>1 DEF vars, db, Life!vars
<1>2. ASSUME NEW f \in Fetchers, Start(f) \/ Lock(f) \/ Run(f)
      PROVE  [Life!Next]_(Life!vars)
  BY <1>2, LookUpLife, TakenLife DEF Run
<1>3. ASSUME NEW x \in Hashes, Post(x) PROVE [Life!Next]_(Life!vars)
  <2>1. mu \in Fetchers /\ fetch[mu].tag \in Tags
    BY <1>3 DEF Post, NoPosts, Running, Core, PostsCollected, TypeOK, Fetch, NoImageYet
  <2> QED BY <1>3, <2>1, PostLife DEF Post
<1>4. ASSUME NEW s \in strays, Stray(s) PROVE [Life!Next]_(Life!vars)
  <2>1. s.post \in Hashes /\ s.tag \in Tags
    BY DEF Core, TypeOK
  <2> QED BY <1>4, <2>1, PostLife DEF Stray
<1>5. ASSUME NEW s \in strays, StrayExits(s) PROVE [Life!Next]_(Life!vars)
  BY <1>5 DEF StrayExits, db, Life!vars
<1>6. CASE Crash
  <2>1. Life!Lose(Fetchers)
    BY <1>6 DEF Crash, db, Life!Lose, Idle, At
  <2> QED BY <2>1 DEF Life!Next
<1> QED BY <1>1, <1>2, <1>3, <1>4, <1>5, <1>6 DEF Next

\* The pipeline implements ImageLife, however many fetch at once and whatever fails:
\* an offer is taken by one fetcher, an image is shown only by a fetcher that has
\* written its thumbnail, and its first row is its last.
THEOREM LifeImplementation == Spec => ImplementsLife
<1>1. IInv /\ [Next]_vars => [Life!Next]_(Life!vars)
  BY NextLife DEF IInv, Core
<1> QED BY InitLife, <1>1, PipelineInvariance, PTL
        DEF Spec, ImplementsLife, Life!Spec, Life!vars
=============================================================================
