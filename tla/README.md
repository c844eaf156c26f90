# captchouli in TLA+

captchouli is a Go library and server that makes image captchas from the posts of a booru: it searches pages of posts
for a tag, keeps the suitable ones as pending images, cuts a face out of each, and asks users to select the cells that
show a character. This directory has TLA+ modules of its components, configurations that check them with TLC on small
instances, and proofs that TLAPS checks for all values of the constants. Paths such as `db/captchas.go` are relative to
the root of the repository.

## 1. Inventory

### Components, their state and their operations

| component | state | operations | module |
|---|---|---|---|
| captcha table: `db/captchas.go`, handlers in `service.go` | table `captchas` (id, solution, status, created), lock `dbMu` | insert of `GenerateCaptcha`, `CheckSolution`, `IsSolved`; `GetSolution` only reads | `Captchas` |
| upkeep: `db/upkeep.go` | two tickers | `deleteStaleCaptchas`, `vacuum` | `Captchas` |
| captcha generation and grading: `db/captchas.go`, `service.go`, `captchouli.go` | the cells, the solution | `NewCaptcha`, `GenerateCaptcha`, `ExtractSolution`, `isSolved` | `CaptchaGrid` |
| fetch scheduler: `fetch.go` | channel `scheduleFetch` (256), set of requests, a tick | send of `NewCaptcha`, the `select` loop | `FetchScheduler` |
| page cache: `danbooru/main.go`, `initTag` of `service.go` | `cache[tag]`: seen pages, `maxPages` | `initTag`, `Fetch`, `tryFetchPage` | `PageCache` |
| image pipeline: `fetch.go`, `danbooru/main.go`, `files.go` | `danbooru.mu`, posts in progress, thumbnail files | `fetch`, `Fetch`, `tryFetchPage`, `processPost`, `writeThumbnail` | `ImagePipeline` |
| image tables: `db/images.go`, `db/pending_images.go` | tables `pending_images`, `images`, `image_tags` | insert, pop, lookup, blacklist | `ImagePipeline` |
| face and thumbnail: `thumbnail.cc`, `thumbnail.go` | the classifier, a rectangle | choice and growth of the rectangle | `FaceCrop` |
| service start: `NewService`, `initPool`, `appendSlice` | the tags that are ready, the shared result `err` | first three tags, then the rest in the background | `Server` |
| storage start: `db/init.go`, `db/migrations.go` | directories, version number, schema | `Open`, `Close`, migrations | `Storage` |
| workers of `tryFetchPage` | channels `src`, `dst`, a context | `tryFetchPage`, the worker loop, the filter of `processPost` | `PostWorkers` |
| classifier: `captchouli.go`, `thumbnail.go` | a pointer, `classifierMu` | `initClassifier`, `thumbnail`, `Close` | `Server` |
| command line: `cmd/captchouli/main.go` | none | `main` | `Server` |
| templates, distortion, ID encoding | none | conversions | not modelled, see section 8 |

### How they interact

A request `GET /` draws a tag, looks for its images, makes a captcha from two queries, inserts it, and sends the tag to
the scheduler. `POST /` grades the captcha, `POST /status` redeems it. Each minute upkeep sweeps the old ones. All of
them share `dbMu`. Each second the scheduler fetches one image for one of the tags asked for; `initTag` fetches at the
start of the service until the pool of a tag is full. Both go through `danbooru.mu`, but only up to the download:
thumbnail, file and row follow after the mutex is released. The row of an image makes the captchas show its thumbnail.

A process opens the storage, loads the classifier, fills the pools of the first three tags, and serves; a goroutine fills
the other pools, and the scheduler goes on until the process exits, also while `Close` runs. Several processes of a user
share the directory and the database.

### What is hard in it

- *Interleavings*: requests for one captcha; fetchers for one image; the two queries of a captcha against new images;
  worker goroutines that outlive their `tryFetchPage`.
- *Failures*: a statement or a commit that fails after the verdict was computed; a post of a page that fails after others
  were stored; a response that is not an image; a crash anywhere.
- *Start and end*: a process killed between two migrations or two directories; a second process that starts beside it; a
  result that two goroutines write; a classifier that is freed while thumbnails are made.
- *Liveness*: `dbMu`, `danbooru.mu` and `classifierMu` on all error paths, a full channel, starved requests, an endless `initTag`.
- *Boundaries*: the expiry time, the solution loop with its two indices, one forgiven miss, the number of pages, the
  bounds checks of the rectangle.

`PROJECT.json` lists these hazards at their lines, with the properties that would catch each.

### What makes each component correct

- *Captcha table*: a captcha is graded once, reported as solved once and never wrongly, redeemed once, and deleted only by
  its redemption or after its time; every request is answered, every captcha goes in the end.
- *Captcha*: the stored solution is exactly what a user sees, the cells differ, answers are graded as asked.
- *Scheduler*: no request is lost, no sender hangs, every tag asked for is fetched.
- *Page cache*: "all fetched" and "no match" are true when reported; the search ends.
- *Pipeline*: a registered image has its thumbnail, no post is dropped silently, a fate is final, a fetch returns.
- *Workers*: a post is in one place, a page is seen only when all of its posts were processed, no worker is left behind.
- *Thumbnail*: the biggest face, whole, inside of the image.
- *Storage*: version number and schema agree, migrations run in turn and once, a running process has its directories.
- *Service*: captchas are made for full pools only, every tag is listed or given up, the classifier is not freed in use.

## 2. Modules

Each module follows the code: a variable for each piece of state, an action for each step between two points where others
may interfere, with the guard, the early returns and the error path of the code. `PROJECT.json` maps each definition to
its lines. Definitions marked `mutant` are not part of a specification: they are plausible bugs of single definitions,
and show that each property can fail.

**`Captchas`** (abstract: `CaptchaToken`). A handler has a program point and its locals; between `Lock` and `Unlock` of
`dbMu` it runs `insert`, `select`/`commit`, or `delete`, each of which may fail (`SqlError`: rollback, deferred unlock,
500). `Tick` is a minute. `Crash` keeps committed rows only. `fate`, `passed`, `acks` and `grants` are histories. Whether a
submitted solution is right is left open here and decided in `CaptchaGrid`. `ImplementsToken` is the refinement: table,
lock, transactions and crashes together behave as a token that is issued, graded, told and redeemed once.

**`CaptchaGrid`**. One captcha at a time, with the lock sections of `ImageCount`, the two queries and the insert as
separate steps, and images registered in between. `order by random() limit n` is any sequence of n different rows; the
shuffle is any permutation; `SolveCell` is one turn of the loop with its indices `i` and `j`.

**`FetchScheduler`**. The channel is a sequence with a capacity, the map a set. A sender blocks while the channel is full;
the scheduler is in a fetch (`target`), or in its `select`. `owed` is a history of what must still be fetched.

**`PageCache`**. The page numbers: the first page first, then `RandomInt(maxPages)`, a cache hit, a new page, or an empty
one that lowers `maxPages` and draws again. If a post of a page fails, any of the others may be stored (`PageFails`; what
its workers store later is taken together with it). `Return` goes back to the loop of `initTag`, or ends the scheduler's single
fetch. Images are taken for other tags by `Elsewhere`. `Spec` has a booru that keeps its
pages, `ShrinkingSpec` one that loses them.

**`ImagePipeline`** (abstract: `ImageLife`). Several fetchers run `fetch`, each call of package `db` being a step.
`posts` are the calls of `processPost` for the holder of `danbooru.mu`, interleaved at their lookups and stores; `strays`
are those that go on after their `tryFetchPage` has returned an error. Nothing bounds the workers by the number of CPUs,
and equal calls of `processPost` for the same post, tag and point are counted once. A thumbnail file is `partial` between
the `O_TRUNC` of its open and the flush. Which page is drawn is left open (see `PageCache`). `ImageLife` is what remains true
with several fetchers and failing calls: an image may be offered again at any time, also while it is taken or has its row, but
each offer is taken by one fetcher (`Take`), the fetcher shows the image only after it has opened and written its thumbnail
(`Open`, `Flush`, `Settle`), the first row is the last, and errors and crashes (`Lose`) take images out of hands and nothing
else. The mapping reads the offers from `pending`, hands from the locals of the fetchers, and the rest from tables and files.

**`PostWorkers`** (abstract: `PageWorkers`). One page of each fetcher with its channels, its context and its workers. `src` is
a counter, since it is filled before a worker starts, and never closed; `dst` is a sequence with a capacity. `Collect` is a turn
of the collecting loop, which ends at the first error and cancels the context; a worker that waits for `src` or for room in
`dst` then exits, one inside of `processPost` finishes it first. `fate` is what `processPost` did, with `Verdict` as the
filter over the tags of the post; `heard` is a history of the results received. `PageWorkers` knows no workers: a page
gets its verdict from all of its posts, or from one that failed.

**`Storage`** (abstract: `Releases`). The processes of a user at the steps of `Open`: the two directories of `MkdirAll`, the
version number, and for each migration its statements, the version update and the commit. `proc[p].tx` is what the
transaction would commit. `StorageInit` has the database of any release. `Fails` is an error of any call, `Crash` a kill.
`Releases` is a database that goes up release by release, and loses only the rows that a migration clears.

**`Server`** composes `Storage` and `FetchScheduler` with one process as a whole: `main`, the loop of `initTag` by `main`
and by the goroutine for the rest (`turn`), the list of ready tags, the result `err` that both write, and `classifierMu` with the
pointer that `thumbnail` uses (`cut`). Other processes only take steps of `Storage`. A pool is one row, there when it is
full; the inside of a fetch is left to `ImagePipeline`, the pages of `initTag` to `PageCache`. `End` is the end of a process
with all of its goroutines: after an error, after `Close`, or killed.

**`FaceCrop`**. The loop for the biggest face and the four bounds checks in their order. The bounds `MaxSide` and
`MaxFaces` bound the images that are tried.

The modules meet in these assumptions: `CaptchaGrid` takes from `ImagePipeline` that rows of images are final
(`RowsFinal`) and visible with their tags at once; `FetchScheduler` and `Server` take from `ImagePipeline` and
`PostWorkers` that a fetch returns (`FetchReturns` of each); `PageCache` is the number side of the set `seen` of
`ImagePipeline`, and `PostWorkers` the inside of its `posts` and `strays`; `Server` takes from `PageCache` that `initTag`
returns (`InitTagReturns`).

## 3. Runs

| run | instance | states | what it shows |
|---|---|---|---|
| `captchas` | 2 captchas, 2 handlers, expiry 1 minute, 1 crash | 416 000 | safety of the captcha table, refinement of `CaptchaToken` |
| `captchas_live` | 1 captcha, 2 handlers, 1 crash | small | requests are answered, captchas go |
| `captcha_grid` | 5 cells, 6 images, 2 tags sharing 2 images | 422 000 | solution, cells, grading of every possible answer |
| `page_cache` | 4 images, 0 to 4 pages, first estimate 3 | 79 000 | all fetched, no match, end of `initTag` |
| `pipeline` | 2 fetchers, 2 images on shared pages, failing posts, crashes | 870 000 | thumbnails there and complete but for the cases named, posts, fates, refinement of `ImageLife` |
| `pipeline_live` | 2 fetchers, 2 images, pages for one of two tags, failing posts, crashes | 188 000 | every fetch returns, also one that waits for `danbooru.mu` |
| `post_workers` | 2 fetchers with 2 workers each, pages of up to 3 posts, `dst` of 1 | 42 000 | one place for each post, the filter, no loop that waits in vain, refinement of `PageWorkers`, fetches return, workers exit |
| `face_crop` | images up to 5x5, up to 3 faces, thumbnail 6 | 9 400 000 | first of the biggest faces, cut inside, face whole |
| `server` | 3 tags, 2 of them in the background and 1 without images, 1 caller, channel of 1, 2 processes, databases of all releases, failures and kills | 111 000 | storage, start, classifier, scheduler, refinement of `Releases` |

The runs that end in a violation are the findings of section 6. The type invariants and the strengthenings of section 5
are theorems, and their instances are not checked again by these runs, but for `TypeOK` of `CaptchaGrid`: there an index
out of its range would be a panic of the code.

### Bounds, and why they are enough

- *Handlers, fetchers, processes: 2.* The properties relate at most two actors to one row, lock or image. The proofs cover
  any number of them.
- *Captcha: 5 cells for 9, a pool of 3 for 6 and 3 for 4.* Two or three matching cells as in the code, with room for
  others; the loop bounds only need `Size > 3`. Six images with two common ones make any overlap of the two queries. The
  proofs are for any number of cells and images, any tags, and any pool that has enough for a captcha.
- *Expiry: 1 minute for 30.* Ages 0, 1 and 2 are below, at and above the limit.
- *Channel of 1 for 256, one caller*: the channel fills up while the scheduler is in a fetch, and the caller blocks. The
  proof of `NoRequestLost` is for any capacity and any callers.
- *First tags: 1 for 3, three tags*: one that the start needs and two for the goroutine, the first of which has no images on
  the booru, so that the goroutine gets past a tag that fails. The proofs are for any lists of tags.
- *`dst` of 1 for 8, 2 workers for the number of CPUs, pages of 3 posts for 100*: a worker blocks on a full `dst` while the
  other one fails, and a page has more posts than workers and `dst` can hold.
- *Tags of a post: every list of up to two, some of three*: both flags and the early return of the filter, in each order.
  The proof of `FilterExact` is for lists of any length.
- *Pages: 3 for 300* as first estimate, with boorus below, at and above it; low water 1 or 2 for 3, pool of 2 for 6.
- *Pages of two images*: one that fails and one that is stored, one that two tags share. The two fetchers of `pipeline` run
  the same code and no property tells them apart, so that they are a symmetry of that run; the runs with liveness use none.
- *Thumbnail of 6 pixels for 150, smallest face 2 for 50, images up to 5x5*: a face of 2 pixels wants to grow by two, and is
  held up at least by one of its sides, down to one pixel or none; a face of 3 pixels may grow by one unhindered; one of 5
  is not to grow. The widest cut that has grown is 4 pixels, so that the growth stays below the thumbnail's size here, as it always does: half
  of the difference is added once. The proofs are for any size.
- *Crashes: 1 in `Captchas`, any number elsewhere.* `Storage` starts with the database of any release, so each migration
  runs, alone and after others.

`CHECK_DEADLOCK` is on in all runs.

## 4. Fairness

- Goroutines that can go on do (weak fairness of steps inside of handlers, workers, fetchers, scheduler, upkeep, and the
  `initTag` of the background goroutine).
- `sync.Mutex` and `sync.RWMutex` hand the lock over to a waiter that starves, and blocked senders of a channel are
  served in turn: strong fairness of `Lock`, `Acquisition`, `LockUpkeep`, `Send`, `Thumbnail`.
- `select` draws among its ready cases at random, and so do `RandomInt` and the iteration of a map: strong fairness of
  `Receive`, `WakeSweep`, `FetchRandom`, `TryPage`.
- Calls of the network, of SQLite and of OpenCV return, with a result or an error. `http.Get` has no timeout in the code,
  so this is an assumption on the environment. Sweeps do not fail for ever (strong fairness of `Sweep`).
- Time goes on. Clients, tags asked for, crashes and errors owe nothing.
- In `Server` fairness holds while the process lives; `SendersReturn` and `RequestsFetched` allow for its end.

## 5. Proofs

| module | theorems | assumptions |
|---|---|---|
| `CaptchasProofs` | `Invariance`, `GradedAsRead`, `AtMostOnce`, `Durable`, `FinalVerdict`, `NoLossBeforeExpiry`, `Implementation` | the values that name nobody and nothing are distinct from the others |
| `PipelineProofs` | `PipelineInvariance`, `EveryThumbExists`, `EveryThumbComplete`, `NoPostDropped`, `FateIsFinal`, `LifeImplementation` | as above |
| `PostWorkersProofs` | `WorkersInvariance`, `PostsInOnePlace`, `PageSeenMeansAll`, `NobodyWaitsInVain`, `FilterIsExact` | `dst` holds at least one, pages have posts, at least one worker (`runtime.NumCPU()`) |
| `CaptchaGridProofs` | `GridInvariant`, `GridTypes`, `SolutionIsExact`, `NoImageTwice`, `AnswersGraded` | finitely many images, the zero hash is none of them, more than three cells, a captcha needs at least three images of its tag |
| `PageCacheProofs` | `CacheInvariance`, `AllFetchedMeansAll`, `NothingLeft` | the booru does not lose posts (`Spec`) |
| `FaceCropProofs` | `CropInvariance`, `AlwaysInside`, `ShowsBiggestFace`, `ShowsWholeFace` | faces have a positive size and lie inside of the image |
| `StorageProofs` | `DatabaseInvariance`, `SchemaAlwaysMatches`, `UpgradesInTurn`, `DirsInvariance`, `ThumbnailsHaveADirectory` | none |
| `ServerProofs` | `RequestsKept` (the scheduler alone) | capacity at least 1 |
| `ServerProofs` | `ServerInvariance`, `PoolsServed`, `RestIsTried`, `ClassifierInUse`, `ServerKeepsRequests`, `ServerKeepsStorage` | lists of tags that exist, at least one first tag |

How they argue:

- *Captchas.* None of the properties is inductive. `IInv` adds that the points between lock and unlock belong to the
  holder of `dbMu` (`LockInv`), that a row agrees with the history of its captcha (`RowInv`), and that a handler about to
  answer is the only one for its captcha and has not answered before (`AnswerInv`). `GradeNotStale` is the heart: between
  select and update the row stays unsolved because the lock is held. The refinement maps a row and its fate to the stage
  of a token, and each action to one of the token or to a stutter.
- *Pipeline.* `IInv` adds that the posts in progress are those of the holder of `danbooru.mu` (`MuHeld`,
  `PostsCollected`), that a post that was processed is accounted for (`ProcessedKept`), that a fetcher past its open
  has a file (`ThumbOpened`), and that a partial file is being written or was left by a failure (`ThumbTorn`). An image moves
  from table to fetcher to table, and each move keeps it accounted for. `ThumbComplete` follows from `ThumbExists` and
  `ThumbTorn`.
- *`ImageLife`.* Each step of the pipeline is one step of it or a stutter, by `IInv`: `ThumbOpened` is why the last write of a
  fetcher finds a file. Nothing is assumed of the number of fetchers or of what fails.
- *Page cache.* `CacheInv` adds that the estimate is never below the number of pages, that seen pages are below it, and
  that images of seen pages are not new. A cache with as many pages as the estimate has all of them, by cardinality.
- *Scheduler.* `NoRequestLost` is inductive with the types: a request moves from the channel to the set, and the end of a
  fetch only deletes the tag whose debt was paid when the fetch began.
- *Thumbnail.* Each check can only lower `diff`, so the earlier ones still hold after the later ones.
- *Captcha.* `GridInv` follows the handler: the pool has enough images of the tag once they were counted, since images only
  come (`Enough`); the rows of the first query are different images with the tag (`MatchedRows`) and are the first cells
  (`Filling`); after the second query, which only reads rows without the tag, and after the shuffle they are still there,
  once each, and no other cell has the tag (`Dealt`); the first `j` elements of the solution are the cells to select that the
  loop has passed (`Noted`). When the loop ends with its other index, at `j = matchedCount`, it has noted as many cells as
  there are to select, so that none is left; this is a matter of cardinality (`CellsToSelect`, `AskedSolution`). `AnswersGraded` then compares
  lists by their sets: what `ExtractSolution` returns lists the selected cells, each once (`Extracted`), and a list without
  repetitions is as long as its set is big.
- *Workers.* `WInv` says for each page that its posts are in `src`, with one worker, in `dst` or received, each once; that the
  count of the loop is the number of results heard, and none of them is an error; and that only the holder of
  `danbooru.mu` collects. Since `dst` keeps its elements apart, a page whose count is full has heard of every post, by cardinality, and
  so every fate is one of success: a step of `PageWorkers`.
- *No wait in vain.* `FetchReturns` is liveness; its safety core, `CollectorServed`, is proved. While results are collected no worker
  has left, since only the cancelled context makes one leave (`Manned`). If `dst` is empty, then a worker that holds a post
  can go on; if none holds one, all wait for `src`, and the posts that are missing are still there, since each post is in one place.
- *Filter.* The loop over the tags is a recursive function of the index, and so is `ExtractSolution`. The provers cannot use the induction theorems of the library, so what such a function computes is shown by the
  smallest counterexample: `LeastNumber` has it from the well-foundedness of the natural numbers, `LoopExists` that the
  function exists at all, and `LoopScans` that after `n` tags the flags say what the first `n` tags are. An early return
  keeps its verdict, whatever tags follow.
- *Storage.* Who is in a transaction is alone, and its transaction started from the committed database (`TxInv`): the
  commit is one step of `Releases`, and everything else a stutter. A process that read an old number fails at its first
  statement, because the schema has what it wants to create. The directories have an invariant of their own.
- *Server.* Each of its steps is a step of `Storage` or leaves it alone, so that the theorems of `Storage` carry over
  (`ServerUsesStorage`), and likewise for the scheduler while the process lives. While the process is up the number is
  the last one, so nobody commits, and no row of a pool goes away: this is why a listed tag keeps its pool. `NextTag` moves
  on from a tag only after it was listed or given up.

Only model-checked: liveness under fairness (`RequestsAnswered`, `CaptchasGo`, `FetchReturns`, `WorkersExit`,
`SendersReturn`, `RequestsFetched`, `InitTagReturns`), which is out of the reach of the prover. Every other property of a
passing run is a theorem.

## 6. Findings

| run | what the code does | what it says |
|---|---|---|
| `page_cache_endless` | `initTag` spins for ever on cache hits once the booru has lost a page that is in the cache | `service.go:142` |
| `pipeline_fetched_again` | an image that is in no table while it is processed is offered again, and fetched again after it was blacklisted | `db/images.go:67` |
| `server_err` | an error of the background goroutine reaches the result of `initPool`, and the service fails to start because of a tag after the third | `service.go:154-155`, `service.go:168` |

Also seen while modelling, without a run of its own:

- A captcha past its expiry time is accepted until the next sweep, since `CheckSolution` does not look at its age
  (`Select` of `Captchas` has no such guard).
- `POST /status` keeps a captcha that is not solved (`DeleteSolved`); the README of the repository says that it unregisters
  the captcha.
- A captcha has empty cells if there are too few images without its tag (`getNonMatchingImages`); `CellsDiffer` allows for
  them, and the run reaches such captchas.
- With pages 0 and 3 seen, a booru that has lost its last pages and an empty page 2, `errAllFetched` is returned although
  page 1 was never fetched: the same cause as the endless `initTag`.
- The second fetcher of an image truncates the thumbnail of an image that is registered: the same cause as the image
  fetched again. `ThumbComplete` names this case (`Rewritten`), and what is left if the second fetcher fails there.
- The status of the response to a download is not looked at: an error page has no face, and blacklists its image
  (`Download`, `Thumbnail`).
- The comment of `danbooru/main.go:249` speaks of images with one character; the code, and `FilterExact` with it, also accept
  posts without one.
- A captcha that was solved is gone although its redeemer is told of an error, if `RowsAffected` fails after the delete
  (`db/captchas.go:214`); the driver's `RowsAffected` does not fail, and `SqlError` keeps the row at every error.
- The rectangle of a thumbnail grows to the left and upwards only, where the comment of `thumbnail.cc:62` speaks of all
  directions (`FaceCrop`).
- Two processes that start at once on an old database both read its number, and one of them fails in `Open`
  (`RunMigration` is then disabled for it, `Fails` is not). Nothing is lost; the second start succeeds.
- A process killed between the two directories of `MkdirAll` leaves a root without `images`. `Open` looks at the root only,
  so every later process comes up, and cannot write a thumbnail. The same holds for a process that comes up while another
  one is between them (`ImagesDir` names both cases).
- The database of a newer release is opened without an error: the loop over the migrations is not entered.
- `Close` sets the classifier to null while the scheduler goes on until the process exits; a thumbnail in between passes
  null to OpenCV (`ClassifierUsable` says that this is the only case).
- An error of `GET /` after the gzip writer was made: its deferred `Close` writes to the response, and thereby status 200,
  before `handleError` sets the status (`service.go:335`).

## 7. Plan

Order: what users rely on first (captchas), then what fills the pool, then the start of the service.

1. `CaptchaToken`, `Captchas` and their proofs: done.
2. `ImagePipeline`, `ImageLife`, `PipelineProofs`: done.
3. `FaceCrop`, `CaptchaGrid`, `FetchScheduler`, `PageCache` and their proofs: done.
4. `PageWorkers`, `PostWorkers`, `PostWorkersProofs`: done.
5. `Releases`, `Storage`, `StorageProofs`: done.
6. `Server`, the composition with `FetchScheduler` and `Storage`, and `ServerProofs`: done.
7. Left: a refinement between `PostWorkers` and the `posts` of `ImagePipeline`; several services with one storage.

## 8. Not modelled

- Templates, distortion, JPEG and base64: data without state. That a captcha reads the thumbnail of each cell is what
  `ThumbExists` and `ThumbComplete` are for.
- `DecodeID`, `ExtractCaptcha`, `formatExplicitness`, `common`: stateless, or constants. A request with a bad ID changes
  nothing.
- The bytes of a response, and with them the gzip writer of `GET /`.
- More than one service in a process: each has its own list of tags, and they share what `Server` has once.
- `IsTest` is false: the modules are of the production build, with upkeep and scheduled fetches.
- boorufetch, SQLite and OpenCV: external. Pages of posts or an error, atomic transactions with unique keys, and a list of
  rectangles inside of the image are what the modules take from them.
