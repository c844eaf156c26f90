---------------------------- MODULE PostWorkers ----------------------------
(***************************************************************************)
(* The worker goroutines of tryFetchPage in danbooru/main.go, the channels *)
(* src and dst between them and the collecting loop, the context that      *)
(* cancels them, and the filter of processPost.  Module ImagePipeline has  *)
(* the tables behind processPost and the rest of Fetch.                    *)
(*                                                                         *)
(* The workers of a page can outlive their tryFetchPage.  A fetcher calls  *)
(* again here only when its former workers are gone, which bounds the      *)
(* generations of workers to one for each fetcher.                         *)
(***************************************************************************)
EXTENDS Integers, Sequences, FiniteSets

CONSTANTS
    Fetchers,     \* goroutines that call Fetch
    Workers,      \* worker goroutines of a page, one for each CPU
    Capacity,     \* of dst, 8 in the code
    PageSize,     \* most posts of a page, 100 in the code
    Pages,        \* Pages[f]: the pages that f may download
    Requested,    \* the tag that is fetched, in lower case
    Solo,         \* the tag "solo"
    Characters,   \* tags of type Character
    Blacklisted,  \* tags in the map "blacklisted"
    Lower,        \* Lower[t]: tag t in lower case
    Free          \* value of mu when nobody holds it

Post == [md5 : BOOLEAN, still : BOOLEAN, tags : Seq(DOMAIN Lower)]

ASSUME WorkersAssumption ==
    /\ Capacity \in Nat \ {0} /\ PageSize \in Nat /\ Free \notin Fetchers
    /\ Workers # {}   \* runtime.NumCPU() is 1 at least
    /\ \A f \in Fetchers : \A page \in Pages[f] :
        page \in Seq(Post) /\ Len(page) \in 1 .. PageSize

VARIABLES
    mu,      \* holder of danbooru.mu
    call,    \* call[f]: program point and locals of tryFetchPage
    worker,  \* worker[f][w]: worker w of the page of f
    fate,    \* fate[f][k]: what processPost did with post k of f's page
    heard    \* history: heard[f]: posts whose results the loop received

vars == <<mu, call, worker, fate, heard>>

\* No post is added to src once it is filled: the posts from number "src" on are in
\* it.  A result in dst is given by its post: the error is nil unless fate is "failed".
NoCall == [at |-> "idle", page |-> <<>>, src |-> 1, dst |-> <<>>, count |-> 0,
           cancelled |-> TRUE, result |-> "none"]
At(point, k) == [at |-> point, k |-> k]
Exited == At("exit", 0)
Receiving == At("recv", 0)

Fate == {"todo", "ignored", "known", "pending", "blacklisted", "failed"}

TypeOK ==
    /\ mu \in Fetchers \cup {Free}
    /\ call \in [Fetchers ->
            [at : {"idle", "lock", "page", "collect"}, page : Seq(Post),
             src : Nat \ {0}, dst : Seq(Nat), count : Nat,
             cancelled : BOOLEAN, result : {"none", "seen", "failed"}]]
    /\ worker \in [Fetchers -> [Workers ->
            [at : {"exit", "recv", "busy", "send"}, k : Nat]]]
    /\ \A f \in Fetchers :
        /\ Len(call[f].dst) <= Capacity
        /\ fate[f] \in [1 .. Len(call[f].page) -> Fate]
        /\ heard[f] \subseteq 1 .. Len(call[f].page)

Init ==
    /\ mu = Free
    /\ call = [f \in Fetchers |-> NoCall]
    /\ worker = [f \in Fetchers |-> [w \in Workers |-> Exited]]
    /\ fate = [f \in Fetchers |-> <<>>]
    /\ heard = [f \in Fetchers |-> {}]

-----------------------------------------------------------------------------
(* The filter of processPost, with its loop over the tags of the post and  *)
(* the early returns of the loop.                                          *)
Start == [hasChar |-> FALSE, hasSolo |-> FALSE, containsRequested |-> FALSE,
          refused |-> FALSE]

LookAtNoBlacklist(s, t) ==       \* mutant: the map "blacklisted" is not looked at
    IF t \in Characters /\ s.hasChar THEN [s EXCEPT !.refused = TRUE]
    ELSE [s EXCEPT !.hasChar = @ \/ t \in Characters,
                   !.hasSolo = @ \/ t = Solo,
                   !.containsRequested = @ \/ Lower[t] = Requested]

\* One turn of the loop.
LookAt(s, t) ==
    IF (t \in Characters /\ s.hasChar) \/ t \in Blacklisted
    THEN [s EXCEPT !.refused = TRUE]
    ELSE [s EXCEPT !.hasChar = @ \/ t \in Characters,
                   !.hasSolo = @ \/ t = Solo,
                   !.containsRequested = @ \/ Lower[t] = Requested]

AfterTags(tags) ==
    LET after[i \in 0 .. Len(tags)] ==
            IF i = 0 THEN Start
            ELSE IF after[i - 1].refused THEN after[i - 1]
            ELSE LookAt(after[i - 1], tags[i])
    IN  after[Len(tags)]

Verdict(p) ==
    LET s == AfterTags(p.tags)
    IN  IF ~p.md5 THEN "ignored"
        ELSE IF ~p.still \/ s.refused \/ ~s.containsRequested \/ ~s.hasSolo
        THEN "blacklisted" ELSE "pending"

\* A post without a hash is ignored before anything can fail.  Others may be in
\* a table already, and each lookup, network fetch or insert may fail.
Outcomes(p) == {Verdict(p)} \cup IF p.md5 THEN {"known", "failed"} ELSE {}

-----------------------------------------------------------------------------
(* Fetch and tryFetchPage.                                                 *)
Fetch(f) ==
    /\ call[f].at = "idle"
    /\ \A w \in Workers : worker[f][w].at = "exit"
    /\ call' = [call EXCEPT ![f] = [NoCall EXCEPT !.at = "lock"]]
    /\ fate' = [fate EXCEPT ![f] = <<>>]
    /\ heard' = [heard EXCEPT ![f] = {}]
    /\ UNCHANGED <<mu, worker>>

Lock(f) ==
    /\ call[f].at = "lock"
    /\ mu = Free /\ mu' = f
    /\ call' = [call EXCEPT ![f].at = "page"]
    /\ UNCHANGED <<worker, fate, heard>>

\* tryFetchPage returns err; the deferred calls cancel the context, and Fetch
\* releases mu at its end.
ReturnUncancelled(f, result) ==  \* mutant: no deferred cancel
    /\ call' = [call EXCEPT ![f].at = "idle", ![f].result = result]
    /\ mu' = Free

Return(f, result) ==
    /\ call' = [call EXCEPT ![f].at = "idle", ![f].result = result,
                            ![f].cancelled = TRUE]
    /\ mu' = Free

\* Enough pending images, a cache hit, an empty page, or an error.
NoPage(f) ==
    /\ call[f].at = "page"
    /\ Return(f, "none")
    /\ UNCHANGED <<worker, fate, heard>>

\* A page is downloaded; its posts go into src, and the workers start.
GetPage(f) ==
    /\ call[f].at = "page"
    /\ \E page \in Pages[f] :
        /\ call' = [call EXCEPT ![f].at = "collect", ![f].page = page,
                                ![f].cancelled = FALSE]
        /\ fate' = [fate EXCEPT ![f] = [k \in 1 .. Len(page) |-> "todo"]]
    /\ worker' = [worker EXCEPT ![f] = [w \in Workers |-> Receiving]]
    /\ UNCHANGED <<mu, heard>>

\* The loop receives a result: an error ends it at once.
CollectOk(f) ==
    /\ call[f].at = "collect" /\ call[f].count < Len(call[f].page)
    /\ call[f].dst # <<>> /\ fate[f][Head(call[f].dst)] # "failed"
    /\ call' = [call EXCEPT ![f].dst = Tail(@), ![f].count = @ + 1]
    /\ heard' = [heard EXCEPT ![f] = @ \cup {Head(call[f].dst)}]
    /\ UNCHANGED <<mu, worker, fate>>

CollectFailed(f) ==
    /\ call[f].at = "collect" /\ call[f].count < Len(call[f].page)
    /\ call[f].dst # <<>> /\ fate[f][Head(call[f].dst)] = "failed"
    /\ Return(f, "failed")
    /\ UNCHANGED <<worker, fate, heard>>

\* All results are in: the page is set as seen.
CollectedEarly(f) ==             \* mutant: one result less is waited for
    /\ call[f].at = "collect" /\ call[f].count >= Len(call[f].page) - 1
    /\ Return(f, "seen")
    /\ UNCHANGED <<worker, fate, heard>>

Collected(f) ==
    /\ call[f].at = "collect" /\ call[f].count = Len(call[f].page)
    /\ Return(f, "seen")
    /\ UNCHANGED <<worker, fate, heard>>

-----------------------------------------------------------------------------
(* A worker.  Each select draws among its cases that are ready.            *)
GoOn(f, w, to) == worker' = [worker EXCEPT ![f][w] = to]

Exit(f, w) ==
    /\ worker[f][w].at \in {"recv", "send"}
    /\ call[f].cancelled
    /\ GoOn(f, w, Exited)
    /\ UNCHANGED <<mu, call, fate, heard>>

TakeTwice(f, w) ==               \* mutant: the post stays in src
    /\ worker[f][w].at = "recv"
    /\ call[f].src <= Len(call[f].page)
    /\ GoOn(f, w, At("busy", call[f].src))
    /\ UNCHANGED <<mu, call, fate, heard>>

Take(f, w) ==
    /\ worker[f][w].at = "recv"
    /\ call[f].src <= Len(call[f].page)
    /\ GoOn(f, w, At("busy", call[f].src))
    /\ call' = [call EXCEPT ![f].src = @ + 1]
    /\ UNCHANGED <<mu, fate, heard>>

\* processPost is an operand of the send: it runs before the inner select looks
\* at the context.
Process(f, w) ==
    LET k == worker[f][w].k
    IN  /\ worker[f][w].at = "busy"
        /\ \E outcome \in Outcomes(call[f].page[k]) :
            fate' = [fate EXCEPT ![f][k] = outcome]
        /\ GoOn(f, w, At("send", k))
        /\ UNCHANGED <<mu, call, heard>>

SendDropsErrors(f, w) ==         \* mutant: a failed worker returns without sending
    /\ worker[f][w].at = "send"
    /\ Len(call[f].dst) < Capacity
    /\ IF fate[f][worker[f][w].k] = "failed"
       THEN GoOn(f, w, Exited) /\ UNCHANGED call
       ELSE /\ call' = [call EXCEPT ![f].dst = Append(@, worker[f][w].k)]
            /\ GoOn(f, w, Receiving)
    /\ UNCHANGED <<mu, fate, heard>>

Send(f, w) ==
    /\ worker[f][w].at = "send"
    /\ Len(call[f].dst) < Capacity
    /\ call' = [call EXCEPT ![f].dst = Append(@, worker[f][w].k)]
    /\ GoOn(f, w, Receiving)
    /\ UNCHANGED <<mu, fate, heard>>

-----------------------------------------------------------------------------
Collect(f) ==
    NoPage(f) \/ GetPage(f) \/ CollectOk(f) \/ CollectFailed(f) \/ Collected(f)
Work(f, w) == Exit(f, w) \/ Take(f, w) \/ Process(f, w) \/ Send(f, w)

Next ==
    \E f \in Fetchers :
        \/ Fetch(f) \/ Lock(f) \/ Collect(f)
        \/ \E w \in Workers : Work(f, w)

Spec == Init /\ [][Next]_vars

\* Goroutines that can go on do, processPost returns, and a goroutine that is
\* blocked in mu.Lock gets the mutex at last.
Fairness ==
    \A f \in Fetchers :
        /\ WF_vars(Collect(f)) /\ SF_vars(Lock(f))
        /\ \A w \in Workers : WF_vars(Work(f, w))

FairSpec == Spec /\ Fairness

-----------------------------------------------------------------------------
\* The workers, their channels and the cancelled context implement PageWorkers: a
\* page is seen only if every post was processed without an error, an error is
\* returned only if there was one, and no post is processed twice, also not by the
\* workers that go on after the return.
PhaseOf(f) == IF call[f].at = "collect" THEN "collecting" ELSE call[f].result
PostOf(f, k) ==
    IF fate[f][k] \in {"todo", "failed"} THEN fate[f][k] ELSE "ok"

Promise == INSTANCE PageWorkers WITH
    phase <- [f \in Fetchers |-> PhaseOf(f)],
    post <- [f \in Fetchers |-> [k \in DOMAIN fate[f] |-> PostOf(f, k)]]

ImplementsPromise == Promise!Spec

\* The posts that become pending are those that the comments of processPost ask for,
\* whatever the order of their tags: a still image with the requested tag and
\* "solo", of one character at most, with no blacklisted tag.  All other posts with
\* a hash are blacklisted.
TagsOf(p) == {p.tags[i] : i \in 1 .. Len(p.tags)}
Suitable(p) ==
    /\ p.still
    /\ Solo \in TagsOf(p) /\ TagsOf(p) \cap Blacklisted = {}
    /\ \E t \in TagsOf(p) : Lower[t] = Requested
    /\ \A i, j \in 1 .. Len(p.tags) :
        p.tags[i] \in Characters /\ p.tags[j] \in Characters => i = j

FilterExact ==
    \A f \in Fetchers : \A k \in 1 .. Len(call[f].page) :
        LET p == call[f].page[k]
        IN  /\ fate[f][k] = "pending" => p.md5 /\ Suitable(p)
            /\ fate[f][k] = "blacklisted" => p.md5 /\ ~Suitable(p)
            /\ fate[f][k] = "ignored" <=> ~p.md5 /\ fate[f][k] # "todo"

\* Every post of a page is in one place: in src, with one worker, in dst, or
\* received; only a worker that exits with the context drops its result.
Held(f) == {worker[f][w].k : w \in Workers} \ {0}
InDst(f) == {call[f].dst[i] : i \in 1 .. Len(call[f].dst)}

OnePlace(f) ==
    /\ call[f].src \in 1 .. Len(call[f].page) + 1
    /\ Held(f) \cup InDst(f) \cup heard[f] \subseteq 1 .. call[f].src - 1
    /\ Held(f) \cap InDst(f) = {} /\ Held(f) \cap heard[f] = {}
    /\ InDst(f) \cap heard[f] = {}
    /\ \A v, w \in Workers : worker[f][v].k = worker[f][w].k /\ v # w => worker[f][v].k = 0
    /\ \A i, j \in 1 .. Len(call[f].dst) : call[f].dst[i] = call[f].dst[j] => i = j
    /\ ~call[f].cancelled => 1 .. call[f].src - 1 \subseteq Held(f) \cup InDst(f) \cup heard[f]

EachInOnePlace == \A f \in Fetchers : OnePlace(f)

\* The collecting loop does not wait in vain: as long as results are missing, there is
\* one in dst, or a worker of the page that nobody keeps from going on to send one,
\* whoever failed, and however small dst is.
GoesOn(f, w) ==
    \/ worker[f][w].at = "busy"
    \/ worker[f][w].at = "send" /\ Len(call[f].dst) < Capacity
    \/ worker[f][w].at = "recv" /\ call[f].src <= Len(call[f].page)

CollectorServed ==
    \A f \in Fetchers : call[f].at = "collect" /\ call[f].count < Len(call[f].page) =>
        call[f].dst # <<>> \/ \E w \in Workers : GoesOn(f, w)

\* Every caller of Fetch gets its turn, and tryFetchPage returns, whatever fails: it
\* does not wait for results that nobody sends.
FetchReturns == \A f \in Fetchers : call[f].at # "idle" ~> call[f].at = "idle"

\* No goroutine is left behind: the workers of a page exit, also those that wait
\* for a post, or for room in dst, when tryFetchPage returns.
WorkersExit ==
    \A f \in Fetchers : \A w \in Workers :
        worker[f][w].at # "exit" ~> worker[f][w].at = "exit"
=============================================================================
