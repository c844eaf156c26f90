------------------------------- MODULE Server -------------------------------
(***************************************************************************)
(* A process of cmd/captchouli: Open, NewService with initPool and its     *)
(* goroutine for the tags after the first ones, the router that serves     *)
(* captchas of the tags that are ready, the scheduler goroutine (module    *)
(* FetchScheduler), and Close, over the storage (module Storage) that      *)
(* other processes of the same user may open beside it.                    *)
(*                                                                         *)
(* The pool of tag t is one row here: it is there when ImageCount reaches  *)
(* poolMinSize.  A call of fetch is its begin, at most one call of         *)
(* thumbnail, and its end; module ImagePipeline has its inside.            *)
(***************************************************************************)
EXTENDS FetchScheduler, Storage

CONSTANTS
    Self,      \* the process that is modelled as a whole
    First,     \* tags that are needed for operation, 3 in the code
    TagLists   \* values of the flag -t

Pool(t) == <<"images", t>>
Matched == {t \in Tags : Pool(t) \in Row}      \* tags that images of the booru have
Goroutines == {"main", "rest", "scheduler"}  \* those that call fetch

ASSUME ServerAssumption ==
    /\ Self \in Processes /\ First \in Nat \ {0}
    /\ TagLists \subseteq Seq(Tags)
    /\ None \notin Goroutines

VARIABLES
    main,        \* program point of main and of NewService
    tags,        \* value of the flag -t
    turn,        \* turn[g]: number of the tag that g is in initTag for, and its
                 \* program point; for the scheduler, only the latter
    listed,      \* Service.tags.inner
    err,         \* the result of initPool, shared by main and the rest: a tag
    gaveUp,      \* history: tags whose initTag returned an error
    classifier,  \* the pointer: "nil" or "loaded"
    cut          \* holder of classifierMu in thumbnail, and the pointer it uses

processVars == <<main, tags, turn, listed, err, gaveUp>>
cutVars == <<classifier, cut>>
serverVars == <<vars, storageVars, processVars, cutVars>>

AtTag(n) == [i |-> n, at |-> "count"]
NoTurn == AtTag(0)
NoCut == [who |-> None, pointer |-> "nil"]

ServerInit ==
    /\ StorageInit /\ Init
    /\ main = "off" /\ tags = <<>> /\ listed = <<>> /\ err = None /\ gaveUp = {}
    /\ turn = [g \in Goroutines |-> NoTurn]
    /\ classifier = "nil" /\ cut = NoCut

-----------------------------------------------------------------------------
(* main and NewService.                                                    *)
MainGoes(from, to) == main = from /\ main' = to

StartProcess(list) ==
    /\ MainGoes("off", "open") /\ tags' = list
    /\ Start(Self)
    /\ UNCHANGED <<vars, turn, listed, err, gaveUp, cutVars>>

OpenGoesOn ==
    /\ OpenStep(Self)
    /\ UNCHANGED <<vars, processVars, cutVars>>

\* Too few tags are noticed once the storage is open.
OpenReturns ==
    /\ proc[Self].at \in {"up", "failed"}
    /\ MainGoes("open", IF proc[Self].at = "up" /\ Len(tags) >= First
                        THEN "classifier" ELSE "failed")
    /\ UNCHANGED <<vars, storageVars, tags, turn, listed, err, gaveUp, cutVars>>

InitClassifier ==
    /\ MainGoes("classifier", "pool")
    /\ classifier' = "loaded"
    /\ turn' = [turn EXCEPT !["main"] = AtTag(1)]
    /\ UNCHANGED <<vars, storageVars, tags, listed, err, gaveUp, cut>>

InitClassifierFails ==
    /\ MainGoes("classifier", "failed")
    /\ UNCHANGED <<vars, storageVars, tags, turn, listed, err, gaveUp, cutVars>>

\* initPool has started the goroutine, and returns err.
InitPoolReturns ==
    /\ MainGoes("return", IF err = None THEN "serving" ELSE "failed")
    /\ UNCHANGED <<vars, storageVars, tags, turn, listed, err, gaveUp, cutVars>>

\* ListenAndServe returns, and the deferred Close runs beside the other goroutines.
StopServing ==
    /\ MainGoes("serving", "closing")
    /\ UNCHANGED <<vars, storageVars, tags, turn, listed, err, gaveUp, cutVars>>

UnloadUnlocked ==                \* mutant: Close does not lock classifierMu
    /\ MainGoes("closing", "closed")
    /\ classifier' = "nil"
    /\ UNCHANGED <<vars, storageVars, tags, turn, listed, err, gaveUp, cut>>

UnloadClassifier ==
    /\ MainGoes("closing", "closed")
    /\ cut.who = None
    /\ classifier' = "nil"
    /\ UNCHANGED <<vars, storageVars, tags, turn, listed, err, gaveUp, cut>>

\* The process ends with all of its goroutines and its database: main has closed the
\* latter too, or panics with the error of Open or NewService, or it is killed.
End ==
    /\ main' = "off" /\ tags' = <<>> /\ listed' = <<>> /\ err' = None /\ gaveUp' = {}
    /\ turn' = [g \in Goroutines |-> NoTurn]
    /\ classifier' = "nil" /\ cut' = NoCut
    /\ scheduleFetch' = <<>> /\ requests' = {} /\ tick' = 0 /\ target' = None
    /\ caller' = [c \in Callers |-> None] /\ owed' = {}
    /\ IF proc[Self].at = "off" THEN UNCHANGED storageVars ELSE Crash(Self)

Exit == main \in {"failed", "closed"} /\ End
Kill == main # "off" /\ End

-----------------------------------------------------------------------------
(* initPool and initTag, by main and by the goroutine for the rest.        *)
TagOf(g) == tags[turn[g].i]

\* The loop of g over its tags goes on.  After the first tags, main starts the
\* goroutine for the rest and is about to return.
NextTag(g) ==
    LET i == turn[g].i
        last == IF g = "main" THEN First ELSE Len(tags)
        on == [turn EXCEPT ![g] = IF i < last THEN AtTag(i + 1)
                                  ELSE NoTurn]
    IN  IF g = "main" /\ i = First
        THEN /\ main' = "return"
             /\ turn' = IF Len(tags) > First
                        THEN [on EXCEPT !["rest"] = AtTag(First + 1)] ELSE on
        ELSE turn' = on /\ UNCHANGED main

ReleaseCut(g) == cut' = IF cut.who = g THEN NoCut ELSE cut

\* ImageCount has found enough images.
TagReady(g) ==
    /\ turn[g].i # 0 /\ turn[g].at = "count"
    /\ proc[Self].at = "up" /\ Pool(TagOf(g)) \in db.rows
    /\ listed' = Append(listed, TagOf(g))
    /\ err' = None
    /\ NextTag(g)
    /\ UNCHANGED <<vars, storageVars, tags, gaveUp, cutVars>>

FetchForTag(g) ==
    /\ turn[g].i # 0 /\ turn[g].at = "count"
    /\ proc[Self].at = "up" /\ Pool(TagOf(g)) \notin db.rows
    /\ turn' = [turn EXCEPT ![g].at = "fetch"]
    /\ UNCHANGED <<vars, storageVars, main, tags, listed, err, gaveUp, cutVars>>

\* fetch has stored an image, which may complete the pool of any of its tags.
ImageFetched(g, t) ==
    /\ cut.who = g
    /\ Write(Self, Pool(t))
    /\ turn' = [turn EXCEPT ![g].at = "count"]
    /\ ReleaseCut(g)
    /\ UNCHANGED <<vars, main, tags, listed, err, gaveUp, classifier>>

\* fetch returns no error and no image: none matched, or none with a face.
NothingFetchedLocked(g) ==       \* mutant: no unlock if there is no face
    /\ turn[g].at = "fetch" \/ cut.who = g
    /\ turn' = [turn EXCEPT ![g].at = "count"]
    /\ UNCHANGED <<vars, storageVars, main, tags, listed, err, gaveUp, cutVars>>

NothingFetched(g) ==
    /\ turn[g].at = "fetch" \/ cut.who = g
    /\ turn' = [turn EXCEPT ![g].at = "count"]
    /\ ReleaseCut(g)
    /\ UNCHANGED <<vars, storageVars, main, tags, listed, err, gaveUp, classifier>>

\* ImageCount or fetch returns an error: NewService fails with it, or the goroutine
\* logs it and goes on.
TagFailsAppends(g) ==            \* mutant: Append without the else
    /\ turn[g].i # 0 /\ (turn[g].at = "thumbnail" => cut.who = g)
    /\ ReleaseCut(g)
    /\ err' = TagOf(g) /\ gaveUp' = gaveUp \cup {TagOf(g)}
    /\ IF g = "main"
       THEN main' = "failed" /\ turn' = [turn EXCEPT ![g] = NoTurn] /\ UNCHANGED listed
       ELSE NextTag(g) /\ listed' = Append(listed, TagOf(g))
    /\ UNCHANGED <<vars, storageVars, tags, classifier>>

TagFailsStops(g) ==              \* mutant: the goroutine returns at an error
    /\ turn[g].i # 0 /\ (turn[g].at = "thumbnail" => cut.who = g)
    /\ ReleaseCut(g)
    /\ err' = TagOf(g) /\ gaveUp' = gaveUp \cup {TagOf(g)}
    /\ turn' = [turn EXCEPT ![g] = NoTurn]
    /\ main' = IF g = "main" THEN "failed" ELSE main
    /\ UNCHANGED <<vars, storageVars, tags, listed, classifier>>

TagFails(g) ==
    /\ turn[g].i # 0 /\ (turn[g].at = "thumbnail" => cut.who = g)
    /\ ReleaseCut(g)
    /\ err' = TagOf(g) /\ gaveUp' = gaveUp \cup {TagOf(g)}
    /\ IF g = "main"
       THEN main' = "failed" /\ turn' = [turn EXCEPT ![g] = NoTurn]
       ELSE NextTag(g)
    /\ UNCHANGED <<vars, storageVars, tags, listed, classifier>>

InitTag(g) ==
    \/ TagReady(g) \/ FetchForTag(g) \/ NothingFetched(g) \/ TagFails(g)
    \/ \E t \in Matched : ImageFetched(g, t)

-----------------------------------------------------------------------------
(* fetch: the file of a pending image is there, and thumbnail holds        *)
(* classifierMu from its begin to its return.                              *)
Fetching(g) == IF g = "scheduler" THEN target # None /\ turn[g].at = "count"
               ELSE turn[g].at = "fetch"

Downloaded(g) ==
    /\ Fetching(g)
    /\ turn' = [turn EXCEPT ![g].at = "thumbnail"]
    /\ UNCHANGED <<vars, storageVars, main, tags, listed, err, gaveUp, cutVars>>

Thumbnail(g) ==
    /\ turn[g].at = "thumbnail" /\ cut.who = None
    /\ cut' = [who |-> g, pointer |-> classifier]
    /\ UNCHANGED <<vars, storageVars, processVars, classifier>>

(* Requests, and the scheduler: NewCaptcha draws one of the listed tags.   *)
Beside == UNCHANGED <<storageVars, processVars, cutVars>>

Request(c) ==
    /\ main = "serving"
    /\ \E t \in ToSet(listed) : NewCaptcha(c, t)
    /\ Beside

SchedulerReturns ==
    /\ FetchReturns
    /\ turn["scheduler"].at = "thumbnail" => cut.who = "scheduler"
    /\ turn' = [turn EXCEPT !["scheduler"] = NoTurn]
    /\ ReleaseCut("scheduler")
    /\ UNCHANGED <<main, tags, listed, err, gaveUp, classifier>>
    /\ \/ UNCHANGED storageVars
       \/ cut.who = "scheduler" /\ \E t \in Matched : Write(Self, Pool(t))

Alive == main # "off"

Scheduler ==
    /\ Alive /\ Beside
    /\ Receive \/ Tick \/ NothingToFetch \/ \E t \in Tags : FetchRandom(t)

-----------------------------------------------------------------------------
Main ==
    \/ \E list \in TagLists : StartProcess(list)
    \/ OpenGoesOn \/ OpenReturns \/ InitClassifier \/ InitClassifierFails
    \/ InitPoolReturns \/ StopServing \/ UnloadClassifier
    \/ Exit \/ Kill

OtherProcess(p) == StorageStep(p) /\ UNCHANGED <<vars, processVars, cutVars>>

ServerNext ==
    \/ Main \/ Scheduler \/ SchedulerReturns
    \/ \E g \in {"main", "rest"} : InitTag(g)
    \/ \E g \in Goroutines : Downloaded(g) \/ Thumbnail(g)
    \/ \E c \in Callers : Request(c) \/ (Send(c) /\ Beside)
    \/ \E p \in Processes \ {Self} : OtherProcess(p)

ServerSpec == ServerInit /\ [][ServerNext]_serverVars

\* The scheduler and the requests are as fair as in FetchScheduler; classifierMu is
\* handed over to who waits for it, and thumbnail returns to the other goroutines.
ServerFairness ==
    /\ \A c \in Callers : SF_serverVars(Send(c) /\ Beside)
    /\ SF_serverVars(Receive /\ Beside)
    /\ \A t \in Tags : SF_serverVars(FetchRandom(t) /\ Beside)
    /\ WF_serverVars(Alive /\ Tick /\ Beside) /\ WF_serverVars(SchedulerReturns)
    /\ SF_serverVars(Thumbnail("scheduler"))
    /\ WF_serverVars(InitTag("rest"))

FairServer == ServerSpec /\ ServerFairness

-----------------------------------------------------------------------------
\* Captchas are only made for tags whose pool is full, and the service starts with
\* the first tags among them; no failed tag is listed, and no migration of another
\* process empties a pool that is in use.
ServesReadyTags ==
    /\ \A t \in ToSet(listed) : Pool(t) \in db.rows
    /\ main = "serving" => \A k \in 1 .. First : tags[k] \in ToSet(listed)

\* A tag that fails in the background does not keep the others from being tried.
RestTried ==
    main = "serving" /\ turn["rest"].i = 0 =>
        ToSet(tags) \subseteq ToSet(listed) \cup gaveUp

\* OpenCV never works on a classifier that was freed meanwhile, and it gets a null
\* pointer only after Close: for the fetches that go on until the process exits.
ClassifierUsable ==
    cut.who # None =>
        /\ cut.pointer = classifier
        /\ cut.pointer = "nil" => main = "closed"

\* The comment of initPool, of the tags after the third: "init the rest eventually to
\* reduce startup times".  So only a tag of the first ones makes NewService fail.
StartFailsForFirstTagsOnly ==
    main = "failed" /\ classifier = "loaded" =>
        \E k \in 1 .. First : tags[k] \in gaveUp
=============================================================================
