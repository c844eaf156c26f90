---------------------------- MODULE ServerProofs ----------------------------
(***************************************************************************)
(* Theorems about module Server, for any list of tags, any number of tags  *)
(* that are needed first, any number of callers and of processes that open *)
(* the same storage, and any capacity of the channel.  What is proved of   *)
(* the storage on its own holds of the server, whose steps are steps of    *)
(* module Storage, and that is what its pools rely on.                     *)
(***************************************************************************)
EXTENDS Server, StorageProofs

-----------------------------------------------------------------------------
(* The scheduler on its own: module FetchScheduler.                        *)
USE SchedulerAssumption DEF SchedulerAssumption

SchedulerInv == TypeOK /\ NoRequestLost

\* The elements of a sequence are its head and those of its tail.
LEMMA HeadAndTail ==
    ASSUME NEW S, NEW s \in Seq(S), s # <<>>
    PROVE  ToSet(s) = ToSet(Tail(s)) \cup {Head(s)}
<1>1. /\ Len(s) \in Nat \ {0} /\ DOMAIN s = 1 .. Len(s) /\ Head(s) = s[1]
      /\ Tail(s) \in Seq(S) /\ Len(Tail(s)) = Len(s) - 1
      /\ DOMAIN Tail(s) = 1 .. Len(s) - 1
      /\ \A k \in 1 .. Len(s) - 1 : Tail(s)[k] = s[k + 1]
  OBVIOUS
<1>2. ASSUME NEW k \in 1 .. Len(s) PROVE s[k] \in ToSet(Tail(s)) \cup {s[1]}
  <2>1. CASE k = 1
    BY <2>1
  <2>2. CASE k # 1
    <3>1. k - 1 \in 1 .. Len(s) - 1 /\ Tail(s)[k - 1] = s[(k - 1) + 1] /\ (k - 1) + 1 = k
      BY <1>1, <2>2
    <3> QED BY <1>1, <3>1 DEF ToSet
  <2> QED BY <2>1, <2>2
<1>3. ASSUME NEW k \in 1 .. Len(s) - 1 PROVE Tail(s)[k] \in ToSet(s)
  BY <1>1 DEF ToSet
<1>4. s[1] \in ToSet(s)
  BY <1>1 DEF ToSet
<1>5. ToSet(s) \subseteq ToSet(Tail(s)) \cup {s[1]}
  BY <1>1, <1>2 DEF ToSet
<1>6. ToSet(Tail(s)) \subseteq ToSet(s)
  BY <1>1, <1>3 DEF ToSet
<1> QED BY <1>1, <1>4, <1>5, <1>6

LEMMA InitScheduler == Init => SchedulerInv
BY DEF Init, SchedulerInv, TypeOK, NoRequestLost

\* A step keeps the types.
LEMMA NextTypeOK == TypeOK /\ [Next]_vars => TypeOK'
<1> SUFFICES ASSUME TypeOK, [Next]_vars PROVE TypeOK'
  OBVIOUS
<1> USE DEF TypeOK
<1>1. CASE UNCHANGED vars
  BY <1>1 DEF vars
<1>2. ASSUME NEW c \in Callers, NEW t \in Tags, NewCaptcha(c, t) PROVE TypeOK'
  BY <1>2 DEF NewCaptcha
<1>3. ASSUME NEW c \in Callers, Send(c) PROVE TypeOK'
  <2>1. caller[c] \in Tags
    BY <1>3 DEF Send
  <2> QED BY <1>3, <2>1 DEF Send
<1>4. CASE Receive
  BY <1>4 DEF Receive
<1>5. CASE Tick \/ NothingToFetch \/ FetchReturns
  BY <1>5 DEF Tick, NothingToFetch, FetchReturns
<1>6. ASSUME NEW t \in Tags, FetchRandom(t) PROVE TypeOK'
  BY <1>6 DEF FetchRandom
<1> QED BY <1>1, <1>2, <1>3, <1>4, <1>5, <1>6 DEF Next

\* A step of the scheduler moves a request from the channel to the requests, and
\* deletes it at the end of its fetch; what was asked for meanwhile is in the
\* channel.
LEMMA NextLost == TypeOK /\ NoRequestLost /\ [Next]_vars => NoRequestLost'
<1> SUFFICES ASSUME TypeOK, NoRequestLost, [Next]_vars PROVE NoRequestLost'
  OBVIOUS
<1> USE DEF TypeOK, NoRequestLost, ToSet
<1>1. CASE UNCHANGED vars
  BY <1>1 DEF vars
<1>2. ASSUME NEW c \in Callers, NEW t \in Tags, NewCaptcha(c, t) PROVE NoRequestLost'
  BY <1>2 DEF NewCaptcha
<1>3. ASSUME NEW c \in Callers, Send(c) PROVE NoRequestLost'
  <2>1. caller[c] \in Tags
    BY <1>3 DEF Send
  <2>2. ToSet(scheduleFetch') = ToSet(scheduleFetch) \cup {caller[c]}
    BY <1>3, <2>1 DEF Send
  <2> QED BY <1>3, <2>2 DEF Send
<1>4. CASE Receive
  <2>1. ToSet(scheduleFetch) = ToSet(scheduleFetch') \cup {Head(scheduleFetch)}
    BY <1>4, HeadAndTail DEF Receive
  <2>2. target' = None /\ owed' = owed /\ requests' = requests \cup {Head(scheduleFetch)}
    BY <1>4 DEF Receive
  <2>3. Head(scheduleFetch) \in Tags
    BY <1>4 DEF Receive
  <2> HIDE DEF ToSet
  <2> QED BY <2>1, <2>2, <2>3
<1>5. CASE Tick \/ NothingToFetch \/ FetchReturns
  BY <1>5 DEF Tick, NothingToFetch, FetchReturns
<1>6. ASSUME NEW t \in Tags, FetchRandom(t) PROVE NoRequestLost'
  BY <1>6 DEF FetchRandom
<1> QED BY <1>1, <1>2, <1>3, <1>4, <1>5, <1>6 DEF Next

\* No request is lost between a caller, the channel and the scheduler.
THEOREM RequestsKept == Spec => []NoRequestLost
<1>1. SchedulerInv /\ [Next]_vars => SchedulerInv'
  BY NextTypeOK, NextLost DEF SchedulerInv
<1>2. SchedulerInv => NoRequestLost
  BY DEF SchedulerInv
<1> QED BY InitScheduler, <1>1, <1>2, PTL DEF Spec

-----------------------------------------------------------------------------
(* The storage and the scheduler inside of the server.                     *)
USE ServerAssumption DEF ServerAssumption, Goroutines

LEMMA StorageSteps == [ServerNext]_serverVars => [StorageNext]_storageVars
<1> SUFFICES ASSUME [ServerNext]_serverVars PROVE [StorageNext]_storageVars
  OBVIOUS
<1>1. CASE UNCHANGED serverVars
  BY <1>1 DEF serverVars
<1>2. CASE Main
  BY <1>2 DEF Main, StartProcess, OpenGoesOn, OpenReturns, InitClassifier,
        InitClassifierFails, InitPoolReturns, StopServing, UnloadClassifier, Exit, Kill,
        End, StorageNext, StorageStep
<1>3. CASE Scheduler \/ SchedulerReturns
  BY <1>3 DEF Scheduler, Beside, SchedulerReturns, Matched, StorageNext, StorageStep
<1>4. ASSUME NEW g \in {"main", "rest"}, InitTag(g) PROVE [StorageNext]_storageVars
  BY <1>4 DEF InitTag, TagReady, FetchForTag, NothingFetched, TagFails, ImageFetched,
        Matched, StorageNext, StorageStep
<1>5. ASSUME NEW g \in Goroutines, Downloaded(g) \/ Thumbnail(g)
      PROVE  [StorageNext]_storageVars
  BY <1>5 DEF Downloaded, Thumbnail
<1>6. ASSUME NEW c \in Callers, Request(c) \/ (Send(c) /\ Beside)
      PROVE  [StorageNext]_storageVars
  BY <1>6 DEF Request, Beside
<1>7. ASSUME NEW p \in Processes \ {Self}, OtherProcess(p) PROVE [StorageNext]_storageVars
  BY <1>7 DEF OtherProcess, StorageNext
<1> QED BY <1>1, <1>2, <1>3, <1>4, <1>5, <1>6, <1>7 DEF ServerNext

THEOREM ServerUsesStorage == ServerSpec => StorageSpec
<1>1. ServerInit => StorageInit
  BY DEF ServerInit
<1> QED BY <1>1, StorageSteps, PTL DEF ServerSpec, StorageSpec

\* A step of the server is one of the scheduler and its callers, or ends them all.
LEMMA SchedulerSteps ==
    listed \in Seq(Tags) /\ [ServerNext]_serverVars => [Next]_vars \/ End
<1> SUFFICES ASSUME listed \in Seq(Tags), [ServerNext]_serverVars, ~End PROVE [Next]_vars
  OBVIOUS
<1>1. CASE UNCHANGED serverVars
  BY <1>1 DEF serverVars
<1>2. CASE Main
  BY <1>2 DEF Main, StartProcess, OpenGoesOn, OpenReturns, InitClassifier,
        InitClassifierFails, InitPoolReturns, StopServing, UnloadClassifier, Exit, Kill
<1>3. CASE Scheduler \/ SchedulerReturns
  BY <1>3 DEF Scheduler, SchedulerReturns, Next
<1>4. ASSUME NEW g \in {"main", "rest"}, InitTag(g) PROVE [Next]_vars
  BY <1>4 DEF InitTag, TagReady, FetchForTag, NothingFetched, TagFails, ImageFetched
<1>5. ASSUME NEW g \in Goroutines, Downloaded(g) \/ Thumbnail(g) PROVE [Next]_vars
  BY <1>5 DEF Downloaded, Thumbnail
<1>6. ASSUME NEW c \in Callers, Request(c) \/ (Send(c) /\ Beside)
      PROVE  [Next]_vars
  BY <1>6 DEF Request, Beside, Next, ToSet
<1>7. ASSUME NEW p \in Processes \ {Self}, OtherProcess(p) PROVE [Next]_vars
  BY <1>7 DEF OtherProcess
<1> QED BY <1>1, <1>2, <1>3, <1>4, <1>5, <1>6, <1>7 DEF ServerNext

-----------------------------------------------------------------------------
(* The inductive invariant of the process.                                 *)
MainPoints == {"off", "open", "classifier", "pool", "return", "failed", "serving",
            "closing", "closed"}
Turn == [i : Nat, at : {"count", "fetch", "thumbnail"}]

ServerShape ==
    /\ main \in MainPoints
    /\ tags \in Seq(Tags) /\ listed \in Seq(Tags)
    /\ turn \in [Goroutines -> Turn]
    /\ classifier \in {"nil", "loaded"}
    /\ cut \in [who : Goroutines \cup {None}, pointer : {"nil", "loaded"}]

\* Where main and the goroutine for the rest are in their tags.
TurnInv ==
    /\ main \in {"classifier", "pool", "return", "serving"} => Len(tags) >= First
    /\ turn["main"].i # 0 <=> main = "pool"
    /\ turn["main"].i <= First
    /\ turn["rest"].i # 0 =>
        /\ turn["rest"].i \in First + 1 .. Len(tags)
        /\ main \notin {"off", "open", "classifier", "pool"}
    /\ \A g \in {"main", "rest"} : turn[g].at # "count" => turn[g].i # 0

\* Nothing is asked of the scheduler until the service serves.
IdleInv ==
    /\ turn["scheduler"].at # "count" => target # None
    /\ main \notin {"serving", "closing", "closed"} =>
        /\ requests = {} /\ scheduleFetch = <<>> /\ target = None
        /\ \A c \in Callers : caller[c] = None

\* Who is inside of thumbnail uses the pointer as it is, and there is none only
\* before the first fetch and after Close.
CutInv ==
    /\ cut.who # None => turn[cut.who].at = "thumbnail" /\ cut.pointer = classifier
    /\ classifier = "nil" =>
        \/ main = "closed"
        \/ main \in {"off", "open", "classifier", "failed"} /\ turn["rest"].i = 0

\* The tags that are listed have their pools, and those that main and the rest have
\* been through are listed, or given up by the rest.
ReadyInv ==
    /\ main \in {"classifier", "pool", "return", "serving", "closing", "closed"} =>
        proc[Self].at = "up"
    /\ listed # <<>> => proc[Self].at = "up"
    /\ \A t \in ToSet(listed) : Pool(t) \in db.rows
    /\ main = "pool" => \A k \in 1 .. turn["main"].i - 1 : tags[k] \in ToSet(listed)
    /\ main \in {"return", "serving"} =>
        /\ \A k \in 1 .. First : tags[k] \in ToSet(listed)
        /\ \A k \in 1 .. Len(tags) :
            k < turn["rest"].i \/ turn["rest"].i = 0 => tags[k] \in ToSet(listed) \cup gaveUp

ProcessInv == ServerShape /\ TurnInv /\ IdleInv /\ CutInv /\ ReadyInv

ServerInv == DatabaseInv /\ SchedulerInv /\ ProcessInv

LEMMA InitServer == ServerInit => ServerInv
<1> SUFFICES ASSUME ServerInit PROVE ServerInv
  OBVIOUS
<1>1. DatabaseInv /\ SchedulerInv
  BY InitDatabase, InitScheduler DEF ServerInit
<1>2. <<>> \in Seq(Tags) /\ ToSet(<<>>) = {}
  BY DEF ToSet
<1>3. ServerShape
  BY <1>2 DEF ServerInit, ServerShape, MainPoints, Turn, NoTurn, AtTag, NoCut
<1>4. TurnInv /\ IdleInv /\ CutInv
  BY DEF ServerInit, Init, TurnInv, IdleInv, CutInv, NoTurn, AtTag, NoCut
<1>5. ReadyInv
  BY <1>2 DEF ServerInit, ReadyInv
<1> QED BY <1>1, <1>3, <1>4, <1>5 DEF ServerInv, ProcessInv

\* While the process is up, its release is the last one: nobody runs a migration, and
\* no row goes.
LEMMA RowsKept ==
    ASSUME DatabaseInv, proc[Self].at = "up", [StorageNext]_storageVars
    PROVE  db.rows \subseteq db'.rows
<1>1. CASE UNCHANGED storageVars
  BY <1>1 DEF storageVars
<1>2. ASSUME NEW p \in Processes, StorageStep(p) PROVE db.rows \subseteq db'.rows
  <2>1. CASE Commit(p)
    <3>1. db.val < version /\ db.val = version
      BY <2>1, CommitKeeps DEF DatabaseInv, SchemaMatches
    <3> QED BY <3>1, Migrations
  <2>2. ASSUME NEW r \in Row, Write(p, r) PROVE db.rows \subseteq db'.rows
    BY <2>2 DEF Write, DatabaseInv, Database
  <2> QED BY <1>2, <2>1, <2>2 DEF StorageStep, OpenStep, Start, MkRoot, MkImages,
             ReadVersion, RunMigration, UpdateVersion, Fails, Stop, Crash
<1> QED BY <1>1, <1>2 DEF StorageNext

-----------------------------------------------------------------------------
(* The steps of main.                                                      *)

\* The pools of the tags that are listed stay full.
LEMMA ListedKept ==
    ASSUME ServerInv, [StorageNext]_storageVars, listed' = listed
    PROVE  \A t \in ToSet(listed') : Pool(t) \in db'.rows
<1>1. CASE listed = <<>>
  BY <1>1 DEF ToSet
<1>2. CASE listed # <<>>
  BY <1>2, RowsKept DEF ServerInv, ProcessInv, ReadyInv
<1> QED BY <1>1, <1>2

LEMMA StartProcessKeeps ==
    ASSUME ServerInv, NEW list \in TagLists, StartProcess(list), [StorageNext]_storageVars
    PROVE  ProcessInv'
<1>1. /\ main = "off" /\ main' = "open" /\ tags' = list /\ tags' \in Seq(Tags)
      /\ UNCHANGED <<turn, listed, classifier, cut, scheduleFetch, requests, target, caller>>
      /\ proc[Self].at = "off"
  BY DEF StartProcess, MainGoes, cutVars, vars, Start
<1>2. ServerShape' /\ TurnInv' /\ IdleInv' /\ CutInv'
  BY <1>1 DEF ServerInv, ProcessInv, ServerShape, TurnInv, IdleInv, CutInv, MainPoints
<1>3. ReadyInv'
  BY <1>1, ListedKept DEF ServerInv, ProcessInv, ReadyInv
<1> QED BY <1>2, <1>3 DEF ProcessInv

LEMMA OpenGoesOnKeeps ==
    ASSUME ServerInv, OpenGoesOn, [StorageNext]_storageVars
    PROVE  ProcessInv'
<1>1. UNCHANGED <<main, tags, turn, listed, gaveUp, classifier, cut,
                  scheduleFetch, requests, target, caller>>
  BY DEF OpenGoesOn, processVars, cutVars, vars
<1>2. proc[Self].at # "up"
  BY DEF OpenGoesOn, OpenStep, MkRoot, MkImages, ReadVersion, RunMigration, UpdateVersion,
        Commit, Fails
<1>3. ServerShape' /\ TurnInv' /\ IdleInv' /\ CutInv'
  BY <1>1 DEF ServerInv, ProcessInv, ServerShape, TurnInv, IdleInv, CutInv
<1>4. ReadyInv'
  BY <1>1, <1>2, ListedKept DEF ServerInv, ProcessInv, ReadyInv
<1> QED BY <1>3, <1>4 DEF ProcessInv

\* main goes on to where it has nothing to do with its tags.
LEMMA MainKeeps ==
    ASSUME ServerInv, [StorageNext]_storageVars,
           OpenReturns \/ InitClassifierFails \/ InitPoolReturns \/ StopServing
               \/ UnloadClassifier
    PROVE  ProcessInv'
<1>1. UNCHANGED <<proc, tags, turn, listed, gaveUp, cut,
                  scheduleFetch, requests, target, caller>>
  BY DEF OpenReturns, InitClassifierFails, InitPoolReturns, StopServing, UnloadClassifier,
        vars, storageVars, cutVars
<1>2. /\ main' \in {"classifier", "failed", "serving", "closing", "closed"}
      /\ main' = "classifier" => proc[Self].at = "up" /\ Len(tags) >= First
      /\ main' = "failed" => main \in {"open", "classifier", "return"}
      /\ main' = "serving" => main = "return"
      /\ main' = "closing" => main = "serving"
      /\ main' = "closed" => main = "closing" /\ cut.who = None
      /\ main' = "classifier" => main = "open"
      /\ main' # "closed" => classifier' = classifier
      /\ classifier' \in {"nil", "loaded"} /\ main # "pool"
  BY DEF OpenReturns, InitClassifierFails, InitPoolReturns, StopServing, UnloadClassifier,
        MainGoes, cutVars, ServerInv, ProcessInv, ServerShape
<1>3. ServerShape' /\ TurnInv'
  BY <1>1, <1>2 DEF ServerInv, ProcessInv, ServerShape, TurnInv, MainPoints
<1>4. IdleInv'
  BY <1>1, <1>2 DEF ServerInv, ProcessInv, IdleInv
<1>5. CutInv'
  BY <1>1, <1>2 DEF ServerInv, ProcessInv, CutInv
<1>6. ReadyInv'
  BY <1>1, <1>2, ListedKept DEF ServerInv, ProcessInv, ReadyInv
<1> QED BY <1>3, <1>4, <1>5, <1>6 DEF ProcessInv

LEMMA InitClassifierKeeps ==
    ASSUME ServerInv, InitClassifier, [StorageNext]_storageVars
    PROVE  ProcessInv'
<1>1. /\ main = "classifier" /\ main' = "pool" /\ classifier' = "loaded"
      /\ turn' = [turn EXCEPT !["main"] = AtTag(1)]
      /\ UNCHANGED <<proc, tags, listed, gaveUp, cut, scheduleFetch, requests, target, caller>>
  BY DEF InitClassifier, MainGoes, vars, storageVars
<1>2. /\ turn' \in [Goroutines -> Turn] /\ turn'["main"].i = 1
      /\ turn'["main"].at = "count"
      /\ turn'["rest"] = turn["rest"] /\ turn'["scheduler"] = turn["scheduler"]
  BY <1>1 DEF ServerInv, ProcessInv, ServerShape, Turn, AtTag
<1>3. \A g \in Goroutines : turn[g].at = "count"
  BY <1>1 DEF ServerInv, ProcessInv, TurnInv, IdleInv
<1>4. cut.who = None
  BY <1>3 DEF ServerInv, ProcessInv, CutInv, ServerShape
<1>5. ServerShape' /\ TurnInv'
  BY <1>1, <1>2, <1>3 DEF ServerInv, ProcessInv, ServerShape, TurnInv, MainPoints
<1>6. IdleInv' /\ CutInv'
  BY <1>1, <1>2, <1>4 DEF ServerInv, ProcessInv, IdleInv, CutInv
<1>7. ReadyInv'
  BY <1>1, <1>2, ListedKept DEF ServerInv, ProcessInv, ReadyInv
<1> QED BY <1>5, <1>6, <1>7 DEF ProcessInv

LEMMA EndKeeps ==
    ASSUME ServerInv, End
    PROVE  ProcessInv' /\ SchedulerInv'
<1>1. /\ main' = "off" /\ tags' = <<>> /\ listed' = <<>>
      /\ turn' = [g \in Goroutines |-> NoTurn] /\ classifier' = "nil" /\ cut' = NoCut
      /\ scheduleFetch' = <<>> /\ requests' = {} /\ tick' = 0 /\ target' = None
      /\ caller' = [c \in Callers |-> None] /\ owed' = {}
  BY DEF End
<1>2. <<>> \in Seq(Tags) /\ ToSet(<<>>) = {} /\ Len(<<>>) = 0
  BY DEF ToSet
<1>3. ServerShape'
  BY <1>1, <1>2 DEF ServerShape, MainPoints, Turn, NoTurn, AtTag, NoCut
<1>4. TurnInv' /\ IdleInv' /\ CutInv'
  BY <1>1 DEF TurnInv, IdleInv, CutInv, NoTurn, AtTag, NoCut
<1>5. ReadyInv'
  BY <1>1, <1>2 DEF ReadyInv
<1>6. SchedulerInv'
  <2>1. scheduleFetch' \in Seq(Tags) /\ Len(scheduleFetch') <= Capacity /\ tick' \in 0 .. 1
    BY <1>1, <1>2, SchedulerAssumption
  <2>2. caller' \in [Callers -> Tags \cup {None}]
    BY <1>1
  <2>3. TypeOK'
    BY <1>1, <2>1, <2>2 DEF TypeOK
  <2>4. NoRequestLost'
    BY <1>1 DEF NoRequestLost
  <2> QED BY <2>3, <2>4 DEF SchedulerInv
<1> QED BY <1>3, <1>4, <1>5, <1>6 DEF ProcessInv

-----------------------------------------------------------------------------
(* initTag, by main and by the goroutine for the rest.                     *)

\* NextTag moves its own goroutine on, and at the end of the first tags starts the rest.
LEMMA NextTagMoves ==
    ASSUME ServerInv, NEW g \in {"main", "rest"}, turn[g].i # 0, NextTag(g)
    PROVE  /\ turn' \in [Goroutines -> Turn] /\ turn'["scheduler"] = turn["scheduler"]
           /\ g = "main" /\ turn["main"].i < First =>
                /\ main' = main /\ turn'["rest"] = turn["rest"]
                /\ turn'["main"] = AtTag(turn["main"].i + 1)
           /\ g = "main" /\ turn["main"].i = First =>
                /\ main' = "return" /\ turn'["main"] = NoTurn
                /\ turn'["rest"] = IF Len(tags) > First THEN AtTag(First + 1) ELSE turn["rest"]
           /\ g = "rest" =>
                /\ main' = main /\ turn'["main"] = turn["main"]
                /\ turn'["rest"] = IF turn["rest"].i < Len(tags)
                                   THEN AtTag(turn["rest"].i + 1) ELSE NoTurn
           /\ g = "main" => turn["main"].i \in 1 .. First
<1>1. turn \in [Goroutines -> Turn] /\ Len(tags) \in Nat
      /\ turn["main"].i \in Nat /\ turn["rest"].i \in Nat
  BY DEF ServerInv, ProcessInv, ServerShape, Turn
<1>2. NoTurn \in Turn /\ \A n \in Nat : AtTag(n) \in Turn
  BY DEF NoTurn, AtTag, Turn
<1>3. turn["main"].i <= First
  BY DEF ServerInv, ProcessInv, TurnInv
<1>4. CASE g = "main" /\ turn["main"].i < First
  <2>1. main' = main /\ turn' = [turn EXCEPT !["main"] = AtTag(turn["main"].i + 1)]
    BY <1>1, <1>4 DEF NextTag
  <2> QED BY <1>1, <1>2, <1>4, <2>1
<1>5. CASE g = "main" /\ turn["main"].i = First
  <2>1. CASE Len(tags) > First
    <3>1. /\ main' = "return"
          /\ turn' = [[turn EXCEPT !["main"] = NoTurn] EXCEPT !["rest"] = AtTag(First + 1)]
      BY <1>1, <1>5, <2>1 DEF NextTag
    <3> QED BY <1>1, <1>2, <1>5, <2>1, <3>1
  <2>2. CASE ~(Len(tags) > First)
    <3>1. main' = "return" /\ turn' = [turn EXCEPT !["main"] = NoTurn]
      BY <1>1, <1>5, <2>2 DEF NextTag
    <3> QED BY <1>1, <1>2, <1>5, <2>2, <3>1
  <2> QED BY <2>1, <2>2
<1>6. CASE g = "rest"
  <2>1. CASE turn["rest"].i < Len(tags)
    <3>1. main' = main /\ turn' = [turn EXCEPT !["rest"] = AtTag(turn["rest"].i + 1)]
      BY <1>1, <1>6, <2>1 DEF NextTag
    <3> QED BY <1>1, <1>2, <1>6, <2>1, <3>1
  <2>2. CASE ~(turn["rest"].i < Len(tags))
    <3>1. main' = main /\ turn' = [turn EXCEPT !["rest"] = NoTurn]
      BY <1>1, <1>6, <2>2 DEF NextTag
    <3> QED BY <1>1, <1>2, <1>6, <2>2, <3>1
  <2> QED BY <2>1, <2>2
<1> QED BY <1>1, <1>3, <1>4, <1>5, <1>6

\* Neither turns nor points differ for who is inside of thumbnail, and g is not.
LEMMA NextTagKeeps ==
    ASSUME ServerInv, NEW g \in {"main", "rest"}, turn[g].i # 0, NextTag(g),
           tags' = tags, classifier' = classifier,
           UNCHANGED <<requests, scheduleFetch, target, caller>>,
           cut'.who # None => cut' = cut /\ cut.who # g, cut' \in {cut, NoCut}
    PROVE  TurnInv' /\ IdleInv' /\ CutInv' /\ main' \in MainPoints
<1>1. /\ Len(tags) \in Nat /\ turn["rest"].i \in Nat /\ main \in MainPoints
      /\ cut.who \in Goroutines \cup {None} /\ NoCut.who = None
  BY DEF ServerInv, ProcessInv, ServerShape, Turn, NoCut
<1>2. NoTurn = AtTag(0) /\ \A n : AtTag(n).i = n /\ AtTag(n).at = "count"
  BY DEF NoTurn, AtTag
<1>3. CASE g = "main"
  <2>1. main = "pool" /\ turn["rest"].i = 0 /\ Len(tags) >= First
    BY <1>3 DEF ServerInv, ProcessInv, TurnInv
  <2>2. TurnInv'
    BY <1>1, <1>2, <1>3, <2>1, NextTagMoves DEF ServerInv, ProcessInv, TurnInv
  <2>3. main' \in {"pool", "return"} /\ turn'["scheduler"] = turn["scheduler"]
    BY <1>3, <2>1, NextTagMoves
  <2>4. IdleInv'
    BY <2>1, <2>3 DEF ServerInv, ProcessInv, IdleInv
  <2>5. cut.who # "rest"
    BY <2>1 DEF ServerInv, ProcessInv, TurnInv, CutInv
  <2>6. classifier # "nil"
    BY <2>1 DEF ServerInv, ProcessInv, CutInv
  <2>7. CutInv'
    BY <1>1, <1>3, <2>3, <2>5, <2>6 DEF ServerInv, ProcessInv, CutInv
  <2> QED BY <2>2, <2>3, <2>4, <2>7 DEF MainPoints
<1>4. CASE g = "rest"
  <2>1. /\ main' = main /\ turn'["main"] = turn["main"]
        /\ turn'["scheduler"] = turn["scheduler"]
    BY <1>4, NextTagMoves
  <2>2. TurnInv'
    BY <1>1, <1>2, <1>4, <2>1, NextTagMoves DEF ServerInv, ProcessInv, TurnInv
  <2>3. IdleInv'
    BY <2>1 DEF ServerInv, ProcessInv, IdleInv
  <2>4. CutInv'
    BY <1>1, <1>4, <2>1 DEF ServerInv, ProcessInv, CutInv
  <2> QED BY <1>1, <2>1, <2>2, <2>3, <2>4
<1> QED BY <1>3, <1>4

\* The goroutine goes on to the next tag once it has listed the last one, or, unless
\* it is main, given it up.
LEMMA NextTagReady ==
    ASSUME ServerInv, NEW g \in {"main", "rest"}, turn[g].i # 0, NextTag(g),
           tags' = tags, proc' = proc,
           ToSet(listed) \subseteq ToSet(listed'), gaveUp \subseteq gaveUp',
           listed' # <<>> => proc[Self].at = "up",
           \A t \in ToSet(listed') : Pool(t) \in db'.rows,
           TagOf(g) \in ToSet(listed') \/ (g = "rest" /\ TagOf(g) \in gaveUp')
    PROVE  ReadyInv'
<1>1. /\ Len(tags) \in Nat /\ turn["rest"].i \in Nat /\ turn["main"].i \in Nat
  BY DEF ServerInv, ProcessInv, ServerShape, Turn
<1>2. NoTurn = AtTag(0) /\ \A n : AtTag(n).i = n
  BY DEF NoTurn, AtTag
<1>3. CASE g = "main"
  <2>1. main = "pool" /\ turn["rest"].i = 0 /\ Len(tags) >= First
    BY <1>3 DEF ServerInv, ProcessInv, TurnInv
  <2>2. \A k \in 1 .. turn["main"].i : tags[k] \in ToSet(listed')
    <3> SUFFICES ASSUME NEW k \in 1 .. turn["main"].i PROVE tags[k] \in ToSet(listed')
      OBVIOUS
    <3>1. CASE k = turn["main"].i
      BY <1>3, <3>1 DEF TagOf
    <3>2. CASE k # turn["main"].i
      <4>1. k \in 1 .. turn["main"].i - 1
        BY <1>1, <3>2
      <4> QED BY <2>1, <4>1 DEF ServerInv, ProcessInv, ReadyInv
    <3> QED BY <3>1, <3>2
  <2>3. CASE turn["main"].i < First
    <3>1. main' = "pool" /\ turn'["main"].i = turn["main"].i + 1
      BY <1>2, <1>3, <2>1, <2>3, NextTagMoves
    <3> QED BY <1>1, <2>1, <2>2, <3>1 DEF ServerInv, ProcessInv, ReadyInv
  <2>4. CASE turn["main"].i = First
    <3>1. main' = "return" /\ turn'["rest"].i = IF Len(tags) > First THEN First + 1 ELSE 0
      BY <1>2, <1>3, <2>1, <2>4, NextTagMoves
    <3>2. \A k \in 1 .. Len(tags) :
              k < turn'["rest"].i \/ turn'["rest"].i = 0 => k \in 1 .. First
      BY <1>1, <2>1, <3>1
    <3> QED BY <2>1, <2>2, <2>4, <3>1, <3>2 DEF ServerInv, ProcessInv, ReadyInv
  <2> QED BY <1>1, <1>3, <2>3, <2>4, NextTagMoves
<1>4. CASE g = "rest"
  <2>1. /\ main' = main /\ main # "pool"
        /\ turn'["rest"] = IF turn["rest"].i < Len(tags)
                           THEN AtTag(turn["rest"].i + 1) ELSE NoTurn
    BY <1>4, NextTagMoves DEF ServerInv, ProcessInv, TurnInv
  <2>2. turn["rest"].i \in 1 .. Len(tags)
    BY <1>1, <1>4 DEF ServerInv, ProcessInv, TurnInv
  <2>3. \A k \in 1 .. Len(tags) :
            k < turn'["rest"].i \/ turn'["rest"].i = 0 => k <= turn["rest"].i
    BY <1>1, <1>2, <2>1, <2>2
  <2>4. ASSUME main \in {"return", "serving"}, NEW k \in 1 .. Len(tags), k <= turn["rest"].i
        PROVE  tags[k] \in ToSet(listed') \cup gaveUp'
    <3>1. CASE k = turn["rest"].i
      BY <1>4, <3>1 DEF TagOf
    <3>2. CASE k < turn["rest"].i
      BY <2>4, <3>2 DEF ServerInv, ProcessInv, ReadyInv
    <3> QED BY <1>1, <2>4, <3>1, <3>2
  <2> QED BY <2>1, <2>3, <2>4 DEF ServerInv, ProcessInv, ReadyInv
<1> QED BY <1>3, <1>4

\* A goroutine that initializes a tag is at one of the list.
LEMMA TagOfList ==
    ASSUME ServerInv, NEW g \in {"main", "rest"}, turn[g].i # 0
    PROVE  TagOf(g) \in Tags
<1>1. tags \in Seq(Tags) /\ Len(tags) \in Nat /\ turn[g].i \in Nat
  BY DEF ServerInv, ProcessInv, ServerShape, Turn
<1>2. turn[g].i \in 1 .. Len(tags)
  BY <1>1 DEF ServerInv, ProcessInv, TurnInv
<1> QED BY <1>1, <1>2 DEF TagOf

LEMMA TagReadyKeeps ==
    ASSUME ServerInv, NEW g \in {"main", "rest"}, TagReady(g)
    PROVE  ProcessInv'
<1>1. /\ turn[g].i # 0 /\ turn[g].at = "count" /\ proc[Self].at = "up"
      /\ Pool(TagOf(g)) \in db.rows /\ NextTag(g)
      /\ listed' = Append(listed, TagOf(g))
      /\ UNCHANGED <<tags, classifier, cut, requests, scheduleFetch, target, caller,
                     proc, db, gaveUp>>
  BY DEF TagReady, vars, storageVars, cutVars
<1>2. listed \in Seq(Tags) /\ TagOf(g) \in Tags
  BY <1>1, TagOfList DEF ServerInv, ProcessInv, ServerShape
<1>3. listed' \in Seq(Tags) /\ ToSet(listed') = ToSet(listed) \cup {TagOf(g)}
  BY <1>1, <1>2 DEF ToSet
<1>4. cut.who # g
  BY <1>1 DEF ServerInv, ProcessInv, CutInv
<1>5. TurnInv' /\ IdleInv' /\ CutInv' /\ main' \in MainPoints
  BY <1>1, <1>4, NextTagKeeps
<1>6. \A t \in ToSet(listed) : Pool(t) \in db.rows
  BY DEF ServerInv, ProcessInv, ReadyInv
<1>7. ReadyInv'
  BY <1>1, <1>3, <1>6, NextTagReady
<1>8. ServerShape'
  BY <1>1, <1>3, <1>5, NextTagMoves DEF ServerInv, ProcessInv, ServerShape
<1> QED BY <1>5, <1>7, <1>8 DEF ProcessInv

LEMMA TagFailsKeeps ==
    ASSUME ServerInv, NEW g \in {"main", "rest"}, TagFails(g)
    PROVE  ProcessInv'
<1>1. /\ turn[g].i # 0 /\ (turn[g].at = "thumbnail" => cut.who = g)
      /\ cut' = IF cut.who = g THEN NoCut ELSE cut
      /\ gaveUp' = gaveUp \cup {TagOf(g)}
      /\ UNCHANGED <<tags, listed, classifier, requests, scheduleFetch, target, caller,
                     proc, db>>
  BY DEF TagFails, ReleaseCut, vars, storageVars
<1>2. /\ NoCut \in [who : Goroutines \cup {None}, pointer : {"nil", "loaded"}]
      /\ NoCut.who = None /\ cut'.who # g
  BY <1>1 DEF NoCut
<1>3. CASE g = "rest"
  <2>1. NextTag(g)
    BY <1>3 DEF TagFails
  <2>2. TurnInv' /\ IdleInv' /\ CutInv' /\ main' \in MainPoints
    BY <1>1, <1>2, <2>1, NextTagKeeps
  <2>3. ReadyInv'
    <3>1. /\ \A t \in ToSet(listed) : Pool(t) \in db.rows
          /\ listed # <<>> => proc[Self].at = "up"
      BY DEF ServerInv, ProcessInv, ReadyInv
    <3> QED BY <1>1, <1>3, <2>1, <3>1, NextTagReady
  <2>4. ServerShape'
    BY <1>1, <1>2, <2>1, <2>2, NextTagMoves DEF ServerInv, ProcessInv, ServerShape
  <2> QED BY <2>2, <2>3, <2>4 DEF ProcessInv
<1>4. CASE g = "main"
  <2>1. /\ main' = "failed" /\ turn' = [turn EXCEPT !["main"] = NoTurn]
        /\ main = "pool" /\ turn["rest"].i = 0
    BY <1>1, <1>4 DEF TagFails, ServerInv, ProcessInv, TurnInv
  <2>2. NoTurn \in Turn /\ NoTurn.i = 0 /\ NoTurn.at = "count"
    BY DEF NoTurn, AtTag, Turn
  <2>3. /\ turn' \in [Goroutines -> Turn] /\ turn'["main"] = NoTurn
        /\ turn'["rest"] = turn["rest"] /\ turn'["scheduler"] = turn["scheduler"]
    BY <2>1, <2>2 DEF ServerInv, ProcessInv, ServerShape
  <2>4. ServerShape' /\ TurnInv' /\ IdleInv'
    BY <1>1, <1>2, <2>1, <2>2, <2>3
       DEF ServerInv, ProcessInv, ServerShape, TurnInv, IdleInv, MainPoints
  <2>5. cut'.who # None => cut' = cut /\ cut.who \in {"rest", "scheduler"}
    BY <1>1, <1>2, <1>4 DEF ServerInv, ProcessInv, ServerShape
  <2>6. CutInv'
    BY <1>1, <2>1, <2>3, <2>5 DEF ServerInv, ProcessInv, CutInv
  <2>7. ReadyInv'
    BY <1>1, <2>1 DEF ServerInv, ProcessInv, ReadyInv
  <2> QED BY <2>4, <2>6, <2>7 DEF ProcessInv
<1> QED BY <1>3, <1>4

\* A step that only moves the program point of a goroutine in a fetch, and perhaps
\* takes or releases classifierMu.
LEMMA TurnKeeps ==
    ASSUME ServerInv, [StorageNext]_storageVars, NEW g \in Goroutines,
           NEW point \in {"count", "fetch", "thumbnail"},
           turn' = [turn EXCEPT ![g].at = point],
           point # "count" => IF g = "scheduler" THEN target # None ELSE turn[g].i # 0,
           UNCHANGED <<main, tags, listed, gaveUp, classifier, proc,
                       requests, scheduleFetch, target, caller>>,
           cut' = (IF cut.who = g THEN NoCut ELSE cut)
    PROVE  ProcessInv'
<1>1. /\ turn \in [Goroutines -> Turn] /\ turn[g] \in Turn
      /\ cut \in [who : Goroutines \cup {None}, pointer : {"nil", "loaded"}]
  BY DEF ServerInv, ProcessInv, ServerShape
<1>2. /\ turn' \in [Goroutines -> Turn] /\ turn'[g].at = point
      /\ \A h \in Goroutines : turn'[h].i = turn[h].i
      /\ \A h \in Goroutines \ {g} : turn'[h] = turn[h]
  BY <1>1 DEF Turn
<1>3. /\ NoCut \in [who : Goroutines \cup {None}, pointer : {"nil", "loaded"}]
      /\ NoCut.who = None /\ cut'.who # g
  BY DEF NoCut
<1>4. ServerShape' /\ TurnInv' /\ IdleInv'
  BY <1>1, <1>2, <1>3 DEF ServerInv, ProcessInv, ServerShape, TurnInv, IdleInv
<1>5. CutInv'
  BY <1>1, <1>2, <1>3 DEF ServerInv, ProcessInv, CutInv
<1>6. ReadyInv'
  BY <1>2, ListedKept DEF ServerInv, ProcessInv, ReadyInv
<1> QED BY <1>4, <1>5, <1>6 DEF ProcessInv

LEMMA InitTagKeeps ==
    ASSUME ServerInv, [StorageNext]_storageVars, NEW g \in {"main", "rest"}, InitTag(g)
    PROVE  ProcessInv'
<1>1. CASE TagReady(g) \/ TagFails(g)
  BY <1>1, TagReadyKeeps, TagFailsKeeps
<1>2. CASE FetchForTag(g)
  <2>1. /\ turn[g].i # 0 /\ turn' = [turn EXCEPT ![g].at = "fetch"]
        /\ turn[g].at = "count"
        /\ UNCHANGED <<main, tags, listed, gaveUp, classifier, cut, proc,
                       requests, scheduleFetch, target, caller>>
    BY <1>2 DEF FetchForTag, vars, storageVars, cutVars
  <2>2. cut.who # g
    BY <2>1 DEF ServerInv, ProcessInv, CutInv
  <2> QED BY <2>1, <2>2, TurnKeeps
<1>3. CASE NothingFetched(g) \/ \E t \in Tags : ImageFetched(g, t)
  <2>1. /\ turn' = [turn EXCEPT ![g].at = "count"]
        /\ cut' = IF cut.who = g THEN NoCut ELSE cut
        /\ UNCHANGED <<main, tags, listed, gaveUp, classifier, proc,
                       requests, scheduleFetch, target, caller>>
    BY <1>3 DEF NothingFetched, ImageFetched, ReleaseCut, Write, vars, storageVars
  <2> QED BY <2>1, TurnKeeps
<1> QED BY <1>1, <1>2, <1>3 DEF InitTag, Matched

-----------------------------------------------------------------------------
(* The steps of fetch, and those beside main.                              *)
LEMMA DownloadedKeeps ==
    ASSUME ServerInv, [StorageNext]_storageVars, NEW g \in Goroutines, Downloaded(g)
    PROVE  ProcessInv'
<1>1. /\ turn' = [turn EXCEPT ![g].at = "thumbnail"] /\ turn[g].at # "thumbnail"
      /\ UNCHANGED <<main, tags, listed, gaveUp, classifier, cut, proc,
                     requests, scheduleFetch, target, caller>>
  BY DEF Downloaded, Fetching, vars, storageVars, cutVars
<1>2. IF g = "scheduler" THEN target # None ELSE turn[g].i # 0
  BY DEF Downloaded, Fetching, ServerInv, ProcessInv, TurnInv
<1>3. cut.who # g
  BY <1>1 DEF ServerInv, ProcessInv, CutInv
<1> QED BY <1>1, <1>2, <1>3, TurnKeeps

\* thumbnail takes the pointer that is there once it has the mutex.
LEMMA ThumbnailKeeps ==
    ASSUME ServerInv, [StorageNext]_storageVars, NEW g \in Goroutines, Thumbnail(g)
    PROVE  ProcessInv'
<1>1. /\ turn[g].at = "thumbnail" /\ cut' = [who |-> g, pointer |-> classifier]
      /\ UNCHANGED <<main, tags, listed, turn, gaveUp, classifier, proc,
                     requests, scheduleFetch, target, caller>>
  BY DEF Thumbnail, vars, storageVars, processVars
<1>2. ServerShape' /\ TurnInv' /\ IdleInv' /\ CutInv'
  BY <1>1 DEF ServerInv, ProcessInv, ServerShape, TurnInv, IdleInv, CutInv
<1>3. ReadyInv'
  BY <1>1, ListedKept DEF ServerInv, ProcessInv, ReadyInv
<1> QED BY <1>2, <1>3 DEF ProcessInv

\* A step of the scheduler, of a caller or of another process.
LEMMA BesideKeeps ==
    ASSUME ServerInv, [StorageNext]_storageVars,
           UNCHANGED <<main, tags, listed, turn, gaveUp, classifier, cut>>,
           proc'[Self] = proc[Self], IdleInv'
    PROVE  ProcessInv'
<1>1. ServerShape' /\ TurnInv' /\ CutInv'
  BY DEF ServerInv, ProcessInv, ServerShape, TurnInv, CutInv
<1>2. ReadyInv'
  BY ListedKept DEF ServerInv, ProcessInv, ReadyInv
<1> QED BY <1>1, <1>2 DEF ProcessInv

LEMMA SchedulerKeeps ==
    ASSUME ServerInv, [StorageNext]_storageVars,
           \/ Scheduler
           \/ \E c \in Callers : Request(c) \/ (Send(c) /\ Beside)
           \/ \E p \in Processes \ {Self} : OtherProcess(p)
    PROVE  ProcessInv'
<1>1. UNCHANGED <<main, tags, listed, turn, gaveUp, classifier, cut>>
  BY DEF Scheduler, Request, Beside, OtherProcess, processVars, cutVars
<1>2. proc'[Self] = proc[Self]
  <2>1. ASSUME NEW p \in Processes \ {Self}, OtherProcess(p) PROVE proc'[Self] = proc[Self]
    BY <2>1 DEF OtherProcess, StorageStep, OpenStep, Start, MkRoot, MkImages, ReadVersion,
          RunMigration, UpdateVersion, Commit, Fails, Write, Stop, Crash, GoTo,
          ServerInv, DatabaseInv, Shape
  <2> QED BY <2>1 DEF Scheduler, Request, Beside, storageVars
<1>3. IdleInv'
  <2>1. CASE Scheduler
    BY <1>1, <2>1 DEF Scheduler, Receive, Tick, NothingToFetch, FetchRandom, ServerInv,
          SchedulerInv, TypeOK, ProcessInv, IdleInv
  <2>2. ASSUME NEW c \in Callers, Request(c) \/ (Send(c) /\ Beside) PROVE IdleInv'
    BY <1>1, <2>2 DEF Request, NewCaptcha, Send, ServerInv, ProcessInv, IdleInv
  <2>3. ASSUME NEW p \in Processes \ {Self}, OtherProcess(p) PROVE IdleInv'
    BY <1>1, <2>3 DEF OtherProcess, vars, ServerInv, ProcessInv, IdleInv
  <2> QED BY <2>1, <2>2, <2>3
<1> QED BY <1>1, <1>2, <1>3, BesideKeeps

LEMMA SchedulerReturnsKeeps ==
    ASSUME ServerInv, [StorageNext]_storageVars, SchedulerReturns
    PROVE  ProcessInv'
<1>1. /\ turn' = [turn EXCEPT !["scheduler"] = NoTurn]
      /\ cut' = IF cut.who = "scheduler" THEN NoCut ELSE cut
      /\ target # None /\ target' = None /\ requests' = requests \ {target}
      /\ UNCHANGED <<main, tags, listed, gaveUp, classifier, scheduleFetch, caller>>
  BY DEF SchedulerReturns, FetchReturns, ReleaseCut
<1>2. proc' = proc
  BY DEF SchedulerReturns, Write, storageVars
<1>3. NoTurn \in Turn /\ NoTurn.i = 0 /\ NoTurn.at = "count"
  BY DEF NoTurn, AtTag, Turn
<1>4. /\ turn' \in [Goroutines -> Turn] /\ turn'["scheduler"] = NoTurn
      /\ turn'["main"] = turn["main"] /\ turn'["rest"] = turn["rest"]
  BY <1>1, <1>3 DEF ServerInv, ProcessInv, ServerShape
<1>5. /\ NoCut \in [who : Goroutines \cup {None}, pointer : {"nil", "loaded"}]
      /\ NoCut.who = None /\ cut'.who # "scheduler"
  BY <1>1 DEF NoCut
<1>6. ServerShape' /\ TurnInv' /\ IdleInv'
  BY <1>1, <1>3, <1>4, <1>5 DEF ServerInv, ProcessInv, ServerShape, TurnInv, IdleInv
<1>7. cut'.who # None => cut' = cut /\ cut.who \in {"main", "rest"}
  BY <1>1, <1>5 DEF ServerInv, ProcessInv, ServerShape
<1>8. CutInv'
  BY <1>1, <1>4, <1>7 DEF ServerInv, ProcessInv, CutInv
<1>9. ReadyInv'
  BY <1>1, <1>2, <1>4, ListedKept DEF ServerInv, ProcessInv, ReadyInv
<1> QED BY <1>6, <1>8, <1>9 DEF ProcessInv

-----------------------------------------------------------------------------
LEMMA NextServer == ServerInv /\ [ServerNext]_serverVars => ServerInv'
<1> SUFFICES ASSUME ServerInv, [ServerNext]_serverVars PROVE ServerInv'
  OBVIOUS
<1>1. [StorageNext]_storageVars /\ DatabaseInv'
  BY StorageSteps, NextDatabase DEF ServerInv
<1>2. SchedulerInv'
  <2>1. [Next]_vars \/ End
    BY SchedulerSteps DEF ServerInv, ProcessInv, ServerShape
  <2>2. CASE [Next]_vars
    BY <2>2, NextTypeOK, NextLost DEF ServerInv, SchedulerInv
  <2> QED BY <2>1, <2>2, EndKeeps
<1>3. ProcessInv'
  <2>1. CASE UNCHANGED serverVars
    BY <2>1 DEF serverVars, processVars, cutVars, vars, storageVars, ServerInv, ProcessInv,
          ServerShape, TurnInv, IdleInv, CutInv, ReadyInv
  <2>2. CASE Main
    BY <1>1, <2>2, StartProcessKeeps, OpenGoesOnKeeps, MainKeeps, InitClassifierKeeps,
       EndKeeps DEF Main, Exit, Kill
  <2>3. CASE ServerNext /\ ~Main
    BY <1>1, <2>3, InitTagKeeps, DownloadedKeeps, ThumbnailKeeps, SchedulerKeeps,
       SchedulerReturnsKeeps DEF ServerNext
  <2> QED BY <2>1, <2>2, <2>3
<1> QED BY <1>1, <1>2, <1>3 DEF ServerInv

THEOREM ServerInvariance == ServerSpec => []ServerInv
BY InitServer, NextServer, PTL DEF ServerSpec

\* Captchas are made for full pools only, for any lists of tags: nothing that another
\* process does to the database, of whatever release, empties a pool in use.
THEOREM PoolsServed == ServerSpec => []ServesReadyTags
<1>1. ServerInv => ServesReadyTags
  BY DEF ServerInv, ProcessInv, ReadyInv, ServesReadyTags
<1> QED BY <1>1, ServerInvariance, PTL

\* Each tag after the first ones is listed or has failed when their goroutine ends.
THEOREM RestIsTried == ServerSpec => []RestTried
<1>1. ServerInv => RestTried
  <2> SUFFICES ASSUME ServerInv, main = "serving", turn["rest"].i = 0
               PROVE  ToSet(tags) \subseteq ToSet(listed) \cup gaveUp
    BY DEF RestTried
  <2>1. tags \in Seq(Tags) /\ DOMAIN tags = 1 .. Len(tags)
    BY DEF ServerInv, ProcessInv, ServerShape
  <2>2. \A k \in 1 .. Len(tags) : tags[k] \in ToSet(listed) \cup gaveUp
    BY DEF ServerInv, ProcessInv, ReadyInv
  <2>3. ToSet(tags) = {tags[k] : k \in 1 .. Len(tags)}
    BY <2>1 DEF ToSet
  <2> QED BY <2>2, <2>3
<1> QED BY <1>1, ServerInvariance, PTL

\* Whoever is inside of thumbnail works on the classifier that is loaded, until Close.
THEOREM ClassifierInUse == ServerSpec => []ClassifierUsable
<1>1. ServerInv => ClassifierUsable
  <2> SUFFICES ASSUME ServerInv, cut.who # None
               PROVE  /\ cut.pointer = classifier
                      /\ cut.pointer = "nil" => main = "closed"
    BY DEF ClassifierUsable
  <2>1. cut.who \in Goroutines /\ turn[cut.who].at = "thumbnail" /\ cut.pointer = classifier
    BY DEF ServerInv, ProcessInv, ServerShape, CutInv
  <2>2. ASSUME classifier = "nil", main # "closed" PROVE FALSE
    <3>1. main \in {"off", "open", "classifier", "failed"} /\ turn["rest"].i = 0
      BY <2>2 DEF ServerInv, ProcessInv, CutInv
    <3>2. \A g \in Goroutines : turn[g].at = "count"
      BY <3>1 DEF ServerInv, ProcessInv, TurnInv, IdleInv
    <3> QED BY <2>1, <3>2
  <2> QED BY <2>1, <2>2
<1> QED BY <1>1, ServerInvariance, PTL

\* A request of a captcha is fetched or still to be fetched, in every process, also
\* after one was killed.
THEOREM ServerKeepsRequests == ServerSpec => []NoRequestLost
<1>1. ServerInv => NoRequestLost
  BY DEF ServerInv, SchedulerInv
<1> QED BY <1>1, ServerInvariance, PTL

\* What is proved of the storage holds of the server, with its other processes.
THEOREM ServerKeepsStorage ==
    ServerSpec => [](SchemaMatches /\ ImagesDir) /\ ImplementsReleases
BY ServerUsesStorage, SchemaAlwaysMatches, ThumbnailsHaveADirectory, UpgradesInTurn, PTL
=============================================================================
