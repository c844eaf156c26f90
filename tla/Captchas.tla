------------------------------ MODULE Captchas ------------------------------
(***************************************************************************)
(* The captcha table of db/captchas.go and the processes that use it: the  *)
(* request handlers of service.go (GET /, POST /, POST /status), and the   *)
(* upkeep goroutine of db/upkeep.go.  They are serialized by dbMu; a       *)
(* handler may hold it across the steps of a transaction, any SQL          *)
(* statement may fail, and the process may crash between any two steps.    *)
(*                                                                         *)
(* Every operation on this table takes dbMu for writing, so the lock is a  *)
(* mutex here.  The choice of the images shown by a captcha is not part of *)
(* this module: whether a submitted solution is right is left open.        *)
(***************************************************************************)
EXTENDS Integers

CONSTANTS
    Ids,          \* the captcha IDs that may be drawn; bounds the captchas
    Handlers,     \* goroutines of the HTTP server, one request at a time
    Upkeep,       \* the goroutine started by runUpkeepTasks
    Free,         \* value of dbMu when nobody holds it
    NoId,         \* a handler that works on no captcha
    ExpiryTime,   \* expiryTime, in minutes
    MaxCrashes    \* bound on the crashes of the process

ASSUME CaptchasAssumption ==
    /\ ExpiryTime \in Nat
    /\ MaxCrashes \in Nat
    /\ Upkeep \notin Handlers
    /\ Free \notin Handlers \cup {Upkeep}
    /\ NoId \notin Ids

VARIABLES
    status,    \* committed column "status" of table captchas, or "absent"
    age,       \* minutes since column "created"
    dbMu,      \* holder of dbMu
    th,        \* th[h]: program point and locals of handler h
    upkeep,    \* program point of the upkeep goroutine
    ticks,     \* which of the channels of runUpkeepTasks hold a tick
    crashes    \* crashes so far

\* History variables: no action of the code depends on them.
VARIABLES
    fate,      \* what became of each captcha
    passed,    \* captchas whose row was committed as solved
    acks,      \* answers to POST / that returned the ID as solved
    grants     \* answers "true" to POST /status

history == <<passed, acks, grants>>
rowVars == <<status, age, fate>>
vars == <<status, age, dbMu, th, upkeep, ticks, crashes,
          fate, passed, acks, grants>>

-----------------------------------------------------------------------------
Status == {"absent", "unsolved", "solved", "failed"}
Fate == {"unissued", "live", "redeemed", "expired"}
Holders == Handlers \cup {Upkeep, Free}

\* Program points of a handler.  At the points in Critical it holds dbMu.
Critical == {"insert", "select", "commit", "delete"}
Point == Critical \cup {"idle", "new", "check", "ack", "status", "grant"}
Thread == [at : Point, id : Ids \cup {NoId}, verdict : {"none", "solved", "failed"}]
UpkeepPoint == {"idle", "wantSweep", "sweep", "wantVacuum", "vacuum"}

Idle == [at |-> "idle", id |-> NoId, verdict |-> "none"]
At(point, i) == [at |-> point, id |-> i, verdict |-> "none"]

TypeOK ==
    /\ status \in [Ids -> Status]
    /\ age \in [Ids -> 0..(ExpiryTime + 1)]
    /\ dbMu \in Holders
    /\ th \in [Handlers -> Thread]
    /\ upkeep \in UpkeepPoint
    /\ ticks \subseteq {"min", "hour"}
    /\ crashes \in 0..MaxCrashes
    /\ fate \in [Ids -> Fate]
    /\ passed \subseteq Ids
    /\ acks \in [Ids -> Nat]
    /\ grants \in [Ids -> Nat]

Init ==
    /\ status = [i \in Ids |-> "absent"]
    /\ age = [i \in Ids |-> 0]
    /\ dbMu = Free
    /\ th = [h \in Handlers |-> Idle]
    /\ upkeep = "idle"
    /\ ticks = {}
    /\ crashes = 0
    /\ fate = [i \in Ids |-> "unissued"]
    /\ passed = {}
    /\ acks = [i \in Ids |-> 0]
    /\ grants = [i \in Ids |-> 0]

-----------------------------------------------------------------------------
(* dbMu.Lock and dbMu.Unlock of package sync.                              *)
LockUnheld(p) == dbMu' = p           \* mutant: the lock does not exclude
Lock(p) == dbMu = Free /\ dbMu' = p
Unlock == dbMu' = Free

\* Handler h goes on at t, and holds no lock.
GoOn(h, t) == th' = [th EXCEPT ![h] = t]

\* h is at "from", takes dbMu and goes on at "to" with the same locals.
Acquire(h, from, to) ==
    /\ th[h].at = from
    /\ Lock(h)
    /\ GoOn(h, [th[h] EXCEPT !.at = to])
    /\ UNCHANGED <<rowVars, history, upkeep, ticks, crashes>>

\* A handler idles, and a request that leads to "point" for captcha i arrives.
Arrive(h, point, i) ==
    /\ th[h] = Idle
    /\ GoOn(h, At(point, i))
    /\ UNCHANGED <<rowVars, history, dbMu, upkeep, ticks, crashes>>

-----------------------------------------------------------------------------
(* GET /: NewCaptcha, then the insert at the end of GenerateCaptcha.  The  *)
(* ID is 64 random bytes: one that was never drawn before.                 *)
RequestCaptcha(h) == Arrive(h, "new", NoId)

LockInsert(h) == Acquire(h, "new", "insert")

Insert(h) ==
    /\ th[h].at = "insert"
    /\ \E i \in Ids :
        /\ fate[i] = "unissued"
        /\ status' = [status EXCEPT ![i] = "unsolved"]
        /\ age' = [age EXCEPT ![i] = 0]
        /\ fate' = [fate EXCEPT ![i] = "live"]
    /\ Unlock
    /\ GoOn(h, Idle)
    /\ UNCHANGED <<history, upkeep, ticks, crashes>>

-----------------------------------------------------------------------------
(* POST /: ServeCheckCaptcha and CheckSolution.  A captcha that is not     *)
(* solved by this request (wrong, unknown, expired or already graded) is   *)
(* answered with a new captcha.                                            *)
SubmitSolution(h, i) == Arrive(h, "check", i)

LockCheck(h) == Acquire(h, "check", "select")

\* select solution from captchas where id = ? and status = 0
GradableAny(i) == status[i] # "absent"      \* mutant: "and status = 0" missing
Gradable(i) == status[i] = "unsolved"

\* Mutant: the early return forgets to release dbMu.
SelectMissingLocked(h) ==
    /\ th[h].at = "select"
    /\ ~Gradable(th[h].id)
    /\ GoOn(h, At("new", NoId))
    /\ UNCHANGED <<rowVars, history, dbMu, upkeep, ticks, crashes>>

SelectMissing(h) ==
    /\ th[h].at = "select"
    /\ ~Gradable(th[h].id)
    /\ Unlock
    /\ GoOn(h, At("new", NoId))
    /\ UNCHANGED <<rowVars, history, upkeep, ticks, crashes>>

\* The row is read and the solution graded; the transaction goes on to the update.
Select(h) ==
    /\ th[h].at = "select"
    /\ Gradable(th[h].id)
    /\ \E verdict \in {"solved", "failed"} :
        GoOn(h, [At("commit", th[h].id) EXCEPT !.verdict = verdict])
    /\ UNCHANGED <<rowVars, history, dbMu, upkeep, ticks, crashes>>

\* The update of the row and the commit: visible at once, or not at all.
Commit(h) ==
    LET i == th[h].id
        verdict == th[h].verdict
    IN  /\ th[h].at = "commit"
        /\ status' = [status EXCEPT
                ![i] = IF @ = "absent" THEN @ ELSE verdict]
        /\ passed' = IF verdict = "solved" /\ status[i] # "absent"
                     THEN passed \cup {i} ELSE passed
        /\ Unlock
        /\ GoOn(h, IF verdict = "solved" THEN At("ack", i) ELSE At("new", NoId))
        /\ UNCHANGED <<age, fate, acks, grants, upkeep, ticks, crashes>>

\* The response that returns the ID to the client.
Ack(h) ==
    /\ th[h].at = "ack"
    /\ acks' = [acks EXCEPT ![th[h].id] = @ + 1]
    /\ GoOn(h, Idle)
    /\ UNCHANGED <<rowVars, passed, grants, dbMu, upkeep, ticks, crashes>>

-----------------------------------------------------------------------------
(* POST /status: ServeStatus and IsSolved.                                 *)
AskStatus(h, i) == Arrive(h, "status", i)

LockStatus(h) == Acquire(h, "status", "delete")

\* delete from captchas where id = ? and status = 1
RemoveKept(i) == UNCHANGED <<status, fate>>  \* mutant: the row stays
Remove(i) ==
    /\ status' = [status EXCEPT ![i] = "absent"]
    /\ fate' = [fate EXCEPT ![i] = "redeemed"]

DeleteSolved(h) ==
    LET i == th[h].id
    IN  /\ th[h].at = "delete"
        /\ Unlock
        /\ \/ /\ status[i] = "solved"
              /\ Remove(i)
              /\ GoOn(h, At("grant", i))
           \/ /\ status[i] # "solved"
              /\ GoOn(h, Idle)
              /\ UNCHANGED <<status, fate>>
        /\ UNCHANGED <<age, history, upkeep, ticks, crashes>>

\* The response "true".
Grant(h) ==
    /\ th[h].at = "grant"
    /\ grants' = [grants EXCEPT ![th[h].id] = @ + 1]
    /\ GoOn(h, Idle)
    /\ UNCHANGED <<rowVars, passed, acks, dbMu, upkeep, ticks, crashes>>

-----------------------------------------------------------------------------
(* A statement or the commit fails: the transaction is rolled back, dbMu   *)
(* is released by the deferred Unlock, and the request is answered 500.    *)
SqlErrorIgnored(h) ==      \* mutant: the error of the commit is dropped
    /\ th[h].at \in Critical
    /\ Unlock
    /\ GoOn(h, IF th[h].verdict = "solved" THEN At("ack", th[h].id) ELSE Idle)
    /\ UNCHANGED <<rowVars, history, upkeep, ticks, crashes>>

SqlError(h) ==
    /\ th[h].at \in Critical
    /\ Unlock
    /\ GoOn(h, Idle)
    /\ UNCHANGED <<rowVars, history, upkeep, ticks, crashes>>

-----------------------------------------------------------------------------
(* runUpkeepTasks.  A ticker drops a tick that finds its channel full.     *)
Older(i) == IF age[i] > ExpiryTime THEN age[i] ELSE age[i] + 1

Tick ==
    /\ age' = [i \in Ids |-> IF status[i] = "absent" THEN age[i] ELSE Older(i)]
    /\ ticks' \in {ticks \cup {"min"}, ticks \cup {"min", "hour"}}
    /\ UNCHANGED <<status, fate, history, dbMu, th, upkeep, crashes>>

UpkeepStep(from, to) ==
    /\ upkeep = from
    /\ upkeep' = to
    /\ UNCHANGED <<age, history, th, crashes>>

Receive(tick, to) ==
    /\ UpkeepStep("idle", to)
    /\ tick \in ticks
    /\ ticks' = ticks \ {tick}
    /\ UNCHANGED <<status, fate, dbMu>>

WakeSweep == Receive("min", "wantSweep")
WakeVacuum == Receive("hour", "wantVacuum")

LockUpkeep ==
    /\ \/ UpkeepStep("wantSweep", "sweep")
       \/ UpkeepStep("wantVacuum", "vacuum")
    /\ Lock(Upkeep)
    /\ UNCHANGED <<status, fate, ticks>>

\* delete from captchas where created < now - expiryTime
StaleEarly(i) == status[i] # "absent" /\ age[i] >= ExpiryTime   \* mutant
StaleUngraded(i) == status[i] = "unsolved" /\ age[i] > ExpiryTime  \* mutant
Stale(i) == status[i] # "absent" /\ age[i] > ExpiryTime

\* deleteStaleCaptchas
Sweep ==
    /\ UpkeepStep("sweep", "idle")
    /\ status' = [i \in Ids |-> IF Stale(i) THEN "absent" ELSE status[i]]
    /\ fate' = [i \in Ids |-> IF Stale(i) THEN "expired" ELSE fate[i]]
    /\ Unlock
    /\ UNCHANGED ticks

\* vacuum, and a failing sweep or vacuum, leave the rows as they are.
UpkeepNoChange ==
    /\ UpkeepStep("sweep", "idle") \/ UpkeepStep("vacuum", "idle")
    /\ Unlock
    /\ UNCHANGED <<status, fate, ticks>>

-----------------------------------------------------------------------------
(* The process dies and is started again: only committed rows survive.     *)
Crash ==
    /\ crashes < MaxCrashes
    /\ crashes' = crashes + 1
    /\ dbMu' = Free
    /\ th' = [h \in Handlers |-> Idle]
    /\ upkeep' = "idle"
    /\ ticks' = {}
    /\ UNCHANGED <<rowVars, history>>

-----------------------------------------------------------------------------
Request(h) ==
    \/ RequestCaptcha(h)
    \/ \E i \in Ids : SubmitSolution(h, i) \/ AskStatus(h, i)

Acquisition(h) == LockInsert(h) \/ LockCheck(h) \/ LockStatus(h)

Work(h) ==
    \/ Insert(h) \/ SelectMissing(h) \/ Select(h) \/ Commit(h) \/ Ack(h)
    \/ DeleteSolved(h) \/ Grant(h) \/ SqlError(h)

UpkeepRun == WakeSweep \/ WakeVacuum \/ LockUpkeep \/ Sweep \/ UpkeepNoChange

Next ==
    \/ \E h \in Handlers : Request(h) \/ Acquisition(h) \/ Work(h)
    \/ UpkeepRun
    \/ Tick
    \/ Crash

Spec == Init /\ [][Next]_vars

(***************************************************************************)
(* Fairness.  Running goroutines go on (WF); a goroutine blocked in        *)
(* dbMu.Lock gets the lock if it is released again and again (SF, the      *)
(* starvation mode of sync.Mutex); the select of the upkeep goroutine      *)
(* picks each ready channel at last (SF, the choice is random); sweeps do  *)
(* not fail for ever (SF); time goes on.  Clients owe nothing.             *)
(***************************************************************************)
Fairness ==
    /\ \A h \in Handlers : SF_vars(Acquisition(h)) /\ WF_vars(Work(h))
    /\ SF_vars(WakeSweep) /\ SF_vars(LockUpkeep) /\ SF_vars(Sweep)
    /\ WF_vars(UpkeepNoChange)
    /\ WF_vars(Tick)

FairSpec == Spec /\ Fairness

-----------------------------------------------------------------------------
(* Properties.                                                             *)

\* A captcha buys one thing once: however the handlers interleave, fail and
\* crash, at most one POST / returns its ID as solved, at most one POST
\* /status answers "true", and the latter only for a captcha that was graded
\* as solved (CheckSolution, IsSolved).
AnswersAtMostOnce ==
    \A i \in Ids :
        /\ acks[i] <= 1
        /\ grants[i] <= 1
        /\ grants[i] = 1 => i \in passed

\* Once a client was told that its captcha is solved, no rollback, failed
\* commit or crash takes that back: the row says so until it is redeemed or
\* expires (the order of commit and response in CheckSolution and
\* ServeCheckCaptcha).
AckedIsDurable ==
    \A i \in Ids : acks[i] > 0 =>
        /\ i \in passed
        /\ status[i] = "solved" \/ fate[i] \in {"redeemed", "expired"}

\* What CheckSolution read at its select still holds when it updates the row:
\* the row is there and nobody else has graded it in between.
GradeNotStale ==
    \A h \in Handlers : th[h].at = "commit" => status[th[h].id] = "unsolved"

\* The first verdict is final: a graded row is never graded again, and an ID
\* that left the table never comes back (CheckSolution, GenerateCaptcha).
VerdictFinal ==
    [][\A i \in Ids :
        /\ status[i] \in {"solved", "failed"} => status'[i] \in {status[i], "absent"}
        /\ fate[i] \in {"redeemed", "expired"} => status'[i] = "absent"]_vars

\* No captcha is lost early: a row leaves the table only by its redemption or
\* after the full ExpiryTime (IsSolved, deleteStaleCaptchas).
NoEarlyLoss ==
    [][\A i \in Ids :
        status[i] # "absent" /\ status'[i] = "absent" =>
            \/ status[i] = "solved" /\ fate'[i] = "redeemed"
            \/ age[i] > ExpiryTime /\ fate'[i] = "expired"]_vars

\* The table, its lock and its transactions implement the token of module
\* CaptchaToken: issued, graded once, told once, redeemed once.
Stage(i) ==
    IF fate[i] # "live" THEN fate[i]
    ELSE IF status[i] = "unsolved" THEN "open" ELSE status[i]

Token == INSTANCE CaptchaToken WITH token <- [i \in Ids |-> Stage(i)]

ImplementsToken == Token!Spec

\* Every request is answered: no handler waits for dbMu for ever.
RequestsAnswered ==
    \A h \in Handlers : th[h].at # "idle" ~> th[h].at = "idle"

\* Every captcha leaves the table at last, solved or not: the upkeep
\* goroutine is never locked out by the handlers.
CaptchasGo == \A i \in Ids : fate[i] = "live" ~> fate[i] # "live"

-----------------------------------------------------------------------------
(* The inductive invariant: why the properties above hold.                 *)

\* dbMu is held by whoever is at a program point between Lock and Unlock.
LockInv ==
    /\ \A h \in Handlers : th[h].at \in Critical <=> dbMu = h
    /\ upkeep \in {"sweep", "vacuum"} <=> dbMu = Upkeep

\* The rows, against what has become of the captchas.
RowInv ==
    \A i \in Ids :
        /\ status[i] # "absent" <=> fate[i] = "live"
        /\ status[i] = "solved" \/ fate[i] = "redeemed" => i \in passed
        /\ i \in passed => fate[i] # "unissued"
        /\ i \in passed /\ fate[i] = "live" => status[i] = "solved"

\* A handler that is about to answer holds the only right to do so.
OnlyOneAt(point) ==
    \A g, h \in Handlers :
        th[g].at = point /\ th[h].at = point /\ th[g].id = th[h].id => g = h

AnswerInv ==
    /\ OnlyOneAt("ack") /\ OnlyOneAt("grant")
    /\ \A h \in Handlers :
        /\ th[h].at \notin {"idle", "new", "insert"} => th[h].id \in Ids
        /\ th[h].at = "commit" => th[h].verdict \in {"solved", "failed"}
        /\ th[h].at = "ack" => th[h].id \in passed /\ acks[th[h].id] = 0
        /\ th[h].at = "grant" =>
            fate[th[h].id] = "redeemed" /\ grants[th[h].id] = 0
    /\ \A i \in Ids :
        /\ acks[i] <= 1 /\ grants[i] <= 1
        /\ acks[i] > 0 => i \in passed
        /\ grants[i] > 0 => fate[i] = "redeemed"

\* Why no answer is given twice and no verdict is lost: the lock is held where
\* it should be, the row agrees with the captcha's history, and each handler
\* about to answer is the only one for its captcha.
IInv == TypeOK /\ LockInv /\ RowInv /\ AnswerInv /\ GradeNotStale
=============================================================================
