--------------------------- MODULE CaptchasProofs ---------------------------
(***************************************************************************)
(* Theorems about module Captchas, for any number of captchas, handlers    *)
(* and crashes and any expiry time.  The inductive invariant is IInv of    *)
(* module Captchas.                                                        *)
(***************************************************************************)
EXTENDS Captchas, TLAPS

USE CaptchasAssumption DEF CaptchasAssumption

\* IInv holds initially.
LEMMA InitInv == Init => IInv
<1> SUFFICES ASSUME Init PROVE IInv
  OBVIOUS
<1> USE DEF Init, Idle, Critical
<1>1. TypeOK
  BY DEF TypeOK, Status, Fate, Holders, Point, Thread, UpkeepPoint
<1>2. LockInv /\ RowInv /\ GradeNotStale
  BY DEF LockInv, RowInv, GradeNotStale
<1>3. AnswerInv
  BY DEF AnswerInv, OnlyOneAt
<1> QED BY <1>1, <1>2, <1>3 DEF IInv

\* A handler that arrives, or takes dbMu, keeps IInv.
LEMMA ArriveInv ==
    ASSUME IInv, NEW h \in Handlers, NEW point \in {"new", "check", "status"},
           NEW i \in Ids \cup {NoId}, point # "new" => i \in Ids,
           Arrive(h, point, i)
    PROVE  IInv'
<1> USE DEF IInv, Arrive, GoOn, At, Idle, rowVars, history
<1>1. TypeOK'
  BY DEF TypeOK, Thread, Point, Critical
<1>2. LockInv'
  BY DEF LockInv, TypeOK, Critical
<1>3. RowInv'
  BY DEF RowInv
<1>4. AnswerInv'
  BY DEF AnswerInv, OnlyOneAt, TypeOK
<1>5. GradeNotStale'
  BY DEF GradeNotStale, TypeOK
<1> QED BY <1>1, <1>2, <1>3, <1>4, <1>5

LEMMA AcquireInv ==
    ASSUME IInv, NEW h \in Handlers,
           NEW from \in {"new", "check", "status"},
           NEW to \in {"insert", "select", "delete"},
           to # "insert" => from # "new",
           Acquire(h, from, to)
    PROVE  IInv'
<1> USE DEF IInv, Acquire, GoOn, Lock, rowVars, history
<1>1. TypeOK'
  BY DEF TypeOK, Thread, Point, Critical, Holders
<1>2. LockInv'
  BY DEF LockInv, TypeOK, Critical, Thread, Holders
<1>3. RowInv'
  BY DEF RowInv
<1>4. AnswerInv'
  BY DEF AnswerInv, OnlyOneAt, TypeOK, Thread
<1>5. GradeNotStale'
  BY DEF GradeNotStale, TypeOK, Thread
<1> QED BY <1>1, <1>2, <1>3, <1>4, <1>5

-----------------------------------------------------------------------------
(* One lemma per step of a handler.  A step taken while holding dbMu finds *)
(* no other handler at a point of Critical, so that the rows it changes    *)
(* are not the ones another handler has selected.                          *)

\* A new row is about a captcha nobody has graded or answered for.
LEMMA InsertInv ==
    ASSUME IInv, NEW h \in Handlers, Insert(h)
    PROVE  IInv'
<1> USE DEF IInv, Insert, GoOn, Unlock, Idle, history
<1>1. TypeOK'
  BY DEF TypeOK, Thread, Point, Critical, Holders, Status, Fate
<1>2. LockInv'
  BY DEF LockInv, TypeOK, Critical, Thread, Holders
<1>3. RowInv'
  BY DEF RowInv, TypeOK
<1>4. AnswerInv'
  BY DEF AnswerInv, OnlyOneAt, TypeOK, Thread, RowInv
<1>5. GradeNotStale'
  BY DEF GradeNotStale, TypeOK, Thread, LockInv, AnswerInv, RowInv, Critical
<1> QED BY <1>1, <1>2, <1>3, <1>4, <1>5

\* A submission for a captcha that cannot be graded changes no row.
LEMMA SelectMissingInv ==
    ASSUME IInv, NEW h \in Handlers, SelectMissing(h)
    PROVE  IInv'
<1> USE DEF IInv, SelectMissing, GoOn, Unlock, At, rowVars, history
<1>1. TypeOK'
  BY DEF TypeOK, Thread, Point, Critical, Holders
<1>2. LockInv'
  BY DEF LockInv, TypeOK, Critical, Thread, Holders
<1>3. RowInv'
  BY DEF RowInv, TypeOK
<1>4. AnswerInv'
  BY DEF AnswerInv, OnlyOneAt, TypeOK, Thread
<1>5. GradeNotStale'
  BY DEF GradeNotStale, TypeOK, Thread
<1> QED BY <1>1, <1>2, <1>3, <1>4, <1>5

\* The row read by the select is unsolved when the handler goes on.
LEMMA SelectInv ==
    ASSUME IInv, NEW h \in Handlers, Select(h)
    PROVE  IInv'
<1> USE DEF IInv, Select, At, GoOn, Unlock, Gradable, rowVars, history
<1>1. TypeOK'
  BY DEF TypeOK, Thread, Point, Critical, Holders
<1>2. LockInv'
  BY DEF LockInv, TypeOK, Critical, Thread, Holders
<1>3. RowInv'
  BY DEF RowInv, TypeOK
<1>4. AnswerInv'
  BY DEF AnswerInv, OnlyOneAt, TypeOK, Thread, RowInv
<1>5. GradeNotStale'
  BY DEF GradeNotStale, TypeOK, Thread
<1> QED BY <1>1, <1>2, <1>3, <1>4, <1>5

\* The verdict is committed on a row that is still unsolved.
LEMMA CommitInv ==
    ASSUME IInv, NEW h \in Handlers, Commit(h)
    PROVE  IInv'
<1> USE DEF IInv, Commit, GoOn, Unlock, At, history
<1>1. TypeOK'
  BY DEF TypeOK, Thread, Point, Critical, Holders, Status, Fate, AnswerInv
<1>2. LockInv'
  BY DEF LockInv, TypeOK, Critical, Thread, Holders
<1>3. RowInv'
  BY DEF RowInv, TypeOK, GradeNotStale, AnswerInv, Thread
<1>4. AnswerInv'
  BY DEF AnswerInv, OnlyOneAt, TypeOK, Thread, GradeNotStale, RowInv
<1>5. GradeNotStale'
  BY DEF GradeNotStale, TypeOK, Thread, LockInv, AnswerInv, RowInv, Critical
<1> QED BY <1>1, <1>2, <1>3, <1>4, <1>5

\* The only handler entitled to report the captcha as solved does so.
LEMMA AckInv ==
    ASSUME IInv, NEW h \in Handlers, Ack(h)
    PROVE  IInv'
<1> USE DEF IInv, Ack, GoOn, Unlock, Idle, rowVars, history
<1>1. TypeOK'
  BY DEF TypeOK, Thread, Point, Critical, Holders, AnswerInv
<1>2. LockInv'
  BY DEF LockInv, TypeOK, Critical, Thread, Holders
<1>3. RowInv'
  BY DEF RowInv, TypeOK
<1>4. AnswerInv'
  BY DEF AnswerInv, OnlyOneAt, TypeOK, Thread
<1>5. GradeNotStale'
  BY DEF GradeNotStale, TypeOK, Thread
<1> QED BY <1>1, <1>2, <1>3, <1>4, <1>5

\* A redeemed captcha gets its only handler that will answer "true".
LEMMA DeleteSolvedInv ==
    ASSUME IInv, NEW h \in Handlers, DeleteSolved(h)
    PROVE  IInv'
<1> USE DEF IInv, DeleteSolved, GoOn, Unlock, Idle, At, Remove, history
<1>1. TypeOK'
  BY DEF TypeOK, Thread, Point, Critical, Holders, Status, Fate, AnswerInv
<1>2. LockInv'
  BY DEF LockInv, TypeOK, Critical, Thread, Holders
<1>3. RowInv'
  BY DEF RowInv, TypeOK, AnswerInv, Thread
<1>4. AnswerInv'
  BY DEF AnswerInv, OnlyOneAt, TypeOK, Thread, RowInv, Status, Fate
<1>5. GradeNotStale'
  BY DEF GradeNotStale, TypeOK, Thread, LockInv, AnswerInv, RowInv, Critical
<1> QED BY <1>1, <1>2, <1>3, <1>4, <1>5

\* The only handler entitled to answer "true" does so.
LEMMA GrantInv ==
    ASSUME IInv, NEW h \in Handlers, Grant(h)
    PROVE  IInv'
<1> USE DEF IInv, Grant, GoOn, Unlock, Idle, rowVars, history
<1>1. TypeOK'
  BY DEF TypeOK, Thread, Point, Critical, Holders, AnswerInv
<1>2. LockInv'
  BY DEF LockInv, TypeOK, Critical, Thread, Holders
<1>3. RowInv'
  BY DEF RowInv, TypeOK
<1>4. AnswerInv'
  BY DEF AnswerInv, OnlyOneAt, TypeOK, Thread
<1>5. GradeNotStale'
  BY DEF GradeNotStale, TypeOK, Thread
<1> QED BY <1>1, <1>2, <1>3, <1>4, <1>5

\* A rollback leaves the rows alone.
LEMMA SqlErrorInv ==
    ASSUME IInv, NEW h \in Handlers, SqlError(h)
    PROVE  IInv'
<1> USE DEF IInv, SqlError, GoOn, Unlock, Idle, rowVars, history
<1>1. TypeOK'
  BY DEF TypeOK, Thread, Point, Critical, Holders
<1>2. LockInv'
  BY DEF LockInv, TypeOK, Critical, Thread, Holders
<1>3. RowInv'
  BY DEF RowInv, TypeOK
<1>4. AnswerInv'
  BY DEF AnswerInv, OnlyOneAt, TypeOK, Thread
<1>5. GradeNotStale'
  BY DEF GradeNotStale, TypeOK, Thread
<1> QED BY <1>1, <1>2, <1>3, <1>4, <1>5

-----------------------------------------------------------------------------
(* The steps of no handler.                                                *)

\* The upkeep goroutine removes rows only while it holds dbMu, so none that a
\* handler has selected; and a captcha it removes was not redeemed.
LEMMA SweepInv == IInv /\ Sweep => IInv'
<1> SUFFICES ASSUME IInv, Sweep PROVE IInv'
  OBVIOUS
<1> USE DEF IInv, Sweep, UpkeepStep, Unlock, Stale, history
<1>1. TypeOK'
  BY DEF TypeOK, UpkeepPoint, Holders, Status, Fate
<1>2. LockInv'
  BY DEF LockInv, TypeOK, Critical
<1>3. RowInv'
  BY DEF RowInv, TypeOK
<1>4. AnswerInv'
  BY DEF AnswerInv, OnlyOneAt, TypeOK, RowInv, Status, Fate
<1>5. GradeNotStale'
  BY DEF GradeNotStale, TypeOK, LockInv, Critical
<1> QED BY <1>1, <1>2, <1>3, <1>4, <1>5

\* The other steps of the upkeep goroutine, time and crashes change no row.
LEMMA NoRowInv ==
    ASSUME IInv,
           \/ WakeSweep \/ WakeVacuum \/ LockUpkeep \/ UpkeepNoChange
           \/ Tick \/ Crash
    PROVE  IInv'
<1> USE DEF IInv, rowVars, history
<1>1. ASSUME NEW tick, NEW to \in {"wantSweep", "wantVacuum"},
             Receive(tick, to)
      PROVE  IInv'
  <2>1. TypeOK' /\ LockInv'
    BY <1>1 DEF Receive, UpkeepStep, TypeOK, UpkeepPoint, LockInv
  <2>2. RowInv' /\ AnswerInv' /\ GradeNotStale'
    BY <1>1 DEF Receive, UpkeepStep, RowInv, AnswerInv, OnlyOneAt,
                GradeNotStale
  <2> QED BY <2>1, <2>2
<1>2. CASE LockUpkeep
  <2>1. TypeOK' /\ LockInv'
    BY <1>2 DEF LockUpkeep, Lock, UpkeepStep, TypeOK, UpkeepPoint, Holders,
                LockInv, Critical
  <2>2. RowInv' /\ AnswerInv' /\ GradeNotStale'
    BY <1>2 DEF LockUpkeep, UpkeepStep, RowInv, AnswerInv, OnlyOneAt,
                GradeNotStale
  <2> QED BY <2>1, <2>2
<1>3. CASE UpkeepNoChange
  BY <1>3 DEF UpkeepNoChange, Unlock, UpkeepStep, TypeOK, UpkeepPoint, Holders,
              LockInv, RowInv, AnswerInv, OnlyOneAt, GradeNotStale
<1>4. CASE Tick
  <2>1. age' \in [Ids -> 0..(ExpiryTime + 1)]
    BY <1>4 DEF Tick, Older, TypeOK
  <2> QED
    BY <1>4, <2>1 DEF Tick, TypeOK, LockInv, RowInv, AnswerInv, OnlyOneAt,
                      GradeNotStale
<1>5. CASE Crash
  <2>1. TypeOK'
    BY <1>5 DEF Crash, TypeOK, Idle, Thread, Point, Critical, Holders,
                UpkeepPoint
  <2>2. LockInv' /\ RowInv' /\ GradeNotStale'
    BY <1>5 DEF Crash, Idle, Critical, LockInv, RowInv, GradeNotStale
  <2>3. AnswerInv'
    BY <1>5 DEF Crash, Idle, AnswerInv, OnlyOneAt
  <2> QED BY <2>1, <2>2, <2>3
<1> QED BY <1>1, <1>2, <1>3, <1>4, <1>5 DEF WakeSweep, WakeVacuum

-----------------------------------------------------------------------------
\* IInv is inductive: every step of every process keeps it.
LEMMA NextInv == IInv /\ [Next]_vars => IInv'
<1> SUFFICES ASSUME IInv, [Next]_vars PROVE IInv'
  OBVIOUS
<1>1. ASSUME NEW h \in Handlers, Request(h) PROVE IInv'
  <2>1. CASE RequestCaptcha(h)
    BY <2>1, ArriveInv DEF RequestCaptcha
  <2>2. ASSUME NEW i \in Ids, SubmitSolution(h, i) \/ AskStatus(h, i)
        PROVE  IInv'
    BY <2>2, ArriveInv DEF SubmitSolution, AskStatus
  <2> QED BY <1>1, <2>1, <2>2 DEF Request
<1>2. ASSUME NEW h \in Handlers, Acquisition(h) PROVE IInv'
  BY <1>2, AcquireInv DEF Acquisition, LockInsert, LockCheck, LockStatus
<1>3. ASSUME NEW h \in Handlers, Work(h) PROVE IInv'
  BY <1>3, InsertInv, SelectMissingInv, SelectInv, CommitInv, AckInv,
     DeleteSolvedInv, GrantInv, SqlErrorInv DEF Work
<1>4. CASE UpkeepRun
  BY <1>4, SweepInv, NoRowInv DEF UpkeepRun
<1>5. CASE Tick \/ Crash
  BY <1>5, NoRowInv
<1>6. CASE UNCHANGED vars
  BY <1>6 DEF vars, IInv, TypeOK, LockInv, RowInv, AnswerInv, OnlyOneAt,
              GradeNotStale
<1> QED BY <1>1, <1>2, <1>3, <1>4, <1>5, <1>6 DEF Next

\* Every reachable state satisfies the inductive invariant, in particular its
\* conjunct GradeNotStale: no verdict is computed from a row that has changed.
THEOREM Invariance == Spec => []IInv
BY InitInv, NextInv, PTL DEF Spec

\* No row changes between the select and the update of CheckSolution, for any number
\* of handlers beside it.
THEOREM GradedAsRead == Spec => []GradeNotStale
<1>1. IInv => GradeNotStale
  BY DEF IInv
<1> QED BY <1>1, Invariance, PTL

\* No interleaving, failed statement or crash makes the service accept a
\* captcha twice, or answer "true" twice or for a captcha that did not pass.
THEOREM AtMostOnce == Spec => []AnswersAtMostOnce
<1>1. ASSUME IInv, NEW i \in Ids
      PROVE  acks[i] <= 1 /\ grants[i] <= 1 /\ (grants[i] = 1 => i \in passed)
  <2>1. acks[i] <= 1 /\ grants[i] <= 1
    BY <1>1 DEF IInv, AnswerInv
  <2>2. grants[i] = 1 => fate[i] = "redeemed"
    BY <1>1 DEF IInv, AnswerInv
  <2> QED BY <1>1, <2>1, <2>2 DEF IInv, RowInv
<1>2. IInv => AnswersAtMostOnce
  BY <1>1 DEF AnswersAtMostOnce
<1> QED BY <1>2, Invariance, PTL

\* A captcha the client was told is solved stays solved until it is redeemed
\* or expires, through every rollback and crash.
THEOREM Durable == Spec => []AckedIsDurable
<1>1. IInv => AckedIsDurable
  BY DEF IInv, TypeOK, AnswerInv, RowInv, AckedIsDurable, Fate
<1> QED BY <1>1, Invariance, PTL

-----------------------------------------------------------------------------
(* Action properties and the implementation of the token.                  *)

\* The statements that change a row: the insert, the update, and the two
\* deletes.
LEMMA OnlyTheseChangeRows ==
    ASSUME [Next]_vars
    PROVE  \/ \E h \in Handlers : Insert(h) \/ Commit(h) \/ DeleteSolved(h)
           \/ Sweep
           \/ UNCHANGED <<status, fate>>
BY DEF Next, vars, Request, RequestCaptcha, SubmitSolution, AskStatus, Arrive,
       Acquisition, LockInsert, LockCheck, LockStatus, Acquire, Work,
       SelectMissing, Select, Ack, Grant, SqlError, UpkeepRun, WakeSweep,
       WakeVacuum, Receive, LockUpkeep, UpkeepNoChange, Tick, Crash, rowVars

\* A row that is graded keeps its verdict, and a captcha that is gone stays
\* gone.
THEOREM FinalVerdict == Spec => VerdictFinal
<1> DEFINE Final(i) ==
      /\ status[i] \in {"solved", "failed"} => status'[i] \in {status[i], "absent"}
      /\ fate[i] \in {"redeemed", "expired"} => status'[i] = "absent"
<1>1. ASSUME IInv, [Next]_vars, NEW i \in Ids
      PROVE  Final(i)
  <2> USE <1>1 DEF IInv, TypeOK
  <2>1. CASE UNCHANGED status
    BY <2>1 DEF RowInv, Status
  <2>2. ASSUME NEW h \in Handlers, Insert(h) PROVE Final(i)
    BY <2>2 DEF Insert, RowInv
  <2>3. ASSUME NEW h \in Handlers, Commit(h) PROVE Final(i)
    BY <2>3 DEF Commit, RowInv, GradeNotStale, AnswerInv
  <2>4. ASSUME NEW h \in Handlers, DeleteSolved(h) PROVE Final(i)
    BY <2>4 DEF DeleteSolved, Remove, RowInv
  <2>5. CASE Sweep
    BY <2>5 DEF Sweep, RowInv
  <2> QED
    BY <1>1, <2>1, <2>2, <2>3, <2>4, <2>5, OnlyTheseChangeRows
<1>2. IInv /\ [Next]_vars => [\A i \in Ids : Final(i)]_vars
  BY <1>1
<1> QED BY <1>2, Invariance, PTL DEF Spec, VerdictFinal

\* A captcha is only lost by its redemption, or once it is older than
\* ExpiryTime.
THEOREM NoLossBeforeExpiry == Spec => NoEarlyLoss
<1> DEFINE Kept(i) ==
      status[i] # "absent" /\ status'[i] = "absent" =>
          \/ status[i] = "solved" /\ fate'[i] = "redeemed"
          \/ age[i] > ExpiryTime /\ fate'[i] = "expired"
<1>1. ASSUME IInv, [Next]_vars, NEW i \in Ids
      PROVE  Kept(i)
  <2> USE <1>1 DEF IInv, TypeOK
  <2>1. ASSUME NEW h \in Handlers, Insert(h) PROVE Kept(i)
    BY <2>1 DEF Insert
  <2>2. ASSUME NEW h \in Handlers, Commit(h) PROVE Kept(i)
    BY <2>2 DEF Commit, AnswerInv
  <2>3. ASSUME NEW h \in Handlers, DeleteSolved(h) PROVE Kept(i)
    BY <2>3 DEF DeleteSolved, Remove
  <2>4. CASE Sweep
    BY <2>4 DEF Sweep, Stale
  <2> QED
    BY <1>1, <2>1, <2>2, <2>3, <2>4, OnlyTheseChangeRows
<1>2. IInv /\ [Next]_vars => [\A i \in Ids : Kept(i)]_vars
  BY <1>1
<1> QED BY <1>2, Invariance, PTL DEF Spec, NoEarlyLoss

\* A step of no statement and no answer leaves the token alone.
LEMMA OtherSteps ==
    ASSUME [Next]_vars
    PROVE  \/ \E h \in Handlers :
                 Insert(h) \/ Commit(h) \/ Ack(h) \/ DeleteSolved(h) \/ Grant(h)
           \/ Sweep
           \/ UNCHANGED <<status, fate, passed, acks, grants>>
BY DEF Next, vars, Request, RequestCaptcha, SubmitSolution, AskStatus, Arrive,
       Acquisition, LockInsert, LockCheck, LockStatus, Acquire, Work,
       SelectMissing, Select, SqlError, UpkeepRun, WakeSweep, WakeVacuum,
       Receive, LockUpkeep, UpkeepStep, UpkeepNoChange, Tick, Crash, rowVars,
       history

\* The table with its lock, transactions and crashes implements the token of
\* CaptchaToken: every step is one step of the token or none.
THEOREM Implementation == Spec => ImplementsToken
<1> DEFINE tok == [i \in Ids |-> Stage(i)]
<1>1. Init => Token!Init
  BY DEF Init, Token!Init, Stage
<1>2. ASSUME IInv, [Next]_vars
      PROVE  [Token!Next]_(Token!vars)
  <2> USE <1>2 DEF IInv, TypeOK
  <2>1. ASSUME NEW h \in Handlers, Insert(h) PROVE Token!Next
    <3>1. PICK i \in Ids :
            /\ fate[i] = "unissued"
            /\ status' = [status EXCEPT ![i] = "unsolved"]
            /\ fate' = [fate EXCEPT ![i] = "live"]
      BY <2>1 DEF Insert
    <3>2. tok[i] = "unissued" /\ tok' = [tok EXCEPT ![i] = "open"]
      BY <3>1 DEF Stage
    <3>3. Token!Issue(i)
      BY <2>1, <3>2 DEF Token!Issue, Token!Move, Insert, history
    <3> QED BY <3>3 DEF Token!Next
  <2>2. ASSUME NEW h \in Handlers, Commit(h) PROVE Token!Next
    <3> DEFINE i == th[h].id
    <3>1. i \in Ids /\ status[i] = "unsolved" /\ fate[i] = "live"
      BY <2>2 DEF Commit, AnswerInv, GradeNotStale, RowInv
    <3>2. CASE th[h].verdict = "solved"
      <4>1. tok[i] = "open" /\ tok' = [tok EXCEPT ![i] = "solved"]
        BY <2>2, <3>1, <3>2 DEF Commit, Stage
      <4>2. passed' = passed \cup {i} /\ UNCHANGED <<acks, grants>>
        BY <2>2, <3>1, <3>2 DEF Commit
      <4> QED BY <3>1, <4>1, <4>2 DEF Token!Next, Token!Pass, Token!Move
    <3>3. CASE th[h].verdict = "failed"
      <4>1. tok[i] = "open" /\ tok' = [tok EXCEPT ![i] = "failed"]
        BY <2>2, <3>1, <3>3 DEF Commit, Stage
      <4>2. UNCHANGED <<passed, acks, grants>>
        BY <2>2, <3>1, <3>3 DEF Commit
      <4> QED BY <3>1, <4>1, <4>2 DEF Token!Next, Token!Fail, Token!Move
    <3> QED BY <2>2, <3>2, <3>3 DEF AnswerInv, Commit
  <2>3. ASSUME NEW h \in Handlers, Ack(h) PROVE Token!Next
    <3>1. th[h].id \in Ids /\ th[h].id \in passed /\ acks[th[h].id] = 0
      BY <2>3 DEF Ack, AnswerInv
    <3>2. tok' = tok
      BY <2>3 DEF Ack, rowVars, Stage
    <3>3. Token!Ack(th[h].id)
      BY <2>3, <3>1, <3>2 DEF Ack, Token!Ack
    <3> QED BY <3>1, <3>3 DEF Token!Next
  <2>4. ASSUME NEW h \in Handlers, DeleteSolved(h)
        PROVE  [Token!Next]_(Token!vars)
    <3> DEFINE i == th[h].id
    <3>1. i \in Ids
      BY <2>4 DEF DeleteSolved, AnswerInv
    <3>2. CASE status[i] = "solved"
      <4>1. tok[i] = "solved" /\ tok' = [tok EXCEPT ![i] = "redeemed"]
        BY <2>4, <3>1, <3>2 DEF DeleteSolved, Remove, RowInv, Stage
      <4>2. Token!Redeem(i)
        BY <2>4, <4>1 DEF DeleteSolved, history, Token!Redeem, Token!Move
      <4> QED BY <3>1, <4>2 DEF Token!Next
    <3>3. CASE status[i] # "solved"
      BY <2>4, <3>3 DEF DeleteSolved, history, Stage, Token!vars
    <3> QED BY <3>2, <3>3
  <2>5. ASSUME NEW h \in Handlers, Grant(h) PROVE Token!Next
    <3>1. /\ th[h].id \in Ids
          /\ fate[th[h].id] = "redeemed" /\ grants[th[h].id] = 0
      BY <2>5 DEF Grant, AnswerInv
    <3>2. tok' = tok /\ tok[th[h].id] = "redeemed"
      BY <2>5, <3>1 DEF Grant, rowVars, Stage
    <3>3. Token!Grant(th[h].id)
      BY <2>5, <3>1, <3>2 DEF Grant, Token!Grant
    <3> QED BY <3>1, <3>3 DEF Token!Next
  <2>6. CASE Sweep
    <3> DEFINE S == {i \in Ids : Stale(i)}
    <3>1. \A i \in Ids : Stale(i) => tok[i] \in {"open", "solved", "failed"}
      BY DEF Stale, Stage, RowInv, Status
    <3>2. S \in SUBSET {i \in Ids : tok[i] \in {"open", "solved", "failed"}}
      BY <3>1
    <3>3. tok' = [i \in Ids |-> IF i \in S THEN "expired" ELSE tok[i]]
      BY <2>6 DEF Sweep, Stage
    <3>4. UNCHANGED <<passed, acks, grants>>
      BY <2>6 DEF Sweep, UpkeepStep, history
    <3>5. Token!Expire
      BY <3>2, <3>3, <3>4 DEF Token!Expire
    <3> QED BY <3>5 DEF Token!Next
  <2>7. CASE UNCHANGED <<status, fate, passed, acks, grants>>
    BY <2>7 DEF Token!vars, Stage
  <2> QED
    BY <1>2, <2>1, <2>2, <2>3, <2>4, <2>5, <2>6, <2>7, OtherSteps
<1> QED BY <1>1, <1>2, Invariance, PTL DEF Spec, ImplementsToken, Token!Spec
=============================================================================
