--------------------------- MODULE FetchScheduler ---------------------------
(***************************************************************************)
(* The scheduler goroutine of fetch.go and the requests that NewCaptcha    *)
(* sends to it.  A fetch is one step from its start to its end here:       *)
(* module ImagePipeline has its inside, and shows that it returns.         *)
(***************************************************************************)
EXTENDS Integers, Sequences, FiniteSets, SequencesExt

CONSTANTS
    Tags,      \* tags of the service: a FetchRequest is a tag
    Callers,   \* goroutines that call NewCaptcha
    Capacity,  \* of the channel, 256 in the code
    None

ASSUME SchedulerAssumption == Capacity \in Nat \ {0} /\ None \notin Tags

VARIABLES
    scheduleFetch,  \* the buffer of the channel
    requests,       \* requests received and not yet fetched
    tick,           \* values in the channel of time.Tick: it holds one
    target,         \* tag that the scheduler fetches, or None in its select
    caller,         \* caller[c]: tag that c is to send, or None
    owed            \* history: tags asked for since their last fetch began

vars == <<scheduleFetch, requests, tick, target, caller, owed>>

TypeOK ==
    /\ scheduleFetch \in Seq(Tags) /\ Len(scheduleFetch) <= Capacity
    /\ requests \subseteq Tags
    /\ tick \in 0 .. 1
    /\ target \in Tags \cup {None} /\ (target # None => target \in requests)
    /\ caller \in [Callers -> Tags \cup {None}]
    /\ owed \subseteq Tags

Init ==
    /\ scheduleFetch = <<>> /\ requests = {} /\ tick = 0 /\ target = None
    /\ caller = [c \in Callers |-> None]
    /\ owed = {}

-----------------------------------------------------------------------------
\* NewCaptcha has shown a captcha for tag t, or found too few images for one.
NewCaptcha(c, t) ==
    /\ caller[c] = None
    /\ caller' = [caller EXCEPT ![c] = t]
    /\ UNCHANGED <<scheduleFetch, requests, tick, target, owed>>

\* The send blocks while the channel is full.
Send(c) ==
    /\ caller[c] # None
    /\ Len(scheduleFetch) < Capacity
    /\ scheduleFetch' = Append(scheduleFetch, caller[c])
    /\ caller' = [caller EXCEPT ![c] = None]
    /\ owed' = owed \cup {caller[c]}
    /\ UNCHANGED <<requests, tick, target>>

\* The select of the scheduler takes a request, or a tick.
Receive ==
    /\ target = None /\ scheduleFetch # <<>>
    /\ requests' = requests \cup {Head(scheduleFetch)}
    /\ scheduleFetch' = Tail(scheduleFetch)
    /\ UNCHANGED <<tick, target, caller, owed>>

\* A tick that finds another one in its channel is dropped.
Tick ==
    /\ tick' = 1
    /\ UNCHANGED <<scheduleFetch, requests, target, caller, owed>>

NothingToFetch ==
    /\ target = None /\ tick = 1 /\ requests = {}
    /\ tick' = 0
    /\ UNCHANGED <<scheduleFetch, requests, target, caller, owed>>

FetchRandom(t) ==
    /\ target = None /\ tick = 1 /\ t \in requests
    /\ tick' = 0 /\ target' = t
    /\ owed' = owed \ {t}
    /\ UNCHANGED <<scheduleFetch, requests, caller>>

\* fetch returns, with or without an error.
FetchReturnsClears ==            \* mutant: all requests are taken for fetched
    /\ target # None
    /\ requests' = {} /\ target' = None
    /\ UNCHANGED <<scheduleFetch, tick, caller, owed>>

FetchReturnsRetries ==           \* mutant: the scheduler sends to itself
    /\ target # None
    /\ Len(scheduleFetch) < Capacity
    /\ scheduleFetch' = Append(scheduleFetch, target)
    /\ requests' = requests \ {target} /\ target' = None
    /\ UNCHANGED <<tick, caller, owed>>

FetchReturns ==
    /\ target # None
    /\ requests' = requests \ {target}
    /\ target' = None
    /\ UNCHANGED <<scheduleFetch, tick, caller, owed>>

Next ==
    \/ \E c \in Callers : Send(c) \/ \E t \in Tags : NewCaptcha(c, t)
    \/ Receive \/ Tick \/ NothingToFetch \/ FetchReturns
    \/ \E t \in Tags : FetchRandom(t)

Spec == Init /\ [][Next]_vars

\* Senders that wait are served in turn.  The select chooses at random between a
\* request and a tick, and RandomInt chooses at random among the requests: what
\* can be chosen again and again is chosen.  The clock ticks, and fetch returns.
Fairness ==
    /\ \A c \in Callers : SF_vars(Send(c))
    /\ SF_vars(Receive)
    /\ \A t \in Tags : SF_vars(FetchRandom(t))
    /\ WF_vars(Tick) /\ WF_vars(NothingToFetch) /\ WF_vars(FetchReturns)

FairSpec == Spec /\ Fairness

-----------------------------------------------------------------------------
\* No request is lost: a tag that was asked for since its last fetch began is
\* still to be fetched, also if it was asked for during the fetch, whose end
\* deletes the tag from the requests.
NoRequestLost == owed \subseteq (requests \ {target}) \cup ToSet(scheduleFetch)

\* Nobody who made a captcha hangs: a full channel is read again.
SendersReturn == \A c \in Callers : caller[c] # None ~> caller[c] = None

\* Every tag asked for is fetched, however often the other ones are asked for.
RequestsFetched == \A t \in Tags : t \in owed ~> t \notin owed
=============================================================================
