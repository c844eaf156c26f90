---------------------------- MODULE CaptchaToken ----------------------------
(***************************************************************************)
(* What the captcha table promises to the clients of the service, without  *)
(* locks, transactions, threads or crashes: a captcha is a token that is   *)
(* graded at most once, that is redeemed at most once and only after it    *)
(* was graded as solved, and that is told to the client as solved at most  *)
(* once and only when the verdict can no longer be lost.                   *)
(* Module Captchas implements this specification.                          *)
(***************************************************************************)
EXTENDS Naturals

CONSTANT Ids            \* captcha IDs

VARIABLES
    token,    \* token[i]: where captcha i is in its life
    passed,   \* captchas graded as solved
    acks,     \* acks[i]: answers to POST / that accepted captcha i
    grants    \* grants[i]: answers "true" to POST /status for captcha i

vars == <<token, passed, acks, grants>>

Stage == {"unissued", "open", "solved", "failed", "redeemed", "expired"}

TypeOK ==
    /\ token \in [Ids -> Stage]
    /\ passed \subseteq Ids
    /\ acks \in [Ids -> Nat]
    /\ grants \in [Ids -> Nat]

Init ==
    /\ token = [i \in Ids |-> "unissued"]
    /\ passed = {}
    /\ acks = [i \in Ids |-> 0]
    /\ grants = [i \in Ids |-> 0]

Move(i, from, to) ==
    /\ token[i] = from
    /\ token' = [token EXCEPT ![i] = to]

Issue(i) == Move(i, "unissued", "open") /\ UNCHANGED <<passed, acks, grants>>

Pass(i) ==
    /\ Move(i, "open", "solved")
    /\ passed' = passed \cup {i}
    /\ UNCHANGED <<acks, grants>>

Fail(i) == Move(i, "open", "failed") /\ UNCHANGED <<passed, acks, grants>>

\* The client is told that the captcha is solved: once, after it passed.
Ack(i) ==
    /\ i \in passed
    /\ acks[i] = 0
    /\ acks' = [acks EXCEPT ![i] = 1]
    /\ UNCHANGED <<token, passed, grants>>

Redeem(i) == Move(i, "solved", "redeemed") /\ UNCHANGED <<passed, acks, grants>>

\* The answer "true" of /status: once, after the token was redeemed.
Grant(i) ==
    /\ token[i] = "redeemed"
    /\ grants[i] = 0
    /\ grants' = [grants EXCEPT ![i] = 1]
    /\ UNCHANGED <<token, passed, acks>>

\* Tokens expire in batches, whatever their verdict.
Expire ==
    \E S \in SUBSET {i \in Ids : token[i] \in {"open", "solved", "failed"}} :
        /\ token' = [i \in Ids |-> IF i \in S THEN "expired" ELSE token[i]]
        /\ UNCHANGED <<passed, acks, grants>>

Next ==
    \/ \E i \in Ids :
        Issue(i) \/ Pass(i) \/ Fail(i) \/ Ack(i) \/ Redeem(i) \/ Grant(i)
    \/ Expire

Spec == Init /\ [][Next]_vars
=============================================================================
