---------------------------- MODULE PageWorkers ----------------------------
(***************************************************************************)
(* What tryFetchPage of danbooru/main.go promises for the posts of a page, *)
(* whatever its workers and channels do: the page is reported as seen only *)
(* when every post was processed without an error, an error is reported    *)
(* only if there was one, and a post is processed at most once.  The posts *)
(* of a page that failed may be processed later, or never.                 *)
(***************************************************************************)
EXTENDS Naturals

CONSTANTS
    Fetchers,  \* goroutines that call tryFetchPage, one at a time
    PageSize   \* most posts of a page, 100 in the code

VARIABLES
    phase,  \* phase[f]: what the last tryFetchPage of f came to
    post    \* post[f][k]: what became of the k-th post of its page

Init ==
    /\ phase = [f \in Fetchers |-> "none"]
    /\ post = [f \in Fetchers |-> <<>>]

Call(f) ==
    /\ phase[f] # "collecting"
    /\ phase' = [phase EXCEPT ![f] = "none"]
    /\ post' = [post EXCEPT ![f] = <<>>]

\* A page of n posts was downloaded; one page is collected at a time.
Begin(f) ==
    /\ phase[f] = "none"
    /\ \A g \in Fetchers : phase[g] # "collecting"
    /\ phase' = [phase EXCEPT ![f] = "collecting"]
    /\ \E n \in 1 .. PageSize : post' = [post EXCEPT ![f] = [k \in 1 .. n |-> "todo"]]

Process(f, k) ==
    /\ post[f][k] = "todo"
    /\ \E result \in {"ok", "failed"} : post' = [post EXCEPT ![f][k] = result]
    /\ UNCHANGED phase

Seen(f) ==
    /\ phase[f] = "collecting"
    /\ \A k \in DOMAIN post[f] : post[f][k] = "ok"
    /\ phase' = [phase EXCEPT ![f] = "seen"]
    /\ UNCHANGED post

Fail(f) ==
    /\ phase[f] = "collecting"
    /\ \E k \in DOMAIN post[f] : post[f][k] = "failed"
    /\ phase' = [phase EXCEPT ![f] = "failed"]
    /\ UNCHANGED post

Next ==
    \E f \in Fetchers :
        \/ Call(f) \/ Begin(f) \/ Seen(f) \/ Fail(f)
        \/ \E k \in DOMAIN post[f] : Process(f, k)

Spec == Init /\ [][Next]_<<phase, post>>
=============================================================================
