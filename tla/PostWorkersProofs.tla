-------------------------- MODULE PostWorkersProofs --------------------------
(***************************************************************************)
(* Theorems about module PostWorkers, for any number of fetchers, workers  *)
(* and posts, any capacity of dst, and any filter.                         *)
(***************************************************************************)
EXTENDS PostWorkers, FiniteSetTheorems, WellFoundedInduction, TLAPS

-----------------------------------------------------------------------------
(* The elements of a queue.                                                *)
Elements(s) == {s[i] : i \in 1 .. Len(s)}
Distinct(s) == \A i, j \in 1 .. Len(s) : s[i] = s[j] => i = j

LEMMA AppendElements ==
    ASSUME NEW s \in Seq(Nat), NEW e \in Nat
    PROVE  /\ Append(s, e) \in Seq(Nat) /\ Len(Append(s, e)) = Len(s) + 1
           /\ Elements(Append(s, e)) = Elements(s) \cup {e}
           /\ Distinct(s) /\ e \notin Elements(s) => Distinct(Append(s, e))
<1> DEFINE t == Append(s, e)
<1>1. /\ t \in Seq(Nat) /\ Len(t) = Len(s) + 1 /\ Len(s) \in Nat
      /\ t[Len(s) + 1] = e /\ \A i \in 1 .. Len(s) : t[i] = s[i]
  OBVIOUS
<1> HIDE DEF t
<1>2. Elements(t) = Elements(s) \cup {e}
  <2>1. \A i \in 1 .. Len(t) : i \in 1 .. Len(s) \/ i = Len(s) + 1
    BY <1>1
  <2>2. Len(s) + 1 \in 1 .. Len(t) /\ \A i \in 1 .. Len(s) : i \in 1 .. Len(t)
    BY <1>1
  <2> QED BY <1>1, <2>1, <2>2 DEF Elements
<1>3. ASSUME Distinct(s), e \notin Elements(s) PROVE Distinct(t)
  <2>1. \A i \in 1 .. Len(s) : t[i] # e
    BY <1>1, <1>3 DEF Elements
  <2>2. \A i \in 1 .. Len(t) : i \in 1 .. Len(s) \/ i = Len(s) + 1
    BY <1>1
  <2>3. \A i, j \in 1 .. Len(s) : t[i] = t[j] => i = j
    BY <1>1, <1>3 DEF Distinct
  <2> QED BY <1>1, <2>1, <2>2, <2>3 DEF Distinct
<1> QED BY <1>1, <1>2, <1>3 DEF t

LEMMA TailElements ==
    ASSUME NEW s \in Seq(Nat), s # <<>>, Distinct(s)
    PROVE  /\ Tail(s) \in Seq(Nat) /\ Len(Tail(s)) = Len(s) - 1
           /\ Head(s) \in Elements(s) /\ Head(s) \in Nat
           /\ Elements(Tail(s)) = Elements(s) \ {Head(s)}
           /\ Distinct(Tail(s))
<1> DEFINE t == Tail(s)
<1>1. /\ t \in Seq(Nat) /\ Len(t) = Len(s) - 1 /\ Len(s) \in Nat \ {0}
      /\ Head(s) = s[1] /\ s[1] \in Nat /\ \A i \in 1 .. Len(t) : t[i] = s[i + 1]
  OBVIOUS
<1> HIDE DEF t
<1>2. Elements(t) = Elements(s) \ {Head(s)}
  <2>1. ASSUME NEW i \in 1 .. Len(t) PROVE t[i] \in Elements(s) /\ t[i] # Head(s)
    <3>1. i + 1 \in 1 .. Len(s) /\ 1 \in 1 .. Len(s) /\ i + 1 # 1
      BY <1>1
    <3> QED BY <1>1, <3>1 DEF Elements, Distinct
  <2>2. ASSUME NEW i \in 1 .. Len(s), s[i] # Head(s) PROVE s[i] \in Elements(t)
    <3>1. i - 1 \in 1 .. Len(t) /\ i = (i - 1) + 1
      BY <1>1, <2>2
    <3> QED BY <1>1, <3>1 DEF Elements
  <2> QED BY <2>1, <2>2 DEF Elements
<1>3. Distinct(t)
  <2> SUFFICES ASSUME NEW i \in 1 .. Len(t), NEW j \in 1 .. Len(t), t[i] = t[j] PROVE i = j
    BY DEF Distinct
  <2>1. i + 1 \in 1 .. Len(s) /\ j + 1 \in 1 .. Len(s) /\ s[i + 1] = s[j + 1]
    <3>1. i \in 1 .. Len(s) - 1 /\ j \in 1 .. Len(s) - 1 /\ Len(s) \in Nat
      BY <1>1
    <3>2. t[i] = s[i + 1] /\ t[j] = s[j + 1]
      BY <1>1
    <3>3. i + 1 \in 1 .. Len(s) /\ j + 1 \in 1 .. Len(s)
      BY <3>1
    <3>4. s[i + 1] = s[j + 1]
      BY <3>2, Zenon
    <3> QED BY <3>3, <3>4, Zenon
  <2>2. i + 1 = j + 1
    BY <2>1 DEF Distinct
  <2> QED BY <2>2
<1>4. Head(s) \in Elements(s)
  BY <1>1 DEF Elements
<1> QED BY <1>1, <1>2, <1>3, <1>4 DEF t

-----------------------------------------------------------------------------
(* The invariant of one fetcher, its page and its workers.                 *)
Call == [at : {"idle", "lock", "page", "collect"}, page : Seq(Post),
         src : Nat \ {0}, dst : Seq(Nat), count : Nat,
         cancelled : BOOLEAN, result : {"none", "seen", "failed"}]
Worker == [at : {"exit", "recv", "busy", "send"}, k : Nat]

Shape(f) ==
    /\ call[f] \in Call /\ worker[f] \in [Workers -> Worker]
    /\ Len(call[f].dst) <= Capacity
    /\ fate[f] \in [1 .. Len(call[f].page) -> Fate]
    /\ heard[f] \subseteq 1 .. Len(call[f].page)

\* Nothing is left of a former page when the next one is asked for.
Fresh(f) ==
    call[f].at \in {"lock", "page"} =>
        /\ call[f] = [NoCall EXCEPT !.at = call[f].at]
        /\ heard[f] = {} /\ \A w \in Workers : worker[f][w] = Exited

\* The context of a page is cancelled when its tryFetchPage returns.
Context(f) == call[f].cancelled <=> call[f].at # "collect"

Hands(f) == \A w \in Workers : worker[f][w].at \in {"exit", "recv"} <=> worker[f][w].k = 0

\* What became of a post goes with the place that it is in.
Fates(f) ==
    /\ \A k \in 1 .. Len(call[f].page) : k >= call[f].src => fate[f][k] = "todo"
    /\ \A w \in Workers :
        /\ worker[f][w].at = "busy" => fate[f][worker[f][w].k] = "todo"
        /\ worker[f][w].at = "send" => fate[f][worker[f][w].k] # "todo"
    /\ \A k \in InDst(f) : fate[f][k] # "todo"
    /\ \A k \in heard[f] : fate[f][k] \notin {"todo", "failed"}

Counted(f) == call[f].at = "collect" => call[f].count = Cardinality(heard[f])

Local(f) ==
    /\ Shape(f) /\ Fresh(f) /\ Context(f) /\ Hands(f)
    /\ OnePlace(f) /\ Fates(f) /\ Counted(f)

Mutex == \A f \in Fetchers : call[f].at \in {"page", "collect"} => mu = f

WInv ==
    /\ DOMAIN call = Fetchers /\ DOMAIN worker = Fetchers
    /\ DOMAIN fate = Fetchers /\ DOMAIN heard = Fetchers
    /\ mu \in Fetchers \cup {Free} /\ Mutex
    /\ \A f \in Fetchers : Local(f)
LEMMA InitWInv == Init => WInv
<1> SUFFICES ASSUME Init PROVE WInv
  OBVIOUS
<1> USE DEF Init
<1>1. ASSUME NEW f \in Fetchers PROVE Local(f)
  <2>1. /\ call[f] = NoCall /\ worker[f] = [w \in Workers |-> Exited]
        /\ fate[f] = <<>> /\ heard[f] = {}
    OBVIOUS
  <2>2. Len(<<>>) = 0 /\ <<>> \in Seq(Post) /\ <<>> \in Seq(Nat)
    OBVIOUS
  <2>3. Shape(f)
    BY <2>1, <2>2, WorkersAssumption DEF Shape, Call, Worker, NoCall, Exited, At
  <2>4. Fresh(f) /\ Context(f) /\ Hands(f) /\ Counted(f)
    BY <2>1 DEF Fresh, Context, Hands, Counted, NoCall, Exited, At
  <2>5. Held(f) = {} /\ InDst(f) = {}
    BY <2>1, <2>2 DEF Held, InDst, NoCall, Exited, At
  <2>6. OnePlace(f)
    BY <2>1, <2>2, <2>5 DEF OnePlace, NoCall, Exited, At
  <2>7. Fates(f)
    BY <2>1, <2>2, <2>5 DEF Fates, NoCall, Exited, At
  <2> QED BY <2>3, <2>4, <2>6, <2>7 DEF Local
<1>2. mu = Free /\ Mutex
  BY DEF Mutex, NoCall
<1> QED BY <1>1, <1>2 DEF WInv

\* What a fetcher that takes no step knows stays true.
LEMMA OthersKeep ==
    ASSUME NEW f, Local(f), call'[f] = call[f], worker'[f] = worker[f],
           fate'[f] = fate[f], heard'[f] = heard[f]
    PROVE  Local(f)'
<1>1. Held(f)' = Held(f) /\ InDst(f)' = InDst(f)
  BY DEF Held, InDst
<1>2. Shape(f)' /\ Fresh(f)' /\ Context(f)' /\ Hands(f)' /\ Counted(f)'
  BY DEF Local, Shape, Fresh, Context, Hands, Counted
<1>3. OnePlace(f)'
  BY <1>1 DEF Local, OnePlace
<1>4. Fates(f)'
  BY <1>1 DEF Local, Fates
<1> QED BY <1>2, <1>3, <1>4 DEF Local

LEMMA FetchKeeps ==
    ASSUME WInv, NEW f \in Fetchers, Fetch(f)
    PROVE  Local(f)'
<1>1. /\ call'[f] = [NoCall EXCEPT !.at = "lock"] /\ fate'[f] = <<>> /\ heard'[f] = {}
      /\ worker'[f] = worker[f]
  BY DEF Fetch, WInv
<1>2. worker[f] \in [Workers -> Worker] /\ Hands(f)
      /\ \A w \in Workers : worker[f][w].at = "exit"
  BY DEF Fetch, WInv, Local, Shape
<1>3. \A w \in Workers : worker[f][w] = Exited
  BY <1>2 DEF Worker, Hands, Exited, At
<1>4. Len(<<>>) = 0 /\ <<>> \in Seq(Post) /\ <<>> \in Seq(Nat)
  OBVIOUS
<1>5. call'[f] = [at |-> "lock", page |-> <<>>, src |-> 1, dst |-> <<>>, count |-> 0,
                  cancelled |-> TRUE, result |-> "none"]
  BY <1>1 DEF NoCall
<1>6. call'[f] \in Call /\ call'[f].page = <<>> /\ call'[f].dst = <<>>
  BY <1>5, <1>4 DEF Call
<1>7. Shape(f)'
  BY <1>1, <1>2, <1>4, <1>6, WorkersAssumption DEF Shape
<1>8. Fresh(f)' /\ Context(f)' /\ Hands(f)' /\ Counted(f)'
  BY <1>1, <1>2, <1>3 DEF Fresh, Context, Hands, Counted, NoCall
<1>9. Held(f)' = {} /\ InDst(f)' = {}
  BY <1>1, <1>3, <1>4 DEF Held, InDst, NoCall, Exited, At
<1>10. OnePlace(f)'
  BY <1>1, <1>3, <1>4, <1>9 DEF OnePlace, NoCall, Exited, At
<1>11. Fates(f)'
  BY <1>1, <1>3, <1>4, <1>9 DEF Fates, NoCall, Exited, At
<1> QED BY <1>7, <1>8, <1>10, <1>11 DEF Local

LEMMA LockKeeps ==
    ASSUME WInv, NEW f \in Fetchers, Lock(f)
    PROVE  Local(f)'
<1>1. /\ call'[f] = [call[f] EXCEPT !.at = "page"] /\ call[f].at = "lock"
      /\ worker'[f] = worker[f] /\ fate'[f] = fate[f] /\ heard'[f] = heard[f]
  BY DEF Lock, WInv
<1>2. Local(f)
  BY DEF WInv
<1>3. /\ call'[f] \in Call /\ call'[f].at = "page"
      /\ call'[f].page = call[f].page /\ call'[f].src = call[f].src
      /\ call'[f].dst = call[f].dst /\ call'[f].cancelled = call[f].cancelled
  BY <1>1, <1>2 DEF Local, Shape, Call
<1>4. Held(f)' = Held(f) /\ InDst(f)' = InDst(f)
  BY <1>1, <1>3 DEF Held, InDst
<1>5. Shape(f)' /\ Context(f)' /\ Hands(f)' /\ Counted(f)'
  BY <1>1, <1>2, <1>3 DEF Local, Shape, Context, Hands, Counted
<1>6. Fresh(f)'
  BY <1>1, <1>2 DEF Local, Shape, Fresh, Call, NoCall
<1>7. OnePlace(f)' /\ Fates(f)'
  BY <1>1, <1>2, <1>3, <1>4 DEF Local, OnePlace, Fates
<1> QED BY <1>5, <1>6, <1>7 DEF Local

\* Return: the posts stay where they are.
LEMMA ReturnKeeps ==
    ASSUME WInv, NEW f \in Fetchers, NEW result \in {"none", "seen", "failed"},
           Return(f, result), UNCHANGED <<worker, fate, heard>>
    PROVE  Local(f)'
<1>1. /\ call'[f] = [call[f] EXCEPT !.at = "idle", !.result = result, !.cancelled = TRUE]
      /\ worker'[f] = worker[f] /\ fate'[f] = fate[f] /\ heard'[f] = heard[f]
  BY DEF Return, WInv
<1>2. Local(f)
  BY DEF WInv
<1>3. /\ call'[f] \in Call /\ call'[f].at = "idle" /\ call'[f].cancelled
      /\ call'[f].page = call[f].page /\ call'[f].src = call[f].src
      /\ call'[f].dst = call[f].dst
  BY <1>1, <1>2 DEF Local, Shape, Call
<1>4. Shape(f)' /\ Fresh(f)' /\ Context(f)' /\ Hands(f)' /\ Counted(f)'
  BY <1>1, <1>2, <1>3 DEF Local, Shape, Fresh, Context, Hands, Counted
<1>5. Held(f)' = Held(f) /\ InDst(f)' = InDst(f)
  BY <1>1, <1>3 DEF Held, InDst
<1>6. OnePlace(f)' /\ Fates(f)'
  BY <1>1, <1>2, <1>3, <1>5 DEF Local, OnePlace, Fates
<1> QED BY <1>4, <1>6 DEF Local

LEMMA GetPageKeeps ==
    ASSUME WInv, NEW f \in Fetchers, GetPage(f)
    PROVE  Local(f)'
<1>1. PICK page \in Pages[f] :
          /\ call'[f] = [call[f] EXCEPT !.at = "collect", !.page = page, !.cancelled = FALSE]
          /\ fate'[f] = [k \in 1 .. Len(page) |-> "todo"]
  BY DEF GetPage, WInv
<1>2. /\ worker'[f] = [w \in Workers |-> Receiving] /\ heard'[f] = heard[f]
      /\ call[f].at = "page"
  BY DEF GetPage, WInv
<1>3. call[f] = [NoCall EXCEPT !.at = "page"] /\ heard[f] = {}
  BY <1>2 DEF WInv, Local, Fresh
<1>4. page \in Seq(Post) /\ Len(page) \in Nat \ {0}
  BY WorkersAssumption
<1>5. Len(<<>>) = 0 /\ <<>> \in Seq(Nat)
  OBVIOUS
<1>6. call'[f] = [at |-> "collect", page |-> page, src |-> 1, dst |-> <<>>, count |-> 0,
                  cancelled |-> FALSE, result |-> "none"]
  <2>1. call[f] = [at |-> "page", page |-> <<>>, src |-> 1, dst |-> <<>>, count |-> 0,
                   cancelled |-> TRUE, result |-> "none"]
    BY <1>3 DEF NoCall
  <2>2. call'[f] = [[at |-> "page", page |-> <<>>, src |-> 1, dst |-> <<>>, count |-> 0,
                     cancelled |-> TRUE, result |-> "none"]
                    EXCEPT !.at = "collect", !.page = page, !.cancelled = FALSE]
    BY <1>1, <2>1, Zenon
  <2> QED BY <2>2
<1>7. /\ call'[f] \in Call /\ call'[f].at = "collect" /\ ~call'[f].cancelled
      /\ call'[f].page = page /\ call'[f].src = 1 /\ call'[f].dst = <<>>
      /\ call'[f].count = 0
  BY <1>6, <1>4, <1>5 DEF Call
<1>8. Shape(f)'
  BY <1>1, <1>2, <1>3, <1>4, <1>5, <1>7, WorkersAssumption
     DEF Shape, Worker, Receiving, At, Fate
<1>9. Fresh(f)' /\ Context(f)' /\ Hands(f)'
  BY <1>2, <1>7 DEF Fresh, Context, Hands, Receiving, At
<1>10. Counted(f)'
  BY <1>2, <1>3, <1>7, FS_EmptySet DEF Counted
<1>11. Held(f)' = {} /\ InDst(f)' = {}
  BY <1>2, <1>5, <1>7 DEF Held, InDst, Receiving, At
<1>12. OnePlace(f)'
  BY <1>2, <1>3, <1>4, <1>5, <1>7, <1>11 DEF OnePlace, Receiving, At
<1>13. Fates(f)'
  BY <1>1, <1>2, <1>3, <1>4, <1>7, <1>11 DEF Fates, Receiving, At
<1> QED BY <1>8, <1>9, <1>10, <1>12, <1>13 DEF Local

\* The fields of a call that a step changes.
LEMMA WithDst ==
    ASSUME NEW c \in Call, NEW d \in Seq(Nat)
    PROVE  LET e == [c EXCEPT !.dst = d]
           IN  /\ e \in Call /\ e.at = c.at /\ e.page = c.page /\ e.src = c.src
               /\ e.cancelled = c.cancelled /\ e.dst = d /\ e.count = c.count
BY DEF Call

LEMMA WithSource ==
    ASSUME NEW c \in Call, NEW k \in Nat \ {0}
    PROVE  LET e == [c EXCEPT !.src = k]
           IN  /\ e \in Call /\ e.at = c.at /\ e.page = c.page /\ e.src = k
               /\ e.cancelled = c.cancelled /\ e.dst = c.dst /\ e.count = c.count
BY DEF Call

\* The loop receives the oldest result of dst.
LEMMA CollectOkKeeps ==
    ASSUME WInv, NEW f \in Fetchers, CollectOk(f)
    PROVE  Local(f)'
<1> DEFINE h == Head(call[f].dst)
<1>1. Local(f)
  BY DEF WInv
<1>2. /\ call[f].at = "collect" /\ call[f].dst # <<>> /\ fate[f][h] # "failed"
      /\ call'[f] = [call[f] EXCEPT !.dst = Tail(call[f].dst), !.count = call[f].count + 1]
      /\ heard'[f] = heard[f] \cup {h}
      /\ worker'[f] = worker[f] /\ fate'[f] = fate[f]
  BY DEF CollectOk, WInv
<1>3. /\ call[f] \in Call /\ Distinct(call[f].dst) /\ InDst(f) = Elements(call[f].dst)
  BY <1>1 DEF Local, Shape, OnePlace, Distinct, InDst, Elements
<1>4. /\ Tail(call[f].dst) \in Seq(Nat) /\ Len(Tail(call[f].dst)) = Len(call[f].dst) - 1
      /\ h \in InDst(f) /\ Distinct(Tail(call[f].dst))
      /\ Elements(Tail(call[f].dst)) = InDst(f) \ {h}
  BY <1>2, <1>3, TailElements DEF Call
<1> HIDE DEF h
<1>5. /\ call'[f] \in Call /\ call'[f].at = "collect"
      /\ call'[f].cancelled = call[f].cancelled
      /\ call'[f].page = call[f].page /\ call'[f].src = call[f].src
      /\ call'[f].dst = Tail(call[f].dst) /\ call'[f].count = call[f].count + 1
  <2> DEFINE t == Tail(call[f].dst)
             n == call[f].count + 1
  <2>1. t \in Seq(Nat) /\ n \in Nat /\ call'[f] = [call[f] EXCEPT !.dst = t, !.count = n]
    BY <1>2, <1>3, <1>4 DEF Call
  <2> HIDE DEF t, n
  <2>2. /\ call'[f] \in Call /\ call'[f].at = call[f].at
        /\ call'[f].cancelled = call[f].cancelled
        /\ call'[f].page = call[f].page /\ call'[f].src = call[f].src
        /\ call'[f].dst = t /\ call'[f].count = n
    BY <1>3, <2>1 DEF Call
  <2> QED BY <1>2, <2>2 DEF t, n
<1>6. Held(f)' = Held(f) /\ InDst(f)' = InDst(f) \ {h}
  <2>1. InDst(f)' = Elements(Tail(call[f].dst))
    BY <1>5 DEF InDst, Elements
  <2> QED BY <1>2, <1>4, <2>1 DEF Held
<1>7. /\ h \in 1 .. Len(call[f].page) /\ h \notin heard[f] /\ h \notin Held(f)
      /\ heard[f] \subseteq 1 .. Len(call[f].page) /\ Len(call[f].page) \in Nat
  BY <1>1, <1>3, <1>4 DEF Local, OnePlace, Shape, Call
<1>8. Shape(f)'
  <2>1. Len(Tail(call[f].dst)) <= Capacity
    BY <1>1, <1>3, <1>4, WorkersAssumption DEF Local, Shape, Call
  <2> QED BY <1>1, <1>2, <1>5, <1>7, <2>1 DEF Local, Shape
<1>9. Fresh(f)' /\ Context(f)' /\ Hands(f)'
  BY <1>1, <1>2, <1>5 DEF Local, Fresh, Context, Hands
<1>10. Counted(f)'
  <2>1. IsFiniteSet(heard[f])
    <3>1. IsFiniteSet(1 .. Len(call[f].page))
      BY <1>7, FS_Interval
    <3> QED BY <1>7, <3>1, FS_Subset
  <2>2. Cardinality(heard[f] \cup {h}) = Cardinality(heard[f]) + 1
    BY <1>7, <2>1, FS_AddElement
  <2> QED BY <1>1, <1>2, <1>5, <2>2 DEF Local, Counted
<1>11. OnePlace(f)'
  <2>1. \A i, j \in 1 .. Len(call'[f].dst) : call'[f].dst[i] = call'[f].dst[j] => i = j
    BY <1>4, <1>5 DEF Distinct
  <2>2. heard'[f] = heard[f] \cup {h} /\ h \in InDst(f) /\ h \notin Held(f)
    BY <1>2, <1>4, <1>7
  <2>3. Held(f)' \cup InDst(f)' \cup heard'[f] = Held(f) \cup InDst(f) \cup heard[f]
    BY <1>6, <2>2
  <2>4. /\ Held(f)' \cap InDst(f)' = {} /\ Held(f)' \cap heard'[f] = {}
        /\ InDst(f)' \cap heard'[f] = {}
    BY <1>1, <1>6, <2>2 DEF Local, OnePlace
  <2> QED BY <1>1, <1>2, <1>5, <2>1, <2>3, <2>4 DEF Local, OnePlace
<1>12. Fates(f)'
  BY <1>1, <1>2, <1>4, <1>5, <1>6 DEF Local, Fates
<1> QED BY <1>8, <1>9, <1>10, <1>11, <1>12 DEF Local

-----------------------------------------------------------------------------
(* Steps of a worker.  What it holds is a post that no other worker has.   *)
LEMMA WorkerMoves ==
    ASSUME NEW f \in Fetchers, NEW w \in Workers, NEW to \in Worker,
           DOMAIN worker = Fetchers, worker[f] \in [Workers -> Worker], OnePlace(f),
           GoOn(f, w, to)
    PROVE  /\ worker'[f] \in [Workers -> Worker] /\ worker'[f][w] = to
           /\ \A v \in Workers \ {w} : worker'[f][v] = worker[f][v]
           /\ Held(f)' = (Held(f) \ {worker[f][w].k}) \cup ({to.k} \ {0})
<1>1. worker'[f] = [worker[f] EXCEPT ![w] = to]
  BY DEF GoOn
<1>2. /\ worker'[f] \in [Workers -> Worker] /\ worker'[f][w] = to
      /\ \A v \in Workers \ {w} : worker'[f][v] = worker[f][v]
  BY <1>1
<1>3. ASSUME NEW v \in Workers \ {w}, worker[f][v].k # 0
      PROVE  worker[f][v].k \in Held(f) \ {worker[f][w].k}
  BY <1>3 DEF OnePlace, Held
<1>4. Held(f)' = (Held(f) \ {worker[f][w].k}) \cup ({to.k} \ {0})
  BY <1>2, <1>3 DEF Held
<1> QED BY <1>2, <1>4

LEMMA ExitKeeps ==
    ASSUME WInv, NEW f \in Fetchers, NEW w \in Workers, Exit(f, w)
    PROVE  Local(f)'
<1>1. Local(f) /\ DOMAIN worker = Fetchers
  BY DEF WInv
<1>2. /\ call'[f] = call[f] /\ fate'[f] = fate[f] /\ heard'[f] = heard[f]
      /\ call[f].cancelled /\ worker[f][w].at \in {"recv", "send"}
      /\ GoOn(f, w, Exited)
  BY DEF Exit
<1>3. Exited \in Worker /\ Exited.at = "exit" /\ Exited.k = 0
  BY DEF Exited, At, Worker
<1>4. /\ worker'[f] \in [Workers -> Worker] /\ worker'[f][w] = Exited
      /\ \A v \in Workers \ {w} : worker'[f][v] = worker[f][v]
      /\ Held(f)' = Held(f) \ {worker[f][w].k}
  BY <1>1, <1>2, <1>3, WorkerMoves DEF Local, Shape
<1>5. InDst(f)' = InDst(f)
  BY <1>2 DEF InDst
<1>6. Shape(f)' /\ Fresh(f)' /\ Context(f)' /\ Counted(f)'
  BY <1>1, <1>2, <1>4 DEF Local, Shape, Fresh, Context, Counted
<1>7. Hands(f)' /\ Fates(f)'
  BY <1>1, <1>2, <1>3, <1>4, <1>5 DEF Local, Hands, Fates
<1>8. OnePlace(f)'
  BY <1>1, <1>2, <1>3, <1>4, <1>5 DEF Local, OnePlace
<1> QED BY <1>6, <1>7, <1>8 DEF Local

LEMMA TakeKeeps ==
    ASSUME WInv, NEW f \in Fetchers, NEW w \in Workers, Take(f, w)
    PROVE  Local(f)'
<1> DEFINE k == call[f].src
<1>1. Local(f) /\ DOMAIN worker = Fetchers
  BY DEF WInv
<1>2. /\ call'[f] = [call[f] EXCEPT !.src = k + 1]
      /\ fate'[f] = fate[f] /\ heard'[f] = heard[f]
      /\ worker[f][w].at = "recv" /\ k <= Len(call[f].page)
      /\ GoOn(f, w, At("busy", k))
  BY DEF Take, WInv
<1>3. call[f] \in Call /\ k \in Nat \ {0} /\ Len(call[f].page) \in Nat
  BY <1>1 DEF Local, Shape, Call
<1>4. /\ call'[f] \in Call /\ call'[f].at = call[f].at
      /\ call'[f].cancelled = call[f].cancelled /\ call'[f].count = call[f].count
      /\ call'[f].page = call[f].page /\ call'[f].src = k + 1
      /\ call'[f].dst = call[f].dst
  <2>1. k + 1 \in Nat \ {0}
    BY <1>3
  <2> QED BY <1>2, <1>3, <2>1, WithSource
<1> HIDE DEF k
<1>5. At("busy", k) \in Worker /\ At("busy", k).at = "busy" /\ At("busy", k).k = k
  BY <1>3 DEF At, Worker
<1>6. worker[f][w].k = 0 /\ 0 \notin Held(f)
  BY <1>1, <1>2 DEF Local, Hands, Held
<1>7. /\ worker'[f] \in [Workers -> Worker] /\ worker'[f][w] = At("busy", k)
      /\ \A v \in Workers \ {w} : worker'[f][v] = worker[f][v]
      /\ Held(f)' = Held(f) \cup {k}
  BY <1>1, <1>2, <1>3, <1>5, <1>6, WorkerMoves DEF Local, Shape
<1>8. InDst(f)' = InDst(f)
  BY <1>4 DEF InDst
<1>9. k \notin Held(f) /\ k \notin InDst(f) /\ k \notin heard[f] /\ fate[f][k] = "todo"
  BY <1>1, <1>2, <1>3 DEF Local, OnePlace, Fates, k
<1>10. Shape(f)' /\ Context(f)' /\ Counted(f)'
  BY <1>1, <1>2, <1>4, <1>7 DEF Local, Shape, Context, Counted
<1>11. Fresh(f)'
  BY <1>1, <1>2, <1>4 DEF Local, Fresh, Exited, At
<1>12. Hands(f)' /\ Fates(f)'
  BY <1>1, <1>2, <1>3, <1>4, <1>5, <1>7, <1>8, <1>9 DEF Local, Hands, Fates, k
<1>13. OnePlace(f)'
  <2>1. ASSUME NEW v \in Workers \ {w} PROVE worker[f][v].k # k
    BY <1>3, <1>9 DEF Held
  <2>2. call'[f].src = k + 1
    BY <1>4
  <2>3. 1 .. call'[f].src - 1 = (1 .. k - 1) \cup {k}
    BY <1>3, <2>2
  <2>4. /\ Held(f) \cup InDst(f) \cup heard[f] \subseteq 1 .. k - 1
        /\ Held(f) \cap InDst(f) = {} /\ Held(f) \cap heard[f] = {}
        /\ InDst(f) \cap heard[f] = {}
        /\ ~call[f].cancelled => 1 .. k - 1 \subseteq Held(f) \cup InDst(f) \cup heard[f]
    BY <1>1 DEF Local, OnePlace, k
  <2>5. /\ Held(f)' \cup InDst(f)' \cup heard[f]' \subseteq (1 .. k - 1) \cup {k}
        /\ Held(f)' \cap InDst(f)' = {} /\ Held(f)' \cap heard[f]' = {}
        /\ InDst(f)' \cap heard[f]' = {}
        /\ ~call'[f].cancelled
               => (1 .. k - 1) \cup {k} \subseteq Held(f)' \cup InDst(f)' \cup heard[f]'
    BY <1>2, <1>4, <1>7, <1>8, <1>9, <2>4
  <2>6. \A u, v \in Workers :
            worker'[f][u].k = worker'[f][v].k /\ u # v => worker'[f][u].k = 0
    BY <1>1, <1>5, <1>7, <2>1 DEF Local, OnePlace
  <2>7. call'[f].src \in 1 .. Len(call'[f].page) + 1
    BY <1>2, <1>3, <1>4
  <2>8. \A i, j \in 1 .. Len(call'[f].dst) : call'[f].dst[i] = call'[f].dst[j] => i = j
    BY <1>1, <1>4 DEF Local, OnePlace
  <2> QED BY <2>3, <2>5, <2>6, <2>7, <2>8, Zenon DEF OnePlace
<1> QED BY <1>10, <1>11, <1>12, <1>13 DEF Local

\* The worker keeps its post, and what became of it is no longer open.
LEMMA ProcessKeeps ==
    ASSUME WInv, NEW f \in Fetchers, NEW w \in Workers, Process(f, w)
    PROVE  Local(f)'
<1> DEFINE k == worker[f][w].k
<1>1. Local(f) /\ DOMAIN worker = Fetchers
  BY DEF WInv
<1>2. PICK outcome \in Outcomes(call[f].page[k]) : fate' = [fate EXCEPT ![f][k] = outcome]
  BY DEF Process
<1>3. /\ call'[f] = call[f] /\ heard'[f] = heard[f]
      /\ worker[f][w].at = "busy" /\ GoOn(f, w, At("send", k))
  BY DEF Process
<1>4. k \in Nat /\ k # 0 /\ k \in Held(f)
  BY <1>1, <1>3 DEF Local, Shape, Worker, Hands, Held
<1>5. outcome \in Fate /\ outcome # "todo"
  BY DEF Outcomes, Verdict, Fate
<1>6. At("send", k) \in Worker /\ At("send", k).at = "send" /\ At("send", k).k = k
  BY <1>4 DEF At, Worker
<1>7. fate'[f] = [fate[f] EXCEPT ![k] = outcome]
  BY <1>2 DEF WInv
<1> HIDE DEF k
<1>8. /\ worker'[f] \in [Workers -> Worker] /\ worker'[f][w] = At("send", k)
      /\ \A v \in Workers \ {w} : worker'[f][v] = worker[f][v]
      /\ Held(f)' = Held(f)
  <2>1. /\ worker'[f] \in [Workers -> Worker] /\ worker'[f][w] = At("send", k)
        /\ \A v \in Workers \ {w} : worker'[f][v] = worker[f][v]
        /\ Held(f)' = (Held(f) \ {k}) \cup ({At("send", k).k} \ {0})
    BY <1>1, <1>3, <1>6, WorkerMoves DEF Local, Shape, k
  <2> QED BY <1>4, <1>6, <2>1
<1>9. InDst(f)' = InDst(f)
  BY <1>3 DEF InDst
<1>10. k \in 1 .. Len(call[f].page) /\ k < call[f].src /\ k \notin InDst(f) /\ k \notin heard[f]
  BY <1>1, <1>4 DEF Local, OnePlace, Shape, Call
<1>11. /\ fate'[f] \in [1 .. Len(call[f].page) -> Fate] /\ fate'[f][k] = outcome
       /\ \A j \in 1 .. Len(call[f].page) : j # k => fate'[f][j] = fate[f][j]
  BY <1>1, <1>5, <1>7, <1>10 DEF Local, Shape
<1>12. Shape(f)' /\ Context(f)' /\ Counted(f)'
  BY <1>1, <1>3, <1>8, <1>11 DEF Local, Shape, Context, Counted
<1>13. Fresh(f)' /\ Hands(f)'
  BY <1>1, <1>3, <1>4, <1>6, <1>8 DEF Local, Fresh, Hands, Exited, At
<1>14. OnePlace(f)'
  BY <1>1, <1>3, <1>6, <1>8, <1>9 DEF Local, OnePlace, k
<1>15. Fates(f)'
  <2>1. ASSUME NEW v \in Workers \ {w}, worker[f][v].at \in {"busy", "send"}
        PROVE  /\ worker[f][v].k \in 1 .. Len(call[f].page) /\ worker[f][v].k # k
               /\ fate'[f][worker[f][v].k] = fate[f][worker[f][v].k]
    <3>1. worker[f][v].k # 0 /\ worker[f][v].k \in Held(f)
      BY <1>1, <2>1 DEF Local, Hands, Held
    <3>2. worker[f][v].k # k
      BY <1>1, <1>4 DEF Local, OnePlace, k
    <3>3. worker[f][v].k \in 1 .. Len(call[f].page)
      BY <1>1, <3>1 DEF Local, OnePlace, Shape, Call
    <3> QED BY <1>11, <3>2, <3>3
  <2>2. ASSUME NEW v \in Workers
        PROVE  /\ worker'[f][v].at = "busy" => fate'[f][worker'[f][v].k] = "todo"
               /\ worker'[f][v].at = "send" => fate'[f][worker'[f][v].k] # "todo"
    <3>1. CASE v = w
      BY <1>5, <1>6, <1>8, <1>11, <3>1
    <3>2. CASE v # w
      BY <1>1, <1>8, <2>1, <3>2 DEF Local, Fates
    <3> QED BY <3>1, <3>2
  <2>3. \A j \in InDst(f) \cup heard[f] :
            j \in 1 .. Len(call[f].page) /\ fate'[f][j] = fate[f][j]
    BY <1>1, <1>10, <1>11 DEF Local, OnePlace, Shape, Call
  <2>4. \A j \in 1 .. Len(call[f].page) : j >= call[f].src => fate'[f][j] = "todo"
    BY <1>1, <1>4, <1>10, <1>11 DEF Local, Fates, Shape, Call
  <2> QED BY <1>1, <1>3, <1>9, <2>2, <2>3, <2>4 DEF Local, Fates
<1> QED BY <1>12, <1>13, <1>14, <1>15 DEF Local

LEMMA SendKeeps ==
    ASSUME WInv, NEW f \in Fetchers, NEW w \in Workers, Send(f, w)
    PROVE  Local(f)'
<1> DEFINE k == worker[f][w].k
           d == Append(call[f].dst, k)
<1>1. Local(f) /\ DOMAIN worker = Fetchers
  BY DEF WInv
<1>2. /\ call'[f] = [call[f] EXCEPT !.dst = d]
      /\ fate'[f] = fate[f] /\ heard'[f] = heard[f]
      /\ worker[f][w].at = "send" /\ Len(call[f].dst) < Capacity
      /\ GoOn(f, w, Receiving)
  BY DEF Send, WInv
<1>3. /\ call[f] \in Call /\ k \in Nat /\ k # 0 /\ k \in Held(f)
      /\ Distinct(call[f].dst) /\ InDst(f) = Elements(call[f].dst)
      /\ k \notin InDst(f) /\ fate[f][k] # "todo"
  BY <1>1, <1>2 DEF Local, Shape, Worker, Hands, Held, OnePlace, Distinct, InDst,
                    Elements, Fates
<1>4. /\ d \in Seq(Nat) /\ Len(d) = Len(call[f].dst) + 1
      /\ Elements(d) = InDst(f) \cup {k} /\ Distinct(d)
  <2>1. call[f].dst \in Seq(Nat)
    BY <1>3 DEF Call
  <2> QED BY <1>3, <2>1, AppendElements
<1>5. Receiving \in Worker /\ Receiving.at = "recv" /\ Receiving.k = 0
  BY DEF Receiving, At, Worker
<1>6. /\ worker'[f] \in [Workers -> Worker] /\ worker'[f][w] = Receiving
      /\ \A v \in Workers \ {w} : worker'[f][v] = worker[f][v]
      /\ Held(f)' = Held(f) \ {k}
  BY <1>1, <1>2, <1>5, WorkerMoves DEF Local, Shape
<1>7. /\ call'[f] \in Call /\ call'[f].at = call[f].at
      /\ call'[f].cancelled = call[f].cancelled /\ call'[f].count = call[f].count
      /\ call'[f].page = call[f].page /\ call'[f].src = call[f].src
      /\ call'[f].dst = d
  <2> HIDE DEF d
  <2> QED BY <1>2, <1>3, <1>4, WithDst
<1> HIDE DEF k, d
<1>8. InDst(f)' = InDst(f) \cup {k}
  BY <1>4, <1>7 DEF InDst, Elements
<1>9. Shape(f)'
  <2>1. Len(d) <= Capacity
    BY <1>2, <1>3, <1>4, WorkersAssumption DEF Call
  <2> QED BY <1>1, <1>2, <1>6, <1>7, <2>1 DEF Local, Shape
<1>10. Context(f)' /\ Counted(f)'
  BY <1>1, <1>2, <1>7 DEF Local, Context, Counted
<1>11. Fresh(f)' /\ Hands(f)'
  BY <1>1, <1>2, <1>5, <1>6, <1>7 DEF Local, Fresh, Hands, Exited, At
<1>12. OnePlace(f)'
  <2>1. \A i, j \in 1 .. Len(call'[f].dst) : call'[f].dst[i] = call'[f].dst[j] => i = j
    BY <1>4, <1>7 DEF Distinct
  <2>2. Held(f)' \cup InDst(f)' \cup heard'[f] = Held(f) \cup InDst(f) \cup heard[f]
    BY <1>2, <1>3, <1>6, <1>8
  <2>3. /\ Held(f)' \cap InDst(f)' = {} /\ Held(f)' \cap heard'[f] = {}
        /\ InDst(f)' \cap heard'[f] = {}
    BY <1>1, <1>2, <1>3, <1>6, <1>8 DEF Local, OnePlace
  <2>4. \A u, v \in Workers :
            worker'[f][u].k = worker'[f][v].k /\ u # v => worker'[f][u].k = 0
    BY <1>1, <1>5, <1>6 DEF Local, OnePlace
  <2> QED BY <1>1, <1>7, <2>1, <2>2, <2>3, <2>4 DEF Local, OnePlace
<1>13. Fates(f)'
  BY <1>1, <1>2, <1>3, <1>5, <1>6, <1>7, <1>8 DEF Local, Fates
<1> QED BY <1>9, <1>10, <1>11, <1>12, <1>13 DEF Local

-----------------------------------------------------------------------------
LEMMA NextWInv == WInv /\ [Next]_vars => WInv'
<1> SUFFICES ASSUME WInv, [Next]_vars PROVE WInv'
  OBVIOUS
<1>1. CASE UNCHANGED vars
  BY <1>1, OthersKeep DEF vars, WInv, Mutex
<1>2. ASSUME NEW f \in Fetchers,
             Fetch(f) \/ Lock(f) \/ Collect(f) \/ \E w \in Workers : Work(f, w)
      PROVE  WInv'
  <2>1. /\ DOMAIN call' = Fetchers /\ DOMAIN worker' = Fetchers
        /\ DOMAIN fate' = Fetchers /\ DOMAIN heard' = Fetchers
        /\ \A g \in Fetchers \ {f} :
              /\ call'[g] = call[g] /\ worker'[g] = worker[g]
              /\ fate'[g] = fate[g] /\ heard'[g] = heard[g]
    BY <1>2 DEF WInv, Fetch, Lock, Collect, NoPage, GetPage, CollectOk, CollectFailed,
          Collected, Return, Work, Exit, Take, Process, Send, GoOn
  <2>2. Local(f)'
    BY <1>2, FetchKeeps, LockKeeps, ReturnKeeps, GetPageKeeps, CollectOkKeeps, ExitKeeps,
       TakeKeeps, ProcessKeeps, SendKeeps
       DEF Collect, NoPage, CollectFailed, Collected, Work
  <2>3. \A g \in Fetchers \ {f} : Local(g)'
    BY <2>1, OthersKeep DEF WInv
  <2>4. mu' \in Fetchers \cup {Free} /\ Mutex'
    <3>1. call[f] \in Call
      BY DEF WInv, Local, Shape
    <3>2. CASE Fetch(f) \/ \E w \in Workers : Work(f, w)
      <4>1. mu' = mu
        BY <3>2 DEF Fetch, Work, Exit, Take, Process, Send
      <4>2. call'[f].at \in {"page", "collect"} => call[f].at \in {"page", "collect"}
        BY <3>1, <3>2 DEF WInv, Fetch, NoCall, Work, Exit, Take, Process, Send, Call
      <4> QED BY <2>1, <4>1, <4>2 DEF WInv, Mutex
    <3>3. CASE Lock(f)
      BY <2>1, <3>3, WorkersAssumption DEF WInv, Mutex, Lock
    <3>4. CASE GetPage(f) \/ CollectOk(f)
      BY <2>1, <3>4 DEF WInv, Mutex, GetPage, CollectOk
    <3>5. CASE NoPage(f) \/ CollectFailed(f) \/ Collected(f)
      <4>1. mu = f /\ mu' = Free /\ call'[f].at = "idle"
        BY <3>1, <3>5 DEF WInv, Mutex, NoPage, CollectFailed, Collected, Return, Call
      <4> QED BY <2>1, <4>1 DEF WInv, Mutex
    <3> QED BY <1>2, <3>2, <3>3, <3>4, <3>5 DEF Collect
  <2> QED BY <2>1, <2>2, <2>3, <2>4 DEF WInv
<1> QED BY <1>1, <1>2 DEF Next

THEOREM WorkersInvariance == Spec => []WInv
BY InitWInv, NextWInv, PTL DEF Spec

\* No post of a page is lost, taken by two workers, or counted twice, for any number
\* of workers and any capacity of dst, also after tryFetchPage has returned.
THEOREM PostsInOnePlace == Spec => []EachInOnePlace
<1>1. WInv => EachInOnePlace
  BY DEF WInv, Local, EachInOnePlace
<1> QED BY <1>1, WorkersInvariance, PTL

-----------------------------------------------------------------------------
(* The collecting loop and its workers do not wait for each other.         *)

\* No worker leaves its page while the results are collected.
Manned == \A f \in Fetchers :
    call[f].at = "collect" => \A w \in Workers : worker[f][w].at # "exit"

LEMMA NextManned == WInv /\ Manned /\ [Next]_vars => Manned'
<1> SUFFICES ASSUME WInv, Manned, [Next]_vars, NEW f \in Fetchers, NEW w \in Workers,
                    call'[f].at = "collect"
             PROVE  worker'[f][w].at # "exit"
  BY DEF Manned
<1>1. /\ Local(f) /\ call[f] \in Call /\ worker[f] \in [Workers -> Worker]
      /\ call[f].at = "collect" => worker[f][w].at # "exit" /\ ~call[f].cancelled
  BY DEF WInv, Local, Shape, Context, Manned
<1>2. CASE call'[f] = call[f] /\ worker'[f] = worker[f]
  BY <1>1, <1>2
<1>3. CASE Fetch(f) \/ Lock(f) \/ NoPage(f) \/ CollectFailed(f) \/ Collected(f)
  <2>1. CASE Fetch(f)
    BY <2>1 DEF WInv, Fetch, NoCall
  <2>2. CASE Lock(f)
    BY <1>1, <2>2 DEF WInv, Lock, Call
  <2>3. CASE NoPage(f) \/ CollectFailed(f) \/ Collected(f)
    BY <1>1, <2>3 DEF WInv, NoPage, CollectFailed, Collected, Return, Call
  <2> QED BY <1>3, <2>1, <2>2, <2>3
<1>4. CASE GetPage(f)
  BY <1>4 DEF WInv, GetPage, Receiving, At
<1>5. CASE CollectOk(f)
  BY <1>1, <1>5 DEF CollectOk
<1>6. ASSUME NEW v \in Workers, Work(f, v)
      PROVE  worker'[f][w].at # "exit"
  <2>1. call'[f].at = call[f].at
    BY <1>1, <1>6 DEF Work, Exit, Take, Process, Send, WInv, Call
  <2>2. PICK to \in {Receiving, At("busy", call[f].src), At("send", worker[f][v].k)} :
            worker'[f] = [worker[f] EXCEPT ![v] = to]
    BY <1>1, <1>6, <2>1 DEF Work, Exit, Take, Process, Send, GoOn, WInv
  <2>3. to.at # "exit"
    BY <2>2 DEF Receiving, At
  <2> QED BY <1>1, <2>1, <2>2, <2>3
<1>7. ASSUME NEW g \in Fetchers, g # f,
             Fetch(g) \/ Lock(g) \/ Collect(g) \/ \E v \in Workers : Work(g, v)
      PROVE  call'[f] = call[f] /\ worker'[f] = worker[f]
  BY <1>7 DEF WInv, Fetch, Lock, Collect, NoPage, GetPage, CollectOk, CollectFailed,
        Collected, Return, Work, Exit, Take, Process, Send, GoOn
<1>8. CASE UNCHANGED vars
  BY <1>2, <1>8 DEF vars
<1> QED BY <1>2, <1>3, <1>4, <1>5, <1>6, <1>7, <1>8 DEF Next, Collect

\* If no result is there and no worker can go on, all posts have been taken and nobody
\* holds one: then the loop has heard of each.
LEMMA ServedOrDone == WInv /\ Manned => CollectorServed
<1> SUFFICES ASSUME WInv, Manned, NEW f \in Fetchers,
                    call[f].at = "collect", call[f].count < Len(call[f].page),
                    call[f].dst = <<>>, \A w \in Workers : ~GoesOn(f, w)
             PROVE  FALSE
  BY DEF CollectorServed
<1> DEFINE n == Len(call[f].page)
<1>1. /\ Local(f) /\ call[f] \in Call /\ worker[f] \in [Workers -> Worker] /\ n \in Nat
      /\ ~call[f].cancelled /\ \A w \in Workers : worker[f][w].at # "exit"
  BY DEF WInv, Local, Shape, Context, Manned, Call
<1>2. \A w \in Workers : worker[f][w].at = "recv" /\ ~(call[f].src <= n)
  <2>1. Len(call[f].dst) < Capacity
    BY WorkersAssumption
  <2>2. \A w \in Workers : worker[f][w].at \in {"exit", "recv", "busy", "send"}
    BY <1>1 DEF Worker
  <2> QED BY <1>1, <2>1, <2>2 DEF GoesOn
<1>3. Held(f) = {} /\ InDst(f) = {}
  BY <1>1, <1>2 DEF Local, Hands, Held, InDst
<1>4. 1 .. call[f].src - 1 \subseteq heard[f]
  BY <1>1, <1>3 DEF Local, OnePlace
<1>5. call[f].src = n + 1
  <2>1. ~(call[f].src <= n)
    BY <1>2, WorkersAssumption
  <2>2. call[f].src \in 1 .. n + 1
    BY <1>1 DEF Local, OnePlace
  <2> QED BY <1>1, <2>1, <2>2
<1>6. heard[f] = 1 .. n
  <2>1. heard[f] \subseteq 1 .. n
    BY <1>1 DEF Local, Shape
  <2>2. call[f].src - 1 = n
    BY <1>1, <1>5
  <2> QED BY <1>4, <2>1, <2>2
<1>7. call[f].count = n
  <2>1. call[f].count = Cardinality(heard[f])
    BY <1>1 DEF Local, Counted
  <2>2. Cardinality(1 .. n) = n
    BY <1>1, FS_Interval
  <2> QED BY <1>6, <2>1, <2>2
<1> QED BY <1>1, <1>7

\* There is no deadlock between the collecting loop and the workers, for any number of
\* both, and any capacity of dst: tryFetchPage never waits for a result that no worker
\* is on its way to send.
THEOREM NobodyWaitsInVain == Spec => []CollectorServed
<1>1. Init => Manned
  BY DEF Init, Manned, NoCall
<1>2. Spec => []Manned
  BY <1>1, NextManned, WorkersInvariance, PTL DEF Spec
<1> QED BY <1>2, ServedOrDone, WorkersInvariance, PTL

-----------------------------------------------------------------------------
(* Refinement: what the collecting loop may conclude from the results.     *)
phase == [f \in Fetchers |-> PhaseOf(f)]
post == [f \in Fetchers |-> [k \in DOMAIN fate[f] |-> PostOf(f, k)]]

\* The loop has counted as many results as there are posts: it has heard of each.
LEMMA AllHeard ==
    ASSUME NEW f \in Fetchers, Local(f), Collected(f)
    PROVE  heard[f] = 1 .. Len(call[f].page)
<1>1. /\ heard[f] \subseteq 1 .. Len(call[f].page) /\ Len(call[f].page) \in Nat
      /\ Cardinality(heard[f]) = Len(call[f].page)
  BY DEF Local, Shape, Call, Counted, Collected
<1>2. /\ IsFiniteSet(1 .. Len(call[f].page))
      /\ Cardinality(1 .. Len(call[f].page)) = Len(call[f].page)
  BY <1>1, FS_Interval
<1> QED BY <1>1, <1>2, FS_Subset

\* A step that changes neither the point of a fetcher nor what its posts came to.
LEMMA Stutters ==
    ASSUME WInv, NEW f \in Fetchers,
           fate' = fate, PhaseOf(f)' = PhaseOf(f),
           \A g \in Fetchers \ {f} : call'[g] = call[g]
    PROVE  UNCHANGED <<phase, post>>
<1>1. \A g \in Fetchers : PhaseOf(g)' = PhaseOf(g)
  BY DEF PhaseOf
<1> QED BY <1>1 DEF phase, post, PostOf

\* A step that moves the phase of f alone.
LEMMA PhaseMoves ==
    ASSUME WInv, NEW f \in Fetchers, \A g \in Fetchers \ {f} : call'[g] = call[g]
    PROVE  phase' = [phase EXCEPT ![f] = PhaseOf(f)']
<1>1. \A g \in Fetchers \ {f} : PhaseOf(g)' = PhaseOf(g)
  BY DEF PhaseOf
<1> QED BY <1>1 DEF phase

LEMMA PostsMove ==
    ASSUME WInv, NEW f \in Fetchers, \A g \in Fetchers \ {f} : fate'[g] = fate[g]
    PROVE  post' = [post EXCEPT ![f] = [k \in DOMAIN fate'[f] |-> PostOf(f, k)']]
<1>1. \A g \in Fetchers \ {f} :
          [k \in DOMAIN fate'[g] |-> PostOf(g, k)'] = [k \in DOMAIN fate[g] |-> PostOf(g, k)]
  BY DEF PostOf
<1> QED BY <1>1 DEF post

LEMMA StepPromise ==
    ASSUME WInv, NEW f \in Fetchers,
           Fetch(f) \/ Lock(f) \/ Collect(f) \/ \E w \in Workers : Work(f, w)
    PROVE  [Promise!Next]_<<phase, post>>
<1>1. Local(f) /\ call[f] \in Call
  BY DEF WInv, Local, Shape
<1>2. /\ \A g \in Fetchers \ {f} : call'[g] = call[g] /\ fate'[g] = fate[g]
      /\ phase' = [phase EXCEPT ![f] = PhaseOf(f)']
      /\ post' = [post EXCEPT ![f] = [k \in DOMAIN fate'[f] |-> PostOf(f, k)']]
      /\ phase[f] = PhaseOf(f) /\ post[f] = [k \in DOMAIN fate[f] |-> PostOf(f, k)]
  <2>1. \A g \in Fetchers \ {f} : call'[g] = call[g] /\ fate'[g] = fate[g]
    BY DEF WInv, Fetch, Lock, Collect, NoPage, GetPage, CollectOk, CollectFailed,
          Collected, Return, Work, Exit, Take, Process, Send
  <2> QED BY <2>1, PhaseMoves, PostsMove DEF phase, post
<1>3. CASE Fetch(f)
  <2>1. call[f].at = "idle" /\ call'[f] = [NoCall EXCEPT !.at = "lock"] /\ fate'[f] = <<>>
    BY <1>3 DEF Fetch, WInv
  <2>2. PhaseOf(f) # "collecting" /\ PhaseOf(f)' = "none"
    BY <1>1, <2>1 DEF PhaseOf, NoCall, Call
  <2>3. [k \in DOMAIN fate'[f] |-> PostOf(f, k)'] = <<>>
    BY <2>1
  <2>4. Promise!Call(f)
    BY <1>2, <2>2, <2>3 DEF Promise!Call, phase, post
  <2> QED BY <2>4 DEF Promise!Next
<1>4. CASE Lock(f) \/ NoPage(f)
  <2>1. /\ call[f].at \in {"lock", "page"} /\ fate' = fate
        /\ call'[f].at \in {"page", "idle"} /\ call'[f].result = "none"
    BY <1>1, <1>4 DEF Lock, NoPage, Return, WInv, Local, Fresh, NoCall, Call
  <2>2. call[f].result = "none"
    BY <1>1, <2>1 DEF Local, Fresh, NoCall
  <2>3. PhaseOf(f)' = PhaseOf(f)
    BY <2>1, <2>2 DEF PhaseOf
  <2> QED BY <1>2, <2>1, <2>3, Stutters
<1>5. CASE GetPage(f)
  <2>1. PICK page \in Pages[f] :
            /\ call'[f].at = "collect" /\ fate'[f] = [k \in 1 .. Len(page) |-> "todo"]
    BY <1>1, <1>5 DEF GetPage, WInv, Call
  <2>2. call[f].at = "page" /\ call[f].result = "none" /\ mu = f
    BY <1>1, <1>5 DEF GetPage, WInv, Mutex, Local, Fresh, NoCall
  <2>3. \A g \in Fetchers : phase[g] # "collecting"
    <3> SUFFICES ASSUME NEW g \in Fetchers PROVE PhaseOf(g) # "collecting"
      BY DEF phase
    <3>1. call[g] \in Call /\ (call[g].at = "collect" => g = f)
      BY <2>2 DEF WInv, Mutex, Local, Shape
    <3> QED BY <2>2, <3>1 DEF PhaseOf, Call
  <2>4. PhaseOf(f) = "none" /\ PhaseOf(f)' = "collecting"
    BY <2>1, <2>2 DEF PhaseOf
  <2>5. [k \in DOMAIN fate'[f] |-> PostOf(f, k)'] = [k \in 1 .. Len(page) |-> "todo"]
    BY <2>1 DEF PostOf
  <2>6. Len(page) \in 1 .. PageSize
    BY WorkersAssumption
  <2>7. Promise!Begin(f)
    BY <1>2, <2>3, <2>4, <2>5, <2>6 DEF Promise!Begin, phase, post
  <2> QED BY <2>7 DEF Promise!Next
<1>6. CASE CollectOk(f)
  <2>1. fate' = fate /\ call'[f].at = "collect" /\ call[f].at = "collect"
    BY <1>1, <1>6 DEF CollectOk, WInv, Call
  <2>2. PhaseOf(f)' = PhaseOf(f)
    BY <2>1 DEF PhaseOf
  <2> QED BY <1>2, <2>1, <2>2, Stutters
<1>7. CASE CollectFailed(f)
  <2>1. /\ call[f].at = "collect" /\ fate' = fate
        /\ call'[f].at = "idle" /\ call'[f].result = "failed"
        /\ call[f].dst # <<>> /\ fate[f][Head(call[f].dst)] = "failed"
    BY <1>1, <1>7 DEF CollectFailed, Return, WInv, Call
  <2>2. Head(call[f].dst) \in DOMAIN fate[f]
    <3>1. call[f].dst \in Seq(Nat) /\ Distinct(call[f].dst) /\ InDst(f) = Elements(call[f].dst)
      BY <1>1 DEF Local, OnePlace, Call, Distinct, InDst, Elements
    <3>2. Head(call[f].dst) \in InDst(f)
      BY <2>1, <3>1, TailElements
    <3>3. InDst(f) \subseteq 1 .. Len(call[f].page) /\ DOMAIN fate[f] = 1 .. Len(call[f].page)
      BY <1>1 DEF Local, OnePlace, Shape, Call
    <3> QED BY <3>2, <3>3
  <2>3. \E k \in DOMAIN post[f] : post[f][k] = "failed"
    BY <1>2, <2>1, <2>2 DEF PostOf
  <2>4. PhaseOf(f) = "collecting" /\ PhaseOf(f)' = "failed"
    BY <2>1 DEF PhaseOf
  <2>5. post' = post
    BY <2>1 DEF post, PostOf
  <2>6. Promise!Fail(f)
    BY <1>2, <2>3, <2>4, <2>5 DEF Promise!Fail, phase, post
  <2> QED BY <2>6 DEF Promise!Next
<1>8. CASE Collected(f)
  <2>1. /\ call[f].at = "collect" /\ fate' = fate
        /\ call'[f].at = "idle" /\ call'[f].result = "seen"
    BY <1>1, <1>8 DEF Collected, Return, WInv, Call
  <2>2. \A k \in DOMAIN fate[f] : fate[f][k] \notin {"todo", "failed"}
    BY <1>1, <1>8, AllHeard DEF Local, Shape, Fates
  <2>3. \A k \in DOMAIN post[f] : post[f][k] = "ok"
    BY <1>2, <2>2 DEF PostOf
  <2>4. PhaseOf(f) = "collecting" /\ PhaseOf(f)' = "seen"
    BY <2>1 DEF PhaseOf
  <2>5. post' = post
    BY <2>1 DEF post, PostOf
  <2>6. Promise!Seen(f)
    BY <1>2, <2>3, <2>4, <2>5 DEF Promise!Seen, phase, post
  <2> QED BY <2>6 DEF Promise!Next
<1>9. ASSUME NEW w \in Workers, Exit(f, w) \/ Take(f, w) \/ Send(f, w)
      PROVE  [Promise!Next]_<<phase, post>>
  <2>1. /\ fate' = fate /\ call'[f].at = call[f].at
        /\ call'[f].result = call[f].result
    BY <1>1, <1>9 DEF Exit, Take, Send, WInv, Call
  <2>2. PhaseOf(f)' = PhaseOf(f)
    BY <2>1 DEF PhaseOf
  <2> QED BY <1>2, <2>1, <2>2, Stutters
<1>10. ASSUME NEW w \in Workers, Process(f, w)
       PROVE  [Promise!Next]_<<phase, post>>
  <2>1. PICK k \in Nat : k = worker[f][w].k
    BY <1>1 DEF Local, Shape, Worker
  <2>2. PICK outcome \in Outcomes(call[f].page[k]) :
            fate'[f] = [fate[f] EXCEPT ![k] = outcome]
    BY <1>10, <2>1 DEF Process, WInv
  <2>3. call' = call /\ worker[f][w].at = "busy"
    BY <1>10 DEF Process
  <2>4. k \in DOMAIN fate[f] /\ fate[f][k] = "todo"
    <3>1. k # 0 /\ k \in Held(f) /\ fate[f][k] = "todo"
      BY <1>1, <2>3, <2>1 DEF Local, Hands, Held, Fates
    <3>2. Held(f) \subseteq 1 .. Len(call[f].page) /\ DOMAIN fate[f] = 1 .. Len(call[f].page)
      BY <1>1 DEF Local, OnePlace, Shape, Call
    <3> QED BY <3>1, <3>2
  <2>5. outcome # "todo"
    BY DEF Outcomes, Verdict
  <2>6. PICK result \in {"ok", "failed"} : PostOf(f, k)' = result
    <3>1. fate'[f][k] = outcome
      BY <2>2, <2>4
    <3>2. PostOf(f, k)' \in {"ok", "failed"}
      BY <2>5, <3>1 DEF PostOf
    <3> QED BY <3>2
  <2>7. post'[f] = [post[f] EXCEPT ![k] = result]
    <3>1. DOMAIN fate'[f] = DOMAIN fate[f]
      BY <2>2
    <3>2. \A j \in DOMAIN fate[f] : j # k => PostOf(f, j)' = PostOf(f, j)
      BY <2>2 DEF PostOf
    <3>3. post'[f] = [j \in DOMAIN fate[f] |-> PostOf(f, j)']
      BY <3>1 DEF post
    <3>4. post[f] = [j \in DOMAIN fate[f] |-> PostOf(f, j)]
      BY <1>2
    <3> QED BY <2>4, <2>6, <3>2, <3>3, <3>4
  <2>8. post' = [post EXCEPT ![f][k] = result]
    BY <1>2, <2>7 DEF post
  <2>9. phase' = phase
    BY <2>3 DEF phase, PhaseOf
  <2>10. k \in DOMAIN post[f] /\ post[f][k] = "todo"
    BY <1>2, <2>4 DEF PostOf
  <2>11. Promise!Process(f, k)
    BY <2>8, <2>9, <2>10 DEF Promise!Process, phase, post
  <2>12. \E j \in DOMAIN post[f] : Promise!Process(f, j)
    BY <2>10, <2>11
  <2>13. Promise!Next
    BY <2>12 DEF Promise!Next, post
  <2> QED BY <2>13
<1> QED BY <1>3, <1>4, <1>5, <1>6, <1>7, <1>8, <1>9, <1>10 DEF Collect, Work

\* A page counts as seen only when each of its posts was processed without an error,
\* and an error is returned only for a post that failed, for any number of workers,
\* any size of the channels and any order of the results.
THEOREM PageSeenMeansAll == Spec => ImplementsPromise
<1>1. Init => Promise!Init
  <2> SUFFICES ASSUME Init PROVE Promise!Init
    OBVIOUS
  <2>1. \A f \in Fetchers : PhaseOf(f) = "none" /\ [k \in DOMAIN fate[f] |-> PostOf(f, k)] = <<>>
    BY DEF Init, PhaseOf, NoCall
  <2> QED BY <2>1 DEF Promise!Init
<1>2. WInv /\ [Next]_vars => [Promise!Next]_<<phase, post>>
  <2> SUFFICES ASSUME WInv, [Next]_vars PROVE [Promise!Next]_<<phase, post>>
    OBVIOUS
  <2>1. CASE UNCHANGED vars
    BY <2>1 DEF vars, phase, post, PhaseOf, PostOf
  <2> QED BY <2>1, StepPromise DEF Next
<1> QED BY <1>1, <1>2, WorkersInvariance, PTL DEF Spec, ImplementsPromise, Promise!Spec, phase, post

-----------------------------------------------------------------------------
(* The filter.  Its function is defined by recursion: that it exists, and what *)
(* it returns, is shown by a smallest counterexample.                          *)
LEMMA LeastNumber ==
    ASSUME NEW T, T \subseteq Nat, T # {}
    PROVE  \E n \in T : \A m \in T : n <= m
<1>1. \E x \in T : \A y \in T : ~(<<y, x>> \in OpToRel(<, Nat))
  BY WFMin, NatLessThanWellFounded, Zenon
<1>2. PICK x \in T : \A y \in T : ~(<<y, x>> \in OpToRel(<, Nat))
  BY <1>1
<1>3. \A y \in T : ~(y < x)
  BY <1>2 DEF OpToRel
<1> QED BY <1>3

\* g is what the loop over the tags comes to after each of its first n turns.
Turn(s, t) == IF s.refused THEN s ELSE LookAt(s, t)
Loop(g, tags, n) ==
    g = [i \in 0 .. n |->
            IF i = 0 THEN Start
            ELSE IF g[i - 1].refused THEN g[i - 1]
            ELSE LookAt(g[i - 1], tags[i])]

LEMMA LoopTurns ==
    ASSUME NEW tags, NEW n \in Nat, NEW g
    PROVE  Loop(g, tags, n) <=>
               g = [i \in 0 .. n |-> IF i = 0 THEN Start ELSE Turn(g[i - 1], tags[i])]
BY DEF Loop, Turn

LEMMA LoopExists ==
    ASSUME NEW tags, NEW n \in Nat
    PROVE  \E g : Loop(g, tags, n)
<1> DEFINE T == {m \in Nat : ~ \E g : Loop(g, tags, m)}
<1> SUFFICES ASSUME T # {} PROVE FALSE
  OBVIOUS
<1>1. PICK m \in T : \A l \in T : m <= l
  <2>1. T \subseteq Nat
    OBVIOUS
  <2> HIDE DEF T
  <2> QED BY <2>1, LeastNumber
<1>2. m # 0
  <2>1. Loop([i \in 0 .. 0 |-> Start], tags, 0)
    BY DEF Loop
  <2> QED BY <1>1, <2>1
<1>3. PICK g : Loop(g, tags, m - 1)
  BY <1>1, <1>2
<1> DEFINE h == [i \in 0 .. m |-> IF i = m THEN Turn(g[m - 1], tags[m]) ELSE g[i]]
<1>4. \A i \in 0 .. m - 1 : g[i] = IF i = 0 THEN Start ELSE Turn(g[i - 1], tags[i])
  BY <1>3 DEF Loop, Turn
<1>5. \A i \in 0 .. m : h[i] = IF i = 0 THEN Start ELSE Turn(h[i - 1], tags[i])
  <2> SUFFICES ASSUME NEW i \in 0 .. m
               PROVE  h[i] = IF i = 0 THEN Start ELSE Turn(h[i - 1], tags[i])
    OBVIOUS
  <2>1. CASE i = 0
    BY <1>2, <1>4, <2>1
  <2>2. CASE i # 0
    <3>1. i - 1 \in 0 .. m /\ i - 1 # m /\ m \in Nat
      BY <2>2
    <3>2. h[i - 1] = g[i - 1]
      BY <3>1
    <3>3. CASE i = m
      BY <1>2, <3>2, <3>3
    <3>4. CASE i # m
      BY <1>4, <2>2, <3>2, <3>4
    <3> QED BY <3>3, <3>4
  <2> QED BY <2>1, <2>2
<1>6. h = [i \in 0 .. m |-> IF i = 0 THEN Start ELSE Turn(h[i - 1], tags[i])]
  BY <1>5
<1>7. Loop(h, tags, m)
  BY <1>6, LoopTurns
<1> QED BY <1>1, <1>7

\* What the first n tags of a post tell: whether the loop has to refuse it, and else
\* which of the tags that it looks for are among them.
Refused(tags, n) ==
    \/ \E i \in 1 .. n : tags[i] \in Blacklisted
    \/ \E i, j \in 1 .. n : i < j /\ tags[i] \in Characters /\ tags[j] \in Characters
HasChar(tags, n) == \E i \in 1 .. n : tags[i] \in Characters
HasSolo(tags, n) == \E i \in 1 .. n : tags[i] = Solo
HasRequested(tags, n) == \E i \in 1 .. n : Lower[tags[i]] = Requested

Scanned(s, tags, n) ==
    /\ s.refused <=> Refused(tags, n)
    /\ ~s.refused =>
        /\ s.hasChar <=> HasChar(tags, n)
        /\ s.hasSolo <=> HasSolo(tags, n)
        /\ s.containsRequested <=> HasRequested(tags, n)

Scan == [hasChar : BOOLEAN, hasSolo : BOOLEAN, containsRequested : BOOLEAN,
         refused : BOOLEAN]

\* What one more tag adds.
LEMMA OneTagMore ==
    ASSUME NEW tags, NEW n \in Nat \ {0}
    PROVE  LET t == tags[n]
           IN  /\ Refused(tags, n) <=> \/ Refused(tags, n - 1) \/ t \in Blacklisted
                                       \/ t \in Characters /\ HasChar(tags, n - 1)
               /\ HasChar(tags, n) <=> HasChar(tags, n - 1) \/ t \in Characters
               /\ HasSolo(tags, n) <=> HasSolo(tags, n - 1) \/ t = Solo
               /\ HasRequested(tags, n) <=> HasRequested(tags, n - 1) \/ Lower[t] = Requested
<1>1. /\ \A i \in 1 .. n : i \in 1 .. n - 1 \/ i = n
      /\ \A i \in 1 .. n - 1 : i \in 1 .. n /\ i < n
      /\ n \in 1 .. n
  OBVIOUS
<1>2. Refused(tags, n) <=> \/ Refused(tags, n - 1) \/ tags[n] \in Blacklisted
                           \/ tags[n] \in Characters /\ HasChar(tags, n - 1)
  <2>1. ASSUME Refused(tags, n)
        PROVE  \/ Refused(tags, n - 1) \/ tags[n] \in Blacklisted
               \/ tags[n] \in Characters /\ HasChar(tags, n - 1)
    <3>1. CASE \E i \in 1 .. n : tags[i] \in Blacklisted
      BY <1>1, <3>1 DEF Refused
    <3>2. ASSUME NEW i \in 1 .. n, NEW j \in 1 .. n, i < j,
                 tags[i] \in Characters, tags[j] \in Characters
          PROVE  Refused(tags, n - 1) \/ (tags[n] \in Characters /\ HasChar(tags, n - 1))
      <4>1. i \in 1 .. n - 1
        BY <3>2
      <4>2. CASE j = n
        BY <3>2, <4>1, <4>2 DEF HasChar
      <4>3. CASE j # n
        BY <1>1, <3>2, <4>1, <4>3 DEF Refused
      <4> QED BY <4>2, <4>3
    <3> QED BY <2>1, <3>1, <3>2 DEF Refused
  <2>2. Refused(tags, n - 1) \/ tags[n] \in Blacklisted => Refused(tags, n)
    BY <1>1 DEF Refused
  <2>3. tags[n] \in Characters /\ HasChar(tags, n - 1) => Refused(tags, n)
    BY <1>1 DEF Refused, HasChar
  <2> QED BY <2>1, <2>2, <2>3
<1>3. /\ HasChar(tags, n) <=> HasChar(tags, n - 1) \/ tags[n] \in Characters
      /\ HasSolo(tags, n) <=> HasSolo(tags, n - 1) \/ tags[n] = Solo
      /\ HasRequested(tags, n) <=> HasRequested(tags, n - 1) \/ Lower[tags[n]] = Requested
  BY <1>1 DEF HasChar, HasSolo, HasRequested
<1> QED BY <1>2, <1>3

\* A turn of the loop takes account of one more tag.
LEMMA TurnScans ==
    ASSUME NEW tags, NEW n \in Nat \ {0}, NEW s \in Scan, Scanned(s, tags, n - 1)
    PROVE  Turn(s, tags[n]) \in Scan /\ Scanned(Turn(s, tags[n]), tags, n)
<1> DEFINE t == tags[n]
           r == Turn(s, t)
<1>1. CASE s.refused
  BY <1>1, OneTagMore DEF Turn, Scanned
<1>2. CASE ~s.refused /\ ((t \in Characters /\ s.hasChar) \/ t \in Blacklisted)
  <2>1. r \in Scan /\ r.refused
    BY <1>2 DEF Turn, LookAt, Scan
  <2>2. Refused(tags, n)
    BY <1>2, OneTagMore DEF Scanned
  <2> QED BY <2>1, <2>2 DEF Scanned
<1>3. CASE ~s.refused /\ ~(t \in Characters /\ s.hasChar) /\ t \notin Blacklisted
  <2>1. r = [s EXCEPT !.hasChar = @ \/ t \in Characters, !.hasSolo = @ \/ t = Solo,
                      !.containsRequested = @ \/ Lower[t] = Requested]
    BY <1>3 DEF Turn, LookAt
  <2>2. /\ r \in Scan /\ ~r.refused
        /\ r.hasChar <=> s.hasChar \/ t \in Characters
        /\ r.hasSolo <=> s.hasSolo \/ t = Solo
        /\ r.containsRequested <=> s.containsRequested \/ Lower[t] = Requested
    BY <1>3, <2>1 DEF Scan
  <2>3. /\ ~Refused(tags, n)
        /\ HasChar(tags, n) <=> s.hasChar \/ t \in Characters
        /\ HasSolo(tags, n) <=> s.hasSolo \/ t = Solo
        /\ HasRequested(tags, n) <=> s.containsRequested \/ Lower[t] = Requested
    BY <1>3, OneTagMore DEF Scanned
  <2> QED BY <2>2, <2>3 DEF Scanned
<1> QED BY <1>1, <1>2, <1>3

LEMMA LoopScans ==
    ASSUME NEW tags, NEW n \in Nat, NEW g, Loop(g, tags, n)
    PROVE  \A i \in 0 .. n : g[i] \in Scan /\ Scanned(g[i], tags, i)
<1> DEFINE T == {i \in 0 .. n : ~(g[i] \in Scan /\ Scanned(g[i], tags, i))}
<1> SUFFICES ASSUME T # {} PROVE FALSE
  OBVIOUS
<1>1. PICK i \in T : \A l \in T : i <= l
  <2>1. T \subseteq Nat
    OBVIOUS
  <2> HIDE DEF T
  <2> QED BY <2>1, LeastNumber
<1>2. \A k \in 0 .. n : g[k] = IF k = 0 THEN Start ELSE Turn(g[k - 1], tags[k])
  BY DEF Loop, Turn
<1>3. i # 0
  <2>1. Start \in Scan /\ Scanned(Start, tags, 0)
    BY DEF Start, Scan, Scanned, Refused, HasChar, HasSolo, HasRequested
  <2> QED BY <1>1, <1>2, <2>1
<1>4. i \in Nat \ {0} /\ i - 1 \in 0 .. n /\ i - 1 \notin T
  BY <1>1, <1>3
<1>5. g[i - 1] \in Scan /\ Scanned(g[i - 1], tags, i - 1)
  BY <1>4
<1>6. g[i] = Turn(g[i - 1], tags[i])
  BY <1>1, <1>2, <1>3
<1> QED BY <1>1, <1>4, <1>5, <1>6, TurnScans

LEMMA TagsScanned ==
    ASSUME NEW tags, Len(tags) \in Nat
    PROVE  AfterTags(tags) \in Scan /\ Scanned(AfterTags(tags), tags, Len(tags))
<1>1. \E g : Loop(g, tags, Len(tags))
  BY LoopExists
<1>2. AfterTags(tags) = (CHOOSE g : Loop(g, tags, Len(tags)))[Len(tags)]
  BY DEF AfterTags, Loop
<1>3. PICK g : Loop(g, tags, Len(tags)) /\ AfterTags(tags) = g[Len(tags)]
  BY <1>1, <1>2
<1> QED BY <1>3, LoopScans

\* The filter accepts what the comments of processPost ask for.
LEMMA VerdictExact ==
    ASSUME NEW p \in Post
    PROVE  Verdict(p) = IF ~p.md5 THEN "ignored"
                        ELSE IF Suitable(p) THEN "pending" ELSE "blacklisted"
<1> DEFINE s == AfterTags(p.tags)
           n == Len(p.tags)
<1>1. n \in Nat /\ p.still \in BOOLEAN
  BY DEF Post
<1>2. s \in Scan /\ Scanned(s, p.tags, n)
  BY <1>1, TagsScanned
<1> HIDE DEF s
<1>3. Suitable(p) <=> p.still /\ ~Refused(p.tags, n) /\ HasSolo(p.tags, n)
                              /\ HasRequested(p.tags, n)
  <2>1. (\A i, j \in 1 .. n : p.tags[i] \in Characters /\ p.tags[j] \in Characters => i = j)
        <=> ~ \E i, j \in 1 .. n : i < j /\ p.tags[i] \in Characters /\ p.tags[j] \in Characters
    <3>1. \A i, j \in 1 .. n : i # j => i < j \/ j < i
      BY <1>1
    <3>2. \A i, j \in 1 .. n : i < j => i # j
      BY <1>1
    <3> QED BY <3>1, <3>2
  <2>2. TagsOf(p) \cap Blacklisted = {} <=> ~ \E i \in 1 .. n : p.tags[i] \in Blacklisted
    BY DEF TagsOf
  <2> QED BY <2>1, <2>2 DEF Suitable, TagsOf, Refused, HasSolo, HasRequested
<1>4. Suitable(p) <=> p.still /\ ~s.refused /\ s.hasSolo /\ s.containsRequested
  BY <1>2, <1>3 DEF Scanned
<1>5. Verdict(p) = IF ~p.md5 THEN "ignored"
                   ELSE IF ~p.still \/ s.refused \/ ~s.containsRequested \/ ~s.hasSolo
                   THEN "blacklisted" ELSE "pending"
  BY DEF Verdict, s
<1> QED BY <1>4, <1>5

\* What became of a post is one of its outcomes.
Judged == \A f \in Fetchers : \A k \in 1 .. Len(call[f].page) :
    fate[f][k] \in {"todo"} \cup Outcomes(call[f].page[k])

LEMMA NextJudged == WInv /\ Judged /\ [Next]_vars => Judged'
<1> SUFFICES ASSUME WInv, Judged, [Next]_vars,
                    NEW f \in Fetchers, NEW k \in 1 .. Len(call'[f].page)
             PROVE  fate'[f][k] \in {"todo"} \cup Outcomes(call'[f].page[k])
  BY DEF Judged
<1>1. Local(f) /\ call[f] \in Call
  BY DEF WInv, Local, Shape
<1>2. CASE call'[f].page = call[f].page /\ fate'[f] = fate[f]
  BY <1>2 DEF Judged
<1>3. CASE Fetch(f)
  <2>1. call'[f].page = <<>>
    BY <1>3 DEF Fetch, WInv, NoCall
  <2> QED BY <2>1
<1>4. CASE GetPage(f)
  <2>1. PICK page \in Pages[f] :
            /\ call' = [call EXCEPT ![f].at = "collect", ![f].page = page,
                                    ![f].cancelled = FALSE]
            /\ fate' = [fate EXCEPT ![f] = [l \in 1 .. Len(page) |-> "todo"]]
    BY <1>4 DEF GetPage
  <2>2. call'[f].page = page /\ fate'[f] = [l \in 1 .. Len(page) |-> "todo"]
    BY <1>1, <2>1 DEF WInv, Call
  <2> QED BY <2>2
<1>5. ASSUME NEW w \in Workers, Process(f, w)
      PROVE  fate'[f][k] \in {"todo"} \cup Outcomes(call'[f].page[k])
  <2> DEFINE l == worker[f][w].k
  <2>1. PICK outcome \in Outcomes(call[f].page[l]) : fate'[f] = [fate[f] EXCEPT ![l] = outcome]
    BY <1>5 DEF Process, WInv
  <2>2. call' = call
    BY <1>5 DEF Process
  <2>3. k \in DOMAIN fate[f] /\ fate[f][k] \in {"todo"} \cup Outcomes(call[f].page[k])
    BY <1>1, <2>2 DEF Local, Shape, Judged
  <2> HIDE DEF l
  <2> QED BY <2>1, <2>2, <2>3
<1>6. /\ ~Fetch(f) /\ ~GetPage(f) /\ (\A w \in Workers : ~Process(f, w))
         => call'[f].page = call[f].page /\ fate'[f] = fate[f]
  <2>1. CASE UNCHANGED vars
    BY <2>1 DEF vars
  <2>2. ASSUME NEW g \in Fetchers, g # f,
               Fetch(g) \/ Lock(g) \/ Collect(g) \/ \E w \in Workers : Work(g, w)
        PROVE  call'[f] = call[f] /\ fate'[f] = fate[f]
    BY <2>2 DEF WInv, Fetch, Lock, Collect, NoPage, GetPage, CollectOk, CollectFailed,
          Collected, Return, Work, Exit, Take, Process, Send
  <2>3. ASSUME Lock(f) \/ NoPage(f) \/ CollectOk(f) \/ CollectFailed(f) \/ Collected(f)
        PROVE  call'[f].page = call[f].page /\ fate' = fate
    BY <1>1, <2>3 DEF WInv, Lock, NoPage, CollectOk, CollectFailed, Collected, Return, Call
  <2>4. ASSUME NEW w \in Workers, Exit(f, w) \/ Take(f, w) \/ Send(f, w)
        PROVE  call'[f].page = call[f].page /\ fate' = fate
    BY <1>1, <2>4 DEF WInv, Exit, Take, Send, Call
  <2> QED BY <2>1, <2>2, <2>3, <2>4 DEF Next, Collect, Work
<1> QED BY <1>2, <1>3, <1>4, <1>5, <1>6

\* The posts that become pending are the suitable ones, whatever the order and number of
\* their tags, and all others with a hash that were not known are blacklisted.
THEOREM FilterIsExact == Spec => []FilterExact
<1>1. Init => Judged
  BY DEF Init, Judged, NoCall
<1>2. Spec => []Judged
  BY <1>1, NextJudged, WorkersInvariance, PTL DEF Spec
<1>3. WInv /\ Judged => FilterExact
  <2> SUFFICES ASSUME WInv, Judged, NEW f \in Fetchers, NEW k \in 1 .. Len(call[f].page)
               PROVE  LET p == call[f].page[k]
                      IN  /\ fate[f][k] = "pending" => p.md5 /\ Suitable(p)
                          /\ fate[f][k] = "blacklisted" => p.md5 /\ ~Suitable(p)
                          /\ fate[f][k] = "ignored" <=> ~p.md5 /\ fate[f][k] # "todo"
    BY DEF FilterExact
  <2> DEFINE p == call[f].page[k]
  <2>1. p \in Post
    BY DEF WInv, Local, Shape, Call
  <2>2. fate[f][k] \in {"todo"} \cup Outcomes(p)
    BY DEF Judged
  <2> HIDE DEF p
  <2>3. /\ fate[f][k] = "pending" => p.md5 /\ Suitable(p)
        /\ fate[f][k] = "blacklisted" => p.md5 /\ ~Suitable(p)
        /\ fate[f][k] = "ignored" <=> ~p.md5 /\ fate[f][k] # "todo"
    BY <2>1, <2>2, VerdictExact DEF Outcomes
  <2> QED BY <2>3 DEF p
<1> QED BY <1>2, <1>3, WorkersInvariance, PTL
=============================================================================
