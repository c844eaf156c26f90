-------------------------- MODULE PageCacheProofs --------------------------
(***************************************************************************)
(* Theorems about module PageCache, for a booru that does not lose posts,  *)
(* with any number of pages and images and any first estimate.             *)
(***************************************************************************)
EXTENDS PageCache, FiniteSetTheorems, TLAPS

USE CacheAssumption DEF CacheAssumption

\* A cache with as many pages as the estimate has every page below it.
LEMMA AllSeenMeans ==
    ASSUME NEW n \in Nat, NEW S \in SUBSET (0 .. n - 1), Cardinality(S) = n
    PROVE  S = 0 .. n - 1
<1>1. IsFiniteSet(0 .. n - 1) /\ Cardinality(0 .. n - 1) = n
  BY FS_Interval
<1> QED BY <1>1, FS_Subset

LEMMA InitCache == Init => CacheInv
<1> SUFFICES ASSUME Init PROVE CacheInv
  OBVIOUS
<1>1. TypeOK
  <2>1. /\ site \in 0 .. NumPages /\ pages \subseteq 0 .. MaxPages - 1
        /\ maxPages \in 0 .. MaxPages
    BY DEF Init
  <2>2. initializing \in BOOLEAN /\ allFetched \in BOOLEAN
    BY ZenonT(20) DEF Init
  <2> QED BY <2>1, <2>2 DEF Init, TypeOK
<1>2. EstimateInv /\ SeenInv /\ PendingInv /\ AllFetched
  BY DEF Init, EstimateInv, SeenInv, PendingInv, AllFetched, Reachable
<1> QED BY <1>1, <1>2 DEF CacheInv

\* A step keeps the types.
LEMMA NextTypeOK == TypeOK /\ [Next]_vars => TypeOK'
<1> SUFFICES ASSUME TypeOK, [Next]_vars PROVE TypeOK'
  OBVIOUS
<1> USE DEF TypeOK, cache, caller, Return
<1>1. CASE UNCHANGED vars
  BY <1>1 DEF vars
<1>2. CASE Call
  <2>1. initializing' \in BOOLEAN /\ allFetched' \in BOOLEAN
    BY <1>2, ZenonT(20) DEF Call
  <2> QED BY <1>2, <2>1 DEF Call
<1>3. CASE Restart
  <2>1. initializing' \in BOOLEAN /\ allFetched' \in BOOLEAN
    BY <1>3, ZenonT(20) DEF Restart
  <2> QED BY <1>3, <2>1 DEF Restart
<1>4. CASE ImageCount \/ CountPending
  BY <1>4 DEF ImageCount, CountPending
<1>5. CASE ErrAllFetched
  <2>1. allFetched' \in BOOLEAN
    BY <1>5, ZenonT(20) DEF ErrAllFetched
  <2> QED BY <1>5, <2>1 DEF ErrAllFetched
<1>6. CASE NoPages
  BY <1>6 DEF NoPages
<1>7. CASE EmptyTag
  <2>1. maxPages' \in 0 .. MaxPages /\ pages' = pages /\ site' = site
    BY <1>7 DEF EmptyTag
  <2>2. allFetched' \in BOOLEAN /\ initializing' \in BOOLEAN
    BY <1>7, ZenonT(20) DEF EmptyTag
  <2> QED BY <1>7, <2>1, <2>2 DEF EmptyTag
<1>8. CASE Pop
  BY <1>8 DEF Pop, In
<1>9. CASE PopNothing
  BY <1>9 DEF PopNothing
<1>10. CASE Fails
  BY <1>10 DEF Fails, In
<1>11. ASSUME NEW p \in 0 .. MaxPages, CacheHit(p) \/ EmptyPage(p) PROVE TypeOK'
  BY <1>11 DEF CacheHit, EmptyPage
<1>12. ASSUME NEW p \in 0 .. MaxPages, NewPage(p) PROVE TypeOK'
  <2>1. p \in 0 .. MaxPages - 1
    BY <1>12 DEF NewPage, Draw, CanDraw
  <2> QED BY <1>12, <2>1 DEF NewPage, Store
<1>13. ASSUME NEW x \in Images, Elsewhere(x) PROVE TypeOK'
  BY <1>13 DEF Elsewhere
<1>14. ASSUME NEW p \in 0 .. MaxPages, PageFails(p) PROVE TypeOK'
  BY <1>14 DEF PageFails, Store
<1> QED BY <1>1, <1>2, <1>3, <1>4, <1>5, <1>6, <1>7, <1>8, <1>9, <1>10,
           <1>11, <1>12, <1>13, <1>14 DEF Next, Step, TryPage

\* The estimate falls to the number of an empty page, never below the booru's.
LEMMA NextEstimate ==
    ASSUME TypeOK, EstimateInv, [Next]_vars PROVE EstimateInv'
<1> USE DEF TypeOK, EstimateInv, Reachable, cache, caller, Return
<1>1. CASE UNCHANGED <<site, cache>>
  BY <1>1
<1>2. CASE EmptyTag
  BY <1>2 DEF EmptyTag, Draw, CanDraw
<1>3. CASE Restart
  BY <1>3 DEF Restart
<1>4. ASSUME NEW p \in 0 .. MaxPages, NewPage(p) PROVE EstimateInv'
  <2>1. p \in 0 .. maxPages - 1
    BY <1>4 DEF NewPage, Draw, CanDraw
  <2> QED BY <1>4, <2>1 DEF NewPage
<1>5. ASSUME NEW p \in 0 .. MaxPages, EmptyPage(p) PROVE EstimateInv'
  BY <1>5 DEF EmptyPage, Draw, CanDraw
<1>6. \/ UNCHANGED <<site, cache>> \/ EmptyTag \/ Restart
      \/ \E p \in 0 .. MaxPages : NewPage(p) \/ EmptyPage(p)
  BY DEF Next, Step, TryPage, vars, Call, ImageCount, CountPending, NoPages,
         ErrAllFetched, Pop, PopNothing, Fails, PageFails, CacheHit, Elsewhere
<1> QED BY <1>1, <1>2, <1>3, <1>4, <1>5, <1>6

\* No image becomes new again while its page is in the cache.
LEMMA NextSeen ==
    ASSUME TypeOK, EstimateInv, SeenInv, [Next]_vars PROVE SeenInv'
<1> USE DEF TypeOK, SeenInv, EstimateInv, Reachable, cache, caller, Return
<1>1. CASE UNCHANGED <<pages, life>>
  BY <1>1
<1>2. CASE Restart
  BY <1>2 DEF Restart
<1>3. ASSUME NEW p \in 0 .. MaxPages, NewPage(p) PROVE SeenInv'
  <2>1. p \in 0 .. NumPages - 1 /\ Posts[p] \subseteq Images
    BY <1>3 DEF NewPage
  <2>2. pages \subseteq 0 .. NumPages - 1
    OBVIOUS
  <2>3. ASSUME NEW q \in pages', NEW x \in Posts[q] PROVE life'[x] # "new"
    <3>1. x \in Images
      BY <1>3, <2>1, <2>2, <2>3 DEF NewPage
    <3> QED BY <1>3, <2>3, <3>1 DEF NewPage, Store
  <2> QED BY <2>3
<1>4. ASSUME UNCHANGED pages, \A x \in Images : life[x] # "new" => life'[x] # "new"
      PROVE  SeenInv'
  <2>1. \A p \in pages : Posts[p] \subseteq Images
    OBVIOUS
  <2> QED BY <1>4, <2>1
<1>5. CASE Pop \/ Fails
  BY <1>4, <1>5 DEF Pop, Fails, In
<1>6. ASSUME NEW x \in Images, Elsewhere(x) PROVE SeenInv'
  BY <1>4, <1>6 DEF Elsewhere
<1>7. ASSUME NEW p \in 0 .. MaxPages, PageFails(p) PROVE SeenInv'
  BY <1>4, <1>7 DEF PageFails, Store
<1>8. \/ UNCHANGED <<pages, life>> \/ Restart \/ Pop \/ Fails
      \/ \E p \in 0 .. MaxPages : NewPage(p) \/ PageFails(p)
      \/ \E x \in Images : Elsewhere(x)
  BY DEF Next, Step, TryPage, vars, Call, ImageCount, CountPending, NoPages,
         ErrAllFetched, PopNothing, CacheHit, EmptyTag, EmptyPage
<1> QED BY <1>1, <1>2, <1>3, <1>5, <1>6, <1>7, <1>8

\* allFetched is set when the cache is full, and holds until the image is popped.
LEMMA NextAllFetched ==
    ASSUME TypeOK, EstimateInv, AllFetched, [Next]_vars PROVE AllFetched'
<1> USE DEF TypeOK, EstimateInv, AllFetched, Reachable, cache, caller, Return
<1>1. CASE UNCHANGED <<site, pages, allFetched>>
  BY <1>1
<1>2. CASE allFetched' = FALSE
  BY <1>2
<1>3. CASE ErrAllFetched
  <2>1. pages = 0 .. maxPages - 1
    BY <1>3, AllSeenMeans DEF ErrAllFetched, AllSeen
  <2> QED BY <1>3, <2>1 DEF ErrAllFetched
<1>4. ASSUME NEW p \in 0 .. MaxPages, NewPage(p) PROVE AllFetched'
  BY <1>4 DEF NewPage
<1>5. \/ UNCHANGED <<site, pages, allFetched>> \/ allFetched' = FALSE \/ ErrAllFetched
      \/ \E p \in 0 .. MaxPages : NewPage(p)
  BY DEF Next, Step, TryPage, vars, Call, ImageCount, CountPending, NoPages, Pop,
         PopNothing, CacheHit, EmptyTag, EmptyPage, Restart, Fails, PageFails, Elsewhere
<1> QED BY <1>1, <1>2, <1>3, <1>4, <1>5

\* ErrNoMatch is returned when nothing is left, and nothing comes back.
LEMMA NextPending ==
    ASSUME CacheInv, [Next]_vars PROVE PendingInv'
<1> USE DEF CacheInv, TypeOK, EstimateInv, AllFetched, PendingInv, Reachable,
        cache, caller, Return, In
<1>1. CASE UNCHANGED vars
  BY <1>1 DEF vars
<1>2. CASE err' # "ErrNoMatch"
  BY <1>2
<1>3. CASE NoPages \/ EmptyTag
  BY <1>3 DEF NoPages, EmptyTag, Draw, CanDraw
<1>4. CASE PopNothing
  BY <1>4 DEF PopNothing
<1>5. ASSUME NEW x \in Images, Elsewhere(x) PROVE PendingInv'
  BY <1>5 DEF Elsewhere
<1>6. CASE ImageCount \/ CountPending \/ ErrAllFetched
  BY <1>6 DEF ImageCount, CountPending, ErrAllFetched
<1>7. ASSUME NEW p \in 0 .. MaxPages, TryPage(p) PROVE PendingInv'
  BY <1>7 DEF TryPage, CacheHit, NewPage, EmptyPage, Draw
<1>8. CASE Call \/ Pop \/ Fails \/ Restart
  BY <1>8 DEF Call, Pop, Fails, Restart
<1>9. ASSUME NEW p \in 0 .. MaxPages, PageFails(p) PROVE PendingInv'
  BY <1>9 DEF PageFails
<1> QED BY <1>1, <1>3, <1>4, <1>5, <1>6, <1>7, <1>8, <1>9 DEF Next, Step

\* The inductive invariant holds in every reachable state.
THEOREM CacheInvariance == Spec => []CacheInv
<1>1. CacheInv /\ [Next]_vars => CacheInv'
  BY NextTypeOK, NextEstimate, NextSeen, NextAllFetched, NextPending DEF CacheInv
<1> QED BY <1>1, InitCache, PTL DEF Spec

\* errAllFetched means what it says: every page of the booru was seen, up to the
\* first estimate.
THEOREM AllFetchedMeansAll == Spec => []AllFetched
<1>1. CacheInv => AllFetched
  BY DEF CacheInv
<1> QED BY <1>1, CacheInvariance, PTL

\* ErrNoMatch is true: no image of the booru is left for the tag.
THEOREM NothingLeft == Spec => []NoMatchIsTrue
<1>1. CacheInv => NoMatchIsTrue
  BY DEF CacheInv, TypeOK, PendingInv, SeenInv, EstimateInv, NoMatchIsTrue, Reachable, In
<1> QED BY <1>1, CacheInvariance, PTL
=============================================================================
