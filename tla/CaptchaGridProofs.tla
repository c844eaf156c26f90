-------------------------- MODULE CaptchaGridProofs --------------------------
(***************************************************************************)
(* Theorems about module CaptchaGrid, for any images and tags, any number  *)
(* of cells, and images being registered at any moment.                    *)
(***************************************************************************)
EXTENDS CaptchaGrid, FiniteSetTheorems, WellFoundedInduction, TLAPS

USE GridAssumption DEF GridAssumption

-----------------------------------------------------------------------------
(* The rows of a query.                                                    *)

\* Cardinality of what a sequence of different elements lists.
LEMMA Enumerated ==
    ASSUME NEW n \in Nat, NEW S, NEW f \in [1 .. n -> S],
           \A k, l \in 1 .. n : f[k] = f[l] => k = l,
           \A x \in S : \E k \in 1 .. n : f[k] = x
    PROVE  IsFiniteSet(S) /\ Cardinality(S) = n
<1>1. f \in Bijection(1 .. n, S)
  BY DEF Bijection, Injection, Surjection, IsInjective
<1>2. ExistsBijection(1 .. n, S)
  BY <1>1 DEF ExistsBijection
<1> QED BY <1>2, FS_CountingElements, FS_NatBijection

LEMMA MinOfTwo ==
    ASSUME NEW m \in Nat, NEW n \in Nat
    PROVE  /\ Min({m, n}) \in {m, n}
           /\ Min({m, n}) <= m /\ Min({m, n}) <= n
<1>1. \E x \in {m, n} : \A y \in {m, n} : x =< y
  BY m <= n \/ n <= m
<1> QED BY <1>1 DEF Min

\* A query returns as many different rows of its set as it is limited to, or all.
LEMMA RowsOfQuery ==
    ASSUME NEW set, IsFiniteSet(set), NEW n \in Nat, NEW rows \in Rows(set, n)
    PROVE  /\ Len(rows) \in Nat /\ Len(rows) <= n
           /\ n <= Cardinality(set) => Len(rows) = n
           /\ DOMAIN rows = 1 .. Len(rows)
           /\ \A k \in 1 .. Len(rows) : rows[k] \in set
           /\ \A k, l \in 1 .. Len(rows) : rows[k] = rows[l] => k = l
<1> DEFINE m == Min({n, Cardinality(set)})
<1>1. Cardinality(set) \in Nat
  BY FS_CardinalityType
<1>2. m \in Nat /\ m <= n /\ (n <= Cardinality(set) => m = n)
  BY <1>1, MinOfTwo
<1> HIDE DEF m
<1>3. PICK s \in kSubset(m, set) : rows \in SetToSeqs(s)
  BY DEF Rows, m
<1>4. s \subseteq set /\ Cardinality(s) = m
  BY <1>3 DEF kSubset
<1>5. rows \in [1 .. m -> s] /\ \A k, l \in 1 .. m : k # l => rows[k] # rows[l]
  BY <1>3, <1>4 DEF SetToSeqs
<1>6. Len(rows) = m /\ DOMAIN rows = 1 .. m
  BY <1>2, <1>5
<1> QED BY <1>2, <1>4, <1>5, <1>6

-----------------------------------------------------------------------------
(* The invariant.                                                          *)

\* NewCaptcha goes on with a tag only if it has enough images.
Enough == at = "match" => Count(tag) >= minCount

Unstarted ==
    /\ at \in {"init", "count", "match"} =>
        images = NoImages /\ matched = <<>> /\ solution = <<>>
    /\ at \in {"init", "count", "match", "fill", "shuffle"} => i = 0 /\ j = 0

\* matched is a list of different images with the tag.
MatchedRows ==
    at \in {"fill", "shuffle", "solve", "asked"} =>
        /\ matchedCount \in Counts
        /\ \A k \in 1 .. matchedCount : matched[k] \in Tagged[tag]
        /\ \A k, l \in 1 .. matchedCount : matched[k] = matched[l] => k = l

\* They are the first cells, as long as there are no others.
Filling ==
    at = "fill" =>
        /\ \A k \in 1 .. matchedCount : images[k - 1] = matched[k]
        /\ \A c \in Cells : c >= matchedCount => images[c] = Blank

\* Among the cells are those of matched, each once, and no others with the tag.
Dealt ==
    at \in {"shuffle", "solve", "asked"} =>
        /\ \A c, d \in Cells : c # d /\ images[c] = images[d] => images[c] = Blank
        /\ \A k \in 1 .. matchedCount : \E c \in Cells : images[c] = matched[k]
        /\ \A c \in ToSelect : \E k \in 1 .. matchedCount : matched[k] = images[c]

\* The cells to select among those that the loop is done with.
Passed == {c \in ToSelect : c < i}

\* The first j elements of the solution list them in order.
Noted ==
    at \in {"solve", "asked"} =>
        /\ \A k \in 1 .. j : solution[k] \in Passed
        /\ \A c \in Passed : \E k \in 1 .. j : solution[k] = c
        /\ \A k, l \in 1 .. j : k < l => solution[k] < solution[l]
        /\ at = "asked" => i = Size \/ j = matchedCount

GridInv ==
    /\ TypeOK /\ Enough /\ Unstarted /\ MatchedRows /\ Filling /\ Dealt /\ Noted

-----------------------------------------------------------------------------
(* Each step keeps the invariant.                                          *)
USE DEF matchedCount, Cells, Counts

LEMMA TaggedImages ==
    ASSUME TypeOK
    PROVE  /\ Tagged[tag] \subseteq Images /\ Blank \notin Images
           /\ IsFiniteSet(pool) /\ IsFiniteSet(Images)
           /\ Len(matched) \in Nat /\ Len(matched) < Size
<1>1. tag \in Tags /\ pool \subseteq Images /\ Len(matched) \in {0, 2, 3}
  BY DEF TypeOK
<1>2. IsFiniteSet(Images) /\ IsFiniteSet(pool)
  BY <1>1, FS_Subset
<1>3. Tagged[tag] \subseteq Images
  BY <1>1
<1>4. Len(matched) \in Nat /\ Len(matched) < Size
  <2>1. \A n \in {0, 2, 3} : n \in Nat /\ n < Size
    OBVIOUS
  <2> QED BY <1>1, <2>1, Zenon
<1> QED BY <1>2, <1>3, <1>4

LEMMA InitGrid == Init => GridInv
<1> SUFFICES ASSUME Init PROVE GridInv
  OBVIOUS
<1>1. TypeOK
  BY DEF Init, TypeOK, NoImages
<1> QED BY <1>1 DEF Init, GridInv, Enough, Unstarted, MatchedRows, Filling, Dealt, Noted

\* An image more does not take images from a tag, and the captcha stays as it is.
LEMMA InsertKeeps == GridInv /\ InsertImage => GridInv'
<1> SUFFICES ASSUME GridInv, InsertImage PROVE GridInv'
  OBVIOUS
<1>1. PICK x \in Images : pool' = pool \cup {x}
  BY DEF InsertImage
<1>2. UNCHANGED <<at, tag, images, matched, i, j, solution>>
  BY DEF InsertImage
<1>3. TypeOK'
  BY <1>1, <1>2 DEF GridInv, TypeOK
<1>4. Enough'
  <2>1. pool \cap Tagged[tag] \subseteq pool' \cap Tagged[tag]
    BY <1>1
  <2>2. IsFiniteSet(pool' \cap Tagged[tag])
    BY <1>3, <1>2, TaggedImages, FS_Subset DEF TypeOK
  <2>3. /\ Cardinality(pool \cap Tagged[tag]) <= Cardinality(pool' \cap Tagged[tag])
        /\ Cardinality(pool' \cap Tagged[tag]) \in Nat
        /\ Cardinality(pool \cap Tagged[tag]) \in Nat
    BY <2>1, <2>2, FS_Subset, FS_CardinalityType
  <2> QED BY <1>2, <2>3 DEF GridInv, Enough, Count
<1>5. Unstarted' /\ MatchedRows' /\ Filling'
  BY <1>2 DEF GridInv, Unstarted, MatchedRows, Filling
<1>6. Dealt' /\ Noted'
  BY <1>2 DEF GridInv, Dealt, Noted, Passed, ToSelect
<1> QED BY <1>3, <1>4, <1>5, <1>6 DEF GridInv

LEMMA StartKeeps == GridInv /\ (InitPool \/ NewCaptcha) => GridInv'
<1> SUFFICES ASSUME GridInv, InitPool \/ NewCaptcha PROVE GridInv'
  OBVIOUS
<1>1. at' \in {"count", "match"} /\ pool' = pool /\ tag' \in Tags
  BY DEF InitPool, NewCaptcha, GridInv, TypeOK
<1>2. images' = NoImages /\ matched' = <<>> /\ i' = 0 /\ j' = 0 /\ solution' = <<>>
  <2>1. CASE NewCaptcha
    BY <2>1 DEF NewCaptcha
  <2>2. CASE InitPool
    BY <2>2 DEF InitPool, GridInv, Unstarted, TypeOK
  <2> QED BY <2>1, <2>2
<1>3. TypeOK'
  BY <1>1, <1>2 DEF GridInv, TypeOK, NoImages
<1>4. Enough'
  <2>1. at' = "match" => ~ (Count(tag') < minCount)
    BY DEF InitPool, NewCaptcha
  <2>2. Count(tag') \in Nat
    BY TaggedImages, FS_Intersection, FS_CardinalityType DEF Count, GridInv
  <2> QED BY <1>1, <2>1, <2>2 DEF Enough, Count
<1>5. Unstarted' /\ MatchedRows' /\ Filling' /\ Dealt' /\ Noted'
  BY <1>1, <1>2 DEF Unstarted, MatchedRows, Filling, Dealt, Noted
<1> QED BY <1>3, <1>4, <1>5 DEF GridInv

\* The first query finds as many images as it asks for, since the tag has enough.
LEMMA MatchKeeps == GridInv /\ getMatchingImages => GridInv'
<1> SUFFICES ASSUME GridInv, getMatchingImages PROVE GridInv'
  OBVIOUS
<1>1. PICK n \in {2, 3} : \E rows \in Rows(Matching, n) :
        /\ images' = queryHashes(0, rows)
        /\ matched' = [k \in 1 .. n |-> images'[k - 1]]
        /\ solution' = [k \in 1 .. n |-> 0]
  BY DEF getMatchingImages
<1>2. PICK rows \in Rows(Matching, n) :
        /\ images' = queryHashes(0, rows)
        /\ matched' = [k \in 1 .. n |-> images'[k - 1]]
        /\ solution' = [k \in 1 .. n |-> 0]
  BY <1>1
<1>3. /\ at = "match" /\ at' = "fill" /\ UNCHANGED <<pool, tag, i, j>>
      /\ i = 0 /\ j = 0 /\ images = NoImages
  BY DEF getMatchingImages, GridInv, Unstarted
<1>4. /\ Len(rows) = n /\ n \in Nat /\ n < Size
      /\ \A k \in 1 .. n : rows[k] \in Matching
      /\ \A k, l \in 1 .. n : rows[k] = rows[l] => k = l
  <2>1. IsFiniteSet(Matching) /\ Cardinality(Matching) \in Nat
    BY TaggedImages, FS_Intersection, FS_CardinalityType DEF Matching, GridInv
  <2>2. n <= Cardinality(Matching)
    BY <1>3, <2>1 DEF GridInv, Enough, Count, Matching
  <2> QED BY <2>1, <2>2, RowsOfQuery
<1>5. /\ Matching \subseteq Images /\ Matching \subseteq Tagged[tag]
  BY TaggedImages DEF Matching, GridInv
<1>6. /\ images' \in [0 .. Size - 1 -> Images \cup {Blank}]
      /\ \A k \in 1 .. n : images'[k - 1] = rows[k]
      /\ \A c \in 0 .. Size - 1 : c >= n => images'[c] = Blank
  <2>1. images' = [c \in 0 .. Size - 1 |-> IF c \in 0 .. n - 1 THEN rows[c + 1] ELSE Blank]
    BY <1>2, <1>3, <1>4 DEF queryHashes, NoImages
  <2>2. \A c \in 0 .. n - 1 : c + 1 \in 1 .. n /\ rows[c + 1] \in Images
    BY <1>4, <1>5
  <2>3. images' \in [0 .. Size - 1 -> Images \cup {Blank}]
    BY <2>1, <2>2
  <2>4. \A k \in 1 .. n : k - 1 \in 0 .. Size - 1 /\ k - 1 \in 0 .. n - 1 /\ (k - 1) + 1 = k
    BY <1>4
  <2>5. \A k \in 1 .. n : images'[k - 1] = rows[k]
    BY <2>1, <2>4
  <2>6. \A c \in 0 .. Size - 1 : c >= n => images'[c] = Blank
    BY <1>4, <2>1
  <2> QED BY <2>3, <2>5, <2>6
<1>7. /\ matched' \in Seq(Images \cup {Blank}) /\ Len(matched') = n
      /\ \A k \in 1 .. n : matched'[k] = rows[k] /\ matched'[k] = images'[k - 1]
  BY <1>2, <1>4, <1>5, <1>6
<1>8. solution' \in Seq(0 .. Size - 1) /\ Len(solution') = n
  BY <1>2, <1>4
<1>9. TypeOK'
  BY <1>3, <1>4, <1>6, <1>7, <1>8 DEF GridInv, TypeOK
<1>10. MatchedRows' /\ Filling'
  BY <1>3, <1>4, <1>5, <1>6, <1>7 DEF MatchedRows, Filling
<1>11. Enough' /\ Unstarted' /\ Dealt' /\ Noted'
  BY <1>3 DEF Enough, Unstarted, Dealt, Noted
<1> QED BY <1>9, <1>10, <1>11 DEF GridInv

\* The second query fills the cells after the first ones, or some of them, with other
\* images: they do not have the tag.
LEMMA FillKeeps == GridInv /\ getNonMatchingImages => GridInv'
<1> SUFFICES ASSUME GridInv, getNonMatchingImages PROVE GridInv'
  OBVIOUS
<1> DEFINE n == Len(matched)
           m == Size - n
<1>1. PICK rows \in Rows(NonMatching, m) : images' = queryHashes(n, rows)
  BY DEF getNonMatchingImages
<1>2. /\ at = "fill" /\ at' = "shuffle"
      /\ UNCHANGED <<pool, tag, matched, i, j, solution>> /\ i = 0 /\ j = 0
  BY DEF getNonMatchingImages, GridInv, Unstarted
<1>3. /\ n \in {2, 3} /\ n < Size /\ m \in Nat
      /\ \A k \in 1 .. n : matched[k] \in Tagged[tag] /\ images[k - 1] = matched[k]
      /\ \A k, l \in 1 .. n : matched[k] = matched[l] => k = l
      /\ \A c \in 0 .. Size - 1 : c >= n => images[c] = Blank
  BY <1>2 DEF GridInv, MatchedRows, Filling
<1>4. /\ Tagged[tag] \subseteq Images /\ Blank \notin Images
      /\ NonMatching \subseteq Images /\ NonMatching \cap Tagged[tag] = {}
      /\ IsFiniteSet(NonMatching)
  BY TaggedImages, FS_Difference DEF NonMatching, GridInv, TypeOK
<1> HIDE DEF n, m
<1> DEFINE last == n + Len(rows) - 1
<1>5. /\ Len(rows) \in Nat /\ Len(rows) <= m
      /\ \A k \in 1 .. Len(rows) : rows[k] \in NonMatching
      /\ \A k, l \in 1 .. Len(rows) : rows[k] = rows[l] => k = l
  BY <1>1, <1>3, <1>4, RowsOfQuery
<1>6. images' = [c \in 0 .. Size - 1 |->
                    IF c \in n .. last THEN rows[c - n + 1] ELSE images[c]]
  BY <1>1 DEF queryHashes
<1>7. last \in Int /\ last < Size
  BY <1>3, <1>5 DEF m
<1> HIDE DEF last
<1>8. \A c \in 0 .. n - 1 :
        c + 1 \in 1 .. n /\ images'[c] = matched[c + 1] /\ images'[c] \in Tagged[tag]
  <2> SUFFICES ASSUME NEW c \in 0 .. n - 1
               PROVE  c + 1 \in 1 .. n /\ images'[c] = matched[c + 1] /\ images'[c] \in Tagged[tag]
    OBVIOUS
  <2>1. c \in 0 .. Size - 1 /\ c \notin n .. last /\ c + 1 \in 1 .. n /\ (c + 1) - 1 = c
    BY <1>3, <1>7
  <2>2. images'[c] = images[c] /\ images[(c + 1) - 1] = matched[c + 1]
    BY <1>3, <1>6, <2>1
  <2> QED BY <1>3, <2>1, <2>2
<1>9. \A c \in n .. last :
        /\ c - n + 1 \in 1 .. Len(rows) /\ images'[c] = rows[c - n + 1]
        /\ images'[c] \in Images /\ images'[c] \notin Tagged[tag]
  <2> SUFFICES ASSUME NEW c \in n .. last
               PROVE  /\ c - n + 1 \in 1 .. Len(rows) /\ images'[c] = rows[c - n + 1]
                      /\ images'[c] \in Images /\ images'[c] \notin Tagged[tag]
    OBVIOUS
  <2>1. c \in 0 .. Size - 1 /\ c - n + 1 \in 1 .. Len(rows)
    BY <1>3, <1>5, <1>7 DEF last
  <2>2. images'[c] = rows[c - n + 1]
    BY <1>6, <2>1
  <2> QED BY <1>4, <1>5, <2>1, <2>2
<1>10. \A c \in 0 .. Size - 1 : c \in 0 .. n - 1 \/ c \in n .. last \/ images'[c] = Blank
  BY <1>3, <1>6, <1>7
<1>11. images' \in [0 .. Size - 1 -> Images \cup {Blank}]
  <2>1. \A c \in 0 .. Size - 1 : images'[c] \in Images \cup {Blank}
    BY <1>4, <1>8, <1>9, <1>10
  <2> QED BY <1>6, <2>1
<1>12. TypeOK'
  BY <1>2, <1>11 DEF GridInv, TypeOK
<1>13. ASSUME NEW c \in 0 .. Size - 1, NEW d \in 0 .. Size - 1, c # d,
              images'[c] = images'[d], images'[c] # Blank
       PROVE  FALSE
  <2>1. c \in 0 .. n - 1 \/ c \in n .. last
    BY <1>10, <1>13
  <2>2. d \in 0 .. n - 1 \/ d \in n .. last
    BY <1>10, <1>13
  <2>3. CASE c \in 0 .. n - 1 /\ d \in 0 .. n - 1
    <3>1. c + 1 = d + 1
      BY <1>3, <1>8, <1>13, <2>3
    <3> QED BY <1>13, <2>3, <3>1
  <2>4. CASE c \in n .. last /\ d \in n .. last
    <3>1. c - n + 1 = d - n + 1
      BY <1>5, <1>9, <1>13, <2>4
    <3> QED BY <1>3, <1>13, <2>4, <3>1
  <2> QED BY <1>8, <1>9, <1>13, <2>1, <2>2, <2>3, <2>4
<1>14. ASSUME NEW k \in 1 .. n PROVE \E c \in 0 .. Size - 1 : images'[c] = matched[k]
  <2>1. k - 1 \in 0 .. n - 1 /\ (k - 1) + 1 = k /\ k - 1 \in 0 .. Size - 1
    BY <1>3
  <2>2. images'[k - 1] = matched[(k - 1) + 1]
    BY <1>8, <2>1
  <2> QED BY <2>1, <2>2
<1>15. ASSUME NEW c \in 0 .. Size - 1, images'[c] \in Tagged[tag]
       PROVE  \E k \in 1 .. n : matched[k] = images'[c]
  <2>1. c \in 0 .. n - 1
    BY <1>4, <1>9, <1>10, <1>15
  <2> QED BY <1>8, <2>1
<1>16. Dealt'
  BY <1>2, <1>13, <1>14, <1>15 DEF Dealt, ToSelect, n
<1>17. MatchedRows'
  BY <1>2 DEF GridInv, MatchedRows
<1>18. Enough' /\ Unstarted' /\ Filling' /\ Noted'
  BY <1>2 DEF Enough, Unstarted, Filling, Noted
<1> QED BY <1>12, <1>16, <1>17, <1>18 DEF GridInv


\* The cells change places: the order has each of them, once.
LEMMA ShuffleOrder ==
    ASSUME NEW p \in SetToSeqs(0 .. Size - 1)
    PROVE  /\ p \in [1 .. Size -> 0 .. Size - 1]
           /\ \A k, l \in 1 .. Size : p[k] = p[l] => k = l
           /\ \A c \in 0 .. Size - 1 : \E k \in 1 .. Size : p[k] = c
<1>1. IsFiniteSet(0 .. Size - 1) /\ Cardinality(0 .. Size - 1) = Size
  BY FS_Interval
<1>2. IsFiniteSet(1 .. Size) /\ Cardinality(1 .. Size) = Size
  BY FS_Interval
<1>3. p \in [1 .. Size -> 0 .. Size - 1] /\ \A k, l \in 1 .. Size : k # l => p[k] # p[l]
  BY <1>1 DEF SetToSeqs
<1>4. p \in Injection(1 .. Size, 0 .. Size - 1)
  BY <1>3 DEF Injection, IsInjective
<1>5. p \in Surjection(1 .. Size, 0 .. Size - 1)
  BY <1>1, <1>2, <1>4, FS_Injection
<1> QED BY <1>3, <1>5 DEF Surjection

LEMMA ShuffleKeeps == GridInv /\ Shuffle => GridInv'
<1> SUFFICES ASSUME GridInv, Shuffle PROVE GridInv'
  OBVIOUS
<1>1. PICK p \in SetToSeqs(0 .. Size - 1) : images' = [c \in 0 .. Size - 1 |-> images[p[c + 1]]]
  BY DEF Shuffle
<1>2. /\ at = "shuffle" /\ at' = "solve"
      /\ UNCHANGED <<pool, tag, matched, i, j, solution>> /\ i = 0 /\ j = 0
  BY DEF Shuffle, GridInv, Unstarted
<1>3. /\ p \in [1 .. Size -> 0 .. Size - 1]
      /\ \A k, l \in 1 .. Size : p[k] = p[l] => k = l
      /\ \A c \in 0 .. Size - 1 : \E k \in 1 .. Size : p[k] = c
  BY ShuffleOrder
<1>4. \A c \in 0 .. Size - 1 :
        c + 1 \in 1 .. Size /\ p[c + 1] \in 0 .. Size - 1 /\ images'[c] = images[p[c + 1]]
  <2>1. \A c \in 0 .. Size - 1 : c + 1 \in 1 .. Size
    OBVIOUS
  <2> QED BY <1>1, <1>3, <2>1, Zenon
<1>5. TypeOK'
  <2>1. images \in [0 .. Size - 1 -> Images \cup {Blank}]
    BY DEF GridInv, TypeOK
  <2>2. \A c \in 0 .. Size - 1 : images[p[c + 1]] \in Images \cup {Blank}
    BY <1>4, <2>1
  <2>3. images' \in [0 .. Size - 1 -> Images \cup {Blank}]
    BY <1>1, <2>2
  <2> QED BY <1>2, <2>3 DEF GridInv, TypeOK
<1>6. ASSUME NEW c \in 0 .. Size - 1, NEW d \in 0 .. Size - 1, c # d, images'[c] = images'[d]
      PROVE  images'[c] = Blank
  <2>1. \A x, y \in 0 .. Size - 1 : x # y /\ images[x] = images[y] => images[x] = Blank
    BY <1>2 DEF GridInv, Dealt
  <2>2. c + 1 # d + 1
    BY <1>6
  <2>3. p[c + 1] # p[d + 1]
    BY <1>3, <1>4, <2>2
  <2> QED BY <1>4, <1>6, <2>1, <2>3
<1>7. ASSUME NEW k \in 1 .. Len(matched) PROVE \E c \in 0 .. Size - 1 : images'[c] = matched[k]
  <2>1. PICK d \in 0 .. Size - 1 : images[d] = matched[k]
    BY <1>2 DEF GridInv, Dealt
  <2>2. PICK l \in 1 .. Size : p[l] = d
    BY <1>3
  <2>3. l - 1 \in 0 .. Size - 1 /\ (l - 1) + 1 = l
    OBVIOUS
  <2> QED BY <1>4, <2>1, <2>2, <2>3
<1>8. ASSUME NEW c \in 0 .. Size - 1, images'[c] \in Tagged[tag]
      PROVE  \E k \in 1 .. Len(matched) : matched[k] = images'[c]
  <2>1. PICK d \in 0 .. Size - 1 : images'[c] = images[d]
    BY <1>4
  <2>2. d \in ToSelect
    BY <1>8, <2>1 DEF ToSelect
  <2> QED BY <1>2, <2>1, <2>2 DEF GridInv, Dealt
<1>9. Dealt'
  BY <1>2, <1>6, <1>7, <1>8 DEF Dealt, ToSelect
<1>10. MatchedRows'
  BY <1>2 DEF GridInv, MatchedRows
<1>11. Enough' /\ Unstarted' /\ Filling'
  BY <1>2 DEF Enough, Unstarted, Filling
<1>12. Noted'
  BY <1>2, <1>5 DEF Noted, Passed, ToSelect, TypeOK
<1> QED BY <1>5, <1>9, <1>10, <1>11, <1>12 DEF GridInv

\* A cell is noted once if it is to be selected, and not at all otherwise.
LEMMA HitsOfCell ==
    ASSUME GridInv, at = "solve", i \in 0 .. Size - 1
    PROVE  Hits = IF i \in ToSelect THEN 1 ELSE 0
<1> DEFINE H == {k \in 1 .. Len(matched) : matched[k] = images[i]}
<1>1. /\ \A k \in 1 .. Len(matched) : matched[k] \in Tagged[tag]
      /\ \A k, l \in 1 .. Len(matched) : matched[k] = matched[l] => k = l
  BY DEF GridInv, MatchedRows
<1>2. CASE i \in ToSelect
  <2>1. PICK k \in 1 .. Len(matched) : matched[k] = images[i]
    BY <1>2 DEF GridInv, Dealt
  <2>2. H = {k}
    BY <1>1, <2>1
  <2> QED BY <1>2, <2>2, FS_Singleton DEF Hits
<1>3. CASE i \notin ToSelect
  <2>1. H = {}
    BY <1>1, <1>3 DEF ToSelect
  <2> QED BY <1>3, <2>1, FS_EmptySet DEF Hits
<1> QED BY <1>2, <1>3

LEMMA SolveCellKeeps == GridInv /\ SolveCell => GridInv'
<1> SUFFICES ASSUME GridInv, SolveCell PROVE GridInv'
  OBVIOUS
<1> DEFINE n == Len(matched)
<1>1. /\ at = "solve" /\ i < Size /\ j < n /\ j' = j + Hits /\ i' = i + 1
      /\ solution' = [k \in 1 .. n |-> IF k \in j + 1 .. j' THEN i ELSE solution[k]]
      /\ UNCHANGED <<pool, at, tag, images, matched>>
  BY DEF SolveCell
<1>2. /\ n \in {2, 3} /\ i \in 0 .. Size - 1 /\ j \in 0 .. n
      /\ solution \in Seq(0 .. Size - 1) /\ Len(solution) = n
  BY <1>1 DEF GridInv, TypeOK, MatchedRows
<1>3. Hits = IF i \in ToSelect THEN 1 ELSE 0
  BY <1>1, <1>2, HitsOfCell
<1>4. /\ ToSelect' = ToSelect
      /\ Passed' = IF i \in ToSelect THEN Passed \cup {i} ELSE Passed
      /\ \A c \in Passed : c \in 0 .. Size - 1 /\ c < i
  BY <1>1, <1>2 DEF Passed, ToSelect
<1>5. /\ \A k \in 1 .. j : solution[k] \in Passed
      /\ \A c \in Passed : \E k \in 1 .. j : solution[k] = c
      /\ \A k, l \in 1 .. j : k < l => solution[k] < solution[l]
  BY <1>1 DEF GridInv, Noted
<1> HIDE DEF n
<1>6. /\ j' \in 0 .. n /\ i' \in 0 .. Size
      /\ solution' \in [1 .. n -> 0 .. Size - 1]
  <2>1. \A k \in 1 .. n : solution[k] \in 0 .. Size - 1
    BY <1>2
  <2> QED BY <1>1, <1>2, <1>3, <2>1
<1>7. solution' \in Seq(0 .. Size - 1) /\ Len(solution') = n
  BY <1>2, <1>6
<1>8. \A k \in 1 .. j : solution'[k] = solution[k]
  BY <1>1, <1>2
<1>9. Noted'
  <2>1. CASE i \in ToSelect
    <3>1. j' = j + 1 /\ Passed' = Passed \cup {i} /\ solution'[j + 1] = i
      BY <1>1, <1>2, <1>3, <1>4, <2>1
    <3>2. \A k \in 1 .. j' : k \in 1 .. j \/ k = j + 1
      BY <1>2, <3>1
    <3>3. /\ \A k \in 1 .. j : k \in 1 .. j' /\ k < j + 1
          /\ j + 1 \in 1 .. j'
      BY <1>2, <3>1
    <3>4. \A k \in 1 .. j' : solution'[k] \in Passed'
      BY <1>5, <1>8, <3>1, <3>2
    <3>5. \A c \in Passed' : \E k \in 1 .. j' : solution'[k] = c
      BY <1>5, <1>8, <3>1, <3>3
    <3>6. \A k, l \in 1 .. j' : k < l => solution'[k] < solution'[l]
      <4> SUFFICES ASSUME NEW k \in 1 .. j', NEW l \in 1 .. j', k < l
                   PROVE  solution'[k] < solution'[l]
        OBVIOUS
      <4>1. k \in 1 .. j
        BY <1>2, <3>1
      <4>2. CASE l \in 1 .. j
        BY <1>5, <1>8, <4>1, <4>2
      <4>3. CASE l = j + 1
        BY <1>4, <1>5, <1>8, <3>1, <4>1, <4>3
      <4> QED BY <3>2, <4>2, <4>3
    <3> QED BY <1>1, <3>4, <3>5, <3>6 DEF Noted
  <2>2. CASE i \notin ToSelect
    <3>1. j' = j /\ Passed' = Passed
      BY <1>1, <1>2, <1>3, <1>4, <2>2
    <3> QED BY <1>1, <1>5, <1>8, <3>1 DEF Noted
  <2> QED BY <2>1, <2>2
<1>10. TypeOK'
  BY <1>1, <1>6, <1>7 DEF GridInv, TypeOK, n
<1>11. Enough' /\ Unstarted' /\ Filling'
  BY <1>1 DEF Enough, Unstarted, Filling
<1>12. MatchedRows' /\ Dealt'
  BY <1>1 DEF GridInv, MatchedRows, Dealt, ToSelect
<1> QED BY <1>9, <1>10, <1>11, <1>12 DEF GridInv

LEMMA CaptchaKeeps == GridInv /\ InsertCaptcha => GridInv'
<1> SUFFICES ASSUME GridInv, InsertCaptcha PROVE GridInv'
  OBVIOUS
<1>1. /\ at = "solve" /\ at' = "asked" /\ (i = Size \/ j = matchedCount)
      /\ UNCHANGED <<pool, tag, images, matched, i, j, solution>>
  BY DEF InsertCaptcha
<1>2. TypeOK' /\ Enough' /\ Unstarted' /\ Filling'
  BY <1>1 DEF GridInv, TypeOK, Enough, Unstarted, Filling
<1>3. MatchedRows' /\ Dealt' /\ Noted'
  BY <1>1 DEF GridInv, MatchedRows, Dealt, Noted, Passed, ToSelect
<1> QED BY <1>2, <1>3 DEF GridInv

\* The invariant of captcha generation.
THEOREM GridInvariant == Spec => []GridInv
<1>1. GridInv /\ [Next]_vars => GridInv'
  <2> SUFFICES ASSUME GridInv, [Next]_vars PROVE GridInv'
    OBVIOUS
  <2>1. CASE UNCHANGED vars
    BY <2>1 DEF vars, GridInv, TypeOK, Enough, Unstarted, MatchedRows, Filling, Dealt,
                Noted, Passed, ToSelect, Count
  <2> QED BY <2>1, InsertKeeps, StartKeeps, MatchKeeps, FillKeeps, ShuffleKeeps,
             SolveCellKeeps, CaptchaKeeps DEF Next
<1> QED BY <1>1, InitGrid, PTL DEF Spec

-----------------------------------------------------------------------------
(* What a captcha that is asked is like.                                   *)

\* There are as many cells to select as matched images.
LEMMA CellsToSelect ==
    ASSUME GridInv, at \in {"solve", "asked"}
    PROVE  IsFiniteSet(ToSelect) /\ Cardinality(ToSelect) = Len(matched)
<1> DEFINE n == Len(matched)
           Cell(k) == CHOOSE c \in 0 .. Size - 1 : images[c] = matched[k]
           f == [k \in 1 .. n |-> Cell(k)]
<1>1. /\ n \in Nat
      /\ \A k \in 1 .. n : matched[k] \in Tagged[tag]
      /\ \A k, l \in 1 .. n : matched[k] = matched[l] => k = l
      /\ Blank \notin Tagged[tag]
  BY TaggedImages DEF GridInv, MatchedRows
<1>2. /\ \A c, d \in 0 .. Size - 1 : c # d /\ images[c] = images[d] => images[c] = Blank
      /\ \A k \in 1 .. n : \E c \in 0 .. Size - 1 : images[c] = matched[k]
      /\ \A c \in ToSelect : \E k \in 1 .. n : matched[k] = images[c]
  BY DEF GridInv, Dealt
<1>3. \A k \in 1 .. n : Cell(k) \in 0 .. Size - 1 /\ images[Cell(k)] = matched[k]
  BY <1>2
<1> HIDE DEF Cell, n
<1>4. \A k \in 1 .. n : f[k] \in ToSelect /\ images[f[k]] = matched[k]
  BY <1>1, <1>3 DEF ToSelect
<1>5. f \in [1 .. n -> ToSelect]
  BY <1>4
<1>6. \A k, l \in 1 .. n : f[k] = f[l] => k = l
  BY <1>1, <1>4
<1>7. \A x \in ToSelect : \E k \in 1 .. n : f[k] = x
  <2> SUFFICES ASSUME NEW x \in ToSelect PROVE \E k \in 1 .. n : f[k] = x
    OBVIOUS
  <2>1. PICK k \in 1 .. n : matched[k] = images[x]
    BY <1>2
  <2>2. /\ f[k] \in 0 .. Size - 1 /\ x \in 0 .. Size - 1
        /\ images[f[k]] = images[x] /\ images[x] # Blank
    BY <1>1, <1>4, <2>1 DEF ToSelect
  <2> QED BY <1>2, <2>2
<1> QED BY <1>1, <1>5, <1>6, <1>7, Enumerated DEF n

\* The loop ends with all of the cells noted, be it at the last cell or before it.
LEMMA AskedSolution == GridInv => SolutionExact
<1> SUFFICES ASSUME GridInv, at = "asked" PROVE SolutionExact
  BY DEF SolutionExact
<1> DEFINE n == Len(matched)
<1>1. /\ \A k \in 1 .. j : solution[k] \in Passed
      /\ \A c \in Passed : \E k \in 1 .. j : solution[k] = c
      /\ \A k, l \in 1 .. j : k < l => solution[k] < solution[l]
      /\ i = Size \/ j = n
  BY DEF GridInv, Noted
<1>2. /\ n \in {2, 3} /\ j \in 0 .. n /\ i \in 0 .. Size
      /\ solution \in Seq(0 .. Size - 1) /\ Len(solution) = n
  BY DEF GridInv, TypeOK, MatchedRows
<1>3. IsFiniteSet(ToSelect) /\ Cardinality(ToSelect) = n
  BY CellsToSelect
<1>4. Passed \subseteq ToSelect /\ \A c \in Passed : c \in 0 .. Size - 1
  BY DEF Passed, ToSelect
<1> HIDE DEF n
<1>5. IsFiniteSet(Passed) /\ Cardinality(Passed) = j
  <2> DEFINE f == [k \in 1 .. j |-> solution[k]]
  <2>1. f \in [1 .. j -> Passed] /\ \A k \in 1 .. j : f[k] = solution[k]
    BY <1>1
  <2> HIDE DEF f
  <2>2. \A k, l \in 1 .. j : f[k] = f[l] => k = l
    <3> SUFFICES ASSUME NEW k \in 1 .. j, NEW l \in 1 .. j, solution[k] = solution[l], k # l
                 PROVE  FALSE
      BY <2>1
    <3>1. solution[k] \in 0 .. Size - 1 /\ (k < l \/ l < k)
      BY <1>1, <1>2, <1>4
    <3> QED BY <1>1, <3>1
  <2>3. \A x \in Passed : \E k \in 1 .. j : f[k] = x
    BY <1>1, <2>1
  <2>4. j \in Nat
    BY <1>2
  <2> QED BY <2>1, <2>2, <2>3, <2>4, Enumerated
<1>6. Passed = ToSelect
  <2>1. CASE i = Size
    BY <2>1 DEF Passed, ToSelect
  <2>2. CASE j = n
    BY <1>3, <1>4, <1>5, <2>2, FS_Subset
  <2> QED BY <1>1, <2>1, <2>2
<1>7. j = n
  BY <1>3, <1>5, <1>6
<1>8. ToSet(solution) = ToSelect
  <2>1. DOMAIN solution = 1 .. j
    BY <1>2, <1>7
  <2> QED BY <1>1, <1>6, <2>1 DEF ToSet
<1> QED BY <1>1, <1>2, <1>7, <1>8 DEF SolutionExact

\* The types are kept: no index of the loop that makes the solution is out of range.
THEOREM GridTypes == Spec => []TypeOK
<1>1. GridInv => TypeOK
  BY DEF GridInv
<1> QED BY <1>1, GridInvariant, PTL

\* The stored solution of a captcha is what its user sees.
THEOREM SolutionIsExact == Spec => []SolutionExact
BY AskedSolution, GridInvariant, PTL

\* No captcha shows an image twice.
THEOREM NoImageTwice == Spec => []CellsDiffer
<1>1. GridInv => CellsDiffer
  BY DEF GridInv, Dealt, CellsDiffer
<1> QED BY <1>1, GridInvariant, PTL

-----------------------------------------------------------------------------
(* The loop of ExtractSolution.  Its function is defined by recursion: that it *)
(* exists, and what it returns, is shown by a smallest counterexample.         *)

LEMMA LeastNumber ==
    ASSUME NEW T, T \subseteq Nat, T # {}
    PROVE  \E n \in T : \A m \in T : n <= m
<1>1. \E x \in T : \A y \in T : ~(<<y, x>> \in OpToRel(<, Nat))
  BY WFMin, NatLessThanWellFounded, Zenon
<1>2. PICK x \in T : \A y \in T : ~(<<y, x>> \in OpToRel(<, Nat))
  BY <1>1
<1>3. \A y \in T : ~(y < x)
  BY <1>2 DEF OpToRel
<1> QED BY <1>3

\* g is what the loop makes of the cells that are selected, after each of n turns.
Loop(g, selected, n) ==
    g = [c \in 0 .. n |->
            IF c = 0 THEN <<>>
            ELSE IF c - 1 \in selected THEN Append(g[c - 1], c - 1)
            ELSE g[c - 1]]

\* The cells that are selected among the first n.
Before(selected, n) == selected \cap (0 .. n - 1)

LEMMA LoopExists ==
    ASSUME NEW selected, NEW n \in Nat
    PROVE  \E g : Loop(g, selected, n)
<1> DEFINE T == {m \in Nat : ~ \E g : Loop(g, selected, m)}
<1> SUFFICES ASSUME T # {} PROVE FALSE
  OBVIOUS
<1>1. PICK m \in T : \A l \in T : m <= l
  BY LeastNumber
<1>2. m # 0
  <2>1. Loop([c \in 0 .. 0 |-> <<>>], selected, 0)
    BY DEF Loop
  <2> QED BY <1>1, <2>1
<1>3. PICK g : Loop(g, selected, m - 1)
  BY <1>1, <1>2
<1> DEFINE Turn(c, q) == IF c - 1 \in selected THEN Append(q, c - 1) ELSE q
           h == [c \in 0 .. m |-> IF c = m THEN Turn(m, g[m - 1]) ELSE g[c]]
<1>4. \A c \in 0 .. m - 1 : g[c] = IF c = 0 THEN <<>> ELSE Turn(c, g[c - 1])
  BY <1>3 DEF Loop
<1> HIDE DEF Turn
<1>5. \A c \in 0 .. m : h[c] = IF c = 0 THEN <<>> ELSE Turn(c, h[c - 1])
  <2> SUFFICES ASSUME NEW c \in 0 .. m
               PROVE  h[c] = IF c = 0 THEN <<>> ELSE Turn(c, h[c - 1])
    OBVIOUS
  <2>1. CASE c = 0
    BY <1>2, <1>4, <2>1
  <2>2. CASE c # 0
    <3>1. c - 1 \in 0 .. m /\ c - 1 # m /\ m \in Nat
      BY <2>2
    <3>2. h[c - 1] = g[c - 1]
      BY <3>1
    <3>3. CASE c = m
      BY <1>2, <3>2, <3>3
    <3>4. CASE c # m
      BY <1>4, <2>2, <3>2, <3>4
    <3> QED BY <3>3, <3>4
  <2> QED BY <2>1, <2>2
<1>6. h = [c \in 0 .. m |-> IF c = 0 THEN <<>> ELSE Turn(c, h[c - 1])]
  BY <1>5
<1>7. Loop(h, selected, m)
  BY <1>6 DEF Loop, Turn
<1> QED BY <1>1, <1>7

LEMMA AppendLists ==
    ASSUME NEW q \in Seq(Nat), NEW x \in Nat
    PROVE  /\ Append(q, x) \in Seq(Nat) /\ Len(Append(q, x)) = Len(q) + 1
           /\ ToSet(Append(q, x)) = ToSet(q) \cup {x}
<1>1. /\ Len(q) \in Nat /\ Append(q, x) \in Seq(Nat)
      /\ DOMAIN q = 1 .. Len(q) /\ DOMAIN Append(q, x) = 1 .. Len(q) + 1
      /\ \A k \in 1 .. Len(q) : k \in 1 .. Len(q) + 1 /\ Append(q, x)[k] = q[k]
      /\ \A k \in 1 .. Len(q) + 1 : k \in 1 .. Len(q) \/ k = Len(q) + 1
      /\ Append(q, x)[Len(q) + 1] = x /\ Len(q) + 1 \in 1 .. Len(q) + 1
      /\ Len(Append(q, x)) = Len(q) + 1
  OBVIOUS
<1> QED BY <1>1 DEF ToSet

\* After c turns the loop has listed the selected ones of the first c cells.
LEMMA LoopLists ==
    ASSUME NEW selected, NEW n \in Nat, NEW g, Loop(g, selected, n)
    PROVE  \A c \in 0 .. n :
              /\ g[c] \in Seq(Nat)
              /\ ToSet(g[c]) = Before(selected, c)
              /\ Len(g[c]) = Cardinality(Before(selected, c))
<1> DEFINE Listed(c) ==
        /\ g[c] \in Seq(Nat)
        /\ ToSet(g[c]) = Before(selected, c)
        /\ Len(g[c]) = Cardinality(Before(selected, c))
<1> DEFINE T == {c \in 0 .. n : ~ Listed(c)}
<1> SUFFICES ASSUME T # {} PROVE FALSE
  OBVIOUS
<1>1. PICK c \in T : \A l \in T : c <= l
  <2>1. T \subseteq Nat
    OBVIOUS
  <2> HIDE DEF T
  <2> QED BY <2>1, LeastNumber
<1>2. c # 0
  <2>1. g[0] = <<>>
    BY DEF Loop
  <2>2. Before(selected, 0) = {}
    BY DEF Before
  <2>3. ToSet(g[0]) = {} /\ g[0] \in Seq(Nat) /\ Len(g[0]) = 0
    BY <2>1 DEF ToSet
  <2>4. Listed(0)
    BY <2>2, <2>3, FS_EmptySet
  <2> QED BY <1>1, <2>4
<1> DEFINE d == c - 1
           old == Before(selected, d)
           new == Before(selected, c)
<1>3. Listed(d) /\ d \in Nat /\ d \in 0 .. n /\ c \in 0 .. n /\ c - 1 = d
  BY <1>1, <1>2
<1>4. g[c] = IF d \in selected THEN Append(g[d], d) ELSE g[d]
  BY <1>2, <1>3 DEF Loop
<1>5. IsFiniteSet(old)
  <2>1. IsFiniteSet(0 .. d - 1)
    BY <1>3, FS_Interval
  <2>2. old \subseteq 0 .. d - 1
    BY DEF Before
  <2> QED BY <2>1, <2>2, FS_Subset
<1>6. CASE d \in selected
  <2>1. new = old \cup {d} /\ d \notin old
    BY <1>3, <1>6 DEF Before
  <2>2. Cardinality(new) = Cardinality(old) + 1
    BY <1>5, <2>1, FS_AddElement
  <2>3. /\ g[c] \in Seq(Nat) /\ Len(g[c]) = Len(g[d]) + 1
        /\ ToSet(g[c]) = ToSet(g[d]) \cup {d}
    BY <1>3, <1>4, <1>6, AppendLists
  <2> QED BY <1>1, <1>3, <2>1, <2>2, <2>3
<1>7. CASE d \notin selected
  <2>1. new = old
    BY <1>3, <1>7 DEF Before
  <2> QED BY <1>1, <1>3, <1>4, <1>7, <2>1
<1> QED BY <1>6, <1>7

\* What is extracted of a form is the list of its selected cells.
LEMMA Extracted ==
    ASSUME NEW selected \in SUBSET (0 .. Size - 1)
    PROVE  /\ ToSet(ExtractSolution(selected)) = selected
           /\ Len(ExtractSolution(selected)) = Cardinality(selected)
<1>1. \E g : Loop(g, selected, Size)
  BY LoopExists
<1>2. ExtractSolution(selected) = (CHOOSE g : Loop(g, selected, Size))[Size]
  BY DEF ExtractSolution, Loop
<1>3. PICK g : Loop(g, selected, Size) /\ ExtractSolution(selected) = g[Size]
  BY <1>1, <1>2
<1>4. Before(selected, Size) = selected
  BY selected \subseteq 0 .. Size - 1, Zenon DEF Before
<1>5. Size \in Nat /\ Size \in 0 .. Size
  OBVIOUS
<1>6. \A c \in 0 .. Size :
        /\ ToSet(g[c]) = Before(selected, c)
        /\ Len(g[c]) = Cardinality(Before(selected, c))
  BY <1>3, <1>5, LoopLists
<1> QED BY <1>3, <1>4, <1>5, <1>6, Zenon

\* Each answer is graded as the user was asked.
LEMMA Graded == GridInv => GradedAsAsked
<1> SUFFICES ASSUME GridInv, at = "asked", NEW selected \in SUBSET (0 .. Size - 1)
             PROVE  isSolved(solution, ExtractSolution(selected)) <=>
                        selected \subseteq ToSelect /\ Cardinality(ToSelect \ selected) <= 1
  BY DEF GradedAsAsked
<1>1. ToSet(solution) = ToSelect
  BY AskedSolution DEF SolutionExact
<1>2. /\ Len(solution) \in Nat /\ IsFiniteSet(ToSelect)
      /\ Cardinality(ToSelect) = Len(solution)
  BY CellsToSelect, TaggedImages DEF GridInv, TypeOK
<1>3. /\ ToSet(ExtractSolution(selected)) = selected
      /\ Len(ExtractSolution(selected)) = Cardinality(selected)
  BY Extracted
<1>4. ASSUME selected \subseteq ToSelect
      PROVE  /\ Cardinality(ToSelect \ selected) = Len(solution) - Cardinality(selected)
             /\ Cardinality(selected) \in Nat
  <2>1. ToSelect \cap selected = selected
    BY <1>4
  <2>2. Cardinality(ToSelect \ selected) = Cardinality(ToSelect) - Cardinality(ToSelect \cap selected)
    BY <1>2, FS_Difference
  <2>3. IsFiniteSet(selected)
    BY <1>2, <1>4, FS_Subset
  <2> QED BY <1>2, <2>1, <2>2, <2>3, FS_CardinalityType
<1>5. isSolved(solution, ExtractSolution(selected)) <=>
        selected \subseteq ToSelect /\ Cardinality(selected) >= Len(solution) - 1
  BY <1>1, <1>3 DEF isSolved
<1>6. ASSUME selected \subseteq ToSelect
      PROVE  Cardinality(selected) >= Len(solution) - 1 <=> Cardinality(ToSelect \ selected) <= 1
  BY <1>2, <1>4, <1>6
<1> QED BY <1>5, <1>6

\* An answer is right if and only if all that it selects has the tag, and it leaves
\* out one image with the tag at most.
THEOREM AnswersGraded == Spec => []GradedAsAsked
BY Graded, GridInvariant, PTL

=============================================================================
