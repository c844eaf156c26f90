---------------------------- MODULE CaptchaGrid ----------------------------
(***************************************************************************)
(* The making of captchas: initPool and NewCaptcha of service.go with      *)
(* ImageCount and GenerateCaptcha of package db, and isSolved, which       *)
(* grades the answers.  The sections of a captcha lock dbMu one by one,    *)
(* while fetchers go on registering images.  Images never leave the table  *)
(* (module ImagePipeline), and their tags are inserted with them.          *)
(***************************************************************************)
EXTENDS Integers, Sequences, FiniteSets, SequencesExt, FiniteSetsExt

CONSTANTS
    Images,       \* hashes of images of the explicitness of the service
    Tags,         \* tags of the service that are initialized before it starts
    Tagged,       \* Tagged[t]: the images with tag t
    Blank,        \* the zero hash of a cell that was not filled
    Size,         \* number of cells, 9 in the code
    poolMinSize,  \* images of a tag before the tag is used, 6 in the code
    minCount      \* images of a tag that a captcha needs, 4 in the code

ASSUME GridAssumption ==
    /\ IsFiniteSet(Images) /\ Tagged \in [Tags -> SUBSET Images]
    /\ Blank \notin Images
    /\ Size \in Nat /\ Size > 3 /\ poolMinSize \in Nat
    /\ minCount \in Nat /\ minCount >= 3   \* as many as a captcha may ask for

VARIABLES
    pool,      \* images that are registered
    at,        \* program point
    tag,       \* tag of the captcha
    images,    \* the cells
    matched,   \* copy of the first matchedCount cells
    i, j,      \* indices of the loop that makes the solution
    solution   \* indices of the cells to select

vars == <<pool, at, tag, images, matched, i, j, solution>>

Cells == 0 .. Size - 1
NoImages == [c \in Cells |-> Blank]
matchedCount == Len(matched)
Counts == {2, 3}    \* common.RandomInt(2) + 2

TypeOK ==
    /\ pool \subseteq Images
    /\ at \in {"init", "count", "match", "fill", "shuffle", "solve", "asked"}
    /\ tag \in Tags
    /\ images \in [Cells -> Images \cup {Blank}]
    /\ matched \in Seq(Images \cup {Blank}) /\ matchedCount \in Counts \cup {0}
    /\ i \in 0 .. Size /\ j \in 0 .. matchedCount
    /\ solution \in Seq(Cells) /\ Len(solution) = matchedCount

Init ==
    /\ pool = {} /\ tag \in Tags
    /\ at = "init" /\ images = NoImages /\ matched = <<>>
    /\ i = 0 /\ j = 0 /\ solution = <<>>

-----------------------------------------------------------------------------
\* A fetcher registers an image with its tags.
InsertImage ==
    /\ \E x \in Images \ pool : pool' = pool \cup {x}
    /\ UNCHANGED <<at, tag, images, matched, i, j, solution>>

Count(t) == Cardinality(pool \cap Tagged[t])

\* initPool: the service starts when each of the first tags has its images.
InitPool ==
    /\ at = "init"
    /\ \A t \in Tags : Count(t) >= poolMinSize
    /\ at' = "count"
    /\ UNCHANGED <<pool, tag, images, matched, i, j, solution>>

\* NewCaptcha; with too few images of the tag it calls itself again.
NewCaptcha ==
    /\ at \in {"count", "asked"}
    /\ tag' \in Tags
    /\ at' = IF Count(tag') < minCount THEN "count" ELSE "match"
    /\ images' = NoImages /\ matched' = <<>>
    /\ i' = 0 /\ j' = 0 /\ solution' = <<>>
    /\ UNCHANGED pool

-----------------------------------------------------------------------------
(* GenerateCaptcha.                                                        *)

\* The rows of a query ordered by random() and limited to n are written to the
\* cells from the first on; the cells past the rows are left alone.
Rows(set, n) ==
    UNION {SetToSeqs(s) : s \in kSubset(Min({n, Cardinality(set)}), set)}
queryHashes(first, rows) ==
    [c \in Cells |-> IF c \in first .. first + Len(rows) - 1
                     THEN rows[c - first + 1] ELSE images[c]]

Matching == pool \cap Tagged[tag]
NonMatchingAll == pool           \* mutant: images with the tag are not excluded
NonMatching == pool \ Tagged[tag]

getMatchingImagesNoSize ==       \* mutant: make([]byte, 0) for the solution
    /\ at = "match"
    /\ \E n \in Counts : \E rows \in Rows(Matching, n) :
        /\ images' = queryHashes(0, rows)
        /\ matched' = [k \in 1 .. n |-> images'[k - 1]]
        /\ solution' = <<>>
    /\ at' = "fill"
    /\ UNCHANGED <<pool, tag, i, j>>

getMatchingImages ==
    /\ at = "match"
    /\ \E n \in Counts : \E rows \in Rows(Matching, n) :
        /\ images' = queryHashes(0, rows)
        /\ matched' = [k \in 1 .. n |-> images'[k - 1]]
        /\ solution' = [k \in 1 .. n |-> 0]
    /\ at' = "fill"
    /\ UNCHANGED <<pool, tag, i, j>>

getNonMatchingImages ==
    /\ at = "fill"
    /\ \E rows \in Rows(NonMatching, Size - matchedCount) :
        images' = queryHashes(matchedCount, rows)
    /\ at' = "shuffle"
    /\ UNCHANGED <<pool, tag, matched, i, j, solution>>

Shuffle ==
    /\ at = "shuffle"
    /\ \E p \in SetToSeqs(Cells) : images' = [c \in Cells |-> images[p[c + 1]]]
    /\ at' = "solve"
    /\ UNCHANGED <<pool, tag, matched, i, j, solution>>

\* A turn of the outer loop: cell i is noted for every matched image that equals
\* it.  An index j out of range would be a panic: TypeOK says that it is not.
Hits == Cardinality({k \in 1 .. matchedCount : matched[k] = images[i]})

SolveCellPlace ==                \* mutant: the place among the hits is noted
    /\ at = "solve" /\ i < Size /\ j < matchedCount
    /\ j' = j + Hits
    /\ solution' = [k \in 1 .. matchedCount |->
                        IF k \in j + 1 .. j' THEN j ELSE solution[k]]
    /\ i' = i + 1
    /\ UNCHANGED <<pool, at, tag, images, matched>>

SolveCell ==
    /\ at = "solve" /\ i < Size /\ j < matchedCount
    /\ j' = j + Hits
    /\ solution' = [k \in 1 .. matchedCount |->
                        IF k \in j + 1 .. j' THEN i ELSE solution[k]]
    /\ i' = i + 1
    /\ UNCHANGED <<pool, at, tag, images, matched>>

\* The captcha is inserted and shown.
InsertCaptcha ==
    /\ at = "solve" /\ (i = Size \/ j = matchedCount)
    /\ at' = "asked"
    /\ UNCHANGED <<pool, tag, images, matched, i, j, solution>>

Next ==
    \/ InsertImage \/ InitPool \/ NewCaptcha
    \/ getMatchingImages \/ getNonMatchingImages \/ Shuffle
    \/ SolveCell \/ InsertCaptcha

Spec == Init /\ [][Next]_vars

-----------------------------------------------------------------------------
\* ExtractSolution: the loop over the cells appends those that are selected.
ExtractSolution(selected) ==
    LET chosen[c \in 0 .. Size] ==
            IF c = 0 THEN <<>>
            ELSE IF c - 1 \in selected THEN Append(chosen[c - 1], c - 1)
            ELSE chosen[c - 1]
    IN  chosen[Size]

\* Every proposed cell has to be a correct one; each counts.
isSolvedSkips(correct, proposed) ==   \* mutant: a wrong cell is skipped
    Cardinality({k \in 1 .. Len(proposed) : proposed[k] \in ToSet(correct)})
        >= Len(correct) - 1
isSolved(correct, proposed) ==
    /\ ToSet(proposed) \subseteq ToSet(correct)
    /\ Len(proposed) >= Len(correct) - 1

-----------------------------------------------------------------------------
ToSelect == {c \in Cells : images[c] \in Tagged[tag]}

\* The solution that is stored is what a user sees: exactly the cells whose image
\* has the tag, in order, whatever is registered between the queries.
SolutionExact ==
    at = "asked" =>
        /\ ToSet(solution) = ToSelect /\ Len(solution) \in Counts
        /\ \A k, l \in 1 .. Len(solution) : k < l => solution[k] < solution[l]

\* No image is shown twice: the two queries of different moments do not overlap.
CellsDiffer ==
    at = "asked" => \A c, d \in Cells :
        c # d /\ images[c] = images[d] => images[c] = Blank

\* An answer is right if it selects only images with the tag, and all of them but
\* one at most.
GradedAsAsked ==
    at = "asked" => \A selected \in SUBSET Cells :
        isSolved(solution, ExtractSolution(selected)) <=>
            selected \subseteq ToSelect /\ Cardinality(ToSelect \ selected) <= 1
=============================================================================
