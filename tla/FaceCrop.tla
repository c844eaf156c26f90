------------------------------ MODULE FaceCrop ------------------------------
(***************************************************************************)
(* thumbnail of thumbnail.cc: the biggest of the faces that the classifier *)
(* detects is cut out of the image, with some of its surroundings if it is *)
(* small.  Rectangles are in pixels of the image, with the origin at its   *)
(* left upper corner.  The scaling of the cut to a square of ThumbDim      *)
(* pixels, the distortion and the encoding change no state of this module. *)
(***************************************************************************)
EXTENDS Integers, Sequences

CONSTANTS
    ThumbDim,   \* thumb_dim, 150 in the code
    MinFace,    \* width and height of the smallest face detected, 50
    MaxSide,    \* bound on the width and the height of an image
    MaxFaces    \* bound on the number of faces detected

ASSUME CropAssumption ==
    ThumbDim \in Nat /\ MinFace \in Nat \ {0} /\ MaxSide \in Nat /\ MaxFaces \in Nat

VARIABLES
    at,        \* program point
    colour,    \* the image: its cols and rows
    faces,     \* what detectMultiScale returns
    i,         \* position in faces of the loop that looks for the biggest match
    max_size,  \* size of the biggest match so far
    face,      \* the rectangle that is cut out
    found      \* history: the biggest match

vars == <<at, colour, faces, i, max_size, face, found>>

Side == 1 .. MaxSide
Rect == [x : Nat, y : Nat, width : Nat, height : Nat]
NoRect == [x |-> 0, y |-> 0, width |-> 0, height |-> 0]    \* cv::Rect()

Inside(r) ==
    /\ 0 <= r.x /\ r.x + r.width <= colour.cols
    /\ 0 <= r.y /\ r.y + r.height <= colour.rows
Detectable ==
    {r \in [x : 0 .. MaxSide, y : 0 .. MaxSide, width : Side, height : Side] :
        r.width >= MinFace /\ r.height >= MinFace /\ Inside(r)}
Size(r) == r.width + r.height

TypeOK ==
    /\ at \in {"detect", "scan", "grow", "cut", "no_faces"}
    /\ colour \in [cols : Side, rows : Side]
    /\ faces \in Seq(Rect) /\ \A k \in 1 .. Len(faces) : faces[k] \in Detectable
    /\ i \in Nat \ {0} /\ max_size \in Nat
    /\ face \in [x : Int, y : Int, width : Int, height : Int]
    /\ found \in Rect

Call ==
    /\ at' = "detect"
    /\ colour' \in [cols : Side, rows : Side]
    /\ faces' = <<>> /\ i' = 1 /\ max_size' = 0
    /\ face' = NoRect /\ found' = NoRect

Init ==
    /\ at = "detect"
    /\ colour \in [cols : Side, rows : Side]
    /\ faces = <<>> /\ i = 1 /\ max_size = 0
    /\ face = NoRect /\ found = NoRect

-----------------------------------------------------------------------------
Detect ==
    /\ at = "detect"
    /\ \E n \in 0 .. MaxFaces : faces' \in [1 .. n -> Detectable]
    /\ at' = CASE Len(faces') = 0 -> "no_faces"
               [] Len(faces') = 1 -> "grow"
               [] OTHER -> "scan"
    /\ face' = IF Len(faces') = 1 THEN faces'[1] ELSE face
    /\ found' = face'
    /\ UNCHANGED <<colour, i, max_size>>

ScanTakesLast ==                 \* mutant: >= for >
    /\ at = "scan" /\ i <= Len(faces)
    /\ IF Size(faces[i]) >= max_size
       THEN face' = faces[i] /\ max_size' = Size(faces[i])
       ELSE UNCHANGED <<face, max_size>>
    /\ i' = i + 1
    /\ UNCHANGED <<at, colour, faces, found>>

Scan ==
    /\ at = "scan" /\ i <= Len(faces)
    /\ IF Size(faces[i]) > max_size
       THEN face' = faces[i] /\ max_size' = Size(faces[i])
       ELSE UNCHANGED <<face, max_size>>
    /\ i' = i + 1
    /\ UNCHANGED <<at, colour, faces, found>>

EndScan ==
    /\ at = "scan" /\ i > Len(faces)
    /\ at' = "grow"
    /\ found' = face
    /\ UNCHANGED <<colour, faces, i, max_size, face>>

\* The bounds checks, in the order of the code.
Clip(diff, over, room) == IF over THEN room ELSE diff

DiffUnclipped(r) == (ThumbDim - r.width) \div 2   \* mutant: no bounds checks
Diff(r) ==
    LET wanted == (ThumbDim - r.width) \div 2
        left   == Clip(wanted, r.x - wanted < 0, r.x)
        up     == Clip(left, r.y - left < 0, r.y)
        right  == Clip(up, r.x + r.width + up > colour.cols,
                       colour.cols - (r.x + r.width))
    IN  Clip(right, r.y + r.height + right > colour.rows,
             colour.rows - (r.y + r.height))

GrownShifted(r, d) ==            \* mutant: the sides do not grow
    [x |-> r.x - d, y |-> r.y - d, width |-> r.width, height |-> r.height]
Grown(r, d) ==
    [x |-> r.x - d, y |-> r.y - d, width |-> r.width + d, height |-> r.height + d]

Grow ==
    /\ at = "grow"
    /\ at' = "cut"
    /\ face' = IF face.width < ThumbDim /\ face.height = face.width
               THEN Grown(face, Diff(face)) ELSE face
    /\ UNCHANGED <<colour, faces, i, max_size, found>>

\* thumbnail returns, and is called for another image.
Return ==
    /\ at \in {"cut", "no_faces"}
    /\ Call

Next == Detect \/ Scan \/ EndScan \/ Grow \/ Return

Spec == Init /\ [][Next]_vars

-----------------------------------------------------------------------------
\* The cut is a part of the image: cv::Mat(colour, face) throws otherwise, and
\* the image is lost to an error that nobody expects.
CutInside == at = "cut" => Inside(face) /\ face.width > 0 /\ face.height > 0

\* The cut shows the whole face that was found, does not exceed ThumbDim because
\* of its surroundings, and remains a square if the face is one.
CutShowsFace ==
    at = "cut" =>
        /\ face.x <= found.x /\ found.x + found.width <= face.x + face.width
        /\ face.y <= found.y /\ found.y + found.height <= face.y + face.height
        /\ face.width > found.width => face.width <= ThumbDim
        /\ found.width = found.height => face.width = face.height

\* r is the first among the biggest of the first n faces.
FirstOfBiggest(r, n) ==
    \E k \in 1 .. n :
        /\ r = faces[k]
        /\ \A l \in 1 .. n : Size(faces[l]) <= Size(r)
        /\ \A l \in 1 .. k - 1 : Size(faces[l]) < Size(r)

\* The face is one of those detected, no other is bigger, and of faces of the same
\* size the one that the classifier reported first is taken.
BiggestFace == at \in {"grow", "cut"} => FirstOfBiggest(found, Len(faces))

\* The inductive invariant: the loop has the biggest of the faces it has seen.
FreshInv == at = "detect" => face = NoRect /\ i = 1 /\ max_size = 0
ScanInv ==
    at = "scan" =>
        /\ i <= Len(faces) + 1 /\ Len(faces) > 1
        /\ max_size = Size(face)
        /\ i = 1 => face = NoRect
        /\ i > 1 => FirstOfBiggest(face, i - 1)
GrowInv == at = "grow" => face = found
CropInv ==
    /\ TypeOK /\ FreshInv /\ ScanInv /\ GrowInv
    /\ BiggestFace /\ CutInside /\ CutShowsFace
=============================================================================
