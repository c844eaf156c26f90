--------------------------- MODULE FaceCropProofs ---------------------------
(***************************************************************************)
(* Theorems about module FaceCrop, for images of any size and any number   *)
(* of faces.  The inductive invariant is CropInv of module FaceCrop.       *)
(***************************************************************************)
EXTENDS FaceCrop, TLAPS

USE CropAssumption DEF CropAssumption

\* The bounds checks leave a growth that keeps every side of the rectangle in
\* the image.  The two checks of the right and the lower side are not needed,
\* as these sides do not move.
LEMMA DiffBounds ==
    ASSUME colour \in [cols : Side, rows : Side], NEW r \in Rect, Inside(r),
           r.width < ThumbDim
    PROVE  /\ Diff(r) \in Nat
           /\ Diff(r) <= r.x /\ Diff(r) <= r.y /\ r.width + Diff(r) <= ThumbDim
<1> DEFINE wanted == (ThumbDim - r.width) \div 2
           left   == Clip(wanted, r.x - wanted < 0, r.x)
           up     == Clip(left, r.y - left < 0, r.y)
           right  == Clip(up, r.x + r.width + up > colour.cols,
                          colour.cols - (r.x + r.width))
<1>1. wanted \in Nat /\ r.width + wanted <= ThumbDim
  BY DEF Rect
<1>2. left \in Nat /\ left <= wanted /\ left <= r.x
  <2> HIDE DEF wanted
  <2> QED BY <1>1 DEF Rect, Clip
<1>3. up \in Nat /\ up <= left /\ up <= r.y
  <2> HIDE DEF left
  <2> QED BY <1>2 DEF Rect, Clip
<1>4. right \in Nat /\ right <= up
  <2> HIDE DEF up
  <2> QED BY <1>3 DEF Rect, Clip, Inside, Side
<1>5. Diff(r) = Clip(right, r.y + r.height + right > colour.rows,
                     colour.rows - (r.y + r.height))
  BY DEF Diff
<1>6. Diff(r) \in Nat /\ Diff(r) <= right
  <2> HIDE DEF right
  <2> QED BY <1>4, <1>5 DEF Rect, Clip, Inside, Side
<1> HIDE DEF wanted, left, up, right
<1> QED BY <1>1, <1>2, <1>3, <1>4, <1>6 DEF Rect

LEMMA InitCrop == Init => CropInv
BY DEF Init, CropInv, TypeOK, FreshInv, ScanInv, GrowInv, BiggestFace, CutInside,
       CutShowsFace, NoRect, Rect

LEMMA NextCrop == CropInv /\ [Next]_vars => CropInv'
<1> SUFFICES ASSUME CropInv, [Next]_vars PROVE CropInv'
  OBVIOUS
<1> USE DEF CropInv
<1>1. CASE UNCHANGED vars
  BY <1>1 DEF vars, TypeOK, FreshInv, ScanInv, GrowInv, BiggestFace, FirstOfBiggest,
              CutInside, CutShowsFace, Inside, Detectable
<1>2. CASE Detect
  <2>1. PICK n \in 0 .. MaxFaces : faces' \in [1 .. n -> Detectable]
    BY <1>2 DEF Detect
  <2>2. /\ n \in Nat /\ faces' \in Seq(Detectable) /\ Len(faces') = n
        /\ \A k \in 1 .. n : faces'[k] \in Detectable
    BY <2>1
  <2>3. colour' = colour /\ Detectable' = Detectable
    BY <1>2 DEF Detect, Detectable, Inside
  <2>4. Detectable \subseteq Rect
    BY DEF Detectable, Rect, Side
  <2>5. faces' \in Seq(Rect)
    BY <2>2, <2>4
  <2>6. /\ n = 0 => at' = "no_faces" /\ face' = face
        /\ n = 1 => at' = "grow" /\ face' = faces'[1]
        /\ n > 1 => at' = "scan" /\ face' = face
        /\ found' = face' /\ at = "detect" /\ UNCHANGED <<i, max_size>>
    BY <1>2, <2>2 DEF Detect
  <2>7. n = 0 \/ n = 1 \/ n > 1
    BY <2>2
  <2>8. face = NoRect /\ i = 1 /\ max_size = 0
    BY <2>6 DEF FreshInv
  <2>9. face' \in Rect
    BY <2>2, <2>4, <2>6, <2>7, <2>8 DEF NoRect, Rect
  <2>10. TypeOK'
    <3>1. face' \in [x : Int, y : Int, width : Int, height : Int] /\ found' \in Rect
      BY <2>6, <2>9 DEF Rect
    <3>2. at' \in {"detect", "scan", "grow", "cut", "no_faces"}
      BY <2>6, <2>7
    <3>3. \A k \in 1 .. Len(faces') : faces'[k] \in Detectable'
      BY <2>2, <2>3
    <3> QED BY <2>3, <2>5, <2>6, <3>1, <3>2, <3>3 DEF TypeOK
  <2>11. ScanInv'
    BY <2>2, <2>6, <2>7, <2>8 DEF ScanInv, NoRect, Size
  <2>12. BiggestFace'
    BY <2>2, <2>4, <2>6, <2>7 DEF BiggestFace, FirstOfBiggest, Size, Rect
  <2>13. FreshInv' /\ GrowInv' /\ CutInside' /\ CutShowsFace'
    BY <2>6, <2>7 DEF FreshInv, GrowInv, CutInside, CutShowsFace
  <2> QED BY <2>10, <2>11, <2>12, <2>13
<1>3. CASE Scan
  <2>1. /\ at = "scan" /\ at' = "scan" /\ UNCHANGED <<colour, faces, found>>
        /\ i \in 1 .. Len(faces) /\ i' = i + 1 /\ Len(faces) \in Nat
        /\ faces[i] \in Rect /\ faces[i] \in Detectable
    BY <1>3 DEF Scan, TypeOK
  <2>2. Size(faces[i]) \in Nat \ {0}
    BY <2>1 DEF Size, Rect, Detectable, Side
  <2>3. Detectable' = Detectable
    BY <2>1 DEF Detectable, Inside
  <2>4. /\ face' = IF Size(faces[i]) > max_size THEN faces[i] ELSE face
        /\ max_size' = IF Size(faces[i]) > max_size THEN Size(faces[i]) ELSE max_size
    BY <1>3 DEF Scan
  <2>5. TypeOK'
    <3>1. max_size' \in Nat
      BY <2>2, <2>4 DEF TypeOK
    <3>2. face' \in [x : Int, y : Int, width : Int, height : Int]
      <4>1. faces[i] \in [x : Int, y : Int, width : Int, height : Int]
        BY <2>1 DEF Rect
      <4>2. face \in [x : Int, y : Int, width : Int, height : Int]
        BY DEF TypeOK
      <4> QED BY <2>4, <4>1, <4>2
    <3>3. i' \in Nat \ {0}
      BY <2>1
    <3> QED BY <2>1, <2>3, <3>1, <3>2, <3>3 DEF TypeOK
  <2>6. max_size' = Size(face')
    BY <2>1, <2>4 DEF ScanInv
  <2>7. \A k \in 1 .. Len(faces) : Size(faces[k]) \in Nat
    <3>1. \A k \in 1 .. Len(faces) : faces[k] \in Rect
      BY <2>1 DEF TypeOK
    <3> QED BY <3>1 DEF Rect, Size
  <2>8. FirstOfBiggest(face', i)
    <3>1. CASE i = 1
      <4>1. face' = faces[1]
        <5>1. max_size = Size(face) /\ face = NoRect
          BY <2>1, <3>1 DEF ScanInv
        <5>2. max_size = 0
          BY <5>1 DEF NoRect, Size
        <5>3. Size(faces[i]) > max_size
          BY <2>2, <5>2
        <5> QED BY <2>4, <3>1, <5>3
      <4> QED BY <2>1, <2>7, <3>1, <4>1 DEF FirstOfBiggest
    <3>2. CASE i > 1
      <4>1. PICK k \in 1 .. i - 1 :
                /\ face = faces[k]
                /\ \A l \in 1 .. i - 1 : Size(faces[l]) <= Size(face)
                /\ \A l \in 1 .. k - 1 : Size(faces[l]) < Size(face)
        BY <2>1, <3>2 DEF ScanInv, FirstOfBiggest
      <4>2. max_size = Size(face) /\ k \in 1 .. Len(faces)
        BY <2>1 DEF ScanInv
      <4>3. CASE Size(faces[i]) > max_size
        <5>1. face' = faces[i]
          BY <2>4, <4>3
        <5>2. ASSUME NEW l \in 1 .. i - 1 PROVE Size(faces[l]) < Size(faces[i])
          BY <2>1, <2>7, <4>1, <4>2, <4>3
        <5> QED BY <2>1, <2>7, <5>1, <5>2 DEF FirstOfBiggest
      <4>4. CASE ~ Size(faces[i]) > max_size
        <5>1. face' = face /\ Size(faces[i]) <= Size(face)
          BY <2>1, <2>4, <2>7, <4>1, <4>2, <4>4
        <5>2. \A l \in 1 .. i : Size(faces[l]) <= Size(face)
          BY <2>1, <4>1, <5>1
        <5> QED BY <2>1, <4>1, <5>1, <5>2 DEF FirstOfBiggest
      <4> QED BY <4>3, <4>4
    <3> QED BY <2>1, <3>1, <3>2
  <2>10. FirstOfBiggest(face, i - 1)'
    <3>1. faces' = faces /\ i' - 1 = i
      BY <2>1
    <3> QED BY <2>8, <3>1 DEF FirstOfBiggest
  <2>11. ScanInv'
    BY <2>1, <2>6, <2>10 DEF ScanInv
  <2>9. FreshInv' /\ GrowInv' /\ BiggestFace' /\ CutInside' /\ CutShowsFace'
    BY <2>1 DEF FreshInv, GrowInv, BiggestFace, CutInside, CutShowsFace
  <2> QED BY <2>5, <2>9, <2>11
<1>4. CASE EndScan
  <2>1. /\ at = "scan" /\ at' = "grow" /\ found' = face
        /\ UNCHANGED <<colour, faces, i, max_size, face>>
        /\ i = Len(faces) + 1 /\ Len(faces) \in Nat /\ Len(faces) > 1
    BY <1>4 DEF EndScan, TypeOK, ScanInv
  <2>2. FirstOfBiggest(face, Len(faces)) /\ \E k \in 1 .. Len(faces) : face = faces[k]
    BY <2>1 DEF ScanInv, FirstOfBiggest
  <2>3. face \in Rect /\ Detectable' = Detectable
    BY <2>1, <2>2 DEF TypeOK, Detectable, Inside
  <2>4. TypeOK'
    BY <2>1, <2>3 DEF TypeOK
  <2>5. BiggestFace'
    BY <2>1, <2>2 DEF BiggestFace, FirstOfBiggest
  <2>6. FreshInv' /\ ScanInv' /\ GrowInv' /\ CutInside' /\ CutShowsFace'
    BY <2>1 DEF FreshInv, ScanInv, GrowInv, CutInside, CutShowsFace
  <2> QED BY <2>4, <2>5, <2>6
<1>5. CASE Grow
  <2>1. /\ at = "grow" /\ at' = "cut" /\ found = face
        /\ UNCHANGED <<colour, faces, i, max_size, found>>
    BY <1>5 DEF Grow, GrowInv
  <2>2. found \in Detectable /\ found \in Rect
    BY <2>1 DEF TypeOK, BiggestFace, FirstOfBiggest
  <2>3. Inside(found) /\ found.width > 0 /\ found.height > 0
    BY <2>2 DEF Detectable, Side
  <2>4. colour \in [cols : Side, rows : Side] /\ Detectable' = Detectable
    BY <2>1 DEF TypeOK, Detectable, Inside
  <2>5. CASE ~ (found.width < ThumbDim /\ found.height = found.width)
    <3>1. face' = found
      BY <1>5, <2>1, <2>5 DEF Grow
    <3>2. TypeOK' /\ BiggestFace'
      BY <2>1, <2>4, <3>1 DEF TypeOK, BiggestFace, FirstOfBiggest
    <3>3. FreshInv' /\ ScanInv' /\ GrowInv'
      BY <2>1 DEF FreshInv, ScanInv, GrowInv
    <3>4. CutInside'
      BY <2>1, <2>3, <3>1 DEF CutInside, Inside
    <3>5. found \in [x : Int, y : Int, width : Int, height : Int]
      BY <2>2 DEF Rect
    <3>6. CutShowsFace'
      BY <2>1, <3>1, <3>5 DEF CutShowsFace
    <3> QED BY <3>2, <3>3, <3>4, <3>6
  <2>6. CASE found.width < ThumbDim /\ found.height = found.width
    <3> DEFINE d == Diff(found)
    <3>1. face' = Grown(found, d)
      BY <1>5, <2>1, <2>6 DEF Grow
    <3>2. d \in Nat /\ d <= found.x /\ d <= found.y /\ found.width + d <= ThumbDim
      BY <2>2, <2>3, <2>4, <2>6, DiffBounds
    <3> HIDE DEF d
    <3>3. TypeOK'
      BY <2>1, <2>2, <2>4, <3>1, <3>2 DEF TypeOK, Grown, Rect
    <3>4. CutInside' /\ CutShowsFace'
      BY <2>1, <2>2, <2>3, <2>4, <2>6, <3>1, <3>2 DEF CutInside, CutShowsFace, Inside,
         Grown, Rect, Side
    <3>5. FreshInv' /\ ScanInv' /\ GrowInv' /\ BiggestFace'
      BY <2>1 DEF FreshInv, ScanInv, GrowInv, BiggestFace, FirstOfBiggest
    <3> QED BY <3>3, <3>4, <3>5
  <2> QED BY <2>5, <2>6
<1>6. CASE Return
  BY <1>6 DEF Return, Call, TypeOK, FreshInv, ScanInv, GrowInv, BiggestFace, CutInside,
              CutShowsFace, NoRect, Rect
<1> QED BY <1>1, <1>2, <1>3, <1>4, <1>5, <1>6 DEF Next

\* The inductive invariant holds in every reachable state.
THEOREM CropInvariance == Spec => []CropInv
BY InitCrop, NextCrop, PTL DEF Spec

\* The rectangle that is cut out lies in the image, whatever was detected.
THEOREM AlwaysInside == Spec => []CutInside
<1>1. CropInv => CutInside
  BY DEF CropInv
<1> QED BY <1>1, CropInvariance, PTL

\* The face that the cut is made for is the first among the biggest that were detected.
THEOREM ShowsBiggestFace == Spec => []BiggestFace
<1>1. CropInv => BiggestFace
  BY DEF CropInv
<1> QED BY <1>1, CropInvariance, PTL

\* The cut shows the whole of that face, does not outgrow the thumbnail for the sake
\* of its surroundings, and stays a square.
THEOREM ShowsWholeFace == Spec => []CutShowsFace
<1>1. CropInv => CutShowsFace
  BY DEF CropInv
<1> QED BY <1>1, CropInvariance, PTL
=============================================================================
