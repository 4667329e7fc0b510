------------------------------ MODULE Detector ------------------------------
(***************************************************************************)
(* The boxes of plates in a photo: detector.py and detector_onnx.py, and   *)
(* detector.ts for the browser, which has the same steps.  A photo is      *)
(* scaled and padded for the network (letterbox), and the boxes that it    *)
(* answers are brought back, padded, and thinned out.  The network itself  *)
(* is any answer.  A coordinate of a box that was brought back is a        *)
(* numerator over Size.  Picked and InOrder are those of Decode.            *)
(***************************************************************************)
EXTENDS Decode

CONSTANTS
  Size, Stride,  \* 640 and 32: the input's long side, and what its sides are multiples of
  Conf           \* the least score of a box

ASSUME DetectorAssumption == /\ Stride \in Nat \ {0}
                             /\ Size \in Nat \ {0} /\ Size % Stride = 0

\* round: to the nearest integer, to the even one of two.
Rounded(n, d) ==
  LET down == n \div d
      rest == 2 * (n % d)
  IN  IF rest < d \/ (rest = d /\ down % 2 = 0) THEN down ELSE down + 1

\* int: towards zero.
Truncated(n, d) == IF n >= 0 THEN n \div d ELSE -((-n) \div d)

\* Mutant: half of the padding on both sides, rounded alike.
Side_Halved(n, long, auto) ==
  LET new == Rounded(n * Size, long)
      pad == IF auto THEN (Size - new) % Stride ELSE Size - new
  IN  [new |-> new, before |-> Rounded(pad, 2), after |-> Rounded(pad, 2)]

\* One side of letterbox: an odd padding has its larger half at the end.
Side(n, long, auto) ==
  LET new == Rounded(n * Size, long)
      pad == IF auto THEN (Size - new) % Stride ELSE Size - new
  IN  [new |-> new, before |-> Rounded(5 * pad - 1, 10), after |-> Rounded(5 * pad + 1, 10)]

Long(photo) == Max({photo.width, photo.height})

\* cv2.resize raises for a photo so narrow that a side is rounded to no pixel.
Resizes(photo) ==
  \A n \in {photo.width, photo.height} : Rounded(n * Size, Long(photo)) > 0

\* The input that is made of a photo, if it can be resized.
Letterbox(photo, auto) ==
  [x |-> Side(photo.width, Long(photo), auto), y |-> Side(photo.height, Long(photo), auto)]

Extent(side) == side.before + side.new + side.after

Clipped(v, high) == Max({0, Min({v, high})})

\* raw_boxes: the confident rows, back in the photo and clipped to it.
RawBoxes(photo, auto, rows) ==
  LET input  == Letterbox(photo, auto)
      back(v, side, n) == Clipped((v - side.before) * Long(photo), n * Size)
      sure   == Picked(rows, {i \in DOMAIN rows : rows[i].score >= Conf})
      x(v)   == back(v, input.x, photo.width)
      y(v)   == back(v, input.y, photo.height)
  IN  [i \in DOMAIN sure |->
        [score |-> sure[i].score,
         box   |-> <<x(sure[i].box[1]), y(sure[i].box[2]), x(sure[i].box[3]), y(sure[i].box[4])>>]]

\* pad_box: 8 % of its size on every side, in whole pixels of the photo.
PadBox(box, photo) ==
  LET low(a, b)     == Max({0, Truncated(100 * a - 8 * (b - a), 100 * Size)})
      high(a, b, n) == Min({n, Truncated(100 * b + 8 * (b - a), 100 * Size)})
  IN  <<low(box[1], box[3]), low(box[2], box[4]),
        high(box[1], box[3], photo.width), high(box[2], box[4], photo.height)>>

Area(box) == (box[3] - box[1]) * (box[4] - box[2])

Overlap(a, b) ==
  LET shared(i) == Max({0, Min({a[i + 2], b[i + 2]}) - Max({a[i], b[i]})})
  IN  shared(1) * shared(2)

\* iou(a, b) < DUPLICATE_IOU, 0.6.
Apart(a, b) ==
  LET inter == Overlap(a, b)
  IN  inter = 0 \/ 10 * inter < 6 * (Area(a) + Area(b) - inter)

\* A stable sort, the most confident first.
ByScore(found) ==
  LET ahead(i, j) == \/ found[i].score > found[j].score
                     \/ found[i].score = found[j].score /\ i < j
      at          == InOrder(DOMAIN found, ahead)
  IN  [n \in DOMAIN at |-> found[at[n]]]

\* d is no duplicate of what is kept.
IsNew(kept, d) == \A i \in DOMAIN kept : Apart(d.box, kept[i].box)

Deduplicate(found) ==
  LET sorted == ByScore(found)
      kept[n \in 0 .. Len(sorted)] ==
        IF n = 0 THEN <<>>
        ELSE IF IsNew(kept[n - 1], sorted[n]) THEN Append(kept[n - 1], sorted[n])
        ELSE kept[n - 1]
  IN  kept[Len(sorted)]

\* The padded boxes that have pixels.
Padded(photo, raw) ==
  LET padded == [i \in DOMAIN raw |-> [score |-> raw[i].score, box |-> PadBox(raw[i].box, photo)]]
      shows(d) == d.box[1] < d.box[3] /\ d.box[2] < d.box[4]
  IN  Picked(padded, {i \in DOMAIN padded : shows(padded[i])})

DetectionsFromBoxes(photo, raw) == Deduplicate(Padded(photo, raw))

-----------------------------------------------------------------------------
\* The input has the sides the network takes, whatever the photo that can be resized and however
\* its padding rounds, and a point of the photo comes back within half a pixel of the input.
LetterboxFits(photos) ==
  \A photo \in {photo \in photos : Resizes(photo)}, auto \in BOOLEAN :
    LET input == Letterbox(photo, auto)
        fits(side, n) ==
          /\ side.before >= 0 /\ side.after - side.before \in {0, 1}
          /\ IF auto THEN Extent(side) % Stride = 0 /\ Extent(side) <= Size ELSE Extent(side) = Size
          /\ \A p \in 0 .. n :
               LET v    == side.before + Rounded(p * Size, Long(photo))
                   back == Clipped((v - side.before) * Long(photo), n * Size)
               IN  2 * (back - p * Size) \in -Long(photo) .. Long(photo)
    IN  fits(input.x, photo.width) /\ fits(input.y, photo.height)

\* Every crop has pixels of the photo, no two crops show the same plate, the most confident is the
\* first (it is the one that is read), and a box is only dropped for a more confident one that
\* covers it: one plate gives one view.
OneCropForAPlate(photo, answers) ==
  \A rows \in answers, auto \in BOOLEAN :
    LET padded == Padded(photo, RawBoxes(photo, auto, rows))
        kept   == Deduplicate(padded)
    IN  /\ \A i \in DOMAIN kept :
             /\ Overlap(kept[i].box, <<0, 0, photo.width, photo.height>>) = Area(kept[i].box)
             /\ \A k \in 1 .. i - 1 : kept[k].score >= kept[i].score /\ Apart(kept[k].box, kept[i].box)
        /\ \A d \in Range(padded) : \E i \in DOMAIN kept :
             kept[i] = d \/ (kept[i].score >= d.score /\ ~Apart(kept[i].box, d.box))
=============================================================================
