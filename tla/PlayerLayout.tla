---------------------------- MODULE PlayerLayout ----------------------------
(***************************************************************************)
(* The size of the picture.  ZMediaPlayer.changePlayerLayout gives its     *)
(* view a size when libvlc reports the size of the video, and only then.   *)
(* ZMediaPlayer2 hands the size to its view, a PlayerTextureView, which    *)
(* measures itself with a ZDisplayMode in every layout pass.  The two show *)
(* the same video in the same container here.                              *)
(*                                                                         *)
(* Lengths are integers, and <<n, d>> is the fraction n/d.  The doubles    *)
(* and floats between them are rounded: a length that is computed with a   *)
(* ratio is any that is less than 1/Precision of a pixel from the exact    *)
(* one, so that its ceiling or its integral part may be one pixel off, and *)
(* a comparison of two ratios may go either way when they are as near.     *)
(***************************************************************************)
EXTENDS Integers

CONSTANTS Containers,  \* sizes <<width, height>> the container may have
          Videos,      \* layouts libvlc may report
          SizeModes,   \* values of playerSizeMode; a number it does not know is "fill"
          Heights,     \* values of the constructor's videoHeight, 0 if not given
          Precision    \* the error of a computed length is at most 1/Precision

\* A third of a pixel is what the proofs need.  Two roundings of a float are
\* less than that up to a length of two million pixels, and less than a
\* thousandth up to eight thousand.
ASSUME LayoutAssumption ==
  /\ Precision \in Nat /\ Precision >= 3
  /\ Containers \subseteq Nat \X Nat /\ Heights \subseteq Nat
  /\ SizeModes \subseteq {"bestFit", "fitHorizontal", "fitVertical", "fill",
                          "16:9", "4:3", "original"}
  /\ \A v \in Videos :
       /\ {v.width, v.height, v.visibleWidth, v.visibleHeight} \subseteq Nat
       /\ v.width * v.height # 0 => v.visibleWidth * v.visibleHeight # 0
       /\ v.sarNum \in Nat /\ v.sarDen \in Nat
       /\ v.sarNum = v.sarDen \/ v.sarNum * v.sarDen # 0

VARIABLES container,    \* the size of both containers
          portrait,     \* the orientation of the configuration
          currentSize,  \* ZMediaPlayer.currentSize
          videoHeight,  \* ZMediaPlayer.videoHeight
          video,        \* the last layout reported
          windowSize,   \* AWindow's, where libvlc draws
          layoutParams, \* the size and left margin of ZMediaPlayer's view
          fresh,        \* layoutParams belong to the container, portrait and video
          displayMode,  \* PlayerTextureView.displayMode
          measured,     \* the measured size of the PlayerTextureView
          requested     \* a layout pass is due

layoutVars == <<container, portrait, currentSize, videoHeight, video, windowSize,
                layoutParams, fresh, displayMode, measured, requested>>

NoVideo == [width |-> -1, height |-> -1, visibleWidth |-> 0,
            visibleHeight |-> 0, sarNum |-> 0, sarDen |-> 0]
NoLayout == [width |-> 0, height |-> 0, marginLeft |-> 0]
DisplayModes == {"bestFit", "fitHorizontal", "fitVertical", "fill"}

LayoutInit ==
  /\ container \in Containers /\ portrait \in BOOLEAN
  /\ currentSize \in SizeModes /\ videoHeight \in Heights
  /\ video = NoVideo /\ windowSize = <<-1, -1>>
  /\ layoutParams = NoLayout /\ fresh = FALSE
  /\ displayMode = "bestFit" /\ measured = <<0, 0>> /\ requested = TRUE

----------------------------------------------------------------------------
(* Fractions *)

Times(a, b) == <<a[1] * b[1], a[2] * b[2]>>
Over(a, b) == <<a[1] * b[2], a[2] * b[1]>>
Less(a, b) == a[1] * b[2] < b[1] * a[2]
Ceil(a) == -((-a[1]) \div a[2])
Floor(a) == a[1] \div a[2]
Half(n) == IF n < 0 THEN -((-n) \div 2) ELSE n \div 2  \* as Java rounds

\* The fractions 1/Precision below and above a.
Below(a) == <<a[1] * Precision - a[2], a[2] * Precision>>
Above(a) == <<a[1] * Precision + a[2], a[2] * Precision>>

\* The integers that a computed length near a > 0, or a >= 0, may be rounded to:
\* the error is relative, a length that is positive stays positive.
CeilNear(a) == {n \in Ceil(Below(a)) .. Ceil(Above(a)) : n > 0}
FloorNear(a) == {n \in Floor(Below(a)) .. Floor(Above(a)) : n >= 0}

Close(a, n) == ~Less(<<n, 1>>, Below(a)) /\ ~Less(Above(a), <<n, 1>>)

\* A side of a picture is an integer that is taken over, or it is computed.
Given(n) == [length |-> <<n, 1>>, exact |-> TRUE]
Computed(a) == [length |-> a, exact |-> FALSE]

\* What becomes of a side when it is scaled and rounded up.
RoundedUp(side, scale) ==
  LET a == Times(side.length, scale)
  IN IF side.exact THEN {Ceil(a)} ELSE CeilNear(a)

----------------------------------------------------------------------------
(* ZMediaPlayer *)

\* The width of the visible part in square pixels, and its aspect ratio.
SquareWidth(v) ==
  IF v.sarDen = v.sarNum THEN <<v.visibleWidth, 1>>
  ELSE <<v.visibleWidth * v.sarNum, v.sarDen>>

Ratio(v, mode) ==
  CASE mode = "16:9" -> <<16, 9>>
    [] mode = "4:3" -> <<4, 3>>
    [] OTHER -> Over(SquareWidth(v), <<v.visibleHeight, 1>>)

\* Mutant of Narrower: the comparison is reversed.
NarrowerNot(box, ar) == Less(ar, <<box[1], box[2]>>)

Narrower(box, ar) == Less(<<box[1], box[2]>>, ar)

FullWidth(box, ar) == <<Given(box[1]), Computed(Over(<<box[1], 1>>, ar))>>
FullHeight(box, ar) == <<Computed(Times(<<box[2], 1>>, ar)), Given(box[2])>>

\* The box has the ratio ar, to within the precision.
SameShape(box, ar) ==
  /\ Close(Over(<<box[1], 1>>, ar), box[2])
  /\ Close(Times(<<box[2], 1>>, ar), box[1])

\* The width and height of the visible picture in a box.
Pictures(mode, box, ar, v) ==
  CASE mode \in {"bestFit", "16:9", "4:3"} ->
         {side \in {FullWidth(box, ar), FullHeight(box, ar)} :
            \/ side = IF Narrower(box, ar) THEN FullWidth(box, ar)
                                           ELSE FullHeight(box, ar)
            \/ SameShape(box, ar)}
    [] mode = "fitHorizontal" -> {FullWidth(box, ar)}
    [] mode = "fitVertical" -> {FullHeight(box, ar)}
    [] mode = "fill" -> {<<Given(box[1]), Given(box[2])>>}
    [] mode = "original" ->
         {<<[length |-> SquareWidth(v), exact |-> v.sarDen = v.sarNum],
            Given(v.visibleHeight)>>}

\* The container as changePlayerLayout sees it, and the box it fits into.
Window == <<container[1],
            IF videoHeight > 0 THEN videoHeight ELSE container[2]>>

Contradicts(w) == (w[1] > w[2] /\ portrait) \/ (w[1] < w[2] /\ ~portrait)

Box == IF Contradicts(Window) THEN <<Window[2], Window[1]>> ELSE Window

\* Mutant of ViewSizes: rounded down.
ViewSizesDown(v) ==
  UNION {FloorNear(Times(p[1].length, <<v.width, v.visibleWidth>>))
           \X FloorNear(Times(p[2].length, <<v.height, v.visibleHeight>>)) :
         p \in Pictures(currentSize, Box, Ratio(v, currentSize), v)}

\* The sizes the view may get; it also holds what is cropped.
ViewSizes(v) ==
  UNION {RoundedUp(p[1], <<v.width, v.visibleWidth>>)
           \X RoundedUp(p[2], <<v.height, v.visibleHeight>>) :
         p \in Pictures(currentSize, Box, Ratio(v, currentSize), v)}

changePlayerLayout(v) ==
  /\ windowSize' = Window
  /\ IF Box[1] * Box[2] = 0 \/ v.width * v.height = 0
       THEN fresh' = FALSE /\ UNCHANGED layoutParams
       ELSE \E size \in ViewSizes(v) :
              /\ layoutParams' = [width |-> size[1], height |-> size[2],
                                  marginLeft |-> Half(container[1] - size[1])]
              /\ fresh' = TRUE

----------------------------------------------------------------------------
(* PlayerTextureView and ZDisplayMode *)

\* ZDisplayMode.measureDefault: without a video, the size the parent gives.
MeasureDefault(given) ==
  <<IF given[1] THEN container[1] ELSE 0, IF given[2] THEN container[2] ELSE 0>>

\* The sizes that show a video of w by h over the full width, or height.
Wide(size, w, h) == {size[1]} \X FloorNear(<<size[1] * h, w>>)
High(size, w, h) == FloorNear(<<size[2] * w, h>>) \X {size[2]}

\* Mutant of Measure: the larger scale is taken.
MeasureCrop(mode, size, w, h) ==
  CASE mode = "bestFit" ->
         IF Less(<<size[1], w>>, <<size[2], h>>) THEN High(size, w, h)
                                                 ELSE Wide(size, w, h)
    [] mode = "fitHorizontal" -> Wide(size, w, h)
    [] mode = "fitVertical" -> High(size, w, h)
    [] mode = "fill" -> {size}

\* The sizes a view may measure.
Measure(mode, size, w, h) ==
  CASE mode = "bestFit" ->
         (IF Less(<<size[1], w>>, <<size[2], h>>) THEN Wide(size, w, h)
                                                  ELSE High(size, w, h))
           \cup (IF SameShape(size, <<w, h>>)
                 THEN Wide(size, w, h) \cup High(size, w, h) ELSE {})
    [] mode = "fitHorizontal" -> Wide(size, w, h)
    [] mode = "fitVertical" -> High(size, w, h)
    [] mode = "fill" -> {size}

\* A layout pass; given[i] is FALSE for a length the parent leaves unspecified.
onMeasure(given) ==
  /\ requested
  /\ measured' \in IF video.width < 1 \/ video.height < 1
                     THEN {MeasureDefault(given)}
                     ELSE Measure(displayMode, container, video.width, video.height)
  /\ requested' = FALSE
  /\ UNCHANGED <<container, portrait, currentSize, videoHeight, video,
                 windowSize, layoutParams, fresh, displayMode>>

\* Mutant of setVideoSize: no layout pass is requested.
setVideoSizeQuiet == UNCHANGED requested

setVideoSize == requested' = TRUE

setDisplayMode(mode) ==
  /\ displayMode' = mode /\ requested' = TRUE
  /\ UNCHANGED <<container, portrait, currentSize, videoHeight, video,
                 windowSize, layoutParams, fresh, measured>>

----------------------------------------------------------------------------

\* libvlc reports the size of the video, to ZMediaPlayer and to ZMediaPlayer2.
onNewLayout(v) ==
  /\ video' = v
  /\ changePlayerLayout(v)
  /\ setVideoSize
  /\ UNCHANGED <<container, portrait, currentSize, videoHeight, displayMode,
                 measured>>

\* The device is turned or the container gets another size: a layout pass
\* follows, but nobody calls changePlayerLayout.
Turn(c, p) ==
  /\ <<c, p>> # <<container, portrait>>
  /\ container' = c /\ portrait' = p /\ requested' = TRUE /\ fresh' = FALSE
  /\ UNCHANGED <<currentSize, videoHeight, video, windowSize, layoutParams,
                 displayMode, measured>>

LayoutNext ==
  \/ \E v \in Videos : onNewLayout(v)
  \/ \E c \in Containers, p \in BOOLEAN : Turn(c, p)
  \/ \E m \in DisplayModes : setDisplayMode(m)
  \/ \E given \in BOOLEAN \X BOOLEAN : onMeasure(given)

LayoutSpec == LayoutInit /\ [][LayoutNext]_layoutVars

----------------------------------------------------------------------------
(* Properties *)

\* The variables have their types; a view that was laid out has at least one
\* pixel in each direction, whatever the rounding.
LayoutTypeOK ==
  /\ container \in Containers /\ portrait \in BOOLEAN
  /\ currentSize \in SizeModes /\ videoHeight \in Heights
  /\ video \in Videos \cup {NoVideo}
  /\ \/ layoutParams = NoLayout /\ ~fresh
     \/ layoutParams \in [width : Nat \ {0}, height : Nat \ {0}, marginLeft : Int]
  /\ fresh \in BOOLEAN /\ windowSize \in Int \X Int
  /\ displayMode \in DisplayModes /\ measured \in Nat \X Nat
  /\ requested \in BOOLEAN

Uncropped ==
  video.width = video.visibleWidth /\ video.height = video.visibleHeight

Fitted == currentSize \in {"bestFit", "16:9", "4:3"}

InWindow ==
  /\ 0 <= layoutParams.marginLeft
  /\ layoutParams.marginLeft + layoutParams.width <= Window[1] + 1
  /\ layoutParams.height <= Window[2] + 1

InShape ==
  LET ar == Ratio(video, currentSize)
      Visible(w, h) == Over(<<w * video.visibleWidth, video.width>>,
                            <<h * video.visibleHeight, video.height>>)
      w == layoutParams.width * Precision
      h == layoutParams.height * Precision
      slack == Precision + 1
  IN /\ Less(Visible(w - slack, h + 1), ar)
     /\ layoutParams.height > 1 => Less(ar, Visible(w + 1, h - slack))

\* In every mode but FILL the visible part of the view has the aspect ratio of
\* the mode to within one pixel of the view and the error of the arithmetic,
\* also when the video is cropped, its pixels are not square and the box was
\* turned; and in the fitting modes the picture fills the window in one
\* direction and exceeds it by at most one pixel in the other, never to the
\* left, if the window's shape agrees with the orientation (changePlayerLayout).
FitsContainer ==
  fresh =>
    /\ (currentSize # "fill") => InShape
    /\ (Fitted /\ Uncropped /\ ~Contradicts(Window)) =>
         /\ InWindow
         /\ layoutParams.width = Window[1] \/ layoutParams.height = Window[2]

\* n is m, or more by at most two.
Covers(n, m) == n - m \in 0..2

\* The two editions show the same picture: for a video with square pixels and
\* nothing cropped, the size changePlayerLayout computes, rounded up, is never
\* less than the size ZDisplayMode measures, rounded down, and at most two
\* pixels more, in each of the modes both have: the one pixel between the two
\* ways of rounding, and one for lengths that should have been integers.
EditionsAgree ==
  (/\ fresh /\ Uncropped /\ video.sarNum = video.sarDen
   /\ videoHeight = 0 /\ ~Contradicts(Window)
   /\ ~requested /\ displayMode = currentSize) =>
    /\ Covers(layoutParams.width, measured[1])
    /\ Covers(layoutParams.height, measured[2])

\* A PlayerTextureView follows its container: once the layout pass is done, the
\* picture lies inside in BEST_FIT and covers it in one direction, however the
\* container and the video changed before (setVideoSize, onMeasure).
MeasuredFits ==
  (/\ ~requested /\ displayMode = "bestFit"
   /\ video.width > 0 /\ video.height > 0) =>
    /\ measured[1] <= container[1] /\ measured[2] <= container[2]
    /\ measured[1] = container[1] \/ measured[2] = container[2]
=============================================================================
