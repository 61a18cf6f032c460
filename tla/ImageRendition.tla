---------------------------- MODULE ImageRendition ----------------------------
(***************************************************************************)
(* From a probed image to a rendition: the request, what the helper makes   *)
(* of it (crates/osv-media/src/lib.rs), and what the broker accepts of an    *)
(* answer that it does not trust (crates/osv-import/src/lib.rs).            *)
(*                                                                         *)
(* Pixels are counted, not drawn; the length of a PNG is any of PngLengths. *)
(* A helper that is not honest sends whatever it likes: a header, spans of   *)
(* any length, a PNG of any picture.  MaxLies bounds how far it may go.      *)
(***************************************************************************)
EXTENDS Integers, Sequences

CONSTANTS
  Sides,           \* widths and heights of images
  AnimationDelays, \* delays of frames, in milliseconds
  PngLengths,
  ThumbnailEdge, MaxViewerEdge, MaxResult,   \* MaxResult: bytes of a result, by purpose
  MinDelay, MaxDelay,
  Lies,            \* what a number in an answer may be forged to
  MaxLies          \* how often an answer may be forged

Purposes == {"Thumbnail", "Viewer"}

ASSUME RenditionAssumption ==
  /\ Sides \subseteq Nat \ {0} /\ PngLengths \subseteq Nat \ {0} /\ AnimationDelays \subseteq Nat
  /\ ThumbnailEdge \in Nat \ {0} /\ MaxViewerEdge \in Nat
  /\ ThumbnailEdge <= MaxViewerEdge
  /\ MaxResult \in [Purposes -> Nat] /\ MinDelay \in Nat /\ MaxDelay \in Nat
  /\ Lies \subseteq Nat /\ MaxLies \in Nat

VARIABLES
  asked,      \* the image and what is asked of it
  made,       \* the result of a helper that is honest, or that there is none
  delivered,  \* the answer that the broker is given
  judged,     \* whether it is accepted
  lies        \* how often it was forged

renditionVars == <<asked, made, delivered, judged, lies>>

NotAsked == [asked |-> FALSE]
NoResult == [done |-> FALSE]

Turned == {"Rotate90", "Rotate270", "MirrorHorizontalRotate90", "MirrorHorizontalRotate270"}
\* A still image may be turned; an animated one has a delay for each frame.
Animations == {<<d>> : d \in AnimationDelays} \cup (AnimationDelays \X AnimationDelays)
Sources ==
  [width : Sides, height : Sides, orientation : {"Normal", "Rotate90"}, delays : {<<>>}]
  \cup [width : Sides, height : Sides, orientation : {"Normal"}, delays : Animations]
FramesOf(s) == IF s.delays = <<>> THEN 1 ELSE Len(s.delays)

\* encode_worker_request
EdgeAllowed(purpose, edge) ==
  IF purpose = "Thumbnail" THEN edge = ThumbnailEdge ELSE edge \in ThumbnailEdge..MaxViewerEdge

\* rendition_dimensions: the longer side is cut to the edge, the shorter one rounded to
\* the nearest pixel.

\* Mutant: the shorter side is cut off to whole pixels.
Truncated(short, long, edge) ==
  LET cut == (short * edge) \div long IN IF cut = 0 THEN 1 ELSE cut

Scaled(short, long, edge) ==
  LET rounded == (short * edge + long \div 2) \div long IN IF rounded = 0 THEN 1 ELSE rounded

RenditionDimensions(width, height, edge) ==
  IF width <= edge /\ height <= edge THEN <<width, height>>
  ELSE IF width >= height THEN <<edge, Scaled(height, width, edge)>>
  ELSE <<Scaled(width, height, edge), edge>>

Oriented(s) == IF s.orientation \in Turned THEN <<s.height, s.width>> ELSE <<s.width, s.height>>

----------------------------------------------------------------------------
RenditionInit ==
  asked = NotAsked /\ made = NoResult /\ delivered = NoResult /\ judged = NoResult /\ lies = 0

Ask(source, purpose, edge) ==
  /\ asked = NotAsked /\ EdgeAllowed(purpose, edge)
  /\ asked' = [asked |-> TRUE, source |-> source, purpose |-> purpose, edge |-> edge]
  /\ UNCHANGED <<made, delivered, judged, lies>>

\* image_worker_result_for: the still picture is turned, scaled and encoded; only a viewer
\* gets the frames of an animation, whose pixels are scaled like the still picture's.  The
\* last three fields are not in the header: the second frame's delay, the picture that a
\* probe of the PNG finds, and the length of all spans.
FrameDelay(d) == IF d < MinDelay THEN MinDelay ELSE d
ResultOf(source, purpose, edge, png) ==
  LET turned == Oriented(source)
      size == RenditionDimensions(turned[1], turned[2], edge)
      rgba == 4 * size[1] * size[2]
      played == IF purpose = "Viewer" THEN source.delays ELSE <<>>
      more == IF Len(played) > 1 THEN Len(played) - 1 ELSE 0
  IN [done |-> TRUE,
      width |-> source.width, height |-> source.height, frames |-> FramesOf(source),
      orientation |-> source.orientation, animated |-> source.delays # <<>>,
      purpose |-> purpose, edge |-> edge, outWidth |-> size[1], outHeight |-> size[2],
      png |-> png, rgba |-> rgba, outFrames |-> more + 1,
      firstDelay |-> IF played = <<>> THEN 0 ELSE FrameDelay(played[1]),
      additional |-> more * (4 + rgba),
      nextDelay |-> IF more = 0 THEN 0 ELSE FrameDelay(played[2]),
      picture |-> size, total |-> png + rgba + more * (4 + rgba)]

Produces(source, purpose, edge, png) ==
  /\ purpose = "Viewer" => \A i \in DOMAIN source.delays : FrameDelay(source.delays[i]) <= MaxDelay
  /\ ResultOf(source, purpose, edge, png).total <= MaxResult[purpose]

Produce(png) ==
  /\ asked # NotAsked /\ delivered = NoResult
  /\ Produces(asked.source, asked.purpose, asked.edge, png)
  /\ made' = ResultOf(asked.source, asked.purpose, asked.edge, png)
  /\ delivered' = made'
  /\ UNCHANGED <<asked, judged, lies>>

\* A helper that is not honest takes the honest answer, or the one that the limits forbid,
\* and writes another number, purpose or picture into it, with the lengths as they were,
\* with a total that fits them, or with all lengths that the header implies: with lies
\* enough, any answer.
Numeric == {"width", "height", "frames", "edge", "outWidth", "outHeight", "png", "rgba",
            "outFrames", "firstDelay", "nextDelay", "additional", "total"}
Altered(r) ==
  {[r EXCEPT ![f] = value] : f \in Numeric, value \in Lies}
  \cup {[r EXCEPT !.purpose = purpose] : purpose \in Purposes}
  \cup {[r EXCEPT !.orientation = turn] : turn \in {"Normal", "Rotate90"}}
  \cup {[r EXCEPT !.animated = animated] : animated \in BOOLEAN}
  \cup {[r EXCEPT !.picture = <<width, height>>] : width \in Lies, height \in Lies}

Totalled(r) == [r EXCEPT !.total = r.png + r.rgba + r.additional]
Recounted(r) ==
  LET rgba == 4 * r.outWidth * r.outHeight
      more == IF r.outFrames = 0 THEN 0 ELSE r.outFrames - 1
  IN Totalled([r EXCEPT !.rgba = rgba, !.additional = more * (rgba + 4)])

Forged(r) == UNION {{x, Totalled(x), Recounted(x)} : x \in Altered(r)}

Forge(png) ==
  /\ asked # NotAsked /\ judged = NoResult /\ lies < MaxLies
  /\ delivered' \in Forged(IF delivered # NoResult THEN delivered
                           ELSE ResultOf(asked.source, asked.purpose, asked.edge, png))
  /\ lies' = lies + 1
  /\ UNCHANGED <<asked, made, judged>>

----------------------------------------------------------------------------
\* decode_worker_result_header
HeaderDecodes(r) ==
  /\ EdgeAllowed(r.purpose, r.edge)
  /\ r.width > 0 /\ r.height > 0 /\ r.frames > 0
  /\ r.outWidth > 0 /\ r.outHeight > 0 /\ r.png > 0
  /\ r.rgba = 4 * r.outWidth * r.outHeight
  /\ r.outFrames \in 1..r.frames
  /\ r.additional = (r.outFrames - 1) * (r.rgba + 4)
  /\ IF r.purpose = "Viewer" /\ r.animated THEN r.firstDelay \in MinDelay..MaxDelay
                                           ELSE r.firstDelay = 0

\* The broker compares with its own probe and with what it asked for.
SameSource(r) ==
  /\ r.width = asked.source.width /\ r.height = asked.source.height
  /\ r.frames = FramesOf(asked.source) /\ r.orientation = asked.source.orientation
  /\ r.animated = (asked.source.delays # <<>>)

DimensionsFit(r) ==
  LET turned == Oriented([width |-> r.width, height |-> r.height, orientation |-> r.orientation])
  IN <<r.outWidth, r.outHeight>> = RenditionDimensions(turned[1], turned[2], asked.edge)

\* Mutant: frames may be left out.
FewerFrames(r) == r.outFrames <= IF r.purpose = "Thumbnail" THEN 1 ELSE r.frames

FrameCardinality(r) == r.outFrames = IF r.purpose = "Thumbnail" THEN 1 ELSE r.frames

\* The supervisor takes no more than it is told to; the spans have to fill the result to
\* its last byte, and the PNG in it, probed again, has the dimensions that were stated.
Accepts(r) ==
  /\ HeaderDecodes(r) /\ SameSource(r)
  /\ r.purpose = asked.purpose /\ r.edge = asked.edge
  /\ DimensionsFit(r) /\ FrameCardinality(r)
  /\ r.outFrames > 1 => r.nextDelay \in MinDelay..MaxDelay
  /\ r.total = r.png + r.rgba + r.additional /\ r.total <= MaxResult[asked.purpose]
  /\ r.picture = <<r.outWidth, r.outHeight>>

Judge ==
  /\ delivered # NoResult /\ judged = NoResult
  /\ judged' = [done |-> TRUE, accepted |-> Accepts(delivered)]
  /\ UNCHANGED <<asked, made, delivered, lies>>

RenditionNext ==
  \/ asked = NotAsked /\ \E s \in Sources, purpose \in Purposes, edge \in 1..MaxViewerEdge + 1 :
       Ask(s, purpose, edge)
  \/ \E png \in PngLengths : Produce(png) \/ Forge(png)
  \/ Judge

----------------------------------------------------------------------------
AnswerFields == {"done", "orientation", "animated", "purpose", "picture"} \cup Numeric
IsAnswer(r) ==
  /\ DOMAIN r = AnswerFields /\ r.done = TRUE
  /\ \A f \in Numeric : r[f] \in Nat

RenditionTypeOK ==
  /\ judged # NoResult => delivered # NoResult
  /\ delivered # NoResult => asked # NotAsked /\ IsAnswer(delivered)
  /\ lies \in 0..MaxLies

\* An honest answer is always taken.  Whatever answer is taken, in all that it says of the
\* image, the frames, the spans and the picture it is what an honest helper would have
\* said of this image and request with a PNG of that length, within the limit of the
\* request: a helper that lies can choose the pixels, the length of the PNG and, within
\* bounds, the delays of an animation that was asked for.
AcceptedIsHonest ==
  judged # NoResult =>
    /\ delivered = made => judged.accepted
    /\ judged.accepted =>
         LET honest == ResultOf(asked.source, asked.purpose, asked.edge, delivered.png)
         IN  /\ \A f \in AnswerFields \ {"firstDelay", "nextDelay"} : delivered[f] = honest[f]
             /\ delivered.total <= MaxResult[asked.purpose]
             /\ IF asked.purpose = "Viewer" /\ asked.source.delays # <<>>
                THEN delivered.firstDelay \in MinDelay..MaxDelay
                ELSE delivered.firstDelay = 0
             /\ delivered.outFrames > 1 => delivered.nextDelay \in MinDelay..MaxDelay

\* A rendition fits the edge that was asked for, is never enlarged, and no side is further
\* from the exact ratio than half a pixel, unless it would vanish.
RenditionFits ==
  made # NoResult =>
    LET source == Oriented(asked.source)
        long == IF source[1] >= source[2] THEN 1 ELSE 2
        short == 3 - long
        size == <<made.outWidth, made.outHeight>>
        error == source[short] * size[long] - size[short] * source[long]
    IN /\ size[1] <= asked.edge /\ size[2] <= asked.edge
       /\ size[1] \in 1..source[1] /\ size[2] \in 1..source[2]
       /\ source[long] <= asked.edge => size = source
       /\ source[long] > asked.edge => size[long] = asked.edge
       /\ 2 * error <= source[long]
       /\ size[short] > 1 => 0 - 2 * error <= source[long]

----------------------------------------------------------------------------
\* The inductive invariant: what is asked for is in range, the honest result is made of
\* it, and what is delivered has the fields of an answer and is judged as it is.

Asked(a) ==
  /\ a.source \in Sources /\ a.purpose \in Purposes
  /\ a.edge \in Nat \ {0} /\ EdgeAllowed(a.purpose, a.edge)

RenditionInvariant ==
  /\ asked # NotAsked => Asked(asked)
  /\ made # NoResult =>
       /\ asked # NotAsked
       /\ \E png \in PngLengths :
            /\ Produces(asked.source, asked.purpose, asked.edge, png)
            /\ made = ResultOf(asked.source, asked.purpose, asked.edge, png)
  /\ delivered # NoResult => asked # NotAsked /\ IsAnswer(delivered)
  /\ judged # NoResult => delivered # NoResult /\ judged.accepted = Accepts(delivered)
  /\ lies \in 0..MaxLies
=============================================================================
