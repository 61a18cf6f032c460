------------------------------ MODULE ImageProbe ------------------------------
(***************************************************************************)
(* The allocation-free probe of an image (crates/osv-media/src/lib.rs):     *)
(* probe and its four scanners, over the segments of a file: PNG chunks,    *)
(* JPEG markers, GIF blocks, WebP chunks.                                   *)
(*                                                                         *)
(* A segment that is cut off, or whose checksum, length or reserved bits    *)
(* are wrong, is Broken.  A file is read one segment at a time.  What the   *)
(* flags of a WebP header say of a color profile is left out.               *)
(***************************************************************************)
EXTENDS Naturals, Sequences, FiniteSets

CONSTANTS
  Canvases,        \* <<width, height>> that a file may state
  FrameCounts,     \* frame counts and sequence numbers that a file may state
  MaxSegments,     \* bound: segments of a file
  MaxDimension, MaxPixels, MaxPixelFrames, MaxAnimationFrames

ASSUME ProbeAssumption ==
  /\ Canvases \subseteq Nat \X Nat /\ FrameCounts \subseteq Nat /\ MaxSegments \in Nat
  /\ {MaxDimension, MaxPixels, MaxPixelFrames, MaxAnimationFrames} \subseteq Nat

VARIABLES
  image,    \* the file: its format, canvas and animation bit, and the segments read so far
  scan,     \* what the scanner has noted
  verdict   \* outcome of probe

probeVars == <<image, scan, verdict>>

Scanning == [state |-> "scanning"]
Refused == [state |-> "refused"]
NoCanvas == <<0, 0>>

Is(kind) == [kind |-> kind]
Broken == Is("broken")
Contents(format) == {Broken} \cup
  CASE format = "Png" ->
         {Is(k) : k \in {"IHDR", "IDAT", "sRGB", "tEXt"}}
           \cup [kind : {"acTL"}, frames : FrameCounts]
           \cup [kind : {"fcTL"}, sequence : FrameCounts, inside : BOOLEAN]
           \cup [kind : {"fdAT"}, sequence : FrameCounts]
    [] format = "Jpeg" ->
         {Is(k) : k \in {"TEM", "SOI", "ICC", "SOS", "APP"}}
           \cup [kind : {"SOF"}, canvas : Canvases]
           \cup [kind : {"Exif"}, orientation : {"Normal", "Rotate90"}]
    [] format = "Gif" -> {Is("extension")} \cup [kind : {"image"}, inside : BOOLEAN]
    [] format = "Webp" -> {Is("VP8")} \cup [kind : {"ANMF"}, inside : BOOLEAN]

Formats == {"Png", "Jpeg", "Gif", "Webp"}

\* The segment that ends a file; bytes may follow it.
Terminators == [Png |-> "IEND", Jpeg |-> "EOI", Gif |-> "trailer"]

Unread == [state |-> "unread"]
NoImage == [segments |-> <<>>]
NoScan == [controls |-> 0, sequence |-> 0]

ProbeInit == image = NoImage /\ scan = NoScan /\ verdict = Unread

\* The signature, and a header that states the canvas; that of a JPEG comes later.
StartProbe(format, canvas, animated) ==
  /\ verdict = Unread
  /\ animated => format = "Webp"
  /\ image' = [format |-> format, canvas |-> canvas, animated |-> animated, segments |-> <<>>]
  /\ scan' = [frames |-> IF format = "Png" THEN 1 ELSE 0, control |-> FALSE,
              controls |-> 0, sequence |-> 0, data |-> FALSE, profile |-> FALSE,
              canvas |-> IF format = "Jpeg" THEN NoCanvas ELSE canvas,
              geometry |-> format # "Jpeg", orientation |-> "Normal"]
  /\ verdict' = Scanning

----------------------------------------------------------------------------
\* Mutant: the sequence numbers of an animation are not compared.
AnyNumber(n) == TRUE

NextNumber(n) == n = scan.sequence

\* What each scanner lets pass, where the segment stands.
PngPasses(s) ==
  /\ s.kind # "IHDR"
  /\ s.kind = "acTL" => ~scan.control /\ ~scan.data
  /\ s.kind = "fcTL" => scan.control /\ NextNumber(s.sequence) /\ s.inside
  /\ s.kind = "fdAT" => scan.control /\ scan.controls > 0 /\ NextNumber(s.sequence)
GifPasses(s) == s.kind = "image" => scan.frames < MaxAnimationFrames /\ s.inside
JpegPasses(s) ==
  /\ s.kind # "SOI"
  /\ s.kind = "SOS" => scan.geometry
WebpPasses(s) == s.kind = "ANMF" => s.inside

Passes(s) ==
  /\ s # Broken
  /\ CASE image.format = "Png" -> PngPasses(s)
       [] image.format = "Gif" -> GifPasses(s)
       [] image.format = "Jpeg" -> JpegPasses(s)
       [] image.format = "Webp" -> WebpPasses(s)

\* What a scanner notes of a segment that passed.
Noted(s) ==
  CASE s.kind = "acTL" -> [scan EXCEPT !.control = TRUE, !.frames = s.frames]
    [] s.kind = "fcTL" -> [scan EXCEPT !.sequence = @ + 1, !.controls = @ + 1]
    [] s.kind = "fdAT" -> [scan EXCEPT !.sequence = @ + 1]
    [] s.kind \in {"IDAT", "SOS"} -> [scan EXCEPT !.data = TRUE]
    [] s.kind \in {"sRGB", "ICC"} -> [scan EXCEPT !.profile = TRUE]
    [] s.kind = "SOF" -> [scan EXCEPT !.canvas = s.canvas, !.geometry = TRUE]
    [] s.kind = "Exif" -> [scan EXCEPT !.orientation = s.orientation]
    [] s.kind \in {"image", "ANMF"} -> [scan EXCEPT !.frames = @ + 1]
    [] OTHER -> scan

ScanSegment(s) ==
  /\ verdict = Scanning /\ Len(image.segments) < MaxSegments
  /\ image' = [image EXCEPT !.segments = Append(@, s)]
  /\ IF Passes(s) THEN scan' = Noted(s) /\ UNCHANGED verdict
                  ELSE verdict' = Refused /\ UNCHANGED scan

\* What each scanner requires at the end, and the limits that probe applies to all.

Ended(terminated) ==
  CASE image.format = "Png" -> terminated /\ scan.data
         /\ scan.controls = (IF scan.control THEN scan.frames ELSE 0)
    [] image.format = "Jpeg" -> terminated /\ scan.data
    [] image.format = "Gif" -> terminated /\ scan.frames > 0
    [] image.format = "Webp" -> image.animated = (scan.frames > 0)
Frames == IF image.format = "Jpeg" \/ (image.format = "Webp" /\ ~image.animated) THEN 1
          ELSE scan.frames
Animated ==
  \/ scan.control
  \/ image.format = "Gif" /\ scan.frames > 1
  \/ image.format = "Webp" /\ image.animated

WithinLimits(canvas, frames) ==
  LET pixels == canvas[1] * canvas[2] IN
    /\ canvas[1] \in 1..MaxDimension /\ canvas[2] \in 1..MaxDimension
    /\ pixels <= MaxPixels /\ pixels * frames <= MaxPixelFrames
    /\ frames \in 1..MaxAnimationFrames

Probed ==
  [state |-> "probed", canvas |-> scan.canvas, frames |-> Frames, animated |-> Animated,
   orientation |-> scan.orientation, profile |-> scan.profile]

\* The file ends, with its terminator or without; nothing may follow the terminator.
EndFile(terminated, clean) ==
  /\ verdict = Scanning
  /\ terminated => image.format \in DOMAIN Terminators
  /\ verdict' = IF clean /\ Ended(terminated) /\ WithinLimits(scan.canvas, Frames)
                THEN Probed ELSE Refused
  /\ image' = [image EXCEPT !.segments =
       Append(@, IF terminated THEN [kind |-> Terminators[image.format], clean |-> clean]
                 ELSE [kind |-> "end", clean |-> clean])]
  /\ UNCHANGED scan

ProbeNext ==
  \/ \E format \in Formats, canvas \in Canvases, animated \in BOOLEAN :
       StartProbe(format, canvas, animated)
  \/ verdict = Scanning /\ \E s \in Contents(image.format) : ScanSegment(s)
  \/ \E terminated, clean \in BOOLEAN : EndFile(terminated, clean)

----------------------------------------------------------------------------
\* The formats as their definitions have them, over the whole sequence of segments.

Places(kinds) == {i \in DOMAIN image.segments : image.segments[i].kind \in kinds}
Before(i, kinds) == \E k \in Places(kinds) : k < i
Numbered == {"fcTL", "fdAT"}

\* True of every beginning of an acceptable file.
Orderly ==
  /\ Places({"broken", "IHDR", "SOI"}) = {}
  /\ \A i \in Places({"fcTL", "image", "ANMF"}) : image.segments[i].inside
  /\ \A i \in Places({"acTL"}) : ~Before(i, {"acTL", "IDAT"})
  /\ \A i \in Places({"fcTL"}) : Before(i, {"acTL"})
  /\ \A i \in Places({"fdAT"}) : Before(i, {"fcTL"})
  /\ \A i \in Places(Numbered) :
       image.segments[i].sequence = Cardinality({k \in Places(Numbered) : k < i})
  /\ \A i \in Places({"SOS"}) : Before(i, {"SOF"})
  /\ Cardinality(Places({"image"})) <= MaxAnimationFrames

\* What an acceptable file states; of two segments that state the same, the last one.
LastPlace(kind) == CHOOSE i \in Places({kind}) : \A k \in Places({kind}) : k <= i
LastOf(kind, otherwise) ==
  IF Places({kind}) = {} THEN otherwise ELSE image.segments[LastPlace(kind)]
Stated ==
  LET images == Cardinality(Places({"image", "ANMF"}))
      control == Places({"acTL"}) # {}
  IN [state |-> "probed",
      canvas |-> LastOf("SOF", image).canvas,
      frames |-> CASE image.format = "Gif" -> images
                   [] image.format = "Webp" /\ image.animated -> images
                   [] control -> LastOf("acTL", image).frames
                   [] OTHER -> 1,
      animated |-> control \/ image.animated \/ (image.format = "Gif" /\ images > 1),
      orientation |-> LastOf("Exif", [orientation |-> "Normal"]).orientation,
      profile |-> Places({"sRGB", "ICC"}) # {}]

Complete ==
  LET end == image.segments[Len(image.segments)]
      needed == [Png |-> {"IDAT"}, Jpeg |-> {"SOS"}, Gif |-> {"image"}]
  IN /\ end.clean
     /\ image.format # "Webp" =>
          end.kind = Terminators[image.format] /\ Places(needed[image.format]) # {}
     /\ image.format = "Webp" => image.animated = (Places({"ANMF"}) # {})
     /\ image.format = "Png" =>
          Cardinality(Places({"fcTL"})) = (IF Stated.animated THEN Stated.frames ELSE 0)
     /\ WithinLimits(Stated.canvas, Stated.frames)

AtEnd == image.segments # <<>> /\ "clean" \in DOMAIN image.segments[Len(image.segments)]

ProbeTypeOK ==
  /\ Len(image.segments) \in 0..MaxSegments + 1
  /\ verdict.state \in {"unread", "scanning", "refused", "probed"}
  /\ scan.controls \in 0..MaxSegments /\ scan.sequence \in scan.controls..MaxSegments

\* The flags and counters of the four scanners accept exactly the files whose segments are
\* in order, complete and within the limits, and report exactly what those state: no
\* order of chunks slips through, and none that is right is refused.
ProbeIsExact ==
  /\ verdict = Scanning => Orderly
  /\ verdict = Refused => ~Orderly \/ (AtEnd /\ ~Complete)
  /\ verdict.state = "probed" => AtEnd /\ Orderly /\ Complete /\ verdict = Stated

----------------------------------------------------------------------------
\* The inductive invariant: the flags and counters of a scanner say of the segments that
\* it has passed what the definition of the format asks of them.
Noticed ==
  /\ image \in [format : Formats, canvas : Canvases, animated : BOOLEAN,
                segments : Seq(Contents(image.format))]
  /\ image.animated => image.format = "Webp"
  /\ scan \in [frames : Nat, control : BOOLEAN, controls : Nat, sequence : Nat, data : BOOLEAN,
               profile : BOOLEAN, canvas : Canvases \cup {NoCanvas}, geometry : BOOLEAN,
               orientation : {"Normal", "Rotate90"}]
  /\ scan.control <=> Places({"acTL"}) # {}
  /\ scan.controls = Cardinality(Places({"fcTL"}))
  /\ scan.sequence = Cardinality(Places(Numbered))
  /\ scan.data <=> Places({"IDAT", "SOS"}) # {}
  /\ scan.profile <=> Places({"sRGB", "ICC"}) # {}
  /\ scan.geometry <=> image.format # "Jpeg" \/ Places({"SOF"}) # {}
  /\ scan.geometry => scan.canvas = LastOf("SOF", image).canvas
  /\ scan.orientation = LastOf("Exif", [orientation |-> "Normal"]).orientation
  /\ scan.frames = IF image.format \in {"Gif", "Webp"} THEN Cardinality(Places({"image", "ANMF"}))
                   ELSE LastOf("acTL", [frames |-> IF image.format = "Png" THEN 1 ELSE 0]).frames

ProbeInvariant ==
  /\ ProbeTypeOK /\ ProbeIsExact
  /\ verdict = Scanning => Noticed /\ Len(image.segments) <= MaxSegments
=============================================================================
