----------------------------- MODULE ImageProofs -----------------------------
(***************************************************************************)
(* Proofs about the parts that probe images and make renditions of them,   *)
(* for every set of canvases, sides and counts.                            *)
(***************************************************************************)
EXTENDS PartsProofs, WellFoundedInduction

\* Induction, for sets of numbers.
LEMMA NatSets ==
  ASSUME NEW S \in SUBSET Nat, 0 \in S, \A n \in S : n + 1 \in S
  PROVE  S = Nat
<1> DEFINE Less == OpToRel(<, Nat)
<1>1. SUFFICES ASSUME Nat \ S # {} PROVE FALSE
  OBVIOUS
<1>2. PICK x \in Nat \ S : \A y \in Nat \ S : <<y, x>> \notin Less
  BY <1>1, NatLessThanWellFounded, WFMin
<1>3. x \in Nat /\ x # 0
  OBVIOUS
<1>4. x - 1 \in Nat /\ (x - 1) + 1 = x /\ x - 1 < x
  BY <1>3
<1>5. <<x - 1, x>> \in Less
  BY <1>2, <1>4 DEF OpToRel
<1> QED
  BY <1>2, <1>4, <1>5

----------------------------------------------------------------------------
\* ImageProbe: the scanners accept what the formats define.

\* Places in a sequence have a last one.
LEMMA PlacesEnd ==
  ASSUME NEW n \in Nat, NEW P \in SUBSET (1..n), P # {}
  PROVE  \E i \in P : \A k \in P : k <= i
<1> DEFINE S == {m \in Nat : \A Q \in SUBSET (1..m) : Q # {} => \E i \in Q : \A k \in Q : k <= i}
<1>1. 0 \in S
  <2>1. 1..0 = {}
    OBVIOUS
  <2> QED
    BY <2>1
<1>2. ASSUME NEW m \in S PROVE m + 1 \in S
  <2>1. SUFFICES ASSUME NEW Q \in SUBSET (1..m + 1), Q # {}
                 PROVE  \E i \in Q : \A k \in Q : k <= i
    OBVIOUS
  <2>2. CASE m + 1 \in Q
    BY <2>2
  <2>3. CASE m + 1 \notin Q
    <3>1. Q \in SUBSET (1..m)
      BY <2>3
    <3> QED
      BY <2>1, <3>1
  <2> QED
    BY <2>2, <2>3
<1>3. S = Nat
  <2> HIDE DEF S
  <2>1. S \in SUBSET Nat
    BY DEF S
  <2> QED
    BY <1>1, <1>2, <2>1, NatSets
<1> QED
  BY <1>3

\* The places of a kind can be counted.
LEMMA CountedPlaces ==
  ASSUME NEW V, image.segments \in Seq(V), NEW K
  PROVE  /\ Places(K) = {i \in 1..Len(image.segments) : image.segments[i].kind \in K}
         /\ IsFiniteSet(Places(K)) /\ Cardinality(Places(K)) \in Nat
         /\ Cardinality(Places(K)) = 0 <=> Places(K) = {}
<1>1. Places(K) = {i \in 1..Len(image.segments) : image.segments[i].kind \in K}
  BY DEF Places
<1>2. IsFiniteSet(1..Len(image.segments))
  BY FS_Interval
<1>3. IsFiniteSet(Places(K)) /\ Cardinality(Places(K)) \in Nat
  BY <1>1, <1>2, FS_Subset, FS_CardinalityType
<1> QED
  BY <1>1, <1>3, FS_EmptySet

\* The places of a kind, in a file and in one that is a segment longer.
LEMMA PlacesGrow ==
  ASSUME NEW V, image.segments \in Seq(V), NEW s,
         image'.segments = Append(image.segments, s), NEW n, n = Len(image.segments), NEW K
  PROVE  /\ n \in Nat /\ Places(K) \subseteq 1..n /\ IsFiniteSet(Places(K))
         /\ Cardinality(Places(K)) \in Nat
         /\ Cardinality(Places(K)) = 0 <=> Places(K) = {}
         /\ Places(K)' = Places(K) \cup (IF s.kind \in K THEN {n + 1} ELSE {})
         /\ Cardinality(Places(K)') = Cardinality(Places(K)) + (IF s.kind \in K THEN 1 ELSE 0)
         /\ \A i \in 1..n : image'.segments[i] = image.segments[i]
         /\ image'.segments[n + 1] = s
         /\ \A i \in 1..n : Before(i, K)' <=> Before(i, K)
         /\ Before(n + 1, K)' <=> Places(K) # {}
<1>1. n \in Nat
  OBVIOUS
<1>2. /\ DOMAIN image.segments = 1..n /\ DOMAIN image'.segments = 1..n + 1
      /\ \A i \in 1..n : image'.segments[i] = image.segments[i]
      /\ image'.segments[n + 1] = s
  BY <1>1
<1>3. Places(K) = {i \in 1..n : image.segments[i].kind \in K}
  BY CountedPlaces
<1>4. Places(K)' = {i \in 1..n + 1 : image'.segments[i].kind \in K}
  BY <1>2 DEF Places
<1>5. Places(K)' = Places(K) \cup (IF s.kind \in K THEN {n + 1} ELSE {})
  <2>1. \A i \in 1..n + 1 : i \in 1..n \/ i = n + 1
    OBVIOUS
  <2>2. \A i \in 1..n : i \in 1..n + 1 /\ i # n + 1
    OBVIOUS
  <2>3. n + 1 \in 1..n + 1 /\ n + 1 \notin 1..n
    OBVIOUS
  <2> QED
    BY <1>2, <1>3, <1>4, <2>1, <2>2, <2>3
<1>6. /\ IsFiniteSet(Places(K)) /\ Cardinality(Places(K)) \in Nat
      /\ Cardinality(Places(K)) = 0 <=> Places(K) = {}
  BY CountedPlaces
<1>7. n + 1 \notin Places(K)
  BY <1>3
<1>8. Cardinality(Places(K)') = Cardinality(Places(K)) + (IF s.kind \in K THEN 1 ELSE 0)
  <2>1. Cardinality(Places(K) \cup {n + 1}) = Cardinality(Places(K)) + 1
    BY <1>6, <1>7, FS_AddElement
  <2>2. Places(K) \cup {} = Places(K)
    OBVIOUS
  <2>3. CASE s.kind \in K
    BY <1>5, <2>1, <2>3
  <2>4. CASE s.kind \notin K
    <3>1. Places(K)' = Places(K)
      BY <1>5, <2>2, <2>4
    <3> QED
      BY <1>6, <2>4, <3>1
  <2> QED
    BY <2>3, <2>4
<1>9. \A i \in 1..n : Before(i, K)' <=> Before(i, K)
  BY <1>5 DEF Before
<1>10. Before(n + 1, K)' <=> Places(K) # {}
  BY <1>3, <1>5 DEF Before
<1> QED
  BY <1>1, <1>2, <1>3, <1>5, <1>6, <1>8, <1>9, <1>10

\* The last segment of a kind, in a file that is a segment longer.
LEMMA LastGrows ==
  ASSUME NEW V, image.segments \in Seq(V), NEW s, NEW kind, NEW otherwise,
         image'.segments = Append(image.segments, s)
  PROVE  LastOf(kind, otherwise)' = IF s.kind = kind THEN s ELSE LastOf(kind, otherwise)
<1> DEFINE P == Places({kind})
           Q == Places({kind})'
           n == Len(image.segments)
<1>1. /\ n \in Nat /\ P \subseteq 1..n
      /\ Q = P \cup (IF s.kind \in {kind} THEN {n + 1} ELSE {})
      /\ \A i \in 1..n : image'.segments[i] = image.segments[i]
      /\ image'.segments[n + 1] = s
  <2>1. PICK m : m = n
    OBVIOUS
  <2> QED
    BY <2>1, PlacesGrow
<1>2. CASE s.kind = kind
  <2>1. n + 1 \in Q /\ \A k \in Q : k <= n + 1 /\ k \in Nat
    <3>1. \A k \in P : k <= n + 1 /\ k \in Nat
      <4> HIDE DEF P, n
      <4> QED
        BY <1>1
    <3>2. n + 1 \in Nat /\ n + 1 <= n + 1
      BY <1>1
    <3>3. Q = P \cup {n + 1}
      BY <1>1, <1>2
    <3> HIDE DEF P, Q, n
    <3> QED
      BY <3>1, <3>2, <3>3
  <2>2. (CHOOSE i \in Q : \A k \in Q : k <= i) = n + 1
    <3> HIDE DEF Q, n
    <3>1. \A i \in Q : (\A k \in Q : k <= i) => i = n + 1
      BY <1>1, <2>1
    <3> QED
      BY <2>1, <3>1
  <2> HIDE DEF n
  <2> QED
    BY <1>1, <1>2, <2>1, <2>2 DEF LastOf, LastPlace
<1>3. CASE s.kind # kind
  <2>1. Q = P
    BY <1>1, <1>3
  <2>2. CASE P = {}
    <3>1. LastOf(kind, otherwise)' = otherwise
      BY <2>1, <2>2 DEF LastOf, LastPlace
    <3>2. LastOf(kind, otherwise) = otherwise
      BY <2>2 DEF LastOf, LastPlace
    <3> QED
      BY <1>3, <3>1, <3>2
  <2>3. CASE P # {}
    <3>1. \E i \in P : \A k \in P : k <= i
      <4> HIDE DEF P
      <4> QED
        BY <1>1, <2>3, PlacesEnd
    <3>2. PICK j : j = CHOOSE i \in P : \A k \in P : k <= i
      OBVIOUS
    <3>3. j \in 1..n
      BY <1>1, <3>1, <3>2
    <3>4. (CHOOSE i \in Q : \A k \in Q : k <= i) = j
      BY <2>1, <3>2
    <3>5. LastOf(kind, otherwise) = image.segments[j]
      BY <2>3, <3>2 DEF LastOf, LastPlace
    <3>6. LastOf(kind, otherwise)' = image'.segments[j]
      BY <2>1, <2>3, <3>4 DEF LastOf, LastPlace
    <3> QED
      BY <1>1, <1>3, <3>3, <3>5, <3>6
  <2> QED
    BY <2>2, <2>3
<1> QED
  BY <1>2, <1>3


\* What a segment needs to be in order behind those before it.
Follows(s) ==
  /\ s.kind \notin {"broken", "IHDR", "SOI"}
  /\ s.kind \in {"fcTL", "image", "ANMF"} => s.inside
  /\ s.kind = "acTL" => Places({"acTL"}) = {} /\ Places({"IDAT"}) = {}
  /\ s.kind = "fcTL" => Places({"acTL"}) # {}
  /\ s.kind = "fdAT" => Places({"fcTL"}) # {}
  /\ s.kind \in Numbered => s.sequence = Cardinality(Places(Numbered))
  /\ s.kind = "SOS" => Places({"SOF"}) # {}
  /\ s.kind = "image" => Cardinality(Places({"image"})) < MaxAnimationFrames

\* A file that was in order stays so with a segment that follows, and with no other.
LEMMA OrderlyGrows ==
  ASSUME NEW V, image.segments \in Seq(V), NEW s,
         image'.segments = Append(image.segments, s), Orderly
  PROVE  Orderly' <=> Follows(s)
<1>1. PICK n \in Nat : n = Len(image.segments)
  OBVIOUS
<1>2. \A K : /\ Places(K) \subseteq 1..n
             /\ Places(K)' = Places(K) \cup (IF s.kind \in K THEN {n + 1} ELSE {})
  BY <1>1, PlacesGrow
<1>3. ASSUME NEW K
      PROVE  /\ Cardinality(Places(K)) \in Nat
             /\ Cardinality(Places(K)') = Cardinality(Places(K)) + (IF s.kind \in K THEN 1 ELSE 0)
  BY <1>1, PlacesGrow
<1>4. ASSUME NEW K, NEW i \in 1..n PROVE Before(i, K)' <=> Before(i, K)
  BY <1>1, <1>4, PlacesGrow
<1>5. ASSUME NEW K PROVE Before(n + 1, K)' <=> Places(K) # {}
  BY <1>1, <1>5, PlacesGrow
<1>6. /\ \A i \in 1..n : image'.segments[i] = image.segments[i] /\ i # n + 1
      /\ image'.segments[n + 1] = s
  BY <1>1, PlacesGrow
<1>7. (Places({"broken", "IHDR", "SOI"}) = {})' <=> s.kind \notin {"broken", "IHDR", "SOI"}
  BY <1>2 DEF Orderly
<1>8. (\A i \in Places({"fcTL", "image", "ANMF"}) : image.segments[i].inside)'
        <=> (s.kind \in {"fcTL", "image", "ANMF"} => s.inside)
  BY <1>2, <1>6 DEF Orderly
<1>9. (\A i \in Places({"acTL"}) : ~Before(i, {"acTL", "IDAT"}))'
        <=> (s.kind = "acTL" => Places({"acTL", "IDAT"}) = {})
  BY <1>2, <1>4, <1>5 DEF Orderly
<1>10. (\A i \in Places({"fcTL"}) : Before(i, {"acTL"}))'
        <=> (s.kind = "fcTL" => Places({"acTL"}) # {})
  BY <1>2, <1>4, <1>5 DEF Orderly
<1>11. (\A i \in Places({"fdAT"}) : Before(i, {"fcTL"}))'
        <=> (s.kind = "fdAT" => Places({"fcTL"}) # {})
  BY <1>2, <1>4, <1>5 DEF Orderly
<1>12. (\A i \in Places({"SOS"}) : Before(i, {"SOF"}))'
        <=> (s.kind = "SOS" => Places({"SOF"}) # {})
  BY <1>2, <1>4, <1>5 DEF Orderly
<1>13. (\A i \in Places(Numbered) :
          image.segments[i].sequence = Cardinality({k \in Places(Numbered) : k < i}))'
        <=> (s.kind \in Numbered => s.sequence = Cardinality(Places(Numbered)))
  <2>1. ASSUME NEW i \in 1..n
        PROVE  {k \in Places(Numbered)' : k < i} = {k \in Places(Numbered) : k < i}
    BY <1>2
  <2>2. {k \in Places(Numbered)' : k < n + 1} = Places(Numbered)
    BY <1>2
  <2>3. \A i \in Places(Numbered) :
          image'.segments[i].sequence = Cardinality({k \in Places(Numbered)' : k < i})
    BY <1>2, <1>6, <2>1 DEF Orderly
  <2> QED
    BY <1>2, <1>6, <2>2, <2>3
<1>14. (Cardinality(Places({"image"})) <= MaxAnimationFrames)'
        <=> (s.kind = "image" => Cardinality(Places({"image"})) < MaxAnimationFrames)
  <2>1. /\ Cardinality(Places({"image"})) \in Nat
        /\ Cardinality(Places({"image"})') =
             Cardinality(Places({"image"})) + (IF s.kind \in {"image"} THEN 1 ELSE 0)
    BY <1>3
  <2>2. Cardinality(Places({"image"})) <= MaxAnimationFrames /\ MaxAnimationFrames \in Nat
    BY ProbeAssumption DEF Orderly
  <2> QED
    BY <2>1, <2>2
<1>15. Places({"acTL", "IDAT"}) = {} <=> Places({"acTL"}) = {} /\ Places({"IDAT"}) = {}
  BY DEF Places
<1> QED
  BY <1>7, <1>8, <1>9, <1>10, <1>11, <1>12, <1>13, <1>14, <1>15 DEF Orderly, Follows


\* The kinds of segments that a file of a format may have.
KindsOf(format) == {"broken"} \cup
  CASE format = "Png" -> {"IHDR", "IDAT", "sRGB", "tEXt", "acTL"} \cup Numbered
    [] format = "Jpeg" -> {"TEM", "SOI", "ICC", "SOS", "APP", "SOF", "Exif"}
    [] format = "Gif" -> {"extension", "image"}
    [] format = "Webp" -> {"VP8", "ANMF"}

\* A segment is of a kind that its format knows, or broken.
LEMMA KindsIn ==
  ASSUME NEW format \in Formats, NEW s \in Contents(format)
  PROVE  s.kind \in KindsOf(format) /\ (s = Broken <=> s.kind = "broken")
<1>1. Broken.kind = "broken"
  BY DEF Broken, Is
<1>2. CASE format = "Png"
  <2>1. Contents(format) = {Broken} \cup {Is(k) : k \in {"IHDR", "IDAT", "sRGB", "tEXt"}}
           \cup [kind : {"acTL"}, frames : FrameCounts]
           \cup [kind : {"fcTL"}, sequence : FrameCounts, inside : BOOLEAN]
           \cup [kind : {"fdAT"}, sequence : FrameCounts]
    BY <1>2 DEF Contents
  <2>2. KindsOf(format) =
          {"broken"} \cup {"IHDR", "IDAT", "sRGB", "tEXt", "acTL"} \cup {"fcTL", "fdAT"}
    BY <1>2 DEF KindsOf, Numbered
  <2>3. s = Broken \/ s.kind \in {"IHDR", "IDAT", "sRGB", "tEXt", "acTL", "fcTL", "fdAT"}
    BY <2>1 DEF Is
  <2> QED
    BY <1>1, <2>2, <2>3
<1>3. CASE format = "Jpeg"
  <2>1. Contents(format) = {Broken} \cup {Is(k) : k \in {"TEM", "SOI", "ICC", "SOS", "APP"}}
           \cup [kind : {"SOF"}, canvas : Canvases]
           \cup [kind : {"Exif"}, orientation : {"Normal", "Rotate90"}]
    BY <1>3 DEF Contents
  <2>2. KindsOf(format) = {"broken"} \cup {"TEM", "SOI", "ICC", "SOS", "APP", "SOF", "Exif"}
    BY <1>3 DEF KindsOf
  <2>3. s = Broken \/ s.kind \in {"TEM", "SOI", "ICC", "SOS", "APP", "SOF", "Exif"}
    BY <2>1 DEF Is
  <2> QED
    BY <1>1, <2>2, <2>3
<1>4. CASE format = "Gif"
  <2>1. Contents(format) = {Broken} \cup {Is("extension")} \cup [kind : {"image"}, inside : BOOLEAN]
    BY <1>4 DEF Contents
  <2>2. KindsOf(format) = {"broken"} \cup {"extension", "image"}
    BY <1>4 DEF KindsOf
  <2> QED
    BY <1>1, <2>1, <2>2 DEF Is
<1>5. CASE format = "Webp"
  <2>1. Contents(format) = {Broken} \cup {Is("VP8")} \cup [kind : {"ANMF"}, inside : BOOLEAN]
    BY <1>5 DEF Contents
  <2>2. KindsOf(format) = {"broken"} \cup {"VP8", "ANMF"}
    BY <1>5 DEF KindsOf
  <2> QED
    BY <1>1, <2>1, <2>2 DEF Is
<1> QED
  BY <1>2, <1>3, <1>4, <1>5 DEF Formats

\* A file has no segment of a foreign format.
LEMMA NoForeignPlaces ==
  ASSUME image.format \in Formats, image.segments \in Seq(Contents(image.format)),
         NEW K, K \cap KindsOf(image.format) = {}
  PROVE  Places(K) = {}
<1>1. \A i \in DOMAIN image.segments : image.segments[i] \in Contents(image.format)
  OBVIOUS
<1> QED
  BY <1>1, KindsIn DEF Places

\* Places of one of two kinds.
LEMMA PlacesOfTwo ==
  ASSUME NEW k, NEW l
  PROVE  Places({k, l}) = Places({k}) \cup Places({l})
BY DEF Places

\* A scanner lets pass what follows in order.
LEMMA PassesInOrder ==
  ASSUME Noticed, Orderly, NEW s \in Contents(image.format)
  PROVE  Passes(s) <=> Follows(s)
<1> DEFINE f == image.format
<1>1. /\ f \in Formats /\ image.segments \in Seq(Contents(f))
      /\ s.kind \in KindsOf(f) /\ (s = Broken <=> s.kind = "broken")
  BY KindsIn DEF Noticed
<1>2. CASE f = "Png"
  <2>1. s.kind \in {"broken", "IHDR", "IDAT", "sRGB", "tEXt", "acTL", "fcTL", "fdAT"}
    BY <1>1, <1>2 DEF KindsOf, Numbered
  <2>2. (scan.data <=> Places({"IDAT"}) # {})
    <3>1. Places({"SOS"}) = {}
      BY <1>1, <1>2, NoForeignPlaces DEF KindsOf, Numbered
    <3>2. Places({"IDAT", "SOS"}) = Places({"IDAT"}) \cup Places({"SOS"})
      BY PlacesOfTwo
    <3>3. Places({"IDAT", "SOS"}) = Places({"IDAT"})
      BY <3>1, <3>2
    <3> QED
      BY <3>3 DEF Noticed
  <2>3. Places({"fcTL"}) # {} => Places({"acTL"}) # {}
    BY DEF Orderly, Before
  <2>4. scan.controls > 0 <=> Places({"fcTL"}) # {}
    <3>1. PICK n \in Nat : n = Cardinality(Places({"fcTL"})) /\ (n = 0 <=> Places({"fcTL"}) = {})
      BY <1>1, CountedPlaces
    <3> QED
      BY <3>1 DEF Noticed
  <2>5. (scan.control <=> Places({"acTL"}) # {}) /\ scan.sequence = Cardinality(Places(Numbered))
    BY DEF Noticed
  <2>6. Passes(s) <=> s # Broken /\ PngPasses(s)
    BY <1>2 DEF Passes
  <2> QED
    BY <1>1, <2>1, <2>2, <2>3, <2>4, <2>5, <2>6 DEF PngPasses, Follows, NextNumber, Numbered
<1>3. CASE f = "Jpeg"
  <2>1. s.kind \in {"broken", "TEM", "SOI", "ICC", "SOS", "APP", "SOF", "Exif"}
    BY <1>1, <1>3 DEF KindsOf
  <2>2. (scan.geometry <=> Places({"SOF"}) # {})
    BY <1>3 DEF Noticed
  <2>3. Passes(s) <=> s # Broken /\ JpegPasses(s)
    BY <1>3 DEF Passes
  <2> QED
    BY <1>1, <2>1, <2>2, <2>3 DEF JpegPasses, Follows, Numbered
<1>4. CASE f = "Gif"
  <2>1. s.kind \in {"broken", "extension", "image"}
    BY <1>1, <1>4 DEF KindsOf
  <2>2. Places({"ANMF"}) = {}
    BY <1>1, <1>4, NoForeignPlaces DEF KindsOf
  <2>3. scan.frames = Cardinality(Places({"image"}))
    <3>1. Places({"image", "ANMF"}) = Places({"image"})
      <4>1. Places({"image", "ANMF"}) = Places({"image"}) \cup Places({"ANMF"})
        BY PlacesOfTwo
      <4> QED
        BY <2>2, <4>1
    <3> QED
      BY <1>4, <3>1 DEF Noticed
  <2>4. Passes(s) <=> s # Broken /\ GifPasses(s)
    BY <1>4 DEF Passes
  <2> QED
    BY <1>1, <2>1, <2>3, <2>4 DEF GifPasses, Follows, Numbered
<1>5. CASE f = "Webp"
  <2>1. s.kind \in {"broken", "VP8", "ANMF"}
    BY <1>1, <1>5 DEF KindsOf
  <2>2. Passes(s) <=> s # Broken /\ WebpPasses(s)
    BY <1>5 DEF Passes
  <2> QED
    BY <1>1, <2>1, <2>2 DEF WebpPasses, Follows, Numbered
<1> QED
  BY <1>1, <1>2, <1>3, <1>4, <1>5 DEF Formats

\* The segments of a file have the kinds and the fields of its format.
LEMMA NoticedFile ==
  ASSUME Noticed
  PROVE  /\ image.format \in Formats /\ image.animated \in BOOLEAN
         /\ image.segments \in Seq(Contents(image.format))
         /\ \A segments : LET longer == [image EXCEPT !.segments = segments] IN
              /\ longer.format = image.format /\ longer.animated = image.animated
              /\ longer.canvas = image.canvas /\ longer.segments = segments
BY DEF Noticed

\* What a scanner notes of a segment, field by field.
LEMMA NotedSays ==
  ASSUME Noticed, NEW s
  PROVE  /\ Noted(s).control \in BOOLEAN /\ (Noted(s).control <=> scan.control \/ s.kind = "acTL")
         /\ Noted(s).controls = scan.controls + (IF s.kind = "fcTL" THEN 1 ELSE 0)
         /\ Noted(s).sequence = scan.sequence + (IF s.kind \in Numbered THEN 1 ELSE 0)
         /\ Noted(s).data \in BOOLEAN /\ (Noted(s).data <=> scan.data \/ s.kind \in {"IDAT", "SOS"})
         /\ Noted(s).profile \in BOOLEAN /\ (Noted(s).profile <=> scan.profile \/ s.kind \in {"sRGB", "ICC"})
         /\ Noted(s).geometry \in BOOLEAN /\ (Noted(s).geometry <=> scan.geometry \/ s.kind = "SOF")
         /\ Noted(s).canvas = (IF s.kind = "SOF" THEN s.canvas ELSE scan.canvas)
         /\ Noted(s).orientation = (IF s.kind = "Exif" THEN s.orientation ELSE scan.orientation)
         /\ Noted(s).frames = (IF s.kind = "acTL" THEN s.frames
                               ELSE scan.frames + (IF s.kind \in {"image", "ANMF"} THEN 1 ELSE 0))
<1>1. scan \in [frames : Nat, control : BOOLEAN, controls : Nat, sequence : Nat, data : BOOLEAN,
               profile : BOOLEAN, canvas : Canvases \cup {NoCanvas}, geometry : BOOLEAN,
               orientation : {"Normal", "Rotate90"}]
  BY DEF Noticed
<1>2. CASE s.kind = "acTL"
  <2>1. Noted(s) = [scan EXCEPT !.control = TRUE, !.frames = s.frames]
    BY <1>2 DEF Noted
  <2> QED
    BY <1>1, <1>2, <2>1 DEF Numbered
<1>3. CASE s.kind = "fcTL"
  <2>1. Noted(s) = [scan EXCEPT !.sequence = @ + 1, !.controls = @ + 1]
    BY <1>3 DEF Noted
  <2> QED
    BY <1>1, <1>3, <2>1 DEF Numbered
<1>4. CASE s.kind = "fdAT"
  <2>1. Noted(s) = [scan EXCEPT !.sequence = @ + 1]
    BY <1>4 DEF Noted
  <2> QED
    BY <1>1, <1>4, <2>1 DEF Numbered
<1>5. CASE s.kind \in {"IDAT", "SOS"}
  <2>1. Noted(s) = [scan EXCEPT !.data = TRUE]
    BY <1>5 DEF Noted
  <2> QED
    BY <1>1, <1>5, <2>1 DEF Numbered
<1>6. CASE s.kind \in {"sRGB", "ICC"}
  <2>1. Noted(s) = [scan EXCEPT !.profile = TRUE]
    BY <1>6 DEF Noted
  <2> QED
    BY <1>1, <1>6, <2>1 DEF Numbered
<1>7. CASE s.kind = "SOF"
  <2>1. Noted(s) = [scan EXCEPT !.canvas = s.canvas, !.geometry = TRUE]
    BY <1>7 DEF Noted
  <2> QED
    BY <1>1, <1>7, <2>1 DEF Numbered
<1>8. CASE s.kind = "Exif"
  <2>1. Noted(s) = [scan EXCEPT !.orientation = s.orientation]
    BY <1>8 DEF Noted
  <2> QED
    BY <1>1, <1>8, <2>1 DEF Numbered
<1>9. CASE s.kind \in {"image", "ANMF"}
  <2>1. Noted(s) = [scan EXCEPT !.frames = @ + 1]
    BY <1>9 DEF Noted
  <2> QED
    BY <1>1, <1>9, <2>1 DEF Numbered
<1>10. CASE s.kind \notin {"acTL", "fcTL", "fdAT", "IDAT", "SOS", "sRGB", "ICC", "SOF", "Exif",
                          "image", "ANMF"}
  <2>1. Noted(s) = scan
    BY <1>10 DEF Noted
  <2> QED
    BY <1>1, <1>10, <2>1 DEF Numbered
<1> QED
  BY <1>2, <1>3, <1>4, <1>5, <1>6, <1>7, <1>8, <1>9, <1>10

\* What a segment states has its type.
LEMMA SegmentFields ==
  ASSUME NEW format \in Formats, NEW s \in Contents(format)
  PROVE  /\ s.kind = "acTL" => s.frames \in Nat
         /\ s.kind = "SOF" => s.canvas \in Canvases
         /\ s.kind = "Exif" => s.orientation \in {"Normal", "Rotate90"}
<1>1. Broken.kind = "broken"
  BY DEF Broken, Is
<1>2. CASE format = "Png"
  <2>1. Contents(format) = {Broken} \cup {Is(k) : k \in {"IHDR", "IDAT", "sRGB", "tEXt"}}
           \cup [kind : {"acTL"}, frames : FrameCounts]
           \cup [kind : {"fcTL"}, sequence : FrameCounts, inside : BOOLEAN]
           \cup [kind : {"fdAT"}, sequence : FrameCounts]
    BY <1>2 DEF Contents
  <2>2. FrameCounts \subseteq Nat
    BY ProbeAssumption
  <2>3. s.kind \notin {"SOF", "Exif"}
    BY <1>1, <2>1 DEF Is
  <2>4. s.kind = "acTL" => s \in [kind : {"acTL"}, frames : FrameCounts]
    BY <1>1, <2>1 DEF Is
  <2> QED
    BY <2>2, <2>3, <2>4
<1>3. CASE format = "Jpeg"
  <2>1. Contents(format) = {Broken} \cup {Is(k) : k \in {"TEM", "SOI", "ICC", "SOS", "APP"}}
           \cup [kind : {"SOF"}, canvas : Canvases]
           \cup [kind : {"Exif"}, orientation : {"Normal", "Rotate90"}]
    BY <1>3 DEF Contents
  <2> QED
    BY <1>1, <2>1 DEF Is
<1>4. CASE format \in {"Gif", "Webp"}
  <2>1. KindsOf(format) \subseteq {"broken", "extension", "image", "VP8", "ANMF"}
    BY <1>4 DEF KindsOf
  <2> QED
    BY <2>1, KindsIn
<1> QED
  BY <1>2, <1>3, <1>4 DEF Formats

\* What a scanner notes has the types of what it noted before.
LEMMA NotedTyped ==
  ASSUME Noticed, NEW s \in Contents(image.format)
  PROVE  Noted(s) \in [frames : Nat, control : BOOLEAN, controls : Nat, sequence : Nat,
                       data : BOOLEAN, profile : BOOLEAN, canvas : Canvases \cup {NoCanvas},
                       geometry : BOOLEAN, orientation : {"Normal", "Rotate90"}]
<1>1. scan \in [frames : Nat, control : BOOLEAN, controls : Nat, sequence : Nat, data : BOOLEAN,
               profile : BOOLEAN, canvas : Canvases \cup {NoCanvas}, geometry : BOOLEAN,
               orientation : {"Normal", "Rotate90"}]
  BY DEF Noticed
<1>2. /\ s.kind = "acTL" => s.frames \in Nat
      /\ s.kind = "SOF" => s.canvas \in Canvases
      /\ s.kind = "Exif" => s.orientation \in {"Normal", "Rotate90"}
  BY NoticedFile, SegmentFields
<1>3. CASE s.kind = "acTL"
  <2>1. Noted(s) = [scan EXCEPT !.control = TRUE, !.frames = s.frames]
    BY <1>3 DEF Noted
  <2> QED
    BY <1>1, <1>2, <1>3, <2>1
<1>4. CASE s.kind = "fcTL"
  <2>1. Noted(s) = [scan EXCEPT !.sequence = scan.sequence + 1, !.controls = scan.controls + 1]
    BY <1>1, <1>4 DEF Noted
  <2>2. scan.sequence + 1 \in Nat /\ scan.controls + 1 \in Nat
    BY <1>1
  <2> QED
    BY <1>1, <2>1, <2>2
<1>5. CASE s.kind = "fdAT"
  <2>1. Noted(s) = [scan EXCEPT !.sequence = @ + 1]
    BY <1>5 DEF Noted
  <2> QED
    BY <1>1, <1>2, <1>5, <2>1
<1>6. CASE s.kind \in {"IDAT", "SOS"}
  <2>1. Noted(s) = [scan EXCEPT !.data = TRUE]
    BY <1>6 DEF Noted
  <2> QED
    BY <1>1, <1>2, <1>6, <2>1
<1>7. CASE s.kind \in {"sRGB", "ICC"}
  <2>1. Noted(s) = [scan EXCEPT !.profile = TRUE]
    BY <1>7 DEF Noted
  <2> QED
    BY <1>1, <1>2, <1>7, <2>1
<1>8. CASE s.kind = "SOF"
  <2>1. Noted(s) = [scan EXCEPT !.canvas = s.canvas, !.geometry = TRUE]
    BY <1>8 DEF Noted
  <2> QED
    BY <1>1, <1>2, <1>8, <2>1
<1>9. CASE s.kind = "Exif"
  <2>1. Noted(s) = [scan EXCEPT !.orientation = s.orientation]
    BY <1>9 DEF Noted
  <2> QED
    BY <1>1, <1>2, <1>9, <2>1
<1>10. CASE s.kind \in {"image", "ANMF"}
  <2>1. Noted(s) = [scan EXCEPT !.frames = @ + 1]
    BY <1>10 DEF Noted
  <2> QED
    BY <1>1, <1>2, <1>10, <2>1
<1>11. CASE s.kind \notin {"acTL", "fcTL", "fdAT", "IDAT", "SOS", "sRGB", "ICC", "SOF", "Exif",
                         "image", "ANMF"}
  <2>1. Noted(s) = scan
    BY <1>11 DEF Noted
  <2> QED
    BY <1>1, <1>2, <1>11, <2>1
<1> QED
  BY <1>3, <1>4, <1>5, <1>6, <1>7, <1>8, <1>9, <1>10, <1>11

\* What a scanner notes of a segment that follows keeps to what the file has.
LEMMA NoticedGrows ==
  ASSUME Noticed, NEW s \in Contents(image.format), scan' = Noted(s),
         image' = [image EXCEPT !.segments = Append(@, s)]
  PROVE  Noticed'
<1>1. /\ image.format \in Formats /\ image.animated \in BOOLEAN
      /\ image.segments \in Seq(Contents(image.format))
      /\ image'.format = image.format /\ image'.animated = image.animated
      /\ image'.canvas = image.canvas /\ image'.segments = Append(image.segments, s)
  BY NoticedFile
<1>2. PICK n \in Nat : n = Len(image.segments)
  BY <1>1
<1>3. ASSUME NEW K
      PROVE  /\ Cardinality(Places(K)) \in Nat
             /\ Cardinality(Places(K)') = Cardinality(Places(K)) + (IF s.kind \in K THEN 1 ELSE 0)
             /\ Places(K)' # {} <=> (Places(K) # {} \/ s.kind \in K)
  <2>1. /\ Cardinality(Places(K)) \in Nat
        /\ Cardinality(Places(K)') = Cardinality(Places(K)) + (IF s.kind \in K THEN 1 ELSE 0)
        /\ Places(K)' = Places(K) \cup (IF s.kind \in K THEN {n + 1} ELSE {})
    BY <1>1, <1>2, PlacesGrow
  <2> QED
    BY <2>1
<1>4. ASSUME NEW kind, NEW otherwise
      PROVE  LastOf(kind, otherwise)' = IF s.kind = kind THEN s ELSE LastOf(kind, otherwise)
  BY <1>1, LastGrows
<1>5. (image \in [format : Formats, canvas : Canvases, animated : BOOLEAN,
                segments : Seq(Contents(image.format))])'
  <2>1. Append(image.segments, s) \in Seq(Contents(image.format))
    BY <1>1
  <2> QED
    BY <1>1, <2>1 DEF Noticed
<1>6. (image.animated => image.format = "Webp")'
  BY <1>1 DEF Noticed
<1>7. (scan \in [frames : Nat, control : BOOLEAN, controls : Nat, sequence : Nat, data : BOOLEAN,
               profile : BOOLEAN, canvas : Canvases \cup {NoCanvas}, geometry : BOOLEAN,
               orientation : {"Normal", "Rotate90"}])'
  BY NotedTyped
<1>8. (scan.control <=> Places({"acTL"}) # {})'
  BY <1>3, NotedSays DEF Noticed
<1>9. (scan.controls = Cardinality(Places({"fcTL"})))'
  <2>1. scan'.controls = scan.controls + (IF s.kind = "fcTL" THEN 1 ELSE 0)
    BY NotedSays
  <2>2. scan.controls = Cardinality(Places({"fcTL"}))
    BY DEF Noticed
  <2>3. Cardinality(Places({"fcTL"})') = Cardinality(Places({"fcTL"})) + (IF s.kind \in {"fcTL"} THEN 1 ELSE 0)
    BY <1>3
  <2> QED
    BY <2>1, <2>2, <2>3
<1>10. (scan.sequence = Cardinality(Places(Numbered)))'
  <2>1. scan'.sequence = scan.sequence + (IF s.kind \in Numbered THEN 1 ELSE 0)
    BY NotedSays
  <2>2. scan.sequence = Cardinality(Places(Numbered))
    BY DEF Noticed
  <2>3. Cardinality(Places(Numbered)') = Cardinality(Places(Numbered)) + (IF s.kind \in Numbered THEN 1 ELSE 0)
    BY <1>3
  <2> QED
    BY <2>1, <2>2, <2>3
<1>11. (scan.data <=> Places({"IDAT", "SOS"}) # {})'
  BY <1>3, NotedSays DEF Noticed
<1>12. (scan.profile <=> Places({"sRGB", "ICC"}) # {})'
  BY <1>3, NotedSays DEF Noticed
<1>13. (scan.geometry <=> image.format # "Jpeg" \/ Places({"SOF"}) # {})'
  BY <1>1, <1>3, NotedSays DEF Noticed
<1>14. (scan.geometry => scan.canvas = LastOf("SOF", image).canvas)'
  <2>1. CASE s.kind = "SOF"
    BY <1>3, <1>4, <2>1, NotedSays DEF LastOf, LastPlace
  <2>2. CASE s.kind # "SOF"
    <3>1. Places({"SOF"})' # {} <=> Places({"SOF"}) # {}
      BY <1>3, <2>2
    <3>2. scan'.geometry = scan.geometry /\ scan'.canvas = scan.canvas
      BY <2>2, NotedSays DEF Noticed
    <3>3. (LastOf("SOF", image).canvas)' = LastOf("SOF", image).canvas
      <4>1. CASE Places({"SOF"}) = {}
        BY <1>1, <3>1, <4>1 DEF LastOf, LastPlace
      <4>2. CASE Places({"SOF"}) # {}
        <5>1. PICK o : o = image
          OBVIOUS
        <5>2. LastOf("SOF", o)' = LastOf("SOF", o)
          BY <1>4, <2>2
        <5>3. LastOf("SOF", image)' = LastOf("SOF", o)'
          <6>1. Places({"SOF"})' # {}
            BY <3>1, <4>2
          <6>2. LastOf("SOF", o)' = image'.segments[LastPlace("SOF")']
            BY <6>1 DEF LastOf
          <6>3. LastOf("SOF", image)' = image'.segments[LastPlace("SOF")']
            BY <6>1 DEF LastOf
          <6> QED
            BY <6>2, <6>3
        <5> QED
          BY <5>1, <5>2, <5>3
      <4> QED
        BY <4>1, <4>2
    <3> QED
      BY <3>2, <3>3 DEF Noticed
  <2> QED
    BY <2>1, <2>2
<1>15. (scan.orientation = LastOf("Exif", [orientation |-> "Normal"]).orientation)'
  <2>1. PICK o : o = [orientation |-> "Normal"]
    OBVIOUS
  <2>2. LastOf("Exif", o)' = IF s.kind = "Exif" THEN s ELSE LastOf("Exif", o)
    BY <1>4
  <2>3. scan.orientation = LastOf("Exif", o).orientation
    BY <2>1 DEF Noticed
  <2>4. scan'.orientation = LastOf("Exif", o)'.orientation
    BY <2>2, <2>3, NotedSays
  <2> QED
    BY <2>1, <2>4
<1>16. (scan.frames = IF image.format \in {"Gif", "Webp"} THEN Cardinality(Places({"image", "ANMF"}))
          ELSE LastOf("acTL", [frames |-> IF image.format = "Png" THEN 1 ELSE 0]).frames)'
  <2>1. s.kind \in KindsOf(image.format)
    BY <1>1, KindsIn
  <2>2. CASE image.format \in {"Gif", "Webp"}
    <3>1. s.kind # "acTL"
      BY <2>1, <2>2 DEF KindsOf
    <3>2. scan'.frames = scan.frames + (IF s.kind \in {"image", "ANMF"} THEN 1 ELSE 0)
      BY <3>1, NotedSays
    <3> QED
      BY <1>1, <1>3, <2>2, <3>2 DEF Noticed
  <2>3. CASE image.format \notin {"Gif", "Webp"}
    <3>1. image.format \in {"Png", "Jpeg"}
      BY <1>1, <2>3 DEF Formats
    <3>2. s.kind \notin {"image", "ANMF"}
      BY <2>1, <3>1 DEF KindsOf, Numbered
    <3>3. PICK o : o = [frames |-> IF image.format = "Png" THEN 1 ELSE 0]
      OBVIOUS
    <3>4. LastOf("acTL", o)' = IF s.kind = "acTL" THEN s ELSE LastOf("acTL", o)
      BY <1>4
    <3>5. scan.frames = LastOf("acTL", o).frames /\ scan.frames \in Nat
      BY <2>3, <3>3 DEF Noticed
    <3>6. scan'.frames = IF s.kind = "acTL" THEN s.frames ELSE scan.frames
      BY <3>2, <3>5, NotedSays
    <3>7. scan'.frames = LastOf("acTL", o)'.frames
      BY <3>4, <3>5, <3>6
    <3> QED
      BY <1>1, <2>3, <3>3, <3>7
  <2> QED
    BY <2>2, <2>3
<1> QED
  BY <1>5, <1>6, <1>7, <1>8, <1>9, <1>10, <1>11, <1>12, <1>13, <1>14, <1>15, <1>16 DEF Noticed

\* The segment that ends a file is of none of the kinds that a format asks about.
EndKinds == {"IEND", "EOI", "trailer", "end"}

\* So what a file states does not change with it.
LEMMA PlacesAtEnd ==
  ASSUME Noticed, NEW e, e.kind \in EndKinds, image' = [image EXCEPT !.segments = Append(@, e)]
  PROVE  /\ \A K : K \cap EndKinds = {} => Places(K)' = Places(K)
         /\ \A kind, otherwise : kind \notin EndKinds => LastOf(kind, otherwise)' = LastOf(kind, otherwise)
         /\ image'.format = image.format /\ image'.animated = image.animated
         /\ image'.canvas = image.canvas
         /\ image'.segments[Len(image'.segments)] = e /\ image'.segments # <<>>
         /\ Follows(e)
<1>1. /\ image.segments \in Seq(Contents(image.format))
      /\ image'.format = image.format /\ image'.animated = image.animated
      /\ image'.canvas = image.canvas /\ image'.segments = Append(image.segments, e)
  BY NoticedFile
<1>2. ASSUME NEW K, K \cap EndKinds = {} PROVE Places(K)' = Places(K)
  <2>1. PICK n : n = Len(image.segments)
    OBVIOUS
  <2>2. Places(K)' = Places(K) \cup (IF e.kind \in K THEN {n + 1} ELSE {})
    BY <1>1, <2>1, PlacesGrow
  <2> QED
    BY <1>2, <2>2
<1>3. ASSUME NEW kind, NEW otherwise, kind \notin EndKinds
      PROVE  LastOf(kind, otherwise)' = LastOf(kind, otherwise)
  <2>1. LastOf(kind, otherwise)' = IF e.kind = kind THEN e ELSE LastOf(kind, otherwise)
    BY <1>1, LastGrows
  <2> QED
    BY <1>3, <2>1
<1>4. image'.segments[Len(image'.segments)] = e /\ image'.segments # <<>>
  BY <1>1
<1>5. Follows(e)
  BY DEF Follows, EndKinds, Numbered
<1> QED
  BY <1>1, <1>2, <1>3, <1>4, <1>5

\* What the scanner reports at the end is what the file states, format by format.
LEMMA FramesAreStated ==
  ASSUME Noticed, NEW images, images = Cardinality(Places({"image", "ANMF"}))
  PROVE  /\ Frames = CASE image.format = "Gif" -> images
                       [] image.format = "Webp" /\ image.animated -> images
                       [] Places({"acTL"}) # {} -> LastOf("acTL", image).frames
                       [] OTHER -> 1
         /\ Animated <=> \/ Places({"acTL"}) # {} \/ image.animated
                         \/ image.format = "Gif" /\ images > 1
         /\ image.format # "Png" => Places({"acTL"}) = {}
<1>1. image.format \in Formats /\ image.segments \in Seq(Contents(image.format))
  BY NoticedFile
<1>2. /\ image.animated => image.format = "Webp"
      /\ image.format \in {"Gif", "Webp"} => scan.frames = images
      /\ scan.control <=> Places({"acTL"}) # {}
  BY DEF Noticed
<1>3. image.format # "Png" => Places({"acTL"}) = {}
  <2>1. image.format # "Png" => {"acTL"} \cap KindsOf(image.format) = {}
    BY <1>1 DEF KindsOf, Formats
  <2> QED
    BY <1>1, <2>1, NoForeignPlaces
<1>4. image.format = "Png" =>
        scan.frames = IF Places({"acTL"}) # {} THEN LastOf("acTL", image).frames ELSE 1
  <2>1. image.format = "Png" => scan.frames = LastOf("acTL", [frames |-> 1]).frames
    BY DEF Noticed
  <2>2. Places({"acTL"}) # {} => LastOf("acTL", [frames |-> 1]) = LastOf("acTL", image)
    BY DEF LastOf
  <2>3. Places({"acTL"}) = {} => LastOf("acTL", [frames |-> 1]) = [frames |-> 1]
    BY DEF LastOf
  <2> QED
    BY <2>1, <2>2, <2>3
<1>5. image.format \in {"Png", "Jpeg", "Gif", "Webp"}
  BY <1>1 DEF Formats
<1> QED
  BY <1>2, <1>3, <1>4, <1>5 DEF Frames, Animated

\* What is required at the end is what makes the file complete.
LEMMA EndIsExact ==
  ASSUME Noticed, Orderly, NEW terminated \in BOOLEAN, NEW clean \in BOOLEAN,
         terminated => image.format \in DOMAIN Terminators, NEW e,
         e = IF terminated THEN [kind |-> Terminators[image.format], clean |-> clean]
             ELSE [kind |-> "end", clean |-> clean],
         image' = [image EXCEPT !.segments = Append(@, e)]
  PROVE  /\ Orderly' /\ AtEnd'
         /\ Complete' <=> clean /\ Ended(terminated) /\ WithinLimits(scan.canvas, Frames)
         /\ Complete' => Stated' = Probed
<1> DEFINE images == Cardinality(Places({"image", "ANMF"}))
<1>1. /\ image.format \in {"Png", "Jpeg", "Gif", "Webp"} /\ image.animated \in BOOLEAN
      /\ image.segments \in Seq(Contents(image.format))
  BY NoticedFile DEF Formats
<1>2. /\ e.kind \in EndKinds /\ e.clean = clean /\ DOMAIN e = {"kind", "clean"}
      /\ image.format # "Webp" => (e.kind = Terminators[image.format] <=> terminated)
      /\ image.format = "Webp" => ~terminated
  <2>1. Terminators = [Png |-> "IEND", Jpeg |-> "EOI", Gif |-> "trailer"]
    BY DEF Terminators
  <2>2. CASE terminated
    BY <1>1, <2>1, <2>2 DEF EndKinds
  <2>3. CASE ~terminated
    BY <1>1, <2>1, <2>3 DEF EndKinds
  <2> QED
    BY <2>2, <2>3
<1>3. /\ \A K : K \cap EndKinds = {} => Places(K)' = Places(K)
      /\ \A kind, otherwise : kind \notin EndKinds => LastOf(kind, otherwise)' = LastOf(kind, otherwise)
      /\ image'.format = image.format /\ image'.animated = image.animated
      /\ image'.canvas = image.canvas
      /\ image'.segments[Len(image'.segments)] = e /\ image'.segments # <<>>
      /\ Follows(e)
  BY <1>2, PlacesAtEnd
<1>4. Orderly' /\ AtEnd'
  <2>1. image'.segments = Append(image.segments, e)
    BY NoticedFile
  <2>2. Orderly'
    BY <1>1, <1>3, <2>1, OrderlyGrows
  <2> QED
    BY <1>2, <1>3, <2>2 DEF AtEnd
<1>5. \A K \in {{"image", "ANMF"}, {"acTL"}, {"sRGB", "ICC"}, {"fcTL"}, {"IDAT"}, {"SOS"}, {"image"},
                {"ANMF"}, {"SOF"}} : Places(K)' = Places(K)
  <2>1. \A K \in {{"image", "ANMF"}, {"acTL"}, {"sRGB", "ICC"}, {"fcTL"}, {"IDAT"}, {"SOS"}, {"image"},
                {"ANMF"}, {"SOF"}} : K \cap EndKinds = {}
    BY DEF EndKinds
  <2> QED
    BY <1>3, <2>1
<1>6. images \in Nat
  BY <1>1, CountedPlaces
<1>7. /\ (LastOf("SOF", image).canvas)' = LastOf("SOF", image).canvas
      /\ Places({"acTL"}) # {} => (LastOf("acTL", image).frames)' = LastOf("acTL", image).frames
      /\ (LastOf("Exif", [orientation |-> "Normal"]).orientation)' = scan.orientation
  <2>1. ASSUME NEW kind \in {"SOF", "acTL"}, Places({kind}) # {}
        PROVE  LastOf(kind, image)' = LastOf(kind, image)
    <3>1. PICK o : o = image
      OBVIOUS
    <3>2. LastOf(kind, o)' = LastOf(kind, o)
      BY <1>3, <2>1 DEF EndKinds
    <3>3. Places({kind})' # {}
      BY <1>5, <2>1
    <3>4. LastOf(kind, o)' = image'.segments[LastPlace(kind)']
      BY <3>3 DEF LastOf
    <3>5. LastOf(kind, image)' = image'.segments[LastPlace(kind)']
      BY <3>3 DEF LastOf
    <3> QED
      BY <3>1, <3>2, <3>4, <3>5
  <2>2. ASSUME Places({"SOF"}) = {}
        PROVE  (LastOf("SOF", image).canvas)' = LastOf("SOF", image).canvas
    <3>1. Places({"SOF"})' = {}
      BY <1>5, <2>2
    <3>2. LastOf("SOF", image)' = image' /\ LastOf("SOF", image) = image
      BY <2>2, <3>1 DEF LastOf
    <3>3. image'.canvas = image.canvas
      BY <1>3
    <3>4. (LastOf("SOF", image).canvas)' = image'.canvas
      BY <3>1 DEF LastOf
    <3> QED
      BY <3>2, <3>3, <3>4
  <2>3. (LastOf("SOF", image).canvas)' = LastOf("SOF", image).canvas
    BY <2>1, <2>2
  <2>4. (LastOf("Exif", [orientation |-> "Normal"]).orientation)' = scan.orientation
    <3>1. PICK o : o = [orientation |-> "Normal"]
      OBVIOUS
    <3>2. LastOf("Exif", o)' = LastOf("Exif", o)
      BY <1>3 DEF EndKinds
    <3>3. scan.orientation = LastOf("Exif", o).orientation
      BY <3>1 DEF Noticed
    <3> QED
      BY <3>1, <3>2, <3>3
  <2> QED
    BY <2>1, <2>3, <2>4
<1>8. /\ Frames = CASE image.format = "Gif" -> images
                    [] image.format = "Webp" /\ image.animated -> images
                    [] Places({"acTL"}) # {} -> LastOf("acTL", image).frames
                    [] OTHER -> 1
      /\ Animated <=> \/ Places({"acTL"}) # {} \/ image.animated
                      \/ image.format = "Gif" /\ images > 1
      /\ image.format # "Png" => Places({"acTL"}) = {}
  BY FramesAreStated
<1>9. (Stated.frames)' = Frames
  <2>1. (Stated.frames)' = CASE image'.format = "Gif" -> Cardinality(Places({"image", "ANMF"})')
                    [] image'.format = "Webp" /\ image'.animated -> Cardinality(Places({"image", "ANMF"})')
                    [] Places({"acTL"})' # {} -> (LastOf("acTL", image).frames)'
                    [] OTHER -> 1
    BY DEF Stated
  <2>2. Places({"image", "ANMF"})' = Places({"image", "ANMF"}) /\ Places({"acTL"})' = Places({"acTL"})
    BY <1>5
  <2>3. image'.format = image.format /\ image'.animated = image.animated
    BY <1>3
  <2>4. CASE image.format = "Gif"
    <3>1. Frames = images
      BY <1>8, <2>4
    <3>2. (Stated.frames)' = images
      BY <1>8, <2>1, <2>2, <2>3, <2>4
    <3> QED
      BY <3>1, <3>2
  <2>5. CASE image.format = "Webp" /\ image.animated
    <3>1. Frames = images
      BY <1>8, <2>5
    <3>2. (Stated.frames)' = images
      BY <1>8, <2>1, <2>2, <2>3, <2>5
    <3> QED
      BY <3>1, <3>2
  <2>6. CASE image.format # "Gif" /\ ~(image.format = "Webp" /\ image.animated)
    BY <1>3, <1>7, <1>8, <2>1, <2>2, <2>6
  <2> QED
    BY <2>4, <2>5, <2>6
<1>10. (Stated.animated)' <=> Animated
  <2>1. (Stated.animated)' <=>
          \/ Places({"acTL"})' # {} \/ image'.animated
          \/ image'.format = "Gif" /\ Cardinality(Places({"image", "ANMF"})') > 1
    BY DEF Stated
  <2>2. Places({"image", "ANMF"})' = Places({"image", "ANMF"}) /\ Places({"acTL"})' = Places({"acTL"})
    BY <1>5
  <2> QED
    BY <1>3, <1>8, <2>1, <2>2
<1>11. (Stated.profile)' <=> scan.profile
  <2>1. (Stated.profile)' <=> Places({"sRGB", "ICC"})' # {}
    BY DEF Stated
  <2>2. Places({"sRGB", "ICC"})' = Places({"sRGB", "ICC"})
    BY <1>5
  <2> QED
    BY <2>1, <2>2 DEF Noticed
<1>12. (Stated.canvas)' = LastOf("SOF", image).canvas /\ (Stated.orientation)' = scan.orientation
  BY <1>7 DEF Stated
<1>13. scan.geometry => Stated' = Probed
  <2>1. SUFFICES ASSUME scan.geometry PROVE Stated' = Probed
    OBVIOUS
  <2>2. (Stated.canvas)' = scan.canvas
    BY <1>12, <2>1 DEF Noticed
  <2>3. (Stated.animated)' = Animated
    <3>1. (Stated.animated)' \in BOOLEAN /\ Animated \in BOOLEAN
      BY DEF Stated, Animated, Noticed
    <3> QED
      BY <1>10, <3>1
  <2>4. (Stated.profile)' = scan.profile
    <3>1. (Stated.profile)' \in BOOLEAN /\ scan.profile \in BOOLEAN
      BY DEF Stated, Noticed
    <3> QED
      BY <1>11, <3>1
  <2>5. Stated' = [state |-> "probed", canvas |-> (Stated.canvas)', frames |-> (Stated.frames)',
                   animated |-> (Stated.animated)', orientation |-> (Stated.orientation)',
                   profile |-> (Stated.profile)']
    BY DEF Stated
  <2> QED
    BY <1>9, <1>12, <2>2, <2>3, <2>4, <2>5 DEF Probed
<1>14. Complete' <=> clean /\ Ended(terminated) /\ WithinLimits(scan.canvas, Frames)
  <2>1. Places({"SOF"}) = {} => Places({"SOS"}) = {}
    BY DEF Orderly, Before
  <2>2. scan.geometry <=> image.format # "Jpeg" \/ Places({"SOF"}) # {}
    BY DEF Noticed
  <2>3. scan.data <=> Places({"IDAT"}) # {} \/ Places({"SOS"}) # {}
    <3>1. Places({"IDAT", "SOS"}) = Places({"IDAT"}) \cup Places({"SOS"})
      BY PlacesOfTwo
    <3>2. scan.data <=> Places({"IDAT", "SOS"}) # {}
      BY DEF Noticed
    <3> QED
      BY <3>1, <3>2
  <2>4. WithinLimits((Stated.canvas)', (Stated.frames)') <=> WithinLimits((Stated.canvas)', Frames)
    BY <1>9
  <2>5. Complete' <=>
          /\ clean
          /\ image.format # "Webp" => terminated
          /\ image.format = "Png" => Places({"IDAT"}) # {}
          /\ image.format = "Jpeg" => Places({"SOS"}) # {}
          /\ image.format = "Gif" => Places({"image"}) # {}
          /\ image.format = "Webp" => image.animated = (Places({"ANMF"}) # {})
          /\ image.format = "Png" =>
               Cardinality(Places({"fcTL"})) = (IF Animated THEN Frames ELSE 0)
          /\ WithinLimits((Stated.canvas)', Frames)
    <3> DEFINE needed == [Png |-> {"IDAT"}, Jpeg |-> {"SOS"}, Gif |-> {"image"}]
    <3>1. Complete' <=>
            /\ image'.segments[Len(image'.segments)].clean
            /\ image'.format # "Webp" =>
                 /\ image'.segments[Len(image'.segments)].kind = Terminators[image'.format]
                 /\ (Places(needed[image.format]) # {})'
            /\ image'.format = "Webp" => image'.animated = (Places({"ANMF"})' # {})
            /\ image'.format = "Png" => Cardinality(Places({"fcTL"})') =
                 (IF (Stated.animated)' THEN (Stated.frames)' ELSE 0)
            /\ WithinLimits((Stated.canvas)', (Stated.frames)')
      BY DEF Complete
    <3>2. /\ image'.format = image.format /\ image'.animated = image.animated
          /\ image'.segments[Len(image'.segments)] = e
      BY <1>3
    <3>3. /\ Places({"ANMF"})' = Places({"ANMF"}) /\ Places({"fcTL"})' = Places({"fcTL"})
          /\ Places({"IDAT"})' = Places({"IDAT"}) /\ Places({"SOS"})' = Places({"SOS"})
          /\ Places({"image"})' = Places({"image"})
      BY <1>5
    <3>4. /\ image.format = "Png" => needed[image.format] = {"IDAT"}
          /\ image.format = "Jpeg" => needed[image.format] = {"SOS"}
          /\ image.format = "Gif" => needed[image.format] = {"image"}
      OBVIOUS
    <3>5. image.format # "Webp" =>
            ((Places(needed[image.format]) # {})' <=>
               /\ image.format = "Png" => Places({"IDAT"}) # {}
               /\ image.format = "Jpeg" => Places({"SOS"}) # {}
               /\ image.format = "Gif" => Places({"image"}) # {})
      <4> HIDE DEF needed
      <4>1. CASE image.format = "Png"
        BY <3>2, <3>3, <3>4, <4>1
      <4>2. CASE image.format = "Jpeg"
        BY <3>2, <3>3, <3>4, <4>2
      <4>3. CASE image.format = "Gif"
        BY <3>2, <3>3, <3>4, <4>3
      <4> QED
        BY <1>1, <4>1, <4>2, <4>3
    <3>6. (IF (Stated.animated)' THEN (Stated.frames)' ELSE 0) = (IF Animated THEN Frames ELSE 0)
      BY <1>9, <1>10
    <3> HIDE DEF needed
    <3> QED
      BY <1>1, <1>2, <2>4, <3>1, <3>2, <3>3, <3>5, <3>6
  <2>6. CASE image.format = "Png"
    <3>1. Animated <=> scan.control
      BY <2>6 DEF Animated
    <3>2. Frames = scan.frames
      BY <2>6 DEF Frames
    <3>3. scan.data <=> Places({"IDAT"}) # {}
      <4>1. Places({"SOS"}) = {}
        BY NoticedFile, <2>6, NoForeignPlaces DEF KindsOf, Numbered
      <4> QED
        BY <2>3, <4>1
    <3>4. (Stated.canvas)' = scan.canvas
      BY <1>12, <2>2, <2>6 DEF Noticed
    <3>5. scan.controls = Cardinality(Places({"fcTL"}))
      BY DEF Noticed
    <3>6. Ended(terminated) <=> terminated /\ scan.data
            /\ scan.controls = (IF scan.control THEN scan.frames ELSE 0)
      BY <2>6 DEF Ended
    <3> QED
      BY <2>5, <2>6, <3>1, <3>2, <3>3, <3>4, <3>5, <3>6
  <2>7. CASE image.format = "Jpeg"
    <3>1. Ended(terminated) <=> terminated /\ scan.data
      BY <2>7 DEF Ended
    <3>2. scan.data <=> Places({"SOS"}) # {}
      <4>1. Places({"IDAT"}) = {}
        BY NoticedFile, <1>1, <2>7, NoForeignPlaces DEF KindsOf
      <4> QED
        BY <2>3, <4>1
    <3>3. Places({"SOS"}) # {} => (Stated.canvas)' = scan.canvas
      BY <1>12, <2>1, <2>2 DEF Noticed
    <3> QED
      BY <2>5, <2>7, <3>1, <3>2, <3>3
  <2>8. CASE image.format = "Gif"
    <3>1. (Stated.canvas)' = scan.canvas
      BY <1>12, <2>2, <2>8 DEF Noticed
    <3>2. scan.frames > 0 <=> Places({"image"}) # {}
      <4>1. Places({"ANMF"}) = {}
        BY NoticedFile, <1>1, <2>8, NoForeignPlaces DEF KindsOf
      <4>2. Places({"image", "ANMF"}) = Places({"image"})
        <5>1. Places({"image", "ANMF"}) = Places({"image"}) \cup Places({"ANMF"})
          BY PlacesOfTwo
        <5> QED
          BY <4>1, <5>1
      <4>3. PICK m \in Nat : m = Cardinality(Places({"image"})) /\ (m = 0 <=> Places({"image"}) = {})
        BY <1>1, CountedPlaces
      <4>4. scan.frames = Cardinality(Places({"image", "ANMF"}))
        BY <2>8 DEF Noticed
      <4> QED
        BY <4>2, <4>3, <4>4
    <3>3. Ended(terminated) <=> terminated /\ scan.frames > 0
      BY <2>8 DEF Ended
    <3> QED
      BY <2>5, <2>8, <3>1, <3>2, <3>3
  <2>9. CASE image.format = "Webp"
    <3>1. (Stated.canvas)' = scan.canvas
      BY <1>12, <2>2, <2>9 DEF Noticed
    <3>2. scan.frames > 0 <=> Places({"ANMF"}) # {}
      <4>1. Places({"image"}) = {}
        BY NoticedFile, <1>1, <2>9, NoForeignPlaces DEF KindsOf
      <4>2. Places({"image", "ANMF"}) = Places({"ANMF"})
        <5>1. Places({"image", "ANMF"}) = Places({"image"}) \cup Places({"ANMF"})
          BY PlacesOfTwo
        <5> QED
          BY <4>1, <5>1
      <4>3. PICK m \in Nat : m = Cardinality(Places({"ANMF"})) /\ (m = 0 <=> Places({"ANMF"}) = {})
        BY <1>1, CountedPlaces
      <4>4. scan.frames = Cardinality(Places({"image", "ANMF"}))
        BY <2>9 DEF Noticed
      <4> QED
        BY <4>2, <4>3, <4>4
    <3>3. Ended(terminated) <=> image.animated = (scan.frames > 0)
      BY <2>9 DEF Ended
    <3> QED
      BY <1>1, <2>5, <2>9, <3>1, <3>2, <3>3
  <2> QED
    BY <1>1, <2>6, <2>7, <2>8, <2>9
<1>15. Complete' => scan.geometry
  <2>1. image.format = "Jpeg" /\ Ended(terminated) => scan.data
    BY DEF Ended
  <2>2. image.format = "Jpeg" /\ scan.data => Places({"SOS"}) # {}
    <3>1. image.format = "Jpeg" => Places({"IDAT"}) = {}
      BY NoticedFile, <1>1, NoForeignPlaces DEF KindsOf
    <3>2. Places({"IDAT", "SOS"}) = Places({"IDAT"}) \cup Places({"SOS"})
      BY PlacesOfTwo
    <3>3. scan.data <=> Places({"IDAT", "SOS"}) # {}
      BY DEF Noticed
    <3> QED
      BY <3>1, <3>2, <3>3
  <2>3. Places({"SOS"}) # {} => Places({"SOF"}) # {}
    BY DEF Orderly, Before
  <2>4. scan.geometry <=> image.format # "Jpeg" \/ Places({"SOF"}) # {}
    BY DEF Noticed
  <2> QED
    BY <1>14, <2>1, <2>2, <2>3, <2>4
<1> QED
  BY <1>4, <1>13, <1>14, <1>15

\* Some places of a sequence are no more than all of them.
LEMMA FewPlaces ==
  ASSUME NEW n \in Nat, NEW P \in SUBSET (1..n), NEW Q \in SUBSET P
  PROVE  /\ Cardinality(Q) \in Nat /\ Cardinality(P) \in Nat
         /\ Cardinality(Q) <= Cardinality(P) /\ Cardinality(P) <= n
<1>1. 1 \in Int /\ n \in Int
  OBVIOUS
<1>2. IsFiniteSet(1..n) /\ Cardinality(1..n) = IF 1 > n THEN 0 ELSE n - 1 + 1
  BY <1>1, FS_Interval
<1>3. Cardinality(1..n) = n
  BY <1>2
<1>4. IsFiniteSet(P) /\ IsFiniteSet(Q)
  BY <1>2, FS_Subset
<1>5. Cardinality(P) \in Nat /\ Cardinality(Q) \in Nat
  BY <1>4, FS_CardinalityType
<1>6. Cardinality(P) <= Cardinality(1..n)
  BY <1>2, FS_Subset
<1>7. Cardinality(Q) <= Cardinality(P)
  BY <1>4, FS_Subset
<1> QED
  BY <1>3, <1>5, <1>6, <1>7

\* The four answers of the probe are told apart by their state.
LEMMA Verdicts ==
  /\ Scanning.state = "scanning" /\ Refused.state = "refused" /\ Unread.state = "unread"
  /\ Scanning # Refused /\ Scanning # Unread /\ Refused # Unread
BY DEF Scanning, Refused, Unread

\* The invariant holds before a file is given.
LEMMA ProbeBegins == ProbeInit => ProbeInvariant
<1> SUFFICES ASSUME ProbeInit PROVE ProbeInvariant
  OBVIOUS
<1>1. image.segments = <<>> /\ scan.controls = 0 /\ scan.sequence = 0 /\ verdict = Unread
  BY DEF ProbeInit, NoImage, NoScan
<1> QED
  BY <1>1, Verdicts, ProbeAssumption DEF ProbeInvariant, ProbeTypeOK, ProbeIsExact

\* The header is read: there are no segments, and nothing is noted.
LEMMA ProbeStarts ==
  ASSUME NEW format \in Formats, NEW canvas \in Canvases, NEW animated \in BOOLEAN,
         StartProbe(format, canvas, animated)
  PROVE  ProbeInvariant'
<1>1. /\ image' = [format |-> format, canvas |-> canvas, animated |-> animated, segments |-> <<>>]
      /\ scan' = [frames |-> IF format = "Png" THEN 1 ELSE 0, control |-> FALSE,
                  controls |-> 0, sequence |-> 0, data |-> FALSE, profile |-> FALSE,
                  canvas |-> IF format = "Jpeg" THEN NoCanvas ELSE canvas,
                  geometry |-> format # "Jpeg", orientation |-> "Normal"]
      /\ verdict' = Scanning /\ (animated => format = "Webp")
  BY DEF StartProbe
<1>2. ASSUME NEW K PROVE Places(K)' = {}
  BY <1>1 DEF Places
<1>3. Cardinality({}) = 0
  BY FS_EmptySet
<1>4. ProbeTypeOK'
  BY <1>1, Verdicts, ProbeAssumption DEF ProbeTypeOK
<1>5. Orderly'
  BY <1>2, <1>3, ProbeAssumption DEF Orderly
<1>6. Noticed'
  <2>1. (image \in [format : Formats, canvas : Canvases, animated : BOOLEAN,
                segments : Seq(Contents(image.format))])'
    BY <1>1
  <2>2. (scan \in [frames : Nat, control : BOOLEAN, controls : Nat, sequence : Nat, data : BOOLEAN,
               profile : BOOLEAN, canvas : Canvases \cup {NoCanvas}, geometry : BOOLEAN,
               orientation : {"Normal", "Rotate90"}])'
    BY <1>1
  <2>3. /\ image'.format = format /\ image'.animated = animated /\ image'.canvas = canvas
        /\ scan'.control = FALSE /\ scan'.controls = 0 /\ scan'.sequence = 0 /\ scan'.data = FALSE
        /\ scan'.profile = FALSE /\ scan'.geometry = (format # "Jpeg")
        /\ scan'.orientation = "Normal" /\ scan'.frames = IF format = "Png" THEN 1 ELSE 0
        /\ scan'.canvas = IF format = "Jpeg" THEN NoCanvas ELSE canvas
    BY <1>1
  <2>4. ASSUME NEW kind, NEW otherwise PROVE LastOf(kind, otherwise)' = otherwise
    BY <1>2 DEF LastOf
  <2>5. LastOf("SOF", image)' = image'
    BY <1>2 DEF LastOf
  <2>6. (scan.geometry => scan.canvas = LastOf("SOF", image).canvas)'
    BY <2>3, <2>5
  <2>7. (scan.orientation = LastOf("Exif", [orientation |-> "Normal"]).orientation)'
    BY <2>3, <2>4
  <2>8. (scan.frames = IF image.format \in {"Gif", "Webp"} THEN Cardinality(Places({"image", "ANMF"}))
          ELSE LastOf("acTL", [frames |-> IF image.format = "Png" THEN 1 ELSE 0]).frames)'
    BY <1>2, <1>3, <2>3, <2>4
  <2> QED
    BY <1>1, <1>2, <1>3, <2>1, <2>2, <2>3, <2>6, <2>7, <2>8 DEF Noticed
<1>7. Len(image'.segments) <= MaxSegments
  BY <1>1, ProbeAssumption
<1> QED
  BY <1>1, <1>4, <1>5, <1>6, <1>7, Verdicts DEF ProbeInvariant, ProbeIsExact

\* A segment is read.
LEMMA ProbeScans ==
  ASSUME ProbeInvariant, NEW s \in Contents(image.format), ScanSegment(s)
  PROVE  ProbeInvariant'
<1>1. /\ verdict = Scanning /\ Len(image.segments) < MaxSegments
      /\ image' = [image EXCEPT !.segments = Append(@, s)]
      /\ Noticed /\ Orderly
  BY DEF ScanSegment, ProbeInvariant, ProbeIsExact
<1>2. image.segments \in Seq(Contents(image.format)) /\ image'.segments = Append(image.segments, s)
  BY <1>1, NoticedFile
<1>3. Orderly' <=> Passes(s)
  BY <1>1, <1>2, OrderlyGrows, PassesInOrder
<1>4. Len(image'.segments) \in 0..MaxSegments
  BY <1>1, <1>2, ProbeAssumption
<1>5. CASE Passes(s)
  <2>1. scan' = Noted(s) /\ verdict' = Scanning
    BY <1>1, <1>5 DEF ScanSegment
  <2>2. Noticed'
    BY <1>1, <2>1, NoticedGrows
  <2>3. (scan.controls \in 0..MaxSegments /\ scan.sequence \in scan.controls..MaxSegments)'
    <3>1. PICK n \in Nat : n = Len(image'.segments)
      BY <1>4
    <3>2. PICK P : P = Places(Numbered)'
      OBVIOUS
    <3>3. PICK Q : Q = Places({"fcTL"})'
      OBVIOUS
    <3>4. DOMAIN image'.segments = 1..n
      BY <1>2, <3>1
    <3>5. P \in SUBSET (1..n) /\ Q \in SUBSET P
      BY <3>2, <3>3, <3>4 DEF Places, Numbered
    <3>6. /\ Cardinality(Q) \in Nat /\ Cardinality(P) \in Nat
          /\ Cardinality(Q) <= Cardinality(P) /\ Cardinality(P) <= n
      BY <3>5, FewPlaces
    <3>7. scan'.controls = Cardinality(Q) /\ scan'.sequence = Cardinality(P)
      BY <2>2, <3>2, <3>3 DEF Noticed
    <3>8. n <= MaxSegments /\ MaxSegments \in Nat
      BY <1>4, <3>1, ProbeAssumption
    <3> QED
      BY <3>6, <3>7, <3>8
  <2> QED
    BY <1>3, <1>4, <1>5, <2>1, <2>2, <2>3, Verdicts, ProbeAssumption
       DEF ProbeInvariant, ProbeTypeOK, ProbeIsExact
<1>6. CASE ~Passes(s)
  <2>1. scan' = scan /\ verdict' = Refused
    BY <1>1, <1>6 DEF ScanSegment
  <2> QED
    BY <1>3, <1>4, <1>6, <2>1, Verdicts, ProbeAssumption DEF ProbeInvariant, ProbeTypeOK, ProbeIsExact
<1> QED
  BY <1>5, <1>6

\* The file ends.
LEMMA ProbeEnds ==
  ASSUME ProbeInvariant, NEW terminated \in BOOLEAN, NEW clean \in BOOLEAN,
         EndFile(terminated, clean)
  PROVE  ProbeInvariant'
<1>1. PICK e : e = IF terminated THEN [kind |-> Terminators[image.format], clean |-> clean]
                   ELSE [kind |-> "end", clean |-> clean]
  OBVIOUS
<1>2. /\ verdict = Scanning /\ Noticed /\ Orderly /\ scan' = scan
      /\ terminated => image.format \in DOMAIN Terminators
      /\ image' = [image EXCEPT !.segments = Append(@, e)]
      /\ verdict' = IF clean /\ Ended(terminated) /\ WithinLimits(scan.canvas, Frames)
                    THEN Probed ELSE Refused
  BY <1>1 DEF EndFile, ProbeInvariant, ProbeIsExact
<1>3. /\ Orderly' /\ AtEnd'
      /\ Complete' <=> clean /\ Ended(terminated) /\ WithinLimits(scan.canvas, Frames)
      /\ Complete' => Stated' = Probed
  BY <1>1, <1>2, EndIsExact
<1>4. Probed.state = "probed"
  BY DEF Probed
<1>5. ProbeTypeOK'
  <2>1. Len(image'.segments) \in 0..MaxSegments + 1
    <3>1. image'.segments = Append(image.segments, e) /\ image.segments \in Seq(Contents(image.format))
      BY <1>2, NoticedFile
    <3>2. Len(image.segments) <= MaxSegments
      BY <1>2 DEF ProbeInvariant
    <3> QED
      BY <3>1, <3>2, ProbeAssumption
  <2> QED
    BY <1>2, <1>4, <2>1, Verdicts DEF ProbeInvariant, ProbeTypeOK
<1>6. ProbeIsExact'
  BY <1>2, <1>3, <1>4, Verdicts DEF ProbeIsExact
<1> QED
  BY <1>2, <1>4, <1>5, <1>6, Verdicts DEF ProbeInvariant

\* The invariant is kept by every step of the probe.
LEMMA ProbeStep ==
  ASSUME ProbeInvariant, [ProbeNext]_probeVars
  PROVE  ProbeInvariant'
<1>1. CASE UNCHANGED probeVars
  <2>1. image' = image /\ scan' = scan /\ verdict' = verdict
    BY <1>1 DEF probeVars
  <2>2. ASSUME NEW K PROVE Places(K)' = Places(K)
    BY <2>1 DEF Places
  <2>3. ASSUME NEW i, NEW K PROVE Before(i, K)' <=> Before(i, K)
    BY <2>2 DEF Before
  <2>4. ASSUME NEW kind PROVE LastPlace(kind)' = LastPlace(kind)
    BY <2>2, Zenon DEF LastPlace
  <2>5. ASSUME NEW kind, NEW otherwise PROVE LastOf(kind, otherwise)' = LastOf(kind, otherwise)
    BY <2>1, <2>2, <2>4 DEF LastOf
  <2>6. Orderly' <=> Orderly
    BY <2>1, <2>2, <2>3 DEF Orderly
  <2>7. LastOf("SOF", image)' = LastOf("SOF", image) /\ LastOf("acTL", image)' = LastOf("acTL", image)
    BY <2>1, <2>2, <2>4 DEF LastOf
  <2>8. Noticed' <=> Noticed
    BY <2>1, <2>2, <2>5, <2>7 DEF Noticed
  <2>9. Stated' = Stated
    BY <2>1, <2>2, <2>5, <2>7 DEF Stated
  <2>10. (AtEnd' <=> AtEnd) /\ (Complete' <=> Complete)
    BY <2>1, <2>2, <2>9 DEF AtEnd, Complete
  <2> QED
    BY <2>1, <2>6, <2>8, <2>9, <2>10 DEF ProbeInvariant, ProbeTypeOK, ProbeIsExact
<1>2. ASSUME NEW format \in Formats, NEW canvas \in Canvases, NEW animated \in BOOLEAN,
             StartProbe(format, canvas, animated)
      PROVE  ProbeInvariant'
  BY <1>2, ProbeStarts
<1>3. ASSUME NEW s \in Contents(image.format), ScanSegment(s)
      PROVE  ProbeInvariant'
  BY <1>3, ProbeScans
<1>4. ASSUME NEW terminated \in BOOLEAN, NEW clean \in BOOLEAN, EndFile(terminated, clean)
      PROVE  ProbeInvariant'
  BY <1>4, ProbeEnds
<1> QED
  BY <1>1, <1>2, <1>3, <1>4 DEF ProbeNext

\* The invariant holds of every behaviour of the probe, and says what ImagesAgree says of it.
LEMMA ProbePromises == ProbeInvariant => ProbeIsExact
BY DEF ProbeInvariant

----------------------------------------------------------------------------
\* ImageRendition: what an honest helper makes, and what the broker takes for it.

\* The remainder of a division.
LEMMA Quotients ==
  ASSUME NEW a \in Nat, NEW b \in Nat \ {0}
  PROVE  a \div b \in Nat /\ (a \div b) * b <= a /\ a < (a \div b) * b + b
OBVIOUS

\* Products grow with their factors.
LEMMA Products ==
  ASSUME NEW a \in Nat, NEW b \in Nat, NEW c \in Nat, a <= b
  PROVE  a * c <= b * c /\ a * c \in Nat /\ b * c \in Nat
OBVIOUS

\* A product that is less than that of the next number: no larger factor.
LEMMA Factors ==
  ASSUME NEW a \in Nat, NEW b \in Nat, NEW c \in Nat, a * c < b * c + c
  PROVE  a <= b
<1>1. CASE a >= b + 1
  <2>1. (b + 1) * c <= a * c
    BY <1>1, Products
  <2>2. (b + 1) * c = b * c + c
    OBVIOUS
  <2>3. PICK x \in Nat, y \in Nat : x = a * c /\ y = b * c
    OBVIOUS
  <2> QED
    BY <2>1, <2>2, <2>3
<1> QED
  BY <1>1

\* The shorter side of a picture whose longer one is cut to the edge.
LEMMA ScaledSides ==
  ASSUME NEW short \in Nat \ {0}, NEW long \in Nat \ {0}, NEW edge \in Nat \ {0},
         short <= long, edge < long
  PROVE  LET cut == Scaled(short, long, edge) IN
           /\ cut \in 1..short /\ cut <= edge
           /\ 2 * (short * edge - cut * long) <= long
           /\ cut > 1 => 0 - 2 * (short * edge - cut * long) <= long
<1>1. PICK h \in Nat : h = long \div 2 /\ 2 * h <= long /\ long <= 2 * h + 1
  OBVIOUS
<1>2. PICK p \in Nat : p = short * edge
  OBVIOUS
<1>3. PICK q \in Nat : q = (p + h) \div long /\ q * long <= p + h /\ p + h < q * long + long
  BY Quotients, <1>1
<1>4. PICK r \in Nat : r = q * long
  BY <1>3
<1>5. Scaled(short, long, edge) = IF q = 0 THEN 1 ELSE q
  BY <1>1, <1>2, <1>3 DEF Scaled
<1>6. q <= edge
  <2>1. p <= long * edge
    BY <1>2, Products
  <2>2. PICK x \in Nat : x = long * edge /\ x = edge * long
    OBVIOUS
  <2>3. q * long < edge * long + long
    BY <1>1, <1>3, <1>4, <2>1, <2>2
  <2> QED
    BY <2>3, Factors
<1>7. q <= short
  <2>1. edge * short <= long * short
    BY Products
  <2>2. PICK x \in Nat : x = short * long /\ x = long * short
    OBVIOUS
  <2>3. p = edge * short
    BY <1>2
  <2>4. q * long < short * long + long
    BY <1>1, <1>3, <1>4, <2>1, <2>2, <2>3
  <2> QED
    BY <2>4, Factors
<1>8. CASE q = 0
  <2>1. p + h < long
    BY <1>3, <1>4, <1>8
  <2> QED
    BY <1>1, <1>2, <1>5, <1>8, <2>1
<1>9. CASE q # 0
  <2>1. Scaled(short, long, edge) = q
    BY <1>5, <1>9
  <2>2. 2 * (p - r) <= long /\ 0 - 2 * (p - r) <= long
    BY <1>1, <1>3, <1>4
  <2> QED
    BY <1>2, <1>4, <1>6, <1>7, <1>9, <2>1, <2>2
<1> QED
  BY <1>8, <1>9

\* Every rendition that is asked for has a size that fits the edge and is not enlarged.
LEMMA Dimensions ==
  ASSUME NEW width \in Nat \ {0}, NEW height \in Nat \ {0}, NEW edge \in Nat \ {0}
  PROVE  LET size == RenditionDimensions(width, height, edge)
             long == IF width >= height THEN width ELSE height
             short == IF width >= height THEN height ELSE width
             longer == IF width >= height THEN size[1] ELSE size[2]
             shorter == IF width >= height THEN size[2] ELSE size[1]
         IN /\ size = <<size[1], size[2]>>
            /\ size[1] \in 1..width /\ size[2] \in 1..height
            /\ size[1] <= edge /\ size[2] <= edge
            /\ long <= edge => size = <<width, height>>
            /\ long > edge => longer = edge
            /\ 2 * (short * longer - shorter * long) <= long
            /\ shorter > 1 => 0 - 2 * (short * longer - shorter * long) <= long
<1>1. CASE width <= edge /\ height <= edge
  <2>1. RenditionDimensions(width, height, edge) = <<width, height>>
    BY <1>1 DEF RenditionDimensions
  <2>2. width * height - height * width = 0 /\ height * width - width * height = 0
    OBVIOUS
  <2> QED
    BY <1>1, <2>1, <2>2
<1>2. CASE ~(width <= edge /\ height <= edge) /\ width >= height
  <2>1. PICK cut : cut = Scaled(height, width, edge)
    OBVIOUS
  <2>2. RenditionDimensions(width, height, edge) = <<edge, cut>>
    BY <1>2, <2>1 DEF RenditionDimensions
  <2>3. edge < width
    BY <1>2
  <2>4. /\ cut \in 1..height /\ cut <= edge
        /\ 2 * (height * edge - cut * width) <= width
        /\ cut > 1 => 0 - 2 * (height * edge - cut * width) <= width
    BY <1>2, <2>1, <2>3, ScaledSides
  <2> QED
    BY <1>2, <2>2, <2>3, <2>4
<1>3. CASE ~(width <= edge /\ height <= edge) /\ ~(width >= height)
  <2>1. PICK cut : cut = Scaled(width, height, edge)
    OBVIOUS
  <2>2. RenditionDimensions(width, height, edge) = <<cut, edge>>
    BY <1>3, <2>1 DEF RenditionDimensions
  <2>3. edge < height /\ width <= height
    BY <1>3
  <2>4. /\ cut \in 1..width /\ cut <= edge
        /\ 2 * (width * edge - cut * height) <= height
        /\ cut > 1 => 0 - 2 * (width * edge - cut * height) <= height
    BY <1>3, <2>1, <2>3, ScaledSides
  <2> QED
    BY <1>3, <2>2, <2>3, <2>4
<1> QED
  BY <1>1, <1>2, <1>3


\* An image has sides, and no delay, or one or two.
LEMMA SourceKinds ==
  ASSUME NEW s \in Sources
  PROVE  /\ s.width \in Nat \ {0} /\ s.height \in Nat \ {0}
         /\ s.orientation \in {"Normal", "Rotate90"}
         /\ s.delays \in Seq(Nat) /\ Len(s.delays) \in 0..2 /\ FramesOf(s) \in 1..2
         /\ s.delays # <<>> <=> Len(s.delays) > 0
         /\ FramesOf(s) = IF Len(s.delays) = 0 THEN 1 ELSE Len(s.delays)
<1>1. s.width \in Sides /\ s.height \in Sides /\ s.orientation \in {"Normal", "Rotate90"}
  BY DEF Sources
<1>2. s.delays \in {<<>>} \cup Animations
  BY DEF Sources
<1>3. ASSUME NEW d \in AnimationDelays PROVE <<d>> \in Seq(Nat) /\ Len(<<d>>) = 1
  BY RenditionAssumption
<1>4. ASSUME NEW t \in AnimationDelays \X AnimationDelays PROVE t \in Seq(Nat) /\ Len(t) = 2
  <2>1. PICK d, e \in Nat : t = <<d, e>>
    <3>1. AnimationDelays \subseteq Nat
      BY RenditionAssumption
    <3>2. t[1] \in AnimationDelays /\ t[2] \in AnimationDelays /\ t = <<t[1], t[2]>>
      OBVIOUS
    <3> QED
      BY <3>1, <3>2
  <2>2. <<d, e>> \in Seq(Nat) /\ Len(<<d, e>>) = 2
    OBVIOUS
  <2> QED
    BY <2>1, <2>2
<1>5. s.delays \in Seq(Nat) /\ Len(s.delays) \in 0..2
  <2>1. <<>> \in Seq(Nat) /\ Len(<<>>) = 0
    OBVIOUS
  <2>2. CASE s.delays = <<>>
    BY <2>1, <2>2
  <2>3. CASE \E d \in AnimationDelays : s.delays = <<d>>
    BY <1>3, <2>3
  <2>4. CASE s.delays \in AnimationDelays \X AnimationDelays
    BY <1>4, <2>4
  <2> QED
    BY <1>2, <2>2, <2>3, <2>4 DEF Animations
<1>6. s.delays # <<>> <=> Len(s.delays) > 0
  BY <1>5
<1>7. s.width \in Nat \ {0} /\ s.height \in Nat \ {0}
  BY <1>1, RenditionAssumption
<1>8. FramesOf(s) \in 1..2 /\ FramesOf(s) = IF Len(s.delays) = 0 THEN 1 ELSE Len(s.delays)
  <2>1. PICK n \in 0..2 : n = Len(s.delays)
    BY <1>5
  <2>2. FramesOf(s) = IF n = 0 THEN 1 ELSE n
    BY <1>6, <2>1 DEF FramesOf
  <2> QED
    BY <2>1, <2>2
<1> QED
  BY <1>1, <1>5, <1>6, <1>7, <1>8

\* The sides of the turned picture are those of the picture.
LEMMA OrientedSides ==
  ASSUME NEW s, s.width \in Nat \ {0}, s.height \in Nat \ {0}
  PROVE  Oriented(s) = <<Oriented(s)[1], Oriented(s)[2]>>
         /\ Oriented(s)[1] \in Nat \ {0} /\ Oriented(s)[2] \in Nat \ {0}
BY DEF Oriented

\* The number of frames that follow the first one.
Following(a) == IF a.purpose = "Viewer" /\ Len(a.source.delays) = 2 THEN 1 ELSE 0

\* What an honest helper says of the image, the frames and the spans.
HonestSays(a, r, png) ==
  /\ DOMAIN r = AnswerFields /\ r.done = TRUE
  /\ r.width = a.source.width /\ r.height = a.source.height
  /\ r.frames = FramesOf(a.source) /\ r.orientation = a.source.orientation
  /\ r.animated = (a.source.delays # <<>>) /\ r.purpose = a.purpose /\ r.edge = a.edge
  /\ <<r.outWidth, r.outHeight>> =
       RenditionDimensions(Oriented(a.source)[1], Oriented(a.source)[2], a.edge)
  /\ r.outWidth \in Nat \ {0} /\ r.outHeight \in Nat \ {0}
  /\ r.picture = <<r.outWidth, r.outHeight>>
  /\ r.png = png /\ r.rgba = 4 * r.outWidth * r.outHeight /\ r.rgba \in Nat
  /\ r.outFrames = Following(a) + 1
  /\ r.additional = Following(a) * (r.rgba + 4) /\ r.additional \in Nat
  /\ r.total = r.png + r.rgba + r.additional /\ r.total \in Nat
  /\ r.firstDelay \in Nat /\ r.nextDelay \in Nat

\* The delays that an honest helper may state.
DelaysInRange(a, r) ==
  /\ IF a.purpose = "Viewer" /\ a.source.delays # <<>>
     THEN r.firstDelay \in MinDelay..MaxDelay ELSE r.firstDelay = 0
  /\ Following(a) = 1 => r.nextDelay \in MinDelay..MaxDelay

\* An honest result says this, whatever the limits, and within them its delays are in range.
LEMMA HonestResult ==
  ASSUME NEW a, Asked(a), NEW png \in Nat \ {0}, NEW r,
         r = ResultOf(a.source, a.purpose, a.edge, png)
  PROVE  /\ HonestSays(a, r, png)
         /\ Produces(a.source, a.purpose, a.edge, png) => DelaysInRange(a, r)
<1> DEFINE s == a.source
           size == RenditionDimensions(Oriented(s)[1], Oriented(s)[2], a.edge)
           played == IF a.purpose = "Viewer" THEN s.delays ELSE <<>>
           more == IF Len(played) > 1 THEN Len(played) - 1 ELSE 0
<1>1. /\ s.width \in Nat \ {0} /\ s.height \in Nat \ {0} /\ s.delays \in Seq(Nat)
      /\ Len(s.delays) \in 0..2 /\ (s.delays # <<>> <=> Len(s.delays) > 0)
  BY SourceKinds DEF Asked
<1>2. size = <<size[1], size[2]>> /\ size[1] \in Nat \ {0} /\ size[2] \in Nat \ {0}
  <2>1. Oriented(s)[1] \in Nat \ {0} /\ Oriented(s)[2] \in Nat \ {0}
    BY <1>1, OrientedSides
  <2>2. PICK w \in Nat \ {0}, h \in Nat \ {0}, e \in Nat \ {0} :
          w = Oriented(s)[1] /\ h = Oriented(s)[2] /\ e = a.edge
    BY <2>1 DEF Asked
  <2>3. size = RenditionDimensions(w, h, e)
    BY <2>2
  <2> QED
    BY <2>3, Dimensions
<1>3. more = Following(a)
  <2>1. PICK n \in 0..2 : n = Len(s.delays)
    BY <1>1
  <2>2. Len(<<>>) = 0
    OBVIOUS
  <2>3. CASE a.purpose = "Viewer"
    <3>1. played = s.delays
      BY <2>3
    <3>2. Following(a) = IF n = 2 THEN 1 ELSE 0
      BY <2>1, <2>3 DEF Following
    <3>3. more = IF n > 1 THEN n - 1 ELSE 0
      BY <2>1, <3>1
    <3> QED
      BY <3>2, <3>3
  <2>4. CASE a.purpose # "Viewer"
    BY <2>2, <2>4 DEF Following
  <2> QED
    BY <2>3, <2>4
<1>4. PICK w \in Nat \ {0}, h \in Nat \ {0} : w = size[1] /\ h = size[2] /\ size = <<w, h>>
  BY <1>2
<1>5. PICK rgba \in Nat : rgba = 4 * w * h
  OBVIOUS
<1>6. PICK m \in 0..1 : m = more
  BY <1>3 DEF Following
<1>7. r = [done |-> TRUE,
           width |-> s.width, height |-> s.height, frames |-> FramesOf(s),
           orientation |-> s.orientation, animated |-> s.delays # <<>>,
           purpose |-> a.purpose, edge |-> a.edge, outWidth |-> w, outHeight |-> h,
           png |-> png, rgba |-> rgba, outFrames |-> m + 1,
           firstDelay |-> IF played = <<>> THEN 0 ELSE FrameDelay(played[1]),
           additional |-> m * (4 + rgba),
           nextDelay |-> IF m = 0 THEN 0 ELSE FrameDelay(played[2]),
           picture |-> <<w, h>>, total |-> png + rgba + m * (4 + rgba)]
  BY <1>4, <1>5, <1>6 DEF ResultOf
<1> HIDE DEF size, more
<1>8. played \in Seq(Nat) /\ (played # <<>> <=> Len(played) > 0) /\ (m = 1 => Len(played) = 2)
  BY <1>1, <1>3, <1>6 DEF Following
<1>9. \A d \in Nat : FrameDelay(d) \in Nat /\ FrameDelay(d) >= MinDelay
  BY RenditionAssumption DEF FrameDelay
<1>10. /\ \A i \in 1..Len(played) : played[i] \in Nat
       /\ Produces(a.source, a.purpose, a.edge, png) =>
            \A i \in 1..Len(played) : FrameDelay(played[i]) \in MinDelay..MaxDelay
  <2>1. CASE a.purpose = "Viewer"
    <3>1. \A i \in 1..Len(played) : played[i] \in Nat
      BY <1>1, <2>1
    <3>2. MinDelay \in Nat /\ MaxDelay \in Nat
      BY RenditionAssumption
    <3>3. ASSUME NEW i \in 1..Len(played), Produces(a.source, a.purpose, a.edge, png)
          PROVE FrameDelay(played[i]) \in MinDelay..MaxDelay
      <4>1. PICK d \in Nat : d = played[i]
        BY <3>1
      <4>2. FrameDelay(d) \in Nat /\ FrameDelay(d) >= MinDelay
        BY <1>9
      <4>3. FrameDelay(d) <= MaxDelay
        BY <1>1, <2>1, <3>3, <4>1 DEF Produces
      <4> QED
        BY <3>2, <4>1, <4>2, <4>3
    <3> QED
      BY <3>1, <3>3
  <2>2. CASE a.purpose # "Viewer"
    BY <2>2
  <2> QED
    BY <2>1, <2>2
<1>11. /\ r.firstDelay \in Nat /\ r.nextDelay \in Nat
       /\ Produces(a.source, a.purpose, a.edge, png) =>
            /\ IF played # <<>> THEN r.firstDelay \in MinDelay..MaxDelay ELSE r.firstDelay = 0
            /\ m = 1 => r.nextDelay \in MinDelay..MaxDelay
  <2> HIDE DEF played
  <2>1. /\ r.firstDelay = IF played = <<>> THEN 0 ELSE FrameDelay(played[1])
        /\ r.nextDelay = IF m = 0 THEN 0 ELSE FrameDelay(played[2])
    BY <1>7
  <2>2. played # <<>> => 1 \in 1..Len(played)
    BY <1>8
  <2>3. m = 1 => 2 \in 1..Len(played)
    <3>1. m = 1 => 1..Len(played) = 1..2
      BY <1>8
    <3> QED
      BY <3>1
  <2>4. FrameDelay(played[1]) \in Nat \/ played = <<>>
    BY <1>9, <1>10, <2>2
  <2>5. FrameDelay(played[2]) \in Nat \/ m = 0
    <3>1. CASE m = 1
      <4>1. played[2] \in Nat
        BY <1>10, <2>3, <3>1
      <4> QED
        BY <1>9, <4>1
    <3> QED
      BY <1>6, <3>1
  <2>6. r.firstDelay \in Nat /\ r.nextDelay \in Nat
    BY <2>1, <2>4, <2>5
  <2>7. ASSUME Produces(a.source, a.purpose, a.edge, png)
        PROVE  /\ played # <<>> => r.firstDelay \in MinDelay..MaxDelay
               /\ m = 1 => r.nextDelay \in MinDelay..MaxDelay
    BY <1>10, <2>1, <2>2, <2>3, <2>7
  <2> QED
    BY <2>1, <2>6, <2>7
<1>12. played # <<>> <=> a.purpose = "Viewer" /\ s.delays # <<>>
  OBVIOUS
<1>13. DOMAIN r = AnswerFields
  BY <1>7 DEF AnswerFields, Numeric
<1> HIDE DEF played
<1>14. /\ m * (4 + rgba) = m * (rgba + 4) /\ m * (rgba + 4) \in Nat
       /\ png + rgba + m * (4 + rgba) \in Nat
  BY <1>6
<1>15. HonestSays(a, r, png)
  BY <1>2, <1>3, <1>4, <1>5, <1>6, <1>7, <1>11, <1>13, <1>14 DEF size, HonestSays
<1>16. Produces(a.source, a.purpose, a.edge, png) => DelaysInRange(a, r)
  BY <1>3, <1>6, <1>11, <1>12 DEF DelaysInRange
<1> QED
  BY <1>15, <1>16

\* An answer that an honest helper could give has the fields of an answer.
LEMMA HonestIsAnswer ==
  ASSUME NEW a, Asked(a), NEW r, NEW png \in Nat \ {0}, HonestSays(a, r, png)
  PROVE  IsAnswer(r)
<1>1. /\ a.source.width \in Nat /\ a.source.height \in Nat /\ FramesOf(a.source) \in 1..2
      /\ a.edge \in Nat
  BY SourceKinds DEF Asked
<1>2. Following(a) + 1 \in Nat
  BY DEF Following
<1>3. r.width \in Nat /\ r.height \in Nat /\ r.frames \in Nat /\ r.edge \in Nat
  BY <1>1 DEF HonestSays
<1>4. /\ r.outWidth \in Nat /\ r.outHeight \in Nat /\ r.png \in Nat /\ r.rgba \in Nat
      /\ r.additional \in Nat /\ r.total \in Nat /\ r.firstDelay \in Nat /\ r.nextDelay \in Nat
  BY DEF HonestSays
<1>5. r.outFrames \in Nat
  BY <1>2 DEF HonestSays
<1>6. \A f \in Numeric : r[f] \in Nat
  BY <1>3, <1>4, <1>5 DEF Numeric
<1> QED
  BY <1>6 DEF HonestSays, IsAnswer

\* What was made is what an honest helper says.
LEMMA MadeIsHonest ==
  ASSUME RenditionInvariant, made # NoResult
  PROVE  /\ Asked(asked) /\ made.done = TRUE /\ DelaysInRange(asked, made)
         /\ made.total <= MaxResult[asked.purpose]
         /\ \E png \in Nat \ {0} : HonestSays(asked, made, png)
<1>1. PICK png \in PngLengths :
        /\ Produces(asked.source, asked.purpose, asked.edge, png)
        /\ made = ResultOf(asked.source, asked.purpose, asked.edge, png)
  BY DEF RenditionInvariant
<1>2. png \in Nat \ {0}
  BY RenditionAssumption
<1>3. Asked(asked)
  BY DEF RenditionInvariant
<1>4. HonestSays(asked, made, png) /\ DelaysInRange(asked, made)
  BY <1>1, <1>2, <1>3, HonestResult
<1>5. made.total <= MaxResult[asked.purpose]
  BY <1>1 DEF Produces
<1> QED
  BY <1>2, <1>3, <1>4, <1>5 DEF HonestSays

\* An altered answer is an answer.
LEMMA AlteredIsAnswer ==
  ASSUME NEW r, IsAnswer(r), NEW x \in Altered(r)
  PROVE  IsAnswer(x)
<1>1. ASSUME NEW f \in AnswerFields \ {"done"}, NEW v, f \in Numeric => v \in Nat,
             x = [r EXCEPT ![f] = v]
      PROVE  IsAnswer(x)
  <2>1. DOMAIN x = AnswerFields /\ "done" \in AnswerFields /\ Numeric \subseteq AnswerFields
    BY <1>1 DEF IsAnswer, AnswerFields
  <2>2. x.done = TRUE
    BY <1>1, <2>1 DEF IsAnswer
  <2>3. \A g \in Numeric : x[g] \in Nat
    BY <1>1, <2>1 DEF IsAnswer
  <2> QED
    BY <2>1, <2>2, <2>3 DEF IsAnswer
<1>2. CASE \E f \in Numeric, v \in Lies : x = [r EXCEPT ![f] = v]
  <2>1. Numeric \subseteq AnswerFields \ {"done"}
    BY DEF Numeric, AnswerFields
  <2>2. Lies \subseteq Nat
    BY RenditionAssumption
  <2> QED
    BY <1>1, <1>2, <2>1, <2>2
<1>3. CASE \E v \in Purposes : x = [r EXCEPT !.purpose = v]
  BY <1>1, <1>3 DEF AnswerFields, Numeric
<1>4. CASE \E v \in {"Normal", "Rotate90"} : x = [r EXCEPT !.orientation = v]
  BY <1>1, <1>4 DEF AnswerFields, Numeric
<1>5. CASE \E v \in BOOLEAN : x = [r EXCEPT !.animated = v]
  BY <1>1, <1>5 DEF AnswerFields, Numeric
<1>6. CASE \E w \in Lies, h \in Lies : x = [r EXCEPT !.picture = <<w, h>>]
  BY <1>1, <1>6 DEF AnswerFields, Numeric
<1> QED
  BY <1>2, <1>3, <1>4, <1>5, <1>6 DEF Altered

\* An answer whose total was added up again is an answer.
LEMMA TotalledIsAnswer ==
  ASSUME NEW r, IsAnswer(r)
  PROVE  IsAnswer(Totalled(r))
<1>1. r.png \in Nat /\ r.rgba \in Nat /\ r.additional \in Nat
  BY DEF IsAnswer, Numeric
<1>2. PICK v \in Nat : v = r.png + r.rgba + r.additional
  BY <1>1
<1>3. Totalled(r) = [r EXCEPT !.total = v]
  BY <1>2 DEF Totalled
<1>4. DOMAIN Totalled(r) = AnswerFields /\ "done" \in AnswerFields /\ Numeric \subseteq AnswerFields
  BY <1>3 DEF IsAnswer, AnswerFields
<1> QED
  BY <1>3, <1>4 DEF IsAnswer

\* So is one all of whose lengths were counted again.
LEMMA RecountedIsAnswer ==
  ASSUME NEW r, IsAnswer(r)
  PROVE  IsAnswer(Recounted(r))
<1>1. PICK w \in Nat, h \in Nat, n \in Nat : w = r.outWidth /\ h = r.outHeight /\ n = r.outFrames
  BY DEF IsAnswer, Numeric
<1>2. PICK rgba \in Nat : rgba = 4 * w * h
  OBVIOUS
<1>3. PICK more \in Nat : more = IF n = 0 THEN 0 ELSE n - 1
  BY <1>1
<1>4. PICK v \in Nat : v = more * (rgba + 4)
  OBVIOUS
<1>5. PICK x : x = [r EXCEPT !.rgba = rgba, !.additional = v]
  OBVIOUS
<1>6. Recounted(r) = Totalled(x)
  BY <1>1, <1>2, <1>3, <1>4, <1>5 DEF Recounted
<1>7. DOMAIN x = AnswerFields /\ "done" \in AnswerFields /\ Numeric \subseteq AnswerFields
  BY <1>5 DEF IsAnswer, AnswerFields
<1>8. \A g \in Numeric : x[g] \in Nat
  BY <1>5, <1>7 DEF IsAnswer
<1>9. x.done = TRUE
  BY <1>5, <1>7 DEF IsAnswer
<1> QED
  BY <1>6, <1>7, <1>8, <1>9, TotalledIsAnswer DEF IsAnswer

\* What is forged of an answer is an answer.
LEMMA ForgedIsAnswer ==
  ASSUME NEW r, IsAnswer(r), NEW x \in Forged(r)
  PROVE  IsAnswer(x)
<1>1. PICK y \in Altered(r) : x \in {y, Totalled(y), Recounted(y)}
  BY DEF Forged
<1>2. IsAnswer(y)
  BY AlteredIsAnswer
<1> QED
  BY <1>1, <1>2, TotalledIsAnswer, RecountedIsAnswer

\* Asking, making, forging and judging keep the invariant.
LEMMA RenditionStep ==
  ASSUME RenditionInvariant, [RenditionNext]_renditionVars
  PROVE  RenditionInvariant'
<1>1. ASSUME NEW s \in Sources, NEW purpose \in Purposes, NEW edge \in 1..MaxViewerEdge + 1,
             Ask(s, purpose, edge)
      PROVE  RenditionInvariant'
  <2>1. asked'.source = s /\ asked'.purpose = purpose /\ asked'.edge = edge
    BY <1>1 DEF Ask
  <2>2. Asked(asked)'
    BY <1>1, <2>1, RenditionAssumption DEF Ask, Asked
  <2>3. made = NoResult /\ delivered = NoResult /\ judged = NoResult
    BY <1>1 DEF Ask, RenditionInvariant
  <2> QED
    BY <1>1, <2>2, <2>3 DEF Ask, RenditionInvariant
<1>2. ASSUME NEW png \in PngLengths, Produce(png) PROVE RenditionInvariant'
  <2>1. /\ Produces(asked'.source, asked'.purpose, asked'.edge, png)
        /\ made' = ResultOf(asked'.source, asked'.purpose, asked'.edge, png)
        /\ asked' = asked /\ asked # NotAsked /\ delivered' = made' /\ judged' = judged
        /\ delivered = NoResult /\ lies' = lies
    BY <1>2 DEF Produce
  <2>2. PICK p \in Nat \ {0} : p = png
    BY RenditionAssumption
  <2>3. HonestSays(asked, made', p) /\ Asked(asked)
    <3>1. Asked(asked)
      BY <2>1 DEF RenditionInvariant
    <3> QED
      BY <2>1, <2>2, <3>1, HonestResult
  <2>4. IsAnswer(made')
    BY <2>3, HonestIsAnswer
  <2>5. judged' = NoResult
    BY <2>1 DEF RenditionInvariant
  <2>6. IsAnswer(delivered')
    BY <2>1, <2>4
  <2> QED
    BY <2>1, <2>5, <2>6 DEF RenditionInvariant
<1>3. ASSUME NEW png \in PngLengths, Forge(png) PROVE RenditionInvariant'
  <2>1. /\ asked # NotAsked /\ judged = NoResult /\ lies < MaxLies /\ lies' = lies + 1
        /\ asked' = asked /\ made' = made /\ judged' = judged
    BY <1>3 DEF Forge
  <2>2. PICK r : /\ IsAnswer(r) /\ delivered' \in Forged(r)
    <3>1. CASE delivered # NoResult
      BY <1>3, <3>1 DEF Forge, RenditionInvariant
    <3>2. CASE delivered = NoResult
      <4>1. PICK p \in Nat \ {0} : p = png
        BY RenditionAssumption
      <4>2. PICK r : r = ResultOf(asked.source, asked.purpose, asked.edge, p)
        OBVIOUS
      <4>3. Asked(asked)
        BY <2>1 DEF RenditionInvariant
      <4>4. IsAnswer(r)
        BY <4>1, <4>2, <4>3, HonestResult, HonestIsAnswer
      <4> QED
        BY <1>3, <3>2, <4>1, <4>2, <4>4 DEF Forge
    <3> QED
      BY <3>1, <3>2
  <2>3. IsAnswer(delivered')
    BY <2>2, ForgedIsAnswer
  <2>4. lies' \in 0..MaxLies
    BY <2>1, RenditionAssumption DEF RenditionInvariant
  <2> QED
    BY <2>1, <2>3, <2>4 DEF RenditionInvariant
<1>4. CASE Judge
  <2>1. judged'.accepted = Accepts(delivered)'
    <3>1. Accepts(delivered)' = Accepts(delivered)
      BY <1>4 DEF Judge, Accepts, SameSource, DimensionsFit
    <3>2. judged'.accepted = Accepts(delivered)
      BY <1>4 DEF Judge
    <3> QED
      BY <3>1, <3>2
  <2> QED
    BY <1>4, <2>1 DEF Judge, RenditionInvariant
<1>5. CASE UNCHANGED renditionVars
  BY <1>5 DEF renditionVars, RenditionInvariant, Accepts, SameSource, DimensionsFit
<1> QED
  BY <1>1, <1>2, <1>3, <1>4, <1>5 DEF RenditionNext


\* The broker takes what an honest helper says.
LEMMA HonestAccepted ==
  ASSUME RenditionInvariant, made # NoResult
  PROVE  Accepts(made)
<1> DEFINE a == asked
<1>1. Asked(a) /\ made.done = TRUE
  BY MadeIsHonest
<1>2. PICK png \in Nat \ {0} : HonestSays(a, made, png)
  BY MadeIsHonest
<1>3. /\ made.width = a.source.width /\ made.height = a.source.height
      /\ made.frames = FramesOf(a.source) /\ made.orientation = a.source.orientation
      /\ made.animated = (a.source.delays # <<>>) /\ made.purpose = a.purpose
      /\ made.edge = a.edge
      /\ <<made.outWidth, made.outHeight>> =
           RenditionDimensions(Oriented(a.source)[1], Oriented(a.source)[2], a.edge)
      /\ made.outWidth \in Nat \ {0} /\ made.outHeight \in Nat \ {0}
  BY <1>2 DEF HonestSays
<1>4. /\ made.png = png /\ made.rgba = 4 * made.outWidth * made.outHeight /\ made.rgba \in Nat
      /\ made.outFrames = Following(a) + 1
      /\ made.additional = Following(a) * (made.rgba + 4) /\ made.additional \in Nat
      /\ made.total = made.png + made.rgba + made.additional
  BY <1>2 DEF HonestSays
<1>5. /\ IF a.purpose = "Viewer" /\ a.source.delays # <<>>
         THEN made.firstDelay \in MinDelay..MaxDelay ELSE made.firstDelay = 0
      /\ Following(a) = 1 => made.nextDelay \in MinDelay..MaxDelay
  BY MadeIsHonest DEF DelaysInRange
<1>6. /\ a.source.width \in Nat \ {0} /\ a.source.height \in Nat \ {0}
      /\ Len(a.source.delays) \in 0..2 /\ FramesOf(a.source) \in 1..2
      /\ a.source.delays # <<>> <=> Len(a.source.delays) > 0
      /\ FramesOf(a.source) = IF Len(a.source.delays) = 0 THEN 1 ELSE Len(a.source.delays)
  BY <1>1, SourceKinds DEF Asked
<1>7. PICK n \in 0..1 : n = Following(a) /\ made.outFrames = n + 1
  BY <1>4 DEF Following
<1>8. FrameCardinality(made)
  <2>1. CASE a.purpose = "Thumbnail"
    BY <1>3, <1>4, <2>1 DEF Following, FrameCardinality
  <2>2. CASE a.purpose = "Viewer"
    <3>1. PICK k \in 0..2 : k = Len(a.source.delays)
      BY <1>6
    <3>2. n = (IF k = 2 THEN 1 ELSE 0) /\ made.frames = IF k = 0 THEN 1 ELSE k
      BY <1>3, <1>6, <1>7, <2>2, <3>1 DEF Following
    <3> QED
      BY <1>3, <1>7, <2>2, <3>2 DEF FrameCardinality
  <2> QED
    BY <1>1, <2>1, <2>2 DEF Asked, Purposes
<1>9. made.outFrames \in 1..made.frames
  BY <1>3, <1>6, <1>7, <1>8 DEF FrameCardinality
<1>10. made.additional = (made.outFrames - 1) * (made.rgba + 4)
  BY <1>4, <1>7
<1>11. HeaderDecodes(made)
  <2>1. EdgeAllowed(made.purpose, made.edge)
    BY <1>1, <1>3 DEF Asked
  <2>2. /\ made.width > 0 /\ made.height > 0 /\ made.frames > 0 /\ made.png > 0
        /\ made.outWidth > 0 /\ made.outHeight > 0
    <3>1. made.width \in Nat \ {0} /\ made.height \in Nat \ {0} /\ made.frames \in 1..2
      BY <1>3, <1>6
    <3>2. made.outWidth \in Nat \ {0} /\ made.outHeight \in Nat \ {0} /\ made.png \in Nat \ {0}
      BY <1>2, <1>3, <1>4
    <3> QED
      BY <3>1, <3>2
  <2>3. IF made.purpose = "Viewer" /\ made.animated THEN made.firstDelay \in MinDelay..MaxDelay
                                                    ELSE made.firstDelay = 0
    BY <1>3, <1>5
  <2> QED
    BY <1>4, <1>9, <1>10, <2>1, <2>2, <2>3 DEF HeaderDecodes
<1>12. DimensionsFit(made)
  <2>1. Oriented([width |-> made.width, height |-> made.height, orientation |-> made.orientation])
          = Oriented(a.source)
    BY <1>3 DEF Oriented
  <2> QED
    BY <1>3, <2>1 DEF DimensionsFit
<1>13. made.outFrames > 1 => made.nextDelay \in MinDelay..MaxDelay
  BY <1>5, <1>7
<1>14. SameSource(made)
  BY <1>3 DEF SameSource
<1>15. made.total <= MaxResult[a.purpose] /\ made.picture = <<made.outWidth, made.outHeight>>
  BY <1>2, MadeIsHonest DEF HonestSays
<1> QED
  BY <1>3, <1>4, <1>8, <1>11, <1>12, <1>13, <1>14, <1>15 DEF Accepts

\* Two frames are asked for only of an animation for the viewer.
LEMMA FollowingKinds ==
  ASSUME NEW a, Asked(a)
  PROVE  /\ Following(a) \in 0..1
         /\ Following(a) + 1 = IF a.purpose = "Thumbnail" THEN 1 ELSE FramesOf(a.source)
<1>1. PICK k \in 0..2 : k = Len(a.source.delays) /\ FramesOf(a.source) = IF k = 0 THEN 1 ELSE k
  BY SourceKinds DEF Asked
<1>2. CASE a.purpose = "Thumbnail"
  BY <1>2 DEF Following
<1>3. CASE a.purpose = "Viewer"
  <2>1. Following(a) = IF k = 2 THEN 1 ELSE 0
    BY <1>1, <1>3 DEF Following
  <2>2. (IF k = 2 THEN 1 ELSE 0) + 1 = IF k = 0 THEN 1 ELSE k
    <3>1. k = 0 \/ k = 1 \/ k = 2
      OBVIOUS
    <3> QED
      BY <3>1
  <2>3. a.purpose # "Thumbnail"
    BY <1>3
  <2> QED
    BY <1>1, <2>1, <2>2, <2>3
<1> QED
  BY <1>2, <1>3 DEF Asked, Purposes

\* What the broker takes is, but for the delays, what an honest helper says of this image
\* and request with a PNG of that length.
LEMMA AcceptedSays ==
  ASSUME NEW d, IsAnswer(d), Asked(asked), Accepts(d), NEW h,
         h = ResultOf(asked.source, asked.purpose, asked.edge, d.png)
  PROVE  \A f \in AnswerFields \ {"firstDelay", "nextDelay"} : d[f] = h[f]
<1>1. PICK png \in Nat \ {0} : png = d.png
  <2>1. d.png \in Nat /\ d.png > 0
    BY DEF IsAnswer, Numeric, Accepts, HeaderDecodes
  <2> QED
    BY <2>1
<1>2. HonestSays(asked, h, png)
  BY <1>1, HonestResult
<1>3. /\ h.width = asked.source.width /\ h.height = asked.source.height
      /\ h.frames = FramesOf(asked.source) /\ h.orientation = asked.source.orientation
      /\ h.animated = (asked.source.delays # <<>>) /\ h.purpose = asked.purpose
      /\ h.edge = asked.edge /\ h.done = TRUE /\ h.png = png
      /\ <<h.outWidth, h.outHeight>> =
           RenditionDimensions(Oriented(asked.source)[1], Oriented(asked.source)[2], asked.edge)
      /\ h.picture = <<h.outWidth, h.outHeight>>
  BY <1>2 DEF HonestSays
<1>4. /\ h.rgba = 4 * h.outWidth * h.outHeight /\ h.outFrames = Following(asked) + 1
      /\ h.additional = Following(asked) * (h.rgba + 4)
      /\ h.total = h.png + h.rgba + h.additional
  BY <1>2 DEF HonestSays
<1>5. /\ d.width = h.width /\ d.height = h.height /\ d.frames = h.frames
      /\ d.orientation = h.orientation /\ d.animated = h.animated
      /\ d.purpose = h.purpose /\ d.edge = h.edge /\ d.done = h.done /\ d.png = h.png
  BY <1>1, <1>3 DEF Accepts, SameSource, IsAnswer
<1>6. d.outWidth = h.outWidth /\ d.outHeight = h.outHeight /\ d.picture = h.picture
  <2>1. Oriented([width |-> d.width, height |-> d.height, orientation |-> d.orientation])
          = Oriented(asked.source)
    BY <1>3, <1>5 DEF Oriented
  <2>2. <<d.outWidth, d.outHeight>> = <<h.outWidth, h.outHeight>>
    BY <1>3, <2>1 DEF Accepts, DimensionsFit
  <2>3. d.picture = <<d.outWidth, d.outHeight>>
    BY DEF Accepts
  <2> QED
    BY <1>3, <2>2, <2>3
<1>7. d.outFrames = h.outFrames
  <2>1. d.outFrames = IF asked.purpose = "Thumbnail" THEN 1 ELSE FramesOf(asked.source)
    BY <1>3, <1>5 DEF Accepts, FrameCardinality
  <2> QED
    BY <1>4, <2>1, FollowingKinds
<1>8. d.rgba = h.rgba /\ d.additional = h.additional
  <2>1. d.rgba = 4 * d.outWidth * d.outHeight /\ d.additional = (d.outFrames - 1) * (d.rgba + 4)
    BY DEF Accepts, HeaderDecodes
  <2>2. d.rgba = h.rgba
    BY <1>4, <1>6, <2>1
  <2>3. d.outFrames - 1 = Following(asked)
    BY <1>4, <1>7, FollowingKinds
  <2> QED
    BY <1>4, <2>1, <2>2, <2>3
<1>9. d.total = h.total
  <2>1. d.total = d.png + d.rgba + d.additional
    BY DEF Accepts
  <2> QED
    BY <1>4, <1>5, <1>8, <2>1
<1> QED
  BY <1>5, <1>6, <1>7, <1>8, <1>9 DEF AnswerFields, Numeric

\* The size of what was made fits what was asked for.
LEMMA MadeFits ==
  ASSUME RenditionInvariant
  PROVE  RenditionFits
<1>1. SUFFICES ASSUME made # NoResult
               PROVE  RenditionFits
  BY DEF RenditionFits
<1>2. PICK w \in Nat \ {0}, h \in Nat \ {0}, e \in Nat \ {0} :
        Oriented(asked.source) = <<w, h>> /\ e = asked.edge
  <2>1. Asked(asked)
    BY <1>1, MadeIsHonest
  <2> QED
    BY <2>1, SourceKinds, OrientedSides DEF Asked
<1>3. PICK x \in Nat, y \in Nat :
        x = made.outWidth /\ y = made.outHeight /\ <<x, y>> = RenditionDimensions(w, h, e)
  <2>1. /\ made.outWidth \in Nat /\ made.outHeight \in Nat
        /\ <<made.outWidth, made.outHeight>> =
             RenditionDimensions(Oriented(asked.source)[1], Oriented(asked.source)[2], asked.edge)
    BY <1>1, MadeIsHonest DEF HonestSays
  <2>2. Oriented(asked.source)[1] = w /\ Oriented(asked.source)[2] = h
    BY <1>2
  <2> QED
    BY <1>2, <2>1, <2>2
<1>4. /\ x \in 1..w /\ y \in 1..h /\ x <= e /\ y <= e
      /\ (IF w >= h THEN w ELSE h) <= e => x = w /\ y = h
      /\ (IF w >= h THEN w ELSE h) > e => (IF w >= h THEN x ELSE y) = e
  BY <1>3, Dimensions
<1>5. CASE w >= h
  <2>1. 2 * (h * x - y * w) <= w /\ (y > 1 => 0 - 2 * (h * x - y * w) <= w)
    BY <1>3, <1>5, Dimensions
  <2> QED
    BY <1>2, <1>3, <1>4, <1>5, <2>1 DEF RenditionFits
<1>6. CASE ~(w >= h)
  <2>1. 2 * (w * y - x * h) <= h /\ (x > 1 => 0 - 2 * (w * y - x * h) <= h)
    BY <1>3, <1>6, Dimensions
  <2> QED
    BY <1>2, <1>3, <1>4, <1>6, <2>1 DEF RenditionFits
<1> QED
  BY <1>5, <1>6

\* The invariant holds at first.
LEMMA RenditionBegins ==
  ASSUME RenditionInit
  PROVE  RenditionInvariant
<1>1. 0 \in 0..MaxLies
  BY RenditionAssumption
<1> QED
  BY <1>1 DEF RenditionInit, RenditionInvariant

\* What the invariant promises: what is accepted is honest, and what is made fits.
LEMMA RenditionPromises ==
  ASSUME RenditionInvariant
  PROVE  AcceptedIsHonest /\ RenditionFits
<1>1. SUFFICES ASSUME judged # NoResult PROVE AcceptedIsHonest
  BY MadeFits DEF AcceptedIsHonest
<1>2. delivered # NoResult /\ judged.accepted = Accepts(delivered)
  BY <1>1 DEF RenditionInvariant
<1>3. Asked(asked) /\ IsAnswer(delivered)
  BY <1>2 DEF RenditionInvariant
<1>4. delivered = made => judged.accepted
  BY <1>2, HonestAccepted
<1>5. PICK h : h = ResultOf(asked.source, asked.purpose, asked.edge, delivered.png)
  OBVIOUS
<1>6. ASSUME judged.accepted
      PROVE  /\ \A f \in AnswerFields \ {"firstDelay", "nextDelay"} : delivered[f] = h[f]
             /\ delivered.total <= MaxResult[asked.purpose]
             /\ IF asked.purpose = "Viewer" /\ asked.source.delays # <<>>
                THEN delivered.firstDelay \in MinDelay..MaxDelay
                ELSE delivered.firstDelay = 0
             /\ delivered.outFrames > 1 => delivered.nextDelay \in MinDelay..MaxDelay
  <2>1. Accepts(delivered)
    BY <1>2, <1>6
  <2>2. \A f \in AnswerFields \ {"firstDelay", "nextDelay"} : delivered[f] = h[f]
    BY <1>3, <1>5, <2>1, AcceptedSays
  <2>3. /\ delivered.total <= MaxResult[asked.purpose]
        /\ delivered.outFrames > 1 => delivered.nextDelay \in MinDelay..MaxDelay
    BY <2>1 DEF Accepts
  <2>4. IF asked.purpose = "Viewer" /\ asked.source.delays # <<>>
        THEN delivered.firstDelay \in MinDelay..MaxDelay ELSE delivered.firstDelay = 0
    <3>1. delivered.purpose = asked.purpose
          /\ delivered.animated = (asked.source.delays # <<>>)
      BY <2>1 DEF Accepts, SameSource
    <3>2. IF delivered.purpose = "Viewer" /\ delivered.animated
          THEN delivered.firstDelay \in MinDelay..MaxDelay ELSE delivered.firstDelay = 0
      BY <2>1 DEF Accepts, HeaderDecodes
    <3> QED
      BY <3>1, <3>2
  <2> QED
    BY <2>2, <2>3, <2>4
<1> QED
  BY <1>4, <1>5, <1>6 DEF AcceptedIsHonest

\* Whatever file is probed and whatever answer comes for a rendition, however much of it
\* was forged: the probe accepts exactly the files that the formats define and reports
\* what they state; an answer that the broker takes is, but for the delays, that of an
\* honest helper with a PNG of that length; and a rendition fits (ImagesAgree).
THEOREM ImagesHold == PartsSpec => []ImagesAgree
<1> DEFINE Inv == ProbeInvariant /\ RenditionInvariant
<1>1. PartsInit => Inv
  BY ProbeBegins, RenditionBegins DEF PartsInit
<1>2. Inv /\ [PartsNext]_partVars => Inv'
  <2> SUFFICES ASSUME Inv, [PartsNext]_partVars PROVE Inv'
    OBVIOUS
  <2>1. ProbeInvariant'
    BY StepOfAPart, ProbeStep
  <2>2. RenditionInvariant'
    BY StepOfAPart, RenditionStep
  <2> QED
    BY <2>1, <2>2
<1>3. Inv => ImagesAgree
  BY ProbePromises, RenditionPromises DEF ImagesAgree
<1> QED
  BY <1>1, <1>2, <1>3, PTL DEF PartsSpec
=============================================================================
