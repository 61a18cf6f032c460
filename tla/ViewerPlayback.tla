---------------------------- MODULE ViewerPlayback ----------------------------
(***************************************************************************)
(* The viewer of the gallery page (crates/osv-app/src/ui.rs) and its state  *)
(* (ViewerState of crates/osv-media/src/lib.rs): originals that open when   *)
(* their answers arrive, the animation timer, the buttons, a picture that   *)
(* an import puts there, and both lock paths.                               *)
(*                                                                         *)
(* Zoom, pan and rotation are one transform; frames and delays are counted.  *)
(***************************************************************************)
EXTENDS Naturals

CONSTANTS
  FrameCount,     \* the images of the vault, with the frames of each
  Transforms,     \* a transform as the buttons may leave it
  Identity,       \* that of a new ViewerState
  MaxRequests,    \* bound: originals being opened at once
  MaxLocks        \* bound: times the vault is locked

Blackness == [shown |-> "nothing"]
Imported == [shown |-> "imported"]
Frame(m, n) == [shown |-> "viewed", image |-> m, number |-> n]

ASSUME PlaybackAssumption ==
  /\ \A m \in DOMAIN FrameCount : FrameCount[m] \in Nat \ {0}
  /\ Identity \in Transforms
  /\ MaxRequests \in Nat \ {0} /\ MaxLocks \in Nat

VARIABLES
  viewing,    \* generation of the session; even while the vault is locked
  opening,    \* originals under way
  registry,   \* the image whose frames the texture registry holds, and their number
  delays,     \* number of frame delays
  player,     \* ViewerState
  picture,    \* what the GtkPicture shows
  applied     \* the transform that GTK applies to it

playbackVars == <<viewing, opening, registry, delays, player, picture, applied>>

NewPlayer(count) ==
  [transform |-> Identity, playing |-> count > 1, frame |-> 0, frames |-> count]
NoFrames == [count |-> 0]
Unlocked == viewing % 2 = 1

PlaybackInit ==
  /\ viewing = 0 /\ opening = {}
  /\ registry = NoFrames /\ delays = 0
  /\ player = NewPlayer(1) /\ picture = Blackness /\ applied = Identity

----------------------------------------------------------------------------
\* Mutant: the frame number does not wrap around.
StepBeyond(p) == [p EXCEPT !.frame = @ + 1]

\* ViewerState: the frame number wraps around, and only a playing animation advances.
StepForward(p) == [p EXCEPT !.frame = (@ + 1) % p.frames]

Advance(p) == IF p.playing THEN StepForward(p) ELSE p
ToggleAnimation(p) == IF p.frames > 1 THEN [p EXCEPT !.playing = ~@] ELSE p

\* The picture shows the frame if the registry has it, and stays as it is otherwise.
Painted(p) == IF p.frame < registry.count THEN Frame(registry.image, p.frame) ELSE picture

----------------------------------------------------------------------------
UnlockViewer ==
  /\ ~Unlocked /\ viewing < 2 * MaxLocks
  /\ viewing' = viewing + 1
  /\ UNCHANGED <<opening, registry, delays, player, picture, applied>>

\* Pictures and playback objects are revoked, the transform is not.
LockViewer ==
  /\ Unlocked
  /\ viewing' = viewing + 1
  /\ registry' = NoFrames /\ delays' = 0
  /\ player' = NewPlayer(1) /\ picture' = Blackness
  /\ UNCHANGED <<opening, applied>>

OpenOriginal(m) ==
  /\ Unlocked
  /\ \E number \in 1..MaxRequests :
       /\ \A i \in opening : i.number # number
       /\ opening' = opening \cup {[number |-> number, generation |-> viewing, image |-> m]}
  /\ UNCHANGED <<viewing, registry, delays, player, picture, applied>>

\* Mutant: the state of the previous image is kept.
PlayerFor(count) == player

PlayerOf(count) == NewPlayer(count)

\* The whole answer takes effect in one callback.
OriginalArrives(i) ==
  /\ i \in opening /\ i.generation = viewing
  /\ LET count == FrameCount[i.image] IN
       /\ registry' = [image |-> i.image, count |-> count] /\ delays' = count
       /\ player' = PlayerOf(count)
       /\ picture' = Frame(i.image, 0)
  /\ applied' = Identity
  /\ opening' = opening \ {i}
  /\ UNCHANGED viewing

\* Errors, rejected dimensions or frame counts and answers to a session that is gone.
OriginalDropped(i) ==
  /\ i \in opening
  /\ opening' = opening \ {i}
  /\ UNCHANGED <<viewing, registry, delays, player, picture, applied>>

\* A finished import paints its thumbnail and leaves the playback alone.
ImportShown ==
  /\ Unlocked
  /\ picture' = Imported
  /\ UNCHANGED <<viewing, opening, registry, delays, player, applied>>

----------------------------------------------------------------------------
\* The timer, every 10 ms: an animation whose deadline has passed advances.
Tick ==
  /\ registry.count > 1 /\ player.playing
  /\ player' = Advance(player)
  /\ picture' = Painted(player')
  /\ UNCHANGED <<viewing, opening, registry, delays, applied>>

\* The two buttons are insensitive for a still image, but their keys click them all
\* the same.
ClickStep ==
  /\ player' = StepForward(player)
  /\ picture' = Painted(player')
  /\ UNCHANGED <<viewing, opening, registry, delays, applied>>

ClickPlay ==
  /\ player' = ToggleAnimation(player)
  /\ UNCHANGED <<viewing, opening, registry, delays, picture, applied>>

\* Zoom, rotate and the four pan buttons.
ClickTransform(t) ==
  /\ player' = [player EXCEPT !.transform = t]
  /\ applied' = t
  /\ UNCHANGED <<viewing, opening, registry, delays, picture>>

PlaybackNext ==
  \/ UnlockViewer \/ LockViewer \/ ImportShown
  \/ \E m \in DOMAIN FrameCount : OpenOriginal(m)
  \/ \E i \in opening : OriginalArrives(i) \/ OriginalDropped(i)
  \/ Tick \/ ClickStep \/ ClickPlay \/ \E t \in Transforms : ClickTransform(t)

PlaybackSpec == PlaybackInit /\ [][PlaybackNext]_playbackVars

----------------------------------------------------------------------------
PlaybackTypeOK ==
  /\ viewing \in 0..2 * MaxLocks
  /\ opening \subseteq [number : 1..MaxRequests, generation : 0..2 * MaxLocks,
                        image : DOMAIN FrameCount]
  /\ player.transform \in Transforms /\ applied \in Transforms
  /\ player.frames \in Nat \ {0} /\ player.frame \in 0..player.frames - 1

\* A viewed picture is the frame that the player counts, of the image that the registry
\* holds, under the transform of that image, with a delay for its every frame: whatever
\* the timer, the buttons, a late original, an import and a lock do in between.
PictureIsTheFrame ==
  picture.shown = "viewed" =>
    /\ picture.image = registry.image /\ picture.number = player.frame
    /\ player.frames = registry.count /\ delays = registry.count
    /\ applied = player.transform

\* The inductive invariant: the state of the player is that of the image whose frames the
\* registry holds also while an import covers its picture, for the next frame is painted
\* over it.
PlaybackInvariant ==
  /\ PictureIsTheFrame
  /\ registry.count \in Nat /\ \A i \in opening : i.image \in DOMAIN FrameCount
  /\ player.frames \in Nat \ {0} /\ player.frame \in 0..player.frames - 1
  /\ picture.shown = "viewed" => registry.count > 0
  /\ registry.count > 0 =>
       /\ player.frames = registry.count /\ delays = registry.count
       /\ applied = player.transform
=============================================================================
