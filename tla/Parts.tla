--------------------------------- MODULE Parts ---------------------------------
(***************************************************************************)
(* The components of osv-ng that keep to themselves, for one run of TLC: a   *)
(* behaviour is one of a single part, which is chosen at the start, and      *)
(* everything else stays as it began.                                       *)
(***************************************************************************)
EXTENDS HeaderRewrap, VaultCreation, VaultBackup, CatalogFiles,
        GalleryTree, GalleryView, ViewerPlayback, Shell,
        ObjectFile, HeaderFormat, WireFormat, ImageProbe, ImageRendition

VARIABLE part

PartNames == {"rewrap", "creation", "backup", "files", "galleries", "view", "playback",
              "shell", "object", "header", "wire", "probe", "rendition"}

directoryVars == <<rewrapVars, creationVars, backupVars, fileVars>>
screenVars == <<galleryVars, viewVars, playbackVars, shellVars>>
byteVars == <<objectVars, formatVars, wireVars, probeVars, renditionVars>>
partVars == <<part, directoryVars, screenVars, byteVars>>

PartsInit ==
  /\ part \in PartNames
  /\ RewrapInit /\ CreationInit /\ BackupInit /\ FilesInit
  /\ GalleryInit /\ ViewInit /\ PlaybackInit /\ ShellInit
  /\ ObjectInit /\ FormatInit /\ WireInit /\ ProbeInit /\ RenditionInit
  /\ part # "rewrap" => journaled
  /\ part # "files" => process.pid = CHOOSE p \in Pids : TRUE

RewrapPart ==
  /\ part = "rewrap" /\ RewrapNext
  /\ UNCHANGED <<part, creationVars, backupVars, fileVars, screenVars, byteVars>>
CreationPart ==
  /\ part = "creation" /\ CreationNext
  /\ UNCHANGED <<part, rewrapVars, backupVars, fileVars, screenVars, byteVars>>
BackupPart ==
  /\ part = "backup" /\ BackupNext
  /\ UNCHANGED <<part, rewrapVars, creationVars, fileVars, screenVars, byteVars>>
FilesPart ==
  /\ part = "files" /\ FilesNext
  /\ UNCHANGED <<part, rewrapVars, creationVars, backupVars, screenVars, byteVars>>
GalleryPart ==
  /\ part = "galleries" /\ GalleryNext
  /\ UNCHANGED <<part, directoryVars, viewVars, playbackVars, shellVars, byteVars>>
ViewPart ==
  /\ part = "view" /\ ViewNext
  /\ UNCHANGED <<part, directoryVars, galleryVars, playbackVars, shellVars, byteVars>>
PlaybackPart ==
  /\ part = "playback" /\ PlaybackNext
  /\ UNCHANGED <<part, directoryVars, galleryVars, viewVars, shellVars, byteVars>>
ShellPart ==
  /\ part = "shell" /\ ShellNext
  /\ UNCHANGED <<part, directoryVars, galleryVars, viewVars, playbackVars, byteVars>>
ObjectPart ==
  /\ part = "object" /\ ObjectNext
  /\ UNCHANGED <<part, directoryVars, screenVars, formatVars, wireVars, probeVars, renditionVars>>
HeaderPart ==
  /\ part = "header" /\ FormatNext
  /\ UNCHANGED <<part, directoryVars, screenVars, objectVars, wireVars, probeVars, renditionVars>>
WirePart ==
  /\ part = "wire" /\ WireNext
  /\ UNCHANGED <<part, directoryVars, screenVars, objectVars, formatVars, probeVars, renditionVars>>
ProbePart ==
  /\ part = "probe" /\ ProbeNext
  /\ UNCHANGED <<part, directoryVars, screenVars, objectVars, formatVars, wireVars, renditionVars>>
RenditionPart ==
  /\ part = "rendition" /\ RenditionNext
  /\ UNCHANGED <<part, directoryVars, screenVars, objectVars, formatVars, wireVars, probeVars>>

PartsNext ==
  \/ RewrapPart \/ CreationPart \/ BackupPart \/ FilesPart
  \/ GalleryPart \/ ViewPart \/ PlaybackPart \/ ShellPart
  \/ ObjectPart \/ HeaderPart \/ WirePart \/ ProbePart \/ RenditionPart

PartsSpec == PartsInit /\ [][PartsNext]_partVars

----------------------------------------------------------------------------
\* The types of every part.
PartsTypeOK ==
  /\ part \in PartNames
  /\ RewrapTypeOK /\ CreationTypeOK /\ BackupTypeOK /\ FilesTypeOK
  /\ GalleryTypeOK /\ ViewTypeOK /\ PlaybackTypeOK /\ ShellTypeOK
  /\ ObjectFileTypeOK /\ FormatTypeOK /\ ProbeTypeOK /\ RenditionTypeOK

\* What create and backup_closed report done has happened whole, with one user, and for
\* good; and what SQLite was told of names and transfers is so (VaultCreation,
\* VaultBackup, CatalogFiles).
ReportedIsDone ==
  /\ CreatedSurvives /\ CatalogHasOneUser /\ BackupIsWhole
  /\ NamesAreDurable /\ TransfersAreWhole

\* The galleries of the catalog can all be reached and hold nothing that is gone
\* (GalleryTree).
GalleriesHold == EverythingIsReachable /\ NothingDangles

\* What the screen shows is what its position, its player, its session and the catalog
\* say (GalleryView, ViewerPlayback).
ScreenIsTrue == TileShowsItsEntry /\ ListingIsCurrent /\ PictureIsTheFrame

\* Handles and shortcuts of the shell stand for one thing each (Shell).
ShellIsAccounted == AuthorityIsAccounted /\ ShortcutsAreDistinct

\* Bytes read back as what was written, or not at all: objects, headers, frames
\* (ObjectFile, HeaderFormat, WireFormat).
BytesReadBack == ReleasesOnlyTheSource /\ IntactReadsBack /\ UnlocksAsItWasMade /\ WireIsCanonical

\* Probe, helper and broker agree about every image and its rendition (ImageProbe,
\* ImageRendition).
ImagesAgree == ProbeIsExact /\ AcceptedIsHonest /\ RenditionFits
=============================================================================
