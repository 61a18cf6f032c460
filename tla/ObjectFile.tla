------------------------------ MODULE ObjectFile ------------------------------
(***************************************************************************)
(* The file of an encrypted object (crates/osv-storage/src/object.rs):      *)
(* framing, chunk arithmetic and the random-access reader that releases     *)
(* authenticated chunks only, over a file that is damaged at any moment.    *)
(*                                                                         *)
(* A file is a sequence of cells: the preamble, the sealed header, and for   *)
(* each chunk its bytes and a tag.  Sealing is ideal: a tag fits the key,    *)
(* the bytes and the associated data it was made for, and nothing else.     *)
(***************************************************************************)
EXTENDS Integers, Sequences

Ext == INSTANCE SequencesExt

CONSTANTS
  StoredObjects,   \* objects, each with a key of its own
  MaxLength,       \* bound: bytes of an object
  ChunkSizes,      \* sizes of a chunk, in cells
  MaxDamage        \* bound: changes of the files from outside

HeaderCells == 2
TagCells == 1
Rubbish == [rubbish |-> TRUE]

ASSUME ObjectFileAssumption ==
  /\ MaxLength \in Nat /\ MaxDamage \in Nat /\ ChunkSizes \subseteq Nat \ {0}

VARIABLES
  files,     \* the file of each object, empty if there is none
  given,     \* length of the source it was made from
  reader,    \* ObjectReader
  answer,    \* outcome of the last call of the reader
  damages    \* changes made from outside

objectVars == <<files, given, reader, answer, damages>>

NoReader == [open |-> FALSE]
NoAnswer == [call |-> "none"]
NotCached == -1

ObjectInit ==
  /\ files = [o \in StoredObjects |-> <<>>]
  /\ given = [o \in StoredObjects |-> 0]
  /\ reader = NoReader /\ answer = NoAnswer /\ damages = 0

----------------------------------------------------------------------------
\* validate_plan, chunk_plaintext_len, chunk_offset, physical_len.

Lesser(a, b) == IF a < b THEN a ELSE b

\* Mutant: the division rounds down.
FullChunks(length, size) == length \div size

ChunkCount(length, size) == (length + size - 1) \div size

ChunkLength(length, size, index) == Lesser(length - index * size, size)
ChunkOffset(size, index) == index * (size + TagCells) + HeaderCells
PhysicalLength(length, size) == HeaderCells + length + ChunkCount(length, size) * TagCells

\* encrypt_stream: the header and every tag name the object, the chunk, the number of
\* chunks and the header.
Byte(o, at) == [of |-> o, at |-> at]
Preamble(o) == [preamble |-> o]
SealedHeader(o, length, size) == [header |-> o, length |-> length, size |-> size]
Tag(o, header, index, bytes) == [key |-> o, header |-> header, index |-> index, bytes |-> bytes]

ChunkBytes(o, length, size, index) ==
  [k \in 1..ChunkLength(length, size, index) |-> Byte(o, index * size + k)]
SealedChunk(o, length, size, index) ==
  LET bytes == ChunkBytes(o, length, size, index) IN
    Append(bytes, Tag(o, SealedHeader(o, length, size), index, bytes))
Encrypted(o, length, size) ==
  <<Preamble(o), SealedHeader(o, length, size)>> \o
  Ext!FlattenSeq([i \in 1..ChunkCount(length, size) |-> SealedChunk(o, length, size, i - 1)])

\* Mutant: a source that has more bytes than planned is not noticed.
MayBeLonger(length, planned) == length >= planned

SourceFits(length, planned) == length = planned

\* The source is read to the planned length, and one byte more must not come.
WriteObject(o, length, planned, size) ==
  /\ files[o] = <<>>
  /\ IF SourceFits(length, planned)
     THEN /\ files' = [files EXCEPT ![o] = Encrypted(o, planned, size)]
          /\ given' = [given EXCEPT ![o] = length]
          /\ answer' = NoAnswer
     ELSE /\ answer' = [call |-> "write", ok |-> FALSE]
          /\ UNCHANGED <<files, given>>
  /\ UNCHANGED <<reader, damages>>

----------------------------------------------------------------------------
\* read_authenticated_header and the check of the file's length.
HeaderOf(o) == IF Len(files[o]) >= HeaderCells THEN files[o][HeaderCells] ELSE Rubbish
HeaderFits(o) ==
  /\ HeaderOf(o) # Rubbish /\ "header" \in DOMAIN HeaderOf(o) /\ HeaderOf(o).header = o
  /\ files[o][1] = Preamble(o)
  /\ Len(files[o]) = PhysicalLength(HeaderOf(o).length, HeaderOf(o).size)

OpenReader(o) ==
  /\ files[o] # <<>>
  /\ IF HeaderFits(o)
     THEN reader' = [open |-> TRUE, object |-> o, header |-> HeaderOf(o), position |-> 0,
                     cached |-> NotCached, cache |-> <<>>]
     ELSE reader' = NoReader
  /\ answer' = [call |-> "open", object |-> o, ok |-> HeaderFits(o)]
  /\ UNCHANGED <<files, given, damages>>

\* Mutant: any authentic chunk of the object is taken, whichever its index.
LoadsAny(index) ==
  LET h == reader.header
      file == files[reader.object]
      count == ChunkLength(h.length, h.size, index)
      first == ChunkOffset(h.size, index)
  IN /\ first + count + TagCells <= Len(file)
     /\ \E i \in 0..h.length :
          file[first + count + 1] =
            Tag(reader.object, h, i, SubSeq(file, first + 1, first + count))

\* The bytes of a chunk on the disk, if there are enough of them and their tag fits.
Loads(index) ==
  LET h == reader.header
      file == files[reader.object]
      count == ChunkLength(h.length, h.size, index)
      first == ChunkOffset(h.size, index)
  IN /\ first + count + TagCells <= Len(file)
     /\ file[first + count + 1] =
          Tag(reader.object, h, index, SubSeq(file, first + 1, first + count))

Loaded(index) ==
  LET first == ChunkOffset(reader.header.size, index) IN
    SubSeq(files[reader.object], first + 1,
           first + ChunkLength(reader.header.length, reader.header.size, index))

DropCached == [reader EXCEPT !.cached = NotCached, !.cache = <<>>]

Cached(index) == reader.cached = index
AfterLoad(index) ==
  IF Cached(index) THEN reader
  ELSE IF Loads(index) THEN [reader EXCEPT !.cached = index, !.cache = Loaded(index)]
  ELSE DropCached

\* read: at most to the end of the chunk that the position is in.
Read(wanted) ==
  /\ reader.open
  /\ IF wanted = 0 \/ reader.position = reader.header.length
     THEN /\ answer' = [call |-> "read", ok |-> TRUE, at |-> reader.position, bytes |-> <<>>]
          /\ UNCHANGED reader
     ELSE LET index == reader.position \div reader.header.size
              within == reader.position % reader.header.size
              after == AfterLoad(index)
              count == Lesser(Len(after.cache) - within, wanted)
          IN IF after.cached = index
             THEN /\ reader' = [after EXCEPT !.position = @ + count]
                  /\ answer' = [call |-> "read", ok |-> TRUE, at |-> reader.position,
                                bytes |-> SubSeq(after.cache, within + 1, within + count)]
             ELSE reader' = after /\ answer' = [call |-> "read", ok |-> FALSE]
  /\ UNCHANGED <<files, given, damages>>

SeekTo(target) ==
  /\ reader.open
  /\ IF target \in 0..reader.header.length
     THEN reader' = [reader EXCEPT !.position = target] /\ answer' = NoAnswer
     ELSE UNCHANGED reader /\ answer' = [call |-> "seek", ok |-> FALSE]
  /\ UNCHANGED <<files, given, damages>>

\* A chunk that is cached is not read again.
VerifyAll ==
  /\ reader.open
  /\ answer' = [call |-> "verify", ok |->
       \A i \in 0..ChunkCount(reader.header.length, reader.header.size) - 1 :
         (i = 0 /\ Cached(0)) \/ Loads(i)]
  /\ reader' = [reader EXCEPT !.cached = NotCached, !.cache = <<>>]
  /\ UNCHANGED <<files, given, damages>>

CloseReader ==
  /\ reader.open
  /\ reader' = NoReader /\ answer' = NoAnswer
  /\ UNCHANGED <<files, given, damages>>

----------------------------------------------------------------------------
ChunksSwapped(file, size, i, j) ==
  LET at(k, index) == k - ChunkOffset(size, index)
  IN [k \in DOMAIN file |->
        IF at(k, i) \in 1..size + TagCells THEN file[at(k, i) + ChunkOffset(size, j)]
        ELSE IF at(k, j) \in 1..size + TagCells THEN file[at(k, j) + ChunkOffset(size, i)]
        ELSE file[k]]

\* Damage: a cell is overwritten, two chunks change places, the file is cut or grows, or
\* two objects change places.
Damage(o) ==
  /\ files[o] # <<>> /\ damages < MaxDamage
  /\ damages' = damages + 1
  /\ \/ \E i \in DOMAIN files[o] :
          files' = [files EXCEPT ![o] = [@ EXCEPT ![i] = Rubbish]]
     \/ \E size \in ChunkSizes, i, j \in 0..MaxLength :
          /\ i < j /\ ChunkOffset(size, j + 1) <= Len(files[o])
          /\ files' = [files EXCEPT ![o] = ChunksSwapped(@, size, i, j)]
     \/ files' = [files EXCEPT ![o] = Ext!Front(@)]
     \/ files' = [files EXCEPT ![o] = Append(@, Rubbish)]
     \/ \E p \in StoredObjects : files' = [files EXCEPT ![o] = files[p], ![p] = files[o]]
  /\ UNCHANGED <<given, reader, answer>>

ObjectNext ==
  \/ \E o \in StoredObjects, length, planned \in 0..MaxLength, size \in ChunkSizes :
       WriteObject(o, length, planned, size)
  \/ \E o \in StoredObjects : OpenReader(o) \/ Damage(o)
  \/ \E n \in 0..MaxLength : Read(n)
  \/ \E n \in NotCached..MaxLength + 1 : SeekTo(n)
  \/ VerifyAll \/ CloseReader

----------------------------------------------------------------------------
ObjectFileTypeOK ==
  /\ given \in [StoredObjects -> 0..MaxLength] /\ damages \in 0..MaxDamage
  /\ reader.open =>
       /\ reader.position \in 0..reader.header.length
       /\ reader.cached \in NotCached..ChunkCount(reader.header.length, reader.header.size) - 1

\* What a reader releases is what the source held at that position, however it seeks and
\* whatever happens to the file before or while it is open; a chunk that fails leaves
\* nothing in the cache that a later read could release.
ReleasesOnlyTheSource ==
  answer.call = "read" /\ answer.ok =>
    \A k \in DOMAIN answer.bytes : answer.bytes[k] = Byte(reader.object, answer.at + k)

\* A file that nothing has damaged opens, verifies and reads back to the last byte of its
\* source: the arithmetic of the writer and that of the reader agree for every length.
IntactReadsBack ==
  damages = 0 =>
    /\ answer.call \in {"open", "read", "verify"} => answer.ok
    /\ reader.open => reader.header.length = given[reader.object]
    /\ answer.call = "read" => reader.position = answer.at + Len(answer.bytes)

----------------------------------------------------------------------------
\* The inductive invariant: no damage makes a tag that the writer did not make, so that
\* every tag in a file speaks of bytes of a source, and every header that may be read was
\* sealed; a reader has such a header, and nothing but a chunk of its source in its cache.
Tags(o, length, size) ==
  {Tag(o, SealedHeader(o, length, size), i, ChunkBytes(o, length, size, i)) : i \in 0..length}
Headers == {SealedHeader(o, length, size) :
              o \in StoredObjects, length \in 0..MaxLength, size \in ChunkSizes}
Cell ==
  {Rubbish} \cup {Preamble(o) : o \in StoredObjects} \cup Headers
    \cup {Byte(o, at) : o \in StoredObjects, at \in 1..MaxLength}
    \cup UNION {Tags(o, length, size) :
                  o \in StoredObjects, length \in 0..MaxLength, size \in ChunkSizes}

FileHolds(file) ==
  /\ file \in Seq(Cell)
  /\ Len(file) >= HeaderCells => file[HeaderCells] \in Headers \cup {Rubbish}

\* A file that nothing has damaged is what the writer made of the source.
IsIntact(o, length, size) == given[o] = length /\ files[o] = Encrypted(o, length, size)

ReaderHolds(r, o, length, size) ==
  /\ r = [open |-> TRUE, object |-> o, header |-> SealedHeader(o, length, size),
          position |-> r.position, cached |-> r.cached, cache |-> r.cache]
  /\ r.position \in 0..length /\ r.cached \in NotCached..ChunkCount(length, size) - 1
  /\ r.cached # NotCached => r.cache = ChunkBytes(o, length, size, r.cached)

ObjectInvariant ==
  /\ ReleasesOnlyTheSource /\ IntactReadsBack
  /\ DOMAIN files = StoredObjects /\ \A o \in StoredObjects : FileHolds(files[o])
  /\ given \in [StoredObjects -> 0..MaxLength] /\ damages \in 0..MaxDamage
  /\ damages = 0 => \A o \in StoredObjects :
       files[o] = <<>> \/ \E size \in ChunkSizes : IsIntact(o, given[o], size)
  /\ reader = NoReader \/
       \E o \in StoredObjects, length \in 0..MaxLength, size \in ChunkSizes :
         ReaderHolds(reader, o, length, size) /\ (damages = 0 => IsIntact(o, length, size))
=============================================================================
