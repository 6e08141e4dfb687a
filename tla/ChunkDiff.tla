----------------------------- MODULE ChunkDiff ------------------------------
(***************************************************************************)
(* Chunker (storage/chunk.rs) and BlockDiffEngine (storage/diff.rs): how a  *)
(* file is cut into chunks, put together again and compared with a          *)
(* manifest.  A file is a sequence of symbols; SHA-256 is taken to be       *)
(* injective, so that a digest is the data itself.                          *)
(***************************************************************************)
EXTENDS Integers, SequencesExt

CONSTANTS
    chunk_size,
    NoHash       \* thirty-two zero bytes, the digest of nothing

\* The digest of an empty file is not that of nothing.
ASSUME ChunkAssumption == chunk_size \in Nat \ {0} /\ FlattenSeq(<<>>) # NoHash

NumChunks(data) == (Len(data) + chunk_size - 1) \div chunk_size

\* Chunk number i, counted from 1; the last one may be shorter.
ChunkOf(data, i) == SubSeq(data, (i - 1) * chunk_size + 1, Min({i * chunk_size, Len(data)}))

ChunksOf(data) == [i \in 1..NumChunks(data) |-> ChunkOf(data, i)]

\* chunk_data: each entry of chunks is the digest of a chunk.
Manifest(data) == [file_hash |-> data, chunks |-> ChunksOf(data)]

\* What a node that does not have the file is taken to have.
EmptyManifest == [file_hash |-> NoHash, chunks |-> <<>>]

\* Mutant of CanReassemble: the digest of the whole file is not compared.
CanReassembleSized(manifest, blocks) ==
    /\ Len(blocks) = Len(manifest.chunks)
    /\ \A i \in DOMAIN blocks : Len(blocks[i]) = Len(manifest.chunks[i])

\* reassemble succeeds, with FlattenSeq(blocks) as its result.
CanReassemble(manifest, blocks) ==
    /\ Len(blocks) = Len(manifest.chunks)
    /\ \A i \in DOMAIN blocks : Len(blocks[i]) = Len(manifest.chunks[i])
    /\ FlattenSeq(blocks) = manifest.file_hash

\* Mutant of DiffFiles: only the chunks that the manifest has are looked at.
DiffFilesShort(manifest, data) ==
    {i \in 1..Min({Len(manifest.chunks), NumChunks(data)}) : ChunkOf(data, i) # manifest.chunks[i]}

\* diff_files: the chunks of data that are Modified or Added with respect to the
\* manifest.  Deleted ones are reported too, but nobody acts on them.
DiffFiles(manifest, data) ==
    IF data = manifest.file_hash
    THEN {}
    ELSE {i \in 1..NumChunks(data) :
             i \in DOMAIN manifest.chunks => ChunkOf(data, i) # manifest.chunks[i]}
=============================================================================
