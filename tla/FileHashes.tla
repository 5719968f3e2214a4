------------------------------ MODULE FileHashes ------------------------------
(***************************************************************************)
(* What is computed from the bytes of a file: the BitTorrent v2 info hash  *)
(* (BtihV2Hasher.ts), the hash of a file's size and middle (FastHash.ts,   *)
(* and again in WebdavClient.ts), the list of CIDs and the lookups in it   *)
(* (ComputeHash.ts, CidDecode.ts), and the magnet link (MagnetLink-        *)
(* Generator.ts).                                                          *)
(*                                                                         *)
(* SHA-256 is a constructor: no two inputs have the same digest.  A CID    *)
(* is the record of what its text encodes.                                 *)
(***************************************************************************)
EXTENDS Integers, Sequences, SequencesExt, Bitwise

CONSTANTS
    BlockSize,     \* BLOCK_SIZE, 16 KB
    MaxPieces,     \* maxPieces, 2048
    SampleSize     \* SAMPLE_SIZE, 1 MB

Sha256(input) == <<"sha256", input>>

\* A result that may be null or undefined is a set of at most one value.
None == {}
-----------------------------------------------------------------------------
\* class BtihV2Hasher.
NewHasher == [blockHashes |-> <<>>, currentBlock |-> <<>>, fileSize |-> 0]

FinalizeBlock(h) ==
    [h EXCEPT !.blockHashes = Append(@, Sha256(h.currentBlock)), !.currentBlock = <<>>]

\* update(): the chunk is cut where a block is full.
RECURSIVE Update(_, _)
Update(h, data) ==
    IF data = <<>> THEN h
    ELSE LET remaining == BlockSize - Len(h.currentBlock)
             toRead == IF Len(data) < remaining THEN Len(data) ELSE remaining
             filled == [h EXCEPT !.currentBlock = @ \o SubSeq(data, 1, toRead),
                                 !.fileSize = @ + toRead]
         IN  Update(IF toRead = remaining THEN FinalizeBlock(filled) ELSE filled,
                    SubSeq(data, toRead + 1, Len(data)))

\* The bits of n - 1 are smeared to the right: n |= n >> 1, 2, 4, 8, 16.
NextPowerOfTwo(n) ==
    IF n = 0 THEN 1
    ELSE FoldLeft(LAMBDA m, by : m | shiftR(m, by), n - 1, <<1, 2, 4, 8, 16>>) + 1

ZeroHash == <<"zero">>

RECURSIVE Paired(_)
Paired(level) ==
    IF Len(level) = 1 THEN level[1]
    ELSE Paired([i \in 1..(Len(level) \div 2) |-> Sha256(<<level[2 * i - 1], level[2 * i]>>)])

BuildMerkleTree(hashes) ==
    Paired(hashes \o [i \in 1..(NextPowerOfTwo(Len(hashes)) - Len(hashes)) |-> ZeroHash])

\* computePieceLength(): doubled until there are less than maxPieces.
RECURSIVE Doubled(_, _)
Doubled(pieceLength, fileSize) ==
    IF (fileSize + pieceLength - 1) \div pieceLength >= MaxPieces
    THEN Doubled(2 * pieceLength, fileSize) ELSE pieceLength

ComputePieceLength(fileSize) == Doubled(BlockSize, fileSize)

\* digest(): the rest of the file is a block of its own, and so is an empty file.
InfoHash(h, name) ==
    LET last == IF h.currentBlock # <<>> \/ h.blockHashes = <<>>
                THEN FinalizeBlock(h) ELSE h
    IN  Sha256([name |-> name, length |-> last.fileSize,
                piece_length |-> ComputePieceLength(last.fileSize),
                pieces_root |-> BuildMerkleTree(last.blockHashes), meta_version |-> 2])
-----------------------------------------------------------------------------
\* computeMidHash256(): the place and length of the sample in a file of a size.
MiddleOffset(size) == IF size <= SampleSize THEN 0 ELSE (size - SampleSize) \div 2
SampleLength(size) == IF size <= SampleSize THEN size ELSE SampleSize

\* A read at the end of the file is short.
ReadAt(content, offset, length) ==
    LET end == IF offset + length < Len(content) THEN offset + length ELSE Len(content)
    IN  SubSeq(content, offset + 1, end)

\* FastHash.ts: the size is of one moment and the content of a later one; bytes that
\* the read does not bring are what the memory held (allocUnsafe).
MidHash256(size, content, memory) ==
    LET got == ReadAt(content, MiddleOffset(size), SampleLength(size))
    IN  Sha256(<<size, got \o SubSeq(memory, Len(got) + 1, SampleLength(size))>>)

\* The same in a worker, with the synchronous calls.
MidHash256Sync(size, content, memory) == MidHash256(size, content, memory)

\* WebdavClient.ts: a file is what the server answers, or none; a server may ignore the
\* range, and answer 200 with all of the file.
WebdavStat(answer) ==
    IF answer.status = "ok" THEN [exists |-> TRUE, size |-> Len(answer.body)]
    ELSE [exists |-> FALSE, size |-> 0]

WebdavReadFile(answer) == IF answer.status = "ok" THEN {answer.body} ELSE None

WebdavReadRange(answer, first, last) ==
    IF answer.status # "ok" THEN None
    ELSE IF answer.ranges THEN {ReadAt(answer.body, first, last + 1 - first)}
    ELSE {answer.body}

WebdavMidHash256(head, get) ==
    LET stats == WebdavStat(head)
        offset == MiddleOffset(stats.size)
        sample == IF stats.size <= SampleSize THEN WebdavReadFile(get)
                  ELSE WebdavReadRange(get, offset, offset + SampleSize - 1)
    IN  {Sha256(<<stats.size, bytes>>) : bytes \in IF stats.exists THEN sample ELSE None}
-----------------------------------------------------------------------------
\* A CID: its codec, the code of its algorithm, and the digest; or a text that is none.
Cid(codec, code, digest) == [codec |-> codec, code |-> code, digest |-> digest]

\* computeCIDs(): one for each algorithm that has a code, in their order; digests are
\* those of the file.
ComputeCids(algorithms, codes, digests) ==
    LET known == SelectSeq(algorithms, LAMBDA a : a \in DOMAIN codes)
    IN  [i \in DOMAIN known |-> Cid(codes[known[i]], codes[known[i]], digests[known[i]])]

MultihashCode(cid) == IF "code" \in DOMAIN cid THEN cid.code ELSE 0

PickCidByMulticodec(cids, code) ==
    LET fitting == SelectSeq(cids, LAMBDA cid : MultihashCode(cid) = code)
    IN  IF fitting = <<>> THEN None ELSE {Head(fitting)}

HasAlgorithm(cids, code) == PickCidByMulticodec(cids, code) # None

AddCid(cids, cid) ==
    IF \E c \in cid : ~Contains(cids, c) THEN cids \o SetToSeq(cid) ELSE cids
-----------------------------------------------------------------------------
\* A link, by the keys of its components.
MagnetLink(cids, btihCode, fileName, fileSize) ==
    {[xt |-> cid.digest, dn |-> fileName, xl |-> fileSize] :
        cid \in PickCidByMulticodec(cids, btihCode)}

Extract(link, key) == {link[k] : k \in {key} \cap DOMAIN link}

ExtractFileName(link) == Extract(link, "dn") \ {""}

\* isValid() and parse(): a length of zero counts as none.
ParseMagnet(link) ==
    {[infoHash |-> hash, fileName |-> ExtractFileName(link),
      fileSize |-> Extract(link, "xl") \ {0}] : hash \in Extract(link, "xt")}
=============================================================================
