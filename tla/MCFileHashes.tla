----------------------------- MODULE MCFileHashes -----------------------------
(***************************************************************************)
(* FileHashes over small files, against what its results are to be.        *)
(***************************************************************************)
EXTENDS Integers, Sequences, FiniteSets, SequencesExt

\* Blocks of 2 bytes, less than 4 pieces, samples of 3 bytes.
H == INSTANCE FileHashes WITH BlockSize <- 2, MaxPieces <- 4, SampleSize <- 3

\* All files of at most this many bytes, bytes told apart by their place.
HashedSizes == 0..9
FileOf(size) == [i \in 1..size |-> i]

\* The ways to cut a file in up to three chunks, empty ones included.
Cuts(file) ==
    {<<SubSeq(file, 1, cut[1]), SubSeq(file, cut[1] + 1, cut[2]),
       SubSeq(file, cut[2] + 1, Len(file))>> :
        cut \in {c \in (0..Len(file)) \X (0..Len(file)) : c[1] <= c[2]}}

\* The tree of BEP 52: the blocks from the left, zeros on the right.
RECURSIVE Tree(_, _, _)
Tree(file, from, width) ==
    IF width = 1
    THEN IF 2 * from >= Len(file) /\ from > 0 THEN H!ZeroHash
         ELSE H!Sha256(H!ReadAt(file, 2 * from, 2))
    ELSE H!Sha256(<<Tree(file, from, width \div 2),
                    Tree(file, from + width \div 2, width \div 2)>>)

Width(size) == CHOOSE w \in {1, 2, 4, 8} :
                   /\ 2 * w >= size
                   /\ \A v \in {1, 2, 4, 8} : 2 * v >= size => w <= v

\* The info hash is of the bytes, however the stream cuts them, over the tree of BEP 52
\* (BtihV2Hasher.ts 46-167).
ASSUME ChunksDoNotMatter ==
    \A size \in HashedSizes : \A chunks \in Cuts(FileOf(size)) :
        H!InfoHash(FoldLeft(H!Update, H!NewHasher, chunks), "name")
            = H!Sha256([name |-> "name", length |-> size,
                        piece_length |-> H!ComputePieceLength(size),
                        pieces_root |-> Tree(FileOf(size), 0, Width(size)),
                        meta_version |-> 2])

\* The bits smeared give the least power that is large enough (BtihV2Hasher.ts 196-204).
ASSUME PowersOfTwo ==
    \A n \in 1..40 :
        LET p == H!NextPowerOfTwo(n)
        IN  p \in {2^k : k \in 0..6} /\ p >= n /\ (n = 1 \/ p < 2 * n)

\* Pieces are as small as their number allows (BtihV2Hasher.ts 177-191); "between 1024
\* and 2047 pieces", which the comment there adds, holds only above one piece each.
ASSUME PieceLengths ==
    \A size \in 0..40 :
        LET p == H!ComputePieceLength(size)
            pieces(length) == (size + length - 1) \div length
        IN  /\ p \in {2^k : k \in 1..6} /\ pieces(p) < 4
            /\ p > 2 => pieces(p \div 2) >= 4 /\ 2 <= pieces(p)

\* Reading a file at once and over WebDAV gives one hash, of the middle of the file; a
\* server without ranges gives another one for every file larger than the sample, and a
\* file that shrinks meanwhile one that depends on the memory (FastHash.ts 24-57,
\* WebdavClient.ts 439-484).
Answer(file, ranges) == [status |-> "ok", body |-> file, ranges |-> ranges]
Memory(byte) == [i \in 1..3 |-> byte]

ASSUME SampleIsMiddle ==
    \A size \in HashedSizes :
        LET file == FileOf(size)
            hash == H!MidHash256(size, file, Memory(0))
            sample == hash[2][2]
            before == IF sample = <<>> THEN 0 ELSE Head(sample) - 1
            over == H!WebdavMidHash256(Answer(file, TRUE), Answer(file, TRUE))
            whole == H!WebdavMidHash256(Answer(file, FALSE), Answer(file, FALSE))
        IN  /\ over = {hash} /\ (whole = over <=> size <= 3)
            /\ hash = H!MidHash256Sync(size, file, Memory(1))
            /\ (size - before - Len(sample)) - before \in {0, 1}
            /\ \A shrunk \in 0..(size - 1) :
                   (H!MidHash256(size, FileOf(shrunk), Memory(0))
                       # H!MidHash256(size, FileOf(shrunk), Memory(1)))
                     <=> shrunk < H!MiddleOffset(size) + H!SampleLength(size)

\* The CID of an algorithm is found by its code, also among those of a writer with
\* another codec and texts that are no CID, and each is listed once (CidDecode.ts 25-86).
MultihashCodes == [sha256 |-> 18, btih_v2 |-> 4279]
Digests == [a \in DOMAIN MultihashCodes |-> H!Sha256(a)]
OwnCids(algorithms) == H!ComputeCids(algorithms, MultihashCodes, Digests)
OtherCids == {<<>>, <<{}>>, <<{H!Cid(85, 18, H!Sha256("other"))}, {[text |-> "no CID"]}>>}

ASSUME CidsAreFound ==
    \A others \in OtherCids, algorithms \in {<<"sha256", "btih_v2">>, <<"md6", "btih_v2">>} :
        LET own == [i \in DOMAIN OwnCids(algorithms) |-> {OwnCids(algorithms)[i]}]
            cids == FoldLeft(H!AddCid, <<>>, others \o own \o others)
        IN  /\ Len(cids) = Cardinality(UNION Range(others \o own))
            /\ \A a \in DOMAIN MultihashCodes :
                   H!HasAlgorithm(cids, MultihashCodes[a])
                     <=> Contains(algorithms, a) \/ (a = "sha256" /\ Len(others) = 2)
            /\ H!PickCidByMulticodec(cids, 4279) = {H!Cid(4279, 4279, H!Sha256("btih_v2"))}

\* A link brings back what it was made of, but for a length of zero and an empty name;
\* without the info hash there is none (MagnetLinkGenerator.ts 36-169).
ASSUME LinksRoundTrip ==
    \A name \in {"", "film.mkv"}, size \in {0, 7} :
        LET link(algorithms) == H!MagnetLink(OwnCids(algorithms), MultihashCodes.btih_v2, name, size)
        IN  /\ link(<<"sha256">>) = {}
            /\ UNION {H!ParseMagnet(l) : l \in link(<<"sha256", "btih_v2">>)} =
                   {[infoHash |-> H!Sha256("btih_v2"), fileName |-> {name} \ {""},
                     fileSize |-> {size} \ {0}]}
=============================================================================
