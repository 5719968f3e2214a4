------------------------------- MODULE FileNames -------------------------------
(***************************************************************************)
(* What filename-tool decides about a file from its path: its kind, title, *)
(* season, episode and year, and how alike two names are.                  *)
(*                                                                         *)
(* A path is the sequence of its names.  The regular expressions are not   *)
(* modelled, but what is done with what they find: a title is its length,  *)
(* a number counts thousandths, and -1000 is the -1 of the code.           *)
(***************************************************************************)
EXTENDS Integers, Sequences, FiniteSets, SequencesExt, FiniteSetsExt

CONSTANTS
    MinTitleLength,      \* MIN_TITLE_LENGTH, 3
    Retries              \* 3

Unknown == -1000
None == {}               \* null and undefined; another value is the set of it
-----------------------------------------------------------------------------
\* FileTypeConfigurable.ts.  attempts: what each read of the file would bring.
GetMimeType(attempts) ==
    LET settled == {i \in 1..Retries : attempts[i] # "EINVAL"}
    IN  IF settled = {} \/ attempts[Min(settled)] \in {"error", "unknown"} THEN None
        ELSE {attempts[Min(settled)]}

GetFileTypeFromExtension(extension, extensionMappings) ==
    IF extension = "" THEN "undefined"
    ELSE IF extension \in DOMAIN extensionMappings THEN extensionMappings[extension] ELSE "other"

GetFileType(attempts, extension, extensionMappings, mimeTypeMappings) ==
    LET byExtension == GetFileTypeFromExtension(extension, extensionMappings)
        byMime == {mimeTypeMappings[m] : m \in GetMimeType(attempts) \cap DOMAIN mimeTypeMappings}
    IN  IF byMime \subseteq {byExtension, "undefined"} THEN byExtension ELSE "undefined"
-----------------------------------------------------------------------------
\* getParentFolder(): the names above the file, from within the first watch folder whose
\* text the path begins with.  Begins is that relation between two names.
CommonLength(p, q) == Max({n \in 0..Len(p) : n <= Len(q) /\ SubSeq(p, 1, n) = SubSeq(q, 1, n)})

RelativePath(root, path) ==
    LET n == CommonLength(root, path)
    IN  [i \in 1..(Len(root) - n) |-> ".."] \o SubSeq(path, n + 1, Len(path))

\* begins: the pairs of names of which the first begins with the second.
StartsWith(path, root, begins) ==
    /\ Len(root) <= Len(path) /\ CommonLength(root, path) >= Len(root) - 1
    /\ root # <<>> => <<path[Len(root)], Last(root)>> \in begins

GetParentFolder(path, parent, watchFolders, begins) ==
    LET above == SelectSeq(watchFolders, LAMBDA root : StartsWith(path, root, begins))
        parts == IF watchFolders = <<>> THEN path
                 ELSE IF above = <<>> THEN <<>> ELSE RelativePath(Head(above), path)
    IN  IF parent < Len(parts) THEN {parts[Len(parts) - parent]} ELSE None

\* longestString(): the first of the longest.
LongestString(lengths) ==
    CHOOSE i \in DOMAIN lengths : \A j \in DOMAIN lengths :
        lengths[j] < lengths[i] \/ (lengths[j] = lengths[i] /\ i <= j)

\* computeTitleFromFilePath(): which of the file's, its parent's and its grandparent's
\* name is the title, by their lengths when cleaned.
File == 1
Parent == 2
GrandParent == 3

ComputeTitle(lengths, isTvShow) ==
    LET Valid(t) == lengths[t] > MinTitleLength
        selected ==
            IF isTvShow /\ Valid(File) /\ Valid(Parent)
            THEN IF lengths[Parent] > lengths[File] THEN Parent ELSE File
            ELSE IF Valid(File) THEN File
            ELSE IF Valid(Parent) THEN Parent
            ELSE IF Valid(GrandParent) THEN GrandParent
            ELSE LongestString(lengths)
    IN  IF Valid(selected) THEN {selected} ELSE None
-----------------------------------------------------------------------------
\* A number standing alone in a name: its digits, and whether a dot is right before it.
\* The match of the pattern has the dot in it, so that ".07" is read as 0.07.
ParsedNumber(number) ==
    IF number.dotted THEN number.value * 10^(3 - number.digits) ELSE 1000 * number.value

\* findSeasonAndEpisode().  matches: what each pattern finds, in order: nothing, an episode,
\* or a season and an episode.  numbers: the numbers standing alone, from left to right.
FindSeasonAndEpisode(matches, numbers) ==
    LET found == SelectSeq(matches, LAMBDA m : m # <<>>)
        rightmost == IF numbers = <<>> THEN 0 ELSE ParsedNumber(Last(numbers))
    IN  IF found # <<>>
        THEN IF Len(Head(found)) = 2 THEN Head(found) ELSE <<Unknown, Head(found)[1]>>
        ELSE <<Unknown, IF rightmost # 0 THEN rightmost ELSE Unknown>>

\* removeSeasonAndEpisode(): what of the name is taken for no part of the title: the first
\* match of a pattern, or the number removeRightmostNumber() takes, which is the first.
RemovedFromTitle(matches, numbers) ==
    LET found == {i \in DOMAIN matches : matches[i] # <<>>}
    IN  IF found # {} THEN [pattern |-> Min(found)]
        ELSE IF numbers # <<>> THEN [number |-> 1] ELSE [none |-> TRUE]

\* filenameHasSeasonEpisodePattern().
HasSeasonEpisodePattern(matches, numbers) ==
    \E n \in Range(FindSeasonAndEpisode(matches, numbers)) : n >= 0

\* findSeasonFromParentFolder(): the first of its patterns that matches.
FindSeasonFromParentFolder(matches) ==
    LET found == SelectSeq(matches, LAMBDA m : m # <<>>)
    IN  IF found = <<>> THEN Unknown ELSE Head(found)[1]

ComputeSeasonFromParentFolder(folder, matches) ==
    IF folder = None THEN Unknown ELSE FindSeasonFromParentFolder(matches)

\* computeSeasonAndEpisodeFromFilePath(): the name before the folder, season 1 for an
\* episode without one.
ComputeSeasonAndEpisode(inName, inFolder) ==
    LET named == IF inName[1] >= 0 THEN inName[1] ELSE inFolder
        ep == inName[2]
        sea == IF named < 0 /\ ep >= 0 THEN 1000 ELSE named
    IN  [season |-> {sea} \ {Unknown}, episode |-> {ep} \ {Unknown},
         increment |-> IF ep >= 0 THEN {10000 * sea + ep} ELSE None]

ComputeMovieYear(inName, folder, inFolder) ==
    IF inName > 0 THEN {inName} ELSE IF folder # None /\ inFolder > 0 THEN {inFolder} ELSE None

\* extractVideoFileMetadata(): parseInt drops the fraction of a season or an episode.
VideoType(seasonEpisode, year) ==
    IF \E n \in seasonEpisode.season \cup seasonEpisode.episode : n \div 1000 > 0 THEN {"tvshow"}
    ELSE IF \E y \in year : 1800 < y /\ y < 2100 THEN {"movie"} ELSE None

ExtractVideoFileMetadata(title, year, seasonEpisode, extra) ==
    [originalTitle |-> title, movieYear |-> year,
     season |-> seasonEpisode.season, episode |-> seasonEpisode.episode,
     increment |-> seasonEpisode.increment,
     extra |-> IF extra THEN {"true"} ELSE None, videoType |-> VideoType(seasonEpisode, year)]

\* extractMetadata(): only a video or its subtitles have the rest.
ExtractMetadata(fileType, video) ==
    [fileType |-> fileType,
     video |-> IF fileType \in {"video", "subtitle"} THEN {video} ELSE None]
-----------------------------------------------------------------------------
\* TwoStringsOperation.ts.  lower has toLowerCase() of each letter; same, the pairs of
\* letters taken for equal.
LcsLengths(a, b, same) ==
    LET lengths[i \in 0..Len(a), j \in 0..Len(b)] ==
            IF i = 0 \/ j = 0 THEN 0
            ELSE IF <<a[i], b[j]>> \in same THEN lengths[i - 1, j - 1] + 1
            ELSE Max({lengths[i, j - 1], lengths[i - 1, j]})
    IN  lengths

LongestCommonSubseq(a, b, caseSensitive, lower) ==
    LET letters == DOMAIN lower
        same == {<<x, y>> \in letters \X letters :
                     IF caseSensitive THEN x = y ELSE lower[x] = lower[y]}
        lengths == LcsLengths(a, b, same)
        read[x \in 0..Len(a), y \in 0..Len(b)] ==
            IF x = 0 \/ y = 0 THEN <<>>
            ELSE IF lengths[x, y] = lengths[x - 1, y] THEN read[x - 1, y]
            ELSE IF lengths[x, y] = lengths[x, y - 1] THEN read[x, y - 1]
            ELSE Append(read[x - 1, y - 1], a[x])
    IN  read[Len(a), Len(b)]

\* One row of costs at a time, over the letters of t.
LevenshteinDistance(s, t) ==
    LET Row(p, tj, j) ==
            LET d[i \in 0..Len(s)] ==
                    IF i = 0 THEN j
                    ELSE Min({d[i - 1] + 1, p[i] + 1,
                              p[i - 1] + (IF s[i] = tj THEN 0 ELSE 1)})
            IN  d
        rows[j \in 0..Len(t)] ==
            IF j = 0 THEN [i \in 0..Len(s) |-> i] ELSE Row(rows[j - 1], t[j], j)
    IN  IF s = <<>> THEN Len(t) ELSE IF t = <<>> THEN Len(s) ELSE rows[Len(t)][Len(s)]

\* isStringsSimilar(): the mean distance of two different names, a pair of its terms.
StringsSimilar(names) ==
    LET pairs == {p \in (DOMAIN names) \X (DOMAIN names) : names[p[1]] # names[p[2]]}
    IN  IF pairs = {} THEN <<-1, 1>>
        ELSE <<MapThenSumSet(LAMBDA p : LevenshteinDistance(names[p[1]], names[p[2]]), pairs),
               Cardinality(pairs)>>

\* anyTo_iso_639_3(): a language by a code or a full name of a length.  The table that
\* is to take codes of two letters is the inverse of iso6393To2T, whose values have three.
Iso6391To3(iso6393To2T) == [two \in Range(iso6393To2T) |->
                               CHOOSE three \in DOMAIN iso6393To2T : iso6393To2T[three] = two]

AnyToIso6393(name, length, iso6393To2T, codeOf) ==
    LET table == Iso6391To3(iso6393To2T)
        Found(code) == {table[c] : c \in {code} \cap DOMAIN table}
    IN  IF length = 0 THEN None
        ELSE IF length = 3 THEN {name}
        ELSE IF length = 2 THEN IF Found(name) # {} THEN Found(name) ELSE {"und"}
        ELSE UNION {Found(codeOf[n]) : n \in {name} \cap DOMAIN codeOf}
=============================================================================
