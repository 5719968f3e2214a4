------------------------------ MODULE MCFileNames ------------------------------
(***************************************************************************)
(* FileNames over small names and paths, against what its results are for. *)
(***************************************************************************)
EXTENDS Integers, Sequences, FiniteSets, FiniteSetsExt, SequencesExt

F == INSTANCE FileNames WITH MinTitleLength <- 3, Retries <- 3

\* A file that another process keeps busy for a moment is typed as it would be without,
\* and its kind is told only when name and content agree (FileTypeConfigurable.ts 9-76).
Extensions == [mkv |-> "video", txt |-> "text"]
Mimes == [matroska |-> "video", plain |-> "text"]

ASSUME BusyIsNoType ==
    \A result \in {"matroska", "plain", "unlisted", "unknown", "error"}, busy \in 0..3,
       extension \in {"mkv", "txt", "xyz", ""} :
        LET attempts == [i \in 1..4 |-> IF i <= busy THEN "EINVAL" ELSE result]
            fileType == F!GetFileType(attempts, extension, Extensions, Mimes)
        IN  /\ busy < 3 => F!GetMimeType(attempts) = F!GetMimeType([i \in 1..4 |-> result])
            /\ busy = 3 => F!GetMimeType(attempts) = {}
            /\ fileType = "video" <=>
                   extension = "mkv" /\ (result # "plain" \/ busy = 3)

\* The parent folder of a file is a folder on its path and below the watch folder; for a
\* file in a folder beside it whose name begins alike, the step up to that folder is taken
\* for a name (FileNameVideoMetaExtractor.ts 55-89).
FolderNames == {"media", "media2", "film"}
FolderPaths == UNION {[1..n -> FolderNames] : n \in 1..3}
NameBegins == {<<name, name>> : name \in FolderNames} \cup {<<"media2", "media">>}

ASSUME ParentIsBelowRoot ==
    \A path \in FolderPaths, parent \in 1..3, root \in [1..1 -> FolderNames] :
        LET file == Append(path, "file")
            folder == F!GetParentFolder(file, parent, <<root>>, NameBegins)
            free == F!GetParentFolder(file, parent, <<>>, NameBegins)
        IN  /\ path[1] = root[1] =>
                   folder = {path[i] : i \in {Len(path) + 1 - parent} \cap 2..Len(path)}
            /\ free = {path[i] : i \in {Len(path) + 1 - parent} \cap DOMAIN path}
            /\ ".." \in folder <=> root[1] = "media" /\ path[1] = "media2" /\ parent = Len(path) + 1
            /\ (folder # {} => <<path[1], root[1]>> \in NameBegins)

\* There is a title exactly when one of the three names is long enough, it is one of those,
\* and that of the folder passes over the file's only for a show and when longer
\* (FileNameVideoMetaExtractor.ts 141-192).
ASSUME TitleIsLongEnough ==
    \A lengths \in [1..3 -> 0..6], show \in BOOLEAN :
        LET title == F!ComputeTitle(lengths, show)
        IN  /\ title = {} <=> \A t \in 1..3 : lengths[t] <= 3
            /\ \A t \in title :
                   /\ lengths[t] > 3
                   /\ t = 2 /\ lengths[1] > 3 => show /\ lengths[2] > lengths[1]
                   /\ t = 3 => lengths[1] <= 3 /\ lengths[2] <= 3
            /\ show /\ (\E t \in 1..2 : lengths[t] > 3) =>
                   \A t \in title : lengths[t] = Max({lengths[1], lengths[2]})
-----------------------------------------------------------------------------
\* The increment orders the episodes of whole seasons as season and episode do, and
\* whatever has one has both; an episode is a show's unless both are zero or less than one
\* (FileNameVideoMetaExtractor.ts 220-247, 287-325).
SeasonsFound == {-1000, 0, 1000, 2000}
EpisodesFound == {-1000, 0, 70, 1000, 7500, 9999500}
Episodes == {F!ComputeSeasonAndEpisode(<<sea, ep>>, folder) :
                sea \in SeasonsFound, ep \in EpisodesFound, folder \in SeasonsFound}
The(set) == CHOOSE x \in set : TRUE

ASSUME IncrementOrders ==
    /\ \A e \in Episodes : e.increment # {} <=> e.episode # {} /\ e.season # {}
    /\ \A e \in Episodes : e.episode # {} => e.increment # {}
    /\ \A e, f \in {x \in Episodes : x.increment # {}} :
           The(e.increment) < The(f.increment) <=>
               \/ The(e.season) < The(f.season)
               \/ The(e.season) = The(f.season) /\ The(e.episode) < The(f.episode)
    /\ \A e \in Episodes, year \in {{}, {1999}}, fileType \in {"video", "subtitle", "text"} :
           LET video == F!ExtractVideoFileMetadata({}, year, e, FALSE)
           IN  /\ video.videoType = {"tvshow"} <=> \E n \in e.season \cup e.episode : n >= 1000
               /\ video.videoType # {} /\ e.episode = {} /\ e.season = {} => year # {}
               /\ F!ExtractMetadata(fileType, video).video # {} <=> fileType # "text"

\* The episode that only a number alone tells is the last number of the name, unless that
\* is zero; from the title the first one is taken away: they are the same number only when
\* there is no other.  After a dot, "Show.07", it is read as a fraction
\* (SerieFilesNamaAnalysisTool.ts 46-73, 75-97, 116-125: "matches the rightmost number").
LoneNumbers == {[value |-> v, digits |-> 2, dotted |-> d] : v \in {0, 7, 86}, d \in BOOLEAN}

ASSUME LoneEpisode ==
    \A numbers \in BoundedSeq(LoneNumbers, 2) :
        LET found == F!FindSeasonAndEpisode(<<<<>>, <<>>>>, numbers)
            whole == numbers # <<>> /\ ~Last(numbers).dotted /\ Last(numbers).value > 0
        IN  /\ found[1] = F!Unknown
            /\ whole <=> found[2] >= 1000
            /\ whole => found[2] = 1000 * Last(numbers).value
            /\ F!RemovedFromTitle(<<<<>>, <<>>>>, numbers)
                   = IF numbers = <<>> THEN [none |-> TRUE] ELSE [number |-> 1]

\* A pattern that matches goes before every number, and the first before the others
\* (SerieFilesNamaAnalysisTool.ts 46-97).
ASSUME PatternsGoFirst ==
    \A matches \in [1..2 -> {<<>>, <<3000>>, <<1000, 2000>>}], numbers \in BoundedSeq(LoneNumbers, 1) :
        LET first == IF matches[1] # <<>> THEN 1 ELSE 2
        IN  matches[first] # <<>> =>
                /\ Last(F!FindSeasonAndEpisode(matches, numbers)) = Last(matches[first])
                /\ F!HasSeasonEpisodePattern(matches, numbers)
                /\ F!RemovedFromTitle(matches, numbers) = [pattern |-> first]
-----------------------------------------------------------------------------
\* All texts of up to three letters, two of them one letter in two cases.
Letters == {"a", "A", "b"}
Texts == BoundedSeq(Letters, 3)
LowerCase == [letter \in Letters |-> IF letter = "A" THEN "a" ELSE letter]
LowerText(text) == [i \in DOMAIN text |-> LowerCase[text[i]]]

\* The letters of a text at some of its places.
Picked(text, places) == [i \in 1..Cardinality(places) |-> text[SetToSortSeq(places, <)[i]]]
Subsequences(text) == {Picked(text, places) : places \in SUBSET DOMAIN text}
SubsequencesOf == [text \in Texts |-> Subsequences(text)]

\* What is read out of the matrix is common to both texts and the longest that is
\* (TwoStringsOperation.ts 2-38).
ASSUME LcsIsLongest ==
    \A a, b \in Texts, sensitive \in BOOLEAN :
        LET common == F!LongestCommonSubseq(a, b, sensitive, LowerCase)
            Seen(text) == IF sensitive THEN text ELSE LowerText(text)
            all == SubsequencesOf[Seen(a)] \cap SubsequencesOf[Seen(b)]
        IN  /\ common \in SubsequencesOf[a] /\ Seen(common) \in all
            /\ Len(common) = Max({Len(c) : c \in all})

\* The texts one edit away from a text.
Edits(text) ==
    {RemoveAt(text, i) : i \in DOMAIN text}
    \cup {InsertAt(text, i, c) : i \in 1..(Len(text) + 1), c \in Letters}
    \cup {[text EXCEPT ![i] = c] : i \in DOMAIN text, c \in Letters}

\* The rows come to the least number of edits between two texts: no distance but zero for
\* equal ones, an edit changes it by at most one and some edit brings it down
\* (TwoStringsOperation.ts 40-79).
ASSUME DistanceIsEdits ==
    \A s, t \in BoundedSeq({"a", "b"}, 3) :
        LET d == F!LevenshteinDistance(s, t)
            after == {F!LevenshteinDistance(u, t) : u \in Edits(s)}
        IN  /\ d = F!LevenshteinDistance(t, s) /\ (d = 0 <=> s = t)
            /\ \A n \in after : n >= d - 1 /\ n <= d + 1
            /\ d > 0 => d - 1 \in after

\* Names are alike by the mean over all pairs of different names, and not comparable when
\* there is no such pair (StringArrayOperation.ts 37-51).
ASSUME Similarity ==
    \A a, b \in BoundedSeq({"a", "b"}, 2) :
        F!StringsSimilar(<<a, b, a>>)
            = IF a = b THEN <<-1, 1>> ELSE <<4 * F!LevenshteinDistance(a, b), 4>>

\* The table for codes of two letters has keys of three ("reverse of iso6393To1", says
\* LanguageTool.ts 15, of the inverse of another table): every such code is unknown, and so
\* is every full name (LanguageTool.ts 15-43).
To2T == [fra |-> "fra", deu |-> "deu", eng |-> "eng"]
CodeOf == [French |-> "fr", German |-> "de"]

ASSUME LanguagesUnknown ==
    /\ \A code \in {"fr", "de", "xx"} : F!AnyToIso6393(code, 2, To2T, CodeOf) = {"und"}
    /\ \A name \in {"French", "Klingon"} : F!AnyToIso6393(name, 6, To2T, CodeOf) = {}
    /\ F!AnyToIso6393("fra", 3, To2T, CodeOf) = {"fra"} /\ F!AnyToIso6393("", 0, To2T, CodeOf) = {}
=============================================================================
