---------------------------- MODULE MCAlgorithms ----------------------------
(***************************************************************************)
(* Bounded inputs for the algorithms that compute a result from their      *)
(* input alone, and what is claimed of the results.  A behaviour is one    *)
(* call: it begins with what is called and ends with its result.           *)
(***************************************************************************)
EXTENDS Integers, SequencesExt, TLC

CONSTANTS
    Subjects        \* which algorithms are called

Bytes == INSTANCE ByteCompare WITH LookAhead <- 2, Chunk <- 2
Folders == INSTANCE DirMerge WITH Names <- 1 .. 3, MaxDepth <- 2

Panes == INSTANCE SideBySide WITH EOL <- "\n"

Scripts == INSTANCE DiffScript
Words == INSTANCE WordDiffs WITH WordLimit <- 4
Conflicts == INSTANCE ConflictFile

VARIABLES
    call,           \* what is called: a subject and a part of its input
    input,          \* the rest of the input
    result

vars == <<call, input, result>>

NoInput == [subject |-> "none"]

Texts(alphabet, n) == UNION {[1 .. k -> alphabet] : k \in 0 .. n}

-----------------------------------------------------------------------------
(* Byte compare *)

Options(whitespace, case, lines, eol, stop) ==
    [nIgnoreWhitespace : whitespace, bIgnoreCase : case, bIgnoreBlankLines : lines,
     bIgnoreEol : eol, bStopAfterFirstDiff : stop]

Whitespace == {"none", "change", "all"}

ByteCalls ==
    [subject : {"bytes: breaks"}, options : Options(Whitespace, {FALSE}, BOOLEAN, BOOLEAN, {FALSE})]
    \union [subject : {"bytes: case", "bytes: start"},
            options : Options(Whitespace, BOOLEAN, {FALSE}, {FALSE}, BOOLEAN)]

FaultCalls ==
    [subject : {"bytes: faults"},
     options : Options({"none", "all"}, {FALSE}, {FALSE}, {FALSE}, BOOLEAN)]

Pairs(texts, n) == {p \in texts \X texts : Len(p[1]) + Len(p[2]) <= n}

(* More turns than any compare of the bounded files takes *)
Never == 20

ByteInput(files, failing, junk, unique, cancel) ==
    [files |-> files, failing |-> failing, junk |-> junk, unique |-> unique, cancel |-> cancel]

Plain(files) == ByteInput(files, <<FALSE, FALSE>>, <<"neither", "neither">>, FALSE, Never)

ByteResult(options, in) ==
    Bytes!CompareFiles(options,
                       [i \in 1 .. 2 |-> Bytes!Reader(in.files[i], in.failing[i], in.junk[i])],
                       in.unique, in.cancel)

CallBytes(subject, Inputs) ==
    /\ call.subject = subject
    /\ input = NoInput
    /\ input' \in Inputs
    /\ result' = ByteResult(call.options, input')
    /\ UNCHANGED call

CompareBreaks ==
    CallBytes("bytes: breaks",
              {Plain(files) : files \in Pairs(Texts({"a", " ", "\n", "\r"}, 3), 5)
                                            \union Pairs(Texts({"a", "1", " ", "\n", "\r"}, 3), 4)})

CompareCase ==
    CallBytes("bytes: case", {Plain(files) : files \in Pairs(Texts({"a", "A", "L", " ", "?"}, 2), 4)})

(* Whatever the kinds of code point before the first ones are *)
CompareStart ==
    CallBytes("bytes: start",
              {ByteInput(files, <<FALSE, FALSE>>, junk, FALSE, Never) :
                    files \in Pairs(Texts({"a", "A", " "}, 2), 3),
                    junk \in [1 .. 2 -> {"neither", "blank", "lead"}]})

CompareFaults ==
    CallBytes("bytes: faults",
              {in \in {ByteInput(files, failing, <<"neither", "neither">>, unique, cancel) :
                            files \in Pairs(Texts({"a", "0"}, 3), 6),
                            failing \in [1 .. 2 -> BOOLEAN], unique \in BOOLEAN,
                            cancel \in (0 .. 6) \union {Never}} :
                  in.unique => in.files[1] = in.files[2] /\ in.failing[1] = in.failing[2]})

Failing == \E i \in 1 .. 2 : input.failing[i]

(* A compare that is cancelled tells nothing. *)
Cancelled == input.cancel # Never /\ result.code = "CMPABORT"

Compared == call.subject \in {"bytes: breaks", "bytes: case", "bytes: start", "bytes: faults"}
                /\ input # NoInput

-----------------------------------------------------------------------------
(* Folders *)

FolderCalls ==
    [subject : {"folders: files"}, key : [1 .. 3 -> 1 .. 3]]
    \union [subject : {"folders: tree"}, key : {<<1, 2, 3>>, <<1, 1, 1>>}, depth : {0, -1},
            m_bWalkUniques : BOOLEAN]

FilesNamed(names) == {Folders!Entry(<<n>>, FALSE) : n \in names}

(* A name at the root may be a file or a folder with at most one entry *)
Trees ==
    LET At(n) == {{}, {Folders!Entry(<<n>>, FALSE)}, {Folders!Entry(<<n>>, TRUE)},
                  {Folders!Entry(<<n>>, TRUE), Folders!Entry(<<n, 1>>, FALSE)},
                  {Folders!Entry(<<n>>, TRUE), Folders!Entry(<<n, 3 - n>>, TRUE)}}
    IN  {a \union b : a \in At(1), b \in At(2)}

MergeFiles ==
    /\ call.subject = "folders: files"
    /\ input = NoInput
    /\ \E left, right \in SUBSET (1 .. 3) :
            input' = Folders!Scan(FilesNamed(left), FilesNamed(right), call.key, 0, FALSE, {})
    /\ result' = Folders!DirScan_GetItems(input')
    /\ UNCHANGED call

MergeTrees ==
    /\ call.subject = "folders: tree"
    /\ input = NoInput
    /\ \E left, right \in Trees, hidden \in {{}, {1}, {2}} :
            input' = Folders!Scan(left, right, call.key, call.depth, call.m_bWalkUniques, hidden)
    /\ result' = Folders!DirScan_GetItems(input')
    /\ UNCHANGED call

Merged == call.subject \in {"folders: files", "folders: tree"} /\ input # NoInput

-----------------------------------------------------------------------------
(* Panes *)

LineTexts == {<<>>, <<"a">>, <<"a", "b">>}

(* How much two lines differ: here by the difference of their lengths *)
Cost ==
    [p \in LineTexts \X LineTexts |->
        IF Len(p[1]) > Len(p[2]) THEN Len(p[1]) - Len(p[2]) ELSE Len(p[2]) - Len(p[1])]

RescanOptions(similar, trivial, context) ==
    [ignoring : BOOLEAN, similar : similar, trivial : trivial, context : context]

PaneCalls ==
    [subject : {"panes: rescan"},
     options : RescanOptions(BOOLEAN, {{}, {1}, {1, 2, 3}}, {Panes!Unlimited})
                    \union RescanOptions({FALSE}, {{}}, {0, 1})]
    \union [subject : {"panes: selection"}, trivial : SUBSET {1, 2, 3}]

FilePairs ==
    LET File(texts) == [k \in DOMAIN texts |-> Panes!Line(texts[k], k < Len(texts), FALSE)]
    IN  {<<File(p[1]), File(p[2])>> : p \in Pairs(Texts(LineTexts, 3) \ {<<>>}, 5)}

(* The lines an engine may have found to be common, in the same order on    *)
(* both sides; the empty line past the last line break is unknown to it.    *)
Matches(files, ignoring) ==
    LET lines(i) == {l \in DOMAIN files[i] : Panes!FullText(files[i][l]) # <<>>}
        equal == {m \in lines(1) \X lines(2) :
                    /\ files[1][m[1]].text = files[2][m[2]].text
                    /\ ignoring \/ files[1][m[1]].eol = files[2][m[2]].eol}
    IN  {s \in SUBSET equal :
            \A p, q \in s : p # q => (p[1] < q[1] /\ p[2] < q[2]) \/ (q[1] < p[1] /\ q[2] < p[2])}

RescanPanes ==
    /\ call.subject = "panes: rescan"
    /\ input = NoInput
    /\ \E files \in FilePairs :
            \E matches \in Matches(files, call.options.ignoring) :
                /\ input' = [files |-> files, matches |-> matches]
                /\ result' = Panes!Rescan2(files, matches, call.options, Cost)
    /\ UNCHANGED call

Rescanned == call.subject = "panes: rescan" /\ input # NoInput

(* Up to three differences in five rows *)
DiffRows == {s \in SUBSET {r \in (1 .. 5) \X (1 .. 5) : r[1] <= r[2]} :
                Cardinality(s) <= 3 /\ \A p, q \in s : p # q => p[2] < q[1] \/ q[2] < p[1]}

SelectDiffs ==
    /\ call.subject = "panes: selection"
    /\ input = NoInput
    /\ \E rows \in DiffRows, first, last, cursor \in 1 .. 5 :
        \E nCurDiff \in 0 .. Cardinality(rows) :
            LET sorted == SetToSortSeq(rows, LAMBDA p, q : p[1] < q[1])
                diffs == [k \in DOMAIN sorted |->
                            [dbegin |-> <<sorted[k][1], sorted[k][1]>>,
                             dend |-> <<sorted[k][2], sorted[k][2]>>,
                             op |-> IF k \in call.trivial THEN "trivial" ELSE "diff"]]
            IN  /\ first <= last + 1
                /\ cursor \in {first, last}
                /\ input' = [diffs |-> diffs, nCurDiff |-> nCurDiff, cursor |-> cursor,
                             first |-> first, last |-> last]
                /\ result' = [copied |-> Panes!DiffsToCopy(diffs, nCurDiff, cursor, first, last)]
    /\ UNCHANGED call

-----------------------------------------------------------------------------
(* Differences of lines, of words, and marked conflicts *)

DiffCalls ==
    [subject : {"lines"}, moved_blocks_flag : BOOLEAN, junk : {0}]
    \union [subject : {"lines: memory"}, moved_blocks_flag : {TRUE}, junk : 1 .. 3]
    \union [subject : {"words"}, case_sensitive : {TRUE}, whitespace : Whitespace, breakType : {1}]
    \union [subject : {"words: case"}, case_sensitive : BOOLEAN, whitespace : Whitespace, breakType : {0}]
    \union [subject : {"conflicts: parts", "conflicts: lines"}]

(* Files of n lines together; classes are numbered as they first appear *)
ClassedFiles(n) ==
    LET canonical == {t \in [1 .. n -> 1 .. 4] :
                        \A k \in 1 .. n : t[k] <= Max({0} \union {t[j] : j \in 1 .. k - 1}) + 1}
    IN  {<<SubSeq(t, 1, k), SubSeq(t, k + 1, n)>> : t \in canonical, k \in Max({0, n - 4}) .. Min({4, n})}

Picked(lines, picked) == [k \in 1 .. Cardinality(picked) |-> lines[SetToSortSeq(picked, <)[k]]]

(* The longest that two sequences have in common, as the engine finds it    *)
(* unless they are too long: the places where it is found on each side.     *)
Longest(files) ==
    LET pick == [s \in 1 .. 2 |-> [p \in SUBSET DOMAIN files[s] |-> Picked(files[s], p)]]
        common == {c \in (DOMAIN pick[1]) \X (DOMAIN pick[2]) :
                        Cardinality(c[1]) = Cardinality(c[2]) /\ pick[1][c[1]] = pick[2][c[2]]}
        length == Max({Cardinality(c[1]) : c \in common})
    IN  {c \in common : Cardinality(c[1]) = length}

CompareLines(subject, n) ==
    /\ call.subject = subject
    /\ input = NoInput
    /\ \E k \in 1 .. n : \E files \in ClassedFiles(k) : \E common \in Longest(files) :
            /\ input' = [files |-> files, common |-> common]
            /\ result' = Scripts!diff_2_files(files, common, call.junk, call.moved_blocks_flag)
    /\ UNCHANGED call

DiffLines == CompareLines("lines", 7)

(* Whatever lies before and behind the lines in memory *)
DiffLinesInMemory == CompareLines("lines: memory", 5)

DiffWords(subject, alphabet, n) ==
    /\ call.subject = subject
    /\ input = NoInput
    /\ \E texts \in Pairs(Texts(alphabet, n), n) :
            /\ input' = [texts |-> texts]
            /\ result' = Words!sd_ComputeWordDiffs(call, texts[1], texts[2])
    /\ UNCHANGED call

DiffWordsBreaking == DiffWords("words", {"a", " ", ","}, 6)
DiffWordsCasing == DiffWords("words: case", {"a", "A", " "}, 4)

(* A text, or a conflict of parts *)
Text == [kind |-> "text", text |-> "a"]
Conflict(mine, theirs) == [kind |-> "conflict", mine |-> mine, theirs |-> theirs]

(* Parts of at most one item, with conflicts nested up to the depth *)
RECURSIVE Parts(_)
Parts(depth) ==
    {<<>>, <<Text>>}
        \union IF depth = 0 THEN {}
               ELSE {<<Conflict(p[1], p[2])>> : p \in Parts(depth - 1) \X Parts(depth - 1)}

ConflictParts ==
    Parts(3) \union {<<item, Conflict(p[1], p[2]), Text>> :
                        item \in {Text, Conflict(<<Text>>, <<>>)}, p \in Parts(2) \X Parts(2)}

EndOfFile == <<Conflicts!Line("", "none", FALSE)>>

SplitParts ==
    /\ call.subject = "conflicts: parts"
    /\ input = NoInput
    /\ \E part \in ConflictParts :
            /\ input' = [part |-> part]
            /\ result' = Conflicts!ParseConflictFile(Conflicts!LinesOf(part) \o EndOfFile)
    /\ UNCHANGED call

(* Marks anywhere, and the end of the file at any of them *)
SplitLines ==
    /\ call.subject = "conflicts: lines"
    /\ input = NoInput
    /\ \E lines \in Texts({Conflicts!Line(text, mark, TRUE) : text \in {"", "a"},
                                    mark \in {"none", "begin", "separator", "end"}}, 4) :
            /\ input' = [lines |-> lines]
            /\ result' = Conflicts!ParseConflictFile(lines \o EndOfFile)
    /\ UNCHANGED call

-----------------------------------------------------------------------------
Init ==
    /\ call \in {c \in FolderCalls \union DiffCalls \union FaultCalls \union PaneCalls \union ByteCalls :
                    c.subject \in Subjects}
    /\ input = NoInput
    /\ result = NoInput

Next ==
    \/ CompareBreaks \/ CompareCase \/ CompareStart \/ CompareFaults
    \/ MergeFiles \/ MergeTrees
    \/ RescanPanes \/ SelectDiffs
    \/ DiffLines \/ DiffLinesInMemory \/ DiffWordsBreaking \/ DiffWordsCasing
    \/ SplitParts \/ SplitLines

Spec == Init /\ [][Next]_vars

-----------------------------------------------------------------------------
(* The byte compare reads in chunks and advances the sides separately, and  *)
(* yet tells what a comparison of the whole texts would tell, except that   *)
(* a text that goes on repeating what is stored as the last code point of   *)
(* the shorter one may pass for it: that code point, or 1 behind a line     *)
(* break that is ignored beside one of another style.  With IGNORE_CHANGE   *)
(* and ignored line breaks together no such comparison is an equivalence,   *)
(* and with IGNORE_CHANGE or ignored case the start depends on an           *)
(* uninitialized variable.                                                 *)
ResultIsExact ==
    LET same == \/ Bytes!Normal(call.options, input.files[1])
                        = Bytes!Normal(call.options, input.files[2])
                \/ \E i \in 1 .. 2 : Bytes!RepeatsEnd(call.options, input.files, i)
        settled == /\ call.options.nIgnoreWhitespace = "change" => ~ call.options.bIgnoreBlankLines
                   /\ \/ input.junk = <<"neither", "neither">>
                      \/ call.options.nIgnoreWhitespace # "change" /\ ~ call.options.bIgnoreCase
        sized == /\ call.options.bStopAfterFirstDiff /\ ~ Bytes!AnyIgnored(call.options)
                 /\ Len(input.files[1]) # Len(input.files[2])
    IN  Compared /\ ~ Failing /\ ~ Cancelled =>
            /\ settled => (result.code = "SAME") = (same /\ ~ sized)
            /\ ~ call.options.bStopAfterFirstDiff =>
                   result.stats = [i \in 1 .. 2 |-> Bytes!CountOf(input.files[i])]

(* Files that are compared byte by byte with nothing ignored are the same   *)
(* only if they are equal.                                                  *)
SameMeansEqual ==
    Compared /\ ~ Failing /\ ~ Bytes!AnyIgnored(call.options) /\ result.code = "SAME" =>
        input.files[1] = input.files[2]

(* A file that cannot be read to its end is never taken for identical, and *)
(* is reported as an error unless the reading may stop early.              *)
FailureIsReported ==
    LET stop == call.options.bStopAfterFirstDiff
    IN  Compared /\ Failing /\ ~ Cancelled =>
            /\ ~ stop => result.code = "CMPERR"
            /\ ~ (stop /\ input.unique) => result.code # "SAME"

-----------------------------------------------------------------------------
(* Files at the root pair up by the key of their names and are listed in    *)
(* its order, although the merge compares names one by one.                *)
FilesAreJoined ==
    call.subject = "folders: files" /\ Merged => Folders!FilesAreJoined(input, result)

(* The scan loses no entry and lists none twice, unless it stays out of the *)
(* folder that holds it.                                                   *)
EntriesListedOnce == Merged => Folders!EntriesListedOnce(input, result)

(* The result is the same with the sides exchanged, unless the filter hides *)
(* one of two sole folders: it is asked about the right one only.           *)
ScanIsSymmetric ==
    LET swapped == Folders!DirScan_GetItems(Folders!SwapScan(input))
        Items(items) == {items[k] : k \in DOMAIN items}
        Sole(di) == di.dir /\ Cardinality(di.sides) = 2
                        /\ call.key[Last(di.left)] # call.key[Last(di.right)]
        Hidden(di) == {Last(di.left), Last(di.right)} \intersect input.hidden # {}
    IN  Merged /\ (\A di \in Items(result) \union Items(swapped) : Sole(di) => ~ Hidden(di)) =>
            Items(swapped) = {Folders!SwapItem(di) : di \in Items(result)}

-----------------------------------------------------------------------------
(* A rescan shows both files whole and side by side: every row outside of   *)
(* the differences stands for the same text in both panes, with limited     *)
(* context, too.                                                            *)
PanesAreLevel ==
    Rescanned =>
        /\ \A i \in 1 .. 2 : Panes!HoldsFile(input.files[i], result.panes[i])
        /\ Panes!IsLevel(input.files, result)
        /\ Panes!DiffsAreInPlace(result)

(* Copying all differences, or one, is never refused and replaces exactly   *)
(* the lines of the differences, with their line breaks.  The exception is  *)
(* a pane that ends in ghost lines because lines were matched up to there   *)
(* that differ in their line break or are just similar.                     *)
CopiesAreExact ==
    LET all == {k \in DOMAIN result.diffs : Panes!Significant(result.diffs, k)}
        Exact(w, dst, copied) ==
            /\ w.ok
            /\ Panes!FileText(w.panes[dst]) = Panes!Merged(input.files, result.diffs, dst, copied)
        strict == ~ call.options.ignoring /\ ~ call.options.similar
    IN  /\ Rescanned
        /\ call.options.context = Panes!Unlimited
        /\ strict \/ \A i \in 1 .. 2 : ~ Last(result.panes[i]).ghost
        => \A dst \in 1 .. 2 :
                /\ Exact(Panes!CopyMultipleList(result, dst, 1, Len(result.diffs)), dst, all)
                /\ \A k \in all : Exact(Panes!ListCopy(result, dst, result.diffs[k]), dst, {k})

(* What is copied is the difference that is current or at the cursor, or    *)
(* every difference that lies wholly in the selected lines.  If none does,  *)
(* one that the selection touches may be copied.                            *)
SelectionIsCopied ==
    LET diffs == input.diffs
        At(l) == {k \in DOMAIN diffs : l \in diffs[k].dbegin[1] .. diffs[k].dend[1]}
        significant == {k \in DOMAIN diffs : Panes!Significant(diffs, k)}
        current == IF input.nCurDiff = 0 THEN At(input.cursor) ELSE {input.nCurDiff}
        selected == input.first .. input.last
        touched == {k \in significant : \E l \in selected : k \in At(l)}
        whole == {k \in touched : diffs[k].dbegin[1] \in selected /\ diffs[k].dend[1] \in selected}
    IN  call.subject = "panes: selection" /\ input # NoInput =>
            IF current \intersect significant # {} THEN result.copied = current
            ELSE IF input.first = input.last THEN result.copied = {}
            ELSE \/ result.copied = whole
                 \/ whole = {} /\ Cardinality(result.copied) = 1 /\ result.copied \subseteq touched
-----------------------------------------------------------------------------
(* The script turns the one file into the other, however runs of changed    *)
(* lines were shifted and split: the lines outside of its changes are equal *)
(* and as many on both sides, and as many as were found in common.          *)
ScriptIsExact ==
    LET From(k) == IF k = 0 THEN <<1, 1>> ELSE [s \in 1 .. 2 |-> result[k].line[s] + result[k].count[s]]
        To(k) == IF k = Len(result) THEN [s \in 1 .. 2 |-> Len(input.files[s]) + 1]
                 ELSE result[k + 1].line
        Between(k, s) == SubSeq(input.files[s], From(k)[s], To(k)[s] - 1)
    IN  call.subject \in {"lines", "lines: memory"} /\ input # NoInput =>
            /\ \A k \in 0 .. Len(result) :
                    /\ \A s \in 1 .. 2 : From(k)[s] <= To(k)[s]
                    /\ Between(k, 1) = Between(k, 2)
            /\ \A s \in 1 .. 2 : Cardinality(Scripts!ChangedIn(result, s))
                                    = Len(input.files[s]) - Cardinality(input.common[s])
            /\ \A k \in DOMAIN result : result[k].count # <<0, 0>>

(* A line that is shown as moved has moved to an equal line, no two lines    *)
(* to the same one, and seen from there it is the line that moved there,    *)
(* unless that one is not shown as different.  What lies in memory beside   *)
(* the lines may be taken for lines of the file, and then this fails.       *)
MovedLinesMatch ==
    call.subject = "lines" /\ input # NoInput =>
        \A s \in 1 .. 2 :
            LET other == Scripts!Other(s)
                moved == Scripts!MovedLines(result, s)
            IN  \A p \in moved :
                    /\ p[2] \in DOMAIN input.files[other]
                    /\ input.files[s][p[1]] = input.files[other][p[2]]
                    /\ \A q \in moved : p[2] = q[2] => p = q
                    /\ p[2] \in Scripts!ChangedIn(result, other) =>
                            <<p[2], p[1]>> \in Scripts!MovedLines(result, other)

(* Within a line, too, what lies outside of the differences is the same on   *)
(* both sides as far as the options tell, and the words in the differences  *)
(* are the fewest.                                                         *)
WordDiffsAreExact ==
    LET words == [s \in 1 .. 2 |-> Words!BuildWordsArray(call, input.texts[s])]
        Normal(text) ==
            LET kept == {k \in DOMAIN text :
                            \/ text[k] # " " \/ call.whitespace = "none"
                            \/ call.whitespace = "change" /\ (k = 1 \/ text[k - 1] # " ")}
            IN  Words!Folded(call, Picked(text, kept))
        Common ==
            [s \in 1 .. 2 |-> [k \in DOMAIN words[s] |->
                IF call.whitespace # "none" /\ Words!IsSpace(words[s][k]) THEN <<" ">>
                ELSE words[s][k].text]]
        Fewest(s) == Len(words[s]) - Max({Cardinality(c[1]) : c \in Longest(Common)})
        From(k) == IF k = 0 THEN <<0, 0>> ELSE result[k].end
        To(k) == IF k = Len(result) THEN [s \in 1 .. 2 |-> Len(input.texts[s])]
                 ELSE result[k + 1].start
        In(s) == {w \in DOMAIN words[s] :
                    \E k \in DOMAIN result : /\ words[s][w].start >= result[k].start[s]
                                             /\ words[s][w].end <= result[k].end[s]}
    IN  call.subject \in {"words", "words: case"} /\ input # NoInput =>
            /\ \A k \in 0 .. Len(result) :
                    /\ \A s \in 1 .. 2 : From(k)[s] <= To(k)[s]
                    /\ Normal(SubSeq(input.texts[1], From(k)[1] + 1, To(k)[1]))
                            = Normal(SubSeq(input.texts[2], From(k)[2] + 1, To(k)[2]))
            /\ call.whitespace # "all" /\ (\A s \in 1 .. 2 : Len(words[s]) <= 4) =>
                    \A s \in 1 .. 2 : Cardinality(In(s)) = Fewest(s)

=============================================================================
