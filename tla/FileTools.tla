------------------------------ MODULE FileTools ------------------------------
(***************************************************************************)
(* What the file tools show and write (src/tools/builtin/read.rs, edit.rs, *)
(* list.rs, grep.rs, glob.rs and the guests under sandbox/): windows of a  *)
(* file, edits, trees and search results.  The guests repeat the code.     *)
(* Where the copies are the same line by line (edit, grep, glob) one       *)
(* definition stands for both; those of read and list are modelled twice.  *)
(* Layout is left out; an output is what it tells the model.               *)
(***************************************************************************)
EXTENDS Naturals, Sequences, FiniteSets, SequencesExt, Questions

CONSTANTS
    ShownLimit,     \* DEFAULT_LIMIT of grep and glob, LIMIT of list
    MaxFileLines    \* bound: lines of a file, entries of a directory

ASSUME FileToolsAssumption == {ShownLimit, MaxFileLines} \subseteq Nat \ {0}

-----------------------------------------------------------------------------
(* read                                                                     *)

OutOfRange == [shown |-> {0}, next |-> 0]

\* Slip: the window that ends one line short counts as the end.
RenderFileShort(total, offset, limit) ==
    LET last == IF offset + limit - 1 < total THEN offset + limit - 1 ELSE total
    IN [shown |-> offset..last, next |-> IF last + 1 < total THEN last + 1 ELSE 0]

\* The lines shown and the offset named to continue (0: end of file).
RenderFileOutput(total, offset, limit) ==
    LET last == IF offset + limit - 1 < total THEN offset + limit - 1 ELSE total
    IN IF (total = 0 /\ offset # 1) \/ (total > 0 /\ offset > total)
       THEN OutOfRange
       ELSE [shown |-> offset..last,
             next |-> IF last < total THEN last + 1 ELSE 0]

RenderDirectoryOutput(total, offset, limit) ==
    LET count == Cardinality({k \in 1..total : offset <= k /\ k < offset + limit})
    IN [shown |-> offset..(offset + count - 1),
        next |-> IF offset - 1 + count < total THEN offset + count ELSE 0]

Render(dir, total, offset, limit) ==
    IF dir THEN RenderDirectoryOutput(total, offset, limit)
    ELSE RenderFileOutput(total, offset, limit)

\* The guest's copies.
Selected(total, offset, limit) ==
    Cardinality({k \in 1..total : k > offset - 1 /\ k <= offset - 1 + limit})

GuestRenderFileOutput(total, offset, limit) ==
    LET last == offset - 1 + Selected(total, offset, limit)
    IN IF offset > total /\ (total # 0 \/ offset # 1) THEN OutOfRange
       ELSE [shown |-> offset..last, next |-> IF last < total THEN last + 1 ELSE 0]

GuestRenderDirectoryOutput(total, offset, limit) ==
    LET selected == Selected(total, offset, limit)
    IN [shown |-> offset..(offset - 1 + selected),
        next |-> IF offset - 1 + selected < total THEN offset + selected ELSE 0]

GuestRender(dir, total, offset, limit) ==
    IF dir THEN GuestRenderDirectoryOutput(total, offset, limit)
    ELSE GuestRenderFileOutput(total, offset, limit)

\* The windows of a reader who follows the hints.
Windows(dir, total, limit) ==
    LET W[n \in 1..(total + 1)] ==
            IF n = 1 THEN Render(dir, total, 1, limit)
            ELSE IF W[n - 1].next = 0 THEN [shown |-> {}, next |-> 0]
            ELSE Render(dir, total, W[n - 1].next, limit)
    IN W

-----------------------------------------------------------------------------
(* edit                                                                     *)

EndOfLine == <<"CR", "LF">>
MatchesAt(text, part, i) ==
    i + Len(part) - 1 <= Len(text)
        /\ SubSeq(text, i, i + Len(part) - 1) = part

\* str::replace, left to right without overlap.
ReplaceText(text, old, new) ==
    LET R[i \in 1..(Len(text) + Len(old) + 1)] ==
            IF i > Len(text) THEN <<>>
            ELSE IF MatchesAt(text, old, i) THEN new \o R[i + Len(old)]
            ELSE <<text[i]>> \o R[i + 1]
    IN R[1]

\* str::match_indices counts occurrences that do not overlap.
CountMatches(text, old) ==
    Len(SelectSeq(ReplaceText(text, old, <<"!">>), LAMBDA ch : ch = "!"))

NormalizeLineEndings(text) == ReplaceText(text, EndOfLine, <<"LF">>)
DetectLineEnding(text) ==
    IF \E i \in DOMAIN text : MatchesAt(text, EndOfLine, i)
    THEN EndOfLine ELSE <<"LF">>
ConvertToLineEnding(text, ending) ==
    IF ending = <<"LF">> THEN text ELSE ReplaceText(text, <<"LF">>, ending)

NotApplied == <<"error">>

\* replacen(.., 1) only happens when there is one match.  (An empty old text
\* writes the file anew.)
ApplyEdit(text, old, new, all) ==
    LET ending == DetectLineEnding(text)
        wanted == ConvertToLineEnding(NormalizeLineEndings(old), ending)
        given == ConvertToLineEnding(NormalizeLineEndings(new), ending)
        found == CountMatches(text, wanted)
    IN IF old = <<>> THEN new
       ELSE IF found = 0 \/ (found > 1 /\ ~all) THEN NotApplied
       ELSE ReplaceText(text, wanted, given)

-----------------------------------------------------------------------------
(* list                                                                     *)

\* The walk's entries, parents first, without ignored ones; nothing more is
\* recorded once LIMIT files have been.
Recorded(walk) ==
    {walk[i] : i \in {k \in DOMAIN walk :
        Cardinality({j \in 1..(k - 1) : ~walk[j].dir}) < ShownLimit}}

Dot == <<".">>
\* Path::parent of a top-level entry is the empty path.
Parent(path) == SubSeq(path, 1, Len(path) - 1)
NormalizeDirKey(path) == IF path = <<>> THEN Dot ELSE path

\* render_dir from the root: what is below a shown directory and filed under
\* its key is shown; dirs holds the parents of every directory too.
Shown(recorded, normalized) ==
    LET keyOf(e) == IF normalized THEN NormalizeDirKey(Parent(e.path))
                                  ELSE Parent(e.path)
        S[depth \in 0..3] ==
            IF depth = 0 THEN {e \in recorded : keyOf(e) = Dot}
            ELSE S[depth - 1] \cup
                 {e \in recorded : \E d \in S[depth - 1] :
                                       d.dir /\ d.path = keyOf(e)}
    IN S[3]

RunList(walk) == Shown(Recorded(walk), FALSE)

GuestRunList(walk) == Shown(Recorded(walk), TRUE)

-----------------------------------------------------------------------------
(* grep and glob                                                            *)

\* Every match of every file, in the order of the walk.
CollectMatches(files) ==
    FlattenSeq([i \in DOMAIN files |->
        [k \in 1..files[i].hits |-> [file |-> i, time |-> files[i].time]]])

\* sort_by is stable.
NewestFirst(items) ==
    LET before(i, k) == \/ items[i].time > items[k].time
                        \/ items[i].time = items[k].time /\ i < k
        place(i) == 1 + Cardinality({k \in DOMAIN items : before(k, i)})
    IN [n \in DOMAIN items |-> items[CHOOSE i \in DOMAIN items : place(i) = n]]

Take(items) == SubSeq(items, 1, IF Len(items) < ShownLimit
                                THEN Len(items) ELSE ShownLimit)

\* A heading whenever the file changes, and the number of all matches.
RunGrep(files) ==
    LET chosen == Take(NewestFirst(CollectMatches(files)))
    IN [found |-> Len(CollectMatches(files)), chosen |-> chosen,
        headings |-> SelectSeq([i \in DOMAIN chosen |->
            IF i > 1 /\ chosen[i - 1].file = chosen[i].file THEN 0
            ELSE chosen[i].file], LAMBDA f : f # 0)]

\* Nothing says that a glob was cut off.
RunGlob(files) ==
    Take(NewestFirst([i \in DOMAIN files |-> [file |-> i, time |-> files[i].time]]))

-----------------------------------------------------------------------------
(* Questions                                                                *)

AskRead ==
    \E dir \in BOOLEAN, total \in 0..MaxFileLines, limit \in 1..MaxFileLines,
       offset \in 1..(MaxFileLines + 2) :
        Put("read", [dir |-> dir, total |-> total, limit |-> limit, offset |-> offset])

Lines(n) == {FlattenSeq(s) : s \in SeqOf({<<"a">>, <<"LF">>, EndOfLine}, n)}

AskEdit ==
    \E text \in Lines(3), old \in Lines(2), new \in Lines(1), all \in BOOLEAN :
        /\ old # new
        /\ Put("edit", [text |-> text, old |-> old, new |-> new, all |-> all])

Entries == {[path |-> p, dir |-> TRUE] : p \in {<<"a">>, <<"a", "b">>}} \cup
           {[path |-> p, dir |-> FALSE] :
               p \in {<<"x">>, <<"a", "y">>, <<"a", "b", "z">>}}

AskList ==
    \E walk \in SetToAllKPermutations(Entries) :
        /\ \A i \in DOMAIN walk : Len(walk[i].path) > 1 =>
               \E k \in 1..(i - 1) : walk[k].dir
                                     /\ walk[k].path = Parent(walk[i].path)
        /\ Put("list", walk)

AskSearch ==
    \E files \in SeqOf([time : 1..2, hits : 0..2], 3) : Put("search", files)

\* Wherever the window starts: only a file is an error beyond its end, an empty
\* one from line 2; a window shows the lines that are there, and names the line
\* after it if there is one; and the guest answers as the host.
WindowIsExact ==
    Asked("read") =>
        LET q == question.input
            window == Render(q.dir, q.total, q.offset, q.limit)
        IN /\ GuestRender(q.dir, q.total, q.offset, q.limit) = window
           /\ IF ~q.dir /\ q.offset \notin 1..q.total \cup {1}
              THEN window = OutOfRange
              ELSE /\ window.shown = (1..q.total) \ {k \in 1..q.total :
                          k < q.offset \/ k >= q.offset + q.limit}
                   /\ window.next = IF q.offset + q.limit <= q.total
                                    THEN q.offset + q.limit ELSE 0

ReadCoversAll ==
    Asked("read") =>
        LET q == question.input
            windows == Windows(q.dir, q.total, q.limit)
            shown(n) == windows[n].shown \cap (1..q.total)
        IN /\ \A n \in DOMAIN windows : windows[n] # OutOfRange
           /\ UNION {shown(n) : n \in DOMAIN windows} = 1..q.total
           /\ \A n, m \in DOMAIN windows :
                  n < m => \A i \in shown(n), k \in shown(m) : i < k
           /\ windows[q.total + 1].next = 0

EditIgnoresLineEndings ==
    Asked("edit") =>
        LET q == question.input
            plain == NormalizeLineEndings(q.text)
            result == ApplyEdit(q.text, q.old, q.new, q.all)
            uniform(text) == NormalizeLineEndings(text) = text
                \/ ConvertToLineEnding(NormalizeLineEndings(text), EndOfLine) = text
        IN q.old # <<>> /\ uniform(q.text) =>
               /\ DetectLineEnding(q.text) = EndOfLine =>
                      \A i \in DOMAIN result :
                          result[i] = "LF" => i > 1 /\ result[i - 1] = "CR"
               /\ NormalizeLineEndings(result)
                      = ApplyEdit(plain, NormalizeLineEndings(q.old),
                                  NormalizeLineEndings(q.new), q.all)

GuestListsTree ==
    Asked("list") => GuestRunList(question.input) = Recorded(question.input)

\* "Recursively walks from the given path" (the description of list,
\* src/tools/builtin/list.rs:64): outside the sandbox too, list shows what its
\* walk recorded.
DirectListsTree ==
    Asked("list") => RunList(question.input) = Recorded(question.input)

SearchIsGrouped ==
    Asked("search") =>
        LET grep == RunGrep(question.input)
            glob == RunGlob(question.input)
        IN /\ \A i, k \in DOMAIN grep.headings :
                  grep.headings[i] = grep.headings[k] => i = k
           /\ \A i \in DOMAIN question.input :
                  \/ question.input[i].hits = 0 \/ Contains(grep.headings, i)
                  \/ /\ grep.found > ShownLimit
                     /\ \A k \in DOMAIN grep.chosen :
                            grep.chosen[k].time >= question.input[i].time
           /\ \A i, k \in DOMAIN glob : i < k => glob[i].time >= glob[k].time

\* What read, edit, grep and glob, and list in the sandbox, tell the model is
\* what is there: any window of read shows its lines and the way on, in both
\* copies, and following the hints shows every line and entry once, in order,
\* and ends (render_file_output, render_directory_output); an edit means the
\* same in a file of either kind of line ending, not both, and keeps that kind
\* (apply_edit_at_path); a guest's list shows all that its walk recorded and
\* nothing else (render_dir; the direct list does not: DirectListsTree); and a
\* search groups its matches by file and leaves out only older ones (run_grep).
FileToolsAreExact ==
    /\ WindowIsExact /\ ReadCoversAll
    /\ EditIgnoresLineEndings
    /\ GuestListsTree
    /\ SearchIsGrouped

ListsSpec == QuestionInit /\ [][AskList]_question

=============================================================================
