----------------------------- MODULE ExecPreflight -----------------------------
(***************************************************************************)
(* What exec decides about a command before it runs                        *)
(* (src/tools/builtin/exec.rs): the command is split into shell words, and *)
(* runs in the sandbox unless the preflight cannot follow it, it uses      *)
(* network tooling, or a file it writes lies outside the writable roots.   *)
(*                                                                         *)
(* Commands are sequences of characters for the tokenizer ("LF" is the     *)
(* newline, a blank to it) and sequences of tokens for the verdict; a path *)
(* is a word of WriteTargets.                                              *)
(***************************************************************************)
EXTENDS ToolArguments, FiniteSets, FiniteSetsExt, SequencesExt

Token(kind, text) == [kind |-> kind, text |-> text]
Blanks == {" ", "LF"}
Operators == {"&", "|", ";", ">", "<"}
Doubled == {"&", "|", ">", "<"}

-----------------------------------------------------------------------------
(* Words                                                                    *)

Scanner == [mode |-> "plain", current |-> <<>>, tokens |-> <<>>]

PushWordToken(scan) ==
    IF scan.current = <<>> THEN scan
    ELSE [scan EXCEPT !.current = <<>>,
                      !.tokens = Append(@, Token("word", scan.current))]

Keep(scan, ch) == [scan EXCEPT !.current = Append(@, ch)]
Enter(scan, mode) == [scan EXCEPT !.mode = mode]

\* An operator; the same character right after it makes it a double one.
PushOperator(scan, ch) ==
    [PushWordToken(scan) EXCEPT
        !.mode = IF ch \in Doubled THEN "operator" ELSE "plain",
        !.tokens = Append(@, Token("operator", <<ch>>))]

IsRepeat(scan, ch) == Last(scan.tokens).text = <<ch>>
DoubleOperator(scan, ch) ==
    [scan EXCEPT !.mode = "plain",
                 !.tokens = Append(Front(@), Token("operator", <<ch, ch>>))]

ScanPlain(scan, ch) ==
    CASE ch = "'" -> Enter(scan, "single")
      [] ch = "\"" -> Enter(scan, "double")
      [] ch = "\\" -> Enter(scan, "escape")
      [] ch \in Blanks -> Enter(PushWordToken(scan), "plain")
      [] ch \in Operators -> PushOperator(scan, ch)
      [] OTHER -> Keep(Enter(scan, "plain"), ch)

ScanChar(scan, ch) ==
    CASE scan.mode = "single" ->
           IF ch = "'" THEN Enter(scan, "plain") ELSE Keep(scan, ch)
      [] scan.mode = "double" ->
           (CASE ch = "\"" -> Enter(scan, "plain")
              [] ch = "\\" -> Enter(scan, "double escape")
              [] OTHER -> Keep(scan, ch))
      [] scan.mode = "double escape" -> Keep(Enter(scan, "double"), ch)
      [] scan.mode = "escape" -> Keep(Enter(scan, "plain"), ch)
      [] scan.mode = "operator" /\ IsRepeat(scan, ch) -> DoubleOperator(scan, ch)
      [] OTHER -> ScanPlain(scan, ch)

Unparsed == << Token("error", <<>>) >>

\* An open quote is an error; a backslash at the very end is dropped.
TokenizeShellCommand(command) ==
    LET end == FoldLeft(ScanChar, Scanner, command)
    IN IF end.mode \in {"single", "double", "double escape"} THEN Unparsed
       ELSE PushWordToken(end).tokens

-----------------------------------------------------------------------------
(* The verdict                                                              *)

Separators == {"&&", "||", ";", "|"}
Redirections == {">", ">>"}
NetworkTools == {"curl"}
HighRisk == {"chmod"}
EveryArgument == {"rm"}
LastArgument == {"cp"}
Assignments == {"A=1"}
Flags == {"-f", "-"}
WriteTargets == {"inside", "outside", "glob*"}

IsWord(token) == token.kind = "word"
Plain(token) == IsWord(token) /\ token.text \notin Flags

\* Segments end at a separator and empty ones are left out: the text decides, so
\* a quoted separator counts too.
EndSegment(acc) ==
    IF acc.current = <<>> THEN acc
    ELSE [done |-> Append(acc.done, acc.current), current |-> <<>>]
SegmentToken(acc, token) ==
    IF token.text \in Separators THEN EndSegment(acc)
    ELSE [acc EXCEPT !.current = Append(@, token)]
NoSegments == [done |-> <<>>, current |-> <<>>]
SplitShellSegments(tokens) ==
    EndSegment(FoldLeft(SegmentToken, NoSegments, tokens)).done

\* A glob cannot be judged; anything else must resolve below a writable root.
ClassifyWriteTarget(target) == target = "outside" \/ target = "glob*"

\* Where the words from start on are, and those that are no flags.
WordIndexes(segment, start) == {i \in start..Len(segment) : IsWord(segment[i])}
NonFlagWordIndexes(segment, start) == {i \in start..Len(segment) : Plain(segment[i])}

SegmentCommandName(segment) ==
    LET names == {i \in WordIndexes(segment, 1) : segment[i].text \notin Assignments}
    IN IF names = {} THEN "" ELSE segment[Min(names)].text

\* The arguments a command writes; the command's own position is where its
\* name first stands.
WriteTargetIndexes(name, segment) ==
    LET at == Min({i \in WordIndexes(segment, 1) : segment[i].text = name})
        words == NonFlagWordIndexes(segment, at + 1)
    IN CASE name \in EveryArgument -> words
         [] name \in LastArgument /\ words # {} -> {Max(words)}
         [] name = "ln" /\ Cardinality(words) >= 2 -> {Max(words)}
         [] OTHER -> {}

\* Whether a redirection goes where it must be asked about, or nowhere.
RedirectsOut(segment, i) ==
    LET next == WordIndexes(segment, i + 1)
    IN /\ segment[i].text \in Redirections
       /\ next = {} \/ ClassifyWriteTarget(segment[Min(next)].text)

\* Whether a segment has to be asked about.
ClassifySegmentWriteAccess(segment) ==
    LET name == SegmentCommandName(segment)
    IN \/ \E i \in DOMAIN segment : RedirectsOut(segment, i)
       \/ name # "" /\ name \in HighRisk
       \/ name # "" /\ \E i \in WriteTargetIndexes(name, segment) :
                           ClassifyWriteTarget(segment[i].text)

\* Slip: only the first command of a line is judged.
ClassifyFirstSegment(tokens, network, ambiguous) ==
    IF \/ ambiguous \/ tokens = <<>> \/ tokens = Unparsed
       \/ SplitShellSegments(tokens) # <<>>
          /\ ClassifySegmentWriteAccess(SplitShellSegments(tokens)[1])
    THEN "ask" ELSE "sandboxed"
ClassifyExecCommandAccess(tokens, network, ambiguous) ==
    IF \/ ambiguous \/ tokens = <<>> \/ tokens = Unparsed
       \/ ~network /\ \E i \in DOMAIN tokens :
              IsWord(tokens[i]) /\ tokens[i].text \in NetworkTools
       \/ \E i \in DOMAIN SplitShellSegments(tokens) :
              ClassifySegmentWriteAccess(SplitShellSegments(tokens)[i])
    THEN "ask" ELSE "sandboxed"

-----------------------------------------------------------------------------
(* Questions                                                                *)

Characters == {"a", " ", "'", "\"", "\\", ">"}
NonEmptyWords(n) == SeqOf(Characters, n) \ {<<>>}

AskWords == \E first \in NonEmptyWords(2), second \in NonEmptyWords(2) :
    Put("words", <<first, second>>)

Word(text) == Token("word", text)
Pieces == {Word(t) : t \in {"rm", "cp", "-f", "A=1", "inside", "outside"}}
          \cup {Token("operator", ">")}
OtherCommands ==
    {<<>>, <<Word("echo"), Word("outside")>>, <<Word("curl")>>, <<Word("chmod")>>,
     <<Word("rm"), Word("inside"), Word("glob*")>>,
     <<Word("cp"), Word("outside"), Word("inside")>>,
     <<Word("ln"), Word("outside")>>, <<Word("ln"), Word("inside"), Word("outside")>>}
AskVerdict ==
    \E before \in SeqOf(Pieces, 3), after \in OtherCommands, network \in BOOLEAN :
        Put("verdict", [before |-> before, after |-> after, network |-> network])

\* The ways to write a word so that a shell reads it as it stands (it would drop
\* an escaped newline).
EscapeChar(text, ch) == text \o <<"\\", ch>>
Escaped(word) == FoldLeft(EscapeChar, <<>>, word)
QuoteChar(text, ch) ==
    IF ch \in {"\"", "\\"} THEN EscapeChar(text, ch) ELSE Append(text, ch)
InDouble(word) == Append(FoldLeft(QuoteChar, <<"\"">>, word), "\"")
InSingle(word) == <<"'">> \o word \o <<"'">>
Quotings(word) ==
    {InDouble(word)}
    \cup (IF Contains(word, "LF") THEN {} ELSE {Escaped(word)})
    \cup (IF Contains(word, "'") THEN {} ELSE {InSingle(word)})

\* Two words come back as they were meant: apart, together, or on the two sides
\* of an operator.
Joins == {<<"&", "&">>, <<"|", "|">>, <<"&">>, <<"|">>, <<";">>}
BothAreKept(first, second) ==
    \A one \in Quotings(first), two \in Quotings(second) :
        /\ \A gap \in Blanks :
               TokenizeShellCommand(one \o <<gap>> \o two)
                   = <<Token("word", first), Token("word", second)>>
        /\ TokenizeShellCommand(one \o two)
               = <<Token("word", first \o second)>>
        /\ \A join \in Joins :
               TokenizeShellCommand(one \o join \o two)
                   = <<Token("word", first), Token("operator", join),
                       Token("word", second)>>
        /\ TokenizeShellCommand(one \o <<"'">>) = Unparsed

WordsAreKept ==
    Asked("words") => BothAreKept(question.input[1], question.input[2])

\* A line of commands apart by a separator is asked about exactly when one of
\* them is, and moving a target out of the writable roots never makes a line
\* acceptable.
Accepted(tokens, network) ==
    ClassifyExecCommandAccess(tokens, network, FALSE) = "sandboxed"
Joined(before, join, after) == before \o <<Token("operator", join)>> \o after
MovedOut(token) == IF token.text = "inside" THEN [token EXCEPT !.text = "outside"] ELSE token
Moved(tokens) == [i \in DOMAIN tokens |-> MovedOut(tokens[i])]
JudgedByEach(before, after, network) ==
    \A join \in Separators :
        LET line == Joined(before, join, after)
        IN /\ before # <<>> /\ after # <<>> =>
                  (Accepted(line, network)
                     <=> Accepted(before, network) /\ Accepted(after, network))
           /\ Accepted(Moved(line), network) => Accepted(line, network)

\* A lone & and a newline do not separate: what follows is judged as arguments
\* of what stands before.  Its network tools and redirections are still seen.
OneCommand(tokens) == \A i \in DOMAIN tokens : tokens[i].text \notin Separators
RunsOn(before, after) ==
    {before \o after, before \o <<Token("operator", "&")>> \o after}
JudgedInPart(before, after, network) ==
    OneCommand(after) =>
        \A line \in RunsOn(before, after) : Accepted(line, network) =>
            \A i \in DOMAIN after :
                /\ network \/ ~IsWord(after[i]) \/ after[i].text \notin NetworkTools
                /\ ~RedirectsOut(after, i)

VerdictIsOfEveryCommand ==
    Asked("verdict") =>
        LET q == question.input
        IN /\ JudgedByEach(q.before, q.after, q.network)
           /\ JudgedInPart(q.before, q.after, q.network)

\* exec judges every command that it separates from the others: a quoted or
\* escaped word comes back whole, a line apart by && || ; or | is judged by
\* every part of it, and arguments keep their limits
\* (src/tools/builtin/exec.rs:227-652, common.rs).  The shell also starts a
\* command after a lone & and after a newline (common.rs:366): of those only
\* the network tools and the redirections are judged.
CommandIsJudgedByParts ==
    /\ WordsAreKept /\ VerdictIsOfEveryCommand
    /\ ArgumentsAreBounded /\ OutputAddsUp

\* The questions about commands by themselves.
CommandsAsked == AskArguments \/ AskOutput \/ AskWords \/ AskVerdict
ExecSpec == QuestionInit /\ [][CommandsAsked]_question

=============================================================================
