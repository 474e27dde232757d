------------------------------ MODULE ShellLine ------------------------------
(***************************************************************************)
(* A line of the interactive shell (internal/pipeline, internal/shell):    *)
(* how it is split at pipes and into words, what its pipeline stages mean, *)
(* and what they do to rendered output.                                    *)
(*                                                                         *)
(* A line is a sequence of characters: the blank, the quotes, the          *)
(* backslash, the pipe, and others, which stand for themselves; a keyword  *)
(* counts as one character.  A text is a sequence of lines, each with a    *)
(* line break at its end.  A pattern is a literal, or "(" alone, which no  *)
(* regular expression is.                                                  *)
(***************************************************************************)
EXTENDS Integers, FiniteSets, SequencesExt, TLC

Blank == " "
Quotes == {"'", "\""}
Pipe == "|"
Escape == "\\"

Refused == [ok |-> FALSE, val |-> <<>>]
Accepted(x) == [ok |-> TRUE, val |-> x]

(* strings.TrimSpace                                                       *)
Trim(s) ==
  LET ink == {i \in DOMAIN s : s[i] # Blank}
  IN IF ink = {} THEN <<>>
     ELSE SubSeq(s, CHOOSE i \in ink : \A j \in ink : i <= j,
                    CHOOSE i \in ink : \A j \in ink : j <= i)

-----------------------------------------------------------------------------
(* The two scanners.  Both know whether the next character is escaped, and *)
(* the quote they are in ("" if none).                                     *)

SplitChar(s, c) ==
  LET write == [s EXCEPT !.part = Append(@, c)] IN
  CASE s.escaped -> [write EXCEPT !.escaped = FALSE]
    [] ~s.escaped /\ c = Escape -> [write EXCEPT !.escaped = TRUE]
    [] ~s.escaped /\ c \in Quotes /\ s.quote \in {"", c} ->
         [write EXCEPT !.quote = IF s.quote = c THEN "" ELSE c]
    [] ~s.escaped /\ c = Pipe /\ s.quote = "" ->
         [s EXCEPT !.parts = Append(@, Trim(s.part)), !.part = <<>>]
    [] OTHER -> write

(* Split: the parts of a line between pipes that are neither quoted nor    *)
(* escaped.                                                                *)
Split(line) ==
  LET s == FoldLeft(SplitChar, [parts |-> <<>>, part |-> <<>>, quote |-> "", escaped |-> FALSE], line)
      parts == Append(s.parts, Trim(s.part))
  IN IF s.escaped \/ s.quote # "" \/ Contains(parts, <<>>) THEN Refused ELSE Accepted(parts)

Flush(s) == IF s.inToken THEN [s EXCEPT !.args = Append(@, s.word), !.word = <<>>, !.inToken = FALSE]
                         ELSE s

ArgsChar(s, c) ==
  LET write == [s EXCEPT !.word = Append(@, c), !.inToken = TRUE] IN
  CASE s.escaped -> [write EXCEPT !.escaped = FALSE]
    [] ~s.escaped /\ c = Escape -> [s EXCEPT !.escaped = TRUE, !.inToken = TRUE]
    [] ~s.escaped /\ c \in Quotes /\ s.quote \in {"", c} ->
         [s EXCEPT !.quote = IF s.quote = c THEN "" ELSE c, !.inToken = TRUE]
    [] ~s.escaped /\ c = Blank /\ s.quote = "" -> Flush(s)
    [] OTHER -> write

(* SplitArgs: the words of a part.                                         *)
SplitArgs(part) ==
  LET s == FoldLeft(ArgsChar, [args |-> <<>>, word |-> <<>>, quote |-> "", escaped |-> FALSE,
                               inToken |-> FALSE], part)
  IN IF s.escaped \/ s.quote # "" THEN Refused ELSE Accepted(Flush(s).args)

-----------------------------------------------------------------------------
(* Pipelines                                                               *)

NoStages == [format |-> "", stages |-> <<>>]

JoinWords(words) ==
  FoldLeft(LAMBDA acc, w : acc \o <<Blank>> \o w, words[1], Tail(words))

(* regexp.Compile and MatchString, for literal patterns.                   *)
Compiles(pattern) == ~Contains(pattern, "(")
MatchString(pattern, line) ==
  \E i \in 0 .. Len(line) - Len(pattern) :
    \A k \in DOMAIN pattern : line[i + k] = pattern[k]

Counting(p) == \E i \in DOMAIN p.stages : p.stages[i].op = "count"

(* One stage of Parse, on top of the pipeline p.                           *)
ParseStage(p, args) ==
  LET op == args[1] IN
  CASE op = <<"display">> /\ Len(args) = 2 /\ args[2] \in {<<"json">>, <<"set">>}
       /\ ~Counting(p) /\ p.format = "" -> Accepted([p EXCEPT !.format = args[2][1]])
    [] op \in {<<"match">>, <<"except">>} /\ Len(args) >= 2 /\ Compiles(JoinWords(Tail(args))) ->
         Accepted([p EXCEPT !.stages = Append(@, [op |-> op[1], pattern |-> JoinWords(Tail(args))])])
    [] op = <<"count">> /\ Len(args) = 1 ->
         Accepted([p EXCEPT !.stages = Append(@, [op |-> "count", pattern |-> <<>>])])
    [] op = <<"no-more">> /\ Len(args) = 1 -> Accepted(p)
    [] OTHER -> Refused

Parse(parts) ==
  FoldLeft(LAMBDA p, part :
             LET args == SplitArgs(part) IN
             IF ~p.ok \/ ~args.ok \/ args.val = <<>> THEN Refused ELSE ParseStage(p.val, args.val),
           Accepted(NoStages), parts)

(* strings.TrimRight of the line breaks, and the lines of what is left: an *)
(* empty text has one, which is empty.                                     *)
Body(text) ==
  LET ink == {i \in DOMAIN text : text[i] # <<>>}
  IN IF ink = {} THEN <<<<>>>> ELSE SubSeq(text, 1, CHOOSE i \in ink : \A j \in ink : j <= i)

(* Whether a match or except stage keeps a line.                           *)
Keeps(stage, line) ==
  CASE stage.op = "match"  -> MatchString(stage.pattern, line)
    [] stage.op = "except" -> ~MatchString(stage.pattern, line)

FilterLines(text, stage) == SelectSeq(Body(text), LAMBDA line : Keeps(stage, line))

CountNonEmptyLines(text) == IF Body(text) = <<<<>>>> THEN 0 ELSE Len(Body(text))

CountLine(n) == <<"Count:", Blank, ToString(n), Blank, "lines">>

Apply(p, text) ==
  FoldLeft(LAMBDA out, stage : IF stage.op = "count" THEN <<CountLine(CountNonEmptyLines(out))>>
                               ELSE FilterLines(out, stage), text, p.stages)

-----------------------------------------------------------------------------
(* ParseLine                                                               *)

(* A line that begins as a check is rejected by the profile, not here.     *)
RejectCheck(line) ==
  [kind |-> IF IsPrefix(<<"check", Blank>>, Trim(line)) THEN "rejected" ELSE "error"]

(* What a line is before command.ParseTokens reads its words.              *)
ParseLine(line) ==
  LET parts == Split(line)
      pipe == Parse(Tail(parts.val))
      args == SplitArgs(parts.val[1])
  IN CASE ~parts.ok -> RejectCheck(line)
       [] parts.ok /\ ~(pipe.ok /\ args.ok) -> RejectCheck(line)
       [] parts.ok /\ pipe.ok /\ args.ok /\ args.val = <<>> -> [kind |-> "noop"]
       [] parts.ok /\ pipe.ok /\ args.ok /\ args.val # <<>> /\ args.val[1] \in {<<"exit">>, <<"quit">>} ->
            [kind |-> IF Len(args.val) = 1 THEN "exit" ELSE "error"]
       [] OTHER -> [kind |-> "tokens", args |-> args.val, pipeline |-> pipe.val]

-----------------------------------------------------------------------------
(* Properties                                                              *)

Special == Quotes \cup {Pipe, Escape, Blank}

Escaped(w, chars) ==
  FoldLeft(LAMBDA acc, c : acc \o IF c \in chars THEN <<Escape, c>> ELSE <<c>>, <<>>, w)

(* A word written between quotes c, or with every special character        *)
(* escaped where c is the backslash.                                       *)
Written(w, c) ==
  IF c = Escape THEN Escaped(w, Special) ELSE <<c>> \o Escaped(w, {c, Escape}) \o <<c>>

WriteWords(words, c) == JoinWords([i \in DOMAIN words |-> Written(words[i], c)])

(* Split's and SplitArgs' comments: pipes inside quotes are preserved and  *)
(* quotes removed.  Two commands of any words, joined by a pipe, come back *)
(* word by word.  Without quotes there is no empty word, and an escaped    *)
(* blank at the end of a part is trimmed off.                              *)
QuotingFaithful(left, right, c) ==
  LET line == WriteWords(left, c) \o <<Blank, Pipe, Blank>> \o WriteWords(right, c)
      parts == Split(line)
  IN (c = Escape => /\ <<>> \notin ToSet(left) \cup ToSet(right)
                    /\ Last(Last(left)) # Blank /\ Last(Last(right)) # Blank) =>
     /\ parts.ok /\ Len(parts.val) = 2
     /\ SplitArgs(parts.val[1]) = Accepted(left)
     /\ SplitArgs(parts.val[2]) = Accepted(right)

(* The two scanners agree on what is quoted and escaped: what Split lets   *)
(* pass SplitArgs can read, but for a part that ends in an escaped blank,  *)
(* and a line without an open pipe is read alike by both.                  *)
ScannersAgree(line) ==
  LET parts == Split(line) IN
  /\ parts.ok => \A i \in DOMAIN parts.val :
       SplitArgs(parts.val[i]).ok \/ Last(parts.val[i]) = Escape
  /\ parts.ok /\ Len(parts.val) = 1 /\ Last(parts.val[1]) # Escape =>
       SplitArgs(parts.val[1]) = SplitArgs(line)
  /\ SplitArgs(line).ok => parts.ok \/ Pipe \in ToSet(line) \/ Trim(line) = <<>>

(* Parse's and Apply's comments: at most one display, before any count;    *)
(* display and no-more leave the text alone; filters keep exactly the      *)
(* lines that every one of them keeps, in their order, and a count after   *)
(* them counts those.  The stages of a line do not touch its command.      *)
PipelineExact(stages, text) ==
  LET ops    == [i \in DOMAIN stages |-> stages[i][1]]
      places(op) == {i \in DOMAIN ops : ops[i] = op}
      parts  == [i \in DOMAIN stages |-> WriteWords(stages[i], "'")]
      p      == Parse(parts)
      filters == SelectSeq(p.val.stages, LAMBDA s : s.op # "count")
      kept   == SelectSeq(text, LAMBDA l : \A i \in DOMAIN filters :
                  MatchString(filters[i].pattern, l) = (filters[i].op = "match"))
      ink    == SelectSeq(kept, LAMBDA l : l # <<>>)
      line   == FoldLeft(LAMBDA acc, part : acc \o <<Pipe>> \o part, <<"ping">>, parts)
  IN /\ ParseLine(line) = IF p.ok THEN [kind |-> "tokens", args |-> <<<<"ping">>>>, pipeline |-> p.val]
                           ELSE [kind |-> "error"]
     /\ p.ok <=> \A i, j \in places(<<"display">>) :
                   i = j /\ \A k \in places(<<"count">>) : i < k
     /\ p.ok /\ places(<<"count">>) = {} =>
          SelectSeq(Apply(p.val, text), LAMBDA l : l # <<>>) = ink
     /\ p.ok /\ places(<<"count">>) # {} /\ ink = kept /\ ops[Len(ops)] = <<"count">>
        /\ Cardinality(places(<<"count">>)) = 1 =>
          Apply(p.val, text) = <<CountLine(Len(kept))>>
=============================================================================
