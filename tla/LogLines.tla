------------------------------ MODULE LogLines ------------------------------
(***************************************************************************)
(* steam-runtime-tools/logger.c, _srt_logger_process(): the input of the   *)
(* logger is split into lines, each with a level.  Sinks for lines (a file, *)
(* the Journal) get complete lines; sinks for a person (a terminal) get     *)
(* each part of a line as soon as its level is known.  A line that does not *)
(* fit into the buffer is cut.  read() returns any number of bytes.        *)
(***************************************************************************)
EXTENDS Integers, Sequences, FiniteSets

CONSTANTS
    BufSize,       \* LINE_MAX
    Directive,     \* "remaining-lines-assume-level=", some bytes
    LevelOf,       \* a function: bytes that are digits -> levels
    MaxLevel,      \* LOG_DEBUG
    DefaultLevel,
    Inputs         \* bound: what may be written to the logger

Newline == "\n"

ASSUME BufferAssumption ==   \* LINE_MAX is 2048, and a directive has 32 bytes
    BufSize \in Nat /\ BufSize > Len(Directive) + 3

\* A directive cannot be taken for a level, nor what is looked for for another byte.
ASSUME BytesAssumption ==
    /\ Directive \in Seq(STRING) /\ Directive # <<>>
    /\ Head(Directive) \notin DOMAIN LevelOf
    /\ \A i \in 1..Len(Directive) : Directive[i] # Newline
    /\ Newline \in STRING /\ {Newline, ">"} \cap DOMAIN LevelOf = {}
    /\ \A c \in DOMAIN LevelOf : LevelOf[c] \in Nat
    /\ MaxLevel \in Nat /\ DefaultLevel \in 0..MaxLevel
    /\ \A s \in Inputs : s \in Seq(STRING)

VARIABLES
    input,         \* history: all of the input
    rest,          \* what has not been read
    parsing,       \* history: the option --parse-level-prefix
    parse,         \* parse_level_prefix
    default,       \* default_level
    buf,           \* what is in the buffer: buf[0..filled-1]
    processed,     \* already_processed_partial_line
    prefix,        \* parsed_level_prefix_size
    level,         \* line_level
    loop,            \* "read", "split": in the inner loop, "done"
    eof,           \* the last read() returned 0
    lines,         \* history: [level, text] of logger_process_complete_line()
    shown          \* history: [level, byte] of logger_process_partial_line()

lineVars  == <<parse, default, processed, prefix, level>>
linesVars == <<input, parsing, rest, buf, lineVars, loop, eof, lines, shown>>

-----------------------------------------------------------------------------
(* logger_parse_level_prefix().                                            *)
StartsWith(s, t) == Len(t) <= Len(s) /\ SubSeq(s, 1, Len(t)) = t

Drop(s, n) == SubSeq(s, n + 1, Len(s))

Unprefixed   == [size |-> 0, level |-> default, parse |-> parse, default |-> default]
NotEnough    == [size |-> -1, level |-> level, parse |-> parse, default |-> default]
Prefixed(n, l) == [size |-> n, level |-> l, parse |-> parse, default |-> default]
Directed(n, l) == [size |-> n, level |-> l, parse |-> FALSE, default |-> l]

IsDigit(c) == c \in DOMAIN LevelOf

\* After "<": a level, ">", and nothing else in the line of a directive.
ParseLevel(s, done, directed) ==
    IF s = <<>> THEN NotEnough
    ELSE IF ~IsDigit(Head(s)) \/ LevelOf[Head(s)] > MaxLevel THEN Unprefixed
    ELSE IF Len(s) = 1 THEN NotEnough
    ELSE IF s[2] # ">" THEN Unprefixed
    ELSE IF ~directed THEN Prefixed(done + 2, LevelOf[Head(s)])
    ELSE IF Len(s) = 2 THEN NotEnough
    ELSE IF s[3] # Newline THEN Unprefixed
    ELSE Directed(done + 3, LevelOf[Head(s)])

ParseLevelPrefix(s) ==
    LET after == Tail(s) IN
    IF ~parse THEN Unprefixed
    ELSE IF s = <<>> THEN NotEnough
    ELSE IF Head(s) # "<" THEN Unprefixed
    ELSE IF StartsWith(after, Directive)
    THEN ParseLevel(Drop(after, Len(Directive)), 1 + Len(Directive), TRUE)
    ELSE IF StartsWith(Directive, after) THEN NotEnough
    ELSE ParseLevel(after, 1, FALSE)

-----------------------------------------------------------------------------
LinesInit ==
    /\ input \in Inputs /\ rest = input
    /\ parsing \in BOOLEAN /\ parse = parsing /\ default = DefaultLevel
    /\ buf = <<>> /\ processed = 0 /\ prefix = -1 /\ level = DefaultLevel
    /\ loop = "read" /\ eof = FALSE
    /\ lines = <<>> /\ shown = <<>>

\* read() returns at least one byte unless there are no more.
Read ==
    /\ loop = "read" /\ loop' = "split"
    /\ \E n \in 0..Len(rest) :
          /\ n <= BufSize - Len(buf)
          /\ n = 0 <=> rest = <<>>
          /\ buf' = buf \o SubSeq(rest, 1, n)
          /\ rest' = Drop(rest, n)
          /\ eof' = (n = 0)
    /\ UNCHANGED <<input, parsing, lineVars, lines, shown>>

\* The newlines in a part of the buffer that has not been searched.
Newlines == {i \in processed + 1 .. Len(buf) : buf[i] = Newline}

\* There is no newline to wait for; faulty variant: unless the input has ended.
OnlyAtEnd == Newlines = {} /\ eof
Overflows == Newlines = {} /\ (eof \/ Len(buf) = BufSize)

\* The first logical line; a newline is put where there is none.
FirstLine ==
    IF Overflows THEN Append(buf, Newline)
    ELSE SubSeq(buf, 1, CHOOSE i \in Newlines : \A j \in Newlines : i <= j)

Tagged(l, s) == [i \in 1..Len(s) |-> [level |-> l, byte |-> s[i]]]

\* The rest of a cut line keeps its level; faulty variant.
AlwaysParse == -1
NextPrefix  == IF Overflows THEN 0 ELSE -1

CompleteLine ==
    /\ loop = "split" /\ buf # <<>>
    /\ Newlines # {} \/ Overflows
    /\ LET line   == FirstLine
           parsed == IF prefix < 0 THEN ParseLevelPrefix(line)
                     ELSE [size |-> prefix, level |-> level,
                           parse |-> parse, default |-> default]
           text   == Drop(line, parsed.size)
           new    == IF processed > 0 THEN Drop(line, processed) ELSE text
       IN  /\ lines' = IF text = <<>> THEN lines
                       ELSE Append(lines, [level |-> parsed.level, text |-> text])
           /\ shown' = shown \o Tagged(parsed.level, new)
           /\ level' = parsed.level
           /\ parse' = parsed.parse /\ default' = parsed.default
           /\ buf' = Drop(buf, Len(line))
    /\ processed' = 0 /\ prefix' = NextPrefix
    /\ UNCHANGED <<input, parsing, rest, loop, eof>>

\* What is left is the beginning of a line: it is shown if its level is known.
Unshown(size)    == IF prefix < 0 THEN size ELSE processed

PartialLine ==
    /\ loop = "split"
    /\ buf = <<>> \/ (Newlines = {} /\ ~Overflows)
    /\ loop' = IF eof THEN "done" ELSE "read"
    /\ LET parsed == IF prefix < 0 /\ Len(buf) > processed
                     THEN ParseLevelPrefix(buf)
                     ELSE [size |-> prefix, level |-> level,
                           parse |-> parse, default |-> default]
       IN  /\ prefix' = parsed.size /\ level' = parsed.level
           /\ parse' = parsed.parse /\ default' = parsed.default
           /\ IF parsed.size >= 0 /\ Len(buf) > processed
              THEN /\ shown' = shown \o
                         Tagged(parsed.level, Drop(buf, Unshown(parsed.size)))
                   /\ processed' = Len(buf)
              ELSE UNCHANGED <<shown, processed>>
    /\ UNCHANGED <<input, parsing, rest, buf, eof, lines>>

LinesNext == Read \/ CompleteLine \/ PartialLine

LinesSpec == LinesInit /\ [][LinesNext]_linesVars
-----------------------------------------------------------------------------
(* Correctness.                                                            *)

\* Types, and what the assertions of the code say: there is room for read(),
\* and what has been shown is part of a line whose level is known.
LinesTypeOK ==
    /\ parse \in BOOLEAN /\ default \in 0..MaxLevel /\ level \in 0..MaxLevel
    /\ Len(buf) <= BufSize /\ processed \in 0..Len(buf)
    /\ prefix \in -1 .. Len(buf) /\ (processed > 0 => prefix >= 0)
    /\ loop \in {"read", "split", "done"} /\ eof \in BOOLEAN
    /\ loop = "read" => Len(buf) < BufSize

(* A reference: what should be logged, said of the bytes of the input s     *)
(* alone.                                                                  *)

\* Where lines begin, and where the line of the byte i does.
Begins(s)    == {j \in 1..Len(s) : j = 1 \/ s[j - 1] = Newline}
LineOf(s, i) ==
    CHOOSE j \in Begins(s) : j <= i /\ \A k \in j..i - 1 : s[k] # Newline

\* The line that begins at i has "<", t, a level and ">" there.
HasTag(s, i, t) ==
    LET d == i + Len(t) IN
    /\ d + 2 <= Len(s) /\ s[i] = "<" /\ SubSeq(s, i + 1, d) = t
    /\ IsDigit(s[d + 1]) /\ LevelOf[s[d + 1]] <= MaxLevel /\ s[d + 2] = ">"

\* "<remaining-lines-assume-level=N>", alone in its line.
IsDirective(s, i) ==
    LET next == i + Len(Directive) + 3
    IN  HasTag(s, i, Directive) /\ (next <= Len(s) => s[next] = Newline)

\* The directive of s, if it has one: others after it are not for the logger.
Directives(s) ==
    {i \in Begins(s) : /\ parsing /\ IsDirective(s, i)
                       /\ \A j \in Begins(s) : IsDirective(s, j) => i <= j}
Before(s, i)  == {d \in Directives(s) : d < i}

\* Of the line that begins at i: the size of its prefix, and its level.
PrefixSize(s, i) ==
    IF parsing /\ Before(s, i) = {} /\ HasTag(s, i, <<>>) THEN 3 ELSE 0
LineLevel(s, i) ==
    CASE PrefixSize(s, i) > 0 -> LevelOf[s[i + 1]]
      [] Before(s, i) # {}    ->
            LevelOf[s[(CHOOSE d \in Directives(s) : TRUE) + Len(Directive) + 1]]
      [] OTHER                -> DefaultLevel

\* A line is cut after each BufSize bytes, and a directive is not logged.
Column(s, i) == (i - LineOf(s, i)) % BufSize
Ends(s) ==
    {i \in 1..Len(s) : /\ s[i] = Newline \/ Column(s, i) = BufSize - 1 \/ i = Len(s)
                       /\ LineOf(s, i) \notin Directives(s)}
Kept(s) ==
    {i \in 1..Len(s) : LET l == LineOf(s, i) IN
                       l \notin Directives(s) /\ i >= l + PrefixSize(s, l)}

\* For a log file, what ends at the byte e.
Entry(s, e) ==
    LET line == LineOf(s, e)
        from == e - Column(s, e)
        size == IF from = line THEN PrefixSize(s, line) ELSE 0
    IN  [level |-> LineLevel(s, line),
         text  |-> SubSeq(s, from + size, e) \o
                       (IF s[e] = Newline THEN <<>> ELSE <<Newline>>)]

\* For a terminal, the byte i of the input is 2 * i, and a newline that is put
\* after it 2 * i + 1.
Bytes(s) == {2 * i : i \in Kept(s)} \cup {2 * i + 1 : i \in {e \in Ends(s) : s[e] # Newline}}
Byte(s, x) ==
    [level |-> LineLevel(s, LineOf(s, x \div 2)),
     byte  |-> IF x % 2 = 0 THEN s[x \div 2] ELSE Newline]

\* The sequence q consists of f[x] for the numbers x in S, in their order.
Rank(S, x) == Cardinality({y \in S : y <= x})
InOrder(q, S, f) == Len(q) = Cardinality(S) /\ \A x \in S : q[Rank(S, x)] = f[x]

\* However the input is divided among calls of read(), a log file gets the
\* lines of the input with their levels, and a terminal the same text
\* (_srt_logger_process and logger_parse_level_prefix).
LogsTheInput ==
    loop = "done" =>
        /\ InOrder(lines, Ends(input), [e \in Ends(input) |-> Entry(input, e)])
        /\ InOrder(shown, Bytes(input), [x \in Bytes(input) |-> Byte(input, x)])
=============================================================================
