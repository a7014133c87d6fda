--------------------------- MODULE Configuration ----------------------------
(***************************************************************************)
(* The reader of the configuration file (src/src/configuration.c).         *)
(* fgets() puts one line after the other into the same buffer, and words   *)
(* are cut out of it by writing zeros behind them.  A keyword is one cell, *)
(* so is every other character; " " stands for the tab, too.               *)
(*                                                                         *)
(* A file is given as its lines, each the words in it, so that what it     *)
(* means is known before it is written out as cells and read again.        *)
(***************************************************************************)
EXTENDS Integers, SequencesExt, FiniteSetsExt

CONSTANTS
    Files,             \* the configuration files: sequences of lines
    Layouts,           \* "plain" or "wide": how words are set apart
    MAX_LINE_LENGTH,   \* in cells
    Defaults,          \* what setDefaultConfigValues() gives
    Stale              \* cells that malloc() may leave in the buffer

Nul == "NUL"
Blank == " "
Newline == "\n"
(* The words that follow each keyword. *)
Arguments == [contenttype |-> 2, listen |-> 2, documentroot |-> 1, logfile |-> 1]
Keywords  == DOMAIN Arguments
Fields    == {"interface", "port", "documentRoot", "logFile"}
Results   == {"unread", "reading", "ok", "malformed", "unreadable", "lost"}

(* A word is not empty, and nothing in it ends it. *)
ASSUME FilesAssumption ==
    /\ Files \subseteq Seq(Seq(Seq(STRING)))
    /\ \A f \in Files : \A line \in Range(f) : \A word \in Range(line) :
          word # <<>> /\ Range(word) \cap {Blank, Newline, Nul} = {}
ASSUME LayoutAssumption == Layouts \subseteq {"plain", "wide"}
ASSUME LengthAssumption == MAX_LINE_LENGTH \in Nat /\ MAX_LINE_LENGTH > 1
ASSUME DefaultsAssumption == Defaults \in [Fields -> Seq(STRING)]

VARIABLES
    result,    \* what configuration_readFile() has come to: see Results
    file,      \* the configuration file
    stream,    \* what is left of it to read, in cells
    buffer,    \* the line buffer
    config,    \* the fields of struct EldritchConfig
    types      \* the calls of contenttype_set(), latest last

readerVars == <<file, stream, buffer>>

-----------------------------------------------------------------------------
(* The file as text: words set apart by one blank or by two, with blanks   *)
(* around them, and a newline behind each line but possibly the last.      *)
Text(line, layout) ==
    LET edge == IF layout = "wide" THEN <<Blank>> ELSE <<>>
    IN edge \o FoldLeft(LAMBDA s, w : s \o (IF s = <<>> THEN <<>> ELSE edge \o <<Blank>>) \o w,
                        <<>>, line) \o edge
Written(f, layout, closed) ==
    FoldLeft(\o, <<>>, [n \in DOMAIN f |->
        Text(f[n], layout) \o (IF n < Len(f) \/ closed THEN <<Newline>> ELSE <<>>)])

(* What it means: the arguments of the keywords, a later line over an      *)
(* earlier one.                                                            *)
Set(c, key, words) ==
    CASE key = "listen"       -> [c EXCEPT !.interface = words[1], !.port = words[2]]
      [] key = "documentroot" -> [c EXCEPT !.documentRoot = words[1]]
      [] key = "logfile"      -> [c EXCEPT !.logFile = words[1]]
      [] OTHER                -> c
Key(line)      == line[1][1]
Complete(line) == /\ line # <<>> /\ Len(line[1]) = 1 /\ Key(line) \in Keywords
                  /\ Len(line) > Arguments[Key(line)]
Meaning(f) == FoldLeft(LAMBDA c, line : Set(c, Key(line), Tail(line)), Defaults, f)
TypesIn(f) == FoldLeft(LAMBDA s, line :
                  IF Key(line) = "contenttype" THEN Append(s, SubSeq(line, 2, 3)) ELSE s,
                  <<>>, f)
(* A line that can be read at once, even if it is written with room. *)
Short(line) == Len(Text(line, "wide")) < MAX_LINE_LENGTH - 1
Meant(f) == \A line \in Range(f) : Complete(line) /\ Short(line)

-----------------------------------------------------------------------------
(* cutNextToken() from c.next on, and the zero and the step behind the     *)
(* word that all its callers add.  c.lost: it has left the buffer.         *)
StartOfWord(c) ==
    Min({n \in c.next .. MAX_LINE_LENGTH : c.buffer[n] # Blank} \cup {MAX_LINE_LENGTH + 1})
EndOfWord(c, stops) ==
    Min({n \in StartOfWord(c) .. MAX_LINE_LENGTH : c.buffer[n] \in stops}
        \cup {MAX_LINE_LENGTH + 1})

CutAt(c, stops) ==
    LET start == StartOfWord(c)
        end   == EndOfWord(c, stops)
    IN [words  |-> Append(c.words, [j \in 1 .. end - start |-> c.buffer[start + j - 1]]),
        buffer |-> [c.buffer EXCEPT ![IF end > MAX_LINE_LENGTH THEN 0 ELSE end] = Nul],
        next   |-> end + 1,
        lost   |-> c.lost \/ end > MAX_LINE_LENGTH]

(* Variant: only blanks and the zero end a word. *)
CutNextTokenOver(c) == CutAt(c, {Blank, Nul})

CutNextToken(c) == CutAt(c, {Blank, Nul, Newline})

(* The first n words that the functions below interpretLine() take. *)
Cut(line, n) ==
    FoldLeft(LAMBDA c, k : CutNextToken(c),
             [words |-> <<>>, buffer |-> line, next |-> 0, lost |-> FALSE],
             [k \in 1 .. n |-> k])

(* Variant: fgets() may fill the buffer, and sets the zero behind it. *)
LimitBeyond == MAX_LINE_LENGTH + 1

(* The cells that fgets() takes at most, without the zero. *)
Limit == MAX_LINE_LENGTH - 1

(* The length of what fgets() takes, and the buffer behind it. *)
Taken ==
    Min({n \in DOMAIN stream : stream[n] = Newline} \cup {Len(stream), Limit})
Filled == [n \in DOMAIN buffer \cup 0 .. Taken |->
              IF n < Taken THEN stream[n + 1]
              ELSE IF n = Taken THEN Nul ELSE buffer[n]]

-----------------------------------------------------------------------------
Prepare ==
    /\ result = "unread" /\ file = <<>> /\ stream = <<>> /\ config = Defaults
    /\ types = <<>> /\ buffer = <<>>

(* A last line without words is one by its newline only. *)
OpenFile ==
    /\ result = "unread"
    /\ \E f \in Files, layout \in Layouts, closed \in BOOLEAN, cell \in Stale :
          /\ f # <<>> /\ ~closed => Last(f) # <<>>
          /\ file' = f /\ stream' = Written(f, layout, closed)
          /\ buffer' = [n \in 0 .. MAX_LINE_LENGTH |-> cell]
    /\ result' = "reading"
    /\ UNCHANGED <<config, types>>

(* fopen() fails, or a read does. *)
FileFails ==
    /\ result \in {"unread", "reading"} /\ result' = "unreadable"
    /\ UNCHANGED <<readerVars, config, types>>

(* interpretLine().  A word that begins or ends outside the buffer is      *)
(* "lost": ReadOn says what may come of it.                                *)
ReadLine ==
    /\ result = "reading" /\ stream # <<>>
    /\ stream' = SubSeq(stream, Taken + 1, Len(stream))
    /\ LET key   == Cut(Filled, 1).words[1]
           known == Len(key) = 1 /\ key[1] \in Keywords
           cut   == Cut(Filled, 1 + IF known THEN Arguments[key[1]] ELSE 0)
           reads == known /\ ~cut.lost
       IN  /\ buffer' = cut.buffer
           /\ result' = IF cut.lost THEN "lost"
                        ELSE IF known THEN "reading" ELSE "malformed"
           /\ config' = IF reads THEN Set(config, key[1], Tail(cut.words)) ELSE config
           /\ types' = IF reads /\ key[1] = "contenttype"
                       THEN Append(types, Tail(cut.words)) ELSE types
    /\ UNCHANGED file

(* What lay outside the buffer is taken for words, and zeros have been     *)
(* written there: any field may be spoilt.                                 *)
ReadOn ==
    /\ result = "lost" /\ result' = "reading"
    /\ \E spoilt \in SUBSET Fields :
          config' = [f \in Fields |-> IF f \in spoilt THEN <<"?">> ELSE config[f]]
    /\ UNCHANGED <<readerVars, types>>

EndOfFile ==
    /\ result = "reading" /\ stream = <<>> /\ result' = "ok"
    /\ UNCHANGED <<readerVars, config, types>>

-----------------------------------------------------------------------------
(* A file of complete lines that fit into the buffer is read to its end    *)
(* and means what its words say: no line takes a word from another one,    *)
(* although all share the buffer.  No file of such lengths is accepted     *)
(* with a line that does not begin with a keyword.                         *)
ConfigurationMeant ==
    /\ Meant(file) => result \notin {"malformed", "lost"}
    /\ result = "ok" /\ Meant(file) => types = TypesIn(file)
    /\ result = "ok" => \A line \in Range(file) : Short(line) =>
          line # <<>> /\ Len(line[1]) = 1 /\ Key(line) \in Keywords
=============================================================================
