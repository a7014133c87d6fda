-------------------------------- MODULE Url ---------------------------------
(***************************************************************************)
(* url_getPath() of src/src/url.c, an automaton that reads a URL one       *)
(* character at a time and says where in it the path is.  A URL is the     *)
(* sequence of its characters; in memory a zero follows it.                *)
(***************************************************************************)
EXTENDS Integers, SequencesExt, FiniteSetsExt

CONSTANTS Colon, Slash, NUL,
          Ends      \* '#' and '?'

ASSUME CharsAssumption == /\ Colon # Slash /\ NUL \notin {Colon, Slash}
                          /\ Ends \cap {Colon, Slash, NUL} = {}

Goto(state, char) ==
    CASE state \in {"PATH_OR_SCHEME", "PATH"} /\ char \in Ends -> "OK"
      [] state = "PATH_OR_SCHEME" /\ char = Colon -> "SCHEME_OR_PORT"
      [] state = "SCHEME_OR_PORT" -> IF char = Slash THEN "FIRST_SLASH" ELSE "PORT"
      [] state \in {"PORT", "SERVER"} /\ char = Slash -> "PATH"
      [] state = "FIRST_SLASH" -> IF char = Slash THEN "SECOND_SLASH" ELSE "FAIL"
      [] state = "SECOND_SLASH" -> "SERVER"
      [] OTHER -> state

(* Variant: the slash behind the server is not part of the path, either. *)
StartIndexBehind(a, to) ==
    IF a.state # "PATH" /\ to = "PATH" THEN a.readIndex + 1 ELSE a.startIndex

(* Behind a port the path starts after the slash, behind a server with it. *)
StartIndex(a, to) ==
    CASE a.state = "PORT"   /\ to = "PATH" -> a.readIndex + 1
      [] a.state = "SERVER" /\ to = "PATH" -> a.readIndex
      [] OTHER                             -> a.startIndex

Read(a, char) ==
    LET to == Goto(a.state, char)
    IN IF a.state \in {"OK", "FAIL"} THEN a
       ELSE [state |-> to, startIndex |-> StartIndex(a, to),
             readIndex |-> IF to \in {"OK", "FAIL"} THEN a.readIndex
                                                    ELSE a.readIndex + 1]

(* The loop test looks at the character read last, so the zero is read and *)
(* counted, too, unless it is the first.                                   *)
Loop(url) == FoldLeft(Read, [state |-> "PATH_OR_SCHEME", startIndex |-> 0,
                             readIndex |-> 0],
                      IF url = <<>> THEN <<>> ELSE Append(url, NUL))

(* The index of the path and pathLength, if there is a path. *)
GetPath(url) ==
    LET a == Loop(url)
    IN [found |-> a.state \in {"OK", "PATH", "PATH_OR_SCHEME"},
        index |-> a.startIndex, length |-> a.readIndex - a.startIndex]

(* The string at path after http_processGetHead() has put a zero at its    *)
(* end, path[pathLength]: it goes up to that zero or to the one behind the *)
(* URL, whichever comes first.                                             *)
PathString(url) ==
    LET p == GetPath(url)
    IN SubSeq(url, p.index + 1, Min({p.index + p.length, Len(url)}))

-----------------------------------------------------------------------------
(* What a URL means, for those that have a path: everything before a query *)
(* if there is no scheme, and otherwise what begins with the first slash   *)
(* behind the server.  Any other colon is taken for that of a port, and    *)
(* the path begins behind the slash that ends it.                          *)
FirstOf(S, default) == IF S = {} THEN default ELSE Min(S)
QueryAt(url) == FirstOf({n \in DOMAIN url : url[n] \in Ends}, Len(url) + 1)
ColonAt(url) == FirstOf({n \in DOMAIN url : url[n] = Colon}, QueryAt(url))
ServerAt(url) == ColonAt(url) + 3
SlashAt(url) == FirstOf({n \in ServerAt(url) .. Len(url) : url[n] = Slash},
                        QueryAt(url))

Relative(url) == ColonAt(url) >= QueryAt(url)
Absolute(url) ==
    /\ ColonAt(url) < ServerAt(url) /\ ServerAt(url) < SlashAt(url)
    /\ SlashAt(url) < QueryAt(url)
    /\ SubSeq(url, ColonAt(url), ServerAt(url) - 1) = <<Colon, Slash, Slash>>

PortSlashAt(url) == FirstOf({n \in ColonAt(url) + 2 .. Len(url) : url[n] = Slash},
                            QueryAt(url))
Ported(url) == PortSlashAt(url) < QueryAt(url) /\ url[ColonAt(url) + 1] # Slash

HasPath(url) == Relative(url) \/ Absolute(url) \/ Ported(url)
PathAt(url) == CASE Relative(url) -> 1
                 [] Absolute(url) -> SlashAt(url)
                 [] OTHER         -> PortSlashAt(url) + 1
PathMeant(url) == SubSeq(url, PathAt(url), QueryAt(url) - 1)

(* What path[pathLength] is, counted from the start of the URL: the '?' or *)
(* '#' behind the path or, where there is none, the byte behind the zero   *)
(* that ends the URL.  An empty URL is its zero.                           *)
BehindPath(url) == IF QueryAt(url) <= Len(url) THEN QueryAt(url) - 1
                   ELSE IF url = <<>> THEN 0 ELSE Len(url) + 1

(* A port or a scheme that no slash follows. *)
Pathless(url) ==
    /\ ColonAt(url) < QueryAt(url)
    /\ \A n \in ColonAt(url) + 1 .. Len(url) : url[n] # Slash
=============================================================================
