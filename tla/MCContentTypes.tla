--------------------------- MODULE MCContentTypes ---------------------------
(* Small instances of the content types and of the requests that need them. *)
(* Characters are numbers: a zero, '#' 5, '?' 6, ':' 7, '.' 8, '/' 9.       *)
EXTENDS Request, TLC

Addresses == Permutations(Values)

(* Extensions, two of which share a bucket. *)
ZipKey == <<1, 2>>
GzKey  == <<2, 1>>
MCJpg  == <<3, 3>>
MCKeys == {MCJpg, ZipKey, GzKey}

(* Paths with one dot, with two, with an unknown extension and with none;  *)
(* the default page, also with a query; a URL with scheme, server and an   *)
(* extension in its query; one with a port; two that are refused.          *)
Index  == <<9, 1, 8, 3>>
MCUrls == {<<9, 1, 8>> \o MCJpg, <<9, 8>> \o GzKey \o <<8>> \o ZipKey,
           <<9, 2, 8, 3>>, <<9, 1>>, <<9>>, <<9, 6, 8>> \o ZipKey,
           <<1, 7, 9, 9, 2, 8, 3, 9, 1, 8>> \o ZipKey \o <<6, 8>> \o GzKey,
           <<1, 7, 3, 9, 8>> \o GzKey, <<9, 1, 7, 1>>, <<6, 1>>}
MCPaths == Range(Resources)

(* Everything up to seven characters. *)
MCStrings == UNION {[1 .. n -> {1, 6, 7, 9}] : n \in 0 .. 7}
=============================================================================
