------------------------------ MODULE Request -------------------------------
(***************************************************************************)
(* How http_processGetHead() (src/src/http.c) gets from a URL to the file  *)
(* and the type of its response: url_getPath(), the default page and       *)
(* contenttype_get().                                                      *)
(***************************************************************************)
EXTENDS ContentTypes, Url

CONSTANTS
    Urls,                \* what clients ask for
    DEFAULT_FILE_NAME,   \* "/index.html"
    Strings              \* the URLs the parser is checked on

ASSUME UrlsAssumption == Urls \cup Strings \subseteq Seq(Int)

(* "/i" has no dot.                                                        *)
ASSUME PageAssumption == \A n \in DOMAIN DEFAULT_FILE_NAME :
                            n <= 2 => DEFAULT_FILE_NAME[n] # Dot

(* A URL is refused when it has no path, or an empty one. *)
Wellformed(url) == GetPath(url).found /\ GetPath(url).length >= 1

Page(path) == IF path = <<Slash>> THEN DEFAULT_FILE_NAME ELSE path

(* Variant: the path goes on to the end of the URL. *)
RequestedUncut(url) ==
    [file |-> Page(SubSeq(url, GetPath(url).index + 1, Len(url))),
     maxPathLength |-> GetPath(url).length]

(* What contenttype_get() is called with.  The length is that of the path  *)
(* in the URL even if the default page takes its place.                    *)
Requested(url) == [file |-> Page(PathString(url)),
                   maxPathLength |-> GetPath(url).length]

(* What each URL asks for, and what those mean that a reader of the RFC    *)
(* has no doubt about.                                                     *)
Resources == [url \in {u \in Urls : Wellformed(u)} |-> Requested(url)]
Meant     == [url \in {u \in Urls : Relative(u) \/ Absolute(u)} |->
                 [file |-> Page(PathMeant(url))]]

(* contenttype_get() is called for requests only.                          *)
ASSUME RequestsAssumption == Paths = Range(Resources)

(* A file asked for by a URL without a scheme, or with one and a server,   *)
(* has the type last configured for the extension of the path that the URL *)
(* means, whatever query follows it.                                       *)
RequestLabelled ==
    [][\A url \in DOMAIN Resources \cap DOMAIN Meant :
          Get(Resources[url]) => answer'.type = TypeAsked(Meant[url])]_vars

(* url_getPath() finds the path a URL means, whatever the characters       *)
(* around it, and none behind a colon that no slash follows.  url.h says   *)
(* that path[pathLength] is the zero behind the path, which holds of the   *)
(* empty URL only: BehindPath is what it is.  http_processGetHead() writes *)
(* a zero there, which hits the byte behind the URL's own zero at most:    *)
(* getToken() has reserved that one.                                       *)
(* The function depends on no state: the initial one is enough.            *)
UrlPathsFound ==
    state = "start" => \A url \in Strings :
        LET p == GetPath(url)
        IN /\ HasPath(url) => /\ p.found /\ PathString(url) = PathMeant(url)
                              /\ p.index + p.length = BehindPath(url)
           /\ p.found => p.index + p.length <= Len(url) + 1
           /\ Pathless(url) => ~p.found
=============================================================================
