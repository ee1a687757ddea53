--------------------------------- MODULE Uri ---------------------------------
(***************************************************************************)
(* What request.c computes from the URI of a request.  A URI, the name of  *)
(* a file and the arguments of a script are sequences of tokens; the ones  *)
(* that the code looks for are "/", "?", "cgi", ".html", ".gif" and        *)
(* ".jpg".  A name is written without the "." that filename starts with.   *)
(***************************************************************************)
EXTENDS Integers, SequencesExt

Index == <<"index", ".html">>

(* Mutant: rindex instead of index. *)
ParseUriLastMark(uri) ==
  LET marks == {k \in DOMAIN uri : uri[k] = "?"} IN
  IF ~ Contains(uri, "cgi")
  THEN [is_static |-> TRUE, cgiargs |-> <<>>,
        filename |-> IF uri # <<>> /\ Last(uri) = "/" THEN uri \o Index ELSE uri]
  ELSE [is_static |-> FALSE,
        cgiargs |-> IF marks = {} THEN <<>> ELSE SubSeq(uri, Max(marks) + 1, Len(uri)),
        filename |-> IF marks = {} THEN uri ELSE SubSeq(uri, 1, Max(marks) - 1)]

(* request_parse_uri: whether the URI contains "cgi" anywhere decides; a    *)
(* script's name is cut at the first "?", and a static one is not.  Of an   *)
(* empty URI, which only a request line without one leaves, the code looks  *)
(* at the byte before it; if that is no "/", the name is the directory's.   *)
ParseUri(uri) ==
  LET marks == {k \in DOMAIN uri : uri[k] = "?"} IN
  IF ~ Contains(uri, "cgi")
  THEN [is_static |-> TRUE, cgiargs |-> <<>>,
        filename |-> IF uri # <<>> /\ Last(uri) = "/" THEN uri \o Index ELSE uri]
  ELSE [is_static |-> FALSE,
        cgiargs |-> IF marks = {} THEN <<>> ELSE SubSeq(uri, Min(marks) + 1, Len(uri)),
        filename |-> IF marks = {} THEN uri ELSE SubSeq(uri, 1, Min(marks) - 1)]

(* request_get_filetype: the first of three extensions that filename has    *)
(* anywhere in it.                                                          *)
FileType(filename) ==
  IF Contains(filename, ".html") THEN "text/html"
  ELSE IF Contains(filename, ".gif") THEN "image/gif"
  ELSE IF Contains(filename, ".jpg") THEN "image/jpeg"
  ELSE "text/plain"

-----------------------------------------------------------------------------
(* The same said of the whole URI, with no search and no cut, for the       *)
(* answers that clients must get.                                           *)

MimeType == [e \in {".html", ".gif", ".jpg"} |->
               CASE e = ".html" -> "text/html"
                 [] e = ".gif" -> "image/gif"
                 [] e = ".jpg" -> "image/jpeg"]

(* The URI asks a script for its output, or for a document.                 *)
IsScript(uri) == \E k \in DOMAIN uri : uri[k] = "cgi"

(* The URI asks for the document called name. *)
AsksForDocument(uri, name) ==
  name = IF uri # <<>> /\ uri[Len(uri)] = "/" THEN uri \o Index ELSE uri

(* The URI asks the script called name for an answer to args. *)
AsksForScript(uri, name, args) ==
  /\ \A k \in DOMAIN name : name[k] # "?"
  /\ \/ uri = name /\ args = <<>>
     \/ uri = name \o <<"?">> \o args
=============================================================================
