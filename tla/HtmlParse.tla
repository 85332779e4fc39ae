----------------------------- MODULE HtmlParse -----------------------------
(***************************************************************************)
(* What html_parse.c makes of a document: the resources it lists and the   *)
(* names it gives them.                                                    *)
(*                                                                         *)
(* Data abstraction.  A document is the sequence of the tags the scanner   *)
(* meets, each with the URL of its href or src; a tag's name stands for    *)
(* what the parser tells it from ("css" is a <link rel="stylesheet">).     *)
(* Every tag is closed by a '>', and the inline CSS of a document fits in  *)
(* its buffer.  A name is the sequence of its components; the title and    *)
(* <base>, whose URL nobody uses, are left out.                            *)
(***************************************************************************)
EXTENDS Integers, Sequences, SequencesExt, Compaction

CONSTANTS
  HTML_MAX_RESOURCES,
  Initial       \* the first letter of a component

ASSUME HtmlAssumption == HTML_MAX_RESOURCES \in Nat

----------------------------------------------------------------------------
(* URLs *)

\* "http://host/path", "/path", "path", or no attribute.
Http(host, path) == [form |-> "http", host |-> host, path |-> path]
Abs(path) == [form |-> "abs", host |-> "", path |-> path]
Rel(path) == [form |-> "rel", host |-> "", path |-> path]
NoUrl == [form |-> "none", host |-> "", path |-> <<>>]

\* The text a URL is resolved against: a full name "/a/b", or one component "a".
FullName(name) == [slash |-> TRUE, name |-> name]
Component(comp) == [slash |-> FALSE, name |-> <<comp>>]

\* html_resolve_url keeps the base up to its last slash; a base without a slash
\* keeps its first letter, which runs into the URL.
Resolve(base, url) ==
  IF url.form # "rel" THEN url.path
  ELSE IF base.slash THEN Front(base.name) \o url.path
  ELSE <<Initial[Head(base.name)] \o Head(url.path)>> \o Tail(url.path)

\* What html_parse.h says of it: relative to the page's directory, with the host as
\* the first component.
Documented(page, url) ==
  CASE url.form = "rel"  -> Front(page) \o url.path
    [] url.form = "abs"  -> url.path
    [] url.form = "http" -> <<url.host>> \o url.path

----------------------------------------------------------------------------
(* The parser *)

ResourceType ==
  [css |-> "STYLESHEET", link |-> "LINK", script |-> "SCRIPT", img |-> "IMAGE", a |-> "LINK"]

Named(base, t) == [type |-> ResourceType[t.tag], name |-> Resolve(base, t.url), raw_url |-> t.url]
Inline == [type |-> "INLINE_CSS", name |-> <<>>, raw_url |-> NoUrl]

Listing(t) == t.tag \in DOMAIN ResourceType /\ t.url # NoUrl

\* Mutation: a style element does not hide the tags in it.
ParseTagAlways(base, result, t) ==
  CASE result.in_style /\ t.tag = "/style" ->
         [in_style |-> FALSE, resources |-> Append(result.resources, Inline)]
    [] t.tag = "style" -> [result EXCEPT !.in_style = TRUE]
    [] Listing(t) -> [result EXCEPT !.resources = Append(@, Named(base, t))]
    [] OTHER -> result

\* One tag: within a style element only </style> counts.
ParseTag(base, result, t) ==
  CASE result.in_style /\ t.tag = "/style" ->
         [in_style |-> FALSE, resources |-> Append(result.resources, Inline)]
    [] ~result.in_style /\ t.tag = "style" -> [result EXCEPT !.in_style = TRUE]
    [] ~result.in_style /\ Listing(t) ->
         [result EXCEPT !.resources = Append(@, Named(base, t))]
    [] OTHER -> result

\* html_parse: the result starts empty, and the scan ends when it is full.
Parse(base, doc) ==
  FoldLeft(LAMBDA result, t : IF Len(result.resources) < HTML_MAX_RESOURCES
                                THEN ParseTag(base, result, t) ELSE result,
           [in_style |-> FALSE, resources |-> <<>>], doc).resources

----------------------------------------------------------------------------
(* A reference for the parser, position by position *)

InStyle(doc, i) ==
  \E j \in 1..i-1 : doc[j].tag = "style" /\ \A k \in j+1..i-1 : doc[k].tag # "/style"

Listed(doc) ==
  {i \in DOMAIN doc : IF InStyle(doc, i) THEN doc[i].tag = "/style" ELSE Listing(doc[i])}

Resource(base, t) == IF t.tag = "/style" THEN Inline ELSE Named(base, t)

\* The first resources of the document, in its order.
Expected(base, doc) ==
  LET all == Cardinality(Listed(doc))
      n   == IF all <= HTML_MAX_RESOURCES THEN all ELSE HTML_MAX_RESOURCES
  IN  [k \in 1..n |-> Resource(base, doc[Origin(Listed(doc), k)])]
============================================================================
