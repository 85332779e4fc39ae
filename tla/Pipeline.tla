----------------------------- MODULE Pipeline -----------------------------
(***************************************************************************)
(* The page pipeline of dso_psirp.c: a load builds a graph of tasks, which *)
(* an external scheduler runs one at a time in an order the dependencies   *)
(* allow.  The context is not emptied between loads: the items, the page   *)
(* and the parsed resources of a load are what the next one finds.         *)
(*                                                                         *)
(* Each fetch is a psirp_net_fetch (module FetchNode) and may find nothing;*)
(* what is found stays in the content store while the context points to    *)
(* it.  An inline style sheet stands for its text.                         *)
(***************************************************************************)
EXTENDS Naturals, Sequences, SequencesExt, HtmlParse

CONSTANTS
  Docs,         \* the pages and the documents each may have
  HtmlNames,    \* the names with an HTML extension
  Missing,      \* names no node has
  MaxItems,     \* the size of the item table
  MaxLoads      \* bound: the pages loaded

ASSUME PipelineAssumption ==
  /\ HtmlNames \subseteq DOMAIN Docs
  /\ \A page \in DOMAIN Docs : \A doc \in Docs[page] : doc \in Seq(ToSet(doc))
  /\ MaxItems \in Nat \ {0} /\ MaxLoads \in Nat

Tasks == {"fetch_html", "parse_html", "fetch_css", "fetch_images", "fetch_scripts", "render"}

VARIABLES
  page_name,    \* the page loaded last, <<>> before the first
  items,        \* what was fetched, by all loads
  page_html,    \* the slot of the page in items, 0 for none
  html_result,  \* the resources parsed last
  done,         \* the tasks of the graph that have run
  start,        \* history: the items before this load
  failed,       \* history: the names this load did not find
  loads         \* history: the loads begun

vars == <<page_name, items, page_html, html_result, done, start, failed, loads>>

----------------------------------------------------------------------------
(* The graph *)

\* Mutation: the style sheets wait for the page only, as the images do for its parse.
DepsCssEarly(task) ==
  CASE task = "fetch_html" -> {}
    [] task \in {"parse_html", "fetch_css"} -> {"fetch_html"}
    [] task \in {"fetch_images", "fetch_scripts"} -> {"parse_html"}
    [] task = "render" -> {"fetch_css", "fetch_images", "fetch_scripts"}

Deps(task) ==
  CASE task = "fetch_html" -> {}
    [] task = "parse_html" -> {"fetch_html"}
    [] task \in {"fetch_css", "fetch_images", "fetch_scripts"} -> {"parse_html"}
    [] task = "render" -> {"fetch_css", "fetch_images", "fetch_scripts"}

Ready(task) == task \notin done /\ Deps(task) \subseteq done

Loaded == done = Tasks

Run(task) == Ready(task) /\ done' = done \cup {task}

----------------------------------------------------------------------------
(* Items *)

\* dso_psirp_detect_type, as far as the page is concerned.
DetectType(name) == IF name \in HtmlNames THEN "HTML" ELSE "UNKNOWN"

\* An item has the type of its resource.
Item(name, type, doc) == [name |-> name, type |-> type, doc |-> doc]

\* Mutation: one item too many.
FullLate(its) == Len(its) > MaxItems

Full(its) == Len(its) >= MaxItems

\* Mutation: the loop ends at the first resource that is not found.
FetchedUntilMiss(its, type, found) ==
  LET wanted == SelectSeq(html_result, LAMBDA r : r.type = type)
      misses == {i \in DOMAIN wanted : wanted[i].name \notin found}
      before == SelectSeq([i \in DOMAIN wanted |-> i], LAMBDA i : \A j \in misses : i < j)
  IN  FoldLeft(LAMBDA s, i : IF Full(s) THEN s ELSE Append(s, Item(wanted[i].name, type, <<>>)),
               its, before)

\* The parsed resources of a type that are found join the items, while there is room.
Fetched(its, type, found) ==
  FoldLeft(LAMBDA s, r : IF ~Full(s) /\ r.type = type /\ r.name \in found
                           THEN Append(s, Item(r.name, type, <<>>)) ELSE s,
           its, html_result)

NamesOf(type) == {r.name : r \in {q \in ToSet(html_result) : q.type = type}}

----------------------------------------------------------------------------

Init ==
  /\ page_name = <<>> /\ items = <<>> /\ page_html = 0 /\ html_result = <<>>
  /\ done = Tasks /\ start = 0 /\ failed = {} /\ loads = 0

\* dso_psirp_fetch_page, dso_psirp_build_graph: a new name and a new graph, and
\* nothing else is reset.
BuildGraph(page) ==
  /\ Loaded /\ loads < MaxLoads
  /\ page_name' = page
  /\ done' = {}
  /\ start' = Len(items)
  /\ failed' = {}
  /\ loads' = loads + 1
  /\ UNCHANGED <<items, page_html, html_result>>

\* Mutation: the page is set by the first load only.
FirstPage(item, slot) == IF item.type = "HTML" /\ page_html = 0 THEN slot ELSE page_html

\* The page the new item leaves.
PageAfter(item, slot) == IF item.type = "HTML" THEN slot ELSE page_html

FetchHtml ==
  /\ Run("fetch_html")
  /\ \/ /\ failed' = failed \cup {page_name}
        /\ UNCHANGED <<items, page_html>>
     \/ /\ page_name \notin Missing
        /\ IF Full(items) THEN UNCHANGED <<items, page_html>>
           ELSE \E doc \in Docs[page_name] :
                  LET item == Item(page_name, DetectType(page_name), doc)
                  IN  /\ items' = Append(items, item)
                      /\ page_html' = PageAfter(item, Len(items) + 1)
        /\ UNCHANGED failed
  /\ UNCHANGED <<page_name, html_result, start, loads>>

\* Without a page there is nothing to parse, and the old result stays.  The base is
\* the first component of the name.
ParseHtml ==
  /\ Run("parse_html")
  /\ html_result' = IF page_html = 0 THEN html_result
                    ELSE Parse(Component(Head(page_name)), items[page_html].doc)
  /\ UNCHANGED <<page_name, items, page_html, start, failed, loads>>

\* A task fetches the resources of its type; those it does not find it leaves out.
Findable(type) == SUBSET (NamesOf(type) \ Missing)

FetchResources(task, type, found, its) ==
  /\ Run(task)
  /\ items' = its
  /\ failed' = failed \cup (NamesOf(type) \ found)
  /\ UNCHANGED <<page_name, page_html, html_result, start, loads>>

\* The inline style sheets, whose text is at hand, come after the fetched ones.
ResolveCss ==
  \E found \in Findable("STYLESHEET") :
    FetchResources("fetch_css", "STYLESHEET", found,
      Fetched(Fetched(items, "STYLESHEET", found), "INLINE_CSS", {<<>>}))

ResolveImages ==
  \E found \in Findable("IMAGE") :
    FetchResources("fetch_images", "IMAGE", found, Fetched(items, "IMAGE", found))

ResolveScripts ==
  \E found \in Findable("SCRIPT") :
    FetchResources("fetch_scripts", "SCRIPT", found, Fetched(items, "SCRIPT", found))

Render ==
  /\ Run("render")
  /\ UNCHANGED <<page_name, items, page_html, html_result, start, failed, loads>>

Next ==
  \/ \E page \in DOMAIN Docs : BuildGraph(page)
  \/ FetchHtml \/ ParseHtml \/ ResolveCss \/ ResolveImages \/ ResolveScripts \/ Render

Spec == Init /\ [][Next]_vars

----------------------------------------------------------------------------
(* Properties *)

\* The context is well formed, and the items stay in their table (dso_psirp.c:112,
\* 151, 171, 192, 221: each loop tests the room that the tasks before it left).
TypeOK ==
  /\ page_name \in DOMAIN Docs \cup {<<>>}
  /\ Len(items) <= MaxItems
  /\ page_html \in 0..Len(items)
  /\ page_html > 0 => items[page_html].type = "HTML"
  /\ done \subseteq Tasks

\* The resources parsed are those of the page in document order, the inline style
\* sheets among them and nothing that a style element hides, up to the size of the
\* table (html_parse.c:246-379).
ParsedAsExpected ==
  "parse_html" \in done /\ page_html > 0 =>
    html_result = Expected(Component(Head(page_name)), items[page_html].doc)

\* Whatever the order the scheduler takes, a load adds its page and the resources
\* of the page it parsed, not of the page parsed before (dso_psirp.c:278-285).
ItemsOfParsedPage ==
  \A i \in start+1..Len(items) :
    \/ items[i].name = page_name
    \/ \E r \in ToSet(html_result) : r.name = items[i].name /\ r.type = items[i].type

\* When a load ends, each resource of its page is an item of this load, unless it was
\* not found or the table is full, possibly of the items of earlier loads
\* (dso_psirp.c:151-180, 192, 221).
PageComplete ==
  Loaded /\ page_html > 0 =>
    \A r \in ToSet(html_result) :
      \/ r.type = "LINK" \/ r.name \in failed \/ Full(items)
      \/ \E i \in start+1..Len(items) : items[i].name = r.name /\ items[i].type = r.type

\* A load may end with the page of an earlier load as its HTML: nothing resets
\* page_html (dso_psirp.c:254-266).  That happens only when its own page was not
\* found, has no HTML extension, or did not fit.
StalePageExplained ==
  Loaded /\ page_html \in 1..start =>
    page_name \in failed \/ page_name \notin HtmlNames \/ Full(items)

\* The names of the resources of a page are what html_parse.h:85 and 97-99 say:
\* relative to the page ("/site/page.html" and "style.css" give "/site/style.css"),
\* with the host as first component ("http://cdn/x.js" gives "/cdn/x.js").
NamesAsDocumented ==
  "parse_html" \in done /\ page_html > start =>
    \A r \in ToSet(html_result) :
      r.type # "INLINE_CSS" => r.name = Documented(page_name, r.raw_url)
============================================================================
