------------------------------ MODULE ScoutLinks ------------------------------
(***************************************************************************)
(* Which links of a page become sources: the pruning and extraction of     *)
(* services/aem_pruner.py, the classification of agents/discovery.py, and  *)
(* the link processing of run_scout in services/pipeline.py, for scouts    *)
(* that run side by side and discover pages that are scouted in turn.      *)
(*                                                                         *)
(* A page is a tree of components.  All a scout does up to its first       *)
(* session touches nothing shared and is one step with it (Discover); the  *)
(* second session is another (Write): its upserts lock the rows they       *)
(* touch, and an error or a deadlock rolls all of it back (Fail).  Between *)
(* the two, people submit, confirm, discard, reingest and delete sources;  *)
(* a scout whose own source is deleted goes on as an orphan.               *)
(* What the queue does with a row, jobs, and requests that act on what     *)
(* they read earlier are left to IngestLifecycle.                          *)
(***************************************************************************)
EXTENDS Integers, FiniteSets

CONSTANTS
  Urls,          \* resolved URLs
  Raw,           \* links as they are written on pages
  Resolve,       \* resolve_aem_link, for each page and link on it
  Nowhere,       \* for each page, URLs of another domain, on a denied path, or ignored
  Junk,          \* URLs whose shape is not valid
  Unsupported,   \* URLs without a supported language
  PageTrees,     \* the pages that may be fetched
  Invented,      \* URLs the agent may make up
  NoLink,
  MaxEvents      \* bound: POST /ingest and /reingest, DELETE, and scouts that raise

ASSUME ResolveAssumption == Resolve \in [Urls -> [Raw -> Urls]]
ASSUME NoLinkAssumption == NoLink \notin Raw
ASSUME NowhereAssumption == Nowhere \in [Urls -> SUBSET Urls]
ASSUME UrlsAssumption == Junk \union Unsupported \union Invented \subseteq Urls
ASSUME BoundsAssumption == MaxEvents \in Nat

VARIABLES
  sources,   \* sources.status, "none" where there is no row
  queued,    \* URLs that have a row in the queue
  phase,     \* how far the scout of each page has got
  answer,    \* discovery_result.classified_links, by URL
  known,     \* existing_url_set
  orphans,   \* scouts between their sessions whose source was deleted
  \* Bounds and history, not part of the program
  shown,     \* URLs a reader of the fetched page sees linked in its content
  linked,    \* pages in a supported language that any page showed so far
  asked,     \* sources that a person submitted or reingested
  gone,      \* of what each scout knows, the sources deleted since
  silent,    \* pages whose agent gave no structured output
  events

scout == <<phase, answer, known, shown, gone, silent>>
table == <<sources, queued>>
vars == <<scout, table, orphans, linked, asked, events>>

Class == {"certain", "uncertain", "navigation"}
Answers(S) == UNION {[U -> Class] : U \in SUBSET S}

TypeOK ==
  /\ sources \in [Urls -> {"none", "active", "needs_confirmation", "dismissed",
                        "denied", "ingested", "failed"}]
  /\ queued \subseteq {u \in Urls : sources[u] # "none"}
  /\ phase \in [Urls -> {"idle", "read", "written"}]
  /\ answer \in [Urls -> Answers(Urls)]
  /\ known \in [Urls -> SUBSET Urls]
  /\ \A p \in Urls : known[p] \subseteq DOMAIN answer[p]
  /\ orphans \subseteq [page : Urls, answer : Answers(Urls), known : SUBSET Urls, since : Nat]
  /\ shown \in [Urls -> SUBSET Urls] /\ gone \in [Urls -> SUBSET Urls]
  /\ linked \subseteq Urls \ (Junk \union Unsupported) /\ asked \subseteq Urls
  /\ silent \subseteq Urls
  /\ events \in 0 .. MaxEvents

NoAnswer == [u \in {} |-> "navigation"]

Init ==
  /\ sources = [u \in Urls |-> "none"]
  /\ queued = {}
  /\ phase = [p \in Urls |-> "idle"]
  /\ answer = [p \in Urls |-> NoAnswer]
  /\ known = [p \in Urls |-> {}]
  /\ shown = [p \in Urls |-> {}] /\ gone = [p \in Urls |-> {}]
  /\ orphans = {} /\ linked = {} /\ asked = {} /\ silent = {}
  /\ events = 0

-----------------------------------------------------------------------------
(* Pages.  Node 1 is the root; every other node has a parent with a lower  *)
(* number, and a kind: how its parent holds it.                            *)
(*   item      an entry of :items                                          *)
(*   noise     an entry of :items that is an experience fragment or has a  *)
(*             noise type                                                  *)
(*   field     a component in another field or in a list                   *)
(*   metadata  under i18n or dataLayer                                     *)
(*   picture   the component that is the value of iconPath or logo (those  *)
(*             of a list there are fields)                                 *)
(* A node's link is what its link fields hold, but for those of images,    *)
(* icons, logos, targets and sources.                                      *)

Nodes(tree) == DOMAIN tree.kind

IsPage(tree) ==
  /\ IsFiniteSet(Nodes(tree)) /\ 1 \in Nodes(tree)
  /\ Nodes(tree) = 1 .. Cardinality(Nodes(tree))
  /\ \A i \in Nodes(tree) :
       /\ tree.kind[i] \in {"item", "noise", "field", "metadata", "picture"}
       /\ tree.link[i] \in Raw \union {NoLink}
       /\ i # 1 => tree.parent[i] \in 1 .. i - 1

ASSUME PagesAssumption == \A tree \in PageTrees : IsPage(tree)

(* Mutation: noise is dropped at the top level only. *)
PruneTop(tree) ==
  {n \in Nodes(tree) : n = 1 \/ ~(tree.parent[n] = 1 /\ tree.kind[n] \in {"noise", "metadata"})}

(* prune_aem_json: the nodes it keeps.                                     *)
Prune(tree) ==
  LET kept[n \in Nodes(tree)] ==
        n = 1 \/ (tree.kind[n] \notin {"noise", "metadata"} /\ kept[tree.parent[n]])
  IN  {n \in Nodes(tree) : kept[n]}

(* _walk_links                                                             *)
WalkLinks(tree, nodes) ==
  LET walked[n \in Nodes(tree)] ==
        n \in nodes /\ (n = 1 \/ (tree.kind[n] # "picture" /\ walked[tree.parent[n]]))
  IN  {tree.link[n] : n \in {m \in nodes : walked[m]}} \ {NoLink}

(* The filters on URLs; a page is no link of its own.                      *)
Dropped(p) == Nowhere[p] \union {p}

(* extract_links_deterministic: the filters apply to the resolved URL, of  *)
(* which only one is kept.                                                 *)
ExtractLinks(tree, p) ==
  {Resolve[p][l] : l \in WalkLinks(tree, Prune(tree))} \ Dropped(p)

(* What a reader sees: nothing above or at the node hides its link.        *)
Visible(tree) ==
  LET path[n \in Nodes(tree)] == IF n = 1 THEN {} ELSE {n} \union path[tree.parent[n]]
  IN  {tree.link[n] : n \in {m \in Nodes(tree) :
         \A a \in path[m] : tree.kind[a] \in {"item", "field"}}} \ {NoLink}

(* DiscoveryAgent.run on what the agent puts out                           *)

(* Mutation: what the agent answers is taken as it is. *)
MergeAll(links, output) ==
  [u \in links \union DOMAIN output |-> IF u \in DOMAIN output THEN output[u] ELSE "navigation"]

(* Mutation: a link the agent leaves out is left out. *)
MergeAnswered(links, output) == [u \in links \intersect DOMAIN output |-> output[u]]

(* URLs that were not extracted are dropped, links the agent missed are    *)
(* navigation.  (Of two answers for a URL the first counts: an output is   *)
(* what remains.)                                                          *)
Merge(links, output) ==
  [u \in links |-> IF u \in DOMAIN output THEN output[u] ELSE "navigation"]

(* What the scout of a page may come to, and what its reader sees there    *)
(* that the URL filters let pass.  Without structured output from the      *)
(* agent there are no links at all.                                        *)
Discovered(tree, p) ==
  LET links == ExtractLinks(tree, p)
      shows == {Resolve[p][l] : l \in Visible(tree)} \ (Junk \union Dropped(p))
  IN  {[answer |-> NoAnswer, silent |-> TRUE, shows |-> shows]} \union
      {[answer |-> Merge(links, output), silent |-> FALSE, shows |-> shows] :
         output \in Answers(links \union Invented)}

Discoveries == [p \in Urls |-> UNION {Discovered(tree, p) : tree \in PageTrees}]

-----------------------------------------------------------------------------
(* The steps of run_scout for page p                                       *)

Proceed(p, from, to) ==
  /\ phase[p] = from
  /\ phase' = [phase EXCEPT ![p] = to]

Event == events < MaxEvents /\ events' = events + 1

Exists(u) == sources[u] # "none"

(* create_source: an UPSERT that leaves the status of a known URL alone.   *)
Upserted(u, status) == IF Exists(u) THEN sources[u] ELSE status

(* Mutation: a source that was ingested is discovered again. *)
ReadUnfinished(urls) == {u \in urls \ Junk : Exists(u) /\ sources[u] # "ingested"}

(* The query of session 1                                                  *)
ReadKnown(urls) == {u \in urls \ Junk : Exists(u)}

(* Fetch, prune, extract, classify, and read the known sources.            *)
Discover(p) ==
  /\ p \in queued
  /\ Proceed(p, "idle", "read")
  /\ \E d \in Discoveries[p] :
       /\ answer' = [answer EXCEPT ![p] = d.answer]
       /\ known' = [known EXCEPT ![p] = ReadKnown(DOMAIN d.answer)]
       /\ silent' = IF d.silent THEN silent \union {p} ELSE silent
       /\ shown' = [shown EXCEPT ![p] = d.shows]
       /\ linked' = linked \union (d.shows \ Unsupported)
  /\ UNCHANGED <<table, orphans, asked, gone, events>>

(* What a scout holds between its sessions                                 *)
Reading(p) == [page |-> p, answer |-> answer[p], known |-> known[p]]

(* The classification loop; it applies the filters of the extraction again.*)
New(s) == DOMAIN s.answer \ (Junk \union s.known)
Denied(s) ==
  {u \in New(s) \ {s.page} :
     u \in Nowhere[s.page] \union Unsupported \/ s.answer[u] = "navigation"}
Links(s, class) == {u \in New(s) \ (Denied(s) \union {s.page}) : s.answer[u] = class}

(* Mutation: the status of a source is always set.                         *)
RecordOver(s) ==
  /\ sources' = [u \in Urls |->
       CASE u \in Denied(s) \union s.known -> "denied"
         [] u \in Links(s, "certain") -> "active"
         [] u \in Links(s, "uncertain") -> "needs_confirmation"
         [] OTHER -> sources[u]]
  /\ queued' = queued \union Links(s, "certain")

(* Mutation: certain links are queued before they are looked at.           *)
RecordUnfiltered(s) ==
  /\ sources' = [u \in Urls |->
       CASE u \in Denied(s) -> Upserted(u, "denied")
         [] u \in Links(s, "certain") -> Upserted(u, "active")
         [] u \in Links(s, "uncertain") -> "needs_confirmation"
         [] OTHER -> sources[u]]
  /\ queued' = queued \union {u \in DOMAIN s.answer : s.answer[u] = "certain"}

(* Session 2.  A denied or certain link that has a source by now leaves    *)
(* its status alone, an uncertain one does not; add_to_queue does nothing  *)
(* for a source that has a row.                                            *)
Record(s) ==
  /\ sources' = [u \in Urls |->
       CASE u \in Denied(s) -> Upserted(u, "denied")
         [] u \in Links(s, "certain") -> Upserted(u, "active")
         [] u \in Links(s, "uncertain") -> "needs_confirmation"
         [] OTHER -> sources[u]]
  /\ queued' = queued \union Links(s, "certain")

(* Nothing reads the answer again.                                         *)
Reset(p) ==
  /\ answer' = [answer EXCEPT ![p] = NoAnswer]
  /\ known' = [known EXCEPT ![p] = {}]
  /\ shown' = [shown EXCEPT ![p] = {}]
  /\ silent' = silent \ {p}

Write(p) ==
  /\ Proceed(p, "read", "written")
  /\ Record(Reading(p))
  /\ Reset(p)
  /\ gone' = [gone EXCEPT ![p] = {}]
  /\ UNCHANGED <<orphans, linked, asked, events>>

(* The process phase, and the end of the row.                              *)
Finish(p) ==
  /\ Proceed(p, "written", "idle")
  /\ sources' = [sources EXCEPT ![p] = "ingested"]
  /\ queued' = queued \ {p}
  /\ UNCHANGED <<answer, known, shown, gone, silent, orphans, linked, asked, events>>

(* An exception in run_scout or run_process: the source is failed, what    *)
(* was committed stays, and the row is tried again.                        *)
Fail(p) ==
  /\ Event
  /\ phase[p] # "idle"
  /\ phase' = [phase EXCEPT ![p] = "idle"]
  /\ sources' = [sources EXCEPT ![p] = "failed"]
  /\ Reset(p)
  /\ gone' = [gone EXCEPT ![p] = {}]
  /\ UNCHANGED <<queued, orphans, linked, asked>>

Scout(p) == Discover(p) \/ Write(p) \/ Finish(p)

(* The second session of a scout without its source: a new row would name  *)
(* the deleted parent and is refused, and all with it; links that have a   *)
(* source by now are upserted as ever.  The job is gone with the source:   *)
(* the process phase raises, and there is nothing to be failed.            *)
WriteOrphan(s) ==
  /\ \A u \in Denied(s) \union Links(s, "certain") \union Links(s, "uncertain") : Exists(u)
  /\ Record(s)
  /\ orphans' = orphans \ {s}
  /\ UNCHANGED <<scout, linked, asked, events>>

FailOrphan(s) ==
  /\ orphans' = orphans \ {s}
  /\ UNCHANGED <<scout, table, linked, asked, events>>

(* What people ask for                                                     *)

(* POST /ingest takes any URL; the status of a known source stays.         *)
Submit(u) ==
  /\ Event
  /\ sources' = [sources EXCEPT ![u] = Upserted(u, "active")]
  /\ queued' = queued \union {u}
  /\ asked' = asked \union {u}
  /\ UNCHANGED <<scout, orphans, linked>>

(* reingest_source takes what was denied, dismissed or failed as well; for *)
(* a source that has a row add_to_queue would do nothing.                  *)
Reingest(u) ==
  /\ Event
  /\ Exists(u) /\ sources[u] # "needs_confirmation"
  /\ u \notin queued
  /\ queued' = queued \union {u}
  /\ asked' = asked \union {u}
  /\ UNCHANGED <<scout, orphans, sources, linked>>

(* delete_source: the row of the queue goes with the source.  A scout that *)
(* has not read yet, or has written, finds no job and raises.              *)
DeleteSource(u) ==
  /\ Event
  /\ Exists(u)
  /\ sources' = [sources EXCEPT ![u] = "none"]
  /\ queued' = queued \ {u}
  /\ asked' = asked \ {u}
  /\ orphans' = orphans \union
       {[page |-> p, answer |-> answer[p], known |-> known[p], since |-> events] :
          p \in {q \in {u} : phase[q] = "read"}}
  /\ phase' = [phase EXCEPT ![u] = "idle"]
  /\ Reset(u)
  /\ gone' = [p \in Urls |-> IF p = u THEN {} ELSE gone[p] \union ({u} \intersect known[p])]
  /\ UNCHANGED linked

(* confirm_source: a reviewer has an uncertain link processed, or not.     *)
Confirm(u) ==
  /\ sources[u] = "needs_confirmation"
  /\ sources' = [sources EXCEPT ![u] = "active"]
  /\ queued' = queued \union {u}
  /\ UNCHANGED <<scout, orphans, linked, asked, events>>

Discard(u) ==
  /\ sources[u] = "needs_confirmation"
  /\ sources' = [sources EXCEPT ![u] = "dismissed"]
  /\ UNCHANGED <<scout, orphans, queued, linked, asked, events>>

Next ==
  \/ \E p \in Urls : Scout(p) \/ Fail(p)
  \/ \E s \in orphans : WriteOrphan(s) \/ FailOrphan(s)
  \/ \E u \in Urls : Submit(u) \/ Reingest(u) \/ DeleteSource(u) \/ Confirm(u) \/ Discard(u)

Spec == Init /\ [][Next]_vars

(* The queue worker takes up every row and carries its run through.        *)
FairSpec == Spec /\ \A p \in Urls : WF_vars(Scout(p))

-----------------------------------------------------------------------------
(* Whatever the agent answers, a page is only queued, or offered to a      *)
(* reviewer, when a person asked for it, or when it is in a supported      *)
(* language and a visible link of a scouted page of its site leads to it.  *)
OnlyContentQueued ==
  \A u \in Urls : u \in queued \/ sources[u] \in {"active", "needs_confirmation"} =>
    u \in linked \union asked

(* Every link in the content of a page is accounted for when its scout     *)
(* writes, also those the agent did not mention: it has a source then,     *)
(* unless the URL filters dropped it, the agent gave no output at all, or  *)
(* the source it had when the scout looked was deleted since.              *)
LinksAccountedFor ==
  [][\A p \in Urls : phase[p] = "read" /\ phase'[p] = "written" /\ p \notin silent =>
       \A u \in shown[p] \ gone[p] : sources'[u] # "none"]_vars

(* A scout leaves the sources alone that it found to be known: neither     *)
(* their status nor their place in the queue changes.                      *)
KnownLinksUntouched ==
  [][\A p \in Urls : phase[p] = "read" /\ phase'[p] = "written" =>
       \A u \in known[p] : sources'[u] = sources[u] /\ (u \in queued' <=> u \in queued)]_vars

(* The crawl ends, although pages link to each other in cycles and scouts  *)
(* discover what others are about to write.                                *)
CrawlEnds == <>[](queued = {})
=============================================================================
