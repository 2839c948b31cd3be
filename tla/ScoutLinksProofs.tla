--------------------------- MODULE ScoutLinksProofs ---------------------------
(***************************************************************************)
(* Theorems about ScoutLinks, for every set of pages of any size, every    *)
(* way of resolving links and every answer of the agent.                   *)
(***************************************************************************)
EXTENDS ScoutLinks, FiniteSetTheorems, WellFoundedInduction, TLAPS

-----------------------------------------------------------------------------
(* Pages: what is above a node.  Up(tree, n) is the smallest set with n    *)
(* and the parent of each of its nodes but the root.                       *)

Closed(tree, C) == \A x \in C \ {1} : tree.parent[x] \in C

Up(tree, n) ==
  {m \in Nodes(tree) : \A C \in SUBSET Nodes(tree) : n \in C /\ Closed(tree, C) => m \in C}

Above(tree, n) == Up(tree, n) \ {1}

LEMMA Parents ==
  ASSUME NEW tree, IsPage(tree)
  PROVE  /\ Nodes(tree) \subseteq Nat \ {0} /\ 1 \in Nodes(tree)
         /\ \A n \in Nodes(tree) \ {1} : tree.parent[n] \in Nodes(tree) /\ tree.parent[n] < n
<1>1. PICK n \in Nat : Nodes(tree) = 1 .. n /\ 1 \in 1 .. n
  BY FS_CardinalityType DEF IsPage
<1>2. \A i \in Nodes(tree) \ {1} : tree.parent[i] \in 1 .. i - 1
  BY DEF IsPage
<1> QED BY <1>1, <1>2

LEMMA UpRoot ==
  ASSUME NEW tree, IsPage(tree)
  PROVE  Up(tree, 1) = {1}
<1>1. 1 \in Nodes(tree) /\ {1} \in SUBSET Nodes(tree) /\ Closed(tree, {1})
  BY Parents DEF Closed
<1> QED BY <1>1 DEF Up

LEMMA UpHasNode ==
  ASSUME NEW tree, NEW n \in Nodes(tree)
  PROVE  n \in Up(tree, n) /\ Up(tree, n) \subseteq Nodes(tree)
BY DEF Up

LEMMA UpIsClosed ==
  ASSUME NEW tree, IsPage(tree), NEW n \in Nodes(tree)
  PROVE  Closed(tree, Up(tree, n))
<1> SUFFICES ASSUME NEW x \in Up(tree, n) \ {1}
             PROVE  tree.parent[x] \in Up(tree, n)
  BY DEF Closed
<1>1. tree.parent[x] \in Nodes(tree)
  BY Parents, UpHasNode
<1>2. ASSUME NEW C \in SUBSET Nodes(tree), n \in C, Closed(tree, C)
      PROVE  tree.parent[x] \in C
  <2>1. x \in C
    BY <1>2 DEF Up
  <2> QED BY <1>2, <2>1 DEF Closed
<1> QED BY <1>1, <1>2 DEF Up

LEMMA UpIsSmallest ==
  ASSUME NEW tree, NEW n \in Nodes(tree), NEW C \in SUBSET Nodes(tree), n \in C, Closed(tree, C)
  PROVE  Up(tree, n) \subseteq C
BY DEF Up

LEMMA UpStep ==
  ASSUME NEW tree, IsPage(tree), NEW n \in Nodes(tree) \ {1}
  PROVE  Up(tree, n) = {n} \union Up(tree, tree.parent[n])
<1> DEFINE p == tree.parent[n]
<1>1. p \in Nodes(tree)
  BY Parents
<1>2. p \in Up(tree, n) /\ n \in Up(tree, n)
  BY UpHasNode, UpIsClosed DEF Closed
<1>3. Up(tree, p) \subseteq Up(tree, n)
  BY <1>1, <1>2, UpIsClosed, UpIsSmallest, UpHasNode
<1> DEFINE C == {n} \union Up(tree, p)
<1>4. C \in SUBSET Nodes(tree) /\ n \in C
  BY <1>1, UpHasNode
<1>5. Closed(tree, C)
  BY <1>1, UpHasNode, UpIsClosed DEF Closed
<1>6. Up(tree, n) \subseteq C
  BY <1>4, <1>5, UpIsSmallest
<1> QED BY <1>2, <1>3, <1>6

LEMMA AboveStep ==
  ASSUME NEW tree, IsPage(tree)
  PROVE  /\ Above(tree, 1) = {}
         /\ \A n \in Nodes(tree) \ {1} : Above(tree, n) = {n} \union Above(tree, tree.parent[n])
BY UpRoot, UpStep DEF Above

LEMMA AboveAbove ==
  ASSUME NEW tree, IsPage(tree), NEW n \in Nodes(tree), NEW a \in Above(tree, n)
  PROVE  a \in Nodes(tree) /\ a \in Above(tree, a) /\ Above(tree, a) \subseteq Above(tree, n)
<1>1. a \in Nodes(tree) /\ a \in Up(tree, n)
  BY UpHasNode DEF Above
<1>2. Up(tree, a) \subseteq Up(tree, n) /\ a \in Up(tree, a)
  BY <1>1, UpHasNode, UpIsClosed, UpIsSmallest
<1> QED BY <1>1, <1>2 DEF Above

LEMMA LeastNode ==
  ASSUME NEW S \in SUBSET Nat, S # {}
  PROVE  \E x \in S : \A y \in S : ~(y < x)
<1>1. \E x \in S : \A y \in S : ~(<<y, x>> \in OpToRel(<, Nat))
  BY NatLessThanWellFounded, WFMin
<1> QED BY <1>1 DEF OpToRel

(* A condition that is passed down from the root holds at a node when all  *)
(* above it fulfil what the step asks.                                     *)
LEMMA PassedDown ==
  ASSUME NEW tree, IsPage(tree), NEW ok, NEW f,
         \A n \in Nodes(tree) : f[n] <=> n = 1 \/ (n \in ok /\ f[tree.parent[n]])
  PROVE  \A n \in Nodes(tree) : f[n] <=> Above(tree, n) \subseteq ok
<1> DEFINE bad == {n \in Nodes(tree) : ~(f[n] <=> Above(tree, n) \subseteq ok)}
<1> SUFFICES ASSUME bad # {} PROVE FALSE
  OBVIOUS
<1>1. bad \in SUBSET Nat
  BY Parents
<1>2. PICK n \in bad : \A m \in bad : ~(m < n)
  BY <1>1, LeastNode
<1>3. CASE n = 1
  BY <1>3, AboveStep
<1>4. CASE n # 1
  <2> DEFINE p == tree.parent[n]
  <2>1. p \in Nodes(tree) /\ p < n
    BY <1>4, Parents
  <2>2. p \notin bad
    BY <1>2, <2>1
  <2>3. f[p] <=> Above(tree, p) \subseteq ok
    BY <2>1, <2>2
  <2>4. f[n] <=> n \in ok /\ f[p]
    BY <1>4
  <2>5. Above(tree, n) = {n} \union Above(tree, p)
    BY <1>4, AboveStep
  <2> QED BY <2>3, <2>4, <2>5
<1> QED BY <1>3, <1>4

(* There is such a condition.                                              *)
LEMMA PassableDown ==
  ASSUME NEW tree, IsPage(tree), NEW ok
  PROVE  \E f : f = [n \in Nodes(tree) |-> n = 1 \/ (n \in ok /\ f[tree.parent[n]])]
<1> DEFINE f == [n \in Nodes(tree) |-> Above(tree, n) \subseteq ok]
<1>1. ASSUME NEW n \in Nodes(tree)
      PROVE  (Above(tree, n) \subseteq ok) = (n = 1 \/ (n \in ok /\ f[tree.parent[n]]))
  <2>1. CASE n = 1
    BY <2>1, AboveStep
  <2>2. CASE n # 1
    <3>1. f[tree.parent[n]] = (Above(tree, tree.parent[n]) \subseteq ok)
      BY <2>2, Parents
    <3>2. Above(tree, n) = {n} \union Above(tree, tree.parent[n])
      BY <2>2, AboveStep
    <3> QED BY <2>2, <3>1, <3>2
  <2> QED BY <2>1, <2>2
<1>2. f = [n \in Nodes(tree) |-> n = 1 \/ (n \in ok /\ f[tree.parent[n]])]
  BY <1>1
<1> QED BY <1>2

LEMMA PruneKeeps ==
  ASSUME NEW tree, IsPage(tree)
  PROVE  Prune(tree) =
           {n \in Nodes(tree) :
              Above(tree, n) \subseteq {m \in Nodes(tree) : tree.kind[m] \notin {"noise", "metadata"}}}
<1> DEFINE f == CHOOSE f : f = [n \in Nodes(tree) |->
              n = 1 \/ (tree.kind[n] \notin {"noise", "metadata"} /\ f[tree.parent[n]])]
           ok == {m \in Nodes(tree) : tree.kind[m] \notin {"noise", "metadata"}}
<1>1. PICK g : g = [n \in Nodes(tree) |-> n = 1 \/ (n \in ok /\ g[tree.parent[n]])]
  <2> HIDE DEF ok
  <2> QED BY PassableDown
<1>2. g = [n \in Nodes(tree) |->
             n = 1 \/ (tree.kind[n] \notin {"noise", "metadata"} /\ g[tree.parent[n]])]
  BY <1>1
<1>3. f = [n \in Nodes(tree) |->
             n = 1 \/ (tree.kind[n] \notin {"noise", "metadata"} /\ f[tree.parent[n]])]
  BY <1>2
<1>4. Prune(tree) = {n \in Nodes(tree) : f[n]}
  BY DEF Prune
<1> HIDE DEF f
<1>5. \A n \in Nodes(tree) : f[n] <=> n = 1 \/ (n \in ok /\ f[tree.parent[n]])
  BY <1>3
<1>6. \A n \in Nodes(tree) : f[n] <=> Above(tree, n) \subseteq ok
  <2> HIDE DEF ok
  <2> QED BY <1>5, PassedDown
<1> QED BY <1>4, <1>6

LEMMA WalkReaches ==
  ASSUME NEW tree, IsPage(tree), NEW nodes \in SUBSET Nodes(tree), 1 \in nodes
  PROVE  WalkLinks(tree, nodes) =
           {tree.link[n] : n \in
              {m \in nodes : Above(tree, m) \subseteq {x \in nodes : tree.kind[x] # "picture"}}}
             \ {NoLink}
<1> DEFINE f == CHOOSE f : f = [n \in Nodes(tree) |->
              n \in nodes /\ (n = 1 \/ (tree.kind[n] # "picture" /\ f[tree.parent[n]]))]
           ok == {x \in nodes : tree.kind[x] # "picture"}
<1>1. PICK g : g = [n \in Nodes(tree) |-> n = 1 \/ (n \in ok /\ g[tree.parent[n]])]
  <2> HIDE DEF ok
  <2> QED BY PassableDown
<1>2. \A n \in Nodes(tree) :
        (n = 1 \/ (n \in ok /\ g[tree.parent[n]]))
          = (n \in nodes /\ (n = 1 \/ (tree.kind[n] # "picture" /\ g[tree.parent[n]])))
  OBVIOUS
<1>3. g = [n \in Nodes(tree) |->
             n \in nodes /\ (n = 1 \/ (tree.kind[n] # "picture" /\ g[tree.parent[n]]))]
  BY <1>1, <1>2
<1>4. f = [n \in Nodes(tree) |->
             n \in nodes /\ (n = 1 \/ (tree.kind[n] # "picture" /\ f[tree.parent[n]]))]
  BY <1>3
<1>5. WalkLinks(tree, nodes) = {tree.link[n] : n \in {m \in nodes : f[m]}} \ {NoLink}
  BY DEF WalkLinks
<1> HIDE DEF f
<1>6. \A n \in Nodes(tree) : f[n] <=> n = 1 \/ (n \in ok /\ f[tree.parent[n]])
  BY <1>4
<1>7. \A n \in Nodes(tree) : f[n] <=> Above(tree, n) \subseteq ok
  <2> HIDE DEF ok
  <2> QED BY <1>6, PassedDown
<1>8. {m \in nodes : f[m]} = {m \in nodes : Above(tree, m) \subseteq ok}
  BY <1>7
<1> QED BY <1>5, <1>8

(* The path of Visible is what is above a node.                            *)
LEMMA PathsAreAbove ==
  ASSUME NEW tree, IsPage(tree), NEW f,
         f = [n \in Nodes(tree) |-> IF n = 1 THEN {} ELSE {n} \union f[tree.parent[n]]]
  PROVE  \A n \in Nodes(tree) : f[n] = Above(tree, n)
<1> DEFINE bad == {n \in Nodes(tree) : f[n] # Above(tree, n)}
<1> SUFFICES ASSUME bad # {} PROVE FALSE
  OBVIOUS
<1>1. PICK n \in bad : \A m \in bad : ~(m < n)
  BY Parents, LeastNode
<1>2. CASE n = 1
  BY <1>2, AboveStep, Parents
<1>3. CASE n # 1
  <2>1. tree.parent[n] \in Nodes(tree) /\ tree.parent[n] < n
    BY <1>3, Parents
  <2>2. f[tree.parent[n]] = Above(tree, tree.parent[n])
    BY <1>1, <2>1
  <2> QED BY <1>3, <2>2, AboveStep
<1> QED BY <1>2, <1>3

LEMMA VisibleIs ==
  ASSUME NEW tree, IsPage(tree)
  PROVE  Visible(tree) =
           {tree.link[n] : n \in
              {m \in Nodes(tree) : \A a \in Above(tree, m) : tree.kind[a] \in {"item", "field"}}}
             \ {NoLink}
<1> DEFINE f == CHOOSE f : f = [n \in Nodes(tree) |->
                            IF n = 1 THEN {} ELSE {n} \union f[tree.parent[n]]]
           g == [n \in Nodes(tree) |-> Above(tree, n)]
<1>1. \A n \in Nodes(tree) :
        Above(tree, n) = IF n = 1 THEN {} ELSE {n} \union g[tree.parent[n]]
  BY AboveStep, Parents
<1>2. g = [n \in Nodes(tree) |-> IF n = 1 THEN {} ELSE {n} \union g[tree.parent[n]]]
  BY <1>1
<1> HIDE DEF g
<1>3. f = [n \in Nodes(tree) |-> IF n = 1 THEN {} ELSE {n} \union f[tree.parent[n]]]
  BY <1>2
<1>4. Visible(tree) = {tree.link[n] : n \in {m \in Nodes(tree) :
        \A a \in f[m] : tree.kind[a] \in {"item", "field"}}} \ {NoLink}
  BY DEF Visible
<1> HIDE DEF f
<1>5. \A n \in Nodes(tree) : f[n] = Above(tree, n)
  BY <1>3, PathsAreAbove
<1>6. {m \in Nodes(tree) : \A a \in f[m] : tree.kind[a] \in {"item", "field"}} =
        {m \in Nodes(tree) : \A a \in Above(tree, m) : tree.kind[a] \in {"item", "field"}}
  BY <1>5
<1> QED BY <1>4, <1>6

(* The extraction of a page finds the links a reader can see, and no       *)
(* others: pruning with prune_aem_json and walking what is left with       *)
(* _walk_links loses nothing and lets through nothing that an experience   *)
(* fragment, a noise component, metadata or a picture holds, however deep. *)
THEOREM WalkFindsTheVisible ==
  \A tree : IsPage(tree) => WalkLinks(tree, Prune(tree)) = Visible(tree)
<1> SUFFICES ASSUME NEW tree, IsPage(tree)
             PROVE  WalkLinks(tree, Prune(tree)) = Visible(tree)
  OBVIOUS
<1> DEFINE quiet == {m \in Nodes(tree) : tree.kind[m] \notin {"noise", "metadata"}}
           ok == {x \in Prune(tree) : tree.kind[x] # "picture"}
<1>1. Prune(tree) = {n \in Nodes(tree) : Above(tree, n) \subseteq quiet}
  BY PruneKeeps
<1>2. 1 \in Prune(tree) /\ Prune(tree) \in SUBSET Nodes(tree)
  BY <1>1, Parents, AboveStep
<1>3. ASSUME NEW m \in Nodes(tree)
      PROVE  m \in Prune(tree) /\ Above(tree, m) \subseteq ok
               <=> \A a \in Above(tree, m) : tree.kind[a] \in {"item", "field"}
  <2>1. \A a \in Above(tree, m) : a \in Nodes(tree) /\ a \in Above(tree, a)
                                     /\ Above(tree, a) \subseteq Above(tree, m)
    BY AboveAbove
  <2>2. \A a \in Above(tree, m) :
          tree.kind[a] \in {"item", "noise", "field", "metadata", "picture"}
    BY <2>1 DEF IsPage
  <2>3. ASSUME m \in Prune(tree), Above(tree, m) \subseteq ok, NEW a \in Above(tree, m)
        PROVE  tree.kind[a] \in {"item", "field"}
    BY <1>1, <2>2, <2>3
  <2>4. ASSUME \A a \in Above(tree, m) : tree.kind[a] \in {"item", "field"}
        PROVE  m \in Prune(tree) /\ Above(tree, m) \subseteq ok
    <3>1. Above(tree, m) \subseteq quiet
      BY <2>1, <2>4
    <3>2. \A a \in Above(tree, m) : a \in Prune(tree)
      BY <1>1, <2>1, <3>1
    <3> QED BY <1>1, <2>4, <3>1, <3>2
  <2> QED BY <2>3, <2>4
<1>4. WalkLinks(tree, Prune(tree)) =
        {tree.link[n] : n \in {m \in Prune(tree) : Above(tree, m) \subseteq ok}} \ {NoLink}
  BY <1>2, WalkReaches
<1>5. {m \in Prune(tree) : Above(tree, m) \subseteq ok} =
        {m \in Nodes(tree) : \A a \in Above(tree, m) : tree.kind[a] \in {"item", "field"}}
  BY <1>2, <1>3
<1> QED BY <1>4, <1>5, VisibleIs

-----------------------------------------------------------------------------
(* What a scout may come to                                                *)

LEMMA Functions ==
  ASSUME NEW S, NEW f
  PROVE  f \in Answers(S) <=> \E U \in SUBSET S : f \in [U -> Class]
BY DEF Answers

LEMMA NoAnswerIsEmpty == NoAnswer \in Answers(Urls) /\ DOMAIN NoAnswer = {}
<1>1. NoAnswer \in [{} -> Class] /\ DOMAIN NoAnswer = {}
  BY DEF NoAnswer
<1> QED BY <1>1, Functions

LEMMA VisibleLinks ==
  ASSUME NEW tree, IsPage(tree)
  PROVE  Visible(tree) \subseteq Raw
<1>1. \A n \in Nodes(tree) : tree.link[n] \in Raw \union {NoLink}
  BY DEF IsPage
<1> QED BY <1>1, VisibleIs

LEMMA MergeTypes ==
  ASSUME NEW links \in SUBSET Urls, NEW output \in Answers(links \union Invented)
  PROVE  Merge(links, output) \in Answers(Urls) /\ DOMAIN Merge(links, output) = links
<1>1. PICK U \in SUBSET (links \union Invented) : output \in [U -> Class]
  BY Functions
<1>2. \A u \in links :
        (IF u \in DOMAIN output THEN output[u] ELSE "navigation") \in Class
  BY <1>1 DEF Class
<1>3. Merge(links, output) \in [links -> Class]
  BY <1>2 DEF Merge
<1> QED BY <1>3, Functions

LEMMA DiscoveryFacts ==
  ASSUME NEW p \in Urls, NEW d \in Discoveries[p]
  PROVE  /\ d.answer \in Answers(Urls)
         /\ d.shows \in SUBSET Urls
         /\ p \notin DOMAIN d.answer
         /\ DOMAIN d.answer \ Junk \subseteq d.shows /\ d.shows \intersect Junk = {}
         /\ d.silent \/ d.shows \subseteq DOMAIN d.answer \ Junk
<1>1. PICK tree \in PageTrees : d \in Discovered(tree, p)
  BY DEF Discoveries
<1>2. IsPage(tree)
  BY PagesAssumption
<1> DEFINE links == ExtractLinks(tree, p)
           shows == {Resolve[p][l] : l \in Visible(tree)} \ (Junk \union Dropped(p))
<1>3. /\ links \in SUBSET Urls /\ p \notin links
      /\ shows \in SUBSET Urls
      /\ links \ Junk \subseteq shows /\ shows \intersect Junk = {}
      /\ shows \subseteq links \ Junk
  <2>1. \A l \in Visible(tree) : Resolve[p][l] \in Urls
    BY <1>2, VisibleLinks, ResolveAssumption
  <2>2. links = {Resolve[p][l] : l \in Visible(tree)} \ Dropped(p)
    BY <1>2, WalkFindsTheVisible DEF ExtractLinks
  <2> QED BY <2>1, <2>2 DEF Dropped
<1>4. \/ d = [answer |-> NoAnswer, silent |-> TRUE, shows |-> shows]
      \/ \E output \in Answers(links \union Invented) :
           d = [answer |-> Merge(links, output), silent |-> FALSE, shows |-> shows]
  BY <1>1 DEF Discovered
<1> HIDE DEF links, shows
<1>5. CASE d = [answer |-> NoAnswer, silent |-> TRUE, shows |-> shows]
  BY <1>3, <1>5, NoAnswerIsEmpty
<1>6. ASSUME NEW output \in Answers(links \union Invented),
             d = [answer |-> Merge(links, output), silent |-> FALSE, shows |-> shows]
      PROVE  /\ d.answer \in Answers(Urls)
             /\ d.shows \in SUBSET Urls
             /\ p \notin DOMAIN d.answer
             /\ DOMAIN d.answer \ Junk \subseteq d.shows /\ d.shows \intersect Junk = {}
             /\ d.silent \/ d.shows \subseteq DOMAIN d.answer \ Junk
  <2>1. d.answer = Merge(links, output) /\ d.shows = shows
    BY <1>6
  <2>2. d.answer \in Answers(Urls) /\ DOMAIN d.answer = links
    BY <1>3, <2>1, MergeTypes
  <2> QED BY <1>3, <2>1, <2>2
<1> QED BY <1>4, <1>5, <1>6

-----------------------------------------------------------------------------
(* What a scout writes                                                     *)

LEMMA WrittenStatus ==
  ASSUME NEW s, Record(s), NEW u \in Urls
  PROVE  /\ u \in Denied(s) /\ ~Exists(u) => sources'[u] = "denied"
         /\ u \in Links(s, "certain") /\ ~Exists(u) => sources'[u] = "active"
         /\ u \in Links(s, "uncertain") => sources'[u] = "needs_confirmation"
         /\ u \notin Links(s, "uncertain") /\ Exists(u) => sources'[u] = sources[u]
         /\ u \notin New(s) => sources'[u] = sources[u]
<1>1. sources'[u] =
        CASE u \in Denied(s) -> Upserted(u, "denied")
          [] u \in Links(s, "certain") -> Upserted(u, "active")
          [] u \in Links(s, "uncertain") -> "needs_confirmation"
          [] OTHER -> sources[u]
  BY DEF Record
<1>2. /\ ~(u \in Denied(s) /\ (u \in Links(s, "certain") \/ u \in Links(s, "uncertain")))
      /\ ~(u \in Links(s, "certain") /\ u \in Links(s, "uncertain"))
      /\ u \notin New(s) => /\ u \notin Denied(s)
                            /\ u \notin Links(s, "certain") /\ u \notin Links(s, "uncertain")
  BY DEF Denied, Links
<1> QED BY <1>1, <1>2 DEF Upserted

-----------------------------------------------------------------------------
(* Types                                                                   *)

Status == {"none", "active", "needs_confirmation", "dismissed", "denied", "ingested", "failed"}

Held == [page : Urls, answer : Answers(Urls), known : SUBSET Urls]
HeldSince == [page : Urls, answer : Answers(Urls), known : SUBSET Urls, since : Nat]

LEMMA AnswersName ==
  ASSUME NEW f \in Answers(Urls)
  PROVE  DOMAIN f \subseteq Urls /\ \A u \in DOMAIN f : f[u] \in Class
BY Functions

(* The rows that a scout writes are of URLs in its answer, and have a      *)
(* source then; no source is lost.                                         *)
LEMMA RecordTypes ==
  ASSUME TypeOK, NEW s \in Held \union HeldSince, Record(s)
  PROVE  /\ sources' \in [Urls -> Status] /\ queued' \subseteq {u \in Urls : sources'[u] # "none"}
         /\ \A u \in Urls : Exists(u) => sources'[u] # "none"
<1>1. \A u \in Urls : sources'[u] \in Status /\ (Exists(u) => sources'[u] # "none")
  <2> SUFFICES ASSUME NEW u \in Urls
               PROVE  sources'[u] \in Status /\ (Exists(u) => sources'[u] # "none")
    OBVIOUS
  <2>1. sources[u] \in Status
    BY DEF TypeOK, Status
  <2>2. sources'[u] \in {"denied", "active", "needs_confirmation", sources[u]}
    BY DEF Upserted, Record
  <2>3. Exists(u) <=> sources[u] # "none"
    BY DEF Exists
  <2> QED BY <2>1, <2>2, <2>3 DEF Status
<1>2. sources' \in [Urls -> Status]
  <2>1. \E f : sources' = [u \in Urls |-> f[u]]
    BY <1>1 DEF Record
  <2> QED BY <1>1, <2>1
<1>3. queued' \subseteq {u \in Urls : sources'[u] # "none"}
  <2>1. ASSUME NEW u \in Links(s, "certain")
        PROVE  u \in Urls /\ sources'[u] # "none"
    <3>1. u \in DOMAIN s.answer /\ s.answer \in Answers(Urls)
      BY DEF Links, New, Held, HeldSince
    <3>2. u \in Urls
      BY <3>1, AnswersName
    <3> QED BY <1>1, <2>1, <3>2, WrittenStatus
  <2>2. queued' = queued \union Links(s, "certain")
    BY DEF Record
  <2> QED BY <1>1, <2>1, <2>2 DEF TypeOK, Exists
<1> QED BY <1>1, <1>2, <1>3

LEMMA ReadingIsHeld ==
  ASSUME TypeOK, NEW p \in Urls
  PROVE  Reading(p) \in Held
BY DEF TypeOK, Reading, Held

LEMMA ResetTypes ==
  ASSUME TypeOK, NEW p \in Urls, Reset(p)
  PROVE  /\ answer' \in [Urls -> Answers(Urls)]
         /\ known' \in [Urls -> SUBSET Urls]
         /\ \A q \in Urls : known'[q] \subseteq DOMAIN answer'[q]
         /\ shown' \in [Urls -> SUBSET Urls] /\ silent' \subseteq Urls
<1>1. answer' = [answer EXCEPT ![p] = NoAnswer] /\ known' = [known EXCEPT ![p] = {}]
  BY DEF Reset
<1>2. answer' \in [Urls -> Answers(Urls)] /\ known' \in [Urls -> SUBSET Urls]
  BY <1>1, NoAnswerIsEmpty DEF TypeOK
<1>3. \A q \in Urls : known'[q] \subseteq DOMAIN answer'[q]
  BY <1>1, NoAnswerIsEmpty DEF TypeOK
<1>4. shown' \in [Urls -> SUBSET Urls] /\ silent' \subseteq Urls
  BY DEF TypeOK, Reset
<1> QED BY <1>2, <1>3, <1>4

LEMMA EventTypes ==
  ASSUME TypeOK, Event
  PROVE  events' \in 0 .. MaxEvents
BY BoundsAssumption DEF TypeOK, Event

LEMMA DiscoverTypes ==
  ASSUME TypeOK, NEW p \in Urls, Discover(p)
  PROVE  TypeOK'
<1>1. PICK d \in Discoveries[p] :
       /\ answer' = [answer EXCEPT ![p] = d.answer]
       /\ known' = [known EXCEPT ![p] = ReadKnown(DOMAIN d.answer)]
       /\ silent' = IF d.silent THEN silent \union {p} ELSE silent
       /\ shown' = [shown EXCEPT ![p] = d.shows]
       /\ linked' = linked \union (d.shows \ Unsupported)
  BY DEF Discover
<1>2. d.answer \in Answers(Urls) /\ d.shows \in SUBSET Urls /\ d.shows \intersect Junk = {}
  BY DiscoveryFacts
<1>3. DOMAIN d.answer \in SUBSET Urls
  BY <1>2, Functions
<1>4. ReadKnown(DOMAIN d.answer) \in SUBSET Urls
        /\ ReadKnown(DOMAIN d.answer) \subseteq DOMAIN d.answer
  BY <1>3 DEF ReadKnown
<1>5. answer' \in [Urls -> Answers(Urls)] /\ known' \in [Urls -> SUBSET Urls]
  BY <1>1, <1>2, <1>4 DEF TypeOK
<1>6. \A q \in Urls : known'[q] \subseteq DOMAIN answer'[q]
  BY <1>1, <1>4 DEF TypeOK
<1>7. /\ shown' \in [Urls -> SUBSET Urls] /\ silent' \subseteq Urls
      /\ linked' \subseteq Urls \ (Junk \union Unsupported)
  BY <1>1, <1>2 DEF TypeOK
<1>8. phase' \in [Urls -> {"idle", "read", "written"}]
  BY DEF TypeOK, Discover, Proceed
<1>9. UNCHANGED <<sources, queued, orphans, asked, gone, events>>
  BY DEF Discover, table
<1> QED BY <1>5, <1>6, <1>7, <1>8, <1>9 DEF TypeOK, Exists

LEMMA WriteTypes ==
  ASSUME TypeOK, NEW p \in Urls, Write(p)
  PROVE  TypeOK'
<1>1. sources' \in [Urls -> Status] /\ queued' \subseteq {u \in Urls : sources'[u] # "none"}
  BY ReadingIsHeld, RecordTypes DEF Write
<1>2. Reset(p) /\ UNCHANGED <<orphans, linked, asked, events>>
  BY DEF Write
<1>3. phase' \in [Urls -> {"idle", "read", "written"}] /\ gone' \in [Urls -> SUBSET Urls]
  BY DEF TypeOK, Write, Proceed
<1> QED BY <1>1, <1>2, <1>3, ResetTypes DEF TypeOK, Status

LEMMA FailTypes ==
  ASSUME TypeOK, NEW p \in Urls, Fail(p)
  PROVE  TypeOK'
<1>1. Reset(p) /\ UNCHANGED <<queued, orphans, linked, asked>>
  BY DEF Fail
<1>2. events' \in 0 .. MaxEvents
  BY EventTypes DEF Fail
<1>3. phase' \in [Urls -> {"idle", "read", "written"}] /\ gone' \in [Urls -> SUBSET Urls]
  BY DEF TypeOK, Fail
<1>4. sources' \in [Urls -> Status] /\ queued' \subseteq {u \in Urls : sources'[u] # "none"}
  BY DEF TypeOK, Fail, Status
<1> QED BY <1>1, <1>2, <1>3, <1>4, ResetTypes DEF TypeOK, Status

LEMMA DeleteTypes ==
  ASSUME TypeOK, NEW u \in Urls, DeleteSource(u)
  PROVE  TypeOK'
<1>1. Reset(u) /\ UNCHANGED linked
  BY DEF DeleteSource
<1>2. events' \in 0 .. MaxEvents
  BY EventTypes DEF DeleteSource
<1>3. phase' \in [Urls -> {"idle", "read", "written"}] /\ gone' \in [Urls -> SUBSET Urls]
  BY DEF TypeOK, DeleteSource
<1>4. sources' \in [Urls -> Status] /\ queued' \subseteq {v \in Urls : sources'[v] # "none"}
  BY DEF TypeOK, DeleteSource, Status
<1>5. orphans' \subseteq HeldSince
  <2>1. orphans \subseteq HeldSince
    BY DEF TypeOK, HeldSince
  <2>2. \A p \in {q \in {u} : phase[q] = "read"} :
          [page |-> p, answer |-> answer[p], known |-> known[p], since |-> events] \in HeldSince
    BY BoundsAssumption DEF TypeOK, HeldSince
  <2> QED BY <2>1, <2>2 DEF DeleteSource
<1>6. asked' \subseteq Urls
  BY DEF TypeOK, DeleteSource
<1> QED BY <1>1, <1>2, <1>3, <1>4, <1>5, <1>6, ResetTypes DEF TypeOK, Status, HeldSince

LEMMA OrphanTypes ==
  ASSUME TypeOK, NEW s \in orphans, WriteOrphan(s) \/ FailOrphan(s)
  PROVE  TypeOK'
<1>1. s \in HeldSince
  BY DEF TypeOK, HeldSince
<1>2. sources' \in [Urls -> Status] /\ queued' \subseteq {u \in Urls : sources'[u] # "none"}
  <2>1. CASE WriteOrphan(s)
    BY <1>1, <2>1, RecordTypes DEF WriteOrphan
  <2>2. CASE FailOrphan(s)
    BY <2>2 DEF TypeOK, FailOrphan, table, Status
  <2> QED BY <2>1, <2>2
<1>3. orphans' \subseteq orphans /\ UNCHANGED <<scout, linked, asked, events>>
  BY DEF WriteOrphan, FailOrphan
<1> QED BY <1>2, <1>3 DEF TypeOK, Status, scout

LEMMA OtherTypes ==
  ASSUME TypeOK, NEW u \in Urls,
         Finish(u) \/ Submit(u) \/ Reingest(u) \/ Confirm(u) \/ Discard(u)
  PROVE  TypeOK'
<1>1. UNCHANGED <<answer, known, shown, gone, silent, orphans, linked>>
  BY DEF Finish, Submit, Reingest, Confirm, Discard, scout
<1>2. phase' \in [Urls -> {"idle", "read", "written"}]
  BY DEF TypeOK, Finish, Submit, Reingest, Confirm, Discard, scout, Proceed
<1>3. sources' \in [Urls -> Status] /\ queued' \subseteq {v \in Urls : sources'[v] # "none"}
  <2>1. CASE Finish(u)
    BY <2>1 DEF TypeOK, Finish, Status
  <2>2. CASE Submit(u)
    BY <2>2 DEF Upserted, TypeOK, Submit, Status, Exists
  <2>3. CASE Reingest(u)
    BY <2>3 DEF TypeOK, Reingest, Status, Exists
  <2>4. CASE Confirm(u) \/ Discard(u)
    BY <2>4 DEF TypeOK, Confirm, Discard, Status
  <2> QED BY <2>1, <2>2, <2>3, <2>4
<1>4. asked' \subseteq Urls
  BY DEF TypeOK, Finish, Submit, Reingest, Confirm, Discard
<1>5. events' \in 0 .. MaxEvents
  <2>1. Event \/ events' = events
    BY DEF Finish, Submit, Reingest, Confirm, Discard
  <2> QED BY <2>1, EventTypes DEF TypeOK
<1> QED BY <1>1, <1>2, <1>3, <1>4, <1>5 DEF TypeOK, Status

LEMMA TypesStep == TypeOK /\ [Next]_vars => TypeOK'
<1> SUFFICES ASSUME TypeOK, [Next]_vars PROVE TypeOK'
  OBVIOUS
<1>1. CASE UNCHANGED vars
  BY <1>1 DEF TypeOK, vars, scout, table
<1>2. CASE Next
  BY <1>2, DiscoverTypes, WriteTypes, FailTypes, OrphanTypes, DeleteTypes, OtherTypes
     DEF Next, Scout
<1> QED BY <1>1, <1>2

LEMMA TypesStart == Init => TypeOK
BY NoAnswerIsEmpty, BoundsAssumption DEF Init, TypeOK

(* Statuses, queue and answers keep their types: what is queued has a      *)
(* source, also after deletions, and a scout only knows sources of links   *)
(* it was shown.                                                           *)
THEOREM TypeCorrect == Spec => []TypeOK
<1> QED BY TypesStart, TypesStep, PTL DEF Spec

-----------------------------------------------------------------------------
(* What the answers hold while a scout is between its sessions.  A page    *)
(* that nobody asked for only comes to be queued or offered because an     *)
(* answer names it, so the answers, also those of orphans, must be about   *)
(* what was linked; what a scout knows still exists, or was deleted since; *)
(* and what its page shows is either in its answer or the agent gave none. *)

Known(p) == known[p] \ gone[p]

AnswerInv(p) ==
  /\ p \notin DOMAIN answer[p]
  /\ DOMAIN answer[p] \ (Junk \union Unsupported) \subseteq linked
  /\ \A u \in Known(p) : Exists(u)
  /\ p \notin silent => shown[p] \subseteq DOMAIN answer[p] \ Junk

AnswersInv == \A p \in Urls : AnswerInv(p)

OrphansInv == \A s \in orphans : DOMAIN s.answer \ (Junk \union Unsupported) \subseteq linked

LinkInv == TypeOK /\ AnswersInv /\ OrphansInv /\ OnlyContentQueued

LEMMA InvStart == Init => AnswersInv /\ OrphansInv /\ OnlyContentQueued
BY NoAnswerIsEmpty DEF Init, AnswersInv, AnswerInv, OrphansInv, OnlyContentQueued, Known

LEMMA LinkedGrows ==
  ASSUME [Next]_vars
  PROVE  linked \subseteq linked'
BY DEF Next, Scout, Discover, Write, Finish, Fail, WriteOrphan, FailOrphan, Submit, Reingest,
       DeleteSource, Confirm, Discard, vars

(* No step but a deletion takes a source away.                             *)
LEMMA SourcesStay ==
  ASSUME TypeOK, [Next]_vars, NEW u \in Urls, Exists(u), ~DeleteSource(u)
  PROVE  sources'[u] # "none"
<1>1. ASSUME NEW p \in Urls, Write(p)
      PROVE  sources'[u] # "none"
  BY <1>1, ReadingIsHeld, RecordTypes DEF Write
<1>2. ASSUME NEW s \in orphans, WriteOrphan(s) \/ FailOrphan(s)
      PROVE  sources'[u] # "none"
  <2>1. s \in HeldSince
    BY DEF TypeOK, HeldSince
  <2>2. CASE WriteOrphan(s)
    BY <2>1, <2>2, RecordTypes DEF WriteOrphan
  <2>3. CASE FailOrphan(s)
    BY <2>3 DEF FailOrphan, table, Exists
  <2> QED BY <1>2, <2>2, <2>3
<1>3. ASSUME NEW p \in Urls,
             Discover(p) \/ Finish(p) \/ Fail(p) \/ Submit(p) \/ Reingest(p) \/ DeleteSource(p)
               \/ Confirm(p) \/ Discard(p)
      PROVE  sources'[u] # "none"
  BY <1>3 DEF Upserted, TypeOK, Exists, Discover, Finish, Fail, Submit, Reingest, DeleteSource,
              Confirm, Discard, table
<1>4. CASE UNCHANGED vars
  BY <1>4 DEF Exists, vars, table
<1> QED BY <1>1, <1>2, <1>3, <1>4 DEF Next, Scout

(* What a deletion takes away is gone for the scouts that know it.         *)
LEMMA KnownStay ==
  ASSUME TypeOK, [Next]_vars, NEW q \in Urls, \A u \in Known(q) : Exists(u),
         known'[q] = known[q], gone'[q] = gone[q] \/ \E v \in Urls : DeleteSource(v) /\ v # q
  PROVE  \A u \in Known(q)' : sources'[u] # "none"
<1> SUFFICES ASSUME NEW u \in Known(q)' PROVE sources'[u] # "none"
  OBVIOUS
<1>1. u \in known[q] /\ u \in Urls /\ u \notin gone'[q]
  BY DEF Known, TypeOK
<1>2. CASE gone'[q] = gone[q] /\ ~DeleteSource(u)
  BY <1>1, <1>2, SourcesStay DEF Known
<1>3. ASSUME NEW v \in Urls, DeleteSource(v), v # q PROVE sources'[u] # "none"
  <2>1. gone'[q] = gone[q] \union ({v} \intersect known[q])
    BY <1>3 DEF DeleteSource
  <2>2. u # v /\ u \in Known(q)
    BY <1>1, <2>1 DEF Known
  <2> QED BY <1>1, <1>3, <2>2 DEF DeleteSource, TypeOK, Exists
<1>4. CASE gone'[q] = gone[q] /\ DeleteSource(u) /\ u = q
  <2>1. known'[q] = {}
    BY <1>4 DEF DeleteSource, Reset, TypeOK
  <2> QED BY <1>1, <2>1
<1> QED BY <1>1, <1>2, <1>3, <1>4

LEMMA ResetAnswer ==
  ASSUME TypeOK, NEW q \in Urls, Reset(q)
  PROVE  AnswerInv(q)'
<1>1. answer'[q] = NoAnswer /\ known'[q] = {} /\ shown'[q] = {}
  BY DEF Reset, TypeOK
<1> QED BY <1>1, NoAnswerIsEmpty DEF AnswerInv, Known

LEMMA DiscoverAnswer ==
  ASSUME TypeOK, NEW q \in Urls, Discover(q)
  PROVE  AnswerInv(q)'
<1>1. PICK d \in Discoveries[q] :
       /\ answer' = [answer EXCEPT ![q] = d.answer]
       /\ known' = [known EXCEPT ![q] = ReadKnown(DOMAIN d.answer)]
       /\ silent' = IF d.silent THEN silent \union {q} ELSE silent
       /\ shown' = [shown EXCEPT ![q] = d.shows]
       /\ linked' = linked \union (d.shows \ Unsupported)
  BY DEF Discover
<1>2. answer'[q] = d.answer /\ known'[q] = ReadKnown(DOMAIN d.answer) /\ shown'[q] = d.shows
  BY <1>1 DEF TypeOK
<1>3. /\ q \notin DOMAIN d.answer
      /\ DOMAIN d.answer \ Junk \subseteq d.shows
      /\ d.silent \/ d.shows \subseteq DOMAIN d.answer \ Junk
  BY DiscoveryFacts
<1>4. DOMAIN d.answer \ (Junk \union Unsupported) \subseteq linked'
  BY <1>1, <1>3
<1>5. \A u \in known'[q] : sources'[u] # "none"
  BY <1>2 DEF Discover, table, ReadKnown, Exists
<1>6. q \notin silent' => shown'[q] \subseteq DOMAIN answer'[q] \ Junk
  BY <1>1, <1>2, <1>3
<1> QED BY <1>2, <1>3, <1>4, <1>5, <1>6 DEF AnswerInv, Exists, Known

LEMMA AnswersStep ==
  ASSUME TypeOK, AnswersInv, [Next]_vars
  PROVE  AnswersInv'
<1> SUFFICES ASSUME NEW q \in Urls PROVE AnswerInv(q)'
  BY DEF AnswersInv
<1>1. ASSUME UNCHANGED <<answer[q], known[q], shown[q], q \in silent>>,
             gone'[q] = gone[q] \/ \E v \in Urls : DeleteSource(v) /\ v # q
      PROVE  AnswerInv(q)'
  <2>1. \A u \in Known(q)' : sources'[u] # "none"
    BY <1>1, KnownStay DEF AnswersInv, AnswerInv
  <2> QED BY <1>1, <2>1, LinkedGrows DEF AnswersInv, AnswerInv, Exists
<1>2. ASSUME NEW p \in Urls, Scout(p) \/ Fail(p), p # q
      PROVE  UNCHANGED <<answer[q], known[q], shown[q], q \in silent>> /\ gone'[q] = gone[q]
  BY <1>2 DEF Scout, Discover, Write, Finish, Fail, Reset, TypeOK
<1>3. ASSUME NEW v \in Urls, DeleteSource(v), v # q
      PROVE  UNCHANGED <<answer[q], known[q], shown[q], q \in silent>>
  BY <1>3 DEF DeleteSource, Reset, TypeOK
<1>4. ASSUME NEW p \in Urls, Finish(p) \/ Submit(p) \/ Reingest(p) \/ Confirm(p) \/ Discard(p)
      PROVE  UNCHANGED <<answer[q], known[q], shown[q], q \in silent>> /\ gone'[q] = gone[q]
  BY <1>4 DEF Finish, Submit, Reingest, Confirm, Discard, scout
<1>5. ASSUME NEW s \in orphans, WriteOrphan(s) \/ FailOrphan(s)
      PROVE  UNCHANGED <<answer[q], known[q], shown[q], q \in silent>> /\ gone'[q] = gone[q]
  BY <1>5 DEF WriteOrphan, FailOrphan, scout
<1>6. CASE UNCHANGED vars
  BY <1>1, <1>6 DEF vars, scout
<1>7. ASSUME Write(q) \/ Fail(q) \/ DeleteSource(q) PROVE AnswerInv(q)'
  BY <1>7, ResetAnswer DEF Write, Fail, DeleteSource
<1>8. CASE Next
  <2>1. ASSUME NEW p \in Urls, Scout(p) \/ Fail(p) PROVE AnswerInv(q)'
    BY <1>1, <1>2, <1>4, <1>7, <2>1, DiscoverAnswer DEF Scout
  <2>2. ASSUME NEW s \in orphans, WriteOrphan(s) \/ FailOrphan(s) PROVE AnswerInv(q)'
    BY <1>1, <1>5, <2>2
  <2>3. ASSUME NEW v \in Urls, DeleteSource(v) PROVE AnswerInv(q)'
    BY <1>1, <1>3, <1>7, <2>3
  <2>4. ASSUME NEW u \in Urls, Submit(u) \/ Reingest(u) \/ Confirm(u) \/ Discard(u)
        PROVE  AnswerInv(q)'
    BY <1>1, <1>4, <2>4
  <2> QED BY <1>8, <2>1, <2>2, <2>3, <2>4 DEF Next
<1> QED BY <1>6, <1>8

LEMMA OrphansStep ==
  ASSUME TypeOK, AnswersInv, OrphansInv, [Next]_vars
  PROVE  OrphansInv'
<1> SUFFICES ASSUME NEW s \in orphans'
             PROVE  DOMAIN s.answer \ (Junk \union Unsupported) \subseteq linked'
  BY DEF OrphansInv
<1>1. CASE s \in orphans
  BY <1>1, LinkedGrows DEF OrphansInv
<1>2. CASE s \notin orphans
  <2>1. PICK u \in Urls : DeleteSource(u)
    BY <1>2 DEF Next, Scout, Discover, Write, Finish, Fail, WriteOrphan, FailOrphan, Submit,
                Reingest, Confirm, Discard, vars
  <2>2. s.answer = answer[u]
    BY <1>2, <2>1 DEF DeleteSource
  <2> QED BY <2>2, LinkedGrows DEF AnswersInv, AnswerInv
<1> QED BY <1>1, <1>2

(* What a scout or an orphan writes as certain or uncertain was linked.    *)
LEMMA ChosenAreLinked ==
  ASSUME TypeOK, NEW s \in Held \union HeldSince, NEW class \in Class,
         DOMAIN s.answer \ (Junk \union Unsupported) \subseteq linked
  PROVE  Links(s, class) \subseteq linked /\ Links(s, class) \subseteq Urls
<1> SUFFICES ASSUME NEW u \in Links(s, class) PROVE u \in linked /\ u \in Urls
  OBVIOUS
<1>1. u \in DOMAIN s.answer /\ s.answer \in Answers(Urls)
  BY DEF Links, New, Held, HeldSince
<1>2. u \notin Junk \union Unsupported
  BY DEF Links, New, Denied
<1> QED BY <1>1, <1>2, AnswersName

LEMMA RecordQueues ==
  ASSUME TypeOK, OnlyContentQueued, NEW s \in Held \union HeldSince, Record(s),
         DOMAIN s.answer \ (Junk \union Unsupported) \subseteq linked,
         linked' = linked, asked' = asked
  PROVE  OnlyContentQueued'
<1> SUFFICES ASSUME NEW u \in Urls,
                    u \in queued' \/ sources'[u] \in {"active", "needs_confirmation"}
             PROVE  u \in linked \union asked
  BY DEF OnlyContentQueued
<1>1. CASE u \in Links(s, "certain") \/ u \in Links(s, "uncertain")
  BY <1>1, ChosenAreLinked DEF Class
<1>2. CASE u \notin Links(s, "certain") /\ u \notin Links(s, "uncertain")
  <2>1. sources'[u] \in {"denied", sources[u]}
    BY <1>2 DEF Upserted, Record
  <2>2. u \in queued' => u \in queued
    BY <1>2 DEF Record
  <2> QED BY <2>1, <2>2 DEF OnlyContentQueued
<1> QED BY <1>1, <1>2

LEMMA QueuedStep ==
  ASSUME TypeOK, AnswersInv, OrphansInv, OnlyContentQueued, [Next]_vars
  PROVE  OnlyContentQueued'
<1>1. ASSUME NEW p \in Urls, Write(p) PROVE OnlyContentQueued'
  <2>1. Record(Reading(p)) /\ Reading(p) \in Held /\ linked' = linked /\ asked' = asked
    BY <1>1, ReadingIsHeld DEF Write
  <2>2. DOMAIN Reading(p).answer \ (Junk \union Unsupported) \subseteq linked
    BY DEF Reading, AnswersInv, AnswerInv
  <2> QED BY <2>1, <2>2, RecordQueues
<1>2. ASSUME NEW s \in orphans, WriteOrphan(s) PROVE OnlyContentQueued'
  <2>1. s \in HeldSince
    BY DEF TypeOK, HeldSince
  <2> QED BY <1>2, <2>1, RecordQueues DEF WriteOrphan, OrphansInv
<1>3. ASSUME NEW p \in Urls, Discover(p) \/ Finish(p) \/ Fail(p) \/ Confirm(p) \/ Discard(p)
      PROVE  OnlyContentQueued'
  <2>1. linked \subseteq linked' /\ asked' = asked
    BY <1>3 DEF Discover, Finish, Fail, Confirm, Discard
  <2> QED BY <1>3, <2>1
          DEF OnlyContentQueued, TypeOK, Discover, Finish, Fail, Confirm, Discard, table
<1>4. ASSUME NEW p \in Urls, Submit(p) \/ Reingest(p) PROVE OnlyContentQueued'
  BY <1>4 DEF OnlyContentQueued, TypeOK, Submit, Reingest
<1>5. ASSUME NEW p \in Urls, DeleteSource(p) PROVE OnlyContentQueued'
  BY <1>5 DEF OnlyContentQueued, TypeOK, DeleteSource
<1>6. ASSUME NEW s \in orphans, FailOrphan(s) PROVE OnlyContentQueued'
  BY <1>6 DEF OnlyContentQueued, FailOrphan, table
<1>7. CASE UNCHANGED vars
  BY <1>7 DEF OnlyContentQueued, vars, table
<1> QED BY <1>1, <1>2, <1>3, <1>4, <1>5, <1>6, <1>7 DEF Next, Scout

LEMMA InvStep == LinkInv /\ [Next]_vars => LinkInv'
BY TypesStep, AnswersStep, OrphansStep, QueuedStep DEF LinkInv

LEMMA InvHolds == Spec => []LinkInv
<1>1. Init => LinkInv
  BY TypesStart, InvStart DEF LinkInv
<1> QED BY <1>1, InvStep, PTL DEF Spec

(* Whatever pages hold, however links resolve, whatever the agent answers, *)
(* makes up or leaves out, and whatever is submitted, reingested or        *)
(* deleted meanwhile: a page is only queued or offered to a reviewer when  *)
(* a person asked for it, or when its language is supported and a reader   *)
(* of a scouted page sees it linked there.                                 *)
THEOREM QueueHoldsContent == Spec => []OnlyContentQueued
<1>1. LinkInv => OnlyContentQueued
  BY DEF LinkInv
<1> QED BY <1>1, InvHolds, PTL

-----------------------------------------------------------------------------
(* Steps that write                                                        *)

LEMMA OneWrites ==
  ASSUME TypeOK, [Next]_vars, NEW p \in Urls, phase[p] = "read", phase'[p] = "written"
  PROVE  Write(p)
<1>1. CASE UNCHANGED vars
  BY <1>1 DEF vars, scout
<1>2. ASSUME NEW u \in Urls, Submit(u) \/ Reingest(u) \/ Confirm(u) \/ Discard(u) PROVE FALSE
  BY <1>2 DEF Submit, Reingest, Confirm, Discard, scout
<1>3. ASSUME NEW s \in orphans, WriteOrphan(s) \/ FailOrphan(s) PROVE FALSE
  BY <1>3 DEF WriteOrphan, FailOrphan, scout
<1>4. ASSUME NEW q \in Urls, Discover(q) \/ Finish(q) \/ Fail(q) \/ DeleteSource(q) PROVE FALSE
  BY <1>4 DEF TypeOK, Discover, Finish, Fail, DeleteSource, Proceed
<1>5. ASSUME NEW q \in Urls, Write(q) PROVE q = p
  BY <1>5 DEF TypeOK, Write, Proceed
<1> QED BY <1>1, <1>2, <1>3, <1>4, <1>5 DEF Next, Scout

LEMMA KnownStep ==
  ASSUME TypeOK, [Next]_vars, NEW p \in Urls, phase[p] = "read", phase'[p] = "written",
         NEW u \in known[p]
  PROVE  sources'[u] = sources[u] /\ (u \in queued' <=> u \in queued)
<1>1. Record(Reading(p)) /\ u \in Urls
  BY OneWrites DEF TypeOK, Write
<1>2. u \notin New(Reading(p))
  BY DEF New, Reading
<1>3. sources'[u] = sources[u]
  BY <1>1, <1>2, WrittenStatus
<1>4. u \notin Links(Reading(p), "certain")
  BY <1>2 DEF Links
<1> QED BY <1>1, <1>3, <1>4 DEF Record

(* No scout changes the status of a source it found to be known, or takes  *)
(* it into the queue, whatever other scouts and requests do between its    *)
(* sessions.                                                               *)
THEOREM KnownSourcesAreLeftAlone == Spec => KnownLinksUntouched
<1>1. TypeOK /\ [Next]_vars =>
        [\A p \in Urls : phase[p] = "read" /\ phase'[p] = "written" =>
           \A u \in known[p] : sources'[u] = sources[u] /\ (u \in queued' <=> u \in queued)]_vars
  BY KnownStep
<1> QED BY <1>1, TypeCorrect, PTL DEF Spec, KnownLinksUntouched

LEMMA AccountStep ==
  ASSUME TypeOK, AnswersInv, [Next]_vars,
         NEW p \in Urls, phase[p] = "read", phase'[p] = "written", p \notin silent,
         NEW u \in shown[p] \ gone[p]
  PROVE  sources'[u] # "none"
<1> DEFINE s == Reading(p)
<1>1. Write(p) /\ Record(s) /\ s \in Held
  BY OneWrites, ReadingIsHeld DEF Write
<1>2. u \in Urls /\ u \in DOMAIN s.answer /\ u \notin Junk /\ u # s.page
  BY DEF TypeOK, AnswersInv, AnswerInv, Reading
<1>3. CASE Exists(u)
  BY <1>1, <1>2, <1>3, RecordTypes
<1>4. CASE ~Exists(u)
  <2>1. u \notin s.known
    BY <1>4 DEF AnswersInv, AnswerInv, Known, Reading
  <2>2. u \in New(s)
    BY <1>2, <2>1 DEF New
  <2>3. s.answer[u] \in Class
    BY <1>1, <1>2, AnswersName DEF Held
  <2>4. u \in Denied(s) \/ u \in Links(s, "certain") \/ u \in Links(s, "uncertain")
    BY <1>2, <2>2, <2>3 DEF Denied, Links, Class
  <2> QED BY <1>1, <1>2, <1>4, <2>4, WrittenStatus
<1> QED BY <1>3, <1>4

(* Every link that a reader sees and the URL filters let pass has a source *)
(* when the scout of its page has written, also when the agent left it     *)
(* out; only where the agent gave no output at all, or a source that the   *)
(* scout knew was deleted before it wrote, may links be lost.              *)
THEOREM NoLinkIsLost == Spec => LinksAccountedFor
<1>1. LinkInv /\ [Next]_vars =>
        [\A p \in Urls : phase[p] = "read" /\ phase'[p] = "written" /\ p \notin silent =>
           \A u \in shown[p] \ gone[p] : sources'[u] # "none"]_vars
  BY AccountStep DEF LinkInv
<1> QED BY <1>1, InvHolds, PTL DEF Spec, LinksAccountedFor
=============================================================================
