------------------------- MODULE CollectionPreview -------------------------
(***************************************************************************)
(* What the rule of a collection selects, resolved by many requests to a   *)
(* wiki that moves between them: a category by a breadth-first walk of its *)
(* subcategories, a list of titles in chunks (preview_category_selection   *)
(* and preview_collection_rule of crates/wikisync-sync/src/lib.rs).  The   *)
(* finished preview is a draft that administration examines before it      *)
(* commits it (estimate of apps/wikisyncd/src/collection.rs).  Nodes       *)
(* are numbered in the order a category lists them.                        *)
(***************************************************************************)
EXTENDS Naturals, Sequences, FiniteSets
LOCAL INSTANCE FiniteSetsExt
LOCAL INSTANCE SequencesExt

CONSTANTS
  Category, Article,  \* nodes; category RootCategory is the rule's
  RootCategory,
  Wikis,              \* listings [Category -> SUBSET nodes] a walk may start from
  Aliases,            \* titles of a list, by number
  MaxCategories, MaxArticles, MaxBatches, MaxRecursion,  \* CategoryPreviewLimits
  ListedPerRequest, TitlesPerRequest,
  MaxMoves            \* bound: changes upstream

ASSUME PreviewAssumption ==
  /\ Category \cup Article \subseteq Nat \ {0} /\ Category \cap Article = {}
  /\ RootCategory \in Category /\ Aliases \subseteq Nat \ {0}
  /\ Wikis \subseteq [Category -> SUBSET (Category \cup Article)]
  /\ {ListedPerRequest, TitlesPerRequest} \subseteq Nat \ {0}

VARIABLES
  listing,  \* what each category lists
  leads,    \* the article a title leads to, or 0
  moves,
  walk,     \* the locals of a preview and what it returned
  lasting, ever   \* what was listed, or led to, all the time and at some time
previewVars == <<listing, leads, moves, walk, lasting, ever>>

Node == Category \cup Article
Resting == [at |-> "idle", depth |-> 0, queue |-> <<>>, known |-> {}, found |-> <<>>,
            after |-> 0, requests |-> 0, missing |-> <<>>]

PreviewInit ==
  /\ listing \in Wikis /\ leads \in [Aliases -> Article \cup {0}] /\ moves = 0
  /\ walk = Resting
  /\ lasting = [listed |-> listing, led |-> [a \in Aliases |-> {leads[a]}]] /\ ever = lasting

-----------------------------------------------------------------------------
(* The wiki, while a preview runs: a page joins or leaves a category, a title
   comes to lead elsewhere. *)
Moved(to, target) ==
  /\ walk.at \in {"walking", "resolving"}
  /\ moves < MaxMoves /\ moves' = moves + 1 /\ UNCHANGED walk
  /\ listing' = to /\ leads' = target
  /\ lasting' = [listed |-> [c \in Category |-> lasting.listed[c] \cap to[c]],
                 led |-> [a \in Aliases |-> lasting.led[a] \cap {target[a]}]]
  /\ ever' = [listed |-> [c \in Category |-> ever.listed[c] \cup to[c]],
              led |-> [a \in Aliases |-> ever.led[a] \cup {target[a]}]]
Recategorize == walk.at = "walking" /\ \E c \in Category, n \in Node :
  Moved([listing EXCEPT ![c] = IF n \in @ THEN @ \ {n} ELSE @ \cup {n}], leads)
Redirect == walk.at = "resolving" /\ \E a \in Aliases, p \in Article \cup {0} :
  p # leads[a] /\ Moved(listing, [leads EXCEPT ![a] = p])

-----------------------------------------------------------------------------
(* The walk.  found maps a selected page to the depth it was first met at. *)
EndsAs(why) == walk' = [walk EXCEPT !.at = why]
Begins(w) ==
  /\ walk.at = "idle" /\ walk' = w
  /\ lasting' = [listed |-> listing, led |-> [a \in Aliases |-> {leads[a]}]] /\ ever' = lasting'
  /\ UNCHANGED <<listing, leads, moves>>

(* validate_preview_limits comes first. *)
BeginCategory(depth) ==
  Begins(IF depth > MaxRecursion THEN [Resting EXCEPT !.at = "too deep"]
         ELSE [Resting EXCEPT !.at = "walking", !.depth = depth, !.queue = <<<<RootCategory, 0>>>>,
                              !.known = {RootCategory}])

\* Mutant: the newest category is opened first.
QueuedFirst(queue, subcategories) == <<Head(queue)>> \o subcategories \o Tail(queue)
Queued(queue, subcategories) == queue \o subcategories

(* One member after the other: w goes on until a limit stops it. *)
Met(w, n) ==
  LET depth == Head(w.queue)[2] IN
  IF w.at # "walking" THEN w
  ELSE IF n \in Article
    THEN IF n \in DOMAIN w.found THEN w
         ELSE IF Cardinality(DOMAIN w.found) = MaxArticles THEN [w EXCEPT !.at = "too many pages"]
         ELSE [w EXCEPT !.found = [p \in DOMAIN w.found \cup {n} |->
                                     IF p \in DOMAIN w.found THEN w.found[p] ELSE depth]]
  ELSE IF depth >= w.depth \/ n \in w.known THEN w
  ELSE IF Cardinality(w.known) = MaxCategories THEN [w EXCEPT !.at = "too many categories"]
  ELSE [w EXCEPT !.known = @ \cup {n}, !.queue = Queued(@, <<<<n, depth + 1>>>>)]

InListedOrder(S) == SetToSortSeq(S, <)

(* category_members_batch: the members from where the continuation points on;
   the continuation is the next of them, and a faulty source repeats it. *)
Batch == LET rest == {n \in listing[Head(walk.queue)[1]] : n >= walk.after}
             sent == {n \in rest : Cardinality({o \in rest : o < n}) < ListedPerRequest}
         IN [members |-> sent, next |-> IF sent = rest THEN 0 ELSE Min(rest \ sent)]
Walk(next) ==
  /\ walk.at = "walking" /\ walk.queue # <<>>
  /\ IF walk.requests = MaxBatches THEN EndsAs("too many requests")
     ELSE LET w == FoldLeft(Met, [walk EXCEPT !.requests = @ + 1], InListedOrder(Batch.members))
          IN walk' = IF w.at # "walking" THEN w
                     ELSE IF next # 0 /\ next = walk.after THEN [w EXCEPT !.at = "repeated"]
                     ELSE IF next # 0 THEN [w EXCEPT !.after = next]
                     ELSE [w EXCEPT !.after = 0, !.queue = Tail(@)]
  /\ UNCHANGED <<listing, leads, moves, lasting, ever>>
WalkOn == Walk(Batch.next)
WalkRepeated == walk.at = "walking" /\ walk.queue # <<>> /\ walk.after # 0 /\ Walk(walk.after)
EndWalk ==
  /\ walk.at = "walking" /\ walk.queue = <<>> /\ EndsAs("walked")
  /\ UNCHANGED <<listing, leads, moves, lasting, ever>>

-----------------------------------------------------------------------------
(* resolve_titles: chunk by chunk, each article once per answer. *)
BeginTitles ==
  Begins([Resting EXCEPT !.at = "resolving", !.queue = InListedOrder(Aliases)])
ResolveChunk ==
  /\ walk.at = "resolving" /\ walk.queue # <<>>
  /\ LET n == IF Len(walk.queue) < TitlesPerRequest THEN Len(walk.queue) ELSE TitlesPerRequest
         chunk == {walk.queue[i] : i \in 1..n}
     IN walk' = [walk EXCEPT
          !.queue = SubSeq(@, n + 1, Len(@)), !.requests = @ + 1,
          !.found = @ \o InListedOrder({leads[a] : a \in chunk} \ {0}),
          !.missing = @ \o InListedOrder({a \in chunk : leads[a] = 0})]
  /\ UNCHANGED <<listing, leads, moves, lasting, ever>>
EndTitles ==
  /\ walk.at = "resolving" /\ walk.queue = <<>> /\ EndsAs("resolved")
  /\ UNCHANGED <<listing, leads, moves, lasting, ever>>
(* An error of the source or a dropped call; nothing was changed. *)
GiveUpPreview ==
  /\ walk.at # "idle" /\ walk' = Resting
  /\ UNCHANGED <<listing, leads, moves, lasting, ever>>

-----------------------------------------------------------------------------
(* estimate, the examination of a draft: one entry per page, and a reason that
   its rule allows. *)
AdmitsCategory == /\ \A p \in DOMAIN walk.found : walk.found[p] <= walk.depth
                  /\ walk.missing = <<>> /\ walk.depth <= MaxRecursion
                  /\ Cardinality(DOMAIN walk.found) <= MaxArticles /\ walk.requests <= MaxBatches
AdmitsTitles == /\ \A i, j \in DOMAIN walk.found : i # j => walk.found[i] # walk.found[j]
                /\ \A i, j \in DOMAIN walk.missing : i # j => walk.missing[i] # walk.missing[j]

PreviewNext ==
  \/ Recategorize \/ Redirect \/ WalkOn \/ WalkRepeated \/ EndWalk \/ BeginTitles \/ ResolveChunk \/ EndTitles
  \/ GiveUpPreview
  \/ \E depth \in 0..(MaxRecursion + 1) : BeginCategory(depth)

-----------------------------------------------------------------------------
(* The categories and pages within some number of steps of the root. *)
Reached(edges, depth) ==
  LET opened[d \in 0..depth] ==
        IF d = 0 THEN {RootCategory} ELSE opened[d - 1] \cup (UNION {edges[c] : c \in opened[d - 1]} \cap Category)
  IN [categories |-> opened[depth], articles |-> UNION {edges[c] : c \in opened[depth]} \cap Article]
Outcomes == {"idle", "walking", "resolving", "walked", "resolved", "too deep", "too many pages",
             "too many categories", "too many requests", "repeated"}
PreviewTypeOK ==
  /\ listing \in [Category -> SUBSET Node] /\ leads \in [Aliases -> Article \cup {0}] /\ moves \in 0..MaxMoves
  /\ walk.at \in Outcomes /\ walk.known \subseteq Category /\ walk.requests \in 0..MaxBatches \cup 0..Cardinality(Aliases)

(* A title list names pages: two titles of one page are told apart only within
   one request. *)
OnePageInTwoAnswers == \E a, b \in Aliases : a # b /\ (ever.led[a] \cap ever.led[b]) \ {0} # {}

(* A preview that is finished selects every page that was within the depth of the
   rule while it ran, whatever else moved, and only pages that were there; it
   tells their least depth, and administration admits it.  One that is refused for
   its size was too large.  A list of titles selects what they led to, and is
   admitted unless a page was answered twice. *)
PreviewTellsTheWiki ==
  /\ walk.at = "walked" =>
       /\ AdmitsCategory
       /\ Reached(lasting.listed, walk.depth).articles \subseteq DOMAIN walk.found
       /\ \A p \in DOMAIN walk.found :
            /\ p \in Reached(ever.listed, walk.found[p]).articles
            /\ walk.found[p] > 0 => p \notin Reached(lasting.listed, walk.found[p] - 1).articles
  /\ walk.at = "too many pages" => Cardinality(Reached(ever.listed, walk.depth).articles) > MaxArticles
  /\ walk.at = "too many categories" => Cardinality(Reached(ever.listed, walk.depth).categories) > MaxCategories
  /\ walk.at = "resolved" =>
       /\ AdmitsTitles \/ OnePageInTwoAnswers
       /\ \A a \in Aliases : lasting.led[a] \ {0} \subseteq {walk.found[i] : i \in DOMAIN walk.found}
       /\ \A i \in DOMAIN walk.missing : 0 \in ever.led[walk.missing[i]]
=============================================================================
