----------------------------- MODULE RemoteSearch -----------------------------
(***************************************************************************)
(* Hybrid search over the remote archive: events projected into search     *)
(* documents, documents embedded, and the pages that a batch of evidence   *)
(* brings to the curator (wikibricks_remote/search/).                      *)
(*                                                                         *)
(* The archive of a replica is its stream of events, in the order of       *)
(* arrival, of which a prefix has arrived.  Every event carries the local  *)
(* sequence it was given; a replica that was restored from a backup gives  *)
(* sequences again.  An event is named by its place in the stream.         *)
(*                                                                         *)
(* Abstractions.  A document is one event (chunks of one event are         *)
(* projected and ranked together).  Vectors and scores are data: which of  *)
(* the eligible pages rank highest is chosen freely.                       *)
(***************************************************************************)
EXTENDS Integers, Sequences, FiniteSets, SequencesExt, FiniteSetsExt

CONSTANTS
  Replicas,       \* replicas, ordered by their id
  Paths,          \* page paths, ordered
  Streams,        \* what the replicas may deliver: a set of [Replicas -> Seq(Event)]
  MaxInput,       \* max_input_chars, in units of the sizes of events
  MaxIndexPages,  \* max_index_pages
  MaxEmbed,       \* max_embedding_documents
  MaxQueries,     \* max_query_documents
  PagesPerQuery   \* pages_per_query

NoPath == 0

Event == [seq  : Nat \ {0},
          kind : {"message", "page", "receipt", "other"},   \* receipt: of an applied supersede_page
          path : Paths \cup {NoPath},                       \* the page, or the superseded page
          size : Nat \ {0}]                                 \* of its encoding for the model

ASSUME StreamAssumption ==
  /\ IsFiniteSet(Replicas) /\ Replicas \subseteq Nat /\ Paths \subseteq Nat \ {NoPath}
  /\ Streams \subseteq [Replicas -> Seq(Event)]

ASSUME PolicyAssumption ==
  {MaxInput, MaxIndexPages, MaxEmbed, MaxQueries, PagesPerQuery} \subseteq Nat \ {0}

VARIABLES
  stream,         \* what the replicas deliver
  arrived,        \* [Replicas -> how many events archive_events has]
  extensions,     \* lakebase_vector and lakebase_text are available
  docs,           \* remote_search_documents: <<replica, event>>
  embedded        \* those with an embedding

searchVars  == <<docs, embedded>>
archiveVars == <<stream, arrived, extensions>>

At(r, i)   == stream[r][i]
Arrived(r) == 1 .. arrived[r]

(* row_number() OVER (PARTITION BY path ORDER BY local_sequence DESC). *)
NewestOf(r, S) ==
  {i \in S : \A j \in S :
     At(r, j).path = At(r, i).path =>
       At(r, j).seq < At(r, i).seq \/ (At(r, j).seq = At(r, i).seq /\ j <= i)}

PagesUpTo(r, w) == {i \in Arrived(r) : At(r, i).kind = "page" /\ At(r, i).seq <= w}

(* Mistaken variant: the newest versions, past the watermark too. *)
CurrentOfAll(r, w) == NewestOf(r, {i \in Arrived(r) : At(r, i).kind = "page"})

CurrentPages(r, w) == NewestOf(r, PagesUpTo(r, w))

(* ORDER BY path LIMIT n, of versions with different paths. *)
FirstPaths(r, S, n) == {i \in S : Cardinality({j \in S : At(r, j).path < At(r, i).path}) < n}

-----------------------------------------------------------------------------
(* PROJECTION AND EMBEDDING *)

(* _bounded_evidence replaced the payload of an item larger than a whole   *)
(* batch by an excerpt; only the first item of a batch can be one.         *)
Cut(r, i) == At(r, i).size > MaxInput

(* project_event: the excerpt of a message has no kind and is no document. *)
Projected(r, w, evidence) ==
  {<<r, i>> : i \in {j \in evidence : ~Cut(r, j)}
                    \cup FirstPaths(r, CurrentPages(r, w), MaxIndexPages)}

(* The excerpt of a page version has no path: KeyError. *)
ProjectionFails(r, evidence) == \E i \in evidence : Cut(r, i) /\ At(r, i).kind = "page"

Before(d, e) ==
  LET x == At(d[1], d[2]).seq  y == At(e[1], e[2]).seq IN
    x < y \/ (x = y /\ (d[1] < e[1] \/ (d[1] = e[1] /\ d[2] < e[2])))

(* ORDER BY ... LIMIT n. *)
RankIn(S, d)   == Cardinality({e \in S : Before(e, d)}) + 1
InOrder(S, n)  == [k \in 1 .. Min({n, Cardinality(S)}) |-> CHOOSE d \in S : RankIn(S, d) = k]

(* The oldest first, whatever replica they are of. *)
Missing == InOrder(docs \ embedded, MaxEmbed)

-----------------------------------------------------------------------------
(* CANDIDATES *)

(* Receipts name patches of this database; those of local runs do not.     *)
Superseded(r, w) ==
  {At(r, i).path : i \in {j \in Arrived(r) : At(r, j).kind = "receipt" /\ At(r, j).seq <= w}}

Queries(r, evidence) ==
  {d[2] : d \in Range(InOrder(embedded \cap ({r} \X evidence), MaxQueries))}

(* The newest document of a page can be older than its newest version.     *)
Eligible(r, w, q) ==
  LET newest == NewestOf(r, {i \in PagesUpTo(r, w) : <<r, i>> \in docs}) IN
    {At(r, i).path : i \in {j \in newest : <<r, j>> \in embedded}}
      \ (Superseded(r, w) \cup {At(r, q).path})

(* reciprocal_rank_fusion: some of the eligible paths, at least one. *)
Ranked(r, w, q) ==
  {S \in SUBSET Eligible(r, w, q) :
     Cardinality(S) <= PagesPerQuery /\ (S = {} => Eligible(r, w, q) = {})}

(* The paths that candidates may choose: the queries' own, not filtered,   *)
(* and the best ranked of each.                                            *)
Selections(r, w, evidence) ==
  LET Q   == Queries(r, evidence)
      own == {At(r, q).path : q \in Q} \ {NoPath} IN
    {own \cup UNION {f[q] : q \in Q} :
       f \in {g \in [Q -> SUBSET Paths] : \A q \in Q : g[q] \in Ranked(r, w, q)}}

(* Pages are read again from the archive at the watermark. *)
PagesAt(r, w, paths) == {i \in CurrentPages(r, w) : At(r, i).path \in paths}
=============================================================================
