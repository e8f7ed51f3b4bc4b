----------------------------- MODULE LocalCurator -----------------------------
(***************************************************************************)
(* The nightly local curator: it routes sessions of container folders to   *)
(* topics, then asks a model about each topic of the backlog, applies the  *)
(* answer and advances the topic's evidence cursor (wikibricks_curator/,   *)
(* curation/backlog.py).                                                   *)
(*                                                                         *)
(* Every read, the routes, the stored manifest, its application and the    *)
(* cursor are transactions of their own, with model calls between them.    *)
(* Sessions and pages change meanwhile, an operator may start a second     *)
(* curator, and a curator can be killed anywhere.                          *)
(*                                                                         *)
(* A run's id is a digest of its request, so the request stands for it.    *)
(* A session is one event: its text is its last update.  Its moment is    *)
(* when the source says the work happened: an import can bring a text in   *)
(* long after that, and behind the cursor.  A folder names one topic for   *)
(* good (in the code a new page with a fitting name can take the folder    *)
(* over).  The seven days of the backlog and of the routing are not        *)
(* passed, no source's clock is ahead, and the switches --dry-run and      *)
(* --no-apply, which leave writes out, are not modelled.                   *)
(***************************************************************************)
EXTENDS LocalPages

CONSTANTS
  Sessions,       \* ids, ordered
  Folder,         \* [Sessions -> the topic of its folder, or Container]
  Container,      \* a folder that names no topic
  NoTopic,        \* a stored route to nothing
  Unrouted,       \* no row in session_topics
  Curators,       \* processes that run the curator
  Nightly,        \* the one that is started every night
  MaxProjects,    \* --projects
  MaxRoutes,      \* limit of route_sessions
  MaxWindow       \* max_events

ASSUME SessionAssumption ==
  /\ Sessions \subseteq Nat /\ IsFiniteSet(Sessions)
  /\ Folder \in [Sessions -> Topics \cup {Container}]
  /\ Nightly \in Curators
  /\ {NoTopic, Unrouted, Container} \cap Topics = {}
  /\ \A s \in Settings : s.curators \subseteq Curators /\ s.sessions \subseteq Sessions
  /\ {MaxProjects, MaxRoutes, MaxWindow} \subseteq Nat \ {0}

VARIABLES
  session,        \* [Sessions -> [text, moment]]; text counts the updates, 0: not imported
  topic,          \* session_topics: [Sessions -> [page, created]]
  cursor,         \* sync_state: [Topics -> newest_evidence_at]
  stored,         \* curation_runs of the curator
  curator,        \* the local variables of run_curator
  seen,           \* history: <<session, text>> that a kept answer was given
  missed,         \* history: <<session, text>> that came in behind a cursor or fell out of a window
  killed          \* history: a curator was killed

curatorVars == <<session, topic, cursor, stored, curator, seen, missed, killed>>

NoPatch == [size |-> 0, risk |-> "none"]
NoRequest == [topic |-> 0, base |-> 0, window |-> {}]
Request == [topic : Topics \cup {0}, base : Nat, window : SUBSET (Sessions \X Nat)]

CuratorState ==
  [pc      : {"idle", "route", "backlog", "build", "ask", "store", "apply", "cursor"},
   ids     : SUBSET Sessions,                              \* to route
   todo    : Seq([topic : Topics, updated : Nat]),         \* backlog items
   request : Request,
   listed  : SUBSET (Sessions \X Nat \X Nat),              \* <<session, moment, text>>
   patch   : [size : Sizes \cup {0}, risk : {"none", "low", "high"}]]

Resting == [pc |-> "idle", ids |-> {}, todo |-> <<>>, request |-> NoRequest, listed |-> {},
            patch |-> NoPatch]

CuratorTypeOK ==
  /\ session \in [Sessions -> [text : Nat, moment : Nat]]
  /\ \A s \in Sessions : topic[s].page \in Topics \cup {NoTopic, Unrouted}
  /\ cursor \in [Topics -> Nat] /\ seen \cup missed \subseteq Sessions \X Nat
  /\ curator \in [Curators -> CuratorState]
  /\ killed \in BOOLEAN

-----------------------------------------------------------------------------
(* TARGETS AND BACKLOG *)

Known(s)     == session[s].text > 0
Text(s)      == <<s, session[s].text>>
Larger(m, n) == IF m > n THEN m ELSE n

(* session_targets: a stored route, or the topic that the folder names. *)
Target(s) ==
  CASE topic[s].page # Unrouted -> topic[s].page
    [] Folder[s] = Container    -> NoTopic
    [] OTHER                    -> Folder[s]

(* Mistaken variant: a route leaves the session as old as it was. *)
MomentOfUpdate(s) == session[s].moment

(* A route makes a session new for the topic it is routed to. *)
Moment(s) == Larger(session[s].moment, topic[s].created)

Covered(p)       == {s \in Sessions : Known(s) /\ Target(s) = p}
NewSessions(p)   == {s \in Covered(p) : Moment(s) > Updated(p)}

(* The first that wait for a route, by id. *)
Waiting == {s \in Sessions : Known(s) /\ topic[s].page = Unrouted /\ Folder[s] = Container}
ToRoute == {s \in Waiting : Cardinality({r \in Waiting : r < s}) < MaxRoutes}

(* Most new sessions first, then by name. *)
Ahead(p, q) ==
  LET m == Cardinality(NewSessions(p))
      n == Cardinality(NewSessions(q)) IN
    m > n \/ (m = n /\ p < q)

Backlog ==
  LET all == {p \in Topics : NewSessions(p) # {}} IN
    [k \in 1 .. Min({MaxProjects, Cardinality(all)}) |->
       LET p == CHOOSE x \in all : Cardinality({y \in all : Ahead(y, x)}) = k - 1 IN
         [topic |-> p, updated |-> Updated(p)]]

(* _evidence: sessions after the cursor and after the page's last update,  *)
(* as the backlog read it.                                                 *)
Evidence(item) ==
  {<<s, Moment(s), session[s].text>> :
     s \in {x \in Covered(item.topic) : Moment(x) > cursor[item.topic] /\ Moment(x) > item.updated}}

Spoken(listed) == {e \in listed : e[1] \notin setting.silent}

(* A full window drops its oldest events, sorted by moment and session. *)
Newer(f, e) == f[2] > e[2] \/ (f[2] = e[2] /\ f[1] > e[1])
Window(listed) ==
  {e \in Spoken(listed) : Cardinality({f \in Spoken(listed) : Newer(f, e)}) < MaxWindow}

Texts(events) == {<<e[1], e[3]>> : e \in events}

Newest(listed) == Max({e[2] : e \in Spoken(listed)})

-----------------------------------------------------------------------------
(* SESSIONS *)

(* A cursor is at or after the moment, or will be when an answer is kept. *)
Answering == {"ask", "store", "apply", "cursor"}
Behind(s, moment) ==
  \/ Target(s) \in Topics /\ moment <= cursor[Target(s)]
  \/ \E c \in Curators : /\ curator[c].pc \in Answering
                         /\ curator[c].request.topic = Target(s)
                         /\ moment <= Newest(curator[c].listed)

(* ingest_session, which keeps the time that the source gives: now, or     *)
(* earlier when a backfill or a late import brings the text in.            *)
Update(s) ==
  \E t \in 1 .. clock + 1 :
    /\ MapThenSumSet(LAMBDA r : session[r].text, Sessions) < setting.updates
    /\ session' = [session EXCEPT ![s] = [text |-> @.text + 1, moment |-> t]]
    /\ clock' = Larger(clock, t)
    /\ missed' = IF Behind(s, Larger(t, topic[s].created))
                 THEN missed \cup {<<s, session[s].text + 1>>} ELSE missed
    /\ UNCHANGED <<page, topic, cursor, stored, curator, seen, killed>>

-----------------------------------------------------------------------------
(* ROUTING *)

Become(c, state) == curator' = [curator EXCEPT ![c] = state]

StartNight(c) ==
  /\ curator[c].pc = "idle"
  /\ Become(c, IF ToRoute = {} THEN [Resting EXCEPT !.pc = "backlog"]
               ELSE [Resting EXCEPT !.pc = "route", !.ids = ToRoute])
  /\ UNCHANGED <<pageVars, session, topic, cursor, stored, seen, missed, killed>>

(* A session without text gets no topic; of the others the model may leave *)
(* some out.                                                               *)
Routes(ids) ==
  {f \in [ids -> Topics \cup {NoTopic, Unrouted}] :
     \A s \in ids \cap setting.silent : f[s] = NoTopic}

(* Mistaken variant: INSERT OR REPLACE. *)
RoutedOver(routes, s) == s \in DOMAIN routes /\ routes[s] # Unrouted

(* INSERT OR IGNORE: a session that was routed meanwhile keeps its route. *)
Routed(routes, s) == s \in DOMAIN routes /\ routes[s] # Unrouted /\ topic[s].page = Unrouted

RouteSessions(c) ==
  /\ curator[c].pc = "route"
  /\ \E routes \in Routes(curator[c].ids) :
       LET new == {s \in Sessions : Routed(routes, s)} IN
         /\ topic' = [s \in Sessions |-> IF s \in new
                                         THEN [page |-> routes[s], created |-> clock + 1]
                                         ELSE topic[s]]
         /\ clock' = IF new = {} THEN clock ELSE clock + 1
  /\ Become(c, [Resting EXCEPT !.pc = "backlog"])
  /\ UNCHANGED <<page, session, cursor, stored, seen, missed, killed>>

(* Two failed calls: nothing is routed, curation goes on. *)
RouteFails(c) ==
  /\ curator[c].pc = "route"
  /\ Become(c, [Resting EXCEPT !.pc = "backlog"])
  /\ UNCHANGED <<pageVars, session, topic, cursor, stored, seen, missed, killed>>

-----------------------------------------------------------------------------
(* CURATION *)

LoadBacklog(c) ==
  /\ curator[c].pc = "backlog"
  /\ Become(c, IF Backlog = <<>> THEN Resting
               ELSE [Resting EXCEPT !.pc = "build", !.todo = Backlog])
  /\ UNCHANGED <<pageVars, session, topic, cursor, stored, seen, missed, killed>>

Item(c) == Head(curator[c].todo)
NextItem(c) == IF Len(curator[c].todo) = 1 THEN Resting
            ELSE [Resting EXCEPT !.pc = "build", !.todo = Tail(curator[c].todo)]

(* build_request.  max() of no event raises, and nothing catches it.       *)
Build(c) ==
  LET listed == Evidence(Item(c)) IN
    /\ curator[c].pc = "build"
    /\ Become(c,
         IF listed = {} THEN NextItem(c)
         ELSE IF Spoken(listed) = {} THEN Resting
         ELSE [curator[c] EXCEPT !.pc = "ask", !.listed = listed,
                 !.request = [topic |-> Item(c).topic, base |-> Number(Item(c).topic),
                              window |-> Texts(Window(listed))]])
    /\ UNCHANGED <<pageVars, session, topic, cursor, stored, seen, missed, killed>>

(* _guard_shrinking_updates, against the page that the model was shown. *)
Risk(p, base, size) == IF base > 0 /\ 2 * size < page[p][base].size THEN "high" ELSE "low"

(* What the kept answer was shown, and what fell out of its window. *)
Credit(listed) ==
  /\ seen' = seen \cup Texts(Window(listed))
  /\ missed' = missed \cup Texts(Spoken(listed) \ Window(listed))

(* The answer proposes nothing, or a new text for the page. *)
Ask(c) ==
  LET q == curator[c].request IN
    /\ curator[c].pc = "ask"
    /\ \/ Become(c, [curator[c] EXCEPT !.pc = "cursor"]) /\ Credit(curator[c].listed)
       \/ /\ \E size \in Sizes :
               Become(c, [curator[c] EXCEPT !.pc = "store",
                           !.patch = [size |-> size, risk |-> Risk(q.topic, q.base, size)]])
          /\ UNCHANGED <<seen, missed>>
    /\ UNCHANGED <<pageVars, session, topic, cursor, stored, killed>>

(* Two calls fail or answer badly: the topic keeps its cursor. *)
AskFails(c) ==
  /\ curator[c].pc = "ask"
  /\ Become(c, NextItem(c))
  /\ UNCHANGED <<pageVars, session, topic, cursor, stored, seen, missed, killed>>

(* store_manifest: the same run with another hash raises. *)
StoreRun(c) ==
  LET run == [request |-> curator[c].request, patch |-> curator[c].patch]
      clash == \E x \in stored : x.request = run.request /\ x.patch # run.patch IN
    /\ curator[c].pc = "store"
    /\ IF clash
       THEN Become(c, Resting) /\ UNCHANGED <<stored, seen, missed>>
       ELSE /\ stored' = stored \cup {run} /\ Credit(curator[c].listed)
            /\ Become(c, [curator[c] EXCEPT !.pc = "apply"])
    /\ UNCHANGED <<pageVars, session, topic, cursor, killed>>

(* Mistaken variant: a page that changed is overwritten. *)
BaseIgnored(q) == TRUE

BaseHolds(q) == Number(q.topic) = q.base

(* apply_run with the safe policy, in one transaction; CurationApply has    *)
(* its receipts and conflicts.                                             *)
Apply(c) ==
  LET q == curator[c].request IN
    /\ curator[c].pc = "apply"
    /\ IF BaseHolds(q) /\ curator[c].patch.risk = "low"
       THEN WritePage(q.topic, curator[c].patch.size, "local-curator")
       ELSE UNCHANGED pageVars
    /\ Become(c, [curator[c] EXCEPT !.pc = "cursor"])
    /\ UNCHANGED <<session, topic, cursor, stored, seen, missed, killed>>

(* Mistaken variant: the cursor is the time of the run. *)
CursorNow(listed) == clock

CursorAfter(listed) == Newest(listed)

SaveCursor(c) ==
  /\ curator[c].pc = "cursor"
  /\ cursor' = [cursor EXCEPT ![curator[c].request.topic] = CursorAfter(curator[c].listed)]
  /\ Become(c, NextItem(c))
  /\ UNCHANGED <<pageVars, session, topic, stored, seen, missed, killed>>

Kill(c) ==
  /\ curator[c].pc # "idle"
  /\ killed' = TRUE
  /\ Become(c, Resting)
  /\ UNCHANGED <<pageVars, session, topic, cursor, stored, seen, missed>>

-----------------------------------------------------------------------------
CuratorInit ==
  /\ session = [s \in Sessions |-> [text |-> 0, moment |-> 0]]
  /\ topic = [s \in Sessions |-> [page |-> Unrouted, created |-> 0]]
  /\ cursor = [p \in Topics |-> 0] /\ seen = {} /\ missed = {}
  /\ stored = {}
  /\ curator = [c \in Curators |-> Resting]
  /\ killed = FALSE

CuratorStep(c) == \/ StartNight(c) \/ RouteSessions(c) \/ LoadBacklog(c) \/ Build(c)
                  \/ Ask(c) \/ StoreRun(c) \/ Apply(c) \/ SaveCursor(c)

CuratorNext ==
  \/ \E s \in setting.sessions : Update(s)
  \/ \E c \in setting.curators : CuratorStep(c) \/ RouteFails(c) \/ AskFails(c) \/ Kill(c)

-----------------------------------------------------------------------------
(* PROPERTIES *)

TrueMoment(s) == Larger(session[s].moment, topic[s].created)

(* A kept answer was shown the text as it is, or it came in behind a       *)
(* cursor, fell out of a full window or is older than its page.            *)
AccountedFor(s, p) ==
  Text(s) \in seen \cup missed \/ TrueMoment(s) <= Updated(p)

(* The cursor passes no text of a session that no kept answer was shown,   *)
(* however sessions change, are routed or arrive while the model is asked, *)
(* whatever fails and whoever else curates.  The code gives up three kinds *)
(* of text, and the property too: what is older than its page, what fell   *)
(* out of a full window, and what arrived with a moment at or before the   *)
(* cursor of its topic or the newest event then being asked about.         *)
CursorPassesSeen ==
  \A s \in Sessions \ setting.silent : \A p \in Topics :
    (Known(s) /\ Target(s) = p /\ TrueMoment(s) <= cursor[p]) => AccountedFor(s, p)

(* A route, once stored, stays, whatever a second curator answers later. *)
RoutesStay == [][\A s \in Sessions : topic[s].page # Unrouted => topic'[s] = topic[s]]_topic

(* What run_curator applies by itself never leaves a page with less than  *)
(* half of the text it had, also if the page changed while it was asked.   *)
(* (run_digest applies under the same name without this guard and is not   *)
(* modelled.)                                                              *)
NeverHalved ==
  \A p \in Topics : \A n \in 2 .. Number(p) :
    page[p][n].by = "local-curator" => 2 * page[p][n].size >= page[p][n - 1].size

(* Every text that can become evidence comes to be shown to a model whose  *)
(* answer is kept, or is given up as CursorPassesSeen says: unless a       *)
(* curator is killed (its stored run may then refuse every later answer),  *)
(* a silent session raises first, or the backlog is cut off.               *)
Settled ==
  \A s \in Sessions : \A p \in Topics :
    (Known(s) /\ Target(s) = p) => AccountedFor(s, p)
Undisturbed == ~killed /\ setting.silent = {} /\ Cardinality(Topics) <= MaxProjects
BacklogSettles == []Undisturbed => []<>Settled
=============================================================================
