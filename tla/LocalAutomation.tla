--------------------------- MODULE LocalAutomation ---------------------------
(***************************************************************************)
(* Background cycles of one local store (automation.py): a lease, the due  *)
(* times of remote synchronization and of local maintenance, and the       *)
(* maintenance itself, which lists pages and links mentions in one         *)
(* transaction and writes them in another (curate_database).  An operator  *)
(* may run the same maintenance by hand, without the lease.                *)
(*                                                                         *)
(* Times are kept as ages, so that time passes without bound.  A process   *)
(* polls at any moment.  ArchiveSync and CurationApply model what a remote *)
(* cycle does; here it ends or raises.  The search repair is               *)
(* SessionStore's; the reports of maintenance change nothing.              *)
(***************************************************************************)
EXTENDS LocalPages

CONSTANTS
  Runners,        \* processes with a background loop
  Operator,       \* `wikibricks curate`
  Nobody,         \* no lease
  Mentions,       \* pairs of topics: the first page's text names the second
  TTL,            \* 600 seconds
  RemoteEvery,    \* sync_interval_hours
  LocalEvery,     \* automation_local_maintenance_hours
  MaxCycle,       \* bound: the longest cycle
  MaxFails        \* bound: maintenance that raises

ASSUME AutomationAssumption ==
  /\ {TTL, RemoteEvery, LocalEvery, MaxCycle} \subseteq Nat \ {0}
  /\ MaxFails \in Nat
  /\ Mentions \subseteq Topics \X Topics /\ {Operator, Nobody} \cap Runners = {}

VARIABLES
  lease,          \* background_leases: [owner, left]
  remoteMark,     \* sync_state: ages of [attempted, completed]
  localMark,      \* sync_state: the age of completed
  runner,         \* the local variables of each cycle
  index, links,   \* the topics of _meta/index, the links of type mentions
  fails, stops,
  newest          \* history: the age of the newest attempt; whether cycles overlapped

automationVars == <<lease, remoteMark, localMark, runner, index, links, fails, stops, newest>>

Free == [owner |-> Nobody, left |-> 0]

OldRemote == RemoteEvery + MaxCycle
OldLocal  == LocalEvery + MaxCycle

Steps == {"idle", "remoteDue", "mark", "remote", "localDue",
          "list", "index", "mentions", "link", "done"}
RunnerState ==
  [pc : Steps, age : 0 .. MaxCycle, pages : SUBSET Topics, edges : SUBSET (Topics \X Topics)]
Asleep == [pc |-> "idle", age |-> 0, pages |-> {}, edges |-> {}]

Cycling(r) == r \in Runners /\ runner[r].pc # "idle"

AutomationTypeOK ==
  /\ lease \in [owner : Runners, left : 1 .. TTL] \cup {Free}
  /\ remoteMark \in [attempted : 0 .. OldRemote, completed : 0 .. OldRemote]
  /\ localMark \in 0 .. OldLocal
  /\ runner \in [Runners \cup {Operator} -> RunnerState]
  /\ index \subseteq Topics /\ links \subseteq Mentions
  /\ fails \in 0 .. MaxFails /\ stops \in Nat
  /\ newest \in [attempt : 0 .. OldRemote, overlap : BOOLEAN]

-----------------------------------------------------------------------------
Older(age, oldest) == IF age < oldest THEN age + 1 ELSE oldest
Younger(a, b) == IF a < b THEN a ELSE b
To(r, pc) == runner' = [runner EXCEPT ![r].pc = pc]
Sleep(r)  == runner' = [runner EXCEPT ![r] = Asleep]

(* Mistaken variant: a lease outlives whoever holds it. *)
HeldForGood == lease

(* Mistaken variant: nobody looks whether a lease is over. *)
NeverOver == [lease EXCEPT !.left = @ - 1]

(* Mistaken variant: a lease is over one unit early. *)
OverEarly ==
  IF setting.lock = "advisory" THEN lease
  ELSE IF lease.left <= 2 THEN Free ELSE [lease EXCEPT !.left = @ - 1]

(* A lease that is over is anybody's; the advisory lock of PostgreSQL has  *)
(* no time limit.                                                          *)
LeaseLater ==
  IF setting.lock = "advisory" \/ lease = Free THEN lease
  ELSE IF lease.left = 1 THEN Free ELSE [lease EXCEPT !.left = @ - 1]

Tick ==
  /\ \A r \in Runners : Cycling(r) => runner[r].age < MaxCycle
  /\ lease' = LeaseLater
  /\ remoteMark' = [k \in {"attempted", "completed"} |-> Older(remoteMark[k], OldRemote)]
  /\ localMark' = Older(localMark, OldLocal)
  /\ runner' = [r \in DOMAIN runner |->
                  IF Cycling(r) THEN [runner[r] EXCEPT !.age = @ + 1] ELSE runner[r]]
  /\ newest' = [newest EXCEPT !.attempt = Older(@, OldRemote)]
  /\ UNCHANGED <<pageVars, index, links, fails, stops>>

(* acquire_lease: one statement takes a lease that is nobody's or the      *)
(* caller's own.  The owner is pid:id(store): it is the runner's own if    *)
(* its new store happens to have the address of the last one.              *)
Poll(r) ==
  /\ runner[r].pc = "idle" /\ lease.owner \in {Nobody, r}
  /\ lease' = [owner |-> r, left |-> TTL]
  /\ To(r, "remoteDue")
  /\ newest' = [newest EXCEPT !.overlap = @ \/ \E q \in Runners : Cycling(q)]
  /\ UNCHANGED <<pageVars, remoteMark, localMark, index, links, fails, stops>>

(* The lease stays until it is over; the advisory lock is released. *)
Released == IF setting.lock = "lease" THEN lease ELSE Free

(* Mistaken variant: only a completed synchronization counts. *)
LastRemoteCompleted == remoteMark.completed

LastRemote == Younger(remoteMark.attempted, remoteMark.completed)

(* _due compares with the time at which this cycle started. *)
RemoteDue(r) ==
  /\ runner[r].pc = "remoteDue"
  /\ To(r, IF LastRemote - runner[r].age >= RemoteEvery THEN "mark" ELSE "localDue")
  /\ UNCHANGED <<pageVars, lease, remoteMark, localMark, index, links, fails, stops, newest>>

(* The mark replaces the whole value and so forgets the last completion.   *)
MarkAttempt(r) ==
  /\ runner[r].pc = "mark"
  /\ remoteMark' = [attempted |-> runner[r].age, completed |-> OldRemote]
  /\ newest' = [newest EXCEPT !.attempt = runner[r].age]
  /\ To(r, "remote")
  /\ UNCHANGED <<pageVars, lease, localMark, index, links, fails, stops>>

(* run_remote_cycle and _mark_complete; an exception leaves the attempt.    *)
RunRemote(r) ==
  /\ runner[r].pc = "remote"
  /\ \/ remoteMark' = [attempted |-> runner[r].age, completed |-> runner[r].age]
     \/ remoteMark' = remoteMark
  /\ To(r, "localDue")
  /\ UNCHANGED <<pageVars, lease, localMark, index, links, fails, stops, newest>>

LocalDue(r) ==
  /\ runner[r].pc = "localDue"
  /\ IF localMark - runner[r].age >= LocalEvery
     THEN To(r, "list") /\ lease' = lease
     ELSE Sleep(r) /\ lease' = Released
  /\ UNCHANGED <<pageVars, remoteMark, localMark, index, links, fails, stops, newest>>

-----------------------------------------------------------------------------
(* LOCAL MAINTENANCE *)

Existing == {p \in Topics : Exists(p)}

(* `wikibricks curate` takes no lease. *)
StartByHand ==
  /\ Operator \in setting.runners /\ runner[Operator].pc = "idle"
  /\ To(Operator, "list")
  /\ UNCHANGED <<pageVars, lease, remoteMark, localMark, index, links, fails, stops, newest>>

ListPages(r) ==
  /\ runner[r].pc = "list"
  /\ runner' = [runner EXCEPT ![r].pc = "index", ![r].pages = Existing]
  /\ UNCHANGED <<pageVars, lease, remoteMark, localMark, index, links, fails, stops, newest>>

WriteIndex(r) ==
  /\ runner[r].pc = "index"
  /\ index' = runner[r].pages
  /\ runner' = [runner EXCEPT ![r].pc = "mentions", ![r].pages = {}]
  /\ UNCHANGED <<pageVars, lease, remoteMark, localMark, links, fails, stops, newest>>

(* new_mention_edges *)
FindMentions(r) ==
  /\ runner[r].pc = "mentions"
  /\ runner' = [runner EXCEPT ![r].pc = "link",
                              ![r].edges = (Mentions \cap (Existing \X Existing)) \ links]
  /\ UNCHANGED <<pageVars, lease, remoteMark, localMark, index, links, fails, stops, newest>>

LinkMentions(r) ==
  /\ runner[r].pc = "link"
  /\ links' = links \cup runner[r].edges
  /\ runner' = [runner EXCEPT ![r].pc = "done", ![r].edges = {}]
  /\ UNCHANGED <<pageVars, lease, remoteMark, localMark, index, fails, stops, newest>>

(* The completion carries the time at which the cycle started. *)
Complete(r) ==
  /\ runner[r].pc = "done"
  /\ Sleep(r)
  /\ IF r = Operator THEN UNCHANGED <<lease, localMark>>
     ELSE localMark' = runner[r].age /\ lease' = Released
  /\ UNCHANGED <<pageVars, remoteMark, index, links, fails, stops, newest>>

(* Maintenance raises: it is due again at the next poll. *)
MaintenanceFails(r) ==
  /\ runner[r].pc \in {"list", "index", "mentions", "link"}
  /\ fails < MaxFails /\ fails' = fails + 1
  /\ Sleep(r)
  /\ lease' = IF r = Operator THEN lease ELSE Released
  /\ UNCHANGED <<pageVars, remoteMark, localMark, index, links, stops, newest>>

(* The process ends; a new one polls later.  Its lease stays, its advisory  *)
(* lock goes with its connection.                                          *)
StopRunner(r) ==
  /\ Cycling(r)
  /\ stops < setting.stops /\ stops' = stops + 1
  /\ Sleep(r) /\ lease' = Released
  /\ UNCHANGED <<pageVars, remoteMark, localMark, index, links, fails, newest>>

-----------------------------------------------------------------------------
AutomationInit ==
  /\ lease = Free
  /\ remoteMark = [attempted |-> OldRemote, completed |-> OldRemote] /\ localMark = OldLocal
  /\ runner = [r \in Runners \cup {Operator} |-> Asleep]
  /\ index = {} /\ links = {}
  /\ fails = 0 /\ stops = 0
  /\ newest = [attempt |-> OldRemote, overlap |-> FALSE]

Maintain(r) == ListPages(r) \/ WriteIndex(r) \/ FindMentions(r) \/ LinkMentions(r) \/ Complete(r)
Cycle(r) == RemoteDue(r) \/ MarkAttempt(r) \/ RunRemote(r) \/ LocalDue(r)

AutomationNext ==
  \/ Tick \/ StartByHand
  \/ \E r \in Runners \cap setting.runners : Poll(r) \/ Cycle(r) \/ StopRunner(r)
  \/ \E r \in Runners \cup {Operator} : Maintain(r) \/ MaintenanceFails(r)

-----------------------------------------------------------------------------
(* PROPERTIES *)

(* Two cycles run at once only if the earlier one has outlived its lease,  *)
(* and never under the advisory lock, also after stops.                    *)
LeaseExclusive ==
  \A r, q \in Runners :
    (r # q /\ Cycling(r) /\ Cycling(q) /\ runner[r].age >= runner[q].age) =>
      setting.lock = "lease" /\ runner[r].age - runner[q].age >= TTL

(* However cycles fail and stop, a remote attempt starts an interval after *)
(* the newest one, as long as no cycle ran beside another.                 *)
AttemptsSpaced ==
  [][\A r \in Runners : MarkAttempt(r) =>
       newest.overlap \/ newest.attempt - runner[r].age >= RemoteEvery]_automationVars

(* Once pages rest, maintenance comes to list and link them all, though    *)
(* the remote side may fail for ever, processes stop with the lease, and   *)
(* slow or manual runs write over newer ones.                              *)
Tended == Existing \subseteq index /\ Mentions \cap (Existing \X Existing) \subseteq links
WikiTended == "automation" \in setting.parts => []<>Tended
=============================================================================
