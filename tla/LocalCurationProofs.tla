------------------------- MODULE LocalCurationProofs -------------------------
(***************************************************************************)
(* Proofs about LocalCuration, for every number of background processes,   *)
(* sessions and topics, every lease time and both kinds of lock: cycles    *)
(* exclude each other for as long as a lease lasts and space their remote  *)
(* attempts, a stored route is never changed, no rewrite of run_curator    *)
(* halves the page it replaces, and the evidence cursor passes no text but *)
(* those a kept answer was shown and those the code gives up.              *)
(*                                                                         *)
(* LeaseExclusive is not inductive: who polls sees the lease, not the      *)
(* other cycles.  Owned connects the two: a cycle younger than its lease   *)
(* still owns it, and the lease then ends TTL after the cycle began.       *)
(* NeverHalved is not either: the guard compares an answer with the        *)
(* version the model was shown, which Guarded ties to the version that the *)
(* base check lets the answer replace.                                     *)
(*                                                                         *)
(* CursorPassesSeen needs Passes, what holds between a request and the     *)
(* cursor it will save: a session no newer than what was listed is         *)
(* accounted for, or is in the list until the answer is kept.  It lasts    *)
(* while others write because whatever comes in is newer than all there    *)
(* was, or behind no cursor and no list, or given up (Onward).             *)
(* AttemptsSpaced needs Spaced: the mark in the store is the newest        *)
(* attempt.                                                                *)
(***************************************************************************)
EXTENDS LocalCuration, Ranks, SequenceTheorems

LeaseType ==
  /\ setting \in Settings
  /\ lease \in [owner : Runners, left : 1 .. TTL] \cup {Free}
  /\ runner \in [Runners \cup {Operator} -> RunnerState]

RestsAtZero == \A r \in Runners : runner[r].pc = "idle" => runner[r].age = 0

Owned ==
  \A r \in Runners : Cycling(r) =>
    /\ setting.lock = "advisory" => lease.owner = r
    /\ (setting.lock = "lease" /\ runner[r].age < TTL) =>
         lease.owner = r /\ lease.left = TTL - runner[r].age

LeaseInv == LeaseType /\ RestsAtZero /\ Owned /\ LeaseExclusive
-----------------------------------------------------------------------------
(* A step that starts no cycle and lets no time pass keeps the invariant,  *)
(* if it leaves the lease alone or releases a lock that nobody needs.      *)
LEMMA QuietStep ==
  ASSUME LeaseInv, LeaseType', setting' = setting,
         \A r \in Runners : \/ runner'[r].pc = "idle" /\ runner'[r].age = 0
                            \/ Cycling(r) /\ runner'[r].pc # "idle" /\ runner'[r].age = runner[r].age,
         \/ lease' = lease
         \/ setting.lock = "advisory" /\ \A r \in Runners : runner'[r].pc = "idle"
  PROVE  LeaseInv'
<1>1. RestsAtZero'
  BY DEF RestsAtZero, LeaseInv
<1>2. Owned'
  BY DEF Owned, LeaseInv, Cycling
<1>3. LeaseExclusive'
  BY DEF LeaseExclusive, LeaseInv, Cycling
<1> QED
  BY <1>1, <1>2, <1>3 DEF LeaseInv

(* A runner goes to another step of its cycle, or an operator to any step. *)
LEMMA StepOn ==
  ASSUME LeaseInv, NEW r \in Runners \cup {Operator}, NEW s \in RunnerState,
         r \in Runners => runner[r].pc # "idle" /\ s.pc # "idle" /\ s.age = runner[r].age,
         runner' = [runner EXCEPT ![r] = s], lease' = lease, setting' = setting
  PROVE  LeaseInv'
<1>1. LeaseType'
  BY DEF LeaseInv, LeaseType
<1>2. \A q \in Runners : \/ runner'[q].pc = "idle" /\ runner'[q].age = 0
                         \/ Cycling(q) /\ runner'[q].pc # "idle" /\ runner'[q].age = runner[q].age
  BY DEF LeaseInv, LeaseType, RestsAtZero, Cycling
<1> QED
  BY <1>1, <1>2, QuietStep

(* A cycle ends. *)
LEMMA CycleEnds ==
  ASSUME LeaseInv, NEW r \in Runners \cup {Operator},
         r \in Runners => runner[r].pc # "idle" /\ lease' = Released,
         r = Operator => lease' = lease,
         Sleep(r), setting' = setting
  PROVE  LeaseInv'
<1>1. Asleep \in RunnerState
  BY AutomationAssumption DEF Asleep, RunnerState, Steps
<1>2. LeaseType'
  BY <1>1, AutomationAssumption DEF LeaseInv, LeaseType, Sleep, Released, Free
<1>3. \A q \in Runners : \/ runner'[q].pc = "idle" /\ runner'[q].age = 0
                         \/ Cycling(q) /\ runner'[q].pc # "idle" /\ runner'[q].age = runner[q].age
  BY DEF LeaseInv, LeaseType, RestsAtZero, Cycling, Sleep, Asleep
<1>4. \/ lease' = lease
      \/ setting.lock = "advisory" /\ \A q \in Runners : runner'[q].pc = "idle"
  <2>1. CASE r = Operator \/ setting.lock = "lease"
    BY <2>1 DEF Released
  <2>2. CASE r \in Runners /\ setting.lock # "lease"
    <3>1. setting.lock = "advisory"
      BY <2>2, SettingAssumption DEF LeaseInv, LeaseType
    <3>2. ASSUME NEW q \in Runners, runner'[q].pc # "idle"
          PROVE  FALSE
      <4>1. q # r
        BY <2>2, <3>2 DEF LeaseInv, LeaseType, Sleep, Asleep
      <4>2. Cycling(q) /\ Cycling(r)
        BY <1>3, <2>2, <3>2 DEF Cycling
      <4> QED
        BY <2>2, <3>1, <4>1, <4>2 DEF LeaseInv, Owned
    <3> QED
      BY <3>1, <3>2
  <2> QED
    BY <2>1, <2>2
<1> QED
  BY <1>2, <1>3, <1>4, QuietStep
-----------------------------------------------------------------------------
LEMMA InitLease == Init => LeaseInv
<1> SUFFICES ASSUME Init PROVE LeaseInv
  OBVIOUS
<1>1. Asleep \in RunnerState
  BY AutomationAssumption DEF Asleep, RunnerState, Steps
<1>2. LeaseType
  BY <1>1, AutomationAssumption DEF Init, AutomationInit, LeaseType, Free
<1> QED
  BY <1>2 DEF Init, AutomationInit, LeaseInv, RestsAtZero, Owned, LeaseExclusive, Cycling, Asleep

(* Time passes: every cycle and the lease grow older together. *)
LEMMA TickLease == ASSUME LeaseInv, Tick, setting' = setting PROVE LeaseInv'
<1> USE DEF LeaseInv, LeaseType
<1>1. \A r \in Runners : /\ runner[r].age \in 0 .. MaxCycle
                         /\ runner'[r].pc = runner[r].pc
                         /\ Cycling(r) => runner'[r].age = runner[r].age + 1
                         /\ ~ Cycling(r) => runner'[r] = runner[r]
  BY DEF Tick, RunnerState, Cycling
<1>2. runner' \in [Runners \cup {Operator} -> RunnerState]
  <2>1. ASSUME NEW r \in Runners \cup {Operator}
        PROVE  (IF Cycling(r) THEN [runner[r] EXCEPT !.age = @ + 1] ELSE runner[r]) \in RunnerState
    <3>1. Cycling(r) => runner[r].age + 1 \in 0 .. MaxCycle
      BY AutomationAssumption, <2>1 DEF Tick, Cycling, RunnerState
    <3> QED
      BY <3>1 DEF RunnerState
  <2> QED
    BY <2>1 DEF Tick
<1>3. lease' \in [owner : Runners, left : 1 .. TTL] \cup {Free}
  BY AutomationAssumption DEF Tick, LeaseLater, Free
<1>4. RestsAtZero'
  BY <1>1 DEF RestsAtZero, Cycling
<1>5. Owned'
  <2> SUFFICES ASSUME NEW r \in Runners, Cycling(r)
               PROVE  /\ setting.lock = "advisory" => lease'.owner = r
                      /\ (setting.lock = "lease" /\ runner[r].age + 1 < TTL) =>
                           lease'.owner = r /\ lease'.left = TTL - (runner[r].age + 1)
    BY <1>1 DEF Owned, Cycling, Tick
  <2>1. CASE setting.lock = "advisory"
    BY <2>1 DEF Owned, Tick, LeaseLater
  <2>2. CASE setting.lock = "lease" /\ runner[r].age + 1 < TTL
    <3>1. lease.owner = r /\ lease.left = TTL - runner[r].age
      BY <1>1, <2>2, AutomationAssumption DEF Owned
    <3>2. lease # Free /\ lease.left # 1
      BY <1>1, <2>2, <3>1, AutomationAssumption DEF Free
    <3>3. lease' = [lease EXCEPT !.left = @ - 1]
      BY <2>2, <3>2 DEF Tick, LeaseLater
    <3> QED
      BY <1>1, <2>2, <3>1, <3>3, AutomationAssumption
  <2> QED
    BY <2>1, <2>2
<1>6. LeaseExclusive'
  BY <1>1 DEF LeaseExclusive, Cycling
<1> QED
  BY <1>2, <1>3, <1>4, <1>5, <1>6 DEF Tick

(* A runner that gets the lease meets only cycles that have outlived it. *)
LEMMA PollLease ==
  ASSUME LeaseInv, NEW r \in Runners, Poll(r), setting' = setting
  PROVE  LeaseInv'
<1> USE DEF LeaseInv, LeaseType
<1>1. /\ runner'[r] = [runner[r] EXCEPT !.pc = "remoteDue"]
      /\ \A q \in Runners \ {r} : runner'[q] = runner[q]
      /\ runner[r].age = 0 /\ ~ Cycling(r)
  BY DEF Poll, To, RestsAtZero, Cycling
<1>2. runner'[r].pc = "remoteDue" /\ runner'[r].age = 0
  BY <1>1 DEF RunnerState
<1>3. lease' = [owner |-> r, left |-> TTL]
  BY DEF Poll
<1>4. LeaseType'
  BY <1>3, AutomationAssumption DEF Poll, To, RunnerState, Steps
<1>5. ASSUME NEW q \in Runners \ {r}, Cycling(q)
      PROVE  setting.lock = "lease" /\ runner[q].age >= TTL
  <2>1. lease.owner # q
    BY <1>5, AutomationAssumption DEF Poll
  <2>2. setting.lock = "lease"
    BY <1>5, <2>1, SettingAssumption DEF Owned
  <2> QED
    BY <1>5, <2>1, <2>2, AutomationAssumption DEF Owned, RunnerState
<1>6. RestsAtZero'
  BY <1>1, <1>2 DEF RestsAtZero
<1>7. Owned'
  <2>1. ASSUME NEW q \in Runners \ {r}, Cycling(q)'
        PROVE  setting.lock = "lease" /\ runner'[q].age >= TTL
    BY <1>1, <1>5, <2>1 DEF Cycling
  <2>2. lease'.owner = r /\ lease'.left = TTL - runner'[r].age
    BY <1>2, <1>3, AutomationAssumption
  <2> QED
    BY <2>1, <2>2, <1>1, AutomationAssumption DEF Owned, RunnerState
<1>8. LeaseExclusive'
  <2>1. ASSUME NEW q \in Runners \ {r}, Cycling(q)'
        PROVE  /\ setting.lock = "lease" /\ runner'[q].age - runner'[r].age >= TTL
               /\ ~ (runner'[r].age >= runner'[q].age)
    <3>1. setting.lock = "lease" /\ runner'[q].age >= TTL
      BY <1>1, <1>5, <2>1 DEF Cycling
    <3>2. runner'[q].age \in Nat
      BY <1>4 DEF RunnerState
    <3> QED
      BY <1>2, <3>1, <3>2, AutomationAssumption
  <2>2. ASSUME NEW p \in Runners \ {r}, NEW q \in Runners \ {r}, p # q,
               Cycling(p)', Cycling(q)', runner'[p].age >= runner'[q].age
        PROVE  setting.lock = "lease" /\ runner'[p].age - runner'[q].age >= TTL
    BY <1>1, <2>2 DEF LeaseExclusive, Cycling
  <2> QED
    BY <2>1, <2>2 DEF LeaseExclusive, Cycling
<1> QED
  BY <1>4, <1>6, <1>7, <1>8
-----------------------------------------------------------------------------
(* A step that only moves the program counter. *)
LEMMA GoTo ==
  ASSUME LeaseInv, NEW r \in Runners \cup {Operator}, NEW pc \in Steps \ {"idle"},
         r \in Runners => runner[r].pc # "idle",
         To(r, pc), lease' = lease, setting' = setting
  PROVE  LeaseInv'
<1> DEFINE s == [runner[r] EXCEPT !.pc = pc]
<1>1. runner[r] \in RunnerState
  BY DEF LeaseInv, LeaseType
<1>2. s \in RunnerState /\ s.pc = pc /\ s.age = runner[r].age
  BY <1>1 DEF RunnerState
<1>3. runner' = [runner EXCEPT ![r] = s]
  BY DEF To
<1> HIDE DEF s
<1> QED
  BY <1>2, <1>3, StepOn

LEMMA DueSteps ==
  ASSUME LeaseInv, setting' = setting, NEW r \in Runners, Cycle(r)
  PROVE  LeaseInv'
<1>1. CASE RemoteDue(r)
  <2>1. PICK pc \in {"mark", "localDue"} : To(r, pc)
    BY <1>1 DEF RemoteDue
  <2> QED
    BY <1>1, <2>1, GoTo DEF RemoteDue, Steps
<1>2. CASE MarkAttempt(r)
  BY <1>2, GoTo DEF MarkAttempt, Steps
<1>3. CASE RunRemote(r)
  BY <1>3, GoTo DEF RunRemote, Steps
<1>4. CASE LocalDue(r) /\ To(r, "list") /\ lease' = lease
  BY <1>4, GoTo DEF LocalDue, Steps
<1>5. CASE LocalDue(r) /\ Sleep(r) /\ lease' = Released
  BY <1>5, CycleEnds, AutomationAssumption DEF LocalDue
<1> QED
  BY <1>1, <1>2, <1>3, <1>4, <1>5 DEF Cycle, LocalDue

LEMMA MaintenanceSteps ==
  ASSUME LeaseInv, setting' = setting, NEW r \in Runners \cup {Operator},
         Maintain(r) \/ MaintenanceFails(r)
  PROVE  LeaseInv'
<1>1. runner[r] \in RunnerState
  BY DEF LeaseInv, LeaseType
<1>2. CASE ListPages(r)
  <2> DEFINE s == [runner[r] EXCEPT !.pc = "index", !.pages = Existing]
  <2>1. s \in RunnerState /\ s.pc = "index" /\ s.age = runner[r].age
    BY <1>1 DEF RunnerState, Steps, Existing
  <2>2. runner' = [runner EXCEPT ![r] = s]
    BY <1>2 DEF ListPages
  <2> HIDE DEF s
  <2> QED
    BY <1>2, <2>1, <2>2, StepOn DEF ListPages
<1>3. CASE WriteIndex(r)
  <2> DEFINE s == [runner[r] EXCEPT !.pc = "mentions", !.pages = {}]
  <2>1. s \in RunnerState /\ s.pc = "mentions" /\ s.age = runner[r].age
    BY <1>1 DEF RunnerState, Steps
  <2>2. runner' = [runner EXCEPT ![r] = s]
    BY <1>3 DEF WriteIndex
  <2> HIDE DEF s
  <2> QED
    BY <1>3, <2>1, <2>2, StepOn DEF WriteIndex
<1>4. CASE FindMentions(r)
  <2> DEFINE found == (Mentions \cap (Existing \X Existing)) \ links
             s == [runner[r] EXCEPT !.pc = "link", !.edges = found]
  <2>1. found \subseteq Topics \X Topics
    BY AutomationAssumption
  <2>2. runner' = [runner EXCEPT ![r] = s]
    BY <1>4 DEF FindMentions
  <2> HIDE DEF found
  <2>3. s \in RunnerState /\ s.pc = "link" /\ s.age = runner[r].age
    BY <1>1, <2>1 DEF RunnerState, Steps
  <2> HIDE DEF s
  <2> QED
    BY <1>4, <2>2, <2>3, StepOn DEF FindMentions
<1>5. CASE LinkMentions(r)
  <2> DEFINE s == [runner[r] EXCEPT !.pc = "done", !.edges = {}]
  <2>1. s \in RunnerState /\ s.pc = "done" /\ s.age = runner[r].age
    BY <1>1 DEF RunnerState, Steps
  <2>2. runner' = [runner EXCEPT ![r] = s]
    BY <1>5 DEF LinkMentions
  <2> HIDE DEF s
  <2> QED
    BY <1>5, <2>1, <2>2, StepOn DEF LinkMentions
<1>6. CASE Complete(r)
  BY <1>6, CycleEnds, AutomationAssumption DEF Complete
<1>7. CASE MaintenanceFails(r)
  BY <1>7, CycleEnds, AutomationAssumption DEF MaintenanceFails
<1> QED
  BY <1>2, <1>3, <1>4, <1>5, <1>6, <1>7 DEF Maintain

LEMMA NextLease == LeaseInv /\ [Next]_vars => LeaseInv'
<1> SUFFICES ASSUME LeaseInv, [Next]_vars PROVE LeaseInv'
  OBVIOUS
<1>1. setting' = setting
  BY DEF Next, Curates, Automates, Writes, Runs, vars
<1>2. ASSUME UNCHANGED <<lease, runner>> PROVE LeaseInv'
  BY <1>1, <1>2 DEF LeaseInv, LeaseType, RestsAtZero, Owned, LeaseExclusive, Cycling
<1>3. CASE Curates \/ Writes \/ UNCHANGED vars
  BY <1>2, <1>3 DEF Curates, Writes, vars, automationVars
<1>4. CASE Automates
  <2>1. CASE Tick
    BY <1>1, <2>1, TickLease
  <2>2. CASE StartByHand
    BY <1>1, <2>2, AutomationAssumption, GoTo DEF StartByHand, Steps
  <2>3. ASSUME NEW r \in Runners, Poll(r) \/ Cycle(r) \/ StopRunner(r)
        PROVE  LeaseInv'
    <3>1. CASE Poll(r)
      BY <1>1, <3>1, PollLease
    <3>2. CASE Cycle(r)
      BY <1>1, <3>2, DueSteps
    <3>3. CASE StopRunner(r)
      BY <1>1, <3>3, CycleEnds, AutomationAssumption DEF StopRunner, Cycling
    <3> QED
      BY <2>3, <3>1, <3>2, <3>3
  <2>4. ASSUME NEW r \in Runners \cup {Operator}, Maintain(r) \/ MaintenanceFails(r)
        PROVE  LeaseInv'
    BY <1>1, <2>4, MaintenanceSteps
  <2> QED
    BY <1>4, <2>1, <2>2, <2>3, <2>4 DEF Automates, AutomationNext
<1> QED
  BY <1>3, <1>4 DEF Next

(* Two background cycles run at once only if the earlier one has outlived  *)
(* its lease, and never under the advisory lock.                           *)
THEOREM LeaseExclusiveAlways == Spec => []LeaseExclusive
<1>1. LeaseInv => LeaseExclusive
  BY DEF LeaseInv
<1> QED
  BY InitLease, NextLease, <1>1, PTL DEF Spec
-----------------------------------------------------------------------------
(* No step changes the topic of a session that has one. *)
LEMMA NextKeepsRoutes ==
  [Next]_vars => [\A s \in Sessions : topic[s].page # Unrouted => topic'[s] = topic[s]]_topic
<1> SUFFICES ASSUME [Next]_vars, topic' # topic, NEW s \in Sessions, topic[s].page # Unrouted
             PROVE  topic'[s] = topic[s]
  OBVIOUS
<1>1. PICK c \in setting.curators : RouteSessions(c)
  <2>1. CASE Automates \/ Writes \/ UNCHANGED vars
    BY <2>1 DEF Automates, Writes, vars, curatorVars
  <2>2. CASE Curates
    BY <2>2 DEF Curates, CuratorNext, CuratorStep, Update, StartNight, RouteFails, LoadBacklog, Build,
                Ask, AskFails, StoreRun, Apply, SaveCursor, Kill
  <2> QED
    BY <2>1, <2>2 DEF Next
<1>2. PICK routes \in Routes(curator[c].ids) :
        topic' = [t \in Sessions |-> IF t \in {u \in Sessions : Routed(routes, u)}
                                    THEN [page |-> routes[t], created |-> clock + 1]
                                    ELSE topic[t]]
  BY <1>1 DEF RouteSessions
<1> QED
  BY <1>2 DEF Routed

(* A session's topic, once stored, stays, whatever other curators answer. *)
THEOREM RoutesStayAlways == Spec => RoutesStay
  BY NextKeepsRoutes, PTL DEF Spec, RoutesStay
-----------------------------------------------------------------------------
(* NeverHalved follows because the guard compared a low-risk text with the *)
(* version that was shown, and BaseHolds lets it replace only that one.    *)
(* Guarded keeps the first half of the argument for every curator that     *)
(* holds an answer, while other processes add versions.                    *)
GuardedText(c) ==
  LET q     == curator[c].request
      patch == curator[c].patch
      holds == curator[c].pc \in {"store", "apply"} IN
    /\ holds => patch.size \in Sizes
    /\ q.topic \in Topics => q.base \in 0 .. Number(q.topic)
    /\ (holds /\ q.topic \in Topics /\ patch.risk = "low" /\ q.base > 0) =>
         2 * patch.size >= page[q.topic][q.base].size

Guarded == \A c \in Curators : curator[c].pc \in {"ask", "store", "apply"} => GuardedText(c)

Fields == {"pc", "ids", "todo", "request", "listed", "patch"}
IsRecord(state) == state = [field \in Fields |-> state[field]]
Shaped ==
  /\ setting \in Settings
  /\ clock \in Nat /\ page \in [Topics -> Seq(Version)]
  /\ DOMAIN curator = Curators /\ \A c \in Curators : IsRecord(curator[c])

HalfInv == Shaped /\ Guarded /\ NeverHalved

(* Writing a page adds a version and changes no older one. *)
LEMMA WriteAdds ==
  ASSUME Shaped, NEW p, NEW size \in Sizes, NEW by \in {"agent", "local-curator"},
         WritePage(p, size, by)
  PROVE  /\ clock' \in Nat /\ page' \in [Topics -> Seq(Version)]
         /\ \A q \in Topics : /\ Number(q)' >= Number(q)
                              /\ \A n \in 1 .. Number(q) : page'[q][n] = page[q][n]
         /\ \A q \in Topics \ {p} : page'[q] = page[q]
         /\ p \in Topics => /\ Number(p)' = Number(p) + 1
                            /\ page'[p][Number(p) + 1].size = size
                            /\ page'[p][Number(p) + 1].by = by
<1> DEFINE v == [size |-> size, by |-> by, updated |-> clock + 1]
<1>1. v \in Version /\ v.size = size /\ v.by = by
  BY DEF Version, Shaped
<1>2. clock' \in Nat /\ page' = [page EXCEPT ![p] = Append(@, v)]
  BY DEF WritePage, Shaped
<1> HIDE DEF v
<1>3. page' \in [Topics -> Seq(Version)]
  <2>1. p \in Topics => Append(page[p], v) \in Seq(Version)
    BY <1>1 DEF Shaped
  <2> QED
    BY <1>2, <2>1 DEF Shaped
<1>4. ASSUME NEW q \in Topics \ {p} PROVE page'[q] = page[q] /\ Number(q)' = Number(q)
  BY <1>2 DEF Shaped, Number
<1>5. ASSUME p \in Topics
      PROVE  /\ Number(p)' = Number(p) + 1
             /\ page'[p][Number(p) + 1] = v
             /\ \A n \in 1 .. Number(p) : page'[p][n] = page[p][n]
  <2>1. page[p] \in Seq(Version) /\ page'[p] = Append(page[p], v)
    BY <1>2, <1>5 DEF Shaped
  <2> QED
    BY <1>1, <2>1 DEF Number
<1>6. ASSUME NEW q \in Topics
      PROVE  /\ Number(q)' >= Number(q)
             /\ \A n \in 1 .. Number(q) : page'[q][n] = page[q][n]
  <2>1. Number(q) \in Nat
    BY DEF Shaped, Number
  <2>2. CASE q = p
    BY <1>5, <2>1, <2>2
  <2>3. CASE q # p
    BY <1>4, <2>1, <2>3
  <2> QED
    BY <2>2, <2>3
<1>7. p \in Topics => /\ page'[p][Number(p) + 1].size = size
                      /\ page'[p][Number(p) + 1].by = by
  BY <1>1, <1>5
<1> QED
  BY <1>2, <1>3, <1>4, <1>5, <1>6, <1>7

(* What a curator holds stays guarded while pages grow. *)
LEMMA PagesGrow ==
  ASSUME Shaped, NEW c \in Curators, GuardedText(c), curator'[c] = curator[c],
         \A q \in Topics : /\ Number(q)' \in Nat /\ Number(q)' >= Number(q)
                           /\ \A n \in 1 .. Number(q) : page'[q][n] = page[q][n]
  PROVE  GuardedText(c)'
<1>1. \A q \in Topics : Number(q) \in Nat
  BY DEF Shaped, Number
<1> QED
  BY <1>1 DEF GuardedText

(* One curator moves and no page is written. *)
LEMMA CuratorMoves ==
  ASSUME HalfInv, UNCHANGED <<setting, page>>, clock' \in Nat, NEW c \in Curators, NEW state, IsRecord(state),
         Become(c, state), state.pc \in {"ask", "store", "apply"} => GuardedText(c)'
  PROVE  HalfInv'
<1>1. curator'[c] = state /\ \A d \in Curators \ {c} : curator'[d] = curator[d]
  BY DEF Become, HalfInv, Shaped
<1>2. Shaped'
  BY <1>1 DEF Become, HalfInv, Shaped
<1>3. Guarded'
  BY <1>1 DEF HalfInv, Guarded, GuardedText, Number
<1>4. NeverHalved'
  BY DEF HalfInv, NeverHalved, Number
<1> QED
  BY <1>2, <1>3, <1>4 DEF HalfInv

(* What a curator may become without holding an answer. *)
LEMMA EmptyHands ==
  /\ IsRecord(Resting) /\ Resting.pc = "idle"
  /\ \A pc, todo : LET state == [Resting EXCEPT !.pc = pc, !.todo = todo] IN
       IsRecord(state) /\ state.pc = pc
  /\ \A pc, ids : LET state == [Resting EXCEPT !.pc = pc, !.ids = ids] IN
       IsRecord(state) /\ state.pc = pc
  /\ \A pc : LET state == [Resting EXCEPT !.pc = pc] IN IsRecord(state) /\ state.pc = pc
  /\ \A c : IsRecord(NextItem(c)) /\ NextItem(c).pc \in {"idle", "build"}
<1>1. IsRecord(Resting) /\ Resting.pc = "idle"
  BY DEF IsRecord, Fields, Resting
<1>2. ASSUME NEW pc, NEW todo
      PROVE  LET state == [Resting EXCEPT !.pc = pc, !.todo = todo] IN
               IsRecord(state) /\ state.pc = pc
  BY <1>1 DEF IsRecord, Fields
<1>3. ASSUME NEW pc, NEW ids
      PROVE  LET state == [Resting EXCEPT !.pc = pc, !.ids = ids] IN
               IsRecord(state) /\ state.pc = pc
  BY <1>1 DEF IsRecord, Fields
<1>4. ASSUME NEW pc
      PROVE  LET state == [Resting EXCEPT !.pc = pc] IN IsRecord(state) /\ state.pc = pc
  BY <1>1 DEF IsRecord, Fields
<1>5. ASSUME NEW c
      PROVE  IsRecord(NextItem(c)) /\ NextItem(c).pc \in {"idle", "build"}
  BY <1>1, <1>2 DEF NextItem
<1> HIDE DEF IsRecord
<1> QED
  BY <1>1, <1>2, <1>3, <1>4, <1>5

LEMMA InitHalf == Init => HalfInv
<1> SUFFICES ASSUME Init PROVE HalfInv
  OBVIOUS
<1>1. clock \in Nat /\ page \in [Topics -> Seq(Version)] /\ \A p \in Topics : Number(p) \in {0, 1}
  <2>1. \A p \in Topics : page[p] \in {<<FirstVersion>>, <<>>}
    BY DEF Init, PagesInit
  <2>2. <<FirstVersion>> \in Seq(Version) /\ <<>> \in Seq(Version)
    <3>1. FirstVersion \in Version
      BY PageAssumption DEF FirstVersion, Version
    <3> QED
      BY <3>1
  <2> QED
    BY <2>1, <2>2 DEF Init, PagesInit, Number
<1>2. NeverHalved
  BY <1>1 DEF NeverHalved
<1> HIDE DEF FirstVersion
<1>3. Shaped /\ Guarded
  BY <1>1, EmptyHands DEF Init, CuratorInit, Shaped, Guarded
<1> QED
  BY <1>2, <1>3 DEF HalfInv

(* An agent's version is nobody's answer. *)
LEMMA AgentWriteHalf == ASSUME HalfInv, Writes PROVE HalfInv'
<1>1. PICK p \in Topics, size \in AgentSizes : WritePage(p, size, "agent")
  BY DEF Writes, AgentWrite
<1>2. Shaped /\ size \in Sizes
  BY PageAssumption DEF HalfInv
<1>3. /\ clock' \in Nat /\ page' \in [Topics -> Seq(Version)]
      /\ \A q \in Topics : /\ Number(q)' >= Number(q)
                           /\ \A n \in 1 .. Number(q) : page'[q][n] = page[q][n]
      /\ \A q \in Topics \ {p} : page'[q] = page[q]
      /\ Number(p)' = Number(p) + 1
      /\ page'[p][Number(p) + 1].by = "agent"
  BY <1>1, <1>2, WriteAdds
<1>4. \A q \in Topics : Number(q) \in Nat /\ Number(q)' \in Nat
  BY <1>2, <1>3 DEF Shaped, Number
<1>5. curator' = curator /\ setting' = setting
  BY DEF Writes, curatorVars
<1>6. Shaped'
  BY <1>2, <1>3, <1>5 DEF Shaped
<1>7. Guarded'
  BY <1>2, <1>3, <1>4, <1>5, PagesGrow DEF HalfInv, Guarded
<1>8. NeverHalved'
  <2> SUFFICES ASSUME NEW q \in Topics, NEW n \in 2 .. Number(q)', page'[q][n].by = "local-curator"
               PROVE  2 * page'[q][n].size >= page'[q][n - 1].size
    BY DEF NeverHalved
  <2>1. n \in 2 .. Number(q)
    <3>1. CASE q = p
      BY <1>3, <1>4, <3>1
    <3>2. CASE q # p
      BY <1>3, <3>2 DEF Number
    <3> QED
      BY <3>1, <3>2
  <2>2. page'[q][n] = page[q][n] /\ page'[q][n - 1] = page[q][n - 1]
    BY <1>3, <1>4, <2>1
  <2> QED
    BY <2>1, <2>2 DEF HalfInv, NeverHalved
<1> QED
  BY <1>6, <1>7, <1>8 DEF HalfInv

(* What is applied is the text the guard passed, on the version it passed  *)
(* it for.                                                                 *)
LEMMA ApplyHalf ==
  ASSUME HalfInv, setting' = setting, NEW c \in Curators, Apply(c)
  PROVE  HalfInv'
<1> DEFINE next == [curator[c] EXCEPT !.pc = "cursor"]
<1>0. PICK p, size : p = curator[c].request.topic /\ size = curator[c].patch.size
  OBVIOUS
<1>1. IsRecord(next) /\ next.pc = "cursor"
  BY DEF HalfInv, Shaped, IsRecord, Fields
<1>2. Become(c, next)
  BY DEF Apply
<1>3. CASE UNCHANGED pageVars
  BY <1>1, <1>2, <1>3, CuratorMoves DEF pageVars, HalfInv, Shaped
<1>4. CASE BaseHolds(curator[c].request) /\ curator[c].patch.risk = "low"
  <2>1. WritePage(p, size, "local-curator") /\ Number(p) = curator[c].request.base
    BY <1>0, <1>4 DEF Apply, BaseHolds
  <2>2. Shaped /\ GuardedText(c) /\ curator[c].pc = "apply"
    BY DEF HalfInv, Guarded, Apply
  <2>3. size \in Sizes
    BY <1>0, <2>2 DEF GuardedText
  <2>4. \A d \in Curators \ {c} : curator'[d] = curator[d]
    BY <1>2 DEF Become, HalfInv, Shaped
  <2>5. curator'[c] = next /\ DOMAIN curator' = Curators
    BY <1>2, <2>2 DEF Become, Shaped
  <2> HIDE DEF next
  <2>6. /\ clock' \in Nat /\ page' \in [Topics -> Seq(Version)]
        /\ \A q \in Topics : /\ Number(q)' >= Number(q)
                             /\ \A n \in 1 .. Number(q) : page'[q][n] = page[q][n]
        /\ \A q \in Topics \ {p} : page'[q] = page[q]
        /\ p \in Topics => /\ Number(p)' = Number(p) + 1
                           /\ page'[p][Number(p) + 1].size = size
    BY <2>1, <2>2, <2>3, WriteAdds
  <2>7. \A q \in Topics : Number(q) \in Nat /\ Number(q)' \in Nat
    BY <2>2, <2>6 DEF Shaped, Number
  <2>8. Shaped'
    BY <1>1, <2>2, <2>4, <2>5, <2>6 DEF Shaped
  <2>9. Guarded'
    <3> SUFFICES ASSUME NEW d \in Curators, curator'[d].pc \in {"ask", "store", "apply"}
                 PROVE  GuardedText(d)'
      BY DEF Guarded
    <3>1. d # c /\ curator'[d] = curator[d]
      BY <1>1, <2>4, <2>5
    <3>2. GuardedText(d)
      BY <3>1 DEF HalfInv, Guarded
    <3> QED
      BY <2>2, <2>6, <2>7, <3>1, <3>2, PagesGrow
  <2>10. NeverHalved'
    <3> SUFFICES ASSUME NEW q \in Topics, NEW n \in 2 .. Number(q)',
                        page'[q][n].by = "local-curator"
                 PROVE  2 * page'[q][n].size >= page'[q][n - 1].size
      BY DEF NeverHalved
    <3>1. CASE n \in 2 .. Number(q)
      <4>1. page'[q][n] = page[q][n] /\ page'[q][n - 1] = page[q][n - 1]
        BY <2>6, <2>7, <3>1
      <4> QED
        BY <3>1, <4>1 DEF HalfInv, NeverHalved
    <3>2. CASE n \notin 2 .. Number(q)
      <4>1. q = p
        BY <2>6, <3>2 DEF Number
      <4>2. n = Number(p) + 1 /\ Number(p) > 0
        BY <2>6, <2>7, <3>2, <4>1
      <4>3. page'[p][n].size = size /\ page'[p][n - 1] = page[p][Number(p)]
        BY <2>6, <2>7, <4>1, <4>2
      <4>4. 2 * size >= page[p][Number(p)].size
        BY <1>0, <1>4, <2>1, <2>2, <4>1, <4>2 DEF GuardedText
      <4> QED
        BY <4>1, <4>3, <4>4
    <3> QED
      BY <3>1, <3>2
  <2> QED
    BY <2>8, <2>9, <2>10 DEF HalfInv
<1> QED
  BY <1>3, <1>4 DEF Apply

LEMMA CuratorHalf ==
  ASSUME HalfInv, setting' = setting, CuratorNext
  PROVE  HalfInv'
<1>1. CASE \E s \in setting.sessions : Update(s)
  <2>1. PICK s \in setting.sessions, t \in 1 .. clock + 1 : clock' = Larger(clock, t)
    BY <1>1 DEF Update
  <2>2. clock' \in Nat /\ page' = page /\ curator' = curator
    BY <1>1, <2>1 DEF Update, HalfInv, Shaped, Larger
  <2> QED
    BY <2>2 DEF HalfInv, Shaped, Guarded, GuardedText, NeverHalved, Number
<1>2. ASSUME NEW c \in setting.curators,
             CuratorStep(c) \/ RouteFails(c) \/ AskFails(c) \/ Kill(c)
      PROVE  HalfInv'
  <2>1. c \in Curators
    BY SessionAssumption DEF HalfInv, Shaped
  <2>2. clock \in Nat /\ IsRecord(curator[c])
    BY <2>1 DEF HalfInv, Shaped
  <2>3. CASE \/ StartNight(c) \/ RouteSessions(c) \/ RouteFails(c) \/ LoadBacklog(c)
             \/ AskFails(c) \/ SaveCursor(c) \/ Kill(c)
    <3>1. PICK state : /\ Become(c, state) /\ IsRecord(state)
                       /\ state.pc \in {"idle", "route", "backlog", "build"}
      <4> DEFINE state == curator'[c]
      <4>1. Become(c, state)
        BY <2>3 DEF Become, StartNight, RouteSessions, RouteFails, LoadBacklog, AskFails,
                    SaveCursor, Kill, HalfInv, Shaped
      <4>2. IsRecord(state) /\ state.pc \in {"idle", "route", "backlog", "build"}
        <5>1. CASE StartNight(c)
          <6>1. CASE ToRoute = {}
            <7>1. state = [Resting EXCEPT !.pc = "backlog"]
              BY <2>1, <5>1, <6>1 DEF StartNight, Become, HalfInv, Shaped
            <7> HIDE DEF state
            <7> QED
              BY <7>1, EmptyHands
          <6>2. CASE ToRoute # {}
            <7>1. state = [Resting EXCEPT !.pc = "route", !.ids = ToRoute]
              BY <2>1, <5>1, <6>2 DEF StartNight, Become, HalfInv, Shaped
            <7> HIDE DEF state
            <7> QED
              BY <7>1, EmptyHands
          <6> QED
            BY <6>1, <6>2
        <5>2. CASE RouteSessions(c) \/ RouteFails(c)
          <6>1. state = [Resting EXCEPT !.pc = "backlog"]
            BY <2>1, <5>2 DEF RouteSessions, RouteFails, Become, HalfInv, Shaped
          <6> HIDE DEF state
          <6> QED
            BY <6>1, EmptyHands
        <5>3. CASE LoadBacklog(c)
          BY <2>1, <5>3, EmptyHands DEF LoadBacklog, Become, HalfInv, Shaped
        <5>4. CASE AskFails(c) \/ SaveCursor(c) \/ Kill(c)
          <6>1. state = Resting \/ state = NextItem(c)
            BY <2>1, <5>4 DEF AskFails, SaveCursor, Kill, Become, HalfInv, Shaped
          <6>2. IsRecord(Resting) /\ Resting.pc = "idle"
            BY EmptyHands
          <6>3. IsRecord(NextItem(c)) /\ NextItem(c).pc \in {"idle", "build"}
            BY EmptyHands
          <6> HIDE DEF state
          <6> QED
            BY <6>1, <6>2, <6>3
        <5> QED
          BY <2>3, <5>1, <5>2, <5>3, <5>4
      <4> QED
        BY <4>1, <4>2
    <3>2. page' = page /\ clock' \in Nat
      BY <2>2, <2>3 DEF StartNight, RouteSessions, RouteFails, LoadBacklog, AskFails, SaveCursor,
                        Kill, pageVars
    <3> QED
      BY <2>1, <3>1, <3>2, CuratorMoves
  <2>4. CASE Build(c)
    <3> DEFINE listed == Evidence(Item(c))
               q == [topic |-> Item(c).topic, base |-> Number(Item(c).topic), window |-> Texts(Window(listed))]
               asking == [curator[c] EXCEPT !.pc = "ask", !.listed = listed, !.request = q]
    <3>1. page' = page /\ clock' = clock
      BY <2>4 DEF Build, pageVars
    <3>2. CASE Become(c, Resting) \/ Become(c, NextItem(c))
      <4>1. IsRecord(Resting) /\ Resting.pc = "idle"
        BY EmptyHands
      <4>2. IsRecord(NextItem(c)) /\ NextItem(c).pc \in {"idle", "build"}
        BY EmptyHands
      <4>3. PICK state : /\ Become(c, state) /\ IsRecord(state)
                         /\ state.pc \in {"idle", "build"}
        BY <3>2, <4>1, <4>2
      <4> QED
        BY <2>1, <2>2, <3>1, <4>3, CuratorMoves
    <3>3. CASE Become(c, asking)
      <4>1. asking.pc = "ask" /\ asking.request = q /\ IsRecord(asking)
        BY <2>2 DEF IsRecord, Fields
      <4>2. curator'[c] = asking
        BY <2>1, <3>3 DEF Become, HalfInv, Shaped
      <4>3. q.topic \in Topics => q.base = Number(q.topic) /\ Number(q.topic) \in Nat
        BY DEF Number, HalfInv, Shaped
      <4> HIDE DEF asking
      <4>4. GuardedText(c)'
        BY <3>1, <4>1, <4>2, <4>3 DEF GuardedText, Number
      <4> QED
        BY <2>1, <2>2, <3>1, <3>3, <4>1, <4>4, CuratorMoves
    <3> QED
      BY <2>4, <3>2, <3>3 DEF Build
  <2>5. CASE Ask(c)
    <3> DEFINE passed == [curator[c] EXCEPT !.pc = "cursor"]
    <3>1. page' = page /\ clock' = clock /\ GuardedText(c)
      BY <2>1, <2>5 DEF Ask, pageVars, HalfInv, Guarded
    <3>2. CASE Become(c, passed)
      <4>1. IsRecord(passed) /\ passed.pc = "cursor"
        BY <2>2 DEF IsRecord, Fields
      <4> HIDE DEF passed
      <4> QED
        BY <2>1, <2>2, <3>1, <3>2, <4>1, CuratorMoves
    <3>3. ASSUME NEW q, q = curator[c].request, NEW size \in Sizes, NEW risk, risk = Risk(q.topic, q.base, size),
                 Become(c, [curator[c] EXCEPT !.pc = "store", !.patch = [size |-> size, risk |-> risk]])
          PROVE  HalfInv'
      <4> DEFINE patch  == [size |-> size, risk |-> risk]
                 storing == [curator[c] EXCEPT !.pc = "store", !.patch = patch]
      <4>1. IsRecord(storing) /\ storing.pc = "store" /\ storing.request = q /\ storing.patch = patch
        BY <2>2, <3>3 DEF IsRecord, Fields
      <4>2. curator'[c] = storing
        BY <2>1, <3>3 DEF Become, HalfInv, Shaped
      <4>3. patch.size = size /\ patch.risk = risk
        OBVIOUS
      <4>4. ASSUME q.topic \in Topics, risk = "low", q.base > 0
            PROVE  2 * size >= page[q.topic][q.base].size
        <5>1. q.base \in 1 .. Len(page[q.topic])
          BY <3>1, <3>3, <4>4 DEF GuardedText, Number, HalfInv, Shaped
        <5>2. page[q.topic][q.base] \in Version
          BY <4>4, <5>1 DEF HalfInv, Shaped
        <5>3. page[q.topic][q.base].size \in Nat /\ size \in Nat
          BY <5>2, PageAssumption DEF Version
        <5>4. ~ (2 * size < page[q.topic][q.base].size)
          BY <3>3, <4>4 DEF Risk
        <5> QED
          BY <5>3, <5>4
      <4> HIDE DEF storing, patch
      <4>5. GuardedText(c)'
        BY <3>1, <3>3, <4>1, <4>2, <4>3, <4>4 DEF GuardedText, Number
      <4> QED
        BY <2>1, <2>2, <3>1, <3>3, <4>1, <4>5, CuratorMoves DEF storing, patch
    <3> QED
      BY <2>5, <3>2, <3>3 DEF Ask
  <2>6. CASE StoreRun(c)
    <3> DEFINE applying == [curator[c] EXCEPT !.pc = "apply"]
    <3>1. page' = page /\ clock' = clock /\ GuardedText(c) /\ curator[c].pc = "store"
      BY <2>1, <2>6 DEF StoreRun, pageVars, HalfInv, Guarded
    <3>2. CASE Become(c, Resting)
      <4>1. IsRecord(Resting) /\ Resting.pc = "idle"
        BY EmptyHands
      <4> QED
        BY <2>1, <2>2, <3>1, <3>2, <4>1, CuratorMoves
    <3>3. CASE Become(c, applying)
      <4>1. /\ IsRecord(applying) /\ applying.pc = "apply"
            /\ applying.request = curator[c].request /\ applying.patch = curator[c].patch
        BY <2>2 DEF IsRecord, Fields
      <4>2. curator'[c] = applying
        BY <2>1, <3>3 DEF Become, HalfInv, Shaped
      <4> HIDE DEF applying
      <4>3. GuardedText(c)'
        BY <3>1, <4>1, <4>2 DEF GuardedText, Number
      <4> QED
        BY <2>1, <2>2, <3>1, <3>3, <4>1, <4>3, CuratorMoves
    <3> QED
      BY <2>6, <3>2, <3>3 DEF StoreRun
  <2> QED
    BY <1>2, <2>1, <2>3, <2>4, <2>5, <2>6, ApplyHalf DEF CuratorStep
<1> QED
  BY <1>1, <1>2 DEF CuratorNext

LEMMA NextHalf == HalfInv /\ [Next]_vars => HalfInv'
<1> SUFFICES ASSUME HalfInv, [Next]_vars PROVE HalfInv'
  OBVIOUS
<1>1. setting' = setting
  BY DEF Next, Curates, Automates, Writes, Runs, vars
<1>2. ASSUME UNCHANGED <<clock, page, curator>> PROVE HalfInv'
  BY <1>1, <1>2 DEF HalfInv, Shaped, Guarded, GuardedText, NeverHalved, Number
<1>3. CASE Curates
  BY <1>1, <1>3, CuratorHalf DEF Curates
<1>4. CASE Automates \/ UNCHANGED vars
  <2>1. curator' = curator
    BY <1>4 DEF Automates, vars, curatorVars
  <2>2. UNCHANGED pageVars
    BY <1>4 DEF Automates, vars, AutomationNext, Tick, StartByHand, Poll, Cycle, RemoteDue, MarkAttempt,
                RunRemote, LocalDue, StopRunner, Maintain, ListPages, WriteIndex, FindMentions,
                LinkMentions, Complete, MaintenanceFails
  <2> QED
    BY <1>2, <2>1, <2>2 DEF pageVars
<1>5. CASE Writes
  BY <1>5, AgentWriteHalf
<1> QED
  BY <1>3, <1>4, <1>5 DEF Next

(* What run_curator applies by itself never leaves a page with less than  *)
(* half of the text it had, whoever writes the page while it is asked.     *)
THEOREM NeverHalvedAlways == Spec => []NeverHalved
<1>1. HalfInv => NeverHalved
  BY DEF HalfInv
<1> QED
  BY InitHalf, NextHalf, <1>1, PTL DEF Spec
-----------------------------------------------------------------------------
(* THE CURSOR OF THE CURATOR *)

(* Nothing carries a time that is still to come. *)
Dated ==
  /\ setting \in Settings /\ clock \in Nat
  /\ page \in [Topics -> Seq(Version)] /\ \A p \in Topics : Updated(p) \in 0 .. clock
  /\ session \in [Sessions -> [text : Nat, moment : Nat]]
  /\ \A s \in Sessions : session[s].moment \in 0 .. clock
  /\ \A s \in Sessions : /\ topic[s].page \in Topics \cup {NoTopic, Unrouted}
                         /\ topic[s].created \in 0 .. clock
  /\ cursor \in [Topics -> 0 .. clock] /\ seen \cup missed \subseteq Sessions \X Nat

Listing == SUBSET (Sessions \X (0 .. clock) \X Nat)

(* A session of the topic that is not after what the request listed is     *)
(* accounted for, or is in the request.                                    *)
Passes(c) ==
  LET me == curator[c]
      p  == me.request.topic IN
  /\ p \in Topics
  /\ me.listed \in Listing
  /\ Spoken(me.listed) # {}
  /\ \A s \in Sessions \ setting.silent :
       Known(s) /\ Target(s) = p /\ Moment(s) <= Newest(me.listed) =>
         \/ AccountedFor(s, p)
         \/ me.pc \in {"ask", "store"} /\ Text(s) \in Texts(Spoken(me.listed))

(* What a curator holds is typed, its items are not newer than their pages *)
(* and its answer passes nothing over.                                     *)
Work(c) ==
  /\ curator[c] \in CuratorState
  /\ \A i \in 1 .. Len(curator[c].todo) :
       curator[c].todo[i].updated <= Updated(curator[c].todo[i].topic)
  /\ curator[c].pc \in {"build"} \cup Answering => curator[c].todo # <<>>
  /\ curator[c].pc \in Answering => Passes(c)

SeenInv ==
  /\ Dated /\ CursorPassesSeen
  /\ DOMAIN curator = Curators /\ \A c \in Curators : Work(c)
-----------------------------------------------------------------------------
(* MOMENTS AND TARGETS *)

(* A session is as new as its last text or its route. *)
LEMMA MomentFacts ==
  ASSUME Dated, NEW s \in Sessions
  PROVE  /\ Moment(s) \in 0 .. clock /\ Moment(s) >= session[s].moment
         /\ Moment(s) >= topic[s].created
         /\ TrueMoment(s) = Moment(s)
         /\ session[s].text \in Nat /\ Text(s) \in Sessions \X Nat
         /\ Target(s) \in Topics \cup {NoTopic}
<1>1. TrueMoment(s) = Moment(s)
  BY DEF TrueMoment, Moment
<1>2. session[s].moment \in 0 .. clock /\ session[s].text \in Nat
  BY DEF Dated
<1>3. clock \in Nat /\ topic[s].created \in 0 .. clock
  BY DEF Dated
<1>4. Moment(s) \in 0 .. clock /\ Moment(s) >= session[s].moment /\ Moment(s) >= topic[s].created
  BY <1>2, <1>3 DEF Moment, Larger
<1>5. Target(s) \in Topics \cup {NoTopic}
  BY SessionAssumption DEF Target, Dated
<1> QED BY <1>1, <1>2, <1>4, <1>5 DEF Text

(* The page of a topic has the date of its last version. *)
LEMMA UpdatedFacts ==
  ASSUME Dated, NEW p \in Topics
  PROVE  Updated(p) \in Nat /\ Updated(p) <= clock /\ Number(p) \in Nat
  BY DEF Dated, Number

(* The newest event of a list is in it. *)
LEMMA NewestFacts ==
  ASSUME Dated, NEW listed \in Listing, Spoken(listed) # {}
  PROVE  Newest(listed) \in 0 .. clock
<1> DEFINE S == {e[2] : e \in Spoken(listed)}
<1>1. S \subseteq 0 .. clock /\ S # {} /\ clock \in Nat
  BY DEF Spoken, Dated, Listing
<1>2. S \in SUBSET Nat /\ \A e \in S : e <= clock
  BY <1>1
<1>3. Max(S) \in S
  <2> HIDE DEF S
  <2> QED BY <1>1, <1>2, MaxOfNaturals
<1> QED BY <1>1, <1>3 DEF Newest
-----------------------------------------------------------------------------
(* WHAT OTHERS DO MEANWHILE *)

(* A session keeps what the store has of it, or it changes in a way that   *)
(* no cursor and no list is ahead of.                                      *)
Stays(s)  == /\ Known(s) /\ Target(s)' = Target(s) /\ Moment(s)' = Moment(s)
             /\ Text(s)' = Text(s)
Clears(s) == Target(s)' = Target(s) /\ ~ Behind(s, Moment(s)')

(* Time goes on: what comes in from now on is after everything there was,  *)
(* or behind no cursor and no list, or given up.                           *)
Onward ==
  /\ Dated' /\ setting' = setting /\ clock <= clock'
  /\ seen \cup missed \subseteq seen' \cup missed'
  /\ \A p \in Topics : Updated(p) <= Updated(p)'
  /\ \A s \in Sessions : Known(s)' =>
       \/ Moment(s)' > clock
       \/ Text(s)' \in missed'
       \/ Clears(s)
       \/ Stays(s)

(* What an item of the backlog consists of. *)
LEMMA ItemFacts ==
  ASSUME NEW todo \in Seq([topic : Topics, updated : Nat]), NEW i \in 1 .. Len(todo)
  PROVE  todo[i].topic \in Topics /\ todo[i].updated \in Nat
<1>1. PICK T : T = [topic : Topics, updated : Nat]
  OBVIOUS
<1>2. todo \in Seq(T)
  BY <1>1
<1>3. todo[i] \in T
  BY ONLY <1>2, i \in 1 .. Len(todo)
<1> QED BY <1>1, <1>3

(* What is accounted for stays so. *)
LEMMA StaysAccounted ==
  ASSUME Dated, Onward, NEW s \in Sessions, NEW p \in Topics, Stays(s), AccountedFor(s, p)
  PROVE  AccountedFor(s, p)'
<1>1. Text(s) \in seen \cup missed => Text(s)' \in seen' \cup missed'
  BY DEF Stays, Onward
<1>2. ASSUME TrueMoment(s) <= Updated(p) PROVE TrueMoment(s)' <= Updated(p)'
  <2>1. PICK m, u, v : m = Moment(s) /\ u = Updated(p) /\ v = Updated(p)'
    OBVIOUS
  <2>2. m \in Nat /\ u \in Nat /\ v \in Nat /\ u <= v
    <3>1. m \in 0 .. clock /\ clock \in Nat
      BY <2>1, MomentFacts DEF Dated
    <3> QED BY <2>1, <3>1 DEF Onward, Dated
  <2>3. TrueMoment(s) = m /\ TrueMoment(s)' = m
    BY <2>1 DEF TrueMoment, Moment, Stays
  <2>4. m <= v
    BY <1>2, <2>1, <2>2, <2>3
  <2> QED BY <2>1, <2>3, <2>4
<1> QED BY <1>1, <1>2 DEF AccountedFor

LEMMA NextMoment ==
  ASSUME Onward, NEW s \in Sessions
  PROVE  Moment(s)' \in Nat
<1>1. session'[s].moment \in Nat /\ topic'[s].created \in Nat
  BY DEF Onward, Dated
<1> QED BY <1>1 DEF Moment, Larger

(* A curator that keeps what it asked for passes nothing over, also when   *)
(* its answer is kept and accounts for what it listed.                     *)
LEMMA KeepsWork ==
  ASSUME Dated, Onward, NEW d \in Curators, Work(d), NEW you, curator'[d] = you, you \in CuratorState,
         you.todo = curator[d].todo, you.request = curator[d].request, you.listed = curator[d].listed,
         \/ you.pc = curator[d].pc
         \/ curator[d].pc \in Answering /\ you.pc \in Answering,
         curator[d].pc \in {"ask", "store"} =>
           you.pc \in {"ask", "store"} \/ Texts(Spoken(curator[d].listed)) \subseteq seen' \cup missed'
  PROVE  Work(d)'
<1>1. PICK me : me = curator[d]
  OBVIOUS
<1>2. me \in CuratorState /\ you.todo = me.todo
  BY <1>1 DEF Work
<1>3. \A i \in 1 .. Len(me.todo) : me.todo[i].updated <= Updated(me.todo[i].topic)'
  <2> SUFFICES ASSUME NEW i \in 1 .. Len(me.todo)
               PROVE  me.todo[i].updated <= Updated(me.todo[i].topic)'
    OBVIOUS
  <2>1. me.todo \in Seq([topic : Topics, updated : Nat])
    BY <1>2 DEF CuratorState
  <2>2. PICK p, u : p = me.todo[i].topic /\ u = me.todo[i].updated
    OBVIOUS
  <2>3. p \in Topics /\ u \in Nat
    BY <2>1, <2>2, ItemFacts
  <2>4. u <= Updated(p) /\ Updated(p) \in Nat /\ Updated(p)' \in Nat /\ Updated(p) <= Updated(p)'
    BY <1>1, <2>2, <2>3 DEF Work, Onward, Dated
  <2>5. u <= Updated(p)'
    BY <2>3, <2>4
  <2> QED BY <2>2, <2>5
<1>4. you.pc \in {"build"} \cup Answering => me.todo # <<>>
  BY <1>1 DEF Work
<1>5. ASSUME you.pc \in Answering PROVE Passes(d)'
  <2>1. PICK p, listed : p = me.request.topic /\ listed = me.listed
    OBVIOUS
  <2>2. me.pc \in Answering /\ Passes(d)
    BY <1>1, <1>5 DEF Work
  <2>3. p \in Topics /\ listed \in Listing /\ Spoken(listed) # {}
    BY <1>1, <2>1, <2>2 DEF Passes
  <2>4. clock \in Nat /\ clock' \in Nat /\ clock <= clock'
    BY DEF Onward, Dated
  <2>5. listed \in Listing'
    BY <2>3, <2>4 DEF Listing
  <2>6. Spoken(listed)' = Spoken(listed) /\ Newest(listed)' = Newest(listed)
        /\ Texts(Spoken(listed))' = Texts(Spoken(listed))
    BY DEF Spoken, Newest, Onward, Texts
  <2>7. Newest(listed) \in 0 .. clock
    BY <2>3, NewestFacts
  <2>8. ASSUME NEW s \in Sessions \ setting.silent,
               Known(s)', Target(s)' = p, Moment(s)' <= Newest(listed)
        PROVE  \/ AccountedFor(s, p)'
               \/ you.pc \in {"ask", "store"} /\ Text(s)' \in Texts(Spoken(listed))
    <3>1. Moment(s)' \in Nat
      BY <2>8, NextMoment
    <3>2. ~ (Moment(s)' > clock)
      BY <2>4, <2>7, <2>8, <3>1
    <3>3. ~ Clears(s)
      <4>1. Target(s)' = Target(s) => Behind(s, Moment(s)')
        BY <1>1, <2>1, <2>2, <2>8 DEF Behind
      <4> QED BY <4>1 DEF Clears
    <3>4. CASE Text(s)' \in missed'
      BY <3>4 DEF AccountedFor
    <3>5. CASE Stays(s)
      <4>1. \/ AccountedFor(s, p)
            \/ me.pc \in {"ask", "store"} /\ Text(s) \in Texts(Spoken(listed))
        BY <1>1, <2>1, <2>2, <2>8, <3>5 DEF Passes, Stays
      <4>2. CASE AccountedFor(s, p)
        BY <2>3, <2>8, <3>5, <4>2, StaysAccounted
      <4>3. CASE me.pc \in {"ask", "store"} /\ Text(s) \in Texts(Spoken(listed))
                 /\ you.pc \notin {"ask", "store"}
        <5>1. Text(s)' \in seen' \cup missed'
          BY <1>1, <2>1, <3>5, <4>3 DEF Stays
        <5> QED BY <5>1 DEF AccountedFor
      <4> QED BY <3>5, <4>1, <4>2, <4>3 DEF Stays
    <3> QED BY <2>8, <3>2, <3>3, <3>4, <3>5 DEF Onward
  <2>9. you.request.topic = p /\ you.listed = listed
    BY <1>1, <2>1
  <2> QED BY <2>3, <2>5, <2>6, <2>8, <2>9 DEF Passes, Onward
<1> QED BY <1>2, <1>3, <1>4, <1>5 DEF Work

(* A cursor that stays passes nothing new. *)
LEMMA KeepsSeen ==
  ASSUME Dated, Onward, CursorPassesSeen, cursor' = cursor
  PROVE  CursorPassesSeen'
<1> SUFFICES ASSUME NEW s \in Sessions \ setting.silent, NEW p \in Topics,
                    Known(s)', Target(s)' = p, TrueMoment(s)' <= cursor[p]
             PROVE  AccountedFor(s, p)'
  BY DEF CursorPassesSeen, Onward
<1>1. clock \in Nat /\ clock' \in Nat /\ clock <= clock' /\ cursor[p] \in 0 .. clock
  BY DEF Onward, Dated
<1>2. TrueMoment(s)' = Moment(s)' /\ TrueMoment(s) = Moment(s)
  BY DEF TrueMoment, Moment
<1>3. Moment(s)' \in Nat
  BY NextMoment
<1>4. ~ (Moment(s)' > clock)
  BY <1>1, <1>2, <1>3
<1>5. ~ Clears(s)
  BY <1>2 DEF Clears, Behind
<1>6. CASE Text(s)' \in missed'
  BY <1>6 DEF AccountedFor
<1>7. CASE Stays(s)
  <2>1. AccountedFor(s, p)
    BY <1>2, <1>7 DEF CursorPassesSeen, Stays
  <2> QED BY <1>7, <2>1, StaysAccounted
<1> QED BY <1>4, <1>5, <1>6, <1>7 DEF Onward
-----------------------------------------------------------------------------
(* THE BACKLOG *)

(* Topics are in order: most new sessions first, then by name. *)
LEMMA AheadOrders ==
  ASSUME NEW S \in SUBSET Topics
  PROVE  Sorts({d \in S \X S : Ahead(d[1], d[2])}, S)
<1> DEFINE L == {d \in S \X S : Ahead(d[1], d[2])}
           n(p) == Cardinality(NewSessions(p))
<1>1. \A p \in S : n(p) \in Nat /\ p \in Nat
  <2> SUFFICES ASSUME NEW p \in S PROVE n(p) \in Nat /\ p \in Nat
    OBVIOUS
  <2>1. NewSessions(p) \subseteq Sessions
    BY DEF NewSessions, Covered
  <2>2. IsFiniteSet(NewSessions(p))
    BY <2>1, SessionAssumption, FS_Subset
  <2> QED BY <2>2, FS_CardinalityType, PageAssumption
<1>2. \A p, q \in S : <<p, q>> \in L <=> n(p) > n(q) \/ (n(p) = n(q) /\ p < q)
  BY DEF Ahead
<1> HIDE DEF L, n
<1> QED BY <1>1, <1>2 DEF Sorts, L

(* The backlog lists topics with the date their page has. *)
LEMMA BacklogFacts ==
  ASSUME Dated
  PROVE  /\ Backlog \in Seq([topic : Topics, updated : Nat])
         /\ \A i \in 1 .. Len(Backlog) : Backlog[i].updated = Updated(Backlog[i].topic)
<1> DEFINE all == {p \in Topics : NewSessions(p) # {}}
           L == {d \in all \X all : Ahead(d[1], d[2])}
           n == Min({MaxProjects, Cardinality(all)})
           chosen(k) == CHOOSE x \in all : Cardinality({y \in all : Ahead(y, x)}) = k - 1
           item(k) == [topic |-> chosen(k), updated |-> Updated(chosen(k))]
<1>1. all \in SUBSET Topics /\ IsFiniteSet(all) /\ Cardinality(all) \in Nat
  BY PageAssumption, FS_Subset, FS_CardinalityType
<1>2. n \in Nat /\ n <= Cardinality(all)
  <2>1. MaxProjects \in Nat
    BY SessionAssumption
  <2> HIDE DEF all
  <2> QED BY <1>1, <2>1, MinOfTwo
<1>3. ASSUME NEW k \in 1 .. n PROVE chosen(k) \in all
  <2>1. \A x \in all : Below(L, all, x) = {y \in all : Ahead(y, x)}
    BY DEF Below
  <2>2. Sorts(L, all)
    BY <1>1, AheadOrders
  <2>3. k \in 1 .. Cardinality(all)
    BY <1>1, <1>2
  <2> HIDE DEF L, all, n
  <2>4. \E x \in all : Cardinality(Below(L, all, x)) = k - 1
    BY <1>1, <2>2, <2>3, RankInOrder
  <2>5. \E x \in all : Cardinality({y \in all : Ahead(y, x)}) = k - 1
    BY <2>1, <2>4
  <2> QED BY <2>5
<1>4. Backlog = [k \in 1 .. n |-> item(k)]
  BY DEF Backlog
<1> HIDE DEF n, chosen
<1>5. \A k \in 1 .. n : item(k) \in [topic : Topics, updated : Nat]
  BY <1>1, <1>3, UpdatedFacts
<1> HIDE DEF all
<1>6. Backlog \in Seq([topic : Topics, updated : Nat]) /\ Len(Backlog) = n
  BY <1>2, <1>4, <1>5
<1> QED BY <1>4, <1>6
-----------------------------------------------------------------------------
(* STEPS OF ONE CURATOR *)

(* One curator moves, or none, and the cursor stays. *)
LEMMA OneMoves ==
  ASSUME SeenInv, Onward, cursor' = cursor, NEW c \in Curators, NEW state, Become(c, state), Work(c)'
  PROVE  SeenInv'
<1>1. Dated /\ Dated' /\ CursorPassesSeen'
  BY KeepsSeen DEF SeenInv, Onward
<1>2. DOMAIN curator' = Curators /\ \A d \in Curators \ {c} : curator'[d] = curator[d]
  BY DEF SeenInv, Become
<1>3. \A d \in Curators \ {c} : Work(d)'
  BY <1>1, <1>2, KeepsWork DEF SeenInv, Work
<1> QED BY <1>1, <1>2, <1>3 DEF SeenInv

LEMMA NoneMoves ==
  ASSUME SeenInv, Onward, cursor' = cursor, curator' = curator
  PROVE  SeenInv'
<1>1. Dated /\ Dated' /\ CursorPassesSeen'
  BY KeepsSeen DEF SeenInv, Onward
<1>2. \A d \in Curators : Work(d)'
  BY <1>1, KeepsWork DEF SeenInv, Work
<1> QED BY <1>1, <1>2 DEF SeenInv

(* Nothing happens to the store but that a cursor moves and more is seen. *)
LEMMA StoreStays ==
  ASSUME Dated, UNCHANGED <<setting, clock, page, session, topic>>,
         cursor' \in [Topics -> 0 .. clock],
         seen \cup missed \subseteq seen' \cup missed', seen' \cup missed' \subseteq Sessions \X Nat
  PROVE  Onward
<1>1. \A p \in Topics : Updated(p)' = Updated(p)
  BY DEF Updated, Exists
<1>2. Dated'
  BY <1>1 DEF Dated
<1>3. \A s \in Sessions : Known(s)' = Known(s) /\ Target(s)' = Target(s) /\ Moment(s)' = Moment(s)
                          /\ Text(s)' = Text(s)
  BY DEF Known, Target, Moment, Text
<1>4. \A p \in Topics : Updated(p) <= Updated(p)'
  BY <1>1, UpdatedFacts
<1>5. clock \in Nat
  BY DEF Dated
<1> QED BY <1>2, <1>3, <1>4, <1>5 DEF Onward, Stays

(* Nothing happens to the store, nor to what was accounted for. *)
LEMMA NothingHappens ==
  ASSUME Dated, UNCHANGED <<setting, clock, page, session, topic, cursor, seen, missed>>
  PROVE  Onward
<1>1. cursor' \in [Topics -> 0 .. clock] /\ seen' \cup missed' \subseteq Sessions \X Nat
  BY DEF Dated
<1> QED BY <1>1, StoreStays

(* States without an answer. *)
Unanswered(state) ==
  /\ state \in CuratorState /\ state.pc \notin Answering
  /\ state.pc = "build" => state.todo # <<>>
  /\ \A i \in 1 .. Len(state.todo) : state.todo[i].updated <= Updated(state.todo[i].topic)

LEMMA UnansweredWorks ==
  ASSUME Dated, Onward, NEW c \in Curators, NEW state, Unanswered(state), curator'[c] = state
  PROVE  Work(c)'
<1>1. state.todo \in Seq([topic : Topics, updated : Nat])
  BY DEF Unanswered, CuratorState
<1>2. \A i \in 1 .. Len(state.todo) : state.todo[i].updated <= Updated(state.todo[i].topic)'
  <2> SUFFICES ASSUME NEW i \in 1 .. Len(state.todo)
               PROVE  state.todo[i].updated <= Updated(state.todo[i].topic)'
    OBVIOUS
  <2>1. PICK p, u : p = state.todo[i].topic /\ u = state.todo[i].updated
    OBVIOUS
  <2>2. p \in Topics /\ u \in Nat
    BY <1>1, <2>1, ItemFacts
  <2>3. u <= Updated(p) /\ Updated(p) \in Nat /\ Updated(p)' \in Nat /\ Updated(p) <= Updated(p)'
    BY <2>1, <2>2 DEF Unanswered, Onward, Dated
  <2>4. u <= Updated(p)'
    BY <2>2, <2>3
  <2> QED BY <2>1, <2>4
<1> QED BY <1>2 DEF Unanswered, Work, Answering

LEMMA RestingFacts == Resting \in CuratorState /\ Resting.todo = <<>> /\ Resting.pc = "idle"
  BY DEF Resting, CuratorState, NoRequest, Request, NoPatch

(* States in which nothing is listed. *)
LEMMA FreshStates ==
  /\ Unanswered(Resting)
  /\ Unanswered([Resting EXCEPT !.pc = "backlog"])
  /\ Unanswered([Resting EXCEPT !.pc = "route", !.ids = ToRoute])
<1> DEFINE a == [Resting EXCEPT !.pc = "backlog"]
           b == [Resting EXCEPT !.pc = "route", !.ids = ToRoute]
<1>1. a \in CuratorState /\ a.todo = <<>> /\ a.pc = "backlog"
  BY RestingFacts DEF CuratorState
<1>2. ToRoute \in SUBSET Sessions
  BY DEF ToRoute, Waiting
<1> HIDE DEF a
<1>3. b \in CuratorState /\ b.todo = <<>> /\ b.pc = "route"
  <2> HIDE DEF ToRoute
  <2> QED BY <1>2, RestingFacts DEF CuratorState
<1> HIDE DEF b
<1> QED BY <1>1, <1>3, RestingFacts DEF Unanswered, Answering, a, b

(* The rest of the backlog. *)
LEMMA BuildingStates ==
  ASSUME NEW todo \in Seq([topic : Topics, updated : Nat]), todo # <<>>,
         \A i \in 1 .. Len(todo) : todo[i].updated <= Updated(todo[i].topic)
  PROVE  Unanswered([Resting EXCEPT !.pc = "build", !.todo = todo])
<1> DEFINE a == [Resting EXCEPT !.pc = "build", !.todo = todo]
<1>1. a \in CuratorState /\ a.todo = todo /\ a.pc = "build"
  BY RestingFacts DEF CuratorState
<1> HIDE DEF a
<1> QED BY <1>1 DEF Unanswered, Answering, a

LEMMA NextItemFacts ==
  ASSUME NEW c \in Curators, Work(c), curator[c].todo # <<>>
  PROVE  Unanswered(NextItem(c))
<1>1. PICK todo : todo = curator[c].todo
  OBVIOUS
<1>2. todo \in Seq([topic : Topics, updated : Nat]) /\ todo # <<>>
  BY <1>1 DEF Work, CuratorState
<1>3. CASE Len(todo) = 1
  BY <1>1, <1>3, FreshStates DEF NextItem
<1>4. CASE Len(todo) # 1
  <2>1. PICK rest : rest = Tail(todo)
    OBVIOUS
  <2>2. /\ rest \in Seq([topic : Topics, updated : Nat]) /\ rest # <<>>
        /\ \A i \in 1 .. Len(rest) : i + 1 \in 1 .. Len(todo) /\ rest[i] = todo[i + 1]
    <3>1. PICK T : T = [topic : Topics, updated : Nat]
      OBVIOUS
    <3>2. todo \in Seq(T) /\ todo # <<>> /\ Len(todo) # 1
      BY <1>2, <1>4, <3>1
    <3>3. Len(todo) \in Nat /\ Len(todo) >= 2
      <4>1. PICK n : n = Len(todo)
        OBVIOUS
      <4>2. n \in Nat \ {0} /\ n # 1
        BY ONLY <3>2, <4>1, EmptySeq
      <4>3. n >= 2
        BY ONLY <4>2
      <4> QED BY <4>1, <4>2, <4>3
    <3>4. rest \in Seq(T) /\ Len(rest) = Len(todo) - 1
      BY ONLY <2>1, <3>2
    <3>5. rest # <<>>
      BY ONLY <3>3, <3>4
    <3>6. ASSUME NEW i \in 1 .. Len(rest) PROVE i + 1 \in 1 .. Len(todo) /\ rest[i] = todo[i + 1]
      BY ONLY <2>1, <3>2, <3>3, <3>4, <3>6
    <3> QED BY <3>1, <3>4, <3>5, <3>6
  <2>3. \A i \in 1 .. Len(rest) : rest[i].updated <= Updated(rest[i].topic)
    BY <1>1, <2>2 DEF Work
  <2>4. NextItem(c) = [Resting EXCEPT !.pc = "build", !.todo = rest]
    BY <1>1, <1>4, <2>1 DEF NextItem
  <2> QED BY <2>2, <2>3, <2>4, BuildingStates
<1> QED BY <1>3, <1>4
-----------------------------------------------------------------------------
(* STEPS THAT CHANGE THE STORE *)

(* A text comes in now, or late: then it is behind no cursor and no list,  *)
(* or given up.                                                            *)
LEMMA UpdateOnward ==
  ASSUME Dated, NEW r \in Sessions, Update(r), setting' = setting
  PROVE  Onward
<1>1. PICK t \in 1 .. clock + 1 :
        /\ session' = [session EXCEPT ![r] = [text |-> @.text + 1, moment |-> t]]
        /\ clock' = Larger(clock, t)
        /\ missed' = IF Behind(r, Larger(t, topic[r].created))
                     THEN missed \cup {<<r, session[r].text + 1>>} ELSE missed
  BY DEF Update
<1>2. clock \in Nat /\ clock' \in Nat /\ clock <= clock' /\ t \in 0 .. clock'
      /\ 0 .. clock \subseteq 0 .. clock'
  BY <1>1 DEF Dated, Larger
<1>3. UNCHANGED <<page, topic, cursor, seen>>
  BY DEF Update
<1>4. \A p \in Topics : Updated(p)' = Updated(p)
  BY <1>3 DEF Updated, Exists
<1>5. \A s \in Sessions \ {r} : session'[s] = session[s]
  BY <1>1 DEF Dated
<1>6. session[r].text \in Nat
  BY DEF Dated
<1>7. session'[r] = [text |-> session[r].text + 1, moment |-> t]
  BY <1>1 DEF Dated
<1>8. Text(r)' = <<r, session[r].text + 1>> /\ Moment(r)' = Larger(t, topic[r].created)
  BY <1>3, <1>7 DEF Text, Moment
<1>9. session' \in [Sessions -> [text : Nat, moment : Nat]]
  BY <1>1, <1>2, <1>6 DEF Dated
<1>10. ASSUME NEW s \in Sessions PROVE session'[s].moment \in 0 .. clock'
  <2>1. session[s].moment \in 0 .. clock
    BY DEF Dated
  <2>2. session'[r].moment = t
    BY <1>7
  <2> QED BY <1>2, <1>5, <2>1, <2>2
<1>11. seen' \cup missed' \subseteq Sessions \X Nat /\ seen \cup missed \subseteq seen' \cup missed'
  BY <1>1, <1>3, <1>6 DEF Dated
<1>12. Dated'
  <2>1. cursor' \in [Topics -> 0 .. clock']
    BY <1>2, <1>3 DEF Dated
  <2>2. \A s \in Sessions : /\ topic'[s].page \in Topics \cup {NoTopic, Unrouted}
                            /\ topic'[s].created \in 0 .. clock'
    BY <1>2, <1>3 DEF Dated
  <2>3. page' \in [Topics -> Seq(Version)] /\ \A p \in Topics : Updated(p)' \in 0 .. clock'
    BY <1>2, <1>3, <1>4 DEF Dated
  <2>4. setting' \in Settings /\ clock' \in Nat
    BY <1>2 DEF Dated
  <2> QED BY <1>9, <1>10, <1>11, <2>1, <2>2, <2>3, <2>4 DEF Dated
<1>13. ASSUME NEW s \in Sessions, Known(s)'
       PROVE  Text(s)' \in missed' \/ Clears(s) \/ Stays(s)
  <2>1. Target(s)' = Target(s)
    BY <1>3 DEF Target
  <2>2. CASE s = r
    <3>1. CASE Behind(r, Moment(r)')
      BY <1>1, <1>8, <2>2, <3>1
    <3>2. CASE ~ Behind(r, Moment(r)')
      BY <2>1, <2>2, <3>2 DEF Clears
    <3> QED BY <3>1, <3>2
  <2>3. CASE s # r
    BY <1>3, <1>5, <1>13, <2>1, <2>3 DEF Stays, Known, Moment, Text
  <2> QED BY <2>2, <2>3
<1> QED
  <2>1. \A p \in Topics : Updated(p) <= Updated(p)'
    BY <1>4, UpdatedFacts
  <2> QED BY <1>2, <1>11, <1>12, <1>13, <2>1 DEF Onward

(* A page that is written becomes newer than everything. *)
LEMMA WriteOnward ==
  ASSUME Dated, Shaped, NEW p \in Topics, NEW size \in Sizes, NEW by \in {"agent", "local-curator"},
         WritePage(p, size, by), UNCHANGED <<setting, session, topic, cursor, seen, missed>>
  PROVE  Onward
<1>1. clock \in Nat /\ clock' = clock + 1 /\ 0 .. clock \subseteq 0 .. clock'
  BY DEF WritePage, Dated
<1>2. page' \in [Topics -> Seq(Version)] /\ \A q \in Topics \ {p} : page'[q] = page[q]
  BY WriteAdds
<1>3. Updated(p)' = clock + 1
  <2> DEFINE v == [size |-> size, by |-> by, updated |-> clock + 1]
  <2>1. page'[p] = Append(page[p], v) /\ page[p] \in Seq(Version)
    BY DEF WritePage, Dated
  <2>2. v.updated = clock + 1 /\ v \in Version
    BY <1>1 DEF Version
  <2> HIDE DEF v
  <2>3. page'[p][Len(page[p]) + 1] = v /\ Len(page'[p]) = Len(page[p]) + 1
        /\ page'[p] \in Seq(Version)
    BY <2>1, <2>2
  <2>4. page'[p] # <<>>
    BY <2>1, <2>3, EmptySeq
  <2>5. Last(page'[p]) = v
    BY <2>3 DEF Last
  <2> QED BY <2>2, <2>4, <2>5 DEF Updated, Exists
<1>4. \A q \in Topics \ {p} : Updated(q)' = Updated(q)
  BY <1>2 DEF Updated, Exists
<1>5. \A q \in Topics : Updated(q)' \in 0 .. clock' /\ Updated(q) <= Updated(q)'
  BY <1>1, <1>3, <1>4, UpdatedFacts
<1>6. Dated'
  <2>1. setting' \in Settings /\ clock' \in Nat
    BY <1>1 DEF Dated
  <2>2. /\ session' \in [Sessions -> [text : Nat, moment : Nat]]
        /\ \A s \in Sessions : session'[s].moment \in 0 .. clock'
    BY <1>1 DEF Dated
  <2>3. \A s \in Sessions : /\ topic'[s].page \in Topics \cup {NoTopic, Unrouted}
                            /\ topic'[s].created \in 0 .. clock'
    BY <1>1 DEF Dated
  <2>4. cursor' \in [Topics -> 0 .. clock'] /\ seen' \cup missed' \subseteq Sessions \X Nat
    BY <1>1 DEF Dated
  <2> QED BY <1>2, <1>5, <2>1, <2>2, <2>3, <2>4 DEF Dated
<1>7. \A s \in Sessions : Known(s)' = Known(s) /\ Target(s)' = Target(s) /\ Moment(s)' = Moment(s)
                          /\ Text(s)' = Text(s)
  BY DEF Known, Target, Moment, Text
<1> QED BY <1>1, <1>5, <1>6, <1>7 DEF Onward, Stays

(* A session that is routed becomes newer than everything. *)
LEMMA RouteOnward ==
  ASSUME Dated, NEW c \in Curators, RouteSessions(c), setting' = setting
  PROVE  Onward
<1>1. PICK routes \in Routes(curator[c].ids) :
        LET new == {s \in Sessions : Routed(routes, s)} IN
          /\ topic' = [s \in Sessions |-> IF s \in new
                                          THEN [page |-> routes[s], created |-> clock + 1]
                                          ELSE topic[s]]
          /\ clock' = IF new = {} THEN clock ELSE clock + 1
  BY DEF RouteSessions
<1>2. clock \in Nat /\ clock' \in Nat /\ clock <= clock' /\ 0 .. clock \subseteq 0 .. clock'
  BY <1>1 DEF Dated
<1>3. UNCHANGED <<page, session, cursor, seen, missed>>
  BY DEF RouteSessions
<1>4. ASSUME NEW s \in Sessions, Routed(routes, s)
      PROVE  /\ topic'[s].page \in Topics \cup {NoTopic} /\ topic'[s].created = clock + 1
             /\ clock' = clock + 1
  <2>1. routes[s] \in Topics \cup {NoTopic}
    BY <1>4 DEF Routes, Routed
  <2>2. clock' = clock + 1
    BY <1>1, <1>4
  <2>3. topic'[s] = [page |-> routes[s], created |-> clock + 1]
    BY <1>1, <1>4
  <2> QED BY <2>1, <2>2, <2>3
<1>5. ASSUME NEW s \in Sessions, ~ Routed(routes, s) PROVE topic'[s] = topic[s]
  BY <1>1, <1>5
<1>6. \A p \in Topics : Updated(p)' = Updated(p)
  BY <1>3 DEF Updated, Exists
<1>7. \A s \in Sessions : topic'[s].created \in 0 .. clock' /\ topic'[s].page \in Topics \cup {NoTopic, Unrouted}
  <2> SUFFICES ASSUME NEW s \in Sessions
               PROVE  topic'[s].created \in 0 .. clock' /\ topic'[s].page \in Topics \cup {NoTopic, Unrouted}
    OBVIOUS
  <2>1. CASE Routed(routes, s)
    BY <1>2, <1>4, <2>1
  <2>2. CASE ~ Routed(routes, s)
    BY <1>2, <1>5, <2>2 DEF Dated
  <2> QED BY <2>1, <2>2
<1>8. Dated'
  <2>1. setting' \in Settings /\ clock' \in Nat
    BY <1>2 DEF Dated
  <2>2. /\ session' \in [Sessions -> [text : Nat, moment : Nat]]
        /\ \A s \in Sessions : session'[s].moment \in 0 .. clock'
    BY <1>2, <1>3 DEF Dated
  <2>3. page' \in [Topics -> Seq(Version)] /\ \A p \in Topics : Updated(p)' \in 0 .. clock'
    BY <1>2, <1>3, <1>6 DEF Dated
  <2>4. cursor' \in [Topics -> 0 .. clock'] /\ seen' \cup missed' \subseteq Sessions \X Nat
    BY <1>2, <1>3 DEF Dated
  <2> QED BY <1>7, <2>1, <2>2, <2>3, <2>4 DEF Dated
<1>9. ASSUME NEW s \in Sessions, Known(s)' PROVE Moment(s)' > clock \/ Stays(s)
  <2>1. Known(s) /\ session[s].moment \in 0 .. clock /\ session'[s] = session[s]
    BY <1>3, <1>9 DEF Known, Dated
  <2>2. CASE Routed(routes, s)
    <3>1. Moment(s)' = clock + 1
      BY <1>2, <1>4, <2>1, <2>2 DEF Moment, Larger
    <3> QED BY <1>2, <3>1
  <2>3. CASE ~ Routed(routes, s)
    BY <1>5, <2>1, <2>3 DEF Stays, Target, Moment, Text
  <2> QED BY <2>2, <2>3
<1> QED
  <2>1. \A p \in Topics : Updated(p) <= Updated(p)'
    BY <1>6, UpdatedFacts
  <2> QED BY <1>2, <1>3, <1>8, <1>9, <2>1 DEF Onward
-----------------------------------------------------------------------------
(* THE CURATOR'S STEPS *)

LEMMA MovedTo ==
  ASSUME SeenInv, NEW c \in Curators, NEW state, Become(c, state)
  PROVE  curator'[c] = state
  BY DEF SeenInv, Become

(* One curator moves to a state without an answer. *)
LEMMA MovesFree ==
  ASSUME SeenInv, Onward, cursor' = cursor, NEW c \in Curators, NEW state, Become(c, state),
         Unanswered(state)
  PROVE  SeenInv'
<1>1. Work(c)'
  BY MovedTo, UnansweredWorks DEF SeenInv
<1> QED BY <1>1, OneMoves

(* Routing, the backlog, and every end of an answer but a saved cursor. *)
LEMMA FreeSteps ==
  ASSUME SeenInv, setting' = setting, NEW c \in Curators,
         \/ StartNight(c) \/ RouteSessions(c) \/ RouteFails(c) \/ LoadBacklog(c)
         \/ AskFails(c) \/ Kill(c)
  PROVE  SeenInv'
<1>1. cursor' = cursor
  BY DEF StartNight, RouteSessions, RouteFails, LoadBacklog, AskFails, Kill
<1>2. Dated /\ Work(c)
  BY DEF SeenInv
<1>3. Onward
  <2>1. CASE RouteSessions(c)
    BY <1>2, <2>1, RouteOnward
  <2>2. CASE ~ RouteSessions(c)
    <3>1. UNCHANGED <<setting, clock, page, session, topic, cursor, seen, missed>>
      BY <2>2 DEF StartNight, RouteFails, LoadBacklog, AskFails, Kill, pageVars
    <3> QED BY <1>2, <3>1, NothingHappens
  <2> QED BY <2>1, <2>2
<1>4. \E state : Become(c, state) /\ Unanswered(state)
  <2>1. CASE StartNight(c)
    BY <2>1, FreshStates DEF StartNight
  <2>2. CASE RouteSessions(c) \/ RouteFails(c)
    BY <2>2, FreshStates DEF RouteSessions, RouteFails
  <2>3. CASE LoadBacklog(c)
    <3>1. CASE Backlog = <<>>
      BY <2>3, <3>1, FreshStates DEF LoadBacklog
    <3>2. CASE Backlog # <<>>
      <4>1. PICK todo : todo = Backlog
        OBVIOUS
      <4>2. todo \in Seq([topic : Topics, updated : Nat])
        BY <1>2, <4>1, BacklogFacts
      <4>3. \A i \in 1 .. Len(todo) : todo[i].updated <= Updated(todo[i].topic)
        <5> SUFFICES ASSUME NEW i \in 1 .. Len(todo)
                     PROVE  todo[i].updated <= Updated(todo[i].topic)
          OBVIOUS
        <5>1. PICK p, u : p = todo[i].topic /\ u = todo[i].updated
          OBVIOUS
        <5>2. p \in Topics /\ u \in Nat
          BY <4>2, <5>1, ItemFacts
        <5>3. u = Updated(p)
          BY <1>2, <4>1, <5>1, BacklogFacts
        <5>4. u <= Updated(p)
          BY <5>2, <5>3
        <5> QED BY <5>1, <5>4
      <4>4. Unanswered([Resting EXCEPT !.pc = "build", !.todo = todo])
        BY <3>2, <4>1, <4>2, <4>3, BuildingStates
      <4> QED BY <2>3, <3>2, <4>1, <4>4 DEF LoadBacklog
    <3> QED BY <3>1, <3>2
  <2>4. CASE AskFails(c)
    <3>1. curator[c].todo # <<>>
      BY <1>2, <2>4 DEF AskFails, Work, Answering
    <3>2. Unanswered(NextItem(c))
      BY <1>2, <3>1, NextItemFacts
    <3> QED BY <2>4, <3>2 DEF AskFails
  <2>5. CASE Kill(c)
    BY <2>5, FreshStates DEF Kill
  <2> QED BY <2>1, <2>2, <2>3, <2>4, <2>5
<1> QED BY <1>1, <1>3, <1>4, MovesFree

(* A request lists what is after the cursor and after the page; what is    *)
(* not was dealt with or is older than the page.                           *)
LEMMA BuildSeen ==
  ASSUME SeenInv, setting' = setting, NEW c \in Curators, Build(c)
  PROVE  SeenInv'
<1>1. Dated /\ Work(c) /\ CursorPassesSeen /\ cursor' = cursor
  BY DEF SeenInv, Build
<1>2. Onward
  BY <1>1, NothingHappens DEF Build, pageVars
<1>3. PICK me : me = curator[c] /\ me \in CuratorState
  BY <1>1 DEF Work
<1>4. me.todo # <<>> /\ me.todo \in Seq([topic : Topics, updated : Nat]) /\ me.pc = "build"
  BY <1>1, <1>3 DEF Work, Build, CuratorState
<1>5. PICK p, u : p = Item(c).topic /\ u = Item(c).updated
  OBVIOUS
<1>6. p \in Topics /\ u \in Nat /\ u <= Updated(p)
  <2>1. Len(me.todo) \in Nat \ {0}
    BY <1>4, EmptySeq
  <2>2. 1 \in 1 .. Len(me.todo)
    BY <2>1
  <2>3. p = me.todo[1].topic /\ u = me.todo[1].updated
    BY <1>3, <1>5 DEF Item
  <2>4. p \in Topics /\ u \in Nat
    BY <1>4, <2>2, <2>3, ItemFacts
  <2>5. u <= Updated(p)
    BY <1>1, <1>3, <2>2, <2>3 DEF Work
  <2> QED BY <2>4, <2>5
<1>7. PICK listed : listed = Evidence(Item(c))
  OBVIOUS
<1>8. listed = {<<s, Moment(s), session[s].text>> :
                  s \in {x \in Covered(p) : Moment(x) > cursor[p] /\ Moment(x) > u}}
  BY <1>5, <1>7 DEF Evidence
<1>9. listed \in Listing /\ clock \in Nat
  BY <1>1, <1>8, MomentFacts DEF Covered, Dated, Listing
<1>10. CASE listed = {}
  <2>1. Become(c, NextItem(c))
    BY <1>7, <1>10 DEF Build
  <2>2. Unanswered(NextItem(c))
    BY <1>1, <1>3, <1>4, NextItemFacts
  <2> QED BY <1>1, <1>2, <2>1, <2>2, MovesFree
<1>11. CASE listed # {} /\ Spoken(listed) = {}
  <2>1. Become(c, Resting)
    BY <1>7, <1>11 DEF Build
  <2> QED BY <1>1, <1>2, <2>1, FreshStates, MovesFree
<1>12. CASE Spoken(listed) # {}
  <2> DEFINE q == [topic |-> p, base |-> Number(p), window |-> Texts(Window(listed))]
             state == [me EXCEPT !.pc = "ask", !.listed = listed, !.request = q]
  <2>1. Become(c, state)
    <3>1. listed # {}
      BY <1>12 DEF Spoken
    <3> QED BY <1>3, <1>5, <1>7, <1>12, <3>1 DEF Build
  <2>2. q \in Request /\ q.topic = p
    <3>1. Texts(Window(listed)) \in SUBSET (Sessions \X Nat)
      <4>1. Window(listed) \in Listing
        BY <1>9 DEF Window, Spoken, Listing
      <4> HIDE DEF Window
      <4> QED BY <4>1 DEF Listing, Texts
    <3>2. Number(p) \in Nat
      BY <1>1, <1>6, UpdatedFacts
    <3> HIDE DEF Texts, Number
    <3> QED BY <1>6, <3>1, <3>2 DEF Request
  <2>3. listed \in SUBSET (Sessions \X Nat \X Nat)
    BY <1>9 DEF Listing
  <2> HIDE DEF q
  <2>4. /\ state \in CuratorState /\ state.pc = "ask" /\ state.listed = listed
        /\ state.request = q /\ state.todo = me.todo
    BY <1>3, <2>2, <2>3 DEF CuratorState
  <2> HIDE DEF state
  <2>5. curator'[c] = state
    BY <2>1, MovedTo
  <2>6. \A i \in 1 .. Len(me.todo) : me.todo[i].updated <= Updated(me.todo[i].topic)'
    BY <1>1, <1>3 DEF Work, Build, pageVars, Updated, Exists
  <2>7. ASSUME NEW s \in Sessions \ setting.silent, Known(s), Target(s) = p, Moment(s) <= Newest(listed)
        PROVE  AccountedFor(s, p) \/ Text(s) \in Texts(Spoken(listed))
    <3>1. Moment(s) \in Nat /\ cursor[p] \in Nat /\ Updated(p) \in Nat
      BY <1>1, <1>6, <1>9, MomentFacts, UpdatedFacts DEF Dated
    <3>2. CASE Moment(s) > cursor[p] /\ Moment(s) > u
      <4>1. <<s, Moment(s), session[s].text>> \in Spoken(listed)
        BY <1>8, <2>7, <3>2 DEF Covered, Spoken
      <4> QED BY <4>1 DEF Texts, Text
    <3>3. CASE Moment(s) <= cursor[p]
      BY <1>1, <1>6, <2>7, <3>3, MomentFacts DEF CursorPassesSeen
    <3>4. CASE Moment(s) <= u
      BY <1>1, <1>6, <3>1, <3>4, MomentFacts DEF AccountedFor
    <3> QED BY <1>6, <3>1, <3>2, <3>3, <3>4
  <2>8. Passes(c)'
    <3>1. /\ \A s \in Sessions : Known(s)' = Known(s) /\ Target(s)' = Target(s) /\ Moment(s)' = Moment(s)
                               /\ Text(s)' = Text(s) /\ AccountedFor(s, p)' = AccountedFor(s, p)
          /\ Listing' = Listing
      BY DEF Build, pageVars, Known, Target, Moment, TrueMoment, Text, AccountedFor, Updated, Exists,
             Listing
    <3>2. Spoken(listed)' = Spoken(listed) /\ Newest(listed)' = Newest(listed)
          /\ Texts(Spoken(listed))' = Texts(Spoken(listed))
      BY DEF Spoken, Newest, Texts
    <3> QED BY <1>6, <1>9, <1>12, <2>2, <2>4, <2>5, <2>7, <3>1, <3>2 DEF Passes
  <2>9. Work(c)'
    BY <1>4, <2>4, <2>5, <2>6, <2>8 DEF Work
  <2> QED BY <1>1, <1>2, <2>1, <2>9, OneMoves
<1> QED
  BY <1>10, <1>11, <1>12

(* An answer that is kept accounts for all that the request could list.    *)
LEMMA CreditCovers ==
  ASSUME Dated, NEW listed \in Listing, Credit(listed)
  PROVE  /\ seen \cup missed \subseteq seen' \cup missed' /\ seen' \cup missed' \subseteq Sessions \X Nat
         /\ Texts(Spoken(listed)) \subseteq seen' \cup missed'
<1>1. Window(listed) \subseteq Spoken(listed) /\ Spoken(listed) \subseteq listed
  BY DEF Window, Spoken
<1>2. Texts(listed) \subseteq Sessions \X Nat
  BY DEF Texts, Listing
<1>3. \A e \in Spoken(listed) : <<e[1], e[3]>> \in seen' \cup missed'
  BY DEF Credit, Texts
<1>4. seen' \cup missed' \subseteq seen \cup missed \cup Texts(listed)
  BY <1>1 DEF Credit, Texts
<1> QED BY <1>2, <1>3, <1>4 DEF Credit, Texts, Dated

(* A curator goes on with its answer. *)
LEMMA AnswerGoesOn ==
  ASSUME SeenInv, Onward, cursor' = cursor, NEW c \in Curators, curator[c].pc \in Answering,
         NEW state, Become(c, state), state \in CuratorState, state.pc \in Answering,
         state.todo = curator[c].todo, state.request = curator[c].request,
         state.listed = curator[c].listed,
         curator[c].pc \in {"ask", "store"} =>
           state.pc \in {"ask", "store"}
           \/ Texts(Spoken(curator[c].listed)) \subseteq seen' \cup missed'
  PROVE  SeenInv'
<1>1. Dated /\ Work(c)
  BY DEF SeenInv
<1>2. curator'[c] = state
  BY MovedTo
<1>3. Work(c)'
  BY <1>1, <1>2, KeepsWork
<1> QED BY <1>3, OneMoves

LEMMA MovedPc ==
  ASSUME NEW me \in CuratorState, NEW pc \in Answering
  PROVE  LET state == [me EXCEPT !.pc = pc] IN
           /\ state \in CuratorState /\ state.pc = pc
           /\ state.todo = me.todo /\ state.request = me.request /\ state.listed = me.listed
  BY DEF CuratorState, Answering

(* The answer changes nothing, or it waits to be stored. *)
LEMMA AskSeen ==
  ASSUME SeenInv, setting' = setting, NEW c \in Curators, Ask(c)
  PROVE  SeenInv'
<1>1. Dated /\ Work(c) /\ UNCHANGED <<setting, clock, page, session, topic, cursor>>
  BY DEF SeenInv, Ask, pageVars
<1>2. PICK me : me = curator[c] /\ me \in CuratorState
  BY <1>1 DEF Work
<1>3. me.pc = "ask" /\ me.pc \in Answering
  BY <1>2 DEF Ask, Answering
<1>4. Passes(c) /\ me.listed \in Listing /\ cursor' \in [Topics -> 0 .. clock]
  BY <1>1, <1>2, <1>3 DEF Work, Passes, Dated
<1>5. CASE Become(c, [me EXCEPT !.pc = "cursor"]) /\ Credit(me.listed)
  <2>1. PICK state : state = [me EXCEPT !.pc = "cursor"]
    OBVIOUS
  <2>2. /\ state \in CuratorState /\ state.pc = "cursor" /\ "cursor" \in Answering
        /\ state.todo = me.todo /\ state.request = me.request /\ state.listed = me.listed
    BY <1>2, <2>1, MovedPc DEF Answering
  <2>3. /\ seen \cup missed \subseteq seen' \cup missed' /\ seen' \cup missed' \subseteq Sessions \X Nat
        /\ Texts(Spoken(me.listed)) \subseteq seen' \cup missed'
    BY <1>1, <1>4, <1>5, CreditCovers
  <2>4. Onward
    BY <1>1, <1>4, <2>3, StoreStays
  <2>5. Become(c, state)
    BY <1>5, <2>1
  <2> QED BY <1>1, <1>2, <1>3, <2>2, <2>3, <2>4, <2>5, AnswerGoesOn
<1>6. ASSUME NEW q, q = me.request, NEW size \in Sizes, NEW risk, risk = Risk(q.topic, q.base, size),
             Become(c, [me EXCEPT !.pc = "store", !.patch = [size |-> size, risk |-> risk]]),
             UNCHANGED <<seen, missed>>
      PROVE  SeenInv'
  <2> DEFINE patch == [size |-> size, risk |-> risk]
             state == [me EXCEPT !.pc = "store", !.patch = patch]
  <2>1. patch \in [size : Sizes \cup {0}, risk : {"none", "low", "high"}]
    BY <1>6 DEF Risk
  <2>2. Become(c, state)
    BY <1>6
  <2> HIDE DEF patch
  <2>3. /\ state \in CuratorState /\ state.pc = "store" /\ "store" \in Answering
        /\ state.todo = me.todo /\ state.request = me.request /\ state.listed = me.listed
    BY <1>2, <2>1 DEF CuratorState, Answering
  <2> HIDE DEF state
  <2>4. Onward
    BY <1>1, <1>6, NothingHappens
  <2> QED BY <1>1, <1>2, <1>3, <2>2, <2>3, <2>4, AnswerGoesOn
<1> QED BY <1>2, <1>5, <1>6 DEF Ask

(* A run that is stored keeps the answer; one that clashes is forgotten.   *)
LEMMA StoreSeen ==
  ASSUME SeenInv, setting' = setting, NEW c \in Curators, StoreRun(c)
  PROVE  SeenInv'
<1>1. Dated /\ Work(c) /\ UNCHANGED <<setting, clock, page, session, topic, cursor>>
  BY DEF SeenInv, StoreRun, pageVars
<1>2. PICK me : me = curator[c] /\ me \in CuratorState
  BY <1>1 DEF Work
<1>3. me.pc = "store" /\ me.pc \in Answering
  BY <1>2 DEF StoreRun, Answering
<1>4. Passes(c) /\ me.listed \in Listing /\ cursor' \in [Topics -> 0 .. clock]
  BY <1>1, <1>2, <1>3 DEF Work, Passes, Dated
<1>5. CASE Become(c, Resting) /\ UNCHANGED <<seen, missed>>
  <2>1. Onward
    BY <1>1, <1>5, NothingHappens
  <2> QED BY <1>1, <1>5, <2>1, FreshStates, MovesFree
<1>6. CASE Become(c, [me EXCEPT !.pc = "apply"]) /\ Credit(me.listed)
  <2>1. PICK state : state = [me EXCEPT !.pc = "apply"]
    OBVIOUS
  <2>2. /\ state \in CuratorState /\ state.pc = "apply" /\ "apply" \in Answering
        /\ state.todo = me.todo /\ state.request = me.request /\ state.listed = me.listed
    BY <1>2, <2>1, MovedPc DEF Answering
  <2>3. /\ seen \cup missed \subseteq seen' \cup missed' /\ seen' \cup missed' \subseteq Sessions \X Nat
        /\ Texts(Spoken(me.listed)) \subseteq seen' \cup missed'
    BY <1>1, <1>4, <1>6, CreditCovers
  <2>4. Onward
    BY <1>1, <1>4, <2>3, StoreStays
  <2>5. Become(c, state)
    BY <1>6, <2>1
  <2> QED BY <1>1, <1>2, <1>3, <2>2, <2>3, <2>4, <2>5, AnswerGoesOn
<1> QED BY <1>2, <1>5, <1>6 DEF StoreRun

(* A page that the curator writes is newer than what it was asked about.  *)
LEMMA ApplySeen ==
  ASSUME SeenInv, HalfInv, setting' = setting, NEW c \in Curators, Apply(c)
  PROVE  SeenInv'
<1>1. Dated /\ Work(c) /\ Shaped /\ cursor' = cursor
  BY DEF SeenInv, HalfInv, Apply
<1>2. curator[c].pc = "apply" /\ {"apply", "cursor"} \subseteq Answering
  BY DEF Apply, Answering
<1>3. PICK p, size : p = curator[c].request.topic /\ size = curator[c].patch.size
  OBVIOUS
<1>4. p \in Topics /\ size \in Sizes
  <2>1. p \in Topics
    BY <1>1, <1>2, <1>3 DEF Work, Passes
  <2>2. GuardedText(c)
    BY DEF HalfInv, Guarded, Apply
  <2>3. size \in Sizes
    BY <1>3, <2>2 DEF GuardedText, Apply
  <2> QED BY <2>1, <2>3
<1>5. WritePage(p, size, "local-curator") \/ UNCHANGED pageVars
  BY <1>3 DEF Apply
<1>6. Onward
  <2>1. CASE WritePage(p, size, "local-curator")
    BY <1>1, <1>4, <2>1, WriteOnward DEF Apply
  <2>2. CASE UNCHANGED pageVars
    BY <1>1, <2>2, NothingHappens DEF Apply, pageVars
  <2> QED BY <1>5, <2>1, <2>2
<1>7. PICK me : me = curator[c] /\ me \in CuratorState
  BY <1>1 DEF Work
<1>8. PICK state : state = [me EXCEPT !.pc = "cursor"]
  OBVIOUS
<1>9. /\ state \in CuratorState /\ state.pc = "cursor"
      /\ state.todo = me.todo /\ state.request = me.request /\ state.listed = me.listed
  BY <1>2, <1>7, <1>8, MovedPc
<1>10. Become(c, state)
  BY <1>7, <1>8 DEF Apply
<1> QED BY <1>1, <1>2, <1>6, <1>7, <1>9, <1>10, AnswerGoesOn

(* The cursor moves to what the answer passed, and no further. *)
LEMMA SaveSeen ==
  ASSUME SeenInv, setting' = setting, NEW c \in Curators, SaveCursor(c)
  PROVE  SeenInv'
<1>1. Dated /\ Work(c) /\ CursorPassesSeen
  BY DEF SeenInv
<1>2. PICK me : me = curator[c] /\ me.pc = "cursor"
  BY DEF SaveCursor
<1>3. me.todo # <<>> /\ Passes(c)
  BY <1>1, <1>2 DEF Work, Answering
<1>4. PICK p, newest_listed : p = me.request.topic /\ newest_listed = Newest(me.listed)
  OBVIOUS
<1>5. p \in Topics /\ newest_listed \in 0 .. clock
  BY <1>1, <1>2, <1>3, <1>4, NewestFacts DEF Passes
<1>6. cursor' = [cursor EXCEPT ![p] = newest_listed]
  BY <1>2, <1>4 DEF SaveCursor, CursorAfter
<1>7. UNCHANGED <<setting, clock, page, session, topic, seen, missed>>
  BY DEF SaveCursor, pageVars
<1>8. \A s \in Sessions : /\ Known(s)' = Known(s) /\ Target(s)' = Target(s) /\ TrueMoment(s)' = TrueMoment(s)
                          /\ TrueMoment(s) = Moment(s)
                          /\ \A q \in Topics : AccountedFor(s, q)' = AccountedFor(s, q)
  BY <1>7 DEF Known, Target, Moment, TrueMoment, AccountedFor, Text, Updated, Exists
<1>10. cursor' \in [Topics -> 0 .. clock]
  BY <1>1, <1>5, <1>6 DEF Dated
<1>11. Onward
  BY <1>1, <1>7, <1>10, StoreStays DEF Dated
<1>12. CursorPassesSeen'
  <2> SUFFICES ASSUME NEW s \in Sessions \ setting.silent, NEW q \in Topics,
                      Known(s), Target(s) = q, Moment(s) <= cursor'[q]
               PROVE  AccountedFor(s, q)
    BY <1>7, <1>8 DEF CursorPassesSeen
  <2>1. CASE q = p
    <3>1. Moment(s) <= newest_listed
      BY <1>1, <1>6, <2>1 DEF Dated
    <3> QED BY <1>2, <1>3, <1>4, <2>1, <3>1 DEF Passes
  <2>2. CASE q # p
    <3>1. cursor'[q] = cursor[q]
      BY <1>1, <1>6, <2>2 DEF Dated
    <3> QED BY <1>1, <1>8, <3>1 DEF CursorPassesSeen
  <2> QED BY <2>1, <2>2
<1>13. Become(c, NextItem(c)) /\ Unanswered(NextItem(c))
  BY <1>1, <1>2, <1>3, NextItemFacts DEF SaveCursor
<1>14. curator'[c] = NextItem(c)
  BY <1>13, MovedTo
<1>15. Work(c)'
  BY <1>1, <1>11, <1>13, <1>14, UnansweredWorks
<1>16. DOMAIN curator' = Curators /\ \A d \in Curators \ {c} : curator'[d] = curator[d]
  BY <1>13 DEF SeenInv, Become
<1>17. \A d \in Curators \ {c} : Work(d)'
  BY <1>1, <1>11, <1>16, KeepsWork DEF SeenInv, Work
<1> QED BY <1>11, <1>12, <1>15, <1>16, <1>17 DEF SeenInv, Onward
-----------------------------------------------------------------------------
LEMMA InitSeen == Init => SeenInv
<1> SUFFICES ASSUME Init PROVE SeenInv
  OBVIOUS
<1>1. Shaped /\ clock = 0
  BY InitHalf DEF HalfInv, Init, PagesInit
<1>2. \A p \in Topics : Updated(p) = 0
  <2> SUFFICES ASSUME NEW p \in Topics PROVE Updated(p) = 0
    OBVIOUS
  <2>1. page[p] = <<FirstVersion>> \/ page[p] = <<>>
    BY DEF Init, PagesInit
  <2>2. CASE page[p] = <<>>
    BY <2>2 DEF Updated, Exists
  <2>3. CASE page[p] = <<FirstVersion>>
    <3>1. Last(page[p]) = FirstVersion
      BY <2>3 DEF Last
    <3> QED BY <2>2, <3>1 DEF Updated, Exists, FirstVersion
  <2> QED BY <2>1, <2>2, <2>3
<1>3. \A s \in Sessions : ~ Known(s) /\ session[s] = [text |-> 0, moment |-> 0]
  BY DEF Init, CuratorInit, Known
<1>4. Dated
  <2>1. /\ session \in [Sessions -> [text : Nat, moment : Nat]]
        /\ \A s \in Sessions : session[s].moment \in 0 .. clock
    BY <1>1, <1>3 DEF Init, CuratorInit
  <2>2. \A s \in Sessions : /\ topic[s].page \in Topics \cup {NoTopic, Unrouted}
                            /\ topic[s].created \in 0 .. clock
    BY <1>1 DEF Init, CuratorInit
  <2>3. cursor \in [Topics -> 0 .. clock] /\ seen \cup missed \subseteq Sessions \X Nat
    BY <1>1 DEF Init, CuratorInit
  <2> QED BY <1>1, <1>2, <2>1, <2>2, <2>3 DEF Dated, Shaped
<1>5. CursorPassesSeen
  BY <1>3 DEF CursorPassesSeen
<1>6. DOMAIN curator = Curators /\ \A c \in Curators : curator[c] = Resting
  BY DEF Init, CuratorInit
<1>7. \A c \in Curators : Work(c)
  BY <1>6, FreshStates, RestingFacts DEF Work, Unanswered, Answering
<1> QED BY <1>4, <1>5, <1>6, <1>7 DEF SeenInv

LEMMA NextSeen == HalfInv /\ SeenInv /\ [Next]_vars => SeenInv'
<1> SUFFICES ASSUME HalfInv, SeenInv, [Next]_vars PROVE SeenInv'
  OBVIOUS
<1>1. setting' = setting /\ Dated /\ Shaped
  BY DEF Next, Curates, Automates, Writes, Runs, vars, SeenInv, HalfInv
<1>2. CASE Curates
  <2>1. ASSUME NEW s \in setting.sessions, Update(s) PROVE SeenInv'
    <3>1. s \in Sessions
      BY <1>1, <2>1, SessionAssumption DEF Dated
    <3>2. Onward
      BY <1>1, <2>1, <3>1, UpdateOnward
    <3> QED BY <2>1, <3>2, NoneMoves DEF Update
  <2>2. ASSUME NEW c \in setting.curators, CuratorStep(c) \/ RouteFails(c) \/ AskFails(c) \/ Kill(c)
        PROVE  SeenInv'
    <3>1. c \in Curators
      BY <1>1, <2>2, SessionAssumption DEF Dated
    <3> QED BY <1>1, <2>2, <3>1, FreeSteps, BuildSeen, AskSeen, StoreSeen, ApplySeen, SaveSeen
            DEF CuratorStep
  <2> QED BY <1>2, <2>1, <2>2 DEF Curates, CuratorNext
<1>3. CASE Automates \/ UNCHANGED vars
  <2>1. UNCHANGED curatorVars
    BY <1>3 DEF Automates, vars
  <2>2. UNCHANGED pageVars
    BY <1>3 DEF Automates, vars, AutomationNext, Tick, StartByHand, Poll, Cycle, RemoteDue, MarkAttempt,
                RunRemote, LocalDue, StopRunner, Maintain, ListPages, WriteIndex, FindMentions,
                LinkMentions, Complete, MaintenanceFails
  <2>3. Onward
    BY <1>1, <2>1, <2>2, NothingHappens DEF curatorVars, pageVars
  <2> QED BY <2>1, <2>3, NoneMoves DEF curatorVars
<1>4. CASE Writes
  <2>1. PICK p \in Topics, size \in AgentSizes : WritePage(p, size, "agent")
    BY <1>4 DEF Writes, AgentWrite
  <2>2. size \in Sizes
    BY PageAssumption
  <2>3. UNCHANGED <<setting, session, topic, cursor, seen, missed, curator>>
    BY <1>4 DEF Writes, curatorVars
  <2>4. Onward
    BY <1>1, <2>1, <2>2, <2>3, WriteOnward
  <2> QED BY <2>3, <2>4, NoneMoves
<1> QED BY <1>2, <1>3, <1>4 DEF Next

(* The evidence cursor of a topic passes no text of a session of the topic *)
(* that is newer than the page and that no kept answer was shown, unless   *)
(* it fell out of a full window or came in behind a cursor (_evidence and  *)
(* the end of run_curator's loop).                                         *)
THEOREM CursorPassesSeenAlways == Spec => []CursorPassesSeen
<1>1. SeenInv => CursorPassesSeen
  BY DEF SeenInv
<1> QED BY InitHalf, NextHalf, InitSeen, NextSeen, <1>1, PTL DEF Spec
-----------------------------------------------------------------------------
(* MARKS AND LINKS *)

(* Attempts are spaced because a cycle that runs alone compares itself     *)
(* with the newest attempt: the mark in the store is that attempt.         *)
Spaced ==
  ~ newest.overlap =>
    /\ \A r, q \in Runners : Cycling(r) /\ Cycling(q) => r = q
    /\ newest.attempt = remoteMark.attempted
    /\ \A r \in Runners : /\ runner[r].pc = "mark" => newest.attempt - runner[r].age >= RemoteEvery
                          /\ runner[r].pc = "remote" => newest.attempt = runner[r].age

Marks ==
  /\ remoteMark \in [attempted : 0 .. OldRemote, completed : 0 .. OldRemote]
  /\ localMark \in 0 .. OldLocal
  /\ newest \in [attempt : 0 .. OldRemote, overlap : BOOLEAN]

(* Links and edges that are to become links are mentions. *)
Linked ==
  /\ index \subseteq Topics /\ links \subseteq Mentions
  /\ \A r \in Runners \cup {Operator} : runner[r].edges \subseteq Mentions
  /\ fails \in 0 .. MaxFails /\ stops \in Nat

MarkInv == Marks /\ Linked /\ Spaced

(* A cycle moves to another step, or ends, without touching the marks. *)
LEMMA MarksStay ==
  ASSUME LeaseType, MarkInv, UNCHANGED <<remoteMark, newest>>, NEW r \in Runners \cup {Operator}, NEW s,
         runner' = [runner EXCEPT ![r] = s],
         r \in Runners => /\ s.pc = "idle" \/ (Cycling(r) /\ s.age = runner[r].age)
                          /\ s.pc = "mark" => newest.overlap \/ newest.attempt - s.age >= RemoteEvery
                          /\ s.pc # "remote"
  PROVE  Spaced'
<1>1. \A q \in Runners \ {r} : runner'[q] = runner[q]
  BY DEF LeaseType
<1>2. r \in Runners => runner'[r] = s
  BY DEF LeaseType
<1>3. ASSUME NEW q \in Runners, Cycling(q)' PROVE Cycling(q)
  BY <1>1, <1>2, <1>3 DEF Cycling
<1> SUFFICES ASSUME ~ newest.overlap
             PROVE  /\ \A p, q \in Runners : Cycling(p)' /\ Cycling(q)' => p = q
                    /\ newest.attempt = remoteMark.attempted
                    /\ \A q \in Runners :
                         /\ runner'[q].pc = "mark" => newest.attempt - runner'[q].age >= RemoteEvery
                         /\ runner'[q].pc = "remote" => newest.attempt = runner'[q].age
  BY DEF Spaced
<1>4. \A p, q \in Runners : Cycling(p)' /\ Cycling(q)' => p = q
  BY <1>3 DEF MarkInv, Spaced
<1>5. newest.attempt = remoteMark.attempted
  BY DEF MarkInv, Spaced
<1>6. ASSUME NEW q \in Runners
      PROVE  /\ runner'[q].pc = "mark" => newest.attempt - runner'[q].age >= RemoteEvery
             /\ runner'[q].pc = "remote" => newest.attempt = runner'[q].age
  BY <1>1, <1>2 DEF MarkInv, Spaced
<1> QED BY <1>4, <1>5, <1>6

(* Time passes: the marks, the newest attempt and the cycles age together. *)
LEMMA TickMarks ==
  ASSUME LeaseType, MarkInv, Tick PROVE MarkInv'
<1>1. /\ TTL \in Nat /\ RemoteEvery \in Nat \ {0} /\ LocalEvery \in Nat \ {0} /\ MaxCycle \in Nat \ {0}
  BY AutomationAssumption
<1>2. PICK a, c, n : a = remoteMark.attempted /\ c = remoteMark.completed /\ n = newest.attempt
  OBVIOUS
<1>3. a \in 0 .. OldRemote /\ c \in 0 .. OldRemote /\ n \in 0 .. OldRemote /\ newest.overlap \in BOOLEAN
  BY <1>2 DEF MarkInv, Marks
<1>4. /\ remoteMark'.attempted = Older(a, OldRemote) /\ remoteMark'.completed = Older(c, OldRemote)
      /\ remoteMark' = [k \in {"attempted", "completed"} |-> remoteMark'[k]]
  BY <1>2 DEF Tick
<1>5. newest'.attempt = Older(n, OldRemote) /\ newest'.overlap = newest.overlap
      /\ newest' = [newest EXCEPT !.attempt = Older(n, OldRemote)]
  BY <1>2 DEF Tick, MarkInv, Marks
<1>6. \A m \in 0 .. OldRemote : Older(m, OldRemote) \in 0 .. OldRemote
  BY <1>1 DEF Older, OldRemote
<1>7. \A r \in Runners : /\ runner[r].age \in 0 .. MaxCycle
                         /\ runner'[r].pc = runner[r].pc
                         /\ Cycling(r) => runner[r].age < MaxCycle /\ runner'[r].age = runner[r].age + 1
  BY DEF Tick, RunnerState, Cycling, LeaseType
<1>8. \A r \in Runners \cup {Operator} : runner'[r].edges = runner[r].edges
  BY DEF Tick, RunnerState, LeaseType
<1>9. Marks'
  <2>1. localMark' \in 0 .. OldLocal
    BY <1>1 DEF Tick, Older, OldLocal, MarkInv, Marks
  <2>2. PICK x, y, z : x = Older(a, OldRemote) /\ y = Older(c, OldRemote) /\ z = Older(n, OldRemote)
    OBVIOUS
  <2>3. x \in 0 .. OldRemote /\ y \in 0 .. OldRemote /\ z \in 0 .. OldRemote
    BY <1>3, <1>6, <2>2
  <2>4. remoteMark' \in [attempted : 0 .. OldRemote, completed : 0 .. OldRemote]
    BY <1>4, <2>2, <2>3
  <2>5. newest' \in [attempt : 0 .. OldRemote, overlap : BOOLEAN]
    BY <1>5, <2>2, <2>3 DEF MarkInv, Marks
  <2> QED BY <2>1, <2>4, <2>5 DEF Marks
<1>10. Linked'
  BY <1>8 DEF Linked, MarkInv, Tick
<1>11. Spaced'
  <2> SUFFICES ASSUME ~ newest.overlap
               PROVE  /\ \A p, q \in Runners : Cycling(p)' /\ Cycling(q)' => p = q
                      /\ newest'.attempt = remoteMark'.attempted
                      /\ \A q \in Runners :
                           /\ runner'[q].pc = "mark" => newest'.attempt - runner'[q].age >= RemoteEvery
                           /\ runner'[q].pc = "remote" => newest'.attempt = runner'[q].age
    BY <1>5 DEF Spaced
  <2>1. \A p, q \in Runners : Cycling(p)' /\ Cycling(q)' => p = q
    BY <1>7 DEF MarkInv, Spaced, Cycling
  <2>2. n = a
    BY <1>2 DEF MarkInv, Spaced
  <2>3. newest'.attempt = remoteMark'.attempted
    BY <1>4, <1>5, <2>2
  <2>4. ASSUME NEW q \in Runners, runner'[q].pc \in {"mark", "remote"}
        PROVE  /\ runner'[q].pc = "mark" => newest'.attempt - runner'[q].age >= RemoteEvery
               /\ runner'[q].pc = "remote" => newest'.attempt = runner'[q].age
    <3>1. PICK g : g = runner[q].age /\ g \in 0 .. MaxCycle
      BY <1>7
    <3>2. g < MaxCycle /\ runner'[q].age = g + 1 /\ runner[q].pc = runner'[q].pc
      BY <1>7, <2>4, <3>1 DEF Cycling
    <3>3. CASE runner[q].pc = "mark"
      <4>1. n - g >= RemoteEvery
        BY <1>2, <3>1, <3>3 DEF MarkInv, Spaced
      <4>2. Older(n, OldRemote) - (g + 1) >= RemoteEvery
        BY <1>1, <1>3, <3>1, <3>2, <4>1 DEF Older, OldRemote
      <4> QED BY <1>5, <3>2, <3>3, <4>2
    <3>4. CASE runner[q].pc = "remote"
      <4>1. n = g
        BY <1>2, <3>1, <3>4 DEF MarkInv, Spaced
      <4>2. Older(n, OldRemote) = g + 1
        BY <1>1, <1>3, <3>1, <3>2, <4>1 DEF Older, OldRemote
      <4> QED BY <1>5, <3>2, <3>4, <4>2
    <3> QED BY <2>4, <3>2, <3>3, <3>4
  <2> QED BY <2>1, <2>3, <2>4
<1> QED BY <1>9, <1>10, <1>11 DEF MarkInv

(* A cycle that starts with no other running is the only one. *)
LEMMA PollMarks ==
  ASSUME LeaseType, MarkInv, NEW r \in Runners, Poll(r) PROVE MarkInv'
<1>1. runner'[r].pc = "remoteDue" /\ \A q \in Runners \ {r} : runner'[q] = runner[q]
  BY DEF Poll, To, LeaseType, RunnerState
<1>2. \A q \in Runners \cup {Operator} : runner'[q].edges = runner[q].edges
  BY DEF Poll, To, LeaseType, RunnerState
<1>3. PICK over : over = (newest.overlap \/ \E q \in Runners : Cycling(q))
  OBVIOUS
<1>4. newest' = [newest EXCEPT !.overlap = over] /\ over \in BOOLEAN
  BY <1>3 DEF Poll
<1>5. newest'.attempt = newest.attempt /\ newest'.overlap = over
      /\ newest' \in [attempt : 0 .. OldRemote, overlap : BOOLEAN]
  BY <1>4 DEF MarkInv, Marks
<1>6. Marks' /\ Linked'
  BY <1>2, <1>5 DEF MarkInv, Marks, Linked, Poll
<1>7. Spaced'
  <2> SUFFICES ASSUME ~ over
               PROVE  /\ \A p, q \in Runners : Cycling(p)' /\ Cycling(q)' => p = q
                      /\ newest.attempt = remoteMark'.attempted
                      /\ \A q \in Runners :
                           /\ runner'[q].pc = "mark" => newest.attempt - runner'[q].age >= RemoteEvery
                           /\ runner'[q].pc = "remote" => newest.attempt = runner'[q].age
    BY <1>5 DEF Spaced
  <2>1. ~ newest.overlap /\ \A q \in Runners : ~ Cycling(q)
    BY <1>3
  <2>2. \A q \in Runners \ {r} : runner'[q].pc = "idle"
    BY <1>1, <2>1 DEF Cycling
  <2>3. \A p, q \in Runners : Cycling(p)' /\ Cycling(q)' => p = q
    BY <2>2 DEF Cycling
  <2>4. newest.attempt = remoteMark'.attempted
    BY <2>1 DEF MarkInv, Spaced, Poll
  <2>5. \A q \in Runners : runner'[q].pc \notin {"mark", "remote"}
    BY <1>1, <2>2
  <2> QED BY <2>3, <2>4, <2>5
<1> QED BY <1>6, <1>7 DEF MarkInv

(* A remote attempt: the mark, the newest attempt and the cycle are the    *)
(* same age, and the cycle is alone if none ever overlapped.               *)
LEMMA AttemptMarks ==
  ASSUME LeaseType, MarkInv, NEW r \in Runners, MarkAttempt(r) \/ RunRemote(r)
  PROVE  MarkInv'
<1>1. PICK age : age = runner[r].age /\ age \in 0 .. MaxCycle
  BY DEF LeaseType, RunnerState
<1>2. PICK pc : To(r, pc) /\ pc \in {"remote", "localDue"} /\ (RunRemote(r) => pc = "localDue")
  BY DEF MarkAttempt, RunRemote
<1>3. /\ runner'[r].pc = pc /\ runner'[r].age = age
      /\ \A q \in Runners \ {r} : runner'[q] = runner[q]
      /\ \A q \in Runners \cup {Operator} : runner'[q].edges = runner[q].edges
  BY <1>1, <1>2 DEF To, LeaseType, RunnerState
<1>4. Cycling(r) /\ \A q \in Runners : Cycling(q)' => Cycling(q)
  BY <1>3 DEF Cycling, MarkAttempt, RunRemote
<1>5. age \in 0 .. OldRemote /\ OldRemote \in 0 .. OldRemote
  BY <1>1, AutomationAssumption DEF OldRemote
<1>6. /\ remoteMark' \in [attempted : 0 .. OldRemote, completed : 0 .. OldRemote]
      /\ remoteMark'.attempted = age \/ UNCHANGED <<remoteMark, newest>>
  BY <1>1, <1>5 DEF MarkAttempt, RunRemote, MarkInv, Marks
<1>7. /\ newest' \in [attempt : 0 .. OldRemote, overlap : BOOLEAN]
      /\ newest'.overlap = newest.overlap
      /\ MarkAttempt(r) => newest'.attempt = age /\ remoteMark'.attempted = age
      /\ RunRemote(r) => newest' = newest
  BY <1>1, <1>5 DEF MarkAttempt, RunRemote, MarkInv, Marks
<1>8. Marks' /\ Linked'
  BY <1>3, <1>6, <1>7 DEF MarkInv, Marks, Linked, MarkAttempt, RunRemote
<1>9. Spaced'
  <2> SUFFICES ASSUME ~ newest.overlap
               PROVE  /\ \A p, q \in Runners : Cycling(p)' /\ Cycling(q)' => p = q
                      /\ newest'.attempt = remoteMark'.attempted
                      /\ \A q \in Runners :
                           /\ runner'[q].pc = "mark" => newest'.attempt - runner'[q].age >= RemoteEvery
                           /\ runner'[q].pc = "remote" => newest'.attempt = runner'[q].age
    BY <1>7 DEF Spaced
  <2>1. \A p, q \in Runners : Cycling(p)' /\ Cycling(q)' => p = q
    BY <1>4 DEF MarkInv, Spaced
  <2>2. \A q \in Runners \ {r} : runner'[q].pc = "idle"
    BY <1>3, <1>4, <2>1 DEF MarkInv, Spaced, Cycling
  <2>3. newest'.attempt = remoteMark'.attempted
    <3>1. newest.attempt = remoteMark.attempted
      BY DEF MarkInv, Spaced
    <3>2. RunRemote(r) => newest.attempt = age
      BY <1>1 DEF MarkInv, Spaced, RunRemote
    <3> QED BY <1>6, <1>7, <3>1, <3>2
  <2>4. runner'[r].pc # "mark" /\ (runner'[r].pc = "remote" => newest'.attempt = runner'[r].age)
    BY <1>2, <1>3, <1>7
  <2> QED BY <2>1, <2>2, <2>3, <2>4
<1> QED BY <1>8, <1>9 DEF MarkInv

(* What a cycle becomes that attempts nothing; it may be about to. *)
MovesOn(r, s) ==
  /\ runner' = [runner EXCEPT ![r] = s] /\ s.edges \subseteq Mentions
  /\ r \in Runners => /\ s.pc = "idle" \/ (Cycling(r) /\ s.age = runner[r].age)
                      /\ s.pc = "mark" => newest.overlap \/ newest.attempt - s.age >= RemoteEvery
                      /\ s.pc # "remote"

LEMMA GoesOn ==
  ASSUME LeaseType, MarkInv, NEW r \in Runners \cup {Operator}, NEW pc, To(r, pc),
         r \in Runners => Cycling(r) /\ pc # "remote",
         pc = "mark" => newest.overlap \/ newest.attempt - runner[r].age >= RemoteEvery
  PROVE  \E s : MovesOn(r, s)
<1> DEFINE s == [runner[r] EXCEPT !.pc = pc]
<1>1. s.pc = pc /\ s.age = runner[r].age /\ s.edges = runner[r].edges
  BY DEF LeaseType, RunnerState
<1>2. runner' = [runner EXCEPT ![r] = s]
  BY DEF To
<1> HIDE DEF s
<1>3. runner[r].edges \subseteq Mentions
  BY DEF MarkInv, Linked
<1>4. MovesOn(r, s)
  BY <1>1, <1>2, <1>3 DEF MovesOn
<1> QED BY <1>4

LEMMA GoesToSleep ==
  ASSUME NEW r \in Runners \cup {Operator}, Sleep(r)
  PROVE  \E s : MovesOn(r, s)
<1>1. Asleep.pc = "idle" /\ Asleep.edges = {}
  BY DEF Asleep
<1>2. MovesOn(r, Asleep)
  BY <1>1 DEF Sleep, MovesOn
<1> QED BY <1>2

(* All other steps leave the marks, or complete maintenance. *)
LEMMA OtherMarks ==
  ASSUME LeaseType, MarkInv, NEW r \in Runners \cup {Operator},
         \/ r \in Runners /\ (RemoteDue(r) \/ LocalDue(r) \/ StopRunner(r))
         \/ r = Operator /\ StartByHand
         \/ Maintain(r) \/ MaintenanceFails(r)
  PROVE  MarkInv'
<1>1. runner[r] \in RunnerState
  BY DEF LeaseType
<1>2. UNCHANGED <<remoteMark, newest>>
  BY DEF RemoteDue, LocalDue, StopRunner, StartByHand, Maintain, ListPages, WriteIndex, FindMentions,
         LinkMentions, Complete, MaintenanceFails
<1>3. localMark' \in 0 .. OldLocal
  <2>1. r \in Runners => runner[r].age \in 0 .. MaxCycle
    BY <1>1 DEF RunnerState
  <2>2. r \in Runners => runner[r].age \in 0 .. OldLocal
    BY <2>1, AutomationAssumption DEF OldLocal
  <2>3. localMark' = localMark \/ (r # Operator /\ localMark' = runner[r].age)
    BY DEF RemoteDue, LocalDue, StopRunner, StartByHand, Maintain, ListPages, WriteIndex, FindMentions,
           LinkMentions, Complete, MaintenanceFails
  <2> QED BY <2>2, <2>3 DEF MarkInv, Marks
<1>4. Marks'
  BY <1>2, <1>3 DEF MarkInv, Marks
<1>5. /\ index' \subseteq Topics /\ links' \subseteq Mentions
      /\ fails' \in 0 .. MaxFails /\ stops' \in Nat
  <2>1. runner[r].edges \subseteq Mentions /\ runner[r].pages \subseteq Topics
    BY <1>1 DEF MarkInv, Linked, RunnerState
  <2>2. index' \in {index, runner[r].pages} /\ links' \in {links, links \cup runner[r].edges}
    BY DEF RemoteDue, LocalDue, StopRunner, StartByHand, Maintain, ListPages, WriteIndex, FindMentions,
           LinkMentions, Complete, MaintenanceFails
  <2>3. fails' = fails \/ (fails < MaxFails /\ fails' = fails + 1)
    BY DEF RemoteDue, LocalDue, StopRunner, StartByHand, Maintain, ListPages, WriteIndex, FindMentions,
           LinkMentions, Complete, MaintenanceFails
  <2>4. stops' = stops \/ stops' = stops + 1
    BY DEF RemoteDue, LocalDue, StopRunner, StartByHand, Maintain, ListPages, WriteIndex, FindMentions,
           LinkMentions, Complete, MaintenanceFails
  <2>5. MaxFails \in Nat
    BY AutomationAssumption
  <2> QED BY <2>1, <2>2, <2>3, <2>4, <2>5 DEF MarkInv, Linked
<1>6. \E s : MovesOn(r, s)
  <2>1. CASE RemoteDue(r) /\ r \in Runners
    <3>1. PICK a, c, g : a = remoteMark.attempted /\ c = remoteMark.completed /\ g = runner[r].age
      OBVIOUS
    <3>2. a \in 0 .. OldRemote /\ c \in 0 .. OldRemote /\ g \in 0 .. MaxCycle /\ OldRemote \in Nat
          /\ MaxCycle \in Nat /\ RemoteEvery \in Nat
      BY <1>1, <3>1, AutomationAssumption DEF MarkInv, Marks, RunnerState, OldRemote
    <3>3. ASSUME LastRemote - g >= RemoteEvery
          PROVE  newest.overlap \/ newest.attempt - g >= RemoteEvery
      <4>1. a - g >= RemoteEvery
        BY <3>1, <3>2, <3>3 DEF LastRemote, Younger
      <4>2. newest.overlap \/ newest.attempt = a
        BY <3>1 DEF MarkInv, Spaced
      <4> QED BY <4>1, <4>2
    <3>4. PICK pc \in {"mark", "localDue"} :
            To(r, pc) /\ (pc = "mark" => LastRemote - g >= RemoteEvery)
      BY <2>1, <3>1 DEF RemoteDue
    <3>5. Cycling(r)
      BY <2>1 DEF Cycling, RemoteDue
    <3> QED BY <3>1, <3>3, <3>4, <3>5, GoesOn
  <2>2. CASE Sleep(r)
    BY <2>2, GoesToSleep
  <2>3. CASE LocalDue(r) /\ r \in Runners
    <3>1. Cycling(r)
      BY <2>3 DEF Cycling, LocalDue
    <3> QED BY <2>2, <2>3, <3>1, GoesOn DEF LocalDue
  <2>4. CASE StartByHand /\ r = Operator
    BY <2>4, GoesOn, AutomationAssumption DEF StartByHand
  <2>5. CASE ListPages(r)
    <3> DEFINE s == [runner[r] EXCEPT !.pc = "index", !.pages = Existing]
    <3>1. s.pc = "index" /\ s.age = runner[r].age /\ s.edges = runner[r].edges
      BY <1>1 DEF RunnerState
    <3>2. runner' = [runner EXCEPT ![r] = s] /\ runner[r].pc # "idle"
      BY <2>5 DEF ListPages
    <3> HIDE DEF s
    <3>3. MovesOn(r, s)
      BY <3>1, <3>2 DEF MarkInv, Linked, MovesOn, Cycling
    <3> QED BY <3>3
  <2>6. CASE WriteIndex(r)
    <3> DEFINE s == [runner[r] EXCEPT !.pc = "mentions", !.pages = {}]
    <3>1. s.pc = "mentions" /\ s.age = runner[r].age /\ s.edges = runner[r].edges
      BY <1>1 DEF RunnerState
    <3>2. runner' = [runner EXCEPT ![r] = s] /\ runner[r].pc # "idle"
      BY <2>6 DEF WriteIndex
    <3> HIDE DEF s
    <3>3. MovesOn(r, s)
      BY <3>1, <3>2 DEF MarkInv, Linked, MovesOn, Cycling
    <3> QED BY <3>3
  <2>7. CASE FindMentions(r)
    <3> DEFINE found == (Mentions \cap (Existing \X Existing)) \ links
               s == [runner[r] EXCEPT !.pc = "link", !.edges = found]
    <3>1. found \subseteq Mentions
      OBVIOUS
    <3>2. runner' = [runner EXCEPT ![r] = s] /\ runner[r].pc # "idle"
      BY <2>7 DEF FindMentions
    <3> HIDE DEF found
    <3>3. s.pc = "link" /\ s.age = runner[r].age /\ s.edges = found
      BY <1>1 DEF RunnerState
    <3> HIDE DEF s
    <3>4. MovesOn(r, s)
      BY <3>1, <3>2, <3>3 DEF MovesOn, Cycling
    <3> QED BY <3>4
  <2>8. CASE LinkMentions(r)
    <3> DEFINE s == [runner[r] EXCEPT !.pc = "done", !.edges = {}]
    <3>1. s.pc = "done" /\ s.age = runner[r].age /\ s.edges = {}
      BY <1>1 DEF RunnerState
    <3>2. runner' = [runner EXCEPT ![r] = s] /\ runner[r].pc # "idle"
      BY <2>8 DEF LinkMentions
    <3> HIDE DEF s
    <3>3. MovesOn(r, s)
      BY <3>1, <3>2 DEF MovesOn, Cycling
    <3> QED BY <3>3
  <2> QED
    BY <2>1, <2>2, <2>3, <2>4, <2>5, <2>6, <2>7, <2>8 DEF StopRunner, Complete, Maintain, MaintenanceFails
<1>7. PICK s : MovesOn(r, s)
  BY <1>6
<1>8. Spaced'
  BY <1>2, <1>7, MarksStay DEF MovesOn
<1>9. \A q \in Runners \cup {Operator} : runner'[q].edges \subseteq Mentions
  BY <1>7 DEF MovesOn, LeaseType, MarkInv, Linked
<1> QED BY <1>4, <1>5, <1>8, <1>9 DEF MarkInv, Linked
-----------------------------------------------------------------------------
LEMMA InitMarks == Init => MarkInv
<1> SUFFICES ASSUME Init PROVE MarkInv
  OBVIOUS
<1>1. OldRemote \in 0 .. OldRemote /\ OldLocal \in 0 .. OldLocal /\ MaxFails \in Nat
  BY AutomationAssumption DEF OldRemote, OldLocal
<1>2. Marks
  BY <1>1 DEF Init, AutomationInit, Marks
<1>3. Linked
  BY <1>1 DEF Init, AutomationInit, Linked, Asleep
<1>4. Spaced
  BY DEF Init, AutomationInit, Spaced, Cycling, Asleep
<1> QED BY <1>2, <1>3, <1>4 DEF MarkInv

LEMMA NextMarks == LeaseInv /\ MarkInv /\ [Next]_vars => MarkInv'
<1> SUFFICES ASSUME LeaseInv, MarkInv, [Next]_vars PROVE MarkInv'
  OBVIOUS
<1>1. LeaseType
  BY DEF LeaseInv
<1>2. CASE Curates \/ Writes \/ UNCHANGED vars
  BY <1>2 DEF Curates, Writes, vars, automationVars, MarkInv, Marks, Linked, Spaced, Cycling
<1>3. CASE Automates
  <2>1. CASE Tick
    BY <1>1, <2>1, TickMarks
  <2>2. CASE StartByHand
    BY <1>1, <2>2, OtherMarks
  <2>3. ASSUME NEW r \in Runners, Poll(r) \/ Cycle(r) \/ StopRunner(r)
        PROVE  MarkInv'
    BY <1>1, <2>3, PollMarks, AttemptMarks, OtherMarks DEF Cycle
  <2>4. ASSUME NEW r \in Runners \cup {Operator}, Maintain(r) \/ MaintenanceFails(r)
        PROVE  MarkInv'
    BY <1>1, <2>4, OtherMarks
  <2> QED BY <1>3, <2>1, <2>2, <2>3, <2>4 DEF Automates, AutomationNext
<1> QED BY <1>2, <1>3 DEF Next

(* As long as no cycle ran beside another, an attempt starts an interval   *)
(* after the newest one, however cycles fail and stop.                     *)
THEOREM AttemptsAreSpaced == Spec => AttemptsSpaced
<1>1. MarkInv => \A r \in Runners : MarkAttempt(r) =>
                   newest.overlap \/ newest.attempt - runner[r].age >= RemoteEvery
  BY DEF MarkInv, Spaced, MarkAttempt
<1>2. MarkInv /\ [Next]_vars =>
        [\A r \in Runners : MarkAttempt(r) =>
           newest.overlap \/ newest.attempt - runner[r].age >= RemoteEvery]_automationVars
  BY <1>1
<1> QED BY InitLease, NextLease, InitMarks, NextMarks, <1>2, PTL DEF Spec, AttemptsSpaced
-----------------------------------------------------------------------------
(* TYPES *)

(* Every curator is in some state, and nothing else is in curator. *)
Manned == curator = [c \in Curators |-> curator[c]] /\ killed \in BOOLEAN

LEMMA NextManned == Manned /\ [Next]_vars => Manned'
<1> SUFFICES ASSUME Manned, [Next]_vars PROVE Manned'
  OBVIOUS
<1>1. curator' = curator \/ \E c \in setting.curators : \E state : Become(c, state)
  <2>1. CASE Automates \/ Writes \/ UNCHANGED vars
    BY <2>1 DEF Automates, Writes, vars, curatorVars
  <2>2. ASSUME NEW s, Update(s) PROVE curator' = curator
    BY <2>2 DEF Update
  <2>3. ASSUME NEW c \in setting.curators, CuratorStep(c) \/ RouteFails(c) \/ AskFails(c) \/ Kill(c)
        PROVE  \E state : Become(c, state)
    BY <2>3 DEF CuratorStep, StartNight, RouteSessions, RouteFails, LoadBacklog, Build, Ask, AskFails,
                StoreRun, Apply, SaveCursor, Kill
  <2> QED BY <2>1, <2>2, <2>3 DEF Next, Curates, CuratorNext
<1>2. curator' = [c \in Curators |-> curator'[c]]
  BY <1>1 DEF Manned, Become
<1>3. killed' = killed \/ killed' = TRUE
  BY DEF Next, Curates, Automates, Writes, vars, curatorVars, CuratorNext, CuratorStep, Update, StartNight,
         RouteSessions, RouteFails, LoadBacklog, Build, Ask, AskFails, StoreRun, Apply, SaveCursor, Kill
<1> QED BY <1>2, <1>3 DEF Manned

(* Every reachable state is typed, whatever the bounds. *)
THEOREM CurationTypeCorrect == Spec => []TypeOK
<1>1. Init => Manned
  BY DEF Init, CuratorInit, Manned
<1>2. LeaseInv /\ SeenInv /\ MarkInv /\ Manned => TypeOK
  <2> SUFFICES ASSUME LeaseInv, SeenInv, MarkInv, Manned PROVE TypeOK
    OBVIOUS
  <2>1. PagesTypeOK
    BY DEF PagesTypeOK, SeenInv, Dated
  <2>2. CuratorTypeOK
    <3>1. clock \in Nat /\ cursor \in [Topics -> 0 .. clock]
      BY DEF SeenInv, Dated
    <3>2. cursor \in [Topics -> Nat]
      BY <3>1
    <3>3. \A c \in Curators : curator[c] \in CuratorState
      BY DEF SeenInv, Work
    <3>4. curator \in [Curators -> CuratorState]
      BY <3>3 DEF Manned
    <3> QED BY <3>2, <3>4 DEF CuratorTypeOK, SeenInv, Dated, Manned
  <2>3. AutomationTypeOK
    BY DEF AutomationTypeOK, LeaseInv, LeaseType, MarkInv, Marks, Linked
  <2> QED BY <2>1, <2>2, <2>3 DEF TypeOK
<1> QED BY InitLease, NextLease, InitHalf, NextHalf, InitSeen, NextSeen, InitMarks, NextMarks, NextManned,
           <1>1, <1>2, PTL DEF Spec
=============================================================================
