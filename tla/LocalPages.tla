------------------------------ MODULE LocalPages ------------------------------
(***************************************************************************)
(* The topic pages of one local store, as the curator and the background   *)
(* maintenance see them, and the clock both read.  Every stamped write is  *)
(* later than the ones before it.  CurationApply models the same pages     *)
(* with their bases, receipts and conflicts.                               *)
(***************************************************************************)
EXTENDS Integers, Sequences, FiniteSets, SequencesExt, FiniteSetsExt

CONSTANTS
  Topics,         \* paths of topic pages, ordered by project name
  Sizes,          \* lengths of summary and body
  AgentSizes,     \* those that agents write
  Settings        \* what a behaviour may fix at its start, see setting

ASSUME PageAssumption ==
  /\ Topics \subseteq Nat \ {0} /\ IsFiniteSet(Topics)
  /\ Sizes \subseteq Nat \ {0} /\ AgentSizes \subseteq Sizes /\ AgentSizes # {}
ASSUME SettingAssumption == \A s \in Settings : s.lock \in {"lease", "advisory"}

(* A setting names the parts that run, the curators and the sessions, the  *)
(* sessions without an active user or assistant message, how background    *)
(* cycles exclude each other and who runs maintenance, the pages there are *)
(* at first, and bounds on session updates, on other agents' writes and on *)
(* background processes that stop in a cycle.                              *)
VARIABLES
  setting,        \* [parts, curators, sessions, silent, runners, lock, pages, updates,
                  \*  writes, stops]
  clock,
  page            \* [Topics -> versions, oldest first; none: no such page]

pageVars == <<clock, page>>

Version == [size : Sizes, by : {"agent", "local-curator"}, updated : Nat]

PagesTypeOK ==
  /\ setting \in Settings
  /\ clock \in Nat
  /\ page \in [Topics -> Seq(Version)]

Exists(p)  == page[p] # <<>>
Number(p)  == Len(page[p])
Updated(p) == IF Exists(p) THEN Last(page[p]).updated ELSE 0

AgentWrites ==
  {t \in 1 .. clock : \E p \in Topics : \E v \in Range(page[p]) : v.by = "agent" /\ v.updated = t}

WritePage(p, size, by) ==
  /\ clock' = clock + 1
  /\ page' = [page EXCEPT ![p] = Append(@, [size |-> size, by |-> by, updated |-> clock + 1])]

(* Any other process writes a page. *)
AgentWrite ==
  /\ Cardinality(AgentWrites) < setting.writes
  /\ \E p \in Topics, size \in AgentSizes : WritePage(p, size, "agent")

FirstVersion == [size |-> CHOOSE n \in AgentSizes : TRUE, by |-> "agent", updated |-> 0]
PagesInit ==
  /\ clock = 0
  /\ page = [p \in Topics |-> IF p \in setting.pages THEN <<FirstVersion>> ELSE <<>>]
=============================================================================
