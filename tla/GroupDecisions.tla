---------------------------- MODULE GroupDecisions ----------------------------
(***************************************************************************)
(* What curation promises about a patch group, without transactions,       *)
(* workers or stops: a group is decided once and for good.  Deciding it    *)
(* "applied" may extend the history of several pages at once, with         *)
(* versions by its own patches; keeping or merging extends none; any other *)
(* version is an agent's; and no page ever loses a version.  CurationApply *)
(* implements this specification.                                          *)
(***************************************************************************)
EXTENDS Sequences, Naturals

CONSTANTS
  Paths,
  Groups,
  PatchesIn,  \* [Groups -> set of patches]
  Agent       \* author of the versions that no patch wrote

VARIABLES
  decision,   \* [Groups -> "undecided" | "applied" | "kept_local" | "merged"]
  history     \* [Paths -> sequence of versions, each with its author `by`]

vars == <<decision, history>>

(* Versions are only added, and only by these authors. *)
GrowsBy(authors) ==
  \A p \in Paths :
    /\ Len(history[p]) <= Len(history'[p])
    /\ \A i \in 1 .. Len(history[p]) : history'[p][i] = history[p][i]
    /\ \A i \in Len(history[p]) + 1 .. Len(history'[p]) : history'[p][i].by \in authors

Init == decision = [g \in Groups |-> "undecided"]

Write == GrowsBy({Agent}) /\ UNCHANGED decision

Apply(g) ==
  /\ decision[g] = "undecided"
  /\ decision' = [decision EXCEPT ![g] = "applied"]
  /\ GrowsBy(PatchesIn[g])

Decline(g) ==
  /\ decision[g] = "undecided"
  /\ \E d \in {"kept_local", "merged"} : decision' = [decision EXCEPT ![g] = d]
  /\ UNCHANGED history

Next == Write \/ \E g \in Groups : Apply(g) \/ Decline(g)

Spec == Init /\ [][Next]_vars
===============================================================================
