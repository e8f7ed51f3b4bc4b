---- MODULE MCCurationApply ----
(* Manifests and worker sets for the model-checking runs of CurationApply. *)
EXTENDS CurationApply, TLC

CONSTANTS a, b, c,                  \* pages
          c0, c1, c2,               \* contents
          x1, x2, x3, x4,           \* patches
          x5, x6, x7, x8,
          g1, g2, g3, g4,           \* groups
          r1, r2, r3, r4,           \* runs
          bg, cli, human            \* workers

Change(o, p, t, h, k) == [op |-> o, path |-> p, target |-> t, content |-> h, risk |-> k]

(* Two low-risk runs that change the same page from the same base; the     *)
(* first has two groups.                                                   *)
EditPatch == x1 :> Change("update_page", a, NoPath, c1, "low")
          @@ x2 :> Change("add_link", a, b, c0, "low")
          @@ x3 :> Change("create_page", c, NoPath, c1, "low")
          @@ x4 :> Change("update_page", a, NoPath, c2, "low")
EditMembers == g1 :> <<x1, x2>> @@ g2 :> <<x3>> @@ g3 :> <<x4>>
EditPlan    == r1 :> <<g1, g2>> @@ r2 :> <<g3>>

(* A pool of manifests, of which MaxRuns are published: two rivals for     *)
(* page a, a duplicate merge of a into b, and a merge of b into a.         *)
PoolPatch == x1 :> Change("update_page", a, NoPath, c1, "low")
          @@ x2 :> Change("add_link", b, a, c0, "low")
          @@ x3 :> Change("update_page", a, NoPath, c2, "low")
          @@ x4 :> Change("update_page", b, NoPath, c1, "low")
          @@ x5 :> Change("retarget_links", a, b, c0, "high")
          @@ x6 :> Change("add_alias", a, b, c0, "high")
          @@ x7 :> Change("supersede_page", a, b, c0, "high")
          @@ x8 :> Change("supersede_page", b, a, c0, "high")
PoolMembers == g1 :> <<x1, x2>> @@ g2 :> <<x3>> @@ g3 :> <<x4, x5, x6, x7>> @@ g4 :> <<x8>>
PoolPlan    == r1 :> <<g1>> @@ r2 :> <<g2>> @@ r3 :> <<g3>> @@ r4 :> <<g4>>

(* Two patches of one group change the same page from the same base: a     *)
(* manifest the protocol accepts.                                          *)
TwicePatch == x1 :> Change("update_page", a, NoPath, c1, "low")
           @@ x2 :> Change("update_page", a, NoPath, c2, "low")
           @@ x3 :> Change("update_page", b, NoPath, c1, "low")
TwiceMembers == g1 :> <<x1, x2>> @@ g2 :> <<x3>>
TwicePlan    == r1 :> <<g1>> @@ r2 :> <<g2>>

(* Page a becomes an alias of b, then b is merged into c. *)
ChainPatch == x1 :> Change("add_alias", a, b, c0, "high")
           @@ x2 :> Change("supersede_page", a, b, c0, "high")
           @@ x3 :> Change("add_alias", b, c, c0, "high")
           @@ x4 :> Change("supersede_page", b, c, c0, "high")
ChainMembers == g1 :> <<x1, x2>> @@ g2 :> <<x3, x4>>
ChainPlan    == r1 :> <<g1>> @@ r2 :> <<g2>>

TwoRuns  == <<r1, r2>>
FourRuns == <<r1, r2, r3, r4>>
====
