---- MODULE MCSessionImport ----
(* Sources and bounds for the model-checking run of SessionImport. *)
EXTENDS SessionImport

CONSTANTS e1, e2,                   \* events
          bg, cli                   \* repairers

(* A text of two chunks whose blank line begins where the first must end, *)
(* and the empty text.                                                     *)
x == <<3, 1, Newline, Newline, 1>>
y == <<>>
TwoTexts == {x, y}

(* Session 1 changes e1 and loses e2; a late capture of its first revision *)
(* brings both back.  Session 2 is skipped.                                *)
Events2(c, d) == (e1 :> c) @@ (e2 :> d)
Revisions == (1 :> <<Events2(x, x), Events2(y, Absent)>>)
          @@ (2 :> <<Events2(x, Absent)>>)

SkippedTwo == {<<2, 1>>}
FirstFails == {<<1, 1>>}

Deployed == {[backend |-> "sqlite", importer |-> "database"],
             [backend |-> "postgres", importer |-> "server"]}
====
