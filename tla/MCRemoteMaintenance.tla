---- MODULE MCRemoteMaintenance ----
(* Streams, answers and bounds for the runs of RemoteMaintenance. *)
EXTENDS RemoteMaintenance, TLC

Message(seq, size) == [seq |-> seq, kind |-> "message", path |-> NoPath, size |-> size]
Page(seq, p, size) == [seq |-> seq, kind |-> "page", path |-> p, size |-> size]
Receipt(seq, p)    == [seq |-> seq, kind |-> "receipt", path |-> p, size |-> 1]
Output(seq)        == [seq |-> seq, kind |-> "other", path |-> NoPath, size |-> 1]

(* A batch full by size, one full by count, a page that changes again, a   *)
(* receipt, tool output, a message larger than a batch; and a replica that *)
(* was restored.                                                           *)
Long     == <<Page(1, 1, 1), Message(2, 2), Page(3, 2, 2), Page(4, 1, 1)>>
Merged   == <<Page(1, 1, 1), Page(2, 2, 1), Receipt(3, 1), Message(4, 3)>>
Restored == <<Page(1, 1, 1), Output(2), Page(1, 2, 1), Message(3, 1)>>
Short    == <<Message(1, 3), Page(2, 1, 1)>>

(* A page version larger than a batch. *)
Large    == <<Page(1, 1, 3), Message(2, 1)>>

TwoReplicas == {(1 :> Long @@ 2 :> <<Page(1, 1, 1)>>),
                (1 :> Merged @@ 2 :> <<>>),
                (1 :> Restored @@ 2 :> <<Output(1)>>),
                (1 :> Short @@ 2 :> <<Message(1, 1)>>),
                (1 :> Large @@ 2 :> <<Message(1, 1)>>)}

Oversized == {(1 :> Large @@ 2 :> <<Message(1, 1), Page(2, 1, 1)>>)}

Create(p)   == [op |-> "create_page", path |-> p, target |-> NoPath]
Update(p)   == [op |-> "update_page", path |-> p, target |-> NoPath]
Merge(p, q) == [op |-> "supersede_page", path |-> p, target |-> q]

SomeAnswers == {{}, {{Update(1)}, {Create(2)}}, {{Update(2), Merge(1, 2)}}}
====
