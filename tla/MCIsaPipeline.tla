--------------------------- MODULE MCIsaPipeline ----------------------------
(* The same program submitted twice and another one that claims its opId;  *)
(* with the host's executor, writers that meet in the commit queue.        *)
EXTENDS IsaPipeline, TLC

CONSTANTS a1, a2, b, o1, o2

In(id, op, opId, deps, pre, external, program, input) ==
    [id |-> id, op |-> op, opId |-> opId, deps |-> deps, pre |-> pre,
     external |-> external, program |-> program, input |-> input]

Undo == <<In("x", "workspace.snapshot", o1, {}, None, FALSE, "A", 1),
          In("y", "workspace.rollback", o2, {"x"}, None, FALSE, "A", 1)>>
Other == <<In("x", "control.health", None, {}, None, FALSE, "B", 1),
           In("y", "workspace.snapshot", o1, {"x"}, None, FALSE, "B", 2)>>
Edit == <<In("x", "fs.write", o1, {}, None, TRUE, "A", 1),
          In("y", "fs.stat", None, {}, "x", FALSE, "A", 1),
          In("z", "control.resolve", o2, {}, None, FALSE, "A", 1)>>
Write == <<In("x", "fs.write", o2, {}, None, FALSE, "B", 2)>>

MCProgram == [k \in BOOLEAN |->
    IF k THEN (a1 :> Undo) @@ (a2 :> Undo) @@ (b :> Other)
         ELSE (a1 :> Edit) @@ (a2 :> Write) @@ (b :> Write)]

MCRetryOf == (a1 :> None) @@ (a2 :> a1) @@ (b :> None)
=============================================================================
