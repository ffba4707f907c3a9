---------------------------- MODULE MCScheduling ----------------------------
(* Instances of Scheduling: every body of at most MaxLength instructions   *)
(* before each way to end a block.                                         *)
EXTENDS Scheduling

CONSTANTS r0, r4, MaxLength

I(op, D, S) == [op |-> op, dst |-> D, src |-> S, base |-> {}, cond |-> FALSE]
If(i) == [i EXCEPT !.cond = TRUE]
Indexed(i, r) == [i EXCEPT !.base = {r}]

Bodies ==
  {I("add", {r4}, {r0}), I("div", {r0}, {r0, r4}), I("load", {r0}, {r4}), I("load", {r4}, {r4}),
   Indexed(I("store", {}, {r0, r4}), r4), I("compare", {}, {r0}), If(I("move", {r0}, {})),
   I("call", {r0}, {r0})}

Jump == I("jump", {}, {})
Ends == {<<>>, <<I("return", {}, {r0})>>, <<I("compare", {}, {r4}), If(I("branch", {}, {})), Jump>>}

MCBlocks == {b \o e : b \in UNION {[1 .. l -> Bodies] : l \in 1 .. MaxLength}, e \in Ends}
=============================================================================
