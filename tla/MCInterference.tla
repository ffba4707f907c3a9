--------------------------- MODULE MCInterference ---------------------------
(***************************************************************************)
(* Instances of Interference: a loop of two blocks between an entry and an *)
(* exit, entered at either of them, with every choice of the instructions  *)
(* below in its blocks.                                                    *)
(***************************************************************************)
EXTENDS Interference

CONSTANTS r0, r1, x, y

Op(D, U) == [def |-> D, use |-> U, simple |-> FALSE]
Move(d, s) == [def |-> {d}, use |-> {s}, simple |-> TRUE]
CallInst == Op({r0}, {r0})
ReturnInst == Op({}, {r0})

Insts == {Op({x}, {}), Op({y}, {x}), Op({x}, {x, y}), Move(x, y), Move(y, x), Move(r0, x),
          Move(x, r0), CallInst}

\* The entry sets both virtual registers, as codegen would.
Entries == {<<Op({x}, {}), Op({y}, {})>>, <<Move(x, r0), Move(y, x)>>, <<Move(x, r0), Op({y}, {x})>>}
Bodies(l) == UNION {[1 .. m -> Insts] : m \in 0 .. l}
Exits == {<<Move(r0, x), ReturnInst>>, <<Op({r0}, {x, y}), ReturnInst>>}

MCPrograms ==
  [code : {<<a, b, c, d>> : a \in Entries, b \in Bodies(2), c \in Bodies(1), d \in Exits},
   succ : {<<{2}, {3, 4}, {2}, {}>>, <<{3}, {3, 4}, {2}, {}>>}]
=============================================================================
