--------------------------- MODULE SourceProgram ---------------------------
(***************************************************************************)
(* What a source program promises: run on an input it shows a sequence of  *)
(* values, returns one and leaves its globals changed.  Programs are       *)
(* syntax trees as the type checker leaves them; Meaning is their          *)
(* evaluation, and the specification lets a run show it in any number of   *)
(* steps.                                                                  *)
(***************************************************************************)
EXTENDS Values, SequencesExt

CONSTANTS Programs,   \* each with its decl, params, is_int, body, inputs
          None
VARIABLES prog, input, shown, result

\* The region of array parameters that are not bound to a global array.
Heap == [o \in 0..3 |-> o - 1]

Memory(p, in) ==
  LET Of(d) == [o \in 0..((IF p.decl[d].dims = <<>> THEN 1 ELSE p.decl[d].dims[1]) - 1) |->
                 IF p.decl[d].glob THEN p.decl[d].init[o + 1]
                 ELSE IF d \in ToSet(p.params) THEN in[d] ELSE Poison]
  IN  [d \in {e \in DOMAIN p.decl : ~IsParamArray(p.decl[e])} \cup {"heap"} |->
         IF d = "heap" THEN Heap ELSE Of(d)]

Base(p, in, d) == IF IsParamArray(p.decl[d]) THEN <<in[d], 0>> ELSE <<d, 0>>
Place(p, in, d, index) ==
  Through(LAMBDA a, i : Shifted(a, index[i] * ElementSize(p.decl[d], i)), Base(p, in, d),
          [i \in DOMAIN index |-> i])

\* What a caller can see of a function that returned v.
Outcome(p, v, mem) ==
  [val |-> v, mem |-> [d \in {e \in DOMAIN p.decl : p.decl[e].glob} \cup {"heap"} |-> mem[d]]]

-----------------------------------------------------------------------------
\* Evaluation, from left to right; s is memory, what was shown, the value of the
\* last expression, those of a list of them, and how the last statement ended.
RECURSIVE Evaluated(_, _, _, _), Executed(_, _, _, _)

EvaluatedAll(p, in, es, s) ==
  Through(LAMBDA t, e : LET u == Evaluated(p, in, e, t) IN [u EXCEPT !.vals = Append(t.vals, u.val)],
          [s EXCEPT !.vals = <<>>], es)

\* The value at an address or, with fewer indices than dimensions, the address.
Indexed(p, e, a, t) ==
  [t EXCEPT !.val = IF Len(e.dims) = Len(p.decl[e.sym].dims) THEN Read(t.mem, a) ELSE a]
CallGave(t, c) == [t EXCEPT !.val = c.val, !.mem = c.mem, !.out = @ \o c.out]
AfterLeft(p, in, e, l) ==
  CASE e.tag \in {"and", "or"} ->
         [(IF (l.val # 0) = (e.tag = "and") THEN Evaluated(p, in, e.r, l) ELSE l) EXCEPT !.val = Bit(@ # 0)]
    [] OTHER -> [Evaluated(p, in, e.r, l) EXCEPT !.val = Eval(e.tag, l.val, @)]

Operands(e) == CASE e.tag = "index" -> e.dims [] e.tag = "call" -> e.args [] OTHER -> <<>>
Given(p, in, e, t) ==
  CASE e.tag = "num" -> [t EXCEPT !.val = e.n]
    [] e.tag = "index" -> Indexed(p, e, Place(p, in, e.sym, t.vals), t)
    [] e.tag = "call" -> CallGave(t, Call(e.fn, t.vals, t.mem))
Evaluated(p, in, e, s) ==
  IF e.tag \in {"num", "index", "call"} THEN Given(p, in, e, EvaluatedAll(p, in, Operands(e), s))
  ELSE AfterLeft(p, in, e, Evaluated(p, in, e.l, s))

ExecutedAll(p, in, body, s) ==
  Through(LAMBDA t, x : IF t.flow = "next" THEN Executed(p, in, x, t) ELSE t, s, body)

\* What a loop does after its body.
Looped(p, in, x, u) ==
  IF u.flow = "break" THEN [u EXCEPT !.flow = "next"]
  ELSE IF u.flow = "return" THEN u
  ELSE Executed(p, in, x, [u EXCEPT !.flow = "next"])

\* A statement, its expressions evaluated.
Acted(p, in, x, t) ==
  CASE x.tag = "decl" ->
         IF x.init = <<>> THEN t ELSE [t EXCEPT !.mem[x.sym] = [o \in DOMAIN @ |-> t.vals[o + 1]]]
    [] x.tag = "assign" ->
         [t EXCEPT !.mem = Written(@, Place(p, in, x.sym, Front(t.vals)), Last(t.vals))]
    [] x.tag = "return" -> [t EXCEPT !.flow = "return"]
    [] x.tag = "if" -> ExecutedAll(p, in, IF Last(t.vals) # 0 THEN x.yes ELSE x.no, t)
    [] x.tag = "while" ->
         IF Last(t.vals) = 0 THEN t ELSE Looped(p, in, x, ExecutedAll(p, in, x.body, t))
    [] x.tag = "block" -> ExecutedAll(p, in, x.stmts, t)
    [] x.tag \in {"break", "continue"} -> [t EXCEPT !.flow = x.tag]
    [] OTHER -> t
ExpressionsOf(x) ==
  CASE x.tag = "decl" -> x.init
    [] x.tag = "assign" -> Append(x.dims, x.rhs)
    [] x.tag \in {"if", "while"} -> <<x.cond>>
    [] x.tag \in {"return", "expr"} -> <<x.val>>
    [] OTHER -> <<>>
Executed(p, in, x, s) == Acted(p, in, x, EvaluatedAll(p, in, ExpressionsOf(x), s))

Meaning(p, in) ==
  LET Whole(s) ==
        [out |-> s.out, ret |-> Outcome(p, IF s.flow = "return" THEN s.val ELSE 0, s.mem)]
  IN  Whole(ExecutedAll(p, in, p.body,
              [mem |-> Memory(p, in), out |-> <<>>, val |-> 0, vals |-> <<>>, flow |-> "next"]))

-----------------------------------------------------------------------------
vars == <<prog, input, shown, result>>

Init == prog \in Programs /\ input = None /\ shown = <<>> /\ result = None

Ask == input = None /\ input' \in prog.inputs /\ UNCHANGED <<prog, shown, result>>

\* More is shown, or everything has been and the program returns.
Progress ==
  /\ input # None /\ result = None
  /\ <<shown, result>> # <<shown', result'>>
  /\ \E m \in {Meaning(prog, input)} :
       /\ IsPrefix(shown, m.out)
       /\ \E k \in Len(shown)..Len(m.out) :
            /\ shown' = SubSeq(m.out, 1, k)
            /\ result' \in {None} \cup (IF k = Len(m.out) THEN {m.ret} ELSE {})
  /\ UNCHANGED <<prog, input>>

Next == Ask \/ Progress
Answers == (input # None) ~> (result # None)
Spec == Init /\ [][Next]_vars /\ Answers
=============================================================================
