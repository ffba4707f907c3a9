------------------------------- MODULE Values -------------------------------
(***************************************************************************)
(* What a program computes with, before and after optimisation: the        *)
(* integers of structure/op.hpp, memory, and the functions a program       *)
(* calls.  Integers wrap around at Half (2^31 in the code).                *)
(***************************************************************************)
EXTENDS Integers, Sequences

CONSTANT Half
ASSUME HalfAssumption == Half \in Nat /\ Half > 1

\* Op applied to the elements of s in turn (FoldLeft of SequencesExt, in linear time).
Through(Op(_, _), base, s) ==
  LET upTo[i \in 0..Len(s)] == IF i = 0 THEN base ELSE Op(upTo[i - 1], s[i])
  IN  upTo[Len(s)]

\* A sequence given by a rule, written out: TLC evaluates the rule once per element.
Strict(s) == s \o <<>>

\* A value that must not matter: of a variable never assigned, of a load that was
\* moved before the test of its index.
Poison == Half

Wrap(n) == ((n + Half) % (2 * Half)) - Half
\* The bits of a register, and the high word of a product.
Unsigned(n) == (n + 2 * Half) % (2 * Half)
HighWord(l, r) == (l * r) \div (2 * Half)

Bit(b) == IF b THEN 1 ELSE 0
Magnitude(n) == IF n < 0 THEN -n ELSE n

\* Division rounds towards zero; by zero it is 0, as the hardware's is.
Quotient(l, r) ==
  IF r = 0 THEN 0
  ELSE IF (l < 0) = (r < 0) THEN Magnitude(l) \div Magnitude(r)
                            ELSE -(Magnitude(l) \div Magnitude(r))

Eval(op, l, r) ==
  IF Poison \in {l, r} THEN Poison
  ELSE CASE op = "add" -> Wrap(l + r)
         [] op = "sub" -> Wrap(l - r)
         [] op = "rsb" -> Wrap(r - l)
         [] op = "mul" -> Wrap(l * r)
         [] op = "div" -> Wrap(Quotient(l, r))
         [] op = "mod" -> Wrap(l - r * Quotient(l, r))
         [] op = "lt" -> Bit(l < r)
         [] op = "le" -> Bit(l =< r)
         [] op = "ge" -> Bit(l >= r)
         [] op = "gt" -> Bit(l > r)
         [] op = "eq" -> Bit(l = r)
         [] op = "ne" -> Bit(l # r)

\* l <a> r is r <b> l.
IsRev(a, b) == <<a, b>> \in {<<"lt", "gt">>, <<"gt", "lt">>, <<"le", "ge">>, <<"ge", "le">>}

-----------------------------------------------------------------------------
\* dims[i] is the number of elements of a[..]..[..] with i - 1 indices, 0 for the
\* unknown first dimension of an array parameter.
IsParamArray(d) == d.dims # <<>> /\ d.dims[1] = 0
ElementSize(d, i) == IF i < Len(d.dims) THEN d.dims[i + 1] ELSE 1

\* An address is a region of memory and an offset into it.
Shifted(a, n) == <<a[1], a[2] + n>>
InBounds(mem, a) == a[2] \in DOMAIN mem[a[1]]
Read(mem, a) == IF InBounds(mem, a) THEN mem[a[1]][a[2]] ELSE Poison
Written(mem, a, v) == IF InBounds(mem, a) THEN [mem EXCEPT ![a[1]][a[2]] = v] ELSE mem

\* The functions a program calls, as the call-graph summary describes them.
HasSideEffect(fn) == fn \in {"put", "memset", "poke", "bump", "next", "pick", "evens"}
LoadsGlobal(fn) == fn \in {"bump", "next", "readg"}
Pure(fn) == ~(LoadsGlobal(fn) \/ HasSideEffect(fn))

\* What a call returns, writes and shows.
Returned(v, mem, out) == [val |-> v, mem |-> mem, out |-> out]
Call(fn, a, mem) ==
  CASE fn = "put" -> Returned(0, mem, <<a[1]>>)
    [] fn = "memset" ->
         Returned(0, [mem EXCEPT ![a[1][1]] = [o \in DOMAIN @ |-> 
                        IF o \in a[1][2]..(a[1][2] + (a[3] \div 4) - 1) THEN a[2] ELSE @[o]]], <<>>)
    [] fn = "poke" -> Returned(0, Written(mem, Shifted(a[1], a[2]), a[3]), <<>>)
    [] fn = "peek" -> Returned(Read(mem, Shifted(a[1], a[2])), mem, <<>>)
    [] fn = "readg" -> Returned(mem["g"][0], mem, <<>>)
    [] fn \in {"bump", "next"} -> Returned(mem["g"][0], [mem EXCEPT !["g"][0] = Eval("add", @, 1)], <<>>)
    [] fn = "pick" -> IF a[1] < a[2] THEN Returned(a[1], mem, <<>>)
                      ELSE Returned(Eval("sub", a[1], a[2]), mem, <<a[2]>>)
    [] fn = "evens" -> LET n == IF a[1] > 0 THEN (a[1] + 1) \div 2 ELSE 0
                       IN  Returned(2 * n, mem, [k \in 1..n |-> 2 * k - 2])
    [] fn = "square" -> Returned(Eval("mul", a[1], a[1]), mem, <<>>)
=============================================================================
