----------------------------- MODULE MCLowering -----------------------------
(***************************************************************************)
(* Functions for TLC to lower and run.  They have four blocks; 1 is the    *)
(* entry, and control goes on to the blocks after it and back to block 2.  *)
(***************************************************************************)
EXTENDS Lowering

CONSTANTS va, vb, vc, vd, ve, vf, vg, vm, vn, vo,   \* variables
          p, q, s,               \* parameters, s the one on the stack
          r0, r1, two, big       \* slots and constants

MCVar == {va, vb, vc, vd, ve, vf, vg, vm, vn, vo}
MCParams == <<p, q, s>>
MCSlots == <<r0, r1>>
MCConst == {Zero, One, two, big}
MCImm == [k0 \in MCConst |-> IF k0 = Zero THEN 0 ELSE IF k0 = One THEN 1 ELSE 2]

I(op, dst, as) ==
  [op |-> op, dst |-> dst, args |-> as, cond |-> "any", to |-> <<>>, in |-> <<>>]
Compare(dst, cond, l, r) == [I("cmp", dst, <<l, r>>) EXCEPT !.cond = cond]
JumpTo(t) == <<[I("jump", None, <<>>) EXCEPT !.to = <<t>>]>>
BranchOn(v, l, r) == <<[I("branch", None, <<v>>) EXCEPT !.to = <<l, r>>]>>
Phi(dst, x, i, y, j) == [I("phi", dst, <<x, y>>) EXCEPT !.in = <<i, j>>]
ReturnOf(v) == <<I("return", None, <<v>>)>>

\* What a function does in the end with the values l and r.
Tails(l, r) ==
  {ReturnOf(l),
   <<I("call", vg, <<l, big>>)>> \o <<I("sub", vf, <<big, vg>>)>> \o ReturnOf(vf),
   <<I("self", vg, <<r, l>>)>> \o ReturnOf(vg),
   <<I("self", vg, <<l, r>>), I("add", vf, <<vg, l>>)>> \o ReturnOf(vf)}

\* How block 2 decides between blocks: by a comparison that the branch uses, by one
\* that is used elsewhere, by a conjunction, by what is not a comparison.
Decisions(l, r) ==
  {<<Compare(vc, "lt", va, vb)>> \o BranchOn(vc, l, r),
   <<Compare(vc, "ne", va, big), I("alias", vd, <<va>>)>> \o BranchOn(vc, l, r),
   <<Compare(vc, "lt", va, vb), Compare(vd, "ne", vb, Zero), I("and", ve, <<vc, vd>>)>>
     \o BranchOn(ve, l, r),
   <<Compare(vc, "le", vb, va), I("and", ve, <<vc, va>>)>> \o BranchOn(ve, l, r)}

\* A loop with two phis that block 3 updates: swapped, chained, computed.
Updates ==
  {<<<<I("add", vm, <<va, One>>)>>, vb, va>>,
   <<<<I("mul", vm, <<va, vb>>), I("sub", vn, <<q, vm>>)>>, va, vn>>,
   <<<<I("mul", vm, <<va, big>>), I("add", vn, <<vm, vb>>)>>, vn, big>>,
   <<<<I("mul", vm, <<va, va>>), I("add", vn, <<vm, vm>>)>>, vn, vm>>}

Loops ==
  {[arity |-> 2,
    body |-> <<JumpTo(2),
               <<Phi(va, p, 1, u[2], 3), Phi(vb, q, 1, u[3], 3)>> \o h,
               u[1] \o JumpTo(2),
               t>>] : u \in Updates, h \in Decisions(3, 4), t \in Tails(va, vb)}

\* A block that is its own successor: its edge back to itself is critical.
SelfLoops ==
  {[arity |-> 2,
    body |-> <<JumpTo(2),
               <<Phi(va, p, 1, u[1], 2), Phi(vb, big, 1, u[2], 2)>> \o h,
               JumpTo(4),
               t>>] :
     u \in {<<vb, va>>, <<vb, One>>}, h \in Decisions(2, 3) \cup Decisions(3, 2),
     t \in Tails(vb, va)}

\* A diamond: divisions by one constant in two blocks, parameters that are copied or
\* loaded in the entry, a branch on comparisons of other blocks.
Diamonds ==
  {[arity |-> 3,
    body |-> <<<<I("add", va, <<s, p>>), Compare(vc, "ge", q, One)>> \o JumpTo(2),
               <<Compare(vd, "lt", p, va), I("and", ve, <<vc, vd>>)>> \o BranchOn(z, 3, 4),
               <<I("div", vb, <<q, two>>), I("div", vf, <<s, two>>), I("sub", vn, <<vb, vf>>)>>
                 \o JumpTo(4),
               <<Phi(vg, x, 2, vn, 3), I("div", vm, <<vg, two>>)>> \o t>>] :
     z \in {vc, vd, ve}, x \in {p, s, two, big},
     t \in {ReturnOf(vm), <<I("self", vo, <<vm, big, va>>)>> \o ReturnOf(vo)}}

MCPrograms == Loops \cup SelfLoops \cup Diamonds

\* The parameter on the stack is used on one side of a diamond, and below.
StackPrograms ==
  {[arity |-> 3,
    body |-> <<JumpTo(2),
               <<Compare(vc, cond, p, q)>> \o BranchOn(vc, 3, 4),
               <<I("add", va, <<s, p>>)>> \o JumpTo(4),
               ReturnOf(s)>>] : cond \in {"lt", "ge"}}

=============================================================================
