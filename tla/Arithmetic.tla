---------------------------- MODULE Arithmetic ----------------------------
(***************************************************************************)
(* Operations with a constant on the right, as conv/codegen.cpp selects    *)
(* their instructions: from lhs, which is in a register, into dst.         *)
(***************************************************************************)
EXTENDS MachineCode, Division

\* The registers that what new_virtual_reg returns is allocated to.
Temp(n) == A(4 + n)

IsPower(c) == \E k \in 0..(Width - 1) : c = Wrap(2 ^ k)
Log(c) == CHOOSE k \in 0..(Width - 1) : c = Wrap(2 ^ k)
With(x, kind, n) == [x EXCEPT !.shift = <<kind, n>>]
WithSome(x, kind, n) == IF n = 0 THEN x ELSE With(x, kind, n)

\* An immediate, or the register it is first moved to.
ImmOperand(c) == IF CanEncode(c) THEN [code |-> <<>>, at |-> I(c)]
                                 ELSE [code |-> <<Move(Temp(1), I(c))>>, at |-> Temp(1)]

\* A product and shifts stand for the quotient, by what DivMagicInfo finds.
DivideByMagic(dst, lhs, info) ==
  <<Move(Temp(1), I(Wrap(info.magic))),
    IF info.magic >= Half THEN Fma("smmla", Temp(2), lhs, Temp(1), lhs) ELSE LongMul(Temp(2), lhs, Temp(1)),
    With(Move(Temp(3), Temp(2)), "asr", info.shift),
    With(Instr("add", dst, Temp(3), lhs), "lsr", Width - 1)>>
DivideBy(dst, lhs, d) ==
  IF d =< 0 THEN <<Move(Temp(1), I(d)), Instr("div", dst, lhs, Temp(1))>>
  ELSE IF IsPower(d) THEN <<WithSome(Move(dst, lhs), "lsr", Log(d))>>
  ELSE DivideByMagic(dst, lhs, DivMagicInfo(d))

MultiplyBy(dst, lhs, c) ==
  IF IsPower(c) THEN <<WithSome(Move(dst, lhs), "lsl", Log(c))>>
  ELSE <<Move(Temp(1), I(c)), Instr("mul", dst, lhs, Temp(1))>>

\* lhs - lhs / d * d: the bits below a power of two; or the quotient added to itself
\* shifted when d is one more than one; or the product, subtracted as it is made.
RemainderOfPower(dst, lhs, d) == ImmOperand(d - 1).code \o <<Instr("and", dst, lhs, ImmOperand(d - 1).at)>>
FromQuotient(dst, quotient, lhs, d) ==
  IF d > 1 /\ IsPower(d - 1)
  THEN <<With(Instr("add", Temp(5), quotient, quotient), "lsl", Log(d - 1)), Instr("rsb", dst, Temp(5), lhs)>>
  ELSE <<Move(Temp(5), I(d)), Fma("mls", dst, quotient, Temp(5), lhs)>>
RemainderBy(dst, lhs, d) ==
  IF d > 0 /\ IsPower(d) THEN RemainderOfPower(dst, lhs, d)
  ELSE DivideBy(Temp(4), lhs, d) \o FromQuotient(dst, Temp(4), lhs, d)

\* A sum with a constant of which only the negative can be encoded is a difference.
AddOrSub(op, dst, lhs, c) ==
  LET flips == ~CanEncode(c) /\ CanEncode(-c)
      rhs == ImmOperand(IF flips THEN -c ELSE c)
  IN  rhs.code \o <<Instr(IF (op = "add") = flips THEN "sub" ELSE "add", dst, lhs, rhs.at)>>

\* A comparison, and a move for each of its outcomes.
CompareTo(op, dst, lhs, c) ==
  ImmOperand(c).code
    \o <<Compare(lhs, ImmOperand(c).at), [Move(dst, I(1)) EXCEPT !.cond = op],
         [Move(dst, I(0)) EXCEPT !.cond = OppositeCond[op]]>>

SelectBinary(op, dst, lhs, c) ==
  CASE op = "div" -> DivideBy(dst, lhs, c)
    [] op = "mul" -> MultiplyBy(dst, lhs, c)
    [] op = "mod" -> RemainderBy(dst, lhs, c)
    [] op \in {"add", "sub"} -> AddOrSub(op, dst, lhs, c)
    [] OTHER -> CompareTo(op, dst, lhs, c)
=============================================================================
