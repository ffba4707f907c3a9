----------------------------- MODULE MCCleanUp -----------------------------
(***************************************************************************)
(* Allocated functions for the passes that follow: every block of an       *)
(* access and three instructions around it, blocks that a branch skips,    *)
(* the loops that are rotated and those that just are not, frames.         *)
(***************************************************************************)
EXTENDS CleanUp, Arithmetic

MCMemory == [a \in {196, 200, 204, 208, Stack, Stack + 4} |-> a \div 4]
MCShared == {196, 200, 204, 208}
Case(code, size, xs, ys) == [func |-> Func(code, size), inputs |-> xs \X ys, computes |-> None]

AddI(dst, lhs, n) == Instr("add", dst, lhs, I(n))
Load(dst, base, n) == Instr("load", dst, base, I(n))
Store(src, base, n) == Instr("store", src, base, I(n))
If(cond, x) == [x EXCEPT !.cond = cond]

-----------------------------------------------------------------------------
\* An access through r4 and what may follow it: r5 is stored, r6 loaded, r7 is a sum.
Access == {Store(A(5), A(4), 0), Load(A(6), A(4), 0), Load(A(4), A(4), 0), Store(A(5), A(4), 4)}
Update == {AddI(A(4), A(4), 4), Instr("sub", A(4), A(4), I(4)), AddI(A(4), A(4), 4096), AddI(A(7), A(4), 4)}
Around == Access \cup Update \cup
  {Move(A(4), A(7)), Move(A(6), A(4)), Move(A(6), A(6)), Move(A(6), I(7)), AddI(A(6), A(6), 0), CallTo(1)}
\* A pointer is moved once, as the code generator's are.
Times(s, S) == Cardinality({k \in DOMAIN s : s[k] \in S})
Straight ==
  {s \in Access \X Around \X Around \X (Update \cup {Move(A(4), A(7)), Load(A(6), A(4), 0)}) :
     Times(s, Update) =< 1 /\ Times(s, {Move(A(4), A(7))}) =< 1}
Peephole ==
  {Case(<<<<Move(A(4), R(0)), Move(A(5), R(1)), Move(A(6), I(9)), Move(A(7), R(0))>> \o s
          \o <<Instr("add", R(0), A(4), A(6)), Return>> >>, 0, {200}, {11}) : s \in Straight}

\* r0 as a truth value, and moves that nearly are what the pass looks for.
Truth(rhs, c, d, n) == <<Compare(R(0), I(rhs)), If(c, Move(A(0), I(1))), If(d, Move(R(0), I(n))), Return>>
Shifted0 == [Move(R(0), R(0)) EXCEPT !.shift = <<"lsl", 0>>]
Shifted1 == [Move(R(0), R(0)) EXCEPT !.shift = <<"lsl", 1>>]
Truths ==
  {Case(<<Truth(rhs, c, d, n)>>, 0, {0, 1, 3}, {1}) :
     rhs \in {0, 1}, c \in {"ne", "eq"}, d \in {"eq", "ne", "gt"}, n \in {0, 5}}
  \cup {Case(<<<<Shifted0, Shifted1, Move(R(0), R(0)), If("any", Move(A(0), R(0))), Jump(2)>>, <<Return>> >>,
             0, {0, 3}, {1})}

-----------------------------------------------------------------------------
\* A block that a branch skips, of one to five instructions.
Skipped == {AddI(A(0), A(0), 3), Move(A(0), A(1)), Store(A(1), A(2), 4), Load(A(0), A(2), 0)}
NotSkipped == {CallTo(1), Instr("div", A(0), A(0), A(1)), Compare(A(0), A(1)), If("eq", Move(A(0), I(8)))}
Repeated(x, n) == [k \in 1..n |-> x]
SkippedBlocks ==
  {Repeated(x, n) : x \in Skipped, n \in {1, 4, 5}} \cup {<<x, y>> : x \in Skipped, y \in Skipped \cup NotSkipped}
Skips(cond, insts) ==
  <<<<Move(A(2), I(200)), Compare(A(0), I(2)), Branch(cond, 3)>>, insts, <<Move(R(0), A(0)), Return>> >>
Ifs == {Case(Skips(c, s), 0, {1, 2, 3}, {2}) : c \in DOMAIN OppositeCond \ {"any"}, s \in SkippedBlocks}

-----------------------------------------------------------------------------
\* Loops of r1 from 0 to r0 that sum into r3, with pointers r4 and r5.  The header's
\* limit is in r6, which the body overwrites.
Count == AddI(A(1), A(1), 1)
Sum(o) == Instr("add", A(3), A(3), o)
Works ==
  {<<Count>>, <<Sum(A(1)), Count>>, Repeated(Sum(A(1)), 4) \o <<Move(A(6), I(0)), Count>>,
   <<Load(A(7), A(4), 0), Store(A(7), A(4), 4), Move(A(6), I(0)), Count>>,
   <<Load(A(7), A(4), 0), Load(A(8), A(5), 0), Sum(A(7)), Sum(A(8)), AddI(A(4), A(4), 4), Count>>,
   <<Load(A(7), A(4), 0), Store(A(7), A(4), 4), Store(A(7), A(5), 0), Count>>,
   <<Store(A(3), A(4), 0), Sum(A(2)), Move(A(6), I(0)), Count>>}
Heads(exit) ==
  {<<Move(A(6), R(0)), Compare(A(1), A(6)), Branch("ge", exit)>>,
   <<Compare(A(1), R(0)), Move(A(2), A(1)), Branch("ge", exit)>>,
   <<Compare(A(1), R(0)), Branch("ge", exit)>>}
Entry == <<Move(A(1), I(0)), Move(A(2), I(0)), Move(A(3), I(0)), Move(A(4), I(200)), Move(A(5), I(196))>>
Exit == <<Move(R(0), A(3)), Return>>
SimpleLoops ==
  {Case(<<Entry \o <<Jump(2)>>, head, work \o <<Jump(2)>>, Exit>>, 0, {0, 1, 3}, {0}) :
     head \in Heads(4), work \in Works}
  \cup {Case(<<Entry \o <<Compare(R(0), I(1)), Branch("eq", 4)>>, head, work \o <<Jump(2)>>,
               <<Move(A(3), I(50))>>, Exit>>, 0, {0, 1, 3}, {0}) : head \in Heads(5), work \in Works}

\* Loops that are also left from the middle, when r1 is 2, and from a latch.
Latches == {<<>>, <<Sum(A(1))>>, <<Sum(A(1)), Compare(A(3), I(6)), If("lt", Sum(A(1)))>>,
            Repeated(Sum(A(1)), 4), Repeated(Sum(A(1)), 5), <<Instr("div", A(3), A(3), R(0))>>}
BreakLoops(exit) ==
  {Case(<<Entry, head, <<Sum(I(5)), Count, Compare(A(1), I(2)), Branch("eq", exit)>>, latch \o <<Jump(2)>>,
          <<Sum(I(100))>>, Exit>>, 0, {0, 1, 3}, {0}) : head \in Heads(exit), latch \in Latches}
LatchLoops == BreakLoops(5) \cup BreakLoops(6)

-----------------------------------------------------------------------------
\* Frames of sizes that an immediate encodes or r4 holds, with or without a call; the
\* function reads an argument on the stack and keeps a value at each end of its frame.
Body(size, far, gap) ==
  <<Move(A(4), R(0)), [Move(A(5), I(far)) EXCEPT !.fixup = TRUE]>>
    \o (IF gap THEN <<Move(A(6), I(1))>> ELSE <<>>)
    \o <<Instr("load", A(6), R(Sp), A(5))>>
    \o (IF size = 0 THEN <<>>
        ELSE <<Store(A(4), R(Sp), 0), Move(A(5), I(size - 4)), Instr("store", A(6), R(Sp), A(5)),
               Load(A(6), R(Sp), 0)>>)
Ending == <<Instr("add", A(0), A(4), A(6)), Return>>
Frames ==
  {Case(<<Body(size, far, gap) \o calls \o Ending>>, size, {3}, {0}) :
     size \in {0, 8, 1024, 1028, 4092, 4112}, far \in {0, 4}, gap \in BOOLEAN, calls \in {<<>>, <<CallTo(1)>>}}
\* A leaf with no register to save.
Leaves == {Case(<<<<Move(A(0), R(1)), Return>> >>, size, {3}, {4}) : size \in {0, 8, 1024}}

-----------------------------------------------------------------------------
\* Operations with a constant.  A quotient changes at the multiples of the divisor; the
\* rounding is tightest at the ends of the range.  Of a power of two, which the code takes
\* to divide numbers that are not negative, only those.
Operation(op, c, xs) ==
  [func |-> Func(<<<<Move(A(1), R(0))>> \o SelectBinary(op, A(0), A(1), c) \o <<Return>> >>, 0),
   inputs |-> xs \X {0}, computes |-> <<op, c>>]
LastMultiple(d) == Half - (Half % d)
AroundMultiples(d) ==
  {0, 1, d - 1, d, d + 1, 2 * d - 1, LastMultiple(d) - 1, LastMultiple(d) - d, Half - 1}
    \cup {-n : n \in {1, d - 1, d, d + 1, LastMultiple(d) - 1, LastMultiple(d) - d, Half - 1, Half}}
Divisors == 3..20 \cup {100, 641, 1000, 4095, 8191, 8193, 16383}
Divisions ==
  {Operation(op, d, IF IsPower(d) THEN {x \in AroundMultiples(d) : x >= 0 /\ x < Half}
                                  ELSE {x \in AroundMultiples(d) : x < Half}) :
     op \in {"div", "mod"}, d \in Divisors}
  \cup {Operation(op, d, {0, 7, -7, Half - 1, -Half}) : op \in {"div", "mod"}, d \in {-1, -3, -100}}
\* What the selected instructions leave in r0 is what MagicQuotient says of the dividend.
ASSUME MagicRuns ==
  \A d \in {d \in Divisors : ~IsPower(d)} : \A x \in {x \in AroundMultiples(d) : x < Half} :
    LET f == Operation("div", d, {x}).func
    IN  RunBlock(f, Entered(f, CallerRegs(<<x, 0>>), Memory)).reg[0] = MagicQuotient(x, DivMagicInfo(d))
OtherOperations ==
  {Operation(op, c, {0, 1, -1, 40, Half - 1, -Half}) :
     op \in {"add", "sub", "mul", "lt", "ge", "eq"}, c \in {-1, 0, 1, 8, -40, 257, -257, 1020, 8192}}

MCFunctions == Divisions \cup OtherOperations \cup Peephole \cup Truths \cup Ifs \cup SimpleLoops \cup LatchLoops \cup Frames \cup Leaves

\* if (a < 5) { if (b == 3) return; } g = 7;  The assignment is skipped by the inner
\* branch, and reached from the outer one as well.
MCJoined ==
  {Case(<<<<Move(A(2), I(200)), Move(A(3), I(7)), Compare(A(0), I(5)), Branch("ge", 3)>>,
          <<Compare(A(1), I(3)), Branch("eq", 4)>>,
          <<Store(A(3), A(2), 0)>>, <<Return>> >>, 0, {1, 5}, {3, 4})}
=============================================================================
