------------------------------ MODULE IfToCond ------------------------------
(***************************************************************************)
(* Conditional execution and loop rotation (passes/asm/if_to_cond.cpp).    *)
(***************************************************************************)
EXTENDS MachineCode

IsSimpleMove(x) == x.op = "move" /\ IsSimple(x)
CanApplyCond(x) == x.op \in (BinaryOps \ {"div"}) \cup FmaOps \cup AccessOps \cup {"move"} /\ x.cond = "any"

EndsWith(insts, op) == insts # <<>> /\ Last(insts).op = op
CountOf(insts, ops) == Cardinality({k \in DOMAIN insts : insts[k].op \in ops})

-----------------------------------------------------------------------------
\* A block that a branch skips, and of which all can be conditional, is executed on the
\* opposite condition instead of skipped.
CanConvert(insts) == Len(insts) \in 1..4 /\ \A k \in DOMAIN insts : CanApplyCond(insts[k])
SkipsNext(code, b) ==
  /\ EndsWith(code[b], "branch")
  /\ Last(code[b]).to = b + 2 /\ b + 1 \in DOMAIN code /\ CanConvert(code[b + 1])
ConvertBlock(insts, cond) == Strict([k \in DOMAIN insts |-> [insts[k] EXCEPT !.cond = cond]])
Convert(code, b) ==
  IF ~SkipsNext(code, b) THEN code
  ELSE [code EXCEPT ![b] = Front(@), ![b + 1] = ConvertBlock(@, OppositeCond[Last(code[b]).cond])]

-----------------------------------------------------------------------------
\* Where the test of a header is, when it has one: at most three moves, a comparison, at
\* most so many moves, and the branch that leaves the loop.
HeaderTests(insts, moves) ==
  {c \in DOMAIN insts :
     /\ insts[c].op = "compare" /\ EndsWith(insts, "branch") /\ Last(insts).cond # "any"
     /\ c =< 4 /\ Len(insts) \in (c + 1)..(c + 1 + moves)
     /\ \A k \in 1..(Len(insts) - 1) \ {c} : IsSimpleMove(insts[k])}

\* What the header does before it branches, again: clones carry no condition.
CloneOf(x) ==
  IF x.op = "compare" THEN Compare(x.lhs, x.rhs) ELSE [Move(x.dst, x.rhs) EXCEPT !.shift = x.shift]
\* A mutant: the moves of the header are left out.
HeaderTestOnly(insts) == SelectSeq(insts, LAMBDA x : x.op = "compare")
HeaderClone(insts) == [k \in 1..(Len(insts) - 1) |-> CloneOf(insts[k])]

\* The last block of a loop tests, and goes back to the body itself or leaves.
Rotated(header, latch, b, body) ==
  LET exit == Last(header)
  IN  Front(latch) \o HeaderClone(header) \o <<Branch(OppositeCond[exit.cond], body)>>
        \o (IF exit.to # b + 1 THEN <<Jump(exit.to)>> ELSE <<>>)

\* The shapes of a loop that are worth it.
WorthRotating(work) ==
  LET stores == CountOf(work, {"store"})
      accesses == CountOf(work, AccessOps)
  IN  /\ Len(work) >= 4
      /\ \/ accesses >= 2 /\ stores \in {0, 1}
         \/ accesses = 0 /\ Len(work) >= 6

RotateSimpleLoop(code, h) ==
  LET b == h + 1
      fits == /\ b \in DOMAIN code /\ HeaderTests(code[h], 2) # {} /\ Last(code[h]).to # b
              /\ EndsWith(code[b], "jump") /\ Last(code[b]).to = h
              /\ WorthRotating(Front(code[b]))
  IN  IF fits THEN [code EXCEPT ![b] = Rotated(code[h], @, b, b)] ELSE code

RotateBreakLatchLoop(code, h) ==
  LET body == h + 1
      b == h + 2
      fits == /\ b \in DOMAIN code /\ HeaderTests(code[h], 0) # {} /\ Last(code[h]).to \notin {body, b}
              /\ EndsWith(code[body], "branch") /\ Last(code[body]).to = Last(code[h]).to
              /\ Last(code[body]).cond # "any"
              /\ EndsWith(code[b], "jump") /\ Last(code[b]).to = h
              /\ Len(code[b]) - 1 \in 1..4
              /\ \A x \in ToSet(Front(code[b])) : CanApplyCond(x) \/ x.op = "compare"
  IN  IF fits THEN [code EXCEPT ![b] = Rotated(code[h], @, b, body)] ELSE code

\* The three walks over the blocks, one after the other.
IfToCond(f) ==
  LET blocks == [b \in DOMAIN f.code |-> b]
  IN  [f EXCEPT !.code =
         Through(RotateBreakLatchLoop, Through(RotateSimpleLoop, Through(Convert, @, blocks), blocks), blocks)]
=============================================================================
