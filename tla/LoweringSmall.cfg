SPECIFICATION Spec
CONSTANTS
  None = None
  Zero = Zero
  One = One
  va = va
  vb = vb
  vc = vc
  vd = vd
  ve = ve
  vf = vf
  vg = vg
  vm = vm
  vn = vn
  vo = vo
  p = p
  q = q
  s = s
  r0 = r0
  r1 = r1
  two = two
  big = big
  Var <- MCVar
  Params <- MCParams
  Slots <- MCSlots
  Const <- MCConst
  Imm <- MCImm
  Wide = {big}
  Modulus = 3
  NumBlocks = 4
  Programs <- MCPrograms
INVARIANTS TypeOK OperandsDefined SameRun
CHECK_DEADLOCK FALSE
