------------------------ MODULE LoweringFlow_proofs ------------------------
(***************************************************************************)
(* No instruction that Lowering writes reads a register before it is       *)
(* written.                                                                *)
(***************************************************************************)
EXTENDS Lowering_proofs

-----------------------------------------------------------------------------
(* Dominance in the function that is lowered.                              *)

LEMMA SuccFacts ==
  ASSUME ir \in Programs, NEW b0 \in Block
  PROVE  Succ(b0) \subseteq Block \ {1} /\ SuccOf(ir, b0) = Succ(b0)
<1> DEFINE C == 2 .. NumBlocks
<1>1. Inst(b0, Len(Body(b0))).to \in Seq(C)
  BY BlockFacts, FieldFacts
<1>2. C \subseteq Block \ {1}
  BY SizeAssumption DEF Block
<1> HIDE DEF C
<1>3. \A h \in DOMAIN Inst(b0, Len(Body(b0))).to : Inst(b0, Len(Body(b0))).to[h] \in C
  BY <1>1
<1> QED
  BY <1>2, <1>3 DEF Succ, SuccOf, Inst, Body

LEMMA DomEdge ==
  ASSUME ir \in Programs, NEW a0 \in Block, NEW b0 \in Block, NEW c0 \in Block,
         Dominates(ir, a0, c0), a0 # c0, c0 \in Succ(b0)
  PROVE  Dominates(ir, a0, b0)
<1>1. PICK R \in SUBSET (Block \ {a0}) :
        1 \in R \cup {a0} /\ c0 \notin R /\ \A p \in R : SuccOf(ir, p) \subseteq R \cup {a0}
  BY DEF Dominates
<1>2. b0 \notin R
  BY <1>1, SuccFacts
<1> QED
  BY <1>1, <1>2 DEF Dominates

LEMMA DomTrans ==
  ASSUME NEW a0 \in Block, NEW b0 \in Block, NEW c0 \in Block,
         Dominates(ir, a0, b0), Dominates(ir, b0, c0)
  PROVE  Dominates(ir, a0, c0)
<1>1. PICK R \in SUBSET (Block \ {a0}) :
        1 \in R \cup {a0} /\ b0 \notin R /\ \A p \in R : SuccOf(ir, p) \subseteq R \cup {a0}
  BY DEF Dominates
<1>2. PICK Q \in SUBSET (Block \ {b0}) :
        1 \in Q \cup {b0} /\ c0 \notin Q /\ \A p \in Q : SuccOf(ir, p) \subseteq Q \cup {b0}
  BY DEF Dominates
<1> DEFINE W == R \cap Q
<1>3. W \in SUBSET (Block \ {a0}) /\ c0 \notin W
  BY <1>1, <1>2
<1>4. 1 \in W \cup {a0}
  BY <1>1, <1>2
<1>5. \A p \in W : SuccOf(ir, p) \subseteq W \cup {a0}
  BY <1>1, <1>2
<1> HIDE DEF W
<1> QED
  BY <1>3, <1>4, <1>5 DEF Dominates

LEMMA DomAnti ==
  ASSUME ir \in Programs, NEW a0 \in Block, NEW b0 \in Block, a0 # b0,
         Dominates(ir, a0, b0), Dominates(ir, b0, a0)
  PROVE  FALSE
<1>1. PICK R \in SUBSET (Block \ {a0}) :
        1 \in R \cup {a0} /\ b0 \notin R /\ \A p \in R : SuccOf(ir, p) \subseteq R \cup {a0}
  BY DEF Dominates
<1>2. PICK Q \in SUBSET (Block \ {b0}) :
        1 \in Q \cup {b0} /\ a0 \notin Q /\ \A p \in Q : SuccOf(ir, p) \subseteq Q \cup {b0}
  BY DEF Dominates
<1> DEFINE W == R \cap Q
<1>3. W \in SUBSET Block /\ a0 \notin W
  BY <1>1
<1>4. 1 \in W
  BY <1>1, <1>2
<1>5. \A p \in W : SuccOf(ir, p) \subseteq W
  BY <1>1, <1>2
<1> HIDE DEF W
<1>6. \A V \in SUBSET Block : 1 \in V /\ (\A p \in V : SuccOf(ir, p) \subseteq V) => V = Block
  BY ProgramAssumption DEF InSsaForm
<1>7. W = Block
  BY <1>3, <1>4, <1>5, <1>6
<1> QED
  BY <1>3, <1>7

-----------------------------------------------------------------------------
(* Definitions that reach a place.                                         *)

LEMMA OnePlace ==
  ASSUME ir \in Programs, NEW d0 \in Places, NEW e0 \in Places,
         At(ir, d0).dst = At(ir, e0).dst, At(ir, d0).dst \in Var
  PROVE  d0 = e0
BY ProgramAssumption, OperandAssumption DEF InSsaForm, Places

LEMMA OneInst ==
  ASSUME ir \in Programs, NEW b0 \in Block, NEW j0 \in DOMAIN Body(b0),
         NEW c0 \in Block, NEW h0 \in DOMAIN Body(c0),
         Inst(b0, j0).dst = Inst(c0, h0).dst, Inst(b0, j0).dst \in Var
  PROVE  b0 = c0 /\ j0 = h0
<1>1. <<b0, j0>> = <<c0, h0>>
  BY OnePlace, PlaceOf
<1> QED
  BY <1>1

LEMMA DefinedIs ==
  ASSUME ir \in Programs, NEW v0 \in Var, NEW b0, NEW j0
  PROVE  DefinedAt(ir, v0, b0, j0) <=>
           \E c \in Block : \E h \in DOMAIN Body(c) :
             Inst(c, h).dst = v0 /\ IF c = b0 THEN h < j0 ELSE Dominates(ir, c, b0)
<1>1. ASSUME DefinedAt(ir, v0, b0, j0)
      PROVE  \E c \in Block : \E h \in DOMAIN Body(c) :
               Inst(c, h).dst = v0 /\ IF c = b0 THEN h < j0 ELSE Dominates(ir, c, b0)
  <2>1. PICK d \in Places : At(ir, d).dst = v0 /\ IF d[1] = b0 THEN d[2] < j0 ELSE Dominates(ir, d[1], b0)
    BY <1>1 DEF DefinedAt, Places
  <2>2. d[1] \in Block /\ d[2] \in DOMAIN Body(d[1]) /\ Inst(d[1], d[2]).dst = v0
    BY <2>1, PlaceFacts
  <2> QED
    BY <2>1, <2>2
<1>2. ASSUME NEW c \in Block, NEW h \in DOMAIN Body(c), Inst(c, h).dst = v0,
             IF c = b0 THEN h < j0 ELSE Dominates(ir, c, b0)
      PROVE  DefinedAt(ir, v0, b0, j0)
  <2>1. <<c, h>> \in Places /\ At(ir, <<c, h>>).dst = v0
    BY <1>2, PlaceOf
  <2>2. <<c, h>>[1] = c /\ <<c, h>>[2] = h
    OBVIOUS
  <2> QED
    BY <1>2, <2>1, <2>2 DEF DefinedAt, Places
<1> QED
  BY <1>1, <1>2

\* The place that defines v is before every place it reaches.
LEMMA DefinedHere ==
  ASSUME ir \in Programs, NEW b0, NEW j0, NEW c0 \in Block, NEW h0 \in DOMAIN Body(c0),
         Inst(c0, h0).dst \in Var
  PROVE  DefinedAt(ir, Inst(c0, h0).dst, b0, j0) <=>
           IF c0 = b0 THEN h0 < j0 ELSE Dominates(ir, c0, b0)
<1> DEFINE v == Inst(c0, h0).dst
<1>1. DefinedAt(ir, v, b0, j0) <=>
        \E c \in Block : \E h \in DOMAIN Body(c) :
          Inst(c, h).dst = v /\ IF c = b0 THEN h < j0 ELSE Dominates(ir, c, b0)
  BY DefinedIs
<1>2. \A c \in Block : \A h \in DOMAIN Body(c) : Inst(c, h).dst = v => c = c0 /\ h = h0
  BY OneInst
<1> HIDE DEF v
<1>3. Inst(c0, h0).dst = v
  BY DEF v
<1> QED
  BY <1>1, <1>2, <1>3 DEF v

LEMMA DefinedNext ==
  ASSUME ir \in Programs, NEW v0 \in Var, NEW b0 \in Block, NEW j0 \in Nat,
         DefinedAt(ir, v0, b0, j0 + 1)
  PROVE  DefinedAt(ir, v0, b0, j0) \/ (j0 \in DOMAIN Body(b0) /\ Inst(b0, j0).dst = v0)
<1>0. PICK c \in Block : \E h \in DOMAIN Body(c) :
        Inst(c, h).dst = v0 /\ IF c = b0 THEN h < j0 + 1 ELSE Dominates(ir, c, b0)
  BY DefinedIs
<1>1. PICK h \in DOMAIN Body(c) :
        Inst(c, h).dst = v0 /\ IF c = b0 THEN h < j0 + 1 ELSE Dominates(ir, c, b0)
  BY <1>0
<1>2. h \in Nat
  BY InstFacts
<1>3. CASE c = b0 /\ h = j0
  BY <1>1, <1>3
<1>4. CASE ~(c = b0 /\ h = j0)
  <2>1. IF c = b0 THEN h < j0 ELSE Dominates(ir, c, b0)
    BY <1>1, <1>2, <1>4
  <2> QED
    BY <1>1, <2>1, DefinedIs
<1> QED
  BY <1>3, <1>4

LEMMA DefinedLater ==
  ASSUME ir \in Programs, NEW v0 \in Var, NEW b0 \in Block, NEW j0 \in Nat, NEW i0 \in Nat,
         DefinedAt(ir, v0, b0, j0), j0 <= i0
  PROVE  DefinedAt(ir, v0, b0, i0)
<1>0. PICK c \in Block : \E h \in DOMAIN Body(c) :
        Inst(c, h).dst = v0 /\ IF c = b0 THEN h < j0 ELSE Dominates(ir, c, b0)
  BY DefinedIs
<1>1. PICK h \in DOMAIN Body(c) :
        Inst(c, h).dst = v0 /\ IF c = b0 THEN h < j0 ELSE Dominates(ir, c, b0)
  BY <1>0
<1>2. h \in Nat
  BY InstFacts
<1>3. IF c = b0 THEN h < i0 ELSE Dominates(ir, c, b0)
  BY <1>1, <1>2
<1> QED
  BY <1>1, <1>3, DefinedIs

LEMMA DefinedEdge ==
  ASSUME ir \in Programs, NEW v0 \in Var, NEW b0 \in Block, NEW c0 \in Succ(b0),
         DefinedAt(ir, v0, c0, 1)
  PROVE  DefinedAt(ir, v0, b0, Len(Body(b0)) + 1)
<1>a. c0 \in Block
  BY SuccFacts
<1>0. PICK c \in Block : \E h \in DOMAIN Body(c) :
        Inst(c, h).dst = v0 /\ IF c = c0 THEN h < 1 ELSE Dominates(ir, c, c0)
  BY DefinedIs
<1>1. PICK h \in DOMAIN Body(c) :
        Inst(c, h).dst = v0 /\ IF c = c0 THEN h < 1 ELSE Dominates(ir, c, c0)
  BY <1>0
<1>2. h \in 1 .. Len(Body(c)) /\ Len(Body(c)) \in Nat
  BY InstFacts, BlockFacts
<1>3. c # c0 /\ Dominates(ir, c, b0)
  BY <1>a, <1>1, <1>2, DomEdge
<1>4. IF c = b0 THEN h < Len(Body(b0)) + 1 ELSE Dominates(ir, c, b0)
  BY <1>2, <1>3
<1> QED
  BY <1>1, <1>4, DefinedIs

LEMMA DefinedEntry ==
  ASSUME ir \in Programs, NEW v0 \in Var
  PROVE  ~DefinedAt(ir, v0, 1, 1)
<1> SUFFICES ASSUME DefinedAt(ir, v0, 1, 1) PROVE FALSE
  OBVIOUS
<1>0. PICK c \in Block : \E h \in DOMAIN Body(c) :
        Inst(c, h).dst = v0 /\ IF c = 1 THEN h < 1 ELSE Dominates(ir, c, 1)
  BY DefinedIs
<1>1. PICK h \in DOMAIN Body(c) :
        Inst(c, h).dst = v0 /\ IF c = 1 THEN h < 1 ELSE Dominates(ir, c, 1)
  BY <1>0
<1>2. h \in 1 .. Len(Body(c)) /\ Len(Body(c)) \in Nat
  BY InstFacts, BlockFacts
<1>3. c # 1 /\ Dominates(ir, c, 1)
  BY <1>1, <1>2
<1> QED
  BY <1>3 DEF Dominates

\* What reaches a definition reaches all that it reaches.
LEMMA DefinedThrough ==
  ASSUME ir \in Programs, NEW v0 \in Var, NEW c0 \in Block, NEW h0 \in DOMAIN Body(c0),
         DefinedAt(ir, v0, c0, h0), Inst(c0, h0).dst \in Var,
         NEW b0 \in Block, NEW j0 \in Nat, DefinedAt(ir, Inst(c0, h0).dst, b0, j0)
  PROVE  DefinedAt(ir, v0, b0, j0)
<1>0. PICK e \in Block : \E g \in DOMAIN Body(e) :
        Inst(e, g).dst = v0 /\ IF e = c0 THEN g < h0 ELSE Dominates(ir, e, c0)
  BY DefinedIs
<1>1. PICK g \in DOMAIN Body(e) :
        Inst(e, g).dst = v0 /\ IF e = c0 THEN g < h0 ELSE Dominates(ir, e, c0)
  BY <1>0
<1>2. IF c0 = b0 THEN h0 < j0 ELSE Dominates(ir, c0, b0)
  BY DefinedHere
<1>3. g \in Nat /\ h0 \in Nat
  BY InstFacts
<1>4. IF e = b0 THEN g < j0 ELSE Dominates(ir, e, b0)
  <2>1. CASE c0 = b0
    BY <1>1, <1>2, <1>3, <2>1
  <2>2. CASE c0 # b0 /\ e = c0
    BY <1>2, <2>2
  <2>3. CASE c0 # b0 /\ e # c0 /\ e # b0
    BY <1>1, <1>2, <2>3, DomTrans
  <2>4. CASE c0 # b0 /\ e # c0 /\ e = b0
    BY <1>1, <1>2, <2>4, DomAnti
  <2> QED
    BY <2>1, <2>2, <2>3, <2>4
<1> QED
  BY <1>1, <1>4, DefinedIs

\* An operand is defined where it is used; that of a phi, at the end of its predecessor.
LEMMA UsedDefined ==
  ASSUME ir \in Programs, NEW b0 \in Block, NEW j0 \in DOMAIN Body(b0),
         NEW i0 \in DOMAIN Inst(b0, j0).args, Inst(b0, j0).args[i0] \in Var
  PROVE  IF Inst(b0, j0).op = "phi"
         THEN DefinedAt(ir, Inst(b0, j0).args[i0], Inst(b0, j0).in[i0], Len(Body(Inst(b0, j0).in[i0])) + 1)
         ELSE DefinedAt(ir, Inst(b0, j0).args[i0], b0, j0)
<1> DEFINE x == Inst(b0, j0)
           v == x.args[i0]
<1>1. InSsaForm(ir)
  BY ProgramAssumption
<1>2. <<b0, j0>> \in Places /\ At(ir, <<b0, j0>>) = x
  BY PlaceOf
<1>3. IF x.op = "phi" THEN DefinedAt(ir, v, x.in[i0], Len(ir.body[x.in[i0]]) + 1)
      ELSE DefinedAt(ir, v, <<b0, j0>>[1], <<b0, j0>>[2])
  BY <1>1, <1>2 DEF InSsaForm, Places
<1>4. <<b0, j0>>[1] = b0 /\ <<b0, j0>>[2] = j0
  OBVIOUS
<1> HIDE DEF x, v
<1>5. IF x.op = "phi" THEN DefinedAt(ir, v, x.in[i0], Len(Body(x.in[i0])) + 1)
      ELSE DefinedAt(ir, v, b0, j0)
  BY <1>3, <1>4 DEF Body
<1> QED
  BY <1>5 DEF v, x

\* ... and is used there.
LEMMA UsedThere ==
  ASSUME ir \in Programs, NEW b0 \in Block, NEW j0 \in DOMAIN Body(b0),
         NEW i0 \in DOMAIN Inst(b0, j0).args
  PROVE  <<b0, j0, i0>> \in Uses(Inst(b0, j0).args[i0])
<1> DEFINE d == <<b0, j0>>
           v == Inst(b0, j0).args[i0]
<1>1. d \in Places /\ At(ir, d) = Inst(b0, j0) /\ d[1] = b0 /\ d[2] = j0
  BY PlaceOf
<1>2. i0 \in {h \in DOMAIN At(ir, d).args : At(ir, d).args[h] = v}
  BY <1>1
<1> HIDE DEF v, d
<1>3. <<d[1], d[2], i0>> \in UNION {{<<e[1], e[2], i>> : i \in {h \in DOMAIN At(ir, e).args : At(ir, e).args[h] = v}} : e \in Places}
  BY <1>1, <1>2
<1> QED
  BY <1>1, <1>3 DEF Uses, UsesOf, Places, v

-----------------------------------------------------------------------------
(* Values that no register holds, and those that one does.                 *)

\* The result of instruction j of block b is only computed where it is used.
Dropped(b, j) ==
  \/ Fuses(b, j) \/ SelfTail(b, j) \/ BranchesOn(b, j)
  \/ Inst(b, j).op = "cmp" /\ (FlagsOnly(b, j) \/ ComparedLater(Inst(b, j).dst))

Solid(v) == \E b \in Block : \E j \in DOMAIN Body(b) :
              Inst(b, j).dst = v /\ Inst(b, j).op # "alias" /\ ~Dropped(b, j)

Needed(v) == \A b \in Block : \A j \in DOMAIN Body(b) : Inst(b, j).dst = v => ~Dropped(b, j)

\* The registers of variables that are written on every way to place j of block b.
Held(b, j) == {v \in Var : Solid(v) /\ DefinedAt(ir, v, b, j)}

\* The translation has passed place j of block b.
Translated(b, j) == pc # "select" \/ b < bb \/ (b = bb /\ j < k)

\* The register that stands for a variable is its own, or that of what it is another
\* name for.
Aliased ==
  \A b \in Block : \A j \in DOMAIN Body(b) : Inst(b, j).dst \in Var =>
    IF Inst(b, j).op = "alias" /\ Translated(b, j)
    THEN alias[Inst(b, j).dst] \in Held(b, j) \cup resolved
    ELSE alias[Inst(b, j).dst] = Inst(b, j).dst

\* The uses of a dropped value.
LEMMA DroppedUse ==
  ASSUME ir \in Programs, NEW b0 \in Block, NEW j0 \in DOMAIN Body(b0), Dropped(b0, j0),
         NEW c0 \in Block, NEW h0 \in DOMAIN Body(c0), NEW i0 \in DOMAIN Inst(c0, h0).args,
         Inst(c0, h0).args[i0] = Inst(b0, j0).dst
  PROVE  \/ Fuses(b0, j0) /\ c0 = b0 /\ h0 = j0 + 1 /\ Inst(c0, h0).op \in {"add", "sub"}
         \/ SelfTail(b0, j0) /\ c0 = b0 /\ h0 = j0 + 1 /\ Inst(c0, h0).op = "return"
         \/ BranchesOn(b0, j0) /\ c0 = b0 /\ h0 = j0 + 1 /\ Inst(c0, h0).op = "branch"
         \/ FlagsOnly(b0, j0) /\ c0 = b0 /\ h0 = j0 + 1 /\ Inst(c0, h0).op = "branch"
         \/ BranchesOn(c0, h0) /\ Inst(c0, h0).op = "and"
<1> DEFINE v == Inst(b0, j0).dst
           u == <<c0, h0, i0>>
<1>1. u \in Uses(v)
  BY UsedThere
<1> HIDE DEF u
<1>2. \A b, j, i : Uses(v) = {<<b, j, i>>} => c0 = b /\ h0 = j
  BY <1>1 DEF u
<1>3. CASE Fuses(b0, j0)
  <2>1. PICK i \in {1, 2} : Uses(v) = {<<b0, j0 + 1, i>>} /\ Inst(b0, j0 + 1).op \in {"add", "sub"}
    BY <1>3 DEF Fuses
  <2> QED
    BY <1>2, <1>3, <2>1
<1>4. CASE SelfTail(b0, j0)
  <2>1. Uses(v) = {<<b0, j0 + 1, 1>>} /\ Inst(b0, j0 + 1).op = "return"
    BY <1>4 DEF SelfTail
  <2> QED
    BY <1>2, <1>4, <2>1
<1>5. CASE BranchesOn(b0, j0)
  <2>1. Uses(v) = {<<b0, j0 + 1, 1>>} /\ Inst(b0, j0 + 1).op = "branch"
    BY <1>5 DEF BranchesOn, IsBranchAt
  <2> QED
    BY <1>2, <1>5, <2>1
<1>6. CASE FlagsOnly(b0, j0)
  <2>1. Uses(v) = {<<b0, j0 + 1, 1>>} /\ Inst(b0, j0 + 1).op = "branch"
    BY <1>6 DEF FlagsOnly, IsBranchAt
  <2> QED
    BY <1>2, <1>6, <2>1
<1>7. CASE ComparedLater(v)
  <2>1. PICK b \in Block : \E j \in DOMAIN Body(b) :
          BranchesOn(b, j) /\ \E i \in {1, 2} : Uses(v) = {<<b, j, i>>}
    BY <1>7 DEF ComparedLater
  <2>2. PICK j \in DOMAIN Body(b), i \in {1, 2} : BranchesOn(b, j) /\ Uses(v) = {<<b, j, i>>}
    BY <2>1
  <2>3. c0 = b /\ h0 = j
    BY <1>2, <2>2
  <2>4. BranchesOn(c0, h0)
    BY <2>2, <2>3
  <2> QED
    BY <2>4 DEF BranchesOn
<1> QED
  BY <1>3, <1>4, <1>5, <1>6, <1>7 DEF Dropped

LEMMA SolidHere ==
  ASSUME ir \in Programs, NEW b0 \in Block, NEW j0 \in DOMAIN Body(b0), Inst(b0, j0).dst \in Var
  PROVE  /\ Solid(Inst(b0, j0).dst) <=> Inst(b0, j0).op # "alias" /\ ~Dropped(b0, j0)
         /\ Needed(Inst(b0, j0).dst) <=> ~Dropped(b0, j0)
<1> DEFINE v == Inst(b0, j0).dst
<1>1. \A c \in Block : \A h \in DOMAIN Body(c) : Inst(c, h).dst = v => c = b0 /\ h = j0
  BY OneInst
<1>2. Inst(b0, j0).dst = v
  OBVIOUS
<1> HIDE DEF v
<1>3. Solid(v) <=> Inst(b0, j0).op # "alias" /\ ~Dropped(b0, j0)
  BY <1>1, <1>2 DEF Solid
<1>4. Needed(v) <=> ~Dropped(b0, j0)
  BY <1>1, <1>2 DEF Needed
<1> QED
  BY <1>3, <1>4 DEF v

\* One instruction on, its own value is held too.
LEMMA HeldNext ==
  ASSUME ir \in Programs, NEW b0 \in Block, NEW j0 \in Nat, NEW v0 \in Held(b0, j0 + 1)
  PROVE  \/ v0 \in Held(b0, j0)
         \/ /\ j0 \in DOMAIN Body(b0) /\ Inst(b0, j0).dst = v0
            /\ Inst(b0, j0).op # "alias" /\ ~Dropped(b0, j0)
<1>1. v0 \in Var /\ Solid(v0) /\ DefinedAt(ir, v0, b0, j0 + 1)
  BY DEF Held
<1>2. CASE DefinedAt(ir, v0, b0, j0)
  BY <1>1, <1>2 DEF Held
<1>3. CASE j0 \in DOMAIN Body(b0) /\ Inst(b0, j0).dst = v0
  BY <1>1, <1>3, SolidHere
<1> QED
  BY <1>1, <1>2, <1>3, DefinedNext

LEMMA AliasEarlier ==
  ASSUME ir \in Programs, NEW b0 \in Block, NEW j0, NEW c0 \in Block, NEW h0 \in DOMAIN Body(c0),
         Inst(c0, h0).op = "alias", Inst(c0, h0).dst \in Var, DefinedAt(ir, Inst(c0, h0).dst, b0, j0)
  PROVE  c0 < b0 \/ (c0 = b0 /\ h0 < j0)
<1>1. IF c0 = b0 THEN h0 < j0 ELSE Dominates(ir, c0, b0)
  BY DefinedHere
<1>2. c0 # b0 => c0 <= b0
  <2> SUFFICES ASSUME c0 # b0 PROVE c0 <= b0
    OBVIOUS
  <2> DEFINE d == <<c0, h0>>
  <2>1. d \in PlacesOf(ir) /\ At(ir, d).op = "alias" /\ d[1] = c0
    BY PlaceOf DEF Places
  <2>2. \A e \in PlacesOf(ir), b \in Block : At(ir, e).op = "alias" /\ Dominates(ir, e[1], b) => e[1] <= b
    BY ProgramAssumption DEF InSsaForm
  <2> HIDE DEF d
  <2>3. At(ir, d).op = "alias" /\ Dominates(ir, d[1], b0) => d[1] <= b0
    BY <2>1, <2>2
  <2> QED
    BY <1>1, <2>1, <2>3
<1> QED
  BY <1>1, <1>2 DEF Block

\* What stands for a variable that is needed is held where the variable is.
LEMMA OperandHeld ==
  ASSUME ir \in Programs, Aliased, NEW b0 \in Block, NEW j0 \in Nat, NEW v0 \in Var,
         DefinedAt(ir, v0, b0, j0), Needed(v0),
         pc # "select" \/ b0 < bb \/ (b0 = bb /\ j0 <= k),
         bb \in Nat, k \in Nat
  PROVE  alias[v0] \in Held(b0, j0) \cup resolved
<1>0. PICK c \in Block : \E h \in DOMAIN Body(c) :
        Inst(c, h).dst = v0 /\ IF c = b0 THEN h < j0 ELSE Dominates(ir, c, b0)
  BY DefinedIs
<1>1. PICK h \in DOMAIN Body(c) : Inst(c, h).dst = v0
  BY <1>0
<1>2. ~Dropped(c, h)
  BY <1>1 DEF Needed
<1>3. CASE Inst(c, h).op = "alias"
  <2>1. c < b0 \/ (c = b0 /\ h < j0)
    BY <1>1, <1>3, AliasEarlier
  <2>2. c \in Nat /\ b0 \in Nat /\ h \in Nat
    BY InstFacts DEF Block
  <2>3. Translated(c, h)
    BY <2>1, <2>2 DEF Translated
  <2>4. alias[v0] \in Held(c, h) \cup resolved
    BY <1>1, <1>3, <2>3 DEF Aliased
  <2>5. alias[v0] \in Held(c, h) => alias[v0] \in Held(b0, j0)
    <3> SUFFICES ASSUME alias[v0] \in Held(c, h) PROVE alias[v0] \in Held(b0, j0)
      OBVIOUS
    <3>1. alias[v0] \in Var /\ Solid(alias[v0]) /\ DefinedAt(ir, alias[v0], c, h)
      BY DEF Held
    <3>2. DefinedAt(ir, alias[v0], b0, j0)
      BY <1>1, <3>1, DefinedThrough
    <3> QED
      BY <3>1, <3>2 DEF Held
  <2> QED
    BY <2>4, <2>5
<1>4. CASE Inst(c, h).op # "alias"
  <2>1. alias[v0] = v0
    BY <1>1, <1>4 DEF Aliased
  <2>2. Solid(v0)
    BY <1>1, <1>2, <1>4 DEF Solid
  <2> QED
    BY <2>1, <2>2 DEF Held
<1> QED
  BY <1>3, <1>4

-----------------------------------------------------------------------------
(* What depends only on the function that is lowered stays.                *)

LEMMA SameShape ==
  ASSUME ir' = ir
  PROVE  /\ \A b, j : Inst(b, j)' = Inst(b, j) /\ Fuses(b, j)' = Fuses(b, j)
                      /\ SelfTail(b, j)' = SelfTail(b, j) /\ Dropped(b, j)' = Dropped(b, j)
         /\ \A b : Body(b)' = Body(b) /\ Succ(b)' = Succ(b) /\ Pred(b)' = Pred(b) /\ Phis(b)' = Phis(b)
         /\ \A b, j : Held(b, j)' = Held(b, j)
         /\ \A v : Solid(v)' = Solid(v)
<1>1. \A b, j : Inst(b, j)' = Inst(b, j)
  BY DEF Inst, Body
<1>2. \A b : Body(b)' = Body(b) /\ Succ(b)' = Succ(b) /\ Pred(b)' = Pred(b) /\ Phis(b)' = Phis(b)
  BY DEF Body, Succ, Pred, Phis
<1>3. \A v : Uses(v)' = Uses(v) /\ DefOf(v)' = DefOf(v)
  BY DEF Uses, DefOf
<1>4. \A b, j : Fuses(b, j)' = Fuses(b, j)
  BY DEF Fuses, Inst, Body, Uses
<1>5. \A b, j : SelfTail(b, j)' = SelfTail(b, j)
  BY DEF SelfTail, Inst, Body, Uses
<1>6. \A v : AndOfCmps(v)' = AndOfCmps(v)
  BY DEF AndOfCmps, IsCmp, DefOf
<1>7. \A b, j : BranchesOn(b, j)' = BranchesOn(b, j)
  BY DEF BranchesOn, IsBranchAt, AndOfCmps, IsCmp, DefOf, Inst, Body, Uses
<1>8. \A v : ComparedLater(v)' = ComparedLater(v)
  BY DEF ComparedLater, BranchesOn, IsBranchAt, AndOfCmps, IsCmp, DefOf, Inst, Body, Uses
<1>9. \A b, j : FlagsOnly(b, j)' = FlagsOnly(b, j)
  BY DEF FlagsOnly, IsBranchAt, Inst, Body, Uses
<1>10. \A b, j : Dropped(b, j)' = Dropped(b, j)
  BY DEF Dropped, FlagsOnly, ComparedLater, Fuses, SelfTail, BranchesOn, IsBranchAt, AndOfCmps, IsCmp, DefOf, Inst, Body, Uses
<1>11. \A v : Solid(v)' = Solid(v)
  BY DEF Solid, Dropped, FlagsOnly, ComparedLater, Fuses, SelfTail, BranchesOn, IsBranchAt, AndOfCmps, IsCmp, DefOf, Inst, Body, Uses
<1>12. \A b, j : Held(b, j)' = Held(b, j)
  BY DEF Held, Solid, Dropped, FlagsOnly, ComparedLater, Fuses, SelfTail, BranchesOn, IsBranchAt, AndOfCmps, IsCmp, DefOf, Inst, Body, Uses
<1> QED
  BY <1>1, <1>2, <1>4, <1>5, <1>10, <1>11, <1>12

LEMMA AliasedKept ==
  ASSUME Aliased, UNCHANGED <<ir, alias>>, resolved \subseteq resolved',
         \A b \in Block : \A j \in DOMAIN Body(b) :
           Inst(b, j).op = "alias" => (Translated(b, j)' <=> Translated(b, j))
  PROVE  Aliased'
BY SameShape DEF Aliased

-----------------------------------------------------------------------------
(* What every block is reached with, and what its code leaves.             *)

Dsts(b) == {Inst(b, j).dst : j \in DOMAIN Phis(b)}
Copies(b) == {Vr(b, j) : j \in DOMAIN Phis(b)}
MagicsOf(A) == {Magic(c) : c \in A}
Arguments == SlotsOf(1 .. ir.arity)

\* Block b has been translated; its phis have been lowered.
Past(b) == pc # "select" \/ b < bb \/ (b = bb /\ k > Len(Body(b)))
Done(b) == pc = "run" \/ (pc = "phis" /\ b < bb)

\* The place that the translation of block b has come to.
Pos(b) == IF Past(b) THEN Len(Body(b)) + 1 ELSE IF b = bb THEN k ELSE 1

\* What the blocks before b leave its phis in.
Passed(b) == IF Done(b) /\ ~CanDirect(b) THEN Copies(b) ELSE Dsts(b)

Shared(b) == IF b = 1 THEN {} ELSE MagicsOf(shared)
Base(b) == IF b = 1 THEN Arguments ELSE Held(b, 1) \cup resolved \cup Shared(b)
Have(b) == Held(b, Pos(b)) \cup Dsts(b) \cup resolved \cup Shared(b)

\* What the block that b goes to is reached with.
Restarts(b) == \E j \in DOMAIN Body(b) : SelfTail(b, j)
Onward(b) == UNION {Passed(c) : c \in {d \in Succ(b) : Done(d)}}
Again(b) == IF Past(b) /\ Restarts(b) THEN Arguments ELSE {}

Good(b, X) ==
  /\ Leads(Base(b) \cup Passed(b), before[b], X)
  /\ Have(b) \cup Onward(b) \cup Again(b) \subseteq X
  /\ Past(b) => Leads(X, after[b], X)

Flow == \A b \in Block : \E X \in SUBSET Reg : Good(b, X)

\* A parameter on the stack is loaded in the entry.
LoadsInEntry ==
  \A b \in Block \ {1} : \A i \in 1 .. Len(before[b]) : before[b][i].op # "load_param"

\* Code that reads nothing.
Free(code) == \A S \in SUBSET Reg : Leads(S, code, S)

\* The operands of the function.
Arg == Var \cup Const \cup {Params[i] : i \in 1 .. ir.arity}

LEMMA ArgFacts ==
  ASSUME ir \in Programs
  PROVE  /\ Arg \subseteq Operands
         /\ \A p \in Arg \cap Param : \E i \in 1 .. ir.arity : i \in DOMAIN Params /\ p = Params[i]
         /\ \A b \in Block : \A j \in DOMAIN Body(b) : Inst(b, j).args \in Seq(Arg)
<1>1. ir.arity \in 0 .. Len(Params) /\ Len(Params) \in Nat /\ DOMAIN Params = 1 .. Len(Params)
  <2>1. 1 \in Block
    BY SizeAssumption DEF Block
  <2> QED
    BY <2>1, BlockFacts
<1>2. \A i \in 1 .. ir.arity : i \in DOMAIN Params
  BY <1>1
<1>3. Arg \subseteq Operands
  BY <1>2 DEF Arg, Operands, Param
<1>4. ASSUME NEW b \in Block, NEW j \in DOMAIN Body(b)
      PROVE  Inst(b, j).args \in Seq(Arg)
  BY <1>4, InstFacts DEF Instruction, Arg
<1>5. ASSUME NEW p \in Arg \cap Param
      PROVE  \E i \in 1 .. ir.arity : i \in DOMAIN Params /\ p = Params[i]
  BY <1>2, OperandAssumption DEF Arg
<1> QED
  BY <1>3, <1>4, <1>5

LEMMA FirstMetFacts ==
  ASSUME NEW met \in Seq(Arg \X Block), NEW p0 \in Met(met)
  PROVE  FirstMet(p0, met) \in Block /\ p0 \in Arg \cap Param
<1> DEFINE A == Arg \X Block
           T == {i \in DOMAIN met : met[i][1] = p0}
           Is(i) == i \in DOMAIN met /\ met[i][1] = p0 /\ \A h \in 1 .. i - 1 : met[h][1] # p0
<1>0. met \in Seq(A) /\ \A a \in A : a[1] \in Arg /\ a[2] \in Block
  OBVIOUS
<1> HIDE DEF A
<1>1. DOMAIN met = 1 .. Len(met) /\ Len(met) \in Nat /\ \A i \in DOMAIN met : met[i] \in A
  BY <1>0
<1>2. p0 \in Param /\ T # {} /\ T \subseteq Nat
  BY <1>1 DEF Met
<1>3. PICK i \in T : \A h \in T : i <= h
  BY <1>2, LeastOf
<1>4. Is(i)
  BY <1>1, <1>3
<1>5. \E h : Is(h)
  BY <1>4
<1>6. Is(CHOOSE h : Is(h))
  BY <1>5
<1>7. FirstMet(p0, met) = met[CHOOSE h : Is(h)][2]
  BY DEF FirstMet
<1> HIDE DEF Is
<1>8. FirstMet(p0, met) \in Block
  BY <1>0, <1>1, <1>6, <1>7 DEF Is
<1>9. p0 \in Arg
  BY <1>0, <1>1, <1>4 DEF Is
<1> QED
  BY <1>2, <1>8, <1>9

\* A parameter in a register is copied from an argument of the function.
LEMMA ParamCodeFacts ==
  ASSUME ir \in Programs, NEW met \in Seq(Arg \X Block), NEW p0 \in Met(met)
  PROVE  /\ ParamCode(p0, met).inst \in Inner /\ IsMove(ParamCode(p0, met).inst)
         /\ ParamCode(p0, met).inst.dst = p0 /\ Readable(ParamCode(p0, met).inst, Arguments)
         /\ ParamCode(p0, met).block \in Block
         /\ ParamCode(p0, met).block = 1 \/ ParamCode(p0, met).inst.op = "load_param"
<1> DEFINE i == CHOOSE h \in DOMAIN Params : Params[h] = p0
<1>1. FirstMet(p0, met) \in Block /\ p0 \in Arg \cap Param
  BY FirstMetFacts
<1>2. PICK h \in 1 .. ir.arity : h \in DOMAIN Params /\ p0 = Params[h]
  BY <1>1, ArgFacts
<1>3. i \in DOMAIN Params /\ Params[i] = p0
  BY <1>2
<1> HIDE DEF i
<1>4. i = h
  BY <1>2, <1>3, OperandAssumption DEF IsInjective
<1>5. ParamCode(p0, met).inst \in Inner
  BY <1>1, ParamCodeTyped
<1>6. 1 \in Block
  BY SizeAssumption DEF Block
<1>7. CASE OnStack(p0)
  <2>1. ParamCode(p0, met) = [block |-> FirstMet(p0, met), inst |-> LoadParam(p0)]
    BY <1>7 DEF ParamCode
  <2>2. LoadParam(p0).op = "load_param" /\ LoadParam(p0).dst = p0 /\ LoadParam(p0).src = <<>>
        /\ LoadParam(p0).cond = "any"
    BY DEF LoadParam, MI
  <2>3. Readable(LoadParam(p0), Arguments)
    BY <2>2 DEF Readable
  <2> QED
    BY <1>1, <1>5, <2>1, <2>2, <2>3 DEF IsMove
<1>8. CASE ~OnStack(p0)
  <2>1. ParamCode(p0, met) = [block |-> 1, inst |-> Mv(p0, Slots[i])]
    BY <1>8 DEF ParamCode, i
  <2>2. Mv(p0, Slots[i]).op = "mv" /\ Mv(p0, Slots[i]).dst = p0 /\ Mv(p0, Slots[i]).src = <<Slots[i]>>
        /\ Mv(p0, Slots[i]).cond = "any"
    BY DEF Mv, MI
  <2>3. DOMAIN Params = 1 .. Len(Params) /\ Len(Params) \in Nat
    BY OperandAssumption
  <2>4. i \in DOMAIN Slots
    BY <1>3, <1>8, <2>3, SlotFacts DEF OnStack
  <2>5. Slots[i] \in Arguments
    BY <1>2, <1>4, <2>4 DEF Arguments, SlotsOf
  <2>6. Readable(Mv(p0, Slots[i]), Arguments)
    BY <2>2, <2>5, ReadableOnes
  <2> QED
    BY <1>5, <1>6, <2>1, <2>2, <2>6 DEF IsMove
<1> QED
  BY <1>7, <1>8

LEMMA ParamsFlow ==
  ASSUME CodeInv, NEW code \in [Block -> Seq(Inner)], NEW met \in Seq(Arg \X Block),
         Resolve(code, met), LoadsInEntry'
  PROVE  /\ \A b \in Block \ {1} : before'[b] = code[b]
         /\ \E w \in Seq(Inner) :
              before'[1] = w \o code[1] /\ Leads(Arguments, w, Arguments \cup Met(met))
         /\ resolved' = resolved \cup Met(met) /\ Met(met) \subseteq Param
<1> DEFINE new == {ParamCode(p, met) : p \in Met(met)}
           here(b) == {c.inst : c \in {n \in new : n.block = b}}
<1>1. ir \in Programs /\ resolved' = resolved \cup Met(met) /\ Met(met) \subseteq Param
  BY DEF CodeInv, Where, Resolve, Met
<1>2. IsFiniteSet(Met(met))
  BY <1>1, ParamFinite, FS_Subset
<1>3. IsFiniteSet(new)
  <2> DEFINE f == [p \in Met(met) |-> ParamCode(p, met)]
  <2>1. DOMAIN f = Met(met) /\ {f[p] : p \in Met(met)} = new
    OBVIOUS
  <2> HIDE DEF f, new
  <2> QED
    BY <1>2, <2>1, ImageFinite
<1>4. \A b : IsFiniteSet(here(b))
  <2> SUFFICES ASSUME NEW b PROVE IsFiniteSet(here(b))
    OBVIOUS
  <2> DEFINE S == {n \in new : n.block = b}
             f == [c \in S |-> c.inst]
  <2>1. DOMAIN f = S /\ {f[c] : c \in S} = here(b)
    OBVIOUS
  <2>2. IsFiniteSet(S)
    BY <1>3, FS_Subset
  <2> HIDE DEF f, S, here
  <2> QED
    BY <2>1, <2>2, ImageFinite
<1>5. before' = [b \in Block |-> SetToSeq(here(b)) \o code[b]]
  BY DEF Resolve, WithParams
<1>6. \A p \in Met(met) :
        /\ ParamCode(p, met).inst \in Inner /\ IsMove(ParamCode(p, met).inst)
        /\ ParamCode(p, met).inst.dst = p /\ Readable(ParamCode(p, met).inst, Arguments)
        /\ ParamCode(p, met).block \in Block
        /\ ParamCode(p, met).block = 1 \/ ParamCode(p, met).inst.op = "load_param"
  BY <1>1, ParamCodeFacts
<1>7. \A b \in Block : \A x \in here(b) : x \in Inner /\ (b = 1 \/ x.op = "load_param")
  BY <1>6
<1>a. \A p \in Met(met) : ParamCode(p, met).inst \in here(ParamCode(p, met).block)
  OBVIOUS
<1>b. \A x \in here(1) : x \in Inner /\ IsMove(x) /\ Readable(x, Arguments)
  BY <1>6
<1> HIDE DEF here, new
<1>8. ASSUME NEW b \in Block
      PROVE  /\ SetToSeq(here(b)) \in Seq(Inner) /\ SetToSeq(here(b)) \in Seq(here(b))
             /\ \A x \in here(b) : \E n \in 1 .. Len(SetToSeq(here(b))) : SetToSeq(here(b))[n] = x
             /\ before'[b] = SetToSeq(here(b)) \o code[b] /\ code[b] \in Seq(Inner)
  <2>1. SetToSeq(here(b)) \in Seq(here(b))
        /\ \A x \in here(b) : \E n \in 1 .. Len(SetToSeq(here(b))) : SetToSeq(here(b))[n] = x
    BY <1>4, SetToSeqIs
  <2>2. here(b) \subseteq Inner
    BY <1>7
  <2>3. SetToSeq(here(b)) \in Seq(Inner)
    BY <2>1, <2>2, SeqMonotonic
  <2> QED
    BY <1>5, <2>1, <2>3
<1>9. ASSUME NEW b \in Block \ {1}
      PROVE  here(b) = {} /\ before'[b] = code[b]
  <2> DEFINE s == SetToSeq(here(b))
  <2>1. s \in Seq(Inner) /\ s \in Seq(here(b)) /\ before'[b] = s \o code[b] /\ code[b] \in Seq(Inner)
        /\ \A x \in here(b) : \E n \in 1 .. Len(s) : s[n] = x
    BY <1>8
  <2> HIDE DEF s
  <2>2. Len(s \o code[b]) = Len(s) + Len(code[b]) /\ \A i \in 1 .. Len(s) : (s \o code[b])[i] = s[i]
    BY <2>1, JoinAt
  <2>3. Len(s) \in Nat /\ Len(code[b]) \in Nat
    BY <2>1
  <2>4. \A n \in 1 .. Len(s) : n \in 1 .. Len(before'[b]) /\ before'[b][n] = s[n]
    BY <2>1, <2>2, <2>3
  <2>5. \A n \in 1 .. Len(s) : s[n].op # "load_param"
    BY <2>4 DEF LoadsInEntry
  <2>6. here(b) = {}
    <3> SUFFICES ASSUME NEW x \in here(b) PROVE FALSE
      OBVIOUS
    <3>1. x.op = "load_param"
      BY <1>7
    <3>2. PICK n \in 1 .. Len(s) : s[n] = x
      BY <2>1
    <3> QED
      BY <2>5, <3>1, <3>2
  <2>7. s = <<>>
    BY <2>1, <2>6
  <2>8. <<>> \o code[b] = code[b]
    BY <2>1
  <2> QED
    BY <2>1, <2>6, <2>7, <2>8
<1>10. \E w \in Seq(Inner) :
         before'[1] = w \o code[1] /\ Leads(Arguments, w, Arguments \cup Met(met))
  <2> DEFINE s == SetToSeq(here(1))
             D == {s[n].dst : n \in 1 .. Len(s)}
  <2>1. 1 \in Block
    BY SizeAssumption DEF Block
  <2>2. s \in Seq(Inner) /\ s \in Seq(here(1)) /\ before'[1] = s \o code[1]
        /\ \A x \in here(1) : \E n \in 1 .. Len(s) : s[n] = x
    BY <1>8, <2>1
  <2> HIDE DEF s
  <2>3. \A n \in 1 .. Len(s) : s[n] \in here(1)
    BY <2>2
  <2>4. s \in Seq(MInst) /\ Arguments \subseteq Reg
    BY <2>2, SeqMonotonic, InnerOuter, RegFacts, SlotFacts DEF Arguments, SlotsOf
  <2>5. \A n \in 1 .. Len(s) : IsMove(s[n]) /\ Readable(s[n], Arguments)
    BY <1>b, <2>3
  <2>6. Leads(Arguments, s, Arguments \cup D)
    BY <2>4, <2>5, LeadsMoves
  <2>7. Met(met) \subseteq D
    <3> SUFFICES ASSUME NEW p \in Met(met) PROVE p \in D
      OBVIOUS
    <3>1. ParamCode(p, met).block = 1
      BY <1>6, <1>9, <1>a
    <3>2. ParamCode(p, met).inst \in here(1) /\ ParamCode(p, met).inst.dst = p
      BY <1>6, <1>a, <3>1
    <3> QED
      BY <2>2, <3>2
  <2>8. Leads(Arguments, s, Arguments \cup Met(met))
    <3> HIDE DEF D
    <3>1. Arguments \subseteq Arguments /\ Arguments \cup Met(met) \subseteq Arguments \cup D
      BY <2>7
    <3> QED
      BY <2>6, <3>1, LeadsWeaker
  <2> QED
    BY <2>2, <2>8
<1> QED
  BY <1>1, <1>9, <1>10

LEMMA MagicFacts ==
  ASSUME NEW A, A \subseteq Const
  PROVE  MagicsOf(A) \subseteq Reg /\ MagicsOf(A) \cap Slot = {}
<1>1. \A c \in A : Magic(c) \in Fresh
  BY DEF Magic, Fresh
<1> QED
  BY <1>1, RegFacts, SlotAssumption DEF MagicsOf, Fresh

\* None of what is kept is a register that a call overwrites.
LEMMA RegSets ==
  ASSUME CodeInv, NEW b0 \in Block
  PROVE  /\ Arguments \subseteq Slot /\ Arguments \subseteq Reg
         /\ Dsts(b0) \subseteq Var /\ Copies(b0) \subseteq Fresh /\ Passed(b0) \subseteq Reg
         /\ Passed(b0) \cap Slot = {}
         /\ Shared(b0) \subseteq Reg /\ Shared(b0) \cap Slot = {}
         /\ Have(b0) \subseteq Reg /\ Have(b0) \cap Slot = {} /\ Base(b0) \subseteq Reg
         /\ Onward(b0) \subseteq Reg /\ Again(b0) \subseteq Reg
<1>1. ir \in Programs /\ resolved \subseteq Param /\ shared \subseteq Const
  BY DEF CodeInv, Where, Coded
<1>2. Arguments \subseteq Slot /\ Arguments \subseteq Reg
  BY SlotFacts DEF Arguments, SlotsOf
<1>3. \A b \in Block : Dsts(b) \subseteq Var /\ Copies(b) \subseteq Fresh
  <2> SUFFICES ASSUME NEW b \in Block PROVE Dsts(b) \subseteq Var /\ Copies(b) \subseteq Fresh
    OBVIOUS
  <2>1. \A j \in DOMAIN Phis(b) : j \in DOMAIN Body(b) /\ Inst(b, j).op = "phi" /\ j \in Nat
    BY <1>1, PhisFacts
  <2>2. \A j \in DOMAIN Phis(b) : Inst(b, j).dst \in Var
    BY <1>1, <2>1, FieldFacts DEF Terminators
  <2> QED
    BY <2>1, <2>2 DEF Dsts, Copies, Vr, Fresh, Block
<1>4. Var \cap Slot = {} /\ Param \cap Slot = {} /\ Fresh \cap Slot = {}
  BY SlotAssumption DEF Fresh
<1>5. \A b \in Block : Passed(b) \subseteq Reg /\ Passed(b) \cap Slot = {}
  BY <1>3, <1>4, RegFacts DEF Passed
<1>6. Shared(b0) \subseteq Reg /\ Shared(b0) \cap Slot = {}
  BY <1>1, MagicFacts DEF Shared
<1>7. \A j : Held(b0, j) \subseteq Var
  BY DEF Held
<1>8. Have(b0) \subseteq Reg /\ Have(b0) \cap Slot = {}
  BY <1>1, <1>3, <1>4, <1>6, <1>7, RegFacts DEF Have
<1>9. Base(b0) \subseteq Reg
  BY <1>1, <1>2, <1>6, <1>7, RegFacts DEF Base
<1>10. Succ(b0) \subseteq Block
  BY <1>1, SuccFacts
<1>11. Onward(b0) \subseteq Reg /\ Again(b0) \subseteq Reg
  BY <1>2, <1>5, <1>10 DEF Onward, Again
<1> QED
  BY <1>2, <1>3, <1>5, <1>6, <1>8, <1>9, <1>11

-----------------------------------------------------------------------------
(* Code that is added.                                                     *)

\* The parameters and the shared divisors of a step come before what it adds.
Added(b, met) == Met(met) \cup Shared(b)'

LEMMA Prefix ==
  ASSUME CodeInv, NEW code \in [Block -> Seq(Inner)], NEW met \in Seq(Arg \X Block),
         Resolve(code, met), LoadsInEntry', ir' = ir, shared \subseteq shared', shared' \subseteq Const,
         NEW b0 \in Block, NEW S, S \subseteq Reg, S \cap Slot = {},
         NEW Y, Leads(Base(b0) \cup Added(b0, met) \cup S, code[b0], Y)
  PROVE  Leads(Base(b0)' \cup S, before'[b0], Y)
<1>1. /\ \A b \in Block \ {1} : before'[b] = code[b]
      /\ \E w \in Seq(Inner) :
           before'[1] = w \o code[1] /\ Leads(Arguments, w, Arguments \cup Met(met))
      /\ resolved' = resolved \cup Met(met) /\ Met(met) \subseteq Param
  BY ParamsFlow
<1>2. Arguments' = Arguments /\ Held(b0, 1)' = Held(b0, 1)
  BY SameShape DEF Arguments
<1>3. CASE b0 # 1
  <2>1. before'[b0] = code[b0]
    BY <1>1, <1>3
  <2>2. Base(b0) = Held(b0, 1) \cup resolved \cup MagicsOf(shared)
    BY <1>3 DEF Base, Shared
  <2>3. Base(b0)' = Held(b0, 1) \cup resolved' \cup MagicsOf(shared')
    BY <1>2, <1>3 DEF Base, Shared, MagicsOf
  <2>4. Added(b0, met) = Met(met) \cup MagicsOf(shared')
    BY <1>3 DEF Added, Shared, MagicsOf
  <2>5. MagicsOf(shared) \subseteq MagicsOf(shared')
    BY DEF MagicsOf
  <2>6. Base(b0) \cup Added(b0, met) \cup S \subseteq Base(b0)' \cup S
    BY <1>1, <2>2, <2>3, <2>4, <2>5
  <2>7. Y \subseteq Y
    OBVIOUS
  <2> QED
    BY <2>1, <2>6, <2>7, LeadsWeaker
<1>4. CASE b0 = 1
  <2>1. PICK w \in Seq(Inner) :
          before'[1] = w \o code[1] /\ Leads(Arguments, w, Arguments \cup Met(met))
    BY <1>1
  <2>2. Base(b0) = Arguments /\ Base(b0)' = Arguments /\ Added(b0, met) = Met(met)
    BY <1>2, <1>4 DEF Base, Added, Shared
  <2>3. Leads(Arguments \cup S, w, (Arguments \cup Met(met)) \cup S)
    BY <2>1, LeadsFrame
  <2>4. w \in Seq(MInst) /\ code[b0] \in Seq(MInst)
    BY SeqMonotonic, InnerOuter
  <2>5. Leads((Arguments \cup Met(met)) \cup S, code[b0], Y)
    BY <2>2
  <2>6. Leads(Arguments \cup S, w \o code[b0], Y)
    BY <2>3, <2>4, <2>5, LeadsThen
  <2> QED
    BY <1>4, <2>1, <2>2, <2>6
<1> QED
  BY <1>3, <1>4

\* What the code of b led to is there, and what is added leads on from it.
LEMMA Onto ==
  ASSUME CodeInv, NEW met \in Seq(Arg \X Block), shared' \subseteq Const,
         NEW b0 \in Block, NEW X, X \subseteq Reg, Leads(Base(b0) \cup Passed(b0), before[b0], X),
         NEW v \in Seq(Inner), NEW Y, Leads(X \cup Added(b0, met), v, Y)
  PROVE  Leads(Base(b0) \cup Added(b0, met) \cup Passed(b0), before[b0] \o v, Y)
<1> DEFINE F == Added(b0, met)
<1>1. F \subseteq Reg /\ F \cap Slot = {}
  <2>1. Met(met) \subseteq Param
    BY DEF Met
  <2>2. MagicsOf(shared') \subseteq Reg /\ MagicsOf(shared') \cap Slot = {}
    BY MagicFacts
  <2>3. Shared(b0)' \subseteq MagicsOf(shared')
    BY DEF Shared, MagicsOf
  <2> QED
    BY <2>1, <2>2, <2>3, RegFacts, SlotAssumption DEF Added
<1>2. before[b0] \in Seq(MInst) /\ v \in Seq(MInst)
  BY CodeTyped, SeqMonotonic, InnerOuter DEF CodeInv
<1>3. Leads((Base(b0) \cup Passed(b0)) \cup F, before[b0], X \cup F)
  BY <1>1, LeadsFrame
<1> HIDE DEF F
<1>4. Leads((Base(b0) \cup Passed(b0)) \cup F, before[b0] \o v, Y)
  BY <1>2, <1>3, LeadsThen DEF F
<1>5. (Base(b0) \cup Passed(b0)) \cup F = Base(b0) \cup F \cup Passed(b0)
  OBVIOUS
<1> QED
  BY <1>4, <1>5 DEF F

\* What a step of the translation leaves as it was.
LEMMA SelectSets ==
  ASSUME CodeInv, pc = "select", UNCHANGED <<ir, bb, pc>>, k \in DOMAIN Body(bb),
         k' \in {k + 1, k + 2}, k' <= Len(Body(bb)) + 1, NEW b0 \in Block
  PROVE  /\ Passed(b0) = Dsts(b0) /\ Passed(b0)' = Dsts(b0) /\ Onward(b0)' = {} /\ Onward(b0) = {}
         /\ b0 # bb => /\ (Past(b0)' <=> Past(b0)) /\ Again(b0)' = Again(b0)
                       /\ Have(b0)' = Held(b0, Pos(b0)) \cup Dsts(b0) \cup resolved' \cup Shared(b0)'
         /\ b0 = bb => /\ ~Past(b0) /\ (Past(b0)' <=> k' > Len(Body(bb)))
                       /\ Have(b0)' = Held(b0, k') \cup Dsts(b0) \cup resolved' \cup Shared(b0)'
                       /\ Again(b0)' = IF k' > Len(Body(bb)) /\ Restarts(bb) THEN Arguments ELSE {}
<1>1. Len(Body(bb)) \in Nat /\ k \in 1 .. Len(Body(bb)) /\ k \in Nat /\ bb \in Nat /\ b0 \in Nat
  BY BlockFacts DEF CodeInv, Where, Block
<1>2. \A b : Body(b)' = Body(b) /\ Succ(b)' = Succ(b) /\ Phis(b)' = Phis(b)
  BY SameShape
<1>3. \A b, j : Held(b, j)' = Held(b, j) /\ Inst(b, j)' = Inst(b, j) /\ SelfTail(b, j)' = SelfTail(b, j)
  BY SameShape
<1>a. \A v : Solid(v)' = Solid(v)
  BY SameShape
<1>4. \A b : ~Done(b) /\ ~Done(b)'
  BY DEF Done
<1>5. Dsts(b0)' = Dsts(b0)
  BY <1>2, <1>3 DEF Dsts
<1>6. Passed(b0) = Dsts(b0) /\ Passed(b0)' = Dsts(b0)
  BY <1>4, <1>5 DEF Passed
<1>7. Onward(b0)' = {} /\ Onward(b0) = {}
  BY <1>2, <1>4 DEF Onward
<1>8. Restarts(b0)' = Restarts(b0) /\ Arguments' = Arguments
  BY <1>2, <1>3 DEF Restarts, Arguments
<1>9. Past(b0)' <=> b0 < bb \/ (b0 = bb /\ k' > Len(Body(b0)))
  BY <1>2 DEF Past
<1>10. Past(b0) <=> b0 < bb
  BY <1>1 DEF Past
<1>11. Again(b0)' = IF Past(b0)' /\ Restarts(b0) THEN Arguments ELSE {}
  BY <1>8 DEF Again
<1>12. CASE b0 # bb
  <2>1. (Past(b0)' <=> Past(b0))
    BY <1>9, <1>10, <1>12
  <2>2. Again(b0)' = Again(b0)
    BY <1>11, <2>1 DEF Again
  <2>3. Pos(b0)' = Pos(b0)
    BY <1>2, <1>12, <2>1 DEF Pos
  <2>5. Held(b0, Pos(b0))' = Held(b0, Pos(b0))
    BY <1>a, <2>3 DEF Held
  <2> QED
    BY <1>5, <1>6, <1>7, <1>12, <2>1, <2>2, <2>5 DEF Have
<1>13. CASE b0 = bb
  <2>1. ~Past(b0) /\ (Past(b0)' <=> k' > Len(Body(bb)))
    BY <1>1, <1>9, <1>10, <1>13
  <2>2. Pos(b0)' = k'
    <3>1. Pos(b0)' = IF Past(b0)' THEN Len(Body(b0)) + 1 ELSE k'
      BY <1>2, <1>13 DEF Pos
    <3> QED
      BY <1>1, <1>13, <2>1, <3>1
  <2>3. Held(b0, Pos(b0))' = Held(b0, k')
    BY <1>a, <2>2 DEF Held
  <2> QED
    BY <1>5, <1>6, <1>7, <1>11, <1>13, <2>1, <2>3 DEF Have
<1> QED
  BY <1>12, <1>13

\* A step of the translation adds insts to block bb.
LEMMA SelectFlow ==
  ASSUME CodeInv, Flow, pc = "select", UNCHANGED <<ir, bb, pc>>, k \in DOMAIN Body(bb),
         k' \in {k + 1, k + 2}, k' <= Len(Body(bb)) + 1,
         LoadsInEntry', shared \subseteq shared', shared' \subseteq Const,
         NEW insts \in Seq(Inner), NEW met \in Seq(Arg \X Block), Resolve(Append1(insts), met),
         \A b \in Block \ {bb} : after'[b] = after[b] \/ Free(after'[b]),
         NEW Y \in SUBSET Reg, Leads(Have(bb) \cup Added(bb, met), insts, Y),
         Have(bb) \cup Added(bb, met) \subseteq Y, Held(bb, k') \subseteq Y,
         k' > Len(Body(bb)) => Leads(Y, after'[bb], Y) /\ (Restarts(bb) => Arguments \subseteq Y)
  PROVE  Flow'
<1> DEFINE code == Append1(insts)
<1>1. ir \in Programs /\ bb \in Block /\ before \in [Block -> Seq(Inner)]
  BY DEF CodeInv, Where, Coded
<1>2. /\ code \in [Block -> Seq(Inner)] /\ code[bb] = before[bb] \o insts
      /\ \A b \in Block \ {bb} : code[b] = before[b]
  BY <1>1 DEF Append1
<1>3. Resolve(code, met)
  OBVIOUS
<1> HIDE DEF code
<1>4. resolved' = resolved \cup Met(met) /\ Met(met) \subseteq Param
  BY <1>2, <1>3, ParamsFlow
<1>5. SUFFICES ASSUME NEW b \in Block
               PROVE  \E Z \in SUBSET Reg :
                        /\ Leads(Base(b)' \cup Passed(b)', before'[b], Z)
                        /\ Have(b)' \cup Onward(b)' \cup Again(b)' \subseteq Z
                        /\ Past(b)' => Leads(Z, after'[b], Z)
  BY DEF Flow, Good
<1>6. PICK X \in SUBSET Reg : Good(b, X)
  BY DEF Flow
<1>7. Passed(b) \subseteq Reg /\ Passed(b) \cap Slot = {} /\ Shared(b)' \subseteq MagicsOf(shared')
  BY RegSets DEF Shared, MagicsOf
<1> DEFINE F == Added(b, met)
<1>8. F \subseteq Reg /\ F \cap Slot = {}
  <2>1. MagicsOf(shared') \subseteq Reg /\ MagicsOf(shared') \cap Slot = {}
    BY MagicFacts
  <2> QED
    BY <1>4, <1>7, <2>1, RegFacts, SlotAssumption DEF Added
<1>9. /\ Passed(b)' = Passed(b) /\ Onward(b)' = {}
  BY SelectSets
<1>10. CASE b # bb
  <2> DEFINE Z == X \cup F
  <2>1. Z \in SUBSET Reg
    BY <1>8
  <2>2. Leads(X \cup F, <<>>, Z)
    BY <2>1, LeadsEmpty
  <2>3. before[b] \o <<>> = before[b] /\ <<>> \in Seq(Inner)
    BY <1>1
  <2>4. Leads(Base(b) \cup Passed(b), before[b], X) /\ Have(b) \cup Onward(b) \cup Again(b) \subseteq X
        /\ (Past(b) => Leads(X, after[b], X))
    BY <1>6 DEF Good
  <2>a. X \subseteq Reg
    OBVIOUS
  <2>b. Leads(Base(b) \cup F \cup Passed(b), before[b] \o <<>>, Z)
    BY <2>2, <2>3, <2>4, <2>a, Onto
  <2>5. Leads(Base(b) \cup F \cup Passed(b), code[b], Z)
    BY <1>2, <1>10, <2>3, <2>b
  <2>6. Leads(Base(b)' \cup Passed(b)', before'[b], Z)
    BY <1>2, <1>3, <1>7, <1>9, <2>5, Prefix
  <2>7. Have(b)' \cup Onward(b)' \cup Again(b)' \subseteq Z
    <3>1. /\ Again(b)' = Again(b)
          /\ Have(b)' = Held(b, Pos(b)) \cup Dsts(b) \cup resolved' \cup Shared(b)'
      BY <1>10, SelectSets
    <3>2. Held(b, Pos(b)) \cup Dsts(b) \cup resolved \subseteq X
      BY <2>4 DEF Have
    <3> QED
      BY <1>4, <1>9, <2>4, <3>1, <3>2 DEF Added
  <2>8. Past(b)' => Leads(Z, after'[b], Z)
    <3>1. Past(b)' => Past(b)
      BY <1>10, SelectSets
    <3>2. CASE after'[b] = after[b]
      <4>1. Past(b) => Leads(X \cup F, after[b], X \cup F)
        BY <1>8, <2>4, LeadsFrame
      <4> QED
        BY <3>1, <3>2, <4>1
    <3>3. CASE Free(after'[b])
      BY <2>1, <3>3 DEF Free
    <3> QED
      BY <1>10, <3>2, <3>3
  <2> HIDE DEF Z
  <2> QED
    BY <2>1, <2>6, <2>7, <2>8
<1>11. CASE b = bb
  <2>1. Leads(Base(b) \cup Passed(b), before[b], X) /\ Have(b) \subseteq X
    BY <1>6 DEF Good
  <2>2. Have(b) \subseteq Reg
    BY RegSets
  <2>3. Leads(Base(b) \cup Passed(b), before[b], Have(b))
    BY <2>1, LeadsWeaker
  <2>a. Leads(Have(b) \cup F, insts, Y)
    BY <1>11
  <2>b. Leads(Base(b) \cup F \cup Passed(b), before[b] \o insts, Y)
    BY <2>2, <2>3, <2>a, Onto
  <2>4. Leads(Base(b) \cup F \cup Passed(b), code[b], Y)
    BY <1>2, <1>11, <2>b
  <2>5. Leads(Base(b)' \cup Passed(b)', before'[b], Y)
    BY <1>2, <1>3, <1>7, <1>9, <2>4, Prefix
  <2>6. /\ (Past(b)' <=> k' > Len(Body(bb)))
        /\ Have(b)' = Held(b, k') \cup Dsts(b) \cup resolved' \cup Shared(b)'
        /\ Again(b)' = IF k' > Len(Body(bb)) /\ Restarts(bb) THEN Arguments ELSE {}
    BY <1>11, SelectSets
  <2>7. Have(b)' \cup Onward(b)' \cup Again(b)' \subseteq Y
    <3>1. Dsts(b) \cup resolved \subseteq Y
      BY <1>11 DEF Have
    <3>2. Met(met) \cup Shared(b)' \subseteq Y
      BY <1>11 DEF Added
    <3>3. Again(b)' \subseteq Y
      BY <2>6
    <3> QED
      BY <1>4, <1>9, <1>11, <2>6, <3>1, <3>2, <3>3
  <2>8. Past(b)' => Leads(Y, after'[b], Y)
    BY <1>11, <2>6
  <2> QED
    BY <2>5, <2>7, <2>8
<1> QED
  BY <1>10, <1>11

-----------------------------------------------------------------------------
(* The invariant of the translation.                                       *)

\* The instruction before k was not translated together with k.
Skipped == pc = "select" /\ k > 1 => ~Fuses(bb, k - 1) /\ ~SelfTail(bb, k - 1)

\* Before the jump at the end of the entry are the moves of the shared divisors.
SharedMoves == {Mv(Magic(c), c) : c \in shared}
EntryEnd ==
  IF Past(1)
  THEN Inst(1, Len(Body(1))).op = "jump" =>
         \E w \in Seq(SharedMoves), t \in Block :
           /\ after[1] = w \o <<Jump(t)>>
           /\ \A c \in shared : \E i \in 1 .. Len(w) : w[i] = Mv(Magic(c), c)
  ELSE shared = {}

\* What starts the function again is a call of it to itself.
Exits ==
  \A b \in Block : \A i \in 1 .. Len(after[b]) :
    after[b][i].op \in {"branch", "jump"} /\ after[b][i].to = 1 => Restarts(b)

FlowInv == Aliased /\ Skipped /\ EntryEnd /\ Exits /\ Flow

LEMMA PastFirst ==
  ASSUME CodeInv, pc = "select", UNCHANGED <<ir, bb, pc>>, k' \in 1 .. Len(Body(bb)), k \in DOMAIN Body(bb)
  PROVE  Past(1)' <=> Past(1)
<1>1. k \in 1 .. Len(Body(bb)) /\ Len(Body(bb)) \in Nat /\ bb \in Block
  BY BlockFacts DEF CodeInv, Where
<1>2. \A b : Body(b)' = Body(b)
  BY SameShape
<1>3. Past(1)' <=> 1 < bb
  BY <1>1, <1>2 DEF Past, Block
<1>4. Past(1) <=> 1 < bb
  BY <1>1 DEF Past, Block
<1> QED
  BY <1>3, <1>4

LEMMA AliasedNext ==
  ASSUME CodeInv, Aliased, pc = "select", UNCHANGED <<ir, bb, pc, alias>>, resolved \subseteq resolved',
         k \in DOMAIN Body(bb), NEW j0 \in DOMAIN Body(bb), j0 \in {k, k + 1}, k' = j0 + 1,
         Inst(bb, k).op # "alias", Inst(bb, j0).op # "alias"
  PROVE  Aliased'
<1>1. k \in Nat /\ bb \in Nat
  BY InstFacts DEF CodeInv, Where, Block
<1>2. ASSUME NEW b \in Block, NEW j \in DOMAIN Body(b), Inst(b, j).op = "alias"
      PROVE  Translated(b, j)' <=> Translated(b, j)
  <2>1. j \in Nat
    BY InstFacts DEF CodeInv, Where
  <2>2. CASE b = bb
    <3>1. j # k /\ j # j0
      BY <1>2, <2>2
    <3>2. j < k' <=> j < k
      BY <1>1, <2>1, <3>1
    <3> QED
      BY <3>2 DEF Translated
  <2>3. CASE b # bb
    BY <2>3 DEF Translated
  <2> QED
    BY <2>2, <2>3
<1> QED
  BY <1>2, AliasedKept

LEMMA SkippedNext ==
  ASSUME CodeInv, pc = "select", UNCHANGED <<ir, bb, pc>>, NEW j0 \in DOMAIN Body(bb), k' = j0 + 1,
         ~Fuses(bb, j0), ~SelfTail(bb, j0)
  PROVE  Skipped'
<1>1. k' - 1 = j0
  BY InstFacts DEF CodeInv, Where
<1>2. ~Fuses(bb, j0)' /\ ~SelfTail(bb, j0)'
  BY SameShape
<1>3. ~Fuses(bb, k - 1)' /\ ~SelfTail(bb, k - 1)'
  BY <1>1, <1>2 DEF Fuses, SelfTail, Inst, Body
<1> QED
  BY <1>3 DEF Skipped

LEMMA EntryEndKept ==
  ASSUME EntryEnd, UNCHANGED <<ir, after, shared>>, Past(1)' <=> Past(1)
  PROVE  EntryEnd'
<1>1. SharedMoves' = SharedMoves
  BY DEF SharedMoves
<1>2. Inst(1, Len(Body(1)))' = Inst(1, Len(Body(1)))
  BY DEF Inst, Body
<1> QED
  BY <1>1, <1>2 DEF EntryEnd

LEMMA RestartsKept ==
  ASSUME ir' = ir
  PROVE  \A b : Restarts(b)' <=> Restarts(b)
BY SameShape DEF Restarts

LEMMA ExitsKept ==
  ASSUME Exits, UNCHANGED <<ir, after>>
  PROVE  Exits'
BY RestartsKept DEF Exits

\* An instruction that only adds to the code of its block.
LEMMA PlainFlow ==
  ASSUME CodeInv, FlowInv, pc = "select", UNCHANGED <<ir, bb, pc, after, alias, shared>>,
         k \in DOMAIN Body(bb), NEW j0 \in DOMAIN Body(bb), j0 \in {k, k + 1}, k' = j0 + 1,
         Inst(bb, k).op # "alias", Inst(bb, j0).op \notin Terminators \cup {"alias"},
         ~Fuses(bb, j0), ~SelfTail(bb, j0), LoadsInEntry',
         NEW insts \in Seq(Inner), NEW met \in Seq(Arg \X Block), Resolve(Append1(insts), met),
         NEW Y \in SUBSET Reg, Leads(Have(bb) \cup Added(bb, met), insts, Y),
         Have(bb) \cup Added(bb, met) \subseteq Y, Held(bb, j0 + 1) \subseteq Y
  PROVE  FlowInv'
<1>1. /\ k \in 1 .. Len(Body(bb)) /\ j0 \in 1 .. Len(Body(bb)) /\ j0 # Len(Body(bb))
      /\ Len(Body(bb)) \in Nat
  BY BlockFacts, InstFacts DEF CodeInv, Where
<1>2. k' \in 1 .. Len(Body(bb)) /\ ~(k' > Len(Body(bb))) /\ k' \in {k + 1, k + 2}
  BY <1>1
<1>3. resolved \subseteq resolved'
  BY DEF Resolve
<1>4. Aliased'
  BY <1>3, AliasedNext DEF FlowInv
<1>5. Skipped'
  BY SkippedNext
<1>6. Past(1)' <=> Past(1)
  BY <1>2, PastFirst
<1>7. EntryEnd' /\ Exits'
  BY <1>6, EntryEndKept, ExitsKept DEF FlowInv
<1>8. shared \subseteq shared' /\ shared' \subseteq Const
  BY DEF CodeInv, Coded
<1>9. Flow'
  <2>1. Flow /\ k' <= Len(Body(bb)) + 1 /\ Held(bb, k') \subseteq Y
    BY <1>1, <1>2 DEF FlowInv
  <2>2. \A b \in Block \ {bb} : after'[b] = after[b] \/ Free(after'[b])
    OBVIOUS
  <2> QED
    BY <1>2, <1>8, <2>1, <2>2, SelectFlow
<1> QED
  BY <1>4, <1>5, <1>7, <1>9 DEF FlowInv

\* The instruction that ends its block: all but the flow.
LEMMA EndRest ==
  ASSUME CodeInv, FlowInv, pc = "select", UNCHANGED <<ir, bb, pc, alias, shared>>,
         k \in DOMAIN Body(bb), NEW j0 \in DOMAIN Body(bb), j0 \in {k, k + 1}, k' = j0 + 1,
         Inst(bb, k).op # "alias", Inst(bb, j0).op \in Terminators, resolved \subseteq resolved',
         NEW c0 \in Seq(Outer), after' = [after EXCEPT ![bb] = c0],
         \A i \in 1 .. Len(c0) : c0[i].op \in {"branch", "jump"} /\ c0[i].to = 1 => Restarts(bb),
         Inst(bb, j0).op = "jump" => \E t \in Block : c0 = <<Jump(t)>>
  PROVE  Aliased' /\ Skipped' /\ EntryEnd' /\ Exits'
<1>1. /\ k \in 1 .. Len(Body(bb)) /\ j0 = Len(Body(bb)) /\ bb \in Block /\ after \in [Block -> Seq(Outer)]
      /\ Len(Body(bb)) \in Nat
  BY BlockFacts, InstFacts DEF CodeInv, Where, Coded
<1>2. k' > Len(Body(bb)) /\ k' <= Len(Body(bb)) + 1 /\ k' \in {k + 1, k + 2}
  BY <1>1
<1>3. after'[bb] = c0 /\ \A b \in Block \ {bb} : after'[b] = after[b]
  BY <1>1
<1>5. Aliased'
  BY AliasedNext DEF FlowInv, Terminators
<1>6. ~Fuses(bb, j0) /\ ~SelfTail(bb, j0)
  BY DEF Fuses, SelfTail, Terminators
<1>7. Skipped'
  BY <1>6, SkippedNext
<1>8. Exits'
  <2>1. ASSUME NEW b \in Block, NEW i \in 1 .. Len(after'[b]),
               after'[b][i].op \in {"branch", "jump"} /\ after'[b][i].to = 1
        PROVE  Restarts(b)
    BY <1>3, <2>1 DEF FlowInv, Exits
  <2> QED
    BY <2>1, RestartsKept DEF Exits
<1>9. EntryEnd'
  <2>1. SharedMoves' = SharedMoves /\ Inst(1, Len(Body(1)))' = Inst(1, Len(Body(1))) /\ Body(1)' = Body(1)
    BY DEF SharedMoves, Inst, Body
  <2>2. CASE bb = 1
    <3>1. ~Past(1) /\ Past(1)'
      BY <1>1, <1>2, <2>1, <2>2 DEF Past
    <3>2. shared = {}
      BY <3>1 DEF FlowInv, EntryEnd
    <3>3. ASSUME Inst(1, Len(Body(1))).op = "jump"
          PROVE  \E w \in Seq(SharedMoves), t \in Block : after'[1] = w \o <<Jump(t)>>
      <4>1. PICK t \in Block : c0 = <<Jump(t)>>
        BY <1>1, <2>2, <3>3
      <4>2. <<>> \o <<Jump(t)>> = <<Jump(t)>> /\ <<>> \in Seq(SharedMoves)
        OBVIOUS
      <4> QED
        BY <1>3, <2>2, <4>1, <4>2
    <3> QED
      BY <2>1, <3>1, <3>2, <3>3 DEF EntryEnd
  <2>3. CASE bb # 1
    <3>1. Past(1)' /\ Past(1)
      BY <1>1, <2>1, <2>3 DEF Past, Block
    <3>2. after'[1] = after[1]
      <4>1. 1 \in Block
        BY SizeAssumption DEF Block
      <4> QED
        BY <1>3, <2>3, <4>1
    <3> QED
      BY <2>1, <3>1, <3>2 DEF FlowInv, EntryEnd
  <2> QED
    BY <2>2, <2>3
<1> QED
  BY <1>5, <1>7, <1>8, <1>9

\* The instruction that ends its block.
LEMMA EndFlow ==
  ASSUME CodeInv, FlowInv, pc = "select", UNCHANGED <<ir, bb, pc, alias, shared>>,
         k \in DOMAIN Body(bb), NEW j0 \in DOMAIN Body(bb), j0 \in {k, k + 1}, k' = j0 + 1,
         Inst(bb, k).op # "alias", Inst(bb, j0).op \in Terminators, LoadsInEntry',
         NEW insts \in Seq(Inner), NEW met \in Seq(Arg \X Block), Resolve(Append1(insts), met),
         NEW Y \in SUBSET Reg, Leads(Have(bb) \cup Added(bb, met), insts, Y),
         Have(bb) \cup Added(bb, met) \subseteq Y, Held(bb, j0 + 1) \subseteq Y,
         NEW c0 \in Seq(Outer), after' = [after EXCEPT ![bb] = c0], Leads(Y, c0, Y),
         Restarts(bb) => Arguments \subseteq Y,
         \A i \in 1 .. Len(c0) : c0[i].op \in {"branch", "jump"} /\ c0[i].to = 1 => Restarts(bb),
         Inst(bb, j0).op = "jump" => \E t \in Block : c0 = <<Jump(t)>>
  PROVE  FlowInv'
<1>1. /\ k \in 1 .. Len(Body(bb)) /\ j0 = Len(Body(bb)) /\ bb \in Block /\ after \in [Block -> Seq(Outer)]
      /\ Len(Body(bb)) \in Nat
  BY BlockFacts, InstFacts DEF CodeInv, Where, Coded
<1>2. k' > Len(Body(bb)) /\ k' <= Len(Body(bb)) + 1 /\ k' \in {k + 1, k + 2}
  BY <1>1
<1>3. after'[bb] = c0 /\ \A b \in Block \ {bb} : after'[b] = after[b]
  BY <1>1
<1>4. resolved \subseteq resolved'
  BY DEF Resolve
<1>5. Aliased' /\ Skipped' /\ EntryEnd' /\ Exits'
  BY <1>4, EndRest
<1>10. shared \subseteq shared' /\ shared' \subseteq Const
  BY DEF CodeInv, Coded
<1>11. Flow'
  <2>1. Flow /\ Held(bb, k') \subseteq Y
    BY DEF FlowInv
  <2>2. \A b \in Block \ {bb} : after'[b] = after[b] \/ Free(after'[b])
    BY <1>3
  <2>3. Leads(Y, after'[bb], Y)
    BY <1>3
  <2> QED
    BY <1>2, <1>10, <2>1, <2>2, <2>3, SelectFlow
<1> QED
  BY <1>5, <1>11 DEF FlowInv

-----------------------------------------------------------------------------
(* Operands.                                                               *)

MadeAt(o, imm, fresh) == IF Moved(o, imm) THEN {fresh} ELSE {}
Made(j, i, imm) == MadeAt(Inst(bb, j).args[i], imm, <<bb, j, i>>)

LEMMA MoveLeads ==
  ASSUME NEW o, NEW imm \in BOOLEAN, NEW fresh \in Fresh, NEW S, S \subseteq Reg
  PROVE  /\ MoveAt(o, imm, fresh) \in Seq(Inner) /\ MoveAt(o, imm, fresh) \in Seq(Outer)
         /\ Leads(S, MoveAt(o, imm, fresh), S \cup MadeAt(o, imm, fresh))
         /\ MadeAt(o, imm, fresh) \subseteq Fresh /\ S \cup MadeAt(o, imm, fresh) \subseteq Reg
<1>1. fresh \in Reg
  BY RegFacts
<1>2. MoveAt(o, imm, fresh) \in Seq(Inner) /\ MoveAt(o, imm, fresh) \in Seq(Outer)
  BY MoveOuter
<1>3. CASE Moved(o, imm)
  <2>1. o \in Const
    BY <1>3 DEF Moved
  <2>2. Mv(fresh, o) \in MInst
    BY <1>1, <2>1, MakeInner, InnerOuter
  <2>3. Mv(fresh, o).src = <<o>> /\ Mv(fresh, o).op = "mv" /\ Mv(fresh, o).cond = "any" /\ Mv(fresh, o).dst = fresh
    BY DEF Mv, MI
  <2>4. Readable(Mv(fresh, o), S)
    BY <2>1, <2>3, ReadableOnes
  <2>5. S \cup {fresh} \subseteq Kept(Mv(fresh, o), S) \cup (IF Mv(fresh, o).op \in Writing /\ Mv(fresh, o).cond = "any" THEN {Mv(fresh, o).dst} ELSE {})
    BY <2>3 DEF Kept, Writing
  <2>6. S \cup {fresh} \subseteq Reg
    BY <1>1
  <2>7. Leads(S, <<Mv(fresh, o)>>, S \cup {fresh})
    BY <2>2, <2>4, <2>5, <2>6, LeadsOne
  <2> QED
    BY <1>2, <1>3, <2>6, <2>7 DEF MoveAt, MadeAt
<1>4. CASE ~Moved(o, imm)
  <2>1. Leads(S, <<>>, S)
    BY LeadsEmpty
  <2>2. S \cup {} = S
    OBVIOUS
  <2> QED
    BY <1>2, <1>4, <2>1, <2>2 DEF MoveAt, MadeAt
<1> QED
  BY <1>3, <1>4

LEMMA MovesLead ==
  ASSUME CodeInv, pc = "select", NEW j0 \in DOMAIN Body(bb), NEW i0 \in DOMAIN Inst(bb, j0).args,
         NEW imm \in BOOLEAN, NEW S, S \subseteq Reg
  PROVE  /\ Moves(j0, i0, imm) \in Seq(Inner) /\ Moves(j0, i0, imm) \in Seq(MInst)
         /\ Leads(S, Moves(j0, i0, imm), S \cup Made(j0, i0, imm))
         /\ Made(j0, i0, imm) \subseteq Fresh /\ S \cup Made(j0, i0, imm) \subseteq Reg
<1>1. ir \in Programs /\ bb \in Block
  BY DEF CodeInv, Where
<1>2. j0 \in Nat /\ i0 \in Nat /\ bb \in Nat
  BY <1>1, InstFacts, FieldFacts DEF Block
<1>3. <<bb, j0, i0>> \in Fresh
  BY <1>2 DEF Fresh
<1> DEFINE o == Inst(bb, j0).args[i0]
           f == <<bb, j0, i0>>
<1>a. Moves(j0, i0, imm) = MoveAt(o, imm, f) /\ Made(j0, i0, imm) = MadeAt(o, imm, f)
  BY DEF Moves, Made
<1>b. f \in Fresh
  BY <1>3
<1> HIDE DEF o, f
<1>c. /\ MoveAt(o, imm, f) \in Seq(Inner) /\ Leads(S, MoveAt(o, imm, f), S \cup MadeAt(o, imm, f))
      /\ MadeAt(o, imm, f) \subseteq Fresh /\ S \cup MadeAt(o, imm, f) \subseteq Reg
  BY <1>b, MoveLeads
<1>4. Moves(j0, i0, imm) \in Seq(Inner)
      /\ Leads(S, Moves(j0, i0, imm), S \cup Made(j0, i0, imm))
      /\ Made(j0, i0, imm) \subseteq Fresh /\ S \cup Made(j0, i0, imm) \subseteq Reg
  BY <1>a, <1>c
<1> QED
  BY <1>4, SeqMonotonic, InnerOuter

\* What each operand of instruction k needs is computed, unless the branch compares.
LEMMA UseNeeded ==
  ASSUME CodeInv, Skipped, pc = "select", k \in DOMAIN Body(bb),
         NEW i0 \in DOMAIN Inst(bb, k).args, Inst(bb, k).args[i0] \in Var, ~BranchesOn(bb, k),
         Inst(bb, k).op = "branch" => ~AndOfCmps(Inst(bb, k).args[1]) /\ ~(k > 1 /\ FlagsOnly(bb, k - 1))
  PROVE  Needed(Inst(bb, k).args[i0])
<1> DEFINE v == Inst(bb, k).args[i0]
<1>1. ir \in Programs /\ bb \in Block
  BY DEF CodeInv, Where
<1> SUFFICES ASSUME NEW b \in Block, NEW j \in DOMAIN Body(b), Inst(b, j).dst = v, Dropped(b, j)
             PROVE  FALSE
  BY DEF Needed
<1>2. \/ Fuses(b, j) /\ bb = b /\ k = j + 1
      \/ SelfTail(b, j) /\ bb = b /\ k = j + 1
      \/ BranchesOn(b, j) /\ bb = b /\ k = j + 1 /\ Inst(bb, k).op = "branch"
      \/ FlagsOnly(b, j) /\ bb = b /\ k = j + 1 /\ Inst(bb, k).op = "branch"
  BY <1>1, DroppedUse
<1>3. j \in 1 .. Len(Body(b)) /\ j \in Nat /\ Len(Body(b)) \in Nat
  BY <1>1, InstFacts, BlockFacts
<1>4. k = j + 1 => k > 1 /\ k - 1 = j
  BY <1>3
<1>5. ~(Fuses(b, j) /\ bb = b /\ k = j + 1) /\ ~(SelfTail(b, j) /\ bb = b /\ k = j + 1)
  BY <1>4 DEF Skipped
<1>6. ~(FlagsOnly(b, j) /\ bb = b /\ k = j + 1 /\ Inst(bb, k).op = "branch")
  BY <1>4
<1>7. ~(BranchesOn(b, j) /\ bb = b /\ k = j + 1 /\ Inst(bb, k).op = "branch")
  <2> SUFFICES ASSUME BranchesOn(b, j), Inst(bb, k).op = "branch" PROVE FALSE
    OBVIOUS
  <2>1. AndOfCmps(v)
    BY DEF BranchesOn
  <2>2. i0 = 1
    BY <1>1, FieldFacts
  <2> QED
    BY <2>1, <2>2
<1> QED
  BY <1>2, <1>5, <1>6, <1>7

\* What stands for a needed operand has a value.
LEMMA OperandReady ==
  ASSUME CodeInv, Aliased, pc = "select", k \in DOMAIN Body(bb), NEW o, o \in Arg,
         o \in Var => Needed(o) /\ DefinedAt(ir, o, bb, k),
         NEW imm \in BOOLEAN, NEW fresh, NEW met, o \in Param => o \in resolved \cup Met(met)
  PROVE  /\ OperandAt(o, imm, fresh) \in Const \cup (Have(bb) \cup Met(met)) \cup MadeAt(o, imm, fresh)
         /\ ~(imm /\ o \in Const) =>
              OperandAt(o, imm, fresh) \in (Have(bb) \cup Met(met)) \cup MadeAt(o, imm, fresh)
<1>1. ir \in Programs /\ bb \in Block /\ k \in 1 .. Len(Body(bb)) /\ Len(Body(bb)) \in Nat
      /\ bb \in Nat /\ k \in Nat
  BY BlockFacts DEF CodeInv, Where, Block
<1>2. Pos(bb) = k
  BY <1>1 DEF Pos, Past
<1>3. Held(bb, k) \cup resolved \subseteq Have(bb)
  BY <1>2 DEF Have
<1>4. CASE o \in Var
  <2>1. OperandAt(o, imm, fresh) = alias[o]
    BY <1>4, OperandAssumption DEF OperandAt, Moved
  <2>2. alias[o] \in Held(bb, k) \cup resolved
    BY <1>1, <1>4, OperandHeld
  <2> QED
    BY <1>3, <2>1, <2>2
<1>5. CASE o \in Const
  BY <1>5, OperandAssumption DEF OperandAt, Moved, MadeAt
<1>6. CASE o \in Param
  <2>1. o \notin Const /\ o \notin Var
    BY <1>6, OperandAssumption
  <2>2. OperandAt(o, imm, fresh) = o
    BY <2>1 DEF OperandAt, Moved
  <2> QED
    BY <1>3, <1>6, <2>2
<1>7. o \in Var \cup Const \cup Param
  BY <1>1, ArgFacts DEF Operands
<1> QED
  BY <1>4, <1>5, <1>6, <1>7

LEMMA ArgsMetFacts ==
  ASSUME CodeInv, pc = "select", NEW j0 \in DOMAIN Body(bb)
  PROVE  /\ ArgsMet(j0) \in Seq(Arg \X Block)
         /\ \A i \in DOMAIN Inst(bb, j0).args :
              /\ Inst(bb, j0).args[i] \in Arg
              /\ Inst(bb, j0).args[i] \in Param =>
                   Inst(bb, j0).args[i] \in resolved \cup Met(ArgsMet(j0))
<1> DEFINE a == Inst(bb, j0).args
           n == Len(a)
           S == Arg \X Block
<1>1. a \in Seq(Arg) /\ bb \in Block
  BY ArgFacts DEF CodeInv, Where
<1>2. n \in Nat /\ DOMAIN a = 1 .. n /\ \A i \in DOMAIN a : a[i] \in Arg
  BY <1>1
<1>3. ArgsMet(j0) = [i \in DOMAIN a |-> <<a[i], bb>>]
  BY DEF ArgsMet
<1> HIDE DEF a, n
<1>4. \A i \in 1 .. n : <<a[i], bb>> \in S
  BY <1>1, <1>2
<1> HIDE DEF S
<1>5. ArgsMet(j0) \in Seq(S)
  BY <1>2, <1>3, <1>4
<1>6. \A i \in DOMAIN a : i \in DOMAIN ArgsMet(j0) /\ ArgsMet(j0)[i][1] = a[i]
  BY <1>3
<1>7. \A i \in DOMAIN a : a[i] \in Param => a[i] \in resolved \cup Met(ArgsMet(j0))
  BY <1>6 DEF Met
<1> QED
  BY <1>2, <1>5, <1>7 DEF S, a

\* The operands of instruction k, in one.
LEMMA UsesReady ==
  ASSUME CodeInv, FlowInv, pc = "select", k \in DOMAIN Body(bb), NEW i0 \in DOMAIN Inst(bb, k).args,
         Inst(bb, k).op # "phi", ~BranchesOn(bb, k),
         Inst(bb, k).op = "branch" => ~AndOfCmps(Inst(bb, k).args[1]) /\ ~(k > 1 /\ FlagsOnly(bb, k - 1)),
         NEW imm \in BOOLEAN
  PROVE  LET N == Have(bb) \cup Added(bb, ArgsMet(k))
         IN  /\ Operand(k, i0, imm) \in Const \cup N \cup Made(k, i0, imm)
             /\ imm = FALSE => Operand(k, i0, imm) \in N \cup Made(k, i0, imm)
<1> DEFINE o == Inst(bb, k).args[i0]
           N == Have(bb) \cup Added(bb, ArgsMet(k))
           M == Have(bb) \cup Met(ArgsMet(k))
<1>1. o \in Arg /\ (o \in Param => o \in resolved \cup Met(ArgsMet(k)))
  BY ArgsMetFacts
<1>2. o \in Var => Needed(o)
  BY UseNeeded DEF FlowInv
<1>3. o \in Var => DefinedAt(ir, o, bb, k)
  BY UsedDefined DEF CodeInv, Where
<1> HIDE DEF o
<1>4. /\ OperandAt(o, imm, <<bb, k, i0>>) \in Const \cup M \cup MadeAt(o, imm, <<bb, k, i0>>)
      /\ ~(imm /\ o \in Const) => OperandAt(o, imm, <<bb, k, i0>>) \in M \cup MadeAt(o, imm, <<bb, k, i0>>)
  BY <1>1, <1>2, <1>3, OperandReady DEF FlowInv
<1>5. M \subseteq N
  BY DEF Added
<1> QED
  BY <1>4, <1>5 DEF Operand, Made, o

\* What is held after instruction k.
LEMMA HeldStep ==
  ASSUME CodeInv, pc = "select", k \in DOMAIN Body(bb)
  PROVE  Held(bb, k + 1) \subseteq
           Have(bb) \cup (IF Inst(bb, k).op = "alias" \/ Dropped(bb, k) THEN {} ELSE {Inst(bb, k).dst})
<1>1. ir \in Programs /\ bb \in Block /\ k \in 1 .. Len(Body(bb)) /\ Len(Body(bb)) \in Nat /\ k \in Nat
      /\ bb \in Nat
  BY BlockFacts DEF CodeInv, Where, Block
<1>2. Pos(bb) = k
  BY <1>1 DEF Pos, Past
<1>3. Held(bb, k) \subseteq Have(bb)
  BY <1>2 DEF Have
<1> QED
  BY <1>1, <1>3, HeldNext

LEMMA StartFacts ==
  ASSUME CodeInv, pc = "select", NEW met, shared' \subseteq Const
  PROVE  LET N == Have(bb) \cup Added(bb, met) IN N \subseteq Reg /\ N \cap Slot = {}
<1>1. bb \in Block
  BY DEF CodeInv, Where
<1>2. Have(bb) \subseteq Reg /\ Have(bb) \cap Slot = {}
  BY <1>1, RegSets
<1>3. Met(met) \subseteq Param
  BY DEF Met
<1>4. MagicsOf(shared') \subseteq Reg /\ MagicsOf(shared') \cap Slot = {}
  BY MagicFacts
<1>5. Shared(bb)' \subseteq MagicsOf(shared')
  BY DEF Shared, MagicsOf
<1>6. Added(bb, met) \subseteq Reg /\ Added(bb, met) \cap Slot = {}
  BY <1>3, <1>4, <1>5, RegFacts, SlotAssumption DEF Added
<1> QED
  BY <1>2, <1>6

LEMMA PairLeads ==
  ASSUME CodeInv, pc = "select", NEW j0 \in DOMAIN Body(bb), Inst(bb, j0).op \in Binary,
         NEW a0 \in BOOLEAN, NEW b0 \in BOOLEAN, NEW S, S \subseteq Reg
  PROVE  LET m == Moves(j0, 1, a0) \o Moves(j0, 2, b0)
             T == S \cup Made(j0, 1, a0) \cup Made(j0, 2, b0)
         IN  m \in Seq(Inner) /\ m \in Seq(MInst) /\ Leads(S, m, T) /\ T \subseteq Reg
<1>1. 1 \in DOMAIN Inst(bb, j0).args /\ 2 \in DOMAIN Inst(bb, j0).args
  BY FieldFacts DEF CodeInv, Where
<1> DEFINE m1 == Moves(j0, 1, a0)
           m2 == Moves(j0, 2, b0)
           T1 == S \cup Made(j0, 1, a0)
           T2 == T1 \cup Made(j0, 2, b0)
<1>2. m1 \in Seq(Inner) /\ m1 \in Seq(MInst) /\ Leads(S, m1, T1) /\ T1 \subseteq Reg
  BY <1>1, MovesLead
<1> HIDE DEF T1
<1> DEFINE Ok(w, A) == /\ w \in Seq(Inner) /\ w \in Seq(MInst)
                       /\ \A U \in SUBSET Reg : Leads(U, w, U \cup A) /\ U \cup A \subseteq Reg
<1>a. ASSUME NEW i \in DOMAIN Inst(bb, j0).args, NEW imm \in BOOLEAN
      PROVE  Ok(Moves(j0, i, imm), Made(j0, i, imm))
  BY MovesLead
<1> HIDE DEF Ok
<1>b. Ok(m2, Made(j0, 2, b0))
  BY <1>1, <1>a, Zenon
<1> HIDE DEF m1, m2
<1>3. m2 \in Seq(Inner) /\ m2 \in Seq(MInst) /\ Leads(T1, m2, T2) /\ T2 \subseteq Reg
  BY <1>2, <1>b DEF Ok
<1> HIDE DEF T2
<1>4. Leads(S, m1 \o m2, T2)
  BY <1>2, <1>3, LeadsThen
<1>5. m1 \o m2 \in Seq(Inner)
  BY <1>2, <1>3
<1>6. m1 \o m2 \in Seq(MInst)
  BY <1>2, <1>3
<1> QED
  BY <1>3, <1>4, <1>5, <1>6 DEF m1, m2, T1, T2

\* One instruction more, which writes its result.
LEMMA OneMore ==
  ASSUME NEW m \in Seq(MInst), NEW S, NEW T, T \subseteq Reg, Leads(S, m, T),
         NEW x \in MInst, x.op \in Writing, x.cond = "any", Readable(x, T)
  PROVE  Leads(S, m \o <<x>>, T \cup {x.dst}) /\ T \cup {x.dst} \subseteq Reg
<1>1. x.dst \in Reg /\ x.op # "call"
  BY DEF MInst, Writing, Arith
<1>2. T \cup {x.dst} \subseteq Reg
  BY <1>1
<1>3. T \cup {x.dst} \subseteq Kept(x, T) \cup (IF x.op \in Writing /\ x.cond = "any" THEN {x.dst} ELSE {})
  BY <1>1 DEF Kept
<1>4. Leads(T, <<x>>, T \cup {x.dst})
  BY <1>2, <1>3, LeadsOne
<1>5. <<x>> \in Seq(MInst)
  OBVIOUS
<1> QED
  BY <1>2, <1>4, <1>5, LeadsThen

LEMMA BinaryFlow ==
  ASSUME CodeInv, FlowInv, LoadsInEntry', SelectBinary
  PROVE  FlowInv'
<1> DEFINE x == Inst(bb, k)
           imm == x.op # "mul"
           m == Moves(k, 1, FALSE) \o Moves(k, 2, imm)
           y == Bin(x.op, x.dst, Operand(k, 1, FALSE), Operand(k, 2, imm))
           N == Have(bb) \cup Added(bb, ArgsMet(k))
           T == N \cup Made(k, 1, FALSE) \cup Made(k, 2, imm)
           Y == T \cup {x.dst}
<1>1. /\ ir \in Programs /\ bb \in Block /\ k \in DOMAIN Body(bb) /\ pc = "select"
      /\ alias \in [Var -> Var \cup Param] /\ x.op \in {"add", "sub", "mul"}
      /\ ~(x.op = "mul" /\ Fuses(bb, k))
  BY DEF CodeInv, Where, Coded, SelectBinary, Selecting
<1>2. k' = k + 1 /\ UNCHANGED <<ir, bb, pc, after, alias, shared>>
      /\ Resolve(Append1(m \o <<y>>), ArgsMet(k))
  BY DEF SelectBinary
<1>3. imm \in BOOLEAN /\ FALSE \in BOOLEAN
  OBVIOUS
<1>4. x.op \in Binary /\ x.dst \in Var /\ 1 \in DOMAIN x.args /\ 2 \in DOMAIN x.args
  BY <1>1, FieldFacts DEF Terminators, Binary
<1>5. ~BranchesOn(bb, k) /\ ~Fuses(bb, k) /\ ~SelfTail(bb, k)
  BY <1>1 DEF BranchesOn, Fuses, SelfTail
<1>6. /\ Operand(k, 1, FALSE) \in Reg \cup Const /\ Operand(k, 2, imm) \in Reg \cup Const
      /\ Operand(k, 1, FALSE) \in Const \cup N \cup Made(k, 1, FALSE)
      /\ Operand(k, 2, imm) \in Const \cup N \cup Made(k, 2, imm)
  BY <1>1, <1>3, <1>4, <1>5, OperandMeets, UsesReady
<1>7. y \in Inner /\ y \in MInst
  BY <1>1, <1>4, <1>6, MakeInner, RegFacts, InnerOuter DEF Arith
<1>8. N \subseteq Reg
  BY <1>1, <1>2, StartFacts DEF CodeInv, Coded
<1> HIDE DEF N, imm
<1>9. m \in Seq(Inner) /\ m \in Seq(MInst) /\ Leads(N, m, T) /\ T \subseteq Reg
  BY <1>1, <1>3, <1>4, <1>8, PairLeads
<1>10. y.op = x.op /\ y.dst = x.dst /\ y.cond = "any" /\ y.src = <<Operand(k, 1, FALSE), Operand(k, 2, imm)>>
  BY DEF Bin, MI
<1>11. Readable(y, T)
  <2> DEFINE l == Operand(k, 1, FALSE)
             r == Operand(k, 2, imm)
  <2>1. {l, r} \subseteq Const \cup T /\ y.src = <<l, r>>
    BY <1>6, <1>10
  <2> HIDE DEF y, T, l, r
  <2> QED
    BY <2>1, ReadableOnes
<1> HIDE DEF m, y, T
<1>12. y.op \in Writing
  BY <1>1, <1>10 DEF Writing, Arith
<1>13. Leads(N, m \o <<y>>, Y) /\ Y \subseteq Reg
  BY <1>7, <1>9, <1>10, <1>11, <1>12, OneMore
<1>14. m \o <<y>> \in Seq(Inner)
  BY <1>7, <1>9
<1>15. Held(bb, k + 1) \subseteq Y /\ N \subseteq Y
  <2>1. Held(bb, k + 1) \subseteq Have(bb) \cup {x.dst}
    BY <1>1, HeldStep
  <2> QED
    BY <2>1 DEF N, T
<1>16. ArgsMet(k) \in Seq(Arg \X Block)
  BY <1>1, ArgsMetFacts
<1> HIDE DEF Y
<1> DEFINE insts == m \o <<y>>
<1>17. insts \in Seq(Inner) /\ Resolve(Append1(insts), ArgsMet(k)) /\ Leads(N, insts, Y)
  BY <1>2, <1>13, <1>14
<1> HIDE DEF insts
<1>18. x.op \notin Terminators \cup {"alias"}
  BY <1>1 DEF Terminators
<1>19. Y \in SUBSET Reg
  BY <1>13
<1> QED
  BY <1>1, <1>2, <1>5, <1>15, <1>16, <1>17, <1>18, <1>19, PlainFlow DEF N

\* Two operands moved, and code that reads them.
LEMMA PairFlow ==
  ASSUME CodeInv, FlowInv, pc = "select", UNCHANGED <<ir, bb, pc, after, alias, shared>>,
         k \in DOMAIN Body(bb), Inst(bb, k).op \in Binary, ~Fuses(bb, k), k' = k + 1, LoadsInEntry',
         NEW a0 \in BOOLEAN, NEW b0 \in BOOLEAN, NEW v1 \in Seq(Inner),
         Resolve(Append1(Moves(k, 1, a0) \o Moves(k, 2, b0) \o v1), ArgsMet(k)),
         NEW Y \in SUBSET Reg,
         LET T == Have(bb) \cup Added(bb, ArgsMet(k)) \cup Made(k, 1, a0) \cup Made(k, 2, b0)
         IN  Leads(T, v1, Y) /\ T \subseteq Y,
         Held(bb, k + 1) \subseteq Y
  PROVE  FlowInv'
<1> DEFINE m == Moves(k, 1, a0) \o Moves(k, 2, b0)
           N == Have(bb) \cup Added(bb, ArgsMet(k))
           T == N \cup Made(k, 1, a0) \cup Made(k, 2, b0)
           insts == m \o v1
<1>1. N \subseteq Reg
  BY StartFacts DEF CodeInv, Coded
<1>2. Leads(T, v1, Y) /\ N \subseteq Y
  OBVIOUS
<1>3. Resolve(Append1(insts), ArgsMet(k))
  OBVIOUS
<1> HIDE DEF N
<1>4. m \in Seq(Inner) /\ m \in Seq(MInst) /\ Leads(N, m, T)
  BY <1>1, PairLeads
<1>5. v1 \in Seq(MInst)
  BY SeqMonotonic, InnerOuter
<1> HIDE DEF m, T
<1>6. Leads(N, insts, Y) /\ insts \in Seq(Inner)
  BY <1>2, <1>4, <1>5, LeadsThen
<1>7. ArgsMet(k) \in Seq(Arg \X Block)
  BY ArgsMetFacts
<1>8. Inst(bb, k).op \notin Terminators \cup {"alias"} /\ ~SelfTail(bb, k)
  BY DEF Terminators, Binary, SelfTail
<1> HIDE DEF insts
<1> QED
  BY <1>2, <1>3, <1>6, <1>7, <1>8, PlainFlow DEF N

LEMMA CompareFlow ==
  ASSUME CodeInv, FlowInv, LoadsInEntry', SelectCompare
  PROVE  FlowInv'
<1> DEFINE x == Inst(bb, k)
           l == Operand(k, 1, FALSE)
           r == Operand(k, 2, TRUE)
           code == IF ComparedLater(x.dst) THEN <<>>
                   ELSE IF FlagsOnly(bb, k) THEN <<Cmp(l, r)>>
                   ELSE Boolean(x.cond, x.dst, l, r)
           N == Have(bb) \cup Added(bb, ArgsMet(k))
           T == N \cup Made(k, 1, FALSE) \cup Made(k, 2, TRUE)
           Y == IF ComparedLater(x.dst) \/ FlagsOnly(bb, k) THEN T ELSE T \cup {x.dst}
<1>1. /\ ir \in Programs /\ bb \in Block /\ k \in DOMAIN Body(bb) /\ pc = "select"
      /\ alias \in [Var -> Var \cup Param] /\ x.op = "cmp" /\ shared \subseteq Const
  BY DEF CodeInv, Where, Coded, SelectCompare, Selecting
<1>2. k' = k + 1 /\ UNCHANGED <<ir, bb, pc, after, alias, shared>>
      /\ Resolve(Append1(Moves(k, 1, FALSE) \o Moves(k, 2, TRUE) \o code), ArgsMet(k))
  BY DEF SelectCompare
<1>3. x.op \in Binary /\ x.dst \in Var /\ 1 \in DOMAIN x.args /\ 2 \in DOMAIN x.args
      /\ x.cond \in Comparisons
  BY <1>1, FieldFacts DEF Terminators, Binary
<1>4. ~BranchesOn(bb, k) /\ ~Fuses(bb, k) /\ ~SelfTail(bb, k)
  BY <1>1 DEF BranchesOn, Fuses, SelfTail
<1>a. FALSE \in BOOLEAN /\ TRUE \in BOOLEAN
  OBVIOUS
<1>5. l \in Reg \cup Const /\ r \in Reg \cup Const /\ l \in Const \cup T /\ r \in Const \cup T
  <2>1. l \in Reg \cup Const /\ r \in Reg \cup Const
    BY <1>1, <1>3, <1>a, OperandMeets
  <2>2. l \in Const \cup N \cup Made(k, 1, FALSE)
    BY <1>1, <1>3, <1>4, <1>a, UsesReady
  <2>3. r \in Const \cup N \cup Made(k, 2, TRUE)
    BY <1>1, <1>3, <1>4, <1>a, UsesReady
  <2> HIDE DEF l, r, N
  <2> QED
    BY <2>1, <2>2, <2>3
<1>6. N \subseteq Reg
  BY <1>1, <1>2, StartFacts
<1>7. T \subseteq Reg
  <2> HIDE DEF N
  <2> QED
    BY <1>1, <1>3, <1>6, <1>a, PairLeads
<1>8. Held(bb, k + 1) \subseteq Y
  <2>1. Held(bb, k + 1) \subseteq
          Have(bb) \cup (IF Inst(bb, k).op = "alias" \/ Dropped(bb, k) THEN {} ELSE {x.dst})
    BY <1>1, HeldStep
  <2>2. ComparedLater(x.dst) \/ FlagsOnly(bb, k) => Dropped(bb, k)
    BY <1>1 DEF Dropped
  <2> QED
    BY <2>1, <2>2
<1>9. code \in Seq(Inner) /\ Leads(T, code, Y) /\ T \subseteq Y /\ Y \subseteq Reg
  <2> HIDE DEF l, r, T
  <2>1. CASE ComparedLater(x.dst)
    BY <1>7, <2>1, LeadsEmpty
  <2>2. CASE ~ComparedLater(x.dst) /\ FlagsOnly(bb, k)
    <3>1. Cmp(l, r) \in Inner /\ Cmp(l, r) \in MInst
      BY <1>5, MakeInner, InnerOuter
    <3>2. Cmp(l, r).src = <<l, r>> /\ Cmp(l, r).op = "cmp"
      BY DEF Cmp, MI
    <3>3. Readable(Cmp(l, r), T)
      BY <1>5, <3>2, ReadableOnes
    <3>4. T \subseteq Kept(Cmp(l, r), T)
      BY <3>2 DEF Kept
    <3>5. Leads(T, <<Cmp(l, r)>>, T)
      BY <1>7, <3>1, <3>3, <3>4, LeadsOne
    <3> QED
      BY <1>7, <2>2, <3>1, <3>5
  <2>3. CASE ~ComparedLater(x.dst) /\ ~FlagsOnly(bb, k)
    <3>1. x.dst \in Reg
      BY <1>3, RegFacts
    <3>2. Boolean(x.cond, x.dst, l, r) \in Seq(Inner)
          /\ Leads(T, Boolean(x.cond, x.dst, l, r), T \cup {x.dst})
      BY <1>3, <1>5, <1>7, <3>1, LeadsBoolean
    <3> QED
      BY <1>7, <2>3, <3>1, <3>2
  <2> QED
    BY <2>1, <2>2, <2>3
<1> HIDE DEF code, Y
<1>10. LET W == Have(bb) \cup Added(bb, ArgsMet(k)) \cup Made(k, 1, FALSE) \cup Made(k, 2, TRUE)
       IN  Leads(W, code, Y) /\ W \subseteq Y
  BY <1>9
<1>11. Y \in SUBSET Reg
  BY <1>9
<1> HIDE DEF x
<1> QED
  BY <1>1, <1>2, <1>3, <1>4, <1>8, <1>9, <1>10, <1>11, <1>a, PairFlow DEF x

LEMMA AndFlow ==
  ASSUME CodeInv, FlowInv, LoadsInEntry', SelectAnd
  PROVE  FlowInv'
<1> DEFINE x == Inst(bb, k)
           o == Operand(k, 1, FALSE)
           e == Operand(k, 2, TRUE)
           l == <<bb, k, 3>>
           r == <<bb, k, 4>>
           y == Bin("and", x.dst, l, r)
           code == IF BranchesOn(bb, k) THEN <<>>
                   ELSE Boolean("ne", l, o, Zero) \o Boolean("ne", r, e, Zero) \o <<y>>
           N == Have(bb) \cup Added(bb, ArgsMet(k))
           T == N \cup Made(k, 1, FALSE) \cup Made(k, 2, TRUE)
           Y == IF BranchesOn(bb, k) THEN T ELSE ((T \cup {l}) \cup {r}) \cup {x.dst}
<1>1. /\ ir \in Programs /\ bb \in Block /\ k \in DOMAIN Body(bb) /\ pc = "select"
      /\ alias \in [Var -> Var \cup Param] /\ x.op = "and" /\ shared \subseteq Const
      /\ bb \in Nat /\ k \in Nat
  BY InstFacts DEF CodeInv, Where, Coded, SelectAnd, Selecting, Block
<1>2. k' = k + 1 /\ UNCHANGED <<ir, bb, pc, after, alias, shared>>
      /\ Resolve(Append1(Moves(k, 1, FALSE) \o Moves(k, 2, TRUE) \o code), ArgsMet(k))
  BY DEF SelectAnd
<1>3. x.op \in Binary /\ x.dst \in Reg /\ 1 \in DOMAIN x.args /\ 2 \in DOMAIN x.args
  BY <1>1, FieldFacts, RegFacts DEF Terminators, Binary
<1>4. ~Fuses(bb, k) /\ ~SelfTail(bb, k)
  BY <1>1 DEF Fuses, SelfTail
<1>a. FALSE \in BOOLEAN /\ TRUE \in BOOLEAN
  OBVIOUS
<1>5. ~BranchesOn(bb, k) => o \in Const \cup T /\ e \in Const \cup T
  <2> SUFFICES ASSUME ~BranchesOn(bb, k) PROVE o \in Const \cup T /\ e \in Const \cup T
    OBVIOUS
  <2>2. o \in Const \cup N \cup Made(k, 1, FALSE)
    BY <1>1, <1>3, <1>4, <1>a, UsesReady
  <2>3. e \in Const \cup N \cup Made(k, 2, TRUE)
    BY <1>1, <1>3, <1>4, <1>a, UsesReady
  <2> HIDE DEF o, e, N
  <2> QED
    BY <2>2, <2>3
<1>6. N \subseteq Reg
  BY <1>1, <1>2, StartFacts
<1>7. T \subseteq Reg
  <2> HIDE DEF N
  <2> QED
    BY <1>1, <1>3, <1>6, <1>a, PairLeads
<1>8. Held(bb, k + 1) \subseteq Y
  <2>1. Held(bb, k + 1) \subseteq
          Have(bb) \cup (IF Inst(bb, k).op = "alias" \/ Dropped(bb, k) THEN {} ELSE {x.dst})
    BY <1>1, HeldStep
  <2>2. BranchesOn(bb, k) => Dropped(bb, k)
    BY DEF Dropped
  <2> QED
    BY <2>1, <2>2
<1>9. l \in Reg /\ r \in Reg
  BY <1>1, RegFacts DEF Fresh
<1>10. code \in Seq(Inner) /\ Leads(T, code, Y) /\ T \subseteq Y /\ Y \subseteq Reg
  <2> HIDE DEF o, e, T, l, r
  <2>1. CASE BranchesOn(bb, k)
    BY <1>7, <2>1, LeadsEmpty
  <2>2. CASE ~BranchesOn(bb, k)
    <3> DEFINE v1 == Boolean("ne", l, o, Zero)
               v2 == Boolean("ne", r, e, Zero)
               T1 == T \cup {l}
               T2 == T1 \cup {r}
    <3>1. "ne" \in Comparisons /\ Zero \in Const
      BY RegFacts DEF Comparisons
    <3>2. T1 \subseteq Reg /\ T2 \subseteq Reg /\ e \in Const \cup T1
      BY <1>5, <1>7, <1>9, <2>2
    <3>3. v1 \in Seq(Inner) /\ Leads(T, v1, T1)
      BY <1>5, <1>7, <1>9, <2>2, <3>1, LeadsBoolean
    <3> HIDE DEF T1
    <3>4. v2 \in Seq(Inner) /\ Leads(T1, v2, T2)
      BY <1>9, <3>1, <3>2, LeadsBoolean
    <3> HIDE DEF v1, v2
    <3>5. v1 \o v2 \in Seq(Inner) /\ v1 \in Seq(MInst) /\ v2 \in Seq(MInst) /\ v1 \o v2 \in Seq(MInst)
      BY <3>3, <3>4, JoinInner, SeqMonotonic, InnerOuter
    <3>6. Leads(T, v1 \o v2, T2)
      BY <3>3, <3>4, <3>5, LeadsThen
    <3>7. y.op = "and" /\ y.dst = x.dst /\ y.cond = "any" /\ y.src = <<l, r>>
      BY DEF Bin, MI
    <3>8. y \in Inner /\ y \in MInst
      BY <1>3, <1>9, MakeInner, InnerOuter DEF Arith
    <3>9. Readable(y, T2)
      <4>1. {l, r} \subseteq Const \cup T2
        BY DEF T1
      <4> HIDE DEF y, T2
      <4> QED
        BY <3>7, <4>1, ReadableOnes
    <3> HIDE DEF y, T2
    <3>10. y.op \in Writing
      BY <3>7 DEF Writing, Arith
    <3>11. Leads(T, v1 \o v2 \o <<y>>, T2 \cup {y.dst}) /\ T2 \cup {y.dst} \subseteq Reg
      BY <3>2, <3>5, <3>6, <3>7, <3>8, <3>9, <3>10, OneMore
    <3>12. v1 \o v2 \o <<y>> \in Seq(Inner)
      BY <3>5, <3>8, JoinInner
    <3>13. code = v1 \o v2 \o <<y>> /\ Y = T2 \cup {y.dst}
      BY <2>2, <3>7 DEF v1, v2, T1, T2
    <3>14. T \subseteq T2
      BY DEF T1, T2
    <3> HIDE DEF code, Y
    <3> QED
      BY <3>11, <3>12, <3>13, <3>14
  <2> QED
    BY <2>1, <2>2
<1> HIDE DEF code, Y
<1>11. LET W == Have(bb) \cup Added(bb, ArgsMet(k)) \cup Made(k, 1, FALSE) \cup Made(k, 2, TRUE)
       IN  Leads(W, code, Y) /\ W \subseteq Y
  BY <1>10
<1>12. Y \in SUBSET Reg
  BY <1>10
<1> HIDE DEF x
<1> QED
  BY <1>1, <1>2, <1>3, <1>4, <1>8, <1>10, <1>11, <1>12, <1>a, PairFlow DEF x

\* The operand that a fused product is added to, or subtracted from, is ready before it.
LEMMA AddendReady ==
  ASSUME CodeInv, FlowInv, pc = "select", k \in DOMAIN Body(bb), Fuses(bb, k),
         NEW i1, i1 = (IF Inst(bb, k + 1).args[1] = Inst(bb, k).dst THEN 2 ELSE 1)
  PROVE  /\ k + 1 \in DOMAIN Body(bb) /\ Inst(bb, k + 1).op \in {"add", "sub"}
         /\ i1 \in DOMAIN Inst(bb, k + 1).args /\ Inst(bb, k + 1).args[i1] \in Arg
         /\ Inst(bb, k + 1).args[i1] \in Var =>
              Needed(Inst(bb, k + 1).args[i1]) /\ DefinedAt(ir, Inst(bb, k + 1).args[i1], bb, k)
<1> DEFINE v == Inst(bb, k).dst
           a == Inst(bb, k + 1).args
<1>1. ir \in Programs /\ bb \in Block /\ Inst(bb, k).op = "mul" /\ k + 1 \in DOMAIN Body(bb)
      /\ Inst(bb, k + 1).op \in {"add", "sub"} /\ k \in Nat
  BY InstFacts DEF CodeInv, Where, Fuses
<1>2. PICK u \in {1, 2} : Uses(v) = {<<bb, k + 1, u>>}
  BY DEF Fuses
<1>3. 1 \in DOMAIN a /\ 2 \in DOMAIN a
  BY <1>1, FieldFacts DEF Binary
<1>4. i1 \in {1, 2} /\ a[i1] # v
  <2>1. \A h \in {1, 2} : a[h] = v => h = u
    <3> SUFFICES ASSUME NEW h \in {1, 2}, a[h] = v PROVE h = u
      OBVIOUS
    <3>1. <<bb, k + 1, h>> \in Uses(v)
      BY <1>1, <1>3, UsedThere
    <3> QED
      BY <1>2, <3>1
  <2> QED
    BY <2>1
<1>5. a[i1] \in Arg
  BY <1>1, <1>3, <1>4, ArgFacts
<1>6. ASSUME a[i1] \in Var
      PROVE  Needed(a[i1]) /\ DefinedAt(ir, a[i1], bb, k)
  <2>1. DefinedAt(ir, a[i1], bb, k + 1)
    BY <1>1, <1>3, <1>4, <1>6, UsedDefined
  <2>2. DefinedAt(ir, a[i1], bb, k)
    BY <1>1, <1>4, <1>6, <2>1, DefinedNext
  <2>3. ASSUME NEW b \in Block, NEW j \in DOMAIN Body(b), Inst(b, j).dst = a[i1], Dropped(b, j)
        PROVE  FALSE
    <3>1. Fuses(b, j) /\ bb = b /\ k + 1 = j + 1
      BY <1>1, <1>3, <1>4, <2>3, DroppedUse
    <3>2. j \in Nat
      BY <1>1, InstFacts
    <3> QED
      BY <1>1, <1>4, <2>3, <3>1, <3>2
  <2> QED
    BY <2>2, <2>3 DEF Needed
<1> QED
  BY <1>1, <1>3, <1>4, <1>5, <1>6

LEMMA FmaFlow ==
  ASSUME CodeInv, FlowInv, LoadsInEntry', SelectFma
  PROVE  FlowInv'
<1> DEFINE y == Inst(bb, k + 1)
           i == IF y.args[1] = Inst(bb, k).dst THEN 2 ELSE 1
           o1 == Operand(k, 1, FALSE)
           o2 == Operand(k, 2, FALSE)
           o3 == Operand(k + 1, i, TRUE)
           m2 == Moves(k, 1, FALSE) \o Moves(k, 2, FALSE)
           m3 == m2 \o Moves(k + 1, i, TRUE)
           op == IF y.op = "add" THEN "mla" ELSE "mls"
           z == MI(op, y.dst, <<o1, o2, o3>>, "any", 0)
           met == Append(ArgsMet(k), <<y.args[i], bb>>)
           N == Have(bb) \cup Added(bb, met)
           T2 == N \cup Made(k, 1, FALSE) \cup Made(k, 2, FALSE)
           T3 == T2 \cup Made(k + 1, i, TRUE)
           Y == T3 \cup {y.dst}
<1>1. /\ ir \in Programs /\ bb \in Block /\ k \in DOMAIN Body(bb) /\ pc = "select" /\ Fuses(bb, k)
      /\ Inst(bb, k).op = "mul" /\ shared \subseteq Const /\ alias \in [Var -> Var \cup Param]
      /\ k \in Nat /\ bb \in Nat
  BY InstFacts DEF CodeInv, Where, Coded, SelectFma, Selecting, Block
<1>2. k' = k + 2 /\ UNCHANGED <<ir, bb, pc, after, alias, shared>>
      /\ Resolve(Append1(Append(m3, z)), met)
  BY DEF SelectFma
<1>3. /\ k + 1 \in DOMAIN Body(bb) /\ y.op \in {"add", "sub"}
      /\ i \in DOMAIN y.args /\ y.args[i] \in Arg
      /\ y.args[i] \in Var => Needed(y.args[i]) /\ DefinedAt(ir, y.args[i], bb, k)
  BY <1>1, AddendReady
<1>4. 1 \in DOMAIN Inst(bb, k).args /\ 2 \in DOMAIN Inst(bb, k).args /\ y.dst \in Reg
  BY <1>1, <1>3, FieldFacts, RegFacts DEF Binary, Terminators
<1>a. FALSE \in BOOLEAN /\ TRUE \in BOOLEAN
  OBVIOUS
<1>5. ArgsMet(k) \in Seq(Arg \X Block)
  BY <1>1, ArgsMetFacts
<1>6. met \in Seq(Arg \X Block) /\ Met(ArgsMet(k)) \subseteq Met(met)
      /\ (y.args[i] \in Param => y.args[i] \in resolved \cup Met(met))
  <2> DEFINE A == Arg \X Block
             e == <<y.args[i], bb>>
             w == ArgsMet(k)
  <2>1. w \in Seq(A) /\ e \in A /\ e[1] = y.args[i] /\ met = Append(w, e)
    BY <1>1, <1>3, <1>5
  <2> HIDE DEF A, e, w, met, y, i
  <2>2. met \in Seq(A) /\ (\A h \in DOMAIN w : h \in DOMAIN met /\ met[h] = w[h])
        /\ Len(w) + 1 \in DOMAIN met /\ met[Len(w) + 1] = e
    BY <2>1
  <2>3. Met(w) \subseteq Met(met)
    BY <2>2 DEF Met
  <2>4. y.args[i] \in Param => y.args[i] \in resolved \cup Met(met)
    BY <2>1, <2>2 DEF Met
  <2> QED
    BY <2>2, <2>3, <2>4 DEF A, w
<1>7. N \subseteq Reg /\ Have(bb) \cup Added(bb, ArgsMet(k)) \subseteq N
  <2>1. N \subseteq Reg
    BY <1>1, <1>2, StartFacts
  <2>2. Added(bb, ArgsMet(k)) \subseteq Added(bb, met)
    BY <1>6 DEF Added
  <2> HIDE DEF met
  <2> QED
    BY <2>1, <2>2
<1>8. ~BranchesOn(bb, k)
  BY <1>1 DEF BranchesOn
<1>9. o1 \in Reg \cup Const /\ o2 \in Reg \cup Const /\ o3 \in Reg \cup Const
  BY <1>1, <1>3, <1>4, <1>a, OperandMeets
<1>10. o1 \in Const \cup N \cup Made(k, 1, FALSE) /\ o2 \in Const \cup N \cup Made(k, 2, FALSE)
  <2> DEFINE K == Have(bb) \cup Added(bb, ArgsMet(k))
  <2>1. o1 \in Const \cup K \cup Made(k, 1, FALSE)
    BY <1>1, <1>4, <1>8, <1>a, UsesReady
  <2>2. o2 \in Const \cup K \cup Made(k, 2, FALSE)
    BY <1>1, <1>4, <1>8, <1>a, UsesReady
  <2>3. K \subseteq N
    BY <1>7
  <2> HIDE DEF K, N, o1, o2
  <2> QED
    BY <2>1, <2>2, <2>3
<1>11. o3 \in Const \cup N \cup Made(k + 1, i, TRUE)
  <2> DEFINE o == y.args[i]
             f == <<bb, k + 1, i>>
  <2>1. o \in Arg /\ (o \in Var => Needed(o) /\ DefinedAt(ir, o, bb, k))
        /\ (o \in Param => o \in resolved \cup Met(met))
    BY <1>3, <1>6
  <2>2. o3 = OperandAt(o, TRUE, f) /\ Made(k + 1, i, TRUE) = MadeAt(o, TRUE, f)
    BY DEF Operand, Made
  <2> HIDE DEF o, f, met, o3
  <2>3. OperandAt(o, TRUE, f) \in Const \cup (Have(bb) \cup Met(met)) \cup MadeAt(o, TRUE, f)
    BY <1>1, <1>a, <2>1, OperandReady DEF FlowInv
  <2> QED
    BY <2>2, <2>3 DEF Added
<1> HIDE DEF N, i
<1>12. m2 \in Seq(Inner) /\ m2 \in Seq(MInst) /\ Leads(N, m2, T2) /\ T2 \subseteq Reg
  BY <1>1, <1>7, <1>a, PairLeads DEF Binary
<1> HIDE DEF m2, T2
<1>13. m3 \in Seq(Inner) /\ m3 \in Seq(MInst) /\ Leads(N, m3, T3) /\ T3 \subseteq Reg
  <2> DEFINE w == Moves(k + 1, i, TRUE)
             M == Made(k + 1, i, TRUE)
  <2>1. w \in Seq(Inner) /\ w \in Seq(MInst) /\ Leads(T2, w, T2 \cup M) /\ T2 \cup M \subseteq Reg
    BY <1>1, <1>3, <1>12, <1>a, MovesLead
  <2> HIDE DEF w, M
  <2>2. Leads(N, m2 \o w, T2 \cup M)
    BY <1>12, <2>1, LeadsThen
  <2>3. m2 \o w \in Seq(Inner) /\ m2 \o w \in Seq(MInst)
    BY <1>12, <2>1
  <2> QED
    BY <2>1, <2>2, <2>3 DEF w, M
<1>14. op \in {"mla", "mls"}
  OBVIOUS
<1> HIDE DEF op, o1, o2, o3, y
<1>15. z.op = op /\ z.dst = y.dst /\ z.cond = "any" /\ z.src = <<o1, o2, o3>> /\ z \in Inner /\ z \in MInst
  BY <1>4, <1>9, <1>14, MakeInner, InnerOuter DEF MI
<1>16. Readable(z, T3)
  <2>1. {o1, o2, o3} \subseteq Const \cup T3
    BY <1>10, <1>11 DEF T2
  <2> HIDE DEF z, T3
  <2> QED
    BY <1>15, <2>1, ReadableOnes
<1> HIDE DEF z, m3
<1>17. z.op \in Writing
  BY <1>14, <1>15 DEF Writing
<1>18. N \subseteq T3
  BY DEF T2
<1> HIDE DEF T3
<1>19. Leads(N, m3 \o <<z>>, Y) /\ Y \subseteq Reg
  BY <1>13, <1>15, <1>16, <1>17, OneMore
<1>20. Append(m3, z) = m3 \o <<z>> /\ Append(m3, z) \in Seq(Inner)
  BY <1>13, <1>15
<1>21. Held(bb, (k + 1) + 1) \subseteq Y
  <2> SUFFICES ASSUME NEW v \in Held(bb, (k + 1) + 1) PROVE v \in Y
    OBVIOUS
  <2>1. v \in Held(bb, k + 1) \/ v = y.dst
    BY <1>1, HeldNext DEF y
  <2>2. Held(bb, k + 1) \subseteq Have(bb)
    BY <1>1, HeldStep DEF Dropped
  <2> QED
    BY <1>18, <2>1, <2>2 DEF N
<1>22. N \subseteq Y
  BY <1>18
<1> DEFINE insts == Append(m3, z)
<1>23. insts \in Seq(Inner) /\ Resolve(Append1(insts), met) /\ Leads(N, insts, Y)
  BY <1>2, <1>19, <1>20
<1>24. ~Fuses(bb, k + 1) /\ ~SelfTail(bb, k + 1) /\ Inst(bb, k + 1).op \notin Terminators \cup {"alias"}
  BY <1>3 DEF Fuses, SelfTail, Terminators, y
<1>25. k' = (k + 1) + 1 /\ k + 1 \in {k, k + 1} /\ Inst(bb, k).op # "alias"
  BY <1>1, <1>2
<1> HIDE DEF insts, met, Y
<1>26. Y \in SUBSET Reg
  BY <1>19
<1> QED
  BY <1>1, <1>2, <1>3, <1>6, <1>21, <1>22, <1>23, <1>24, <1>25, <1>26, PlainFlow DEF N

\* The last instruction of a block defines nothing.
LEMMA HeldEnd ==
  ASSUME ir \in Programs, NEW b0 \in Block, NEW j0 \in DOMAIN Body(b0), Inst(b0, j0).op \in Terminators
  PROVE  Held(b0, j0 + 1) \subseteq Held(b0, j0)
<1>1. Inst(b0, j0).dst \notin Var /\ j0 \in Nat
  BY InstFacts, OperandAssumption DEF Shaped
<1> SUFFICES ASSUME NEW v \in Held(b0, j0 + 1) PROVE v \in Held(b0, j0)
  OBVIOUS
<1>2. v \in Var
  BY DEF Held
<1> QED
  BY <1>1, <1>2, HeldNext

-----------------------------------------------------------------------------
(* Calls.                                                                  *)

Slotted == {ArgSlot(i) : i \in DOMAIN Inst(bb, k).args}

LEMMA SlottedFacts ==
  ASSUME CodeInv, pc = "select", k \in DOMAIN Body(bb)
  PROVE  Slotted \subseteq Reg /\ (Inst(bb, k).op = "self" => Arguments \subseteq Slotted)
<1> DEFINE x == Inst(bb, k)
<1>1. ir \in Programs /\ bb \in Block
  BY DEF CodeInv, Where
<1>2. DOMAIN x.args = 1 .. Len(x.args) /\ (x.op = "self" => Len(x.args) = ir.arity)
  BY <1>1, FieldFacts
<1>3. \A i \in DOMAIN x.args : i \in Nat /\ (i <= Len(Slots) => i \in DOMAIN Slots)
  BY <1>2, SlotFacts
<1>4. \A i \in DOMAIN x.args : ArgSlot(i) \in Reg
  BY <1>3, SlotFacts DEF ArgSlot, Reg
<1>5. ASSUME x.op = "self", NEW r \in Arguments
      PROVE  r \in Slotted
  <2>1. PICK i \in DOMAIN Slots \cap (1 .. ir.arity) : r = Slots[i]
    BY DEF Arguments, SlotsOf
  <2>2. i \in DOMAIN x.args /\ ArgSlot(i) = r
    BY <1>2, <1>5, <2>1, SlotFacts DEF ArgSlot
  <2> QED
    BY <2>2 DEF Slotted
<1> QED
  BY <1>4, <1>5 DEF Slotted

LEMMA PassOne ==
  ASSUME CodeInv, FlowInv, pc = "select", k \in DOMAIN Body(bb), Inst(bb, k).op \in {"call", "self"},
         shared' \subseteq Const, NEW i0 \in DOMAIN Inst(bb, k).args
  PROVE  LET N == Have(bb) \cup Added(bb, ArgsMet(k))
         IN  \E G \in SUBSET Reg :
               ArgSlot(i0) \in G /\ PassArg(i0) \in Seq(Outer) /\ Leads(N, PassArg(i0), N \cup G)
<1> DEFINE N == Have(bb) \cup Added(bb, ArgsMet(k))
           imm == i0 <= Len(Slots)
           o == Operand(k, i0, imm)
           m == Moves(k, i0, imm)
           M == Made(k, i0, imm)
           y == Mv(ArgSlot(i0), o)
           G == M \cup {ArgSlot(i0)}
<1>1. ir \in Programs /\ bb \in Block /\ alias \in [Var -> Var \cup Param] /\ bb \in Nat /\ k \in Nat
  BY InstFacts DEF CodeInv, Where, Coded, Block
<1>2. i0 \in Nat /\ imm \in BOOLEAN
  BY <1>1, FieldFacts, SlotFacts
<1>3. PassArg(i0) = m \o <<y>>
  BY DEF PassArg
<1>4. ~BranchesOn(bb, k) /\ Inst(bb, k).op # "branch" /\ Inst(bb, k).op # "phi"
  BY DEF BranchesOn
<1>5. o \in Const \cup N \cup M /\ o \in Reg \cup Const
  BY <1>1, <1>2, <1>4, UsesReady, OperandMeets
<1>6. N \subseteq Reg
  BY StartFacts
<1>7. ArgSlot(i0) \in Reg
  BY SlottedFacts DEF Slotted
<1> HIDE DEF N
<1>8. m \in Seq(MInst) /\ Leads(N, m, N \cup M) /\ N \cup M \subseteq Reg
  BY <1>2, <1>6, MovesLead
<1>9. m \in Seq(Outer)
  <2>1. <<bb, k, i0>> \in Fresh
    BY <1>1, <1>2 DEF Fresh
  <2> QED
    BY <1>2, <2>1, MoveOuter DEF Moves
<1> HIDE DEF m, M, o
<1>10. y \in Outer /\ y \in MInst
  BY <1>5, <1>7, MakeInner, InnerOuter
<1>11. y.op = "mv" /\ y.dst = ArgSlot(i0) /\ y.cond = "any" /\ y.src = <<o>>
  BY DEF Mv, MI
<1> HIDE DEF y
<1>12. Readable(y, N \cup M)
  BY <1>5, <1>11, ReadableOnes
<1>13. y.op \in Writing
  BY <1>11 DEF Writing
<1>14. Leads(N, m \o <<y>>, (N \cup M) \cup {y.dst}) /\ (N \cup M) \cup {y.dst} \subseteq Reg
  BY <1>8, <1>10, <1>11, <1>12, <1>13, OneMore
<1>15. (N \cup M) \cup {y.dst} = N \cup G
  BY <1>11
<1>16. m \o <<y>> \in Seq(Outer)
  BY <1>9, <1>10, JoinOuter
<1>17. G \in SUBSET Reg /\ ArgSlot(i0) \in G
  BY <1>7, <1>8
<1> HIDE DEF G
<1>18. PassArg(i0) \in Seq(Outer) /\ Leads(N, PassArg(i0), N \cup G)
  BY <1>3, <1>14, <1>15, <1>16
<1> QED
  BY <1>17, <1>18 DEF N

LEMMA PassLeads ==
  ASSUME CodeInv, FlowInv, pc = "select", k \in DOMAIN Body(bb), Inst(bb, k).op \in {"call", "self"},
         shared' \subseteq Const
  PROVE  LET N == Have(bb) \cup Added(bb, ArgsMet(k))
         IN  Leads(N, PassArgs, N \cup Slotted) /\ N \cup Slotted \subseteq Reg
<1> DEFINE N == Have(bb) \cup Added(bb, ArgsMet(k))
           a == Inst(bb, k).args
           num == Len(a)
           each == [i \in DOMAIN a |-> PassArg(i)]
           Is(i, g) == ArgSlot(i) \in g /\ Leads(N, PassArg(i), N \cup g)
           gain == [i \in 1 .. num |-> CHOOSE g \in SUBSET Reg : Is(i, g)]
<1>1. DOMAIN a = 1 .. num /\ num \in Nat
  BY FieldFacts DEF CodeInv, Where
<1>2. \A i \in 1 .. num : PassArg(i) \in Seq(Outer) /\ \E g \in SUBSET Reg : Is(i, g)
  BY <1>1, PassOne
<1>3. N \subseteq Reg
  BY StartFacts
<1>4. each \in [1 .. num -> Seq(Outer)] /\ \A i \in 1 .. num : each[i] = PassArg(i)
  BY <1>1, <1>2
<1> HIDE DEF Is
<1>5. gain \in [1 .. num -> SUBSET Reg] /\ \A i \in 1 .. num : Is(i, gain[i])
  BY <1>2
<1>6. Outer \subseteq MInst /\ \A x \in Outer : x.op # "call"
  BY InnerOuter DEF Outer
<1>7. PassArgs = FlattenSeq(each)
  BY DEF PassArgs
<1> HIDE DEF each, gain, N, num
<1>8. \A r \in N \cup Slotted : r \in N \/ \E j \in 1 .. num : r \in gain[j]
  BY <1>1, <1>5 DEF Is, Slotted
<1>9. \A j \in 1 .. num : Leads(N, each[j], N \cup gain[j])
  BY <1>4, <1>5 DEF Is
<1>a. each \in [1 .. num -> Seq(Outer)] /\ gain \in [1 .. num -> SUBSET Reg] /\ num \in Nat
  BY <1>1, <1>4, <1>5
<1>10. Leads(N, FlattenSeq(each), N \cup Slotted)
  <2> DEFINE W == N \cup Slotted
  <2>1. \A r \in W : r \in N \/ \E j \in 1 .. num : r \in gain[j]
    BY <1>8
  <2> HIDE DEF a, Is, W
  <2>2. Leads(N, FlattenSeq(each), W)
    BY <1>3, <1>6, <1>9, <1>a, <2>1, LeadsFlatten
  <2> QED
    BY <2>2 DEF W
<1>11. Leads(N, PassArgs, N \cup Slotted)
  BY <1>7, <1>10
<1> QED
  BY <1>3, <1>11, SlottedFacts DEF N

LEMMA JoinPair ==
  ASSUME NEW c1, NEW c2
  PROVE  <<c1>> \o <<c2>> = <<c1, c2>>
<1> DEFINE A0 == {c1, c2}
           q1 == <<c1>>
           q2 == <<c2>>
           q == <<c1, c2>>
           z == q1 \o q2
<1>1. q1 \in Seq(A0) /\ q2 \in Seq(A0) /\ Len(q1) = 1 /\ Len(q2) = 1 /\ q1[1] = c1 /\ q2[1] = c2
  OBVIOUS
<1>2. q \in [1 .. 2 -> A0] /\ q[1] = c1 /\ q[2] = c2
  OBVIOUS
<1> HIDE DEF q1, q2, q, A0
<1>3. /\ z \in Seq(A0) /\ Len(z) = Len(q1) + Len(q2)
      /\ \A i \in 1 .. Len(q1) : z[i] = q1[i]
      /\ \A i \in 1 .. Len(q2) : z[Len(q1) + i] = q2[i]
  BY <1>1, JoinAt
<1> HIDE DEF z
<1>4. Len(z) = 2 /\ z[1] = c1 /\ z[2] = c2
  <2>1. 1 \in 1 .. Len(q1) /\ 1 \in 1 .. Len(q2) /\ Len(q1) + 1 = 2
    BY <1>1
  <2> QED
    BY <1>1, <1>3, <2>1
<1>5. z \in [1 .. 2 -> A0]
  <2>1. z \in [1 .. Len(z) -> A0]
    BY <1>3
  <2> QED
    BY <1>4, <2>1
<1>6. \A i \in 1 .. 2 : z[i] = q[i]
  BY <1>2, <1>4
<1>7. z = q
  BY <1>2, <1>5, <1>6
<1> QED
  BY <1>7 DEF z, q, q1, q2

LEMMA CallFlow ==
  ASSUME CodeInv, FlowInv, LoadsInEntry', SelectCall
  PROVE  FlowInv'
<1> DEFINE x == Inst(bb, k)
           slots == [i \in DOMAIN x.args |-> ArgSlot(i)]
           c == MI("call", None, slots, "any", 0)
           y == Mv(x.dst, Slots[1])
           N == Have(bb) \cup Added(bb, ArgsMet(k))
           P == N \cup Slotted
           T == N \cup {Slots[1]}
           Y == T \cup {x.dst}
           insts == PassArgs \o <<c, y>>
<1>1. /\ ir \in Programs /\ bb \in Block /\ k \in DOMAIN Body(bb) /\ pc = "select"
      /\ x.op \in {"call", "self"} /\ ~SelfTail(bb, k) /\ shared \subseteq Const
  BY DEF CodeInv, Where, Coded, SelectCall, Selecting, SelfTail
<1>2. k' = k + 1 /\ UNCHANGED <<ir, bb, pc, after, alias, shared>> /\ Resolve(Append1(insts), ArgsMet(k))
  BY DEF SelectCall
<1>3. x.dst \in Reg /\ DOMAIN x.args = 1 .. Len(x.args) /\ Len(x.args) \in Nat
  BY <1>1, FieldFacts, RegFacts DEF Terminators
<1>4. N \subseteq Reg /\ N \cap Slot = {} /\ T \subseteq Reg
  BY <1>1, <1>2, StartFacts, SlotFacts
<1>5. Leads(N, PassArgs, P) /\ P \subseteq Reg
  BY <1>1, <1>2, PassLeads
<1>6. PassArgs \in Seq(Inner) /\ PassArgs \in Seq(MInst)
  BY <1>1, PassTyped, SeqMonotonic, InnerOuter
<1> HIDE DEF N
<1>7. c \in MInst /\ c \in Inner /\ c.op = "call" /\ c.src = slots
  <2>1. Slotted \subseteq Reg
    BY <1>1, SlottedFacts
  <2>2. slots \in [1 .. Len(x.args) -> Reg \cup Const]
    BY <1>3, <2>1 DEF Slotted
  <2>3. slots \in Seq(Reg \cup Const)
    BY <1>3, <2>2
  <2> HIDE DEF slots
  <2> QED
    BY <2>3 DEF MI, MInst, Inner, Condition, Writing, Exiting, Arith
<1>8. Readable(c, P)
  BY <1>7 DEF Readable, Slotted
<1>9. Leads(P, <<c>>, T)
  <2>1. T \subseteq Kept(c, P)
    BY <1>4, <1>7 DEF Kept
  <2> HIDE DEF c, P, T
  <2>2. T \subseteq Kept(c, P) \cup (IF c.op \in Writing /\ c.cond = "any" THEN {c.dst} ELSE {})
    BY <2>1
  <2> QED
    BY <1>4, <1>5, <1>7, <1>8, <2>2, LeadsOne
<1>10. y.op = "mv" /\ y.dst = x.dst /\ y.cond = "any" /\ y.src = <<Slots[1]>>
  BY DEF Mv, MI
<1>11. y \in MInst /\ y \in Inner /\ Readable(y, T) /\ y.op \in Writing
  <2>1. y \in MInst /\ y \in Inner
    BY <1>3, MakeInner, InnerOuter, RegFacts
  <2>2. Slots[1] \in Const \cup T
    OBVIOUS
  <2> HIDE DEF y, T
  <2> QED
    BY <1>10, <2>1, <2>2, ReadableOnes DEF Writing
<1> HIDE DEF c, y, T
<1>12. Leads(P, <<c>> \o <<y>>, Y) /\ Y \subseteq Reg
  <2>1. <<c>> \in Seq(MInst)
    BY <1>7
  <2> QED
    BY <1>4, <1>9, <1>10, <1>11, <2>1, OneMore
<1> HIDE DEF P, Y
<1>13. Leads(N, insts, Y)
  <2>a. <<c>> \o <<y>> = <<c, y>>
    BY JoinPair
  <2>1. <<c>> \o <<y>> = <<c, y>> /\ <<c, y>> \in Seq(MInst)
    <3>1. c \in MInst /\ y \in MInst
      BY <1>7, <1>11
    <3> QED
      BY <2>a, <3>1
  <2> QED
    BY <1>5, <1>6, <1>12, <2>1, LeadsThen
<1>14. insts \in Seq(Inner)
  BY <1>6, <1>7, <1>11, JoinInner
<1>15. Held(bb, k + 1) \subseteq Y /\ N \subseteq Y
  <2>1. Held(bb, k + 1) \subseteq Have(bb) \cup {x.dst}
    BY <1>1, HeldStep
  <2> QED
    BY <2>1 DEF N, T, Y
<1>16. ArgsMet(k) \in Seq(Arg \X Block)
  BY <1>1, ArgsMetFacts
<1>17. ~Fuses(bb, k) /\ x.op \notin Terminators \cup {"alias"}
  BY <1>1 DEF Fuses, Terminators
<1> HIDE DEF insts
<1>18. Y \in SUBSET Reg
  BY <1>12
<1> QED
  BY <1>1, <1>2, <1>13, <1>14, <1>15, <1>16, <1>17, <1>18, PlainFlow DEF N

LEMMA SelfTailFlow ==
  ASSUME CodeInv, FlowInv, LoadsInEntry', SelectSelfTail
  PROVE  FlowInv'
<1> DEFINE N == Have(bb) \cup Added(bb, ArgsMet(k))
           Y == N \cup Slotted
           c == <<Jump(1)>>
<1>1. /\ ir \in Programs /\ bb \in Block /\ k \in DOMAIN Body(bb) /\ pc = "select"
      /\ Inst(bb, k).op = "self" /\ SelfTail(bb, k) /\ shared \subseteq Const /\ k \in Nat
  BY InstFacts DEF CodeInv, Where, Coded, SelectSelfTail, Selecting
<1>2. k' = k + 2 /\ UNCHANGED <<ir, bb, pc, alias, shared>> /\ Resolve(Append1(PassArgs), ArgsMet(k))
      /\ after' = [after EXCEPT ![bb] = c]
  BY DEF SelectSelfTail
<1>3. k + 1 \in DOMAIN Body(bb) /\ Inst(bb, k + 1).op = "return"
  BY <1>1 DEF SelfTail
<1>4. Leads(N, PassArgs, Y) /\ Y \subseteq Reg
  BY <1>1, <1>2, PassLeads
<1>5. PassArgs \in Seq(Inner)
  BY <1>1, PassTyped
<1>6. Held(bb, (k + 1) + 1) \subseteq Y
  <2>1. Held(bb, (k + 1) + 1) \subseteq Held(bb, k + 1)
    BY <1>1, <1>3, HeldEnd DEF Terminators
  <2>2. Held(bb, k + 1) \subseteq Have(bb)
    BY <1>1, HeldStep DEF Dropped
  <2> QED
    BY <2>1, <2>2
<1>7. ArgsMet(k) \in Seq(Arg \X Block)
  BY <1>1, ArgsMetFacts
<1>8. c \in Seq(Outer) /\ Leads(Y, c, Y)
  <2>1. Jump(1) \in Outer /\ Jump(1) \in MInst
    BY MakeInner, InnerOuter, SizeAssumption DEF Condition, Block
  <2>2. Jump(1).op = "jump" /\ Jump(1).src = <<>>
    BY DEF Jump, MI
  <2>3. Readable(Jump(1), Y) /\ Y \subseteq Kept(Jump(1), Y)
    BY <2>2 DEF Readable, Kept
  <2> HIDE DEF Y
  <2>4. Leads(Y, <<Jump(1)>>, Y)
    BY <1>4, <2>1, <2>3, LeadsOne
  <2> QED
    BY <2>1, <2>4
<1>9. Restarts(bb) /\ Arguments \subseteq Y
  BY <1>1, SlottedFacts DEF Restarts
<1>10. Inst(bb, k + 1).op \in Terminators /\ Inst(bb, k + 1).op # "jump" /\ Inst(bb, k).op # "alias"
  BY <1>1, <1>3 DEF Terminators
<1>11. k' = (k + 1) + 1 /\ k + 1 \in {k, k + 1}
  BY <1>1, <1>2
<1>12. Y \in SUBSET Reg /\ N \subseteq Y
  BY <1>4
<1> HIDE DEF Y, c
<1> QED
  BY <1>1, <1>2, <1>3, <1>4, <1>5, <1>6, <1>7, <1>8, <1>9, <1>10, <1>11, <1>12, EndFlow

-----------------------------------------------------------------------------
(* Instructions without code of their own, and the ends of blocks.         *)

LEMMA NoParams ==
  ASSUME CodeInv, UNCHANGED <<before, resolved>>
  PROVE  Resolve(Append1(<<>>), <<>>) /\ <<>> \in Seq(Arg \X Block) /\ Append1(<<>>) = before
<1>1. before \in [Block -> Seq(Inner)]
  BY DEF CodeInv, Coded
<1>2. Met(<<>>) = {}
  BY DEF Met
<1>3. SetToSeq({}) = <<>>
  <2> DEFINE z == SetToSeq({})
  <2>1. z \in Seq({})
    BY SetToSeqIs, FS_EmptySet
  <2> HIDE DEF z
  <2>2. z = <<>>
    BY <2>1
  <2> QED
    BY <2>2 DEF z
<1>4. \A b \in Block : before[b] \o <<>> = before[b] /\ <<>> \o before[b] = before[b]
  BY <1>1
<1>5. Append1(<<>>) = before
  BY <1>1, <1>4 DEF Append1
<1>6. \A b : {c.inst : c \in {n \in {ParamCode(p, <<>>) : p \in Met(<<>>)} : n.block = b}} = {}
  BY <1>2
<1>7. WithParams(before, <<>>) = [b \in Block |-> <<>> \o before[b]]
  BY <1>3, <1>6 DEF WithParams
<1>8. WithParams(before, <<>>) = before
  BY <1>1, <1>4, <1>7
<1> QED
  BY <1>2, <1>5, <1>8 DEF Resolve

LEMMA PhiFlow ==
  ASSUME CodeInv, FlowInv, LoadsInEntry', SelectPhi
  PROVE  FlowInv'
<1> DEFINE Y == Have(bb) \cup Added(bb, <<>>)
<1>1. /\ ir \in Programs /\ bb \in Block /\ k \in DOMAIN Body(bb) /\ pc = "select"
      /\ Inst(bb, k).op = "phi" /\ shared \subseteq Const
  BY DEF CodeInv, Where, Coded, SelectPhi, Selecting
<1>2. k' = k + 1 /\ UNCHANGED <<ir, bb, pc, after, alias, shared, before, resolved>>
  BY DEF SelectPhi, codeVars
<1>3. Y \subseteq Reg
  BY <1>1, <1>2, StartFacts
<1>4. <<>> \in Seq(Inner) /\ Leads(Y, <<>>, Y)
  BY <1>3, LeadsEmpty
<1>5. Held(bb, k + 1) \subseteq Y
  <2>1. Held(bb, k + 1) \subseteq Have(bb) \cup {Inst(bb, k).dst}
    BY <1>1, HeldStep
  <2>2. Inst(bb, k).dst \in Dsts(bb)
    BY <1>1, PhisFacts DEF Dsts
  <2> QED
    BY <2>1, <2>2 DEF Have
<1>6. ~Fuses(bb, k) /\ ~SelfTail(bb, k) /\ Inst(bb, k).op \notin Terminators \cup {"alias"}
  BY <1>1 DEF Fuses, SelfTail, Terminators
<1>7. Y \in SUBSET Reg /\ Have(bb) \cup Added(bb, <<>>) \subseteq Y /\ Leads(Have(bb) \cup Added(bb, <<>>), <<>>, Y)
  BY <1>3, <1>4
<1>8. Resolve(Append1(<<>>), <<>>) /\ <<>> \in Seq(Arg \X Block)
  BY <1>2, NoParams
<1> HIDE DEF Y
<1> QED
  BY <1>1, <1>2, <1>4, <1>5, <1>6, <1>7, <1>8, PlainFlow

LEMMA EndBlockFlow ==
  ASSUME CodeInv, FlowInv, EndBlock
  PROVE  FlowInv'
<1>1. /\ ir \in Programs /\ bb \in Block /\ pc = "select" /\ k > Len(Body(bb)) /\ k \in Nat /\ bb \in Nat
      /\ NumBlocks \in Nat
  BY BlockFacts, SizeAssumption DEF CodeInv, Where, EndBlock, Block
<1>2. /\ IF bb < NumBlocks THEN bb' = bb + 1 /\ pc' = pc ELSE bb' = 1 /\ pc' = "phis"
      /\ k' = 1
      /\ UNCHANGED <<ir, before, after, alias, resolved, shared, tailed, succ>>
  BY DEF EndBlock, codeVars
<1>3. \A b : Body(b)' = Body(b) /\ Succ(b)' = Succ(b) /\ Phis(b)' = Phis(b)
  BY <1>2, SameShape
<1>4. \A b, j : Held(b, j)' = Held(b, j) /\ Inst(b, j)' = Inst(b, j) /\ SelfTail(b, j)' = SelfTail(b, j)
  BY <1>2, SameShape
<1>a. \A v : Solid(v)' = Solid(v)
  BY <1>2, SameShape
<1>5. \A b \in Block : Past(b)' <=> Past(b)
  <2> SUFFICES ASSUME NEW b \in Block PROVE Past(b)' <=> Past(b)
    OBVIOUS
  <2>1. b \in Nat /\ b <= NumBlocks /\ Len(Body(b)) \in Nat \ {0}
    BY <1>1, BlockFacts DEF Block
  <2>2. Past(b) <=> b <= bb
    BY <1>1, <2>1 DEF Past
  <2>3. CASE bb < NumBlocks
    <3>1. Past(b)' <=> b < bb + 1 \/ (b = bb + 1 /\ 1 > Len(Body(b)))
      BY <1>1, <1>2, <1>3, <2>3 DEF Past
    <3> QED
      BY <1>1, <2>1, <2>2, <3>1
  <2>4. CASE ~(bb < NumBlocks)
    <3>1. Past(b)'
      BY <1>2, <2>4 DEF Past
    <3> QED
      BY <1>1, <2>1, <2>2, <2>4, <3>1
  <2> QED
    BY <2>3, <2>4
<1>6. \A b \in Block : Pos(b)' = Pos(b)
  <2> SUFFICES ASSUME NEW b \in Block PROVE Pos(b)' = Pos(b)
    OBVIOUS
  <2>1. Past(b) => Pos(b)' = Pos(b)
    BY <1>3, <1>5 DEF Pos
  <2>2. ~Past(b) => b # bb
    BY <1>1 DEF Past
  <2>3. Pos(b)' = IF Past(b)' THEN Len(Body(b)) + 1 ELSE 1
    BY <1>2, <1>3 DEF Pos
  <2> QED
    BY <1>5, <2>1, <2>2, <2>3 DEF Pos
<1>7. \A b \in Block : ~Done(b) /\ ~Done(b)'
  BY <1>1, <1>2 DEF Done, Block
<1>8. Aliased'
  <2> SUFFICES ASSUME NEW b \in Block, NEW j \in DOMAIN Body(b)
               PROVE  Translated(b, j)' <=> Translated(b, j)
    BY <1>2, AliasedKept DEF FlowInv
  <2>1. b \in Nat /\ b <= NumBlocks /\ j \in 1 .. Len(Body(b)) /\ Len(Body(b)) \in Nat
    BY <1>1, BlockFacts DEF Block
  <2>2. Translated(b, j) <=> b <= bb
    BY <1>1, <2>1 DEF Translated
  <2>3. CASE bb < NumBlocks
    BY <1>1, <1>2, <2>1, <2>2, <2>3 DEF Translated
  <2>4. CASE ~(bb < NumBlocks)
    BY <1>1, <1>2, <2>1, <2>2, <2>4 DEF Translated
  <2> QED
    BY <2>3, <2>4
<1>9. Skipped'
  BY <1>2 DEF Skipped
<1>10. EntryEnd' /\ Exits'
  <2>1. 1 \in Block
    BY SizeAssumption DEF Block
  <2> QED
    BY <1>2, <1>5, <2>1, EntryEndKept, ExitsKept DEF FlowInv
<1>11. Flow'
  <2> SUFFICES ASSUME NEW b \in Block
               PROVE  \E Z \in SUBSET Reg :
                        /\ Leads(Base(b)' \cup Passed(b)', before'[b], Z)
                        /\ Have(b)' \cup Onward(b)' \cup Again(b)' \subseteq Z
                        /\ Past(b)' => Leads(Z, after'[b], Z)
    BY DEF Flow, Good
  <2>1. PICK Z \in SUBSET Reg : Good(b, Z)
    BY DEF FlowInv, Flow
  <2>2. Dsts(b)' = Dsts(b) /\ Arguments' = Arguments /\ Shared(b)' = Shared(b)
    BY <1>2, <1>3, <1>4 DEF Dsts, Arguments, Shared, MagicsOf
  <2>3. Passed(b)' = Passed(b)
    BY <1>7, <2>2 DEF Passed
  <2>4. Base(b)' = Base(b)
    BY <1>2, <1>4, <2>2 DEF Base
  <2>5. Have(b)' = Have(b)
    <3>1. Held(b, Pos(b))' = Held(b, Pos(b))
      BY <1>a, <1>2, <1>6 DEF Held
    <3> QED
      BY <1>2, <2>2, <3>1 DEF Have
  <2>6. Onward(b) = {} /\ Onward(b)' = {}
    <3>1. Succ(b) \subseteq Block
      BY <1>1, SuccFacts
    <3> QED
      BY <1>3, <1>7, <3>1 DEF Onward
  <2>7. Again(b)' = Again(b)
    <3>1. Restarts(b)' <=> Restarts(b)
      BY <1>2, RestartsKept
    <3> QED
      BY <1>5, <2>2, <3>1 DEF Again
  <2> QED
    BY <1>2, <1>5, <2>1, <2>3, <2>4, <2>5, <2>6, <2>7 DEF Good
<1> QED
  BY <1>8, <1>9, <1>10, <1>11 DEF FlowInv

\* Code that writes nothing that matters.
LEMMA ReadsOnly ==
  ASSUME NEW c0 \in Seq(Outer), NEW Z1 \in SUBSET Reg, \A i \in 1 .. Len(c0) : Readable(c0[i], Z1)
  PROVE  Leads(Z1, c0, Z1)
<1> DEFINE av == [i \in 0 .. Len(c0) |-> Z1]
<1>1. Len(c0) \in Nat
  OBVIOUS
<1>2. av \in [0 .. Len(c0) -> SUBSET Reg] /\ (\A i \in 0 .. Len(c0) : av[i] = Z1)
  OBVIOUS
<1> HIDE DEF av
<1>3. ASSUME NEW n \in 1 .. Len(c0)
      PROVE  Readable(c0[n], av[n - 1]) /\ av[n] \subseteq Kept(c0[n], av[n - 1]) \cup Gained(c0, n)
  <2>1. n - 1 \in 0 .. Len(c0) /\ n \in 0 .. Len(c0)
    BY <1>1
  <2>2. c0[n] \in Outer
    BY <1>1
  <2>3. c0[n].op # "call"
    BY <2>2 DEF Outer
  <2> QED
    BY <1>2, <2>1, <2>3 DEF Kept
<1>4. Follows(av, c0)
  BY <1>2, <1>3 DEF Follows
<1>5. 0 \in 0 .. Len(c0) /\ Len(c0) \in 0 .. Len(c0)
  BY <1>1
<1> QED
  BY <1>2, <1>4, <1>5 DEF Leads

\* A block that ends in a jump, a branch or a return does not start the function again.
LEMMA NoRestart ==
  ASSUME CodeInv, Skipped, pc = "select", k \in DOMAIN Body(bb), Inst(bb, k).op \in Terminators
  PROVE  ~Restarts(bb)
<1>1. ir \in Programs /\ bb \in Block
  BY DEF CodeInv, Where
<1> SUFFICES ASSUME NEW j \in DOMAIN Body(bb), SelfTail(bb, j) PROVE FALSE
  BY DEF Restarts
<1>2. j + 1 \in DOMAIN Body(bb) /\ Inst(bb, j + 1).op \in Terminators /\ j \in 1 .. Len(Body(bb))
      /\ Len(Body(bb)) \in Nat
  BY <1>1, InstFacts, BlockFacts DEF SelfTail, Terminators
<1>3. j + 1 = k
  BY <1>1, <1>2, InstFacts
<1>4. k > 1 /\ k - 1 = j
  BY <1>2, <1>3
<1> QED
  BY <1>4 DEF Skipped

LEMMA JumpFlow ==
  ASSUME CodeInv, FlowInv, LoadsInEntry', SelectJump
  PROVE  FlowInv'
<1> DEFINE Y == Have(bb) \cup Added(bb, <<>>)
           t == Inst(bb, k).to[1]
           c == <<Jump(t)>>
<1>1. /\ ir \in Programs /\ bb \in Block /\ k \in DOMAIN Body(bb) /\ pc = "select"
      /\ Inst(bb, k).op = "jump" /\ shared \subseteq Const
  BY DEF CodeInv, Where, Coded, SelectJump, Selecting
<1>2. k' = k + 1 /\ UNCHANGED <<ir, bb, pc, alias, shared, before, resolved>>
      /\ after' = [after EXCEPT ![bb] = c]
  BY DEF SelectJump
<1>3. Y \subseteq Reg
  BY <1>1, <1>2, StartFacts
<1>4. <<>> \in Seq(Inner) /\ Leads(Y, <<>>, Y)
  BY <1>3, LeadsEmpty
<1>5. t \in Block /\ t # 1
  BY <1>1, FieldFacts
<1>6. Inst(bb, k).op \in Terminators /\ Inst(bb, k).op # "alias"
  BY <1>1 DEF Terminators
<1>7. Held(bb, k + 1) \subseteq Y
  <2>1. Held(bb, k + 1) \subseteq Have(bb) \cup {Inst(bb, k).dst}
    BY <1>1, HeldStep
  <2>2. Inst(bb, k).dst \notin Var
    BY <1>1, <1>6, InstFacts, OperandAssumption DEF Shaped
  <2> QED
    BY <2>1, <2>2 DEF Held
<1> HIDE DEF t
<1>8. Jump(t) \in Outer /\ Jump(t).op = "jump" /\ Jump(t).src = <<>> /\ Jump(t).to = t
  BY <1>5, MakeInner DEF Condition, Jump, MI
<1>9. Readable(Jump(t), Y)
  BY <1>8 DEF Readable
<1> HIDE DEF Y
<1>10. c \in Seq(Outer) /\ Len(c) = 1 /\ c[1] = Jump(t)
  BY <1>8
<1>a. \A i \in 1 .. Len(c) : Readable(c[i], Y)
  BY <1>9, <1>10
<1>11. Leads(Y, c, Y)
  <2> HIDE DEF c
  <2> QED
    BY <1>3, <1>10, <1>a, ReadsOnly
<1>12. \A i \in 1 .. Len(c) : c[i].op \in {"branch", "jump"} /\ c[i].to = 1 => Restarts(bb)
  BY <1>5, <1>8, <1>10
<1>13. Restarts(bb) => Arguments \subseteq Y
  BY <1>1, <1>6, NoRestart DEF FlowInv
<1>14. Inst(bb, k).op = "jump" => \E u \in Block : c = <<Jump(u)>>
  BY <1>5
<1>15. Y \in SUBSET Reg /\ Have(bb) \cup Added(bb, <<>>) \subseteq Y /\ Leads(Have(bb) \cup Added(bb, <<>>), <<>>, Y)
  BY <1>3, <1>4 DEF Y
<1>16. Resolve(Append1(<<>>), <<>>) /\ <<>> \in Seq(Arg \X Block)
  BY <1>2, NoParams
<1> HIDE DEF c
<1> QED
  BY <1>1, <1>2, <1>4, <1>6, <1>7, <1>10, <1>11, <1>12, <1>13, <1>14, <1>15, <1>16, EndFlow

\* A branch and the jump after it read nothing, and do not go to the entry.
LEMMA BranchesLead ==
  ASSUME NEW c0 \in Comparisons, NEW t1 \in Block \ {1}, NEW t2 \in Block \ {1}
  PROVE  /\ Branches(c0, t1, t2) \in Seq(Outer)
         /\ \A i \in 1 .. Len(Branches(c0, t1, t2)) :
              /\ Branches(c0, t1, t2)[i].to # 1
              /\ \A Z : Readable(Branches(c0, t1, t2)[i], Z)
<1> DEFINE s == Branches(c0, t1, t2)
<1>1. s \in Seq(Outer) /\ \E c2 \in Comparisons, l2, r2 \in {t1, t2} : s = <<Branch(c2, l2), Jump(r2)>>
  BY BranchesTyped
<1> HIDE DEF s
<1>2. PICK c2 \in Comparisons, l2 \in {t1, t2}, r2 \in {t1, t2} : s = <<Branch(c2, l2), Jump(r2)>>
  BY <1>1
<1>3. Branch(c2, l2).to = l2 /\ Branch(c2, l2).src = <<>> /\ Jump(r2).to = r2 /\ Jump(r2).src = <<>>
  BY DEF Branch, Jump, MI
<1>4. Len(s) = 2 /\ s[1] = Branch(c2, l2) /\ s[2] = Jump(r2)
  BY <1>2
<1>5. \A i \in 1 .. Len(s) : s[i].to # 1 /\ s[i].src = <<>>
  BY <1>2, <1>3, <1>4
<1>6. \A i \in 1 .. Len(s) : \A Z : Readable(s[i], Z)
  BY <1>5 DEF Readable
<1> QED
  BY <1>1, <1>5, <1>6 DEF s

LEMMA BranchFlow ==
  ASSUME CodeInv, FlowInv, LoadsInEntry', SelectBranch
  PROVE  FlowInv'
<1> DEFINE x == Inst(bb, k)
           o == Operand(k, 1, FALSE)
           m == Moves(k, 1, FALSE)
           M == Made(k, 1, FALSE)
           N == Have(bb) \cup Added(bb, ArgsMet(k))
           Y == N \cup M
           q == Branches("ne", x.to[1], x.to[2])
           c == <<Cmp(o, Zero)>> \o q
<1>1. /\ ir \in Programs /\ bb \in Block /\ k \in DOMAIN Body(bb) /\ pc = "select"
      /\ x.op = "branch" /\ shared \subseteq Const /\ alias \in [Var -> Var \cup Param]
      /\ ~AndOfCmps(x.args[1]) /\ ~(k > 1 /\ FlagsOnly(bb, k - 1))
  BY DEF CodeInv, Where, Coded, SelectBranch, Selecting
<1>2. k' = k + 1 /\ UNCHANGED <<ir, bb, pc, alias, shared>> /\ Resolve(Append1(m), ArgsMet(k))
      /\ after' = [after EXCEPT ![bb] = c]
  BY DEF SelectBranch
<1>3. 1 \in DOMAIN x.args /\ x.to[1] \in Block \ {1} /\ x.to[2] \in Block \ {1} /\ FALSE \in BOOLEAN
      /\ "ne" \in Comparisons /\ Zero \in Const
  BY <1>1, FieldFacts, RegFacts DEF Comparisons
<1>4. N \subseteq Reg
  BY <1>1, <1>2, StartFacts
<1>5. o \in N \cup M /\ o \in Reg \cup Const
  <2>1. ~BranchesOn(bb, k)
    BY <1>1 DEF BranchesOn
  <2> QED
    BY <1>1, <1>3, <2>1, UsesReady, OperandMeets
<1> HIDE DEF N
<1>6. m \in Seq(Inner) /\ Leads(N, m, Y) /\ Y \in SUBSET Reg
  BY <1>1, <1>3, <1>4, MovesLead
<1>7. q \in Seq(Outer) /\ \A i \in 1 .. Len(q) : q[i].to # 1 /\ Readable(q[i], Y)
  BY <1>3, BranchesLead
<1> HIDE DEF o, m, M, q
<1>8. Cmp(o, Zero) \in Outer /\ Cmp(o, Zero).op = "cmp" /\ Cmp(o, Zero).src = <<o, Zero>>
  BY <1>3, <1>5, MakeInner DEF Cmp, MI
<1>9. Readable(Cmp(o, Zero), Y)
  <2>1. {o, Zero} \subseteq Const \cup Y
    BY <1>3, <1>5
  <2> HIDE DEF Y
  <2> QED
    BY <1>8, <2>1, ReadableOnes
<1> DEFINE y == Cmp(o, Zero)
<1>10. y \in Outer /\ y.op = "cmp" /\ Readable(y, Y)
  BY <1>8, <1>9
<1> HIDE DEF y, Y
<1>11. c \in Seq(Outer) /\ \A i \in 1 .. Len(c) : c[i] = y \/ \E h \in 1 .. Len(q) : c[i] = q[h]
  <2>1. <<y>> \in Seq(Outer) /\ Len(<<y>>) = 1 /\ <<y>>[1] = y
    BY <1>10
  <2>2. c = <<y>> \o q
    BY DEF y
  <2> HIDE DEF c
  <2>3. c \in Seq(Outer) /\ Len(c) = 1 + Len(q) /\ c[1] = y /\ \A i \in 1 .. Len(q) : c[1 + i] = q[i]
    BY <1>7, <2>1, <2>2
  <2>4. ASSUME NEW i \in 1 .. Len(c), i # 1 PROVE \E h \in 1 .. Len(q) : c[i] = q[h]
    <3>1. i - 1 \in 1 .. Len(q) /\ 1 + (i - 1) = i
      BY <1>7, <2>3, <2>4
    <3> QED
      BY <2>3, <3>1
  <2> QED
    BY <2>3, <2>4
<1> HIDE DEF c
<1>12. \A i \in 1 .. Len(c) : Readable(c[i], Y)
  BY <1>7, <1>10, <1>11
<1>13. Leads(Y, c, Y)
  BY <1>6, <1>11, <1>12, ReadsOnly
<1>14. \A i \in 1 .. Len(c) : c[i].op \in {"branch", "jump"} /\ c[i].to = 1 => Restarts(bb)
  BY <1>7, <1>10, <1>11
<1>15. x.op \in Terminators /\ x.op # "alias" /\ x.op # "jump"
  BY <1>1 DEF Terminators
<1>16. Restarts(bb) => Arguments \subseteq Y
  BY <1>1, <1>15, NoRestart DEF FlowInv
<1>17. Held(bb, k + 1) \subseteq Y
  <2>1. Held(bb, k + 1) \subseteq Have(bb) \cup {x.dst}
    BY <1>1, HeldStep
  <2>2. x.dst \notin Var
    BY <1>1, <1>15, InstFacts, OperandAssumption DEF Shaped
  <2> QED
    BY <2>1, <2>2 DEF Held, Y, N
<1>18. ArgsMet(k) \in Seq(Arg \X Block)
  BY <1>1, ArgsMetFacts
<1>19. N \subseteq Y
  BY DEF Y
<1> QED
  BY <1>1, <1>2, <1>6, <1>11, <1>13, <1>14, <1>15, <1>16, <1>17, <1>18, <1>19, EndFlow DEF N

LEMMA ReturnFlow ==
  ASSUME CodeInv, FlowInv, LoadsInEntry', SelectReturn
  PROVE  FlowInv'
<1> DEFINE x == Inst(bb, k)
           o == Operand(k, 1, TRUE)
           m == Moves(k, 1, TRUE)
           M == Made(k, 1, TRUE)
           N == Have(bb) \cup Added(bb, ArgsMet(k))
           Y == N \cup M
           y == Mv(Slots[1], o)
           c == <<y, Return>>
<1>1. /\ ir \in Programs /\ bb \in Block /\ k \in DOMAIN Body(bb) /\ pc = "select"
      /\ x.op = "return" /\ shared \subseteq Const /\ alias \in [Var -> Var \cup Param]
  BY DEF CodeInv, Where, Coded, SelectReturn, Selecting
<1>2. k' = k + 1 /\ UNCHANGED <<ir, bb, pc, alias, shared>> /\ Resolve(Append1(m), ArgsMet(k))
      /\ after' = [after EXCEPT ![bb] = c]
  BY DEF SelectReturn
<1>3. 1 \in DOMAIN x.args /\ TRUE \in BOOLEAN /\ Slots[1] \in Reg
  BY <1>1, FieldFacts, RegFacts
<1>4. N \subseteq Reg
  BY <1>1, <1>2, StartFacts
<1>5. o \in Const \cup N \cup M /\ o \in Reg \cup Const
  <2>1. ~BranchesOn(bb, k)
    BY <1>1 DEF BranchesOn
  <2> QED
    BY <1>1, <1>3, <2>1, UsesReady, OperandMeets
<1> HIDE DEF N
<1>6. m \in Seq(Inner) /\ Leads(N, m, Y) /\ Y \in SUBSET Reg
  BY <1>1, <1>3, <1>4, MovesLead
<1> HIDE DEF o, m, M
<1>7. /\ y \in Outer /\ y \in MInst /\ y.op = "mv" /\ y.src = <<o>> /\ y.cond = "any" /\ y.dst = Slots[1]
      /\ Return \in Outer /\ Return \in MInst /\ Return.src = <<Slots[1]>> /\ Return.op = "return"
  BY <1>3, <1>5, MakeInner, InnerOuter DEF Mv, Return, MI
<1>8. o \in Const \cup Y /\ N \subseteq Y
  BY <1>5
<1> HIDE DEF y, Y
<1>9. Readable(y, Y) /\ y.op \in Writing
  BY <1>7, <1>8, ReadableOnes DEF Writing
<1> DEFINE U == Y \cup {Slots[1]}
<1>10. Leads(Y, <<y>>, U) /\ U \subseteq Reg
  <2>1. U \subseteq Reg
    BY <1>3, <1>6
  <2>2. U \subseteq Kept(y, Y) \cup (IF y.op \in Writing /\ y.cond = "any" THEN {y.dst} ELSE {})
    BY <1>7, <1>9 DEF Kept
  <2> HIDE DEF U
  <2> QED
    BY <1>6, <1>7, <1>9, <2>1, <2>2, LeadsOne
<1>11. Leads(U, <<Return>>, Y)
  <2>1. Readable(Return, U)
    <3>1. Slots[1] \in Const \cup U
      OBVIOUS
    <3> HIDE DEF U
    <3> QED
      BY <1>7, <3>1, ReadableOnes
  <2>2. Y \subseteq Kept(Return, U)
    BY <1>7 DEF Kept
  <2> HIDE DEF U
  <2>3. Y \subseteq Kept(Return, U) \cup (IF Return.op \in Writing /\ Return.cond = "any" THEN {Return.dst} ELSE {})
    BY <2>2
  <2> QED
    BY <1>6, <1>7, <1>10, <2>1, <2>3, LeadsOne
<1> HIDE DEF U
<1>12. Leads(Y, c, Y)
  <2>1. <<y>> \in Seq(MInst) /\ <<Return>> \in Seq(MInst)
    BY <1>7
  <2>2. <<y>> \o <<Return>> = c
    BY JoinPair
  <2> QED
    BY <1>10, <1>11, <2>1, <2>2, LeadsThen
<1>13. c \in Seq(Outer) /\ Len(c) = 2 /\ c[1] = y /\ c[2] = Return
  BY <1>7, JoinOuter
<1>14. \A i \in 1 .. Len(c) : c[i].op \in {"branch", "jump"} /\ c[i].to = 1 => Restarts(bb)
  BY <1>7, <1>13
<1>15. x.op \in Terminators /\ x.op # "alias" /\ x.op # "jump"
  BY <1>1 DEF Terminators
<1>16. Restarts(bb) => Arguments \subseteq Y
  BY <1>1, <1>15, NoRestart DEF FlowInv
<1>17. Held(bb, k + 1) \subseteq Y
  <2>1. Held(bb, k + 1) \subseteq Have(bb) \cup {x.dst}
    BY <1>1, HeldStep
  <2>2. x.dst \notin Var
    BY <1>1, <1>15, InstFacts, OperandAssumption DEF Shaped
  <2> QED
    BY <2>1, <2>2 DEF Held, Y, N
<1>18. ArgsMet(k) \in Seq(Arg \X Block)
  BY <1>1, ArgsMetFacts
<1> HIDE DEF c
<1> QED
  BY <1>1, <1>2, <1>6, <1>8, <1>12, <1>13, <1>14, <1>15, <1>16, <1>17, <1>18, EndFlow DEF N

LEMMA AliasFlow ==
  ASSUME CodeInv, FlowInv, LoadsInEntry', SelectAlias
  PROVE  FlowInv'
<1> DEFINE x == Inst(bb, k)
           o == x.args[1]
           Y == Have(bb) \cup Added(bb, ArgsMet(k))
<1>1. /\ ir \in Programs /\ bb \in Block /\ k \in DOMAIN Body(bb) /\ pc = "select"
      /\ x.op = "alias" /\ shared \subseteq Const /\ alias \in [Var -> Var \cup Param]
      /\ before \in [Block -> Seq(Inner)] /\ k \in 1 .. Len(Body(bb)) /\ Len(Body(bb)) \in Nat /\ bb \in Nat
  BY BlockFacts, InstFacts DEF CodeInv, Where, Coded, SelectAlias, Selecting, Block
<1>2. k' = k + 1 /\ UNCHANGED <<ir, bb, pc, after, shared>> /\ Resolve(before, ArgsMet(k))
      /\ alias' = [alias EXCEPT ![x.dst] = Operand(k, 1, TRUE)]
  BY DEF SelectAlias
<1>3. 1 \in DOMAIN x.args /\ x.dst \in Var /\ o \notin Const /\ k # Len(Body(bb))
  BY <1>1, FieldFacts, InstFacts DEF Terminators, Shaped
<1>4. Resolve(Append1(<<>>), ArgsMet(k)) /\ ArgsMet(k) \in Seq(Arg \X Block)
  <2>1. \A b \in Block : before[b] \o <<>> = before[b]
    BY <1>1
  <2>2. Append1(<<>>) = before
    BY <1>1, <2>1 DEF Append1
  <2> QED
    BY <1>1, <1>2, <2>2, ArgsMetFacts
<1>5. Y \subseteq Reg
  BY <1>1, <1>2, StartFacts
<1>6. <<>> \in Seq(Inner) /\ Leads(Y, <<>>, Y)
  BY <1>5, LeadsEmpty
<1>7. Held(bb, k + 1) \subseteq Y
  BY <1>1, HeldStep
<1>8. Flow'
  <2>1. k' \in {k + 1, k + 2} /\ k' <= Len(Body(bb)) + 1 /\ ~(k' > Len(Body(bb))) /\ Held(bb, k') \subseteq Y
    BY <1>1, <1>2, <1>3, <1>7
  <2>2. \A b \in Block \ {bb} : after'[b] = after[b] \/ Free(after'[b])
    BY <1>2
  <2>3. shared \subseteq shared' /\ shared' \subseteq Const
    BY <1>1, <1>2
  <2>4. Y \in SUBSET Reg /\ Have(bb) \cup Added(bb, ArgsMet(k)) \subseteq Y
        /\ Leads(Have(bb) \cup Added(bb, ArgsMet(k)), <<>>, Y)
    BY <1>5, <1>6
  <2> HIDE DEF Y
  <2> QED
    BY <1>1, <1>2, <1>4, <1>6, <2>1, <2>2, <2>3, <2>4, SelectFlow DEF FlowInv
<1>9. ~Fuses(bb, k) /\ ~SelfTail(bb, k)
  BY <1>1 DEF Fuses, SelfTail
<1>10. Skipped'
  BY <1>1, <1>2, <1>9, SkippedNext
<1>11. EntryEnd' /\ Exits'
  <2>1. k' \in 1 .. Len(Body(bb))
    BY <1>1, <1>2, <1>3
  <2>2. Past(1)' <=> Past(1)
    BY <1>1, <1>2, <2>1, PastFirst
  <2> QED
    BY <1>2, <2>2, EntryEndKept, ExitsKept DEF FlowInv
<1>12. Aliased'
  <2>1. resolved' = resolved \cup Met(ArgsMet(k))
    BY <1>2 DEF Resolve
  <2>2. Operand(k, 1, TRUE) \in Held(bb, k) \cup resolved'
    <3>1. o \in Arg /\ (o \in Param => o \in resolved')
      BY <1>1, <1>3, <2>1, ArgsMetFacts
    <3>2. CASE o \in Var
      <4>1. ~BranchesOn(bb, k)
        BY <1>1 DEF BranchesOn
      <4>2. Needed(o)
        BY <1>1, <1>3, <3>2, <4>1, UseNeeded DEF FlowInv
      <4>3. DefinedAt(ir, o, bb, k)
        BY <1>1, <1>3, <3>2, UsedDefined
      <4>4. alias[o] \in Held(bb, k) \cup resolved
        BY <1>1, <3>2, <4>2, <4>3, OperandHeld DEF FlowInv
      <4>5. Operand(k, 1, TRUE) = alias[o]
        BY <1>3, <3>2 DEF Operand, OperandAt, Moved
      <4> QED
        BY <2>1, <4>4, <4>5
    <3>3. CASE o \notin Var
      <4>1. o \in Param
        BY <1>1, <1>3, <3>1, <3>3, ArgFacts DEF Operands
      <4>2. Operand(k, 1, TRUE) = o
        BY <1>3, <3>3 DEF Operand, OperandAt, Moved
      <4> QED
        BY <3>1, <4>1, <4>2
    <3> QED
      BY <3>2, <3>3
  <2> SUFFICES ASSUME NEW b \in Block, NEW j \in DOMAIN Body(b), Inst(b, j).dst \in Var
               PROVE  IF Inst(b, j).op = "alias" /\ Translated(b, j)'
                      THEN alias'[Inst(b, j).dst] \in Held(b, j) \cup resolved'
                      ELSE alias'[Inst(b, j).dst] = Inst(b, j).dst
    BY <1>2, SameShape DEF Aliased
  <2>3. CASE b = bb /\ j = k
    <3>1. Translated(b, j)'
      BY <1>1, <1>2, <2>3 DEF Translated
    <3>2. alias'[x.dst] = Operand(k, 1, TRUE)
      BY <1>1, <1>2, <1>3
    <3> QED
      BY <1>1, <2>2, <2>3, <3>1, <3>2
  <2>4. CASE ~(b = bb /\ j = k)
    <3>1. Inst(b, j).dst # x.dst
      BY <1>1, <1>3, <2>4, OneInst
    <3>2. alias'[Inst(b, j).dst] = alias[Inst(b, j).dst]
      BY <1>1, <1>2, <3>1
    <3>3. Translated(b, j)' <=> Translated(b, j)
      <4>1. j \in Nat
        BY <1>1, InstFacts
      <4> QED
        BY <1>1, <1>2, <2>4, <4>1 DEF Translated
    <3> QED
      BY <2>1, <3>2, <3>3 DEF FlowInv, Aliased
  <2> QED
    BY <2>3, <2>4
<1> QED
  BY <1>8, <1>10, <1>11, <1>12 DEF FlowInv

-----------------------------------------------------------------------------
(* Divisors that divisions share.                                          *)

\* A shared divisor goes before the jump that ends the entry.
EntryEndsInJump == shared # {} => Inst(1, Len(Body(1))).op = "jump"

LEMMA MaterializedIs ==
  ASSUME NEW A1, NEW v1 \in Seq(A1), NEW j1 \in A1, NEW c1, Mv(Magic(c1), c1) \in A1
  PROVE  Materialized(v1 \o <<j1>>, c1) = (v1 \o <<Mv(Magic(c1), c1)>>) \o <<j1>>
<1> DEFINE y == Mv(Magic(c1), c1)
           z == v1 \o <<j1>>
<1>1. y \in A1 /\ <<y>> \in Seq(A1) /\ <<j1>> \in Seq(A1)
  OBVIOUS
<1> HIDE DEF y
<1>2. z[Len(z)] = j1 /\ SubSeq(z, 1, Len(z) - 1) = v1
  BY JoinOne
<1> HIDE DEF z
<1>3. Materialized(z, c1) = v1 \o <<y, j1>>
  BY <1>2 DEF Materialized, y
<1>4. <<y, j1>> = <<y>> \o <<j1>>
  BY JoinPair
<1>5. v1 \o (<<y>> \o <<j1>>) = (v1 \o <<y>>) \o <<j1>>
  BY <1>1, JoinAssoc
<1> QED
  BY <1>3, <1>4, <1>5 DEF z, y

\* What the entry ends with once one more divisor is shared.
LEMMA SharedNext ==
  ASSUME CodeInv, FlowInv, pc = "select", UNCHANGED <<ir, bb, pc>>, k \in DOMAIN Body(bb), bb # 1,
         k' \in 1 .. Len(Body(bb)), EntryEndsInJump', after' \in [Block -> Seq(Outer)],
         NEW c1 \in Const, shared' = shared \cup {c1},
         after' = [after EXCEPT ![1] = Materialized(@, c1)]
  PROVE  EntryEnd' /\ Free(after'[1]) /\ Exits' /\ \A b \in Block \ {1} : after'[b] = after[b]
<1> DEFINE y == Mv(Magic(c1), c1)
<1>1. 1 \in Block /\ bb \in Block /\ after \in [Block -> Seq(Outer)] /\ shared \subseteq Const
  BY SizeAssumption DEF CodeInv, Where, Coded, Block
<1>2. Past(1) /\ (Past(1)' <=> Past(1))
  <2>1. Past(1)' <=> Past(1)
    BY PastFirst
  <2>2. Past(1)
    BY <1>1 DEF Past, Block
  <2> QED
    BY <2>1, <2>2
<1>3. Inst(1, Len(Body(1))).op = "jump" /\ Inst(1, Len(Body(1)))' = Inst(1, Len(Body(1)))
  <2>1. Inst(1, Len(Body(1)))' = Inst(1, Len(Body(1)))
    BY DEF Inst, Body
  <2>2. shared' # {}
    OBVIOUS
  <2> QED
    BY <2>1, <2>2 DEF EntryEndsInJump
<1>4. PICK w \in Seq(SharedMoves), t \in Block :
        /\ after[1] = w \o <<Jump(t)>>
        /\ \A c \in shared : \E i \in 1 .. Len(w) : w[i] = Mv(Magic(c), c)
  BY <1>2, <1>3 DEF FlowInv, EntryEnd
<1> DEFINE A == SharedMoves \cup {y} \cup {Jump(t)}
           B == SharedMoves \cup {y}
           z == w \o <<y>>
<1>5. w \in Seq(A) /\ Jump(t) \in A /\ y \in A /\ w \in Seq(B) /\ y \in B
  BY SeqMonotonic
<1>6. SharedMoves' = B
  BY DEF SharedMoves
<1>7. after'[1] = z \o <<Jump(t)>>
  <2>1. after'[1] = Materialized(w \o <<Jump(t)>>, c1)
    BY <1>1, <1>4
  <2> QED
    BY <1>5, <2>1, MaterializedIs
<1> HIDE DEF A
<1>8. z \in Seq(B) /\ Len(z) = Len(w) + 1 /\ z[Len(w) + 1] = y /\ \A i \in 1 .. Len(w) : z[i] = w[i]
  <2> HIDE DEF y, B
  <2> QED
    BY <1>5
<1>a. Len(w) \in Nat
  BY <1>4
<1>9. \A c \in shared' : \E i \in 1 .. Len(z) : z[i] = Mv(Magic(c), c)
  <2> SUFFICES ASSUME NEW c \in shared' PROVE \E i \in 1 .. Len(z) : z[i] = Mv(Magic(c), c)
    OBVIOUS
  <2>1. CASE c \in shared
    <3>1. PICK i \in 1 .. Len(w) : w[i] = Mv(Magic(c), c)
      BY <1>4, <2>1
    <3>2. i \in 1 .. Len(z) /\ z[i] = w[i]
      BY <1>8, <1>a
    <3> QED
      BY <3>1, <3>2
  <2>2. CASE c = c1
    <3> HIDE DEF z
    <3> QED
      BY <1>8, <1>a, <2>2
  <2> QED
    BY <2>1, <2>2
<1> HIDE DEF z
<1>10. EntryEnd'
  <2>1. \E w2 \in Seq(SharedMoves'), u \in Block :
          after'[1] = w2 \o <<Jump(u)>> /\ \A c \in shared' : \E i \in 1 .. Len(w2) : w2[i] = Mv(Magic(c), c)
    <3> HIDE DEF B
    <3> QED
      BY <1>6, <1>7, <1>8, <1>9
  <2> QED
    BY <1>2, <2>1 DEF EntryEnd
<1>11. \A x \in B : x.op = "mv" /\ x.src[1] \in Const /\ x.src = <<x.src[1]>>
  BY <1>1 DEF SharedMoves, Mv, MI
<1>12. Jump(t).src = <<>> /\ Jump(t).op = "jump" /\ Jump(t).to = t
  BY DEF Jump, MI
<1> DEFINE d == after'[1]
<1>13. d \in Seq(Outer) /\ \A i \in 1 .. Len(d) : d[i] \in B \/ d[i] = Jump(t)
  <2>1. d \in Seq(Outer) /\ d = z \o <<Jump(t)>>
    BY <1>1, <1>7
  <2> HIDE DEF d, B
  <2>2. \A i \in 1 .. Len(z) : z[i] \in B
    BY <1>8
  <2>3. Len(d) = Len(z) + 1 /\ d[Len(z) + 1] = Jump(t) /\ \A i \in 1 .. Len(z) : d[i] = z[i]
    BY <1>8, <2>1
  <2>4. Len(z) \in Nat
    BY <1>8
  <2> QED
    BY <2>1, <2>2, <2>3, <2>4
<1> HIDE DEF d, B
<1>14. Free(d)
  <2> SUFFICES ASSUME NEW S \in SUBSET Reg PROVE Leads(S, d, S)
    BY DEF Free
  <2>1. \A i \in 1 .. Len(d) : Readable(d[i], S)
    <3> SUFFICES ASSUME NEW i \in 1 .. Len(d) PROVE Readable(d[i], S)
      OBVIOUS
    <3>1. CASE d[i] \in B
      <4>1. d[i].src = <<d[i].src[1]>> /\ d[i].src[1] \in Const \cup S
        BY <1>11, <3>1
      <4> QED
        BY <4>1, ReadableOnes
    <3>2. CASE d[i] = Jump(t)
      BY <1>12, <3>2 DEF Readable
    <3> QED
      BY <1>13, <3>1, <3>2
  <2> QED
    BY <1>13, <2>1, ReadsOnly
<1>15. \A b \in Block \ {1} : after'[b] = after[b]
  BY <1>1
<1>16. Exits'
  <2> SUFFICES ASSUME NEW b \in Block, NEW i \in 1 .. Len(after'[b]),
                      after'[b][i].op \in {"branch", "jump"}, after'[b][i].to = 1
               PROVE  Restarts(b)
    BY RestartsKept DEF Exits
  <2>1. CASE b # 1
    BY <1>15, <2>1 DEF FlowInv, Exits
  <2>2. CASE b = 1
    <3>1. d[i].op \in {"branch", "jump"} /\ d[i].to = 1 /\ i \in 1 .. Len(d)
      BY <2>2 DEF d
    <3>2. d[i] = Jump(t) /\ t = 1
      BY <1>11, <1>12, <1>13, <3>1
    <3>3. Len(after[1]) = Len(w) + 1 /\ after[1][Len(w) + 1] = Jump(t)
      BY <1>4
    <3>4. Len(w) + 1 \in 1 .. Len(after[1])
      BY <1>a, <3>3
    <3> QED
      BY <1>1, <1>12, <2>2, <3>2, <3>3, <3>4 DEF FlowInv, Exits
  <2> QED
    BY <2>1, <2>2
<1> QED
  BY <1>10, <1>14, <1>15, <1>16 DEF d

LEMMA DivFlow ==
  ASSUME CodeInv, FlowInv, LoadsInEntry', EntryEndsInJump', SelectDiv
  PROVE  FlowInv'
<1> DEFINE x == Inst(bb, k)
           c == x.args[2]
           local == Cardinality(Divisions(c)) < 3 \/ bb = 1
           magic == IF local THEN <<bb, k, 2>> ELSE Magic(c)
           o == Operand(k, 1, FALSE)
           m1 == Moves(k, 1, FALSE)
           m2 == IF local THEN <<Mv(magic, c)>> ELSE <<>>
           y == Bin("div", x.dst, o, magic)
           N == Have(bb) \cup Added(bb, ArgsMet(k))
           M == Made(k, 1, FALSE)
           T == (N \cup M) \cup {magic}
           Y == T \cup {x.dst}
           insts == m1 \o m2 \o <<y>>
<1>1. /\ ir \in Programs /\ bb \in Block /\ k \in DOMAIN Body(bb) /\ pc = "select"
      /\ x.op = "div" /\ shared \subseteq Const /\ alias \in [Var -> Var \cup Param]
      /\ bb \in Nat /\ k \in Nat
  BY InstFacts DEF CodeInv, Where, Coded, SelectDiv, Selecting, Block
<1>2. /\ k' = k + 1 /\ UNCHANGED <<ir, bb, pc, alias>> /\ Resolve(Append1(insts), ArgsMet(k))
      /\ IF local \/ c \in shared
         THEN UNCHANGED <<after, shared>>
         ELSE after' = [after EXCEPT ![1] = Materialized(@, c)] /\ shared' = shared \cup {c}
  BY DEF SelectDiv
<1>3. 1 \in DOMAIN x.args /\ 2 \in DOMAIN x.args /\ x.dst \in Reg /\ c \in Const /\ FALSE \in BOOLEAN
  BY <1>1, FieldFacts, InstFacts, RegFacts DEF Shaped, Binary, Terminators
<1>4. shared \subseteq shared' /\ shared' \subseteq Const
  BY <1>1, <1>2, <1>3
<1>5. N \subseteq Reg
  BY <1>1, <1>4, StartFacts
<1>6. magic \in Fresh /\ magic \in Reg
  BY <1>1, <1>3, RegFacts DEF Magic, Fresh
<1>7. ~local => magic \in N
  <2> SUFFICES ASSUME ~local PROVE magic \in N
    OBVIOUS
  <2>1. c \in shared' /\ bb # 1
    BY <1>2
  <2>2. magic \in MagicsOf(shared')
    BY <2>1 DEF MagicsOf
  <2>3. Shared(bb)' = MagicsOf(shared')
    BY <1>2, <2>1 DEF Shared, MagicsOf
  <2> QED
    BY <2>2, <2>3 DEF Added
<1>8. o \in N \cup M /\ o \in Reg \cup Const
  <2>1. ~BranchesOn(bb, k)
    BY <1>1 DEF BranchesOn
  <2> QED
    BY <1>1, <1>3, <2>1, UsesReady, OperandMeets
<1> HIDE DEF N
<1>9. m1 \in Seq(Inner) /\ m1 \in Seq(MInst) /\ Leads(N, m1, N \cup M) /\ N \cup M \subseteq Reg
  BY <1>1, <1>3, <1>5, MovesLead
<1> DEFINE L == local
<1>a. L \in BOOLEAN /\ (~L => magic \in N) /\ m2 = IF L THEN <<Mv(magic, c)>> ELSE <<>>
  BY <1>7
<1> HIDE DEF m1, M, o, magic, L
<1>10. m2 \in Seq(Inner) /\ m2 \in Seq(MInst) /\ Leads(N \cup M, m2, T) /\ T \subseteq Reg
  <2> DEFINE P == N \cup M
  <2>0. T \subseteq Reg /\ P \subseteq Reg
    BY <1>6, <1>9
  <2>1. CASE L
    <3> DEFINE z == Mv(magic, c)
    <3>1. z \in Inner /\ z \in MInst /\ z.op = "mv" /\ z.src = <<c>> /\ z.cond = "any" /\ z.dst = magic
      BY <1>3, <1>6, MakeInner, InnerOuter DEF Mv, MI
    <3> HIDE DEF z, P
    <3>2. Readable(z, P)
      BY <1>3, <3>1, ReadableOnes
    <3>3. T \subseteq Kept(z, P) \cup (IF z.op \in Writing /\ z.cond = "any" THEN {z.dst} ELSE {})
      BY <3>1 DEF Kept, Writing, P
    <3> HIDE DEF T
    <3>4. Leads(P, <<z>>, T)
      BY <2>0, <3>1, <3>2, <3>3, LeadsOne
    <3>5. m2 = <<z>>
      BY <1>a, <2>1 DEF z
    <3> QED
      BY <2>0, <3>1, <3>4, <3>5 DEF P
  <2>2. CASE ~L
    <3>1. m2 = <<>> /\ T = P
      BY <1>a, <2>2
    <3> HIDE DEF P
    <3>2. Leads(P, <<>>, P) /\ <<>> \in Seq(Inner) /\ <<>> \in Seq(MInst)
      BY <2>0, LeadsEmpty
    <3> HIDE DEF m2, T
    <3> QED
      BY <2>0, <3>1, <3>2 DEF P
  <2> QED
    BY <1>a, <2>1, <2>2
<1>11. /\ y \in Inner /\ y \in MInst /\ y.op = "div" /\ y.dst = x.dst /\ y.cond = "any"
       /\ y.src = <<o, magic>>
  BY <1>3, <1>6, <1>8, MakeInner, InnerOuter DEF Bin, MI, Arith
<1> HIDE DEF m2, y
<1>12. Readable(y, T) /\ y.op \in Writing
  <2>1. {o, magic} \subseteq Const \cup T
    BY <1>8
  <2> HIDE DEF T
  <2> QED
    BY <1>11, <2>1, ReadableOnes DEF Writing, Arith
<1>13. Held(bb, k + 1) \subseteq Y /\ N \subseteq Y
  <2>1. Held(bb, k + 1) \subseteq Have(bb) \cup {x.dst}
    BY <1>1, HeldStep
  <2> QED
    BY <2>1 DEF N
<1>14. Leads(N, m1 \o m2, T) /\ m1 \o m2 \in Seq(MInst) /\ m1 \o m2 \in Seq(Inner)
  <2> HIDE DEF T
  <2> QED
    BY <1>9, <1>10, LeadsThen, JoinInner
<1> DEFINE mm == m1 \o m2
<1>b. Leads(N, mm, T) /\ mm \in Seq(MInst) /\ mm \in Seq(Inner) /\ insts = mm \o <<y>>
  BY <1>14
<1> HIDE DEF mm, T
<1>15. Leads(N, mm \o <<y>>, T \cup {y.dst}) /\ T \cup {y.dst} \subseteq Reg
  BY <1>b, <1>10, <1>11, <1>12, OneMore
<1> HIDE DEF insts
<1>16. insts \in Seq(Inner) /\ Leads(N, insts, Y) /\ Y \in SUBSET Reg
  BY <1>b, <1>11, <1>15, JoinInner
<1>17. ArgsMet(k) \in Seq(Arg \X Block)
  BY <1>1, ArgsMetFacts
<1>18. ~Fuses(bb, k) /\ ~SelfTail(bb, k) /\ x.op \notin Terminators \cup {"alias"}
  BY <1>1 DEF Fuses, SelfTail, Terminators
<1> HIDE DEF Y
<1>19. CASE local \/ c \in shared
  BY <1>1, <1>2, <1>13, <1>16, <1>17, <1>18, <1>19, PlainFlow DEF N
<1>20. CASE ~(local \/ c \in shared)
  <2>1. /\ after' = [after EXCEPT ![1] = Materialized(@, c)] /\ shared' = shared \cup {c} /\ bb # 1
    BY <1>2, <1>20
  <2>2. after' \in [Block -> Seq(Outer)]
    BY DivTyped DEF CodeInv, Coded
  <2>3. k \in 1 .. Len(Body(bb)) /\ Len(Body(bb)) \in Nat /\ k # Len(Body(bb))
    BY <1>1, <1>18, BlockFacts, InstFacts
  <2>4. k' \in 1 .. Len(Body(bb)) /\ k' \in {k + 1, k + 2} /\ k' <= Len(Body(bb)) + 1 /\ ~(k' > Len(Body(bb)))
    BY <1>2, <2>3
  <2>5. EntryEnd' /\ Free(after'[1]) /\ Exits' /\ \A b \in Block \ {1} : after'[b] = after[b]
    BY <1>1, <1>2, <1>3, <2>1, <2>2, <2>4, SharedNext
  <2>6. Aliased'
    <3>1. resolved \subseteq resolved'
      BY <1>2 DEF Resolve
    <3> QED
      BY <1>1, <1>2, <1>18, <3>1, AliasedNext DEF FlowInv
  <2>7. Skipped'
    BY <1>1, <1>2, <1>18, SkippedNext
  <2>8. Flow'
    <3>1. \A b \in Block \ {bb} : after'[b] = after[b] \/ Free(after'[b])
      BY <2>5
    <3>2. Held(bb, k') \subseteq Y
      BY <1>2, <1>13
    <3> QED
      BY <1>1, <1>2, <1>4, <1>13, <1>16, <1>17, <2>4, <3>1, <3>2, SelectFlow DEF N, FlowInv
  <2> QED
    BY <2>5, <2>6, <2>7, <2>8 DEF FlowInv
<1> QED
  BY <1>19, <1>20

-----------------------------------------------------------------------------
(* Branches that compare.                                                  *)

\* What comes before a comparison leads to what it needs.
LEMMA LeadsCut ==
  ASSUME NEW p1 \in Seq(MInst), NEW x1 \in MInst, x1.op = "cmp", NEW S1, NEW T1,
         Leads(S1, p1 \o <<x1>>, T1)
  PROVE  \E Z \in SUBSET Reg : T1 \subseteq Z /\ Leads(S1, p1, Z) /\ Readable(x1, Z)
<1> DEFINE code == p1 \o <<x1>>
           m == Len(p1)
<1>1. m \in Nat /\ Len(code) = m + 1 /\ code[m + 1] = x1 /\ \A i \in 1 .. m : code[i] = p1[i]
  OBVIOUS
<1>a. DOMAIN code = 1 .. m + 1 /\ DOMAIN p1 = 1 .. m
  OBVIOUS
<1> HIDE DEF code
<1>2. PICK av : Follows(av, code) /\ av[0] \subseteq S1 /\ T1 \subseteq av[Len(code)]
  BY DEF Leads, code
<1> HIDE DEF m
<1>3. /\ av \in [0 .. m + 1 -> SUBSET Reg]
      /\ \A n \in 1 .. m + 1 :
           Readable(code[n], av[n - 1]) /\ av[n] \subseteq Kept(code[n], av[n - 1]) \cup Gained(code, n)
  BY <1>1, <1>2 DEF Follows
<1> DEFINE Z == av[m]
           aw == [i \in 0 .. m |-> av[i]]
<1>4. Z \in SUBSET Reg /\ Readable(x1, Z) /\ T1 \subseteq Z
  <2>1. m + 1 \in 1 .. m + 1 /\ (m + 1) - 1 = m /\ m \in 0 .. m + 1
    BY <1>1
  <2>2. Readable(x1, av[m]) /\ av[m + 1] \subseteq Kept(x1, av[m]) \cup Gained(code, m + 1)
    BY <1>1, <1>3, <2>1
  <2>3. Gained(code, m + 1) = {} /\ Kept(x1, av[m]) = av[m]
    BY <1>1 DEF Gained, Kept, Writing, Arith
  <2> QED
    BY <1>1, <1>2, <1>3, <2>1, <2>2, <2>3
<1>5. aw \in [0 .. m -> SUBSET Reg] /\ aw[0] = av[0] /\ aw[m] = Z
  BY <1>1, <1>3
<1>6. ASSUME NEW n \in 1 .. m
      PROVE  Readable(p1[n], aw[n - 1]) /\ aw[n] \subseteq Kept(p1[n], aw[n - 1]) \cup Gained(p1, n)
  <2>1. n \in 1 .. m + 1 /\ n \in 0 .. m /\ n - 1 \in 0 .. m /\ code[n] = p1[n]
    BY <1>1
  <2>2. n - 1 \in DOMAIN code <=> n - 1 \in DOMAIN p1
    BY <1>1, <1>a
  <2>3. n - 1 \in DOMAIN p1 => code[n - 1] = p1[n - 1]
    BY <1>1, <1>a
  <2>4. Fills(code, n) <=> Fills(p1, n)
    BY <2>1, <2>2, <2>3 DEF Fills
  <2>5. Gained(code, n) = Gained(p1, n)
    BY <2>1, <2>4 DEF Gained
  <2>6. aw[n] = av[n] /\ aw[n - 1] = av[n - 1]
    BY <2>1
  <2> QED
    BY <1>3, <2>1, <2>5, <2>6
<1> HIDE DEF aw, Z
<1>7. Follows(aw, p1)
  BY <1>5, <1>6 DEF Follows, m
<1>8. Leads(S1, p1, Z)
  BY <1>2, <1>5, <1>7 DEF Leads, m
<1> QED
  BY <1>4, <1>8

LEMMA BranchOnFlagsFlow ==
  ASSUME CodeInv, FlowInv, SelectBranchOnFlags
  PROVE  FlowInv'
<1> DEFINE x == Inst(bb, k)
           u == before[bb]
           n == Len(u)
           y == u[n]
           p == SubSeq(u, 1, n - 1)
           q == Branches(Inst(bb, k - 1).cond, x.to[1], x.to[2])
           c == <<y>> \o q
<1>1. /\ ir \in Programs /\ bb \in Block /\ k \in DOMAIN Body(bb) /\ pc = "select" /\ x.op = "branch"
      /\ shared \subseteq Const /\ before \in [Block -> Seq(Inner)] /\ after \in [Block -> Seq(Outer)]
      /\ k > 1 /\ FlagsOnly(bb, k - 1) /\ k \in 1 .. Len(Body(bb)) /\ Len(Body(bb)) \in Nat /\ k \in Nat
  BY BlockFacts DEF CodeInv, Where, Coded, SelectBranchOnFlags, Selecting
<1>2. /\ k' = k + 1 /\ UNCHANGED <<ir, bb, pc, alias, shared, resolved>>
      /\ after' = [after EXCEPT ![bb] = c] /\ before' = [before EXCEPT ![bb] = p]
  BY DEF SelectBranchOnFlags
<1>3. u \in Seq(Inner) /\ u # <<>> /\ y.op = "cmp"
  BY <1>1 DEF CodeInv, Flagged
<1>4. p \in Seq(Inner) /\ y \in Inner /\ u = p \o <<y>>
  <2> HIDE DEF u
  <2> QED
    BY <1>3
<1>5. y \in Outer /\ y \in MInst /\ p \in Seq(MInst)
  <2> HIDE DEF y, p
  <2> QED
    BY <1>3, <1>4, InnerOuter, SeqMonotonic DEF Inner, Outer
<1>6. x.to[1] \in Block \ {1} /\ x.to[2] \in Block \ {1} /\ Inst(bb, k - 1).cond \in Comparisons
      /\ x.op \in Terminators
  <2>1. k - 1 \in DOMAIN Body(bb) /\ Inst(bb, k - 1).op = "cmp"
    BY <1>1, BlockFacts DEF FlagsOnly
  <2> QED
    BY <1>1, <2>1, FieldFacts DEF Terminators
<1>7. q \in Seq(Outer) /\ \A i \in 1 .. Len(q) : q[i].to # 1 /\ \A Z : Readable(q[i], Z)
  BY <1>6, BranchesLead
<1>8. PICK X \in SUBSET Reg : Good(bb, X)
  BY <1>1 DEF FlowInv, Flow
<1>9. PICK Z \in SUBSET Reg :
        X \subseteq Z /\ Leads(Base(bb) \cup Passed(bb), p, Z) /\ Readable(y, Z)
  <2>1. Leads(Base(bb) \cup Passed(bb), p \o <<y>>, X)
    BY <1>4, <1>8 DEF Good
  <2> HIDE DEF p, y
  <2> QED
    BY <1>3, <1>5, <2>1, LeadsCut
<1> HIDE DEF u, n, y, p, q
<1>10. c \in Seq(Outer) /\ \A i \in 1 .. Len(c) : c[i] = y \/ \E h \in 1 .. Len(q) : c[i] = q[h]
  <2>1. <<y>> \in Seq(Outer) /\ Len(<<y>>) = 1 /\ <<y>>[1] = y
    BY <1>5
  <2>2. c = <<y>> \o q
    OBVIOUS
  <2> HIDE DEF c
  <2>3. c \in Seq(Outer) /\ Len(c) = 1 + Len(q) /\ c[1] = y /\ \A i \in 1 .. Len(q) : c[1 + i] = q[i]
    BY <1>7, <2>1, <2>2
  <2>4. ASSUME NEW i \in 1 .. Len(c), i # 1 PROVE \E h \in 1 .. Len(q) : c[i] = q[h]
    <3>1. i - 1 \in 1 .. Len(q) /\ 1 + (i - 1) = i
      BY <1>7, <2>3, <2>4
    <3> QED
      BY <2>3, <3>1
  <2> QED
    BY <2>3, <2>4
<1> HIDE DEF c
<1>11. \A i \in 1 .. Len(c) : Readable(c[i], Z)
  BY <1>7, <1>9, <1>10
<1>12. Leads(Z, c, Z)
  BY <1>10, <1>11, ReadsOnly
<1>13. \A i \in 1 .. Len(c) : c[i].op \in {"branch", "jump"} /\ c[i].to = 1 => Restarts(bb)
  BY <1>3, <1>7, <1>10
<1>14. Aliased' /\ Skipped' /\ EntryEnd' /\ Exits'
  <2>1. x.op # "alias" /\ x.op # "jump" /\ resolved \subseteq resolved' /\ k \in {k, k + 1}
    BY <1>1, <1>2
  <2> QED
    BY <1>1, <1>2, <1>6, <1>10, <1>13, <2>1, EndRest
<1>15. ~Restarts(bb)
  BY <1>1, <1>6, NoRestart DEF FlowInv
<1>16. k' \in {k + 1, k + 2} /\ k' <= Len(Body(bb)) + 1
  BY <1>1, <1>2
<1>17. \A b \in Block : Base(b)' = Base(b) /\ Shared(b)' = Shared(b)
  <2>1. \A b : Held(b, 1)' = Held(b, 1)
    BY <1>2, SameShape
  <2>2. \A b \in Block : Shared(b)' = Shared(b) /\ Arguments' = Arguments
    BY <1>2 DEF Shared, MagicsOf, Arguments
  <2> QED
    BY <1>2, <2>1, <2>2 DEF Base
<1>18. Flow'
  <2> SUFFICES ASSUME NEW b \in Block
               PROVE  \E V \in SUBSET Reg :
                        /\ Leads(Base(b)' \cup Passed(b)', before'[b], V)
                        /\ Have(b)' \cup Onward(b)' \cup Again(b)' \subseteq V
                        /\ Past(b)' => Leads(V, after'[b], V)
    BY DEF Flow, Good
  <2>1. Passed(b) = Dsts(b) /\ Passed(b)' = Dsts(b) /\ Onward(b)' = {} /\ Onward(b) = {}
    BY <1>1, <1>2, <1>16, SelectSets
  <2>2. CASE b # bb
    <3>1. PICK V \in SUBSET Reg : Good(b, V)
      BY DEF FlowInv, Flow
    <3>2. /\ (Past(b)' <=> Past(b)) /\ Again(b)' = Again(b)
          /\ Have(b)' = Held(b, Pos(b)) \cup Dsts(b) \cup resolved' \cup Shared(b)'
      BY <1>1, <1>2, <1>16, <2>2, SelectSets
    <3>3. Have(b)' = Have(b)
      BY <1>2, <1>17, <3>2 DEF Have
    <3>4. before'[b] = before[b] /\ after'[b] = after[b]
      BY <1>1, <1>2, <2>2
    <3> QED
      BY <1>17, <2>1, <3>1, <3>2, <3>3, <3>4 DEF Good
  <2>3. CASE b = bb
    <3>1. Again(b)' = {} /\ Have(b)' = Held(b, k') \cup Dsts(b) \cup resolved' \cup Shared(b)'
      BY <1>1, <1>2, <1>15, <1>16, <2>3, SelectSets
    <3>2. Held(bb, k + 1) \subseteq Have(bb)
      <4>1. Held(bb, k + 1) \subseteq Have(bb) \cup {x.dst}
        BY <1>1, HeldStep
      <4>2. x.dst \notin Var
        BY <1>1, <1>6, InstFacts, OperandAssumption DEF Shaped
      <4> QED
        BY <4>1, <4>2 DEF Held
    <3>3. Have(b)' \subseteq X
      BY <1>2, <1>8, <1>17, <2>3, <3>1, <3>2 DEF Have, Good
    <3>4. before'[b] = p /\ after'[b] = c
      BY <1>1, <1>2, <2>3
    <3> QED
      BY <1>9, <1>12, <1>17, <2>1, <2>3, <3>1, <3>3, <3>4
  <2> QED
    BY <2>2, <2>3
<1> QED
  BY <1>14, <1>18 DEF FlowInv

\* A branch on a conjunction compares first, then moves what it compared: no constant
\* that an instruction cannot hold may be among that.
ComparesEncodable ==
  \A b \in Block : \A j \in DOMAIN Body(b) :
    Inst(b, j).op = "branch" /\ AndOfCmps(Inst(b, j).args[1]) =>
      LET conj == DefOf(Inst(b, j).args[1])
      IN  /\ \A h \in {1, 2} : DefOf(conj.args[h]).args[1] \notin Const
          /\ DefOf(conj.args[1]).args[2] \notin Wide

\* What the comparisons of a conjunction compare is computed.
LEMMA ComparedReady ==
  ASSUME CodeInv, pc = "select", k \in DOMAIN Body(bb), Inst(bb, k).op = "branch",
         AndOfCmps(Inst(bb, k).args[1]), NEW h0 \in {1, 2}, NEW i0 \in {1, 2}
  PROVE  LET o == DefOf(DefOf(Inst(bb, k).args[1]).args[h0]).args[i0]
         IN  o \in Arg /\ (o \in Var => Needed(o) /\ DefinedAt(ir, o, bb, k))
<1> DEFINE v == Inst(bb, k).args[1]
           conj == DefOf(v)
           u == conj.args[h0]
           c == DefOf(u)
           o == c.args[i0]
<1>1. /\ ir \in Programs /\ bb \in Block /\ 1 \in DOMAIN Inst(bb, k).args /\ v \in Var /\ k \in Nat
  BY FieldFacts, InstFacts DEF CodeInv, Where, AndOfCmps
<1>2. /\ u \in Var
      /\ \E b2 \in Block : \E j2 \in DOMAIN Body(b2) : c = Inst(b2, j2) /\ c.op = "cmp" /\ c.dst = u
      /\ \E b2 \in Block : \E j2 \in DOMAIN Body(b2) : conj = Inst(b2, j2) /\ conj.op = "and" /\ conj.dst = v
  BY <1>1, ConjunctionFacts
<1>3. DefinedAt(ir, v, bb, k)
  BY <1>1, UsedDefined
<1> HIDE DEF c, conj, v, u
<1>4. PICK b2 \in Block : \E j2 \in DOMAIN Body(b2) : c = Inst(b2, j2) /\ c.op = "cmp" /\ c.dst = u
  BY <1>2
<1>5. PICK j2 \in DOMAIN Body(b2) : c = Inst(b2, j2) /\ c.op = "cmp" /\ c.dst = u
  BY <1>4
<1>6. PICK b1 \in Block : \E j1 \in DOMAIN Body(b1) : conj = Inst(b1, j1) /\ conj.op = "and" /\ conj.dst = v
  BY <1>2
<1>7. PICK j1 \in DOMAIN Body(b1) : conj = Inst(b1, j1) /\ conj.op = "and" /\ conj.dst = v
  BY <1>6
<1>8. h0 \in DOMAIN Inst(b1, j1).args /\ Inst(b1, j1).args[h0] = u /\ v \in Var
  BY <1>1, <1>7, FieldFacts DEF Binary, u
<1>9. DefinedAt(ir, u, b1, j1)
  BY <1>1, <1>2, <1>7, <1>8, UsedDefined
<1>10. DefinedAt(ir, u, bb, k)
  BY <1>1, <1>2, <1>3, <1>7, <1>8, <1>9, DefinedThrough
<1>11. i0 \in DOMAIN Inst(b2, j2).args /\ Inst(b2, j2).args[i0] = o
  BY <1>1, <1>5, FieldFacts DEF Binary
<1>12. o \in Arg
  <2>1. Inst(b2, j2).args \in Seq(Arg)
    BY <1>1, ArgFacts
  <2> HIDE DEF o
  <2> QED
    BY <1>11, <2>1
<1> HIDE DEF o
<1>13. ASSUME o \in Var PROVE Needed(o) /\ DefinedAt(ir, o, bb, k)
  <2>1. DefinedAt(ir, o, b2, j2)
    BY <1>1, <1>5, <1>11, <1>13, UsedDefined
  <2>2. DefinedAt(ir, o, bb, k)
    BY <1>1, <1>2, <1>5, <1>10, <1>13, <2>1, DefinedThrough
  <2>3. ASSUME NEW b \in Block, NEW j \in DOMAIN Body(b), Inst(b, j).dst = o, Dropped(b, j)
        PROVE  FALSE
    BY <1>1, <1>5, <1>11, <2>3, DroppedUse
  <2> QED
    BY <2>2, <2>3 DEF Needed
<1> QED
  BY <1>12, <1>13 DEF o, c, u, conj, v

LEMMA BranchOnAndFlow ==
  ASSUME CodeInv, FlowInv, LoadsInEntry', ComparesEncodable, SelectBranchOnAnd
  PROVE  FlowInv'
<1> DEFINE x == Inst(bb, k)
           conj == DefOf(x.args[1])
           c == [h \in {1, 2} |-> DefOf(conj.args[h])]
           o(h, i) == OperandAt(c[h].args[i], i = 2, <<bb, k, 2 * h + i - 2>>)
           m(h, i) == MoveAt(c[h].args[i], i = 2, <<bb, k, 2 * h + i - 2>>)
           cmp(h) == <<Cmp(o(h, 1), o(h, 2))>>
           e == cmp(1) \o m(1, 1) \o m(1, 2) \o <<Branch(Opposite(c[1].cond), x.to[2])>>
                \o cmp(2) \o m(2, 1) \o Branches(c[2].cond, x.to[1], x.to[2])
           met == [i \in 1 .. 4 |-> <<c[(i + 1) \div 2].args[2 - (i % 2)], bb>>]
<1>0. Selecting("branch") /\ AndOfCmps(x.args[1])
  BY DEF SelectBranchOnAnd
<1>a. /\ after' = [after EXCEPT ![bb] = e] /\ Resolve(Append1(m(2, 2)), met) /\ k' = k + 1
      /\ UNCHANGED <<ir, bb, pc, alias, shared>>
  BY DEF SelectBranchOnAnd
<1> DEFINE f(h, i) == <<bb, k, 2 * h + i - 2>>
           br == <<Branch(Opposite(c[1].cond), x.to[2])>>
           q == Branches(c[2].cond, x.to[1], x.to[2])
           M == MadeAt(c[2].args[2], TRUE, f(2, 2))
           N == Have(bb) \cup Added(bb, met)
           Y == N \cup M
<1>1. /\ ir \in Programs /\ bb \in Block /\ k \in DOMAIN Body(bb) /\ pc = "select" /\ x.op = "branch"
      /\ alias \in [Var -> Var \cup Param] /\ k \in Nat /\ bb \in Nat /\ shared \subseteq Const
  BY <1>0, InstFacts DEF CodeInv, Where, Coded, Selecting, Block
<1>2. x.to[1] \in Block \ {1} /\ x.to[2] \in Block \ {1} /\ 1 \in DOMAIN x.args
  BY <1>1, FieldFacts
<1>3. ASSUME NEW h \in {1, 2}, NEW i \in {1, 2}
      PROVE  /\ c[h].args[i] \in Arg /\ c[h].cond \in Comparisons
             /\ c[h].args[i] \in Var => Needed(c[h].args[i]) /\ DefinedAt(ir, c[h].args[i], bb, k)
  <2>1. DefOf(conj.args[h]).cond \in Comparisons
    BY <1>0, <1>1, <1>2, ConjunctionFacts
  <2>2. LET u == DefOf(conj.args[h]).args[i]
        IN  u \in Arg /\ (u \in Var => Needed(u) /\ DefinedAt(ir, u, bb, k))
    BY <1>0, <1>1, ComparedReady
  <2>3. c[h] = DefOf(conj.args[h])
    OBVIOUS
  <2> QED
    BY <2>1, <2>2, <2>3
<1>4. /\ c[1].args[1] \notin Const /\ c[2].args[1] \notin Const /\ c[1].args[2] \notin Wide
  <2>1. LET d == DefOf(x.args[1])
        IN  /\ \A h \in {1, 2} : DefOf(d.args[h]).args[1] \notin Const
            /\ DefOf(d.args[1]).args[2] \notin Wide
    BY <1>0, <1>1 DEF ComparesEncodable
  <2> QED
    BY <2>1
<1> HIDE DEF c, conj
<1>5. met \in Seq(Arg \X Block) /\ \A h, i \in {1, 2} : \E n \in DOMAIN met : met[n][1] = c[h].args[i]
  <2>1. \A n \in 1 .. 4 : (n + 1) \div 2 \in {1, 2} /\ 2 - (n % 2) \in {1, 2}
    OBVIOUS
  <2>2. \A h, i \in {1, 2} : \E n \in 1 .. 4 : (n + 1) \div 2 = h /\ 2 - (n % 2) = i
    <3>1. (1 + 1) \div 2 = 1 /\ 2 - (1 % 2) = 1 /\ (2 + 1) \div 2 = 1 /\ 2 - (2 % 2) = 2
      OBVIOUS
    <3>2. (3 + 1) \div 2 = 2 /\ 2 - (3 % 2) = 1 /\ (4 + 1) \div 2 = 2 /\ 2 - (4 % 2) = 2
      OBVIOUS
    <3>3. 1 \in 1 .. 4 /\ 2 \in 1 .. 4 /\ 3 \in 1 .. 4 /\ 4 \in 1 .. 4
      OBVIOUS
    <3> QED
      BY <3>1, <3>2, <3>3
  <2> DEFINE S == Arg \X Block
  <2>3. \A n \in 1 .. 4 : <<c[(n + 1) \div 2].args[2 - (n % 2)], bb>> \in S
    BY <1>1, <1>3, <2>1
  <2> HIDE DEF S
  <2>4. met \in Seq(S) /\ DOMAIN met = 1 .. 4
    BY <2>3
  <2>5. \A n \in 1 .. 4 : met[n][1] = c[(n + 1) \div 2].args[2 - (n % 2)]
    OBVIOUS
  <2> HIDE DEF met
  <2> QED
    BY <2>2, <2>4, <2>5 DEF S
<1> HIDE DEF met
<1>6. N \subseteq Reg
  BY <1>1, <1>a, StartFacts
<1>7. \A h, i \in {1, 2} : f(h, i) \in Fresh
  <2>1. \A h, i \in {1, 2} : 2 * h + i - 2 \in Nat
    OBVIOUS
  <2> QED
    BY <1>1, <2>1 DEF Fresh
<1>8. m(1, 1) = <<>> /\ m(1, 2) = <<>> /\ m(2, 1) = <<>>
  BY <1>4 DEF MoveAt, Moved
<1>9. m(2, 2) \in Seq(Inner) /\ Leads(N, m(2, 2), Y) /\ Y \in SUBSET Reg
  <2> DEFINE u == c[2].args[2]
             fr == f(2, 2)
             w == m(2, 2)
  <2>1. w = MoveAt(u, TRUE, fr) /\ M = MadeAt(u, TRUE, fr)
    OBVIOUS
  <2>2. fr \in Fresh /\ TRUE \in BOOLEAN
    BY <1>7
  <2> HIDE DEF N, u, fr, w, M
  <2>3. MoveAt(u, TRUE, fr) \in Seq(Inner)
    BY <2>2, <1>6, MoveLeads
  <2>4. Leads(N, MoveAt(u, TRUE, fr), N \cup MadeAt(u, TRUE, fr)) /\ N \cup MadeAt(u, TRUE, fr) \subseteq Reg
    BY <1>6, <2>2, MoveLeads
  <2>5. w \in Seq(Inner) /\ Leads(N, w, Y) /\ Y \in SUBSET Reg
    BY <2>1, <2>3, <2>4
  <2> QED
    BY <2>5 DEF w
<1>10. ASSUME NEW h \in {1, 2}, NEW i \in {1, 2}
       PROVE  o(h, i) \in Const \cup Y /\ o(h, i) \in Reg \cup Const
  <2> DEFINE u == c[h].args[i]
             fr == f(h, i)
             imm == (i = 2)
             R == Have(bb) \cup Met(met)
  <2>1. u \in Arg /\ (u \in Var => Needed(u) /\ DefinedAt(ir, u, bb, k)) /\ imm \in BOOLEAN
    BY <1>3
  <2>2. u \in Param => u \in resolved \cup Met(met)
    BY <1>5 DEF Met
  <2>3. o(h, i) = OperandAt(u, imm, fr)
    OBVIOUS
  <2>4. MadeAt(u, imm, fr) \subseteq M
    <3>1. i = 1 => h \in {1, 2} /\ u \notin Const
      BY <1>4
    <3>2. h = 1 /\ i = 2 => u \notin Wide
      BY <1>4
    <3>3. h = 2 /\ i = 2 => MadeAt(u, imm, fr) = M
      OBVIOUS
    <3>4. ~(h = 2 /\ i = 2) => MadeAt(u, imm, fr) = {}
      BY <3>1, <3>2 DEF MadeAt, Moved
    <3> QED
      BY <3>3, <3>4
  <2>5. R \subseteq N
    BY DEF Added
  <2> HIDE DEF u, fr, imm
  <2>6. OperandAt(u, imm, fr) \in Const \cup R \cup MadeAt(u, imm, fr)
    BY <1>1, <2>1, <2>2, OperandReady DEF FlowInv
  <2> HIDE DEF o, M, N, R
  <2>7. o(h, i) \in Const \cup Y
    BY <2>3, <2>4, <2>5, <2>6
  <2> QED
    BY <1>9, <2>7
<1>11. Cmp(o(1, 1), o(1, 2)) \in Outer /\ Cmp(o(2, 1), o(2, 2)) \in Outer
  BY <1>10, MakeInner
<1> HIDE DEF o, M, N
<1> DEFINE Plainly(w) == /\ w \in Seq(Outer)
                         /\ \A i \in 1 .. Len(w) : Readable(w[i], Y) /\ (w[i].op \in {"branch", "jump"} => w[i].to # 1)
<1>12. ASSUME NEW z, z \in Outer, Readable(z, Y), z.op \in {"branch", "jump"} => z.to # 1
       PROVE  Plainly(<<z>>)
  <2>1. <<z>> \in Seq(Outer) /\ Len(<<z>>) = 1 /\ <<z>>[1] = z
    BY <1>12
  <2> HIDE DEF Y
  <2> QED
    BY <1>12, <2>1
<1>13. ASSUME NEW u, NEW w, Plainly(u), Plainly(w) PROVE Plainly(u \o w)
  <2>1. u \in Seq(Outer) /\ w \in Seq(Outer)
    BY <1>13
  <2>2. u \o w \in Seq(Outer) /\ Len(u \o w) = Len(u) + Len(w) /\ Len(u) \in Nat /\ Len(w) \in Nat
    BY <2>1
  <2>3. ASSUME NEW i \in 1 .. Len(u \o w)
        PROVE  (i \in 1 .. Len(u) /\ (u \o w)[i] = u[i]) \/ (\E h \in 1 .. Len(w) : (u \o w)[i] = w[h])
    <3>1. CASE i <= Len(u)
      BY <2>1, <2>2, <3>1
    <3>2. CASE ~(i <= Len(u))
      <4>1. i - Len(u) \in 1 .. Len(w) /\ (u \o w)[i] = w[i - Len(u)]
        BY <2>1, <2>2, <3>2
      <4> QED
        BY <4>1
    <3> QED
      BY <3>1, <3>2
  <2> HIDE DEF Y
  <2> QED
    BY <1>13, <2>2, <2>3
<1>14. Plainly(<<>>)
  OBVIOUS
<1>15. ASSUME NEW h \in {1, 2} PROVE Plainly(cmp(h))
  <2> DEFINE l == o(h, 1)
             r == o(h, 2)
  <2>1. Cmp(l, r) \in Outer
    BY <1>11
  <2>2. {l, r} \subseteq Const \cup Y
    BY <1>10
  <2>3. cmp(h) = <<Cmp(l, r)>>
    OBVIOUS
  <2> HIDE DEF l, r, cmp
  <2>4. Cmp(l, r).src = <<l, r>> /\ Cmp(l, r).op = "cmp"
    BY DEF Cmp, MI
  <2> HIDE DEF Y
  <2>5. Readable(Cmp(l, r), Y)
    BY <2>2, <2>4, ReadableOnes
  <2> HIDE DEF Plainly
  <2> QED
    BY <1>12, <2>1, <2>3, <2>4, <2>5
<1>16. Plainly(br)
  <2> DEFINE y == Branch(Opposite(c[1].cond), x.to[2])
  <2>1. Opposite(c[1].cond) \in Condition
    BY <1>3 DEF Opposite, Comparisons, Condition
  <2>2. y \in Outer /\ y.src = <<>> /\ y.to = x.to[2]
    BY <1>2, <2>1, MakeInner DEF Branch, MI
  <2>3. br = <<y>>
    OBVIOUS
  <2> HIDE DEF y, br, Y
  <2>4. Readable(y, Y)
    BY <2>2 DEF Readable
  <2> HIDE DEF Plainly
  <2> QED
    BY <1>2, <1>12, <2>2, <2>3, <2>4
<1>17. Plainly(q)
  <2> DEFINE cc == c[2].cond
             t1 == x.to[1]
             t2 == x.to[2]
  <2>1. cc \in Comparisons /\ t1 \in Block \ {1} /\ t2 \in Block \ {1}
    BY <1>2, <1>3
  <2>2. q = Branches(cc, t1, t2)
    OBVIOUS
  <2> HIDE DEF cc, t1, t2, Y, q
  <2>3. /\ Branches(cc, t1, t2) \in Seq(Outer)
        /\ \A i \in 1 .. Len(Branches(cc, t1, t2)) :
              /\ Branches(cc, t1, t2)[i].to # 1
              /\ \A Z : Readable(Branches(cc, t1, t2)[i], Z)
    BY <2>1, BranchesLead
  <2> QED
    BY <2>2, <2>3
<1>b. e = cmp(1) \o m(1, 1) \o m(1, 2) \o br \o cmp(2) \o m(2, 1) \o q
  OBVIOUS
<1> HIDE DEF Plainly, cmp, br, q, e
<1>18. Plainly(cmp(1) \o <<>> \o <<>> \o br \o cmp(2) \o <<>> \o q)
  <2> DEFINE c1 == cmp(1)
             c2 == cmp(2)
  <2>1. Plainly(c1) /\ Plainly(c2)
    BY <1>15
  <2> HIDE DEF c1, c2
  <2>2. Plainly(c1 \o <<>>)
    BY <1>13, <1>14, <2>1, Zenon
  <2>3. Plainly(c1 \o <<>> \o <<>>)
    BY <1>13, <1>14, <2>2, Zenon
  <2>4. Plainly(c1 \o <<>> \o <<>> \o br)
    BY <1>13, <1>16, <2>3, Zenon
  <2>5. Plainly(c1 \o <<>> \o <<>> \o br \o c2)
    BY <1>13, <2>1, <2>4, Zenon
  <2>6. Plainly(c1 \o <<>> \o <<>> \o br \o c2 \o <<>>)
    BY <1>13, <1>14, <2>5, Zenon
  <2>7. Plainly(c1 \o <<>> \o <<>> \o br \o c2 \o <<>> \o q)
    BY <1>13, <1>17, <2>6, Zenon
  <2> QED
    BY <2>7 DEF c1, c2
<1>19. Plainly(e)
  BY <1>8, <1>b, <1>18
<1>20. e \in Seq(Outer) /\ \A i \in 1 .. Len(e) : Readable(e[i], Y) /\ (e[i].op \in {"branch", "jump"} => e[i].to # 1)
  BY <1>19 DEF Plainly
<1> HIDE DEF m
<1>21. N \subseteq Y
  OBVIOUS
<1> HIDE DEF Y
<1>22. Leads(Y, e, Y)
  BY <1>9, <1>20, ReadsOnly
<1>23. x.op \in Terminators /\ x.op # "alias" /\ x.op # "jump"
  BY <1>1 DEF Terminators
<1>24. Restarts(bb) => Arguments \subseteq Y
  BY <1>1, <1>23, NoRestart DEF FlowInv
<1>25. Held(bb, k + 1) \subseteq Y
  <2>1. Held(bb, k + 1) \subseteq Have(bb) \cup {x.dst}
    BY <1>1, HeldStep
  <2>2. x.dst \notin Var
    BY <1>1, <1>23, InstFacts, OperandAssumption DEF Shaped
  <2> QED
    BY <1>21, <2>1, <2>2 DEF Held, N
<1>26. \A i \in 1 .. Len(e) : e[i].op \in {"branch", "jump"} /\ e[i].to = 1 => Restarts(bb)
  BY <1>20
<1> DEFINE mm == m(2, 2)
<1>27. mm \in Seq(Inner) /\ Leads(N, mm, Y) /\ Resolve(Append1(mm), met)
  BY <1>9, <1>a
<1> HIDE DEF mm
<1> QED
  BY <1>1, <1>5, <1>9, <1>20, <1>21, <1>22, <1>23, <1>24, <1>25, <1>26, <1>27, <1>a, EndFlow DEF N

-----------------------------------------------------------------------------
(* Phis.                                                                   *)

\* Every element of the pieces is in what they are put together to.
Pieces(q, n, A) == n \in Nat /\ q \in [1 .. n -> Seq(A)]

LEMMA FlattenHas ==
  ASSUME NEW A, NEW n1, NEW q1, Pieces(q1, n1, A), NEW j1 \in 1 .. n1, NEW i1 \in DOMAIN q1[j1]
  PROVE  \E h \in DOMAIN FlattenSeq(q1) : FlattenSeq(q1)[h] = q1[j1][i1]
<1> USE DEF Pieces
<1> DEFINE V == Seq(A)
           a == q1[j1][i1]
<1>1. PICK g : Flattens(g, V, n1, q1)
  BY SeqClosed, Flattening
<1>2. /\ g \in [0 .. n1 -> V] /\ g[n1] = FlattenSeq(q1)
      /\ \A j \in 1 .. n1 : g[j] = g[j - 1] \o q1[j]
  BY <1>1 DEF Flattens
<1> DEFINE Has(w) == \E h \in DOMAIN w : w[h] = a
           T == {m \in 0 .. n1 : m >= j1 => Has(g[m])}
<1>a. q1[j1] \in Seq(A) /\ DOMAIN q1[j1] = 1 .. Len(q1[j1]) /\ Len(q1[j1]) \in Nat
  OBVIOUS
<1>3. 0 \in T
  OBVIOUS
<1>4. ASSUME NEW m \in 1 .. n1, m - 1 \in T PROVE m \in T
  <2> DEFINE u == g[m - 1]
             w == q1[m]
  <2>a. m - 1 \in 0 .. n1 /\ m \in 0 .. n1
    OBVIOUS
  <2>b. g[m - 1] \in V
    BY <1>2, <2>a
  <2>1. u \in Seq(A) /\ w \in Seq(A) /\ g[m] = u \o w /\ m \in 0 .. n1
    BY <1>2, <2>a, <2>b
  <2>2. CASE m = j1
    <3>1. w = q1[j1] /\ i1 \in 1 .. Len(w) /\ w[i1] = a
      BY <1>a, <2>2
    <3> HIDE DEF u, w, a
    <3>2. Len(u) + i1 \in 1 .. Len(u \o w) /\ (u \o w)[Len(u) + i1] = w[i1] /\ DOMAIN (u \o w) = 1 .. Len(u \o w)
      BY <2>1, <3>1
    <3>3. Has(u \o w)
      BY <3>1, <3>2
    <3> QED
      BY <2>1, <3>3
  <2>3. CASE m # j1 /\ m >= j1
    <3>1. Has(u)
      BY <1>4, <2>3
    <3> HIDE DEF u, w, a
    <3>2. PICK h \in 1 .. Len(u) : u[h] = a
      BY <2>1, <3>1
    <3>3. h \in 1 .. Len(u \o w) /\ (u \o w)[h] = u[h] /\ DOMAIN (u \o w) = 1 .. Len(u \o w)
      BY <2>1
    <3>4. Has(u \o w)
      BY <3>2, <3>3
    <3> QED
      BY <2>1, <3>4
  <2>4. CASE ~(m >= j1)
    BY <2>1, <2>4
  <2> QED
    BY <2>2, <2>3, <2>4
<1> HIDE DEF T
<1>5. n1 \in T
  BY <1>3, <1>4, Counting DEF Steps
<1>6. Has(g[n1])
  BY <1>5 DEF T
<1> QED
  BY <1>2, <1>6

\* Registers are assigned what has a value.
LEMMA AssignedLeads ==
  ASSUME NEW n \in Nat, NEW pairs, DOMAIN pairs = 1 .. n, NEW S, S \subseteq Reg,
         \A j \in 1 .. n : /\ pairs[j][1] \in Reg /\ pairs[j][2] \in Const \cup S
                           /\ pairs[j][1] = pairs[j][2] => pairs[j][1] \in S,
         NEW Z1, \A r \in Z1 : r \in S \/ \E j \in 1 .. n : r = pairs[j][1]
  PROVE  Leads(S, Assigned(pairs), Z1)
<1> DEFINE seqs == [j \in DOMAIN pairs |->
                      IF pairs[j][1] = pairs[j][2] THEN <<>> ELSE <<Mv(pairs[j][1], pairs[j][2])>>]
           G == [j \in 1 .. n |-> {pairs[j][1]}]
<1>1. ASSUME NEW j \in 1 .. n
      PROVE  seqs[j] \in Seq(Outer) /\ Leads(S, seqs[j], S \cup G[j])
  <2> DEFINE d == pairs[j][1]
             o == pairs[j][2]
  <2>1. d \in Reg /\ o \in Const \cup S /\ (d = o => d \in S) /\ o \in Reg \cup Const
    OBVIOUS
  <2>2. seqs[j] = IF d = o THEN <<>> ELSE <<Mv(d, o)>>
    OBVIOUS
  <2>3. G[j] = {d}
    OBVIOUS
  <2> HIDE DEF d, o, seqs, G
  <2>4. CASE d = o
    <3>1. S \cup {d} = S
      BY <2>1, <2>4
    <3>2. Leads(S, <<>>, S) /\ <<>> \in Seq(Outer)
      BY LeadsEmpty
    <3> QED
      BY <2>2, <2>3, <2>4, <3>1, <3>2
  <2>5. CASE d # o
    <3>1. Mv(d, o) \in Outer /\ Mv(d, o) \in MInst
      BY <2>1, MakeInner, InnerOuter
    <3>2. Mv(d, o).op = "mv" /\ Mv(d, o).src = <<o>> /\ Mv(d, o).dst = d /\ Mv(d, o).cond = "any"
      BY DEF Mv, MI
    <3>3. Readable(Mv(d, o), S)
      BY <2>1, <3>2, ReadableOnes
    <3>4. S \cup {d} \subseteq Kept(Mv(d, o), S) \cup (IF Mv(d, o).op \in Writing /\ Mv(d, o).cond = "any" THEN {Mv(d, o).dst} ELSE {})
      BY <3>2 DEF Kept, Writing
    <3>5. S \cup {d} \subseteq Reg
      BY <2>1
    <3>6. Leads(S, <<Mv(d, o)>>, S \cup {d})
      BY <3>1, <3>3, <3>4, <3>5, LeadsOne
    <3>7. <<Mv(d, o)>> \in Seq(Outer)
      BY <3>1
    <3> QED
      BY <2>2, <2>3, <2>5, <3>6, <3>7
  <2> QED
    BY <2>4, <2>5
<1>2. seqs \in [1 .. n -> Seq(Outer)] /\ G \in [1 .. n -> SUBSET Reg]
  BY <1>1
<1>3. \A r \in Z1 : r \in S \/ \E j \in 1 .. n : r \in G[j]
  OBVIOUS
<1>4. Assigned(pairs) = FlattenSeq(seqs)
  BY DEF Assigned
<1> HIDE DEF seqs, G
<1>5. Outer \subseteq MInst /\ \A x \in Outer : x.op # "call"
  BY DEF Outer
<1>6. Leads(S, FlattenSeq(seqs), Z1)
  BY <1>1, <1>2, <1>3, <1>5, LeadsFlatten
<1> QED
  BY <1>4, <1>6

LEMMA HeadLeads ==
  ASSUME ir \in Programs, NEW b0 \in Block, NEW S, S \subseteq Reg, Copies(b0) \subseteq S
  PROVE  Leads(S, HeadMoves(b0), S \cup Dsts(b0))
<1> DEFINE n == Len(Phis(b0))
           pairs == [j \in DOMAIN Phis(b0) |-> <<Phis(b0)[j].dst, Vr(b0, j)>>]
           Z == S \cup Dsts(b0)
<1>1. n \in Nat /\ DOMAIN Phis(b0) = 1 .. n
  BY PhisFacts
<1>2. ASSUME NEW j \in 1 .. n
      PROVE  Phis(b0)[j] = Inst(b0, j) /\ Phis(b0)[j].dst \in Reg /\ Vr(b0, j) \in S
  <2>1. Phis(b0)[j] = Inst(b0, j) /\ Phis(b0)[j].dst \in Var
    BY <1>1, PhisFacts, FieldFacts DEF Terminators
  <2>2. Vr(b0, j) \in S
    BY <1>1 DEF Copies
  <2> QED
    BY <2>1, <2>2, RegFacts
<1>3. DOMAIN pairs = 1 .. n
  BY <1>1
<1>4. \A j \in 1 .. n : pairs[j][1] = Phis(b0)[j].dst /\ pairs[j][2] = Vr(b0, j)
  BY <1>1
<1>5. HeadMoves(b0) = Assigned(pairs)
  BY DEF HeadMoves
<1>6. \A r \in Z : r \in S \/ \E j \in 1 .. n : r = Phis(b0)[j].dst
  BY <1>1, <1>2 DEF Dsts
<1> HIDE DEF pairs, n, Z
<1>7. \A j \in 1 .. n : /\ pairs[j][1] \in Reg /\ pairs[j][2] \in Const \cup S
                        /\ pairs[j][1] = pairs[j][2] => pairs[j][1] \in S
  BY <1>2, <1>4
<1>8. \A r \in Z : r \in S \/ \E j \in 1 .. n : r = pairs[j][1]
  BY <1>4, <1>6
<1>9. Leads(S, Assigned(pairs), Z)
  BY <1>1, <1>3, <1>7, <1>8, AssignedLeads
<1> QED
  BY <1>5, <1>9 DEF Z

\* Every operand of a phi is resolved.
LEMMA PhisMetFacts ==
  ASSUME ir \in Programs, NEW b0 \in Block
  PROVE  /\ PhisMet(b0) \in Seq(Arg \X Block)
         /\ \A j \in DOMAIN Phis(b0) : \A i \in DOMAIN Inst(b0, j).args :
              /\ Inst(b0, j).args[i] \in Arg
              /\ Inst(b0, j).args[i] \in Param => Inst(b0, j).args[i] \in resolved \cup Met(PhisMet(b0))
<1> DEFINE n == Len(Phis(b0))
           S == Arg \X Block
           seqs == [j \in DOMAIN Phis(b0) |->
                      LET x == Phis(b0)[j] IN [i \in DOMAIN x.args |-> <<x.args[i], x.in[i]>>]]
<1>1. n \in Nat /\ DOMAIN Phis(b0) = 1 .. n
  BY PhisFacts
<1>2. ASSUME NEW j \in 1 .. n
      PROVE  /\ seqs[j] \in Seq(S) /\ DOMAIN seqs[j] = DOMAIN Inst(b0, j).args
             /\ \A i \in DOMAIN Inst(b0, j).args : seqs[j][i][1] = Inst(b0, j).args[i] /\ Inst(b0, j).args[i] \in Arg
  <2> DEFINE x == Inst(b0, j)
             a == x.args
             w == [i \in DOMAIN a |-> <<a[i], x.in[i]>>]
  <2>1. j \in DOMAIN Body(b0) /\ Phis(b0)[j] = x /\ x.op = "phi"
    BY <1>1, PhisFacts
  <2>2. seqs[j] = w
    BY <1>1, <2>1
  <2>3. a \in Seq(Arg)
    BY <2>1, ArgFacts
  <2>4. DOMAIN a = DOMAIN x.in /\ x.in \in Seq(Block)
    BY <2>1, FieldFacts
  <2> HIDE DEF a, seqs
  <2>5. DOMAIN a = 1 .. Len(a) /\ Len(a) \in Nat /\ \A i \in DOMAIN a : a[i] \in Arg /\ x.in[i] \in Block
    BY <2>3, <2>4
  <2>6. \A i \in 1 .. Len(a) : <<a[i], x.in[i]>> \in S
    BY <2>5
  <2> HIDE DEF S
  <2>7. w \in Seq(S) /\ DOMAIN w = DOMAIN a /\ \A i \in DOMAIN a : w[i][1] = a[i]
    BY <2>5, <2>6
  <2> HIDE DEF w
  <2> QED
    BY <2>2, <2>5, <2>7 DEF a
<1>3. PhisMet(b0) = FlattenSeq(seqs)
  BY DEF PhisMet
<1>4. DOMAIN seqs = 1 .. n /\ seqs = [j \in 1 .. n |-> seqs[j]]
  BY <1>1
<1> HIDE DEF seqs, n, S
<1>5. seqs \in [1 .. n -> Seq(S)]
  BY <1>2, <1>4
<1>6. PhisMet(b0) \in Seq(S)
  BY <1>1, <1>3, <1>5, FlattenType
<1>7. ASSUME NEW j \in 1 .. n, NEW i \in DOMAIN Inst(b0, j).args, Inst(b0, j).args[i] \in Param
      PROVE  Inst(b0, j).args[i] \in resolved \cup Met(PhisMet(b0))
  <2>1. i \in DOMAIN seqs[j] /\ seqs[j][i][1] = Inst(b0, j).args[i]
    BY <1>2
  <2>a. i \in DOMAIN seqs[j]
    BY <2>1
  <2>b. Pieces(seqs, n, S)
    BY <1>1, <1>5 DEF Pieces
  <2>2. \E h \in DOMAIN FlattenSeq(seqs) : FlattenSeq(seqs)[h] = seqs[j][i]
    BY <2>a, <2>b, FlattenHas
  <2> QED
    BY <1>3, <1>7, <2>1, <2>2 DEF Met
<1> QED
  BY <1>1, <1>2, <1>6, <1>7 DEF S

\* What a phi takes from a block before it has a value at the end of that block.
LEMMA IncomingReady ==
  ASSUME CodeInv, Aliased, pc # "select", NEW b0 \in Block, NEW j0 \in DOMAIN Phis(b0), NEW p0 \in Pred(b0),
         NEW N, N \subseteq Reg,
         Held(p0, Len(Body(p0)) + 1) \cup resolved \cup Met(PhisMet(b0)) \subseteq N
  PROVE  LET c == Incoming(b0, j0, p0)
             G == IF c.move = <<>> THEN {} ELSE {c.val}
         IN  /\ c.val \in Const \cup N \cup G /\ c.val \in Reg \cup Const /\ (c.val \in Reg => c.val \notin Fresh \cap Const)
             /\ c.move \in Seq(Outer) /\ G \subseteq Reg /\ Leads(N, c.move, N \cup G)
<1> DEFINE c == Incoming(b0, j0, p0)
           G == IF c.move = <<>> THEN {} ELSE {c.val}
<1>1. /\ ir \in Programs /\ bb \in Nat /\ k \in Nat
  BY SizeAssumption DEF CodeInv, Where
<1>2. j0 \in DOMAIN Body(b0) /\ Inst(b0, j0).op = "phi" /\ p0 \in Block
  BY <1>1, PhisFacts DEF Pred
<1>3. PICK i \in DOMAIN Inst(b0, j0).args :
        /\ Inst(b0, j0).in[i] = p0 /\ Inst(b0, j0).args[i] \in Operands
        /\ Incoming(b0, j0, p0) = [arg |-> Inst(b0, j0).args[i],
                                   val |-> OperandAt(Inst(b0, j0).args[i], TRUE, <<b0, j0, i>>),
                                   move |-> MoveAt(Inst(b0, j0).args[i], TRUE, <<b0, j0, i>>)]
        /\ <<b0, j0, i>> \in Fresh
  BY <1>1, IncomingFacts
<1> DEFINE o == Inst(b0, j0).args[i]
           f == <<b0, j0, i>>
<1>4. f \in Fresh /\ o \in Operands /\ o \in Arg /\ (o \in Param => o \in N)
  BY <1>1, <1>3, PhisMetFacts
<1>5. ASSUME o \in Var PROVE alias[o] \in N
  <2>1. DefinedAt(ir, o, p0, Len(Body(p0)) + 1)
    BY <1>1, <1>2, <1>3, <1>5, UsedDefined
  <2>2. ASSUME NEW b \in Block, NEW j \in DOMAIN Body(b), Inst(b, j).dst = o, Dropped(b, j)
        PROVE  FALSE
    BY <1>1, <1>2, <2>2, DroppedUse
  <2>3. Needed(o)
    BY <2>2 DEF Needed
  <2>4. Len(Body(p0)) + 1 \in Nat
    BY <1>1, <1>2, BlockFacts
  <2> HIDE DEF o
  <2>5. alias[o] \in Held(p0, Len(Body(p0)) + 1) \cup resolved
    BY <1>1, <1>2, <1>5, <2>1, <2>3, <2>4, OperandHeld
  <2> QED
    BY <2>5
<1> DEFINE ov == OperandAt(o, TRUE, f)
           om == MoveAt(o, TRUE, f)
<1>6. c.val = ov /\ c.move = om
  <2>1. Incoming(b0, j0, p0) = [arg |-> o, val |-> ov, move |-> om]
    BY <1>3
  <2> HIDE DEF o, ov, om
  <2> QED
    BY <2>1
<1> HIDE DEF o, f
<1>7. om = <<>> <=> ~Moved(o, TRUE)
  BY DEF MoveAt
<1>8. Moved(o, TRUE) => ov = f
  BY DEF OperandAt
<1>9. ~Moved(o, TRUE) => ov \in Const \cup N /\ (ov \in N \/ o = ov)
  BY <1>4, <1>5, OperandAssumption DEF OperandAt, Operands
<1>10. MadeAt(o, TRUE, f) = G
  BY <1>6, <1>7, <1>8 DEF MadeAt
<1>11. om \in Seq(Outer) /\ Leads(N, om, N \cup MadeAt(o, TRUE, f)) /\ MadeAt(o, TRUE, f) \subseteq Fresh
  <2>1. TRUE \in BOOLEAN
    OBVIOUS
  <2> HIDE DEF om
  <2>2. MoveAt(o, TRUE, f) \in Seq(Outer) /\ Leads(N, MoveAt(o, TRUE, f), N \cup MadeAt(o, TRUE, f)) /\ MadeAt(o, TRUE, f) \subseteq Fresh
    BY <1>4, <2>1, MoveLeads
  <2> QED
    BY <2>2 DEF om
<1>12. ov \in Const \cup N \cup G
  BY <1>6, <1>7, <1>8, <1>9
<1>13. Fresh \cap Const = {}
  BY SlotAssumption DEF Fresh
<1>14. G \subseteq Reg /\ ov \in Reg \cup Const
  BY <1>10, <1>11, <1>12, RegFacts
<1>15. c.move \in Seq(Outer) /\ Leads(N, c.move, N \cup G)
  <2> HIDE DEF om, G, c
  <2> QED
    BY <1>6, <1>10, <1>11
<1> HIDE DEF G, ov, om
<1> QED
  BY <1>6, <1>12, <1>13, <1>14, <1>15 DEF G

\* What a block moves to the phis of the block after it: to them, or to copies of them.
LEMMA EdgeLeads ==
  ASSUME CodeInv, Aliased, pc # "select", NEW b0 \in Block, NEW p0 \in Pred(b0), NEW d0 \in BOOLEAN,
         NEW N, N \subseteq Reg,
         Held(p0, Len(Body(p0)) + 1) \cup resolved \cup Met(PhisMet(b0)) \subseteq N
  PROVE  Leads(N, FlattenSeq([j \in DOMAIN Phis(b0) |-> Incoming(b0, j, p0).move]) \o EdgeMoves(b0, p0, d0),
               N \cup (IF d0 THEN Dsts(b0) ELSE Copies(b0)))
<1> DEFINE n == Len(Phis(b0))
           val(j) == Incoming(b0, j, p0).val
           seqs == [j \in DOMAIN Phis(b0) |-> Incoming(b0, j, p0).move]
           G == [j \in 1 .. n |-> IF Incoming(b0, j, p0).move = <<>> THEN {} ELSE {val(j)}]
           Z == {r \in Reg : r \in N \/ \E j \in 1 .. n : r \in G[j]}
           dst(j) == IF d0 THEN Phis(b0)[j].dst ELSE Vr(b0, j)
           pairs == [j \in DOMAIN Phis(b0) |-> <<dst(j), val(j)>>]
           D == IF d0 THEN Dsts(b0) ELSE Copies(b0)
<1>1. n \in Nat /\ DOMAIN Phis(b0) = 1 .. n /\ ir \in Programs /\ alias \in [Var -> Var \cup Param]
  BY PhisFacts DEF CodeInv, Where, Coded
<1>2. ASSUME NEW j \in 1 .. n
      PROVE  /\ val(j) \in Const \cup N \cup G[j] /\ val(j) \in Reg \cup Const
             /\ seqs[j] \in Seq(Outer) /\ G[j] \subseteq Reg /\ Leads(N, seqs[j], N \cup G[j])
  <2> DEFINE c == Incoming(b0, j, p0)
             H == IF c.move = <<>> THEN {} ELSE {c.val}
  <2>1. val(j) = c.val /\ seqs[j] = c.move /\ G[j] = H
    BY <1>1
  <2>2. j \in DOMAIN Phis(b0)
    BY <1>1
  <2> HIDE DEF n, seqs, G, val
  <2>3. /\ c.val \in Const \cup N \cup H /\ c.val \in Reg \cup Const
        /\ c.move \in Seq(Outer) /\ H \subseteq Reg /\ Leads(N, c.move, N \cup H)
    BY <2>2, IncomingReady
  <2> QED
    BY <2>1, <2>3
<1>3. ASSUME NEW j \in 1 .. n PROVE dst(j) \in Var \cup Fresh
  <2>1. Phis(b0)[j] = Inst(b0, j) /\ Phis(b0)[j].dst \in Var
    BY <1>1, PhisFacts, FieldFacts DEF Terminators
  <2>2. Vr(b0, j) \in Fresh
    BY DEF Vr, Fresh, Block
  <2> QED
    BY <2>1, <2>2
<1>4. seqs = [j \in 1 .. n |-> seqs[j]] /\ G = [j \in 1 .. n |-> G[j]]
  BY <1>1
<1>5. EdgeMoves(b0, p0, d0) = Assigned(pairs)
  BY DEF EdgeMoves
<1>6. DOMAIN pairs = 1 .. n /\ \A j \in 1 .. n : pairs[j][1] = dst(j) /\ pairs[j][2] = val(j)
  BY <1>1
<1>7. ASSUME NEW r, r \in D PROVE \E j \in 1 .. n : r = dst(j)
  <2>1. \A j \in 1 .. n : Phis(b0)[j] = Inst(b0, j)
    BY <1>1, PhisFacts
  <2> QED
    BY <1>1, <1>7, <2>1 DEF Dsts, Copies
<1> HIDE DEF seqs, G, n, val, dst, pairs, D
<1>8. seqs \in [1 .. n -> Seq(Outer)] /\ G \in [1 .. n -> SUBSET Reg]
  BY <1>2, <1>4
<1>9. Outer \subseteq MInst /\ \A x \in Outer : x.op # "call"
  BY DEF Outer
<1>10. \A r \in Z : r \in N \/ \E j \in 1 .. n : r \in G[j]
  OBVIOUS
<1>11. Z \subseteq Reg /\ N \subseteq Z /\ \A j \in 1 .. n : G[j] \subseteq Z
  BY <1>2
<1> HIDE DEF Z
<1>12. Leads(N, FlattenSeq(seqs), Z)
  BY <1>1, <1>2, <1>8, <1>9, <1>10, LeadsFlatten
<1>13. \A j \in 1 .. n : /\ pairs[j][1] \in Reg /\ pairs[j][2] \in Const \cup Z
                         /\ pairs[j][1] = pairs[j][2] => pairs[j][1] \in Z
  <2>1. (Var \cup Fresh) \cap Const = {} /\ Var \cup Fresh \subseteq Reg
    BY OperandAssumption, SlotAssumption, RegFacts DEF Fresh
  <2>2. ASSUME NEW j \in 1 .. n
        PROVE  /\ pairs[j][1] \in Reg /\ pairs[j][2] \in Const \cup Z
               /\ pairs[j][1] = pairs[j][2] => pairs[j][1] \in Z
    <3>1. dst(j) \in Var \cup Fresh /\ val(j) \in Const \cup N \cup G[j]
      BY <1>2, <1>3
    <3>2. dst(j) \in Reg /\ dst(j) \notin Const
      BY <2>1, <3>1
    <3>3. val(j) \in Const \cup Z
      BY <1>11, <3>1
    <3>4. pairs[j][1] = dst(j) /\ pairs[j][2] = val(j)
      BY <1>6
    <3> QED
      BY <3>2, <3>3, <3>4
  <2> QED
    BY <2>2
<1>14. \A r \in N \cup D : r \in Z \/ \E j \in 1 .. n : r = pairs[j][1]
  BY <1>6, <1>7, <1>11
<1>15. Leads(Z, Assigned(pairs), N \cup D)
  BY <1>1, <1>6, <1>11, <1>13, <1>14, AssignedLeads
<1>16. FlattenSeq(seqs) \in Seq(MInst) /\ Assigned(pairs) \in Seq(MInst)
  <2>1. FlattenSeq(seqs) \in Seq(Outer)
    BY <1>1, <1>8, FlattenType
  <2>2. Assigned(pairs) \in Seq(Inner)
    BY <1>1, <1>5, PhiMovesTyped
  <2> QED
    BY <2>1, <2>2 DEF Inner, Outer
<1>17. Leads(N, FlattenSeq(seqs) \o Assigned(pairs), N \cup D)
  BY <1>12, <1>15, <1>16, LeadsThen
<1> QED
  BY <1>5, <1>17 DEF seqs, D

\* Whether the phis of a block can be assigned directly does not change.
LEMMA DirectKept ==
  ASSUME UNCHANGED <<ir, alias, tailed, succ>>
  PROVE  \A b : (CanDirect(b)' <=> CanDirect(b)) /\ Dsts(b)' = Dsts(b) /\ Copies(b)' = Copies(b)
<1>1. \A b : Phis(b)' = Phis(b) /\ Pred(b)' = Pred(b)
  BY SameShape
<1>2. \A b : Dsts(b)' = Dsts(b) /\ Copies(b)' = Copies(b)
  BY SameShape DEF Dsts, Copies
<1>3. \A b, p : EdgeMoves(b, p, TRUE)' = EdgeMoves(b, p, TRUE)
  BY DEF EdgeMoves, Incoming, OperandAt, Phis
<1>4. \A b : CanDirect(b)' <=> CanDirect(b)
  BY <1>1, <1>3 DEF CanDirect
<1> QED
  BY <1>2, <1>4

\* What the phis of a block are left in once they are lowered.
Given(b) == IF CanDirect(b) THEN Dsts(b) ELSE Copies(b)

\* What lowering the phis of a block leaves as it was.
LEMMA PhisSets ==
  ASSUME CodeInv, LowerPhis, NEW b0 \in Block
  PROVE  /\ Past(b0) /\ Past(b0)' /\ Again(b0)' = Again(b0)
         /\ Have(b0) = Held(b0, Len(Body(b0)) + 1) \cup Dsts(b0) \cup resolved \cup Shared(b0)
         /\ Have(b0)' = Held(b0, Len(Body(b0)) + 1) \cup Dsts(b0) \cup resolved' \cup Shared(b0)
         /\ b0 # bb => Passed(b0)' = Passed(b0)
         /\ b0 = bb => Passed(b0) = Dsts(b0) /\ Passed(b0)' = Given(b0)
         /\ \A r \in Onward(b0)' : r \in Onward(b0) \/ (b0 \in Pred(bb) /\ r \in Given(bb))
<1>1. /\ pc = "phis" /\ bb' = bb + 1 /\ UNCHANGED <<ir, alias, shared, tailed, succ, pc>> /\ bb \in Nat
  BY SizeAssumption DEF LowerPhis, CodeInv, Where
<1>2. \A b : Body(b)' = Body(b) /\ Succ(b)' = Succ(b) /\ Pred(b)' = Pred(b) /\ Phis(b)' = Phis(b)
  BY <1>1, SameShape
<1>3. \A b, j : Held(b, j)' = Held(b, j) /\ SelfTail(b, j)' = SelfTail(b, j)
  BY <1>1, SameShape
<1>4. \A b : (CanDirect(b)' <=> CanDirect(b)) /\ Dsts(b)' = Dsts(b) /\ Copies(b)' = Copies(b)
  BY <1>1, DirectKept
<1>5. \A b : Past(b) /\ Past(b)'
  BY <1>1 DEF Past
<1>6. Again(b0)' = Again(b0)
  BY <1>1, <1>2, <1>3, <1>5 DEF Again, Restarts, Arguments
<1>7. \A b \in Block : (Done(b) <=> b < bb) /\ (Done(b)' <=> b < bb \/ b = bb)
  BY <1>1 DEF Done, Block
<1>8. ASSUME NEW b \in Block
      PROVE  /\ b # bb => Passed(b)' = Passed(b)
             /\ b = bb => Passed(b) = Dsts(b) /\ Passed(b)' = Given(b)
  <2>1. b = bb => ~Done(b) /\ Done(b)'
    BY <1>1, <1>7
  <2>2. b # bb => (Done(b)' <=> Done(b))
    BY <1>7
  <2> QED
    BY <1>4, <2>1, <2>2 DEF Passed, Given
<1>9. ASSUME NEW r \in Onward(b0)' PROVE r \in Onward(b0) \/ (b0 \in Pred(bb) /\ r \in Given(bb))
  <2>1. PICK c \in Succ(b0) : Done(c)' /\ r \in Passed(c)'
    BY <1>2 DEF Onward
  <2>2. c \in Block
    BY SuccFacts DEF CodeInv, Where
  <2>3. CASE c = bb
    BY <1>8, <2>1, <2>2, <2>3 DEF Pred
  <2>4. CASE c # bb
    <3>1. Done(c) /\ r \in Passed(c)
      BY <1>7, <1>8, <2>1, <2>2, <2>4
    <3> QED
      BY <2>1, <3>1 DEF Onward
  <2> QED
    BY <2>3, <2>4
<1>10. Pos(b0) = Len(Body(b0)) + 1 /\ Pos(b0)' = Len(Body(b0)) + 1
  BY <1>2, <1>5 DEF Pos
<1>11. Have(b0) = Held(b0, Len(Body(b0)) + 1) \cup Dsts(b0) \cup resolved \cup Shared(b0)
  BY <1>10 DEF Have
<1>12. Held(b0, Pos(b0))' = Held(b0, Len(Body(b0)) + 1)
  <2>1. \A v : Solid(v)' = Solid(v)
    BY <1>1, SameShape
  <2> QED
    BY <1>1, <1>10, <2>1 DEF Held
<1>13. Shared(b0)' = Shared(b0)
  BY <1>1 DEF Shared
<1>14. Have(b0)' = Held(b0, Len(Body(b0)) + 1) \cup Dsts(b0) \cup resolved' \cup Shared(b0)
  BY <1>4, <1>12, <1>13 DEF Have
<1> QED
  BY <1>5, <1>6, <1>8, <1>9, <1>11, <1>14

\* What lowering the phis of block bb puts before the code of block b, and after it.
PutBefore(b, v) == v = IF b = bb /\ ~CanDirect(bb) THEN HeadMoves(bb) ELSE <<>>
PutAfter(b, v) ==
  v = IF b \in Pred(bb)
      THEN FlattenSeq([j \in DOMAIN Phis(bb) |-> Incoming(bb, j, b).move])
           \o EdgeMoves(bb, b, CanDirect(bb))
      ELSE <<>>
\* What b is then reached with for its phis, and what it leaves for those of bb.
ReachedWith(b, v) == v = IF b = bb THEN Given(bb) ELSE Passed(b)
Leaves(b, v) == v = IF b \in Pred(bb) THEN Given(bb) ELSE {}

\* The code of one block while the phis of another, or its own, are lowered.
LEMMA PhiCodeFlow ==
  ASSUME CodeInv, FlowInv, pc = "phis", bb \in Block, NEW b0 \in Block, NEW X1, X1 \subseteq Reg, Good(b0, X1),
         NEW Q1, ReachedWith(b0, Q1), NEW E1, Leaves(b0, E1), NEW F1, F1 \subseteq Reg, F1 \cap Slot = {},
         Met(PhisMet(bb)) \subseteq F1, Past(b0),
         Have(b0) = Held(b0, Len(Body(b0)) + 1) \cup Dsts(b0) \cup resolved \cup Shared(b0),
         b0 = bb => Passed(b0) = Dsts(b0),
         NEW w1, PutBefore(b0, w1), NEW w2, PutAfter(b0, w2),
         w1 \in Seq(Inner), w2 \in Seq(Inner)
  PROVE  Leads(Base(b0) \cup F1 \cup Q1, w1 \o (before[b0] \o w2), X1 \cup F1 \cup E1)
<1> USE DEF PutBefore, PutAfter, ReachedWith, Leaves
<1> DEFINE B == Base(b0) \cup F1
           E == E1
           d0 == CanDirect(bb)
<1>1. /\ ir \in Programs /\ before[b0] \in Seq(Inner) /\ Inner \subseteq MInst
      /\ Aliased /\ alias \in [Var -> Var \cup Param]
  BY DEF CodeInv, Where, Coded, FlowInv, Inner
<1>2. Leads(Base(b0) \cup Passed(b0), before[b0], X1) /\ Have(b0) \subseteq X1
  BY DEF Good
<1>3. /\ Base(b0) \subseteq Reg /\ Passed(b0) \subseteq Reg /\ Dsts(b0) \subseteq Reg
      /\ Dsts(bb) \subseteq Reg /\ Copies(bb) \subseteq Reg
  BY RegSets, RegFacts
<1>4. d0 \in BOOLEAN
  BY DEF CanDirect
<1>5. Q1 \subseteq Reg /\ B \cup Q1 \subseteq Reg
  BY <1>3 DEF Given
<1>6. Leads(B \cup Q1, w1, B \cup Passed(b0))
  <2>1. CASE b0 = bb /\ ~d0
    <3>1. Copies(b0) \subseteq B \cup Q1
      BY <2>1 DEF Given
    <3>2. Leads(B \cup Q1, HeadMoves(b0), (B \cup Q1) \cup Dsts(b0))
      BY <1>1, <1>5, <3>1, HeadLeads
    <3>3. B \cup Passed(b0) \subseteq (B \cup Q1) \cup Dsts(b0)
      BY <2>1
    <3>4. Leads(B \cup Q1, HeadMoves(b0), B \cup Passed(b0))
      BY <3>2, <3>3, LeadsWeaker
    <3> QED
      BY <2>1, <3>4
  <2>2. CASE ~(b0 = bb /\ ~d0)
    <3>1. Q1 = Passed(b0) /\ w1 = <<>>
      BY <2>2 DEF Given
    <3>2. Leads(B \cup Q1, <<>>, B \cup Q1)
      BY <1>5, LeadsEmpty
    <3> QED
      BY <3>1, <3>2
  <2> QED
    BY <2>1, <2>2
<1>7. Leads(B \cup Passed(b0), before[b0], X1 \cup F1)
  <2>1. Leads((Base(b0) \cup Passed(b0)) \cup F1, before[b0], X1 \cup F1)
    BY <1>2, LeadsFrame
  <2>2. (Base(b0) \cup Passed(b0)) \cup F1 \subseteq B \cup Passed(b0)
    OBVIOUS
  <2> QED
    BY <2>1, <2>2, LeadsWeaker
<1>8. Leads(X1 \cup F1, w2, X1 \cup F1 \cup E)
  <2>1. CASE b0 \in Pred(bb)
    <3> DEFINE N == X1 \cup F1
               w == FlattenSeq([j \in DOMAIN Phis(bb) |-> Incoming(bb, j, b0).move]) \o EdgeMoves(bb, b0, d0)
    <3>1. N \subseteq Reg /\ Held(b0, Len(Body(b0)) + 1) \cup resolved \cup Met(PhisMet(bb)) \subseteq N
      BY <1>2
    <3>2. pc # "select"
      OBVIOUS
    <3> HIDE DEF N
    <3>3. Leads(N, w, N \cup (IF d0 THEN Dsts(bb) ELSE Copies(bb)))
      BY <1>1, <1>4, <2>1, <3>1, <3>2, EdgeLeads
    <3>4. E = (IF d0 THEN Dsts(bb) ELSE Copies(bb)) /\ w2 = w
      BY <2>1 DEF Given
    <3> HIDE DEF E, w
    <3> QED
      BY <3>3, <3>4 DEF N
  <2>2. CASE b0 \notin Pred(bb)
    <3>1. Leads(X1 \cup F1, <<>>, X1 \cup F1)
      BY LeadsEmpty
    <3>2. w2 = <<>> /\ E = {}
      BY <2>2
    <3> QED
      BY <3>1, <3>2
  <2> QED
    BY <2>1, <2>2
<1>9. w1 \in Seq(MInst) /\ before[b0] \in Seq(MInst) /\ w2 \in Seq(MInst)
  BY <1>1
<1> HIDE DEF B, E
<1>10. before[b0] \o w2 \in Seq(MInst)
  BY <1>9
<1>11. Leads(B \cup Passed(b0), before[b0] \o w2, X1 \cup F1 \cup E)
  BY <1>7, <1>8, <1>9, LeadsThen
<1>12. Leads(B \cup Q1, w1 \o (before[b0] \o w2), X1 \cup F1 \cup E)
  BY <1>6, <1>9, <1>10, <1>11, LeadsThen
<1> QED
  BY <1>12 DEF B, E

LEMMA LowerPhisFlow ==
  ASSUME CodeInv, FlowInv, LoadsInEntry', LowerPhis
  PROVE  FlowInv'
<1> DEFINE direct == CanDirect(bb)
           pre(p) == IF p = bb /\ ~direct THEN HeadMoves(bb) ELSE <<>>
           post(p) == IF p \in Pred(bb)
                      THEN FlattenSeq([j \in DOMAIN Phis(bb) |-> Incoming(bb, j, p).move])
                           \o EdgeMoves(bb, p, direct)
                      ELSE <<>>
           code == [p \in Block |-> pre(p) \o (before[p] \o post(p))]
<1>1. /\ pc = "phis" /\ bb <= NumBlocks /\ bb' = bb + 1 /\ Resolve(code, PhisMet(bb))
      /\ UNCHANGED <<ir, k, after, alias, shared, tailed, succ, pc>>
  BY DEF LowerPhis
<1>2. /\ ir \in Programs /\ bb \in 1 .. NumBlocks + 1 /\ before \in [Block -> Seq(Inner)]
      /\ alias \in [Var -> Var \cup Param] /\ NumBlocks \in Nat /\ shared \subseteq Const
      /\ after \in [Block -> Seq(Outer)]
  BY <1>1, SizeAssumption DEF CodeInv, Where, Coded
<1>3. bb \in Block
  BY <1>1, <1>2 DEF Block
<1>4. direct \in BOOLEAN
  BY DEF CanDirect
<1> DEFINE met == PhisMet(bb)
           D == Given(bb)
<1>5. met \in Seq(Arg \X Block)
  BY <1>2, <1>3, PhisMetFacts
<1>6. D \subseteq Reg /\ D \cap Slot = {}
  <2>1. Dsts(bb) \subseteq Var /\ Copies(bb) \subseteq Fresh
    BY <1>3, RegSets
  <2>2. (Var \cup Fresh) \cap Slot = {}
    BY SlotAssumption DEF Fresh
  <2> QED
    BY <2>1, <2>2, RegFacts DEF Given
<1>7. ASSUME NEW p \in Block PROVE pre(p) \in Seq(Inner) /\ post(p) \in Seq(Inner)
  <2> HIDE DEF direct
  <2>1. pre(p) \in Seq(Inner)
    BY <1>2, <1>3, PhiMovesTyped, JoinInner
  <2>2. p \in Pred(bb) => FlattenSeq([j \in DOMAIN Phis(bb) |-> Incoming(bb, j, p).move]) \in Seq(Inner)
                          /\ EdgeMoves(bb, p, direct) \in Seq(Inner)
    BY <1>2, <1>3, <1>4, PhiMovesTyped
  <2>3. post(p) \in Seq(Inner)
    BY <2>2, JoinInner, Zenon
  <2> QED
    BY <2>1, <2>3
<1>8. \A p \in Block : code[p] = pre(p) \o (before[p] \o post(p))
  OBVIOUS
<1>9. code \in [Block -> Seq(Inner)]
  <2> HIDE DEF pre, post
  <2>1. ASSUME NEW p \in Block PROVE pre(p) \o (before[p] \o post(p)) \in Seq(Inner)
    <3>1. before[p] \in Seq(Inner)
      BY <1>2
    <3> QED
      BY <1>7, <3>1, JoinInner, Zenon
  <2> QED
    BY <2>1
<1>10. Resolve(code, met)
  BY <1>1
<1> HIDE DEF code
<1>11. resolved' = resolved \cup Met(met) /\ Met(met) \subseteq Param
  BY <1>5, <1>9, <1>10, ParamsFlow
<1>12. Flow'
  <2> SUFFICES ASSUME NEW b \in Block
               PROVE  \E Z \in SUBSET Reg :
                        /\ Leads(Base(b)' \cup Passed(b)', before'[b], Z)
                        /\ Have(b)' \cup Onward(b)' \cup Again(b)' \subseteq Z
                        /\ Past(b)' => Leads(Z, after'[b], Z)
    BY DEF Flow, Good
  <2>1. PICK X \in SUBSET Reg : Good(b, X)
    BY DEF FlowInv, Flow
  <2> DEFINE F == Added(b, met)
             E == IF b \in Pred(bb) THEN D ELSE {}
             Q == IF b = bb THEN D ELSE Passed(b)
             Z == X \cup F \cup E
  <2>2. /\ Past(b) /\ Past(b)' /\ Again(b)' = Again(b)
        /\ Have(b) = Held(b, Len(Body(b)) + 1) \cup Dsts(b) \cup resolved \cup Shared(b)
        /\ Have(b)' = Held(b, Len(Body(b)) + 1) \cup Dsts(b) \cup resolved' \cup Shared(b)
        /\ b # bb => Passed(b)' = Passed(b)
        /\ b = bb => Passed(b) = Dsts(b) /\ Passed(b)' = Given(b)
        /\ \A r \in Onward(b)' : r \in Onward(b) \/ (b \in Pred(bb) /\ r \in Given(bb))
    BY PhisSets
  <2>3. Passed(b)' = Q
    BY <2>2
  <2>4. F \subseteq Reg /\ F \cap Slot = {} /\ Met(met) \subseteq F /\ Shared(b) \subseteq F
    <3>1. Shared(b)' = Shared(b)
      BY <1>1 DEF Shared
    <3>2. Shared(b) \subseteq Reg /\ Shared(b) \cap Slot = {}
      BY RegSets
    <3> QED
      BY <1>11, <3>1, <3>2, RegFacts, SlotAssumption DEF Added
  <2>5. Q \subseteq Reg /\ Q \cap Slot = {}
    BY <1>6, RegSets
  <2>6. E \subseteq Reg /\ Z \in SUBSET Reg
    BY <1>6, <2>4
  <2>7. Leads(Base(b) \cup F \cup Q, code[b], Z)
    <3> DEFINE v1 == pre(b)
               v2 == post(b)
    <3>a. pc = "phis"
      BY <1>1
    <3>1. v1 \in Seq(Inner) /\ v2 \in Seq(Inner) /\ code[b] = v1 \o (before[b] \o v2)
      BY <1>7, <1>8
    <3>2. PutBefore(b, v1) /\ PutAfter(b, v2) /\ ReachedWith(b, Q) /\ Leaves(b, E)
      BY DEF PutBefore, PutAfter, ReachedWith, Leaves
    <3>3. X \subseteq Reg /\ Met(PhisMet(bb)) \subseteq F
      BY <2>4
    <3>b. /\ Past(b) /\ (b = bb => Passed(b) = Dsts(b))
          /\ Have(b) = Held(b, Len(Body(b)) + 1) \cup Dsts(b) \cup resolved \cup Shared(b)
      BY <2>2
    <3> HIDE DEF v1, v2, F, Q, E
    <3>4. Leads(Base(b) \cup F \cup Q, v1 \o (before[b] \o v2), X \cup F \cup E)
      BY <1>3, <2>1, <3>b, <2>4, <3>a, <3>1, <3>2, <3>3, PhiCodeFlow
    <3> QED
      BY <3>1, <3>4
  <2>8. Leads(Base(b)' \cup Q, before'[b], Z)
    <3>1. shared \subseteq shared' /\ shared' \subseteq Const /\ ir' = ir
      BY <1>1, <1>2
    <3> HIDE DEF met, Z, Q
    <3>2. Leads(Base(b) \cup Added(b, met) \cup Q, code[b], Z)
      BY <2>7
    <3> QED
      BY <1>5, <1>9, <1>10, <2>5, <3>1, <3>2, Prefix
  <2>9. Leads(X, after[b], X) /\ Have(b) \cup Onward(b) \cup Again(b) \subseteq X
    BY <2>1, <2>2 DEF Good
  <2>10. Have(b)' \cup Onward(b)' \cup Again(b)' \subseteq Z
    BY <1>11, <2>2, <2>4, <2>9
  <2>11. Leads(Z, after'[b], Z)
    <3>1. \A n \in 1 .. Len(after[b]) : after[b][n].op # "call"
      <4>1. after[b] \in Seq(Outer)
        BY <1>2
      <4> QED
        BY <4>1 DEF Outer
    <3>2. F \cup E \subseteq Reg
      BY <2>4, <2>6
    <3> HIDE DEF F, E
    <3>3. Leads(X \cup (F \cup E), after[b], X \cup (F \cup E))
      BY <2>9, <3>1, <3>2, LeadsFrame
    <3>4. Z = X \cup (F \cup E) /\ after'[b] = after[b]
      BY <1>1
    <3> QED
      BY <3>3, <3>4
  <2> HIDE DEF Z
  <2> QED
    BY <2>3, <2>6, <2>8, <2>10, <2>11
<1>13. Aliased'
  <2>1. \A b \in Block : \A j \in DOMAIN Body(b) : Translated(b, j)' <=> Translated(b, j)
    BY <1>1 DEF Translated
  <2> QED
    BY <1>1, <1>11, <2>1, AliasedKept DEF FlowInv
<1>14. Skipped'
  BY <1>1 DEF Skipped
<1>15. EntryEnd'
  <2>1. Past(1)' <=> Past(1)
    BY <1>1 DEF Past
  <2> QED
    BY <1>1, <2>1, EntryEndKept DEF FlowInv
<1>16. Exits'
  BY <1>1, ExitsKept DEF FlowInv
<1> QED
  BY <1>12, <1>13, <1>14, <1>15, <1>16 DEF FlowInv

-----------------------------------------------------------------------------
(* The run.                                                                *)

\* Nothing of this depends on the run.
LEMMA FlowKept ==
  ASSUME FlowInv, ir \in Programs, bb \in Nat, UNCHANGED <<ir, bb, k, codeVars>>,
         pc' = pc \/ (pc = "phis" /\ bb > NumBlocks /\ pc' = "run")
  PROVE  FlowInv'
<1>1. UNCHANGED <<ir, bb, k, before, after, alias, resolved, shared, tailed, succ>>
  BY DEF codeVars
<1>2. /\ \A b : Body(b)' = Body(b) /\ Succ(b)' = Succ(b) /\ Phis(b)' = Phis(b)
      /\ \A b, j : Inst(b, j)' = Inst(b, j) /\ SelfTail(b, j)' = SelfTail(b, j)
      /\ \A v : Solid(v)' = Solid(v)
      /\ \A b, j : Held(b, j)' = Held(b, j)
  BY <1>1, SameShape
<1>3. \A b : (CanDirect(b)' <=> CanDirect(b)) /\ Dsts(b)' = Dsts(b) /\ Copies(b)' = Copies(b)
  BY <1>1, DirectKept
<1>4. \A b : Past(b)' <=> Past(b)
  BY <1>1, <1>2 DEF Past
<1>5. \A b \in Block : Done(b)' <=> Done(b)
  <2>1. \A b \in Block : b \in Nat /\ b <= NumBlocks /\ (bb > NumBlocks => b < bb)
    BY SizeAssumption DEF Block
  <2>2. CASE pc' = pc
    BY <1>1, <2>2 DEF Done
  <2>3. CASE pc = "phis" /\ bb > NumBlocks /\ pc' = "run"
    BY <1>1, <2>1, <2>3 DEF Done
  <2> QED
    BY <2>2, <2>3
<1>6. \A b \in Block : Passed(b)' = Passed(b)
  BY <1>3, <1>5 DEF Passed
<1>7. \A b : Shared(b)' = Shared(b) /\ Base(b)' = Base(b)
  BY <1>1, <1>2 DEF Shared, Base, Arguments
<1>8. \A b : Again(b)' = Again(b)
  BY <1>1, <1>2, <1>4 DEF Again, Restarts, Arguments
<1>9. ASSUME NEW b \in Block PROVE Have(b)' = Have(b) /\ Onward(b)' \subseteq Onward(b)
  <2>1. Pos(b)' = Pos(b)
    BY <1>1, <1>2, <1>4 DEF Pos
  <2>2. Held(b, Pos(b))' = Held(b, Pos(b))
    BY <1>1, <1>2, <2>1 DEF Held
  <2>3. Have(b)' = Have(b)
    BY <1>1, <1>3, <1>7, <2>2 DEF Have
  <2>4. ASSUME NEW r \in Onward(b)' PROVE r \in Onward(b)
    <3>1. PICK c \in Succ(b) : Done(c)' /\ r \in Passed(c)'
      BY <1>2 DEF Onward
    <3>2. c \in Block
      BY SuccFacts
    <3> QED
      BY <1>5, <1>6, <3>1, <3>2 DEF Onward
  <2> QED
    BY <2>3, <2>4
<1>10. Flow'
  <2> SUFFICES ASSUME NEW b \in Block
               PROVE  \E Z \in SUBSET Reg :
                        /\ Leads(Base(b)' \cup Passed(b)', before'[b], Z)
                        /\ Have(b)' \cup Onward(b)' \cup Again(b)' \subseteq Z
                        /\ Past(b)' => Leads(Z, after'[b], Z)
    BY DEF Flow, Good
  <2>1. PICK X \in SUBSET Reg : Good(b, X)
    BY DEF FlowInv, Flow
  <2>2. /\ Leads(Base(b) \cup Passed(b), before[b], X)
        /\ Have(b) \cup Onward(b) \cup Again(b) \subseteq X
        /\ Past(b) => Leads(X, after[b], X)
    BY <2>1 DEF Good
  <2>3. /\ Leads(Base(b)' \cup Passed(b)', before'[b], X)
        /\ Past(b)' => Leads(X, after'[b], X)
    BY <1>1, <1>4, <1>6, <1>7, <2>2
  <2>4. Have(b)' \cup Onward(b)' \cup Again(b)' \subseteq X
    BY <1>8, <1>9, <2>2
  <2> QED
    BY <2>3, <2>4
<1>11. Aliased'
  <2>1. \A b, j : Translated(b, j)' <=> Translated(b, j)
    BY <1>1 DEF Translated
  <2> QED
    BY <1>1, <2>1, AliasedKept DEF FlowInv
<1>12. Skipped'
  <2>1. \A b, j : (Fuses(b, j)' <=> Fuses(b, j)) /\ (SelfTail(b, j)' <=> SelfTail(b, j))
    BY <1>1, SameShape
  <2> QED
    BY <1>1, <2>1 DEF FlowInv, Skipped, Fuses, SelfTail, Inst, Body, Uses
<1>13. EntryEnd' /\ Exits'
  BY <1>1, <1>4, EntryEndKept, ExitsKept DEF FlowInv
<1> QED
  BY <1>10, <1>11, <1>12, <1>13 DEF FlowInv

\* The entry has no phis.
LEMMA EntryPasses ==
  ASSUME ir \in Programs, 1 \in Block
  PROVE  Passed(1) = {} /\ Base(1) = Arguments
<1>1. DOMAIN Phis(1) = {}
  BY PhisFacts, InstFacts
<1> QED
  BY <1>1 DEF Passed, Dsts, Copies, Base

\* A block is run in two pieces, and what the first leads to has values at its end.
LEMMA PiecesRun ==
  ASSUME Running, at \in Block, NEW p1 \in Seq(Inner), NEW q1 \in Seq(Outer), before[at] \o after[at] = p1 \o q1,
         NEW S1, NEW T1, Leads(S1, p1, T1), Leads(T1, q1, T1), S1 \subseteq DOMAIN regs
  PROVE  /\ MachineBlock.undefined = FALSE /\ T1 \subseteq DOMAIN MachineBlock.regs
         /\ MachineBlock.to \in Targets(q1)
<1>1. p1 \in Seq(MInst) /\ q1 \in Seq(MInst)
  BY InnerOuter, SeqMonotonic
<1>2. p1 \o q1 \in Seq(MInst) /\ Len(p1 \o q1) \in Nat
  BY <1>1, JoinAt
<1>3. PICK g : IsRunOf(g, Entered, p1 \o q1) /\ MachineBlock = g[Len(p1 \o q1)]
  BY <1>2, MachineBlockRun
<1>4. PICK y, z : /\ IsRunOf(y, Entered, p1) /\ IsRunOf(z, y[Len(p1)], q1)
                  /\ z[Len(q1)] = g[Len(p1 \o q1)]
  BY <1>1, <1>3, RunSplit
<1>5. Machine(Entered) /\ Entered.to = -1 /\ Entered.undefined = FALSE /\ Entered.regs = regs
      /\ args \in [Param -> Value]
  BY EnteredFacts DEF Running
<1> DEFINE m == y[Len(p1)]
           e == z[Len(q1)]
<1>6. Machine(m) /\ m.undefined = FALSE /\ (m.to = -1 => T1 \subseteq DOMAIN m.regs) /\ m.to = -1
  BY <1>1, <1>4, <1>5, RunLeads
<1>7. IsRunOf(z, m, q1)
  BY <1>4
<1> HIDE DEF m
<1>8. e.undefined = FALSE /\ T1 \subseteq DOMAIN e.regs /\ e.to \in Targets(q1)
  BY <1>1, <1>5, <1>6, <1>7, RunLeads
<1> QED
  BY <1>3, <1>4, <1>8

\* The moves of the shared divisors, which the entry makes before its jump.
LEMMA SharedLead ==
  ASSUME shared \subseteq Const, NEW w1 \in Seq(SharedMoves), NEW X1, X1 \subseteq Reg,
         \A c \in shared : \E i \in 1 .. Len(w1) : w1[i] = Mv(Magic(c), c)
  PROVE  w1 \in Seq(Inner) /\ Leads(X1, w1, X1 \cup MagicsOf(shared))
<1>1. ASSUME NEW x \in SharedMoves
      PROVE  x \in Inner /\ IsMove(x) /\ Readable(x, X1)
  <2>1. PICK c \in shared : x = Mv(Magic(c), c)
    BY DEF SharedMoves
  <2>2. c \in Const /\ Magic(c) \in Reg
    BY RegFacts DEF Magic, Fresh
  <2>3. x \in Inner
    BY <2>1, <2>2, MakeInner
  <2>4. IsMove(x) /\ Readable(x, X1)
    BY <2>1, <2>2 DEF IsMove, Readable, Mv, MI
  <2> QED
    BY <2>3, <2>4
<1>2. SharedMoves \subseteq Inner
  BY <1>1
<1>3. w1 \in Seq(Inner)
  BY <1>2, SeqMonotonic
<1>4. w1 \in Seq(MInst)
  BY <1>3, InnerOuter, SeqMonotonic
<1> DEFINE W == SharedMoves
<1>5. \A n \in 1 .. Len(w1) : w1[n] \in W
  OBVIOUS
<1> HIDE DEF W
<1>6. \A n \in 1 .. Len(w1) : IsMove(w1[n]) /\ Readable(w1[n], X1)
  BY <1>1, <1>5 DEF W
<1> DEFINE D == X1 \cup {w1[n].dst : n \in 1 .. Len(w1)}
<1>7. Leads(X1, w1, D)
  BY <1>4, <1>6, LeadsMoves
<1>8. MagicsOf(shared) \subseteq D
  <2>1. ASSUME NEW c \in shared PROVE Magic(c) \in D
    <3>1. PICK i \in 1 .. Len(w1) : w1[i] = Mv(Magic(c), c)
      OBVIOUS
    <3>2. w1[i].dst = Magic(c)
      BY <3>1 DEF Mv, MI
    <3> QED
      BY <3>2
  <2> QED
    BY <2>1 DEF MagicsOf
<1>9. X1 \cup MagicsOf(shared) \subseteq D
  BY <1>8
<1> HIDE DEF D
<1> QED
  BY <1>3, <1>7, <1>9, LeadsWeaker

\* What has values when a block has run.
LEMMA BlockReady ==
  ASSUME TypeInv, FlowInv, EntryEndsInJump, pc = "run", at \in Block,
         Base(at) \cup Passed(at) \subseteq DOMAIN regs
  PROVE  /\ MachineBlock.undefined = FALSE
         /\ Have(at) \cup Onward(at) \cup Again(at) \cup MagicsOf(shared) \subseteq DOMAIN MachineBlock.regs
         /\ MachineBlock.to = 1 => Restarts(at)
<1> DEFINE p == before[at]
           q == after[at]
           m == MachineBlock
<1>1. /\ CodeInv /\ Running /\ Coded /\ shared \subseteq Const /\ ir \in Programs /\ Exits /\ EntryEnd
  BY DEF TypeInv, CodeInv, Coded, Where, FlowInv
<1>2. PICK X \in SUBSET Reg : Good(at, X)
  BY DEF FlowInv, Flow
<1>3. /\ Leads(Base(at) \cup Passed(at), p, X) /\ Leads(X, q, X)
      /\ Have(at) \cup Onward(at) \cup Again(at) \subseteq X
  BY <1>2 DEF Good, Past
<1>4. p \in Seq(Inner) /\ q \in Seq(Outer) /\ p \in Seq(MInst) /\ q \in Seq(MInst)
  BY <1>1, CodeTyped
<1>5. ASSUME m.to \in Targets(q), m.to = 1 PROVE Restarts(at)
  BY <1>1, <1>5 DEF Targets, Exits
<1>6. CASE at # 1 \/ shared = {}
  <2>1. m.undefined = FALSE /\ X \subseteq DOMAIN m.regs /\ m.to \in Targets(q)
    BY <1>1, <1>3, <1>4, PiecesRun
  <2>2. MagicsOf(shared) \subseteq Have(at)
    BY <1>6 DEF Have, Shared, MagicsOf
  <2> QED
    BY <1>3, <1>5, <2>1, <2>2
<1>7. CASE at = 1 /\ shared # {}
  <2>1. PICK w \in Seq(SharedMoves), t \in Block :
          /\ after[1] = w \o <<Jump(t)>>
          /\ \A c \in shared : \E i \in 1 .. Len(w) : w[i] = Mv(Magic(c), c)
    BY <1>1, <1>7 DEF EntryEnd, EntryEndsInJump, Past
  <2> DEFINE j == <<Jump(t)>>
             T == X \cup MagicsOf(shared)
  <2>2. w \in Seq(Inner) /\ Leads(X, w, T)
    BY <1>1, <2>1, SharedLead
  <2>3. T \subseteq Reg
    BY <1>1, MagicFacts
  <2>4. j \in Seq(Outer) /\ j \in Seq(MInst)
    <3>0. "any" \in Condition
      BY DEF Condition
    <3>1. Jump(t) \in Outer
      BY <3>0, MakeInner
    <3>2. <<Jump(t)>> \in Seq(Outer)
      BY <3>1, JoinOuter
    <3> HIDE DEF j
    <3>3. j \in Seq(Outer)
      BY <3>2 DEF j
    <3> QED
      BY <3>3, InnerOuter, SeqMonotonic
  <2>5. Leads(T, j, T)
    <3>1. \A i \in 1 .. Len(j) : Readable(j[i], T)
      BY DEF Jump, MI, Readable
    <3>2. T \in SUBSET Reg
      BY <2>3
    <3> HIDE DEF j, T
    <3> QED
      BY <2>4, <3>1, <3>2, ReadsOnly
  <2>6. q = w \o j
    BY <1>7, <2>1
  <2>7. w \in Seq(MInst)
    BY <2>2, InnerOuter, SeqMonotonic
  <2> HIDE DEF j, T, p, q
  <2>8. p \o q = (p \o w) \o j
    BY <1>4, <2>4, <2>6, <2>7, JoinAssoc
  <2>9. p \o w \in Seq(Inner)
    BY <1>4, <2>2, JoinInner
  <2>10. Leads(Base(at) \cup Passed(at), p \o w, T)
    BY <1>3, <1>4, <2>2, <2>7, LeadsThen
  <2>11. before[at] \o after[at] = (p \o w) \o j
    BY <2>8 DEF p, q
  <2>12. m.undefined = FALSE /\ T \subseteq DOMAIN m.regs /\ m.to \in Targets(j)
    <3> DEFINE pw == p \o w
    <3>1. pw \in Seq(Inner) /\ Leads(Base(at) \cup Passed(at), pw, T) /\ before[at] \o after[at] = pw \o j
      BY <2>9, <2>10, <2>11
    <3> HIDE DEF pw, m
    <3>2. MachineBlock.undefined = FALSE /\ T \subseteq DOMAIN MachineBlock.regs /\ MachineBlock.to \in Targets(j)
      BY <1>1, <2>4, <2>5, <3>1, PiecesRun
    <3> QED
      BY <3>2 DEF m
  <2>13. m.to \in Targets(q)
    <3>1. Len(j) = 1 /\ j[1] = Jump(t)
      BY DEF j
    <3>a. \A i \in 1 .. Len(j) : (w \o j)[Len(w) + i] = j[i]
      BY <2>4, <2>7, JoinAt
    <3>b. Len(w \o j) = Len(w) + Len(j) /\ Len(w) \in Nat
      BY <2>4, <2>7, JoinAt
    <3>c. 1 \in 1 .. Len(j) /\ Len(w) + 1 = Len(w) + Len(j)
      BY <3>1
    <3>2. Len(q) = Len(w) + 1 /\ q[Len(w) + 1] = Jump(t) /\ Len(w) \in Nat
      BY <2>6, <3>1, <3>a, <3>b, <3>c
    <3>3. Len(w) + 1 \in 1 .. Len(q)
      BY <3>2
    <3>4. \A i \in 1 .. Len(j) : j[i] = q[Len(w) + 1]
      BY <3>1, <3>2
    <3> HIDE DEF m
    <3> QED
      BY <2>12, <3>1, <3>3, <3>4 DEF Targets
  <2>14. T = X \cup MagicsOf(shared)
    BY DEF T
  <2> QED
    BY <1>3, <1>5, <2>12, <2>13, <2>14
<1> QED
  BY <1>6, <1>7

\* The machine is at a block with values in all that the block is reached with.
Ready ==
  /\ undefined = FALSE /\ (pc # "run" => at = 1)
  /\ pc = "run" => \A b \in Block : at = b => Base(b) \cup Passed(b) \subseteq DOMAIN regs

LEMMA CallFunctionFlow ==
  ASSUME TypeInv, FlowInv, Ready, CallFunction
  PROVE  FlowInv' /\ Ready'
<1>1. /\ pc = "phis" /\ bb > NumBlocks /\ pc' = "run"
      /\ DOMAIN regs' = Arguments
      /\ UNCHANGED <<ir, bb, k, codeVars, at, undefined>>
  BY DEF CallFunction, Arguments
<1>2. ir \in Programs /\ bb \in Nat /\ at = 1 /\ undefined = FALSE /\ 1 \in Block
  BY <1>1, SizeAssumption DEF TypeInv, CodeInv, Where, Ready, Block
<1>3. FlowInv'
  BY <1>1, <1>2, FlowKept
<1>4. Base(1)' = Arguments /\ Passed(1)' = {}
  <2>1. DOMAIN Phis(1) = {}
    BY <1>2, PhisFacts, InstFacts
  <2>2. Phis(1)' = Phis(1) /\ Arguments' = Arguments
    BY <1>1, SameShape DEF Arguments
  <2> QED
    BY <2>1, <2>2 DEF Passed, Dsts, Copies, Base
<1>5. at' = 1 /\ undefined' = FALSE
  BY <1>1, <1>2
<1> QED
  BY <1>1, <1>3, <1>4, <1>5 DEF Ready

LEMMA RunBlockFlow ==
  ASSUME TypeInv, FlowInv, Ready, EntryEndsInJump, RunBlock
  PROVE  FlowInv' /\ Ready'
<1> DEFINE i == IrBlock
           m == MachineBlock
<1>1. /\ pc = "run" /\ at # 0
      /\ regs' = (IF m.to # 1 THEN m.regs ELSE [r \in DOMAIN m.regs \cap SlotsOf(Nat) |-> m.regs[r]])
      /\ undefined' = m.undefined /\ at' = i.to /\ UNCHANGED <<ir, bb, k, codeVars, pc>>
  BY DEF RunBlock
<1>2. CodeInv /\ Running /\ ir \in Programs /\ bb \in Nat /\ at \in Block /\ 1 \in Block
  BY <1>1, SizeAssumption DEF TypeInv, CodeInv, Where, Running, Block
<1>3. \/ i.to \in {0} \cup Succ(at)
      \/ i.to = 1 /\ \E j \in DOMAIN Body(at) : SelfTail(at, j)
  <2>1. (at # 1 => from \in Pred(at)) /\ env \in [Var -> Value] /\ args \in [Param -> Value]
    BY <1>1, <1>2 DEF Running
  <2> QED
    BY <1>2, <2>1, IrBlockTyped
<1>4. Base(at) \cup Passed(at) \subseteq DOMAIN regs
  BY <1>1, <1>2 DEF Ready
<1>5. /\ m.undefined = FALSE /\ (m.to = 1 => Restarts(at))
      /\ Have(at) \cup Onward(at) \cup Again(at) \cup MagicsOf(shared) \subseteq DOMAIN m.regs
  BY <1>1, <1>2, <1>4, BlockReady
<1> HIDE DEF i, m
<1>6. FlowInv'
  BY <1>1, <1>2, FlowKept
<1>7. UNCHANGED <<ir, alias, resolved, shared, tailed, succ, pc>>
  BY <1>1 DEF codeVars
<1>8. ASSUME NEW c \in Block
      PROVE  Base(c)' = Base(c) /\ Passed(c)' = Passed(c)
  <2>1. (CanDirect(c)' <=> CanDirect(c)) /\ Dsts(c)' = Dsts(c) /\ Copies(c)' = Copies(c)
    BY <1>7, DirectKept
  <2>2. Done(c) /\ Done(c)'
    BY <1>1, <1>7 DEF Done
  <2>3. Held(c, 1)' = Held(c, 1) /\ Arguments' = Arguments /\ Shared(c)' = Shared(c)
    BY <1>7, SameShape DEF Arguments, Shared
  <2> QED
    BY <1>7, <2>1, <2>2, <2>3 DEF Passed, Base
<1>9. ASSUME NEW c \in Block, i.to = c PROVE Base(c) \cup Passed(c) \subseteq DOMAIN regs'
  <2>1. c # 0
    BY SizeAssumption DEF Block
  <2>2. CASE c \in Succ(at)
    <3>1. c # 1
      BY <1>2, <2>2, SuccFacts
    <3>2. ~Restarts(at)
      <4>1. SUFFICES ASSUME NEW j \in DOMAIN Body(at), SelfTail(at, j) PROVE FALSE
        BY DEF Restarts
      <4>2. j + 1 \in DOMAIN Body(at) /\ Inst(at, j + 1).op = "return"
        BY <4>1 DEF SelfTail
      <4>3. j + 1 = Len(Body(at)) /\ Len(Inst(at, j + 1).to) = 0
        BY <1>2, <4>2, InstFacts DEF Terminators, Shaped
      <4>4. Succ(at) = {Inst(at, Len(Body(at))).to[h] : h \in DOMAIN Inst(at, Len(Body(at))).to}
        BY DEF Succ, SuccOf, Inst, Body
      <4>5. Inst(at, j + 1).op \in {"jump", "branch"} \/ DOMAIN Inst(at, j + 1).to = {}
        BY <1>2, <4>2, FieldFacts
      <4> QED
        BY <2>2, <4>2, <4>3, <4>4, <4>5
    <3>3. DOMAIN regs' = DOMAIN m.regs
      BY <1>1, <1>5, <3>2
    <3>4. Held(c, 1) \subseteq Held(at, Len(Body(at)) + 1)
      BY <1>2, <2>2, DefinedEdge DEF Held
    <3>5. Pos(at) = Len(Body(at)) + 1
      BY <1>1 DEF Pos, Past
    <3>6. Base(c) \subseteq Have(at) \cup MagicsOf(shared)
      BY <3>1, <3>4, <3>5 DEF Base, Have, Shared
    <3>7. Passed(c) \subseteq Onward(at)
      BY <1>1, <2>2 DEF Onward, Done
    <3> QED
      BY <1>5, <3>3, <3>6, <3>7
  <2>3. CASE c = 1 /\ Restarts(at)
    <3>1. Arguments \subseteq DOMAIN m.regs
      BY <1>1, <1>5, <2>3 DEF Again, Past
    <3>2. Arguments \subseteq SlotsOf(Nat)
      BY <1>2, RegSets, SlotFacts
    <3>3. Base(c) = Arguments /\ Passed(c) = {}
      BY <1>2, <2>3, EntryPasses
    <3>4. DOMAIN regs' = DOMAIN m.regs \/ DOMAIN regs' = DOMAIN m.regs \cap SlotsOf(Nat)
      BY <1>1
    <3> QED
      BY <3>1, <3>2, <3>3, <3>4
  <2> QED
    BY <1>3, <1>9, <2>1, <2>2, <2>3 DEF Restarts
<1>10. \A c \in Block : at' = c => Base(c)' \cup Passed(c)' \subseteq DOMAIN regs'
  BY <1>1, <1>8, <1>9
<1>11. undefined' = FALSE /\ pc' = "run"
  BY <1>1, <1>5, <1>7
<1> QED
  BY <1>6, <1>10, <1>11 DEF Ready

LEMMA InitFlow == Init => FlowInv /\ Ready
<1> SUFFICES ASSUME Init PROVE FlowInv /\ Ready
  OBVIOUS
<1>1. /\ ir \in Programs /\ bb = 1 /\ k = 1 /\ pc = "select" /\ 1 \in Block /\ at = 1 /\ undefined = FALSE
      /\ shared = {} /\ resolved = {} /\ alias = [v \in Var |-> v]
      /\ \A b \in Block : before[b] = <<>> /\ after[b] = <<>>
  BY SizeAssumption DEF Init, Block
<1>2. CodeInv
  BY InitTyped DEF TypeInv
<1>3. ASSUME NEW b \in Block PROVE ~Past(b) /\ Pos(b) = 1 /\ ~Done(b)
  <2>1. b \in Nat /\ ~(b < 1) /\ Len(Body(b)) \in Nat \ {0}
    BY <1>1, BlockFacts DEF Block
  <2>2. ~Past(b) /\ ~Done(b)
    BY <1>1, <2>1 DEF Past, Done
  <2> QED
    BY <1>1, <2>2 DEF Pos
<1>4. Flow
  <2> SUFFICES ASSUME NEW b \in Block PROVE \E X \in SUBSET Reg : Good(b, X)
    BY DEF Flow
  <2> DEFINE X == Base(b) \cup Passed(b)
  <2>1. X \in SUBSET Reg
    BY <1>2, RegSets
  <2>2. Leads(X, <<>>, X)
    BY <2>1, LeadsEmpty
  <2>3. Onward(b) = {} /\ Again(b) = {}
    <3>1. \A c \in Succ(b) : c \in Block
      BY <1>1, SuccFacts
    <3> QED
      BY <1>3, <3>1 DEF Onward, Again
  <2>4. Held(b, 1) \subseteq Base(b)
    <3>1. b = 1 => Held(b, 1) = {}
      BY <1>1, DefinedEntry DEF Held
    <3> QED
      BY <3>1 DEF Base
  <2>5. Have(b) \subseteq X
    BY <1>1, <1>3, <2>4 DEF Have, Passed, Shared, MagicsOf
  <2> HIDE DEF X
  <2>6. Leads(X, before[b], X)
    BY <1>1, <2>2
  <2>7. Good(b, X)
    BY <1>3, <2>3, <2>5, <2>6 DEF Good, X
  <2> QED
    BY <2>1, <2>7
<1>5. Aliased
  <2>1. ASSUME NEW b \in Block, NEW j \in DOMAIN Body(b) PROVE ~Translated(b, j)
    <3>1. j \in Nat \ {0} /\ b \in Nat \ {0}
      BY <1>1, BlockFacts DEF Block
    <3> QED
      BY <1>1, <3>1 DEF Translated
  <2> QED
    BY <1>1, <2>1 DEF Aliased
<1>6. Skipped /\ EntryEnd
  BY <1>1, <1>3 DEF Skipped, EntryEnd
<1>7. Exits
  BY <1>1 DEF Exits
<1>8. Ready
  BY <1>1 DEF Ready
<1> QED
  BY <1>4, <1>5, <1>6, <1>7, <1>8 DEF FlowInv

\* What the theorem supposes of the function and of what is shared.
Lowerable == LoadsInEntry /\ ComparesEncodable /\ EntryEndsInJump

LEMMA StepFlow ==
  ASSUME TypeInv, FlowInv, Ready, Lowerable, Lowerable', [Next]_vars
  PROVE  FlowInv' /\ Ready'
<1>1. CodeInv /\ ir \in Programs /\ bb \in Nat
  BY SizeAssumption DEF TypeInv, CodeInv, Where, Block
<1>2. LoadsInEntry' /\ ComparesEncodable /\ EntryEndsInJump /\ EntryEndsInJump'
  BY DEF Lowerable
<1> DEFINE Select ==
             \/ SelectBinary \/ SelectFma \/ SelectDiv \/ SelectAlias \/ SelectCompare \/ SelectAnd
             \/ SelectJump \/ SelectBranch \/ SelectBranchOnFlags \/ SelectBranchOnAnd
             \/ SelectCall \/ SelectSelfTail \/ SelectReturn \/ SelectPhi \/ EndBlock \/ LowerPhis
<1>3. Select => FlowInv'
  BY <1>1, <1>2, BinaryFlow, FmaFlow, DivFlow, AliasFlow, CompareFlow, AndFlow, JumpFlow, BranchFlow,
     BranchOnFlagsFlow, BranchOnAndFlow, CallFlow, SelfTailFlow, ReturnFlow, PhiFlow, EndBlockFlow,
     LowerPhisFlow
<1> DEFINE Stays == UNCHANGED runVars /\ pc # "run" /\ pc' # "run"
<1>4. Select => Stays
  <2>1. \A op : Selecting(op) => pc # "run"
    BY DEF Selecting
  <2>2. SelectBinary => UNCHANGED <<runVars, pc>> /\ pc # "run"
    BY <2>1 DEF SelectBinary
  <2>3. SelectFma => UNCHANGED <<runVars, pc>> /\ pc # "run"
    BY <2>1 DEF SelectFma
  <2>4. SelectDiv => UNCHANGED <<runVars, pc>> /\ pc # "run"
    BY <2>1 DEF SelectDiv
  <2>5. SelectAlias \/ SelectCompare \/ SelectAnd => UNCHANGED <<runVars, pc>> /\ pc # "run"
    BY <2>1 DEF SelectAlias, SelectCompare, SelectAnd
  <2>6. SelectJump => UNCHANGED <<runVars, pc>> /\ pc # "run"
    BY <2>1 DEF SelectJump
  <2>c. SelectBranch => UNCHANGED <<runVars, pc>> /\ pc # "run"
    BY <2>1 DEF SelectBranch
  <2>d. SelectBranchOnFlags => UNCHANGED <<runVars, pc>> /\ pc # "run"
    BY <2>1 DEF SelectBranchOnFlags
  <2>7. SelectBranchOnAnd => UNCHANGED <<runVars, pc>> /\ pc # "run"
    BY <2>1 DEF SelectBranchOnAnd
  <2>8. SelectCall => UNCHANGED <<runVars, pc>> /\ pc # "run"
    BY <2>1 DEF SelectCall
  <2>a. SelectSelfTail => UNCHANGED <<runVars, pc>> /\ pc # "run"
    BY <2>1 DEF SelectSelfTail
  <2>b. SelectReturn \/ SelectPhi => UNCHANGED <<runVars, pc>> /\ pc # "run"
    BY <2>1 DEF SelectReturn, SelectPhi
  <2>9. EndBlock => UNCHANGED runVars /\ pc # "run" /\ pc' # "run"
    BY DEF EndBlock
  <2>10. LowerPhis => UNCHANGED <<runVars, pc>> /\ pc # "run"
    BY DEF LowerPhis
  <2> QED
    BY <2>2, <2>3, <2>4, <2>5, <2>6, <2>c, <2>d, <2>7, <2>8, <2>a, <2>b, <2>9, <2>10
<1>5. CASE Select
  <2>1. Ready'
    BY <1>4, <1>5 DEF Ready, runVars
  <2> QED
    BY <1>3, <1>5, <2>1
<1>6. CASE CallFunction
  BY <1>6, CallFunctionFlow
<1>7. CASE RunBlock
  BY <1>2, <1>7, RunBlockFlow
<1>8. CASE UNCHANGED vars
  <2>1. /\ UNCHANGED <<ir, bb, k, codeVars, pc, regs, at, undefined>>
        /\ UNCHANGED <<alias, resolved, shared, tailed, succ>>
    BY <1>8 DEF vars, codeVars, runVars
  <2>2. FlowInv'
    BY <1>1, <2>1, FlowKept
  <2>3. ASSUME NEW c \in Block, pc = "run" PROVE Base(c)' = Base(c) /\ Passed(c)' = Passed(c)
    <3>1. (CanDirect(c)' <=> CanDirect(c)) /\ Dsts(c)' = Dsts(c) /\ Copies(c)' = Copies(c)
      BY <2>1, DirectKept
    <3>2. Done(c) /\ Done(c)'
      BY <2>1, <2>3 DEF Done
    <3>3. Held(c, 1)' = Held(c, 1) /\ Arguments' = Arguments /\ Shared(c)' = Shared(c)
      BY <2>1, SameShape DEF Arguments, Shared
    <3> QED
      BY <2>1, <3>1, <3>2, <3>3 DEF Passed, Base
  <2>4. Ready'
    BY <2>1, <2>3 DEF Ready
  <2> QED
    BY <2>2, <2>4
<1> QED
  BY <1>5, <1>6, <1>7, <1>8 DEF Next

\* No instruction of the machine code reads a register before it is written, on any path
\* through the blocks and again in every activation (resolve and resolve_no_imm in
\* conv/codegen.cpp): where no parameter is loaded outside the entry, no branch on a
\* conjunction compares a constant that it first has to move, and the entry jumps
\* wherever a divisor is shared.  Each of these is a place where the code can go wrong.
THEOREM OperandsAreDefined ==
  Spec /\ [](LoadsInEntry /\ ComparesEncodable /\ EntryEndsInJump) => []OperandsDefined
<1>1. Init => TypeInv /\ FlowInv /\ Ready
  BY InitTyped, InitFlow
<1>2. TypeInv /\ FlowInv /\ Ready /\ Lowerable /\ Lowerable' /\ [Next]_vars
      => TypeInv' /\ FlowInv' /\ Ready'
  BY StepTyped, StepFlow
<1>3. Ready => OperandsDefined
  BY DEF Ready, OperandsDefined
<1>4. LoadsInEntry /\ ComparesEncodable /\ EntryEndsInJump <=> Lowerable
  BY DEF Lowerable
<1> QED
  BY <1>1, <1>2, <1>3, <1>4, PTL DEF Spec

=============================================================================
