-------------------------- MODULE Lowering_proofs --------------------------
(***************************************************************************)
(* What can be said of machine code on its own: which registers hold a     *)
(* value after it when certain registers did before it, and what its run   *)
(* then does.  Then that Lowering keeps its types: the code of every block *)
(* is made of machine instructions, and the run of the IR and of the       *)
(* machine is one of values.                                               *)
(***************************************************************************)
EXTENDS Lowering, SequenceTheorems, FiniteSetTheorems, WellFoundedInduction, TLAPS

-----------------------------------------------------------------------------
(* Counting.                                                               *)

LEMMA LeastOf ==
  ASSUME NEW T, T \subseteq Nat, T # {}
  PROVE  \E x \in T : \A y \in T : x <= y
<1> DEFINE R == OpToRel(<, Nat)
<1>1. \A x, y \in Nat : y < x => <<y, x>> \in R
  BY DEF OpToRel
<1>2. IsWellFoundedOn(R, Nat)
  BY NatLessThanWellFounded
<1> HIDE DEF R
<1>3. PICK x \in T : \A y \in T : <<y, x>> \notin R
  BY <1>2, WFMin
<1>4. ASSUME NEW y \in T PROVE x <= y
  <2>1. x \in Nat /\ y \in Nat
    BY <1>3, <1>4
  <2>2. ~(y < x)
    BY <1>1, <1>3, <2>1
  <2> QED
    BY <2>1, <2>2
<1> QED
  BY <1>3, <1>4

\* Induction up to n, over a set of numbers.
Steps(T, n) == 0 \in T /\ \A j \in 1 .. n : j - 1 \in T => j \in T

LEMMA Counting ==
  ASSUME NEW n \in Nat, NEW T, Steps(T, n)
  PROVE  n \in T /\ 0 .. n \subseteq T
<1> USE DEF Steps
<1> DEFINE U == {j \in 0 .. n : j \notin T}
<1> SUFFICES ASSUME U # {} PROVE FALSE
  OBVIOUS
<1>0. U \subseteq Nat
  OBVIOUS
<1> HIDE DEF U
<1>1. PICK x \in U : \A y \in U : x <= y
  BY <1>0, LeastOf
<1> USE DEF U
<1>2. x \in 1 .. n /\ x - 1 \in 0 .. n
  BY <1>1
<1>3. x - 1 \in T
  BY <1>1, <1>2
<1> QED
  BY <1>1, <1>2, <1>3

\* A function of the numbers up to n is defined by a first value and a step.
IsRun(g, n, V, a, step) ==
  g \in [0 .. n -> V] /\ g[0] = a /\ \A j \in 1 .. n : g[j] = step[<<g[j - 1], j>>]

LEMMA RunExists ==
  ASSUME NEW n \in Nat, NEW V, NEW a \in V, NEW step \in [V \X (1 .. n) -> V]
  PROVE  \E g : IsRun(g, n, V, a, step)
<1> DEFINE Is(g, m) == /\ g \in [0 .. m -> V] /\ g[0] = a
                       /\ \A j \in 1 .. m : g[j] = step[<<g[j - 1], j>>]
           T == {m \in 0 .. n : \E g : Is(g, m)}
<1>1. 0 \in T
  <2> DEFINE h == [j \in 0 .. 0 |-> a]
  <2>1. h \in [0 .. 0 -> V] /\ h[0] = a
    OBVIOUS
  <2>2. \A j \in 1 .. 0 : h[j] = step[<<h[j - 1], j>>]
    OBVIOUS
  <2> HIDE DEF h
  <2> QED
    BY <2>1, <2>2
<1>2. ASSUME NEW m \in 1 .. n, m - 1 \in T PROVE m \in T
  <2>1. PICK g : Is(g, m - 1)
    BY <1>2
  <2> DEFINE h == [j \in 0 .. m |-> IF j = m THEN step[<<g[m - 1], m>>] ELSE g[j]]
  <2>2. g[m - 1] \in V
    BY <2>1
  <2>3. step[<<g[m - 1], m>>] \in V
    BY <2>2
  <2>4. h \in [0 .. m -> V] /\ h[0] = a
    BY <2>1, <2>3
  <2>5. ASSUME NEW j \in 1 .. m PROVE h[j] = step[<<h[j - 1], j>>]
    <3>1. CASE j = m
      <4>1. h[m] = step[<<g[m - 1], m>>] /\ h[m - 1] = g[m - 1]
        OBVIOUS
      <4> HIDE DEF h
      <4> QED
        BY <3>1, <4>1
    <3>2. CASE j # m
      <4>1. j \in 1 .. (m - 1) /\ h[j] = g[j] /\ h[j - 1] = g[j - 1]
        BY <3>2
      <4> HIDE DEF h
      <4> QED
        BY <2>1, <4>1
    <3> QED
      BY <3>1, <3>2
  <2> HIDE DEF h
  <2> QED
    BY <2>4, <2>5
<1> HIDE DEF T
<1>3. n \in T
  BY <1>1, <1>2, Counting DEF Steps
<1>4. PICK g : Is(g, n)
  BY <1>3 DEF T
<1> QED
  BY <1>4 DEF IsRun

-----------------------------------------------------------------------------
(* Machine instructions, and the registers that hold a value.              *)

Condition == Comparisons \cup {"any"}
Arith == {"add", "sub", "mul", "div", "and"}
Writing == Arith \cup {"mla", "mls", "mv", "load_param"}
Exiting == {"branch", "jump", "return"}

\* Variables, parameters, argument registers and what is named after a place.
Reg == Var \cup Param \cup Slot \cup (Nat \X Nat \X (Nat \cup Const)) \cup {<<i>> : i \in Nat}

MInst ==
  {c \in [op : Writing \cup Exiting \cup {"cmp", "call"}, dst : Reg \cup {None},
          src : Seq(Reg \cup Const), cond : Condition, to : Block \cup {0}] :
     /\ c.op \in Arith \cup {"cmp"} => Len(c.src) = 2
     /\ c.op \in {"mla", "mls"} => Len(c.src) = 3
     /\ c.op = "mv" => Len(c.src) = 1
     /\ c.op = "load_param" => c.dst \in Param
     /\ c.op \in Writing => c.dst \in Reg
     /\ c.op = "call" => c.cond = "any"
     /\ c.op \in {"branch", "jump"} => c.to \in Block}

\* What comes before the end of a block, and what the end is made of.
Inner == {c \in MInst : c.op \notin Exiting}
Outer == {c \in MInst : c.op # "call"}

\* Instruction n completes a pair of moves with opposite conditions.
Fills(code, n) ==
  /\ n - 1 \in DOMAIN code /\ code[n].op = "mv" /\ code[n - 1].op = "mv"
  /\ code[n - 1].dst = code[n].dst
  /\ code[n - 1].cond \in Comparisons /\ code[n].cond = Opposite(code[n - 1].cond)

Kept(x, A) == IF x.op = "call" THEN (A \ Slot) \cup {Slots[1]} ELSE A
Gained(code, n) ==
  IF code[n].op \in Writing /\ (code[n].cond = "any" \/ Fills(code, n)) THEN {code[n].dst} ELSE {}

\* The sources of x are constants or among A.
Readable(x, A) == \A i \in DOMAIN x.src : x.src[i] \in Const \cup A

\* av[n] has a value after n instructions.
Follows(av, code) ==
  /\ av \in [0 .. Len(code) -> SUBSET Reg]
  /\ \A n \in 1 .. Len(code) :
       Readable(code[n], av[n - 1]) /\ av[n] \subseteq Kept(code[n], av[n - 1]) \cup Gained(code, n)

\* With values in S the code reads none but values, and leaves T with values.
Leads(S, code, T) == \E av : Follows(av, code) /\ av[0] \subseteq S /\ T \subseteq av[Len(code)]

LEMMA LeadsEmpty ==
  ASSUME NEW S, S \subseteq Reg
  PROVE  Leads(S, <<>>, S)
<1> DEFINE av == [n \in 0 .. 0 |-> S]
<1>1. av \in [0 .. 0 -> SUBSET Reg] /\ av[0] = S
  OBVIOUS
<1> HIDE DEF av
<1>2. Follows(av, <<>>)
  BY <1>1 DEF Follows
<1> QED
  BY <1>1, <1>2 DEF Leads

LEMMA LeadsOne ==
  ASSUME NEW S, S \subseteq Reg, NEW x \in MInst, Readable(x, S),
         NEW T, T \subseteq Kept(x, S) \cup (IF x.op \in Writing /\ x.cond = "any" THEN {x.dst} ELSE {}),
         T \subseteq Reg
  PROVE  Leads(S, <<x>>, T)
<1> DEFINE av == [n \in 0 .. 1 |-> IF n = 0 THEN S ELSE T]
<1>1. av \in [0 .. 1 -> SUBSET Reg] /\ av[0] = S /\ av[1] = T
  OBVIOUS
<1> HIDE DEF av
<1>2. Len(<<x>>) = 1 /\ <<x>>[1] = x
  OBVIOUS
<1>3. av[1] \subseteq Kept(x, S) \cup Gained(<<x>>, 1)
  BY <1>1, <1>2 DEF Gained
<1>4. Follows(av, <<x>>)
  BY <1>1, <1>2, <1>3 DEF Follows
<1> QED
  BY <1>1, <1>2, <1>4 DEF Leads

LEMMA LeadsWeaker ==
  ASSUME NEW S, NEW T, NEW code, Leads(S, code, T), NEW S2, S \subseteq S2, NEW T2, T2 \subseteq T
  PROVE  Leads(S2, code, T2)
<1>1. PICK av : Follows(av, code) /\ av[0] \subseteq S /\ T \subseteq av[Len(code)]
  BY DEF Leads
<1>2. av[0] \subseteq S2 /\ T2 \subseteq av[Len(code)]
  BY <1>1
<1> QED
  BY <1>1, <1>2 DEF Leads

LEMMA KeptMono == \A x, A, B : A \subseteq B => Kept(x, A) \subseteq Kept(x, B)
  BY DEF Kept

LEMMA LeadsThen ==
  ASSUME NEW p \in Seq(MInst), NEW q \in Seq(MInst), NEW S, NEW T, NEW U,
         Leads(S, p, T), Leads(T, q, U)
  PROVE  Leads(S, p \o q, U)
<1> DEFINE pq == p \o q
           l == Len(p)
           m == Len(q)
<1>1. PICK av : Follows(av, p) /\ av[0] \subseteq S /\ T \subseteq av[l]
  BY DEF Leads
<1>2. PICK bv : Follows(bv, q) /\ bv[0] \subseteq T /\ U \subseteq bv[m]
  BY DEF Leads
<1>3. /\ l \in Nat /\ m \in Nat /\ Len(pq) = l + m
      /\ \A n \in 1 .. l : pq[n] = p[n]
      /\ \A n \in 1 .. m : pq[l + n] = q[n]
      /\ DOMAIN p = 1 .. l /\ DOMAIN q = 1 .. m /\ DOMAIN pq = 1 .. (l + m)
  OBVIOUS
<1> DEFINE cv == [n \in 0 .. (l + m) |-> IF n <= l THEN av[n] ELSE bv[n - l]]
<1>4. /\ av \in [0 .. l -> SUBSET Reg]
      /\ \A n \in 1 .. l : /\ Readable(p[n], av[n - 1])
                           /\ av[n] \subseteq Kept(p[n], av[n - 1]) \cup Gained(p, n)
  BY <1>1 DEF Follows
<1>5. /\ bv \in [0 .. m -> SUBSET Reg]
      /\ \A n \in 1 .. m : /\ Readable(q[n], bv[n - 1])
                           /\ bv[n] \subseteq Kept(q[n], bv[n - 1]) \cup Gained(q, n)
  BY <1>2 DEF Follows
<1>6. /\ cv \in [0 .. (l + m) -> SUBSET Reg]
      /\ \A n \in 0 .. l : cv[n] = av[n]
      /\ \A n \in 1 .. m : cv[l + n] = bv[n]
  BY <1>3, <1>4, <1>5
<1> HIDE DEF cv, pq, l, m
<1>7. ASSUME NEW n \in 1 .. l
      PROVE  /\ Readable(pq[n], cv[n - 1])
             /\ cv[n] \subseteq Kept(pq[n], cv[n - 1]) \cup Gained(pq, n)
  <2>1. n \in 0 .. l /\ n - 1 \in 0 .. l
    BY <1>3
  <2>2. cv[n] = av[n] /\ cv[n - 1] = av[n - 1] /\ pq[n] = p[n]
    BY <1>3, <1>6, <2>1
  <2>3. n - 1 \in DOMAIN p => n - 1 \in DOMAIN pq /\ pq[n - 1] = p[n - 1]
    BY <1>3
  <2>4. Gained(p, n) \subseteq Gained(pq, n)
    BY <2>2, <2>3 DEF Gained, Fills
  <2> QED
    BY <1>4, <2>2, <2>4
<1>8. ASSUME NEW n \in 1 .. m
      PROVE  /\ Readable(pq[l + n], cv[l + n - 1])
             /\ cv[l + n] \subseteq Kept(pq[l + n], cv[l + n - 1]) \cup Gained(pq, l + n)
  <2>1. bv[n - 1] \subseteq cv[l + n - 1]
    <3>1. CASE n = 1
      <4>1. l + n - 1 = l /\ l \in 0 .. l
        BY <1>3, <3>1
      <4>2. cv[l + n - 1] = av[l]
        BY <1>6, <4>1
      <4> QED
        BY <1>1, <1>2, <3>1, <4>2 DEF l
    <3>2. CASE n # 1
      <4>1. n - 1 \in 1 .. m /\ l + (n - 1) = l + n - 1
        BY <1>3, <3>2
      <4> QED
        BY <1>6, <4>1
    <3> QED
      BY <3>1, <3>2
  <2>2. pq[l + n] = q[n] /\ cv[l + n] = bv[n]
    BY <1>3, <1>6
  <2>3. n - 1 \in DOMAIN q => l + n - 1 \in DOMAIN pq /\ pq[l + n - 1] = q[n - 1]
    <3>1. SUFFICES ASSUME n - 1 \in 1 .. m PROVE l + n - 1 \in 1 .. (l + m) /\ pq[l + n - 1] = q[n - 1]
      BY <1>3
    <3>2. l + (n - 1) = l + n - 1 /\ l + n - 1 \in 1 .. (l + m)
      BY <1>3, <3>1
    <3> QED
      BY <1>3, <3>1, <3>2
  <2>4. Gained(q, n) \subseteq Gained(pq, l + n)
    <3>1. Fills(q, n) => Fills(pq, l + n)
      <4>1. SUFFICES ASSUME Fills(q, n) PROVE Fills(pq, l + n)
        OBVIOUS
      <4>2. l + n - 1 \in DOMAIN pq /\ pq[(l + n) - 1] = q[n - 1]
        BY <1>3, <2>3, <4>1 DEF Fills
      <4> QED
        BY <1>3, <2>2, <4>1, <4>2 DEF Fills
    <3> QED
      BY <2>2, <3>1 DEF Gained
  <2>5. Kept(q[n], bv[n - 1]) \subseteq Kept(q[n], cv[l + n - 1])
    BY <2>1, KeptMono
  <2>6. Readable(q[n], cv[l + n - 1])
    BY <1>5, <2>1 DEF Readable
  <2> QED
    BY <1>5, <2>2, <2>4, <2>5, <2>6
<1>9. ASSUME NEW n \in 1 .. (l + m)
      PROVE  /\ Readable(pq[n], cv[n - 1])
             /\ cv[n] \subseteq Kept(pq[n], cv[n - 1]) \cup Gained(pq, n)
  <2>1. CASE n <= l
    <3>1. n \in 1 .. l
      BY <1>3, <2>1
    <3> QED
      BY <1>7, <3>1
  <2>2. CASE ~(n <= l)
    <3>1. PICK i \in 1 .. m : l + i = n
      <4>1. n - l \in 1 .. m /\ l + (n - l) = n
        BY <1>3, <2>2
      <4> QED
        BY <4>1
    <3>2. l + i - 1 = n - 1
      BY <1>3, <3>1
    <3> QED
      BY <1>8, <3>1, <3>2
  <2> QED
    BY <2>1, <2>2
<1>10. Follows(cv, pq)
  BY <1>3, <1>6, <1>9 DEF Follows
<1>11. cv[0] = av[0] /\ U \subseteq cv[l + m]
  <2>1. cv[0] = av[0]
    <3>1. 0 \in 0 .. l
      BY <1>3
    <3> QED
      BY <1>6, <3>1
  <2>2. CASE m = 0
    <3>1. cv[l + m] = av[l]
      <4>1. l + m = l /\ l \in 0 .. l
        BY <1>3, <2>2
      <4> QED
        BY <1>6, <4>1
    <3> QED
      BY <1>1, <1>2, <2>1, <2>2, <3>1
  <2>3. CASE m # 0
    <3>1. m \in 1 .. m
      BY <1>3, <2>3
    <3> QED
      BY <1>2, <1>6, <2>1, <3>1
  <2> QED
    BY <2>1, <2>2, <2>3
<1> QED
  BY <1>1, <1>3, <1>10, <1>11 DEF Leads, pq

\* Registers that no call overwrites stay.
LEMMA LeadsFrame ==
  ASSUME NEW code, NEW S, NEW T, Leads(S, code, T), NEW F, F \subseteq Reg,
         F \cap Slot = {} \/ \A n \in 1 .. Len(code) : code[n].op # "call"
  PROVE  Leads(S \cup F, code, T \cup F)
<1>1. PICK av : Follows(av, code) /\ av[0] \subseteq S /\ T \subseteq av[Len(code)]
  BY DEF Leads
<1> DEFINE l == Len(code)
           bv == [n \in 0 .. l |-> av[n] \cup F]
<1>2. /\ av \in [0 .. l -> SUBSET Reg]
      /\ \A n \in 1 .. l : /\ Readable(code[n], av[n - 1])
                           /\ av[n] \subseteq Kept(code[n], av[n - 1]) \cup Gained(code, n)
  BY <1>1 DEF Follows
<1>3. bv \in [0 .. l -> SUBSET Reg] /\ \A n \in 0 .. l : bv[n] = av[n] \cup F
  BY <1>2
<1> HIDE DEF bv
<1>4. ASSUME NEW n \in 1 .. l
      PROVE  Readable(code[n], bv[n - 1]) /\ bv[n] \subseteq Kept(code[n], bv[n - 1]) \cup Gained(code, n)
  <2>1. bv[n] = av[n] \cup F /\ bv[n - 1] = av[n - 1] \cup F
    BY <1>3
  <2>2. Kept(code[n], av[n - 1]) \cup F \subseteq Kept(code[n], bv[n - 1])
    BY <2>1 DEF Kept
  <2>3. Readable(code[n], bv[n - 1])
    BY <1>2, <2>1 DEF Readable
  <2> QED
    BY <1>2, <2>1, <2>2, <2>3
<1>5. Follows(bv, code)
  BY <1>3, <1>4 DEF Follows
<1> QED
  BY <1>1, <1>3, <1>5 DEF Leads

-----------------------------------------------------------------------------
(* Pieces of code.                                                         *)

\* Moves of what has a value.
IsMove(x) == x.op \in {"mv", "load_param"} /\ x.cond = "any"

LEMMA LeadsMoves ==
  ASSUME NEW code \in Seq(MInst), NEW S, S \subseteq Reg,
         \A n \in 1 .. Len(code) : IsMove(code[n]) /\ Readable(code[n], S)
  PROVE  Leads(S, code, S \cup {code[n].dst : n \in 1 .. Len(code)})
<1> DEFINE l == Len(code)
           av == [n \in 0 .. l |-> S \cup {code[i].dst : i \in 1 .. n}]
<1>1. l \in Nat /\ \A n \in 1 .. l : code[n] \in MInst
  OBVIOUS
<1>2. \A n \in 1 .. l : code[n].dst \in Reg
  BY <1>1 DEF IsMove, MInst, Writing
<1>3. av \in [0 .. l -> SUBSET Reg]
  <2>1. \A n \in 0 .. l : \A i \in 1 .. n : i \in 1 .. l
    BY <1>1
  <2> QED
    BY <1>2, <2>1
<1>4. ASSUME NEW n \in 1 .. l
      PROVE  Readable(code[n], av[n - 1]) /\ av[n] \subseteq Kept(code[n], av[n - 1]) \cup Gained(code, n)
  <2>1. n \in 0 .. l /\ n - 1 \in 0 .. l
    BY <1>1
  <2>2. /\ av[n] = S \cup {code[i].dst : i \in 1 .. n}
        /\ av[n - 1] = S \cup {code[i].dst : i \in 1 .. (n - 1)}
    BY <2>1
  <2>3. \A i \in 1 .. n : i \in 1 .. (n - 1) \/ i = n
    BY <1>1
  <2>4. Gained(code, n) = {code[n].dst}
    BY DEF Gained, IsMove, Writing
  <2>5. Kept(code[n], av[n - 1]) = av[n - 1]
    BY DEF Kept, IsMove
  <2>6. Readable(code[n], av[n - 1])
    BY <2>2 DEF Readable
  <2>7. {code[i].dst : i \in 1 .. n} \subseteq {code[i].dst : i \in 1 .. (n - 1)} \cup {code[n].dst}
    BY <2>3
  <2> HIDE DEF av
  <2>8. av[n] \subseteq Kept(code[n], av[n - 1]) \cup Gained(code, n)
    BY <2>2, <2>4, <2>5, <2>7
  <2> QED
    BY <2>6, <2>8
<1>5. av[0] = S /\ av[l] = S \cup {code[n].dst : n \in 1 .. l}
  <2>1. 0 \in 0 .. l /\ l \in 0 .. l /\ 1 .. 0 = {}
    BY <1>1
  <2> QED
    BY <2>1
<1> HIDE DEF av
<1>6. Follows(av, code)
  BY <1>3, <1>4 DEF Follows
<1> QED
  BY <1>5, <1>6 DEF Leads

LEMMA ReadableOnes ==
  ASSUME NEW A
  PROVE  /\ \A x, l : x.src = <<l>> /\ l \in Const \cup A => Readable(x, A)
         /\ \A x, l, r : x.src = <<l, r>> /\ {l, r} \subseteq Const \cup A => Readable(x, A)
         /\ \A x, l, m, r : x.src = <<l, m, r>> /\ {l, m, r} \subseteq Const \cup A => Readable(x, A)
<1>1. ASSUME NEW x, NEW l, x.src = <<l>>, l \in Const \cup A PROVE Readable(x, A)
  <2>1. DOMAIN <<l>> = 1 .. 1 /\ <<l>>[1] = l
    OBVIOUS
  <2> QED
    BY <1>1, <2>1 DEF Readable
<1>2. ASSUME NEW x, NEW l, NEW r, x.src = <<l, r>>, {l, r} \subseteq Const \cup A PROVE Readable(x, A)
  <2>1. DOMAIN <<l, r>> = 1 .. 2 /\ <<l, r>>[1] = l /\ <<l, r>>[2] = r
    OBVIOUS
  <2>2. \A i \in 1 .. 2 : i = 1 \/ i = 2
    OBVIOUS
  <2> QED
    BY <1>2, <2>1, <2>2 DEF Readable
<1>3. ASSUME NEW x, NEW l, NEW m, NEW r, x.src = <<l, m, r>>, {l, m, r} \subseteq Const \cup A
      PROVE  Readable(x, A)
  <2>1. DOMAIN <<l, m, r>> = 1 .. 3 /\ <<l, m, r>>[1] = l /\ <<l, m, r>>[2] = m /\ <<l, m, r>>[3] = r
    OBVIOUS
  <2>2. \A i \in 1 .. 3 : i = 1 \/ i = 2 \/ i = 3
    OBVIOUS
  <2> QED
    BY <1>3, <2>1, <2>2 DEF Readable
<1> QED
  BY <1>1, <1>2, <1>3

LEMMA LeadsBoolean ==
  ASSUME NEW S, S \subseteq Reg, NEW c \in Comparisons, NEW d \in Reg,
         NEW o \in Const \cup S, NEW e \in Const \cup S
  PROVE  /\ Boolean(c, d, o, e) \in Seq(Inner)
         /\ Leads(S, Boolean(c, d, o, e), S \cup {d})
<1> DEFINE code == Boolean(c, d, o, e)
           av == [n \in 0 .. 3 |-> IF n = 3 THEN S \cup {d} ELSE S]
<1>1. Opposite(c) \in Comparisons
  BY DEF Opposite, Comparisons
<1>2. Zero \in Const /\ One \in Const
  BY OperandAssumption
<1>3. Cmp(o, e) \in Inner
  BY DEF Cmp, MI, Inner, MInst, Writing, Arith, Exiting, Condition
<1>4. MvIf(c, d, One) \in Inner /\ MvIf(Opposite(c), d, Zero) \in Inner
  BY <1>1, <1>2 DEF MvIf, MI, Inner, MInst, Writing, Arith, Exiting, Condition
<1>5. /\ Len(code) = 3 /\ code[1] = Cmp(o, e) /\ code[2] = MvIf(c, d, One)
      /\ code[3] = MvIf(Opposite(c), d, Zero) /\ DOMAIN code = 1 .. 3
  BY DEF Boolean
<1>6. code \in Seq(Inner)
  BY <1>3, <1>4 DEF Boolean
<1>7. av \in [0 .. 3 -> SUBSET Reg] /\ av[0] = S /\ av[1] = S /\ av[2] = S /\ av[3] = S \cup {d}
  OBVIOUS
<1> HIDE DEF av, code
<1>8. Fills(code, 3)
  <2>1. 3 - 1 \in DOMAIN code /\ 3 - 1 = 2
    BY <1>5
  <2> QED
    BY <1>5, <2>1 DEF Fills, MvIf, MI
<1>9. ASSUME NEW n \in 1 .. 3
      PROVE  Readable(code[n], av[n - 1]) /\ av[n] \subseteq Kept(code[n], av[n - 1]) \cup Gained(code, n)
  <2>1. CASE n = 1
    <3>1. n - 1 = 0
      BY <2>1
    <3>2. Readable(code[1], S) /\ Kept(code[1], S) = S
      BY <1>5, ReadableOnes DEF Kept, Cmp, MI
    <3> QED
      BY <1>7, <2>1, <3>1, <3>2
  <2>2. CASE n = 2
    <3>1. n - 1 = 1
      BY <2>2
    <3>2. Readable(code[2], S) /\ Kept(code[2], S) = S
      BY <1>2, <1>5, ReadableOnes DEF Kept, MvIf, MI
    <3> QED
      BY <1>7, <2>2, <3>1, <3>2
  <2>3. CASE n = 3
    <3>1. n - 1 = 2
      BY <2>3
    <3>2. Gained(code, 3) = {d}
      BY <1>5, <1>8 DEF Gained, MvIf, MI, Writing
    <3>3. Readable(code[3], S) /\ Kept(code[3], S) = S
      BY <1>2, <1>5, ReadableOnes DEF Kept, MvIf, MI
    <3> QED
      BY <1>7, <2>3, <3>1, <3>2, <3>3
  <2> QED
    BY <2>1, <2>2, <2>3
<1>10. Follows(av, code)
  BY <1>5, <1>7, <1>9 DEF Follows
<1>11. Leads(S, code, S \cup {d})
  BY <1>5, <1>7, <1>10 DEF Leads
<1> QED
  BY <1>6, <1>11 DEF code

\* What is put together piece by piece.
Closed(V) ==
  <<>> \in V /\ (\A v, w \in V : v \o w \in V) /\ \A v \in V : <<>> \o v = v

Flattens(g, V, n, seqs) ==
  /\ g \in [0 .. n -> V] /\ g[0] = <<>> /\ g[n] = FlattenSeq(seqs)
  /\ \A j \in 1 .. n : g[j] = g[j - 1] \o seqs[j]

LEMMA SeqClosed == \A A : Closed(Seq(A))
  BY DEF Closed

LEMMA Flattening ==
  ASSUME NEW V, Closed(V), NEW n \in Nat, NEW seqs \in [1 .. n -> V]
  PROVE  \E g : Flattens(g, V, n, seqs)
<1>1. PICK step \in [V \X (1 .. n) -> V] : \A v \in V, j \in 1 .. n : step[<<v, j>>] = v \o seqs[j]
  <2> DEFINE f == [x \in V \X (1 .. n) |-> x[1] \o seqs[x[2]]]
  <2>1. \A v \in V, j \in 1 .. n : f[<<v, j>>] = v \o seqs[j]
    OBVIOUS
  <2>2. \A v \in V, j \in 1 .. n : v \o seqs[j] \in V
    BY DEF Closed
  <2>3. f \in [V \X (1 .. n) -> V]
    BY <2>2
  <2> HIDE DEF f
  <2> QED
    BY <2>1, <2>3
<1>e. PICK e \in V : e = <<>>
  BY DEF Closed
<1>2. PICK g : /\ g \in [0 .. n -> V] /\ g[0] = e
               /\ \A j \in 1 .. n : g[j] = step[<<g[j - 1], j>>]
  <2>1. PICK g : IsRun(g, n, V, e, step)
    BY RunExists
  <2> QED
    BY <2>1 DEF IsRun
<1>3. ASSUME NEW j \in 1 .. n PROVE g[j] = g[j - 1] \o seqs[j]
  <2>1. g[j - 1] \in V
    BY <1>2
  <2> QED
    BY <1>1, <1>2, <2>1
<1>4. Len(seqs) = n /\ (seqs = <<>> <=> n = 0)
  OBVIOUS
<1>5. CASE n = 0
  <2>1. FlattenSeq(seqs) = <<>>
    BY <1>4, <1>5 DEF FlattenSeq
  <2> QED
    BY <1>e, <1>2, <1>3, <1>5, <2>1 DEF Flattens
<1>6. CASE n # 0
  <2> DEFINE f == [i \in 1 .. n |-> g[i]]
             Is(h) == h = [i \in 1 .. n |-> IF i = 1 THEN seqs[i] ELSE h[i - 1] \o seqs[i]]
             flatten == CHOOSE h : Is(h)
  <2>1. \A i \in 1 .. n : f[i] = (IF i = 1 THEN seqs[i] ELSE f[i - 1] \o seqs[i])
    <3>1. \A i \in 1 .. n : i # 1 => i - 1 \in 1 .. n
      OBVIOUS
    <3>2. g[1] = seqs[1]
      <4>1. 1 \in 1 .. n /\ 1 - 1 = 0
        BY <1>6
      <4>2. g[1] = g[0] \o seqs[1] /\ seqs[1] \in V
        BY <1>3, <4>1
      <4> QED
        BY <1>e, <1>2, <4>2 DEF Closed
    <3> QED
      BY <1>3, <3>1, <3>2
  <2>2. Is(f)
    BY <2>1
  <2>3. Is(flatten)
    BY <2>2
  <2>4. FlattenSeq(seqs) = flatten[n]
    BY <1>4, <1>6 DEF FlattenSeq
  <2>5. \A i \in 1 .. n : flatten[i] = (IF i = 1 THEN seqs[i] ELSE flatten[i - 1] \o seqs[i])
    BY <2>3
  <2> HIDE DEF flatten
  <2> DEFINE T == {i \in 0 .. n : i = 0 \/ flatten[i] = g[i]}
  <2>6. 0 \in T
    OBVIOUS
  <2>7. ASSUME NEW i \in 1 .. n, i - 1 \in T PROVE i \in T
    <3>1. f[i] = g[i]
      OBVIOUS
    <3> HIDE DEF f
    <3>2. CASE i = 1
      <4>1. flatten[i] = g[i]
        BY <2>1, <2>5, <3>1, <3>2
      <4> QED
        BY <4>1
    <3>3. CASE i # 1
      <4>1. flatten[i - 1] = g[i - 1]
        BY <2>7, <3>3
      <4>2. flatten[i] = g[i]
        BY <1>3, <2>5, <3>3, <4>1
      <4> QED
        BY <4>2
    <3> QED
      BY <3>2, <3>3
  <2> HIDE DEF T
  <2>8. n \in T
    BY <2>6, <2>7, Counting DEF Steps
  <2>9. FlattenSeq(seqs) = g[n]
    BY <1>6, <2>4, <2>8 DEF T
  <2> QED
    BY <1>e, <1>2, <1>3, <2>9 DEF Flattens
<1> QED
  BY <1>5, <1>6

LEMMA FlattenType ==
  ASSUME NEW A, NEW n \in Nat, NEW seqs \in [1 .. n -> Seq(A)]
  PROVE  FlattenSeq(seqs) \in Seq(A)
<1>1. Closed(Seq(A))
  BY SeqClosed
<1>2. PICK g : Flattens(g, Seq(A), n, seqs)
  BY <1>1, Flattening
<1> QED
  BY <1>2 DEF Flattens

\* Each piece gains G[j], from S; none is a call.
LEMMA LeadsFlatten ==
  ASSUME NEW P, P \subseteq MInst, \A x \in P : x.op # "call",
         NEW n \in Nat, NEW seqs \in [1 .. n -> Seq(P)], NEW S, S \subseteq Reg,
         NEW G \in [1 .. n -> SUBSET Reg],
         \A j \in 1 .. n : Leads(S, seqs[j], S \cup G[j]),
         NEW Z, \A r \in Z : r \in S \/ \E j \in 1 .. n : r \in G[j]
  PROVE  Leads(S, FlattenSeq(seqs), Z)
<1> DEFINE V == Seq(P)
           Upto(j) == S \cup UNION {G[i] : i \in 1 .. j}
<1>1. Closed(V)
  BY SeqClosed
<1>2. V \subseteq Seq(MInst) /\ \A v \in V : \A i \in 1 .. Len(v) : v[i].op # "call"
  <2>1. V \subseteq Seq(MInst)
    BY SeqMonotonic
  <2> QED
    BY <2>1
<1> HIDE DEF V
<1>3. PICK g : Flattens(g, V, n, seqs)
  BY <1>1, Flattening DEF V
<1>a. /\ g \in [0 .. n -> V] /\ g[0] = <<>> /\ g[n] = FlattenSeq(seqs)
      /\ \A j \in 1 .. n : g[j] = g[j - 1] \o seqs[j]
  BY <1>3 DEF Flattens
<1> DEFINE T == {j \in 0 .. n : Leads(S, g[j], Upto(j))}
<1>4. 0 \in T
  <2>1. Upto(0) = S
    <3>1. 1 .. 0 = {}
      OBVIOUS
    <3> QED
      BY <3>1
  <2> HIDE DEF Upto
  <2> QED
    BY <1>a, <2>1, LeadsEmpty
<1>5. ASSUME NEW j \in 1 .. n, j - 1 \in T PROVE j \in T
  <2> DEFINE U == Upto(j - 1)
  <2>1. Leads(S, g[j - 1], U) /\ j - 1 \in 0 .. n
    BY <1>5
  <2>2. \A i \in 1 .. (j - 1) : i \in 1 .. n
    OBVIOUS
  <2>3. U \subseteq Reg /\ S \subseteq U
    BY <2>2
  <2>4. \A i \in 1 .. j : i \in 1 .. (j - 1) \/ i = j
    OBVIOUS
  <2>5. Upto(j) \subseteq (S \cup G[j]) \cup U
    BY <2>4
  <2>6. seqs[j] \in V /\ g[j - 1] \in V
    BY <1>a, <2>1 DEF V
  <2> HIDE DEF U, Upto, T
  <2>7. Leads(S \cup U, seqs[j], (S \cup G[j]) \cup U)
    <3>1. \A i \in 1 .. Len(seqs[j]) : seqs[j][i].op # "call"
      BY <1>2, <2>6
    <3> QED
      BY <2>3, <3>1, LeadsFrame
  <2>8. Leads(U, seqs[j], Upto(j))
    <3>1. S \cup U = U
      BY <2>3
    <3> QED
      BY <2>5, <2>7, <3>1, LeadsWeaker
  <2>9. Leads(S, g[j - 1] \o seqs[j], Upto(j))
    BY <1>2, <2>1, <2>6, <2>8, LeadsThen
  <2>10. g[j] = g[j - 1] \o seqs[j]
    BY <1>a
  <2>11. j \in 0 .. n
    BY <1>5
  <2> QED
    BY <2>9, <2>10, <2>11 DEF T
<1> HIDE DEF T
<1>6. n \in T
  BY <1>4, <1>5, Counting DEF Steps
<1>7. Z \subseteq Upto(n)
  OBVIOUS
<1> HIDE DEF Upto
<1>8. Leads(S, FlattenSeq(seqs), Upto(n)) /\ S \subseteq S
  BY <1>a, <1>6 DEF T
<1> QED
  BY <1>7, <1>8, LeadsWeaker

LEMMA SetToSeqIs ==
  ASSUME NEW A, IsFiniteSet(A)
  PROVE  /\ SetToSeq(A) \in Seq(A)
         /\ \A x \in A : \E n \in 1 .. Len(SetToSeq(A)) : SetToSeq(A)[n] = x
<1> DEFINE n == Cardinality(A)
           g == SetToSeq(A)
<1>1. n \in Nat /\ ExistsBijection(1 .. n, A)
  BY FS_CardinalityType
<1>2. PICK f \in [1 .. n -> A] : IsInjective(f)
  BY <1>1 DEF ExistsBijection, Bijection, Injection
<1>3. g \in [1 .. n -> A] /\ IsInjective(g)
  BY <1>2 DEF SetToSeq
<1>4. g \in Injection(1 .. n, A)
  BY <1>3 DEF Injection
<1>5. Cardinality(1 .. n) = n
  BY <1>1, FS_Interval
<1> HIDE DEF n, g
<1>6. g \in Surjection(1 .. n, A)
  BY <1>4, <1>5, FS_Injection DEF n
<1>7. g \in Seq(A) /\ Len(g) = n
  BY <1>1, <1>3
<1> QED
  BY <1>6, <1>7 DEF g, Surjection

-----------------------------------------------------------------------------
(* One step of the machine.                                                *)

\* The state of the machine within a block.
Machine(s) ==
  /\ s = [regs |-> s.regs, flags |-> s.flags, saw |-> s.saw, to |-> s.to, undefined |-> s.undefined]
  /\ s.regs = [r \in DOMAIN s.regs |-> s.regs[r]] /\ DOMAIN s.regs \subseteq Reg
  /\ \A r \in DOMAIN s.regs : s.regs[r] \in Value
  /\ s.flags \in Value \X Value /\ s.to \in Block \cup {0, -1} /\ s.undefined \in BOOLEAN

\* What follows when registers R have values and no instruction has left the block.
Stepped(s, x, z) ==
  /\ z.undefined = s.undefined
  /\ Kept(x, DOMAIN s.regs) \subseteq DOMAIN z.regs
  /\ x.op \in Writing /\ Holds(x.cond, s.flags[1], s.flags[2]) => x.dst \in DOMAIN z.regs
  /\ x.op # "cmp" => z.flags = s.flags
  /\ z.to = (IF x.op \in Exiting /\ Holds(x.cond, s.flags[1], s.flags[2])
             THEN (IF x.op = "return" THEN 0 ELSE x.to) ELSE -1)

LEMMA ValueFacts ==
  /\ Value \subseteq Nat /\ 0 \in Value /\ 1 \in Value /\ Modulus \in Nat /\ Modulus > 1
  /\ \A i \in Int : i % Modulus \in Value
  /\ \A c \in Const : Imm[c] \in Value
<1>1. Modulus \in Nat \ {0, 1}
  BY SizeAssumption
<1>2. \A i \in Int : i % Modulus \in Value
  BY <1>1 DEF Value
<1>3. \A c \in Const : Imm[c] \in Value
  BY OperandAssumption
<1> QED
  BY <1>1, <1>2, <1>3 DEF Value

LEMMA EvalType ==
  ASSUME NEW op \in Arith, NEW l \in Value, NEW r \in Value
  PROVE  Eval(op, l, r) \in Value
<1>1. l \in Nat /\ r \in Nat /\ l + r \in Int /\ l - r \in Int /\ l * r \in Int
  BY ValueFacts
<1>2. r # 0 => l \div r \in Value
  <2> SUFFICES ASSUME r # 0 PROVE l \div r \in Value
    OBVIOUS
  <2>1. l \div r \in Nat /\ l \div r <= l
    BY <1>1
  <2> QED
    BY <1>1, <2>1, ValueFacts DEF Value
<1> QED
  BY <1>1, <1>2, ValueFacts DEF Eval, Arith

LEMMA EvalProduct ==
  ASSUME NEW op \in {"mla", "mls"}, NEW l \in Value, NEW i \in Value, NEW j \in Value
  PROVE  Eval(op, l, i * j) \in Value
<1>1. l \in Nat /\ i \in Nat /\ j \in Nat
  BY ValueFacts
<1> DEFINE m == i * j
<1>2. m \in Nat
  BY <1>1
<1> HIDE DEF m
<1>3. l + m \in Int /\ l - m \in Int
  BY <1>1, <1>2
<1>4. Eval(op, l, m) \in Value
  BY <1>3, ValueFacts DEF Eval
<1> QED
  BY <1>4 DEF m

\* The sum modulo Modulus of what an unknown function is given.
LEMMA ResultType ==
  ASSUME NEW n \in Nat, NEW vals \in [1 .. n -> Value]
  PROVE  Result(vals) \in Value
<1> DEFINE step == [x \in Value \X (1 .. n) |-> (x[1] + vals[x[2]]) % Modulus]
<1>1. ASSUME NEW v \in Value, NEW j \in 1 .. n PROVE (v + vals[j]) % Modulus \in Value
  <2>1. v \in Nat /\ vals[j] \in Nat
    BY ValueFacts
  <2>2. v + vals[j] \in Int
    BY <2>1
  <2> QED
    BY <2>2, ValueFacts
<1>2. step \in [Value \X (1 .. n) -> Value]
  BY <1>1
<1>3. \A v \in Value, j \in 1 .. n : step[<<v, j>>] = (v + vals[j]) % Modulus
  OBVIOUS
<1>4. 1 \in Value
  BY ValueFacts
<1>5. Len(vals) = n
  OBVIOUS
<1> HIDE DEF step
<1>6. PICK g : IsRun(g, n, Value, 1, step)
  BY <1>2, <1>4, RunExists
<1>7. /\ g \in [0 .. n -> Value] /\ g[0] = 1
      /\ \A j \in 1 .. n : g[j] = (g[j - 1] + vals[j]) % Modulus
  <2>1. g \in [0 .. n -> Value] /\ g[0] = 1 /\ \A j \in 1 .. n : g[j] = step[<<g[j - 1], j>>]
    BY <1>6 DEF IsRun
  <2>2. \A j \in 1 .. n : g[j - 1] \in Value
    BY <2>1
  <2> QED
    BY <1>3, <2>1, <2>2
<1> DEFINE Is(h) == h = [i \in 0 .. n |-> IF i = 0 THEN 1 ELSE (h[i - 1] + vals[i]) % Modulus]
           sum == CHOOSE h : Is(h)
<1>8. Is(g)
  <2>1. \A i \in 0 .. n : g[i] = (IF i = 0 THEN 1 ELSE (g[i - 1] + vals[i]) % Modulus)
    BY <1>7
  <2> QED
    BY <1>7, <2>1
<1>9. Is(sum)
  BY <1>8
<1>10. Result(vals) = sum[n]
  BY <1>5 DEF Result
<1>11. \A i \in 0 .. n : sum[i] = (IF i = 0 THEN 1 ELSE (sum[i - 1] + vals[i]) % Modulus)
  BY <1>9
<1> HIDE DEF sum
<1> DEFINE T == {i \in 0 .. n : sum[i] \in Value}
<1>12. 0 \in T
  BY <1>4, <1>11
<1>13. ASSUME NEW j \in 1 .. n, j - 1 \in T PROVE j \in T
  <2>1. sum[j - 1] \in Value /\ sum[j] = (sum[j - 1] + vals[j]) % Modulus
    BY <1>11, <1>13
  <2>2. sum[j] \in Value
    BY <1>1, <2>1
  <2> QED
    BY <2>2
<1> HIDE DEF T
<1>14. n \in T
  BY <1>12, <1>13, Counting DEF Steps
<1> QED
  BY <1>10, <1>14 DEF T

LEMMA MachineSet ==
  ASSUME NEW s, Machine(s), NEW d \in Reg, NEW v \in Value
  PROVE  LET z == [s EXCEPT !.regs = [r \in DOMAIN s.regs \cup {d} |-> IF r = d THEN v ELSE s.regs[r]]]
         IN  /\ Machine(z) /\ DOMAIN z.regs = DOMAIN s.regs \cup {d} /\ z.flags = s.flags
             /\ z.to = s.to /\ z.undefined = s.undefined
<1> DEFINE R == s.regs
           fl == s.flags
           sw == s.saw
           t == s.to
           u == s.undefined
<1>1. /\ s = [regs |-> R, flags |-> fl, saw |-> sw, to |-> t, undefined |-> u]
      /\ R = [r \in DOMAIN R |-> R[r]] /\ DOMAIN R \subseteq Reg /\ \A r \in DOMAIN R : R[r] \in Value
      /\ fl \in Value \X Value /\ t \in Block \cup {0, -1} /\ u \in BOOLEAN
  BY DEF Machine
<1> DEFINE R2 == [r \in DOMAIN R \cup {d} |-> IF r = d THEN v ELSE R[r]]
           z == [regs |-> R2, flags |-> fl, saw |-> sw, to |-> t, undefined |-> u]
<1>2. [s EXCEPT !.regs = [r \in DOMAIN s.regs \cup {d} |-> IF r = d THEN v ELSE s.regs[r]]] = z
  BY <1>1
<1>3. /\ R2 = [r \in DOMAIN R2 |-> R2[r]] /\ DOMAIN R2 = DOMAIN R \cup {d}
      /\ \A r \in DOMAIN R2 : R2[r] \in Value
  BY <1>1
<1> HIDE DEF R2
<1>4. Machine(z)
  BY <1>1, <1>3 DEF Machine
<1> QED
  BY <1>1, <1>2, <1>3, <1>4

LEMMA StepFrozen ==
  ASSUME NEW s, NEW x, s.to # -1
  PROVE  MachineStep(s, x) = s
BY DEF MachineStep

LEMMA SlotFacts ==
  /\ SlotsOf(Nat) = Slot /\ Slot \subseteq Reg /\ Slots[1] \in Slot
  /\ \A i \in DOMAIN Slots : Slots[i] \in Slot
  /\ DOMAIN Slots = 1 .. Len(Slots) /\ Len(Slots) \in Nat \ {0}
<1>1. Slots \in Seq(Slot) /\ Len(Slots) > 0
  BY SlotAssumption
<1>2. DOMAIN Slots = 1 .. Len(Slots) /\ Len(Slots) \in Nat \ {0}
  BY <1>1
<1>3. \A i \in DOMAIN Slots : Slots[i] \in Slot
  BY DEF Slot
<1>4. DOMAIN Slots \cap Nat = DOMAIN Slots /\ 1 \in DOMAIN Slots
  BY <1>2
<1> QED
  BY <1>2, <1>3, <1>4 DEF SlotsOf, Slot, Reg

LEMMA MachineUndefined ==
  ASSUME NEW s, Machine(s)
  PROVE  Machine([s EXCEPT !.undefined = TRUE])
<1> DEFINE R == s.regs
           fl == s.flags
           sw == s.saw
           t == s.to
           u == s.undefined
<1>1. /\ s = [regs |-> R, flags |-> fl, saw |-> sw, to |-> t, undefined |-> u]
      /\ R = [r \in DOMAIN R |-> R[r]] /\ DOMAIN R \subseteq Reg /\ \A r \in DOMAIN R : R[r] \in Value
      /\ fl \in Value \X Value /\ t \in Block \cup {0, -1} /\ u \in BOOLEAN
  BY DEF Machine
<1>2. PICK w \in BOOLEAN : w = TRUE
  OBVIOUS
<1> DEFINE z == [regs |-> R, flags |-> fl, saw |-> sw, to |-> t, undefined |-> w]
<1>3. [s EXCEPT !.undefined = w] = z
  BY <1>1
<1>4. Machine(z)
  BY <1>1 DEF Machine
<1>5. [s EXCEPT !.undefined = TRUE] = [s EXCEPT !.undefined = w]
  BY <1>2, Zenon
<1> QED
  BY <1>3, <1>4, <1>5

LEMMA StepHolds ==
  ASSUME NEW s, Machine(s), s.to = -1, NEW x \in MInst, args \in [Param -> Value]
  PROVE  /\ Machine(MachineStep(s, x))
         /\ Readable(x, DOMAIN s.regs) => Stepped(s, x, MachineStep(s, x))
<1> DEFINE R == s.regs
           fl == s.flags
           sw == s.saw
           t == s.to
           u == s.undefined
<1>1. /\ s = [regs |-> R, flags |-> fl, saw |-> sw, to |-> t, undefined |-> u]
      /\ R = [r \in DOMAIN R |-> R[r]] /\ DOMAIN R \subseteq Reg /\ \A r \in DOMAIN R : R[r] \in Value
      /\ fl \in Value \X Value /\ t \in Block \cup {0, -1} /\ u \in BOOLEAN
  BY DEF Machine
<1> DEFINE val(o) == IF o \in Const THEN Imm[o] ELSE IF o \in DOMAIN s.regs THEN s.regs[o] ELSE 0
           vals == [i \in DOMAIN x.src |-> val(x.src[i])]
           set(v) == [s EXCEPT !.regs = [r \in DOMAIN s.regs \cup {x.dst} |->
                                           IF r = x.dst THEN v ELSE s.regs[r]]]
           called == [s EXCEPT !.saw = Append(@, vals),
                               !.regs = [r \in (DOMAIN s.regs \ SlotsOf(Nat)) \cup {Slots[1]} |->
                                           IF r = Slots[1] THEN Result(vals) ELSE s.regs[r]]]
           next ==
             IF ~Holds(x.cond, s.flags[1], s.flags[2]) THEN s ELSE
             CASE x.op \in {"add", "sub", "mul", "div", "and"} -> set(Eval(x.op, vals[1], vals[2]))
               [] x.op \in {"mla", "mls"} -> set(Eval(x.op, vals[3], vals[1] * vals[2]))
               [] x.op = "mv" -> set(vals[1])
               [] x.op = "load_param" -> set(args[x.dst])
               [] x.op = "cmp" -> [s EXCEPT !.flags = <<vals[1], vals[2]>>]
               [] x.op = "call" -> called
               [] x.op \in {"branch", "jump"} -> [s EXCEPT !.to = x.to]
               [] x.op = "return" -> [s EXCEPT !.to = 0, !.saw = Append(@, vals)]
           Good(z) == Machine(z) /\ Stepped(s, x, z)
<1>2. MachineStep(s, x) = IF Unwritten(s, x) THEN [next EXCEPT !.undefined = TRUE] ELSE next
  BY DEF MachineStep
<1>3. \A o : val(o) \in Value
  BY <1>1, ValueFacts
<1>4. x.src \in Seq(Reg \cup Const) /\ x.op \in Writing \cup Exiting \cup {"cmp", "call"}
      /\ x.to \in Block \cup {0} /\ x.cond \in Condition
  BY DEF MInst
<1>5. PICK n \in Nat : DOMAIN x.src = 1 .. n /\ n = Len(x.src)
  BY <1>4
<1>6. vals \in [1 .. n -> Value]
  BY <1>3, <1>5
<1>7. ASSUME x.op \in Writing, NEW v \in Value PROVE Good(set(v))
  <2>1. x.dst \in Reg
    BY <1>7 DEF MInst
  <2>2. /\ Machine(set(v)) /\ DOMAIN set(v).regs = DOMAIN s.regs \cup {x.dst} /\ set(v).flags = s.flags
        /\ set(v).to = s.to /\ set(v).undefined = s.undefined
    BY <1>7, <2>1, MachineSet
  <2> HIDE DEF set
  <2>3. x.op \notin Exiting /\ x.op # "call"
    BY <1>7 DEF Writing, Exiting, Arith
  <2> QED
    BY <2>2, <2>3 DEF Stepped, Kept
<1>8. Good([s EXCEPT !.flags = <<vals[1], vals[2]>>]) \/ x.op # "cmp"
  <2> SUFFICES ASSUME x.op = "cmp" PROVE Good([s EXCEPT !.flags = <<vals[1], vals[2]>>])
    OBVIOUS
  <2> DEFINE f2 == <<vals[1], vals[2]>>
             z == [regs |-> R, flags |-> f2, saw |-> sw, to |-> t, undefined |-> u]
  <2>1. n = 2
    BY <1>5 DEF MInst
  <2>2. f2 \in Value \X Value
    BY <1>6, <2>1
  <2>3. [s EXCEPT !.flags = f2] = z
    BY <1>1
  <2> HIDE DEF f2
  <2>4. Machine(z)
    BY <1>1, <2>2 DEF Machine
  <2>5. Stepped(s, x, z)
    BY <1>1 DEF Stepped, Kept, Writing, Exiting, Arith
  <2> QED
    BY <2>3, <2>4, <2>5 DEF f2
<1>9. Good(called) \/ x.op # "call"
  <2> SUFFICES ASSUME x.op = "call" PROVE Good(called)
    OBVIOUS
  <2> DEFINE A == (DOMAIN R \ Slot) \cup {Slots[1]}
             R2 == [r \in A |-> IF r = Slots[1] THEN Result(vals) ELSE R[r]]
             z == [regs |-> R2, flags |-> fl, saw |-> Append(sw, vals), to |-> t, undefined |-> u]
  <2>0. R2 = [r \in (DOMAIN s.regs \ SlotsOf(Nat)) \cup {Slots[1]} |->
                IF r = Slots[1] THEN Result(vals) ELSE s.regs[r]]
    BY <1>1, SlotFacts
  <2>1. called = z
    <3>1. called = [s EXCEPT !.saw = Append(@, vals), !.regs = R2]
      BY <2>0, Zenon
    <3> DEFINE w == Append(s.saw, vals)
    <3> HIDE DEF R2, called, vals, w
    <3> DEFINE y == [regs |-> R, flags |-> fl, saw |-> w, to |-> t, undefined |-> u]
    <3>a. [s EXCEPT !.saw = w] = y
      BY <1>1
    <3>b. [y EXCEPT !.regs = R2] = z
      <4> HIDE DEF R, fl, sw, t, u
      <4>1. [y EXCEPT !.regs = R2] = [regs |-> R2, flags |-> fl, saw |-> w, to |-> t, undefined |-> u]
        OBVIOUS
      <4> QED
        BY <4>1 DEF w, sw
    <3>c. [s EXCEPT !.saw = w, !.regs = R2] = [[s EXCEPT !.saw = w] EXCEPT !.regs = R2]
      BY Zenon
    <3>3. [s EXCEPT !.saw = w, !.regs = R2] = [regs |-> R2, flags |-> fl, saw |-> w, to |-> t, undefined |-> u]
      BY <3>a, <3>b, <3>c DEF w
    <3>2. [s EXCEPT !.saw = Append(@, vals), !.regs = R2] = z
      BY <3>3 DEF w
    <3> QED
      BY <3>1, <3>2
  <2>2. Result(vals) \in Value
    BY <1>6, ResultType
  <2> HIDE DEF vals
  <2>3. /\ R2 = [r \in DOMAIN R2 |-> R2[r]] /\ DOMAIN R2 = A /\ A \subseteq Reg
        /\ \A r \in DOMAIN R2 : R2[r] \in Value
    BY <1>1, <2>2, SlotFacts
  <2> HIDE DEF R2, A
  <2>4. Machine(z)
    BY <1>1, <2>3 DEF Machine
  <2>5. Kept(x, DOMAIN s.regs) \subseteq DOMAIN z.regs
    BY <1>1, <2>3 DEF Kept, A
  <2>6. Stepped(s, x, z)
    BY <1>1, <2>5 DEF Stepped, Writing, Exiting, Arith
  <2> QED
    BY <2>1, <2>4, <2>6
<1>10. ASSUME NEW w, NEW to \in Block \cup {0}, x.op \in Exiting,
              to = IF x.op = "return" THEN 0 ELSE x.to,
              Holds(x.cond, s.flags[1], s.flags[2])
       PROVE  Good([regs |-> R, flags |-> fl, saw |-> w, to |-> to, undefined |-> u])
  <2> DEFINE z == [regs |-> R, flags |-> fl, saw |-> w, to |-> to, undefined |-> u]
  <2>1. Machine(z)
    BY <1>1, <1>10 DEF Machine
  <2>2. Stepped(s, x, z)
    BY <1>1, <1>10 DEF Stepped, Kept, Writing, Exiting, Arith
  <2> QED
    BY <2>1, <2>2
<1>11. Good(s) \/ Holds(x.cond, s.flags[1], s.flags[2])
  <2> SUFFICES ASSUME ~Holds(x.cond, s.flags[1], s.flags[2]) PROVE Good(s)
    OBVIOUS
  <2>1. x.op # "call"
    BY DEF MInst, Holds
  <2> QED
    BY <1>1, <2>1 DEF Stepped, Kept
<1> HIDE DEF val, set, Good, called
<1>12. Good(next)
  <2>1. CASE ~Holds(x.cond, s.flags[1], s.flags[2])
    <3>1. next = s
      BY <2>1
    <3> HIDE DEF next
    <3> QED
      BY <1>11, <2>1, <3>1
  <2>2. CASE Holds(x.cond, s.flags[1], s.flags[2]) /\ x.op \in Arith
    <3>1. Len(x.src) = 2
      BY <2>2 DEF MInst
    <3>2. vals[1] \in Value /\ vals[2] \in Value
      BY <1>5, <1>6, <3>1
    <3>3. Eval(x.op, vals[1], vals[2]) \in Value
      BY <2>2, <3>2, EvalType
    <3>4. next = set(Eval(x.op, vals[1], vals[2]))
      BY <2>2 DEF Arith
    <3> QED
      BY <1>7, <2>2, <3>3, <3>4 DEF Writing
  <2>3. CASE Holds(x.cond, s.flags[1], s.flags[2]) /\ x.op \in {"mla", "mls"}
    <3>1. Len(x.src) = 3
      BY <2>3 DEF MInst
    <3>2. vals[1] \in Value /\ vals[2] \in Value /\ vals[3] \in Value
      BY <1>5, <1>6, <3>1
    <3>3. Eval(x.op, vals[3], vals[1] * vals[2]) \in Value
      BY <2>3, <3>2, EvalProduct
    <3>4. next = set(Eval(x.op, vals[3], vals[1] * vals[2]))
      BY <2>3
    <3> QED
      BY <1>7, <2>3, <3>3, <3>4 DEF Writing
  <2>4. CASE Holds(x.cond, s.flags[1], s.flags[2]) /\ x.op = "mv"
    <3>1. Len(x.src) = 1
      BY <2>4 DEF MInst
    <3>2. vals[1] \in Value
      BY <1>5, <1>6, <3>1
    <3>3. next = set(vals[1])
      BY <2>4
    <3> QED
      BY <1>7, <2>4, <3>2, <3>3 DEF Writing
  <2>5. CASE Holds(x.cond, s.flags[1], s.flags[2]) /\ x.op = "load_param"
    <3>1. args[x.dst] \in Value
      BY <2>5 DEF MInst
    <3>2. next = set(args[x.dst])
      BY <2>5
    <3> QED
      BY <1>7, <2>5, <3>1, <3>2 DEF Writing
  <2>6. CASE Holds(x.cond, s.flags[1], s.flags[2]) /\ x.op = "cmp"
    <3>1. next = [s EXCEPT !.flags = <<vals[1], vals[2]>>]
      BY <2>6
    <3> QED
      BY <1>8, <2>6, <3>1
  <2>7. CASE Holds(x.cond, s.flags[1], s.flags[2]) /\ x.op = "call"
    <3>1. next = called
      BY <2>7
    <3> QED
      BY <1>9, <2>7, <3>1
  <2>8. CASE Holds(x.cond, s.flags[1], s.flags[2]) /\ x.op \in {"branch", "jump"}
    <3>1. next = [s EXCEPT !.to = x.to]
      BY <2>8
    <3> HIDE DEF next
    <3>2. next = [regs |-> R, flags |-> fl, saw |-> sw, to |-> x.to, undefined |-> u]
      BY <1>1, <3>1
    <3> QED
      BY <1>4, <1>10, <2>8, <3>2 DEF Exiting
  <2>9. CASE Holds(x.cond, s.flags[1], s.flags[2]) /\ x.op = "return"
    <3>1. next = [s EXCEPT !.to = 0, !.saw = Append(@, vals)]
      BY <2>9
    <3> HIDE DEF next, vals
    <3>2. next = [regs |-> R, flags |-> fl, saw |-> Append(sw, vals), to |-> 0, undefined |-> u]
      BY <1>1, <3>1
    <3> QED
      BY <1>10, <2>9, <3>2 DEF Exiting
  <2> QED
    BY <1>4, <2>1, <2>2, <2>3, <2>4, <2>5, <2>6, <2>7, <2>8, <2>9 DEF Writing, Exiting
<1> HIDE DEF next
<1>13. Machine(MachineStep(s, x))
  BY <1>2, <1>12, MachineUndefined DEF Good
<1>14. Readable(x, DOMAIN s.regs) => MachineStep(s, x) = next
  BY <1>2 DEF Unwritten, Readable
<1> QED
  BY <1>12, <1>13, <1>14 DEF Good

-----------------------------------------------------------------------------
(* The run of a block.                                                     *)

IsRunOf(g, a, code) ==
  g = [i \in 0 .. Len(code) |-> IF i = 0 THEN a ELSE MachineStep(g[i - 1], code[i])]

LEMMA RunOfExists ==
  ASSUME NEW a, NEW code, Len(code) \in Nat
  PROVE  \E g : IsRunOf(g, a, code)
<1> DEFINE n == Len(code)
           Is(g, m) == g = [i \in 0 .. m |-> IF i = 0 THEN a ELSE MachineStep(g[i - 1], code[i])]
           T == {m \in 0 .. n : \E g : Is(g, m)}
<1>1. 0 \in T
  <2> DEFINE h == [i \in 0 .. 0 |-> a]
  <2>1. Is(h, 0)
    OBVIOUS
  <2> HIDE DEF Is
  <2> QED
    BY <2>1
<1>2. ASSUME NEW m \in 1 .. n, m - 1 \in T PROVE m \in T
  <2>1. PICK g : Is(g, m - 1)
    BY <1>2
  <2> DEFINE h == [i \in 0 .. m |-> IF i = m THEN MachineStep(g[m - 1], code[m]) ELSE g[i]]
  <2>2. \A i \in 0 .. (m - 1) : h[i] = g[i]
    OBVIOUS
  <2>3. \A i \in 0 .. (m - 1) : g[i] = (IF i = 0 THEN a ELSE MachineStep(g[i - 1], code[i]))
    BY <2>1
  <2>4. ASSUME NEW i \in 0 .. m
        PROVE  h[i] = (IF i = 0 THEN a ELSE MachineStep(h[i - 1], code[i]))
    <3>1. CASE i = m
      <4>1. h[i] = MachineStep(g[m - 1], code[m]) /\ m - 1 \in 0 .. (m - 1) /\ i # 0
        BY <3>1
      <4>2. h[m - 1] = g[m - 1]
        BY <2>2, <4>1
      <4> HIDE DEF h
      <4> QED
        BY <3>1, <4>1, <4>2
    <3>2. CASE i # m
      <4>1. i \in 0 .. (m - 1) /\ (i # 0 => i - 1 \in 0 .. (m - 1))
        BY <3>2
      <4>2. h[i] = g[i] /\ (i # 0 => h[i - 1] = g[i - 1])
        BY <2>2, <4>1
      <4> HIDE DEF h
      <4> QED
        BY <2>3, <4>1, <4>2
    <3> QED
      BY <3>1, <3>2
  <2>5. h = [i \in 0 .. m |-> h[i]]
    OBVIOUS
  <2> HIDE DEF h
  <2>6. Is(h, m)
    BY <2>4, <2>5
  <2> HIDE DEF Is
  <2> QED
    BY <2>6
<1> HIDE DEF T
<1>3. n \in T
  BY <1>1, <1>2, Counting DEF Steps
<1> QED
  BY <1>3 DEF T, IsRunOf

LEMMA RunFirst ==
  ASSUME NEW code, Len(code) \in Nat, NEW a, NEW g, IsRunOf(g, a, code)
  PROVE  g[0] = a /\ \A i \in 1 .. Len(code) : g[i] = MachineStep(g[i - 1], code[i])
BY DEF IsRunOf

\* Before and after a place the run is that of a part.
LEMMA RunSplit ==
  ASSUME NEW p \in Seq(MInst), NEW q \in Seq(MInst), NEW a, NEW g, IsRunOf(g, a, p \o q)
  PROVE  \E y, z : /\ IsRunOf(y, a, p) /\ IsRunOf(z, y[Len(p)], q)
                   /\ z[Len(q)] = g[Len(p \o q)]
<1> DEFINE l == Len(p)
           m == Len(q)
           pq == p \o q
           y == [i \in 0 .. l |-> g[i]]
           z == [i \in 0 .. m |-> g[l + i]]
<1>1. /\ l \in Nat /\ m \in Nat /\ Len(pq) = l + m
      /\ \A n \in 1 .. l : pq[n] = p[n]
      /\ \A n \in 1 .. m : pq[l + n] = q[n]
  OBVIOUS
<1>a. IsRunOf(g, a, pq)
  OBVIOUS
<1> HIDE DEF pq
<1>2. g[0] = a /\ \A i \in 1 .. l + m : g[i] = MachineStep(g[i - 1], pq[i])
  BY <1>1, <1>a, RunFirst
<1>3. ASSUME NEW i \in 0 .. l PROVE y[i] = IF i = 0 THEN a ELSE MachineStep(y[i - 1], p[i])
  <2>1. i # 0 => i \in 1 .. l /\ i \in 1 .. (l + m) /\ i - 1 \in 0 .. l
    BY <1>1
  <2>2. y[i] = g[i] /\ (i # 0 => y[i - 1] = g[i - 1])
    BY <2>1
  <2> HIDE DEF y
  <2> QED
    BY <1>1, <1>2, <2>1, <2>2
<1>4. ASSUME NEW i \in 0 .. m PROVE z[i] = IF i = 0 THEN y[l] ELSE MachineStep(z[i - 1], q[i])
  <2>1. i # 0 => i \in 1 .. m /\ l + i \in 1 .. (l + m) /\ i - 1 \in 0 .. m /\ l + (i - 1) = l + i - 1
    BY <1>1
  <2>2. z[i] = g[l + i] /\ (i # 0 => z[i - 1] = g[l + i - 1])
    BY <2>1
  <2>3. i = 0 => l + i = l /\ y[l] = g[l]
    BY <1>1
  <2> HIDE DEF y, z
  <2>4. i # 0 => pq[l + i] = q[i] /\ g[l + i] = MachineStep(g[l + i - 1], pq[l + i])
    BY <1>1, <1>2, <2>1
  <2> QED
    BY <2>1, <2>2, <2>3, <2>4
<1>5. y = [i \in 0 .. l |-> y[i]] /\ z = [i \in 0 .. m |-> z[i]] /\ z[m] = g[l + m]
  BY <1>1
<1> HIDE DEF y, z
<1>6. IsRunOf(y, a, p)
  BY <1>3, <1>5 DEF IsRunOf
<1>7. IsRunOf(z, y[l], q)
  BY <1>4, <1>5 DEF IsRunOf
<1> QED
  BY <1>1, <1>5, <1>6, <1>7 DEF pq

LEMMA RunMachine ==
  ASSUME NEW code \in Seq(MInst), NEW a, Machine(a), NEW g, IsRunOf(g, a, code),
         args \in [Param -> Value]
  PROVE  Machine(g[Len(code)])
<1> DEFINE n == Len(code)
           T == {i \in 0 .. n : Machine(g[i])}
<1>1. n \in Nat /\ \A i \in 1 .. n : code[i] \in MInst
  OBVIOUS
<1>2. g[0] = a /\ \A i \in 1 .. n : g[i] = MachineStep(g[i - 1], code[i])
  BY <1>1, RunFirst
<1>3. 0 \in T
  BY <1>1, <1>2
<1>4. ASSUME NEW i \in 1 .. n, i - 1 \in T PROVE i \in T
  <2>1. Machine(g[i - 1])
    BY <1>4
  <2>2. Machine(g[i])
    BY <1>1, <1>2, <2>1, StepHolds, StepFrozen
  <2> QED
    BY <2>2
<1> HIDE DEF T
<1>5. n \in T
  BY <1>1, <1>3, <1>4, Counting DEF Steps
<1> QED
  BY <1>5 DEF T

LEMMA HoldsOpposite ==
  ASSUME NEW c \in Comparisons, NEW l \in Nat, NEW r \in Nat
  PROVE  Holds(Opposite(c), l, r) <=> ~Holds(c, l, r)
<1> USE DEF Holds, Opposite, Comparisons
<1>1. CASE c = "lt"
  BY <1>1
<1>2. CASE c = "ge"
  BY <1>2
<1>3. CASE c = "gt"
  BY <1>3
<1>4. CASE c = "le"
  BY <1>4
<1>5. CASE c = "eq"
  BY <1>5
<1>6. CASE c = "ne"
  BY <1>6
<1> QED
  BY <1>1, <1>2, <1>3, <1>4, <1>5, <1>6

\* Where code can go.
Targets(code) ==
  {-1, 0} \cup {code[i].to : i \in {h \in 1 .. Len(code) : code[h].op \in {"branch", "jump"}}}

\* What the run of code has done after i instructions, when S had values before it and
\* av[i] is to have values.
Sound(s, code, i, S, av) ==
  /\ Machine(s) /\ s.undefined = FALSE
  /\ s.to = -1 => av[i] \subseteq DOMAIN s.regs
  /\ s.to = -1 /\ i # 0 =>
       (code[i].op = "mv" /\ Holds(code[i].cond, s.flags[1], s.flags[2]) =>
          code[i].dst \in DOMAIN s.regs)
  /\ code \in Seq(Inner) => s.to = -1
  /\ code \in Seq(Outer) => S \subseteq DOMAIN s.regs
  /\ s.to \in Targets(code)

LEMMA SoundStep ==
  ASSUME args \in [Param -> Value], NEW code \in Seq(MInst), NEW S, NEW av, Follows(av, code),
         NEW i \in 1 .. Len(code), NEW s, Sound(s, code, i - 1, S, av)
  PROVE  Sound(MachineStep(s, code[i]), code, i, S, av)
<1> DEFINE x == code[i]
           z == MachineStep(s, x)
           old == DOMAIN s.regs
           new == DOMAIN z.regs
<1>1. x \in MInst /\ i \in Nat /\ i # 0 /\ i - 1 \in Nat /\ DOMAIN code = 1 .. Len(code)
  OBVIOUS
<1>2. Machine(s) /\ s.undefined = FALSE
  BY DEF Sound
<1>3. CASE s.to # -1
  <2>1. z = s
    BY <1>3, StepFrozen
  <2> HIDE DEF z
  <2> QED
    BY <1>3, <2>1 DEF Sound, z
<1>4. CASE s.to = -1
  <2>1. av[i - 1] \subseteq old
    BY <1>4 DEF Sound
  <2>2. Readable(x, av[i - 1]) /\ av[i] \subseteq Kept(x, av[i - 1]) \cup Gained(code, i)
    BY DEF Follows
  <2>3. Readable(x, old)
    BY <2>1, <2>2 DEF Readable
  <2>4. Machine(z) /\ Stepped(s, x, z)
    BY <1>1, <1>2, <1>4, <2>3, StepHolds
  <2> HIDE DEF z
  <2>5. s.flags[1] \in Nat /\ s.flags[2] \in Nat
    BY <1>2, ValueFacts DEF Machine
  <2>6. z.to = -1 => Kept(x, old) \subseteq new
    BY <2>4 DEF Stepped
  <2>7. x.op = "mv" => z.flags = s.flags
    BY <2>4 DEF Stepped
  <2>8. x.op \in Writing /\ Holds(x.cond, s.flags[1], s.flags[2]) => x.dst \in new
    BY <2>4 DEF Stepped
  <2>9. Gained(code, i) \subseteq new
    <3>1. SUFFICES ASSUME x.op \in Writing, x.cond = "any" \/ Fills(code, i) PROVE x.dst \in new
      BY DEF Gained
    <3>2. CASE Holds(x.cond, s.flags[1], s.flags[2])
      BY <2>8, <3>1, <3>2
    <3>3. CASE ~Holds(x.cond, s.flags[1], s.flags[2])
      <4> DEFINE w == code[i - 1]
      <4>1. Fills(code, i)
        BY <3>1, <3>3 DEF Holds
      <4>2. /\ i - 1 # 0 /\ w.op = "mv" /\ w.dst = x.dst /\ w.cond \in Comparisons
            /\ x.cond = Opposite(w.cond)
        BY <1>1, <4>1 DEF Fills
      <4>3. Holds(w.cond, s.flags[1], s.flags[2])
        BY <2>5, <3>3, <4>2, HoldsOpposite
      <4>4. w.dst \in old
        BY <1>4, <4>2, <4>3 DEF Sound
      <4>5. x.op # "call"
        BY <4>1 DEF Fills
      <4> QED
        BY <2>4, <4>2, <4>4, <4>5 DEF Stepped, Kept
    <3> QED
      BY <3>2, <3>3
  <2>10. av[i] \subseteq new
    <3>1. Kept(x, av[i - 1]) \subseteq Kept(x, old)
      BY <2>1, KeptMono
    <3>2. Kept(x, old) \subseteq new
      BY <2>4 DEF Stepped
    <3> QED
      BY <2>2, <2>9, <3>1, <3>2
  <2>11. code \in Seq(Inner) => z.to = -1
    <3>1. SUFFICES ASSUME code \in Seq(Inner) PROVE z.to = -1
      OBVIOUS
    <3>2. x \in Inner
      BY <3>1
    <3> QED
      BY <2>4, <3>2 DEF Stepped, Inner
  <2>12. code \in Seq(Outer) => S \subseteq new
    <3>1. SUFFICES ASSUME code \in Seq(Outer) PROVE S \subseteq new
      OBVIOUS
    <3>2. x \in Outer
      BY <3>1
    <3>3. S \subseteq old
      BY <3>1 DEF Sound
    <3> QED
      BY <2>4, <3>2, <3>3 DEF Stepped, Outer, Kept
  <2>13. z.to \in Targets(code)
    <3>1. z.to \in {-1, 0} \/ (x.op \in {"branch", "jump"} /\ z.to = x.to)
      BY <2>4 DEF Stepped, Exiting
    <3> QED
      BY <3>1 DEF Targets
  <2>14. z.undefined = FALSE
    BY <1>2, <2>4 DEF Stepped
  <2> QED
    BY <1>1, <2>4, <2>7, <2>8, <2>10, <2>11, <2>12, <2>13, <2>14 DEF Sound, Writing, z
<1> QED
  BY <1>3, <1>4

LEMMA RunLeads ==
  ASSUME args \in [Param -> Value], NEW code \in Seq(MInst), NEW S, NEW T, Leads(S, code, T),
         NEW a, Machine(a), a.to = -1, a.undefined = FALSE, S \subseteq DOMAIN a.regs,
         NEW g, IsRunOf(g, a, code)
  PROVE  LET z == g[Len(code)]
         IN  /\ Machine(z) /\ z.undefined = FALSE
             /\ z.to = -1 => T \subseteq DOMAIN z.regs
             /\ code \in Seq(Inner) => z.to = -1
             /\ code \in Seq(Outer) => S \subseteq DOMAIN z.regs
             /\ z.to \in Targets(code)
<1>1. PICK av : Follows(av, code) /\ av[0] \subseteq S /\ T \subseteq av[Len(code)]
  BY DEF Leads
<1> DEFINE n == Len(code)
           U == {i \in 0 .. n : Sound(g[i], code, i, S, av)}
<1>2. n \in Nat /\ g[0] = a /\ \A i \in 1 .. n : g[i] = MachineStep(g[i - 1], code[i])
  BY RunFirst
<1>3. 0 \in U
  <2>1. Sound(a, code, 0, S, av)
    BY <1>1 DEF Sound, Targets
  <2> QED
    BY <1>2, <2>1
<1>4. ASSUME NEW i \in 1 .. n, i - 1 \in U PROVE i \in U
  <2>1. Sound(g[i - 1], code, i - 1, S, av)
    BY <1>4
  <2>2. Sound(g[i], code, i, S, av)
    BY <1>1, <1>2, <2>1, SoundStep
  <2> QED
    BY <2>2
<1> HIDE DEF U
<1>5. n \in U
  BY <1>2, <1>3, <1>4, Counting DEF Steps
<1>6. Sound(g[n], code, n, S, av)
  BY <1>5 DEF U
<1> QED
  BY <1>1, <1>6 DEF Sound

-----------------------------------------------------------------------------
(* The function that is lowered.                                           *)

LEMMA BlockFacts ==
  ASSUME ir \in Programs, NEW b \in Block
  PROVE  /\ BlockShaped(ir, b) /\ Body(b) \in Seq(Instruction(ir))
         /\ DOMAIN Body(b) = 1 .. Len(Body(b)) /\ Len(Body(b)) \in Nat \ {0}
         /\ ir.arity \in 0 .. Len(Params) /\ Len(Params) \in Nat /\ DOMAIN Params = 1 .. Len(Params)
<1>1. InSsaForm(ir)
  BY ProgramAssumption
<1>2. BlockShaped(ir, b) /\ ir.arity \in 0 .. Len(Params)
  BY <1>1 DEF InSsaForm
<1>3. Body(b) \in Seq(Instruction(ir)) /\ Body(b) # <<>>
  BY <1>2 DEF BlockShaped, Body
<1>4. Params \in Seq(Param)
  BY OperandAssumption
<1> HIDE DEF Body
<1>5. Len(Params) \in Nat /\ DOMAIN Params = 1 .. Len(Params)
  BY <1>4
<1>6. DOMAIN Body(b) = 1 .. Len(Body(b)) /\ Len(Body(b)) \in Nat /\ Len(Body(b)) # 0
  BY <1>3, EmptySeq
<1> QED
  BY <1>2, <1>3, <1>5, <1>6

LEMMA InstFacts ==
  ASSUME ir \in Programs, NEW b \in Block, NEW j \in DOMAIN Body(b)
  PROVE  /\ Inst(b, j) \in Instruction(ir) /\ Shaped(ir, Inst(b, j))
         /\ Inst(b, j).op \in Terminators <=> j = Len(Body(b))
         /\ Inst(b, j).op = "phi" =>
              /\ b # 1 /\ \A i \in 1 .. j - 1 : Inst(b, i).op = "phi"
              /\ {Inst(b, j).in[i] : i \in DOMAIN Inst(b, j).in} = Pred(b)
         /\ j \in 1 .. Len(Body(b)) /\ j \in Nat
<1>1. BlockShaped(ir, b) /\ Body(b) \in Seq(Instruction(ir)) /\ DOMAIN Body(b) = 1 .. Len(Body(b))
      /\ Len(Body(b)) \in Nat
  BY BlockFacts
<1>2. Inst(b, j) \in Instruction(ir)
  BY <1>1 DEF Inst
<1>3. DOMAIN ir.body[b] = DOMAIN Body(b) /\ Pred(b) = {p \in Block : b \in SuccOf(ir, p)}
  BY DEF Body, Pred, Succ
<1>4. /\ Shaped(ir, Inst(b, j))
      /\ Inst(b, j).op \in Terminators <=> j = Len(Body(b))
      /\ Inst(b, j).op = "phi" =>
           /\ b # 1 /\ \A i \in 1 .. j - 1 : Inst(b, i).op = "phi"
           /\ {Inst(b, j).in[i] : i \in DOMAIN Inst(b, j).in} = Pred(b)
  BY <1>1, <1>3 DEF BlockShaped, Inst, Body
<1> QED
  BY <1>1, <1>2, <1>4

\* Operands and what an instruction jumps to.
Operands == Var \cup Const \cup Param

LEMMA FieldFacts ==
  ASSUME ir \in Programs, NEW b \in Block, NEW j \in DOMAIN Body(b)
  PROVE  LET x == Inst(b, j)
         IN  /\ x.args \in Seq(Operands) /\ DOMAIN x.args = 1 .. Len(x.args) /\ Len(x.args) \in Nat
             /\ \A i \in DOMAIN x.args : x.args[i] \in Operands
             /\ x.op \in Terminators \cup Binary \cup {"alias", "call", "self", "phi"}
             /\ x.op \notin Terminators => x.dst \in Var
             /\ x.op \in Binary => 1 \in DOMAIN x.args /\ 2 \in DOMAIN x.args /\ DOMAIN x.args = {1, 2}
             /\ x.op \in {"alias", "branch", "return"} => 1 \in DOMAIN x.args /\ DOMAIN x.args = {1}
             /\ x.op = "self" => Len(x.args) = ir.arity
             /\ x.op = "phi" => DOMAIN x.args = DOMAIN x.in /\ x.in \in Seq(Block)
             /\ x.cond \in Condition /\ (x.op = "cmp" => x.cond \in Comparisons)
             /\ x.to \in Seq(2 .. NumBlocks)
             /\ x.op = "jump" => Len(x.to) = 1 /\ x.to[1] \in Block \ {1}
             /\ x.op = "branch" => Len(x.to) = 2 /\ x.to[1] \in Block \ {1} /\ x.to[2] \in Block \ {1}
             /\ x.op \notin {"jump", "branch"} => DOMAIN x.to = {}
<1> DEFINE x == Inst(b, j)
           P == {Params[i] : i \in 1 .. ir.arity}
<1>1. x \in Instruction(ir) /\ Shaped(ir, x)
  BY InstFacts
<1>2. ir.arity \in 0 .. Len(Params) /\ Len(Params) \in Nat /\ DOMAIN Params = 1 .. Len(Params)
  BY BlockFacts
<1>3. P \subseteq Param
  BY <1>2 DEF Param
<1> HIDE DEF P
<1>4. /\ x.args \in Seq(Var \cup Const \cup P) /\ x.cond \in Comparisons \cup {"any"}
      /\ x.op \in Terminators \cup Binary \cup {"alias", "call", "self", "phi"}
      /\ x.dst \in Var \cup {None} /\ x.to \in Seq(2 .. NumBlocks) /\ x.in \in Seq(Block)
  BY <1>1 DEF Instruction, P
<1>5. /\ x.dst = None <=> x.op \in Terminators
      /\ x.op \in Binary => Len(x.args) = 2
      /\ x.op \in {"alias", "branch", "return"} => Len(x.args) = 1
      /\ x.op = "self" => Len(x.args) = ir.arity
      /\ x.op = "phi" => Len(x.args) = Len(x.in)
      /\ Len(x.to) = CASE x.op = "jump" -> 1 [] x.op = "branch" -> 2 [] OTHER -> 0
      /\ x.op = "cmp" => x.cond \in Comparisons
  BY <1>1 DEF Shaped
<1> HIDE DEF x
<1>6. Var \cup Const \cup P \subseteq Operands
  BY <1>3 DEF Operands
<1>7. x.args \in Seq(Operands)
  BY <1>4, <1>6, SeqMonotonic
<1>8. DOMAIN x.args = 1 .. Len(x.args) /\ Len(x.args) \in Nat
      /\ \A i \in DOMAIN x.args : x.args[i] \in Operands
  BY <1>7
<1>9. 1 .. 2 = {1, 2} /\ 1 .. 1 = {1}
  OBVIOUS
<1>10. 2 .. NumBlocks \subseteq Block \ {1}
  BY SizeAssumption DEF Block
<1>11. DOMAIN x.to = 1 .. Len(x.to) /\ \A i \in DOMAIN x.to : x.to[i] \in Block \ {1}
  <2> DEFINE C == 2 .. NumBlocks
             D == Block \ {1}
  <2>1. x.to \in Seq(C) /\ C \subseteq D
    BY <1>4, <1>10
  <2> HIDE DEF C, D
  <2>2. x.to \in Seq(D)
    BY <2>1, SeqMonotonic
  <2>3. DOMAIN x.to = 1 .. Len(x.to) /\ \A i \in DOMAIN x.to : x.to[i] \in D
    BY <2>2
  <2> QED
    BY <2>3 DEF D
<1>12. x.op = "jump" => Len(x.to) = 1
  BY <1>5
<1>13. x.op = "branch" => Len(x.to) = 2
  BY <1>5
<1>14. x.op \notin {"jump", "branch"} => Len(x.to) = 0
  BY <1>5
<1>15. x.op = "phi" => DOMAIN x.args = DOMAIN x.in
  BY <1>4, <1>5, <1>8
<1>16. x.op = "jump" => x.to[1] \in Block \ {1}
  BY <1>11, <1>12
<1>17. x.op = "branch" => x.to[1] \in Block \ {1} /\ x.to[2] \in Block \ {1}
  BY <1>11, <1>13
<1>18. x.op \notin {"jump", "branch"} => DOMAIN x.to = {}
  BY <1>11, <1>14
<1>19. x.op \notin Terminators => x.dst \in Var
  BY <1>4, <1>5
<1>20. x.op \in Binary => DOMAIN x.args = {1, 2}
  BY <1>5, <1>8, <1>9
<1>21. x.op \in {"alias", "branch", "return"} => DOMAIN x.args = {1}
  BY <1>5, <1>8, <1>9
<1> QED
  BY <1>4, <1>5, <1>7, <1>8, <1>12, <1>13, <1>15, <1>16, <1>17, <1>18, <1>19, <1>20, <1>21
     DEF x, Condition

-----------------------------------------------------------------------------
(* What is added to the code.                                              *)

Fresh == Nat \X Nat \X (Nat \cup Const)

LEMMA RegFacts ==
  /\ Var \subseteq Reg /\ Param \subseteq Reg /\ Slot \subseteq Reg /\ Fresh \subseteq Reg
  /\ None \notin Var /\ Zero \in Const /\ One \in Const /\ Slots[1] \in Reg
BY OperandAssumption, SlotFacts DEF Reg, Fresh

LEMMA MakeInner ==
  /\ \A d \in Reg, s \in Reg \cup Const : Mv(d, s) \in Inner
  /\ \A d \in Reg, c \in Condition, s \in Reg \cup Const : MvIf(c, d, s) \in Inner
  /\ \A op \in Arith, d \in Reg, l, r \in Reg \cup Const : Bin(op, d, l, r) \in Inner
  /\ \A l, r \in Reg \cup Const : Cmp(l, r) \in Inner /\ Cmp(l, r) \in Outer
  /\ \A op \in {"mla", "mls"}, d \in Reg, l, m, r \in Reg \cup Const :
       MI(op, d, <<l, m, r>>, "any", 0) \in Inner
  /\ \A p \in Param : LoadParam(p) \in Inner
  /\ \A d \in Reg, s \in Reg \cup Const : Mv(d, s) \in Outer
  /\ \A c \in Condition, t \in Block : Branch(c, t) \in Outer /\ Jump(t) \in Outer
  /\ Return \in Outer
<1> USE DEF Inner, Outer, MInst, MI, Writing, Arith, Exiting, Condition
<1>1. \A d \in Reg, s \in Reg \cup Const : Mv(d, s) \in Inner /\ Mv(d, s) \in Outer
  BY DEF Mv
<1>2. \A d \in Reg, c \in Condition, s \in Reg \cup Const : MvIf(c, d, s) \in Inner
  BY DEF MvIf
<1>3. \A op \in Arith, d \in Reg, l, r \in Reg \cup Const : Bin(op, d, l, r) \in Inner
  BY DEF Bin
<1>4. \A l, r \in Reg \cup Const : Cmp(l, r) \in Inner /\ Cmp(l, r) \in Outer
  BY DEF Cmp
<1>5. \A op \in {"mla", "mls"}, d \in Reg, l, m, r \in Reg \cup Const :
        MI(op, d, <<l, m, r>>, "any", 0) \in Inner
  OBVIOUS
<1>6. \A p \in Param : LoadParam(p) \in Inner
  BY RegFacts DEF LoadParam
<1>7. \A c \in Condition, t \in Block : Branch(c, t) \in Outer /\ Jump(t) \in Outer
  BY DEF Branch, Jump
<1>8. Return \in Outer
  BY RegFacts DEF Return
<1> QED
  BY <1>1, <1>2, <1>3, <1>4, <1>5, <1>6, <1>7, <1>8

LEMMA InnerOuter == Inner \subseteq MInst /\ Outer \subseteq MInst
  BY DEF Inner, Outer

LEMMA OperandTyped ==
  ASSUME alias \in [Var -> Var \cup Param], NEW o \in Operands, NEW imm \in BOOLEAN,
         NEW fresh \in Fresh
  PROVE  /\ OperandAt(o, imm, fresh) \in Reg \cup Const
         /\ imm = FALSE => OperandAt(o, imm, fresh) \in Reg
         /\ MoveAt(o, imm, fresh) \in Seq(Inner)
<1>1. fresh \in Reg
  BY RegFacts
<1>2. o \in Var => alias[o] \in Reg
  BY RegFacts
<1>3. o \notin Const => o \in Reg
  BY RegFacts DEF Operands
<1>4. imm = FALSE => (Moved(o, imm) <=> o \in Const)
  BY DEF Moved
<1>5. OperandAt(o, imm, fresh) \in Reg \cup Const
  BY <1>1, <1>2, <1>3 DEF OperandAt
<1>6. imm = FALSE => OperandAt(o, imm, fresh) \in Reg
  BY <1>1, <1>2, <1>3, <1>4 DEF OperandAt
<1>7. Moved(o, imm) => Mv(fresh, o) \in Inner
  BY <1>1, MakeInner DEF Moved
<1>8. MoveAt(o, imm, fresh) \in Seq(Inner)
  BY <1>7 DEF MoveAt
<1> QED
  BY <1>5, <1>6, <1>8

LEMMA OperandMeets ==
  ASSUME ir \in Programs, bb \in Block, alias \in [Var -> Var \cup Param],
         NEW j \in DOMAIN Body(bb), NEW i \in DOMAIN Inst(bb, j).args, NEW imm \in BOOLEAN
  PROVE  /\ Operand(j, i, imm) \in Reg \cup Const
         /\ imm = FALSE => Operand(j, i, imm) \in Reg
         /\ Moves(j, i, imm) \in Seq(Inner)
<1>1. Inst(bb, j).args[i] \in Operands /\ j \in Nat /\ i \in Nat /\ bb \in Nat
  BY FieldFacts, InstFacts DEF Block
<1>2. <<bb, j, i>> \in Fresh
  BY <1>1 DEF Fresh
<1> QED
  BY <1>1, <1>2, OperandTyped DEF Operand, Moves

LEMMA ImageFinite ==
  ASSUME NEW S, IsFiniteSet(S), NEW f, DOMAIN f = S
  PROVE  IsFiniteSet({f[x] : x \in S})
<1> DEFINE T == {f[x] : x \in S}
           g == [x \in S |-> f[x]]
<1>1. g \in Surjection(S, T)
  <2>1. g \in [S -> T] /\ \A t \in T : \E x \in S : g[x] = t
    OBVIOUS
  <2> HIDE DEF g, T
  <2> QED
    BY <2>1 DEF Surjection
<1> HIDE DEF g, T
<1> QED
  BY <1>1, FS_Surjection DEF T

LEMMA ParamFinite == IsFiniteSet(Param)
<1>1. Params \in Seq(Param)
  BY OperandAssumption
<1>2. Len(Params) \in Nat /\ DOMAIN Params = 1 .. Len(Params)
  BY <1>1
<1>3. IsFiniteSet(DOMAIN Params)
  BY <1>2, FS_Interval
<1> QED
  BY <1>3, ImageFinite DEF Param

LEMMA ParamCodeTyped ==
  ASSUME NEW p \in Param, NEW met
  PROVE  ParamCode(p, met).inst \in Inner
<1> DEFINE i == CHOOSE h \in DOMAIN Params : Params[h] = p
<1>1. Params \in Seq(Param)
  BY OperandAssumption
<1>2. Len(Params) \in Nat /\ DOMAIN Params = 1 .. Len(Params)
  BY <1>1
<1>3. i \in DOMAIN Params /\ Params[i] = p
  BY DEF Param
<1> HIDE DEF i
<1>4. CASE OnStack(p)
  BY <1>4, MakeInner DEF ParamCode
<1>5. CASE ~OnStack(p)
  <2>1. i \in DOMAIN Slots
    BY <1>2, <1>3, <1>5, SlotFacts DEF OnStack
  <2>2. Slots[i] \in Reg
    BY <2>1, SlotFacts
  <2>3. Mv(p, Slots[i]) \in Inner
    BY <2>2, RegFacts, MakeInner
  <2> QED
    BY <1>5, <2>3 DEF ParamCode, i
<1> QED
  BY <1>4, <1>5

\* Code that copies or loads parameters goes to the start of blocks.
LEMMA ResolveTyped ==
  ASSUME NEW code \in [Block -> Seq(Inner)], NEW met, Resolve(code, met), resolved \subseteq Param
  PROVE  /\ before' \in [Block -> Seq(Inner)] /\ resolved' \subseteq Param
         /\ \A b \in Block : \E w \in Seq(Inner) : before'[b] = w \o code[b]
<1>1. Met(met) \subseteq Param /\ IsFiniteSet(Met(met))
  <2>1. Met(met) \subseteq Param
    BY DEF Met
  <2> QED
    BY <2>1, ParamFinite, FS_Subset
<1> DEFINE new == {ParamCode(p, met) : p \in Met(met)}
           here(b) == {c.inst : c \in {n \in new : n.block = b}}
<1>2. IsFiniteSet(new)
  <2> DEFINE f == [p \in Met(met) |-> ParamCode(p, met)]
  <2>1. DOMAIN f = Met(met) /\ {f[p] : p \in Met(met)} = new
    OBVIOUS
  <2> HIDE DEF f, new
  <2> QED
    BY <1>1, <2>1, ImageFinite
<1>3. ASSUME NEW b \in Block PROVE SetToSeq(here(b)) \in Seq(Inner)
  <2>1. IsFiniteSet({n \in new : n.block = b})
    BY <1>2, FS_Subset
  <2>2. IsFiniteSet(here(b))
    <3> DEFINE S == {n \in new : n.block = b}
               f == [c \in S |-> c.inst]
    <3>1. DOMAIN f = S /\ {f[c] : c \in S} = here(b)
      OBVIOUS
    <3>2. IsFiniteSet(S)
      BY <2>1
    <3> HIDE DEF f, S, here
    <3> QED
      BY <3>1, <3>2, ImageFinite
  <2>3. here(b) \subseteq Inner
    BY <1>1, ParamCodeTyped
  <2> HIDE DEF here
  <2>4. SetToSeq(here(b)) \in Seq(here(b))
    BY <2>2, SetToSeqIs
  <2> QED
    BY <2>3, <2>4, SeqMonotonic
<1>4. before' = [b \in Block |-> SetToSeq(here(b)) \o code[b]]
  BY DEF Resolve, WithParams
<1> HIDE DEF here
<1>5. \A b \in Block : before'[b] = SetToSeq(here(b)) \o code[b] /\ before'[b] \in Seq(Inner)
  BY <1>3, <1>4
<1>6. before' \in [Block -> Seq(Inner)]
  BY <1>4, <1>5
<1>7. resolved' \subseteq Param
  BY <1>1 DEF Resolve
<1> QED
  BY <1>3, <1>5, <1>6, <1>7

-----------------------------------------------------------------------------
(* The invariant.                                                          *)

\* Where the translation is.
Where ==
  /\ ir \in Programs /\ pc \in {"select", "phis", "run"}
  /\ pc = "select" => bb \in Block /\ k \in 1 .. Len(Body(bb)) + 1
  /\ pc # "select" => bb \in 1 .. NumBlocks + 1 /\ k = 1

Coded ==
  /\ before \in [Block -> Seq(Inner)] /\ after \in [Block -> Seq(Outer)]
  /\ alias \in [Var -> Var \cup Param] /\ resolved \subseteq Param /\ shared \subseteq Const
  /\ tailed \in BOOLEAN /\ succ \in [Block -> SUBSET Block]

\* Blocks that have been translated have an end, which leaves them.
EndsOf(b) == after[b][Len(after[b])].op \in {"jump", "return"}
Ended ==
  /\ \A b \in Block : after[b] # <<>> => EndsOf(b)
  /\ \A b \in Block :
       pc # "select" \/ b < bb \/ (b = bb /\ k = Len(Body(bb)) + 1) => after[b] # <<>>

\* The comparison that a branch is to take the flags of is the last instruction.
Flagged ==
  pc = "select" /\ k > 1 /\ FlagsOnly(bb, k - 1) =>
    before[bb] # <<>> /\ before[bb][Len(before[bb])].op = "cmp"

Running ==
  /\ at \in Block \cup {0} /\ from \in Block \cup {0} /\ (at \notin {0, 1} => from \in Pred(at))
  /\ env \in [Var -> Value] /\ args \in [Param -> Value]
  /\ regs = [r \in DOMAIN regs |-> regs[r]] /\ DOMAIN regs \subseteq Reg
  /\ \A r \in DOMAIN regs : regs[r] \in Value
  /\ undefined \in BOOLEAN

CodeInv == Where /\ Coded /\ Ended /\ Flagged
TypeInv == CodeInv /\ Running

LEMMA SameProgram ==
  ASSUME ir' = ir
  PROVE  /\ \A b : Body(b)' = Body(b) /\ Pred(b)' = Pred(b) /\ Succ(b)' = Succ(b)
         /\ \A b, j : Inst(b, j)' = Inst(b, j) /\ (FlagsOnly(b, j)' <=> FlagsOnly(b, j))
BY DEF Body, Pred, Succ, Inst, FlagsOnly, IsBranchAt, Uses

LEMMA TypesFollow == TypeInv => TypeOK
<1> SUFFICES ASSUME TypeInv PROVE TypeOK
  OBVIOUS
<1> USE DEF TypeInv, CodeInv
<1>1. bb \in 1 .. NumBlocks + 1 /\ k \in Nat
  <2>1. CASE pc = "select"
    <3>1. bb \in Block /\ k \in 1 .. Len(Body(bb)) + 1
      BY <2>1 DEF Where
    <3>2. Len(Body(bb)) \in Nat
      BY <3>1, BlockFacts DEF Where
    <3> QED
      BY <3>1, <3>2, SizeAssumption DEF Block
  <2>2. CASE pc # "select"
    BY <2>2 DEF Where
  <2> QED
    BY <2>1, <2>2
<1>2. ASSUME NEW b \in Block, NEW c \in {before[b][i] : i \in DOMAIN before[b]}
                                      \cup {after[b][i] : i \in DOMAIN after[b]}
      PROVE  c.to \in Block \cup {0} /\ c.cond \in {"any", "lt", "ge", "gt", "le", "eq", "ne"}
  <2>1. before[b] \in Seq(MInst) /\ after[b] \in Seq(MInst)
    BY InnerOuter, SeqMonotonic DEF Coded
  <2>2. c \in MInst
    BY <1>2, <2>1
  <2> QED
    BY <2>2 DEF MInst, Condition, Comparisons
<1>3. \A b \in Block : after[b] = <<>> \/ after[b][Len(after[b])].op \in {"jump", "return"}
  BY DEF Ended, EndsOf
<1> QED
  BY <1>1, <1>2, <1>3 DEF TypeOK, Coded, Running, Where

-----------------------------------------------------------------------------
(* One instruction.                                                        *)

LEMMA Advance ==
  ASSUME CodeInv, pc = "select", NEW j \in DOMAIN Body(bb), Inst(bb, j).op \notin Terminators,
         k' = j + 1, UNCHANGED <<ir, bb, pc, after>>
  PROVE  Where' /\ Ended'
<1>1. /\ ir \in Programs /\ bb \in Block /\ j \in 1 .. Len(Body(bb)) /\ j # Len(Body(bb))
      /\ Len(Body(bb)) \in Nat
  BY BlockFacts, InstFacts DEF CodeInv, Where
<1>2. j + 1 \in 1 .. Len(Body(bb)) + 1 /\ j + 1 # Len(Body(bb)) + 1
  BY <1>1
<1>3. Where'
  BY <1>1, <1>2, SameProgram DEF CodeInv, Where
<1>4. Ended'
  BY <1>2, SameProgram DEF CodeInv, Ended, EndsOf
<1> QED
  BY <1>3, <1>4

\* The last instruction gives the block its end.
LEMMA Finish ==
  ASSUME CodeInv, pc = "select", k \in DOMAIN Body(bb), k' \in {k + 1, Len(Body(bb)) + 1},
         UNCHANGED <<ir, bb, pc>>,
         NEW c \in Seq(Outer), Len(c) > 0, c[Len(c)].op \in {"jump", "return"},
         after' = [after EXCEPT ![bb] = c]
  PROVE  Where' /\ Ended' /\ after' \in [Block -> Seq(Outer)] /\ after'[bb] = c
<1>1. /\ ir \in Programs /\ bb \in Block /\ k \in 1 .. Len(Body(bb)) /\ Len(Body(bb)) \in Nat
  BY BlockFacts, InstFacts DEF CodeInv, Where
<1>2. k' \in 1 .. Len(Body(bb)) + 1
  BY <1>1
<1>3. Where'
  BY <1>1, <1>2, SameProgram DEF CodeInv, Where
<1>4. /\ after' \in [Block -> Seq(Outer)] /\ after'[bb] = c
      /\ \A b \in Block \ {bb} : after'[b] = after[b]
  BY <1>1 DEF CodeInv, Coded
<1>5. c # <<>>
  OBVIOUS
<1>6. ASSUME NEW b \in Block
      PROVE  /\ after'[b] # <<>> => EndsOf(b)'
             /\ b < bb \/ b = bb => after'[b] # <<>>
  <2>1. CASE b = bb
    BY <1>4, <1>5, <2>1 DEF EndsOf
  <2>2. CASE b # bb
    <3>1. after'[b] = after[b]
      BY <1>4, <2>2
    <3>2. b < bb => after[b] # <<>>
      BY DEF CodeInv, Ended
    <3>3. after[b] # <<>> => EndsOf(b)
      BY DEF CodeInv, Ended
    <3> QED
      BY <2>2, <3>1, <3>2, <3>3 DEF EndsOf
  <2> QED
    BY <2>1, <2>2
<1>7. Ended'
  BY <1>6 DEF Ended
<1> QED
  BY <1>3, <1>4, <1>7

\* Instructions are added to the code of the block.
LEMMA Emits ==
  ASSUME CodeInv, pc = "select", NEW code \in Seq(Inner), NEW met, Resolve(Append1(code), met)
  PROVE  /\ before' \in [Block -> Seq(Inner)] /\ resolved' \subseteq Param
         /\ \E w \in Seq(Inner) : before'[bb] = w \o (before[bb] \o code)
<1>1. bb \in Block /\ before \in [Block -> Seq(Inner)] /\ resolved \subseteq Param
  BY DEF CodeInv, Where, Coded
<1>2. Append1(code) \in [Block -> Seq(Inner)] /\ Append1(code)[bb] = before[bb] \o code
  BY <1>1 DEF Append1
<1> QED
  BY <1>1, <1>2, ResolveTyped

\* What is not a comparison leaves no flags to a branch.
LEMMA NoFlags ==
  ASSUME CodeInv, pc = "select", NEW j \in DOMAIN Body(bb), Inst(bb, j).op # "cmp",
         k' = j + 1, UNCHANGED <<ir, bb>>
  PROVE  Flagged'
<1>1. j \in Nat /\ k' - 1 = j
  BY InstFacts DEF CodeInv, Where
<1>2. ~FlagsOnly(bb, k - 1)'
  BY <1>1 DEF FlagsOnly, Inst, Body
<1> QED
  BY <1>2 DEF Flagged

\* An instruction that only adds to the code.
LEMMA Plain ==
  ASSUME CodeInv, pc = "select",
         NEW j \in DOMAIN Body(bb), Inst(bb, j).op \notin Terminators \cup {"cmp"},
         k' = j + 1, UNCHANGED <<ir, bb, pc, after, alias, shared, tailed, succ>>,
         NEW code \in Seq(Inner), NEW met, Resolve(Append1(code), met)
  PROVE  CodeInv'
<1>1. Where' /\ Ended'
  BY Advance
<1>2. Flagged'
  BY NoFlags
<1>3. before' \in [Block -> Seq(Inner)] /\ resolved' \subseteq Param
  BY Emits
<1>4. Coded'
  BY <1>3 DEF CodeInv, Coded
<1> QED
  BY <1>1, <1>2, <1>4 DEF CodeInv

LEMMA JoinAt ==
  ASSUME NEW A, NEW v \in Seq(A), NEW w \in Seq(A)
  PROVE  /\ v \o w \in Seq(A) /\ Len(v \o w) = Len(v) + Len(w)
         /\ \A i \in 1 .. Len(v) : (v \o w)[i] = v[i]
         /\ \A i \in 1 .. Len(w) : (v \o w)[Len(v) + i] = w[i]
OBVIOUS

LEMMA JoinAssoc ==
  ASSUME NEW A, NEW v1 \in Seq(A), NEW v2 \in Seq(A), NEW v3 \in Seq(A)
  PROVE  v1 \o (v2 \o v3) = (v1 \o v2) \o v3
BY ConcatAssociative
LEMMA JoinOne ==
  ASSUME NEW A, NEW v1 \in Seq(A), NEW c1 \in A
  PROVE  LET all == v1 \o <<c1>>
         IN  /\ all \in Seq(A) /\ all # <<>> /\ all[Len(all)] = c1 /\ Len(all) = Len(v1) + 1
             /\ SubSeq(all, 1, Len(all) - 1) = v1
<1> DEFINE one == <<c1>>
           all == v1 \o one
           n == Len(v1)
           s == SubSeq(all, 1, n)
<1>1. one \in Seq(A) /\ Len(one) = 1 /\ one[1] = c1
  OBVIOUS
<1> HIDE DEF one
<1>2. /\ all \in Seq(A) /\ Len(all) = n + 1 /\ n \in Nat
      /\ \A i \in 1 .. n + 1 : all[i] = IF i <= n THEN v1[i] ELSE one[i - n]
  <2>1. /\ v1 \o one \in Seq(A) /\ Len(v1 \o one) = Len(v1) + Len(one)
        /\ \A i \in 1 .. Len(v1) + Len(one) :
             (v1 \o one)[i] = IF i <= Len(v1) THEN v1[i] ELSE one[i - Len(v1)]
    BY <1>1, ConcatProperties
  <2> QED
    BY <1>1, <2>1
<1>a. \A i \in 1 .. n : v1[i] \in A
  OBVIOUS
<1> HIDE DEF all, n
<1>3. all[n + 1] = c1 /\ all # <<>>
  BY <1>1, <1>2
<1>4. \A i \in 1 .. n : all[i] = v1[i] /\ all[i] \in A
  BY <1>2, <1>a
<1>5. s \in Seq(A) /\ Len(s) = n /\ \A i \in 1 .. n : s[i] = v1[i]
  <2>1. /\ s \in Seq(A) /\ Len(s) = IF 1 <= n THEN n - 1 + 1 ELSE 0
        /\ \A i \in 1 .. n - 1 + 1 : s[i] = all[1 + i - 1]
    BY <1>2, <1>4, SubSeqProperties
  <2> HIDE DEF s
  <2>2. n - 1 + 1 = n /\ \A i \in 1 .. n : 1 + i - 1 = i
    BY <1>2
  <2> QED
    BY <1>2, <1>4, <2>1, <2>2
<1> HIDE DEF s
<1>6. s = v1
  BY <1>5, SeqEqual DEF n
<1>7. Len(all) - 1 = n
  BY <1>2
<1> QED
  BY <1>2, <1>3, <1>6, <1>7 DEF s, all, one, n

LEMMA JoinInner ==
  /\ \A p, q \in Seq(Inner) : p \o q \in Seq(Inner)
  /\ \A p \in Seq(Inner), c \in Inner : Append(p, c) \in Seq(Inner)
  /\ \A c \in Inner : <<c>> \in Seq(Inner)
  /\ \A c, d \in Inner : <<c, d>> \in Seq(Inner)
  /\ <<>> \in Seq(Inner)
OBVIOUS

LEMMA BinaryTyped ==
  ASSUME CodeInv, SelectBinary
  PROVE  CodeInv'
<1> DEFINE x == Inst(bb, k)
           imm == x.op # "mul"
           code == Moves(k, 1, FALSE) \o Moves(k, 2, imm) \o
                     <<Bin(x.op, x.dst, Operand(k, 1, FALSE), Operand(k, 2, imm))>>
<1>1. /\ ir \in Programs /\ bb \in Block /\ k \in DOMAIN Body(bb) /\ pc = "select"
      /\ alias \in [Var -> Var \cup Param] /\ x.op \in {"add", "sub", "mul"}
  BY DEF CodeInv, Where, Coded, SelectBinary, Selecting
<1>2. imm \in BOOLEAN /\ FALSE \in BOOLEAN
  OBVIOUS
<1>3. x.dst \in Var /\ 1 \in DOMAIN x.args /\ 2 \in DOMAIN x.args
  BY <1>1, FieldFacts DEF Terminators, Binary
<1>4. /\ Operand(k, 1, FALSE) \in Reg \cup Const /\ Operand(k, 2, imm) \in Reg \cup Const
      /\ Moves(k, 1, FALSE) \in Seq(Inner) /\ Moves(k, 2, imm) \in Seq(Inner)
  BY <1>1, <1>2, <1>3, OperandMeets
<1>5. Bin(x.op, x.dst, Operand(k, 1, FALSE), Operand(k, 2, imm)) \in Inner
  BY <1>1, <1>3, <1>4, MakeInner, RegFacts DEF Arith
<1>6. code \in Seq(Inner)
  BY <1>4, <1>5, JoinInner, Zenon
<1>7. Resolve(Append1(code), ArgsMet(k))
  BY DEF SelectBinary
<1>8. k' = k + 1 /\ UNCHANGED <<ir, bb, pc, after, alias, shared, tailed, succ>>
  BY DEF SelectBinary
<1> HIDE DEF code
<1> QED
  BY <1>1, <1>6, <1>7, <1>8, Plain DEF Terminators

LEMMA FmaTyped ==
  ASSUME CodeInv, SelectFma
  PROVE  CodeInv'
<1> DEFINE y == Inst(bb, k + 1)
           i == IF y.args[1] = Inst(bb, k).dst THEN 2 ELSE 1
           srcs == <<Operand(k, 1, FALSE), Operand(k, 2, FALSE), Operand(k + 1, i, TRUE)>>
           op == IF y.op = "add" THEN "mla" ELSE "mls"
           last == MI(op, y.dst, srcs, "any", 0)
           code == Append(Moves(k, 1, FALSE) \o Moves(k, 2, FALSE) \o Moves(k + 1, i, TRUE), last)
<1>1. /\ ir \in Programs /\ bb \in Block /\ k \in DOMAIN Body(bb) /\ pc = "select"
      /\ alias \in [Var -> Var \cup Param] /\ Inst(bb, k).op = "mul"
      /\ k + 1 \in DOMAIN Body(bb) /\ y.op \in {"add", "sub"}
  BY DEF CodeInv, Where, Coded, SelectFma, Selecting, Fuses
<1>2. TRUE \in BOOLEAN /\ FALSE \in BOOLEAN
  OBVIOUS
<1>3. y.dst \in Var /\ 1 \in DOMAIN Inst(bb, k).args /\ 2 \in DOMAIN Inst(bb, k).args
      /\ i \in DOMAIN y.args
  BY <1>1, FieldFacts DEF Terminators, Binary
<1> HIDE DEF i
<1>4. /\ Operand(k, 1, FALSE) \in Reg \cup Const /\ Operand(k, 2, FALSE) \in Reg \cup Const
      /\ Operand(k + 1, i, TRUE) \in Reg \cup Const
      /\ Moves(k, 1, FALSE) \in Seq(Inner) /\ Moves(k, 2, FALSE) \in Seq(Inner)
      /\ Moves(k + 1, i, TRUE) \in Seq(Inner)
  BY <1>1, <1>2, <1>3, OperandMeets
<1>5. last \in Inner
  <2>1. op \in {"mla", "mls"} /\ y.dst \in Reg
    BY <1>3, RegFacts
  <2> HIDE DEF op, y
  <2> QED
    BY <1>4, <2>1, MakeInner
<1>6. code \in Seq(Inner)
  BY <1>4, <1>5, JoinInner, Zenon
<1>7. Resolve(Append1(code), Append(ArgsMet(k), <<y.args[i], bb>>))
  BY DEF SelectFma, i
<1>8. k' = (k + 1) + 1 /\ UNCHANGED <<ir, bb, pc, after, alias, shared, tailed, succ>>
  <2>1. k \in Nat /\ k' = k + 2
    BY <1>1, InstFacts DEF SelectFma
  <2> QED
    BY <2>1 DEF SelectFma
<1> HIDE DEF code
<1> QED
  BY <1>1, <1>6, <1>7, <1>8, Plain DEF Terminators

\* The shared constant of a division goes to an entry that has an end.
LEMMA MaterializedTyped ==
  ASSUME NEW code \in Seq(Outer), code # <<>>, NEW c \in Const
  PROVE  /\ Materialized(code, c) \in Seq(Outer) /\ Len(Materialized(code, c)) = Len(code) + 1
         /\ Materialized(code, c)[Len(code) + 1] = code[Len(code)]
<1> DEFINE n == Len(code)
           p == SubSeq(code, 1, n - 1)
           q == <<Mv(Magic(c), c), code[n]>>
<1>1. n \in Nat /\ n # 0 /\ \A i \in 1 .. n : code[i] \in Outer
  OBVIOUS
<1> HIDE DEF n
<1>2. Magic(c) \in Reg
  BY RegFacts DEF Magic, Fresh
<1>3. Mv(Magic(c), c) \in Outer /\ code[n] \in Outer
  BY <1>1, <1>2, MakeInner
<1>4. q \in Seq(Outer) /\ Len(q) = 2 /\ q[2] = code[n]
  BY <1>3
<1>5. p \in Seq(Outer) /\ Len(p) = n - 1
  <2>1. 1 \in Int /\ n - 1 \in Int /\ \A i \in 1 .. n - 1 : code[i] \in Outer
    BY <1>1
  <2>2. p \in Seq(Outer) /\ Len(p) = IF 1 <= n - 1 THEN (n - 1) - 1 + 1 ELSE 0
    BY <2>1, SubSeqProperties
  <2> QED
    BY <1>1, <2>2
<1> HIDE DEF p, q
<1>6. p \o q \in Seq(Outer) /\ Len(p \o q) = Len(p) + Len(q) /\ (p \o q)[Len(p) + 2] = q[2]
  <2>1. /\ p \o q \in Seq(Outer) /\ Len(p \o q) = Len(p) + Len(q)
        /\ \A i \in 1 .. Len(q) : (p \o q)[Len(p) + i] = q[i]
    <3>1. p \in Seq(Outer) /\ q \in Seq(Outer)
      BY <1>4, <1>5
    <3> QED
      BY <3>1, JoinAt
  <2>2. 2 \in 1 .. Len(q)
    BY <1>4
  <2> QED
    BY <2>1, <2>2
<1>7. Len(p) + Len(q) = n + 1 /\ Len(p) + 2 = n + 1
  BY <1>1, <1>4, <1>5
<1> QED
  BY <1>4, <1>6, <1>7 DEF Materialized, p, q, n

LEMMA DivTyped ==
  ASSUME CodeInv, SelectDiv
  PROVE  CodeInv'
<1> DEFINE x == Inst(bb, k)
           c == x.args[2]
           local == Cardinality(Divisions(c)) < 3 \/ bb = 1
           magic == IF local THEN <<bb, k, 2>> ELSE Magic(c)
           code == Moves(k, 1, FALSE) \o (IF local THEN <<Mv(magic, c)>> ELSE <<>>)
                   \o <<Bin("div", x.dst, Operand(k, 1, FALSE), magic)>>
<1>1. /\ ir \in Programs /\ bb \in Block /\ k \in DOMAIN Body(bb) /\ pc = "select"
      /\ alias \in [Var -> Var \cup Param] /\ x.op = "div" /\ k \in Nat
  BY InstFacts DEF CodeInv, Where, Coded, SelectDiv, Selecting
<1>2. x.dst \in Var /\ 1 \in DOMAIN x.args /\ 2 \in DOMAIN x.args /\ c \in Const
  <2>1. Shaped(ir, x)
    BY <1>1, InstFacts
  <2> QED
    BY <1>1, <2>1, FieldFacts DEF Terminators, Binary, Shaped
<1>3. Operand(k, 1, FALSE) \in Reg \cup Const /\ Moves(k, 1, FALSE) \in Seq(Inner)
  BY <1>1, <1>2, OperandMeets
<1>4. magic \in Reg
  BY <1>1, <1>2, RegFacts DEF Magic, Fresh, Block
<1>5. Mv(magic, c) \in Inner /\ Bin("div", x.dst, Operand(k, 1, FALSE), magic) \in Inner
  BY <1>2, <1>3, <1>4, MakeInner, RegFacts DEF Arith
<1>a. Resolve(Append1(code), ArgsMet(k))
  BY DEF SelectDiv
<1>b. IF local \/ c \in shared THEN UNCHANGED <<after, shared>>
      ELSE /\ after' = [after EXCEPT ![1] = Materialized(@, c)] /\ shared' = shared \cup {c}
  BY DEF SelectDiv
<1>c. local \/ bb # 1
  OBVIOUS
<1> HIDE DEF magic, local
<1>6. code \in Seq(Inner)
  <2>1. (IF local THEN <<Mv(magic, c)>> ELSE <<>>) \in Seq(Inner)
    BY <1>5, JoinInner, Zenon
  <2> QED
    BY <1>3, <1>5, <2>1, JoinInner, Zenon
<1>8. k' = k + 1 /\ UNCHANGED <<ir, bb, pc, alias, tailed, succ>>
  BY DEF SelectDiv
<1> HIDE DEF code
<1>9. CASE local \/ c \in shared
  BY <1>1, <1>6, <1>8, <1>9, <1>a, <1>b, Plain DEF Terminators
<1>10. CASE ~(local \/ c \in shared)
  <2> DEFINE m == Materialized(after[1], c)
             n == Len(after[1])
  <2>1. 1 \in Block /\ 1 < bb
    BY <1>1, <1>10, <1>c, SizeAssumption DEF Block
  <2>2. after[1] \in Seq(Outer) /\ after[1] # <<>> /\ EndsOf(1)
    BY <2>1 DEF CodeInv, Coded, Ended
  <2>3. m \in Seq(Outer) /\ Len(m) = n + 1 /\ m[n + 1] = after[1][n]
    BY <1>2, <2>2, MaterializedTyped
  <2>4. after' = [after EXCEPT ![1] = m] /\ shared' = shared \cup {c}
    BY <1>10, <1>b
  <2> HIDE DEF m
  <2>5. after' \in [Block -> Seq(Outer)] /\ after'[1] = m /\ \A b \in Block \ {1} : after'[b] = after[b]
    BY <2>1, <2>3, <2>4 DEF CodeInv, Coded
  <2>6. before' \in [Block -> Seq(Inner)] /\ resolved' \subseteq Param
    BY <1>1, <1>6, <1>a, Emits
  <2>7. Coded'
    BY <1>2, <1>8, <2>4, <2>5, <2>6 DEF CodeInv, Coded
  <2>8. Flagged'
    BY <1>1, <1>8, NoFlags
  <2>9. /\ bb \in Block /\ k \in 1 .. Len(Body(bb)) /\ k # Len(Body(bb)) /\ Len(Body(bb)) \in Nat
    BY <1>1, BlockFacts, InstFacts DEF Terminators
  <2>10. k + 1 \in 1 .. Len(Body(bb)) + 1 /\ k + 1 # Len(Body(bb)) + 1
    BY <2>9
  <2>11. Where'
    BY <1>1, <1>8, <2>10, SameProgram DEF CodeInv, Where
  <2>12. ASSUME NEW b \in Block
         PROVE  (after'[b] # <<>> => EndsOf(b)') /\ (after[b] # <<>> => after'[b] # <<>>)
    <3>1. CASE b = 1
      <4>1. n \in Nat
        BY <2>2
      <4>2. m # <<>>
        BY <2>3, <4>1
      <4> QED
        BY <2>2, <2>3, <2>5, <3>1, <4>2 DEF EndsOf
    <3>2. CASE b # 1
      <4>1. after[b] # <<>> => EndsOf(b)
        BY DEF CodeInv, Ended
      <4> QED
        BY <2>5, <3>2, <4>1 DEF EndsOf
    <3> QED
      BY <3>1, <3>2
  <2>13. Ended'
    BY <1>1, <1>8, <2>10, <2>12, SameProgram DEF CodeInv, Ended
  <2> QED
    BY <2>7, <2>8, <2>11, <2>13 DEF CodeInv
<1> QED
  BY <1>9, <1>10

LEMMA AliasTyped ==
  ASSUME CodeInv, SelectAlias
  PROVE  CodeInv'
<1> DEFINE x == Inst(bb, k)
           o == x.args[1]
<1>1. /\ ir \in Programs /\ bb \in Block /\ k \in DOMAIN Body(bb) /\ pc = "select"
      /\ alias \in [Var -> Var \cup Param] /\ x.op = "alias"
  BY DEF CodeInv, Where, Coded, SelectAlias, Selecting
<1>2. x.dst \in Var /\ o \in Operands
  BY <1>1, FieldFacts DEF Terminators
<1>3. o \notin Const
  BY <1>1, InstFacts DEF Shaped
<1>4. Operand(k, 1, TRUE) \in Var \cup Param
  BY <1>1, <1>2, <1>3 DEF Operand, OperandAt, Moved, Operands
<1>5. alias' = [alias EXCEPT ![x.dst] = Operand(k, 1, TRUE)] /\ k' = k + 1
      /\ Resolve(before, ArgsMet(k)) /\ UNCHANGED <<ir, bb, pc, after, shared, tailed, succ>>
  BY DEF SelectAlias
<1>6. alias' \in [Var -> Var \cup Param]
  BY <1>1, <1>2, <1>4, <1>5
<1>7. before' \in [Block -> Seq(Inner)] /\ resolved' \subseteq Param
  BY <1>5, ResolveTyped DEF CodeInv, Coded
<1>8. Coded'
  BY <1>5, <1>6, <1>7 DEF CodeInv, Coded
<1>9. Where' /\ Ended'
  BY <1>1, <1>5, Advance DEF Terminators
<1>10. Flagged'
  BY <1>1, <1>5, NoFlags
<1> QED
  BY <1>8, <1>9, <1>10 DEF CodeInv

LEMMA BooleanTyped ==
  ASSUME NEW c \in Comparisons, NEW d \in Reg, NEW l \in Reg \cup Const, NEW r \in Reg \cup Const
  PROVE  Boolean(c, d, l, r) \in Seq(Inner)
<1>1. l \in Const \cup Reg /\ r \in Const \cup Reg
  OBVIOUS
<1> QED
  BY <1>1, LeadsBoolean

\* The comparison of a branch on flags is not left to the branch on a conjunction.
LEMMA FlagsNow ==
  ASSUME ir \in Programs, NEW b \in Block, NEW j \in DOMAIN Body(b), FlagsOnly(b, j)
  PROVE  ~ComparedLater(Inst(b, j).dst)
<1> SUFFICES ASSUME ComparedLater(Inst(b, j).dst) PROVE FALSE
  OBVIOUS
<1>0. PICK c \in Block : \E h \in DOMAIN Body(c) :
        BranchesOn(c, h) /\ \E i \in {1, 2} : Uses(Inst(b, j).dst) = {<<c, h, i>>}
  BY DEF ComparedLater
<1>1. PICK h \in DOMAIN Body(c), i \in {1, 2} :
        BranchesOn(c, h) /\ Uses(Inst(b, j).dst) = {<<c, h, i>>}
  BY <1>0
<1>2. Uses(Inst(b, j).dst) = {<<b, j + 1, 1>>} /\ Inst(b, j + 1).op = "branch"
  BY DEF FlagsOnly, IsBranchAt
<1>3. <<c, h, i>> = <<b, j + 1, 1>>
  BY <1>1, <1>2
<1>4. c = b /\ h = j + 1
  BY <1>3
<1>5. Inst(b, j + 1).op = "and"
  BY <1>1, <1>4 DEF BranchesOn
<1> QED
  BY <1>2, <1>5

LEMMA CompareTyped ==
  ASSUME CodeInv, SelectCompare
  PROVE  CodeInv'
<1> DEFINE x == Inst(bb, k)
           l == Operand(k, 1, FALSE)
           r == Operand(k, 2, TRUE)
           code == IF ComparedLater(x.dst) THEN <<>>
                   ELSE IF FlagsOnly(bb, k) THEN <<Cmp(l, r)>>
                   ELSE Boolean(x.cond, x.dst, l, r)
           m == Moves(k, 1, FALSE) \o Moves(k, 2, TRUE)
           all == m \o code
<1>1. /\ ir \in Programs /\ bb \in Block /\ k \in DOMAIN Body(bb) /\ pc = "select"
      /\ alias \in [Var -> Var \cup Param] /\ x.op = "cmp" /\ k \in Nat
  BY InstFacts DEF CodeInv, Where, Coded, SelectCompare, Selecting
<1>2. TRUE \in BOOLEAN /\ FALSE \in BOOLEAN
  OBVIOUS
<1>3. x.dst \in Var /\ 1 \in DOMAIN x.args /\ 2 \in DOMAIN x.args /\ x.cond \in Comparisons
  BY <1>1, FieldFacts DEF Terminators, Binary
<1>4. /\ l \in Reg \cup Const /\ r \in Reg \cup Const
      /\ Moves(k, 1, FALSE) \in Seq(Inner) /\ Moves(k, 2, TRUE) \in Seq(Inner)
  BY <1>1, <1>2, <1>3, OperandMeets
<1>a. Resolve(Append1(m \o code), ArgsMet(k))
  BY DEF SelectCompare
<1>b. k' = k + 1 /\ UNCHANGED <<ir, bb, pc, after, alias, shared, tailed, succ>>
  BY DEF SelectCompare
<1> HIDE DEF l, r
<1>5. Cmp(l, r) \in Inner /\ Boolean(x.cond, x.dst, l, r) \in Seq(Inner)
  BY <1>3, <1>4, MakeInner, BooleanTyped, RegFacts
<1>6. code \in Seq(Inner)
  BY <1>5, JoinInner, Zenon
<1>7. m \in Seq(Inner)
  BY <1>4, JoinInner, Zenon
<1>c. FlagsOnly(bb, k) => code = <<Cmp(l, r)>>
  BY <1>1, FlagsNow
<1> HIDE DEF m, code
<1>8. all \in Seq(Inner)
  BY <1>6, <1>7, JoinInner, Zenon
<1>d. Resolve(Append1(all), ArgsMet(k))
  BY <1>a
<1> HIDE DEF all
<1>9. /\ before' \in [Block -> Seq(Inner)] /\ resolved' \subseteq Param
      /\ \E w \in Seq(Inner) : before'[bb] = w \o (before[bb] \o all)
  BY <1>1, <1>8, <1>d, Emits
<1>10. Where' /\ Ended'
  BY <1>1, <1>b, Advance DEF Terminators
<1>11. Coded'
  BY <1>9, <1>b DEF CodeInv, Coded
<1>12. Flagged'
  <2>1. SUFFICES ASSUME FlagsOnly(bb, k)
                 PROVE  before'[bb] # <<>> /\ before'[bb][Len(before'[bb])].op = "cmp"
    <3>1. k' - 1 = k
      BY <1>1, <1>b
    <3>2. FlagsOnly(bb, k - 1)' => FlagsOnly(bb, k)
      BY <1>b, <3>1 DEF FlagsOnly, Inst, Body, IsBranchAt, Uses
    <3> QED
      BY <1>b, <3>2 DEF Flagged
  <2>2. PICK w \in Seq(Inner) : before'[bb] = w \o (before[bb] \o all)
    BY <1>9
  <2> DEFINE old == before[bb]
             q == w \o (old \o m)
  <2>3. old \in Seq(Inner)
    BY <1>1 DEF CodeInv, Coded
  <2>4. all = m \o <<Cmp(l, r)>>
    BY <1>c, <2>1 DEF all
  <2> HIDE DEF old
  <2>5. q \in Seq(Inner) /\ <<Cmp(l, r)>> \in Seq(Inner) /\ old \o m \in Seq(Inner)
    BY <1>5, <1>7, <2>3, JoinInner, Zenon
  <2>6. before'[bb] = q \o <<Cmp(l, r)>>
    <3>1. old \o all = (old \o m) \o <<Cmp(l, r)>>
      BY <1>7, <2>3, <2>4, <2>5, JoinAssoc
    <3> DEFINE om == old \o m
               one == <<Cmp(l, r)>>
    <3>2. om \in Seq(Inner) /\ one \in Seq(Inner) /\ w \in Seq(Inner)
      BY <2>2, <2>5
    <3>3. before'[bb] = w \o (old \o all)
      BY <2>2 DEF old
    <3>4. old \o all = om \o one
      BY <3>1
    <3> HIDE DEF om, one
    <3>5. w \o (om \o one) = (w \o om) \o one
      BY <3>2, JoinAssoc
    <3> QED
      BY <3>3, <3>4, <3>5 DEF om, one
  <2> HIDE DEF q
  <2>7. before'[bb] # <<>> /\ before'[bb][Len(before'[bb])] = Cmp(l, r)
    BY <1>5, <2>5, <2>6, JoinOne
  <2> QED
    BY <2>7 DEF Cmp, MI
<1> QED
  BY <1>10, <1>11, <1>12 DEF CodeInv

LEMMA AndTyped ==
  ASSUME CodeInv, SelectAnd
  PROVE  CodeInv'
<1> DEFINE x == Inst(bb, k)
           l == <<bb, k, 3>>
           r == <<bb, k, 4>>
           p == Boolean("ne", l, Operand(k, 1, FALSE), Zero)
           q == Boolean("ne", r, Operand(k, 2, TRUE), Zero)
           one == <<Bin("and", x.dst, l, r)>>
           code == Moves(k, 1, FALSE) \o Moves(k, 2, TRUE) \o
                     (IF BranchesOn(bb, k) THEN <<>> ELSE p \o q \o one)
<1>1. /\ ir \in Programs /\ bb \in Block /\ k \in DOMAIN Body(bb) /\ pc = "select"
      /\ alias \in [Var -> Var \cup Param] /\ x.op = "and" /\ k \in Nat /\ bb \in Nat
  BY InstFacts DEF CodeInv, Where, Coded, SelectAnd, Selecting, Block
<1>2. TRUE \in BOOLEAN /\ FALSE \in BOOLEAN
  OBVIOUS
<1>3. x.dst \in Var /\ 1 \in DOMAIN x.args /\ 2 \in DOMAIN x.args
  BY <1>1, FieldFacts DEF Terminators, Binary
<1>4. /\ Operand(k, 1, FALSE) \in Reg \cup Const /\ Operand(k, 2, TRUE) \in Reg \cup Const
      /\ Moves(k, 1, FALSE) \in Seq(Inner) /\ Moves(k, 2, TRUE) \in Seq(Inner)
  BY <1>1, <1>2, <1>3, OperandMeets
<1>5. l \in Reg /\ r \in Reg
  BY <1>1, RegFacts DEF Fresh
<1>a. Resolve(Append1(code), ArgsMet(k))
  BY DEF SelectAnd
<1>b. k' = k + 1 /\ UNCHANGED <<ir, bb, pc, after, alias, shared, tailed, succ>>
  BY DEF SelectAnd
<1> HIDE DEF l, r
<1>6. p \in Seq(Inner) /\ q \in Seq(Inner)
  BY <1>4, <1>5, BooleanTyped, RegFacts DEF Comparisons
<1>7. one \in Seq(Inner)
  BY <1>3, <1>5, MakeInner, RegFacts, JoinInner DEF Arith
<1> HIDE DEF p, q, one
<1>8. (IF BranchesOn(bb, k) THEN <<>> ELSE p \o q \o one) \in Seq(Inner)
  BY <1>6, <1>7, JoinInner, Zenon
<1>9. code \in Seq(Inner)
  BY <1>4, <1>8, JoinInner, Zenon
<1> HIDE DEF code
<1> QED
  BY <1>1, <1>9, <1>a, <1>b, Plain DEF Terminators

-----------------------------------------------------------------------------
(* Where values are defined.                                               *)

LEMMA PlaceFacts ==
  ASSUME ir \in Programs, NEW d
  PROVE  /\ d \in Places <=> d = <<d[1], d[2]>> /\ d[1] \in Block /\ d[2] \in DOMAIN Body(d[1])
         /\ d \in Places => At(ir, d) = Inst(d[1], d[2])
  BY DEF Places, PlacesOf, At, Inst, Body

LEMMA PlaceOf ==
  ASSUME ir \in Programs, NEW b \in Block, NEW j \in DOMAIN Body(b)
  PROVE  <<b, j>> \in Places /\ At(ir, <<b, j>>) = Inst(b, j)
  BY DEF Places, PlacesOf, At, Inst, Body

LEMMA OperandDefined ==
  ASSUME ir \in Programs, NEW b \in Block, NEW j \in DOMAIN Body(b),
         NEW i \in DOMAIN Inst(b, j).args, Inst(b, j).args[i] \in Var
  PROVE  \E d \in Places : At(ir, d).dst = Inst(b, j).args[i]
<1> DEFINE x == Inst(b, j)
           v == x.args[i]
<1>1. InSsaForm(ir)
  BY ProgramAssumption
<1>2. <<b, j>> \in Places /\ At(ir, <<b, j>>) = x
  BY PlaceOf
<1>3. IF x.op = "phi" THEN DefinedAt(ir, v, x.in[i], Len(ir.body[x.in[i]]) + 1)
      ELSE DefinedAt(ir, v, <<b, j>>[1], <<b, j>>[2])
  BY <1>1, <1>2 DEF InSsaForm, Places
<1> HIDE DEF x, v
<1>4. \E c, h : DefinedAt(ir, v, c, h)
  BY <1>3
<1> QED
  BY <1>4 DEF DefinedAt, Places, v, x

LEMMA DefFacts ==
  ASSUME ir \in Programs, NEW v, \E d \in Places : At(ir, d).dst = v
  PROVE  \E b \in Block : \E j \in DOMAIN Body(b) : DefOf(v) = Inst(b, j) /\ Inst(b, j).dst = v
<1> DEFINE e == CHOOSE d \in PlacesOf(ir) : At(ir, d).dst = v
<1>1. e \in Places /\ At(ir, e).dst = v
  BY DEF Places
<1>2. DefOf(v) = At(ir, e)
  BY DEF DefOf, DefIn
<1> HIDE DEF e
<1>3. e[1] \in Block /\ e[2] \in DOMAIN Body(e[1]) /\ At(ir, e) = Inst(e[1], e[2])
  BY <1>1, PlaceFacts
<1> QED
  BY <1>1, <1>2, <1>3

\* A conjunction of comparisons and what it compares.
LEMMA ConjunctionFacts ==
  ASSUME ir \in Programs, NEW b \in Block, NEW j \in DOMAIN Body(b),
         NEW i \in DOMAIN Inst(b, j).args, AndOfCmps(Inst(b, j).args[i]), NEW h \in {1, 2}
  PROVE  LET conj == DefOf(Inst(b, j).args[i])
             c == DefOf(conj.args[h])
         IN  /\ conj.args[h] \in Var
             /\ \E b2 \in Block : \E j2 \in DOMAIN Body(b2) :
                  c = Inst(b2, j2) /\ c.op = "cmp" /\ c.dst = conj.args[h]
             /\ \E b2 \in Block : \E j2 \in DOMAIN Body(b2) :
                  conj = Inst(b2, j2) /\ conj.op = "and" /\ conj.dst = Inst(b, j).args[i]
             /\ DOMAIN c.args = {1, 2} /\ c.args[1] \in Operands /\ c.args[2] \in Operands
             /\ c.cond \in Comparisons
<1> DEFINE v == Inst(b, j).args[i]
           conj == DefOf(v)
           u == conj.args[h]
           c == DefOf(u)
<1>1. v \in Var /\ conj.op = "and" /\ IsCmp(conj.args[1]) /\ IsCmp(conj.args[2])
  BY DEF AndOfCmps
<1>2. \E d \in Places : At(ir, d).dst = v
  BY <1>1, OperandDefined
<1> HIDE DEF v
<1>3. PICK b1 \in Block : \E h1 \in DOMAIN Body(b1) : conj = Inst(b1, h1) /\ Inst(b1, h1).dst = v
  BY <1>2, DefFacts
<1>4. PICK h1 \in DOMAIN Body(b1) : conj = Inst(b1, h1) /\ Inst(b1, h1).dst = v
  BY <1>3
<1>5. h \in DOMAIN Inst(b1, h1).args
  BY <1>1, <1>4, FieldFacts DEF Binary
<1>6. u \in Var /\ c.op = "cmp"
  BY <1>1 DEF IsCmp
<1>7. \E d \in Places : At(ir, d).dst = u
  BY <1>4, <1>5, <1>6, OperandDefined
<1> HIDE DEF u, conj
<1>8. PICK b2 \in Block : \E h2 \in DOMAIN Body(b2) : c = Inst(b2, h2) /\ Inst(b2, h2).dst = u
  BY <1>7, DefFacts
<1>9. PICK h2 \in DOMAIN Body(b2) : c = Inst(b2, h2) /\ Inst(b2, h2).dst = u
  BY <1>8
<1> HIDE DEF c
<1>10. DOMAIN c.args = {1, 2} /\ c.cond \in Comparisons /\ \A n \in DOMAIN c.args : c.args[n] \in Operands
  BY <1>6, <1>9, FieldFacts DEF Binary
<1>11. c.args[1] \in Operands /\ c.args[2] \in Operands
  BY <1>10
<1> QED
  BY <1>1, <1>4, <1>6, <1>9, <1>10, <1>11 DEF v, u, c, conj

-----------------------------------------------------------------------------
(* The ends of blocks.                                                     *)

LEMMA JoinOuter ==
  /\ \A p, q \in Seq(Outer) : p \o q \in Seq(Outer)
  /\ \A c \in Outer : <<c>> \in Seq(Outer)
  /\ \A c, d \in Outer : <<c, d>> \in Seq(Outer)
  /\ <<>> \in Seq(Outer)
OBVIOUS

LEMMA EndTyped ==
  ASSUME NEW p \in Seq(Outer), NEW q \in Seq(Outer), q # <<>>, q[Len(q)].op \in {"jump", "return"}
  PROVE  p \o q \in Seq(Outer) /\ Len(p \o q) > 0 /\ (p \o q)[Len(p \o q)].op \in {"jump", "return"}
<1>1. Len(p) \in Nat /\ Len(q) \in Nat /\ Len(q) # 0
  OBVIOUS
<1>2. /\ p \o q \in Seq(Outer) /\ Len(p \o q) = Len(p) + Len(q)
      /\ \A i \in 1 .. Len(q) : (p \o q)[Len(p) + i] = q[i]
  BY JoinAt
<1>3. Len(q) \in 1 .. Len(q)
  BY <1>1
<1>4. (p \o q)[Len(p) + Len(q)] = q[Len(q)]
  BY <1>2, <1>3
<1> QED
  BY <1>1, <1>2, <1>4

LEMMA BranchesTyped ==
  ASSUME NEW c0 \in Comparisons, NEW l0 \in Block, NEW r0 \in Block
  PROVE  /\ Branches(c0, l0, r0) \in Seq(Outer) /\ Branches(c0, l0, r0) # <<>>
         /\ Branches(c0, l0, r0)[Len(Branches(c0, l0, r0))].op \in {"jump", "return"}
         /\ \E c2 \in Comparisons, l2, r2 \in {l0, r0} : Branches(c0, l0, r0) = <<Branch(c2, l2), Jump(r2)>>
<1>1. Opposite(c0) \in Comparisons
  BY DEF Opposite, Comparisons
<1>2. PICK c2 \in Comparisons, l2 \in {l0, r0}, r2 \in {l0, r0} :
        Branches(c0, l0, r0) = <<Branch(c2, l2), Jump(r2)>>
  BY <1>1 DEF Branches
<1>3. Branch(c2, l2) \in Outer /\ Jump(r2) \in Outer
  BY MakeInner DEF Condition
<1>4. Jump(r2).op = "jump"
  BY DEF Jump, MI
<1>5. Len(<<Branch(c2, l2), Jump(r2)>>) = 2 /\ <<Branch(c2, l2), Jump(r2)>>[2] = Jump(r2)
  OBVIOUS
<1>6. <<Branch(c2, l2), Jump(r2)>> \in Seq(Outer)
  BY <1>3
<1>7. <<Branch(c2, l2), Jump(r2)>> # <<>>
  BY <1>5
<1> QED
  BY <1>2, <1>4, <1>5, <1>6, <1>7

LEMMA JumpTyped ==
  ASSUME CodeInv, SelectJump
  PROVE  CodeInv'
<1> DEFINE x == Inst(bb, k)
           c == <<Jump(x.to[1])>>
<1>1. /\ ir \in Programs /\ bb \in Block /\ k \in DOMAIN Body(bb) /\ pc = "select" /\ x.op = "jump"
  BY DEF CodeInv, Where, SelectJump, Selecting
<1>2. x.to[1] \in Block
  BY <1>1, FieldFacts
<1>3. Jump(x.to[1]) \in Outer /\ Jump(x.to[1]).op = "jump"
  <2>1. Jump(x.to[1]) \in Outer
    BY <1>2, MakeInner DEF Condition
  <2>2. Jump(x.to[1]).op = "jump"
    BY DEF Jump, MI
  <2> QED
    BY <2>1, <2>2
<1>4. c \in Seq(Outer) /\ Len(c) > 0 /\ c[Len(c)].op \in {"jump", "return"}
  BY <1>3
<1>5. after' = [after EXCEPT ![bb] = c] /\ k' = k + 1
      /\ UNCHANGED <<ir, bb, pc, before, alias, resolved, shared, tailed, succ>>
  BY DEF SelectJump
<1> HIDE DEF c
<1>6. Where' /\ Ended' /\ after' \in [Block -> Seq(Outer)]
  BY <1>1, <1>4, <1>5, Finish
<1>7. Coded'
  BY <1>5, <1>6 DEF CodeInv, Coded
<1>8. Flagged'
  BY <1>1, <1>5, NoFlags
<1> QED
  BY <1>6, <1>7, <1>8 DEF CodeInv

\* An end and moves before it.
LEMMA Ending ==
  ASSUME CodeInv, pc = "select", NEW j \in DOMAIN Body(bb), Inst(bb, j).op # "cmp",
         k \in DOMAIN Body(bb), j + 1 \in {k + 1, Len(Body(bb)) + 1}, k' = j + 1,
         UNCHANGED <<ir, bb, pc, alias, shared>>,
         tailed' \in BOOLEAN, succ' \in [Block -> SUBSET Block],
         NEW c \in Seq(Outer), Len(c) > 0, c[Len(c)].op \in {"jump", "return"},
         after' = [after EXCEPT ![bb] = c],
         NEW code \in Seq(Inner), NEW met, Resolve(Append1(code), met)
  PROVE  CodeInv'
<1>1. Where' /\ Ended' /\ after' \in [Block -> Seq(Outer)]
  BY Finish
<1>2. Flagged'
  BY NoFlags
<1>3. before' \in [Block -> Seq(Inner)] /\ resolved' \subseteq Param
  BY Emits
<1>4. Coded'
  BY <1>1, <1>3 DEF CodeInv, Coded
<1> QED
  BY <1>1, <1>2, <1>4 DEF CodeInv

LEMMA BranchTyped ==
  ASSUME CodeInv, SelectBranch
  PROVE  CodeInv'
<1> DEFINE x == Inst(bb, k)
           p == <<Cmp(Operand(k, 1, FALSE), Zero)>>
           q == Branches("ne", x.to[1], x.to[2])
           c == p \o q
           code == Moves(k, 1, FALSE)
<1>1. /\ ir \in Programs /\ bb \in Block /\ k \in DOMAIN Body(bb) /\ pc = "select" /\ x.op = "branch"
      /\ alias \in [Var -> Var \cup Param] /\ tailed \in BOOLEAN /\ succ \in [Block -> SUBSET Block]
  BY DEF CodeInv, Where, Coded, SelectBranch, Selecting
<1>2. x.to[1] \in Block /\ x.to[2] \in Block /\ 1 \in DOMAIN x.args
  BY <1>1, FieldFacts
<1>3. Operand(k, 1, FALSE) \in Reg \cup Const /\ code \in Seq(Inner)
  BY <1>1, <1>2, OperandMeets
<1>4. p \in Seq(Outer)
  BY <1>3, MakeInner, RegFacts, JoinOuter
<1>5. q \in Seq(Outer) /\ q # <<>> /\ q[Len(q)].op \in {"jump", "return"}
  BY <1>2, BranchesTyped DEF Comparisons
<1>a. after' = [after EXCEPT ![bb] = c] /\ Resolve(Append1(code), ArgsMet(k)) /\ k' = k + 1
      /\ UNCHANGED <<ir, bb, pc, alias, shared, tailed, succ>>
  BY DEF SelectBranch
<1> HIDE DEF p, q
<1>6. c \in Seq(Outer) /\ Len(c) > 0 /\ c[Len(c)].op \in {"jump", "return"}
  BY <1>4, <1>5, EndTyped
<1> HIDE DEF c, code
<1> QED
  BY <1>1, <1>3, <1>6, <1>a, Ending

LEMMA BranchOnFlagsTyped ==
  ASSUME CodeInv, SelectBranchOnFlags
  PROVE  CodeInv'
<1> DEFINE x == Inst(bb, k)
           n == Len(before[bb])
           p == <<before[bb][n]>>
           q == Branches(Inst(bb, k - 1).cond, x.to[1], x.to[2])
           c == p \o q
           left == SubSeq(before[bb], 1, n - 1)
<1>1. /\ ir \in Programs /\ bb \in Block /\ k \in DOMAIN Body(bb) /\ pc = "select" /\ x.op = "branch"
      /\ before \in [Block -> Seq(Inner)] /\ k > 1 /\ FlagsOnly(bb, k - 1)
  BY DEF CodeInv, Where, Coded, SelectBranchOnFlags, Selecting
<1>2. x.to[1] \in Block /\ x.to[2] \in Block
  BY <1>1, FieldFacts
<1>3. k - 1 \in DOMAIN Body(bb)
  BY <1>1, BlockFacts
<1>4. Inst(bb, k - 1).cond \in Comparisons
  BY <1>1, <1>3, FieldFacts DEF FlagsOnly
<1>5. before[bb] \in Seq(Inner) /\ before[bb] # <<>> /\ before[bb][n].op = "cmp"
  BY <1>1 DEF CodeInv, Flagged
<1>6. n \in Nat /\ n # 0 /\ \A i \in 1 .. n : before[bb][i] \in Inner
  BY <1>5
<1>a. after' = [after EXCEPT ![bb] = c] /\ before' = [before EXCEPT ![bb] = left] /\ k' = k + 1
      /\ UNCHANGED <<ir, bb, pc, alias, resolved, shared, tailed, succ>>
  BY DEF SelectBranchOnFlags
<1> HIDE DEF n
<1>7. before[bb][n] \in Outer
  BY <1>5, <1>6 DEF Inner, Outer
<1>8. p \in Seq(Outer)
  BY <1>7, JoinOuter
<1>9. q \in Seq(Outer) /\ q # <<>> /\ q[Len(q)].op \in {"jump", "return"}
  <2> DEFINE c1 == Inst(bb, k - 1).cond
             l1 == x.to[1]
             r1 == x.to[2]
  <2>1. c1 \in Comparisons /\ l1 \in Block /\ r1 \in Block
    BY <1>2, <1>4
  <2> HIDE DEF c1, l1, r1
  <2>2. LET e == Branches(c1, l1, r1)
        IN  e \in Seq(Outer) /\ e # <<>> /\ e[Len(e)].op \in {"jump", "return"}
    BY <2>1, BranchesTyped
  <2> QED
    BY <2>2 DEF c1, l1, r1
<1>10. left \in Seq(Inner)
  <2>1. 1 \in Int /\ n - 1 \in Int /\ \A i \in 1 .. n - 1 : before[bb][i] \in Inner
    BY <1>6
  <2> QED
    BY <2>1, SubSeqProperties
<1> HIDE DEF p, q
<1>11. c \in Seq(Outer) /\ Len(c) > 0 /\ c[Len(c)].op \in {"jump", "return"}
  BY <1>8, <1>9, EndTyped
<1> HIDE DEF c, left
<1>12. Where' /\ Ended' /\ after' \in [Block -> Seq(Outer)]
  BY <1>1, <1>11, <1>a, Finish
<1>13. Flagged'
  BY <1>1, <1>a, NoFlags
<1>14. before' \in [Block -> Seq(Inner)]
  BY <1>1, <1>10, <1>a
<1>15. Coded'
  BY <1>12, <1>14, <1>a DEF CodeInv, Coded
<1> QED
  BY <1>12, <1>13, <1>15 DEF CodeInv

LEMMA MoveOuter ==
  ASSUME NEW o, NEW imm \in BOOLEAN, NEW fresh \in Fresh
  PROVE  MoveAt(o, imm, fresh) \in Seq(Outer) /\ MoveAt(o, imm, fresh) \in Seq(Inner)
<1>1. Moved(o, imm) => Mv(fresh, o) \in Outer /\ Mv(fresh, o) \in Inner
  BY MakeInner, RegFacts DEF Moved
<1> QED
  BY <1>1 DEF MoveAt

LEMMA BranchOnAndTyped ==
  ASSUME CodeInv, SelectBranchOnAnd
  PROVE  CodeInv'
<1> DEFINE x == Inst(bb, k)
           conj == DefOf(x.args[1])
           c == [h \in {1, 2} |-> DefOf(conj.args[h])]
           o(h, i) == OperandAt(c[h].args[i], i = 2, <<bb, k, 2 * h + i - 2>>)
           m(h, i) == MoveAt(c[h].args[i], i = 2, <<bb, k, 2 * h + i - 2>>)
           cmp(h) == <<Cmp(o(h, 1), o(h, 2))>>
           p == cmp(1) \o m(1, 1) \o m(1, 2) \o <<Branch(Opposite(c[1].cond), x.to[2])>>
                \o cmp(2) \o m(2, 1)
           q == Branches(c[2].cond, x.to[1], x.to[2])
           e == cmp(1) \o m(1, 1) \o m(1, 2) \o <<Branch(Opposite(c[1].cond), x.to[2])>>
                \o cmp(2) \o m(2, 1) \o Branches(c[2].cond, x.to[1], x.to[2])
           met == [i \in 1 .. 4 |-> <<c[(i + 1) \div 2].args[2 - (i % 2)], bb>>]
<1>0. Selecting("branch")
  BY DEF SelectBranchOnAnd
<1>1. /\ ir \in Programs /\ bb \in Block /\ k \in DOMAIN Body(bb) /\ pc = "select" /\ x.op = "branch"
      /\ alias \in [Var -> Var \cup Param] /\ k \in Nat /\ bb \in Nat
      /\ tailed \in BOOLEAN /\ succ \in [Block -> SUBSET Block]
  BY <1>0, InstFacts DEF CodeInv, Where, Coded, Selecting, Block
<1>2. x.to[1] \in Block /\ x.to[2] \in Block /\ 1 \in DOMAIN x.args
  BY <1>1, FieldFacts
<1>3. ASSUME NEW h \in {1, 2}, NEW i \in {1, 2}
      PROVE  c[h].args[i] \in Operands /\ c[h].cond \in Comparisons
  <2>1. AndOfCmps(x.args[1])
    BY DEF SelectBranchOnAnd
  <2>2. LET d == DefOf(conj.args[h])
        IN  d.args[1] \in Operands /\ d.args[2] \in Operands /\ d.cond \in Comparisons
    BY <1>1, <1>2, <2>1, ConjunctionFacts
  <2>3. c[h] = DefOf(conj.args[h])
    OBVIOUS
  <2> QED
    BY <2>2, <2>3
<1>a. /\ after' = [after EXCEPT ![bb] = e] /\ Resolve(Append1(m(2, 2)), met) /\ k' = k + 1
      /\ UNCHANGED <<ir, bb, pc, alias, shared, tailed, succ>>
  BY DEF SelectBranchOnAnd
<1> HIDE DEF c, conj, met
<1>4. \A h, i \in {1, 2} : <<bb, k, 2 * h + i - 2>> \in Fresh
  <2>1. \A h, i \in {1, 2} : 2 * h + i - 2 \in Nat
    OBVIOUS
  <2> QED
    BY <1>1, <2>1 DEF Fresh
<1>5. ASSUME NEW h \in {1, 2}, NEW i \in {1, 2}
      PROVE  o(h, i) \in Reg \cup Const /\ m(h, i) \in Seq(Inner) /\ m(h, i) \in Seq(Outer)
  <2>1. c[h].args[i] \in Operands /\ <<bb, k, 2 * h + i - 2>> \in Fresh /\ (i = 2) \in BOOLEAN
    BY <1>3, <1>4
  <2> QED
    BY <1>1, <2>1, OperandTyped, MoveOuter
<1> HIDE DEF o, m
<1>6. cmp(1) \in Seq(Outer) /\ cmp(2) \in Seq(Outer)
  <2>1. \A h \in {1, 2} : Cmp(o(h, 1), o(h, 2)) \in Outer
    BY <1>5, MakeInner
  <2> QED
    BY <2>1, JoinOuter
<1> HIDE DEF cmp
<1>7. <<Branch(Opposite(c[1].cond), x.to[2])>> \in Seq(Outer)
  <2>1. c[1].cond \in Comparisons
    BY <1>3
  <2>2. Opposite(c[1].cond) \in Condition
    BY <2>1 DEF Opposite, Comparisons, Condition
  <2> QED
    BY <1>2, <2>2, MakeInner, JoinOuter
<1>8. q \in Seq(Outer) /\ q # <<>> /\ q[Len(q)].op \in {"jump", "return"}
  <2> DEFINE c1 == c[2].cond
             l1 == x.to[1]
             r1 == x.to[2]
  <2>1. c1 \in Comparisons /\ l1 \in Block /\ r1 \in Block
    BY <1>2, <1>3
  <2> HIDE DEF c1, l1, r1
  <2>2. LET z == Branches(c1, l1, r1)
        IN  z \in Seq(Outer) /\ z # <<>> /\ z[Len(z)].op \in {"jump", "return"}
    BY <2>1, BranchesTyped
  <2> QED
    BY <2>2 DEF c1, l1, r1
<1>b. m(1, 1) \in Seq(Outer) /\ m(1, 2) \in Seq(Outer) /\ m(2, 1) \in Seq(Outer) /\ m(2, 2) \in Seq(Inner)
  BY <1>5
<1> DEFINE b == <<Branch(Opposite(c[1].cond), x.to[2])>>
<1>9. p \in Seq(Outer)
  <2>1. b \in Seq(Outer)
    BY <1>7
  <2> HIDE DEF b
  <2>2. cmp(1) \o m(1, 1) \o m(1, 2) \o b \o cmp(2) \o m(2, 1) \in Seq(Outer)
    BY <1>6, <1>b, <2>1, JoinOuter, Zenon
  <2> QED
    BY <2>2 DEF b
<1>10. e = p \o q
  OBVIOUS
<1> HIDE DEF p, q, e
<1>11. e \in Seq(Outer) /\ Len(e) > 0 /\ e[Len(e)].op \in {"jump", "return"}
  BY <1>8, <1>9, <1>10, EndTyped
<1> QED
  BY <1>1, <1>11, <1>a, <1>b, Ending

LEMMA PassTyped ==
  ASSUME CodeInv, pc = "select", k \in DOMAIN Body(bb)
  PROVE  PassArgs \in Seq(Inner)
<1> DEFINE x == Inst(bb, k)
           n == Len(x.args)
           seqs == [i \in DOMAIN x.args |-> PassArg(i)]
<1>1. ir \in Programs /\ bb \in Block /\ alias \in [Var -> Var \cup Param]
  BY DEF CodeInv, Where, Coded
<1>2. DOMAIN x.args = 1 .. n /\ n \in Nat
  BY <1>1, FieldFacts
<1>3. ASSUME NEW i \in DOMAIN x.args PROVE PassArg(i) \in Seq(Inner)
  <2> DEFINE imm == i <= Len(Slots)
  <2>1. imm \in BOOLEAN /\ i \in Nat
    BY <1>2
  <2>2. Operand(k, i, imm) \in Reg \cup Const /\ Moves(k, i, imm) \in Seq(Inner)
    BY <1>1, <2>1, OperandMeets
  <2>3. ArgSlot(i) \in Reg
    <3>1. CASE i <= Len(Slots)
      <4>1. i \in DOMAIN Slots
        BY <1>2, <3>1, SlotFacts
      <4> QED
        BY <3>1, <4>1, SlotFacts DEF ArgSlot
    <3>2. CASE ~(i <= Len(Slots))
      BY <2>1, <3>2 DEF ArgSlot, Reg
    <3> QED
      BY <3>1, <3>2
  <2>4. <<Mv(ArgSlot(i), Operand(k, i, imm))>> \in Seq(Inner)
    BY <2>2, <2>3, MakeInner, JoinInner
  <2>5. Moves(k, i, imm) \o <<Mv(ArgSlot(i), Operand(k, i, imm))>> \in Seq(Inner)
    BY <2>2, <2>4, JoinInner, Zenon
  <2> QED
    BY <2>5 DEF PassArg
<1>4. seqs \in [1 .. n -> Seq(Inner)]
  BY <1>2, <1>3
<1>5. PassArgs = FlattenSeq(seqs)
  BY DEF PassArgs
<1> HIDE DEF seqs, n
<1> QED
  BY <1>2, <1>4, <1>5, FlattenType

LEMMA CallTyped ==
  ASSUME CodeInv, SelectCall
  PROVE  CodeInv'
<1> DEFINE x == Inst(bb, k)
           slots == [i \in DOMAIN x.args |-> ArgSlot(i)]
           call == MI("call", None, slots, "any", 0)
           code == PassArgs \o <<call, Mv(x.dst, Slots[1])>>
<1>1. /\ ir \in Programs /\ bb \in Block /\ k \in DOMAIN Body(bb) /\ pc = "select"
      /\ x.op \in {"call", "self"}
  BY DEF CodeInv, Where, Coded, SelectCall, Selecting
<1>2. x.dst \in Var /\ DOMAIN x.args = 1 .. Len(x.args) /\ Len(x.args) \in Nat
  BY <1>1, FieldFacts DEF Terminators
<1>3. ASSUME NEW i \in DOMAIN x.args PROVE ArgSlot(i) \in Reg
  <2>1. i \in Nat \ {0}
    BY <1>2
  <2>2. i <= Len(Slots) => i \in DOMAIN Slots
    BY <2>1, SlotFacts
  <2> QED
    BY <2>1, <2>2, SlotFacts DEF ArgSlot, Reg
<1>4. slots \in Seq(Reg \cup Const)
  <2>1. slots \in [1 .. Len(x.args) -> Reg \cup Const]
    BY <1>2, <1>3
  <2> HIDE DEF slots
  <2> QED
    BY <1>2, <2>1
<1>a. Resolve(Append1(code), ArgsMet(k))
  BY DEF SelectCall
<1>b. k' = k + 1 /\ UNCHANGED <<ir, bb, pc, after, alias, shared, tailed, succ>>
  BY DEF SelectCall
<1> HIDE DEF slots
<1>5. call \in Inner
  BY <1>4 DEF MI, Inner, MInst, Writing, Arith, Exiting, Condition
<1>6. Mv(x.dst, Slots[1]) \in Inner
  BY <1>2, MakeInner, RegFacts
<1> HIDE DEF call
<1>7. code \in Seq(Inner)
  BY <1>1, <1>5, <1>6, PassTyped, JoinInner
<1> HIDE DEF code
<1> QED
  BY <1>1, <1>7, <1>a, <1>b, Plain DEF Terminators

LEMMA SelfTailTyped ==
  ASSUME CodeInv, SelectSelfTail
  PROVE  CodeInv'
<1> DEFINE c == <<Jump(1)>>
           code == PassArgs
<1>1. /\ ir \in Programs /\ bb \in Block /\ k \in DOMAIN Body(bb) /\ pc = "select" /\ SelfTail(bb, k)
      /\ succ \in [Block -> SUBSET Block]
  BY DEF CodeInv, Where, Coded, SelectSelfTail, Selecting
<1>2. k + 1 \in DOMAIN Body(bb) /\ Inst(bb, k + 1).op = "return" /\ k \in Nat
  BY <1>1, InstFacts DEF SelfTail
<1>3. k + 1 = Len(Body(bb))
  BY <1>1, <1>2, InstFacts DEF Terminators
<1>4. 1 \in Block
  BY SizeAssumption DEF Block
<1>5. c \in Seq(Outer) /\ Len(c) > 0 /\ c[Len(c)].op \in {"jump", "return"}
  <2>1. Jump(1) \in Outer
    BY <1>4, MakeInner DEF Condition
  <2>2. Jump(1).op = "jump"
    BY DEF Jump, MI
  <2> QED
    BY <2>1, <2>2
<1>6. code \in Seq(Inner)
  BY <1>1, PassTyped
<1>7. /\ Resolve(Append1(code), ArgsMet(k)) /\ after' = [after EXCEPT ![bb] = c]
      /\ succ' = [succ EXCEPT ![bb] = {1}] /\ tailed' = TRUE /\ k' = k + 2
      /\ UNCHANGED <<ir, bb, alias, shared, pc>>
  BY DEF SelectSelfTail
<1>8. succ' \in [Block -> SUBSET Block] /\ tailed' \in BOOLEAN
  BY <1>1, <1>4, <1>7
<1>9. k' = (k + 1) + 1 /\ (k + 1) + 1 \in {k + 1, Len(Body(bb)) + 1}
  BY <1>2, <1>3, <1>7
<1>10. Inst(bb, k + 1).op # "cmp"
  BY <1>2
<1> HIDE DEF c, code
<1> QED
  BY <1>1, <1>2, <1>5, <1>6, <1>7, <1>8, <1>9, <1>10, Ending

LEMMA ReturnTyped ==
  ASSUME CodeInv, SelectReturn
  PROVE  CodeInv'
<1> DEFINE x == Inst(bb, k)
           c == <<Mv(Slots[1], Operand(k, 1, TRUE)), Return>>
           code == Moves(k, 1, TRUE)
<1>1. /\ ir \in Programs /\ bb \in Block /\ k \in DOMAIN Body(bb) /\ pc = "select" /\ x.op = "return"
      /\ alias \in [Var -> Var \cup Param] /\ tailed \in BOOLEAN /\ succ \in [Block -> SUBSET Block]
  BY DEF CodeInv, Where, Coded, SelectReturn, Selecting
<1>2. 1 \in DOMAIN x.args /\ TRUE \in BOOLEAN
  BY <1>1, FieldFacts
<1>3. Operand(k, 1, TRUE) \in Reg \cup Const /\ code \in Seq(Inner)
  BY <1>1, <1>2, OperandMeets
<1>a. after' = [after EXCEPT ![bb] = c] /\ Resolve(Append1(code), ArgsMet(k)) /\ k' = k + 1
      /\ UNCHANGED <<ir, bb, pc, alias, shared, tailed, succ>>
  BY DEF SelectReturn
<1>4. Mv(Slots[1], Operand(k, 1, TRUE)) \in Outer /\ Return \in Outer /\ Return.op = "return"
  <2>1. Mv(Slots[1], Operand(k, 1, TRUE)) \in Outer /\ Return \in Outer
    BY <1>3, MakeInner, RegFacts
  <2>2. Return.op = "return"
    BY DEF Return, MI
  <2> QED
    BY <2>1, <2>2
<1>5. c \in Seq(Outer) /\ Len(c) > 0 /\ c[Len(c)].op \in {"jump", "return"}
  <2>1. Len(c) = 2 /\ c[2] = Return
    OBVIOUS
  <2>2. c \in Seq(Outer)
    BY <1>4, JoinOuter
  <2> HIDE DEF c
  <2> QED
    BY <1>4, <2>1, <2>2
<1> HIDE DEF c, code
<1> QED
  BY <1>1, <1>3, <1>5, <1>a, Ending

LEMMA PhiTyped ==
  ASSUME CodeInv, SelectPhi
  PROVE  CodeInv'
<1>1. /\ k \in DOMAIN Body(bb) /\ pc = "select" /\ Inst(bb, k).op = "phi" /\ k' = k + 1
      /\ UNCHANGED <<ir, bb, pc, codeVars>>
  BY DEF SelectPhi, Selecting
<1>2. Where' /\ Ended'
  BY <1>1, Advance DEF Terminators, codeVars
<1>3. Flagged'
  BY <1>1, NoFlags
<1>4. Coded'
  BY <1>1 DEF CodeInv, Coded, codeVars
<1> QED
  BY <1>2, <1>3, <1>4 DEF CodeInv

LEMMA EndBlockTyped ==
  ASSUME CodeInv, EndBlock
  PROVE  CodeInv'
<1>1. /\ pc = "select" /\ k > Len(Body(bb)) /\ k' = 1 /\ UNCHANGED <<ir, codeVars>>
      /\ IF bb < NumBlocks THEN bb' = bb + 1 /\ pc' = pc ELSE bb' = 1 /\ pc' = "phis"
  BY DEF EndBlock
<1>2. /\ ir \in Programs /\ bb \in Block /\ k \in 1 .. Len(Body(bb)) + 1 /\ Len(Body(bb)) \in Nat \ {0}
      /\ bb \in Nat /\ NumBlocks \in Nat \ {0}
  BY <1>1, BlockFacts, SizeAssumption DEF CodeInv, Where, Block
<1>3. k = Len(Body(bb)) + 1
  BY <1>1, <1>2
<1>4. \A b \in Block : b < bb \/ b = bb => after[b] # <<>>
  BY <1>1, <1>3 DEF CodeInv, Ended
<1>5. Coded'
  BY <1>1 DEF CodeInv, Coded, codeVars
<1>6. Flagged'
  BY <1>1 DEF Flagged
<1>7. \A b \in Block : after[b] # <<>> => EndsOf(b)
  BY DEF CodeInv, Ended
<1>8. CASE bb < NumBlocks
  <2>1. bb' = bb + 1 /\ pc' = pc /\ bb + 1 \in Block
    BY <1>1, <1>2, <1>8 DEF Block
  <2>2. Len(Body(bb + 1)) \in Nat \ {0}
    BY <1>2, <2>1, BlockFacts
  <2>3. Where'
    <3>1. 1 \in 1 .. Len(Body(bb + 1)) + 1
      BY <2>2
    <3>2. 1 \in 1 .. Len(Body(bb)') + 1
      BY <1>1, <2>1, <3>1 DEF Body
    <3> QED
      BY <1>1, <1>2, <2>1, <3>2 DEF Where
  <2>4. Ended'
    <3>1. \A b \in Block : b < bb + 1 => b < bb \/ b = bb
      BY <1>2 DEF Block
    <3>2. k' # Len(Body(bb)') + 1
      BY <1>1, <2>1, <2>2 DEF Body
    <3> QED
      BY <1>1, <1>4, <1>7, <2>1, <3>1, <3>2 DEF Ended, EndsOf, codeVars
  <2> QED
    BY <1>5, <1>6, <2>3, <2>4 DEF CodeInv
<1>9. CASE ~(bb < NumBlocks)
  <2>1. bb' = 1 /\ pc' = "phis" /\ 1 \in 1 .. NumBlocks + 1
    BY <1>1, <1>2, <1>9
  <2>2. Where'
    BY <1>1, <1>2, <2>1 DEF Where
  <2>3. \A b \in Block : b < bb \/ b = bb
    BY <1>2, <1>9 DEF Block
  <2>4. Ended'
    BY <1>1, <1>4, <1>7, <2>1, <2>3 DEF Ended, EndsOf, codeVars
  <2> QED
    BY <1>5, <1>6, <2>2, <2>4 DEF CodeInv
<1> QED
  BY <1>8, <1>9

-----------------------------------------------------------------------------
(* Phis.                                                                   *)

LEMMA PhisFacts ==
  ASSUME ir \in Programs, NEW b \in Block
  PROVE  /\ Len(Phis(b)) \in 0 .. Len(Body(b)) /\ DOMAIN Phis(b) = 1 .. Len(Phis(b))
         /\ \A j \in DOMAIN Phis(b) :
              j \in DOMAIN Body(b) /\ Phis(b)[j] = Inst(b, j) /\ Inst(b, j).op = "phi"
         /\ \A j \in DOMAIN Body(b) : Inst(b, j).op = "phi" => j \in DOMAIN Phis(b)
<1> DEFINE l == Len(Body(b))
           Is(j) == j \in DOMAIN Body(b) /\ \A i \in 1 .. j : Inst(b, i).op = "phi"
           Right(i) == (i > 0 => Is(i)) /\ ~Is(i + 1)
           n == CHOOSE i \in 0 .. l : Right(i)
           T == {i \in Nat : ~Is(i + 1)}
<1>1. /\ l \in Nat /\ DOMAIN Body(b) = 1 .. l /\ Body(b) \in Seq(Instruction(ir))
  BY BlockFacts
<1>2. \A j : IsPhi(ir, b, j) <=> Is(j)
  BY DEF IsPhi, Inst, Body
<1>3. Phis(b) = SubSeq(Body(b), 1, n)
  <2>1. n = CHOOSE i \in 0 .. l : (i > 0 => IsPhi(ir, b, i)) /\ ~IsPhi(ir, b, i + 1)
    BY <1>2
  <2> QED
    BY <2>1 DEF Phis, PhisOf, Body
<1> HIDE DEF l, Is
<1>4. l \in T
  BY <1>1 DEF Is
<1>5. PICK i \in T : \A y \in T : i <= y
  <2>1. T \subseteq Nat /\ T # {}
    BY <1>4
  <2> HIDE DEF T
  <2> QED
    BY <2>1, LeastOf
<1>6. Right(i) /\ i \in 0 .. l
  <2>1. i \in Nat /\ ~Is(i + 1) /\ i <= l
    BY <1>4, <1>5
  <2>2. ASSUME i > 0 PROVE Is(i)
    <3>1. i - 1 \in Nat /\ ~(i <= i - 1) /\ (i - 1) + 1 = i
      BY <2>1, <2>2
    <3>2. i - 1 \notin T
      BY <1>5, <3>1
    <3> QED
      BY <3>1, <3>2
  <2> QED
    BY <1>1, <2>1, <2>2
<1>7. n \in 0 .. l /\ Right(n)
  BY <1>6
<1> HIDE DEF n
<1>8. n \in Nat /\ n <= l /\ (n > 0 => Is(n)) /\ ~Is(n + 1)
  BY <1>1, <1>7
<1>9. Phis(b) \in Seq(Instruction(ir)) /\ Len(Phis(b)) = n /\ \A j \in 1 .. n : Phis(b)[j] = Body(b)[j]
  <2>1. \A j \in 1 .. n : Body(b)[j] \in Instruction(ir)
    BY <1>1, <1>8 DEF l
  <2> DEFINE p == SubSeq(Body(b), 1, n)
  <2>2. /\ p \in Seq(Instruction(ir)) /\ Len(p) = IF 1 <= n THEN n - 1 + 1 ELSE 0
        /\ \A j \in 1 .. n - 1 + 1 : p[j] = Body(b)[1 + j - 1]
    BY <1>8, <2>1, SubSeqProperties
  <2> HIDE DEF p
  <2>3. n - 1 + 1 = n /\ \A j \in 1 .. n : 1 + j - 1 = j
    BY <1>8
  <2>4. p \in Seq(Instruction(ir)) /\ Len(p) = n /\ \A j \in 1 .. n : p[j] = Body(b)[j]
    BY <1>8, <2>2, <2>3
  <2> QED
    BY <1>3, <2>4 DEF p
<1>10. DOMAIN Phis(b) = 1 .. n
  BY <1>9
<1>11. \A j \in 1 .. n : j \in DOMAIN Body(b) /\ Inst(b, j).op = "phi"
  <2>1. ASSUME NEW j \in 1 .. n PROVE j \in DOMAIN Body(b) /\ Inst(b, j).op = "phi"
    <3>1. n > 0
      BY <1>8
    <3> QED
      BY <1>1, <1>8, <3>1 DEF Is
  <2> QED
    BY <2>1
<1>12. ASSUME NEW j \in DOMAIN Body(b), Inst(b, j).op = "phi" PROVE j \in 1 .. n
  <2>1. \A h \in 1 .. j - 1 : Inst(b, h).op = "phi"
    BY <1>12, InstFacts
  <2>2. j \in Nat /\ j # 0
    BY <1>1
  <2>3. \A h \in 1 .. j : h \in 1 .. j - 1 \/ h = j
    BY <2>2
  <2>4. \A h \in 1 .. j : Inst(b, h).op = "phi"
    BY <1>12, <2>1, <2>3
  <2>5. CASE j > n
    <3>1. n + 1 \in 1 .. j /\ n + 1 \in DOMAIN Body(b) /\ \A h \in 1 .. n + 1 : h \in 1 .. j
      BY <1>1, <1>8, <2>2, <2>5
    <3> QED
      BY <1>8, <2>4, <3>1 DEF Is
  <2> QED
    BY <1>8, <2>2, <2>5
<1> QED
  BY <1>8, <1>9, <1>10, <1>11, <1>12 DEF Inst, l

LEMMA IncomingFacts ==
  ASSUME ir \in Programs, NEW b \in Block, NEW j \in DOMAIN Phis(b), NEW p \in Pred(b)
  PROVE  \E i \in DOMAIN Inst(b, j).args :
           /\ Inst(b, j).in[i] = p /\ Inst(b, j).args[i] \in Operands
           /\ Incoming(b, j, p) = [arg |-> Inst(b, j).args[i],
                                   val |-> OperandAt(Inst(b, j).args[i], TRUE, <<b, j, i>>),
                                   move |-> MoveAt(Inst(b, j).args[i], TRUE, <<b, j, i>>)]
           /\ <<b, j, i>> \in Fresh
<1> DEFINE x == Inst(b, j)
           i == CHOOSE h \in DOMAIN x.in : x.in[h] = p
<1>1. j \in DOMAIN Body(b) /\ Phis(b)[j] = x /\ x.op = "phi"
  BY PhisFacts
<1>2. {x.in[h] : h \in DOMAIN x.in} = Pred(b) /\ DOMAIN x.args = DOMAIN x.in /\ j \in Nat
  BY <1>1, InstFacts, FieldFacts
<1>3. i \in DOMAIN x.in /\ x.in[i] = p
  BY <1>2
<1> HIDE DEF i
<1>4. i \in DOMAIN x.args /\ x.args[i] \in Operands /\ i \in Nat
  BY <1>1, <1>2, <1>3, FieldFacts
<1>5. <<b, j, i>> \in Fresh
  BY <1>2, <1>4 DEF Fresh, Block
<1> QED
  BY <1>1, <1>3, <1>4, <1>5 DEF Incoming, i

LEMMA AssignedTyped ==
  ASSUME NEW n \in Nat, NEW pairs, DOMAIN pairs = 1 .. n,
         \A j \in 1 .. n : pairs[j][1] \in Reg /\ pairs[j][2] \in Reg \cup Const
  PROVE  Assigned(pairs) \in Seq(Inner)
<1> DEFINE seqs == [j \in DOMAIN pairs |->
                      IF pairs[j][1] = pairs[j][2] THEN <<>> ELSE <<Mv(pairs[j][1], pairs[j][2])>>]
<1>1. ASSUME NEW j \in 1 .. n PROVE seqs[j] \in Seq(Inner)
  <2>1. Mv(pairs[j][1], pairs[j][2]) \in Inner
    BY MakeInner
  <2> QED
    BY <2>1
<1>2. seqs \in [1 .. n -> Seq(Inner)]
  BY <1>1
<1>3. Assigned(pairs) = FlattenSeq(seqs)
  BY DEF Assigned
<1> HIDE DEF seqs
<1> QED
  BY <1>2, <1>3, FlattenType

LEMMA PhiMovesTyped ==
  ASSUME ir \in Programs, NEW b \in Block, alias \in [Var -> Var \cup Param]
  PROVE  /\ HeadMoves(b) \in Seq(Inner)
         /\ \A p \in Pred(b) : \A direct \in BOOLEAN : EdgeMoves(b, p, direct) \in Seq(Inner)
         /\ \A p \in Pred(b) : FlattenSeq([j \in DOMAIN Phis(b) |-> Incoming(b, j, p).move]) \in Seq(Inner)
<1> DEFINE n == Len(Phis(b))
<1>1. n \in Nat /\ DOMAIN Phis(b) = 1 .. n
  BY PhisFacts
<1>2. ASSUME NEW j \in 1 .. n PROVE Phis(b)[j].dst \in Reg /\ Vr(b, j) \in Reg
  <2>1. Phis(b)[j].dst \in Var
    BY <1>1, PhisFacts, FieldFacts DEF Terminators
  <2> QED
    BY <1>1, <2>1, RegFacts DEF Vr, Fresh, Block
<1>3. ASSUME NEW j \in 1 .. n, NEW p \in Pred(b)
      PROVE  Incoming(b, j, p).val \in Reg \cup Const /\ Incoming(b, j, p).move \in Seq(Inner)
  <2>1. PICK i \in DOMAIN Inst(b, j).args :
           /\ Inst(b, j).args[i] \in Operands
           /\ Incoming(b, j, p) = [arg |-> Inst(b, j).args[i],
                                   val |-> OperandAt(Inst(b, j).args[i], TRUE, <<b, j, i>>),
                                   move |-> MoveAt(Inst(b, j).args[i], TRUE, <<b, j, i>>)]
           /\ <<b, j, i>> \in Fresh
    BY <1>1, IncomingFacts
  <2>2. /\ OperandAt(Inst(b, j).args[i], TRUE, <<b, j, i>>) \in Reg \cup Const
        /\ MoveAt(Inst(b, j).args[i], TRUE, <<b, j, i>>) \in Seq(Inner)
    BY <2>1, OperandTyped
  <2> DEFINE w == OperandAt(Inst(b, j).args[i], TRUE, <<b, j, i>>)
             m == MoveAt(Inst(b, j).args[i], TRUE, <<b, j, i>>)
  <2>3. Incoming(b, j, p) = [arg |-> Inst(b, j).args[i], val |-> w, move |-> m]
    BY <2>1
  <2> HIDE DEF w, m
  <2>4. Incoming(b, j, p).val = w /\ Incoming(b, j, p).move = m
    BY <2>3
  <2> QED
    BY <2>2, <2>4 DEF w, m
<1> HIDE DEF n
<1>4. HeadMoves(b) \in Seq(Inner)
  <2> DEFINE pairs == [j \in DOMAIN Phis(b) |-> <<Phis(b)[j].dst, Vr(b, j)>>]
  <2>1. DOMAIN pairs = 1 .. n /\ \A j \in 1 .. n : pairs[j][1] \in Reg /\ pairs[j][2] \in Reg \cup Const
    BY <1>1, <1>2
  <2>2. HeadMoves(b) = Assigned(pairs)
    BY DEF HeadMoves
  <2> HIDE DEF pairs
  <2> QED
    BY <1>1, <2>1, <2>2, AssignedTyped
<1>5. ASSUME NEW p \in Pred(b), NEW direct \in BOOLEAN PROVE EdgeMoves(b, p, direct) \in Seq(Inner)
  <2> DEFINE pairs == [j \in DOMAIN Phis(b) |->
                         <<IF direct THEN Phis(b)[j].dst ELSE Vr(b, j), Incoming(b, j, p).val>>]
  <2>1. DOMAIN pairs = 1 .. n /\ \A j \in 1 .. n : pairs[j][1] \in Reg /\ pairs[j][2] \in Reg \cup Const
    BY <1>1, <1>2, <1>3
  <2>2. EdgeMoves(b, p, direct) = Assigned(pairs)
    BY DEF EdgeMoves
  <2> HIDE DEF pairs
  <2> QED
    BY <1>1, <2>1, <2>2, AssignedTyped
<1>6. ASSUME NEW p \in Pred(b)
      PROVE  FlattenSeq([j \in DOMAIN Phis(b) |-> Incoming(b, j, p).move]) \in Seq(Inner)
  <2> DEFINE seqs == [j \in DOMAIN Phis(b) |-> Incoming(b, j, p).move]
  <2>1. seqs \in [1 .. n -> Seq(Inner)]
    BY <1>1, <1>3
  <2> HIDE DEF seqs
  <2>2. FlattenSeq(seqs) \in Seq(Inner)
    BY <1>1, <2>1, FlattenType
  <2> QED
    BY <2>2 DEF seqs
<1> QED
  BY <1>4, <1>5, <1>6

LEMMA LowerPhisTyped ==
  ASSUME CodeInv, LowerPhis
  PROVE  CodeInv'
<1> DEFINE direct == CanDirect(bb)
           pre(p) == IF p = bb /\ ~direct THEN HeadMoves(bb) ELSE <<>>
           post(p) == IF p \in Pred(bb)
                      THEN FlattenSeq([j \in DOMAIN Phis(bb) |-> Incoming(bb, j, p).move])
                           \o EdgeMoves(bb, p, direct)
                      ELSE <<>>
           code == [p \in Block |-> pre(p) \o (before[p] \o post(p))]
<1>1. /\ pc = "phis" /\ bb <= NumBlocks /\ bb' = bb + 1 /\ Resolve(code, PhisMet(bb))
      /\ UNCHANGED <<ir, k, after, alias, shared, tailed, succ, pc>>
  BY DEF LowerPhis
<1>2. /\ ir \in Programs /\ bb \in 1 .. NumBlocks + 1 /\ k = 1 /\ before \in [Block -> Seq(Inner)]
      /\ alias \in [Var -> Var \cup Param] /\ NumBlocks \in Nat /\ resolved \subseteq Param
  BY <1>1, SizeAssumption DEF CodeInv, Where, Coded
<1>3. bb \in Block /\ bb + 1 \in 1 .. NumBlocks + 1
  BY <1>1, <1>2 DEF Block
<1>4. direct \in BOOLEAN
  BY DEF CanDirect
<1> HIDE DEF direct
<1>5. ASSUME NEW p \in Block PROVE pre(p) \in Seq(Inner) /\ post(p) \in Seq(Inner)
  <2>1. pre(p) \in Seq(Inner)
    BY <1>2, <1>3, PhiMovesTyped, JoinInner
  <2>2. p \in Pred(bb) => FlattenSeq([j \in DOMAIN Phis(bb) |-> Incoming(bb, j, p).move]) \in Seq(Inner)
                          /\ EdgeMoves(bb, p, direct) \in Seq(Inner)
    BY <1>2, <1>3, <1>4, PhiMovesTyped
  <2>3. post(p) \in Seq(Inner)
    BY <2>2, JoinInner, Zenon
  <2> QED
    BY <2>1, <2>3
<1> HIDE DEF pre, post
<1>6. code \in [Block -> Seq(Inner)]
  <2>1. ASSUME NEW p \in Block PROVE pre(p) \o (before[p] \o post(p)) \in Seq(Inner)
    <3>1. before[p] \in Seq(Inner)
      BY <1>2
    <3> QED
      BY <1>5, <3>1, JoinInner, Zenon
  <2> QED
    BY <2>1
<1> HIDE DEF code
<1>7. before' \in [Block -> Seq(Inner)] /\ resolved' \subseteq Param
  BY <1>1, <1>2, <1>6, ResolveTyped
<1>8. Coded'
  BY <1>1, <1>7 DEF CodeInv, Coded
<1>9. Where' /\ Flagged'
  BY <1>1, <1>2, <1>3 DEF Where, Flagged
<1>10. Ended'
  BY <1>1 DEF CodeInv, Ended, EndsOf
<1> QED
  BY <1>8, <1>9, <1>10 DEF CodeInv

-----------------------------------------------------------------------------
(* The run of the IR.                                                      *)

\* The state of the IR within a block.
IrState(s) ==
  /\ s = [env |-> s.env, args |-> s.args, saw |-> s.saw, to |-> s.to]
  /\ s.env \in [Var -> Value] /\ \A i \in DOMAIN s.args : s.args[i] \in Value

LEMMA IrValTyped ==
  ASSUME NEW e \in [Var -> Value], args \in [Param -> Value], NEW o \in Operands
  PROVE  IrVal(e, o) \in Value
BY ValueFacts DEF IrVal, Operands

\* Instruction j leaves block b for one of the blocks after it, or starts the function again.
LEMMA IrStepTyped ==
  ASSUME ir \in Programs, NEW b \in Block, NEW j \in DOMAIN Body(b), args \in [Param -> Value],
         NEW s, IrState(s), s.to = -1
  PROVE  LET z == IrStep(s, b, j)
         IN  /\ IrState(z) /\ (j = Len(Body(b)) => z.to # -1)
             /\ z.to \in {-1, 0} \cup Succ(b) \/ (z.to = 1 /\ SelfTail(b, j))
<1> DEFINE x == Inst(b, j)
           vals == [i \in DOMAIN x.args |-> IrVal(s.env, x.args[i])]
           e == s.env
           a == s.args
           w == s.saw
           t == s.to
           set(v) == [s EXCEPT !.env[x.dst] = v]
           z == IrStep(s, b, j)
           Good(y) == /\ IrState(y) /\ (j = Len(Body(b)) => y.to # -1)
                      /\ y.to \in {-1, 0} \cup Succ(b) \/ (y.to = 1 /\ SelfTail(b, j))
<1>1. s = [env |-> e, args |-> a, saw |-> w, to |-> t] /\ e \in [Var -> Value]
      /\ (\A i \in DOMAIN a : a[i] \in Value) /\ t = -1
  BY DEF IrState
<1>2. PICK n \in Nat : DOMAIN x.args = 1 .. n /\ n = Len(x.args)
  BY FieldFacts
<1>3. \A i \in DOMAIN x.args : IrVal(e, x.args[i]) \in Value
  BY <1>1, FieldFacts, IrValTyped
<1>4. vals \in [1 .. n -> Value]
  BY <1>2, <1>3
<1>5. /\ x.op \in Terminators \cup Binary \cup {"alias", "call", "self", "phi"}
      /\ x.op \in Terminators <=> j = Len(Body(b))
  BY FieldFacts, InstFacts
<1>6. ASSUME NEW v \in Value, x.op \notin Terminators, NEW w2
      PROVE  Good([env |-> [e EXCEPT ![x.dst] = v], args |-> a, saw |-> w2, to |-> t])
  <2>1. [e EXCEPT ![x.dst] = v] \in [Var -> Value]
    BY <1>1
  <2> QED
    BY <1>1, <1>5, <1>6, <2>1 DEF IrState
<1>7. ASSUME NEW v \in Value, x.op \notin Terminators PROVE Good(set(v))
  <2>1. set(v) = [env |-> [e EXCEPT ![x.dst] = v], args |-> a, saw |-> w, to |-> t]
    BY <1>1
  <2> HIDE DEF Good, set
  <2> QED
    BY <1>6, <1>7, <2>1
<1>8. ASSUME NEW t2 \in {0} \cup Succ(b), t2 # -1, x.op \in Terminators, NEW w2
      PROVE  Good([env |-> e, args |-> a, saw |-> w2, to |-> t2])
  BY <1>1, <1>8 DEF IrState
<1>9. \A i \in DOMAIN x.to : x.op \in Terminators => x.to[i] \in Succ(b) /\ x.to[i] # -1
  <2>1. x.op \in Terminators => Succ(b) = {x.to[i] : i \in DOMAIN x.to}
    BY <1>5 DEF Succ, SuccOf, Inst, Body
  <2>2. x.op \in {"jump", "branch"} \/ DOMAIN x.to = {}
    BY FieldFacts
  <2>3. \A i \in DOMAIN x.to : x.to[i] \in 2 .. NumBlocks
    <3> DEFINE C == 2 .. NumBlocks
    <3>1. x.to \in Seq(C)
      BY FieldFacts
    <3> HIDE DEF C
    <3>2. \A i \in DOMAIN x.to : x.to[i] \in C
      BY <3>1
    <3> QED
      BY <3>2 DEF C
  <2> QED
    BY <2>1, <2>3
<1> HIDE DEF Good
<1>10. Good(z)
  <2>1. CASE x.op \in {"add", "sub", "mul", "div", "and"}
    <3>1. 1 \in 1 .. n /\ 2 \in 1 .. n
      BY <1>2, <2>1, FieldFacts DEF Binary
    <3>2. vals[1] \in Value /\ vals[2] \in Value
      BY <1>4, <3>1
    <3>3. z = set(Eval(x.op, vals[1], vals[2]))
      BY <1>1, <2>1 DEF IrStep
    <3>4. x.op \in Arith /\ x.op \notin Terminators
      BY <2>1 DEF Arith, Terminators
    <3> HIDE DEF z, vals, set
    <3>5. Eval(x.op, vals[1], vals[2]) \in Value
      BY <3>2, <3>4, EvalType
    <3> QED
      BY <1>7, <3>3, <3>4, <3>5
  <2>2. CASE x.op = "alias"
    <3>1. 1 \in 1 .. n
      BY <1>2, <2>2, FieldFacts
    <3>2. vals[1] \in Value
      BY <1>4, <3>1
    <3>3. z = set(vals[1])
      BY <1>1, <2>2 DEF IrStep
    <3> HIDE DEF z, vals, set
    <3> QED
      BY <1>7, <2>2, <3>2, <3>3 DEF Terminators
  <2>3. CASE x.op = "cmp"
    <3>1. z = set(IF Holds(x.cond, vals[1], vals[2]) THEN 1 ELSE 0)
      BY <1>1, <2>3 DEF IrStep
    <3> HIDE DEF z, vals, set
    <3>2. (IF Holds(x.cond, vals[1], vals[2]) THEN 1 ELSE 0) \in Value
      BY ValueFacts
    <3> QED
      BY <1>7, <2>3, <3>1, <3>2 DEF Terminators
  <2>4. CASE x.op = "call" \/ (x.op = "self" /\ ~SelfTail(b, j))
    <3> DEFINE v == Result(vals)
               w2 == Append(w, vals)
               y == [env |-> [e EXCEPT ![x.dst] = v], args |-> a, saw |-> w, to |-> t]
    <3>1. z = [set(v) EXCEPT !.saw = Append(@, vals)]
      BY <1>1, <2>4 DEF IrStep
    <3>2. v \in Value
      BY <1>4, ResultType
    <3> HIDE DEF z, vals, v
    <3>3. set(v) = y
      BY <1>1
    <3> HIDE DEF w2
    <3>4. [y EXCEPT !.saw = w2] = [env |-> [e EXCEPT ![x.dst] = v], args |-> a, saw |-> w2, to |-> t]
      OBVIOUS
    <3>5. [set(v) EXCEPT !.saw = Append(@, vals)] = [y EXCEPT !.saw = w2]
      BY <3>3 DEF w2
    <3>6. Good([env |-> [e EXCEPT ![x.dst] = v], args |-> a, saw |-> w2, to |-> t])
      BY <1>6, <2>4, <3>2 DEF Terminators
    <3> QED
      BY <3>1, <3>4, <3>5, <3>6
  <2>5. CASE x.op = "self" /\ SelfTail(b, j)
    <3> DEFINE y == [env |-> e, args |-> a, saw |-> w, to |-> 1]
               f == [env |-> e, args |-> vals, saw |-> w, to |-> 1]
    <3>1. z = [s EXCEPT !.to = 1, !.args = vals]
      BY <1>1, <2>5 DEF IrStep
    <3>2. \A i \in DOMAIN vals : vals[i] \in Value
      BY <1>4
    <3> HIDE DEF z, vals
    <3>3. [s EXCEPT !.to = 1] = y
      BY <1>1
    <3>4. [y EXCEPT !.args = vals] = f
      OBVIOUS
    <3>5. [s EXCEPT !.to = 1, !.args = vals] = [[s EXCEPT !.to = 1] EXCEPT !.args = vals]
      BY Zenon
    <3>6. z = f
      BY <3>1, <3>3, <3>4, <3>5
    <3>7. IrState(f)
      BY <1>1, <3>2 DEF IrState
    <3> QED
      BY <2>5, <3>6, <3>7 DEF Good
  <2>6. CASE x.op = "jump"
    <3>1. z = [s EXCEPT !.to = x.to[1]]
      BY <1>1, <2>6 DEF IrStep
    <3>2. 1 \in DOMAIN x.to
      BY <2>6, FieldFacts
    <3>3. x.to[1] \in Succ(b) /\ x.to[1] # -1
      BY <1>9, <2>6, <3>2 DEF Terminators
    <3>4. z = [env |-> e, args |-> a, saw |-> w, to |-> x.to[1]]
      <4> HIDE DEF z
      <4> QED
        BY <1>1, <3>1
    <3> QED
      BY <1>8, <2>6, <3>3, <3>4 DEF Terminators
  <2>7. CASE x.op = "branch"
    <3> DEFINE t2 == IF vals[1] # 0 THEN x.to[1] ELSE x.to[2]
    <3>1. z = [s EXCEPT !.to = t2]
      BY <1>1, <2>7 DEF IrStep
    <3>2. 1 \in DOMAIN x.to /\ 2 \in DOMAIN x.to
      BY <2>7, FieldFacts
    <3>3. t2 \in Succ(b) /\ t2 # -1
      BY <1>9, <2>7, <3>2 DEF Terminators
    <3> HIDE DEF t2
    <3>4. z = [env |-> e, args |-> a, saw |-> w, to |-> t2]
      <4> HIDE DEF z
      <4> QED
        BY <1>1, <3>1
    <3> QED
      BY <1>8, <2>7, <3>3, <3>4 DEF Terminators
  <2>8. CASE x.op = "return"
    <3> DEFINE y == [env |-> e, args |-> a, saw |-> w, to |-> 0]
               w2 == Append(w, vals)
               f == [env |-> e, args |-> a, saw |-> w2, to |-> 0]
    <3>1. z = [s EXCEPT !.to = 0, !.saw = Append(@, vals)]
      BY <1>1, <2>8 DEF IrStep
    <3> HIDE DEF z, vals
    <3>3. [s EXCEPT !.to = 0] = y
      BY <1>1
    <3> HIDE DEF w2
    <3>4. [y EXCEPT !.saw = w2] = f
      OBVIOUS
    <3>5. [s EXCEPT !.to = 0, !.saw = Append(@, vals)] = [[s EXCEPT !.to = 0] EXCEPT !.saw = w2]
      BY <1>1, <3>3, Zenon DEF w2
    <3>6. z = f
      BY <3>1, <3>3, <3>4, <3>5
    <3> QED
      BY <1>8, <2>8, <3>6 DEF Terminators
  <2>9. CASE x.op = "phi"
    <3>1. z = s
      BY <1>1, <2>9 DEF IrStep
    <3> QED
      BY <1>1, <1>5, <2>9, <3>1 DEF Good, Terminators
  <2> QED
    BY <1>5, <2>1, <2>2, <2>3, <2>4, <2>5, <2>6, <2>7, <2>8, <2>9 DEF Terminators, Binary
<1> QED
  BY <1>10 DEF Good

\* The states of the IR while it runs block b.
IsIrRun(g, b) ==
  g = [j \in 0 .. Len(Body(b)) |->
         IF j = 0 THEN [env |-> PhiEnv(b), args |-> <<>>, saw |-> <<>>, to |-> -1]
         ELSE IrStep(g[j - 1], b, j)]

LEMMA IrRunExists ==
  ASSUME NEW b, Len(Body(b)) \in Nat
  PROVE  \E g : IsIrRun(g, b)
<1> DEFINE n == Len(Body(b))
           a == [env |-> PhiEnv(b), args |-> <<>>, saw |-> <<>>, to |-> -1]
           Is(g, m) == g = [j \in 0 .. m |-> IF j = 0 THEN a ELSE IrStep(g[j - 1], b, j)]
           T == {m \in 0 .. n : \E g : Is(g, m)}
<1> HIDE DEF a
<1>1. 0 \in T
  <2> DEFINE h == [i \in 0 .. 0 |-> a]
  <2>1. Is(h, 0)
    OBVIOUS
  <2> HIDE DEF Is
  <2> QED
    BY <2>1
<1>2. ASSUME NEW m \in 1 .. n, m - 1 \in T PROVE m \in T
  <2>1. PICK g : Is(g, m - 1)
    BY <1>2
  <2> DEFINE h == [i \in 0 .. m |-> IF i = m THEN IrStep(g[m - 1], b, m) ELSE g[i]]
  <2>2. \A i \in 0 .. (m - 1) : h[i] = g[i]
    OBVIOUS
  <2>3. \A i \in 0 .. (m - 1) : g[i] = (IF i = 0 THEN a ELSE IrStep(g[i - 1], b, i))
    BY <2>1
  <2>4. ASSUME NEW i \in 0 .. m
        PROVE  h[i] = (IF i = 0 THEN a ELSE IrStep(h[i - 1], b, i))
    <3>1. CASE i = m
      <4>1. h[i] = IrStep(g[m - 1], b, m) /\ m - 1 \in 0 .. (m - 1) /\ i # 0
        BY <3>1
      <4>2. h[m - 1] = g[m - 1]
        BY <2>2, <4>1
      <4> HIDE DEF h
      <4> QED
        BY <3>1, <4>1, <4>2
    <3>2. CASE i # m
      <4>1. i \in 0 .. (m - 1) /\ (i # 0 => i - 1 \in 0 .. (m - 1))
        BY <3>2
      <4>2. h[i] = g[i] /\ (i # 0 => h[i - 1] = g[i - 1])
        BY <2>2, <4>1
      <4> HIDE DEF h
      <4> QED
        BY <2>3, <4>1, <4>2
    <3> QED
      BY <3>1, <3>2
  <2>5. h = [i \in 0 .. m |-> h[i]]
    OBVIOUS
  <2> HIDE DEF h
  <2>6. Is(h, m)
    BY <2>4, <2>5
  <2> HIDE DEF Is
  <2> QED
    BY <2>6
<1> HIDE DEF T
<1>3. n \in T
  BY <1>1, <1>2, Counting DEF Steps
<1> QED
  BY <1>3 DEF T, IsIrRun, a

LEMMA IrBlockRun ==
  ASSUME ir \in Programs, at \in Block
  PROVE  \E g : IsIrRun(g, at) /\ IrBlock = g[Len(Body(at))]
<1>1. Len(Body(at)) \in Nat
  BY BlockFacts
<1>2. \E g : IsIrRun(g, at)
  BY <1>1, IrRunExists
<1> DEFINE run == CHOOSE g : IsIrRun(g, at)
<1>3. IsIrRun(run, at)
  BY <1>2
<1>4. IrBlock = run[Len(Body(at))]
  BY DEF IrBlock, IsIrRun
<1> QED
  BY <1>3, <1>4

LEMMA PhiEnvTyped ==
  ASSUME ir \in Programs, at \in Block, at # 1 => from \in Pred(at), env \in [Var -> Value],
         args \in [Param -> Value]
  PROVE  PhiEnv(at) \in [Var -> Value]
<1> DEFINE j(v) == CHOOSE j \in DOMAIN Phis(at) : Phis(at)[j].dst = v
           val(v) == IF \E h \in DOMAIN Phis(at) : Phis(at)[h].dst = v
                     THEN IrVal(env, Incoming(at, j(v), from).arg) ELSE env[v]
<1>1. ASSUME NEW v \in Var PROVE val(v) \in Value
  <2>1. CASE \E h \in DOMAIN Phis(at) : Phis(at)[h].dst = v
    <3>1. j(v) \in DOMAIN Phis(at)
      BY <2>1
    <3> HIDE DEF j
    <3>2. at # 1
      BY <3>1, PhisFacts, InstFacts
    <3>3. Incoming(at, j(v), from).arg \in Operands
      <4>1. PICK i \in DOMAIN Inst(at, j(v)).args :
              /\ Inst(at, j(v)).args[i] \in Operands
              /\ Incoming(at, j(v), from) = [arg |-> Inst(at, j(v)).args[i],
                   val |-> OperandAt(Inst(at, j(v)).args[i], TRUE, <<at, j(v), i>>),
                   move |-> MoveAt(Inst(at, j(v)).args[i], TRUE, <<at, j(v), i>>)]
        BY <3>1, <3>2, IncomingFacts
      <4> QED
        BY <4>1
    <3>4. IrVal(env, Incoming(at, j(v), from).arg) \in Value
      BY <3>3, IrValTyped
    <3> QED
      BY <2>1, <3>4
  <2>2. CASE ~\E h \in DOMAIN Phis(at) : Phis(at)[h].dst = v
    BY <2>2
  <2> QED
    BY <2>1, <2>2
<1>2. PhiEnv(at) = [v \in Var |-> val(v)]
  BY DEF PhiEnv
<1> HIDE DEF val
<1> QED
  BY <1>1, <1>2

\* Where a block of the IR goes.
LEMMA IrBlockTyped ==
  ASSUME ir \in Programs, at \in Block, at # 1 => from \in Pred(at), env \in [Var -> Value],
         args \in [Param -> Value]
  PROVE  /\ IrState(IrBlock)
         /\ \/ IrBlock.to \in {0} \cup Succ(at)
            \/ IrBlock.to = 1 /\ \E j \in DOMAIN Body(at) : SelfTail(at, j)
<1>1. PICK g : IsIrRun(g, at) /\ IrBlock = g[Len(Body(at))]
  BY IrBlockRun
<1> DEFINE n == Len(Body(at))
           a == [env |-> PhiEnv(at), args |-> <<>>, saw |-> <<>>, to |-> -1]
           Went(t) == t \in {-1, 0} \cup Succ(at) \/ (t = 1 /\ \E h \in DOMAIN Body(at) : SelfTail(at, h))
           Good(j) == IrState(g[j]) /\ Went(g[j].to) /\ (j = n => g[j].to # -1)
           T == {j \in 0 .. n : Good(j)}
<1>2. n \in Nat \ {0} /\ DOMAIN Body(at) = 1 .. n
  BY BlockFacts
<1>3. g[0] = a /\ \A j \in 1 .. n : g[j] = IrStep(g[j - 1], at, j)
  BY <1>1, <1>2 DEF IsIrRun
<1>4. 0 \in T
  <2>1. IrState(a) /\ a.to = -1
    BY PhiEnvTyped DEF IrState
  <2> HIDE DEF a
  <2> QED
    BY <1>2, <1>3, <2>1
<1>5. ASSUME NEW j \in 1 .. n, j - 1 \in T PROVE j \in T
  <2>1. Good(j - 1) /\ j \in DOMAIN Body(at)
    BY <1>2, <1>5
  <2>2. CASE g[j - 1].to # -1
    <3>1. g[j] = g[j - 1]
      BY <1>3, <2>2 DEF IrStep
    <3> QED
      BY <2>1, <2>2, <3>1
  <2>3. CASE g[j - 1].to = -1
    <3>1. /\ IrState(IrStep(g[j - 1], at, j))
          /\ j = Len(Body(at)) => IrStep(g[j - 1], at, j).to # -1
          /\ \/ IrStep(g[j - 1], at, j).to \in {-1, 0} \cup Succ(at)
             \/ IrStep(g[j - 1], at, j).to = 1 /\ SelfTail(at, j)
      BY <2>1, <2>3, IrStepTyped
    <3> QED
      BY <1>3, <2>1, <3>1
  <2> QED
    BY <2>2, <2>3
<1> HIDE DEF T
<1>6. n \in T
  BY <1>2, <1>4, <1>5, Counting DEF Steps
<1> QED
  BY <1>1, <1>6 DEF T

-----------------------------------------------------------------------------
(* The run of the machine.                                                 *)

Entered == [regs |-> regs, flags |-> <<0, 0>>, saw |-> <<>>, to |-> -1, undefined |-> FALSE]

LEMMA EnteredFacts ==
  ASSUME Running
  PROVE  Machine(Entered) /\ Entered.to = -1 /\ Entered.undefined = FALSE /\ Entered.regs = regs
BY ValueFacts DEF Running, Machine, Entered

LEMMA MachineBlockRun ==
  ASSUME Len(before[at] \o after[at]) \in Nat
  PROVE  \E g : IsRunOf(g, Entered, before[at] \o after[at])
                /\ MachineBlock = g[Len(before[at] \o after[at])]
<1> DEFINE code == before[at] \o after[at]
           run == CHOOSE g : IsRunOf(g, Entered, code)
<1>1. \E g : IsRunOf(g, Entered, code)
  BY RunOfExists
<1>2. IsRunOf(run, Entered, code)
  BY <1>1
<1>3. MachineBlock = run[Len(code)]
  BY DEF MachineBlock, IsRunOf, Entered
<1> QED
  BY <1>2, <1>3

LEMMA CodeTyped ==
  ASSUME Coded, NEW b \in Block
  PROVE  /\ before[b] \in Seq(Inner) /\ after[b] \in Seq(Outer)
         /\ before[b] \in Seq(MInst) /\ after[b] \in Seq(MInst)
         /\ before[b] \o after[b] \in Seq(MInst) /\ Len(before[b] \o after[b]) \in Nat
<1>1. before[b] \in Seq(Inner) /\ after[b] \in Seq(Outer)
  BY DEF Coded
<1>2. before[b] \in Seq(MInst) /\ after[b] \in Seq(MInst)
  BY <1>1, InnerOuter, SeqMonotonic
<1> DEFINE B == before[b]
           A == after[b]
<1>3. B \in Seq(MInst) /\ A \in Seq(MInst)
  BY <1>2
<1> HIDE DEF A, B
<1>4. B \o A \in Seq(MInst) /\ Len(B \o A) \in Nat
  <2> DEFINE M == MInst
  <2>1. B \in Seq(M) /\ A \in Seq(M)
    BY <1>3
  <2> HIDE DEF M
  <2>2. B \o A \in Seq(M)
    BY <2>1
  <2>3. Len(B \o A) \in Nat
    BY <2>2
  <2> QED
    BY <2>2, <2>3 DEF M
<1> QED
  BY <1>1, <1>2, <1>4 DEF A, B

LEMMA MachineBlockTyped ==
  ASSUME TypeInv, at \in Block
  PROVE  Machine(MachineBlock)
<1> DEFINE code == before[at] \o after[at]
<1>1. Coded /\ Running
  BY DEF TypeInv, CodeInv
<1>2. code \in Seq(MInst) /\ Len(code) \in Nat
  BY <1>1, CodeTyped
<1>3. Machine(Entered) /\ args \in [Param -> Value]
  BY <1>1, EnteredFacts DEF Running
<1>4. PICK g : IsRunOf(g, Entered, code) /\ MachineBlock = g[Len(code)]
  BY <1>2, MachineBlockRun
<1> HIDE DEF code
<1> QED
  BY <1>2, <1>3, <1>4, RunMachine

-----------------------------------------------------------------------------
(* The steps of the run keep the types.                                    *)

LEMMA CallFunctionTyped ==
  ASSUME TypeInv, CallFunction
  PROVE  TypeInv'
<1> DEFINE V(r) == args'[Params[IndexOf(r)]]
           R == SlotsOf(1 .. ir.arity)
<1>1. /\ pc = "phis" /\ bb > NumBlocks /\ pc' = "run" /\ args' \in [Param -> Value]
      /\ regs' = [r \in R |-> V(r)]
      /\ UNCHANGED <<ir, bb, k, codeVars, at, from, env, went, saw, undefined>>
  BY DEF CallFunction
<1>2. CodeInv /\ Running
  BY DEF TypeInv
<1>3. ir \in Programs
  BY <1>2 DEF CodeInv, Where
<1>4. Where' /\ Coded' /\ Ended' /\ Flagged'
  BY <1>1, <1>2 DEF CodeInv, Where, Coded, Ended, EndsOf, Flagged, codeVars
<1>5. ASSUME NEW r \in R PROVE V(r) \in Value /\ r \in Reg
  <2>1. PICK i \in DOMAIN Slots \cap 1 .. ir.arity : r = Slots[i]
    BY DEF SlotsOf
  <2>2. IndexOf(r) = i
    BY <2>1, SlotAssumption DEF IndexOf, IsInjective
  <2>3. i \in DOMAIN Params
    BY <1>3, <2>1, SizeAssumption, BlockFacts DEF Block
  <2>4. Params[i] \in Param
    BY <2>3 DEF Param
  <2> QED
    BY <1>1, <2>1, <2>2, <2>4, SlotFacts
<1> HIDE DEF V, R
<1>6. DOMAIN regs' = R /\ \A r \in R : regs'[r] = V(r)
  BY <1>1
<1>7. Running'
  <2>1. Pred(at)' = Pred(at) /\ at' = at /\ from' = from /\ env' = env /\ undefined' = undefined
    BY <1>1, SameProgram
  <2>2. (at \notin {0, 1} => from \in Pred(at))'
    BY <1>2, <2>1 DEF Running
  <2>3. regs' = [r \in DOMAIN regs' |-> regs'[r]] /\ DOMAIN regs' \subseteq Reg
        /\ \A r \in DOMAIN regs' : regs'[r] \in Value
    BY <1>1, <1>5, <1>6
  <2> QED
    BY <1>1, <1>2, <2>1, <2>2, <2>3 DEF Running
<1> QED
  BY <1>4, <1>7 DEF TypeInv, CodeInv

LEMMA RunBlockTyped ==
  ASSUME TypeInv, RunBlock
  PROVE  TypeInv'
<1> DEFINE i == IrBlock
           m == MachineBlock
           A(p) == LET n == CHOOSE n \in DOMAIN Params : Params[n] = p
                   IN  IF n \in DOMAIN i.args THEN i.args[n] ELSE args[p]
<1>1. /\ pc = "run" /\ at # 0 /\ env' = i.env
      /\ args' = (IF i.to # 1 THEN args ELSE [p \in Param |-> A(p)])
      /\ regs' = (IF m.to # 1 THEN m.regs ELSE [r \in DOMAIN m.regs \cap SlotsOf(Nat) |-> m.regs[r]])
      /\ undefined' = m.undefined /\ at' = i.to /\ from' = at
      /\ UNCHANGED <<ir, bb, k, codeVars, pc>>
  BY DEF RunBlock
<1>2. CodeInv /\ Running
  BY DEF TypeInv
<1>3. ir \in Programs /\ at \in Block /\ (at # 1 => from \in Pred(at)) /\ env \in [Var -> Value]
      /\ args \in [Param -> Value]
  BY <1>1, <1>2 DEF CodeInv, Where, Running
<1>4. /\ IrState(i)
      /\ i.to \in {0} \cup Succ(at) \/ (i.to = 1 /\ \E j \in DOMAIN Body(at) : SelfTail(at, j))
  BY <1>3, IrBlockTyped
<1>5. Machine(m)
  BY <1>3, MachineBlockTyped
<1> HIDE DEF i, m
<1>6. Where' /\ Coded' /\ Ended' /\ Flagged'
  <2>1. Where' /\ Coded'
    BY <1>1, <1>2, SameProgram DEF CodeInv, Where, Coded, codeVars
  <2>2. Ended' /\ Flagged'
    BY <1>1, <1>2 DEF CodeInv, Ended, EndsOf, Flagged, codeVars
  <2> QED
    BY <2>1, <2>2
<1>7. args' \in [Param -> Value]
  <2>1. ASSUME NEW p \in Param PROVE A(p) \in Value
    BY <1>3, <1>4 DEF IrState
  <2> HIDE DEF A
  <2> QED
    BY <1>1, <1>3, <2>1
<1>8. regs' = [r \in DOMAIN regs' |-> regs'[r]] /\ DOMAIN regs' \subseteq Reg
      /\ \A r \in DOMAIN regs' : regs'[r] \in Value
  <2>1. CASE m.to # 1
    BY <1>1, <1>5, <2>1 DEF Machine
  <2>2. CASE m.to = 1
    <3> DEFINE W == DOMAIN m.regs \cap SlotsOf(Nat)
    <3>1. regs' = [r \in W |-> m.regs[r]]
      BY <1>1, <2>2
    <3>2. W \subseteq Reg /\ \A r \in W : m.regs[r] \in Value
      BY <1>5 DEF Machine
    <3> HIDE DEF W
    <3> QED
      BY <3>1, <3>2
  <2> QED
    BY <2>1, <2>2
<1>9. at' \in Block \cup {0} /\ (at' \notin {0, 1} => at \in Pred(at'))
  <2>1. 1 \in Block
    BY SizeAssumption DEF Block
  <2>2. ASSUME NEW c \in Succ(at) PROVE c \in Block /\ at \in Pred(c)
    <3>1. PICK h \in DOMAIN Inst(at, Len(Body(at))).to : c = Inst(at, Len(Body(at))).to[h]
      BY <2>2 DEF Succ, SuccOf, Inst, Body
    <3>2. Inst(at, Len(Body(at))).to \in Seq(2 .. NumBlocks)
      BY <1>3, BlockFacts, FieldFacts
    <3> DEFINE C == 2 .. NumBlocks
    <3>3. Inst(at, Len(Body(at))).to \in Seq(C)
      BY <3>2
    <3> HIDE DEF C
    <3>4. c \in C
      BY <3>1, <3>3
    <3>5. c \in Block
      BY <3>4, SizeAssumption DEF C, Block
    <3> QED
      BY <1>3, <2>2, <3>5 DEF Pred
  <2> QED
    BY <1>1, <1>4, <2>1, <2>2
<1>10. Running'
  <2>1. at' \notin {0, 1} => at \in Block /\ at' \in SuccOf(ir, at)
    BY <1>9 DEF Pred, Succ
  <2>2. ir' = ir /\ from' = at
    BY <1>1
  <2>3. (at \notin {0, 1} => from \in Pred(at))'
    BY <2>1, <2>2 DEF Pred, Succ
  <2>4. env' \in [Var -> Value] /\ undefined' \in BOOLEAN
    BY <1>1, <1>4, <1>5 DEF IrState, Machine
  <2> QED
    BY <1>1, <1>3, <1>7, <1>8, <1>9, <2>3, <2>4 DEF Running
<1> QED
  BY <1>6, <1>10 DEF TypeInv, CodeInv

LEMMA SelectingRuns ==
  ASSUME Running, UNCHANGED <<ir, runVars>>
  PROVE  Running'
<1>1. \A b : Pred(b)' = Pred(b)
  BY SameProgram
<1>2. UNCHANGED <<at, from, env, args, regs, undefined>>
  BY DEF runVars
<1>3. (at \notin {0, 1} => from \in Pred(at))'
  BY <1>1, <1>2 DEF Running, Pred, Succ
<1> QED
  BY <1>2, <1>3 DEF Running

LEMMA InitTyped == Init => TypeInv
<1> SUFFICES ASSUME Init PROVE TypeInv
  OBVIOUS
<1>1. /\ ir \in Programs /\ bb = 1 /\ k = 1 /\ pc = "select" /\ 1 \in Block
  BY SizeAssumption DEF Init, Block
<1>2. Len(Body(bb)) \in Nat \ {0}
  BY <1>1, BlockFacts
<1>3. Where
  BY <1>1, <1>2 DEF Where
<1>4. Coded
  <2>1. \A b \in Block : Succ(b) \subseteq Block
    <3> SUFFICES ASSUME NEW b \in Block PROVE Succ(b) \subseteq Block
      OBVIOUS
    <3> DEFINE C == 2 .. NumBlocks
    <3>1. Inst(b, Len(Body(b))).to \in Seq(C)
      BY <1>1, BlockFacts, FieldFacts
    <3>2. C \subseteq Block
      BY SizeAssumption DEF Block
    <3> HIDE DEF C
    <3>3. \A h \in DOMAIN Inst(b, Len(Body(b))).to : Inst(b, Len(Body(b))).to[h] \in C
      BY <3>1
    <3> QED
      BY <3>2, <3>3 DEF Succ, SuccOf, Inst, Body
  <2>2. \A b \in Block : Succ(b) \in SUBSET Block
    BY <2>1
  <2>3. succ \in [Block -> SUBSET Block]
    BY <2>2 DEF Init
  <2>4. \A A : <<>> \in Seq(A)
    OBVIOUS
  <2> QED
    BY <2>3, <2>4 DEF Init, Coded
<1>5. Ended
  BY <1>1, <1>2, SizeAssumption DEF Init, Ended, Block
<1>6. Flagged
  BY <1>1 DEF Flagged
<1>7. Running
  BY <1>1, ValueFacts DEF Init, Running
<1> QED
  BY <1>3, <1>4, <1>5, <1>6, <1>7 DEF TypeInv, CodeInv

LEMMA StepTyped == TypeInv /\ [Next]_vars => TypeInv'
<1> SUFFICES ASSUME TypeInv, [Next]_vars PROVE TypeInv'
  OBVIOUS
<1>1. CodeInv /\ Running
  BY DEF TypeInv
<1> DEFINE Select ==
             \/ SelectBinary \/ SelectFma \/ SelectDiv \/ SelectAlias \/ SelectCompare \/ SelectAnd
             \/ SelectJump \/ SelectBranch \/ SelectBranchOnFlags \/ SelectBranchOnAnd
             \/ SelectCall \/ SelectSelfTail \/ SelectReturn \/ SelectPhi \/ EndBlock \/ LowerPhis
<1>2. Select => CodeInv'
  BY <1>1, BinaryTyped, FmaTyped, DivTyped, AliasTyped, CompareTyped, AndTyped, JumpTyped,
     BranchTyped, BranchOnFlagsTyped, BranchOnAndTyped, CallTyped, SelfTailTyped, ReturnTyped,
     PhiTyped, EndBlockTyped, LowerPhisTyped
<1>3. Select => UNCHANGED <<ir, runVars>>
  BY DEF SelectBinary, SelectFma, SelectDiv, SelectAlias, SelectCompare, SelectAnd, SelectJump,
         SelectBranch, SelectBranchOnFlags, SelectBranchOnAnd, SelectCall, SelectSelfTail,
         SelectReturn, SelectPhi, EndBlock, LowerPhis
<1>4. CASE Select
  BY <1>1, <1>2, <1>3, <1>4, SelectingRuns DEF TypeInv
<1>5. CASE CallFunction
  BY <1>5, CallFunctionTyped
<1>6. CASE RunBlock
  BY <1>6, RunBlockTyped
<1>7. CASE UNCHANGED vars
  <2>1. Running'
    BY <1>1, <1>7, SelectingRuns DEF vars
  <2>2. Where' /\ Coded' /\ Ended' /\ Flagged'
    BY <1>1, <1>7, SameProgram DEF CodeInv, Where, Coded, Ended, EndsOf, Flagged, vars, codeVars
  <2> QED
    BY <2>1, <2>2 DEF TypeInv, CodeInv
<1> QED
  BY <1>4, <1>5, <1>6, <1>7 DEF Next

\* Every instruction that the lowering writes has a target among the blocks and a
\* condition; the end of every translated block is a jump or a return; and the run goes
\* from block to block with values in its registers and variables (gen_machine_code in
\* conv/codegen.cpp).
THEOREM TypeCorrect == Spec => []TypeOK
<1>1. Init => TypeInv
  BY InitTyped
<1>2. TypeInv /\ [Next]_vars => TypeInv'
  BY StepTyped
<1>3. TypeInv => TypeOK
  BY TypesFollow
<1> QED
  BY <1>1, <1>2, <1>3, PTL DEF Spec

=============================================================================
