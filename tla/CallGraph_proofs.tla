--------------------------- MODULE CallGraph_proofs ---------------------------
(***************************************************************************)
(* Proofs about CallGraph for every set of functions and every program.    *)
(*                                                                         *)
(* The inductive invariant says what holds between the passes that the     *)
(* invariants of CallGraph do not say: has_side_effect stays closed under  *)
(* callers, caller_func is exact until a pass changes the calls, and the   *)
(* copies that specialize_const_arg makes call copies of what the original *)
(* calls.                                                                  *)
(***************************************************************************)
EXTENDS CallGraph, TLAPS

\* Where the program counter can be, and that no builtin is inlined.
Phase ==
  /\ can_inline \cap Builtins = {}
  /\ pc = "propagate" => Running("compute_callgraph")
  /\ pc = "inline" => Running("inline_func")
  /\ pc = "specialize" => Running("specialize_const_arg")

CallsListed == \A e \in calls : e[1] \in listed /\ e[2] \in listed

CallersFresh ==
  (pc = "propagate" \/ (pc = "pass" /\ pass > 1 /\ IrPasses[pass - 1] = "compute_callgraph"))
    => \A g \in listed : caller_func[g] = Callers(g)

\* While compute_callgraph propagates: only work_list has unmarked callers.
Propagating ==
  pc = "propagate" =>
    /\ DirectlyEffectful \subseteq has_side_effect
    /\ work_list \subseteq has_side_effect \cap listed
    /\ has_side_effect \cap listed \subseteq Effectful
    /\ \A e \in calls : e[2] \in has_side_effect \ work_list => e[1] \in has_side_effect

Marked == pass > 1 /\ pc # "propagate" => ClosedUnderCallers(has_side_effect)

BaseCallees(x) == {base[h] : h \in Callees(x)}

\* A copy and its original have the same stores, and call copies of the same.
CopiesAlike ==
  /\ pc # "specialize" => base = NoCopies
  /\ \A x \in Func :
       /\ base[base[x]] = base[x]
       /\ base[x] # x => x \in Clones /\ x \in listed /\ base[x] \in listed
                         /\ base[x] \notin Builtins
       /\ stores[x] = stores[base[x]]
       /\ x \in has_side_effect <=> base[x] \in has_side_effect
       /\ BaseCallees(x) = BaseCallees(base[x])

Inv == TypeOK /\ Phase /\ CallsListed /\ CallersFresh /\ Propagating /\ Marked /\ CopiesAlike

-----------------------------------------------------------------------------
(* The order of the passes.                                                *)

LEMMA PassCount == Len(IrPasses) = 34
  BY DEF IrPasses

LEMMA FirstPass == IrPasses[1] = "compute_callgraph"
  BY DEF IrPasses

\* Functions are removed right after the call graph was computed.
LEMMA RemoveAfterCompute ==
  \A p \in 1 .. 34 : IrPasses[p] = "remove_unused_function" =>
                       p > 1 /\ IrPasses[p - 1] = "compute_callgraph"
  BY DEF IrPasses

-----------------------------------------------------------------------------
(* Type correctness.                                                       *)

LEMMA TypeInit == Init => TypeOK
<1> SUFFICES ASSUME Init PROVE TypeOK
  OBVIOUS
<1> USE FuncAssumption DEF Func
<1>1. PICK p \in Programs : /\ calls = p.calls
                            /\ stores = [f \in Func |-> IF f \in p.stores THEN {f} ELSE {}]
                            /\ param_stores = p.param_stores
                            /\ loads = p.loads
  BY DEF Init
<1>2. order \in Seq(Func)
  BY DEF Init
<1>3. listed \subseteq Func /\ calls \subseteq Call /\ param_stores \subseteq Func /\ loads \subseteq Func
  BY <1>1, ProgramAssumption DEF Init, Call
<1>4. stores \in [Func -> SUBSET Func]
  BY <1>1
<1>5. OnList
  BY DEF Init, OnList
<1> QED
  BY <1>2, <1>3, <1>4, <1>5, PassCount DEF Init, TypeOK, NoCopies

LEMMA OnListKept == OnList /\ UNCHANGED order /\ listed' \subseteq listed => OnList'
  BY DEF OnList

LEMMA TypeStep == TypeOK /\ Phase /\ [Next]_vars => TypeOK' /\ Phase'
<1> SUFFICES ASSUME TypeOK, Phase, [Next]_vars PROVE TypeOK' /\ Phase'
  OBVIOUS
<1> USE PassCount, OnListKept DEF TypeOK, Phase, Running
<1>1. CASE Rebuild
  BY <1>1 DEF Rebuild, program, DirectlyEffectful, Callers
<1>2. CASE Propagate
  BY <1>2 DEF Propagate, program
<1>3. CASE Propagated
  BY <1>3 DEF Propagated, program, summary
<1>4. CASE DecideInline
  BY <1>4 DEF DecideInline, program, summary
<1>5. CASE InlineInto
  <2> DEFINE f == order[at]
             G == Callees(f) \cap can_inline
  <2>1. /\ UNCHANGED <<order, listed, summary, can_inline, base, work_list, pass, pc>>
        /\ at' = at + 1
    BY <1>5 DEF InlineInto
  <2>2. calls' \subseteq Call /\ stores' \in [Func -> SUBSET Func]
        /\ param_stores' \subseteq Func /\ loads' \subseteq Func
    <3>1. CASE UNCHANGED <<calls, stores, param_stores, loads>>
      BY <3>1
    <3>2. CASE f \in listed /\ \E kind \in {"local", "param", "global"} : Inlined(f, G, kind)
      <4>1. PICK kind \in {"local", "param", "global"} : Inlined(f, G, kind)
        BY <3>2
      <4>2. f \in Func /\ G \subseteq Func
        BY <3>2
      <4> HIDE DEF f, G
      <4>3. InlinedStores(G, kind) \subseteq Func
        BY <4>2 DEF InlinedStores
      <4>4. InlinedCallees(G) \subseteq Func
        BY DEF InlinedCallees, Callees
      <4> QED
        BY <4>1, <4>2, <4>3, <4>4 DEF Inlined, Call
    <3> QED
      BY <1>5, <3>1, <3>2 DEF InlineInto
  <2> QED
    BY <2>1, <2>2 DEF summary
<1>6. CASE EndInline
  BY <1>6 DEF EndInline, program, summary
<1>7. CASE BeginSpecialize
  BY <1>7 DEF BeginSpecialize, program, summary
<1>8. CASE SpecializeCall
  <2>1. PICK f \in listed \ Builtins, g \in Func, copy \in Clones, only \in BOOLEAN :
          <<f, g>> \in calls /\ Specializable(g)
          /\ (Reuse(f, g, copy, only) \/ CloneForConstArgs(f, g, copy, only))
    BY <1>8 DEF SpecializeCall
  <2>2. copy \in Func /\ f \in Func
    BY <2>1 DEF Func
  <2>3. Redirect(f, g, copy, only) \subseteq Call
    BY <2>1, <2>2 DEF Redirect, Call
  <2>4. CASE Reuse(f, g, copy, only)
    BY <1>8, <2>3, <2>4 DEF SpecializeCall, Reuse
  <2>5. CASE CloneForConstArgs(f, g, copy, only)
    <3>1. calls' \subseteq Call
      BY <2>1, <2>2, <2>3, <2>5 DEF CloneForConstArgs, Callees, Call
    <3>2. stores' \in [Func -> SUBSET Func] /\ base' \in [Func -> Func]
      BY <2>1, <2>2, <2>5 DEF CloneForConstArgs
    <3>3. /\ param_stores' \subseteq Func /\ loads' \subseteq Func
          /\ load_global' \subseteq Func /\ has_side_effect' \subseteq Func
      BY <2>1, <2>2, <2>5 DEF CloneForConstArgs, Like
    <3>4. order' \in Seq(Func) /\ listed' \subseteq Func
      BY <2>1, <2>2, <2>5 DEF CloneForConstArgs
    <3>5. OnList'
      <4>1. order' = Append(order, copy) /\ listed' = listed \cup {copy}
        BY <2>5 DEF CloneForConstArgs
      <4>2. order'[Len(order) + 1] = copy /\ Len(order) + 1 \in DOMAIN order'
        BY <2>2, <4>1
      <4>3. \A i \in DOMAIN order : order'[i] = order[i] /\ i \in DOMAIN order'
        BY <2>2, <4>1
      <4> QED
        BY <4>1, <4>2, <4>3 DEF OnList
    <3> QED
      BY <1>8, <3>1, <3>2, <3>3, <3>4, <3>5 DEF SpecializeCall
  <2> QED
    BY <2>1, <2>4, <2>5
<1>9. CASE EndSpecialize
  BY <1>9 DEF EndSpecialize, program, summary, NoCopies
<1>10. CASE Dce
  BY <1>10 DEF Dce, summary, DeadCalls
<1>11. CASE RemoveUnusedFunction
  BY <1>11 DEF RemoveUnusedFunction, summary
<1>12. CASE OtherPass
  BY <1>12 DEF OtherPass, program, summary
<1>13. CASE UNCHANGED vars
  BY <1>13 DEF vars
<1> QED
  BY <1>1, <1>2, <1>3, <1>4, <1>5, <1>6, <1>7, <1>8, <1>9, <1>10, <1>11, <1>12, <1>13
  DEF Next

-----------------------------------------------------------------------------
(* The invariant holds initially.                                          *)

LEMMA InvInit == Init => Inv
<1> SUFFICES ASSUME Init PROVE Inv
  OBVIOUS
<1>1. TypeOK
  BY TypeInit
<1>2. Phase /\ CallersFresh /\ Propagating /\ Marked
  BY DEF Init, Phase, CallersFresh, Propagating, Marked
<1>3. CallsListed
  BY ProgramAssumption DEF Init, CallsListed
<1>4. CopiesAlike
  BY <1>1 DEF Init, CopiesAlike, BaseCallees, Callees, NoCopies, TypeOK
<1> QED
  BY <1>1, <1>2, <1>3, <1>4 DEF Inv

-----------------------------------------------------------------------------
(* Every action preserves the invariant.                                   *)

\* The effectful functions have an effect or call an effectful function, and
\* no set closed under callers leaves one of them out.
LEMMA EffectfulClosed == ASSUME TypeOK PROVE ClosedUnderCallers(Effectful)
  BY DEF ClosedUnderCallers, Effectful, TypeOK, Call, DirectlyEffectful

LEMMA EffectfulLeast ==
  ASSUME TypeOK, ClosedUnderCallers(has_side_effect) PROVE Effectful \subseteq has_side_effect
  BY DEF Effectful, TypeOK

LEMMA RebuildInv == Inv /\ Rebuild => Inv'
<1> SUFFICES ASSUME Inv, Rebuild PROVE Inv'
  OBVIOUS
<1>1. TypeOK' /\ Phase'
  BY TypeStep DEF Inv, Next
<1>2. TypeOK /\ CallsListed /\ UNCHANGED <<program, base, pass>> /\ pc' = "propagate"
      /\ has_side_effect' = (has_side_effect \ listed) \cup DirectlyEffectful
      /\ work_list' = DirectlyEffectful
  BY DEF Inv, Rebuild
<1>3. CallsListed' /\ DirectlyEffectful' = DirectlyEffectful /\ Effectful' = Effectful
  BY <1>2 DEF program, CallsListed, DirectlyEffectful, Effectful, ClosedUnderCallers
<1>4. CallersFresh' /\ Marked'
  BY <1>1, <1>2 DEF Rebuild, program, CallersFresh, Callers, Marked, TypeOK
<1>5. Propagating'
  <2>1. DirectlyEffectful \subseteq Effectful
    BY <1>2, EffectfulClosed DEF ClosedUnderCallers
  <2> QED
    BY <1>2, <1>3, <2>1 DEF program, Propagating, CallsListed, DirectlyEffectful
<1>6. CopiesAlike'
  BY <1>2 DEF Inv, Rebuild, program, CopiesAlike, BaseCallees, Callees, NoCopies, TypeOK
<1> QED
  BY <1>1, <1>3, <1>4, <1>5, <1>6 DEF Inv

LEMMA PropagateInv == Inv /\ Propagate => Inv'
<1> SUFFICES ASSUME Inv, Propagate PROVE Inv'
  OBVIOUS
<1>1. TypeOK' /\ Phase'
  BY TypeStep DEF Inv, Next
<1>2. TypeOK /\ CallsListed /\ CallersFresh /\ Propagating
      /\ UNCHANGED <<program, caller_func, base, pass, pc>> /\ pc = "propagate"
  BY DEF Inv, Propagate
<1>3. CallsListed' /\ DirectlyEffectful' = DirectlyEffectful /\ Effectful' = Effectful
  BY <1>2 DEF program, CallsListed, DirectlyEffectful, Effectful, ClosedUnderCallers
<1>4. CallersFresh' /\ Marked'
  BY <1>2 DEF program, CallersFresh, Callers, Marked
<1>5. Propagating'
  <2>1. PICK f \in work_list :
          /\ has_side_effect' = has_side_effect \cup (caller_func[f] \ has_side_effect)
          /\ work_list' = (work_list \ {f}) \cup (caller_func[f] \ has_side_effect)
    BY DEF Propagate
  <2>2. f \in listed /\ f \in Effectful /\ f \in Func
    BY <1>2 DEF Propagating, TypeOK
  <2>3. \A c \in Func : c \in caller_func[f] <=> <<c, f>> \in calls
    BY <1>2, <2>2 DEF CallersFresh, Callers
  <2>4. caller_func[f] \subseteq Func
    BY <1>2, <2>2 DEF TypeOK
  <2>5. caller_func[f] \subseteq Effectful \cap listed
    BY <1>2, <2>2, <2>3, <2>4, EffectfulClosed DEF ClosedUnderCallers, CallsListed
  <2>6. \A e \in calls : e[1] \in Func /\ e[2] \in Func /\ e = <<e[1], e[2]>>
    BY <1>2 DEF TypeOK, Call
  <2>7. \A e \in calls : e[2] \in has_side_effect' \ work_list' => e[1] \in has_side_effect'
    BY <1>2, <2>1, <2>3, <2>6 DEF Propagating
  <2> QED
    BY <1>2, <1>3, <2>1, <2>5, <2>7 DEF program, Propagating
<1>6. CopiesAlike'
  BY <1>2 DEF Inv, program, CopiesAlike, BaseCallees, Callees, NoCopies, TypeOK
<1> QED
  BY <1>1, <1>3, <1>4, <1>5, <1>6 DEF Inv

LEMMA PropagatedInv == Inv /\ Propagated => Inv'
<1> SUFFICES ASSUME Inv, Propagated PROVE Inv'
  OBVIOUS
<1>1. TypeOK' /\ Phase'
  BY TypeStep DEF Inv, Next
<1>2. TypeOK /\ CallsListed /\ CallersFresh /\ Propagating /\ Phase
      /\ UNCHANGED <<program, summary, base>> /\ pc = "propagate" /\ pc' = "pass"
      /\ work_list = {} /\ pass' = pass + 1
  BY DEF Inv, Propagated
<1>3. CallsListed' /\ CallersFresh' /\ Propagating'
  BY <1>2 DEF program, summary, CallsListed, CallersFresh, Callers, Propagating
<1>4. Marked'
  BY <1>2 DEF program, summary, Propagating, Marked, ClosedUnderCallers, DirectlyEffectful
<1>5. CopiesAlike'
  BY <1>2 DEF Inv, program, summary, CopiesAlike, BaseCallees, Callees, NoCopies
<1> QED
  BY <1>1, <1>3, <1>4, <1>5 DEF Inv

\* Outside of compute_callgraph, passes that leave bodies and summaries alone.
LEMMA IdleInv ==
  ASSUME Inv, DecideInline \/ EndInline \/ BeginSpecialize \/ OtherPass PROVE Inv'
<1>1. TypeOK' /\ Phase'
  BY TypeStep DEF Inv, Next
<1>2. /\ UNCHANGED <<program, summary, base>>
      /\ pc # "propagate" /\ pc' # "propagate" /\ pass > 1
      /\ \/ pass' = pass /\ pc' # "pass"
         \/ pass' = pass + 1 /\ ~Running("compute_callgraph")
      /\ pass \in Nat
  <2>1. pass \in Nat /\ pass >= 1
    BY DEF Inv, TypeOK
  <2>2. ~Running("compute_callgraph") /\ pass <= Len(IrPasses)
    BY DEF Inv, Phase, DecideInline, EndInline, BeginSpecialize, OtherPass, Running
  <2> QED
    BY <2>1, <2>2, FirstPass
    DEF DecideInline, EndInline, BeginSpecialize, OtherPass, Running
<1>3. CallsListed' /\ CallersFresh' /\ Propagating'
  <2>1. pass \in 1 .. Len(IrPasses)
    BY <1>2 DEF Inv, Phase, Running, DecideInline, EndInline, BeginSpecialize, OtherPass
  <2> QED
    BY <1>2, <2>1 DEF Inv, program, CallsListed, CallersFresh, Propagating, Running
<1>4. Marked'
  BY <1>2 DEF Inv, program, summary, Marked, ClosedUnderCallers, DirectlyEffectful
<1>5. CopiesAlike'
  BY <1>2 DEF Inv, program, summary, CopiesAlike, BaseCallees, Callees, NoCopies,
              DecideInline, EndInline, BeginSpecialize, OtherPass
<1> QED
  BY <1>1, <1>3, <1>4, <1>5 DEF Inv

\* Inside a phase of inline_func or specialize_const_arg, or during dce, the
\* summaries of an earlier pass are closed under callers.
LEMMA MarkedNow ==
  ASSUME Inv, pc # "propagate", pc = "pass" => ~Running("compute_callgraph") PROVE
    pass > 1 /\ ClosedUnderCallers(has_side_effect)
<1>1. pass \in Nat /\ pass >= 1
  BY DEF Inv, TypeOK
<1> QED
  BY <1>1, FirstPass, PassCount DEF Inv, TypeOK, Phase, Running, Marked

LEMMA InlineIntoInv == Inv /\ InlineInto => Inv'
<1> SUFFICES ASSUME Inv, InlineInto PROVE Inv'
  OBVIOUS
<1> DEFINE f == order[at]
           G == Callees(f) \cap can_inline
<1>1. TypeOK' /\ Phase'
  BY TypeStep DEF Inv, Next
<1>2. TypeOK /\ CallsListed /\ pc = "inline"
      /\ UNCHANGED <<order, listed, caller_func, has_side_effect, base, pass, pc>>
  BY DEF Inv, InlineInto, summary
<1>3. ClosedUnderCallers(has_side_effect)
  BY <1>2, MarkedNow
<1>4. CopiesAlike /\ base = NoCopies
  BY <1>2 DEF Inv, CopiesAlike
<1>5. CopiesAlike'
  BY <1>1, <1>2, <1>4 DEF CopiesAlike, BaseCallees, Callees, NoCopies, TypeOK
<1>6. CallersFresh' /\ Propagating'
  BY <1>2 DEF CallersFresh, Propagating
<1>7. CASE UNCHANGED <<calls, stores, param_stores, loads>>
  BY <1>1, <1>2, <1>3, <1>5, <1>6, <1>7
  DEF Inv, CallsListed, Marked, ClosedUnderCallers, DirectlyEffectful
<1>8. CASE f \in listed \ Builtins
           /\ \E kind \in {"local", "param", "global"} : Inlined(f, G, kind)
  <2>1. PICK kind \in {"local", "param", "global"} : Inlined(f, G, kind)
    BY <1>8
  <2>2. f \in listed /\ f \in Func /\ \A g \in G : g \in Func /\ <<f, g>> \in calls /\ g \in listed
    BY <1>2, <1>8 DEF TypeOK, Callees, CallsListed
  <2> HIDE DEF f, G
  <2>3. \A e \in calls' : \/ e \in calls
                          \/ e[1] = f /\ \E g \in G : <<g, e[2]>> \in calls
    BY <2>1 DEF Inlined, InlinedCallees, Callees
  <2>4. CallsListed'
    BY <1>2, <2>2, <2>3 DEF CallsListed
  <2>5. \A e \in calls' : e[2] \in has_side_effect => e[1] \in has_side_effect
    BY <1>3, <2>2, <2>3 DEF ClosedUnderCallers
  <2>6. DirectlyEffectful' \subseteq has_side_effect
    <3> SUFFICES ASSUME NEW x \in DirectlyEffectful' PROVE x \in has_side_effect
      OBVIOUS
    <3>1. x \in listed /\ (x \in Builtins \/ stores'[x] # {} \/ x \in param_stores')
      BY <1>2 DEF DirectlyEffectful
    <3>2. CASE x \in DirectlyEffectful
      BY <1>3, <3>2 DEF ClosedUnderCallers
    <3>3. CASE x \notin DirectlyEffectful
      <4>1. x = f
        BY <1>2, <2>1, <2>2, <3>1, <3>3 DEF DirectlyEffectful, Inlined, TypeOK
      <4>2. \E g \in G : stores[g] # {} \/ g \in param_stores
        <5>1. CASE stores'[x] # {}
          <6>1. InlinedStores(G, kind) # {}
            BY <1>2, <2>1, <2>2, <3>1, <3>3, <4>1, <5>1 DEF DirectlyEffectful, Inlined, TypeOK
          <6> QED
            BY <6>1 DEF InlinedStores
        <5>2. CASE stores'[x] = {}
          BY <2>1, <3>1, <3>3, <5>2 DEF DirectlyEffectful, Inlined
        <5> QED
          BY <5>1, <5>2
      <4> QED
        BY <1>3, <2>2, <4>1, <4>2 DEF ClosedUnderCallers, DirectlyEffectful
    <3> QED
      BY <3>2, <3>3
  <2> QED
    BY <1>1, <1>2, <1>5, <1>6, <2>4, <2>5, <2>6 DEF Inv, Marked, ClosedUnderCallers
<1> QED
  BY <1>7, <1>8 DEF InlineInto

LEMMA DceInv == Inv /\ Dce => Inv'
<1> SUFFICES ASSUME Inv, Dce PROVE Inv'
  OBVIOUS
<1>1. TypeOK' /\ Phase'
  BY TypeStep DEF Inv, Next
<1>2. TypeOK /\ CallsListed /\ CopiesAlike /\ pc = "pass" /\ ~Running("compute_callgraph")
      /\ UNCHANGED <<listed, stores, param_stores, summary, base, pc>>
      /\ calls' \subseteq calls /\ pass' = pass + 1 /\ pass \in Nat /\ pass <= Len(IrPasses)
  BY DEF Inv, Dce, Running, TypeOK
<1>3. ClosedUnderCallers(has_side_effect)
  BY <1>2, MarkedNow
<1>4. CallsListed' /\ CallersFresh' /\ Propagating' /\ Marked'
  BY <1>2, <1>3 DEF CallsListed, CallersFresh, Propagating, Marked, ClosedUnderCallers,
                    DirectlyEffectful, summary, Running
<1>5. CopiesAlike'
  BY <1>1, <1>2 DEF CopiesAlike, BaseCallees, Callees, NoCopies, TypeOK, summary
<1> QED
  BY <1>1, <1>4, <1>5 DEF Inv

\* caller_func is exact when functions are removed: no callee of a function that
\* stays is removed.
LEMMA UnusedHasNoCaller ==
  ASSUME Inv, RemoveUnusedFunction, NEW e \in calls PROVE ~Unused(e[2])
<1>1. pass \in 1 .. 34 /\ TypeOK /\ e[2] \in listed /\ e[1] \in Func /\ e = <<e[1], e[2]>>
  BY PassCount DEF Inv, TypeOK, RemoveUnusedFunction, Running, CallsListed, Call
<1>2. pass > 1 /\ IrPasses[pass - 1] = "compute_callgraph" /\ pc = "pass"
  BY <1>1, RemoveAfterCompute DEF RemoveUnusedFunction, Running
<1>3. e[1] \in caller_func[e[2]]
  BY <1>1, <1>2 DEF Inv, CallersFresh, Callers
<1> QED
  BY <1>3 DEF Unused

LEMMA RemoveUnusedFunctionInv == Inv /\ RemoveUnusedFunction => Inv'
<1> SUFFICES ASSUME Inv, RemoveUnusedFunction PROVE Inv'
  OBVIOUS
<1>1. TypeOK' /\ Phase'
  BY TypeStep DEF Inv, Next
<1>2. TypeOK /\ CallsListed /\ CopiesAlike /\ pc = "pass" /\ ~Running("compute_callgraph")
      /\ UNCHANGED <<stores, param_stores, summary, base, pc>>
      /\ listed' \subseteq listed /\ calls' \subseteq calls
      /\ pass' = pass + 1 /\ pass \in Nat /\ pass <= Len(IrPasses)
  BY DEF Inv, RemoveUnusedFunction, Running, TypeOK
<1>3. ClosedUnderCallers(has_side_effect)
  BY <1>2, MarkedNow
<1>4. CallsListed'
  BY <1>2, UnusedHasNoCaller DEF CallsListed, RemoveUnusedFunction
<1>5. CallersFresh' /\ Propagating' /\ Marked'
  BY <1>2, <1>3 DEF CallersFresh, Propagating, Marked, ClosedUnderCallers,
                    DirectlyEffectful, summary, Running
<1>6. CopiesAlike'
  BY <1>1, <1>2 DEF CopiesAlike, BaseCallees, Callees, NoCopies, TypeOK, summary
<1> QED
  BY <1>1, <1>4, <1>5, <1>6 DEF Inv

\* The calls of a copy: those of its original, up to copies.
LEMMA CloneInv ==
  ASSUME Inv, Inv => TypeOK' /\ Phase', pc = "specialize",
         UNCHANGED <<caller_func, pass, pc>>,
         NEW f \in listed, NEW g \in Func, NEW copy \in Clones, NEW only \in BOOLEAN,
         <<f, g>> \in calls, Specializable(g), CloneForConstArgs(f, g, copy, only)
  PROVE  Inv'
<1>1. /\ TypeOK /\ CallsListed /\ CopiesAlike /\ copy \in Func /\ f \in Func
      /\ ClosedUnderCallers(has_side_effect) /\ TypeOK' /\ Phase'
  <2>1. ClosedUnderCallers(has_side_effect)
    BY MarkedNow
  <2>2. copy \in Func
    BY DEF Func
  <2> QED
    BY <2>1, <2>2 DEF Inv, TypeOK, CopiesAlike
<1>2. copy \notin listed /\ g \in listed /\ g \notin Builtins /\ base[g] = g /\ copy # g
  BY <1>1 DEF CloneForConstArgs, CallsListed, Specializable
<1>3. /\ listed' = listed \cup {copy}
      /\ stores' = [stores EXCEPT ![copy] = stores[g]]
      /\ base' = [base EXCEPT ![copy] = g]
      /\ \A x \in Func : x # copy => /\ x \in has_side_effect' <=> x \in has_side_effect
                                     /\ x \in param_stores' <=> x \in param_stores
      /\ copy \in has_side_effect' <=> g \in has_side_effect
      /\ copy \in param_stores' <=> g \in param_stores
  BY <1>1, <1>2 DEF CloneForConstArgs, Like
<1>4. \A x, h \in Func :
        <<x, h>> \in calls' => \/ <<x, h>> \in calls
                               \/ x = f /\ h = copy
                               \/ x = copy /\ <<g, h>> \in calls
  BY <1>1 DEF CloneForConstArgs, Redirect, Callees
<1>5. \A x, h \in Func :
        <<x, h>> \in calls => <<x, h>> \in calls' \/ (x = f /\ h = g /\ <<f, copy>> \in calls')
  BY <1>1 DEF CloneForConstArgs, Redirect
<1>6. \A h \in Func : <<copy, h>> \notin calls /\ <<h, copy>> \notin calls
  BY <1>1, <1>2 DEF CallsListed
<1>7. \A h \in Func : <<g, h>> \in calls => <<copy, h>> \in calls'
  BY <1>1 DEF CloneForConstArgs, Callees
<1>8. \A e \in calls' : e[1] \in Func /\ e[2] \in Func /\ <<e[1], e[2]>> \in calls'
  <2>1. \A e \in calls' : e[1] \in Func /\ e[2] \in Func /\ e = <<e[1], e[2]>>
    BY <1>1 DEF TypeOK, Call
  <2> QED
    BY <2>1
<1>9. CallsListed'
  <2> SUFFICES ASSUME NEW e \in calls' PROVE e[1] \in listed' /\ e[2] \in listed'
    BY DEF CallsListed
  <2>1. \/ <<e[1], e[2]>> \in calls
        \/ e[1] = f /\ e[2] = copy
        \/ e[1] = copy /\ <<g, e[2]>> \in calls
    BY <1>4, <1>8
  <2> QED
    BY <1>1, <1>2, <1>3, <2>1 DEF CallsListed
<1>10. Marked'
  <2>1. \A e \in calls' : e[2] \in has_side_effect' => e[1] \in has_side_effect'
    <3> SUFFICES ASSUME NEW e \in calls', e[2] \in has_side_effect'
                 PROVE  e[1] \in has_side_effect'
      OBVIOUS
    <3>1. \/ <<e[1], e[2]>> \in calls /\ e[1] # copy /\ e[2] # copy
          \/ e[1] = f /\ e[2] = copy
          \/ e[1] = copy /\ <<g, e[2]>> \in calls /\ e[2] # copy
      BY <1>2, <1>4, <1>6, <1>8
    <3>2. e[1] \in Func /\ e[2] \in Func /\ f # copy
      BY <1>2, <1>8
    <3> QED
      BY <1>1, <1>2, <1>3, <3>1, <3>2 DEF ClosedUnderCallers
  <2>2. DirectlyEffectful' \subseteq has_side_effect'
    <3> SUFFICES ASSUME NEW x \in DirectlyEffectful' PROVE x \in has_side_effect'
      OBVIOUS
    <3>1. CASE x = copy
      BY <1>1, <1>2, <1>3, <3>1, FuncAssumption
      DEF DirectlyEffectful, ClosedUnderCallers, TypeOK
    <3>2. CASE x # copy
      BY <1>1, <1>2, <1>3, <3>2 DEF DirectlyEffectful, ClosedUnderCallers, TypeOK
    <3> QED
      BY <3>1, <3>2
  <2> QED
    BY <2>1, <2>2 DEF Marked, ClosedUnderCallers
<1>11. CopiesAlike'
  <2>1. base[copy] = copy /\ \A x \in Func : base[x] = copy => x = copy
    BY <1>1, <1>2 DEF CopiesAlike
  <2>2. ASSUME NEW x \in Func
        PROVE  /\ base'[base'[x]] = base'[x]
               /\ base'[x] # x => x \in Clones /\ x \in listed' /\ base'[x] \in listed'
                                  /\ base'[x] \notin Builtins
               /\ stores'[x] = stores'[base'[x]]
               /\ x \in has_side_effect' <=> base'[x] \in has_side_effect'
    <3>1. base[x] \in Func
      BY <1>1 DEF TypeOK
    <3>2. CASE x = copy
      BY <1>1, <1>2, <1>3, <3>2 DEF TypeOK
    <3>3. CASE x # copy
      BY <1>1, <1>2, <1>3, <2>1, <3>1, <3>3 DEF CopiesAlike, TypeOK
    <3> QED
      BY <3>2, <3>3
  <2>3. ASSUME NEW x \in Func, x # copy PROVE BaseCallees(x)' = BaseCallees(x)
    <3>1. ASSUME NEW b \in BaseCallees(x) PROVE b \in BaseCallees(x)'
      <4>1. PICK h \in Func : <<x, h>> \in calls /\ b = base[h]
        BY <3>1 DEF BaseCallees, Callees
      <4>2. h # copy /\ base'[h] = b /\ base'[copy] = g
        BY <1>1, <1>3, <1>6, <4>1 DEF TypeOK
      <4>3. CASE <<x, h>> \in calls'
        BY <4>2, <4>3 DEF BaseCallees, Callees
      <4>4. CASE x = f /\ h = g /\ <<f, copy>> \in calls'
        BY <1>1, <1>2, <4>1, <4>2, <4>4 DEF BaseCallees, Callees
      <4> QED
        BY <1>5, <4>1, <4>3, <4>4
    <3>2. ASSUME NEW b \in BaseCallees(x)' PROVE b \in BaseCallees(x)
      <4>1. PICK h \in Func : <<x, h>> \in calls' /\ b = base'[h]
        BY <3>2 DEF BaseCallees, Callees
      <4>2. CASE <<x, h>> \in calls
        <5>1. base[h] = b
          BY <1>1, <1>3, <1>6, <4>1, <4>2 DEF TypeOK
        <5> QED
          BY <4>2, <5>1 DEF BaseCallees, Callees
      <4>3. CASE x = f /\ h = copy
        <5>1. base[g] = b
          BY <1>1, <1>2, <1>3, <4>1, <4>3 DEF TypeOK
        <5> QED
          BY <4>3, <5>1 DEF BaseCallees, Callees
      <4> QED
        BY <1>4, <2>3, <4>1, <4>2, <4>3
    <3> QED
      BY <3>1, <3>2
  <2>4. BaseCallees(copy)' = BaseCallees(g)
    <3>1. \A h \in Func : <<copy, h>> \in calls' <=> <<g, h>> \in calls
      BY <1>1, <1>2, <1>4, <1>6, <1>7
    <3>2. \A h \in Func : <<g, h>> \in calls => base'[h] = base[h]
      BY <1>1, <1>3, <1>6 DEF TypeOK
    <3>3. ASSUME NEW b \in BaseCallees(copy)' PROVE b \in BaseCallees(g)
      <4>1. PICK h \in Func : <<copy, h>> \in calls' /\ b = base'[h]
        BY <3>3 DEF BaseCallees, Callees
      <4> QED
        BY <3>1, <3>2, <4>1 DEF BaseCallees, Callees
    <3>4. ASSUME NEW b \in BaseCallees(g) PROVE b \in BaseCallees(copy)'
      <4>1. PICK h \in Func : <<g, h>> \in calls /\ b = base[h]
        BY <3>4 DEF BaseCallees, Callees
      <4> QED
        BY <3>1, <3>2, <4>1 DEF BaseCallees, Callees
    <3> QED
      BY <3>3, <3>4
  <2>5. ASSUME NEW x \in Func PROVE BaseCallees(x)' = BaseCallees(base[x])'
    <3>1. base'[copy] = g /\ base[x] \in Func /\ (x # copy => base'[x] = base[x] /\ base[x] # copy)
      BY <1>1, <1>3, <2>1 DEF TypeOK
    <3>2. CASE x = copy
      BY <1>2, <2>3, <2>4, <3>1, <3>2
    <3>3. CASE x # copy
      <4>1. BaseCallees(x) = BaseCallees(base[x])
        BY <1>1 DEF CopiesAlike
      <4> QED
        BY <2>3, <3>1, <3>3, <4>1
    <3> QED
      BY <3>2, <3>3
  <2> QED
    BY <2>2, <2>5 DEF CopiesAlike
<1>12. CallersFresh' /\ Propagating'
  BY DEF CallersFresh, Propagating
<1> QED
  BY <1>1, <1>9, <1>10, <1>11, <1>12 DEF Inv

LEMMA ReuseInv ==
  ASSUME Inv, Inv => TypeOK' /\ Phase', pc = "specialize",
         UNCHANGED <<caller_func, pass, pc>>,
         NEW f \in listed, NEW g \in Func, NEW copy \in Clones, NEW only \in BOOLEAN,
         <<f, g>> \in calls, Specializable(g), Reuse(f, g, copy, only)
  PROVE  Inv'
<1>1. /\ TypeOK /\ CallsListed /\ CopiesAlike /\ copy \in Func /\ f \in Func
      /\ ClosedUnderCallers(has_side_effect) /\ TypeOK' /\ Phase'
  <2>1. ClosedUnderCallers(has_side_effect)
    BY MarkedNow
  <2>2. copy \in Func
    BY DEF Func
  <2> QED
    BY <2>1, <2>2 DEF Inv, TypeOK, CopiesAlike
<1>2. /\ base[g] = g /\ base[copy] = g /\ copy # g /\ copy \in listed
      /\ UNCHANGED <<listed, stores, param_stores, has_side_effect, base>>
  BY <1>1 DEF Reuse, Specializable, CopiesAlike
<1>3. \A x, h \in Func : <<x, h>> \in calls' => <<x, h>> \in calls \/ (x = f /\ h = copy)
  BY <1>1 DEF Reuse, Redirect
<1>4. \A x, h \in Func :
        <<x, h>> \in calls => <<x, h>> \in calls' \/ (x = f /\ h = g /\ <<f, copy>> \in calls')
  BY <1>1 DEF Reuse, Redirect
<1>5. \A e \in calls' : e[1] \in Func /\ e[2] \in Func /\ <<e[1], e[2]>> \in calls'
  <2>1. \A e \in calls' : e[1] \in Func /\ e[2] \in Func /\ e = <<e[1], e[2]>>
    BY <1>1 DEF TypeOK, Call
  <2> QED
    BY <2>1
<1>6. CallsListed'
  BY <1>1, <1>2, <1>3, <1>5 DEF CallsListed
<1>7. Marked'
  <2>1. copy \in has_side_effect <=> g \in has_side_effect
    BY <1>1, <1>2 DEF CopiesAlike
  <2>2. \A e \in calls' : e[2] \in has_side_effect => e[1] \in has_side_effect
    BY <1>1, <1>3, <1>5, <2>1 DEF ClosedUnderCallers
  <2> QED
    BY <1>1, <1>2, <2>2 DEF Marked, ClosedUnderCallers, DirectlyEffectful
<1>8. CopiesAlike'
  <2>1. ASSUME NEW x \in Func PROVE BaseCallees(x)' = BaseCallees(x)
    <3>1. ASSUME NEW b \in BaseCallees(x) PROVE b \in BaseCallees(x)'
      <4>1. PICK h \in Func : <<x, h>> \in calls /\ b = base[h]
        BY <3>1 DEF BaseCallees, Callees
      <4> QED
        BY <1>1, <1>2, <1>4, <4>1 DEF BaseCallees, Callees
    <3>2. ASSUME NEW b \in BaseCallees(x)' PROVE b \in BaseCallees(x)
      <4>1. PICK h \in Func : <<x, h>> \in calls' /\ b = base[h]
        BY <1>2, <3>2 DEF BaseCallees, Callees
      <4> QED
        BY <1>1, <1>2, <1>3, <4>1 DEF BaseCallees, Callees
    <3> QED
      BY <3>1, <3>2
  <2>2. \A x \in Func : base[x] \in Func
    BY <1>1 DEF TypeOK
  <2> QED
    BY <1>1, <1>2, <2>1, <2>2 DEF CopiesAlike
<1>9. CallersFresh' /\ Propagating'
  BY DEF CallersFresh, Propagating
<1> QED
  BY <1>1, <1>6, <1>7, <1>8, <1>9 DEF Inv

LEMMA SpecializeCallInv == Inv /\ SpecializeCall => Inv'
<1> SUFFICES ASSUME Inv, SpecializeCall PROVE Inv'
  OBVIOUS
<1>1. Inv => TypeOK' /\ Phase'
  BY TypeStep DEF Inv, Next
<1>2. PICK f \in listed \ Builtins, g \in Func, copy \in Clones, only \in BOOLEAN :
        /\ <<f, g>> \in calls /\ Specializable(g)
        /\ Reuse(f, g, copy, only) \/ CloneForConstArgs(f, g, copy, only)
  BY DEF SpecializeCall
<1>3. pc = "specialize" /\ UNCHANGED <<caller_func, pass, pc>>
  BY DEF SpecializeCall
<1>4. CASE Reuse(f, g, copy, only)
  BY <1>1, <1>2, <1>3, <1>4, ReuseInv
<1>5. CASE CloneForConstArgs(f, g, copy, only)
  BY <1>1, <1>2, <1>3, <1>5, CloneInv
<1> QED
  BY <1>2, <1>4, <1>5

LEMMA EndSpecializeInv == Inv /\ EndSpecialize => Inv'
<1> SUFFICES ASSUME Inv, EndSpecialize PROVE Inv'
  OBVIOUS
<1>1. TypeOK' /\ Phase'
  BY TypeStep DEF Inv, Next
<1>2. /\ CallsListed /\ pc = "specialize" /\ pc' = "pass" /\ pass' = pass + 1 /\ base' = NoCopies
      /\ UNCHANGED <<program, summary>> /\ Running("specialize_const_arg") /\ pass \in Nat
  BY DEF Inv, EndSpecialize, Phase, TypeOK
<1>3. ClosedUnderCallers(has_side_effect)
  BY <1>2, MarkedNow DEF Inv
<1>4. CallsListed' /\ CallersFresh' /\ Propagating' /\ Marked'
  BY <1>2, <1>3 DEF program, summary, CallsListed, CallersFresh, Propagating, Marked,
                    ClosedUnderCallers, DirectlyEffectful, Running
<1>5. CopiesAlike'
  BY <1>1, <1>2 DEF CopiesAlike, NoCopies, TypeOK
<1> QED
  BY <1>1, <1>4, <1>5 DEF Inv

LEMMA InvStep == Inv /\ [Next]_vars => Inv'
<1> SUFFICES ASSUME Inv, [Next]_vars PROVE Inv'
  OBVIOUS
<1>1. CASE Rebuild \/ Propagate \/ Propagated
  BY <1>1, RebuildInv, PropagateInv, PropagatedInv
<1>2. CASE DecideInline \/ EndInline \/ BeginSpecialize \/ OtherPass
  BY <1>2, IdleInv
<1>3. CASE InlineInto
  BY <1>3, InlineIntoInv
<1>4. CASE SpecializeCall \/ EndSpecialize
  BY <1>4, SpecializeCallInv, EndSpecializeInv
<1>5. CASE Dce \/ RemoveUnusedFunction
  BY <1>5, DceInv, RemoveUnusedFunctionInv
<1>6. CASE UNCHANGED vars
  <2> USE <1>6 DEF vars
  <2>1. TypeOK' /\ Phase' /\ CallsListed' /\ CallersFresh'
    BY DEF Inv, TypeOK, OnList, Phase, Running, CallsListed, CallersFresh, Callers
  <2>2. Propagating' /\ Marked'
    <3>1. DirectlyEffectful' = DirectlyEffectful
      BY DEF DirectlyEffectful
    <3>2. Effectful' = Effectful
      BY <3>1 DEF Effectful, ClosedUnderCallers
    <3> QED
      BY <3>1, <3>2 DEF Inv, Propagating, Marked, ClosedUnderCallers
  <2>3. CopiesAlike'
    <3>1. \A x \in Func : BaseCallees(x)' = BaseCallees(x)
      BY DEF BaseCallees, Callees
    <3>2. \A x \in Func : base[x] \in Func
      BY DEF Inv, TypeOK
    <3> QED
      BY <3>1, <3>2 DEF Inv, CopiesAlike
  <2> QED
    BY <2>1, <2>2, <2>3 DEF Inv
<1> QED
  BY <1>1, <1>2, <1>3, <1>4, <1>5, <1>6 DEF Next

\* The call graph, the summaries and the program always have their types.
THEOREM TypeCorrect == Spec => []TypeOK
<1>1. Init => TypeOK /\ Phase
  BY TypeInit DEF Init, Phase
<1> QED
  BY <1>1, TypeStep, PTL DEF Spec

THEOREM Invariant == Spec => []Inv
  BY InvInit, InvStep, PTL DEF Spec

\* compute_callgraph marks the functions that reach an effect, and no others.
THEOREM ComputeCallgraphExact == Spec => []SummaryExact
<1>1. Inv => SummaryExact
  <2> SUFFICES ASSUME Inv, pc = "propagate", work_list = {}
               PROVE  has_side_effect \cap listed = Effectful \cap listed
    BY DEF SummaryExact
  <2>1. TypeOK /\ Propagating
    BY DEF Inv
  <2>2. ClosedUnderCallers(has_side_effect)
    BY <2>1 DEF Propagating, ClosedUnderCallers
  <2> QED
    BY <2>1, <2>2, EffectfulLeast DEF Propagating
<1> QED
  BY <1>1, Invariant, PTL

\* No pass makes a summary hide an effect from dead code elimination.
THEOREM SummariesSound == Spec => []SummarySound
<1>1. Inv => SummarySound
  BY EffectfulLeast DEF Inv, Marked, SummarySound
<1> QED
  BY <1>1, Invariant, PTL

\* remove_unused_function leaves no call to a function that it removed.
THEOREM CalleesListed == Spec => []NoDanglingCall
<1>1. Inv => NoDanglingCall
  BY DEF Inv, CallsListed, NoDanglingCall
<1> QED
  BY <1>1, Invariant, PTL

-----------------------------------------------------------------------------
(* No step loses an effect.  T stands for functions of which main reaches, *)
(* after the step, one with the same effects.                              *)

LEMMA ReachClosed ==
  ASSUME NEW C \in SUBSET Call, NEW f \in Func
  PROVE  f \in ReachIn(C, f) /\ \A e \in C : e[1] \in ReachIn(C, f) => e[2] \in ReachIn(C, f)
<1>1. \A e \in C : e[1] \in Func /\ e[2] \in Func
  BY DEF Call
<1> QED
  BY <1>1 DEF ReachIn

LEMMA EffectsFollow ==
  ASSUME TypeOK, TypeOK', NEW T \in SUBSET Func, Main \in T,
         \A e \in calls : e[1] \in T => e[2] \in T,
         \A g \in T : /\ g \in Builtins => g \in ReachIn(calls', Main)
                      /\ \E h \in ReachIn(calls', Main) : stores[g] \subseteq stores'[h]
  PROVE  Effects \subseteq Effects'
<1>1. Reachable(Main) \subseteq T
  BY DEF Reachable, ReachIn
<1> SUFFICES ASSUME NEW x \in Effects PROVE x \in Effects'
  OBVIOUS
<1>2. PICK g \in Reachable(Main) : x \in stores[g] \/ (x = g /\ g \in Builtins)
  BY DEF Effects
<1>3. Reachable(Main)' = ReachIn(calls', Main)
  BY DEF Reachable, ReachIn
<1>4. \E h \in Reachable(Main)' : x \in stores'[h] \/ x \in {h} \cap Builtins
  BY <1>1, <1>2, <1>3
<1> QED
  BY <1>4 DEF Effects

LEMMA MainIsFunc == Main \in Func /\ Main \notin Builtins /\ Main \notin Clones
  BY FuncAssumption DEF Func

LEMMA DceKeeps == Inv /\ Dce => Effects \subseteq Effects'
<1> SUFFICES ASSUME Inv, Dce PROVE Effects \subseteq Effects'
  OBVIOUS
<1> DEFINE R == ReachIn(calls', Main)
           T == R \cup {f \in listed : f \notin has_side_effect}
<1>1. /\ TypeOK /\ TypeOK' /\ CallsListed /\ UNCHANGED stores
      /\ ClosedUnderCallers(has_side_effect)
  BY TypeStep, MarkedNow DEF Inv, Next, Dce, Running
<1>2. \A e \in calls : e \in calls' \/ e[2] \notin has_side_effect
  BY DEF Dce, DeadCalls
<1>3. Main \in R /\ (\A e \in calls' : e[1] \in R => e[2] \in R) /\ R \subseteq Func
  <2>1. calls' \in SUBSET Call
    BY <1>1 DEF TypeOK
  <2> QED
    BY <2>1, ReachClosed, MainIsFunc DEF ReachIn
<1> HIDE DEF R
<1>4. T \in SUBSET Func /\ Main \in T
  BY <1>1, <1>3 DEF TypeOK
<1>5. \A e \in calls : e[1] \in T => e[2] \in T
  BY <1>1, <1>2, <1>3 DEF CallsListed, ClosedUnderCallers
<1>6. \A g \in T : (g \in Builtins => g \in R) /\ \E h \in R : stores[g] \subseteq stores'[h]
  BY <1>1, <1>3 DEF ClosedUnderCallers, DirectlyEffectful
<1> QED
  BY <1>1, <1>4, <1>5, <1>6, EffectsFollow DEF R

LEMMA RemoveUnusedFunctionKeeps == Inv /\ RemoveUnusedFunction => Effects \subseteq Effects'
<1> SUFFICES ASSUME Inv, RemoveUnusedFunction PROVE Effects \subseteq Effects'
  OBVIOUS
<1> DEFINE R == ReachIn(calls', Main)
           T == {f \in R : ~Unused(f)}
<1>1. TypeOK /\ TypeOK' /\ UNCHANGED stores
  BY TypeStep DEF Inv, Next, RemoveUnusedFunction
<1>2. \A e \in calls : e \in calls' \/ Unused(e[1])
  BY DEF RemoveUnusedFunction
<1>3. Main \in R /\ (\A e \in calls' : e[1] \in R => e[2] \in R) /\ R \subseteq Func
  <2>1. calls' \in SUBSET Call
    BY <1>1 DEF TypeOK
  <2> QED
    BY <2>1, ReachClosed, MainIsFunc DEF ReachIn
<1> HIDE DEF R
<1>4. T \in SUBSET Func /\ Main \in T
  BY <1>3 DEF Unused
<1>5. \A e \in calls : e[1] \in T => e[2] \in T
  BY <1>2, <1>3, UnusedHasNoCaller
<1>6. \A g \in T : (g \in Builtins => g \in R) /\ \E h \in R : stores[g] \subseteq stores'[h]
  BY <1>1
<1> QED
  BY <1>1, <1>4, <1>5, <1>6, EffectsFollow DEF R

LEMMA InlineIntoKeeps == Inv /\ InlineInto => Effects \subseteq Effects'
<1> SUFFICES ASSUME Inv, InlineInto PROVE Effects \subseteq Effects'
  OBVIOUS
<1> DEFINE f == order[at]
           G == Callees(f) \cap can_inline
           R == ReachIn(calls', Main)
           T == R \cup (IF f \in R THEN G ELSE {})
<1>1. TypeOK /\ TypeOK' /\ G \cap Builtins = {}
  BY TypeStep DEF Inv, Next, Phase
<1>2. CASE UNCHANGED <<calls, stores, param_stores, loads>>
  BY <1>2 DEF Effects, Reachable
<1>3. CASE \E kind \in {"local", "param", "global"} : Inlined(f, G, kind)
  <2>1. Main \in R /\ (\A e \in calls' : e[1] \in R => e[2] \in R) /\ R \subseteq Func
    <3>1. calls' \in SUBSET Call
      BY <1>1 DEF TypeOK
    <3> QED
      BY <3>1, ReachClosed, MainIsFunc DEF ReachIn
  <2>2. /\ G \subseteq Func
        /\ \A e \in calls : e \in calls' \/ (e[1] = f /\ e[2] \in G)
        /\ \A g \in G, h \in Func : <<g, h>> \in calls => <<f, h>> \in calls'
        /\ \A e \in calls : e[1] \in Func /\ e[2] \in Func /\ e = <<e[1], e[2]>>
    <3>1. \A e \in calls : e[1] \in Func /\ e[2] \in Func /\ e = <<e[1], e[2]>>
      BY <1>1 DEF TypeOK, Call
    <3>2. G \subseteq Func
      BY DEF Callees
    <3>3. calls' = (calls \ ({f} \X G)) \cup ({f} \X InlinedCallees(G))
      BY <1>3 DEF Inlined
    <3> HIDE DEF f, G
    <3>4. \A g \in G, h \in Func : <<g, h>> \in calls => h \in InlinedCallees(G)
      BY DEF InlinedCallees, Callees
    <3> QED
      BY <3>1, <3>2, <3>3, <3>4
  <2>3. /\ \A h \in Func : stores[h] \subseteq stores'[h]
        /\ \A g \in G : f \in Func => stores[g] \subseteq stores'[f]
    <3>1. PICK kind \in {"local", "param", "global"} : Inlined(f, G, kind)
      BY <1>3
    <3> HIDE DEF f, G
    <3>2. \A g \in G : stores[g] \subseteq InlinedStores(G, kind)
      BY DEF InlinedStores
    <3> QED
      BY <1>1, <3>1, <3>2 DEF Inlined, TypeOK
  <2> HIDE DEF R, f, G
  <2>4. T \in SUBSET Func /\ Main \in T
    BY <2>1, <2>2
  <2>5. \A e \in calls : e[1] \in T => e[2] \in T
    BY <2>1, <2>2
  <2>6. \A g \in T : (g \in Builtins => g \in R) /\ \E h \in R : stores[g] \subseteq stores'[h]
    BY <1>1, <2>1, <2>3
  <2> QED
    BY <1>1, <2>4, <2>5, <2>6, EffectsFollow DEF R
<1> QED
  BY <1>2, <1>3 DEF InlineInto

\* A copy, or its original, has the same effects and calls.
LEMMA SpecializeCallKeeps == Inv /\ SpecializeCall => Effects \subseteq Effects'
<1> SUFFICES ASSUME Inv, SpecializeCall PROVE Effects \subseteq Effects'
  OBVIOUS
<1>1. PICK f \in listed \ Builtins, g \in Func, copy \in Clones, only \in BOOLEAN :
        /\ <<f, g>> \in calls /\ Specializable(g)
        /\ Reuse(f, g, copy, only) \/ CloneForConstArgs(f, g, copy, only)
  BY DEF SpecializeCall
<1> DEFINE R == ReachIn(calls', Main)
           cloned == IF copy \in listed THEN {} ELSE {copy}
           T == {x \in Func \ cloned : \E z \in R : base'[z] = base'[x]}
<1>2. TypeOK /\ TypeOK' /\ CallsListed /\ CopiesAlike /\ CopiesAlike'
  BY TypeStep, SpecializeCallInv DEF Inv, Next
<1>3. Main \in R /\ (\A e \in calls' : e[1] \in R => e[2] \in R) /\ R \subseteq Func
  <2>1. calls' \in SUBSET Call
    BY <1>2 DEF TypeOK
  <2> QED
    BY <2>1, ReachClosed, MainIsFunc DEF ReachIn
<1> HIDE DEF R
<1>4. copy \in Func /\ f \in Func /\ base[g] = g /\ g # copy
  BY <1>1, <1>2 DEF Func, TypeOK, Specializable, Reuse, CloneForConstArgs, CallsListed
<1>5. base'[copy] = g /\ base'[g] = g
  <2>1. CASE Reuse(f, g, copy, only)
    BY <1>4, <2>1 DEF Reuse
  <2>2. CASE CloneForConstArgs(f, g, copy, only)
    BY <1>2, <1>4, <2>2 DEF CloneForConstArgs, TypeOK
  <2> QED
    BY <1>1, <2>1, <2>2
<1>6. \A x \in Func \ cloned : stores'[x] = stores[x]
  BY <1>1, <1>2, <1>4 DEF Reuse, CloneForConstArgs, TypeOK
<1>7. T \in SUBSET Func /\ Main \in T
  BY <1>3, <1>4, MainIsFunc
<1>8. \A e \in calls : e[1] \in T => e[2] \in T
  <2> SUFFICES ASSUME NEW x \in T, NEW h \in Func, <<x, h>> \in calls PROVE h \in T
    <3>1. calls \subseteq Func \X Func
      BY <1>2 DEF TypeOK, Call
    <3> HIDE DEF T
    <3> QED
      BY <3>1
  <2>1. PICK z \in R : base'[z] = base'[x]
    OBVIOUS
  <2>2. PICK h2 \in Func : <<x, h2>> \in calls' /\ base'[h2] = base'[h]
    BY <1>1, <1>4, <1>5 DEF Reuse, CloneForConstArgs, Redirect
  <2>3. base'[h] \in BaseCallees(x)'
    BY <2>2 DEF BaseCallees, Callees
  <2>4. BaseCallees(x)' = BaseCallees(z)'
    <3>1. /\ BaseCallees(x)' = BaseCallees(base[x])' /\ BaseCallees(z)' = BaseCallees(base[z])'
      BY <1>2, <1>3 DEF CopiesAlike
    <3> QED
      BY <2>1, <3>1
  <2>5. PICK w \in Func : <<z, w>> \in calls' /\ base'[w] = base'[h]
    BY <2>3, <2>4 DEF BaseCallees, Callees
  <2>6. w \in R
    BY <1>3, <2>5
  <2>7. h \notin cloned
    BY <1>2 DEF CallsListed
  <2> QED
    BY <2>5, <2>6, <2>7
<1>9. \A x \in T : (x \in Builtins => x \in R) /\ \E h \in R : stores[x] \subseteq stores'[h]
  <2> SUFFICES ASSUME NEW x \in T
               PROVE  (x \in Builtins => x \in R) /\ \E h \in R : stores[x] \subseteq stores'[h]
    OBVIOUS
  <2>1. PICK z \in R : base'[z] = base'[x]
    OBVIOUS
  <2>2. x \in Func /\ z \in Func /\ stores'[x] = stores[x] /\ stores'[x] = stores'[z]
    BY <1>2, <1>3, <1>6, <2>1 DEF CopiesAlike
  <2>3. x \in Builtins => x \in R
    BY <1>2, <2>1, <2>2, FuncAssumption DEF CopiesAlike
  <2> QED
    BY <2>2, <2>3
<1> QED
  BY <1>2, <1>7, <1>8, <1>9, EffectsFollow DEF R

\* No pass loses an effect that main can reach.
THEOREM EffectsAreKept == Spec => EffectsKept
<1>1. ASSUME Inv, [Next]_vars PROVE [Effects \subseteq Effects']_vars
  <2>1. CASE Rebuild \/ Propagate \/ Propagated \/ DecideInline \/ EndInline
             \/ BeginSpecialize \/ EndSpecialize \/ OtherPass
    <3>1. UNCHANGED program
      BY <2>1 DEF Rebuild, Propagate, Propagated, DecideInline, EndInline, BeginSpecialize,
                  EndSpecialize, OtherPass
    <3> QED
      BY <3>1 DEF program, Effects, Reachable
  <2>2. CASE Dce \/ RemoveUnusedFunction \/ InlineInto \/ SpecializeCall
    BY <1>1, <2>2, DceKeeps, RemoveUnusedFunctionKeeps, InlineIntoKeeps, SpecializeCallKeeps
  <2> QED
    BY <1>1, <2>1, <2>2 DEF Next
<1> QED
  BY <1>1, Invariant, PTL DEF Spec, EffectsKept

=============================================================================
