------------------------------ MODULE CallGraph ------------------------------
(***************************************************************************)
(* The call graph and the effect summaries of functions, over the whole IR *)
(* pass list of pass_manager.cpp: compute_callgraph recomputes caller_func,*)
(* load_global and has_side_effect; between two runs of it the inliner,    *)
(* the specialiser and dead code elimination change the calls, and read    *)
(* the summaries of the last run; remove_unused_function reads caller_func.*)
(*                                                                         *)
(* A body is abstracted to what these passes look at: the functions it     *)
(* calls, the global stores in it, and whether it loads a global or stores *)
(* to an array parameter.  A global store is named after the function that *)
(* contains it in the source, a builtin's input or output after the builtin.*)
(* The calls of memset that some passes add, move and delete count as stores *)
(* here, not as calls.                                                     *)
(***************************************************************************)
EXTENDS Naturals, Sequences, FiniteSets

CONSTANTS
  Users,       \* functions of the source program
  Builtins,    \* functions of the run-time library
  Clones,      \* names for the copies specialize_const_arg makes
  Main,
  Source,      \* the functions in their order in the list IrProgram::func
  Programs     \* program bodies to start from

Func == Users \cup Builtins \cup Clones
Call == Func \X Func

ASSUME FuncAssumption ==
  /\ Users \cap Builtins = {} /\ Users \cap Clones = {} /\ Builtins \cap Clones = {}
  /\ Main \in Users
  /\ IsFiniteSet(Func)
  /\ Source \in Seq(Users \cup Builtins)
  /\ {Source[i] : i \in DOMAIN Source} = Users \cup Builtins

\* Bodies as they come from the front end: builtins have none.
ASSUME ProgramAssumption ==
  \A p \in Programs :
    /\ p.calls \subseteq Users \X (Users \cup Builtins)
    /\ p.stores \subseteq Users /\ p.param_stores \subseteq Users /\ p.loads \subseteq Users

\* The passes that run over the IR, in order.
IrPasses == <<
  "compute_callgraph", "mark_global_const", "mem2reg", "gvn_gcm", "compute_callgraph",
  "gvn_gcm", "loop_unroll", "gvn_gcm", "dead_store_elim", "loop_unroll", "gvn_gcm",
  "dead_store_elim", "extract_stack_array", "sink_local_init", "inline_func",
  "specialize_const_arg", "fold_counted_div_loop", "zero_loop_to_memset",
  "remove_dead_local_init", "promote_const_local_array", "inline_func",
  "promote_loop_store", "compute_callgraph", "gvn_gcm", "tighten_guarded_loop_bound",
  "strength_reduce_loop_access", "gvn_gcm", "loop_unroll", "gvn_gcm", "dead_store_elim",
  "compute_callgraph", "dce", "compute_callgraph", "remove_unused_function">>

VARIABLES
  order,           \* functions in the order in which they joined IrProgram::func
  listed,          \* those that the list still contains
  calls,           \* <<f, g>>: f, which is listed, has a call to g
  stores,          \* global stores in each body
  param_stores,    \* functions that store to an array parameter
  loads,           \* functions that load a global
  caller_func, load_global, has_side_effect, can_inline,    \* fields of IrFunc
  base,            \* for a copy made by specialize_const_arg, what it copies
  work_list,       \* functions whose callers are still to be marked
  pass,            \* index in IrPasses of the pass that runs
  at,              \* index in order of the function that inline_func works on
  pc               \* "pass", or inside one: "propagate", "inline", "specialize"

program == <<order, listed, calls, stores, param_stores, loads>>
summary == <<caller_func, load_global, has_side_effect>>
vars == <<order, listed, calls, stores, param_stores, loads, caller_func, load_global,
          has_side_effect, can_inline, base, work_list, pass, at, pc>>

NoCopies == [f \in Func |-> f]
Callees(f) == {g \in Func : <<f, g>> \in calls}
CallersSwapped(g) == {f \in Func : <<g, f>> \in calls}    \* mutant: the edge the wrong way round
Callers(g) == {f \in Func : <<f, g>> \in calls}
Running(p) == pass <= Len(IrPasses) /\ IrPasses[pass] = p

\* The summaries are uninitialised until the first pass, which writes them all.
Init ==
  /\ order = Source /\ listed = Users \cup Builtins
  /\ \E p \in Programs :
       /\ calls = p.calls
       /\ stores = [f \in Func |-> IF f \in p.stores THEN {f} ELSE {}]
       /\ param_stores = p.param_stores
       /\ loads = p.loads
  /\ caller_func = [f \in Func |-> {}]
  /\ load_global = {} /\ has_side_effect = {} /\ can_inline = {}
  /\ base = NoCopies /\ work_list = {}
  /\ pass = 1 /\ at = 1 /\ pc = "pass"

-----------------------------------------------------------------------------
(* compute_callgraph                                                       *)

\* Functions with an effect of their own: the seeds of the propagation.
DirectlyEffectful ==
  {f \in listed : f \in Builtins \/ stores[f] # {} \/ f \in param_stores}

Rebuild ==
  /\ pc = "pass" /\ Running("compute_callgraph")
  /\ caller_func' = [g \in Func |->
       Callers(g) \cup (IF g \in listed THEN {} ELSE caller_func[g])]
  /\ load_global' = (load_global \ listed) \cup {f \in listed : f \in Builtins \/ f \in loads}
  /\ has_side_effect' = (has_side_effect \ listed) \cup DirectlyEffectful
  /\ work_list' = DirectlyEffectful
  /\ pc' = "propagate"
  /\ UNCHANGED <<program, can_inline, base, pass, at>>

\* The list is a stack in the code; the order in which it is emptied, which
\* follows addresses, is left open.
\* Mutant: callers are marked but never visited in their turn.
PropagateOneLevel ==
  /\ pc = "propagate"
  /\ \E f \in work_list :
       /\ has_side_effect' = has_side_effect \cup caller_func[f]
       /\ work_list' = work_list \ {f}
  /\ UNCHANGED <<program, caller_func, load_global, can_inline, base, pass, at, pc>>

\* Mutant: callers that are marked already are visited again.
PropagateAgain ==
  /\ pc = "propagate"
  /\ \E f \in work_list :
       /\ has_side_effect' = has_side_effect \cup caller_func[f]
       /\ work_list' = (work_list \ {f}) \cup caller_func[f]
  /\ UNCHANGED <<program, caller_func, load_global, can_inline, base, pass, at, pc>>

Propagate ==
  /\ pc = "propagate"
  /\ \E f \in work_list :
       LET unmarked == caller_func[f] \ has_side_effect
       IN  /\ has_side_effect' = has_side_effect \cup unmarked
           /\ work_list' = (work_list \ {f}) \cup unmarked
  /\ UNCHANGED <<program, caller_func, load_global, can_inline, base, pass,
                 at, pc>>

Propagated ==
  /\ pc = "propagate" /\ work_list = {}
  /\ pc' = "pass" /\ pass' = pass + 1
  /\ UNCHANGED <<program, summary, can_inline, base, work_list, at>>

-----------------------------------------------------------------------------
(* inline_func                                                             *)

\* No builtin, no direct recursion; whether a body is small enough, without
\* alloca and with an entry block nobody jumps to is not modelled.
DecideInline ==
  /\ pc = "pass" /\ Running("inline_func")
  /\ can_inline' \in SUBSET {f \in listed \ Builtins : <<f, f>> \notin calls}
  /\ at' = 1 /\ pc' = "inline"
  /\ UNCHANGED <<program, summary, base, work_list, pass>>

\* Every call of f to an inlinable function is replaced by its body.  A store of
\* the body to an array parameter becomes a store to the array that f passes:
\* a local one, a parameter of f, or a global one.
InlinedStores(G, kind) ==
  (UNION {stores[g] : g \in G}) \cup {g \in G : kind = "global" /\ g \in param_stores}

InlinedCallees(G) == UNION {Callees(g) : g \in G}

Inlined(f, G, kind) ==
  /\ stores' = [stores EXCEPT ![f] = @ \cup InlinedStores(G, kind)]
  /\ param_stores' = IF kind = "param" /\ G \cap param_stores # {}
                     THEN param_stores \cup {f} ELSE param_stores
  /\ loads' = IF G \cap loads # {} THEN loads \cup {f} ELSE loads
  /\ calls' = (calls \ ({f} \X G)) \cup ({f} \X InlinedCallees(G))

InlineInto ==
  /\ pc = "inline" /\ at <= Len(order)
  /\ LET f == order[at]
     IN  IF f \notin listed \ Builtins \/ Callees(f) \cap can_inline = {}
         THEN UNCHANGED <<calls, stores, param_stores, loads>>
         ELSE \E kind \in {"local", "param", "global"} :
                Inlined(f, Callees(f) \cap can_inline, kind)
  /\ at' = at + 1
  /\ UNCHANGED <<order, listed, summary, can_inline, base, work_list, pass, pc>>

EndInline ==
  /\ pc = "inline" /\ at > Len(order)
  /\ pc' = "pass" /\ pass' = pass + 1
  /\ UNCHANGED <<program, summary, can_inline, base, work_list, at>>

-----------------------------------------------------------------------------
(* specialize_const_arg                                                    *)

BeginSpecialize ==
  /\ pc = "pass" /\ Running("specialize_const_arg")
  /\ pc' = "specialize"
  /\ UNCHANGED <<program, summary, can_inline, base, work_list, pass, at>>

\* build_key: the callee, which is no copy itself, calls itself with an argument
\* that counts down.
Specializable(g) ==
  g \notin Builtins /\ g # Main /\ base[g] = g /\ <<g, g>> \in calls

\* A call of f to g goes to a copy of g; it may be the only one of f to g.
Redirect(f, g, copy, only) ==
  (IF only THEN calls \ {<<f, g>>} ELSE calls) \cup {<<f, copy>>}

\* The key, g and a constant, is known: its copy is called.
Reuse(f, g, copy, only) ==
  /\ copy # g /\ base[copy] = g
  /\ calls' = Redirect(f, g, copy, only)
  /\ UNCHANGED <<order, listed, stores, param_stores, loads, load_global,
                 has_side_effect, base>>

\* S once copy is made a member of it exactly if g is one.
Like(S, g, copy) == IF g \in S THEN S \cup {copy} ELSE S \ {copy}

\* Mutant: the copy is not added to IrProgram::func.
CloneUnlisted(f, g, copy, only) ==
  /\ copy \notin listed
  /\ order' = order /\ listed' = listed \cup {copy}
  /\ calls' = Redirect(f, g, copy, only) \cup ({copy} \X Callees(g))
  /\ stores' = [stores EXCEPT ![copy] = stores[g]]
  /\ param_stores' = Like(param_stores, g, copy)
  /\ loads' = Like(loads, g, copy)
  /\ load_global' = Like(load_global, g, copy)
  /\ has_side_effect' = Like(has_side_effect, g, copy)
  /\ base' = [base EXCEPT ![copy] = g]

\* Mutant: the copy starts without a summary.
CloneUnsummarised(f, g, copy, only) ==
  /\ copy \notin listed
  /\ order' = Append(order, copy) /\ listed' = listed \cup {copy}
  /\ calls' = Redirect(f, g, copy, only) \cup ({copy} \X Callees(g))
  /\ stores' = [stores EXCEPT ![copy] = stores[g]]
  /\ param_stores' = Like(param_stores, g, copy)
  /\ loads' = Like(loads, g, copy)
  /\ load_global' = load_global \ {copy} /\ has_side_effect' = has_side_effect \ {copy}
  /\ base' = [base EXCEPT ![copy] = g]

CloneForConstArgs(f, g, copy, only) ==
  /\ copy \notin listed
  /\ order' = Append(order, copy) /\ listed' = listed \cup {copy}
  /\ calls' = Redirect(f, g, copy, only) \cup ({copy} \X Callees(g))
  /\ stores' = [stores EXCEPT ![copy] = stores[g]]
  /\ param_stores' = Like(param_stores, g, copy)
  /\ loads' = Like(loads, g, copy)
  /\ load_global' = Like(load_global, g, copy)
  /\ has_side_effect' = Like(has_side_effect, g, copy)
  /\ base' = [base EXCEPT ![copy] = g]

SpecializeCall ==
  /\ pc = "specialize"
  /\ \E f \in listed \ Builtins, g \in Func, copy \in Clones, only \in BOOLEAN :
       /\ <<f, g>> \in calls /\ Specializable(g)
       /\ Reuse(f, g, copy, only) \/ CloneForConstArgs(f, g, copy, only)
  /\ UNCHANGED <<caller_func, can_inline, work_list, pass, at, pc>>

EndSpecialize ==
  /\ pc = "specialize"
  /\ pc' = "pass" /\ pass' = pass + 1
  /\ base' = NoCopies
  /\ UNCHANGED <<program, summary, can_inline, work_list, at>>

-----------------------------------------------------------------------------
(* dce, which gvn_gcm calls too; remove_unused_function; the other passes. *)

\* Mutant: only the effects of the callee's own body count.
DeadDirectly == {e \in calls : e[2] \notin DirectlyEffectful}

\* Unused calls disappear unless the summary says the callee has an effect.
DeadCalls == {e \in calls : e[2] \notin has_side_effect}

Dce ==
  /\ pc = "pass" /\ (Running("dce") \/ Running("gvn_gcm"))
  /\ \E dead \in SUBSET DeadCalls : calls' = calls \ dead
  /\ pass' = pass + 1
  /\ UNCHANGED <<order, listed, stores, param_stores, loads, summary, can_inline, base, work_list, at, pc>>

Unused(f) == caller_func[f] = {} /\ f # Main

RemoveUnusedFunction ==
  /\ pc = "pass" /\ Running("remove_unused_function")
  /\ listed' = {f \in listed : ~Unused(f)}
  /\ calls' = {e \in calls : ~Unused(e[1])}
  /\ pass' = pass + 1
  /\ UNCHANGED <<order, stores, param_stores, loads, summary, can_inline, base,
                 work_list, at, pc>>

\* Passes over one function that leave its calls alone.
OtherPass ==
  /\ pc = "pass" /\ pass <= Len(IrPasses)
  /\ IrPasses[pass] \notin {"compute_callgraph", "inline_func", "specialize_const_arg",
                            "dce", "gvn_gcm", "remove_unused_function"}
  /\ pass' = pass + 1
  /\ UNCHANGED <<program, summary, can_inline, base, work_list, at, pc>>

Next ==
  \/ Rebuild \/ Propagate \/ Propagated
  \/ DecideInline \/ InlineInto \/ EndInline
  \/ BeginSpecialize \/ SpecializeCall \/ EndSpecialize
  \/ Dce \/ RemoveUnusedFunction \/ OtherPass

Spec == Init /\ [][Next]_vars
FairSpec == Spec /\ WF_vars(Next)

-----------------------------------------------------------------------------
OnList == \A f \in listed : \E i \in DOMAIN order : order[i] = f

TypeOK ==
  /\ order \in Seq(Func) /\ listed \subseteq Func /\ OnList
  /\ calls \subseteq Call
  /\ stores \in [Func -> SUBSET Func]
  /\ param_stores \subseteq Func /\ loads \subseteq Func
  /\ caller_func \in [Func -> SUBSET Func]
  /\ load_global \subseteq Func /\ has_side_effect \subseteq Func
  /\ can_inline \subseteq Func /\ work_list \subseteq Func
  /\ base \in [Func -> Func]
  /\ pass \in 1 .. Len(IrPasses) + 1 /\ at \in Nat
  /\ pc \in {"pass", "propagate", "inline", "specialize"}

\* The functions that can reach an effect: the least set that contains those
\* with an effect of their own and every caller of a member.
ClosedUnderCallers(S) ==
  DirectlyEffectful \subseteq S /\ \A e \in calls : e[2] \in S => e[1] \in S
Effectful == {f \in Func : \A S \in SUBSET Func : ClosedUnderCallers(S) => f \in S}

\* What the calls C lead to from f.
ReachIn(C, f) ==
  {g \in Func : \A S \in SUBSET Func :
     (f \in S /\ \A e \in C : e[1] \in S => e[2] \in S) => g \in S}
Reachable(f) == ReachIn(calls, f)

\* What a run of the program can do that is seen outside of it.
Effects == UNION {stores[g] \cup ({g} \cap Builtins) : g \in Reachable(Main)}

\* When the propagation of compute_callgraph ends, has_side_effect marks the
\* functions that reach an effect, and no others.
SummaryExact ==
  pc = "propagate" /\ work_list = {} => has_side_effect \cap listed = Effectful \cap listed

\* The summaries are read long after they were computed, when the inliner and the
\* specialiser have moved calls and stores around: no effect is ever hidden
\* from the passes that delete unused calls.
SummarySound ==
  pass > 1 /\ pc # "propagate" => Effectful \subseteq has_side_effect

\* remove_unused_function, which trusts caller_func, leaves no call to a
\* function that it took off the list.
NoDanglingCall == \A f, g \in Func : <<f, g>> \in calls => g \in listed

\* No pass loses an effect that main can reach.
EffectsKept == [][Effects \subseteq Effects']_vars

\* The passes come to an end.
PassesEnd == <>(pass = Len(IrPasses) + 1)

=============================================================================
