----------------------------- MODULE MCCallGraph -----------------------------
(* Instances of CallGraph.  A SysY function calls itself and the functions *)
(* declared before it; main comes last.                                    *)
EXTENDS CallGraph

CONSTANTS put, f1, f2, main

MCUsers == {f1, f2, main}
MCSource == <<put, f1, f2, main>>

MCCalls == {<<f1, put>>, <<f2, f1>>, <<f2, f2>>}

MCPrograms ==
  [calls : {c \cup {<<main, f2>>} : c \in SUBSET MCCalls},
   stores : {{}}, param_stores : SUBSET {f1}, loads : {{f1}}]
=============================================================================
