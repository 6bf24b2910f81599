----------------------------- MODULE JitRefinement -----------------------------
(***************************************************************************)
(* The JIT engine implements SelectiveReceive in its weak form: the strict *)
(* order of SelectiveReceive is broken by the JIT engine (JitRuntime has   *)
(* the counterexamples as ArrivalOrder and AfterOnlyOnNoMatch).            *)
(***************************************************************************)
EXTENDS JitRuntime, ProcSchedRefinement
=============================================================================
