----------------------------- MODULE AotRefinement -----------------------------
(***************************************************************************)
(* The AOT engine implements SelectiveReceive in its weak form: the strict *)
(* order of SelectiveReceive is broken by the AOT engine (JitRuntime has   *)
(* the counterexamples as ArrivalOrder and AfterOnlyOnNoMatch).            *)
(***************************************************************************)
EXTENDS AotRuntime, ProcSchedRefinement
=============================================================================
