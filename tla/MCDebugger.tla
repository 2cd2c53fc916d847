----------------------------- MODULE MCDebugger -----------------------------
(* Debugger on a memory of a few instructions and a shallow call stack.    *)
EXTENDS Debugger
=============================================================================
