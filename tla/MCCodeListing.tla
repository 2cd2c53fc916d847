--------------------------- MODULE MCCodeListing ---------------------------
(* CodeListing on a memory of a few windows.  Symbols are interchangeable: *)
(* the VM's table and its order of listing them are chosen freely.         *)
EXTENDS CodeListing, TLC

SymmetricSyms == Permutations(Syms)

(* One address per instruction, as in mvm0, and instructions of one and of *)
(* two addresses.                                                          *)
MCLayouts == { [a \in MemAddr |-> 1],
               [a \in MemAddr |-> IF a % 3 = 1 THEN 2 ELSE 1] }
=============================================================================
