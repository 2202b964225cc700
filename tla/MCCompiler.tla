----------------------------- MODULE MCCompiler -----------------------------
(* Instances of Compiler: the names a and b are interchangeable.             *)
EXTENDS Compiler, TLC

Symmetric == Permutations(Names)
=============================================================================
