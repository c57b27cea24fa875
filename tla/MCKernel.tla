------------------------------ MODULE MCKernel ------------------------------
(* Instances of Kernel for TLC: two coreManage threads, the scheduler and  *)
(* the resource manager over a few processes.                              *)
EXTENDS Kernel, TLC

(* The cores run the same code and nothing orders them.                    *)
CoreSymmetry == Permutations(Cores)

=============================================================================
