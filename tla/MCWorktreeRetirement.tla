------------------------ MODULE MCWorktreeRetirement ------------------------
(***************************************************************************)
(* Model checking of WorktreeRetirement: sub is a directory inside the     *)
(* worktree w1; any other directory is outside of every worktree.          *)
(***************************************************************************)
EXTENDS WorktreeRetirement, TLC

CONSTANTS w1, sub

Nesting == [p \in Paths |->
  IF p = Unscoped THEN Worktrees ELSE IF p = sub THEN {w1} ELSE {p} \cap Worktrees]

Symmetry == Permutations(Spawners) \cup Permutations(Cleaners)
=============================================================================
