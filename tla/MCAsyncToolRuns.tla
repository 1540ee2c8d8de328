-------------------------- MODULE MCAsyncToolRuns ---------------------------
(* Instances of AsyncToolRuns for TLC: a list of a process and a delegated *)
(* run, and one whose last id is unknown.  Waiters are interchangeable.    *)
EXTENDS AsyncToolRuns, TLC

CONSTANTS shell1, shell2, task1, unknown, w1, w2

Lists == {<<shell1, task1>>, <<shell1, unknown>>}
WaiterSymmetry == Permutations({w1, w2})
=============================================================================
