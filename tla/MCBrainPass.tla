----------------------------- MODULE MCBrainPass ----------------------------
(***************************************************************************)
(* Instances of BrainPass for TLC: two processes, a tick and an operator.  *)
(***************************************************************************)
EXTENDS BrainPass, TLC

CONSTANTS w1, w2, tick, operator

TwoWorkers == {w1, w2}

TwoCallers == {tick, operator}

OneCaller == {tick}

Operators == {operator}

Stalls == {w1}

Nobody == {}

\* The processes are interchangeable while none is singled out.
SymmetricWorkers == Permutations({w1, w2})

=============================================================================
