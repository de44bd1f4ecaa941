------------------------------ MODULE MCPacing ------------------------------
(* The instance of Pacing that TLC checks.                                 *)
EXTENDS Pacing, TLC

Symmetry == Permutations(Sessions)

(* Nothing reads the fields of a closed session any more, nor its place    *)
(* in the list once it has left it.                                        *)
Blank(f) == [s \in Sessions |-> IF state[s] = "closed" THEN 0 ELSE f[s]]

View == <<t, state, Blank(heard), {s \in silent : state[s] # "closed"}, Blank(due),
          Blank(lastUpdate), Blank(slowed), SelectSeq(made, LAMBDA s : s \in held), wake,
          slept, fresh \cap Polled, skipped \cap Polled, masked \cap Polled, panicked>>
=============================================================================
