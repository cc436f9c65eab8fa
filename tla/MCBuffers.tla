------------------------------ MODULE MCBuffers ------------------------------
(* All programs of up to MaxLength actions over a dense argument, a temporary *)
(* tensor and three temporaries, one of which is small, that initialise their *)
(* temporaries.  LivenessAnalysis walks the program, and then the buffers are *)
(* assigned.  LiveExact says that walked ends as the live sets that the       *)
(* assignment starts from.                                                    *)
EXTENDS LivenessAnalysis, DetermineLocalInitialization

CONSTANTS A, T, MaxLength

MCTensorCells == [n \in Tensor |-> Cells]

Var(n) ==
  LET cells == IF n = 1 THEN {1} ELSE Cells
  IN  [name |-> n, lay |-> [cells |-> cells, fuse |-> TRUE], spp |-> cells]
Op(m, n) == [op |-> "Op", args |-> <<Var(m), Var(n)>>, spp |-> {1}, fuse |-> FALSE]

MCTerms   == {VariableTerm(Var(n)) : n \in {A, 0, 1}} \cup {Op(0, 1), Op(1, 2)}
MCActions ==
  {ProgramAction(Var(n), t, FALSE, NoScalar) : n \in {A, T, 0, 1, 2}, t \in MCTerms}
    \cup {ProgramAction(Var(0), t, TRUE, NoScalar) : t \in MCTerms}

MCInit ==
  /\ cfg \in UNION {[1 .. m -> MCActions] : m \in 0 .. MaxLength}
  /\ live = Liveness(cfg)
  /\ live[1] \subseteq Tensor
  /\ walked = [k \in {Len(cfg) + 1} |-> {}]
  /\ todo = Len(cfg)
  /\ DStart

MCNext ==
  \/ ANext /\ UNCHANGED dvars
  \/ todo = 0 /\ DNext /\ UNCHANGED <<walked, todo>>

MCSpec == MCInit /\ [][MCNext]_<<dvars, walked, todo>>
=============================================================================
