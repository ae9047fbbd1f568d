----------------------------- MODULE MCMatricula -----------------------------
(* Small instances of Matricula for TLC. *)
EXTENDS Matricula, TLC

CONSTANTS a1, a2, b1

\* Two classes of year 1, one of year 2.
MCYearOf == [c \in Classes |-> IF c = b1 THEN 2 ELSE 1]
MCCapacity == [c \in Classes |-> 1]

Symmetry == Permutations(Students) \cup Permutations(Enrollments)
              \cup Permutations({a1, a2})
=============================================================================
