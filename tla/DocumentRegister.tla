-------------------------- MODULE DocumentRegister --------------------------
(***************************************************************************)
(* What apps/reports promises about official documents (RF-REL-06): each   *)
(* type is numbered 1, 2, 3, ..., a number is given to one request only,   *)
(* that request issues it or loses it, and an issued document stays.       *)
(***************************************************************************)
EXTENDS Naturals

CONSTANTS Types

VARIABLES
  last,      \* the last number of each type that was given out
  reserved,  \* <<type, number>> given out, document not yet recorded
  issued     \* <<type, number>> of the recorded documents

vars == <<last, reserved, issued>>

Init == last = [t \in Types |-> 0] /\ reserved = {} /\ issued = {}

Reserve(t) ==
  /\ last' = [last EXCEPT ![t] = @ + 1]
  /\ reserved' = reserved \cup {<<t, last[t] + 1>>}
  /\ UNCHANGED issued

Issue(d) ==
  /\ d \in reserved
  /\ reserved' = reserved \ {d}
  /\ issued' = issued \cup {d}
  /\ UNCHANGED last

Lose(d) ==
  /\ d \in reserved
  /\ reserved' = reserved \ {d}
  /\ UNCHANGED <<last, issued>>

Next == \/ \E t \in Types : Reserve(t)
        \/ \E d \in reserved : Issue(d) \/ Lose(d)

Spec == Init /\ [][Next]_vars

=============================================================================
