-------------------------- MODULE DocumentNumbering --------------------------
(***************************************************************************)
(* Official documents: the number of a document is reserved in a           *)
(* transaction of its own (apps/reports/services.py), then the document is *)
(* recorded and rendered; the receipt of a candidature also remembers its  *)
(* document (apps/enrollment/services.py), so as to be printed again.      *)
(*                                                                         *)
(* Workers share one PostgreSQL database.  SELECT ... FOR UPDATE holds the *)
(* counter row to the end of the transaction, and an INSERT meets an       *)
(* uncommitted row of the same key by waiting for its transaction.  One    *)
(* institution is modelled; formatted_number is its type and number.       *)
(***************************************************************************)
EXTENDS Naturals, FiniteSets

CONSTANTS
  Types,        \* document types
  ReceiptType,  \* COMPROVATIVO_CANDIDATURA_DOCUMENT_TYPE
  Candidates,   \* identifiers candidate rows may get
  Workers,
  MaxNumber,    \* bound: documents of one type
  MaxFailures,  \* bound: crashes and PDF renderings that fail
  None

ASSUME TypesAssumption == ReceiptType \in Types
ASSUME NoneAssumption == None \notin Candidates \cup (Types \X Nat)
ASSUME BoundsAssumption == MaxNumber \in Nat /\ MaxFailures \in Nat
ASSUME WorkersAssumption == IsFiniteSet(Workers)

VARIABLES
  sequences,  \* committed DocumentSequence rows: type -> last_number
  issued,     \* the IssuedDocument table: <<type, number>>
  receipts,   \* Candidate table: identifier -> application_receipt
  printed,    \* <<candidate, document>> handed out by application_receipt_view
  pc,         \* per worker: the statement it runs next
  req,        \* per worker: type, candidate of a receipt, whether it is printed
  value,      \* per worker: last_number in memory, then the reserved number
  failures

db == <<sequences, issued, receipts, printed>>
vars == <<db, pc, req, value, failures>>

Document == Types \X Nat
Request == [type: Types, candidate: Candidates \cup {None}, printing: BOOLEAN]
NoRequest == [type |-> ReceiptType, candidate |-> None, printing |-> FALSE]
Steps == {"idle", "select", "create", "update", "issue", "render", "receipt"}

\* The document a worker has reserved the number of.
Reserved(w) == <<req[w].type, value[w]>>

\* Worker w is in the transaction that holds the counter row of type t, which
\* it has locked or inserted.
Holds(w, t) == pc[w] = "update" /\ req[w].type = t

Release(w) ==
  /\ pc' = [pc EXCEPT ![w] = "idle"]
  /\ req' = [req EXCEPT ![w] = NoRequest]
  /\ value' = [value EXCEPT ![w] = 0]

Goto(w, step) == pc' = [pc EXCEPT ![w] = step]

\* Bound: the requests under way reach MaxNumber at most.
MayNumber(t) ==
  LET last == IF t \in DOMAIN sequences THEN sequences[t] ELSE 0
  IN  last + Cardinality({w \in Workers : /\ pc[w] \in {"select", "create", "update"}
                                          /\ req[w].type = t}) < MaxNumber

Begin(w, t, c, printing) ==
  /\ MayNumber(t)
  /\ req' = [req EXCEPT ![w] = [type |-> t, candidate |-> c, printing |-> printing]]
  /\ Goto(w, "select")

-----------------------------------------------------------------------------
(* What calls emitir_documento *)

\* A declaration, a proof of enrolment, an official pauta, a report card.
EmitRequest(w, t) ==
  /\ pc[w] = "idle"
  /\ Begin(w, t, None, FALSE)
  /\ UNCHANGED <<db, value, failures>>

\* pre_application_view: the candidate is created, its receipt is issued but
\* not handed out.
ApplyRequest(w, c) ==
  /\ pc[w] = "idle"
  /\ c \notin DOMAIN receipts
  /\ receipts' = [x \in DOMAIN receipts \cup {c} |-> IF x = c THEN None ELSE receipts[x]]
  /\ Begin(w, ReceiptType, c, FALSE)
  /\ UNCHANGED <<sequences, issued, printed, value, failures>>

\* application_receipt_view: a receipt the candidate row remembers is printed,
\* otherwise one is issued.
PrintRequest(w, c) ==
  /\ pc[w] = "idle"
  /\ c \in DOMAIN receipts
  /\ IF receipts[c] # None
     THEN printed' = printed \cup {<<c, receipts[c]>>} /\ UNCHANGED <<pc, req>>
     ELSE Begin(w, ReceiptType, c, TRUE) /\ UNCHANGED printed
  /\ UNCHANGED <<sequences, issued, receipts, value, failures>>

-----------------------------------------------------------------------------
(* _reserve_document_number: SELECT ... FOR UPDATE, INSERT if there is no  *)
(* row, UPDATE and COMMIT.                                                 *)

\* Fault: no FOR UPDATE.
SelectWithoutLock(w) ==
  /\ pc[w] = "select"
  /\ LET t == req[w].type
     IN  IF t \in DOMAIN sequences
         THEN /\ value' = [value EXCEPT ![w] = sequences[t]]
              /\ Goto(w, "update")
         ELSE Goto(w, "create") /\ UNCHANGED value
  /\ UNCHANGED <<db, req, failures>>

Select(w) ==
  /\ pc[w] = "select"
  /\ LET t == req[w].type
     IN  IF t \in DOMAIN sequences
         THEN /\ \A v \in Workers \ {w} : ~Holds(v, t)
              /\ value' = [value EXCEPT ![w] = sequences[t]]
              /\ Goto(w, "update")
         ELSE Goto(w, "create") /\ UNCHANGED value
  /\ UNCHANGED <<db, req, failures>>

\* Faults: a new row starts at 1; a request waits for ever when another one has
\* created the row.
CreateAtOne(w) ==
  /\ pc[w] = "create"
  /\ \A v \in Workers \ {w} : ~Holds(v, req[w].type)
  /\ IF req[w].type \in DOMAIN sequences
     THEN Release(w)
     ELSE Goto(w, "update") /\ value' = [value EXCEPT ![w] = 1] /\ UNCHANGED req
  /\ UNCHANGED <<db, failures>>
CreateRetried(w) ==
  /\ pc[w] = "create"
  /\ \A v \in Workers \ {w} : ~Holds(v, req[w].type)
  /\ IF req[w].type \in DOMAIN sequences THEN UNCHANGED pc ELSE Goto(w, "update")
  /\ UNCHANGED <<db, req, value, failures>>

\* Fault: no unique constraint on (institution, document_type).
CreateUnchecked(w) ==
  /\ pc[w] = "create"
  /\ Goto(w, "update")
  /\ UNCHANGED <<db, req, value, failures>>

Create(w) ==
  /\ pc[w] = "create"
  /\ \A v \in Workers \ {w} : ~Holds(v, req[w].type)
  /\ IF req[w].type \in DOMAIN sequences
     THEN Release(w)                          \* IntegrityError
     ELSE Goto(w, "update") /\ UNCHANGED <<req, value>>
  /\ UNCHANGED <<db, failures>>

Commit(w) ==
  /\ pc[w] = "update"
  /\ sequences' = [t \in DOMAIN sequences \cup {req[w].type} |->
                     IF t = req[w].type THEN value[w] + 1 ELSE sequences[t]]
  /\ value' = [value EXCEPT ![w] = @ + 1]
  /\ Goto(w, "issue")
  /\ UNCHANGED <<issued, receipts, printed, req, failures>>

-----------------------------------------------------------------------------
(* emitir_documento, the rendering, emitir_comprovativo_candidatura *)

Issue(w) ==
  /\ pc[w] = "issue"
  /\ IF Reserved(w) \in issued
     THEN UNCHANGED issued /\ Release(w)      \* IntegrityError
     ELSE /\ issued' = issued \cup {Reserved(w)}
          /\ Goto(w, "render")
          /\ UNCHANGED <<req, value>>
  /\ UNCHANGED <<sequences, receipts, printed, failures>>

Render(w) ==
  /\ pc[w] = "render"
  /\ IF req[w].candidate = None
     THEN Release(w)
     ELSE Goto(w, "receipt") /\ UNCHANGED <<req, value>>
  /\ UNCHANGED <<db, failures>>

SaveReceipt(w) ==
  /\ pc[w] = "receipt"
  /\ receipts' = [receipts EXCEPT ![req[w].candidate] = Reserved(w)]
  /\ printed' = IF req[w].printing
                THEN printed \cup {<<req[w].candidate, Reserved(w)>>}
                ELSE printed
  /\ Release(w)
  /\ UNCHANGED <<sequences, issued, failures>>

\* The worker dies, or the rendering raises: what is committed stays.
Fail(w) ==
  /\ pc[w] # "idle"
  /\ failures < MaxFailures
  /\ failures' = failures + 1
  /\ Release(w)
  /\ UNCHANGED db

-----------------------------------------------------------------------------
Init ==
  /\ sequences = [t \in {} |-> 0]
  /\ issued = {}
  /\ receipts = [c \in {} |-> None]
  /\ printed = {}
  /\ pc = [w \in Workers |-> "idle"]
  /\ req = [w \in Workers |-> NoRequest]
  /\ value = [w \in Workers |-> 0]
  /\ failures = 0

Step(w) == Select(w) \/ Create(w) \/ Commit(w) \/ Issue(w) \/ Render(w) \/ SaveReceipt(w)

\* No request arrives.
Quiet == (\A w \in Workers : pc[w] = "idle") /\ UNCHANGED vars

Next ==
  \/ Quiet
  \/ \E w \in Workers :
       \/ \E t \in Types \ {ReceiptType} : EmitRequest(w, t)
       \/ \E c \in Candidates : ApplyRequest(w, c) \/ PrintRequest(w, c)
       \/ Step(w)
       \/ Fail(w)

\* Requests under way run on.
Fairness == \A w \in Workers : WF_vars(Step(w))

Spec == Init /\ [][Next]_vars /\ Fairness

-----------------------------------------------------------------------------
(* Properties *)

TypeOK ==
  /\ DOMAIN sequences \subseteq Types
  /\ \A t \in DOMAIN sequences : sequences[t] \in Nat
  /\ issued \subseteq Document
  /\ DOMAIN receipts \subseteq Candidates
  /\ \A c \in DOMAIN receipts : receipts[c] \in Document \cup {None}
  /\ printed \subseteq Candidates \X Document
  /\ pc \in [Workers -> Steps]
  /\ req \in [Workers -> Request]
  /\ value \in [Workers -> Nat]
  /\ failures \in 0 .. MaxFailures

\* RF-REL-06, "numeração/série nunca reutilizada": a number that was reserved and
\* is not recorded yet belongs to one request, and no document has it, although
\* requests race for a counter that may not exist yet and die after the commit.
NumberNeverReused ==
  \A w \in Workers :
    pc[w] = "issue" =>
      /\ Reserved(w) \notin issued
      /\ \A v \in Workers \ {w} : pc[v] = "issue" => Reserved(v) # Reserved(w)

\* No document is numbered beyond the counter of its type: the next reservation
\* cannot meet it.
CounterCoversIssued ==
  \A d \in issued : d[1] \in DOMAIN sequences /\ d[2] <= sequences[d[1]]

\* A number is missing from the documents only because a request failed after
\* the reservation: the race for a new counter rolls back and loses none.
LostOnlyByFailure ==
  Cardinality({d \in Types \X (1 .. MaxNumber) :
                 /\ d[1] \in DOMAIN sequences /\ d[2] <= sequences[d[1]]
                 /\ d \notin issued
                 /\ \A w \in Workers : pc[w] = "issue" => Reserved(w) # d}) <= failures

\* "reimprima sempre o mesmo número": the receipts of one candidature that are
\* handed out carry no more numbers than there are workers to race for the
\* first; one worker always prints the same number.
ReceiptsBounded ==
  \A c \in Candidates :
    Cardinality({d \in issued : <<c, d>> \in printed}) <= Cardinality(Workers)

\* RF-REL-06: every number is accounted for. The missing ones fell to failures, and
\* the spare ones of a candidature to requests that raced to print it first.
NumbersAccounted == LostOnlyByFailure /\ ReceiptsBounded

\* Whatever requests hold or wait for a counter, each one comes to its end.
EmissionEnds == \A w \in Workers : pc[w] # "idle" ~> pc[w] = "idle"

LastNumbers == [t \in Types |-> IF t \in DOMAIN sequences THEN sequences[t] ELSE 0]
Outstanding == {Reserved(w) : w \in {v \in Workers : pc[v] = "issue"}}

\* The register of RF-REL-06 is what the requests, with their locks, their
\* races and their crashes, implement.
Register == INSTANCE DocumentRegister WITH last <- LastNumbers, reserved <- Outstanding
ImplementsRegister == Register!Spec

=============================================================================
