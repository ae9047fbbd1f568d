----------------------- MODULE DocumentNumberingProofs -----------------------
(***************************************************************************)
(* Theorems about DocumentNumbering, for any numbers of types, candidates, *)
(* workers and documents: no document number is used twice, each one that  *)
(* is missing or spare is accounted for, and the requests implement        *)
(* DocumentRegister.                                                       *)
(***************************************************************************)
EXTENDS DocumentNumbering, FiniteSetTheorems, TLAPS

\* What a worker in the middle of a reservation knows: outside it the number is
\* 0; in the transaction it is the counter, 0 while the row is being created; a
\* reserved number is within the counter and no document has it; only a receipt
\* is saved in a candidate.
WorkerOK(w) ==
  /\ pc[w] \in {"idle", "select", "create"} => value[w] = 0
  /\ pc[w] = "update" =>
       value[w] = IF req[w].type \in DOMAIN sequences THEN sequences[req[w].type] ELSE 0
  /\ pc[w] = "issue" =>
       /\ req[w].type \in DOMAIN sequences
       /\ value[w] \in 1 .. sequences[req[w].type]
       /\ Reserved(w) \notin issued
  /\ pc[w] = "receipt" => req[w].candidate # None

\* Two workers are never in the transaction of one counter, nor hold one number.
PairOK(v, w) ==
  /\ pc[v] = "update" /\ pc[w] = "update" => req[v].type # req[w].type
  /\ pc[v] = "issue" /\ pc[w] = "issue" => Reserved(v) # Reserved(w)

\* The inductive invariant.
IInv ==
  /\ TypeOK
  /\ CounterCoversIssued
  /\ \A w \in Workers : WorkerOK(w)
  /\ \A v, w \in Workers : v # w => PairOK(v, w)

-----------------------------------------------------------------------------
LEMMA InitIInv == Init => IInv
BY TypesAssumption, BoundsAssumption DEF Init, IInv, TypeOK, Steps, Request, NoRequest, CounterCoversIssued, WorkerOK, PairOK,
       Reserved, Document

\* A worker that starts a request, or ends one, disturbs no other.
LEMMA QuietStep ==
  ASSUME IInv, NEW w \in Workers,
         UNCHANGED <<sequences, issued>>,
         pc' = [pc EXCEPT ![w] = pc'[w]], req' = [req EXCEPT ![w] = req'[w]],
         value' = [value EXCEPT ![w] = value'[w]],
         pc'[w] \in Steps \ {"update", "issue"}, req'[w] \in Request, value'[w] \in Nat,
         pc'[w] \in {"idle", "select", "create"} => value'[w] = 0,
         pc'[w] = "receipt" => req'[w].candidate # None,
         DOMAIN receipts' \subseteq Candidates,
         \A c \in DOMAIN receipts' : receipts'[c] \in Document \cup {None},
         printed' \subseteq Candidates \X Document,
         failures' \in 0 .. MaxFailures
  PROVE  IInv'
<1>1. TypeOK'
  BY DEF IInv, TypeOK
<1>2. CounterCoversIssued'
  BY DEF IInv, CounterCoversIssued
<1>3. \A v \in Workers : WorkerOK(v)'
  BY DEF IInv, TypeOK, WorkerOK, Reserved
<1>4. \A u, v \in Workers : u # v => PairOK(u, v)'
  BY DEF IInv, TypeOK, PairOK, Reserved
<1> QED
  BY <1>1, <1>2, <1>3, <1>4 DEF IInv

\* The tables that a step may change without touching counters and documents.
OtherTablesOK ==
  /\ DOMAIN receipts \subseteq Candidates
  /\ \A c \in DOMAIN receipts : receipts[c] \in Document \cup {None}
  /\ printed \subseteq Candidates \X Document

LEMMA ReleaseQuiet ==
  ASSUME IInv, NEW w \in Workers, Release(w), UNCHANGED <<sequences, issued>>,
         OtherTablesOK', failures' \in 0 .. MaxFailures
  PROVE  IInv'
<1>1. NoRequest \in Request
  BY TypesAssumption DEF NoRequest, Request
<1>2. /\ pc' = [pc EXCEPT ![w] = pc'[w]] /\ req' = [req EXCEPT ![w] = req'[w]]
      /\ value' = [value EXCEPT ![w] = value'[w]]
      /\ pc'[w] = "idle" /\ req'[w] = NoRequest /\ value'[w] = 0
  BY DEF Release, IInv, TypeOK
<1> QED
  BY <1>1, <1>2, QuietStep DEF Steps, OtherTablesOK

LEMMA BeginQuiet ==
  ASSUME IInv, NEW w \in Workers, NEW t \in Types, NEW c \in Candidates \cup {None},
         NEW p \in BOOLEAN, pc[w] = "idle", Begin(w, t, c, p),
         UNCHANGED <<sequences, issued, value, failures>>, OtherTablesOK'
  PROVE  IInv'
<1>1. /\ pc' = [pc EXCEPT ![w] = pc'[w]] /\ req' = [req EXCEPT ![w] = req'[w]]
      /\ value' = [value EXCEPT ![w] = value'[w]]
      /\ pc'[w] = "select" /\ req'[w] \in Request /\ value'[w] = 0
  BY DEF Begin, Goto, IInv, TypeOK, WorkerOK, Request
<1>2. failures' \in 0 .. MaxFailures
  BY DEF IInv, TypeOK
<1> QED
  BY <1>1, <1>2, QuietStep DEF Steps, OtherTablesOK

-----------------------------------------------------------------------------
(* The requests *)

LEMMA RequestStep ==
  ASSUME IInv, NEW w \in Workers, NEW c \in Candidates,
         ApplyRequest(w, c) \/ PrintRequest(w, c)
  PROVE  IInv'
<1>1. CASE ApplyRequest(w, c)
  BY <1>1, BeginQuiet, TypesAssumption DEF ApplyRequest, OtherTablesOK, IInv, TypeOK
<1>2. CASE PrintRequest(w, c)
  <2>1. CASE receipts[c] = None
    BY <1>2, <2>1, BeginQuiet, TypesAssumption
    DEF PrintRequest, OtherTablesOK, IInv, TypeOK
  <2>2. CASE receipts[c] # None
    <3>1. printed' \subseteq Candidates \X Document
      BY <1>2, <2>2 DEF PrintRequest, IInv, TypeOK
    <3>2. UNCHANGED <<sequences, issued, receipts, pc, req, value, failures>>
      BY <1>2, <2>2 DEF PrintRequest
    <3> QED
      BY <3>1, <3>2 DEF IInv, TypeOK, CounterCoversIssued, WorkerOK, PairOK, Reserved
  <2> QED
    BY <2>1, <2>2
<1> QED
  BY <1>1, <1>2

-----------------------------------------------------------------------------
(* The reservation *)

\* Worker w enters the transaction of a counter no other one holds.
LEMMA EnterStep ==
  ASSUME IInv, NEW w \in Workers,
         \A v \in Workers \ {w} : ~Holds(v, req[w].type),
         pc' = [pc EXCEPT ![w] = "update"], value' = [value EXCEPT ![w] = value'[w]],
         value'[w] = IF req[w].type \in DOMAIN sequences THEN sequences[req[w].type] ELSE 0,
         UNCHANGED <<db, req, failures>>
  PROVE  IInv'
<1>1. TypeOK'
  BY DEF IInv, TypeOK, Steps, db
<1>2. CounterCoversIssued'
  BY DEF IInv, CounterCoversIssued, db
<1>3. \A v \in Workers : WorkerOK(v)'
  BY DEF IInv, TypeOK, WorkerOK, Reserved, db
<1>4. \A u, v \in Workers : u # v => PairOK(u, v)'
  BY DEF IInv, TypeOK, PairOK, Reserved, Holds
<1> QED
  BY <1>1, <1>2, <1>3, <1>4 DEF IInv

LEMMA SelectStep ==
  ASSUME IInv, NEW w \in Workers, Select(w)
  PROVE  IInv'
<1>1. CASE req[w].type \in DOMAIN sequences
  BY <1>1, EnterStep DEF Select, Goto, IInv, TypeOK
<1>2. CASE req[w].type \notin DOMAIN sequences
  <2>1. /\ pc' = [pc EXCEPT ![w] = "create"] /\ pc'[w] = "create"
        /\ req' = [req EXCEPT ![w] = req'[w]] /\ value' = [value EXCEPT ![w] = value'[w]]
        /\ req'[w] \in Request /\ value'[w] = 0
        /\ UNCHANGED <<sequences, issued>> /\ failures' \in 0 .. MaxFailures
    BY <1>2 DEF Select, Goto, db, IInv, TypeOK, WorkerOK
  <2>2. OtherTablesOK'
    BY <1>2 DEF Select, db, IInv, TypeOK, OtherTablesOK
  <2> QED
    BY <2>1, <2>2, QuietStep, 0 \in Nat DEF Steps, OtherTablesOK
<1> QED
  BY <1>1, <1>2

LEMMA CreateStep ==
  ASSUME IInv, NEW w \in Workers, Create(w)
  PROVE  IInv'
<1>1. CASE req[w].type \in DOMAIN sequences
  <2>1. OtherTablesOK' /\ UNCHANGED <<sequences, issued>> /\ failures' \in 0 .. MaxFailures
    BY DEF Create, db, IInv, TypeOK, OtherTablesOK
  <2> QED
    BY <1>1, <2>1, ReleaseQuiet DEF Create
<1>2. CASE req[w].type \notin DOMAIN sequences
  <2>1. value' = [value EXCEPT ![w] = value'[w]] /\ value'[w] = 0
    BY <1>2 DEF Create, IInv, TypeOK, WorkerOK
  <2> QED
    BY <1>2, <2>1, EnterStep DEF Create, Goto
<1> QED
  BY <1>1, <1>2

LEMMA CommitStep ==
  ASSUME IInv, NEW w \in Workers, Commit(w)
  PROVE  IInv'
<1> DEFINE t == req[w].type
<1>1. /\ t \in Types /\ value[w] \in Nat
      /\ value[w] = IF t \in DOMAIN sequences THEN sequences[t] ELSE 0
  BY DEF Commit, IInv, TypeOK, WorkerOK, Request
<1>2. /\ DOMAIN sequences' = DOMAIN sequences \cup {t}
      /\ sequences'[t] = value[w] + 1
      /\ \A x \in DOMAIN sequences \ {t} : sequences'[x] = sequences[x]
  BY DEF Commit
<1>3. /\ value' = [value EXCEPT ![w] = value[w] + 1] /\ pc' = [pc EXCEPT ![w] = "issue"]
      /\ UNCHANGED <<req, issued, receipts, printed, failures>>
  BY DEF Commit, Goto
<1> HIDE DEF t
<1>4. \A x \in DOMAIN sequences : sequences'[x] \in Nat /\ sequences[x] <= sequences'[x]
  BY <1>1, <1>2 DEF IInv, TypeOK
<1>5. TypeOK'
  BY <1>1, <1>2, <1>3, <1>4 DEF IInv, TypeOK, Steps
<1>6. CounterCoversIssued'
  <2> SUFFICES ASSUME NEW d \in issued
               PROVE  d[1] \in DOMAIN sequences' /\ d[2] <= sequences'[d[1]]
    BY <1>3 DEF CounterCoversIssued
  <2>1. d[1] \in DOMAIN sequences /\ d[2] <= sequences[d[1]] /\ d[2] \in Nat
    BY DEF IInv, TypeOK, CounterCoversIssued, Document
  <2> QED
    BY <2>1, <1>2, <1>4 DEF IInv, TypeOK
\* The new number is beyond every recorded one and every reserved one.
<1>7. <<t, value[w] + 1>> \notin issued
  BY <1>1 DEF IInv, TypeOK, CounterCoversIssued
<1>8. ASSUME NEW v \in Workers \ {w}, pc[v] = "issue"
      PROVE  Reserved(v) # <<t, value[w] + 1>>
  <2>1. /\ value[v] \in Nat /\ req[v].type \in DOMAIN sequences
        /\ value[v] <= sequences[req[v].type]
    BY <1>8 DEF IInv, TypeOK, WorkerOK
  <2>2. req[v].type = t => value[v] <= value[w]
    BY <2>1, <1>1
  <2> QED
    BY <2>1, <2>2, <1>1 DEF Reserved
<1>9. ASSUME NEW v \in Workers PROVE WorkerOK(v)'
  <2>1. CASE v = w
    BY <2>1, <1>1, <1>2, <1>3, <1>7 DEF t, IInv, TypeOK, WorkerOK, Reserved
  <2>2. CASE v # w
    <3>1. pc'[v] = pc[v] /\ value'[v] = value[v] /\ req'[v] = req[v] /\ WorkerOK(v)
      BY <2>2, <1>3 DEF IInv, TypeOK
    <3>2. pc[v] = "update" => req[v].type # t
      BY <2>2 DEF Commit, t, IInv, PairOK
    <3> QED
      BY <3>1, <3>2, <1>2, <1>3, <1>4 DEF IInv, TypeOK, WorkerOK, Reserved
  <2> QED
    BY <2>1, <2>2
<1>10. ASSUME NEW u \in Workers, NEW v \in Workers, u # v PROVE PairOK(u, v)'
  <2>1. PairOK(u, v)
    BY <1>10 DEF IInv
  <2> QED
    BY <2>1, <1>3, <1>8, <1>10 DEF t, IInv, TypeOK, PairOK, Reserved
<1> QED
  BY <1>5, <1>6, <1>9, <1>10 DEF IInv

-----------------------------------------------------------------------------
(* The document *)

LEMMA IssueStep ==
  ASSUME IInv, NEW w \in Workers, Issue(w)
  PROVE  IInv'
<1>1. /\ Reserved(w) \notin issued /\ Reserved(w) \in Document
      /\ req[w].type \in DOMAIN sequences /\ value[w] <= sequences[req[w].type]
  BY DEF Issue, IInv, TypeOK, WorkerOK, Reserved, Document, Request
<1>2. /\ issued' = issued \cup {Reserved(w)} /\ pc' = [pc EXCEPT ![w] = "render"]
      /\ UNCHANGED <<sequences, receipts, printed, req, value, failures>>
  BY <1>1 DEF Issue, Goto
<1>3. TypeOK'
  BY <1>1, <1>2 DEF IInv, TypeOK, Steps
<1>4. CounterCoversIssued'
  BY <1>1, <1>2 DEF IInv, CounterCoversIssued, Reserved
<1>5. \A v \in Workers : WorkerOK(v)'
  BY <1>2 DEF Issue, IInv, TypeOK, WorkerOK, PairOK, Reserved
<1>6. \A u, v \in Workers : u # v => PairOK(u, v)'
  BY <1>2 DEF IInv, TypeOK, PairOK, Reserved
<1> QED
  BY <1>3, <1>4, <1>5, <1>6 DEF IInv

LEMMA RenderStep ==
  ASSUME IInv, NEW w \in Workers, Render(w)
  PROVE  IInv'
<1>1. OtherTablesOK' /\ UNCHANGED <<sequences, issued>> /\ failures' \in 0 .. MaxFailures
  BY DEF Render, db, IInv, TypeOK, OtherTablesOK
<1>2. CASE req[w].candidate = None
  BY <1>1, <1>2, ReleaseQuiet DEF Render
<1>3. CASE req[w].candidate # None
  <2>1. /\ pc' = [pc EXCEPT ![w] = "receipt"] /\ pc'[w] = "receipt"
        /\ req' = [req EXCEPT ![w] = req'[w]] /\ value' = [value EXCEPT ![w] = value'[w]]
        /\ req'[w] \in Request /\ value'[w] \in Nat /\ req'[w].candidate # None
    BY <1>3 DEF Render, Goto, IInv, TypeOK
  <2> QED
    BY <1>1, <2>1, QuietStep DEF Steps, OtherTablesOK
<1> QED
  BY <1>2, <1>3

LEMMA SaveReceiptStep ==
  ASSUME IInv, NEW w \in Workers, SaveReceipt(w)
  PROVE  IInv'
<1>. req[w].candidate \in Candidates
  BY DEF SaveReceipt, IInv, TypeOK, WorkerOK, Request
<1>1. Reserved(w) \in Document
  BY DEF IInv, TypeOK, Reserved, Document, Request
<1>2. OtherTablesOK'
  BY <1>1 DEF SaveReceipt, IInv, TypeOK, OtherTablesOK
<1>3. UNCHANGED <<sequences, issued>> /\ failures' \in 0 .. MaxFailures
  BY DEF SaveReceipt, IInv, TypeOK
<1> QED
  BY <1>2, <1>3, ReleaseQuiet DEF SaveReceipt

LEMMA FailStep ==
  ASSUME IInv, NEW w \in Workers, Fail(w)
  PROVE  IInv'
<1>1. OtherTablesOK' /\ UNCHANGED <<sequences, issued>>
  BY DEF Fail, db, IInv, TypeOK, OtherTablesOK
<1>2. failures' \in 0 .. MaxFailures
  BY BoundsAssumption DEF Fail, IInv, TypeOK
<1> QED
  BY <1>1, <1>2, ReleaseQuiet DEF Fail

-----------------------------------------------------------------------------
(* The invariant of the specification *)

LEMMA NextIInv == IInv /\ [Next]_vars => IInv'
<1> SUFFICES ASSUME IInv, [Next]_vars PROVE IInv'
  OBVIOUS
<1>1. ASSUME NEW w \in Workers, NEW t \in Types \ {ReceiptType}, EmitRequest(w, t)
      PROVE  IInv'
  BY <1>1, BeginQuiet DEF EmitRequest, db, OtherTablesOK, IInv, TypeOK
<1>2. ASSUME NEW w \in Workers, NEW c \in Candidates,
             ApplyRequest(w, c) \/ PrintRequest(w, c)
      PROVE  IInv'
  BY <1>2, RequestStep
<1>3. ASSUME NEW w \in Workers, Step(w)
      PROVE  IInv'
  BY <1>3, SelectStep, CreateStep, CommitStep, IssueStep, RenderStep, SaveReceiptStep DEF Step
<1>4. ASSUME NEW w \in Workers, Fail(w)
      PROVE  IInv'
  BY <1>4, FailStep
<1>5. CASE UNCHANGED vars
  BY <1>5 DEF vars, db, IInv, TypeOK, CounterCoversIssued, WorkerOK, PairOK, Reserved
<1> QED
  BY <1>1, <1>2, <1>3, <1>4, <1>5 DEF Next, Quiet

\* Every reachable state satisfies the inductive invariant.
THEOREM Invariance == Spec => []IInv
BY InitIInv, NextIInv, PTL DEF Spec

\* The state is well typed, whatever the constants.
THEOREM TypeCorrect == Spec => []TypeOK
<1>1. IInv => TypeOK
  BY DEF IInv
<1> QED
  BY <1>1, Invariance, PTL

\* However many requests race for however many counters, and wherever they die, a
\* reserved number is used by one request and no document has it already.
THEOREM NoNumberReused == Spec => []NumberNeverReused
<1>1. IInv => NumberNeverReused
  BY DEF IInv, WorkerOK, PairOK, NumberNeverReused
<1> QED
  BY <1>1, Invariance, PTL

\* Documents stay within the counter of their type.
THEOREM CounterAhead == Spec => []CounterCoversIssued
<1>1. IInv => CounterCoversIssued
  BY DEF IInv
<1> QED
  BY <1>1, Invariance, PTL

-----------------------------------------------------------------------------
(* Numbers that are missing, and receipts that are printed *)

\* The numbers that were reserved and that no request will issue.
Lost ==
  {d \in Types \X (1 .. MaxNumber) :
     /\ d[1] \in DOMAIN sequences /\ d[2] <= sequences[d[1]]
     /\ d \notin issued
     /\ \A w \in Workers : pc[w] = "issue" => Reserved(w) # d}

LostOK == IsFiniteSet(Lost) /\ Cardinality(Lost) <= failures

\* The documents handed out for a candidature, with the one it remembers, and the
\* workers that may still print another.
Spent(c) == {d \in Document : <<c, d>> \in printed} \cup {receipts[c]}
Serving(c) == {w \in Workers : req[w].candidate = c}
Remembered(c) == c \in DOMAIN receipts /\ receipts[c] # None

RequestOK(w) ==
  /\ pc[w] = "idle" => req[w] = NoRequest
  /\ req[w].candidate \in DOMAIN receipts \cup {None}

\* No worker begins to issue a receipt once one is remembered.
ReceiptOK(c) ==
  IF Remembered(c)
  THEN IsFiniteSet(Spent(c)) /\ Cardinality(Spent(c)) + Cardinality(Serving(c)) <= Cardinality(Workers)
  ELSE \A d \in Document : <<c, d>> \notin printed

NInv ==
  /\ IInv /\ LostOK
  /\ \A w \in Workers : RequestOK(w)
  /\ \A c \in Candidates : ReceiptOK(c)

Act(w) ==
  \/ \E t \in Types \ {ReceiptType} : EmitRequest(w, t)
  \/ \E c \in Candidates : ApplyRequest(w, c) \/ PrintRequest(w, c)
  \/ Step(w)
  \/ Fail(w)

\* A worker changes only its own place, request and number.
LEMMA ActIsOwn ==
  ASSUME IInv, NEW w \in Workers, Act(w)
  PROVE  \A v \in Workers \ {w} : pc'[v] = pc[v] /\ req'[v] = req[v] /\ value'[v] = value[v]
<1>. USE DEF IInv, TypeOK, Begin, Goto, Release
<1>1. CASE \E t \in Types \ {ReceiptType} : EmitRequest(w, t)
  BY <1>1 DEF EmitRequest
<1>2. CASE \E c \in Candidates : ApplyRequest(w, c) \/ PrintRequest(w, c)
  BY <1>2 DEF ApplyRequest, PrintRequest
<1>3. CASE Step(w)
  BY <1>3 DEF Step, Select, Create, Commit, Issue, Render, SaveReceipt
<1>4. CASE Fail(w)
  BY <1>4 DEF Fail
<1>. QED BY <1>1, <1>2, <1>3, <1>4 DEF Act

\* A failed request loses the number it had reserved, and nothing else does.
LEMMA LostGrows ==
  ASSUME IInv, NEW w \in Workers, Act(w)
  PROVE  \/ Lost' \subseteq Lost /\ failures' \in Nat /\ failures' >= failures
         \/ Lost' \subseteq Lost \cup {Reserved(w)} /\ failures' = failures + 1
<1>. failures \in Nat
  BY BoundsAssumption DEF IInv, TypeOK
<1>1. CASE Commit(w)
  <2>. DEFINE t == req[w].type
  <2>1. /\ t \in Types /\ value[w] \in Nat
        /\ value[w] = IF t \in DOMAIN sequences THEN sequences[t] ELSE 0
    BY <1>1 DEF Commit, IInv, TypeOK, WorkerOK, Request
  <2>2. /\ DOMAIN sequences' = DOMAIN sequences \cup {t} /\ sequences'[t] = value[w] + 1
        /\ \A x \in DOMAIN sequences \ {t} : sequences'[x] = sequences[x]
    BY <1>1 DEF Commit
  <2>3. /\ pc'[w] = "issue" /\ Reserved(w)' = <<t, value[w] + 1>> /\ pc[w] # "issue"
        /\ UNCHANGED <<issued, failures>>
    BY <1>1 DEF Commit, Goto, IInv, TypeOK, Reserved
  <2>4. ASSUME NEW d \in Lost' PROVE d \in Lost
    <3>1. /\ d \in Types \X (1 .. MaxNumber) /\ d[1] \in DOMAIN sequences'
          /\ d[2] <= sequences'[d[1]] /\ d \notin issued /\ d # <<t, value[w] + 1>>
      BY <2>3 DEF Lost
    <3>2. d[1] \in DOMAIN sequences /\ d[2] <= sequences[d[1]]
      <4>1. CASE d[1] # t
        BY <2>2, <3>1, <4>1
      <4>2. CASE d[1] = t
        <5>1. d[2] \in Nat /\ d[2] >= 1 /\ d[2] <= value[w] + 1 /\ d[2] # value[w] + 1
          BY <2>2, <3>1, <4>2
        <5>. QED BY <2>1, <4>2, <5>1
      <4>. QED BY <4>1, <4>2
    <3>3. \A v \in Workers : pc[v] = "issue" => Reserved(v) # d
      BY <1>1, <2>3, ActIsOwn DEF Lost, Reserved
    <3>. QED BY <3>1, <3>2, <3>3 DEF Lost
  <2>. QED BY <2>3, <2>4
<1>2. CASE Issue(w)
  <2>1. Reserved(w) \in issued' /\ issued \subseteq issued' /\ UNCHANGED <<sequences, failures>>
    BY <1>2 DEF Issue
  <2>2. \A v \in Workers \ {w} : pc'[v] = pc[v] /\ Reserved(v)' = Reserved(v)
    BY ActIsOwn DEF Reserved
  <2>. QED BY <2>1, <2>2 DEF Lost
<1>3. CASE Fail(w)
  <2>1. failures' = failures + 1 /\ UNCHANGED <<sequences, issued>>
    BY <1>3 DEF Fail, db
  <2>2. \A v \in Workers \ {w} : pc'[v] = pc[v] /\ Reserved(v)' = Reserved(v)
    BY ActIsOwn DEF Reserved
  <2>. QED BY <2>1, <2>2 DEF Lost
<1>4. CASE ~ Commit(w) /\ ~ Issue(w) /\ ~ Fail(w)
  <2>1. UNCHANGED <<sequences, issued, failures>> /\ pc[w] # "issue"
    BY <1>4 DEF Act, Step, EmitRequest, ApplyRequest, PrintRequest, Select, Create, Render,
                SaveReceipt, db
  <2>2. \A v \in Workers \ {w} : pc'[v] = pc[v] /\ Reserved(v)' = Reserved(v)
    BY ActIsOwn DEF Reserved
  <2>. QED BY <2>1, <2>2 DEF Lost
<1>. QED BY <1>1, <1>2, <1>3, <1>4

LEMMA LostKeeps ==
  ASSUME IInv, LostOK, NEW w \in Workers, Act(w) PROVE LostOK'
<1>1. IsFiniteSet(Lost) /\ Cardinality(Lost) \in Nat /\ Cardinality(Lost) <= failures
      /\ failures \in Nat
  BY FS_CardinalityType, BoundsAssumption DEF LostOK, IInv, TypeOK
<1>2. CASE Lost' \subseteq Lost /\ failures' \in Nat /\ failures' >= failures
  <2>1. IsFiniteSet(Lost') /\ Cardinality(Lost') <= Cardinality(Lost) /\ Cardinality(Lost') \in Nat
    BY <1>1, <1>2, FS_Subset, FS_CardinalityType
  <2>. QED BY <1>1, <1>2, <2>1 DEF LostOK
<1>3. CASE Lost' \subseteq Lost \cup {Reserved(w)} /\ failures' = failures + 1
  <2>. DEFINE more == Lost \cup {Reserved(w)}
  <2>1. /\ IsFiniteSet(more)
        /\ Cardinality(more) = IF Reserved(w) \in Lost THEN Cardinality(Lost)
                               ELSE Cardinality(Lost) + 1
    BY <1>1, FS_AddElement
  <2>2. Cardinality(more) \in Nat /\ Cardinality(more) <= failures'
    BY <1>1, <1>3, <2>1
  <2>. HIDE DEF more
  <2>3. IsFiniteSet(Lost') /\ Cardinality(Lost') <= Cardinality(more) /\ Cardinality(Lost') \in Nat
    BY <1>3, <2>1, FS_Subset, FS_CardinalityType DEF more
  <2>. QED BY <1>1, <1>3, <2>2, <2>3 DEF LostOK
<1>. QED BY <1>2, <1>3, LostGrows

LEMMA RequestKeeps ==
  ASSUME IInv, \A v \in Workers : RequestOK(v), NEW w \in Workers, Act(w)
  PROVE  \A v \in Workers : RequestOK(v)'
<1>1. DOMAIN receipts \subseteq DOMAIN receipts'
  BY DEF Act, Step, EmitRequest, ApplyRequest, PrintRequest, Select, Create, Commit, Issue, Render,
         SaveReceipt, Fail, db
<1>2. ASSUME NEW v \in Workers \ {w} PROVE RequestOK(v)'
  BY <1>1, ActIsOwn DEF RequestOK, NoRequest
<1>3. RequestOK(w)'
  <2>. USE DEF IInv, TypeOK, Begin, Goto, Release
  <2>1. CASE Release(w)
    BY <2>1 DEF RequestOK, NoRequest
  <2>2. CASE \E t \in Types \ {ReceiptType} : EmitRequest(w, t)
    BY <2>2 DEF EmitRequest, RequestOK
  <2>3. ASSUME NEW c \in Candidates, ApplyRequest(w, c) \/ PrintRequest(w, c)
        PROVE  RequestOK(w)'
    <3>1. CASE UNCHANGED <<pc, req>>
      BY <1>1, <3>1 DEF RequestOK, NoRequest
    <3>2. CASE pc'[w] = "select" /\ req'[w].candidate = c /\ c \in DOMAIN receipts'
      BY <3>2 DEF RequestOK
    <3>. QED BY <2>3, <3>1, <3>2 DEF ApplyRequest, PrintRequest
  <2>4. CASE Step(w) /\ ~ Release(w)
    BY <1>1, <2>4 DEF Step, Select, Create, Commit, Issue, Render, SaveReceipt, RequestOK
  <2>. QED BY <2>1, <2>2, <2>3, <2>4 DEF Act, Fail
<1>. QED BY <1>2, <1>3

\* A step that hands out nothing for a candidature and starts nothing for it.
LEMMA ReceiptStays ==
  ASSUME IInv, NEW c \in Candidates, ReceiptOK(c), Remembered(c)' = Remembered(c),
         Remembered(c) => Spent(c)' = Spent(c) /\ Serving(c)' \subseteq Serving(c),
         ~ Remembered(c) => \A d \in Document : <<c, d>> \notin printed'
  PROVE  ReceiptOK(c)'
<1>1. CASE Remembered(c)
  <2>1. IsFiniteSet(Serving(c)) /\ Cardinality(Serving(c)') <= Cardinality(Serving(c))
        /\ Cardinality(Serving(c)') \in Nat /\ Cardinality(Serving(c)) \in Nat
        /\ Cardinality(Workers) \in Nat
    <3>1. Serving(c) \in SUBSET Workers
      BY DEF Serving
    <3>2. IsFiniteSet(Serving(c)) /\ IsFiniteSet(Workers)
      BY <3>1, WorkersAssumption, FS_Subset
    <3>3. Serving(c)' \in SUBSET Serving(c)
      BY <1>1
    <3>4. IsFiniteSet(Serving(c)') /\ Cardinality(Serving(c)') <= Cardinality(Serving(c))
      BY <3>2, <3>3, FS_Subset
    <3>. QED BY <3>2, <3>4, FS_CardinalityType
  <2>2. IsFiniteSet(Spent(c)) /\ Cardinality(Spent(c)) \in Nat
        /\ Cardinality(Spent(c)) + Cardinality(Serving(c)) <= Cardinality(Workers)
    BY <1>1, FS_CardinalityType DEF ReceiptOK
  <2>3. IsFiniteSet(Spent(c)') /\ Cardinality(Spent(c)') + Cardinality(Serving(c)') <= Cardinality(Workers)
    BY <1>1, <2>1, <2>2
  <2>. QED BY <1>1, <2>3 DEF ReceiptOK
<1>2. CASE ~ Remembered(c)
  BY <1>2 DEF ReceiptOK, Document
<1>. QED BY <1>1, <1>2

\* A worker that saves a receipt of its own is done with the candidature.
LEMMA ReceiptSaved ==
  ASSUME IInv, NEW w \in Workers, SaveReceipt(w), NEW c \in Candidates, req[w].candidate = c,
         RequestOK(w), ReceiptOK(c)
  PROVE  ReceiptOK(c)'
<1>. DEFINE d == Reserved(w)
<1>1. d \in Document /\ d # None
  BY NoneAssumption DEF IInv, TypeOK, Reserved, Document, Request
<1>2. c \in DOMAIN receipts /\ receipts' = [receipts EXCEPT ![c] = d]
  BY NoneAssumption DEF RequestOK, SaveReceipt
<1>3. /\ printed \subseteq printed' /\ printed' \subseteq printed \cup {<<c, d>>}
      /\ req' = [req EXCEPT ![w] = NoRequest]
  BY DEF SaveReceipt, Release
<1>. HIDE DEF d
<1>4. Remembered(c)' /\ receipts'[c] = d
  BY <1>1, <1>2 DEF Remembered
<1>5. w \in Serving(c) /\ Serving(c)' = Serving(c) \ {w}
  <2>1. NoRequest.candidate # c
    BY NoneAssumption DEF NoRequest
  <2>. QED BY <1>3, <2>1 DEF Serving, IInv, TypeOK
<1>6. IsFiniteSet(Serving(c)) /\ Cardinality(Serving(c)) <= Cardinality(Workers)
      /\ Cardinality(Serving(c)) \in Nat /\ Cardinality(Workers) \in Nat
      /\ Cardinality(Serving(c)') = Cardinality(Serving(c)) - 1
  <2>1. Serving(c) \in SUBSET Workers
    BY DEF Serving
  <2>2. IsFiniteSet(Serving(c)) /\ Cardinality(Serving(c)) <= Cardinality(Workers)
        /\ IsFiniteSet(Workers)
    BY <2>1, WorkersAssumption, FS_Subset
  <2>3. Cardinality(Serving(c) \ {w}) = Cardinality(Serving(c)) - 1
    BY <1>5, <2>2, FS_RemoveElement
  <2>. QED BY <1>5, <2>2, <2>3, FS_CardinalityType
<1>7. CASE Remembered(c)
  <2>1. Spent(c)' \in SUBSET (Spent(c) \cup {d})
    BY <1>3, <1>4 DEF Spent
  <2>2. IsFiniteSet(Spent(c)) /\ Cardinality(Spent(c)) \in Nat
        /\ Cardinality(Spent(c)) + Cardinality(Serving(c)) <= Cardinality(Workers)
    BY <1>7, FS_CardinalityType DEF ReceiptOK
  <2>3. /\ IsFiniteSet(Spent(c) \cup {d})
        /\ Cardinality(Spent(c) \cup {d}) = IF d \in Spent(c) THEN Cardinality(Spent(c))
                                            ELSE Cardinality(Spent(c)) + 1
    BY <2>2, FS_AddElement
  <2>4. IsFiniteSet(Spent(c)') /\ Cardinality(Spent(c)') <= Cardinality(Spent(c) \cup {d})
        /\ Cardinality(Spent(c)') \in Nat
    BY <2>1, <2>3, FS_Subset, FS_CardinalityType
  <2>5. Cardinality(Spent(c)') <= Cardinality(Spent(c)) + 1
    BY <2>2, <2>3, <2>4
  <2>6. Cardinality(Spent(c)') + Cardinality(Serving(c)') <= Cardinality(Workers)
    BY <1>6, <2>2, <2>4, <2>5
  <2>. QED BY <1>4, <2>4, <2>6 DEF ReceiptOK
<1>8. CASE ~ Remembered(c)
  <2>1. Spent(c)' = {d}
    BY <1>1, <1>3, <1>4, <1>8 DEF Spent, ReceiptOK
  <2>2. IsFiniteSet({d}) /\ Cardinality({d}) = 1
    BY FS_Singleton
  <2>3. IsFiniteSet(Spent(c)') /\ Cardinality(Spent(c)') + Cardinality(Serving(c)') <= Cardinality(Workers)
    BY <1>6, <2>1, <2>2
  <2>. QED BY <1>4, <2>3 DEF ReceiptOK
<1>. QED BY <1>7, <1>8

LEMMA ReceiptKeeps ==
  ASSUME NInv, NEW w \in Workers, Act(w), NEW c \in Candidates
  PROVE  ReceiptOK(c)'
<1>1. IInv /\ ReceiptOK(c) /\ RequestOK(w)
  BY DEF NInv
<1>2. \A v \in Workers \ {w} : req'[v] = req[v]
  BY <1>1, ActIsOwn
<1>3. CASE SaveReceipt(w)
  <2>1. CASE req[w].candidate = c
    BY <1>1, <1>3, <2>1, ReceiptSaved
  <2>2. CASE req[w].candidate # c
    <3>1. /\ DOMAIN receipts' = DOMAIN receipts /\ (c \in DOMAIN receipts => receipts'[c] = receipts[c])
          /\ \A d : <<c, d>> \in printed' <=> <<c, d>> \in printed
          /\ req' = [req EXCEPT ![w] = NoRequest]
      BY <1>3, <2>2 DEF SaveReceipt, Release
    <3>2. Serving(c)' \subseteq Serving(c)
      <4>1. NoRequest.candidate # c
        BY NoneAssumption DEF NoRequest
      <4>. QED BY <1>1, <3>1, <4>1 DEF Serving, IInv, TypeOK
    <3>3. Remembered(c)' = Remembered(c)
      BY <3>1 DEF Remembered
    <3>4. Remembered(c) => Spent(c)' = Spent(c)
      BY <3>1 DEF Remembered, Spent, Document
    <3>5. ~ Remembered(c) => \A d \in Document : <<c, d>> \notin printed'
      BY <1>1, <3>1 DEF ReceiptOK
    <3>. QED BY <1>1, <3>2, <3>3, <3>4, <3>5, ReceiptStays
  <2>. QED BY <2>1, <2>2
<1>4. ASSUME NEW e \in Candidates, ApplyRequest(w, e) PROVE ReceiptOK(c)'
  <2>1. /\ DOMAIN receipts' = DOMAIN receipts \cup {e} /\ receipts'[e] = None
        /\ \A x \in DOMAIN receipts : x # e => receipts'[x] = receipts[x]
        /\ printed' = printed /\ e \notin DOMAIN receipts /\ req'[w].candidate = e
    BY <1>1, <1>4 DEF ApplyRequest, Begin, IInv, TypeOK
  <2>2. Remembered(c)' = Remembered(c) /\ (Remembered(c) => c # e)
    BY <2>1 DEF Remembered
  <2>3. Remembered(c) => Spent(c)' = Spent(c)
    BY <2>1, <2>2 DEF Remembered, Spent, Document
  <2>4. Remembered(c) => Serving(c)' \subseteq Serving(c)
    BY <1>2, <2>1, <2>2 DEF Serving
  <2>5. ~ Remembered(c) => \A d \in Document : <<c, d>> \notin printed'
    BY <1>1, <2>1 DEF ReceiptOK
  <2>. QED BY <1>1, <2>2, <2>3, <2>4, <2>5, ReceiptStays
<1>5. ASSUME NEW e \in Candidates, PrintRequest(w, e) PROVE ReceiptOK(c)'
  <2>1. receipts' = receipts /\ Remembered(c)' = Remembered(c) /\ e \in DOMAIN receipts
    BY <1>5 DEF PrintRequest, Remembered
  <2>2. CASE receipts[e] # None
    <3>1. printed' = printed \cup {<<e, receipts[e]>>} /\ req' = req
      BY <1>5, <2>2 DEF PrintRequest
    <3>2. Spent(c)' = Spent(c)
      BY <1>1, <2>1, <3>1 DEF Spent, Document
    <3>3. Serving(c)' \subseteq Serving(c)
      BY <3>1 DEF Serving
    <3>4. ~ Remembered(c) => \A d \in Document : <<c, d>> \notin printed'
      BY <1>1, <2>1, <2>2, <3>1 DEF ReceiptOK, Remembered
    <3>. QED BY <1>1, <2>1, <3>2, <3>3, <3>4, ReceiptStays
  <2>3. CASE receipts[e] = None
    <3>1. printed' = printed /\ req'[w].candidate = e
      BY <1>1, <1>5, <2>3 DEF PrintRequest, Begin, IInv, TypeOK
    <3>2. Remembered(c) => c # e
      BY <2>3 DEF Remembered
    <3>3. Remembered(c) => Serving(c)' \subseteq Serving(c)
      BY <1>2, <3>1, <3>2 DEF Serving
    <3>4. Spent(c)' = Spent(c)
      BY <2>1, <3>1 DEF Spent, Document
    <3>5. ~ Remembered(c) => \A d \in Document : <<c, d>> \notin printed'
      BY <1>1, <3>1 DEF ReceiptOK
    <3>. QED BY <1>1, <2>1, <3>3, <3>4, <3>5, ReceiptStays
  <2>. QED BY <2>2, <2>3
<1>6. CASE ~ SaveReceipt(w) /\ (Step(w) \/ Fail(w) \/ \E t \in Types \ {ReceiptType} : EmitRequest(w, t))
  <2>1. UNCHANGED <<receipts, printed>>
    BY <1>6 DEF Step, Select, Create, Commit, Issue, Render, Fail, EmitRequest, db
  <2>2. req'[w] = req[w] \/ req'[w].candidate = None
    BY <1>1, <1>6 DEF Step, Select, Create, Commit, Issue, Render, Fail, EmitRequest, Begin,
                      Release, NoRequest, IInv, TypeOK
  <2>3. Serving(c)' \subseteq Serving(c)
    BY <1>2, <2>2, NoneAssumption DEF Serving
  <2>4. Remembered(c)' = Remembered(c) /\ Spent(c)' = Spent(c)
    BY <2>1 DEF Remembered, Spent, Document
  <2>5. ~ Remembered(c) => \A d \in Document : <<c, d>> \notin printed'
    BY <1>1, <2>1 DEF ReceiptOK
  <2>. QED BY <1>1, <2>3, <2>4, <2>5, ReceiptStays
<1>. QED BY <1>3, <1>4, <1>5, <1>6 DEF Act

LEMMA NInitial == Init => NInv
<1>. SUFFICES ASSUME Init PROVE NInv
  OBVIOUS
<1>1. Lost = {}
  BY DEF Init, Lost
<1>2. LostOK
  BY <1>1, FS_EmptySet DEF Init, LostOK
<1>. QED BY <1>2, InitIInv DEF Init, NInv, RequestOK, ReceiptOK, Remembered, NoRequest

LEMMA NInductive == NInv /\ [Next]_vars => NInv'
<1>. SUFFICES ASSUME NInv, [Next]_vars PROVE NInv'
  OBVIOUS
<1>1. IInv'
  BY NextIInv DEF NInv
<1>2. CASE UNCHANGED vars
  <2>1. UNCHANGED <<sequences, issued, receipts, printed, pc, req, value, failures>>
    BY <1>2 DEF vars, db
  <2>2. Lost' = Lost /\ \A c : Spent(c)' = Spent(c) /\ Serving(c)' = Serving(c)
    BY <2>1 DEF Lost, Reserved, Spent, Serving, Document
  <2>. QED BY <1>1, <2>1, <2>2 DEF NInv, LostOK, RequestOK, NoRequest, ReceiptOK, Remembered,
                                   Document
<1>3. CASE \E w \in Workers : Act(w)
  BY <1>1, <1>3, LostKeeps, RequestKeeps, ReceiptKeeps DEF NInv
<1>. QED BY <1>2, <1>3 DEF Next, Quiet, Act

\* RF-REL-06: no number is missing but those of requests that failed, and the
\* receipts of a candidature are as many as the workers at most.
THEOREM NumbersAreAccounted == Spec => []NumbersAccounted
<1>1. ASSUME NInv, NEW c \in Candidates
      PROVE  Cardinality({d \in issued : <<c, d>> \in printed}) <= Cardinality(Workers)
  <2>. DEFINE given == {d \in issued : <<c, d>> \in printed}
  <2>1. issued \subseteq Document /\ ReceiptOK(c)
    BY <1>1 DEF NInv, IInv, TypeOK
  <2>2. Cardinality(Workers) \in Nat
    BY WorkersAssumption, FS_CardinalityType
  <2>3. CASE Remembered(c)
    <3>1. given \in SUBSET Spent(c)
      BY <2>1 DEF Spent
    <3>2. IsFiniteSet(Spent(c)) /\ Cardinality(Spent(c)) + Cardinality(Serving(c)) <= Cardinality(Workers)
      BY <2>1, <2>3 DEF ReceiptOK
    <3>3. Serving(c) \in SUBSET Workers
      BY DEF Serving
    <3>4. Cardinality(Serving(c)) \in Nat /\ Cardinality(Spent(c)) \in Nat
      BY <3>2, <3>3, WorkersAssumption, FS_Subset, FS_CardinalityType
    <3>. HIDE DEF given
    <3>5. Cardinality(given) <= Cardinality(Spent(c)) /\ Cardinality(given) \in Nat
      BY <3>1, <3>2, FS_Subset, FS_CardinalityType
    <3>6. Cardinality(given) <= Cardinality(Workers)
      BY <2>2, <3>2, <3>4, <3>5
    <3>. QED BY <3>6 DEF given
  <2>4. CASE ~ Remembered(c)
    <3>1. given = {}
      BY <2>1, <2>4 DEF ReceiptOK
    <3>2. Cardinality({}) = 0
      BY FS_EmptySet
    <3>. HIDE DEF given
    <3>3. Cardinality(given) <= Cardinality(Workers)
      BY <2>2, <3>1, <3>2
    <3>. QED BY <3>3 DEF given
  <2>. QED BY <2>3, <2>4
<1>2. NInv => NumbersAccounted
  BY <1>1 DEF NInv, LostOK, Lost, NumbersAccounted, LostOnlyByFailure, ReceiptsBounded
<1>. QED BY <1>2, NInitial, NInductive, PTL DEF Spec

-----------------------------------------------------------------------------
(* Refinement of DocumentRegister *)

LEMMA InitRefines == Init => Register!Init
BY DEF Init, Register!Init, LastNumbers, Outstanding

\* A step that changes no counter, no document and no reservation is a stutter.
LEMMA Stutter ==
  ASSUME IInv, UNCHANGED <<sequences, issued>>,
         \A v \in Workers : pc[v] = "issue" <=> pc'[v] = "issue",
         \A v \in Workers : pc[v] = "issue" => UNCHANGED <<req[v], value[v]>>
  PROVE  UNCHANGED <<LastNumbers, Outstanding, issued>>
BY DEF LastNumbers, Outstanding, Reserved

\* A worker at "issue" that leaves it takes its own number, only, out of the
\* outstanding ones.
LEMMA Leaves ==
  ASSUME IInv, NEW w \in Workers, pc[w] = "issue", pc'[w] # "issue",
         \A v \in Workers \ {w} : UNCHANGED <<pc[v], req[v], value[v]>>
  PROVE  Reserved(w) \in Outstanding /\ Outstanding' = Outstanding \ {Reserved(w)}
<1>1. \A v \in Workers \ {w} :
        pc[v] = "issue" => Reserved(v) # Reserved(w) /\ Reserved(v)' = Reserved(v)
  BY DEF IInv, PairOK, Reserved
<1> QED
  BY <1>1 DEF Outstanding

LEMMA CommitRefines ==
  ASSUME IInv, NEW w \in Workers, Commit(w)
  PROVE  Register!Reserve(req[w].type)
<1> DEFINE t == req[w].type
<1>1. t \in Types /\ value[w] = LastNumbers[t] /\ value[w] \in Nat
  BY DEF Commit, IInv, TypeOK, WorkerOK, Request, LastNumbers
<1>2. LastNumbers' = [LastNumbers EXCEPT ![t] = @ + 1]
  BY <1>1 DEF Commit, LastNumbers
<1>3. /\ pc'[w] = "issue" /\ Reserved(w)' = <<t, LastNumbers[t] + 1>>
      /\ \A v \in Workers \ {w} : pc'[v] = pc[v] /\ Reserved(v)' = Reserved(v)
      /\ pc[w] # "issue" /\ UNCHANGED issued
  BY <1>1 DEF Commit, Goto, IInv, TypeOK, Reserved
<1>4. Outstanding' = Outstanding \cup {<<t, LastNumbers[t] + 1>>}
  BY <1>3 DEF Outstanding
<1> QED
  BY <1>2, <1>3, <1>4 DEF Register!Reserve

LEMMA IssueRefines ==
  ASSUME IInv, NEW w \in Workers, Issue(w)
  PROVE  Register!Issue(Reserved(w))
<1>1. Reserved(w) \notin issued
  BY DEF Issue, IInv, WorkerOK
<1>2. Reserved(w) \in Outstanding /\ Outstanding' = Outstanding \ {Reserved(w)}
  BY <1>1, Leaves DEF Issue, Goto, IInv, TypeOK
<1>3. issued' = issued \cup {Reserved(w)} /\ UNCHANGED LastNumbers
  BY <1>1 DEF Issue, LastNumbers
<1> QED
  BY <1>2, <1>3 DEF Register!Issue

LEMMA FailRefines ==
  ASSUME IInv, NEW w \in Workers, Fail(w)
  PROVE  Register!Lose(Reserved(w)) \/ UNCHANGED <<LastNumbers, Outstanding, issued>>
<1>1. CASE pc[w] = "issue"
  <2>1. Reserved(w) \in Outstanding /\ Outstanding' = Outstanding \ {Reserved(w)}
    BY <1>1, Leaves DEF Fail, Release, IInv, TypeOK
  <2>2. UNCHANGED <<LastNumbers, issued>>
    BY DEF Fail, db, LastNumbers
  <2> QED
    BY <2>1, <2>2 DEF Register!Lose
<1>2. CASE pc[w] # "issue"
  BY <1>2, Stutter DEF Fail, Release, db, IInv, TypeOK
<1> QED
  BY <1>1, <1>2

LEMMA StepRefines == IInv /\ [Next]_vars => [Register!Next]_(Register!vars)
<1> SUFFICES ASSUME IInv, [Next]_vars PROVE [Register!Next]_(Register!vars)
  OBVIOUS
<1> USE DEF Register!Next, Register!vars
<1>1. ASSUME NEW w \in Workers, Commit(w) PROVE Register!Next
  <2>1. req[w].type \in Types
    BY DEF IInv, TypeOK, Request
  <2> QED
    BY <1>1, <2>1, CommitRefines
<1>2. ASSUME NEW w \in Workers, Issue(w) PROVE Register!Next
  BY <1>2, IssueRefines DEF Register!Issue
<1>3. ASSUME NEW w \in Workers, Fail(w) PROVE [Register!Next]_(Register!vars)
  BY <1>3, FailRefines DEF Register!Lose
<1>4. ASSUME NEW w \in Workers, NEW t \in Types, EmitRequest(w, t)
      PROVE  UNCHANGED <<LastNumbers, Outstanding, issued>>
  BY <1>4, Stutter DEF EmitRequest, Begin, Goto, db, IInv, TypeOK
<1>5. ASSUME NEW w \in Workers, NEW c \in Candidates, ApplyRequest(w, c) \/ PrintRequest(w, c)
      PROVE  UNCHANGED <<LastNumbers, Outstanding, issued>>
  BY <1>5, Stutter DEF ApplyRequest, PrintRequest, Begin, Goto, IInv, TypeOK
<1>6. ASSUME NEW w \in Workers, Select(w) \/ Create(w) \/ Render(w) \/ SaveReceipt(w)
      PROVE  UNCHANGED <<LastNumbers, Outstanding, issued>>
  <2>1. CASE Select(w)
    BY <2>1, Stutter DEF Select, Goto, db, IInv, TypeOK
  <2>2. CASE Create(w)
    BY <2>2, Stutter DEF Create, Goto, Release, db, IInv, TypeOK
  <2>3. CASE Render(w)
    BY <2>3, Stutter DEF Render, Goto, Release, db, IInv, TypeOK
  <2>4. CASE SaveReceipt(w)
    BY <2>4, Stutter DEF SaveReceipt, Release, IInv, TypeOK
  <2> QED
    BY <1>6, <2>1, <2>2, <2>3, <2>4
<1>7. CASE UNCHANGED vars
  BY <1>7, Stutter DEF vars, db
<1> QED
  BY <1>1, <1>2, <1>3, <1>4, <1>5, <1>6, <1>7 DEF Next, Step, Quiet

\* The requests implement the register of RF-REL-06: numbers are given out in
\* sequence, to one request each, and only that request issues the document.
THEOREM RegisterImplemented == Spec => ImplementsRegister
BY InitRefines, StepRefines, Invariance, PTL
   DEF Spec, ImplementsRegister, Register!Spec

-----------------------------------------------------------------------------
\* A number that the register has given out, and that is neither waiting for its
\* document nor on one, is lost.
LostNumber(d) ==
  d[1] \in Types /\ d[2] \in 1 .. LastNumbers[d[1]] /\ d \notin Outstanding \cup issued

\* The register never gives a number out again.
LEMMA RegisterKeepsLost ==
  ASSUME IInv, Register!Next, NEW d \in Document, LostNumber(d)
  PROVE  LostNumber(d)'
<1>1. LastNumbers \in [Types -> Nat]
  BY DEF LastNumbers, IInv, TypeOK
<1>2. CASE \E t \in Types : Register!Reserve(t)
  <2>1. PICK t \in Types : Register!Reserve(t)
    BY <1>2
  <2>2. LastNumbers' = [LastNumbers EXCEPT ![t] = @ + 1] /\ UNCHANGED issued
        /\ Outstanding' = Outstanding \cup {<<t, LastNumbers[t] + 1>>}
    BY <2>1 DEF Register!Reserve
  <2>3. d[2] \in Nat /\ LastNumbers[t] \in Nat /\ LastNumbers[d[1]] \in Nat
    BY <1>1 DEF Document, LostNumber
  <2>4. d # <<t, LastNumbers[t] + 1>>
    BY <2>3 DEF LostNumber
  <2>5. LastNumbers'[d[1]] \in Nat /\ LastNumbers[d[1]] <= LastNumbers'[d[1]]
    BY <1>1, <2>2, <2>3 DEF LostNumber
  <2>. QED BY <2>2, <2>3, <2>4, <2>5 DEF LostNumber
<1>3. CASE \E n \in Outstanding : Register!Issue(n) \/ Register!Lose(n)
  BY <1>3 DEF Register!Issue, Register!Lose, LostNumber
<1>. QED BY <1>2, <1>3 DEF Register!Next

\* RF-REL-06, "nunca reutilizada": a number whose document was never recorded,
\* because its request failed, stays missing; no later request, however it races,
\* is given it or issues it.
THEOREM LostNumbersStayLost ==
  Spec => [][\A d \in Document : LostNumber(d) => LostNumber(d)']_<<LastNumbers, Outstanding, issued>>
<1>. DEFINE Kept == \A d \in Document : LostNumber(d) => LostNumber(d)'
<1>1. IInv /\ [Next]_vars => [Kept]_<<LastNumbers, Outstanding, issued>>
  <2>1. IInv /\ Register!Next => Kept
    BY RegisterKeepsLost
  <2>. QED BY <2>1, StepRefines DEF Register!vars
<1>. HIDE DEF Kept
<1>2. Spec => [][Kept]_<<LastNumbers, Outstanding, issued>>
  BY <1>1, Invariance, PTL DEF Spec
<1>. QED BY <1>2 DEF Kept

=============================================================================
