---------------------------- MODULE DatabaseProofs ----------------------------
(***************************************************************************)
(* Database for every number of calls, ids and permits: its types, its     *)
(* permits, the row a trash holds, and that it implements SecretStore.     *)
(*                                                                         *)
(* DatabaseInv is inductive.  Phase(r) says what the handler, the closure, *)
(* the answer and the lock of one call have to do with each other; of the  *)
(* lock, that it is exactly with the trash whose transaction is open, so   *)
(* that no other write can come between its SELECT and its COMMIT.  With   *)
(* it, every step of Database is one step of SecretStore, or none.         *)
(***************************************************************************)
EXTENDS Database, FiniteSetTheorems, TLAPS

-----------------------------------------------------------------------------
(* The inductive invariant *)

\* the closures that hold a permit
Working == {r \in Requests : closure[r] \notin {"none", "done"}}

InTransaction == {"select", "delete", "commit"}

Typing ==
    /\ secret \in [Ids -> Secrets \cup {NoRow}]
    /\ handler \in [Requests -> {"idle", "permit", "task"}]
    /\ call \in [Requests -> Call \cup {NoCall}]
    /\ closure \in [Requests -> ClosureState]
    /\ found \in [Requests -> Secrets \cup {NoRow}]
    /\ answer \in [Requests -> Answer]
    /\ permits \in Nat
    /\ writer \in Requests \cup {NoWriter}
    /\ draining \in BOOLEAN

\* How the parts of one call fit together.
Phase(r) ==
    /\ call[r] = NoCall <=> SlotFree(r)
    /\ handler[r] = "permit" => closure[r] = "none"
    /\ handler[r] = "task" => closure[r] # "none"
    /\ closure[r] = "done" => handler[r] = "task"
    /\ closure[r] # "done" => answer[r] = NoAnswer
    /\ closure[r] \in InTransaction <=> writer = r
    /\ closure[r] \in InTransaction => call[r].route = "trash"
    /\ closure[r] \in {"delete", "commit"} => found[r] = Row(r) /\ found[r] # NoRow

Phases == \A r \in Requests : Phase(r)

DatabaseInv == Typing /\ Phases /\ PermitsConserved


-----------------------------------------------------------------------------
(* Calls, answers and types *)

\* What a call names, and the two answers every closure may begin or end with.
LEMMA CallsAndAnswers ==
    /\ \A c \in Call : /\ c.id \in Ids
                       /\ c.route \in {"store", "fetch", "trash"}
                       /\ c.route = "store" => c.value \in Secrets
                       /\ c # NoCall
    /\ NoAnswer \in Answer
    /\ Failed \in Answer
BY NoCallAssumption
   DEF Call, Answer, NoAnswer, Failed, Store!Call, Store!Answer, Store!NoAnswer,
       Store!Failed

\* A slot that is freed keeps the types.
LEMMA FreeTyping ==
    ASSUME Typing, NEW r \in Requests, Free(r)
    PROVE  /\ handler' \in [Requests -> {"idle", "permit", "task"}]
           /\ call' \in [Requests -> Call \cup {NoCall}]
           /\ closure' \in [Requests -> ClosureState]
           /\ found' \in [Requests -> Secrets \cup {NoRow}]
           /\ answer' \in [Requests -> Answer]
BY CallsAndAnswers DEF Typing, Free, ClosureState

\* So does a closure that returns.
LEMMA ReturnTyping ==
    ASSUME Typing, NEW r \in Requests,
           NEW status \in {"stored", "hit", "miss", "error"},
           NEW row \in Secrets \cup {NoRow},
           Return(r, status, row)
    PROVE  /\ handler' \in [Requests -> {"idle", "permit", "task"}]
           /\ call' \in [Requests -> Call \cup {NoCall}]
           /\ closure' \in [Requests -> ClosureState]
           /\ found' \in [Requests -> Secrets \cup {NoRow}]
           /\ answer' \in [Requests -> Answer]
           /\ permits' \in Nat
           /\ writer' \in Requests \cup {NoWriter}
           /\ draining' \in BOOLEAN
<1>1. permits' \in Nat /\ writer' \in Requests \cup {NoWriter} /\ draining' \in BOOLEAN
  BY DEF Typing, Return
<1>2. CASE handler[r] = "task"
  <2>1. [status |-> status, row |-> row] \in Answer
    BY DEF Answer, Store!Answer
  <2> QED BY <1>1, <1>2, <2>1 DEF Typing, Return, Goto, ClosureState
<1>3. CASE handler[r] # "task"
  BY <1>1, <1>3, FreeTyping DEF Return
<1> QED BY <1>2, <1>3

\* Every step of a closure keeps the types.
LEMMA ClosureTyping ==
    ASSUME Typing, Phases, NEW r \in Requests, ClosureStep(r)
    PROVE  Typing'
<1> USE DEF Typing
<1>1. Row(r) \in Secrets \cup {NoRow} \/ call[r] = NoCall
  BY CallsAndAnswers DEF Row
<1>2. closure[r] # "none" => call[r] \in Call
  BY DEF Phases, Phase, SlotFree
<1>3. CASE Connect(r)
  BY <1>3 DEF Connect, Goto, ClosureState
<1>4. CASE Insert(r)
  <2>1. call[r].value \in Secrets /\ Return(r, "stored", NoRow)
    BY <1>2, <1>4, CallsAndAnswers DEF Insert
  <2>2. secret' \in [Ids -> Secrets \cup {NoRow}]
    BY <1>4, <2>1 DEF Insert
  <2> QED BY <2>1, <2>2, ReturnTyping
<1>5. CASE Select(r)
  <2>1. Row(r) \in Secrets \cup {NoRow} /\ UNCHANGED secret
    BY <1>2, <1>5, CallsAndAnswers DEF Select, Row
  <2>2. Return(r, "miss", Row(r)) \/ Return(r, "hit", Row(r))
    BY <1>5 DEF Select, Found
  <2> QED BY <2>1, <2>2, ReturnTyping
<1>6. CASE BeginImmediate(r)
  BY <1>6 DEF BeginImmediate, Goto, ClosureState
<1>7. CASE TrashSelect(r)
  <2>1. Row(r) \in Secrets \cup {NoRow} /\ UNCHANGED secret
    BY <1>2, <1>7, CallsAndAnswers DEF TrashSelect, Row
  <2>2. CASE Row(r) = NoRow
    <3>1. Return(r, "miss", NoRow)
      BY <1>7, <2>2 DEF TrashSelect, Found
    <3> QED BY <2>1, <3>1, ReturnTyping
  <2>3. CASE Row(r) # NoRow
    BY <1>7, <2>1, <2>3 DEF TrashSelect, Goto, ClosureState
  <2> QED BY <2>2, <2>3
<1>8. CASE TrashDelete(r)
  <2>1. CASE Row(r) = NoRow
    <3>1. Return(r, "error", NoRow) /\ UNCHANGED secret
      BY <1>8, <2>1 DEF TrashDelete
    <3> QED BY <3>1, ReturnTyping
  <2>2. CASE Row(r) # NoRow
    BY <1>8, <2>2 DEF TrashDelete, Goto, ClosureState
  <2> QED BY <2>1, <2>2
<1>9. CASE Commit(r)
  <2>1. Return(r, "hit", found[r]) /\ secret' \in [Ids -> Secrets \cup {NoRow}]
    BY <1>9 DEF Commit
  <2> QED BY <2>1, ReturnTyping
<1>10. CASE StatementFails(r)
  <2>1. Return(r, "error", NoRow) /\ UNCHANGED secret
    BY <1>10 DEF StatementFails
  <2> QED BY <2>1, ReturnTyping
<1> QED BY <1>3, <1>4, <1>5, <1>6, <1>7, <1>8, <1>9, <1>10 DEF ClosureStep

\* The state of a new process has the types.
LEMMA RestartedTyping ==
    ASSUME Typing, Restarted
    PROVE  Typing'
BY CallsAndAnswers, DatabaseAssumption DEF Typing, Restarted, ClosureState

\* Every step keeps the types.
LEMMA TypingStep ==
    Typing /\ Phases /\ [Next]_vars => Typing'
<1> SUFFICES ASSUME Typing, Phases, [Next]_vars PROVE Typing'
  OBVIOUS
<1>1. ASSUME NEW r \in Requests, Receive(r) PROVE Typing'
  BY <1>1 DEF Receive, Typing
<1>2. ASSUME NEW r \in Requests, Spawn(r) PROVE Typing'
  BY <1>2 DEF Spawn, Typing, ClosureState
<1>3. ASSUME NEW r \in Requests, PermitTimeout(r) \/ Respond(r) PROVE Typing'
  <2>1. Free(r) /\ UNCHANGED <<secret, permits, writer, draining>>
    BY <1>3 DEF PermitTimeout, Respond
  <2> QED BY <2>1, FreeTyping DEF Typing
<1>4. ASSUME NEW r \in Requests, Cancel(r) PROVE Typing'
  <2>1. UNCHANGED <<secret, permits, writer, draining>>
    BY <1>4 DEF Cancel
  <2>2. CASE Free(r)
    BY <2>1, <2>2, FreeTyping DEF Typing
  <2>3. CASE ~Free(r)
    BY <1>4, <2>1, <2>3 DEF Cancel, Typing
  <2> QED BY <2>2, <2>3
<1>5. ASSUME NEW r \in Requests, ClosureStep(r) PROVE Typing'
  BY <1>5, ClosureTyping
<1>6. CASE Sigterm
  BY <1>6 DEF Sigterm, Typing, reqVars
<1>7. CASE Exit \/ Kill
  BY <1>7, RestartedTyping DEF Exit, Kill
<1>8. CASE UNCHANGED vars
  BY <1>8 DEF vars, reqVars, Typing
<1> QED BY <1>1, <1>2, <1>3, <1>4, <1>5, <1>6, <1>7, <1>8 DEF Next, ServerStep

-----------------------------------------------------------------------------
(* The phases of a call *)

\* What a step leaves of a slot it does not touch.
Untouched(q) ==
    /\ handler'[q] = handler[q]
    /\ call'[q] = call[q]
    /\ closure'[q] = closure[q]
    /\ found'[q] = found[q]
    /\ answer'[q] = answer[q]

\* A slot stays in its phase while a step elsewhere neither gives it the lock
\* nor takes it away, and changes its row only if it has no transaction.
LEMMA UntouchedPhase ==
    ASSUME NEW q \in Requests, Phase(q), Untouched(q),
           writer = q <=> writer' = q,
           writer = q => UNCHANGED secret
    PROVE  Phase(q)'
BY DEF Phase, Untouched, SlotFree, Row, InTransaction

\* A slot that is freed, or that was free, is in its phase.
LEMMA FreePhase ==
    ASSUME Typing, NEW r \in Requests, Free(r), writer' # r
    PROVE  Phase(r)' /\ \A q \in Requests \ {r} : Untouched(q)
BY DEF Typing, Free, Phase, SlotFree, InTransaction, Untouched

\* A closure that returns leaves its slot in its phase and has no lock.
LEMMA ReturnPhase ==
    ASSUME Typing, Phases, NEW r \in Requests, NEW status, NEW row,
           Return(r, status, row)
    PROVE  /\ Phase(r)'
           /\ \A q \in Requests \ {r} : Untouched(q) /\ (writer = q <=> writer' = q)
<1>1. writer' = IF writer = r THEN NoWriter ELSE writer
  BY DEF Return
<1>2. writer' # r /\ \A q \in Requests \ {r} : writer = q <=> writer' = q
  BY <1>1, DatabaseAssumption DEF Typing
<1>3. CASE handler[r] = "task"
  <2>1. Phase(r)'
    BY <1>2, <1>3 DEF Return, Goto, Typing, Phases, Phase, SlotFree, InTransaction
  <2>2. \A q \in Requests \ {r} : Untouched(q)
    BY <1>3 DEF Return, Goto, Typing, Untouched
  <2> QED BY <1>2, <2>1, <2>2
<1>4. CASE handler[r] # "task"
  BY <1>2, <1>4, FreePhase DEF Return
<1> QED BY <1>3, <1>4

\* Every step of a closure keeps every call in its phase: the row that a trash
\* has read is under its lock, and only who has the lock, or finds it free,
\* writes.
LEMMA ClosurePhases ==
    ASSUME Typing, Phases, NEW r \in Requests, ClosureStep(r)
    PROVE  Phases'
<1> DEFINE Others == \A q \in Requests \ {r} :
                         Untouched(q) /\ (writer = q <=> writer' = q)
<1>1. ASSUME Phase(r)', Others, writer \in {NoWriter, r} \/ UNCHANGED secret
      PROVE  Phases'
  BY <1>1, UntouchedPhase, DatabaseAssumption DEF Phases
<1>2. ASSUME UNCHANGED secret, NEW status, NEW row, Return(r, status, row)
      PROVE  Phases'
  BY <1>1, <1>2, ReturnPhase
<1>3. CASE Connect(r)
  <2>1. Phase(r)'
    BY <1>3 DEF Connect, Goto, Typing, Phases, Phase, SlotFree, InTransaction
  <2>2. Others /\ UNCHANGED secret
    BY <1>3 DEF Connect, Goto, Typing, Untouched
  <2> QED BY <1>1, <2>1, <2>2
<1>4. CASE Insert(r)
  <2>1. Return(r, "stored", NoRow) /\ writer = NoWriter
    BY <1>4 DEF Insert
  <2> QED BY <1>1, <2>1, ReturnPhase
<1>5. CASE Select(r)
  BY <1>2, <1>5 DEF Select, Found
<1>6. CASE BeginImmediate(r)
  <2>1. Phase(r)'
    BY <1>6 DEF BeginImmediate, Goto, Typing, Phases, Phase, SlotFree, InTransaction
  <2>2. Others /\ UNCHANGED secret
    BY <1>6, DatabaseAssumption
       DEF BeginImmediate, Goto, Typing, Untouched
  <2> QED BY <1>1, <2>1, <2>2
<1>7. CASE TrashSelect(r)
  <2>1. CASE Row(r) = NoRow
    BY <1>2, <1>7, <2>1 DEF TrashSelect, Found
  <2>2. CASE Row(r) # NoRow
    <3>1. Phase(r)'
      BY <1>7, <2>2
         DEF TrashSelect, Goto, Typing, Phases, Phase, SlotFree, InTransaction, Row
    <3>2. Others /\ UNCHANGED secret
      BY <1>7, <2>2 DEF TrashSelect, Goto, Typing, Untouched
    <3> QED BY <1>1, <3>1, <3>2
  <2> QED BY <2>1, <2>2
<1>8. CASE TrashDelete(r)
  <2>1. CASE Row(r) = NoRow
    BY <1>2, <1>8, <2>1 DEF TrashDelete
  <2>2. CASE Row(r) # NoRow
    <3>1. Phase(r)'
      BY <1>8, <2>2
         DEF TrashDelete, Goto, Typing, Phases, Phase, SlotFree, InTransaction, Row
    <3>2. Others /\ UNCHANGED secret
      BY <1>8, <2>2 DEF TrashDelete, Goto, Typing, Untouched
    <3> QED BY <1>1, <3>1, <3>2
  <2> QED BY <2>1, <2>2
<1>9. CASE Commit(r)
  <2>1. Return(r, "hit", found[r]) /\ writer = r
    BY <1>9 DEF Commit, Phases, Phase, InTransaction
  <2> QED BY <1>1, <2>1, ReturnPhase
<1>10. CASE StatementFails(r)
  BY <1>2, <1>10 DEF StatementFails
<1> QED BY <1>3, <1>4, <1>5, <1>6, <1>7, <1>8, <1>9, <1>10 DEF ClosureStep

\* Every step keeps every call in its phase.
LEMMA PhasesStep ==
    Typing /\ Phases /\ [Next]_vars => Phases'
<1> SUFFICES ASSUME Typing, Phases, [Next]_vars PROVE Phases'
  OBVIOUS
<1>1. ASSUME NEW r \in Requests, Phase(r)', UNCHANGED <<secret, writer>>,
             \A q \in Requests \ {r} : Untouched(q)
      PROVE  Phases'
  BY <1>1, UntouchedPhase DEF Phases
<1>2. ASSUME NEW r \in Requests, Receive(r) PROVE Phases'
  <2>1. Phase(r)'
    BY <1>2, CallsAndAnswers
       DEF Receive, Typing, Phases, Phase, SlotFree, InTransaction
  <2>2. UNCHANGED <<secret, writer>> /\ \A q \in Requests \ {r} : Untouched(q)
    BY <1>2 DEF Receive, Typing, Untouched
  <2> QED BY <1>1, <2>1, <2>2
<1>3. ASSUME NEW r \in Requests, Spawn(r) PROVE Phases'
  <2>1. Phase(r)'
    BY <1>3 DEF Spawn, Typing, Phases, Phase, SlotFree, InTransaction
  <2>2. UNCHANGED <<secret, writer>> /\ \A q \in Requests \ {r} : Untouched(q)
    BY <1>3 DEF Spawn, Typing, Untouched
  <2> QED BY <1>1, <2>1, <2>2
<1>4. ASSUME NEW r \in Requests, Free(r), UNCHANGED <<secret, writer>>,
             closure[r] \in {"none", "done"}
      PROVE  Phases'
  <2>1. writer # r
    BY <1>4 DEF Phases, Phase, InTransaction
  <2> QED BY <1>1, <1>4, <2>1, FreePhase
<1>5. ASSUME NEW r \in Requests, PermitTimeout(r) \/ Respond(r) PROVE Phases'
  <2>1. closure[r] \in {"none", "done"}
    BY <1>5 DEF PermitTimeout, Respond, Phases, Phase
  <2> QED BY <1>4, <1>5, <2>1 DEF PermitTimeout, Respond
<1>6. ASSUME NEW r \in Requests, Cancel(r) PROVE Phases'
  <2>1. CASE closure[r] \in {"none", "done"}
    BY <1>4, <1>6, <2>1 DEF Cancel
  <2>2. CASE closure[r] \notin {"none", "done"}
    <3>1. Phase(r)'
      BY <1>6, <2>2 DEF Cancel, Typing, Phases, Phase, SlotFree, InTransaction, Row
    <3>2. UNCHANGED <<secret, writer>> /\ \A q \in Requests \ {r} : Untouched(q)
      BY <1>6, <2>2 DEF Cancel, Typing, Untouched
    <3> QED BY <1>1, <3>1, <3>2
  <2> QED BY <2>1, <2>2
<1>7. ASSUME NEW r \in Requests, ClosureStep(r) PROVE Phases'
  BY <1>7, ClosurePhases
<1>8. CASE Sigterm \/ UNCHANGED vars
  BY <1>8, UntouchedPhase DEF Sigterm, Phases, Untouched, vars, reqVars
<1>9. CASE Exit \/ Kill
  BY <1>9, DatabaseAssumption
     DEF Exit, Kill, Restarted, Phases, Phase, SlotFree, InTransaction
<1> QED BY <1>2, <1>3, <1>5, <1>6, <1>7, <1>8, <1>9 DEF Next, ServerStep

-----------------------------------------------------------------------------
(* Permits *)

\* Permits move only with the closures that hold them.
LEMMA PermitsStep ==
    DatabaseInv /\ [Next]_vars => PermitsConserved'
<1> SUFFICES ASSUME Typing, Phases, PermitsConserved, [Next]_vars
             PROVE  PermitsConserved'
  BY DEF DatabaseInv
<1>1. /\ permits \in Nat
      /\ IsFiniteSet(Working) /\ Cardinality(Working) \in Nat
      /\ permits + Cardinality(Working) = MaxPermits
  BY FS_Subset, FS_CardinalityType, DatabaseAssumption
     DEF Typing, PermitsConserved, Working
<1>2. PermitsConserved' <=> permits' + Cardinality(Working') = MaxPermits
  BY DEF PermitsConserved, Working
<1>3. ASSUME UNCHANGED permits, Working' = Working PROVE PermitsConserved'
  BY <1>1, <1>2, <1>3
<1>4. ASSUME NEW r \in Requests, Spawn(r) PROVE PermitsConserved'
  <2>1. Working' = Working \cup {r} /\ r \notin Working
    BY <1>4 DEF Spawn, Typing, Working, Phases, Phase
  <2>2. Cardinality(Working') = Cardinality(Working) + 1
    BY <1>1, <2>1, FS_AddElement
  <2>3. permits' = permits - 1
    BY <1>4 DEF Spawn
  <2> QED BY <1>1, <1>2, <2>2, <2>3
<1>5. ASSUME NEW r \in Working, NEW status, NEW row, Return(r, status, row)
      PROVE  PermitsConserved'
  <2>1. Working' = Working \ {r}
    BY <1>5 DEF Return, Goto, Free, Typing, Working
  <2>2. Cardinality(Working') = Cardinality(Working) - 1
    BY <1>1, <2>1, FS_RemoveElement
  <2>3. permits' = permits + 1
    BY <1>5 DEF Return
  <2> QED BY <1>1, <1>2, <2>2, <2>3
<1>6. ASSUME NEW r \in Requests, closure[r] \in {"none", "done"},
             Free(r), UNCHANGED permits
      PROVE  PermitsConserved'
  <2>1. Working' = Working
    BY <1>6 DEF Free, Typing, Working
  <2> QED BY <1>3, <1>6, <2>1
<1>7. ASSUME NEW r \in Requests, ClosureStep(r) PROVE PermitsConserved'
  <2>1. r \in Working
    BY <1>7 DEF ClosureStep, Connect, Insert, Select, BeginImmediate, TrashSelect,
                TrashDelete, Commit, StatementFails, Working
  <2>2. CASE \E status, row : Return(r, status, row)
    BY <1>5, <2>1, <2>2
  <2>3. CASE ~\E status, row : Return(r, status, row)
    <3>1. \E step \in {"ready", "select", "delete", "commit"} :
              Goto(r, step) /\ UNCHANGED permits
      BY <1>7, <2>3
         DEF ClosureStep, Connect, Insert, Select, BeginImmediate, TrashSelect,
             TrashDelete, Commit, StatementFails, Found
    <3>2. Working' = Working
      BY <2>1, <3>1 DEF Goto, Typing, Working
    <3> QED BY <1>3, <3>1, <3>2
  <2> QED BY <2>2, <2>3
<1>8. ASSUME NEW r \in Requests, PermitTimeout(r) \/ Respond(r) \/ Cancel(r)
      PROVE  PermitsConserved'
  <2>1. UNCHANGED permits
    BY <1>8 DEF PermitTimeout, Respond, Cancel
  <2>2. CASE closure[r] \in {"none", "done"}
    BY <1>6, <1>8, <2>1, <2>2 DEF PermitTimeout, Respond, Cancel
  <2>3. CASE closure[r] \notin {"none", "done"}
    <3>1. UNCHANGED closure
      BY <1>8, <2>3 DEF PermitTimeout, Respond, Cancel, Phases, Phase
    <3> QED BY <1>3, <2>1, <3>1 DEF Working
  <2> QED BY <2>2, <2>3
<1>9. CASE (\E r \in Requests : Receive(r)) \/ Sigterm \/ UNCHANGED vars
  <2>1. UNCHANGED <<closure, permits>>
    BY <1>9 DEF Receive, Sigterm, vars, reqVars
  <2> QED BY <1>3, <2>1 DEF Working
<1>10. CASE Exit \/ Kill
  <2>1. Working' = {} /\ permits' = MaxPermits
    BY <1>10 DEF Exit, Kill, Restarted, Working
  <2> QED BY <1>2, <2>1, FS_EmptySet, DatabaseAssumption
<1> QED BY <1>4, <1>7, <1>8, <1>9, <1>10 DEF Next, ServerStep

-----------------------------------------------------------------------------
(* Safety *)

\* The invariant holds in every state.
LEMMA DatabaseInvariant == Spec => []DatabaseInv
<1>1. Init => DatabaseInv
  <2> SUFFICES ASSUME Init PROVE DatabaseInv
    OBVIOUS
  <2>1. Typing
    BY CallsAndAnswers, DatabaseAssumption DEF Init, Typing, ClosureState
  <2>2. Phases
    BY DatabaseAssumption DEF Init, Phases, Phase, SlotFree, InTransaction
  <2>3. PermitsConserved
    <3>1. {r \in Requests : closure[r] \notin {"none", "done"}} = {}
      BY DEF Init
    <3> QED BY <3>1, FS_EmptySet, DatabaseAssumption DEF Init, PermitsConserved
  <2> QED BY <2>1, <2>2, <2>3 DEF DatabaseInv
<1>2. DatabaseInv /\ [Next]_vars => DatabaseInv'
  BY TypingStep, PhasesStep, PermitsStep DEF DatabaseInv
<1> QED BY <1>1, <1>2, PTL DEF Spec

\* Every variable keeps its type; the permits stay within the pool because no
\* permit is ever given back twice (store.rs:77-113).
THEOREM TypeCorrect == Spec => []TypeOK
<1>1. DatabaseInv => TypeOK
  <2> SUFFICES ASSUME Typing, PermitsConserved PROVE TypeOK
    BY DEF DatabaseInv
  <2>1. permits \in Nat /\ Cardinality(Working) \in Nat
    BY FS_Subset, FS_CardinalityType, DatabaseAssumption DEF Typing, Working
  <2>2. permits \in 0..MaxPermits
    BY <2>1, DatabaseAssumption DEF PermitsConserved, Working
  <2> QED BY <2>2 DEF Typing, TypeOK
<1> QED BY <1>1, DatabaseInvariant, PTL

\* A permit is free or with a closure that has not returned, whatever becomes
\* of the handlers, the clients and the process (store.rs:77-113).
THEOREM PermitsCorrect == Spec => []PermitsConserved
<1>1. DatabaseInv => PermitsConserved
  BY DEF DatabaseInv
<1> QED BY <1>1, DatabaseInvariant, PTL

\* The row that a trash has read is still there when it deletes and commits,
\* so that its error on `deleted != 1` is never returned (database.rs:155-166).
THEOREM TrashHoldsRowCorrect == Spec => []TrashHoldsRow
<1>1. DatabaseInv => TrashHoldsRow
  BY DEF DatabaseInv, Phases, Phase, InTransaction, TrashHoldsRow
<1> QED BY <1>1, DatabaseInvariant, PTL

-----------------------------------------------------------------------------
(* Database implements SecretStore *)

\* the pending calls of SecretStore, as Database has them
Pending == [r \in Requests |-> IF call[r] = NoCall THEN NoCall
                               ELSE [call |-> call[r], answer |-> answer[r]]]

\* A call of Database is one of SecretStore, with its answer.
LEMMA PendingCall ==
    ASSUME Typing, NEW r \in Requests, call[r] # NoCall
    PROVE  /\ Pending[r] = [call |-> call[r], answer |-> answer[r]]
           /\ Pending[r] # NoCall
           /\ Pending[r].call = call[r]
           /\ call[r] \in Call
BY NoCallAssumption DEF Typing, Pending

\* A slot that is freed has no call any more.
LEMMA FreeMaps ==
    ASSUME Typing, NEW r \in Requests, Free(r)
    PROVE  Pending' = [Pending EXCEPT ![r] = NoCall]
BY DEF Typing, Free, Pending

\* A closure that returns answers its call, or ends it if nobody waits for it.
LEMMA ReturnMaps ==
    ASSUME Typing, NEW r \in Requests, call[r] # NoCall, NEW status, NEW row,
           Return(r, status, row)
    PROVE  Store!Answered(r, [status |-> status, row |-> row])
<1>1. CASE handler[r] = "task"
  <2>1. Pending' = [Pending EXCEPT ![r].answer = [status |-> status, row |-> row]]
    BY <1>1, PendingCall DEF Typing, Return, Pending
  <2> QED BY <2>1 DEF Store!Answered, Pending
<1>2. CASE handler[r] # "task"
  BY <1>2, FreeMaps DEF Return, Store!Answered, Pending
<1> QED BY <1>1, <1>2

\* A call whose closure works has not had its effect.
LEMMA WorkingUnanswered ==
    ASSUME Typing, Phases, NEW r \in Requests, closure[r] \notin {"none", "done"}
    PROVE  Store!Unanswered(r) /\ call[r] # NoCall
<1>1. call[r] # NoCall /\ answer[r] = NoAnswer
  BY DEF Phases, Phase, SlotFree
<1> QED BY <1>1, PendingCall DEF Pending, Store!Unanswered, NoAnswer

\* A closure that changes its row as its call would, and returns what its call
\* would be answered, takes the effect of its call.
LEMMA EffectMaps ==
    ASSUME Typing, Phases, NEW r \in Requests,
           closure[r] \notin {"none", "done"},
           NEW status, NEW row, Return(r, status, row),
           Store!AnswerTo(call[r]) = [status |-> status, row |-> row],
           secret' = [secret EXCEPT ![call[r].id] = Store!RowAfter(call[r])]
    PROVE  Store!Effect(r)
<1>1. Store!Unanswered(r) /\ call[r] # NoCall
  BY WorkingUnanswered
<1>2. Store!Answered(r, [status |-> status, row |-> row])
  BY <1>1, ReturnMaps
<1>3. Store!Answered(r, Store!AnswerTo(call[r]))
  BY <1>2 DEF Store!Answered
<1>4. Pending[r].call = call[r]
  BY <1>1, PendingCall
<1> QED
  BY <1>1, <1>3, <1>4
     DEF Store!Effect, Store!Unanswered, Store!Answered, Store!AnswerTo,
         Store!RowAfter, Pending

\* What a closure does is the effect of its call, its failure, or nothing: the
\* effect of a trash is its COMMIT, or its SELECT when there is no row.
LEMMA ClosureMaps ==
    ASSUME Typing, Phases, NEW r \in Requests, ClosureStep(r)
    PROVE  Store!Effect(r) \/ Store!Fail(r) \/ UNCHANGED Store!storeVars
<1>1. /\ closure[r] \notin {"none", "done"}
      /\ Store!Unanswered(r) /\ call[r] # NoCall
  <2>1. closure[r] \notin {"none", "done"}
    BY DEF ClosureStep, Connect, Insert, Select, BeginImmediate, TrashSelect,
           TrashDelete, Commit, StatementFails
  <2> QED BY <2>1, WorkingUnanswered
<1>2. call[r] \in Call /\ call[r].id \in Ids /\ secret[call[r].id] = Row(r)
  BY <1>1, PendingCall, CallsAndAnswers DEF Row
<1>3. ASSUME UNCHANGED <<secret, call, answer>>
      PROVE  UNCHANGED Store!storeVars
  BY <1>3 DEF Store!storeVars
<1>4. ASSUME Return(r, "error", NoRow), UNCHANGED secret PROVE Store!Fail(r)
  BY <1>1, <1>4, ReturnMaps DEF Store!Fail, Store!Failed
<1>5. CASE Connect(r) \/ BeginImmediate(r)
  BY <1>3, <1>5 DEF Connect, BeginImmediate
<1>6. CASE Insert(r)
  <2>1. Store!AnswerTo(call[r]) = [status |-> "stored", row |-> NoRow]
    BY <1>6 DEF Insert, Store!AnswerTo
  <2>2. secret' = [secret EXCEPT ![call[r].id] = Store!RowAfter(call[r])]
    BY <1>2, <1>6 DEF Insert, Store!RowAfter, Typing
  <2> QED BY <1>1, <1>6, <2>1, <2>2, EffectMaps DEF Insert
<1>7. CASE Select(r)
  <2> DEFINE status == IF Row(r) = NoRow THEN "miss" ELSE "hit"
  <2>1. Store!AnswerTo(call[r]) = [status |-> status, row |-> Row(r)]
    BY <1>2, <1>7 DEF Select, Store!AnswerTo
  <2>2. secret' = [secret EXCEPT ![call[r].id] = Store!RowAfter(call[r])]
    BY <1>2, <1>7 DEF Select, Store!RowAfter, Typing
  <2>3. Return(r, status, Row(r))
    BY <1>7 DEF Select, Found
  <2> HIDE DEF status
  <2> QED BY <1>1, <2>1, <2>2, <2>3, EffectMaps
<1>8. CASE TrashSelect(r)
  <2>1. call[r].route = "trash" /\ UNCHANGED secret
    BY <1>8 DEF TrashSelect, Phases, Phase, InTransaction
  <2>2. CASE Row(r) = NoRow
    <3>1. Store!AnswerTo(call[r]) = [status |-> "miss", row |-> NoRow]
      BY <1>2, <2>1, <2>2 DEF Store!AnswerTo
    <3>2. secret' = [secret EXCEPT ![call[r].id] = Store!RowAfter(call[r])]
      BY <1>2, <2>1, <2>2 DEF Store!RowAfter, Typing
    <3>3. Return(r, "miss", NoRow)
      BY <1>8, <2>2 DEF TrashSelect, Found
    <3> QED BY <1>1, <3>1, <3>2, <3>3, EffectMaps
  <2>3. CASE Row(r) # NoRow
    BY <1>3, <1>8, <2>3 DEF TrashSelect
  <2> QED BY <2>2, <2>3
<1>9. CASE TrashDelete(r)
  BY <1>3, <1>4, <1>9 DEF TrashDelete
<1>10. CASE Commit(r)
  <2>1. call[r].route = "trash" /\ found[r] = Row(r) /\ Row(r) # NoRow
    BY <1>10 DEF Commit, Phases, Phase, InTransaction
  <2>2. Store!AnswerTo(call[r]) = [status |-> "hit", row |-> found[r]]
    BY <1>2, <2>1 DEF Store!AnswerTo
  <2>3. secret' = [secret EXCEPT ![call[r].id] = Store!RowAfter(call[r])]
    BY <1>10, <2>1 DEF Commit, Store!RowAfter
  <2> QED BY <1>1, <1>10, <2>2, <2>3, EffectMaps DEF Commit
<1>11. CASE StatementFails(r)
  BY <1>4, <1>11 DEF StatementFails
<1> QED BY <1>5, <1>6, <1>7, <1>8, <1>9, <1>10, <1>11 DEF ClosureStep

\* Every step of Database is one of SecretStore, or none.
LEMMA StepMaps ==
    DatabaseInv /\ [Next]_vars => [Store!StoreNext]_(Store!storeVars)
<1> SUFFICES ASSUME Typing, Phases, [Next]_vars
             PROVE  [Store!StoreNext]_(Store!storeVars)
  BY DEF DatabaseInv
<1>1. ASSUME NEW r \in Requests, Receive(r) PROVE Store!Begin(r)
  <2>1. PICK c \in Call : call' = [call EXCEPT ![r] = c]
    BY <1>1 DEF Receive
  <2>2. call[r] = NoCall /\ answer[r] = NoAnswer /\ c # NoCall
    BY <1>1, CallsAndAnswers DEF Receive, SlotFree, Phases, Phase
  <2>3. Pending[r] = NoCall
    BY <2>2 DEF Pending
  <2>4. Pending' = [Pending EXCEPT ![r] = [call |-> c, answer |-> NoAnswer]]
    BY <1>1, <2>1, <2>2 DEF Receive, Typing, Pending
  <2> QED BY <1>1, <2>3, <2>4
          DEF Receive, Store!Begin, Pending, Call, NoAnswer
<1>2. ASSUME UNCHANGED <<secret, call, answer>>
      PROVE  UNCHANGED Store!storeVars
  BY <1>2 DEF Store!storeVars
<1>3. ASSUME NEW r \in Requests, Free(r), call[r] # NoCall, UNCHANGED secret
      PROVE  Store!End(r)
  BY <1>3, FreeMaps, PendingCall DEF Store!End, Pending
<1>4. ASSUME NEW r \in Requests, PermitTimeout(r) \/ Respond(r) \/ Cancel(r)
      PROVE  Store!End(r) \/ UNCHANGED Store!storeVars
  <2>1. call[r] # NoCall
    BY <1>4 DEF PermitTimeout, Respond, Cancel, Phases, Phase, SlotFree
  <2> QED BY <1>2, <1>3, <1>4, <2>1 DEF PermitTimeout, Respond, Cancel
<1>5. ASSUME NEW r \in Requests, Spawn(r) PROVE UNCHANGED Store!storeVars
  BY <1>2, <1>5 DEF Spawn
<1>6. ASSUME NEW r \in Requests, ClosureStep(r)
      PROVE  Store!Effect(r) \/ Store!Fail(r) \/ UNCHANGED Store!storeVars
  BY <1>6, ClosureMaps
<1>7. CASE Sigterm \/ UNCHANGED vars
  BY <1>2, <1>7 DEF Sigterm, vars, reqVars
<1>8. ASSUME Exit \/ Kill PROVE Store!Crash
  BY <1>8 DEF Exit, Kill, Restarted, Store!Crash
<1> QED BY <1>1, <1>4, <1>5, <1>6, <1>7, <1>8
        DEF Next, ServerStep, Store!StoreNext

\* Whatever calls, closures, failures and restarts do in between each other,
\* every call has at most one effect, at one moment of its life, and its answer
\* is the one of that moment (database.rs:124-168, store.rs:95-113).
THEOREM LinearizableCorrect == Spec => Linearizable
<1>1. Init => Store!StoreInit
  BY DEF Init, Store!StoreInit
<1> QED BY <1>1, StepMaps, DatabaseInvariant, PTL
        DEF Spec, Linearizable, Store!StoreSpec

=============================================================================
