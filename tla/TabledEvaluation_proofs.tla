----------------------- MODULE TabledEvaluation_proofs -----------------------
(***************************************************************************)
(* Tabled evaluation computes the least model of every program.            *)
(*                                                                         *)
(* Soundness is an induction on the answers: tables below the least model  *)
(* have consequences below it.  Completeness is not: what is invariant is  *)
(* that the complete subgoals are closed even when every other subgoal is  *)
(* given all answers.  Those tables are then a model of the program, so    *)
(* that the least model is below them.                                     *)
(***************************************************************************)
EXTENDS TabledEvaluation, TLAPS

IsRules(r) == r \in [Subgoals -> Seq(Clauses)]

CompleteClosed == \A s \in complete : Closed(complete, s)

IInv == TypeOK /\ Sound /\ CompleteClosed

-----------------------------------------------------------------------------
(* The goals of a clause are subgoals of the program.                      *)
LEMMA BodyGoals ==
  ASSUME NEW r, IsRules(r), NEW s \in Subgoals,
         NEW k \in 1 .. Len(r[s]), NEW i \in 1 .. Len(r[s][k].body)
  PROVE  r[s][k].body[i].goal \in Subgoals
<1>1. r[s] \in Seq(Clauses)
  BY DEF IsRules
<1>2. r[s][k] \in Clauses
  BY <1>1
<1>3. r[s][k].body \in Seq(Goals)
  BY <1>2, TabledProgramAssumption DEF ClauseAssumption
<1>4. r[s][k].body[i] \in Goals
  BY <1>3
<1> QED
  BY <1>4 DEF Goals

(* More answers in the tables have at least as many consequences.          *)
LEMMA ConsequencesMonotone ==
  ASSUME NEW r, IsRules(r), NEW t1, NEW t2,
         \A s \in Subgoals : t1[s] \subseteq t2[s],
         NEW s \in Subgoals
  PROVE  Consequences(r, t1, s) \subseteq Consequences(r, t2, s)
<1>1. ASSUME NEW k \in 1 .. Len(r[s])
      PROVE  Joins(r[s][k], t1) \subseteq Joins(r[s][k], t2)
  <2>1. \A i \in 1 .. Len(r[s][k].body) : r[s][k].body[i].goal \in Subgoals
    BY BodyGoals
  <2> QED
    BY <2>1 DEF Joins
<1> QED
  BY <1>1 DEF Consequences

LEMMA ConsequencesAreAnswers ==
  ASSUME NEW r, NEW t, NEW s
  PROVE  Consequences(r, t, s) \subseteq Answers
BY DEF Consequences

LEMMA ProgramFacts ==
  ASSUME NEW p \in Programs
  PROVE  /\ IsRules(p.rules)
         /\ p.model \in Tables
         /\ IsLeastModel(p.rules, p.model)
BY TabledProgramAssumption DEF ProgramAssumption, IsRules

(* The least model is below every model.                                   *)
LEMMA LeastModelBelow ==
  ASSUME NEW p \in Programs, NEW t \in Tables, IsModel(p.rules, t),
         NEW s \in Subgoals
  PROVE  p.model[s] \subseteq t[s]
<1> DEFINE m == [u \in Subgoals |-> t[u] \cap p.model[u]]
<1>0. IsRules(p.rules) /\ p.model \in Tables
  BY ProgramFacts
<1>1. m \in Below(p.model)
  <2>1. m \in Tables
    BY <1>0 DEF Tables
  <2> QED
    BY <2>1 DEF Below
<1>2. IsModel(p.rules, m)
  <2> SUFFICES ASSUME NEW u \in Subgoals
               PROVE  Consequences(p.rules, m, u) \subseteq m[u]
    BY DEF IsModel
  <2>1. \A v \in Subgoals : m[v] \subseteq t[v]
    OBVIOUS
  <2>2. \A v \in Subgoals : m[v] \subseteq p.model[v]
    OBVIOUS
  <2> HIDE DEF m
  <2>3. Consequences(p.rules, m, u) \subseteq Consequences(p.rules, t, u)
    BY <1>0, <2>1, ConsequencesMonotone
  <2>4. Consequences(p.rules, m, u) \subseteq Consequences(p.rules, p.model, u)
    BY <1>0, <2>2, ConsequencesMonotone
  <2>5. Consequences(p.rules, t, u) \subseteq t[u]
    BY DEF IsModel
  <2>6. Consequences(p.rules, p.model, u) \subseteq p.model[u]
    BY ProgramFacts DEF IsLeastModel, IsModel
  <2> QED
    BY <2>3, <2>4, <2>5, <2>6 DEF m
<1>3. m = p.model
  BY <1>1, <1>2, ProgramFacts DEF IsLeastModel
<1> QED
  BY <1>3

-----------------------------------------------------------------------------
LEMMA InitIInv == Init => IInv
<1> SUFFICES ASSUME Init PROVE IInv
  OBVIOUS
<1>1. TypeOK
  BY DEF Init, TypeOK, NoTables, Tables
<1>2. Sound
  BY DEF Init, Sound, NoTables
<1>3. CompleteClosed
  BY DEF Init, CompleteClosed
<1> QED
  BY <1>1, <1>2, <1>3 DEF IInv

LEMMA TypeStep == TypeOK /\ [Next]_vars => TypeOK'
<1> SUFFICES ASSUME TypeOK, [Next]_vars PROVE TypeOK'
  OBVIOUS
<1> USE DEF TypeOK
<1>1. ASSUME NEW s \in Subgoals, NEW a \in Answers, Derive(s, a)
      PROVE  TypeOK'
  BY <1>1 DEF Derive, Tables
<1>2. ASSUME NEW S \in SUBSET Subgoals, Complete(S)
      PROVE  TypeOK'
  BY <1>2 DEF Complete
<1>3. CASE Clear
  BY <1>3 DEF Clear, NoTables, Tables
<1>4. CASE UNCHANGED vars
  BY <1>4 DEF vars
<1> QED
  BY <1>1, <1>2, <1>3, <1>4 DEF Next

(* The tables stay below the least model.                                  *)
LEMMA SoundStep == TypeOK /\ Sound /\ [Next]_vars => Sound'
<1> SUFFICES ASSUME TypeOK, Sound, [Next]_vars,
                    NEW p \in Programs, p.rules = rules',
                    NEW u \in Subgoals
             PROVE  table'[u] \subseteq p.model[u]
  BY DEF Sound
<1>0. rules' = rules
  BY DEF Next, Derive, Complete, Clear, vars
<1>a. \A v \in Subgoals : table[v] \subseteq p.model[v]
  BY <1>0 DEF Sound
<1>1. ASSUME NEW s \in Subgoals, NEW a \in Answers, Derive(s, a)
      PROVE  table'[u] \subseteq p.model[u]
  <2>1. Consequences(rules, table, s) \subseteq Consequences(rules, p.model, s)
    BY <1>0, <1>a, ProgramFacts, ConsequencesMonotone
  <2>2. Consequences(rules, p.model, s) \subseteq p.model[s]
    BY <1>0, ProgramFacts DEF IsLeastModel, IsModel
  <2>3. a \in p.model[s]
    BY <1>1, <2>1, <2>2 DEF Derive
  <2> QED
    BY <1>1, <1>a, <2>3 DEF Derive, TypeOK, Tables
<1>2. ASSUME NEW S \in SUBSET Subgoals, Complete(S)
      PROVE  table'[u] \subseteq p.model[u]
  BY <1>2, <1>a DEF Complete
<1>3. CASE Clear
  BY <1>3 DEF Clear, NoTables
<1>4. CASE UNCHANGED vars
  BY <1>4, <1>a DEF vars
<1> QED
  BY <1>1, <1>2, <1>3, <1>4 DEF Next

(* Completing more subgoals only lowers what the others may still get.     *)
LEMMA ClosedStep == IInv /\ [Next]_vars => CompleteClosed'
<1> SUFFICES ASSUME IInv, [Next]_vars, NEW u \in complete'
             PROVE  Closed(complete, u)'
  BY DEF CompleteClosed
<1>0. TypeOK /\ CompleteClosed /\ IsRules(rules)
  BY ProgramFacts DEF IInv, TypeOK
<1>1. ASSUME NEW s \in Subgoals, NEW a \in Answers, Derive(s, a)
      PROVE  Closed(complete, u)'
  <2>1. /\ u \in complete /\ complete' = complete /\ rules' = rules
        /\ table'[u] = table[u]
    BY <1>0, <1>1 DEF Derive, TypeOK, Tables
  <2>2. Potential(complete)' = Potential(complete)
    BY <1>0, <1>1, <2>1 DEF Derive, Potential, TypeOK, Tables
  <2>3. Closed(complete, u)
    BY <1>0, <2>1 DEF CompleteClosed
  <2> QED
    BY <2>1, <2>2, <2>3 DEF Closed
<1>2. ASSUME NEW S \in SUBSET Subgoals, Complete(S)
      PROVE  Closed(complete, u)'
  <2>1. complete' = complete \cup S /\ UNCHANGED <<rules, table>>
    BY <1>2 DEF Complete
  <2>2. Closed(complete \cup S, u)
    <3>1. CASE u \in S
      BY <1>2, <3>1 DEF Complete
    <3>2. CASE u \in complete
      <4>1. \A v \in Subgoals :
              Potential(complete \cup S)[v] \subseteq Potential(complete)[v]
        BY <1>0 DEF Potential, TypeOK, Tables
      <4>2. u \in Subgoals
        BY <1>0, <3>2 DEF TypeOK
      <4>3. Consequences(rules, Potential(complete \cup S), u)
              \subseteq Consequences(rules, Potential(complete), u)
        BY <1>0, <4>1, <4>2, ConsequencesMonotone
      <4> QED
        BY <1>0, <3>2, <4>3 DEF CompleteClosed, Closed
    <3> QED
      BY <2>1, <3>1, <3>2
  <2>3. Potential(complete)' = Potential(complete \cup S)
    BY <2>1 DEF Potential
  <2> QED
    BY <2>1, <2>2, <2>3 DEF Closed
<1>3. CASE Clear
  BY <1>3 DEF Clear
<1>4. CASE UNCHANGED vars
  BY <1>0, <1>4 DEF vars, CompleteClosed, Closed, Potential
<1> QED
  BY <1>1, <1>2, <1>3, <1>4 DEF Next

-----------------------------------------------------------------------------
(* Tables are typed and complete subgoals are subgoals.                    *)
THEOREM TypeCorrect == Spec => []TypeOK
<1>1. Init => TypeOK
  BY InitIInv DEF IInv
<1> QED
  BY <1>1, TypeStep, PTL DEF Spec

THEOREM Invariance == Spec => []IInv
<1>1. IInv /\ [Next]_vars => IInv'
  BY TypeStep, SoundStep, ClosedStep DEF IInv
<1> QED
  BY <1>1, InitIInv, PTL DEF Spec

(* No table ever holds an answer that does not follow from the program.    *)
THEOREM Soundness == Spec => []Sound
<1>1. IInv => Sound
  BY DEF IInv
<1> QED
  BY <1>1, Invariance, PTL

(* A subgoal declared complete has exactly the answers of the least model. *)
THEOREM Completeness == Spec => []CompleteIsLeast
<1>1. IInv => CompleteIsLeast
  <2> SUFFICES ASSUME IInv, NEW p \in Programs, p.rules = rules,
                      NEW s \in complete
               PROVE  table[s] = p.model[s]
    BY DEF CompleteIsLeast
  <2>0. TypeOK /\ s \in Subgoals /\ IsRules(rules)
    BY ProgramFacts DEF IInv, TypeOK
  <2>1. Potential(complete) \in Tables
    BY <2>0 DEF Potential, TypeOK, Tables
  <2>2. IsModel(p.rules, Potential(complete))
    <3> SUFFICES ASSUME NEW u \in Subgoals
                 PROVE  Consequences(rules, Potential(complete), u)
                          \subseteq Potential(complete)[u]
      BY DEF IsModel
    <3>1. CASE u \in complete
      BY <3>1 DEF IInv, CompleteClosed, Closed, Potential
    <3>2. CASE u \notin complete
      <4>1. Potential(complete)[u] = Answers
        BY <3>2 DEF Potential
      <4> QED
        BY <4>1, ConsequencesAreAnswers
    <3> QED
      BY <3>1, <3>2
  <2>3. p.model[s] \subseteq Potential(complete)[s]
    BY <2>0, <2>1, <2>2, LeastModelBelow
  <2>4. Potential(complete)[s] = table[s]
    BY <2>0 DEF Potential
  <2>5. table[s] \subseteq p.model[s]
    BY <2>0 DEF IInv, Sound
  <2> QED
    BY <2>3, <2>4, <2>5
<1> QED
  BY <1>1, Invariance, PTL
=============================================================================
