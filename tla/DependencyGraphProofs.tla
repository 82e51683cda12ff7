------------------------ MODULE DependencyGraphProofs ------------------------
(***************************************************************************)
(* What the cycle query of the prerequisite graph and the walk along the   *)
(* parents have in common: which edges close no cycle, for every graph.    *)
(***************************************************************************)
EXTENDS DependencyGraph, TLAPS

\* Removing edges closes no cycle.
LEMMA FewerEdges ==
    ASSUME NEW N, NEW E, NEW F, F \subseteq E, Acyclic(E, N)
    PROVE  Acyclic(F, N)
  BY DEF Acyclic

\* A new node that nothing depends on closes no cycle.
LEMMA NewNode ==
    ASSUME NEW N, NEW L \in SUBSET N, NEW E \in SUBSET (L \X L), NEW t \in N,
           t \notin L, NEW F \in SUBSET (E \cup ({t} \X L)), Acyclic(E, N)
    PROVE  Acyclic(F, N)
  <1> SUFFICES ASSUME NEW S \in SUBSET N, S # {}
               PROVE  \E x \in S : \A y \in S : <<x, y>> \notin F
    BY DEF Acyclic
  <1>1. CASE S = {t}
    BY <1>1
  <1>2. CASE S # {t}
    <2>1. PICK x \in S \ {t} : \A y \in S \ {t} : <<x, y>> \notin E
      <3>1. S \ {t} \in SUBSET N /\ S \ {t} # {}
        BY <1>2
      <3> QED
        BY <3>1 DEF Acyclic
    <2>2. <<x, t>> \notin E
      OBVIOUS
    <2> QED
      BY <2>1, <2>2
  <1> QED
    BY <1>1, <1>2

\* The cycle query of _insertDependency is complete: an edge that it lets
\* through closes no cycle, however long.
LEMMA CycleQueryIsComplete ==
    ASSUME NEW N, NEW E, NEW t \in N, NEW u \in N, t # u, E \subseteq N \X N,
           Acyclic(E, N), ~WouldCycle(E, t, u, N)
    PROVE  Acyclic(E \cup {<<t, u>>}, N)
  <1>1. PICK C \in SUBSET N : /\ DirectPrerequisites(E, u) \subseteq C
                              /\ ClosedUnder(E, C)
                              /\ t \notin C
    BY DEF WouldCycle, Prerequisites
  <1> DEFINE R == C \cup {u}
  <1>2. \A e \in E : e[1] = u => e[2] \in C
    BY <1>1 DEF DirectPrerequisites
  <1>3. \A x, y \in N : x \in R /\ <<x, y>> \in E => y \in R
    BY <1>1, <1>2 DEF ClosedUnder
  <1> SUFFICES ASSUME NEW S \in SUBSET N, S # {}
               PROVE  \E x \in S : \A y \in S : <<x, y>> \notin E \cup {<<t, u>>}
    BY DEF Acyclic
  <1>4. CASE S \cap R # {}
    <2>1. PICK x \in S \cap R : \A y \in S \cap R : <<x, y>> \notin E
      BY <1>4 DEF Acyclic
    <2>2. \A y \in S : <<x, y>> \notin E
      BY <1>3, <2>1
    <2>3. x # t
      BY <1>1
    <2> QED
      BY <2>1, <2>2, <2>3
  <1>5. CASE S \cap R = {}
    <2>1. PICK x \in S : \A y \in S : <<x, y>> \notin E
      BY DEF Acyclic
    <2> QED
      BY <1>5, <2>1
  <1> QED
    BY <1>4, <1>5
=============================================================================
