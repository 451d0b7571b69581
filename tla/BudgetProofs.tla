---------------------------- MODULE BudgetProofs ----------------------------
(***************************************************************************)
(* The accounting of Budget for any sessions, requests, turn ids, limits,  *)
(* prices and number of days: the turns, and what the pools have spent,    *)
(* which is a sum over the requests.                                       *)
(***************************************************************************)
EXTENDS Budget, FiniteSetTheorems, WellFoundedInduction, TLAPS

-----------------------------------------------------------------------------
(* Sums over finite sets.                                                  *)

Below == {p \in Nat \X Nat : p[1] < p[2]}

LEMMA BelowIsWellFounded == IsWellFoundedOn(Below, Nat)
BY NatLessThanWellFounded DEF OpToRel, Below

\* Induction over the numbers, for a set: the provers cannot instantiate a predicate.
LEMMA Induction ==
  ASSUME NEW T \in SUBSET Nat, 0 \in T, \A n \in T : n + 1 \in T
  PROVE  T = Nat
<1> DEFINE U == Nat \ T
<1> SUFFICES ASSUME U # {} PROVE FALSE
  OBVIOUS
<1>1. PICK m \in U : \A y \in U : <<y, m>> \notin Below
  <2> U \subseteq Nat
    OBVIOUS
  <2> HIDE DEF U
  <2> QED
    BY BelowIsWellFounded, WFMin
<1>2. m \in Nat /\ m # 0 /\ m - 1 \in Nat
  OBVIOUS
<1>3. <<m - 1, m>> \in Below
  BY <1>2 DEF Below
<1>4. m - 1 \in T
  BY <1>1, <1>2, <1>3
<1>5. (m - 1) + 1 \in T
  BY <1>4
<1> QED
  BY <1>2, <1>5

\* How the fold takes a set apart.
First(s) == CHOOSE x \in s : TRUE
Fold(f, worth, s) == IF s = {} THEN 0 ELSE worth[First(s)] + f[s \ {First(s)}]
Folds(f, worth, S) == f = [s \in SUBSET S |-> Fold(f, worth, s)]

LEMMA TotalFolds ==
  \A worth, S : Total(worth, S) = (CHOOSE f : Folds(f, worth, S))[S]
BY DEF Total, MapThenSumSet, MapThenFoldSet, Folds, Fold, First

LEMMA Smaller ==
  ASSUME NEW s, IsFiniteSet(s), s # {}
  PROVE  /\ First(s) \in s /\ IsFiniteSet(s \ {First(s)})
         /\ Cardinality(s) \in Nat \ {0} /\ Cardinality(s \ {First(s)}) = Cardinality(s) - 1
<1>1. First(s) \in s
  BY DEF First
<1>2. Cardinality(s) # 0
  BY FS_EmptySet
<1> QED
  BY <1>1, <1>2, FS_RemoveElement, FS_CardinalityType

\* The folds of two sets agree where both are defined.
LEMMA FoldIsUnique ==
  ASSUME NEW worth, NEW S, NEW R, IsFiniteSet(S), NEW f, NEW g, Folds(f, worth, S), Folds(g, worth, R)
  PROVE  \A s \in SUBSET S : s \in SUBSET R => f[s] = g[s]
<1> DEFINE Ok(n) == \A s \in SUBSET S : s \in SUBSET R /\ Cardinality(s) = n => f[s] = g[s]
<1>f. \A s \in SUBSET S : IsFiniteSet(s) /\ Cardinality(s) \in Nat /\ f[s] = Fold(f, worth, s)
  BY FS_Subset, FS_CardinalityType DEF Folds
<1>g. \A s \in SUBSET R : g[s] = Fold(g, worth, s)
  BY DEF Folds
<1>1. Ok(0)
  <2> SUFFICES ASSUME NEW s \in SUBSET S, s \in SUBSET R, Cardinality(s) = 0 PROVE f[s] = g[s]
    OBVIOUS
  <2>1. s = {}
    BY <1>f, FS_EmptySet
  <2> QED
    BY <1>f, <1>g, <2>1 DEF Fold
<1>2. ASSUME NEW n \in Nat, Ok(n) PROVE Ok(n + 1)
  <2> SUFFICES ASSUME NEW s \in SUBSET S, s \in SUBSET R, Cardinality(s) = n + 1 PROVE f[s] = g[s]
    OBVIOUS
  <2>1. s # {}
    BY FS_EmptySet
  <2>2. Cardinality(s \ {First(s)}) = n
    BY <1>f, <2>1, Smaller
  <2>3. f[s \ {First(s)}] = g[s \ {First(s)}]
    BY <1>2, <2>2
  <2> QED
    BY <1>f, <1>g, <2>1, <2>3 DEF Fold
<1>3. \A n \in Nat : Ok(n)
  <2> HIDE DEF Ok
  <2> DEFINE T == {n \in Nat : Ok(n)}
  <2>1. T \in SUBSET Nat /\ 0 \in T /\ \A n \in T : n + 1 \in T
    BY <1>1, <1>2
  <2> HIDE DEF T
  <2>2. T = Nat
    BY <2>1, Induction
  <2> QED
    BY <2>2 DEF T
<1> QED
  BY <1>3, <1>f

\* There is a fold.
LEMMA FoldExists ==
  ASSUME NEW worth, NEW S, IsFiniteSet(S)
  PROVE  \E f : Folds(f, worth, S)
<1> DEFINE Upto(n) == {s \in SUBSET S : Cardinality(s) <= n}
           Part(f, n) == f = [s \in Upto(n) |-> Fold(f, worth, s)]
           Ok(n) == \E f : Part(f, n)
<1>f. \A s \in SUBSET S : IsFiniteSet(s) /\ Cardinality(s) \in Nat
  BY FS_Subset, FS_CardinalityType
<1>1. Ok(0)
  <2> DEFINE f == [s \in Upto(0) |-> 0]
  <2>1. \A s \in Upto(0) : s = {}
    BY <1>f, FS_EmptySet
  <2>2. Part(f, 0)
    BY <2>1 DEF Fold
  <2> QED
    BY <2>2
<1>2. ASSUME NEW n \in Nat, Ok(n) PROVE Ok(n + 1)
  <2>1. PICK f : Part(f, n)
    BY <1>2
  <2> DEFINE g == [s \in Upto(n + 1) |-> Fold(f, worth, s)]
  <2>2. \A s \in Upto(n + 1) : s # {} => s \ {First(s)} \in Upto(n)
    <3> TAKE s \in Upto(n + 1)
    <3> HAVE s # {}
    <3>1. Cardinality(s \ {First(s)}) = Cardinality(s) - 1
      BY <1>f, Smaller
    <3> QED
      BY <1>f, <3>1
  <2>3. \A s \in Upto(n) : s \in Upto(n + 1) /\ g[s] = f[s]
    BY <1>f, <2>1
  <2>4. \A s \in Upto(n + 1) : Fold(f, worth, s) = Fold(g, worth, s)
    <3> HIDE DEF g
    <3> QED
      BY <2>2, <2>3 DEF Fold
  <2>5. Part(g, n + 1)
    BY <2>4
  <2> HIDE DEF g, Part
  <2> QED
    BY <2>5
<1>3. \A n \in Nat : Ok(n)
  <2> HIDE DEF Ok
  <2> DEFINE T == {n \in Nat : Ok(n)}
  <2>1. T \in SUBSET Nat /\ 0 \in T /\ \A n \in T : n + 1 \in T
    BY <1>1, <1>2
  <2> HIDE DEF T
  <2>2. T = Nat
    BY <2>1, Induction
  <2> QED
    BY <2>2 DEF T
<1>4. PICK f : Part(f, Cardinality(S))
  BY <1>3, FS_CardinalityType
<1>5. Upto(Cardinality(S)) = SUBSET S
  BY <1>f, FS_Subset
<1> QED
  BY <1>4, <1>5 DEF Folds

LEMMA TotalStep ==
  ASSUME NEW worth, NEW S, IsFiniteSet(S)
  PROVE  Total(worth, S) = IF S = {} THEN 0
                           ELSE worth[First(S)] + Total(worth, S \ {First(S)})
<1> DEFINE f == CHOOSE f : Folds(f, worth, S)
           R == S \ {First(S)}
           g == CHOOSE g : Folds(g, worth, R)
<1>1. Folds(f, worth, S)
  BY FoldExists
<1>2. IsFiniteSet(R) /\ R \in SUBSET S
  BY FS_Subset
<1>3. Folds(g, worth, R)
  BY <1>2, FoldExists
<1>4. Total(worth, S) = f[S] /\ Total(worth, R) = g[R]
  BY TotalFolds
<1> HIDE DEF f, g
<1>5. f[R] = g[R]
  BY <1>1, <1>2, <1>3, FoldIsUnique
<1>6. f[S] = Fold(f, worth, S)
  BY <1>1 DEF Folds
<1> QED
  BY <1>4, <1>5, <1>6 DEF Fold

\* The laws of the sums: adding an element, types, and what a sum depends on.
LEMMA TotalEmpty == \A worth : Total(worth, {}) = 0
BY TotalStep, FS_EmptySet

LEMMA TotalAgrees ==
  ASSUME NEW v, NEW w, NEW S, IsFiniteSet(S), \A x \in S : v[x] = w[x]
  PROVE  Total(v, S) = Total(w, S)
<1> DEFINE Ok(n) == \A s \in SUBSET S : Cardinality(s) = n => Total(v, s) = Total(w, s)
<1>f. \A s \in SUBSET S : IsFiniteSet(s) /\ Cardinality(s) \in Nat
  BY FS_Subset, FS_CardinalityType
<1>1. Ok(0)
  BY <1>f, FS_EmptySet, TotalEmpty
<1>2. ASSUME NEW n \in Nat, Ok(n) PROVE Ok(n + 1)
  <2> SUFFICES ASSUME NEW s \in SUBSET S, Cardinality(s) = n + 1 PROVE Total(v, s) = Total(w, s)
    OBVIOUS
  <2>1. s # {}
    BY FS_EmptySet
  <2>2. Cardinality(s \ {First(s)}) = n /\ First(s) \in s
    BY <1>f, <2>1, Smaller
  <2>3. Total(v, s \ {First(s)}) = Total(w, s \ {First(s)})
    BY <1>2, <2>2
  <2>4. v[First(s)] = w[First(s)]
    BY <2>2
  <2> QED
    BY <1>f, <2>1, <2>3, <2>4, TotalStep
<1>3. \A n \in Nat : Ok(n)
  <2> HIDE DEF Ok
  <2> DEFINE T == {n \in Nat : Ok(n)}
  <2>1. T \in SUBSET Nat /\ 0 \in T /\ \A n \in T : n + 1 \in T
    BY <1>1, <1>2
  <2> HIDE DEF T
  <2>2. T = Nat
    BY <2>1, Induction
  <2> QED
    BY <2>2 DEF T
<1> QED
  BY <1>3, <1>f

LEMMA TotalIsNat ==
  ASSUME NEW w, NEW S, IsFiniteSet(S), \A x \in S : w[x] \in Nat
  PROVE  Total(w, S) \in Nat
<1> DEFINE Ok(n) == \A s \in SUBSET S : Cardinality(s) = n => Total(w, s) \in Nat
<1>f. \A s \in SUBSET S : IsFiniteSet(s) /\ Cardinality(s) \in Nat
  BY FS_Subset, FS_CardinalityType
<1>1. Ok(0)
  BY <1>f, FS_EmptySet, TotalEmpty
<1>2. ASSUME NEW n \in Nat, Ok(n) PROVE Ok(n + 1)
  <2> SUFFICES ASSUME NEW s \in SUBSET S, Cardinality(s) = n + 1 PROVE Total(w, s) \in Nat
    OBVIOUS
  <2>1. s # {}
    BY FS_EmptySet
  <2>2. Cardinality(s \ {First(s)}) = n /\ First(s) \in s
    BY <1>f, <2>1, Smaller
  <2>3. Total(w, s \ {First(s)}) \in Nat
    BY <1>2, <2>2
  <2>4. w[First(s)] \in Nat
    BY <2>2
  <2>5. Total(w, s) = w[First(s)] + Total(w, s \ {First(s)})
    BY <1>f, <2>1, TotalStep
  <2> QED
    BY <2>3, <2>4, <2>5
<1>3. \A n \in Nat : Ok(n)
  <2> HIDE DEF Ok
  <2> DEFINE T == {n \in Nat : Ok(n)}
  <2>1. T \in SUBSET Nat /\ 0 \in T /\ \A n \in T : n + 1 \in T
    BY <1>1, <1>2
  <2> HIDE DEF T
  <2>2. T = Nat
    BY <2>1, Induction
  <2> QED
    BY <2>2 DEF T
<1> QED
  BY <1>3, <1>f

LEMMA TotalAdds ==
  ASSUME NEW w, NEW X, IsFiniteSet(X), \A x \in X : w[x] \in Nat
  PROVE  \A S \in SUBSET X : \A x \in X \ S : Total(w, S \cup {x}) = w[x] + Total(w, S)
<1> DEFINE Ok(n) == \A s \in SUBSET X : \A x \in X \ s :
                       Cardinality(s) = n => Total(w, s \cup {x}) = w[x] + Total(w, s)
<1>f. \A s \in SUBSET X : IsFiniteSet(s) /\ Cardinality(s) \in Nat /\ Total(w, s) \in Nat
  BY FS_Subset, FS_CardinalityType, TotalIsNat
<1>a. ASSUME NEW s \in SUBSET X, NEW x \in X \ s, First(s \cup {x}) = x
      PROVE  Total(w, s \cup {x}) = w[x] + Total(w, s)
  <2>1. IsFiniteSet(s \cup {x}) /\ s \cup {x} # {} /\ (s \cup {x}) \ {x} = s
    BY <1>f
  <2> QED
    BY <1>a, <2>1, TotalStep
<1>1. Ok(0)
  <2> SUFFICES ASSUME NEW s \in SUBSET X, NEW x \in X \ s, Cardinality(s) = 0
               PROVE  Total(w, s \cup {x}) = w[x] + Total(w, s)
    OBVIOUS
  <2>1. s = {}
    BY <1>f, FS_EmptySet
  <2>2. First(s \cup {x}) = x
    BY <2>1 DEF First
  <2> QED
    BY <1>a, <2>2
<1>2. ASSUME NEW n \in Nat, Ok(n) PROVE Ok(n + 1)
  <2> SUFFICES ASSUME NEW s \in SUBSET X, NEW x \in X \ s, Cardinality(s) = n + 1
               PROVE  Total(w, s \cup {x}) = w[x] + Total(w, s)
    OBVIOUS
  <2> DEFINE y == First(s \cup {x})
             r == s \ {y}
  <2>1. y \in s \cup {x}
    BY DEF First
  <2>2. CASE y = x
    BY <1>a, <2>2
  <2>3. CASE y # x
    <3>1. y \in s /\ r \in SUBSET X /\ x \in X \ r /\ y \in X \ r /\ r \cup {y} = s
          /\ (s \cup {x}) \ {y} = r \cup {x}
      BY <2>1, <2>3
    <3>2. Cardinality(r) = n
      <4> HIDE DEF y
      <4>1. Cardinality(r) = Cardinality(s) - 1
        BY <1>f, <3>1, FS_RemoveElement
      <4> QED
        BY <4>1
    <3>3. Total(w, r \cup {x}) = w[x] + Total(w, r) /\ Total(w, s) = w[y] + Total(w, r)
      BY <1>2, <3>1, <3>2
    <3>4. IsFiniteSet(s \cup {x}) /\ s \cup {x} # {}
      BY <1>f, FS_AddElement
    <3>5. Total(w, s \cup {x}) = w[y] + Total(w, (s \cup {x}) \ {y})
      BY <3>4, TotalStep
    <3>6. w[y] \in Nat /\ w[x] \in Nat /\ Total(w, r) \in Nat
      BY <1>f, <3>1
    <3> HIDE DEF y, r
    <3> QED
      BY <3>1, <3>3, <3>5, <3>6
  <2> QED
    BY <2>2, <2>3
<1>3. \A n \in Nat : Ok(n)
  <2> HIDE DEF Ok
  <2> DEFINE T == {n \in Nat : Ok(n)}
  <2>1. T \in SUBSET Nat /\ 0 \in T /\ \A n \in T : n + 1 \in T
    BY <1>1, <1>2
  <2> HIDE DEF T
  <2>2. T = Nat
    BY <2>1, Induction
  <2> QED
    BY <2>2 DEF T
<1> QED
  BY <1>3, <1>f

\* A sum whose set and weights change at one element.
LEMMA TotalChanges ==
  ASSUME NEW X, IsFiniteSet(X), NEW v, NEW w, \A x \in X : v[x] \in Nat /\ w[x] \in Nat,
         NEW S \in SUBSET X, NEW R \in SUBSET X, NEW x \in X,
         S \ {x} = R \ {x}, \A y \in S \ {x} : v[y] = w[y]
  PROVE  /\ Total(v, S) \in Nat /\ Total(w, R) \in Nat
         /\ Total(w, R) - (IF x \in R THEN w[x] ELSE 0) = Total(v, S) - (IF x \in S THEN v[x] ELSE 0)
         /\ Total(w, R) >= (IF x \in R THEN w[x] ELSE 0)
         /\ Total(v, S) >= (IF x \in S THEN v[x] ELSE 0)
<1> DEFINE Q == S \ {x}
<1>1. Q \in SUBSET X /\ x \in X \ Q /\ IsFiniteSet(Q)
  BY FS_Subset
<1>2. Total(v, Q) = Total(w, Q) /\ Total(v, Q) \in Nat
  BY <1>1, TotalAgrees, TotalIsNat
<1>3. Total(v, Q \cup {x}) = v[x] + Total(v, Q) /\ Total(w, Q \cup {x}) = w[x] + Total(w, Q)
  BY <1>1, TotalAdds
<1>4. /\ x \in S => S = Q \cup {x}
      /\ x \notin S => S = Q
      /\ x \in R => R = Q \cup {x}
      /\ x \notin R => R = Q
  OBVIOUS
<1> HIDE DEF Q
<1>5. Total(v, S) = Total(v, Q) + (IF x \in S THEN v[x] ELSE 0)
  BY <1>2, <1>3, <1>4
<1>6. Total(w, R) = Total(w, Q) + (IF x \in R THEN w[x] ELSE 0)
  BY <1>2, <1>3, <1>4
<1> QED
  BY <1>2, <1>5, <1>6

-----------------------------------------------------------------------------
(* The inductive invariant.                                                *)

\* A one-shot that tries again has an attempt left.
TriesLeft ==
    \A o \in OneShots : shot[o].pc \in {"reserving", "calling", "settling"} => shot[o].tries < MaxTries

\* A request that was admitted has a session and a turn.
CallsAreKnown ==
    \A c \in Calls : call[c].pc \notin {"idle", "refused"} =>
        call[c].sid \in Sessions /\ call[c].turn \in Turns

\* No row is of a day to come.
DaysArePast ==
    /\ \A s \in Sessions : sessions[s].day = None \/ sessions[s].day <= today
    /\ \A s \in Sessions, p \in Personas : personas[s][p].day = None \/ personas[s][p].day <= today
    /\ \A c \in Calls : call[c].day <= today

\* Where requests never overlapped, one runs at most, and the session row is about it:
\* nobody else can settle, undo or replace it.
OneRunner == \A s \in Sessions \ mixed : \A c, d \in Running(s) : c = d
RunnerHasRow ==
    \A s \in Sessions \ mixed : \A c \in Running(s) :
        /\ sessions[s].turn = call[c].turn /\ sessions[s].day = call[c].day
        /\ sessions[s].result = IF call[c].pc = "running" THEN None ELSE call[c].turn
ResultIsOwn == \A s \in Sessions \ mixed : sessions[s].result \in {None, sessions[s].turn}

\* A row of today that holds the turn of a running request counts this request.
NoStaleTwin ==
    ~MayRetryAcrossMidnight =>
        \A s \in Sessions : \A c \in Running(s) :
            Holds(s, call[c].turn) => call[c].day = today

\* The row's count covers what was admitted today, also with overlapping requests: a
\* turn is given back at most once for each request that failed.
TurnsCover ==
    ~MayRetryAcrossMidnight /\ (mixed = {} \/ ~SettleLost) =>
        \A s \in Sessions : Cardinality(AdmittedToday(s)) <= TurnsToday(s)

\* Whoever was admitted today has a persona row of today.
PersonaIsCounted ==
    \A s \in Sessions : \A c \in AdmittedToday(s) :
        personas[s][PersonaOf[call[c].turn]].day = today

ChatInv ==
    /\ CallsAreKnown /\ DaysArePast
    /\ OneRunner /\ RunnerHasRow /\ ResultIsOwn
    /\ NoStaleTwin /\ TurnsCover /\ PersonaIsCounted
    /\ InFlightHasOwner /\ OwnAnswerWhenSequential /\ DebriefCountsTurns

BudgetInv == BudgetTypeOK /\ TriesLeft /\ ChatInv

-----------------------------------------------------------------------------
(* Types.                                                                  *)

USE BudgetAssumption

LEMMA UpdateKeepsType ==
  ASSUME NEW S, NEW T, NEW f \in [S -> T], NEW x, NEW v, x \in S => v \in T
  PROVE  [f EXCEPT ![x] = v] \in [S -> T]
OBVIOUS

LEMMA RolloverTypes ==
  ASSUME BudgetTypeOK
  PROVE  /\ Spent \in [Pools -> Nat]
         /\ Swept \in [OneShots -> ShotRows]
         /\ \A p : \A r \in {0, Reserve} : \A cost \in 0..Reserve :
               Adjusted(p, r, cost) \in [Pools -> Nat]
<1>1. Spent \in [Pools -> Nat]
  BY DEF BudgetTypeOK, Budgets, Spent
<1>2. Swept \in [OneShots -> ShotRows]
  BY DEF BudgetTypeOK, ShotRows, Swept
<1>3. ASSUME NEW p, NEW r \in {0, Reserve}, NEW cost \in 0..Reserve
      PROVE  Adjusted(p, r, cost) \in [Pools -> Nat]
  <2> DEFINE rest == IF Spent[p] - r + cost < 0 THEN 0 ELSE Spent[p] - r + cost
  <2>1. p \in Pools => rest \in Nat
    BY <1>1, <1>3
  <2>2. Adjusted(p, r, cost) = [Spent EXCEPT ![p] = rest]
    BY DEF Adjusted
  <2> HIDE DEF rest
  <2> QED
    BY <1>1, <2>1, <2>2, UpdateKeepsType
<1> QED
  BY <1>1, <1>2, <1>3

\* What an action does to each table keeps its type.
LEMMA BookKeepsType ==
  ASSUME BudgetTypeOK, today' = today, NEW spent \in [Pools -> Nat], Book(spent)
  PROVE  budget' \in Budgets
BY DEF BudgetTypeOK, Budgets, Book

LEMMA GivenBackIsRow ==
  ASSUME NEW row \in SessionRows
  PROVE  GivenBack(row) \in SessionRows
<1>1. Less(row.turns) \in 0..MaxTurns
  BY DEF SessionRows, Less
<1> QED
  BY <1>1 DEF GivenBack, SessionRows

LEMMA InitIsTyped == Init => BudgetTypeOK /\ TriesLeft
<1> SUFFICES ASSUME Init PROVE BudgetTypeOK /\ TriesLeft
  OBVIOUS
<1>1. BudgetTypeOK
  BY DEF Init, Days, BudgetTypeOK, Budgets, SessionRows, PersonaRows, ShotRows, CallStates, ShotStates,
         CritiqueStates
<1>2. TriesLeft
  BY DEF Init, TriesLeft
<1> QED
  BY <1>1, <1>2

LEMMA SettleRowTypes ==
  ASSUME BudgetTypeOK, CallsAreKnown, today' = today, NEW c \in Calls, NEW cost \in 0..Reserve,
         call[c].pc \notin {"idle", "refused"}, SettleRow(c, cost)
  PROVE  /\ budget' \in Budgets /\ sessions' \in [Sessions -> SessionRows]
         /\ shots' \in [OneShots -> ShotRows]
<1> DEFINE s == call[c].sid
           row == sessions[s]
           released == IF Holds(s, call[c].turn) THEN row.reserve ELSE 0
<1>1. s \in Sessions /\ call[c].turn \in Turns /\ row \in SessionRows
  BY DEF CallsAreKnown, BudgetTypeOK
<1>2. released \in {0, Reserve}
  BY <1>1 DEF SessionRows
<1>3. budget' \in Budgets
  <2>1. Adjusted(BilledPool(row), released, cost) \in [Pools -> Nat]
    BY <1>2, RolloverTypes
  <2> QED
    BY <2>1, BookKeepsType DEF SettleRow
<1>4. sessions' \in [Sessions -> SessionRows]
  <2>1. sessions' = [sessions EXCEPT ![s] = [row EXCEPT !.reserve = 0, !.result = call[c].turn]]
    BY DEF SettleRow
  <2>2. [row EXCEPT !.reserve = 0, !.result = call[c].turn] \in SessionRows
    BY <1>1 DEF SessionRows
  <2> QED
    BY <2>1, <2>2, UpdateKeepsType DEF BudgetTypeOK
<1>5. shots' \in [OneShots -> ShotRows]
  BY RolloverTypes DEF SettleRow
<1> QED
  BY <1>3, <1>4, <1>5

LEMMA FailRowTypes ==
  ASSUME BudgetTypeOK, CallsAreKnown, today' = today, NEW c \in Calls, NEW cost \in 0..Reserve,
         call[c].pc \notin {"idle", "refused"}, FailRow(c, cost)
  PROVE  /\ budget' \in Budgets /\ sessions' \in [Sessions -> SessionRows]
         /\ personas' \in [Sessions -> [Personas -> PersonaRows]]
         /\ shots' \in [OneShots -> ShotRows]
<1> DEFINE s == call[c].sid
           row == sessions[s]
           p == PersonaOf[call[c].turn]
<1>1. /\ s \in Sessions /\ call[c].turn \in Turns /\ row \in SessionRows
      /\ p \in Personas /\ personas[s] \in [Personas -> PersonaRows]
  BY DEF CallsAreKnown, BudgetTypeOK
<1>2. shots' \in [OneShots -> ShotRows]
  BY RolloverTypes DEF FailRow
<1>3. CASE ~Undoable(c)
  <2>1. budget' \in Budgets
    BY <1>3, RolloverTypes, BookKeepsType DEF FailRow
  <2> QED
    BY <1>2, <1>3, <2>1 DEF FailRow, store, BudgetTypeOK
<1>4. CASE Undoable(c)
  <2>1. budget' \in Budgets
    <3>1. row.reserve \in {0, Reserve}
      BY <1>1 DEF SessionRows
    <3>2. Adjusted(BilledPool(row), row.reserve, cost) \in [Pools -> Nat]
      BY <3>1, RolloverTypes
    <3> QED
      BY <1>4, <3>2, BookKeepsType DEF FailRow
  <2>2. sessions' \in [Sessions -> SessionRows]
    BY <1>1, <1>4, GivenBackIsRow, UpdateKeepsType DEF FailRow, BudgetTypeOK
  <2>3. personas' \in [Sessions -> [Personas -> PersonaRows]]
    <3>1. personas' = Uncounted(s, p)
      BY <1>4 DEF FailRow
    <3>2. Less(personas[s][p].turns) \in Nat
      BY <1>1 DEF PersonaRows, Less
    <3> DEFINE fewer == Less(personas[s][p].turns)
    <3>3. personas[s][p] \in PersonaRows
      BY <1>1
    <3>4. personas' \in {personas, [personas EXCEPT ![s] = [personas[s] EXCEPT ![p] =
                                        [personas[s][p] EXCEPT !.turns = fewer]]]}
      BY <3>1 DEF Uncounted
    <3> HIDE DEF fewer
    <3>5. [personas[s][p] EXCEPT !.turns = fewer] \in PersonaRows
      BY <3>2, <3>3 DEF PersonaRows, fewer
    <3> QED
      BY <1>1, <3>4, <3>5 DEF BudgetTypeOK
  <2> QED
    BY <1>2, <2>1, <2>2, <2>3
<1> QED
  BY <1>3, <1>4

LEMMA ChatKeepsTypes ==
  ASSUME BudgetTypeOK, CallsAreKnown, NEW c \in Calls, ChatStep(c)
  PROVE  BudgetTypeOK'
<1> USE DEF BudgetTypeOK
<1>0. call[c] \in CallStates
  OBVIOUS
<1>1. ASSUME NEW s \in Sessions, NEW t \in Turns, Replay(c, s, t) PROVE BudgetTypeOK'
  <2>1. sessions[s].result \in Turns
    BY <1>1 DEF Replay, SessionRows
  <2> DEFINE new == [call[c] EXCEPT !.pc = "replayed", !.sid = s, !.turn = t,
                                     !.answer = sessions[s].result]
  <2>2. new \in CallStates
    BY <2>1, <1>0 DEF CallStates
  <2>3. call' = [call EXCEPT ![c] = new]
    BY <1>1 DEF Replay
  <2>4. call' \in [Calls -> CallStates]
    BY <2>2, <2>3, UpdateKeepsType
  <2> QED
    BY <1>1, <2>4, RolloverTypes, BookKeepsType DEF Replay, store
<1>2. ASSUME NEW s \in Sessions, NEW t \in Turns, Refuse(c, s, t) PROVE BudgetTypeOK'
  <2> DEFINE new == [call[c] EXCEPT !.pc = "refused"]
  <2>0. new \in CallStates /\ call' = [call EXCEPT ![c] = new]
    BY <1>0, <1>2 DEF CallStates, Refuse
  <2>1. call' \in [Calls -> CallStates]
    BY <2>0, UpdateKeepsType
  <2> QED
    BY <1>2, <2>1, RolloverTypes, BookKeepsType DEF Refuse, store
<1>3. ASSUME NEW s \in Sessions, NEW t \in Turns, Admit(c, s, t) PROVE BudgetTypeOK'
  <2>1. TurnsToday(s) + 1 \in 0..MaxTurns /\ ReserveOf(c) \in {0, Reserve} /\ PoolOf[s] \in Pools
    BY <1>3 DEF Admit, TurnsLeft, TurnsToday, SessionRows, ReserveOf
  <2>2. Entered(s, t, c) \in SessionRows
    BY <2>1 DEF Entered, SessionRows
  <2>3. sessions' \in [Sessions -> SessionRows]
    BY <1>3, <2>2, UpdateKeepsType DEF Admit
  <2>4. personas' \in [Sessions -> [Personas -> PersonaRows]]
    <3>1. PersonaOf[t] \in Personas
      OBVIOUS
    <3>2. /\ personas[s][PersonaOf[t]].turns + 1 \in Nat
          /\ personas[s] \in [Personas -> PersonaRows]
      BY <3>1 DEF PersonaRows
    <3> DEFINE new == [day |-> today, turns |-> IF personas[s][PersonaOf[t]].day = today
                                                THEN personas[s][PersonaOf[t]].turns + 1 ELSE 1]
    <3>3. new \in PersonaRows
      BY <3>2 DEF PersonaRows
    <3>4. personas' = [personas EXCEPT ![s] = [personas[s] EXCEPT ![PersonaOf[t]] = new]]
      BY <1>3 DEF Admit, Counted
    <3> HIDE DEF new
    <3> QED
      BY <3>1, <3>2, <3>3, <3>4
  <2>5. call' \in [Calls -> CallStates]
    <3> DEFINE new == [call[c] EXCEPT !.pc = "running", !.sid = s, !.turn = t, !.day = today]
    <3>1. new \in CallStates
      BY <1>0 DEF CallStates
    <3>2. call' = [call EXCEPT ![c] = new]
      BY <1>3 DEF Admit
    <3> QED
      BY <3>1, <3>2, UpdateKeepsType
  <2>6. Reserved(s, c) \in [Pools -> Nat]
    <3>1. 0 \in {0, Reserve} /\ ReserveOf(c) \in 0..Reserve
      BY <2>1
    <3> QED
      BY <3>1, RolloverTypes DEF Reserved
  <2>7. mixed' \subseteq Sessions
    BY <1>3 DEF Admit
  <2> QED
    BY <1>3, <2>3, <2>4, <2>5, <2>6, <2>7, RolloverTypes, BookKeepsType DEF Admit
<1>4. ASSUME NEW cost \in Costs \cup {0}, Settle(c, cost) \/ SettleUnacknowledged(c, cost)
      PROVE  BudgetTypeOK'
  <2>1. cost \in 0..Reserve /\ call[c].pc = "running" /\ SettleRow(c, cost) /\ today' = today
    BY <1>4 DEF Settle, SettleUnacknowledged
  <2> DEFINE done == [call[c] EXCEPT !.pc = "settled", !.cost = cost, !.end = today,
                                      !.answer = call[c].turn]
             open == [call[c] EXCEPT !.pc = "unsure", !.cost = cost, !.end = today]
  <2>2. done \in CallStates /\ open \in CallStates
    BY <1>0, <2>1 DEF CallStates
  <2>3. call' = [call EXCEPT ![c] = done] \/ call' = [call EXCEPT ![c] = open]
    BY <1>4 DEF Settle, SettleUnacknowledged
  <2>4. call' \in [Calls -> CallStates]
    BY <2>2, <2>3, UpdateKeepsType
  <2> QED
    BY <1>4, <2>1, <2>4, SettleRowTypes DEF Settle, SettleUnacknowledged
<1>5. ASSUME NEW cost \in Costs \cup {0}, Fail(c, cost) PROVE BudgetTypeOK'
  <2>1. cost \in 0..Reserve /\ call[c].pc = "running" /\ FailRow(c, cost) /\ today' = today
    BY <1>5 DEF Fail
  <2> DEFINE new == [call[c] EXCEPT !.pc = "failed", !.cost = cost, !.end = today]
  <2>2. new \in CallStates
    BY <1>0, <2>1 DEF CallStates
  <2>3. call' = [call EXCEPT ![c] = new]
    BY <1>5 DEF Fail
  <2>4. call' \in [Calls -> CallStates]
    BY <2>2, <2>3, UpdateKeepsType
  <2> QED
    BY <1>5, <2>1, <2>4, FailRowTypes DEF Fail
<1>6. CASE FailAfterSettle(c)
  <2>1. call[c].cost \in 0..Reserve /\ call[c].pc = "unsure" /\ FailRow(c, call[c].cost) /\ today' = today
    BY <1>6 DEF FailAfterSettle, CallStates
  <2>2. call' \in [Calls -> CallStates]
    BY <1>6 DEF FailAfterSettle, CallStates
  <2> QED
    BY <1>6, <2>1, <2>2, FailRowTypes DEF FailAfterSettle
<1>7. CASE Vanish(c)
  <2>1. call' \in [Calls -> CallStates]
    BY <1>7 DEF Vanish, CallStates
  <2> QED
    BY <1>7, <2>1 DEF Vanish, store
<1> QED
  BY <1>1, <1>2, <1>3, <1>4, <1>5, <1>6, <1>7 DEF ChatStep

\* A one-shot handler stays well formed when it is moved on, with an attempt left.
LEMMA ShotMoves ==
  ASSUME BudgetTypeOK, TriesLeft, NEW o \in OneShots, NEW new,
         new \in ShotStates, new.pc \in {"reserving", "calling", "settling"} => new.tries < MaxTries,
         shot' = [shot EXCEPT ![o] = new]
  PROVE  shot' \in [OneShots -> ShotStates] /\ TriesLeft'
BY DEF BudgetTypeOK, TriesLeft

LEMMA ShotRetries ==
  ASSUME BudgetTypeOK, TriesLeft, NEW o \in OneShots, NEW pc \in {"reserving", "settling"},
         shot[o].pc = pc,
         shot' = [shot EXCEPT ![o] = [shot[o] EXCEPT !.tries = shot[o].tries + 1,
                    !.pc = IF shot[o].tries + 1 = MaxTries THEN "gave_up" ELSE pc]]
  PROVE  shot' \in [OneShots -> ShotStates] /\ TriesLeft'
<1> DEFINE n == shot[o].tries + 1
           pc2 == IF n = MaxTries THEN "gave_up" ELSE pc
           new == [shot[o] EXCEPT !.tries = n, !.pc = pc2]
<1>1. shot[o] \in ShotStates
  BY DEF BudgetTypeOK
<1>2. n \in 0..MaxTries
  BY <1>1 DEF TriesLeft, ShotStates
<1>3. pc2 \in {"reserving", "settling", "gave_up"} /\ (pc2 # "gave_up" => n < MaxTries)
  BY <1>2
<1>4. shot' = [shot EXCEPT ![o] = new]
  OBVIOUS
<1> HIDE DEF n, pc2
<1>5. new \in ShotStates
  BY <1>1, <1>2, <1>3 DEF ShotStates
<1>6. new.tries = n /\ new.pc = pc2
  BY <1>1 DEF ShotStates
<1> HIDE DEF new
<1>7. new.pc \in {"reserving", "calling", "settling"} => new.tries < MaxTries
  BY <1>3, <1>6
<1> QED
  BY <1>4, <1>5, <1>7, ShotMoves

LEMMA ShotKeepsTypes ==
  ASSUME BudgetTypeOK, TriesLeft, NEW o \in OneShots, ShotStep(o)
  PROVE  BudgetTypeOK' /\ TriesLeft'
<1>0. shot[o] \in ShotStates /\ PoolOf[o] \in Pools /\ Reserve \in 0..Reserve /\ 0 \in {0, Reserve}
  BY DEF BudgetTypeOK
<1>1. /\ Adjusted(PoolOf[o], 0, Reserve) \in [Pools -> Nat]
      /\ Adjusted(PoolOf[o], Reserve, shot[o].cost) \in [Pools -> Nat]
      /\ Spent \in [Pools -> Nat]
  BY <1>0, RolloverTypes DEF ShotStates
<1>2. /\ Swept \in [OneShots -> ShotRows]
      /\ [Swept EXCEPT ![o] = [row |-> "reserved", day |-> today]] \in [OneShots -> ShotRows]
      /\ [Swept EXCEPT ![o].row = "settled"] \in [OneShots -> ShotRows]
  BY RolloverTypes DEF BudgetTypeOK, ShotRows
<1>3. ASSUME today' = today, ReserveRow(o) \/ SettleShotRow(o) \/ (Book(Spent) /\ shots' = Swept)
      PROVE  budget' \in Budgets /\ shots' \in [OneShots -> ShotRows]
  BY <1>1, <1>2, <1>3, BookKeepsType DEF ReserveRow, SettleShotRow
<1>4. ASSUME NEW pc \in {"calling", "refused", "done"},
             shot' = [shot EXCEPT ![o] = [shot[o] EXCEPT !.pc = pc, !.tries = 0]]
      PROVE  shot' \in [OneShots -> ShotStates] /\ TriesLeft'
  <2> DEFINE new == [shot[o] EXCEPT !.pc = pc, !.tries = 0]
  <2>1. 0 \in 0..MaxTries /\ 0 < MaxTries
    OBVIOUS
  <2>2. new \in ShotStates /\ new.tries = 0
    BY <1>0, <2>1 DEF ShotStates
  <2>3. shot' = [shot EXCEPT ![o] = new]
    BY <1>4
  <2> HIDE DEF new
  <2> QED
    BY <2>1, <2>2, <2>3, ShotMoves
<1>5. CASE ReserveShot(o)
  <2>1. shot' = [shot EXCEPT ![o] = [shot[o] EXCEPT !.pc = "calling", !.tries = 0]]
    BY <1>5 DEF ReserveShot
  <2>2. shot' \in [OneShots -> ShotStates] /\ TriesLeft'
    BY <1>4, <2>1
  <2> QED
    BY <1>3, <1>5, <2>2 DEF ReserveShot, BudgetTypeOK, store
<1>6. CASE ReserveUnacknowledged(o)
  <2>1. shot[o].pc = "reserving" /\ shot' = [shot EXCEPT ![o] = [shot[o] EXCEPT
          !.tries = shot[o].tries + 1,
          !.pc = IF shot[o].tries + 1 = MaxTries THEN "gave_up" ELSE "reserving"]]
    BY <1>6 DEF ReserveUnacknowledged
  <2>2. shot' \in [OneShots -> ShotStates] /\ TriesLeft'
    BY <2>1, ShotRetries
  <2> QED
    BY <1>3, <1>6, <2>2 DEF ReserveUnacknowledged, BudgetTypeOK, store
<1>7. CASE RefuseShot(o)
  <2>1. shot' = [shot EXCEPT ![o] = [shot[o] EXCEPT !.pc = "refused", !.tries = 0]]
    BY <1>7 DEF RefuseShot
  <2>2. shot' \in [OneShots -> ShotStates] /\ TriesLeft'
    BY <1>4, <2>1
  <2> QED
    BY <1>3, <1>7, <2>2 DEF RefuseShot, BudgetTypeOK, store
<1>8. ASSUME NEW cost \in Costs \cup {0}, ShotAnswered(o, cost) PROVE BudgetTypeOK' /\ TriesLeft'
  <2> DEFINE new == [shot[o] EXCEPT !.pc = "settling", !.cost = cost]
  <2>0. cost \in 0..Reserve
    OBVIOUS
  <2>1. new \in ShotStates /\ new.tries = shot[o].tries
    BY <1>0, <2>0 DEF ShotStates
  <2>2. shot[o].tries < MaxTries /\ shot' = [shot EXCEPT ![o] = new]
    BY <1>8 DEF ShotAnswered, TriesLeft
  <2> HIDE DEF new
  <2>3. shot' \in [OneShots -> ShotStates] /\ TriesLeft'
    BY <2>1, <2>2, ShotMoves
  <2> QED
    BY <1>8, <2>3 DEF ShotAnswered, BudgetTypeOK, store
<1>9. CASE SettleShot(o)
  <2>1. shot' = [shot EXCEPT ![o] = [shot[o] EXCEPT !.pc = "done", !.tries = 0]]
    BY <1>9 DEF SettleShot
  <2>2. shot' \in [OneShots -> ShotStates] /\ TriesLeft'
    BY <1>4, <2>1
  <2> QED
    BY <1>3, <1>9, <2>2 DEF SettleShot, BudgetTypeOK, store
<1>10. CASE SettleShotUnacknowledged(o)
  <2>1. shot[o].pc = "settling" /\ shot' = [shot EXCEPT ![o] = [shot[o] EXCEPT
          !.tries = shot[o].tries + 1,
          !.pc = IF shot[o].tries + 1 = MaxTries THEN "gave_up" ELSE "settling"]]
    BY <1>10 DEF SettleShotUnacknowledged
  <2>2. shot' \in [OneShots -> ShotStates] /\ TriesLeft'
    BY <2>1, ShotRetries
  <2> QED
    BY <1>3, <1>10, <2>2 DEF SettleShotUnacknowledged, BudgetTypeOK, store
<1> QED
  BY <1>5, <1>6, <1>7, <1>8, <1>9, <1>10 DEF ShotStep

LEMMA CritiqueKeepsTypes ==
  ASSUME BudgetTypeOK, NEW k \in Critiques, CritiqueStep(k)
  PROVE  BudgetTypeOK'
<1>0. critique[k] \in CritiqueStates /\ 0 \in {0, Reserve}
  BY DEF BudgetTypeOK
<1>1. CASE CheckPool(k)
  <2> DEFINE pc == IF Spent[PoolOf[k]] < Cap THEN "gated" ELSE "refused"
             new == [critique[k] EXCEPT !.pc = pc]
  <2>1. pc \in {"gated", "refused"}
    OBVIOUS
  <2>2. critique' = [critique EXCEPT ![k] = new]
    BY <1>1 DEF CheckPool
  <2> HIDE DEF pc
  <2>3. new \in CritiqueStates
    BY <1>0, <2>1 DEF CritiqueStates
  <2>4. critique' \in [Critiques -> CritiqueStates]
    BY <2>2, <2>3, UpdateKeepsType DEF BudgetTypeOK
  <2> QED
    BY <1>1, <2>4, RolloverTypes, BookKeepsType DEF CheckPool, BudgetTypeOK, store
<1>2. ASSUME NEW cost \in Costs, Charge(k, cost) PROVE BudgetTypeOK'
  <2>1. [pc |-> "charged", cost |-> cost, day |-> today] \in CritiqueStates
    BY DEF CritiqueStates, BudgetTypeOK
  <2>2. critique' \in [Critiques -> CritiqueStates]
    BY <1>2, <2>1, UpdateKeepsType DEF Charge, BudgetTypeOK
  <2>3. Adjusted(PoolOf[k], 0, cost) \in [Pools -> Nat]
    BY <1>0, RolloverTypes
  <2> QED
    BY <1>2, <2>2, <2>3, RolloverTypes, BookKeepsType DEF Charge, BudgetTypeOK, store
<1> QED
  BY <1>1, <1>2 DEF CritiqueStep

LEMMA StepKeepsTypes ==
  ASSUME BudgetTypeOK, TriesLeft, CallsAreKnown, [Next]_vars
  PROVE  BudgetTypeOK' /\ TriesLeft'
<1>1. ASSUME NEW c \in Calls, ChatStep(c) PROVE BudgetTypeOK' /\ TriesLeft'
  <2>1. shot' = shot
    BY <1>1 DEF ChatStep, Replay, Refuse, Admit, Settle, SettleUnacknowledged, Fail,
                FailAfterSettle, Vanish
  <2> QED
    BY <1>1, <2>1, ChatKeepsTypes DEF TriesLeft
<1>2. ASSUME NEW k \in Critiques, CritiqueStep(k) PROVE BudgetTypeOK' /\ TriesLeft'
  <2>1. shot' = shot
    BY <1>2 DEF CritiqueStep, CheckPool, Charge
  <2> QED
    BY <1>2, <2>1, CritiqueKeepsTypes DEF TriesLeft
<1>3. CASE Midnight
  <2>1. today' \in Days
    BY <1>3 DEF Midnight, BudgetTypeOK, Days
  <2> QED
    BY <1>3, <2>1 DEF Midnight, BudgetTypeOK, TriesLeft, store
<1>4. CASE UNCHANGED vars
  BY <1>4 DEF vars, BudgetTypeOK, TriesLeft
<1> QED
  BY <1>1, <1>2, <1>3, <1>4, ShotKeepsTypes DEF Next

-----------------------------------------------------------------------------
(* The sets of requests the invariant counts.                              *)

LEMMA OneLess ==
  ASSUME NEW S, IsFiniteSet(S), NEW x
  PROVE  /\ Cardinality(S \ {x}) <= Cardinality(S)
         /\ x \in S => Cardinality(S \ {x}) = Cardinality(S) - 1
<1>1. Cardinality(S) \in Nat
  BY FS_CardinalityType
<1>2. Cardinality(S \ {x}) = IF x \in S THEN Cardinality(S) - 1 ELSE Cardinality(S)
  BY FS_RemoveElement
<1> QED
  BY <1>1, <1>2

LEMMA AdmittedFinite ==
  /\ \A s : IsFiniteSet(AdmittedToday(s)) /\ Cardinality(AdmittedToday(s)) \in Nat
  /\ \A s, p : IsFiniteSet(AdmittedFor(s, p)) /\ Cardinality(AdmittedFor(s, p)) \in Nat
<1>1. ASSUME NEW S \in SUBSET Calls PROVE IsFiniteSet(S) /\ Cardinality(S) \in Nat
  BY FS_Subset, FS_CardinalityType
<1>2. \A s : AdmittedToday(s) \subseteq Calls
  BY DEF AdmittedToday
<1>3. \A s, p : AdmittedFor(s, p) \subseteq Calls
  BY DEF AdmittedFor, AdmittedToday
<1> QED
  BY <1>1, <1>2, <1>3

\* A step of one request c leaves the others where they are in these sets.
OnlyMoves(c) == today' = today /\ \A d \in Calls \ {c} : call'[d] = call[d]

LEMMA OthersStay ==
  ASSUME NEW c \in Calls, OnlyMoves(c)
  PROVE  /\ \A s : Running(s)' \ {c} = Running(s) \ {c}
         /\ \A s : AdmittedToday(s)' \ {c} = AdmittedToday(s) \ {c}
         /\ \A s, p : AdmittedFor(s, p)' \ {c} = AdmittedFor(s, p) \ {c}
<1>1. \A s : Running(s)' \ {c} = Running(s) \ {c}
  BY DEF OnlyMoves, Running
<1>2. \A s : AdmittedToday(s)' \ {c} = AdmittedToday(s) \ {c}
  BY DEF OnlyMoves, AdmittedToday
<1>3. \A s, p : AdmittedFor(s, p)' \ {c} = AdmittedFor(s, p) \ {c}
  BY DEF OnlyMoves, AdmittedFor, AdmittedToday
<1> QED
  BY <1>1, <1>2, <1>3

\* A request that stays admitted, or stays outside, changes no count.
LEMMA CountsStay ==
  ASSUME NEW c \in Calls, OnlyMoves(c), call'[c].day = call[c].day,
         \/ /\ call[c].pc \in Admitted /\ call'[c].pc \in Admitted
            /\ call'[c].sid = call[c].sid /\ call'[c].turn = call[c].turn
         \/ call[c].pc \notin Admitted /\ call'[c].pc \notin Admitted
  PROVE  /\ \A s : AdmittedToday(s)' = AdmittedToday(s)
         /\ \A s, p : AdmittedFor(s, p)' = AdmittedFor(s, p)
<1>1. \A s : c \in AdmittedToday(s)' <=> c \in AdmittedToday(s)
  BY DEF OnlyMoves, AdmittedToday
<1>2. \A s, p : c \in AdmittedFor(s, p)' <=> c \in AdmittedFor(s, p)
  BY DEF OnlyMoves, AdmittedFor, AdmittedToday
<1>3. \A s : AdmittedToday(s)' = AdmittedToday(s)
  <2>1. \A s : AdmittedToday(s)' \ {c} = AdmittedToday(s) \ {c}
    BY OthersStay
  <2> QED
    BY <1>1, <2>1
<1>4. \A s, p : AdmittedFor(s, p)' = AdmittedFor(s, p)
  BY <1>2, OthersStay
<1> QED
  BY <1>3, <1>4

-----------------------------------------------------------------------------
(* The steps, one by one.                                                  *)

LEMMA InitChat == Init => ChatInv
<1> SUFFICES ASSUME Init PROVE ChatInv
  OBVIOUS
<1>1. \A c \in Calls : call[c].pc = "idle" /\ call[c].day = 0
  BY DEF Init
<1>2. /\ today = 0 /\ mixed = {}
      /\ \A s \in Sessions : sessions[s].day = None /\ sessions[s].result = None /\ sessions[s].turns = 0
      /\ \A s \in Sessions, p \in Personas : personas[s][p].day = None
  BY DEF Init
<1>3. /\ \A s : Running(s) = {} /\ AdmittedToday(s) = {}
      /\ \A s, p : AdmittedFor(s, p) = {}
  BY <1>1 DEF Running, Admitted, AdmittedToday, AdmittedFor
<1>4. 0 # None
  BY DEF Days
<1>5. CallsAreKnown /\ DaysArePast /\ OneRunner /\ RunnerHasRow /\ ResultIsOwn
  BY <1>1, <1>2, <1>3 DEF CallsAreKnown, DaysArePast, OneRunner, RunnerHasRow, ResultIsOwn
<1>6. NoStaleTwin /\ PersonaIsCounted
  BY <1>3 DEF NoStaleTwin, PersonaIsCounted
<1>7. TurnsCover
  <2>1. \A s \in Sessions : TurnsToday(s) = 0
    BY <1>2, <1>4 DEF TurnsToday, Today
  <2>2. \A s \in Sessions : Cardinality(AdmittedToday(s)) = 0
    BY <1>3, FS_EmptySet, Zenon
  <2> QED
    BY <2>1, <2>2 DEF TurnsCover
<1>8. InFlightHasOwner /\ OwnAnswerWhenSequential /\ DebriefCountsTurns
  BY <1>1, <1>2, <1>4 DEF InFlightHasOwner, OwnAnswerWhenSequential, DebriefCountsTurns, Today
<1> QED
  BY <1>5, <1>6, <1>7, <1>8 DEF ChatInv

\* A new day: no row and no request is of that day yet.
LEMMA MidnightKeepsChat ==
  ASSUME BudgetTypeOK, ChatInv, Midnight
  PROVE  ChatInv'
<1>1. /\ today \in Nat /\ today' = today + 1 /\ today' \in Days /\ today' # None
      /\ sessions' = sessions /\ personas' = personas /\ call' = call /\ mixed' = mixed
  BY DEF Midnight, BudgetTypeOK, Days, store
<1>2. /\ \A s \in Sessions : sessions[s].day # today'
      /\ \A s \in Sessions, p \in Personas : personas[s][p].day # today'
      /\ \A c \in Calls : call[c].day \in Int /\ call[c].day < today'
  <2>1. \A s \in Sessions : sessions[s].day # today'
    BY <1>1 DEF ChatInv, DaysArePast, BudgetTypeOK, SessionRows, Days
  <2>2. \A s \in Sessions, p \in Personas : personas[s][p].day # today'
    BY <1>1 DEF ChatInv, DaysArePast, BudgetTypeOK, PersonaRows, Days
  <2>3. \A c \in Calls : call[c].day \in Int /\ call[c].day < today'
    BY <1>1 DEF ChatInv, DaysArePast, BudgetTypeOK, CallStates, Days
  <2> QED
    BY <2>1, <2>2, <2>3
<1>3. \A s : Running(s)' = Running(s) /\ AdmittedToday(s)' = {}
  BY <1>1, <1>2 DEF Running, AdmittedToday
<1>4. CallsAreKnown'
  BY <1>1 DEF ChatInv, CallsAreKnown
<1>5. DaysArePast'
  <2>1. \A s \in Sessions : sessions[s].day = None \/ sessions[s].day <= today'
    BY <1>1 DEF ChatInv, DaysArePast, BudgetTypeOK, SessionRows, Days
  <2>2. \A s \in Sessions, p \in Personas : personas[s][p].day = None \/ personas[s][p].day <= today'
    BY <1>1 DEF ChatInv, DaysArePast, BudgetTypeOK, PersonaRows, Days
  <2> QED
    BY <1>1, <1>2, <2>1, <2>2 DEF DaysArePast
<1>6. OneRunner' /\ RunnerHasRow' /\ ResultIsOwn'
  BY <1>1, <1>3 DEF ChatInv, OneRunner, RunnerHasRow, ResultIsOwn
<1>7. NoStaleTwin' /\ PersonaIsCounted'
  BY <1>1, <1>2, <1>3 DEF NoStaleTwin, PersonaIsCounted, Holds, Today
<1>8. TurnsCover'
  <2>1. \A s \in Sessions : TurnsToday(s)' = 0
    BY <1>1, <1>2 DEF TurnsToday, Today
  <2>2. \A s \in Sessions : Cardinality(AdmittedToday(s))' = 0
    BY <1>3, FS_EmptySet, Zenon
  <2> QED
    BY <2>1, <2>2 DEF TurnsCover
<1>9. InFlightHasOwner' /\ OwnAnswerWhenSequential' /\ DebriefCountsTurns'
  BY <1>1, <1>2 DEF ChatInv, InFlightHasOwner, OwnAnswerWhenSequential, DebriefCountsTurns, Today
<1> QED
  BY <1>4, <1>5, <1>6, <1>7, <1>8, <1>9 DEF ChatInv

\* One-shots, critiques and the requests refused or gone leave the turn tables alone.
LEMMA QuietKeepsChat ==
  ASSUME ChatInv, UNCHANGED <<today, sessions, personas, call, mixed>>
  PROVE  ChatInv'
<1>1. /\ \A s : Running(s)' = Running(s) /\ AdmittedToday(s)' = AdmittedToday(s)
      /\ SettleLost' = SettleLost
  BY DEF Running, AdmittedToday, SettleLost
<1>2. CallsAreKnown' /\ DaysArePast'
  BY DEF ChatInv, CallsAreKnown, DaysArePast
<1>3. OneRunner' /\ RunnerHasRow' /\ ResultIsOwn'
  BY <1>1 DEF ChatInv, OneRunner, RunnerHasRow, ResultIsOwn
<1>4. NoStaleTwin' /\ TurnsCover' /\ PersonaIsCounted'
  BY <1>1 DEF ChatInv, NoStaleTwin, TurnsCover, PersonaIsCounted, Holds, Today, TurnsToday
<1>5. InFlightHasOwner' /\ OwnAnswerWhenSequential' /\ DebriefCountsTurns'
  <2>1. \A s, p : AdmittedFor(s, p)' = AdmittedFor(s, p)
    BY <1>1 DEF AdmittedFor
  <2> QED
    BY <2>1 DEF ChatInv, InFlightHasOwner, OwnAnswerWhenSequential, DebriefCountsTurns, Today
<1> QED
  BY <1>2, <1>3, <1>4, <1>5 DEF ChatInv

LEMMA AsideKeepsChat ==
  ASSUME BudgetTypeOK, ChatInv, NEW c \in Calls, NEW s \in Sessions, NEW t \in Turns,
         Replay(c, s, t) \/ Refuse(c, s, t) \/ Vanish(c)
  PROVE  ChatInv'
<1>1. OnlyMoves(c) /\ sessions' = sessions /\ personas' = personas /\ mixed' = mixed
  BY DEF Replay, Refuse, Vanish, OnlyMoves, store, BudgetTypeOK
<1>2. /\ call'[c].day = call[c].day
      /\ \/ /\ call[c].pc = "idle" /\ call'[c].pc = "replayed" /\ call'[c].sid = s /\ call'[c].turn = t
            /\ call'[c].answer = sessions[s].result /\ sessions[s].turn = t /\ sessions[s].result # None
         \/ call[c].pc = "idle" /\ call'[c].pc = "refused"
         \/ /\ call[c].pc = "running" /\ call'[c].pc = "vanished"
            /\ call'[c].sid = call[c].sid /\ call'[c].turn = call[c].turn
  <2>0. call \in [Calls -> CallStates] /\ call[c] \in CallStates
    BY DEF BudgetTypeOK
  <2>1. CASE Replay(c, s, t)
    <3> DEFINE new == [call[c] EXCEPT !.pc = "replayed", !.sid = s, !.turn = t,
                                       !.answer = sessions[s].result]
    <3>1. call' = [call EXCEPT ![c] = new] /\ call[c].pc = "idle"
      BY <2>1 DEF Replay, Arrives
    <3>2. /\ new.pc = "replayed" /\ new.sid = s /\ new.turn = t /\ new.day = call[c].day
          /\ new.answer = sessions[s].result
      BY <2>0 DEF CallStates
    <3> QED
      BY <2>0, <2>1, <3>1, <3>2 DEF Replay, Holds
  <2>2. CASE Refuse(c, s, t)
    <3> DEFINE new == [call[c] EXCEPT !.pc = "refused"]
    <3>1. call' = [call EXCEPT ![c] = new] /\ call[c].pc = "idle"
      BY <2>2 DEF Refuse, Arrives
    <3>2. new.pc = "refused" /\ new.day = call[c].day
      BY <2>0 DEF CallStates
    <3> QED
      BY <2>0, <3>1, <3>2
  <2>3. CASE Vanish(c)
    <3> DEFINE new == [call[c] EXCEPT !.pc = "vanished"]
    <3>1. call' = [call EXCEPT ![c] = new] /\ call[c].pc = "running"
      BY <2>3 DEF Vanish
    <3>2. /\ new.pc = "vanished" /\ new.day = call[c].day
          /\ new.sid = call[c].sid /\ new.turn = call[c].turn
      BY <2>0 DEF CallStates
    <3> QED
      BY <2>0, <3>1, <3>2
  <2> QED
    BY <2>1, <2>2, <2>3
<1>3. \A r : Running(r)' = Running(r) \ {c}
  BY <1>1, <1>2 DEF Running, OnlyMoves
<1>4. /\ \A r : AdmittedToday(r)' = AdmittedToday(r)
      /\ \A r, p : AdmittedFor(r, p)' = AdmittedFor(r, p)
  BY <1>1, <1>2, CountsStay DEF Admitted
<1>5. SettleLost => SettleLost'
  BY <1>1, <1>2 DEF OnlyMoves, SettleLost
<1>6. CallsAreKnown' /\ DaysArePast'
  BY <1>1, <1>2 DEF OnlyMoves, ChatInv, CallsAreKnown, DaysArePast
<1>7. OneRunner' /\ RunnerHasRow' /\ ResultIsOwn'
  BY <1>1, <1>3 DEF OnlyMoves, Running, ChatInv, OneRunner, RunnerHasRow, ResultIsOwn
<1>8. NoStaleTwin'
  BY <1>1, <1>3 DEF OnlyMoves, Running, ChatInv, NoStaleTwin, Holds, Today
<1>9. TurnsCover'
  <2>1. \A r \in Sessions : TurnsToday(r)' = TurnsToday(r)
    BY <1>1 DEF OnlyMoves, TurnsToday, Today
  <2>2. \A r \in Sessions : Cardinality(AdmittedToday(r))' = Cardinality(AdmittedToday(r))
    BY <1>4, Zenon
  <2>3. TurnsCover /\ (mixed' = {} \/ ~SettleLost' => mixed = {} \/ ~SettleLost)
    BY <1>1, <1>5 DEF ChatInv
  <2> QED
    BY <2>1, <2>2, <2>3 DEF TurnsCover
<1>10. PersonaIsCounted'
  <2>1. ASSUME NEW r \in Sessions, NEW d \in AdmittedToday(r)
        PROVE  call'[d].turn = call[d].turn
    BY <1>1, <1>2 DEF AdmittedToday, Admitted, OnlyMoves
  <2> QED
    BY <1>1, <1>4, <2>1 DEF OnlyMoves, ChatInv, PersonaIsCounted
<1>11. InFlightHasOwner'
  BY <1>1, <1>2 DEF OnlyMoves, ChatInv, InFlightHasOwner, Today
<1>12. OwnAnswerWhenSequential'
  BY <1>1, <1>2 DEF OnlyMoves, ChatInv, OwnAnswerWhenSequential, ResultIsOwn
<1>13. DebriefCountsTurns'
  BY <1>1, <1>4 DEF OnlyMoves, ChatInv, DebriefCountsTurns
<1> QED
  BY <1>6, <1>7, <1>8, <1>9, <1>10, <1>11, <1>12, <1>13 DEF ChatInv

\* A settled turn leaves its answer in the row: nobody can undo it any more.
LEMMA SettleKeepsChat ==
  ASSUME BudgetTypeOK, ChatInv, NEW c \in Calls, NEW cost \in 0..Reserve,
         Settle(c, cost) \/ SettleUnacknowledged(c, cost)
  PROVE  ChatInv'
<1> DEFINE s == call[c].sid
           t == call[c].turn
<1>1. call \in [Calls -> CallStates] /\ call[c] \in CallStates /\ sessions \in [Sessions -> SessionRows]
  BY DEF BudgetTypeOK
<1>2. call[c].pc = "running" /\ s \in Sessions /\ t \in Turns /\ t # None
  BY DEF Settle, SettleUnacknowledged, ChatInv, CallsAreKnown
<1>3. /\ OnlyMoves(c) /\ personas' = personas /\ mixed' = mixed
      /\ call'[c].pc \in {"settled", "unsure"}
      /\ call'[c].sid = s /\ call'[c].turn = t /\ call'[c].day = call[c].day
  <2> DEFINE done == [call[c] EXCEPT !.pc = "settled", !.cost = cost, !.end = today, !.answer = t]
             open == [call[c] EXCEPT !.pc = "unsure", !.cost = cost, !.end = today]
  <2>1. call' = [call EXCEPT ![c] = done] \/ call' = [call EXCEPT ![c] = open]
    BY DEF Settle, SettleUnacknowledged
  <2>2. /\ done.pc = "settled" /\ done.sid = s /\ done.turn = t /\ done.day = call[c].day
        /\ open.pc = "unsure" /\ open.sid = s /\ open.turn = t /\ open.day = call[c].day
    BY <1>1 DEF CallStates
  <2> HIDE DEF done, open
  <2>3. call'[c] \in {done, open} /\ \A d \in Calls \ {c} : call'[d] = call[d]
    BY <1>1, <2>1
  <2>4. today' = today /\ personas' = personas /\ mixed' = mixed
    BY DEF Settle, SettleUnacknowledged
  <2> QED
    BY <2>2, <2>3, <2>4 DEF OnlyMoves
<1>4. /\ \A r \in Sessions : sessions'[r].day = sessions[r].day /\ sessions'[r].turn = sessions[r].turn
                             /\ sessions'[r].turns = sessions[r].turns
      /\ \A r \in Sessions \ {s} : sessions'[r] = sessions[r]
      /\ sessions'[s].result = t
  <2> DEFINE new == [sessions[s] EXCEPT !.reserve = 0, !.result = t]
  <2>1. sessions' = [sessions EXCEPT ![s] = new]
    BY DEF Settle, SettleUnacknowledged, SettleRow
  <2>2. /\ new.day = sessions[s].day /\ new.turn = sessions[s].turn /\ new.turns = sessions[s].turns
        /\ new.result = t
    BY <1>1, <1>2 DEF SessionRows
  <2> QED
    BY <1>1, <1>2, <2>1, <2>2
<1>5. \A r : Running(r)' \subseteq Running(r)
  BY <1>2, <1>3 DEF Running, OnlyMoves
<1>6. /\ \A r : AdmittedToday(r)' = AdmittedToday(r)
      /\ \A r, p : AdmittedFor(r, p)' = AdmittedFor(r, p)
  BY <1>2, <1>3, CountsStay DEF Admitted
<1>7. \A d \in Calls : call'[d].turn = call[d].turn /\ call'[d].day = call[d].day
  BY <1>3 DEF OnlyMoves
<1>8. CallsAreKnown' /\ DaysArePast'
  <2>1. CallsAreKnown'
    BY <1>2, <1>3 DEF OnlyMoves, ChatInv, CallsAreKnown
  <2>2. DaysArePast'
    BY <1>3, <1>4, <1>7 DEF OnlyMoves, ChatInv, DaysArePast
  <2> QED
    BY <2>1, <2>2
<1>9. OneRunner'
  BY <1>3, <1>5 DEF ChatInv, OneRunner
<1>10. ASSUME NEW r \in Sessions \ mixed, NEW d \in Running(r)'
       PROVE  /\ sessions'[r].turn = call'[d].turn /\ sessions'[r].day = call'[d].day
              /\ sessions'[r].result = IF call'[d].pc = "running" THEN None ELSE call'[d].turn
  <2>1. d \in Running(r) /\ d \in Calls
    BY <1>5, <1>10 DEF Running
  <2>2. /\ sessions[r].turn = call[d].turn /\ sessions[r].day = call[d].day
        /\ sessions[r].result = IF call[d].pc = "running" THEN None ELSE call[d].turn
    BY <2>1 DEF ChatInv, RunnerHasRow
  <2>3. CASE r # s
    <3>1. call'[d] = call[d] /\ sessions'[r] = sessions[r]
      BY <1>3, <1>4, <2>1, <2>3 DEF OnlyMoves, Running
    <3> QED
      BY <2>2, <3>1
  <2>4. CASE r = s
    <3>1. d = c
      BY <1>2, <2>1, <2>4 DEF ChatInv, OneRunner, Running
    <3>2. call'[d].pc = "unsure"
      BY <1>3, <1>10, <3>1 DEF Running
    <3> QED
      BY <1>4, <1>7, <2>1, <2>2, <2>4, <3>1, <3>2
  <2> QED
    BY <2>3, <2>4
<1>11. RunnerHasRow'
  BY <1>3, <1>10 DEF RunnerHasRow
<1>12. ResultIsOwn'
  <2>1. s \notin mixed => sessions[s].turn = t
    BY <1>2 DEF ChatInv, RunnerHasRow, Running
  <2> QED
    BY <1>2, <1>3, <1>4, <2>1 DEF ChatInv, ResultIsOwn
<1>13. NoStaleTwin'
  <2>1. \A r \in Sessions : \A x : Holds(r, x)' <=> Holds(r, x)
    BY <1>3, <1>4 DEF Holds, Today, OnlyMoves
  <2>2. ASSUME ~MayRetryAcrossMidnight, NEW r \in Sessions, NEW d \in Running(r)', Holds(r, call[d].turn)'
        PROVE  call'[d].day = today'
    <3>1. d \in Running(r) /\ d \in Calls
      BY <1>5, <2>2 DEF Running
    <3>2. Holds(r, call[d].turn)
      BY <1>7, <2>1, <2>2, <3>1
    <3> QED
      BY <1>3, <1>7, <2>2, <3>1, <3>2 DEF ChatInv, NoStaleTwin, OnlyMoves
  <2> QED
    BY <2>2 DEF NoStaleTwin
<1>14. TurnsCover'
  <2>1. \A r \in Sessions : TurnsToday(r)' = TurnsToday(r)
    BY <1>3, <1>4 DEF OnlyMoves, TurnsToday, Today
  <2>2. \A r \in Sessions : Cardinality(AdmittedToday(r))' = Cardinality(AdmittedToday(r))
    BY <1>6, Zenon
  <2>3. SettleLost => SettleLost'
    BY <1>2, <1>3 DEF SettleLost, OnlyMoves
  <2>4. TurnsCover /\ (mixed' = {} \/ ~SettleLost' => mixed = {} \/ ~SettleLost)
    BY <1>3, <2>3 DEF ChatInv
  <2> QED
    BY <2>1, <2>2, <2>4 DEF TurnsCover
<1>15. PersonaIsCounted'
  <2>1. \A r : AdmittedToday(r) \subseteq Calls
    BY DEF AdmittedToday
  <2> QED
    BY <1>3, <1>6, <1>7, <2>1 DEF OnlyMoves, ChatInv, PersonaIsCounted
<1>16. InFlightHasOwner'
  <2>1. ASSUME NEW r \in Sessions, Today(r)', sessions'[r].turn # None, sessions'[r].result = None
        PROVE  \E d \in Calls : /\ call'[d].pc \in {"running", "vanished"} /\ call'[d].sid = r
                                /\ call'[d].turn = sessions'[r].turn
    <3>1. r # s
      BY <1>2, <1>4, <2>1
    <3>2. sessions'[r] = sessions[r] /\ Today(r)
      BY <1>3, <1>4, <2>1, <3>1 DEF OnlyMoves, Today
    <3>3. PICK d \in Calls : /\ call[d].pc \in {"running", "vanished"} /\ call[d].sid = r
                             /\ call[d].turn = sessions[r].turn
      BY <2>1, <3>2 DEF ChatInv, InFlightHasOwner
    <3>4. call'[d] = call[d]
      BY <1>3, <3>1, <3>3 DEF OnlyMoves
    <3> QED
      BY <3>2, <3>3, <3>4
  <2> QED
    BY <2>1 DEF InFlightHasOwner
<1>17. OwnAnswerWhenSequential'
  BY <1>3 DEF OnlyMoves, ChatInv, OwnAnswerWhenSequential
<1>18. DebriefCountsTurns'
  BY <1>3, <1>6 DEF OnlyMoves, ChatInv, DebriefCountsTurns
<1> QED
  BY <1>8, <1>9, <1>11, <1>12, <1>13, <1>14, <1>15, <1>16, <1>17, <1>18 DEF ChatInv

\* A turn is admitted: it joins the counts, and the row is about it from now on.
LEMMA AdmitKeepsChat ==
  ASSUME BudgetTypeOK, ChatInv, NEW c \in Calls, NEW s \in Sessions, NEW t \in Turns, Admit(c, s, t)
  PROVE  ChatInv'
<1> DEFINE p == PersonaOf[t]
<1>1. /\ call \in [Calls -> CallStates] /\ call[c] \in CallStates /\ sessions \in [Sessions -> SessionRows]
      /\ personas \in [Sessions -> [Personas -> PersonaRows]] /\ p \in Personas
      /\ today \in Days /\ today \in Nat /\ today # None /\ t # None
  BY DEF BudgetTypeOK, Days
<1>2. /\ OnlyMoves(c) /\ call[c].pc = "idle" /\ call'[c].pc = "running"
      /\ call'[c].sid = s /\ call'[c].turn = t /\ call'[c].day = today
  <2> DEFINE new == [call[c] EXCEPT !.pc = "running", !.sid = s, !.turn = t, !.day = today]
  <2>1. call' = [call EXCEPT ![c] = new] /\ call[c].pc = "idle" /\ today' = today
    BY DEF Admit, Arrives
  <2>2. new.pc = "running" /\ new.sid = s /\ new.turn = t /\ new.day = today
    BY <1>1 DEF CallStates
  <2> QED
    BY <1>1, <2>1, <2>2 DEF OnlyMoves
<1>3. /\ \A r \in Sessions \ {s} : sessions'[r] = sessions[r]
      /\ sessions'[s].day = today /\ sessions'[s].turns = TurnsToday(s) + 1
      /\ sessions'[s].turn = t /\ sessions'[s].result = None
  BY <1>1 DEF Admit, Entered
<1>4. /\ \A r \in Sessions, q \in Personas : r # s \/ q # p => personas'[r][q] = personas[r][q]
      /\ personas'[s][p].day = today
      /\ personas'[s][p].turns = IF personas[s][p].day = today THEN personas[s][p].turns + 1 ELSE 1
  <2> DEFINE new == [day |-> today, turns |-> IF personas[s][p].day = today
                                              THEN personas[s][p].turns + 1 ELSE 1]
  <2>1. personas' = [personas EXCEPT ![s] = [personas[s] EXCEPT ![p] = new]]
    BY DEF Admit, Counted
  <2> HIDE DEF new, p
  <2>2. personas'[s] = [personas[s] EXCEPT ![p] = new] /\ \A r \in Sessions \ {s} : personas'[r] = personas[r]
    BY <1>1, <2>1
  <2>3. personas'[s][p] = new /\ \A q \in Personas \ {p} : personas'[s][q] = personas[s][q]
    BY <1>1, <2>2
  <2>4. \A r \in Sessions, q \in Personas : r # s \/ q # p => personas'[r][q] = personas[r][q]
    BY <2>2, <2>3
  <2>5. /\ new.day = today
        /\ new.turns = IF personas[s][p].day = today THEN personas[s][p].turns + 1 ELSE 1
    BY DEF new
  <2> QED
    BY <2>3, <2>4, <2>5
<1>5. mixed' = IF Running(s) = {} THEN mixed ELSE mixed \cup {s}
  BY DEF Admit
<1>6. /\ Running(s)' = Running(s) \cup {c} /\ \A r : r # s => Running(r)' = Running(r)
      /\ AdmittedToday(s)' = AdmittedToday(s) \cup {c}
      /\ \A r : r # s => AdmittedToday(r)' = AdmittedToday(r)
      /\ AdmittedFor(s, p)' = AdmittedFor(s, p) \cup {c}
      /\ \A r, q : r # s \/ q # p => AdmittedFor(r, q)' = AdmittedFor(r, q)
      /\ c \notin AdmittedToday(s) /\ c \notin AdmittedFor(s, p)
  <2>1. Running(s)' = Running(s) \cup {c} /\ \A r : r # s => Running(r)' = Running(r)
    BY <1>2 DEF OnlyMoves, Running
  <2>2. AdmittedToday(s)' = AdmittedToday(s) \cup {c} /\ \A r : r # s => AdmittedToday(r)' = AdmittedToday(r)
    BY <1>2 DEF OnlyMoves, Admitted, AdmittedToday
  <2>3. AdmittedFor(s, p)' = AdmittedFor(s, p) \cup {c}
    BY <1>2 DEF OnlyMoves, Admitted, AdmittedToday, AdmittedFor
  <2>4. \A r, q : r # s \/ q # p => AdmittedFor(r, q)' = AdmittedFor(r, q)
    BY <1>2 DEF OnlyMoves, Admitted, AdmittedToday, AdmittedFor
  <2>5. c \notin AdmittedToday(s) /\ c \notin AdmittedFor(s, p)
    BY <1>2 DEF Admitted, AdmittedToday, AdmittedFor
  <2> QED
    BY <2>1, <2>2, <2>3, <2>4, <2>5
<1>7. CallsAreKnown'
  BY <1>2 DEF OnlyMoves, ChatInv, CallsAreKnown
<1>8. DaysArePast'
  <2>1. \A r \in Sessions : sessions'[r].day = None \/ sessions'[r].day <= today
    BY <1>1, <1>3 DEF ChatInv, DaysArePast
  <2>2. \A r \in Sessions, q \in Personas : personas'[r][q].day = None \/ personas'[r][q].day <= today
    BY <1>1, <1>4 DEF ChatInv, DaysArePast
  <2>3. \A d \in Calls : call'[d].day <= today
    BY <1>1, <1>2 DEF OnlyMoves, ChatInv, DaysArePast
  <2> QED
    BY <1>2, <2>1, <2>2, <2>3 DEF OnlyMoves, DaysArePast
<1>9. OneRunner'
  BY <1>5, <1>6 DEF ChatInv, OneRunner
<1>10. ASSUME NEW r \in Sessions \ mixed', NEW d \in Running(r)'
       PROVE  /\ sessions'[r].turn = call'[d].turn /\ sessions'[r].day = call'[d].day
              /\ sessions'[r].result = IF call'[d].pc = "running" THEN None ELSE call'[d].turn
  <2>1. CASE r = s
    <3>1. d = c
      BY <1>5, <1>6, <1>10, <2>1
    <3> QED
      BY <1>2, <1>3, <2>1, <3>1
  <2>2. CASE r # s
    <3>1. d \in Running(r) /\ r \in Sessions \ mixed
      BY <1>5, <1>6, <1>10, <2>2
    <3>2. call'[d] = call[d] /\ sessions'[r] = sessions[r]
      BY <1>2, <1>3, <2>2, <3>1 DEF OnlyMoves, Running
    <3> QED
      BY <3>1, <3>2 DEF ChatInv, RunnerHasRow
  <2> QED
    BY <2>1, <2>2
<1>11. RunnerHasRow'
  BY <1>10 DEF RunnerHasRow
<1>12. ResultIsOwn'
  BY <1>3, <1>5 DEF ChatInv, ResultIsOwn
<1>13. NoStaleTwin'
  <2>1. ASSUME ~MayRetryAcrossMidnight, NEW r \in Sessions, NEW d \in Running(r)',
               sessions'[r].day = today, sessions'[r].turn = call'[d].turn
        PROVE  call'[d].day = today
    <3>1. CASE d = c
      BY <1>2, <3>1
    <3>2. CASE d # c
      <4>1. d \in Running(r) /\ d \in Calls /\ call'[d] = call[d]
        BY <1>2, <1>6, <2>1, <3>2 DEF OnlyMoves, Running
      <4>2. CASE r # s
        <5>1. Holds(r, call[d].turn)
          BY <1>3, <2>1, <4>1, <4>2 DEF Holds, Today
        <5> QED
          BY <2>1, <4>1, <5>1 DEF ChatInv, NoStaleTwin
      <4>3. CASE r = s
        BY <1>3, <2>1, <4>1, <4>3 DEF Admit, Arrives
      <4> QED
        BY <4>2, <4>3
    <3> QED
      BY <3>1, <3>2
  <2> QED
    BY <1>2, <2>1 DEF NoStaleTwin, Holds, Today, OnlyMoves
<1>14. TurnsCover'
  <2>1. SettleLost => SettleLost'
    BY <1>2 DEF SettleLost, OnlyMoves
  <2>2. TurnsCover /\ (mixed' = {} \/ ~SettleLost' => mixed = {} \/ ~SettleLost)
    BY <1>5, <2>1 DEF ChatInv
  <2>3. TurnsToday(s)' = TurnsToday(s) + 1 /\ TurnsToday(s) \in Nat
    BY <1>1, <1>2, <1>3 DEF OnlyMoves, TurnsToday, Today, SessionRows
  <2>4. \A r \in Sessions \ {s} : TurnsToday(r)' = TurnsToday(r)
    BY <1>2, <1>3 DEF OnlyMoves, TurnsToday, Today
  <2>5. Cardinality(AdmittedToday(s))' = Cardinality(AdmittedToday(s)) + 1
    BY <1>6, AdmittedFinite, FS_AddElement
  <2>6. \A r \in Sessions \ {s} : Cardinality(AdmittedToday(r))' = Cardinality(AdmittedToday(r))
    BY <1>6
  <2>7. Cardinality(AdmittedToday(s)) \in Nat
    BY AdmittedFinite
  <2>8. ASSUME ~MayRetryAcrossMidnight, mixed' = {} \/ ~SettleLost', NEW r \in Sessions
        PROVE  Cardinality(AdmittedToday(r))' <= TurnsToday(r)'
    <3>1. Cardinality(AdmittedToday(r)) <= TurnsToday(r)
      BY <2>2, <2>8 DEF TurnsCover
    <3> QED
      BY <2>3, <2>4, <2>5, <2>6, <2>7, <3>1
  <2> QED
    BY <2>8 DEF TurnsCover
<1>15. PersonaIsCounted'
  <2>1. ASSUME NEW r \in Sessions, NEW d \in AdmittedToday(r)'
        PROVE  personas'[r][PersonaOf[call'[d].turn]].day = today
    <3>1. CASE d = c
      BY <1>2, <1>4, <2>1, <3>1 DEF AdmittedToday
    <3>2. CASE d # c
      <4>1. d \in AdmittedToday(r) /\ call'[d] = call[d]
        BY <1>2, <1>6, <2>1, <3>2 DEF OnlyMoves, AdmittedToday
      <4>2. PersonaOf[call[d].turn] \in Personas
        BY <4>1 DEF ChatInv, CallsAreKnown, AdmittedToday, Admitted
      <4> QED
        BY <1>4, <4>1, <4>2 DEF ChatInv, PersonaIsCounted
    <3> QED
      BY <3>1, <3>2
  <2> QED
    BY <1>2, <2>1 DEF PersonaIsCounted, OnlyMoves
<1>16. InFlightHasOwner'
  <2>1. ASSUME NEW r \in Sessions, Today(r)', sessions'[r].turn # None, sessions'[r].result = None
        PROVE  \E d \in Calls : /\ call'[d].pc \in {"running", "vanished"} /\ call'[d].sid = r
                                /\ call'[d].turn = sessions'[r].turn
    <3>1. CASE r = s
      BY <1>2, <1>3, <3>1
    <3>2. CASE r # s
      <4>1. sessions'[r] = sessions[r] /\ Today(r)
        BY <1>2, <1>3, <2>1, <3>2 DEF OnlyMoves, Today
      <4>2. PICK d \in Calls : /\ call[d].pc \in {"running", "vanished"} /\ call[d].sid = r
                               /\ call[d].turn = sessions[r].turn
        BY <2>1, <4>1 DEF ChatInv, InFlightHasOwner
      <4>3. call'[d] = call[d]
        BY <1>2, <4>2 DEF OnlyMoves
      <4> QED
        BY <4>1, <4>2, <4>3
    <3> QED
      BY <3>1, <3>2
  <2> QED
    BY <2>1 DEF InFlightHasOwner
<1>17. OwnAnswerWhenSequential'
  BY <1>2, <1>5 DEF OnlyMoves, ChatInv, OwnAnswerWhenSequential
<1>18. DebriefCountsTurns'
  <2>1. ASSUME s \notin mixed'
        PROVE  personas'[s][p].turns = Cardinality(AdmittedFor(s, p))'
    <3>1. Cardinality(AdmittedFor(s, p))' = Cardinality(AdmittedFor(s, p)) + 1
      BY <1>6, AdmittedFinite, FS_AddElement
    <3>2. CASE personas[s][p].day = today
      BY <1>1, <1>4, <1>5, <2>1, <3>1, <3>2 DEF ChatInv, DebriefCountsTurns
    <3>3. CASE personas[s][p].day # today
      <4>1. AdmittedFor(s, p) = {}
        BY <3>3 DEF ChatInv, PersonaIsCounted, AdmittedFor
      <4> QED
        BY <1>4, <3>1, <3>3, <4>1, FS_EmptySet
    <3> QED
      BY <3>2, <3>3
  <2>2. ASSUME NEW r \in Sessions \ mixed', NEW q \in Personas, r # s \/ q # p, personas'[r][q].day = today
        PROVE  personas'[r][q].turns = Cardinality(AdmittedFor(r, q))'
    BY <1>4, <1>5, <1>6, <2>2 DEF ChatInv, DebriefCountsTurns
  <2> QED
    BY <1>2, <2>1, <2>2 DEF DebriefCountsTurns, OnlyMoves
<1> QED
  BY <1>7, <1>8, <1>9, <1>11, <1>12, <1>13, <1>14, <1>15, <1>16, <1>17, <1>18 DEF ChatInv

\* What fail leaves in the tables: nothing changes, or the turn is given back.
LEMMA FailRowEffect ==
  ASSUME BudgetTypeOK, NEW c \in Calls, NEW cost, FailRow(c, cost),
         NEW s \in Sessions, s = call[c].sid, NEW t \in Turns, t = call[c].turn
  PROVE  /\ ~Undoable(c) => sessions' = sessions /\ personas' = personas
         /\ Undoable(c) =>
              /\ \A r \in Sessions \ {s} : sessions'[r] = sessions[r]
              /\ sessions'[s].day = today /\ sessions'[s].turns = Less(sessions[s].turns)
              /\ sessions'[s].turn = None /\ sessions'[s].result = None
              /\ \A r \in Sessions, q \in Personas :
                   r # s \/ q # PersonaOf[t] => personas'[r][q] = personas[r][q]
              /\ personas'[s][PersonaOf[t]].day = personas[s][PersonaOf[t]].day
              /\ personas[s][PersonaOf[t]].day = today =>
                   personas'[s][PersonaOf[t]].turns = Less(personas[s][PersonaOf[t]].turns)
<1> DEFINE p == PersonaOf[t]
<1>1. /\ sessions \in [Sessions -> SessionRows] /\ p \in Personas
      /\ personas \in [Sessions -> [Personas -> PersonaRows]]
  BY DEF BudgetTypeOK
<1>2. CASE ~Undoable(c)
  BY <1>2 DEF FailRow, store
<1>3. CASE Undoable(c)
  <2>1. /\ sessions' = [sessions EXCEPT ![s] = GivenBack(sessions[s])]
        /\ personas' = Uncounted(s, p)
    BY <1>3 DEF FailRow
  <2>2. /\ \A r \in Sessions \ {s} : sessions'[r] = sessions[r]
        /\ sessions'[s].day = today /\ sessions'[s].turns = Less(sessions[s].turns)
        /\ sessions'[s].turn = None /\ sessions'[s].result = None
    <3> DEFINE row == GivenBack(sessions[s])
    <3>1. sessions[s].day = today
      BY <1>3 DEF Undoable, Holds, Today
    <3>2. sessions[s] \in SessionRows
      BY <1>1
    <3>3. row.day = today /\ row.turns = Less(sessions[s].turns) /\ row.turn = None /\ row.result = None
      BY <3>1, <3>2 DEF GivenBack, SessionRows
    <3> HIDE DEF row
    <3> QED
      BY <1>1, <2>1, <3>3 DEF row
  <2>3. CASE personas[s][p].day # today
    <3>1. personas' = personas
      BY <2>1, <2>3 DEF Uncounted
    <3> QED
      BY <1>3, <2>2, <2>3, <3>1
  <2>4. CASE personas[s][p].day = today
    <3> DEFINE new == [personas[s][p] EXCEPT !.turns = Less(personas[s][p].turns)]
    <3>1. personas' = [personas EXCEPT ![s] = [personas[s] EXCEPT ![p] = new]]
      BY <2>1, <2>4 DEF Uncounted
    <3>2. personas[s][p] \in PersonaRows
      BY <1>1
    <3>3. new.day = personas[s][p].day /\ new.turns = Less(personas[s][p].turns)
      BY <3>2 DEF PersonaRows
    <3> HIDE DEF new, p
    <3>4. /\ personas'[s] = [personas[s] EXCEPT ![p] = new]
          /\ \A r \in Sessions \ {s} : personas'[r] = personas[r]
      BY <1>1, <3>1
    <3>5. personas'[s][p] = new /\ \A q \in Personas \ {p} : personas'[s][q] = personas[s][q]
      BY <1>1, <3>4
    <3>6. \A r \in Sessions, q \in Personas : r # s \/ q # p => personas'[r][q] = personas[r][q]
      BY <3>4, <3>5
    <3> QED
      BY <1>3, <2>2, <3>3, <3>5, <3>6 DEF p
  <2> QED
    BY <2>3, <2>4
<1> QED
  BY <1>2, <1>3

\* A turn is given back at most once, and only the turn that failed.
LEMMA UndoKeepsChat ==
  ASSUME BudgetTypeOK, ChatInv, NEW c \in Calls, NEW cost, FailRow(c, cost),
         OnlyMoves(c), mixed' = mixed,
         call'[c].sid = call[c].sid, call'[c].turn = call[c].turn, call'[c].day = call[c].day,
         \/ call[c].pc = "running" /\ call'[c].pc = "failed"
         \/ call[c].pc = "unsure" /\ call'[c].pc = "recovered"
  PROVE  ChatInv'
<1> DEFINE s == call[c].sid
           t == call[c].turn
           p == PersonaOf[t]
<1>1. /\ s \in Sessions /\ t \in Turns /\ t # None /\ p \in Personas
      /\ sessions \in [Sessions -> SessionRows] /\ sessions[s] \in SessionRows
      /\ personas \in [Sessions -> [Personas -> PersonaRows]] /\ personas[s][p] \in PersonaRows
  BY DEF ChatInv, CallsAreKnown, BudgetTypeOK
<1>2. ~Undoable(c) => sessions' = sessions /\ personas' = personas
  BY <1>1, FailRowEffect
<1>3. Undoable(c) =>
        /\ \A r \in Sessions \ {s} : sessions'[r] = sessions[r]
        /\ sessions'[s].day = today /\ sessions'[s].turns = Less(sessions[s].turns)
        /\ sessions'[s].turn = None /\ sessions'[s].result = None
        /\ \A r \in Sessions, q \in Personas : r # s \/ q # p => personas'[r][q] = personas[r][q]
        /\ personas'[s][p].day = personas[s][p].day
        /\ personas[s][p].day = today => personas'[s][p].turns = Less(personas[s][p].turns)
  BY <1>1, FailRowEffect
<1>4. Undoable(c) => sessions[s].day = today /\ sessions[s].turn = t /\ sessions[s].result = None
  BY DEF Undoable, Holds, Today
<1>5. \A r \in Sessions, q \in Personas : personas'[r][q].day = personas[r][q].day
  BY <1>2, <1>3
<1>6. \A r \in Sessions : sessions'[r].day = sessions[r].day
  BY <1>2, <1>3, <1>4
<1>7. \A d \in Calls : call'[d].sid = call[d].sid /\ call'[d].turn = call[d].turn /\ call'[d].day = call[d].day
  BY DEF OnlyMoves
<1>8. today' = today /\ \A r : Running(r)' = Running(r) \ {c}
  BY DEF Running, OnlyMoves
<1>9. /\ c \in Running(s)
      /\ s \notin mixed => /\ Running(s) = {c} /\ sessions[s].turn = t /\ sessions[s].day = call[c].day
                           /\ sessions[s].result = IF call[c].pc = "running" THEN None ELSE t
  <2>1. c \in Running(s)
    BY DEF Running
  <2> QED
    BY <1>1, <2>1 DEF ChatInv, OneRunner, RunnerHasRow
<1>10. /\ \A r : AdmittedToday(r)' = IF call'[c].pc = "failed" THEN AdmittedToday(r) \ {c} ELSE AdmittedToday(r)
       /\ \A r, q : AdmittedFor(r, q)' = IF call'[c].pc = "failed" THEN AdmittedFor(r, q) \ {c} ELSE AdmittedFor(r, q)
  <2>1. CASE call'[c].pc = "failed"
    <3>1. \A r : AdmittedToday(r)' = AdmittedToday(r) \ {c}
      BY <1>8, <2>1 DEF AdmittedToday, Admitted, OnlyMoves
    <3>2. \A r, q : AdmittedFor(r, q)' = AdmittedFor(r, q) \ {c}
      BY <1>7, <1>8, <2>1 DEF AdmittedFor, AdmittedToday, Admitted, OnlyMoves
    <3> QED
      BY <2>1, <3>1, <3>2
  <2>2. CASE call'[c].pc # "failed"
    BY <2>2, CountsStay DEF Admitted
  <2> QED
    BY <2>1, <2>2
<1>11. c \in AdmittedToday(s) <=> call[c].day = today
  BY DEF AdmittedToday, Admitted
<1>12. CallsAreKnown'
  BY <1>1 DEF OnlyMoves, ChatInv, CallsAreKnown
<1>13. DaysArePast'
  BY <1>5, <1>6, <1>7, <1>8 DEF ChatInv, DaysArePast
<1>14. OneRunner'
  BY <1>8 DEF ChatInv, OneRunner
<1>15. RunnerHasRow'
  <2>1. ASSUME NEW r \in Sessions \ mixed, NEW d \in Running(r)'
        PROVE  r # s /\ call'[d] = call[d] /\ sessions'[r] = sessions[r] /\ d \in Running(r)
    <3>1. r # s /\ d \in Running(r)
      BY <1>8, <1>9, <2>1
    <3>2. call'[d] = call[d]
      BY <1>8, <2>1 DEF OnlyMoves, Running
    <3> QED
      BY <1>2, <1>3, <3>1, <3>2
  <2> QED
    BY <2>1 DEF ChatInv, RunnerHasRow
<1>16. ResultIsOwn'
  BY <1>2, <1>3 DEF ChatInv, ResultIsOwn
<1>17. NoStaleTwin'
  <2>1. ASSUME ~MayRetryAcrossMidnight, NEW r \in Sessions, NEW d \in Running(r)',
               sessions'[r].day = today, sessions'[r].turn = call'[d].turn
        PROVE  call'[d].day = today
    <3>1. d \in Running(r) /\ d \in Calls /\ call'[d] = call[d] /\ call[d].turn # None
      BY <1>8, <2>1 DEF OnlyMoves, Running, ChatInv, CallsAreKnown
    <3>2. sessions'[r] = sessions[r]
      BY <1>2, <1>3, <2>1, <3>1
    <3>3. Holds(r, call[d].turn)
      BY <2>1, <3>1, <3>2 DEF Holds, Today
    <3> QED
      BY <2>1, <3>1, <3>3 DEF ChatInv, NoStaleTwin
  <2> QED
    BY <1>8, <2>1 DEF NoStaleTwin, Holds, Today
<1>18. TurnsCover'
  <2>1. SettleLost => SettleLost'
    BY DEF SettleLost, OnlyMoves
  <2>2. TurnsCover /\ (mixed' = {} \/ ~SettleLost' => mixed = {} \/ ~SettleLost)
    BY <2>1 DEF ChatInv
  <2>3. ASSUME ~MayRetryAcrossMidnight, mixed' = {} \/ ~SettleLost', NEW r \in Sessions
        PROVE  Cardinality(AdmittedToday(r))' <= TurnsToday(r)'
    <3>1. Cardinality(AdmittedToday(r)) <= TurnsToday(r)
      BY <2>2, <2>3 DEF TurnsCover
    <3>2. TurnsToday(r) \in Nat
      BY <1>1 DEF TurnsToday, SessionRows
    <3>3. CASE ~(Undoable(c) /\ r = s)
      <4>1. TurnsToday(r)' = TurnsToday(r)
        BY <1>2, <1>3, <1>8, <3>3 DEF TurnsToday, Today
      <4>2. Cardinality(AdmittedToday(r) \ {c}) <= Cardinality(AdmittedToday(r))
        BY AdmittedFinite, OneLess
      <4>3. \/ Cardinality(AdmittedToday(r))' = Cardinality(AdmittedToday(r) \ {c})
            \/ Cardinality(AdmittedToday(r))' = Cardinality(AdmittedToday(r))
        BY <1>10
      <4>4. Cardinality(AdmittedToday(r)) \in Nat /\ Cardinality(AdmittedToday(r) \ {c}) \in Nat
        BY AdmittedFinite, FS_RemoveElement, FS_CardinalityType
      <4> QED
        BY <3>1, <3>2, <4>1, <4>2, <4>3, <4>4
    <3>4. CASE Undoable(c) /\ r = s
      <4>1. call[c].pc = "running" /\ call'[c].pc = "failed"
        <5>1. CASE mixed = {}
          BY <1>1, <1>4, <1>9, <3>4, <5>1
        <5>2. CASE ~SettleLost'
          BY <5>2 DEF SettleLost
        <5> QED
          BY <2>3, <5>1, <5>2
      <4>2. call[c].day = today
        BY <1>1, <1>9, <2>3, <3>4 DEF ChatInv, NoStaleTwin, Undoable
      <4>3. Cardinality(AdmittedToday(s))' = Cardinality(AdmittedToday(s)) - 1
        <5>1. AdmittedToday(s)' = AdmittedToday(s) \ {c} /\ c \in AdmittedToday(s)
          BY <1>10, <1>11, <4>1, <4>2
        <5> QED
          BY <5>1, AdmittedFinite, OneLess
      <4>4. TurnsToday(s) = sessions[s].turns /\ TurnsToday(s)' = Less(sessions[s].turns)
        BY <1>3, <1>4, <1>8, <3>4 DEF TurnsToday, Today
      <4>5. Cardinality(AdmittedToday(s)) \in Nat /\ Cardinality(AdmittedToday(s)) # 0
        <5>1. AdmittedToday(s) # {}
          BY <1>11, <4>2
        <5> QED
          BY <5>1, AdmittedFinite, FS_EmptySet
      <4> QED
        BY <3>1, <3>2, <3>4, <4>3, <4>4, <4>5 DEF Less
    <3> QED
      BY <3>3, <3>4
  <2> QED
    BY <2>3 DEF TurnsCover
<1>19. PersonaIsCounted'
  <2>1. ASSUME NEW r \in Sessions, NEW d \in AdmittedToday(r)'
        PROVE  personas'[r][PersonaOf[call'[d].turn]].day = today
    <3>1. d \in AdmittedToday(r) /\ d \in Calls
      BY <1>10, <2>1 DEF AdmittedToday
    <3>2. PersonaOf[call[d].turn] \in Personas
      BY <3>1 DEF ChatInv, CallsAreKnown, AdmittedToday, Admitted
    <3> QED
      BY <1>5, <1>7, <3>1, <3>2 DEF ChatInv, PersonaIsCounted
  <2> QED
    BY <1>8, <2>1 DEF PersonaIsCounted
<1>20. InFlightHasOwner'
  <2>1. ASSUME NEW r \in Sessions, sessions'[r].day = today, sessions'[r].turn # None, sessions'[r].result = None
        PROVE  \E d \in Calls : /\ call'[d].pc \in {"running", "vanished"} /\ call'[d].sid = r
                                /\ call'[d].turn = sessions'[r].turn
    <3>1. sessions'[r] = sessions[r] /\ ~(Undoable(c) /\ r = s)
      BY <1>2, <1>3, <2>1
    <3>2. PICK d \in Calls : /\ call[d].pc \in {"running", "vanished"} /\ call[d].sid = r
                             /\ call[d].turn = sessions[r].turn
      BY <2>1, <3>1 DEF ChatInv, InFlightHasOwner, Today
    <3>3. d # c
      BY <2>1, <3>1, <3>2 DEF Undoable, Holds, Today
    <3>4. call'[d] = call[d]
      BY <3>3 DEF OnlyMoves
    <3> QED
      BY <3>1, <3>2, <3>4
  <2> QED
    BY <1>8, <2>1 DEF InFlightHasOwner, Today
<1>21. OwnAnswerWhenSequential'
  BY DEF OnlyMoves, ChatInv, OwnAnswerWhenSequential
<1>22. DebriefCountsTurns'
  <2>1. ASSUME NEW r \in Sessions \ mixed, NEW q \in Personas, personas'[r][q].day = today
        PROVE  personas'[r][q].turns = Cardinality(AdmittedFor(r, q))'
    <3>1. personas[r][q].turns = Cardinality(AdmittedFor(r, q))
      BY <1>5, <2>1 DEF ChatInv, DebriefCountsTurns
    <3>2. CASE r # s \/ q # p
      <4>1. c \notin AdmittedFor(r, q)
        BY <3>2 DEF AdmittedFor, AdmittedToday
      <4>2. AdmittedFor(r, q)' = AdmittedFor(r, q) /\ personas'[r][q] = personas[r][q]
        BY <1>2, <1>3, <1>10, <2>1, <3>2, <4>1
      <4> QED
        BY <3>1, <4>2
    <3>3. CASE r = s /\ q = p /\ ~Undoable(c)
      <4>1. call[c].pc = "running" => call[c].day # today
        BY <1>9, <2>1, <3>3 DEF Undoable, Holds, Today
      <4>2. AdmittedFor(r, q)' = AdmittedFor(r, q)
        BY <1>10, <4>1 DEF AdmittedFor, AdmittedToday
      <4> QED
        BY <1>2, <3>1, <3>3, <4>2
    <3>4. CASE r = s /\ q = p /\ Undoable(c)
      <4>1. call'[c].pc = "failed" /\ call[c].day = today
        BY <1>1, <1>4, <1>9, <2>1, <3>4
      <4>2. AdmittedFor(s, p)' = AdmittedFor(s, p) \ {c} /\ c \in AdmittedFor(s, p)
        BY <1>10, <1>11, <4>1 DEF AdmittedFor
      <4>3. Cardinality(AdmittedFor(s, p))' = Cardinality(AdmittedFor(s, p)) - 1
        BY <4>2, AdmittedFinite, OneLess
      <4>4. Cardinality(AdmittedFor(s, p)) \in Nat /\ Cardinality(AdmittedFor(s, p)) # 0
        BY <4>2, AdmittedFinite, FS_EmptySet
      <4>5. personas'[s][p].turns = Less(personas[s][p].turns)
        BY <1>3, <1>5, <2>1, <3>4
      <4> QED
        BY <3>1, <3>4, <4>3, <4>4, <4>5 DEF Less
    <3> QED
      BY <3>2, <3>3, <3>4
  <2> QED
    BY <1>8, <2>1 DEF DebriefCountsTurns
<1> QED
  BY <1>12, <1>13, <1>14, <1>15, <1>16, <1>17, <1>18, <1>19, <1>20, <1>21, <1>22 DEF ChatInv

LEMMA ChatStepKeepsChat ==
  ASSUME BudgetTypeOK, ChatInv, NEW c \in Calls, ChatStep(c)
  PROVE  ChatInv'
<1>0. call \in [Calls -> CallStates] /\ call[c] \in CallStates
  BY DEF BudgetTypeOK
<1>1. ASSUME NEW s \in Sessions, NEW t \in Turns, Replay(c, s, t) \/ Refuse(c, s, t) PROVE ChatInv'
  BY <1>1, AsideKeepsChat
<1>2. ASSUME NEW s \in Sessions, NEW t \in Turns, Admit(c, s, t) PROVE ChatInv'
  BY <1>2, AdmitKeepsChat
<1>3. ASSUME NEW cost \in Costs \cup {0}, Settle(c, cost) \/ SettleUnacknowledged(c, cost)
      PROVE  ChatInv'
  <2>1. cost \in 0..Reserve
    OBVIOUS
  <2> QED
    BY <1>3, <2>1, SettleKeepsChat
<1>4. ASSUME NEW cost \in Costs \cup {0}, Fail(c, cost) PROVE ChatInv'
  <2> DEFINE new == [call[c] EXCEPT !.pc = "failed", !.cost = cost, !.end = today]
  <2>1. /\ call' = [call EXCEPT ![c] = new] /\ call[c].pc = "running" /\ FailRow(c, cost)
        /\ today' = today /\ mixed' = mixed
    BY <1>4 DEF Fail
  <2>2. /\ new.pc = "failed" /\ new.sid = call[c].sid /\ new.turn = call[c].turn
        /\ new.day = call[c].day
    BY <1>0 DEF CallStates
  <2> HIDE DEF new
  <2>3. call'[c] = new /\ OnlyMoves(c)
    BY <1>0, <2>1 DEF OnlyMoves
  <2> QED
    BY <2>1, <2>2, <2>3, UndoKeepsChat
<1>5. CASE FailAfterSettle(c)
  <2> DEFINE new == [call[c] EXCEPT !.pc = "recovered"]
  <2>1. /\ call' = [call EXCEPT ![c] = new] /\ call[c].pc = "unsure" /\ FailRow(c, call[c].cost)
        /\ today' = today /\ mixed' = mixed
    BY <1>5 DEF FailAfterSettle
  <2>2. /\ new.pc = "recovered" /\ new.sid = call[c].sid /\ new.turn = call[c].turn
        /\ new.day = call[c].day
    BY <1>0 DEF CallStates
  <2> HIDE DEF new
  <2>3. call'[c] = new /\ OnlyMoves(c)
    BY <1>0, <2>1 DEF OnlyMoves
  <2> QED
    BY <2>1, <2>2, <2>3, UndoKeepsChat
<1>6. CASE Vanish(c)
  <2>1. call[c].sid \in Sessions /\ call[c].turn \in Turns
    BY <1>6 DEF Vanish, ChatInv, CallsAreKnown
  <2> QED
    BY <1>6, <2>1, AsideKeepsChat
<1> QED
  BY <1>1, <1>2, <1>3, <1>4, <1>5, <1>6 DEF ChatStep

LEMMA StepKeepsInv == BudgetInv /\ [Next]_vars => BudgetInv'
<1> SUFFICES ASSUME BudgetTypeOK, TriesLeft, ChatInv, [Next]_vars PROVE BudgetInv'
  BY DEF BudgetInv
<1>1. BudgetTypeOK' /\ TriesLeft'
  BY StepKeepsTypes DEF ChatInv
<1>2. ChatInv'
  <2>1. ASSUME NEW c \in Calls, ChatStep(c) PROVE ChatInv'
    BY <2>1, ChatStepKeepsChat
  <2>2. ASSUME NEW o \in OneShots, ShotStep(o) PROVE ChatInv'
    <3>1. UNCHANGED <<today, sessions, personas, call, mixed>>
      BY <2>2 DEF ShotStep, ReserveShot, ReserveUnacknowledged, RefuseShot, ShotAnswered,
                  SettleShot, SettleShotUnacknowledged, store
    <3> QED
      BY <3>1, QuietKeepsChat
  <2>3. ASSUME NEW k \in Critiques, CritiqueStep(k) PROVE ChatInv'
    <3>1. UNCHANGED <<today, sessions, personas, call, mixed>>
      BY <2>3 DEF CritiqueStep, CheckPool, Charge, store
    <3> QED
      BY <3>1, QuietKeepsChat
  <2>4. CASE Midnight
    BY <2>4, MidnightKeepsChat
  <2>5. CASE UNCHANGED vars
    BY <2>5, QuietKeepsChat DEF vars
  <2> QED
    BY <2>1, <2>2, <2>3, <2>4, <2>5 DEF Next
<1> QED
  BY <1>1, <1>2 DEF BudgetInv


-----------------------------------------------------------------------------
(* The money.                                                              *)

\* The books are of a day that began, and nothing is of a later one than they are.
BooksAreLatest ==
    /\ budget.day <= today
    /\ \A c \in Calls : call[c].day <= budget.day /\ call[c].end <= budget.day
    /\ \A o \in OneShots : shots[o].row # "none" => shots[o].day = budget.day
    /\ \A k \in Critiques : critique[k].day <= budget.day

\* A one-shot is settled by its own settle calls.
SettledLast ==
    \A o \in OneShots : shot[o].pc \in {"reserving", "calling"} => shots[o].row # "settled"

\* The row of a turn knows its pool, and its reserve while the request that made it runs.
RowHasMoney ==
    /\ \A s \in Sessions : sessions[s].turn # None => sessions[s].pool = PoolOf[s]
    /\ \A s \in Sessions \ mixed : \A c \in Running(s) :
          call[c].pc = "running" => sessions[s].reserve = ReserveOf(c)

Booked(p) ==
    Total(CallWorth, BookedCalls(p)) + Total(ShotWorth, ShotsToday(p))
      + Total(CritiqueWorth, Critiqued(p))
Harmless == mixed = {} \/ ~(SettleLost \/ OwnKeyUsed)

\* While nothing overlaps the pools are the sums, also before the first call of a day.
BooksAreExact == mixed = {} => \A p \in Pools : Spent[p] = Booked(p)

\* The pools cover what is exposed, so what is admitted below the cap stays below one
\* reserve more.
PoolsCover ==
    ~MayRetryAcrossMidnight /\ Harmless =>
        \A p \in Pools : Exposure(p) <= Spent[p] /\ Exposure(p) < Cap + Reserve

MoneyInv == BooksAreLatest /\ SettledLast /\ RowHasMoney /\ BooksAreExact /\ PoolsCover

\* All sums are over finite sets of numbers.
LEMMA WorthIsNat ==
  ASSUME BudgetTypeOK
  PROVE  /\ \A c \in Calls : CallWorth[c] \in 0..Reserve
         /\ \A o \in OneShots : ShotWorth[o] \in 0..Reserve
         /\ \A k \in Critiques : CritiqueWorth[k] \in 0..Reserve
BY DEF BudgetTypeOK, CallStates, ShotStates, CritiqueStates, CallWorth, ShotWorth, CritiqueWorth, ReserveOf

LEMMA SumsAreNat ==
  ASSUME BudgetTypeOK
  PROVE  \A p \in Pools : /\ Total(CallWorth, BookedCalls(p)) \in Nat
                          /\ Total(CallWorth, CallsToday(p)) \in Nat
                          /\ Total(ShotWorth, ShotsToday(p)) \in Nat
                          /\ Total(CritiqueWorth, Critiqued(p)) \in Nat
                          /\ Spent[p] \in Nat
<1> TAKE p \in Pools
<1>1. /\ BookedCalls(p) \in SUBSET Calls /\ CallsToday(p) \in SUBSET Calls
      /\ ShotsToday(p) \in SUBSET OneShots /\ Critiqued(p) \in SUBSET Critiques
  BY DEF BookedCalls, CallsToday, ShotsToday, Critiqued
<1>2. /\ IsFiniteSet(BookedCalls(p)) /\ IsFiniteSet(CallsToday(p))
      /\ IsFiniteSet(ShotsToday(p)) /\ IsFiniteSet(Critiqued(p))
  BY <1>1, FS_Subset, FiniteAssumption
<1>3. /\ \A c \in BookedCalls(p) \cup CallsToday(p) : CallWorth[c] \in Nat
      /\ \A o \in ShotsToday(p) : ShotWorth[o] \in Nat
      /\ \A k \in Critiqued(p) : CritiqueWorth[k] \in Nat
  BY <1>1, WorthIsNat
<1>4. Spent[p] \in Nat
  BY RolloverTypes
<1> HIDE DEF CallWorth, ShotWorth, CritiqueWorth
<1> QED
  BY <1>2, <1>3, <1>4, TotalIsNat

\* What one request, or one one-shot, contributes to each sum.
BookPart(c, p) == IF c \in BookedCalls(p) THEN CallWorth[c] ELSE 0
TodayPart(c, p) == IF c \in CallsToday(p) THEN CallWorth[c] ELSE 0
ShotPart(o, p) == IF o \in ShotsToday(p) THEN ShotWorth[o] ELSE 0

LEMMA CallSums ==
  ASSUME BudgetTypeOK, BudgetTypeOK', NEW c \in Calls, OnlyMoves(c), NEW p \in Pools
  PROVE  /\ Total(CallWorth, BookedCalls(p))' - BookPart(c, p)' = Total(CallWorth, BookedCalls(p)) - BookPart(c, p)
         /\ Total(CallWorth, CallsToday(p))' - TodayPart(c, p)' = Total(CallWorth, CallsToday(p)) - TodayPart(c, p)
         /\ Total(CallWorth, BookedCalls(p)) >= BookPart(c, p)
         /\ Total(CallWorth, CallsToday(p)) >= TodayPart(c, p)
         /\ BookPart(c, p) \in 0..Reserve /\ BookPart(c, p)' \in 0..Reserve
         /\ TodayPart(c, p) \in 0..Reserve /\ TodayPart(c, p)' \in 0..Reserve
<1>1. /\ BookedCalls(p) \in SUBSET Calls /\ CallsToday(p) \in SUBSET Calls
      /\ BookedCalls(p)' \in SUBSET Calls /\ CallsToday(p)' \in SUBSET Calls
  BY DEF BookedCalls, CallsToday
<1>2. /\ BookedCalls(p)' \ {c} = BookedCalls(p) \ {c} /\ CallsToday(p)' \ {c} = CallsToday(p) \ {c}
  BY DEF BookedCalls, CallsToday, OnlyMoves
<1>3. \A d \in Calls \ {c} : CallWorth'[d] = CallWorth[d]
  BY DEF CallWorth, OnlyMoves, ReserveOf
<1>4. \A d \in Calls : CallWorth[d] \in 0..Reserve /\ CallWorth'[d] \in 0..Reserve
  <2>1. \A d \in Calls : CallWorth[d] \in 0..Reserve
    BY WorthIsNat
  <2>2. (\A d \in Calls : CallWorth[d] \in 0..Reserve)'
    BY DEF BudgetTypeOK, CallStates, CallWorth, ReserveOf
  <2> QED
    BY <2>1, <2>2
<1> DEFINE v == CallWorth
           w == CallWorth'
           S1 == BookedCalls(p)
           R1 == BookedCalls(p)'
           S2 == CallsToday(p)
           R2 == CallsToday(p)'
<1>5. /\ \A d \in Calls : v[d] \in Nat /\ w[d] \in Nat
      /\ \A d \in S1 \ {c} : v[d] = w[d]
      /\ \A d \in S2 \ {c} : v[d] = w[d]
  BY <1>1, <1>3, <1>4
<1> HIDE DEF v, w, S1, R1, S2, R2
<1>6. /\ Total(v, S1) \in Nat /\ Total(w, R1) \in Nat
      /\ Total(w, R1) - (IF c \in R1 THEN w[c] ELSE 0) = Total(v, S1) - (IF c \in S1 THEN v[c] ELSE 0)
      /\ Total(v, S1) >= (IF c \in S1 THEN v[c] ELSE 0)
  BY <1>1, <1>2, <1>5, TotalChanges DEF S1, R1
<1>7. /\ Total(v, S2) \in Nat /\ Total(w, R2) \in Nat
      /\ Total(w, R2) - (IF c \in R2 THEN w[c] ELSE 0) = Total(v, S2) - (IF c \in S2 THEN v[c] ELSE 0)
      /\ Total(v, S2) >= (IF c \in S2 THEN v[c] ELSE 0)
  BY <1>1, <1>2, <1>5, TotalChanges DEF S2, R2
<1> QED
  BY <1>4, <1>6, <1>7 DEF v, w, S1, R1, S2, R2, BookPart, TodayPart

\* A row of the day survives the rollover, and only such a row does.
LEMMA SweptIsToday ==
  ASSUME BudgetTypeOK, BooksAreLatest, NEW o \in OneShots
  PROVE  /\ Swept[o].row # "none" => Swept[o] = shots[o] /\ shots[o].day = today
         /\ shots[o].row # "none" /\ shots[o].day = today => Swept[o] = shots[o]
BY DEF BudgetTypeOK, BooksAreLatest, Swept, ShotRows

LEMMA ShotSums ==
  ASSUME BudgetTypeOK, BudgetTypeOK', BooksAreLatest, today' = today, NEW o \in OneShots,
         \A q \in OneShots \ {o} : shots'[q] \in {Swept[q], shots[q]} /\ shot'[q] = shot[q], NEW p \in Pools
  PROVE  /\ Total(ShotWorth, ShotsToday(p))' - ShotPart(o, p)' = Total(ShotWorth, ShotsToday(p)) - ShotPart(o, p)
         /\ Total(ShotWorth, ShotsToday(p)) >= ShotPart(o, p)
         /\ ShotPart(o, p) \in 0..Reserve /\ ShotPart(o, p)' \in 0..Reserve
<1>0. \A q \in OneShots \ {o} :
         /\ shots'[q].row # "none" /\ shots'[q].day = today => shots'[q] = shots[q]
         /\ shots[q].row # "none" /\ shots[q].day = today => shots'[q] = shots[q]
  BY SweptIsToday
<1>1. ShotsToday(p) \in SUBSET OneShots /\ ShotsToday(p)' \in SUBSET OneShots
  BY DEF ShotsToday
<1>2. ShotsToday(p) \ {o} = ShotsToday(p)' \ {o}
  BY <1>0 DEF ShotsToday
<1>3. \A q \in ShotsToday(p) \ {o} : ShotWorth[q] = ShotWorth'[q]
  BY <1>0 DEF ShotsToday, ShotWorth
<1>4. \A q \in OneShots : ShotWorth[q] \in 0..Reserve /\ ShotWorth'[q] \in 0..Reserve
  <2>1. \A q \in OneShots : ShotWorth[q] \in 0..Reserve
    BY WorthIsNat
  <2>2. (\A q \in OneShots : ShotWorth[q] \in 0..Reserve)'
    BY DEF BudgetTypeOK, ShotStates, ShotWorth
  <2> QED
    BY <2>1, <2>2
<1> DEFINE v == ShotWorth
           w == ShotWorth'
           S == ShotsToday(p)
           R == ShotsToday(p)'
<1>5. \A q \in OneShots : v[q] \in Nat /\ w[q] \in Nat
  BY <1>4
<1>6. IsFiniteSet(OneShots)
  BY FiniteAssumption
<1> HIDE DEF v, w, S, R
<1>7. /\ Total(w, R) - (IF o \in R THEN w[o] ELSE 0) = Total(v, S) - (IF o \in S THEN v[o] ELSE 0)
      /\ Total(v, S) >= (IF o \in S THEN v[o] ELSE 0)
  BY <1>1, <1>2, <1>3, <1>5, <1>6, TotalChanges DEF v, w, S, R
<1> QED
  BY <1>4, <1>7 DEF v, w, S, R, ShotPart

\* What does not move keeps its sum.
LEMMA QuietShots ==
  ASSUME BudgetTypeOK, BooksAreLatest, today' = today, shots' = Swept \/ shots' = shots, shot' = shot,
         NEW p \in Pools
  PROVE  Total(ShotWorth, ShotsToday(p))' = Total(ShotWorth, ShotsToday(p))
<1>1. \A q \in OneShots :
         /\ shots'[q].row # "none" /\ shots'[q].day = today => shots'[q] = shots[q]
         /\ shots[q].row # "none" /\ shots[q].day = today => shots'[q] = shots[q]
  BY SweptIsToday
<1>2. ShotsToday(p)' = ShotsToday(p) /\ ShotsToday(p) \in SUBSET OneShots
  BY <1>1 DEF ShotsToday
<1>3. \A q \in ShotsToday(p) : ShotWorth[q] = ShotWorth'[q]
  BY <1>1 DEF ShotsToday, ShotWorth
<1>4. IsFiniteSet(ShotsToday(p))
  BY <1>2, FiniteAssumption, FS_Subset
<1> DEFINE v == ShotWorth
           w == ShotWorth'
           S == ShotsToday(p)
<1> HIDE DEF v, w, S
<1>5. Total(v, S) = Total(w, S)
  BY <1>3, <1>4, TotalAgrees DEF v, w, S
<1> QED
  BY <1>2, <1>5 DEF v, w, S

LEMMA QuietCalls ==
  ASSUME today' = today, call' = call, NEW p \in Pools
  PROVE  /\ Total(CallWorth, BookedCalls(p))' = Total(CallWorth, BookedCalls(p))
         /\ Total(CallWorth, CallsToday(p))' = Total(CallWorth, CallsToday(p))
BY DEF CallWorth, BookedCalls, CallsToday, ReserveOf

LEMMA QuietCritiques ==
  ASSUME today' = today, critique' = critique, NEW p \in Pools
  PROVE  Total(CritiqueWorth, Critiqued(p))' = Total(CritiqueWorth, Critiqued(p))
BY DEF CritiqueWorth, Critiqued

\* What the pools and the sums must do to each other in a step.
Follows(p) ==
    /\ mixed' = {} => mixed = {} /\ Spent'[p] - Booked(p)' = Spent[p] - Booked(p)
    /\ ~MayRetryAcrossMidnight /\ Harmless' =>
          /\ Harmless /\ Spent'[p] - Exposure(p)' >= Spent[p] - Exposure(p)
          /\ \/ Exposure(p)' <= Exposure(p)
             \/ Spent[p] < Cap /\ Exposure(p)' <= Exposure(p) + Reserve

Numbers == \A p \in Pools : Booked(p) \in Nat /\ Exposure(p) \in Nat /\ Spent[p] \in Nat

LEMMA SumsAreNumbers == BudgetTypeOK => Numbers
BY SumsAreNat DEF Booked, Exposure, Numbers

LEMMA FollowingKeepsBooks ==
  ASSUME BudgetTypeOK, BudgetTypeOK', BooksAreExact, PoolsCover, \A p \in Pools : Follows(p)
  PROVE  BooksAreExact' /\ PoolsCover'
<1>1. Numbers
  BY SumsAreNumbers
<1>2. Numbers'
  <2>1. (BudgetTypeOK => Numbers)'
    BY SumsAreNumbers, PTL
  <2> QED
    BY <2>1
<1>3. BooksAreExact'
  BY <1>1, <1>2 DEF Numbers, BooksAreExact, Follows
<1>4. PoolsCover'
  BY <1>1, <1>2 DEF Numbers, PoolsCover, Follows
<1> QED
  BY <1>3, <1>4

LEMMA BookIs ==
  ASSUME today' = today, NEW spent, Book(spent)
  PROVE  Spent' = spent /\ budget'.day = today
BY DEF Book, Spent

LEMMA HarmlessBefore ==
  ASSUME NEW c \in Calls, OnlyMoves(c), mixed \subseteq mixed',
         call[c].pc \in Admitted \cup {"failed"} => call'[c].pc \in Admitted \cup {"failed"},
         call[c].pc \in {"unsure", "recovered"} => call'[c].pc \in {"unsure", "recovered"}
  PROVE  (Harmless' => Harmless) /\ (mixed' = {} => mixed = {})
<1>1. SettleLost => SettleLost'
  BY DEF SettleLost, OnlyMoves
<1>2. OwnKeyUsed => OwnKeyUsed'
  BY DEF OwnKeyUsed, OnlyMoves, Admitted
<1>3. mixed' = {} => mixed = {}
  OBVIOUS
<1> QED
  BY <1>1, <1>2, <1>3 DEF Harmless

LEMMA ChatFollows ==
  ASSUME BudgetTypeOK, BudgetTypeOK', BooksAreLatest, NEW c \in Calls, OnlyMoves(c),
         shots' = Swept \/ shots' = shots, shot' = shot, critique' = critique, NEW p \in Pools,
         mixed' = {} => mixed = {} /\ Spent'[p] - BookPart(c, p)' = Spent[p] - BookPart(c, p),
         ~MayRetryAcrossMidnight /\ Harmless' =>
           /\ Harmless /\ Spent'[p] - TodayPart(c, p)' >= Spent[p] - TodayPart(c, p)
           /\ \/ TodayPart(c, p)' <= TodayPart(c, p)
              \/ Spent[p] < Cap /\ TodayPart(c, p)' <= TodayPart(c, p) + Reserve
  PROVE  Follows(p)
<1>0. today' = today
  BY DEF OnlyMoves
<1>1. /\ Total(CallWorth, BookedCalls(p)) \in Nat /\ Total(CallWorth, CallsToday(p)) \in Nat
      /\ Total(ShotWorth, ShotsToday(p)) \in Nat /\ Total(CritiqueWorth, Critiqued(p)) \in Nat
      /\ Spent[p] \in Nat
  BY SumsAreNat
<1>2. Numbers'
  <2>1. (BudgetTypeOK => Numbers)'
    BY SumsAreNumbers, PTL
  <2> QED
    BY <2>1
<1>3. /\ Total(ShotWorth, ShotsToday(p))' = Total(ShotWorth, ShotsToday(p))
      /\ Total(CritiqueWorth, Critiqued(p))' = Total(CritiqueWorth, Critiqued(p))
  BY <1>0, QuietShots, QuietCritiques
<1> DEFINE b == Total(CallWorth, BookedCalls(p))
           e == Total(CallWorth, CallsToday(p))
           b2 == Total(CallWorth, BookedCalls(p))'
           e2 == Total(CallWorth, CallsToday(p))'
<1>4. /\ b2 - BookPart(c, p)' = b - BookPart(c, p) /\ e2 - TodayPart(c, p)' = e - TodayPart(c, p)
      /\ BookPart(c, p) \in 0..Reserve /\ BookPart(c, p)' \in 0..Reserve
      /\ TodayPart(c, p) \in 0..Reserve /\ TodayPart(c, p)' \in 0..Reserve
  BY CallSums
<1>5. /\ Booked(p) = b + Total(ShotWorth, ShotsToday(p)) + Total(CritiqueWorth, Critiqued(p))
      /\ Booked(p)' = b2 + Total(ShotWorth, ShotsToday(p)) + Total(CritiqueWorth, Critiqued(p))
      /\ Exposure(p) = e + Total(ShotWorth, ShotsToday(p))
      /\ Exposure(p)' = e2 + Total(ShotWorth, ShotsToday(p))
  BY <1>3 DEF Booked, Exposure
<1>6. b \in Nat /\ e \in Nat
  BY <1>1
<1>7. b2 \in Int /\ e2 \in Int
  <2> DEFINE w == CallWorth'
             B == BookedCalls(p)'
             E == CallsToday(p)'
  <2>1. \A d \in Calls : w[d] \in Nat
    BY DEF BudgetTypeOK, CallStates, CallWorth, ReserveOf
  <2>2. B \subseteq Calls /\ E \subseteq Calls
    BY DEF BookedCalls, CallsToday
  <2>3. IsFiniteSet(B) /\ IsFiniteSet(E)
    BY <2>2, FS_Subset
  <2> HIDE DEF w, B, E
  <2>4. Total(w, B) \in Nat /\ Total(w, E) \in Nat
    BY <2>1, <2>2, <2>3, TotalIsNat
  <2> QED
    BY <2>4 DEF w, B, E
<1> HIDE DEF b, e, b2, e2
<1>8. Spent'[p] \in Nat /\ Spent[p] \in Nat
  BY <1>1, <1>2 DEF Numbers
<1> QED
  BY <1>1, <1>4, <1>5, <1>6, <1>7, <1>8 DEF Follows

\* Requests that are refused, answered from the row, or die, owe what they owed.
LEMMA AsideFollows ==
  ASSUME BudgetTypeOK, BudgetTypeOK', BooksAreLatest, NEW c \in Calls, NEW s \in Sessions, NEW t \in Turns,
         Replay(c, s, t) \/ Refuse(c, s, t) \/ Vanish(c), NEW p \in Pools
  PROVE  Follows(p)
<1>1. /\ OnlyMoves(c) /\ (shots' = Swept \/ shots' = shots) /\ shot' = shot /\ critique' = critique
      /\ mixed' = mixed
  BY DEF Replay, Refuse, Vanish, OnlyMoves, BudgetTypeOK
<1>2. Spent' = Spent
  <2>1. CASE Replay(c, s, t) \/ Refuse(c, s, t)
    BY <2>1, BookIs DEF Replay, Refuse
  <2>2. CASE Vanish(c)
    BY <2>2 DEF Vanish, Spent
  <2> QED
    BY <2>1, <2>2
<1>3. /\ call[c] \in CallStates
      /\ \/ call[c].pc = "idle" /\ call'[c].pc \in {"replayed", "refused"}
         \/ call[c].pc = "running" /\ call'[c] = [call[c] EXCEPT !.pc = "vanished"]
  <2>0. call \in [Calls -> CallStates] /\ call[c] \in CallStates
    BY DEF BudgetTypeOK
  <2>1. CASE Replay(c, s, t)
    BY <2>0, <2>1 DEF Replay, Arrives, CallStates
  <2>2. CASE Refuse(c, s, t)
    BY <2>0, <2>2 DEF Refuse, Arrives, CallStates
  <2>3. CASE Vanish(c)
    BY <2>0, <2>3 DEF Vanish
  <2> QED
    BY <2>0, <2>1, <2>2, <2>3
<1>4. BookPart(c, p)' = BookPart(c, p) /\ TodayPart(c, p)' = TodayPart(c, p)
  <2>1. CASE call[c].pc = "idle" /\ call'[c].pc \in {"replayed", "refused"}
    BY <2>1 DEF BookPart, TodayPart, BookedCalls, CallsToday, Admitted
  <2>2. CASE call[c].pc = "running" /\ call'[c] = [call[c] EXCEPT !.pc = "vanished"]
    <3>1. /\ call'[c].pc = "vanished" /\ call'[c].sid = call[c].sid /\ call'[c].day = call[c].day
          /\ today' = today
      BY <1>1, <1>3, <2>2 DEF CallStates, OnlyMoves
    <3> QED
      BY <2>2, <3>1 DEF BookPart, TodayPart, BookedCalls, CallsToday, Admitted, CallWorth, ReserveOf
  <2> QED
    BY <1>3, <2>1, <2>2
<1>5. (Harmless' => Harmless) /\ (mixed' = {} => mixed = {})
  BY <1>1, <1>3, HarmlessBefore DEF Admitted, CallStates
<1>6. Spent[p] \in Nat /\ BookPart(c, p) \in 0..Reserve /\ TodayPart(c, p) \in 0..Reserve
  BY <1>1, SumsAreNat, CallSums
<1> QED
  BY <1>1, <1>2, <1>4, <1>5, <1>6, ChatFollows

\* Admission below the cap reserves what the call may cost.
LEMMA AdmitFollows ==
  ASSUME BudgetTypeOK, BudgetTypeOK', BooksAreLatest, NEW c \in Calls, NEW s \in Sessions, NEW t \in Turns,
         Admit(c, s, t), NEW p \in Pools
  PROVE  Follows(p)
<1>0. call \in [Calls -> CallStates] /\ call[c] \in CallStates /\ PoolOf[s] \in Pools
  BY DEF BudgetTypeOK
<1>1. /\ OnlyMoves(c) /\ shots' = Swept /\ shot' = shot /\ critique' = critique
      /\ mixed \subseteq mixed' /\ today' = today
      /\ call[c].pc = "idle" /\ call'[c] = [call[c] EXCEPT !.pc = "running", !.sid = s, !.turn = t, !.day = today]
      /\ Byok(c) \/ Spent[PoolOf[s]] < Cap
  BY <1>0 DEF Admit, Arrives, OnlyMoves
<1>2. /\ call'[c].pc = "running" /\ call'[c].sid = s /\ call'[c].day = today
  BY <1>0, <1>1 DEF CallStates
<1>3. Spent' = Adjusted(PoolOf[s], 0, ReserveOf(c))
  BY <1>1, BookIs DEF Admit, Reserved
<1>4. Spent \in [Pools -> Nat] /\ Spent[p] \in Nat /\ ReserveOf(c) \in {0, Reserve} /\ ReserveOf(c) \in Nat
  BY RolloverTypes DEF ReserveOf
<1>5. Spent'[p] = IF p = PoolOf[s] THEN Spent[p] + ReserveOf(c) ELSE Spent[p]
  BY <1>3, <1>4 DEF Adjusted
<1>6. /\ BookPart(c, p) = 0 /\ TodayPart(c, p) = 0
      /\ BookPart(c, p)' = IF p = PoolOf[s] THEN ReserveOf(c) ELSE 0
      /\ TodayPart(c, p)' = IF p = PoolOf[s] THEN ReserveOf(c) ELSE 0
  BY <1>1, <1>2 DEF BookPart, TodayPart, BookedCalls, CallsToday, Admitted, CallWorth, ReserveOf
<1>7. (Harmless' => Harmless) /\ (mixed' = {} => mixed = {})
  BY <1>1, <1>2, HarmlessBefore DEF Admitted
<1>8. TodayPart(c, p)' > 0 => Spent[p] < Cap
  BY <1>1, <1>6 DEF ReserveOf
<1> QED
  BY <1>1, <1>4, <1>5, <1>6, <1>7, <1>8, ChatFollows

\* The row a running request settles or undoes: its own where requests do not overlap,
\* otherwise one of the same turn and day, or none.
LEMMA RowOfRunner ==
  ASSUME BudgetTypeOK, ChatInv, RowHasMoney, NEW c \in Calls, call[c].pc = "running",
         NEW s \in Sessions, s = call[c].sid
  PROVE  /\ mixed = {} => /\ (Holds(s, call[c].turn) <=> call[c].day = today)
                          /\ sessions[s].reserve = ReserveOf(c) /\ sessions[s].result = None
                          /\ BilledPool(sessions[s]) = PoolOf[s]
         /\ ~MayRetryAcrossMidnight /\ Holds(s, call[c].turn) =>
                call[c].day = today /\ BilledPool(sessions[s]) = PoolOf[s]
         /\ sessions[s].reserve \in {0, Reserve}
<1>1. c \in Running(s) /\ call[c].turn \in Turns /\ call[c].turn # None
  BY DEF Running, ChatInv, CallsAreKnown
<1>2. PoolOf[s] # None
  OBVIOUS
<1>3. mixed = {} => /\ sessions[s].turn = call[c].turn /\ sessions[s].day = call[c].day
                    /\ sessions[s].result = None /\ sessions[s].reserve = ReserveOf(c)
  BY <1>1 DEF ChatInv, RunnerHasRow, RowHasMoney
<1>4. sessions[s].turn = call[c].turn => BilledPool(sessions[s]) = PoolOf[s]
  BY <1>1, <1>2 DEF RowHasMoney, BilledPool
<1>5. ~MayRetryAcrossMidnight /\ Holds(s, call[c].turn) => call[c].day = today
  BY <1>1 DEF ChatInv, NoStaleTwin
<1>6. sessions[s].reserve \in {0, Reserve}
  BY DEF BudgetTypeOK, SessionRows
<1> QED
  BY <1>3, <1>4, <1>5, <1>6 DEF Holds, Today

\* The price takes the place of the reserve, in the pool of the session.
LEMMA SettleFollows ==
  ASSUME BudgetTypeOK, BudgetTypeOK', ChatInv, MoneyInv, NEW c \in Calls, NEW cost \in 0..Reserve,
         Settle(c, cost) \/ SettleUnacknowledged(c, cost), NEW p \in Pools
  PROVE  Follows(p)
<1>0. call \in [Calls -> CallStates] /\ call[c] \in CallStates
  BY DEF BudgetTypeOK
<1>1. /\ OnlyMoves(c) /\ shots' = Swept /\ shot' = shot /\ critique' = critique
      /\ mixed' = mixed /\ today' = today
      /\ call[c].pc = "running" /\ SettleRow(c, cost) /\ PriceOf(c, cost)
  BY <1>0 DEF Settle, SettleUnacknowledged, SettleRow, OnlyMoves
<1>2. /\ call'[c].pc \in {"settled", "unsure"} /\ call'[c].sid = call[c].sid /\ call'[c].day = call[c].day
      /\ call'[c].end = today /\ call'[c].cost = cost
  <2>1. CASE Settle(c, cost)
    BY <1>0, <2>1 DEF CallStates, Settle
  <2>2. CASE SettleUnacknowledged(c, cost)
    BY <1>0, <2>2 DEF CallStates, SettleUnacknowledged
  <2> QED
    BY <2>1, <2>2
<1>s. PICK s \in Sessions : s = call[c].sid
  BY <1>1 DEF ChatInv, CallsAreKnown
<1>r. PICK released \in {0, Reserve} :
         released = IF Holds(s, call[c].turn) THEN sessions[s].reserve ELSE 0
  BY <1>1, <1>s, RowOfRunner DEF MoneyInv
<1>3. Spent' = Adjusted(BilledPool(sessions[s]), released, cost)
  <2>1. Book(Adjusted(BilledPool(sessions[s]), released, cost))
    BY <1>1, <1>s, <1>r DEF SettleRow
  <2> QED
    BY <1>1, <2>1, BookIs
<1>4. /\ p = BilledPool(sessions[s]) =>
           Spent'[p] = IF Spent[p] - released + cost < 0 THEN 0 ELSE Spent[p] - released + cost
      /\ p # BilledPool(sessions[s]) => Spent'[p] = Spent[p]
      /\ Spent[p] \in Nat
  <2>1. Spent \in [Pools -> Nat]
    BY RolloverTypes
  <2> QED
    BY <1>3, <2>1 DEF Adjusted
<1>5. /\ BookPart(c, p) = IF p = PoolOf[s] /\ call[c].day = today THEN ReserveOf(c) ELSE 0
      /\ TodayPart(c, p) = IF p = PoolOf[s] /\ call[c].day = today THEN ReserveOf(c) ELSE 0
      /\ BookPart(c, p)' = IF p = PoolOf[s] THEN cost ELSE 0
      /\ TodayPart(c, p)' = IF p = PoolOf[s] /\ call[c].day = today THEN cost ELSE 0
  BY <1>1, <1>2, <1>s DEF BookPart, TodayPart, BookedCalls, CallsToday, Admitted, CallWorth
<1>6. (Harmless' => Harmless) /\ (mixed' = {} => mixed = {})
  BY <1>1, <1>2, HarmlessBefore DEF Admitted
<1>7. cost <= ReserveOf(c) /\ cost \in Nat /\ ReserveOf(c) \in Nat
  BY <1>1 DEF PriceOf, ReserveOf
<1>8. BookPart(c, p) <= Spent[p] \/ mixed # {}
  <2>1. /\ Total(CallWorth, BookedCalls(p)) >= BookPart(c, p) /\ BookPart(c, p) \in 0..Reserve
    BY <1>1, CallSums
  <2>2. /\ Total(CallWorth, BookedCalls(p)) \in Nat /\ Total(ShotWorth, ShotsToday(p)) \in Nat
        /\ Total(CritiqueWorth, Critiqued(p)) \in Nat
    BY SumsAreNat
  <2>3. mixed = {} => Spent[p] = Total(CallWorth, BookedCalls(p)) + Total(ShotWorth, ShotsToday(p))
                                   + Total(CritiqueWorth, Critiqued(p))
    BY DEF MoneyInv, BooksAreExact, Booked
  <2> QED
    BY <2>1, <2>2, <2>3
<1>9. /\ mixed = {} => /\ released = IF call[c].day = today THEN ReserveOf(c) ELSE 0
                       /\ BilledPool(sessions[s]) = PoolOf[s]
      /\ ~MayRetryAcrossMidnight /\ released # 0 => call[c].day = today /\ BilledPool(sessions[s]) = PoolOf[s]
  BY <1>1, <1>s, <1>r, RowOfRunner DEF MoneyInv
<1>10. Harmless' => mixed = {} \/ ReserveOf(c) = Reserve
  BY <1>1, <1>2 DEF Harmless, OwnKeyUsed, Admitted, ReserveOf, Byok
<1>11. mixed' = {} => mixed = {} /\ Spent'[p] - BookPart(c, p)' = Spent[p] - BookPart(c, p)
  BY <1>1, <1>4, <1>5, <1>7, <1>8, <1>9
<1>12. ~MayRetryAcrossMidnight /\ Harmless' =>
         /\ Spent'[p] - TodayPart(c, p)' >= Spent[p] - TodayPart(c, p)
         /\ TodayPart(c, p)' <= TodayPart(c, p)
  <2>1. TodayPart(c, p)' <= TodayPart(c, p)
    BY <1>5, <1>7
  <2>2. CASE mixed = {}
    BY <1>4, <1>5, <1>7, <1>8, <1>9, <2>1, <2>2
  <2>3. CASE ~MayRetryAcrossMidnight /\ ReserveOf(c) = Reserve
    BY <1>4, <1>5, <1>7, <1>9, <2>1, <2>3
  <2> QED
    BY <1>10, <2>1, <2>2, <2>3
<1> QED
  BY <1>1, <1>6, <1>11, <1>12, ChatFollows DEF MoneyInv

\* A failed turn gives its reserve back and keeps the price of what it did buy.
LEMMA FailFollows ==
  ASSUME BudgetTypeOK, BudgetTypeOK', ChatInv, MoneyInv, NEW c \in Calls, NEW cost \in 0..Reserve,
         Fail(c, cost), NEW p \in Pools
  PROVE  Follows(p)
<1>0. call \in [Calls -> CallStates] /\ call[c] \in CallStates
  BY DEF BudgetTypeOK
<1>1. /\ OnlyMoves(c) /\ shots' = Swept /\ shot' = shot /\ critique' = critique
      /\ mixed' = mixed /\ today' = today
      /\ call[c].pc = "running" /\ FailRow(c, cost) /\ PriceOf(c, cost)
  BY <1>0 DEF Fail, FailRow, OnlyMoves
<1>2. /\ call'[c].pc = "failed" /\ call'[c].sid = call[c].sid /\ call'[c].day = call[c].day
      /\ call'[c].end = today /\ call'[c].cost = cost
  BY <1>0 DEF CallStates, Fail
<1>s. PICK s \in Sessions : s = call[c].sid
  BY <1>1 DEF ChatInv, CallsAreKnown
<1>3. sessions[s].reserve \in {0, Reserve} /\ Spent \in [Pools -> Nat] /\ Spent[p] \in Nat
  BY <1>1, <1>s, RowOfRunner, RolloverTypes DEF MoneyInv
<1>4. /\ Undoable(c) => Spent' = Adjusted(BilledPool(sessions[s]), sessions[s].reserve, cost)
      /\ ~Undoable(c) => Spent' = Spent
  BY <1>1, <1>s, BookIs DEF FailRow
<1>5. /\ Undoable(c) /\ p = BilledPool(sessions[s]) =>
           Spent'[p] = IF Spent[p] - sessions[s].reserve + cost < 0 THEN 0
                       ELSE Spent[p] - sessions[s].reserve + cost
      /\ ~Undoable(c) \/ p # BilledPool(sessions[s]) => Spent'[p] = Spent[p]
  BY <1>3, <1>4 DEF Adjusted
<1>6. /\ BookPart(c, p) = IF p = PoolOf[s] /\ call[c].day = today THEN ReserveOf(c) ELSE 0
      /\ TodayPart(c, p) = IF p = PoolOf[s] /\ call[c].day = today THEN ReserveOf(c) ELSE 0
      /\ BookPart(c, p)' = IF p = PoolOf[s] /\ call[c].day = today THEN cost ELSE 0
      /\ TodayPart(c, p)' = IF p = PoolOf[s] /\ call[c].day = today THEN cost ELSE 0
  BY <1>1, <1>2, <1>s DEF BookPart, TodayPart, BookedCalls, CallsToday, Admitted, CallWorth
<1>7. cost <= ReserveOf(c) /\ cost \in Nat /\ ReserveOf(c) \in Nat
  BY <1>1 DEF PriceOf, ReserveOf
<1>8. BookPart(c, p) <= Spent[p] \/ mixed # {}
  <2>1. /\ Total(CallWorth, BookedCalls(p)) >= BookPart(c, p) /\ BookPart(c, p) \in 0..Reserve
    BY <1>1, CallSums
  <2>2. /\ Total(CallWorth, BookedCalls(p)) \in Nat /\ Total(ShotWorth, ShotsToday(p)) \in Nat
        /\ Total(CritiqueWorth, Critiqued(p)) \in Nat
    BY SumsAreNat
  <2>3. mixed = {} => Spent[p] = Total(CallWorth, BookedCalls(p)) + Total(ShotWorth, ShotsToday(p))
                                   + Total(CritiqueWorth, Critiqued(p))
    BY DEF MoneyInv, BooksAreExact, Booked
  <2> QED
    BY <2>1, <2>2, <2>3
<1>9. /\ mixed = {} => /\ (Undoable(c) <=> call[c].day = today) /\ sessions[s].reserve = ReserveOf(c)
                       /\ BilledPool(sessions[s]) = PoolOf[s]
      /\ ~MayRetryAcrossMidnight /\ Undoable(c) => call[c].day = today /\ BilledPool(sessions[s]) = PoolOf[s]
  BY <1>1, <1>s, RowOfRunner DEF MoneyInv, Undoable
<1>10. (Harmless' => Harmless) /\ (mixed' = {} => mixed = {})
  BY <1>1, <1>2, HarmlessBefore DEF Admitted
<1>11. Harmless' => mixed = {} \/ ReserveOf(c) = Reserve
  BY <1>1, <1>2 DEF Harmless, OwnKeyUsed, Admitted, ReserveOf, Byok
<1>12. mixed' = {} => mixed = {} /\ Spent'[p] - BookPart(c, p)' = Spent[p] - BookPart(c, p)
  BY <1>1, <1>3, <1>5, <1>6, <1>7, <1>8, <1>9
<1>13. ~MayRetryAcrossMidnight /\ Harmless' =>
         /\ Spent'[p] - TodayPart(c, p)' >= Spent[p] - TodayPart(c, p)
         /\ TodayPart(c, p)' <= TodayPart(c, p)
  <2>1. TodayPart(c, p)' <= TodayPart(c, p)
    BY <1>6, <1>7
  <2>2. CASE mixed = {}
    BY <1>3, <1>5, <1>6, <1>7, <1>8, <1>9, <2>1, <2>2
  <2>3. CASE ~MayRetryAcrossMidnight /\ ReserveOf(c) = Reserve
    BY <1>3, <1>5, <1>6, <1>7, <1>9, <2>1, <2>3
  <2> QED
    BY <1>11, <2>1, <2>2, <2>3
<1> QED
  BY <1>1, <1>10, <1>12, <1>13, ChatFollows DEF MoneyInv

\* The fallback finds the settled answer and moves no money.
LEMMA FallbackFollows ==
  ASSUME BudgetTypeOK, BudgetTypeOK', ChatInv, MoneyInv, NEW c \in Calls, FailAfterSettle(c), NEW p \in Pools
  PROVE  Follows(p)
<1>0. call \in [Calls -> CallStates] /\ call[c] \in CallStates
  BY DEF BudgetTypeOK
<1>1. /\ OnlyMoves(c) /\ shots' = Swept /\ shot' = shot /\ critique' = critique
      /\ mixed' = mixed /\ today' = today
      /\ call[c].pc = "unsure" /\ FailRow(c, call[c].cost)
  BY <1>0 DEF FailAfterSettle, FailRow, OnlyMoves
<1>2. /\ call'[c].pc = "recovered" /\ call'[c].sid = call[c].sid /\ call'[c].day = call[c].day
      /\ call'[c].end = call[c].end /\ call'[c].cost = call[c].cost
  BY <1>0 DEF CallStates, FailAfterSettle
<1>3. call[c].sid \in Sessions /\ call[c].turn # None /\ c \in Running(call[c].sid)
  BY <1>1 DEF ChatInv, CallsAreKnown, Running
<1>4. mixed = {} => ~Undoable(c)
  BY <1>1, <1>3 DEF ChatInv, RunnerHasRow, Undoable
<1>5. mixed = {} => Spent' = Spent
  BY <1>1, <1>4, BookIs DEF FailRow
<1>6. BookPart(c, p)' = BookPart(c, p) /\ TodayPart(c, p)' = TodayPart(c, p)
  BY <1>1, <1>2 DEF BookPart, TodayPart, BookedCalls, CallsToday, Admitted, CallWorth
<1>7. Harmless' => mixed = {}
  BY <1>1, <1>2 DEF Harmless, SettleLost
<1>8. Spent[p] \in Nat /\ BookPart(c, p) \in 0..Reserve /\ TodayPart(c, p) \in 0..Reserve
  BY <1>1, SumsAreNat, CallSums
<1> QED
  BY <1>1, <1>5, <1>6, <1>7, <1>8, ChatFollows DEF MoneyInv, Harmless

LEMMA ChatStepFollows ==
  ASSUME BudgetTypeOK, BudgetTypeOK', ChatInv, MoneyInv, NEW c \in Calls, ChatStep(c), NEW p \in Pools
  PROVE  Follows(p)
<1>1. CASE \E s \in Sessions, t \in Turns : Replay(c, s, t) \/ Refuse(c, s, t) \/ Admit(c, s, t)
  BY <1>1, AsideFollows, AdmitFollows DEF MoneyInv
<1>2. \A cost \in Costs \cup {0} : cost \in 0..Reserve
  OBVIOUS
<1>3. CASE \E cost \in Costs \cup {0} : Settle(c, cost) \/ SettleUnacknowledged(c, cost) \/ Fail(c, cost)
  BY <1>2, <1>3, SettleFollows, FailFollows
<1>4. CASE FailAfterSettle(c)
  BY <1>4, FallbackFollows
<1>5. CASE Vanish(c)
  <2>1. call[c].sid \in Sessions /\ call[c].turn \in Turns
    BY <1>5 DEF Vanish, ChatInv, CallsAreKnown
  <2> QED
    BY <1>5, <2>1, AsideFollows DEF MoneyInv
<1> QED
  BY <1>1, <1>3, <1>4, <1>5 DEF ChatStep

LEMMA ShotFollows ==
  ASSUME BudgetTypeOK, BudgetTypeOK', MoneyInv, today' = today, call' = call, critique' = critique, mixed' = mixed,
         NEW o \in OneShots, \A q \in OneShots \ {o} : shots'[q] \in {Swept[q], shots[q]} /\ shot'[q] = shot[q], NEW p \in Pools,
         ShotPart(o, p) <= Spent[p] =>
           Spent'[p] - ShotPart(o, p)' = Spent[p] - ShotPart(o, p),
         Spent'[p] - ShotPart(o, p)' >= Spent[p] - ShotPart(o, p),
         \/ ShotPart(o, p)' <= ShotPart(o, p)
         \/ Spent[p] < Cap /\ ShotPart(o, p)' <= ShotPart(o, p) + Reserve
  PROVE  Follows(p)
<1>1. /\ Total(CallWorth, BookedCalls(p)) \in Nat /\ Total(CallWorth, CallsToday(p)) \in Nat
      /\ Total(ShotWorth, ShotsToday(p)) \in Nat /\ Total(CritiqueWorth, Critiqued(p)) \in Nat
      /\ Spent[p] \in Nat
  BY SumsAreNat
<1>2. Numbers'
  <2>1. (BudgetTypeOK => Numbers)'
    BY SumsAreNumbers, PTL
  <2> QED
    BY <2>1
<1> DEFINE a == Total(ShotWorth, ShotsToday(p))
           a2 == Total(ShotWorth, ShotsToday(p))'
<1>3. /\ Total(CallWorth, BookedCalls(p))' = Total(CallWorth, BookedCalls(p))
      /\ Total(CallWorth, CallsToday(p))' = Total(CallWorth, CallsToday(p))
      /\ Total(CritiqueWorth, Critiqued(p))' = Total(CritiqueWorth, Critiqued(p))
  BY QuietCalls, QuietCritiques
<1>4. /\ a2 - ShotPart(o, p)' = a - ShotPart(o, p) /\ a >= ShotPart(o, p)
      /\ ShotPart(o, p) \in 0..Reserve /\ ShotPart(o, p)' \in 0..Reserve
  BY ShotSums DEF MoneyInv
<1>5. /\ Booked(p) = Total(CallWorth, BookedCalls(p)) + a + Total(CritiqueWorth, Critiqued(p))
      /\ Booked(p)' = Total(CallWorth, BookedCalls(p)) + a2 + Total(CritiqueWorth, Critiqued(p))
      /\ Exposure(p) = Total(CallWorth, CallsToday(p)) + a
      /\ Exposure(p)' = Total(CallWorth, CallsToday(p)) + a2
  BY <1>3 DEF Booked, Exposure
<1>6. a \in Nat
  BY <1>1
<1>7. a2 \in Int
  <2> DEFINE w == ShotWorth'
             S == ShotsToday(p)'
  <2>1. \A q \in OneShots : w[q] \in Nat
    BY DEF BudgetTypeOK, ShotStates, ShotWorth
  <2>2. S \subseteq OneShots
    BY DEF ShotsToday
  <2>3. IsFiniteSet(S)
    BY <2>2, FS_Subset, FiniteAssumption
  <2> HIDE DEF w, S
  <2>4. Total(w, S) \in Nat
    BY <2>1, <2>2, <2>3, TotalIsNat
  <2> QED
    BY <2>4 DEF w, S
<1> HIDE DEF a, a2
<1>8. Spent'[p] \in Nat /\ Spent[p] \in Nat
  BY <1>1, <1>2 DEF Numbers
<1>9. mixed = {} => ShotPart(o, p) <= Spent[p]
  BY <1>1, <1>4, <1>5, <1>6 DEF MoneyInv, BooksAreExact
<1>10. (Harmless' => Harmless) /\ (mixed' = {} => mixed = {})
  BY DEF Harmless, SettleLost, OwnKeyUsed
<1> QED
  BY <1>1, <1>4, <1>5, <1>6, <1>7, <1>8, <1>9, <1>10 DEF Follows

\* The row a one-shot finds after the rollover is what it owes.
LEMMA ShotPartIs ==
  ASSUME BudgetTypeOK, BooksAreLatest, NEW o \in OneShots, NEW p \in Pools
  PROVE  /\ p = PoolOf[o] /\ Swept[o].row = "reserved" => ShotPart(o, p) = Reserve
         /\ p = PoolOf[o] /\ Swept[o].row = "settled" => ShotPart(o, p) = shot[o].cost
         /\ p # PoolOf[o] \/ Swept[o].row = "none" => ShotPart(o, p) = 0
         /\ Swept[o].row \in {"none", "reserved", "settled"}
         /\ Swept[o].row # "none" => Swept[o].day = today /\ Swept[o] = shots[o]
<1>1. Swept[o] \in ShotRows
  BY RolloverTypes
<1> QED
  BY <1>1, SweptIsToday DEF ShotPart, ShotsToday, ShotWorth, ShotRows

LEMMA ShotStepFollows ==
  ASSUME BudgetTypeOK, BudgetTypeOK', MoneyInv, NEW o \in OneShots, ShotStep(o), NEW p \in Pools
  PROVE  Follows(p)
<1>0. /\ shot \in [OneShots -> ShotStates] /\ shot[o] \in ShotStates
      /\ Spent \in [Pools -> Nat] /\ Spent[p] \in Nat /\ PoolOf[o] \in Pools
      /\ Swept \in [OneShots -> ShotRows] /\ Swept[o] \in ShotRows
      /\ shots \in [OneShots -> ShotRows] /\ shots[o] \in ShotRows
  BY RolloverTypes DEF BudgetTypeOK
<1>1. /\ today' = today /\ call' = call /\ critique' = critique /\ mixed' = mixed
      /\ shot[o].pc \in {"reserving", "calling", "settling"}
  BY DEF ShotStep, ReserveShot, ReserveUnacknowledged, RefuseShot, ShotAnswered, SettleShot,
         SettleShotUnacknowledged
<1>2. /\ p = PoolOf[o] /\ Swept[o].row = "reserved" => ShotPart(o, p) = Reserve
      /\ p = PoolOf[o] /\ Swept[o].row = "settled" => ShotPart(o, p) = shot[o].cost
      /\ p # PoolOf[o] \/ Swept[o].row = "none" => ShotPart(o, p) = 0
      /\ Swept[o].row \in {"none", "reserved", "settled"}
      /\ Swept[o].row # "none" => Swept[o].day = today /\ Swept[o] = shots[o]
  BY ShotPartIs DEF MoneyInv
<1>3. ShotPart(o, p)' = IF p = PoolOf[o] /\ shots'[o].row # "none" /\ shots'[o].day = today
                        THEN IF shots'[o].row = "reserved" THEN Reserve ELSE shot'[o].cost ELSE 0
  BY <1>1 DEF ShotPart, ShotsToday, ShotWorth
<1>4. CASE ReserveShot(o) \/ ReserveUnacknowledged(o)
  <2>1. /\ ReserveRow(o) /\ ShotFits(o) /\ shot'[o].cost = shot[o].cost
        /\ \A q \in OneShots \ {o} : shot'[q] = shot[q]
    <3>1. CASE ReserveShot(o)
      BY <1>0, <3>1 DEF ReserveShot, ShotStates
    <3>2. CASE ReserveUnacknowledged(o)
      BY <1>0, <3>2 DEF ReserveUnacknowledged, ShotStates
    <3> QED
      BY <1>4, <3>1, <3>2
  <2>2. CASE Swept[o].row # "none"
    <3>1. shots' = Swept /\ Spent' = Spent
      BY <1>1, <2>1, <2>2, BookIs DEF ReserveRow
    <3>2. ShotPart(o, p)' = ShotPart(o, p)
      BY <1>2, <1>3, <2>1, <2>2, <3>1
    <3> QED
      BY <1>0, <1>1, <2>1, <3>1, <3>2, ShotFollows, ShotSums DEF MoneyInv
  <2>3. CASE Swept[o].row = "none"
    <3>1. shots' = [Swept EXCEPT ![o] = [row |-> "reserved", day |-> today]]
      BY <2>1, <2>3 DEF ReserveRow
    <3>2. Spent' = Adjusted(PoolOf[o], 0, Reserve)
      BY <1>1, <2>1, <2>3, BookIs DEF ReserveRow
    <3>3. Spent[PoolOf[o]] + Reserve <= Cap
      BY <2>1, <2>3 DEF ShotFits
    <3>4. Spent'[p] = IF p = PoolOf[o] THEN Spent[p] + Reserve ELSE Spent[p]
      BY <1>0, <3>2 DEF Adjusted
    <3>5. /\ shots'[o].row = "reserved" /\ shots'[o].day = today
          /\ \A q \in OneShots \ {o} : shots'[q] = Swept[q]
      BY <1>0, <3>1
    <3>6. ShotPart(o, p) = 0 /\ ShotPart(o, p)' = IF p = PoolOf[o] THEN Reserve ELSE 0
      BY <1>2, <1>3, <2>3, <3>5
    <3>7. p = PoolOf[o] => Spent[p] < Cap
      BY <1>0, <3>3
    <3> QED
      BY <1>0, <1>1, <2>1, <3>4, <3>5, <3>6, <3>7, ShotFollows DEF MoneyInv
  <2> QED
    BY <2>2, <2>3
<1>5. CASE RefuseShot(o)
  <2>1. /\ shots' = Swept /\ Spent' = Spent /\ shot'[o].cost = shot[o].cost
        /\ \A q \in OneShots \ {o} : shot'[q] = shot[q]
    BY <1>0, <1>1, <1>5, BookIs DEF RefuseShot, ShotStates
  <2>2. ShotPart(o, p)' = ShotPart(o, p)
    BY <1>2, <1>3, <2>1
  <2> QED
    BY <1>0, <1>1, <2>1, <2>2, ShotFollows, ShotSums DEF MoneyInv
<1>6. CASE \E cost \in Costs \cup {0} : ShotAnswered(o, cost)
  <2>1. /\ shots' = shots /\ Spent' = Spent /\ shot[o].pc = "calling"
        /\ \A q \in OneShots \ {o} : shot'[q] = shot[q]
    BY <1>0, <1>1, <1>6 DEF ShotAnswered, Spent
  <2>2. Swept[o].row # "settled"
    BY <1>2, <2>1 DEF MoneyInv, SettledLast
  <2>3. shots[o].row # "none" /\ shots[o].day = today => Swept[o] = shots[o]
    BY SweptIsToday DEF MoneyInv
  <2>4. ShotPart(o, p)' = ShotPart(o, p)
    BY <1>0, <1>2, <1>3, <2>1, <2>2, <2>3
  <2> QED
    BY <1>0, <1>1, <2>1, <2>4, ShotFollows, ShotSums DEF MoneyInv
<1>7. CASE SettleShot(o) \/ SettleShotUnacknowledged(o)
  <2>1. /\ SettleShotRow(o) /\ shot'[o].cost = shot[o].cost
        /\ \A q \in OneShots \ {o} : shot'[q] = shot[q]
    <3>1. CASE SettleShot(o)
      BY <1>0, <3>1 DEF SettleShot, ShotStates
    <3>2. CASE SettleShotUnacknowledged(o)
      BY <1>0, <3>2 DEF SettleShotUnacknowledged, ShotStates
    <3> QED
      BY <1>7, <3>1, <3>2
  <2>2. CASE Swept[o].row # "reserved"
    <3>1. shots' = Swept /\ Spent' = Spent
      BY <1>1, <2>1, <2>2, BookIs DEF SettleShotRow
    <3>2. ShotPart(o, p)' = ShotPart(o, p)
      BY <1>2, <1>3, <2>1, <2>2, <3>1
    <3> QED
      BY <1>0, <1>1, <2>1, <3>1, <3>2, ShotFollows, ShotSums DEF MoneyInv
  <2>3. CASE Swept[o].row = "reserved"
    <3>1. shots' = [Swept EXCEPT ![o].row = "settled"]
      BY <2>1, <2>3 DEF SettleShotRow
    <3>2. Spent' = Adjusted(PoolOf[o], Reserve, shot[o].cost)
      BY <1>1, <2>1, <2>3, BookIs DEF SettleShotRow
    <3>3. shot[o].cost \in 0..Reserve
      BY <1>0 DEF ShotStates
    <3>4. Spent'[p] = IF p = PoolOf[o]
                      THEN IF Spent[p] - Reserve + shot[o].cost < 0 THEN 0 ELSE Spent[p] - Reserve + shot[o].cost
                      ELSE Spent[p]
      BY <1>0, <3>2 DEF Adjusted
    <3>5. /\ shots'[o].row = "settled" /\ shots'[o].day = today
          /\ \A q \in OneShots \ {o} : shots'[q] = Swept[q]
      BY <1>0, <1>2, <2>3, <3>1 DEF ShotRows
    <3>6. /\ ShotPart(o, p) = IF p = PoolOf[o] THEN Reserve ELSE 0
          /\ ShotPart(o, p)' = IF p = PoolOf[o] THEN shot[o].cost ELSE 0
      BY <1>2, <1>3, <2>1, <2>3, <3>5
    <3> QED
      BY <1>0, <1>1, <2>1, <3>3, <3>4, <3>5, <3>6, ShotFollows DEF MoneyInv
  <2> QED
    BY <2>2, <2>3
<1> QED
  BY <1>4, <1>5, <1>6, <1>7 DEF ShotStep

\* A critique is charged once, with its price, and exposes nothing.
LEMMA CritiqueFollows ==
  ASSUME BudgetTypeOK, BudgetTypeOK', MoneyInv, NEW k \in Critiques, CritiqueStep(k), NEW p \in Pools
  PROVE  Follows(p)
<1>0. /\ critique \in [Critiques -> CritiqueStates] /\ critique[k] \in CritiqueStates
      /\ Spent \in [Pools -> Nat] /\ Spent[p] \in Nat /\ PoolOf[k] \in Pools
  BY RolloverTypes DEF BudgetTypeOK
<1>1. /\ today' = today /\ call' = call /\ shots' = Swept /\ shot' = shot /\ mixed' = mixed
  BY DEF CritiqueStep, CheckPool, Charge
<1> DEFINE S == Critiqued(p)
           R == Critiqued(p)'
           v == CritiqueWorth
           w == CritiqueWorth'
<1>2. Spent'[p] = Spent[p] + (IF k \in R THEN w[k] ELSE 0) /\ k \notin S
  <2>1. CASE CheckPool(k)
    <3>1. Spent' = Spent /\ critique[k].pc = "idle" /\ critique'[k].pc # "charged"
      BY <1>0, <1>1, <2>1, BookIs DEF CheckPool, CritiqueStates
    <3> QED
      BY <1>0, <3>1 DEF Critiqued
  <2>2. ASSUME NEW cost \in Costs, Charge(k, cost) PROVE Spent'[p] = Spent[p] + (IF k \in R THEN w[k] ELSE 0) /\ k \notin S
    <3>1. Spent' = Adjusted(PoolOf[k], 0, cost) /\ cost \in Nat
      BY <1>1, <2>2, BookIs DEF Charge
    <3>2. Spent'[p] = IF p = PoolOf[k] THEN Spent[p] + cost ELSE Spent[p]
      BY <1>0, <3>1 DEF Adjusted
    <3>3. /\ critique[k].pc = "gated" /\ critique'[k].pc = "charged" /\ critique'[k].day = today
          /\ critique'[k].cost = cost
      BY <1>0, <2>2 DEF Charge
    <3> QED
      BY <1>0, <1>1, <3>1, <3>2, <3>3 DEF Critiqued, CritiqueWorth
  <2> QED
    BY <2>1, <2>2 DEF CritiqueStep
<1>3. \A j \in Critiques \ {k} : critique'[j] = critique[j]
  BY <1>0 DEF CritiqueStep, CheckPool, Charge
<1>4. /\ S \in SUBSET Critiques /\ R \in SUBSET Critiques /\ S \ {k} = R \ {k}
      /\ \A j \in S \ {k} : v[j] = w[j]
  BY <1>1, <1>3 DEF Critiqued, CritiqueWorth
<1>5. \A j \in Critiques : v[j] \in Nat /\ w[j] \in Nat
  BY DEF BudgetTypeOK, CritiqueStates, CritiqueWorth
<1>6. IsFiniteSet(Critiques)
  BY FiniteAssumption
<1>7. /\ Total(ShotWorth, ShotsToday(p))' = Total(ShotWorth, ShotsToday(p))
      /\ Total(CallWorth, BookedCalls(p))' = Total(CallWorth, BookedCalls(p))
      /\ Total(CallWorth, CallsToday(p))' = Total(CallWorth, CallsToday(p))
  BY <1>1, QuietShots, QuietCalls DEF MoneyInv
<1>8. /\ Total(CallWorth, BookedCalls(p)) \in Nat /\ Total(CallWorth, CallsToday(p)) \in Nat
      /\ Total(ShotWorth, ShotsToday(p)) \in Nat
  BY SumsAreNat
<1>9. /\ Booked(p) = Total(CallWorth, BookedCalls(p)) + Total(ShotWorth, ShotsToday(p)) + Total(v, S)
      /\ Booked(p)' = Total(CallWorth, BookedCalls(p)) + Total(ShotWorth, ShotsToday(p)) + Total(w, R)
      /\ Exposure(p) \in Nat /\ Exposure(p)' = Exposure(p)
  BY <1>7, <1>8 DEF Booked, Exposure
<1>10. (Harmless' => Harmless) /\ (mixed' = {} => mixed = {})
  BY <1>1 DEF Harmless, SettleLost, OwnKeyUsed
<1> HIDE DEF S, R, v, w
<1>11. /\ Total(v, S) \in Nat /\ Total(w, R) \in Nat
       /\ Total(w, R) - (IF k \in R THEN w[k] ELSE 0) = Total(v, S) - (IF k \in S THEN v[k] ELSE 0)
  BY <1>4, <1>5, <1>6, TotalChanges
<1>12. (IF k \in R THEN w[k] ELSE 0) \in Nat
  BY <1>5
<1> QED
  BY <1>0, <1>2, <1>8, <1>9, <1>10, <1>11, <1>12 DEF Follows

\* A new day starts from nothing.
NothingToday ==
    /\ \A c \in Calls : call[c].pc \notin {"idle", "refused", "replayed"} => call[c].day # today /\ call[c].end # today
    /\ \A o \in OneShots : shots[o].row # "none" => shots[o].day # today
    /\ \A k \in Critiques : critique[k].pc = "charged" => critique[k].day # today
NothingOwed == \A p \in Pools : Booked(p) = 0 /\ Exposure(p) = 0

LEMMA NothingIsOwed == NothingToday => NothingOwed
<1> SUFFICES ASSUME NothingToday, NEW p \in Pools PROVE Booked(p) = 0 /\ Exposure(p) = 0
  BY DEF NothingOwed
<1>1. BookedCalls(p) = {} /\ CallsToday(p) = {} /\ ShotsToday(p) = {} /\ Critiqued(p) = {}
  BY DEF NothingToday, BookedCalls, CallsToday, ShotsToday, Critiqued, Admitted
<1> HIDE DEF CallWorth, ShotWorth, CritiqueWorth
<1>2. /\ Total(CallWorth, {}) = 0 /\ Total(ShotWorth, {}) = 0 /\ Total(CritiqueWorth, {}) = 0
  BY TotalEmpty
<1> QED
  BY <1>1, <1>2 DEF Booked, Exposure

LEMMA InitMoney == Init => MoneyInv
<1> SUFFICES ASSUME Init PROVE MoneyInv
  OBVIOUS
<1>1. /\ \A c \in Calls : call[c].pc = "idle" /\ call[c].day = 0 /\ call[c].end = 0
      /\ \A o \in OneShots : shots[o].row = "none"
      /\ \A k \in Critiques : critique[k].pc = "idle" /\ critique[k].day = 0
      /\ \A s \in Sessions : sessions[s].turn = None
      /\ today = 0 /\ budget.day = 0 /\ budget.spent = [p \in Pools |-> 0]
  BY DEF Init
<1>2. NothingOwed
  BY <1>1, NothingIsOwed DEF NothingToday
<1>3. \A p \in Pools : Spent[p] = 0
  BY <1>1 DEF Spent
<1>4. BooksAreExact /\ PoolsCover
  BY <1>2, <1>3 DEF NothingOwed, BooksAreExact, PoolsCover
<1>5. BooksAreLatest /\ SettledLast /\ RowHasMoney
  BY <1>1 DEF BooksAreLatest, SettledLast, RowHasMoney, Running
<1> QED
  BY <1>4, <1>5 DEF MoneyInv

LEMMA MidnightKeepsMoney ==
  ASSUME BudgetTypeOK, ChatInv, MoneyInv, Midnight
  PROVE  MoneyInv'
<1>1. /\ today' = today + 1 /\ today \in Nat /\ budget' = budget /\ shots' = shots /\ call' = call
      /\ shot' = shot /\ critique' = critique /\ mixed' = mixed /\ sessions' = sessions
      /\ budget.day \in Nat /\ budget.day <= today
  BY DEF Midnight, store, BudgetTypeOK, Days, Budgets, MoneyInv, BooksAreLatest
<1>2. NothingToday'
  <2>1. \A c \in Calls : call[c].day # today' /\ call[c].end # today'
    <3> SUFFICES ASSUME NEW c \in Calls PROVE call[c].day # today' /\ call[c].end # today'
      OBVIOUS
    <3>1. call[c].day \in Nat /\ call[c].end \in Nat /\ call[c].day <= budget.day /\ call[c].end <= budget.day
      BY DEF MoneyInv, BooksAreLatest, BudgetTypeOK, CallStates, Days
    <3> QED
      BY <1>1, <3>1
  <2>2. \A o \in OneShots : shots[o].row # "none" => shots[o].day # today'
    BY <1>1 DEF MoneyInv, BooksAreLatest
  <2>3. \A k \in Critiques : critique[k].day # today'
    <3> SUFFICES ASSUME NEW k \in Critiques PROVE critique[k].day # today'
      OBVIOUS
    <3>1. critique[k].day \in Nat /\ critique[k].day <= budget.day
      BY DEF MoneyInv, BooksAreLatest, BudgetTypeOK, CritiqueStates, Days
    <3> QED
      BY <1>1, <3>1
  <2> QED
    BY <1>1, <2>1, <2>2, <2>3 DEF NothingToday
<1>3. NothingOwed'
  <2>1. (NothingToday => NothingOwed)'
    BY NothingIsOwed, PTL
  <2> QED
    BY <1>2, <2>1
<1>4. \A p \in Pools : Spent'[p] = 0
  BY <1>1 DEF Spent
<1>5. BooksAreExact' /\ PoolsCover'
  BY <1>3, <1>4 DEF NothingOwed, BooksAreExact, PoolsCover
<1>6. BooksAreLatest' /\ SettledLast' /\ RowHasMoney'
  BY <1>1 DEF MoneyInv, BooksAreLatest, SettledLast, RowHasMoney, Running, ReserveOf
<1> QED
  BY <1>5, <1>6 DEF MoneyInv

\* Who touches the books brings them, and the rows of the one-shots, to the day.
LEMMA BooksAreOpened ==
  ASSUME BudgetTypeOK, BooksAreLatest, today' = today, budget'.day = today,
         \A c \in Calls : call'[c].day \in {call[c].day, today} /\ call'[c].end \in {call[c].end, today},
         \A o \in OneShots : shots'[o] = Swept[o] \/ shots'[o].day = today,
         \A k \in Critiques : critique'[k].day \in {critique[k].day, today}
  PROVE  BooksAreLatest'
<1>1. today \in Nat /\ budget.day \in Nat /\ budget.day <= today
  BY DEF BudgetTypeOK, Days, Budgets, BooksAreLatest
<1>2. \A c \in Calls : call'[c].day <= today /\ call'[c].end <= today
  <2> SUFFICES ASSUME NEW c \in Calls PROVE call'[c].day <= today /\ call'[c].end <= today
    OBVIOUS
  <2>1. call[c].day \in Nat /\ call[c].end \in Nat /\ call[c].day <= budget.day /\ call[c].end <= budget.day
    BY DEF BooksAreLatest, BudgetTypeOK, CallStates, Days
  <2> QED
    BY <1>1, <2>1
<1>3. \A k \in Critiques : critique'[k].day <= today
  <2> SUFFICES ASSUME NEW k \in Critiques PROVE critique'[k].day <= today
    OBVIOUS
  <2>1. critique[k].day \in Nat /\ critique[k].day <= budget.day
    BY DEF BooksAreLatest, BudgetTypeOK, CritiqueStates, Days
  <2> QED
    BY <1>1, <2>1
<1>4. \A o \in OneShots : shots'[o].row # "none" => shots'[o].day = today
  BY SweptIsToday
<1> QED
  BY <1>1, <1>2, <1>3, <1>4 DEF BooksAreLatest

\* Where nothing overlaps, the row of the session that moves has no other runner.
LEMMA NoOtherRunner ==
  ASSUME ChatInv, RowHasMoney, NEW c \in Calls, OnlyMoves(c), mixed' = mixed,
         NEW s \in Sessions, s = call[c].sid, call[c].pc \in {"running", "unsure"},
         call'[c].pc # "running",
         \A r \in Sessions \ {s} : sessions'[r] = sessions[r],
         \/ sessions'[s].turn = sessions[s].turn /\ sessions'[s].pool = sessions[s].pool
         \/ sessions'[s].turn = None
  PROVE  RowHasMoney'
<1>1. c \in Running(s)
  BY DEF Running
<1>2. \A r \in Sessions : sessions'[r].turn # None => sessions'[r].pool = PoolOf[r]
  BY DEF RowHasMoney
<1>3. ASSUME NEW r \in Sessions \ mixed, NEW d \in Running(r)', call'[d].pc = "running"
      PROVE  sessions'[r].reserve = ReserveOf(d)
  <2>1. d \in Calls /\ d # c /\ call'[d] = call[d] /\ d \in Running(r)
    BY <1>3 DEF Running, OnlyMoves
  <2>2. r # s
    BY <1>1, <2>1 DEF ChatInv, OneRunner
  <2> QED
    BY <1>3, <2>1, <2>2 DEF RowHasMoney
<1> QED
  BY <1>2, <1>3 DEF RowHasMoney, ReserveOf

LEMMA ChatKeepsRows ==
  ASSUME BudgetTypeOK, ChatInv, MoneyInv, NEW c \in Calls, ChatStep(c)
  PROVE  BooksAreLatest' /\ SettledLast' /\ RowHasMoney'
<1>0. /\ call \in [Calls -> CallStates] /\ call[c] \in CallStates /\ sessions \in [Sessions -> SessionRows]
      /\ shots \in [OneShots -> ShotRows] /\ BooksAreLatest /\ SettledLast /\ RowHasMoney
  BY DEF BudgetTypeOK, MoneyInv
<1>1. ASSUME shot' = shot, shots' = Swept \/ shots' = shots PROVE SettledLast'
  BY <1>0, <1>1, SweptIsToday DEF SettledLast
<1>2. ASSUME OnlyMoves(c), budget'.day = today, shots' = Swept, critique' = critique,
             call'[c].day \in {call[c].day, today}, call'[c].end \in {call[c].end, today}
      PROVE  BooksAreLatest'
  <2>1. \A d \in Calls : call'[d].day \in {call[d].day, today} /\ call'[d].end \in {call[d].end, today}
    BY <1>2 DEF OnlyMoves
  <2> QED
    BY <1>0, <1>2, <2>1, BooksAreOpened DEF OnlyMoves
<1>3. ASSUME NEW s \in Sessions, NEW t \in Turns, Replay(c, s, t) \/ Refuse(c, s, t)
      PROVE  BooksAreLatest' /\ SettledLast' /\ RowHasMoney'
  <2>1. /\ OnlyMoves(c) /\ budget'.day = today /\ shots' = Swept /\ shot' = shot /\ critique' = critique
        /\ mixed' = mixed /\ sessions' = sessions /\ call[c].pc = "idle"
    BY <1>0, <1>3, BookIs DEF Replay, Refuse, OnlyMoves, Arrives, store
  <2>2. call'[c].day = call[c].day /\ call'[c].end = call[c].end /\ call'[c].pc \in {"replayed", "refused"}
    <3>1. CASE Replay(c, s, t)
      BY <1>0, <3>1 DEF Replay, CallStates
    <3>2. CASE Refuse(c, s, t)
      BY <1>0, <3>2 DEF Refuse, CallStates
    <3> QED
      BY <1>3, <3>1, <3>2
  <2>3. RowHasMoney'
    BY <1>0, <2>1, <2>2 DEF RowHasMoney, Running, OnlyMoves, ReserveOf
  <2> QED
    BY <1>1, <1>2, <2>1, <2>2, <2>3
<1>4. ASSUME NEW s \in Sessions, NEW t \in Turns, Admit(c, s, t)
      PROVE  BooksAreLatest' /\ SettledLast' /\ RowHasMoney'
  <2>1. /\ OnlyMoves(c) /\ budget'.day = today /\ shots' = Swept /\ shot' = shot /\ critique' = critique
        /\ mixed' = (IF Running(s) = {} THEN mixed ELSE mixed \cup {s})
        /\ sessions' = [sessions EXCEPT ![s] = Entered(s, t, c)]
    BY <1>0, <1>4, BookIs DEF Admit, OnlyMoves
  <2>2. call'[c].day = today /\ call'[c].end = call[c].end /\ call'[c].sid = s
    BY <1>0, <1>4 DEF Admit, CallStates
  <2>3. /\ sessions'[s].pool = PoolOf[s] /\ sessions'[s].reserve = ReserveOf(c)
        /\ \A r \in Sessions \ {s} : sessions'[r] = sessions[r]
    BY <1>0, <2>1 DEF Entered
  <2>4. ASSUME NEW r \in Sessions \ mixed', NEW d \in Running(r)', call'[d].pc = "running"
        PROVE  sessions'[r].reserve = ReserveOf(d)
    <3>1. CASE r = s
      <4>1. d = c
        BY <2>1, <2>4, <3>1 DEF Running, OnlyMoves
      <4> QED
        BY <2>3, <3>1, <4>1
    <3>2. CASE r # s
      <4>1. d # c /\ d \in Running(r) /\ call[d].pc = "running" /\ r \in Sessions \ mixed
        BY <2>1, <2>2, <2>4, <3>2 DEF Running, OnlyMoves
      <4> QED
        BY <1>0, <2>3, <3>2, <4>1 DEF RowHasMoney
    <3> QED
      BY <3>1, <3>2
  <2>5. RowHasMoney'
    BY <1>0, <2>3, <2>4 DEF RowHasMoney, ReserveOf
  <2> QED
    BY <1>1, <1>2, <2>1, <2>2, <2>5
<1>5. ASSUME NEW cost \in 0..Reserve, Settle(c, cost) \/ SettleUnacknowledged(c, cost)
      PROVE  BooksAreLatest' /\ SettledLast' /\ RowHasMoney'
  <2>1. /\ OnlyMoves(c) /\ budget'.day = today /\ shots' = Swept /\ shot' = shot /\ critique' = critique
        /\ mixed' = mixed /\ call[c].pc = "running" /\ SettleRow(c, cost)
    BY <1>0, <1>5, BookIs DEF Settle, SettleUnacknowledged, SettleRow, OnlyMoves
  <2>2. call'[c].day = call[c].day /\ call'[c].end = today /\ call'[c].pc # "running"
    <3>1. CASE Settle(c, cost)
      BY <1>0, <3>1 DEF Settle, CallStates
    <3>2. CASE SettleUnacknowledged(c, cost)
      BY <1>0, <3>2 DEF SettleUnacknowledged, CallStates
    <3> QED
      BY <1>5, <3>1, <3>2
  <2>3. PICK s \in Sessions : s = call[c].sid
    BY <2>1 DEF ChatInv, CallsAreKnown
  <2>4. sessions' = [sessions EXCEPT ![s].reserve = 0, ![s].result = call[c].turn]
    BY <2>1, <2>3 DEF SettleRow
  <2>5. /\ \A r \in Sessions \ {s} : sessions'[r] = sessions[r]
        /\ sessions'[s].turn = sessions[s].turn /\ sessions'[s].pool = sessions[s].pool
    BY <1>0, <2>4 DEF SessionRows
  <2>6. RowHasMoney'
    BY <1>0, <2>1, <2>2, <2>3, <2>5, NoOtherRunner
  <2> QED
    BY <1>1, <1>2, <2>1, <2>2, <2>6
<1>6. ASSUME NEW cost, FailRow(c, cost), call[c].pc \in {"running", "unsure"}, OnlyMoves(c),
             shot' = shot, critique' = critique, mixed' = mixed, call'[c].pc # "running",
             call'[c].day = call[c].day, call'[c].end \in {call[c].end, today}
      PROVE  BooksAreLatest' /\ SettledLast' /\ RowHasMoney'
  <2>1. PICK s \in Sessions : s = call[c].sid
    BY <1>6 DEF ChatInv, CallsAreKnown
  <2>2. shots' = Swept /\ budget'.day = today
    BY <1>6, BookIs DEF FailRow, OnlyMoves
  <2>3. /\ \A r \in Sessions \ {s} : sessions'[r] = sessions[r]
        /\ \/ sessions'[s].turn = sessions[s].turn /\ sessions'[s].pool = sessions[s].pool
           \/ sessions'[s].turn = None
    <3>1. CASE Undoable(c)
      <4>1. sessions' = [sessions EXCEPT ![s] = GivenBack(sessions[s])]
        BY <1>6, <2>1, <3>1 DEF FailRow
      <4> QED
        BY <1>0, <4>1 DEF GivenBack, SessionRows
    <3>2. CASE ~Undoable(c)
      BY <1>6, <3>2 DEF FailRow, store
    <3> QED
      BY <3>1, <3>2
  <2>4. RowHasMoney'
    BY <1>0, <1>6, <2>1, <2>3, NoOtherRunner
  <2> QED
    BY <1>1, <1>2, <1>6, <2>2, <2>4
<1>7. ASSUME NEW cost \in 0..Reserve, Fail(c, cost) PROVE BooksAreLatest' /\ SettledLast' /\ RowHasMoney'
  <2>1. /\ FailRow(c, cost) /\ call[c].pc = "running" /\ OnlyMoves(c) /\ shot' = shot /\ critique' = critique
        /\ mixed' = mixed
    BY <1>0, <1>7 DEF Fail, OnlyMoves
  <2>2. call'[c].pc = "failed" /\ call'[c].day = call[c].day /\ call'[c].end = today
    BY <1>0, <1>7 DEF Fail, CallStates
  <2> QED
    BY <1>6, <2>1, <2>2
<1>8. CASE FailAfterSettle(c)
  <2>1. /\ FailRow(c, call[c].cost) /\ call[c].pc = "unsure" /\ OnlyMoves(c) /\ shot' = shot
        /\ critique' = critique /\ mixed' = mixed
    BY <1>0, <1>8 DEF FailAfterSettle, OnlyMoves
  <2>2. call'[c].pc = "recovered" /\ call'[c].day = call[c].day /\ call'[c].end = call[c].end
    BY <1>0, <1>8 DEF FailAfterSettle, CallStates
  <2> QED
    BY <1>6, <2>1, <2>2
<1>9. CASE Vanish(c)
  <2>1. /\ OnlyMoves(c) /\ budget' = budget /\ shots' = shots /\ shot' = shot /\ critique' = critique
        /\ mixed' = mixed /\ sessions' = sessions /\ call[c].pc = "running" /\ today' = today
    BY <1>0, <1>9 DEF Vanish, OnlyMoves, store
  <2>2. call'[c].day = call[c].day /\ call'[c].end = call[c].end /\ call'[c].pc = "vanished"
    BY <1>0, <1>9 DEF Vanish, CallStates
  <2>3. RowHasMoney'
    BY <1>0, <2>1, <2>2 DEF RowHasMoney, Running, OnlyMoves, ReserveOf
  <2>4. BooksAreLatest'
    BY <1>0, <2>1, <2>2 DEF BooksAreLatest, OnlyMoves
  <2> QED
    BY <1>1, <2>1, <2>3, <2>4
<1>10. \A cost \in Costs \cup {0} : cost \in 0..Reserve
  OBVIOUS
<1> QED
  BY <1>3, <1>4, <1>5, <1>7, <1>8, <1>9, <1>10 DEF ChatStep

LEMMA ShotKeepsRows ==
  ASSUME BudgetTypeOK, MoneyInv, NEW o \in OneShots, ShotStep(o)
  PROVE  BooksAreLatest' /\ SettledLast' /\ RowHasMoney'
<1>0. /\ shot \in [OneShots -> ShotStates] /\ shot[o] \in ShotStates
      /\ Swept \in [OneShots -> ShotRows] /\ Swept[o] \in ShotRows
      /\ BooksAreLatest /\ SettledLast /\ RowHasMoney
  BY RolloverTypes DEF BudgetTypeOK, MoneyInv
<1>1. /\ today' = today /\ call' = call /\ critique' = critique /\ mixed' = mixed /\ sessions' = sessions
  BY DEF ShotStep, ReserveShot, ReserveUnacknowledged, RefuseShot, ShotAnswered, SettleShot,
         SettleShotUnacknowledged, store
<1>2. RowHasMoney'
  BY <1>0, <1>1 DEF RowHasMoney, Running, ReserveOf
<1>3. Swept[o].row = "settled" => shots[o].row = "settled"
  BY <1>0, SweptIsToday
<1>4. ASSUME \A q \in OneShots \ {o} : shots'[q] \in {Swept[q], shots[q]} /\ shot'[q] = shot[q],
             shot'[o].pc \in {"reserving", "calling"} => shots'[o].row # "settled"
      PROVE  SettledLast'
  BY <1>0, <1>4, SweptIsToday DEF SettledLast
<1>5. ASSUME budget'.day = today, \A q \in OneShots : shots'[q] = Swept[q] \/ shots'[q].day = today
      PROVE  BooksAreLatest'
  BY <1>0, <1>1, <1>5, BooksAreOpened
<1>6. CASE ReserveShot(o) \/ ReserveUnacknowledged(o)
  <2>1. ReserveRow(o) /\ shot[o].pc = "reserving" /\ \A q \in OneShots \ {o} : shot'[q] = shot[q]
    BY <1>0, <1>6 DEF ReserveShot, ReserveUnacknowledged
  <2>2. budget'.day = today
    BY <1>1, <2>1, BookIs DEF ReserveRow
  <2>3. /\ \A q \in OneShots \ {o} : shots'[q] = Swept[q]
        /\ \/ shots'[o] = Swept[o]
           \/ shots'[o].row = "reserved" /\ shots'[o].day = today
    BY <1>0, <2>1 DEF ReserveRow
  <2>4. shots'[o].row # "settled"
    BY <1>0, <1>3, <2>1, <2>3 DEF SettledLast
  <2> QED
    BY <1>2, <1>4, <1>5, <2>1, <2>2, <2>3, <2>4
<1>7. CASE RefuseShot(o)
  <2>1. /\ shots' = Swept /\ budget'.day = today /\ shot'[o].pc = "refused"
        /\ \A q \in OneShots \ {o} : shot'[q] = shot[q]
    BY <1>0, <1>1, <1>7, BookIs DEF RefuseShot, ShotStates
  <2> QED
    BY <1>0, <1>2, <1>4, <1>5, <2>1
<1>8. CASE \E cost \in Costs \cup {0} : ShotAnswered(o, cost)
  <2>1. /\ shots' = shots /\ budget' = budget /\ shot'[o].pc = "settling"
        /\ \A q \in OneShots \ {o} : shot'[q] = shot[q]
    BY <1>0, <1>8 DEF ShotAnswered, ShotStates
  <2>2. BooksAreLatest'
    BY <1>0, <1>1, <2>1 DEF BooksAreLatest
  <2> QED
    BY <1>2, <1>4, <2>1, <2>2
<1>9. CASE SettleShot(o) \/ SettleShotUnacknowledged(o)
  <2>1. SettleShotRow(o) /\ \A q \in OneShots \ {o} : shot'[q] = shot[q]
    BY <1>0, <1>9 DEF SettleShot, SettleShotUnacknowledged
  <2>2. shot'[o].pc \in {"done", "gave_up", "settling"}
    <3>1. CASE SettleShot(o)
      BY <1>0, <3>1 DEF SettleShot, ShotStates
    <3>2. CASE SettleShotUnacknowledged(o)
      BY <1>0, <3>2 DEF SettleShotUnacknowledged, ShotStates
    <3> QED
      BY <1>9, <3>1, <3>2
  <2>3. budget'.day = today
    BY <1>1, <2>1, BookIs DEF SettleShotRow
  <2>4. /\ \A q \in OneShots \ {o} : shots'[q] = Swept[q]
        /\ shots'[o] = Swept[o] \/ shots'[o].day = today
    <3>1. CASE Swept[o].row = "reserved"
      <4>1. Swept[o].day = today
        BY <1>0, <3>1, SweptIsToday
      <4>2. shots' = [Swept EXCEPT ![o].row = "settled"]
        BY <2>1, <3>1 DEF SettleShotRow
      <4> QED
        BY <1>0, <4>1, <4>2 DEF ShotRows
    <3>2. CASE Swept[o].row # "reserved"
      BY <2>1, <3>2 DEF SettleShotRow
    <3> QED
      BY <3>1, <3>2
  <2> QED
    BY <1>2, <1>4, <1>5, <2>1, <2>2, <2>3, <2>4
<1> QED
  BY <1>6, <1>7, <1>8, <1>9 DEF ShotStep

LEMMA CritiqueKeepsRows ==
  ASSUME BudgetTypeOK, MoneyInv, NEW k \in Critiques, CritiqueStep(k)
  PROVE  BooksAreLatest' /\ SettledLast' /\ RowHasMoney'
<1>0. /\ critique \in [Critiques -> CritiqueStates] /\ critique[k] \in CritiqueStates
      /\ BooksAreLatest /\ SettledLast /\ RowHasMoney
  BY DEF BudgetTypeOK, MoneyInv
<1>1. /\ today' = today /\ call' = call /\ shots' = Swept /\ shot' = shot /\ mixed' = mixed /\ sessions' = sessions
  BY DEF CritiqueStep, CheckPool, Charge, store
<1>2. budget'.day = today
  BY <1>1, BookIs DEF CritiqueStep, CheckPool, Charge
<1>3. \A j \in Critiques : critique'[j].day \in {critique[j].day, today}
  BY <1>0 DEF CritiqueStep, CheckPool, Charge, CritiqueStates
<1>4. BooksAreLatest'
  BY <1>0, <1>1, <1>2, <1>3, BooksAreOpened
<1> QED
  BY <1>0, <1>1, <1>4, SweptIsToday DEF SettledLast, RowHasMoney, Running, ReserveOf

LEMMA StepKeepsMoney == BudgetInv /\ MoneyInv /\ [Next]_vars => MoneyInv'
<1> SUFFICES ASSUME BudgetInv, MoneyInv, [Next]_vars PROVE MoneyInv'
  OBVIOUS
<1>1. BudgetTypeOK /\ ChatInv /\ BudgetTypeOK'
  BY StepKeepsInv DEF BudgetInv
<1>2. ASSUME \A p \in Pools : Follows(p) PROVE BooksAreExact' /\ PoolsCover'
  BY <1>1, <1>2, FollowingKeepsBooks DEF MoneyInv
<1>3. ASSUME NEW c \in Calls, ChatStep(c) PROVE MoneyInv'
  BY <1>1, <1>2, <1>3, ChatStepFollows, ChatKeepsRows DEF MoneyInv
<1>4. ASSUME NEW o \in OneShots, ShotStep(o) PROVE MoneyInv'
  BY <1>1, <1>2, <1>4, ShotStepFollows, ShotKeepsRows DEF MoneyInv
<1>5. ASSUME NEW k \in Critiques, CritiqueStep(k) PROVE MoneyInv'
  BY <1>1, <1>2, <1>5, CritiqueFollows, CritiqueKeepsRows DEF MoneyInv
<1>6. CASE Midnight
  BY <1>1, <1>6, MidnightKeepsMoney
<1>7. CASE UNCHANGED vars
  <2>1. /\ today' = today /\ budget' = budget /\ sessions' = sessions /\ shots' = shots /\ call' = call
        /\ shot' = shot /\ critique' = critique /\ mixed' = mixed
    BY <1>7 DEF vars
  <2>2. /\ \A p \in Pools : Booked(p)' = Booked(p) /\ Exposure(p)' = Exposure(p)
        /\ Spent' = Spent /\ Harmless' = Harmless
    BY <2>1 DEF Booked, Exposure, BookedCalls, CallsToday, ShotsToday, Critiqued, CallWorth, ShotWorth,
                CritiqueWorth, Spent, Harmless, SettleLost, OwnKeyUsed, ReserveOf
  <2>3. BooksAreExact' /\ PoolsCover'
    BY <2>1, <2>2 DEF MoneyInv, BooksAreExact, PoolsCover
  <2> QED
    BY <2>1, <2>3 DEF MoneyInv, BooksAreLatest, SettledLast, RowHasMoney, Running, ReserveOf
<1> QED
  BY <1>3, <1>4, <1>5, <1>6, <1>7 DEF Next

-----------------------------------------------------------------------------
(* The theorems.                                                           *)

LEMMA Invariant == Spec => []BudgetInv
<1>1. Init => BudgetInv
  BY InitIsTyped, InitChat DEF BudgetInv
<1> QED
  BY <1>1, StepKeepsInv, PTL DEF Spec

\* The object's tables and every handler stay well formed: however requests, retries,
\* lost answers and midnights interleave, no session row ever counts more turns than
\* the limit, no pool's counter is negative, and no one-shot makes more attempts than
\* its limit (budget-core.js preflight, settle, fail; debrief.js).
THEOREM BudgetIsTyped == Spec => []BudgetTypeOK
<1>1. BudgetInv => BudgetTypeOK
  BY DEF BudgetInv
<1> QED
  BY <1>1, Invariant, PTL

\* A row that makes preflight answer "already in progress" has a request that is in
\* progress or whose Worker died, for any number of sessions, requests and days.
THEOREM NoTurnStaysBlocked == Spec => []InFlightHasOwner
<1>1. BudgetInv => InFlightHasOwner
  BY DEF BudgetInv, ChatInv
<1> QED
  BY <1>1, Invariant, PTL

\* In a session whose requests never overlap, a repeated turn id is answered with the
\* answer to that turn, also after lost acknowledgments, failures and midnight.
THEOREM ReplayIsOwnAnswer == Spec => []OwnAnswerWhenSequential
<1>1. BudgetInv => OwnAnswerWhenSequential
  BY DEF BudgetInv, ChatInv
<1> QED
  BY <1>1, Invariant, PTL

\* The count that opens the debrief is exact, also when the same turn id is sent again
\* across midnight.
THEOREM DebriefCountIsExact == Spec => []DebriefCountsTurns
<1>1. BudgetInv => DebriefCountsTurns
  BY DEF BudgetInv, ChatInv
<1> QED
  BY <1>1, Invariant, PTL

\* Both counts a page relies on hold, unless a turn id is sent again on the next day
\* while its first request still runs: the rows cover every turn admitted today, so
\* the limit on the rows limits the turns, overlapping requests included.
THEOREM BothCountsHold == ~MayRetryAcrossMidnight => (Spec => []CountsHold)
<1>1. ASSUME ~MayRetryAcrossMidnight, BudgetInv PROVE CountsHold
  <2>1. ASSUME mixed = {} \/ ~SettleLost, NEW s \in Sessions
        PROVE  Cardinality(AdmittedToday(s)) <= MaxTurns
    <3>1. Cardinality(AdmittedToday(s)) <= TurnsToday(s)
      BY <1>1, <2>1 DEF BudgetInv, ChatInv, TurnsCover
    <3>2. TurnsToday(s) \in 0..MaxTurns
      BY <1>1 DEF BudgetInv, BudgetTypeOK, SessionRows, TurnsToday
    <3>3. Cardinality(AdmittedToday(s)) \in Nat
      BY AdmittedFinite
    <3> QED
      BY <3>1, <3>2, <3>3
  <2>2. TurnLimitHolds
    BY <2>1 DEF TurnLimitHolds
  <2> QED
    BY <1>1, <2>2 DEF CountsHold, BudgetInv, ChatInv
<1>2. ASSUME ~MayRetryAcrossMidnight PROVE Spec => []CountsHold
  <2>1. BudgetInv => CountsHold
    BY <1>1, <1>2
  <2> QED
    BY <2>1, Invariant, PTL
<1> QED
  BY <1>2

\* For any number of sessions, requests, one-shots, critiques and days: while no session's
\* requests overlap, a pool's counter is the reserves still out plus the prices of what
\* ended today. MoneyInv says it before the first call of a day too, and of the rows that
\* settle and fail read.
THEOREM PoolsBalance == Spec => []BooksBalance
<1>1. Init => BudgetInv /\ MoneyInv
  BY InitIsTyped, InitChat, InitMoney DEF BudgetInv
<1>2. BudgetInv /\ MoneyInv /\ [Next]_vars => (BudgetInv /\ MoneyInv)'
  BY StepKeepsInv, StepKeepsMoney
<1>3. BudgetInv /\ MoneyInv => BooksBalance
  BY DEF MoneyInv, BooksAreExact, BooksBalance, Booked, Spent
<1> QED
  BY <1>1, <1>2, <1>3, PTL DEF Spec

\* What the turns and one-shots admitted in a day may cost a pool stays below its cap plus
\* one call, however requests interleave, answers are lost and midnights pass, when no turn
\* id is sent again the next day while its first request still runs.
THEOREM CapBoundsADay == ~MayRetryAcrossMidnight => (Spec => []CapHolds)
<1> SUFFICES ASSUME ~MayRetryAcrossMidnight PROVE Spec => []CapHolds
  OBVIOUS
<1>1. Init => BudgetInv /\ MoneyInv
  BY InitIsTyped, InitChat, InitMoney DEF BudgetInv
<1>2. BudgetInv /\ MoneyInv /\ [Next]_vars => (BudgetInv /\ MoneyInv)'
  BY StepKeepsInv, StepKeepsMoney
<1>3. BudgetInv /\ MoneyInv => CapHolds
  BY DEF MoneyInv, PoolsCover, Harmless, CapHolds
<1> QED
  BY <1>1, <1>2, <1>3, PTL DEF Spec
=============================================================================
