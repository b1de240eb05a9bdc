----------------------------- MODULE OrderProofs -----------------------------
(***************************************************************************)
(* First elements of finite sets: what dispatch_next takes from its queue, *)
(* the newest manifest of a package, the end of a replay.                  *)
(***************************************************************************)
EXTENDS Integers, FiniteSetsExt, FiniteSetTheorems, WellFoundedInduction, TLAPS

\* R puts any two elements of S in an order, and consistently so.
Orders(R, S) ==
  /\ \A x, y \in S : x # y => <<x, y>> \in R \/ <<y, x>> \in R
  /\ \A x, y, z \in S : <<x, y>> \in R /\ <<y, z>> \in R => <<x, z>> \in R

IsFirst(x, R, S) == x \in S /\ \A y \in S \ {x} : <<x, y>> \in R

\* A finite set that a relation orders totally has a first element.
LEMMA FirstExists ==
  ASSUME NEW S, IsFiniteSet(S), S # {}, NEW R, Orders(R, S)
  PROVE  \E x : IsFirst(x, R, S)
<1> DEFINE HasFirst(T) == \E x \in T : \A y \in T \ {x} : <<x, y>> \in R
           bad == {T \in FiniteSubsetsOf(S) : T # {} /\ ~HasFirst(T)}
<1>1. SUFFICES ASSUME S \in bad PROVE FALSE
  BY DEF FiniteSubsetsOf, IsFirst
<1>2. IsWellFoundedOn(StrictSubsetOrdering(S), FiniteSubsetsOf(S))
  BY FS_StrictSubsetOrderingWellFounded
<1>3. bad \subseteq FiniteSubsetsOf(S) /\ bad # {}
  BY <1>1
<1> HIDE DEF bad
<1>4. PICK T \in bad : \A U \in bad : ~(<<U, T>> \in StrictSubsetOrdering(S))
  BY <1>2, <1>3, WFMin
<1>5. T \subseteq S /\ IsFiniteSet(T) /\ T # {} /\ ~HasFirst(T)
  BY <1>4 DEF bad, FiniteSubsetsOf
<1>6. PICK a \in T : TRUE
  BY <1>5
<1> DEFINE U == T \ {a}
<1>7. U \subseteq S /\ IsFiniteSet(U) /\ U \in FiniteSubsetsOf(S)
  BY <1>5, FS_RemoveElement DEF FiniteSubsetsOf
<1>8. <<U, T>> \in StrictSubsetOrdering(S)
  BY <1>5, <1>6, <1>7 DEF StrictSubsetOrdering
<1>9. U = {} \/ HasFirst(U)
  BY <1>4, <1>7, <1>8 DEF bad
<1>10. CASE U = {}
  BY <1>5, <1>6, <1>10
<1>11. CASE HasFirst(U)
  <2>1. PICK b \in U : \A y \in U \ {b} : <<b, y>> \in R
    BY <1>11
  <2>2. <<a, b>> \in R \/ <<b, a>> \in R
    BY <1>5, <1>6, <2>1 DEF Orders
  <2>3. CASE <<b, a>> \in R
    BY <1>5, <2>1, <2>3
  <2>4. CASE <<a, b>> \in R
    <3>1. \A y \in T \ {a} : <<a, y>> \in R
      BY <1>5, <1>6, <2>1, <2>4 DEF Orders
    <3> QED BY <1>5, <1>6, <3>1
  <2> QED BY <2>2, <2>3, <2>4
<1> QED BY <1>9, <1>10, <1>11

\* The largest and the smallest of finitely many numbers are among them.
LEMMA MaxAndMin ==
  ASSUME NEW S, S \subseteq Nat, IsFiniteSet(S), S # {}
  PROVE  /\ Max(S) \in S /\ \A x \in S : x =< Max(S)
         /\ Min(S) \in S /\ \A x \in S : Min(S) =< x
<1> DEFINE down == {p \in Nat \X Nat : p[1] >= p[2]}
           up == {p \in Nat \X Nat : p[1] =< p[2]}
<1>1. \A x, y \in Nat : (<<x, y>> \in down <=> x >= y) /\ (<<x, y>> \in up <=> x =< y)
  OBVIOUS
<1> HIDE DEF down, up
<1>2. Orders(down, S)
  BY <1>1 DEF Orders
<1>3. Orders(up, S)
  BY <1>1 DEF Orders
<1>4. PICK x : IsFirst(x, down, S)
  BY <1>2, FirstExists
<1>5. PICK w : IsFirst(w, up, S)
  BY <1>3, FirstExists
<1>6. x \in S /\ \A y \in S : x >= y
  <2>1. ASSUME NEW y \in S PROVE x >= y
    <3>1. x \in S /\ (x = y \/ <<x, y>> \in down)
      BY <1>4 DEF IsFirst
    <3> QED BY <1>1, <3>1
  <2> QED BY <1>4, <2>1 DEF IsFirst
<1>7. w \in S /\ \A y \in S : w =< y
  <2>1. ASSUME NEW y \in S PROVE w =< y
    <3>1. w \in S /\ (w = y \/ <<w, y>> \in up)
      BY <1>5 DEF IsFirst
    <3> QED BY <1>1, <3>1
  <2> QED BY <1>5, <2>1 DEF IsFirst
<1> QED BY <1>6, <1>7 DEF Max, Min

=============================================================================
