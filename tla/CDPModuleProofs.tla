--------------------------- MODULE CDPModuleProofs ---------------------------
(***************************************************************************)
(* What the calls of CDPModule return, for any assets, amounts, rates,     *)
(* decimals and order of the answers: the debts in the totals of           *)
(* getAccountData(), the collateral that may be unlocked and the bounds of *)
(* a liquidation.  The last two rest on sums over the assets, powers of    *)
(* ten and the order of fractions, about which the middle sections are.    *)
(***************************************************************************)
EXTENDS CDPModule, FiniteSetTheorems, WellFoundedInduction, TLAPS

-----------------------------------------------------------------------------
(***************************************************************************)
(* The debts in the totals of getAccountData().                            *)
(***************************************************************************)

Early == {"begin", "asset", "queries", "collaterals"}

\* a set of debts that is complete, with no request left out or failed
AllCounted(debts) == debts = Owed /\ running = {} /\ failed = {}

\* no request for a debt starts before the collaterals are done
DebtsFollow == at \in Early => /\ running = {} /\ failed = {} /\ counted = {}
                               /\ account.counted = {}

CountedAtOnce == /\ counted = {} \/ AllCounted(counted)
                 /\ account.counted = {} \/ AllCounted(account.counted)

IInv == DebtsFollow /\ CountedAtOnce

LEMMA InitInvariant == Init => IInv
  BY DEF Init, IInv, DebtsFollow, CountedAtOnce, NoAccount

LEMMA TotalsCount ==
    ASSUME NEW stablecoin, Totals(stablecoin)
    PROVE  account'.counted = counted /\ at' \notin Early
  BY DEF Totals, Early

LEMMA OwedStays == ASSUME UNCHANGED inputs PROVE Owed' = Owed
  BY DEF inputs, Owed

\* getAccountData() ends: it returns what has been counted so far
LEMMA AccountKeeps ==
    ASSUME IInv, CollateralsDone \/ StablecoinAnswers PROVE IInv'
<1>1. Owed' = Owed
  BY OwedStays DEF CollateralsDone, StablecoinAnswers
<1>2. CASE CollateralsDone
  <2>1. failed = {} /\ counted = {} /\ account.counted = {}
    BY <1>2 DEF IInv, DebtsFollow, CollateralsDone, Early
  <2>2. at' \notin Early /\ account'.counted = {} /\ counted' = {}
    <3>1. CASE input.issued
      BY <1>2, <2>1, <3>1 DEF CollateralsDone, Early
    <3>2. CASE ~input.issued
      BY <1>2, <2>1, <3>2, TotalsCount DEF CollateralsDone
    <3> QED  BY <3>1, <3>2
  <2> QED  BY <2>2 DEF IInv, DebtsFollow, CountedAtOnce
<1>3. CASE StablecoinAnswers
  <2>1. at' \notin Early /\ account'.counted = counted
    BY <1>3, TotalsCount DEF StablecoinAnswers
  <2> QED  BY <1>1, <1>3, <2>1
           DEF StablecoinAnswers, tasks, IInv, DebtsFollow, CountedAtOnce,
               AllCounted
<1> QED  BY <1>2, <1>3

\* a debt that is still requested means that nothing has been counted
LEMMA DebtKeeps ==
    ASSUME IInv, NEW d \in Denoms, DebtValued(d) \/ DebtFails(d) PROVE IInv'
<1>1. Owed' = Owed
  BY OwedStays DEF DebtValued, DebtFails
<1>2. d \in running /\ UNCHANGED <<at, account>>
  BY DEF DebtValued, DebtFails
<1>3. counted = {} /\ account.counted = {} /\ at \notin Early
  BY <1>2 DEF IInv, DebtsFollow, CountedAtOnce, AllCounted
<1>4. counted' = {} \/ (counted' = Owed /\ running' = {} /\ failed' = {})
  BY <1>3 DEF DebtValued, DebtFails
<1> QED  BY <1>1, <1>2, <1>3, <1>4
         DEF IInv, DebtsFollow, CountedAtOnce, AllCounted

LEMMA NextInvariant == ASSUME IInv, [Next]_vars PROVE IInv'
<1>1. ASSUME UNCHANGED <<inputs, tasks, account>>, at' \in Early => at \in Early
      PROVE  IInv'
  BY <1>1, OwedStays
     DEF tasks, IInv, DebtsFollow, CountedAtOnce, AllCounted
<1>2. CASE Begin \/ QueryFails \/ AssetAnswers \/ QueriesAnswer
  BY <1>1, <1>2
     DEF Begin, QueryFails, AssetAnswers, QueriesAnswer, Await, Early
<1>3. CASE (\E d \in Denoms : CollateralValued(d)) \/ CollateralFails
  BY <1>1, <1>3 DEF CollateralValued, CollateralFails, Early
<1>4. CASE UnlockAnswers \/ DebtorAnswers
  BY <1>1, <1>4 DEF UnlockAnswers, DebtorAnswers, Await, Early
<1>5. CASE UNCHANGED vars
  BY <1>1, <1>5 DEF vars
<1> QED  BY <1>2, <1>3, <1>4, <1>5, AccountKeeps, DebtKeeps DEF Next

\* getAccountData(): however the answers interleave, the total has all token
\* debts in it or none, and none as soon as one request failed.
THEOREM DebtsAllOrNothingHolds == Spec => []DebtsAllOrNothing
<1>1. IInv => DebtsAllOrNothing
  BY DEF IInv, CountedAtOnce, AllCounted, DebtsAllOrNothing
<1>2. ASSUME IInv, [Next]_vars PROVE IInv'
  BY <1>2, NextInvariant
<1> QED  BY <1>1, <1>2, InitInvariant, PTL DEF Spec

-----------------------------------------------------------------------------
(***************************************************************************)
(* Induction.  The natural numbers are well founded, so that a set of them *)
(* has a smallest member; induction over a set, which no prover has to     *)
(* instantiate with an operator, follows from it.                          *)
(***************************************************************************)

\* a set of natural numbers that is not empty has a smallest member
LEMMA SmallestExists ==
    ASSUME NEW T, T \subseteq Nat, T # {}
    PROVE  \E m \in T : \A n \in T : ~(n < m)
<1> DEFINE R == OpToRel(<, Nat)
<1>1. IsWellFoundedOn(R, Nat)
  BY NatLessThanWellFounded, Zenon
<1>2. \E x \in T : \A y \in T : <<y, x>> \notin R
  <2> HIDE DEF R
  <2> QED BY <1>1, WFMin, Zenon
<1>3. \A x, y \in Nat : y < x => <<y, x>> \in R
  BY DEF OpToRel
<1> HIDE DEF R
<1> QED  BY <1>2, <1>3

\* a set with zero and with the successors of its members has all of them
LEMMA Induction ==
    ASSUME NEW S, 0 \in S, \A n \in Nat : n \in S => n + 1 \in S
    PROVE  Nat \subseteq S
<1> SUFFICES ASSUME Nat \ S # {} PROVE FALSE
  OBVIOUS
<1>1. PICK m \in Nat \ S : \A n \in Nat \ S : ~(n < m)
  BY SmallestExists
<1>2. m - 1 \in Nat /\ m - 1 < m
  BY <1>1
<1>3. m - 1 \in S
  BY <1>1, <1>2
<1> QED  BY <1>1, <1>2, <1>3

-----------------------------------------------------------------------------
(***************************************************************************)
(* SumFunctionOnSet is a fold: a recursive function over the subsets of a  *)
(* finite set.  The equation that defines it has a solution, which is an   *)
(* integer on every subset if all values are, by induction on the size of  *)
(* the subset.                                                             *)
(***************************************************************************)

\* the equation that defines the sums of the values of fun over the subsets
Value(fun, g, s) == IF s = {} THEN 0
                    ELSE fun[CHOOSE x \in s : TRUE] + g[s \ {CHOOSE x \in s : TRUE}]

Sums(fun, S, g) == g = [s \in SUBSET S |-> Value(fun, g, s)]

LEMMA ValueIsInteger ==
    ASSUME NEW S, NEW fun, \A x \in S : fun[x] \in Int, NEW g,
           NEW s \in SUBSET S, \A x \in s : g[s \ {x}] \in Int
    PROVE  Value(fun, g, s) \in Int
<1>1. CASE s = {}
  BY <1>1 DEF Value
<1>2. CASE s # {}
  <2> DEFINE x == CHOOSE x \in s : TRUE
  <2>1. x \in s
    BY <1>2, Zenon
  <2>2. fun[x] \in Int /\ g[s \ {x}] \in Int
    BY <2>1
  <2> QED  BY <1>2, <2>2 DEF Value
<1> QED  BY <1>1, <1>2

\* removing one element of a finite set
LEMMA Smaller ==
    ASSUME NEW S, IsFiniteSet(S), NEW s \in SUBSET S
    PROVE  /\ Cardinality(s) \in Nat
           /\ Cardinality(s) = 0 <=> s = {}
           /\ \A x \in s : /\ s \ {x} \in SUBSET S
                           /\ Cardinality(s \ {x}) = Cardinality(s) - 1
<1>1. IsFiniteSet(s)
  BY FS_Subset
<1> QED  BY <1>1, FS_CardinalityType, FS_EmptySet, FS_RemoveElement

LEMMA SumExists ==
    ASSUME NEW S, IsFiniteSet(S), NEW fun, \A x \in S : fun[x] \in Int
    PROVE  \E g : Sums(fun, S, g)
<1> DEFINE Solves(g, n) == /\ g \in [SUBSET S -> Int]
                           /\ \A s \in SUBSET S : Cardinality(s) <= n
                                                      => g[s] = Value(fun, g, s)
           Upto == {n \in Nat : \E g : Solves(g, n)}
<1>1. 0 \in Upto
  <2> DEFINE g == [s \in SUBSET S |-> 0]
  <2>1. Solves(g, 0)
    BY Smaller DEF Value
  <2> QED  BY <2>1
<1>2. ASSUME NEW n \in Nat, n \in Upto PROVE n + 1 \in Upto
  <2>1. PICK g : Solves(g, n)
    BY <1>2
  <2> DEFINE h == [s \in SUBSET S |-> Value(fun, g, s)]
  <2>2. h \in [SUBSET S -> Int]
    BY <2>1, ValueIsInteger
  <2>3. ASSUME NEW s \in SUBSET S, Cardinality(s) <= n + 1
        PROVE  h[s] = Value(fun, h, s)
    <3>1. CASE s = {}
      BY <3>1 DEF Value
    <3>2. CASE s # {}
      <4> DEFINE x == CHOOSE x \in s : TRUE
      <4>1. x \in s
        BY <3>2, Zenon
      <4> HIDE DEF x
      <4>2. Cardinality(s \ {x}) <= n /\ s \ {x} \in SUBSET S
        BY <2>3, <4>1, Smaller
      <4>3. h[s \ {x}] = g[s \ {x}]
        BY <2>1, <4>2
      <4> QED  BY <3>2, <4>3 DEF Value, x
    <3> QED  BY <3>1, <3>2
  <2> HIDE DEF h
  <2>4. Solves(h, n + 1)
    BY <2>2, <2>3
  <2> HIDE DEF Solves
  <2> QED  BY <2>4
<1>3. Nat \subseteq Upto
  <2> HIDE DEF Upto
  <2> QED  BY <1>1, <1>2, Induction
<1>4. PICK g : Solves(g, Cardinality(S))
  <2>1. Cardinality(S) \in Upto
    BY <1>3, FS_CardinalityType
  <2> QED  BY <2>1
<1>5. \A s \in SUBSET S : Cardinality(s) <= Cardinality(S)
  BY FS_Subset
<1>6. Sums(fun, S, g)
  BY <1>4, <1>5 DEF Sums
<1> QED  BY <1>6

LEMMA SolutionsAreIntegers ==
    ASSUME NEW S, IsFiniteSet(S), NEW fun, \A x \in S : fun[x] \in Int,
           NEW g, Sums(fun, S, g)
    PROVE  \A s \in SUBSET S : g[s] \in Int
<1> DEFINE Typed == {n \in Nat : \A s \in SUBSET S : Cardinality(s) = n => g[s] \in Int}
<1>1. \A s \in SUBSET S : g[s] = Value(fun, g, s)
  BY DEF Sums
<1>2. 0 \in Typed
  <2>1. ASSUME NEW s \in SUBSET S, Cardinality(s) = 0 PROVE g[s] \in Int
    <3>1. s = {}
      BY <2>1, Smaller
    <3>2. \A x \in s : g[s \ {x}] \in Int
      BY <3>1
    <3>3. Value(fun, g, s) \in Int
      BY <3>2, ValueIsInteger
    <3> QED  BY <1>1, <3>3
  <2> QED  BY <2>1
<1>3. ASSUME NEW n \in Nat, n \in Typed PROVE n + 1 \in Typed
  <2>1. ASSUME NEW s \in SUBSET S, Cardinality(s) = n + 1 PROVE g[s] \in Int
    <3>1. \A x \in s : g[s \ {x}] \in Int
      <4>1. ASSUME NEW x \in s
            PROVE  s \ {x} \in SUBSET S /\ Cardinality(s \ {x}) = n
        BY <2>1, Smaller
      <4> QED  BY <1>3, <4>1
    <3>2. Value(fun, g, s) \in Int
      BY <3>1, ValueIsInteger
    <3> QED  BY <1>1, <3>2
  <2>2. n + 1 \in Nat
    OBVIOUS
  <2> QED  BY <2>1, <2>2
<1>4. Nat \subseteq Typed
  <2> HIDE DEF Typed
  <2> QED  BY <1>2, <1>3, Induction
<1> QED  BY <1>4, Smaller

\* the fold picks a solution, so that a sum of integers is an integer
LEMMA SumIsInteger ==
    ASSUME NEW S, IsFiniteSet(S), NEW fun, \A x \in S : fun[x] \in Int
    PROVE  SumFunctionOnSet(fun, S) \in Int
<1>1. Sums(fun, S, CHOOSE g : Sums(fun, S, g))
  <2>1. \E g : Sums(fun, S, g)
    BY SumExists, Zenon
  <2> QED  BY <2>1, Zenon
<1>2. SumFunctionOnSet(fun, S) = (CHOOSE g : Sums(fun, S, g))[S]
  BY DEF SumFunctionOnSet, FoldFunctionOnSet, MapThenFoldSet, Value, Sums
<1> QED  BY <1>1, <1>2, SolutionsAreIntegers

-----------------------------------------------------------------------------
(***************************************************************************)
(* TenTo is a recursive function on 0 .. n, without a zero; the multiplier *)
(* of the opposite difference of decimals is the inverse.                  *)
(***************************************************************************)

\* the equation that defines the powers of ten up to n
Powers(p, n) == p = [k \in 0 .. n |-> IF k = 0 THEN 1 ELSE 10 * p[k - 1]]

LEMMA PowersExist == \A n \in Nat : \E p : Powers(p, n)
<1> DEFINE Upto == {n \in Nat : \E p \in [0 .. n -> Nat \ {0}] : Powers(p, n)}
<1>1. 0 \in Upto
  <2> DEFINE p == [k \in 0 .. 0 |-> 1]
  <2>1. p \in [0 .. 0 -> Nat \ {0}] /\ Powers(p, 0)
    BY DEF Powers
  <2> QED  BY <2>1
<1>2. ASSUME NEW n \in Nat, n \in Upto PROVE n + 1 \in Upto
  <2>1. PICK p \in [0 .. n -> Nat \ {0}] : Powers(p, n)
    BY <1>2
  <2> DEFINE r == [k \in 0 .. (n + 1) |-> IF k = 0 THEN 1 ELSE 10 * p[k - 1]]
  <2>2. r \in [0 .. (n + 1) -> Nat \ {0}]
    BY <2>1
  <2>3. \A k \in 0 .. n : r[k] = p[k]
    BY <2>1 DEF Powers
  <2>4. \A k \in 0 .. (n + 1) : k # 0 => r[k - 1] = p[k - 1]
    <3>1. \A k \in 0 .. (n + 1) : k # 0 => k - 1 \in 0 .. n
      OBVIOUS
    <3> HIDE DEF r
    <3> QED  BY <2>3, <3>1
  <2>5. r = [k \in 0 .. (n + 1) |-> IF k = 0 THEN 1 ELSE 10 * r[k - 1]]
    BY <2>4
  <2>6. Powers(r, n + 1)
    BY <2>5 DEF Powers
  <2> HIDE DEF r
  <2>7. n + 1 \in Nat
    OBVIOUS
  <2> QED  BY <2>2, <2>6, <2>7
<1>3. Nat \subseteq Upto
  <2> HIDE DEF Upto
  <2> QED  BY <1>1, <1>2, Induction
<1> QED  BY <1>3

\* a solution of the equation has no zero
LEMMA PowersArePositive ==
    ASSUME NEW n \in Nat, NEW p, Powers(p, n)
    PROVE  p[0] = 1 /\ p[n] \in Nat \ {0}
<1> DEFINE Positive == {k \in Nat : k <= n => p[k] \in Nat \ {0}}
<1>1. p[0] = 1
  BY DEF Powers
<1>2. 0 \in Positive
  BY <1>1
<1>3. ASSUME NEW k \in Nat, k \in Positive PROVE k + 1 \in Positive
  <2>1. k + 1 <= n => p[k + 1] = 10 * p[k]
    BY DEF Powers
  <2> QED  BY <1>3, <2>1
<1>4. Nat \subseteq Positive
  <2> HIDE DEF Positive
  <2> QED  BY <1>2, <1>3, Induction
<1> QED  BY <1>1, <1>4

LEMMA TenToType == TenTo(0) = 1 /\ \A n \in Nat : TenTo(n) \in Nat \ {0}
<1>1. ASSUME NEW n \in Nat
      PROVE  Powers(CHOOSE p : Powers(p, n), n)
  <2>1. \E p : Powers(p, n)
    BY PowersExist
  <2> QED  BY <2>1, Zenon
<1>2. ASSUME NEW n \in Nat
      PROVE  TenTo(n) = (CHOOSE p : Powers(p, n))[n]
  BY DEF TenTo, Powers
<1> QED  BY <1>1, <1>2, PowersArePositive

Flip(x) == <<x[2], x[1]>>
PositiveFractions == (Nat \ {0}) \X (Nat \ {0})

\* the multiplier of the opposite difference is the inverse
LEMMA MultiplierType ==
    ASSUME NEW n \in Int
    PROVE  /\ DecimalMultiplier(n) \in PositiveFractions
           /\ DecimalMultiplier(-n) = Flip(DecimalMultiplier(n))
<1>1. CASE n = 0
  BY <1>1, TenToType DEF DecimalMultiplier, Flip, Whole, PositiveFractions
<1>2. CASE n > 0
  BY <1>2, TenToType DEF DecimalMultiplier, Flip, Whole, PositiveFractions
<1>3. CASE n < 0
  <2>1. -n \in Nat /\ -n > 0 /\ ~(-n < 0)
    BY <1>3
  <2>2. TenTo(-n) \in Nat \ {0}
    BY <2>1, TenToType
  <2> QED  BY <1>3, <2>1, <2>2 DEF DecimalMultiplier, Flip, Whole, PositiveFractions
<1> QED  BY <1>1, <1>2, <1>3

-----------------------------------------------------------------------------
(***************************************************************************)
(* The order of fractions with a positive denominator, by the products of  *)
(* integers that it stands for.                                            *)
(***************************************************************************)

LEMMA ProductOfPositives == \A a, b \in Nat \ {0} : a * b \in Nat \ {0}
<1>1. ASSUME NEW a \in Nat \ {0}, NEW b \in Nat \ {0} PROVE a * b > 0
  BY <1>1, SMT
<1> QED  BY <1>1

LEMMA ProductOfNaturals == \A a, b \in Nat : a * b \in Nat
<1>1. ASSUME NEW a \in Nat, NEW b \in Nat PROVE a * b >= 0
  BY <1>1, SMT
<1> QED  BY <1>1

\* a positive factor cancels
LEMMA Cancelling ==
    ASSUME NEW a \in Int, NEW b \in Int, NEW c \in Nat \ {0}
    PROVE  a * c < b * c <=> a < b
<1>1. ASSUME a < b PROVE a * c < b * c
  <2>1. (b - a) * c > 0
    BY <1>1, ProductOfPositives
  <2>2. (b - a) * c = b * c - a * c
    OBVIOUS
  <2>3. a * c \in Int /\ b * c \in Int
    OBVIOUS
  <2> QED  BY <2>1, <2>2, <2>3
<1>2. ASSUME b <= a PROVE b * c <= a * c
  <2>1. (a - b) * c \in Nat
    BY <1>2, ProductOfNaturals
  <2>2. (a - b) * c = a * c - b * c
    OBVIOUS
  <2>3. a * c \in Int /\ b * c \in Int
    OBVIOUS
  <2> QED  BY <2>1, <2>2, <2>3
<1>3. a * c \in Int /\ b * c \in Int
  OBVIOUS
<1> QED  BY <1>1, <1>2, <1>3

LEMMA ScalingUp ==
    ASSUME NEW a \in Int, NEW b \in Int, a <= b, NEW c \in Nat
    PROVE  a * c <= b * c
<1>1. (b - a) * c \in Nat
  BY ProductOfNaturals
<1>2. (b - a) * c = b * c - a * c
  OBVIOUS
<1>3. a * c \in Int /\ b * c \in Int
  OBVIOUS
<1> QED  BY <1>1, <1>2, <1>3

AtMost(x, y) == ~Less(y, x)

\* the operations of BigNumber stay fractions
LEMMA FractionType ==
    ASSUME NEW x \in Fractions, NEW y \in Fractions
    PROVE  /\ Times(x, y) \in Fractions
           /\ Minus(x, y) \in Fractions
           /\ y \in PositiveFractions => Over(x, y) \in Fractions
           /\ Lesser(x, y) \in Fractions
<1>1. x[1] \in Int /\ y[1] \in Int /\ x[2] \in Nat \ {0} /\ y[2] \in Nat \ {0}
  BY DEF Fractions
<1>2. x[2] * y[2] \in Nat \ {0}
  BY <1>1, ProductOfPositives
<1>3. /\ x[1] * y[1] \in Int
      /\ x[1] * y[2] - y[1] * x[2] \in Int
      /\ x[1] * y[2] \in Int
  BY <1>1
<1>4. y \in PositiveFractions => x[2] * y[1] \in Nat \ {0}
  BY <1>1, ProductOfPositives DEF PositiveFractions
<1> QED  BY <1>2, <1>3, <1>4 DEF Times, Minus, Over, Lesser, Fractions

LEMMA WholeType == \A n \in Int : Whole(n) \in Fractions
  BY DEF Whole, Fractions

LEMMA AtMostIsTotal ==
    ASSUME NEW x \in Fractions, NEW y \in Fractions
    PROVE  /\ AtMost(x, x)
           /\ Less(x, y) => AtMost(x, y)
           /\ AtMost(Lesser(x, y), x) /\ AtMost(Lesser(x, y), y)
<1>1. x[1] \in Int /\ y[1] \in Int /\ x[2] \in Nat \ {0} /\ y[2] \in Nat \ {0}
  BY DEF Fractions
<1>2. x[1] * y[2] \in Int /\ y[1] * x[2] \in Int /\ x[1] * x[2] \in Int
      /\ y[1] * y[2] \in Int
  BY <1>1
<1> QED  BY <1>2 DEF AtMost, Less, Lesser

\* x <= y <= z, and x <= y < z
LEMMA Transitivity ==
    ASSUME NEW x \in Fractions, NEW y \in Fractions, NEW z \in Fractions,
           AtMost(x, y)
    PROVE  /\ AtMost(y, z) => AtMost(x, z)
           /\ Less(y, z) => Less(x, z)
<1> DEFINE x1 == x[1] x2 == x[2] y1 == y[1] y2 == y[2] z1 == z[1] z2 == z[2]
<1>1. /\ x1 \in Int /\ y1 \in Int /\ z1 \in Int
      /\ x2 \in Nat \ {0} /\ y2 \in Nat \ {0} /\ z2 \in Nat \ {0}
  BY DEF Fractions
<1>2. ~(y1 * x2 < x1 * y2)
  BY DEF AtMost, Less
<1>3. /\ AtMost(y, z) <=> ~(z1 * y2 < y1 * z2)
      /\ AtMost(x, z) <=> ~(z1 * x2 < x1 * z2)
      /\ Less(y, z) <=> y1 * z2 < z1 * y2
      /\ Less(x, z) <=> x1 * z2 < z1 * x2
  BY DEF AtMost, Less
<1> HIDE DEF x1, x2, y1, y2, z1, z2
<1>4. /\ x1 * y2 \in Int /\ y1 * x2 \in Int /\ y1 * z2 \in Int
      /\ z1 * y2 \in Int /\ x1 * z2 \in Int /\ z1 * x2 \in Int
  BY <1>1
<1>5. (x1 * z2) * y2 <= (y1 * z2) * x2
  <2>1. (x1 * y2) * z2 <= (y1 * x2) * z2
    BY <1>1, <1>2, <1>4, ScalingUp
  <2> QED  BY <1>1, <2>1
<1>6. ASSUME ~(z1 * y2 < y1 * z2) PROVE ~(z1 * x2 < x1 * z2)
  <2>1. (y1 * z2) * x2 <= (z1 * y2) * x2
    BY <1>1, <1>4, <1>6, ScalingUp
  <2>2. (z1 * y2) * x2 = (z1 * x2) * y2
    BY <1>1
  <2>3. (x1 * z2) * y2 <= (z1 * x2) * y2
    <3>1. (x1 * z2) * y2 \in Int /\ (y1 * z2) * x2 \in Int /\ (z1 * x2) * y2 \in Int
      BY <1>1
    <3> QED  BY <1>5, <2>1, <2>2, <3>1
  <2>4. z1 * x2 < x1 * z2 => (z1 * x2) * y2 < (x1 * z2) * y2
    BY <1>1, <1>4, Cancelling
  <2>5. (x1 * z2) * y2 \in Int /\ (z1 * x2) * y2 \in Int
    BY <1>1
  <2> QED  BY <2>3, <2>4, <2>5
<1>7. ASSUME y1 * z2 < z1 * y2 PROVE x1 * z2 < z1 * x2
  <2>1. (y1 * z2) * x2 < (z1 * y2) * x2
    BY <1>1, <1>4, <1>7, Cancelling
  <2>2. (z1 * y2) * x2 = (z1 * x2) * y2
    BY <1>1
  <2>3. (x1 * z2) * y2 < (z1 * x2) * y2
    <3>1. (x1 * z2) * y2 \in Int /\ (y1 * z2) * x2 \in Int /\ (z1 * x2) * y2 \in Int
      BY <1>1
    <3> QED  BY <1>5, <2>1, <2>2, <3>1
  <2> QED  BY <1>1, <1>4, <2>3, Cancelling
<1> QED  BY <1>3, <1>6, <1>7

\* a factor that is not negative keeps the order
LEMMA Monotony ==
    ASSUME NEW x \in Fractions, NEW y \in Fractions, AtMost(x, y),
           NEW f \in Fractions, f[1] \in Nat
    PROVE  AtMost(Times(f, x), Times(f, y)) /\ AtMost(Times(x, f), Times(y, f))
<1> DEFINE x1 == x[1] x2 == x[2] y1 == y[1] y2 == y[2] f1 == f[1] f2 == f[2]
<1>1. /\ x1 \in Int /\ y1 \in Int /\ f1 \in Nat
      /\ x2 \in Nat \ {0} /\ y2 \in Nat \ {0} /\ f2 \in Nat \ {0}
  BY DEF Fractions
<1>2. x1 * y2 <= y1 * x2
  <2>1. ~(y1 * x2 < x1 * y2)
    BY DEF AtMost, Less
  <2>2. x1 * y2 \in Int /\ y1 * x2 \in Int
    BY <1>1
  <2> QED  BY <2>1, <2>2
<1>3. /\ AtMost(Times(f, x), Times(f, y))
            <=> ~((f1 * y1) * (f2 * x2) < (f1 * x1) * (f2 * y2))
      /\ AtMost(Times(x, f), Times(y, f))
            <=> ~((y1 * f1) * (x2 * f2) < (x1 * f1) * (y2 * f2))
  BY DEF AtMost, Less, Times
<1> HIDE DEF x1, x2, y1, y2, f1, f2
<1>4. (x1 * y2) * (f1 * f2) <= (y1 * x2) * (f1 * f2)
  <2>1. f1 * f2 \in Nat /\ x1 * y2 \in Int /\ y1 * x2 \in Int
    BY <1>1, ProductOfNaturals
  <2> QED  BY <1>2, <2>1, ScalingUp
<1>5. /\ (f1 * x1) * (f2 * y2) = (x1 * y2) * (f1 * f2)
      /\ (f1 * y1) * (f2 * x2) = (y1 * x2) * (f1 * f2)
      /\ (x1 * f1) * (y2 * f2) = (x1 * y2) * (f1 * f2)
      /\ (y1 * f1) * (x2 * f2) = (y1 * x2) * (f1 * f2)
  BY <1>1
<1>6. (x1 * y2) * (f1 * f2) \in Int /\ (y1 * x2) * (f1 * f2) \in Int
  BY <1>1
<1> QED  BY <1>3, <1>4, <1>5, <1>6

\* the quotient, rounded down
LEMMA Division ==
    ASSUME NEW a \in Int, NEW b \in Nat \ {0}
    PROVE  /\ a \div b \in Int
           /\ (a \div b) * b <= a
           /\ a < (a \div b) * b + b
<1>1. a \div b \in Int /\ a % b \in 0 .. (b - 1)
  OBVIOUS
<1>2. a = (a \div b) * b + (a % b)
  OBVIOUS
<1> QED  BY <1>1, <1>2

\* an integer is below the next whole number when it is below the number
LEMMA RoundingUp ==
    ASSUME NEW x \in Fractions
    PROVE  /\ RoundUp(x) \in Fractions
           /\ RoundUp(x)[2] = 1
           /\ \A t \in Int : Less(Whole(t), RoundUp(x)) <=> Less(Whole(t), x)
           /\ x[1] \in Nat => RoundUp(x)[1] \in Nat
<1> DEFINE a == x[1] b == x[2] n == -((-a) \div b)
<1>1. a \in Int /\ b \in Nat \ {0} /\ -a \in Int
  BY DEF Fractions
<1>2. RoundUp(x) = <<n, 1>>
  BY DEF RoundUp, Whole
<1>3. \A t \in Int : /\ Less(Whole(t), <<n, 1>>) <=> t * 1 < n * 1
                     /\ Less(Whole(t), x) <=> t * b < a * 1
  BY DEF Less, Whole
<1>4. n \in Int /\ a <= n * b /\ (n - 1) * b < a
  <2> DEFINE m == (-a) \div b
  <2>1. m \in Int /\ m * b <= -a /\ -a < m * b + b
    BY <1>1, Division
  <2>2. n = -m
    OBVIOUS
  <2> HIDE DEF m, n
  <2>3. n \in Int /\ m * b = -(n * b) /\ n * b \in Int
    BY <1>1, <2>1, <2>2
  <2>4. (n - 1) * b = n * b - b
    BY <1>1, <2>3
  <2> HIDE DEF b, a
  <2> QED  BY <1>1, <2>1, <2>3, <2>4
<1> HIDE DEF a, b, n
<1>5. ASSUME NEW t \in Int PROVE t * 1 < n * 1 <=> t * b < a * 1
  <2>1. t * b \in Int /\ n * b \in Int /\ (n - 1) * b \in Int
    BY <1>1, <1>4
  <2>2. ASSUME t < n PROVE t * b < a
    <3>1. t <= n - 1
      BY <1>4, <2>2
    <3>2. t * b <= (n - 1) * b
      BY <1>1, <1>4, <3>1, ScalingUp
    <3> QED  BY <1>1, <1>4, <2>1, <3>2
  <2>3. ASSUME t * b < a PROVE t < n
    <3>1. t * b < n * b
      BY <1>1, <1>4, <2>1, <2>3
    <3> QED  BY <1>1, <1>4, <3>1, Cancelling
  <2> QED  BY <1>1, <1>4, <2>2, <2>3
<1>6. a \in Nat => n \in Nat
  <2>1. ASSUME a \in Nat, n < 0 PROVE FALSE
    <3>1. n * b < 0 * b
      BY <1>1, <1>4, <2>1, Cancelling
    <3>2. n * b \in Int /\ 0 * b = 0
      BY <1>1, <1>4
    <3> QED  BY <1>4, <2>1, <3>1, <3>2
  <2> QED  BY <1>4, <2>1
<1> QED  BY <1>2, <1>3, <1>4, <1>5, <1>6 DEF Fractions, a

\* rounding adds half a unit at most
LEMMA RoundingHalfUp ==
    ASSUME NEW x \in Fractions, x[1] \in Nat
    PROVE  /\ RoundHalfUp(x) \in Fractions
           /\ RoundHalfUp(x)[1] \in Nat
           /\ AtMost(Minus(RoundHalfUp(x), x), <<1, 2>>)
<1> DEFINE a == x[1] b == x[2] n == (2 * a + b) \div (2 * b)
<1>1. a \in Nat /\ b \in Nat \ {0} /\ 2 * b \in Nat \ {0} /\ 2 * a + b \in Int
  BY DEF Fractions
<1>2. RoundHalfUp(x) = <<n, 1>>
  BY DEF RoundHalfUp, Whole
<1>3. AtMost(Minus(<<n, 1>>, x), <<1, 2>>)
            <=> ~(1 * (1 * b) < (n * b - a * 1) * 2)
  BY DEF AtMost, Less, Minus
<1>4. /\ n \in Int /\ n * (2 * b) <= 2 * a + b
      /\ 2 * a + b < n * (2 * b) + 2 * b
  BY <1>1, Division
<1> HIDE DEF a, b, n
<1>5. n * (2 * b) = 2 * (n * b) /\ n * b \in Int
  BY <1>1, <1>4
<1>6. n >= 0
  <2>1. ASSUME n <= -1 PROVE FALSE
    <3>1. n * b <= (-1) * b
      BY <1>1, <1>4, <2>1, ScalingUp
    <3>2. (-1) * b = -b
      BY <1>1
    <3> QED  BY <1>1, <1>4, <1>5, <3>1, <3>2
  <2> QED  BY <1>4, <2>1
<1> QED  BY <1>1, <1>2, <1>3, <1>4, <1>5, <1>6 DEF Fractions

\* what is above y by half a unit at most is not higher above a greater x
LEMMA MinusFalls ==
    ASSUME NEW x \in Fractions, NEW y \in Fractions, NEW z \in Fractions,
           AtMost(x, y)
    PROVE  AtMost(Minus(z, y), Minus(z, x))
<1> DEFINE x1 == x[1] x2 == x[2] y1 == y[1] y2 == y[2] z1 == z[1] z2 == z[2]
<1>1. /\ x1 \in Int /\ y1 \in Int /\ z1 \in Int
      /\ x2 \in Nat \ {0} /\ y2 \in Nat \ {0} /\ z2 \in Nat \ {0}
  BY DEF Fractions
<1>2. x1 * y2 <= y1 * x2
  <2>1. ~(y1 * x2 < x1 * y2)
    BY DEF AtMost, Less
  <2>2. x1 * y2 \in Int /\ y1 * x2 \in Int
    BY <1>1
  <2> QED  BY <2>1, <2>2
<1>3. AtMost(Minus(z, y), Minus(z, x))
            <=> ~((z1 * x2 - x1 * z2) * (z2 * y2) < (z1 * y2 - y1 * z2) * (z2 * x2))
  BY DEF AtMost, Less, Minus
<1> HIDE DEF x1, x2, y1, y2, z1, z2
<1> DEFINE c == (z1 * z2) * (x2 * y2)
<1>4. /\ (z1 * x2 - x1 * z2) * (z2 * y2) = c - (x1 * y2) * (z2 * z2)
      /\ (z1 * y2 - y1 * z2) * (z2 * x2) = c - (y1 * x2) * (z2 * z2)
  BY <1>1
<1>5. (x1 * y2) * (z2 * z2) <= (y1 * x2) * (z2 * z2)
  <2>1. x1 * y2 \in Int /\ y1 * x2 \in Int /\ z2 * z2 \in Nat
    BY <1>1, ProductOfNaturals
  <2> QED  BY <1>2, <2>1, ScalingUp
<1>6. c \in Int /\ (x1 * y2) * (z2 * z2) \in Int /\ (y1 * x2) * (z2 * z2) \in Int
  BY <1>1
<1> HIDE DEF c
<1> QED  BY <1>3, <1>4, <1>5, <1>6

\* what is not above y is not above it by half a unit
LEMMA NoExcess ==
    ASSUME NEW x \in Fractions, NEW y \in Fractions, AtMost(x, y)
    PROVE  AtMost(Minus(x, y), <<1, 2>>)
<1> DEFINE x1 == x[1] x2 == x[2] y1 == y[1] y2 == y[2]
<1>1. x1 \in Int /\ y1 \in Int /\ x2 \in Nat \ {0} /\ y2 \in Nat \ {0}
  BY DEF Fractions
<1>2. ~(y1 * x2 < x1 * y2)
  BY DEF AtMost, Less
<1>3. AtMost(Minus(x, y), <<1, 2>>)
            <=> ~(1 * (x2 * y2) < (x1 * y2 - y1 * x2) * 2)
  BY DEF AtMost, Less, Minus
<1> HIDE DEF x1, x2, y1, y2
<1>4. x2 * y2 \in Nat /\ x1 * y2 \in Int /\ y1 * x2 \in Int
  BY <1>1, ProductOfNaturals
<1> QED  BY <1>2, <1>3, <1>4

\* with t of the collateral less than the debt is covered, exactly when more
\* than t is required
LEMMA RequiredCovers ==
    ASSUME NEW price \in PositiveFractions, NEW debt \in Fractions,
           NEW shift \in Int, NEW t \in Int
    PROVE  /\ CollateralRequired(price, debt, shift) \in Fractions
           /\ CollateralRequired(price, debt, shift)[2] = 1
           /\ debt[1] \in Nat => CollateralRequired(price, debt, shift)[1] \in Nat
           /\ Less(Whole(t), CollateralRequired(price, debt, shift))
                 <=> Less(Times(Times(price, Whole(t)), DecimalMultiplier(-shift)),
                          debt)
<1> DEFINE m == DecimalMultiplier(shift)
           x == Over(Times(debt, m), price)
<1>1. m \in PositiveFractions /\ DecimalMultiplier(-shift) = <<m[2], m[1]>>
  BY MultiplierType DEF Flip
<1> HIDE DEF m
<1>2. m \in Fractions /\ price \in Fractions
  BY <1>1 DEF PositiveFractions, Fractions
<1>3. x \in Fractions
  BY <1>2, FractionType
<1>4. CollateralRequired(price, debt, shift) = RoundUp(x)
  BY DEF CollateralRequired, m
<1>5. debt[1] \in Nat => x[1] \in Nat
  <2>1. m[1] \in Nat /\ price[2] \in Nat
    BY <1>1 DEF PositiveFractions
  <2>2. x[1] = (debt[1] * m[1]) * price[2]
    BY DEF Over, Times
  <2> QED  BY <2>1, <2>2, ProductOfNaturals
<1>6. Less(Whole(t), x)
        <=> Less(Times(Times(price, Whole(t)), DecimalMultiplier(-shift)), debt)
  <2> DEFINE d1 == debt[1] d2 == debt[2] p1 == price[1] p2 == price[2]
             m1 == m[1] m2 == m[2]
  <2>1. /\ d1 \in Int /\ d2 \in Int /\ p1 \in Int /\ p2 \in Int
        /\ m1 \in Int /\ m2 \in Int
    BY <1>2 DEF Fractions
  <2>2. /\ Less(Whole(t), x) <=> t * ((d2 * m2) * p1) < ((d1 * m1) * p2) * 1
        /\ Less(Times(Times(price, Whole(t)), <<m2, m1>>), debt)
              <=> ((p1 * t) * m2) * d2 < d1 * ((p2 * 1) * m1)
    BY DEF Less, Whole, Times, Over
  <2> HIDE DEF d1, d2, p1, p2, m1, m2
  <2>3. /\ t * ((d2 * m2) * p1) = ((p1 * t) * m2) * d2
        /\ ((d1 * m1) * p2) * 1 = d1 * ((p2 * 1) * m1)
    BY <2>1
  <2> QED  BY <1>1, <2>2, <2>3 DEF m1, m2
<1> HIDE DEF x
<1> QED  BY <1>3, <1>4, <1>5, <1>6, RoundingUp

-----------------------------------------------------------------------------
(***************************************************************************)
(* The close factor is the documented part of the debt, or less.           *)
(***************************************************************************)

\* what a query about a liquidation answers
IsInput(q) == q \in LiquidationInputs /\ q.threshold <= q.collateral

\* Clamped() lowers what is not negative, and to 1
LEMMA ClampedBounds ==
    ASSUME NEW x \in Fractions, x[1] \in Nat
    PROVE  /\ Clamped(x) \in Fractions /\ Clamped(x)[1] \in Nat
           /\ AtMost(Clamped(x), x) /\ AtMost(Clamped(x), Whole(1))
<1>1. Whole(0) \in Fractions /\ Whole(1) \in Fractions /\ Whole(1)[1] \in Nat
  BY WholeType DEF Whole
<1>2. CASE Less(Whole(1), x)
  <2>1. Clamped(x) = Whole(1)
    BY <1>2 DEF Clamped
  <2> QED  BY <1>1, <1>2, <2>1, AtMostIsTotal
<1>3. CASE ~Less(Whole(1), x)
  <2>1. ~Less(x, Whole(0))
    <3>1. x[1] \in Nat /\ x[2] \in Nat
      BY DEF Fractions
    <3> QED  BY <3>1 DEF Less, Whole
  <2>2. Clamped(x) = x
    BY <1>3, <2>1 DEF Clamped
  <2> QED  BY <1>3, <2>2, AtMostIsTotal DEF AtMost
<1> QED  BY <1>2, <1>3

\* the documented part below the critical value, as one fraction
MiddlePart(e, r, m) ==
    <<(e * Unit) * (r * Unit) - ((e * Unit - r) * m) * r, r * (r * Unit)>>

\* RepayablePart without its intermediate fractions
LEMMA RepayableParts ==
    ASSUME NEW q, IsInput(q)
    PROVE  LET e == q.debt - q.threshold
               r == q.complete * (q.collateral - q.threshold)
           IN RepayablePart(q) = IF e < 0 THEN Whole(0)
                                 ELSE IF q.debt < q.small \/ r <= e * Unit THEN Whole(1)
                                 ELSE MiddlePart(e, r, q.minimum)
<1> DEFINE d == q.debt t == q.threshold m == q.minimum
           e == d - t
           r == q.complete * (q.collateral - t)
           CL == Minus(Whole(t), <<-q.complete * (q.collateral - t), Unit>>)
           progress == Over(Whole(d - t), Minus(CL, Whole(t)))
<1>1. /\ d \in Nat /\ t \in Nat /\ m \in Nat /\ Unit \in Nat /\ e \in Int
      /\ q.complete \in Nat /\ q.collateral - t \in Nat
  BY UnitAssumption DEF IsInput, LiquidationInputs
<1>2. r \in Nat
  BY <1>1, ProductOfNaturals
<1>3. CL = <<t * Unit + r, Unit>>
  <2>1. CL = <<t * Unit - (-r) * 1, 1 * Unit>>
    BY DEF Minus, Whole
  <2> HIDE DEF r, CL
  <2> QED  BY <1>1, <1>2, <2>1
<1>4. progress = <<e * Unit, r>>
  <2>1. Minus(CL, Whole(t)) = <<(t * Unit + r) * 1 - t * Unit, Unit * 1>>
    BY <1>3 DEF Minus, Whole
  <2>2. (t * Unit + r) * 1 - t * Unit = r /\ Unit * 1 = Unit
    <3> HIDE DEF r
    <3> QED  BY <1>1, <1>2
  <2>3. progress = <<e * Unit, 1 * r>>
    BY <2>1, <2>2 DEF Over, Whole
  <2> HIDE DEF r
  <2> QED  BY <1>2, <2>3
<1>5. Less(Whole(d), CL) <=> e * Unit < r
  <2>1. Less(Whole(d), CL) <=> d * Unit < (t * Unit + r) * 1
    BY <1>3 DEF Less, Whole
  <2>2. e * Unit = d * Unit - t * Unit /\ d * Unit \in Int /\ t * Unit \in Int
    BY <1>1
  <2> HIDE DEF r, e
  <2> QED  BY <1>2, <2>1, <2>2
<1>6. Minus(progress, Times(Minus(progress, Whole(1)), <<m, Unit>>))
        = MiddlePart(e, r, m)
  <2>1. Minus(progress, Whole(1)) = <<(e * Unit) * 1 - 1 * r, r * 1>>
    BY <1>4 DEF Minus, Whole
  <2>2. (e * Unit) * 1 - 1 * r = e * Unit - r /\ r * 1 = r
    <3> HIDE DEF r, e
    <3> QED  BY <1>1, <1>2
  <2> HIDE DEF r, e, progress
  <2> QED  BY <1>4, <2>1, <2>2 DEF Minus, Times, MiddlePart
<1>7. RepayablePart(q) = IF d < t THEN Whole(0)
                         ELSE IF d < q.small \/ ~Less(Whole(d), CL) THEN Whole(1)
                         ELSE Minus(progress, Times(Minus(progress, Whole(1)),
                                                    <<m, Unit>>))
  BY DEF RepayablePart
<1>8. (d < t <=> e < 0) /\ (e * Unit < r <=> ~(r <= e * Unit))
  <2> HIDE DEF r
  <2> QED  BY <1>1, <1>2
<1> HIDE DEF r, CL, progress
<1> QED  BY <1>5, <1>6, <1>7, <1>8 DEF r

\* the code's formula for the close factor between the threshold and the
\* critical value is the documented one
LEMMA MiddlePartIsCloseFactor ==
    ASSUME NEW e \in Nat, NEW r \in Nat \ {0}, NEW m \in 0 .. Unit
    PROVE  LET f == <<m * r + e * (Unit - m) * Unit, Unit * r>>
           IN /\ f \in Fractions /\ f[1] \in Nat
              /\ MiddlePart(e, r, m) \in Fractions
              /\ MiddlePart(e, r, m)[1] \in Nat
              /\ AtMost(f, MiddlePart(e, r, m))
<1> DEFINE n == m * r + e * (Unit - m) * Unit
           k == Unit * r
           p == (e * Unit) * (r * Unit) - ((e * Unit - r) * m) * r
           s == r * (r * Unit)
<1>1. Unit \in Nat \ {0} /\ m \in Nat /\ Unit - m \in Nat
  BY UnitAssumption
<1>2. n \in Nat
  <2>1. m * r \in Nat /\ e * (Unit - m) \in Nat
    BY <1>1, ProductOfNaturals
  <2>2. e * (Unit - m) * Unit \in Nat
    BY <1>1, <2>1, ProductOfNaturals
  <2> QED  BY <2>1, <2>2
<1>3. k \in Nat \ {0} /\ r * Unit \in Nat \ {0} /\ s \in Nat \ {0}
  BY <1>1, ProductOfPositives
<1>4. p = r * n
  BY <1>1
<1>5. s = r * k
  BY <1>1
<1> HIDE DEF n, k, p, s
<1>6. p \in Nat
  BY <1>2, <1>4, ProductOfNaturals
<1>7. ~(p * k < n * s)
  BY <1>2, <1>3, <1>4, <1>5
<1>8. AtMost(<<n, k>>, <<p, s>>)
  BY <1>7 DEF AtMost, Less
<1>9. MiddlePart(e, r, m) = <<p, s>>
  BY DEF MiddlePart, p, s
<1> QED  BY <1>2, <1>3, <1>6, <1>8, <1>9 DEF Fractions, n, k

\* the close factor is not negative and at most the documented part
LEMMA CloseFactorBounds ==
    ASSUME NEW q, IsInput(q)
    PROVE  LET F == CloseFactor(q.debt, q.collateral, q.threshold, q)
           IN /\ F \in Fractions /\ F[1] \in Nat
              /\ RepayablePart(q) \in Fractions
              /\ AtMost(F, RepayablePart(q))
<1> DEFINE d == q.debt t == q.threshold m == q.minimum
           e == d - t
           r == q.complete * (q.collateral - t)
           f == <<m * r + e * (Unit - m) * Unit, Unit * r>>
           F == CloseFactor(d, q.collateral, t, q)
           R == RepayablePart(q)
<1> SUFFICES F \in Fractions /\ F[1] \in Nat /\ R \in Fractions /\ AtMost(F, R)
  OBVIOUS
<1>1. /\ d \in Nat /\ t \in Nat /\ m \in 0 .. Unit /\ Unit \in Nat \ {0} /\ e \in Int
      /\ q.small \in Nat /\ q.complete \in Nat /\ q.collateral - t \in Nat
  BY UnitAssumption DEF IsInput, LiquidationInputs
<1>2. r \in Nat
  BY <1>1, ProductOfNaturals
<1>3. F = IF d < t \/ d < q.small THEN Whole(0)
          ELSE IF q.complete = 0 THEN Whole(1)
          ELSE IF r = 0 THEN Clamped(<<m, Unit>>)
          ELSE Clamped(f)
  BY DEF CloseFactor
<1>4. R = IF e < 0 THEN Whole(0)
          ELSE IF q.debt < q.small \/ r <= e * Unit THEN Whole(1)
          ELSE MiddlePart(e, r, m)
  BY RepayableParts
<1>5. /\ Whole(0) \in Fractions /\ Whole(0)[1] \in Nat
      /\ Whole(1) \in Fractions /\ Whole(1)[1] \in Nat
      /\ AtMost(Whole(1), Whole(1))
  BY WholeType DEF Whole, AtMost, Less
<1>6. ASSUME NEW x \in Fractions, x[1] \in Nat PROVE AtMost(Whole(0), x)
  BY <1>6 DEF AtMost, Less, Whole, Fractions
<1>7. ASSUME e >= 0, r # 0
      PROVE  /\ f \in Fractions /\ f[1] \in Nat
             /\ MiddlePart(e, r, m) \in Fractions
             /\ MiddlePart(e, r, m)[1] \in Nat
             /\ AtMost(f, MiddlePart(e, r, m))
  <2>1. e \in Nat /\ r \in Nat \ {0} /\ m \in 0 .. Unit
    BY <1>1, <1>2, <1>7
  <2> HIDE DEF r, e, d, t, m
  <2> QED  BY <2>1, MiddlePartIsCloseFactor
<1>8. e >= 0 => e * Unit \in Nat
  BY <1>1, ProductOfNaturals
<1>9. d < t <=> e < 0
  BY <1>1
<1>10. q.complete = 0 => r = 0
  BY <1>1
<1>11. <<m, Unit>> \in Fractions /\ <<m, Unit>>[1] \in Nat
  BY <1>1 DEF Fractions
<1> HIDE DEF e, r, f, F, R
<1>12. R \in Fractions /\ R[1] \in Nat
  BY <1>1, <1>2, <1>4, <1>5, <1>7, <1>8
<1>13. CASE d < t \/ d < q.small
  BY <1>3, <1>5, <1>6, <1>12, <1>13
<1>14. CASE ~(d < t \/ d < q.small) /\ (q.complete = 0 \/ r = 0)
  <2>1. R = Whole(1)
    BY <1>1, <1>4, <1>8, <1>9, <1>10, <1>14
  <2>2. F \in {Whole(1), Clamped(<<m, Unit>>)}
    BY <1>3, <1>14
  <2> QED  BY <1>5, <1>11, <2>1, <2>2, ClampedBounds
<1>15. CASE ~(d < t \/ d < q.small) /\ q.complete # 0 /\ r # 0
  <2>1. F = Clamped(f) /\ e >= 0 /\ f \in Fractions /\ f[1] \in Nat
    BY <1>1, <1>3, <1>7, <1>9, <1>15
  <2>2. F \in Fractions /\ F[1] \in Nat /\ AtMost(F, f) /\ AtMost(F, Whole(1))
    BY <2>1, ClampedBounds
  <2>3. CASE r <= e * Unit
    <3>1. R = Whole(1)
      BY <1>1, <1>4, <2>1, <2>3
    <3> QED  BY <1>12, <2>2, <3>1
  <2>4. CASE ~(r <= e * Unit)
    <3>1. R = MiddlePart(e, r, m)
      BY <1>1, <1>4, <1>15, <2>1, <2>4
    <3>2. AtMost(f, R)
      BY <1>7, <1>15, <2>1, <3>1
    <3> QED  BY <1>12, <2>1, <2>2, <3>2, Transitivity
  <2> QED  BY <2>3, <2>4
<1> QED  BY <1>12, <1>13, <1>14, <1>15

-----------------------------------------------------------------------------
(***************************************************************************)
(* What getMaxCollateralForLiquidator() computes is within its bounds.     *)
(***************************************************************************)

\* what LiquidationIsBounded says of a result, with the error for a loss
Bounded(q, result) ==
    LET loss == Less(result.profit, Whole(0))
        repayable == Times(Times(Whole(q.debt), DecimalMultiplier(q.debtDecimals)),
                           RepayablePart(q))
        Worth(amount) ==
            Times(Times(amount, DecimalMultiplier(q.debtDecimals - q.collateralDecimals)),
                  Times(<<q.twap, q.per>>, <<Unit - q.bonus, Unit>>))
        half == <<1, 2>>
    IN /\ AtMost(result.taken, Whole(q.locked))
       /\ ~loss => /\ AtMost(Whole(0), result.answer)
                   /\ AtMost(result.answer, result.taken)
       /\ AtMost(Minus(result.repaid, Whole(q.requested)), half)
       /\ AtMost(Minus(result.repaid, repayable), half)
       /\ AtMost(Minus(result.repaid, Worth(result.taken)), half)
       /\ \/ result.taken = Whole(q.locked)
          \/ Less(Worth(Minus(result.taken, Whole(1))), result.repaid)
       /\ loss => /\ result.taken = Whole(q.locked)
                  /\ Less(Worth(result.taken), result.repaid)

\* of a profit that is not negative, and not above what is taken, the fee
\* leaves an answer between nothing and all that is taken
LEMMA AnswerBounds ==
    ASSUME NEW taken \in Nat, NEW required \in Nat, NEW fee \in 0 .. Unit
    PROVE  LET profit == Minus(Whole(taken), Whole(required))
               kept == Minus(Whole(taken), Times(profit, <<fee, Unit>>))
           IN /\ profit \in Fractions /\ kept \in Fractions
              /\ Less(profit, Whole(0)) <=> taken < required
              /\ ~Less(profit, Whole(0)) => /\ AtMost(Whole(0), kept)
                                            /\ AtMost(kept, Whole(taken))
<1> DEFINE p == taken - required
           a == taken * Unit - p * fee
<1>1. Unit \in Nat \ {0} /\ fee \in Nat /\ Unit - fee \in Nat /\ p \in Int
  BY UnitAssumption
<1>2. Minus(Whole(taken), Whole(required)) = <<p, 1>>
  BY DEF Minus, Whole
<1>3. Minus(Whole(taken), Times(<<p, 1>>, <<fee, Unit>>)) = <<a, Unit>>
  <2>1. Minus(Whole(taken), Times(<<p, 1>>, <<fee, Unit>>))
          = <<taken * (1 * Unit) - (p * fee) * 1, 1 * (1 * Unit)>>
    BY DEF Minus, Times, Whole
  <2> HIDE DEF p
  <2> QED  BY <1>1, <2>1
<1>4. Less(<<p, 1>>, Whole(0)) <=> p < 0
  <2> HIDE DEF p
  <2> QED  BY <1>1 DEF Less, Whole
<1>5. a \in Int
  <2> HIDE DEF p
  <2> QED  BY <1>1
<1>6. ASSUME p >= 0 PROVE 0 <= a /\ a <= taken * Unit
  <2>1. p * fee \in Nat
    BY <1>1, <1>6, ProductOfNaturals
  <2>2. p * fee <= p * Unit
    <3>1. p * (Unit - fee) \in Nat
      BY <1>1, <1>6, ProductOfNaturals
    <3> HIDE DEF p
    <3>2. p * (Unit - fee) = p * Unit - p * fee
      BY <1>1
    <3> QED  BY <1>1, <2>1, <3>1, <3>2
  <2>3. p * Unit <= taken * Unit
    <3>1. p <= taken
      OBVIOUS
    <3> HIDE DEF p
    <3> QED  BY <1>1, <3>1, ScalingUp
  <2>4. p * Unit \in Int /\ taken * Unit \in Int
    BY <1>1
  <2> HIDE DEF p
  <2> QED  BY <2>1, <2>2, <2>3, <2>4
<1>7. /\ AtMost(Whole(0), <<a, Unit>>) <=> ~(a * 1 < 0 * Unit)
      /\ AtMost(<<a, Unit>>, Whole(taken)) <=> ~(taken * Unit < a * 1)
  BY DEF AtMost, Less, Whole
<1>8. /\ <<p, 1>> \in Fractions /\ <<a, Unit>> \in Fractions
      /\ taken < required <=> p < 0
  <2> HIDE DEF a
  <2> QED  BY <1>1, <1>5 DEF Fractions
<1>9. taken * Unit \in Int
  BY <1>1
<1> HIDE DEF p, a
<1> QED  BY <1>1, <1>2, <1>3, <1>4, <1>5, <1>6, <1>7, <1>8, <1>9

\* a limit whose price is discounted covers less than at the full price
LEMMA DiscountBounds ==
    ASSUME NEW q, IsInput(q)
    PROVE  LET price == <<q.twap, q.per>>
               discounted == Times(price, <<Unit - q.bonus, Unit>>)
           IN /\ price \in PositiveFractions /\ discounted \in PositiveFractions
              /\ AtMost(discounted, price)
<1> DEFINE t == q.twap p == q.per c == Unit - q.bonus
<1>1. /\ t \in Nat \ {0} /\ p \in Nat \ {0} /\ Unit \in Nat \ {0}
      /\ c \in Nat \ {0} /\ c <= Unit
  BY UnitAssumption DEF IsInput, LiquidationInputs
<1> HIDE DEF t, p, c
<1>2. t * c \in Nat \ {0} /\ p * Unit \in Nat \ {0}
  BY <1>1, ProductOfPositives
<1>3. Times(<<t, p>>, <<c, Unit>>) = <<t * c, p * Unit>>
  BY DEF Times
<1>4. ~(t * (p * Unit) < (t * c) * p)
  <2>1. t * p \in Nat
    BY <1>1, ProductOfNaturals
  <2>2. c * (t * p) <= Unit * (t * p)
    BY <1>1, <2>1, ScalingUp
  <2>3. c * (t * p) = (t * c) * p /\ Unit * (t * p) = t * (p * Unit)
    BY <1>1
  <2>4. (t * c) * p \in Int /\ t * (p * Unit) \in Int
    BY <1>1
  <2> QED  BY <2>2, <2>3, <2>4
<1> QED  BY <1>1, <1>2, <1>3, <1>4 DEF PositiveFractions, AtMost, Less, t, p, c

\* the worth of a collateral, in either order of the factors
LEMMA WorthInOrder ==
    ASSUME NEW x \in Fractions, NEW y \in Fractions, NEW z \in Fractions
    PROVE  Times(Times(x, y), z) = Times(Times(z, x), y)
<1>1. \A a, b, c \in Int : (a * b) * c = (c * a) * b
  OBVIOUS
<1> QED  BY <1>1 DEF Times, Fractions

NonNegative == {x \in Fractions : x[1] \in Nat}

LEMMA NonNegativeTimes ==
    ASSUME NEW x \in NonNegative, NEW y \in NonNegative
    PROVE  Times(x, y) \in NonNegative
<1>1. Times(x, y) \in Fractions
  BY FractionType DEF NonNegative
<1>2. x[1] * y[1] \in Nat
  BY ProductOfNaturals DEF NonNegative
<1> QED  BY <1>1, <1>2 DEF NonNegative, Times

LEMMA NonNegativeParts ==
    /\ \A n \in Nat : Whole(n) \in NonNegative
    /\ PositiveFractions \subseteq NonNegative
    /\ NonNegative \subseteq Fractions
  BY DEF Whole, Fractions, PositiveFractions, NonNegative

\* the repayment is a whole number of units above none of its limits by more
\* than half a unit
LEMMA HalfAbove ==
    ASSUME NEW repaid \in Fractions, NEW base \in Fractions,
           AtMost(Minus(repaid, base), <<1, 2>>),
           NEW limit \in Fractions, AtMost(base, limit)
    PROVE  AtMost(Minus(repaid, limit), <<1, 2>>)
<1>1. AtMost(Minus(repaid, limit), Minus(repaid, base))
  BY MinusFalls
<1>2. /\ Minus(repaid, limit) \in Fractions /\ Minus(repaid, base) \in Fractions
      /\ <<1, 2>> \in Fractions
  BY FractionType DEF Fractions
<1> QED  BY <1>1, <1>2, Transitivity

\* the computation, step by step: the repayment is at most wanted, or what the
\* locked collateral covers, and more than that is required exactly on a loss
LEMMA LiquidationBounds ==
    ASSUME NEW q, IsInput(q)
    PROVE  LET result == Liquidation(q, Whole(q.requested))
           IN /\ result \in [repaid : Fractions, taken : Fractions,
                             profit : Fractions, answer : Fractions]
              /\ Bounded(q, result)
<1> DEFINE price == <<q.twap, q.per>>
           discounted == Times(price, <<Unit - q.bonus, Unit>>)
           shift == q.collateralDecimals - q.debtDecimals
           inverse == DecimalMultiplier(q.debtDecimals - q.collateralDecimals)
           scaled == Times(Whole(q.debt), DecimalMultiplier(q.debtDecimals))
           factor == CloseFactor(q.debt, q.collateral, q.threshold, q)
           requested == Whole(q.requested)
           limit == Times(scaled, factor)
           repayable == Times(scaled, RepayablePart(q))
           wanted == Lesser(requested, limit)
           needed == CollateralRequired(discounted, wanted, shift)
           n == needed[1]
           short == Less(Whole(q.locked), needed)
           k == IF short THEN q.locked ELSE n
           worth == Times(Times(discounted, Whole(k)), inverse)
           full == Times(Times(price, Whole(k)), inverse)
           repaid == IF short THEN DebtCovered(discounted, Whole(k), shift)
                     ELSE wanted
           required == CollateralRequired(price, repaid, shift)
           profit == Minus(Whole(k), required)
           kept == Minus(Whole(k), Times(profit, <<q.fee, Unit>>))
           half == <<1, 2>>
<1>1. /\ q.debt \in Nat /\ q.requested \in Nat /\ q.locked \in Nat
      /\ q.debtDecimals \in Nat /\ q.collateralDecimals \in Nat
      /\ q.fee \in 0 .. Unit
  BY DEF IsInput, LiquidationInputs
<1>2. /\ shift \in Int /\ -shift = q.debtDecimals - q.collateralDecimals
      /\ q.debtDecimals \in Int /\ -shift \in Int
  BY <1>1
<1>3. inverse = DecimalMultiplier(-shift)
  BY <1>2
<1>4. inverse \in PositiveFractions /\ DecimalMultiplier(q.debtDecimals) \in PositiveFractions
  BY <1>2, <1>3, MultiplierType
<1>5. /\ price \in PositiveFractions /\ discounted \in PositiveFractions
      /\ AtMost(discounted, price)
  BY DiscountBounds
<1>6. /\ factor \in NonNegative /\ RepayablePart(q) \in Fractions
      /\ AtMost(factor, RepayablePart(q))
  BY CloseFactorBounds DEF NonNegative
<1> HIDE DEF factor, inverse, discounted, price, shift
<1>7. /\ requested \in NonNegative /\ scaled \in NonNegative /\ limit \in NonNegative
      /\ repayable \in Fractions /\ AtMost(limit, repayable)
  <2>1. requested \in NonNegative /\ scaled \in NonNegative
    BY <1>1, <1>4, NonNegativeParts, NonNegativeTimes
  <2> HIDE DEF scaled
  <2>2. scaled \in Fractions /\ scaled[1] \in Nat /\ factor \in Fractions
    BY <1>6, <2>1 DEF NonNegative
  <2> QED  BY <1>6, <2>1, <2>2, NonNegativeTimes, FractionType, Monotony
<1> HIDE DEF scaled, limit, repayable, requested
<1>8. /\ wanted \in NonNegative
      /\ AtMost(wanted, requested) /\ AtMost(wanted, repayable)
  <2>1. /\ requested \in Fractions /\ limit \in Fractions /\ wanted \in Fractions
        /\ wanted \in {requested, limit}
    BY <1>7, NonNegativeParts DEF Lesser
  <2>2. AtMost(wanted, requested) /\ AtMost(wanted, limit)
    BY <2>1, AtMostIsTotal
  <2> HIDE DEF wanted
  <2> QED  BY <1>7, <2>1, <2>2, Transitivity
<1> HIDE DEF wanted
<1>9. /\ needed = Whole(n) /\ n \in Nat
      /\ \A t \in Int : Less(Whole(t), needed)
                          <=> Less(Times(Times(discounted, Whole(t)), inverse), wanted)
  <2>1. /\ needed \in Fractions /\ needed[2] = 1
        /\ wanted[1] \in Nat => n \in Nat
        /\ \A t \in Int : Less(Whole(t), needed)
                          <=> Less(Times(Times(discounted, Whole(t)),
                                         DecimalMultiplier(-shift)), wanted)
    BY <1>2, <1>5, <1>8, NonNegativeParts, RequiredCovers
  <2>2. wanted[1] \in Nat
    BY <1>8 DEF NonNegative
  <2> HIDE DEF needed
  <2>3. needed = Whole(n)
    BY <2>1 DEF Whole, Fractions
  <2> QED  BY <1>3, <2>1, <2>2, <2>3
<1> HIDE DEF needed, n
<1>10. k \in Nat /\ k <= q.locked
  <2>1. ~short => n <= q.locked
    BY <1>1, <1>9 DEF Less, Whole
  <2> HIDE DEF short
  <2> QED  BY <1>1, <1>9, <2>1
<1> DEFINE less == Times(Times(discounted, Whole(k - 1)), inverse)
<1>11. short => Less(worth, wanted)
  BY <1>1, <1>9
<1>12. ~short => AtMost(wanted, worth) /\ Less(less, wanted)
  <2>1. ASSUME ~short PROVE AtMost(wanted, worth) /\ Less(less, wanted)
    <3>1. ~Less(Whole(n), needed) /\ Less(Whole(n - 1), needed)
      BY <1>9 DEF Less, Whole
    <3>2. k = n /\ n \in Int /\ n - 1 \in Int
      BY <1>9, <2>1
    <3> HIDE DEF k
    <3> QED  BY <1>9, <3>1, <3>2 DEF AtMost
  <2> QED  BY <2>1
<1> HIDE DEF short, k
<1>13. worth \in NonNegative /\ full \in NonNegative /\ AtMost(worth, full)
  <2>1. /\ Whole(k) \in NonNegative /\ inverse \in NonNegative
        /\ discounted \in NonNegative /\ price \in NonNegative
    BY <1>4, <1>5, <1>10, NonNegativeParts
  <2>2. /\ Times(discounted, Whole(k)) \in NonNegative
        /\ Times(price, Whole(k)) \in NonNegative
    BY <2>1, NonNegativeTimes
  <2>3. AtMost(Times(discounted, Whole(k)), Times(price, Whole(k)))
    BY <1>5, <2>1, Monotony DEF NonNegative
  <2> QED  BY <2>1, <2>2, <2>3, NonNegativeTimes, Monotony DEF NonNegative
<1>14. DebtCovered(discounted, Whole(k), shift) = RoundHalfUp(worth)
  BY <1>3 DEF DebtCovered
<1> HIDE DEF worth, full, less
<1>15. \E base \in Fractions : /\ AtMost(base, requested) /\ AtMost(base, repayable)
                               /\ AtMost(base, worth)
                               /\ AtMost(Minus(repaid, base), half)
  <2>1. CASE short
    <3>1. AtMost(worth, wanted) /\ AtMost(worth, worth)
      BY <1>8, <1>11, <1>13, <2>1, NonNegativeParts, AtMostIsTotal
    <3>2. AtMost(worth, requested) /\ AtMost(worth, repayable)
      BY <1>7, <1>8, <1>13, <3>1, NonNegativeParts, Transitivity
    <3>3. AtMost(Minus(repaid, worth), half)
      BY <1>13, <1>14, <2>1, RoundingHalfUp DEF NonNegative
    <3> QED  BY <1>13, <3>1, <3>2, <3>3, NonNegativeParts
  <2>2. CASE ~short
    <3>1. AtMost(Minus(wanted, wanted), half)
      BY <1>8, NonNegativeParts, AtMostIsTotal, NoExcess
    <3> QED  BY <1>8, <1>12, <2>2, <3>1, NonNegativeParts
  <2> QED  BY <2>1, <2>2
<1>16. repaid \in NonNegative
  BY <1>8, <1>13, <1>14, RoundingHalfUp DEF NonNegative
<1>17. ~short => repaid = wanted
  OBVIOUS
<1> HIDE DEF repaid
<1>18. PICK r \in Nat : required = Whole(r) /\ (k < r <=> Less(full, repaid))
  <2>1. /\ required \in Fractions /\ required[2] = 1
        /\ repaid[1] \in Nat => required[1] \in Nat
        /\ Less(Whole(k), required)
             <=> Less(Times(Times(price, Whole(k)), DecimalMultiplier(-shift)), repaid)
    BY <1>2, <1>5, <1>10, <1>16, NonNegativeParts, RequiredCovers
  <2>2. repaid[1] \in Nat
    BY <1>16 DEF NonNegative
  <2> HIDE DEF required
  <2>3. required = Whole(required[1])
    BY <2>1 DEF Whole, Fractions
  <2>4. Less(Whole(k), Whole(required[1])) <=> k < required[1]
    BY <1>10, <2>1, <2>2 DEF Less, Whole
  <2> QED  BY <1>3, <2>1, <2>2, <2>3, <2>4 DEF full
<1> HIDE DEF required
<1>19. /\ profit \in Fractions /\ kept \in Fractions
       /\ Less(profit, Whole(0)) <=> k < r
       /\ ~Less(profit, Whole(0)) => /\ AtMost(Whole(0), kept)
                                     /\ AtMost(kept, Whole(k))
  BY <1>1, <1>10, <1>18, AnswerBounds
<1> HIDE DEF profit, kept
<1>20. Less(profit, Whole(0)) => short /\ Less(worth, repaid)
  <2>1. ASSUME Less(profit, Whole(0)) PROVE Less(worth, repaid)
    BY <1>13, <1>16, <1>18, <1>19, <2>1, NonNegativeParts, Transitivity
  <2>2. ~short => ~Less(worth, repaid)
    BY <1>12, <1>17 DEF AtMost
  <2> QED  BY <2>1, <2>2
<1>21. /\ AtMost(Minus(repaid, requested), half)
       /\ AtMost(Minus(repaid, repayable), half)
       /\ AtMost(Minus(repaid, worth), half)
  BY <1>7, <1>13, <1>15, <1>16, NonNegativeParts, HalfAbove
<1>22. AtMost(Whole(k), Whole(q.locked))
  BY <1>1, <1>10 DEF AtMost, Less, Whole
<1>23. short => Whole(k) = Whole(q.locked)
  BY DEF k
<1>24. /\ worth = Times(Times(Whole(k), inverse), discounted)
       /\ less = Times(Times(Minus(Whole(k), Whole(1)), inverse), discounted)
  <2>1. /\ Whole(k) \in Fractions /\ Whole(k - 1) \in Fractions
        /\ inverse \in Fractions /\ discounted \in Fractions
    BY <1>4, <1>5, <1>10, NonNegativeParts, WholeType
  <2>2. Minus(Whole(k), Whole(1)) = Whole(k - 1)
    BY <1>10 DEF Minus, Whole
  <2> QED  BY <2>1, <2>2, WorthInOrder DEF worth, less
<1>25. Liquidation(q, Whole(q.requested))
         = [repaid |-> repaid, taken |-> Whole(k), profit |-> profit, answer |-> kept]
  <2> DEFINE Result(t) ==
        LET p == IF short THEN DebtCovered(discounted, t, shift) ELSE wanted
            f == Minus(t, CollateralRequired(price, p, shift))
        IN [repaid |-> p, taken |-> t, profit |-> f,
            answer |-> Minus(t, Times(f, <<q.fee, Unit>>))]
  <2>1. Whole(k) = IF short THEN Whole(q.locked) ELSE needed
    BY <1>9 DEF k
  <2>2. Liquidation(q, Whole(q.requested))
          = Result(IF short THEN Whole(q.locked) ELSE needed)
    BY DEF Liquidation, short, needed, wanted, requested, limit, scaled, factor,
           shift, discounted, price
  <2>3. Result(Whole(k))
          = [repaid |-> repaid, taken |-> Whole(k), profit |-> profit, answer |-> kept]
    BY DEF repaid, required, profit, kept
  <2> HIDE DEF Result
  <2> QED  BY <2>1, <2>2, <2>3
<1> DEFINE result == [repaid |-> repaid, taken |-> Whole(k), profit |-> profit,
                      answer |-> kept]
<1>26. result \in [repaid : Fractions, taken : Fractions, profit : Fractions,
                   answer : Fractions]
  BY <1>10, <1>16, <1>19, NonNegativeParts
<1>27. Bounded(q, result)
  <2>1. Bounded(q, result)
          <=> /\ AtMost(Whole(k), Whole(q.locked))
              /\ ~Less(profit, Whole(0)) => /\ AtMost(Whole(0), kept)
                                            /\ AtMost(kept, Whole(k))
              /\ AtMost(Minus(repaid, Whole(q.requested)), half)
              /\ AtMost(Minus(repaid, repayable), half)
              /\ AtMost(Minus(repaid, Times(Times(Whole(k), inverse), discounted)), half)
              /\ \/ Whole(k) = Whole(q.locked)
                 \/ Less(Times(Times(Minus(Whole(k), Whole(1)), inverse), discounted),
                         repaid)
              /\ Less(profit, Whole(0)) => /\ Whole(k) = Whole(q.locked)
                                           /\ Less(Times(Times(Whole(k), inverse),
                                                         discounted), repaid)
    BY DEF Bounded, repayable, scaled, inverse, discounted, price
  <2>2. Whole(k) = Whole(q.locked) \/ Less(less, repaid)
    BY <1>12, <1>17, <1>23
  <2> QED  BY <1>19, <1>20, <1>21, <1>22, <1>23, <1>24, <2>1, <2>2 DEF requested
<1> HIDE DEF result
<1> QED  BY <1>25, <1>26, <1>27 DEF result

-----------------------------------------------------------------------------
(***************************************************************************)
(* What getMaxCollateralForUnlock() computes covers the debts.             *)
(***************************************************************************)

\* The borrowing power left after unlocking u, at the price per of a token and
\* its loan-to-value r, covers the debts, because no more than the power above
\* the debts was divided by a ratio that is not below r.
LEMMA UnlockCovers ==
    ASSUME NEW power \in Int, NEW debts \in Int, NEW per \in Nat \ {0},
           NEW r \in Nat \ {0}, NEW ratio \in Nat \ {0}, r <= ratio,
           NEW u \in Fractions, Less(Whole(0), u),
           AtMost(u, Over(Whole(power - debts), Whole(ratio * per)))
    PROVE  AtMost(Whole(debts), Minus(Whole(power), Times(u, Whole(per * r))))
<1> DEFINE n == power - debts
           m == ratio * per
           k == per * r
           x == Over(Whole(n), Whole(m))
           lost == Times(x, Whole(k))
<1>1. m \in Nat \ {0} /\ k \in Nat \ {0} /\ n \in Int
  BY ProductOfPositives
<1>2. k <= m
  <2>1. r * per <= ratio * per
    BY ScalingUp
  <2> QED  BY <2>1
<1>3. x = <<n, m>>
  <2> HIDE DEF n, m
  <2> QED  BY <1>1 DEF Over, Whole
<1>4. AtMost(u, x)
  OBVIOUS
<1>5. n + debts = power
  OBVIOUS
<1> HIDE DEF n, m, k, x
<1>6. x \in Fractions /\ Whole(k) \in Fractions /\ Whole(0) \in Fractions
      /\ Whole(power) \in Fractions /\ Whole(debts) \in Fractions
  BY <1>1, <1>3, WholeType DEF Fractions
<1>7. n \in Nat
  <2>1. AtMost(Whole(0), u)
    BY <1>6, AtMostIsTotal
  <2>2. AtMost(Whole(0), x)
    BY <1>4, <1>6, <2>1, Transitivity
  <2> QED  BY <1>1, <1>3, <2>2 DEF AtMost, Less, Whole
<1>8. AtMost(Minus(Whole(power), lost), Minus(Whole(power), Times(u, Whole(k))))
  <2>1. AtMost(Times(u, Whole(k)), lost)
    BY <1>1, <1>4, <1>6, Monotony DEF Whole
  <2> QED  BY <1>6, <2>1, FractionType, MinusFalls
<1>9. AtMost(Whole(debts), Minus(Whole(power), lost))
  <2>1. lost = <<n * k, m>>
    BY <1>1, <1>3 DEF Times, Whole
  <2>2. Minus(Whole(power), lost) = <<power * m - n * k, m>>
    <3>1. n * k \in Int
      BY <1>1
    <3> QED  BY <1>1, <2>1, <3>1 DEF Minus, Whole
  <2>3. n * k <= n * m
    <3>1. k * n <= m * n
      BY <1>1, <1>2, <1>7, ScalingUp
    <3> QED  BY <1>1, <3>1
  <2>4. power * m - n * m = debts * m
    BY <1>1, <1>5
  <2>5. /\ power * m \in Int /\ n * m \in Int /\ n * k \in Int /\ debts * m \in Int
    BY <1>1
  <2>6. ~((power * m - n * k) * 1 < debts * m)
    BY <2>3, <2>4, <2>5
  <2> QED  BY <2>2, <2>6 DEF AtMost, Less, Whole
<1>10. lost \in Fractions /\ Times(u, Whole(k)) \in Fractions
  BY <1>6, FractionType
<1> QED  BY <1>6, <1>8, <1>9, <1>10, FractionType, Transitivity DEF k

\* divided by the loan-to-value itself, all the power above the debts is spent
LEMMA UnlockSpendsAll ==
    ASSUME NEW power \in Int, NEW debts \in Int, NEW per \in Nat \ {0},
           NEW r \in Nat \ {0}
    PROVE  AtMost(Minus(Whole(power), Times(Over(Whole(power - debts), Whole(r * per)),
                                            Whole(per * r))),
                  Whole(debts))
<1> DEFINE n == power - debts
           m == r * per
<1>1. m \in Nat \ {0} /\ n \in Int /\ per * r = m
  BY ProductOfPositives
<1>2. power - n = debts
  OBVIOUS
<1> HIDE DEF n, m
<1>3. Times(Over(Whole(n), Whole(m)), Whole(m)) = <<n * m, m>>
  BY <1>1 DEF Times, Over, Whole
<1>4. Minus(Whole(power), <<n * m, m>>) = <<power * m - n * m, m>>
  <2>1. n * m \in Int
    BY <1>1
  <2> QED  BY <1>1, <2>1 DEF Minus, Whole
<1>5. power * m - n * m = debts * m
  BY <1>1, <1>2
<1>6. AtMost(<<debts * m, m>>, Whole(debts))
  <2>1. debts * m \in Int
    BY <1>1
  <2> QED  BY <2>1 DEF AtMost, Less, Whole
<1> QED  BY <1>1, <1>3, <1>4, <1>5, <1>6 DEF n, m

-----------------------------------------------------------------------------
(***************************************************************************)
(* The calls: where a method can be, and what its answer is made of.       *)
(***************************************************************************)

Liquidator == "getMaxCollateralForLiquidator"

\* where the call of a method can be
Phases == /\ method = Liquidator => /\ at \in {"begin", "debtor", "returned", "threw"}
                                    /\ running = {}
          /\ at = "debtor" => method = Liquidator

Locked == Whole(input.collateral[input.denom])

\* getMaxCollateralForUnlock() answers from the account it was given
UnlockAnswered ==
    at = "returned" /\ method = "getMaxCollateralForUnlock"
        => answer.answer = IF Less(Locked, Unlockable) THEN Locked ELSE Unlockable

\* getMaxCollateralForLiquidator() answers from its queries, or throws on a loss
LiquidationAnswered ==
    method = Liquidator /\ answer # NoAnswer
        => /\ answer = Liquidation(input, Whole(input.requested))
           /\ at = IF Less(answer.profit, Whole(0)) THEN "threw" ELSE "returned"

CallInv == TypeOK /\ Phases /\ UnlockAnswered /\ LiquidationAnswered

LEMMA NoAnswerType ==
    NoAnswer \in [repaid : Fractions, taken : Fractions, profit : Fractions,
                  answer : Fractions]
  BY WholeType DEF NoAnswer

LEMMA InitCall == Init => CallInv
  BY NoAnswerType
     DEF Init, CallInv, TypeOK, Phases, UnlockAnswered, LiquidationAnswered, NoAccount

LEMMA PositionType ==
    ASSUME TypeOK, method # Liquidator
    PROVE  /\ input \in Positions
           /\ input.collateral \in [Denoms -> Nat] /\ input.debt \in [Denoms -> Nat]
           /\ input.stablecoin \in Nat /\ input.denom \in Denoms
           /\ input.infos \subseteq Denoms /\ input.params \subseteq Denoms
           /\ input.per \in Nat \ {0}
           /\ input.rates[1] \in Nat \ {0} /\ input.rates[2] \in Nat \ {0}
           /\ input.rates[1] <= input.rates[2]
<1>1. input \in Positions
  BY DEF TypeOK, InputsOf, Liquidator
<1>2. /\ input.rates \in (1 .. Unit) \X (1 .. Unit)
      /\ input.rates[1] <= input.rates[2]
  BY <1>1, CdpAssumption DEF Positions
<1>3. /\ input.collateral \in [Denoms -> Amounts] /\ input.debt \in [Denoms -> Amounts]
      /\ input.stablecoin \in Amounts /\ input.denom \in Denoms
      /\ input.infos \subseteq Denoms /\ input.params \subseteq Denoms
      /\ input.per \in Pers
  BY <1>1 DEF Positions
<1>4. Amounts \subseteq Nat /\ Pers \subseteq Nat \ {0} /\ Unit \in Nat
  BY CdpAssumption, UnitAssumption
<1>5. input.rates[1] \in Nat \ {0} /\ input.rates[2] \in Nat \ {0}
  BY <1>2, <1>4
<1> QED  BY <1>1, <1>2, <1>3, <1>4, <1>5

LEMMA TotalsAreIntegers ==
    ASSUME TypeOK, method # Liquidator
    PROVE  AvailableBorrows(account) \in Int /\ TotalDebts(account) \in Int
<1>1. /\ account.valued \subseteq Denoms /\ account.counted \subseteq Denoms
      /\ account.stablecoin \in Nat
  BY DEF TypeOK
<1>2. IsFiniteSet(account.valued) /\ IsFiniteSet(account.counted)
  BY <1>1, CdpAssumption, FS_Subset
<1> DEFINE power == [d \in Denoms |-> UsdValue(input.collateral[d]) * input.rates[1]]
<1>3. \A d \in account.valued : power[d] \in Int
  <2>1. ASSUME NEW d \in Denoms PROVE UsdValue(input.collateral[d]) * input.rates[1] \in Int
    <3>1. input.collateral[d] \in Int /\ input.per \in Int /\ input.rates[1] \in Int
      BY PositionType
    <3> QED  BY <3>1 DEF UsdValue
  <2> QED  BY <1>1, <2>1
<1>4. \A d \in account.counted : input.debt[d] \in Int
  BY <1>1, PositionType
<1> HIDE DEF power
<1>5. SumFunctionOnSet(power, account.valued) \in Int
  BY <1>2, <1>3, SumIsInteger
<1>6. SumFunctionOnSet(input.debt, account.counted) \in Int
  BY <1>2, <1>4, SumIsInteger
<1>7. AvailableBorrows(account) = SumFunctionOnSet(power, account.valued)
  BY DEF AvailableBorrows, power
<1> QED  BY <1>1, <1>5, <1>6, <1>7 DEF TotalDebts

LEMMA UnlockableType ==
    ASSUME TypeOK, method # Liquidator
    PROVE  Unlockable \in Fractions /\ Locked \in Fractions
<1> DEFINE n == AvailableBorrows(account) - TotalDebts(account) * Unit
           ratio == IF input.devNet THEN input.rates[2] ELSE input.rates[1]
<1>1. n \in Int
  BY TotalsAreIntegers, UnitAssumption
<1>2. ratio * input.per \in Nat \ {0}
  <2>1. ratio \in Nat \ {0} /\ input.per \in Nat \ {0}
    BY PositionType
  <2> HIDE DEF ratio
  <2> QED  BY <2>1, ProductOfPositives
<1>3. Unlockable = <<n * 1, 1 * (ratio * input.per)>>
  BY DEF Unlockable, Over, Whole
<1>4. Locked \in Fractions
  BY PositionType, WholeType DEF Locked
<1> HIDE DEF n, ratio
<1> QED  BY <1>1, <1>2, <1>3, <1>4 DEF Fractions

\* what the answers are made of does not change once they are given
LEMMA ResultsStay ==
    ASSUME UNCHANGED <<inputs, account>>
    PROVE  Unlockable' = Unlockable /\ Locked' = Locked
  BY DEF inputs, Unlockable, AvailableBorrows, TotalDebts, UsdValue, Locked

\* a step that leaves the answer alone, and does not return from ratio or debtor
LEMMA QuietStep ==
    ASSUME CallInv, TypeOK', Phases', UNCHANGED <<inputs, answer>>,
           \/ UNCHANGED <<at, account>>
           \/ /\ at \notin {"returned", "threw"}
              /\ at' = "returned" => method # "getMaxCollateralForUnlock"
    PROVE  CallInv'
<1>1. UnlockAnswered'
  <2>1. CASE UNCHANGED <<at, account>>
    BY <2>1, ResultsStay DEF CallInv, UnlockAnswered, inputs
  <2>2. CASE ~UNCHANGED <<at, account>>
    BY <2>2 DEF UnlockAnswered, inputs
  <2> QED  BY <2>1, <2>2
<1>2. LiquidationAnswered'
  <2>1. CASE UNCHANGED <<at, account>>
    BY <2>1 DEF CallInv, LiquidationAnswered, inputs
  <2>2. CASE ~UNCHANGED <<at, account>>
    BY <2>2 DEF CallInv, LiquidationAnswered, inputs
  <2> QED  BY <2>1, <2>2
<1> QED  BY <1>1, <1>2 DEF CallInv

LEMMA NextCall == ASSUME CallInv, [Next]_vars PROVE CallInv'
<1> USE DEF Liquidator
<1>0. TypeOK /\ Phases
  BY DEF CallInv
<1>1. CASE Begin \/ QueryFails \/ AssetAnswers \/ CollateralFails
  <2>1. TypeOK' /\ Phases'
    BY <1>0, <1>1 DEF Begin, QueryFails, AssetAnswers, CollateralFails, TypeOK, Phases,
                      inputs, tasks, InputsOf, Methods
  <2> QED  BY <1>1, <2>1, QuietStep
           DEF Begin, QueryFails, AssetAnswers, CollateralFails
<1>2. CASE QueriesAnswer
  <2>1. method # Liquidator
    BY <1>0, <1>2 DEF QueriesAnswer, Await, Phases
  <2>2. TypeOK' /\ Phases'
    BY <1>0, <1>2, <2>1, PositionType
       DEF QueriesAnswer, Await, TypeOK, Phases, inputs, tasks, InputsOf
  <2> QED  BY <1>2, <2>2, QuietStep DEF QueriesAnswer, Await
<1>3. ASSUME NEW d \in Denoms, CollateralValued(d) \/ DebtValued(d) \/ DebtFails(d)
      PROVE  CallInv'
  <2>1. method # Liquidator
    BY <1>0, <1>3 DEF CollateralValued, DebtValued, DebtFails, Phases
  <2>2. Owed \subseteq Denoms
    BY <1>0, <2>1, PositionType DEF Owed
  <2>3. TypeOK' /\ Phases'
    BY <1>0, <1>3, <2>1, <2>2
       DEF CollateralValued, DebtValued, DebtFails, TypeOK, Phases, inputs, tasks,
           InputsOf
  <2> QED  BY <1>3, <2>3, QuietStep DEF CollateralValued, DebtValued, DebtFails
<1>4. CASE CollateralsDone \/ StablecoinAnswers
  <2>1. method # Liquidator
    BY <1>0, <1>4 DEF CollateralsDone, StablecoinAnswers, Phases
  <2>2. Owed \subseteq Denoms
    BY <1>0, <2>1, PositionType DEF Owed
  <2>3. /\ input.stablecoin \in Nat /\ input.stablecoin * Scale \in Nat
    BY <1>0, <2>1, PositionType, CdpAssumption, ProductOfNaturals
  <2>4. /\ UNCHANGED <<inputs, todo, valued, failed, counted, answer>>
        /\ running' \subseteq Denoms
        /\ at \in {"collaterals", "stablecoin"}
        /\ \/ at' = "stablecoin" /\ UNCHANGED account
           \/ \E stablecoin \in Nat : Totals(stablecoin)
    <3>1. CASE CollateralsDone
      BY <2>2, <3>1 DEF CollateralsDone
    <3>2. CASE StablecoinAnswers
      BY <1>0, <2>3, <3>2 DEF StablecoinAnswers, tasks, TypeOK
    <3> QED  BY <1>4, <3>1, <3>2
  <2>5. TypeOK' /\ Phases'
    BY <1>0, <2>1, <2>4 DEF TypeOK, Totals, Phases, inputs, InputsOf
  <2>6. at' = "returned" => method # "getMaxCollateralForUnlock"
    BY <2>4 DEF Totals
  <2> QED  BY <2>4, <2>5, <2>6, QuietStep
<1>5. CASE UnlockAnswers
  <2>1. method # Liquidator
    BY <1>0, <1>5 DEF UnlockAnswers, Await, Phases
  <2>2. answer' = [NoAnswer EXCEPT !.answer = IF Less(Locked, Unlockable) THEN Locked
                                              ELSE Unlockable]
    BY <1>5 DEF UnlockAnswers, Locked
  <2>3. answer' \in [repaid : Fractions, taken : Fractions, profit : Fractions,
                     answer : Fractions]
    BY <1>0, <2>1, <2>2, UnlockableType, NoAnswerType
  <2>4. TypeOK' /\ Phases'
    BY <1>0, <1>5, <2>1, <2>3
       DEF UnlockAnswers, Await, TypeOK, Phases, inputs, tasks, InputsOf
  <2>5. Unlockable' = Unlockable /\ Locked' = Locked
    BY <1>5, ResultsStay DEF UnlockAnswers
  <2>6. UnlockAnswered' /\ LiquidationAnswered'
    BY <1>5, <2>1, <2>2, <2>5
       DEF UnlockAnswers, UnlockAnswered, LiquidationAnswered, inputs, NoAnswer
  <2> QED  BY <2>4, <2>6 DEF CallInv
<1>6. CASE DebtorAnswers
  <2>1. method = Liquidator
    BY <1>0, <1>6 DEF DebtorAnswers, Phases
  <2>2. IsInput(input)
    BY <1>0, <2>1, CdpAssumption DEF TypeOK, InputsOf, IsInput
  <2>3. answer' = Liquidation(input, Whole(input.requested))
    BY <1>6 DEF DebtorAnswers
  <2>4. answer' \in [repaid : Fractions, taken : Fractions, profit : Fractions,
                     answer : Fractions]
    BY <2>2, <2>3, LiquidationBounds
  <2>5. TypeOK' /\ Phases'
    BY <1>0, <1>6, <2>1, <2>4
       DEF DebtorAnswers, TypeOK, Phases, inputs, tasks, InputsOf
  <2>6. UnlockAnswered' /\ LiquidationAnswered'
    BY <1>6, <2>1, <2>3
       DEF DebtorAnswers, UnlockAnswered, LiquidationAnswered, inputs
  <2> QED  BY <2>5, <2>6 DEF CallInv
<1>7. CASE UNCHANGED vars
  <2>1. TypeOK' /\ Phases'
    BY <1>0, <1>7 DEF vars, TypeOK, Phases, inputs, tasks, InputsOf
  <2> QED  BY <1>7, <2>1, QuietStep DEF vars
<1> QED  BY <1>1, <1>2, <1>3, <1>4, <1>5, <1>6, <1>7 DEF Next

LEMMA CallInvariant == Spec => []CallInv
<1>1. ASSUME CallInv, [Next]_vars PROVE CallInv'
  BY <1>1, NextCall
<1> QED  BY <1>1, InitCall, PTL DEF Spec

\* The results of the three methods are what their types say: sums and prices
\* never produce a fraction without a denominator, and the stablecoin debt
\* that StablecoinAnswers adds is never negative.
THEOREM TypeCorrect == Spec => []TypeOK
<1>1. CallInv => TypeOK
  BY DEF CallInv
<1> QED  BY <1>1, CallInvariant, PTL

\* getMaxCollateralForUnlock(), whenever the total of the debts was complete,
\* allows no more than is locked, no more than what leaves the debts covered,
\* and no less than that: for any number of assets and any amounts.
THEOREM UnlockIsCoveredHolds == Spec => []UnlockIsCovered
<1>1. ASSUME CallInv PROVE UnlockIsCovered
  <2> DEFINE power == Whole(AvailableBorrows(account))
             debts == TotalDebts(account) * Unit
             rest == Minus(power, Times(answer.answer,
                                        Whole(input.per * input.rates[1])))
             ratio == IF input.devNet THEN input.rates[2] ELSE input.rates[1]
  <2> SUFFICES ASSUME at = "returned", method = "getMaxCollateralForUnlock",
                      Less(Whole(0), answer.answer)
               PROVE  /\ AtMost(answer.answer, Locked)
                      /\ AtMost(Whole(debts), rest)
                      /\ \/ answer.answer = Locked \/ input.devNet
                         \/ AtMost(rest, Whole(debts))
    BY DEF UnlockIsCovered, AtMost, Locked
  <2>1. TypeOK /\ method # Liquidator
    BY <1>1 DEF CallInv, Liquidator
  <2>2. answer.answer = IF Less(Locked, Unlockable) THEN Locked ELSE Unlockable
    BY <1>1 DEF CallInv, UnlockAnswered
  <2>3. Unlockable \in Fractions /\ Locked \in Fractions
    BY <2>1, UnlockableType
  <2>4. /\ answer.answer \in Fractions /\ AtMost(answer.answer, Locked)
        /\ AtMost(answer.answer, Unlockable)
    BY <2>2, <2>3, AtMostIsTotal DEF AtMost
  <2>5. /\ AvailableBorrows(account) \in Int /\ debts \in Int
    BY <2>1, TotalsAreIntegers, UnitAssumption
  <2>6. /\ ratio \in Nat \ {0} /\ input.rates[1] \in Nat \ {0}
        /\ input.per \in Nat \ {0}
        /\ input.rates[1] <= ratio
    BY <2>1, PositionType
  <2>7. Unlockable = Over(Whole(AvailableBorrows(account) - debts),
                          Whole(ratio * input.per))
    BY DEF Unlockable
  <2>8. ~input.devNet => ratio = input.rates[1]
    OBVIOUS
  <2> HIDE DEF ratio, debts
  <2>9. AtMost(Whole(debts), rest)
    BY <2>4, <2>5, <2>6, <2>7, UnlockCovers
  <2>10. ASSUME answer.answer = Unlockable, ~input.devNet
         PROVE  AtMost(rest, Whole(debts))
    BY <2>5, <2>6, <2>7, <2>8, <2>10, UnlockSpendsAll
  <2> QED  BY <2>2, <2>4, <2>9, <2>10
<1> QED  BY <1>1, CallInvariant, PTL

\* getMaxCollateralForLiquidator() keeps to the debtor's collateral, to what was
\* asked for and to the documented part of the debt, but for half a unit, and
\* takes the least that is worth the repayment, for any decimals, prices and
\* parameters; it throws because of rounding only.
THEOREM LiquidationIsBoundedHolds == Spec => []LiquidationIsBounded
<1>1. ASSUME CallInv PROVE LiquidationIsBounded
  <2> SUFFICES ASSUME method = Liquidator, answer # NoAnswer
               PROVE  LiquidationIsBounded
    BY DEF LiquidationIsBounded, Liquidator
  <2>1. IsInput(input)
    BY <1>1, CdpAssumption DEF CallInv, TypeOK, InputsOf, IsInput, Liquidator
  <2>2. answer = Liquidation(input, Whole(input.requested))
    BY <1>1 DEF CallInv, LiquidationAnswered
  <2>3. Bounded(input, answer)
    BY <2>1, <2>2, LiquidationBounds
  <2>4. at = IF Less(answer.profit, Whole(0)) THEN "threw" ELSE "returned"
    BY <1>1 DEF CallInv, LiquidationAnswered
  <2> QED  BY <2>3, <2>4 DEF Bounded, LiquidationIsBounded, AtMost
<1> QED  BY <1>1, CallInvariant, PTL

-----------------------------------------------------------------------------
(***************************************************************************)
(* When the debts come too late.  The run CdpDebts shows that the total    *)
(* may lack the token debts; these theorems say when it does and when not. *)
(***************************************************************************)

\* The total of an account without stablecoin debt never has a token debt.
WithoutStablecoin == HasAccount /\ ~input.issued => account.counted = {}

\* When no request failed, the total of an account with stablecoin debt has
\* all token debts.
WithStablecoin == HasAccount /\ input.issued /\ failed = {}
                      => account.counted = Owed

\* the answer for the stablecoin is slower than those for the token debts
DebtsAreFirst == [][StablecoinAnswers => running = {}]_vars

StablecoinOnly == at = "stablecoin" => input.issued

\* once the requests have started, the sum is added when the last one answers
NothingLost == at = "stablecoin" /\ running = {} /\ failed = {}
                   => counted = Owed

\* without stablecoinDebtInfo the total is taken in the step that starts the
\* requests
LEMMA LateKeeps ==
    ASSUME IInv, Phases, StablecoinOnly, WithoutStablecoin, [Next]_vars
    PROVE  StablecoinOnly' /\ WithoutStablecoin'
<1>1. UNCHANGED inputs
  BY DEF Next, Begin, QueryFails, AssetAnswers, QueriesAnswer,
         CollateralValued, DebtValued, DebtFails, CollateralFails,
         CollateralsDone, StablecoinAnswers, UnlockAnswers, DebtorAnswers, vars
<1>2. CASE CollateralsDone
  <2>1. counted = {} /\ account.counted = {}
    BY <1>2 DEF CollateralsDone, IInv, DebtsFollow, Early
  <2>2. CASE input.issued
    BY <1>1, <1>2, <2>2
       DEF CollateralsDone, inputs, StablecoinOnly, WithoutStablecoin
  <2>3. CASE ~input.issued
    <3>1. account'.counted = {} /\ at' # "stablecoin"
      BY <1>2, <2>1, <2>3 DEF CollateralsDone, Totals
    <3> QED  BY <3>1 DEF StablecoinOnly, WithoutStablecoin
  <2> QED  BY <2>2, <2>3
<1>3. CASE StablecoinAnswers
  <2>1. input.issued /\ at' # "stablecoin"
    BY <1>3 DEF StablecoinAnswers, StablecoinOnly, Totals
  <2> QED  BY <1>1, <2>1 DEF inputs, StablecoinOnly, WithoutStablecoin
<1>4. ASSUME UNCHANGED account, at' = "stablecoin" => at = "stablecoin",
             HasAccount' => HasAccount
      PROVE  StablecoinOnly' /\ WithoutStablecoin'
  BY <1>1, <1>4 DEF inputs, StablecoinOnly, WithoutStablecoin
<1>5. CASE Begin \/ QueryFails \/ AssetAnswers \/ QueriesAnswer
  BY <1>1, <1>4, <1>5 DEF Begin, QueryFails, AssetAnswers, QueriesAnswer,
                          Await, HasAccount, inputs
<1>6. CASE \/ \E d \in Denoms : CollateralValued(d) \/ DebtValued(d) \/ DebtFails(d)
           \/ CollateralFails \/ UNCHANGED vars
  BY <1>1, <1>4, <1>6 DEF CollateralValued, DebtValued, DebtFails,
                          CollateralFails, HasAccount, inputs, vars
<1>7. CASE UnlockAnswers \/ DebtorAnswers
  BY <1>1, <1>4, <1>7 DEF UnlockAnswers, DebtorAnswers, Await, HasAccount,
                          inputs, Phases, Liquidator
<1> QED  BY <1>2, <1>3, <1>5, <1>6, <1>7 DEF Next

\* getAccountData() of an account without stablecoinDebtInfo: nothing is
\* awaited between the start of the sum (line 500) and the return (line 520), so
\* that the total leaves out the token debts whatever the timing is.
THEOREM WithoutStablecoinHolds == Spec => []WithoutStablecoin
<1>1. Init => StablecoinOnly /\ WithoutStablecoin
  BY DEF Init, StablecoinOnly, WithoutStablecoin, HasAccount
<1>2. ASSUME IInv, Phases, StablecoinOnly, WithoutStablecoin, [Next]_vars
      PROVE  StablecoinOnly' /\ WithoutStablecoin'
  BY <1>2, LateKeeps
<1>3. CallInv => Phases
  BY DEF CallInv
<1>4. ASSUME IInv, [Next]_vars PROVE IInv'
  BY <1>4, NextInvariant
<1> QED  BY <1>1, <1>2, <1>3, <1>4, InitInvariant, CallInvariant, PTL DEF Spec

\* what the requests for the debts leave behind
LEMMA LossKeeps ==
    ASSUME IInv, NothingLost, [Next]_vars PROVE NothingLost'
<1>1. CASE CollateralsDone
  <2>1. counted' = {} /\ running' = Owed /\ Owed' = Owed
    BY <1>1, OwedStays DEF CollateralsDone, IInv, DebtsFollow, Early
  <2> QED  BY <2>1 DEF NothingLost
<1>2. ASSUME NEW d \in Denoms, DebtValued(d)
      PROVE  NothingLost'
  <2>1. Owed' = Owed
    BY <1>2, OwedStays DEF DebtValued
  <2>2. CASE running = {d} /\ failed = {}
    BY <1>2, <2>1, <2>2 DEF DebtValued, NothingLost
  <2>3. CASE ~(running = {d} /\ failed = {})
    BY <1>2, <2>3 DEF DebtValued, NothingLost
  <2> QED  BY <2>2, <2>3
<1>3. ASSUME NEW d \in Denoms, DebtFails(d)
      PROVE  NothingLost'
  BY <1>3 DEF DebtFails, NothingLost
<1>4. CASE StablecoinAnswers
  BY <1>4 DEF StablecoinAnswers, Totals, NothingLost
<1>5. CASE (\E d \in Denoms : CollateralValued(d)) \/ CollateralFails
           \/ UNCHANGED vars
  <2>1. Owed' = Owed
    BY <1>5, OwedStays DEF CollateralValued, CollateralFails, vars
  <2> QED  BY <1>5, <2>1 DEF CollateralValued, CollateralFails, vars, tasks,
                             NothingLost
<1>6. CASE \/ Begin \/ QueryFails \/ AssetAnswers \/ QueriesAnswer
           \/ UnlockAnswers \/ DebtorAnswers
  <2>1. at' # "stablecoin"
    BY <1>6 DEF Begin, QueryFails, AssetAnswers, QueriesAnswer, UnlockAnswers,
                DebtorAnswers, Await
  <2> QED  BY <2>1 DEF NothingLost
<1> QED  BY <1>1, <1>2, <1>3, <1>4, <1>5, <1>6 DEF Next

LEMMA AccountHasDebts ==
    ASSUME IInv, Phases, NothingLost, WithStablecoin, [Next]_vars,
           StablecoinAnswers => running = {}
    PROVE  WithStablecoin'
<1>1. Owed' = Owed /\ UNCHANGED inputs
  <2>1. UNCHANGED inputs
    BY DEF Next, Begin, QueryFails, AssetAnswers, QueriesAnswer,
           CollateralValued, DebtValued, DebtFails, CollateralFails,
           CollateralsDone, StablecoinAnswers, UnlockAnswers, DebtorAnswers, vars
  <2> QED  BY <2>1, OwedStays
<1>2. CASE CollateralsDone
  BY <1>1, <1>2 DEF CollateralsDone, WithStablecoin, HasAccount, inputs
<1>3. CASE StablecoinAnswers
  <2>1. failed = {} => counted = Owed
    BY <1>3 DEF StablecoinAnswers, NothingLost
  <2>2. account'.counted = counted /\ failed' = failed
    BY <1>3, TotalsCount DEF StablecoinAnswers, tasks
  <2> QED  BY <1>1, <2>1, <2>2 DEF WithStablecoin
<1>4. ASSUME UNCHANGED account, failed' = {} => failed = {},
             HasAccount' => HasAccount
      PROVE  WithStablecoin'
  BY <1>1, <1>4 DEF inputs, WithStablecoin
<1>5. CASE Begin \/ QueryFails \/ AssetAnswers \/ QueriesAnswer
  BY <1>1, <1>4, <1>5 DEF Begin, QueryFails, AssetAnswers, QueriesAnswer,
                          Await, HasAccount, inputs, tasks
<1>6. CASE \/ \E d \in Denoms : CollateralValued(d) \/ DebtValued(d) \/ DebtFails(d)
           \/ CollateralFails \/ UNCHANGED vars
  BY <1>1, <1>4, <1>6 DEF CollateralValued, DebtValued, DebtFails,
                          CollateralFails, HasAccount, inputs, tasks, vars
<1>7. CASE UnlockAnswers \/ DebtorAnswers
  BY <1>1, <1>4, <1>7 DEF UnlockAnswers, DebtorAnswers, Await, HasAccount,
                          inputs, tasks, Phases, Liquidator
<1> QED  BY <1>2, <1>3, <1>5, <1>6, <1>7 DEF Next

\* getAccountData() of an account with stablecoin debt: the sum that line 500
\* does not await is in the total if the stablecoin query of line 510 is
\* answered after every request for a debt, and none of those failed.
THEOREM WithStablecoinHolds == Spec /\ DebtsAreFirst => []WithStablecoin
<1>1. Init => NothingLost /\ WithStablecoin
  BY DEF Init, NothingLost, WithStablecoin, HasAccount
<1>2. ASSUME IInv, NothingLost, [Next]_vars PROVE NothingLost'
  BY <1>2, LossKeeps
<1>3. /\ IInv /\ Phases /\ NothingLost /\ WithStablecoin /\ [Next]_vars
      /\ [StablecoinAnswers => running = {}]_vars
      => WithStablecoin'
  <2>1. CASE UNCHANGED vars
    BY <2>1, OwedStays DEF vars, inputs, tasks, WithStablecoin, HasAccount
  <2> QED  BY <2>1, AccountHasDebts
<1>4. CallInv => Phases
  BY DEF CallInv
<1>5. ASSUME IInv, [Next]_vars PROVE IInv'
  BY <1>5, NextInvariant
<1> QED  BY <1>1, <1>2, <1>3, <1>4, <1>5, InitInvariant, CallInvariant, PTL
         DEF Spec, DebtsAreFirst
=============================================================================
