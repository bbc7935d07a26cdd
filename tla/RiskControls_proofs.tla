------------------------ MODULE RiskControls_proofs ------------------------
(***************************************************************************)
(* The safety of the supervisor's controls for any symbols, limits and     *)
(* drawdowns.  Both exposure bounds follow one argument: a batch starts    *)
(* from commitments the account state knows, its first entry is checked    *)
(* against them and each later one adds at most an order.  The total is a  *)
(* sum over the symbols, so it rests on the lemmas about sums.             *)
(***************************************************************************)
EXTENDS RiskControls, FiniteSetTheorems, WellFoundedInduction, TLAPS

-----------------------------------------------------------------------------
(* Sums over the symbols                                                   *)

\* Nat is well-ordered: what replaces induction below.
LEMMA LeastNatural ==
  ASSUME NEW T \in SUBSET Nat, T # {}
  PROVE  \E x \in T : \A y \in T : x <= y
<1> DEFINE R == {s \in Nat \X Nat : s[1] < s[2]}
<1>1. R = OpToRel(<, Nat)
  BY DEF OpToRel
<1>2. IsWellFoundedOn(R, Nat)
  BY <1>1, NatLessThanWellFounded
<1>3. PICK x \in T : \A y \in T : ~(<<y, x>> \in R)
  BY <1>2, WFMin
<1>4. \A y \in T : ~(y < x)
  BY <1>3
<1> QED BY <1>4

\* The element a fold takes from a set.
Taken(s) == CHOOSE x \in s : TRUE

\* A set without the element taken from it is one smaller.
LEMMA TakenLess ==
  ASSUME NEW S, IsFiniteSet(S), NEW s \in SUBSET S, s # {}
  PROVE  /\ Taken(s) \in s /\ s \ {Taken(s)} \in SUBSET S
         /\ Cardinality(s) \in Nat /\ Cardinality(s \ {Taken(s)}) \in Nat
         /\ Cardinality(s \ {Taken(s)}) = Cardinality(s) - 1
<1>1. Taken(s) \in s
  BY DEF Taken
<1>2. IsFiniteSet(s)
  BY FS_Subset
<1>3. IsFiniteSet(s \ {Taken(s)})
      /\ Cardinality(s \ {Taken(s)}) = Cardinality(s) - 1
  BY <1>1, <1>2, FS_RemoveElement
<1>4. Cardinality(s) \in Nat /\ Cardinality(s \ {Taken(s)}) \in Nat
  BY <1>2, <1>3, FS_CardinalityType
<1> QED BY <1>1, <1>3, <1>4

\* What holds of no symbols and passes to a set from the set without the element
\* taken holds of every set of symbols.
LEMMA TakingAll ==
  ASSUME NEW S, IsFiniteSet(S), NEW G, {} \in G,
         \A s \in SUBSET S : s # {} /\ s \ {Taken(s)} \in G => s \in G
  PROVE  SUBSET S \subseteq G
<1> DEFINE Bad == {s \in SUBSET S : s \notin G}
           T   == {Cardinality(s) : s \in Bad}
<1> SUFFICES ASSUME Bad # {} PROVE FALSE
  OBVIOUS
<1>1. T \in SUBSET Nat /\ T # {}
  <2>1. \A s \in Bad : Cardinality(s) \in Nat
    BY TakenLess
  <2> QED BY <2>1
<1>2. PICK n \in T : \A m \in T : n <= m
  BY <1>1, LeastNatural
<1>3. PICK s \in Bad : n = Cardinality(s)
  OBVIOUS
<1>4. s # {} /\ s \in SUBSET S
  BY <1>3
<1> DEFINE r == s \ {Taken(s)}
<1>5. /\ r \in SUBSET S /\ Cardinality(r) \in Nat /\ Cardinality(s) \in Nat
      /\ Cardinality(r) = Cardinality(s) - 1
  BY <1>4, TakenLess
<1>6. r \in Bad
  BY <1>3, <1>4, <1>5
<1>7. Cardinality(r) \in T
  BY <1>6
<1> HIDE DEF r, T
<1> QED BY <1>2, <1>3, <1>5, <1>7

\* The equation of a sum, for the sets in D.
Sums(it, f, D) ==
  \A s \in D : it[s] = IF s = {} THEN 0 ELSE f[Taken(s)] + it[s \ {Taken(s)}]

\* The sets of at most n symbols.
Small(S, n) == {s \in SUBSET S : Cardinality(s) <= n}

\* The equation has a solution.
LEMMA SumsExist ==
  ASSUME NEW S, IsFiniteSet(S), NEW f \in [S -> Nat]
  PROVE  \E it \in [SUBSET S -> Nat] : Sums(it, f, SUBSET S)
<1> DEFINE Solved(n) == \E it \in [Small(S, n) -> Nat] : Sums(it, f, Small(S, n))
           Unsolved == {n \in Nat : ~Solved(n)}
<1>1. Solved(0)
  <2> DEFINE it == [s \in Small(S, 0) |-> 0]
  <2>1. ASSUME NEW s \in Small(S, 0) PROVE s = {}
    <3>1. s \in SUBSET S /\ Cardinality(s) <= 0
      BY DEF Small
    <3>2. s = {} \/ Cardinality(s \ {Taken(s)}) = Cardinality(s) - 1
      BY <3>1, TakenLess
    <3> QED BY <3>1, <3>2, TakenLess
  <2>2. it \in [Small(S, 0) -> Nat] /\ Sums(it, f, Small(S, 0))
    BY <2>1 DEF Sums
  <2> QED BY <2>2
<1>2. ASSUME NEW n \in Nat, Solved(n) PROVE Solved(n + 1)
  <2>1. PICK it \in [Small(S, n) -> Nat] : Sums(it, f, Small(S, n))
    BY <1>2
  <2> DEFINE Up(s) == IF s = {} THEN 0 ELSE f[Taken(s)] + it[s \ {Taken(s)}]
             up == [s \in Small(S, n + 1) |-> Up(s)]
  <2>2. \A s \in Small(S, n) : s \in Small(S, n + 1) /\ it[s] = Up(s)
    <3>1. ASSUME NEW s \in Small(S, n) PROVE s \in Small(S, n + 1)
      <4>1. s \in SUBSET S /\ Cardinality(s) <= n
        BY DEF Small
      <4>2. Cardinality(s) \in Nat
        BY <4>1, FS_Subset, FS_CardinalityType
      <4> QED BY <4>1, <4>2 DEF Small
    <3> QED BY <2>1, <3>1 DEF Sums
  <2>3. ASSUME NEW s \in Small(S, n + 1), s # {}
        PROVE  s \ {Taken(s)} \in Small(S, n) /\ Taken(s) \in S
    BY <2>3, TakenLess DEF Small
  <2>4. up \in [Small(S, n + 1) -> Nat]
    BY <2>3
  <2>5. Sums(up, f, Small(S, n + 1))
    <3>1. ASSUME NEW s \in Small(S, n + 1), s # {}
          PROVE  up[s] = f[Taken(s)] + up[s \ {Taken(s)}]
      <4>1. s \ {Taken(s)} \in Small(S, n)
        BY <2>3, <3>1
      <4>2. up[s \ {Taken(s)}] = it[s \ {Taken(s)}]
        BY <2>2, <4>1
      <4> QED BY <3>1, <4>2
    <3>2. {} \in Small(S, n + 1) => up[{}] = 0
      OBVIOUS
    <3> HIDE DEF up
    <3> QED BY <3>1, <3>2 DEF Sums
  <2> HIDE DEF up
  <2> QED BY <2>4, <2>5
<1> HIDE DEF Solved
<1>3. Unsolved = {}
  <2> SUFFICES ASSUME Unsolved # {} PROVE FALSE
    OBVIOUS
  <2>1. Unsolved \in SUBSET Nat
    OBVIOUS
  <2>2. PICK n \in Unsolved : \A m \in Unsolved : n <= m
    BY <2>1, LeastNatural
  <2>3. n # 0 /\ n \in Nat
    BY <1>1
  <2>4. n - 1 \in Nat /\ (n - 1) + 1 = n /\ n - 1 \notin Unsolved
    BY <2>2, <2>3
  <2> QED BY <1>2, <2>4
<1>4. Cardinality(S) \in Nat
  BY FS_CardinalityType
<1>5. Small(S, Cardinality(S)) = SUBSET S
  BY FS_Subset DEF Small
<1>6. Solved(Cardinality(S))
  BY <1>3, <1>4
<1> QED BY <1>5, <1>6 DEF Solved

\* A sum is given by a solution of its equation.
LEMMA SumIsSolution ==
  ASSUME NEW S, IsFiniteSet(S), NEW f \in [S -> Nat]
  PROVE  \E it : /\ SumFunction(f) = it[S] /\ Sums(it, f, SUBSET S)
                 /\ \A s \in SUBSET S : it[s] \in Nat
<1> DEFINE Step(g) == [s \in SUBSET S |->
             IF s = {} THEN 0 ELSE f[Taken(s)] + g[s \ {Taken(s)}]]
           h == CHOOSE g : g = Step(g)
<1>1. SumFunction(f) = h[S]
  <2>1. DOMAIN f = S
    OBVIOUS
  <2>2. SumFunction(f) = (CHOOSE g : g = [s \in SUBSET DOMAIN f |->
             IF s = {} THEN 0 ELSE f[Taken(s)] + g[s \ {Taken(s)}]])[DOMAIN f]
    BY DEF SumFunction, SumFunctionOnSet, FoldFunction, FoldFunctionOnSet,
           MapThenFoldSet, Taken
  <2> QED BY <2>1, <2>2
<1>2. \E g : g = Step(g)
  <2>1. PICK it \in [SUBSET S -> Nat] : Sums(it, f, SUBSET S)
    BY SumsExist
  <2>2. it = Step(it)
    BY <2>1 DEF Sums
  <2> QED BY <2>2
<1>3. h = Step(h)
  BY <1>2
<1> HIDE DEF h
<1>4. Sums(h, f, SUBSET S)
  <2>1. ASSUME NEW s \in SUBSET S
        PROVE  h[s] = IF s = {} THEN 0 ELSE f[Taken(s)] + h[s \ {Taken(s)}]
    BY <1>3
  <2> QED BY <2>1 DEF Sums
<1>5. \A s \in SUBSET S : h[s] \in Nat
  <2> DEFINE G == {s \in SUBSET S : h[s] \in Nat}
  <2>1. {} \in G
    <3>1. {} \in SUBSET S
      OBVIOUS
    <3>2. h[{}] = 0
      BY <1>4, <3>1 DEF Sums
    <3> QED BY <3>1, <3>2
  <2>2. ASSUME NEW s \in SUBSET S, s # {}, s \ {Taken(s)} \in G PROVE s \in G
    <3>1. Taken(s) \in S
      BY <2>2, TakenLess
    <3> QED BY <1>4, <2>2, <3>1 DEF Sums
  <2> HIDE DEF G
  <2>3. SUBSET S \subseteq G
    BY <2>1, <2>2, TakingAll
  <2> QED BY <2>3 DEF G
<1> QED BY <1>1, <1>4, <1>5

\* A sum of natural numbers is one.
LEMMA SumType ==
  ASSUME NEW S, IsFiniteSet(S), NEW f \in [S -> Nat]
  PROVE  SumFunction(f) \in Nat
<1>1. PICK a : SumFunction(f) = a[S] /\ \A s \in SUBSET S : a[s] \in Nat
  BY SumIsSolution
<1>2. S \in SUBSET S
  OBVIOUS
<1> QED BY <1>1, <1>2

\* A sum of smaller terms is no larger.
LEMMA SumMonotone ==
  ASSUME NEW S, IsFiniteSet(S), NEW f \in [S -> Nat], NEW g \in [S -> Nat],
         \A x \in S : f[x] <= g[x]
  PROVE  SumFunction(f) <= SumFunction(g)
<1>1. PICK a : /\ SumFunction(f) = a[S] /\ Sums(a, f, SUBSET S)
               /\ \A s \in SUBSET S : a[s] \in Nat
  BY SumIsSolution
<1>2. PICK b : /\ SumFunction(g) = b[S] /\ Sums(b, g, SUBSET S)
               /\ \A s \in SUBSET S : b[s] \in Nat
  BY SumIsSolution
<1> DEFINE G == {s \in SUBSET S : a[s] <= b[s]}
<1>3. {} \in G
  BY <1>1, <1>2 DEF Sums
<1>4. ASSUME NEW s \in SUBSET S, s # {}, s \ {Taken(s)} \in G PROVE s \in G
  <2> DEFINE x == Taken(s)
             r == s \ {Taken(s)}
  <2>1. x \in S /\ r \in SUBSET S
    BY <1>4, TakenLess
  <2>2. a[s] = f[x] + a[r] /\ b[s] = g[x] + b[r]
    BY <1>1, <1>2, <1>4 DEF Sums
  <2>3. a[r] \in Nat /\ b[r] \in Nat /\ f[x] \in Nat /\ g[x] \in Nat
    BY <1>1, <1>2, <2>1
  <2>4. a[r] <= b[r] /\ f[x] <= g[x]
    BY <1>4, <2>1
  <2> HIDE DEF x, r
  <2> QED BY <2>2, <2>3, <2>4
<1> HIDE DEF G
<1>5. SUBSET S \subseteq G
  BY <1>3, <1>4, TakingAll
<1> QED BY <1>1, <1>2, <1>5 DEF G

\* A sum with a larger term is larger by as much.
LEMMA SumAdds ==
  ASSUME NEW S, IsFiniteSet(S), NEW f \in [S -> Nat], NEW g \in [S -> Nat],
         NEW x \in S, NEW n \in Nat, g[x] = f[x] + n,
         \A y \in S : y # x => g[y] = f[y]
  PROVE  SumFunction(g) = SumFunction(f) + n
<1>1. PICK a : /\ SumFunction(f) = a[S] /\ Sums(a, f, SUBSET S)
               /\ \A s \in SUBSET S : a[s] \in Nat
  BY SumIsSolution
<1>2. PICK b : /\ SumFunction(g) = b[S] /\ Sums(b, g, SUBSET S)
               /\ \A s \in SUBSET S : b[s] \in Nat
  BY SumIsSolution
<1> DEFINE Extra(s) == IF x \in s THEN n ELSE 0
           G == {s \in SUBSET S : b[s] = a[s] + Extra(s)}
<1>3. {} \in G
  <2>1. {} \in SUBSET S /\ Extra({}) = 0
    OBVIOUS
  <2>2. a[{}] = 0 /\ b[{}] = 0
    BY <1>1, <1>2, <2>1 DEF Sums
  <2> HIDE DEF Extra
  <2> QED BY <2>1, <2>2
<1>4. ASSUME NEW s \in SUBSET S, s # {}, s \ {Taken(s)} \in G PROVE s \in G
  <2> DEFINE y == Taken(s)
             r == s \ {Taken(s)}
  <2>1. y \in s /\ y \in S /\ r \in SUBSET S
    BY <1>4, TakenLess
  <2>2. a[s] = f[y] + a[r] /\ b[s] = g[y] + b[r]
    BY <1>1, <1>2, <1>4 DEF Sums
  <2>3. a[r] \in Nat /\ b[r] \in Nat /\ f[y] \in Nat /\ g[y] \in Nat
    BY <1>1, <1>2, <2>1
  <2>4. b[r] = a[r] + Extra(r)
    BY <1>4
  <2>5. CASE y = x
    <3>1. Extra(r) = 0 /\ Extra(s) = n
      BY <2>1, <2>5
    <3>2. g[y] = f[y] + n
      BY <2>5
    <3> HIDE DEF y, r, Extra
    <3>3. b[s] = a[s] + Extra(s)
      BY <2>2, <2>3, <2>4, <3>1, <3>2
    <3> QED BY <3>3
  <2>6. CASE y # x
    <3>1. Extra(r) = Extra(s) /\ Extra(s) \in Nat
      BY <2>1, <2>6
    <3>2. g[y] = f[y]
      BY <2>1, <2>6
    <3> HIDE DEF y, r, Extra
    <3>3. b[s] = a[s] + Extra(s)
      BY <2>2, <2>3, <2>4, <3>1, <3>2
    <3> QED BY <3>3
  <2> QED BY <2>5, <2>6
<1> HIDE DEF G
<1>5. SUBSET S \subseteq G
  BY <1>3, <1>4, TakingAll
<1> QED BY <1>1, <1>2, <1>5 DEF G

\* A sum of nothing is nothing.
LEMMA SumZero ==
  ASSUME NEW S, IsFiniteSet(S)
  PROVE  SumFunction([x \in S |-> 0]) = 0
<1> DEFINE f == [x \in S |-> 0]
<1>1. f \in [S -> Nat]
  OBVIOUS
<1>2. PICK a : /\ SumFunction(f) = a[S] /\ Sums(a, f, SUBSET S)
  BY <1>1, SumIsSolution
<1> DEFINE G == {s \in SUBSET S : a[s] = 0}
<1>3. {} \in G
  BY <1>2 DEF Sums
<1>4. ASSUME NEW s \in SUBSET S, s # {}, s \ {Taken(s)} \in G PROVE s \in G
  <2>1. f[Taken(s)] = 0
    BY <1>4, TakenLess
  <2>2. a[s] = f[Taken(s)] + a[s \ {Taken(s)}] /\ a[s \ {Taken(s)}] = 0
    BY <1>2, <1>4 DEF Sums
  <2> QED BY <2>1, <2>2
<1> HIDE DEF G
<1>5. SUBSET S \subseteq G
  BY <1>3, <1>4, TakingAll
<1> QED BY <1>2, <1>5 DEF G

-----------------------------------------------------------------------------
(* The invariant                                                           *)

USE DEF Controls, Accounts, Positions, Sides, Modes, Commands

\* What may be committed to a symbol after b entries on one account state.
Ceiling(b) == MaxSymbol + (b - 1) * MaxOrder

\* Within a batch either nothing was accepted for a symbol, and what is
\* committed to it is at most what the account state says, or the first entry
\* was checked against that state and each later one adds at most an order.
BatchBound ==
  \A s \in Symbols :
    \/ SymbolExposure(committed, s) <= SymbolExposure(account.open, s)
    \/ batch > 0 /\ SymbolExposure(committed, s) <= Ceiling(batch)

\* The account state was supplied from commitments within the bound.
AccountBound ==
  \A s \in Symbols :
    SymbolExposure(account.open, s) <= Ceiling(MaxBatch)

\* What may be committed in all after b entries on one account state.
TotalCeiling(b) == MaxTotal + (b - 1) * MaxOrder

\* The same of the whole account: its total is what the account state says or
\* the first entry was checked against that total.
BatchTotal ==
  \/ TotalExposure(committed) <= TotalExposure(account.open)
  \/ batch > 0 /\ TotalExposure(committed) <= TotalCeiling(batch)

\* The kill switch and its flatten request follow the history.
KillInv == killed => controls.killSwitch /\ controls.flatten

IInv ==
  /\ TypeOK /\ BatchBound /\ AccountBound /\ SymbolExposureBounded
  /\ BatchTotal /\ TotalExposureBounded /\ KillInv

-----------------------------------------------------------------------------
\* The ceiling starts at the symbol limit, grows by an order and is monotone.
LEMMA Room ==
  /\ MaxOrder \in Nat /\ MaxSymbol \in Nat /\ MaxBatch \in Nat \ {0}
  /\ \A b \in Nat \ {0} :
       /\ Ceiling(b) \in Nat
       /\ MaxSymbol <= Ceiling(b)
       /\ Ceiling(b + 1) = Ceiling(b) + MaxOrder
       /\ b <= MaxBatch => Ceiling(b) <= Ceiling(MaxBatch)
<1>1. MaxOrder \in Nat /\ MaxSymbol \in Nat /\ MaxBatch \in Nat \ {0}
  BY RiskAssumption
<1>2. ASSUME NEW b \in Nat \ {0}
      PROVE  /\ (b - 1) * MaxOrder \in Nat
             /\ (b + 1 - 1) * MaxOrder = (b - 1) * MaxOrder + MaxOrder
             /\ b <= MaxBatch => (b - 1) * MaxOrder <= (MaxBatch - 1) * MaxOrder
  BY <1>1
<1>3. ASSUME NEW b \in Nat \ {0}
      PROVE  /\ Ceiling(b) \in Nat
             /\ MaxSymbol <= Ceiling(b)
             /\ Ceiling(b + 1) = Ceiling(b) + MaxOrder
             /\ b <= MaxBatch => Ceiling(b) <= Ceiling(MaxBatch)
  BY <1>1, <1>2 DEF Ceiling
<1> QED BY <1>1, <1>3

\* The same of the ceiling of the total.
LEMMA TotalRoom ==
  /\ MaxTotal \in Nat
  /\ \A b \in Nat \ {0} :
       /\ TotalCeiling(b) \in Nat
       /\ MaxTotal <= TotalCeiling(b)
       /\ TotalCeiling(b + 1) = TotalCeiling(b) + MaxOrder
       /\ b <= MaxBatch => TotalCeiling(b) <= TotalCeiling(MaxBatch)
<1>1. MaxOrder \in Nat /\ MaxTotal \in Nat /\ MaxBatch \in Nat \ {0}
  BY RiskAssumption
<1>2. ASSUME NEW b \in Nat \ {0}
      PROVE  /\ (b - 1) * MaxOrder \in Nat
             /\ (b + 1 - 1) * MaxOrder = (b - 1) * MaxOrder + MaxOrder
             /\ b <= MaxBatch => (b - 1) * MaxOrder <= (MaxBatch - 1) * MaxOrder
  BY <1>1
<1>3. ASSUME NEW b \in Nat \ {0}
      PROVE  /\ TotalCeiling(b) \in Nat
             /\ MaxTotal <= TotalCeiling(b)
             /\ TotalCeiling(b + 1) = TotalCeiling(b) + MaxOrder
             /\ b <= MaxBatch => TotalCeiling(b) <= TotalCeiling(MaxBatch)
  BY <1>1, <1>2 DEF TotalCeiling
<1> QED BY <1>1, <1>3

\* The property is the ceiling of a full batch.
LEMMA CeilingIsBound ==
  SymbolExposureBounded <=>
    \A s \in Symbols : SymbolExposure(committed, s) <= Ceiling(MaxBatch)
BY DEF SymbolExposureBounded, Ceiling

\* The exposure to a symbol is a natural number.
LEMMA ExposureType ==
  ASSUME NEW open \in Positions, NEW s \in Symbols
  PROVE  SymbolExposure(open, s) \in Nat
BY DEF SymbolExposure

\* The total exposure of positions is a natural number, and 0 of none.
LEMMA TotalType ==
  ASSUME NEW open \in Positions
  PROVE  TotalExposure(open) \in Nat
<1>1. [s \in Symbols |-> SymbolExposure(open, s)] \in [Symbols -> Nat]
  BY ExposureType
<1> QED BY <1>1, SumType, RiskAssumption DEF TotalExposure

LEMMA NothingInAll == TotalExposure(NoPositions) = 0
<1>1. [s \in Symbols |-> SymbolExposure(NoPositions, s)] = [s \in Symbols |-> 0]
  BY DEF NoPositions, SymbolExposure
<1>2. SumFunction([s \in Symbols |-> 0]) = 0
  BY SumZero, RiskAssumption
<1> QED BY <1>1, <1>2 DEF TotalExposure

\* It changes with the positions only.
LEMMA TotalKept ==
  /\ committed' = committed => TotalExposure(committed') = TotalExposure(committed)
  /\ account' = account =>
       TotalExposure(account'.open) = TotalExposure(account.open)
BY DEF TotalExposure, SymbolExposure

\* An accepted entry respects the order, symbol and total limits of its state.
LEMMA AcceptedFits ==
  ASSUME NEW p \in Proposals, NEW a, p.action = "enter", Accepted(p, a)
  PROVE  /\ ~(p.notional > MaxOrder)
         /\ ~(SymbolExposure(a.open, p.symbol) + p.notional > MaxSymbol)
         /\ ~(TotalExposure(a.open) + p.notional > MaxTotal)
<1>1. EntryIssues(p, a) = {}
  BY DEF Accepted, Issues
<1>2. PositionReason(p, a.open) = "position_limits_within_bounds"
  BY <1>1 DEF EntryIssues
<1> QED BY <1>2 DEF PositionReason

\* The controls leave the account's positions alone.
LEMMA ControlsKeepPositions ==
  TypeOK => WithControls(account).open = account.open
BY DEF TypeOK, WithControls

\* Accepting an entry adds its notional to its symbol and to no other.
LEMMA EntryAdds ==
  ASSUME TypeOK, NEW p \in Proposals, NEW s \in Symbols,
         committed' = [committed EXCEPT ![p.symbol][p.side] = @ + p.notional]
  PROVE  /\ committed' \in Positions
         /\ SymbolExposure(committed', s) =
              IF s = p.symbol THEN SymbolExposure(committed, s) + p.notional
                              ELSE SymbolExposure(committed, s)
<1>1. /\ p.symbol \in Symbols /\ p.side \in Sides /\ p.notional \in Nat
      /\ committed \in Positions
  BY RiskAssumption DEF Proposals, TypeOK
<1>2. CASE p.side = "long"
  BY <1>1, <1>2 DEF SymbolExposure
<1>3. CASE p.side = "short"
  BY <1>1, <1>3 DEF SymbolExposure
<1> QED BY <1>1, <1>2, <1>3

\* Closing a position takes away from its symbol and from no other.
LEMMA CloseRemoves ==
  ASSUME TypeOK, NEW t \in Symbols, NEW side \in Sides, NEW s \in Symbols,
         committed' = [committed EXCEPT ![t][side] = 0]
  PROVE  /\ committed' \in Positions
         /\ SymbolExposure(committed', s) <= SymbolExposure(committed, s)
<1>1. committed \in Positions
  BY DEF TypeOK
<1>2. CASE side = "long"
  BY <1>1, <1>2 DEF SymbolExposure
<1>3. CASE side = "short"
  BY <1>1, <1>3 DEF SymbolExposure
<1> QED BY <1>2, <1>3

\* So it adds its notional to the total.
LEMMA EntryAddsToTotal ==
  ASSUME TypeOK, NEW p \in Proposals,
         committed' = [committed EXCEPT ![p.symbol][p.side] = @ + p.notional]
  PROVE  TotalExposure(committed') = TotalExposure(committed) + p.notional
<1> DEFINE f == [s \in Symbols |-> SymbolExposure(committed, s)]
           g == [s \in Symbols |-> SymbolExposure(committed', s)]
<1>1. p.symbol \in Symbols /\ p.notional \in Nat
  BY RiskAssumption DEF Proposals
<1>2. committed \in Positions /\ committed' \in Positions
  BY <1>1, EntryAdds DEF TypeOK
<1>3. f \in [Symbols -> Nat] /\ g \in [Symbols -> Nat]
  BY <1>2, ExposureType
<1>4. /\ g[p.symbol] = f[p.symbol] + p.notional
      /\ \A s \in Symbols : s # p.symbol => g[s] = f[s]
  BY <1>1, EntryAdds
<1> HIDE DEF f, g
<1>5. SumFunction(g) = SumFunction(f) + p.notional
  BY <1>1, <1>3, <1>4, SumAdds, RiskAssumption
<1> QED BY <1>5 DEF TotalExposure, f, g

\* And closing never adds to it.
LEMMA CloseKeepsTotal ==
  ASSUME TypeOK, NEW t \in Symbols, NEW side \in Sides,
         committed' = [committed EXCEPT ![t][side] = 0]
  PROVE  TotalExposure(committed') <= TotalExposure(committed)
<1> DEFINE f == [s \in Symbols |-> SymbolExposure(committed, s)]
           g == [s \in Symbols |-> SymbolExposure(committed', s)]
<1>1. committed \in Positions /\ committed' \in Positions
  BY CloseRemoves DEF TypeOK
<1>2. f \in [Symbols -> Nat] /\ g \in [Symbols -> Nat]
  BY <1>1, ExposureType
<1>3. \A s \in Symbols : g[s] <= f[s]
  BY CloseRemoves
<1> HIDE DEF f, g
<1>4. SumFunction(g) <= SumFunction(f)
  BY <1>2, <1>3, SumMonotone, RiskAssumption
<1> QED BY <1>4 DEF TotalExposure, f, g

-----------------------------------------------------------------------------
LEMMA InitInv == Init => IInv
<1> SUFFICES ASSUME Init PROVE IInv
  OBVIOUS
<1>1. TypeOK
  <2>1. NoPositions \in Positions
    BY DEF NoPositions
  <2>2. account \in Accounts
    BY <2>1 DEF Init
  <2>3. batch \in 0 .. MaxBatch
    BY Room DEF Init
  <2> QED BY <2>1, <2>2, <2>3 DEF Init, TypeOK, InitialControls
<1>2. \A s \in Symbols : /\ SymbolExposure(committed, s) = 0
                         /\ SymbolExposure(account.open, s) = 0
  BY DEF Init, NoPositions, SymbolExposure
<1>3. BatchBound /\ AccountBound /\ SymbolExposureBounded
  BY <1>2, Room, CeilingIsBound DEF BatchBound, AccountBound
<1>4. BatchTotal /\ TotalExposureBounded
  <2>1. committed = NoPositions /\ account.open = NoPositions
    BY DEF Init
  <2>2. TotalCeiling(MaxBatch) \in Nat
    BY Room, TotalRoom
  <2> QED BY <2>1, <2>2, NothingInAll
          DEF BatchTotal, TotalExposureBounded, TotalCeiling
<1> QED BY <1>1, <1>3, <1>4 DEF IInv, KillInv, Init

\* The steps that leave the account state and the commitments alone.
LEMMA CommandInv ==
  ASSUME IInv, NEW fresh \in BOOLEAN, NEW action \in Commands,
         Command(fresh, action)
  PROVE  IInv'
<1> USE DEF IInv
<1>1. TypeOK'
  BY DEF Command, ApplyControl, InitialControls, TypeOK
<1>2. KillInv'
  BY DEF Command, ApplyControl, KillInv
<1>3. BatchBound' /\ AccountBound' /\ SymbolExposureBounded'
  BY DEF Command, BatchBound, AccountBound, SymbolExposureBounded, SymbolExposure
<1>4. BatchTotal' /\ TotalExposureBounded'
  BY TotalKept DEF Command, BatchTotal, TotalExposureBounded
<1> QED BY <1>1, <1>2, <1>3, <1>4

\* A new state is supplied from the commitments and starts a batch.
LEMMA SupplyInv ==
  ASSUME IInv, SupplyState
  PROVE  IInv'
<1> USE DEF IInv
<1>1. committed' = committed /\ account'.open = committed
  BY DEF SupplyState
<1>2. TypeOK'
  BY RiskAssumption DEF SupplyState, TypeOK
<1>3. KillInv'
  BY DEF SupplyState, KillInv
<1>4. \A s \in Symbols :
        /\ SymbolExposure(committed', s) = SymbolExposure(committed, s)
        /\ SymbolExposure(account'.open, s) = SymbolExposure(committed, s)
        /\ SymbolExposure(committed, s) \in Nat
  BY <1>1, ExposureType DEF TypeOK
<1>5. BatchBound' /\ AccountBound' /\ SymbolExposureBounded'
  BY <1>4, CeilingIsBound DEF BatchBound, AccountBound, SymbolExposureBounded, Ceiling
<1>6. BatchTotal' /\ TotalExposureBounded'
  <2>1. /\ TotalExposure(committed') = TotalExposure(committed)
        /\ TotalExposure(account'.open) = TotalExposure(committed)
        /\ TotalExposure(committed) \in Nat
    BY <1>1, TotalType DEF TypeOK
  <2> QED BY <2>1 DEF BatchTotal, TotalExposureBounded
<1> QED BY <1>2, <1>3, <1>5, <1>6

\* Closing positions, by an exit or from outside, only gives room.
LEMMA CloseInv ==
  ASSUME IInv, NEW t \in Symbols, NEW side \in Sides,
         committed' = [committed EXCEPT ![t][side] = 0],
         UNCHANGED <<controls, account, batch, killed>>
  PROVE  IInv'
<1> USE DEF IInv
<1>1. TypeOK'
  BY CloseRemoves DEF TypeOK
<1>2. KillInv'
  BY DEF KillInv
<1>3. BatchBound' /\ SymbolExposureBounded'
  <2> SUFFICES ASSUME NEW s \in Symbols
               PROVE  /\ \/ SymbolExposure(committed', s) <= SymbolExposure(account.open, s)
                         \/ batch > 0 /\ SymbolExposure(committed', s) <= Ceiling(batch)
                      /\ SymbolExposure(committed', s) <= Ceiling(MaxBatch)
    BY DEF BatchBound, SymbolExposureBounded, Ceiling, SymbolExposure
  <2> DEFINE c == SymbolExposure(committed, s)
             d == SymbolExposure(committed', s)
             a == SymbolExposure(account.open, s)
  <2>1. c \in Nat /\ d \in Nat /\ a \in Nat /\ d <= c
    BY <1>1, CloseRemoves, ExposureType DEF TypeOK
  <2>2. c <= a \/ (batch > 0 /\ c <= Ceiling(batch))
    BY DEF BatchBound
  <2>3. c <= Ceiling(MaxBatch)
    BY CeilingIsBound
  <2>4. Ceiling(MaxBatch) \in Nat /\ (batch > 0 => Ceiling(batch) \in Nat)
    BY Room DEF TypeOK
  <2> HIDE DEF c, d, a
  <2>5. d <= a \/ (batch > 0 /\ d <= Ceiling(batch))
    BY <2>1, <2>2, <2>4
  <2>6. d <= Ceiling(MaxBatch)
    BY <2>1, <2>3, <2>4
  <2> QED BY <2>5, <2>6 DEF d, a
<1>4. AccountBound'
  BY DEF AccountBound, SymbolExposure
<1>5. BatchTotal' /\ TotalExposureBounded'
  <2> DEFINE c == TotalExposure(committed)
             d == TotalExposure(committed')
             a == TotalExposure(account.open)
  <2>1. c \in Nat /\ d \in Nat /\ a \in Nat /\ d <= c
    BY <1>1, CloseKeepsTotal, TotalType DEF TypeOK
  <2>2. c <= a \/ (batch > 0 /\ c <= TotalCeiling(batch))
    BY DEF BatchTotal
  <2>3. c <= TotalCeiling(MaxBatch)
    BY DEF TotalExposureBounded, TotalCeiling
  <2>4. /\ TotalCeiling(MaxBatch) \in Nat
        /\ batch > 0 => TotalCeiling(batch) \in Nat
    BY Room, TotalRoom DEF TypeOK
  <2> HIDE DEF c, d, a
  <2>5. d <= a \/ (batch > 0 /\ d <= TotalCeiling(batch))
    BY <2>1, <2>2, <2>4
  <2>6. d <= TotalCeiling(MaxBatch)
    BY <2>1, <2>3, <2>4
  <2> QED BY <2>5, <2>6 DEF d, a, BatchTotal, TotalExposureBounded, TotalCeiling
<1> QED BY <1>1, <1>2, <1>3, <1>4, <1>5

\* An accepted entry: the first on this state fits the symbol's limit, a
\* later one adds at most an order.
LEMMA EntryInv ==
  ASSUME IInv, NEW p \in Proposals, AcceptEntry(p)
  PROVE  IInv'
<1> USE DEF IInv
<1>1. /\ p.symbol \in Symbols /\ p.notional \in Nat
      /\ batch \in Nat /\ batch < MaxBatch /\ batch' = batch + 1
      /\ account' = account
      /\ committed' = [committed EXCEPT ![p.symbol][p.side] = @ + p.notional]
  <2>1. p.symbol \in Symbols /\ p.notional \in Nat
    BY RiskAssumption DEF Proposals
  <2>2. batch \in Nat
    BY Room DEF TypeOK
  <2> QED BY <2>1, <2>2 DEF AcceptEntry
<1>2. /\ p.notional <= MaxOrder
      /\ SymbolExposure(account.open, p.symbol) + p.notional <= MaxSymbol
      /\ TotalExposure(account.open) + p.notional <= MaxTotal
  <2>1. /\ SymbolExposure(account.open, p.symbol) \in Nat
        /\ TotalExposure(account.open) \in Nat
    BY <1>1, ExposureType, TotalType DEF TypeOK
  <2>2. /\ ~(p.notional > MaxOrder)
        /\ ~(SymbolExposure(account.open, p.symbol) + p.notional > MaxSymbol)
        /\ ~(TotalExposure(account.open) + p.notional > MaxTotal)
    BY AcceptedFits, ControlsKeepPositions DEF AcceptEntry
  <2> HIDE DEF Positions
  <2> QED BY <1>1, <2>1, <2>2, Room, TotalRoom
<1>3. TypeOK'
  <2>1. committed' \in Positions
    BY <1>1, EntryAdds
  <2>2. batch' \in 0 .. MaxBatch
    BY <1>1, Room
  <2> QED BY <2>1, <2>2 DEF TypeOK, AcceptEntry
<1>4. KillInv'
  BY DEF AcceptEntry, KillInv
<1>5. BatchBound' /\ SymbolExposureBounded'
  <2> SUFFICES ASSUME NEW s \in Symbols
               PROVE  /\ \/ SymbolExposure(committed', s) <= SymbolExposure(account.open, s)
                         \/ SymbolExposure(committed', s) <= Ceiling(batch + 1)
                      /\ SymbolExposure(committed', s) <= Ceiling(MaxBatch)
    <3>1. batch' > 0
      BY <1>1
    <3> QED BY <1>1, <3>1 DEF BatchBound, SymbolExposureBounded, Ceiling, SymbolExposure
  <2> DEFINE c == SymbolExposure(committed, s)
             d == SymbolExposure(committed', s)
             a == SymbolExposure(account.open, s)
             n == p.notional
  <2>1. c \in Nat /\ d \in Nat /\ a \in Nat /\ n \in Nat
    BY <1>1, <1>3, ExposureType DEF TypeOK
  <2>2. \/ d = c
        \/ d = c + n /\ a + n <= MaxSymbol /\ n <= MaxOrder
    BY <1>1, <1>2, EntryAdds
  <2>3. c <= a \/ (batch > 0 /\ c <= Ceiling(batch))
    BY DEF BatchBound
  <2>4. c <= Ceiling(MaxBatch)
    BY CeilingIsBound
  <2>5. /\ Ceiling(batch + 1) \in Nat /\ MaxSymbol <= Ceiling(batch + 1)
        /\ Ceiling(batch + 1) <= Ceiling(MaxBatch) /\ Ceiling(MaxBatch) \in Nat
        /\ batch > 0 => /\ Ceiling(batch) \in Nat
                        /\ Ceiling(batch + 1) = Ceiling(batch) + MaxOrder
    BY <1>1, Room
  <2>6. MaxSymbol \in Nat /\ MaxOrder \in Nat
    BY Room
  <2> HIDE DEF c, d, a, n
  <2>7. d <= a \/ d <= Ceiling(batch + 1)
    BY <2>1, <2>2, <2>3, <2>5, <2>6
  <2>8. d <= Ceiling(MaxBatch)
    BY <2>1, <2>2, <2>3, <2>4, <2>5, <2>6
  <2> QED BY <2>7, <2>8 DEF d, a
<1>6. AccountBound'
  BY <1>1 DEF AccountBound, SymbolExposure
<1>7. BatchTotal' /\ TotalExposureBounded'
  <2> DEFINE c == TotalExposure(committed)
             d == TotalExposure(committed')
             a == TotalExposure(account.open)
             n == p.notional
  <2>1. c \in Nat /\ d \in Nat /\ a \in Nat /\ n \in Nat
    BY <1>1, <1>3, TotalType DEF TypeOK
  <2>2. d = c + n /\ a + n <= MaxTotal /\ n <= MaxOrder
    BY <1>1, <1>2, EntryAddsToTotal
  <2>3. c <= a \/ (batch > 0 /\ c <= TotalCeiling(batch))
    BY DEF BatchTotal
  <2>4. /\ TotalCeiling(batch + 1) \in Nat /\ MaxTotal <= TotalCeiling(batch + 1)
        /\ TotalCeiling(batch + 1) <= TotalCeiling(MaxBatch)
        /\ TotalCeiling(MaxBatch) \in Nat
        /\ batch > 0 => /\ TotalCeiling(batch) \in Nat
                        /\ TotalCeiling(batch + 1) = TotalCeiling(batch) + MaxOrder
    BY <1>1, Room, TotalRoom
  <2>5. MaxTotal \in Nat /\ MaxOrder \in Nat
    BY Room, TotalRoom
  <2> HIDE DEF c, d, a, n
  <2>6. d <= TotalCeiling(batch + 1) /\ d <= TotalCeiling(MaxBatch)
    BY <2>1, <2>2, <2>3, <2>4, <2>5
  <2>7. batch' > 0 /\ batch' = batch + 1
    BY <1>1
  <2> QED BY <2>6, <2>7 DEF d, BatchTotal, TotalExposureBounded, TotalCeiling
<1> QED BY <1>3, <1>4, <1>5, <1>6, <1>7

LEMMA StepInv == IInv /\ [Next]_vars => IInv'
<1> SUFFICES ASSUME IInv, [Next]_vars PROVE IInv'
  OBVIOUS
<1>1. ASSUME NEW fresh \in BOOLEAN, NEW action \in Commands,
             Command(fresh, action)
      PROVE  IInv'
  BY <1>1, CommandInv
<1>2. CASE SupplyState
  BY <1>2, SupplyInv
<1>3. ASSUME NEW p \in Proposals, AcceptEntry(p) PROVE IInv'
  BY <1>3, EntryInv
<1>4. ASSUME NEW p \in Proposals, AcceptExit(p) PROVE IInv'
  BY <1>4, CloseInv DEF AcceptExit, Proposals
<1>5. ASSUME NEW s \in Symbols, NEW side \in Sides, Close(s, side) PROVE IInv'
  BY <1>5, CloseInv DEF Close
<1>6. CASE UNCHANGED vars
  <2>1. (TypeOK /\ KillInv /\ BatchBound /\ AccountBound /\ SymbolExposureBounded)'
    BY <1>6 DEF vars, IInv, TypeOK, KillInv, BatchBound, AccountBound,
                SymbolExposureBounded, SymbolExposure
  <2>2. BatchTotal' /\ TotalExposureBounded'
    BY <1>6, TotalKept DEF vars, IInv, BatchTotal, TotalExposureBounded
  <2> QED BY <2>1, <2>2 DEF IInv
<1> QED BY <1>1, <1>2, <1>3, <1>4, <1>5, <1>6 DEF Next

\* The inductive invariant holds in every behaviour.
THEOREM Invariance == Spec => []IInv
BY InitInv, StepInv, PTL DEF Spec

-----------------------------------------------------------------------------
\* Whatever the commands, proposals and supplied states, the controls, the
\* account state and the commitments keep their types.
THEOREM TypeCorrect == Spec => []TypeOK
<1>1. IInv => TypeOK
  BY DEF IInv
<1> QED BY <1>1, Invariance, PTL

\* The exposure to a symbol stays within its limit plus one order for each
\* further entry accepted on the same account state, for all limits.
THEOREM SymbolExposureIsBounded == Spec => []SymbolExposureBounded
<1>1. IInv => SymbolExposureBounded
  BY DEF IInv
<1> QED BY <1>1, Invariance, PTL

\* The whole account's exposure stays within its limit plus one order for each
\* further entry accepted on the same account state, for any symbols and limits.
THEOREM TotalExposureIsBounded == Spec => []TotalExposureBounded
<1>1. IInv => TotalExposureBounded
  BY DEF IInv
<1> QED BY <1>1, Invariance, PTL

\* After the kill switch nothing is accepted under the controls, whichever
\* commands follow, each given the state of the one before.
THEOREM KillIsKept == Spec => []KillHolds
<1>1. IInv => KillHolds
  BY DEF IInv, TypeOK, KillInv, KillHolds, WithControls, Accepted, Issues
<1> QED BY <1>1, Invariance, PTL

\* An exit is accepted from any account state short of the kill switch.
THEOREM ExitsAreAccepted == Spec => []ExitsPass
<1>1. ASSUME NEW p \in Proposals, NEW a, p.action = "exit",
             p.symbol \in AllowedSymbols, p.mode # "future_live", ~a.killSwitch
      PROVE  Accepted(p, a)
  <2>1. Issues(p, a) = {}
    BY <1>1 DEF Issues
  <2>2. Health(a) # "stopped"
    BY <1>1 DEF Health
  <2> QED BY <2>1, <2>2 DEF Accepted
<1>2. ExitsPass
  BY <1>1 DEF ExitsPass
<1> QED BY <1>2, PTL

\* Packet, decision, alerts and health of an evaluation agree.
THEOREM RecordsDoAgree == Spec => []RecordsAgree
<1>1. ASSUME NEW p, NEW a
      PROVE  /\ PacketType(p, a) = "risk_veto" <=> Issues(p, a) # {}
             /\ PacketType(p, a) = "risk_veto" <=> <<"risk_veto", "warning">> \in Alerts(p, a)
             /\ Health(a) = "stopped" <=> <<"degraded_health", "critical">> \in Alerts(p, a)
  <2>1. Health(a) = "stopped" => Issues(p, a) # {}
    BY DEF Health, Issues
  <2>2. Health(a) \in {"ok", "degraded", "stopped"}
    BY DEF Health
  <2>3. PacketType(p, a) = "risk_veto" <=> Issues(p, a) # {}
    BY <2>1 DEF PacketType, Accepted
  <2>4. Issues(p, a) # {} <=> <<"risk_veto", "warning">> \in Alerts(p, a)
    BY <2>2 DEF Alerts
  <2>5. Health(a) = "stopped" <=> <<"degraded_health", "critical">> \in Alerts(p, a)
    BY <2>2 DEF Alerts
  <2> QED BY <2>3, <2>4, <2>5
<1>2. RecordsAgree
  BY <1>1 DEF RecordsAgree
<1> QED BY <1>2, PTL
=============================================================================
