----------------------------- MODULE LedgerProofs -----------------------------
(***************************************************************************)
(* The data the proofs are about: sums of a function over a finite set,    *)
(* and the list of liabilities of one user against that user's balances.   *)
(* Then what the steps of a transaction preserve of the ledger they work   *)
(* on: its type, and the list of every user.                               *)
(***************************************************************************)
EXTENDS Exchange, Functions, FiniteSetTheorems, SequenceTheorems, WellFoundedInduction, TLAPS

Less == {pair \in Nat \X Nat : pair[1] < pair[2]}

(* The element a fold takes first. *)
Pick(S) == CHOOSE x \in S : TRUE

(* h is the sum of f over every set of D. *)
SumsOn(f, D, h) ==
    h = [s \in D |-> IF s = {} THEN 0 ELSE f[Pick(s)] + h[s \ {Pick(s)}]]

Sums(f, S) == CHOOSE h : SumsOn(f, SUBSET S, h)

(* The sum of the community modules is the chosen function. *)
LEMMA SumIsChosen == \A f, S : SumFunctionOnSet(f, S) = Sums(f, S)[S]
BY DEF SumFunctionOnSet, FoldFunctionOnSet, MapThenFoldSet, Sums, SumsOn, Pick

(* Induction: a set of numbers with 0 and with every successor has them all. *)
LEMMA Induction ==
    ASSUME NEW T \in SUBSET Nat, 0 \in T, \A n \in T : n + 1 \in T
    PROVE  T = Nat
<1>1. OpToRel(<, Nat) = Less
  BY DEF OpToRel, Less
<1>. SUFFICES ASSUME Nat \ T # {} PROVE FALSE
  OBVIOUS
<1>2. PICK x \in Nat \ T : \A y \in Nat \ T : ~ (<<y, x>> \in Less)
  BY <1>1, NatLessThanWellFounded, WFMin
<1>3. x # 0 /\ x - 1 \in Nat /\ x - 1 < x
  OBVIOUS
<1>4. <<x - 1, x>> \in Less
  BY <1>3 DEF Less
<1>5. x - 1 \in T
  BY <1>2, <1>3, <1>4
<1>6. (x - 1) + 1 \in T
  BY <1>5
<1>. QED BY <1>6

(* The subsets with at most n elements. *)
Smaller(S, n) == {s \in SUBSET S : Cardinality(s) <= n}

LEMMA PickInSet == ASSUME NEW s, s # {} PROVE Pick(s) \in s
BY DEF Pick

LEMMA RestIsSmaller ==
    ASSUME NEW S, IsFiniteSet(S), NEW s \in SUBSET S, s # {}
    PROVE  /\ s \ {Pick(s)} \in SUBSET S
           /\ Cardinality(s) \in Nat \ {0}
           /\ Cardinality(s \ {Pick(s)}) = Cardinality(s) - 1
<1>1. IsFiniteSet(s)
  BY FS_Subset
<1>2. Cardinality(s) \in Nat /\ Cardinality(s) # 0
  BY <1>1, FS_CardinalityType, FS_EmptySet
<1>3. Cardinality(s \ {Pick(s)}) = Cardinality(s) - 1
  BY <1>1, PickInSet, FS_RemoveElement
<1>. QED BY <1>2, <1>3

(* There is such a function, by induction on the size of the subsets.  *)
LEMMA SumsExist ==
    ASSUME NEW S, IsFiniteSet(S), NEW f, \A x \in S : f[x] \in Int
    PROVE  /\ SumsOn(f, SUBSET S, Sums(f, S))
           /\ Sums(f, S) \in [SUBSET S -> Int]
<1>. DEFINE T == {n \in Nat : \E h \in [Smaller(S, n) -> Int] : SumsOn(f, Smaller(S, n), h)}
<1>1. 0 \in T
  <2>. DEFINE h == [s \in Smaller(S, 0) |-> 0]
  <2>1. \A s \in Smaller(S, 0) : s = {}
    <3>. SUFFICES ASSUME NEW s \in Smaller(S, 0), s # {} PROVE FALSE
      OBVIOUS
    <3>1. s \in SUBSET S /\ Cardinality(s) <= 0
      BY DEF Smaller
    <3>2. Cardinality(s) \in Nat \ {0}
      BY <3>1, RestIsSmaller
    <3>. QED BY <3>1, <3>2
  <2>2. h = [s \in Smaller(S, 0) |-> IF s = {} THEN 0 ELSE f[Pick(s)] + h[s \ {Pick(s)}]]
    BY <2>1
  <2>3. h \in [Smaller(S, 0) -> Int]
    OBVIOUS
  <2>. QED BY <2>2, <2>3 DEF SumsOn
<1>2. ASSUME NEW n \in T PROVE n + 1 \in T
  <2>1. n \in Nat
    OBVIOUS
  <2>2. PICK h \in [Smaller(S, n) -> Int] : SumsOn(f, Smaller(S, n), h)
    OBVIOUS
  <2>. DEFINE g == [s \in Smaller(S, n + 1) |->
                      IF s = {} THEN 0 ELSE f[Pick(s)] + h[s \ {Pick(s)}]]
  <2>3. ASSUME NEW s \in Smaller(S, n + 1), s # {}
        PROVE  /\ s \ {Pick(s)} \in Smaller(S, n)
               /\ s \ {Pick(s)} \in Smaller(S, n + 1)
               /\ f[Pick(s)] \in Int
    <3>1. s \in SUBSET S /\ Cardinality(s) <= n + 1
      BY DEF Smaller
    <3>2. Pick(s) \in S
      BY <2>3, <3>1, PickInSet
    <3>. QED BY <2>1, <2>3, <3>1, <3>2, RestIsSmaller DEF Smaller
  <2>4. g \in [Smaller(S, n + 1) -> Int]
    BY <2>3
  <2>5. \A s \in Smaller(S, n) : s \in Smaller(S, n + 1)
    <3>. SUFFICES ASSUME NEW s \in Smaller(S, n) PROVE s \in Smaller(S, n + 1)
      OBVIOUS
    <3>1. s \in SUBSET S /\ Cardinality(s) <= n
      BY DEF Smaller
    <3>2. Cardinality(s) \in Nat
      BY <3>1, FS_Subset, FS_CardinalityType
    <3>. QED BY <2>1, <3>1, <3>2 DEF Smaller
  <2>6. \A s \in Smaller(S, n) : g[s] = h[s]
    BY <2>2, <2>5 DEF SumsOn
  <2>7. g = [s \in Smaller(S, n + 1) |-> IF s = {} THEN 0 ELSE f[Pick(s)] + g[s \ {Pick(s)}]]
    <3>1. ASSUME NEW s \in Smaller(S, n + 1), s # {}
          PROVE  g[s \ {Pick(s)}] = h[s \ {Pick(s)}]
      BY <2>3, <2>6, <3>1
    <3>. QED BY <3>1
  <2>. HIDE DEF g
  <2>8. SumsOn(f, Smaller(S, n + 1), g)
    BY <2>7 DEF SumsOn
  <2>. QED BY <2>1, <2>4, <2>8
<1>3. Cardinality(S) \in T
  <2>1. T = Nat
    <3>. HIDE DEF T
    <3>1. T \in SUBSET Nat
      BY DEF T
    <3>. QED BY <1>1, <1>2, <3>1, Induction
  <2>. QED BY <2>1, FS_CardinalityType
<1>4. PICK h \in [Smaller(S, Cardinality(S)) -> Int] : SumsOn(f, Smaller(S, Cardinality(S)), h)
  BY <1>3
<1>5. Smaller(S, Cardinality(S)) = SUBSET S
  BY FS_Subset DEF Smaller
<1>6. SumsOn(f, SUBSET S, Sums(f, S))
  BY <1>4, <1>5 DEF Sums
<1>7. Sums(f, S) \in [SUBSET S -> Int]
  <2>. DEFINE U == {n \in Nat : \A s \in SUBSET S : Cardinality(s) = n => Sums(f, S)[s] \in Int}
              H == Sums(f, S)
  <2>. HIDE DEF H
  <2>0. H = [s \in SUBSET S |-> IF s = {} THEN 0 ELSE f[Pick(s)] + H[s \ {Pick(s)}]]
    BY <1>6 DEF H, SumsOn
  <2>1. 0 \in {n \in Nat : \A s \in SUBSET S : Cardinality(s) = n => H[s] \in Int}
    <3>. SUFFICES ASSUME NEW s \in SUBSET S, Cardinality(s) = 0 PROVE H[s] \in Int
      OBVIOUS
    <3>1. s = {}
      BY RestIsSmaller
    <3>. QED BY <2>0, <3>1
  <2>2. ASSUME NEW n \in Nat, \A s \in SUBSET S : Cardinality(s) = n => H[s] \in Int,
               NEW s \in SUBSET S, Cardinality(s) = n + 1
        PROVE  H[s] \in Int
    <3>1. s # {}
      BY <2>2, FS_EmptySet
    <3>4. s \ {Pick(s)} \in SUBSET S /\ Cardinality(s \ {Pick(s)}) = n
      BY <2>2, <3>1, RestIsSmaller
    <3>2. H[s \ {Pick(s)}] \in Int
      BY <2>2, <3>4
    <3>3. f[Pick(s)] \in Int
      BY <3>1, PickInSet
    <3>5. H[s] = f[Pick(s)] + H[s \ {Pick(s)}]
      BY <2>0, <3>1
    <3>. QED BY <3>2, <3>3, <3>5
  <2>3. {n \in Nat : \A s \in SUBSET S : Cardinality(s) = n => H[s] \in Int} = Nat
    <3>. DEFINE V == {n \in Nat : \A s \in SUBSET S : Cardinality(s) = n => H[s] \in Int}
    <3>1. V \in SUBSET Nat /\ 0 \in V
      BY <2>1
    <3>2. \A n \in V : n + 1 \in V
      BY <2>2
    <3>. HIDE DEF V
    <3>3. V = Nat
      BY <3>1, <3>2, Induction
    <3>. QED BY <3>3 DEF V
  <2>4. \A s \in SUBSET S : H[s] \in Int
    BY <2>3, FS_Subset, FS_CardinalityType
  <2>. QED BY <2>0, <2>4 DEF H
<1>. QED BY <1>6, <1>7

(* Induction on the number of elements. *)
LEMMA SubsetInduction ==
    ASSUME NEW S, IsFiniteSet(S), NEW T \in SUBSET SUBSET S, {} \in T,
           \A s \in (SUBSET S) \ {{}} : s \ {Pick(s)} \in T => s \in T
    PROVE  T = SUBSET S
<1>. DEFINE U == {n \in Nat : \A s \in SUBSET S : Cardinality(s) = n => s \in T}
<1>1. 0 \in U
  <2>. SUFFICES ASSUME NEW s \in SUBSET S, Cardinality(s) = 0 PROVE s = {}
    OBVIOUS
  <2>1. IsFiniteSet(s)
    BY FS_Subset
  <2>. QED BY <2>1, FS_EmptySet
<1>2. ASSUME NEW n \in U PROVE n + 1 \in U
  <2>1. n + 1 \in Nat /\ n + 1 # 0
    OBVIOUS
  <2>. SUFFICES ASSUME NEW s \in SUBSET S, Cardinality(s) = n + 1 PROVE s \in T
    BY <2>1
  <2>2. s # {}
    BY <2>1, FS_EmptySet
  <2>3. s \ {Pick(s)} \in SUBSET S /\ Cardinality(s \ {Pick(s)}) = n
    BY <2>2, RestIsSmaller
  <2>. QED BY <2>2, <2>3
<1>3. U = Nat
  <2>. HIDE DEF U
  <2>1. U \in SUBSET Nat
    BY DEF U
  <2>. QED BY <1>1, <1>2, <2>1, Induction
<1>. QED BY <1>3, FS_Subset, FS_CardinalityType

(* F has the sums of f over the subsets of S. *)
IsSum(f, S, F) ==
    /\ F \in [SUBSET S -> Int]
    /\ F[{}] = 0
    /\ \A s \in (SUBSET S) \ {{}} : F[s] = f[Pick(s)] + F[s \ {Pick(s)}]

LEMMA SumStep ==
    ASSUME NEW S, IsFiniteSet(S), NEW f, \A x \in S : f[x] \in Int
    PROVE  \E F : IsSum(f, S, F) /\ SumFunctionOnSet(f, S) = F[S]
<1>. DEFINE F == Sums(f, S)
<1>1. SumsOn(f, SUBSET S, F) /\ F \in [SUBSET S -> Int]
  BY SumsExist
<1>2. SumFunctionOnSet(f, S) = F[S]
  BY SumIsChosen
<1>. HIDE DEF F
<1>3. F = [s \in SUBSET S |-> IF s = {} THEN 0 ELSE f[Pick(s)] + F[s \ {Pick(s)}]]
  BY <1>1 DEF SumsOn
<1>4. F[{}] = 0 /\ \A s \in (SUBSET S) \ {{}} : F[s] = f[Pick(s)] + F[s \ {Pick(s)}]
  BY <1>3
<1>. QED BY <1>1, <1>2, <1>4 DEF IsSum

(* A sum is an integer. *)
LEMMA SumInt ==
    ASSUME NEW S, IsFiniteSet(S), NEW f, \A x \in S : f[x] \in Int
    PROVE  SumFunctionOnSet(f, S) \in Int
<1>. SumFunctionOnSet(f, S) = Sums(f, S)[S] /\ Sums(f, S) \in [SUBSET S -> Int]
  BY SumIsChosen, SumsExist
<1>. QED OBVIOUS

(* Changing one of the summands changes the sum by the difference. *)
LEMMA SumChange ==
    ASSUME NEW S, IsFiniteSet(S), NEW f, \A x \in S : f[x] \in Int,
           NEW g, \A x \in S : g[x] \in Int, NEW u, \A x \in S \ {u} : g[x] = f[x]
    PROVE  SumFunctionOnSet(g, S) =
              SumFunctionOnSet(f, S) + (IF u \in S THEN g[u] - f[u] ELSE 0)
<1>1. PICK F : IsSum(f, S, F) /\ SumFunctionOnSet(f, S) = F[S]
  BY SumStep
<1>2. PICK G : IsSum(g, S, G) /\ SumFunctionOnSet(g, S) = G[S]
  BY SumStep
<1>. DEFINE change(s) == IF u \in s THEN g[u] - f[u] ELSE 0
            T == {s \in SUBSET S : G[s] = F[s] + change(s)}
<1>. USE DEF IsSum
<1>3. {} \in T
  BY <1>1, <1>2
<1>4. ASSUME NEW s \in (SUBSET S) \ {{}}, s \ {Pick(s)} \in T
      PROVE  s \in T
  <2>. DEFINE p == Pick(s)
              rest == s \ {Pick(s)}
  <2>1. p \in s /\ p \in S /\ rest \in SUBSET S /\ p \notin rest
    BY PickInSet
  <2>2. G[rest] = F[rest] + change(rest)
    BY <1>4
  <2>3. F[s] = f[p] + F[rest] /\ G[s] = g[p] + G[rest]
    BY <1>1, <1>2
  <2>4. f[p] \in Int /\ g[p] \in Int /\ F[rest] \in Int /\ G[rest] \in Int
    BY <1>1, <1>2, <2>1
  <2>5. CASE p = u
    <3>1. change(rest) = 0 /\ change(s) = g[p] - f[p]
      BY <2>1, <2>5
    <3>. QED BY <2>2, <2>3, <2>4, <3>1
  <2>6. CASE p # u
    <3>1. u \in s <=> u \in rest
      BY <2>6
    <3>2. change(rest) = change(s) /\ g[p] = f[p]
      BY <2>1, <2>6, <3>1
    <3>3. change(s) \in Int
      BY <2>1
    <3>. HIDE DEF change, p, rest
    <3>4. G[s] = F[s] + change(s)
      BY <2>2, <2>3, <2>4, <3>2, <3>3
    <3>. QED BY <3>4
  <2>. QED BY <2>5, <2>6
<1>5. T = SUBSET S
  <2>. HIDE DEF T
  <2>1. T \in SUBSET SUBSET S
    BY DEF T
  <2>. QED BY <1>3, <1>4, <2>1, SubsetInduction
<1>6. G[S] = F[S] + change(S)
  BY <1>5
<1>. QED BY <1>1, <1>2, <1>6

(* A sum of zeros is zero. *)
LEMMA SumZero ==
    ASSUME NEW S, IsFiniteSet(S), NEW f, \A x \in S : f[x] = 0
    PROVE  SumFunctionOnSet(f, S) = 0
<1>. \A x \in S : f[x] \in Int
  OBVIOUS
<1>1. PICK F : IsSum(f, S, F) /\ SumFunctionOnSet(f, S) = F[S]
  BY SumStep
<1>. DEFINE T == {s \in SUBSET S : F[s] = 0}
<1>. USE DEF IsSum
<1>2. {} \in T
  BY <1>1
<1>3. ASSUME NEW s \in (SUBSET S) \ {{}}, s \ {Pick(s)} \in T PROVE s \in T
  <2>1. Pick(s) \in S
    BY PickInSet
  <2>2. F[s] = f[Pick(s)] + F[s \ {Pick(s)}]
    BY <1>1
  <2>. QED BY <1>3, <2>1, <2>2
<1>4. T = SUBSET S
  <2>. HIDE DEF T
  <2>1. T \in SUBSET SUBSET S
    BY DEF T
  <2>. QED BY <1>2, <1>3, <2>1, SubsetInduction
<1>. QED BY <1>1, <1>4

(* A sum of equal summands, and one with an amount moved from v to u. *)
LEMMA SumTransfer ==
    ASSUME NEW S, IsFiniteSet(S), NEW f \in [S -> Int], NEW g \in [S -> Int], NEW d \in Int,
           NEW u \in S, NEW v \in S, u # v, g[u] = f[u] + d, g[v] + d = f[v],
           \A x \in S \ {u, v} : g[x] = f[x]
    PROVE  SumFunction(g) = SumFunction(f)
<1>. DEFINE h == [f EXCEPT ![u] = f[u] + d]
<1>1. h \in [S -> Int] /\ h[u] = f[u] + d /\ \A x \in S \ {u} : h[x] = f[x]
  OBVIOUS
<1>. HIDE DEF h
<1>2. SumFunctionOnSet(h, S) = SumFunctionOnSet(f, S) + (h[u] - f[u])
  <2>1. SumFunctionOnSet(h, S) = SumFunctionOnSet(f, S) + (IF u \in S THEN h[u] - f[u] ELSE 0)
    BY <1>1, SumChange
  <2>. QED BY <2>1
<1>3. g[v] + d = h[v] /\ \A x \in S \ {v} : g[x] = h[x]
  BY <1>1
<1>4. SumFunctionOnSet(g, S) = SumFunctionOnSet(h, S) + (g[v] - h[v])
  <2>1. SumFunctionOnSet(g, S) = SumFunctionOnSet(h, S) + (IF v \in S THEN g[v] - h[v] ELSE 0)
    BY <1>1, <1>3, SumChange
  <2>. QED BY <2>1
<1>5. SumFunctionOnSet(f, S) \in Int
  BY SumInt
<1>6. h[u] - f[u] = d /\ g[v] - h[v] = -d
  BY <1>1, <1>3
<1>7. SumFunctionOnSet(g, S) = SumFunctionOnSet(f, S)
  BY <1>2, <1>4, <1>5, <1>6
<1>. QED BY <1>7 DEF SumFunction

-------------------------------------------------------------------------------
(* The list of a user whose balances are bal: every debt has an entry, and  *)
(* an entry of an asset other than ORN is a debt and the only one of it.    *)
EveryDebtListed(bal, list) ==
    \A a \in Assets : bal[a] < 0 => \E i \in 1 .. Len(list) : list[i].asset = a

EntryIsDebt(bal, list) ==
    \A i \in 1 .. Len(list) : list[i].asset # ORN =>
        /\ bal[list[i].asset] < 0
        /\ \A j \in 1 .. Len(list) : list[j].asset = list[i].asset => i = j

ListOK(bal, list) ==
    /\ bal \in [Assets -> Int]
    /\ list \in Seq(Liability)
    /\ EveryDebtListed(bal, list)
    /\ EntryIsDebt(bal, list)

(* MinIndex returns an element of any non-empty set of indices. *)
LEMMA MinIndexInSet ==
    ASSUME NEW S \in SUBSET Nat, S # {}
    PROVE  MinIndex(S) \in S
<1>1. OpToRel(<, Nat) = Less
  BY DEF OpToRel, Less
<1>2. PICK x \in S : \A y \in S : ~ (<<y, x>> \in Less)
  BY <1>1, NatLessThanWellFounded, WFMin
<1>3. \A y \in S : x <= y
  <2>. SUFFICES ASSUME NEW y \in S PROVE x <= y
    OBVIOUS
  <2>1. ~ (<<y, x>> \in Less) /\ <<y, x>> \in Nat \X Nat
    BY <1>2
  <2>2. ~ (y < x)
    BY <2>1 DEF Less
  <2>. QED BY <2>2, <1>2
<1>. QED BY <1>3 DEF MinIndex

(* removeLiability drops the first entry of the asset and moves the last one *)
(* into its place: the other entries all stay.                               *)
LEMMA RemoveEntry ==
    ASSUME NEW list \in Seq(Liability), NEW asset, Entries(list, asset) # {}
    PROVE  \E i \in 1 .. Len(list) :
             /\ list[i].asset = asset
             /\ removeLiability(list, asset) \in Seq(Liability)
             /\ Len(removeLiability(list, asset)) = Len(list) - 1
             /\ \A k \in 1 .. Len(list) - 1 :
                   removeLiability(list, asset)[k] = IF k = i THEN list[Len(list)] ELSE list[k]
<1>. DEFINE i == MinIndex(Entries(list, asset))
            n == Len(list)
            moved == [list EXCEPT ![i] = list[n]]
<1>1. /\ DOMAIN list = 1 .. n /\ n \in Nat
      /\ Entries(list, asset) \in SUBSET Nat
  BY LenProperties DEF Entries
<1>2. i \in 1 .. n /\ list[i].asset = asset
  <2>. HIDE DEF i
  <2>1. i \in Entries(list, asset)
    BY <1>1, MinIndexInSet DEF i
  <2>. QED BY <2>1, <1>1 DEF Entries
<1>. HIDE DEF i
<1>3. list[n] \in Liability
  BY <1>1, <1>2, ElementOfSeq
<1>4. moved \in Seq(Liability) /\ Len(moved) = n
  BY <1>1, <1>2, <1>3, ExceptSeq
<1>5. /\ SubSeq(moved, 1, n - 1) \in Seq(Liability)
      /\ Len(SubSeq(moved, 1, n - 1)) = n - 1
      /\ \A k \in 1 .. n - 1 : SubSeq(moved, 1, n - 1)[k] = moved[k]
  <2>. HIDE DEF moved
  <2>. QED BY <1>1, <1>2, <1>4, SubSeqProperties
<1>6. \A k \in 1 .. n - 1 : moved[k] = IF k = i THEN list[n] ELSE list[k]
  BY <1>1
<1>7. removeLiability(list, asset) = SubSeq(moved, 1, n - 1)
  BY DEF removeLiability, i
<1>. QED BY <1>2, <1>5, <1>6, <1>7

-------------------------------------------------------------------------------
(* The cases of a change of one balance, to x. *)

(* A paid debt loses its entry. *)
LEMMA RemoveOK ==
    ASSUME NEW bal, NEW list, ListOK(bal, list), NEW asset \in Assets, NEW x \in Nat
    PROVE  ListOK([bal EXCEPT ![asset] = x], removeLiability(list, asset))
<1>. DEFINE newBal == [bal EXCEPT ![asset] = x]
            newList == removeLiability(list, asset)
<1>. USE DEF ListOK
<1>1. newBal \in [Assets -> Int] /\ newBal[asset] = x
      /\ \A a \in Assets \ {asset} : newBal[a] = bal[a]
  OBVIOUS
<1>2. Len(list) \in Nat /\ DOMAIN list = 1 .. Len(list)
      /\ \A i \in 1 .. Len(list) : list[i] \in Liability
  BY LenProperties, ElementOfSeq
<1>3. CASE Entries(list, asset) = {}
  <2>1. newList = list
    BY <1>3 DEF removeLiability
  <2>2. \A i \in 1 .. Len(list) : list[i].asset \in Assets \ {asset}
    BY <1>2, <1>3 DEF Entries, Liability
  <2>3. EveryDebtListed(newBal, newList)
    BY <1>1, <2>1 DEF EveryDebtListed
  <2>4. EntryIsDebt(newBal, newList)
    <3>. HIDE DEF newBal, newList
    <3>. QED BY <1>1, <1>2, <2>1, <2>2 DEF EntryIsDebt
  <2>. QED BY <1>1, <2>1, <2>3, <2>4
<1>4. CASE Entries(list, asset) # {}
  <2>1. PICK i \in 1 .. Len(list) :
             /\ list[i].asset = asset
             /\ newList \in Seq(Liability)
             /\ Len(newList) = Len(list) - 1
             /\ \A k \in 1 .. Len(list) - 1 :
                   newList[k] = IF k = i THEN list[Len(list)] ELSE list[k]
    BY <1>4, RemoveEntry
  <2>. HIDE DEF newBal, newList
  <2>0. \A n \in Nat : \A p \in 1 .. n : p # n => p \in 1 .. n - 1
    OBVIOUS
  <2>2. EveryDebtListed(newBal, newList)
    <3>. SUFFICES ASSUME NEW a \in Assets, newBal[a] < 0
                  PROVE  \E k \in 1 .. Len(newList) : newList[k].asset = a
      BY DEF EveryDebtListed
    <3>1. a # asset /\ bal[a] < 0
      BY <1>1
    <3>2. PICK j \in 1 .. Len(list) : list[j].asset = a
      BY <3>1 DEF EveryDebtListed
    <3>3. j # i
      BY <2>1, <3>1, <3>2
    <3>4. CASE j = Len(list)
      <4>1. i \in 1 .. Len(list) - 1
        BY <1>2, <2>0, <3>3, <3>4, Zenon
      <4>2. newList[i] = list[j]
        BY <2>1, <3>4, <4>1
      <4>. QED BY <4>1, <4>2, <2>1, <3>2
    <3>5. CASE j # Len(list)
      <4>1. j \in 1 .. Len(list) - 1
        BY <1>2, <2>0, <3>5, Zenon
      <4>2. newList[j] = list[j]
        BY <2>1, <3>3, <4>1
      <4>. QED BY <4>1, <4>2, <2>1, <3>2
    <3>. QED BY <3>4, <3>5
  <2>3. EntryIsDebt(newBal, newList)
    <3>. DEFINE from(k) == IF k = i THEN Len(list) ELSE k
    <3>0. Len(newList) = Len(list) - 1 /\ Len(list) \in Nat /\ i \in 1 .. Len(list)
      BY <1>2, <2>1
    <3>1. \A k \in 1 .. Len(newList) :
             /\ from(k) \in 1 .. Len(list) \ {i}
             /\ newList[k] = list[from(k)]
      <4>. SUFFICES ASSUME NEW k \in 1 .. Len(newList)
                    PROVE  /\ from(k) \in 1 .. Len(list) \ {i}
                           /\ newList[k] = list[from(k)]
        OBVIOUS
      <4>1. from(k) \in 1 .. Len(list) \ {i}
        BY <3>0
      <4>2. newList[k] = list[from(k)]
        BY <2>1, <3>0
      <4>. QED BY <4>1, <4>2
    <3>2. \A j, k \in 1 .. Len(newList) : from(j) = from(k) => j = k
      BY <3>0
    <3>. HIDE DEF from
    <3>. SUFFICES ASSUME NEW k \in 1 .. Len(newList), newList[k].asset # ORN
                  PROVE  /\ newBal[newList[k].asset] < 0
                         /\ \A j \in 1 .. Len(newList) :
                               newList[j].asset = newList[k].asset => k = j
      BY DEF EntryIsDebt
    <3>3. /\ bal[list[from(k)].asset] < 0
          /\ \A j \in 1 .. Len(list) :
                 list[j].asset = list[from(k)].asset => from(k) = j
      BY <3>1 DEF EntryIsDebt
    <3>4. list[from(k)].asset \in Assets \ {asset}
      BY <1>2, <2>1, <3>1, <3>3 DEF Liability
    <3>. QED BY <1>1, <3>1, <3>2, <3>3, <3>4
  <2>. QED BY <1>1, <2>1, <2>2, <2>3 DEF newBal, newList
<1>. QED BY <1>3, <1>4

(* The entry that updateLiability changes is one of the list. *)
LEMMA EntryToUpdateInList ==
    ASSUME NEW list \in Seq(Liability), NEW asset, list # <<>>
    PROVE  EntryToUpdate(list, asset) \in 1 .. Len(list)
<1>. DEFINE found == {i \in 1 .. Len(list) - 1 : list[i].asset = asset}
<1>1. Len(list) \in Nat /\ Len(list) # 0
  BY LenProperties, EmptySeq
<1>2. found \in SUBSET Nat /\ found \subseteq 1 .. Len(list)
  BY <1>1
<1>3. found # {} => MinIndex(found) \in found
  <2>. HIDE DEF found
  <2>. QED BY <1>2, MinIndexInSet
<1>4. EntryToUpdate(list, asset) = IF found = {} THEN Len(list) ELSE MinIndex(found)
  BY DEF EntryToUpdate
<1>. HIDE DEF found
<1>5. CASE found = {}
  BY <1>1, <1>4, <1>5
<1>6. CASE found # {}
  <2>1. EntryToUpdate(list, asset) = MinIndex(found)
    BY <1>4, <1>6
  <2>. QED BY <1>2, <1>3, <1>6, <2>1
<1>. QED BY <1>5, <1>6

(* A debt that is only partly covered, or deepened, keeps the assets of its *)
(* list, and so does any change that leaves the list alone.                 *)
LEMMA SameAssetsOK ==
    ASSUME NEW bal, NEW list, ListOK(bal, list), NEW asset \in Assets, NEW x \in Int,
           NEW newList \in Seq(Liability), Len(newList) = Len(list),
           \A i \in 1 .. Len(list) : newList[i].asset = list[i].asset,
           \/ x < 0 /\ bal[asset] < 0
           \/ x >= 0 /\ bal[asset] >= 0
           \/ asset = ORN /\ x >= bal[asset]
    PROVE  ListOK([bal EXCEPT ![asset] = x], newList)
<1>. DEFINE newBal == [bal EXCEPT ![asset] = x]
<1>. USE DEF ListOK
<1>1. newBal \in [Assets -> Int] /\ newBal[asset] = x
      /\ \A a \in Assets \ {asset} : newBal[a] = bal[a]
  OBVIOUS
<1>2. \A i \in 1 .. Len(list) : list[i].asset \in Assets
  <2>1. \A i \in 1 .. Len(list) : list[i] \in Liability
    BY ElementOfSeq
  <2>. QED BY <2>1 DEF Liability
<1>3. \A a \in Assets : newBal[a] < 0 => bal[a] < 0
  BY <1>1
<1>4. \A a \in Assets \ {ORN} : bal[a] < 0 => newBal[a] < 0
  BY <1>1
<1>. HIDE DEF newBal
<1>5. EveryDebtListed(newBal, newList)
  BY <1>3 DEF EveryDebtListed
<1>6. EntryIsDebt(newBal, newList)
  BY <1>2, <1>4 DEF EntryIsDebt
<1>. QED BY <1>1, <1>5, <1>6

(* updateLiability keeps the list right for the new balance of a debt. *)
LEMMA UpdateOK ==
    ASSUME NEW bal, NEW list, ListOK(bal, list), NEW asset \in Assets, NEW x \in Int,
           bal[asset] < 0, NEW amount \in Nat, now \in Nat
    PROVE  ListOK([bal EXCEPT ![asset] = x], updateLiability(list, asset, amount, x))
<1>. USE DEF ListOK
<1>1. CASE x >= 0
  <2>1. x \in Nat
    BY <1>1
  <2>2. updateLiability(list, asset, amount, x) = removeLiability(list, asset)
    BY <1>1 DEF updateLiability
  <2>. HIDE DEF ListOK
  <2>. QED BY <2>1, <2>2, RemoveOK
<1>2. CASE x < 0
  <2>. DEFINE i == EntryToUpdate(list, asset)
              entry == list[i]
              newEntry == IF amount >= entry.outstandingAmount
                          THEN [entry EXCEPT !.outstandingAmount = -x, !.timestamp = now]
                          ELSE [entry EXCEPT !.outstandingAmount =
                                                entry.outstandingAmount - amount]
              newList == [list EXCEPT ![i] = newEntry]
  <2>1. list # <<>>
    BY EmptySeq DEF EveryDebtListed
  <2>2. i \in 1 .. Len(list)
    BY <2>1, EntryToUpdateInList
  <2>3. updateLiability(list, asset, amount, x) = newList
    <3>. ~ (x >= 0)
      BY <1>2
    <3>. QED BY Zenon DEF updateLiability
  <2>. HIDE DEF i
  <2>4. entry \in Liability
    BY <2>2, ElementOfSeq
  <2>. HIDE DEF entry
  <2>5. newEntry \in Liability /\ newEntry.asset = entry.asset
    <3>1. CASE amount >= entry.outstandingAmount
      <4>1. newEntry = [entry EXCEPT !.outstandingAmount = -x, !.timestamp = now]
        BY <3>1
      <4>2. -x \in Nat
        BY <1>2
      <4>. QED BY <2>4, <4>1, <4>2 DEF Liability
    <3>2. CASE ~ (amount >= entry.outstandingAmount)
      <4>1. newEntry = [entry EXCEPT !.outstandingAmount =
                                           entry.outstandingAmount - amount]
        BY <3>2
      <4>2. entry.outstandingAmount - amount \in Nat
        BY <2>4, <3>2 DEF Liability
      <4>. QED BY <2>4, <4>1, <4>2 DEF Liability
    <3>. QED BY <3>1, <3>2
  <2>. HIDE DEF newEntry
  <2>6. /\ newList \in Seq(Liability) /\ Len(newList) = Len(list)
        /\ \A j \in 1 .. Len(list) : newList[j] = IF j = i THEN newEntry ELSE list[j]
    BY <2>2, <2>5, ExceptSeq
  <2>7. \A j \in 1 .. Len(list) : newList[j].asset = list[j].asset
    BY <2>5, <2>6 DEF entry
  <2>. HIDE DEF newList
  <2>. QED BY <1>2, <2>3, <2>6, <2>7, SameAssetsOK
<1>. QED BY <1>1, <1>2

(* A new debt gets an entry. *)
LEMMA PushOK ==
    ASSUME NEW bal, NEW list, ListOK(bal, list), NEW asset \in Assets, NEW x \in Int,
           bal[asset] >= 0, x < 0, NEW entry \in Liability, entry.asset = asset
    PROVE  ListOK([bal EXCEPT ![asset] = x], Append(list, entry))
<1>. DEFINE newBal == [bal EXCEPT ![asset] = x]
            newList == Append(list, entry)
            n == Len(list)
<1>. USE DEF ListOK
<1>1. newBal \in [Assets -> Int] /\ newBal[asset] = x
      /\ \A a \in Assets \ {asset} : newBal[a] = bal[a]
  OBVIOUS
<1>2. n \in Nat /\ \A i \in 1 .. n : list[i].asset \in Assets
  <2>1. n \in Nat /\ \A i \in 1 .. Len(list) : list[i] \in Liability
    BY LenProperties, ElementOfSeq
  <2>. QED BY <2>1 DEF Liability
<1>3. /\ newList \in Seq(Liability) /\ Len(newList) = n + 1
      /\ \A i \in 1 .. n : newList[i] = list[i]
      /\ newList[n + 1] = entry
  BY AppendProperties
<1>. HIDE DEF newBal, newList, n
<1>4. EveryDebtListed(newBal, newList)
  <2>. SUFFICES ASSUME NEW a \in Assets, newBal[a] < 0
                PROVE  \E i \in 1 .. Len(newList) : newList[i].asset = a
    BY DEF EveryDebtListed
  <2>1. CASE a = asset
    BY <1>2, <1>3, <2>1
  <2>2. CASE a # asset
    <3>1. PICK i \in 1 .. n : list[i].asset = a
      BY <1>1, <2>2 DEF EveryDebtListed, n
    <3>. QED BY <1>2, <1>3, <3>1
  <2>. QED BY <2>1, <2>2
<1>5. EntryIsDebt(newBal, newList)
  <2>1. \A i \in 1 .. n : list[i].asset # ORN => list[i].asset # asset
    BY <1>2 DEF EntryIsDebt, n
  <2>2. ASSUME NEW i \in 1 .. n + 1, newList[i].asset # ORN
        PROVE  newBal[newList[i].asset] < 0
    <3>1. CASE i = n + 1
      BY <1>1, <1>3, <3>1
    <3>2. CASE i \in 1 .. n
      BY <1>1, <1>2, <1>3, <2>1, <2>2, <3>2 DEF EntryIsDebt, n
    <3>. QED BY <1>2, <3>1, <3>2
  <2>3. ASSUME NEW i \in 1 .. n + 1, NEW j \in 1 .. n + 1,
               newList[i].asset # ORN, newList[j].asset = newList[i].asset
        PROVE  i = j
    <3>1. CASE i \in 1 .. n /\ j \in 1 .. n
      BY <1>3, <2>3, <3>1 DEF EntryIsDebt, n
    <3>2. CASE i = n + 1 /\ j \in 1 .. n
      BY <1>3, <2>1, <2>3, <3>2
    <3>3. CASE i \in 1 .. n /\ j = n + 1
      BY <1>3, <2>1, <2>3, <3>3
    <3>. QED BY <1>2, <3>1, <3>2, <3>3
  <2>. QED BY <1>3, <2>2, <2>3 DEF EntryIsDebt
<1>. QED BY <1>1, <1>3, <1>4, <1>5 DEF newBal, newList

-------------------------------------------------------------------------------
(* The ledger of a transaction. *)

LedgerType ==
    [assetBalances : [Users -> [Assets -> Int]],
     liabilities : [Users -> Seq(Liability)],
     wallet : [Users -> [Assets -> Nat]],
     allowance : [Users -> [Assets -> Nat]],
     held : [Assets -> Nat],
     reverted : BOOLEAN]

LedgerOK(L) ==
    /\ L \in LedgerType
    /\ \A u \in Users : ListOK(L.assetBalances[u], L.liabilities[u])

(* Only the users of S may have become borrowers from L to M. *)
NoNewBorrower(L, M, S) ==
    \A u \in Users \ S : L.liabilities[u] = <<>> => M.liabilities[u] = <<>>

-------------------------------------------------------------------------------
(* Arithmetic of the conversions and of the percentages. *)

LEMMA DivNat ==
    ASSUME NEW x \in Nat, NEW d \in Nat \ {0}
    PROVE  x \div d \in Nat
OBVIOUS

LEMMA ProductNat ==
    ASSUME NEW x \in Nat, NEW y \in Nat
    PROVE  x * y \in Nat
OBVIOUS

LEMMA ConversionNat ==
    ASSUME NEW asset \in Assets, NEW amount \in Nat
    PROVE  /\ DecimalToBaseUnit(asset, amount) \in Nat
           /\ BaseUnitToDecimal(asset, amount) \in Nat
<1>1. Unit \in Nat \ {0} /\ BaseUnit[asset] \in Nat \ {0}
  BY UnitAssumption, StorageAssumption DEF UnitAssumption, StorageAssumption
<1>2. amount * BaseUnit[asset] \in Nat /\ amount * Unit \in Nat
  BY <1>1, ProductNat
<1>. QED BY <1>1, <1>2, DivNat DEF DecimalToBaseUnit, BaseUnitToDecimal

LEMMA PercentNat ==
    ASSUME NEW x \in Nat, NEW b \in Nat
    PROVE  uint8Percent(x, b) \in Nat
<1>1. x \div 255 \in Nat
  BY DivNat
<1>2. (x \div 255) * b \in Nat /\ x * b \in Nat
  BY <1>1, ProductNat
<1>3. (x * b) \div 255 \in Nat
  BY <1>2, DivNat
<1>. QED BY <1>2, <1>3 DEF uint8Percent

LEMMA PerUnitNat ==
    ASSUME NEW x \in Nat
    PROVE  PerUnit(x) \in Nat
BY UnitAssumption, DivNat DEF UnitAssumption, PerUnit

-------------------------------------------------------------------------------
(* The fields that each small step changes. *)

LEMMA RequireFields ==
    ASSUME NEW L \in LedgerType, NEW condition \in BOOLEAN
    PROVE  /\ Require(L, condition) \in LedgerType
           /\ Require(L, condition).assetBalances = L.assetBalances
           /\ Require(L, condition).liabilities = L.liabilities
           /\ Require(L, condition).wallet = L.wallet
           /\ Require(L, condition).allowance = L.allowance
           /\ Require(L, condition).held = L.held
BY DEF Require, LedgerType

LEMMA AddBalanceFields ==
    ASSUME NEW L \in LedgerType, NEW user \in Users, NEW asset \in Assets, NEW amount \in Int
    PROVE  /\ AddBalance(L, user, asset, amount) \in LedgerType
           /\ AddBalance(L, user, asset, amount).assetBalances =
                [L.assetBalances EXCEPT ![user] =
                   [L.assetBalances[user] EXCEPT ![asset] = L.assetBalances[user][asset] + amount]]
           /\ AddBalance(L, user, asset, amount).liabilities = L.liabilities
           /\ AddBalance(L, user, asset, amount).wallet = L.wallet
           /\ AddBalance(L, user, asset, amount).allowance = L.allowance
           /\ AddBalance(L, user, asset, amount).held = L.held
<1>. DEFINE bals == [L.assetBalances EXCEPT ![user] =
                   [L.assetBalances[user] EXCEPT ![asset] = L.assetBalances[user][asset] + amount]]
<1>1. AddBalance(L, user, asset, amount) = [L EXCEPT !.assetBalances = bals]
  BY DEF AddBalance, LedgerType
<1>2. bals \in [Users -> [Assets -> Int]]
  BY DEF LedgerType
<1>. HIDE DEF bals
<1>3. /\ [L EXCEPT !.assetBalances = bals] \in LedgerType
      /\ [L EXCEPT !.assetBalances = bals].assetBalances = bals
  BY <1>2 DEF LedgerType
<1>. QED BY <1>1, <1>3 DEF bals, LedgerType

LEMMA ReceiveFields ==
    ASSUME NEW L \in LedgerType, NEW user \in Users, NEW asset \in Assets, NEW base \in Nat,
           CanReceive(L, user, asset, base)
    PROVE  /\ Receive(L, user, asset, base) \in LedgerType
           /\ Receive(L, user, asset, base).assetBalances = L.assetBalances
           /\ Receive(L, user, asset, base).liabilities = L.liabilities
<1>. DEFINE wal == [L.wallet EXCEPT ![user] =
                      [L.wallet[user] EXCEPT ![asset] = L.wallet[user][asset] - base]]
            allow == [L.allowance EXCEPT ![user] =
                        [L.allowance[user] EXCEPT ![asset] =
                           IF asset = ETH THEN L.allowance[user][asset]
                                          ELSE L.allowance[user][asset] - base]]
            hld == [L.held EXCEPT ![asset] = L.held[asset] + base]
<1>1. Receive(L, user, asset, base) =
         [L EXCEPT !.wallet = wal, !.allowance = allow, !.held = hld]
  BY DEF Receive, LedgerType
<1>2. /\ L.wallet[user][asset] - base \in Nat
      /\ asset # ETH => L.allowance[user][asset] - base \in Nat
      /\ L.held[asset] + base \in Nat
  BY DEF CanReceive, LedgerType
<1>3. /\ wal \in [Users -> [Assets -> Nat]]
      /\ allow \in [Users -> [Assets -> Nat]]
      /\ hld \in [Assets -> Nat]
  BY <1>2 DEF LedgerType
<1>. HIDE DEF wal, allow, hld
<1>. QED BY <1>1, <1>3 DEF LedgerType

LEMMA SendFields ==
    ASSUME NEW L \in LedgerType, NEW user \in Users, NEW asset \in Assets, NEW base \in Nat,
           L.held[asset] >= base
    PROVE  /\ Send(L, user, asset, base) \in LedgerType
           /\ Send(L, user, asset, base).assetBalances = L.assetBalances
           /\ Send(L, user, asset, base).liabilities = L.liabilities
<1>. DEFINE wal == [L.wallet EXCEPT ![user] =
                      [L.wallet[user] EXCEPT ![asset] = L.wallet[user][asset] + base]]
            hld == [L.held EXCEPT ![asset] = L.held[asset] - base]
<1>1. Send(L, user, asset, base) = [L EXCEPT !.wallet = wal, !.held = hld]
  BY DEF Send, LedgerType
<1>2. L.wallet[user][asset] + base \in Nat /\ L.held[asset] - base \in Nat
  BY DEF LedgerType
<1>3. wal \in [Users -> [Assets -> Nat]] /\ hld \in [Assets -> Nat]
  BY <1>2 DEF LedgerType
<1>. HIDE DEF wal, hld
<1>. QED BY <1>1, <1>3 DEF LedgerType

-------------------------------------------------------------------------------
(* The ledger after a change of one balance of one user. *)

(* bal and list replace the user's balances and list of liabilities. *)
Updates(L, M, user, bal, list) ==
    /\ M \in LedgerType
    /\ M.assetBalances = [L.assetBalances EXCEPT ![user] = bal]
    /\ M.liabilities = [L.liabilities EXCEPT ![user] = list]

LEMMA UpdatesOK ==
    ASSUME NEW L, LedgerOK(L), NEW M, NEW user \in Users, NEW bal, NEW list,
           Updates(L, M, user, bal, list), ListOK(bal, list)
    PROVE  LedgerOK(M) /\ NoNewBorrower(L, M, {user})
           /\ (list = L.liabilities[user] \/ L.liabilities[user] # <<>>
               => NoNewBorrower(L, M, {}))
<1>1. /\ L.assetBalances \in [Users -> [Assets -> Int]]
      /\ L.liabilities \in [Users -> Seq(Liability)]
  BY DEF LedgerOK, LedgerType
<1>2. /\ M.assetBalances[user] = bal
      /\ M.liabilities[user] = list
      /\ \A u \in Users \ {user} : /\ M.assetBalances[u] = L.assetBalances[u]
                                   /\ M.liabilities[u] = L.liabilities[u]
  BY <1>1 DEF Updates
<1>3. \A u \in Users : ListOK(M.assetBalances[u], M.liabilities[u])
  BY <1>2, Zenon DEF LedgerOK
<1>4. M \in LedgerType
  BY DEF Updates
<1>. QED BY <1>2, <1>3, <1>4 DEF LedgerOK, NoNewBorrower

LEMMA SetListFields ==
    ASSUME NEW L \in LedgerType, NEW user \in Users, NEW list \in Seq(Liability)
    PROVE  /\ [L EXCEPT !.liabilities[user] = list] \in LedgerType
           /\ [L EXCEPT !.liabilities[user] = list].assetBalances = L.assetBalances
           /\ [L EXCEPT !.liabilities[user] = list].liabilities =
                 [L.liabilities EXCEPT ![user] = list]
<1>. DEFINE lists == [L.liabilities EXCEPT ![user] = list]
<1>1. [L EXCEPT !.liabilities[user] = list] = [L EXCEPT !.liabilities = lists]
  BY DEF LedgerType
<1>2. lists \in [Users -> Seq(Liability)]
  BY DEF LedgerType
<1>. HIDE DEF lists
<1>. QED BY <1>1, <1>2 DEF LedgerType, lists

(* An entry of a list of liabilities is neither a balance nor a token. *)
LEMMA ListsKeepTokens ==
    ASSUME NEW L \in LedgerType, NEW user, NEW asset, NEW amount, NEW balance
    PROVE  /\ setLiability(L, user, asset, balance).assetBalances = L.assetBalances
           /\ setLiability(L, user, asset, balance).wallet = L.wallet
           /\ setLiability(L, user, asset, balance).held = L.held
           /\ coverLiability(L, user, asset, amount, balance).assetBalances = L.assetBalances
           /\ coverLiability(L, user, asset, amount, balance).wallet = L.wallet
           /\ coverLiability(L, user, asset, amount, balance).held = L.held
BY DEF setLiability, coverLiability, LedgerType

(* A cover: the balance of a debt is increased and its entry updated. *)
LEMMA CoverOK ==
    ASSUME NEW L, LedgerOK(L), NEW user \in Users, NEW asset \in Assets,
           NEW amount \in Nat, NEW M \in LedgerType, now \in Nat,
           L.assetBalances[user][asset] < 0,
           M.liabilities = L.liabilities,
           M.assetBalances = [L.assetBalances EXCEPT ![user] =
              [L.assetBalances[user] EXCEPT ![asset] = L.assetBalances[user][asset] + amount]],
           NEW x, x = L.assetBalances[user][asset] + amount
    PROVE  /\ LedgerOK(coverLiability(M, user, asset, amount, x))
           /\ NoNewBorrower(L, coverLiability(M, user, asset, amount, x), {})
<1>. DEFINE bal == [L.assetBalances[user] EXCEPT ![asset] = x]
            list == updateLiability(L.liabilities[user], asset, amount, x)
            N == coverLiability(M, user, asset, amount, x)
<1>1. ListOK(L.assetBalances[user], L.liabilities[user]) /\ L \in LedgerType
  BY DEF LedgerOK
<1>2. L.assetBalances[user][asset] \in Int /\ x \in Int
  BY <1>1 DEF LedgerType
<1>3. ListOK(bal, list)
  <2>. QED BY <1>1, <1>2, UpdateOK
<1>4. list \in Seq(Liability)
  BY <1>3 DEF ListOK
<1>5. N = [M EXCEPT !.liabilities[user] = list]
  BY DEF coverLiability
<1>. HIDE DEF list
<1>6. Updates(L, N, user, bal, list)
  <2>1. /\ N \in LedgerType
        /\ N.assetBalances = M.assetBalances
        /\ N.liabilities = [M.liabilities EXCEPT ![user] = list]
    <3>. HIDE DEF N
    <3>. QED BY <1>4, <1>5, SetListFields
  <2>. HIDE DEF N
  <2>. QED BY <2>1 DEF Updates
<1>7. L.liabilities[user] # <<>>
  BY <1>1 DEF ListOK, EveryDebtListed
<1>. HIDE DEF bal
<1>8. LedgerOK(N) /\ NoNewBorrower(L, N, {})
  <2>. HIDE DEF N
  <2>. QED BY <1>3, <1>6, <1>7, UpdatesOK
<1>. QED BY <1>8

(* A balance changes and the list of liabilities does not. *)
LEMMA SameListOK ==
    ASSUME NEW L, LedgerOK(L), NEW user \in Users, NEW asset \in Assets, NEW x \in Int,
           NEW M \in LedgerType,
           M.liabilities = L.liabilities,
           M.assetBalances = [L.assetBalances EXCEPT ![user] =
                                [L.assetBalances[user] EXCEPT ![asset] = x]],
           \/ x < 0 /\ L.assetBalances[user][asset] < 0
           \/ x >= 0 /\ L.assetBalances[user][asset] >= 0
           \/ asset = ORN /\ x >= L.assetBalances[user][asset]
    PROVE  LedgerOK(M) /\ NoNewBorrower(L, M, {})
<1>. DEFINE bal == L.assetBalances[user]
            newBal == [bal EXCEPT ![asset] = x]
            list == L.liabilities[user]
<1>1. ListOK(bal, list) /\ L \in LedgerType
  BY DEF LedgerOK
<1>2. list \in Seq(Liability) /\ Len(list) = Len(list)
      /\ \A i \in 1 .. Len(list) : list[i].asset = list[i].asset
  BY <1>1 DEF ListOK
<1>3. ListOK(newBal, list)
  <2>. HIDE DEF list
  <2>1. \/ x < 0 /\ bal[asset] < 0
        \/ x >= 0 /\ bal[asset] >= 0
        \/ asset = ORN /\ x >= bal[asset]
    OBVIOUS
  <2>. HIDE DEF bal
  <2>. QED BY <1>1, <1>2, <2>1, SameAssetsOK
<1>4. M.liabilities = [L.liabilities EXCEPT ![user] = list]
  BY <1>1 DEF LedgerType
<1>5. Updates(L, M, user, newBal, list)
  BY <1>4 DEF Updates
<1>. HIDE DEF newBal
<1>. QED BY <1>3, <1>5, UpdatesOK

(* A new debt: the balance goes below zero and an entry is added. *)
LEMMA ShortOK ==
    ASSUME NEW L, LedgerOK(L), NEW user \in Users, NEW asset \in Assets, NEW x \in Int,
           NEW M \in LedgerType, now \in Nat,
           L.assetBalances[user][asset] >= 0, x < 0,
           M.liabilities = L.liabilities,
           M.assetBalances = [L.assetBalances EXCEPT ![user] =
                                [L.assetBalances[user] EXCEPT ![asset] = x]]
    PROVE  LedgerOK(setLiability(M, user, asset, x))
           /\ NoNewBorrower(L, setLiability(M, user, asset, x), {user})
<1>. DEFINE bal == L.assetBalances[user]
            newBal == [bal EXCEPT ![asset] = x]
            entry == [asset |-> asset, timestamp |-> now, outstandingAmount |-> -x]
            list == Append(L.liabilities[user], entry)
            N == setLiability(M, user, asset, x)
<1>1. ListOK(bal, L.liabilities[user]) /\ L \in LedgerType
  BY DEF LedgerOK
<1>2. entry \in Liability /\ entry.asset = asset
  BY DEF Liability
<1>3. ListOK(newBal, list)
  <2>1. bal[asset] >= 0
    OBVIOUS
  <2>. HIDE DEF bal, entry
  <2>. QED BY <1>1, <1>2, <2>1, PushOK
<1>4. list \in Seq(Liability)
  BY <1>3 DEF ListOK
<1>5. N = [M EXCEPT !.liabilities[user] = list]
  BY DEF setLiability
<1>6. /\ N \in LedgerType
      /\ N.assetBalances = M.assetBalances
      /\ N.liabilities = [M.liabilities EXCEPT ![user] = list]
  <2>. HIDE DEF N, list
  <2>. QED BY <1>4, <1>5, SetListFields
<1>7. Updates(L, N, user, newBal, list)
  <2>. HIDE DEF N, list
  <2>. QED BY <1>6 DEF Updates
<1>. HIDE DEF newBal, list, N
<1>8. LedgerOK(N) /\ NoNewBorrower(L, N, {user})
  BY <1>3, <1>7, UpdatesOK
<1>. QED BY <1>8 DEF N

(* The four ways to change a balance: what one of them does is not obscured by
   the others. *)
LEMMA UpdateBalanceCases ==
    ASSUME NEW L, NEW user, NEW asset, NEW amount \in Int, L.assetBalances[user][asset] \in Int
    PROVE  LET before == L.assetBalances[user][asset]
               after == before + amount
               short == before >= 0 /\ after < 0
               updated == AddBalance(L, user, asset, amount)
               checked == Require(L, asset = ETH \/ FitsInt112(DecimalToBaseUnit(asset, -after)))
               result == _updateBalance(L, user, asset, amount)
           IN /\ amount > 0 /\ before < 0 =>
                    result = [ledger |-> coverLiability(updated, user, asset, amount, after),
                              fromWallet |-> FALSE]
              /\ short /\ CanPull(L, user, asset, -after) =>
                    result = [ledger |-> AddBalance(_tryDeposit(checked, user, asset, -after),
                                                    user, asset, -before),
                              fromWallet |-> before = 0]
              /\ short /\ ~CanPull(L, user, asset, -after) =>
                    result = [ledger |-> setLiability(AddBalance(checked, user, asset, amount),
                                                      user, asset, after),
                              fromWallet |-> FALSE]
              /\ ~short /\ ~(amount > 0 /\ before < 0) =>
                    result = [ledger |-> updated, fromWallet |-> FALSE]
<1>. DEFINE before == L.assetBalances[user][asset]
            after == before + amount
            short == before >= 0 /\ after < 0
            updated == AddBalance(L, user, asset, amount)
            checked == Require(L, asset = ETH \/ FitsInt112(DecimalToBaseUnit(asset, -after)))
            pays == amount > 0 /\ before < 0
            pulls == short /\ CanPull(L, user, asset, -after)
            borrows == short /\ ~CanPull(L, user, asset, -after)
            covered == [ledger |-> coverLiability(updated, user, asset, amount, after),
                        fromWallet |-> FALSE]
            pulled == [ledger |-> AddBalance(_tryDeposit(checked, user, asset, -after),
                                             user, asset, -before),
                       fromWallet |-> before = 0]
            borrowed == [ledger |-> setLiability(AddBalance(checked, user, asset, amount),
                                                 user, asset, after),
                         fromWallet |-> FALSE]
            added == [ledger |-> updated, fromWallet |-> FALSE]
            result == _updateBalance(L, user, asset, amount)
<1>1. result = CASE pays -> covered [] pulls -> pulled [] borrows -> borrowed
                 [] ~short /\ ~pays -> added
  BY DEF _updateBalance
<1>2. /\ ~(pays /\ short) /\ (pulls => short) /\ (borrows => short)
      /\ ~(pulls /\ borrows)
  OBVIOUS
<1>. HIDE DEF result, covered, pulled, borrowed, added, short, pays, pulls, borrows
<1>3. pays => result = covered
  BY <1>1, <1>2
<1>4. pulls => result = pulled
  BY <1>1, <1>2
<1>5. borrows => result = borrowed
  BY <1>1, <1>2
<1>6. ~short /\ ~pays => result = added
  BY <1>1, <1>2
<1>. QED BY <1>3, <1>4, <1>5, <1>6
     DEF result, covered, pulled, borrowed, added, short, pays, pulls, borrows

(* _updateBalance keeps the ledger right, and a credit makes no borrower. *)
LEMMA UpdateBalanceOK ==
    ASSUME NEW L, LedgerOK(L), NEW user \in Users, NEW asset \in Assets, NEW amount \in Int,
           now \in Nat
    PROVE  /\ LedgerOK(_updateBalance(L, user, asset, amount).ledger)
           /\ NoNewBorrower(L, _updateBalance(L, user, asset, amount).ledger, {user})
           /\ amount >= 0 =>
                 NoNewBorrower(L, _updateBalance(L, user, asset, amount).ledger, {})
<1>. DEFINE before == L.assetBalances[user][asset]
            after == before + amount
            short == before >= 0 /\ after < 0
            updated == AddBalance(L, user, asset, amount)
            checked == Require(L, asset = ETH \/ FitsInt112(DecimalToBaseUnit(asset, -after)))
            result == _updateBalance(L, user, asset, amount)
            M == result.ledger
<1>1. L \in LedgerType /\ before \in Int /\ after \in Int
  BY DEF LedgerOK, LedgerType
<1>2. /\ checked \in LedgerType
      /\ checked.assetBalances = L.assetBalances
      /\ checked.liabilities = L.liabilities
  <2>1. (asset = ETH \/ FitsInt112(DecimalToBaseUnit(asset, -after))) \in BOOLEAN
    BY DEF FitsInt112
  <2>. QED BY <1>1, <2>1, RequireFields
<1>3. /\ updated \in LedgerType
      /\ updated.liabilities = L.liabilities
      /\ updated.assetBalances = [L.assetBalances EXCEPT ![user] =
                                    [L.assetBalances[user] EXCEPT ![asset] = after]]
  <2>1. L \in LedgerType
    BY <1>1
  <2>. QED BY <2>1, AddBalanceFields
<1>4. \A N : NoNewBorrower(L, N, {}) => NoNewBorrower(L, N, {user})
  BY DEF NoNewBorrower
<1>5. CASE amount > 0 /\ before < 0
  <2>1. result = [ledger |-> coverLiability(updated, user, asset, amount, after),
                  fromWallet |-> FALSE]
    BY <1>1, <1>5, UpdateBalanceCases
  <2>2. M = coverLiability(updated, user, asset, amount, after)
    BY <2>1
  <2>3. amount \in Nat
    BY <1>5
  <2>4. LedgerOK(M) /\ NoNewBorrower(L, M, {})
    <3>. HIDE DEF M, updated
    <3>. QED BY <1>3, <1>5, <2>2, <2>3, CoverOK
  <2>. QED BY <1>4, <2>4
<1>6. CASE short /\ CanPull(L, user, asset, -after)
  <2>. DEFINE pulled == _tryDeposit(checked, user, asset, -after)
              base == DecimalToBaseUnit(asset, -after)
  <2>1. result = [ledger |-> AddBalance(pulled, user, asset, -before),
                  fromWallet |-> before = 0]
    BY <1>1, <1>6, UpdateBalanceCases
  <2>2. M = AddBalance(pulled, user, asset, -before)
    BY <2>1
  <2>3. base \in Nat
    BY <1>1, <1>6, ConversionNat
  <2>4. CanReceive(checked, user, asset, base)
    BY <1>1, <1>6, RequireFields DEF CanPull, CanReceive, FitsInt112
  <2>5. /\ pulled \in LedgerType
        /\ pulled.assetBalances = L.assetBalances
        /\ pulled.liabilities = L.liabilities
    <3>1. pulled = Receive(checked, user, asset, base)
      BY DEF _tryDeposit
    <3>. HIDE DEF pulled, checked, base
    <3>. QED BY <1>2, <2>3, <2>4, <3>1, ReceiveFields
  <2>6. /\ M \in LedgerType
        /\ M.liabilities = L.liabilities
        /\ M.assetBalances = [L.assetBalances EXCEPT ![user] =
                                [L.assetBalances[user] EXCEPT ![asset] = 0]]
    <3>1. -before \in Int /\ before + (-before) = 0
      BY <1>1
    <3>. HIDE DEF pulled, M
    <3>. QED BY <2>2, <2>5, <3>1, AddBalanceFields
  <2>7. LedgerOK(M) /\ NoNewBorrower(L, M, {})
    <3>. HIDE DEF M
    <3>. QED BY <1>6, <2>6, SameListOK
  <2>. QED BY <1>4, <2>7
<1>7. CASE short /\ ~CanPull(L, user, asset, -after)
  <2>. DEFINE added == AddBalance(checked, user, asset, amount)
  <2>1. result = [ledger |-> setLiability(added, user, asset, after), fromWallet |-> FALSE]
    BY <1>1, <1>7, UpdateBalanceCases
  <2>2. M = setLiability(added, user, asset, after)
    BY <2>1
  <2>3. /\ added \in LedgerType
        /\ added.liabilities = L.liabilities
        /\ added.assetBalances = [L.assetBalances EXCEPT ![user] =
                                    [L.assetBalances[user] EXCEPT ![asset] = after]]
    <3>. HIDE DEF checked
    <3>. QED BY <1>2, AddBalanceFields
  <2>4. LedgerOK(M) /\ NoNewBorrower(L, M, {user})
    <3>. HIDE DEF M, added
    <3>. QED BY <1>1, <1>7, <2>2, <2>3, ShortOK
  <2>5. ~ (amount >= 0)
    BY <1>1, <1>7
  <2>. QED BY <2>4, <2>5
<1>8. CASE ~short /\ ~(amount > 0 /\ before < 0)
  <2>1. result = [ledger |-> updated, fromWallet |-> FALSE]
    BY <1>1, <1>8, UpdateBalanceCases
  <2>2. M = updated
    BY <2>1
  <2>3. \/ after < 0 /\ before < 0
        \/ after >= 0 /\ before >= 0
    BY <1>1, <1>8
  <2>4. LedgerOK(updated) /\ NoNewBorrower(L, updated, {})
    <3>1. after \in Int
      BY <1>1
    <3>. HIDE DEF updated, after
    <3>. QED BY <1>3, <2>3, <3>1, SameListOK
  <2>5. LedgerOK(M) /\ NoNewBorrower(L, M, {})
    <3>. HIDE DEF M, updated
    <3>. QED BY <2>2, <2>4
  <2>. QED BY <1>4, <2>5
<1>. QED BY <1>5, <1>6, <1>7, <1>8

-------------------------------------------------------------------------------
(* The operations that make up a fill and a deposit. *)

LEMMA DebitOK ==
    ASSUME NEW L, LedgerOK(L), NEW order \in OrderType, NEW isSeller \in BOOLEAN,
           NEW amountBase \in Nat, NEW amountQuote \in Nat, NEW fee \in Nat, now \in Nat
    PROVE  LET D == updateOrderBalanceDebit(L, order, isSeller, amountBase, amountQuote, fee)
           IN /\ LedgerOK(D.ledger)
              /\ NoNewBorrower(L, D.ledger, {order.senderAddress})
              /\ D.actualIn \in Int
<1>. DEFINE user == order.senderAddress
            assetOut == IF isSeller THEN order.baseAsset ELSE order.quoteAsset
            assetIn == IF isSeller THEN order.quoteAsset ELSE order.baseAsset
            amountOut == IF isSeller THEN amountBase ELSE amountQuote
            amountIn == IF isSeller THEN amountQuote ELSE amountBase
            feeOut == order.matcherFeeAsset = assetOut
            feeIn == ~feeOut /\ order.matcherFeeAsset = assetIn
            paid == IF feeOut \/ feeIn THEN [ledger |-> L, fromWallet |-> TRUE]
                    ELSE _updateBalance(L, user, order.matcherFeeAsset, -fee)
            debit == -amountOut - (IF feeOut THEN fee ELSE 0)
            debited == _updateBalance(paid.ledger, user, assetOut, debit)
            matched == _updateBalance(debited.ledger, order.matcherAddress,
                                      order.matcherFeeAsset, fee)
            D == updateOrderBalanceDebit(L, order, isSeller, amountBase, amountQuote, fee)
<1>1. /\ user \in Users /\ order.matcherAddress \in Users
      /\ order.matcherFeeAsset \in Assets /\ assetOut \in Assets
      /\ amountOut \in Nat /\ amountIn \in Nat /\ debit \in Int /\ -fee \in Int
      /\ fee \in Int /\ fee >= 0
  BY DEF OrderType
<1>2. D = IF amountBase = 0 THEN [ledger |-> L, fromWallet |-> FALSE, actualIn |-> 0]
          ELSE [ledger |-> matched.ledger,
                fromWallet |-> paid.fromWallet /\ debited.fromWallet,
                actualIn |-> amountIn - (IF feeIn THEN fee ELSE 0)]
  BY DEF updateOrderBalanceDebit
<1>. HIDE DEF user, assetOut, amountOut, amountIn, debit, D
<1>3. LedgerOK(paid.ledger) /\ NoNewBorrower(L, paid.ledger, {user})
  <2>1. CASE feeOut \/ feeIn
    BY <2>1 DEF NoNewBorrower
  <2>2. CASE ~ (feeOut \/ feeIn)
    <3>1. paid = _updateBalance(L, user, order.matcherFeeAsset, -fee)
      BY <2>2
    <3>. HIDE DEF paid
    <3>. QED BY <1>1, <3>1, UpdateBalanceOK
  <2>. QED BY <2>1, <2>2
<1>. HIDE DEF paid
<1>4. LedgerOK(debited.ledger) /\ NoNewBorrower(paid.ledger, debited.ledger, {user})
  BY <1>1, <1>3, UpdateBalanceOK
<1>. HIDE DEF debited
<1>5. LedgerOK(matched.ledger) /\ NoNewBorrower(debited.ledger, matched.ledger, {})
  BY <1>1, <1>4, UpdateBalanceOK
<1>. HIDE DEF matched
<1>6. NoNewBorrower(L, matched.ledger, {user})
  BY <1>3, <1>4, <1>5 DEF NoNewBorrower
<1>7. amountIn - (IF feeIn THEN fee ELSE 0) \in Int
  BY <1>1
<1>8. /\ LedgerOK(D.ledger)
      /\ NoNewBorrower(L, D.ledger, {user})
      /\ D.actualIn \in Int
  <2>1. CASE amountBase = 0
    BY <1>2, <2>1 DEF NoNewBorrower
  <2>2. CASE amountBase # 0
    <3>1. D.ledger = matched.ledger /\ D.actualIn = amountIn - (IF feeIn THEN fee ELSE 0)
      BY <1>2, <2>2
    <3>. QED BY <1>5, <1>6, <1>7, <3>1
  <2>. QED BY <2>1, <2>2
<1>. QED BY <1>8 DEF D, user

LEMMA CreditOK ==
    ASSUME NEW L, LedgerOK(L), NEW fromWallet, NEW user \in Users,
           NEW amount \in Int, NEW asset \in Assets, now \in Nat
    PROVE  /\ LedgerOK(creditUserAssets(L, fromWallet, user, amount, asset))
           /\ NoNewBorrower(L, creditUserAssets(L, fromWallet, user, amount, asset), {user})
<1>. DEFINE before == L.assetBalances[user][asset]
            remaining == amount + before
            base == DecimalToBaseUnit(asset, remaining)
            toWallet == fromWallet /\ remaining > 0 /\ before <= 0
            checked == Require(L, toWallet => FitsInt112(base))
            sent == toWallet /\ L.held[asset] >= base
            toUpdate == IF sent THEN -before ELSE amount
            paid == IF sent THEN Send(checked, user, asset, base) ELSE checked
            M == creditUserAssets(L, fromWallet, user, amount, asset)
<1>1. L \in LedgerType /\ before \in Int /\ toUpdate \in Int
  BY DEF LedgerOK, LedgerType
<1>2. /\ checked \in LedgerType
      /\ checked.assetBalances = L.assetBalances
      /\ checked.liabilities = L.liabilities
      /\ checked.held = L.held
  <2>1. (toWallet => FitsInt112(base)) \in BOOLEAN
    OBVIOUS
  <2>. QED BY <1>1, <2>1, RequireFields
<1>3. /\ paid \in LedgerType
      /\ paid.assetBalances = L.assetBalances
      /\ paid.liabilities = L.liabilities
  <2>1. CASE sent
    <3>1. base \in Nat
      BY <1>1, <2>1, ConversionNat
    <3>2. paid = Send(checked, user, asset, base) /\ checked.held[asset] >= base
      BY <1>2, <2>1
    <3>. HIDE DEF checked, paid, base
    <3>. QED BY <1>2, <3>1, <3>2, SendFields
  <2>2. CASE ~sent
    BY <1>2, <2>2
  <2>. QED BY <2>1, <2>2
<1>4. M = IF toUpdate = 0 THEN paid ELSE _updateBalance(paid, user, asset, toUpdate).ledger
  BY DEF creditUserAssets
<1>. HIDE DEF paid, toUpdate, M
<1>5. LedgerOK(paid) /\ NoNewBorrower(L, paid, {user})
  BY <1>3 DEF LedgerOK, NoNewBorrower
<1>6. LedgerOK(M) /\ NoNewBorrower(L, M, {user})
  <2>1. CASE toUpdate = 0
    BY <1>4, <1>5, <2>1
  <2>2. CASE toUpdate # 0
    <3>1. M = _updateBalance(paid, user, asset, toUpdate).ledger
      BY <1>4, <2>2
    <3>2. LedgerOK(M) /\ NoNewBorrower(paid, M, {user})
      BY <1>1, <1>5, <3>1, UpdateBalanceOK
    <3>. QED BY <1>5, <3>2 DEF NoNewBorrower
  <2>. QED BY <2>1, <2>2
<1>. QED BY <1>6 DEF M

LEMMA GeneralDepositOK ==
    ASSUME NEW L, LedgerOK(L), NEW user \in Users, NEW asset \in Assets, NEW amount \in Nat,
           now \in Nat
    PROVE  /\ LedgerOK(generalDeposit(L, user, asset, amount))
           /\ NoNewBorrower(L, generalDeposit(L, user, asset, amount), {})
<1>. DEFINE before == L.assetBalances[user][asset]
            decimal == BaseUnitToDecimal(asset, amount)
            added == Require(AddBalance(L, user, asset, decimal), FitsInt112(decimal))
            after == before + decimal
            M == generalDeposit(L, user, asset, amount)
<1>1. L \in LedgerType /\ before \in Int /\ decimal \in Nat
  BY ConversionNat DEF LedgerOK, LedgerType
<1>. HIDE DEF decimal
<1>2. decimal \in Int /\ after \in Int /\ FitsInt112(decimal) \in BOOLEAN
  BY <1>1 DEF FitsInt112
<1>3. /\ added \in LedgerType
      /\ added.liabilities = L.liabilities
      /\ added.assetBalances = [L.assetBalances EXCEPT ![user] =
                                  [L.assetBalances[user] EXCEPT ![asset] = after]]
  <2>. DEFINE plain == AddBalance(L, user, asset, decimal)
  <2>1. /\ plain \in LedgerType
        /\ plain.liabilities = L.liabilities
        /\ plain.assetBalances = [L.assetBalances EXCEPT ![user] =
                                    [L.assetBalances[user] EXCEPT ![asset] = after]]
    <3>. L \in LedgerType /\ decimal \in Int
      BY <1>1, <1>2
    <3>. QED BY AddBalanceFields
  <2>. HIDE DEF plain
  <2>2. /\ Require(plain, FitsInt112(decimal)) \in LedgerType
        /\ Require(plain, FitsInt112(decimal)).liabilities = plain.liabilities
        /\ Require(plain, FitsInt112(decimal)).assetBalances = plain.assetBalances
    BY <1>2, <2>1, RequireFields
  <2>. QED BY <2>1, <2>2 DEF plain
<1>4. added.assetBalances[user][asset] = after
  BY <1>1, <1>3 DEF LedgerType
<1>5. M = IF before < 0 THEN coverLiability(added, user, asset, decimal, after) ELSE added
  BY <1>4, Zenon DEF generalDeposit, decimal
<1>. HIDE DEF added, after, M
<1>6. LedgerOK(M) /\ NoNewBorrower(L, M, {})
  <2>1. CASE before < 0
    <3>1. M = coverLiability(added, user, asset, decimal, after)
      BY <1>5, <2>1
    <3>2. after = L.assetBalances[user][asset] + decimal
      BY DEF after
    <3>. QED BY <1>1, <1>3, <2>1, <3>1, <3>2, CoverOK
  <2>2. CASE before >= 0
    <3>1. M = added
      BY <1>1, <1>5, <2>2
    <3>2. after >= 0
      BY <1>1, <2>2 DEF after
    <3>3. LedgerOK(added) /\ NoNewBorrower(L, added, {})
      BY <1>2, <1>3, <2>2, <3>2, SameListOK
    <3>. QED BY <3>1, <3>3
  <2>. QED BY <1>1, <2>1, <2>2
<1>. QED BY <1>6 DEF M

(* The fee of a fill is a natural number. *)
LEMMA MatcherFeeNat ==
    ASSUME NEW order \in OrderType, order.amount > 0, NEW filledAmount \in Nat
    PROVE  MatcherFee(order, filledAmount) \in Nat
<1>1. order.matcherFee \in Nat /\ order.amount \in Nat \ {0}
  BY DEF OrderType
<1>2. order.matcherFee * filledAmount \in Nat
  BY <1>1, ProductNat
<1>. QED BY <1>1, <1>2, DivNat DEF MatcherFee

(* A fill keeps the ledger right and makes borrowers of its traders only. *)
LEMMA SettleOK ==
    ASSUME LedgerOK(Ledger), now \in Nat,
           NEW buy \in OrderType, NEW sell \in OrderType, buy.amount > 0, sell.amount > 0,
           NEW filledAmount \in Nat, NEW amountQuote \in Nat
    PROVE  /\ LedgerOK(Settle(buy, sell, filledAmount, amountQuote))
           /\ NoNewBorrower(Ledger, Settle(buy, sell, filledAmount, amountQuote),
                            {buy.senderAddress, sell.senderAddress})
<1>. DEFINE buyer == buy.senderAddress
            seller == sell.senderAddress
            buyFee == MatcherFee(buy, filledAmount)
            sellFee == MatcherFee(sell, filledAmount)
            bought == updateOrderBalanceDebit(Ledger, buy, FALSE, filledAmount,
                                              amountQuote, buyFee)
            sold == updateOrderBalanceDebit(bought.ledger, sell, TRUE, filledAmount,
                                            amountQuote, sellFee)
            buyerCredited == creditUserAssets(sold.ledger, bought.fromWallet, buyer,
                                              bought.actualIn, buy.baseAsset)
            M == creditUserAssets(buyerCredited, sold.fromWallet, seller,
                                  sold.actualIn, sell.quoteAsset)
<1>1. /\ buyer \in Users /\ seller \in Users
      /\ buy.baseAsset \in Assets /\ sell.quoteAsset \in Assets
  BY DEF OrderType
<1>2. buyFee \in Nat /\ sellFee \in Nat
  BY MatcherFeeNat
<1>. HIDE DEF buyer, seller, buyFee, sellFee
<1>3. /\ LedgerOK(bought.ledger) /\ bought.actualIn \in Int
      /\ NoNewBorrower(Ledger, bought.ledger, {buyer})
  BY <1>2, DebitOK DEF buyer
<1>. HIDE DEF bought
<1>4. /\ LedgerOK(sold.ledger) /\ sold.actualIn \in Int
      /\ NoNewBorrower(bought.ledger, sold.ledger, {seller})
  BY <1>2, <1>3, DebitOK DEF seller
<1>. HIDE DEF sold
<1>5. LedgerOK(buyerCredited) /\ NoNewBorrower(sold.ledger, buyerCredited, {buyer})
  BY <1>1, <1>3, <1>4, CreditOK
<1>. HIDE DEF buyerCredited
<1>6. LedgerOK(M) /\ NoNewBorrower(buyerCredited, M, {seller})
  BY <1>1, <1>4, <1>5, CreditOK
<1>7. M = Settle(buy, sell, filledAmount, amountQuote)
  BY Zenon DEF Settle, bought, sold, buyerCredited, buyer, seller, buyFee, sellFee
<1>. HIDE DEF M
<1>8. NoNewBorrower(Ledger, M, {buyer, seller})
  BY <1>3, <1>4, <1>5, <1>6 DEF NoNewBorrower
<1>. QED BY <1>6, <1>7, <1>8 DEF buyer, seller
===============================================================================
