------------------------- MODULE LedgerQueriesProofs -------------------------
(***************************************************************************)
(* Proofs about LedgerQueries, for any entries, sessions and periods: the  *)
(* statement of a period that is over can only change by what was under    *)
(* way when it was read, statements end at the balance, and paging by      *)
(* cursor loses nothing.  The library's sums are recursive; what is needed *)
(* of them is proved here by induction over finite sets.                   *)
(***************************************************************************)
EXTENDS LedgerQueries, LedgerProofs, FiniteSetTheorems, WellFoundedInduction

(* The entries of a transaction carry the time at which it started.          *)
PendingDates ==
  \A w \in Workers : \A e \in EntriesOf(pending[w]) : e.createdAt = startedAt[w]

(* Nobody at work has started, or will start, in the period of a statement    *)
(* that was read while nobody was; so its entries stay what they were.       *)
PeriodIsOver ==
  statement # None =>
    /\ statement.end \in Nat /\ statement.end <= Now
    /\ statement.open = {} =>
         /\ \A w \in Workers : phase[w] # "idle" => startedAt[w] >= statement.end
         /\ AccountStatement(Codes, 0, statement.end).closing = statement.closing

QueryInv == PendingDates /\ PeriodIsOver

(* Entries have the lines that a caller submitted, and no time to come.      *)
Submitted(e) == \E r \in Requests : e.key = r.key /\ e.lines = r.lines

EntriesStand ==
  /\ \A e \in EntriesOf(journal) : Submitted(e) /\ e.createdAt <= clock
  /\ \A w \in Workers :
       startedAt[w] <= clock /\ \A e \in EntriesOf(pending[w]) : Submitted(e)

(* The lines that post_entry() has still to apply to a.                      *)
Unapplied(w, a) ==
  {i \in DOMAIN Current(w).lines :
     phase[w] = "posting" /\ i >= nextLine[w] /\ Current(w).lines[i].account = a}

(* A copy that was read under the advisory lock is the committed balance and  *)
(* what w has posted since, but for a line that is still to come.            *)
CopyStands(w, a) ==
  /\ Unapplied(w, a) = {} => view[w][a] = balance[a] + Own(w, a)
  /\ \A i \in Unapplied(w, a) :
       view[w][a] + AccountDelta(Current(w).lines[i]) = balance[a] + Own(w, a)

ViewStands(w) ==
  /\ Touched(w) \subseteq loaded[w]
  /\ \A a \in loaded[w] \ ReadFirst : chainLock = w /\ CopyStands(w, a)

BalancesStand ==
  \A a \in Accounts :
    balance[a] = Postings(EntriesOf(journal), a) \/ a \in overwritten \cap ReadFirst

BalanceInv == EntriesStand /\ (\A w \in Workers : ViewStands(w)) /\ BalancesStand

-----------------------------------------------------------------------------
(* Finite sums.                                                              *)

(* Induction over the subsets of a finite set, for a set of good ones.       *)
LEMMA StrongInduction ==
  ASSUME NEW S, IsFiniteSet(S), NEW Good,
         \A T \in SUBSET S : (\A U \in SUBSET T : U # T => U \in Good) => T \in Good
  PROVE  \A T \in SUBSET S : T \in Good
<1> SUFFICES ASSUME \E T \in SUBSET S : T \notin Good PROVE FALSE
  OBVIOUS
<1> DEFINE Bad == {T \in SUBSET S : T \notin Good}
<1>1. IsWellFoundedOn(StrictSubsetOrdering(S), SUBSET S)
  <2>1. IsWellFoundedOn(StrictSubsetOrdering(S), FiniteSubsetsOf(S))
    BY FS_StrictSubsetOrderingWellFounded
  <2>2. FiniteSubsetsOf(S) = SUBSET S
    BY FS_FiniteSubsetsOfFinite
  <2>3. QED
    BY <2>1, <2>2
<1>2. Bad \subseteq SUBSET S /\ Bad # {}
  OBVIOUS
<1>3. PICK T \in Bad : \A U \in Bad : <<U, T>> \notin StrictSubsetOrdering(S)
  <2> HIDE DEF Bad
  <2>1. QED
    BY <1>1, <1>2, WFMin
<1>4. \A U \in SUBSET T : U # T => U \in Good
  BY <1>3 DEF StrictSubsetOrdering
<1>5. QED
  BY <1>3, <1>4

(* Induction by adding one element at a time.                                *)
LEMMA FiniteInduction ==
  ASSUME NEW S, IsFiniteSet(S), NEW Good, {} \in Good,
         \A T \in SUBSET S : T \in Good => \A x \in S \ T : T \cup {x} \in Good
  PROVE  S \in Good
<1>1. ASSUME NEW T \in SUBSET S, \A U \in SUBSET T : U # T => U \in Good
      PROVE  T \in Good
  <2>1. CASE T = {}
    BY <2>1
  <2>2. CASE T # {}
    <3>1. PICK x \in T : TRUE
      BY <2>2
    <3>2. T \ {x} \in Good /\ T = (T \ {x}) \cup {x}
      BY <1>1, <3>1
    <3>3. QED
      BY <3>1, <3>2
  <2>3. QED
    BY <2>1, <2>2
<1>2. \A T \in SUBSET S : T \in Good
  BY <1>1, StrongInduction
<1>3. QED
  BY <1>2

(* g sums f over the subsets of S, in any order.                             *)
Additive(g, f, S) ==
  /\ g \in [SUBSET S -> Int] /\ g[{}] = 0
  /\ \A T \in SUBSET S : \A x \in S \ T : g[T \cup {x}] = g[T] + f[x]

(* There is such a g, built up one element at a time.                        *)
LEMMA AdditiveExists ==
  ASSUME NEW S, IsFiniteSet(S), NEW f, \A x \in S : f[x] \in Int
  PROVE  \E g : Additive(g, f, S)
<1> DEFINE Good == {T \in SUBSET S : \E g : Additive(g, f, T)}
<1>1. {} \in Good
  <2>1. Additive([T \in {{}} |-> 0], f, {})
    BY DEF Additive
  <2>2. QED
    BY <2>1
<1>2. ASSUME NEW T \in SUBSET S, T \in Good, NEW y \in S \ T
      PROVE  T \cup {y} \in Good
  <2>1. PICK g : Additive(g, f, T)
    BY <1>2
  <2> DEFINE U == T \cup {y}
  <2> DEFINE h == [s \in SUBSET U |-> IF y \in s THEN g[s \ {y}] + f[y] ELSE g[s]]
  <2>2. h \in [SUBSET U -> Int] /\ h[{}] = 0
    BY <2>1 DEF Additive
  <2>3. ASSUME NEW V \in SUBSET U, NEW x \in U \ V
        PROVE  h[V \cup {x}] = h[V] + f[x]
    <3>1. CASE x = y
      <4>1. (V \cup {x}) \ {y} = V /\ V \in SUBSET T /\ y \notin V
        BY <2>3, <3>1
      <4>2. h[V \cup {x}] = g[V] + f[y]
        BY <3>1, <4>1
      <4>3. QED
        BY <3>1, <4>1, <4>2
    <3>2. CASE x # y /\ y \notin V
      BY <2>1, <2>3, <3>2 DEF Additive
    <3>3. CASE x # y /\ y \in V
      <4> DEFINE W == V \ {y}
      <4>1. (V \cup {x}) \ {y} = W \cup {x} /\ W \in SUBSET T /\ x \in T \ W
        BY <2>3, <3>3
      <4>2. g[W \cup {x}] = g[W] + f[x]
        BY <2>1, <4>1 DEF Additive
      <4>3. h[V \cup {x}] = g[W \cup {x}] + f[y] /\ h[V] = g[W] + f[y]
        BY <3>3, <4>1
      <4>4. g[W] \in Int /\ f[x] \in Int /\ f[y] \in Int
        BY <2>1, <4>1, <1>2 DEF Additive
      <4>5. QED
        BY <4>2, <4>3, <4>4
    <3>4. QED
      BY <3>1, <3>2, <3>3
  <2>4. Additive(h, f, U)
    BY <2>2, <2>3 DEF Additive
  <2>5. QED
    <3> HIDE DEF h
    <3>1. QED
      BY <2>4
<1>3. S \in Good
  <2> HIDE DEF Good
  <2>1. QED
    BY <1>1, <1>2, FiniteInduction
<1>4. QED
  BY <1>3

(* The recursion of MapThenFoldSet takes the elements in the order of CHOOSE. *)
SumOver(f, S) == MapThenSumSet(LAMBDA x : f[x], S)

Recursion(g, f, S) ==
  g = [s \in SUBSET S |-> IF s = {} THEN 0
                          ELSE f[CHOOSE x \in s : TRUE] + g[s \ {CHOOSE x \in s : TRUE}]]

(* It has one solution, which adds up in any order.                          *)
LEMMA RecursionIsAdditive ==
  ASSUME NEW S, IsFiniteSet(S), NEW f, \A x \in S : f[x] \in Int, NEW g, NEW h, Additive(h, f, S)
  PROVE  Recursion(g, f, S) <=> g = h
<1> DEFINE c(s) == CHOOSE x \in s : TRUE
<1>0. \A s : s # {} => c(s) \in s
  OBVIOUS
<1>1. ASSUME NEW s \in SUBSET S, s # {} PROVE h[s] = f[c(s)] + h[s \ {c(s)}]
  <2>1. PICK x : x = c(s)
    OBVIOUS
  <2>2. x \in s
    BY <1>0, <1>1, <2>1
  <2>3. s \ {x} \in SUBSET S /\ x \in S \ (s \ {x}) /\ (s \ {x}) \cup {x} = s
    BY <2>2
  <2>4. h[s] = h[s \ {x}] + f[x] /\ h[s \ {x}] \in Int /\ f[x] \in Int
    BY <2>3 DEF Additive
  <2>5. QED
    BY <2>1, <2>4
<1>2. Recursion(h, f, S)
  <2>1. h = [s \in SUBSET S |-> h[s]] /\ h[{}] = 0
    BY DEF Additive
  <2>2. \A s \in SUBSET S : h[s] = IF s = {} THEN 0 ELSE f[c(s)] + h[s \ {c(s)}]
    BY <1>1, <2>1
  <2>3. QED
    BY <2>1, <2>2 DEF Recursion
<1>3. ASSUME Recursion(g, f, S) PROVE g = h
  <2>1. /\ g = [s \in SUBSET S |-> g[s]]
        /\ \A s \in SUBSET S : g[s] = IF s = {} THEN 0 ELSE f[c(s)] + g[s \ {c(s)}]
    BY <1>3 DEF Recursion
  <2> DEFINE Good == {s \in SUBSET S : g[s] = h[s]}
  <2>2. ASSUME NEW s \in SUBSET S, \A u \in SUBSET s : u # s => u \in Good
        PROVE  s \in Good
    <3>1. CASE s = {}
      BY <2>1, <3>1 DEF Additive
    <3>2. CASE s # {}
      <4>1. PICK x : x = c(s)
        OBVIOUS
      <4>2. x \in s
        BY <1>0, <3>2, <4>1
      <4>3. g[s \ {x}] = h[s \ {x}]
        BY <2>2, <4>2
      <4>4. g[s] = f[x] + g[s \ {x}]
        BY <2>1, <3>2, <4>1
      <4>5. h[s] = f[x] + h[s \ {x}]
        BY <1>1, <3>2, <4>1
      <4>6. QED
        BY <4>3, <4>4, <4>5
    <3>3. QED
      BY <3>1, <3>2
  <2>3. \A s \in SUBSET S : s \in Good
    <3> HIDE DEF Good
    <3>1. QED
      BY <2>2, StrongInduction
  <2>4. \A s \in SUBSET S : g[s] = h[s]
    BY <2>3
  <2>5. h = [s \in SUBSET S |-> h[s]]
    BY DEF Additive
  <2>6. QED
    BY <2>1, <2>4, <2>5
<1>4. QED
  BY <1>2, <1>3

(* SumOver is such a g.                                                      *)
LEMMA SumIsAdditive ==
  ASSUME NEW S, IsFiniteSet(S), NEW f, \A x \in S : f[x] \in Int, NEW h, Additive(h, f, S)
  PROVE  SumOver(f, S) = h[S]
<1> DEFINE g == CHOOSE g : Recursion(g, f, S)
<1>1. SumOver(f, S) = g[S]
  BY DEF SumOver, MapThenSumSet, MapThenFoldSet, Recursion
<1>2. Recursion(h, f, S)
  BY RecursionIsAdditive
<1>3. Recursion(g, f, S)
  BY <1>2
<1>4. g = h
  BY <1>3, RecursionIsAdditive
<1>5. QED
  BY <1>1, <1>4

(* It sums a subset of the set it was made for just as well.                 *)
LEMMA SumOfSubset ==
  ASSUME NEW S, IsFiniteSet(S), NEW f, \A x \in S : f[x] \in Int, NEW h, Additive(h, f, S),
         NEW T \in SUBSET S
  PROVE  SumOver(f, T) = h[T]
<1> DEFINE g == [s \in SUBSET T |-> h[s]]
<1>1. Additive(g, f, T)
  BY DEF Additive
<1>2. IsFiniteSet(T) /\ \A x \in T : f[x] \in Int
  BY FS_Subset
<1>3. SumOver(f, T) = g[T]
  <2> HIDE DEF g
  <2>1. QED
    BY <1>1, <1>2, SumIsAdditive
<1>4. QED
  BY <1>3

(* Sums of disjoint sets add up.                                            *)
LEMMA SumOfUnion ==
  ASSUME NEW S, IsFiniteSet(S), NEW T, IsFiniteSet(T), S \cap T = {},
         NEW f, \A x \in S \cup T : f[x] \in Int
  PROVE  SumOver(f, S \cup T) = SumOver(f, S) + SumOver(f, T)
<1>1. IsFiniteSet(S \cup T)
  BY FS_Union
<1>2. PICK h : Additive(h, f, S \cup T)
  BY <1>1, AdditiveExists
<1> DEFINE Good == {U \in SUBSET T : h[S \cup U] = h[S] + h[U]}
<1>3. {} \in Good
  <2>1. S \cup {} = S /\ h[S] \in Int /\ h[{}] = 0
    BY <1>2 DEF Additive
  <2>2. QED
    BY <2>1
<1>4. ASSUME NEW U \in SUBSET T, U \in Good, NEW x \in T \ U
      PROVE  U \cup {x} \in Good
  <2>1. /\ U \in SUBSET (S \cup T) /\ S \cup U \in SUBSET (S \cup T) /\ S \in SUBSET (S \cup T)
        /\ x \in (S \cup T) \ U /\ x \in (S \cup T) \ (S \cup U)
    OBVIOUS
  <2>2. h[U \cup {x}] = h[U] + f[x] /\ h[(S \cup U) \cup {x}] = h[S \cup U] + f[x]
    BY <1>2, <2>1 DEF Additive
  <2>3. h[U] \in Int /\ h[S] \in Int /\ f[x] \in Int
    BY <1>2, <2>1 DEF Additive
  <2>4. S \cup (U \cup {x}) = (S \cup U) \cup {x}
    OBVIOUS
  <2>5. h[S \cup U] = h[S] + h[U] /\ U \cup {x} \in SUBSET T
    BY <1>4
  <2>6. h[S \cup (U \cup {x})] = h[S] + h[U \cup {x}]
    <3> HIDE DEF Good
    <3>1. h[S \cup (U \cup {x})] = h[S \cup U] + f[x]
      BY <2>2, <2>4
    <3>2. \A k, l, m, n, o \in Int : k = l + m /\ l = n + o => k = n + (o + m)
      OBVIOUS
    <3>3. h[S \cup U] \in Int /\ h[S \cup (U \cup {x})] \in Int
      BY <2>3, <2>5, <3>1
    <3>4. QED
      BY <2>2, <2>3, <2>5, <3>1, <3>2, <3>3
  <2>7. QED
    BY <2>5, <2>6
<1>5. T \in Good
  <2> HIDE DEF Good
  <2>1. QED
    BY <1>3, <1>4, FiniteInduction
<1>6. /\ SumOver(f, S \cup T) = h[S \cup T]
      /\ SumOver(f, S) = h[S] /\ SumOver(f, T) = h[T]
  BY <1>1, <1>2, SumOfSubset
<1>7. QED
  BY <1>5, <1>6

(* Sums of nothing, of one element, and of what is equal or zero.            *)
LEMMA SumOfNone == ASSUME NEW f PROVE SumOver(f, {}) = 0
<1>1. IsFiniteSet({}) /\ \A x \in {} : f[x] \in Int
  BY FS_EmptySet
<1>2. PICK h : Additive(h, f, {})
  BY <1>1, AdditiveExists
<1>3. QED
  BY <1>1, <1>2, SumIsAdditive DEF Additive

LEMMA SumOfOne == ASSUME NEW f, NEW x, f[x] \in Int PROVE SumOver(f, {x}) = f[x]
<1>1. IsFiniteSet({x}) /\ \A y \in {x} : f[y] \in Int
  BY FS_Singleton
<1>2. PICK h : Additive(h, f, {x})
  BY <1>1, AdditiveExists
<1>3. h[{} \cup {x}] = h[{}] + f[x] /\ h[{}] = 0 /\ {} \cup {x} = {x}
  BY <1>2 DEF Additive
<1>4. QED
  BY <1>1, <1>2, <1>3, SumIsAdditive

LEMMA SameSum ==
  ASSUME NEW S, IsFiniteSet(S), NEW f, NEW g, \A x \in S : f[x] \in Int /\ f[x] = g[x]
  PROVE  SumOver(f, S) = SumOver(g, S)
<1>1. PICK h : Additive(h, f, S)
  BY AdditiveExists
<1>2. Additive(h, g, S)
  BY <1>1 DEF Additive
<1>3. \A x \in S : f[x] \in Int /\ g[x] \in Int
  OBVIOUS
<1>4. SumOver(f, S) = h[S] /\ SumOver(g, S) = h[S]
  BY <1>1, <1>2, <1>3, SumIsAdditive
<1>5. QED
  BY <1>4

(* A sum of integers is an integer.                                          *)
LEMMA SumType ==
  ASSUME NEW S, IsFiniteSet(S), NEW f, \A x \in S : f[x] \in Int
  PROVE  SumOver(f, S) \in Int
<1>1. PICK h : Additive(h, f, S)
  BY AdditiveExists
<1>2. SumOver(f, S) = h[S]
  BY <1>1, SumIsAdditive
<1>3. S \in SUBSET S
  OBVIOUS
<1>4. QED
  BY <1>1, <1>2, <1>3 DEF Additive

LEMMA SumOfZeros ==
  ASSUME NEW S, IsFiniteSet(S), NEW f, \A x \in S : f[x] = 0
  PROVE  SumOver(f, S) = 0
<1> DEFINE h == [T \in SUBSET S |-> 0]
<1>1. Additive(h, f, S)
  BY DEF Additive
<1>2. \A x \in S : f[x] \in Int
  OBVIOUS
<1>3. SumOver(f, S) = h[S]
  <2> HIDE DEF h
  <2>1. QED
    BY <1>1, <1>2, SumIsAdditive
<1>4. QED
  BY <1>3

(* What solves the recursion gives the sum.                                  *)
LEMMA RecursionIsSum ==
  ASSUME NEW S, IsFiniteSet(S), NEW f, \A x \in S : f[x] \in Int
  PROVE  /\ \E g : Recursion(g, f, S)
         /\ \A g : Recursion(g, f, S) => g[S] = SumOver(f, S)
<1>1. PICK h : Additive(h, f, S)
  BY AdditiveExists
<1>2. \A g : Recursion(g, f, S) <=> g = h
  BY <1>1, RecursionIsAdditive
<1>3. SumOver(f, S) = h[S]
  BY <1>1, SumIsAdditive
<1>4. QED
  BY <1>2, <1>3

-----------------------------------------------------------------------------
(* The sums of LedgerQueries.                                                *)

(* Sum and Postings unfold to the recursion, so they are finite sums.        *)
LEMMA SumOfRows ==
  ASSUME NEW S, IsFiniteSet(S), \A p \in S : p.delta \in Int
  PROVE  Sum(S) = SumOver([p \in S |-> p.delta], S)
<1> DEFINE f == [p \in S |-> p.delta]
           Solves(g) == g = [s \in SUBSET S |->
                               IF s = {} THEN 0
                               ELSE (CHOOSE x \in s : TRUE).delta + g[s \ {CHOOSE x \in s : TRUE}]]
<1>1. Sum(S) = (CHOOSE g : Solves(g))[S]
  BY DEF Sum, MapThenSumSet, MapThenFoldSet
<1>2. \A g : Solves(g) <=> Recursion(g, f, S)
  <2>1. \A s \in SUBSET S : s # {} => f[CHOOSE x \in s : TRUE] = (CHOOSE x \in s : TRUE).delta
    OBVIOUS
  <2>2. QED
    BY <2>1 DEF Recursion
<1>3. \A x \in S : f[x] \in Int
  OBVIOUS
<1> HIDE DEF f, Solves
<1>4. \E g : Solves(g)
  BY <1>2, <1>3, RecursionIsSum
<1>5. Solves(CHOOSE g : Solves(g))
  BY <1>4
<1>6. QED
  BY <1>1, <1>2, <1>3, <1>5, RecursionIsSum DEF f

LEMMA SumOfPostings ==
  ASSUME NEW S, IsFiniteSet(S), NEW a, \A e \in S : Posted(e, a) \in Int
  PROVE  Postings(S, a) = SumOver([e \in S |-> Posted(e, a)], S)
<1> DEFINE f == [e \in S |-> Posted(e, a)]
           Solves(g) == g = [s \in SUBSET S |->
                               IF s = {} THEN 0
                               ELSE Posted(CHOOSE x \in s : TRUE, a) + g[s \ {CHOOSE x \in s : TRUE}]]
<1>1. Postings(S, a) = (CHOOSE g : Solves(g))[S]
  BY DEF Postings, MapThenSumSet, MapThenFoldSet
<1>2. \A g : Solves(g) <=> Recursion(g, f, S)
  <2>1. \A s \in SUBSET S : s # {} =>
          f[CHOOSE x \in s : TRUE] = Posted(CHOOSE x \in s : TRUE, a)
    OBVIOUS
  <2>2. QED
    BY <2>1 DEF Recursion
<1>3. \A x \in S : f[x] \in Int
  OBVIOUS
<1> HIDE DEF f, Solves
<1>4. \E g : Solves(g)
  BY <1>2, <1>3, RecursionIsSum
<1>5. Solves(CHOOSE g : Solves(g))
  BY <1>4
<1>6. QED
  BY <1>1, <1>2, <1>3, <1>5, RecursionIsSum DEF f

(* An entry posts at most one line to an account.                            *)
LEMMA PostedLine ==
  ASSUME NEW e, Submitted(e), NEW a
  PROVE  /\ Posted(e, a) \in Int
         /\ (\A i \in DOMAIN e.lines : e.lines[i].account # a) => Posted(e, a) = 0
         /\ \A i \in DOMAIN e.lines :
              e.lines[i].account = a => Posted(e, a) = AccountDelta(e.lines[i])
<1> DEFINE S == {i \in DOMAIN e.lines : e.lines[i].account = a}
           f == [i \in S |-> AccountDelta(e.lines[i])]
           Solves(g) == g = [s \in SUBSET S |->
                               IF s = {} THEN 0
                               ELSE AccountDelta(e.lines[CHOOSE x \in s : TRUE])
                                      + g[s \ {CHOOSE x \in s : TRUE}]]
<1>1. /\ e.lines \in Seq(Line)
      /\ \A i, j \in DOMAIN e.lines : e.lines[i].account = e.lines[j].account => i = j
  BY RequestAssumption DEF Submitted, Request
<1>2. /\ IsFiniteSet(S)
      /\ \A i \in S : S = {i}
      /\ \A x \in S : f[x] \in Int /\ f[x] = AccountDelta(e.lines[x])
  <2>1. \A i \in S : S = {i}
    BY <1>1
  <2>2. IsFiniteSet(S)
    <3> HIDE DEF S
    <3>1. S = {} \/ \E i : S = {i}
      BY <2>1
    <3>2. QED
      BY <3>1, FS_EmptySet, FS_Singleton
  <2>3. \A i \in DOMAIN e.lines : AccountDelta(e.lines[i]) \in Int
    <3>1. \A i \in DOMAIN e.lines : e.lines[i] \in Line
      BY <1>1
    <3>2. \A line \in Line : AccountDelta(line) \in Int
      BY DEF AccountDelta, Line
    <3>3. QED
      BY <3>1, <3>2
  <2>4. QED
    BY <2>1, <2>2, <2>3
<1>3. Posted(e, a) = (CHOOSE g : Solves(g))[S]
  BY DEF Posted, MapThenSumSet, MapThenFoldSet
<1>4. \A g : Solves(g) <=> Recursion(g, f, S)
  <2>1. \A s \in SUBSET S : s # {} =>
          f[CHOOSE x \in s : TRUE] = AccountDelta(e.lines[CHOOSE x \in s : TRUE])
    OBVIOUS
  <2>2. QED
    BY <2>1 DEF Recursion
<1>5. Posted(e, a) = SumOver(f, S)
  <2> HIDE DEF f, S, Solves
  <2>1. \E g : Solves(g)
    BY <1>2, <1>4, RecursionIsSum
  <2>2. Solves(CHOOSE g : Solves(g))
    BY <2>1
  <2>3. QED
    BY <1>2, <1>3, <1>4, <2>2, RecursionIsSum
<1>6. Posted(e, a) \in Int
  <2> HIDE DEF f, S
  <2>1. QED
    BY <1>2, <1>5, SumType
<1>7. S = {} => Posted(e, a) = 0
  BY <1>5, SumOfNone
<1>8. ASSUME NEW i \in S PROVE Posted(e, a) = AccountDelta(e.lines[i])
  <2> HIDE DEF f, S
  <2>1. S = {i} /\ f[i] \in Int /\ f[i] = AccountDelta(e.lines[i])
    BY <1>2, <1>8
  <2>2. QED
    BY <1>5, <2>1, SumOfOne
<1>9. QED
  BY <1>6, <1>7, <1>8

(* The postings of two sets of entries add up; entries without a line for an  *)
(* account add nothing to it.                                                *)
LEMMA PostingsOfUnion ==
  ASSUME NEW a, NEW S, IsFiniteSet(S), \A e \in S : Posted(e, a) \in Int,
         NEW T, IsFiniteSet(T), \A e \in T : Posted(e, a) \in Int, S \cap T = {}
  PROVE  /\ Postings(S \cup T, a) = Postings(S, a) + Postings(T, a)
         /\ Postings(S, a) \in Int /\ Postings(T, a) \in Int
<1> DEFINE f == [e \in S \cup T |-> Posted(e, a)]
           fS == [e \in S |-> Posted(e, a)]
           fT == [e \in T |-> Posted(e, a)]
<1>1. /\ \A e \in S \cup T : f[e] \in Int
      /\ \A e \in S : fS[e] \in Int /\ fS[e] = f[e]
      /\ \A e \in T : fT[e] \in Int /\ fT[e] = f[e]
  OBVIOUS
<1>2. IsFiniteSet(S \cup T)
  BY FS_Union
<1>3. /\ Postings(S \cup T, a) = SumOver(f, S \cup T)
      /\ Postings(S, a) = SumOver(fS, S)
      /\ Postings(T, a) = SumOver(fT, T)
  BY <1>2, SumOfPostings
<1> HIDE DEF f, fS, fT
<1>4. SumOver(fS, S) = SumOver(f, S) /\ SumOver(fT, T) = SumOver(f, T)
  BY <1>1, SameSum
<1>5. SumOver(f, S \cup T) = SumOver(f, S) + SumOver(f, T)
  BY <1>1, SumOfUnion
<1>6. SumOver(fS, S) \in Int /\ SumOver(fT, T) \in Int
  BY <1>1, SumType
<1>7. QED
  BY <1>3, <1>4, <1>5, <1>6

(* Sets that post nothing, and sets of one entry.                            *)
LEMMA PostingsOfNone ==
  ASSUME NEW S, IsFiniteSet(S), NEW a, \A e \in S : Posted(e, a) = 0
  PROVE  Postings(S, a) = 0
<1> DEFINE f == [e \in S |-> Posted(e, a)]
<1>1. Postings(S, a) = SumOver(f, S) /\ \A e \in S : f[e] = 0
  BY SumOfPostings
<1> HIDE DEF f
<1>2. QED
  BY <1>1, SumOfZeros

LEMMA PostingsOfOne ==
  ASSUME NEW e, NEW a, Posted(e, a) \in Int
  PROVE  Postings({e}, a) = Posted(e, a)
<1> DEFINE f == [x \in {e} |-> Posted(x, a)]
<1>1. Postings({e}, a) = SumOver(f, {e}) /\ f[e] = Posted(e, a)
  BY SumOfPostings, FS_Singleton
<1> HIDE DEF f
<1>2. QED
  BY <1>1, SumOfOne

(* The rows of an entry, and those that a set of entries has for an account.  *)
EntryRows(e, codes) ==
  {[id |-> PostingId[e.key][j], createdAt |-> e.createdAt, delta |-> AccountDelta(e.lines[j])] :
     j \in {j \in DOMAIN e.lines : e.lines[j].account \in codes}}

RowsOf(entries, a) == UNION {EntryRows(e, {a}) : e \in entries}

(* The rows of disjoint sets add up.                                         *)
LEMMA SumOfTwoSets ==
  ASSUME NEW S, IsFiniteSet(S), NEW T, IsFiniteSet(T), S \cap T = {},
         \A p \in S \cup T : p.delta \in Int
  PROVE  Sum(S \cup T) = Sum(S) + Sum(T) /\ Sum(S) \in Int /\ Sum(T) \in Int
<1> DEFINE f == [p \in S \cup T |-> p.delta]
           fS == [p \in S |-> p.delta]
           fT == [p \in T |-> p.delta]
<1>1. /\ \A p \in S \cup T : f[p] \in Int
      /\ \A p \in S : fS[p] \in Int /\ fS[p] = f[p]
      /\ \A p \in T : fT[p] \in Int /\ fT[p] = f[p]
  OBVIOUS
<1>2. IsFiniteSet(S \cup T)
  BY FS_Union
<1>3. /\ Sum(S \cup T) = SumOver(f, S \cup T)
      /\ Sum(S) = SumOver(fS, S)
      /\ Sum(T) = SumOver(fT, T)
  BY <1>2, SumOfRows
<1> HIDE DEF f, fS, fT
<1>4. SumOver(fS, S) = SumOver(f, S) /\ SumOver(fT, T) = SumOver(f, T)
  BY <1>1, SameSum
<1>5. SumOver(f, S \cup T) = SumOver(f, S) + SumOver(f, T)
  BY <1>1, SumOfUnion
<1>6. SumOver(fS, S) \in Int /\ SumOver(fT, T) \in Int
  BY <1>1, SumType
<1>7. QED
  BY <1>3, <1>4, <1>5, <1>6

(* One entry has one row for an account, or none, with what it posts to it.   *)
LEMMA RowsOfEntry ==
  ASSUME NEW e, Submitted(e), NEW a
  PROVE  /\ IsFiniteSet(EntryRows(e, {a}))
         /\ \A p \in EntryRows(e, {a}) : p.delta \in Int
         /\ Sum(EntryRows(e, {a})) = Posted(e, a)
<1>1. /\ e.lines \in Seq(Line)
      /\ \A i, j \in DOMAIN e.lines : e.lines[i].account = e.lines[j].account => i = j
  BY RequestAssumption DEF Submitted, Request
<1>2. CASE \A i \in DOMAIN e.lines : e.lines[i].account # a
  <2>1. EntryRows(e, {a}) = {} /\ Posted(e, a) = 0
    BY <1>2, PostedLine DEF EntryRows
  <2>2. IsFiniteSet({}) /\ Sum({}) = SumOver([p \in {} |-> p.delta], {})
    BY FS_EmptySet, SumOfRows
  <2>3. QED
    BY <2>1, <2>2, SumOfNone
<1>3. ASSUME NEW i \in DOMAIN e.lines, e.lines[i].account = a
      PROVE  /\ IsFiniteSet(EntryRows(e, {a}))
             /\ \A p \in EntryRows(e, {a}) : p.delta \in Int
             /\ Sum(EntryRows(e, {a})) = Posted(e, a)
  <2>1. PICK p : p = [id |-> PostingId[e.key][i], createdAt |-> e.createdAt,
                      delta |-> AccountDelta(e.lines[i])]
    OBVIOUS
  <2>2. {j \in DOMAIN e.lines : e.lines[j].account \in {a}} = {i}
    BY <1>1, <1>3
  <2>3. EntryRows(e, {a}) = {p}
    BY <2>1, <2>2 DEF EntryRows
  <2>4. p.delta = Posted(e, a) /\ p.delta \in Int
    BY <1>3, <2>1, PostedLine
  <2>5. IsFiniteSet({p}) /\ \A q \in {p} : q.delta \in Int
    BY <2>4, FS_Singleton
  <2> DEFINE f == [q \in {p} |-> q.delta]
  <2>6. Sum({p}) = SumOver(f, {p}) /\ f[p] = p.delta
    BY <2>5, SumOfRows
  <2> HIDE DEF f
  <2>7. Sum({p}) = p.delta
    BY <2>4, <2>6, SumOfOne
  <2>8. QED
    BY <2>3, <2>4, <2>5, <2>7
<1>4. QED
  BY <1>2, <1>3

(* The ids of postings keep the rows of different entries apart.              *)
LEMMA RowsApart ==
  ASSUME NEW e, NEW f, Submitted(e), Submitted(f), e.key # f.key, NEW a
  PROVE  EntryRows(e, {a}) \cap EntryRows(f, {a}) = {}
<1> SUFFICES ASSUME NEW p \in EntryRows(e, {a}), p \in EntryRows(f, {a}) PROVE FALSE
  OBVIOUS
<1>1. PICK i \in DOMAIN e.lines : p.id = PostingId[e.key][i]
  BY DEF EntryRows
<1>2. PICK j \in DOMAIN f.lines : p.id = PostingId[f.key][j]
  BY DEF EntryRows
<1>3. /\ e.key \in Keys /\ i \in DOMAIN PostingId[e.key]
      /\ f.key \in Keys /\ j \in DOMAIN PostingId[f.key]
  BY QueryAssumption, RequestAssumption DEF Submitted, Request
<1>4. PICK k, l, id : /\ k = e.key /\ l = f.key /\ k # l
                       /\ id = PostingId[k][i] /\ id = PostingId[l][j]
  BY <1>1, <1>2
<1>5. PostingId[k][i] = PostingId[l][j] => k = l
  BY <1>3, <1>4, QueryAssumption
<1>6. QED
  BY <1>4, <1>5

(* The sum of the rows is the sum of what the entries post.                   *)
LEMMA SumOfRowsOf ==
  ASSUME NEW E, IsFiniteSet(E), \A e \in E : Submitted(e),
         \A e, f \in E : e.key = f.key => e = f, NEW a
  PROVE  /\ IsFiniteSet(RowsOf(E, a)) /\ \A p \in RowsOf(E, a) : p.delta \in Int
         /\ Sum(RowsOf(E, a)) = Postings(E, a)
<1> DEFINE Good == {S \in SUBSET E :
                      /\ IsFiniteSet(RowsOf(S, a))
                      /\ \A p \in RowsOf(S, a) : p.delta \in Int
                      /\ Sum(RowsOf(S, a)) = Postings(S, a)}
<1>1. {} \in Good
  <2>1. RowsOf({}, a) = {} /\ IsFiniteSet({})
    BY FS_EmptySet DEF RowsOf
  <2>2. Postings({}, a) = 0
    BY <2>1, PostingsOfNone
  <2>3. Sum({}) = SumOver([p \in {} |-> p.delta], {})
    BY <2>1, SumOfRows
  <2>4. QED
    BY <2>1, <2>2, <2>3, SumOfNone
<1>2. ASSUME NEW S \in SUBSET E, S \in Good, NEW e \in E \ S
      PROVE  S \cup {e} \in Good
  <2>1. /\ IsFiniteSet(RowsOf(S, a)) /\ \A p \in RowsOf(S, a) : p.delta \in Int
        /\ Sum(RowsOf(S, a)) = Postings(S, a)
    BY <1>2
  <2> HIDE DEF Good
  <2>2. /\ IsFiniteSet(EntryRows(e, {a})) /\ \A p \in EntryRows(e, {a}) : p.delta \in Int
        /\ Sum(EntryRows(e, {a})) = Posted(e, a)
    BY <1>2, RowsOfEntry
  <2>3. RowsOf(S \cup {e}, a) = RowsOf(S, a) \cup EntryRows(e, {a})
    BY DEF RowsOf
  <2>4. RowsOf(S, a) \cap EntryRows(e, {a}) = {}
    <3>1. ASSUME NEW p \in RowsOf(S, a), p \in EntryRows(e, {a}) PROVE FALSE
      <4>1. PICK f \in S : p \in EntryRows(f, {a})
        BY <3>1 DEF RowsOf
      <4>2. Submitted(e) /\ Submitted(f) /\ e.key # f.key
        BY <1>2
      <4>3. QED
        BY <3>1, <4>1, <4>2, RowsApart
    <3>2. QED
      BY <3>1
  <2>5. /\ IsFiniteSet(RowsOf(S \cup {e}, a))
        /\ \A p \in RowsOf(S \cup {e}, a) : p.delta \in Int
    <3>1. IsFiniteSet(RowsOf(S, a) \cup EntryRows(e, {a}))
      BY <2>1, <2>2, FS_Union
    <3>2. QED
      BY <2>1, <2>2, <2>3, <3>1
  <2>6. Sum(RowsOf(S \cup {e}, a)) = Postings(S, a) + Posted(e, a)
    <3>1. \A p \in RowsOf(S, a) \cup EntryRows(e, {a}) : p.delta \in Int
      BY <2>1, <2>2
    <3>2. Sum(RowsOf(S, a) \cup EntryRows(e, {a})) = Sum(RowsOf(S, a)) + Sum(EntryRows(e, {a}))
      BY <2>1, <2>2, <2>4, <3>1, SumOfTwoSets
    <3>3. QED
      BY <2>1, <2>2, <2>3, <3>2
  <2>7. Postings(S \cup {e}, a) = Postings(S, a) + Posted(e, a)
    <3>1. IsFiniteSet(S) /\ IsFiniteSet({e}) /\ S \cap {e} = {}
      BY <1>2, FS_Subset, FS_Singleton
    <3>2. \A x \in S \cup {e} : Posted(x, a) \in Int
      BY <1>2, PostedLine
    <3>3. Postings(S \cup {e}, a) = Postings(S, a) + Postings({e}, a)
      <4>1. PICK T : T = {e}
        OBVIOUS
      <4>2. /\ IsFiniteSet(S) /\ \A x \in S : Posted(x, a) \in Int
            /\ IsFiniteSet(T) /\ \A x \in T : Posted(x, a) \in Int
            /\ S \cap T = {}
        BY <3>1, <3>2, <4>1
      <4>3. Postings(S \cup T, a) = Postings(S, a) + Postings(T, a)
        BY <4>2, PostingsOfUnion
      <4>4. QED
        BY <4>1, <4>3
    <3>4. Postings({e}, a) = Posted(e, a)
      BY <3>2, PostingsOfOne
    <3>5. QED
      BY <3>3, <3>4
  <2>8. QED
    BY <1>2, <2>5, <2>6, <2>7 DEF Good
<1>3. E \in Good
  <2> HIDE DEF Good
  <2>1. QED
    BY <1>1, <1>2, FiniteInduction
<1>4. QED
  BY <1>3

-----------------------------------------------------------------------------
(* The rows of a statement up to its end.                                   *)
Early(end) == {p \in Rows(Codes) : StartsBefore(p, end)}

(* Committing appends the entries of one session to those of the journal.   *)
LEMMA EntriesOfConcat ==
  ASSUME NEW S, NEW s \in Seq(S), NEW t \in Seq(S)
  PROVE  EntriesOf(s \o t) = EntriesOf(s) \cup EntriesOf(t)
<1> DEFINE u == s \o t
<1>1. /\ DOMAIN s = 1..Len(s) /\ DOMAIN t = 1..Len(t)
      /\ DOMAIN u = 1..(Len(s) + Len(t))
      /\ Len(s) \in Nat /\ Len(t) \in Nat
      /\ \A i \in 1..Len(s) : u[i] = s[i]
      /\ \A i \in 1..Len(t) : u[Len(s) + i] = t[i]
  OBVIOUS
<1> HIDE DEF u
<1>2. ASSUME NEW i \in DOMAIN u PROVE u[i] \in EntriesOf(s) \cup EntriesOf(t)
  <2>1. CASE i <= Len(s)
    BY <1>1, <1>2, <2>1 DEF EntriesOf
  <2>2. CASE i > Len(s)
    <3>1. i - Len(s) \in 1..Len(t) /\ i = Len(s) + (i - Len(s))
      BY <1>1, <1>2, <2>2
    <3>2. u[i] = t[i - Len(s)]
      BY <1>1, <3>1
    <3>3. QED
      BY <1>1, <3>1, <3>2 DEF EntriesOf
  <2>3. QED
    BY <1>1, <1>2, <2>1, <2>2
<1>3. ASSUME NEW i \in DOMAIN s PROVE s[i] \in EntriesOf(u)
  <2>1. i \in DOMAIN u /\ u[i] = s[i]
    BY <1>1, <1>3
  <2>2. QED
    BY <2>1 DEF EntriesOf
<1>4. ASSUME NEW i \in DOMAIN t PROVE t[i] \in EntriesOf(u)
  <2>1. Len(s) + i \in DOMAIN u /\ u[Len(s) + i] = t[i]
    BY <1>1, <1>4
  <2>2. QED
    BY <2>1 DEF EntriesOf
<1>5. QED
  BY <1>2, <1>3, <1>4 DEF EntriesOf, u

(* A statement is made of the rows before its end.                          *)
LEMMA ClosingOfEarly ==
  ASSUME NEW end, Early(end)' = Early(end)
  PROVE  AccountStatement(Codes, 0, end).closing' = AccountStatement(Codes, 0, end).closing
BY DEF AccountStatement, Early

(* Entries that start at its end or later are not in it.                    *)
LEMMA EarlyStays ==
  ASSUME NEW end \in Nat,
         EntriesOf(journal) \subseteq EntriesOf(journal'),
         \A e \in EntriesOf(journal') \ EntriesOf(journal) :
           e.createdAt \in Nat /\ e.createdAt >= end
  PROVE  Early(end)' = Early(end)
<1>1. EntriesOf(journal)' = EntriesOf(journal')
  BY DEF EntriesOf
<1>2. ASSUME NEW p, p \in Rows(Codes)', StartsBefore(p, end)
      PROVE  p \in Rows(Codes)
  <2>1. PICK e \in EntriesOf(journal') :
          \E j \in {j \in DOMAIN e.lines : e.lines[j].account \in Codes} :
             p = [id |-> PostingId[e.key][j], createdAt |-> e.createdAt,
                  delta |-> AccountDelta(e.lines[j])]
    BY <1>1, <1>2 DEF Rows
  <2>2. e \in EntriesOf(journal)
    BY <1>2, <2>1 DEF StartsBefore
  <2>3. QED
    BY <2>1, <2>2 DEF Rows
<1>3. ASSUME NEW p \in Rows(Codes) PROVE p \in Rows(Codes)'
  BY <1>1, <1>3 DEF Rows
<1>4. QED
  BY <1>2, <1>3 DEF Early, StartsBefore

(* A statement keeps standing while entries are committed that started at   *)
(* its end or later, and the sessions at work started no earlier.           *)
LEMMA StatementKept ==
  ASSUME PeriodIsOver, statement' = statement, clock' \in Nat, clock \in Nat,
         clock' >= clock,
         EntriesOf(journal) \subseteq EntriesOf(journal'),
         statement # None /\ statement.open = {} =>
           \A e \in EntriesOf(journal') \ EntriesOf(journal) :
             e.createdAt \in Nat /\ e.createdAt >= statement.end,
         statement # None /\ statement.open = {} =>
           \A w \in Workers : phase'[w] # "idle" => startedAt'[w] >= statement.end
  PROVE  PeriodIsOver'
<1>1. CASE statement = None
  BY <1>1 DEF PeriodIsOver
<1>2. CASE statement # None
  <2>1. PICK end : end = statement.end
    OBVIOUS
  <2>2. /\ end \in Nat /\ end <= Now
        /\ statement.open = {} =>
             AccountStatement(Codes, 0, end).closing = statement.closing
    BY <1>2, <2>1 DEF PeriodIsOver
  <2>3. (end <= Now)'
    BY <2>2 DEF Now
  <2>4. ASSUME statement.open = {}
        PROVE  AccountStatement(Codes, 0, end).closing' = statement.closing
    <3>1. \A e \in EntriesOf(journal') \ EntriesOf(journal) :
            e.createdAt \in Nat /\ e.createdAt >= end
      BY <1>2, <2>1, <2>4
    <3>2. Early(end)' = Early(end)
      BY <2>2, <3>1, EarlyStays
    <3>3. QED
      BY <2>2, <2>4, <3>2, ClosingOfEarly
  <2>5. QED
    BY <1>2, <2>1, <2>2, <2>3, <2>4 DEF PeriodIsOver
<1>3. QED
  BY <1>1, <1>2

-----------------------------------------------------------------------------
(* Nothing is in flight and nothing was read at the start.                   *)
LEMMA InitQuery == QueryInit => QueryInv
BY DEF QueryInit, Init, QueryInv, PendingDates, PeriodIsOver, EntriesOf

(* A transaction that begins now begins after every period that is over.    *)
LEMMA BeginQuery ==
  ASSUME IInv, QueryInv, NEW w \in Workers, Begin(w), statement' = statement
  PROVE  QueryInv'
<1>1. /\ TypeOK /\ PostingInv
      /\ phase[w] = "idle" /\ clock' = clock + 1
      /\ phase' = [phase EXCEPT ![w] = "open"]
      /\ startedAt' = [startedAt EXCEPT ![w] = clock + 1]
      /\ pending' = pending /\ journal' = journal
  BY DEF IInv, Begin
<1>2. clock \in Nat /\ clock' \in Nat
  BY <1>1, BoundAssumption DEF TypeOK
<1>3. PendingDates'
  <2>1. ASSUME NEW u \in Workers, u # w PROVE startedAt'[u] = startedAt[u]
    BY <1>1, <2>1 DEF TypeOK
  <2>2. pending[w] = <<>>
    BY <1>1 DEF PostingInv
  <2>3. QED
    BY <1>1, <2>1, <2>2 DEF QueryInv, PendingDates, EntriesOf
<1>4. ASSUME statement # None, statement.open = {}, NEW u \in Workers, phase'[u] # "idle"
      PROVE  startedAt'[u] >= statement.end
  <2>1. statement.end \in Nat /\ statement.end <= clock + 1
    BY <1>4 DEF QueryInv, PeriodIsOver, Now
  <2>2. CASE u = w
    BY <1>1, <1>2, <2>1, <2>2 DEF TypeOK
  <2>3. CASE u # w
    BY <1>1, <1>4, <2>3 DEF TypeOK, QueryInv, PeriodIsOver
  <2>4. QED
    BY <2>2, <2>3
<1>5. PeriodIsOver'
  <2>1. EntriesOf(journal') = EntriesOf(journal)
    BY <1>1 DEF EntriesOf
  <2>2. QED
    BY <1>1, <1>2, <1>4, <2>1, StatementKept DEF QueryInv
<1>6. QED
  BY <1>3, <1>5 DEF QueryInv

(* The entry of post_entry() is dated by the start of its transaction.      *)
LEMMA PostEntryQuery ==
  ASSUME IInv, QueryInv, statement' = statement,
         NEW w \in Workers, NEW r \in Requests, NEW prev \in Keys \cup {NoEntry},
         NEW rank \in Ranks, PostEntry(w, r, prev, rank)
  PROVE  QueryInv'
<1> DEFINE e == [key |-> r.key, prev |-> prev, createdAt |-> startedAt[w],
                 rank |-> rank, lines |-> r.lines]
<1>1. /\ TypeOK /\ phase[w] = "open"
      /\ phase' = [phase EXCEPT ![w] = "posting"]
      /\ pending' = [pending EXCEPT ![w] = Append(@, e)]
      /\ UNCHANGED <<journal, clock, startedAt>>
  BY DEF IInv, PostEntry
<1>2. clock \in Nat /\ clock' \in Nat
  BY <1>1, BoundAssumption DEF TypeOK
<1>3. e \in Entry /\ e.createdAt = startedAt[w]
  <2>1. r \in Request /\ startedAt[w] \in Nat
    BY <1>1, RequestAssumption, BoundAssumption DEF TypeOK
  <2>2. r.lines \in Seq([account : AccountIds, side : {"debit", "credit"}, amount : Int])
    BY <2>1 DEF Request, Line
  <2>3. \A l \in [account : AccountIds, side : {"debit", "credit"}, amount : Int] : l \in Line
    BY DEF Line
  <2>4. QED
    BY <2>1, <2>2, <2>3 DEF Request, Entry
<1>4. PendingDates'
  <2> HIDE DEF e
  <2>1. pending[w] \in Seq(Entry) /\ pending'[w] = Append(pending[w], e)
    BY <1>1 DEF TypeOK
  <2>2. EntriesOf(pending'[w]) = EntriesOf(pending[w]) \cup {e}
    BY <1>3, <2>1, EntriesOfAppend
  <2>3. ASSUME NEW u \in Workers, NEW x \in EntriesOf(pending'[u])
        PROVE  x.createdAt = startedAt[u]
    <3>1. CASE u = w
      BY <1>3, <2>2, <2>3, <3>1 DEF QueryInv, PendingDates
    <3>2. CASE u # w
      BY <1>1, <2>3, <3>2 DEF TypeOK, QueryInv, PendingDates
    <3>3. QED
      BY <3>1, <3>2
  <2>4. QED
    BY <1>1, <2>3 DEF PendingDates, EntriesOf
<1>5. ASSUME statement # None, statement.open = {}, NEW u \in Workers, phase'[u] # "idle"
      PROVE  startedAt'[u] >= statement.end
  BY <1>1, <1>5 DEF TypeOK, QueryInv, PeriodIsOver
<1>6. PeriodIsOver'
  <2>1. EntriesOf(journal') = EntriesOf(journal)
    BY <1>1 DEF EntriesOf
  <2>2. QED
    BY <1>1, <1>2, <1>5, <2>1, StatementKept DEF QueryInv
<1>7. QED
  BY <1>4, <1>6 DEF QueryInv

(* Reading an account and applying a line leave dates and journal alone.    *)
LEMMA WorkQuery ==
  ASSUME IInv, QueryInv, NEW w \in Workers,
         ApplyLine(w) \/ \E a \in Accounts : ReadAccount(w, a), statement' = statement
  PROVE  QueryInv'
<1>1. /\ TypeOK /\ phase[w] # "idle"
      /\ UNCHANGED <<journal, clock, startedAt, pending>>
      /\ phase' \in {phase, [phase EXCEPT ![w] = "open"]}
  BY DEF IInv, ApplyLine, ReadAccount
<1>2. clock \in Nat /\ clock' \in Nat
  BY <1>1, BoundAssumption DEF TypeOK
<1>3. PendingDates'
  BY <1>1 DEF QueryInv, PendingDates, EntriesOf
<1>4. ASSUME statement # None, statement.open = {}, NEW u \in Workers, phase'[u] # "idle"
      PROVE  startedAt'[u] >= statement.end
  BY <1>1, <1>4 DEF TypeOK, QueryInv, PeriodIsOver
<1>5. EntriesOf(journal') = EntriesOf(journal)
  BY <1>1 DEF EntriesOf
<1>6. QED
  BY <1>1, <1>2, <1>3, <1>4, <1>5, StatementKept DEF QueryInv

(* The end of a session publishes its entries or none.                      *)
LEMMA EndQuery ==
  ASSUME IInv, QueryInv, NEW w \in Workers, Commit(w) \/ Rollback(w),
         statement' = statement
  PROVE  QueryInv'
<1>1. /\ TypeOK /\ phase[w] # "idle"
      /\ phase' = [phase EXCEPT ![w] = "idle"]
      /\ pending' = [pending EXCEPT ![w] = <<>>]
      /\ UNCHANGED <<clock, startedAt>>
      /\ journal' \in {journal, journal \o pending[w]}
  BY DEF IInv, Commit, Rollback, CloseSession
<1>2. /\ clock \in Nat /\ clock' \in Nat /\ clock' >= clock
      /\ journal \in Seq(Entry) /\ pending[w] \in Seq(Entry)
  BY <1>1, BoundAssumption DEF TypeOK
<1>3. PendingDates'
  <2>1. pending'[w] = <<>> /\ \A u \in Workers : u # w => pending'[u] = pending[u]
    BY <1>1 DEF TypeOK
  <2>2. QED
    BY <1>1, <2>1 DEF QueryInv, PendingDates, EntriesOf
<1>4. /\ EntriesOf(journal) \subseteq EntriesOf(journal')
      /\ EntriesOf(journal') \ EntriesOf(journal) \subseteq EntriesOf(pending[w])
  <2>1. EntriesOf(journal \o pending[w]) = EntriesOf(journal) \cup EntriesOf(pending[w])
    BY <1>2, EntriesOfConcat
  <2>2. QED
    BY <1>1, <2>1
<1>5. ASSUME statement # None, statement.open = {}, NEW e \in EntriesOf(journal') \ EntriesOf(journal)
      PROVE  e.createdAt \in Nat /\ e.createdAt >= statement.end
  <2>1. e \in EntriesOf(pending[w]) /\ e.createdAt = startedAt[w]
    BY <1>4, <1>5 DEF QueryInv, PendingDates
  <2>2. startedAt[w] \in Nat /\ startedAt[w] >= statement.end
    BY <1>1, <1>5, BoundAssumption DEF TypeOK, QueryInv, PeriodIsOver
  <2>3. QED
    BY <2>1, <2>2
<1>6. ASSUME statement # None, statement.open = {}, NEW u \in Workers, phase'[u] # "idle"
      PROVE  startedAt'[u] >= statement.end
  BY <1>1, <1>6 DEF TypeOK, QueryInv, PeriodIsOver
<1>7. PeriodIsOver'
  BY <1>2, <1>4, <1>5, <1>6, StatementKept DEF QueryInv
<1>8. QED
  BY <1>3, <1>7 DEF QueryInv

(* The statement is read from what is committed, and names who is open.     *)
LEMMA ReadStatementQuery ==
  ASSUME IInv, QueryInv, NEW end \in 1..(MaxStarts + 1), ReadStatement(end)
  PROVE  QueryInv'
<1>1. /\ TypeOK /\ end <= Now /\ end \in Nat
      /\ statement' = [end |-> end,
                       closing |-> AccountStatement(Codes, 0, end).closing,
                       open |-> {w \in Workers : phase[w] # "idle" /\ startedAt[w] < end}]
      /\ UNCHANGED vars
  BY BoundAssumption DEF IInv, ReadStatement
<1>2. UNCHANGED <<journal, clock, phase, startedAt, pending>>
  BY <1>1 DEF vars
<1>3. PendingDates'
  BY <1>2 DEF QueryInv, PendingDates, EntriesOf
<1>4. Early(end)' = Early(end)
  <2>1. EntriesOf(journal') = EntriesOf(journal)
    BY <1>2 DEF EntriesOf
  <2>2. QED
    BY <1>1, <2>1, EarlyStays
<1>5. AccountStatement(Codes, 0, end).closing' = statement'.closing
  BY <1>1, <1>4, ClosingOfEarly
<1>6. ASSUME statement'.open = {}, NEW w \in Workers, phase[w] # "idle"
      PROVE  startedAt[w] >= end
  <2>1. startedAt[w] \in Nat /\ ~(startedAt[w] < end)
    BY <1>1, <1>6, BoundAssumption DEF TypeOK
  <2>2. QED
    BY <1>1, <2>1
<1>7. PeriodIsOver'
  <2>1. statement'.end = end
    BY <1>1
  <2>2. QED
    BY <1>1, <1>2, <1>5, <1>6, <2>1 DEF PeriodIsOver, Now
<1>8. QED
  BY <1>3, <1>7 DEF QueryInv

(* Reading pages leaves all of this alone.                                  *)
LEMMA IdleQuery ==
  ASSUME IInv, QueryInv, UNCHANGED <<vars, statement>>
  PROVE  QueryInv'
<1>1. UNCHANGED <<journal, clock, phase, startedAt, pending, statement>>
  BY DEF vars
<1>2. clock \in Nat /\ clock' \in Nat
  BY <1>1, BoundAssumption DEF IInv, TypeOK
<1>3. EntriesOf(journal') = EntriesOf(journal) /\ PendingDates'
  BY <1>1 DEF QueryInv, PendingDates, EntriesOf
<1>4. statement # None /\ statement.open = {} =>
        \A w \in Workers : phase'[w] # "idle" => startedAt'[w] >= statement.end
  BY <1>1 DEF QueryInv, PeriodIsOver
<1>5. QED
  BY <1>1, <1>2, <1>3, <1>4, StatementKept DEF QueryInv

-----------------------------------------------------------------------------
(* The entries of a sequence are finitely many.                              *)
LEMMA FiniteEntries ==
  ASSUME NEW S, NEW s \in Seq(S)
  PROVE  IsFiniteSet(EntriesOf(s))
<1>1. DOMAIN s = 1..Len(s) /\ Len(s) \in Nat
  OBVIOUS
<1>2. IsFiniteSet(1..Len(s))
  BY <1>1, FS_Interval
<1>3. s \in Surjection(1..Len(s), EntriesOf(s))
  BY <1>1 DEF Surjection, EntriesOf
<1>4. QED
  BY <1>2, <1>3, FS_Surjection

(* A good journal has one entry for a key.                                   *)
LEMMA KeysApart ==
  ASSUME NEW j \in Seq(Entry), AllGood(j), NEW h \in DOMAIN j, NEW i \in DOMAIN j,
         j[h].key = j[i].key
  PROVE  h = i
<1>1. \A k \in DOMAIN j : \A l \in 1..(k - 1) : j[l].key # j[k].key
  BY DEF AllGood, J!GoodEntry
<1>2. DOMAIN j = 1..Len(j) /\ Len(j) \in Nat
  OBVIOUS
<1>3. h \in 1..(i - 1) \/ i \in 1..(h - 1) \/ h = i
  BY <1>2
<1>4. QED
  BY <1>1, <1>3

(* Nothing is posted to an account that no entry touches.                    *)
LEMMA UntouchedOwn ==
  ASSUME IInv, BalanceInv, NEW w \in Workers, NEW a, a \notin Touched(w)
  PROVE  Own(w, a) = 0
<1>1. IsFiniteSet(EntriesOf(pending[w]))
  BY FiniteEntries DEF IInv, TypeOK
<1>2. ASSUME NEW e \in EntriesOf(pending[w]) PROVE Posted(e, a) = 0
  <2>1. Submitted(e)
    BY DEF BalanceInv, EntriesStand
  <2>2. \A i \in DOMAIN e.lines : e.lines[i].account # a
    BY DEF Touched
  <2>3. QED
    BY <2>1, <2>2, PostedLine
<1>3. QED
  BY <1>1, <1>2, PostingsOfNone DEF Own

(* What other sessions do leaves the copies of u alone, and the balances      *)
(* behind them while u holds the lock.                                       *)
LEMMA OtherView ==
  ASSUME NEW u \in Workers, ViewStands(u),
         view'[u] = view[u], loaded'[u] = loaded[u], pending'[u] = pending[u],
         phase'[u] = phase[u], nextLine'[u] = nextLine[u],
         chainLock = u => chainLock' = u /\ balance' = balance
  PROVE  ViewStands(u)'
<1>1. EntriesOf(pending[u])' = EntriesOf(pending[u]) /\ Current(u)' = Current(u)
  BY DEF EntriesOf, Current
<1>2. Touched(u)' = Touched(u)
  BY <1>1 DEF Touched
<1>3. ASSUME NEW a PROVE Own(u, a)' = Own(u, a) /\ Unapplied(u, a)' = Unapplied(u, a)
  BY <1>1 DEF Own, Unapplied
<1>4. ASSUME NEW a \in loaded[u] \ ReadFirst
      PROVE  chainLock' = u /\ CopyStands(u, a)'
  BY <1>1, <1>3, <1>4 DEF ViewStands, CopyStands
<1>5. QED
  BY <1>2, <1>4 DEF ViewStands

(* Committed balances and entries move together or not at all.               *)
LEMMA BalancesKept ==
  ASSUME BalancesStand, UNCHANGED <<balance, journal>>, overwritten \subseteq overwritten'
  PROVE  BalancesStand'
<1>1. EntriesOf(journal)' = EntriesOf(journal)
  BY DEF EntriesOf
<1>2. QED
  BY <1>1 DEF BalancesStand

(* At the start all balances are zero and nothing is posted.                 *)
LEMMA InitBalance == QueryInit => BalanceInv
<1> SUFFICES ASSUME QueryInit PROVE BalanceInv
  OBVIOUS
<1>1. /\ EntriesOf(journal) = {} /\ \A w \in Workers : EntriesOf(pending[w]) = {}
      /\ \A a \in Accounts : balance[a] = 0
      /\ \A w \in Workers : startedAt[w] = 0 /\ loaded[w] = {}
      /\ clock = 0
  BY DEF QueryInit, Init, EntriesOf
<1>2. EntriesStand
  BY <1>1 DEF EntriesStand
<1>3. ASSUME NEW w \in Workers PROVE ViewStands(w)
  BY <1>1 DEF ViewStands, Touched
<1>4. \A a \in Accounts : Postings({}, a) = 0
  BY FS_EmptySet, PostingsOfNone
<1>5. BalancesStand
  BY <1>1, <1>4 DEF BalancesStand
<1>6. QED
  BY <1>2, <1>3, <1>5 DEF BalanceInv

(* Starting, ending without a commit, and reading before post_entry().       *)
LEMMA BeginBalance ==
  ASSUME IInv, BalanceInv, NEW w \in Workers, Begin(w), overwritten \subseteq overwritten'
  PROVE  BalanceInv'
<1>1. /\ TypeOK /\ phase[w] = "idle" /\ clock' = clock + 1 /\ clock \in Nat
      /\ phase' = [phase EXCEPT ![w] = "open"]
      /\ startedAt' = [startedAt EXCEPT ![w] = clock + 1]
      /\ UNCHANGED <<balance, journal, chainLock, loaded, view, pending, nextLine>>
  BY BoundAssumption DEF IInv, TypeOK, Begin
<1>2. EntriesStand'
  <2>1. \A e \in EntriesOf(journal) : e.createdAt \in Nat
    <3>1. \A e \in EntriesOf(journal) : e \in Entry
      BY <1>1 DEF TypeOK, EntriesOf
    <3>2. QED
      BY <3>1 DEF Entry
  <2>2. \A u \in Workers : startedAt[u] \in Nat /\ startedAt'[u] <= clock + 1
    BY <1>1, BoundAssumption DEF TypeOK, BalanceInv, EntriesStand
  <2>3. QED
    BY <1>1, <2>1, <2>2 DEF BalanceInv, EntriesStand, EntriesOf
<1>3. ASSUME NEW u \in Workers PROVE ViewStands(u)'
  <2>1. /\ EntriesOf(pending[u])' = EntriesOf(pending[u]) /\ Current(u)' = Current(u)
        /\ ViewStands(u)
    BY <1>1 DEF EntriesOf, Current, BalanceInv
  <2>2. phase'[u] = "posting" <=> phase[u] = "posting"
    BY <1>1 DEF TypeOK
  <2>3. ASSUME NEW a PROVE Own(u, a)' = Own(u, a) /\ Unapplied(u, a)' = Unapplied(u, a)
    BY <1>1, <2>1, <2>2 DEF Own, Unapplied
  <2>4. ASSUME NEW a \in loaded[u] \ ReadFirst
        PROVE  chainLock' = u /\ CopyStands(u, a)'
    BY <1>1, <2>1, <2>3, <2>4 DEF ViewStands, CopyStands
  <2>5. QED
    BY <1>1, <2>1, <2>4 DEF ViewStands, Touched
<1>4. QED
  BY <1>1, <1>2, <1>3, BalancesKept DEF BalanceInv

LEMMA RollbackBalance ==
  ASSUME IInv, BalanceInv, NEW w \in Workers, Rollback(w), overwritten \subseteq overwritten'
  PROVE  BalanceInv'
<1>1. /\ TypeOK
      /\ phase' = [phase EXCEPT ![w] = "idle"]
      /\ loaded' = [loaded EXCEPT ![w] = {}]
      /\ view' = [view EXCEPT ![w] = [a \in Accounts |-> 0]]
      /\ pending' = [pending EXCEPT ![w] = <<>>]
      /\ nextLine' = [nextLine EXCEPT ![w] = 1]
      /\ chainLock' = IF chainLock = w THEN NoWorker ELSE chainLock
      /\ UNCHANGED <<clock, startedAt, balance, journal>>
  BY DEF IInv, Rollback, CloseSession, ReleaseLock
<1>2. /\ pending'[w] = <<>> /\ loaded'[w] = {}
      /\ \A u \in Workers : u # w =>
           /\ view'[u] = view[u] /\ loaded'[u] = loaded[u] /\ pending'[u] = pending[u]
           /\ phase'[u] = phase[u] /\ nextLine'[u] = nextLine[u]
  BY <1>1 DEF TypeOK
<1>3. EntriesStand'
  <2>1. \A u \in Workers : EntriesOf(pending'[u]) \subseteq EntriesOf(pending[u])
    BY <1>2 DEF EntriesOf
  <2>2. QED
    BY <1>1, <2>1 DEF BalanceInv, EntriesStand, EntriesOf
<1>4. ASSUME NEW u \in Workers PROVE ViewStands(u)'
  <2>1. CASE u = w
    <3>1. EntriesOf(pending[w])' = {}
      BY <1>2 DEF EntriesOf
    <3>2. QED
      BY <1>2, <2>1, <3>1 DEF ViewStands, Touched
  <2>2. CASE u # w
    BY <1>1, <1>2, <2>2, OtherView DEF BalanceInv
  <2>3. QED
    BY <2>1, <2>2
<1>5. QED
  BY <1>1, <1>3, <1>4, BalancesKept DEF BalanceInv

LEMMA ReadAccountBalance ==
  ASSUME IInv, BalanceInv, NEW w \in Workers, NEW b \in Accounts, ReadAccount(w, b),
         overwritten \subseteq overwritten'
  PROVE  BalanceInv'
<1>1. /\ TypeOK /\ b \in ReadFirst
      /\ loaded' = [loaded EXCEPT ![w] = @ \cup {b}]
      /\ view' = [view EXCEPT ![w][b] = balance[b]]
      /\ UNCHANGED <<balance, journal, chainLock, clock, phase, startedAt, pending, nextLine>>
  BY DEF IInv, ReadAccount, ReadBefore
<1>2. EntriesStand'
  BY <1>1 DEF BalanceInv, EntriesStand, EntriesOf
<1>3. ASSUME NEW u \in Workers PROVE ViewStands(u)'
  <2>1. CASE u = w
    <3>1. /\ EntriesOf(pending[w])' = EntriesOf(pending[w]) /\ Current(w)' = Current(w)
          /\ ViewStands(w)
      BY <1>1 DEF EntriesOf, Current, BalanceInv
    <3>2. /\ loaded'[w] = loaded[w] \cup {b}
          /\ \A a \in Accounts \ {b} : view'[w][a] = view[w][a]
      BY <1>1 DEF TypeOK
    <3>3. ASSUME NEW a PROVE Own(w, a)' = Own(w, a) /\ Unapplied(w, a)' = Unapplied(w, a)
      BY <1>1, <3>1 DEF Own, Unapplied
    <3>4. ASSUME NEW a \in loaded'[w] \ ReadFirst
          PROVE  chainLock' = w /\ CopyStands(w, a)'
      <4>1. a \in loaded[w] \ ReadFirst /\ a \in Accounts \ {b}
        BY <1>1, <3>2, <3>4 DEF TypeOK
      <4>2. QED
        BY <1>1, <3>1, <3>2, <3>3, <4>1 DEF ViewStands, CopyStands
    <3>5. Touched(w)' = Touched(w)
      BY <3>1 DEF Touched
    <3>6. QED
      BY <2>1, <3>1, <3>2, <3>4, <3>5 DEF ViewStands
  <2>2. CASE u # w
    BY <1>1, <2>2, OtherView DEF TypeOK, BalanceInv
  <2>3. QED
    BY <2>1, <2>2
<1>4. QED
  BY <1>1, <1>2, <1>3, BalancesKept DEF BalanceInv

(* post_entry() posts what its caller submitted; it reads under the lock what *)
(* nobody had read before.                                                   *)
LEMMA PostEntryBalance ==
  ASSUME IInv, IInv', BalanceInv,
         NEW w \in Workers, NEW r \in Requests, NEW prev \in Keys \cup {NoEntry},
         NEW rank \in Ranks, PostEntry(w, r, prev, rank), overwritten \subseteq overwritten'
  PROVE  BalanceInv'
<1> DEFINE e == [key |-> r.key, prev |-> prev, createdAt |-> startedAt[w],
                 rank |-> rank, lines |-> r.lines]
           named == {r.lines[i].account : i \in DOMAIN r.lines}
<1>1. /\ TypeOK /\ phase[w] = "open" /\ named \subseteq Accounts
      /\ chainLock \in {NoWorker, w} /\ chainLock' = w
      /\ loaded' = [loaded EXCEPT ![w] = @ \cup named]
      /\ view' = [view EXCEPT ![w] =
                    [a \in Accounts |-> IF a \in named \ loaded[w] THEN balance[a] ELSE @[a]]]
      /\ pending' = [pending EXCEPT ![w] = Append(@, e)]
      /\ phase' = [phase EXCEPT ![w] = "posting"]
      /\ nextLine' = [nextLine EXCEPT ![w] = 1]
      /\ UNCHANGED <<balance, journal, clock, startedAt>>
  BY DEF IInv, PostEntry, LockChain, LockedAccounts, NamesExist
<1>2. Submitted(e) /\ e.lines = r.lines /\ e.key = r.key
  BY DEF Submitted
<1>3. pending'[w] = Append(pending[w], e) /\ pending[w] \in Seq(Entry) /\ pending' \in [Workers -> Seq(Entry)]
  BY <1>1 DEF IInv, TypeOK
<1> HIDE DEF e
<1>4. e \in Entry
  <2>1. pending'[w][Len(pending[w]) + 1] = e /\ Len(pending[w]) + 1 \in DOMAIN pending'[w]
    BY <1>3
  <2>2. pending'[w] \in Seq(Entry)
    BY <1>3
  <2>3. QED
    BY <2>1, <2>2
<1>5. /\ EntriesOf(pending'[w]) = EntriesOf(pending[w]) \cup {e}
      /\ pending'[w][Len(pending'[w])] = e
  BY <1>3, <1>4, EntriesOfAppend
<1>6. e \notin EntriesOf(pending[w])
  BY <1>2 DEF PostEntry, KeyFree, KeysOf, EntriesOf
<1>7. EntriesStand'
  <2>1. ASSUME NEW u \in Workers, NEW x \in EntriesOf(pending'[u]) PROVE Submitted(x)
    <3>1. CASE u = w
      BY <1>2, <1>5, <2>1, <3>1 DEF BalanceInv, EntriesStand
    <3>2. CASE u # w
      BY <1>1, <2>1, <3>2 DEF TypeOK, BalanceInv, EntriesStand
    <3>3. QED
      BY <3>1, <3>2
  <2>2. QED
    BY <1>1, <2>1 DEF BalanceInv, EntriesStand, EntriesOf
<1>8. ASSUME NEW a PROVE Own(w, a)' = Own(w, a) + Posted(e, a) /\ Own(w, a) \in Int
  <2>1. /\ IsFiniteSet(EntriesOf(pending[w])) /\ IsFiniteSet({e})
        /\ \A x \in EntriesOf(pending[w]) : Posted(x, a) \in Int
        /\ \A x \in {e} : Posted(x, a) \in Int
        /\ EntriesOf(pending[w]) \cap {e} = {}
    BY <1>2, <1>3, <1>6, FiniteEntries, FS_Singleton, PostedLine DEF BalanceInv, EntriesStand
  <2>2. PICK S, T : S = EntriesOf(pending[w]) /\ T = {e}
    OBVIOUS
  <2>3. Postings(S \cup T, a) = Postings(S, a) + Postings(T, a) /\ Postings(S, a) \in Int
    BY <2>1, <2>2, PostingsOfUnion
  <2>4. Postings(T, a) = Posted(e, a)
    BY <2>1, <2>2, PostingsOfOne
  <2>5. EntriesOf(pending[w])' = S \cup T
    BY <1>5, <2>2 DEF EntriesOf
  <2>6. QED
    BY <2>2, <2>3, <2>4, <2>5 DEF Own
<1>9. ASSUME NEW u \in Workers PROVE ViewStands(u)'
  <2>1. CASE u = w
    <3>1. ViewStands(w) /\ loaded'[w] = loaded[w] \cup named
      BY <1>1 DEF TypeOK, BalanceInv
    <3>2. Touched(w)' \subseteq loaded'[w]
      <4>1. EntriesOf(pending[w])' = EntriesOf(pending[w]) \cup {e}
        BY <1>5 DEF EntriesOf
      <4>2. {e.lines[i].account : i \in DOMAIN e.lines} = named
        BY <1>2
      <4>3. QED
        BY <3>1, <4>1, <4>2 DEF ViewStands, Touched
    <3>3. ASSUME NEW a \in loaded'[w] \ ReadFirst PROVE CopyStands(w, a)'
      <4>1. a \in Accounts
        BY <1>1, <3>1, <3>3 DEF TypeOK
      <4>2. view'[w][a] = balance[a] + Own(w, a)
        <5>1. CASE a \in loaded[w]
          <6>1. view'[w][a] = view[w][a]
            BY <1>1, <4>1, <5>1 DEF TypeOK
          <6>2. Unapplied(w, a) = {}
            BY <1>1 DEF Unapplied
          <6>3. QED
            BY <3>1, <3>3, <5>1, <6>1, <6>2 DEF ViewStands, CopyStands
        <5>2. CASE a \notin loaded[w]
          <6>1. view'[w][a] = balance[a] /\ balance[a] \in Int
            BY <1>1, <3>1, <3>3, <4>1, <5>2 DEF TypeOK
          <6>2. Own(w, a) = 0
            BY <3>1, <5>2, UntouchedOwn DEF ViewStands
          <6>3. QED
            BY <6>1, <6>2
        <5>3. QED
          BY <5>1, <5>2
      <4>3. Current(w)' = e /\ phase'[w] = "posting" /\ nextLine'[w] = 1
        BY <1>1, <1>5 DEF TypeOK, Current
      <4>4. Unapplied(w, a)' = {i \in DOMAIN e.lines : e.lines[i].account = a}
        <5>1. \A i \in DOMAIN e.lines : i >= 1
          BY <1>4 DEF Entry
        <5>2. QED
          BY <4>3, <5>1 DEF Unapplied
      <4>5. /\ Unapplied(w, a)' = {} => Posted(e, a) = 0
            /\ \A i \in Unapplied(w, a)' : Posted(e, a) = AccountDelta(e.lines[i])
            /\ Posted(e, a) \in Int
        BY <1>2, <4>4, PostedLine
      <4>6. balance'[a] = balance[a] /\ balance[a] \in Int
        BY <1>1, <4>1 DEF TypeOK
      <4>7. Unapplied(w, a)' = {} => view'[w][a] = balance'[a] + Own(w, a)'
        BY <1>8, <4>2, <4>5, <4>6
      <4>8. ASSUME NEW i \in Unapplied(w, a)'
            PROVE  view'[w][a] + AccountDelta(e.lines[i]) = balance'[a] + Own(w, a)'
        <5>1. Posted(e, a) = AccountDelta(e.lines[i]) /\ Posted(e, a) \in Int
          BY <4>5, <4>8
        <5>2. QED
          BY <1>8, <4>2, <4>6, <5>1
      <4>9. QED
        BY <4>3, <4>7, <4>8 DEF CopyStands
    <3>4. QED
      BY <1>1, <2>1, <3>2, <3>3 DEF ViewStands
  <2>2. CASE u # w
    <3>1. chainLock # u
      BY <1>1, <2>2, SentinelAssumption
    <3>2. QED
      BY <1>1, <2>2, <3>1, OtherView DEF TypeOK, BalanceInv
  <2>3. QED
    BY <2>1, <2>2
<1>10. QED
  BY <1>1, <1>7, <1>9, BalancesKept DEF BalanceInv

(* The next line is applied to the copy that was waiting for it.             *)
LEMMA ApplyLineBalance ==
  ASSUME IInv, BalanceInv, NEW w \in Workers, ApplyLine(w), overwritten \subseteq overwritten'
  PROVE  BalanceInv'
<1> DEFINE e == Current(w)
           n == nextLine[w]
           b == e.lines[n].account
<1>1. /\ TypeOK /\ phase[w] = "posting"
      /\ pending[w] # <<>> /\ pending[w] \in Seq(Entry) /\ n <= Len(e.lines) /\ n \in Nat \ {0}
      /\ view' = [view EXCEPT ![w][b] = view[w][b] + AccountDelta(e.lines[n])]
      /\ IF n = Len(e.lines) THEN phase' = [phase EXCEPT ![w] = "open"] /\ nextLine' = nextLine
         ELSE nextLine' = [nextLine EXCEPT ![w] = @ + 1] /\ phase' = phase
      /\ UNCHANGED <<balance, journal, chainLock, clock, startedAt, loaded, pending>>
  BY DEF IInv, PostingInv, TypeOK, ApplyLine
<1>2. /\ e \in EntriesOf(pending[w]) /\ Submitted(e) /\ e.lines \in Seq(Line)
      /\ n \in DOMAIN e.lines
      /\ \A i, j \in DOMAIN e.lines : e.lines[i].account = e.lines[j].account => i = j
  <2>1. e \in EntriesOf(pending[w])
    BY <1>1 DEF Current, EntriesOf
  <2>2. Submitted(e)
    BY <2>1 DEF BalanceInv, EntriesStand
  <2>3. /\ e.lines \in Seq(Line)
        /\ \A i, j \in DOMAIN e.lines : e.lines[i].account = e.lines[j].account => i = j
    BY <2>2, RequestAssumption DEF Submitted, Request
  <2>4. QED
    BY <1>1, <2>1, <2>2, <2>3
<1>3. EntriesStand'
  BY <1>1 DEF BalanceInv, EntriesStand, EntriesOf
<1>4. ASSUME NEW u \in Workers PROVE ViewStands(u)'
  <2>1. CASE u = w
    <3>1. /\ EntriesOf(pending[w])' = EntriesOf(pending[w]) /\ Current(w)' = e
          /\ ViewStands(w)
      BY <1>1 DEF EntriesOf, Current, BalanceInv
    <3>2. Touched(w)' = Touched(w)
      BY <3>1 DEF Touched
    <3>3. ASSUME NEW a \in loaded[w] \ ReadFirst PROVE CopyStands(w, a)'
      <4>1. CopyStands(w, a) /\ a \in Accounts
        BY <1>1, <3>1, <3>3 DEF ViewStands, TypeOK
      <4>2. Own(w, a)' = Own(w, a) /\ balance'[a] = balance[a]
        BY <1>1, <3>1 DEF Own
      <4>3. Unapplied(w, a)' = Unapplied(w, a) \ {n}
        <5>1. CASE n = Len(e.lines)
          <6>1. Unapplied(w, a)' = {}
            BY <1>1, <5>1 DEF TypeOK, Unapplied
          <6>2. \A i \in DOMAIN e.lines : i >= n => i = n
            BY <1>2, <5>1
          <6>3. QED
            BY <6>1, <6>2 DEF Unapplied
        <5>2. CASE n # Len(e.lines)
          <6>1. phase'[w] = "posting" /\ nextLine'[w] = n + 1
            BY <1>1, <5>2 DEF TypeOK
          <6>2. \A i \in DOMAIN e.lines : i >= n + 1 <=> i >= n /\ i # n
            BY <1>1, <1>2
          <6>3. QED
            BY <1>1, <3>1, <6>1, <6>2 DEF Unapplied
        <5>3. QED
          BY <5>1, <5>2
      <4>4. CASE a = b
        <5>1. Unapplied(w, a) = {n} /\ Unapplied(w, a)' = {}
          <6>1. n \in Unapplied(w, a) /\ \A i \in Unapplied(w, a) : i = n
            BY <1>1, <1>2, <4>4 DEF Unapplied
          <6>2. QED
            BY <4>3, <6>1
        <5>2. view'[w][a] = view[w][a] + AccountDelta(e.lines[n])
          BY <1>1, <4>1, <4>4 DEF TypeOK
        <5>3. view[w][a] + AccountDelta(e.lines[n]) = balance[a] + Own(w, a)
          BY <4>1, <5>1 DEF CopyStands
        <5>4. QED
          BY <4>2, <5>1, <5>2, <5>3 DEF CopyStands
      <4>5. CASE a # b
        <5>1. Unapplied(w, a)' = Unapplied(w, a)
          BY <4>3, <4>5 DEF Unapplied
        <5>2. view'[w][a] = view[w][a]
          BY <1>1, <4>1, <4>5 DEF TypeOK
        <5>3. QED
          BY <3>1, <4>1, <4>2, <5>1, <5>2 DEF CopyStands
      <4>6. QED
        BY <4>4, <4>5
    <3>4. QED
      BY <1>1, <2>1, <3>1, <3>2, <3>3 DEF ViewStands
  <2>2. CASE u # w
    <3>1. view'[u] = view[u] /\ phase'[u] = phase[u] /\ nextLine'[u] = nextLine[u]
      BY <1>1, <2>2 DEF TypeOK
    <3>2. QED
      BY <1>1, <3>1, OtherView DEF BalanceInv
  <2>3. QED
    BY <2>1, <2>2
<1>5. QED
  BY <1>1, <1>3, <1>4, BalancesKept DEF BalanceInv

(* A commit that writes an outdated copy is noted, and such a copy is of an   *)
(* account that the caller had read before; any other adds what it posted.   *)
LEMMA CommitBalance ==
  ASSUME IInv, QueryInv, BalanceInv, NEW w \in Workers, Commit(w), overwritten \subseteq overwritten',
         {a \in Touched(w) : Outdated(w, a)} \subseteq overwritten'
  PROVE  BalanceInv'
<1>1. /\ TypeOK /\ phase[w] = "open" /\ pending[w] # <<>> /\ chainLock = w
      /\ phase' = [phase EXCEPT ![w] = "idle"]
      /\ loaded' = [loaded EXCEPT ![w] = {}]
      /\ view' = [view EXCEPT ![w] = [a \in Accounts |-> 0]]
      /\ pending' = [pending EXCEPT ![w] = <<>>]
      /\ nextLine' = [nextLine EXCEPT ![w] = 1]
      /\ UNCHANGED <<clock, startedAt>>
      /\ balance' = [a \in Accounts |-> IF a \in Touched(w) THEN view[w][a] ELSE balance[a]]
      /\ journal' = journal \o pending[w]
  BY DEF IInv, SingleWriter, Commit, CloseSession
<1>2. /\ pending'[w] = <<>> /\ loaded'[w] = {}
      /\ \A u \in Workers : u # w =>
           /\ view'[u] = view[u] /\ loaded'[u] = loaded[u] /\ pending'[u] = pending[u]
           /\ phase'[u] = phase[u] /\ nextLine'[u] = nextLine[u]
  BY <1>1 DEF TypeOK
<1>3. journal \in Seq(Entry) /\ pending[w] \in Seq(Entry)
  BY <1>1 DEF TypeOK
<1> DEFINE E == EntriesOf(journal)
           F == EntriesOf(pending[w])
<1>4. EntriesOf(journal') = E \cup F
  BY <1>1, <1>3, EntriesOfConcat
<1>5. EntriesStand'
  <2>1. \A u \in Workers : EntriesOf(pending'[u]) \subseteq EntriesOf(pending[u])
    BY <1>2 DEF EntriesOf
  <2>2. \A e \in F : Submitted(e) /\ e.createdAt = startedAt[w] /\ startedAt[w] <= clock
    BY DEF BalanceInv, EntriesStand, QueryInv, PendingDates
  <2>3. \A e \in EntriesOf(journal') : Submitted(e) /\ e.createdAt <= clock
    BY <1>4, <2>2 DEF BalanceInv, EntriesStand
  <2>4. \A u \in Workers : \A e \in EntriesOf(pending'[u]) : Submitted(e)
    BY <2>1 DEF BalanceInv, EntriesStand
  <2>5. QED
    BY <1>1, <2>3, <2>4 DEF BalanceInv, EntriesStand, EntriesOf
<1>6. ASSUME NEW u \in Workers PROVE ViewStands(u)'
  <2>1. CASE u = w
    <3>1. EntriesOf(pending[w])' = {}
      BY <1>2 DEF EntriesOf
    <3>2. QED
      BY <1>2, <2>1, <3>1 DEF ViewStands, Touched
  <2>2. CASE u # w
    BY <1>1, <1>2, <2>2, OtherView DEF BalanceInv
  <2>3. QED
    BY <2>1, <2>2
<1>7. E \cap F = {}
  <2>1. AllGood(journal \o pending[w]) /\ journal \o pending[w] \in Seq(Entry)
    BY <1>3 DEF IInv, PendingIsGood
  <2>2. ASSUME NEW e \in E, e \in F PROVE FALSE
    <3>1. PICK h \in DOMAIN journal : journal[h] = e
      BY DEF EntriesOf
    <3>2. PICK i \in DOMAIN pending[w] : pending[w][i] = e
      BY <2>2 DEF EntriesOf
    <3> DEFINE j == journal \o pending[w]
    <3>3. h \in DOMAIN j /\ Len(journal) + i \in DOMAIN j /\ h # Len(journal) + i
          /\ j[h] = e /\ j[Len(journal) + i] = e
      BY <1>3, <3>1, <3>2
    <3> HIDE DEF j
    <3>4. AllGood(j) /\ j \in Seq(Entry)
      BY <2>1 DEF j
    <3>5. QED
      BY <3>3, <3>4, KeysApart
  <2>3. QED
    BY <2>2
<1>8. ASSUME NEW a
      PROVE  Postings(E \cup F, a) = Postings(E, a) + Own(w, a) /\ Postings(E, a) \in Int
  <2>1. /\ IsFiniteSet(E) /\ \A x \in E : Posted(x, a) \in Int
        /\ IsFiniteSet(F) /\ \A x \in F : Posted(x, a) \in Int
    BY <1>3, FiniteEntries, PostedLine DEF BalanceInv, EntriesStand
  <2> HIDE DEF E, F
  <2>2. /\ Postings(E \cup F, a) = Postings(E, a) + Postings(F, a)
        /\ Postings(E, a) \in Int
    BY <1>7, <2>1, PostingsOfUnion
  <2>3. QED
    BY <2>2 DEF Own, F
<1>9. ASSUME NEW a \in Accounts, a \notin overwritten' \cap ReadFirst
      PROVE  balance'[a] = Postings(E \cup F, a)
  <2>1. balance[a] = Postings(E, a)
    BY <1>9 DEF BalanceInv, BalancesStand
  <2>2. CASE a \in Touched(w)
    <3>1. balance'[a] = view[w][a]
      BY <1>1, <2>2
    <3>2. view[w][a] = balance[a] + Own(w, a)
      <4>1. CASE a \in ReadFirst
        <5>1. ~Outdated(w, a)
          BY <1>9, <2>2, <4>1
        <5>2. QED
          BY <5>1 DEF Outdated
      <4>2. CASE a \notin ReadFirst
        <5>1. CopyStands(w, a)
          BY <2>2, <4>2 DEF BalanceInv, ViewStands
        <5>2. Unapplied(w, a) = {}
          BY <1>1 DEF Unapplied
        <5>3. QED
          BY <5>1, <5>2 DEF CopyStands
      <4>3. QED
        BY <4>1, <4>2
    <3>3. QED
      BY <1>8, <2>1, <3>1, <3>2
  <2>3. CASE a \notin Touched(w)
    <3>1. Own(w, a) = 0 /\ balance'[a] = balance[a]
      BY <1>1, <2>3, UntouchedOwn
    <3>2. Postings(E \cup F, a) = Postings(E, a) + Own(w, a) /\ Postings(E, a) \in Int
      BY <1>8
    <3> HIDE DEF E, F
    <3>3. QED
      BY <2>1, <3>1, <3>2
  <2>4. QED
    BY <2>2, <2>3
<1>10. BalancesStand'
  <2>1. EntriesOf(journal)' = E \cup F
    BY <1>4 DEF EntriesOf
  <2> HIDE DEF E, F
  <2>2. QED
    BY <1>9, <2>1 DEF BalancesStand
<1>11. QED
  BY <1>5, <1>6, <1>10 DEF BalanceInv

-----------------------------------------------------------------------------
(* Pages.                                                                    *)

Row == [id : Nat, createdAt : Nat, delta : Int]

(* Rows that ORDER BY created_at DESC, id DESC puts in one order.            *)
Keyed(rows) ==
  IsFiniteSet(rows) /\ rows \subseteq Row /\ \A p, q \in rows : p.id = q.id => p = q

(* Posting ids are unique, and so are the keys of committed entries.         *)
LEMMA RowsAreKeyed ==
  ASSUME IInv, EntriesStand
  PROVE  Keyed(Rows(Codes))
<1> DEFINE E == EntriesOf(journal)
<1>1. journal \in Seq(Entry) /\ AllGood(journal)
  BY DEF IInv, TypeOK
<1>2. IsFiniteSet(E) /\ \A e \in E : Submitted(e) /\ e \in Entry
  BY <1>1, FiniteEntries DEF EntriesStand, EntriesOf
<1>3. Rows(Codes) = UNION {EntryRows(e, Codes) : e \in E}
  BY DEF Rows, EntryRows
<1>4. ASSUME NEW e \in E, NEW p \in EntryRows(e, Codes)
      PROVE  \E j \in DOMAIN e.lines :
               /\ p = [id |-> PostingId[e.key][j], createdAt |-> e.createdAt,
                       delta |-> AccountDelta(e.lines[j])]
               /\ e.key \in Keys /\ j \in DOMAIN PostingId[e.key]
               /\ p \in Row
  <2>1. PICK j \in DOMAIN e.lines :
               p = [id |-> PostingId[e.key][j], createdAt |-> e.createdAt,
                    delta |-> AccountDelta(e.lines[j])]
    BY <1>4 DEF EntryRows
  <2>2. /\ e.key \in Keys /\ j \in DOMAIN PostingId[e.key] /\ PostingId[e.key] \in Seq(Nat)
        /\ e.lines \in Seq(Line)
    BY <1>2, QueryAssumption, RequestAssumption DEF Submitted, Request
  <2>3. PostingId[e.key][j] \in Nat /\ e.createdAt \in Nat
    BY <1>2, <2>2 DEF Entry
  <2>4. AccountDelta(e.lines[j]) \in Int
    <3>1. \A line \in Line : AccountDelta(line) \in Int
      BY DEF AccountDelta, Line
    <3>2. e.lines[j] \in Line
      BY <2>1, <2>2
    <3>3. QED
      BY <3>1, <3>2
  <2>5. QED
    BY <2>1, <2>2, <2>3, <2>4 DEF Row
<1>5. Rows(Codes) \subseteq Row
  <2> HIDE DEF E
  <2>1. QED
    BY <1>3, <1>4
<1>6. IsFiniteSet(Rows(Codes))
  <2>1. ASSUME NEW e \in E PROVE IsFiniteSet(EntryRows(e, Codes))
    <3> DEFINE D == DOMAIN e.lines
               f == [j \in D |-> [id |-> PostingId[e.key][j], createdAt |-> e.createdAt,
                                  delta |-> AccountDelta(e.lines[j])]]
               T == {f[j] : j \in D}
    <3>1. D = 1..Len(e.lines) /\ Len(e.lines) \in Nat
      BY <1>2 DEF Entry
    <3>2. IsFiniteSet(D)
      BY <3>1, FS_Interval
    <3>3. EntryRows(e, Codes) \subseteq T
      BY DEF EntryRows
    <3>4. f \in Surjection(D, T)
      BY DEF Surjection
    <3> HIDE DEF D, f, T
    <3>5. IsFiniteSet(T)
      BY <3>2, <3>4, FS_Surjection
    <3>6. QED
      BY <3>3, <3>5, FS_Subset
  <2> DEFINE g == [e \in E |-> EntryRows(e, Codes)]
             U == {g[e] : e \in E}
  <2>2. /\ g \in Surjection(E, U) /\ \A T \in U : IsFiniteSet(T)
        /\ Rows(Codes) = UNION U
    BY <1>3, <2>1 DEF Surjection
  <2> HIDE DEF E, g, U
  <2>3. IsFiniteSet(U)
    BY <1>2, <2>2, FS_Surjection
  <2>4. QED
    BY <2>2, <2>3, FS_UNION
<1>7. ASSUME NEW p \in Rows(Codes), NEW q \in Rows(Codes), p.id = q.id PROVE p = q
  <2>1. PICK e \in E : p \in EntryRows(e, Codes)
    BY <1>3
  <2>2. PICK f \in E : q \in EntryRows(f, Codes)
    BY <1>3
  <2>3. PICK i \in DOMAIN e.lines :
          /\ p = [id |-> PostingId[e.key][i], createdAt |-> e.createdAt,
                  delta |-> AccountDelta(e.lines[i])]
          /\ e.key \in Keys /\ i \in DOMAIN PostingId[e.key]
    BY <1>4, <2>1
  <2>4. PICK j \in DOMAIN f.lines :
          /\ q = [id |-> PostingId[f.key][j], createdAt |-> f.createdAt,
                  delta |-> AccountDelta(f.lines[j])]
          /\ f.key \in Keys /\ j \in DOMAIN PostingId[f.key]
    BY <1>4, <2>2
  <2>5. PICK k, l : k = e.key /\ l = f.key
    OBVIOUS
  <2>6. PostingId[k][i] = PostingId[l][j] => k = l /\ i = j
    BY <2>3, <2>4, <2>5, QueryAssumption
  <2>7. PostingId[k][i] = PostingId[l][j]
    BY <1>7, <2>3, <2>4, <2>5
  <2>8. e = f
    <3>1. PICK h \in DOMAIN journal : journal[h] = e
      BY DEF EntriesOf
    <3>2. PICK m \in DOMAIN journal : journal[m] = f
      BY DEF EntriesOf
    <3>3. journal[h].key = journal[m].key
      BY <2>5, <2>6, <2>7, <3>1, <3>2
    <3>4. QED
      BY <1>1, <3>1, <3>2, <3>3, KeysApart
  <2>9. QED
    BY <2>3, <2>4, <2>6, <2>7, <2>8
<1>8. QED
  BY <1>5, <1>6, <1>7 DEF Keyed

(* The rows of R that are listed before p.                                   *)
NewerRows(R, p) == {q \in R : Older(p, q)}

(* Rows with different ids are never tied.                                   *)
LEMMA OlderIsTotal ==
  ASSUME NEW R, Keyed(R)
  PROVE  /\ \A p \in R : ~Older(p, p)
         /\ \A p, q \in R : p # q => Older(p, q) \/ Older(q, p)
         /\ \A p, q, o \in R : Older(p, q) /\ Older(q, o) => Older(p, o)
<1>1. \A p \in R : p.id \in Nat /\ p.createdAt \in Nat
  BY DEF Keyed, Row
<1>2. \A p, q \in R : p # q => p.id # q.id
  BY DEF Keyed
<1>3. QED
  BY <1>1, <1>2 DEF Older

(* The place of a row in the order is how many come before it: every place   *)
(* up to the number of rows is taken by one row.                             *)
LEMMA Places ==
  ASSUME NEW R, Keyed(R)
  PROVE  /\ Cardinality(R) \in Nat
         /\ \A p \in R : Cardinality(NewerRows(R, p)) \in 0..(Cardinality(R) - 1)
         /\ \A p, q \in R : Older(p, q) <=> Cardinality(NewerRows(R, q)) < Cardinality(NewerRows(R, p))
         /\ \A i \in 1..Cardinality(R) : \E p \in R : Cardinality(NewerRows(R, p)) = i - 1
<1> DEFINE n == Cardinality(R)
           rank == [p \in R |-> Cardinality(NewerRows(R, p))]
<1>1. IsFiniteSet(R) /\ n \in Nat
  BY FS_CardinalityType DEF Keyed
<1>2. ASSUME NEW p \in R PROVE IsFiniteSet(NewerRows(R, p)) /\ rank[p] \in 0..(n - 1)
  <2>1. NewerRows(R, p) \in SUBSET (R \ {p})
    BY OlderIsTotal DEF NewerRows
  <2>2. IsFiniteSet(R \ {p}) /\ Cardinality(R \ {p}) = n - 1
    BY <1>1, FS_RemoveElement
  <2>3. IsFiniteSet(NewerRows(R, p)) /\ Cardinality(NewerRows(R, p)) <= n - 1
    BY <2>1, <2>2, FS_Subset
  <2>4. Cardinality(NewerRows(R, p)) \in Nat
    BY <2>3, FS_CardinalityType
  <2>5. QED
    BY <1>1, <2>3, <2>4
<1>3. ASSUME NEW p \in R, NEW q \in R, Older(p, q) PROVE rank[q] < rank[p]
  <2>1. NewerRows(R, q) \in SUBSET (NewerRows(R, p) \ {q}) /\ q \in NewerRows(R, p)
    BY <1>3, OlderIsTotal DEF NewerRows
  <2>2. /\ IsFiniteSet(NewerRows(R, p) \ {q})
        /\ Cardinality(NewerRows(R, p) \ {q}) = Cardinality(NewerRows(R, p)) - 1
    BY <1>2, <2>1, FS_RemoveElement
  <2>3. Cardinality(NewerRows(R, q)) <= Cardinality(NewerRows(R, p) \ {q})
    BY <2>1, <2>2, FS_Subset
  <2>4. QED
    BY <1>2, <2>2, <2>3
<1>4. rank \in Injection(R, 0..(n - 1))
  <2>1. rank \in [R -> 0..(n - 1)]
    BY <1>2
  <2>2. ASSUME NEW p \in R, NEW q \in R, rank[p] = rank[q] PROVE p = q
    <3> HIDE DEF rank
    <3>1. rank[p] \in Int /\ rank[q] \in Int
      BY <2>1
    <3>2. QED
      BY <1>3, <2>2, <3>1, OlderIsTotal
  <2>3. QED
    BY <2>1, <2>2 DEF Injection, IsInjective
<1>5. rank \in Surjection(R, 0..(n - 1))
  <2>1. IsFiniteSet(0..(n - 1)) /\ Cardinality(0..(n - 1)) = n
    BY <1>1, FS_Interval
  <2> HIDE DEF rank, n
  <2>2. QED
    BY <1>4, <2>1, FS_Injection DEF n
<1>6. ASSUME NEW p \in R, NEW q \in R PROVE Older(p, q) <=> rank[q] < rank[p]
  <2>1. rank[p] \in Int /\ rank[q] \in Int
    BY <1>2
  <2> HIDE DEF rank
  <2>2. QED
    BY <1>3, <2>1, OlderIsTotal
<1>7. ASSUME NEW i \in 1..n PROVE \E p \in R : rank[p] = i - 1
  <2>1. i - 1 \in 0..(n - 1)
    BY <1>1
  <2> HIDE DEF rank
  <2>2. QED
    BY <1>5, <2>1 DEF Surjection
<1>8. QED
  BY <1>1, <1>2, <1>6, <1>7

(* The first rows in the order: those that are not among them are older, and *)
(* there are some only if the limit is reached.                              *)
Newest(R, limit) ==
  [i \in 1..(IF Cardinality(R) < limit THEN Cardinality(R) ELSE limit) |->
     CHOOSE p \in R : Cardinality(NewerRows(R, p)) = i - 1]

LEMMA NewestFirst ==
  ASSUME NEW R, Keyed(R), NEW limit \in Nat, NEW rows, rows = Newest(R, limit)
  PROVE  /\ rows \in Seq(R) /\ Len(rows) <= limit
         /\ \A i, j \in DOMAIN rows : i < j => Older(rows[j], rows[i])
         /\ \A p \in R : \/ \E i \in DOMAIN rows : rows[i] = p
                         \/ Len(rows) = limit /\ \A i \in DOMAIN rows : Older(p, rows[i])
<1> DEFINE n == Cardinality(R)
           k == IF n < limit THEN n ELSE limit
           Place(p) == Cardinality(NewerRows(R, p))
<1>1. /\ n \in Nat
      /\ \A p \in R : Place(p) \in 0..(n - 1)
      /\ \A p, q \in R : Older(p, q) <=> Place(q) < Place(p)
      /\ \A i \in 1..n : \E p \in R : Place(p) = i - 1
  BY Places
<1>2. k \in Nat /\ k <= n /\ k <= limit /\ (k < n => k = limit)
  BY <1>1
<1>3. rows = [i \in 1..k |-> CHOOSE p \in R : Place(p) = i - 1]
  BY DEF Newest
<1> HIDE DEF n, k, Place
<1>4. \A i \in 1..k : rows[i] \in R /\ Place(rows[i]) = i - 1
  BY <1>1, <1>2, <1>3
<1>5. rows \in Seq(R) /\ Len(rows) = k /\ DOMAIN rows = 1..k
  BY <1>2, <1>3, <1>4
<1>6. \A i, j \in 1..k : i < j => Older(rows[j], rows[i])
  BY <1>1, <1>4
<1>7. ASSUME NEW p \in R
      PROVE  \/ \E i \in 1..k : rows[i] = p
             \/ k = limit /\ \A i \in 1..k : Older(p, rows[i])
  <2>1. Place(p) \in 0..(n - 1)
    BY <1>1
  <2>2. CASE Place(p) < k
    <3>1. PICK i \in 1..k : i - 1 = Place(p)
      BY <1>2, <2>1, <2>2
    <3>2. rows[i] \in R /\ Place(rows[i]) = Place(p)
      BY <1>4, <3>1
    <3>3. ~Older(p, rows[i]) /\ ~Older(rows[i], p)
      BY <1>1, <2>1, <3>2
    <3>4. QED
      BY <3>2, <3>3, OlderIsTotal
  <2>3. CASE ~(Place(p) < k)
    <3>1. k < n
      BY <1>1, <1>2, <2>1, <2>3
    <3>2. \A i \in 1..k : Older(p, rows[i])
      BY <1>1, <1>2, <1>4, <2>1, <2>3
    <3>3. QED
      BY <1>2, <3>1, <3>2
  <2>4. QED
    BY <2>2, <2>3
<1>8. QED
  BY <1>2, <1>5, <1>6, <1>7

(* A page holds the newest of the rows R after the cursor.  If there are     *)
(* more than its last row has all of them behind it.                         *)
IsPage(page, rows, R) ==
  /\ page \in Seq(R)
  /\ \A i, j \in DOMAIN page : i < j => Older(page[j], page[i])
  /\ ~(Len(rows) > PageLimit) => \A p \in R : \E i \in DOMAIN page : page[i] = p
  /\ Len(rows) > PageLimit =>
       /\ page[PageLimit] \in R
       /\ \A i \in DOMAIN page : page[i] = page[PageLimit] \/ Older(page[PageLimit], page[i])
       /\ \A p \in R : (\E i \in DOMAIN page : page[i] = p) \/ Older(p, page[PageLimit])

LEMMA PageOf ==
  ASSUME NEW R, Keyed(R), NEW rows, rows = Newest(R, PageLimit + 1),
         NEW k, k = IF Len(rows) < PageLimit THEN Len(rows) ELSE PageLimit,
         NEW page, page = SubSeq(rows, 1, k)
  PROVE  IsPage(page, rows, R)
<1>1. PageLimit \in Nat /\ PageLimit > 0
  BY QueryAssumption
<1>2. /\ rows \in Seq(R) /\ Len(rows) <= PageLimit + 1
      /\ \A i, j \in DOMAIN rows : i < j => Older(rows[j], rows[i])
      /\ \A p \in R :
           \/ \E i \in DOMAIN rows : rows[i] = p
           \/ Len(rows) = PageLimit + 1 /\ \A i \in DOMAIN rows : Older(p, rows[i])
  <2>1. PICK limit \in Nat : limit = PageLimit + 1
    BY <1>1
  <2>2. rows = Newest(R, limit)
    BY <2>1
  <2>3. /\ rows \in Seq(R) /\ Len(rows) <= limit
        /\ \A i, j \in DOMAIN rows : i < j => Older(rows[j], rows[i])
        /\ \A p \in R :
             \/ \E i \in DOMAIN rows : rows[i] = p
             \/ Len(rows) = limit /\ \A i \in DOMAIN rows : Older(p, rows[i])
    BY <2>2, NewestFirst, Zenon
  <2>4. QED
    BY <2>1, <2>3
<1>3. /\ Len(rows) \in Nat /\ k \in Nat /\ k <= Len(rows) /\ k <= PageLimit
      /\ Len(rows) > PageLimit => k = PageLimit /\ Len(rows) = PageLimit + 1
      /\ ~(Len(rows) > PageLimit) => k = Len(rows) /\ Len(rows) # PageLimit + 1
  <2>1. Len(rows) \in Nat /\ Len(rows) <= PageLimit + 1
    BY <1>2
  <2>2. QED
    BY <1>1, <2>1
<1>4. DOMAIN rows = 1..Len(rows) /\ \A i \in 1..k : i \in DOMAIN rows
  <2>1. DOMAIN rows = 1..Len(rows)
    BY <1>2
  <2>2. \A i \in 1..k : i \in 1..Len(rows)
    BY <1>3
  <2>3. QED
    BY <2>1, <2>2
<1>5. page \in Seq(R) /\ DOMAIN page = 1..k /\ \A i \in 1..k : page[i] = rows[i]
  BY <1>2, <1>3
<1>6. \A i, j \in DOMAIN page : i < j => Older(page[j], page[i])
  BY <1>2, <1>4, <1>5
<1>7. CASE Len(rows) > PageLimit
  <2>1. k = PageLimit /\ PageLimit \in 1..k /\ PageLimit + 1 \in DOMAIN rows
    BY <1>1, <1>3, <1>4, <1>7
  <2>2. page[PageLimit] = rows[PageLimit] /\ page[PageLimit] \in R
    BY <1>2, <1>4, <1>5, <2>1
  <2>3. \A i \in 1..k : page[i] = page[PageLimit] \/ Older(page[PageLimit], page[i])
    <3>1. \A i \in 1..k : i = PageLimit \/ i < PageLimit
      BY <1>1, <2>1
    <3>2. QED
      BY <1>5, <1>6, <2>1, <3>1
  <2>4. ASSUME NEW p \in R
        PROVE  (\E i \in 1..k : page[i] = p) \/ Older(p, page[PageLimit])
    <3>1. CASE \E i \in DOMAIN rows : rows[i] = p
      <4>1. PICK i \in DOMAIN rows : rows[i] = p
        BY <3>1
      <4>2. i \in 1..k \/ i = PageLimit + 1
        BY <1>1, <1>3, <1>4, <2>1
      <4>3. i = PageLimit + 1 => Older(p, rows[PageLimit])
        BY <1>1, <1>2, <1>4, <2>1, <4>1
      <4>4. QED
        BY <1>5, <2>2, <4>1, <4>2, <4>3
    <3>2. CASE \A i \in DOMAIN rows : Older(p, rows[i])
      BY <1>4, <2>1, <2>2, <3>2
    <3>3. QED
      BY <1>2, <3>1, <3>2
  <2>5. QED
    BY <1>5, <1>6, <1>7, <2>2, <2>3, <2>4 DEF IsPage
<1>8. CASE ~(Len(rows) > PageLimit)
  <2>1. k = Len(rows) /\ Len(rows) # PageLimit + 1
    BY <1>3, <1>8
  <2>2. \A p \in R : \E i \in DOMAIN rows : rows[i] = p
    BY <1>2, <2>1
  <2>3. \A p \in R : \E i \in DOMAIN page : page[i] = p
    BY <1>4, <1>5, <2>1, <2>2
  <2>4. QED
    BY <1>5, <1>6, <1>8, <2>3 DEF IsPage
<1>9. QED
  BY <1>7, <1>8

(* Two sequences without duplicates and without a common element.            *)
LEMMA ConcatIsInjective ==
  ASSUME NEW S, NEW s \in Seq(S), NEW t \in Seq(S),
         \A i, j \in DOMAIN s : s[i] = s[j] => i = j,
         \A i, j \in DOMAIN t : t[i] = t[j] => i = j,
         \A i \in DOMAIN t : t[i] \notin EntriesOf(s)
  PROVE  \A i, j \in DOMAIN (s \o t) : (s \o t)[i] = (s \o t)[j] => i = j
<1> DEFINE u == s \o t
<1>1. /\ DOMAIN s = 1..Len(s) /\ DOMAIN t = 1..Len(t)
      /\ DOMAIN u = 1..(Len(s) + Len(t))
      /\ Len(s) \in Nat /\ Len(t) \in Nat
      /\ \A i \in 1..Len(s) : u[i] = s[i]
      /\ \A i \in 1..Len(t) : u[Len(s) + i] = t[i]
  OBVIOUS
<1> HIDE DEF u
<1>2. ASSUME NEW i \in DOMAIN u
      PROVE  \/ i \in DOMAIN s /\ u[i] = s[i]
             \/ i > Len(s) /\ i - Len(s) \in DOMAIN t /\ u[i] = t[i - Len(s)]
  <2>1. i > Len(s) => i - Len(s) \in 1..Len(t) /\ i = Len(s) + (i - Len(s))
    BY <1>1
  <2>2. ~(i > Len(s)) => i \in 1..Len(s)
    BY <1>1
  <2>3. QED
    BY <1>1, <2>1, <2>2
<1>3. ASSUME NEW i \in DOMAIN u, NEW j \in DOMAIN u, u[i] = u[j] PROVE i = j
  <2>1. CASE i \in DOMAIN s /\ u[i] = s[i]
    <3>1. u[j] \in EntriesOf(s)
      BY <1>3, <2>1 DEF EntriesOf
    <3>2. j \in DOMAIN s /\ u[j] = s[j]
      BY <1>2, <3>1
    <3>3. QED
      BY <1>3, <2>1, <3>2
  <2>2. CASE i > Len(s) /\ i - Len(s) \in DOMAIN t /\ u[i] = t[i - Len(s)]
    <3>1. u[j] \notin EntriesOf(s)
      BY <1>3, <2>2
    <3>2. ~(j \in DOMAIN s /\ u[j] = s[j])
      BY <3>1 DEF EntriesOf
    <3>3. j > Len(s) /\ j - Len(s) \in DOMAIN t /\ u[j] = t[j - Len(s)]
      BY <1>2, <3>2
    <3>4. i - Len(s) = j - Len(s)
      BY <1>3, <2>2, <3>3
    <3>5. i \in Int /\ j \in Int /\ Len(s) \in Int
      BY <1>1
    <3>6. QED
      BY <3>4, <3>5
  <2>3. QED
    BY <1>2, <2>1, <2>2
<1>4. QED
  BY <1>3 DEF u

(* What holds of a listing l of rows: the ids that were given are ids of     *)
(* different rows, none behind the cursor, and none is missing up to it.     *)
ListingStands(l, rows) ==
  /\ l.given \in Seq(Nat)
  /\ \A i, j \in DOMAIN l.given : l.given[i] = l.given[j] => i = j
  /\ l.cursor # None => l.cursor \in rows
  /\ \A id \in EntriesOf(l.given) :
       \E p \in rows : p.id = id /\ (l.cursor # None => ~Older(p, l.cursor))
  /\ \A id \in l.known : \E p \in rows : p.id = id
  /\ \A p \in rows :
       p.id \in l.known /\ (l.cursor # None => ~Older(p, l.cursor))
       => p.id \in EntriesOf(l.given)

PageInv == listing # None => ListingStands(listing, Rows(Codes))

(* The next page goes on where the last one ended.                           *)
LEMMA TurnPage ==
  ASSUME Keyed(Rows(Codes)),
         NEW given \in Seq(Nat),
         \A i, j \in DOMAIN given : given[i] = given[j] => i = j,
         NEW known, \A id \in known : \E p \in Rows(Codes) : p.id = id,
         NEW cursor, cursor # None => cursor \in Rows(Codes),
         \A id \in EntriesOf(given) : cursor # None /\
           \E p \in Rows(Codes) : p.id = id /\ ~Older(p, cursor),
         \A p \in Rows(Codes) :
           p.id \in known /\ cursor # None /\ ~Older(p, cursor) => p.id \in EntriesOf(given)
  PROVE  ListingStands(Page(given, known, cursor), Rows(Codes))
<1>1. PICK all, R, next :
        /\ all = Rows(Codes)
        /\ R = {p \in all : BeforeCursor(p, cursor)}
        /\ next = Page(given, known, cursor)
  OBVIOUS
<1>2. Keyed(R) /\ R \subseteq all
  BY <1>1, FS_Subset DEF Keyed
<1>3. PICK rows, k, page :
        /\ rows = Newest(R, PageLimit + 1)
        /\ k = IF Len(rows) < PageLimit THEN Len(rows) ELSE PageLimit
        /\ page = SubSeq(rows, 1, k)
  OBVIOUS
<1>4. /\ next.given = given \o [i \in DOMAIN page |-> page[i].id]
      /\ next.known = known
      /\ next.cursor = IF Len(rows) > PageLimit THEN page[PageLimit] ELSE None
  <2>1. rows = ListAccountActivity(Codes, PageLimit + 1, cursor)
    BY <1>1, <1>3 DEF ListAccountActivity, Newest, NewerRows
  <2>2. QED
    BY <1>1, <1>3, <2>1 DEF Page
<1>5. /\ page \in Seq(R)
      /\ \A i, j \in DOMAIN page : i < j => Older(page[j], page[i])
      /\ ~(Len(rows) > PageLimit) => \A p \in R : \E i \in DOMAIN page : page[i] = p
      /\ Len(rows) > PageLimit =>
           /\ page[PageLimit] \in R
           /\ \A i \in DOMAIN page :
                page[i] = page[PageLimit] \/ Older(page[PageLimit], page[i])
           /\ \A p \in R : \/ \E i \in DOMAIN page : page[i] = p
                           \/ Older(p, page[PageLimit])
  <2>1. Keyed(R)
    BY <1>2
  <2>2. IsPage(page, rows, R)
    BY <1>3, <2>1, PageOf
  <2>3. QED
    BY <2>2 DEF IsPage
<1>6. PICK ids : ids = [i \in DOMAIN page |-> page[i].id]
  OBVIOUS
<1>7. /\ ids \in Seq(Nat) /\ DOMAIN ids = DOMAIN page
      /\ \A i \in DOMAIN page : page[i] \in R /\ ids[i] = page[i].id
  <2>1. DOMAIN page = 1..Len(page) /\ Len(page) \in Nat /\ \A i \in DOMAIN page : page[i] \in R
    BY <1>5
  <2>2. \A p \in R : p.id \in Nat
    BY <1>2 DEF Keyed, Row
  <2>3. QED
    BY <1>6, <2>1, <2>2
<1>8. next.given = given \o ids
  BY <1>4, <1>6
<1>9. EntriesOf(next.given) = EntriesOf(given) \cup EntriesOf(ids) /\ next.given \in Seq(Nat)
  BY <1>7, <1>8, EntriesOfConcat
<1>10. \A p, q \in all : p.id = q.id => p = q
  BY <1>1 DEF Keyed
<1>11. \A p \in R : p.id \notin EntriesOf(given)
  <2>1. ASSUME NEW p \in R, p.id \in EntriesOf(given) PROVE FALSE
    <3>1. cursor # None /\ \E q \in all : q.id = p.id /\ ~Older(q, cursor)
      BY <1>1, <2>1
    <3>2. Older(p, cursor)
      BY <1>1, <3>1 DEF BeforeCursor
    <3>3. QED
      BY <1>2, <1>10, <3>1, <3>2
  <2>2. QED
    BY <2>1
<1>12. \A i, j \in DOMAIN ids : ids[i] = ids[j] => i = j
  <2>1. ASSUME NEW i \in DOMAIN page, NEW j \in DOMAIN page, page[i] = page[j], i < j
        PROVE  FALSE
    BY <1>2, <1>5, <1>7, <2>1, OlderIsTotal
  <2>2. \A i, j \in DOMAIN page : i = j \/ i < j \/ j < i
    <3>1. DOMAIN page = 1..Len(page)
      BY <1>5
    <3>2. QED
      BY <3>1
  <2>3. \A i, j \in DOMAIN page : page[i].id = page[j].id => page[i] = page[j]
    BY <1>2, <1>7, <1>10
  <2>4. QED
    BY <1>7, <2>1, <2>2, <2>3
<1>13. \A i, j \in DOMAIN next.given : next.given[i] = next.given[j] => i = j
  <2>1. \A i \in DOMAIN ids : ids[i] \notin EntriesOf(given)
    BY <1>7, <1>11
  <2>2. \A i, j \in DOMAIN (given \o ids) : (given \o ids)[i] = (given \o ids)[j] => i = j
    BY <1>7, <1>12, <2>1, ConcatIsInjective
  <2>3. QED
    BY <1>8, <2>2
<1>14. next.cursor # None =>
         /\ Len(rows) > PageLimit /\ next.cursor = page[PageLimit] /\ next.cursor \in R
  BY <1>4, <1>5
<1>15. ASSUME NEW id \in EntriesOf(next.given)
       PROVE  \E p \in all : p.id = id /\ (next.cursor # None => ~Older(p, next.cursor))
  <2>1. CASE id \in EntriesOf(given)
    <3>1. PICK p \in all : cursor # None /\ p.id = id /\ ~Older(p, cursor)
      BY <1>1, <2>1
    <3>2. ASSUME next.cursor # None, Older(p, next.cursor) PROVE FALSE
      <4>1. next.cursor \in all /\ cursor \in all /\ Older(next.cursor, cursor)
        BY <1>1, <1>14, <3>1, <3>2 DEF BeforeCursor
      <4>2. Keyed(all)
        BY <1>1
      <4>3. QED
        BY <3>1, <3>2, <4>1, <4>2, OlderIsTotal
    <3>3. QED
      BY <3>1, <3>2
  <2>2. CASE id \in EntriesOf(ids)
    <3>1. PICK i \in DOMAIN page : page[i] \in R /\ page[i].id = id
      BY <1>7, <2>2 DEF EntriesOf
    <3>2. ASSUME next.cursor # None, Older(page[i], next.cursor) PROVE FALSE
      BY <1>2, <1>5, <1>14, <3>1, <3>2, OlderIsTotal
    <3>3. QED
      BY <1>2, <3>1, <3>2
  <2>3. QED
    BY <1>9, <2>1, <2>2
<1>16. ASSUME NEW p \in all, p.id \in known, next.cursor # None => ~Older(p, next.cursor)
       PROVE  p.id \in EntriesOf(next.given)
  <2>1. CASE p \in R
    <3>1. PICK i \in DOMAIN page : page[i] = p
      <4>1. CASE Len(rows) > PageLimit
        <5>1. next.cursor = page[PageLimit] /\ next.cursor # None
          <6>1. None \notin R
            BY <1>2, QueryAssumption DEF Keyed, Row
          <6>2. QED
            BY <1>4, <1>5, <4>1, <6>1
        <5>2. QED
          BY <1>5, <1>16, <2>1, <4>1, <5>1
      <4>2. CASE ~(Len(rows) > PageLimit)
        BY <1>5, <2>1, <4>2
      <4>3. QED
        BY <4>1, <4>2
    <3>2. p.id \in EntriesOf(ids)
      BY <1>7, <3>1 DEF EntriesOf
    <3>3. QED
      BY <1>9, <3>2
  <2>2. CASE p \notin R
    <3>1. cursor # None /\ ~Older(p, cursor)
      BY <1>1, <2>2 DEF BeforeCursor
    <3>2. QED
      BY <1>1, <1>9, <1>16, <3>1
  <2>3. QED
    BY <2>1, <2>2
<1>17. QED
  <2>1. \A id \in next.known : \E p \in all : p.id = id
    BY <1>1, <1>4
  <2>2. ListingStands(next, all)
    BY <1>2, <1>4, <1>9, <1>13, <1>14, <1>15, <1>16, <2>1 DEF ListingStands
  <2>3. QED
    BY <1>1, <2>2

(* The listing stands while rows are added: those have other ids.            *)
LEMMA ListingKept ==
  ASSUME NEW l, NEW R, ListingStands(l, R), NEW T, R \subseteq T, Keyed(T)
  PROVE  ListingStands(l, T)
<1>1. ASSUME NEW p \in T, p.id \in l.known, l.cursor # None => ~Older(p, l.cursor)
      PROVE  p.id \in EntriesOf(l.given)
  <2>1. PICK q \in R : q.id = p.id
    BY <1>1 DEF ListingStands
  <2>2. p \in R
    BY <2>1 DEF Keyed
  <2>3. QED
    BY <1>1, <2>2 DEF ListingStands
<1>2. QED
  BY <1>1 DEF ListingStands

(* Commits add entries to the journal, and no step removes one.              *)
LEMMA RowsGrow ==
  ASSUME IInv, LedgerStep
  PROVE  Rows(Codes) \subseteq Rows(Codes)'
<1>1. EntriesOf(journal) \subseteq EntriesOf(journal')
  <2>1. PICK w \in Workers :
          \/ Begin(w)
          \/ \E a \in Accounts : ReadAccount(w, a)
          \/ \E r \in Requests, prev \in Keys \cup {NoEntry}, rank \in Ranks :
               PostEntry(w, r, prev, rank)
          \/ ApplyLine(w)
          \/ Commit(w)
          \/ Rollback(w)
    BY DEF LedgerStep, Next
  <2>2. CASE Commit(w)
    <3>1. journal \in Seq(Entry) /\ pending[w] \in Seq(Entry) /\ journal' = journal \o pending[w]
      BY <2>2 DEF IInv, TypeOK, Commit
    <3>2. QED
      BY <3>1, EntriesOfConcat
  <2>3. CASE ~Commit(w)
    <3>1. journal' = journal
      BY <2>1, <2>3 DEF Begin, ReadAccount, PostEntry, ApplyLine, Rollback
    <3>2. QED
      BY <3>1
  <2>4. QED
    BY <2>2, <2>3
<1>2. Rows(Codes) = UNION {EntryRows(e, Codes) : e \in EntriesOf(journal)}
  BY DEF Rows, EntryRows
<1>3. Rows(Codes)' = UNION {EntryRows(e, Codes) : e \in EntriesOf(journal')}
  BY DEF Rows, EntryRows, EntriesOf
<1>4. QED
  BY <1>1, <1>2, <1>3

(* Pages keep what holds of a listing, and so do commits between them.       *)
LEMMA NextPages ==
  IInv /\ Keyed(Rows(Codes)) /\ Keyed(Rows(Codes))' /\ PageInv
    /\ [QueryNext]_<<vars, queries>> => PageInv'
<1> SUFFICES ASSUME IInv, Keyed(Rows(Codes)), Keyed(Rows(Codes))', PageInv,
                    [QueryNext]_<<vars, queries>>
             PROVE  PageInv'
  OBVIOUS
<1> DEFINE R == Rows(Codes)
<1>1. CASE LedgerStep
  <2>1. listing' = listing
    BY <1>1 DEF LedgerStep
  <2>2. R \subseteq R' /\ Keyed(R)'
    BY <1>1, RowsGrow
  <2>3. PICK T : T = R'
    OBVIOUS
  <2>4. Keyed(T) /\ R \subseteq T
    BY <2>2, <2>3 DEF Keyed
  <2>5. listing # None => ListingStands(listing, T)
    BY <2>4, ListingKept DEF PageInv
  <2>6. QED
    BY <2>1, <2>3, <2>5 DEF PageInv, ListingStands, EntriesOf
<1>2. ASSUME UNCHANGED vars PROVE R' = R
  <2>1. journal' = journal
    BY <1>2 DEF vars
  <2>2. QED
    BY <2>1 DEF Rows, EntriesOf
<1>3. ASSUME R' = R, ListingStands(listing', R) PROVE PageInv'
  BY <1>3 DEF PageInv, ListingStands, EntriesOf
<1>4. CASE FirstPage
  <2>1. /\ listing' = Page(<<>>, {p.id : p \in R}, None)
        /\ UNCHANGED vars
    BY <1>4 DEF FirstPage
  <2>2. <<>> \in Seq(Nat) /\ DOMAIN <<>> = {} /\ EntriesOf(<<>>) = {}
    BY DEF EntriesOf
  <2>3. ListingStands(Page(<<>>, {p.id : p \in R}, None), R)
    <3>1. PICK given, known, cursor : given = <<>> /\ known = {p.id : p \in R} /\ cursor = None
      OBVIOUS
    <3>2. /\ given \in Seq(Nat) /\ DOMAIN given = {} /\ EntriesOf(given) = {}
          /\ \A id \in known : \E p \in R : p.id = id
      BY <2>2, <3>1
    <3>3. ListingStands(Page(given, known, cursor), R)
      BY <3>1, <3>2, TurnPage
    <3>4. QED
      BY <3>1, <3>3
  <2>4. QED
    BY <1>2, <1>3, <2>1, <2>3
<1>5. CASE NextPage
  <2>1. /\ listing' = Page(listing.given, listing.known, listing.cursor)
        /\ UNCHANGED vars /\ listing # None /\ listing.cursor # None
    BY <1>5 DEF NextPage
  <2>2. ListingStands(Page(listing.given, listing.known, listing.cursor), R)
    <3>1. PICK given, known, cursor :
            given = listing.given /\ known = listing.known /\ cursor = listing.cursor
      OBVIOUS
    <3>2. /\ given \in Seq(Nat) /\ \A i, j \in DOMAIN given : given[i] = given[j] => i = j
          /\ cursor # None /\ cursor \in R
          /\ \A id \in EntriesOf(given) : \E p \in R : p.id = id /\ ~Older(p, cursor)
          /\ \A id \in known : \E p \in R : p.id = id
          /\ \A p \in R : p.id \in known /\ ~Older(p, cursor) => p.id \in EntriesOf(given)
      BY <2>1, <3>1 DEF PageInv, ListingStands
    <3>3. ListingStands(Page(given, known, cursor), R)
      BY <3>2, TurnPage
    <3>4. QED
      BY <3>1, <3>3
  <2>3. QED
    BY <1>2, <1>3, <2>1, <2>2
<1>6. CASE UNCHANGED <<vars, listing>>
  <2>1. listing # None => ListingStands(listing', R)
    BY <1>6 DEF PageInv
  <2>2. QED
    BY <1>2, <1>6, <2>1 DEF PageInv, ListingStands, EntriesOf
<1>7. QED
  BY <1>1, <1>4, <1>5, <1>6 DEF QueryNext, ReadStatement, queries

-----------------------------------------------------------------------------
(* What is proved of the ledger holds while clients read it.                *)
LEMMA LedgerStands == QuerySpec => []IInv
<1>1. QueryInit => Init
  BY DEF QueryInit
<1>2. [QueryNext]_<<vars, queries>> => [Next]_vars
  BY DEF QueryNext, LedgerStep, FirstPage, NextPage, ReadStatement, queries
<1>3. QED
  BY <1>1, <1>2, InitIInv, NextIInv, PTL DEF QuerySpec

(* Every step, of a session or of a client, keeps QueryInv.                  *)
LEMMA NextQuery == IInv /\ QueryInv /\ [QueryNext]_<<vars, queries>> => QueryInv'
<1> SUFFICES ASSUME IInv, QueryInv, [QueryNext]_<<vars, queries>> PROVE QueryInv'
  OBVIOUS
<1>1. CASE LedgerStep
  <2>1. Next /\ statement' = statement
    BY <1>1 DEF LedgerStep
  <2>2. PICK w \in Workers :
          \/ Begin(w)
          \/ \E a \in Accounts : ReadAccount(w, a)
          \/ \E r \in Requests, prev \in Keys \cup {NoEntry}, rank \in Ranks :
               PostEntry(w, r, prev, rank)
          \/ ApplyLine(w)
          \/ Commit(w)
          \/ Rollback(w)
    BY <2>1 DEF Next
  <2>3. QED
    BY <2>1, <2>2, BeginQuery, PostEntryQuery, WorkQuery, EndQuery
<1>2. CASE \E end \in 1..(MaxStarts + 1) : ReadStatement(end)
  BY <1>2, ReadStatementQuery
<1>3. CASE FirstPage \/ NextPage \/ UNCHANGED <<vars, queries>>
  BY <1>3, IdleQuery DEF FirstPage, NextPage, queries
<1>4. QED
  BY <1>1, <1>2, <1>3 DEF QueryNext

(* The two conjuncts hold in every reachable state.                         *)
THEOREM QueryInvariance == QuerySpec => []QueryInv
  BY LedgerStands, InitQuery, NextQuery, PTL DEF QuerySpec

(* The statement of a period that is over stays as it was read, for every   *)
(* number of sessions, unless one that had started in the period was open.  *)
THEOREM StatementsStay == QuerySpec => []StatementStands
<1>1. QueryInv => StatementStands
  BY DEF QueryInv, PeriodIsOver, StatementStands
<1>2. QED
  BY <1>1, QueryInvariance, PTL

(* Reading pages and statements changes neither balances nor copies.        *)
LEMMA IdleBalance ==
  ASSUME BalanceInv, UNCHANGED vars, overwritten' = overwritten
  PROVE  BalanceInv'
<1>1. UNCHANGED <<balance, journal, chainLock, clock, phase, startedAt, loaded, view,
                  pending, nextLine>>
  BY DEF vars
<1>2. EntriesStand'
  BY <1>1 DEF BalanceInv, EntriesStand, EntriesOf
<1>3. ASSUME NEW u \in Workers PROVE ViewStands(u)'
  BY <1>1, OtherView DEF BalanceInv
<1>4. BalancesStand'
  BY <1>1, BalancesKept DEF BalanceInv
<1>5. QED
  BY <1>2, <1>3, <1>4 DEF BalanceInv

(* Every step keeps BalanceInv; commits note what they overwrite.            *)
LEMMA NextBalance ==
  IInv /\ IInv' /\ QueryInv /\ BalanceInv /\ [QueryNext]_<<vars, queries>> => BalanceInv'
<1> SUFFICES ASSUME IInv, IInv', QueryInv, BalanceInv, [QueryNext]_<<vars, queries>>
             PROVE  BalanceInv'
  OBVIOUS
<1>1. CASE LedgerStep
  <2>1. Next /\ overwritten \subseteq overwritten'
    BY <1>1 DEF LedgerStep
  <2>2. PICK w \in Workers :
          \/ Begin(w)
          \/ \E a \in Accounts : ReadAccount(w, a)
          \/ \E r \in Requests, prev \in Keys \cup {NoEntry}, rank \in Ranks :
               PostEntry(w, r, prev, rank)
          \/ ApplyLine(w)
          \/ Commit(w)
          \/ Rollback(w)
    BY <2>1 DEF Next
  <2>3. CASE Commit(w)
    <3>1. journal' # journal
      <4>1. journal \in Seq(Entry) /\ pending[w] \in Seq(Entry) /\ pending[w] # <<>>
            /\ journal' = journal \o pending[w]
        BY <2>3 DEF IInv, TypeOK, Commit
      <4>2. Len(journal') = Len(journal) + Len(pending[w]) /\ Len(pending[w]) # 0
            /\ Len(journal) \in Nat /\ Len(pending[w]) \in Nat
        BY <4>1
      <4>3. QED
        BY <4>2
    <3>2. phase[w] # phase'[w]
      BY <2>3 DEF Commit, CloseSession, IInv, TypeOK
    <3>3. {a \in Touched(w) : Outdated(w, a)} \subseteq overwritten'
      BY <1>1, <3>1, <3>2 DEF LedgerStep
    <3>4. QED
      BY <2>1, <2>3, <3>3, CommitBalance
  <2>4. QED
    BY <2>1, <2>2, <2>3, BeginBalance, ReadAccountBalance, PostEntryBalance,
       ApplyLineBalance, RollbackBalance
<1>2. CASE UNCHANGED vars /\ overwritten' = overwritten
  BY <1>2, IdleBalance
<1>3. QED
  BY <1>1, <1>2 DEF QueryNext, FirstPage, NextPage, ReadStatement, queries

(* Copies read under the lock stand, and balances are what was posted.      *)
THEOREM BalanceInvariance == QuerySpec => []BalanceInv
  BY LedgerStands, QueryInvariance, InitBalance, NextBalance, PTL DEF QuerySpec

(* The rows of a statement up to now add up to what was posted, wherever     *)
(* the period is cut.                                                        *)
LEMMA ClosingIsPostings ==
  ASSUME IInv, EntriesStand, NEW a \in Accounts, NEW start \in 0..Now
  PROVE  AccountStatement({a}, start, Now).closing = Postings(EntriesOf(journal), a)
<1> DEFINE E == EntriesOf(journal)
           All == RowsOf(E, a)
           Opening == {p \in All : p.createdAt < start}
           Movement == {p \in All : ~(p.createdAt < start)}
<1>1. journal \in Seq(Entry) /\ AllGood(journal) /\ clock \in Nat
  BY BoundAssumption DEF IInv, TypeOK
<1>2. IsFiniteSet(E) /\ \A e \in E : Submitted(e) /\ e.createdAt <= clock
  BY <1>1, FiniteEntries DEF EntriesStand
<1>3. \A e, f \in E : e.key = f.key => e = f
  <2>1. ASSUME NEW e \in E, NEW f \in E, e.key = f.key PROVE e = f
    <3>1. PICK h \in DOMAIN journal : journal[h] = e
      BY DEF EntriesOf
    <3>2. PICK i \in DOMAIN journal : journal[i] = f
      BY DEF EntriesOf
    <3>3. QED
      BY <1>1, <2>1, <3>1, <3>2, KeysApart
  <2>2. QED
    BY <2>1
<1>4. Rows({a}) = All
  BY DEF Rows, RowsOf, EntryRows
<1>5. \A p \in All : p.createdAt < Now
  <2>1. ASSUME NEW p \in All PROVE p.createdAt < Now
    <3>1. PICK e \in E : p \in EntryRows(e, {a})
      BY DEF RowsOf
    <3>2. p.createdAt = e.createdAt
      BY <3>1 DEF EntryRows
    <3>3. e.createdAt \in Int
      <4>1. PICK i \in DOMAIN journal : journal[i] = e
        BY <3>1 DEF EntriesOf
      <4>2. e \in Entry
        BY <1>1, <4>1
      <4>3. QED
        BY <4>2 DEF Entry
    <3>4. QED
      BY <1>1, <1>2, <3>1, <3>2, <3>3 DEF Now
  <2>2. QED
    BY <2>1
<1>6. {p \in Rows({a}) : StartsBefore(p, Now)} = All
  BY <1>4, <1>5 DEF StartsBefore
<1>7. /\ IsFiniteSet(All) /\ \A p \in All : p.delta \in Int
      /\ Sum(All) = Postings(E, a)
  <2> HIDE DEF E
  <2>1. QED
    BY <1>2, <1>3, SumOfRowsOf
<1>8. Sum(Opening) + Sum(Movement) = Sum(All)
  <2>1. /\ IsFiniteSet(Opening) /\ IsFiniteSet(Movement)
        /\ Opening \cap Movement = {} /\ All = Opening \cup Movement
        /\ \A p \in Opening \cup Movement : p.delta \in Int
    <3> HIDE DEF All
    <3>1. QED
      BY <1>7, FS_Subset
  <2> HIDE DEF Opening, Movement, All
  <2>2. QED
    BY <2>1, SumOfTwoSets
<1>9. AccountStatement({a}, start, Now).closing = Sum(Opening) + Sum(Movement)
  <2> HIDE DEF All
  <2>1. QED
    BY <1>6 DEF AccountStatement
<1>10. QED
  BY <1>7, <1>8, <1>9

(* The statements of an account end at its balance, in every reachable state *)
(* and wherever their period starts; the one exception is an account that     *)
(* callers read before post_entry() and that was flushed while outdated.      *)
THEOREM StatementsEndAtBalance == QuerySpec => []StatementIsBalance
<1>1. IInv /\ BalanceInv => StatementIsBalance
  <2> SUFFICES ASSUME IInv, BalanceInv, NEW a \in Accounts, NEW start \in 0..Now
               PROVE  \/ balance[a] = AccountStatement({a}, start, Now).closing
                      \/ a \in overwritten \cap ReadFirst
    BY DEF StatementIsBalance
  <2>1. QED
    BY ClosingIsPostings DEF BalanceInv, BalancesStand
<1>2. QED
  BY <1>1, LedgerStands, BalanceInvariance, PTL

(* A client that pages through a wallet's activity is given every posting    *)
(* that was there at the first page exactly once, whatever is committed       *)
(* between the pages, for every page size.                                   *)
THEOREM PagesComplete == QuerySpec => []PagesAreComplete
<1>1. QuerySpec => []Keyed(Rows(Codes))
  <2>1. IInv /\ BalanceInv => Keyed(Rows(Codes))
    BY RowsAreKeyed DEF BalanceInv
  <2>2. QED
    BY <2>1, LedgerStands, BalanceInvariance, PTL
<1>2. QueryInit => PageInv
  BY DEF QueryInit, PageInv
<1>3. QuerySpec => []PageInv
  BY <1>1, <1>2, LedgerStands, NextPages, PTL DEF QuerySpec
<1>4. PageInv => PagesAreComplete
  BY DEF PageInv, ListingStands, PagesAreComplete
<1>5. QED
  BY <1>3, <1>4, PTL

=============================================================================
