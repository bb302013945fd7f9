------------------------------ MODULE Sums_proofs ------------------------------
(***************************************************************************)
(* Sums over finite sets, as the models take them (MapThenSumSet of         *)
(* FiniteSetsExt): they do not depend on the order of their terms, grow by  *)
(* the term that is added, and follow when one term changes.                *)
(*                                                                         *)
(* MapThenSumSet is a recursive function on the subsets of its set that     *)
(* chooses its next term.  Every induction here takes a smallest subset     *)
(* that would be a counterexample and shows that there is a smaller one.    *)
(***************************************************************************)
EXTENDS Integers, FiniteSetsExt, TLAPS, FiniteSetTheorems, WellFoundedInduction

\* The recursive function of MapThenSumSet: the sum of f over every subset of S.
Totals(t, f, S) ==
    t = [s \in SUBSET S |-> IF s = {} THEN 0 ELSE f[CHOOSE x \in s : TRUE] + t[s \ {CHOOSE x \in s : TRUE}]]

Total(f, S) == (CHOOSE t : Totals(t, f, S))[S]

\* Of sets of subsets of a finite set, some member has no other member within it.
LEMMA SmallestSubset ==
  ASSUME NEW S, IsFiniteSet(S), NEW B \in SUBSET SUBSET S, B # {}
  PROVE  \E m \in B : \A s \in B : s \subseteq m => s = m
<1>1. IsWellFoundedOn(StrictSubsetOrdering(S), SUBSET S)
  BY FS_StrictSubsetOrderingWellFounded, FS_FiniteSubsetsOfFinite
<1>2. PICK m \in B : \A s \in B : ~(<<s, m>> \in StrictSubsetOrdering(S))
  BY <1>1, WFMin
<1>3. ASSUME NEW s \in B, s \subseteq m PROVE s = m
  BY <1>2, <1>3 DEF StrictSubsetOrdering
<1> QED BY <1>3

LEMMA TotalsExist ==
  ASSUME NEW S, IsFiniteSet(S), NEW f
  PROVE  \E t : Totals(t, f, S)
<1> DEFINE without == {s \in SUBSET S : ~\E t : Totals(t, f, s)}
<1> SUFFICES ASSUME without # {} PROVE FALSE
  OBVIOUS
<1>1. PICK m \in without : \A s \in without : s \subseteq m => s = m
  <2>1. without \in SUBSET SUBSET S
    OBVIOUS
  <2> HIDE DEF without
  <2> QED BY <2>1, SmallestSubset
\* The function for all proper subsets, put together from theirs.
<1> DEFINE part(s) == CHOOSE t : Totals(t, f, s)
           next(s) == CHOOSE x \in s : TRUE
           t == [s \in SUBSET m |-> IF s = {} THEN 0 ELSE f[next(s)] + part(s \ {next(s)})[s \ {next(s)}]]
<1>2. ASSUME NEW s \in SUBSET m, s # m PROVE Totals(part(s), f, s)
  <2>1. s \notin without /\ s \in SUBSET S
    BY <1>1, <1>2
  <2> QED BY <2>1
<1>3. ASSUME NEW s \in SUBSET m, s # m PROVE t[s] = part(s)[s]
  <2>1. part(s)[s] = IF s = {} THEN 0 ELSE f[next(s)] + part(s)[s \ {next(s)}]
    <3> HIDE DEF part
    <3> QED BY <1>2, <1>3 DEF Totals
  <2>2. CASE s = {}
    <3> HIDE DEF part, next
    <3> QED BY <2>1, <2>2
  <2>3. CASE s # {}
    <3> DEFINE r == s \ {next(s)}
    <3>1. r \in SUBSET m /\ r # m /\ r \subseteq s /\ r # s
      BY <2>3
    <3>2. Totals(part(r), f, r) /\ Totals(part(s), f, s)
      BY <1>2, <1>3, <3>1
    <3>3. part(r)[r] = part(s)[r]
      <4> DEFINE u == part(r)
                 v == part(s)
                 apart == {q \in SUBSET r : u[q] # v[q]}
      <4> SUFFICES ASSUME apart # {} PROVE FALSE
        OBVIOUS
      <4>1. IsFiniteSet(r) /\ apart \in SUBSET SUBSET r
        BY <1>1, <3>1, FS_Subset
      <4>2. PICK q \in apart : \A p \in apart : p \subseteq q => p = q
        <5> HIDE DEF apart, r
        <5> QED BY <4>1, SmallestSubset
      <4>3. q \in SUBSET r /\ q \in SUBSET s
        BY <3>1
      <4> HIDE DEF u, v, r
      <4>4. /\ u[q] = IF q = {} THEN 0 ELSE f[next(q)] + u[q \ {next(q)}]
            /\ v[q] = IF q = {} THEN 0 ELSE f[next(q)] + v[q \ {next(q)}]
        <5> HIDE DEF apart, part
        <5> QED BY <3>2, <4>3 DEF Totals, u, v
      <4>5. CASE q = {}
        <5> HIDE DEF next
        <5> QED BY <4>4, <4>5
      <4>6. CASE q # {}
        <5>1. next(q) \in q
          BY <4>6
        <5> HIDE DEF next
        <5>2. q \ {next(q)} \in SUBSET r /\ q \ {next(q)} # q
          BY <4>3, <5>1
        <5>3. q \ {next(q)} \notin apart
          <6> HIDE DEF apart
          <6> QED BY <4>2, <5>2
        <5> QED BY <4>4, <4>6, <5>2, <5>3
      <4> QED BY <4>5, <4>6
    <3> HIDE DEF part, next
    <3> QED BY <2>1, <2>3, <3>3
  <2> QED BY <2>2, <2>3
<1>4. ASSUME NEW s \in SUBSET m
      PROVE  t[s] = IF s = {} THEN 0 ELSE f[next(s)] + t[s \ {next(s)}]
  <2>1. CASE s = {}
    <3> HIDE DEF part, next
    <3> QED BY <2>1
  <2>2. CASE s # {}
    <3>1. s \ {next(s)} \in SUBSET m /\ s \ {next(s)} # m
      BY <2>2
    <3>2. t[s \ {next(s)}] = part(s \ {next(s)})[s \ {next(s)}]
      BY <1>3, <3>1
    <3>3. t[s] = f[next(s)] + part(s \ {next(s)})[s \ {next(s)}]
      <4> HIDE DEF part, next
      <4> QED BY <2>2
    <3> HIDE DEF part, next, t
    <3> QED BY <2>2, <3>2, <3>3
  <2> QED BY <2>1, <2>2
<1>5. t = [s \in SUBSET m |-> t[s]]
  OBVIOUS
<1>6. Totals(t, f, m)
  <2> HIDE DEF t, part
  <2> QED BY <1>4, <1>5 DEF Totals
<1> HIDE DEF t
<1> QED BY <1>6

\* The same terms, summed within a larger set or a smaller.
LEMMA TotalsAgree ==
  ASSUME NEW S, IsFiniteSet(S), NEW T \in SUBSET S, NEW f, NEW g, \A x \in T : f[x] = g[x],
         NEW t, Totals(t, f, S), NEW u, Totals(u, g, T)
  PROVE  \A s \in SUBSET T : t[s] = u[s]
<1> DEFINE apart == {s \in SUBSET T : t[s] # u[s]}
           next(s) == CHOOSE x \in s : TRUE
<1> SUFFICES ASSUME apart # {} PROVE FALSE
  OBVIOUS
<1>1. IsFiniteSet(T) /\ apart \in SUBSET SUBSET T
  BY FS_Subset
<1>2. PICK q \in apart : \A p \in apart : p \subseteq q => p = q
  <2> HIDE DEF apart
  <2> QED BY <1>1, SmallestSubset
<1>3. q \in SUBSET T /\ q \in SUBSET S
  OBVIOUS
<1>4. /\ t[q] = IF q = {} THEN 0 ELSE f[next(q)] + t[q \ {next(q)}]
      /\ u[q] = IF q = {} THEN 0 ELSE g[next(q)] + u[q \ {next(q)}]
  <2> HIDE DEF apart
  <2> QED BY <1>3 DEF Totals
<1>5. CASE q = {}
  <2> HIDE DEF next
  <2> QED BY <1>4, <1>5
<1>6. CASE q # {}
  <2>1. next(q) \in q
    BY <1>6
  <2> HIDE DEF next
  <2>2. q \ {next(q)} \in SUBSET T /\ q \ {next(q)} # q /\ f[next(q)] = g[next(q)]
    BY <1>3, <2>1
  <2>3. q \ {next(q)} \notin apart
    <3> HIDE DEF apart
    <3> QED BY <1>2, <2>2
  <2> QED BY <1>4, <1>6, <2>2, <2>3
<1> QED BY <1>5, <1>6

\* What any such function makes of the set is the sum.
LEMMA TotalIs ==
  ASSUME NEW S, IsFiniteSet(S), NEW f, NEW g, \A x \in S : f[x] = g[x], NEW t, Totals(t, f, S)
  PROVE  Total(g, S) = t[S]
<1> DEFINE u == CHOOSE u : Totals(u, g, S)
<1>1. Totals(u, g, S)
  BY TotalsExist
<1> HIDE DEF u
<1>2. t[S] = u[S]
  <2>1. S \in SUBSET S
    OBVIOUS
  <2> QED BY <1>1, <2>1, TotalsAgree
<1> QED BY <1>2 DEF Total, u

LEMMA TotalSame ==
  ASSUME NEW S, IsFiniteSet(S), NEW f, NEW g, \A x \in S : f[x] = g[x]
  PROVE  Total(f, S) = Total(g, S)
<1>1. PICK t : Totals(t, f, S)
  BY TotalsExist
<1>2. Total(f, S) = t[S]
  BY <1>1, TotalIs
<1>3. Total(g, S) = t[S]
  BY <1>1, TotalIs
<1> QED BY <1>2, <1>3

LEMMA TotalEmpty == ASSUME NEW f PROVE Total(f, {}) = 0
<1>1. PICK t : Totals(t, f, {})
  BY TotalsExist, FS_EmptySet
<1>2. Total(f, {}) = t[{}]
  BY <1>1, TotalIs, FS_EmptySet
<1>3. t[{}] = 0
  BY <1>1 DEF Totals
<1> QED BY <1>2, <1>3

\* Within a set, every part sums to an integer, and any of its terms may be taken first.
LEMMA TotalsAnyOrder ==
  ASSUME NEW S, IsFiniteSet(S), NEW f, \A x \in S : f[x] \in Int, NEW t, Totals(t, f, S)
  PROVE  \A s \in SUBSET S : t[s] \in Int /\ \A x \in s : t[s] = f[x] + t[s \ {x}]
<1> DEFINE good(s) == t[s] \in Int /\ \A x \in s : t[s] = f[x] + t[s \ {x}]
           bad == {s \in SUBSET S : ~good(s)}
           next(s) == CHOOSE x \in s : TRUE
<1> SUFFICES ASSUME bad # {} PROVE FALSE
  OBVIOUS
<1>1. PICK q \in bad : \A p \in bad : p \subseteq q => p = q
  <2>1. bad \in SUBSET SUBSET S
    OBVIOUS
  <2> HIDE DEF bad
  <2> QED BY <2>1, SmallestSubset
<1>2. q \in SUBSET S /\ ~good(q)
  OBVIOUS
<1>3. ASSUME NEW p \in SUBSET q, p # q PROVE good(p)
  <2>1. p \notin bad
    <3> HIDE DEF bad
    <3> QED BY <1>1, <1>3
  <2> HIDE DEF good
  <2> QED BY <1>2, <2>1
<1>4. t[q] = IF q = {} THEN 0 ELSE f[next(q)] + t[q \ {next(q)}]
  <2> HIDE DEF bad
  <2> QED BY <1>2 DEF Totals
<1>5. CASE q = {}
  <2> HIDE DEF bad, next
  <2> QED BY <1>2, <1>4, <1>5
<1>6. CASE q # {}
  <2> DEFINE c == next(q)
  <2>1. c \in q
    BY <1>6
  <2>2. t[q] = f[c] + t[q \ {c}]
    BY <1>4, <1>6
  <2> HIDE DEF c, bad
  <2>3. f[c] \in Int /\ t[q \ {c}] \in Int
    BY <1>2, <1>3, <2>1
  <2>4. ASSUME NEW x \in q PROVE t[q] = f[x] + t[q \ {x}]
    <3>1. CASE x = c
      BY <2>2, <3>1
    <3>2. CASE x # c
      <4> DEFINE r == (q \ {c}) \ {x}
      <4>1. t[q \ {c}] = f[x] + t[r]
        BY <1>3, <2>1, <3>2
      <4>2. t[q \ {x}] = f[c] + t[r]
        <5>1. (q \ {x}) \ {c} = r
          OBVIOUS
        <5>2. q \ {x} \in SUBSET q /\ q \ {x} # q /\ c \in q \ {x}
          BY <2>1, <3>2
        <5> HIDE DEF r
        <5>3. t[q \ {x}] = f[c] + t[(q \ {x}) \ {c}]
          BY <1>3, <5>2
        <5> QED BY <5>1, <5>3
      <4>3. t[r] \in Int /\ f[x] \in Int
        <5>1. r \in SUBSET q /\ r # q
          BY <2>1
        <5> QED BY <1>2, <1>3, <5>1
      <4> HIDE DEF r
      <4> DEFINE whole == t[q]
                 less == t[q \ {c}]
                 other == t[q \ {x}]
                 rest == t[r]
                 now == f[c]
                 later == f[x]
      <4>4. whole = now + less /\ less = later + rest /\ other = now + rest
            /\ rest \in Int /\ later \in Int /\ now \in Int
        BY <2>2, <2>3, <4>1, <4>2, <4>3
      <4>5. whole = later + other
        <5> HIDE DEF whole, less, other, rest, now, later
        <5> QED BY <4>4
      <4> QED BY <4>5
    <3> QED BY <3>1, <3>2
  <2>5. t[q] \in Int
    BY <2>2, <2>3
  <2> QED BY <1>2, <2>4, <2>5
<1> QED BY <1>5, <1>6

LEMMA TotalType ==
  ASSUME NEW S, IsFiniteSet(S), NEW f, \A x \in S : f[x] \in Int
  PROVE  Total(f, S) \in Int
<1>1. PICK t : Totals(t, f, S)
  BY TotalsExist
<1>2. Total(f, S) = t[S]
  BY <1>1, TotalIs
<1>3. S \in SUBSET S
  OBVIOUS
<1>4. t[S] \in Int
  BY <1>1, <1>3, TotalsAnyOrder
<1> QED BY <1>2, <1>4

\* Any term can be taken out of the sum.
LEMMA TotalWithout ==
  ASSUME NEW S, IsFiniteSet(S), NEW f, \A x \in S : f[x] \in Int, NEW x \in S
  PROVE  Total(f, S) = f[x] + Total(f, S \ {x})
<1>1. PICK t : Totals(t, f, S)
  BY TotalsExist
<1>2. Total(f, S) = t[S]
  BY <1>1, TotalIs
<1>3. IsFiniteSet(S \ {x}) /\ S \ {x} \in SUBSET S
  BY FS_RemoveElement
<1>4. PICK u : Totals(u, f, S \ {x})
  BY <1>3, TotalsExist
<1>5. Total(f, S \ {x}) = u[S \ {x}]
  BY <1>3, <1>4, TotalIs
<1>6. t[S \ {x}] = u[S \ {x}]
  <2> DEFINE T == S \ {x}
  <2>1. T \in SUBSET S /\ Totals(u, f, T) /\ T \in SUBSET T
    BY <1>3, <1>4
  <2> HIDE DEF T
  <2>2. t[T] = u[T]
    BY <1>1, <2>1, TotalsAgree
  <2> QED BY <2>2 DEF T
<1>7. t[S] = f[x] + t[S \ {x}]
  <2>1. S \in SUBSET S
    OBVIOUS
  <2> QED BY <1>1, <2>1, TotalsAnyOrder
<1> QED BY <1>2, <1>5, <1>6, <1>7

LEMMA TotalWith ==
  ASSUME NEW S, IsFiniteSet(S), NEW f, NEW x, x \notin S, \A y \in S \union {x} : f[y] \in Int
  PROVE  Total(f, S \union {x}) = f[x] + Total(f, S)
<1> DEFINE T == S \union {x}
<1>1. IsFiniteSet(T) /\ x \in T /\ T \ {x} = S /\ \A y \in T : f[y] \in Int
  BY FS_AddElement
<1> HIDE DEF T
<1>2. Total(f, T) = f[x] + Total(f, T \ {x})
  BY <1>1, TotalWithout
<1> QED BY <1>1, <1>2 DEF T

\* One term changes.
LEMMA TotalChanged ==
  ASSUME NEW S, IsFiniteSet(S), NEW f, NEW g, \A y \in S : f[y] \in Int /\ g[y] \in Int,
         NEW x \in S, \A y \in S : y # x => g[y] = f[y]
  PROVE  Total(g, S) = Total(f, S) + g[x] - f[x]
<1>1. IsFiniteSet(S \ {x}) /\ \A y \in S \ {x} : f[y] = g[y] /\ f[y] \in Int
  BY FS_RemoveElement
<1>2. Total(f, S \ {x}) = Total(g, S \ {x})
  BY <1>1, TotalSame
<1>3. Total(f, S) = f[x] + Total(f, S \ {x})
  BY TotalWithout
<1>4. Total(g, S) = g[x] + Total(g, S \ {x})
  BY TotalWithout
<1>5. Total(f, S \ {x}) \in Int /\ f[x] \in Int /\ g[x] \in Int
  BY <1>1, TotalType
<1> QED BY <1>2, <1>3, <1>4, <1>5

\* Sums are compared term by term.
LEMMA TotalAtMost ==
  ASSUME NEW S, IsFiniteSet(S), NEW f, NEW g, \A x \in S : f[x] \in Int /\ g[x] \in Int /\ f[x] <= g[x]
  PROVE  Total(f, S) <= Total(g, S)
<1> DEFINE bad == {s \in SUBSET S : ~(Total(f, s) <= Total(g, s))}
<1> SUFFICES ASSUME bad # {} PROVE FALSE
  OBVIOUS
<1>1. PICK q \in bad : \A p \in bad : p \subseteq q => p = q
  <2>1. bad \in SUBSET SUBSET S
    OBVIOUS
  <2> HIDE DEF bad
  <2> QED BY <2>1, SmallestSubset
<1>2. q \in SUBSET S /\ ~(Total(f, q) <= Total(g, q)) /\ IsFiniteSet(q)
  BY FS_Subset
<1>3. CASE q = {}
  BY <1>2, <1>3, TotalEmpty
<1>4. CASE q # {}
  <2>1. PICK x \in q : TRUE
    BY <1>4
  <2>2. q \ {x} \notin bad /\ q \ {x} \in SUBSET S /\ IsFiniteSet(q \ {x})
    <3>1. q \ {x} \subseteq q /\ q \ {x} # q
      BY <2>1
    <3>2. q \ {x} \notin bad
      <4> HIDE DEF bad
      <4> QED BY <1>1, <3>1
    <3> QED BY <1>2, <3>2, FS_RemoveElement
  <2>3. /\ Total(f, q) = f[x] + Total(f, q \ {x}) /\ Total(g, q) = g[x] + Total(g, q \ {x})
    <3>1. \A y \in q : f[y] \in Int /\ g[y] \in Int
      BY <1>2
    <3> QED BY <1>2, <2>1, <3>1, TotalWithout
  <2>4. Total(f, q \ {x}) \in Int /\ Total(g, q \ {x}) \in Int
    <3>1. \A y \in q \ {x} : f[y] \in Int /\ g[y] \in Int
      BY <1>2
    <3> QED BY <2>2, <3>1, TotalType
  <2>5. Total(f, q \ {x}) <= Total(g, q \ {x})
    BY <2>2
  <2>6. f[x] \in Int /\ g[x] \in Int /\ f[x] <= g[x]
    BY <1>2, <2>1
  <2> HIDE DEF bad
  <2> QED BY <1>2, <2>3, <2>4, <2>5, <2>6
<1> QED BY <1>3, <1>4

\* The sum of sums.
LEMMA TotalAdds ==
  ASSUME NEW S, IsFiniteSet(S), NEW f, NEW g, NEW h,
         \A x \in S : f[x] \in Int /\ g[x] \in Int /\ h[x] = f[x] + g[x]
  PROVE  Total(h, S) = Total(f, S) + Total(g, S)
<1> DEFINE bad == {s \in SUBSET S : Total(h, s) # Total(f, s) + Total(g, s)}
<1> SUFFICES ASSUME bad # {} PROVE FALSE
  OBVIOUS
<1>1. PICK q \in bad : \A p \in bad : p \subseteq q => p = q
  <2>1. bad \in SUBSET SUBSET S
    OBVIOUS
  <2> HIDE DEF bad
  <2> QED BY <2>1, SmallestSubset
<1>2. q \in SUBSET S /\ Total(h, q) # Total(f, q) + Total(g, q) /\ IsFiniteSet(q)
  BY FS_Subset
<1>3. CASE q = {}
  BY <1>2, <1>3, TotalEmpty
<1>4. CASE q # {}
  <2>1. PICK x \in q : TRUE
    BY <1>4
  <2>2. q \ {x} \notin bad /\ q \ {x} \in SUBSET S /\ IsFiniteSet(q \ {x})
    <3>1. q \ {x} \subseteq q /\ q \ {x} # q
      BY <2>1
    <3>2. q \ {x} \notin bad
      <4> HIDE DEF bad
      <4> QED BY <1>1, <3>1
    <3> QED BY <1>2, <3>2, FS_RemoveElement
  <2>3. /\ Total(f, q) = f[x] + Total(f, q \ {x}) /\ Total(g, q) = g[x] + Total(g, q \ {x})
        /\ Total(h, q) = h[x] + Total(h, q \ {x})
    <3>1. \A y \in q : f[y] \in Int /\ g[y] \in Int /\ h[y] \in Int
      BY <1>2
    <3> QED BY <1>2, <2>1, <3>1, TotalWithout
  <2>4. Total(f, q \ {x}) \in Int /\ Total(g, q \ {x}) \in Int
    <3>1. \A y \in q \ {x} : f[y] \in Int /\ g[y] \in Int
      BY <1>2
    <3> QED BY <2>2, <3>1, TotalType
  <2>5. Total(h, q \ {x}) = Total(f, q \ {x}) + Total(g, q \ {x})
    BY <2>2
  <2>6. f[x] \in Int /\ g[x] \in Int /\ h[x] = f[x] + g[x]
    BY <1>2, <2>1
  <2> HIDE DEF bad
  <2> QED BY <1>2, <2>3, <2>4, <2>5, <2>6
<1> QED BY <1>3, <1>4

\* Terms that are zero can be left out.
LEMMA TotalOfPart ==
  ASSUME NEW S, IsFiniteSet(S), NEW f, NEW g, NEW T \in SUBSET S,
         \A x \in T : f[x] \in Int /\ g[x] = f[x], \A x \in S \ T : g[x] = 0
  PROVE  Total(g, S) = Total(f, T)
<1> DEFINE bad == {s \in SUBSET S : Total(g, s) # Total(f, s \intersect T)}
<1> SUFFICES ASSUME bad # {} PROVE FALSE
  <2>1. S \in SUBSET S /\ S \intersect T = T
    OBVIOUS
  <2> QED BY <2>1
<1>1. PICK q \in bad : \A p \in bad : p \subseteq q => p = q
  <2>1. bad \in SUBSET SUBSET S
    OBVIOUS
  <2> HIDE DEF bad
  <2> QED BY <2>1, SmallestSubset
<1>2. q \in SUBSET S /\ Total(g, q) # Total(f, q \intersect T) /\ IsFiniteSet(q) /\ \A y \in q : g[y] \in Int
  BY FS_Subset
<1>3. CASE q = {}
  <2>1. {} \intersect T = {}
    OBVIOUS
  <2> HIDE DEF bad
  <2> QED BY <1>2, <1>3, <2>1, TotalEmpty
<1>4. CASE q # {}
  <2>1. PICK x \in q : TRUE
    BY <1>4
  <2> DEFINE r == q \ {x}
  <2>2. r \notin bad /\ r \in SUBSET S /\ IsFiniteSet(r)
    <3>1. r \subseteq q /\ r # q
      BY <2>1
    <3>2. r \notin bad
      <4> HIDE DEF bad, r
      <4> QED BY <1>1, <3>1
    <3> QED BY <1>2, <3>2, FS_RemoveElement
  <2>3. Total(g, q) = g[x] + Total(g, r)
    BY <1>2, <2>1, TotalWithout
  <2>4. Total(g, r) = Total(f, r \intersect T)
    BY <2>2
  <2>5. IsFiniteSet(q \intersect T) /\ \A y \in q \intersect T : f[y] \in Int
    BY <1>2, FS_Subset
  <2>6. CASE x \in T
    <3>1. (q \intersect T) \ {x} = r \intersect T /\ x \in q \intersect T
      BY <2>1, <2>6
    <3>2. Total(f, q \intersect T) = f[x] + Total(f, r \intersect T)
      <4> DEFINE both == q \intersect T
      <4>1. IsFiniteSet(both) /\ x \in both /\ \A y \in both : f[y] \in Int
        BY <2>5, <3>1
      <4> HIDE DEF both
      <4>2. Total(f, both) = f[x] + Total(f, both \ {x})
        BY <4>1, TotalWithout
      <4>3. both \ {x} = r \intersect T
        BY <3>1 DEF both
      <4> QED BY <4>2, <4>3 DEF both
    <3>3. g[x] = f[x]
      BY <2>6
    <3>4. Total(g, q) = Total(f, q \intersect T)
      BY <2>3, <2>4, <3>2, <3>3
    <3> QED BY <1>2, <3>4
  <2>7. CASE x \notin T
    <3>1. q \intersect T = r \intersect T
      BY <2>7
    <3>2. Total(f, q \intersect T) = Total(f, r \intersect T)
      BY <3>1
    <3>3. g[x] = 0 /\ Total(g, r) \in Int
      BY <1>2, <2>1, <2>2, <2>7, TotalType
    <3>4. Total(g, q) = Total(g, r)
      <4> HIDE DEF r
      <4> QED BY <2>3, <3>3
    <3>5. Total(g, q) = Total(f, q \intersect T)
      <4> HIDE DEF r
      <4> QED BY <2>4, <3>2, <3>4
    <3> QED BY <1>2, <3>5
  <2> QED BY <2>6, <2>7
<1> QED BY <1>3, <1>4

LEMMA TotalDisjoint ==
  ASSUME NEW S, IsFiniteSet(S), NEW T, IsFiniteSet(T), S \intersect T = {}, NEW f,
         \A x \in S \union T : f[x] \in Int
  PROVE  Total(f, S \union T) = Total(f, S) + Total(f, T)
<1> DEFINE all == S \union T
           s == [x \in all |-> IF x \in S THEN f[x] ELSE 0]
           t == [x \in all |-> IF x \in T THEN f[x] ELSE 0]
<1>1. IsFiniteSet(all) /\ S \in SUBSET all /\ T \in SUBSET all
  BY FS_Union
<1>2. \A x \in all : s[x] \in Int /\ t[x] \in Int /\ f[x] = s[x] + t[x]
  OBVIOUS
<1>3. /\ \A x \in S : f[x] \in Int /\ s[x] = f[x]
      /\ \A x \in all \ S : s[x] = 0
      /\ \A x \in T : f[x] \in Int /\ t[x] = f[x]
      /\ \A x \in all \ T : t[x] = 0
  OBVIOUS
<1> HIDE DEF s, t, all
<1>4. Total(f, all) = Total(s, all) + Total(t, all)
  BY <1>1, <1>2, TotalAdds
<1>5. Total(s, all) = Total(f, S)
  BY <1>1, <1>3, TotalOfPart
<1>6. Total(t, all) = Total(f, T)
  BY <1>1, <1>3, TotalOfPart
<1> QED BY <1>4, <1>5, <1>6 DEF all

\* Sums of what is counted are counted, and no term is more than the sum.
LEMMA TotalNat ==
  ASSUME NEW S, IsFiniteSet(S), NEW f, \A x \in S : f[x] \in Nat
  PROVE  Total(f, S) \in Nat /\ \A x \in S : f[x] <= Total(f, S)
<1>1. ASSUME NEW T \in SUBSET S PROVE Total(f, T) \in Nat
  <2> DEFINE z == [x \in S |-> 0]
  <2>1. IsFiniteSet(T) /\ \A x \in T : z[x] \in Int /\ f[x] \in Int /\ z[x] <= f[x]
    BY FS_Subset
  <2>2. \A x \in {} : f[x] \in Int /\ z[x] = f[x]
    OBVIOUS
  <2>3. \A x \in T \ {} : z[x] = 0
    OBVIOUS
  <2> HIDE DEF z
  <2>4. Total(z, T) = Total(f, {})
    BY <2>1, <2>2, <2>3, TotalOfPart
  <2>5. Total(z, T) <= Total(f, T) /\ Total(f, T) \in Int
    BY <2>1, TotalAtMost, TotalType
  <2> QED BY <2>4, <2>5, TotalEmpty
<1>2. ASSUME NEW x \in S PROVE f[x] <= Total(f, S)
  <2>1. Total(f, S) = f[x] + Total(f, S \ {x})
    BY TotalWithout
  <2>2. Total(f, S \ {x}) \in Nat
    BY <1>1
  <2> QED BY <2>1, <2>2
<1> QED BY <1>1, <1>2

\* A sum does not change when its terms are renamed.
LEMMA TotalRenamed ==
  ASSUME NEW S, IsFiniteSet(S), NEW f, NEW g, NEW h,
         \A x, y \in S : h[x] = h[y] => x = y, \A x \in S : f[x] \in Int /\ g[h[x]] = f[x],
         NEW R, IsFiniteSet(R), R = {h[x] : x \in S}
  PROVE  Total(f, S) = Total(g, R)
<1> DEFINE image(T) == {h[x] : x \in T}
           bad == {T \in SUBSET S : Total(f, T) # Total(g, image(T))}
<1> SUFFICES ASSUME bad # {} PROVE FALSE
  <2>1. S \in SUBSET S /\ image(S) = R
    OBVIOUS
  <2> HIDE DEF image
  <2> QED BY <2>1
<1>1. PICK m \in bad : \A T \in bad : T \subseteq m => T = m
  <2>1. bad \in SUBSET SUBSET S
    OBVIOUS
  <2> HIDE DEF bad
  <2> QED BY <2>1, SmallestSubset
<1>2. m \in SUBSET S /\ IsFiniteSet(m) /\ Total(f, m) # Total(g, image(m))
  BY <1>1, FS_Subset
<1>3. m # {}
  <2> SUFFICES ASSUME m = {} PROVE FALSE
    OBVIOUS
  <2>1. image(m) = {}
    OBVIOUS
  <2> QED BY <1>2, <2>1, TotalEmpty
<1>4. PICK x \in m : TRUE
  BY <1>3
<1> DEFINE T == m \ {x}
<1>5. T \in SUBSET S /\ T # m /\ T \subseteq m
  BY <1>2, <1>4
<1>6. Total(f, T) = Total(g, image(T))
  BY <1>1, <1>5
<1>7. Total(f, m) = f[x] + Total(f, T)
  BY <1>2, <1>4, TotalWithout
<1>8. image(m) = image(T) \union {h[x]} /\ h[x] \notin image(T)
  BY <1>2, <1>4
<1>9. IsFiniteSet(image(T)) /\ \A y \in image(T) \union {h[x]} : g[y] \in Int
  <2>1. image(T) \subseteq R
    BY <1>5
  <2>2. \A y \in image(T) \union {h[x]} : g[y] \in Int
    BY <1>2, <1>4
  <2> HIDE DEF image, T
  <2> QED BY <2>1, <2>2, FS_Subset
<1>10. Total(g, image(m)) = g[h[x]] + Total(g, image(T))
  <2> HIDE DEF image, T
  <2> QED BY <1>8, <1>9, TotalWith
<1> QED BY <1>2, <1>4, <1>6, <1>7, <1>10

\* A factor of every term is one of the sum.
LEMMA TotalScaled ==
  ASSUME NEW S, IsFiniteSet(S), NEW f, NEW g, NEW c \in Int,
         \A x \in S : f[x] \in Int /\ g[x] = c * f[x]
  PROVE  Total(g, S) = c * Total(f, S)
<1> DEFINE bad == {T \in SUBSET S : Total(g, T) # c * Total(f, T)}
<1> SUFFICES ASSUME bad # {} PROVE FALSE
  OBVIOUS
<1>1. PICK m \in bad : \A T \in bad : T \subseteq m => T = m
  <2>1. bad \in SUBSET SUBSET S
    OBVIOUS
  <2> HIDE DEF bad
  <2> QED BY <2>1, SmallestSubset
<1>2. m \in SUBSET S /\ IsFiniteSet(m) /\ Total(g, m) # c * Total(f, m)
  BY <1>1, FS_Subset
<1>3. m # {}
  BY <1>2, TotalEmpty
<1>4. PICK x \in m : TRUE
  BY <1>3
<1> DEFINE T == m \ {x}
<1>5. T \in SUBSET S /\ T # m /\ T \subseteq m /\ IsFiniteSet(T)
  BY <1>2, <1>4, FS_Subset
<1>6. Total(g, T) = c * Total(f, T)
  BY <1>1, <1>5
<1>7. Total(f, m) = f[x] + Total(f, T) /\ f[x] \in Int /\ Total(f, T) \in Int
  <2>1. \A y \in m : f[y] \in Int
    BY <1>2
  <2>2. \A y \in T : f[y] \in Int
    BY <2>1
  <2> QED BY <1>2, <1>4, <1>5, <2>1, <2>2, TotalWithout, TotalType
<1>8. Total(g, m) = g[x] + Total(g, T) /\ g[x] = c * f[x]
  <2>1. \A y \in m : g[y] \in Int
    BY <1>2
  <2> QED BY <1>2, <1>4, <2>1, TotalWithout
<1>9. c * (f[x] + Total(f, T)) = c * f[x] + c * Total(f, T)
  BY <1>7
<1> QED BY <1>2, <1>6, <1>7, <1>8, <1>9

-------------------------------------------------------------------------------
\* Of numbers there is a least one.
LEMMA NatsHaveLeast ==
  ASSUME NEW C \in SUBSET Nat, C # {}
  PROVE  \E x \in C : \A y \in C : x <= y
<1>1. PICK x \in C : \A y \in C : ~(<<y, x>> \in OpToRel(<, Nat))
  BY NatLessThanWellFounded, WFMin
<1>2. \A y \in C : ~(y < x)
  BY <1>1 DEF OpToRel
<1>3. \A y \in C : x <= y
  BY <1>2
<1> QED BY <1>3
===============================================================================
