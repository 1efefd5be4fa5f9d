---------------------------- MODULE WaterDataProofs ----------------------------
(***************************************************************************)
(* What both water databases need: the check of an invoice, the sum of the *)
(* usages, what a register counted, the median, tables and their rows, and *)
(* the readings of one day.                                                *)
(***************************************************************************)
EXTENDS WaterData, FiniteSetTheorems, TLAPS

-----------------------------------------------------------------------------
(* Invoices.                                                               *)

\* The invoices of a meter of their site.
Proper == {inv \in [meter: Meters, site: {SiteOf[m] : m \in Meters},
                    amount: Amounts, createdBy: Actors] : inv.site = SiteOf[inv.meter]}

\* What updateInvoice checked on its copy is proper, whatever the body had.
LEMMA MergedProper ==
  ASSUME NEW row \in Proper, NEW patch \in InvoicePatch, Accepted(row, patch)
  PROVE  Merged(row, patch) \in Proper /\ Merged(row, patch).createdBy = row.createdBy
<1> DEFINE inv == Merged(row, patch)
           m == IF patch.meter = Keep THEN row.meter ELSE patch.meter
           site == IF patch.site = Keep THEN row.site ELSE patch.site
           amount == IF patch.amount = Keep THEN row.amount ELSE patch.amount
<1>1. /\ row \in [meter: Meters, site: {SiteOf[i] : i \in Meters},
                   amount: Amounts, createdBy: Actors]
      /\ row.site = SiteOf[row.meter]
  BY DEF Proper
<1>2. /\ inv.meter = m /\ inv.site = site /\ inv.amount = amount
      /\ inv.createdBy = row.createdBy
  BY <1>1 DEF Merged
<1>3. amount \in Amounts  BY <1>1 DEF InvoicePatch
<1>4. m \in Meters /\ site = SiteOf[m]
  <2>1. CASE patch.meter = Keep /\ patch.site = Keep  BY <1>1, <2>1
  <2>2. CASE patch.meter # Keep \/ patch.site # Keep
    <3>1. inv.meter \in Meters /\ SiteOf[inv.meter] = inv.site  BY <2>2 DEF Accepted
    <3> QED  BY <1>2, <3>1
  <2> QED  BY <2>1, <2>2
<1>5. ASSUME NEW x \in Meters, NEW y \in {SiteOf[i] : i \in Meters}, NEW z \in Amounts
      PROVE  [row EXCEPT !.meter = x, !.site = y, !.amount = z]
               \in [meter: Meters, site: {SiteOf[i] : i \in Meters},
                    amount: Amounts, createdBy: Actors]
  BY <1>1
<1>6. inv \in [meter: Meters, site: {SiteOf[i] : i \in Meters},
               amount: Amounts, createdBy: Actors]
  <2>1. site \in {SiteOf[i] : i \in Meters}  BY <1>4
  <2> HIDE DEF m, site, amount
  <2>2. [row EXCEPT !.meter = m, !.site = site, !.amount = amount]
          \in [meter: Meters, site: {SiteOf[i] : i \in Meters},
               amount: Amounts, createdBy: Actors]
    BY <1>3, <1>4, <1>5, <2>1
  <2> QED  BY <2>2 DEF Merged, m, site, amount
<1>7. inv \in Proper
  <2> HIDE DEF m, site, amount, inv
  <2> QED  BY <1>2, <1>4, <1>6 DEF Proper
<1> QED  BY <1>2, <1>7

-----------------------------------------------------------------------------
(* Induction over a finite set, or over numbers, by a least counterexample. *)

LEMMA LeastNumber ==
  ASSUME NEW T \in SUBSET Nat, T # {}
  PROVE  \E n \in T : \A k \in T : n <= k
<1>1. PICK n \in T : \A k \in T : ~ (<<k, n>> \in OpToRel(<, Nat))
  BY NatLessThanWellFounded, WFMin
<1>2. n \in Nat /\ \A k \in T : k \in Nat /\ ~(k < n)  BY <1>1 DEF OpToRel
<1>3. \A k \in T : n <= k  BY <1>2
<1> QED  BY <1>3

LEMMA LeastSet ==
  ASSUME NEW S, IsFiniteSet(S), NEW C \in SUBSET SUBSET S, C # {}
  PROVE  \E T \in C : \A U \in C : U \subseteq T => U = T
<1>1. IsWellFoundedOn(StrictSubsetOrdering(S), SUBSET S)
  BY FS_StrictSubsetOrderingWellFounded, FS_FiniteSubsetsOfFinite
<1>2. PICK T \in C : \A U \in C : ~ (<<U, T>> \in StrictSubsetOrdering(S))
  BY <1>1, WFMin
<1>3. \A U \in C : U \subseteq T => U = T
  BY <1>2 DEF StrictSubsetOrdering
<1> QED  BY <1>3

-----------------------------------------------------------------------------
(* The sum that MapThenSumSet folds: one recursive function per set.       *)

Pick(s) == CHOOSE x \in s : TRUE
Sums(t, g, D) == [s \in D |-> IF s = {} THEN 0 ELSE t[Pick(s)].usage + g[s \ {Pick(s)}]]
Sum(t, S) == CHOOSE g : g = Sums(t, g, SUBSET S)

SumOf(t, S, s) == Sum(t, S)[s]

LEMMA UsagesSum == ASSUME NEW t, NEW S PROVE Usages(t, S) = SumOf(t, S, S)
BY DEF SumOf, Usages, MapThenSumSet, MapThenFoldSet, Sum, Sums, Pick

LEMMA PickIn == ASSUME NEW s, s # {} PROVE Pick(s) \in s
BY DEF Pick

Upto(S, n) == {s \in SUBSET S : Cardinality(s) <= n}

LEMMA SumExists ==
  ASSUME NEW t, NEW S, IsFiniteSet(S)
  PROVE  \E g : g = Sums(t, g, SUBSET S)
<1> DEFINE Bad == {n \in Nat : ~ \E g : g = Sums(t, g, Upto(S, n))}
<1>1. \A s \in SUBSET S : IsFiniteSet(s) /\ Cardinality(s) \in Nat
  BY FS_Subset, FS_CardinalityType
<1>2. 0 \notin Bad
  <2>1. \A s \in SUBSET S : Cardinality(s) <= 0 <=> s = {}  BY <1>1, FS_EmptySet
  <2>2. Upto(S, 0) = {{}}  BY <2>1 DEF Upto
  <2> DEFINE g == [s \in {{}} |-> 0]
  <2>3. g = Sums(t, g, Upto(S, 0))  BY <2>2 DEF Sums
  <2> QED  BY <2>3
<1>3. ASSUME NEW n \in Nat, n # 0, n - 1 \notin Bad
      PROVE  n \notin Bad
  <2>1. PICK g : g = Sums(t, g, Upto(S, n - 1))  BY <1>3
  <2> DEFINE h == Sums(t, g, Upto(S, n))
  <2>2. \A s \in Upto(S, n - 1) : h[s] = g[s]
    <3>1. \A s \in Upto(S, n - 1) : s \in Upto(S, n)  BY <1>1, <1>3 DEF Upto
    <3>2. ASSUME NEW s \in Upto(S, n - 1) PROVE h[s] = Sums(t, g, Upto(S, n - 1))[s]
      BY <3>1 DEF Sums
    <3> HIDE DEF h
    <3> QED  BY <3>2, <2>1
  <2>3. ASSUME NEW s \in Upto(S, n), s # {}  PROVE s \ {Pick(s)} \in Upto(S, n - 1)
    <3>1. IsFiniteSet(s) /\ Cardinality(s) <= n /\ Cardinality(s) \in Nat  BY <1>1 DEF Upto
    <3>2. Cardinality(s \ {Pick(s)}) = Cardinality(s) - 1  BY <2>3, <3>1, PickIn, FS_RemoveElement
    <3> QED  BY <3>1, <3>2, <1>3 DEF Upto
  <2>4. \A s \in Upto(S, n) : s # {} => g[s \ {Pick(s)}] = h[s \ {Pick(s)}]
    <3> HIDE DEF h
    <3> QED  BY <2>2, <2>3
  <2> DEFINE k == h
  <2>5. h = Sums(t, k, Upto(S, n))
    <3>1. \A s \in Upto(S, n) : s # {} => g[s \ {Pick(s)}] = k[s \ {Pick(s)}]  BY <2>4
    <3> HIDE DEF k
    <3> QED  BY <3>1 DEF Sums
  <2> QED  BY <2>5
<1>4. Bad = {}
  <2>1. SUFFICES ASSUME Bad # {} PROVE FALSE  OBVIOUS
  <2>2. PICK n \in Bad : \A k \in Bad : n <= k  BY <2>1, LeastNumber
  <2>3. n \in Nat /\ n # 0 /\ n - 1 \notin Bad  BY <2>2, <1>2
  <2> HIDE DEF Bad
  <2> QED  BY <2>2, <2>3, <1>3
<1>5. Upto(S, Cardinality(S)) = SUBSET S  BY FS_Subset DEF Upto
<1>6. Cardinality(S) \in Nat  BY FS_CardinalityType
<1> QED  BY <1>4, <1>5, <1>6

LEMMA SumIs ==
  ASSUME NEW t, NEW S, IsFiniteSet(S), NEW s \in SUBSET S
  PROVE  /\ s = {} => SumOf(t, S, s) = 0
         /\ s # {} => SumOf(t, S, s) = t[Pick(s)].usage + SumOf(t, S, s \ {Pick(s)})
<1> DEFINE g == Sum(t, S)
<1>1. g = Sums(t, g, SUBSET S)  BY SumExists DEF Sum
<1> HIDE DEF g
<1>2. g[s] = Sums(t, g, SUBSET S)[s]  BY <1>1
<1>3. g[s] = IF s = {} THEN 0 ELSE t[Pick(s)].usage + g[s \ {Pick(s)}]  BY <1>2 DEF Sums
<1> QED  BY <1>3 DEF g, SumOf

\* The sum depends on the usages summed, not on the rest of the table.
LEMMA SumLocal ==
  ASSUME NEW t, NEW S, IsFiniteSet(S), NEW u, NEW R, IsFiniteSet(R), S \subseteq R,
         \A i \in S : t[i].usage = u[i].usage
  PROVE  \A s \in SUBSET S : SumOf(t, S, s) = SumOf(u, R, s)
<1> DEFINE Bad == {s \in SUBSET S : SumOf(t, S, s) # SumOf(u, R, s)}
<1>1. SUFFICES ASSUME Bad # {} PROVE FALSE  OBVIOUS
<1>2. PICK s \in Bad : \A r \in Bad : r \subseteq s => r = s
  <2>1. Bad \in SUBSET SUBSET S  OBVIOUS
  <2> HIDE DEF Bad
  <2> QED  BY <1>1, <2>1, LeastSet
<1>3. s \in SUBSET S /\ s \in SUBSET R  BY <1>2
<1>4. s # {}
  <2>1. SumOf(t, S, {}) = SumOf(u, R, {})  BY SumIs
  <2> QED  BY <1>2, <2>1
<1>5. Pick(s) \in s  BY <1>4, PickIn
<1>6. SumOf(t, S, s \ {Pick(s)}) = SumOf(u, R, s \ {Pick(s)})  BY <1>2, <1>3, <1>5
<1>7. SumOf(t, S, s) = t[Pick(s)].usage + SumOf(t, S, s \ {Pick(s)})  BY <1>3, <1>4, SumIs
<1>8. SumOf(u, R, s) = u[Pick(s)].usage + SumOf(u, R, s \ {Pick(s)})  BY <1>3, <1>4, SumIs
<1>9. Pick(s) \in S  BY <1>3, <1>5
<1>10. t[Pick(s)].usage = u[Pick(s)].usage  BY <1>9
<1>11. SumOf(t, S, s) = SumOf(u, R, s)  BY <1>6, <1>7, <1>8, <1>10
<1> QED  BY <1>2, <1>11

LEMMA UsagesAgree ==
  ASSUME NEW t, NEW u, NEW S, IsFiniteSet(S), \A i \in S : t[i].usage = u[i].usage
  PROVE  Usages(t, S) = Usages(u, S)
BY SumLocal, UsagesSum

LEMMA UsagesNone == ASSUME NEW t PROVE Usages(t, {}) = 0
BY FS_EmptySet, SumIs, UsagesSum

LEMMA UsagesStep ==
  ASSUME NEW t, NEW S, IsFiniteSet(S), S # {}
  PROVE  Usages(t, S) = t[Pick(S)].usage + Usages(t, S \ {Pick(S)})
<1>1. IsFiniteSet(S \ {Pick(S)}) /\ S \ {Pick(S)} \subseteq S  BY FS_RemoveElement
<1>2. SumOf(t, S \ {Pick(S)}, S \ {Pick(S)}) = SumOf(t, S, S \ {Pick(S)})  BY <1>1, SumLocal
<1>3. S \in SUBSET S  OBVIOUS
<1>4. SumOf(t, S, S) = t[Pick(S)].usage + SumOf(t, S, S \ {Pick(S)})  BY <1>3, SumIs
<1> QED  BY <1>2, <1>4, UsagesSum

LEMMA UsagesInt ==
  ASSUME NEW t, NEW S, IsFiniteSet(S), \A i \in S : t[i].usage \in Int
  PROVE  Usages(t, S) \in Int
<1> DEFINE Bad == {s \in SUBSET S : Usages(t, s) \notin Int}
<1>1. SUFFICES ASSUME Bad # {} PROVE FALSE  OBVIOUS
<1>2. PICK s \in Bad : \A r \in Bad : r \subseteq s => r = s
  <2>1. Bad \in SUBSET SUBSET S  OBVIOUS
  <2> HIDE DEF Bad
  <2> QED  BY <1>1, <2>1, LeastSet
<1>3. IsFiniteSet(s) /\ s \in SUBSET S  BY <1>2, FS_Subset
<1>4. s # {}
  <2>1. Usages(t, {}) \in Int  BY UsagesNone
  <2> QED  BY <1>2, <2>1
<1>5. Pick(s) \in s  BY <1>4, PickIn
<1>6. Usages(t, s \ {Pick(s)}) \in Int  BY <1>2, <1>3, <1>5
<1>7. t[Pick(s)].usage \in Int  BY <1>3, <1>5
<1>8. Usages(t, s) \in Int  BY <1>3, <1>4, <1>6, <1>7, UsagesStep
<1> QED  BY <1>2, <1>8

\* Whichever usage is taken first.
LEMMA UsagesRemove ==
  ASSUME NEW t, NEW S, IsFiniteSet(S), \A i \in S : t[i].usage \in Int, NEW x \in S
  PROVE  Usages(t, S) = t[x].usage + Usages(t, S \ {x})
<1> DEFINE Bad == {s \in SUBSET S : \E y \in s : Usages(t, s) # t[y].usage + Usages(t, s \ {y})}
<1>1. SUFFICES ASSUME Bad # {} PROVE FALSE
  <2>1. S \in SUBSET S  OBVIOUS
  <2> QED  BY <2>1
<1>2. PICK s \in Bad : \A r \in Bad : r \subseteq s => r = s
  <2>1. Bad \in SUBSET SUBSET S  OBVIOUS
  <2> HIDE DEF Bad
  <2> QED  BY <1>1, <2>1, LeastSet
<1>3. IsFiniteSet(s) /\ s \in SUBSET S  BY <1>2, FS_Subset
<1>4. PICK y \in s : Usages(t, s) # t[y].usage + Usages(t, s \ {y})  BY <1>2
<1> DEFINE p == Pick(s)
<1>5. p \in s  BY <1>4, PickIn
<1>6. Usages(t, s) = t[p].usage + Usages(t, s \ {p})  BY <1>3, <1>4, UsagesStep
<1>7. p # y  BY <1>4, <1>6
<1> HIDE DEF p
<1>8. /\ s \ {p} \notin Bad /\ s \ {y} \notin Bad
      /\ s \ {p} \in SUBSET S /\ s \ {y} \in SUBSET S
  BY <1>2, <1>3, <1>4, <1>5
<1>9. /\ Usages(t, s \ {p}) = t[y].usage + Usages(t, (s \ {p}) \ {y})
      /\ Usages(t, s \ {y}) = t[p].usage + Usages(t, (s \ {y}) \ {p})
  <2>1. y \in s \ {p} /\ p \in s \ {y}  BY <1>4, <1>5, <1>7
  <2> QED  BY <1>8, <2>1
<1> DEFINE r == (s \ {p}) \ {y}
<1>10. (s \ {y}) \ {p} = r  OBVIOUS
<1>11. Usages(t, r) \in Int
  <2>1. IsFiniteSet(r) /\ r \subseteq S  BY <1>3, FS_RemoveElement
  <2>2. \A i \in r : t[i].usage \in Int  BY <2>1
  <2> QED  BY <2>1, <2>2, UsagesInt
<1> HIDE DEF r
<1>12. t[p].usage \in Int /\ t[y].usage \in Int  BY <1>3, <1>4, <1>5
<1>13. /\ Usages(t, s) = t[p].usage + Usages(t, s \ {p})
       /\ Usages(t, s \ {p}) = t[y].usage + Usages(t, r)
       /\ Usages(t, s \ {y}) = t[p].usage + Usages(t, r)
  BY <1>6, <1>9, <1>10 DEF r
<1>14. Usages(t, s) = t[y].usage + Usages(t, s \ {y})  BY <1>11, <1>12, <1>13
<1> QED  BY <1>4, <1>14

\* More usages are not less water.
LEMMA UsagesGrow ==
  ASSUME NEW t, NEW S, IsFiniteSet(S), \A i \in S : t[i].usage \in Int /\ t[i].usage >= 0,
         NEW R \in SUBSET S
  PROVE  Usages(t, R) <= Usages(t, S)
<1> DEFINE Bad == {s \in SUBSET S : R \subseteq s /\ ~(Usages(t, R) <= Usages(t, s))}
<1>1. SUFFICES ASSUME Bad # {} PROVE FALSE
  <2>1. S \in SUBSET S  OBVIOUS
  <2> QED  BY <2>1
<1>2. PICK s \in Bad : \A r \in Bad : r \subseteq s => r = s
  <2>1. Bad \in SUBSET SUBSET S  OBVIOUS
  <2> HIDE DEF Bad
  <2> QED  BY <1>1, <2>1, LeastSet
<1>3. \A r \in SUBSET S : IsFiniteSet(r) /\ Usages(t, r) \in Int  BY FS_Subset, UsagesInt
<1>4. s \in SUBSET S /\ R \subseteq s /\ ~(Usages(t, R) <= Usages(t, s))  BY <1>2
<1>5. PICK x \in s : x \notin R
  <2>1. R # s  BY <1>3, <1>4
  <2> QED  BY <1>4, <2>1
<1>6. s \ {x} \notin Bad /\ s \ {x} \in SUBSET S /\ R \subseteq s \ {x}  BY <1>2, <1>4, <1>5
<1>7. Usages(t, R) <= Usages(t, s \ {x})  BY <1>6
<1>8. Usages(t, s) = t[x].usage + Usages(t, s \ {x})
  BY <1>3, <1>4, UsagesRemove
<1>9. t[x].usage \in Int /\ t[x].usage >= 0  BY <1>4
<1>10. Usages(t, s \ {x}) \in Int /\ Usages(t, R) \in Int  BY <1>3, <1>6
<1> HIDE DEF Bad
<1> QED  BY <1>4, <1>7, <1>8, <1>9, <1>10

LEMMA UsagesNotNegative ==
  ASSUME NEW t, NEW S, IsFiniteSet(S), \A i \in S : t[i].usage \in Int /\ t[i].usage >= 0
  PROVE  Usages(t, S) \in Int /\ Usages(t, S) >= 0
<1>1. Usages(t, S) \in Int  BY UsagesInt
<1>2. {} \in SUBSET S  OBVIOUS
<1>3. Usages(t, {}) <= Usages(t, S)  BY <1>2, UsagesGrow
<1> QED  BY <1>1, <1>3, UsagesNone

-----------------------------------------------------------------------------
(* Registers.                                                              *)

\* Whoever is reached from one reading by covering usages is covered by all
\* the usages there are.
LEMMA UsagesCover ==
  ASSUME NEW t, NEW ids \in SUBSET Nat, IsFiniteSet(ids),
         \A k \in ids : t[k].usage \in Int /\ t[k].usage >= 0 /\ t[k].value \in Int,
         NEW i \in ids, \A j \in ids \ {i} : \E p \in ids : Covers(t, p, j)
  PROVE  \A j \in ids : t[j].value - t[i].value <= Usages(t, ids)
<1> DEFINE upto(j) == {k \in ids : k <= j}
           bad == {j \in ids : ~(t[j].value - t[i].value <= Usages(t, upto(j)))}
<1>1. \A s \in SUBSET ids : /\ IsFiniteSet(s) /\ Usages(t, s) \in Int
                            /\ \A k \in s : t[k].usage \in Int /\ t[k].usage >= 0
  BY FS_Subset, UsagesInt
<1>2. ASSUME bad # {}  PROVE FALSE
  <2>1. PICK j \in bad : \A k \in bad : j <= k
    <3>1. bad \in SUBSET Nat  OBVIOUS
    <3> HIDE DEF bad
    <3> QED  BY <1>2, <3>1, LeastNumber
  <2>2. j \in ids /\ j \in Nat  BY <2>1
  <2>3. j # i
    <3>1. Usages(t, {}) <= Usages(t, upto(j)) /\ Usages(t, {}) = 0
      BY <1>1, UsagesGrow, UsagesNone
    <3>2. t[i].value - t[i].value = 0  OBVIOUS
    <3> QED  BY <2>1, <3>1, <3>2
  <2>4. PICK p \in ids : Covers(t, p, j)  BY <2>2, <2>3
  <2>5. p < j /\ t[j].value - t[p].value <= t[j].usage  BY <2>4 DEF Covers
  <2>6. p \notin bad  BY <2>1, <2>2, <2>5
  <2>7. t[p].value - t[i].value <= Usages(t, upto(p))  BY <2>6
  <2>8. Usages(t, upto(p)) <= Usages(t, upto(j) \ {j})
    <3>1. ASSUME NEW k \in upto(p)  PROVE k \in upto(j) \ {j}
      <4>1. k \in Nat /\ p \in Nat /\ k <= p /\ k \in ids  OBVIOUS
      <4> QED  BY <2>2, <2>5, <4>1
    <3>2. upto(j) \ {j} \in SUBSET ids  OBVIOUS
    <3> HIDE DEF upto
    <3> QED  BY <1>1, <3>1, <3>2, UsagesGrow
  <2>9. Usages(t, upto(j)) = t[j].usage + Usages(t, upto(j) \ {j})
    <3>1. upto(j) \in SUBSET ids /\ j \in upto(j)  BY <2>2
    <3> HIDE DEF upto
    <3>2. IsFiniteSet(upto(j)) /\ \A k \in upto(j) : t[k].usage \in Int  BY <1>1, <3>1
    <3> QED  BY <3>1, <3>2, UsagesRemove
  <2>10. /\ Usages(t, upto(j)) \in Int /\ Usages(t, upto(p)) \in Int
         /\ Usages(t, upto(j) \ {j}) \in Int
    BY <1>1
  <2>11. /\ t[j].usage \in Int /\ t[j].value \in Int /\ t[p].value \in Int
         /\ t[i].value \in Int
    BY <2>2
  <2>12. ~(t[j].value - t[i].value <= Usages(t, upto(j)))  BY <2>1
  <2> HIDE DEF upto, bad
  <2> QED  BY <2>5, <2>7, <2>8, <2>9, <2>10, <2>11, <2>12
<1>3. ASSUME NEW j \in ids  PROVE t[j].value - t[i].value <= Usages(t, ids)
  <2>1. t[j].value - t[i].value <= Usages(t, upto(j))  BY <1>2
  <2>2. Usages(t, upto(j)) <= Usages(t, ids) /\ upto(j) \in SUBSET ids
    <3>1. upto(j) \in SUBSET ids  OBVIOUS
    <3> HIDE DEF upto
    <3> QED  BY <1>1, <3>1, UsagesGrow
  <2>3. Usages(t, upto(j)) \in Int /\ Usages(t, ids) \in Int  BY <1>1, <2>2
  <2> HIDE DEF upto
  <2> QED  BY <2>1, <2>2, <2>3
<1> QED  BY <1>3

-----------------------------------------------------------------------------
(* The median is a number: of finitely many usages, each has a rank of its *)
(* own, so that every rank up to their number is taken.                    *)

LEMMA RankTaken ==
  ASSUME NEW D \in SUBSET Int, IsFiniteSet(D), NEW before \in [D -> SUBSET D],
         \A i \in D : i \in before[i],
         \A i, j \in D : i # j =>
           \/ before[i] \subseteq before[j] /\ j \notin before[i]
           \/ before[j] \subseteq before[i] /\ i \notin before[j],
         NEW k \in 1..Cardinality(D)
  PROVE  \E i \in D : Cardinality(before[i]) = k
<1>1. \A i \in D : /\ IsFiniteSet(before[i]) /\ Cardinality(before[i]) \in Nat
                   /\ Cardinality(before[i]) <= Cardinality(D)
                   /\ Cardinality(before[i]) # 0
  BY FS_Subset, FS_CardinalityType, FS_EmptySet
<1>2. ASSUME NEW i \in D, NEW j \in D, before[i] \subseteq before[j], j \notin before[i]
      PROVE  Cardinality(before[i]) # Cardinality(before[j])
  BY <1>1, <1>2, FS_Subset
<1>3. Cardinality(D) \in Nat  BY FS_CardinalityType
<1> DEFINE n == Cardinality(D)
           f == [i \in D |-> Cardinality(before[i])]
           I == 1..n
           T == I \ {k}
<1>4. SUFFICES ASSUME \A i \in D : Cardinality(before[i]) # k  PROVE FALSE  OBVIOUS
<1>5. f \in [D -> T]  BY <1>1, <1>3, <1>4
<1>6. IsFiniteSet(T) /\ Cardinality(T) = n - 1
  <2>1. IsFiniteSet(I) /\ Cardinality(I) = n /\ k \in I  BY <1>3, FS_Interval
  <2> HIDE DEF I, n
  <2> QED  BY <2>1, FS_RemoveElement
<1>7. \E i, j \in D : i # j /\ f[i] = f[j]
  <2>1. Cardinality(T) < Cardinality(D)
    <3> HIDE DEF T
    <3> QED  BY <1>3, <1>6
  <2>2. IsFiniteSet(T) /\ IsFiniteSet(D)  BY <1>6
  <2> HIDE DEF f, T
  <2>3. f \in [D -> T]  BY <1>5
  <2> QED  BY ONLY <2>1, <2>2, <2>3, FS_PigeonHole
<1> QED  BY <1>2, <1>7

\* The elements with the two middle ranks, and the ranks.
LEMMA MiddleRanks ==
  ASSUME NEW n \in Nat \ {0}
  PROVE  /\ (n + 1) \div 2 \in 1..n /\ n \div 2 + 1 \in 1..n
         /\ (n + 1) \div 2 <= n \div 2 + 1
         /\ 2 * ((n + 1) \div 2) >= n /\ 2 * (n - (n \div 2 + 1) + 1) >= n
OBVIOUS

\* At least half of the usages are no more than the median, and at least half
\* are no less: what median (median.go) finds by sorting.
THEOREM MedianIsMiddle ==
  ASSUME NEW v, v \in [DOMAIN v -> Int], DOMAIN v \in SUBSET Int, IsFiniteSet(DOMAIN v),
         DOMAIN v # {}
  PROVE  /\ Median(v) \in Int
         /\ 2 * Cardinality({j \in DOMAIN v : v[j] <= Median(v)}) >= Cardinality(DOMAIN v)
         /\ 2 * Cardinality({j \in DOMAIN v : v[j] >= Median(v)}) >= Cardinality(DOMAIN v)
<1> DEFINE D == DOMAIN v
           before(i) == {j \in D : v[j] < v[i] \/ (v[j] = v[i] /\ j <= i)}
           B == [i \in D |-> before(i)]
           n == Cardinality(D)
           low == (n + 1) \div 2
           high == n \div 2 + 1
           at(k) == CHOOSE i \in D : Cardinality(before(i)) = k
           M == Median(v)
<1>1. \A i \in D : v[i] \in Int /\ i \in Int  OBVIOUS
<1>2. B \in [D -> SUBSET D] /\ \A i \in D : i \in B[i]  BY <1>1
<1>3. ASSUME NEW i \in D, NEW j \in D, i # j
      PROVE  \/ B[i] \subseteq B[j] /\ j \notin B[i]
             \/ B[j] \subseteq B[i] /\ i \notin B[j]
  BY <1>1, <1>3
<1>4. \A k \in 1..n : at(k) \in D /\ Cardinality(before(at(k))) = k
  <2>1. IsFiniteSet(D) /\ D \in SUBSET Int  OBVIOUS
  <2>2. \A i \in D : before(i) = B[i]  OBVIOUS
  <2> HIDE DEF D, before, B
  <2>3. \A k \in 1..n : \E i \in D : Cardinality(B[i]) = k
    BY <1>2, <1>3, <2>1, RankTaken DEF n
  <2> QED  BY <2>2, <2>3
<1>5. n \in Nat \ {0}  BY FS_CardinalityType, FS_EmptySet
<1>6. /\ low \in 1..n /\ high \in 1..n /\ low <= high
      /\ 2 * low >= n /\ 2 * (n - high + 1) >= n
  <2> HIDE DEF n
  <2> QED  BY <1>5, MiddleRanks
<1>7. M = (v[at(low)] + v[at(high)]) \div 2  BY DEF Median
<1> HIDE DEF at, low, high, M, n
<1>8. PICK i \in D, k \in D : /\ Cardinality(before(i)) = low /\ Cardinality(before(k)) = high
                              /\ M = (v[i] + v[k]) \div 2
  BY <1>4, <1>6, <1>7
<1>9. IsFiniteSet(before(i)) /\ IsFiniteSet(before(k)) /\ low \in Nat /\ high \in Nat
  <2>1. before(i) \in SUBSET D /\ before(k) \in SUBSET D  OBVIOUS
  <2> HIDE DEF before
  <2> QED  BY <1>6, <2>1, FS_Subset
<1>10. v[i] <= v[k]
  <2> SUFFICES ASSUME v[k] < v[i]  PROVE FALSE  BY <1>1
  <2>1. before(k) \in SUBSET before(i) /\ i \in before(i) /\ i \notin before(k)  BY <1>1
  <2> HIDE DEF before
  <2>2. high <= low /\ high # low  BY <1>8, <1>9, <2>1, FS_Subset
  <2> QED  BY <1>6, <1>9, <2>2
<1>11. M \in Int /\ v[i] <= M /\ M <= v[k]
  <2> DEFINE x == v[i]
             y == v[k]
  <2>1. x \in Int /\ y \in Int /\ x <= y /\ M = (x + y) \div 2  BY <1>1, <1>8, <1>10
  <2> HIDE DEF x, y
  <2>2. M \in Int /\ x <= M /\ M <= y  BY ONLY <2>1
  <2> QED  BY <2>2 DEF x, y
<1> DEFINE L == {j \in D : v[j] <= M}
           H == {j \in D : v[j] >= M}
<1>12. IsFiniteSet(L) /\ IsFiniteSet(H) /\ Cardinality(L) \in Nat /\ Cardinality(H) \in Nat
  <2>1. L \in SUBSET D /\ H \in SUBSET D  OBVIOUS
  <2> HIDE DEF L, H
  <2> QED  BY <2>1, FS_Subset, FS_CardinalityType
<1>13. 2 * Cardinality(L) >= n
  <2>1. before(i) \in SUBSET L  BY <1>1, <1>11
  <2> HIDE DEF L, before
  <2>2. low <= Cardinality(L)  BY <1>8, <1>12, <2>1, FS_Subset
  <2> QED  BY <1>5, <1>6, <1>9, <1>12, <2>2
<1>14. 2 * Cardinality(H) >= n
  <2> DEFINE R == D \ before(k)
  <2>1. R \cup {k} \in SUBSET H /\ k \notin R  BY <1>1, <1>11
  <2>2. IsFiniteSet(R) /\ Cardinality(R) = n - high
    <3>1. D \cap before(k) = before(k) /\ IsFiniteSet(D)  OBVIOUS
    <3> HIDE DEF before, D
    <3> QED  BY <1>8, <1>9, <3>1, FS_Difference DEF n
  <2> HIDE DEF R, H
  <2>3. IsFiniteSet(R \cup {k}) /\ Cardinality(R \cup {k}) = n - high + 1
    BY <2>1, <2>2, FS_AddElement
  <2>4. Cardinality(R \cup {k}) <= Cardinality(H)  BY <1>12, <2>1, FS_Subset
  <2> QED  BY <1>5, <1>6, <1>9, <1>12, <2>3, <2>4
<1> QED  BY <1>11, <1>13, <1>14 DEF L, H, M, n

LEMMA MedianInt ==
  ASSUME NEW v, v \in [DOMAIN v -> Int], DOMAIN v \in SUBSET Int, IsFiniteSet(DOMAIN v),
         DOMAIN v # {}
  PROVE  Median(v) \in Int
BY MedianIsMiddle

\* The median of positive usages is positive: one of them is no more.
LEMMA MedianPositive ==
  ASSUME NEW v, v \in [DOMAIN v -> Int], DOMAIN v \in SUBSET Int, IsFiniteSet(DOMAIN v),
         DOMAIN v # {}, \A i \in DOMAIN v : v[i] > 0
  PROVE  Median(v) > 0
<1> DEFINE L == {j \in DOMAIN v : v[j] <= Median(v)}
<1>1. Median(v) \in Int /\ 2 * Cardinality(L) >= Cardinality(DOMAIN v)  BY MedianIsMiddle
<1>2. Cardinality(DOMAIN v) \in Nat \ {0}  BY FS_CardinalityType, FS_EmptySet
<1>3. L # {}
  <2> SUFFICES ASSUME L = {}  PROVE FALSE  OBVIOUS
  <2>1. Cardinality(L) = 0  BY FS_EmptySet
  <2> HIDE DEF L
  <2> QED  BY <1>1, <1>2, <2>1
<1>4. PICK j \in DOMAIN v : v[j] <= Median(v)  BY <1>3
<1> QED  BY <1>1, <1>4

LEMMA QuotientInt ==
  ASSUME NEW a \in Int, NEW b \in Nat \ {0}
  PROVE  a \div b \in Int
OBVIOUS

LEMMA ProductInt ==
  ASSUME NEW a \in Int, NEW b \in Int
  PROVE  a * b \in Int
OBVIOUS

LEMMA ProductPositive ==
  ASSUME NEW a \in Nat \ {0}, NEW b \in Nat \ {0}
  PROVE  a * b \in Nat \ {0}
OBVIOUS

LEMMA ProductNotNegative ==
  ASSUME NEW a \in Nat, NEW b \in Nat
  PROVE  a * b \in Nat
OBVIOUS

LEMMA QuotientNotNegative ==
  ASSUME NEW a \in Nat, NEW b \in Nat \ {0}
  PROVE  a \div b \in Nat
OBVIOUS

-----------------------------------------------------------------------------
(* Tables.                                                                 *)

Table(t, row, n) == t \in [DOMAIN t -> row] /\ DOMAIN t \subseteq 1..n

LEMMA EmptyTable == ASSUME NEW row, NEW n \in Nat PROVE Table(Empty, row, n)
BY DEF Table, Empty

LEMMA TableGrows ==
  ASSUME NEW t, NEW row, NEW n \in Nat, NEW k \in Nat, n <= k, Table(t, row, n)
  PROVE  Table(t, row, k)
<1>1. 1..n \subseteq 1..k  OBVIOUS
<1> QED  BY <1>1 DEF Table

LEMMA PutTable ==
  ASSUME NEW t, NEW row, NEW n \in Nat, Table(t, row, n), NEW r \in row
  PROVE  Table(Put(t, n + 1, r), row, n + 1)
<1>1. 1..n \subseteq 1..(n + 1) /\ n + 1 \in 1..(n + 1)  OBVIOUS
<1>2. DOMAIN Put(t, n + 1, r) = DOMAIN t \cup {n + 1}  BY DEF Put
<1>3. \A i \in DOMAIN t \cup {n + 1} : Put(t, n + 1, r)[i] \in row  BY DEF Put, Table
<1>4. Put(t, n + 1, r) = [i \in DOMAIN t \cup {n + 1} |-> Put(t, n + 1, r)[i]]  BY DEF Put
<1> QED  BY <1>1, <1>2, <1>3, <1>4 DEF Table

LEMMA WithoutTable ==
  ASSUME NEW t, NEW row, NEW n \in Nat, Table(t, row, n), NEW ids
  PROVE  Table(Without(t, ids), row, n)
BY DEF Table, Without

LEMMA ExceptTable ==
  ASSUME NEW t, NEW row, NEW n \in Nat, Table(t, row, n), NEW id \in DOMAIN t, NEW r \in row
  PROVE  Table([t EXCEPT ![id] = r], row, n)
BY DEF Table

LEMMA ListedTable ==
  ASSUME NEW row, NEW list \in Seq(row), NEW base \in Nat, NEW n \in Nat, base + Len(list) <= n
  PROVE  Table(Listed(list, base), row, n)
<1>1. Len(list) \in Nat /\ \A i \in 1..Len(list) : list[i] \in row  OBVIOUS
<1> DEFINE ids == (base + 1)..(base + Len(list))
<1>2. \A i \in ids : i - base \in 1..Len(list) /\ i \in 1..n  BY <1>1
<1>3. DOMAIN Listed(list, base) = ids /\ \A i \in ids : Listed(list, base)[i] = list[i - base]
  BY DEF Listed
<1>4. Listed(list, base) = [i \in ids |-> Listed(list, base)[i]]  BY DEF Listed
<1> QED  BY <1>1, <1>2, <1>3, <1>4 DEF Table

LEMMA FiniteTable ==
  ASSUME NEW t, NEW row, NEW n \in Nat, Table(t, row, n)
  PROVE  IsFiniteSet(DOMAIN t) /\ DOMAIN t \in SUBSET Nat
<1>1. IsFiniteSet(1..n) /\ 1..n \subseteq Nat  BY FS_Interval
<1> QED  BY <1>1, FS_Subset DEF Table

-----------------------------------------------------------------------------
(* Rows of the types.                                                      *)

LEMMA MergedTyped ==
  ASSUME NEW row \in Invoice, NEW patch \in InvoicePatch, Accepted(row, patch)
  PROVE  Merged(row, patch) \in Invoice
<1> DEFINE inv == Merged(row, patch)
           m == IF patch.meter = Keep THEN row.meter ELSE patch.meter
           site == IF patch.site = Keep THEN row.site ELSE patch.site
           amount == IF patch.amount = Keep THEN row.amount ELSE patch.amount
<1>1. inv.meter = m /\ inv.site = site  BY DEF Merged, Invoice
<1>2. m \in Meters /\ site \in Sites
  <2>1. CASE patch.meter = Keep /\ patch.site = Keep  BY <2>1 DEF Invoice
  <2>2. CASE patch.meter # Keep \/ patch.site # Keep
    <3>1. m \in Meters  BY <1>1, <2>2 DEF Accepted
    <3>2. site \in Sites  BY DEF Invoice, InvoicePatch
    <3> QED  BY <3>1, <3>2
  <2> QED  BY <2>1, <2>2
<1>3. amount \in Amounts  BY DEF Invoice, InvoicePatch
<1> HIDE DEF m, site, amount
<1>4. [row EXCEPT !.meter = m, !.site = site, !.amount = amount] \in Invoice
  BY <1>2, <1>3 DEF Invoice
<1> QED  BY <1>4 DEF Merged, m, site, amount

LEMMA EstimateReading ==
  ASSUME NEW m \in MeterIds, NEW value \in Int, NEW usage \in Int, NEW date \in Nat
  PROVE  /\ Estimate(m, value, usage, date) \in Reading
         /\ Estimate(m, value, usage, date).meter = m
         /\ Estimate(m, value, usage, date).date = date
BY DEF Estimate, Reading

\* Reading j counts from p, if p is positive and the usage not negative.
Counted(t, p, j) ==
  /\ t[p].meter = t[j].meter
  /\ t[p].value > 0 /\ t[j].usage >= 0 => Covers(t, p, j)

-----------------------------------------------------------------------------
(* Readings of one day.                                                    *)

\* The readings of meter m and day d among the ids b of a table.
Filled(b, t, m, d) == {i \in b \cap DOMAIN t : t[i].meter = m /\ t[i].date = d}

LEMMA FilledFinite ==
  ASSUME NEW n \in Nat, NEW b, b \subseteq 1..n, NEW t, NEW m, NEW d,
         NEW S \in SUBSET Filled(b, t, m, d)
  PROVE  /\ IsFiniteSet(S) /\ Cardinality(S) \in Nat
         /\ Cardinality(S) <= Cardinality(Filled(b, t, m, d))
<1>1. Filled(b, t, m, d) \in SUBSET (1..n)  BY DEF Filled
<1>2. IsFiniteSet(1..n)  BY FS_Interval
<1>3. IsFiniteSet(Filled(b, t, m, d))  BY <1>1, <1>2, FS_Subset
<1> QED  BY <1>3, FS_Subset, FS_CardinalityType

\* Two finite sets that have together no more than k elements: so have their
\* subsets, and they still have when the one gets an element and the other
\* loses one.
LEMMA FewerTogether ==
  ASSUME NEW F, NEW G, IsFiniteSet(F), IsFiniteSet(G), NEW k \in Nat,
         Cardinality(F) + Cardinality(G) <= k,
         NEW E, E \subseteq F, NEW H, H \subseteq G
  PROVE  Cardinality(E) + Cardinality(H) <= k
<1>1. E \in SUBSET F /\ H \in SUBSET G  OBVIOUS
<1>2. /\ Cardinality(E) \in Nat /\ Cardinality(F) \in Nat /\ Cardinality(E) <= Cardinality(F)
      /\ Cardinality(H) \in Nat /\ Cardinality(G) \in Nat /\ Cardinality(H) <= Cardinality(G)
  BY <1>1, FS_Subset, FS_CardinalityType
<1> QED  BY <1>2

LEMMA MovedTogether ==
  ASSUME NEW F, NEW G, IsFiniteSet(F), IsFiniteSet(G), NEW k \in Nat,
         Cardinality(F) + Cardinality(G) <= k, NEW new, NEW r \in G,
         NEW E, E \subseteq F \cup {new}, NEW H, H \subseteq G \ {r}
  PROVE  Cardinality(E) + Cardinality(H) <= k
<1>1. /\ IsFiniteSet(F \cup {new}) /\ Cardinality(F) \in Nat
      /\ Cardinality(F \cup {new}) = IF new \in F THEN Cardinality(F) ELSE Cardinality(F) + 1
  BY FS_AddElement, FS_CardinalityType
<1>2. /\ IsFiniteSet(G \ {r}) /\ Cardinality(G) \in Nat
      /\ Cardinality(G \ {r}) = Cardinality(G) - 1
  BY FS_RemoveElement, FS_CardinalityType
<1>3. Cardinality(F \cup {new}) <= Cardinality(F) + 1  BY <1>1
<1>4. Cardinality(F \cup {new}) \in Nat /\ Cardinality(G \ {r}) \in Nat
  BY <1>1, <1>2, FS_CardinalityType
<1>5. Cardinality(F \cup {new}) + Cardinality(G \ {r}) <= k  BY <1>1, <1>2, <1>3, <1>4
<1> QED  BY <1>1, <1>2, <1>5, FewerTogether
=============================================================================
