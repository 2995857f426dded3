---------------------------- MODULE CountingLemmas ----------------------------
(***************************************************************************)
(* Sums over finite sets, and the messages of a queue.                     *)
(*                                                                         *)
(* SumFunctionOnSet is a recursive function, and what it computes follows  *)
(* by induction on the finite subsets, here by the existence of minimal    *)
(* counterexamples.                                                        *)
(***************************************************************************)
EXTENDS Integers, Sequences, Functions, FunctionTheorems, FiniteSetTheorems,
        WellFoundedInduction, TLAPS

Pick(s) == CHOOSE x \in s : TRUE

(* A set without its picked element.                                       *)
Rest(s) == s \ {Pick(s)}

(* g sums f over every subset of S.                                        *)
Sums(g, f, S) ==
    g = [s \in SUBSET S |-> IF s = {} THEN 0 ELSE f[Pick(s)] + g[Rest(s)]]

Total(f, S) == (CHOOSE g : Sums(g, f, S))[S]

(* The picked element is a member.                                         *)
LEMMA PickIn == ASSUME NEW s, s # {} PROVE Pick(s) \in s
BY DEF Pick

(* A set of subsets of a finite set has a minimal member.                  *)
LEMMA MinimalSubset ==
    ASSUME NEW S, IsFiniteSet(S), NEW T, T \subseteq SUBSET S, T # {}
    PROVE  \E x \in T : \A y \in T : y \subseteq x => y = x
<1>1. IsWellFoundedOn(StrictSubsetOrdering(S), SUBSET S)
  BY FS_StrictSubsetOrderingWellFounded, FS_FiniteSubsetsOfFinite
<1>2. PICK x \in T : \A y \in T : ~(<<y, x>> \in StrictSubsetOrdering(S))
  BY <1>1, WFMin
<1>3. \A y \in T : y \subseteq x => y = x
  BY <1>2 DEF StrictSubsetOrdering
<1> QED BY <1>3

(* Two functions that sum f agree on the finite sets they share.           *)
LEMMA SumsAgree ==
    ASSUME NEW f, NEW S, NEW T, NEW g, NEW h, Sums(g, f, S), Sums(h, f, T),
           NEW w, w \subseteq S, w \subseteq T, IsFiniteSet(w)
    PROVE  g[w] = h[w]
<1> DEFINE bad == {s \in SUBSET w : g[s] # h[s]}
<1>1. SUFFICES ASSUME bad # {} PROVE FALSE
  <2>1. w \in SUBSET w
    OBVIOUS
  <2> QED BY <2>1
<1>2. PICK s \in bad : \A y \in bad : y \subseteq s => y = s
  <2>1. bad \subseteq SUBSET w
    OBVIOUS
  <2> HIDE DEF bad
  <2> QED BY <1>1, <2>1, MinimalSubset
<1>3. s \subseteq S /\ s \subseteq T /\ s \subseteq w
  OBVIOUS
<1>4. /\ g[s] = IF s = {} THEN 0 ELSE f[Pick(s)] + g[Rest(s)]
      /\ h[s] = IF s = {} THEN 0 ELSE f[Pick(s)] + h[Rest(s)]
  BY <1>3 DEF Sums
<1>5. s # {} /\ Rest(s) \subseteq s /\ Rest(s) # s
  BY <1>4, PickIn DEF Rest
<1>6. g[Rest(s)] = h[Rest(s)]
  BY <1>2, <1>3, <1>5
<1> QED BY <1>4, <1>5, <1>6

(* A sum exists over every finite set.                                     *)
LEMMA SumsExist ==
    ASSUME NEW f, NEW S, IsFiniteSet(S)
    PROVE  \E g : Sums(g, f, S)
<1> DEFINE bad == {s \in SUBSET S : ~ \E g : Sums(g, f, s)}
<1>1. SUFFICES ASSUME bad # {} PROVE FALSE
  <2>1. S \in SUBSET S
    OBVIOUS
  <2> QED BY <2>1
<1>2. PICK t \in bad : \A y \in bad : y \subseteq t => y = t
  <2>1. bad \subseteq SUBSET S
    OBVIOUS
  <2> HIDE DEF bad
  <2> QED BY <1>1, <2>1, MinimalSubset
<1>3. ASSUME NEW u \in SUBSET t, u # t
      PROVE  Sums(CHOOSE g : Sums(g, f, u), f, u)
  <2>1. \E g : Sums(g, f, u)
    BY <1>2, <1>3
  <2> QED BY <2>1
<1> DEFINE V(u) == Total(f, u)
           G == [s \in SUBSET t |-> IF s = {} THEN 0 ELSE f[Pick(s)] + V(Rest(s))]
<1>4. ASSUME NEW s \in SUBSET t, s # {}
      PROVE  Rest(s) \in SUBSET t /\ Rest(s) # t /\ Rest(s) \subseteq s /\ IsFiniteSet(s)
  BY <1>4, PickIn, FS_Subset DEF Rest
<1>5. ASSUME NEW u \in SUBSET t, u # t PROVE V(u) = G[u]
  <2> DEFINE gu == CHOOSE g : Sums(g, f, u)
  <2>1. Sums(gu, f, u)
    BY <1>3, <1>5
  <2>2. V(u) = gu[u]
    BY DEF Total
  <2> HIDE DEF gu
  <2>3. gu[u] = IF u = {} THEN 0 ELSE f[Pick(u)] + gu[Rest(u)]
    BY <2>1 DEF Sums
  <2>4. CASE u = {}
    BY <2>2, <2>3, <2>4
  <2>5. CASE u # {}
    <3> DEFINE w == Rest(u)
               gw == CHOOSE g : Sums(g, f, w)
    <3>1. w \in SUBSET t /\ w # t /\ w \subseteq u /\ IsFiniteSet(w)
      <4>1. w \in SUBSET t /\ w # t /\ w \subseteq u /\ IsFiniteSet(u)
        BY <1>4, <2>5
      <4> QED BY <4>1, FS_Subset
    <3>2. Sums(gw, f, w)
      BY <1>3, <3>1
    <3>3. V(w) = gw[w]
      BY DEF Total
    <3> HIDE DEF w, gw
    <3>4. gu[w] = gw[w]
      BY <2>1, <3>1, <3>2, SumsAgree
    <3>5. G[u] = f[Pick(u)] + V(w)
      BY <2>5 DEF w
    <3> HIDE DEF V, G
    <3> QED BY <2>2, <2>3, <2>5, <3>3, <3>4, <3>5 DEF w
  <2> QED BY <2>4, <2>5
<1>6. Sums(G, f, t)
  <2>1. \A s \in SUBSET t : s # {} => V(Rest(s)) = G[Rest(s)]
    BY <1>4, <1>5
  <2>2. G = [s \in SUBSET t |-> IF s = {} THEN 0 ELSE f[Pick(s)] + G[Rest(s)]]
    <3>1. \A s \in SUBSET t : G[s] = IF s = {} THEN 0 ELSE f[Pick(s)] + V(Rest(s))
      OBVIOUS
    <3>2. G = [s \in SUBSET t |-> G[s]]
      OBVIOUS
    <3> HIDE DEF G, V
    <3> QED BY <2>1, <3>1, <3>2
  <2> HIDE DEF G
  <2> QED BY <2>2 DEF Sums
<1> QED BY <1>2, <1>6

(* The sum over a finite set, unfolded once.                               *)
LEMMA TotalUnfolds ==
    ASSUME NEW f, NEW S, IsFiniteSet(S)
    PROVE  /\ S = {} => Total(f, S) = 0
           /\ S # {} => Total(f, S) = f[Pick(S)] + Total(f, Rest(S))
<1> DEFINE g == CHOOSE h : Sums(h, f, S)
           r == CHOOSE h : Sums(h, f, Rest(S))
<1>1. Sums(g, f, S)
  BY SumsExist
<1>2. Rest(S) \subseteq S /\ IsFiniteSet(Rest(S))
  BY FS_Subset DEF Rest
<1>3. Sums(r, f, Rest(S))
  BY <1>2, SumsExist
<1>4. Total(f, S) = g[S] /\ Total(f, Rest(S)) = r[Rest(S)]
  BY DEF Total
<1> HIDE DEF g, r
<1>5. g[Rest(S)] = r[Rest(S)]
  BY <1>1, <1>2, <1>3, SumsAgree
<1>6. g[S] = IF S = {} THEN 0 ELSE f[Pick(S)] + g[Rest(S)]
  BY <1>1 DEF Sums
<1> QED BY <1>4, <1>5, <1>6

(* The library's sum is this one.                                          *)
LEMMA SumFunctionOnSetIsTotal ==
    ASSUME NEW S, NEW f
    PROVE  SumFunctionOnSet(f, S) = Total(f, S)
BY DEF SumFunctionOnSet, FoldFunctionOnSet, MapThenFoldSet, Total, Sums, Pick, Rest

(* A sum of integers is an integer.                                        *)
LEMMA TotalType ==
    ASSUME NEW S, IsFiniteSet(S), NEW f, \A x \in S : f[x] \in Int
    PROVE  Total(f, S) \in Int
<1> DEFINE bad == {s \in SUBSET S : Total(f, s) \notin Int}
<1>1. SUFFICES ASSUME bad # {} PROVE FALSE
  <2>1. S \in SUBSET S
    OBVIOUS
  <2> QED BY <2>1
<1>2. PICK s \in bad : \A y \in bad : y \subseteq s => y = s
  <2>1. bad \subseteq SUBSET S
    OBVIOUS
  <2> HIDE DEF bad
  <2> QED BY <1>1, <2>1, MinimalSubset
<1>3. IsFiniteSet(s) /\ s \subseteq S
  BY FS_Subset
<1>4. s # {}
  BY <1>2, <1>3, TotalUnfolds
<1>5. Pick(s) \in s /\ Rest(s) \subseteq s /\ Rest(s) # s
  BY <1>4, PickIn DEF Rest
<1>6. Total(f, Rest(s)) \in Int
  BY <1>2, <1>3, <1>5
<1>7. Total(f, s) = f[Pick(s)] + Total(f, Rest(s))
  BY <1>3, <1>4, TotalUnfolds
<1> QED BY <1>2, <1>3, <1>5, <1>6, <1>7

(* Any element may be taken out of a sum first.                            *)
LEMMA TotalRemove ==
    ASSUME NEW S, IsFiniteSet(S), NEW f, \A x \in S : f[x] \in Int, NEW x \in S
    PROVE  Total(f, S) = f[x] + Total(f, S \ {x})
<1> DEFINE bad == {s \in SUBSET S : \E y \in s : Total(f, s) # f[y] + Total(f, s \ {y})}
<1>1. SUFFICES ASSUME bad # {} PROVE FALSE
  <2>1. S \in SUBSET S
    OBVIOUS
  <2> QED BY <2>1
<1>2. PICK s \in bad : \A z \in bad : z \subseteq s => z = s
  <2>1. bad \subseteq SUBSET S
    OBVIOUS
  <2> HIDE DEF bad
  <2> QED BY <1>1, <2>1, MinimalSubset
<1>3. PICK y \in s : Total(f, s) # f[y] + Total(f, s \ {y})
  OBVIOUS
<1>4. PICK p : p = Pick(s)
  OBVIOUS
<1>5. p \in s /\ Total(f, s) = f[p] + Total(f, s \ {p})
  <2>1. IsFiniteSet(s)
    BY FS_Subset
  <2> QED BY <2>1, <1>3, <1>4, PickIn, TotalUnfolds DEF Rest
<1>6. p # y
  BY <1>3, <1>5
<1>7. Total(f, s \ {p}) = f[y] + Total(f, (s \ {p}) \ {y})
  <2>1. s \ {p} \in SUBSET S /\ s \ {p} \subseteq s /\ s \ {p} # s /\ y \in s \ {p}
    BY <1>3, <1>5, <1>6
  <2> QED BY <1>2, <2>1
<1>8. Total(f, s \ {y}) = f[p] + Total(f, (s \ {y}) \ {p})
  <2>1. s \ {y} \in SUBSET S /\ s \ {y} \subseteq s /\ s \ {y} # s /\ p \in s \ {y}
    BY <1>3, <1>5, <1>6
  <2> QED BY <1>2, <2>1
<1>9. (s \ {p}) \ {y} = (s \ {y}) \ {p}
  OBVIOUS
<1>10. PICK rest : rest = Total(f, (s \ {y}) \ {p})
  OBVIOUS
<1>11. rest \in Int
  <2>1. (s \ {y}) \ {p} \in SUBSET S
    OBVIOUS
  <2>2. IsFiniteSet((s \ {y}) \ {p}) /\ \A z \in (s \ {y}) \ {p} : f[z] \in Int
    BY <2>1, FS_Subset
  <2> QED BY <2>2, <1>10, TotalType
<1>12. f[p] \in Int /\ f[y] \in Int
  BY <1>3, <1>5
<1>13. PICK a \in Int, b \in Int : a = f[p] /\ b = f[y]
  BY <1>12
<1>14. Total(f, s \ {p}) = b + rest
  BY <1>7, <1>9, <1>10, <1>13
<1>15. Total(f, s \ {y}) = a + rest
  BY <1>8, <1>10, <1>13
<1>16. Total(f, s) = a + (b + rest)
  BY <1>5, <1>13, <1>14
<1>17. f[y] + Total(f, s \ {y}) = b + (a + rest)
  BY <1>13, <1>15
<1>18. a + (b + rest) = b + (a + rest)
  BY <1>11
<1> QED BY <1>3, <1>16, <1>17, <1>18

(* A sum depends on the values it sums only.                               *)
LEMMA TotalSame ==
    ASSUME NEW S, IsFiniteSet(S), NEW f, NEW g, \A x \in S : f[x] = g[x]
    PROVE  Total(f, S) = Total(g, S)
<1> DEFINE bad == {s \in SUBSET S : Total(f, s) # Total(g, s)}
<1>1. SUFFICES ASSUME bad # {} PROVE FALSE
  <2>1. S \in SUBSET S
    OBVIOUS
  <2> QED BY <2>1
<1>2. PICK s \in bad : \A y \in bad : y \subseteq s => y = s
  <2>1. bad \subseteq SUBSET S
    OBVIOUS
  <2> HIDE DEF bad
  <2> QED BY <1>1, <2>1, MinimalSubset
<1>3. IsFiniteSet(s) /\ s \subseteq S
  BY FS_Subset
<1>4. s # {}
  BY <1>2, <1>3, TotalUnfolds
<1>5. Pick(s) \in s /\ Rest(s) \subseteq s /\ Rest(s) # s
  BY <1>4, PickIn DEF Rest
<1>6. Total(f, Rest(s)) = Total(g, Rest(s))
  BY <1>2, <1>3, <1>5
<1>7. /\ Total(f, s) = f[Pick(s)] + Total(f, Rest(s))
      /\ Total(g, s) = g[Pick(s)] + Total(g, Rest(s))
  BY <1>3, <1>4, TotalUnfolds
<1> QED BY <1>2, <1>3, <1>5, <1>6, <1>7

(* What is new in a sum.                                                   *)
LEMMA TotalAdd ==
    ASSUME NEW S, IsFiniteSet(S), NEW f, NEW x, x \notin S,
           \A y \in S \cup {x} : f[y] \in Int
    PROVE  Total(f, S \cup {x}) = f[x] + Total(f, S)
<1>1. IsFiniteSet(S \cup {x}) /\ (S \cup {x}) \ {x} = S /\ x \in S \cup {x}
  BY FS_AddElement
<1>2. PICK T : T = S \cup {x}
  OBVIOUS
<1>3. Total(f, T) = f[x] + Total(f, T \ {x})
  BY <1>1, <1>2, TotalRemove
<1> QED BY <1>1, <1>2, <1>3

(* One changed value changes the sum by the difference.                    *)
LEMMA TotalChange ==
    ASSUME NEW S, IsFiniteSet(S), NEW f, NEW g, NEW x \in S,
           \A y \in S : f[y] \in Int /\ g[y] \in Int,
           \A y \in S : y # x => f[y] = g[y]
    PROVE  Total(g, S) = Total(f, S) + (g[x] - f[x])
<1>1. IsFiniteSet(S \ {x}) /\ \A y \in S \ {x} : f[y] \in Int /\ f[y] = g[y]
  BY FS_Subset
<1>2. Total(f, S \ {x}) = Total(g, S \ {x})
  BY <1>1, TotalSame
<1>3. Total(f, S \ {x}) \in Int
  BY <1>1, TotalType
<1>4. /\ Total(f, S) = f[x] + Total(f, S \ {x})
      /\ Total(g, S) = g[x] + Total(g, S \ {x})
  BY TotalRemove
<1>5. f[x] \in Int /\ g[x] \in Int
  OBVIOUS
<1> QED BY <1>2, <1>3, <1>4, <1>5

(* Zeros do not count.                                                     *)
LEMMA TotalZeros ==
    ASSUME NEW S, IsFiniteSet(S), NEW f, \A x \in S : f[x] \in Int,
           NEW T, T \subseteq S, \A x \in S \ T : f[x] = 0
    PROVE  Total(f, S) = Total(f, T)
<1> DEFINE bad == {s \in SUBSET S : Total(f, s) # Total(f, s \cap T)}
<1>1. SUFFICES ASSUME bad # {} PROVE FALSE
  <2>1. S \in SUBSET S /\ S \cap T = T
    OBVIOUS
  <2> QED BY <2>1
<1>2. PICK s \in bad : \A y \in bad : y \subseteq s => y = s
  <2>1. bad \subseteq SUBSET S
    OBVIOUS
  <2> HIDE DEF bad
  <2> QED BY <1>1, <2>1, MinimalSubset
<1>3. s # {}
  BY <1>2
<1>4. PICK p \in s : TRUE
  BY <1>3
<1>5. /\ IsFiniteSet(s) /\ \A x \in s : f[x] \in Int
      /\ IsFiniteSet(s \cap T) /\ \A x \in s \cap T : f[x] \in Int
      /\ IsFiniteSet(s \ {p}) /\ \A x \in s \ {p} : f[x] \in Int
  BY FS_Subset
<1>6. Total(f, s) = f[p] + Total(f, s \ {p})
  BY <1>4, <1>5, TotalRemove
<1>7. Total(f, s \ {p}) = Total(f, (s \ {p}) \cap T)
  BY <1>2, <1>4
<1>8. CASE p \in T
  <2>1. Total(f, s \cap T) = f[p] + Total(f, (s \cap T) \ {p})
    BY <1>4, <1>5, <1>8, TotalRemove
  <2>2. (s \cap T) \ {p} = (s \ {p}) \cap T
    OBVIOUS
  <2> QED BY <1>2, <1>6, <1>7, <2>1, <2>2
<1>9. CASE p \notin T
  <2>1. (s \ {p}) \cap T = s \cap T
    BY <1>9
  <2>2. f[p] = 0 /\ Total(f, s \ {p}) \in Int
    BY <1>4, <1>5, <1>9, TotalType
  <2> QED BY <1>2, <1>6, <1>7, <2>1, <2>2
<1> QED BY <1>8, <1>9
---------------------------------------------------------------------------
(* Queues: how the number of places that hold a message of some set        *)
(* changes when a message is sent or taken.                                *)

Where(q, S) == {i \in DOMAIN q : q[i] \in S}
Count(q, S) == Cardinality(Where(q, S))

(* The places are finitely many.                                           *)
LEMMA CountType ==
    ASSUME NEW T, NEW q \in Seq(T), NEW S
    PROVE  /\ IsFiniteSet(Where(q, S))
           /\ Count(q, S) \in Nat
           /\ Where(q, S) \subseteq 1..Len(q)
<1>1. Where(q, S) \subseteq 1..Len(q) /\ Len(q) \in Nat
  BY DEF Where
<1>2. IsFiniteSet(Where(q, S))
  <2>1. IsFiniteSet(1..Len(q))
    BY <1>1, FS_Interval
  <2> QED BY <1>1, <2>1, FS_Subset
<1> QED BY <1>1, <1>2, FS_CardinalityType DEF Count

(* The empty queue holds nothing.                                          *)
LEMMA CountEmpty == ASSUME NEW S PROVE Count(<<>>, S) = 0
<1>1. Where(<<>>, S) = {}
  BY DEF Where
<1> QED BY <1>1, FS_EmptySet DEF Count

(* A message sent counts once, if at all.                                  *)
LEMMA CountAppend ==
    ASSUME NEW T, NEW q \in Seq(T), NEW x \in T, NEW S
    PROVE  /\ Append(q, x) \in Seq(T)
           /\ Count(Append(q, x), S) = Count(q, S) + (IF x \in S THEN 1 ELSE 0)
<1>1. PICK r : r = Append(q, x)
  OBVIOUS
<1>2. /\ r \in Seq(T) /\ Len(q) \in Nat /\ DOMAIN q = 1..Len(q)
      /\ DOMAIN r = 1..(Len(q) + 1)
      /\ r[Len(q) + 1] = x /\ \A i \in 1..Len(q) : r[i] = q[i]
  BY <1>1
<1>3. Where(r, S) = IF x \in S THEN Where(q, S) \cup {Len(q) + 1} ELSE Where(q, S)
  BY <1>2 DEF Where
<1>4. Len(q) + 1 \notin Where(q, S) /\ IsFiniteSet(Where(q, S)) /\ Count(q, S) \in Nat
  BY <1>2, CountType
<1>5. Cardinality(Where(q, S) \cup {Len(q) + 1}) = Cardinality(Where(q, S)) + 1
  BY <1>4, FS_AddElement
<1> QED BY <1>1, <1>2, <1>3, <1>4, <1>5 DEF Count

(* A message taken no longer counts.                                       *)
LEMMA CountTail ==
    ASSUME NEW T, NEW q \in Seq(T), q # <<>>, NEW S
    PROVE  /\ Head(q) \in T /\ Tail(q) \in Seq(T)
           /\ Count(Tail(q), S) = Count(q, S) - (IF Head(q) \in S THEN 1 ELSE 0)
<1>1. PICK r : r = Tail(q)
  OBVIOUS
<1>2. /\ r \in Seq(T) /\ Len(q) \in Nat /\ Len(q) >= 1 /\ DOMAIN q = 1..Len(q)
      /\ DOMAIN r = 1..(Len(q) - 1)
      /\ Head(q) = q[1] /\ Head(q) \in T /\ \A i \in 1..(Len(q) - 1) : r[i] = q[i + 1]
  BY <1>1
<1>3. Count(r, S) = Cardinality(Where(q, S) \ {1})
  <2> DEFINE f == [i \in Where(r, S) |-> i + 1]
  <2>1. f \in [Where(r, S) -> Where(q, S) \ {1}]
    BY <1>2 DEF Where
  <2>2. \A i, j \in Where(r, S) : f[i] = f[j] => i = j
    BY <1>2 DEF Where
  <2>3. \A j \in Where(q, S) \ {1} : \E i \in Where(r, S) : f[i] = j
    <3> SUFFICES ASSUME NEW j \in Where(q, S) \ {1}
                 PROVE  j - 1 \in Where(r, S) /\ f[j - 1] = j
      OBVIOUS
    <3>1. j \in 2..Len(q) /\ q[j] \in S
      BY <1>2 DEF Where
    <3>2. j - 1 \in 1..(Len(q) - 1) /\ (j - 1) + 1 = j
      BY <1>2, <3>1
    <3>3. j - 1 \in Where(r, S)
      BY <1>2, <3>1, <3>2 DEF Where
    <3> QED BY <3>2, <3>3
  <2> HIDE DEF f
  <2>4. f \in Bijection(Where(r, S), Where(q, S) \ {1})
    BY <2>1, <2>2, <2>3 DEF Bijection, Injection, Surjection, IsInjective
  <2>5. ExistsBijection(Where(r, S), Where(q, S) \ {1})
    BY <2>4 DEF ExistsBijection
  <2>6. IsFiniteSet(Where(r, S))
    BY <1>2, CountType
  <2> QED BY <2>5, <2>6, FS_Bijection DEF Count
<1>4. IsFiniteSet(Where(q, S)) /\ Count(q, S) \in Nat
  BY CountType
<1>5. Head(q) \in S => 1 \in Where(q, S)
  BY <1>2 DEF Where
<1>6. Head(q) \notin S => Where(q, S) \ {1} = Where(q, S)
  BY <1>2 DEF Where
<1>7. 1 \in Where(q, S) => Cardinality(Where(q, S) \ {1}) = Cardinality(Where(q, S)) - 1
  BY <1>4, FS_RemoveElement
<1>8. Count(r, S) = Count(q, S) - (IF Head(q) \in S THEN 1 ELSE 0)
  <2>1. CASE Head(q) \in S
    BY <2>1, <1>3, <1>5, <1>7 DEF Count
  <2>2. CASE Head(q) \notin S
    <3>1. Count(r, S) = Count(q, S)
      BY <2>2, <1>3, <1>6, Zenon DEF Count
    <3> QED BY <2>2, <3>1, <1>4
  <2> QED BY <2>1, <2>2
<1> QED BY <1>1, <1>2, <1>8
=============================================================================
