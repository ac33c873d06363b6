------------------------ MODULE ExecutionLedgerProofs ------------------------
(***************************************************************************)
(* The rows that the ledger's workers store are true: what a walk back     *)
(* from a consistent snapshot gives is what the fills did, told forward.   *)
(* The quantities are summed by a fold over sets of fills, so the module   *)
(* starts with what such a sum is, without induction: a least set at which *)
(* a fact fails does not exist.                                            *)
(***************************************************************************)
EXTENDS ExecutionLedger, TLAPS, WellFoundedInduction, FiniteSetTheorems

-----------------------------------------------------------------------------
(* Sums over sets of fills *)

LEMMA LeastNat ==
  ASSUME NEW T \in SUBSET Nat, T # {}
  PROVE  \E n \in T : \A m \in T : n <= m
<1> DEFINE R == OpToRel(<, Nat)
<1>1. IsWellFoundedOn(R, Nat) BY NatLessThanWellFounded
<1>2. \A i, j \in Nat : i < j => <<i, j>> \in R BY DEF OpToRel
<1> HIDE DEF R
<1>3. \E x \in T : \A y \in T : ~(<<y, x>> \in R) BY <1>1, WFMin
<1>4. PICK n \in T : \A y \in T : ~(<<y, n>> \in R) BY <1>3
<1>5. \A m \in T : n <= m
  <2> SUFFICES ASSUME NEW m \in T, m < n PROVE FALSE OBVIOUS
  <2>1. <<m, n>> \in R BY <1>2
  <2> QED BY <2>1, <1>4
<1> QED BY <1>5

\* Of some finite sets without the empty one, one is left by taking any element away.
LEMMA LeastSubset ==
  ASSUME NEW U, IsFiniteSet(U), NEW C \in SUBSET SUBSET U, C # {}, {} \notin C
  PROVE  \E S \in C : S # {} /\ IsFiniteSet(S) /\ \A x \in S : S \ {x} \notin C
<1> DEFINE T == {n \in Nat : \E S \in C : Cardinality(S) = n}
<1>1. \A S \in C : IsFiniteSet(S) /\ Cardinality(S) \in Nat
  BY FS_Subset, FS_CardinalityType
<1>2. T # {} BY <1>1
<1>3. PICK n \in T : \A m \in T : n <= m
  <2>1. T \in SUBSET Nat OBVIOUS
  <2> HIDE DEF T
  <2> QED BY <1>2, <2>1, LeastNat
<1>4. PICK S \in C : Cardinality(S) = n OBVIOUS
<1>5. ASSUME NEW x \in S, S \ {x} \in C PROVE FALSE
  <2>1. Cardinality(S \ {x}) = Cardinality(S) - 1 BY <1>1, FS_RemoveElement
  <2>2. Cardinality(S \ {x}) \in T BY <1>1, <1>5
  <2>3. n \in Nat OBVIOUS
  <2> HIDE DEF T
  <2> QED BY <1>3, <1>4, <2>1, <2>2, <2>3
<1> QED BY <1>1, <1>4, <1>5

\* The quantity that some fills of a history add up to.
Total(fs, S) == MapThenSumSet(LAMBDA i : fs[i].delta, S)

\* The fill that the fold takes out of a set.
Chosen(s) == CHOOSE x \in s : TRUE

\* I holds the totals of the sets in D.
Totals(I, fs, D) ==
  I = [s \in D |-> IF s = {} THEN 0 ELSE fs[Chosen(s)].delta + I[s \ {Chosen(s)}]]

LEMMA TotalValue ==
  ASSUME NEW fs, NEW S
  PROVE  Total(fs, S) = (CHOOSE I : Totals(I, fs, SUBSET S))[S]
BY DEF Total, MapThenSumSet, MapThenFoldSet, Totals, Chosen

LEMMA TotalsExist ==
  ASSUME NEW fs, NEW S, IsFiniteSet(S)
  PROVE  \E I : Totals(I, fs, SUBSET S)
<1> DEFINE Level(n) == {u \in SUBSET S : Cardinality(u) <= n}
           T == {n \in Nat : ~\E I : Totals(I, fs, Level(n))}
<1>1. \A u \in SUBSET S : IsFiniteSet(u) /\ Cardinality(u) \in Nat /\ Cardinality(u) <= Cardinality(S)
  BY FS_Subset, FS_CardinalityType
<1>2. 0 \notin T
  <2> DEFINE I == [s \in Level(0) |-> 0]
             e(s) == IF s = {} THEN 0 ELSE fs[Chosen(s)].delta + I[s \ {Chosen(s)}]
  <2>1. ASSUME NEW s \in Level(0) PROVE I[s] = e(s)
    <3>1. Cardinality(s) = 0 BY <1>1
    <3>2. s = {} BY <1>1, <3>1, FS_EmptySet
    <3> QED BY <3>2
  <2> HIDE DEF e
  <2>2. I = [s \in Level(0) |-> e(s)] BY <2>1
  <2>3. Totals(I, fs, Level(0)) BY <2>2 DEF Totals, e
  <2> QED BY <2>3
<1>3. T = {}
  <2> SUFFICES ASSUME T # {} PROVE FALSE OBVIOUS
  <2>1. PICK n \in T : \A m \in T : n <= m
    <3>1. T \in SUBSET Nat OBVIOUS
    <3> HIDE DEF T
    <3> QED BY <3>1, LeastNat
  <2>2. n \in Nat /\ n # 0 BY <1>2
  <2>3. n - 1 \in Nat /\ n - 1 \notin T
    <3> HIDE DEF T
    <3> QED BY <2>1, <2>2
  <2>4. PICK J : Totals(J, fs, Level(n - 1)) BY <2>3
  <2> DEFINE I == [s \in Level(n) |-> IF s = {} THEN 0 ELSE fs[Chosen(s)].delta + J[s \ {Chosen(s)}]]
             e(s) == IF s = {} THEN 0 ELSE fs[Chosen(s)].delta + I[s \ {Chosen(s)}]
  <2>5. ASSUME NEW s \in Level(n) PROVE I[s] = e(s)
    <3>1. CASE s = {} BY <3>1
    <3>2. CASE s # {}
      <4> DEFINE u == s \ {Chosen(s)}
      <4>1. Chosen(s) \in s BY <3>2 DEF Chosen
      <4>2. Cardinality(u) = Cardinality(s) - 1 BY <1>1, <4>1, FS_RemoveElement
      <4>3. u \in Level(n - 1) /\ u \in Level(n) BY <1>1, <2>2, <4>2
      <4>4. J[u] = IF u = {} THEN 0 ELSE fs[Chosen(u)].delta + J[u \ {Chosen(u)}]
        BY <2>4, <4>3 DEF Totals
      <4>5. I[u] = IF u = {} THEN 0 ELSE fs[Chosen(u)].delta + J[u \ {Chosen(u)}]
        BY <4>3
      <4>6. I[u] = J[u] BY <4>4, <4>5
      <4>7. I[s] = fs[Chosen(s)].delta + J[u] BY <3>2
      <4>8. e(s) = fs[Chosen(s)].delta + I[u] BY <3>2
      <4> QED BY <4>6, <4>7, <4>8
    <3> QED BY <3>1, <3>2
  <2> HIDE DEF e
  <2>6. I = [s \in Level(n) |-> e(s)] BY <2>5
  <2>7. Totals(I, fs, Level(n)) BY <2>6 DEF Totals, e
  <2> QED BY <2>7
<1>4. Cardinality(S) \in Nat /\ Cardinality(S) \notin T BY <1>1, <1>3, FS_CardinalityType
<1>5. Level(Cardinality(S)) = SUBSET S BY <1>1
<1>6. \E I : Totals(I, fs, Level(Cardinality(S))) BY <1>4
<1> QED BY <1>5, <1>6

\* The totals of the subsets of a set are those that its own subsets have.
LEMMA TotalsUnique ==
  ASSUME NEW fs, NEW S, IsFiniteSet(S), NEW R \in SUBSET S
  PROVE  \A I, J : Totals(I, fs, SUBSET S) /\ Totals(J, fs, SUBSET R) => \A s \in SUBSET R : I[s] = J[s]
<1> TAKE I, J
<1> HAVE Totals(I, fs, SUBSET S) /\ Totals(J, fs, SUBSET R)
<1> DEFINE C == {s \in SUBSET R : I[s] # J[s]}
<1> SUFFICES ASSUME C # {} PROVE FALSE OBVIOUS
<1>1. \A s \in SUBSET R :
        /\ I[s] = IF s = {} THEN 0 ELSE fs[Chosen(s)].delta + I[s \ {Chosen(s)}]
        /\ J[s] = IF s = {} THEN 0 ELSE fs[Chosen(s)].delta + J[s \ {Chosen(s)}]
  BY DEF Totals
<1>2. {} \notin C BY <1>1
<1>3. PICK s \in C : s # {} /\ \A x \in s : s \ {x} \notin C
  <2>1. C \in SUBSET SUBSET R /\ IsFiniteSet(R) BY FS_Subset
  <2> HIDE DEF C
  <2> QED BY <1>2, <2>1, LeastSubset
<1>4. Chosen(s) \in s BY <1>3 DEF Chosen
<1>5. s \ {Chosen(s)} \notin C BY <1>3, <1>4
<1>6. I[s \ {Chosen(s)}] = J[s \ {Chosen(s)}] BY <1>5
<1> QED BY <1>1, <1>3, <1>6

\* A total is what the chosen fill adds to the total of the others.
LEMMA TotalStep ==
  ASSUME NEW fs, NEW S, IsFiniteSet(S)
  PROVE  /\ S = {} => Total(fs, S) = 0
         /\ S # {} => Chosen(S) \in S
                      /\ Total(fs, S) = fs[Chosen(S)].delta + Total(fs, S \ {Chosen(S)})
<1>1. PICK I : Totals(I, fs, SUBSET S) /\ Total(fs, S) = I[S]
  <2>1. \E I : Totals(I, fs, SUBSET S) BY TotalsExist
  <2> QED BY <2>1, TotalValue
<1>2. Totals(I, fs, SUBSET S) /\ Total(fs, S) = I[S] BY <1>1
<1>3. I[S] = IF S = {} THEN 0 ELSE fs[Chosen(S)].delta + I[S \ {Chosen(S)}]
  BY <1>2 DEF Totals
<1>4. ASSUME S # {} PROVE I[S \ {Chosen(S)}] = Total(fs, S \ {Chosen(S)})
  <2>1. PICK R : R = S \ {Chosen(S)} OBVIOUS
  <2>2. R \in SUBSET S /\ IsFiniteSet(R) BY <2>1, FS_Subset
  <2>3. PICK J : Totals(J, fs, SUBSET R) /\ Total(fs, R) = J[R]
    <3>1. \E J : Totals(J, fs, SUBSET R) BY <2>2, TotalsExist
    <3> QED BY <3>1, TotalValue
  <2>4. Totals(J, fs, SUBSET R) BY <2>3
  <2>5. \A s \in SUBSET R : I[s] = J[s]
    <3>1. Totals(I, fs, SUBSET S) BY <1>2
    <3>2. R \in SUBSET S BY <2>2
    <3>3. \A F, G : Totals(F, fs, SUBSET S) /\ Totals(G, fs, SUBSET R) => \A s \in SUBSET R : F[s] = G[s]
      BY <3>2, TotalsUnique
    <3> QED BY <3>1, <3>3, <2>4
  <2>6. I[R] = J[R] BY <2>5
  <2> QED BY <2>1, <2>3, <2>6
<1>5. S # {} => Chosen(S) \in S BY DEF Chosen
<1> QED BY <1>2, <1>3, <1>4, <1>5

\* Every quantity is a number.
IntDeltas(fs, S) == \A i \in S : fs[i].delta \in Int

LEMMA TotalIsInt ==
  ASSUME NEW fs, NEW S, IsFiniteSet(S), IntDeltas(fs, S) PROVE Total(fs, S) \in Int
<1> DEFINE C == {s \in SUBSET S : Total(fs, s) \notin Int}
<1> SUFFICES ASSUME C # {} PROVE FALSE OBVIOUS
<1>1. {} \notin C
  <2>1. Total(fs, {}) = 0 BY TotalStep, FS_EmptySet
  <2> QED BY <2>1
<1>2. PICK s \in C : s # {} /\ IsFiniteSet(s) /\ \A x \in s : s \ {x} \notin C
  <2>1. C \in SUBSET SUBSET S OBVIOUS
  <2> HIDE DEF C
  <2> QED BY <1>1, <2>1, LeastSubset
<1>3. Chosen(s) \in s /\ Total(fs, s) = fs[Chosen(s)].delta + Total(fs, s \ {Chosen(s)})
  BY <1>2, TotalStep
<1>4. Total(fs, s \ {Chosen(s)}) \in Int /\ fs[Chosen(s)].delta \in Int
  BY <1>2, <1>3 DEF IntDeltas
<1> QED BY <1>3, <1>4

\* Histories that agree on some fills agree on their total.
LEMMA TotalAgrees ==
  ASSUME NEW fs, NEW gs, NEW S, IsFiniteSet(S), \A i \in S : fs[i].delta = gs[i].delta
  PROVE  Total(fs, S) = Total(gs, S)
<1> DEFINE C == {s \in SUBSET S : Total(fs, s) # Total(gs, s)}
<1> SUFFICES ASSUME C # {} PROVE FALSE OBVIOUS
<1>1. {} \notin C BY TotalStep, FS_EmptySet
<1>2. PICK s \in C : s # {} /\ IsFiniteSet(s) /\ \A x \in s : s \ {x} \notin C
  <2>1. C \in SUBSET SUBSET S OBVIOUS
  <2> HIDE DEF C
  <2> QED BY <1>1, <2>1, LeastSubset
<1>3. /\ Chosen(s) \in s /\ Total(fs, s) = fs[Chosen(s)].delta + Total(fs, s \ {Chosen(s)})
      /\ Total(gs, s) = gs[Chosen(s)].delta + Total(gs, s \ {Chosen(s)})
  BY <1>2, TotalStep
<1>4. Total(fs, s \ {Chosen(s)}) = Total(gs, s \ {Chosen(s)}) BY <1>2, <1>3
<1>5. fs[Chosen(s)].delta = gs[Chosen(s)].delta BY <1>3
<1> QED BY <1>3, <1>4, <1>5

\* One more fill adds its quantity, whichever fill the fold takes first.
LEMMA TotalAdds ==
  ASSUME NEW fs, NEW S, IsFiniteSet(S), NEW x \in S, IntDeltas(fs, S)
  PROVE  Total(fs, S) = Total(fs, S \ {x}) + fs[x].delta
<1> DEFINE C == {s \in SUBSET S : \E y \in s : Total(fs, s) # Total(fs, s \ {y}) + fs[y].delta}
<1> SUFFICES ASSUME C # {} PROVE FALSE OBVIOUS
<1>1. {} \notin C OBVIOUS
<1>2. PICK s \in C : s # {} /\ IsFiniteSet(s) /\ \A y \in s : s \ {y} \notin C
  <2>1. C \in SUBSET SUBSET S OBVIOUS
  <2> HIDE DEF C
  <2> QED BY <1>1, <2>1, LeastSubset
<1>3. PICK y \in s : Total(fs, s) # Total(fs, s \ {y}) + fs[y].delta OBVIOUS
<1>4. PICK c : c = Chosen(s) OBVIOUS
<1>5. c \in s /\ Total(fs, s) = fs[c].delta + Total(fs, s \ {c}) BY <1>2, <1>4, TotalStep
<1>6. ASSUME NEW r \in SUBSET s PROVE Total(fs, r) \in Int
  <2>1. IsFiniteSet(r) BY <1>2, FS_Subset
  <2>2. IntDeltas(fs, r) BY DEF IntDeltas
  <2> QED BY <2>1, <2>2, TotalIsInt
<1>7. fs[c].delta \in Int /\ fs[y].delta \in Int BY <1>3, <1>5 DEF IntDeltas
<1>8. Total(fs, s \ {c}) \in Int /\ Total(fs, s \ {y}) \in Int /\ Total(fs, (s \ {c}) \ {y}) \in Int
  BY <1>6
<1>9. c # y BY <1>3, <1>5, <1>7, <1>8
<1>10. Total(fs, s \ {c}) = Total(fs, (s \ {c}) \ {y}) + fs[y].delta
  <2>1. s \ {c} \notin C /\ y \in s \ {c} BY <1>2, <1>3, <1>5, <1>9
  <2> QED BY <2>1
<1>11. Total(fs, s \ {y}) = Total(fs, (s \ {y}) \ {c}) + fs[c].delta
  <2>1. s \ {y} \notin C /\ c \in s \ {y} BY <1>2, <1>3, <1>5, <1>9
  <2> QED BY <2>1
<1>12. (s \ {y}) \ {c} = (s \ {c}) \ {y} OBVIOUS
<1> QED BY <1>3, <1>5, <1>7, <1>8, <1>10, <1>11, <1>12

\* The total of two sets of fills that share none.
LEMMA TotalSplits ==
  ASSUME NEW fs, NEW A, NEW B, IsFiniteSet(A \cup B), A \cap B = {}, IntDeltas(fs, A \cup B)
  PROVE  Total(fs, A \cup B) = Total(fs, A) + Total(fs, B)
<1>1. ASSUME NEW r \in SUBSET (A \cup B)
      PROVE  IsFiniteSet(r) /\ IntDeltas(fs, r) /\ Total(fs, r) \in Int
  <2>1. IsFiniteSet(r) BY FS_Subset
  <2>2. IntDeltas(fs, r) BY DEF IntDeltas
  <2> QED BY <2>1, <2>2, TotalIsInt
<1> DEFINE C == {s \in SUBSET B : Total(fs, A \cup s) # Total(fs, A) + Total(fs, s)}
<1> SUFFICES ASSUME C # {} PROVE FALSE OBVIOUS
<1>2. {} \notin C
  <2>1. Total(fs, {}) = 0 BY TotalStep, FS_EmptySet
  <2>2. A \cup {} = A /\ Total(fs, A) \in Int BY <1>1
  <2> QED BY <2>1, <2>2
<1>3. PICK s \in C : s # {} /\ IsFiniteSet(s) /\ \A y \in s : s \ {y} \notin C
  <2>1. C \in SUBSET SUBSET B /\ IsFiniteSet(B) BY <1>1
  <2> HIDE DEF C
  <2> QED BY <1>2, <2>1, LeastSubset
<1>4. PICK y : y \in s BY <1>3
<1>5. PICK r : r = s \ {y} OBVIOUS
<1>6. s \in SUBSET B /\ r \in SUBSET B /\ r \notin C BY <1>3, <1>4, <1>5
<1>7. Total(fs, A \cup r) = Total(fs, A) + Total(fs, r) BY <1>6
<1>8. Total(fs, s) = Total(fs, r) + fs[y].delta
  <2>1. IsFiniteSet(s) /\ IntDeltas(fs, s) BY <1>1, <1>6
  <2> QED BY <1>4, <1>5, <2>1, TotalAdds
<1>9. Total(fs, A \cup s) = Total(fs, A \cup r) + fs[y].delta
  <2>1. PICK w : w = A \cup s OBVIOUS
  <2>2. w \ {y} = A \cup r /\ y \in w BY <1>4, <1>5, <1>6, <2>1
  <2>3. IsFiniteSet(w) /\ IntDeltas(fs, w) BY <1>1, <1>6, <2>1
  <2> QED BY <2>1, <2>2, <2>3, TotalAdds
<1>10. Total(fs, A) \in Int /\ Total(fs, r) \in Int /\ fs[y].delta \in Int
  BY <1>1, <1>4, <1>6 DEF IntDeltas
<1>11. Total(fs, A \cup s) # Total(fs, A) + Total(fs, s) OBVIOUS
<1> QED BY <1>7, <1>8, <1>9, <1>10, <1>11

-----------------------------------------------------------------------------
(* Positions *)

IsHistory(fs) == fs \in Seq([symbol : Symbol, delta : Delta, day : Day, closed : Nat])

\* The fills of a symbol up to fill k, and the position behind them.
Upto(fs, k, s) == {i \in 1..k : fs[i].symbol = s}
Position(fs, k, s) == Total(fs, Upto(fs, k, s))

LEMMA PositionIs ==
  ASSUME NEW k, NEW s \in Symbol
  PROVE  PositionAfter(k)[s] = Position(fills, k, s) /\ PositionAfter(k)'[s] = Position(fills', k, s)
<1>1. PositionAfter(k)[s] = Position(fills, k, s)
  BY DEF PositionAfter, Position, Upto, Total, MapThenSumSet, MapThenFoldSet
<1>2. PositionAfter(k)'[s] = Position(fills', k, s)
  BY DEF PositionAfter, Position, Upto, Total, MapThenSumSet, MapThenFoldSet
<1> QED BY <1>1, <1>2

LEMMA FillsOfHistory ==
  ASSUME NEW fs, IsHistory(fs)
  PROVE  /\ Len(fs) \in Nat /\ DOMAIN fs = 1..Len(fs)
         /\ \A i \in 1..Len(fs) : /\ fs[i].symbol \in Symbol /\ fs[i].delta \in Int /\ fs[i].delta # 0
                                  /\ fs[i].day \in Int /\ fs[i].closed \in Nat
<1>1. Len(fs) \in Nat /\ DOMAIN fs = 1..Len(fs) BY DEF IsHistory
<1>2. \A i \in 1..Len(fs) : fs[i] \in [symbol : Symbol, delta : Delta, day : Day, closed : Nat]
  <2>1. PICK R : R = [symbol : Symbol, delta : Delta, day : Day, closed : Nat] OBVIOUS
  <2>2. fs \in Seq(R) BY <2>1 DEF IsHistory
  <2>3. \A i \in 1..Len(fs) : fs[i] \in R BY <2>2
  <2> QED BY <2>1, <2>3
<1>3. Delta \subseteq Int \ {0} /\ Day \subseteq Int BY LedgerAssumption DEF Day
<1> QED BY <1>1, <1>2, <1>3

LEMMA SomeFills ==
  ASSUME NEW fs, IsHistory(fs), NEW n \in Nat, NEW S \in SUBSET (1..n)
  PROVE  IsFiniteSet(S) /\ (n <= Len(fs) => IntDeltas(fs, S) /\ Total(fs, S) \in Int)
<1>1. IsFiniteSet(1..n)
  <2>1. 1 \in Int /\ n \in Int OBVIOUS
  <2> QED BY <2>1, FS_Interval
<1>2. IsFiniteSet(S) BY <1>1, FS_Subset
<1>3. ASSUME n <= Len(fs) PROVE IntDeltas(fs, S)
  <2>1. Len(fs) \in Nat /\ \A i \in 1..Len(fs) : fs[i].delta \in Int BY FillsOfHistory
  <2>2. \A i \in S : i \in 1..Len(fs) BY <1>3, <2>1
  <2> QED BY <2>1, <2>2 DEF IntDeltas
<1> QED BY <1>2, <1>3, TotalIsInt

\* A fill moves the position of its symbol by its quantity.
LEMMA PositionMoves ==
  ASSUME NEW fs, IsHistory(fs), NEW i \in 1..Len(fs), NEW s, s = fs[i].symbol
  PROVE  /\ Position(fs, i - 1, s) \in Int
         /\ Position(fs, i, s) = Position(fs, i - 1, s) + fs[i].delta
<1>1. Len(fs) \in Nat /\ i \in Nat /\ i - 1 \in Nat /\ i <= Len(fs) /\ i - 1 <= Len(fs) BY FillsOfHistory
<1>2. Upto(fs, i - 1, s) \in SUBSET (1..(i - 1)) /\ Upto(fs, i, s) \in SUBSET (1..i) BY DEF Upto
<1>3. Position(fs, i - 1, s) \in Int BY <1>1, <1>2, SomeFills DEF Position
<1>4. Upto(fs, i, s) \ {i} = Upto(fs, i - 1, s) /\ i \in Upto(fs, i, s) BY <1>1 DEF Upto
<1>5. IsFiniteSet(Upto(fs, i, s)) /\ IntDeltas(fs, Upto(fs, i, s)) BY <1>1, <1>2, SomeFills
<1>6. Total(fs, Upto(fs, i, s)) = Total(fs, Upto(fs, i, s) \ {i}) + fs[i].delta
  BY <1>4, <1>5, TotalAdds
<1> QED BY <1>3, <1>4, <1>6 DEF Position

\* Later fills do not change what the first ones come to.
LEMMA PositionStable ==
  ASSUME NEW fs, NEW gs, IsHistory(fs), NEW k \in Nat, \A i \in 1..k : gs[i] = fs[i]
  PROVE  \A s : Position(gs, k, s) = Position(fs, k, s)
<1> TAKE s
<1>1. Upto(gs, k, s) = Upto(fs, k, s) BY DEF Upto
<1>2. IsFiniteSet(Upto(fs, k, s))
  <2>1. Upto(fs, k, s) \in SUBSET (1..k) BY DEF Upto
  <2> QED BY <2>1, SomeFills
<1>3. \A i \in Upto(fs, k, s) : gs[i].delta = fs[i].delta BY DEF Upto
<1>4. Total(gs, Upto(fs, k, s)) = Total(fs, Upto(fs, k, s)) BY <1>2, <1>3, TotalAgrees
<1> QED BY <1>1, <1>4 DEF Position

\* Of the fills up to n, those after the k-th are what the position moved by since.
LEMMA PositionSince ==
  ASSUME NEW fs, IsHistory(fs), NEW k \in Nat, NEW n \in Nat, k <= n, n <= Len(fs), NEW s
  PROVE  /\ Position(fs, k, s) \in Int
         /\ Total(fs, {j \in 1..n : j > k /\ fs[j].symbol = s}) \in Int
         /\ Position(fs, n, s) = Position(fs, k, s) + Total(fs, {j \in 1..n : j > k /\ fs[j].symbol = s})
<1>1. PICK A : A = Upto(fs, k, s) OBVIOUS
<1>2. PICK B : B = {j \in 1..n : j > k /\ fs[j].symbol = s} OBVIOUS
<1>3. A \in SUBSET (1..n) /\ B \in SUBSET (1..n) BY <1>1, <1>2 DEF Upto
<1>4. A \cup B \in SUBSET (1..n) BY <1>3
<1>5. IsFiniteSet(A \cup B) /\ IntDeltas(fs, A \cup B) BY <1>4, SomeFills
<1>6. Total(fs, A) \in Int /\ Total(fs, B) \in Int BY <1>3, SomeFills
<1>7. A \cap B = {} BY <1>1, <1>2 DEF Upto
<1>8. A \cup B = Upto(fs, n, s) BY <1>1, <1>2 DEF Upto
<1>9. Total(fs, A \cup B) = Total(fs, A) + Total(fs, B) BY <1>5, <1>7, TotalSplits
<1> QED BY <1>1, <1>2, <1>6, <1>8, <1>9 DEF Position

-----------------------------------------------------------------------------
(* The walk back, and the row of a fill *)

\* Days do not go back; the fills of some days among the first n, of a symbol,
\* and of the symbol of fill i after it.
InOrder(fs) == \A i, j \in 1..Len(fs) : i <= j => fs[i].day <= fs[j].day
OfDays(fs, days, n) == {i \in 1..n : fs[i].day \in days}
OfSymbol(fs, W, s) == {j \in W : fs[j].symbol = s}
SameLater(fs, W, i) == {j \in W : j > i /\ fs[j].symbol = fs[i].symbol}

\* Back from the position behind all fills over those of the last day.
LEMMA WalkToday ==
  ASSUME NEW fs, IsHistory(fs), InOrder(fs), NEW d \in Int, \A i \in 1..Len(fs) : fs[i].day <= d,
         NEW W, W = OfDays(fs, {d}, Len(fs)), NEW i \in W
  PROVE  Position(fs, Len(fs), fs[i].symbol) - Total(fs, SameLater(fs, W, i))
           = Position(fs, i, fs[i].symbol)
<1>1. PICK n \in Nat : n = Len(fs) BY FillsOfHistory
<1>2. i \in 1..n /\ fs[i].day = d BY <1>1 DEF OfDays
<1>3. \A j \in 1..n : j > i => fs[j].day = d
  <2> SUFFICES ASSUME NEW j \in 1..n, j > i PROVE fs[j].day = d OBVIOUS
  <2>1. d <= fs[j].day /\ fs[j].day <= d BY <1>1, <1>2 DEF InOrder
  <2>2. fs[j].day \in Int BY <1>1, FillsOfHistory
  <2> QED BY <2>1, <2>2
<1>4. SameLater(fs, W, i) = {j \in 1..n : j > i /\ fs[j].symbol = fs[i].symbol}
  BY <1>1, <1>3 DEF SameLater, OfDays
<1>5. i \in Nat /\ i <= n BY <1>2
<1>6. PICK s : s = fs[i].symbol OBVIOUS
<1>7. /\ Position(fs, i, s) \in Int /\ Total(fs, SameLater(fs, W, i)) \in Int
      /\ Position(fs, n, s) = Position(fs, i, s) + Total(fs, SameLater(fs, W, i))
  <2>1. PICK S : S = SameLater(fs, W, i) /\ S = {j \in 1..n : j > i /\ fs[j].symbol = s} BY <1>4, <1>6
  <2>2. n <= Len(fs) BY <1>1
  <2>3. /\ Position(fs, i, s) \in Int /\ Total(fs, {j \in 1..n : j > i /\ fs[j].symbol = s}) \in Int
        /\ Position(fs, n, s) = Position(fs, i, s) + Total(fs, {j \in 1..n : j > i /\ fs[j].symbol = s})
    BY <1>5, <2>2, PositionSince
  <2> QED BY <2>1, <2>3
<1> QED BY <1>1, <1>6, <1>7

\* Back from the opening of the last day over the fills of the day before it.
LEMMA WalkYesterday ==
  ASSUME NEW fs, IsHistory(fs), InOrder(fs), NEW d \in Int, \A i \in 1..Len(fs) : fs[i].day <= d,
         NEW W, W = OfDays(fs, {d - 1}, Len(fs)), NEW i \in W
  PROVE  (Position(fs, Len(fs), fs[i].symbol)
            - Total(fs, OfSymbol(fs, OfDays(fs, {d}, Len(fs)), fs[i].symbol)))
           - Total(fs, SameLater(fs, W, i))
           = Position(fs, i, fs[i].symbol)
<1>1. PICK n \in Nat : n = Len(fs) BY FillsOfHistory
<1>2. i \in 1..n /\ fs[i].day = d - 1 BY <1>1 DEF OfDays
<1>3. \A j \in 1..n : /\ fs[j].day \in Int /\ fs[j].day <= d
                      /\ j > i => d - 1 <= fs[j].day
                      /\ j <= i => fs[j].day <= d - 1
  <2> SUFFICES ASSUME NEW j \in 1..n
               PROVE  /\ fs[j].day \in Int /\ fs[j].day <= d
                      /\ j > i => d - 1 <= fs[j].day
                      /\ j <= i => fs[j].day <= d - 1
    OBVIOUS
  <2>1. fs[j].day \in Int /\ fs[j].day <= d BY <1>1, FillsOfHistory
  <2>2. i \in 1..Len(fs) /\ j \in 1..Len(fs) /\ i \in Int /\ j \in Int BY <1>1, <1>2
  <2>3. (i <= j => fs[i].day <= fs[j].day) /\ (j <= i => fs[j].day <= fs[i].day) BY <2>2 DEF InOrder
  <2> QED BY <1>2, <2>1, <2>2, <2>3
<1>4. PICK s : s = fs[i].symbol OBVIOUS
<1>5. PICK A : A = OfSymbol(fs, OfDays(fs, {d}, n), s) OBVIOUS
<1>6. PICK B : B = SameLater(fs, W, i) OBVIOUS
<1>7. A \cup B = {j \in 1..n : j > i /\ fs[j].symbol = s}
  <2>1. \A j \in 1..n : (fs[j].day = d => j > i) /\ (j > i => fs[j].day \in {d, d - 1})
    <3> SUFFICES ASSUME NEW j \in 1..n
                 PROVE  (fs[j].day = d => j > i) /\ (j > i => fs[j].day \in {d, d - 1})
      OBVIOUS
    <3>1. j \in Int /\ i \in Int BY <1>2
    <3> QED BY <1>2, <1>3, <3>1
  <2>2. \A j : j \in A <=> j \in 1..n /\ fs[j].day = d /\ fs[j].symbol = s BY <1>5 DEF OfDays, OfSymbol
  <2>3. \A j : j \in B <=> j \in 1..n /\ fs[j].day = d - 1 /\ j > i /\ fs[j].symbol = s
    BY <1>1, <1>4, <1>6 DEF OfDays, SameLater
  <2> QED BY <2>1, <2>2, <2>3
<1>8. A \cap B = {} BY <1>1, <1>4, <1>5, <1>6 DEF OfDays, SameLater, OfSymbol
<1>9. A \in SUBSET (1..n) /\ B \in SUBSET (1..n) /\ A \cup B \in SUBSET (1..n)
  <2>1. A \in SUBSET (1..n) BY <1>5 DEF OfDays, OfSymbol
  <2>2. B \in SUBSET (1..n) BY <1>1, <1>6 DEF OfDays, SameLater
  <2> QED BY <2>1, <2>2
<1>10. IsFiniteSet(A \cup B) /\ IntDeltas(fs, A \cup B)
  <2>1. PICK R : R = A \cup B OBVIOUS
  <2>2. R \in SUBSET (1..n) /\ n <= Len(fs) BY <1>1, <1>9, <2>1
  <2>3. IsFiniteSet(R) /\ IntDeltas(fs, R) BY <2>2, SomeFills
  <2> QED BY <2>1, <2>3
<1>11. Total(fs, A \cup B) = Total(fs, A) + Total(fs, B) BY <1>8, <1>10, TotalSplits
<1>12. Total(fs, A) \in Int /\ Total(fs, B) \in Int BY <1>1, <1>9, SomeFills
<1>13. i \in Nat /\ i <= n BY <1>2
<1>14. Position(fs, i, s) \in Int /\ Position(fs, n, s) = Position(fs, i, s) + Total(fs, A \cup B)
  <2>1. n <= Len(fs) BY <1>1
  <2>2. Position(fs, n, s) = Position(fs, i, s) + Total(fs, {j \in 1..n : j > i /\ fs[j].symbol = s})
    BY <1>13, <2>1, PositionSince
  <2>3. Position(fs, i, s) \in Int BY <1>13, <2>1, PositionSince
  <2> QED BY <1>7, <2>2, <2>3
<1>15. Position(fs, n, s) - Total(fs, A) - Total(fs, B) = Position(fs, i, s)
  BY <1>11, <1>12, <1>14
<1> QED BY <1>1, <1>4, <1>5, <1>6, <1>15

LEMMA MinMaxOfTwo ==
  ASSUME NEW a \in Int, NEW b \in Int
  PROVE  /\ Min({a, b}) = IF a <= b THEN a ELSE b
         /\ Max({a, b}) = IF a <= b THEN b ELSE a
<1>1. \A x \in {a, b} : (\A y \in {a, b} : x <= y) <=> x = IF a <= b THEN a ELSE b OBVIOUS
<1>2. \A x \in {a, b} : (\A y \in {a, b} : x >= y) <=> x = IF a <= b THEN b ELSE a OBVIOUS
<1>3. Min({a, b}) = IF a <= b THEN a ELSE b BY <1>1 DEF Min
<1>4. Max({a, b}) = IF a <= b THEN b ELSE a BY <1>2 DEF Max
<1> QED BY <1>3, <1>4

\* What a fill of this quantity closes of the position before it.
Closes(before, delta) == IF Opposed(before, delta) THEN Min({Abs(before), Abs(delta)}) ELSE 0

LEMMA ClosesIs ==
  ASSUME NEW b \in Int, NEW x \in Int, x # 0
  PROVE  /\ Abs(b) \in Nat /\ Abs(x) \in Nat
         /\ Closes(b, x) \in Nat /\ Closes(b, x) <= Abs(x)
         /\ Closes(b, x) = IF Abs(b + x) < Abs(b) /\ ~Opposed(b, b + x) THEN Abs(b) - Abs(b + x)
                           ELSE IF Opposed(b, b + x) THEN Abs(b) ELSE 0
<1>1. Abs(b) \in Nat /\ Abs(x) \in Nat BY DEF Abs
<1>2. Min({Abs(b), Abs(x)}) = IF Abs(b) <= Abs(x) THEN Abs(b) ELSE Abs(x) BY <1>1, MinMaxOfTwo
<1>3. Closes(b, x) = IF Opposed(b, x) THEN IF Abs(b) <= Abs(x) THEN Abs(b) ELSE Abs(x) ELSE 0
  BY <1>2 DEF Closes
<1> QED BY <1>1, <1>3 DEF Abs, Opposed

\* From the position before a fill and Bybit's closedSize, its row is the true one.
LEMMA RowIsTrue ==
  ASSUME IsHistory(fills), NEW i \in 1..Len(fills), NEW executions, NEW anchor,
         WalkedBack(i, executions, anchor) = PositionAfter(i)[fills[i].symbol],
         fills[i].closed = Closes(PositionAfter(i - 1)[fills[i].symbol], fills[i].delta)
  PROVE  Reconciled(i, executions, anchor) = TrueRow(i)
<1>1. PICK b, x, c, a : /\ b = PositionAfter(i - 1)[fills[i].symbol] /\ x = fills[i].delta
                        /\ c = fills[i].closed /\ a = PositionAfter(i)[fills[i].symbol]
  OBVIOUS
<1>2. b \in Int /\ x \in Int /\ x # 0 /\ a = b + x /\ a - x = b
  <2>1. fills[i].symbol \in Symbol /\ fills[i].delta \in Int /\ fills[i].delta # 0 BY FillsOfHistory
  <2>2. b = Position(fills, i - 1, fills[i].symbol) /\ a = Position(fills, i, fills[i].symbol)
    BY <1>1, <2>1, PositionIs
  <2>3. b \in Int /\ a = b + x BY <1>1, <2>2, PositionMoves
  <2> QED BY <1>1, <2>1, <2>3
<1>3. c = Closes(b, x) BY <1>1
<1>4. /\ Abs(b) \in Nat /\ Abs(x) \in Nat /\ c \in Nat /\ c <= Abs(x)
      /\ c = IF Abs(a) < Abs(b) /\ ~Opposed(b, a) THEN Abs(b) - Abs(a)
             ELSE IF Opposed(b, a) THEN Abs(b) ELSE 0
  BY <1>2, <1>3, ClosesIs
<1>5. Max({Closes(b, x), Min({Abs(x), c})}) = c
  <2>1. PICK w \in Int : w = Abs(x) /\ c \in Int /\ c <= w BY <1>4
  <2>2. Min({w, c}) = c BY <2>1, MinMaxOfTwo
  <2>3. Max({c, c}) = c BY <2>1, MinMaxOfTwo
  <2> QED BY <1>3, <2>1, <2>2, <2>3
<1>6. Max({0, Abs(x) - c}) = Abs(x) - c
  <2>1. Abs(x) - c \in Int /\ 0 \in Int /\ 0 <= Abs(x) - c BY <1>4
  <2> QED BY <2>1, MinMaxOfTwo
<1> DEFINE act == CASE c > 0 /\ Abs(x) - c > 0 -> "REVERSAL"
                    [] c > 0 /\ Abs(x) - c = 0 /\ a = 0 -> "FULL_EXIT"
                    [] c > 0 /\ Abs(x) - c = 0 /\ a # 0 -> "PARTIAL_EXIT"
                    [] c = 0 /\ b = 0 -> "ENTRY"
                    [] OTHER -> "ADD"
           told == CASE b = 0 -> "ENTRY"
                     [] b # 0 /\ a = 0 -> "FULL_EXIT"
                     [] Opposed(b, a) -> "REVERSAL"
                     [] b # 0 /\ a # 0 /\ ~Opposed(b, a) ->
                           IF Abs(a) > Abs(b) THEN "ADD" ELSE "PARTIAL_EXIT"
<1>7. Reconciled(i, executions, anchor)
        = [positionBefore |-> b, positionAfter |-> a, closedSize |-> c, entrySize |-> Abs(x) - c, action |-> act]
  BY <1>1, <1>2, <1>3, <1>5, <1>6 DEF Reconciled, Closes
<1>8. TrueRow(i)
        = [positionBefore |-> b, positionAfter |-> a, closedSize |-> c, entrySize |-> Abs(x) - c, action |-> told]
  BY <1>1, <1>4 DEF TrueRow
<1>9. act = told
  <2>1. CASE b = 0
    <3>1. Abs(b) = 0 /\ ~Opposed(b, a) BY <1>2, <2>1 DEF Opposed, Abs
    <3>2. Abs(a) \in Nat BY <1>2 DEF Abs
    <3>3. ~(Abs(a) < Abs(b)) BY <3>1, <3>2
    <3>4. c = 0 BY <1>4, <3>1, <3>3
    <3> QED BY <2>1, <3>1, <3>4
  <2>2. CASE b # 0 /\ a = 0
    <3>1. c = Abs(x) /\ c > 0 BY <1>2, <1>4, <2>2 DEF Opposed, Abs
    <3> QED BY <1>4, <2>2, <3>1 DEF Opposed
  <2>3. CASE Opposed(b, a)
    <3>1. c > 0 /\ Abs(x) - c > 0 /\ b # 0 /\ a # 0 BY <1>2, <1>4, <2>3 DEF Opposed, Abs
    <3> QED BY <2>3, <3>1
  <2>4. CASE b # 0 /\ a # 0 /\ ~Opposed(b, a) /\ Abs(a) > Abs(b)
    <3>1. c = 0 BY <1>2, <1>4, <2>4 DEF Opposed, Abs
    <3> QED BY <2>4, <3>1
  <2>5. CASE b # 0 /\ a # 0 /\ ~Opposed(b, a) /\ ~(Abs(a) > Abs(b))
    <3>1. c > 0 /\ Abs(x) - c = 0 BY <1>2, <1>4, <2>5 DEF Opposed, Abs
    <3> QED BY <2>5, <3>1
  <2> QED BY <2>1, <2>2, <2>3, <2>4, <2>5
<1> QED BY <1>7, <1>8, <1>9

-----------------------------------------------------------------------------
(* The rows are true *)

\* Only workers run; a backfill reads its positions too late to be right.
Alone == deployment.threads \cap Backfiller = {}

\* closedSize is what each fill took from an opposed position.
ClosedSizesTrue(fs) ==
  \A i \in 1..Len(fs) : fs[i].closed = Closes(Position(fs, i - 1, fs[i].symbol), fs[i].delta)

\* The exchange executes in order of days, none of them in the future.
FillsInv ==
  /\ day \in Day /\ IsHistory(fills) /\ InOrder(fills) /\ ClosedSizesTrue(fills)
  /\ Len(fills) <= MaxFills
  /\ \A i \in 1..Len(fills) : fills[i].day <= day

\* What a thread of this record took for today and read, of n fills.
IsPass(m, n) ==
  /\ DOMAIN m = DOMAIN Idle
  /\ m.pc \in {"idle", "before", "executions", "after", "persist", "rows", "put"}
  /\ m.pc \in {"before", "executions", "after", "persist"} =>
       m.date \in Day /\ m.targets \in {{m.date}, {m.date - 1}}
  /\ m.pc \in {"executions", "after"} => m.read \in 0..n
  /\ m.pc = "after" => m.cutoff \in m.read..n
  /\ m.pc = "persist" => m.cutoff \in 0..n

\* Its walk back from the anchor gives the position after each fill of the window.
IsAnchored(m, fs) ==
  LET W == OfDays(fs, m.targets, m.cutoff) IN
     \A i \in W :
        m.anchor[fs[i].symbol] - Total(fs, SameLater(fs, W, i)) = Position(fs, i, fs[i].symbol)

ThreadsInv ==
  /\ DOMAIN thread = Thread
  /\ \A t \in Thread : /\ IsPass(thread[t], Len(fills))
                       /\ t \in Backfiller => thread[t].pc = "idle"
                       /\ ~misled /\ thread[t].pc = "persist" => IsAnchored(thread[t], fills)

RowsInv ==
  /\ DOMAIN rows = Fill
  /\ \A i \in Fill : rows[i] # NoRow => i <= Len(fills)
  /\ ~misled => \A i \in DOMAIN fills : rows[i] # NoRow => rows[i] = TrueRow(i)

LedgerInv == FillsInv /\ (Alone => ThreadsInv /\ RowsInv)

LEMMA HistoryFacts ==
  ASSUME FillsInv
  PROVE  /\ Len(fills) \in Nat /\ DOMAIN fills = 1..Len(fills) /\ IsHistory(fills)
         /\ day \in Int /\ MaxFills \in Nat /\ Len(fills) <= MaxFills
         /\ \A i \in 1..Len(fills) : i \in Fill
<1>1. IsHistory(fills) /\ day \in Day /\ Len(fills) <= MaxFills BY DEF FillsInv
<1>2. Len(fills) \in Nat /\ DOMAIN fills = 1..Len(fills) BY <1>1, FillsOfHistory
<1>3. day \in Int BY <1>1 DEF Day
<1>4. MaxFills \in Nat BY LedgerAssumption
<1>5. \A i \in 1..Len(fills) : i \in Fill BY <1>1, <1>2, <1>4 DEF Fill
<1> QED BY <1>1, <1>2, <1>3, <1>4, <1>5

LEMMA LedgerInit == Init => LedgerInv
<1> SUFFICES ASSUME Init PROVE LedgerInv OBVIOUS
<1>1. fills = <<>> /\ Len(fills) = 0 /\ DOMAIN fills = {} BY DEF Init
<1>2. IsHistory(fills) BY <1>1 DEF IsHistory
<1>3. 1..Len(fills) = {} BY <1>1
<1>4. InOrder(fills) /\ ClosedSizesTrue(fills) BY <1>3 DEF InOrder, ClosedSizesTrue
<1>5. day \in Day /\ Len(fills) <= MaxFills BY <1>1, LedgerAssumption DEF Init, Day
<1>6. FillsInv BY <1>2, <1>3, <1>4, <1>5 DEF FillsInv
<1>7. ThreadsInv
  <2>1. DOMAIN thread = Thread /\ \A t \in Thread : thread[t] = Idle BY DEF Init
  <2>2. Idle.pc = "idle" BY DEF Idle
  <2>3. IsPass(Idle, Len(fills)) BY <2>2 DEF IsPass
  <2> QED BY <2>1, <2>2, <2>3 DEF ThreadsInv
<1>8. RowsInv BY <1>1 DEF Init, RowsInv
<1> QED BY <1>6, <1>7, <1>8 DEF LedgerInv

\* A step of one thread that leaves the history alone.
LEMMA ThreadMoves ==
  ASSUME ThreadsInv, NEW t \in Thread, NEW m, thread' = [thread EXCEPT ![t] = m], fills' = fills,
         IsPass(m, Len(fills)), t \in Backfiller => m.pc = "idle",
         ~misled' => ~misled, ~misled' /\ m.pc = "persist" => IsAnchored(m, fills)
  PROVE  ThreadsInv'
<1>1. DOMAIN thread' = Thread BY DEF ThreadsInv
<1>2. ASSUME NEW u \in Thread
      PROVE  /\ IsPass(thread'[u], Len(fills))
             /\ u \in Backfiller => thread'[u].pc = "idle"
             /\ ~misled' /\ thread'[u].pc = "persist" => IsAnchored(thread'[u], fills)
  <2>1. CASE u = t
    <3>1. thread'[u] = m BY <2>1 DEF ThreadsInv
    <3> QED BY <2>1, <3>1
  <2>2. CASE u # t
    <3>1. thread'[u] = thread[u] BY <2>2 DEF ThreadsInv
    <3> QED BY <3>1 DEF ThreadsInv
  <2> QED BY <2>1, <2>2
<1> QED BY <1>1, <1>2 DEF ThreadsInv

\* More fills do not change what the earlier ones did.
LEMMA TrueRowStays ==
  ASSUME FillsInv, \A j \in 1..Len(fills) : fills'[j] = fills[j], NEW i \in 1..Len(fills)
  PROVE  TrueRow(i)' = TrueRow(i)
<1>1. Len(fills) \in Nat /\ i \in Nat /\ i - 1 \in Nat /\ IsHistory(fills) BY HistoryFacts
<1>2. fills'[i] = fills[i] /\ fills[i].symbol \in Symbol BY <1>1, FillsOfHistory
<1>3. ASSUME NEW k \in {i - 1, i} PROVE PositionAfter(k)'[fills[i].symbol] = PositionAfter(k)[fills[i].symbol]
  <2>1. k \in Nat /\ \A j \in 1..k : fills'[j] = fills[j] BY <1>1
  <2>2. Position(fills', k, fills[i].symbol) = Position(fills, k, fills[i].symbol)
    BY <1>1, <2>1, PositionStable
  <2> QED BY <1>2, <2>2, PositionIs
<1>4. PICK s : s = fills[i].symbol OBVIOUS
<1>5. /\ PositionAfter(i)'[s] = PositionAfter(i)[s] /\ PositionAfter(i - 1)'[s] = PositionAfter(i - 1)[s]
      /\ fills'[i].symbol = s /\ fills[i].symbol = s
  BY <1>2, <1>3, <1>4
<1> QED BY <1>2, <1>5 DEF TrueRow

LEMMA RowsStay ==
  ASSUME FillsInv, RowsInv, rows' = rows, fills' = fills, ~misled' => ~misled PROVE RowsInv'
<1>1. \A i \in 1..Len(fills) : TrueRow(i)' = TrueRow(i) BY TrueRowStays
<1>2. DOMAIN fills = 1..Len(fills) BY HistoryFacts
<1> QED BY <1>1, <1>2 DEF RowsInv

LEMMA FillsStay ==
  ASSUME FillsInv, fills' = fills, day' \in Day, day <= day' PROVE FillsInv'
<1>1. \A i \in 1..Len(fills) : fills[i].day <= day'
  <2> SUFFICES ASSUME NEW i \in 1..Len(fills) PROVE fills[i].day <= day' OBVIOUS
  <2>1. fills[i].day \in Int BY FillsOfHistory DEF FillsInv
  <2>2. fills[i].day <= day /\ day \in Int /\ day' \in Int BY HistoryFacts DEF FillsInv, Day
  <2> QED BY <2>1, <2>2
<1> QED BY <1>1 DEF FillsInv

\* A fill becomes the last of the history.
LEMMA HistoryGrows ==
  ASSUME FillsInv, NEW s \in Symbol, NEW delta \in Delta, Executes(s, delta)
  PROVE  /\ Len(fills') = Len(fills) + 1
         /\ \A i \in 1..Len(fills) : fills'[i] = fills[i]
         /\ fills'[Len(fills) + 1].day = day
         /\ FillsInv'
<1>1. Len(fills) \in Nat /\ IsHistory(fills) /\ day \in Int /\ day \in Day BY HistoryFacts DEF FillsInv
<1>2. PICK b \in Int : b = PositionsNow[s] /\ b = Position(fills, Len(fills), s)
  <2>1. Upto(fills, Len(fills), s) \in SUBSET (1..Len(fills)) BY DEF Upto
  <2>2. Position(fills, Len(fills), s) \in Int BY <1>1, <2>1, SomeFills DEF Position
  <2> QED BY <2>2, PositionIs DEF PositionsNow
<1>3. delta \in Int /\ delta # 0 BY LedgerAssumption
<1>4. PICK e : e = [symbol |-> s, delta |-> delta, day |-> day, closed |-> Closes(b, delta)] OBVIOUS
<1>5. e \in [symbol : Symbol, delta : Delta, day : Day, closed : Nat] BY <1>1, <1>3, <1>4, ClosesIs
<1>6. fills' = Append(fills, e) BY <1>2, <1>4 DEF Executes, Closes
<1>7. /\ Len(fills') = Len(fills) + 1 /\ fills'[Len(fills) + 1] = e
      /\ \A i \in 1..Len(fills) : fills'[i] = fills[i]
      /\ IsHistory(fills')
  <2>1. PICK R : R = [symbol : Symbol, delta : Delta, day : Day, closed : Nat] OBVIOUS
  <2>2. fills \in Seq(R) /\ e \in R BY <1>1, <1>5, <2>1 DEF IsHistory
  <2>3. fills' \in Seq(R) BY <1>6, <2>2
  <2> QED BY <1>6, <2>1, <2>2, <2>3 DEF IsHistory
<1>8. \A i \in 1..Len(fills') : i = Len(fills) + 1 \/ i \in 1..Len(fills) BY <1>1, <1>7
<1>9. day' = day /\ Len(fills) < MaxFills BY DEF Executes
<1>10. \A i \in 1..Len(fills') : fills'[i].day \in Int /\ fills'[i].day <= day
  <2>1. \A i \in 1..Len(fills) : fills[i].day \in Int /\ fills[i].day <= day
    BY <1>1, FillsOfHistory DEF FillsInv
  <2> QED BY <1>1, <1>4, <1>7, <1>8, <2>1
<1>11. InOrder(fills')
  <2> SUFFICES ASSUME NEW i \in 1..Len(fills'), NEW j \in 1..Len(fills'), i <= j
               PROVE  fills'[i].day <= fills'[j].day
    BY DEF InOrder
  <2>1. CASE j = Len(fills) + 1 BY <1>4, <1>7, <1>10, <2>1
  <2>2. CASE j \in 1..Len(fills)
    <3>1. i \in 1..Len(fills) BY <1>1, <1>8, <2>2
    <3> QED BY <1>7, <2>2, <3>1 DEF FillsInv, InOrder
  <2> QED BY <1>8, <2>1, <2>2
<1>12. ClosedSizesTrue(fills')
  <2> SUFFICES ASSUME NEW i \in 1..Len(fills')
               PROVE  fills'[i].closed = Closes(Position(fills', i - 1, fills'[i].symbol), fills'[i].delta)
    BY DEF ClosedSizesTrue
  <2>1. i - 1 \in Nat /\ \A j \in 1..(i - 1) : fills'[j] = fills[j] BY <1>1, <1>7
  <2>2. \A x : Position(fills', i - 1, x) = Position(fills, i - 1, x) BY <1>1, <2>1, PositionStable
  <2>3. CASE i \in 1..Len(fills) BY <1>7, <2>2, <2>3 DEF FillsInv, ClosedSizesTrue
  <2>4. CASE i = Len(fills) + 1
    <3>1. i - 1 = Len(fills) /\ fills'[i] = e BY <1>1, <1>7, <2>4
    <3>2. Position(fills', i - 1, s) = b BY <1>2, <2>2, <3>1
    <3> QED BY <1>4, <3>1, <3>2
  <2> QED BY <1>8, <2>3, <2>4
<1>13. Len(fills') <= MaxFills BY <1>1, <1>7, <1>9, LedgerAssumption
<1>14. FillsInv' BY <1>1, <1>7, <1>9, <1>10, <1>11, <1>12, <1>13 DEF FillsInv
<1> QED BY <1>4, <1>7, <1>14

\* What a thread read and where it walks from stay what they were.
LEMMA AnchorHolds ==
  ASSUME FillsInv, NEW fs, \A i \in 1..Len(fills) : fs[i] = fills[i],
         NEW m, m.cutoff \in 0..Len(fills), IsAnchored(m, fills)
  PROVE  IsAnchored(m, fs)
<1>1. Len(fills) \in Nat /\ IsHistory(fills) BY HistoryFacts
<1>2. PICK W : W = OfDays(fills, m.targets, m.cutoff) OBVIOUS
<1>3. \A i \in 1..m.cutoff : i \in 1..Len(fills) /\ fs[i] = fills[i] BY <1>1
<1>4. W = OfDays(fs, m.targets, m.cutoff) /\ W \in SUBSET (1..m.cutoff) BY <1>2, <1>3 DEF OfDays
<1>5. ASSUME NEW i \in W
      PROVE  m.anchor[fs[i].symbol] - Total(fs, SameLater(fs, W, i)) = Position(fs, i, fs[i].symbol)
  <2>1. m.anchor[fills[i].symbol] - Total(fills, SameLater(fills, W, i))
          = Position(fills, i, fills[i].symbol)
    BY <1>2, <1>5 DEF IsAnchored
  <2>2. i \in 1..Len(fills) /\ fs[i] = fills[i] BY <1>3, <1>4
  <2>3. SameLater(fs, W, i) = SameLater(fills, W, i) BY <1>3, <1>4, <2>2 DEF SameLater
  <2>4. Total(fs, SameLater(fills, W, i)) = Total(fills, SameLater(fills, W, i))
    <3>1. PICK S : S = SameLater(fills, W, i) OBVIOUS
    <3>2. S \in SUBSET (1..Len(fills)) BY <1>3, <1>4, <3>1 DEF SameLater
    <3>3. IsFiniteSet(S) BY <1>1, <3>2, SomeFills
    <3>4. \A j \in S : fs[j].delta = fills[j].delta BY <3>2
    <3> QED BY <3>1, <3>3, <3>4, TotalAgrees
  <2>5. i \in Nat /\ \A j \in 1..i : fs[j] = fills[j] BY <1>1, <2>2
  <2>6. Position(fs, i, fills[i].symbol) = Position(fills, i, fills[i].symbol)
    BY <1>1, <2>5, PositionStable
  <2> QED BY <2>1, <2>2, <2>3, <2>4, <2>6
<1> QED BY <1>4, <1>5 DEF IsAnchored

LEMMA ExecutesKeeps ==
  ASSUME LedgerInv, NEW s \in Symbol, NEW delta \in Delta, Executes(s, delta) PROVE LedgerInv'
<1>1. FillsInv BY DEF LedgerInv
<1>2. /\ Len(fills') = Len(fills) + 1 /\ FillsInv'
      /\ \A i \in 1..Len(fills) : fills'[i] = fills[i]
  BY <1>1, HistoryGrows
<1>3. UNCHANGED <<rows, thread, misled, deployment>> BY DEF Executes
<1>4. Len(fills) \in Nat /\ DOMAIN fills = 1..Len(fills) BY <1>1, HistoryFacts
<1>5. DOMAIN fills' = 1..Len(fills') BY <1>2, HistoryFacts DEF FillsInv, IsHistory
<1> SUFFICES ASSUME Alone PROVE ThreadsInv' /\ RowsInv'
  BY <1>2, <1>3 DEF LedgerInv, Alone
<1>6. ThreadsInv /\ RowsInv BY DEF LedgerInv
<1>7. ASSUME NEW t \in Thread
      PROVE  /\ IsPass(thread[t], Len(fills'))
             /\ t \in Backfiller => thread[t].pc = "idle"
             /\ ~misled /\ thread[t].pc = "persist" => IsAnchored(thread[t], fills')
  <2>1. IsPass(thread[t], Len(fills)) BY <1>6 DEF ThreadsInv
  <2>2. IsPass(thread[t], Len(fills'))
    <3>1. \A k : k \in 0..Len(fills) => k \in 0..Len(fills') BY <1>2, <1>4
    <3>2. thread[t].pc = "after" => thread[t].cutoff \in thread[t].read..Len(fills')
      BY <1>2, <1>4, <2>1 DEF IsPass
    <3> QED BY <2>1, <3>1, <3>2 DEF IsPass
  <2>3. ASSUME ~misled, thread[t].pc = "persist" PROVE IsAnchored(thread[t], fills')
    <3>1. IsAnchored(thread[t], fills) /\ thread[t].cutoff \in 0..Len(fills)
      BY <1>6, <2>1, <2>3 DEF ThreadsInv, IsPass
    <3> QED BY <1>1, <1>2, <3>1, AnchorHolds
  <2> QED BY <1>6, <2>2, <2>3 DEF ThreadsInv
<1>8. ThreadsInv' BY <1>3, <1>6, <1>7 DEF ThreadsInv
<1>9. RowsInv'
  <2>1. \A i \in Fill : rows[i] # NoRow => i <= Len(fills) /\ i <= Len(fills')
    BY <1>2, <1>4, <1>6 DEF RowsInv, Fill
  <2>2. \A i \in 1..Len(fills) : TrueRow(i)' = TrueRow(i) BY <1>1, <1>2, TrueRowStays
  <2>3. ASSUME ~misled, NEW i \in 1..Len(fills'), rows[i] # NoRow PROVE rows[i] = TrueRow(i)'
    <3>1. i \in Fill
      <4>1. Len(fills') <= MaxFills BY <1>2 DEF FillsInv
      <4>2. MaxFills \in Nat /\ Len(fills') \in Nat BY <1>2, <1>4, LedgerAssumption
      <4> QED BY <4>1, <4>2 DEF Fill
    <3>2. i \in 1..Len(fills) BY <1>2, <1>4, <2>1, <2>3, <3>1
    <3> QED BY <1>4, <1>6, <2>2, <2>3, <3>2 DEF RowsInv
  <2>4. DOMAIN rows' = Fill /\ \A i \in Fill : rows'[i] # NoRow => i <= Len(fills')
    BY <1>3, <1>6, <2>1 DEF RowsInv
  <2>5. ~misled' => \A i \in DOMAIN fills' : rows'[i] # NoRow => rows'[i] = TrueRow(i)'
    BY <1>3, <1>5, <2>3
  <2> QED BY <2>4, <2>5 DEF RowsInv
<1> QED BY <1>8, <1>9

\* The walk back of the code is that of the invariant.
LEMMA WalkedBackIs ==
  ASSUME NEW i, NEW days, NEW n, NEW anchor
  PROVE  WalkedBack(i, Window(days, n), anchor)
           = anchor[fills[i].symbol] - Total(fills, SameLater(fills, OfDays(fills, days, n), i))
BY DEF WalkedBack, Window, OfDays, SameLater, Total, MapThenSumSet, MapThenFoldSet

LEMMA OpeningIs ==
  ASSUME NEW days, NEW n, NEW anchor, NEW s \in Symbol
  PROVE  Opening(Window(days, n), anchor)[s]
           = anchor[s] - Total(fills, OfSymbol(fills, OfDays(fills, days, n), s))
BY DEF OfSymbol, Opening, Window, OfDays, Total, MapThenSumSet, MapThenFoldSet

\* A snapshot that was equal before and after the fills, with no fill between
\* and none of a later day, is an anchor of the target's walk.
LEMMA AnchorIsTrue ==
  ASSUME FillsInv, NEW t, thread[t].date \in Day, thread[t].cutoff = Len(fills),
         thread[t].targets \in {{thread[t].date}, {thread[t].date - 1}},
         \A i \in 1..Len(fills) : fills[i].day <= thread[t].date,
         NEW m, m.targets = thread[t].targets, m.cutoff = Len(fills), m.anchor = Anchor(t)
  PROVE  IsAnchored(m, fills)
<1>1. PICK d \in Int : d = thread[t].date BY DEF Day
<1>2. IsHistory(fills) /\ InOrder(fills) BY DEF FillsInv
<1>3. PICK W : W = OfDays(fills, m.targets, Len(fills)) OBVIOUS
<1>4. \A i \in W : fills[i].symbol \in Symbol BY <1>2, <1>3, FillsOfHistory DEF OfDays
<1>5. \A s \in Symbol : PositionsNow[s] = Position(fills, Len(fills), s) BY PositionIs DEF PositionsNow
<1>6. CASE thread[t].targets = {d}
  <2>1. m.anchor = PositionsNow /\ W = OfDays(fills, {d}, Len(fills)) BY <1>1, <1>3, <1>6 DEF Anchor
  <2>2. ASSUME NEW i \in W
        PROVE  m.anchor[fills[i].symbol] - Total(fills, SameLater(fills, W, i))
                 = Position(fills, i, fills[i].symbol)
    <3>1. Position(fills, Len(fills), fills[i].symbol) - Total(fills, SameLater(fills, W, i))
            = Position(fills, i, fills[i].symbol)
      BY <1>1, <1>2, <2>1, WalkToday
    <3> QED BY <1>4, <1>5, <2>1, <3>1
  <2> QED BY <1>3, <2>2 DEF IsAnchored
<1>7. CASE thread[t].targets = {d - 1}
  <2>1. {d - 1} # {d} BY <1>1
  <2>2. m.anchor = Opening(Window({d}, Len(fills)), PositionsNow)
    BY <1>1, <1>7, <2>1 DEF Anchor
  <2>3. W = OfDays(fills, {d - 1}, Len(fills)) BY <1>3, <1>7
  <2>4. ASSUME NEW i \in W
        PROVE  m.anchor[fills[i].symbol] - Total(fills, SameLater(fills, W, i))
                 = Position(fills, i, fills[i].symbol)
    <3>1. PICK s \in Symbol : s = fills[i].symbol BY <1>4
    <3>2. m.anchor[s] = Position(fills, Len(fills), s)
                          - Total(fills, OfSymbol(fills, OfDays(fills, {d}, Len(fills)), s))
      <4>1. PICK p, n : p = PositionsNow /\ n = Len(fills) OBVIOUS
      <4>2. m.anchor = Opening(Window({d}, n), p) BY <2>2, <4>1
      <4>3. Opening(Window({d}, n), p)[s]
              = p[s] - Total(fills, OfSymbol(fills, OfDays(fills, {d}, n), s))
        BY OpeningIs
      <4>4. p[s] = Position(fills, n, s) BY <1>5, <4>1
      <4> QED BY <4>1, <4>2, <4>3, <4>4
    <3>3. (Position(fills, Len(fills), fills[i].symbol)
            - Total(fills, OfSymbol(fills, OfDays(fills, {d}, Len(fills)), fills[i].symbol)))
           - Total(fills, SameLater(fills, W, i))
           = Position(fills, i, fills[i].symbol)
      BY <1>1, <1>2, <2>3, WalkYesterday
    <3> QED BY <3>1, <3>2, <3>3
  <2> QED BY <1>3, <2>4 DEF IsAnchored
<1> QED BY <1>1, <1>6, <1>7

\* A step of one thread that touches neither history nor rows.
LEMMA ThreadStays ==
  ASSUME LedgerInv, NEW t \in Thread, NEW m, Step(t, m),
         UNCHANGED <<fills, day, rows, deployment>>, ~misled' => ~misled,
         Alone => /\ IsPass(m, Len(fills)) /\ (t \in Backfiller => m.pc = "idle")
                  /\ ~misled' /\ m.pc = "persist" => IsAnchored(m, fills)
  PROVE  LedgerInv'
<1>1. FillsInv /\ FillsInv'
  <2>1. FillsInv BY DEF LedgerInv
  <2>2. day' \in Day /\ day <= day' BY <2>1, HistoryFacts DEF FillsInv
  <2> QED BY <2>1, <2>2, FillsStay
<1>2. ASSUME Alone PROVE ThreadsInv' /\ RowsInv'
  <2>1. ThreadsInv /\ RowsInv BY <1>2 DEF LedgerInv
  <2>2. thread' = [thread EXCEPT ![t] = m] BY DEF Step
  <2>3. ThreadsInv' BY <1>2, <2>1, <2>2, ThreadMoves
  <2>4. RowsInv' BY <1>1, <2>1, RowsStay
  <2> QED BY <2>3, <2>4
<1> QED BY <1>1, <1>2 DEF LedgerInv, Alone

LEMMA IdlePass == ASSUME NEW n PROVE IsPass(Idle, n) /\ Idle.pc = "idle"
BY DEF IsPass, Idle

LEMMA SyncBeginsKeeps ==
  ASSUME LedgerInv, NEW t \in Syncer, NEW back \in {0, 1}, SyncBegins(t, back) PROVE LedgerInv'
<1>1. PICK m : /\ m = [Idle EXCEPT !.pc = "before", !.date = day, !.targets = {day - back}]
               /\ Step(t, m)
  BY DEF SyncBegins
<1>2. t \in Thread /\ t \notin Backfiller BY LedgerAssumption DEF Thread
<1>3. day \in Day /\ day \in Int BY HistoryFacts DEF LedgerInv, FillsInv
<1>4. m.pc = "before" /\ m.date = day /\ m.targets = {day - back} /\ DOMAIN m = DOMAIN Idle
  BY <1>1 DEF Idle
<1>5. m.targets \in {{m.date}, {m.date - 1}} BY <1>3, <1>4
<1>6. IsPass(m, Len(fills)) BY <1>3, <1>4, <1>5 DEF IsPass
<1>7. UNCHANGED <<fills, day, rows, misled, deployment>> BY DEF SyncBegins
<1> QED BY <1>1, <1>2, <1>4, <1>6, <1>7, ThreadStays

\* A thread in a step is a worker, and its record is that of a pass.
LEMMA InPass ==
  ASSUME LedgerInv, Alone, NEW t \in Thread
  PROVE  /\ IsPass(thread[t], Len(fills)) /\ DOMAIN thread[t] = DOMAIN Idle
         /\ thread[t].pc # "idle" => t \notin Backfiller
         /\ ~misled /\ thread[t].pc = "persist" => IsAnchored(thread[t], fills)
         /\ Len(fills) \in Nat /\ FillsInv
BY HistoryFacts DEF LedgerInv, ThreadsInv, IsPass

LEMMA ReadPositionsBeforeKeeps ==
  ASSUME LedgerInv, NEW t \in Thread, ReadPositionsBefore(t) PROVE LedgerInv'
<1>1. PICK m : /\ m = [thread[t] EXCEPT !.pc = "executions", !.read = Len(fills), !.attempt = @ + 1]
               /\ Step(t, m)
  BY DEF ReadPositionsBefore
<1>2. ASSUME Alone PROVE IsPass(m, Len(fills)) /\ t \notin Backfiller /\ m.pc = "executions"
  <2>1. thread[t].pc = "before" BY DEF ReadPositionsBefore, At
  <2>2. /\ m.pc = "executions" /\ m.read = Len(fills) /\ m.date = thread[t].date
        /\ m.targets = thread[t].targets /\ DOMAIN m = DOMAIN Idle
    BY <1>1, <1>2, InPass DEF Idle
  <2>3. Len(fills) \in 0..Len(fills) BY <1>2, InPass
  <2>4. IsPass(m, Len(fills)) BY <1>2, <2>1, <2>2, <2>3, InPass DEF IsPass
  <2> QED BY <1>2, <2>1, <2>2, <2>4, InPass
<1>3. UNCHANGED <<fills, day, rows, misled, deployment>> BY DEF ReadPositionsBefore
<1> QED BY <1>1, <1>2, <1>3, ThreadStays

LEMMA ReadExecutionsKeeps ==
  ASSUME LedgerInv, NEW t \in Thread, ReadExecutions(t) PROVE LedgerInv'
<1>1. PICK m : m = [thread[t] EXCEPT !.pc = "after", !.cutoff = Len(fills)] /\ Step(t, m)
  BY DEF ReadExecutions
<1>2. ASSUME Alone PROVE IsPass(m, Len(fills)) /\ t \notin Backfiller /\ m.pc = "after"
  <2>1. thread[t].pc = "executions" BY DEF ReadExecutions, At
  <2>2. /\ m.pc = "after" /\ m.cutoff = Len(fills) /\ m.date = thread[t].date
        /\ m.read = thread[t].read /\ m.targets = thread[t].targets /\ DOMAIN m = DOMAIN Idle
    BY <1>1, <1>2, InPass DEF Idle
  <2>3. m.read \in 0..Len(fills) BY <1>2, <2>1, <2>2, InPass DEF IsPass
  <2>4. m.cutoff \in m.read..Len(fills) BY <1>2, <2>2, <2>3, InPass
  <2>5. IsPass(m, Len(fills)) BY <1>2, <2>1, <2>2, <2>3, <2>4, InPass DEF IsPass
  <2> QED BY <1>2, <2>1, <2>2, <2>5, InPass
<1>3. UNCHANGED <<fills, day, rows, misled, deployment>> BY DEF ReadExecutions
<1> QED BY <1>1, <1>2, <1>3, ThreadStays

\* Not misled, equal snapshots have no fill between them and none of a later day.
LEMMA ReadPositionsAfterKeeps ==
  ASSUME LedgerInv, NEW t \in Thread, ReadPositionsAfter(t) PROVE LedgerInv'
<1>1. UNCHANGED <<fills, day, rows, deployment>> BY DEF ReadPositionsAfter
<1>2. thread[t].pc = "after" /\ misled' = (misled \/ Misled(t)) BY DEF ReadPositionsAfter, At
<1>3. ~misled' => ~misled /\ ~Misled(t) BY <1>2
<1>4. CASE PositionAfter(thread[t].read) = PositionsNow
  <2>1. PICK m : /\ m = [thread[t] EXCEPT !.pc = "persist", !.anchor = Anchor(t), !.read = 0, !.attempt = 0]
                 /\ Step(t, m)
    BY <1>4 DEF ReadPositionsAfter
  <2>2. ASSUME Alone
        PROVE  IsPass(m, Len(fills)) /\ t \notin Backfiller /\ (~misled' => IsAnchored(m, fills))
    <3>1. /\ IsPass(thread[t], Len(fills)) /\ DOMAIN thread[t] = DOMAIN Idle /\ t \notin Backfiller
          /\ Len(fills) \in Nat /\ FillsInv
      BY <1>2, <2>2, InPass
    <3>2. /\ thread[t].date \in Day /\ thread[t].targets \in {{thread[t].date}, {thread[t].date - 1}}
          /\ thread[t].read \in 0..Len(fills) /\ thread[t].cutoff \in thread[t].read..Len(fills)
      BY <1>2, <3>1 DEF IsPass
    <3>3. /\ m.pc = "persist" /\ m.cutoff = thread[t].cutoff /\ m.date = thread[t].date
          /\ m.targets = thread[t].targets /\ m.anchor = Anchor(t) /\ DOMAIN m = DOMAIN Idle
      BY <2>1, <3>1 DEF Idle
    <3>4. m.cutoff \in 0..Len(fills) BY <3>1, <3>2, <3>3
    <3>5. IsPass(m, Len(fills)) BY <3>2, <3>3, <3>4 DEF IsPass
    <3>6. ASSUME ~misled' PROVE IsAnchored(m, fills)
      <4>1. thread[t].read = Len(fills) /\ \A i \in 1..thread[t].cutoff : ~(fills[i].day > thread[t].date)
        BY <1>3, <1>4, <3>6 DEF Misled
      <4>2. thread[t].cutoff = Len(fills) BY <3>1, <3>2, <4>1
      <4>3. \A i \in 1..Len(fills) : fills[i].day <= thread[t].date
        <5> SUFFICES ASSUME NEW i \in 1..Len(fills) PROVE fills[i].day <= thread[t].date OBVIOUS
        <5>1. fills[i].day \in Int /\ thread[t].date \in Int BY <3>1, <3>2, FillsOfHistory DEF FillsInv, Day
        <5> QED BY <4>1, <4>2, <5>1
      <4> QED BY <3>1, <3>2, <3>3, <4>2, <4>3, AnchorIsTrue
    <3> QED BY <3>1, <3>5, <3>6
  <2> QED BY <1>1, <1>3, <2>1, <2>2, ThreadStays
<1>5. CASE PositionAfter(thread[t].read) # PositionsNow
  <2>1. PICK m : /\ m = IF thread[t].attempt < MaxAttempts THEN [thread[t] EXCEPT !.pc = "before"] ELSE Idle
                 /\ Step(t, m)
    BY <1>5 DEF ReadPositionsAfter
  <2>2. ASSUME Alone PROVE IsPass(m, Len(fills)) /\ t \notin Backfiller /\ m.pc # "persist"
    <3>1. /\ IsPass(thread[t], Len(fills)) /\ DOMAIN thread[t] = DOMAIN Idle /\ t \notin Backfiller
      BY <1>2, <2>2, InPass
    <3>2. CASE m = Idle BY <3>1, <3>2, IdlePass
    <3>3. CASE m = [thread[t] EXCEPT !.pc = "before"]
      <4>1. /\ m.pc = "before" /\ m.date = thread[t].date /\ m.targets = thread[t].targets
            /\ DOMAIN m = DOMAIN Idle
        BY <3>1, <3>3 DEF Idle
      <4> QED BY <1>2, <3>1, <4>1 DEF IsPass
    <3> QED BY <2>1, <3>2, <3>3
  <2> QED BY <1>1, <1>3, <2>1, <2>2, ThreadStays
<1> QED BY <1>4, <1>5

LEMMA BackfillKeeps ==
  ASSUME LedgerInv, NEW t \in Thread, (t \in Backfiller /\ BackfillBegins(t)) \/ BackfillPositions(t)
  PROVE  LedgerInv'
<1>1. /\ UNCHANGED <<fills, day, rows, misled, deployment>>
      /\ BackfillBegins(t) => t \in Backfiller \cap deployment.threads
      /\ BackfillPositions(t) => thread[t].pc = "positions"
  BY DEF BackfillBegins, BackfillPositions, At
<1>2. ~Alone
  <2> SUFFICES ASSUME Alone PROVE FALSE OBVIOUS
  <2>1. ~BackfillBegins(t) BY <1>1 DEF Alone
  <2>2. IsPass(thread[t], Len(fills)) BY InPass
  <2>3. thread[t].pc # "positions" BY <2>2 DEF IsPass
  <2> QED BY <1>1, <2>1, <2>3
<1>3. PICK m : Step(t, m) BY DEF BackfillBegins, BackfillPositions
<1> QED BY <1>1, <1>2, <1>3, ThreadStays

\* The rows of the window become what the fills did.
LEMMA PersistKeeps ==
  ASSUME LedgerInv, NEW t \in Thread, Persist(t) PROVE LedgerInv'
<1>1. UNCHANGED <<fills, day, misled, deployment>> /\ thread[t].pc = "persist" BY DEF Persist, At
<1>2. PICK m : m = [thread[t] EXCEPT !.pc = "rows", !.cutoff = 0] /\ Step(t, m) BY DEF Persist
<1>3. FillsInv /\ FillsInv'
  <2>1. FillsInv BY DEF LedgerInv
  <2>2. day' \in Day /\ day <= day' BY <1>1, <2>1, HistoryFacts DEF FillsInv
  <2> QED BY <1>1, <2>1, <2>2, FillsStay
<1> SUFFICES ASSUME Alone PROVE ThreadsInv' /\ RowsInv'
  BY <1>1, <1>3 DEF LedgerInv, Alone
<1>4. ThreadsInv /\ RowsInv BY DEF LedgerInv
<1>5. /\ IsPass(thread[t], Len(fills)) /\ DOMAIN thread[t] = DOMAIN Idle /\ t \notin Backfiller
      /\ ~misled => IsAnchored(thread[t], fills)
  BY <1>1, InPass
<1>6. ThreadsInv'
  <2>1. m.pc = "rows" /\ DOMAIN m = DOMAIN Idle BY <1>2, <1>5 DEF Idle
  <2>2. IsPass(m, Len(fills)) BY <2>1 DEF IsPass
  <2>3. thread' = [thread EXCEPT ![t] = m] BY <1>2 DEF Step
  <2> QED BY <1>1, <1>4, <1>5, <2>1, <2>2, <2>3, ThreadMoves
<1>7. PICK W : W = Window(thread[t].targets, thread[t].cutoff) OBVIOUS
<1>8. W = OfDays(fills, thread[t].targets, thread[t].cutoff) BY <1>7 DEF Window, OfDays
<1>9. \A i \in W : i \in 1..Len(fills) /\ i \in Fill
  <2>1. thread[t].cutoff \in 0..Len(fills) BY <1>1, <1>5 DEF IsPass
  <2>2. \A i \in W : i \in 1..thread[t].cutoff BY <1>8 DEF OfDays
  <2>3. Len(fills) \in Nat /\ \A i \in 1..Len(fills) : i \in Fill BY <1>3, HistoryFacts
  <2>4. \A i \in 1..thread[t].cutoff : i \in 1..Len(fills) BY <2>1, <2>3
  <2> QED BY <2>2, <2>3, <2>4
<1>10. /\ DOMAIN rows' = Fill
       /\ \A i \in Fill : rows'[i] = IF i \in W THEN Reconciled(i, W, thread[t].anchor) ELSE rows[i]
  BY <1>7 DEF Persist
<1>11. ASSUME ~misled, NEW i \in W PROVE Reconciled(i, W, thread[t].anchor) = TrueRow(i)
  <2>1. thread[t].anchor[fills[i].symbol] - Total(fills, SameLater(fills, W, i))
          = Position(fills, i, fills[i].symbol)
    BY <1>5, <1>8, <1>11 DEF IsAnchored
  <2>2. WalkedBack(i, W, thread[t].anchor)
          = thread[t].anchor[fills[i].symbol] - Total(fills, SameLater(fills, W, i))
    <3>1. PICK a, ds, n : a = thread[t].anchor /\ ds = thread[t].targets /\ n = thread[t].cutoff OBVIOUS
    <3>2. WalkedBack(i, Window(ds, n), a)
            = a[fills[i].symbol] - Total(fills, SameLater(fills, OfDays(fills, ds, n), i))
      BY WalkedBackIs
    <3> QED BY <1>7, <1>8, <3>1, <3>2
  <2>3. i \in 1..Len(fills) /\ IsHistory(fills) /\ fills[i].symbol \in Symbol
    BY <1>3, <1>9, FillsOfHistory DEF FillsInv
  <2>4. WalkedBack(i, W, thread[t].anchor) = PositionAfter(i)[fills[i].symbol]
    BY <2>1, <2>2, <2>3, PositionIs
  <2>5. fills[i].closed = Closes(PositionAfter(i - 1)[fills[i].symbol], fills[i].delta)
    BY <1>3, <2>3, PositionIs DEF FillsInv, ClosedSizesTrue
  <2> QED BY <2>3, <2>4, <2>5, RowIsTrue
<1>12. \A i \in 1..Len(fills) : i \in Fill /\ TrueRow(i)' = TrueRow(i)
  BY <1>1, <1>3, HistoryFacts, TrueRowStays
<1>13. DOMAIN fills = 1..Len(fills) /\ Len(fills) \in Nat BY <1>3, HistoryFacts
<1>14. \A i \in Fill : rows'[i] # NoRow => i <= Len(fills)
  BY <1>4, <1>9, <1>10, <1>13 DEF RowsInv
<1>15. ASSUME ~misled, NEW i \in 1..Len(fills), rows'[i] # NoRow PROVE rows'[i] = TrueRow(i)
  <2>1. CASE i \in W BY <1>10, <1>11, <1>12, <1>15, <2>1
  <2>2. CASE i \notin W BY <1>4, <1>10, <1>12, <1>13, <1>15, <2>2 DEF RowsInv
  <2> QED BY <2>1, <2>2
<1>16. RowsInv' BY <1>1, <1>10, <1>12, <1>13, <1>14, <1>15 DEF RowsInv
<1> QED BY <1>6, <1>16

LEMMA RestKeeps ==
  ASSUME LedgerInv, NEW t \in Thread, ReadRows(t) \/ PutSummary(t) \/ Fails(t) PROVE LedgerInv'
<1>1. UNCHANGED <<fills, day, rows, misled, deployment>> /\ thread[t].pc # "idle"
  BY DEF ReadRows, PutSummary, Fails, At
<1>2. CASE ReadRows(t)
  <2>1. PICK sum, m : m = [thread[t] EXCEPT !.pc = "put", !.summary = sum] /\ Step(t, m)
    BY <1>2 DEF ReadRows
  <2>2. ASSUME Alone PROVE IsPass(m, Len(fills)) /\ t \notin Backfiller /\ m.pc = "put"
    <3>1. DOMAIN thread[t] = DOMAIN Idle /\ t \notin Backfiller BY <1>1, <2>2, InPass
    <3>2. m.pc = "put" /\ DOMAIN m = DOMAIN Idle BY <2>1, <3>1 DEF Idle
    <3> QED BY <3>1, <3>2 DEF IsPass
  <2> QED BY <1>1, <2>1, <2>2, ThreadStays
<1>3. CASE PutSummary(t)
  <2>1. PICK left, m : /\ m = IF left = {} THEN Idle
                             ELSE [thread[t] EXCEPT !.pc = "rows", !.targets = left, !.summary = NoSummary]
                       /\ Step(t, m)
    BY <1>3 DEF PutSummary
  <2>2. ASSUME Alone PROVE IsPass(m, Len(fills)) /\ t \notin Backfiller /\ m.pc # "persist"
    <3>1. DOMAIN thread[t] = DOMAIN Idle /\ t \notin Backfiller BY <1>1, <2>2, InPass
    <3>2. CASE left = {} BY <2>1, <3>1, <3>2, IdlePass
    <3>3. CASE left # {}
      <4>1. m.pc = "rows" /\ DOMAIN m = DOMAIN Idle BY <2>1, <3>1, <3>3 DEF Idle
      <4> QED BY <3>1, <4>1 DEF IsPass
    <3> QED BY <3>2, <3>3
  <2> QED BY <1>1, <2>1, <2>2, ThreadStays
<1>4. CASE Fails(t)
  <2>1. Step(t, Idle) BY <1>4 DEF Fails
  <2> QED BY <1>1, <2>1, IdlePass, ThreadStays
<1> QED BY <1>2, <1>3, <1>4

LEMMA NextDayKeeps == ASSUME LedgerInv, NextDay PROVE LedgerInv'
<1>1. UNCHANGED <<fills, rows, thread, misled, deployment>> /\ day' = day + 1 /\ day < MaxDay
  BY DEF NextDay
<1>2. FillsInv BY DEF LedgerInv
<1>3. day' \in Day /\ day <= day' BY <1>1, <1>2, LedgerAssumption DEF FillsInv, Day
<1>4. FillsInv' BY <1>1, <1>2, <1>3, FillsStay
<1>5. ASSUME Alone PROVE ThreadsInv' /\ RowsInv'
  <2>1. ThreadsInv /\ RowsInv BY <1>5 DEF LedgerInv
  <2>2. ThreadsInv' BY <1>1, <2>1 DEF ThreadsInv
  <2> QED BY <1>1, <1>2, <2>1, <2>2, RowsStay
<1> QED BY <1>1, <1>4, <1>5 DEF LedgerInv, Alone

LEMMA LedgerNext == LedgerInv /\ [Next]_vars => LedgerInv'
<1> SUFFICES ASSUME LedgerInv, [Next]_vars PROVE LedgerInv' OBVIOUS
<1>1. ASSUME NEW t \in Syncer, NEW back \in {0, 1}, SyncBegins(t, back) PROVE LedgerInv'
  BY <1>1, SyncBeginsKeeps
<1>2. ASSUME NEW t \in Backfiller, BackfillBegins(t) PROVE LedgerInv'
  <2>1. t \in Thread BY DEF Thread
  <2> QED BY <1>2, <2>1, BackfillKeeps
<1>3. ASSUME NEW t \in Thread, ThreadStep(t) \/ Fails(t) PROVE LedgerInv'
  <2>1. CASE ReadPositionsBefore(t) BY <2>1, ReadPositionsBeforeKeeps
  <2>2. CASE ReadExecutions(t) BY <2>2, ReadExecutionsKeeps
  <2>3. CASE ReadPositionsAfter(t) BY <2>3, ReadPositionsAfterKeeps
  <2>4. CASE BackfillPositions(t) BY <2>4, BackfillKeeps
  <2>5. CASE Persist(t) BY <2>5, PersistKeeps
  <2>6. CASE ReadRows(t) \/ PutSummary(t) \/ Fails(t) BY <2>6, RestKeeps
  <2> QED BY <1>3, <2>1, <2>2, <2>3, <2>4, <2>5, <2>6 DEF ThreadStep
<1>4. ASSUME NEW s \in Symbol, NEW delta \in Delta, Executes(s, delta) PROVE LedgerInv'
  BY <1>4, ExecutesKeeps
<1>5. CASE NextDay BY <1>5, NextDayKeeps
<1>6. CASE UNCHANGED vars
  <2>1. UNCHANGED <<fills, day, rows, thread, misled, deployment>> BY <1>6 DEF vars
  <2>2. FillsInv BY DEF LedgerInv
  <2>3. FillsInv'
    <3>1. day' \in Day /\ day <= day' BY <2>1, <2>2, HistoryFacts DEF FillsInv
    <3> QED BY <2>1, <2>2, <3>1, FillsStay
  <2>4. ASSUME Alone PROVE ThreadsInv' /\ RowsInv'
    <3>1. ThreadsInv /\ RowsInv BY <2>4 DEF LedgerInv
    <3>2. ThreadsInv' BY <2>1, <3>1 DEF ThreadsInv
    <3> QED BY <2>1, <2>2, <3>1, <3>2, RowsStay
  <2> QED BY <2>1, <2>3, <2>4 DEF LedgerInv, Alone
<1> QED BY <1>1, <1>2, <1>3, <1>4, <1>5, <1>6 DEF Next

\* While only workers run, and no worker was misled by a position that came back
\* or by fills of the next day, every row a worker stored says what its fill did
\* (live_execution_ledger._consistent_current_snapshot, reconcile_executions),
\* for every number of symbols, fills, days, workers and failures.
THEOREM RowsAreTrue == Spec => []RowsTrue
<1>1. LedgerInv => RowsTrue BY DEF LedgerInv, RowsInv, Alone, RowsTrue
<1> QED BY <1>1, LedgerInit, LedgerNext, PTL DEF Spec
=============================================================================
