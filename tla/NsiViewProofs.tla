---------------------------- MODULE NsiViewProofs ----------------------------
(***************************************************************************)
(* Proofs about module NsiView, for any endpoints and modules, any slack   *)
(* of the buffer and any number of changes meanwhile.                      *)
(***************************************************************************)
EXTENDS NsiView, FiniteSetTheorems, SequenceTheorems, TLAPS

\* Every call gives back what it holds on the way it ends, so that between the
\* calls that need them there is neither the list of modules nor a table.
THEOREM NsiTablesGivenBackThm == Spec => []NsiTablesGivenBack
<1>1. Init => NsiTablesGivenBack
  BY DEF Init, NsiTablesGivenBack
<1>2. NsiTablesGivenBack /\ [Next]_vars => NsiTablesGivenBack'
  <2>. SUFFICES ASSUME NsiTablesGivenBack, [Next]_vars PROVE NsiTablesGivenBack'
    OBVIOUS
  <2>. USE DEF NsiTablesGivenBack
  <2>1. CASE UNCHANGED <<pc, pool>>
    BY <2>1
  <2>2. CASE ProbeSize \/ SearchList \/ ResolveExports
    BY <2>2 DEF ProbeSize, SearchList, ResolveExports, ResolveFails
  <2>3. CASE TcpAllocate \/ UdpAllocate
    BY <2>3 DEF TcpAllocate, UdpAllocate, Allocate
  <2>4. CASE EndOfRows
    BY <2>4 DEF EndOfRows, FreeTables
  <2>5. QED
    BY <2>1, <2>2, <2>3, <2>4 DEF Next, View, Row, Machine, vars
<1>3. QED
  BY <1>1, <1>2, PTL DEF Spec

-----------------------------------------------------------------------------
(* NSI is reached.                                                         *)

\* The room in the buffer is used up by the changes only, one at a time, and
\* what was found is kept.
ReachInv ==
  /\ loaded \subseteq Modules /\ changes \in Nat /\ bufferSize \in Nat
  /\ pc = "list" => Cardinality(loaded) + Slack <= bufferSize + changes
  /\ pc \in {"exports", "tcp", "tcpRows", "udp", "udpRows"} => imageBase \in Modules
  /\ pc \in {"tcp", "tcpRows", "udp", "udpRows"} =>
       functions = [name \in Names |-> ExportAddress(name)]
  /\ NsiReached

\* The export table of netio.sys has the two names once, each with its function.
ExportsBoth ==
  \A name \in Names :
    \E i \in 1..Len(Exports.names) :
      /\ \A j \in 1..Len(Exports.names) : Exports.names[j] = name <=> j = i
      /\ Exports.functions[Exports.ordinals[i] + 1] # 0
      /\ FunctionAt[Exports.functions[Exports.ordinals[i] + 1]] = name

\* ArkGetExportAddress finds the function of either name.
LEMMA ExportAddressFound ==
  ASSUME ExportsBoth, NEW name \in Names
  PROVE  ExportAddress(name) # 0 /\ FunctionAt[ExportAddress(name)] = name
<1>1. PICK i \in 1..Len(Exports.names) :
        /\ \A j \in 1..Len(Exports.names) : Exports.names[j] = name <=> j = i
        /\ Exports.functions[Exports.ordinals[i] + 1] # 0
        /\ FunctionAt[Exports.functions[Exports.ordinals[i] + 1]] = name
  BY DEF ExportsBoth
<1>2. ASSUME NEW j \in 1..(i - 1) PROVE Exports.names[j] # name
  <2>1. j \in 1..Len(Exports.names) /\ j # i
    OBVIOUS
  <2>2. QED
    BY <1>1, <2>1
<1>3. FirstNamed(name) = {i}
  <2>1. i \in FirstNamed(name)
    BY <1>1, <1>2 DEF FirstNamed
  <2>2. ASSUME NEW k \in FirstNamed(name) PROVE k = i
    BY <1>1, <2>2 DEF FirstNamed
  <2>3. QED
    BY <2>1, <2>2
<1>4. (CHOOSE k \in FirstNamed(name) : TRUE) = i
  BY <1>3
<1>5. QED
  BY <1>1, <1>3, <1>4 DEF ExportAddress

\* Loading or unloading changes the number of modules by one at most.
LEMMA LoaderCount ==
  ASSUME loaded \subseteq Modules, Machine
  PROVE  loaded' \subseteq Modules /\ Cardinality(loaded') <= Cardinality(loaded) + 1
<1>1. IsFiniteSet(loaded) /\ Cardinality(loaded) \in Nat
  BY NsiLimits, FS_Subset, FS_CardinalityType
<1>2. CASE loaded' = loaded
  BY <1>1, <1>2
<1>3. ASSUME NEW m \in Modules \ loaded, loaded' = loaded \union {m} 
      PROVE  loaded' \subseteq Modules /\ Cardinality(loaded') <= Cardinality(loaded) + 1
  BY <1>1, <1>3, FS_AddElement
<1>4. ASSUME NEW m \in loaded, loaded' = loaded \ {m} 
      PROVE  loaded' \subseteq Modules /\ Cardinality(loaded') <= Cardinality(loaded) + 1
  BY <1>1, <1>4, FS_RemoveElement
<1>5. QED
  BY <1>2, <1>3, <1>4 DEF Machine, Network, Loader

LEMMA ReachStep ==
  ASSUME ExportsBoth, ReachInv, [Next]_vars
  PROVE  ReachInv'
<1>0. /\ loaded \subseteq Modules /\ Cardinality(loaded) \in Nat /\ Slack \in Nat
      /\ changes \in Nat /\ bufferSize \in Nat
  BY NsiLimits, FS_Subset, FS_CardinalityType DEF ReachInv
<1>1. CASE UNCHANGED vars
  BY <1>1 DEF vars, machine, resolving, ReachInv, NsiReached
<1>2. CASE pc # "returned" /\ Machine
  <2>1. changes' = changes + 1 /\ UNCHANGED <<pc, bufferSize, imageBase, functions>>
    BY <1>2 DEF Machine, resolving
  <2>2. loaded' \subseteq Modules /\ Cardinality(loaded') <= Cardinality(loaded) + 1
    BY <1>0, <1>2, LoaderCount
  <2>3. Cardinality(loaded') \in Nat
    BY <2>2, NsiLimits, FS_Subset, FS_CardinalityType
  <2>4. QED
    BY <1>0, <1>2, <2>1, <2>2, <2>3 DEF ReachInv, NsiReached
<1>3. CASE ProbeSize
  BY <1>0, <1>3 DEF ProbeSize, machine, ResolveFails, ReachInv, NsiReached, SizeToAllocate
<1>4. CASE SearchList
  BY <1>0, <1>4 DEF SearchList, machine, ResolveFails, ReachInv, NsiReached, SameFileName
<1>5. CASE ResolveExports
  <2>1. \A name \in Names : functions'[name] # 0
    BY <1>5, ExportAddressFound DEF ResolveExports
  <2>2. QED
    BY <1>5, <2>1 DEF ResolveExports, machine, ReachInv, NsiReached
<1>6. CASE TcpAllocate \/ UdpAllocate \/ Row \/ EndOfRows
  <2>1. /\ UNCHANGED <<loaded, changes, bufferSize, imageBase, functions>>
        /\ pc \in {"tcp", "tcpRows", "udp", "udpRows"}
        /\ pc' \in {"tcp", "tcpRows", "udp", "udpRows", "returned"}
    BY <1>6 DEF TcpAllocate, UdpAllocate, Row, EndOfRows, machine, resolving, Walking
  <2>2. imageBase \in Modules /\ functions = [name \in Names |-> ExportAddress(name)]
    BY <2>1 DEF ReachInv
  <2>3. NsiReached'
    BY <2>1, <2>2, ExportAddressFound, NsiLimits DEF NsiReached
  <2>4. QED
    BY <1>0, <2>1, <2>2, <2>3 DEF ReachInv
<1>7. QED
  BY <1>1, <1>2, <1>3, <1>4, <1>5, <1>6 DEF Next, View

\* The one query of the list of modules is enough: a buffer with room for as
\* many modules as are loaded meanwhile finds netio.sys, and in it both names.
THEOREM NsiReachedThm ==
  ASSUME ExportsBoth
  PROVE  Spec => []NsiReached
<1>1. Init => ReachInv
  BY DEF Init, ReachInv, NsiReached
<1>2. ReachInv /\ [Next]_vars => ReachInv'
  BY ReachStep
<1>3. ReachInv => NsiReached
  BY DEF ReachInv
<1>4. QED
  BY <1>1, <1>2, <1>3, PTL DEF Spec

-----------------------------------------------------------------------------
(* The numbers of a finite set in their order.                             *)

\* Each number of a set has a rank of its own, so that they are all there.
LEMMA RankFacts ==
  ASSUME NEW K \in SUBSET Nat, IsFiniteSet(K)
  PROVE  /\ \A i \in K : Rank(K, i) \in 1..Cardinality(K)
         /\ \A i, j \in K : Rank(K, i) = Rank(K, j) => i = j
         /\ \A k \in 1..Cardinality(K) : \E i \in K : Rank(K, i) = k
<1>. DEFINE n == Cardinality(K)
            UpTo(i) == {j \in K : j <= i}
<1>1. n \in Nat
  BY FS_CardinalityType
<1>2. ASSUME NEW i \in K
      PROVE  /\ IsFiniteSet(UpTo(i)) /\ Cardinality(UpTo(i)) \in Nat
             /\ Cardinality(UpTo(i)) <= n /\ Cardinality(UpTo(i)) # 0
             /\ Rank(K, i) = Cardinality(UpTo(i))
  <2>1. UpTo(i) \in SUBSET K /\ i \in UpTo(i)
    OBVIOUS
  <2>2. IsFiniteSet(UpTo(i)) /\ Cardinality(UpTo(i)) <= n
    BY <2>1, FS_Subset
  <2>3. Cardinality(UpTo(i)) \in Nat /\ Cardinality(UpTo(i)) # 0
    BY <2>1, <2>2, FS_CardinalityType, FS_EmptySet
  <2>4. QED
    BY <2>2, <2>3 DEF Rank
<1>3. ASSUME NEW i \in K, NEW j \in K, i < j PROVE Rank(K, i) # Rank(K, j)
  <2>0. i \in Nat /\ j \in Nat /\ \A l \in K : l \in Nat
    OBVIOUS
  <2>1. UpTo(i) \in SUBSET UpTo(j) /\ j \in UpTo(j) /\ j \notin UpTo(i)
    <3>1. ASSUME NEW l \in UpTo(i) PROVE l \in UpTo(j)
      <4>1. l \in K /\ l \in Nat /\ l <= i
        BY <2>0
      <4>2. l <= j
        BY <1>3, <2>0, <4>1
      <4>3. QED
        BY <4>1, <4>2
    <3>2. j <= j /\ ~(j <= i)
      BY <1>3, <2>0
    <3>3. QED
      BY <3>1, <3>2
  <2>2. UpTo(i) # UpTo(j)
    BY <2>1
  <2>3. QED
    BY <1>2, <2>1, <2>2, FS_Subset
<1>4. \A i, j \in K : Rank(K, i) = Rank(K, j) => i = j
  BY <1>3
<1>5. ASSUME NEW i \in K PROVE Rank(K, i) \in 1..n
  <2>. DEFINE c == Cardinality(UpTo(i))
  <2>1. c \in Nat /\ c <= n /\ c # 0 /\ Rank(K, i) = c
    BY <1>2
  <2>. HIDE DEF c, n
  <2>2. QED
    BY <1>1, <2>1
<1>. DEFINE f == [i \in K |-> Rank(K, i)]
<1>6. f \in Injection(K, 1..n)
  BY <1>4, <1>5 DEF Injection, IsInjective
<1>7. IsFiniteSet(1..n) /\ Cardinality(1..n) = n
  <2>1. IsFiniteSet(1..n) /\ Cardinality(1..n) = IF 1 > n THEN 0 ELSE n - 1 + 1
    BY <1>1, FS_Interval
  <2>2. QED
    BY <1>1, <2>1
<1>8. f \in Surjection(K, 1..n)
  BY <1>6, <1>7, FS_Injection
<1>9. \A k \in 1..n : \E i \in K : Rank(K, i) = k
  BY <1>8 DEF Surjection
<1>10. QED
  BY <1>4, <1>5, <1>9

LEMMA NthFacts ==
  ASSUME NEW K \in SUBSET Nat, IsFiniteSet(K)
  PROVE  /\ \A k \in 1..Cardinality(K) : Nth(K, k) \in K /\ Rank(K, Nth(K, k)) = k
         /\ \A i \in K : Nth(K, Rank(K, i)) = i
<1>1. ASSUME NEW k \in 1..Cardinality(K)
      PROVE  Nth(K, k) \in K /\ Rank(K, Nth(K, k)) = k
  BY RankFacts DEF Nth
<1>2. ASSUME NEW i \in K PROVE Nth(K, Rank(K, i)) = i
  <2>1. Rank(K, i) \in 1..Cardinality(K)
    BY RankFacts
  <2>2. Nth(K, Rank(K, i)) \in K /\ Rank(K, Nth(K, Rank(K, i))) = Rank(K, i)
    BY <1>1, <2>1
  <2>3. \A a, b \in K : Rank(K, a) = Rank(K, b) => a = b
    BY RankFacts
  <2>4. QED
    BY <2>2, <2>3
<1>3. QED
  BY <1>1, <1>2

\* Without its first number, a set has the others one place earlier.
LEMMA NthRest ==
  ASSUME NEW K \in SUBSET Nat, IsFiniteSet(K), NEW i \in K, \A j \in K : i <= j
  PROVE  /\ Cardinality(K \ {i}) \in Nat /\ Cardinality(K) = Cardinality(K \ {i}) + 1
         /\ Nth(K, 1) = i
         /\ \A k \in 1..Cardinality(K \ {i}) : Nth(K \ {i}, k) = Nth(K, k + 1)
<1>. DEFINE R == K \ {i}
<1>1. /\ R \in SUBSET Nat /\ IsFiniteSet(R) /\ Cardinality(R) \in Nat
      /\ Cardinality(K) = Cardinality(R) + 1
  <2>1. R \in SUBSET Nat
    OBVIOUS
  <2>2. IsFiniteSet(R) /\ Cardinality(R) = Cardinality(K) - 1
    BY FS_RemoveElement
  <2>3. Cardinality(R) \in Nat /\ Cardinality(K) \in Nat
    BY <2>2, FS_CardinalityType
  <2>4. QED
    BY <2>1, <2>2, <2>3
<1>2. Rank(K, i) = 1
  <2>0. \A j \in K : j \in Nat /\ (j <= i <=> j = i)
    OBVIOUS
  <2>1. {j \in K : j <= i} = {i}
    BY <2>0
  <2>2. QED
    BY <2>1, FS_Singleton DEF Rank
<1>3. ASSUME NEW k \in 1..Cardinality(R) PROVE Nth(R, k) = Nth(K, k + 1)
  <2>. DEFINE y == Nth(R, k)
              S == {j \in R : j <= y}
  <2>1. y \in R /\ Rank(R, y) = k
    BY <1>1, NthFacts
  <2>. HIDE DEF y
  <2>2. {j \in K : j <= y} = S \union {i} /\ i \notin S
    BY <2>1
  <2>3. IsFiniteSet(S)
    BY <1>1, FS_Subset
  <2>4. Rank(K, y) = k + 1
    <3>1. Cardinality(S) = k
      BY <2>1 DEF Rank
    <3>2. Cardinality(S \union {i}) = Cardinality(S) + 1
      BY <2>2, <2>3, FS_AddElement
    <3>3. QED
      BY <2>2, <3>1, <3>2 DEF Rank
  <2>5. Nth(K, k + 1) = y
    BY <2>1, <2>4, NthFacts
  <2>6. QED
    BY <2>5 DEF y
<1>4. Nth(K, 1) = i
  BY <1>2, NthFacts
<1>5. QED
  BY <1>1, <1>3, <1>4

\* The places of an enumeration that are in a set, and what is there.
Places(s, S) == {i \in 1..Len(s) : s[i] \in S}
At(s, A) == [k \in 1..Cardinality(A) |-> s[Nth(A, k)]]

\* Leaving out of an enumeration of a set what is not in a subset yields an
\* enumeration of the subset.
LEMMA Chosen ==
  ASSUME NEW T, IsFiniteSet(T), NEW s \in SetToSeqs(T), NEW S \in SUBSET T,
         NEW A, A = Places(s, S)
  PROVE  Cardinality(A) \in Nat /\ At(s, A) \in SetToSeqs(S)
<1>. DEFINE t == Cardinality(T)
            n == Cardinality(A)
            f == [k \in 1..n |-> s[Nth(A, k)]]
<1>1. t \in Nat
  BY FS_CardinalityType
<1>2. s \in [1..t -> T] /\ \A i, j \in 1..t : i # j => s[i] # s[j]
  BY DEF SetToSeqs
<1>3. Len(s) = t
  BY <1>1, <1>2
<1>4. IsFiniteSet(1..t) /\ Cardinality(1..t) = t
  <2>1. IsFiniteSet(1..t) /\ Cardinality(1..t) = IF 1 > t THEN 0 ELSE t - 1 + 1
    BY <1>1, FS_Interval
  <2>2. QED
    BY <1>1, <2>1
<1>5. s \in Surjection(1..t, T)
  <2>1. s \in Injection(1..t, T)
    BY <1>2 DEF Injection, IsInjective
  <2>2. QED
    BY <1>4, <2>1, FS_Injection
<1>6. A \in SUBSET (1..t) /\ A \in SUBSET Nat
  BY <1>1, <1>3 DEF Places
<1>7. IsFiniteSet(A) /\ n \in Nat
  BY <1>4, <1>6, FS_Subset, FS_CardinalityType
<1>. HIDE DEF t, n
<1>8. \A k \in 1..n : Nth(A, k) \in A /\ s[Nth(A, k)] \in S /\ Rank(A, Nth(A, k)) = k
  BY <1>6, <1>7, NthFacts DEF n, Places
<1>9. f \in [1..n -> S]
  BY <1>8
<1>10. ASSUME NEW k \in 1..n, NEW l \in 1..n, f[k] = f[l] PROVE k = l
  <2>1. Nth(A, k) \in 1..t /\ Nth(A, l) \in 1..t /\ s[Nth(A, k)] = s[Nth(A, l)]
    BY <1>6, <1>8, <1>10
  <2>2. Nth(A, k) = Nth(A, l)
    BY <1>2, <2>1
  <2>3. QED
    BY <1>8, <2>2
<1>11. ASSUME NEW e \in S PROVE \E k \in 1..n : f[k] = e
  <2>1. PICK i \in 1..t : s[i] = e
    BY <1>5 DEF Surjection
  <2>2. i \in A
    BY <1>3, <2>1 DEF Places
  <2>3. Rank(A, i) \in 1..n /\ Nth(A, Rank(A, i)) = i
    BY <1>6, <1>7, <2>2, RankFacts, NthFacts DEF n
  <2>4. QED
    BY <2>1, <2>3
<1>12. Cardinality(S) = n
  <2>1. f \in Injection(1..n, S) /\ f \in Surjection(1..n, S)
    BY <1>9, <1>10, <1>11 DEF Injection, IsInjective, Surjection
  <2>2. IsFiniteSet(1..n) /\ Cardinality(1..n) = n
    <3>1. IsFiniteSet(1..n) /\ Cardinality(1..n) = IF 1 > n THEN 0 ELSE n - 1 + 1
      BY <1>7, FS_Interval
    <3>2. QED
      BY <1>7, <3>1
  <2>3. QED
    BY <2>1, <2>2, FS_Surjection
<1>13. f \in SetToSeqs(S)
  BY <1>9, <1>10, <1>12 DEF SetToSeqs
<1>14. QED
  BY <1>7, <1>13 DEF n, At

-----------------------------------------------------------------------------
(* The array.                                                              *)

Fitting(s, more) ==
  IF Len(more) < MaxEntries - Len(s) THEN Len(more) ELSE MaxEntries - Len(s)

\* Filling the array: what was there stays, and as much follows as fits.
LEMMA FilledFacts ==
  ASSUME NEW X, NEW s \in Seq(X), NEW more \in Seq(X), Len(s) <= MaxEntries
  PROVE  \A r, k :
           r = Filled(s, more) /\ k = Fitting(s, more) =>
             /\ r \in Seq(X) /\ k \in Nat /\ Len(r) = Len(s) + k
             /\ \A i \in 1..Len(s) : r[i] = s[i]
             /\ \A i \in 1..k : r[Len(s) + i] = more[i]
<1>. DEFINE k == Fitting(s, more)
            t == SubSeq(more, 1, k)
            r == Filled(s, more)
<1>1. /\ k \in Nat /\ k <= Len(more) /\ k <= MaxEntries - Len(s)
      /\ Len(s) \in Nat /\ Len(more) \in Nat /\ MaxEntries \in Nat
  BY NsiLimits DEF Fitting
<1>2. t \in Seq(X) /\ Len(t) = k /\ \A i \in 1..k : t[i] = more[i]
  <2>. HIDE DEF k
  <2>1. \A i \in 1..k : more[i] \in X
    BY <1>1
  <2>2. QED
    BY <1>1, <2>1
<1>3. r = s \o t
  BY DEF Filled, Fitting
<1>. HIDE DEF k, t, r
<1>4. /\ r \in Seq(X) /\ Len(r) = Len(s) + Len(t)
      /\ \A i \in 1..(Len(s) + Len(t)) :
           r[i] = IF i <= Len(s) THEN s[i] ELSE t[i - Len(s)]
  BY <1>2, <1>3, ConcatProperties
<1>5. \A i \in 1..Len(s) : r[i] = s[i]
  BY <1>1, <1>2, <1>4
<1>6. \A i \in 1..k : r[Len(s) + i] = t[i]
  <2>. TAKE i \in 1..k
  <2>1. Len(s) + i \in 1..(Len(s) + Len(t)) /\ ~(Len(s) + i <= Len(s)) /\ Len(s) + i - Len(s) = i
    BY <1>1, <1>2
  <2>2. QED
    BY <1>4, <2>1
<1>7. QED
  BY <1>1, <1>2, <1>4, <1>5, <1>6 DEF k, r

\* There is nothing to fill it with.
LEMMA FilledNothing ==
  ASSUME NEW X, NEW s \in Seq(X), Len(s) <= MaxEntries
  PROVE  Filled(s, <<>>) = s
<1>1. Len(s) \in Nat /\ MaxEntries \in Nat /\ MaxEntries - Len(s) \in Nat
  BY NsiLimits
<1>2. (IF 0 < MaxEntries - Len(s) THEN 0 ELSE MaxEntries - Len(s)) = 0
  BY <1>1
<1>3. SubSeq(<<>>, 1, 0) = <<>>
  OBVIOUS
<1>4. s \o <<>> = s
  BY ConcatEmptySeq
<1>5. Len(<<>>) = 0
  OBVIOUS
<1>6. QED
  BY <1>2, <1>3, <1>4, <1>5 DEF Filled

\* What is left of a sequence without its first.
RestOf(rest, more) ==
  Len(more) = Len(rest) + 1 /\ \A i \in 1..Len(rest) : rest[i] = more[i + 1]

\* Appending the first and filling with the rest is filling with all.
LEMMA FilledOneMore ==
  ASSUME NEW X, NEW s \in Seq(X), NEW more \in Seq(X), NEW rest \in Seq(X),
         Len(s) <= MaxEntries, RestOf(rest, more)
  PROVE  /\ Filled(AppendPortEntry(s, more[1]), rest) = Filled(s, more)
         /\ AppendPortEntry(s, more[1]) \in Seq(X)
         /\ Len(AppendPortEntry(s, more[1])) <= MaxEntries
<1>. DEFINE s1 == AppendPortEntry(s, more[1])
            k == Fitting(s, more)
            k1 == Fitting(s1, rest)
            r == Filled(s, more)
            r1 == Filled(s1, rest)
<1>0. Len(more) = Len(rest) + 1 /\ \A i \in 1..Len(rest) : rest[i] = more[i + 1]
  BY DEF RestOf
<1>1. /\ Len(s) \in Nat /\ Len(more) \in Nat /\ Len(rest) \in Nat /\ MaxEntries \in Nat
      /\ more[1] \in X
  <2>1. Len(rest) \in Nat /\ Len(more) \in Nat /\ 1 \in 1..Len(more)
    BY <1>0
  <2>2. QED
    BY <2>1, NsiLimits
<1>2. CASE Len(s) = MaxEntries
  <2>1. s1 = s /\ k = 0 /\ k1 = 0
    BY <1>0, <1>1, <1>2 DEF AppendPortEntry, Fitting
  <2>2. r \in Seq(X) /\ Len(r) = Len(s) /\ \A i \in 1..Len(s) : r[i] = s[i]
    <3>1. r \in Seq(X) /\ Len(r) = Len(s) + k /\ \A i \in 1..Len(s) : r[i] = s[i]
      BY FilledFacts
    <3>2. QED
      BY <1>1, <2>1, <3>1
  <2>3. r1 \in Seq(X) /\ Len(r1) = Len(s) /\ \A i \in 1..Len(s) : r1[i] = s[i]
    <3>. HIDE DEF s1
    <3>1. r1 \in Seq(X) /\ Len(r1) = Len(s1) + k1 /\ \A i \in 1..Len(s1) : r1[i] = s1[i]
      BY <2>1, FilledFacts
    <3>2. QED
      BY <1>1, <2>1, <3>1
  <2>. HIDE DEF r, r1
  <2>4. r1 = r
    BY <2>2, <2>3, SeqEqual
  <2>5. QED
    BY <2>1, <2>4 DEF r, r1
<1>3. CASE Len(s) < MaxEntries
  <2>1. /\ s1 \in Seq(X) /\ Len(s1) = Len(s) + 1 /\ s1[Len(s) + 1] = more[1]
        /\ \A i \in 1..Len(s) : s1[i] = s[i]
    BY <1>1, <1>3 DEF AppendPortEntry
  <2>. HIDE DEF s1
  <2>2. k \in Nat /\ k1 \in Nat /\ k = k1 + 1
    BY <1>0, <1>1, <1>3, <2>1 DEF Fitting
  <2>3. /\ r \in Seq(X) /\ Len(r) = Len(s) + k
        /\ \A i \in 1..Len(s) : r[i] = s[i]
        /\ \A i \in 1..k : r[Len(s) + i] = more[i]
    BY FilledFacts
  <2>4. /\ r1 \in Seq(X) /\ Len(r1) = Len(s1) + k1
        /\ \A i \in 1..Len(s1) : r1[i] = s1[i]
        /\ \A i \in 1..k1 : r1[Len(s1) + i] = rest[i]
    <3>1. Len(s1) <= MaxEntries
      BY <1>1, <1>3, <2>1
    <3>2. s1 \in Seq(X) /\ r1 = Filled(s1, rest) /\ k1 = Fitting(s1, rest)
      BY <2>1
    <3>. HIDE DEF k1, r1, r, k
    <3>3. QED
      BY <3>1, <3>2, FilledFacts
  <2>. DEFINE l == Len(s)
  <2>5. k1 <= Len(rest)
    BY <1>0, <1>1, <1>3, <2>1 DEF Fitting
  <2>. HIDE DEF k, k1, r, r1
  <2>6. Len(r) = Len(r1) /\ Len(r) = l + 1 + k1 /\ l \in Nat
    BY <1>1, <2>1, <2>2, <2>3, <2>4
  <2>7. ASSUME NEW i \in 1..Len(r) PROVE r[i] = r1[i]
    <3>1. CASE i <= l
      <4>1. i \in 1..Len(s) /\ i \in 1..Len(s1)
        BY <1>1, <2>1, <3>1
      <4>2. QED
        BY <2>1, <2>3, <2>4, <4>1
    <3>2. CASE i = l + 1
      <4>1. i \in 1..Len(s1) /\ 1 \in 1..k /\ i = Len(s) + 1
        BY <1>1, <2>1, <2>2, <3>2
      <4>2. QED
        BY <2>1, <2>3, <2>4, <4>1
    <3>3. CASE i > l + 1
      <4>. DEFINE j == i - (l + 1)
      <4>1. j \in 1..k1 /\ j + 1 \in 1..k /\ i = Len(s1) + j /\ i = Len(s) + (j + 1)
        BY <1>1, <2>1, <2>2, <2>6, <3>3
      <4>. HIDE DEF j
      <4>2. j \in 1..Len(rest)
        BY <1>1, <2>2, <2>5, <4>1
      <4>3. r1[i] = rest[j] /\ r[i] = more[j + 1]
        BY <2>3, <2>4, <4>1
      <4>4. QED
        BY <1>0, <4>2, <4>3
    <3>4. QED
      BY <2>6, <3>1, <3>2, <3>3
  <2>8. r = r1
    BY <2>3, <2>4, <2>6, <2>7, SeqEqual
  <2>9. QED
    BY <1>1, <1>3, <2>1, <2>8 DEF r, r1, s1
<1>4. QED
  BY <1>1, <1>2, <1>3

-----------------------------------------------------------------------------
(* The tables.                                                             *)

Of(proto) == {e \in Ends : EndpointOf[e].proto = proto}

\* A row for each endpoint listed, with the owner of that endpoint.
TableOf(r, proto) ==
  /\ r.addr \in Seq(Of(proto))
  /\ r.owner = [i \in 1..Len(r.addr) |-> EndpointOf[r.addr[i]].pid]

AnyEntry ==
  {PV!RowOf(e) : e \in Ends} \union UNION {{s[i] : i \in 1..Len(s)} : s \in AfdAnswers}

Answers == [status : {"none", "success", "failed"}, entries : Seq(AnyEntry),
            tcp : Nat, udp : Nat, afdPids : Nat, afdHandles : Nat]

\* Nothing is counted before its table, and the rows under way are a table of
\* the protocol with the owners of its endpoints.
TableInv ==
  /\ open \subseteq Ends /\ index \in Nat \ {0}
  /\ answer \in Answers /\ Len(answer.entries) <= MaxEntries
  /\ pc \in {"probe", "list", "exports", "tcp"} => answer.tcp = 0
  /\ pc \in {"probe", "list", "exports", "tcp", "tcpRows", "udp"} => answer.udp = 0
  /\ pc \in {"tcpRows", "udpRows"} => TableOf(rows, Proto)

EntryFrom(r, proto, i) ==
  LET f == EndpointOf[r.addr[i]]
  IN  [view |-> proto, proto |-> proto, pid |-> r.owner[i],
       laddr |-> f.laddr, lport |-> f.lport,
       raddr |-> IF proto = "tcp" THEN f.raddr ELSE NoSide.addr,
       rport |-> IF proto = "tcp" THEN f.rport ELSE NoSide.port]

\* A row and its owner are what PortViews has for the endpoint.
LEMMA EntryIsRow ==
  ASSUME NEW proto \in {"tcp", "udp"}, NEW r, TableOf(r, proto), NEW i \in 1..Len(r.addr)
  PROVE  /\ r.addr[i] \in Ends /\ EndpointOf[r.addr[i]].proto = proto
         /\ EntryFrom(r, proto, i) = PV!RowOf(r.addr[i]) /\ EntryFrom(r, proto, i) \in AnyEntry
<1>1. r.addr[i] \in Of(proto) /\ r.owner[i] = EndpointOf[r.addr[i]].pid
  BY DEF TableOf
<1>2. r.addr[i] \in Ends /\ EndpointOf[r.addr[i]].proto = proto
  BY <1>1 DEF Of
<1>3. EntryFrom(r, proto, i) = PV!RowOf(r.addr[i])
  BY <1>1, <1>2 DEF EntryFrom, PV!RowOf, PV!EntryOf, PV!LocalOf, PV!RemoteOf, PV!NoSide, PV!AnyAddress, NoSide
<1>4. QED
  BY <1>2, <1>3 DEF AnyEntry

\* What Allocate takes.
Tables(proto) ==
  {[addr |-> s, owner |-> [i \in 1..Len(s) |-> EndpointOf[s[i]].pid]] :
     s \in SetToSeqs({e \in open : EndpointOf[e].proto = proto})}

LEMMA TablesFacts ==
  ASSUME open \subseteq Ends, NEW proto \in {"tcp", "udp"}, NEW r \in Tables(proto)
  PROVE  /\ r.addr \in SetToSeqs({e \in open : EndpointOf[e].proto = proto})
         /\ TableOf(r, proto)
<1>. DEFINE T == {e \in open : EndpointOf[e].proto = proto}
<1>1. PICK s \in SetToSeqs(T) : r = [addr |-> s, owner |-> [i \in 1..Len(s) |-> EndpointOf[s[i]].pid]]
  BY DEF Tables
<1>2. IsFiniteSet(T) /\ Cardinality(T) \in Nat
  BY NsiLimits, FS_Subset, FS_CardinalityType
<1>3. s \in [1..Cardinality(T) -> T]
  BY DEF SetToSeqs
<1>4. T \subseteq Of(proto)
  BY DEF Of
<1>5. s \in Seq(Of(proto))
  <2>. DEFINE n == Cardinality(T)
              U == Of(proto)
  <2>1. s \in [1..n -> U] /\ n \in Nat
    BY <1>2, <1>3, <1>4
  <2>. HIDE DEF n, U
  <2>2. s \in Seq(U)
    BY <2>1
  <2>3. QED
    BY <2>2 DEF U
<1>6. QED
  BY <1>1, <1>5 DEF TableOf

LEMMA TableInit == Init => TableInv
<1>. SUFFICES ASSUME Init PROVE TableInv
  OBVIOUS
<1>1. PICK entries \in AfdAnswers, afdPids \in {0, 1} :
        answer = [status |-> "none", entries |-> entries, tcp |-> 0, udp |-> 0,
                  afdPids |-> afdPids, afdHandles |-> afdPids]
  BY DEF Init
<1>2. entries \in Seq(AnyEntry) /\ Len(entries) <= MaxEntries
  <2>1. CASE entries = <<>>
    BY <2>1, NsiLimits
  <2>2. ASSUME NEW e, entries = <<e>> PROVE entries \in Seq(AnyEntry) /\ Len(entries) <= MaxEntries
    <3>1. e = entries[1] /\ 1 \in 1..Len(entries) /\ Len(entries) = 1
      BY <2>2
    <3>2. e \in UNION {{s[i] : i \in 1..Len(s)} : s \in AfdAnswers}
      BY <3>1
    <3>3. e \in AnyEntry
      BY <3>2 DEF AnyEntry
    <3>4. QED
      BY <2>2, <3>1, <3>3, NsiLimits
  <2>3. QED
    BY <2>1, <2>2 DEF AfdAnswers
<1>3. answer \in Answers /\ answer.entries = entries /\ answer.tcp = 0 /\ answer.udp = 0
  BY <1>1, <1>2 DEF Answers
<1>4. QED
  BY <1>2, <1>3 DEF Init, TableInv

\* One row is copied.
LEMMA RowTable == TableInv /\ Row => TableInv'
<1>. SUFFICES ASSUME TableInv, Row PROVE TableInv'
  OBVIOUS
<1>1. /\ UNCHANGED <<open, pc, rows>> /\ index' = index + 1
      /\ pc \in {"tcpRows", "udpRows"} /\ index \in 1..Len(rows.addr) /\ index \in Nat \ {0}
      /\ Proto \in {"tcp", "udp"} /\ Proto' = Proto
      /\ (pc = "tcpRows" => Proto = "tcp")
  BY DEF Row, Walking, machine, Proto, TableInv
<1>2. CASE UNCHANGED answer
  BY <1>1, <1>2 DEF TableInv
<1>3. CASE answer' = [answer EXCEPT !.entries = AppendPortEntry(@, EntryAt(Proto, index)),
                                    ![Proto] = @ + 1]
  <2>1. EntryAt(Proto, index) \in AnyEntry
    <3>1. EntryFrom(rows, Proto, index) \in AnyEntry
      BY <1>1, EntryIsRow DEF TableInv
    <3>2. QED
      BY <3>1 DEF EntryFrom, EntryAt
  <2>2. /\ answer \in Answers
        /\ answer.entries \in Seq(AnyEntry) /\ Len(answer.entries) <= MaxEntries
    BY DEF TableInv, Answers
  <2>. DEFINE es == AppendPortEntry(answer.entries, EntryAt(Proto, index))
  <2>3. es \in Seq(AnyEntry) /\ Len(es) <= MaxEntries
    BY <2>1, <2>2, NsiLimits DEF AppendPortEntry
  <2>. HIDE DEF es
  <2>4. answer' = [answer EXCEPT !.entries = es, ![Proto] = @ + 1]
    BY <1>3 DEF es
  <2>5. /\ answer' \in Answers /\ answer'.entries = es
        /\ (Proto = "tcp" => answer'.udp = answer.udp)
    <3>1. CASE Proto = "tcp"
      <4>1. answer' = [answer EXCEPT !.entries = es, !.tcp = @ + 1]
        BY <2>4, <3>1
      <4>2. answer.tcp + 1 \in Nat
        BY <2>2 DEF Answers
      <4>3. QED
        BY <2>2, <2>3, <3>1, <4>1, <4>2 DEF Answers
    <3>2. CASE Proto = "udp"
      <4>1. answer' = [answer EXCEPT !.entries = es, !.udp = @ + 1]
        BY <2>4, <3>2
      <4>2. answer.udp + 1 \in Nat
        BY <2>2 DEF Answers
      <4>3. QED
        BY <2>2, <2>3, <3>2, <4>1, <4>2 DEF Answers
    <3>3. QED
      BY <1>1, <3>1, <3>2
  <2>6. QED
    BY <1>1, <2>3, <2>5 DEF TableInv
<1>4. QED
  BY <1>2, <1>3 DEF Row

LEMMA TableStep == TableInv /\ [Next]_vars => TableInv'
<1>. SUFFICES ASSUME TableInv, [Next]_vars PROVE TableInv'
  OBVIOUS
<1>1. CASE UNCHANGED vars
  BY <1>1 DEF vars, machine, walk, TableInv, Proto
<1>2. CASE Machine
  <2>1. UNCHANGED <<pc, rows, index, answer>> /\ open' \subseteq Ends
    BY <1>2 DEF Machine, Network, Loader, walk, TableInv
  <2>2. QED
    BY <2>1 DEF TableInv, Proto
<1>3. CASE ProbeSize \/ SearchList \/ ResolveExports
  <2>1. /\ UNCHANGED <<open, rows, index>>
        /\ \/ UNCHANGED answer /\ pc' \in {"list", "exports", "tcp"}
           \/ \E st \in {"success", "failed"} :
                answer' = [answer EXCEPT !.status = st] /\ pc' = "returned"
        /\ pc \in {"probe", "list", "exports"}
    BY <1>3 DEF ProbeSize, SearchList, ResolveExports, ResolveFails, machine, walk
  <2>2. QED
    BY <2>1 DEF TableInv, Answers
<1>4. CASE TcpAllocate \/ UdpAllocate
  <2>1. ASSUME NEW proto \in {"tcp", "udp"}, rows' \in Tables(proto), index' = 1,
               UNCHANGED <<open, answer>>, pc' = (IF proto = "tcp" THEN "tcpRows" ELSE "udpRows"),
               pc = proto
        PROVE  TableInv'
    <3>1. TableOf(rows', proto) /\ Proto' = proto
      BY <2>1, TablesFacts DEF TableInv, Proto
    <3>2. QED
      BY <2>1, <3>1 DEF TableInv
  <2>2. CASE /\ UNCHANGED <<open, rows, index>>
             /\ \/ UNCHANGED answer /\ pc = "tcp" /\ pc' = "udp"
                \/ \E st \in {"success", "failed"} :
                     answer' = [answer EXCEPT !.status = st] /\ pc' = "returned"
    BY <2>2 DEF TableInv, Answers
  <2>3. QED
    BY <1>4, <2>1, <2>2 DEF TcpAllocate, UdpAllocate, Allocate, Tables, machine, walk
<1>5. CASE EndOfRows
  BY <1>5 DEF EndOfRows, machine, TableInv, Answers, Proto
<1>6. QED
  BY <1>1, <1>2, <1>3, <1>4, <1>5, RowTable DEF Next, View

-----------------------------------------------------------------------------
(* View C takes each table at once.                                        *)

LeftOf(r, proto, A) == [k \in 1..Cardinality(A) |-> EntryFrom(r, proto, Nth(A, k))]

FinishedOf(a, p, left) ==
  [a EXCEPT
     !.entries = Filled(@, left),
     !.tcp = IF p = "tcpRows" THEN @ + Len(left) ELSE @,
     !.udp = IF p = "udpRows" THEN @ + Len(left) ELSE @,
     !.status = IF p = "udpRows" THEN "success" ELSE @]

LEMMA LeftFacts ==
  ASSUME NEW proto \in {"tcp", "udp"}, NEW r, TableOf(r, proto), NEW A \in SUBSET (1..Len(r.addr))
  PROVE  /\ A \in SUBSET Nat /\ IsFiniteSet(A) /\ Cardinality(A) \in Nat
         /\ \A k \in 1..Cardinality(A) :
              Nth(A, k) \in A /\ EntryFrom(r, proto, Nth(A, k)) = PV!RowOf(r.addr[Nth(A, k)])
         /\ LeftOf(r, proto, A) \in Seq(AnyEntry) /\ Len(LeftOf(r, proto, A)) = Cardinality(A)
<1>1. A \in SUBSET Nat /\ Len(r.addr) \in Nat
  BY DEF TableOf
<1>2. IsFiniteSet(A) /\ Cardinality(A) \in Nat
  <2>1. 1 \in Int /\ Len(r.addr) \in Int
    BY <1>1
  <2>2. IsFiniteSet(1..Len(r.addr))
    BY <2>1, FS_Interval
  <2>3. IsFiniteSet(A)
    BY <2>2, FS_Subset
  <2>4. QED
    BY <2>3, FS_CardinalityType
<1>3. \A k \in 1..Cardinality(A) :
        /\ Nth(A, k) \in A /\ EntryFrom(r, proto, Nth(A, k)) = PV!RowOf(r.addr[Nth(A, k)])
        /\ EntryFrom(r, proto, Nth(A, k)) \in AnyEntry
  <2>. TAKE k \in 1..Cardinality(A)
  <2>1. Nth(A, k) \in A
    BY <1>1, <1>2, NthFacts
  <2>2. Nth(A, k) \in 1..Len(r.addr)
    BY <2>1
  <2>3. QED
    BY <2>1, <2>2, EntryIsRow
<1>4. LeftOf(r, proto, A) \in Seq(AnyEntry) /\ Len(LeftOf(r, proto, A)) = Cardinality(A)
  <2>. DEFINE n == Cardinality(A)
              e(k) == EntryFrom(r, proto, Nth(A, k))
  <2>1. n \in Nat /\ \A k \in 1..n : e(k) \in AnyEntry
    BY <1>2, <1>3
  <2>2. LeftOf(r, proto, A) = [k \in 1..n |-> e(k)]
    BY DEF LeftOf
  <2>. HIDE DEF n, e
  <2>3. [k \in 1..n |-> e(k)] \in Seq(AnyEntry) /\ Len([k \in 1..n |-> e(k)]) = n
    BY <2>1
  <2>4. QED
    BY <2>2, <2>3 DEF n
<1>5. QED
  BY <1>1, <1>2, <1>3, <1>4

Ipv4Of(r) == {i \in 1..Len(r.addr) : EndpointOf[r.addr[i]].ipv4}

\* What is left of a table that has just been taken is one PortViews takes.
LEMMA Allocated ==
  ASSUME NEW proto \in {"tcp", "udp"}, open \subseteq Ends, NEW r \in Tables(proto),
         NEW A, A = Ipv4Of(r)
  PROVE  /\ LeftOf(r, proto, A) \in PV!TablesOf(proto)
         /\ LeftOf(r, proto, A) \in Seq(AnyEntry)
<1>. DEFINE T == {e \in open : EndpointOf[e].proto = proto}
            S == {e \in PV!Ipv4(open) : EndpointOf[e].proto = proto}
            ends == At(r.addr, A)
<1>1. r.addr \in SetToSeqs(T) /\ TableOf(r, proto)
  BY TablesFacts
<1>2. IsFiniteSet(T) /\ S \in SUBSET T
  BY NsiLimits, FS_Subset DEF PV!Ipv4
<1>3. \A i \in 1..Len(r.addr) : r.addr[i] \in T
  <2>. DEFINE m == Cardinality(T)
  <2>1. m \in Nat /\ r.addr \in [1..m -> T]
    BY <1>1, <1>2, FS_CardinalityType DEF SetToSeqs
  <2>. HIDE DEF m
  <2>2. Len(r.addr) = m
    BY <2>1
  <2>3. QED
    BY <2>1, <2>2
<1>4. A = Places(r.addr, S)
  BY <1>3 DEF PV!Ipv4, Places, Ipv4Of
<1>. HIDE DEF T, S
<1>5. Cardinality(A) \in Nat /\ ends \in SetToSeqs(S)
  BY <1>1, <1>2, <1>4, Chosen
<1>6. /\ \A k \in 1..Cardinality(A) : EntryFrom(r, proto, Nth(A, k)) = PV!RowOf(r.addr[Nth(A, k)])
      /\ LeftOf(r, proto, A) \in Seq(AnyEntry)
  <2>1. A \in SUBSET (1..Len(r.addr))
    BY DEF Ipv4Of
  <2>2. TableOf(r, proto)
    BY <1>1
  <2>3. /\ \A k \in 1..Cardinality(A) :
             Nth(A, k) \in A /\ EntryFrom(r, proto, Nth(A, k)) = PV!RowOf(r.addr[Nth(A, k)])
        /\ LeftOf(r, proto, A) \in Seq(AnyEntry)
    BY <2>1, <2>2, LeftFacts
  <2>4. QED
    BY <2>3
<1>7. LeftOf(r, proto, A) = [i \in 1..Len(ends) |-> PV!RowOf(ends[i])]
  <2>. DEFINE n == Cardinality(A)
  <2>1. LeftOf(r, proto, A) = [i \in 1..n |-> PV!RowOf(r.addr[Nth(A, i)])]
    BY <1>6 DEF LeftOf
  <2>2. ends = [k \in 1..n |-> r.addr[Nth(A, k)]] /\ n \in Nat
    BY <1>5 DEF At
  <2>. HIDE DEF n, ends
  <2>3. Len(ends) = n /\ \A i \in 1..n : ends[i] = r.addr[Nth(A, i)]
    BY <2>2
  <2>4. QED
    BY <2>1, <2>3
<1>8. SetToSeqs(S) = PV!SetToSeqs(S)
  BY DEF SetToSeqs, PV!SetToSeqs, Cardinality, PV!Cardinality
<1>9. LeftOf(r, proto, A) \in PV!TablesOf(proto)
  BY <1>5, <1>7, <1>8 DEF PV!TablesOf, S
<1>10. QED
  BY <1>6, <1>9

\* With nothing left, what is there is what there will be.
LEMMA NothingLeft ==
  ASSUME NEW a \in Answers, Len(a.entries) <= MaxEntries, NEW p
  PROVE  FinishedOf(a, p, <<>>) = IF p = "udpRows" THEN [a EXCEPT !.status = "success"] ELSE a
<1>1. a.entries \in Seq(AnyEntry) /\ a.tcp + 0 = a.tcp /\ a.udp + 0 = a.udp
  BY DEF Answers
<1>2. Filled(a.entries, <<>>) = a.entries
  BY <1>1, FilledNothing
<1>3. Len(<<>>) = 0
  OBVIOUS
<1>4. a = [a EXCEPT !.entries = a.entries, !.tcp = a.tcp, !.udp = a.udp, !.status = a.status]
  BY DEF Answers
<1>5. QED
  BY <1>1, <1>2, <1>3, <1>4 DEF FinishedOf, Answers

\* A row that is counted is one less to count.
LEMMA OneCount ==
  ASSUME NEW a \in Answers, NEW b \in Answers, NEW more, NEW rest,
         Filled(b.entries, rest) = Filled(a.entries, more),
         Len(more) = 1 + Len(rest), Len(rest) \in Nat,
         b.status = a.status, b.afdPids = a.afdPids, b.afdHandles = a.afdHandles
  PROVE  /\ b.tcp = a.tcp + 1 /\ b.udp = a.udp =>
              FinishedOf(b, "tcpRows", rest) = FinishedOf(a, "tcpRows", more)
         /\ b.tcp = a.tcp /\ b.udp = a.udp + 1 =>
              FinishedOf(b, "udpRows", rest) = FinishedOf(a, "udpRows", more)
<1>. DEFINE f == Filled(a.entries, more)
<1>1. /\ a.tcp + 1 + Len(rest) = a.tcp + Len(more)
      /\ a.udp + 1 + Len(rest) = a.udp + Len(more)
  <2>. DEFINE t == a.tcp
              u == a.udp
              l == Len(rest)
              m == Len(more)
  <2>1. t \in Nat /\ u \in Nat /\ l \in Nat /\ m = 1 + l
    BY DEF Answers
  <2>. HIDE DEF t, u, l, m
  <2>2. t + 1 + l = t + m /\ u + 1 + l = u + m
    BY <2>1
  <2>3. QED
    BY <2>2 DEF t, u, l, m
<1>. HIDE DEF f
<1>2. ASSUME NEW t, NEW u, NEW st
      PROVE  [b EXCEPT !.entries = f, !.tcp = t, !.udp = u, !.status = st] =
               [a EXCEPT !.entries = f, !.tcp = t, !.udp = u, !.status = st]
  BY DEF Answers
<1>3. ASSUME b.tcp = a.tcp + 1, b.udp = a.udp
      PROVE  FinishedOf(b, "tcpRows", rest) = FinishedOf(a, "tcpRows", more)
  <2>1. b.tcp + Len(rest) = a.tcp + Len(more)
    BY <1>1, <1>3
  <2>2. FinishedOf(b, "tcpRows", rest) =
          [b EXCEPT !.entries = f, !.tcp = b.tcp + Len(rest), !.udp = b.udp, !.status = b.status]
    BY DEF FinishedOf, f
  <2>3. FinishedOf(a, "tcpRows", more) =
          [a EXCEPT !.entries = f, !.tcp = a.tcp + Len(more), !.udp = a.udp, !.status = a.status]
    BY DEF FinishedOf, f
  <2>4. QED
    BY <1>2, <1>3, <2>1, <2>2, <2>3
<1>4. ASSUME b.tcp = a.tcp, b.udp = a.udp + 1
      PROVE  FinishedOf(b, "udpRows", rest) = FinishedOf(a, "udpRows", more)
  <2>1. b.udp + Len(rest) = a.udp + Len(more)
    BY <1>1, <1>4
  <2>2. FinishedOf(b, "udpRows", rest) =
          [b EXCEPT !.entries = f, !.tcp = b.tcp, !.udp = b.udp + Len(rest), !.status = "success"]
    BY DEF FinishedOf, f
  <2>3. FinishedOf(a, "udpRows", more) =
          [a EXCEPT !.entries = f, !.tcp = a.tcp, !.udp = a.udp + Len(more), !.status = "success"]
    BY DEF FinishedOf, f
  <2>4. QED
    BY <1>2, <1>4, <2>1, <2>2, <2>3
<1>5. QED
  BY <1>3, <1>4

\* The counts are those of the table when nothing was counted before.
LEMMA FirstCount ==
  ASSUME NEW a \in Answers, NEW left, Len(left) \in Nat
  PROVE  /\ a.tcp = 0 => FinishedOf(a, "tcpRows", left) =
              [a EXCEPT !.entries = Filled(@, left), !.tcp = Len(left)]
         /\ a.udp = 0 => FinishedOf(a, "udpRows", left) =
              [a EXCEPT !.entries = Filled(@, left), !.udp = Len(left), !.status = "success"]
<1>. DEFINE f == Filled(a.entries, left)
            l == Len(left)
<1>1. a = [status |-> a.status, entries |-> a.entries, tcp |-> a.tcp, udp |-> a.udp,
           afdPids |-> a.afdPids, afdHandles |-> a.afdHandles]
  BY DEF Answers
<1>2. 0 + l = l
  OBVIOUS
<1>3. a.tcp = 0 => FinishedOf(a, "tcpRows", left) = [a EXCEPT !.entries = f, !.tcp = l]
  BY <1>1, <1>2 DEF FinishedOf
<1>4. a.udp = 0 =>
        FinishedOf(a, "udpRows", left) = [a EXCEPT !.entries = f, !.udp = l, !.status = "success"]
  BY <1>1, <1>2 DEF FinishedOf
<1>5. QED
  BY <1>3, <1>4

\* A row that is copied changes nothing of what the answer will be.
LEMMA OneRow ==
  ASSUME NEW proto \in {"tcp", "udp"}, NEW r, TableOf(r, proto),
         NEW A \in SUBSET (1..Len(r.addr)), NEW i \in A, \A j \in A : i <= j,
         NEW s \in Seq(AnyEntry), Len(s) <= MaxEntries
  PROVE  /\ Filled(AppendPortEntry(s, EntryFrom(r, proto, i)), LeftOf(r, proto, A \ {i})) =
              Filled(s, LeftOf(r, proto, A))
         /\ Len(LeftOf(r, proto, A)) = 1 + Len(LeftOf(r, proto, A \ {i}))
         /\ Len(LeftOf(r, proto, A \ {i})) \in Nat
<1>. DEFINE R == A \ {i}
            more == LeftOf(r, proto, A)
            rest == LeftOf(r, proto, R)
<1>1. /\ A \in SUBSET Nat /\ IsFiniteSet(A) /\ Cardinality(A) \in Nat
      /\ more \in Seq(AnyEntry) /\ Len(more) = Cardinality(A)
  BY LeftFacts
<1>2. rest \in Seq(AnyEntry) /\ Len(rest) = Cardinality(R) /\ Cardinality(R) \in Nat
  BY LeftFacts
<1>3. /\ Cardinality(A) = Cardinality(R) + 1 /\ Nth(A, 1) = i
      /\ \A k \in 1..Cardinality(R) : Nth(R, k) = Nth(A, k + 1)
  BY <1>1, NthRest
<1>4. more[1] = EntryFrom(r, proto, i)
  <2>1. 1 \in 1..Cardinality(A)
    BY <1>2, <1>3
  <2>2. QED
    BY <1>3, <2>1 DEF LeftOf
<1>5. \A k \in 1..Len(rest) : rest[k] = more[k + 1]
  <2>. TAKE k \in 1..Len(rest)
  <2>1. k \in 1..Cardinality(R) /\ k + 1 \in 1..Cardinality(A)
    BY <1>2, <1>3
  <2>2. rest[k] = EntryFrom(r, proto, Nth(R, k)) /\ more[k + 1] = EntryFrom(r, proto, Nth(A, k + 1))
    BY <2>1 DEF LeftOf
  <2>3. QED
    BY <1>3, <2>1, <2>2
<1>. HIDE DEF more, rest
<1>6. RestOf(rest, more)
  BY <1>1, <1>2, <1>3, <1>5 DEF RestOf
<1>7. Filled(AppendPortEntry(s, more[1]), rest) = Filled(s, more)
  <2>1. more \in Seq(AnyEntry) /\ rest \in Seq(AnyEntry)
    BY <1>1, <1>2
  <2>2. QED
    BY <1>6, <2>1, FilledOneMore
<1>8. QED
  BY <1>1, <1>2, <1>3, <1>4, <1>7 DEF more, rest

Copying(p) == p \in {"tcpRows", "udpRows"}

\* What PortViews has for pc and succeeded.
PcOf(p) ==
  CASE p \in {"probe", "list", "exports"} -> "nsi"
    [] p = "tcp" -> "tcp"
    [] p \in {"tcpRows", "udp"} -> "udp"
    [] OTHER -> "returned"

SucceededOf(p, views) ==
  views \union (IF Copying(p) THEN {IF p = "tcpRows" THEN "tcp" ELSE "udp"} ELSE {})

LEMMA ViewStep == TableInv /\ TableInv' /\ [Next]_vars => [PV!PortNext]_(PV!portVars)
<1>. SUFFICES ASSUME TableInv, TableInv', [Next]_vars PROVE [PV!PortNext]_(PV!portVars)
  OBVIOUS
<1>. DEFINE F == FinishedOf(answer, pc, Left)
            G == FinishedOf(answer', pc', Left')
<1>1. Finished = F /\ Finished' = G
  BY DEF Finished, FinishedOf
<1>2. /\ answer \in Answers /\ Len(answer.entries) <= MaxEntries
      /\ answer' \in Answers /\ Len(answer'.entries) <= MaxEntries
  BY DEF TableInv
<1>3. Ahead = {} => Left = <<>>
  BY FS_EmptySet DEF Left
<1>4. Ahead' = {} => Left' = <<>>
  BY FS_EmptySet DEF Left
<1>5. ~Copying(pc) => Ahead = {} /\ F = answer
  <2>1. ~Copying(pc) => Ahead = {} /\ pc # "udpRows"
    BY DEF Ahead, Copying
  <2>2. QED
    BY <1>2, <1>3, <2>1, NothingLeft
<1>6. ~Copying(pc') => Ahead' = {} /\ G = answer'
  <2>1. ~Copying(pc') => Ahead' = {} /\ pc' # "udpRows"
    BY DEF Ahead, Copying
  <2>2. QED
    BY <1>2, <1>4, <2>1, NothingLeft
<1>7. /\ Copying(pc) => Left = LeftOf(rows, Proto, Ahead)
      /\ Copying(pc') => Left' = LeftOf(rows', Proto', Ahead')
  BY DEF Left, LeftOf, EntryAt, EntryFrom
<1>. HIDE DEF F, G
<1>8. ASSUME UNCHANGED <<open, since>>, G = F, PcOf(pc') = PcOf(pc),
             SucceededOf(pc', succeeded') = SucceededOf(pc, succeeded)
      PROVE  UNCHANGED PV!portVars
  BY <1>1, <1>8 DEF PV!portVars, PV!driverVars, PcOf, SucceededOf, Copying, Proto
<1>9. CASE UNCHANGED <<pc, rows, index, succeeded, answer>>
  <2>1. G = F /\ PcOf(pc') = PcOf(pc) /\ SucceededOf(pc', succeeded') = SucceededOf(pc, succeeded)
    BY <1>9 DEF F, G, Left, Ahead, EntryAt, Proto
  <2>2. CASE UNCHANGED <<open, since>>
    BY <1>8, <2>1, <2>2
  <2>3. CASE Network
    <3>1. \E e \in Ends : PV!OpenEndpoint(e) \/ PV!CloseEndpoint(e)
      BY <2>3 DEF Network, PV!OpenEndpoint, PV!CloseEndpoint, TableInv
    <3>2. UNCHANGED PV!driverVars
      BY <1>1, <1>9, <2>1 DEF PV!driverVars, Proto
    <3>3. QED
      BY <3>1, <3>2 DEF PV!PortNext, PV!Network
  <2>4. QED
    BY <1>9, <2>2, <2>3 DEF Next, View, Machine, Loader, machine, vars, ProbeSize, SearchList,
            ResolveExports, TcpAllocate, UdpAllocate, Row, EndOfRows
<1>10. CASE ProbeSize \/ SearchList \/ ResolveExports
  <2>1. /\ UNCHANGED <<open, since, succeeded>> /\ pc \in {"probe", "list", "exports"}
        /\ \/ UNCHANGED answer /\ pc' \in {"list", "exports"}
           \/ UNCHANGED answer /\ pc' = "tcp"
           \/ /\ pc' = "returned"
              /\ answer' = [answer EXCEPT !.status =
                   IF "afd" \in succeeded /\ answer.afdPids > 0 THEN "success" ELSE "failed"]
    BY <1>10 DEF ProbeSize, SearchList, ResolveExports, ResolveFails, machine
  <2>2. F = answer /\ G = answer' /\ ~Copying(pc) /\ ~Copying(pc')
    BY <1>5, <1>6, <2>1 DEF Copying
  <2>3. CASE pc' \in {"list", "exports"}
    BY <1>8, <2>1, <2>2, <2>3 DEF PcOf, SucceededOf
  <2>4. CASE pc' \in {"tcp", "returned"}
    BY <1>1, <2>1, <2>2, <2>4 DEF PV!PortNext, PV!PortQuery, PV!ResolveNsi, PV!Return, Copying
  <2>5. QED
    BY <2>1, <2>3, <2>4
<1>11. ASSUME NEW proto \in {"tcp", "udp"}, rows' \in Tables(proto), index' = 1,
              UNCHANGED <<open, since, succeeded, answer>>, pc = proto,
              pc' = IF proto = "tcp" THEN "tcpRows" ELSE "udpRows"
       PROVE  PV!PortNext
  <2>1. Proto' = proto /\ Copying(pc') /\ ~Copying(pc)
    BY <1>11 DEF Proto, Copying
  <2>2. Ahead' = Ipv4Of(rows')
    BY <1>11, <2>1 DEF Ahead, Copying, Ipv4Of
  <2>3. Left' \in PV!TablesOf(proto) /\ Left' \in Seq(AnyEntry)
    BY <1>7, <1>11, <2>1, <2>2, Allocated DEF TableInv
  <2>4. Len(Left') \in Nat /\ (proto = "tcp" => answer.tcp = 0) /\ answer.udp = 0
    BY <1>11, <2>3 DEF TableInv
  <2>5. F = answer
    BY <1>5, <2>1
  <2>6. Filled(answer.entries, Left') = PV!AppendAll(answer.entries, Left')
    BY DEF Filled, PV!AppendAll, PV!Smaller
  <2>7. CASE proto = "tcp"
    <3>1. G = [answer EXCEPT !.entries = Filled(@, Left'), !.tcp = Len(Left')]
      BY <1>2, <1>11, <2>4, <2>7, FirstCount DEF G
    <3>2. QED
      BY <1>1, <1>11, <2>3, <2>5, <2>6, <2>7, <3>1
         DEF PV!PortNext, PV!PortQuery, PV!TcpView, Proto
  <2>8. CASE proto = "udp"
    <3>1. G = [answer EXCEPT !.entries = Filled(@, Left'), !.udp = Len(Left'), !.status = "success"]
      BY <1>2, <1>11, <2>4, <2>8, FirstCount DEF G
    <3>2. QED
      BY <1>1, <1>11, <2>3, <2>5, <2>6, <2>8, <3>1
         DEF PV!PortNext, PV!PortQuery, PV!UdpView, Proto
  <2>9. QED
    BY <2>7, <2>8
<1>12. CASE TcpAllocate
  <2>1. CASE pc' = "udp" /\ pc = "tcp" /\ UNCHANGED <<open, since, succeeded, answer>>
    <3>1. F = answer /\ G = answer'
      BY <1>5, <1>6, <2>1 DEF Copying
    <3>2. QED
      BY <1>1, <2>1, <3>1 DEF PV!PortNext, PV!PortQuery, PV!TcpView
  <2>2. QED
    BY <1>11, <1>12, <2>1 DEF TcpAllocate, Allocate, Tables, machine
<1>13. CASE UdpAllocate
  <2>1. CASE /\ pc' = "returned" /\ pc = "udp" /\ UNCHANGED <<open, since, succeeded>>
             /\ answer' = [answer EXCEPT !.status = IF succeeded = {} THEN "failed" ELSE "success"]
    <3>1. F = answer /\ G = answer'
      BY <1>5, <1>6, <2>1 DEF Copying
    <3>2. QED
      BY <1>1, <2>1, <3>1 DEF PV!PortNext, PV!PortQuery, PV!UdpView, PV!Return
  <2>2. QED
    BY <1>11, <1>13, <2>1 DEF UdpAllocate, Allocate, Tables, machine
<1>14. CASE Row
  <2>1. /\ UNCHANGED <<open, since, pc, rows, succeeded>> /\ index' = index + 1
        /\ Copying(pc) /\ index \in 1..Len(rows.addr) /\ index \in Nat \ {0}
        /\ Proto \in {"tcp", "udp"} /\ Proto' = Proto /\ TableOf(rows, Proto)
    BY <1>14 DEF Row, Walking, machine, Proto, TableInv, Copying
  <2>2. G = F
    <3>1. CASE ~EndpointOf[rows.addr[index]].ipv4 /\ UNCHANGED answer
      <4>1. Ahead' = Ahead
        BY <2>1, <3>1 DEF Ahead, TableOf, Copying
      <4>2. Left' = Left
        BY <1>7, <2>1, <4>1
      <4>3. QED
        BY <2>1, <3>1, <4>2 DEF F, G
    <3>2. CASE EndpointOf[rows.addr[index]].ipv4 /\
               answer' = [answer EXCEPT !.entries = AppendPortEntry(@, EntryAt(Proto, index)),
                                        ![Proto] = @ + 1]
      <4>1. /\ Ahead \in SUBSET (1..Len(rows.addr)) /\ index \in Ahead
            /\ Ahead' = Ahead \ {index} /\ \A j \in Ahead : index <= j
        BY <2>1, <3>2 DEF Ahead, TableOf, Copying
      <4>. DEFINE s1 == AppendPortEntry(answer.entries, EntryFrom(rows, Proto, index))
      <4>2. answer.entries \in Seq(AnyEntry) /\ answer.tcp \in Nat /\ answer.udp \in Nat
        BY <1>2 DEF Answers
      <4>3. /\ Filled(s1, Left') = Filled(answer.entries, Left)
            /\ Len(Left) = 1 + Len(Left') /\ Len(Left') \in Nat
        <5>1. Left = LeftOf(rows, Proto, Ahead) /\ Left' = LeftOf(rows, Proto, Ahead \ {index})
          BY <1>7, <2>1, <4>1
        <5>. DEFINE ee == answer.entries
        <5>2. ee \in Seq(AnyEntry) /\ Len(ee) <= MaxEntries
          BY <1>2, <4>2
        <5>. HIDE DEF ee
        <5>3. /\ Filled(AppendPortEntry(ee, EntryFrom(rows, Proto, index)),
                        LeftOf(rows, Proto, Ahead \ {index})) =
                   Filled(ee, LeftOf(rows, Proto, Ahead))
              /\ Len(LeftOf(rows, Proto, Ahead)) = 1 + Len(LeftOf(rows, Proto, Ahead \ {index}))
              /\ Len(LeftOf(rows, Proto, Ahead \ {index})) \in Nat
          <6>1. Proto \in {"tcp", "udp"} /\ TableOf(rows, Proto)
            BY <2>1
          <6>2. QED
            BY <4>1, <5>2, <6>1, OneRow
        <5>4. QED
          BY <5>1, <5>3 DEF ee
      <4>4. answer' = [answer EXCEPT !.entries = s1, ![Proto] = @ + 1]
        BY <3>2 DEF EntryFrom, EntryAt
      <4>. HIDE DEF s1
      <4>5. CASE pc = "tcpRows"
        <5>1. answer' = [answer EXCEPT !.entries = s1, !.tcp = @ + 1]
          BY <4>4, <4>5 DEF Proto
        <5>2. /\ answer'.entries = s1 /\ answer'.tcp = answer.tcp + 1 /\ answer'.udp = answer.udp
              /\ answer'.status = answer.status /\ answer'.afdPids = answer.afdPids
              /\ answer'.afdHandles = answer.afdHandles
          BY <1>2, <5>1 DEF Answers
        <5>3. FinishedOf(answer', "tcpRows", Left') = FinishedOf(answer, "tcpRows", Left)
          BY <1>2, <4>3, <5>2, OneCount
        <5>4. QED
          BY <2>1, <4>5, <5>3 DEF F, G
      <4>6. CASE pc = "udpRows"
        <5>1. answer' = [answer EXCEPT !.entries = s1, !.udp = @ + 1]
          BY <4>4, <4>6 DEF Proto
        <5>2. /\ answer'.entries = s1 /\ answer'.udp = answer.udp + 1 /\ answer'.tcp = answer.tcp
              /\ answer'.status = answer.status /\ answer'.afdPids = answer.afdPids
              /\ answer'.afdHandles = answer.afdHandles
          BY <1>2, <5>1 DEF Answers
        <5>3. FinishedOf(answer', "udpRows", Left') = FinishedOf(answer, "udpRows", Left)
          BY <1>2, <4>3, <5>2, OneCount
        <5>4. QED
          BY <2>1, <4>6, <5>3 DEF F, G
      <4>7. QED
        BY <2>1, <4>5, <4>6 DEF Copying
    <3>3. QED
      BY <1>14, <3>1, <3>2 DEF Row
  <2>3. QED
    BY <1>8, <2>1, <2>2
<1>15. CASE EndOfRows
  <2>1. UNCHANGED <<open, since>> /\ Copying(pc) /\ ~Copying(pc')
    BY <1>15 DEF EndOfRows, machine, Copying
  <2>2. Ahead = {}
    BY <1>15 DEF EndOfRows, Walking, Ahead, TableInv, TableOf
  <2>3. F = IF pc = "udpRows" THEN [answer EXCEPT !.status = "success"] ELSE answer
    BY <1>2, <1>3, <2>2, NothingLeft DEF F
  <2>4. G = answer'
    BY <1>6, <2>1
  <2>5. QED
    BY <1>8, <1>15, <2>1, <2>3, <2>4 DEF EndOfRows, PcOf, SucceededOf, Copying, Proto
<1>16. QED
  BY <1>9, <1>10, <1>12, <1>13, <1>14, <1>15 DEF Next, View, Machine, vars, machine, walk

\* The calls of View C, the machine at work between them, come to the steps
\* PortViews takes: a table is in the answer as it was at one moment.
THEOREM ViewCThm == Spec => ViewC
<1>1. TableInv /\ TableInv' /\ [Next]_vars => [PV!PortNext]_(PV!portVars)
  BY ViewStep
<1>2. QED
  BY <1>1, TableInit, TableStep, PTL DEF Spec, ViewC

=============================================================================
