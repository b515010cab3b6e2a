---------------------------- MODULE TizenRtProofs ----------------------------
(***************************************************************************)
(* Proofs about the event loop of TizenRT and about the CoAP library that  *)
(* its clients and servers run: TizenRtLoop, CoapQueue, CoapServer and     *)
(* CoapClient.  The four share no state.                                   *)
(*                                                                         *)
(* VectorsHoldActive and EndsByItself hold of every behaviour of the loop: *)
(* a registration that the application has not ended, and that has not     *)
(* ended by itself, is in its vector, once.                                *)
(*                                                                         *)
(* OnTime holds of every behaviour of the queue.  The times of the list    *)
(* are relative to their predecessors, so that the proof is about the sum  *)
(* of a prefix (Offset), which a node that is inserted, removed or         *)
(* cancelled must leave as it was for the others.  CancelAll does not.     *)
(*                                                                         *)
(* RefsExact holds of every behaviour of the server and is inductive as it *)
(* stands; its proof counts the nodes of a peer in the queue.              *)
(*                                                                         *)
(* SessionsHeld is proved for clients that disconnect when nothing is      *)
(* queued (Waits): then every queued request is one of the present         *)
(* connection (OfSession), and the one that is given up may release the    *)
(* connection's reference.                                                 *)
(***************************************************************************)
EXTENDS TizenRtLoop, CoapQueue, CoapServer, CoapClient, FiniteSetTheorems, TLAPS

-----------------------------------------------------------------------------
(* Natural numbers.                                                        *)

\* A set of natural numbers that is not empty has a least element: otherwise
\* what is below all of it would be closed under successors, and bounded, so
\* that the successor would map it one-to-one onto less than itself.
LEMMA LeastNatural ==
    ASSUME NEW S \in SUBSET Nat, S # {}
    PROVE  \E m \in S : \A k \in S : m <= k
<1> SUFFICES ASSUME \A m \in S : \E k \in S : k < m PROVE FALSE
  OBVIOUS
<1> DEFINE Lower == {k \in Nat : \A s \in S : k < s}
           next == [k \in Lower |-> k + 1]
<1>1. 0 \in Lower
  BY DEF Lower
<1>2. ASSUME NEW k \in Lower PROVE k + 1 \in Lower
  <2>1. SUFFICES ASSUME NEW s \in S, ~(k + 1 < s) PROVE FALSE
    BY DEF Lower
  <2>2. s = k + 1
    BY <2>1 DEF Lower
  <2>3. PICK r \in S : r < s
    OBVIOUS
  <2>4. k < r
    BY DEF Lower
  <2> QED BY <2>2, <2>3, <2>4
<1>3. PICK x \in S : TRUE
  OBVIOUS
<1>4. IsFiniteSet(Lower)
  <2>1. IsFiniteSet(0 .. x) 
    BY FS_Interval, <1>3
  <2>2. Lower \subseteq 0 .. x
    BY <1>3 DEF Lower
  <2> QED BY <2>1, <2>2, FS_Subset
<1>5. /\ IsFiniteSet(Lower \ {0})
      /\ Cardinality(Lower \ {0}) = Cardinality(Lower) - 1
      /\ Cardinality(Lower) \in Nat
  BY <1>1, <1>4, FS_RemoveElement, FS_CardinalityType
<1>6. next \in [Lower -> Lower \ {0}]
  <2>1. \A k \in Lower : k + 1 \in Lower \ {0}
    BY <1>2 DEF Lower
  <2> QED BY <2>1
<1> HIDE DEF Lower
<1>7. \E j, k \in Lower : j # k /\ next[j] = next[k]
  <2>1. Cardinality(Lower \ {0}) < Cardinality(Lower)
    BY <1>5
  <2> HIDE DEF next
  <2> QED BY <1>4, <1>5, <1>6, <2>1, FS_PigeonHole
<1> QED BY <1>7 DEF Lower

-----------------------------------------------------------------------------
(* TizenRtLoop.                                                            *)

\* No entry twice.
Once(v) == \A i, j \in DOMAIN v : v[i] = v[j] => i = j

\* A sequence without repetitions is as long as the set of its elements.
LEMMA LengthOfOnce ==
    ASSUME NEW T, NEW v \in Seq(T), Once(v)
    PROVE  Len(v) = Cardinality(Range(v))
<1>1. /\ DOMAIN v = 1 .. Len(v) /\ Len(v) \in Nat
      /\ v \in [1 .. Len(v) -> Range(v)]
  BY DEF Range
<1>2. v \in Bijection(1 .. Len(v), Range(v))
  BY <1>1 DEF Bijection, Injection, Surjection, IsInjective, Once, Range
<1>3. IsFiniteSet(1 .. Len(v)) /\ Cardinality(1 .. Len(v)) = Len(v)
  <2>1. Cardinality(1 .. Len(v)) = IF 1 > Len(v) THEN 0 ELSE Len(v) - 1 + 1
    BY <1>1, FS_Interval
  <2> QED BY <1>1, <2>1, FS_Interval
<1> QED BY <1>2, <1>3, FS_Bijection DEF ExistsBijection

\* A structure that is not in the vector can be appended.
LEMMA AppendOnce ==
    ASSUME NEW T, NEW v \in Seq(T), NEW r \in T, Once(v), r \notin Range(v)
    PROVE  /\ Append(v, r) \in Seq(T)
           /\ Once(Append(v, r))
           /\ Range(Append(v, r)) = Range(v) \cup {r}
<1> DEFINE w == Append(v, r)
<1>1. /\ Len(v) \in Nat /\ DOMAIN v = 1 .. Len(v)
      /\ w \in Seq(T) /\ DOMAIN w = 1 .. Len(v) + 1
      /\ \A i \in 1 .. Len(v) : w[i] = v[i]
      /\ w[Len(v) + 1] = r
  OBVIOUS
<1> HIDE DEF w
<1>2. \A i \in 1 .. Len(v) : v[i] # r
  BY <1>1 DEF Range
<1>3. Once(w)
  BY <1>1, <1>2 DEF Once
<1>4. Range(w) = Range(v) \cup {r}
  <2>1. ASSUME NEW x \in Range(w) PROVE x \in Range(v) \cup {r}
    BY <1>1, <2>1 DEF Range
  <2>2. ASSUME NEW x \in Range(v) PROVE x \in Range(w)
    BY <1>1, <2>2 DEF Range
  <2>3. r \in Range(w)
    BY <1>1 DEF Range
  <2> QED BY <2>1, <2>2, <2>3
<1> QED BY <1>1, <1>3, <1>4 DEF w

\* What is left of a sequence without the elements of S.
LEMMA WithoutKeeps ==
    ASSUME NEW T, NEW v \in Seq(T), NEW S, NEW w \in Without(v, S), Once(v)
    PROVE  w \in Seq(T) /\ Once(w) /\ Range(w) = Range(v) \ S
<1> DEFINE kept == {i \in DOMAIN v : v[i] \notin S}
           n == Cardinality(kept)
<1>1. DOMAIN v = 1 .. Len(v) /\ Len(v) \in Nat /\ \A i \in DOMAIN v : v[i] \in T
  OBVIOUS
<1>2. IsFiniteSet(kept) /\ n \in Nat
  <2>1. IsFiniteSet(1 .. Len(v))
    BY <1>1, FS_Interval
  <2>2. IsFiniteSet(kept)
    BY <1>1, <2>1, FS_Subset
  <2> QED BY <2>2, FS_CardinalityType
<1>3. PICK at \in [1 .. n -> kept] :
         /\ Range(at) = kept
         /\ \A i, j \in DOMAIN at : i < j => at[i] < at[j]
         /\ w = [i \in DOMAIN at |-> v[at[i]]]
  BY DEF Without
<1>4. /\ DOMAIN w = 1 .. n
      /\ \A i \in 1 .. n : w[i] = v[at[i]] /\ at[i] \in DOMAIN v /\ at[i] \in kept
  BY <1>3
<1>5. w \in Seq(T)
  BY <1>1, <1>2, <1>3, <1>4
<1>6. Once(w)
  <2> SUFFICES ASSUME NEW i \in 1 .. n, NEW j \in 1 .. n, w[i] = w[j], i # j
               PROVE  FALSE
    BY <1>4 DEF Once
  <2>1. v[at[i]] = v[at[j]] /\ at[i] \in DOMAIN v /\ at[j] \in DOMAIN v
    BY <1>4
  <2>2. at[i] = at[j] /\ at[i] \in Nat
    BY <1>1, <2>1 DEF Once
  <2>3. ~(i < j) /\ ~(j < i)
    <3> HIDE DEF kept, n
    <3>1. i < j => at[i] < at[j]
      BY <1>3
    <3>2. j < i => at[j] < at[i]
      BY <1>3
    <3> QED BY <2>2, <3>1, <3>2
  <2> QED
    <3> HIDE DEF n
    <3> QED BY <1>2, <2>3
<1>7. ASSUME NEW x \in Range(w) PROVE x \in Range(v) \ S
  BY <1>4, <1>7 DEF Range
<1>8. ASSUME NEW x \in Range(v) \ S PROVE x \in Range(w)
  <2>1. PICK i \in DOMAIN v : x = v[i]
    BY <1>8 DEF Range
  <2>2. PICK j \in 1 .. n : i = at[j]
    BY <1>3, <1>8, <2>1 DEF Range
  <2> QED BY <1>4, <2>1, <2>2 DEF Range
<1> QED BY <1>5, <1>6, <1>7, <1>8

-----------------------------------------------------------------------------

LoopTyped ==
    /\ kind \in [Regs -> Kinds]
    /\ id \in [Regs -> 0 .. IdLimit]
    /\ given \in [Regs -> 0 .. (IdLimit - 1)]
    /\ life \in [Regs -> {"none", "active", "freed"}]
    /\ vector \in [Kinds -> Seq(Regs)]
    /\ next_id \in [Kinds -> 0 .. IdLimit]
    /\ current \in Regs \cup {NoReg}
    /\ running \in BOOLEAN /\ crashed \in BOOLEAN /\ quit \in BOOLEAN
    /\ asked \subseteq Regs /\ called \subseteq Regs

\* A vector holds the active structures of its kind, once each.
Kept == \A k \in Kinds :
            /\ Once(vector[k])
            /\ Range(vector[k]) = {r \in Regs : life[r] = "active" /\ kind[r] = k}

\* An active structure is found by the id that was given out for it, unless it
\* is an idle one.
Numbers == \A r \in Regs : life[r] = "active" /\ kind[r] # "idle" => id[r] = given[r]

AskedEnded == \A r \in asked : /\ life[r] # "none"
                               /\ kind[r] # "idle" => life[r] # "active"

LoopInv == LoopTyped /\ Kept /\ Numbers /\ AskedEnded

LEMMA LoopInitial == Init => LoopInv
<1> SUFFICES ASSUME Init PROVE LoopInv
  OBVIOUS
<1> USE TizenRtAssumption DEF Init
<1>1. LoopTyped
  <2>1. <<>> \in Seq(Regs)
    OBVIOUS
  <2>2. vector \in [Kinds -> Seq(Regs)]
    BY <2>1
  <2>3. 0 \in 0 .. IdLimit /\ 0 \in 0 .. (IdLimit - 1)
    OBVIOUS
  <2>4. /\ id \in [Regs -> 0 .. IdLimit]
        /\ given \in [Regs -> 0 .. (IdLimit - 1)]
        /\ next_id \in [Kinds -> 0 .. IdLimit]
    BY <2>3
  <2> QED BY <2>2, <2>4 DEF LoopTyped
<1>2. Kept
  BY DEF Kept, Once, Range
<1> QED BY <1>1, <1>2 DEF LoopInv, Numbers, AskedEnded

\* Cleaning a vector of the structures of hit, whose handles end.
LEMMA HitsLeave ==
    ASSUME LoopInv, NEW k \in Kinds, NEW hit \in SUBSET Range(vector[k]),
           NEW w \in Without(vector[k], hit),
           vector' = [vector EXCEPT ![k] = w],
           life' = [r \in Regs |-> IF r \in hit THEN "freed" ELSE life[r]],
           UNCHANGED kind
    PROVE  Kept' /\ vector' \in [Kinds -> Seq(Regs)]
<1>1. /\ vector \in [Kinds -> Seq(Regs)] /\ vector[k] \in Seq(Regs)
      /\ Once(vector[k])
      /\ Range(vector[k]) = {r \in Regs : life[r] = "active" /\ kind[r] = k}
  BY DEF LoopInv, LoopTyped, Kept
<1>2. w \in Seq(Regs) /\ Once(w) /\ Range(w) = Range(vector[k]) \ hit
  BY <1>1, WithoutKeeps
<1>3. \A r \in Regs : life'[r] = IF r \in hit THEN "freed" ELSE life[r]
  OBVIOUS
<1>4. ASSUME NEW j \in Kinds
      PROVE  /\ Once(vector'[j])
             /\ Range(vector'[j]) = {r \in Regs : life'[r] = "active" /\ kind'[r] = j}
  <2>1. CASE j = k
    <3>1. vector'[j] = w
      BY <1>1, <2>1
    <3>2. Range(w) = {r \in Regs : life'[r] = "active" /\ kind'[r] = k}
      BY <1>1, <1>2, <1>3
    <3> QED BY <1>2, <2>1, <3>1, <3>2
  <2>2. CASE j # k
    <3>1. vector'[j] = vector[j]
      BY <1>1, <2>2
    <3>2. \A r \in hit : kind[r] = k
      BY <1>1
    <3>3. /\ Once(vector[j])
          /\ Range(vector[j]) = {r \in Regs : life[r] = "active" /\ kind[r] = j}
      BY DEF LoopInv, Kept
    <3> QED BY <1>3, <2>2, <3>1, <3>2, <3>3
  <2> QED BY <2>1, <2>2
<1>5. vector' \in [Kinds -> Seq(Regs)]
  BY <1>1, <1>2
<1> QED BY <1>4, <1>5 DEF Kept

\* os_add_*_callback: the new structure goes to the end of its vector.
LEMMA StartKeeps ==
    ASSUME LoopInv, NEW r \in Regs, Start(r), id' \in [Regs -> 0 .. IdLimit],
           \A x \in Regs : x # r => id'[x] = id[x],
           kind[r] # "idle" => id'[r] = given'[r]
    PROVE  LoopInv'
<1> DEFINE k == kind[r]
           n == Wrapped(next_id[k])
<1>0. /\ kind \in [Regs -> Kinds] /\ k \in Kinds
      /\ next_id \in [Kinds -> 0 .. IdLimit]
      /\ vector \in [Kinds -> Seq(Regs)] /\ vector[k] \in Seq(Regs)
      /\ life \in [Regs -> {"none", "active", "freed"}]
      /\ given \in [Regs -> 0 .. (IdLimit - 1)]
      /\ Once(vector[k])
      /\ \A j \in Kinds : /\ Once(vector[j])
                          /\ Range(vector[j]) = {x \in Regs : life[x] = "active" /\ kind[x] = j}
  BY DEF LoopInv, LoopTyped, Kept
<1>1. n \in 0 .. (IdLimit - 1)
  BY <1>0, TizenRtAssumption DEF Wrapped
<1>2. /\ life[r] = "none"
      /\ life' = [life EXCEPT ![r] = "active"]
      /\ vector' = [vector EXCEPT ![k] = Append(@, r)]
      /\ next_id' = [next_id EXCEPT ![k] = n + 1]
      /\ given' = [given EXCEPT ![r] = n]
      /\ UNCHANGED <<kind, current, running, crashed, asked, called, quit>>
  BY DEF Start
<1>3. r \notin Range(vector[k])
  BY <1>0, <1>2
<1>4. /\ Append(vector[k], r) \in Seq(Regs)
      /\ Once(Append(vector[k], r))
      /\ Range(Append(vector[k], r)) = Range(vector[k]) \cup {r}
  BY <1>0, <1>3, AppendOnce
<1>5. /\ \A x \in Regs : life'[x] = IF x = r THEN "active" ELSE life[x]
      /\ \A j \in Kinds : vector'[j] = IF j = k THEN Append(vector[k], r) ELSE vector[j]
      /\ \A x \in Regs : given'[x] = IF x = r THEN n ELSE given[x]
      /\ kind' = kind /\ asked' = asked
  BY <1>0, <1>2
<1> HIDE DEF n
<1>6. LoopTyped'
  <2>1. vector' \in [Kinds -> Seq(Regs)]
    BY <1>0, <1>2, <1>4
  <2>2. next_id' \in [Kinds -> 0 .. IdLimit]
    BY <1>0, <1>1, <1>2, TizenRtAssumption
  <2>3. given' \in [Regs -> 0 .. (IdLimit - 1)]
    BY <1>0, <1>1, <1>2
  <2>4. life' \in [Regs -> {"none", "active", "freed"}]
    BY <1>0, <1>2
  <2> QED BY <1>2, <2>1, <2>2, <2>3, <2>4 DEF LoopInv, LoopTyped
<1>7. Kept'
  <2> SUFFICES ASSUME NEW j \in Kinds
               PROVE  /\ Once(vector'[j])
                      /\ Range(vector'[j]) = {x \in Regs : life'[x] = "active" /\ kind'[x] = j}
    BY DEF Kept
  <2>1. CASE j = k
    <3>1. {x \in Regs : life'[x] = "active" /\ kind'[x] = k}
             = {x \in Regs : life[x] = "active" /\ kind[x] = k} \cup {r}
      BY <1>5
    <3> QED BY <1>0, <1>4, <1>5, <2>1, <3>1
  <2>2. CASE j # k
    <3>1. {x \in Regs : life'[x] = "active" /\ kind'[x] = j}
             = {x \in Regs : life[x] = "active" /\ kind[x] = j}
      BY <1>5, <2>2
    <3> QED BY <1>0, <1>5, <2>2, <3>1
  <2> QED BY <2>1, <2>2
<1>8. Numbers'
  BY <1>5 DEF LoopInv, Numbers
<1>9. AskedEnded'
  BY <1>2, <1>5 DEF LoopInv, LoopTyped, AskedEnded
<1> QED BY <1>6, <1>7, <1>8, <1>9 DEF LoopInv

\* os_remove_*_callback: every structure with the id leaves.
LEMMA RemoveKeeps ==
    ASSUME LoopInv, NEW r \in Regs, RemoveId(r)
    PROVE  LoopInv'
<1> DEFINE k == kind[r]
           hit == Matching(k, given[r], id)
<1>0. /\ kind \in [Regs -> Kinds] /\ k \in Kinds
      /\ vector \in [Kinds -> Seq(Regs)]
      /\ Range(vector[k]) = {x \in Regs : life[x] = "active" /\ kind[x] = k}
      /\ asked \subseteq Regs
  BY DEF LoopInv, LoopTyped, Kept
<1>1. /\ asked' = asked \cup {r}
      /\ life[r] # "none"
      /\ life' = [x \in Regs |-> IF x \in hit THEN "freed" ELSE life[x]]
      /\ id' = [x \in Regs |-> IF x \in hit THEN 0 ELSE id[x]]
      /\ UNCHANGED <<kind, given, next_id, current, running, crashed, called, quit>>
  BY DEF RemoveId, Cleanup
<1>2. PICK w \in Without(vector[k], hit) : vector' = [vector EXCEPT ![k] = w]
  BY DEF RemoveId, Cleanup
<1>3. hit \in SUBSET Range(vector[k]) /\ \A x \in hit : id[x] = given[r]
  BY DEF Matching
<1>4. r \in hit \/ kind[r] = "idle" \/ life[r] # "active"
  BY <1>0 DEF LoopInv, Numbers, Matching
<1> HIDE DEF k, hit
<1>5. Kept' /\ vector' \in [Kinds -> Seq(Regs)]
  BY <1>0, <1>1, <1>2, <1>3, HitsLeave
<1>6. /\ \A x \in Regs : life'[x] = IF x \in hit THEN "freed" ELSE life[x]
      /\ \A x \in Regs : id'[x] = IF x \in hit THEN 0 ELSE id[x]
  BY <1>1
<1>7. LoopTyped'
  <2>1. id' \in [Regs -> 0 .. IdLimit]
    BY <1>1, TizenRtAssumption DEF LoopInv, LoopTyped
  <2>2. life' \in [Regs -> {"none", "active", "freed"}]
    BY <1>1 DEF LoopInv, LoopTyped
  <2> QED BY <1>0, <1>1, <1>5, <2>1, <2>2 DEF LoopInv, LoopTyped
<1>8. Numbers'
  BY <1>1, <1>6 DEF LoopInv, Numbers
<1>9. AskedEnded'
  BY <1>0, <1>1, <1>4, <1>6 DEF LoopInv, AskedEnded
<1> QED BY <1>5, <1>7, <1>8, <1>9 DEF LoopInv

\* A callback is done: its structure goes, and with it every one of its kind
\* whose id is 0.
LEMMA DoneKeeps ==
    ASSUME LoopInv, NEW r \in Regs, Done(r), current' = NoReg,
           UNCHANGED <<kind, given, next_id, running, asked, called, quit>>
    PROVE  LoopInv'
<1>1. CASE life[r] = "freed" /\ crashed' = TRUE /\ UNCHANGED <<id, life, vector>>
  BY <1>1 DEF LoopInv, LoopTyped, Kept, Numbers, AskedEnded
<1>2. CASE /\ life[r] = "active"
           /\ Cleanup(kind[r], 0, [id EXCEPT ![r] = 0], [life EXCEPT ![r] = "freed"])
           /\ UNCHANGED crashed
  <2> DEFINE k == kind[r]
             hit == Matching(k, 0, [id EXCEPT ![r] = 0])
  <2>0. /\ kind \in [Regs -> Kinds] /\ k \in Kinds
        /\ vector \in [Kinds -> Seq(Regs)]
        /\ life \in [Regs -> {"none", "active", "freed"}]
        /\ id \in [Regs -> 0 .. IdLimit]
        /\ Range(vector[k]) = {x \in Regs : life[x] = "active" /\ kind[x] = k}
        /\ asked \subseteq Regs
    BY DEF LoopInv, LoopTyped, Kept
  <2>1. hit \in SUBSET Range(vector[k]) /\ r \in hit
    BY <1>2, <2>0 DEF Matching
  <2>2. PICK w \in Without(vector[k], hit) : vector' = [vector EXCEPT ![k] = w]
    BY <1>2 DEF Cleanup
  <2>3. /\ life' = [x \in Regs |-> IF x \in hit THEN "freed"
                                   ELSE [life EXCEPT ![r] = "freed"][x]]
        /\ id' = [x \in Regs |-> IF x \in hit THEN 0 ELSE [id EXCEPT ![r] = 0][x]]
    BY <1>2 DEF Cleanup
  <2> HIDE DEF k, hit
  <2>4. /\ life' = [x \in Regs |-> IF x \in hit THEN "freed" ELSE life[x]]
        /\ id' = [x \in Regs |-> IF x \in hit THEN 0 ELSE id[x]]
    <3>1. \A x \in Regs : x \notin hit => /\ [life EXCEPT ![r] = "freed"][x] = life[x]
                                          /\ [id EXCEPT ![r] = 0][x] = id[x]
      BY <2>0, <2>1
    <3> QED BY <2>3, <3>1
  <2>5. Kept' /\ vector' \in [Kinds -> Seq(Regs)]
    BY <2>0, <2>1, <2>2, <2>4, HitsLeave
  <2>6. /\ \A x \in Regs : life'[x] = IF x \in hit THEN "freed" ELSE life[x]
        /\ \A x \in Regs : id'[x] = IF x \in hit THEN 0 ELSE id[x]
    BY <2>4
  <2>7. LoopTyped'
    <3>1. id' \in [Regs -> 0 .. IdLimit]
      BY <2>0, <2>4, TizenRtAssumption
    <3>2. life' \in [Regs -> {"none", "active", "freed"}]
      BY <2>0, <2>4
    <3> QED BY <1>2, <2>5, <3>1, <3>2 DEF LoopInv, LoopTyped
  <2>8. Numbers'
    BY <2>6 DEF LoopInv, Numbers
  <2>9. AskedEnded'
    BY <2>0, <2>6 DEF LoopInv, AskedEnded
  <2> QED BY <2>5, <2>7, <2>8, <2>9 DEF LoopInv
<1> QED BY <1>1, <1>2 DEF Done

LEMMA LoopInductive == LoopInv /\ [Next]_vars => LoopInv'
<1> SUFFICES ASSUME LoopInv, [Next]_vars PROVE LoopInv'
  OBVIOUS
<1>0. id \in [Regs -> 0 .. IdLimit] /\ given \in [Regs -> 0 .. (IdLimit - 1)]
  BY DEF LoopInv, LoopTyped
<1>1. ASSUME NEW r \in Regs, AddTimeout(r) \/ AddPeriodic(r) \/ AddWatch(r)
      PROVE  LoopInv'
  <2>1. Start(r) /\ id' = [id EXCEPT ![r] = given'[r]]
    BY <1>1 DEF AddTimeout, AddPeriodic, AddWatch, Numbered
  <2>2. given'[r] \in 0 .. IdLimit
    <3>1. given'[r] = Wrapped(next_id[kind[r]])
      BY <1>0, <2>1 DEF Start
    <3>2. next_id[kind[r]] \in 0 .. IdLimit
      BY DEF LoopInv, LoopTyped
    <3> QED BY <3>1, <3>2, TizenRtAssumption DEF Wrapped
  <2> QED BY <1>0, <2>1, <2>2, StartKeeps
<1>2. ASSUME NEW r \in Regs, AddIdle(r) PROVE LoopInv'
  <2>1. /\ Start(r) /\ kind[r] = "idle"
        /\ \E g \in 0 .. IdLimit : id' = [id EXCEPT ![r] = g]
    BY <1>2 DEF AddIdle, Garbage
  <2> QED BY <1>0, <2>1, StartKeeps
<1>3. ASSUME NEW r \in Regs,
             RemoveTimeout(r) \/ RemovePeriodic(r) \/ RemoveWatch(r) \/ RemoveIdle(r)
      PROVE  LoopInv'
  BY <1>3, RemoveKeeps DEF RemoveTimeout, RemovePeriodic, RemoveWatch, RemoveIdle
<1>4. ASSUME NEW r \in Regs, Call(r) PROVE LoopInv'
  BY <1>4 DEF Call, LoopInv, LoopTyped, Kept, Numbers, AskedEnded
<1>5. CASE Run
  BY <1>5 DEF Run, LoopInv, LoopTyped, Kept, Numbers, AskedEnded
<1>6. CASE Quit
  BY <1>6 DEF Quit, LoopInv, LoopTyped, Kept, Numbers, AskedEnded
<1>7. CASE RunReturns
  BY <1>7 DEF RunReturns, LoopInv, LoopTyped, Kept, Numbers, AskedEnded
<1>8. CASE Return
  <2>1. /\ current \in Regs /\ current' = NoReg
        /\ UNCHANGED <<kind, given, next_id, running, asked, called, quit>>
    BY <1>8 DEF Return, LoopInv, LoopTyped
  <2>2. CASE Again
    BY <2>1, <2>2 DEF Again, LoopInv, LoopTyped, Kept, Numbers, AskedEnded
  <2>3. CASE Done(current)
    BY <2>1, <2>3, DoneKeeps
  <2> QED BY <1>8, <2>2, <2>3
          DEF Return, TimeoutReturns, PeriodicReturns, WatchReturns, IdleReturns
<1>9. CASE UNCHANGED vars
  BY <1>9 DEF vars, LoopInv, LoopTyped, Kept, Numbers, AskedEnded
<1> QED BY <1>1, <1>2, <1>3, <1>4, <1>5, <1>6, <1>7, <1>8, <1>9 DEF Next

LEMMA LoopInvariant == Spec => []LoopInv
BY LoopInitial, LoopInductive, PTL DEF Spec

\* Whatever is registered, removed and called (tizenrt_loop.c, _vector_del and
\* the four cleanup functions): a vector holds the active structures of its
\* kind, once each, and what was removed is not active (idle ones excepted).
THEOREM VectorsHold == Spec => []VectorsHoldActive
<1>1. LoopInv => VectorsHoldActive
  <2> SUFFICES ASSUME LoopInv PROVE VectorsHoldActive
    OBVIOUS
  <2>1. ASSUME NEW k \in Kinds
        PROVE  /\ Range(vector[k]) = {r \in Active : kind[r] = k}
               /\ Range(vector[k]) \subseteq Regs
               /\ Len(vector[k]) = Cardinality(Range(vector[k]))
    <3>1. vector[k] \in Seq(Regs) /\ Once(vector[k])
      BY DEF LoopInv, LoopTyped, Kept
    <3>2. Len(vector[k]) = Cardinality(Range(vector[k]))
      BY <3>1, LengthOfOnce
    <3> QED BY <3>2 DEF LoopInv, Kept, Active
  <2>2. TypeOK
    BY <2>1 DEF LoopInv, LoopTyped, TypeOK
  <2> QED BY <2>1, <2>2 DEF LoopInv, AskedEnded, Active, VectorsHoldActive
<1> QED BY <1>1, LoopInvariant, PTL

\* A registration with an id other than 0 ends in its own callback or because
\* the application gave that id back (_timeout_callback and the others,
\* os_remove_*_callback), also when ids have wrapped.
THEOREM NoneEndsAnother == Spec => EndsByItself
<1>1. LoopInv /\ [Next]_vars
        => [\A r \in Regs : Ends(r) /\ id[r] # 0
               => \/ current = r
                  \/ \E s \in asked' \ asked : given[s] = id[r]]_vars
  <2> SUFFICES ASSUME LoopInv, Next, NEW r \in Regs,
                      life[r] = "active", life'[r] # "active", id[r] # 0, current # r
               PROVE  \E s \in asked' \ asked : given[s] = id[r]
    BY DEF Ends, Active
  <2>0. /\ id \in [Regs -> 0 .. IdLimit]
        /\ life \in [Regs -> {"none", "active", "freed"}]
    BY DEF LoopInv, LoopTyped
  <2>1. ASSUME NEW s \in Regs, Start(s) PROVE FALSE
    BY <2>0, <2>1 DEF Start
  <2>2. ASSUME NEW s \in Regs, RemoveId(s)
        PROVE  s \in asked' \ asked /\ given[s] = id[r]
    <3>1. /\ s \notin asked /\ asked' = asked \cup {s}
          /\ life' = [x \in Regs |-> IF x \in Matching(kind[s], given[s], id)
                                     THEN "freed" ELSE life[x]]
      BY <2>2 DEF RemoveId, Cleanup
    <3>2. r \in Matching(kind[s], given[s], id)
      BY <3>1
    <3> QED BY <3>1, <3>2 DEF Matching
  <2>3. ASSUME current \in Regs, Done(current) PROVE FALSE
    <3>1. life' = [x \in Regs |->
                     IF x \in Matching(kind[current], 0, [id EXCEPT ![current] = 0])
                     THEN "freed" ELSE [life EXCEPT ![current] = "freed"][x]]
      BY <2>3 DEF Done, Cleanup
    <3>2. r \notin Matching(kind[current], 0, [id EXCEPT ![current] = 0])
      BY <2>0 DEF Matching
    <3> QED BY <2>0, <3>1, <3>2
  <2>4. ASSUME UNCHANGED life PROVE FALSE
    BY <2>4
  <2>5. Return => current \in Regs
    BY DEF Return, LoopInv, LoopTyped
  <2>6. CASE \E s \in Regs : \/ AddTimeout(s) \/ AddPeriodic(s) \/ AddWatch(s) \/ AddIdle(s)
    BY <2>1, <2>6 DEF AddTimeout, AddPeriodic, AddWatch, AddIdle
  <2>7. CASE \E s \in Regs : \/ RemoveTimeout(s) \/ RemovePeriodic(s)
                             \/ RemoveWatch(s) \/ RemoveIdle(s)
    BY <2>2, <2>7 DEF RemoveTimeout, RemovePeriodic, RemoveWatch, RemoveIdle
  <2>8. CASE (\E s \in Regs : Call(s)) \/ Run \/ Quit \/ RunReturns
    BY <2>4, <2>8 DEF Call, Run, Quit, RunReturns
  <2>9. CASE Return
    BY <2>3, <2>4, <2>5, <2>9 DEF Return, Again, TimeoutReturns, PeriodicReturns,
                                  WatchReturns, IdleReturns
  <2> QED BY <2>6, <2>7, <2>8, <2>9 DEF Next
<1> QED BY <1>1, LoopInvariant, PTL DEF Spec, EndsByItself

-----------------------------------------------------------------------------
(* CoapQueue.                                                              *)

-----------------------------------------------------------------------------
(* Functions that are defined by recursion on 1 .. M.                      *)

\* A function with a given start and a law for every step exists.
LEMMA RecursionExists ==
    ASSUME NEW M \in Nat, NEW a \in Nat, NEW step \in [1 .. M -> [Nat -> Nat]]
    PROVE  \E f \in [0 .. M -> Nat] : f[0] = a /\ \A k \in 1 .. M : f[k] = step[k][f[k - 1]]
<1> DEFINE P(m) == \E f \in [0 .. m -> Nat] :
                      f[0] = a /\ \A k \in 1 .. m : f[k] = step[k][f[k - 1]]
           bad == {m \in 0 .. M : ~P(m)}
<1>1. P(0)
  <2> DEFINE f == [k \in 0 .. 0 |-> a]
  <2>1. f \in [0 .. 0 -> Nat] /\ f[0] = a /\ 1 .. 0 = {}
    OBVIOUS
  <2> QED BY <2>1
<1>2. ASSUME NEW m \in 1 .. M, P(m - 1) PROVE P(m)
  <2>1. PICK f \in [0 .. m - 1 -> Nat] :
           f[0] = a /\ \A k \in 1 .. m - 1 : f[k] = step[k][f[k - 1]]
    BY <1>2
  <2> DEFINE v == step[m][f[m - 1]]
             g == [k \in 0 .. m |-> IF k = m THEN v ELSE f[k]]
  <2>2. v \in Nat
    <3>1. m - 1 \in 0 .. m - 1
      OBVIOUS
    <3>2. f[m - 1] \in Nat
      BY <3>1
    <3>3. step[m] \in [Nat -> Nat]
      OBVIOUS
    <3> QED BY <3>2, <3>3
  <2>3. g \in [0 .. m -> Nat]
    <3>1. ASSUME NEW k \in 0 .. m, k # m PROVE f[k] \in Nat
      <4>1. k \in 0 .. m - 1
        BY <3>1
      <4> QED BY <4>1
    <3> HIDE DEF v
    <3> QED BY <2>2, <3>1
  <2>4. g[0] = a
    BY <2>1
  <2>5. ASSUME NEW k \in 1 .. m PROVE g[k] = step[k][g[k - 1]]
    <3>1. k - 1 \in 0 .. m /\ k - 1 # m /\ g[k - 1] = f[k - 1]
      OBVIOUS
    <3>2. CASE k = m
      BY <3>1, <3>2
    <3>3. CASE k # m
      <4>1. k \in 1 .. m - 1 /\ g[k] = f[k]
        BY <3>3
      <4> QED BY <2>1, <3>1, <4>1
    <3> QED BY <3>2, <3>3
  <2> HIDE DEF g
  <2> QED BY <2>3, <2>4, <2>5
<1> HIDE DEF P
<1>3. bad = {}
  <2> SUFFICES ASSUME bad # {} PROVE FALSE
    OBVIOUS
  <2>1. bad \in SUBSET Nat
    OBVIOUS
  <2>2. PICK m \in bad : \A k \in bad : m <= k
    <3> HIDE DEF bad
    <3> QED BY <2>1, LeastNatural
  <2>3. m # 0
    BY <1>1
  <2>4. m - 1 \in 0 .. M /\ m - 1 \notin bad
    BY <2>2, <2>3
  <2>5. P(m - 1)
    BY <2>4
  <2> QED BY <1>2, <2>3, <2>5
<1>4. P(M)
  <2>1. M \in 0 .. M
    OBVIOUS
  <2>2. ~~P(M)
    BY <1>3, <2>1, Zenon
  <2> QED BY <2>2 DEF P
<1> QED BY <1>4 DEF P

\* A function that climbs faster from a higher start stays above.
LEMMA Climb ==
    ASSUME NEW M \in Nat, NEW f \in [0 .. M -> Int], NEW g \in [0 .. M -> Int],
           f[0] <= g[0],
           \A k \in 1 .. M : f[k] - f[k - 1] <= g[k] - g[k - 1]
    PROVE  \A k \in 0 .. M : f[k] <= g[k]
<1> DEFINE bad == {k \in 0 .. M : ~(f[k] <= g[k])}
<1> SUFFICES ASSUME bad # {} PROVE FALSE
  OBVIOUS
<1>1. bad \in SUBSET Nat
  OBVIOUS
<1>2. PICK m \in bad : \A k \in bad : m <= k
  <2> HIDE DEF bad
  <2> QED BY <1>1, LeastNatural
<1>3. m \in 1 .. M /\ m - 1 \in 0 .. M /\ m - 1 \notin bad
  BY <1>2
<1>4. f[m - 1] <= g[m - 1] /\ f[m] - f[m - 1] <= g[m] - g[m - 1]
  <2>1. f[m - 1] <= g[m - 1]
    BY <1>3
  <2>2. f[m] - f[m - 1] <= g[m] - g[m - 1]
    <3> HIDE DEF bad
    <3> QED BY <1>3
  <2> QED BY <2>1, <2>2
<1>5. f[m] \in Int /\ g[m] \in Int /\ f[m - 1] \in Int /\ g[m - 1] \in Int
  <2> HIDE DEF bad
  <2>1. m \in 0 .. M
    BY <1>3
  <2> QED BY <1>3, <2>1
<1>6. ~(f[m] <= g[m])
  BY <1>2
<1> HIDE DEF bad
<1> QED BY <1>4, <1>5, <1>6

LEMMA Rises ==
    ASSUME NEW M \in Nat, NEW f \in [0 .. M -> Int],
           \A k \in 1 .. M : f[k - 1] <= f[k]
    PROVE  \A j, k \in 0 .. M : j <= k => f[j] <= f[k]
<1> SUFFICES ASSUME NEW j \in 0 .. M, NEW l \in 0 .. M, j <= l PROVE f[j] <= f[l]
  OBVIOUS
<1> SUFFICES ASSUME ~(f[j] <= f[l]) PROVE FALSE
  OBVIOUS
<1> DEFINE bad == {k \in 0 .. M : j <= k /\ ~(f[j] <= f[k])}
<1>1. bad \in SUBSET Nat /\ bad # {}
  <2>1. l \in bad
    OBVIOUS
  <2>2. bad \in SUBSET Nat
    OBVIOUS
  <2> QED BY <2>1, <2>2
<1>2. PICK m \in bad : \A k \in bad : m <= k
  <2> HIDE DEF bad
  <2> QED BY <1>1, LeastNatural
<1>3. m # j
  BY <1>2
<1>4. m \in 1 .. M /\ m - 1 \in 0 .. M /\ j <= m - 1 /\ m - 1 \notin bad
  BY <1>2, <1>3
<1>5. f[j] <= f[m - 1] /\ f[m - 1] <= f[m]
  BY <1>4
<1>6. f[m] \in Int /\ f[j] \in Int /\ f[m - 1] \in Int
  BY <1>4
<1> QED BY <1>2, <1>5, <1>6

-----------------------------------------------------------------------------
(* The times of the list.                                                  *)

\* What the definition by recursion says: a prefix adds its last node.
LEMMA OffsetLaw ==
    ASSUME NEW q \in Seq(QNodes)
    PROVE  /\ Offset(q, 0) = 0
           /\ \A k \in 1 .. Len(q) : Offset(q, k) = Offset(q, k - 1) + q[k].t
           /\ \A k \in 0 .. Len(q) : Offset(q, k) \in Nat
           /\ \A k \in 1 .. Len(q) : q[k].t \in Nat
<1>1. Len(q) \in Nat /\ \A k \in 1 .. Len(q) : q[k].t \in Nat
  <2>1. \A k \in 1 .. Len(q) : q[k] \in QNodes
    OBVIOUS
  <2> QED BY <2>1 DEF QNodes
<1> DEFINE step == [k \in 1 .. Len(q) |-> [x \in Nat |-> x + q[k].t]]
           Sums(h) == h = [k \in 0 .. Len(q) |-> IF k = 0 THEN 0 ELSE h[k - 1] + q[k].t]
<1>2. step \in [1 .. Len(q) -> [Nat -> Nat]]
  BY <1>1
<1>3. PICK f \in [0 .. Len(q) -> Nat] :
         f[0] = 0 /\ \A k \in 1 .. Len(q) : f[k] = step[k][f[k - 1]]
  <2> HIDE DEF step
  <2> QED BY <1>1, <1>2, RecursionExists
<1>4. ASSUME NEW k \in 1 .. Len(q) PROVE f[k - 1] \in Nat /\ f[k] = f[k - 1] + q[k].t
  <2>1. f[k - 1] \in Nat
    <3>1. k - 1 \in 0 .. Len(q)
      BY <1>1
    <3> QED BY <3>1
  <2>2. step[k][f[k - 1]] = f[k - 1] + q[k].t
    BY <2>1
  <2> HIDE DEF step
  <2> QED BY <1>3, <2>1, <2>2
<1>5. Sums(f)
  <2>1. \A k \in 0 .. Len(q) : f[k] = IF k = 0 THEN 0 ELSE f[k - 1] + q[k].t
    BY <1>1, <1>3, <1>4
  <2> QED BY <2>1
<1> DEFINE h == CHOOSE h : Sums(h)
<1>6. Sums(h)
  BY <1>5
<1>7. \A i : Offset(q, i) = h[i]
  BY DEF Offset
<1> HIDE DEF h
<1>8. h[0] = 0 /\ \A k \in 1 .. Len(q) : h[k] = h[k - 1] + q[k].t
  BY <1>1, <1>6
<1>9. ASSUME NEW k \in 0 .. Len(q) PROVE h[k] = f[k]
  <2> DEFINE bad == {i \in 0 .. Len(q) : h[i] # f[i]}
  <2> SUFFICES ASSUME bad # {} PROVE FALSE
    OBVIOUS
  <2>1. bad \in SUBSET Nat
    OBVIOUS
  <2>2. PICK m \in bad : \A i \in bad : m <= i
    <3> HIDE DEF bad
    <3> QED BY <2>1, LeastNatural
  <2>3. m \in 1 .. Len(q) /\ m - 1 \in 0 .. Len(q) /\ m - 1 \notin bad
    BY <1>1, <1>3, <1>8, <2>2
  <2> QED BY <1>4, <1>8, <2>2, <2>3
<1>10. /\ Offset(q, 0) = 0
       /\ \A k \in 1 .. Len(q) : Offset(q, k) = Offset(q, k - 1) + q[k].t
  BY <1>7, <1>8
<1>11. \A k \in 0 .. Len(q) : Offset(q, k) \in Nat
  BY <1>3, <1>7, <1>9
<1> QED BY <1>1, <1>10, <1>11

\* What grows like the offsets is the offset.
LEMMA OffsetUnique ==
    ASSUME NEW q \in Seq(QNodes), NEW F \in [0 .. Len(q) -> Int], F[0] = 0,
           \A k \in 1 .. Len(q) : F[k] = F[k - 1] + q[k].t
    PROVE  \A k \in 0 .. Len(q) : Offset(q, k) = F[k]
<1> DEFINE f == [k \in 0 .. Len(q) |-> Offset(q, k)]
<1>1. Len(q) \in Nat
  OBVIOUS
<1>2. f \in [0 .. Len(q) -> Int] /\ \A k \in 0 .. Len(q) : f[k] = Offset(q, k)
  <2>1. \A k \in 0 .. Len(q) : Offset(q, k) \in Int
    BY OffsetLaw
  <2> QED BY <2>1
<1>3. f[0] = 0 /\ \A k \in 1 .. Len(q) : f[k] = f[k - 1] + q[k].t /\ q[k].t \in Nat
  BY <1>1, OffsetLaw
<1> HIDE DEF f
<1>6. ASSUME NEW k \in 1 .. Len(q)
      PROVE  /\ f[k] - f[k - 1] <= F[k] - F[k - 1]
             /\ F[k] - F[k - 1] <= f[k] - f[k - 1]
  <2>1. k \in 0 .. Len(q) /\ k - 1 \in 0 .. Len(q)
    BY <1>1
  <2>2. f[k] \in Int /\ f[k - 1] \in Int /\ F[k] \in Int /\ F[k - 1] \in Int
    BY <1>2, <2>1
  <2>3. f[k] = f[k - 1] + q[k].t /\ F[k] = F[k - 1] + q[k].t /\ q[k].t \in Nat
    BY <1>3
  <2> QED BY <2>2, <2>3
<1>7. f[0] <= F[0] /\ F[0] <= f[0]
  BY <1>3
<1>8. \A k \in 0 .. Len(q) : f[k] <= F[k]
  BY <1>1, <1>2, <1>6, <1>7, Climb
<1>9. \A k \in 0 .. Len(q) : F[k] <= f[k]
  BY <1>1, <1>2, <1>6, <1>7, Climb
<1> QED BY <1>2, <1>8, <1>9

LEMMA OffsetRises ==
    ASSUME NEW q \in Seq(QNodes)
    PROVE  \A j, k \in 0 .. Len(q) : j <= k => Offset(q, j) <= Offset(q, k)
<1> DEFINE f == [k \in 0 .. Len(q) |-> Offset(q, k)]
<1>1. Len(q) \in Nat
  OBVIOUS
<1>2. f \in [0 .. Len(q) -> Int] /\ \A k \in 0 .. Len(q) : f[k] = Offset(q, k)
  <2>1. \A k \in 0 .. Len(q) : Offset(q, k) \in Int
    BY OffsetLaw
  <2> QED BY <2>1
<1>3. ASSUME NEW k \in 1 .. Len(q) PROVE f[k - 1] <= f[k]
  <2>1. k \in 0 .. Len(q) /\ k - 1 \in 0 .. Len(q)
    BY <1>1
  <2>2. f[k] = f[k - 1] + q[k].t /\ q[k].t \in Nat
    BY <2>1, OffsetLaw
  <2>3. f[k] \in Int /\ f[k - 1] \in Int
    BY <1>2, <2>1
  <2> HIDE DEF f
  <2> QED BY <2>2, <2>3
<1> HIDE DEF f
<1>4. \A j, k \in 0 .. Len(q) : j <= k => f[j] <= f[k]
  BY <1>1, <1>2, <1>3, Rises
<1> QED BY <1>2, <1>4

\* The factors exist and are numbers.
LEMMA BackoffType == \A c \in 0 .. MaxRetransmit : Backoff[c] \in Nat
<1> DEFINE step == [k \in 1 .. MaxRetransmit |-> [x \in Nat |-> 2 * x]]
           Doubles(h) == h = [c \in 0 .. MaxRetransmit |-> IF c = 0 THEN 1 ELSE 2 * h[c - 1]]
<1>1. MaxRetransmit \in Nat
  BY QueueAssumption
<1>2. step \in [1 .. MaxRetransmit -> [Nat -> Nat]]
  OBVIOUS
<1>3. PICK f \in [0 .. MaxRetransmit -> Nat] :
         f[0] = 1 /\ \A k \in 1 .. MaxRetransmit : f[k] = step[k][f[k - 1]]
  <2> HIDE DEF step
  <2>1. 1 \in Nat
    OBVIOUS
  <2> QED BY <1>1, <1>2, <2>1, RecursionExists
<1>4. Doubles(f)
  <2>1. ASSUME NEW c \in 1 .. MaxRetransmit PROVE f[c] = 2 * f[c - 1]
    <3>1. c - 1 \in 0 .. MaxRetransmit
      BY <1>1
    <3>2. f[c - 1] \in Nat
      BY <3>1
    <3>3. step[c][f[c - 1]] = 2 * f[c - 1]
      BY <3>2
    <3> HIDE DEF step
    <3> QED BY <1>3, <3>3
  <2>2. \A c \in 0 .. MaxRetransmit : f[c] = IF c = 0 THEN 1 ELSE 2 * f[c - 1]
    BY <1>1, <1>3, <2>1
  <2> QED BY <2>2
<1>5. Backoff = CHOOSE h : Doubles(h)
  BY DEF Backoff
<1>6. Doubles(Backoff)
  BY <1>4, <1>5
<1> DEFINE bad == {c \in 0 .. MaxRetransmit : Backoff[c] \notin Nat}
<1>7. SUFFICES ASSUME bad # {} PROVE FALSE
  OBVIOUS
<1>8. bad \in SUBSET Nat
  BY <1>1
<1>9. PICK m \in bad : \A i \in bad : m <= i
  <2> HIDE DEF bad
  <2> QED BY <1>7, <1>8, LeastNatural
<1>10. /\ Backoff[0] = 1
       /\ \A c \in 1 .. MaxRetransmit : Backoff[c] = 2 * Backoff[c - 1]
  BY <1>1, <1>6
<1>11. m \in 1 .. MaxRetransmit /\ m - 1 \in 0 .. MaxRetransmit /\ m - 1 \notin bad
  BY <1>1, <1>9, <1>10
<1> QED BY <1>9, <1>10, <1>11
-----------------------------------------------------------------------------
(* What the operations do to the list.                                     *)

\* The nodes up to m are not later than t.
LEMMA NotLater ==
    ASSUME NEW q \in Seq(QNodes), NEW t \in Nat
    PROVE  LET k == Cardinality({i \in 1 .. Len(q) : Offset(q, i) <= t})
           IN  /\ k \in 0 .. Len(q)
               /\ Offset(q, k) <= t
               /\ k < Len(q) => t < Offset(q, k + 1)
<1> DEFINE early == {i \in 1 .. Len(q) : Offset(q, i) <= t}
           late == {i \in 1 .. Len(q) : t < Offset(q, i)}
<1>1. /\ Len(q) \in Nat /\ Offset(q, 0) = 0
      /\ \A i \in 0 .. Len(q) : Offset(q, i) \in Nat
  BY OffsetLaw
<1>2. \E m \in 0 .. Len(q) : /\ early = 1 .. m
                             /\ m < Len(q) => t < Offset(q, m + 1)
  <2>1. CASE late = {}
    <3>1. \A i \in 1 .. Len(q) : Offset(q, i) <= t
      BY <1>1, <2>1
    <3>2. early = 1 .. Len(q)
      BY <3>1
    <3> QED BY <1>1, <3>2
  <2>2. CASE late # {}
    <3>1. late \in SUBSET Nat
      OBVIOUS
    <3>2. PICK l \in late : \A i \in late : l <= i
      <4> HIDE DEF late
      <4> QED BY <2>2, <3>1, LeastNatural
    <3>3. l \in 1 .. Len(q) /\ t < Offset(q, l)
      BY <3>2
    <3>4. ASSUME NEW i \in 1 .. Len(q) PROVE i \in early <=> i < l
      <4>1. CASE i < l
        <5>1. i \notin late
          BY <3>2, <3>3, <4>1
        <5>2. i \in 0 .. Len(q)
          OBVIOUS
        <5> QED BY <1>1, <4>1, <5>1, <5>2
      <4>2. CASE ~(i < l)
        <5>1. /\ i \in 0 .. Len(q) /\ l \in 0 .. Len(q) /\ l <= i
          BY <1>1, <3>3, <4>2
        <5>2. Offset(q, l) <= Offset(q, i)
          BY <5>1, OffsetRises
        <5>3. Offset(q, l) \in Nat /\ Offset(q, i) \in Nat
          BY <1>1, <5>1
        <5> QED BY <3>3, <4>2, <5>2, <5>3
      <4> QED BY <4>1, <4>2
    <3>5. early \subseteq 1 .. Len(q)
      OBVIOUS
    <3> HIDE DEF early
    <3>6. early = 1 .. l - 1
      <4>1. ASSUME NEW i \in 1 .. l - 1 PROVE i \in early
        <5>1. i \in 1 .. Len(q) /\ i < l
          BY <1>1, <3>3
        <5> QED BY <3>4, <5>1
      <4>2. ASSUME NEW i \in early PROVE i \in 1 .. l - 1
        <5>1. i \in 1 .. Len(q) /\ i < l
          BY <3>4, <3>5
        <5> QED BY <1>1, <3>3, <5>1
      <4> QED BY <4>1, <4>2
    <3>7. l - 1 \in 0 .. Len(q) /\ (l - 1) + 1 = l
      BY <1>1, <3>3
    <3> QED BY <3>3, <3>6, <3>7
  <2> QED BY <1>1, <2>1, <2>2
<1> HIDE DEF early
<1>3. PICK m \in 0 .. Len(q) : early = 1 .. m /\ (m < Len(q) => t < Offset(q, m + 1))
  BY <1>2
<1>4. Cardinality(early) = m
  <2>1. Cardinality(1 .. m) = IF 1 > m THEN 0 ELSE m - 1 + 1
    BY FS_Interval
  <2> QED BY <1>3, <2>1
<1>5. Offset(q, m) <= t
  <2>1. CASE m = 0
    BY <1>1, <2>1
  <2>2. CASE m # 0
    <3>1. m \in early
      BY <1>3, <2>2
    <3> QED BY <3>1 DEF early
  <2> QED BY <2>1, <2>2
<1> QED BY <1>3, <1>4, <1>5 DEF early

\* artik_coap_insert_node gives the new node its time and leaves the others
\* theirs.
LEMMA InsertTimes ==
    ASSUME NEW q \in Seq(QNodes), NEW n \in QNodes
    PROVE  LET r == InsertNode(q, n)
           IN  /\ r \in Seq(QNodes)
               /\ \A j \in 1 .. Len(r) :
                     \/ Offset(r, j) = n.t /\ r[j].due = n.due
                     \/ \E i \in 1 .. Len(q) :
                           Offset(r, j) = Offset(q, i) /\ r[j].due = q[i].due
<1> DEFINE r == InsertNode(q, n)
           k == Cardinality({i \in 1 .. Len(q) : Offset(q, i) <= n.t})
           d == n.t - Offset(q, k)
<1>1. /\ n.t \in Nat /\ n.due \in Nat
      /\ Len(q) \in Nat
      /\ \A i \in 1 .. Len(q) : q[i] \in QNodes
  <2>1. n.t \in Nat /\ n.due \in Nat
    BY DEF QNodes
  <2>2. Len(q) \in Nat /\ \A i \in 1 .. Len(q) : q[i] \in QNodes
    OBVIOUS
  <2> QED BY <2>1, <2>2
<1>2. /\ k \in 0 .. Len(q)
      /\ Offset(q, k) <= n.t
      /\ k < Len(q) => n.t < Offset(q, k + 1)
  BY <1>1, NotLater
<1>3. /\ Offset(q, 0) = 0
      /\ \A i \in 1 .. Len(q) : Offset(q, i) = Offset(q, i - 1) + q[i].t
      /\ \A i \in 0 .. Len(q) : Offset(q, i) \in Nat
      /\ \A i \in 1 .. Len(q) : q[i].t \in Nat
  BY OffsetLaw
<1>4. r = [j \in 1 .. Len(q) + 1 |->
              IF j <= k THEN q[j]
              ELSE IF j = k + 1 THEN [n EXCEPT !.t = d]
              ELSE IF j = k + 2 THEN [q[j - 1] EXCEPT !.t = @ - d]
              ELSE q[j - 1]]
  BY DEF InsertNode
<1> HIDE DEF r, k
<1>5. d \in Nat
  BY <1>1, <1>2, <1>3
<1>6. k < Len(q) => /\ k + 1 \in 1 .. Len(q)
                    /\ q[k + 1].t - d = Offset(q, k + 1) - n.t
                    /\ q[k + 1].t - d \in Nat
  <2> SUFFICES ASSUME k < Len(q)
               PROVE  /\ k + 1 \in 1 .. Len(q)
                      /\ q[k + 1].t - d = Offset(q, k + 1) - n.t
                      /\ q[k + 1].t - d \in Nat
    OBVIOUS
  <2>1. k + 1 \in 1 .. Len(q) /\ k + 1 \in 0 .. Len(q) /\ (k + 1) - 1 = k
    BY <1>1, <1>2
  <2>2. Offset(q, k + 1) = Offset(q, k) + q[k + 1].t
    BY <1>3, <2>1
  <2>3. Offset(q, k + 1) \in Nat /\ Offset(q, k) \in Nat /\ q[k + 1].t \in Nat
    BY <1>2, <1>3, <2>1
  <2> QED BY <1>1, <1>2, <2>1, <2>2, <2>3
<1> HIDE DEF d
<1>7. [n EXCEPT !.t = d] \in QNodes /\ [n EXCEPT !.t = d].t = d /\ [n EXCEPT !.t = d].due = n.due
  BY <1>1, <1>5 DEF QNodes
<1>8. ASSUME NEW x \in QNodes, NEW v \in Nat
      PROVE  [x EXCEPT !.t = v] \in QNodes /\ [x EXCEPT !.t = v].t = v /\ [x EXCEPT !.t = v].due = x.due
  BY DEF QNodes
<1>9. /\ DOMAIN r = 1 .. Len(q) + 1
      /\ \A j \in 1 .. Len(q) + 1 :
            /\ j <= k => r[j] = q[j]
            /\ j = k + 1 => r[j] = [n EXCEPT !.t = d]
            /\ j = k + 2 => r[j] = [q[j - 1] EXCEPT !.t = q[j - 1].t - d]
            /\ j > k + 2 => r[j] = q[j - 1]
  BY <1>1, <1>2, <1>4
<1>10. ASSUME NEW j \in 1 .. Len(q) + 1
       PROVE  /\ r[j] \in QNodes
              /\ j <= k => j \in 1 .. Len(q) /\ r[j].t = q[j].t /\ r[j].due = q[j].due
              /\ j = k + 1 => r[j].t = d /\ r[j].due = n.due
              /\ j = k + 2 => /\ j - 1 \in 1 .. Len(q) /\ r[j].due = q[j - 1].due
                              /\ r[j].t = Offset(q, k + 1) - n.t
              /\ j > k + 2 => /\ j - 1 \in 1 .. Len(q) /\ r[j].due = q[j - 1].due
                              /\ r[j].t = q[j - 1].t
  <2>1. CASE j <= k
    <3>1. j \in 1 .. Len(q) /\ j # k + 1 /\ j # k + 2 /\ ~(j > k + 2)
      BY <1>1, <1>2, <2>1
    <3> QED BY <1>1, <1>9, <2>1, <3>1
  <2>2. CASE j = k + 1
    <3>1. ~(j <= k) /\ j # k + 2 /\ ~(j > k + 2)
      BY <1>2, <2>2
    <3> QED BY <1>7, <1>9, <2>2, <3>1
  <2>3. CASE j = k + 2
    <3>1. ~(j <= k) /\ j # k + 1 /\ ~(j > k + 2) /\ k < Len(q) /\ j - 1 = k + 1
      BY <1>1, <1>2, <2>3
    <3>2. r[j] = [q[k + 1] EXCEPT !.t = q[k + 1].t - d]
      BY <1>9, <2>3, <3>1
    <3>3. k + 1 \in 1 .. Len(q) /\ q[k + 1] \in QNodes
      BY <1>1, <1>6, <3>1
    <3>4. /\ r[j] \in QNodes /\ r[j].t = q[k + 1].t - d /\ r[j].due = q[k + 1].due
      BY <1>6, <1>8, <3>1, <3>2, <3>3
    <3> QED BY <1>6, <3>1, <3>3, <3>4
  <2>4. CASE j > k + 2
    <3>1. ~(j <= k) /\ j # k + 1 /\ j # k + 2 /\ j - 1 \in 1 .. Len(q)
      BY <1>1, <1>2, <2>4
    <3> QED BY <1>1, <1>9, <2>4, <3>1
  <2> QED BY <1>2, <2>1, <2>2, <2>3, <2>4
<1>11. r \in Seq(QNodes) /\ Len(r) = Len(q) + 1
  <2>1. r \in [1 .. Len(q) + 1 -> QNodes]
    BY <1>4, <1>10
  <2> QED BY <1>1, <2>1
<1> DEFINE F == [j \in 0 .. Len(q) + 1 |->
                    IF j <= k THEN Offset(q, j)
                    ELSE IF j = k + 1 THEN n.t
                    ELSE Offset(q, j - 1)]
<1>12. F \in [0 .. Len(q) + 1 -> Int] /\ F[0] = 0
  <2>1. ASSUME NEW j \in 0 .. Len(q) + 1
        PROVE  (IF j <= k THEN Offset(q, j) ELSE IF j = k + 1 THEN n.t ELSE Offset(q, j - 1)) \in Int
    <3>1. j <= k => j \in 0 .. Len(q)
      BY <1>1, <1>2
    <3>2. ~(j <= k) => j - 1 \in 0 .. Len(q)
      BY <1>1, <1>2
    <3> QED BY <1>1, <1>3, <3>1, <3>2
  <2>2. 0 \in 0 .. Len(q) + 1 /\ 0 <= k
    BY <1>1, <1>2
  <2> QED BY <1>3, <2>1, <2>2
<1>13. ASSUME NEW j \in 1 .. Len(q) + 1 PROVE F[j] = F[j - 1] + r[j].t
  <2>0. j \in 0 .. Len(q) + 1 /\ j - 1 \in 0 .. Len(q) + 1
    BY <1>1
  <2>1. CASE j <= k
    <3>1. F[j] = Offset(q, j) /\ F[j - 1] = Offset(q, j - 1)
      BY <1>2, <2>0, <2>1
    <3> QED BY <1>3, <1>10, <2>1, <3>1
  <2>2. CASE j = k + 1
    <3>1. F[j] = n.t /\ F[j - 1] = Offset(q, k)
      BY <1>2, <2>0, <2>2
    <3>2. Offset(q, k) \in Nat
      BY <1>2, <1>3
    <3> QED BY <1>1, <1>10, <2>2, <3>1, <3>2 DEF d
  <2>3. CASE j = k + 2
    <3>1. F[j] = Offset(q, k + 1) /\ F[j - 1] = n.t
      BY <1>2, <2>0, <2>3
    <3>2. k + 1 \in 0 .. Len(q)
      BY <1>1, <1>2, <2>3
    <3>3. Offset(q, k + 1) \in Nat
      BY <1>3, <3>2
    <3> QED BY <1>1, <1>10, <2>3, <3>1, <3>3
  <2>4. CASE j > k + 2
    <3>1. F[j] = Offset(q, j - 1) /\ F[j - 1] = Offset(q, j - 1 - 1)
      BY <1>2, <2>0, <2>4
    <3>2. j - 1 \in 1 .. Len(q)
      BY <1>1, <1>2, <2>4
    <3> QED BY <1>3, <1>10, <2>4, <3>1, <3>2
  <2> QED BY <1>2, <2>1, <2>2, <2>3, <2>4
<1> HIDE DEF F
<1>14. \A j \in 0 .. Len(r) : Offset(r, j) = F[j]
  BY <1>11, <1>12, <1>13, OffsetUnique
<1>15. ASSUME NEW j \in 1 .. Len(r)
       PROVE  \/ Offset(r, j) = n.t /\ r[j].due = n.due
              \/ \E i \in 1 .. Len(q) :
                    Offset(r, j) = Offset(q, i) /\ r[j].due = q[i].due
  <2>0. /\ j \in 0 .. Len(r) /\ Offset(r, j) = F[j]
        /\ j \in 0 .. Len(q) + 1 /\ j \in 1 .. Len(q) + 1
    BY <1>1, <1>11, <1>14
  <2>1. CASE j <= k
    <3>1. F[j] = Offset(q, j)
      BY <2>0, <2>1 DEF F
    <3> QED BY <1>10, <2>0, <2>1, <3>1
  <2>2. CASE j = k + 1
    <3>1. F[j] = n.t
      BY <1>2, <2>0, <2>2 DEF F
    <3> QED BY <1>10, <2>0, <2>2, <3>1
  <2>3. CASE j > k + 1
    <3>1. F[j] = Offset(q, j - 1)
      BY <1>2, <2>0, <2>3 DEF F
    <3>2. j = k + 2 \/ j > k + 2
      BY <1>2, <2>0, <2>3
    <3>3. j - 1 \in 1 .. Len(q) /\ r[j].due = q[j - 1].due
      BY <1>10, <2>0, <3>2
    <3> QED BY <2>0, <3>1, <3>3
  <2> QED BY <1>2, <2>1, <2>2, <2>3
<1> QED BY <1>11, <1>15 DEF r

\* A node that is unlinked gives its time to its successor.
LEMMA UnlinkTimes ==
    ASSUME NEW q \in Seq(QNodes), NEW k \in 1 .. Len(q)
    PROVE  LET r == Unlink(q, k)
           IN  /\ r \in Seq(QNodes)
               /\ \A j \in 1 .. Len(r) : \E i \in 1 .. Len(q) :
                     Offset(r, j) = Offset(q, i) /\ r[j].due = q[i].due
<1> DEFINE r == Unlink(q, k)
<1>1. Len(q) \in Nat /\ \A i \in 1 .. Len(q) : q[i] \in QNodes
  OBVIOUS
<1>2. /\ Offset(q, 0) = 0
      /\ \A i \in 1 .. Len(q) : Offset(q, i) = Offset(q, i - 1) + q[i].t
      /\ \A i \in 0 .. Len(q) : Offset(q, i) \in Nat
      /\ \A i \in 1 .. Len(q) : q[i].t \in Nat
  BY OffsetLaw
<1>3. r = [j \in 1 .. Len(q) - 1 |->
              IF j < k THEN q[j]
              ELSE IF j = k THEN [q[k + 1] EXCEPT !.t = @ + q[k].t]
              ELSE q[j + 1]]
  BY DEF Unlink
<1> HIDE DEF r
<1>4. ASSUME NEW x \in QNodes, NEW v \in Nat
      PROVE  [x EXCEPT !.t = v] \in QNodes /\ [x EXCEPT !.t = v].t = v /\ [x EXCEPT !.t = v].due = x.due
  BY DEF QNodes
<1>5. ASSUME NEW j \in 1 .. Len(q) - 1
      PROVE  /\ j \in 1 .. Len(q) /\ j + 1 \in 1 .. Len(q)
             /\ r[j] \in QNodes
             /\ j < k => r[j].t = q[j].t /\ r[j].due = q[j].due
             /\ j = k => r[j].t = q[k + 1].t + q[k].t
             /\ j > k => r[j].t = q[j + 1].t
             /\ ~(j < k) => r[j].due = q[j + 1].due
  <2>1. j \in 1 .. Len(q) /\ j + 1 \in 1 .. Len(q)
    BY <1>1
  <2>2. CASE j < k
    BY <1>1, <1>3, <2>1, <2>2
  <2>3. CASE j = k
    <3>1. r[j] = [q[k + 1] EXCEPT !.t = q[k + 1].t + q[k].t]
      BY <1>3, <2>3
    <3>2. q[k + 1].t + q[k].t \in Nat /\ q[k + 1] \in QNodes
      BY <1>1, <1>2, <2>1, <2>3
    <3>3. r[j] \in QNodes /\ r[j].t = q[k + 1].t + q[k].t /\ r[j].due = q[k + 1].due
      BY <1>4, <3>1, <3>2
    <3> QED BY <2>1, <2>3, <3>3
  <2>4. CASE j > k
    <3>1. r[j] = q[j + 1]
      BY <1>3, <2>4
    <3> QED BY <1>1, <2>1, <2>4, <3>1
  <2> QED BY <2>2, <2>3, <2>4
<1>6. r \in Seq(QNodes) /\ Len(r) = Len(q) - 1
  <2>1. r \in [1 .. Len(q) - 1 -> QNodes]
    BY <1>3, <1>5
  <2>2. Len(q) - 1 \in Nat
    BY <1>1
  <2> QED BY <2>1, <2>2
<1> DEFINE F == [j \in 0 .. Len(q) - 1 |-> IF j < k THEN Offset(q, j) ELSE Offset(q, j + 1)]
<1>7. F \in [0 .. Len(q) - 1 -> Int] /\ F[0] = 0
  <2>1. ASSUME NEW j \in 0 .. Len(q) - 1
        PROVE  (IF j < k THEN Offset(q, j) ELSE Offset(q, j + 1)) \in Int
    <3>1. j \in 0 .. Len(q) /\ j + 1 \in 0 .. Len(q)
      BY <1>1
    <3> QED BY <1>2, <3>1
  <2>2. 0 \in 0 .. Len(q) - 1 /\ 0 < k
    BY <1>1
  <2> QED BY <1>2, <2>1, <2>2
<1>8. ASSUME NEW j \in 1 .. Len(q) - 1 PROVE F[j] = F[j - 1] + r[j].t
  <2>0. j \in 0 .. Len(q) - 1 /\ j - 1 \in 0 .. Len(q) - 1
    BY <1>1
  <2>1. CASE j < k
    <3>1. F[j] = Offset(q, j) /\ F[j - 1] = Offset(q, j - 1)
      BY <2>0, <2>1
    <3> QED BY <1>2, <1>5, <2>1, <3>1
  <2>2. CASE j = k
    <3>1. F[j] = Offset(q, k + 1) /\ F[j - 1] = Offset(q, k - 1)
      BY <2>0, <2>2
    <3>2. /\ k + 1 \in 1 .. Len(q) /\ k - 1 \in 0 .. Len(q) /\ (k + 1) - 1 = k
      BY <1>1, <2>2
    <3>3. /\ Offset(q, k + 1) = Offset(q, k) + q[k + 1].t
          /\ Offset(q, k) = Offset(q, k - 1) + q[k].t
      BY <1>2, <3>2
    <3>4. Offset(q, k - 1) \in Nat /\ q[k].t \in Nat /\ q[k + 1].t \in Nat
      BY <1>2, <3>2
    <3>5. r[j].t = q[k + 1].t + q[k].t
      BY <1>5, <2>2
    <3> QED BY <3>1, <3>3, <3>4, <3>5
  <2>3. CASE j > k
    <3>1. F[j] = Offset(q, j + 1) /\ F[j - 1] = Offset(q, (j + 1) - 1)
      BY <2>0, <2>3
    <3>2. j + 1 \in 1 .. Len(q)
      BY <1>5
    <3> QED BY <1>2, <1>5, <2>3, <3>1, <3>2
  <2> QED BY <2>1, <2>2, <2>3
<1> HIDE DEF F
<1>9. \A j \in 0 .. Len(r) : Offset(r, j) = F[j]
  BY <1>6, <1>7, <1>8, OffsetUnique
<1>10. ASSUME NEW j \in 1 .. Len(r)
       PROVE  \E i \in 1 .. Len(q) : Offset(r, j) = Offset(q, i) /\ r[j].due = q[i].due
  <2>1. /\ j \in 1 .. Len(q) - 1 /\ j \in 0 .. Len(q) - 1
        /\ j \in 1 .. Len(q) /\ j + 1 \in 1 .. Len(q)
        /\ Offset(r, j) = F[j]
    BY <1>1, <1>6, <1>9
  <2>2. CASE j < k
    BY <1>5, <2>1, <2>2 DEF F
  <2>3. CASE ~(j < k)
    <3>1. F[j] = Offset(q, j + 1)
      BY <2>1, <2>3 DEF F
    <3> QED BY <1>5, <2>1, <2>3, <3>1
  <2> QED BY <2>2, <2>3
<1> QED BY <1>6, <1>10 DEF r

\* Cancelled nodes take their share of the time with them.
LEMMA CancelTimes ==
    ASSUME NEW q \in Seq(QNodes), NEW s, NEW tok, NEW r \in CancelAll(q, s, tok)
    PROVE  /\ r \in Seq(QNodes)
           /\ \A j \in 1 .. Len(r) : \E i \in 1 .. Len(q) :
                 Offset(r, j) <= Offset(q, i) /\ r[j].due = q[i].due
<1> DEFINE kept == {k \in DOMAIN q : ~(q[k].s = s /\ q[k].tok = tok)}
           n == Cardinality(kept)
<1>1. Len(q) \in Nat /\ DOMAIN q = 1 .. Len(q) /\ \A i \in 1 .. Len(q) : q[i] \in QNodes
  OBVIOUS
<1>2. n \in Nat
  <2>1. IsFiniteSet(1 .. Len(q))
    BY <1>1, FS_Interval
  <2>2. IsFiniteSet(kept)
    BY <1>1, <2>1, FS_Subset
  <2> QED BY <2>2, FS_CardinalityType
<1>3. PICK at \in [1 .. n -> kept] :
         /\ \A i, j \in DOMAIN at : i < j => at[i] < at[j]
         /\ r = [i \in DOMAIN at |-> q[at[i]]]
  BY DEF CancelAll
<1>4. \A i \in 1 .. n : at[i] \in 1 .. Len(q)
  BY <1>1, <1>3
<1>5. \A i, j \in 1 .. n : i < j => at[i] < at[j]
  BY <1>3
<1>6. DOMAIN r = 1 .. n /\ \A i \in 1 .. n : r[i] = q[at[i]]
  BY <1>3
<1>7. r = [i \in 1 .. n |-> q[at[i]]]
  BY <1>3
<1> HIDE DEF n, kept
<1>8. r \in Seq(QNodes) /\ Len(r) = n
  <2>1. \A i \in 1 .. n : q[at[i]] \in QNodes
    BY <1>1, <1>4
  <2>2. r \in [1 .. n -> QNodes]
    BY <1>7, <2>1
  <2> QED BY <1>2, <2>2
<1> DEFINE f == [j \in 0 .. n |-> Offset(r, j)]
           g == [j \in 0 .. n |-> IF j = 0 THEN 0 ELSE Offset(q, at[j])]
<1>9. /\ Offset(q, 0) = 0
      /\ \A i \in 1 .. Len(q) : Offset(q, i) = Offset(q, i - 1) + q[i].t
      /\ \A i \in 0 .. Len(q) : Offset(q, i) \in Nat
      /\ \A i \in 1 .. Len(q) : q[i].t \in Nat
  BY OffsetLaw
<1>10. /\ Offset(r, 0) = 0
       /\ \A i \in 1 .. n : Offset(r, i) = Offset(r, i - 1) + r[i].t
       /\ \A i \in 0 .. n : Offset(r, i) \in Nat
  BY <1>8, OffsetLaw
<1>11. f \in [0 .. n -> Int] /\ g \in [0 .. n -> Int] /\ f[0] <= g[0]
  <2>1. \A j \in 0 .. n : Offset(r, j) \in Int
    BY <1>10
  <2>2. ASSUME NEW j \in 0 .. n PROVE (IF j = 0 THEN 0 ELSE Offset(q, at[j])) \in Int
    <3>1. CASE j = 0
      BY <3>1
    <3>2. CASE j # 0
      <4>1. at[j] \in 0 .. Len(q)
        <5>1. j \in 1 .. n
          BY <1>2, <3>2
        <5> QED BY <1>4, <5>1
      <4> QED BY <1>9, <3>2, <4>1
    <3> QED BY <3>1, <3>2
  <2>3. 0 \in 0 .. n
    BY <1>2
  <2>4. f[0] = 0 /\ g[0] = 0
    BY <1>10, <2>3
  <2>5. f \in [0 .. n -> Int]
    BY <2>1
  <2>6. g \in [0 .. n -> Int]
    BY <2>2
  <2> HIDE DEF f, g
  <2> QED BY <2>4, <2>5, <2>6
<1>12. ASSUME NEW j \in 1 .. n PROVE f[j] - f[j - 1] <= g[j] - g[j - 1]
  <2>1. j \in 0 .. n /\ j - 1 \in 0 .. n /\ at[j] \in 1 .. Len(q)
    BY <1>2, <1>4
  <2>2. f[j] = Offset(r, j - 1) + q[at[j]].t /\ f[j - 1] = Offset(r, j - 1)
    BY <1>6, <1>10, <2>1
  <2>3. /\ at[j] \in 0 .. Len(q) /\ at[j] - 1 \in 0 .. Len(q)
        /\ Offset(q, at[j]) = Offset(q, at[j] - 1) + q[at[j]].t
        /\ q[at[j]].t \in Nat
    BY <1>9, <2>1
  <2>4. Offset(q, at[j] - 1) \in Nat /\ Offset(r, j - 1) \in Nat
    BY <1>9, <1>10, <2>1, <2>3
  <2>5. g[j] = Offset(q, at[j])
    BY <2>1
  <2>6. g[j - 1] \in Nat /\ g[j - 1] <= Offset(q, at[j] - 1)
    <3>1. CASE j = 1
      <4>1. g[j - 1] = 0
        BY <2>1, <3>1
      <4> HIDE DEF g
      <4> QED BY <2>4, <4>1
    <3>2. CASE j # 1
      <4>1. j - 1 \in 1 .. n /\ j - 1 < j
        BY <1>2, <2>1, <3>2
      <4>2. at[j - 1] \in 1 .. Len(q) /\ at[j - 1] < at[j]
        BY <1>4, <1>5, <4>1
      <4>3. at[j - 1] \in 0 .. Len(q) /\ at[j - 1] <= at[j] - 1
        BY <2>1, <4>2
      <4>4. Offset(q, at[j - 1]) <= Offset(q, at[j] - 1)
        BY <2>3, <4>3, OffsetRises
      <4>5. g[j - 1] = Offset(q, at[j - 1])
        BY <2>1, <4>1
      <4>6. Offset(q, at[j - 1]) \in Nat
        BY <1>9, <4>3
      <4> HIDE DEF g
      <4> QED BY <4>4, <4>5, <4>6
    <3> QED BY <3>1, <3>2
  <2> HIDE DEF f, g
  <2> QED BY <2>2, <2>3, <2>4, <2>5, <2>6
<1>13. \A j \in 0 .. n : f[j] <= g[j]
  <2> HIDE DEF f, g
  <2> QED BY <1>2, <1>11, <1>12, Climb
<1>14. ASSUME NEW j \in 1 .. Len(r)
       PROVE  \E i \in 1 .. Len(q) : Offset(r, j) <= Offset(q, i) /\ r[j].due = q[i].due
  <2>1. j \in 1 .. n /\ j \in 0 .. n /\ j # 0
    BY <1>8
  <2>2. Offset(r, j) <= Offset(q, at[j])
    BY <1>13, <2>1
  <2> QED BY <1>4, <1>6, <2>1, <2>2
<1> QED BY <1>8, <1>14

\* artik_coap_remove_from_queue finds a node of the queue or nothing.
LEMMA FoundType ==
    ASSUME NEW q \in Seq(QNodes), NEW s, NEW i
    PROVE  Found(q, s, i) = 0 \/ Found(q, s, i) \in 1 .. Len(q)
<1> DEFINE rest == {k \in 2 .. Len(q) : q[k].s = s \/ q[k].id = i}
<1>1. Len(q) \in Nat
  OBVIOUS
<1>2. CASE q # <<>> /\ q[1].s = s /\ q[1].id = i
  <2>1. Found(q, s, i) = 1
    BY <1>2 DEF Found
  <2>2. Len(q) # 0
    BY <1>2
  <2> QED BY <1>1, <2>1, <2>2
<1>3. CASE ~(q # <<>> /\ q[1].s = s /\ q[1].id = i) /\ rest = {}
  BY <1>3 DEF Found
<1>4. CASE ~(q # <<>> /\ q[1].s = s /\ q[1].id = i) /\ rest # {}
  <2>1. Found(q, s, i) = CHOOSE k \in rest : \A l \in rest : k <= l
    BY <1>4 DEF Found
  <2>2. rest \in SUBSET Nat
    BY <1>1
  <2>3. rest \subseteq 1 .. Len(q)
    BY <1>1
  <2> HIDE DEF rest
  <2>4. \E k \in rest : \A l \in rest : k <= l
    BY <1>4, <2>2, LeastNatural
  <2> QED BY <2>1, <2>3, <2>4
<1> QED BY <1>2, <1>3, <1>4

-----------------------------------------------------------------------------
(* The queue.                                                              *)

\* When a node is due at what the list says, or earlier after a cancellation.
Timely(q, base, early) ==
    \A k \in 1 .. Len(q) :
        /\ base + Offset(q, k) <= q[k].due
        /\ ~early => base + Offset(q, k) = q[k].due

QInv ==
    /\ sendqueue \in Seq(QNodes)
    /\ basetime \in Nat /\ now \in Nat /\ basetime <= now
    /\ cancelled \in BOOLEAN
    /\ Timely(sendqueue, basetime, cancelled)

LEMMA QInitial == QInit => QInv
<1> SUFFICES ASSUME QInit PROVE QInv
  OBVIOUS
<1>1. sendqueue = <<>> /\ basetime = 0 /\ now = 0 /\ cancelled = FALSE
  BY DEF QInit
<1>2. <<>> \in Seq(QNodes)
  OBVIOUS
<1>3. 1 .. Len(<<>>) = {}
  OBVIOUS
<1>4. Timely(sendqueue, basetime, cancelled)
  BY <1>1, <1>3, Zenon DEF Timely
<1>5. basetime \in Nat /\ now \in Nat /\ basetime <= now
  BY <1>1
<1>6. cancelled \in BOOLEAN
  BY <1>1, Zenon
<1> QED BY <1>1, <1>2, <1>4, <1>5, <1>6, Zenon DEF QInv

\* coap_wait_ack: a node is due after the delay it was queued with.
LEMMA ScheduleKeeps ==
    ASSUME basetime \in Nat, now \in Nat, basetime <= now, cancelled \in BOOLEAN,
           NEW q \in Seq(QNodes), Timely(q, basetime, cancelled),
           NEW n \in QNodes, NEW delay \in Nat, Schedule(q, n, delay), now' = now
    PROVE  QInv'
<1> DEFINE m == [n EXCEPT !.t = IF q = <<>> THEN delay ELSE now - basetime + delay,
                          !.due = now + delay]
<1>1. /\ sendqueue' = InsertNode(q, m)
      /\ basetime' = IF q = <<>> THEN now ELSE basetime
      /\ cancelled' = (q # <<>> /\ cancelled)
  BY DEF Schedule
<1>2. /\ m \in QNodes
      /\ m.t = IF q = <<>> THEN delay ELSE now - basetime + delay
      /\ m.due = now + delay
  <2> DEFINE t == IF q = <<>> THEN delay ELSE now - basetime + delay
             due == now + delay
  <2>1. t \in Nat /\ due \in Nat
    OBVIOUS
  <2>2. m = [n EXCEPT !.t = t, !.due = due]
    OBVIOUS
  <2> HIDE DEF m, t, due
  <2>3. m \in QNodes /\ m.t = t /\ m.due = due
    BY <2>1, <2>2 DEF QNodes
  <2> QED BY <2>3 DEF t, due
<1> HIDE DEF m
<1>3. basetime' + m.t = m.due
  BY <1>1, <1>2
<1>4. PICK r : r = InsertNode(q, m)
  OBVIOUS
<1>5. /\ r \in Seq(QNodes)
      /\ \A j \in 1 .. Len(r) :
            \/ Offset(r, j) = m.t /\ r[j].due = m.due
            \/ \E i \in 1 .. Len(q) :
                  Offset(r, j) = Offset(q, i) /\ r[j].due = q[i].due
  BY <1>2, <1>4, InsertTimes
<1>6. PICK b : b = basetime'
  OBVIOUS
<1>7. PICK e : e = cancelled'
  OBVIOUS
<1>8. b \in Nat /\ b <= now /\ e \in BOOLEAN
  BY <1>1, <1>6, <1>7
<1>9. \A j \in 1 .. Len(r) : Offset(r, j) \in Nat
  BY <1>5, OffsetLaw
<1>10. now + delay \in Nat /\ m.due = now + delay
  BY <1>2
<1>11. ASSUME NEW j \in 1 .. Len(r)
       PROVE  /\ b + Offset(r, j) <= r[j].due
              /\ ~e => b + Offset(r, j) = r[j].due
  <2>1. CASE Offset(r, j) = m.t /\ r[j].due = m.due
    <3>1. b + Offset(r, j) = r[j].due
      BY <1>3, <1>6, <2>1
    <3>2. r[j].due \in Nat
      BY <1>10, <2>1
    <3> QED BY <3>1, <3>2
  <2>2. CASE \E i \in 1 .. Len(q) : Offset(r, j) = Offset(q, i) /\ r[j].due = q[i].due
    <3>1. PICK i \in 1 .. Len(q) : Offset(r, j) = Offset(q, i) /\ r[j].due = q[i].due
      BY <2>2
    <3>2. q # <<>>
      <4>1. q = <<>> => Len(q) = 0
        OBVIOUS
      <4> QED BY <4>1
    <3>3. b = basetime /\ e = cancelled
      BY <1>1, <1>6, <1>7, <3>2
    <3> QED BY <3>1, <3>3 DEF Timely
  <2> QED BY <1>5, <2>1, <2>2
<1>12. sendqueue' = r /\ basetime' = b /\ cancelled' = e /\ now' = now
  BY <1>1, <1>4, <1>6, <1>7
<1>13. Timely(r, b, e)
  BY <1>11 DEF Timely
<1>14. Timely(sendqueue', basetime', cancelled')
  BY <1>12, <1>13
<1> QED BY <1>5, <1>8, <1>12, <1>14 DEF QInv

\* artik_coap_remove_from_queue: the others stay due when they were.
LEMMA UnlinkKeeps ==
    ASSUME NEW q \in Seq(QNodes), NEW k \in 1 .. Len(q), NEW base \in Nat, NEW early,
           Timely(q, base, early)
    PROVE  Unlink(q, k) \in Seq(QNodes) /\ Timely(Unlink(q, k), base, early)
<1> DEFINE r == Unlink(q, k)
<1>1. /\ r \in Seq(QNodes)
      /\ \A j \in 1 .. Len(r) : \E i \in 1 .. Len(q) :
            Offset(r, j) = Offset(q, i) /\ r[j].due = q[i].due
  BY UnlinkTimes
<1> HIDE DEF r
<1>2. Timely(r, base, early)
  BY <1>1 DEF Timely
<1> QED BY <1>1, <1>2 DEF r

LEMMA QInductive == QInv /\ [QNext]_qvars => QInv'
<1> SUFFICES ASSUME QInv, [QNext]_qvars PROVE QInv'
  OBVIOUS
<1>0. /\ sendqueue \in Seq(QNodes)
      /\ basetime \in Nat /\ now \in Nat /\ basetime <= now
      /\ cancelled \in BOOLEAN
      /\ Timely(sendqueue, basetime, cancelled)
  BY DEF QInv
<1>1. ASSUME NEW i \in QIds, NEW s \in QSessions, NEW tok \in QTokens, NEW d \in Timeouts,
             WaitAck(i, s, tok, d)
      PROVE  QInv'
  <2> DEFINE n == [id |-> i, s |-> s, tok |-> tok, timeout |-> d, cnt |-> 0, t |-> 0, due |-> 0]
  <2>1. n \in QNodes /\ d \in Nat
    BY QueueAssumption DEF QNodes
  <2>2. Schedule(sendqueue, n, d) /\ now' = now
    BY <1>1 DEF WaitAck
  <2> HIDE DEF n
  <2> QED BY <1>0, <2>1, <2>2, ScheduleKeeps
<1>2. CASE Retransmit
  <2> DEFINE n == sendqueue[1]
             q == Unlink(sendqueue, 1)
  <2>1. sendqueue # <<>> /\ now' = now
    BY <1>2 DEF Retransmit
  <2>2. 1 \in 1 .. Len(sendqueue) /\ n \in QNodes
    BY <1>0, <2>1
  <2>3. q \in Seq(QNodes) /\ Timely(q, basetime, cancelled)
    BY <1>0, <2>2, UnlinkKeeps
  <2>4. \/ /\ n.cnt < MaxRetransmit
           /\ Schedule(q, [n EXCEPT !.cnt = n.cnt + 1], n.timeout * Backoff[n.cnt + 1])
        \/ sendqueue' = q /\ UNCHANGED <<basetime, cancelled>>
    BY <1>2 DEF Retransmit
  <2> HIDE DEF n, q
  <2>5. CASE /\ n.cnt < MaxRetransmit
             /\ Schedule(q, [n EXCEPT !.cnt = n.cnt + 1], n.timeout * Backoff[n.cnt + 1])
    <3>1. n.cnt \in Nat /\ n.timeout \in Nat
      BY <2>2, QueueAssumption DEF QNodes
    <3>2. n.cnt + 1 \in 0 .. MaxRetransmit /\ n.cnt + 1 \in Nat
      BY <2>5, <3>1, QueueAssumption
    <3>3. [n EXCEPT !.cnt = n.cnt + 1] \in QNodes
      BY <2>2, <3>2 DEF QNodes
    <3>4. Backoff[n.cnt + 1] \in Nat
      BY <3>2, BackoffType
    <3>5. n.timeout * Backoff[n.cnt + 1] \in Nat
      BY <3>1, <3>4
    <3> QED BY <1>0, <2>1, <2>3, <2>5, <3>3, <3>5, ScheduleKeeps
  <2>6. CASE sendqueue' = q /\ UNCHANGED <<basetime, cancelled>>
    <3>1. Timely(sendqueue', basetime', cancelled')
      BY <2>3, <2>6
    <3> QED BY <1>0, <2>1, <2>3, <2>6, <3>1 DEF QInv
  <2> QED BY <2>4, <2>5, <2>6
<1>3. ASSUME NEW i \in QIds, NEW s \in QSessions, RemoveFromQueue(s, i) PROVE QInv'
  <2>1. /\ Found(sendqueue, s, i) # 0
        /\ sendqueue' = Unlink(sendqueue, Found(sendqueue, s, i))
        /\ UNCHANGED <<basetime, now, cancelled>>
    BY <1>3 DEF RemoveFromQueue
  <2>2. Found(sendqueue, s, i) \in 1 .. Len(sendqueue)
    BY <1>0, <2>1, FoundType
  <2>3. sendqueue' \in Seq(QNodes) /\ Timely(sendqueue', basetime, cancelled)
    BY <1>0, <2>1, <2>2, UnlinkKeeps
  <2>4. Timely(sendqueue', basetime', cancelled')
    BY <2>1, <2>3
  <2> QED BY <1>0, <2>1, <2>3, <2>4 DEF QInv
<1>4. ASSUME NEW s \in QSessions, NEW tok \in QTokens, CancelAllMessages(s, tok) PROVE QInv'
  <2>1. /\ sendqueue' \in CancelAll(sendqueue, s, tok)
        /\ cancelled' = TRUE
        /\ UNCHANGED <<basetime, now>>
    BY <1>4 DEF CancelAllMessages
  <2>2. PICK r \in CancelAll(sendqueue, s, tok) : sendqueue' = r
    BY <2>1
  <2>3. /\ r \in Seq(QNodes)
        /\ \A j \in 1 .. Len(r) : \E i \in 1 .. Len(sendqueue) :
              Offset(r, j) <= Offset(sendqueue, i) /\ r[j].due = sendqueue[i].due
    BY <1>0, CancelTimes
  <2>4. ASSUME NEW j \in 1 .. Len(r) PROVE basetime + Offset(r, j) <= r[j].due
    <3>1. PICK i \in 1 .. Len(sendqueue) :
             Offset(r, j) <= Offset(sendqueue, i) /\ r[j].due = sendqueue[i].due
      BY <2>3
    <3>2. basetime + Offset(sendqueue, i) <= sendqueue[i].due
      BY <1>0 DEF Timely
    <3>3. Offset(r, j) \in Nat /\ Offset(sendqueue, i) \in Nat
      BY <1>0, <2>3, OffsetLaw
    <3>4. sendqueue[i].due \in Nat
      <4>1. sendqueue[i] \in QNodes
        BY <1>0
      <4> QED BY <4>1 DEF QNodes
    <3> QED BY <1>0, <3>1, <3>2, <3>3, <3>4
  <2>5. Timely(r, basetime, TRUE)
    BY <2>4 DEF Timely
  <2>6. Timely(sendqueue', basetime', cancelled')
    BY <2>1, <2>2, <2>5
  <2> QED BY <1>0, <2>1, <2>2, <2>3, <2>6 DEF QInv
<1>5. CASE Tick
  <2>1. now' = now + 1 /\ UNCHANGED <<sendqueue, basetime, cancelled>>
    BY <1>5 DEF Tick
  <2>2. Timely(sendqueue', basetime', cancelled')
    BY <1>0, <2>1
  <2> QED BY <1>0, <2>1, <2>2 DEF QInv
<1>6. CASE UNCHANGED qvars
  <2>1. UNCHANGED <<sendqueue, basetime, now, cancelled>>
    BY <1>6 DEF qvars
  <2>2. Timely(sendqueue', basetime', cancelled')
    BY <1>0, <2>1
  <2> QED BY <1>0, <2>1, <2>2 DEF QInv
<1> QED BY <1>1, <1>2, <1>3, <1>4, <1>5, <1>6 DEF QNext

\* Whatever is queued, acknowledged, removed in the middle, retransmitted and
\* cancelled (artik_coap_insert_node, artik_coap_remove_from_queue and
\* artik_coap_retransmit of coap.c), the relative times of the list add up to
\* what was asked for, or less after a cancellation.
THEOREM QueueOnTime == QSpec => []OnTime
<1>1. QInv => OnTime
  <2> SUFFICES ASSUME QInv, NEW k \in DOMAIN sendqueue
               PROVE  /\ basetime + Offset(sendqueue, k) <= sendqueue[k].due
                      /\ ~cancelled => /\ basetime + Offset(sendqueue, k) = sendqueue[k].due
                                       /\ sendqueue[1].due <= sendqueue[k].due
    BY DEF OnTime
  <2>1. /\ sendqueue \in Seq(QNodes) /\ basetime \in Nat
        /\ Timely(sendqueue, basetime, cancelled)
    BY DEF QInv
  <2>2. k \in 1 .. Len(sendqueue) /\ Len(sendqueue) \in Nat
    BY <2>1
  <2>3. 1 \in 1 .. Len(sendqueue) /\ 1 \in 0 .. Len(sendqueue) /\ k \in 0 .. Len(sendqueue) /\ 1 <= k
    BY <2>2
  <2>4. Offset(sendqueue, 1) <= Offset(sendqueue, k)
    BY <2>1, <2>3, OffsetRises
  <2>5. Offset(sendqueue, 1) \in Nat /\ Offset(sendqueue, k) \in Nat
    BY <2>1, <2>3, OffsetLaw
  <2>6. ~cancelled => /\ basetime + Offset(sendqueue, k) = sendqueue[k].due
                      /\ basetime + Offset(sendqueue, 1) = sendqueue[1].due
    BY <2>1, <2>2, <2>3 DEF Timely
  <2>7. basetime + Offset(sendqueue, k) <= sendqueue[k].due
    BY <2>1, <2>2 DEF Timely
  <2>8. ~cancelled => sendqueue[1].due <= sendqueue[k].due
    BY <2>1, <2>4, <2>5, <2>6
  <2> QED BY <2>6, <2>7, <2>8
<1> QED BY <1>1, QInitial, QInductive, PTL DEF QSpec

-----------------------------------------------------------------------------
(* CoapServer.                                                             *)

-----------------------------------------------------------------------------
(* Counting the nodes of a peer.                                           *)

Places(q, p) == {k \in DOMAIN q : q[k].s = p}

\* The nodes of a peer are counted by their places.
LEMMA NodesType ==
    ASSUME NEW q \in Seq(Notification), NEW p
    PROVE  /\ IsFiniteSet(Places(q, p))
           /\ NodesOf(q, p) = Cardinality(Places(q, p))
           /\ NodesOf(q, p) \in Nat
<1>1. DOMAIN q = 1 .. Len(q) /\ Len(q) \in Nat
  OBVIOUS
<1>2. IsFiniteSet(1 .. Len(q))
  BY <1>1, FS_Interval
<1>3. IsFiniteSet(Places(q, p))
  BY <1>1, <1>2, FS_Subset DEF Places
<1>4. NodesOf(q, p) = Cardinality(Places(q, p))
  BY DEF NodesOf, Places
<1> QED BY <1>3, <1>4, FS_CardinalityType

\* r holds the nodes of q, except those at the places of D, in any order.
Embeds(at, r, q, D) ==
    /\ at \in [DOMAIN r -> DOMAIN q]
    /\ Range(at) = DOMAIN q \ D
    /\ \A i, j \in DOMAIN r : at[i] = at[j] => i = j
    /\ \A i \in DOMAIN r : r[i].s = q[at[i]].s

\* If r keeps, by at, the nodes of q at all places but D, its nodes of a peer
\* are those of q that are not at D.
LEMMA Recount ==
    ASSUME NEW q \in Seq(Notification), NEW r \in Seq(Notification), NEW D, NEW at,
           Embeds(at, r, q, D), NEW p
    PROVE  NodesOf(r, p) = Cardinality(Places(q, p) \ D)
<1> DEFINE f == [i \in Places(r, p) |-> at[i]]
<1> USE DEF Embeds
<1>1. f \in [Places(r, p) -> Places(q, p) \ D]
  <2> SUFFICES ASSUME NEW i \in Places(r, p) PROVE at[i] \in Places(q, p) \ D
    OBVIOUS
  <2> QED BY DEF Places, Range
<1>2. \A i, j \in Places(r, p) : f[i] = f[j] => i = j
  BY DEF Places
<1>3. ASSUME NEW k \in Places(q, p) \ D PROVE \E i \in Places(r, p) : f[i] = k
  <2>1. PICK i \in DOMAIN r : at[i] = k
    BY DEF Places, Range
  <2>2. i \in Places(r, p)
    BY <2>1 DEF Places
  <2> QED BY <2>1, <2>2
<1> HIDE DEF f
<1>4. f \in Bijection(Places(r, p), Places(q, p) \ D)
  BY <1>1, <1>2, <1>3 DEF Bijection, Injection, Surjection, IsInjective
<1> QED BY <1>4, NodesType, FS_Bijection DEF ExistsBijection

\* The same without one place.
LEMMA WithoutOne ==
    ASSUME NEW q \in Seq(Notification), NEW r \in Seq(Notification), NEW k \in DOMAIN q,
           NEW at, Embeds(at, r, q, {k}), NEW p
    PROVE  NodesOf(q, p) = NodesOf(r, p) + (IF q[k].s = p THEN 1 ELSE 0)
<1>1. NodesOf(r, p) = Cardinality(Places(q, p) \ {k})
  BY Recount
<1>2. IsFiniteSet(Places(q, p)) /\ NodesOf(q, p) = Cardinality(Places(q, p)) /\ NodesOf(q, p) \in Nat
  BY NodesType
<1>3. k \in Places(q, p) <=> q[k].s = p
  BY DEF Places
<1>4. Cardinality(Places(q, p) \ {k})
         = IF k \in Places(q, p) THEN Cardinality(Places(q, p)) - 1
                                 ELSE Cardinality(Places(q, p))
  BY <1>2, FS_RemoveElement
<1> QED BY <1>1, <1>2, <1>3, <1>4

\* Removing a node takes one from its peer.
LEMMA RemoveCount ==
    ASSUME NEW q \in Seq(Notification), NEW k \in DOMAIN q
    PROVE  /\ RemoveAt(q, k) \in Seq(Notification)
           /\ \A p : NodesOf(q, p) = NodesOf(RemoveAt(q, k), p)
                                       + (IF q[k].s = p THEN 1 ELSE 0)
<1> DEFINE r == RemoveAt(q, k)
           at == [i \in 1 .. Len(q) - 1 |-> IF i < k THEN i ELSE i + 1]
<1>1. DOMAIN q = 1 .. Len(q) /\ Len(q) \in Nat
  OBVIOUS
<1>2. /\ r \in Seq(Notification) /\ DOMAIN r = 1 .. Len(q) - 1
      /\ \A i \in 1 .. Len(q) - 1 : r[i] = q[IF i < k THEN i ELSE i + 1]
  <2> DEFINE a == SubSeq(q, 1, k - 1)
             b == SubSeq(q, k + 1, Len(q))
  <2>1. /\ a \in Seq(Notification) /\ Len(a) = k - 1
        /\ \A i \in 1 .. k - 1 : a[i] = q[i]
    BY <1>1
  <2>2. /\ b \in Seq(Notification) /\ Len(b) = Len(q) - k
        /\ \A i \in 1 .. Len(q) - k : b[i] = q[k + i]
    BY <1>1
  <2>3. r = a \o b
    BY DEF RemoveAt
  <2> HIDE DEF a, b, r
  <2>4. /\ a \o b \in Seq(Notification) /\ Len(a \o b) = Len(q) - 1
        /\ \A i \in 1 .. Len(q) - 1 : (a \o b)[i] = IF i <= Len(a) THEN a[i] ELSE b[i - Len(a)]
    <3>1. /\ a \o b \in Seq(Notification) /\ Len(a \o b) = Len(a) + Len(b)
          /\ \A i \in 1 .. Len(a) + Len(b) :
                (a \o b)[i] = IF i <= Len(a) THEN a[i] ELSE b[i - Len(a)]
      BY <2>1, <2>2
    <3>2. Len(a) + Len(b) = Len(q) - 1
      BY <1>1, <2>1, <2>2
    <3> QED BY <3>1, <3>2
  <2>5. ASSUME NEW i \in 1 .. Len(q) - 1
        PROVE  (a \o b)[i] = q[IF i < k THEN i ELSE i + 1]
    <3>1. CASE i < k
      BY <1>1, <2>1, <2>4, <3>1
    <3>2. CASE ~(i < k)
      <4>1. (a \o b)[i] = b[i - (k - 1)]
        BY <1>1, <2>1, <2>4, <3>2
      <4>2. i - (k - 1) \in 1 .. Len(q) - k /\ k + (i - (k - 1)) = i + 1
        BY <1>1, <3>2
      <4> QED BY <2>2, <3>2, <4>1, <4>2
    <3> QED BY <3>1, <3>2
  <2> QED BY <2>3, <2>4, <2>5
<1> HIDE DEF r
<1>3. /\ at \in [DOMAIN r -> DOMAIN q]
      /\ \A i, j \in DOMAIN r : at[i] = at[j] => i = j
      /\ \A i \in DOMAIN r : r[i].s = q[at[i]].s
  BY <1>1, <1>2
<1>4. Range(at) = DOMAIN q \ {k}
  <2>1. ASSUME NEW j \in DOMAIN q, j # k PROVE j \in Range(at)
    <3>1. CASE j < k
      <4>1. j \in DOMAIN at /\ at[j] = j
        BY <1>1, <3>1
      <4> QED BY <4>1 DEF Range
    <3>2. CASE j > k
      <4>1. j - 1 \in DOMAIN at /\ at[j - 1] = j
        BY <1>1, <3>2
      <4> QED BY <4>1 DEF Range
    <3> QED BY <1>1, <2>1, <3>1, <3>2
  <2>2. ASSUME NEW i \in DOMAIN at PROVE at[i] \in DOMAIN q /\ at[i] # k
    BY <1>1
  <2> HIDE DEF at
  <2> QED BY <2>1, <2>2 DEF Range
<1> HIDE DEF at
<1>5. Embeds(at, r, q, {k})
  BY <1>3, <1>4 DEF Embeds
<1> QED BY <1>2, <1>5, WithoutOne DEF r

\* So does taking the first one.
LEMMA TailCount ==
    ASSUME NEW q \in Seq(Notification), q # <<>>
    PROVE  /\ Tail(q) \in Seq(Notification)
           /\ \A p : NodesOf(q, p) = NodesOf(Tail(q), p) + (IF Head(q).s = p THEN 1 ELSE 0)
<1> DEFINE r == Tail(q)
           at == [i \in 1 .. Len(q) - 1 |-> i + 1]
<1>1. DOMAIN q = 1 .. Len(q) /\ Len(q) \in Nat \ {0} /\ Head(q) = q[1]
  OBVIOUS
<1>2. /\ r \in Seq(Notification) /\ DOMAIN r = 1 .. Len(q) - 1
      /\ \A i \in 1 .. Len(q) - 1 : r[i] = q[i + 1]
  BY <1>1
<1> HIDE DEF r
<1>3. /\ at \in [DOMAIN r -> DOMAIN q]
      /\ \A i, j \in DOMAIN r : at[i] = at[j] => i = j
      /\ \A i \in DOMAIN r : r[i].s = q[at[i]].s
  BY <1>1, <1>2
<1>4. Range(at) = DOMAIN q \ {1}
  <2>1. ASSUME NEW j \in DOMAIN q, j # 1 PROVE j \in Range(at)
    <3>1. j - 1 \in DOMAIN at /\ at[j - 1] = j
      BY <1>1, <2>1
    <3> QED BY <3>1 DEF Range
  <2>2. ASSUME NEW i \in DOMAIN at PROVE at[i] \in DOMAIN q /\ at[i] # 1
    BY <1>1
  <2> HIDE DEF at
  <2> QED BY <2>1, <2>2 DEF Range
<1> HIDE DEF at
<1>5. Embeds(at, r, q, {1})
  BY <1>3, <1>4 DEF Embeds
<1>6. 1 \in DOMAIN q
  BY <1>1
<1>7. \A p : NodesOf(q, p) = NodesOf(r, p) + (IF q[1].s = p THEN 1 ELSE 0)
  BY <1>2, <1>5, <1>6, WithoutOne
<1> QED BY <1>1, <1>2, <1>7 DEF r

\* Inserting a node gives one to its peer.
LEMMA InsertCount ==
    ASSUME NEW q \in Seq(Notification), NEW n \in Notification, NEW k \in 1 .. Len(q) + 1
    PROVE  /\ InsertAt(q, k, n) \in Seq(Notification)
           /\ \A p : NodesOf(InsertAt(q, k, n), p)
                       = NodesOf(q, p) + (IF n.s = p THEN 1 ELSE 0)
<1> DEFINE r == InsertAt(q, k, n)
           at == [i \in 1 .. Len(q) |-> IF i < k THEN i ELSE i + 1]
<1>1. DOMAIN q = 1 .. Len(q) /\ Len(q) \in Nat
  OBVIOUS
<1>2. /\ r \in Seq(Notification) /\ DOMAIN r = 1 .. Len(q) + 1
      /\ \A i \in 1 .. Len(q) : r[IF i < k THEN i ELSE i + 1] = q[i]
      /\ r[k] = n
  <2> DEFINE a == SubSeq(q, 1, k - 1)
             b == SubSeq(q, k, Len(q))
  <2>1. /\ a \in Seq(Notification) /\ Len(a) = k - 1
        /\ \A i \in 1 .. k - 1 : a[i] = q[i]
    BY <1>1
  <2>2. /\ b \in Seq(Notification) /\ Len(b) = Len(q) - k + 1
        /\ \A i \in 1 .. Len(q) - k + 1 : b[i] = q[k + i - 1]
    BY <1>1
  <2>3. r = a \o <<n>> \o b
    BY DEF InsertAt
  <2> HIDE DEF a, b, r
  <2>4. /\ a \o <<n>> \in Seq(Notification) /\ Len(a \o <<n>>) = k
        /\ (a \o <<n>>)[k] = n
        /\ \A i \in 1 .. k - 1 : (a \o <<n>>)[i] = a[i]
    BY <1>1, <2>1
  <2> DEFINE c == a \o <<n>>
  <2> HIDE DEF c
  <2>5. /\ c \o b \in Seq(Notification) /\ Len(c \o b) = Len(q) + 1
        /\ \A i \in 1 .. Len(q) + 1 : (c \o b)[i] = IF i <= Len(c) THEN c[i] ELSE b[i - Len(c)]
    <3>1. c \in Seq(Notification) /\ Len(c) = k
      BY <2>4 DEF c
    <3>2. /\ c \o b \in Seq(Notification) /\ Len(c \o b) = Len(c) + Len(b)
          /\ \A i \in 1 .. Len(c) + Len(b) :
                (c \o b)[i] = IF i <= Len(c) THEN c[i] ELSE b[i - Len(c)]
      BY <1>1, <2>2, <3>1
    <3>3. Len(c) + Len(b) = Len(q) + 1
      BY <1>1, <2>2, <3>1
    <3> QED BY <3>2, <3>3
  <2>6. (c \o b)[k] = n
    BY <1>1, <2>4, <2>5 DEF c
  <2>7. ASSUME NEW i \in 1 .. Len(q)
        PROVE  (c \o b)[IF i < k THEN i ELSE i + 1] = q[i]
    <3>1. CASE i < k
      BY <1>1, <2>1, <2>4, <2>5, <3>1 DEF c
    <3>2. CASE ~(i < k)
      <4>1. (c \o b)[i + 1] = b[i + 1 - k]
        BY <1>1, <2>4, <2>5, <3>2 DEF c
      <4>2. i + 1 - k \in 1 .. Len(q) - k + 1 /\ k + (i + 1 - k) - 1 = i
        BY <1>1, <3>2
      <4> QED BY <2>2, <3>2, <4>1, <4>2
    <3> QED BY <3>1, <3>2
  <2>8. r = c \o b
    BY <2>3 DEF c
  <2>9. DOMAIN (c \o b) = 1 .. Len(q) + 1
    BY <2>5
  <2> QED BY <2>5, <2>6, <2>7, <2>8, <2>9
<1> HIDE DEF r
<1>3. /\ at \in [DOMAIN q -> DOMAIN r]
      /\ \A i, j \in DOMAIN q : at[i] = at[j] => i = j
      /\ \A i \in DOMAIN q : q[i].s = r[at[i]].s
  BY <1>1, <1>2
<1>4. Range(at) = DOMAIN r \ {k}
  <2>1. ASSUME NEW j \in DOMAIN r, j # k PROVE j \in Range(at)
    <3>1. CASE j < k
      <4>1. j \in DOMAIN at /\ at[j] = j
        BY <1>1, <1>2, <3>1
      <4> QED BY <4>1 DEF Range
    <3>2. CASE j > k
      <4>1. j - 1 \in DOMAIN at /\ at[j - 1] = j
        BY <1>1, <1>2, <3>2
      <4> QED BY <4>1 DEF Range
    <3> QED BY <1>1, <1>2, <2>1, <3>1, <3>2
  <2>2. ASSUME NEW i \in DOMAIN at PROVE at[i] \in DOMAIN r /\ at[i] # k
    BY <1>1, <1>2
  <2> HIDE DEF at
  <2> QED BY <2>1, <2>2 DEF Range
<1>5. k \in DOMAIN r
  BY <1>1, <1>2
<1> HIDE DEF at
<1>6. Embeds(at, q, r, {k})
  BY <1>3, <1>4 DEF Embeds
<1> QED BY <1>2, <1>5, <1>6, WithoutOne DEF r

\* Cancelling takes all nodes of one peer, and none of the others.
LEMMA CancelledCount ==
    ASSUME NEW q \in Seq(Notification), NEW p, NEW w \in Cancelled(q, p)
    PROVE  /\ w \in Seq(Notification)
           /\ NodesOf(w, p) = 0
           /\ \A x : x # p => NodesOf(w, x) = NodesOf(q, x)
<1> DEFINE kept == {k \in DOMAIN q : q[k].s # p}
           n == Cardinality(kept)
<1>1. DOMAIN q = 1 .. Len(q) /\ Len(q) \in Nat /\ \A i \in DOMAIN q : q[i] \in Notification
  OBVIOUS
<1>2. n \in Nat
  <2>1. IsFiniteSet(1 .. Len(q))
    BY <1>1, FS_Interval
  <2>2. IsFiniteSet(kept)
    BY <1>1, <2>1, FS_Subset
  <2> QED BY <2>2, FS_CardinalityType
<1>3. PICK at \in [1 .. n -> kept] :
         /\ \A i, j \in 1 .. n : i < j => at[i] < at[j]
         /\ Range(at) = kept
         /\ w = [i \in DOMAIN at |-> q[at[i]]]
  BY DEF Cancelled, Ascents
<1> HIDE DEF n
<1>4. /\ DOMAIN w = 1 .. n
      /\ \A i \in 1 .. n : w[i] = q[at[i]] /\ at[i] \in DOMAIN q /\ q[at[i]].s # p
  BY <1>3
<1>5. w \in Seq(Notification)
  BY <1>1, <1>2, <1>3, <1>4
<1>6. at \in [DOMAIN w -> DOMAIN q] /\ \A i \in DOMAIN w : w[i].s = q[at[i]].s
  BY <1>3, <1>4
<1>7. \A i, j \in DOMAIN w : at[i] = at[j] => i = j
  <2> SUFFICES ASSUME NEW i \in 1 .. n, NEW j \in 1 .. n, at[i] = at[j], i # j
               PROVE  FALSE
    BY <1>4
  <2>1. i < j \/ j < i
    BY <1>2
  <2> QED BY <1>1, <1>3, <1>4, <2>1
<1>8. Range(at) = DOMAIN q \ Places(q, p)
  BY <1>3 DEF Places
<1>9. \A x : NodesOf(w, x) = Cardinality(Places(q, x) \ Places(q, p))
  <2>1. Embeds(at, w, q, Places(q, p))
    BY <1>6, <1>7, <1>8 DEF Embeds
  <2> QED BY <1>5, <2>1, Recount
<1>10. /\ Places(q, p) \ Places(q, p) = {}
       /\ \A x : x # p => Places(q, x) \ Places(q, p) = Places(q, x)
  BY DEF Places
<1> QED BY <1>5, <1>9, <1>10, NodesType, FS_EmptySet

\* A round of confirmable notifications gives one node to each peer in S.
LEMMA EnqueueCount ==
    ASSUME NEW q \in Seq(Notification), NEW S, S \subseteq Peers, IsFiniteSet(S),
           NEW r \in Enqueue(q, S)
    PROVE  /\ r \in Seq(Notification)
           /\ \A p : NodesOf(r, p) = NodesOf(q, p) + (IF p \in S THEN 1 ELSE 0)
<1> DEFINE N == Len(q) + Cardinality(S)
           notified == [s : S, id : Mids, cnt : {0}]
<1>1. DOMAIN q = 1 .. Len(q) /\ Len(q) \in Nat /\ \A i \in DOMAIN q : q[i] \in Notification
  OBVIOUS
<1>2. N \in Nat
  BY <1>1, FS_CardinalityType
<1>3. PICK at \in [1 .. Len(q) -> 1 .. N], new \in [S -> 1 .. N] :
         /\ \A i, j \in 1 .. Len(q) : i < j => at[i] < at[j]
         /\ \A i \in 1 .. Len(q) : r[at[i]] = q[i]
         /\ \A p \in S : r[new[p]] \in notified /\ r[new[p]].s = p
         /\ Range(at) \cup Range(new) = 1 .. N
         /\ Range(at) \cap Range(new) = {}
  BY DEF Enqueue, Ascents
<1>4. r \in [1 .. N -> Range(q) \cup notified]
  BY DEF Enqueue
<1>5. notified \subseteq Notification
  BY SrvAssumption DEF Notification
<1> HIDE DEF N, notified
<1>6. r \in Seq(Notification) /\ DOMAIN r = 1 .. N
  <2>1. r \in [1 .. N -> Notification]
    BY <1>1, <1>4, <1>5 DEF Range
  <2> QED BY <1>2, <2>1
<1>7. \A i, j \in DOMAIN q : at[i] = at[j] => i = j
  <2> SUFFICES ASSUME NEW i \in 1 .. Len(q), NEW j \in 1 .. Len(q), at[i] = at[j], i # j
               PROVE  FALSE
    BY <1>1
  <2>1. i < j \/ j < i
    BY <1>1
  <2>2. at[i] \in Int /\ at[j] \in Int
    BY <1>2, <1>3
  <2> QED BY <1>3, <2>1, <2>2
<1>8. at \in [DOMAIN q -> DOMAIN r] /\ \A i \in DOMAIN q : q[i].s = r[at[i]].s
  BY <1>1, <1>3, <1>6
<1>9. Range(at) = DOMAIN r \ Range(new)
  BY <1>3, <1>6
<1>10. ASSUME NEW p
       PROVE  NodesOf(r, p) = NodesOf(q, p) + (IF p \in S THEN 1 ELSE 0)
  <2>1. NodesOf(q, p) = Cardinality(Places(r, p) \ Range(new))
    <3>1. Embeds(at, q, r, Range(new))
      BY <1>7, <1>8, <1>9 DEF Embeds
    <3> QED BY <1>6, <3>1, Recount
  <2>2. /\ IsFiniteSet(Places(r, p)) /\ NodesOf(r, p) = Cardinality(Places(r, p))
        /\ NodesOf(r, p) \in Nat
    BY <1>6, NodesType
  <2>3. CASE p \in S
    <3>1. Places(r, p) \ Range(new) = Places(r, p) \ {new[p]} /\ new[p] \in Places(r, p)
      BY <1>3, <1>6, <2>3 DEF Places, Range
    <3>2. Cardinality(Places(r, p) \ {new[p]}) = Cardinality(Places(r, p)) - 1
      BY <2>2, <3>1, FS_RemoveElement
    <3>3. NodesOf(q, p) = NodesOf(r, p) - 1
      BY <2>1, <2>2, <3>1, <3>2
    <3> QED BY <2>2, <2>3, <3>3
  <2>4. CASE p \notin S
    <3>1. Places(r, p) \ Range(new) = Places(r, p)
      BY <1>3, <2>4 DEF Places, Range
    <3>2. NodesOf(q, p) = NodesOf(r, p)
      BY <2>1, <2>2, <3>1
    <3> QED BY <2>2, <2>4, <3>2
  <2> QED BY <2>3, <2>4
<1> QED BY <1>6, <1>10

-----------------------------------------------------------------------------
(* The references of the sessions.                                         *)

LEMMA ReleasedType ==
    ASSUME ref \in [Peers -> Nat], NEW p \in Peers, NEW n \in Nat, n <= ref[p]
    PROVE  /\ Released(ref, p, n) \in [Peers -> Nat]
           /\ \A x \in Peers : Released(ref, p, n)[x] = IF x = p THEN ref[x] - n ELSE ref[x]
<1>1. ref[p] \in Nat
  OBVIOUS
<1>2. (IF ref[p] > n THEN ref[p] - n ELSE 0) = ref[p] - n /\ ref[p] - n \in Nat
  BY <1>1
<1>3. Released(ref, p, n) = [ref EXCEPT ![p] = ref[p] - n]
  BY <1>2 DEF Released
<1> QED BY <1>2, <1>3

\* coap_endpoint_get_session: only a session without references is evicted.
LEMMA GetSessionKeeps ==
    ASSUME RefsExact, NEW p \in Peers, NEW S \in GetSession(p)
    PROVE  S \subseteq Peers /\ p \in S /\ \A x \in Peers : ref[x] > 0 => x \in S
<1>1. /\ live \subseteq Peers /\ ref \in [Peers -> Nat]
      /\ \A x \in Peers : ref[x] > 0 => x \in live
  BY DEF RefsExact, SrvTypeOK
<1>2. (S = live /\ p \in live) \/ S = live \cup {p} \/ \E o \in Idle : S = (live \ {o}) \cup {p}
  BY DEF GetSession
<1>3. ASSUME NEW o \in Idle, NEW x \in Peers, ref[x] > 0 PROVE x # o
  BY <1>1, <1>3 DEF Idle
<1> QED BY <1>1, <1>2, <1>3 DEF Idle

\* artik_coap_remove_from_queue finds a node of the queue or nothing.
LEMMA PositionType ==
    ASSUME NEW p, NEW i, waiting \in Seq(Notification)
    PROVE  Position(p, i) = 0 \/ Position(p, i) \in DOMAIN waiting
<1> DEFINE rest == {k \in 2 .. Len(waiting) : waiting[k].s = p \/ waiting[k].id = i}
<1>1. DOMAIN waiting = 1 .. Len(waiting) /\ Len(waiting) \in Nat
  OBVIOUS
<1>2. CASE waiting # <<>> /\ waiting[1].s = p /\ waiting[1].id = i
  <2>1. Position(p, i) = 1
    BY <1>2 DEF Position
  <2>2. Len(waiting) # 0
    BY <1>2
  <2> QED BY <1>1, <2>1, <2>2
<1>3. CASE ~(waiting # <<>> /\ waiting[1].s = p /\ waiting[1].id = i) /\ rest = {}
  BY <1>3 DEF Position
<1>4. CASE ~(waiting # <<>> /\ waiting[1].s = p /\ waiting[1].id = i) /\ rest # {}
  <2>1. Position(p, i) = CHOOSE k \in rest : \A l \in rest : k <= l
    BY <1>4 DEF Position
  <2>2. rest \in SUBSET Nat
    BY <1>1
  <2>3. rest \subseteq DOMAIN waiting
    BY <1>1
  <2> HIDE DEF rest
  <2>4. \E k \in rest : \A l \in rest : k <= l
    BY <1>4, <2>2, LeastNatural
  <2> QED BY <2>1, <2>3, <2>4
<1> QED BY <1>2, <1>3, <1>4

On(subs, p) == IF subs[p].on THEN 1 ELSE 0

Started == server = "started"

\* RefsExact as numbers: On is 1 for an observer and 0 for others.
LEMMA Totals ==
    ASSUME RefsExact
    PROVE  /\ ref \in [Peers -> Nat]
           /\ waiting \in Seq(Notification)
           /\ subscribers \in [Peers -> Subscription]
           /\ live \subseteq Peers
           /\ \A p \in Peers : NodesOf(waiting, p) \in Nat
           /\ \A p \in Peers : ref[p] = NodesOf(waiting, p) + On(subscribers, p)
           /\ \A p \in Peers : ref[p] > 0 => p \in live
<1>1. waiting \in Seq(Notification)
  BY DEF RefsExact, SrvTypeOK
<1>2. \A p \in Peers : NodesOf(waiting, p) \in Nat
  BY <1>1, NodesType
<1> QED BY <1>1, <1>2 DEF RefsExact, SrvTypeOK, On

\* What the counts say does not depend on.
Marks ==
    /\ server \in {"none", "created", "started"}
    /\ observable \in BOOLEAN /\ notify_con \in BOOLEAN
    /\ dirty \in BOOLEAN /\ notifying \in BOOLEAN
    /\ stale \subseteq Peers

LEMMA Flagged == RefsExact => Marks
BY DEF RefsExact, SrvTypeOK, Marks

\* And back, from the numbers of the next state.
LEMMA Conclude ==
    ASSUME Marks', live' \subseteq Peers, ref' \in [Peers -> Nat],
           waiting' \in Seq(Notification), subscribers' \in [Peers -> Subscription],
           \A p \in Peers : ref'[p] = NodesOf(waiting', p) + On(subscribers', p),
           \A p \in Peers : ref'[p] > 0 => p \in live',
           Started' \/ live' = {}
    PROVE  RefsExact'
<1>1. SrvTypeOK'
  BY DEF SrvTypeOK, Marks
<1>2. server' = "none" => live' = {}
  BY DEF Started
<1> QED BY <1>1, <1>2 DEF RefsExact, On

LEMMA Limits == MaxFail \in Nat /\ MaxNon \in Nat /\ SrvRetransmit \in Nat
BY SrvAssumption

LEMMA SubscriptionType ==
    /\ NoSubscription \in Subscription /\ ~NoSubscription.on
    /\ [NoSubscription EXCEPT !.on = TRUE] \in Subscription
    /\ [NoSubscription EXCEPT !.on = TRUE].on
<1>1. 0 \in 0 .. MaxFail /\ 0 \in 0 .. MaxNon
  BY Limits
<1>2. NoSubscription \in Subscription /\ ~NoSubscription.on
  BY <1>1 DEF NoSubscription, Subscription
<1>3. [NoSubscription EXCEPT !.on = TRUE] \in Subscription
  BY <1>2 DEF Subscription
<1>4. [NoSubscription EXCEPT !.on = TRUE].on
  BY <1>2 DEF Subscription
<1> QED BY <1>2, <1>3, <1>4

LEMMA ServerInitial == SrvInit => RefsExact
<1> SUFFICES ASSUME SrvInit PROVE RefsExact
  OBVIOUS
<1> USE DEF SrvInit
<1>1. SrvTypeOK
  <2>1. <<>> \in Seq(Notification)
    OBVIOUS
  <2>2. subscribers \in [Peers -> Subscription]
    BY SubscriptionType
  <2> QED BY <2>1, <2>2 DEF SrvTypeOK
<1>2. ASSUME NEW p \in Peers
      PROVE  ref[p] = 0 /\ NodesOf(waiting, p) = 0 /\ ~subscribers[p].on
  <2>1. {k \in DOMAIN waiting : waiting[k].s = p} = {}
    OBVIOUS
  <2>2. NodesOf(waiting, p) = 0
    BY <2>1, FS_EmptySet DEF NodesOf
  <2> QED BY <2>2, SubscriptionType
<1> QED BY <1>1, <1>2 DEF RefsExact

\* artik_coap_free_context: queue, observers and sessions go together.
LEMMA DestroyKeeps == ASSUME RefsExact, DestroyServer PROVE RefsExact'
<1> DEFINE r == [p \in Peers |-> ref[p] - NodesOf(waiting, p)
                                        - (IF subscribers[p].on THEN 1 ELSE 0)]
<1>1. /\ live' = {p \in live : r[p] # 0} /\ ref' = r
      /\ waiting' = <<>>
      /\ subscribers' = [p \in Peers |-> NoSubscription]
  BY DEF DestroyServer
<1>2. Marks'
  BY Flagged DEF DestroyServer, Marks
<1>3. \A p \in Peers : r[p] = 0
  BY Totals DEF On
<1>4. live' = {}
  BY <1>1, <1>3, Totals
<1>5. ref' \in [Peers -> Nat]
  BY <1>1, <1>3
<1>6. waiting' \in Seq(Notification)
  BY <1>1
<1>7. subscribers' \in [Peers -> Subscription]
  BY <1>1, SubscriptionType
<1>8. ASSUME NEW p \in Peers
      PROVE  ref'[p] = 0 /\ NodesOf(waiting', p) = 0 /\ On(subscribers', p) = 0
  <2>1. {k \in DOMAIN waiting' : waiting'[k].s = p} = {}
    BY <1>1
  <2>2. NodesOf(waiting', p) = 0
    BY <2>1, FS_EmptySet DEF NodesOf
  <2> QED BY <1>1, <1>3, <2>2, SubscriptionType DEF On
<1> QED BY <1>2, <1>4, <1>5, <1>6, <1>7, <1>8, Conclude

\* artik_coap_add_observer: an observer takes one reference, once.
LEMMA AddKeeps ==
    ASSUME RefsExact, NEW p \in Peers, AddObserver(p)
    PROVE  /\ ref' \in [Peers -> Nat] /\ subscribers' \in [Peers -> Subscription]
           /\ \A x \in Peers : ref'[x] = NodesOf(waiting, x) + On(subscribers', x)
           /\ \A x \in Peers : x # p => ref'[x] = ref[x]
<1>1. /\ ref \in [Peers -> Nat] /\ subscribers \in [Peers -> Subscription]
      /\ \A x \in Peers : NodesOf(waiting, x) \in Nat
      /\ \A x \in Peers : ref[x] = NodesOf(waiting, x) + On(subscribers, x)
  BY Totals
<1>2. CASE subscribers[p].on
  <2>1. /\ subscribers' = [subscribers EXCEPT ![p] = [subscribers[p] EXCEPT !.fail_cnt = 0]]
        /\ ref' = ref
    BY <1>1, <1>2 DEF AddObserver
  <2>2. [subscribers[p] EXCEPT !.fail_cnt = 0] \in Subscription
    BY <1>1, Limits DEF Subscription
  <2>3. [subscribers[p] EXCEPT !.fail_cnt = 0].on = subscribers[p].on
    BY <1>1 DEF Subscription
  <2>4. \A x \in Peers : On(subscribers', x) = On(subscribers, x)
    BY <1>1, <2>1, <2>3 DEF On
  <2> QED BY <1>1, <2>1, <2>2, <2>4
<1>3. CASE ~subscribers[p].on
  <2>1. /\ subscribers' = [subscribers EXCEPT ![p] = [NoSubscription EXCEPT !.on = TRUE]]
        /\ ref' = [ref EXCEPT ![p] = ref[p] + 1]
    BY <1>1, <1>3 DEF AddObserver
  <2>2. \A x \in Peers : On(subscribers', x) = IF x = p THEN 1 ELSE On(subscribers, x)
    BY <1>1, <2>1, SubscriptionType DEF On
  <2>3. On(subscribers, p) = 0
    BY <1>3 DEF On
  <2>4. subscribers' \in [Peers -> Subscription]
    BY <1>1, <2>1, SubscriptionType
  <2>5. /\ ref' \in [Peers -> Nat]
        /\ \A x \in Peers : ref'[x] = IF x = p THEN ref[x] + 1 ELSE ref[x]
    BY <1>1, <2>1
  <2>6. \A x \in Peers : ref'[x] = NodesOf(waiting, x) + On(subscribers', x)
    BY <1>1, <2>2, <2>3, <2>5
  <2> QED BY <2>4, <2>5, <2>6
<1> QED BY <1>2, <1>3

\* coap_delete_observer: only an observer gives one back.
LEMMA DeleteKeeps ==
    ASSUME RefsExact, NEW p \in Peers, DeleteObserver(p)
    PROVE  /\ ref' \in [Peers -> Nat] /\ subscribers' \in [Peers -> Subscription]
           /\ \A x \in Peers : ref'[x] = NodesOf(waiting, x) + On(subscribers', x)
           /\ \A x \in Peers : x # p => ref'[x] = ref[x]
<1>1. /\ ref \in [Peers -> Nat] /\ subscribers \in [Peers -> Subscription]
      /\ \A x \in Peers : NodesOf(waiting, x) \in Nat
      /\ \A x \in Peers : ref[x] = NodesOf(waiting, x) + On(subscribers, x)
  BY Totals
<1>2. /\ subscribers' = [subscribers EXCEPT ![p] = NoSubscription]
      /\ ref' = IF subscribers[p].on THEN Released(ref, p, 1) ELSE ref
  BY DEF DeleteObserver
<1>3. subscribers' \in [Peers -> Subscription]
  BY <1>1, <1>2, SubscriptionType
<1>4. \A x \in Peers : On(subscribers', x) = IF x = p THEN 0 ELSE On(subscribers, x)
  BY <1>1, <1>2, SubscriptionType DEF On
<1>5. CASE subscribers[p].on
  <2>1. On(subscribers, p) = 1
    BY <1>5 DEF On
  <2>2. 1 <= ref[p] /\ ref' = Released(ref, p, 1)
    BY <1>1, <1>2, <1>5, <2>1
  <2>3. /\ ref' \in [Peers -> Nat]
        /\ \A x \in Peers : ref'[x] = IF x = p THEN ref[x] - 1 ELSE ref[x]
    BY <1>1, <2>2, ReleasedType
  <2> QED BY <1>1, <1>3, <1>4, <2>1, <2>3
<1>6. CASE ~subscribers[p].on
  <2>1. On(subscribers, p) = 0 /\ ref' = ref
    BY <1>2, <1>6 DEF On
  <2> QED BY <1>1, <1>3, <1>4, <2>1
<1> QED BY <1>5, <1>6

\* A request ends with what it did to the subscription of its peer.
LEMMA RequestKeeps ==
    ASSUME RefsExact, NEW p \in Peers, NEW what, NEW refused, HandleRequest(p, what, refused)
    PROVE  RefsExact'
<1>1. /\ Started' /\ live' \in GetSession(p) /\ waiting' = waiting
      /\ AddObserver(p) \/ DeleteObserver(p) \/ UNCHANGED <<subscribers, ref>>
  BY DEF HandleRequest, Serving, Started
<1>2. Marks'
  <2>1. /\ stale' \subseteq stale
        /\ UNCHANGED <<server, observable, notify_con, dirty, notifying>>
    BY DEF HandleRequest
  <2> QED BY <2>1, Flagged DEF Marks
<1>3. /\ ref' \in [Peers -> Nat] /\ subscribers' \in [Peers -> Subscription]
      /\ \A x \in Peers : ref'[x] = NodesOf(waiting, x) + On(subscribers', x)
      /\ \A x \in Peers : x # p => ref'[x] = ref[x]
  <2>1. CASE UNCHANGED <<subscribers, ref>>
    <3>1. \A x \in Peers : On(subscribers', x) = On(subscribers, x)
      BY <2>1 DEF On
    <3> QED BY <2>1, <3>1, Totals
  <2>2. CASE AddObserver(p)
    BY <2>2, AddKeeps
  <2>3. CASE DeleteObserver(p)
    BY <2>3, DeleteKeeps
  <2> QED BY <1>1, <2>1, <2>2, <2>3
<1>4. live' \subseteq Peers /\ p \in live' /\ \A x \in Peers : ref[x] > 0 => x \in live'
  BY <1>1, GetSessionKeeps
<1>5. \A x \in Peers : ref'[x] > 0 => x \in live'
  BY <1>3, <1>4
<1>6. waiting' \in Seq(Notification)
  BY <1>1, Totals
<1> QED BY <1>1, <1>2, <1>3, <1>4, <1>5, <1>6, Conclude

\* Some nodes of one peer leave the queue with their references, and perhaps its
\* observation.
LEMMA FewerKeep ==
    ASSUME RefsExact, Started', Marks',
           live' \subseteq Peers, \A x \in Peers : ref[x] > 0 => x \in live',
           waiting' \in Seq(Notification),
           subscribers' \in [Peers -> Subscription],
           NEW o \in Peers, NEW n \in Nat, ref' = Released(ref, o, n),
           ref[o] = NodesOf(waiting', o) + On(subscribers', o) + n,
           \A x \in Peers : x # o => NodesOf(waiting', x) = NodesOf(waiting, x),
           \A x \in Peers : x # o => On(subscribers', x) = On(subscribers, x)
    PROVE  RefsExact'
<1>1. /\ ref \in [Peers -> Nat]
      /\ \A x \in Peers : NodesOf(waiting, x) \in Nat
      /\ \A x \in Peers : ref[x] = NodesOf(waiting, x) + On(subscribers, x)
  BY Totals
<1>2. NodesOf(waiting', o) \in Nat /\ On(subscribers', o) \in Nat
  BY NodesType DEF On
<1>3. n <= ref[o]
  BY <1>2
<1>4. /\ ref' \in [Peers -> Nat]
      /\ \A x \in Peers : ref'[x] = IF x = o THEN ref[x] - n ELSE ref[x]
  BY <1>1, <1>3, ReleasedType
<1>5. ASSUME NEW x \in Peers
      PROVE  ref'[x] = NodesOf(waiting', x) + On(subscribers', x)
  <2>1. CASE x = o
    <3>1. ref'[o] = ref[o] - n
      BY <1>4
    <3> QED BY <1>2, <2>1, <3>1
  <2>2. CASE x # o
    BY <1>1, <1>4, <2>2
  <2> QED BY <2>1, <2>2
<1>6. \A x \in Peers : ref'[x] > 0 => x \in live'
  BY <1>1, <1>4
<1> QED BY <1>4, <1>5, <1>6, Conclude

\* An acknowledgement or a reset gives back the reference of the node it
\* removes, which may be that of another peer.
LEMMA AckKeeps ==
    ASSUME RefsExact, NEW p \in Peers, NEW i, HandleAck(p, i) \/ HandleReset(p, i)
    PROVE  RefsExact'
<1> DEFINE k == Position(p, i)
           o == waiting[k].s
           q == RemoveAt(waiting, k)
<1>1. Started' /\ live' \in GetSession(p)
  BY DEF HandleAck, HandleReset, Serving, Started
<1>2. /\ ref \in [Peers -> Nat] /\ subscribers \in [Peers -> Subscription]
      /\ waiting \in Seq(Notification)
      /\ \A x \in Peers : NodesOf(waiting, x) \in Nat
      /\ \A x \in Peers : ref[x] = NodesOf(waiting, x) + On(subscribers, x)
  BY Totals
<1>3. live' \subseteq Peers /\ \A x \in Peers : ref[x] > 0 => x \in live'
  BY <1>1, GetSessionKeeps
<1>4. \/ UNCHANGED <<waiting, ref, subscribers>>
      \/ k # 0 /\ waiting' = q /\ ref' = Released(ref, o, 1) /\ UNCHANGED subscribers
      \/ /\ k # 0 /\ waiting' \in Cancelled(q, o)
         /\ subscribers' = [subscribers EXCEPT ![o] = NoSubscription]
         /\ ref' = Released(ref, o, 1 + NodesOf(q, o) + (IF subscribers[o].on THEN 1 ELSE 0))
  BY DEF HandleAck, HandleReset
<1>5. Marks'
  <2>1. /\ stale' = stale \/ stale' = stale \ {o}
        /\ UNCHANGED <<server, observable, notify_con, dirty, notifying>>
    BY DEF HandleAck, HandleReset
  <2> QED BY <2>1, Flagged DEF Marks
<1>6. k = 0 \/ k \in DOMAIN waiting
  BY <1>2, PositionType
<1> HIDE DEF k
<1>7. CASE UNCHANGED <<waiting, ref, subscribers>>
  <2>1. \A x \in Peers : On(subscribers', x) = On(subscribers, x)
    BY <1>7 DEF On
  <2> QED BY <1>1, <1>2, <1>3, <1>5, <1>7, <2>1, Conclude
<1>8. CASE k \in DOMAIN waiting
  <2>1. /\ q \in Seq(Notification)
        /\ \A x : NodesOf(waiting, x) = NodesOf(q, x) + (IF waiting[k].s = x THEN 1 ELSE 0)
    BY <1>2, <1>8, RemoveCount
  <2>2. o \in Peers
    <3>1. waiting[k] \in Notification
      BY <1>2, <1>8
    <3> QED BY <3>1 DEF Notification
  <2>3. \A x : NodesOf(q, x) \in Nat
    BY <2>1, NodesType
  <2> HIDE DEF o, q
  <2>4. \A x : NodesOf(waiting, x) = NodesOf(q, x) + (IF o = x THEN 1 ELSE 0)
    BY <2>1 DEF o
  <2>5. /\ NodesOf(waiting, o) = NodesOf(q, o) + 1
        /\ \A x : x # o => NodesOf(waiting, x) = NodesOf(q, x)
    BY <2>3, <2>4
  <2>6. On(subscribers, o) \in Nat
    BY DEF On
  <2>7. CASE waiting' = q /\ ref' = Released(ref, o, 1) /\ UNCHANGED subscribers
    <3>1. \A x \in Peers : On(subscribers', x) = On(subscribers, x)
      BY <2>7 DEF On
    <3>2. ref[o] = NodesOf(waiting', o) + On(subscribers', o) + 1
      BY <1>2, <2>2, <2>3, <2>5, <2>6, <2>7, <3>1
    <3> QED BY <1>1, <1>2, <1>3, <1>5, <2>1, <2>2, <2>5, <2>7, <3>1, <3>2, FewerKeep
  <2>8. CASE /\ waiting' \in Cancelled(q, o)
             /\ subscribers' = [subscribers EXCEPT ![o] = NoSubscription]
             /\ ref' = Released(ref, o, 1 + NodesOf(q, o) + (IF subscribers[o].on THEN 1 ELSE 0))
    <3>1. /\ waiting' \in Seq(Notification) /\ NodesOf(waiting', o) = 0
          /\ \A x : x # o => NodesOf(waiting', x) = NodesOf(q, x)
      BY <2>1, <2>8, CancelledCount
    <3>2. subscribers' \in [Peers -> Subscription]
      BY <1>2, <2>2, <2>8, SubscriptionType
    <3>3. On(subscribers', o) = 0 /\ \A x \in Peers : x # o => On(subscribers', x) = On(subscribers, x)
      BY <1>2, <2>2, <2>8, SubscriptionType DEF On
    <3> DEFINE n == 1 + NodesOf(q, o) + On(subscribers, o)
    <3>4. n \in Nat /\ ref[o] = NodesOf(waiting', o) + On(subscribers', o) + n
      BY <1>2, <2>2, <2>3, <2>5, <2>6, <3>1, <3>3
    <3>5. ref' = Released(ref, o, n)
      BY <2>8 DEF On
    <3> HIDE DEF n
    <3>6. \A x \in Peers : x # o => NodesOf(waiting', x) = NodesOf(waiting, x)
      BY <2>5, <3>1
    <3> QED BY <1>1, <1>3, <1>5, <2>2, <3>1, <3>2, <3>3, <3>4, <3>5, <3>6, FewerKeep
  <2> QED BY <1>4, <1>7, <2>7, <2>8 DEF o, q
<1> QED BY <1>4, <1>6, <1>7, <1>8

\* artik_coap_retransmit: a node goes back into the queue, or gives its
\* reference back and may end the observation.
LEMMA RetransmitKeeps == ASSUME RefsExact, SrvRetransmits PROVE RefsExact'
<1> DEFINE n == Head(waiting)
           q == Tail(waiting)
           p == n.s
<1>1. Started' /\ waiting # <<>> /\ live' = live
  BY DEF SrvRetransmits, Serving, Started
<1>2. /\ ref \in [Peers -> Nat] /\ subscribers \in [Peers -> Subscription]
      /\ waiting \in Seq(Notification) /\ live \subseteq Peers
      /\ \A x \in Peers : NodesOf(waiting, x) \in Nat
      /\ \A x \in Peers : ref[x] = NodesOf(waiting, x) + On(subscribers, x)
      /\ \A x \in Peers : ref[x] > 0 => x \in live
  BY Totals
<1>3. live' \subseteq Peers /\ \A x \in Peers : ref[x] > 0 => x \in live'
  BY <1>1, <1>2
<1>4. Marks'
  <2>1. /\ stale' = stale \/ stale' = stale \ {p}
        /\ UNCHANGED <<server, observable, notify_con, dirty, notifying>>
    BY DEF SrvRetransmits
  <2> QED BY <2>1, Flagged DEF Marks
<1>5. n \in Notification /\ p \in Peers
  <2>1. n \in Notification
    BY <1>1, <1>2
  <2> QED BY <2>1 DEF Notification
<1>6. /\ q \in Seq(Notification)
      /\ \A x : NodesOf(waiting, x) = NodesOf(q, x) + (IF p = x THEN 1 ELSE 0)
  BY <1>1, <1>2, TailCount
<1>7. \A x : NodesOf(q, x) \in Nat
  BY <1>6, NodesType
<1>8. \/ /\ n.cnt < SrvRetransmit
         /\ \E k \in 1 .. Len(q) + 1 :
                 waiting' = InsertAt(q, k, [n EXCEPT !.cnt = @ + 1])
         /\ UNCHANGED <<subscribers, ref>>
      \/ /\ subscribers[p].on /\ subscribers[p].fail_cnt < MaxFail
         /\ waiting' = q
         /\ subscribers' = [subscribers EXCEPT ![p].fail_cnt = @ + 1]
         /\ ref' = Released(ref, p, 1)
      \/ /\ subscribers[p].on
         /\ waiting' \in Cancelled(q, p)
         /\ subscribers' = [subscribers EXCEPT ![p] = NoSubscription]
         /\ ref' = Released(ref, p, 2 + NodesOf(q, p))
      \/ /\ waiting' = q
         /\ ref' = Released(ref, p, 1)
         /\ UNCHANGED subscribers
  BY DEF SrvRetransmits
<1> HIDE DEF n, q, p
<1>9. /\ NodesOf(waiting, p) = NodesOf(q, p) + 1
      /\ \A x : x # p => NodesOf(waiting, x) = NodesOf(q, x)
  BY <1>6, <1>7
<1>10. On(subscribers, p) \in Nat
  BY DEF On
<1>11. CASE /\ n.cnt < SrvRetransmit
            /\ \E k \in 1 .. Len(q) + 1 :
                    waiting' = InsertAt(q, k, [n EXCEPT !.cnt = @ + 1])
            /\ UNCHANGED <<subscribers, ref>>
  <2> DEFINE m == [n EXCEPT !.cnt = n.cnt + 1]
  <2>1. m \in Notification /\ m.s = p
    <3>1. n.cnt + 1 \in 0 .. SrvRetransmit
      BY <1>5, <1>11, Limits DEF Notification
    <3> QED BY <1>5, <3>1 DEF Notification, p
  <2>2. PICK k \in 1 .. Len(q) + 1 : waiting' = InsertAt(q, k, m)
    BY <1>11
  <2> HIDE DEF m
  <2>3. /\ waiting' \in Seq(Notification)
        /\ \A x : NodesOf(waiting', x) = NodesOf(q, x) + (IF p = x THEN 1 ELSE 0)
    BY <1>6, <2>1, <2>2, InsertCount
  <2>4. \A x : NodesOf(waiting', x) = NodesOf(waiting, x)
    BY <1>6, <2>3
  <2>5. \A x \in Peers : On(subscribers', x) = On(subscribers, x)
    BY <1>11 DEF On
  <2>6. /\ ref' = ref /\ subscribers' = subscribers
        /\ \A x \in Peers : ref'[x] = NodesOf(waiting', x) + On(subscribers', x)
        /\ \A x \in Peers : ref'[x] > 0 => x \in live'
    BY <1>1, <1>2, <1>11, <2>4, <2>5
  <2> QED BY <1>1, <1>2, <1>3, <1>4, <2>3, <2>6, Conclude
<1>12. CASE waiting' = q /\ ref' = Released(ref, p, 1) /\ UNCHANGED subscribers
  <2>1. \A x \in Peers : On(subscribers', x) = On(subscribers, x)
    BY <1>12 DEF On
  <2>2. ref[p] = NodesOf(waiting', p) + On(subscribers', p) + 1
    BY <1>2, <1>5, <1>7, <1>9, <1>10, <1>12, <2>1
  <2> QED BY <1>1, <1>2, <1>3, <1>4, <1>5, <1>6, <1>9, <1>12, <2>1, <2>2, FewerKeep
<1>13. CASE /\ subscribers[p].on /\ subscribers[p].fail_cnt < MaxFail
            /\ waiting' = q
            /\ subscribers' = [subscribers EXCEPT ![p].fail_cnt = @ + 1]
            /\ ref' = Released(ref, p, 1)
  <2> DEFINE o == [subscribers[p] EXCEPT !.fail_cnt = subscribers[p].fail_cnt + 1]
  <2>1. subscribers' = [subscribers EXCEPT ![p] = o]
    BY <1>13
  <2>2. o \in Subscription /\ o.on = subscribers[p].on
    <3>1. subscribers[p] \in Subscription
      BY <1>2, <1>5
    <3>2. subscribers[p].fail_cnt + 1 \in 0 .. MaxFail
      BY <1>13, <3>1, Limits DEF Subscription
    <3> QED BY <3>1, <3>2 DEF Subscription
  <2> HIDE DEF o
  <2>3. /\ subscribers' \in [Peers -> Subscription]
        /\ \A x \in Peers : On(subscribers', x) = On(subscribers, x)
    BY <1>2, <2>1, <2>2 DEF On
  <2>4. ref[p] = NodesOf(waiting', p) + On(subscribers', p) + 1
    <3>1. On(subscribers', p) = On(subscribers, p) /\ NodesOf(waiting', p) = NodesOf(q, p)
      BY <1>5, <1>13, <2>3
    <3>2. ref[p] = NodesOf(q, p) + 1 + On(subscribers, p)
      BY <1>2, <1>5, <1>9
    <3>3. NodesOf(q, p) \in Nat
      BY <1>7
    <3> QED BY <1>10, <3>1, <3>2, <3>3
  <2> QED BY <1>1, <1>3, <1>4, <1>5, <1>6, <1>9, <1>13, <2>3, <2>4, FewerKeep
<1>14. CASE /\ subscribers[p].on
            /\ waiting' \in Cancelled(q, p)
            /\ subscribers' = [subscribers EXCEPT ![p] = NoSubscription]
            /\ ref' = Released(ref, p, 2 + NodesOf(q, p))
  <2>1. /\ waiting' \in Seq(Notification) /\ NodesOf(waiting', p) = 0
        /\ \A x : x # p => NodesOf(waiting', x) = NodesOf(q, x)
    BY <1>6, <1>14, CancelledCount
  <2>2. subscribers' \in [Peers -> Subscription]
    BY <1>2, <1>5, <1>14, SubscriptionType
  <2>3. On(subscribers', p) = 0 /\ \A x \in Peers : x # p => On(subscribers', x) = On(subscribers, x)
    BY <1>2, <1>5, <1>14, SubscriptionType DEF On
  <2>4. On(subscribers, p) = 1
    BY <1>14 DEF On
  <2> DEFINE g == 2 + NodesOf(q, p)
  <2>5. g \in Nat /\ ref[p] = NodesOf(waiting', p) + On(subscribers', p) + g
    BY <1>2, <1>5, <1>7, <1>9, <2>1, <2>3, <2>4
  <2>6. ref' = Released(ref, p, g)
    BY <1>14
  <2> HIDE DEF g
  <2>7. \A x \in Peers : x # p => NodesOf(waiting', x) = NodesOf(waiting, x)
    BY <1>9, <2>1
  <2> QED BY <1>1, <1>3, <1>4, <1>5, <2>1, <2>2, <2>3, <2>5, <2>6, <2>7, FewerKeep
<1> QED BY <1>8, <1>11, <1>12, <1>13, <1>14

\* coap_notify_observers: a node that is queued takes a reference.
LEMMA NotifyKeeps == ASSUME RefsExact, NEW failed, NotifyObservers(failed) PROVE RefsExact'
<1> DEFINE confirmed == {p \in ToNotify \ failed : Confirmable(p)}
<1>1. /\ Started' /\ live' = live
      /\ waiting' \in Enqueue(waiting, confirmed)
      /\ ref' = [p \in Peers |-> IF p \in confirmed THEN ref[p] + 1 ELSE ref[p]]
  BY DEF NotifyObservers, Serving, Started
<1>2. subscribers' = [p \in Peers |->
             IF p \notin ToNotify THEN subscribers[p]
             ELSE [subscribers[p] EXCEPT
                      !.non_cnt = IF Confirmable(p) THEN 0 ELSE @ + 1,
                      !.dirty = p \in failed]]
  BY DEF NotifyObservers
<1>3. /\ ref \in [Peers -> Nat] /\ subscribers \in [Peers -> Subscription]
      /\ waiting \in Seq(Notification) /\ live \subseteq Peers
      /\ \A x \in Peers : NodesOf(waiting, x) \in Nat
      /\ \A x \in Peers : ref[x] = NodesOf(waiting, x) + On(subscribers, x)
      /\ \A x \in Peers : ref[x] > 0 => x \in live
  BY Totals
<1>4. Marks'
  <2>1. /\ stale' \subseteq stale /\ notifying' = TRUE
        /\ UNCHANGED <<server, observable, notify_con, dirty>>
    BY DEF NotifyObservers
  <2> QED BY <2>1, Flagged DEF Marks
<1>5. confirmed \subseteq Peers /\ \A x \in confirmed : On(subscribers, x) = 1
  BY DEF ToNotify, Observers, On
<1>6. IsFiniteSet(confirmed)
  BY <1>5, SrvAssumption, FS_Subset
<1>7. ASSUME NEW x \in Peers
      PROVE  subscribers'[x] \in Subscription /\ subscribers'[x].on = subscribers[x].on
  <2>0. subscribers[x] \in Subscription
    BY <1>3
  <2>1. CASE x \notin ToNotify
    BY <1>2, <2>0, <2>1
  <2>2. CASE x \in ToNotify
    <3> DEFINE c == IF Confirmable(x) THEN 0 ELSE subscribers[x].non_cnt + 1
               b == x \in failed
    <3>1. subscribers'[x] = [subscribers[x] EXCEPT !.non_cnt = c, !.dirty = b]
      BY <1>2, <2>2
    <3>2. c \in 0 .. MaxNon
      BY <2>0, Limits DEF Subscription, Confirmable
    <3>3. b \in BOOLEAN
      OBVIOUS
    <3> HIDE DEF c, b
    <3> QED BY <2>0, <3>1, <3>2, <3>3 DEF Subscription
  <2> QED BY <2>1, <2>2
<1> HIDE DEF confirmed
<1>8. /\ waiting' \in Seq(Notification)
      /\ \A x : NodesOf(waiting', x) = NodesOf(waiting, x) + (IF x \in confirmed THEN 1 ELSE 0)
  BY <1>1, <1>3, <1>5, <1>6, EnqueueCount
<1>9. subscribers' \in [Peers -> Subscription]
  <2>1. DOMAIN subscribers' = Peers /\ subscribers' = [x \in Peers |-> subscribers'[x]]
    BY <1>2
  <2> QED BY <1>7, <2>1
<1>10. /\ ref' \in [Peers -> Nat]
       /\ \A x \in Peers : ref'[x] = IF x \in confirmed THEN ref[x] + 1 ELSE ref[x]
  BY <1>1, <1>3
<1>11. \A x \in Peers : On(subscribers', x) = On(subscribers, x)
  BY <1>7 DEF On
<1>12. \A x \in Peers : On(subscribers, x) \in Nat
  BY DEF On
<1>13. ASSUME NEW x \in Peers
       PROVE  ref'[x] = NodesOf(waiting', x) + On(subscribers', x)
  <2> DEFINE a == NodesOf(waiting, x)
             b == On(subscribers, x)
             c == IF x \in confirmed THEN 1 ELSE 0
  <2>1. a \in Nat /\ b \in Nat /\ ref[x] = a + b
    BY <1>3, <1>12
  <2>2. ref'[x] = ref[x] + c
    BY <1>3, <1>10
  <2>3. NodesOf(waiting', x) = a + c
    BY <1>8
  <2>4. c \in Nat
    OBVIOUS
  <2> HIDE DEF a, b, c
  <2>5. On(subscribers', x) = b
    BY <1>11 DEF b
  <2> QED BY <2>1, <2>2, <2>3, <2>4, <2>5
<1>14. \A x \in Peers : ref'[x] > 0 => x \in live'
  BY <1>1, <1>3, <1>5, <1>10
<1>15. live' \subseteq Peers
  BY <1>1, <1>3
<1> QED BY <1>1, <1>4, <1>8, <1>9, <1>10, <1>13, <1>14, <1>15, Conclude

LEMMA ServerInductive == RefsExact /\ [SrvNext]_srvvars => RefsExact'
<1> SUFFICES ASSUME RefsExact, [SrvNext]_srvvars PROVE RefsExact'
  OBVIOUS
<1>1. CASE CreateServer \/ SrvInitResources \/ StartServer \/ StopServer
  BY <1>1 DEF CreateServer, SrvInitResources, StartServer, StopServer, Serving, Transport,
              RefsExact, SrvTypeOK
<1>2. CASE SrvNotifyResourceChanged
  BY <1>2 DEF SrvNotifyResourceChanged, Observers, RefsExact, SrvTypeOK
<1>3. ASSUME NEW p \in Peers, SessionExpires(p) PROVE RefsExact'
  <2>1. \A x \in Peers : ref[x] > 0 => x # p
    BY <1>3, Totals DEF SessionExpires, Idle
  <2> QED BY <1>3, <2>1 DEF SessionExpires, Serving, RefsExact, SrvTypeOK
<1>4. CASE NotifyEnds
  BY <1>4 DEF NotifyEnds, RefsExact, SrvTypeOK
<1>5. CASE UNCHANGED srvvars
  BY <1>5 DEF srvvars, RefsExact, SrvTypeOK
<1> QED BY <1>1, <1>2, <1>3, <1>4, <1>5, DestroyKeeps, RequestKeeps, AckKeeps,
           RetransmitKeeps, NotifyKeeps DEF SrvNext

\* The references of every session are exactly its queued notifications and
\* its observation (coap_session_reference and coap_session_release in coap.c
\* and coap_resource.c), and a session with references is live.
THEOREM ReferencesExact == SrvSpec => []RefsExact
BY ServerInitial, ServerInductive, PTL DEF SrvSpec

-----------------------------------------------------------------------------
(* CoapClient.                                                             *)

\* The client disconnects when all its requests are answered.
Waits == "late" \notin CliUnusual

Flags ==
    /\ {handle, connected, misused} \subseteq BOOLEAN
    /\ thread = IF connected THEN "runs" ELSE "none"
    /\ connected => handle
    /\ misused = FALSE

\* What waits is of the present connection.
OfSession ==
    /\ sent \subseteq [s : {session}, m : CliMsgs] /\ IsFiniteSet(sent)
    /\ sent # {} => connected

SessionTypes ==
    /\ conns \in 0 .. MaxConns /\ session \in 0 .. conns
    /\ connected => session # 0
    /\ freed \subseteq 1 .. conns /\ leaked \subseteq 1 .. conns
    /\ freed \cap leaked = {}
    /\ connected => session \notin freed \cup leaked
    /\ \A k \in 1 .. conns : k \in freed \cup leaked \/ (connected /\ k = session)

\* The references of a session: those of its requests and its connection.
Holders(k) == IF connected /\ session = k THEN Cardinality(sent) + 1
              ELSE IF k \in leaked THEN 1 ELSE 0

Held == cref = [k \in Sessions |-> Holders(k)]

CliInv == Flags /\ OfSession /\ SessionTypes /\ Held

\* All nodes that wait are nodes of the session.
LEMMA OfCounts ==
    ASSUME NEW S, NEW q, q \subseteq [s : {S}, m : CliMsgs], IsFiniteSet(q)
    PROVE  /\ \A k : Of(q, k) = IF k = S THEN Cardinality(q) ELSE 0
           /\ Cardinality(q) \in Nat
<1>1. ASSUME NEW k, k # S PROVE Of(q, k) = 0
  <2>1. {n \in q : n.s = k} = {}
    BY <1>1
  <2> QED BY <2>1, FS_EmptySet DEF Of
<1>2. Of(q, S) = Cardinality(q)
  <2>1. {n \in q : n.s = S} = q
    OBVIOUS
  <2> QED BY <2>1 DEF Of
<1> QED BY <1>1, <1>2, FS_CardinalityType

LEMMA CliInitInv == CliInit => CliInv
<1> SUFFICES ASSUME CliInit PROVE CliInv
  OBVIOUS
<1>1. Flags
  BY DEF CliInit, Flags
<1>2. OfSession
  BY FS_EmptySet DEF CliInit, OfSession
<1>3. SessionTypes
  BY CliAssumption DEF CliInit, SessionTypes
<1>4. Held
  BY DEF CliInit, Held, Holders
<1> QED BY <1>1, <1>2, <1>3, <1>4 DEF CliInv

\* A request is taken from the queue and its reference given back.
LEMMA Unqueue ==
    ASSUME CliInv, NEW n \in sent, sent' = sent \ {n}, Release(Nodes({n})),
           UNCHANGED <<handle, connected, session, conns, thread, leaked>>
    PROVE  CliInv'
<1>1. /\ connected /\ session \in Sessions /\ n \in [s : {session}, m : CliMsgs]
      /\ IsFiniteSet(sent)
  <2>1. connected /\ n \in [s : {session}, m : CliMsgs] /\ IsFiniteSet(sent)
    BY DEF CliInv, OfSession
  <2>2. session \in 1 .. MaxConns
    BY <2>1, CliAssumption DEF CliInv, SessionTypes
  <2> QED BY <2>1, <2>2 DEF Sessions
<1>2. /\ IsFiniteSet(sent') /\ Cardinality(sent') = Cardinality(sent) - 1
      /\ Cardinality(sent) \in Nat /\ Cardinality(sent') \in Nat
  BY <1>1, FS_RemoveElement, FS_CardinalityType
<1>3. \A k \in Sessions : Nodes({n})[k] = IF k = session THEN 1 ELSE 0
  <2>1. {n} \subseteq [s : {session}, m : CliMsgs] /\ IsFiniteSet({n}) /\ Cardinality({n}) = 1
    BY <1>1, FS_Singleton
  <2> QED BY <2>1, OfCounts DEF Nodes
<1>4. /\ cref[session] = Cardinality(sent) + 1 /\ Cardinality(sent) # 0
      /\ \A k \in Sessions \ {session} : cref[k] \in {0, 1}
  <2>1. Cardinality(sent) # 0
    BY <1>1, FS_EmptySet
  <2> QED BY <1>1, <2>1 DEF CliInv, Held, Holders
<1> DEFINE N == Nodes({n})
<1>5. /\ cref' = [k \in Sessions |-> IF cref[k] > N[k] THEN cref[k] - N[k] ELSE 0]
      /\ freed' = freed \cup {k \in Sessions : N[k] > 0 /\ cref[k] <= N[k]}
      /\ misused' = (misused \/ \E k \in Sessions : N[k] > cref[k])
  BY DEF Release
<1> HIDE DEF N
<1>6. ASSUME NEW k \in Sessions
      PROVE  /\ ~(N[k] > cref[k]) /\ ~(N[k] > 0 /\ cref[k] <= N[k])
             /\ (IF cref[k] > N[k] THEN cref[k] - N[k] ELSE 0)
                  = IF k = session THEN Cardinality(sent) ELSE cref[k]
  <2>1. CASE k = session
    <3>1. N[k] = 1 /\ cref[k] = Cardinality(sent) + 1
      BY <1>3, <1>4, <2>1 DEF N
    <3> QED BY <1>2, <1>4, <2>1, <3>1
  <2>2. CASE k # session
    <3>1. N[k] = 0 /\ cref[k] \in {0, 1}
      BY <1>3, <1>4, <2>2 DEF N
    <3> QED BY <2>2, <3>1
  <2> QED BY <2>1, <2>2
<1>7. /\ \A k \in Sessions : cref'[k] = IF k = session THEN Cardinality(sent) ELSE cref[k]
      /\ freed' = freed /\ misused' = FALSE
  BY <1>5, <1>6 DEF CliInv, Flags
<1>8. Held'
  <2>1. \A k \in Sessions : cref'[k] = Holders(k)'
    BY <1>1, <1>2, <1>7 DEF CliInv, Held, Holders
  <2>2. cref' = [k \in Sessions |-> cref'[k]]
    BY <1>5
  <2> QED BY <2>1, <2>2 DEF Held
<1>9. Flags' /\ OfSession'
  BY <1>1, <1>2, <1>7 DEF CliInv, Flags, OfSession
<1>10. SessionTypes'
  BY <1>7 DEF CliInv, SessionTypes
<1> QED BY <1>8, <1>9, <1>10 DEF CliInv

\* The connection's reference goes, with those of the requests that are left:
\* its session is freed.
LEMMA Unhold ==
    ASSUME CliInv, connected, NEW k,
           \A s \in Sessions : k[s] = IF s = session THEN Cardinality(sent) + 1 ELSE 0,
           Release(k), sent' = {}, connected' = FALSE, thread' = "none",
           handle' \in BOOLEAN, UNCHANGED <<session, conns, leaked>>
    PROVE  CliInv'
<1>1. session \in Sessions /\ conns \in Nat /\ MaxConns \in Nat /\ session \in 1 .. conns
  BY CliAssumption DEF CliInv, SessionTypes, Sessions
<1>2. Cardinality(sent) \in Nat /\ IsFiniteSet(sent)
  BY FS_CardinalityType DEF CliInv, OfSession
<1>3. \A s \in Sessions : /\ cref[s] = IF s = session THEN Cardinality(sent) + 1
                                       ELSE IF s \in leaked THEN 1 ELSE 0
                          /\ k[s] <= cref[s] /\ k[s] \in Nat /\ cref[s] \in Nat
  BY <1>2 DEF CliInv, Held, Holders
<1>4. \A s \in Sessions : cref'[s] = IF s = session THEN 0 ELSE cref[s]
  BY <1>2, <1>3 DEF Release
<1>5. freed' = freed \cup {session}
  <2>1. freed' = freed \cup {s \in Sessions : k[s] > 0 /\ cref[s] <= k[s]}
    BY DEF Release
  <2>2. \A s \in Sessions : (k[s] > 0 /\ cref[s] <= k[s]) <=> s = session
    BY <1>2, <1>3
  <2> QED BY <1>1, <2>1, <2>2
<1>6. misused' = FALSE
  BY <1>3 DEF Release, CliInv, Flags
<1>7. session \notin leaked
  BY DEF CliInv, SessionTypes
<1>8. Held'
  <2>1. \A s \in Sessions : cref'[s] = Holders(s)'
    BY <1>3, <1>4, <1>7 DEF Holders
  <2>2. cref' = [s \in Sessions |-> cref'[s]]
    BY DEF Release
  <2> QED BY <2>1, <2>2 DEF Held
<1>9. Flags' /\ OfSession'
  BY <1>6, FS_EmptySet DEF CliInv, Flags, OfSession
<1>10. SessionTypes'
  BY <1>1, <1>5, <1>7 DEF CliInv, SessionTypes
<1> QED BY <1>8, <1>9, <1>10 DEF CliInv

LEMMA CliStep == ASSUME Waits, CliInv, [CliNext]_clivars PROVE CliInv'
<1>0. MaxConns \in Nat
  BY CliAssumption
<1>1. CASE CliCreate
  BY <1>1 DEF CliCreate, CliInv, Flags, OfSession, SessionTypes, Held, Holders
<1>2. CASE CliDestroy
  <2>1. sent = {}
    BY <1>2 DEF CliDestroy, CliInv, OfSession
  <2>2. \A k \in Sessions : Nodes(sent)[k] = 0
    BY <2>1, FS_EmptySet DEF Nodes, Of
  <2>3. \A k \in Sessions : cref[k] \in {0, 1}
    BY <1>2 DEF CliDestroy, CliInv, Held, Holders
  <2>4. \A k \in Sessions : cref'[k] = cref[k]
    BY <1>2, <2>2, <2>3 DEF CliDestroy, Release
  <2>5. cref' = cref
    BY <1>2, <2>4 DEF CliDestroy, Release, CliInv, Held
  <2>6. freed' = freed
    BY <1>2, <2>2 DEF CliDestroy, Release
  <2>7. misused' = FALSE
    BY <1>2, <2>2, <2>3 DEF CliDestroy, Release, CliInv, Flags
  <2>8. UNCHANGED <<connected, session, conns, thread, leaked, sent>>
    BY <1>2, <2>1 DEF CliDestroy
  <2>9. ~connected /\ handle' \in BOOLEAN
    BY <1>2 DEF CliDestroy
  <2> QED BY <2>5, <2>6, <2>7, <2>8, <2>9
          DEF CliInv, Flags, OfSession, SessionTypes, Held, Holders
<1>3. ASSUME NEW ok \in BOOLEAN, CliConnect(ok) PROVE CliInv'
  <2>1. /\ ~connected /\ handle /\ sent = {} /\ conns < MaxConns
        /\ conns' = conns + 1 /\ session' = conns + 1 /\ connected' = ok
        /\ thread' = IF ok THEN "runs" ELSE thread
        /\ leaked' = IF ok THEN leaked ELSE leaked \cup {conns + 1}
        /\ cref' = [cref EXCEPT ![conns + 1] = 1]
        /\ UNCHANGED <<handle, freed, sent, misused>>
    BY <1>3 DEF CliConnect, CliInv, OfSession
  <2>2. conns \in Nat /\ conns + 1 \in Sessions
    BY <1>0, <2>1 DEF CliInv, SessionTypes, Sessions
  <2>3. Flags' /\ OfSession'
    BY <2>1, FS_EmptySet DEF CliInv, Flags, OfSession
  <2>4. SessionTypes'
    BY <1>0, <2>1, <2>2 DEF CliInv, SessionTypes
  <2>5. Held'
    <3>1. \A k \in Sessions : cref'[k] = IF k = conns + 1 THEN 1 ELSE IF k \in leaked THEN 1 ELSE 0
      BY <2>1 DEF CliInv, Held, Holders
    <3>2. conns + 1 \notin leaked
      BY <2>2 DEF CliInv, SessionTypes
    <3>3. \A k \in Sessions : cref'[k] = Holders(k)'
      BY <2>1, <3>1, <3>2, FS_EmptySet DEF Holders
    <3>4. cref' = [k \in Sessions |-> cref'[k]]
      BY <2>1 DEF CliInv, Held
    <3> QED BY <3>3, <3>4 DEF Held
  <2> QED BY <2>3, <2>4, <2>5 DEF CliInv
<1>4. CASE CliDisconnect
  <2> DEFINE k == [s \in Sessions |-> IF s = session THEN 1 ELSE 0]
  <2>1. sent = {} /\ sent' = {}
    BY <1>4 DEF CliDisconnect, Waits
  <2>2. \A s \in Sessions : k[s] = IF s = session THEN Cardinality(sent) + 1 ELSE 0
    BY <2>1, FS_EmptySet
  <2>3. /\ connected /\ Release(k) /\ connected' = FALSE /\ thread' = "none"
        /\ handle' \in BOOLEAN /\ UNCHANGED <<session, conns, leaked>>
    BY <1>4 DEF CliDisconnect, CliInv, Flags
  <2> HIDE DEF k
  <2> QED BY <2>1, <2>2, <2>3, Unhold
<1>5. ASSUME NEW m \in CliMsgs, CliSend(m) PROVE CliInv'
  <2> DEFINE n == [s |-> session, m |-> m]
  <2>1. /\ connected /\ n \notin sent /\ sent' = sent \cup {n}
        /\ cref' = [cref EXCEPT ![session] = @ + 1]
        /\ UNCHANGED <<handle, connected, session, conns, freed, thread, leaked, misused>>
    BY <1>5 DEF CliSend
  <2>2. /\ IsFiniteSet(sent') /\ Cardinality(sent') = Cardinality(sent) + 1
        /\ Cardinality(sent) \in Nat
    BY <2>1, FS_AddElement, FS_CardinalityType DEF CliInv, OfSession
  <2>3. Flags' /\ OfSession'
    BY <2>1, <2>2 DEF CliInv, Flags, OfSession
  <2>4. SessionTypes'
    BY <2>1 DEF CliInv, SessionTypes
  <2>5. Held'
    <3>1. \A k \in Sessions : cref'[k] = Holders(k)'
      BY <2>1, <2>2 DEF CliInv, Held, Holders
    <3>2. cref' = [k \in Sessions |-> cref'[k]]
      BY <2>1 DEF CliInv, Held
    <3> QED BY <3>1, <3>2 DEF Held
  <2> QED BY <2>3, <2>4, <2>5 DEF CliInv
<1>6. ASSUME NEW m \in CliMsgs, CliDispatch(m) PROVE CliInv'
  <2>1. PICK n \in Matches(session, m) : sent' = sent \ {n} /\ Release(Nodes({n}))
    BY <1>6 DEF CliDispatch
  <2>2. n \in sent
    BY <2>1 DEF Matches
  <2> QED BY <1>6, <2>1, <2>2, Unqueue DEF CliDispatch
<1>7. ASSUME NEW n \in sent, CliResponse(n) PROVE CliInv'
  BY <1>7, Unqueue DEF CliResponse
<1>8. ASSUME NEW n \in sent, CliGivesUp(n) PROVE CliInv'
  <2> DEFINE k == [s \in Sessions |-> IF s = n.s THEN Of(sent, s) + 1 ELSE Of(sent, s)]
  <2>1. n.s = session /\ connected
    BY DEF CliInv, OfSession
  <2>2. \A s \in Sessions : k[s] = IF s = session THEN Cardinality(sent) + 1 ELSE 0
    BY <2>1, OfCounts DEF CliInv, OfSession
  <2>3. /\ Release(k) /\ sent' = {} /\ connected' = FALSE /\ thread' = "none"
        /\ handle' \in BOOLEAN /\ UNCHANGED <<session, conns, leaked>>
    BY <1>8, <2>1 DEF CliGivesUp, GivenUp
  <2> HIDE DEF k
  <2> QED BY <2>1, <2>2, <2>3, Unhold
<1>9. CASE UNCHANGED clivars
  BY <1>9 DEF clivars, CliInv, Flags, OfSession, SessionTypes, Held, Holders
<1> QED BY <1>1, <1>2, <1>3, <1>4, <1>5, <1>6, <1>7, <1>8, <1>9 DEF CliNext

\* A session has one reference for each queued request and one for its
\* connection, and is freed exactly with the last one, however requests are
\* answered, answered by another one's message id, or given up.
THEOREM SessionsAreHeld ==
    ASSUME Waits
    PROVE  CliInit /\ [][CliNext]_clivars => []SessionsHeld
<1>1. CliInv => SessionsHeld
  <2> SUFFICES ASSUME CliInv PROVE SessionsHeld
    OBVIOUS
  <2>1. /\ \A s \in Sessions : Of(sent, s) = IF s = session THEN Cardinality(sent) ELSE 0
        /\ Cardinality(sent) \in Nat
        /\ sent # {} => connected
        /\ sent = {} => Cardinality(sent) = 0
    BY OfCounts, FS_EmptySet DEF CliInv, OfSession
  <2>2. \A s \in Sessions : cref[s] \in Nat
    BY <2>1 DEF CliInv, Held, Holders
  <2>3. conns \in Nat /\ MaxConns \in Nat /\ conns <= MaxConns /\ session \in 0 .. MaxConns
    BY CliAssumption DEF CliInv, SessionTypes
  <2>4. CliTypeOK
    <3>1. cref \in [Sessions -> Nat]
      BY <2>2 DEF CliInv, Held
    <3>2. freed \subseteq Sessions /\ leaked \subseteq Sessions
      BY <2>3 DEF CliInv, SessionTypes, Sessions
    <3>3. sent \subseteq [s : Sessions, m : CliMsgs]
      <4>1. sent # {} => session \in Sessions
        BY <2>1, <2>3 DEF CliInv, SessionTypes, Sessions
      <4> QED BY <4>1 DEF CliInv, OfSession
    <3> QED BY <2>3, <3>1, <3>2, <3>3 DEF CliTypeOK, CliInv, Flags, SessionTypes
  <2>5. ASSUME NEW s \in Sessions
        PROVE  cref[s] = Of(sent, s) + (IF connected /\ session = s THEN 1 ELSE 0)
                         + (IF s \in leaked THEN 1 ELSE 0)
    BY <2>1 DEF CliInv, Held, Holders, SessionTypes
  <2>6. ASSUME NEW s \in Sessions
        PROVE  (cref[s] = 0 /\ s <= conns) <=> s \in freed
    <3>1. s <= conns <=> s \in 1 .. conns
      BY <2>3 DEF Sessions
    <3>2. s \in freed => s \in 1 .. conns /\ s \notin leaked /\ ~(connected /\ session = s)
      BY DEF CliInv, SessionTypes
    <3>3. s \in 1 .. conns /\ s \notin freed => s \in leaked \/ (connected /\ session = s)
      BY DEF CliInv, SessionTypes
    <3>4. cref[s] = 0 <=> s \notin leaked /\ ~(connected /\ session = s)
      BY <2>1 DEF CliInv, Held, Holders
    <3> QED BY <3>1, <3>2, <3>3, <3>4
  <2> QED BY <2>4, <2>5, <2>6 DEF SessionsHeld, CliInv, Flags
<1> QED BY <1>1, CliInitInv, CliStep, PTL

=============================================================================
