---------------------------- MODULE LinuxProofs -----------------------------
(***************************************************************************)
(* Proofs about the main loop of Linux, for every number of registrations, *)
(* and about the services that rest on the lemmas on sequences and queues at *)
(* the beginning, for every value of their constants: Bluetooth, whose     *)
(* signals and answers the loop dispatches, and the sessions of CoAP on    *)
(* TizenRT.                                                                *)
(*                                                                         *)
(* WrapperLives is inductive once it is known that only a source that was  *)
(* attached is dispatched (LoopInv).  What a service promises is proved from *)
(* an invariant of its own (BtInv, GsInv, FtInv, ...), which holds under what *)
(* its ...Calm says of its constants: without the behaviours in which the  *)
(* code is known to go wrong, or which the device behind it excludes.  The *)
(* queues of messages are dealt with by lemmas that say which kinds of     *)
(* messages are in them and which may follow which (Has, Never, Follow).   *)
(***************************************************************************)
EXTENDS LinuxLoop, BtLink, GattServer, BtFtp, BtProfiles, BtRemote, CoapTransport,
        SequencesExt, FiniteSetTheorems, SequenceTheorems, WellFoundedInduction, TLAPS

-----------------------------------------------------------------------------
(* Numbers and sequences.                                                  *)

\* A non-empty set of naturals has a least element.
LEMMA NatLeast ==
    ASSUME NEW S, S \subseteq Nat, S # {}
    PROVE  \E i \in S : \A j \in S : i <= j
<1> DEFINE R == {ss \in Nat \X Nat : ss[1] < ss[2]}
<1>1. IsWellFoundedOn(R, Nat)
  BY NatLessThanWellFounded DEF OpToRel
<1> HIDE DEF R
<1>2. PICK x \in S : \A y \in S : ~(<<y, x>> \in R)
  BY <1>1, WFMin
<1>3. ASSUME NEW y \in S PROVE x <= y
  <2>1. x \in Nat /\ y \in Nat
    OBVIOUS
  <2>2. ~(<<y, x>> \in R)
    BY <1>2
  <2> QED BY <2>1, <2>2 DEF R
<1> QED BY <1>3

\* What RemoveAt leaves of a sequence.
LEMMA RemoveAtIs ==
    ASSUME NEW S, NEW s \in Seq(S), NEW i \in 1 .. Len(s)
    PROVE  /\ RemoveAt(s, i) \in Seq(S) /\ Len(RemoveAt(s, i)) = Len(s) - 1
           /\ \A j \in 1 .. Len(s) - 1 : RemoveAt(s, i)[j] = IF j < i THEN s[j] ELSE s[j + 1]
<1> DEFINE before == SubSeq(s, 1, i - 1)
           after == SubSeq(s, i + 1, Len(s))
<1>1. Len(s) \in Nat /\ i \in Int /\ i - 1 \in Int /\ i + 1 \in Int /\ 1 <= i /\ i <= Len(s)
  BY LenProperties
<1>2. /\ before \in Seq(S) /\ Len(before) = i - 1
      /\ \A j \in 1 .. i - 1 : before[j] = s[j]
  <2>1. \A j \in 1 .. i - 1 : s[j] \in S
    BY <1>1, ElementOfSeq
  <2>2. /\ before \in Seq(S) /\ Len(before) = IF 1 <= i - 1 THEN (i - 1) - 1 + 1 ELSE 0
        /\ \A j \in 1 .. (i - 1) - 1 + 1 : before[j] = s[1 + j - 1]
    BY <1>1, <2>1, SubSeqProperties
  <2> QED BY <1>1, <2>2
<1>3. /\ after \in Seq(S) /\ Len(after) = Len(s) - i
      /\ \A j \in 1 .. Len(s) - i : after[j] = s[i + j]
  <2>1. \A j \in i + 1 .. Len(s) : s[j] \in S
    BY <1>1, ElementOfSeq
  <2>2. /\ after \in Seq(S) /\ Len(after) = IF i + 1 <= Len(s) THEN Len(s) - (i + 1) + 1 ELSE 0
        /\ \A j \in 1 .. Len(s) - (i + 1) + 1 : after[j] = s[(i + 1) + j - 1]
    BY <1>1, <2>1, SubSeqProperties
  <2> QED BY <1>1, <2>2
<1> HIDE DEF before, after
<1>4. /\ before \o after \in Seq(S) /\ Len(before \o after) = Len(before) + Len(after)
      /\ \A j \in 1 .. Len(before) + Len(after) :
            (before \o after)[j] = IF j <= Len(before) THEN before[j] ELSE after[j - Len(before)]
  BY <1>2, <1>3, ConcatProperties
<1>5. ASSUME NEW j \in 1 .. Len(s) - 1
      PROVE  (before \o after)[j] = IF j < i THEN s[j] ELSE s[j + 1]
  <2>1. j \in 1 .. Len(before) + Len(after)
    BY <1>1, <1>2, <1>3
  <2>2. CASE j < i
    <3>1. j <= Len(before) /\ j \in 1 .. i - 1
      BY <1>1, <1>2, <2>2
    <3> QED BY <1>2, <1>4, <2>1, <2>2, <3>1
  <2>3. CASE ~(j < i)
    <3>1. ~(j <= Len(before)) /\ j - Len(before) \in 1 .. Len(s) - i /\ i + (j - Len(before)) = j + 1
      BY <1>1, <1>2, <2>3
    <3>2. (before \o after)[j] = after[j - Len(before)] /\ after[j - Len(before)] = s[i + (j - Len(before))]
      BY <1>3, <1>4, <2>1, <3>1
    <3> QED BY <2>3, <3>1, <3>2
  <2> QED BY <2>2, <2>3
<1>6. Len(before \o after) = Len(s) - 1
  BY <1>1, <1>2, <1>3, <1>4
<1>7. RemoveAt(s, i) = before \o after
  BY DEF RemoveAt, before, after
<1> QED BY <1>4, <1>5, <1>6, <1>7

\* Nothing is removed at 0.
LEMMA RemoveAtZero == ASSUME NEW S, NEW s \in Seq(S) PROVE RemoveAt(s, 0) = s
<1>1. SubSeq(s, 1, 0 - 1) = <<>>
  BY SubSeqEmpty
<1>2. SubSeq(s, 0 + 1, Len(s)) = s
  BY SubSeqFull
<1> QED BY <1>1, <1>2, ConcatEmptySeq DEF RemoveAt

\* What is left was there before, at places that keep their order.
LEMMA RemoveAtKeeps ==
    ASSUME NEW S, NEW s \in Seq(S), NEW i \in 1 .. Len(s)
    PROVE  \A j \in 1 .. Len(RemoveAt(s, i)) :
              \E k \in 1 .. Len(s) : /\ k # i /\ k = (IF j < i THEN j ELSE j + 1)
                                     /\ RemoveAt(s, i)[j] = s[k]
<1>1. Len(s) \in Nat /\ Len(RemoveAt(s, i)) = Len(s) - 1
  BY RemoveAtIs, LenProperties
<1> TAKE j \in 1 .. Len(RemoveAt(s, i))
<1>2. j \in 1 .. Len(s) - 1
  BY <1>1
<1>3. RemoveAt(s, i)[j] = IF j < i THEN s[j] ELSE s[j + 1]
  BY <1>2, RemoveAtIs
<1> DEFINE k == IF j < i THEN j ELSE j + 1
<1>4. k \in 1 .. Len(s) /\ k # i
  BY <1>1, <1>2
<1>5. RemoveAt(s, i)[j] = s[k]
  BY <1>3
<1> QED BY <1>4, <1>5

\* The least element of a set of places.
LEMMA MinIs ==
    ASSUME NEW I, I \subseteq Nat, I # {}
    PROVE  Min(I) \in I /\ \A j \in I : Min(I) <= j
<1>1. \E i \in I : \A j \in I : i <= j
  BY NatLeast
<1> QED BY <1>1 DEF Min

-----------------------------------------------------------------------------
(* Queues of messages.                                                     *)

\* A message of a kind occurs; never one of a kind after one of another; each of
\* a kind is followed by one of another.
Has(s, A) == \E i \in DOMAIN s : s[i] \in A
Never(s, A, B) == \A i, j \in DOMAIN s : i < j /\ s[i] \in A => s[j] \notin B
Follow(s, A, B) == \A i \in DOMAIN s : s[i] \in A => \E j \in DOMAIN s : i < j /\ s[j] \in B

LEMMA QueueEmpty == \A A, B : ~ Has(<<>>, A) /\ Never(<<>>, A, B) /\ Follow(<<>>, A, B)
<1>1. DOMAIN <<>> = {}
  OBVIOUS
<1> QED BY <1>1 DEF Has, Never, Follow

\* What a queue has when a message is put at its end.
LEMMA QueueAppend ==
    ASSUME NEW S, NEW s \in Seq(S), NEW m \in S
    PROVE  /\ Append(s, m) \in Seq(S)
           /\ \A A : Has(Append(s, m), A) <=> Has(s, A) \/ m \in A
           /\ \A A, B : Never(s, A, B) /\ (m \in B => ~ Has(s, A)) => Never(Append(s, m), A, B)
           /\ \A A, B : Follow(s, A, B) \/ m \in B => m \in A \/ Follow(Append(s, m), A, B)
<1> DEFINE n == Len(s)
           new == Append(s, m)
<1>1. /\ new \in Seq(S) /\ n \in Nat /\ DOMAIN s = 1 .. n /\ DOMAIN new = 1 .. n + 1
      /\ \A i \in 1 .. n : new[i] = s[i]
      /\ new[n + 1] = m
  OBVIOUS
<1> HIDE DEF new, n
<1>2. ASSUME NEW A PROVE Has(new, A) <=> Has(s, A) \/ m \in A
  <2>1. 1 .. n + 1 = 1 .. n \cup {n + 1}
    BY <1>1
  <2> QED BY <1>1, <2>1 DEF Has
<1>3. ASSUME NEW A, NEW B, Never(s, A, B), m \in B => ~ Has(s, A)
      PROVE  Never(new, A, B)
  <2> SUFFICES ASSUME NEW i \in DOMAIN new, NEW j \in DOMAIN new, i < j, new[i] \in A, new[j] \in B PROVE FALSE
    BY DEF Never
  <2>1. i \in DOMAIN s /\ s[i] \in A
    BY <1>1
  <2>2. CASE j = n + 1
    BY <1>1, <1>3, <2>1, <2>2 DEF Has
  <2>3. CASE j # n + 1
    BY <1>1, <1>3, <2>1, <2>3 DEF Never
  <2> QED BY <2>2, <2>3
<1>4. ASSUME NEW A, NEW B, Follow(s, A, B) \/ m \in B, m \notin A
      PROVE  Follow(new, A, B)
  <2> SUFFICES ASSUME NEW i \in DOMAIN new, new[i] \in A
               PROVE  \E j \in DOMAIN new : i < j /\ new[j] \in B
    BY DEF Follow
  <2>1. i \in 1 .. n /\ s[i] \in A
    BY <1>1, <1>4
  <2>2. CASE m \in B
    BY <1>1, <2>1, <2>2
  <2>3. CASE Follow(s, A, B)
    <3>1. PICK j \in DOMAIN s : i < j /\ s[j] \in B
      BY <1>1, <2>1, <2>3 DEF Follow
    <3>2. j \in DOMAIN new /\ new[j] = s[j]
      BY <1>1
    <3> QED BY <3>1, <3>2
  <2> QED BY <1>4, <2>2, <2>3
<1> QED BY <1>1, <1>2, <1>3, <1>4 DEF new

\* What it has without its first message.
LEMMA QueueTail ==
    ASSUME NEW S, NEW s \in Seq(S), s # <<>>
    PROVE  /\ Tail(s) \in Seq(S) /\ Head(s) \in S
           /\ \A A : Has(s, A) <=> Head(s) \in A \/ Has(Tail(s), A)
           /\ \A A, B : Never(s, A, B) => Never(Tail(s), A, B) /\ (Head(s) \in A => ~ Has(Tail(s), B))
           /\ \A A, B : Follow(s, A, B) => Follow(Tail(s), A, B) /\ (Head(s) \in A => Has(Tail(s), B))
<1> DEFINE n == Len(s)
           new == Tail(s)
           m == Head(s)
<1>1. /\ new \in Seq(S) /\ n \in Nat /\ n > 0 /\ DOMAIN s = 1 .. n /\ DOMAIN new = 1 .. n - 1
      /\ \A i \in 1 .. n - 1 : new[i] = s[i + 1]
      /\ m = s[1] /\ m \in S
  OBVIOUS
<1> HIDE DEF new, n, m
<1>2. \A i \in 1 .. n : i = 1 \/ (i - 1 \in 1 .. n - 1 /\ new[i - 1] = s[i])
  <2> SUFFICES ASSUME NEW i \in 1 .. n, i # 1 PROVE i - 1 \in 1 .. n - 1 /\ new[i - 1] = s[i]
    OBVIOUS
  <2>1. i - 1 \in 1 .. n - 1 /\ (i - 1) + 1 = i
    BY <1>1
  <2> QED BY <1>1, <2>1
<1>3. ASSUME NEW A PROVE Has(s, A) <=> m \in A \/ Has(new, A)
  <2>1. ASSUME Has(s, A) PROVE m \in A \/ Has(new, A)
    BY <1>1, <1>2, <2>1 DEF Has
  <2>2. ASSUME m \in A \/ Has(new, A) PROVE Has(s, A)
    <3>1. CASE m \in A
      BY <1>1, <3>1 DEF Has
    <3>2. CASE Has(new, A)
      <4>1. PICK i \in DOMAIN new : new[i] \in A
        BY <3>2 DEF Has
      <4>2. i + 1 \in DOMAIN s /\ s[i + 1] \in A
        BY <1>1, <4>1
      <4> QED BY <4>2 DEF Has
    <3> QED BY <2>2, <3>1, <3>2
  <2> QED BY <2>1, <2>2
<1>4. ASSUME NEW A, NEW B, Never(s, A, B)
      PROVE  Never(new, A, B) /\ (m \in A => ~ Has(new, B))
  <2>1. ASSUME NEW i \in DOMAIN new, NEW j \in DOMAIN new, i < j, new[i] \in A PROVE new[j] \notin B
    <3>1. i + 1 \in DOMAIN s /\ j + 1 \in DOMAIN s /\ i + 1 < j + 1 /\ s[i + 1] = new[i] /\ s[j + 1] = new[j]
      BY <1>1, <2>1
    <3> QED BY <1>4, <2>1, <3>1 DEF Never
  <2>2. ASSUME m \in A, NEW j \in DOMAIN new PROVE new[j] \notin B
    <3>1. 1 \in DOMAIN s /\ j + 1 \in DOMAIN s /\ 1 < j + 1 /\ s[j + 1] = new[j]
      BY <1>1
    <3> QED BY <1>1, <1>4, <2>2, <3>1 DEF Never
  <2> QED BY <2>1, <2>2 DEF Never, Has
<1>5. ASSUME NEW A, NEW B, Follow(s, A, B)
      PROVE  Follow(new, A, B) /\ (m \in A => Has(new, B))
  <2>1. ASSUME NEW i \in DOMAIN s, s[i] \in A
        PROVE  \E j \in DOMAIN new : i < j + 1 /\ new[j] \in B
    <3>1. PICK j \in DOMAIN s : i < j /\ s[j] \in B
      BY <1>5, <2>1 DEF Follow
    <3>2. j # 1 /\ j - 1 \in DOMAIN new /\ i < (j - 1) + 1 /\ new[j - 1] = s[j]
      BY <1>1, <1>2, <3>1
    <3> QED BY <3>1, <3>2
  <2>2. ASSUME NEW i \in DOMAIN new, new[i] \in A PROVE \E j \in DOMAIN new : i < j /\ new[j] \in B
    <3>1. i + 1 \in DOMAIN s /\ s[i + 1] \in A
      BY <1>1, <2>2
    <3>2. PICK j \in DOMAIN new : i + 1 < j + 1 /\ new[j] \in B
      BY <2>1, <3>1
    <3> QED BY <1>1, <3>2
  <2>3. m \in A => Has(new, B)
    BY <1>1, <2>1 DEF Has
  <2> QED BY <2>2, <2>3 DEF Follow
<1> QED BY <1>1, <1>3, <1>4, <1>5 DEF new, m

\* What follows needs what it is followed by.
LEMMA QueueFollow ==
    ASSUME NEW s, NEW A, NEW B, Follow(s, A, B), Has(s, A)
    PROVE  Has(s, B)
BY DEF Follow, Has
\* What does not occur breaks no rule of order.
LEMMA QueueNever == ASSUME NEW s, NEW A, NEW B, ~ Has(s, A) PROVE Never(s, A, B) /\ Follow(s, A, B)
BY DEF Has, Never, Follow

\* A queue of messages of a smaller kind.
LEMMA QueueRetype ==
    ASSUME NEW S, NEW T, NEW s \in Seq(S), \A i \in DOMAIN s : s[i] \in S => s[i] \in T
    PROVE  s \in Seq(T)
<1>1. Len(s) \in Nat /\ DOMAIN s = 1 .. Len(s) /\ \A i \in 1 .. Len(s) : s[i] \in S
  OBVIOUS
<1>2. s = [i \in 1 .. Len(s) |-> s[i]]
  OBVIOUS
<1>3. s \in [1 .. Len(s) -> T]
  BY <1>1, <1>2
<1> QED BY <1>1, <1>3, SeqDef

\* Two messages put at its end, in either order.
LEMMA QueueTwo ==
    ASSUME NEW S, NEW s \in Seq(S), NEW a \in S, NEW b \in S,
           NEW q, q = Append(Append(s, a), b) \/ q = Append(Append(s, b), a)
    PROVE  /\ q \in Seq(S)
           /\ \A A : Has(q, A) <=> Has(s, A) \/ a \in A \/ b \in A
           /\ \A A, B : /\ Never(s, A, B) /\ (a \in B \/ b \in B => ~ Has(s, A))
                       /\ (a \in A => b \notin B) /\ (b \in A => a \notin B)
                       => Never(q, A, B)
           /\ \A A, B : Follow(s, A, B) \/ a \in B \/ b \in B => a \in A \/ b \in A \/ Follow(q, A, B)
<1>1. ASSUME NEW x \in S, NEW y \in S, q = Append(Append(s, x), y)
      PROVE  /\ q \in Seq(S)
             /\ \A A : Has(q, A) <=> Has(s, A) \/ x \in A \/ y \in A
             /\ \A A, B : /\ Never(s, A, B) /\ (x \in B \/ y \in B => ~ Has(s, A)) /\ (x \in A => y \notin B)
                         => Never(q, A, B)
             /\ \A A, B : Follow(s, A, B) \/ x \in B \/ y \in B => x \in A \/ y \in A \/ Follow(q, A, B)
  <2> DEFINE one == Append(s, x)
             two == Append(one, y)
  <2>1. /\ one \in Seq(S)
        /\ \A A : Has(one, A) <=> Has(s, A) \/ x \in A
        /\ \A A, B : Never(s, A, B) /\ (x \in B => ~ Has(s, A)) => Never(one, A, B)
        /\ \A A, B : Follow(s, A, B) \/ x \in B => x \in A \/ Follow(one, A, B)
    BY QueueAppend
  <2> HIDE DEF one
  <2>2. /\ two \in Seq(S)
        /\ \A A : Has(two, A) <=> Has(one, A) \/ y \in A
        /\ \A A, B : Never(one, A, B) /\ (y \in B => ~ Has(one, A)) => Never(two, A, B)
        /\ \A A, B : Follow(one, A, B) \/ y \in B => y \in A \/ Follow(two, A, B)
    BY <2>1, QueueAppend
  <2>3. q = two
    BY <1>1 DEF one
  <2> HIDE DEF two
  <2> QED BY <2>1, <2>2, <2>3
<1>2. CASE q = Append(Append(s, a), b)
  BY <1>1, <1>2
<1>3. CASE q = Append(Append(s, b), a)
  BY <1>1, <1>3
<1> QED BY <1>2, <1>3

\* Three.
LEMMA QueueThree ==
    ASSUME NEW S, NEW s \in Seq(S), NEW x \in S, NEW y \in S, NEW z \in S
    PROVE  LET q == Append(Append(Append(s, x), y), z) IN
           /\ q \in Seq(S)
           /\ \A A : Has(q, A) <=> Has(s, A) \/ x \in A \/ y \in A \/ z \in A
           /\ \A A, B : /\ Never(s, A, B) /\ (x \in B \/ y \in B \/ z \in B => ~ Has(s, A))
                       /\ (x \in A => y \notin B /\ z \notin B) /\ (y \in A => z \notin B)
                       => Never(q, A, B)
           /\ \A A, B : Follow(s, A, B) \/ x \in B \/ y \in B \/ z \in B
                         => x \in A \/ y \in A \/ z \in A \/ Follow(q, A, B)
<1> DEFINE one == Append(s, x)
           two == Append(one, y)
           three == Append(two, z)
<1>1. /\ one \in Seq(S)
      /\ \A A : Has(one, A) <=> Has(s, A) \/ x \in A
      /\ \A A, B : Never(s, A, B) /\ (x \in B => ~ Has(s, A)) => Never(one, A, B)
      /\ \A A, B : Follow(s, A, B) \/ x \in B => x \in A \/ Follow(one, A, B)
  BY QueueAppend
<1> HIDE DEF one
<1>2. /\ two \in Seq(S)
      /\ \A A : Has(two, A) <=> Has(one, A) \/ y \in A
      /\ \A A, B : Never(one, A, B) /\ (y \in B => ~ Has(one, A)) => Never(two, A, B)
      /\ \A A, B : Follow(one, A, B) \/ y \in B => y \in A \/ Follow(two, A, B)
  BY <1>1, QueueAppend
<1> HIDE DEF two
<1>3. /\ three \in Seq(S)
      /\ \A A : Has(three, A) <=> Has(two, A) \/ z \in A
      /\ \A A, B : Never(two, A, B) /\ (z \in B => ~ Has(two, A)) => Never(three, A, B)
      /\ \A A, B : Follow(two, A, B) \/ z \in B => z \in A \/ Follow(three, A, B)
  BY <1>2, QueueAppend
<1>4. three = Append(Append(Append(s, x), y), z)
  BY DEF one, two
<1> HIDE DEF three
<1> QED BY <1>1, <1>2, <1>3, <1>4

LEMMA QueueOfTwo ==
    ASSUME NEW S, NEW a \in S, NEW b \in S
    PROVE  <<a>> \o <<b>> = <<a, b>>
<1>1. /\ <<a, b>> \in Seq(S) /\ <<a>> \o <<b>> \in Seq(S)
      /\ Len(<<a, b>>) = 2 /\ Len(<<a>> \o <<b>>) = 2
  OBVIOUS
<1>2. (<<a>> \o <<b>>)[1] = a /\ (<<a>> \o <<b>>)[2] = b
  OBVIOUS
<1>3. \A i \in 1 .. 2 : i = 1 \/ i = 2
  OBVIOUS
<1>4. <<a, b>>[1] = a /\ <<a, b>>[2] = b
  OBVIOUS
<1> DEFINE l == <<a, b>>
           r == <<a>> \o <<b>>
<1>5. l = r
  <2>1. /\ l \in Seq(S) /\ r \in Seq(S) /\ Len(l) = Len(r) /\ Len(l) = 2
        /\ \A i \in 1 .. 2 : l[i] = r[i]
    BY <1>1, <1>2, <1>3, <1>4
  <2> HIDE DEF l, r
  <2> QED BY <2>1, SeqEqual
<1> QED BY <1>5

LEMMA QueueConcat ==
    ASSUME NEW S, NEW s \in Seq(S), NEW a \in S, NEW b \in S
    PROVE  /\ s \o <<>> = s /\ s \o <<a>> = Append(s, a)
           /\ s \o <<a, b>> = Append(Append(s, a), b)
<1>1. s \o <<>> = s /\ s \o <<a>> = Append(s, a)
  OBVIOUS
<1>2. <<a, b>> = <<a>> \o <<b>>
  BY QueueOfTwo
<1>0. Append(s, a) \in Seq(S)
  OBVIOUS
<1>3. s \o (<<a>> \o <<b>>) = (s \o <<a>>) \o <<b>>
  <2>1. <<a>> \in Seq(S) /\ <<b>> \in Seq(S)
    OBVIOUS
  <2> QED BY <2>1, ConcatAssociative
<1>4. (s \o <<a>>) \o <<b>> = Append(Append(s, a), b)
  BY <1>0, <1>1
<1> QED BY <1>1, <1>2, <1>3, <1>4

\* A queue of one message.
LEMMA QueueOfOne ==
    ASSUME NEW S, NEW s \in Seq(S), s # <<>>, Len(s) <= 1
    PROVE  /\ Len(s) = 1 /\ Head(s) \in S /\ s = <<Head(s)>> /\ Tail(s) = <<>>
           /\ \A A : Has(s, A) <=> Head(s) \in A
<1>1. Len(s) = 1
  <2>1. Len(s) \in Nat /\ Len(s) # 0
    BY EmptySeq
  <2> QED BY <2>1
<1>2. Head(s) \in S /\ Head(s) = s[1]
  BY <1>1
<1>3. s = <<Head(s)>>
  <2> DEFINE one == <<Head(s)>>
  <2>1. one \in Seq(S) /\ Len(one) = 1 /\ one[1] = Head(s)
    BY <1>2
  <2> HIDE DEF one
  <2>2. \A i \in 1 .. 1 : i = 1
    OBVIOUS
  <2>3. s = one
    BY <1>1, <1>2, <2>1, <2>2, SeqEqual
  <2> QED BY <2>3 DEF one
<1>4. Tail(s) = <<>>
  <2>1. Tail(s) \in Seq(S) /\ Len(Tail(s)) = 0
    BY <1>1
  <2> QED BY <2>1, EmptySeq
<1>5. DOMAIN s = {1}
  BY <1>1
<1> QED BY <1>1, <1>2, <1>3, <1>4, <1>5 DEF Has

LEMMA FlattenOne == ASSUME NEW S, NEW q \in Seq(S) PROVE FlattenSeq(<<q>>) = q
<1>1. Len(<<q>>) = 1 /\ <<q>>[1] = q
  OBVIOUS
<1> DEFINE fl(f) == f = [i \in 1 .. Len(<<q>>) |-> IF i = 1 THEN <<q>>[i] ELSE f[i - 1] \o <<q>>[i]]
<1>2. fl([i \in 1 .. 1 |-> q])
  BY <1>1
<1>3. fl(CHOOSE f : fl(f))
  BY <1>2
<1> QED BY <1>1, <1>3 DEF FlattenSeq

LEMMA FlattenNone == FlattenSeq(<<>>) = <<>>
BY DEF FlattenSeq

LEMMA SeqOfNone == SetToSeq({}) = <<>>
<1>1. Cardinality({}) = 0 /\ 1 .. 0 = {}
  BY FS_EmptySet
<1> DEFINE F == [1 .. Cardinality({}) -> {}]
<1>2. \A f \in F : f = <<>>
  BY <1>1
<1>3. <<>> \in F /\ IsInjective(<<>>)
  BY <1>1 DEF IsInjective
<1> QED BY <1>2, <1>3 DEF SetToSeq

LEMMA SeqOfOne == ASSUME NEW x PROVE SetToSeq({x}) = <<x>>
<1>1. Cardinality({x}) = 1
  BY FS_Singleton
<1> DEFINE F == [1 .. Cardinality({x}) -> {x}]
<1>2. \A f \in F : f = <<x>>
  BY <1>1
<1>3. <<x>> \in F /\ IsInjective(<<x>>)
  BY <1>1 DEF IsInjective
<1> QED BY <1>2, <1>3 DEF SetToSeq

-----------------------------------------------------------------------------
(* The loop.                                                               *)

\* The source being dispatched has been attached.
DispatchedOnce == current # NoReg => source[current] # "none"

LoopInv == WrapperLives /\ DispatchedOnce

LEMMA LoopStarts == LoopInit => LoopInv
BY LoopAssumption DEF LoopInit, LoopInv, WrapperLives, LoopTypeOK, DispatchedOnce

-----------------------------------------------------------------------------
(* What the parts of the actions do to the variables.                      *)

\* The five add_* functions.
LEMMA AddAttaches ==
    ASSUME NEW r \in Regs,
           AddTimeout(r) \/ AddPeriodic(r) \/ AddWatch(r) \/ AddSignal(r) \/ AddIdle(r)
    PROVE  Attach(r) /\ ready' \in {ready, ready \cup {r}}
BY DEF AddTimeout, AddPeriodic, AddWatch, AddSignal, AddIdle

\* The five remove_* functions.
LEMMA RemoveDetaches ==
    ASSUME NEW r \in Regs,
           \/ RemoveTimeout(r) \/ RemovePeriodic(r) \/ RemoveWatch(r)
           \/ RemoveSignal(r) \/ RemoveIdle(r)
    PROVE  Detach(r)
BY DEF RemoveTimeout, RemovePeriodic, RemoveWatch, RemoveSignal, RemoveIdle

\* A trampoline ends its source or leaves it, whatever its kind.
LEMMA ReturnGoesOrStays ==
    ASSUME Return
    PROVE  /\ Go(current) \/ (Stay(current) /\ ready' \in {ready, ready \ {current}})
           /\ current # NoReg /\ current' = NoReg
           /\ UNCHANGED <<kind, batch, mainloop>>
BY DEF Return, TimeoutReturns, PeriodicReturns, SignalReturns, WatchReturns, IdleReturns, Go, Stay

\* The actions that leave sources, wrappers and the dispatch alone.
LoopQuiet == /\ UNCHANGED <<kind, source, wrapper, current>>
         /\ ready' \subseteq Regs /\ batch' \subseteq Regs
         /\ mainloop' \in {"null", "stopped", "running", "quitting"}

LEMMA QuietLoopActions ==
    ASSUME LoopTypeOK,
           \/ Run \/ Quit \/ Iterate \/ RunReturns
           \/ \E r \in Regs : PassOver(r) \/ EventOccurs(r)
           \/ UNCHANGED loopvars
    PROVE  LoopQuiet
<1>1. CASE Run \/ Quit \/ RunReturns
  BY <1>1 DEF Run, Quit, RunReturns, LoopQuiet, LoopTypeOK
<1>2. CASE Iterate
  BY <1>2 DEF Iterate, LoopQuiet, LoopTypeOK
<1>3. ASSUME NEW r \in Regs, PassOver(r) PROVE LoopQuiet
  BY <1>3 DEF PassOver, LoopQuiet, LoopTypeOK
<1>4. ASSUME NEW r \in Regs, EventOccurs(r) PROVE LoopQuiet
  BY <1>4 DEF EventOccurs, Attached, LoopQuiet, LoopTypeOK
<1>5. CASE UNCHANGED loopvars
  BY <1>5 DEF loopvars, LoopQuiet, LoopTypeOK
<1> QED BY <1>1, <1>2, <1>3, <1>4, <1>5

\* A step of the loop is one of five.
LEMMA LoopActions ==
    ASSUME LoopTypeOK, [LoopNext]_loopvars
    PROVE  \/ \E r \in Regs : Attach(r) /\ ready' \in {ready, ready \cup {r}}
           \/ \E r \in Regs : Detach(r)
           \/ \E r \in Regs : Dispatch(r)
           \/ Return
           \/ LoopQuiet
BY AddAttaches, RemoveDetaches, QuietLoopActions DEF LoopNext, App, Glib

-----------------------------------------------------------------------------
(* The invariant.                                                          *)

LEMMA LoopSteps == LoopInv /\ [LoopNext]_loopvars => LoopInv'
<1> SUFFICES ASSUME LoopInv, [LoopNext]_loopvars PROVE LoopInv'
  OBVIOUS
<1>1. LoopTypeOK /\ WrapperLives /\ DispatchedOnce
  BY DEF LoopInv, WrapperLives
<1> USE DEF LoopInv, WrapperLives, LoopTypeOK, DispatchedOnce
<1>2. ASSUME NEW r \in Regs, Attach(r), ready' \in {ready, ready \cup {r}} PROVE LoopInv'
  BY <1>1, <1>2 DEF Attach
<1>3. ASSUME NEW r \in Regs, Detach(r) PROVE LoopInv'
  <2>1. CASE current = r
    BY <1>1, <1>3, <2>1 DEF Detach, Destroyed
  <2>2. CASE current # r
    BY <1>1, <1>3, <2>2 DEF Detach, Destroyed
  <2> QED BY <2>1, <2>2
<1>4. ASSUME NEW r \in Regs, Dispatch(r) PROVE LoopInv'
  BY <1>1, <1>4, LoopAssumption DEF Dispatch
<1>5. CASE Return
  <2>1. /\ current # NoReg /\ current \in Regs /\ current' = NoReg
        /\ UNCHANGED <<kind, batch, mainloop>>
    BY <1>1, <1>5, ReturnGoesOrStays
  <2>2. CASE Go(current)
    BY <1>1, <2>1, <2>2, LoopAssumption DEF Go
  <2>3. CASE Stay(current) /\ ready' \in {ready, ready \ {current}}
    BY <1>1, <2>1, <2>3, LoopAssumption DEF Stay
  <2> QED BY <1>5, <2>2, <2>3, ReturnGoesOrStays
<1>6. CASE LoopQuiet
  BY <1>1, <1>6 DEF LoopQuiet
<1> QED BY <1>1, <1>2, <1>3, <1>4, <1>5, <1>6, LoopActions

\* The wrapper that a trampoline reads is alive while its callback runs, also
\* when the callback removes its own source, and every wrapper is freed, once,
\* when its source is over and its dispatch has returned.
THEOREM WrappersLive == LoopSpec => []WrapperLives
<1>1. LoopInv => WrapperLives
  BY DEF LoopInv
<1> QED BY <1>1, LoopStarts, LoopSteps, PTL DEF LoopSpec

-----------------------------------------------------------------------------
(* The refinement of EventLoopApi.                                         *)

LEMMA LoopRefines == LoopInv /\ [LoopNext]_loopvars => [Api!Next]_([r \in Regs |-> Life(r)])
<1> SUFFICES ASSUME LoopInv, [LoopNext]_loopvars PROVE [Api!Next]_([r \in Regs |-> Life(r)])
  OBVIOUS
<1> DEFINE reg == [r \in Regs |-> Life(r)]
<1>1. LoopTypeOK /\ DispatchedOnce
  BY DEF LoopInv, WrapperLives
<1>2. CASE LoopQuiet
  BY <1>2 DEF LoopQuiet, Life
<1>3. ASSUME NEW r \in Regs, Attach(r) PROVE Api!Next
  <2>1. Life(r) = "new" /\ \A s \in Regs : Life(s)' = IF s = r THEN "armed" ELSE Life(s)
    BY <1>1, <1>3, LoopAssumption DEF Attach, LoopTypeOK, DispatchedOnce, Life
  <2>2. Api!Add(r)
    BY <2>1 DEF Api!Add, Api!Becomes
  <2> QED BY <2>2 DEF Api!Next
<1>4. ASSUME NEW r \in Regs, Detach(r) PROVE Api!Next
  <2>1. CASE current = r
    <3>1. Life(r) = "called" /\ \A s \in Regs : Life(s)' = IF s = r THEN "leaving" ELSE Life(s)
      BY <1>1, <1>4, <2>1 DEF Detach, Destroyed, LoopTypeOK, Life
    <3>2. Api!Remove(r)
      BY <3>1 DEF Api!Remove, Api!Becomes
    <3> QED BY <3>2 DEF Api!Next
  <2>2. CASE current # r
    <3>1. Life(r) = "armed" /\ \A s \in Regs : Life(s)' = IF s = r THEN "over" ELSE Life(s)
      BY <1>1, <1>4, <2>2 DEF Detach, Destroyed, LoopTypeOK, Life
    <3>2. Api!Remove(r)
      BY <3>1 DEF Api!Remove, Api!Becomes
    <3> QED BY <3>2 DEF Api!Next
  <2> QED BY <2>1, <2>2
<1>5. ASSUME NEW r \in Regs, Dispatch(r) PROVE Api!Next
  <2>1. /\ Life(r) = "armed" /\ \A s \in Regs : Life(s) \notin {"called", "leaving"}
        /\ \A s \in Regs : Life(s)' = IF s = r THEN "called" ELSE Life(s)
    BY <1>1, <1>5, LoopAssumption DEF Dispatch, LoopTypeOK, Life
  <2>2. Api!Call(r)
    BY <2>1 DEF Api!Call, Api!Becomes
  <2> QED BY <2>2 DEF Api!Next
<1>6. ASSUME Return PROVE Api!Next
  <2> PICK r \in Regs : r = current
    BY <1>1, <1>6, ReturnGoesOrStays DEF LoopTypeOK
  <2>1. current' = NoReg
    BY <1>6, ReturnGoesOrStays
  <2>2. CASE Go(r)
    <3>1. /\ Life(r) \in {"called", "leaving"}
          /\ \A s \in Regs : Life(s)' = IF s = r THEN "over" ELSE Life(s)
      BY <1>1, <2>1, <2>2, LoopAssumption DEF Go, LoopTypeOK, DispatchedOnce, Life
    <3>2. Api!Return(r)
      BY <3>1 DEF Api!Return, Api!Becomes
    <3> QED BY <3>2 DEF Api!Next
  <2>3. CASE Stay(r)
    <3>1. /\ Life(r) = "called"
          /\ \A s \in Regs : Life(s)' = IF s = r THEN "armed" ELSE Life(s)
      BY <1>1, <2>1, <2>3, LoopAssumption DEF Stay, LoopTypeOK, Life
    <3>2. Api!Return(r)
      BY <3>1 DEF Api!Return, Api!Becomes
    <3> QED BY <3>2 DEF Api!Next
  <2> QED BY <1>6, <2>2, <2>3, ReturnGoesOrStays
<1> QED BY <1>1, <1>2, <1>3, <1>4, <1>5, <1>6, LoopActions

\* Whatever sources come and go, the loop gives every registration the life
\* that the loop module promises.
THEOREM LoopImplementsApi == LoopSpec => ImplementsApi
<1>1. LoopInit => Api!Init
  BY DEF LoopInit, Api!Init, Life
<1>2. LoopInv /\ [LoopNext]_loopvars => [Api!Next]_([r \in Regs |-> Life(r)])
  BY LoopRefines
<1> QED BY <1>1, <1>2, LoopStarts, LoopSteps, PTL DEF LoopSpec, ImplementsApi, Api!Spec, Life

-----------------------------------------------------------------------------
(* Bluetooth: devices, and what BlueZ tells of them.                       *)

\* One bonding at a time, of a device without a link that gets one and that is not
\* removed, and no other link changes meanwhile; init comes once.
BtCalm == BtUnusual = {}

BtSignals == [dev : BtDevs, key : {"Connected", "Paired"}, val : BOOLEAN]

SwitchedOff(s) == s.key = "Connected" /\ s.val = FALSE

\* A signal of d waits that the module will hear: it tells of a link that is gone,
\* or no bonding is in progress, or one that ends before it is handled.
WillHear(sigs, state, d) ==
    \E i \in DOMAIN sigs :
        /\ sigs[i].dev = d /\ sigs[i].key = "Connected"
        /\ \/ sigs[i].val = FALSE
           \/ state # "pairing"
           \/ \E j \in DOMAIN sigs : j < i /\ SwitchedOff(sigs[j])

AnyOff(sigs) == \E i \in DOMAIN sigs : SwitchedOff(sigs[i])

BtUntouched == /\ subscribe_ids = "null" /\ known = {} /\ scanning = FALSE
               /\ signals = <<>> /\ hci_state = "idle"

\* The application knows the device as it is, or will be told of it.
Covered(d) == \/ view[d] = Property(d)
              \/ WillHear(signals, hci_state, d)
              \/ d \in pairs \cap linked

BtInv ==
    /\ BtTypeOK
    /\ \A d \in BtDevs \ known : view[d] = NoProperty
    /\ refcnt = 0 => subscribe_ids = "freed" \/ BtUntouched
    /\ refcnt > 0 =>
          /\ hci_state = "pairing" => pairs # {} \/ AnyOff(signals)
          /\ \A d \in known : Covered(d)

LEMMA BtAppend ==
    ASSUME NEW s \in Seq(BtSignals), NEW m \in BtSignals
    PROVE  /\ Append(s, m) \in Seq(BtSignals)
           /\ AnyOff(s) \/ SwitchedOff(m) => AnyOff(Append(s, m))
           /\ \A state, d : WillHear(s, state, d) => WillHear(Append(s, m), state, d)
           /\ \A state, d : m.dev = d /\ m.key = "Connected" /\ (m.val = FALSE \/ state # "pairing" \/ AnyOff(s))
                               => WillHear(Append(s, m), state, d)
<1> DEFINE new == Append(s, m)
           n == Len(s)
<1>1. /\ new \in Seq(BtSignals) /\ n \in Nat /\ DOMAIN s = 1 .. n /\ DOMAIN new = 1 .. n + 1
      /\ \A i \in 1 .. n : new[i] = s[i] /\ i \in DOMAIN new /\ i < n + 1
      /\ new[n + 1] = m /\ n + 1 \in DOMAIN new
  OBVIOUS
<1> HIDE DEF new, n
<1>2. AnyOff(s) \/ SwitchedOff(m) => AnyOff(new)
  BY <1>1 DEF AnyOff
<1>3. ASSUME NEW state, NEW d, WillHear(s, state, d) PROVE WillHear(new, state, d)
  <2>1. PICK i \in 1 .. n :
           /\ s[i].dev = d /\ s[i].key = "Connected"
           /\ s[i].val = FALSE \/ state # "pairing" \/ \E j \in 1 .. n : j < i /\ SwitchedOff(s[j])
    BY <1>1, <1>3 DEF WillHear
  <2>2. (\E j \in 1 .. n : j < i /\ SwitchedOff(s[j])) => \E j \in DOMAIN new : j < i /\ SwitchedOff(new[j])
    BY <1>1
  <2> QED BY <1>1, <2>1, <2>2 DEF WillHear
<1>4. ASSUME NEW state, NEW d, m.dev = d, m.key = "Connected", m.val = FALSE \/ state # "pairing" \/ AnyOff(s)
      PROVE  WillHear(new, state, d)
  <2>1. AnyOff(s) => \E j \in DOMAIN new : j < n + 1 /\ SwitchedOff(new[j])
    BY <1>1 DEF AnyOff
  <2> QED BY <1>1, <1>4, <2>1 DEF WillHear
<1> QED BY <1>1, <1>2, <1>3, <1>4 DEF new

LEMMA BtTail ==
    ASSUME NEW s \in Seq(BtSignals), s # <<>>
    PROVE  /\ Tail(s) \in Seq(BtSignals) /\ Head(s) \in BtSignals
           /\ AnyOff(s) => SwitchedOff(Head(s)) \/ AnyOff(Tail(s))
           /\ \A state, d : WillHear(s, state, d) =>
                 \/ WillHear(Tail(s), state, d)
                 \/ Head(s).dev = d /\ Head(s).key = "Connected" /\ (SwitchedOff(Head(s)) \/ state # "pairing")
                 \/ SwitchedOff(Head(s)) /\ WillHear(Tail(s), "idle", d)
           /\ \A state, d : WillHear(Tail(s), state, d) => WillHear(Tail(s), "idle", d)
<1> DEFINE new == Tail(s)
           m == Head(s)
           n == Len(s)
<1>1. /\ new \in Seq(BtSignals) /\ n \in Nat /\ n > 0 /\ DOMAIN s = 1 .. n /\ DOMAIN new = 1 .. n - 1
      /\ \A i \in 1 .. n - 1 : new[i] = s[i + 1]
      /\ m = s[1] /\ m \in BtSignals
  OBVIOUS
<1> HIDE DEF new, n, m
<1>2. \A i \in 1 .. n : i = 1 \/ (i - 1 \in 1 .. n - 1 /\ new[i - 1] = s[i])
  <2> SUFFICES ASSUME NEW i \in 1 .. n, i # 1 PROVE i - 1 \in 1 .. n - 1 /\ new[i - 1] = s[i]
    OBVIOUS
  <2>1. i - 1 \in 1 .. n - 1 /\ (i - 1) + 1 = i
    BY <1>1
  <2> QED BY <1>1, <2>1
<1>3. AnyOff(s) => SwitchedOff(m) \/ AnyOff(new)
  BY <1>1, <1>2 DEF AnyOff
<1>4. \A state, d : WillHear(new, state, d) => WillHear(new, "idle", d)
  BY DEF WillHear
<1>5. ASSUME NEW state, NEW d, WillHear(s, state, d)
      PROVE  \/ WillHear(new, state, d)
             \/ m.dev = d /\ m.key = "Connected" /\ (SwitchedOff(m) \/ state # "pairing")
             \/ SwitchedOff(m) /\ WillHear(new, "idle", d)
  <2>1. PICK i \in 1 .. n :
           /\ s[i].dev = d /\ s[i].key = "Connected"
           /\ s[i].val = FALSE \/ state # "pairing" \/ \E j \in 1 .. n : j < i /\ SwitchedOff(s[j])
    BY <1>1, <1>5 DEF WillHear
  <2>2. CASE i = 1
    <3>1. ~ \E j \in 1 .. n : j < 1
      BY <1>1
    <3> QED BY <1>1, <2>1, <2>2, <3>1 DEF SwitchedOff
  <2>3. CASE i # 1
    <3>1. i - 1 \in DOMAIN new /\ new[i - 1] = s[i]
      BY <1>1, <1>2, <2>3
    <3>2. CASE s[i].val = FALSE \/ state # "pairing"
      BY <2>1, <3>1, <3>2 DEF WillHear
    <3>3. ASSUME NEW j \in 1 .. n, j < i, SwitchedOff(s[j])
          PROVE  WillHear(new, state, d) \/ (SwitchedOff(m) /\ WillHear(new, "idle", d))
      <4>1. CASE j = 1
        BY <1>1, <2>1, <3>1, <3>3, <4>1 DEF WillHear
      <4>2. CASE j # 1
        <5>1. j - 1 \in DOMAIN new /\ new[j - 1] = s[j] /\ j - 1 < i - 1
          BY <1>1, <1>2, <3>3, <4>2
        <5> QED BY <2>1, <3>1, <3>3, <5>1 DEF WillHear
      <4> QED BY <4>1, <4>2
    <3> QED BY <2>1, <3>2, <3>3
  <2> QED BY <2>2, <2>3
<1> QED BY <1>1, <1>3, <1>4, <1>5 DEF new, m

LEMMA BtStarts == BtInitState => BtInv
<1> SUFFICES ASSUME BtInitState PROVE BtInv
  OBVIOUS
<1>1. <<>> \in Seq([dev : BtDevs, key : {"Connected", "Paired"}, val : BOOLEAN])
  OBVIOUS
<1>2. NoProperty \in [connected : BOOLEAN, paired : BOOLEAN]
  BY DEF NoProperty
<1>3. view \in [BtDevs -> [connected : BOOLEAN, paired : BOOLEAN]]
  BY <1>2 DEF BtInitState
<1>4. refcnt \in 0 .. BtMaxRefs /\ signals \in Seq([dev : BtDevs, key : {"Connected", "Paired"}, val : BOOLEAN])
  BY <1>1, BtAssumption DEF BtInitState
<1>5. BtTypeOK
  BY <1>3, <1>4 DEF BtInitState, BtTypeOK
<1> QED BY <1>5 DEF BtInitState, BtInv, BtUntouched

\* What is sent and what waits then.
LEMMA BtSent ==
    ASSUME BtTypeOK, NEW a \in BtSignals
    PROVE  /\ Sent(<<>>) => signals' = signals
           /\ Sent(<<a>>) => signals' = IF refcnt > 0 THEN Append(signals, a) ELSE signals
           /\ \A b \in BtSignals : Sent(<<a, b>>) =>
                 signals' = IF refcnt > 0 THEN Append(Append(signals, a), b) ELSE signals
<1>1. signals \in Seq(BtSignals)
  BY DEF BtTypeOK, BtSignals
<1>2. signals \o <<>> = signals /\ signals \o <<a>> = Append(signals, a)
  BY <1>1
<1>3. ASSUME NEW b \in BtSignals PROVE signals \o <<a, b>> = Append(Append(signals, a), b)
  BY <1>1, QueueConcat
<1> QED BY <1>2, <1>3 DEF Sent

LEMMA BtRecorded ==
    ASSUME BtTypeOK, NEW d \in BtDevs
    PROVE  /\ Property(d) \in [connected : BOOLEAN, paired : BOOLEAN]
           /\ NoProperty \in [connected : BOOLEAN, paired : BOOLEAN]
           /\ [view EXCEPT ![d] = Property(d)] \in [BtDevs -> [connected : BOOLEAN, paired : BOOLEAN]]
<1>1. (d \in linked) \in BOOLEAN /\ (d \in bonded) \in BOOLEAN
  OBVIOUS
<1>2. Property(d) \in [connected : BOOLEAN, paired : BOOLEAN] /\ NoProperty \in [connected : BOOLEAN, paired : BOOLEAN]
  BY <1>1 DEF Property, NoProperty
<1> HIDE DEF Property, NoProperty
<1> QED BY <1>2 DEF BtTypeOK

LEMMA BtHandles ==
    ASSUME BtCalm, BtInv, DevicePropertiesChanged
    PROVE  BtInv'
<1> DEFINE m == Head(signals)
<1>1. BtTypeOK /\ signals \in Seq(BtSignals) /\ signals # <<>>
  BY DEF BtInv, BtTypeOK, BtSignals, DevicePropertiesChanged
<1>2. /\ signals' = Tail(signals) /\ Tail(signals) \in Seq(BtSignals) /\ m \in BtSignals
      /\ AnyOff(signals) => SwitchedOff(m) \/ AnyOff(signals')
      /\ \A state, d : WillHear(signals, state, d) =>
            \/ WillHear(signals', state, d)
            \/ m.dev = d /\ m.key = "Connected" /\ (SwitchedOff(m) \/ state # "pairing")
            \/ SwitchedOff(m) /\ WillHear(signals', "idle", d)
      /\ \A state, d : WillHear(signals', state, d) => WillHear(signals', "idle", d)
  BY <1>1, BtTail DEF DevicePropertiesChanged
<1>3. m.dev \in BtDevs /\ m.key \in {"Connected", "Paired"} /\ m.val \in BOOLEAN
  BY <1>2 DEF BtSignals
<1>4. UNCHANGED <<refcnt, subscribe_ids, scanning, known, linked, bonded, pairs, conns>>
  BY DEF DevicePropertiesChanged, BlueZ
<1>5. hci_state \in {"idle", "pairing", "connecting"}
  BY <1>1 DEF BtTypeOK
<1>6. refcnt = 0 => subscribe_ids = "freed"
  BY <1>1 DEF BtInv, BtUntouched
<1>7. \/ ~ Heard(m) /\ UNCHANGED <<hci_state, view>>
      \/ Heard(m) /\ hci_state' = "idle" /\ view' = IF m.dev \in known THEN [view EXCEPT ![m.dev] = Property(m.dev)] ELSE view
  BY DEF DevicePropertiesChanged, ProcessConnectionCb
<1>8. (SwitchedOff(m) => Heard(m)) /\ (m.key = "Connected" /\ hci_state # "pairing" => Heard(m))
  BY <1>5 DEF SwitchedOff, Heard
<1>9. view' \in [BtDevs -> [connected : BOOLEAN, paired : BOOLEAN]]
  BY <1>1, <1>3, <1>7, BtRecorded DEF BtTypeOK
<1>10. \A d : Property(d)' = Property(d)
  BY <1>4 DEF Property
<1> HIDE DEF m
<1>11. BtTypeOK'
  BY <1>1, <1>2, <1>4, <1>5, <1>7, <1>9 DEF BtTypeOK, BtSignals
<1>12. \A d \in BtDevs \ known : view'[d] = NoProperty
  BY <1>1, <1>3, <1>7 DEF BtInv, BtTypeOK
<1>13. ASSUME refcnt > 0 PROVE hci_state' = "pairing" => pairs # {} \/ AnyOff(signals')
  BY <1>2, <1>7, <1>8, <1>13 DEF BtInv
<1>14. ASSUME refcnt > 0, NEW d \in known PROVE Covered(d)'
  <2>1. view[d] = Property(d) \/ WillHear(signals, hci_state, d) \/ d \in pairs \cap linked
    BY <1>14 DEF BtInv, Covered
  <2>2. CASE d \in pairs \cap linked
    BY <1>4, <2>2 DEF Covered
  <2>3. CASE ~ Heard(m)
    <3>1. WillHear(signals, hci_state, d) => WillHear(signals', hci_state, d)
      BY <1>2, <1>8, <2>3
    <3> QED BY <1>4, <1>7, <1>10, <2>1, <2>3, <3>1 DEF Covered
  <2>4. CASE Heard(m) /\ m.dev = d
    <3>1. view'[d] = Property(d)
      BY <1>1, <1>3, <1>7, <1>14, <2>4 DEF BtTypeOK
    <3> QED BY <1>10, <3>1 DEF Covered
  <2>5. CASE Heard(m) /\ m.dev # d
    <3>1. view'[d] = view[d] /\ hci_state' = "idle"
      BY <1>1, <1>3, <1>7, <1>14, <2>5 DEF BtTypeOK
    <3>2. WillHear(signals, hci_state, d) => WillHear(signals', "idle", d)
      BY <1>2, <2>5
    <3> QED BY <1>4, <1>10, <2>1, <3>1, <3>2 DEF Covered
  <2> QED BY <2>3, <2>4, <2>5
<1> QED BY <1>4, <1>6, <1>11, <1>12, <1>13, <1>14 DEF BtInv

\* Devices are removed, signals of them stay.
LEMMA BtForgets ==
    ASSUME BtCalm, BtInv, NEW S \in SUBSET known, Removed(S), refcnt > 0,
           scanning' \in BOOLEAN, UNCHANGED <<refcnt, subscribe_ids, signals>>
    PROVE  BtInv'
<1>1. /\ S \cap pairs = {}
      /\ known' = known \ S /\ linked' = linked \ S /\ bonded' = bonded \ S
      /\ pairs' = pairs \ S /\ conns' = conns \ S
      /\ hci_state' = IF S \cap linked = {} THEN hci_state ELSE "idle"
      /\ view' = [d \in BtDevs |-> IF d \in S THEN NoProperty ELSE view[d]]
  BY DEF BtCalm, Removed
<1>2. BtTypeOK /\ signals' = signals /\ refcnt' = refcnt /\ subscribe_ids' = subscribe_ids
  BY DEF BtInv
<1>3. view' \in [BtDevs -> [connected : BOOLEAN, paired : BOOLEAN]]
  <2>1. ASSUME NEW d \in BtDevs PROVE view[d] \in [connected : BOOLEAN, paired : BOOLEAN] /\ NoProperty \in [connected : BOOLEAN, paired : BOOLEAN]
    BY <1>2, BtRecorded DEF BtTypeOK
  <2> HIDE DEF NoProperty
  <2> QED BY <1>1, <2>1
<1>4. BtTypeOK'
  <2>1. known' \subseteq BtDevs /\ linked' \subseteq known' /\ bonded' \subseteq known' /\ pairs' \subseteq known' /\ conns' \subseteq known'
    BY <1>1, <1>2 DEF BtTypeOK
  <2>2. hci_state' \in {"idle", "pairing", "connecting"}
    BY <1>1, <1>2 DEF BtTypeOK
  <2> QED BY <1>2, <1>3, <2>1, <2>2 DEF BtTypeOK
<1>5. \A d \in BtDevs \ known' : view'[d] = NoProperty
  BY <1>1 DEF BtInv
<1>6. hci_state' = "pairing" => pairs' # {} \/ AnyOff(signals)
  BY <1>1 DEF BtInv
<1>7. ASSUME NEW d \in known' PROVE Covered(d)'
  <2>1. d \in known /\ d \notin S /\ d \in BtDevs /\ view'[d] = view[d] /\ Property(d)' = Property(d)
    BY <1>1, <1>2 DEF BtTypeOK, Property
  <2>2. WillHear(signals, hci_state, d) => WillHear(signals, hci_state', d)
    BY <1>1 DEF WillHear
  <2> QED BY <1>1, <1>2, <2>1, <2>2 DEF BtInv, Covered
<1> QED BY <1>2, <1>4, <1>5, <1>6, <1>7 DEF BtInv

\* A link is lost, with its bonding if there is one, and a signal tells of it.
LEMMA BtLoses ==
    ASSUME BtCalm, BtInv, NEW d \in linked,
           linked' = linked \ {d}, pairs' \in {pairs, pairs \ {d}},
           conns' \in {conns, conns \ {d}}, bonded' \in {bonded, bonded \cup {d}},
           hci_state' \in {hci_state, "idle"},
           signals' \in Seq(BtSignals),
           refcnt = 0 => signals' = signals,
           refcnt > 0 => /\ AnyOff(signals')
                         /\ WillHear(signals', hci_state, d)
                         /\ \A state, e : WillHear(signals, state, e) => WillHear(signals', state, e),
           UNCHANGED <<refcnt, subscribe_ids, scanning, known, view>>
    PROVE  BtInv'
<1>1. BtTypeOK /\ d \in known
  BY DEF BtInv, BtTypeOK
<1>2. linked' \subseteq known /\ bonded' \subseteq known /\ pairs' \subseteq known /\ conns' \subseteq known
  BY <1>1 DEF BtTypeOK
<1>3. hci_state' \in {"idle", "pairing", "connecting"}
  BY <1>1 DEF BtTypeOK
<1>4. BtTypeOK'
  BY <1>1, <1>2, <1>3 DEF BtTypeOK, BtSignals
<1>5. \A state, e : WillHear(signals', state, e) => WillHear(signals', "idle", e)
  BY DEF WillHear
<1>6. ASSUME refcnt > 0, NEW e \in known PROVE Covered(e)'
  <2>1. WillHear(signals', hci_state, e) => WillHear(signals', hci_state', e)
    BY <1>5
  <2>2. CASE e = d
    BY <1>6, <2>1, <2>2 DEF Covered
  <2>3. CASE e # d
    <3>1. Property(e)' = Property(e) /\ view'[e] = view[e]
      BY <2>3 DEF Property
    <3>2. e \in pairs \cap linked => e \in pairs' \cap linked'
      BY <2>3
    <3> QED BY <1>6, <2>1, <3>1, <3>2 DEF BtInv, Covered
  <2> QED BY <2>2, <2>3
<1>7. refcnt = 0 => subscribe_ids = "freed"
  BY <1>1 DEF BtInv, BtUntouched
<1> QED BY <1>1, <1>4, <1>6, <1>7 DEF BtInv

\* What is appended when a link is lost.
LEMMA BtTellsLoss ==
    ASSUME BtTypeOK, NEW d \in BtDevs, NEW s \in Seq(BtSignals)
    PROVE  LET m == Signal(d, "Connected", FALSE)
           IN  /\ m \in BtSignals /\ Append(s, m) \in Seq(BtSignals)
               /\ AnyOff(Append(s, m))
               /\ \A state : WillHear(Append(s, m), state, d)
               /\ \A state, e : WillHear(s, state, e) => WillHear(Append(s, m), state, e)
<1> DEFINE m == Signal(d, "Connected", FALSE)
<1>1. m \in BtSignals /\ m.dev = d /\ m.key = "Connected" /\ m.val = FALSE /\ SwitchedOff(m)
  BY DEF Signal, BtSignals, SwitchedOff
<1> HIDE DEF m
<1>2. Append(s, m) \in Seq(BtSignals) /\ AnyOff(Append(s, m))
      /\ (\A state : WillHear(Append(s, m), state, d))
      /\ \A state, e : WillHear(s, state, e) => WillHear(Append(s, m), state, e)
  BY <1>1, BtAppend
<1> QED BY <1>1, <1>2 DEF m

\* Disconnect, CancelPairing and the loss of a link.
LEMMA BtUnlinks ==
    ASSUME BtCalm, BtInv, NEW d \in BtDevs, refcnt > 0 \/ UNCHANGED hci_state,
           d \in linked \/ d \in pairs,
           linked' = linked \ {d}, pairs' \in {pairs, pairs \ {d}},
           d \notin linked => pairs' = pairs \ {d},
           conns' \in {conns, conns \ {d}},
           Sent(IF d \in linked THEN <<Signal(d, "Connected", FALSE)>> ELSE <<>>),
           hci_state' = "idle" \/ (d \in linked /\ hci_state' = hci_state),
           UNCHANGED <<refcnt, subscribe_ids, scanning, known, bonded, view>>
    PROVE  BtInv'
<1> DEFINE m == Signal(d, "Connected", FALSE)
<1>1. BtTypeOK /\ signals \in Seq(BtSignals) /\ m \in BtSignals
  BY DEF BtInv, BtTypeOK, BtSignals, Signal
<1>2. CASE d \in linked
  <2>1. signals' = IF refcnt > 0 THEN Append(signals, m) ELSE signals
    BY <1>1, <1>2, BtSent
  <2>2. Append(signals, m) \in Seq(BtSignals) /\ AnyOff(Append(signals, m))
        /\ (\A state : WillHear(Append(signals, m), state, d))
        /\ \A state, e : WillHear(signals, state, e) => WillHear(Append(signals, m), state, e)
    BY <1>1, BtTellsLoss
  <2> HIDE DEF m
  <2>3. hci_state' \in {hci_state, "idle"}
    OBVIOUS
  <2>4. signals' \in Seq(BtSignals) /\ (refcnt = 0 => signals' = signals)
    BY <1>1, <2>1, <2>2
  <2>5. refcnt > 0 => AnyOff(signals') /\ WillHear(signals', hci_state, d)
                      /\ \A state, e : WillHear(signals, state, e) => WillHear(signals', state, e)
    BY <2>1, <2>2
  <2> QED BY <1>2, <2>3, <2>4, <2>5, BtLoses
<1>3. CASE d \notin linked
  <2>1. signals' = signals /\ linked' = linked /\ hci_state' = "idle" /\ pairs' = pairs \ {d}
    BY <1>1, <1>3, BtSent
  <2>2. linked \subseteq known /\ bonded \subseteq known /\ pairs' \subseteq known /\ conns' \subseteq known
    BY <1>1, <2>1 DEF BtTypeOK
  <2>3. BtTypeOK'
    BY <1>1, <2>1, <2>2 DEF BtTypeOK
  <2>4. ASSUME refcnt > 0, NEW e \in known PROVE Covered(e)'
    <3>1. Property(e)' = Property(e)
      BY <2>1 DEF Property
    <3>2. WillHear(signals, hci_state, e) => WillHear(signals, "idle", e)
      BY DEF WillHear
    <3>3. e \in pairs \cap linked => e \in pairs' \cap linked'
      BY <1>3, <2>1
    <3> QED BY <2>1, <2>4, <3>1, <3>2, <3>3 DEF BtInv, Covered
  <2>5. d \in known
    BY <1>1 DEF BtTypeOK
  <2>6. refcnt = 0 => subscribe_ids = "freed"
    BY <2>5 DEF BtInv, BtUntouched
  <2> QED BY <2>1, <2>3, <2>4, <2>6 DEF BtInv
<1> QED BY <1>2, <1>3

\* A link is made: it is told at once, or it is that of the bonding.
LEMMA BtMakesLink ==
    ASSUME BtCalm, BtInv, NEW d \in known \ linked,
           linked' = linked \cup {d}, conns' \in {conns, conns \ {d}},
           pairs = {} \/ d \in pairs,
           Sent(<<Signal(d, "Connected", TRUE)>>),
           UNCHANGED <<refcnt, subscribe_ids, hci_state, scanning, known, bonded, pairs, view>>
    PROVE  BtInv'
<1> DEFINE m == Signal(d, "Connected", TRUE)
<1>1. BtTypeOK /\ signals \in Seq(BtSignals) /\ d \in BtDevs
  BY DEF BtInv, BtTypeOK, BtSignals
<1>2. m \in BtSignals /\ m.dev = d /\ m.key = "Connected"
  BY <1>1 DEF Signal, BtSignals
<1>3. signals' = IF refcnt > 0 THEN Append(signals, m) ELSE signals
  BY <1>1, <1>2, BtSent
<1> HIDE DEF m
<1>4. /\ Append(signals, m) \in Seq(BtSignals)
      /\ AnyOff(signals) => AnyOff(Append(signals, m))
      /\ \A state, e : WillHear(signals, state, e) => WillHear(Append(signals, m), state, e)
      /\ \A state : state # "pairing" \/ AnyOff(signals) => WillHear(Append(signals, m), state, d)
  BY <1>1, <1>2, BtAppend
<1>5. signals' \in Seq(BtSignals)
  BY <1>1, <1>3, <1>4
<1>6. linked' \subseteq known /\ conns' \subseteq known
  BY <1>1 DEF BtTypeOK
<1>7. BtTypeOK'
  BY <1>1, <1>5, <1>6 DEF BtTypeOK, BtSignals
<1>8. ASSUME refcnt > 0, NEW e \in known PROVE Covered(e)'
  <2>1. CASE e # d
    <3>1. Property(e)' = Property(e)
      BY <2>1 DEF Property
    <3> QED BY <1>3, <1>4, <1>8, <2>1, <3>1 DEF BtInv, Covered
  <2>2. CASE e = d /\ d \in pairs
    BY <2>2 DEF Covered
  <2>3. CASE e = d /\ pairs = {}
    <3>1. hci_state = "pairing" => AnyOff(signals)
      BY <1>8, <2>3 DEF BtInv
    <3> QED BY <1>3, <1>4, <1>8, <2>3, <3>1 DEF Covered
  <2> QED BY <2>1, <2>2, <2>3
<1>9. refcnt > 0 => (hci_state = "pairing" => pairs # {} \/ AnyOff(signals'))
  BY <1>3, <1>4 DEF BtInv
<1>10. refcnt = 0 => subscribe_ids = "freed"
  BY DEF BtInv, BtUntouched
<1> QED BY <1>7, <1>8, <1>9, <1>10 DEF BtInv

\* A bonding ends with its link.
LEMMA BtPairEnds ==
    ASSUME BtCalm, BtInv, NEW d \in BtDevs, NEW end \in {"bonded", "refused", "unheard"}, PairEnds(d, end)
    PROVE  BtInv'
<1> DEFINE p == Signal(d, "Paired", TRUE)
           m == Signal(d, "Connected", FALSE)
<1>1. BtTypeOK /\ signals \in Seq(BtSignals) /\ p \in BtSignals /\ m \in BtSignals
  BY DEF BtInv, BtTypeOK, BtSignals, Signal
<1>2. /\ d \in linked /\ end # "unheard" /\ pairs' = pairs \ {d} /\ linked' = linked \ {d}
      /\ bonded' \in {bonded, bonded \cup {d}}
      /\ UNCHANGED <<refcnt, subscribe_ids, hci_state, scanning, known, conns, view>>
  BY DEF PairEnds, BtCalm
<1>3. Sent((IF bonded' # bonded THEN <<p>> ELSE <<>>) \o <<m>>)
  BY <1>2 DEF PairEnds
<1>4. (IF bonded' # bonded THEN <<p>> ELSE <<>>) \o <<m>> = IF bonded' # bonded THEN <<p, m>> ELSE <<m>>
  <2> HIDE DEF p, m
  <2>1. <<p>> \o <<m>> = <<p, m>> /\ <<m>> \in Seq(BtSignals)
    BY <1>1, QueueOfTwo
  <2>2. <<>> \o <<m>> = <<m>>
    BY <2>1
  <2> QED BY <2>1, <2>2
<1>5. signals' = IF refcnt > 0 THEN (IF bonded' # bonded THEN Append(Append(signals, p), m) ELSE Append(signals, m))
                 ELSE signals
  <2> HIDE DEF p, m
  <2>1. CASE bonded' # bonded
    <3>1. Sent(<<p, m>>)
      BY <1>3, <1>4, <2>1
    <3> QED BY <1>1, <2>1, <3>1, BtSent
  <2>2. CASE bonded' = bonded
    <3>1. Sent(<<m>>)
      BY <1>3, <1>4, <2>2
    <3> QED BY <1>1, <2>2, <3>1, BtSent
  <2> QED BY <2>1, <2>2
<1>6. PICK s \in Seq(BtSignals) :
         /\ signals' = IF refcnt > 0 THEN Append(s, m) ELSE signals
         /\ \A state, e : WillHear(signals, state, e) => WillHear(s, state, e)
  <2> HIDE DEF p, m
  <2>1. CASE bonded' # bonded
    <3>1. Append(signals, p) \in Seq(BtSignals)
          /\ \A state, e : WillHear(signals, state, e) => WillHear(Append(signals, p), state, e)
      BY <1>1, BtAppend
    <3> QED BY <1>5, <2>1, <3>1
  <2>2. CASE bonded' = bonded
    BY <1>1, <1>5, <2>2
  <2> QED BY <2>1, <2>2
<1>7. Append(s, m) \in Seq(BtSignals) /\ AnyOff(Append(s, m))
      /\ (\A state : WillHear(Append(s, m), state, d))
      /\ \A state, e : WillHear(s, state, e) => WillHear(Append(s, m), state, e)
  BY <1>1, BtTellsLoss
<1> HIDE DEF p, m
<1>8. signals' \in Seq(BtSignals) /\ (refcnt = 0 => signals' = signals)
  BY <1>1, <1>6, <1>7
<1>9. refcnt > 0 => AnyOff(signals') /\ WillHear(signals', hci_state, d)
                    /\ \A state, e : WillHear(signals, state, e) => WillHear(signals', state, e)
  BY <1>6, <1>7
<1> QED BY <1>2, <1>8, <1>9, BtLoses

\* A bonding that is begun has no link yet and nothing waits.
LEMMA BtBonds ==
    ASSUME BtCalm, BtInv, NEW d \in BtDevs, BtStartBond(d)
    PROVE  BtInv'
<1>1. BtTypeOK /\ d \in known /\ refcnt > 0
  BY DEF BtInv, BtStartBond
<1>2. UNCHANGED <<refcnt, subscribe_ids, scanning, known, linked, bonded, conns, signals>>
  BY DEF BtStartBond
<1>3. \A e : Property(e)' = Property(e)
  BY <1>2 DEF Property
<1>4. CASE d \in bonded
  <2>1. hci_state' = "idle" /\ view' = [view EXCEPT ![d] = Property(d)] /\ pairs' = pairs
    BY <1>1, <1>4 DEF BtStartBond, ProcessConnectionCb
  <2>2. view' \in [BtDevs -> [connected : BOOLEAN, paired : BOOLEAN]]
    BY <1>1, <2>1, BtRecorded
  <2>3. BtTypeOK'
    BY <1>1, <1>2, <2>1, <2>2 DEF BtTypeOK
  <2>4. \A e \in BtDevs : view'[e] = IF e = d THEN Property(d) ELSE view[e]
    BY <1>1, <2>1 DEF BtTypeOK
  <2>5. ASSUME NEW e \in known PROVE Covered(e)'
    <3>1. WillHear(signals, hci_state, e) => WillHear(signals, "idle", e)
      BY DEF WillHear
    <3>2. e \in BtDevs
      BY <1>1 DEF BtTypeOK
    <3> QED BY <1>1, <1>2, <1>3, <2>1, <2>4, <3>1, <3>2 DEF BtInv, Covered
  <2> QED BY <1>1, <1>2, <2>1, <2>3, <2>4, <2>5 DEF BtInv
<1>5. CASE d \notin bonded
  <2>1. signals = <<>> /\ pairs' = pairs \cup {d} /\ hci_state' = "pairing" /\ view' = view
    BY <1>5 DEF BtStartBond, BtCalm
  <2>2. BtTypeOK'
    BY <1>1, <1>2, <2>1 DEF BtTypeOK
  <2>3. ASSUME NEW e \in known PROVE Covered(e)'
    <3>1. ~ WillHear(signals, hci_state, e)
      <4>1. DOMAIN signals = {}
        BY <2>1
      <4> QED BY <4>1 DEF WillHear
    <3> QED BY <1>1, <1>2, <1>3, <2>1, <3>1 DEF BtInv, Covered
  <2> QED BY <1>1, <1>2, <2>1, <2>2, <2>3 DEF BtInv
<1> QED BY <1>4, <1>5

LEMMA BtConnects ==
    ASSUME BtCalm, BtInv, NEW d \in BtDevs, BtConnect(d)
    PROVE  BtInv'
<1>1. BtTypeOK /\ d \in known /\ refcnt > 0
  BY DEF BtInv, BtConnect
<1>2. UNCHANGED <<refcnt, subscribe_ids, scanning, known, linked, bonded, pairs, signals>>
  BY DEF BtConnect
<1>3. \A e : Property(e)' = Property(e)
  BY <1>2 DEF Property
<1>4. hci_state' \in {"idle", "connecting"} /\ conns' \in {conns, conns \cup {d}}
      /\ view' \in {view, [view EXCEPT ![d] = Property(d)]}
  BY <1>1 DEF BtConnect, ProcessConnectionCb
<1>5. view' \in [BtDevs -> [connected : BOOLEAN, paired : BOOLEAN]]
  BY <1>1, <1>4, BtRecorded DEF BtTypeOK
<1>6. conns' \subseteq known
  BY <1>1, <1>4 DEF BtTypeOK
<1>7. BtTypeOK'
  BY <1>1, <1>2, <1>4, <1>5, <1>6 DEF BtTypeOK
<1>8. \A e \in BtDevs : view'[e] = view[e] \/ (e = d /\ view'[e] = Property(d))
  BY <1>1, <1>4 DEF BtTypeOK
<1>9. ASSUME NEW e \in known PROVE Covered(e)'
  <2>1. WillHear(signals, hci_state, e) => WillHear(signals, hci_state', e)
    BY <1>4 DEF WillHear
  <2>2. e \in BtDevs
    BY <1>1 DEF BtTypeOK
  <2> QED BY <1>1, <1>2, <1>3, <1>8, <2>1, <2>2 DEF BtInv, Covered
<1> QED BY <1>1, <1>2, <1>4, <1>7, <1>8, <1>9 DEF BtInv

\* The calls of init, deinit and of the scan, and what BlueZ finds.
LEMMA BtCounts ==
    ASSUME BtCalm, BtInv, BtOpens \/ BtCloses
    PROVE  BtInv'
<1>1. BtTypeOK /\ refcnt \in Nat /\ <<>> \in Seq([dev : BtDevs, key : {"Connected", "Paired"}, val : BOOLEAN])
  BY BtAssumption DEF BtInv, BtTypeOK
<1>2. UNCHANGED <<hci_state, scanning, known, linked, bonded, pairs, conns, view>>
  BY DEF BtOpens, BtCloses, BlueZ
<1>3. \A e : Property(e)' = Property(e)
  BY <1>2 DEF Property
<1>4. CASE BtOpens
  <2>1. refcnt < BtMaxRefs /\ refcnt' = refcnt + 1 /\ signals' = signals
        /\ subscribe_ids' \in {"table", subscribe_ids}
    BY <1>4 DEF BtOpens
  <2>2. refcnt' \in 0 .. BtMaxRefs /\ refcnt' > 0
    BY <1>1, <2>1, BtAssumption
  <2>3. BtTypeOK'
    BY <1>1, <1>2, <2>1, <2>2 DEF BtTypeOK
  <2>4. refcnt = 0 => BtUntouched
    BY <1>1, <1>4 DEF BtOpens, BtInv, BtCalm
  <2>5. ASSUME NEW e \in known PROVE Covered(e)'
    <3>1. refcnt > 0
      BY <1>1, <2>4, <2>5 DEF BtUntouched
    <3> QED BY <1>2, <1>3, <2>1, <3>1 DEF BtInv, Covered
  <2>6. hci_state = "pairing" => pairs # {} \/ AnyOff(signals)
    BY <1>1, <2>4 DEF BtInv, BtUntouched
  <2> QED BY <1>2, <2>1, <2>2, <2>3, <2>5, <2>6 DEF BtInv
<1>5. CASE BtCloses /\ refcnt = 1
  <2>1. refcnt' = 0 /\ subscribe_ids' = "freed" /\ signals' = <<>>
    BY <1>5 DEF BtCloses
  <2>2. BtTypeOK'
    BY <1>1, <1>2, <2>1, BtAssumption DEF BtTypeOK
  <2> QED BY <1>2, <2>1, <2>2 DEF BtInv
<1>6. CASE BtCloses /\ refcnt # 1
  <2>1. refcnt > 0 /\ refcnt' = refcnt - 1 /\ signals' = signals /\ subscribe_ids' = subscribe_ids
    BY <1>6 DEF BtCloses
  <2>2. refcnt' \in 0 .. BtMaxRefs /\ refcnt' > 0
    BY <1>1, <1>6, <2>1, BtAssumption DEF BtTypeOK
  <2>3. BtTypeOK'
    BY <1>1, <1>2, <2>1, <2>2 DEF BtTypeOK
  <2>4. \A e \in known : Covered(e)'
    BY <1>2, <1>3, <2>1 DEF BtInv, Covered
  <2> QED BY <1>2, <2>1, <2>2, <2>3, <2>4 DEF BtInv
<1> QED BY <1>4, <1>5, <1>6

LEMMA BtSearches ==
    ASSUME BtCalm, BtInv, NEW d \in BtDevs, BtStopScan \/ DeviceFound(d) \/ BtConnectFails(d)
    PROVE  BtInv'
<1>1. BtTypeOK
  BY DEF BtInv
<1>2. /\ UNCHANGED <<refcnt, subscribe_ids, hci_state, linked, bonded, pairs, signals, view>>
      /\ scanning' \in {scanning, FALSE} /\ conns' \subseteq conns
      /\ known' = known \/ (d \notin known /\ scanning /\ known' = known \cup {d})
      /\ refcnt = 0 => ~ BtUntouched
  BY DEF BtStopScan, DeviceFound, BtConnectFails, BtUntouched, BtInv, BtTypeOK
<1>3. \A e : Property(e)' = Property(e)
  BY <1>2 DEF Property
<1>4. BtTypeOK'
  BY <1>1, <1>2 DEF BtTypeOK
<1>5. ASSUME refcnt > 0, NEW e \in known' PROVE Covered(e)'
  <2>1. CASE e \in known
    BY <1>2, <1>3, <1>5, <2>1 DEF BtInv, Covered
  <2>2. CASE e \notin known
    <3>1. e \in BtDevs \ known /\ e \notin linked /\ e \notin bonded
      BY <1>1, <1>2, <1>5, <2>2 DEF BtTypeOK
    <3>2. (e \in linked) = FALSE /\ (e \in bonded) = FALSE
      BY <3>1
    <3>3. Property(e) = NoProperty /\ view[e] = NoProperty
      BY <3>1, <3>2 DEF BtInv, Property, NoProperty
    <3> QED BY <1>2, <1>3, <3>3 DEF Covered
  <2> QED BY <2>1, <2>2
<1> QED BY <1>2, <1>4, <1>5 DEF BtInv

LEMMA BtSteps ==
    ASSUME BtCalm, BtInv, BtNext
    PROVE  BtInv'
<1>1. BtTypeOK
  BY DEF BtInv
<1>2. CASE DevicePropertiesChanged
  BY <1>2, BtHandles
<1>3. CASE BtOpens \/ BtCloses
  BY <1>3, BtCounts
<1>4. CASE BtRemoveDevices
  BY <1>1, <1>4, BtForgets DEF BtRemoveDevices, BtTypeOK
<1>5. CASE BtStartScan
  <2>1. known \ (bonded \cap linked) \in SUBSET known /\ scanning' \in BOOLEAN
    BY <1>5 DEF BtStartScan
  <2> QED BY <1>5, <2>1, BtForgets DEF BtStartScan
<1>6. CASE BtStopScan
  <2>1. CASE BtDevs = {}
    <3>1. known = {} /\ scanning' = FALSE
      BY <1>1, <1>6, <2>1 DEF BtTypeOK, BtStopScan
    <3>2. UNCHANGED <<refcnt, subscribe_ids, hci_state, known, linked, bonded, pairs, conns, signals, view>> /\ refcnt > 0
      BY <1>6 DEF BtStopScan
    <3>3. BtTypeOK'
      BY <1>1, <3>1, <3>2 DEF BtTypeOK
    <3> QED BY <3>1, <3>2, <3>3 DEF BtInv
  <2>2. CASE BtDevs # {}
    BY <1>6, <2>2, BtSearches
  <2> QED BY <2>1, <2>2
<1>7. ASSUME NEW d \in BtDevs, BtStartBond(d) PROVE BtInv'
  BY <1>7, BtBonds
<1>8. ASSUME NEW d \in BtDevs, BtConnect(d) PROVE BtInv'
  BY <1>8, BtConnects
<1>9. ASSUME NEW d \in BtDevs, BtDisconnect(d) \/ BtStopBond(d) PROVE BtInv'
  <2>1. d \in linked \/ d \in pairs
    BY <1>9 DEF BtDisconnect, BtStopBond
  <2>2. Unlinked(d) /\ hci_state' = "idle" /\ refcnt > 0
        /\ UNCHANGED <<refcnt, subscribe_ids, scanning, known, bonded, view>>
    BY <1>9 DEF BtDisconnect, BtStopBond
  <2> QED BY <2>1, <2>2, BtUnlinks DEF Unlinked
<1>10. ASSUME NEW d \in BtDevs, BtRemoveDevice(d) PROVE BtInv'
  <2>1. {d} \in SUBSET known /\ scanning' \in BOOLEAN
    BY <1>1, <1>10 DEF BtRemoveDevice, BtTypeOK
  <2> QED BY <1>10, <2>1, BtForgets DEF BtRemoveDevice
<1>11. ASSUME NEW d \in BtDevs, DeviceFound(d) \/ BtConnectFails(d) PROVE BtInv'
  BY <1>11, BtSearches
<1>12. ASSUME NEW d \in BtDevs, LinkUp(d) PROVE BtInv'
  <2>1. d \in known \ linked /\ pairs = {} /\ linked' = linked \cup {d} /\ conns' \in {conns, conns \ {d}}
        /\ Sent(<<Signal(d, "Connected", TRUE)>>)
        /\ UNCHANGED <<refcnt, subscribe_ids, hci_state, scanning, known, bonded, pairs, view>>
    BY <1>12 DEF LinkUp, BtCalm
  <2> QED BY <2>1, BtMakesLink
<1>13. ASSUME NEW d \in BtDevs, LinkDown(d) PROVE BtInv'
  <2>1. d \in linked /\ linked' = linked \ {d} /\ pairs' \in {pairs, pairs \ {d}} /\ conns' \in {conns, conns \ {d}}
        /\ Sent(IF d \in linked THEN <<Signal(d, "Connected", FALSE)>> ELSE <<>>)
        /\ UNCHANGED <<refcnt, subscribe_ids, hci_state, scanning, known, bonded, view>>
    BY <1>13 DEF LinkDown
  <2> QED BY <2>1, BtUnlinks
<1>14. ASSUME NEW d \in BtDevs, PairLink(d) PROVE BtInv'
  <2>1. d \in known \ linked /\ d \in pairs /\ linked' = linked \cup {d} /\ conns' \in {conns, conns \ {d}}
        /\ Sent(<<Signal(d, "Connected", TRUE)>>)
        /\ UNCHANGED <<refcnt, subscribe_ids, hci_state, scanning, known, bonded, pairs, view>>
    BY <1>1, <1>14 DEF PairLink, BtTypeOK
  <2> QED BY <2>1, BtMakesLink
<1>15. ASSUME NEW d \in BtDevs, NEW end \in {"bonded", "refused", "unheard"}, PairEnds(d, end) PROVE BtInv'
  BY <1>15, BtPairEnds
<1> QED BY <1>2, <1>3, <1>4, <1>5, <1>6, <1>7, <1>8, <1>9, <1>10, <1>11, <1>12, <1>13, <1>14, <1>15 DEF BtNext

LEMMA BtGives == BtInv => EventsConverge
<1> SUFFICES ASSUME BtInv, refcnt > 0, signals = <<>>, pairs = {}, NEW d \in known
             PROVE  view[d] = Property(d)
  BY DEF EventsConverge, BtInv
<1>1. DOMAIN signals = {}
  OBVIOUS
<1> QED BY <1>1 DEF BtInv, Covered, WillHear

LEMMA BtUnchanged == ASSUME BtInv, UNCHANGED btvars PROVE BtInv'
<1>1. BtTypeOK'
  BY DEF BtInv, BtTypeOK, btvars
<1>2. (refcnt = 0 => subscribe_ids = "freed" \/ BtUntouched)'
  BY DEF BtInv, BtUntouched, btvars
<1>3. \A d \in BtDevs : Property(d)' = Property(d) /\ (Covered(d) => Covered(d)')
  BY DEF Covered, Property, WillHear, btvars
<1>4. UNCHANGED <<refcnt, known, view, hci_state, pairs>> /\ AnyOff(signals)' = AnyOff(signals)
  BY DEF btvars, AnyOff
<1>5. \A d \in BtDevs \ known' : view'[d] = NoProperty
  BY <1>4 DEF BtInv
<1>6. refcnt' > 0 => (hci_state' = "pairing" => pairs' # {} \/ AnyOff(signals)')
  BY <1>4 DEF BtInv
<1>7. refcnt' > 0 => \A d \in known' : Covered(d)'
  BY <1>1, <1>3, <1>4 DEF BtInv, BtTypeOK
<1> QED BY <1>1, <1>2, <1>5, <1>6, <1>7 DEF BtInv

-----------------------------------------------------------------------------
(* Bluetooth: the GATT server's ids and paths.                             *)

\* No object joins a list from which the last of its kind was removed.
GsCalm == GsUnusual = {}

DescT == [id : Nat, path : Seq(Nat), addr : Nat]
ChrT == [id : Nat, path : Seq(Nat), addr : Nat, descs : Seq(DescT)]
SvcT == [id : Nat, addr : Nat, registered : BOOLEAN, chars : Seq(ChrT)]

\* A path is made of the ids of what holds the object, and exported; ids of one list differ.
ChrPlaced(sid, c, paths) ==
    /\ c.path = <<sid, c.id>> /\ c.path \in paths
    /\ \A k \in DOMAIN c.descs :
          /\ c.descs[k].path = <<sid, c.id, c.descs[k].id>> /\ c.descs[k].path \in paths
          /\ \A l \in DOMAIN c.descs : c.descs[l].id = c.descs[k].id => l = k

SvcPlaced(s, paths) ==
    \A j \in DOMAIN s.chars :
       /\ ChrPlaced(s.id, s.chars[j], paths)
       /\ \A l \in DOMAIN s.chars : s.chars[l].id = s.chars[j].id => l = j

\* Services may share an id: only the first of them has characteristics.
OneFilled(list) ==
    \A i, j \in DOMAIN list : j < i /\ list[j].id = list[i].id => list[i].chars = <<>>

AllPlaced(list, paths) ==
    /\ \A i \in DOMAIN list : SvcPlaced(list[i], paths)
    /\ OneFilled(list)

\* The request was passed to the object of the ids in its path.
RequestIsRouted(list, r) ==
    r # NoRequest =>
        LET p == FindChr(list, r.path[1], r.path[2])
            k == IF Len(r.path) = 3 /\ p # <<0, 0>> THEN ById(Chr(list, p).descs, r.path[3]) ELSE 0
        IN  /\ p # <<0, 0>>
            /\ r.addr = IF Len(r.path) = 2 THEN Chr(list, p).addr ELSE Chr(list, p).descs[k].addr

GsInv ==
    /\ services \in Seq(SvcT) /\ objects \in Nat
    /\ AllPlaced(services, exported)
    /\ RequestIsRouted(services, request)

LEMMA FirstIs ==
    ASSUME NEW n \in Nat, NEW S \in SUBSET (1 .. n)
    PROVE  \/ S = {} /\ First(S) = 0
           \/ S # {} /\ First(S) \in S /\ First(S) # 0 /\ \A j \in S : First(S) <= j
<1>1. S \subseteq Nat
  OBVIOUS
<1>2. S # {} => Min(S) \in S /\ \A j \in S : Min(S) <= j
  BY <1>1, MinIs
<1> QED BY <1>2 DEF First

LEMMA ByIdIs ==
    ASSUME NEW T, NEW list \in Seq(T), NEW id
    PROVE  LET i == ById(list, id)
           IN  \/ i = 0 /\ \A j \in DOMAIN list : list[j].id # id
               \/ /\ i # 0 /\ i \in DOMAIN list /\ list[i].id = id
                  /\ \A j \in DOMAIN list : list[j].id = id => i <= j
<1> DEFINE S == {i \in DOMAIN list : list[i].id = id}
<1>1. Len(list) \in Nat /\ S \in SUBSET (1 .. Len(list))
  OBVIOUS
<1>2. ById(list, id) = First(S)
  BY DEF ById
<1>3. \/ S = {} /\ First(S) = 0
      \/ S # {} /\ First(S) \in S /\ First(S) # 0 /\ \A j \in S : First(S) <= j
  <2> HIDE DEF S
  <2> QED BY <1>1, FirstIs
<1> QED BY <1>2, <1>3

LEMMA ByPathIs ==
    ASSUME NEW T, NEW list \in Seq(T), NEW path
    PROVE  LET i == ByPath(list, path)
           IN  \/ i = 0 /\ \A j \in DOMAIN list : list[j].path # path
               \/ i # 0 /\ i \in DOMAIN list /\ list[i].path = path
<1> DEFINE S == {i \in DOMAIN list : list[i].path = path}
<1>1. Len(list) \in Nat /\ S \in SUBSET (1 .. Len(list))
  OBVIOUS
<1>2. ByPath(list, path) = First(S)
  BY DEF ByPath
<1>3. \/ S = {} /\ First(S) = 0
      \/ S # {} /\ First(S) \in S /\ First(S) # 0
  <2> HIDE DEF S
  <2> QED BY <1>1, FirstIs
<1> QED BY <1>2, <1>3

\* What is at a place of a list of services.
LEMMA GsParts ==
    ASSUME NEW list \in Seq(SvcT), NEW i \in DOMAIN list
    PROVE  /\ list[i] \in SvcT /\ list[i].id \in Nat /\ list[i].chars \in Seq(ChrT) /\ i \in Nat /\ i # 0
           /\ \A j \in DOMAIN list[i].chars :
                 /\ list[i].chars[j] \in ChrT /\ list[i].chars[j].id \in Nat
                 /\ list[i].chars[j].descs \in Seq(DescT) /\ j \in Nat /\ j # 0
                 /\ \A k \in DOMAIN list[i].chars[j].descs : list[i].chars[j].descs[k] \in DescT /\ k \in Nat /\ k # 0
<1>1. list[i] \in SvcT /\ i \in Nat /\ i # 0
  OBVIOUS
<1>2. list[i].id \in Nat /\ list[i].chars \in Seq(ChrT)
  BY <1>1 DEF SvcT
<1>3. ASSUME NEW j \in DOMAIN list[i].chars
      PROVE  list[i].chars[j] \in ChrT /\ j \in Nat /\ j # 0
  BY <1>2
<1>4. ASSUME NEW j \in DOMAIN list[i].chars
      PROVE  list[i].chars[j].id \in Nat /\ list[i].chars[j].descs \in Seq(DescT)
  BY <1>3 DEF ChrT
<1>5. ASSUME NEW j \in DOMAIN list[i].chars, NEW k \in DOMAIN list[i].chars[j].descs
      PROVE  list[i].chars[j].descs[k] \in DescT /\ k \in Nat /\ k # 0
  BY <1>4
<1> QED BY <1>1, <1>2, <1>3, <1>4, <1>5

\* A characteristic that is found has the ids that were asked for, in the first
\* service of that id.
LEMMA FindChrIs ==
    ASSUME NEW list \in Seq(SvcT), NEW sid, NEW cid
    PROVE  \/ FindChr(list, sid, cid) = <<0, 0>>
           \/ \E i \in DOMAIN list : \E j \in DOMAIN list[i].chars :
                 /\ FindChr(list, sid, cid) = <<i, j>> /\ FindChr(list, sid, cid) # <<0, 0>>
                 /\ list[i].id = sid /\ list[i].chars[j].id = cid
                 /\ \A n \in DOMAIN list : list[n].id = sid => i <= n
<1> DEFINE i == ById(list, sid)
           j == ById(list[i].chars, cid)
<1>1. CASE i = 0
  BY <1>1 DEF FindChr
<1>2. CASE i # 0
  <2>1. i \in DOMAIN list /\ list[i].id = sid /\ \A n \in DOMAIN list : list[n].id = sid => i <= n
    BY <1>2, ByIdIs
  <2>2. FindChr(list, sid, cid) = IF j = 0 THEN <<0, 0>> ELSE <<i, j>>
    BY <1>2 DEF FindChr
  <2> HIDE DEF i
  <2>3. list[i].chars \in Seq(ChrT)
    BY <2>1, GsParts
  <2>4. j = 0 \/ (j \in DOMAIN list[i].chars /\ list[i].chars[j].id = cid)
    BY <2>3, ByIdIs
  <2> HIDE DEF j
  <2>5. i # 0 => <<i, j>> # <<0, 0>>
    OBVIOUS
  <2> QED BY <1>2, <2>1, <2>2, <2>4, <2>5
<1> QED BY <1>1, <1>2

\* The characteristic of a place is found under its ids.
LEMMA FindsPlaced ==
    ASSUME NEW list \in Seq(SvcT), NEW paths, AllPlaced(list, paths),
           NEW i \in DOMAIN list, NEW j \in DOMAIN list[i].chars
    PROVE  FindChr(list, list[i].id, list[i].chars[j].id) = <<i, j>>
<1> DEFINE sid == list[i].id
           cid == list[i].chars[j].id
           a == ById(list, sid)
<1>1. list[i].chars \in Seq(ChrT) /\ i \in Nat /\ i # 0 /\ j # 0
  BY GsParts
<1>2. a \in DOMAIN list /\ a # 0 /\ list[a].id = sid /\ a <= i
  BY ByIdIs
<1> HIDE DEF a
<1>3. a = i
  <2>1. ~ (a < i)
    <3> SUFFICES ASSUME a < i PROVE FALSE
      OBVIOUS
    <3>1. list[i].chars = <<>>
      BY <1>2 DEF AllPlaced, OneFilled
    <3>2. DOMAIN <<>> = {}
      OBVIOUS
    <3> QED BY <3>1, <3>2
  <2>2. a \in Nat
    BY <1>2
  <2> QED BY <1>1, <1>2, <2>1, <2>2
<1> DEFINE b == ById(list[i].chars, cid)
<1>4. b \in DOMAIN list[i].chars /\ b # 0 /\ list[i].chars[b].id = cid
  BY <1>1, ByIdIs
<1> HIDE DEF b
<1>5. b = j
  BY <1>4 DEF AllPlaced, SvcPlaced
<1> QED BY <1>1, <1>3, <1>5 DEF FindChr, a, b

\* What is found by a path has that path.
LEMMA FindChrByPathIs ==
    ASSUME NEW list \in Seq(SvcT), NEW path
    PROVE  \/ FindChrByPath(list, path) = <<0, 0>>
           \/ \E i \in DOMAIN list : \E j \in DOMAIN list[i].chars :
                 FindChrByPath(list, path) = <<i, j>> /\ list[i].chars[j].path = path
<1> DEFINE S == {n \in DOMAIN list : ByPath(list[n].chars, path) # 0}
           i == First(S)
           j == ByPath(list[i].chars, path)
<1>1. Len(list) \in Nat /\ S \in SUBSET (1 .. Len(list))
  OBVIOUS
<1>2. FindChrByPath(list, path) = IF i = 0 THEN <<0, 0>> ELSE <<i, j>>
  BY DEF FindChrByPath
<1>3. i = 0 \/ i \in S
  <2> HIDE DEF S
  <2> QED BY <1>1, FirstIs
<1>4. i = 0 \/ (i \in DOMAIN list /\ j # 0)
  BY <1>3
<1> HIDE DEF i, S
<1>5. i # 0 => list[i].chars \in Seq(ChrT)
  BY <1>4, GsParts
<1>6. i # 0 => j \in DOMAIN list[i].chars /\ list[i].chars[j].path = path
  BY <1>4, <1>5, ByPathIs
<1> HIDE DEF j
<1> QED BY <1>2, <1>4, <1>6

LEMMA FindDescByPathIs ==
    ASSUME NEW list \in Seq(SvcT), NEW path
    PROVE  \/ FindDescByPath(list, path) = <<0, 0, 0>>
           \/ \E i \in DOMAIN list : \E j \in DOMAIN list[i].chars : \E k \in DOMAIN list[i].chars[j].descs :
                 FindDescByPath(list, path) = <<i, j, k>> /\ list[i].chars[j].descs[k].path = path
<1> DEFINE Hs(chars) == {m \in DOMAIN chars : ByPath(chars[m].descs, path) # 0}
           Holder(chars) == First(Hs(chars))
           S == {n \in DOMAIN list : Holder(list[n].chars) # 0}
           i == First(S)
           j == Holder(list[i].chars)
           k == ByPath(list[i].chars[j].descs, path)
<1>1. Len(list) \in Nat /\ S \in SUBSET (1 .. Len(list))
  OBVIOUS
<1>2. FindDescByPath(list, path) = IF i = 0 THEN <<0, 0, 0>> ELSE <<i, j, k>>
  BY DEF FindDescByPath
<1>3. i = 0 \/ i \in S
  <2> HIDE DEF S
  <2> QED BY <1>1, FirstIs
<1>4. i = 0 \/ (i \in DOMAIN list /\ j # 0)
  BY <1>3
<1> HIDE DEF i, S
<1>5. i # 0 => list[i].chars \in Seq(ChrT)
  BY <1>4, GsParts
<1>6. i # 0 => Hs(list[i].chars) \in SUBSET (1 .. Len(list[i].chars)) /\ Len(list[i].chars) \in Nat
  BY <1>5
<1>7. i # 0 => j \in Hs(list[i].chars)
  <2> HIDE DEF Hs
  <2> QED BY <1>4, <1>6, FirstIs
<1>8. i # 0 => j \in DOMAIN list[i].chars /\ k # 0
  BY <1>7
<1> HIDE DEF j, Holder, Hs
<1>9. i # 0 => list[i].chars[j].descs \in Seq(DescT)
  BY <1>4, <1>8, GsParts
<1>10. i # 0 => k \in DOMAIN list[i].chars[j].descs /\ list[i].chars[j].descs[k].path = path
  BY <1>8, <1>9, ByPathIs
<1> HIDE DEF k
<1> QED BY <1>2, <1>4, <1>8, <1>10

LEMMA GsCalls ==
    ASSUME GsCalm, GsInv, NEW path, MethodCall(path)
    PROVE  RequestIsRouted(services, request')
<1> DEFINE p == FindChrByPath(services, path)
           q == FindDescByPath(services, path)
<1>1. services \in Seq(SvcT) /\ AllPlaced(services, exported)
  BY DEF GsInv
<1>2. \/ request' = NoRequest
      \/ Len(path) = 2 /\ p # <<0, 0>> /\ request' = [path |-> path, addr |-> Chr(services, p).addr]
      \/ Len(path) = 3 /\ q # <<0, 0, 0>> /\ request' = [path |-> path, addr |-> Desc(services, q).addr]
  BY DEF MethodCall
<1>3. CASE request' = NoRequest
  BY <1>3 DEF RequestIsRouted
<1>4. CASE Len(path) = 2 /\ p # <<0, 0>> /\ request' = [path |-> path, addr |-> Chr(services, p).addr]
  <2>1. PICK i \in DOMAIN services : \E j \in DOMAIN services[i].chars :
               p = <<i, j>> /\ services[i].chars[j].path = path
    BY <1>1, <1>4, FindChrByPathIs
  <2>2. PICK j \in DOMAIN services[i].chars : p = <<i, j>> /\ services[i].chars[j].path = path
    BY <2>1
  <2>3. path = <<services[i].id, services[i].chars[j].id>>
    BY <1>1, <2>2 DEF AllPlaced, SvcPlaced, ChrPlaced
  <2>4. FindChr(services, path[1], path[2]) = p
    <3>1. path[1] = services[i].id /\ path[2] = services[i].chars[j].id
      BY <2>3
    <3> QED BY <1>1, <2>2, <3>1, FindsPlaced
  <2> HIDE DEF p
  <2> QED BY <1>4, <2>4 DEF RequestIsRouted
<1>5. CASE Len(path) = 3 /\ q # <<0, 0, 0>> /\ request' = [path |-> path, addr |-> Desc(services, q).addr]
  <2>1. PICK i \in DOMAIN services : \E j \in DOMAIN services[i].chars : \E k \in DOMAIN services[i].chars[j].descs :
               q = <<i, j, k>> /\ services[i].chars[j].descs[k].path = path
    BY <1>1, <1>5, FindDescByPathIs
  <2>2. PICK j \in DOMAIN services[i].chars : \E k \in DOMAIN services[i].chars[j].descs :
               q = <<i, j, k>> /\ services[i].chars[j].descs[k].path = path
    BY <2>1
  <2>3. PICK k \in DOMAIN services[i].chars[j].descs :
               q = <<i, j, k>> /\ services[i].chars[j].descs[k].path = path
    BY <2>2
  <2> DEFINE c == services[i].chars[j]
  <2>4. ChrPlaced(services[i].id, c, exported) /\ c.descs \in Seq(DescT) /\ i # 0
    BY <1>1, GsParts DEF AllPlaced, SvcPlaced
  <2>5. path = <<services[i].id, c.id, c.descs[k].id>>
    BY <2>3, <2>4 DEF ChrPlaced
  <2>6. path[1] = services[i].id /\ path[2] = c.id /\ path[3] = c.descs[k].id
    BY <2>5
  <2>7. FindChr(services, path[1], path[2]) = <<i, j>>
    BY <1>1, <2>6, FindsPlaced
  <2>8. ById(c.descs, path[3]) = k
    <3> DEFINE b == ById(c.descs, path[3])
    <3>1. b \in DOMAIN c.descs /\ c.descs[b].id = c.descs[k].id
      BY <2>3, <2>4, <2>6, ByIdIs
    <3> HIDE DEF b
    <3>2. b = k
      BY <2>3, <2>4, <3>1 DEF ChrPlaced
    <3> QED BY <3>2 DEF b
  <2>9. Chr(services, <<i, j>>) = c /\ Desc(services, q) = c.descs[k]
    BY <2>3 DEF Chr, Desc
  <2>10. <<i, j>> # <<0, 0>>
    BY <2>4
  <2> HIDE DEF q, c
  <2>11. request'.path = path /\ request'.addr = c.descs[k].addr
    BY <1>5, <2>9
  <2> QED BY <1>5, <2>7, <2>8, <2>9, <2>10, <2>11 DEF RequestIsRouted
<1> QED BY <1>2, <1>3, <1>4, <1>5

-----------------------------------------------------------------------------

\* More paths do no harm.
LEMMA PlacedGrows ==
    ASSUME NEW s, NEW P, NEW Q, P \subseteq Q
    PROVE  /\ SvcPlaced(s, P) => SvcPlaced(s, Q)
           /\ \A sid, c : ChrPlaced(sid, c, P) => ChrPlaced(sid, c, Q)
<1>1. \A sid, c : ChrPlaced(sid, c, P) => ChrPlaced(sid, c, Q)
  BY DEF ChrPlaced
<1> QED BY <1>1 DEF SvcPlaced

\* A service takes the place of one with its id.
LEMMA PlacedReplaced ==
    ASSUME NEW list \in Seq(SvcT), OneFilled(list), NEW i \in DOMAIN list, NEW s \in SvcT, NEW Q,
           s.id = list[i].id, SvcPlaced(s, Q),
           \A n \in DOMAIN list : n # i => SvcPlaced(list[n], Q),
           s.chars # <<>> => \A n \in DOMAIN list : list[n].id = s.id => i <= n
    PROVE  [list EXCEPT ![i] = s] \in Seq(SvcT) /\ AllPlaced([list EXCEPT ![i] = s], Q)
<1> DEFINE new == [list EXCEPT ![i] = s]
<1>1. /\ new \in Seq(SvcT) /\ DOMAIN new = DOMAIN list
      /\ \A n \in DOMAIN list : n \in Nat /\ new[n] = IF n = i THEN s ELSE list[n]
  OBVIOUS
<1> HIDE DEF new
<1>2. \A n \in DOMAIN new : SvcPlaced(new[n], Q)
  BY <1>1
<1>3. OneFilled(new)
  <2> SUFFICES ASSUME NEW a \in DOMAIN list, NEW b \in DOMAIN list, b < a, new[b].id = new[a].id
               PROVE  new[a].chars = <<>>
    BY <1>1 DEF OneFilled
  <2>1. list[b].id = list[a].id /\ a \in Nat /\ b \in Nat
    BY <1>1
  <2>2. CASE a = i
    <3>1. ~ (i <= b)
      BY <2>1, <2>2
    <3> QED BY <1>1, <2>1, <2>2, <3>1
  <2>3. CASE a # i
    BY <1>1, <2>1, <2>3 DEF OneFilled
  <2> QED BY <2>2, <2>3
<1> QED BY <1>1, <1>2, <1>3 DEF AllPlaced, new

\* A path that no object has is not missed.
LEMMA PlacedWithout ==
    ASSUME NEW sid, NEW c \in ChrT, NEW P, NEW x, ChrPlaced(sid, c, P),
           c.path # x, \A k \in DOMAIN c.descs : c.descs[k].path # x
    PROVE  ChrPlaced(sid, c, P \ {x})
BY DEF ChrPlaced

\* Services of another id, or without characteristics, do not miss a path.
LEMMA PlacedElsewhere ==
    ASSUME NEW s \in SvcT, NEW P, NEW x, SvcPlaced(s, P),
           s.chars = <<>> \/ x[1] # s.id
    PROVE  SvcPlaced(s, P \ {x})
<1>1. CASE s.chars = <<>>
  <2>1. DOMAIN s.chars = {}
    BY <1>1
  <2> QED BY <2>1 DEF SvcPlaced
<1>2. CASE x[1] # s.id
  <2>1. ASSUME NEW j \in DOMAIN s.chars PROVE ChrPlaced(s.id, s.chars[j], P \ {x})
    <3>1. ChrPlaced(s.id, s.chars[j], P)
      BY DEF SvcPlaced
    <3>2. \A a, b : <<s.id, a>>[1] = s.id /\ <<s.id, a, b>>[1] = s.id
      OBVIOUS
    <3>3. s.chars[j].path # x /\ \A k \in DOMAIN s.chars[j].descs : s.chars[j].descs[k].path # x
      BY <1>2, <3>1, <3>2 DEF ChrPlaced
    <3> QED BY <3>1, <3>3 DEF ChrPlaced
  <2> QED BY <2>1 DEF SvcPlaced
<1> QED BY <1>1, <1>2

LEMMA PlacedAppended ==
    ASSUME NEW list \in Seq(SvcT), NEW P, AllPlaced(list, P), NEW s \in SvcT, s.chars = <<>>
    PROVE  Append(list, s) \in Seq(SvcT) /\ AllPlaced(Append(list, s), P)
<1> DEFINE new == Append(list, s)
           n == Len(list)
<1>1. /\ new \in Seq(SvcT) /\ n \in Nat /\ DOMAIN list = 1 .. n /\ DOMAIN new = 1 .. n + 1
      /\ \A i \in 1 .. n + 1 : i \in Nat /\ new[i] = IF i = n + 1 THEN s ELSE list[i]
      /\ \A i \in 1 .. n + 1 : i = n + 1 \/ i \in 1 .. n
  OBVIOUS
<1> HIDE DEF new, n
<1>2. SvcPlaced(s, P)
  <2>1. DOMAIN s.chars = {}
    OBVIOUS
  <2> QED BY <2>1 DEF SvcPlaced
<1>3. \A i \in DOMAIN new : SvcPlaced(new[i], P)
  BY <1>1, <1>2 DEF AllPlaced
<1>4. OneFilled(new)
  <2> SUFFICES ASSUME NEW a \in 1 .. n + 1, NEW b \in 1 .. n + 1, b < a, new[b].id = new[a].id
               PROVE  new[a].chars = <<>>
    BY <1>1 DEF OneFilled
  <2>1. CASE a = n + 1
    BY <1>1, <2>1
  <2>2. CASE a # n + 1
    <3>1. a \in 1 .. n /\ b \in 1 .. n /\ b # n + 1
      BY <1>1, <2>2
    <3>2. list[b].id = list[a].id /\ new[a] = list[a]
      BY <1>1, <2>2, <3>1
    <3> QED BY <1>1, <3>1, <3>2 DEF AllPlaced, OneFilled
  <2> QED BY <2>1, <2>2
<1> QED BY <1>1, <1>3, <1>4 DEF AllPlaced, new

LEMMA PlacedRemoved ==
    ASSUME NEW list \in Seq(SvcT), NEW P, AllPlaced(list, P), NEW i \in 1 .. Len(list)
    PROVE  RemoveAt(list, i) \in Seq(SvcT) /\ AllPlaced(RemoveAt(list, i), P)
<1> DEFINE new == RemoveAt(list, i)
           n == Len(list)
           at(k) == IF k < i THEN k ELSE k + 1
<1>1. /\ new \in Seq(SvcT) /\ Len(new) = n - 1 /\ n \in Nat /\ DOMAIN list = 1 .. n
      /\ \A k \in 1 .. n - 1 : new[k] = IF k < i THEN list[k] ELSE list[k + 1]
  BY RemoveAtIs, LenProperties
<1> HIDE DEF new, n
<1>2. DOMAIN new = 1 .. n - 1 /\ i \in Nat
  BY <1>1
<1>3. \A k \in 1 .. n - 1 : at(k) \in 1 .. n /\ new[k] = list[at(k)]
  BY <1>1, <1>2
<1>4. \A k, l \in 1 .. n - 1 : l < k => at(l) < at(k)
  BY <1>1, <1>2
<1> HIDE DEF at
<1>5. \A k \in DOMAIN new : SvcPlaced(new[k], P)
  BY <1>1, <1>2, <1>3 DEF AllPlaced
<1>6. OneFilled(new)
  BY <1>1, <1>2, <1>3, <1>4 DEF AllPlaced, OneFilled
<1> QED BY <1>1, <1>5, <1>6 DEF AllPlaced, new

LEMMA GsStarts == GsInit => GsInv
<1> SUFFICES ASSUME GsInit PROVE GsInv
  OBVIOUS
<1>1. <<>> \in Seq(SvcT) /\ DOMAIN <<>> = {}
  OBVIOUS
<1>2. AllPlaced(services, exported)
  BY <1>1 DEF GsInit, AllPlaced, OneFilled
<1>3. RequestIsRouted(services, request)
  BY DEF GsInit, RequestIsRouted
<1> QED BY <1>1, <1>2, <1>3 DEF GsInit, GsInv

\* What is built or removed changes no request: there is none.
LEMMA GsBuilt ==
    ASSUME GsInv, services' \in Seq(SvcT), AllPlaced(services', exported'), objects' \in Nat,
           request = NoRequest, request' = request
    PROVE  GsInv'
<1>1. RequestIsRouted(services', request')
  BY DEF RequestIsRouted
<1> QED BY <1>1 DEF GsInv

\* A new object, whose path no other has, is put at the end of a list.
LEMMA GsAddsCharacteristic ==
    ASSUME GsInv, NEW sid \in Nat, AddCharacteristic(sid)
    PROVE  GsInv'
<1> DEFINE i == ById(services, sid)
           s == services[i]
           c == Len(s.chars)
           x == <<sid, c>>
           e == [id |-> c, path |-> x, addr |-> objects + 1, descs |-> <<>>]
           chars == Append(s.chars, e)
           t == [s EXCEPT !.chars = chars]
           Q == exported \cup {x}
<1>1. services \in Seq(SvcT) /\ objects \in Nat /\ AllPlaced(services, exported)
  BY DEF GsInv
<1>2. i # 0 /\ x \notin exported /\ exported' = Q /\ services' = [services EXCEPT ![i] = t]
      /\ request = NoRequest /\ request' = request /\ objects' = objects + 1
  BY DEF AddCharacteristic, Exports, NewObject
<1>3. i \in DOMAIN services /\ s.id = sid /\ \A n \in DOMAIN services : services[n].id = sid => i <= n
  BY <1>1, <1>2, ByIdIs
<1> HIDE DEF i
<1>4. s \in SvcT /\ s.chars \in Seq(ChrT) /\ c \in Nat /\ SvcPlaced(s, exported)
  BY <1>1, <1>3, GsParts DEF AllPlaced
<1>5. e \in ChrT /\ e.id = c /\ e.path = x /\ e.descs = <<>>
  <2>1. x \in Seq(Nat) /\ <<>> \in Seq(DescT)
    BY <1>4
  <2> HIDE DEF x, c
  <2> QED BY <1>1, <1>4, <2>1 DEF ChrT
<1> HIDE DEF s, e
<1>6. /\ chars \in Seq(ChrT) /\ DOMAIN s.chars = 1 .. c /\ DOMAIN chars = 1 .. c + 1
      /\ \A j \in 1 .. c + 1 : chars[j] = IF j = c + 1 THEN e ELSE s.chars[j]
      /\ \A j \in 1 .. c + 1 : j = c + 1 \/ j \in 1 .. c
  BY <1>4, <1>5
<1> HIDE DEF chars
<1>7. t \in SvcT /\ t.id = sid /\ t.chars = chars
  BY <1>3, <1>4, <1>6 DEF SvcT
<1> HIDE DEF t
<1>8. ChrPlaced(sid, e, Q)
  <2>1. DOMAIN <<>> = {}
    OBVIOUS
  <2> QED BY <1>5, <2>1 DEF ChrPlaced
<1>9. \A j \in 1 .. c : ChrPlaced(sid, s.chars[j], exported) /\ s.chars[j].id # c
  <2> SUFFICES ASSUME NEW j \in 1 .. c PROVE ChrPlaced(sid, s.chars[j], exported) /\ s.chars[j].id # c
    OBVIOUS
  <2>1. ChrPlaced(sid, s.chars[j], exported)
    BY <1>3, <1>4, <1>6 DEF SvcPlaced
  <2>2. s.chars[j].path \in exported /\ s.chars[j].path = <<sid, s.chars[j].id>>
    BY <2>1 DEF ChrPlaced
  <2> QED BY <1>2, <2>1, <2>2
<1>10. SvcPlaced(t, Q)
  <2>1. ASSUME NEW j \in 1 .. c + 1 PROVE ChrPlaced(sid, chars[j], Q)
    BY <1>6, <1>8, <1>9, PlacedGrows
  <2>2. ASSUME NEW j \in 1 .. c + 1, NEW l \in 1 .. c + 1, chars[l].id = chars[j].id PROVE l = j
    <3>1. CASE j = c + 1
      BY <1>5, <1>6, <1>9, <2>2, <3>1
    <3>2. CASE l = c + 1
      BY <1>5, <1>6, <1>9, <2>2, <3>2
    <3>3. CASE j \in 1 .. c /\ l \in 1 .. c
      <4>1. chars[j] = s.chars[j] /\ chars[l] = s.chars[l]
        BY <1>4, <1>6, <3>3
      <4> QED BY <1>4, <1>6, <2>2, <3>3, <4>1 DEF SvcPlaced
    <3> QED BY <1>6, <3>1, <3>2, <3>3
  <2> QED BY <1>6, <1>7, <2>1, <2>2 DEF SvcPlaced
<1>11. \A n \in DOMAIN services : SvcPlaced(services[n], Q)
  BY <1>1, PlacedGrows DEF AllPlaced
<1>12. services' \in Seq(SvcT) /\ AllPlaced(services', Q)
  <2>1. OneFilled(services) /\ t.id = services[i].id
    BY <1>1, <1>3, <1>7 DEF AllPlaced, s
  <2> HIDE DEF Q
  <2> QED BY <1>1, <1>2, <1>3, <1>7, <1>10, <1>11, <2>1, PlacedReplaced
<1>13. objects' \in Nat
  BY <1>1, <1>2
<1> QED BY <1>2, <1>12, <1>13, GsBuilt

\* A characteristic takes the place of one with its id.
LEMMA GsChrReplaced ==
    ASSUME services \in Seq(SvcT), OneFilled(services), NEW Q,
           NEW i \in DOMAIN services, NEW j \in DOMAIN services[i].chars,
           \A n \in DOMAIN services : services[n].id = services[i].id => i <= n,
           \A n \in DOMAIN services : n # i => SvcPlaced(services[n], Q),
           \A m \in DOMAIN services[i].chars : m # j => ChrPlaced(services[i].id, services[i].chars[m], Q),
           \A m, l \in DOMAIN services[i].chars : services[i].chars[m].id = services[i].chars[l].id => m = l,
           NEW f \in ChrT, f.id = services[i].chars[j].id, ChrPlaced(services[i].id, f, Q)
    PROVE  LET t == [services[i] EXCEPT !.chars = [services[i].chars EXCEPT ![j] = f]]
           IN  [services EXCEPT ![i] = t] \in Seq(SvcT) /\ AllPlaced([services EXCEPT ![i] = t], Q)
<1> DEFINE s == services[i]
           chars == [s.chars EXCEPT ![j] = f]
           t == [s EXCEPT !.chars = chars]
<1>1. s \in SvcT /\ s.chars \in Seq(ChrT)
  BY GsParts
<1>2. /\ chars \in Seq(ChrT) /\ DOMAIN chars = DOMAIN s.chars
      /\ \A m \in DOMAIN s.chars : chars[m] = IF m = j THEN f ELSE s.chars[m]
  BY <1>1
<1> HIDE DEF chars
<1>3. t \in SvcT /\ t.id = s.id /\ t.chars = chars
  BY <1>1, <1>2 DEF SvcT
<1> HIDE DEF t
<1>4. \A m \in DOMAIN chars : ChrPlaced(s.id, chars[m], Q) /\ chars[m].id = s.chars[m].id
  BY <1>2
<1>5. SvcPlaced(t, Q)
  BY <1>2, <1>3, <1>4 DEF SvcPlaced
<1>6. [services EXCEPT ![i] = t] \in Seq(SvcT) /\ AllPlaced([services EXCEPT ![i] = t], Q)
  BY <1>3, <1>5, PlacedReplaced
<1> QED BY <1>6 DEF t, chars

LEMMA GsAddsDescriptor ==
    ASSUME GsInv, NEW sid \in Nat, NEW cid \in Nat, AddDescriptor(sid, cid)
    PROVE  GsInv'
<1> DEFINE p == FindChr(services, sid, cid)
<1>1. services \in Seq(SvcT) /\ objects \in Nat /\ AllPlaced(services, exported)
  BY DEF GsInv
<1>2. p # <<0, 0>>
  BY DEF AddDescriptor
<1>3. PICK i \in DOMAIN services : \E j \in DOMAIN services[i].chars :
         /\ p = <<i, j>> /\ services[i].id = sid /\ services[i].chars[j].id = cid
         /\ \A n \in DOMAIN services : services[n].id = sid => i <= n
  BY <1>1, <1>2, FindChrIs
<1>4. PICK j \in DOMAIN services[i].chars :
         /\ p = <<i, j>> /\ services[i].id = sid /\ services[i].chars[j].id = cid
         /\ \A n \in DOMAIN services : services[n].id = sid => i <= n
  BY <1>3
<1> DEFINE c == services[i].chars[j]
           d == Len(c.descs)
           x == <<sid, cid, d>>
           e == [id |-> d, path |-> x, addr |-> objects + 1]
           descs == Append(c.descs, e)
           f == [c EXCEPT !.descs = descs]
           Q == exported \cup {x}
<1>5. p[1] = i /\ p[2] = j /\ Chr(services, p) = c
  BY <1>4 DEF Chr
<1>6. x \notin exported /\ exported' = Q
      /\ services' = [services EXCEPT ![i] = [services[i] EXCEPT !.chars = [services[i].chars EXCEPT ![j] = f]]]
      /\ request = NoRequest /\ request' = request /\ objects' = objects + 1
  <2> HIDE DEF p
  <2> QED BY <1>5 DEF AddDescriptor, Exports, NewObject, p
<1>7. c \in ChrT /\ c.descs \in Seq(DescT) /\ d \in Nat /\ c.id = cid /\ ChrPlaced(sid, c, exported)
  BY <1>1, <1>4, GsParts DEF AllPlaced, SvcPlaced
<1> HIDE DEF p
<1>8. e \in DescT /\ e.id = d /\ e.path = x
  <2>1. x \in Seq(Nat)
    BY <1>7
  <2> HIDE DEF x, d
  <2> QED BY <1>1, <1>7, <2>1 DEF DescT
<1> HIDE DEF c, e
<1>9. /\ descs \in Seq(DescT) /\ DOMAIN c.descs = 1 .. d /\ DOMAIN descs = 1 .. d + 1
      /\ \A k \in 1 .. d + 1 : descs[k] = IF k = d + 1 THEN e ELSE c.descs[k]
      /\ \A k \in 1 .. d + 1 : k = d + 1 \/ k \in 1 .. d
      /\ d + 1 \notin 1 .. d
  BY <1>7, <1>8
<1> HIDE DEF descs
<1>10. f \in ChrT /\ f.id = cid /\ f.path = c.path /\ f.descs = descs
  BY <1>7, <1>9 DEF ChrT
<1> HIDE DEF f
<1>11. \A k \in 1 .. d : /\ c.descs[k].path = <<sid, cid, c.descs[k].id>> /\ c.descs[k].path \in exported
                          /\ c.descs[k].id # d
                          /\ \A l \in 1 .. d : c.descs[l].id = c.descs[k].id => l = k
  <2> SUFFICES ASSUME NEW k \in 1 .. d
               PROVE  /\ c.descs[k].path = <<sid, cid, c.descs[k].id>> /\ c.descs[k].path \in exported
                      /\ c.descs[k].id # d
                      /\ \A l \in 1 .. d : c.descs[l].id = c.descs[k].id => l = k
    OBVIOUS
  <2>1. /\ c.descs[k].path = <<sid, cid, c.descs[k].id>> /\ c.descs[k].path \in exported
        /\ \A l \in 1 .. d : c.descs[l].id = c.descs[k].id => l = k
    BY <1>7, <1>9 DEF ChrPlaced
  <2> QED BY <1>6, <2>1
<1> HIDE DEF d
<1>12. ChrPlaced(sid, f, Q)
  <2>1. f.path = <<sid, f.id>> /\ f.path \in Q
    BY <1>7, <1>10 DEF ChrPlaced
  <2>2. ASSUME NEW k \in 1 .. d + 1
        PROVE  descs[k].path = <<sid, cid, descs[k].id>> /\ descs[k].path \in Q
    BY <1>8, <1>9, <1>11
  <2>3. ASSUME NEW k \in 1 .. d + 1, NEW l \in 1 .. d + 1, descs[l].id = descs[k].id PROVE l = k
    BY <1>8, <1>9, <1>11, <2>3
  <2> HIDE DEF Q
  <2> QED BY <1>9, <1>10, <2>1, <2>2, <2>3 DEF ChrPlaced
<1>13. /\ \A n \in DOMAIN services : SvcPlaced(services[n], Q)
       /\ \A m \in DOMAIN services[i].chars : ChrPlaced(services[i].id, services[i].chars[m], Q)
       /\ \A m, l \in DOMAIN services[i].chars : services[i].chars[m].id = services[i].chars[l].id => m = l
  <2>1. exported \subseteq Q
    OBVIOUS
  <2> HIDE DEF Q
  <2>2. \A n \in DOMAIN services : SvcPlaced(services[n], exported)
    BY <1>1 DEF AllPlaced
  <2>3. \A n \in DOMAIN services : SvcPlaced(services[n], Q)
    BY <2>1, <2>2, PlacedGrows
  <2> QED BY <2>3 DEF SvcPlaced
<1> HIDE DEF Q
<1>14. services' \in Seq(SvcT) /\ AllPlaced(services', Q)
  <2>1. OneFilled(services) /\ f.id = services[i].chars[j].id /\ ChrPlaced(services[i].id, f, Q)
    BY <1>1, <1>4, <1>10, <1>12 DEF AllPlaced
  <2>2. \A n \in DOMAIN services : services[n].id = services[i].id => i <= n
    BY <1>4
  <2> QED BY <1>1, <1>6, <1>10, <1>13, <2>1, <2>2, GsChrReplaced
<1>15. objects' \in Nat
  BY <1>1, <1>6
<1> QED BY <1>6, <1>14, <1>15, GsBuilt

LEMMA GsRemovesDescriptor ==
    ASSUME GsInv, NEW sid \in Nat, NEW cid \in Nat, NEW did \in Nat, RemoveDescriptor(sid, cid, did)
    PROVE  GsInv'
<1> DEFINE p == FindChr(services, sid, cid)
<1>1. services \in Seq(SvcT) /\ objects \in Nat /\ AllPlaced(services, exported)
  BY DEF GsInv
<1>2. p # <<0, 0>>
  BY DEF RemoveDescriptor
<1>3. PICK i \in DOMAIN services : \E j \in DOMAIN services[i].chars :
         /\ p = <<i, j>> /\ services[i].id = sid /\ services[i].chars[j].id = cid
         /\ \A n \in DOMAIN services : services[n].id = sid => i <= n
  BY <1>1, <1>2, FindChrIs
<1>4. PICK j \in DOMAIN services[i].chars :
         /\ p = <<i, j>> /\ services[i].id = sid /\ services[i].chars[j].id = cid
         /\ \A n \in DOMAIN services : services[n].id = sid => i <= n
  BY <1>3
<1> DEFINE c == services[i].chars[j]
           k == ById(c.descs, did)
           x == c.descs[k].path
           descs == RemoveAt(c.descs, k)
           f == [c EXCEPT !.descs = descs]
           Q == exported \ {x}
<1>5. p[1] = i /\ p[2] = j /\ Chr(services, p) = c
  BY <1>4 DEF Chr
<1>6. k # 0 /\ exported' = Q
      /\ services' = [services EXCEPT ![i] = [services[i] EXCEPT !.chars = [services[i].chars EXCEPT ![j] = f]]]
      /\ request = NoRequest /\ request' = request /\ objects' = objects
  <2> HIDE DEF p
  <2> QED BY <1>5 DEF RemoveDescriptor, p
<1>7. c \in ChrT /\ c.descs \in Seq(DescT) /\ c.id = cid /\ ChrPlaced(sid, c, exported)
      /\ \A m \in DOMAIN services[i].chars : ChrPlaced(sid, services[i].chars[m], exported)
  BY <1>1, <1>4, GsParts DEF AllPlaced, SvcPlaced
<1> HIDE DEF p
<1>8. k \in DOMAIN c.descs /\ c.descs[k].id = did
  BY <1>6, <1>7, ByIdIs
<1> HIDE DEF k
<1>9. x = <<sid, cid, did>> /\ \A l \in DOMAIN c.descs : l # k => c.descs[l].path # x
  <2>1. /\ \A l \in DOMAIN c.descs : c.descs[l].path = <<sid, cid, c.descs[l].id>>
        /\ \A l, m \in DOMAIN c.descs : c.descs[l].id = c.descs[m].id => l = m
    BY <1>7 DEF ChrPlaced
  <2>2. ASSUME NEW l \in DOMAIN c.descs, l # k PROVE c.descs[l].id # did
    BY <1>8, <2>1, <2>2
  <2> QED BY <1>8, <2>1, <2>2
<1> HIDE DEF x
<1>10. /\ descs \in Seq(DescT)
       /\ \A m \in DOMAIN descs : \E l \in DOMAIN c.descs : l # k /\ descs[m] = c.descs[l] /\ l = (IF m < k THEN m ELSE m + 1) /\ m \in Nat
  <2>1. k \in 1 .. Len(c.descs) /\ DOMAIN c.descs = 1 .. Len(c.descs)
    BY <1>7, <1>8
  <2>2. descs \in Seq(DescT) /\ \A m \in 1 .. Len(descs) : \E l \in 1 .. Len(c.descs) :
              l # k /\ l = (IF m < k THEN m ELSE m + 1) /\ descs[m] = c.descs[l]
    BY <1>7, <2>1, RemoveAtIs, RemoveAtKeeps
  <2> HIDE DEF descs
  <2>3. DOMAIN descs = 1 .. Len(descs) /\ Len(descs) \in Nat
    BY <2>2
  <2> QED BY <2>1, <2>2, <2>3
<1> HIDE DEF descs, c
<1>11. f \in ChrT /\ f.id = cid /\ f.path = c.path /\ f.descs = descs
  BY <1>7, <1>10 DEF ChrT
<1> HIDE DEF f
<1>12. ChrPlaced(sid, f, Q)
  <2>1. f.path = <<sid, cid>> /\ f.path \in Q
    <3>1. c.path = <<sid, cid>> /\ c.path \in exported
      BY <1>7 DEF ChrPlaced
    <3>2. <<sid, cid>> # <<sid, cid, did>>
      <4>1. Len(<<sid, cid>>) = 2 /\ Len(<<sid, cid, did>>) = 3
        OBVIOUS
      <4> QED BY <4>1
    <3> QED BY <1>9, <1>11, <3>1, <3>2
  <2>2. ASSUME NEW m \in DOMAIN descs
        PROVE  descs[m].path = <<sid, cid, descs[m].id>> /\ descs[m].path \in Q
    <3>1. PICK l \in DOMAIN c.descs : l # k /\ descs[m] = c.descs[l]
      BY <1>10
    <3>2. c.descs[l].path = <<sid, cid, c.descs[l].id>> /\ c.descs[l].path \in exported
      BY <1>7 DEF ChrPlaced
    <3> QED BY <1>9, <3>1, <3>2
  <2>3. ASSUME NEW m \in DOMAIN descs, NEW n \in DOMAIN descs, descs[m].id = descs[n].id PROVE m = n
    <3>1. PICK l \in DOMAIN c.descs : l # k /\ descs[m] = c.descs[l] /\ l = (IF m < k THEN m ELSE m + 1) /\ m \in Nat
      BY <1>10
    <3>2. PICK o \in DOMAIN c.descs : o # k /\ descs[n] = c.descs[o] /\ o = (IF n < k THEN n ELSE n + 1) /\ n \in Nat
      BY <1>10
    <3>3. l = o
      BY <1>7, <2>3, <3>1, <3>2 DEF ChrPlaced
    <3>4. k \in Nat
      BY <1>7, <1>8
    <3> HIDE DEF k
    <3> QED BY <3>1, <3>2, <3>3, <3>4
  <2> HIDE DEF Q
  <2> QED BY <1>11, <2>1, <2>2, <2>3 DEF ChrPlaced
<1>13. \A n \in DOMAIN services : n # i => SvcPlaced(services[n], Q)
  <2> SUFFICES ASSUME NEW n \in DOMAIN services, n # i PROVE SvcPlaced(services[n], Q)
    OBVIOUS
  <2>1. services[n] \in SvcT /\ SvcPlaced(services[n], exported) /\ i \in Nat /\ n \in Nat
    BY <1>1, GsParts DEF AllPlaced
  <2>2. services[n].chars = <<>> \/ services[n].id # sid
    <3> SUFFICES ASSUME services[n].id = sid PROVE services[n].chars = <<>>
      OBVIOUS
    <3>1. i < n
      BY <1>4, <2>1
    <3> QED BY <1>1, <1>4, <3>1 DEF AllPlaced, OneFilled
  <2>3. x[1] = sid
    BY <1>9
  <2> QED BY <2>1, <2>2, <2>3, PlacedElsewhere
<1>14. \A m \in DOMAIN services[i].chars : m # j => ChrPlaced(services[i].id, services[i].chars[m], Q)
  <2> SUFFICES ASSUME NEW m \in DOMAIN services[i].chars, m # j PROVE ChrPlaced(sid, services[i].chars[m], Q)
    BY <1>4
  <2> DEFINE g == services[i].chars[m]
  <2>1. g \in ChrT /\ ChrPlaced(sid, g, exported) /\ g.id # cid
    BY <1>1, <1>4, <1>7, GsParts DEF AllPlaced, SvcPlaced
  <2> HIDE DEF g
  <2>2. <<sid, g.id>> # <<sid, cid, did>>
    <3>1. Len(<<sid, g.id>>) = 2 /\ Len(<<sid, cid, did>>) = 3
      OBVIOUS
    <3> QED BY <3>1
  <2>3. g.path # x /\ \A l \in DOMAIN g.descs : g.descs[l].path # x
    BY <1>9, <2>1, <2>2 DEF ChrPlaced
  <2>4. ChrPlaced(sid, g, Q)
    BY <2>1, <2>3, PlacedWithout
  <2> QED BY <2>4 DEF g
<1>15. \A m, l \in DOMAIN services[i].chars : services[i].chars[m].id = services[i].chars[l].id => m = l
  BY <1>1 DEF AllPlaced, SvcPlaced
<1> HIDE DEF Q
<1>16. services' \in Seq(SvcT) /\ AllPlaced(services', Q)
  <2>1. OneFilled(services) /\ f.id = services[i].chars[j].id /\ ChrPlaced(services[i].id, f, Q)
    BY <1>1, <1>4, <1>11, <1>12 DEF AllPlaced
  <2>2. \A n \in DOMAIN services : services[n].id = services[i].id => i <= n
    BY <1>4
  <2> QED BY <1>1, <1>6, <1>11, <1>13, <1>14, <1>15, <2>1, <2>2, GsChrReplaced
<1> QED BY <1>1, <1>6, <1>16, GsBuilt

LEMMA GsRemovesCharacteristic ==
    ASSUME GsInv, NEW sid \in Nat, NEW cid \in Nat, RemoveCharacteristic(sid, cid)
    PROVE  GsInv'
<1> DEFINE p == FindChr(services, sid, cid)
<1>1. services \in Seq(SvcT) /\ objects \in Nat /\ AllPlaced(services, exported)
  BY DEF GsInv
<1>2. p # <<0, 0>>
  BY DEF RemoveCharacteristic
<1>3. PICK i \in DOMAIN services : \E j \in DOMAIN services[i].chars :
         /\ p = <<i, j>> /\ services[i].id = sid /\ services[i].chars[j].id = cid
         /\ \A n \in DOMAIN services : services[n].id = sid => i <= n
  BY <1>1, <1>2, FindChrIs
<1>4. PICK j \in DOMAIN services[i].chars :
         /\ p = <<i, j>> /\ services[i].id = sid /\ services[i].chars[j].id = cid
         /\ \A n \in DOMAIN services : services[n].id = sid => i <= n
  BY <1>3
<1> DEFINE s == services[i]
           x == s.chars[j].path
           chars == RemoveAt(s.chars, j)
           t == [s EXCEPT !.chars = chars]
           Q == exported \ {x}
<1>5. p[1] = i /\ p[2] = j /\ Chr(services, p) = s.chars[j]
  BY <1>4 DEF Chr
<1>6. exported' = Q /\ services' = [services EXCEPT ![i] = t]
      /\ request = NoRequest /\ request' = request /\ objects' = objects
  <2> HIDE DEF p
  <2> QED BY <1>5 DEF RemoveCharacteristic, p
<1>7. s \in SvcT /\ s.chars \in Seq(ChrT) /\ SvcPlaced(s, exported) /\ s.id = sid
  BY <1>1, <1>4, GsParts DEF AllPlaced
<1> HIDE DEF p
<1>8. x = <<sid, cid>>
  BY <1>4, <1>7 DEF SvcPlaced, ChrPlaced
<1> HIDE DEF x
<1>9. /\ chars \in Seq(ChrT)
      /\ \A m \in DOMAIN chars : \E l \in DOMAIN s.chars : l # j /\ chars[m] = s.chars[l] /\ l = (IF m < j THEN m ELSE m + 1) /\ m \in Nat
  <2>1. j \in 1 .. Len(s.chars) /\ DOMAIN s.chars = 1 .. Len(s.chars)
    BY <1>7
  <2>2. chars \in Seq(ChrT) /\ \A m \in 1 .. Len(chars) : \E l \in 1 .. Len(s.chars) :
              l # j /\ l = (IF m < j THEN m ELSE m + 1) /\ chars[m] = s.chars[l]
    BY <1>7, <2>1, RemoveAtIs, RemoveAtKeeps
  <2> HIDE DEF chars
  <2>3. DOMAIN chars = 1 .. Len(chars) /\ Len(chars) \in Nat
    BY <2>2
  <2> QED BY <2>1, <2>2, <2>3
<1>10. j \in Nat /\ i \in Nat
  BY <1>1, <1>7
<1>11. s.chars[j].id = cid /\ j \in DOMAIN s.chars
  BY <1>4
<1> HIDE DEF chars, s
<1>12. t \in SvcT /\ t.id = sid /\ t.chars = chars
  BY <1>7, <1>9 DEF SvcT
<1> HIDE DEF t
<1>13. \A m \in DOMAIN chars : ChrPlaced(sid, chars[m], Q)
  <2> SUFFICES ASSUME NEW m \in DOMAIN chars PROVE ChrPlaced(sid, chars[m], Q)
    OBVIOUS
  <2>1. PICK l \in DOMAIN s.chars : l # j /\ chars[m] = s.chars[l]
    BY <1>9
  <2> DEFINE g == s.chars[l]
  <2>2. g \in ChrT /\ ChrPlaced(sid, g, exported) /\ g.id # cid
    <3>1. s.chars[l] \in ChrT
      BY <1>7
    <3>2. ChrPlaced(sid, s.chars[l], exported)
      BY <1>7, <2>1 DEF SvcPlaced
    <3>3. \A a, b \in DOMAIN s.chars : s.chars[a].id = s.chars[b].id => a = b
      BY <1>7 DEF SvcPlaced
    <3>4. s.chars[l].id # s.chars[j].id
      BY <1>11, <2>1, <3>3
    <3> QED BY <1>11, <3>1, <3>2, <3>4
  <2> HIDE DEF g
  <2>3. \A a : <<sid, cid>> # <<sid, g.id, a>>
    <3> TAKE a
    <3>1. Len(<<sid, cid>>) = 2 /\ Len(<<sid, g.id, a>>) = 3
      OBVIOUS
    <3> QED BY <3>1
  <2>4. g.path # x /\ \A k \in DOMAIN g.descs : g.descs[k].path # x
    BY <1>8, <2>2, <2>3 DEF ChrPlaced
  <2>5. ChrPlaced(sid, g, Q)
    BY <2>2, <2>4, PlacedWithout
  <2> QED BY <2>1, <2>5 DEF g
<1>14. ASSUME NEW m \in DOMAIN chars, NEW n \in DOMAIN chars, chars[n].id = chars[m].id PROVE n = m
  <2>1. PICK l \in DOMAIN s.chars : l # j /\ chars[m] = s.chars[l] /\ l = (IF m < j THEN m ELSE m + 1) /\ m \in Nat
    BY <1>9
  <2>2. PICK o \in DOMAIN s.chars : o # j /\ chars[n] = s.chars[o] /\ o = (IF n < j THEN n ELSE n + 1) /\ n \in Nat
    BY <1>9
  <2>3. l = o
    BY <1>7, <1>14, <2>1, <2>2 DEF SvcPlaced
  <2> QED BY <1>10, <2>1, <2>2, <2>3
<1>15. SvcPlaced(t, Q)
  <2> HIDE DEF Q
  <2> QED BY <1>12, <1>13, <1>14 DEF SvcPlaced
<1>16. \A n \in DOMAIN services : n # i => SvcPlaced(services[n], Q)
  <2> SUFFICES ASSUME NEW n \in DOMAIN services, n # i PROVE SvcPlaced(services[n], Q)
    OBVIOUS
  <2>1. services[n] \in SvcT /\ SvcPlaced(services[n], exported) /\ n \in Nat
    BY <1>1, GsParts DEF AllPlaced
  <2>2. services[n].chars = <<>> \/ services[n].id # sid
    <3> SUFFICES ASSUME services[n].id = sid PROVE services[n].chars = <<>>
      OBVIOUS
    <3>1. i < n
      BY <1>4, <1>10, <2>1
    <3> QED BY <1>1, <1>4, <3>1 DEF AllPlaced, OneFilled
  <2>3. x[1] = sid
    BY <1>8
  <2> QED BY <2>1, <2>2, <2>3, PlacedElsewhere
<1> HIDE DEF Q
<1>17. services' \in Seq(SvcT) /\ AllPlaced(services', Q)
  <2>1. OneFilled(services) /\ t.id = services[i].id /\ \A n \in DOMAIN services : services[n].id = t.id => i <= n
    BY <1>1, <1>4, <1>12 DEF AllPlaced
  <2> QED BY <1>1, <1>6, <1>12, <1>15, <1>16, <2>1, PlacedReplaced
<1> QED BY <1>1, <1>6, <1>17, GsBuilt

\* The path of a service is that of no characteristic or descriptor.
LEMMA GsServicePath ==
    ASSUME NEW list \in Seq(SvcT), NEW P, AllPlaced(list, P), NEW sid
    PROVE  AllPlaced(list, P \ {<<sid>>})
<1> DEFINE x == <<sid>>
<1>1. \A a, b, c : <<a, b>> # x /\ <<a, b, c>> # x
  <2> TAKE a, b, c
  <2>1. Len(<<a, b>>) = 2 /\ Len(<<a, b, c>>) = 3 /\ Len(x) = 1
    OBVIOUS
  <2> QED BY <2>1
<1> HIDE DEF x
<1>2. ASSUME NEW i \in DOMAIN list PROVE SvcPlaced(list[i], P \ {x})
  <2>1. ASSUME NEW j \in DOMAIN list[i].chars PROVE ChrPlaced(list[i].id, list[i].chars[j], P \ {x})
    <3>1. ChrPlaced(list[i].id, list[i].chars[j], P)
      BY DEF AllPlaced, SvcPlaced
    <3> DEFINE c == list[i].chars[j]
               s == list[i].id
    <3>2. c.path # x
      BY <1>1, <3>1 DEF ChrPlaced
    <3>4. ChrPlaced(s, c, P)
      BY <3>1
    <3> HIDE DEF c, s
    <3>3. \A k \in DOMAIN c.descs : c.descs[k].path # x
      <4> TAKE k \in DOMAIN c.descs
      <4>1. c.descs[k].path = <<s, c.id, c.descs[k].id>>
        BY <3>4 DEF ChrPlaced
      <4> QED BY <1>1, <4>1
    <3>5. ChrPlaced(s, c, P \ {x})
      BY <3>2, <3>3, <3>4 DEF ChrPlaced
    <3> QED BY <3>5 DEF c, s
  <2> QED BY <2>1 DEF AllPlaced, SvcPlaced
<1> QED BY <1>2 DEF AllPlaced, x

LEMMA GsRegisters ==
    ASSUME GsInv, NEW sid \in Nat, RegisterService(sid) \/ UnregisterService(sid)
    PROVE  GsInv'
<1> DEFINE i == ById(services, sid)
<1>1. services \in Seq(SvcT) /\ objects \in Nat /\ AllPlaced(services, exported)
  BY DEF GsInv
<1>2. i # 0 /\ request = NoRequest /\ request' = request /\ objects' = objects
  BY DEF RegisterService, UnregisterService
<1>3. i \in DOMAIN services /\ services[i].id = sid /\ \A n \in DOMAIN services : services[n].id = sid => i <= n
  BY <1>1, <1>2, ByIdIs
<1>4. CASE RegisterService(sid)
  <2> DEFINE t == [services[i] EXCEPT !.registered = TRUE]
             Q == exported \cup {<<sid>>}
  <2>1. exported' = Q /\ services' = [services EXCEPT ![i] = t]
    BY <1>4 DEF RegisterService, Exports
  <2> HIDE DEF i
  <2>2. services[i] \in SvcT /\ SvcPlaced(services[i], exported)
    BY <1>1, <1>3 DEF AllPlaced
  <2>3. t \in SvcT /\ t.id = sid /\ t.chars = services[i].chars
    BY <1>3, <2>2 DEF SvcT
  <2>4. exported \subseteq Q
    OBVIOUS
  <2> HIDE DEF t, Q
  <2>5. \A n \in DOMAIN services : SvcPlaced(services[n], Q)
    BY <1>1, <2>4, PlacedGrows DEF AllPlaced
  <2>6. SvcPlaced(t, Q)
    BY <1>3, <2>3, <2>5 DEF SvcPlaced
  <2>7. services' \in Seq(SvcT) /\ AllPlaced(services', Q)
    BY <1>1, <1>3, <2>1, <2>3, <2>5, <2>6, PlacedReplaced DEF AllPlaced
  <2> QED BY <1>1, <1>2, <2>1, <2>7, GsBuilt
<1>5. CASE UnregisterService(sid)
  <2>1. services' = RemoveAt(services, i) /\ exported' \in {exported, exported \ {<<sid>>}}
    BY <1>5 DEF UnregisterService
  <2>2. i \in 1 .. Len(services)
    BY <1>1, <1>3
  <2> HIDE DEF i
  <2>3. services' \in Seq(SvcT) /\ AllPlaced(services', exported)
    BY <1>1, <2>1, <2>2, PlacedRemoved
  <2>4. AllPlaced(services', exported')
    <3> DEFINE list == services'
    <3>1. list \in Seq(SvcT) /\ AllPlaced(list, exported)
      BY <2>3
    <3> HIDE DEF list
    <3>2. AllPlaced(list, exported \ {<<sid>>})
      BY <3>1, GsServicePath
    <3> QED BY <2>1, <3>1, <3>2 DEF list
  <2> QED BY <1>1, <1>2, <2>3, <2>4, GsBuilt
<1> QED BY <1>4, <1>5

LEMMA GsSteps ==
    ASSUME GsCalm, GsInv, GsNext
    PROVE  GsInv'
<1>1. services \in Seq(SvcT) /\ objects \in Nat /\ AllPlaced(services, exported)
  BY DEF GsInv
<1>2. GsIds \subseteq Nat
  BY GsAssumption DEF GsIds
<1>3. CASE AddService
  <2> DEFINE s == [id |-> Len(services), addr |-> objects + 1, registered |-> FALSE, chars |-> <<>>]
  <2>1. services' = Append(services, s) /\ exported' = exported /\ objects' = objects + 1
        /\ request = NoRequest /\ request' = request
    BY <1>3 DEF AddService, NewObject
  <2>2. s \in SvcT /\ s.chars = <<>>
    <3>1. Len(services) \in Nat /\ <<>> \in Seq(ChrT) /\ objects + 1 \in Nat
      BY <1>1
    <3> QED BY <3>1 DEF SvcT
  <2> HIDE DEF s
  <2>3. services' \in Seq(SvcT) /\ AllPlaced(services', exported') /\ objects' \in Nat
    BY <1>1, <2>1, <2>2, PlacedAppended
  <2> QED BY <2>1, <2>3, GsBuilt
<1>4. CASE RequestAnswered
  <2>1. RequestIsRouted(services', request') /\ UNCHANGED <<services, exported, objects>>
    BY <1>4 DEF RequestAnswered, RequestIsRouted
  <2> QED BY <1>1, <2>1 DEF GsInv
<1>5. ASSUME NEW path, MethodCall(path) PROVE GsInv'
  <2>1. RequestIsRouted(services, request')
    BY <1>5, GsCalls
  <2>2. UNCHANGED <<services, exported, objects>>
    BY <1>5 DEF MethodCall
  <2> QED BY <1>1, <2>1, <2>2 DEF GsInv
<1>6. ASSUME NEW s \in Nat, AddCharacteristic(s) \/ RegisterService(s) \/ UnregisterService(s) PROVE GsInv'
  BY <1>6, GsAddsCharacteristic, GsRegisters
<1>7. ASSUME NEW s \in Nat, NEW c \in Nat, AddDescriptor(s, c) \/ RemoveCharacteristic(s, c) PROVE GsInv'
  BY <1>7, GsAddsDescriptor, GsRemovesCharacteristic
<1>8. ASSUME NEW s \in Nat, NEW c \in Nat, NEW d \in Nat, RemoveDescriptor(s, c, d) PROVE GsInv'
  BY <1>8, GsRemovesDescriptor
<1> QED BY <1>2, <1>3, <1>4, <1>5, <1>6, <1>7, <1>8 DEF GsNext

LEMMA GsGives == GsInv => PathsFollowIds
<1> SUFFICES ASSUME GsInv PROVE PathsFollowIds
  OBVIOUS
<1>1. \A i \in DOMAIN services : \A j \in DOMAIN services[i].chars : services[i].chars[j].path \in exported
  BY DEF GsInv, AllPlaced, SvcPlaced, ChrPlaced
<1>2. RequestIsRouted(services, request)
  BY DEF GsInv
<1> QED BY <1>1, <1>2 DEF PathsFollowIds, RequestIsRouted

LEMMA GsUnchanged == ASSUME GsInv, UNCHANGED gsvars PROVE GsInv'
BY DEF GsInv, gsvars

-----------------------------------------------------------------------------
(* Bluetooth: file transfers.                                              *)

\* One session; a transfer begins when the last one is over, was not cancelled and its
\* end was heard; calls about it are answered one by one, and none fails suspended.
FtCalm == FtUnusual = {}

FtVals == FtEnds \cup {"active", "suspended", "queued", "null", "call", "ok"}

FtMessage ==
    [kind : {"changed", "added", "removed", "gone"} \cup Ops, id : 0 .. FtMax, val : FtVals]

FtCallsOf(cur) == {m \in FtMessage : m.kind \in Ops /\ m.id \in 1 .. cur /\ m.val = "call" /\ (m.kind = "Cancel" => m.id = cur)}

FtAdded == {m \in FtMessage : m.kind = "added"}
FtChanged == {m \in FtMessage : m.kind = "changed"}
FtFinal == {m \in FtChanged : m.val \in FtEnds}
FtSuspends == {m \in FtChanged : m.val = "suspended"}
FtGone == {m \in FtMessage : m.kind = "gone"}
FtAnswers == {m \in FtMessage : m.kind \in Ops}
FtOk(op) == {m \in FtMessage : m.kind = op /\ m.val = "ok"}
FtOp(op) == {m \in FtMessage : m.kind = op}
FtOpOf(op, cur) == {m \in FtOp(op) : m.id = cur}
FtAbout(cur) == {m \in FtMessage : m.id = cur}
FtRemoves(cur) == {m \in FtMessage : m.kind = "removed" /\ m.id = cur}
FtRemoved(cur) == {m \in FtMessage : m.kind = "removed" /\ m.id # cur}

\* Calls and answers that end a cancel.
FtCanceling(cur, req) ==
    {m \in FtMessage : m.id = cur /\ (m.kind = "Cancel" \/ (m.kind = "Resume" /\ req = "put"))}

\* What can wait while cur is the transfer that was started last.
FtWaiting(cur) ==
    {m \in FtMessage :
        /\ m.kind = "gone" => m.id = 0
        /\ m.kind # "gone" => m.id \in 1 .. cur
        /\ m.kind \in {"changed", "added"} => m.id = cur
        /\ m.kind = "changed" => m.val \in FtEnds \cup {"active", "suspended"}
        /\ m.kind = "added" => m.val = "queued"
        /\ m.kind \in Ops => m.val \in {"ok", "error"}
        /\ m.kind = "Cancel" \/ (m.kind = "Resume" /\ m.val = "ok") => m.id = cur}

FtSessionInv ==
    /\ ft_fault = FALSE /\ obexd_running \in BOOLEAN /\ obexed_is_used \in BOOLEAN
    /\ ft_sessions \in Nat /\ ft_session = ft_open
    /\ ft_session # 0 /\ ~ obexed_is_used => obexd_start_stream = "open"
    /\ Has(ft_in, FtGone) => ft_open = 0

FtNone ==
    /\ \A t \in FtIds : ft_xfer[t] = "none" /\ ft_told[t] = "nothing"
    /\ ft_path = 0 /\ ft_calls = <<>> /\ ftp_state = "end" /\ ft_in \in Seq(FtWaiting(0))

FtTyped(cur) ==
    /\ \A t \in FtIds : ft_xfer[t] # "none" <=> t <= cur
    /\ \A t \in FtIds : t > cur => ft_told[t] = "nothing"
    /\ ft_in \in Seq(FtWaiting(cur)) /\ ft_calls \in Seq(FtCallsOf(cur)) /\ Len(ft_calls) <= 1

FtOrder(cur) ==
    /\ Never(ft_in, FtAbout(cur), FtAdded)
    /\ Never(ft_in, FtRemoves(cur), FtChanged)
    /\ Never(ft_in, FtFinal, FtChanged)
    /\ Never(ft_in, FtAnswers, FtAnswers)
    /\ Follow(ft_in, FtRemoved(cur), FtAdded)
    /\ ft_calls # <<>> => ~ Has(ft_in, FtAnswers)
    /\ Has(ft_in, FtFinal) \/ Has(ft_in, FtRemoves(cur)) => ft_xfer[cur] = "over"
    /\ Has(ft_in, FtChanged) \/ Has(ft_in, FtAdded) => Going(cur) \/ Has(ft_in, FtFinal)

FtPath(cur) ==
    /\ ft_path \in {0, cur}
    /\ ~ Has(ft_in, FtAdded) => (ft_path = cur <=> Going(cur) \/ Has(ft_in, FtFinal))

FtOutcomes(cur) ==
    /\ Has(ft_in, FtOk("Resume")) =>
          ~ Has(ft_in, FtAdded) /\ (Going(cur) \/ Follow(ft_in, FtOk("Resume"), FtFinal))
    /\ Has(ft_in, FtOk("Cancel")) => ft_xfer[cur] = "over"
    /\ ft_xfer[cur] = "suspended" /\ Has(ft_in, FtAdded) => Has(ft_in, FtOpOf("Suspend", cur))

FtResumed(cur) == Has(ft_in, FtOpOf("Resume", cur)) /\ Never(ft_in, FtFinal, FtOpOf("Resume", cur))

FtStates(cur) ==
    /\ ftp_state = "canceling" =>
          Has(ft_calls, FtCanceling(cur, ftp_req)) \/ Has(ft_in, FtCanceling(cur, ftp_req))
    /\ Has(ft_in, FtOp("Cancel")) \/ Has(ft_calls, FtOp("Cancel")) =>
          ftp_state = "canceling"
    /\ ftp_state = "canceled" => ft_xfer[cur] = "over" /\ ft_told[cur] \in FtEnds
    /\ ftp_state = "suspended" =>
          /\ ft_xfer[cur] = "suspended" \/ FtResumed(cur)
          /\ Going(cur) \/ Has(ft_in, FtFinal)
    /\ Has(ft_in, FtSuspends) =>
          \/ ft_xfer[cur] = "suspended"
          \/ FtResumed(cur) /\ Follow(ft_in, FtSuspends, FtOpOf("Resume", cur))
          \/ (ftp_state = "canceling") /\ Follow(ft_in, FtSuspends, FtOp("Cancel"))

FtTold(cur) ==
    /\ \A t \in 1 .. cur - 1 : ft_xfer[t] = "over" /\ ft_told[t] \in FtEnds
    /\ ft_xfer[cur] = "over" =>
         \/ ft_told[cur] \in FtEnds /\ ~ Has(ft_in, FtChanged)
         \/ Has(ft_in, FtFinal)
         \/ ftp_state = "canceling"
    /\ Has(ft_in, FtAdded) => ft_told[cur] \notin FtEnds

FtSome(cur) ==
    FtTyped(cur) /\ FtOrder(cur) /\ FtPath(cur) /\ FtOutcomes(cur) /\ FtStates(cur) /\ FtTold(cur)

FtTypes ==
    /\ ft_told \in [FtIds -> {"nothing", "canceling"} \cup FtVals]
    /\ ft_xfer \in [FtIds -> {"none", "queued", "active", "suspended", "over"}]

FtInv ==
    /\ FtTypes /\ FtSessionInv
    /\ FtNone \/ \E cur \in FtIds : FtSome(cur)

LEMMA FtKinds ==
    ASSUME NEW cur \in FtIds, NEW req, NEW op, NEW m \in FtMessage
    PROVE  /\ m \in FtAdded <=> m.kind = "added"
           /\ m \in FtChanged <=> m.kind = "changed"
           /\ m \in FtFinal <=> m.kind = "changed" /\ m.val \in FtEnds
           /\ m \in FtSuspends <=> m.kind = "changed" /\ m.val = "suspended"
           /\ m \in FtGone <=> m.kind = "gone"
           /\ m \in FtAnswers <=> m.kind \in Ops
           /\ m \in FtOk(op) <=> m.kind = op /\ m.val = "ok"
           /\ m \in FtOp(op) <=> m.kind = op
           /\ m \in FtOpOf(op, cur) <=> m.kind = op /\ m.id = cur
           /\ m \in FtAbout(cur) <=> m.id = cur
           /\ m \in FtRemoves(cur) <=> m.kind = "removed" /\ m.id = cur
           /\ m \in FtRemoved(cur) <=> m.kind = "removed" /\ m.id # cur
           /\ m \in FtCanceling(cur, req) <=>
                 m.id = cur /\ (m.kind = "Cancel" \/ (m.kind = "Resume" /\ req = "put"))
BY DEF FtAdded, FtChanged, FtFinal, FtSuspends, FtGone, FtAnswers, FtOk, FtOp, FtOpOf, FtAbout, FtRemoves,
       FtRemoved, FtCanceling

LEMMA FtWaits ==
    ASSUME NEW cur \in FtIds, NEW what, NEW t, NEW val
    PROVE  /\ LET m == Said(what, t, val) IN m.kind = what /\ m.id = t /\ m.val = val
           /\ FtWaiting(cur) \subseteq FtMessage
           /\ what = "added" /\ t = cur /\ val = "queued" => Said(what, t, val) \in FtWaiting(cur)
           /\ what = "changed" /\ t = cur /\ val \in FtEnds \cup {"active", "suspended"}
                 => Said(what, t, val) \in FtWaiting(cur)
           /\ what = "removed" /\ t \in 1 .. cur /\ val \in FtEnds => Said(what, t, val) \in FtWaiting(cur)
           /\ what = "gone" /\ t = 0 /\ val = "null" => Said(what, t, val) \in FtWaiting(cur)
           /\ what \in Ops /\ t \in 1 .. cur /\ val \in {"ok", "error"}
                 /\ (what = "Cancel" \/ (what = "Resume" /\ val = "ok") => t = cur)
                 => Said(what, t, val) \in FtWaiting(cur)
<1>1. cur \in 1 .. FtMax /\ FtMax \in Nat /\ 1 .. cur \subseteq 0 .. FtMax /\ cur \in 1 .. cur /\ 0 \in 0 .. FtMax
  BY FtAssumption DEF FtIds
<1> QED BY <1>1 DEF Said, FtWaiting, FtMessage, FtVals, FtEnds, Ops

LEMMA FtMoves ==
    ASSUME FtCalm, FtTypes, FtSessionInv, NEW cur \in FtIds, FtSome(cur), NEW t \in FtIds, ObexdMoves(t)
    PROVE  FtTypes' /\ FtSessionInv' /\ FtSome(cur)'
<1> USE DEF FtSome
<1> DEFINE W == FtWaiting(cur)
<1>1. /\ FtTyped(cur) /\ FtOrder(cur) /\ FtPath(cur) /\ FtOutcomes(cur) /\ FtStates(cur) /\ FtTold(cur)
      /\ ft_in \in Seq(W)
  BY DEF FtTyped
<1>2. ft_xfer[t] \in {"queued", "active"}
  BY DEF ObexdMoves, FtCalm
<1>3. t = cur
  <2>1. cur \in Nat /\ t \in Nat /\ t >= 1
    BY FtAssumption DEF FtIds
  <2>2. t <= cur
    BY <1>1, <1>2 DEF FtTyped
  <2>3. t \in 1 .. cur - 1 => ft_xfer[t] = "over"
    BY <1>1 DEF FtTold
  <2> QED BY <1>2, <2>1, <2>2, <2>3
<1> HIDE DEF W
<1>4. ASSUME NEW val \in {"active", "complete", "error"}, Changes(t, val), val = "active" => ft_xfer[t] = "queued",
             val # "active" => ft_xfer[t] = "active"
      PROVE  FtTypes' /\ FtSessionInv' /\ FtSome(cur)'
  <2> DEFINE m == Said("changed", cur, val)
             gone == Said("removed", cur, val)
             one == Append(ft_in, m)
             two == Append(one, gone)
  <2>1. m \in W /\ m.kind = "changed" /\ m.id = cur /\ m.val = val
    BY FtWaits DEF W, FtEnds
  <2>2. val # "active" => gone \in W
    <3>1. cur \in 1 .. cur
      BY FtAssumption DEF FtIds
    <3> QED BY <3>1, FtWaits DEF W, FtEnds
  <2>3. gone.kind = "removed" /\ gone.id = cur /\ gone.val = val
    BY FtWaits
  <2>4. W \subseteq FtMessage
    BY FtWaits DEF W
  <2>5. /\ ft_xfer' = [ft_xfer EXCEPT ![cur] = IF val = "active" THEN "active" ELSE "over"]
        /\ ft_in' = IF val = "active" THEN one ELSE two
        /\ UNCHANGED <<FtProcess, FtSessions, ftp_state, ftp_req, FtProperty, ft_calls, ft_told>>
    <3>1. val \in FtEnds <=> val # "active"
      BY DEF FtEnds
    <3>2. val # "active" => ft_in \o EndOf(t, val) = two
      BY <1>1, <1>3, <2>1, <2>2, QueueConcat DEF EndOf
    <3>3. ft_in \o <<m>> = one
      BY <1>1, <2>1, QueueConcat
    <3> QED BY <1>3, <1>4, <3>1, <3>2, <3>3 DEF Changes
  <2> HIDE DEF m, gone
  <2>6. /\ one \in Seq(W)
        /\ \A A : Has(one, A) <=> Has(ft_in, A) \/ m \in A
        /\ \A A, B : Never(ft_in, A, B) /\ (m \in B => ~ Has(ft_in, A)) => Never(one, A, B)
        /\ \A A, B : Follow(ft_in, A, B) \/ m \in B => m \in A \/ Follow(one, A, B)
    BY <1>1, <2>1, QueueAppend
  <2> HIDE DEF one
  <2>7. CASE val = "active"
    <3>1. /\ ft_in' = one /\ ft_xfer' = [ft_xfer EXCEPT ![cur] = "active"] /\ ft_xfer[cur] = "queued"
          /\ UNCHANGED <<FtProcess, FtSessions, ftp_state, ftp_req, FtProperty, ft_calls, ft_told>>
      BY <1>3, <1>4, <2>5, <2>7
    <3>2. /\ m \notin FtAdded /\ m \in FtChanged /\ m \notin FtFinal /\ m \notin FtSuspends
          /\ m \notin FtGone /\ m \notin FtAnswers /\ m \in FtAbout(cur)
          /\ m \notin FtRemoves(cur) /\ m \notin FtRemoved(cur)
          /\ \A op \in Ops : m \notin FtOk(op) /\ m \notin FtOp(op) /\ m \notin FtOpOf(op, cur)
          /\ \A req : m \notin FtCanceling(cur, req)
      BY <2>1, <2>4, <2>7, FtKinds DEF Ops, FtEnds
    <3>3. /\ \A u \in FtIds : u # cur => ft_xfer'[u] = ft_xfer[u]
          /\ ft_xfer'[cur] = "active" /\ Going(cur)' /\ Going(cur)
      BY <3>1 DEF FtTypes, Going
    <3>4. FtTypes'
      BY <3>1 DEF FtTypes
    <3>5. FtSessionInv'
      BY <2>6, <3>1, <3>2 DEF FtSessionInv, FtProcess, FtSessions
    <3>6. FtTyped(cur)'
      BY <1>1, <2>6, <3>1, <3>3 DEF FtTyped, W
    <3>7. FtOrder(cur)'
      BY <1>1, <2>6, <3>1, <3>2, <3>3 DEF FtOrder
    <3>8. FtPath(cur)'
      BY <1>1, <2>6, <3>1, <3>2, <3>3 DEF FtPath, FtProperty
    <3>9. FtOutcomes(cur)'
      BY <1>1, <2>6, <3>1, <3>2, <3>3 DEF FtOutcomes, Ops
    <3>10. FtStates(cur)'
      BY <1>1, <2>6, <3>1, <3>2, <3>3 DEF FtStates, FtResumed, Ops
    <3>11. FtTold(cur)'
      BY <1>1, <2>6, <3>1, <3>2, <3>3 DEF FtTold
    <3> QED BY <3>4, <3>5, <3>6, <3>7, <3>8, <3>9, <3>10, <3>11
  <2>8. CASE val # "active"
    <3>1. /\ ft_in' = two /\ ft_xfer' = [ft_xfer EXCEPT ![cur] = "over"] /\ ft_xfer[cur] = "active"
          /\ UNCHANGED <<FtProcess, FtSessions, ftp_state, ftp_req, FtProperty, ft_calls, ft_told>>
      BY <1>3, <2>5, <2>8, <1>4 DEF ObexdMoves, Changes
    <3>2. /\ m \notin FtAdded /\ m \in FtChanged /\ m \in FtFinal /\ m \notin FtSuspends
          /\ m \notin FtGone /\ m \notin FtAnswers /\ m \in FtAbout(cur)
          /\ m \notin FtRemoves(cur) /\ m \notin FtRemoved(cur)
          /\ \A op \in Ops : m \notin FtOk(op) /\ m \notin FtOp(op) /\ m \notin FtOpOf(op, cur)
          /\ \A req : m \notin FtCanceling(cur, req)
      BY <2>1, <2>4, <2>8, FtKinds DEF Ops, FtEnds
    <3>3. /\ gone \notin FtAdded /\ gone \notin FtChanged /\ gone \notin FtFinal /\ gone \notin FtSuspends
          /\ gone \notin FtGone /\ gone \notin FtAnswers /\ gone \in FtAbout(cur)
          /\ gone \in FtRemoves(cur) /\ gone \notin FtRemoved(cur)
          /\ \A op \in Ops : gone \notin FtOk(op) /\ gone \notin FtOp(op) /\ gone \notin FtOpOf(op, cur)
          /\ \A req : gone \notin FtCanceling(cur, req)
      BY <2>2, <2>3, <2>4, <2>8, FtKinds DEF Ops, FtEnds
    <3>4. /\ \A u \in FtIds : u # cur => ft_xfer'[u] = ft_xfer[u]
          /\ ft_xfer'[cur] = "over" /\ ~ Going(cur)' /\ Going(cur)
      BY <3>1 DEF FtTypes, Going
    <3>5. /\ two \in Seq(W)
          /\ \A A : Has(two, A) <=> Has(one, A) \/ gone \in A
          /\ \A A, B : Never(one, A, B) /\ (gone \in B => ~ Has(one, A)) => Never(two, A, B)
          /\ \A A, B : Follow(one, A, B) \/ gone \in B => gone \in A \/ Follow(two, A, B)
      BY <2>2, <2>6, <2>8, QueueAppend
    <3> HIDE DEF two
    <3>6. FtTypes'
      BY <3>1 DEF FtTypes
    <3>7. FtSessionInv'
      BY <2>6, <3>1, <3>2, <3>3, <3>5 DEF FtSessionInv, FtProcess, FtSessions
    <3>8. FtTyped(cur)'
      BY <1>1, <3>1, <3>4, <3>5 DEF FtTyped, W
    <3>9. FtOrder(cur)'
      BY <1>1, <2>6, <3>1, <3>2, <3>3, <3>4, <3>5 DEF FtOrder
    <3>10. FtPath(cur)'
      BY <1>1, <2>6, <3>1, <3>2, <3>3, <3>4, <3>5 DEF FtPath, FtProperty
    <3>11. FtOutcomes(cur)'
      BY <1>1, <2>6, <3>1, <3>2, <3>3, <3>4, <3>5 DEF FtOutcomes, Ops
    <3>12. FtStates(cur)'
      BY <1>1, <2>6, <3>1, <3>2, <3>3, <3>4, <3>5 DEF FtStates, FtResumed, Ops
    <3>13. FtTold(cur)'
      BY <1>1, <2>6, <3>1, <3>2, <3>3, <3>4, <3>5 DEF FtTold
    <3> QED BY <3>6, <3>7, <3>8, <3>9, <3>10, <3>11, <3>12, <3>13
  <2> QED BY <2>7, <2>8
<1>5. QED BY <1>2, <1>4 DEF ObexdMoves, FtCalm

LEMMA FtHandles ==
    ASSUME FtCalm, FtTypes, FtSessionInv, NEW cur \in FtIds, FtSome(cur), ObexdHandles
    PROVE  FtTypes' /\ FtSessionInv' /\ FtSome(cur)'
<1> USE DEF FtSome
<1> DEFINE W == FtWaiting(cur)
           c == Head(ft_calls)
           answer(val) == Said(c.kind, c.id, val)
<1>1. /\ FtTyped(cur) /\ FtOrder(cur) /\ FtPath(cur) /\ FtOutcomes(cur) /\ FtStates(cur) /\ FtTold(cur)
      /\ ft_in \in Seq(W) /\ W \subseteq FtMessage /\ cur \in 1 .. cur
  BY FtWaits, FtAssumption DEF FtTyped, W, FtIds
<1>15. ft_in \in Seq(W) /\ W \subseteq FtMessage
  BY <1>1
<1>16. \A u \in 1 .. cur - 1 : u \in FtIds /\ u # cur
  BY FtAssumption DEF FtIds
<1>2. /\ ft_calls \in Seq(FtCallsOf(cur)) /\ ft_calls # <<>> /\ Len(ft_calls) = 1
      /\ c \in FtCallsOf(cur) /\ ft_calls' = <<>>
  <2>1. ft_calls \in Seq(FtCallsOf(cur)) /\ ft_calls # <<>> /\ Len(ft_calls) <= 1
    BY <1>1 DEF FtTyped, ObexdHandles
  <2>2. Len(ft_calls) = 1 /\ c \in FtCallsOf(cur) /\ Tail(ft_calls) = <<>>
    BY <2>1, QueueOfOne
  <2> QED BY <2>1, <2>2 DEF ObexdHandles
<1>3. /\ c.kind \in Ops /\ c.id \in 1 .. cur /\ (c.kind = "Cancel" => c.id = cur) /\ c \in FtMessage
      /\ c.id \in FtIds
  <2>1. 1 .. cur \subseteq FtIds
    BY FtAssumption DEF FtIds
  <2> QED BY <1>2, <2>1 DEF FtCallsOf
<1>4. /\ ~ Has(ft_in, FtAnswers)
      /\ \A A : Has(ft_calls, A) <=> c \in A
      /\ \A A : ~ Has(ft_calls', A)
  <2>1. ~ Has(ft_in, FtAnswers)
    BY <1>1, <1>2 DEF FtOrder
  <2>3. \A A : Has(ft_calls, A) <=> c \in A
    BY <1>2, QueueOfOne
  <2>4. \A A : ~ Has(<<>>, A)
    BY QueueEmpty
  <2> QED BY <1>2, <2>1, <2>3, <2>4
<1>5. /\ \A op \in Ops : ~ Has(ft_in, FtOp(op)) /\ ~ Has(ft_in, FtOk(op)) /\ ~ Has(ft_in, FtOpOf(op, cur))
      /\ \A req : ~ Has(ft_in, FtCanceling(cur, req))
      /\ ~ FtResumed(cur)
  <2>1. \A op \in Ops : FtOp(op) \subseteq FtAnswers /\ FtOk(op) \subseteq FtAnswers /\ FtOpOf(op, cur) \subseteq FtAnswers
    BY DEF FtOp, FtOk, FtOpOf, FtAnswers
  <2>2. \A req : FtCanceling(cur, req) \subseteq FtAnswers
    BY DEF FtCanceling, FtAnswers, Ops
  <2>3. \A A : A \subseteq FtAnswers => ~ Has(ft_in, A)
    BY <1>4 DEF Has
  <2> QED BY <2>1, <2>2, <2>3 DEF FtResumed, Ops
<1>6. /\ \A t \in FtIds : t # cur => ~ Going(t)
      /\ UNCHANGED <<FtProcess, FtSessions, ftp_state, ftp_req, FtProperty, ft_told>>
  <2>1. \A t \in FtIds : t # cur => t \in 1 .. cur - 1 \/ ~(t <= cur)
    BY FtAssumption DEF FtIds
  <2>2. UNCHANGED <<FtProcess, FtSessions, ftp_state, ftp_req, FtProperty, ft_told>>
    BY DEF ObexdHandles
  <2> QED BY <1>1, <2>1, <2>2 DEF FtTold, FtTyped, Going
<1>7. Said(c.kind, c.id, "error") \in W
  BY <1>3, FtWaits DEF W
<1> HIDE DEF W, c
<1>8. CASE Outcome(c) = "error"
  <2> DEFINE m == Said(c.kind, c.id, "error")
             one == Append(ft_in, m)
  <2>1. m \in W /\ m.kind = c.kind /\ m.id = c.id /\ m.val = "error"
    BY <1>7, FtWaits
  <2>2. ft_in' = one /\ ft_xfer' = ft_xfer
    <3>1. ft_in' \in {ft_in \o <<>> \o <<m>>, ft_in \o <<m>> \o <<>>} /\ ft_xfer' = ft_xfer
      <4>1. Answers(<<c>>, "error") = <<m>>
        BY DEF Answers
      <4> QED BY <1>8, <4>1 DEF ObexdHandles, c
    <3>2. one \in Seq(W)
      BY <1>1, <2>1
    <3> QED BY <1>1, <2>1, <3>1, <3>2, QueueConcat
  <2> HIDE DEF m
  <2>3. /\ one \in Seq(W)
        /\ \A A : Has(one, A) <=> Has(ft_in, A) \/ m \in A
        /\ \A A, B : Never(ft_in, A, B) /\ (m \in B => ~ Has(ft_in, A)) => Never(one, A, B)
        /\ \A A, B : Follow(ft_in, A, B) \/ m \in B => m \in A \/ Follow(one, A, B)
    BY <1>1, <2>1, QueueAppend
  <2> HIDE DEF one
  <2>4. /\ m \notin FtAdded /\ m \notin FtChanged /\ m \notin FtFinal /\ m \notin FtSuspends
        /\ m \notin FtGone /\ m \in FtAnswers /\ m \notin FtRemoves(cur) /\ m \notin FtRemoved(cur)
        /\ \A op : m \notin FtOk(op)
        /\ \A op : m \in FtOp(op) <=> c.kind = op
        /\ \A op : m \in FtOpOf(op, cur) <=> c.kind = op /\ c.id = cur
        /\ \A req : m \in FtCanceling(cur, req) <=> c \in FtCanceling(cur, req)
        /\ \A op : c \in FtOp(op) <=> c.kind = op
    <3>1. m \in FtMessage
      BY <1>1, <2>1
    <3>2. \A req : m \in FtCanceling(cur, req) <=> c \in FtCanceling(cur, req)
      BY <1>3, <2>1, <3>1, FtKinds
    <3>3. \A op : c \in FtOp(op) <=> c.kind = op
      BY <1>3, FtKinds
    <3>4. c.kind \notin {"added", "changed", "gone", "removed"}
      BY <1>3 DEF Ops
    <3> HIDE DEF m
    <3> QED BY <1>3, <2>1, <3>1, <3>2, <3>3, <3>4, FtKinds
  <2>5. /\ c.kind = "Cancel" => ft_xfer[cur] = "over"
        /\ c.kind = "Resume" /\ c.id = cur => ft_xfer[cur] # "suspended"
        /\ Going(cur)' <=> Going(cur)
    <3>1. /\ c.kind = "Resume" => ft_xfer[c.id] # "suspended"
          /\ c.kind = "Cancel" => ~ Going(c.id)
      BY <1>8 DEF Outcome, Going
    <3>2. ft_xfer[cur] \in {"none", "queued", "active", "suspended", "over"} /\ ft_xfer[cur] # "none"
      BY <1>1 DEF FtTypes, FtTyped, FtIds
    <3> QED BY <1>3, <2>2, <3>1, <3>2 DEF Going
  <2>6. FtTypes'
    BY <1>6, <2>2 DEF FtTypes
  <2>7. FtSessionInv'
    BY <1>6, <2>2, <2>3, <2>4 DEF FtSessionInv, FtProcess, FtSessions
  <2>8. FtTyped(cur)'
    BY <1>1, <1>2, <1>6, <2>2, <2>3 DEF FtTyped, W
  <2>9. FtOrder(cur)'
    BY <1>1, <1>2, <1>4, <1>5, <1>6, <2>2, <2>3, <2>4, <2>5 DEF FtOrder
  <2>10. FtPath(cur)'
    BY <1>1, <1>6, <2>2, <2>3, <2>4, <2>5 DEF FtPath, FtProperty
  <2>11. FtOutcomes(cur)'
    BY <1>1, <1>5, <1>6, <2>2, <2>3, <2>4, <2>5 DEF FtOutcomes, Ops
  <2>12. FtStates(cur)'
    BY <1>1, <1>4, <1>5, <1>6, <2>2, <2>3, <2>4, <2>5 DEF FtStates, Ops
  <2>13. FtTold(cur)'
    BY <1>1, <1>6, <2>2, <2>3, <2>4, <2>5 DEF FtTold
  <2> QED BY <2>6, <2>7, <2>8, <2>9, <2>10, <2>11, <2>12, <2>13
<1>9. CASE Outcome(c) \in {"active", "suspended"}
  <2> DEFINE to == Outcome(c)
             a == Said("changed", cur, to)
             b == Said(c.kind, cur, "ok")
             in1 == ft_in'
  <2>1. /\ c.id = cur
        /\ \/ c.kind = "Resume" /\ to = "active" /\ ft_xfer[cur] = "suspended"
           \/ c.kind = "Suspend" /\ to = "suspended" /\ ft_xfer[cur] = "active"
    BY <1>3, <1>6, <1>9 DEF Outcome, Going
  <2>2. /\ a \in W /\ a.kind = "changed" /\ a.id = cur /\ a.val = to
        /\ b \in W /\ b.kind = c.kind /\ b.id = cur /\ b.val = "ok"
    BY <1>1, <1>3, <2>1, FtWaits DEF W, Ops
  <2>3. /\ in1 = Append(Append(ft_in, a), b) \/ in1 = Append(Append(ft_in, b), a)
        /\ ft_xfer' = [ft_xfer EXCEPT ![cur] = to]
    <3>1. /\ in1 \in {ft_in \o <<a>> \o <<b>>, ft_in \o <<b>> \o <<a>>}
          /\ ft_xfer' = [ft_xfer EXCEPT ![cur] = to]
      <4>1. Answers(<<c>>, "ok") = <<Said(c.kind, c.id, "ok")>>
        BY DEF Answers
      <4>2. to # "error" /\ to # "over"
        BY <1>9
      <4> QED BY <2>1, <4>1, <4>2 DEF ObexdHandles, c
    <3>2. ft_in \o <<a>> = Append(ft_in, a) /\ ft_in \o <<b>> = Append(ft_in, b)
      BY <1>1, <2>2, QueueConcat
    <3>3. Append(ft_in, a) \in Seq(W) /\ Append(ft_in, b) \in Seq(W)
      BY <1>1, <2>2
    <3>4. /\ Append(ft_in, a) \o <<b>> = Append(Append(ft_in, a), b)
          /\ Append(ft_in, b) \o <<a>> = Append(Append(ft_in, b), a)
      BY <2>2, <3>3, QueueConcat
    <3> QED BY <3>1, <3>2, <3>4
  <2> HIDE DEF a, b, in1, to
  <2>4. /\ in1 \in Seq(W)
        /\ \A A : Has(in1, A) <=> Has(ft_in, A) \/ a \in A \/ b \in A
        /\ \A A, B : /\ Never(ft_in, A, B) /\ (a \in B \/ b \in B => ~ Has(ft_in, A))
                    /\ (a \in A => b \notin B) /\ (b \in A => a \notin B)
                    => Never(in1, A, B)
        /\ \A A, B : Follow(ft_in, A, B) \/ a \in B \/ b \in B => a \in A \/ b \in A \/ Follow(in1, A, B)
    BY <1>15, <2>2, <2>3, QueueTwo
  <2>5. in1 = ft_in'
    BY DEF in1
  <2>6. /\ a \notin FtAdded /\ a \in FtChanged /\ a \notin FtFinal /\ (a \in FtSuspends <=> c.kind = "Suspend")
        /\ a \notin FtGone /\ a \notin FtAnswers /\ a \in FtAbout(cur)
        /\ a \notin FtRemoves(cur) /\ a \notin FtRemoved(cur)
        /\ \A op \in Ops : a \notin FtOk(op) /\ a \notin FtOp(op) /\ a \notin FtOpOf(op, cur)
        /\ \A req : a \notin FtCanceling(cur, req)
    BY <1>15, <2>1, <2>2, FtKinds DEF Ops, FtEnds
  <2>7. /\ b \notin FtAdded /\ b \notin FtChanged /\ b \notin FtFinal /\ b \notin FtSuspends
        /\ b \notin FtGone /\ b \in FtAnswers /\ b \in FtAbout(cur)
        /\ b \notin FtRemoves(cur) /\ b \notin FtRemoved(cur)
    BY <1>15, <2>1, <2>2, FtKinds DEF Ops, FtEnds
  <2>8. /\ \A op : b \in FtOk(op) <=> c.kind = op
        /\ \A op : b \in FtOp(op) <=> c.kind = op
        /\ \A op : b \in FtOpOf(op, cur) <=> c.kind = op
        /\ \A op : c \in FtOp(op) <=> c.kind = op
        /\ \A req : c \in FtCanceling(cur, req) <=> b \in FtCanceling(cur, req)
    <3>1. b \in FtMessage /\ c \in FtMessage
      BY <1>3, <1>15, <2>2
    <3>2. \A op : (b \in FtOk(op) <=> c.kind = op) /\ (b \in FtOp(op) <=> c.kind = op)
      BY <2>2, <3>1, FtKinds
    <3>3. \A op : (b \in FtOpOf(op, cur) <=> c.kind = op) /\ (c \in FtOp(op) <=> c.kind = op)
      BY <2>2, <3>1, FtKinds
    <3>4. \A req : c \in FtCanceling(cur, req) <=> b \in FtCanceling(cur, req)
      BY <2>1, <2>2, <3>1, FtKinds
    <3> QED BY <3>2, <3>3, <3>4
  <2>9. /\ \A u \in FtIds : u # cur => ft_xfer'[u] = ft_xfer[u]
        /\ ft_xfer'[cur] = to /\ to \in {"active", "suspended"} /\ Going(cur)' /\ Going(cur)
        /\ ft_xfer' \in [FtIds -> {"none", "queued", "active", "suspended", "over"}]
    BY <2>1, <2>3 DEF FtTypes, Going
  <2>10. FtTypes'
    BY <1>6, <2>9 DEF FtTypes
  <2>11. FtSessionInv'
    BY <1>6, <2>4, <2>5, <2>6, <2>7 DEF FtSessionInv, FtProcess, FtSessions
  <2>12. FtTyped(cur)'
    BY <1>1, <1>2, <1>6, <2>1, <2>4, <2>5, <2>9 DEF FtTyped, W
  <2>13. FtOrder(cur)'
    BY <1>1, <1>2, <1>4, <1>5, <1>6, <2>1, <2>4, <2>5, <2>6, <2>7, <2>9 DEF FtOrder
  <2>14. FtPath(cur)'
    BY <1>1, <1>6, <2>4, <2>5, <2>6, <2>7, <2>9 DEF FtPath, FtProperty
  <2>15. FtOutcomes(cur)'
    BY <1>1, <1>5, <1>6, <2>1, <2>4, <2>5, <2>6, <2>7, <2>8, <2>9 DEF FtOutcomes, Ops
  <2>16. FtStates(cur)'
    <3>1. Has(ft_in, FtSuspends) => ft_xfer[cur] = "suspended"
      BY <1>1, <1>5 DEF FtStates, Ops, Follow, Has
    <3>2. ~ Has(ft_in, FtFinal)
      BY <1>1, <2>9 DEF FtOrder, Going
    <3>3. c.kind = "Resume" => FtResumed(cur)' /\ Follow(ft_in', FtSuspends, FtOpOf("Resume", cur))
      <4>1. Never(ft_in, FtFinal, FtOpOf("Resume", cur))
        BY <3>2, QueueNever
      <4>2. ASSUME c.kind = "Resume"
            PROVE  /\ b \in FtOpOf("Resume", cur) /\ a \notin FtSuspends /\ b \notin FtSuspends
                   /\ a \notin FtFinal /\ b \notin FtFinal
        BY <2>6, <2>7, <2>8, <4>2
      <4> QED BY <2>4, <2>5, <3>2, <4>1, <4>2 DEF FtResumed
    <3> QED BY <1>1, <1>4, <1>5, <1>6, <2>1, <2>4, <2>5, <2>6, <2>7, <2>8, <2>9, <3>1, <3>3 DEF FtStates, Ops
  <2>17. FtTold(cur)'
    BY <1>1, <1>6, <1>16, <2>4, <2>5, <2>6, <2>7, <2>9 DEF FtTold
  <2> QED BY <2>10, <2>11, <2>12, <2>13, <2>14, <2>15, <2>16, <2>17
<1>10. CASE Outcome(c) = "over"
  <2> DEFINE a == Said("changed", cur, "error")
             g == Said("removed", cur, "error")
             b == Said("Cancel", cur, "ok")
             in1 == ft_in'
  <2>1. c.id = cur /\ c.kind = "Cancel" /\ Going(cur)
    BY <1>3, <1>6, <1>10 DEF Outcome, Going
  <2>2. /\ a \in W /\ a.kind = "changed" /\ a.id = cur /\ a.val = "error"
        /\ g \in W /\ g.kind = "removed" /\ g.id = cur /\ g.val = "error"
        /\ b \in W /\ b.kind = "Cancel" /\ b.id = cur /\ b.val = "ok"
    BY <1>1, FtWaits DEF W, Ops, FtEnds
  <2>3. /\ \/ in1 = Append(Append(Append(ft_in, a), g), b)
           \/ in1 = Append(Append(Append(ft_in, b), a), g)
        /\ ft_xfer' = [ft_xfer EXCEPT ![cur] = "over"]
    <3>1. /\ in1 \in {ft_in \o <<a, g>> \o <<b>>, ft_in \o <<b>> \o <<a, g>>}
          /\ ft_xfer' = [ft_xfer EXCEPT ![cur] = "over"]
      <4>1. Answers(<<c>>, "ok") = <<Said(c.kind, c.id, "ok")>>
        BY DEF Answers
      <4>2. EndOf(c.id, "error") = <<a, g>>
        BY <2>1 DEF EndOf
      <4> QED BY <1>10, <2>1, <4>1, <4>2 DEF ObexdHandles, c
    <3>2. ft_in \o <<a, g>> = Append(Append(ft_in, a), g) /\ ft_in \o <<b>> = Append(ft_in, b)
      BY <1>1, <2>2, QueueConcat
    <3>3. Append(Append(ft_in, a), g) \in Seq(W) /\ Append(ft_in, b) \in Seq(W)
      BY <1>1, <2>2
    <3>4. /\ Append(Append(ft_in, a), g) \o <<b>> = Append(Append(Append(ft_in, a), g), b)
          /\ Append(ft_in, b) \o <<a, g>> = Append(Append(Append(ft_in, b), a), g)
      BY <2>2, <3>3, QueueConcat
    <3> QED BY <3>1, <3>2, <3>4
  <2> HIDE DEF a, b, g, in1
  <2>4. /\ in1 \in Seq(W)
        /\ \A A : Has(in1, A) <=> Has(ft_in, A) \/ a \in A \/ g \in A \/ b \in A
        /\ \A A, B : /\ Never(ft_in, A, B) /\ (a \in B \/ g \in B \/ b \in B => ~ Has(ft_in, A))
                    /\ (a \in A => g \notin B /\ b \notin B) /\ (g \in A => b \notin B)
                    /\ (b \in A => a \notin B /\ g \notin B)
                    => Never(in1, A, B)
        /\ \A A, B : Follow(ft_in, A, B) \/ a \in B \/ g \in B \/ b \in B
                      => a \in A \/ g \in A \/ b \in A \/ Follow(in1, A, B)
    <3> HIDE DEF W
    <3>1. a \in W /\ g \in W /\ b \in W
      BY <2>2
    <3>2. \/ in1 = Append(Append(Append(ft_in, a), g), b)
          \/ in1 = Append(Append(Append(ft_in, b), a), g)
      BY <2>3
    <3> HIDE DEF W
    <3> DEFINE q == Append(Append(Append(ft_in, a), g), b)
               r == Append(Append(Append(ft_in, b), a), g)
    <3>3. /\ q \in Seq(W)
          /\ \A A : Has(q, A) <=> Has(ft_in, A) \/ a \in A \/ g \in A \/ b \in A
          /\ \A A, B : /\ Never(ft_in, A, B) /\ (a \in B \/ g \in B \/ b \in B => ~ Has(ft_in, A))
                      /\ (a \in A => g \notin B /\ b \notin B) /\ (g \in A => b \notin B)
                      => Never(q, A, B)
          /\ \A A, B : Follow(ft_in, A, B) \/ a \in B \/ g \in B \/ b \in B
                        => a \in A \/ g \in A \/ b \in A \/ Follow(q, A, B)
      BY <1>15, <3>1, QueueThree
    <3>4. /\ r \in Seq(W)
          /\ \A A : Has(r, A) <=> Has(ft_in, A) \/ b \in A \/ a \in A \/ g \in A
          /\ \A A, B : /\ Never(ft_in, A, B) /\ (b \in B \/ a \in B \/ g \in B => ~ Has(ft_in, A))
                      /\ (b \in A => a \notin B /\ g \notin B) /\ (a \in A => g \notin B)
                      => Never(r, A, B)
          /\ \A A, B : Follow(ft_in, A, B) \/ b \in B \/ a \in B \/ g \in B
                        => b \in A \/ a \in A \/ g \in A \/ Follow(r, A, B)
      BY <1>15, <3>1, QueueThree
    <3>5. in1 = q \/ in1 = r
      BY <3>2
    <3> HIDE DEF q, r
    <3> QED BY <3>3, <3>4, <3>5
  <2>5. in1 = ft_in'
    BY DEF in1
  <2>6. /\ a \notin FtAdded /\ a \in FtChanged /\ a \in FtFinal /\ a \notin FtSuspends
        /\ a \notin FtGone /\ a \notin FtAnswers /\ a \in FtAbout(cur)
        /\ a \notin FtRemoves(cur) /\ a \notin FtRemoved(cur)
        /\ \A op \in Ops : a \notin FtOk(op) /\ a \notin FtOp(op) /\ a \notin FtOpOf(op, cur)
    BY <1>15, <2>2, FtKinds DEF Ops, FtEnds
  <2>7. /\ g \notin FtAdded /\ g \notin FtChanged /\ g \notin FtFinal /\ g \notin FtSuspends
        /\ g \notin FtGone /\ g \notin FtAnswers /\ g \in FtAbout(cur)
        /\ g \in FtRemoves(cur) /\ g \notin FtRemoved(cur)
        /\ \A op \in Ops : g \notin FtOk(op) /\ g \notin FtOp(op) /\ g \notin FtOpOf(op, cur)
    BY <1>15, <2>2, FtKinds DEF Ops, FtEnds
  <2>8. /\ b \notin FtAdded /\ b \notin FtChanged /\ b \notin FtFinal /\ b \notin FtSuspends
        /\ b \notin FtGone /\ b \in FtAnswers /\ b \in FtAbout(cur)
        /\ b \notin FtRemoves(cur) /\ b \notin FtRemoved(cur)
        /\ \A op : b \in FtOk(op) <=> op = "Cancel"
        /\ \A op : b \in FtOp(op) <=> op = "Cancel"
        /\ \A op : b \in FtOpOf(op, cur) <=> op = "Cancel"
        /\ \A req : b \in FtCanceling(cur, req)
        /\ c \in FtOp("Cancel")
    <3>1. b \in FtMessage /\ c \in FtMessage
      BY <1>3, <1>15, <2>2
    <3>2. \A op : (b \in FtOk(op) <=> op = "Cancel") /\ (b \in FtOp(op) <=> op = "Cancel")
      BY <2>2, <3>1, FtKinds
    <3>3. \A op : b \in FtOpOf(op, cur) <=> op = "Cancel"
      BY <2>2, <3>1, FtKinds
    <3>4. (\A req : b \in FtCanceling(cur, req)) /\ c \in FtOp("Cancel")
      BY <2>1, <2>2, <3>1, FtKinds
    <3>5. /\ b \notin FtAdded /\ b \notin FtChanged /\ b \notin FtFinal /\ b \notin FtSuspends
          /\ b \notin FtGone /\ b \in FtAnswers /\ b \in FtAbout(cur)
          /\ b \notin FtRemoves(cur) /\ b \notin FtRemoved(cur)
      BY <2>2, <3>1, FtKinds DEF Ops
    <3> QED BY <3>2, <3>3, <3>4, <3>5
  <2>9. /\ \A u \in FtIds : u # cur => ft_xfer'[u] = ft_xfer[u]
        /\ ft_xfer'[cur] = "over" /\ ~ Going(cur)'
        /\ ft_xfer[cur] \in {"queued", "active", "suspended"}
        /\ ft_xfer' \in [FtIds -> {"none", "queued", "active", "suspended", "over"}]
    BY <2>1, <2>3 DEF FtTypes, Going
  <2>10. ftp_state = "canceling" /\ ft_path \in {0, cur} /\ ~ Has(ft_in, FtFinal) /\ ~ Has(ft_in, FtRemoves(cur))
    BY <1>1, <1>4, <2>8, <2>9 DEF FtStates, FtPath, FtOrder
  <2>11. FtTypes'
    BY <1>6, <2>9 DEF FtTypes
  <2>12. FtSessionInv'
    BY <1>6, <2>4, <2>5, <2>6, <2>7, <2>8 DEF FtSessionInv, FtProcess, FtSessions
  <2>13. FtTyped(cur)'
    BY <1>1, <1>2, <1>6, <2>1, <2>4, <2>5, <2>9 DEF FtTyped, W
  <2>14. FtOrder(cur)'
    BY <1>1, <1>2, <1>4, <1>5, <1>6, <2>1, <2>4, <2>5, <2>6, <2>7, <2>8, <2>9, <2>10 DEF FtOrder
  <2>15. FtPath(cur)'
    BY <1>1, <1>6, <2>1, <2>4, <2>5, <2>6, <2>7, <2>8, <2>9 DEF FtPath, FtProperty
  <2>16. FtOutcomes(cur)'
    BY <1>1, <1>5, <1>6, <2>1, <2>4, <2>5, <2>6, <2>7, <2>8, <2>9 DEF FtOutcomes, Ops
  <2>17. FtStates(cur)'
    BY <1>1, <1>4, <1>5, <1>6, <2>1, <2>4, <2>5, <2>6, <2>7, <2>8, <2>9, <2>10 DEF FtStates, Ops
  <2>18. FtTold(cur)'
    BY <1>1, <1>6, <1>16, <2>4, <2>5, <2>6, <2>7, <2>8, <2>9, <2>10 DEF FtTold
  <2> QED BY <2>11, <2>12, <2>13, <2>14, <2>15, <2>16, <2>17, <2>18
<1>11. Outcome(c) \in {"error", "active", "suspended", "over"}
  BY DEF Outcome
<1> QED BY <1>8, <1>9, <1>10, <1>11

\* Nothing is left of the transfers up to n that a new one could meet.
FtQuiet(n) ==
    /\ \A t \in FtIds : ft_xfer[t] # "none" <=> t <= n
    /\ \A t \in FtIds : t > n => ft_told[t] = "nothing"
    /\ \A t \in 1 .. n : ft_xfer[t] = "over" /\ ft_told[t] \in FtEnds
    /\ ft_in \in Seq(FtWaiting(n)) /\ ft_calls \in Seq(FtCallsOf(n)) /\ Len(ft_calls) <= 1
    /\ ~ Has(ft_in, FtAdded) /\ ~ Has(ft_in, FtChanged) /\ ~ Has(ft_in, FtOk("Resume"))
    /\ ~ Has(ft_in, FtOp("Cancel")) /\ ~ Has(ft_calls, FtOp("Cancel"))
    /\ Never(ft_in, FtAnswers, FtAnswers)
    /\ ft_calls # <<>> => ~ Has(ft_in, FtAnswers)
    /\ ftp_state \notin {"canceling", "canceled", "suspended"}

LEMMA FtQuietStart ==
    ASSUME FtCalm, FtTypes, FtSessionInv, NEW n \in 0 .. FtMax, FtQuiet(n),
           NEW t \in FtIds, NEW req \in {"get", "put"}, StartTransfer(t, req)
    PROVE  FtTypes' /\ FtSessionInv' /\ FtSome(t)'
<1> DEFINE W == FtWaiting(t)
           m == Said("added", t, "queued")
           one == Append(ft_in, m)
<1>1. t = n + 1 /\ n \in Nat
  <2>1. n \in Nat /\ t \in Nat /\ t <= FtMax /\ t >= 1 /\ FtMax \in Nat
    BY FtAssumption DEF FtIds
  <2>2. ft_xfer[t] = "none" /\ \A u \in 1 .. t - 1 : ft_xfer[u] # "none"
    BY DEF StartTransfer
  <2>3. ~(t <= n)
    BY <2>2 DEF FtQuiet
  <2>4. ASSUME t # n + 1 PROVE FALSE
    <3>1. n + 1 \in 1 .. t - 1 /\ n + 1 \in FtIds /\ ~(n + 1 <= n)
      BY <2>1, <2>3, <2>4 DEF FtIds
    <3> QED BY <2>2, <3>1 DEF FtQuiet
  <2> QED BY <2>1, <2>4
<1>2. /\ ft_xfer' = [ft_xfer EXCEPT ![t] = "queued"] /\ ft_in' = one /\ ft_path' = t /\ ftp_req' = req
      /\ UNCHANGED <<FtProcess, FtSessions, ftp_state, ft_calls, ft_told>>
  BY DEF StartTransfer, _parse_transfer_property
<1>3. m \in W /\ W \subseteq FtMessage /\ m.kind = "added" /\ m.id = t /\ m.val = "queued"
  BY FtWaits DEF W
<1>4. /\ 1 .. n \subseteq 1 .. t /\ t \in Nat /\ \A u \in 1 .. n : u # t
      /\ \A u \in FtIds : u <= t <=> u <= n \/ u = t
      /\ \A u \in FtIds : u > t => u > n
      /\ t - 1 = n /\ t > n /\ 1 .. n \subseteq FtIds
  BY <1>1, FtAssumption DEF FtIds
<1>5. /\ ft_in \in Seq(W)
      /\ \A i \in DOMAIN ft_in : ft_in[i] \notin FtAbout(t)
  <2>1. \A i \in DOMAIN ft_in : ft_in[i] \in FtWaiting(n) /\ ft_in[i] \in FtMessage
    BY DEF FtQuiet, FtWaiting
  <2>2. \A i \in DOMAIN ft_in : /\ ft_in[i] \notin FtAdded /\ ft_in[i] \notin FtChanged
                               /\ ft_in[i] \notin FtOk("Resume") /\ ft_in[i] \notin FtOp("Cancel")
    BY DEF FtQuiet, Has
  <2>3. ASSUME NEW i \in DOMAIN ft_in
        PROVE  ft_in[i] \in W /\ ft_in[i] \notin FtAbout(t)
    <3> DEFINE x == ft_in[i]
    <3>1. /\ x \in FtWaiting(n) /\ x \in FtMessage /\ x.kind \notin {"added", "changed", "Cancel"}
          /\ ~(x.kind = "Resume" /\ x.val = "ok")
      BY <2>1, <2>2 DEF FtAdded, FtChanged, FtOk, FtOp
    <3> HIDE DEF x
    <3>2. /\ x.kind = "gone" => x.id = 0
          /\ x.kind # "gone" => x.id \in 1 .. n
          /\ x.kind \in Ops => x.val \in {"ok", "error"}
      BY <3>1 DEF FtWaiting
    <3>3. x.id # t
      BY <1>1, <1>4, <3>2
    <3>4. x \in W
      BY <1>4, <3>1, <3>2 DEF FtWaiting
    <3> QED BY <3>3, <3>4 DEF FtAbout, x
  <2>4. ft_in \in Seq(FtWaiting(n))
    BY DEF FtQuiet
  <2> HIDE DEF W
  <2> QED BY <2>3, <2>4, QueueRetype
<1>6. ft_calls \in Seq(FtCallsOf(t))
  <2>1. ft_calls \in Seq(FtCallsOf(n)) /\ ~ Has(ft_calls, FtOp("Cancel"))
    BY DEF FtQuiet
  <2>2. ASSUME NEW i \in DOMAIN ft_calls PROVE ft_calls[i] \in FtCallsOf(t)
    <3>1. ft_calls[i] \in FtCallsOf(n) /\ ft_calls[i] \notin FtOp("Cancel")
      BY <2>1 DEF Has
    <3> QED BY <1>4, <3>1 DEF FtCallsOf, FtOp
  <2> QED BY <2>1, <2>2, QueueRetype
<1> HIDE DEF W, m
<1>7. /\ one \in Seq(W)
      /\ \A A : Has(one, A) <=> Has(ft_in, A) \/ m \in A
      /\ \A A, B : Never(ft_in, A, B) /\ (m \in B => ~ Has(ft_in, A)) => Never(one, A, B)
      /\ \A A, B : Follow(ft_in, A, B) \/ m \in B => m \in A \/ Follow(one, A, B)
  BY <1>3, <1>5, QueueAppend
<1> HIDE DEF one
<1>8. /\ m \in FtAdded /\ m \notin FtChanged /\ m \notin FtFinal /\ m \notin FtSuspends
      /\ m \notin FtGone /\ m \notin FtAnswers /\ m \in FtAbout(t)
      /\ m \notin FtRemoves(t) /\ m \notin FtRemoved(t)
      /\ \A op \in Ops : m \notin FtOk(op) /\ m \notin FtOp(op) /\ m \notin FtOpOf(op, t)
      /\ \A r : m \notin FtCanceling(t, r)
  BY <1>3, FtKinds DEF Ops, FtEnds
<1>9. /\ ~ Has(ft_in, FtAdded) /\ ~ Has(ft_in, FtChanged) /\ ~ Has(ft_in, FtFinal)
      /\ ~ Has(ft_in, FtSuspends) /\ ~ Has(ft_in, FtOk("Resume")) /\ ~ Has(ft_in, FtOk("Cancel"))
      /\ ~ Has(ft_in, FtOp("Cancel")) /\ ~ Has(ft_in, FtAbout(t)) /\ ~ Has(ft_in, FtRemoves(t))
  <2>1. /\ FtFinal \subseteq FtChanged /\ FtSuspends \subseteq FtChanged
        /\ FtOk("Cancel") \subseteq FtOp("Cancel") /\ FtRemoves(t) \subseteq FtAbout(t)
    BY DEF FtFinal, FtSuspends, FtOk, FtOp, FtRemoves, FtAbout
  <2> QED BY <1>5, <2>1 DEF FtQuiet, Has
<1>10. /\ \A u \in FtIds : u # t => ft_xfer'[u] = ft_xfer[u]
       /\ ft_xfer'[t] = "queued" /\ Going(t)'
       /\ ft_xfer' \in [FtIds -> {"none", "queued", "active", "suspended", "over"}]
  BY <1>2 DEF FtTypes, Going
<1>11. FtTypes'
  BY <1>2, <1>10 DEF FtTypes
<1>12. FtSessionInv'
  BY <1>2, <1>7, <1>8 DEF FtSessionInv, FtProcess, FtSessions
<1>13. FtTyped(t)'
  BY <1>2, <1>4, <1>6, <1>7, <1>10 DEF FtTyped, FtQuiet, W
<1>14. FtOrder(t)'
  <2>1. /\ \A A, B : ~ Has(ft_in, A) => Never(ft_in, A, B)
        /\ Never(ft_in, FtAnswers, FtAnswers)
        /\ ft_calls # <<>> => ~ Has(ft_in, FtAnswers)
    BY QueueNever DEF FtQuiet
  <2> QED BY <1>2, <1>7, <1>8, <1>9, <1>10, <2>1 DEF FtOrder
<1>15. FtPath(t)'
  BY <1>2, <1>7, <1>8, <1>10 DEF FtPath
<1>16. FtOutcomes(t)'
  BY <1>2, <1>7, <1>8, <1>9, <1>10 DEF FtOutcomes, Ops
<1>17. FtStates(t)'
  BY <1>2, <1>7, <1>8, <1>9, <1>10 DEF FtStates, FtQuiet, Ops
<1>18. FtTold(t)'
  <2>1. /\ \A u \in 1 .. n : ft_xfer[u] = "over" /\ ft_told[u] \in FtEnds
        /\ ft_told[t] = "nothing"
    BY <1>4 DEF FtQuiet
  <2> QED BY <1>2, <1>4, <1>10, <2>1 DEF FtTold, FtEnds
<1> QED BY <1>11, <1>12, <1>13, <1>14, <1>15, <1>16, <1>17, <1>18 DEF FtSome

LEMMA FtStartSteps ==
    ASSUME FtCalm, FtInv, NEW t \in FtIds, NEW req \in {"get", "put"}, StartTransfer(t, req)
    PROVE  FtInv'
<1>1. ASSUME NEW n \in 0 .. FtMax, FtQuiet(n) PROVE FtInv'
  BY <1>1, FtQuietStart DEF FtInv
<1>2. CASE FtNone
  <2>1. 0 \in 0 .. FtMax /\ 1 .. 0 = {} /\ \A u \in FtIds : u > 0 /\ ~(u <= 0)
    BY FtAssumption DEF FtIds
  <2>2. ft_in \in Seq(FtWaiting(0)) /\ \A i \in DOMAIN ft_in : ft_in[i] \in FtWaiting(0)
    BY <1>2 DEF FtNone
  <2>3. \A m \in FtWaiting(0) : m.kind = "gone"
    <3>1. \A m \in FtWaiting(0) : m.kind # "gone" => m.id \in 1 .. 0
      BY DEF FtWaiting
    <3> QED BY <2>1, <3>1
  <2>4. /\ ~ Has(ft_in, FtAdded) /\ ~ Has(ft_in, FtChanged) /\ ~ Has(ft_in, FtOk("Resume"))
        /\ ~ Has(ft_in, FtOp("Cancel")) /\ ~ Has(ft_in, FtAnswers)
    <3>1. \A m : /\ (m \in FtAdded => m.kind = "added")
                 /\ (m \in FtChanged => m.kind = "changed")
                 /\ (m \in FtOk("Resume") => m.kind = "Resume")
                 /\ (m \in FtOp("Cancel") => m.kind = "Cancel")
                 /\ (m \in FtAnswers => m.kind \in Ops)
      BY DEF FtAdded, FtChanged, FtOk, FtOp, FtAnswers
    <3> QED BY <2>2, <2>3, <3>1 DEF Has, Ops
  <2>5. FtQuiet(0)
    <3>1. ft_calls = <<>> /\ ft_calls \in Seq(FtCallsOf(0)) /\ Len(ft_calls) <= 1 /\ ~ Has(ft_calls, FtOp("Cancel"))
      BY <1>2, QueueEmpty DEF FtNone
    <3>2. Never(ft_in, FtAnswers, FtAnswers)
      BY <2>4, QueueNever
    <3> QED BY <1>2, <2>1, <2>2, <2>4, <3>1, <3>2 DEF FtNone, FtQuiet
  <2> QED BY <1>1, <2>1, <2>5
<1>3. ASSUME NEW cur \in FtIds, FtSome(cur) PROVE FtInv'
  <2>1. /\ FtTyped(cur) /\ FtOrder(cur) /\ FtPath(cur) /\ FtOutcomes(cur) /\ FtStates(cur) /\ FtTold(cur)
    BY <1>3 DEF FtSome
  <2>2. /\ ft_path = 0 /\ ftp_state \notin {"canceling", "canceled"} /\ ~ Going(cur)
        /\ ft_xfer[t] = "none" /\ \A u \in 1 .. t - 1 : ft_told[u] \in FtEnds
    BY DEF StartTransfer, FolderCallPasses, _check_status, FtCalm
  <2>3. cur \in 0 .. FtMax /\ cur \in Nat /\ cur # 0 /\ cur \in 1 .. t - 1 /\ cur <= cur
        /\ \A u \in 1 .. cur : u \in 1 .. cur - 1 \/ u = cur
    <3>1. ~(t <= cur)
      BY <2>1, <2>2 DEF FtTyped
    <3> QED BY <3>1, FtAssumption DEF FtIds
  <2>4. ft_xfer[cur] = "over" /\ ft_told[cur] \in FtEnds
    <3>1. ft_xfer[cur] # "none" /\ ft_xfer[cur] \in {"none", "queued", "active", "suspended", "over"}
      BY <2>1, <2>3 DEF FtTyped, FtInv, FtTypes
    <3> QED BY <2>2, <2>3, <3>1 DEF Going
  <2>5. ~ Has(ft_in, FtAdded)
    BY <2>1, <2>4 DEF FtTold
  <2>6. ~ Has(ft_in, FtFinal)
    BY <2>1, <2>2, <2>3, <2>5 DEF FtPath
  <2>7. ~ Has(ft_in, FtChanged)
    BY <2>1, <2>2, <2>6 DEF FtOrder
  <2>8. ~ Has(ft_in, FtOk("Resume"))
    BY <2>1, <2>2, <2>6, QueueFollow DEF FtOutcomes
  <2>9. ~ Has(ft_in, FtOp("Cancel")) /\ ~ Has(ft_calls, FtOp("Cancel"))
    BY <2>1, <2>2 DEF FtStates
  <2>10. ftp_state # "suspended"
    BY <2>1, <2>2, <2>6 DEF FtStates
  <2>11. FtQuiet(cur)
    BY <2>1, <2>2, <2>3, <2>4, <2>5, <2>7, <2>8, <2>9, <2>10 DEF FtQuiet, FtTyped, FtOrder, FtTold
  <2> QED BY <1>1, <2>3, <2>11
<1> QED BY <1>2, <1>3 DEF FtInv

\* What is said of transfers does not change when none of this does.
LEMMA FtSame ==
    ASSUME FtInv, UNCHANGED <<ftp_state, ftp_req, ft_path, ft_xfer, ft_calls, ft_in, ft_told>>, FtSessionInv'
    PROVE  FtInv'
<1>1. FtTypes'
  BY DEF FtInv, FtTypes
<1>2. FtNone => FtNone'
  BY DEF FtNone
<1>3. ASSUME NEW cur \in FtIds, FtSome(cur) PROVE FtSome(cur)'
  <2>1. FtTyped(cur)' /\ FtOrder(cur)'
    BY <1>3 DEF FtSome, FtTyped, FtOrder, Going
  <2>2. FtPath(cur)' /\ FtOutcomes(cur)'
    BY <1>3 DEF FtSome, FtPath, FtOutcomes, Going
  <2>3. FtStates(cur)' /\ FtTold(cur)'
    BY <1>3 DEF FtSome, FtStates, FtResumed, FtTold, Going
  <2> QED BY <2>1, <2>2, <2>3 DEF FtSome
<1> QED BY <1>1, <1>2, <1>3 DEF FtInv

LEMMA FtCreates ==
    ASSUME FtCalm, FtInv, NEW ok \in BOOLEAN, bt_ftp_create_session(ok)
    PROVE  FtInv'
<1>1. /\ ~ Waits("gone") /\ ft_session = 0 /\ obexd_start_stream = "null" /\ _call_exe
      /\ ft_sessions' = ft_sessions + 1
      /\ ft_session' = IF ok THEN ft_sessions + 1 ELSE ft_session
      /\ ft_open' = IF ok THEN ft_sessions + 1 ELSE ft_open
      /\ UNCHANGED <<ftp_state, ftp_req, FtProperty, ft_xfer, ft_calls, ft_in, ft_told>>
  BY DEF bt_ftp_create_session, FtCalm
<1>2. ~ Has(ft_in, FtGone)
  BY <1>1 DEF Waits, Has, FtGone
<1>3. FtSessionInv'
  <2>1. FtSessionInv
    BY DEF FtInv
  <2>2. ft_fault' = FALSE /\ obexd_running' = TRUE /\ obexed_is_used' = obexd_running
        /\ (~ obexd_running => obexd_start_stream' = "open")
    BY <1>1, <2>1 DEF _call_exe, FtSessionInv
  <2>3. ft_session' = ft_open'
    BY <1>1, <2>1 DEF FtSessionInv
  <2>4. ~ Has(ft_in', FtGone)
    BY <1>1, <1>2
  <2> QED BY <1>1, <2>1, <2>2, <2>3, <2>4 DEF FtSessionInv
<1> QED BY <1>1, <1>3, FtSame DEF FtProperty

\* A call about the transfer that is kept.
LEMMA FtCallsStep ==
    ASSUME FtCalm, FtTypes, FtSessionInv, NEW cur \in FtIds, FtSome(cur), CanCall,
           NEW op \in Ops, FtCall(op, ft_path),
           \/ /\ op = "Resume" /\ ftp_state' = "resuming" /\ UNCHANGED <<ft_status, ft_told>>
           \/ /\ op = "Suspend" /\ ftp_state' = "suspending" /\ UNCHANGED <<ft_status, ft_told>>
           \/ /\ op = "Cancel" \/ (op = "Resume" /\ ftp_req = "put")
              /\ ftp_state' = "canceling" /\ ft_told' = [ft_told EXCEPT ![ft_path] = "canceling"],
           UNCHANGED <<FtProcess, FtSessions, ftp_req, ft_path, ft_xfer, ft_in>>
    PROVE  FtTypes' /\ FtSessionInv' /\ FtSome(cur)'
<1> DEFINE c == Said(op, cur, "call")
<1>1. /\ FtTyped(cur) /\ FtOrder(cur) /\ FtPath(cur) /\ FtOutcomes(cur) /\ FtStates(cur) /\ FtTold(cur)
      /\ cur \in 1 .. cur /\ cur \in 0 .. FtMax
  BY FtAssumption DEF FtSome, FtIds
<1>2. ft_path = cur
  BY <1>1 DEF CanCall, FtPath
<1>3. ft_calls = <<>> /\ \A o \in Ops : ~ Waits(o)
  BY DEF CanCall, FtCalm
<1>4. ~ Has(ft_in, FtAnswers)
  BY <1>3 DEF Waits, Has, FtAnswers
<1>5. /\ c \in FtMessage /\ c.kind = op /\ c.id = cur /\ c.val = "call" /\ c \in FtCallsOf(cur)
  BY <1>1 DEF Said, FtMessage, FtVals, FtCallsOf
<1>6. /\ ft_calls' \in Seq(FtCallsOf(cur)) /\ Len(ft_calls') = 1
      /\ \A A : Has(ft_calls', A) <=> c \in A
  <2>1. ft_calls' = <<c>>
    BY <1>2, <1>3 DEF FtCall
  <2>2. <<c>> \in Seq(FtCallsOf(cur)) /\ Len(<<c>>) = 1 /\ DOMAIN <<c>> = {1} /\ <<c>>[1] = c
    BY <1>5
  <2>3. \A A : Has(<<c>>, A) <=> c \in A
    BY <2>2 DEF Has
  <2> QED BY <2>1, <2>2, <2>3
<1> HIDE DEF c
<1>7. /\ \A o : c \in FtOp(o) <=> o = op
      /\ \A r : c \in FtCanceling(cur, r) <=> op = "Cancel" \/ (op = "Resume" /\ r = "put")
  BY <1>5, FtKinds
<1>8. /\ \A o \in Ops : ~ Has(ft_in, FtOp(o)) /\ ~ Has(ft_in, FtOk(o)) /\ ~ Has(ft_in, FtOpOf(o, cur))
      /\ \A req : ~ Has(ft_in, FtCanceling(cur, req))
      /\ ~ FtResumed(cur)
  <2>1. \A o \in Ops : FtOp(o) \subseteq FtAnswers /\ FtOk(o) \subseteq FtAnswers /\ FtOpOf(o, cur) \subseteq FtAnswers
    BY DEF FtOp, FtOk, FtOpOf, FtAnswers
  <2>2. \A req : FtCanceling(cur, req) \subseteq FtAnswers
    BY DEF FtCanceling, FtAnswers, Ops
  <2>3. \A A : A \subseteq FtAnswers => ~ Has(ft_in, A)
    BY <1>4 DEF Has
  <2> QED BY <2>1, <2>2, <2>3 DEF FtResumed, Ops
<1>9. /\ ftp_state # "canceling" /\ ftp_state' \in {"resuming", "suspending", "canceling"}
      /\ ft_told' \in [FtIds -> {"nothing", "canceling"} \cup FtVals]
      /\ \A u \in FtIds : u # cur => ft_told'[u] = ft_told[u]
      /\ ft_told'[cur] = ft_told[cur] \/ (ft_told'[cur] = "canceling" /\ ftp_state' = "canceling")
  <2>1. ftp_state # "canceling"
    BY DEF CanCall, _check_status
  <2> QED BY <1>2, <2>1 DEF FtTypes
<1>10. \A u \in 1 .. cur - 1 : u \in FtIds /\ u # cur
  BY FtAssumption DEF FtIds
<1>11. FtTypes'
  BY <1>9 DEF FtTypes
<1>12. FtSessionInv'
  BY DEF FtSessionInv, FtProcess, FtSessions
<1>13. FtTyped(cur)'
  <2>1. \A u \in FtIds : u > cur => u # cur
    BY FtAssumption DEF FtIds
  <2> QED BY <1>1, <1>6, <1>9, <2>1 DEF FtTyped
<1>14. FtOrder(cur)'
  BY <1>1, <1>4 DEF FtOrder, Going
<1>15. FtPath(cur)' /\ FtOutcomes(cur)'
  BY <1>1 DEF FtPath, FtOutcomes, Going
<1>16. FtStates(cur)'
  <2>1. Has(ft_in, FtSuspends) => ft_xfer[cur] = "suspended"
    BY <1>1, <1>8, <1>9 DEF FtStates, Ops
  <2>2. ftp_state' = "canceling" => Has(ft_calls, FtCanceling(cur, ftp_req))'
    BY <1>6, <1>7
  <2>3. (Has(ft_in, FtOp("Cancel")) \/ Has(ft_calls, FtOp("Cancel")))' => ftp_state' = "canceling"
    BY <1>6, <1>7, <1>8 DEF Ops
  <2> QED BY <1>9, <2>1, <2>2, <2>3 DEF FtStates
<1>17. FtTold(cur)'
  BY <1>1, <1>9, <1>10 DEF FtTold, FtEnds
<1> QED BY <1>11, <1>12, <1>13, <1>14, <1>15, <1>16, <1>17 DEF FtSome

LEMMA FtCallSteps ==
    ASSUME FtCalm, FtInv,
           bt_ftp_resume_transfer \/ bt_ftp_suspend_transfer \/ bt_ftp_cancel_transfer
    PROVE  FtInv'
<1>1. ~ FtNone
  BY DEF FtNone, bt_ftp_resume_transfer, bt_ftp_suspend_transfer, bt_ftp_cancel_transfer, CanCall
<1>2. PICK cur \in FtIds : FtSome(cur)
  BY <1>1 DEF FtInv
<1>3. FtTypes /\ FtSessionInv
  BY DEF FtInv
<1>4. CASE bt_ftp_resume_transfer
  <2>1. "Resume" \in Ops
    BY DEF Ops
  <2>2. FtTypes' /\ FtSessionInv' /\ FtSome(cur)'
    BY <1>2, <1>3, <1>4, <2>1, FtCallsStep DEF bt_ftp_resume_transfer, FtProperty
  <2> QED BY <2>2 DEF FtInv
<1>5. CASE bt_ftp_suspend_transfer
  <2>1. "Suspend" \in Ops
    BY DEF Ops
  <2>2. FtTypes' /\ FtSessionInv' /\ FtSome(cur)'
    BY <1>2, <1>3, <1>5, <2>1, FtCallsStep DEF bt_ftp_suspend_transfer, FtProperty
  <2> QED BY <2>2 DEF FtInv
<1>6. CASE bt_ftp_cancel_transfer
  <2> DEFINE op == IF ftp_req = "put" /\ ftp_state = "suspended" THEN "Resume" ELSE "Cancel"
  <2>1. op \in Ops /\ (op = "Cancel" \/ (op = "Resume" /\ ftp_req = "put"))
    BY DEF Ops
  <2>2. /\ CanCall /\ FtCall(op, ft_path) /\ ftp_state' = "canceling"
        /\ ft_told' = [ft_told EXCEPT ![ft_path] = "canceling"]
        /\ UNCHANGED <<FtProcess, FtSessions, ftp_req, ft_path, ft_xfer, ft_in>>
    BY <1>6 DEF bt_ftp_cancel_transfer
  <2> HIDE DEF op
  <2>3. FtTypes' /\ FtSessionInv' /\ FtSome(cur)'
    BY <1>2, <1>3, <2>1, <2>2, FtCallsStep
  <2> QED BY <2>3 DEF FtInv
<1> QED BY <1>4, <1>5, <1>6

LEMMA FtRemovesSession ==
    ASSUME FtCalm, FtTypes, FtSessionInv, bt_ftp_remove_session, NEW cur \in FtIds, FtSome(cur)
    PROVE  FtTypes' /\ FtSessionInv' /\ FtSome(cur)'
<1> DEFINE W == FtWaiting(cur)
           a == Said("changed", cur, "error")
           g == Said("removed", cur, "error")
           e == Said("gone", 0, "null")
           c == Head(ft_calls)
           b == Said(c.kind, c.id, "error")
           killed == ~ obexed_is_used
           in1 == ft_in'
<1>1. /\ FtTyped(cur) /\ FtOrder(cur) /\ FtPath(cur) /\ FtOutcomes(cur) /\ FtStates(cur) /\ FtTold(cur)
  BY DEF FtSome
<1>2. /\ ft_in \in Seq(W) /\ W \subseteq FtMessage /\ cur \in 1 .. cur
      /\ ft_calls \in Seq(FtCallsOf(cur)) /\ Len(ft_calls) <= 1
  BY <1>1, FtWaits, FtAssumption DEF FtTyped, W, FtIds
<1>3. /\ a \in W /\ a.kind = "changed" /\ a.id = cur /\ a.val = "error"
      /\ g \in W /\ g.kind = "removed" /\ g.id = cur /\ g.val = "error"
      /\ e \in W /\ e.kind = "gone" /\ e.id = 0 /\ e.val = "null"
      /\ b.kind = c.kind /\ b.id = c.id /\ b.val = "error"
  BY <1>2, FtWaits DEF W, FtEnds
<1>4. ft_calls # <<>> =>
        /\ c \in FtCallsOf(cur) /\ ft_calls = <<c>> /\ c \in FtMessage /\ b \in W /\ c.kind \in Ops
        /\ \A A : Has(ft_calls, A) <=> c \in A
  <2> SUFFICES ASSUME ft_calls # <<>>
               PROVE  /\ c \in FtCallsOf(cur) /\ ft_calls = <<c>> /\ c \in FtMessage /\ b \in W /\ c.kind \in Ops
                      /\ \A A : Has(ft_calls, A) <=> c \in A
    OBVIOUS
  <2>1. c \in FtCallsOf(cur) /\ ft_calls = <<c>> /\ \A A : Has(ft_calls, A) <=> c \in A
    BY <1>2, QueueOfOne
  <2>2. c.kind \in Ops /\ c.id \in 1 .. cur /\ (c.kind = "Cancel" => c.id = cur) /\ c \in FtMessage
    BY <2>1 DEF FtCallsOf
  <2>3. b \in W
    BY <2>2, FtWaits DEF W
  <2> QED BY <2>1, <2>2, <2>3
<1>5. /\ \A t \in FtIds : t # cur => ~ Going(t)
      /\ \A u \in 1 .. cur - 1 : u \in FtIds /\ u # cur
  <2>1. \A t \in FtIds : t # cur => t \in 1 .. cur - 1 \/ ~(t <= cur)
    BY FtAssumption DEF FtIds
  <2>2. \A u \in 1 .. cur - 1 : u \in FtIds /\ u # cur
    BY FtAssumption DEF FtIds
  <2> QED BY <1>1, <2>1, <2>2 DEF FtTold, FtTyped, Going
<1>6. /\ ft_session # 0 /\ ft_xfer[cur] # "suspended" /\ _destroy_exe
      /\ ft_xfer' = [t \in FtIds |-> IF Going(t) THEN "over" ELSE ft_xfer[t]]
      /\ ft_calls' = IF killed THEN <<>> ELSE ft_calls
      /\ ft_session' = 0 /\ ft_open' = 0
      /\ UNCHANGED <<ft_sessions, ftp_state, ftp_req, FtProperty, ft_told>>
  BY DEF bt_ftp_remove_session, FtCalm
<1> DEFINE in2 == Append(IF Going(cur) THEN Append(Append(ft_in, a), g) ELSE ft_in, e)
<1>7. in1 = IF killed /\ ft_calls # <<>> THEN Append(in2, b) ELSE in2
  <2> DEFINE going == SetToSeq({t \in FtIds : Going(t)})
             ends == FlattenSeq([i \in DOMAIN going |-> EndOf(going[i], "error")])
             answers == IF killed THEN Answers(ft_calls, "error") ELSE <<>>
             in3 == IF Going(cur) THEN Append(Append(ft_in, a), g) ELSE ft_in
  <2>1. in1 = ft_in \o ends \o <<e>> \o answers
    BY DEF bt_ftp_remove_session
  <2>2. ft_in \o ends = in3
    <3>1. CASE Going(cur)
      <4>1. {t \in FtIds : Going(t)} = {cur}
        BY <1>5, <3>1
      <4>2. going = <<cur>>
        BY <4>1, SeqOfOne
      <4>3. [i \in DOMAIN <<cur>> |-> EndOf(<<cur>>[i], "error")] = <<EndOf(cur, "error")>>
        OBVIOUS
      <4>4. EndOf(cur, "error") = <<a, g>> /\ <<a, g>> \in Seq(W)
        BY <1>3 DEF EndOf
      <4>5. ends = <<a, g>>
        BY <4>2, <4>3, <4>4, FlattenOne
      <4> HIDE DEF W, ends
      <4>6. ft_in \o <<a, g>> = Append(Append(ft_in, a), g)
        BY <1>2, <1>3, QueueConcat
      <4> QED BY <3>1, <4>5, <4>6
    <3>2. CASE ~ Going(cur)
      <4>1. {t \in FtIds : Going(t)} = {}
        BY <1>5, <3>2
      <4>2. going = <<>>
        BY <4>1, SeqOfNone
      <4>3. [i \in DOMAIN <<>> |-> EndOf(<<>>[i], "error")] = <<>>
        OBVIOUS
      <4>4. ends = <<>>
        BY <4>2, <4>3, FlattenNone
      <4> HIDE DEF ends
      <4> QED BY <1>2, <1>3, <3>2, <4>4, QueueConcat
    <3> QED BY <3>1, <3>2
  <2>3. in3 \in Seq(W)
    <3> HIDE DEF W, a, g
    <3> QED BY <1>2, <1>3
  <2>4. in3 \o <<e>> = in2 /\ in2 \in Seq(W)
    <3> HIDE DEF W, e, in3
    <3>1. in3 \o <<e>> = Append(in3, e) /\ Append(in3, e) \in Seq(W)
      BY <1>3, <2>3, QueueConcat
    <3> QED BY <3>1 DEF in3
  <2>5. answers = IF killed /\ ft_calls # <<>> THEN <<b>> ELSE <<>>
    <3>1. ft_calls # <<>> => Answers(ft_calls, "error") = <<b>>
      <4>1. Answers(<<c>>, "error") = <<b>>
        BY DEF Answers
      <4> QED BY <1>4, <4>1
    <3>2. Answers(<<>>, "error") = <<>>
      BY DEF Answers
    <3> QED BY <3>1, <3>2
  <2> HIDE DEF ends, answers, in3, in2, W, b, e, in1
  <2>6. in1 = in2 \o answers
    BY <2>1, <2>2, <2>4
  <2>7. b \in W => in2 \o <<b>> = Append(in2, b)
    BY <2>4, QueueConcat
  <2>8. in2 \o <<>> = in2
    BY <1>3, <2>4, QueueConcat
  <2> QED BY <1>4, <2>5, <2>6, <2>7, <2>8
<1> HIDE DEF W, a, g, e, b, c
<1> DEFINE G == Going(cur)
           K == killed /\ ft_calls # <<>>
           in3 == IF G THEN Append(Append(ft_in, a), g) ELSE ft_in
<1>8. /\ in3 \in Seq(W)
      /\ \A A : Has(in3, A) <=> Has(ft_in, A) \/ (G /\ (a \in A \/ g \in A))
      /\ \A A, B : /\ Never(ft_in, A, B)
                  /\ (G => (a \in B \/ g \in B => ~ Has(ft_in, A)) /\ (a \in A => g \notin B))
                  => Never(in3, A, B)
      /\ \A A, B : Follow(ft_in, A, B) \/ (G /\ (a \in B \/ g \in B))
                    => (G /\ (a \in A \/ g \in A)) \/ Follow(in3, A, B)
  <2>1. CASE ~ G
    BY <1>2, <2>1
  <2>2. CASE G
    <3> DEFINE one == Append(ft_in, a)
               two == Append(one, g)
    <3>1. /\ one \in Seq(W)
          /\ \A A : Has(one, A) <=> Has(ft_in, A) \/ a \in A
          /\ \A A, B : Never(ft_in, A, B) /\ (a \in B => ~ Has(ft_in, A)) => Never(one, A, B)
          /\ \A A, B : Follow(ft_in, A, B) \/ a \in B => a \in A \/ Follow(one, A, B)
      BY <1>2, <1>3, QueueAppend
    <3>2. in3 = two
      BY <2>2
    <3> HIDE DEF one, in3
    <3>3. /\ two \in Seq(W)
          /\ \A A : Has(two, A) <=> Has(one, A) \/ g \in A
          /\ \A A, B : Never(one, A, B) /\ (g \in B => ~ Has(one, A)) => Never(two, A, B)
          /\ \A A, B : Follow(one, A, B) \/ g \in B => g \in A \/ Follow(two, A, B)
      BY <1>3, <3>1, QueueAppend
    <3> HIDE DEF two
    <3> QED BY <2>2, <3>1, <3>2, <3>3
  <2> QED BY <2>1, <2>2
<1> HIDE DEF in3
<1>9. /\ in2 \in Seq(W)
      /\ \A A : Has(in2, A) <=> Has(in3, A) \/ e \in A
      /\ \A A, B : Never(in3, A, B) /\ (e \in B => ~ Has(in3, A)) => Never(in2, A, B)
      /\ \A A, B : Follow(in3, A, B) \/ e \in B => e \in A \/ Follow(in2, A, B)
  <2>1. in2 = Append(in3, e)
    BY DEF in3
  <2> HIDE DEF in2
  <2> QED BY <1>3, <1>8, <2>1, QueueAppend
<1> HIDE DEF in2
<1>10. /\ in1 \in Seq(W)
       /\ \A A : Has(in1, A) <=> Has(in2, A) \/ (K /\ b \in A)
       /\ \A A, B : Never(in2, A, B) /\ (K /\ b \in B => ~ Has(in2, A)) => Never(in1, A, B)
       /\ \A A, B : Follow(in2, A, B) \/ (K /\ b \in B) => (K /\ b \in A) \/ Follow(in1, A, B)
  <2>1. CASE ~ K
    <3>1. in1 = in2
      BY <1>7, <2>1
    <3> HIDE DEF in1, K
    <3> QED BY <1>9, <2>1, <3>1
  <2>2. CASE K
    <3>1. in1 = Append(in2, b) /\ b \in W
      BY <1>4, <1>7, <2>2
    <3> HIDE DEF in1, K
    <3> QED BY <1>9, <2>2, <3>1, QueueAppend
  <2> QED BY <2>1, <2>2
<1>11. in1 = ft_in'
  OBVIOUS
<1> HIDE DEF in1
<1>12. /\ a \notin FtAdded /\ a \in FtChanged /\ a \in FtFinal /\ a \notin FtSuspends
       /\ a \notin FtGone /\ a \notin FtAnswers /\ a \in FtAbout(cur)
       /\ a \notin FtRemoves(cur) /\ a \notin FtRemoved(cur)
       /\ \A op \in Ops : a \notin FtOk(op) /\ a \notin FtOp(op) /\ a \notin FtOpOf(op, cur)
       /\ \A req : a \notin FtCanceling(cur, req)
  BY <1>2, <1>3, FtKinds DEF Ops, FtEnds
<1>13. /\ g \notin FtAdded /\ g \notin FtChanged /\ g \notin FtFinal /\ g \notin FtSuspends
       /\ g \notin FtGone /\ g \notin FtAnswers /\ g \in FtAbout(cur)
       /\ g \in FtRemoves(cur) /\ g \notin FtRemoved(cur)
       /\ \A op \in Ops : g \notin FtOk(op) /\ g \notin FtOp(op) /\ g \notin FtOpOf(op, cur)
       /\ \A req : g \notin FtCanceling(cur, req)
  BY <1>2, <1>3, FtKinds DEF Ops, FtEnds
<1>14. /\ e \notin FtAdded /\ e \notin FtChanged /\ e \notin FtFinal /\ e \notin FtSuspends
       /\ e \in FtGone /\ e \notin FtAnswers
       /\ e \notin FtRemoves(cur) /\ e \notin FtRemoved(cur)
       /\ \A op \in Ops : e \notin FtOk(op) /\ e \notin FtOp(op) /\ e \notin FtOpOf(op, cur)
       /\ \A req : e \notin FtCanceling(cur, req)
  BY <1>2, <1>3, FtKinds DEF Ops, FtEnds
<1>15. K => /\ b \notin FtAdded /\ b \notin FtChanged /\ b \notin FtFinal /\ b \notin FtSuspends
            /\ b \notin FtGone /\ b \in FtAnswers /\ b \notin FtRemoves(cur) /\ b \notin FtRemoved(cur)
            /\ \A op : b \notin FtOk(op)
            /\ \A op : b \in FtOp(op) <=> c \in FtOp(op)
            /\ \A req : b \in FtCanceling(cur, req) <=> c \in FtCanceling(cur, req)
  <2> SUFFICES ASSUME K
               PROVE  /\ b \notin FtAdded /\ b \notin FtChanged /\ b \notin FtFinal /\ b \notin FtSuspends
                      /\ b \notin FtGone /\ b \in FtAnswers /\ b \notin FtRemoves(cur) /\ b \notin FtRemoved(cur)
                      /\ \A op : b \notin FtOk(op)
                      /\ \A op : b \in FtOp(op) <=> c \in FtOp(op)
                      /\ \A req : b \in FtCanceling(cur, req) <=> c \in FtCanceling(cur, req)
    OBVIOUS
  <2>1. /\ b \in FtMessage /\ c \in FtMessage /\ c.kind \in Ops
        /\ c.kind \notin {"added", "changed", "gone", "removed"}
        /\ b.kind = c.kind /\ b.id = c.id /\ b.val = "error"
    BY <1>2, <1>3, <1>4 DEF Ops
  <2>2. /\ b \notin FtAdded /\ b \notin FtChanged /\ b \notin FtFinal /\ b \notin FtSuspends
        /\ b \notin FtGone /\ b \in FtAnswers /\ b \notin FtRemoves(cur) /\ b \notin FtRemoved(cur)
    BY <1>3, <2>1, FtKinds
  <2>3. \A op : b \notin FtOk(op) /\ (b \in FtOp(op) <=> b.kind = op) /\ (c \in FtOp(op) <=> c.kind = op)
    BY <2>1, FtKinds
  <2>4. \A req : b \in FtCanceling(cur, req) <=> c \in FtCanceling(cur, req)
    <3>1. \A req : b \in FtCanceling(cur, req) <=>
                     b.id = cur /\ (b.kind = "Cancel" \/ (b.kind = "Resume" /\ req = "put"))
      BY <2>1, FtKinds
    <3>2. \A req : c \in FtCanceling(cur, req) <=>
                     c.id = cur /\ (c.kind = "Cancel" \/ (c.kind = "Resume" /\ req = "put"))
      BY <2>1, FtKinds
    <3> QED BY <2>1, <3>1, <3>2
  <2> QED BY <2>1, <2>2, <2>3, <2>4
<1>16. /\ K => ~ Has(ft_in, FtAnswers)
       /\ G => ~ Has(ft_in, FtFinal) /\ ~ Has(ft_in, FtRemoves(cur))
       /\ \A u \in FtIds : u # cur => ft_xfer'[u] = ft_xfer[u]
       /\ ft_xfer'[cur] = "over" /\ ~ Going(cur)' /\ (G <=> ft_xfer[cur] # "over")
       /\ ft_xfer' \in [FtIds -> {"none", "queued", "active", "suspended", "over"}]
  <2>1. ft_xfer[cur] # "none" /\ ft_xfer[cur] \in {"none", "queued", "active", "suspended", "over"}
    <3>1. cur <= cur
      BY FtAssumption DEF FtIds
    <3> QED BY <1>1, <3>1 DEF FtTyped, FtTypes
  <2>2. G <=> ft_xfer[cur] # "over"
    BY <2>1 DEF Going
  <2>3. /\ \A u \in FtIds : u # cur => ft_xfer'[u] = ft_xfer[u]
        /\ ft_xfer'[cur] = "over"
    BY <1>5, <1>6, <2>2
  <2>4. ft_xfer' \in [FtIds -> {"none", "queued", "active", "suspended", "over"}]
    BY <1>6 DEF FtTypes
  <2>5. K => ~ Has(ft_in, FtAnswers)
    BY <1>1 DEF FtOrder
  <2>6. G => ~ Has(ft_in, FtFinal) /\ ~ Has(ft_in, FtRemoves(cur))
    BY <1>1, <2>2 DEF FtOrder
  <2> QED BY <2>2, <2>3, <2>4, <2>5, <2>6 DEF Going
<1>17. /\ ft_calls' # <<>> => ft_calls' = ft_calls /\ ~ K
       /\ ft_calls' \in Seq(FtCallsOf(cur)) /\ Len(ft_calls') <= 1
       /\ ft_calls # <<>> => K \/ ft_calls' = ft_calls
       /\ \A A : Has(ft_calls', A) => Has(ft_calls, A)
       /\ \A A : Has(ft_calls, A) => Has(ft_calls', A) \/ (K /\ c \in A)
  <2>1. /\ Len(<<>>) = 0 /\ <<>> \in Seq(FtCallsOf(cur)) /\ \A A : ~ Has(<<>>, A)
    BY QueueEmpty
  <2> QED BY <1>2, <1>4, <1>6, <2>1
<1> HIDE DEF killed, K, G
<1>18. FtTypes'
  BY <1>6, <1>16 DEF FtTypes
<1>19. FtSessionInv'
  BY <1>6 DEF _destroy_exe, FtSessionInv, FtProcess
<1>20. FtTyped(cur)'
  BY <1>1, <1>6, <1>10, <1>11, <1>16, <1>17 DEF FtTyped, W
<1>21. FtOrder(cur)'
  <2>1. Never(ft_in, FtAbout(cur), FtAdded) /\ Never(in3, FtAbout(cur), FtAdded)
    BY <1>1, <1>8, <1>12, <1>13 DEF FtOrder
  <2>2. Never(in2, FtAbout(cur), FtAdded) /\ Never(in1, FtAbout(cur), FtAdded)
    BY <1>9, <1>10, <1>14, <1>15, <2>1
  <2>3. Never(in1, FtRemoves(cur), FtChanged)
    BY <1>1, <1>8, <1>9, <1>10, <1>12, <1>13, <1>14, <1>15, <1>16 DEF FtOrder
  <2>4. Never(in1, FtFinal, FtChanged)
    BY <1>1, <1>8, <1>9, <1>10, <1>12, <1>13, <1>14, <1>15, <1>16 DEF FtOrder
  <2>5. Never(in1, FtAnswers, FtAnswers)
    BY <1>1, <1>8, <1>9, <1>10, <1>12, <1>13, <1>14, <1>15, <1>16 DEF FtOrder
  <2>6. Follow(in1, FtRemoved(cur), FtAdded)
    BY <1>1, <1>8, <1>9, <1>10, <1>12, <1>13, <1>14, <1>15, <1>16 DEF FtOrder
  <2>7. ft_calls' # <<>> => ~ Has(in1, FtAnswers)
    BY <1>1, <1>8, <1>9, <1>10, <1>12, <1>13, <1>14, <1>15, <1>16, <1>17 DEF FtOrder
  <2>8. Has(in1, FtChanged) \/ Has(in1, FtAdded) => Has(in1, FtFinal)
    <3>1. Has(ft_in, FtChanged) \/ Has(ft_in, FtAdded) => G \/ Has(ft_in, FtFinal)
      BY <1>1 DEF FtOrder, G
    <3> QED BY <1>8, <1>9, <1>10, <1>12, <1>13, <1>14, <1>15, <3>1
  <2> QED BY <1>11, <1>16, <2>2, <2>3, <2>4, <2>5, <2>6, <2>7, <2>8 DEF FtOrder
<1>22. FtPath(cur)'
  BY <1>1, <1>6, <1>8, <1>9, <1>10, <1>11, <1>12, <1>13, <1>14, <1>15, <1>16 DEF FtPath, FtProperty, G
<1>23. FtOutcomes(cur)'
  BY <1>1, <1>6, <1>8, <1>9, <1>10, <1>11, <1>12, <1>13, <1>14, <1>15, <1>16 DEF FtOutcomes, Ops, G
<1>24. FtStates(cur)'
  <2>1. ftp_state = "canceling" => Has(ft_calls', FtCanceling(cur, ftp_req)) \/ Has(in1, FtCanceling(cur, ftp_req))
    BY <1>1, <1>8, <1>9, <1>10, <1>15, <1>17 DEF FtStates
  <2>2. Has(in1, FtOp("Cancel")) \/ Has(ft_calls', FtOp("Cancel")) => ftp_state = "canceling"
    <3>1. Has(in1, FtOp("Cancel")) \/ Has(ft_calls', FtOp("Cancel")) =>
             Has(ft_in, FtOp("Cancel")) \/ Has(ft_calls, FtOp("Cancel"))
      BY <1>4, <1>8, <1>9, <1>10, <1>12, <1>13, <1>14, <1>15, <1>17 DEF Ops, K
    <3> QED BY <1>1, <3>1 DEF FtStates
  <2>3. FtResumed(cur) => ~ K /\ Has(in1, FtOpOf("Resume", cur)) /\ Never(in1, FtFinal, FtOpOf("Resume", cur))
    <3>1. FtOpOf("Resume", cur) \subseteq FtAnswers
      BY DEF FtOpOf, FtOp, FtAnswers, Ops
    <3>2. FtResumed(cur) => ~ K
      BY <1>16, <3>1 DEF FtResumed, Has
    <3> QED BY <1>8, <1>9, <1>10, <1>12, <1>13, <1>14, <3>2 DEF FtResumed, Ops
  <2>4. Has(in1, FtSuspends) => Has(ft_in, FtSuspends)
    BY <1>8, <1>9, <1>10, <1>12, <1>13, <1>14, <1>15
  <2>5. \A B : Follow(ft_in, FtSuspends, B) => Follow(in1, FtSuspends, B)
    BY <1>8, <1>9, <1>10, <1>12, <1>13, <1>14, <1>15
  <2>6. ftp_state = "suspended" => FtResumed(cur) /\ Has(in1, FtFinal)
    BY <1>1, <1>6, <1>8, <1>9, <1>10, <1>12 DEF FtStates, G
  <2>7. Has(in1, FtSuspends) =>
          \/ FtResumed(cur) /\ Follow(in1, FtSuspends, FtOpOf("Resume", cur))
          \/ ftp_state = "canceling" /\ Follow(in1, FtSuspends, FtOp("Cancel"))
    BY <1>1, <1>6, <2>4, <2>5 DEF FtStates
  <2>8. ftp_state = "canceled" => ft_told[cur] \in FtEnds
    BY <1>1 DEF FtStates
  <2>9. FtResumed(cur) => FtResumed(cur)'
    BY <1>11, <2>3 DEF FtResumed
  <2> QED BY <1>6, <1>11, <1>16, <2>1, <2>2, <2>6, <2>7, <2>8, <2>9 DEF FtStates
<1>25. FtTold(cur)'
  BY <1>1, <1>5, <1>6, <1>8, <1>9, <1>10, <1>11, <1>12, <1>13, <1>14, <1>15, <1>16 DEF FtTold
<1> QED BY <1>18, <1>19, <1>20, <1>21, <1>22, <1>23, <1>24, <1>25 DEF FtSome

LEMMA FtRemoveSteps == ASSUME FtCalm, FtInv, bt_ftp_remove_session PROVE FtInv'
<1>1. ASSUME NEW cur \in FtIds, FtSome(cur) PROVE FtInv'
  BY <1>1, FtRemovesSession DEF FtInv
<1>2. CASE FtNone
  <2> DEFINE e == Said("gone", 0, "null")
             W == FtWaiting(0)
  <2>1. e \in W
    BY FtAssumption DEF Said, FtWaiting, FtMessage, FtVals, Ops
  <2>2. {t \in FtIds : Going(t)} = {}
    BY <1>2 DEF FtNone, Going
  <2>3. ft_in' = ft_in \o <<>> \o <<e>> \o <<>> /\ ft_calls' = <<>>
    <3>1. SetToSeq({t \in FtIds : Going(t)}) = <<>>
      BY <2>2, SeqOfNone
    <3>2. [i \in DOMAIN <<>> |-> EndOf(<<>>[i], "error")] = <<>>
      OBVIOUS
    <3>3. Answers(<<>>, "error") = <<>>
      BY DEF Answers
    <3> QED BY <1>2, <3>1, <3>2, <3>3, FlattenNone DEF bt_ftp_remove_session, FtNone
  <2>4. ft_in \in Seq(W)
    BY <1>2 DEF FtNone
  <2> HIDE DEF W, e
  <2>5. ft_in' \in Seq(W)
    BY <2>1, <2>3, <2>4
  <2>6. /\ ft_xfer' = [t \in FtIds |-> IF Going(t) THEN "over" ELSE ft_xfer[t]]
        /\ _destroy_exe /\ ft_session # 0 /\ ft_session' = 0 /\ ft_open' = 0
        /\ UNCHANGED <<ft_sessions, ftp_state, ftp_req, FtProperty, ft_told>>
    BY DEF bt_ftp_remove_session
  <2>7. ft_xfer' = ft_xfer
    BY <2>2, <2>6 DEF FtInv, FtTypes
  <2>8. FtNone'
    BY <1>2, <2>3, <2>5, <2>6, <2>7 DEF FtNone, W, FtProperty
  <2>9. FtTypes' /\ FtSessionInv'
    BY <2>6, <2>7 DEF FtInv, FtTypes, FtSessionInv, _destroy_exe, FtProcess
  <2> QED BY <2>8, <2>9 DEF FtInv
<1> QED BY <1>1, <1>2 DEF FtInv

\* What is known of the first message that waits, and of those behind it.
FtBehind(cur, m, rest) ==
    /\ m \in FtWaiting(cur) /\ m \in FtMessage /\ rest \in Seq(FtWaiting(cur))
    /\ \A A : Has(ft_in, A) <=> m \in A \/ Has(rest, A)
    /\ \A A, B : Never(ft_in, A, B) => Never(rest, A, B) /\ (m \in A => ~ Has(rest, B))
    /\ \A A, B : Follow(ft_in, A, B) => Follow(rest, A, B) /\ (m \in A => Has(rest, B))
    /\ \A A, B : Follow(rest, A, B) /\ Has(rest, A) => Has(rest, B)
    /\ \A op \in Ops : Has(rest, FtOp(op)) \/ Has(rest, FtOk(op)) \/ Has(rest, FtOpOf(op, cur))
                         => Has(rest, FtAnswers)
    /\ \A req : Has(rest, FtCanceling(cur, req)) => Has(rest, FtAnswers)
    /\ Has(rest, FtFinal) \/ Has(rest, FtSuspends) => Has(rest, FtChanged)

FtKind(cur, m) ==
    /\ \A op \in Ops : (m \in FtOk(op) <=> m.kind = op /\ m.val = "ok") /\ (m \in FtOp(op) <=> m.kind = op)
    /\ \A op \in Ops : m \in FtOpOf(op, cur) <=> m.kind = op /\ m.id = cur
    /\ \A req : m \in FtCanceling(cur, req) <=>
                    m.id = cur /\ (m.kind = "Cancel" \/ (m.kind = "Resume" /\ req = "put"))
    /\ m \in FtAdded <=> m.kind = "added"
    /\ m \in FtChanged <=> m.kind = "changed"
    /\ m \in FtFinal <=> m.kind = "changed" /\ m.val \in FtEnds
    /\ m \in FtSuspends <=> m.kind = "changed" /\ m.val = "suspended"
    /\ m \in FtGone <=> m.kind = "gone"
    /\ m \in FtAnswers <=> m.kind \in Ops
    /\ m \in FtAbout(cur) <=> m.id = cur
    /\ m \in FtRemoves(cur) <=> m.kind = "removed" /\ m.id = cur
    /\ m \in FtRemoved(cur) <=> m.kind = "removed" /\ m.id # cur

FtFirst(cur) ==
    /\ FtTyped(cur) /\ FtOrder(cur) /\ FtPath(cur) /\ FtOutcomes(cur) /\ FtStates(cur) /\ FtTold(cur)
    /\ FtBehind(cur, Head(ft_in), ft_in') /\ FtKind(cur, Head(ft_in))
    /\ cur \in FtIds /\ 1 .. cur \subseteq FtIds /\ \A u \in 1 .. cur - 1 : u \in 1 .. cur /\ u # cur

LEMMA FtFirstIs ==
    ASSUME NEW cur \in FtIds, FtSome(cur), ft_in # <<>>, ft_in' = Tail(ft_in)
    PROVE  FtFirst(cur)
<1> DEFINE W == FtWaiting(cur)
           m == Head(ft_in)
           q == Tail(ft_in)
<1>1. /\ FtTyped(cur) /\ FtOrder(cur) /\ FtPath(cur) /\ FtOutcomes(cur) /\ FtStates(cur) /\ FtTold(cur)
      /\ ft_in \in Seq(W) /\ W \subseteq FtMessage
  BY FtWaits DEF FtSome, FtTyped, W
<1>2. /\ 1 .. cur \subseteq FtIds /\ \A u \in 1 .. cur - 1 : u \in 1 .. cur /\ u # cur
  BY FtAssumption DEF FtIds
<1> HIDE DEF W
<1>3. /\ q \in Seq(W) /\ m \in W
      /\ \A A : Has(ft_in, A) <=> m \in A \/ Has(q, A)
      /\ \A A, B : Never(ft_in, A, B) => Never(q, A, B) /\ (m \in A => ~ Has(q, B))
      /\ \A A, B : Follow(ft_in, A, B) => Follow(q, A, B) /\ (m \in A => Has(q, B))
  BY <1>1, QueueTail
<1> HIDE DEF m, q
<1>4. m \in FtMessage
  BY <1>1, <1>3
<1>5. /\ \A op : m \in FtOk(op) <=> m.kind = op /\ m.val = "ok"
      /\ \A op : m \in FtOp(op) <=> m.kind = op
      /\ \A op : m \in FtOpOf(op, cur) <=> m.kind = op /\ m.id = cur
  <2>1. \A op : (m \in FtOk(op) <=> m.kind = op /\ m.val = "ok") /\ (m \in FtOp(op) <=> m.kind = op)
    BY <1>4, FtKinds
  <2>2. \A op : m \in FtOpOf(op, cur) <=> m.kind = op /\ m.id = cur
    BY <1>4, FtKinds
  <2> QED BY <2>1, <2>2
<1>6. \A req : m \in FtCanceling(cur, req) <=>
                m.id = cur /\ (m.kind = "Cancel" \/ (m.kind = "Resume" /\ req = "put"))
  BY <1>4, FtKinds
<1>7. /\ m \in FtAdded <=> m.kind = "added"
      /\ m \in FtChanged <=> m.kind = "changed"
      /\ m \in FtFinal <=> m.kind = "changed" /\ m.val \in FtEnds
      /\ m \in FtSuspends <=> m.kind = "changed" /\ m.val = "suspended"
      /\ m \in FtGone <=> m.kind = "gone"
      /\ m \in FtAnswers <=> m.kind \in Ops
      /\ m \in FtAbout(cur) <=> m.id = cur
      /\ m \in FtRemoves(cur) <=> m.kind = "removed" /\ m.id = cur
      /\ m \in FtRemoved(cur) <=> m.kind = "removed" /\ m.id # cur
  <2>1. /\ m \in FtAdded <=> m.kind = "added"
        /\ m \in FtChanged <=> m.kind = "changed"
        /\ m \in FtFinal <=> m.kind = "changed" /\ m.val \in FtEnds
    BY <1>4, FtKinds
  <2>2. /\ m \in FtSuspends <=> m.kind = "changed" /\ m.val = "suspended"
        /\ m \in FtGone <=> m.kind = "gone"
        /\ m \in FtAnswers <=> m.kind \in Ops
    BY <1>4, FtKinds
  <2>3. /\ m \in FtAbout(cur) <=> m.id = cur
        /\ m \in FtRemoves(cur) <=> m.kind = "removed" /\ m.id = cur
        /\ m \in FtRemoved(cur) <=> m.kind = "removed" /\ m.id # cur
    BY <1>4, FtKinds
  <2> QED BY <2>1, <2>2, <2>3
<1>8. \A A, B : A \subseteq B /\ Has(q, A) => Has(q, B)
  BY DEF Has
<1>9. /\ \A op \in Ops : Has(q, FtOp(op)) \/ Has(q, FtOk(op)) \/ Has(q, FtOpOf(op, cur)) => Has(q, FtAnswers)
      /\ \A req : Has(q, FtCanceling(cur, req)) => Has(q, FtAnswers)
      /\ Has(q, FtFinal) \/ Has(q, FtSuspends) => Has(q, FtChanged)
  <2>1. /\ \A op \in Ops : FtOp(op) \subseteq FtAnswers /\ FtOk(op) \subseteq FtAnswers /\ FtOpOf(op, cur) \subseteq FtAnswers
        /\ \A req : FtCanceling(cur, req) \subseteq FtAnswers
        /\ FtFinal \subseteq FtChanged /\ FtSuspends \subseteq FtChanged
    BY DEF FtOp, FtOk, FtOpOf, FtAnswers, FtCanceling, FtFinal, FtSuspends, Ops
  <2> QED BY <1>8, <2>1
<1>10. \A A, B : Follow(q, A, B) /\ Has(q, A) => Has(q, B)
  BY QueueFollow
<1>11. ft_in' = q
  BY DEF q
<1>12. FtBehind(cur, m, q)
  BY <1>3, <1>4, <1>9, <1>10 DEF FtBehind, W
<1>13. FtKind(cur, m)
  BY <1>5, <1>6, <1>7 DEF FtKind
<1>14. m = Head(ft_in)
  BY DEF m
<1> QED BY <1>1, <1>2, <1>11, <1>12, <1>13, <1>14 DEF FtFirst

LEMMA FtHandlesChanged ==
    ASSUME FtTypes, NEW cur, FtFirst(cur), UNCHANGED ft_xfer,
           Head(ft_in).kind = "changed", _obex_properties_changed(Head(ft_in))
    PROVE  FtTypes' /\ FtSome(cur)'
<1> DEFINE m == Head(ft_in)
           q == ft_in'
<1>1. /\ FtTyped(cur) /\ FtOrder(cur) /\ FtPath(cur) /\ FtOutcomes(cur) /\ FtStates(cur) /\ FtTold(cur)
      /\ FtBehind(cur, m, q) /\ FtKind(cur, m)
      /\ cur \in FtIds /\ 1 .. cur \subseteq FtIds /\ \A u \in 1 .. cur - 1 : u \in 1 .. cur /\ u # cur
  BY DEF FtFirst
<1>2. /\ m.kind = "changed" /\ m.id = cur /\ m.val \in FtEnds \cup {"active", "suspended"}
      /\ q \in Seq(FtWaiting(cur))
  BY <1>1 DEF FtBehind, FtWaiting
<1>3. _obex_properties_changed(m) /\ q = ft_in'
  OBVIOUS
<1> HIDE DEF m, q
<1>4. /\ m \notin FtAdded /\ m \in FtChanged /\ (m \in FtFinal <=> m.val \in FtEnds)
      /\ (m \in FtSuspends <=> m.val = "suspended")
      /\ m \notin FtGone /\ m \notin FtAnswers /\ m \in FtAbout(cur)
      /\ m \notin FtRemoves(cur) /\ m \notin FtRemoved(cur)
      /\ \A op \in Ops : m \notin FtOk(op) /\ m \notin FtOp(op) /\ m \notin FtOpOf(op, cur)
      /\ \A req : m \notin FtCanceling(cur, req)
  BY <1>1, <1>2 DEF FtKind, Ops
<1>5. /\ ~ Has(ft_in, FtAdded) /\ ~ Has(q, FtAdded) /\ ft_path = cur
      /\ Going(cur) \/ Has(ft_in, FtFinal)
  <2>1. ~ Has(ft_in, FtAdded) /\ ~ Has(q, FtAdded)
    BY <1>1, <1>4 DEF FtOrder, FtBehind
  <2>2. Going(cur) \/ Has(ft_in, FtFinal)
    BY <1>1, <1>4 DEF FtOrder, FtBehind
  <2> QED BY <1>1, <2>1, <2>2 DEF FtPath
<1>6. _ftp_internal_callback(cur, m.val) /\ UNCHANGED <<ft_session, ftp_req, ft_calls>>
  BY <1>2, <1>3, <1>5 DEF _obex_properties_changed
<1> DEFINE told == IF ftp_state = "canceling" THEN "canceling" ELSE m.val
<1>7. /\ ft_path' = IF m.val \in FtEnds THEN 0 ELSE cur
      /\ ftp_state \in {"canceled", "suspended"} => ftp_state' = ftp_state /\ ft_told' = ft_told
      /\ ftp_state \notin {"canceled", "suspended"} =>
            /\ ftp_state' = (IF told = "suspended" THEN "suspended" ELSE ftp_state)
            /\ ft_told' = [ft_told EXCEPT ![cur] = told]
  BY <1>5, <1>6 DEF _ftp_internal_callback, _user_callback
<1>8. /\ \A u \in FtIds : u # cur => ft_told'[u] = ft_told[u]
      /\ ft_told'[cur] = IF ftp_state \in {"canceled", "suspended"} THEN ft_told[cur] ELSE told
      /\ ft_told' \in [FtIds -> {"nothing", "canceling"} \cup FtVals]
  <2>1. told \in {"nothing", "canceling"} \cup FtVals
    BY <1>2 DEF FtVals
  <2> HIDE DEF told
  <2> QED BY <1>1, <1>7, <2>1 DEF FtTypes
<1>9. m.val \in FtEnds =>
        /\ ~ Has(q, FtChanged) /\ ~ Has(q, FtFinal) /\ ~ Has(q, FtSuspends) /\ ft_xfer[cur] = "over"
        /\ ~ Going(cur) /\ ~ Has(q, FtOk("Resume")) /\ ftp_state # "suspended"
  <2> SUFFICES ASSUME m.val \in FtEnds
               PROVE  /\ ~ Has(q, FtChanged) /\ ~ Has(q, FtFinal) /\ ~ Has(q, FtSuspends) /\ ft_xfer[cur] = "over"
                      /\ ~ Going(cur) /\ ~ Has(q, FtOk("Resume")) /\ ftp_state # "suspended"
    OBVIOUS
  <2>1. m \in FtFinal
    BY <1>4
  <2>2. ~ Has(q, FtChanged) /\ ~ Has(q, FtFinal) /\ ~ Has(q, FtSuspends)
    BY <1>1, <2>1 DEF FtOrder, FtBehind
  <2>3. Has(ft_in, FtFinal) /\ ft_xfer[cur] = "over" /\ ~ Going(cur)
    BY <1>1, <2>1 DEF FtOrder, FtBehind, Going
  <2>4. ~ Has(q, FtOk("Resume"))
    <3>1. Has(q, FtOk("Resume")) => Has(ft_in, FtOk("Resume"))
      BY <1>1 DEF FtBehind
    <3>2. Has(q, FtOk("Resume")) => Follow(q, FtOk("Resume"), FtFinal)
      BY <1>1, <2>3, <3>1 DEF FtOutcomes, FtBehind
    <3> QED BY <1>1, <2>2, <3>2 DEF FtBehind
  <2>5. ftp_state # "suspended"
    <3>1. ~ FtResumed(cur)
      BY <1>1, <1>4, <2>1 DEF FtResumed, FtBehind, Ops
    <3> QED BY <1>1, <2>3, <3>1 DEF FtStates
  <2> QED BY <2>2, <2>3, <2>4, <2>5
<1>10. FtTypes'
  BY <1>8 DEF FtTypes
<1>11. FtTyped(cur)'
  <2>1. \A u \in FtIds : u > cur => u # cur
    BY <1>1, FtAssumption DEF FtIds
  <2> QED BY <1>1, <1>2, <1>3, <1>6, <1>8, <2>1 DEF FtTyped
<1>12. FtOrder(cur)'
  BY <1>1, <1>3, <1>4, <1>6, <1>9 DEF FtOrder, FtBehind, Going
<1>13. FtPath(cur)'
  <2>1. cur # 0
    BY <1>1, FtAssumption DEF FtIds
  <2>2. m.val \notin FtEnds => Going(cur) \/ Has(q, FtFinal)
    BY <1>1, <1>4, <1>5 DEF FtBehind
  <2> QED BY <1>3, <1>7, <1>9, <2>1, <2>2 DEF FtPath, Going
<1>14. FtOutcomes(cur)'
  BY <1>1, <1>3, <1>4, <1>5, <1>9 DEF FtOutcomes, FtBehind, Going, Ops
<1>15. FtResumed(cur) => FtResumed(cur)'
  BY <1>1, <1>3, <1>4 DEF FtResumed, FtBehind, Ops
<1>16. FtStates(cur)'
  <2>1. ftp_state' = "canceling" => ftp_state = "canceling"
    BY <1>2, <1>7
  <2>2. ftp_state = "canceling" => Has(ft_calls, FtCanceling(cur, ftp_req)) \/ Has(q, FtCanceling(cur, ftp_req))
    BY <1>1, <1>4 DEF FtStates, FtBehind
  <2>3. Has(q, FtOp("Cancel")) \/ Has(ft_calls, FtOp("Cancel")) => ftp_state' = "canceling"
    BY <1>1, <1>7 DEF FtStates, FtBehind
  <2>4. ftp_state' = "canceled" => ft_xfer[cur] = "over" /\ ft_told'[cur] \in FtEnds
    BY <1>1, <1>7, <1>8 DEF FtStates
  <2>5. ftp_state' = "suspended" =>
          /\ ft_xfer[cur] = "suspended" \/ FtResumed(cur)
          /\ Going(cur) \/ Has(q, FtFinal)
    <3> SUFFICES ASSUME ftp_state' = "suspended"
                 PROVE  /\ ft_xfer[cur] = "suspended" \/ FtResumed(cur)
                        /\ Going(cur) \/ Has(q, FtFinal)
      OBVIOUS
    <3>1. m.val \notin FtEnds
      BY <1>7, <1>9 DEF FtEnds
    <3>2. Going(cur) \/ Has(q, FtFinal)
      BY <1>1, <1>4, <1>5, <3>1 DEF FtBehind
    <3>3. CASE ftp_state = "suspended"
      BY <1>1, <3>2, <3>3 DEF FtStates
    <3>4. CASE ftp_state # "suspended"
      <4>1. m.val = "suspended" /\ ftp_state # "canceling"
        BY <1>7, <3>4
      <4>2. Has(ft_in, FtSuspends)
        BY <1>1, <1>4, <4>1 DEF FtBehind
      <4> QED BY <1>1, <3>2, <4>1, <4>2 DEF FtStates
    <3> QED BY <3>3, <3>4
  <2>6. Has(q, FtSuspends) =>
          \/ ft_xfer[cur] = "suspended"
          \/ FtResumed(cur) /\ Follow(q, FtSuspends, FtOpOf("Resume", cur))
          \/ (ftp_state' = "canceling") /\ Follow(q, FtSuspends, FtOp("Cancel"))
    BY <1>1, <1>7 DEF FtStates, FtBehind
  <2> QED BY <1>3, <1>6, <1>15, <2>1, <2>2, <2>3, <2>4, <2>5, <2>6 DEF FtStates, Going
<1>17. FtTold(cur)'
  <2>1. \A u \in 1 .. cur - 1 : ft_xfer[u] = "over" /\ ft_told'[u] \in FtEnds
    BY <1>1, <1>8 DEF FtTold
  <2>2. ft_xfer[cur] = "over" =>
          \/ ft_told'[cur] \in FtEnds /\ ~ Has(q, FtChanged)
          \/ Has(q, FtFinal)
          \/ ftp_state' = "canceling"
    <3>1. CASE m.val \in FtEnds
      BY <1>1, <1>7, <1>8, <1>9, <3>1 DEF FtStates, FtEnds
    <3>2. CASE m.val \notin FtEnds
      <4>1. ft_xfer[cur] = "over" => Has(q, FtFinal)
        BY <1>1, <1>4, <1>5, <3>2 DEF Going, FtBehind
      <4> QED BY <4>1
    <3> QED BY <3>1, <3>2
  <2> QED BY <1>3, <1>5, <2>1, <2>2 DEF FtTold
<1> QED BY <1>10, <1>11, <1>12, <1>13, <1>14, <1>16, <1>17 DEF FtSome

LEMMA FtHandlesAdded ==
    ASSUME FtTypes, NEW cur, FtFirst(cur), UNCHANGED ft_xfer,
           Head(ft_in).kind = "added", _on_interface_added(Head(ft_in))
    PROVE  FtTypes' /\ FtSome(cur)'
<1> DEFINE m == Head(ft_in)
           q == ft_in'
<1>1. /\ FtTyped(cur) /\ FtOrder(cur) /\ FtPath(cur) /\ FtOutcomes(cur) /\ FtStates(cur) /\ FtTold(cur)
      /\ FtBehind(cur, m, q) /\ FtKind(cur, m)
      /\ cur \in FtIds /\ 1 .. cur \subseteq FtIds /\ \A u \in 1 .. cur - 1 : u \in 1 .. cur /\ u # cur
  BY DEF FtFirst
<1>2. m.kind = "added" /\ m.id = cur /\ m.val = "queued" /\ q \in Seq(FtWaiting(cur))
  BY <1>1 DEF FtBehind, FtWaiting
<1>3. _on_interface_added(m) /\ q = ft_in'
  OBVIOUS
<1> HIDE DEF m, q
<1>4. /\ m \in FtAdded /\ m \notin FtChanged /\ m \notin FtFinal /\ m \notin FtSuspends
      /\ m \notin FtGone /\ m \notin FtAnswers /\ m \in FtAbout(cur)
      /\ m \notin FtRemoves(cur) /\ m \notin FtRemoved(cur)
      /\ \A op \in Ops : m \notin FtOk(op) /\ m \notin FtOp(op) /\ m \notin FtOpOf(op, cur)
      /\ \A req : m \notin FtCanceling(cur, req)
  BY <1>1, <1>2 DEF FtKind, Ops
<1>5. ~ Has(q, FtAdded) /\ Has(ft_in, FtAdded) /\ (Going(cur) \/ Has(q, FtFinal))
  BY <1>1, <1>4 DEF FtOrder, FtBehind
<1>6. ft_path' = cur /\ UNCHANGED <<ft_session, ftp_state, ftp_req, ft_calls, ft_told>>
  BY <1>2, <1>3 DEF _on_interface_added
<1>7. FtTypes' /\ FtTyped(cur)'
  BY <1>1, <1>2, <1>3, <1>6 DEF FtTypes, FtTyped
<1>8. FtOrder(cur)'
  BY <1>1, <1>3, <1>4, <1>6 DEF FtOrder, FtBehind, Going
<1>9. FtPath(cur)'
  BY <1>3, <1>5, <1>6 DEF FtPath, Going
<1>10. FtOutcomes(cur)'
  BY <1>1, <1>3, <1>4, <1>5 DEF FtOutcomes, FtBehind, Going, Ops
<1>11. FtResumed(cur) => FtResumed(cur)'
  BY <1>1, <1>3, <1>4 DEF FtResumed, FtBehind, Ops
<1>12. FtStates(cur)'
  BY <1>1, <1>3, <1>4, <1>6, <1>11 DEF FtStates, FtBehind, Going, Ops
<1>13. FtTold(cur)'
  BY <1>1, <1>3, <1>4, <1>5, <1>6 DEF FtTold, FtBehind
<1> QED BY <1>7, <1>8, <1>9, <1>10, <1>12, <1>13 DEF FtSome

LEMMA FtHandlesRemoved ==
    ASSUME FtTypes, NEW cur, FtFirst(cur), UNCHANGED ft_xfer,
           Head(ft_in).kind \in {"removed", "gone"}, _on_interface_removed(Head(ft_in))
    PROVE  FtTypes' /\ FtSome(cur)'
<1> DEFINE m == Head(ft_in)
           q == ft_in'
<1>1. /\ FtTyped(cur) /\ FtOrder(cur) /\ FtPath(cur) /\ FtOutcomes(cur) /\ FtStates(cur) /\ FtTold(cur)
      /\ FtBehind(cur, m, q) /\ FtKind(cur, m)
      /\ cur \in FtIds /\ 1 .. cur \subseteq FtIds /\ \A u \in 1 .. cur - 1 : u \in 1 .. cur /\ u # cur
  BY DEF FtFirst
<1>2. m.kind \in {"removed", "gone"} /\ q \in Seq(FtWaiting(cur)) /\ cur # 0
  BY <1>1, FtAssumption DEF FtBehind, FtIds
<1>3. _on_interface_removed(m) /\ q = ft_in'
  OBVIOUS
<1> HIDE DEF m, q
<1>4. /\ m \notin FtAdded /\ m \notin FtChanged /\ m \notin FtFinal /\ m \notin FtSuspends
      /\ m \notin FtAnswers
      /\ \A op \in Ops : m \notin FtOk(op) /\ m \notin FtOp(op) /\ m \notin FtOpOf(op, cur)
      /\ \A req : m \notin FtCanceling(cur, req)
  BY <1>1, <1>2 DEF FtKind, Ops
<1>5. UNCHANGED <<ftp_state, ftp_req, ft_calls, ft_told>> /\ ft_path' = IF m.kind = "gone" THEN ft_path ELSE 0
  BY <1>3 DEF _on_interface_removed, FtProperty
<1>6. m.kind = "removed" => Has(q, FtAdded) \/ (~ Going(cur) /\ ~ Has(q, FtFinal))
  <2>1. m.kind = "removed" /\ m.id # cur => Has(q, FtAdded)
    BY <1>1 DEF FtOrder, FtBehind, FtKind
  <2>2. m.kind = "removed" /\ m.id = cur => ~ Going(cur) /\ ~ Has(q, FtFinal)
    <3>1. m.kind = "removed" /\ m.id = cur => ~ Has(q, FtChanged) /\ Has(ft_in, FtRemoves(cur))
      BY <1>1 DEF FtOrder, FtBehind, FtKind
    <3>2. Has(ft_in, FtRemoves(cur)) => ~ Going(cur)
      BY <1>1 DEF FtOrder, Going
    <3> QED BY <1>1, <3>1, <3>2 DEF FtBehind
  <2> QED BY <2>1, <2>2
<1>7. FtTypes' /\ FtTyped(cur)'
  BY <1>1, <1>2, <1>3, <1>5 DEF FtTypes, FtTyped
<1>8. FtOrder(cur)'
  BY <1>1, <1>3, <1>4, <1>5 DEF FtOrder, FtBehind, Going
<1>9. FtPath(cur)'
  <2>1. ft_path' \in {0, cur}
    BY <1>1, <1>5 DEF FtPath
  <2>2. ~ Has(q, FtAdded) => (ft_path' = cur <=> Going(cur) \/ Has(q, FtFinal))
    BY <1>1, <1>2, <1>4, <1>5, <1>6 DEF FtPath, FtBehind
  <2> QED BY <1>3, <2>1, <2>2 DEF FtPath, Going
<1>10. FtOutcomes(cur)'
  BY <1>1, <1>3, <1>4 DEF FtOutcomes, FtBehind, Going, Ops
<1>11. FtResumed(cur) => FtResumed(cur)'
  BY <1>1, <1>3, <1>4 DEF FtResumed, FtBehind, Ops
<1>12. FtStates(cur)'
  BY <1>1, <1>3, <1>4, <1>5, <1>11 DEF FtStates, FtBehind, Going, Ops
<1>13. FtTold(cur)'
  BY <1>1, <1>3, <1>4, <1>5 DEF FtTold, FtBehind
<1> QED BY <1>7, <1>8, <1>9, <1>10, <1>12, <1>13 DEF FtSome

LEMMA FtHandlesAnswer ==
    ASSUME FtTypes, NEW cur, FtFirst(cur), UNCHANGED ft_xfer, Head(ft_in).kind \in Ops, FtHandle(Head(ft_in))
    PROVE  FtTypes' /\ FtSome(cur)'
<1> DEFINE m == Head(ft_in)
           q == ft_in'
<1>1. /\ FtTyped(cur) /\ FtOrder(cur) /\ FtPath(cur) /\ FtOutcomes(cur) /\ FtStates(cur) /\ FtTold(cur)
      /\ FtBehind(cur, m, q) /\ FtKind(cur, m)
      /\ cur \in FtIds /\ 1 .. cur \subseteq FtIds /\ \A u \in 1 .. cur - 1 : u \in 1 .. cur /\ u # cur
      /\ cur \in 1 .. cur /\ cur # 0
  BY FtAssumption DEF FtFirst, FtIds
<1>2. /\ m.kind \in Ops /\ q \in Seq(FtWaiting(cur)) /\ m.id \in 1 .. cur /\ m.val \in {"ok", "error"}
      /\ m.kind = "Cancel" \/ (m.kind = "Resume" /\ m.val = "ok") => m.id = cur
  BY <1>1 DEF FtBehind, FtWaiting, Ops
<1>3. FtHandle(m) /\ q = ft_in'
  OBVIOUS
<1> HIDE DEF m, q
<1>4. /\ m \notin FtAdded /\ m \notin FtChanged /\ m \notin FtFinal /\ m \notin FtSuspends
      /\ m \notin FtGone /\ m \in FtAnswers /\ m \notin FtRemoves(cur) /\ m \notin FtRemoved(cur)
  BY <1>1, <1>2 DEF FtKind, Ops
<1>5. /\ ~ Has(q, FtAnswers) /\ ft_calls = <<>>
      /\ \A op \in Ops : ~ Has(q, FtOp(op)) /\ ~ Has(q, FtOk(op)) /\ ~ Has(q, FtOpOf(op, cur))
      /\ \A req : ~ Has(q, FtCanceling(cur, req))
      /\ \A A : ~ Has(ft_calls, A)
  <2>1. ~ Has(q, FtAnswers) /\ ft_calls = <<>>
    BY <1>1, <1>4 DEF FtOrder, FtBehind
  <2> QED BY <1>1, <2>1, QueueEmpty DEF FtBehind
<1>6. m.id = cur => ~ Has(q, FtAdded) /\ ~ Has(ft_in, FtAdded)
  BY <1>1, <1>4 DEF FtOrder, FtBehind, FtKind
<1>7. /\ Has(q, FtChanged) <=> Has(ft_in, FtChanged)
      /\ Has(q, FtFinal) <=> Has(ft_in, FtFinal)
      /\ Has(q, FtAdded) <=> Has(ft_in, FtAdded)
      /\ Has(q, FtSuspends) <=> Has(ft_in, FtSuspends)
      /\ Has(q, FtChanged) /\ ft_xfer[cur] = "over" => Has(q, FtFinal)
  BY <1>1, <1>4 DEF FtBehind, FtOrder, Going
\* This answer ends what was asked for.
<1>8. /\ ftp_state = "canceling" => m.id = cur /\ (m.kind = "Cancel" \/ (m.kind = "Resume" /\ ftp_req = "put"))
      /\ m.kind = "Cancel" => ftp_state = "canceling"
  <2>1. ftp_state = "canceling" => m \in FtCanceling(cur, ftp_req)
    BY <1>1, <1>5 DEF FtStates, FtBehind
  <2>2. m.kind = "Cancel" => Has(ft_in, FtOp("Cancel"))
    BY <1>1, <1>2 DEF FtKind, FtBehind
  <2> QED BY <1>1, <2>1, <2>2 DEF FtKind, FtStates
<1>9. Has(q, FtSuspends) => ft_xfer[cur] = "suspended"
  <2>1. Has(q, FtSuspends) =>
          \A op \in Ops : ~ Follow(q, FtSuspends, FtOp(op)) /\ ~ Follow(q, FtSuspends, FtOpOf(op, cur))
    BY <1>1, <1>5 DEF FtBehind
  <2>2. "Resume" \in Ops /\ "Cancel" \in Ops
    BY DEF Ops
  <2>3. Has(ft_in, FtSuspends) =>
          \/ ft_xfer[cur] = "suspended"
          \/ Follow(q, FtSuspends, FtOpOf("Resume", cur)) \/ Follow(q, FtSuspends, FtOp("Cancel"))
    BY <1>1 DEF FtStates, FtBehind
  <2> QED BY <1>7, <2>1, <2>2, <2>3
<1>10. ft_xfer[cur] = "suspended" /\ Has(q, FtAdded) => FALSE
  <2>1. ft_xfer[cur] = "suspended" /\ Has(q, FtAdded) => m \in FtOpOf("Suspend", cur)
    BY <1>1, <1>5, <1>7 DEF FtOutcomes, FtBehind, Ops
  <2> QED BY <1>1, <1>6, <2>1 DEF FtKind, Ops
<1>11. ft_calls' = <<>> => FtOrder(cur)'
  BY <1>1, <1>3, <1>4, <1>5 DEF FtOrder, FtBehind, Going
<1>12. ft_path' = ft_path => FtPath(cur)'
  BY <1>1, <1>3, <1>7 DEF FtPath, Going
<1>13. FtOutcomes(cur)'
  BY <1>3, <1>5, <1>10 DEF FtOutcomes, Ops
<1>14. CASE m.val = "error"
  <2>1. /\ ftp_state' = "error" /\ ft_told' = [ft_told EXCEPT ![m.id] = "error"]
        /\ UNCHANGED <<ft_session, ftp_req, ft_path, ft_calls>>
    BY <1>2, <1>3, <1>14 DEF FtHandle, Ops, _ftp_cancel_callback, _ftp_resume_callback, _ftp_suspend_callback,
       CallFailed, _user_callback
  <2>2. /\ ft_told' \in [FtIds -> {"nothing", "canceling"} \cup FtVals]
        /\ \A u \in FtIds : u # m.id => ft_told'[u] = ft_told[u]
        /\ ft_told'[m.id] = "error" /\ m.id \in FtIds
    BY <1>1, <1>2, <2>1 DEF FtTypes, FtVals, FtEnds
  <2>3. FtTypes'
    BY <2>2 DEF FtTypes
  <2>4. FtTyped(cur)'
    <3>1. \A u \in FtIds : u > cur => u # m.id
      BY <1>1, <1>2, FtAssumption DEF FtIds
    <3> QED BY <1>1, <1>2, <1>3, <2>1, <2>2, <3>1 DEF FtTyped
  <2>5. FtOrder(cur)' /\ FtPath(cur)'
    BY <1>5, <1>11, <1>12, <2>1
  <2>6. FtStates(cur)'
    BY <1>3, <1>5, <1>9, <2>1 DEF FtStates, Ops
  <2>7. FtTold(cur)'
    <3>1. \A u \in 1 .. cur - 1 : ft_xfer[u] = "over" /\ ft_told'[u] \in FtEnds
      BY <1>1, <2>2 DEF FtTold, FtEnds
    <3>2. ft_xfer[cur] = "over" => (ft_told'[cur] \in FtEnds /\ ~ Has(q, FtChanged)) \/ Has(q, FtFinal)
      <4>1. CASE m.id = cur
        BY <1>7, <2>2, <4>1 DEF FtEnds
      <4>2. CASE m.id # cur
        BY <1>1, <1>7, <1>8, <2>2, <4>2 DEF FtTold
      <4> QED BY <4>1, <4>2
    <3>3. Has(q, FtAdded) => ft_told'[cur] \notin FtEnds
      BY <1>1, <1>6, <1>7, <2>2 DEF FtTold
    <3> QED BY <1>3, <3>1, <3>2, <3>3 DEF FtTold
  <2> QED BY <1>13, <2>3, <2>4, <2>5, <2>6, <2>7 DEF FtSome
<1>15. CASE m.val = "ok" /\ m.kind = "Cancel"
  <2>1. /\ ftp_state' = "canceled" /\ ftp_req' = "end" /\ ft_told' = [ft_told EXCEPT ![cur] = "canceled"]
        /\ UNCHANGED <<ft_session, ft_path, ft_calls>>
    BY <1>2, <1>3, <1>15 DEF FtHandle, _ftp_cancel_callback, _user_callback
  <2>2. /\ ft_told' \in [FtIds -> {"nothing", "canceling"} \cup FtVals]
        /\ \A u \in FtIds : u # cur => ft_told'[u] = ft_told[u]
        /\ ft_told'[cur] = "canceled"
    BY <1>1, <2>1 DEF FtTypes, FtVals, FtEnds
  <2>3. ft_xfer[cur] = "over" /\ ~ Has(q, FtAdded)
    <3>1. Has(ft_in, FtOk("Cancel"))
      BY <1>1, <1>2, <1>15 DEF FtKind, FtBehind
    <3> QED BY <1>1, <1>2, <1>6, <1>15, <3>1 DEF FtOutcomes
  <2>4. FtTypes'
    BY <2>2 DEF FtTypes
  <2>5. FtTyped(cur)'
    <3>1. \A u \in FtIds : u > cur => u # cur
      BY <1>1, FtAssumption DEF FtIds
    <3> QED BY <1>1, <1>2, <1>3, <2>1, <2>2, <3>1 DEF FtTyped
  <2>6. FtOrder(cur)' /\ FtPath(cur)'
    BY <1>5, <1>11, <1>12, <2>1
  <2>7. FtStates(cur)'
    BY <1>3, <1>5, <1>9, <2>1, <2>2, <2>3 DEF FtStates, Ops, FtEnds
  <2>8. FtTold(cur)'
    BY <1>1, <1>3, <1>7, <2>2, <2>3 DEF FtTold, FtEnds
  <2> QED BY <1>13, <2>4, <2>5, <2>6, <2>7, <2>8 DEF FtSome
<1>16. CASE m.val = "ok" /\ m.kind = "Resume"
  <2>1. /\ IF ftp_req = "put" /\ ftp_state = "canceling"
            THEN /\ IF ft_path = 0 THEN UNCHANGED ft_calls ELSE FtCall("Cancel", ft_path)
                 /\ UNCHANGED ftp_state
            ELSE ftp_state' = "resumed" /\ UNCHANGED ft_calls
        /\ UNCHANGED <<ft_session, ftp_req, ft_path, ft_told>>
    BY <1>3, <1>16 DEF FtHandle, _ftp_resume_callback, FtProperty
  <2>2. m.id = cur /\ ~ Has(q, FtAdded) /\ ~ Has(ft_in, FtAdded)
    BY <1>2, <1>6, <1>16
  <2>3. FtTypes'
    BY <2>1 DEF FtTypes
  <2>4. FtPath(cur)'
    BY <1>12, <2>1
  <2>5. CASE ~(ftp_req = "put" /\ ftp_state = "canceling")
    <3>1. ftp_state # "canceling" /\ ftp_state' = "resumed" /\ ft_calls' = ft_calls
      BY <1>8, <1>16, <2>1, <2>5
    <3>2. FtTyped(cur)'
      BY <1>1, <1>2, <1>3, <2>1, <3>1 DEF FtTyped
    <3>3. FtOrder(cur)'
      BY <1>5, <1>11, <3>1
    <3>4. FtStates(cur)'
      BY <1>3, <1>5, <1>9, <3>1 DEF FtStates, Ops
    <3>5. FtTold(cur)'
      BY <1>1, <1>3, <1>7, <2>1, <3>1 DEF FtTold
    <3> QED BY <1>13, <2>3, <2>4, <3>2, <3>3, <3>4, <3>5 DEF FtSome
  <2>6. CASE ftp_req = "put" /\ ftp_state = "canceling"
    <3> DEFINE c == Said("Cancel", cur, "call")
    <3>1. ft_path = cur
      <4>1. Has(ft_in, FtOk("Resume"))
        BY <1>1, <1>2, <1>16 DEF FtKind, FtBehind
      <4>2. Going(cur) \/ Has(ft_in, FtFinal)
        BY <1>1, <4>1, QueueFollow DEF FtOutcomes
      <4> QED BY <1>1, <2>2, <4>2 DEF FtPath
    <3>2. ft_calls' = <<c>> /\ ftp_state' = "canceling"
      BY <1>1, <1>5, <2>1, <2>6, <3>1 DEF FtCall
    <3>3. c \in FtCallsOf(cur) /\ c \in FtCanceling(cur, ftp_req)
      <4>1. cur \in 0 .. FtMax
        BY <1>1, FtAssumption DEF FtIds
      <4> QED BY <1>1, <4>1 DEF Said, FtCallsOf, FtCanceling, FtMessage, FtVals, Ops
    <3> HIDE DEF c
    <3>4. <<c>> \in Seq(FtCallsOf(cur)) /\ Len(<<c>>) = 1 /\ DOMAIN <<c>> = {1} /\ <<c>>[1] = c
      BY <3>3
    <3>5. Has(<<c>>, FtCanceling(cur, ftp_req))
      BY <3>3, <3>4 DEF Has
    <3>6. FtTyped(cur)'
      BY <1>1, <1>2, <1>3, <2>1, <3>2, <3>4 DEF FtTyped
    <3>7. FtOrder(cur)'
      BY <1>1, <1>3, <1>4, <1>5 DEF FtOrder, FtBehind, Going
    <3>8. FtStates(cur)'
      BY <1>3, <1>5, <1>9, <2>1, <3>2, <3>5 DEF FtStates, Ops
    <3>9. FtTold(cur)'
      BY <1>1, <1>3, <1>7, <2>1, <3>2 DEF FtTold
    <3> QED BY <1>13, <2>3, <2>4, <3>6, <3>7, <3>8, <3>9 DEF FtSome
  <2> QED BY <2>5, <2>6
<1>17. CASE m.val = "ok" /\ m.kind = "Suspend"
  <2>1. UNCHANGED <<ft_session, ftp_state, ftp_req, ft_path, ft_calls, ft_told>>
    BY <1>3, <1>17 DEF FtHandle, _ftp_suspend_callback, FtProperty
  <2>2. ftp_state # "canceling"
    BY <1>8, <1>17
  <2>3. FtTypes' /\ FtTyped(cur)'
    BY <1>1, <1>2, <1>3, <2>1 DEF FtTypes, FtTyped
  <2>4. FtOrder(cur)' /\ FtPath(cur)'
    BY <1>5, <1>11, <1>12, <2>1
  <2>5. FtResumed(cur) => FtResumed(cur)'
    <3>1. m \notin FtOpOf("Resume", cur)
      BY <1>1, <1>17 DEF FtKind, Ops
    <3> QED BY <1>1, <1>3, <3>1 DEF FtResumed, FtBehind
  <2>6. FtStates(cur)'
    BY <1>1, <1>3, <1>5, <1>7, <1>9, <2>1, <2>2, <2>5 DEF FtStates, Ops, Going
  <2>7. FtTold(cur)'
    BY <1>1, <1>3, <1>7, <2>1 DEF FtTold
  <2> QED BY <1>13, <2>3, <2>4, <2>6, <2>7 DEF FtSome
<1> QED BY <1>2, <1>14, <1>15, <1>16, <1>17 DEF Ops

LEMMA FtLoopSteps == ASSUME FtCalm, FtInv, _dbus_signal_callback PROVE FtInv'
<1> DEFINE m == Head(ft_in)
<1>1. /\ ft_in # <<>> /\ FtHandle(m) /\ ft_in' = Tail(ft_in)
      /\ UNCHANGED <<FtProcess, ft_sessions, ft_open, ft_xfer>>
      /\ FtTypes /\ FtSessionInv
  BY DEF _dbus_signal_callback, FtInv
<1>2. ASSUME NEW n, ft_in \in Seq(FtWaiting(n)), FtWaiting(n) \subseteq FtMessage
      PROVE  FtSessionInv' /\ m \in FtWaiting(n)
  <2>1. /\ m \in FtWaiting(n) /\ \A A : Has(ft_in, A) <=> m \in A \/ Has(Tail(ft_in), A)
    BY <1>1, <1>2, QueueTail
  <2>2. m.kind = "gone" => ft_open = 0
    <3>1. m.kind = "gone" => m \in FtGone
      BY <1>2, <2>1 DEF FtGone
    <3> QED BY <1>1, <2>1, <3>1 DEF FtSessionInv
  <2>3. ft_session' = ft_open
    <3>1. ft_session' = ft_session \/ (m.kind = "gone" /\ ft_session' = 0)
      BY <1>1 DEF FtHandle, _obex_properties_changed, _on_interface_added, _on_interface_removed,
         _ftp_cancel_callback, _ftp_resume_callback, _ftp_suspend_callback, CallFailed
    <3> QED BY <1>1, <2>2, <3>1 DEF FtSessionInv
  <2>4. Has(ft_in', FtGone) => ft_open' = 0
    BY <1>1, <2>1 DEF FtSessionInv
  <2> HIDE DEF m
  <2> QED BY <1>1, <2>1, <2>3, <2>4 DEF FtSessionInv, FtProcess
<1>3. CASE FtNone
  <2>1. ft_in \in Seq(FtWaiting(0)) /\ FtWaiting(0) \subseteq FtMessage
    BY <1>3 DEF FtNone, FtWaiting
  <2>2. m \in FtWaiting(0) /\ FtSessionInv'
    BY <1>2, <2>1
  <2>3. m.kind = "gone"
    <3>1. m.kind # "gone" => m.id \in 1 .. 0
      BY <2>2 DEF FtWaiting
    <3> QED BY <3>1
  <2>4. ft_in' \in Seq(FtWaiting(0))
    BY <1>1, <2>1
  <2>5. UNCHANGED <<ftp_state, ftp_req, ft_path, ft_status, ft_calls, ft_told>>
    BY <1>1, <2>3 DEF FtHandle, _on_interface_removed, FtProperty, Ops
  <2> HIDE DEF m
  <2>6. FtNone' /\ FtTypes'
    BY <1>1, <1>3, <2>4, <2>5 DEF FtNone, FtTypes
  <2> QED BY <2>2, <2>6 DEF FtInv
<1>4. ASSUME NEW cur \in FtIds, FtSome(cur) PROVE FtInv'
  <2>1. FtFirst(cur)
    BY <1>1, <1>4, FtFirstIs
  <2>2. FtSessionInv' /\ m.kind \in {"changed", "added", "removed", "gone"} \cup Ops
    <3>1. ft_in \in Seq(FtWaiting(cur)) /\ FtWaiting(cur) \subseteq FtMessage
      BY <1>4 DEF FtSome, FtTyped, FtWaiting
    <3>2. FtSessionInv' /\ m \in FtWaiting(cur)
      BY <1>2, <3>1
    <3> QED BY <3>2 DEF FtWaiting, FtMessage
  <2>3. CASE m.kind = "changed"
    <3>1. _obex_properties_changed(m)
      BY <1>1, <2>3 DEF FtHandle, Ops
    <3>2. FtTypes' /\ FtSome(cur)'
      BY <1>1, <2>1, <2>3, <3>1, FtHandlesChanged
    <3> QED BY <1>4, <2>2, <3>2 DEF FtInv
  <2>4. CASE m.kind = "added"
    <3>1. _on_interface_added(m)
      BY <1>1, <2>4 DEF FtHandle, Ops
    <3>2. FtTypes' /\ FtSome(cur)'
      BY <1>1, <2>1, <2>4, <3>1, FtHandlesAdded
    <3> QED BY <1>4, <2>2, <3>2 DEF FtInv
  <2>5. CASE m.kind \in {"removed", "gone"}
    <3>1. _on_interface_removed(m)
      BY <1>1, <2>5 DEF FtHandle, Ops
    <3>2. FtTypes' /\ FtSome(cur)'
      BY <1>1, <2>1, <2>5, <3>1, FtHandlesRemoved
    <3> QED BY <1>4, <2>2, <3>2 DEF FtInv
  <2>6. CASE m.kind \in Ops
    <3>1. FtTypes' /\ FtSome(cur)'
      BY <1>1, <2>1, <2>6, FtHandlesAnswer
    <3> QED BY <1>4, <2>2, <3>1 DEF FtInv
  <2> QED BY <2>2, <2>3, <2>4, <2>5, <2>6
<1> QED BY <1>3, <1>4 DEF FtInv

LEMMA FtStarts == FtInit => FtInv
<1> SUFFICES ASSUME FtInit PROVE FtInv
  OBVIOUS
<1>1. FtTypes
  BY DEF FtInit, FtTypes
<1>2. FtSessionInv
  <2>1. ~ Has(ft_in, FtGone)
    BY QueueEmpty DEF FtInit
  <2> QED BY <2>1 DEF FtInit, FtSessionInv
<1>3. FtNone
  <2>1. <<>> \in Seq(FtWaiting(0))
    OBVIOUS
  <2> QED BY <2>1 DEF FtInit, FtNone
<1> QED BY <1>1, <1>2, <1>3 DEF FtInv

LEMMA FtSteps == ASSUME FtCalm, FtInv, FtNext PROVE FtInv'
<1>1. CASE \E ok \in BOOLEAN : bt_ftp_create_session(ok)
  BY <1>1, FtCreates
<1>2. CASE bt_ftp_remove_session
  BY <1>2, FtRemoveSteps
<1>3. ASSUME NEW t \in FtIds, bt_ftp_get_file(t) \/ bt_ftp_put_file(t) \/ ObexdMoves(t)
      PROVE  FtInv'
  <2>1. CASE bt_ftp_get_file(t)
    BY <2>1, FtStartSteps DEF bt_ftp_get_file
  <2>2. CASE bt_ftp_put_file(t)
    BY <2>2, FtStartSteps DEF bt_ftp_put_file
  <2>3. CASE ObexdMoves(t)
    <3>1. ~ FtNone
      BY <2>3 DEF FtNone, ObexdMoves
    <3>2. PICK cur \in FtIds : FtSome(cur)
      BY <3>1 DEF FtInv
    <3>3. FtTypes' /\ FtSessionInv' /\ FtSome(cur)'
      BY <2>3, <3>2, FtMoves DEF FtInv
    <3> QED BY <3>3 DEF FtInv
  <2> QED BY <1>3, <2>1, <2>2, <2>3
<1>4. CASE bt_ftp_resume_transfer \/ bt_ftp_suspend_transfer \/ bt_ftp_cancel_transfer
  BY <1>4, FtCallSteps
<1>5. CASE ObexdHandles
  <2>1. ~ FtNone
    BY <1>5 DEF FtNone, ObexdHandles
  <2>2. PICK cur \in FtIds : FtSome(cur)
    BY <2>1 DEF FtInv
  <2>3. FtTypes' /\ FtSessionInv' /\ FtSome(cur)'
    BY <1>5, <2>2, FtHandles DEF FtInv
  <2> QED BY <2>3 DEF FtInv
<1>6. CASE _dbus_signal_callback
  BY <1>6, FtLoopSteps
<1> QED BY <1>1, <1>2, <1>3, <1>4, <1>5, <1>6 DEF FtNext

LEMMA FtGives == FtInv => TransfersAreTold
<1> SUFFICES ASSUME FtInv PROVE TransfersAreTold
  OBVIOUS
<1>1. ft_fault = FALSE /\ ft_session = ft_open
  BY DEF FtInv, FtSessionInv
<1>2. CASE FtNone
  BY <1>1, <1>2 DEF FtNone, TransfersAreTold, Going
<1>3. ASSUME NEW cur \in FtIds, FtSome(cur) PROVE TransfersAreTold
  <2> SUFFICES ASSUME ft_calls = <<>>, ft_in = <<>>
               PROVE  /\ ftp_state # "canceling"
                      /\ IF ft_path = 0 THEN ~ \E t \in FtIds : Going(t) ELSE Going(ft_path)
                      /\ \A t \in FtIds : ft_xfer[t] = "over" => ft_told[t] \in FtEnds
    BY <1>1 DEF TransfersAreTold
  <2>1. \A A : ~ Has(ft_in, A) /\ ~ Has(ft_calls, A)
    BY QueueEmpty
  <2>2. ftp_state # "canceling"
    BY <1>3, <2>1 DEF FtSome, FtStates
  <2>3. \A t \in FtIds : t = cur \/ t \in 1 .. cur - 1 \/ ~(t <= cur)
    BY FtAssumption DEF FtIds
  <2>4. \A t \in FtIds : ft_xfer[t] = "over" => ft_told[t] \in FtEnds
    BY <1>3, <2>1, <2>2, <2>3 DEF FtSome, FtTyped, FtTold
  <2>5. \A t \in FtIds : t # cur => ~ Going(t)
    BY <1>3, <2>3 DEF FtSome, FtTyped, FtTold, Going
  <2>6. ft_path \in {0, cur} /\ (ft_path = cur <=> Going(cur)) /\ cur # 0
    BY <1>3, <2>1, FtAssumption DEF FtSome, FtPath, FtIds
  <2> QED BY <2>2, <2>4, <2>5, <2>6
<1> QED BY <1>2, <1>3 DEF FtInv

LEMMA FtUnchanged == ASSUME FtInv, UNCHANGED ftvars PROVE FtInv'
<1>1. FtSessionInv'
  BY DEF FtInv, FtSessionInv, ftvars
<1> QED BY <1>1, FtSame DEF ftvars

-----------------------------------------------------------------------------
(* Bluetooth: what is registered with BlueZ.                               *)

\* BlueZ takes what is registered, once and with the same options, and calls it
\* when it is there; one advertisement at a time.
BoCalm == BoUnusual = {}

\* What is registered is exported under the id and with the data that are kept;
\* the last signal tells of the transport there is.
BoInv ==
    /\ ObjectsAreServed
    /\ bo_last \in Nat /\ bo_exported \in Nat /\ bo_half \in BOOLEAN
    /\ bo_exported # 0 => bo_node \in bo_nodes
    /\ bo_half => bo_exported = 0 /\ bo_bluez # NoOption /\ bo_kind # "agent"
    /\ bo_half /\ bo_kind = "a2dp" => bo_app = bo_bluez
    /\ bo_signals \in Seq(Nat) /\ bo_live \in Nat /\ bo_made \in Nat
    /\ bo_signals # <<>> => bo_signals[Len(bo_signals)] = bo_live

LEMMA BoStarts == BoInit => BoInv
<1> SUFFICES ASSUME BoInit PROVE BoInv
  OBVIOUS
<1>1. <<>> \in Seq(Nat)
  OBVIOUS
<1> QED BY <1>1 DEF BoInit, BoInv, ObjectsAreServed

\* Nothing else changes when transports do.
BoRest == <<bo_kind, BoExports, bo_endpoint, bo_half, bo_bluez, bo_app, BoRequests, bo_fault>>

BoSignals ==
    /\ bo_signals \in Seq(Nat) /\ bo_live \in Nat /\ bo_made \in Nat
    /\ bo_signals # <<>> => bo_signals[Len(bo_signals)] = bo_live
    /\ bo_signals = <<>> => a2dp_path \in {0, bo_live}

LEMMA BoKept ==
    ASSUME BoInv, UNCHANGED BoRest, BoSignals'
    PROVE  BoInv'
BY DEF BoInv, ObjectsAreServed, BoRest, BoExports, BoRequests, BoSignals

LEMMA BoGoes ==
    ASSUME BoSignals, TransportGoes, UNCHANGED <<bo_made, a2dp_path>>
    PROVE  BoSignals'
<1>1. CASE bo_live = 0
  BY <1>1 DEF BoSignals, TransportGoes
<1>2. CASE bo_live # 0
  <2>1. bo_live' = 0 /\ bo_signals' = Append(bo_signals, 0)
    BY <1>2 DEF TransportGoes
  <2>2. bo_signals' \in Seq(Nat) /\ bo_signals' # <<>> /\ bo_signals'[Len(bo_signals')] = 0
    BY <2>1 DEF BoSignals
  <2> QED BY <2>1, <2>2 DEF BoSignals
<1> QED BY <1>1, <1>2

\* An object that is registered while none is exported.
LEMMA BoRegisters ==
    ASSUME BoInv, RegisterObject, bo_exported = 0
    PROVE  /\ bo_last' \in Nat /\ bo_exported' \in Nat \ {0} /\ bo_id' = bo_exported'
           /\ bo_node' \in bo_nodes'
BY DEF BoInv, RegisterObject

\* The one that is exported is taken back.
LEMMA BoUnregisters ==
    ASSUME BoInv, UnregisterObject, ~ bo_half, bo_bluez # NoOption
    PROVE  bo_last' \in Nat /\ bo_exported' = 0 /\ bo_fault' = "none"
BY DEF BoInv, ObjectsAreServed, UnregisterObject

LEMMA BoSteps == BoCalm /\ BoInv /\ [BoNext]_bovars => BoInv'
<1> SUFFICES ASSUME BoCalm, BoInv, [BoNext]_bovars PROVE BoInv'
  OBVIOUS
<1>0. BoSignals /\ BoOptions \cap {NoOption} = {}
  BY BoAssumption DEF BoInv, ObjectsAreServed, BoSignals
<1>t. UNCHANGED BoTransports => BoSignals'
  BY <1>0 DEF BoSignals, BoTransports
<1>1. ASSUME NEW o \in BoOptions, NEW r \in BOOLEAN, bt_agent_register_capability(o, r) PROVE BoInv'
  <2>1. /\ bo_kind = "agent" /\ bo_exported = 0 /\ ~ r /\ RegisterObject
        /\ UNCHANGED <<bo_kind, bo_endpoint, bo_half, BoRequests, bo_fault, BoTransports>>
    BY <1>1 DEF bt_agent_register_capability, BoCalm
  <2>2. ~ bo_half /\ bo_bluez = NoOption /\ o # NoOption
    BY <1>0, <2>1 DEF BoInv, ObjectsAreServed
  <2>3. bo_bluez' = o /\ bo_app' = o
    BY <1>1, <2>1, <2>2 DEF bt_agent_register_capability
  <2> QED BY <1>t, <2>1, <2>2, <2>3, BoRegisters DEF BoInv, ObjectsAreServed, BoRequests, BoSignals
<1>2. ASSUME NEW o \in BoOptions, NEW r \in BOOLEAN, bt_a2dp_source_register(o, r) PROVE BoInv'
  <2>1. /\ bo_kind = "a2dp" /\ ~ bo_half /\ bo_endpoint \in {NoOption, o}
        /\ UNCHANGED <<bo_kind, BoExports, BoRequests, bo_fault, BoTransports>>
    BY <1>2 DEF bt_a2dp_source_register, BoCalm
  <2>2. bt_a2dp_source_create(o) = o /\ o # NoOption
    BY <1>0, <2>1 DEF bt_a2dp_source_create
  <2>3. \/ bo_bluez = NoOption /\ bo_bluez' = o /\ bo_app' = o /\ bo_half' = TRUE
        \/ UNCHANGED <<bo_bluez, bo_app>> /\ bo_half' = FALSE
    BY <1>2, <2>2 DEF bt_a2dp_source_register
  <2> QED BY <1>t, <2>1, <2>2, <2>3 DEF BoInv, ObjectsAreServed, BoExports, BoRequests, BoSignals
<1>3. ASSUME NEW o \in BoOptions, bt_spp_register_profile(o) PROVE BoInv'
  BY <1>0, <1>t, <1>3 DEF bt_spp_register_profile, BoInv, ObjectsAreServed, BoExports, BoRequests, BoSignals
<1>4. CASE _register_spp_object
  <2>1. /\ bo_kind = "spp" /\ bo_half /\ RegisterObject /\ bo_half' = FALSE
        /\ UNCHANGED <<bo_kind, bo_endpoint, bo_bluez, BoRequests, bo_fault, BoTransports>>
    BY <1>4 DEF _register_spp_object
  <2>2. bo_exported = 0 /\ bo_app' = bo_bluez
    BY <1>4, <2>1 DEF _register_spp_object, BoInv
  <2> QED BY <1>t, <2>1, <2>2, BoRegisters DEF BoInv, ObjectsAreServed, BoRequests, BoSignals
<1>5. CASE _register_a2dp_object
  <2>1. /\ bo_kind = "a2dp" /\ bo_half /\ RegisterObject /\ bo_half' = FALSE
        /\ UNCHANGED <<bo_kind, bo_endpoint, bo_bluez, BoRequests, bo_fault, BoTransports>>
    BY <1>5 DEF _register_a2dp_object
  <2>2. bo_exported = 0 /\ bo_app' = bo_app
    BY <1>5, <2>1 DEF _register_a2dp_object, BoInv
  <2> QED BY <1>t, <2>1, <2>2, BoRegisters DEF BoInv, ObjectsAreServed, BoRequests, BoSignals
<1>6. CASE bt_agent_unregister
  <2>1. /\ bo_kind = "agent" /\ bo_bluez # NoOption /\ UnregisterObject
        /\ bo_bluez' = NoOption /\ bo_app' = NoOption
        /\ UNCHANGED <<bo_kind, bo_half, BoRequests, BoTransports>>
    BY <1>6 DEF bt_agent_unregister
  <2>2. ~ bo_half
    BY <2>1 DEF BoInv
  <2> QED BY <1>t, <2>1, <2>2, BoUnregisters DEF BoInv, ObjectsAreServed, BoRequests, BoSignals
<1>7. CASE bt_spp_unregister_profile
  <2>1. /\ bo_kind = "spp" /\ ~ bo_half /\ bo_bluez # NoOption /\ UnregisterObject
        /\ bo_bluez' = NoOption /\ bo_app' = NoOption
        /\ UNCHANGED <<bo_kind, bo_half, BoRequests, BoTransports>>
    BY <1>7 DEF bt_spp_unregister_profile
  <2> QED BY <1>t, <2>1, BoUnregisters DEF BoInv, ObjectsAreServed, BoRequests, BoSignals
<1>8. CASE bt_a2dp_source_unregister
  <2>1. /\ bo_kind = "a2dp" /\ ~ bo_half /\ bo_bluez # NoOption /\ UnregisterObject
        /\ bo_bluez' = NoOption /\ bo_app' = NoOption
        /\ UNCHANGED <<bo_kind, bo_half, bo_open, bo_handed, a2dp_path, bo_made>>
        /\ TransportGoes
    BY <1>8 DEF bt_a2dp_source_unregister, UnsetTransport
  <2>2. BoSignals'
    BY <1>0, <2>1, BoGoes
  <2> QED BY <2>1, <2>2, BoUnregisters DEF BoInv, ObjectsAreServed, BoSignals
<1>9. CASE bt_a2dp_source_set_callback
  BY <1>9, <1>t DEF bt_a2dp_source_set_callback, BoInv, ObjectsAreServed, BoExports, BoSignals
<1>10. ASSUME NEW c \in {1, 2}, BluezCalls(c) PROVE BoInv'
  <2>1. /\ bo_bluez # NoOption /\ ~ bo_half /\ (bo_kind = "a2dp" => bo_callback)
        /\ UNCHANGED <<bo_kind, BoExports, bo_endpoint, bo_half, bo_bluez, bo_app, BoTransports>>
    BY <1>10 DEF BluezCalls, BoCalm
  <2>2. bo_exported # 0
    BY <2>1 DEF BoInv, ObjectsAreServed
  <2>3. handle_method_call(c) /\ UNCHANGED bo_fault
    BY <1>10, <2>2 DEF BluezCalls
  <2>4. bo_open' = bo_handed'
    BY <2>1, <2>3 DEF handle_method_call, _agent_callback, default_request, _handle_method_call,
                      _handle_select_configuration, BoInv, ObjectsAreServed
  <2> QED BY <1>t, <2>1, <2>3, <2>4 DEF BoInv, ObjectsAreServed, BoExports, BoSignals
<1>11. ASSUME NEW c \in {1, 2}, send_response(c) PROVE BoInv'
  BY <1>11, <1>t DEF send_response, BoInv, ObjectsAreServed, BoExports, BoSignals
<1>12. CASE BluezRestarts
  BY <1>12, <1>t DEF BluezRestarts, BoCalm, BoInv, ObjectsAreServed, BoExports, BoRequests, BoSignals
<1>13. CASE _handle_set_configuration
  <2>1. /\ UNCHANGED BoRest /\ bo_live' = bo_made + 1 /\ bo_made' = bo_made + 1
        /\ bo_signals' = Append(bo_signals, bo_made + 1)
    BY <1>13 DEF _handle_set_configuration, TransportStep, BoRest
  <2>2. bo_signals' \in Seq(Nat) /\ bo_signals' # <<>> /\ bo_signals'[Len(bo_signals')] = bo_made + 1
    BY <2>1, <1>0 DEF BoSignals
  <2> QED BY <1>0, <2>1, <2>2, BoKept DEF BoSignals
<1>14. CASE _handle_clear_configuration
  <2>1. UNCHANGED BoRest /\ TransportGoes /\ UNCHANGED <<bo_made, a2dp_path>>
    BY <1>14 DEF _handle_clear_configuration, TransportStep, BoRest
  <2> QED BY <1>0, <2>1, BoGoes, BoKept
<1>15. CASE TransportSignal
  <2>1. /\ UNCHANGED BoRest /\ UNCHANGED <<bo_live, bo_made>> /\ bo_signals # <<>>
        /\ a2dp_path' = Head(bo_signals) /\ bo_signals' = Tail(bo_signals)
    BY <1>15 DEF TransportSignal, TransportStep, BoRest
  <2>2. /\ bo_signals' \in Seq(Nat)
        /\ bo_signals' = <<>> => a2dp_path' = bo_signals[Len(bo_signals)]
        /\ bo_signals' # <<>> => bo_signals'[Len(bo_signals')] = bo_signals[Len(bo_signals)]
    <3> DEFINE n == Len(bo_signals)
    <3>1. /\ bo_signals \in Seq(Nat) /\ n \in Nat \ {0} /\ bo_signals' \in Seq(Nat)
          /\ Len(bo_signals') = n - 1 /\ a2dp_path' = bo_signals[1]
          /\ \A i \in 1 .. n - 1 : bo_signals'[i] = bo_signals[i + 1]
      BY <1>0, <2>1 DEF BoSignals
    <3>2. bo_signals' = <<>> => n = 1
      BY <3>1
    <3>3. bo_signals' # <<>> => bo_signals'[n - 1] = bo_signals[n]
      <4>1. bo_signals' # <<>> => n - 1 \in 1 .. n - 1 /\ (n - 1) + 1 = n
        BY <3>1
      <4> QED BY <3>1, <4>1
    <3> QED BY <3>1, <3>2, <3>3
  <2> QED BY <1>0, <2>1, <2>2, BoKept DEF BoSignals
<1>16. CASE bt_a2dp_source_acquire
  <2>1. UNCHANGED BoRest
    BY <1>16 DEF bt_a2dp_source_acquire, BoCalm, TransportStep, BoRest
  <2> QED BY <1>16, <1>t, <2>1, BoKept DEF bt_a2dp_source_acquire
<1>17. CASE _get_media_transport_path
  <2>1. UNCHANGED BoRest
    BY <1>17 DEF _get_media_transport_path, TransportStep, BoRest
  <2> QED BY <1>0, <1>17, <2>1, BoKept DEF _get_media_transport_path, BoSignals
<1>18. CASE UNCHANGED bovars
  BY <1>18, <1>t DEF bovars, BoTransports, BoInv, ObjectsAreServed, BoSignals
<1> QED BY <1>1, <1>2, <1>3, <1>4, <1>5, <1>6, <1>7, <1>8, <1>9, <1>10, <1>11, <1>12, <1>13, <1>14,
           <1>15, <1>16, <1>17, <1>18 DEF BoNext

-----------------------------------------------------------------------------
\* One advertisement is listed under path 0, and its registration is answered
\* or not; or there is none.
AdInv ==
    /\ ~ ad_fault
    /\ \/ /\ ad_list = <<>> /\ ad_asked = <<>> /\ ad_bluez = {}
          /\ \A u \in AdUsers : ad_ids[u] = AdNone
       \/ /\ \E v \in AdUsers : /\ ad_list = <<[user |-> v, path |-> 0]>>
                                /\ \A u \in AdUsers : ad_ids[u] = IF u = v THEN 0 ELSE AdNone
          /\ ad_node \in ad_nodes
          /\ \/ ad_asked = <<0>> /\ ad_bluez = {}
             \/ ad_asked = <<>> /\ ad_bluez = {0}
    /\ DOMAIN ad_ids = AdUsers

LEMMA AdStarts == AdInit => AdInv
BY DEF AdInit, AdInv

LEMMA AdGives == AdInv => AdvertisementsAreKept
<1> SUFFICES ASSUME AdInv PROVE AdvertisementsAreKept
  OBVIOUS
<1> USE DEF AdNone, AdPaths
<1>1. CASE ad_list = <<>>
  BY <1>1 DEF AdInv, AdvertisementsAreKept
<1>2. CASE ad_list # <<>>
  <2>1. PICK v \in AdUsers : /\ ad_list = <<[user |-> v, path |-> 0]>>
                             /\ \A u \in AdUsers : ad_ids[u] = IF u = v THEN 0 ELSE AdNone
    BY <1>2 DEF AdInv
  <2>2. Len(ad_list) = 1 /\ DOMAIN ad_list = {1} /\ ad_list[1] = [user |-> v, path |-> 0]
    BY <2>1
  <2>3. AdPaths = {0}
    BY <2>2
  <2>4. ASSUME NEW u \in AdUsers, ad_ids[u] # AdNone
        PROVE  ad_ids[u] < Len(ad_list) /\ ad_list[ad_ids[u] + 1].user = u
    <3>1. u = v /\ ad_ids[u] = 0
      BY <2>1, <2>4
    <3> QED BY <2>2, <3>1
  <2> QED BY <1>2, <2>3, <2>4 DEF AdInv, AdvertisementsAreKept
<1> QED BY <1>1, <1>2

LEMMA AdSteps == BoCalm /\ AdInv /\ [AdNext]_advars => AdInv'
<1> SUFFICES ASSUME BoCalm, AdInv, [AdNext]_advars PROVE AdInv'
  OBVIOUS
<1>1. ASSUME NEW u \in AdUsers, bt_register_advertisement(u) PROVE AdInv'
  <2>1. ad_list = <<>> /\ ad_asked = <<>> /\ ad_bluez = {} /\ \A w \in AdUsers : ad_ids[w] = AdNone
    BY <1>1 DEF bt_register_advertisement, BoCalm, AdInv
  <2>2. DOMAIN ad_list = {} /\ Len(ad_list) = 0
    BY <2>1
  <2>3. AdPaths = {}
    BY <2>2 DEF AdPaths
  <2>4. /\ ad_list' = <<[user |-> u, path |-> 0]>> /\ ad_asked' = <<0>> /\ ad_bluez' = {}
        /\ ad_ids' = [ad_ids EXCEPT ![u] = 0] /\ ad_node' \in ad_nodes' /\ ad_fault' = ad_fault
    BY <1>1, <2>1, <2>2, <2>3 DEF bt_register_advertisement
  <2>5. \A w \in AdUsers : ad_ids'[w] = IF w = u THEN 0 ELSE AdNone
    BY <2>1, <2>4 DEF AdInv
  <2>6. DOMAIN ad_ids' = AdUsers
    BY <2>4 DEF AdInv
  <2> QED BY <2>4, <2>5, <2>6 DEF AdInv
<1>2. ASSUME NEW u \in AdUsers, bt_unregister_advertisement(u) PROVE AdInv'
  <2>1. ad_ids[u] # AdNone /\ DOMAIN ad_ids = AdUsers
    BY <1>2 DEF bt_unregister_advertisement, AdInv
  <2>2. /\ ad_list = <<[user |-> u, path |-> 0]>> /\ ad_ids[u] = 0 /\ ad_node \in ad_nodes
        /\ \A w \in AdUsers \ {u} : ad_ids[w] = AdNone
    BY <2>1 DEF AdInv
  <2>3. ad_list[ad_ids[u] + 1].path = 0 /\ ad_ids[u] + 1 = 1
    BY <2>2
  <2>4. ad_bluez = {0} /\ ad_asked = <<>>
    BY <1>2, <2>2, <2>3 DEF bt_unregister_advertisement, AdInv
  <2>5. RemoveAt(ad_list, 1) = <<>>
    <3>1. ad_list \in Seq({[user |-> u, path |-> 0]}) /\ 1 \in 1 .. Len(ad_list) /\ Len(ad_list) = 1
      BY <2>2
    <3> QED BY <3>1, RemoveAtIs
  <2>6. /\ ad_list' = <<>> /\ ad_bluez' = {} /\ ad_asked' = <<>> /\ ~ ad_fault'
        /\ ad_ids' = [ad_ids EXCEPT ![u] = AdNone]
    BY <1>2, <2>2, <2>3, <2>4, <2>5 DEF bt_unregister_advertisement, AdInv
  <2> QED BY <2>1, <2>2, <2>6 DEF AdInv
<1>3. ASSUME NEW ok \in BOOLEAN, _asyn_ready_cb(ok) PROVE AdInv'
  <2>1. ad_asked # <<>> /\ ok
    BY <1>3 DEF _asyn_ready_cb, BoCalm
  <2>2. ad_asked = <<0>> /\ ad_bluez = {} /\ ad_list # <<>>
    BY <2>1 DEF AdInv
  <2>3. Head(ad_asked) = 0 /\ Tail(ad_asked) = <<>>
    BY <2>2
  <2>4. ad_asked' = <<>> /\ ad_bluez' = {0} /\ UNCHANGED <<ad_list, ad_ids, ad_node, ad_nodes, ad_fault>>
    BY <1>3, <2>1, <2>2, <2>3 DEF _asyn_ready_cb
  <2> QED BY <2>2, <2>4 DEF AdInv
<1>4. CASE UNCHANGED advars
  BY <1>4 DEF advars, AdInv
<1> QED BY <1>1, <1>2, <1>3, <1>4 DEF AdNext

-----------------------------------------------------------------------------
(* Bluetooth: what is kept of a device.                                    *)

\* Devices accept what they are asked for and stay; notifications of one UUID
\* come from one place; a list of items is freed before the next call.
RmCalm == RmUnusual = {}

LEMMA PnStarts == PnInit => NetworkIsKnown
BY DEF PnInit, NetworkIsKnown

LEMMA PnSteps == RmCalm /\ NetworkIsKnown /\ [PnNext]_pnvars => NetworkIsKnown'
<1> SUFFICES ASSUME RmCalm, NetworkIsKnown, [PnNext]_pnvars PROVE NetworkIsKnown'
  OBVIOUS
<1> USE DEF NetworkIsKnown, RmCalm
<1>1. ASSUME NEW d \in PnDevs, NEW fresh \in BOOLEAN, NEW ok \in BOOLEAN, bt_pan_connect(d, fresh, ok)
      PROVE  NetworkIsKnown'
  <2>1. ok /\ _pan_parameter_check(d, fresh)
    BY <1>1 DEF bt_pan_connect
  <2>2. CASE network_path # Nowhere
    BY <1>1, <2>1, <2>2 DEF bt_pan_connect, _is_network_path_valid
  <2>3. CASE network_path = Nowhere
    BY <1>1, <2>1, <2>3 DEF bt_pan_connect, _is_network_path_valid, _generate_device_path
  <2> QED BY <2>2, <2>3
<1>2. ASSUME NEW ok \in BOOLEAN, bt_pan_disconnect(ok) PROVE NetworkIsKnown'
  BY <1>2 DEF bt_pan_disconnect
<1>3. CASE NetworkIsLost
  BY <1>3 DEF NetworkIsLost
<1>4. CASE UNCHANGED pnvars
  BY <1>4 DEF pnvars
<1> QED BY <1>1, <1>2, <1>3, <1>4 DEF PnNext

-----------------------------------------------------------------------------
GnCall == [op : {"StartNotify", "StopNotify"}, char : GnChars]

\* The last call about a characteristic says whether it is asked for; without a
\* call it is what BlueZ knows.
GnMeant(c) ==
    /\ \A i \in DOMAIN gn_calls :
          gn_calls[i].char = c /\ (\A j \in DOMAIN gn_calls : j > i => gn_calls[j].char # c)
             => (c \in gn_app <=> gn_calls[i].op = "StartNotify")
    /\ (\A i \in DOMAIN gn_calls : gn_calls[i].char # c) => (c \in gn_app <=> c \in gn_bluez)

\* What is asked for is listed, has an object and is the only one of its UUID.
GnInv ==
    /\ ~ gn_missed
    /\ gatt_clients \in [GnChars -> Nat]
    /\ gn_calls \in Seq(GnCall)
    /\ gn_app = {c \in GnChars : Listed(c)} /\ gn_app \subseteq gn_objects
    /\ gn_objects \subseteq GnChars /\ gn_bluez \subseteq GnChars
    /\ \A c, d \in gn_app : c.uuid = d.uuid => c = d
    /\ \A c \in GnChars : GnMeant(c)

LEMMA GnStarts == GnInit => GnInv
<1> SUFFICES ASSUME GnInit PROVE GnInv
  OBVIOUS
<1>1. gn_calls = <<>> /\ DOMAIN <<>> = {} /\ <<>> \in Seq(GnCall)
  BY DEF GnInit
<1>2. \A c \in GnChars : GnMeant(c)
  BY <1>1 DEF GnInit, GnMeant
<1> QED BY <1>1, <1>2 DEF GnInit, GnInv, Listed

LEMMA GnGives == GnInv => NotificationsAreRouted
<1> SUFFICES ASSUME GnInv, gn_calls = <<>> PROVE gn_bluez = gn_app
  BY DEF GnInv, NotificationsAreRouted
<1>1. DOMAIN <<>> = {}
  OBVIOUS
<1>2. ASSUME NEW c \in GnChars PROVE c \in gn_app <=> c \in gn_bluez
  BY <1>1 DEF GnInv, GnMeant
<1> QED BY <1>2 DEF GnInv

\* A call is added, for a characteristic that is then asked for, or not.
LEMMA GnCalls ==
    ASSUME gn_calls \in Seq(GnCall), NEW c \in GnChars, NEW op \in {"StartNotify", "StopNotify"},
           gn_calls' = Append(gn_calls, [op |-> op, char |-> c]),
           c \in gn_app' <=> op = "StartNotify",
           \A d \in GnChars \ {c} : d \in gn_app' <=> d \in gn_app,
           UNCHANGED gn_bluez,
           \A d \in GnChars : GnMeant(d)
    PROVE  gn_calls' \in Seq(GnCall) /\ \A d \in GnChars : GnMeant(d)'
<1> DEFINE call == [op |-> op, char |-> c]
           n == Len(gn_calls)
<1>1. call \in GnCall /\ call.char = c /\ call.op = op
  BY DEF GnCall
<1> HIDE DEF call
<1>2. /\ gn_calls' \in Seq(GnCall) /\ n \in Nat
      /\ DOMAIN gn_calls = 1 .. n /\ DOMAIN gn_calls' = 1 .. n + 1 
      /\ \A i \in 1 .. n : gn_calls'[i] = gn_calls[i]
      /\ gn_calls'[n + 1] = call
  BY <1>1 DEF call
<1>3. ASSUME NEW d \in GnChars PROVE GnMeant(d)'
  <2> HIDE DEF n
  <2>1. CASE d = c
    <3>1. ASSUME NEW i \in DOMAIN gn_calls', \A j \in DOMAIN gn_calls' : j > i => gn_calls'[j].char # c
          PROVE  i = n + 1
      BY <1>1, <1>2, <3>1
    <3> QED BY <1>1, <1>2, <2>1, <3>1 DEF GnMeant
  <2>2. CASE d # c
    <3>1. GnMeant(d) /\ (d \in gn_app' <=> d \in gn_app)
      BY <2>2
    <3>2. ASSUME NEW i \in DOMAIN gn_calls', gn_calls'[i].char = d,
                 \A j \in DOMAIN gn_calls' : j > i => gn_calls'[j].char # d
          PROVE  d \in gn_app' <=> gn_calls'[i].op = "StartNotify"
      <4>1. i \in DOMAIN gn_calls
        BY <1>1, <1>2, <2>2, <3>2
      <4>2. gn_calls[i].char = d /\ \A j \in DOMAIN gn_calls : j > i => gn_calls[j].char # d
        BY <1>2, <3>2, <4>1
      <4>3. d \in gn_app <=> gn_calls[i].op = "StartNotify"
        BY <3>1, <4>1, <4>2 DEF GnMeant
      <4> QED BY <1>2, <3>1, <4>1, <4>3
    <3>3. ASSUME \A i \in DOMAIN gn_calls' : gn_calls'[i].char # d
          PROVE  d \in gn_app' <=> d \in gn_bluez'
      <4>1. \A i \in DOMAIN gn_calls : gn_calls[i].char # d
        BY <1>2, <3>3
      <4> QED BY <3>1, <4>1 DEF GnMeant
    <3> QED BY <3>2, <3>3 DEF GnMeant
  <2> QED BY <2>1, <2>2
<1> QED BY <1>2, <1>3

LEMMA GnStart ==
    ASSUME RmCalm, GnInv, NEW c \in GnChars, bt_gatt_start_notify(c)
    PROVE  GnInv'
<1> USE DEF GnInv, RmCalm
<1>1. \A e \in gn_app \ {c} : e.uuid # c.uuid
  BY DEF bt_gatt_start_notify, OnlyOne
<1>2. c \in gn_objects
  <2>1. PICK o \in gn_objects : o.dev = c.dev /\ o.srv = c.srv /\ o.uuid = c.uuid
    BY DEF bt_gatt_start_notify, _get_gatt_path
  <2>2. o = [dev |-> o.dev, srv |-> o.srv, uuid |-> o.uuid] /\ c = [dev |-> c.dev, srv |-> c.srv, uuid |-> c.uuid]
    BY RmAssumption
  <2> QED BY <2>1, <2>2
<1>3. gn_app' = gn_app \cup {c} /\ UNCHANGED <<gn_objects, gn_bluez, gn_missed>>
  BY DEF bt_gatt_start_notify
<1>4. /\ gatt_clients' \in [GnChars -> Nat]
      /\ gn_app' = {e \in GnChars : Listed(e)'}
  BY <1>3 DEF bt_gatt_start_notify, Listed
<1>5. gn_calls' = Append(gn_calls, [op |-> "StartNotify", char |-> c])
  BY DEF bt_gatt_start_notify
<1>6. gn_calls' \in Seq(GnCall) /\ \A d \in GnChars : GnMeant(d)'
  BY <1>3, <1>5, GnCalls
<1>7. \A d, e \in gn_app' : d.uuid = e.uuid => d = e
  BY <1>1, <1>3
<1> QED BY <1>2, <1>3, <1>4, <1>6, <1>7

LEMMA GnStop ==
    ASSUME RmCalm, GnInv, NEW c \in GnChars, bt_gatt_stop_notify(c)
    PROVE  GnInv'
<1> USE DEF GnInv, RmCalm
<1>1. \A e \in gn_app \ {c} : e.uuid # c.uuid
  BY DEF bt_gatt_stop_notify, OnlyOne
<1>3. gn_app' = gn_app \ {c} /\ UNCHANGED <<gn_objects, gn_bluez, gn_missed>>
  BY DEF bt_gatt_stop_notify
<1>4. /\ gatt_clients' \in [GnChars -> Nat]
      /\ gn_app' = {e \in GnChars : Listed(e)'}
  <2>1. gatt_clients' = [e \in GnChars |-> IF e.uuid = c.uuid THEN 0 ELSE gatt_clients[e]]
    BY DEF bt_gatt_stop_notify, _remove_notify
  <2>2. gatt_clients' \in [GnChars -> Nat]
    BY <2>1
  <2>3. ASSUME NEW e \in GnChars PROVE e \in gn_app' <=> gatt_clients'[e] > 0
    BY <1>1, <1>3, <2>1 DEF Listed
  <2> QED BY <1>3, <2>2, <2>3 DEF Listed
<1>5. gn_calls' = Append(gn_calls, [op |-> "StopNotify", char |-> c])
  BY DEF bt_gatt_stop_notify
<1>6. gn_calls' \in Seq(GnCall) /\ \A d \in GnChars : GnMeant(d)'
  BY <1>3, <1>5, GnCalls
<1> QED BY <1>3, <1>4, <1>6

LEMMA GnHandled ==
    ASSUME RmCalm, GnInv, NEW ok \in BOOLEAN, BluezHandles(ok)
    PROVE  GnInv'
<1> DEFINE call == Head(gn_calls)
           n == Len(gn_calls)
<1> USE DEF GnInv
<1>1. /\ gn_calls # <<>> /\ ok /\ gn_calls' = Tail(gn_calls)
      /\ gn_bluez' = IF call.op = "StopNotify" THEN gn_bluez \ {call.char}
                     ELSE gn_bluez \cup ({call.char} \cap gn_objects)
      /\ UNCHANGED <<gatt_clients, gn_objects, gn_app, gn_missed>>
  BY DEF BluezHandles, RmCalm
<1>2. /\ n \in Nat \ {0} /\ DOMAIN gn_calls = 1 .. n /\ DOMAIN gn_calls' = 1 .. n - 1
      /\ gn_calls' \in Seq(GnCall) /\ call = gn_calls[1] /\ call \in GnCall
      /\ \A i \in 1 .. n - 1 : gn_calls'[i] = gn_calls[i + 1]
  BY <1>1
<1>3. call.op \in {"StartNotify", "StopNotify"} /\ call.char \in GnChars
  BY <1>2 DEF GnCall
<1> HIDE DEF call, n
<1>4. ASSUME NEW d \in GnChars PROVE GnMeant(d)'
  <2>1. GnMeant(d)
    OBVIOUS
  <2>2. ASSUME NEW i \in DOMAIN gn_calls', gn_calls'[i].char = d,
               \A j \in DOMAIN gn_calls' : j > i => gn_calls'[j].char # d
        PROVE  d \in gn_app' <=> gn_calls'[i].op = "StartNotify"
    <3>1. i \in Nat /\ i + 1 \in DOMAIN gn_calls /\ gn_calls[i + 1] = gn_calls'[i]
      BY <1>2
    <3>2. ASSUME NEW j \in DOMAIN gn_calls, j > i + 1 PROVE gn_calls[j].char # d
      <4>1. j - 1 \in DOMAIN gn_calls' /\ j - 1 > i /\ (j - 1) + 1 = j
        BY <1>2, <3>1, <3>2
      <4>2. gn_calls'[j - 1] = gn_calls[j]
        BY <1>2, <4>1
      <4> QED BY <2>2, <4>1, <4>2
    <3>3. d \in gn_app <=> gn_calls[i + 1].op = "StartNotify"
      BY <2>1, <2>2, <3>1, <3>2 DEF GnMeant
    <3> QED BY <1>1, <3>1, <3>3
  <2>3. ASSUME \A i \in DOMAIN gn_calls' : gn_calls'[i].char # d
        PROVE  d \in gn_app' <=> d \in gn_bluez'
    <3>1. ASSUME NEW j \in DOMAIN gn_calls, j # 1 PROVE gn_calls[j].char # d
      <4>1. j - 1 \in DOMAIN gn_calls' /\ (j - 1) + 1 = j
        BY <1>2, <3>1
      <4>2. gn_calls'[j - 1] = gn_calls[j]
        BY <1>2, <4>1
      <4> QED BY <2>3, <4>1, <4>2
    <3>2. CASE call.char = d
      <4>1. d \in gn_app <=> call.op = "StartNotify"
        <5>1. 1 \in DOMAIN gn_calls /\ \A j \in DOMAIN gn_calls : j > 1 => j # 1
          BY <1>2
        <5> QED BY <1>2, <2>1, <3>1, <3>2, <5>1 DEF GnMeant
      <4> QED BY <1>1, <1>3, <3>2, <4>1
    <3>3. CASE call.char # d
      <4>1. \A j \in DOMAIN gn_calls : gn_calls[j].char # d
        BY <1>2, <3>1, <3>3
      <4>2. d \in gn_app <=> d \in gn_bluez
        BY <2>1, <4>1 DEF GnMeant
      <4> QED BY <1>1, <3>3, <4>2
    <3> QED BY <3>2, <3>3
  <2> QED BY <2>2, <2>3 DEF GnMeant
<1> QED BY <1>1, <1>2, <1>3, <1>4 DEF Listed

LEMMA GnSteps == RmCalm /\ GnInv /\ [GnNext]_gnvars => GnInv'
<1> SUFFICES ASSUME RmCalm, GnInv, [GnNext]_gnvars PROVE GnInv'
  OBVIOUS
<1>3. ASSUME NEW c \in GnChars, _gatt_properties_changed(c) PROVE GnInv'
  <2>1. UNCHANGED <<gatt_clients, gn_objects, gn_calls, gn_bluez, gn_app>>
    BY <1>3 DEF _gatt_properties_changed
  <2>2. c \in gn_app => Listed(c)
    BY DEF GnInv
  <2>3. ~ gn_missed'
    BY <1>3, <2>2 DEF GnInv, _gatt_properties_changed
  <2> QED BY <2>1, <2>3 DEF GnInv, Listed, GnMeant
<1>5. ASSUME NEW c \in GnChars, DeviceReturns(c.dev) PROVE GnInv'
  <2>1. /\ \A e \in gn_app \cup gn_bluez : e.dev # c.dev
        /\ gn_bluez' = gn_bluez
        /\ gn_app \subseteq gn_objects' /\ gn_objects' \subseteq GnChars
        /\ UNCHANGED <<gatt_clients, gn_calls, gn_app, gn_missed>>
    BY <1>5 DEF DeviceReturns, RmCalm, GnInv
  <2> QED BY <2>1 DEF GnInv, Listed, GnMeant
<1>6. CASE UNCHANGED gnvars
  BY <1>6 DEF GnInv, gnvars, Listed, GnMeant
<1> QED BY <1>3, <1>5, <1>6, GnStart, GnStop, GnHandled DEF GnNext

-----------------------------------------------------------------------------
AvNames == DOMAIN AvFolders

AvBlocks(list) == {list[i].block : i \in DOMAIN list}

\* The list the application holds is the latest one, and its blocks are there.
AvInv ==
    /\ av_connected \subseteq ToSet(AvPlayers)
    /\ av_folder \in [ToSet(AvPlayers) -> AvNames]
    /\ items # <<>> /\ is_latest_item =>
       /\ _get_player_path # Nowhere
       /\ \A i \in DOMAIN items : Contains(FolderListing, items[i].path)
    /\ av_list # <<>> => av_list = items
    /\ AvBlocks(items) \subseteq av_blocks
    /\ av_played[1] = av_played[2]

LEMMA AvGives == AvInv => ItemsAreCurrent
<1> SUFFICES ASSUME AvInv, NEW i \in DOMAIN av_list PROVE av_list[i].block \in av_blocks
  BY DEF AvInv, ItemsAreCurrent
<1>1. DOMAIN <<>> = {}
  OBVIOUS
<1> QED BY <1>1 DEF AvInv, AvBlocks

LEMMA AvStarts == AvInit => AvInv
<1> SUFFICES ASSUME AvInit PROVE AvInv
  OBVIOUS
<1>1. DOMAIN <<>> = {}
  OBVIOUS
<1>2. AvBlocks(items) = {}
  BY <1>1 DEF AvInit, AvBlocks
<1> QED BY <1>2, RmAssumption DEF AvInit, AvInv, AvNames

\* The player is one of them.
LEMMA PlayerKnown == _get_player_path # Nowhere => _get_player_path \in ToSet(AvPlayers)
<1> SUFFICES ASSUME _get_player_path # Nowhere PROVE _get_player_path \in ToSet(AvPlayers)
  OBVIOUS
<1> DEFINE I == {i \in 1 .. Len(AvPlayers) : AvPlayers[i] \in av_connected}
<1>1. _get_control_path = IF I # {} THEN Min(I) ELSE 0
  BY DEF _get_control_path, SelectInSeq
<1>2. _get_control_path # 0 /\ _get_player_path = AvPlayers[_get_control_path]
  BY DEF _get_player_path
<1>3. I # {} /\ I \subseteq Nat
  BY <1>1, <1>2
<1>4. Min(I) \in I
  <2> HIDE DEF I
  <2> QED BY <1>3, MinIs
<1>5. DOMAIN AvPlayers = 1 .. Len(AvPlayers)
  BY RmAssumption
<1> QED BY <1>1, <1>2, <1>3, <1>4, <1>5 DEF ToSet

LEMMA AvListed ==
    ASSUME RmCalm, AvInv, NEW start \in {1, 2}, bt_avrcp_controller_list_item(start)
    PROVE  AvInv'
<1> DEFINE folder == FolderListing
           found == SubSeq(folder, start, Len(folder))
           new == [i \in DOMAIN found |-> [path |-> found[i], block |-> av_last + i]]
<1>1. _get_player_path \in ToSet(AvPlayers)
  BY PlayerKnown DEF bt_avrcp_controller_list_item
<1>2. folder \in Seq(ToSet(folder))
  <2>1. av_folder[_get_player_path] \in AvNames
    BY <1>1 DEF AvInv
  <2> QED BY <2>1, RmAssumption DEF FolderListing, AvNames
<1>3. /\ items' = new /\ av_list' = new
      /\ av_blocks' = (av_blocks \ AvBlocks(items)) \cup AvBlocks(new)
      /\ _get_player_path # Nowhere
      /\ UNCHANGED <<av_connected, av_folder, av_played>>
  BY DEF bt_avrcp_controller_list_item, _parse_list, AvBlocks
<1>4. _get_player_path' = _get_player_path /\ FolderListing' = folder
  BY <1>3 DEF _get_player_path, _get_control_path, SelectInSeq, FolderListing
<1>5. ASSUME NEW i \in DOMAIN new PROVE Contains(folder, new[i].path)
  <2> HIDE DEF folder
  <2>1. Len(folder) \in Nat /\ i \in DOMAIN found
    BY <1>2
  <2>2. found[i] = folder[start + i - 1] /\ start + i - 1 \in 1 .. Len(folder)
    BY <1>2, <2>1
  <2>3. new[i].path = found[i]
    BY <2>1
  <2> QED BY <2>2, <2>3 DEF Contains
<1>6. AvBlocks(items)' = AvBlocks(new)
  BY <1>3 DEF AvBlocks
<1> HIDE DEF folder, new
<1> QED BY <1>3, <1>4, <1>5, <1>6 DEF AvInv

LEMMA AvSteps == RmCalm /\ AvInv /\ [AvNext]_avvars => AvInv'
<1> SUFFICES ASSUME RmCalm, AvInv, [AvNext]_avvars PROVE AvInv'
  OBVIOUS
<1>0. DOMAIN <<>> = {} /\ AvBlocks(<<>>) = {}
  BY DEF AvBlocks
<1>p. UNCHANGED <<av_connected, av_folder>> => _get_player_path' = _get_player_path /\ FolderListing' = FolderListing
  BY DEF _get_player_path, _get_control_path, SelectInSeq, FolderListing
<1>1. CASE _avrcp_deinit
  BY <1>0, <1>1 DEF _avrcp_deinit, FreeItems, AvInv, RmCalm
<1>3. CASE bt_avrcp_controller_free_items
  BY <1>3, <1>p DEF bt_avrcp_controller_free_items, AvInv, AvBlocks
<1>4. ASSUME NEW index \in 0 .. 2, bt_avrcp_controller_change_folder(index) PROVE AvInv'
  <2>1. items' = <<>> /\ av_list = <<>> /\ UNCHANGED <<av_list, av_connected, av_played>>
    BY <1>4 DEF bt_avrcp_controller_change_folder, ForgetsFolder, FreeItems, RmCalm
  <2>2. av_folder' \in [ToSet(AvPlayers) -> AvNames]
    BY <1>4 DEF bt_avrcp_controller_change_folder, AvInv, AvNames
  <2> QED BY <1>0, <2>1, <2>2 DEF AvInv
<1>5. ASSUME NEW index \in 1 .. 2, bt_avrcp_controller_play_item(index) PROVE AvInv'
  <2>1. /\ index \in DOMAIN av_list /\ _get_item_from_index(index) # Nowhere
        /\ av_played' = <<_get_item_from_index(index), av_list[index].path>>
        /\ UNCHANGED <<items, is_latest_item, av_blocks, av_list, av_connected, av_folder>>
    BY <1>5 DEF bt_avrcp_controller_play_item
  <2>2. av_list # <<>> /\ av_list = items
    BY <1>0, <2>1 DEF AvInv
  <2>3. _get_item_from_index(index) = items[index].path
    BY <2>1 DEF _get_item_from_index
  <2>4. av_played'[1] = av_played'[2]
    BY <2>1, <2>2, <2>3
  <2> QED BY <1>p, <2>1, <2>4 DEF AvInv, AvBlocks
<1>6. CASE PlayersChange
  <2>1. items = <<>> /\ UNCHANGED <<items, is_latest_item, av_blocks, av_list, av_played>>
    BY <1>6 DEF PlayersChange, RmCalm
  <2>2. av_connected' \subseteq ToSet(AvPlayers)
    BY <1>6 DEF PlayersChange, AvInv
  <2>3. av_folder' \in [ToSet(AvPlayers) -> AvNames]
    BY <1>6 DEF PlayersChange, AvInv, AvNames
  <2> QED BY <2>1, <2>2, <2>3 DEF AvInv, AvBlocks
<1>7. CASE UNCHANGED avvars
  BY <1>7, <1>p DEF avvars, AvInv, AvBlocks
<1> QED BY <1>1, <1>3, <1>4, <1>5, <1>6, <1>7, AvListed DEF AvNext

-----------------------------------------------------------------------------
(* CoAP on TizenRT: sessions and associations.                             *)

\* Peers come from new addresses, close nothing, and can be sent to; a server is
\* stopped without sessions.
CtCalm == CtUnusual = {}

CcInv ==
    /\ cc_delayed = {} /\ cc_freed = FALSE
    /\ cc_connected \in BOOLEAN /\ cc_tls \in BOOLEAN
    /\ cc_proto \in {"udp", "dtls"} /\ cc_state \in {"NONE", "ESTABLISHED"}
    /\ cc_error \in {"none", "refused", "bad"}
    /\ ~cc_connected => cc_waiting = {} /\ cc_error = "none"
    /\ cc_connected /\ cc_proto = "dtls" => cc_state = "ESTABLISHED"
    /\ cc_error = "refused" => cc_proto = "udp" /\ cc_waiting = {}
    /\ cc_waiting # {} => cc_state = "ESTABLISHED"

LEMMA CcStarts == CcInit => CcInv
  BY DEF CcInit, CcInv

LEMMA CcConnectKeeps ==
    ASSUME CcInv, NEW proto \in {"udp", "dtls"}, NEW ok \in BOOLEAN, coap_session_connect(proto, ok) PROVE CcInv'
  BY DEF coap_session_connect, CcInv

LEMMA CcFreed ==
    ASSUME CcInv, coap_session_free, UNCHANGED cc_freed PROVE CcInv'
  BY DEF coap_session_free, CcInv

LEMMA CcSendKeeps ==
    ASSUME CtCalm, CcInv, NEW m, NEW con \in BOOLEAN, NEW written \in BOOLEAN, artik_coap_send(m, con, written) PROVE CcInv'
<1>1. coap_send_packet \in {"sent", "failed"} /\ (coap_send_packet = "sent" => cc_state = "ESTABLISHED")
  BY DEF coap_send_packet, artik_coap_send, CcInv
<1>2. coap_send_packet # "delayed"
  BY <1>1
<1>3. /\ cc_delayed' = cc_delayed /\ cc_state' = cc_state /\ cc_tls' = (cc_tls \/ FALSE)
      /\ UNCHANGED <<cc_proto, cc_connected, cc_error, cc_freed>>
  BY <1>2 DEF artik_coap_send
<1>4. \/ cc_waiting' = cc_waiting
      \/ coap_send_packet = "sent" /\ con /\ written /\ cc_waiting' = cc_waiting \cup {m}
  BY DEF artik_coap_send
<1>5. cc_connected /\ ~(con /\ cc_error = "refused")
  BY DEF artik_coap_send, CtCalm
<1> QED BY <1>1, <1>3, <1>4, <1>5 DEF CcInv

LEMMA CcSteps == CtCalm /\ CcInv /\ [CcNext]_ccvars => CcInv'
<1> SUFFICES ASSUME CtCalm, CcInv, [CcNext]_ccvars PROVE CcInv'
  OBVIOUS
<1>1. ASSUME CcDisconnect PROVE CcInv'
  BY <1>1, CcFreed DEF CcDisconnect
<1>2. ASSUME NEW m, AnswerArrives(m) PROVE CcInv'
  BY <1>2 DEF AnswerArrives, CcInv
<1>3. ASSUME NEW error \in {"refused", "bad", "alert"}, SocketSays(error) PROVE CcInv'
  BY <1>3 DEF SocketSays, CcInv, CtCalm
<1>4. ASSUME coap_read_session PROVE CcInv'
  <2>1. CASE cc_error = "refused"
    BY <1>4, <2>1 DEF coap_read_session, IsReset, coap_session_reset, CcInv
  <2>2. CASE cc_error # "refused"
    <3>1. cc_error # "alert"
      BY DEF CcInv
    <3> QED BY <1>4, <2>2, <3>1 DEF coap_read_session, IsReset, CcInv
  <2> QED BY <2>1, <2>2
<1>5. ASSUME UNCHANGED ccvars PROVE CcInv'
  BY <1>5 DEF ccvars, CcInv
<1> QED BY <1>1, <1>2, <1>3, <1>4, <1>5, CcConnectKeeps, CcSendKeeps DEF CcNext

LEMMA CcGives == CcInv => AcceptedIsSent
  BY DEF CcInv, AcceptedIsSent

-----------------------------------------------------------------------------
CtKinds == {"hello", "get", "observe", "cancel"}
CtSession == [peer : CtPeers, assoc : Nat, ref : Nat, dead : BOOLEAN]
CtDatagram == [src : CtPeers, kind : CtKinds, assoc : Nat]

\* The sessions of a list are of different peers.
CtDistinct(list) == \A i, j \in 1 .. Len(list) : list[i].peer = list[j].peer => i = j

CtGood(s, peers, observers) ==
    /\ s.ref = IF s.peer \in observers THEN 1 ELSE 0
    /\ peers[s.peer] \in {0, s.assoc} /\ ~s.dead

\* The sessions a server may have: of different peers, each as it should be, and
\* one for every observer.
CtFits(list, peers, observers) ==
    /\ list \in Seq(CtSession) /\ CtDistinct(list)
    /\ \A i \in 1 .. Len(list) : CtGood(list[i], peers, observers)
    /\ \A p \in observers : \E i \in 1 .. Len(list) : list[i].peer = p

\* A first datagram is the only one of a peer without session.
CtHello(i, in, list, peers) ==
    in[i].kind = "hello" =>
        /\ peers[in[i].src] = 0
        /\ \A k \in 1 .. Len(list) : list[k].peer # in[i].src
        /\ \A j \in 1 .. Len(in) : j # i => in[j].src # in[i].src

CtInv ==
    /\ ct_fault = "none" /\ ct_shut = {} /\ ct_made \in Nat
    /\ ct_peers \in [CtPeers -> Nat] /\ ct_in \in Seq(CtDatagram)
    /\ CtFits(ct_sessions, ct_peers, ct_observers)
    /\ \A i \in 1 .. Len(ct_in) : CtHello(i, ct_in, ct_sessions, ct_peers)

\* Where a session of an address is.
LEMMA CtSessionOfIs ==
    ASSUME NEW list \in Seq(CtSession), NEW p
    PROVE  \/ /\ SessionOf(list, p) = 0
              /\ \A k \in 1 .. Len(list) : list[k].peer # p
           \/ /\ SessionOf(list, p) \in 1 .. Len(list) /\ SessionOf(list, p) # 0
              /\ list[SessionOf(list, p)].peer = p
<1> DEFINE I == {i \in 1 .. Len(list) : list[i].peer = p}
<1>1. SessionOf(list, p) = IF I # {} THEN Min(I) ELSE 0
  BY DEF SessionOf, SelectInSeq
<1>2. I \subseteq 1 .. Len(list) /\ \A i \in 1 .. Len(list) : i \in I <=> list[i].peer = p
  OBVIOUS
<1> HIDE DEF I
<1>3. I \subseteq Nat
  BY <1>2
<1>4. CASE I = {}
  BY <1>1, <1>2, <1>4
<1>5. CASE I # {}
  <2>1. Min(I) \in I /\ SessionOf(list, p) = Min(I)
    BY <1>1, <1>3, <1>5, MinIs
  <2>2. SessionOf(list, p) \in 1 .. Len(list) /\ list[SessionOf(list, p)].peer = p
    BY <1>2, <2>1
  <2>3. Len(list) \in Nat
    BY LenProperties
  <2>4. SessionOf(list, p) # 0
    BY <2>2, <2>3
  <2> QED BY <2>2, <2>4
<1> QED BY <1>4, <1>5

\* A session without references is given up.
LEMMA CtGivesUp ==
    ASSUME NEW list, NEW peers, NEW observers, CtFits(list, peers, observers),
           NEW i \in 1 .. Len(list), list[i].peer \notin observers
    PROVE  /\ CtFits(RemoveAt(list, i), peers, observers)
           /\ \A j \in 1 .. Len(RemoveAt(list, i)) : \E k \in 1 .. Len(list) : RemoveAt(list, i)[j] = list[k]
<1> DEFINE rest == RemoveAt(list, i)
<1>1. list \in Seq(CtSession) /\ Len(list) \in Nat /\ CtDistinct(list)
  BY LenProperties DEF CtFits
<1>2. /\ rest \in Seq(CtSession) /\ Len(rest) = Len(list) - 1
      /\ \A j \in 1 .. Len(list) - 1 : rest[j] = IF j < i THEN list[j] ELSE list[j + 1]
  BY <1>1, RemoveAtIs
<1>3. \A j \in 1 .. Len(rest) : \E k \in 1 .. Len(list) :
         k # i /\ k = (IF j < i THEN j ELSE j + 1) /\ rest[j] = list[k]
  BY <1>1, RemoveAtKeeps
<1> HIDE DEF rest
<1>4. CtDistinct(rest)
  <2> SUFFICES ASSUME NEW j \in 1 .. Len(rest), NEW l \in 1 .. Len(rest), rest[j].peer = rest[l].peer
               PROVE  j = l
    BY DEF CtDistinct
  <2>1. PICK k \in 1 .. Len(list) : k = (IF j < i THEN j ELSE j + 1) /\ rest[j] = list[k]
    BY <1>3
  <2>2. PICK m \in 1 .. Len(list) : m = (IF l < i THEN l ELSE l + 1) /\ rest[l] = list[m]
    BY <1>3
  <2>3. k = m
    BY <1>1, <2>1, <2>2 DEF CtDistinct
  <2> QED BY <1>1, <1>2, <2>1, <2>2, <2>3
<1>5. \A j \in 1 .. Len(rest) : CtGood(rest[j], peers, observers)
  BY <1>3 DEF CtFits
<1>6. ASSUME NEW p \in observers PROVE \E j \in 1 .. Len(rest) : rest[j].peer = p
  <2>1. PICK k \in 1 .. Len(list) : list[k].peer = p
    BY DEF CtFits
  <2>2. k # i
    BY <2>1
  <2> DEFINE j == IF k < i THEN k ELSE k - 1
  <2>3. j \in 1 .. Len(list) - 1 /\ (IF j < i THEN j ELSE j + 1) = k
    BY <1>1, <2>2
  <2>4. rest[j] = list[k]
    BY <1>2, <2>3
  <2> QED BY <1>2, <2>1, <2>3, <2>4
<1>7. \A j \in 1 .. Len(rest) : \E k \in 1 .. Len(list) : rest[j] = list[k]
  BY <1>3
<1> QED BY <1>2, <1>4, <1>5, <1>6, <1>7 DEF CtFits, rest

LEMMA CtEvictedIs ==
    ASSUME NEW list, NEW peers, NEW observers, CtFits(list, peers, observers)
    PROVE  /\ CtFits(Evicted(list), peers, observers)
           /\ \A j \in 1 .. Len(Evicted(list)) : \E k \in 1 .. Len(list) : Evicted(list)[j] = list[k]
<1> DEFINE I == {i \in 1 .. Len(list) : CtIdle(list[i])}
           oldest == SelectInSeq(list, CtIdle)
<1>1. oldest = IF I # {} THEN Min(I) ELSE 0
  BY DEF SelectInSeq
<1>2. I \subseteq 1 .. Len(list) /\ \A i \in I : list[i].ref = 0
  BY DEF CtIdle
<1>3. Evicted(list) = list \/ Evicted(list) = RemoveAt(list, oldest)
  BY DEF Evicted
<1>4. list \in Seq(CtSession)
  BY DEF CtFits
<1> HIDE DEF I, oldest
<1>5. CASE I = {}
  <2>1. Evicted(list) = list
    BY <1>1, <1>3, <1>4, <1>5, RemoveAtZero
  <2> QED BY <2>1
<1>6. CASE I # {}
  <2>1. I \subseteq Nat
    BY <1>2
  <2>2. oldest \in I
    BY <1>1, <1>6, <2>1, MinIs
  <2>3. oldest \in 1 .. Len(list) /\ list[oldest].peer \notin observers
    BY <1>2, <2>2 DEF CtFits, CtGood
  <2> QED BY <1>3, <2>3, CtGivesUp
<1> QED BY <1>5, <1>6

\* A hello stays the only datagram of its peer in what is left of the socket and
\* of the sessions.
LEMMA CtHelloStays ==
    ASSUME NEW in \in Seq(CtDatagram), NEW list, NEW peers, NEW i \in 1 .. Len(in), CtHello(i, in, list, peers),
           NEW in2 \in Seq(CtDatagram), NEW list2, NEW peers2, NEW j \in 1 .. Len(in2), in2[j] = in[i],
           peers[in[i].src] = 0 => peers2[in[i].src] = 0,
           \A k \in 1 .. Len(list2) : \E m \in 1 .. Len(list) : list2[k].peer = list[m].peer,
           \A k \in 1 .. Len(in2) : k # j => \E m \in 1 .. Len(in) : m # i /\ in2[k] = in[m]
    PROVE  CtHello(j, in2, list2, peers2)
  BY DEF CtHello

LEMMA CtNewKeeps == ASSUME CtInv, coap_new_endpoint PROVE CtInv'
  BY DEF coap_new_endpoint, CtInv

LEMMA CtFreeKeeps == ASSUME CtCalm, CtInv, coap_free_endpoint PROVE CtInv'
<1>1. /\ ct_sessions = <<>> /\ ct_sessions' = <<>> /\ ct_in' = <<>> /\ ct_observers' = {}
      /\ ct_fault' = ct_fault /\ UNCHANGED <<ct_peers, ct_made, ct_shut>>
  BY DEF coap_free_endpoint, CtCalm
<1>2. Len(ct_in') = 0 /\ Len(ct_sessions') = 0 /\ ct_in' \in Seq(CtDatagram) /\ ct_sessions' \in Seq(CtSession)
  BY <1>1, EmptySeq
<1>3. CtFits(ct_sessions', ct_peers', ct_observers')
  BY <1>1, <1>2 DEF CtFits, CtDistinct
<1> QED BY <1>1, <1>2, <1>3 DEF CtInv

\* Sessions that are given up leave the others, and what waits in the socket, as
\* they were.
LEMMA CtWriteKeeps == ASSUME CtInv, coap_write PROVE CtInv'
<1>1. PICK i \in DOMAIN ct_sessions :
         /\ CtIdle(ct_sessions[i]) /\ ct_sessions' = RemoveAt(ct_sessions, i)
         /\ UNCHANGED <<ct_open, ct_in, ct_peers, ct_observers, ct_made, ct_shut, ct_fault>>
  BY DEF coap_write
<1>2. i \in 1 .. Len(ct_sessions) /\ CtFits(ct_sessions, ct_peers, ct_observers)
  BY LenProperties DEF CtInv, CtFits
<1>3. ct_sessions[i].peer \notin ct_observers
  BY <1>1, <1>2 DEF CtFits, CtGood, CtIdle
<1>4. /\ CtFits(ct_sessions', ct_peers, ct_observers)
      /\ \A j \in 1 .. Len(ct_sessions') : \E k \in 1 .. Len(ct_sessions) : ct_sessions'[j] = ct_sessions[k]
  BY <1>1, <1>2, <1>3, CtGivesUp
<1>5. ASSUME NEW j \in 1 .. Len(ct_in) PROVE CtHello(j, ct_in, ct_sessions', ct_peers)
  <2>1. ct_in \in Seq(CtDatagram) /\ CtHello(j, ct_in, ct_sessions, ct_peers)
    BY DEF CtInv
  <2> QED BY <1>4, <2>1 DEF CtHello
<1> QED BY <1>1, <1>4, <1>5 DEF CtInv

LEMMA CtLossKeeps == ASSUME CtInv, DatagramIsLost PROVE CtInv'
<1>1. PICK i \in DOMAIN ct_in :
         /\ ct_in' = RemoveAt(ct_in, i)
         /\ UNCHANGED <<ct_open, ct_sessions, ct_peers, ct_observers, ct_made, ct_shut, ct_fault>>
  BY DEF DatagramIsLost
<1>2. i \in 1 .. Len(ct_in) /\ ct_in \in Seq(CtDatagram)
  BY LenProperties DEF CtInv
<1>3. /\ ct_in' \in Seq(CtDatagram)
      /\ \A j \in 1 .. Len(ct_in') : \E k \in 1 .. Len(ct_in) :
            k # i /\ k = (IF j < i THEN j ELSE j + 1) /\ ct_in'[j] = ct_in[k]
  <2>1. RemoveAt(ct_in, i) \in Seq(CtDatagram)
    BY <1>2, RemoveAtIs
  <2>2. \A j \in 1 .. Len(RemoveAt(ct_in, i)) : \E k \in 1 .. Len(ct_in) :
           k # i /\ k = (IF j < i THEN j ELSE j + 1) /\ RemoveAt(ct_in, i)[j] = ct_in[k]
    BY <1>2, RemoveAtKeeps
  <2> QED BY <1>1, <2>1, <2>2
<1>4. ASSUME NEW j \in 1 .. Len(ct_in') PROVE CtHello(j, ct_in', ct_sessions, ct_peers)
  <2>1. PICK k \in 1 .. Len(ct_in) : k = (IF j < i THEN j ELSE j + 1) /\ ct_in'[j] = ct_in[k]
    BY <1>3
  <2>2. CtHello(k, ct_in, ct_sessions, ct_peers)
    BY DEF CtInv
  <2>3. ASSUME NEW l \in 1 .. Len(ct_in'), l # j PROVE \E m \in 1 .. Len(ct_in) : m # k /\ ct_in'[l] = ct_in[m]
    <3>1. PICK m \in 1 .. Len(ct_in) : m = (IF l < i THEN l ELSE l + 1) /\ ct_in'[l] = ct_in[m]
      BY <1>3
    <3>2. i \in Int /\ j \in Int /\ l \in Int
      BY <1>2
    <3>3. m # k
      BY <2>1, <2>3, <3>1, <3>2
    <3> QED BY <3>1, <3>3
  <2> QED BY <1>2, <1>3, <2>1, <2>2, <2>3 DEF CtHello
<1> QED BY <1>1, <1>3, <1>4 DEF CtInv

LEMMA CtSendKeeps ==
    ASSUME CtCalm, CtInv, NEW p \in CtPeers, NEW sort \in {"hello", "get", "observe", "cancel", "alert"},
           PeerSends(p, sort)
    PROVE  CtInv'
<1> DEFINE d == [src |-> p, kind |-> sort, assoc |-> ct_peers[p]]
<1>1. /\ sort # "alert"
      /\ sort = "hello" => SessionOf(ct_sessions, p) = 0 /\ \A i \in DOMAIN ct_in : ct_in[i].src # p
      /\ sort # "hello" => ct_peers[p] # 0
      /\ ct_in' = Append(ct_in, d)
      /\ ct_peers' = IF sort = "hello" THEN [ct_peers EXCEPT ![p] = 0] ELSE ct_peers
      /\ UNCHANGED <<ct_open, ct_sessions, ct_observers, ct_made, ct_shut, ct_fault>>
  BY DEF PeerSends, CtCalm
<1>2. d \in CtDatagram /\ d.src = p /\ d.kind = sort
  BY <1>1 DEF CtDatagram, CtKinds, CtInv
<1> HIDE DEF d
<1>3. /\ ct_in \in Seq(CtDatagram) /\ ct_in' \in Seq(CtDatagram) /\ Len(ct_in) \in Nat
      /\ Len(ct_in') = Len(ct_in) + 1 /\ ct_in'[Len(ct_in) + 1] = d
      /\ \A i \in 1 .. Len(ct_in) : ct_in'[i] = ct_in[i]
      /\ DOMAIN ct_in = 1 .. Len(ct_in)
  BY <1>1, <1>2, AppendProperties, LenProperties DEF CtInv
<1>4. /\ ct_peers' \in [CtPeers -> Nat] /\ ct_peers \in [CtPeers -> Nat]
      /\ \A q \in CtPeers : ct_peers[q] = 0 => ct_peers'[q] = 0
      /\ sort = "hello" => ct_peers'[p] = 0
      /\ \A q \in CtPeers : ct_peers'[q] \in {0, ct_peers[q]}
  BY <1>1 DEF CtInv
<1>5. CtFits(ct_sessions, ct_peers, ct_observers) /\ ct_sessions \in Seq(CtSession)
  BY DEF CtInv, CtFits
<1>6. CtFits(ct_sessions, ct_peers', ct_observers)
  <2>0. \A i \in 1 .. Len(ct_sessions) : ct_sessions[i] \in CtSession
    BY <1>5, ElementOfSeq
  <2>1. \A i \in 1 .. Len(ct_sessions) : ct_sessions[i].peer \in CtPeers
    BY <2>0 DEF CtSession
  <2> QED BY <1>4, <1>5, <2>1 DEF CtFits, CtGood
<1>7. sort = "hello" => \A k \in 1 .. Len(ct_sessions) : ct_sessions[k].peer # p
  BY <1>1, <1>5, CtSessionOfIs
<1>8. ASSUME NEW i \in 1 .. Len(ct_in') PROVE CtHello(i, ct_in', ct_sessions, ct_peers')
  <2>1. CASE i = Len(ct_in) + 1
    <3>1. \A j \in 1 .. Len(ct_in') : j # i => j \in 1 .. Len(ct_in)
      BY <1>3, <2>1
    <3> QED BY <1>1, <1>2, <1>3, <1>4, <1>7, <2>1, <3>1 DEF CtHello
  <2>2. CASE i # Len(ct_in) + 1
    <3>1. i \in 1 .. Len(ct_in)
      BY <1>3, <2>2
    <3>0. ct_in[i] \in CtDatagram
      BY <1>3, <3>1, ElementOfSeq
    <3>2. CtHello(i, ct_in, ct_sessions, ct_peers) /\ ct_in'[i] = ct_in[i] /\ ct_in[i].src \in CtPeers
      BY <1>3, <3>0, <3>1 DEF CtInv, CtDatagram
    <3>3. ct_in[i].kind = "hello" => ct_in[i].src # p
      BY <1>1, <1>3, <3>1, <3>2 DEF CtHello
    <3>4. ASSUME NEW j \in 1 .. Len(ct_in'), j # i, ct_in[i].kind = "hello" PROVE ct_in'[j].src # ct_in[i].src
      <4>1. CASE j = Len(ct_in) + 1
        BY <1>2, <1>3, <3>3, <3>4, <4>1
      <4>2. CASE j # Len(ct_in) + 1
        <5>1. j \in 1 .. Len(ct_in)
          BY <1>3, <4>2
        <5> QED BY <1>3, <3>2, <3>4, <5>1 DEF CtHello
      <4> QED BY <4>1, <4>2
    <3> QED BY <1>4, <3>2, <3>4 DEF CtHello
  <2> QED BY <2>1, <2>2
<1> QED BY <1>1, <1>3, <1>4, <1>6, <1>8 DEF CtInv

\* A list that is read with the session at its end, which is still of its peer.
LEMMA CtMovesToEnd ==
    ASSUME NEW list, NEW peers, NEW observers, CtFits(list, peers, observers), NEW i \in 1 .. Len(list),
           NEW s \in CtSession, s.peer = list[i].peer, NEW observers2,
           \A p : p # s.peer => (p \in observers2 <=> p \in observers),
           CtGood(s, peers, observers2)
    PROVE  LET moved == Append(RemoveAt(list, i), s) IN
           /\ CtFits(moved, peers, observers2)
           /\ \A j \in 1 .. Len(moved) : \E k \in 1 .. Len(list) : moved[j].peer = list[k].peer
<1> DEFINE rest == RemoveAt(list, i)
           moved == Append(rest, s)
<1>1. list \in Seq(CtSession) /\ Len(list) \in Nat /\ CtDistinct(list)
  BY LenProperties DEF CtFits
<1>2. /\ rest \in Seq(CtSession) /\ Len(rest) = Len(list) - 1
      /\ \A j \in 1 .. Len(list) - 1 : rest[j] = IF j < i THEN list[j] ELSE list[j + 1]
  BY <1>1, RemoveAtIs
<1>3. \A j \in 1 .. Len(rest) : \E k \in 1 .. Len(list) :
         k # i /\ k = (IF j < i THEN j ELSE j + 1) /\ rest[j] = list[k]
  BY <1>1, RemoveAtKeeps
<1> HIDE DEF rest
<1>4. /\ moved \in Seq(CtSession) /\ Len(moved) = Len(list) /\ moved[Len(list)] = s
      /\ \A j \in 1 .. Len(list) - 1 : moved[j] = rest[j]
  <2>1. /\ moved \in Seq(CtSession) /\ Len(moved) = Len(rest) + 1 /\ moved[Len(rest) + 1] = s
        /\ \A j \in 1 .. Len(rest) : moved[j] = rest[j]
    BY <1>2, AppendProperties
  <2>2. Len(rest) + 1 = Len(list) /\ Len(rest) = Len(list) - 1
    BY <1>1, <1>2
  <2> QED BY <2>1, <2>2
<1> HIDE DEF moved
<1>5. \A j \in 1 .. Len(list) - 1 : rest[j].peer # s.peer
  <2> TAKE j \in 1 .. Len(list) - 1
  <2>1. PICK k \in 1 .. Len(list) : k # i /\ rest[j] = list[k]
    BY <1>2, <1>3
  <2> QED BY <1>1, <2>1 DEF CtDistinct
<1>6. CtDistinct(moved)
  <2> SUFFICES ASSUME NEW j \in 1 .. Len(list), NEW l \in 1 .. Len(list), moved[j].peer = moved[l].peer
               PROVE  j = l
    BY <1>4 DEF CtDistinct
  <2>1. CASE j = Len(list) \/ l = Len(list)
    <3>1. j \in 1 .. Len(list) - 1 \/ j = Len(list)
      BY <1>1
    <3>2. l \in 1 .. Len(list) - 1 \/ l = Len(list)
      BY <1>1
    <3> QED BY <1>4, <1>5, <2>1, <3>1, <3>2
  <2>2. CASE j # Len(list) /\ l # Len(list)
    <3>1. j \in 1 .. Len(rest) /\ l \in 1 .. Len(rest) /\ moved[j] = rest[j] /\ moved[l] = rest[l]
      BY <1>1, <1>2, <1>4, <2>2
    <3>2. PICK k \in 1 .. Len(list) : k = (IF j < i THEN j ELSE j + 1) /\ rest[j] = list[k]
      BY <1>3, <3>1
    <3>3. PICK m \in 1 .. Len(list) : m = (IF l < i THEN l ELSE l + 1) /\ rest[l] = list[m]
      BY <1>3, <3>1
    <3>4. k = m
      BY <1>1, <3>1, <3>2, <3>3 DEF CtDistinct
    <3> QED BY <1>1, <3>2, <3>3, <3>4
  <2> QED BY <2>1, <2>2
<1>7. ASSUME NEW j \in 1 .. Len(moved) PROVE CtGood(moved[j], peers, observers2)
  <2>1. CASE j = Len(list)
    BY <1>4, <2>1
  <2>2. CASE j # Len(list)
    <3>1. j \in 1 .. Len(list) - 1 /\ j \in 1 .. Len(rest)
      BY <1>1, <1>2, <1>4, <2>2
    <3>2. moved[j] = rest[j] /\ rest[j].peer # s.peer
      BY <1>4, <1>5, <3>1
    <3>3. CtGood(rest[j], peers, observers)
      BY <1>3, <3>1 DEF CtFits
    <3> QED BY <3>2, <3>3 DEF CtGood
  <2> QED BY <2>1, <2>2
<1>8. ASSUME NEW p \in observers2 PROVE \E j \in 1 .. Len(moved) : moved[j].peer = p
  <2>1. CASE p = s.peer
    <3>1. Len(list) \in 1 .. Len(list)
      BY <1>1
    <3> QED BY <1>4, <2>1, <3>1
  <2>2. CASE p # s.peer
    <3>1. PICK k \in 1 .. Len(list) : list[k].peer = p
      BY <2>2 DEF CtFits
    <3>2. k # i
      BY <2>2, <3>1
    <3> DEFINE j == IF k < i THEN k ELSE k - 1
    <3>3. j \in 1 .. Len(list) - 1 /\ (IF j < i THEN j ELSE j + 1) = k
      BY <1>1, <3>2
    <3>4. rest[j] = list[k] /\ j \in 1 .. Len(moved)
      BY <1>1, <1>2, <1>4, <3>3
    <3> QED BY <1>4, <3>1, <3>3, <3>4
  <2> QED BY <2>1, <2>2
<1>9. ASSUME NEW j \in 1 .. Len(moved) PROVE \E k \in 1 .. Len(list) : moved[j].peer = list[k].peer
  <2>1. CASE j = Len(list)
    BY <1>4, <2>1
  <2>2. CASE j # Len(list)
    <3>1. j \in 1 .. Len(list) - 1 /\ j \in 1 .. Len(rest)
      BY <1>1, <1>2, <1>4, <2>2
    <3> QED BY <1>3, <1>4, <3>1
  <2> QED BY <2>1, <2>2
<1>10. CtFits(moved, peers, observers2)
  BY <1>4, <1>6, <1>7, <1>8 DEF CtFits
<1> QED BY <1>9, <1>10 DEF moved, rest

\* What a session is after it has read a datagram of its association.
LEMMA CtReceives ==
    ASSUME NEW s \in CtSession, NEW d \in CtDatagram, NEW peers, CtGood(s, peers, ct_observers), d.src = s.peer,
           d.kind # "hello"
    PROVE  /\ coap_dtls_receive(d, s) \in CtSession /\ coap_dtls_receive(d, s).peer = s.peer
           /\ CtGood(coap_dtls_receive(d, s), peers, Observing(d, s))
           /\ \A p : p # s.peer => (p \in Observing(d, s) <=> p \in ct_observers)
<1>1. /\ ~s.dead /\ d.kind \in {"get", "observe", "cancel"} /\ s.ref \in Nat
      /\ s.ref = IF s.peer \in ct_observers THEN 1 ELSE 0
      /\ peers[s.peer] \in {0, s.assoc}
  BY DEF CtGood, CtDatagram, CtKinds, CtSession
<1>2. CASE d.assoc # s.assoc
  <2>1. Observing(d, s) = ct_observers
    BY <1>2 DEF Observing
  <2>2. coap_dtls_receive(d, s) = s
    BY <1>1, <1>2 DEF coap_dtls_receive
  <2> QED BY <2>1, <2>2
<1>3. CASE d.assoc = s.assoc
  <2>1. coap_dtls_receive(d, s) = coap_handle_message(d.kind, s)
    BY <1>1, <1>3 DEF coap_dtls_receive
  <2>2. CASE d.kind = "observe"
    <3>1. Observing(d, s) = ct_observers \cup {s.peer}
      BY <1>1, <1>3, <2>2 DEF Observing
    <3>2. CASE s.peer \in ct_observers
      <4>1. coap_handle_message(d.kind, s) = s
        BY <2>2, <3>2 DEF coap_handle_message
      <4> QED BY <2>1, <3>1, <3>2, <4>1 DEF CtGood
    <3>3. CASE s.peer \notin ct_observers
      <4>1. coap_handle_message(d.kind, s) = [s EXCEPT !.ref = @ + 1]
        BY <2>2, <3>3 DEF coap_handle_message, coap_session_reference
      <4> DEFINE t == [s EXCEPT !.ref = @ + 1]
      <4>2. t \in CtSession /\ t.peer = s.peer /\ t.assoc = s.assoc /\ t.dead = s.dead /\ t.ref = s.ref + 1
        BY DEF CtSession
      <4> HIDE DEF t
      <4>3. t.ref = 1
        BY <1>1, <3>3, <4>2
      <4>4. CtGood(t, peers, ct_observers \cup {s.peer})
        BY <1>1, <4>2, <4>3 DEF CtGood
      <4> QED BY <2>1, <3>1, <4>1, <4>2, <4>4 DEF t
    <3> QED BY <3>2, <3>3
  <2>3. CASE d.kind = "cancel"
    <3>1. Observing(d, s) = ct_observers \ {s.peer}
      BY <1>1, <1>3, <2>3 DEF Observing
    <3>2. CASE s.peer \notin ct_observers
      <4>1. coap_handle_message(d.kind, s) = s
        BY <2>3, <3>2 DEF coap_handle_message
      <4> QED BY <2>1, <3>1, <3>2, <4>1 DEF CtGood
    <3>3. CASE s.peer \in ct_observers
      <4>1. coap_handle_message(d.kind, s) = coap_session_release(s)
        BY <2>3, <3>3 DEF coap_handle_message
      <4> DEFINE t == coap_session_release(s)
      <4>2. t \in CtSession /\ t.peer = s.peer /\ t.assoc = s.assoc /\ t.dead = s.dead /\ t.ref = 0
        <5>1. s.ref = 1
          BY <1>1, <3>3
        <5>2. t = [s EXCEPT !.ref = 0]
          BY <5>1 DEF coap_session_release
        <5> QED BY <5>2 DEF CtSession
      <4> HIDE DEF t
      <4>4. CtGood(t, peers, ct_observers \ {s.peer})
        BY <1>1, <4>2 DEF CtGood
      <4> QED BY <2>1, <3>1, <4>1, <4>2, <4>4 DEF t
    <3> QED BY <3>2, <3>3
  <2>4. CASE d.kind = "get"
    <3>1. Observing(d, s) = ct_observers
      BY <1>1, <1>3, <2>4 DEF Observing
    <3>2. coap_handle_message(d.kind, s) = s
      BY <2>4 DEF coap_handle_message
    <3> QED BY <2>1, <3>1, <3>2
  <2> QED BY <1>1, <2>2, <2>3, <2>4
<1> QED BY <1>2, <1>3

\* Nothing that is read by a session begins an association.
LEMMA CtReadKnownKeeps ==
    ASSUME CtCalm, CtInv, ct_in # <<>>, NEW i \in 1 .. Len(ct_sessions), ct_sessions[i].peer = Head(ct_in).src,
           ct_in' = Tail(ct_in), ReadKnown(Head(ct_in), i), ct_fault' = ct_fault
    PROVE  CtInv'
<1> DEFINE d == Head(ct_in)
           s == ct_sessions[i]
           t == coap_dtls_receive(d, s)
<1>1. /\ ct_in \in Seq(CtDatagram) /\ d \in CtDatagram /\ d = ct_in[1]
      /\ Len(ct_in) \in Nat /\ 1 \in 1 .. Len(ct_in)
      /\ ct_in' \in Seq(CtDatagram) /\ Len(ct_in') = Len(ct_in) - 1
      /\ \A j \in 1 .. Len(ct_in') : ct_in'[j] = ct_in[j + 1]
  BY HeadTailProperties, LenProperties, EmptySeq DEF CtInv
<1>2. CtFits(ct_sessions, ct_peers, ct_observers) /\ ct_sessions \in Seq(CtSession)
  BY DEF CtInv, CtFits
<1>3. s \in CtSession /\ CtGood(s, ct_peers, ct_observers)
  BY <1>2, ElementOfSeq DEF CtFits
<1>4. d.kind # "hello"
  <2>1. CtHello(1, ct_in, ct_sessions, ct_peers)
    BY <1>1 DEF CtInv
  <2> QED BY <1>1, <2>1 DEF CtHello
<1>5. /\ ct_sessions' = Append(RemoveAt(ct_sessions, i), t)
      /\ ct_observers' = Observing(d, s) /\ ct_shut' = ct_shut /\ UNCHANGED <<ct_peers, ct_made>>
  BY <1>4 DEF ReadKnown
<1>6. /\ t \in CtSession /\ t.peer = s.peer /\ CtGood(t, ct_peers, Observing(d, s))
      /\ \A p : p # s.peer => (p \in Observing(d, s) <=> p \in ct_observers)
  BY <1>1, <1>3, <1>4, CtReceives
<1> DEFINE heard == Observing(d, s)
<1> HIDE DEF d, t, heard
<1>60. /\ t.peer = ct_sessions[i].peer /\ CtGood(t, ct_peers, heard)
       /\ \A p : p # t.peer => (p \in heard <=> p \in ct_observers)
  BY <1>6 DEF heard
<1>7. /\ CtFits(Append(RemoveAt(ct_sessions, i), t), ct_peers, heard)
      /\ \A j \in 1 .. Len(Append(RemoveAt(ct_sessions, i), t)) :
            \E k \in 1 .. Len(ct_sessions) : Append(RemoveAt(ct_sessions, i), t)[j].peer = ct_sessions[k].peer
  BY <1>2, <1>6, <1>60, CtMovesToEnd
<1>8. /\ CtFits(ct_sessions', ct_peers, ct_observers')
      /\ \A j \in 1 .. Len(ct_sessions') : \E k \in 1 .. Len(ct_sessions) :
            ct_sessions'[j].peer = ct_sessions[k].peer
  BY <1>5, <1>7 DEF heard
<1>9. ASSUME NEW j \in 1 .. Len(ct_in') PROVE CtHello(j, ct_in', ct_sessions', ct_peers)
  <2>1. j + 1 \in 1 .. Len(ct_in) /\ ct_in'[j] = ct_in[j + 1]
    BY <1>1
  <2>2. CtHello(j + 1, ct_in, ct_sessions, ct_peers)
    BY <2>1 DEF CtInv
  <2>3. ASSUME NEW l \in 1 .. Len(ct_in'), l # j PROVE \E m \in 1 .. Len(ct_in) : m # j + 1 /\ ct_in'[l] = ct_in[m]
    <3>1. l + 1 \in 1 .. Len(ct_in) /\ l + 1 # j + 1 /\ ct_in'[l] = ct_in[l + 1]
      BY <1>1, <2>3
    <3> QED BY <3>1
  <2> QED BY <1>8, <2>1, <2>2, <2>3 DEF CtHello
<1> QED BY <1>1, <1>5, <1>8, <1>9 DEF CtInv

\* A session is made for a peer that begins, after one was given up.
LEMMA CtReadUnknownKeeps ==
    ASSUME CtInv, ct_in # <<>>, \A k \in 1 .. Len(ct_sessions) : ct_sessions[k].peer # Head(ct_in).src,
           ct_in' = Tail(ct_in), ReadUnknown(Head(ct_in)), ct_fault' = ct_fault
    PROVE  CtInv'
<1> DEFINE d == Head(ct_in)
           kept == Evicted(ct_sessions)
           s == coap_make_session(d.src, ct_made + 1)
<1>1. /\ ct_in \in Seq(CtDatagram) /\ d \in CtDatagram /\ d = ct_in[1]
      /\ Len(ct_in) \in Nat /\ 1 \in 1 .. Len(ct_in)
      /\ ct_in' \in Seq(CtDatagram) /\ Len(ct_in') = Len(ct_in) - 1
      /\ \A j \in 1 .. Len(ct_in') : ct_in'[j] = ct_in[j + 1]
  BY HeadTailProperties, LenProperties, EmptySeq DEF CtInv
<1>2. CtFits(ct_sessions, ct_peers, ct_observers)
  BY DEF CtInv
<1>3. /\ CtFits(kept, ct_peers, ct_observers) /\ kept \in Seq(CtSession) /\ Len(kept) \in Nat
      /\ \A j \in 1 .. Len(kept) : \E k \in 1 .. Len(ct_sessions) : kept[j] = ct_sessions[k]
  <2>1. CtFits(kept, ct_peers, ct_observers)
    BY <1>2, CtEvictedIs
  <2>2. kept \in Seq(CtSession)
    BY <2>1 DEF CtFits
  <2> QED BY <1>2, <2>1, <2>2, CtEvictedIs, LenProperties
<1>4. ct_shut' = ct_shut /\ ct_observers' = ct_observers
  BY DEF ReadUnknown
<1>5. ct_made \in Nat /\ ct_peers \in [CtPeers -> Nat] /\ d.src \in CtPeers
  BY <1>1 DEF CtInv, CtDatagram
<1>6. /\ s \in CtSession /\ s.peer = d.src /\ s.assoc = ct_made + 1 /\ s.ref = 0 /\ ~s.dead
  BY <1>5 DEF coap_make_session, CtSession
<1>7. /\ d.kind = "hello" => /\ ct_made' = ct_made + 1 /\ ct_sessions' = Append(kept, s)
                            /\ ct_peers' = [ct_peers EXCEPT ![d.src] = ct_made + 1]
      /\ d.kind # "hello" => ct_sessions' = kept /\ UNCHANGED <<ct_made, ct_peers>>
  BY DEF ReadUnknown
<1>8. \A j \in 1 .. Len(kept) : kept[j].peer # d.src
  BY <1>3
<1> HIDE DEF d, kept, s
<1>9. \A j \in 1 .. Len(kept) : kept[j].peer \in CtPeers
  <2>1. \A j \in 1 .. Len(kept) : kept[j] \in CtSession
    BY <1>3, ElementOfSeq
  <2> QED BY <2>1 DEF CtSession
<1>10. ASSUME NEW j \in 1 .. Len(ct_in')
       PROVE  /\ j + 1 \in 1 .. Len(ct_in) /\ ct_in'[j] = ct_in[j + 1] /\ CtHello(j + 1, ct_in, ct_sessions, ct_peers)
              /\ \A l \in 1 .. Len(ct_in') : l # j =>
                    \E m \in 1 .. Len(ct_in) : m # j + 1 /\ ct_in'[l] = ct_in[m]
              /\ ct_in'[j].src \in CtPeers
  <2>1. j + 1 \in 1 .. Len(ct_in) /\ ct_in'[j] = ct_in[j + 1]
    BY <1>1
  <2>2. CtHello(j + 1, ct_in, ct_sessions, ct_peers)
    BY <2>1 DEF CtInv
  <2>3. ASSUME NEW l \in 1 .. Len(ct_in'), l # j PROVE \E m \in 1 .. Len(ct_in) : m # j + 1 /\ ct_in'[l] = ct_in[m]
    <3>1. l + 1 \in 1 .. Len(ct_in) /\ l + 1 # j + 1 /\ ct_in'[l] = ct_in[l + 1]
      BY <1>1, <2>3
    <3> QED BY <3>1
  <2>4. ct_in'[j] \in CtDatagram
    BY <1>1, ElementOfSeq
  <2> QED BY <2>1, <2>2, <2>3, <2>4 DEF CtDatagram
<1>11. CASE d.kind # "hello"
  <2>1. CtFits(ct_sessions', ct_peers', ct_observers')
    BY <1>3, <1>4, <1>7, <1>11
  <2>2. ASSUME NEW j \in 1 .. Len(ct_in') PROVE CtHello(j, ct_in', kept, ct_peers)
    <3> SUFFICES ASSUME ct_in'[j].kind = "hello"
                 PROVE  /\ ct_peers[ct_in'[j].src] = 0
                        /\ \A k \in 1 .. Len(kept) : kept[k].peer # ct_in'[j].src
                        /\ \A l \in 1 .. Len(ct_in') : l # j => ct_in'[l].src # ct_in'[j].src
      BY DEF CtHello
    <3>1. /\ ct_peers[ct_in'[j].src] = 0
          /\ \A k \in 1 .. Len(ct_sessions) : ct_sessions[k].peer # ct_in'[j].src
          /\ \A m \in 1 .. Len(ct_in) : m # j + 1 => ct_in[m].src # ct_in'[j].src
      BY <1>10 DEF CtHello
    <3>2. \A k \in 1 .. Len(kept) : kept[k].peer # ct_in'[j].src
      BY <1>3, <3>1
    <3>3. \A l \in 1 .. Len(ct_in') : l # j => ct_in'[l].src # ct_in'[j].src
      BY <1>10, <3>1
    <3> QED BY <3>1, <3>2, <3>3
  <2> QED BY <1>1, <1>4, <1>5, <1>7, <1>11, <2>1, <2>2 DEF CtInv
<1>12. CASE d.kind = "hello"
  <2> DEFINE list == Append(kept, s)
             peers == [ct_peers EXCEPT ![d.src] = ct_made + 1]
  <2>1. /\ list \in Seq(CtSession) /\ Len(list) = Len(kept) + 1 /\ list[Len(kept) + 1] = s
        /\ \A j \in 1 .. Len(kept) : list[j] = kept[j]
    BY <1>3, <1>6, AppendProperties
  <2>2. /\ peers \in [CtPeers -> Nat] /\ peers[d.src] = ct_made + 1
        /\ \A p \in CtPeers : p # d.src => peers[p] = ct_peers[p]
    BY <1>5
  <2> HIDE DEF list, peers
  <2>3. \A j \in 1 .. Len(list) : j = Len(kept) + 1 \/ j \in 1 .. Len(kept)
    BY <1>3, <2>1
  <2>4. CtDistinct(list)
    BY <1>3, <1>6, <1>8, <2>1, <2>3 DEF CtFits, CtDistinct
  <2>5. d.src \notin ct_observers
    BY <1>3, <1>8 DEF CtFits
  <2>6. ASSUME NEW j \in 1 .. Len(list) PROVE CtGood(list[j], peers, ct_observers)
    <3>1. CASE j = Len(kept) + 1
      BY <1>6, <2>1, <2>2, <2>5, <3>1 DEF CtGood
    <3>2. CASE j \in 1 .. Len(kept)
      <4>1. CtGood(kept[j], ct_peers, ct_observers) /\ kept[j].peer \in CtPeers /\ kept[j].peer # d.src
        BY <1>3, <1>8, <1>9, <3>2 DEF CtFits
      <4> QED BY <2>1, <2>2, <3>2, <4>1 DEF CtGood
    <3> QED BY <2>3, <3>1, <3>2
  <2>7. ASSUME NEW p \in ct_observers PROVE \E j \in 1 .. Len(list) : list[j].peer = p
    <3>1. PICK k \in 1 .. Len(kept) : kept[k].peer = p
      BY <1>3 DEF CtFits
    <3>2. k \in 1 .. Len(list)
      BY <1>3, <2>1
    <3> QED BY <2>1, <3>1, <3>2
  <2>8. CtFits(list, peers, ct_observers)
    BY <2>1, <2>4, <2>6, <2>7 DEF CtFits
  <2>9. ASSUME NEW j \in 1 .. Len(ct_in') PROVE CtHello(j, ct_in', list, peers)
    <3> SUFFICES ASSUME ct_in'[j].kind = "hello"
                 PROVE  /\ peers[ct_in'[j].src] = 0
                        /\ \A k \in 1 .. Len(list) : list[k].peer # ct_in'[j].src
                        /\ \A l \in 1 .. Len(ct_in') : l # j => ct_in'[l].src # ct_in'[j].src
      BY DEF CtHello
    <3>1. /\ ct_peers[ct_in'[j].src] = 0
          /\ \A k \in 1 .. Len(ct_sessions) : ct_sessions[k].peer # ct_in'[j].src
          /\ \A m \in 1 .. Len(ct_in) : m # j + 1 => ct_in[m].src # ct_in'[j].src
      BY <1>10 DEF CtHello
    <3>2. ct_in'[j].src # d.src
      <4>1. 1 # j + 1 /\ j \in Int
        BY <1>1
      <4> QED BY <1>1, <3>1, <4>1 DEF d
    <3>3. peers[ct_in'[j].src] = 0
      BY <1>10, <2>2, <3>1, <3>2
    <3>4. \A k \in 1 .. Len(list) : list[k].peer # ct_in'[j].src
      BY <1>3, <1>6, <2>1, <2>3, <3>1, <3>2
    <3> QED BY <1>10, <3>1, <3>3, <3>4
  <2>10. ct_sessions' = list /\ ct_peers' = peers /\ ct_made' = ct_made + 1
    BY <1>7, <1>12 DEF list, peers
  <2> QED BY <1>1, <1>4, <1>5, <2>2, <2>8, <2>9, <2>10 DEF CtInv
<1> QED BY <1>11, <1>12

LEMMA CtReadKeeps ==
    ASSUME CtCalm, CtInv, NEW fails \in BOOLEAN, coap_read_endpoint(fails) PROVE CtInv'
<1>1. /\ ct_in # <<>> /\ fails = FALSE /\ ct_in' = Tail(ct_in) /\ coap_endpoint_get_session(Head(ct_in))
      /\ ct_fault' = coap_dtls_send(Head(ct_in), fails)
  BY DEF coap_read_endpoint, CtCalm
<1>2. ct_fault' = ct_fault
  BY <1>1 DEF coap_dtls_send
<1>3. ct_sessions \in Seq(CtSession)
  BY DEF CtInv, CtFits
<1> DEFINE i == SessionOf(ct_sessions, Head(ct_in).src)
<1>4. CASE i = 0
  <2>1. ReadUnknown(Head(ct_in))
    BY <1>1, <1>4 DEF coap_endpoint_get_session
  <2>2. \A k \in 1 .. Len(ct_sessions) : ct_sessions[k].peer # Head(ct_in).src
    BY <1>3, <1>4, CtSessionOfIs
  <2> QED BY <1>1, <1>2, <2>1, <2>2, CtReadUnknownKeeps
<1>5. CASE i # 0
  <2>1. ReadKnown(Head(ct_in), i)
    BY <1>1, <1>5 DEF coap_endpoint_get_session
  <2>2. i \in 1 .. Len(ct_sessions) /\ ct_sessions[i].peer = Head(ct_in).src
    BY <1>3, <1>5, CtSessionOfIs
  <2> HIDE DEF i
  <2> QED BY <1>1, <1>2, <2>1, <2>2, CtReadKnownKeeps
<1> QED BY <1>4, <1>5

LEMMA CtStarts == CtInit => CtInv
<1> SUFFICES ASSUME CtInit PROVE CtInv
  OBVIOUS
<1>1. Len(<<>>) = 0 /\ <<>> \in Seq(CtSession) /\ <<>> \in Seq(CtDatagram)
  BY EmptySeq
<1>2. CtFits(ct_sessions, ct_peers, ct_observers)
  BY <1>1 DEF CtInit, CtFits, CtDistinct
<1>3. ct_peers \in [CtPeers -> Nat]
  BY DEF CtInit
<1> QED BY <1>1, <1>2, <1>3 DEF CtInit, CtInv

LEMMA CtSteps == CtCalm /\ CtInv /\ [CtNext]_ctvars => CtInv'
<1> SUFFICES ASSUME CtCalm, CtInv, [CtNext]_ctvars PROVE CtInv'
  OBVIOUS
<1>1. ASSUME UNCHANGED ctvars PROVE CtInv'
  BY <1>1 DEF ctvars, CtInv
<1> QED BY <1>1, CtNewKeeps, CtFreeKeeps, CtWriteKeeps, CtReadKeeps, CtSendKeeps, CtLossKeeps DEF CtNext

LEMMA CtGives == CtInv => SessionsAreCurrent
<1> SUFFICES ASSUME CtInv PROVE SessionsAreCurrent
  OBVIOUS
<1>1. ct_sessions \in Seq(CtSession) /\ DOMAIN ct_sessions = 1 .. Len(ct_sessions)
  BY LenProperties DEF CtInv, CtFits
<1>2. \A p \in ct_observers : SessionOf(ct_sessions, p) # 0
  BY <1>1, CtSessionOfIs DEF CtInv, CtFits
<1> QED BY <1>1, <1>2 DEF SessionsAreCurrent, CtInv, CtFits, CtGood
=============================================================================
