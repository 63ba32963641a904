-------------------------- MODULE ShardTypeProofs --------------------------
(***************************************************************************)
(* Lemmas about the operators of NamingService and about queues, and       *)
(* theorems about Shard, for every set of services and names, every list,  *)
(* every limit of the identifiers and any number of faults.                *)
(***************************************************************************)
EXTENDS Shard, FiniteSetTheorems, SequenceTheorems, WellFoundedInduction, TLAPS

-----------------------------------------------------------------------------

(* A set of numbers that is not empty has a least one.                     *)
LEMMA LeastExists ==
  ASSUME NEW S \in SUBSET Nat, S # {}
  PROVE  \E m \in S : \A k \in S : m <= k
PROOF
  <1> DEFINE R == {ss \in Nat \X Nat : ss[1] < ss[2]}
  <1>1. IsWellFoundedOn(R, Nat)
    BY NatLessThanWellFounded DEF OpToRel
  <1>2. \E m \in S : \A k \in S : <<k, m>> \notin R
    BY <1>1, WFMin
  <1>3. \A m, k \in S : <<k, m>> \notin R => m <= k
    OBVIOUS
  <1> QED BY <1>2, <1>3

(* Kept numbers the places of I in their order.                            *)
Rank(I, i) == Cardinality({j \in I : j <= i})

(* A place of I has a rank, and a later place has a greater one.           *)
LEMMA RankIncreases ==
  ASSUME NEW I \in SUBSET Nat, IsFiniteSet(I), NEW h \in I, NEW i \in I
  PROVE  /\ Rank(I, i) \in 1 .. Cardinality(I)
         /\ h < i => Rank(I, h) < Rank(I, i)
PROOF
  <1> DEFINE A == {j \in I : j <= h}
             B == {j \in I : j <= i}
  <1>1. IsFiniteSet(B) /\ Cardinality(B) <= Cardinality(I)
    BY FS_Subset
  <1>2. Cardinality(B) # 0
    BY <1>1, FS_EmptySet
  <1>3. ASSUME h < i
        PROVE  Cardinality(A) < Cardinality(B)
    <2>1. A \in SUBSET B /\ A # B
      <3>1. \A j \in I : j <= h => j <= i
        <4>1. ASSUME NEW j \in I, j <= h
              PROVE  j <= i
          <5>1. j \in Nat /\ h \in Nat /\ i \in Nat
            OBVIOUS
          <5> QED BY <5>1, <4>1, <1>3
        <4> QED BY <4>1
      <3>2. ~(i <= h) /\ i <= i
        BY <1>3
      <3>3. i \in B /\ i \notin A
        BY <3>2
      <3> QED BY <3>1, <3>3
    <2>2. Cardinality(A) <= Cardinality(B) /\ Cardinality(A) # Cardinality(B) /\ IsFiniteSet(A)
      BY <2>1, <1>1, FS_Subset
    <2>3. Cardinality(A) \in Nat /\ Cardinality(B) \in Nat
      BY <2>2, <1>1, FS_CardinalityType
    <2> HIDE DEF A, B
    <2> QED BY <2>2, <2>3
  <1>4. Cardinality(B) \in Nat /\ Cardinality(I) \in Nat
    BY <1>1, FS_CardinalityType
  <1>5. Rank(I, i) = Cardinality(B) /\ Rank(I, h) = Cardinality(A)
    BY DEF Rank
  <1> HIDE DEF A, B
  <1> QED BY <1>1, <1>2, <1>3, <1>4, <1>5

(* Every number up to the size of I is the rank of a place.                *)
LEMMA RankOnto ==
  ASSUME NEW I \in SUBSET Nat, IsFiniteSet(I), NEW n \in 1 .. Cardinality(I)
  PROVE  \E i \in I : Rank(I, i) = n
PROOF
  <1> DEFINE T == 1 .. Cardinality(I)
             r == [i \in I |-> Rank(I, i)]
  <1>1. Cardinality(I) \in Nat
    BY FS_CardinalityType
  <1>2. IsFiniteSet(T) /\ Cardinality(T) = Cardinality(I)
    <2>1. 1 \in Int /\ Cardinality(I) \in Int
      BY <1>1
    <2>2. /\ IsFiniteSet(T)
          /\ Cardinality(T) = IF 1 > Cardinality(I) THEN 0 ELSE Cardinality(I) - 1 + 1
      BY <2>1, FS_Interval
    <2> HIDE DEF T
    <2> QED BY <2>2, <1>1
  <1>3. r \in [I -> T] /\ \A h, i \in I : r[h] = r[i] => h = i
    <2>1. \A i \in I : Rank(I, i) \in T
      BY RankIncreases
    <2>2. ASSUME NEW h \in I, NEW i \in I, Rank(I, h) = Rank(I, i)
          PROVE  h = i
      <3>1. ~(h < i) /\ ~(i < h)
        <4>1. Rank(I, h) \in Nat
          BY RankIncreases
        <4>2. (h < i => Rank(I, h) < Rank(I, i)) /\ (i < h => Rank(I, i) < Rank(I, h))
          BY RankIncreases
        <4> QED BY <4>1, <4>2, <2>2
      <3> QED BY <3>1
    <2> QED BY <2>1, <2>2
  <1>4. r \in Injection(I, T)
    BY <1>3 DEF Injection, IsInjective
  <1>5. r \in Surjection(I, T)
    BY <1>4, <1>2, FS_Injection
  <1>6. \E i \in I : r[i] = n
    BY <1>5 DEF Surjection
  <1> QED BY <1>6

(* What Kept returns: the elements at the places of I, each one once, in   *)
(* the order they had.                                                     *)
Numbers(f, s, I) ==
  /\ f \in [1 .. Cardinality(I) -> I]
  /\ \A n \in 1 .. Cardinality(I) : Kept(s, I)[n] = s[f[n]]
  /\ \A i \in I : \E n \in 1 .. Cardinality(I) : f[n] = i
  /\ \A m, n \in 1 .. Cardinality(I) : m < n <=> f[m] < f[n]

(* Kept is a sequence as long as I has places, taken in their order.       *)
LEMMA KeptProperties ==
  ASSUME NEW s, NEW I \in SUBSET Nat, IsFiniteSet(I)
  PROVE  /\ Cardinality(I) \in Nat
         /\ DOMAIN Kept(s, I) = 1 .. Cardinality(I)
         /\ \E f : Numbers(f, s, I)
PROOF
  <1> DEFINE N == 1 .. Cardinality(I)
             f == [n \in N |-> CHOOSE i \in I : Rank(I, i) = n]
  <1>1. \A n \in N : f[n] \in I /\ Rank(I, f[n]) = n
    BY RankOnto
  <1>2. Kept(s, I) = [n \in N |-> s[f[n]]]
    BY DEF Kept, Rank
  <1>3. ASSUME NEW m \in N, NEW n \in N
        PROVE  m < n <=> f[m] < f[n]
    <2>1. f[m] \in I /\ f[n] \in I /\ f[m] \in Nat /\ f[n] \in Nat
      BY <1>1
    <2>2. Rank(I, f[m]) = m /\ Rank(I, f[n]) = n
      BY <1>1
    <2> HIDE DEF f
    <2>3. (f[m] < f[n] => Rank(I, f[m]) < Rank(I, f[n]))
          /\ (f[n] < f[m] => Rank(I, f[n]) < Rank(I, f[m]))
      BY <2>1, RankIncreases
    <2>4. f[m] < f[n] \/ f[n] < f[m] \/ f[m] = f[n]
      BY <2>1
    <2>5. m \in Int /\ n \in Int
      BY FS_CardinalityType
    <2> QED BY <2>2, <2>3, <2>4, <2>5
  <1>4. ASSUME NEW i \in I
        PROVE  \E n \in N : f[n] = i
    <2>1. Rank(I, i) \in N
      BY RankIncreases
    <2>2. f[Rank(I, i)] \in I /\ Rank(I, f[Rank(I, i)]) = Rank(I, i)
      BY <2>1, <1>1
    <2> DEFINE h == f[Rank(I, i)]
    <2>3. h \in I /\ Rank(I, h) = Rank(I, i)
      BY <2>2
    <2> HIDE DEF h
    <2>4. ~(h < i) /\ ~(i < h)
      <3>1. Rank(I, h) \in Nat
        BY <2>3, RankIncreases
      <3>2. (h < i => Rank(I, h) < Rank(I, i)) /\ (i < h => Rank(I, i) < Rank(I, h))
        BY <2>3, RankIncreases
      <3> QED BY <3>1, <3>2, <2>3
    <2>5. h = i
      BY <2>3, <2>4
    <2> QED BY <2>1, <2>5 DEF h
  <1>5. Cardinality(I) \in Nat
    BY FS_CardinalityType
  <1>6. DOMAIN Kept(s, I) = N
    BY <1>2
  <1>7. f \in [N -> I]
    BY <1>1
  <1>8. \A n \in N : Kept(s, I)[n] = s[f[n]]
    BY <1>2
  <1> HIDE DEF f, N
  <1>9. \A i \in I : \E n \in N : f[n] = i
    BY <1>4
  <1>10. \A m, n \in N : m < n <=> f[m] < f[n]
    BY <1>3
  <1>11. Numbers(f, s, I)
    BY <1>7, <1>8, <1>9, <1>10 DEF N, Numbers
  <1> QED BY <1>5, <1>6, <1>11 DEF N

(* The same, of a sequence and some of its places.                         *)
LEMMA KeptSequence ==
  ASSUME NEW S, NEW s \in Seq(S), NEW I \in SUBSET DOMAIN s
  PROVE  /\ IsFiniteSet(I) /\ I \in SUBSET Nat
         /\ Kept(s, I) \in Seq(S)
         /\ Entries(Kept(s, I)) = {s[i] : i \in I}
PROOF
  <1>1. DOMAIN s = 1 .. Len(s) /\ Len(s) \in Nat
    BY LenProperties
  <1>2. IsFiniteSet(1 .. Len(s))
    <2>1. 1 \in Int /\ Len(s) \in Int
      BY <1>1
    <2> QED BY <2>1, FS_Interval
  <1>3. IsFiniteSet(I) /\ I \in SUBSET Nat
    BY <1>1, <1>2, FS_Subset
  <1>0. PICK f : Numbers(f, s, I)
    BY <1>3, KeptProperties
  <1>4. /\ \A n \in 1 .. Cardinality(I) : f[n] \in I /\ Kept(s, I)[n] = s[f[n]]
        /\ \A i \in I : \E n \in 1 .. Cardinality(I) : f[n] = i
    BY <1>0 DEF Numbers
  <1>5. Cardinality(I) \in Nat /\ DOMAIN Kept(s, I) = 1 .. Cardinality(I)
    BY <1>3, KeptProperties
  <1>6. \A i \in I : s[i] \in S
    BY <1>1, ElementOfSeq
  <1>7. Kept(s, I) \in Seq(S)
    <2>1. Kept(s, I) = [n \in 1 .. Cardinality(I) |-> Kept(s, I)[n]]
      BY <1>5 DEF Kept
    <2>2. \A n \in 1 .. Cardinality(I) : Kept(s, I)[n] \in S
      BY <1>4, <1>6
    <2>3. Kept(s, I) \in [1 .. Cardinality(I) -> S]
      BY <2>1, <2>2
    <2> QED BY <2>3, <1>5 DEF Seq
  <1>8. Entries(Kept(s, I)) = {s[i] : i \in I}
    <2>1. \A n \in 1 .. Cardinality(I) : Kept(s, I)[n] \in {s[i] : i \in I}
      BY <1>4
    <2>2. \A i \in I : \E n \in 1 .. Cardinality(I) : Kept(s, I)[n] = s[i]
      BY <1>4
    <2> QED BY <1>5, <2>1, <2>2 DEF Entries
  <1> QED BY <1>3, <1>7, <1>8

(* The elements of a sequence when one is appended, when the first one is  *)
(* taken and when the last ones are lost.                                  *)
LEMMA AppendEntries ==
  ASSUME NEW S, NEW s \in Seq(S), NEW x \in S
  PROVE  Entries(Append(s, x)) = Entries(s) \union {x}
PROOF
  <1> DEFINE t == Append(s, x)
  <1>1. /\ t \in Seq(S)
        /\ Len(t) = Len(s) + 1
        /\ \A i \in 1 .. Len(s) : t[i] = s[i]
        /\ t[Len(s) + 1] = x
    BY AppendProperties
  <1> HIDE DEF t
  <1>2. DOMAIN s = 1 .. Len(s) /\ Len(s) \in Nat /\ DOMAIN t = 1 .. Len(t)
    BY <1>1, LenProperties
  <1>3. DOMAIN t = DOMAIN s \union {Len(s) + 1}
    BY <1>1, <1>2
  <1>4. \A i \in DOMAIN s : t[i] = s[i]
    BY <1>1, <1>2
  <1>5. \A y \in Entries(t) : y \in Entries(s) \union {x}
    BY <1>1, <1>3, <1>4 DEF Entries
  <1>6. Entries(s) \subseteq Entries(t)
    BY <1>3, <1>4 DEF Entries
  <1>7. x \in Entries(t)
    BY <1>1, <1>3 DEF Entries
  <1>8. Entries(t) = Entries(s) \union {x}
    BY <1>5, <1>6, <1>7
  <1> QED BY <1>8 DEF t

(* Without its first element, a sequence has what is left of its elements. *)
LEMMA TailEntries ==
  ASSUME NEW S, NEW s \in Seq(S), s # << >>
  PROVE  Entries(s) = {Head(s)} \union Entries(Tail(s))
PROOF
  <1>1. /\ Head(s) = s[1]
        /\ Tail(s) \in Seq(S)
        /\ Len(Tail(s)) = Len(s) - 1
        /\ \A i \in 1 .. Len(Tail(s)) : Tail(s)[i] = s[i + 1]
    BY HeadTailProperties DEF Head
  <1> DEFINE t == Tail(s)
  <1>2. Len(s) \in Nat \ {0} /\ DOMAIN s = 1 .. Len(s) /\ DOMAIN t = 1 .. Len(t)
    BY <1>1, EmptySeq, LenProperties
  <1>3. \A y \in Entries(t) : y \in Entries(s)
    <2>1. \A i \in DOMAIN t : t[i] = s[i + 1] /\ i + 1 \in DOMAIN s
      BY <1>1, <1>2
    <2> QED BY <2>1 DEF Entries
  <1>4. Head(s) \in Entries(s)
    BY <1>1, <1>2 DEF Entries
  <1>5. \A y \in Entries(s) : y = Head(s) \/ y \in Entries(t)
    <2>1. \A i \in DOMAIN s : i # 1 => i - 1 \in DOMAIN t /\ t[i - 1] = s[i]
      <3>1. ASSUME NEW i \in DOMAIN s, i # 1
            PROVE  i - 1 \in 1 .. Len(t) /\ i - 1 + 1 = i
        BY <3>1, <1>1, <1>2
      <3> QED BY <3>1, <1>1, <1>2
    <2>2. \A i \in DOMAIN s : i # 1 => s[i] \in Entries(t)
      BY <2>1 DEF Entries
    <2> QED BY <2>2, <1>1 DEF Entries
  <1> QED BY <1>3, <1>4, <1>5

(* A crash cuts what is on its way: no message appears.                    *)
LEMMA PrefixEntries ==
  ASSUME NEW S, NEW s \in Seq(S), NEW n \in 0 .. Len(s)
  PROVE  /\ SubSeq(s, 1, n) \in Seq(S)
         /\ Entries(SubSeq(s, 1, n)) \subseteq Entries(s)
PROOF
  <1>1. Len(s) \in Nat /\ DOMAIN s = 1 .. Len(s) /\ n \in Nat /\ n <= Len(s)
    BY LenProperties
  <1>2. 1 \in Int /\ n \in Int
    BY <1>1
  <1> DEFINE t == SubSeq(s, 1, n)
  <1>3. t = [i \in 1 .. n |-> s[i]]
    <2>1. t = [i \in 1 .. (1 + n - 1) |-> s[i + 1 - 1]]
      BY <1>2 DEF SubSeq
    <2>2. 1 + n - 1 = n /\ \A i \in 1 .. n : i + 1 - 1 = i
      BY <1>2
    <2> QED BY <2>1, <2>2
  <1>4. \A i \in 1 .. n : i \in DOMAIN s /\ s[i] \in S
    BY <1>1, ElementOfSeq
  <1>5. t \in Seq(S)
    BY <1>1, <1>3, <1>4 DEF Seq
  <1>6. Entries(t) \subseteq Entries(s)
    BY <1>3, <1>4 DEF Entries
  <1> QED BY <1>5, <1>6

-----------------------------------------------------------------------------
(* What the operations of the naming service make of its list.             *)
LEMMA RegisterEntries ==
  ASSUME NEW reg \in Seq(Entry), NEW s \in Service, NEW k \in SId
  PROVE  /\ Register(reg, s, k) \in Seq(Entry)
         /\ Entries(Register(reg, s, k)) =
              Entries(reg) \union {[svc |-> s, sid |-> k, waiting |-> FALSE, acks |-> {}]}
PROOF
  <1> DEFINE e == [svc |-> s, sid |-> k, waiting |-> FALSE, acks |-> {}]
  <1>1. e \in Entry
    BY DEF Entry
  <1> HIDE DEF e
  <1>2. Append(reg, e) \in Seq(Entry) /\ Entries(Append(reg, e)) = Entries(reg) \union {e}
    BY <1>1, AppendProperties, AppendEntries
  <1> QED BY <1>2 DEF Register, e

(* Purge takes out the entries that wait for nobody, and no other.         *)
LEMMA PurgeEntries ==
  ASSUME NEW reg \in Seq(Entry)
  PROVE  /\ Purge(reg) \in Seq(Entry)
         /\ Entries(Purge(reg)) = {e \in Entries(reg) : e.waiting => e.acks # {}}
PROOF
  <1> DEFINE I == {i \in DOMAIN reg : reg[i].waiting => reg[i].acks # {}}
  <1>1. Kept(reg, I) \in Seq(Entry) /\ Entries(Kept(reg, I)) = {reg[i] : i \in I}
    BY KeptSequence
  <1>2. Purge(reg) = Kept(reg, I)
    BY DEF Purge
  <1>3. {reg[i] : i \in I} = {e \in Entries(reg) : e.waiting => e.acks # {}}
    BY DEF Entries
  <1> QED BY <1>1, <1>2, <1>3

(* Removed takes out the entry, and no other.                              *)
LEMMA RemovedEntries ==
  ASSUME NEW reg \in Seq(Entry), NEW e
  PROVE  /\ Removed(reg, e) \in Seq(Entry)
         /\ Entries(Removed(reg, e)) = Entries(reg) \ {e}
PROOF
  <1> DEFINE I == {i \in DOMAIN reg : reg[i] # e}
  <1>1. Kept(reg, I) \in Seq(Entry) /\ Entries(Kept(reg, I)) = {reg[i] : i \in I}
    BY KeptSequence
  <1>2. Removed(reg, e) = Kept(reg, I)
    BY DEF Removed
  <1>3. {reg[i] : i \in I} = Entries(reg) \ {e}
    BY DEF Entries
  <1> QED BY <1>1, <1>2, <1>3

(* The list that an answer carries has the available entries, and no       *)
(* other.                                                                  *)
LEMMA AccessibleEntries ==
  ASSUME NEW reg \in Seq(Entry)
  PROVE  Accessible(reg) \in Seq(Entry) /\ Entries(Accessible(reg)) = Available(reg)
PROOF
  <1> DEFINE I == {i \in DOMAIN reg : ~reg[i].waiting}
  <1>1. Kept(reg, I) \in Seq(Entry) /\ Entries(Kept(reg, I)) = {reg[i] : i \in I}
    BY KeptSequence
  <1>2. Accessible(reg) = Kept(reg, I)
    BY DEF Accessible
  <1>3. {reg[i] : i \in I} = Available(reg)
    BY DEF Available, Entries
  <1> QED BY <1>1, <1>2, <1>3

(* The elements of a sequence over S are in S.                             *)
LEMMA EntriesType ==
  ASSUME NEW S, NEW s \in Seq(S)
  PROVE  /\ Entries(s) \subseteq S
         /\ \A i \in DOMAIN s : s[i] \in S
PROOF
  <1>1. DOMAIN s = 1 .. Len(s)
    BY LenProperties
  <1>2. \A i \in DOMAIN s : s[i] \in S
    BY <1>1, ElementOfSeq
  <1> QED BY <1>2 DEF Entries

(* A sequence whose elements are each changed for another of the set.      *)
LEMMA PointwiseType ==
  ASSUME NEW S, NEW T, NEW s \in Seq(S), NEW t, DOMAIN t = DOMAIN s, t = [i \in DOMAIN s |-> t[i]],
         \A i \in DOMAIN s : t[i] \in T
  PROVE  t \in Seq(T)
PROOF
  <1>1. DOMAIN s = 1 .. Len(s) /\ Len(s) \in Nat
    BY LenProperties
  <1>2. t \in [1 .. Len(s) -> T]
    BY <1>1
  <1> QED BY <1>1, <1>2 DEF Seq

(* What becomes of an entry when service s leaves: its own waits for those *)
(* that are left, and no other waits for it any more.                      *)
Gone(e, s) == e.svc = s /\ ~e.waiting
Marked(reg, s, e) ==
  LET freed == {f.sid : f \in {g \in Entries(reg) : Gone(g, s)}}
      others == {f.sid : f \in {g \in Available(reg) : g.svc # s}}
  IN  IF Gone(e, s) THEN [e EXCEPT !.waiting = TRUE, !.acks = others]
                    ELSE [e EXCEPT !.acks = @ \ freed]

(* What doRemove makes of an entry is an entry.                            *)
LEMMA MarkedType ==
  ASSUME NEW reg \in Seq(Entry), NEW s \in Service, NEW e \in Entry
  PROVE  Marked(reg, s, e) \in Entry
PROOF
  <1>1. Entries(reg) \subseteq Entry
    BY EntriesType
  <1> DEFINE freed == {f.sid : f \in {g \in Entries(reg) : Gone(g, s)}}
             others == {f.sid : f \in {g \in Available(reg) : g.svc # s}}
  <1>2. others \in SUBSET SId
    BY <1>1 DEF Available, Entry
  <1>3. Marked(reg, s, e) = IF Gone(e, s) THEN [e EXCEPT !.waiting = TRUE, !.acks = others]
                                          ELSE [e EXCEPT !.acks = @ \ freed]
    BY DEF Marked
  <1> HIDE DEF freed, others
  <1> QED BY <1>2, <1>3 DEF Entry

(* doRemove marks each entry, and the list loses those of the service that *)
(* wait for nobody.                                                        *)
LEMMA UnregisterEntries ==
  ASSUME NEW reg \in Seq(Entry), NEW s \in Service
  PROVE  /\ Unregister(reg, s) \in Seq(Entry)
         /\ Entries(Unregister(reg, s)) =
              {e \in {Marked(reg, s, f) : f \in Entries(reg)} :
                 ~(e.svc = s /\ e.waiting /\ e.acks = {})}
PROOF
  <1> DEFINE m == [i \in DOMAIN reg |-> Marked(reg, s, reg[i])]
             removed(e) == e.svc = s /\ e.waiting /\ e.acks = {}
             I == {i \in DOMAIN reg : ~removed(m[i])}
  <1>1. \A i \in DOMAIN reg : reg[i] \in Entry
    BY EntriesType
  <1>2. \A i \in DOMAIN reg : m[i] \in Entry
    BY <1>1, MarkedType
  <1>3. m \in Seq(Entry)
    BY <1>2, PointwiseType
  <1>4. Unregister(reg, s) = Kept(m, I)
    BY DEF Unregister, Marked, Gone
  <1>5. I \in SUBSET DOMAIN m
    OBVIOUS
  <1>6. {m[i] : i \in I} =
          {e \in {Marked(reg, s, f) : f \in Entries(reg)} : ~removed(e)}
    BY DEF Entries
  <1>7. {m[i] : i \in I} =
          {e \in {Marked(reg, s, f) : f \in Entries(reg)} :
             ~(e.svc = s /\ e.waiting /\ e.acks = {})}
    BY <1>6
  <1> HIDE DEF m, I
  <1>8. Kept(m, I) \in Seq(Entry) /\ Entries(Kept(m, I)) = {m[i] : i \in I}
    BY <1>3, <1>5, KeptSequence
  <1> QED BY <1>4, <1>7, <1>8

(* Of the entries that wait for this answer, the first one is changed; or  *)
(* there is none.                                                          *)
LEMMA AcknowledgeEntries ==
  ASSUME NEW reg \in Seq(Entry), NEW from, NEW k
  PROVE  /\ Acknowledge(reg, from, k) \in Seq(Entry)
         /\ \/ /\ Acknowledge(reg, from, k) = reg
               /\ \A e \in Entries(reg) : ~Awaits(e, from, k)
            \/ \E h \in DOMAIN reg :
                 /\ Awaits(reg[h], from, k)
                 /\ Entries(Acknowledge(reg, from, k)) =
                      {e \in {reg[i] : i \in DOMAIN reg \ {h}}
                               \union {[reg[h] EXCEPT !.acks = @ \ {from}]} :
                         e.waiting => e.acks # {}}
PROOF
  <1> DEFINE found == {i \in DOMAIN reg : Awaits(reg[i], from, k)}
             first(i) == i \in found /\ \A j \in found : i <= j
             new == [i \in DOMAIN reg |->
                       IF first(i) THEN [reg[i] EXCEPT !.acks = @ \ {from}] ELSE reg[i]]
  <1>1. Acknowledge(reg, from, k) = IF found = {} THEN reg ELSE Purge(new)
    BY DEF Acknowledge
  <1>2. CASE found = {}
    BY <1>1, <1>2 DEF Entries
  <1>3. CASE found # {}
    <2>1. found \in SUBSET Nat /\ found \in SUBSET DOMAIN reg
      BY KeptSequence
    <2>2. PICK h \in found : \A j \in found : h <= j
      BY <2>1, <1>3, LeastExists
    <2>3. \A i \in DOMAIN reg : first(i) <=> i = h
      <3>1. ASSUME NEW i \in DOMAIN reg, first(i)
            PROVE  i = h
        <4>1. i \in Nat /\ h \in Nat /\ i <= h /\ h <= i
          BY <3>1, <2>1, <2>2
        <4> QED BY <4>1
      <3> QED BY <3>1, <2>2
    <2> DEFINE x == [reg[h] EXCEPT !.acks = @ \ {from}]
    <2>4. new = [i \in DOMAIN reg |-> IF i = h THEN x ELSE reg[i]]
      BY <2>3
    <2>5. h \in DOMAIN reg /\ Awaits(reg[h], from, k) /\ reg[h] \in Entry
      BY <2>2, EntriesType
    <2>6. x \in Entry
      BY <2>5 DEF Entry
    <2>7. Acknowledge(reg, from, k) = Purge(new)
      BY <1>1, <1>3
    <2> HIDE DEF x, new, first, found
    <2>8. \A i \in DOMAIN reg : new[i] \in Entry
      BY <2>4, <2>6, EntriesType
    <2>9. new \in Seq(Entry)
      BY <2>4, <2>8, PointwiseType
    <2>10. Entries(new) = {reg[i] : i \in DOMAIN reg \ {h}} \union {x}
      BY <2>4, <2>5 DEF Entries
    <2>11. /\ Purge(new) \in Seq(Entry)
           /\ Entries(Purge(new)) = {e \in Entries(new) : e.waiting => e.acks # {}}
      BY <2>9, PurgeEntries
    <2>12. Entries(Purge(new)) = {e \in {reg[i] : i \in DOMAIN reg \ {h}} \union {x} :
                                    e.waiting => e.acks # {}}
      BY <2>10, <2>11
    <2> QED BY <2>5, <2>7, <2>11, <2>12 DEF x
  <1> QED BY <1>2, <1>3

-----------------------------------------------------------------------------
(* The identifiers of a list are different.                                *)
Distinct(s) == \A i, j \in DOMAIN s : s[i].sid = s[j].sid => i = j

(* An identifier has one entry in a list where they are distinct.          *)
LEMMA DistinctEntries ==
  ASSUME NEW s, Distinct(s), NEW e \in Entries(s), NEW f \in Entries(s), e.sid = f.sid
  PROVE  e = f
PROOF
  BY DEF Distinct, Entries

(* They stay distinct when entries are removed ...                         *)
LEMMA DistinctKept ==
  ASSUME NEW S, NEW s \in Seq(S), NEW I \in SUBSET DOMAIN s, Distinct(s)
  PROVE  Distinct(Kept(s, I))
PROOF
  <1>1. IsFiniteSet(I) /\ I \in SUBSET Nat
    BY KeptSequence
  <1>2. PICK f : Numbers(f, s, I)
    BY <1>1, KeptProperties
  <1>3. Cardinality(I) \in Nat /\ DOMAIN Kept(s, I) = 1 .. Cardinality(I)
    BY <1>1, KeptProperties
  <1> SUFFICES ASSUME NEW m \in 1 .. Cardinality(I), NEW n \in 1 .. Cardinality(I),
                      Kept(s, I)[m].sid = Kept(s, I)[n].sid
               PROVE  m = n
    BY <1>3 DEF Distinct
  <1>4. f[m] \in I /\ f[n] \in I /\ s[f[m]].sid = s[f[n]].sid
    BY <1>2 DEF Numbers
  <1>5. f[m] = f[n]
    BY <1>4 DEF Distinct
  <1>6. (m < n <=> f[m] < f[n]) /\ (n < m <=> f[n] < f[m])
    BY <1>2 DEF Numbers
  <1>7. f[m] \in Nat /\ f[n] \in Nat
    BY <1>1, <1>4
  <1>8. ~(m < n) /\ ~(n < m)
    BY <1>5, <1>6, <1>7
  <1> QED BY <1>3, <1>8

(* ... when one comes that has an identifier of its own ...                *)
LEMMA DistinctAppend ==
  ASSUME NEW S, NEW s \in Seq(S), NEW x \in S, Distinct(s), \A e \in Entries(s) : e.sid # x.sid
  PROVE  Distinct(Append(s, x))
PROOF
  <1> DEFINE t == Append(s, x)
  <1>1. /\ t \in Seq(S)
        /\ Len(t) = Len(s) + 1
        /\ \A i \in 1 .. Len(s) : t[i] = s[i]
        /\ t[Len(s) + 1] = x
    BY AppendProperties
  <1> HIDE DEF t
  <1>2. DOMAIN s = 1 .. Len(s) /\ Len(s) \in Nat /\ DOMAIN t = 1 .. Len(t)
    BY <1>1, LenProperties
  <1>3. DOMAIN t = DOMAIN s \union {Len(s) + 1}
    BY <1>1, <1>2
  <1>4. \A i \in DOMAIN s : t[i] = s[i] /\ s[i].sid # x.sid
    BY <1>1, <1>2 DEF Entries
  <1>5. Distinct(t)
    BY <1>1, <1>3, <1>4 DEF Distinct
  <1> QED BY <1>5 DEF t

(* ... and when entries change, but for their identifiers.                 *)
LEMMA DistinctRenamed ==
  ASSUME NEW s, NEW t, Distinct(s), DOMAIN t = DOMAIN s, \A i \in DOMAIN s : t[i].sid = s[i].sid
  PROVE  Distinct(t)
PROOF
  BY DEF Distinct

-----------------------------------------------------------------------------
(* No element of B comes after one of A.                                   *)
Bars(s, A, B) == \A i, j \in DOMAIN s : i < j /\ s[i] \in A => s[j] \notin B

(* The head of a queue bars what follows it.                               *)
LEMMA BarsTail ==
  ASSUME NEW S, NEW s \in Seq(S), s # << >>, NEW A, NEW B, Bars(s, A, B)
  PROVE  /\ Bars(Tail(s), A, B)
         /\ Head(s) \in A => Entries(Tail(s)) \intersect B = {}
PROOF
  <1> DEFINE t == Tail(s)
  <1>1. /\ Head(s) = s[1]
        /\ Len(t) = Len(s) - 1
        /\ \A i \in 1 .. Len(t) : t[i] = s[i + 1]
        /\ t \in Seq(S)
    BY HeadTailProperties DEF Head
  <1> HIDE DEF t
  <1>2. Len(s) \in Nat \ {0} /\ DOMAIN s = 1 .. Len(s) /\ DOMAIN t = 1 .. Len(t)
    BY <1>1, EmptySeq, LenProperties
  <1>3. \A i \in DOMAIN t : t[i] = s[i + 1] /\ i + 1 \in DOMAIN s /\ 1 < i + 1
    BY <1>1, <1>2
  <1>4. \A i, j \in DOMAIN t : i < j => i + 1 < j + 1
    BY <1>1, <1>2
  <1>5. Bars(t, A, B)
    BY <1>3, <1>4 DEF Bars
  <1>6. ASSUME s[1] \in A
        PROVE  \A j \in DOMAIN t : t[j] \notin B
    <2>1. 1 \in DOMAIN s
      BY <1>2
    <2> QED BY <1>3, <1>6, <2>1 DEF Bars
  <1>7. Head(s) \in A => Entries(t) \intersect B = {}
    BY <1>1, <1>6 DEF Entries
  <1> QED BY <1>5, <1>7 DEF t

(* A message may be appended that nothing in the queue bars.               *)
LEMMA BarsAppend ==
  ASSUME NEW S, NEW s \in Seq(S), NEW x \in S, NEW A, NEW B, Bars(s, A, B),
         Entries(s) \intersect A = {} \/ x \notin B
  PROVE  Bars(Append(s, x), A, B)
PROOF
  <1> DEFINE t == Append(s, x)
  <1>1. /\ t \in Seq(S)
        /\ Len(t) = Len(s) + 1
        /\ \A i \in 1 .. Len(s) : t[i] = s[i]
        /\ t[Len(s) + 1] = x
    BY AppendProperties
  <1> HIDE DEF t
  <1>2. DOMAIN s = 1 .. Len(s) /\ Len(s) \in Nat /\ DOMAIN t = 1 .. Len(t)
    BY <1>1, LenProperties
  <1> SUFFICES ASSUME NEW i \in DOMAIN t, NEW j \in DOMAIN t, i < j, t[i] \in A, t[j] \in B
               PROVE  FALSE
    BY DEF Bars, t
  <1>3. i \in DOMAIN s /\ (j \in DOMAIN s \/ j = Len(s) + 1)
    BY <1>1, <1>2
  <1>4. t[i] = s[i] /\ s[i] \in Entries(s)
    BY <1>1, <1>2, <1>3 DEF Entries
  <1>5. CASE j \in DOMAIN s
    <2>1. t[j] = s[j]
      BY <1>1, <1>2, <1>5
    <2> QED BY <1>3, <1>4, <1>5, <2>1 DEF Bars
  <1>6. CASE j = Len(s) + 1
    BY <1>1, <1>4, <1>6
  <1> QED BY <1>3, <1>5, <1>6

(* A crash, which cuts a queue, keeps what it bars.                        *)
LEMMA BarsPrefix ==
  ASSUME NEW S, NEW s \in Seq(S), NEW n \in 0 .. Len(s), NEW A, NEW B, Bars(s, A, B)
  PROVE  Bars(SubSeq(s, 1, n), A, B)
PROOF
  <1>1. Len(s) \in Nat /\ DOMAIN s = 1 .. Len(s) /\ n \in Nat /\ n <= Len(s)
    BY LenProperties
  <1> DEFINE t == SubSeq(s, 1, n)
  <1>2. t = [i \in 1 .. n |-> s[i]]
    <2>1. t = [i \in 1 .. (1 + n - 1) |-> s[i + 1 - 1]]
      BY <1>1 DEF SubSeq
    <2>2. 1 + n - 1 = n /\ \A i \in 1 .. n : i + 1 - 1 = i
      BY <1>1
    <2> QED BY <2>1, <2>2
  <1>3. \A i \in 1 .. n : i \in DOMAIN s
    BY <1>1
  <1> HIDE DEF t
  <1>4. DOMAIN t = 1 .. n /\ \A i \in DOMAIN t : t[i] = s[i] /\ i \in DOMAIN s
    BY <1>2, <1>3
  <1>5. Bars(t, A, B)
    BY <1>4 DEF Bars
  <1> QED BY <1>5 DEF t

(* Nothing is barred in a queue of at most one message.                    *)
LEMMA BarsShort ==
  ASSUME NEW A, NEW B
  PROVE  Bars(<< >>, A, B) /\ \A x : Bars(<< x >>, A, B)
PROOF
  BY DEF Bars

(* A prefix that is not empty has the same head.                           *)
LEMMA PrefixHead ==
  ASSUME NEW S, NEW s \in Seq(S), NEW n \in 0 .. Len(s), SubSeq(s, 1, n) # << >>
  PROVE  s # << >> /\ Head(SubSeq(s, 1, n)) = Head(s)
PROOF
  <1>1. Len(s) \in Nat /\ DOMAIN s = 1 .. Len(s) /\ n \in Nat /\ n <= Len(s)
    BY LenProperties
  <1> DEFINE t == SubSeq(s, 1, n)
  <1>2. t = [i \in 1 .. n |-> s[i]]
    <2>1. t = [i \in 1 .. (1 + n - 1) |-> s[i + 1 - 1]]
      BY <1>1 DEF SubSeq
    <2>2. 1 + n - 1 = n /\ \A i \in 1 .. n : i + 1 - 1 = i
      BY <1>1
    <2> QED BY <2>1, <2>2
  <1>3. n # 0
    <2>1. t \in Seq(S) /\ Len(t) = n
      <3>1. t \in Seq(S)
        BY PrefixEntries
      <3> QED BY <1>1, <1>2, <3>1
    <2> QED BY <2>1, EmptySeq
  <1>4. 1 \in 1 .. n /\ 1 \in DOMAIN s
    BY <1>1, <1>3
  <1>5. s # << >>
    BY <1>4, <1>1, EmptySeq
  <1> QED BY <1>2, <1>4, <1>5 DEF Head

(* What follows the head of a sequence, and the head when one is appended. *)
LEMMA HeadAppend ==
  ASSUME NEW S, NEW s \in Seq(S), NEW x \in S
  PROVE  /\ Append(s, x) # << >>
         /\ s # << >> => Head(Append(s, x)) = Head(s)
         /\ s = << >> => Head(Append(s, x)) = x
PROOF
  <1>1. /\ Append(s, x) \in Seq(S)
        /\ Len(Append(s, x)) = Len(s) + 1
        /\ \A i \in 1 .. Len(s) : Append(s, x)[i] = s[i]
        /\ Append(s, x)[Len(s) + 1] = x
    BY AppendProperties
  <1>2. Len(s) \in Nat /\ (s = << >> => Len(s) = 0) /\ (s # << >> => Len(s) # 0)
    BY LenProperties, EmptySeq
  <1>3. Append(s, x) # << >>
    BY <1>1, <1>2, EmptySeq
  <1>4. Head(Append(s, x)) = Append(s, x)[1]
    BY DEF Head
  <1>5. CASE s # << >>
    <2>1. 1 \in 1 .. Len(s)
      BY <1>2, <1>5
    <2>2. Head(s) = s[1]
      BY DEF Head
    <2> QED BY <1>1, <1>3, <1>4, <1>5, <2>1, <2>2
  <1>6. CASE s = << >>
    BY <1>1, <1>2, <1>3, <1>4, <1>6
  <1> QED BY <1>5, <1>6

(* A sequence without elements is empty.                                   *)
LEMMA EntriesEmpty ==
  ASSUME NEW S, NEW s \in Seq(S)
  PROVE  (Entries(s) = {} <=> s = << >>) /\ Entries(<< >>) = {}
PROOF
  <1>1. Len(s) \in Nat /\ DOMAIN s = 1 .. Len(s) /\ (s # << >> => Len(s) # 0)
    BY LenProperties, EmptySeq
  <1>2. s # << >> => s[1] \in Entries(s)
    <2>1. s # << >> => 1 \in DOMAIN s
      BY <1>1
    <2> QED BY <2>1 DEF Entries
  <1>3. Entries(<< >>) = {}
    BY DEF Entries
  <1> QED BY <1>2, <1>3

(* The only element of a sequence of length one.                           *)
LEMMA EntriesSingle ==
  ASSUME NEW x
  PROVE  Entries(<< x >>) = {x}
PROOF
  <1>1. DOMAIN << x >> = {1} /\ << x >>[1] = x
    OBVIOUS
  <1> QED BY <1>1 DEF Entries

(* What the naming service does with the entries keeps their identifiers.  *)
LEMMA AcknowledgeDistinct ==
  ASSUME NEW reg \in Seq(Entry), NEW from, NEW k, Distinct(reg)
  PROVE  Distinct(Acknowledge(reg, from, k))
PROOF
  <1> DEFINE found == {i \in DOMAIN reg : Awaits(reg[i], from, k)}
             first(i) == i \in found /\ \A j \in found : i <= j
             new == [i \in DOMAIN reg |->
                       IF first(i) THEN [reg[i] EXCEPT !.acks = @ \ {from}] ELSE reg[i]]
  <1>1. Acknowledge(reg, from, k) = IF found = {} THEN reg ELSE Purge(new)
    BY DEF Acknowledge
  <1>2. \A i \in DOMAIN reg : reg[i] \in Entry
    BY EntriesType
  <1>3. \A i \in DOMAIN reg : new[i] \in Entry /\ new[i].sid = reg[i].sid
    BY <1>2 DEF Entry
  <1>4. DOMAIN new = DOMAIN reg /\ new = [i \in DOMAIN reg |-> new[i]]
    OBVIOUS
  <1> HIDE DEF new, first, found
  <1>5. new \in Seq(Entry)
    BY <1>3, <1>4, PointwiseType
  <1>6. Distinct(new)
    BY <1>3, <1>4, DistinctRenamed
  <1>7. Distinct(Purge(new))
    BY <1>5, <1>6, DistinctKept DEF Purge
  <1> QED BY <1>1, <1>7

(* doRemove leaves the identifiers distinct.                               *)
LEMMA UnregisterDistinct ==
  ASSUME NEW reg \in Seq(Entry), NEW s \in Service, Distinct(reg)
  PROVE  Distinct(Unregister(reg, s))
PROOF
  <1> DEFINE gone(e) == e.svc = s /\ ~e.waiting
             freed == {e.sid : e \in {f \in Entries(reg) : gone(f)}}
             others == {e.sid : e \in {f \in Available(reg) : f.svc # s}}
             new == [i \in DOMAIN reg |->
                       IF gone(reg[i]) THEN [reg[i] EXCEPT !.waiting = TRUE, !.acks = others]
                       ELSE [reg[i] EXCEPT !.acks = @ \ freed]]
             removed(e) == e.svc = s /\ e.waiting /\ e.acks = {}
  <1>1. Unregister(reg, s) = Kept(new, {i \in DOMAIN reg : ~removed(new[i])})
    BY DEF Unregister
  <1>2. \A i \in DOMAIN reg : reg[i] \in Entry
    BY EntriesType
  <1>3. Available(reg) \subseteq Entry
    BY EntriesType DEF Available
  <1>4. others \subseteq SId
    BY <1>3 DEF Entry
  <1> HIDE DEF others, freed
  <1>5. \A i \in DOMAIN reg : new[i] \in Entry /\ new[i].sid = reg[i].sid
    BY <1>2, <1>4 DEF Entry
  <1>6. DOMAIN new = DOMAIN reg /\ new = [i \in DOMAIN reg |-> new[i]]
    OBVIOUS
  <1> HIDE DEF new, removed
  <1>7. new \in Seq(Entry)
    BY <1>5, <1>6, PointwiseType
  <1>8. Distinct(new)
    BY <1>5, <1>6, DistinctRenamed
  <1> QED BY <1>1, <1>6, <1>7, <1>8, DistinctKept

-----------------------------------------------------------------------------
(* The messages there are, and what makes the identifiers that are used    *)
(* identifiers.                                                            *)
Refusal == [type : {"RG"}, ok : {FALSE}]
Answers == [type : {"RG"}, ok : {TRUE}, sid : SId, list : Seq(Entry)]
News == [type : {"RGB", "UNB"}, svc : Service, sid : SId]
FromNSMessage == Refusal \union Answers \union News
ToNSMessage == [type : {"RG", "RRG", "closed"}] \union [type : {"ACK_UNI"}, sid : SId]

MailOK ==
  /\ toNS \in [Service -> Seq(ToNSMessage)]
  /\ fromNS \in [Service -> Seq(FromNSMessage)]

Identified ==
  /\ \A p \in Service : stage[p] \in {"registered", "connecting", "running"} => sid[p] # 0
  /\ \A p \in Service : \A m \in Entries(toNS[p]) : m.type \in {"RRG", "ACK_UNI"} => sid[p] # 0
  /\ \A c, p \in Service : link[c][p] \in {"ident", "gone"} => sid[c] # 0

Name == {NameOf[p] : p \in Service}
IdEntry == [name : Name \union {"DEAD"},
            conn : {"empty", "invalid", "client", "server"},
            peer : Service \union {None}]
State == {"none", "ident", "gone", "up", "broken", "closed"}

NamingType == registry \in Seq(Entry) /\ unique \in UniqueNames /\ nsUp \in BOOLEAN
StageType ==
  /\ cnx \in [Service -> {"none", "open", "cut"}]
  /\ stage \in [Service -> {"off", "registering", "registered", "connecting", "running", "dead"}]
  /\ sid \in [Service -> SId \union {0}]
TablesType ==
  /\ known \in [Service -> Seq([svc : Service, sid : SId])]
  /\ ids \in [Service -> [SId -> IdEntry]]
  /\ named \in [Service -> SUBSET (Name \X SId)]
  /\ up \in [Service -> SUBSET (Service \X SId)]
LinkType == link \in [Service -> [Service -> State]]
HistoryType == faults \in [Fault -> Nat] /\ spoiled \subseteq Service \X SId

Typed == NamingType /\ MailOK /\ StageType /\ TablesType /\ LinkType /\ HistoryType
TypeInv == Typed /\ Identified

-----------------------------------------------------------------------------
(* The smallest free identifier and the first place of a list exist.       *)
LEMMA MinProperties ==
  ASSUME NEW S \in SUBSET Nat, S # {}
  PROVE  Min(S) \in S /\ \A k \in S : Min(S) <= k
PROOF
  BY LeastExists DEF Min

(* Identifiers are numbers from 1 on.                                      *)
LEMMA SIdNat == SId \subseteq Nat \ {0}
PROOF
  BY ShardAssumption DEF SId, ShardAssumption

(* Sending on a channel, and taking the first message of one.              *)
LEMMA ChannelType ==
  ASSUME NEW M, NEW f \in [Service -> Seq(M)], NEW p \in Service
  PROVE  /\ \A m \in M : [f EXCEPT ![p] = Append(@, m)] \in [Service -> Seq(M)]
         /\ \A m \in M : [f EXCEPT ![p] = << m >>] \in [Service -> Seq(M)]
         /\ [f EXCEPT ![p] = << >>] \in [Service -> Seq(M)]
         /\ f[p] # << >> => [f EXCEPT ![p] = Tail(@)] \in [Service -> Seq(M)]
         /\ f[p] # << >> => Head(f[p]) \in M /\ 1 \in DOMAIN f[p] /\ Head(f[p]) = f[p][1]
PROOF
  <1>1. f[p] \in Seq(M)
    OBVIOUS
  <1>2. \A m \in M : Append(f[p], m) \in Seq(M)
    BY <1>1, AppendProperties
  <1>3. \A m \in M : << m >> \in Seq(M)
    OBVIOUS
  <1>4. << >> \in Seq(M)
    OBVIOUS
  <1>5. f[p] # << >> => Tail(f[p]) \in Seq(M)
    BY <1>1, HeadTailProperties
  <1>6. ASSUME f[p] # << >>
        PROVE  Head(f[p]) \in M /\ 1 \in DOMAIN f[p] /\ Head(f[p]) = f[p][1]
    <2>1. Len(f[p]) \in Nat /\ Len(f[p]) # 0 /\ DOMAIN f[p] = 1 .. Len(f[p])
      BY <1>1, <1>6, EmptySeq, LenProperties
    <2>2. 1 \in 1 .. Len(f[p])
      BY <2>1
    <2>3. f[p][1] \in M
      BY <1>1, <2>2, ElementOfSeq
    <2>4. Head(f[p]) = f[p][1]
      BY DEF Head
    <2> QED BY <2>1, <2>2, <2>3, <2>4
  <1> QED BY <1>1, <1>2, <1>3, <1>4, <1>5, <1>6

(* What the naming service sends on the connections that are open.         *)
LEMMA BroadcastType ==
  ASSUME fromNS \in [Service -> Seq(FromNSMessage)], NEW to, NEW m \in FromNSMessage
  PROVE  Broadcast(to, m) \in [Service -> Seq(FromNSMessage)]
PROOF
  <1>1. \A p \in Service : Append(fromNS[p], m) \in Seq(FromNSMessage)
    BY AppendProperties
  <1> QED BY <1>1 DEF Broadcast

(* An answer is one of the messages to a service ...                       *)
LEMMA ReplyType ==
  ASSUME NEW f \in [Service -> Seq(FromNSMessage)], NEW p \in Service, NEW m \in FromNSMessage
  PROVE  Reply(f, p, m) \in [Service -> Seq(FromNSMessage)]
PROOF
  <1>1. Append(f[p], m) \in Seq(FromNSMessage)
    BY AppendProperties
  <1> QED BY <1>1 DEF Reply

(* ... and what a service sends is one of those to the naming service.     *)
LEMMA SendType ==
  ASSUME toNS \in [Service -> Seq(ToNSMessage)], NEW p \in Service, NEW m \in ToNSMessage
  PROVE  Send(p, m) \in [Service -> Seq(ToNSMessage)]
PROOF
  BY ChannelType DEF Send

-----------------------------------------------------------------------------
(* Type correctness.                                                       *)
LEMMA MailTypes ==
  ASSUME MailOK, NEW p \in Service
  PROVE  /\ \A i \in DOMAIN toNS[p] : toNS[p][i].type \in {"RG", "RRG", "ACK_UNI", "closed"}
         /\ \A i \in DOMAIN fromNS[p] : fromNS[p][i].type \in {"RG", "RGB", "UNB"}
PROOF
  <1>1. \A i \in DOMAIN toNS[p] : toNS[p][i] \in ToNSMessage
    BY EntriesType DEF MailOK
  <1>2. \A i \in DOMAIN fromNS[p] : fromNS[p][i] \in FromNSMessage
    BY EntriesType DEF MailOK
  <1>3. \A m \in ToNSMessage : m.type \in {"RG", "RRG", "ACK_UNI", "closed"}
    BY DEF ToNSMessage
  <1>4. \A m \in FromNSMessage : m.type \in {"RG", "RGB", "UNB"}
    BY DEF FromNSMessage, Refusal, Answers, News
  <1> QED BY <1>1, <1>2, <1>3, <1>4

(* The types that the proofs need are at least those that TLC checks.      *)
LEMMA TypedImpliesTypeOK == Typed => TypeOK
PROOF
  <1> SUFFICES ASSUME Typed PROVE TypeOK
    OBVIOUS
  <1>1. MailOK
    BY DEF Typed
  <1>2. \A p \in Service :
          /\ \A i \in DOMAIN toNS[p] : toNS[p][i].type \in {"RG", "RRG", "ACK_UNI", "closed"}
          /\ \A i \in DOMAIN fromNS[p] : fromNS[p][i].type \in {"RG", "RGB", "UNB"}
    BY <1>1, MailTypes
  <1> QED
    BY <1>2 DEF Typed, NamingType, StageType, TablesType, LinkType, HistoryType, TypeOK,
                Name, IdEntry, State

(* All is empty at first.                                                  *)
LEMMA TypeInit == Init => TypeInv
PROOF
  <1> SUFFICES ASSUME Init PROVE TypeInv
    OBVIOUS
  <1> USE DEF Init
  <1>1. NamingType
    BY DEF NamingType
  <1>2. MailOK
    BY DEF MailOK
  <1>3. StageType
    BY DEF StageType
  <1>4. TablesType
    <2>1. NotUsed \in IdEntry
      BY DEF NotUsed, IdEntry
    <2> QED BY <2>1 DEF TablesType
  <1>5. LinkType /\ HistoryType
    BY DEF LinkType, State, HistoryType
  <1>6. Identified
    BY DEF Identified, Entries
  <1> QED BY <1>1, <1>2, <1>3, <1>4, <1>5, <1>6 DEF Typed, TypeInv

(* A fault is about processes and identifiers that there are.              *)
LEMMA SpoilType ==
  ASSUME HistoryType, NEW ps \in SUBSET Service, NEW ks \in SUBSET SId, Spoil(ps, ks),
         faults' \in [Fault -> Nat]
  PROVE  HistoryType'
PROOF
  BY DEF HistoryType, Spoil

(* The faults are counted.                                                 *)
LEMMA FailsType ==
  ASSUME HistoryType, NEW kind \in Fault, Fails(kind)
  PROVE  faults' \in [Fault -> Nat]
PROOF
  <1>1. faults \in [Fault -> Nat] /\ faults' = [faults EXCEPT ![kind] = @ + 1]
    BY DEF HistoryType, Fails
  <1>2. faults[kind] + 1 \in Nat
    BY <1>1
  <1> QED BY <1>1, <1>2

(* The naming service.                                                     *)
LEMMA HandledType ==
  ASSUME TypeInv, NEW p \in Service, NEW type, Received(p, type), Handled(p)
  PROVE  /\ toNS' \in [Service -> Seq(ToNSMessage)]
         /\ Head(toNS[p]) \in ToNSMessage /\ Head(toNS[p]) \in Entries(toNS[p])
         /\ Head(toNS[p]).type = type
         /\ \A q \in Service : Entries(toNS'[q]) \subseteq Entries(toNS[q])
PROOF
  <1>1. toNS \in [Service -> Seq(ToNSMessage)]
    BY DEF TypeInv, Typed, MailOK
  <1>2. toNS[p] # << >> /\ Head(toNS[p]).type = type /\ toNS' = [toNS EXCEPT ![p] = Tail(@)]
    BY DEF Received, Handled
  <1>3. Entries(toNS[p]) = {Head(toNS[p])} \union Entries(Tail(toNS[p]))
    BY <1>1, <1>2, TailEntries
  <1> QED BY <1>1, <1>2, <1>3, ChannelType

(* The types are kept when a registration is refused ...                   *)
LEMMA RefuseType ==
  ASSUME TypeInv, NEW p \in Service, NSRefuse(p)
  PROVE  TypeInv'
PROOF
  <1> USE DEF NSRefuse, naming, tables
  <1>1. /\ toNS' \in [Service -> Seq(ToNSMessage)]
        /\ \A q \in Service : Entries(toNS'[q]) \subseteq Entries(toNS[q])
    BY HandledType
  <1>2. fromNS' \in [Service -> Seq(FromNSMessage)]
    <2>1. [type |-> "RG", ok |-> FALSE] \in FromNSMessage
      BY DEF FromNSMessage, Refusal
    <2> QED BY <2>1, ReplyType DEF TypeInv, Typed, MailOK
  <1>3. MailOK'
    BY <1>1, <1>2 DEF MailOK
  <1>4. (NamingType /\ StageType /\ TablesType /\ LinkType /\ HistoryType)'
    BY DEF TypeInv, Typed, NamingType, StageType, TablesType, LinkType, HistoryType
  <1>5. Identified'
    BY <1>1 DEF TypeInv, Identified
  <1> QED BY <1>3, <1>4, <1>5 DEF TypeInv, Typed

(* ... when it is accepted, with the smallest identifier that is free ...  *)
LEMMA AcceptType ==
  ASSUME TypeInv, NEW p \in Service, NSAccept(p)
  PROVE  TypeInv'
PROOF
  <1> DEFINE k == Min(FreeSIds(registry))
             rgb == [type |-> "RGB", svc |-> p, sid |-> k]
             rg == [type |-> "RG", ok |-> TRUE, sid |-> k, list |-> Accessible(registry')]
  <1>1. /\ registry \in Seq(Entry)
        /\ fromNS \in [Service -> Seq(FromNSMessage)]
    BY DEF TypeInv, Typed, NamingType, MailOK
  <1>2. /\ Received(p, "RG") /\ Handled(p) /\ FreeSIds(registry) # {}
        /\ registry' = Register(registry, p, k)
        /\ fromNS' = Reply(Broadcast(Recipients, rgb), p, rg)
    BY DEF NSAccept
  <1>3. UNCHANGED << unique, nsUp, cnx, stage, sid, tables, link, faults, spoiled >>
    BY DEF NSAccept
  <1>4. k \in SId
    BY <1>2, SIdNat, MinProperties DEF FreeSIds
  <1> HIDE DEF k
  <1>5. registry' \in Seq(Entry)
    BY <1>1, <1>2, <1>4, RegisterEntries
  <1>6. Accessible(registry') \in Seq(Entry)
    BY <1>5, AccessibleEntries
  <1>7. rgb \in FromNSMessage /\ rg \in FromNSMessage
    BY <1>4, <1>6 DEF FromNSMessage, News, Answers
  <1> HIDE DEF rgb, rg
  <1>8. fromNS' \in [Service -> Seq(FromNSMessage)]
    BY <1>1, <1>2, <1>7, BroadcastType, ReplyType
  <1>9. /\ toNS' \in [Service -> Seq(ToNSMessage)]
        /\ \A q \in Service : Entries(toNS'[q]) \subseteq Entries(toNS[q])
    BY <1>2, HandledType
  <1>10. (NamingType /\ MailOK /\ StageType /\ TablesType /\ LinkType /\ HistoryType)'
    BY <1>3, <1>5, <1>8, <1>9
    DEF TypeInv, Typed, NamingType, MailOK, StageType, TablesType, LinkType, HistoryType, tables
  <1>11. Identified'
    BY <1>3, <1>9 DEF TypeInv, Identified
  <1> QED BY <1>10, <1>11 DEF TypeInv, Typed

(* ... when a service comes back with its identifier ...                   *)
LEMMA ResendType ==
  ASSUME TypeInv, NEW p \in Service, NSResend(p)
  PROVE  TypeInv'
PROOF
  <1>1. /\ registry \in Seq(Entry)
        /\ sid \in [Service -> SId \union {0}]
    BY DEF TypeInv, Typed, NamingType, StageType
  <1>2. /\ Received(p, "RRG") /\ Handled(p)
        /\ registry' \in {Register(registry, p, sid[p]), registry}
    BY DEF NSResend
  <1>3. UNCHANGED << unique, nsUp, fromNS, cnx, stage, sid, tables, link, faults, spoiled >>
    BY DEF NSResend
  <1>4. /\ toNS' \in [Service -> Seq(ToNSMessage)]
        /\ Head(toNS[p]) \in Entries(toNS[p]) /\ Head(toNS[p]).type = "RRG"
        /\ \A q \in Service : Entries(toNS'[q]) \subseteq Entries(toNS[q])
    BY <1>2, HandledType
  <1>5. sid[p] \in SId
    BY <1>1, <1>4 DEF TypeInv, Identified
  <1>6. registry' \in Seq(Entry)
    BY <1>1, <1>2, <1>5, RegisterEntries
  <1>7. (NamingType /\ MailOK /\ StageType /\ TablesType /\ LinkType /\ HistoryType)'
    BY <1>3, <1>4, <1>6
    DEF TypeInv, Typed, NamingType, MailOK, StageType, TablesType, LinkType, HistoryType, tables
  <1>8. Identified'
    BY <1>3, <1>4 DEF TypeInv, Identified
  <1> QED BY <1>7, <1>8 DEF TypeInv, Typed

(* ... and when one acknowledges that another left.                        *)
LEMMA AckType ==
  ASSUME TypeInv, NEW p \in Service, NSAck(p)
  PROVE  TypeInv'
PROOF
  <1>1. registry \in Seq(Entry)
    BY DEF TypeInv, Typed, NamingType
  <1>2. /\ Received(p, "ACK_UNI") /\ Handled(p)
        /\ registry' = Acknowledge(registry, sid[p], Head(toNS[p]).sid)
    BY DEF NSAck
  <1>3. UNCHANGED << unique, nsUp, fromNS, cnx, stage, sid, tables, link, faults, spoiled >>
    BY DEF NSAck
  <1>4. /\ toNS' \in [Service -> Seq(ToNSMessage)]
        /\ \A q \in Service : Entries(toNS'[q]) \subseteq Entries(toNS[q])
    BY <1>2, HandledType
  <1>5. registry' \in Seq(Entry)
    BY <1>1, <1>2, AcknowledgeEntries
  <1>6. (NamingType /\ MailOK /\ StageType /\ TablesType /\ LinkType /\ HistoryType)'
    BY <1>3, <1>4, <1>5
    DEF TypeInv, Typed, NamingType, MailOK, StageType, TablesType, LinkType, HistoryType, tables
  <1>7. Identified'
    BY <1>3, <1>4 DEF TypeInv, Identified
  <1> QED BY <1>6, <1>7 DEF TypeInv, Typed

(* A service that the naming service knows has an identifier there.        *)
LEMMA SIdOfType ==
  ASSUME registry \in Seq(Entry), NEW p, Knows(registry, p)
  PROVE  /\ SIdOf(registry, p) \in SId
         /\ \E e \in Entries(registry) : e.svc = p /\ e.sid = SIdOf(registry, p)
PROOF
  <1>1. Entries(registry) \subseteq Entry
    BY EntriesType
  <1>2. \E k \in SId : \E e \in Entries(registry) : e.svc = p /\ e.sid = k
    BY <1>1 DEF Knows, Available, Entry
  <1> QED BY <1>2 DEF SIdOf

(* The types are kept when a service leaves ...                            *)
LEMMA DisconnectType ==
  ASSUME TypeInv, NEW p \in Service, NSDisconnect(p)
  PROVE  TypeInv'
PROOF
  <1> DEFINE k == SIdOf(registry, p)
             unb == [type |-> "UNB", svc |-> p, sid |-> k]
  <1>1. /\ registry \in Seq(Entry)
        /\ fromNS \in [Service -> Seq(FromNSMessage)]
        /\ HistoryType
    BY DEF TypeInv, Typed, NamingType, MailOK
  <1>2. /\ Received(p, "closed") /\ Handled(p)
        /\ \/ /\ Knows(registry, p)
              /\ fromNS' = Broadcast(Recipients, unb)
              /\ registry' = Unregister(registry, p)
              /\ Spoil(Absent, {k})
           \/ UNCHANGED << registry, fromNS, spoiled >>
    BY DEF NSDisconnect
  <1>3. UNCHANGED << unique, nsUp, cnx, stage, sid, tables, link, faults >>
    BY DEF NSDisconnect
  <1>4. /\ toNS' \in [Service -> Seq(ToNSMessage)]
        /\ \A q \in Service : Entries(toNS'[q]) \subseteq Entries(toNS[q])
    BY <1>2, HandledType
  <1>5. registry' \in Seq(Entry) /\ fromNS' \in [Service -> Seq(FromNSMessage)] /\ HistoryType'
    <2>1. ASSUME Knows(registry, p), fromNS' = Broadcast(Recipients, unb),
                 registry' = Unregister(registry, p), Spoil(Absent, {k})
          PROVE  registry' \in Seq(Entry) /\ fromNS' \in [Service -> Seq(FromNSMessage)]
                 /\ HistoryType'
      <3>1. k \in SId
        BY <1>1, <2>1, SIdOfType
      <3> HIDE DEF k
      <3>2. unb \in FromNSMessage
        BY <3>1 DEF FromNSMessage, News
      <3> HIDE DEF unb
      <3>3. fromNS' \in [Service -> Seq(FromNSMessage)]
        BY <1>1, <2>1, <3>2, BroadcastType
      <3>4. registry' \in Seq(Entry)
        BY <1>1, <2>1, UnregisterEntries
      <3>5. Absent \in SUBSET Service
        BY DEF Absent
      <3>6. faults' \in [Fault -> Nat]
        BY <1>1, <1>3 DEF HistoryType
      <3>7. HistoryType'
        BY <1>1, <2>1, <3>1, <3>5, <3>6, SpoilType
      <3> QED BY <3>3, <3>4, <3>7
    <2>2. ASSUME UNCHANGED << registry, fromNS, spoiled >>
          PROVE  registry' \in Seq(Entry) /\ fromNS' \in [Service -> Seq(FromNSMessage)]
                 /\ HistoryType'
      BY <1>1, <1>3, <2>2 DEF HistoryType
    <2> QED BY <1>2, <2>1, <2>2
  <1>6. (NamingType /\ MailOK /\ StageType /\ TablesType /\ LinkType)'
    BY <1>3, <1>4, <1>5
    DEF TypeInv, Typed, NamingType, MailOK, StageType, TablesType, LinkType, tables
  <1>7. Identified'
    BY <1>3, <1>4 DEF TypeInv, Identified
  <1> QED BY <1>5, <1>6, <1>7 DEF TypeInv, Typed

(* ... and when the naming service has done, or gives up, waiting.         *)
LEMMA UpdateType ==
  ASSUME TypeInv, NSUpdate \/ NSTimeout
  PROVE  TypeInv'
PROOF
  <1>1. registry \in Seq(Entry) /\ HistoryType
    BY DEF TypeInv, Typed, NamingType
  <1>2. UNCHANGED << unique, nsUp, channels, stage, sid, tables, link >>
    BY DEF NSUpdate, NSTimeout
  <1>3. registry' \in Seq(Entry) /\ HistoryType'
    <2>1. CASE NSUpdate
      <3>1. registry' = Purge(registry) /\ UNCHANGED << faults, spoiled >>
        BY <2>1 DEF NSUpdate
      <3> QED BY <1>1, <3>1, PurgeEntries DEF HistoryType
    <2>2. CASE NSTimeout
      <3>1. PICK e \in Entries(registry) :
              /\ registry' = Removed(registry, e)
              /\ Spoil({f.svc : f \in {g \in Entries(registry) : g.sid \in e.acks}}, {e.sid})
        BY <2>2 DEF NSTimeout
      <3>2. Entries(registry) \subseteq Entry
        BY <1>1, EntriesType
      <3>3. {f.svc : f \in {g \in Entries(registry) : g.sid \in e.acks}} \in SUBSET Service
            /\ {e.sid} \in SUBSET SId
        BY <3>2 DEF Entry
      <3>4. faults' \in [Fault -> Nat]
        BY <1>1, <2>2, FailsType DEF NSTimeout, Fault
      <3>5. HistoryType'
        BY <1>1, <3>1, <3>3, <3>4, SpoilType
      <3> QED BY <1>1, <3>1, <3>5, RemovedEntries
    <2> QED BY <2>1, <2>2
  <1>4. (NamingType /\ MailOK /\ StageType /\ TablesType /\ LinkType)'
    BY <1>2, <1>3
    DEF TypeInv, Typed, NamingType, MailOK, StageType, TablesType, LinkType, tables, channels
  <1>5. Identified'
    BY <1>2 DEF TypeInv, Identified, channels
  <1> QED BY <1>3, <1>4, <1>5 DEF TypeInv, Typed

(* The processes.                                                          *)
LEMMA StartType ==
  ASSUME TypeInv, NEW p \in Service, Start(p)
  PROVE  TypeInv'
PROOF
  <1>1. /\ stage' = [stage EXCEPT ![p] = "registering"]
        /\ cnx' = [cnx EXCEPT ![p] = "open"]
        /\ toNS' = [toNS EXCEPT ![p] = << [type |-> "RG"] >>]
        /\ UNCHANGED << naming, fromNS, sid, tables, link, faults, spoiled >>
    BY DEF Start
  <1>2. toNS \in [Service -> Seq(ToNSMessage)]
    BY DEF TypeInv, Typed, MailOK
  <1>3. [type |-> "RG"] \in ToNSMessage
    BY DEF ToNSMessage
  <1>4. toNS' \in [Service -> Seq(ToNSMessage)]
    BY <1>1, <1>2, <1>3, ChannelType
  <1>5. Typed'
    BY <1>1, <1>4
    DEF TypeInv, Typed, NamingType, MailOK, StageType, TablesType, LinkType, HistoryType,
        naming, tables
  <1>6. Identified'
    <2>1. \A q \in Service : \A m \in Entries(toNS'[q]) :
            m \in Entries(toNS[q]) \/ m.type = "RG"
      BY <1>1, <1>2 DEF Entries
    <2>2. \A q \in Service : stage'[q] = stage[q] \/ stage'[q] = "registering"
      BY <1>1 DEF TypeInv, Typed, StageType
    <2> QED BY <1>1, <2>1, <2>2 DEF TypeInv, Identified
  <1> QED BY <1>5, <1>6 DEF TypeInv

(* What is sent is a new message, after the others.                        *)
LEMMA SendEntries ==
  ASSUME toNS \in [Service -> Seq(ToNSMessage)], NEW p \in Service, NEW m \in ToNSMessage,
         toNS' = Send(p, m)
  PROVE  /\ toNS' \in [Service -> Seq(ToNSMessage)]
         /\ \A q \in Service : q # p => toNS'[q] = toNS[q]
         /\ Entries(toNS'[p]) \subseteq Entries(toNS[p]) \union {m}
PROOF
  <1>1. Entries(Append(toNS[p], m)) = Entries(toNS[p]) \union {m}
    BY AppendEntries
  <1>2. toNS'[p] \in {toNS[p], Append(toNS[p], m)}
    BY DEF Send
  <1> QED BY <1>1, <1>2, SendType DEF Send

(* Ends but for the invariant, for a step that leaves the rest alone.      *)
LEMMA EndsType ==
  ASSUME TypeInv, NEW p \in Service, Ends(p), UNCHANGED << naming, sid >>, HistoryType'
  PROVE  TypeInv'
PROOF
  <1> DEFINE closed == [type |-> "closed"]
  <1>1. /\ stage' = [stage EXCEPT ![p] = "dead"]
        /\ toNS' = Send(p, closed)
        /\ fromNS' = [fromNS EXCEPT ![p] = << >>]
        /\ cnx' = [cnx EXCEPT ![p] = "none"]
    BY DEF Ends
  <1>2. /\ known' = [known EXCEPT ![p] = << >>]
        /\ ids' = [ids EXCEPT ![p] = [k \in SId |-> NotUsed]]
        /\ named' = [named EXCEPT ![p] = {}]
        /\ up' = [up EXCEPT ![p] = {}]
    BY DEF Ends
  <1>3. /\ link' \in [Service -> [Service -> State]]
        /\ \A c, q \in Service : link'[c][q] \in {"ident", "gone"} => link[c][q] = link'[c][q]
                                                      \/ (link[c][q] = "ident" /\ c = p)
    <2> DEFINE L(c, q) ==
          IF p \notin {c, q} \/ link[c][q] = "none" THEN link[c][q]
          ELSE IF stage[IF c = p THEN q ELSE c] = "dead" THEN "closed"
          ELSE IF link[c][q] = "ident" /\ c = p THEN "gone"
          ELSE IF link[c][q] \in {"ident", "up"} THEN "broken"
          ELSE link[c][q]
    <2>1. link' = [c \in Service |-> [q \in Service |-> L(c, q)]]
      BY DEF Ends
    <2>2. ASSUME NEW c \in Service, NEW q \in Service
          PROVE  /\ L(c, q) \in State
                 /\ L(c, q) \in {"ident", "gone"} =>
                      link[c][q] = L(c, q) \/ (link[c][q] = "ident" /\ c = p)
      <3>1. link[c][q] \in State
        BY DEF TypeInv, Typed, LinkType
      <3> QED BY <3>1 DEF State
    <2> HIDE DEF L
    <2> QED BY <2>1, <2>2
  <1>4. closed \in ToNSMessage
    BY DEF ToNSMessage
  <1>5. toNS \in [Service -> Seq(ToNSMessage)] /\ fromNS \in [Service -> Seq(FromNSMessage)]
    BY DEF TypeInv, Typed, MailOK
  <1>6. /\ toNS' \in [Service -> Seq(ToNSMessage)]
        /\ \A q \in Service : Entries(toNS'[q]) \subseteq Entries(toNS[q]) \union {closed}
    BY <1>1, <1>4, <1>5, SendEntries
  <1>7. MailOK'
    BY <1>1, <1>5, <1>6, ChannelType DEF MailOK
  <1>8. TablesType'
    <2>1. NotUsed \in IdEntry
      BY DEF NotUsed, IdEntry
    <2>2. [k \in SId |-> NotUsed] \in [SId -> IdEntry]
      BY <2>1
    <2>3. << >> \in Seq([svc : Service, sid : SId])
      BY EmptySeq
    <2> QED BY <1>2, <2>2, <2>3 DEF TypeInv, Typed, TablesType
  <1>9. (NamingType /\ StageType /\ LinkType)'
    BY <1>1, <1>3 DEF TypeInv, Typed, NamingType, StageType, LinkType, naming
  <1>10. Identified'
    <2>1. \A q \in Service : stage'[q] = stage[q] \/ stage'[q] = "dead"
      BY <1>1 DEF TypeInv, Typed, StageType
    <2>2. \A q \in Service : \A m \in Entries(toNS'[q]) :
            m.type \in {"RRG", "ACK_UNI"} => m \in Entries(toNS[q])
      BY <1>6
    <2>3. \A c, q \in Service : link'[c][q] \in {"ident", "gone"} => sid[c] # 0
      BY <1>3 DEF TypeInv, Identified
    <2>4. sid' = sid
      OBVIOUS
    <2> QED BY <2>1, <2>2, <2>3, <2>4 DEF TypeInv, Identified
  <1> QED BY <1>7, <1>8, <1>9, <1>10 DEF TypeInv, Typed

(* What a process takes out of its mail.                                   *)
LEMMA ArrivedType ==
  ASSUME MailOK, NEW p \in Service, NEW type, Arrived(p, type)
  PROVE  /\ Head(fromNS[p]) \in FromNSMessage /\ Head(fromNS[p]).type = type
         /\ Head(fromNS[p]) \in Entries(fromNS[p])
         /\ [fromNS EXCEPT ![p] = Tail(@)] \in [Service -> Seq(FromNSMessage)]
         /\ Entries(fromNS[p]) = {Head(fromNS[p])} \union Entries(Tail(fromNS[p]))
PROOF
  <1>1. fromNS \in [Service -> Seq(FromNSMessage)] /\ fromNS[p] # << >>
        /\ Head(fromNS[p]).type = type
    BY DEF MailOK, Arrived
  <1>2. Entries(fromNS[p]) = {Head(fromNS[p])} \union Entries(Tail(fromNS[p]))
    BY <1>1, TailEntries
  <1> QED BY <1>1, <1>2, ChannelType

(* What the messages of each type carry.                                   *)
LEMMA MessageFields ==
  ASSUME NEW m \in FromNSMessage
  PROVE  /\ m.type = "RG" => m.ok \in BOOLEAN
         /\ m.type = "RG" /\ m.ok => m \in Answers /\ m.sid \in SId /\ m.list \in Seq(Entry)
         /\ m.type \in {"RGB", "UNB"} => m \in News /\ m.svc \in Service /\ m.sid \in SId
PROOF
  BY DEF FromNSMessage, Refusal, Answers, News

(* uNetRegistrationBroadcast makes an entry of an entry.                   *)
LEMMA InsertedType ==
  ASSUME NEW e \in IdEntry, NEW svc \in Service
  PROVE  Inserted(e, svc) \in IdEntry
PROOF
  BY DEF Inserted, IdEntry, Name, NotUsed

(* The place where an identifier is found first in a list.                 *)
First(list, k) == CHOOSE i \in DOMAIN list : /\ list[i].sid = k
                                             /\ \A j \in 1 .. i - 1 : list[j].sid # k

(* The first entry that a list has for an identifier it tells.             *)
LEMMA FirstFound ==
  ASSUME NEW S, NEW list \in Seq(S), NEW k, \E i \in DOMAIN list : list[i].sid = k
  PROVE  /\ First(list, k) \in DOMAIN list
         /\ list[First(list, k)].sid = k
         /\ \A j \in 1 .. First(list, k) - 1 : list[j].sid # k
PROOF
  <1>1. DOMAIN list = 1 .. Len(list) /\ Len(list) \in Nat
    BY LenProperties
  <1> DEFINE I == {i \in DOMAIN list : list[i].sid = k}
  <1>2. I \in SUBSET Nat /\ I # {}
    BY <1>1
  <1>3. PICK i \in I : \A j \in I : i <= j
    BY <1>2, LeastExists
  <1>4. i \in DOMAIN list /\ list[i].sid = k
    BY <1>3
  <1>5. \A j \in 1 .. i - 1 : list[j].sid # k
    <2>1. ASSUME NEW j \in 1 .. i - 1, list[j].sid = k
          PROVE  FALSE
      <3>1. i \in 1 .. Len(list) /\ Len(list) \in Nat
        BY <1>1, <1>4
      <3> HIDE DEF I
      <3>2. j \in 1 .. Len(list) /\ ~(i <= j)
        BY <3>1, <2>1
      <3>3. j \in I
        BY <3>2, <2>1, <1>1 DEF I
      <3> QED BY <3>2, <3>3, <1>3
    <2> QED BY <2>1
  <1> QED BY <1>4, <1>5 DEF First

(* The types are kept when a service has the answer to its registration    *)
(* ...                                                                     *)
LEMMA RegisteredType ==
  ASSUME TypeInv, NEW p \in Service, Registered(p)
  PROVE  TypeInv'
PROOF
  <1> DEFINE rg == Head(fromNS[p])
  <1>0. MailOK /\ NamingType /\ HistoryType /\ StageType /\ TablesType /\ LinkType
    BY DEF TypeInv, Typed
  <1>1. Arrived(p, "RG") /\ UNCHANGED << naming, faults, spoiled >>
    BY DEF Registered
  <1>2. /\ rg \in FromNSMessage /\ rg.type = "RG"
        /\ [fromNS EXCEPT ![p] = Tail(@)] \in [Service -> Seq(FromNSMessage)]
    BY <1>0, <1>1, ArrivedType
  <1>3. rg.ok => rg.sid \in SId /\ rg.list \in Seq(Entry)
    BY <1>2, MessageFields
  <1>4. ASSUME rg.ok,
               stage' = [stage EXCEPT ![p] = "registered"],
               sid' = [sid EXCEPT ![p] = rg.sid],
               known' = [known EXCEPT ![p] =
                           [i \in DOMAIN rg.list |->
                              [svc |-> rg.list[i].svc, sid |-> rg.list[i].sid]]],
               ids' = [ids EXCEPT ![p] = [k \in SId |->
                         IF (\E i \in DOMAIN rg.list : rg.list[i].sid = k) /\ k # rg.sid
                         THEN Inserted(@[k], rg.list[First(rg.list, k)].svc)
                         ELSE @[k]]],
               fromNS' = [fromNS EXCEPT ![p] = Tail(@)],
               UNCHANGED << toNS, cnx, named, up, link >>
        PROVE  TypeInv'
    <2>1. \A i \in DOMAIN rg.list : rg.list[i] \in Entry
      BY <1>3, <1>4, EntriesType
    <2>2. known' \in [Service -> Seq([svc : Service, sid : SId])]
      <3> DEFINE new == [i \in DOMAIN rg.list |->
                           [svc |-> rg.list[i].svc, sid |-> rg.list[i].sid]]
      <3>1. \A i \in DOMAIN rg.list : new[i] \in [svc : Service, sid : SId]
        BY <2>1 DEF Entry
      <3>4. DOMAIN new = DOMAIN rg.list /\ new = [i \in DOMAIN rg.list |-> new[i]]
        OBVIOUS
      <3>2. new \in Seq([svc : Service, sid : SId])
        <4> HIDE DEF new
        <4>1. rg.list \in Seq(Entry)
          BY <1>3, <1>4
        <4> HIDE DEF rg
        <4> QED BY <4>1, <3>1, <3>4, PointwiseType
      <3>3. known' = [known EXCEPT ![p] = new]
        BY <1>4
      <3> HIDE DEF new, rg
      <3> QED BY <1>0, <3>2, <3>3 DEF TablesType
    <2>3. ids' \in [Service -> [SId -> IdEntry]]
      <3> DEFINE new == [k \in SId |->
                           IF (\E i \in DOMAIN rg.list : rg.list[i].sid = k) /\ k # rg.sid
                           THEN Inserted(ids[p][k], rg.list[First(rg.list, k)].svc)
                           ELSE ids[p][k]]
      <3>1. ASSUME NEW k \in SId, \E i \in DOMAIN rg.list : rg.list[i].sid = k
            PROVE  Inserted(ids[p][k], rg.list[First(rg.list, k)].svc) \in IdEntry
        <4>1. First(rg.list, k) \in DOMAIN rg.list
          BY <1>3, <1>4, <3>1, FirstFound
        <4>2. rg.list[First(rg.list, k)].svc \in Service
          BY <2>1, <4>1 DEF Entry
        <4>3. ids[p][k] \in IdEntry
          BY <1>0 DEF TablesType
        <4> QED BY <4>2, <4>3, InsertedType
      <3>2. \A k \in SId : ids[p][k] \in IdEntry
        BY <1>0 DEF TablesType
      <3>3. new \in [SId -> IdEntry]
        BY <3>1, <3>2
      <3>4. ids' = [ids EXCEPT ![p] = new]
        BY <1>4
      <3> HIDE DEF new, rg
      <3> QED BY <1>0, <3>3, <3>4 DEF TablesType
    <2> HIDE DEF rg
    <2>4. (NamingType /\ MailOK /\ StageType /\ LinkType /\ HistoryType)'
      BY <1>0, <1>1, <1>2, <1>3, <1>4
      DEF NamingType, MailOK, StageType, LinkType, HistoryType, naming
    <2>5. TablesType'
      BY <1>0, <1>4, <2>2, <2>3 DEF TablesType
    <2>6. Identified'
      <3>1. \A q \in Service : sid[q] # 0 => sid'[q] # 0
        BY <1>0, <1>3, <1>4, SIdNat DEF StageType
      <3>2. sid'[p] # 0
        BY <1>0, <1>3, <1>4, SIdNat DEF StageType
      <3>3. \A q \in Service : q # p => stage'[q] = stage[q]
        BY <1>0, <1>4 DEF StageType
      <3> QED BY <1>4, <3>1, <3>2, <3>3 DEF TypeInv, Identified
    <2> QED BY <2>4, <2>5, <2>6 DEF TypeInv, Typed
  <1>5. ASSUME Ends(p), UNCHANGED sid
        PROVE  TypeInv'
    <2>1. HistoryType'
      BY <1>0, <1>1 DEF HistoryType
    <2> QED BY <1>1, <1>5, <2>1, EndsType
  <1>6. \/ /\ rg.ok
           /\ stage' = [stage EXCEPT ![p] = "registered"]
           /\ sid' = [sid EXCEPT ![p] = rg.sid]
           /\ known' = [known EXCEPT ![p] =
                          [i \in DOMAIN rg.list |->
                             [svc |-> rg.list[i].svc, sid |-> rg.list[i].sid]]]
           /\ ids' = [ids EXCEPT ![p] = [k \in SId |->
                        IF (\E i \in DOMAIN rg.list : rg.list[i].sid = k) /\ k # rg.sid
                        THEN Inserted(@[k], rg.list[First(rg.list, k)].svc)
                        ELSE @[k]]]
           /\ fromNS' = [fromNS EXCEPT ![p] = Tail(@)]
           /\ UNCHANGED << toNS, cnx, named, up, link >>
        \/ Ends(p) /\ UNCHANGED sid
    BY DEF Registered, First
  <1> HIDE DEF rg
  <1> QED BY <1>4, <1>5, <1>6

(* ... when it learns of another ...                                       *)
LEMMA RegisterBroadcastType ==
  ASSUME TypeInv, NEW p \in Service, RegisterBroadcast(p)
  PROVE  TypeInv'
PROOF
  <1> DEFINE m == Head(fromNS[p])
             Listing == [svc : Service, sid : SId]
  <1>0. MailOK /\ NamingType /\ HistoryType /\ StageType /\ TablesType /\ LinkType
    BY DEF TypeInv, Typed
  <1>1. /\ Arrived(p, "RGB")
        /\ fromNS' = [fromNS EXCEPT ![p] = Tail(@)]
        /\ UNCHANGED << naming, toNS, cnx, stage, sid, named, up, link, faults, spoiled >>
    BY DEF RegisterBroadcast
  <1>2. /\ m \in FromNSMessage /\ m.type = "RGB"
        /\ fromNS' \in [Service -> Seq(FromNSMessage)]
    BY <1>0, <1>1, ArrivedType
  <1>3. m.svc \in Service /\ m.sid \in SId
    BY <1>2, MessageFields
  <1>4. \/ /\ known' = [known EXCEPT ![p] = [i \in DOMAIN @ |->
                   IF @[i].sid = m.sid THEN [@[i] EXCEPT !.svc = m.svc] ELSE @[i]]]
           /\ UNCHANGED ids
        \/ /\ known' = [known EXCEPT ![p] = Add(@, m.svc, m.sid)]
           /\ ids' = [ids EXCEPT ![p][m.sid] =
                   IF m.sid = sid[p] THEN @ ELSE Inserted(@, m.svc)]
    BY DEF RegisterBroadcast
  <1> HIDE DEF m
  <1>5. known' \in [Service -> Seq(Listing)]
    <2>1. known[p] \in Seq(Listing) /\ known \in [Service -> Seq(Listing)]
      BY <1>0 DEF TablesType
    <2> DEFINE new == [i \in DOMAIN known[p] |->
                         IF known[p][i].sid = m.sid THEN [known[p][i] EXCEPT !.svc = m.svc]
                                                    ELSE known[p][i]]
    <2>2. \A i \in DOMAIN known[p] : known[p][i] \in Listing
      BY <2>1, EntriesType
    <2>3. \A i \in DOMAIN known[p] : new[i] \in Listing
      BY <2>2, <1>3
    <2>7. DOMAIN new = DOMAIN known[p] /\ new = [i \in DOMAIN known[p] |-> new[i]]
      OBVIOUS
    <2>4. new \in Seq(Listing)
      <3> HIDE DEF new, Listing
      <3> QED BY <2>1, <2>3, <2>7, PointwiseType
    <2>5. Add(known[p], m.svc, m.sid) \in Seq(Listing)
      BY <2>1, <1>3, AppendProperties DEF Add
    <2>6. known' \in {[known EXCEPT ![p] = new], [known EXCEPT ![p] = Add(known[p], m.svc, m.sid)]}
      BY <1>4
    <2> HIDE DEF new, Listing
    <2> QED BY <2>1, <2>4, <2>5, <2>6
  <1>6. ids' \in [Service -> [SId -> IdEntry]]
    <2>1. ids \in [Service -> [SId -> IdEntry]]
      BY <1>0 DEF TablesType
    <2>2. Inserted(ids[p][m.sid], m.svc) \in IdEntry
      BY <2>1, <1>3, InsertedType
    <2> QED BY <2>1, <2>2, <1>4
  <1>7. (NamingType /\ MailOK /\ StageType /\ TablesType /\ LinkType /\ HistoryType)'
    BY <1>0, <1>1, <1>2, <1>5, <1>6
    DEF NamingType, MailOK, StageType, TablesType, LinkType, HistoryType, naming
  <1>8. Identified'
    BY <1>1 DEF TypeInv, Identified
  <1> QED BY <1>7, <1>8 DEF TypeInv, Typed

(* The list of a service is a list of services, whichever one it loses.    *)
LEMMA WithoutType ==
  ASSUME NEW S, NEW list \in Seq(S), NEW k
  PROVE  Without(list, k) \in Seq(S)
PROOF
  BY KeptSequence DEF Without

(* The types are kept when a service learns that another left ...          *)
LEMMA UnregisterBroadcastType ==
  ASSUME TypeInv, NEW p \in Service, UnregisterBroadcast(p)
  PROVE  TypeInv'
PROOF
  <1> DEFINE k == Head(fromNS[p]).sid
             e == ids[p][k]
             closed(q) == IF Alive(q) THEN "broken" ELSE "closed"
             ack == [type |-> "ACK_UNI", sid |-> k]
  <1>0. MailOK /\ NamingType /\ HistoryType /\ StageType /\ TablesType /\ LinkType
    BY DEF TypeInv, Typed
  <1>1. /\ Updates(p) /\ Arrived(p, "UNB")
        /\ fromNS' = [fromNS EXCEPT ![p] = Tail(@)]
        /\ UNCHANGED << naming, cnx, stage, sid, faults >>
    BY DEF UnregisterBroadcast
  <1>2. /\ known' = [known EXCEPT ![p] = Without(@, k)]
        /\ toNS' = Send(p, ack)
        /\ up' = [up EXCEPT ![p] = {x \in @ : x[2] # k}]
        /\ named' \in {named, [named EXCEPT ![p] = @ \ {<< e.name, k >>}]}
        /\ ids' = [ids EXCEPT ![p][k] = NotUsed]
    BY DEF UnregisterBroadcast
  <1>3. /\ link' \in {[link EXCEPT ![p][e.peer] = closed(e.peer)],
                      [link EXCEPT ![e.peer][p] = closed(e.peer)], link}
        /\ Spoil({q \in Service : q = e.peer /\ Alive(q)}, {sid[p]})
    BY DEF UnregisterBroadcast
  <1>4. fromNS' \in [Service -> Seq(FromNSMessage)] /\ k \in SId
    BY <1>0, <1>1, ArrivedType, MessageFields
  <1>5. sid[p] \in SId /\ sid[p] # 0
    BY <1>0, <1>1 DEF TypeInv, Identified, Updates, StageType
  <1> HIDE DEF k
  <1>6. /\ toNS' \in [Service -> Seq(ToNSMessage)]
        /\ \A q \in Service : q # p => toNS'[q] = toNS[q]
    <2>1. ack \in ToNSMessage
      BY <1>4 DEF ToNSMessage
    <2> QED BY <2>1, <1>0, <1>2, SendEntries DEF MailOK
  <1>7. known' \in [Service -> Seq([svc : Service, sid : SId])]
    BY <1>0, <1>2, WithoutType DEF TablesType
  <1>8. ids' \in [Service -> [SId -> IdEntry]]
    <2>1. NotUsed \in IdEntry
      BY DEF NotUsed, IdEntry
    <2> QED BY <2>1, <1>0, <1>2 DEF TablesType
  <1>9. TablesType'
    <2>1. named' \in [Service -> SUBSET (Name \X SId)]
      <3> HIDE DEF e
      <3> QED BY <1>0, <1>2 DEF TablesType
    <2>2. up' \in [Service -> SUBSET (Service \X SId)]
      BY <1>0, <1>2 DEF TablesType
    <2> QED BY <1>7, <1>8, <2>1, <2>2 DEF TablesType
  <1>10. LinkType' /\ \A c, q \in Service : link'[c][q] \in {link[c][q], "broken", "closed"}
    <2> DEFINE x == closed(e.peer)
               r == e.peer
    <2>1. link \in [Service -> [Service -> State]] /\ {"broken", "closed"} \subseteq State
      BY <1>0 DEF LinkType, State
    <2>2. link' \in {[link EXCEPT ![p][r] = x], [link EXCEPT ![r][p] = x], link}
      BY <1>3
    <2>3. x \in {"broken", "closed"}
      OBVIOUS
    <2> HIDE DEF x, r, e
    <2>4. link' \in [Service -> [Service -> State]]
      BY <2>1, <2>2, <2>3
    <2>5. \A c, q \in Service : link'[c][q] \in {link[c][q], x}
      BY <2>1, <2>2
    <2> QED BY <2>3, <2>4, <2>5 DEF LinkType
  <1>11. HistoryType'
    BY SMTT(30), <1>0, <1>1, <1>3, <1>5, SpoilType DEF HistoryType
  <1>12. (NamingType /\ MailOK /\ StageType)'
    BY <1>0, <1>1, <1>4, <1>6 DEF NamingType, MailOK, StageType, naming
  <1>13. Identified'
    BY <1>1, <1>5, <1>6, <1>10 DEF TypeInv, Identified
  <1> QED BY <1>9, <1>10, <1>11, <1>12, <1>13 DEF TypeInv, Typed

(* The steps that change neither channels nor tables.                      *)
LEMMA ConnectionType ==
  ASSUME TypeInv, NEW p \in Service, NoticeNS(p) \/ Connect(p) \/ Connected(p) \/ NSRestart
  PROVE  TypeInv'
PROOF
  <1>0. MailOK /\ NamingType /\ HistoryType /\ StageType /\ TablesType /\ LinkType
    BY DEF TypeInv, Typed
  <1>1. UNCHANGED << registry, unique, toNS, fromNS, sid, tables, link, faults >>
    BY DEF NoticeNS, Connect, Connected, NSRestart, naming, channels
  <1>2. /\ cnx' \in {cnx, [cnx EXCEPT ![p] = "none"]}
        /\ stage' \in {stage, [stage EXCEPT ![p] = "running"], [stage EXCEPT ![p] = "connecting"]}
        /\ nsUp' \in BOOLEAN
        /\ stage' # stage => sid[p] # 0
    BY <1>0 DEF TypeInv, Identified, NamingType, NoticeNS, Connect, Connected, NSRestart,
                naming, channels
  <1>3. spoiled' \in {spoiled, spoiled \union ({p} \X SId) \union (Service \X {sid[p]})}
        /\ (spoiled' = spoiled \/ sid[p] # 0)
    BY DEF TypeInv, Identified, NoticeNS, Connect, Connected, NSRestart
  <1>4. HistoryType'
    BY <1>0, <1>1, <1>3 DEF HistoryType, StageType
  <1>5. (NamingType /\ MailOK /\ StageType /\ TablesType /\ LinkType)'
    BY <1>0, <1>1, <1>2 DEF NamingType, MailOK, StageType, TablesType, LinkType, tables
  <1>6. Identified'
    BY <1>0, <1>1, <1>2 DEF TypeInv, Identified, StageType
  <1> QED BY <1>4, <1>5, <1>6 DEF TypeInv, Typed

(* ... and when it finds the naming service again.                         *)
LEMMA ReconnectType ==
  ASSUME TypeInv, NEW p \in Service, Reconnect(p)
  PROVE  TypeInv'
PROOF
  <1>1. /\ stage[p] = "running"
        /\ cnx' = [cnx EXCEPT ![p] = "open"]
        /\ toNS' = [toNS EXCEPT ![p] = << [type |-> "RRG"] >>]
        /\ UNCHANGED << naming, fromNS, stage, sid, tables, link, faults, spoiled >>
    BY DEF Reconnect
  <1>2. toNS \in [Service -> Seq(ToNSMessage)]
    BY DEF TypeInv, Typed, MailOK
  <1>3. [type |-> "RRG"] \in ToNSMessage
    BY DEF ToNSMessage
  <1>4. toNS' \in [Service -> Seq(ToNSMessage)]
    BY <1>1, <1>2, <1>3, ChannelType
  <1>5. Typed'
    BY <1>1, <1>4
    DEF TypeInv, Typed, NamingType, MailOK, StageType, TablesType, LinkType, HistoryType,
        naming, tables
  <1>6. Identified'
    <2>1. \A q \in Service : q # p => toNS'[q] = toNS[q]
      BY <1>1, <1>2
    <2>2. sid[p] # 0
      BY <1>1 DEF TypeInv, Identified
    <2> QED BY <1>1, <2>1, <2>2 DEF TypeInv, Identified
  <1> QED BY <1>5, <1>6 DEF TypeInv

(* A pair more in the table of a process.                                  *)
LEMMA PairAdded ==
  ASSUME NEW A, NEW B, NEW f \in [Service -> SUBSET (A \X B)], NEW p \in Service,
         NEW a \in A, NEW b \in B
  PROVE  [f EXCEPT ![p] = @ \union {<< a, b >>}] \in [Service -> SUBSET (A \X B)]
PROOF
  <1>1. f[p] \union {<< a, b >>} \in SUBSET (A \X B)
    <2>1. << a, b >> \in A \X B
      OBVIOUS
    <2>2. f[p] \in SUBSET (A \X B)
      OBVIOUS
    <2> QED BY <2>1, <2>2
  <1> DEFINE x == f[p] \union {<< a, b >>}
             T == SUBSET (A \X B)
  <1>2. x \in T /\ f \in [Service -> T]
    BY <1>1
  <1>3. [f EXCEPT ![p] = @ \union {<< a, b >>}] = [f EXCEPT ![p] = x]
    OBVIOUS
  <1> HIDE DEF x, T
  <1>4. [f EXCEPT ![p] = @ \union {<< a, b >>}] \in [Service -> T]
    BY <1>2, <1>3
  <1> QED BY <1>4 DEF T

(* There is a first service to connect to when there is one.               *)
LEMMA ToConnectType ==
  ASSUME TypeInv, NEW c \in Service, ToConnect(c) # {}
  PROVE  /\ Min(ToConnect(c)) \in ToConnect(c)
         /\ \A i \in ToConnect(c) : Min(ToConnect(c)) <= i
         /\ Min(ToConnect(c)) \in DOMAIN known[c]
         /\ known[c][Min(ToConnect(c))] \in [svc : Service, sid : SId]
PROOF
  <1>1. known[c] \in Seq([svc : Service, sid : SId])
    BY DEF TypeInv, Typed, TablesType
  <1>2. DOMAIN known[c] = 1 .. Len(known[c]) /\ Len(known[c]) \in Nat
    BY <1>1, LenProperties
  <1>3. ToConnect(c) \in SUBSET DOMAIN known[c]
    BY DEF ToConnect, Before
  <1>4. ToConnect(c) \in SUBSET Nat
    BY <1>2, <1>3
  <1> QED BY <1>1, <1>3, <1>4, MinProperties, EntriesType

(* The types are kept when a service connects to another ...               *)
LEMMA AddServiceType ==
  ASSUME TypeInv, NEW c \in Service, AddService(c)
  PROVE  TypeInv'
PROOF
  <1> DEFINE p == known[c][Min(ToConnect(c))].svc
             k == known[c][Min(ToConnect(c))].sid
  <1>0. MailOK /\ NamingType /\ HistoryType /\ StageType /\ TablesType /\ LinkType
    BY DEF TypeInv, Typed
  <1>1. /\ stage[c] = "connecting" /\ ToConnect(c) # {}
        /\ UNCHANGED << naming, channels, stage, sid, known, faults, spoiled >>
    BY DEF AddService
  <1>2. \/ /\ ids' = [ids EXCEPT ![c][k].conn = "client", ![c][k].peer = p]
           /\ link' = [link EXCEPT ![c][p] = "ident"]
           /\ named' = [named EXCEPT ![c] = @ \union {<< NameOf[p], k >>}]
           /\ up' = [up EXCEPT ![c] = @ \union {<< p, k >>}]
        \/ /\ ids' = [ids EXCEPT ![c][k].conn = "invalid"]
           /\ UNCHANGED << link, named, up >>
    BY DEF AddService
  <1>3. p \in Service /\ k \in SId
    BY <1>1, ToConnectType
  <1> HIDE DEF p, k
  <1>4. NameOf[p] \in Name
    BY <1>3 DEF Name
  <1>5. ids' \in [Service -> [SId -> IdEntry]]
    <2>1. ids \in [Service -> [SId -> IdEntry]] /\ ids[c][k] \in IdEntry
      BY <1>0, <1>3 DEF TablesType
    <2>2. [ids[c][k] EXCEPT !.conn = "client", !.peer = p] \in IdEntry
          /\ [ids[c][k] EXCEPT !.conn = "invalid"] \in IdEntry
      BY <2>1, <1>3 DEF IdEntry
    <2>3. ids' \in {[ids EXCEPT ![c][k] = [ids[c][k] EXCEPT !.conn = "client", !.peer = p]],
                    [ids EXCEPT ![c][k] = [ids[c][k] EXCEPT !.conn = "invalid"]]}
      BY ZenonT(60), <1>2, <1>3, <2>1
    <2> QED BY <2>1, <2>2, <2>3
  <1>6. named' \in [Service -> SUBSET (Name \X SId)] /\ up' \in [Service -> SUBSET (Service \X SId)]
    <2>1. /\ named' \in {[named EXCEPT ![c] = @ \union {<< NameOf[p], k >>}], named}
          /\ up' \in {[up EXCEPT ![c] = @ \union {<< p, k >>}], up}
      BY <1>2
    <2>2. named' \in [Service -> SUBSET (Name \X SId)]
      <3>1. named \in [Service -> SUBSET (Name \X SId)]
        BY <1>0 DEF TablesType
      <3>2. [named EXCEPT ![c] = @ \union {<< NameOf[p], k >>}]
              \in [Service -> SUBSET (Name \X SId)]
        BY <3>1, <1>3, <1>4, PairAdded
      <3> QED BY <2>1, <3>1, <3>2
    <2>3. up' \in [Service -> SUBSET (Service \X SId)]
      <3>1. up \in [Service -> SUBSET (Service \X SId)]
        BY <1>0 DEF TablesType
      <3>2. [up EXCEPT ![c] = @ \union {<< p, k >>}] \in [Service -> SUBSET (Service \X SId)]
        BY <3>1, <1>3, PairAdded
      <3> QED BY <2>1, <3>1, <3>2
    <2> QED BY <2>2, <2>3
  <1>7. LinkType'
    <2>1. link \in [Service -> [Service -> State]] /\ "ident" \in State
      BY <1>0 DEF LinkType, State
    <2>2. link' = [link EXCEPT ![c][p] = "ident"] \/ link' = link
      BY <1>2
    <2> QED BY <2>1, <2>2 DEF LinkType
  <1>8. (NamingType /\ MailOK /\ StageType /\ TablesType /\ HistoryType)'
    BY <1>0, <1>1, <1>5, <1>6
    DEF NamingType, MailOK, StageType, TablesType, HistoryType, naming, channels
  <1>9. Identified'
    <2>1. sid[c] # 0
      BY <1>1 DEF TypeInv, Identified
    <2>2. \A d, q \in Service : d # c => link'[d][q] = link[d][q]
      BY <1>0, <1>2 DEF LinkType
    <2> QED BY <1>1, <2>1, <2>2 DEF TypeInv, Identified, channels
  <1> QED BY <1>7, <1>8, <1>9 DEF TypeInv, Typed

(* ... when it learns who connected to it ...                              *)
LEMMA IdentificationType ==
  ASSUME TypeInv, NEW p \in Service, NEW c \in Service, ServiceIdentification(p, c)
  PROVE  TypeInv'
PROOF
  <1> DEFINE k == sid[c]
             entry == Inserted(ids[p][k], c)
             new == [entry EXCEPT !.conn = "server", !.peer = c]
  <1>0. MailOK /\ NamingType /\ HistoryType /\ StageType /\ TablesType /\ LinkType
    BY DEF TypeInv, Typed
  <1>1. /\ link[c][p] \in {"ident", "gone"}
        /\ UNCHANGED << naming, channels, stage, sid, known, faults >>
        /\ link' = [link EXCEPT ![c][p] = IF @ = "gone" THEN "broken" ELSE "up"]
        /\ ids' = [ids EXCEPT ![p][k] = new]
        /\ named' \in {[named EXCEPT ![p] = @ \union {<< NameOf[c], k >>}], named}
        /\ up' \in {[up EXCEPT ![p] = @ \union {<< c, k >>}], up}
        /\ Spoil({p}, {k}) \/ UNCHANGED spoiled
    BY DEF ServiceIdentification
  <1>2. k \in SId
    BY <1>0, <1>1 DEF TypeInv, Identified, StageType
  <1> HIDE DEF k
  <1>3. ids[p][k] \in IdEntry
    BY <1>0, <1>2 DEF TablesType
  <1>4. entry \in IdEntry
    BY <1>3, InsertedType
  <1> HIDE DEF entry
  <1>5. new \in IdEntry
    BY <1>4 DEF IdEntry
  <1> HIDE DEF new
  <1>6. NameOf[c] \in Name
    BY DEF Name
  <1>7. TablesType'
    <2>1. ids' \in [Service -> [SId -> IdEntry]]
      BY <1>0, <1>1, <1>5 DEF TablesType
    <2>2. named' \in [Service -> SUBSET (Name \X SId)]
      <3>1. named \in [Service -> SUBSET (Name \X SId)]
        BY <1>0 DEF TablesType
      <3>2. [named EXCEPT ![p] = @ \union {<< NameOf[c], k >>}]
              \in [Service -> SUBSET (Name \X SId)]
        BY <3>1, <1>2, <1>6, PairAdded
      <3> QED BY <1>1, <3>1, <3>2
    <2>3. up' \in [Service -> SUBSET (Service \X SId)]
      <3>1. up \in [Service -> SUBSET (Service \X SId)]
        BY <1>0 DEF TablesType
      <3>2. [up EXCEPT ![p] = @ \union {<< c, k >>}] \in [Service -> SUBSET (Service \X SId)]
        BY <3>1, <1>2, PairAdded
      <3> QED BY <1>1, <3>1, <3>2
    <2> QED BY <1>0, <1>1, <2>1, <2>2, <2>3 DEF TablesType
  <1>8. LinkType' /\ \A d, q \in Service : link'[d][q] \in {link[d][q], "broken", "up"}
    BY <1>0, <1>1 DEF LinkType, State
  <1>9. HistoryType'
    BY <1>0, <1>1, <1>2, SpoilType DEF HistoryType
  <1>10. (NamingType /\ MailOK /\ StageType)'
    BY <1>0, <1>1 DEF NamingType, MailOK, StageType, naming, channels
  <1>11. Identified'
    BY <1>1, <1>8 DEF TypeInv, Identified, channels
  <1> QED BY <1>7, <1>8, <1>9, <1>10, <1>11 DEF TypeInv, Typed

(* ... when it loses a connection ...                                      *)
LEMMA LostType ==
  ASSUME TypeInv, NEW p \in Service, NEW q \in Service, ServerLost(p, q) \/ ClientLost(p, q)
  PROVE  TypeInv'
PROOF
  <1>0. MailOK /\ NamingType /\ HistoryType /\ StageType /\ TablesType /\ LinkType
    BY DEF TypeInv, Typed
  <1>1. /\ UNCHANGED << naming, channels, stage, sid, known, named, up, faults, spoiled >>
        /\ link' \in {[link EXCEPT ![p][q] = "closed"], [link EXCEPT ![q][p] = "closed"]}
        /\ ids' \in {ids, [ids EXCEPT ![p][sid[q]].conn = "invalid", ![p][sid[q]].peer = None]}
    BY DEF ServerLost, ClientLost, tables
  <1>2. ids' \in [Service -> [SId -> IdEntry]]
    <2> DEFINE k == sid[q]
    <2>1. ids \in [Service -> [SId -> IdEntry]]
      BY <1>0 DEF TablesType
    <2>2. ids' = ids \/ ids' = [ids EXCEPT ![p][k].conn = "invalid", ![p][k].peer = None]
      BY <1>1
    <2> HIDE DEF k
    <2>3. CASE k \in SId
      <3>0. ids[p][k] \in IdEntry
        BY <2>1, <2>3
      <3>1. [ids[p][k] EXCEPT !.conn = "invalid", !.peer = None] \in IdEntry
        BY <3>0 DEF IdEntry
      <3>2. ids' = ids \/ ids' = [ids EXCEPT ![p][k] =
                                    [ids[p][k] EXCEPT !.conn = "invalid", !.peer = None]]
        BY <2>1, <2>2, <2>3
      <3> QED BY <2>1, <3>1, <3>2
    <2>4. CASE k \notin SId
      BY <2>1, <2>2, <2>4
    <2> QED BY <2>3, <2>4
  <1>3. TablesType'
    BY <1>0, <1>1, <1>2 DEF TablesType
  <1>4. LinkType' /\ \A d, r \in Service : link'[d][r] \in {link[d][r], "closed"}
    <2>1. link \in [Service -> [Service -> State]] /\ "closed" \in State
      BY <1>0 DEF LinkType, State
    <2>2. link' = [link EXCEPT ![p][q] = "closed"] \/ link' = [link EXCEPT ![q][p] = "closed"]
      BY <1>1
    <2> QED BY <2>1, <2>2 DEF LinkType
  <1>5. (NamingType /\ MailOK /\ StageType /\ HistoryType)'
    BY <1>0, <1>1 DEF NamingType, MailOK, StageType, HistoryType, naming, channels
  <1>6. Identified'
    BY <1>1, <1>4 DEF TypeInv, Identified, channels
  <1> QED BY <1>3, <1>4, <1>5, <1>6 DEF TypeInv, Typed

(* ... when it dies ...                                                    *)
LEMMA DieType ==
  ASSUME TypeInv, NEW p \in Service, Die(p)
  PROVE  TypeInv'
PROOF
  <1>0. HistoryType /\ StageType
    BY DEF TypeInv, Typed
  <1>1. /\ Fails("death") /\ Ends(p) /\ UNCHANGED << naming, sid >>
        /\ (sid[p] # 0 /\ Spoil(Service, {sid[p]})) \/ UNCHANGED spoiled
    BY DEF Die
  <1>2. faults' \in [Fault -> Nat]
    BY <1>0, <1>1, FailsType DEF Fault
  <1>3. HistoryType'
    BY <1>0, <1>1, <1>2, SpoilType DEF HistoryType, StageType
  <1> QED BY <1>1, <1>3, EndsType

(* ... and when the naming service does.                                   *)
LEMMA CrashType ==
  ASSUME TypeInv, NSCrash
  PROVE  TypeInv'
PROOF
  <1>0. MailOK /\ NamingType /\ HistoryType /\ StageType /\ TablesType /\ LinkType
    BY DEF TypeInv, Typed
  <1> DEFINE kept == {e.sid : e \in {f \in Entries(registry) :
                                       f.waiting \/ stage[f.svc] \in {"registering", "dead"}}}
             gone == {sid[p] : p \in {q \in Service : /\ stage[q] = "dead" /\ toNS[q] # << >>
                                                      /\ sid[q] # 0}}
  <1>1. /\ Fails("crash")
        /\ registry' = << >>
        /\ nsUp' = FALSE
        /\ toNS' = [p \in Service |-> << >>]
        /\ cnx' = [p \in Service |-> IF cnx[p] = "open" THEN "cut" ELSE cnx[p]]
        /\ Spoil(Service, kept \union gone)
        /\ UNCHANGED << unique, stage, sid, tables, link >>
    BY DEF NSCrash
  <1>2. PICK n \in [Service -> UNION {0 .. Len(fromNS[p]) : p \in Service}] :
          /\ \A p \in Service : n[p] <= Len(fromNS[p])
          /\ fromNS' = [p \in Service |-> SubSeq(fromNS[p], 1, n[p])]
    BY DEF NSCrash
  <1>3. fromNS' \in [Service -> Seq(FromNSMessage)]
    <2>1. ASSUME NEW p \in Service
          PROVE  SubSeq(fromNS[p], 1, n[p]) \in Seq(FromNSMessage)
      <3>1. fromNS[p] \in Seq(FromNSMessage) /\ Len(fromNS[p]) \in Nat
        BY <1>0, LenProperties DEF MailOK
      <3>2. n[p] \in Nat
        <4>1. PICK q \in Service : n[p] \in 0 .. Len(fromNS[q])
          BY <1>2
        <4>2. Len(fromNS[q]) \in Nat
          BY <1>0, LenProperties DEF MailOK
        <4> QED BY <4>1, <4>2
      <3>3. n[p] \in 0 .. Len(fromNS[p])
        BY <3>1, <3>2, <1>2
      <3> QED BY <3>1, <3>3, PrefixEntries
    <2> QED BY <1>2, <2>1
  <1>4. kept \union gone \in SUBSET SId
    <2>1. Entries(registry) \subseteq Entry
      BY <1>0, EntriesType DEF NamingType
    <2>2. kept \in SUBSET SId
      BY <2>1 DEF Entry
    <2>3. gone \in SUBSET SId
      BY <1>0 DEF StageType
    <2> QED BY <2>2, <2>3
  <1> HIDE DEF kept, gone
  <1>5. HistoryType'
    <2>1. faults' \in [Fault -> Nat]
      BY <1>0, <1>1, FailsType DEF Fault
    <2> QED BY <1>0, <1>1, <1>4, <2>1, SpoilType
  <1>6. (NamingType /\ MailOK /\ StageType /\ TablesType /\ LinkType)'
    BY <1>0, <1>1, <1>3, EmptySeq
    DEF NamingType, MailOK, StageType, TablesType, LinkType, tables
  <1>7. Identified'
    BY <1>1 DEF TypeInv, Identified, Entries
  <1> QED BY <1>5, <1>6, <1>7 DEF TypeInv, Typed

(* Every step keeps the types.                                             *)
LEMMA TypeNext == TypeInv /\ [Next]_vars => TypeInv'
PROOF
  <1> SUFFICES ASSUME TypeInv, [Next]_vars PROVE TypeInv'
    OBVIOUS
  <1>1. ASSUME NS PROVE TypeInv'
    BY <1>1, AcceptType, RefuseType, ResendType, AckType, DisconnectType, UpdateType DEF NS
  <1>2. ASSUME NEW p \in Service, Process(p) PROVE TypeInv'
    BY <1>2, RegisteredType, RegisterBroadcastType, UnregisterBroadcastType, ConnectionType,
       ReconnectType, AddServiceType, IdentificationType, LostType DEF Process
  <1>3. ASSUME NEW p \in Service, Start(p) \/ Die(p) PROVE TypeInv'
    BY <1>3, StartType, DieType
  <1>4. ASSUME NSTimeout \/ NSCrash PROVE TypeInv'
    BY <1>4, UpdateType, CrashType
  <1>5. ASSUME NSRestart PROVE TypeInv'
    <2>1. NamingType' /\ Typed'
      BY <1>5 DEF NSRestart, TypeInv, Typed, NamingType, MailOK, StageType, TablesType,
                  LinkType, HistoryType, channels, tables
    <2>2. Identified'
      BY <1>5 DEF NSRestart, TypeInv, Identified, channels
    <2> QED BY <2>1, <2>2 DEF TypeInv
  <1>6. ASSUME UNCHANGED vars PROVE TypeInv'
    <2>1. Typed'
      BY <1>6 DEF vars, TypeInv, Typed, NamingType, MailOK, StageType, TablesType,
                  LinkType, HistoryType, naming, channels, tables
    <2>2. Identified'
      BY <1>6 DEF vars, TypeInv, Identified, channels
    <2> QED BY <2>1, <2>2 DEF TypeInv
  <1> QED BY <1>1, <1>2, <1>3, <1>4, <1>5, <1>6 DEF Next

(* Every variable keeps its type, the identifiers that the messages and    *)
(* the tables name among them.                                             *)
THEOREM TypeCorrect == Spec => []TypeOK
PROOF
  <1>1. TypeInv => TypeOK
    BY TypedImpliesTypeOK DEF TypeInv
  <1> QED BY <1>1, TypeInit, TypeNext, PTL DEF Spec
=============================================================================
