------------------------- MODULE BrowserReadsProofs -------------------------
(***************************************************************************)
(* For any users, views, pages of a list and number of slots: a slot is     *)
(* never lost or exceeded, and no late, abandoned or retried reply brings   *)
(* back what an invalidation or a new session took away.                    *)
(***************************************************************************)
EXTENDS BrowserReads, SequenceTheorems, FiniteSetTheorems, TLAPS

----------------------------------------------------------------------------
(* Places of the members of a set of positions. *)

LEMMA PositionsFinite ==
  ASSUME NEW m \in Nat, NEW S \in SUBSET (1 .. m)
  PROVE  /\ IsFiniteSet(S) /\ Cardinality(S) \in 0 .. m
         /\ \A i \in Int : /\ IsFiniteSet(S \cap 1 .. i)
                           /\ Rank(S, i) \in 0 .. Cardinality(S)
  <1>1. IsFiniteSet(1 .. m) /\ Cardinality(1 .. m) = m
    BY FS_Interval
  <1>2. IsFiniteSet(S) /\ Cardinality(S) <= m
    BY <1>1, FS_Subset
  <1>3. Cardinality(S) \in Nat
    BY <1>2, FS_CardinalityType
  <1>4. ASSUME NEW i \in Int
        PROVE  IsFiniteSet(S \cap 1 .. i) /\ Rank(S, i) \in 0 .. Cardinality(S)
    <2>1. IsFiniteSet(S \cap 1 .. i) /\ Cardinality(S \cap 1 .. i) <= Cardinality(S)
      BY <1>2, FS_Intersection
    <2>2. Cardinality(S \cap 1 .. i) \in Nat
      BY <2>1, FS_CardinalityType
    <2> QED
      BY <1>3, <2>1, <2>2 DEF Rank
  <1> QED
    BY <1>2, <1>3, <1>4

(* A later member has a higher place. *)
LEMMA RankGrows ==
  ASSUME NEW m \in Nat, NEW S \in SUBSET (1 .. m), NEW i \in S, NEW j \in S, i < j
  PROVE  Rank(S, i) < Rank(S, j)
  <1> DEFINE before == S \cap 1 .. i
             upto == S \cap 1 .. j
  <1>0. i \in Int /\ j \in Int /\ Cardinality(S) \in Nat
    BY PositionsFinite
  <1>1. /\ IsFiniteSet(before) /\ Rank(S, i) \in Nat
        /\ IsFiniteSet(upto) /\ Rank(S, j) \in Nat
    <2>1. IsFiniteSet(before) /\ Rank(S, i) \in 0 .. Cardinality(S)
      BY <1>0, PositionsFinite
    <2>2. IsFiniteSet(upto) /\ Rank(S, j) \in 0 .. Cardinality(S)
      BY <1>0, PositionsFinite
    <2> QED
      BY <1>0, <2>1, <2>2
  <1>2. Cardinality(before \cup {j}) = Cardinality(before) + 1
    <2>1. j \notin before
      OBVIOUS
    <2> QED
      BY <1>1, <2>1, FS_AddElement
  <1>3. before \cup {j} \in SUBSET upto
    OBVIOUS
  <1>4. Cardinality(before \cup {j}) <= Cardinality(upto)
    BY <1>1, <1>3, FS_Subset
  <1> QED
    BY <1>1, <1>2, <1>4 DEF Rank

(* Places count the members: each has one, and each place one member. *)
LEMMA RankIsBijection ==
  ASSUME NEW m \in Nat, NEW S \in SUBSET (1 .. m)
  PROVE  /\ \A i \in S : Rank(S, i) \in 1 .. Cardinality(S)
         /\ \A i, j \in S : Rank(S, i) = Rank(S, j) => i = j
         /\ \A n \in 1 .. Cardinality(S) : \E i \in S : Rank(S, i) = n
  <1> DEFINE place == [i \in S |-> Rank(S, i)]
  <1>1. IsFiniteSet(S) /\ Cardinality(S) \in Nat
    BY PositionsFinite
  <1>2. ASSUME NEW i \in S PROVE Rank(S, i) \in 1 .. Cardinality(S)
    <2>1. IsFiniteSet(S \cap 1 .. i) /\ Rank(S, i) \in 0 .. Cardinality(S)
      BY PositionsFinite
    <2>2. S \cap 1 .. i # {}
      OBVIOUS
    <2>3. Rank(S, i) # 0
      BY <2>1, <2>2, FS_EmptySet DEF Rank
    <2> QED
      BY <1>1, <2>1, <2>3
  <1>3. ASSUME NEW i \in S, NEW j \in S, Rank(S, i) = Rank(S, j) PROVE i = j
    <2>1. Rank(S, i) \in Int /\ Rank(S, j) \in Int
      BY <1>2
    <2>2. ASSUME i < j PROVE FALSE
      <3>1. Rank(S, i) < Rank(S, j)
        BY <2>2, RankGrows
      <3> QED
        BY <1>3, <2>1, <3>1
    <2>3. ASSUME j < i PROVE FALSE
      <3>1. Rank(S, j) < Rank(S, i)
        BY <2>3, RankGrows
      <3> QED
        BY <1>3, <2>1, <3>1
    <2> QED
      BY <2>2, <2>3
  <1>4. place \in Injection(S, 1 .. Cardinality(S))
    BY <1>2, <1>3 DEF Injection, IsInjective
  <1>5. IsFiniteSet(1 .. Cardinality(S)) /\ Cardinality(1 .. Cardinality(S)) = Cardinality(S)
    BY <1>1, FS_Interval
  <1>6. place \in Surjection(S, 1 .. Cardinality(S))
    BY <1>4, <1>5, FS_Injection
  <1>7. ASSUME NEW n \in 1 .. Cardinality(S) PROVE \E i \in S : Rank(S, i) = n
    BY <1>6 DEF Surjection
  <1> QED
    BY <1>2, <1>3, <1>7

(* The members with a place up to a bound are as many as the bound, if there
   are so many. *)
LEMMA FirstPlaces ==
  ASSUME NEW m \in Nat, NEW S \in SUBSET (1 .. m), NEW free \in Nat
  PROVE  LET first == {i \in S : Rank(S, i) <= free}
         IN  Cardinality(first) = IF free <= Cardinality(S) THEN free ELSE Cardinality(S)
  <1> DEFINE first == {i \in S : Rank(S, i) <= free}
             bound == IF free <= Cardinality(S) THEN free ELSE Cardinality(S)
             place == [i \in first |-> Rank(S, i)]
  <1>1. IsFiniteSet(S) /\ Cardinality(S) \in Nat
    BY PositionsFinite
  <1>2. bound \in Nat /\ bound <= Cardinality(S)
    BY <1>1
  <1>3. \A i \in first : Rank(S, i) \in 1 .. bound
    <2> TAKE i \in first
    <2>1. i \in S /\ Rank(S, i) <= free
      OBVIOUS
    <2>2. Rank(S, i) \in 1 .. Cardinality(S)
      BY <2>1, RankIsBijection
    <2> QED
      BY <1>1, <2>1, <2>2
  <1>4. \A n \in 1 .. bound : \E i \in first : Rank(S, i) = n
    <2> TAKE n \in 1 .. bound
    <2>1. n \in 1 .. Cardinality(S) /\ n <= free
      BY <1>1
    <2>2. PICK i \in S : Rank(S, i) = n
      BY <2>1, RankIsBijection
    <2> QED
      BY <2>1, <2>2
  <1>5. \A i, j \in first : Rank(S, i) = Rank(S, j) => i = j
    BY RankIsBijection
  <1>6. place \in Bijection(first, 1 .. bound)
    BY <1>3, <1>4, <1>5 DEF Bijection, Injection, Surjection, IsInjective
  <1>7. first \in SUBSET S
    OBVIOUS
  <1>8. IsFiniteSet(first)
    BY <1>1, <1>7, FS_Subset
  <1>9. Cardinality(1 .. bound) = Cardinality(first)
    BY <1>6, <1>8, FS_Bijection DEF ExistsBijection
  <1>10. Cardinality(1 .. bound) = bound
    BY <1>2, FS_Interval
  <1> QED
    BY <1>9, <1>10

----------------------------------------------------------------------------
(* The states of a page, and what holds a slot in one. *)

ShownViews ==
  [entry : [result : Results, previous : Results, loading : BOOLEAN],
   due : BOOLEAN, seen : BOOLEAN]

Lists == [due : BOOLEAN, task : 0 .. LastPage, items : Seq(Results)]

PageStates ==
  [session : [kind : {"LOADING", "ANONYMOUS", "AUTHENTICATED", "FAILURE"},
              user : Users \cup {"NOBODY"}, epoch : Nat],
   logout : BOOLEAN, shown : [Views -> ShownViews],
   list : Lists,
   reads : Seq(Reads), active : Nat, known : {NoDay} \cup 0 .. MaxDay,
   since : 0 .. MaxDay, resumes : Nat]

Held(reads) == {i \in DOMAIN reads : reads[i].phase # "WAITING"}
Queued(reads) == {i \in DOMAIN reads : reads[i].phase = "WAITING"}

(* Slots are counted right; besides, none is free while a read waits. *)
Counted(s) ==
  s.active = Cardinality(Held(s.reads)) /\ s.active <= maximumConcurrentReads

Slots(s) ==
  /\ Counted(s)
  /\ Cardinality(Held(s.reads)) < Len(s.reads) => s.active = maximumConcurrentReads

(* The queue of a page may have changed, and nothing else of it. *)
Aside(t, s) ==
  /\ t.session = s.session /\ t.logout = s.logout /\ t.shown = s.shown /\ t.list = s.list
  /\ t.known = s.known /\ t.since = s.since /\ t.resumes = s.resumes

LEMMA HeldOrQueued ==
  ASSUME NEW reads \in Seq(Reads)
  PROVE  /\ Len(reads) \in Nat /\ DOMAIN reads = 1 .. Len(reads)
         /\ \A i \in DOMAIN reads : reads[i] \in Reads
         /\ Held(reads) \in SUBSET (1 .. Len(reads))
         /\ Queued(reads) \in SUBSET (1 .. Len(reads))
         /\ IsFiniteSet(Held(reads)) /\ Cardinality(Held(reads)) \in 0 .. Len(reads)
         /\ IsFiniteSet(Queued(reads)) /\ Cardinality(Queued(reads)) \in 0 .. Len(reads)
         /\ Cardinality(Held(reads)) + Cardinality(Queued(reads)) = Len(reads)
  <1> DEFINE H == Held(reads)
             Q == Queued(reads)
  <1>1. /\ Len(reads) \in Nat /\ DOMAIN reads = 1 .. Len(reads)
        /\ \A i \in DOMAIN reads : reads[i] \in Reads
    BY LenProperties, ElementOfSeq
  <1>2. H \in SUBSET (1 .. Len(reads)) /\ Q \in SUBSET (1 .. Len(reads))
    BY <1>1 DEF Held, Queued
  <1>3. /\ IsFiniteSet(H) /\ Cardinality(H) \in 0 .. Len(reads)
        /\ IsFiniteSet(Q) /\ Cardinality(Q) \in 0 .. Len(reads)
    BY <1>1, <1>2, PositionsFinite
  <1>4. H \cap Q = {} /\ H \cup Q = 1 .. Len(reads)
    BY <1>1 DEF Held, Queued
  <1>5. Cardinality(H \cup Q) = Cardinality(H) + Cardinality(Q) - Cardinality(H \cap Q)
    BY <1>3, FS_Union
  <1>6. Cardinality(1 .. Len(reads)) = Len(reads)
    BY <1>1, FS_Interval
  <1>7. Cardinality(H \cap Q) = 0
    BY <1>4, FS_EmptySet
  <1>8. Cardinality(H) + Cardinality(Q) = Len(reads)
    <2>1. Cardinality(H \cup Q) = Len(reads)
      BY <1>4, <1>6
    <2> HIDE DEF H, Q
    <2> QED
      BY <1>1, <1>3, <1>5, <1>7, <2>1
  <1> QED
    BY <1>1, <1>2, <1>3, <1>8

(* Slots that became free go to the reads that wait longest, until none waits
   or none is free. *)
LEMMA AdvanceFillsSlots ==
  ASSUME NEW s \in PageStates, Counted(s)
  PROVE  /\ Advance(s) \in PageStates
         /\ Slots(Advance(s))
         /\ Aside(Advance(s), s)
         /\ DOMAIN Advance(s).reads = DOMAIN s.reads
         /\ \A i \in DOMAIN s.reads : /\ Advance(s).reads[i].key = s.reads[i].key
                                      /\ Advance(s).reads[i].reply = s.reads[i].reply
  <1> DEFINE reads == s.reads
             Q == Queued(reads)
             H == Held(reads)
             free == maximumConcurrentReads - s.active
             admitted == {i \in Q : Rank(Q, i) <= free}
             next == [i \in DOMAIN reads |->
                        IF i \in admitted THEN [reads[i] EXCEPT !.phase = "SENT"] ELSE reads[i]]
             t == Advance(s)
  <1>1. reads \in Seq(Reads) /\ s.active \in Nat
    BY DEF PageStates
  <1>2. /\ Len(reads) \in Nat /\ DOMAIN reads = 1 .. Len(reads)
        /\ \A i \in DOMAIN reads : reads[i] \in Reads
        /\ IsFiniteSet(H) /\ Cardinality(H) \in 0 .. Len(reads)
        /\ IsFiniteSet(Q) /\ Cardinality(Q) \in 0 .. Len(reads)
        /\ Q \in SUBSET (1 .. Len(reads)) /\ H \in SUBSET (1 .. Len(reads))
        /\ Cardinality(H) + Cardinality(Q) = Len(reads)
    BY <1>1, HeldOrQueued
  <1>3. free \in Nat /\ s.active = Cardinality(H) /\ maximumConcurrentReads \in Nat
    BY <1>1, ReadsAssumption DEF Counted
  <1>4. Cardinality(admitted) = IF free <= Cardinality(Q) THEN free ELSE Cardinality(Q)
    BY <1>2, <1>3, FirstPlaces
  <1>5. Cardinality(admitted) \in Nat
    BY <1>2, <1>3, <1>4
  <1>6. t = [s EXCEPT !.active = @ + Cardinality(admitted), !.reads = next]
    BY DEF Advance, Queued
  <1>7. /\ DOMAIN next = DOMAIN reads
        /\ \A i \in DOMAIN reads :
             /\ next[i] \in Reads /\ next[i].key = reads[i].key /\ next[i].reply = reads[i].reply
             /\ next[i].phase = IF i \in admitted THEN "SENT" ELSE reads[i].phase
    BY <1>2 DEF Reads, Phases
  <1>8. next \in Seq(Reads) /\ Len(next) = Len(reads)
    <2>1. next \in [1 .. Len(reads) -> Reads]
      BY <1>2, <1>7
    <2>2. next \in Seq(Reads)
      BY <1>2, <2>1, SeqDef
    <2>3. DOMAIN next = 1 .. Len(next) /\ Len(next) \in Nat
      BY <2>2, LenProperties
    <2> QED
      BY <1>2, <1>7, <2>2, <2>3
  <1>9. /\ t \in PageStates /\ Aside(t, s) /\ t.reads = next
        /\ t.active = s.active + Cardinality(admitted)
    <2>1. s.active + Cardinality(admitted) \in Nat /\ next \in Seq(Reads)
      BY <1>1, <1>5, <1>8
    <2> HIDE DEF t, next, admitted, reads
    <2> QED
      BY <1>6, <2>1 DEF PageStates, Aside
  <1>10. Held(next) = H \cup admitted
    BY <1>7 DEF Held, Queued
  <1>11. H \cap admitted = {} /\ IsFiniteSet(admitted)
    <2>1. admitted \in SUBSET Q
      OBVIOUS
    <2> QED
      BY <1>2, <2>1, FS_Subset DEF Held, Queued
  <1>12. Cardinality(Held(next)) = Cardinality(H) + Cardinality(admitted)
    <2>1. Cardinality(H \cup admitted)
            = Cardinality(H) + Cardinality(admitted) - Cardinality(H \cap admitted)
      BY <1>2, <1>11, FS_Union
    <2>2. Cardinality(H \cap admitted) = 0
      BY <1>11, FS_EmptySet
    <2>3. Cardinality(Held(next)) = Cardinality(H \cup admitted)
      BY <1>10
    <2> HIDE DEF H, admitted, next
    <2> QED
      BY <1>2, <1>5, <2>1, <2>2, <2>3
  <1>13. Slots(t)
    BY <1>2, <1>3, <1>4, <1>8, <1>9, <1>12 DEF Slots, Counted
  <1> QED
    BY <1>7, <1>9, <1>13

----------------------------------------------------------------------------
(* Reads come, end and are aborted. *)

Queueable == Keys \cup {SessionKey}

LEMMA StartKeepsSlots ==
  ASSUME NEW s \in PageStates, Slots(s), NEW key \in Queueable, NEW observing \in BOOLEAN
  PROVE  LET t == Start(s, key, observing)
         IN  /\ t \in PageStates /\ Slots(t) /\ Aside(t, s)
             /\ DOMAIN t.reads = 1 .. Len(s.reads) + 1
             /\ \A i \in DOMAIN s.reads : t.reads[i] = s.reads[i]
             /\ t.reads[Len(s.reads) + 1].reply = NoResult
             /\ t.reads[Len(s.reads) + 1].key = key
  <1> DEFINE now == s.active < maximumConcurrentReads
             read == [key |-> key, phase |-> IF now THEN "SENT" ELSE "WAITING",
                      observing |-> observing, reply |-> NoResult]
             reads == s.reads
             n == Len(s.reads)
             next == Append(s.reads, read)
             t == Start(s, key, observing)
             active == IF now THEN s.active + 1 ELSE s.active
  <1>1. reads \in Seq(Reads) /\ s.active \in Nat
    BY DEF PageStates
  <1>2. /\ n \in Nat /\ DOMAIN reads = 1 .. n
        /\ IsFiniteSet(Held(reads)) /\ Cardinality(Held(reads)) \in 0 .. n
        /\ Held(reads) \in SUBSET (1 .. n)
    BY <1>1, HeldOrQueued
  <1>3. read \in Reads
    BY ReadsAssumption DEF Reads, Phases, Queueable, NoResult, Result, Results
  <1>4. /\ next \in Seq(Reads) /\ Len(next) = n + 1
        /\ \A i \in 1 .. n : next[i] = reads[i]
        /\ next[n + 1] = read
    BY <1>1, <1>3, AppendProperties
  <1>5. DOMAIN next = 1 .. n + 1
    BY <1>4, LenProperties
  <1>6. active \in Nat
    BY <1>1
  <1>7. t = [s EXCEPT !.reads = next, !.active = active]
    BY DEF Start
  <1>8. t \in PageStates /\ Aside(t, s) /\ t.reads = next /\ t.active = active
    <2> HIDE DEF t, next, active
    <2> QED
      BY <1>4, <1>6, <1>7 DEF PageStates, Aside
  <1>9. Held(next) = IF now THEN Held(reads) \cup {n + 1} ELSE Held(reads)
    <2> HIDE DEF next
    <2> QED
      BY <1>2, <1>4, <1>5 DEF Held
  <1>10. Cardinality(Held(next)) = IF now THEN Cardinality(Held(reads)) + 1 ELSE Cardinality(Held(reads))
    <2>1. n + 1 \notin Held(reads)
      BY <1>2
    <2>2. Cardinality(Held(reads) \cup {n + 1}) = Cardinality(Held(reads)) + 1
      BY <1>2, <2>1, FS_AddElement
    <2> QED
      BY <1>9, <2>2
  <1>11. Slots(t)
    <2> HIDE DEF t, next
    <2> QED
      BY <1>1, <1>2, <1>4, <1>8, <1>10, ReadsAssumption DEF Slots, Counted
  <1> QED
    BY <1>2, <1>4, <1>5, <1>8, <1>11

(* Removing a read moves those behind it up by one. *)
LEMMA RemoveAtShifts ==
  ASSUME NEW reads \in Seq(Reads), NEW i \in DOMAIN reads
  PROVE  /\ RemoveAt(reads, i) \in Seq(Reads)
         /\ Len(RemoveAt(reads, i)) = Len(reads) - 1
         /\ \A j \in 1 .. Len(reads) - 1 :
              RemoveAt(reads, i)[j] = IF j < i THEN reads[j] ELSE reads[j + 1]
  <1> DEFINE n == Len(reads)
             before == SubSeq(reads, 1, i - 1)
             after == SubSeq(reads, i + 1, n)
  <1>1. n \in Nat /\ DOMAIN reads = 1 .. n /\ i \in 1 .. n /\ \A j \in 1 .. n : reads[j] \in Reads
    BY HeldOrQueued
  <1>2. /\ before \in Seq(Reads) /\ Len(before) = i - 1
        /\ \A j \in 1 .. i - 1 : before[j] = reads[j]
    <2>1. \A j \in 1 .. i - 1 : reads[j] \in Reads
      BY <1>1
    <2>2. 1 \in Int /\ i - 1 \in Int
      BY <1>1
    <2>3. /\ before \in Seq(Reads)
          /\ Len(before) = IF 1 <= i - 1 THEN i - 1 - 1 + 1 ELSE 0
          /\ \A j \in 1 .. i - 1 - 1 + 1 : before[j] = reads[1 + j - 1]
      BY <2>1, <2>2, SubSeqProperties
    <2> QED
      BY <1>1, <2>3
  <1>3. /\ after \in Seq(Reads) /\ Len(after) = n - i
        /\ \A j \in 1 .. n - i : after[j] = reads[i + j]
    <2>1. \A j \in i + 1 .. n : reads[j] \in Reads
      BY <1>1
    <2>2. n \in Int /\ i + 1 \in Int
      BY <1>1
    <2>3. /\ after \in Seq(Reads)
          /\ Len(after) = IF i + 1 <= n THEN n - (i + 1) + 1 ELSE 0
          /\ \A j \in 1 .. n - (i + 1) + 1 : after[j] = reads[i + 1 + j - 1]
      BY <2>1, <2>2, SubSeqProperties
    <2>4. n - (i + 1) + 1 = n - i /\ (i + 1 <= n \/ n - i = 0)
      BY <1>1
    <2>5. \A j \in 1 .. n - i : i + 1 + j - 1 = i + j
      BY <1>1
    <2> HIDE DEF after
    <2> QED
      BY <2>3, <2>4, <2>5
  <1>4. /\ before \o after \in Seq(Reads)
        /\ Len(before \o after) = Len(before) + Len(after)
        /\ \A j \in 1 .. Len(before) + Len(after) :
             (before \o after)[j] = IF j <= Len(before) THEN before[j] ELSE after[j - Len(before)]
    BY <1>2, <1>3, ConcatProperties
  <1>5. RemoveAt(reads, i) = before \o after
    BY DEF RemoveAt
  <1>6. ASSUME NEW j \in 1 .. n - 1
        PROVE  (before \o after)[j] = IF j < i THEN reads[j] ELSE reads[j + 1]
    <2>1. (before \o after)[j] = IF j <= i - 1 THEN before[j] ELSE after[j - (i - 1)]
      <3>1. i - 1 + (n - i) = n - 1
        BY <1>1
      <3> DEFINE both == before \o after
      <3> HIDE DEF before, after, both
      <3> QED
        BY <1>2, <1>3, <1>4, <3>1 DEF both
    <2>2. CASE j < i
      BY <1>1, <1>2, <2>1, <2>2
    <2>3. CASE ~(j < i)
      <3>1. j - (i - 1) \in 1 .. n - i
        BY <1>1, <2>3
      <3>2. after[j - (i - 1)] = reads[i + (j - (i - 1))]
        BY <1>3, <3>1
      <3>3. i + (j - (i - 1)) = j + 1 /\ ~(j <= i - 1)
        BY <1>1, <2>3
      <3> QED
        BY <2>1, <2>3, <3>2, <3>3
    <2> QED
      BY <2>2, <2>3
  <1>7. Len(before \o after) = n - 1
    <2>1. i - 1 + (n - i) = n - 1
      BY <1>1
    <2> HIDE DEF before, after
    <2> QED
      BY <1>2, <1>3, <1>4, <2>1
  <1> QED
    <2> DEFINE both == before \o after
    <2>1. both \in Seq(Reads) /\ Len(both) = n - 1 /\ RemoveAt(reads, i) = both
      BY <1>4, <1>5, <1>7
    <2>2. \A j \in 1 .. n - 1 : both[j] = IF j < i THEN reads[j] ELSE reads[j + 1]
      BY <1>6
    <2> HIDE DEF both
    <2> QED
      BY <2>1, <2>2

(* Each read of the new queue is heard by nobody, or has the entry and the
   reply of one read of the old queue that is not gone. *)
Heirs(new, old, gone) ==
  \E from \in [DOMAIN new -> DOMAIN old] :
    /\ \A j, k \in DOMAIN new : from[j] = from[k] => j = k
    /\ \A j \in DOMAIN new :
         \/ new[j].key = Obsolete /\ new[j].reply = NoResult
         \/ /\ new[j].key = old[from[j]].key /\ new[j].reply = old[from[j]].reply
            /\ from[j] \notin gone

LEMMA ReleaseKeepsSlots ==
  ASSUME NEW s \in PageStates, Slots(s), NEW i \in Held(s.reads)
  PROVE  LET t == Release(s, i)
         IN  t \in PageStates /\ Slots(t) /\ Aside(t, s) /\ Heirs(t.reads, s.reads, {i})
  <1> DEFINE reads == s.reads
             n == Len(s.reads)
             next == RemoveAt(s.reads, i)
             active == s.active - 1
             left == [s EXCEPT !.reads = next, !.active = active]
             t == Release(s, i)
  <1>1. reads \in Seq(Reads) /\ s.active \in Nat
    BY DEF PageStates
  <1>2. /\ n \in Nat /\ DOMAIN reads = 1 .. n
        /\ IsFiniteSet(Held(reads)) /\ Cardinality(Held(reads)) \in 0 .. n
        /\ Held(reads) \in SUBSET (1 .. n) /\ i \in DOMAIN reads /\ i \in 1 .. n
    BY <1>1, HeldOrQueued
  <1>3. /\ next \in Seq(Reads) /\ Len(next) = n - 1
        /\ \A j \in 1 .. n - 1 : next[j] = IF j < i THEN reads[j] ELSE reads[j + 1]
    BY <1>1, <1>2, RemoveAtShifts
  <1>4. DOMAIN next = 1 .. n - 1
    BY <1>3, LenProperties
  <1> DEFINE from == [j \in Held(next) |-> IF j < i THEN j ELSE j + 1]
  <1>5. from \in Bijection(Held(next), Held(reads) \ {i})
    <2> HIDE DEF next
    <2>1. \A j \in Held(next) : j \in 1 .. n - 1 /\ from[j] \in Held(reads) \ {i}
      BY <1>2, <1>3, <1>4 DEF Held
    <2>2. \A j, k \in Held(next) : from[j] = from[k] => j = k
      BY <1>2, <2>1
    <2>3. \A k \in Held(reads) \ {i} : \E j \in Held(next) : from[j] = k
      <3> TAKE k \in Held(reads) \ {i}
      <3>1. k \in 1 .. n /\ k # i /\ reads[k].phase # "WAITING"
        BY <1>2 DEF Held
      <3>2. CASE k < i
        <4>1. k \in 1 .. n - 1 /\ next[k] = reads[k]
          BY <1>2, <1>3, <3>1, <3>2
        <4>2. k \in Held(next)
          BY <1>4, <3>1, <4>1 DEF Held
        <4> QED
          BY <3>2, <4>2
      <3>3. CASE ~(k < i)
        <4>1. k - 1 \in 1 .. n - 1 /\ ~(k - 1 < i) /\ k - 1 + 1 = k
          BY <1>2, <3>1, <3>3
        <4>2. next[k - 1] = reads[k]
          BY <1>3, <4>1
        <4>3. k - 1 \in Held(next)
          BY <1>4, <3>1, <4>1, <4>2 DEF Held
        <4> QED
          BY <4>1, <4>3
      <3> QED
        BY <3>2, <3>3
    <2> QED
      BY <2>1, <2>2, <2>3 DEF Bijection, Injection, Surjection, IsInjective
  <1>6. Cardinality(Held(next)) = Cardinality(Held(reads)) - 1
    <2>1. IsFiniteSet(Held(next))
      BY <1>3, HeldOrQueued
    <2>2. Cardinality(Held(reads) \ {i}) = Cardinality(Held(next))
      BY <1>5, <2>1, FS_Bijection DEF ExistsBijection
    <2> QED
      BY <1>2, <2>2, FS_RemoveElement
  <1>7. Cardinality(Held(next)) \in Nat
    BY <1>3, HeldOrQueued
  <1>8. active \in Nat /\ active = Cardinality(Held(next)) /\ active <= maximumConcurrentReads
    BY <1>1, <1>2, <1>6, <1>7, ReadsAssumption DEF Slots, Counted
  <1>9. left \in PageStates /\ Aside(left, s) /\ left.reads = next /\ left.active = active
    <2> HIDE DEF next, active
    <2> QED
      BY <1>3, <1>8 DEF PageStates, Aside
  <1>10. Counted(left)
    BY <1>8, <1>9 DEF Counted
  <1>11. t = Advance(left)
    BY DEF Release
  <1>12. /\ t \in PageStates /\ Slots(t) /\ Aside(t, left) /\ DOMAIN t.reads = 1 .. n - 1
         /\ \A j \in 1 .. n - 1 : t.reads[j].key = next[j].key /\ t.reads[j].reply = next[j].reply
    <2> HIDE DEF left, next, t
    <2> QED
      BY <1>4, <1>9, <1>10, <1>11, AdvanceFillsSlots
  <1>13. Heirs(t.reads, reads, {i})
    <2> DEFINE at == [j \in 1 .. n - 1 |-> IF j < i THEN j ELSE j + 1]
    <2>1. \A j \in 1 .. n - 1 :
            at[j] \in 1 .. n /\ at[j] # i /\ next[j] = reads[at[j]]
      <3> HIDE DEF next
      <3> QED
        BY <1>2, <1>3
    <2>2. \A j, k \in 1 .. n - 1 : at[j] = at[k] => j = k
      BY <1>2
    <2>3. at \in [1 .. n - 1 -> 1 .. n]
      BY <2>1
    <2>4. /\ DOMAIN t.reads = 1 .. n - 1 /\ DOMAIN reads = 1 .. n
          /\ \A j \in 1 .. n - 1 :
               /\ t.reads[j].key = reads[at[j]].key /\ t.reads[j].reply = reads[at[j]].reply
               /\ at[j] \notin {i}
      <3> HIDE DEF t, next, at
      <3> QED
        BY <1>2, <1>12, <2>1
    <2> HIDE DEF t, at
    <2> QED
      BY <2>2, <2>3, <2>4 DEF Heirs
  <1>14. Aside(t, s)
    BY <1>9, <1>12 DEF Aside
  <1> QED
    BY <1>12, <1>13, <1>14

(* The reads of the new queue are those that go on, each once. *)
LEMMA KeptReads ==
  ASSUME NEW reads \in Seq(Reads), NEW keys \in SUBSET Queueable
  PROVE  LET kept == {i \in DOMAIN reads : ~Ends(reads[i], keys)}
         IN  /\ Kept(reads, keys) \in Seq(Reads)
             /\ \E from \in Bijection(DOMAIN Kept(reads, keys), kept) :
                  \A n \in DOMAIN Kept(reads, keys) :
                    Kept(reads, keys)[n] = Drained(reads[from[n]], keys)
  <1> DEFINE kept == {i \in DOMAIN reads : ~Ends(reads[i], keys)}
             next == Kept(reads, keys)
  <1>1. /\ Len(reads) \in Nat /\ DOMAIN reads = 1 .. Len(reads)
        /\ \A i \in DOMAIN reads : reads[i] \in Reads
    BY HeldOrQueued
  <1>2. \A i \in DOMAIN reads : Drained(reads[i], keys) \in Reads
    <2>1. NoResult \in Results
      BY ReadsAssumption DEF Results, NoResult, Result
    <2> QED
      BY <1>1, <2>1 DEF Drained, Reads, Phases
  <1>3. CASE kept = DOMAIN reads
    <2> DEFINE from == [i \in DOMAIN reads |-> i]
    <2>1. next = [i \in DOMAIN reads |-> Drained(reads[i], keys)]
      BY <1>3 DEF Kept
    <2>2. next \in [1 .. Len(reads) -> Reads]
      BY <1>1, <1>2, <2>1
    <2>3. next \in Seq(Reads)
      BY <1>1, <2>2, SeqDef
    <2>4. from \in Bijection(DOMAIN next, kept)
      BY <1>3, <2>1 DEF Bijection, Injection, Surjection, IsInjective
    <2>5. \A n \in DOMAIN next : next[n] = Drained(reads[from[n]], keys)
      BY <2>1
    <2> HIDE DEF next, from, kept
    <2> QED
      BY <2>3, <2>4, <2>5 DEF next, kept
  <1>4. CASE kept # DOMAIN reads
    <2> DEFINE size == Cardinality(kept)
               from == [n \in 1 .. size |-> CHOOSE i \in kept : Rank(kept, i) = n]
    <2>1. kept \in SUBSET (1 .. Len(reads))
      BY <1>1
    <2>2. size \in Nat
      BY <1>1, <2>1, PositionsFinite
    <2>3. /\ \A i \in kept : Rank(kept, i) \in 1 .. size
          /\ \A i, j \in kept : Rank(kept, i) = Rank(kept, j) => i = j
          /\ \A n \in 1 .. size : \E i \in kept : Rank(kept, i) = n
      BY ZenonT(30), <1>1, <2>1, RankIsBijection
    <2>4. next = [n \in 1 .. size |-> Drained(reads[from[n]], keys)]
      BY <1>4 DEF Kept
    <2>5. \A n \in 1 .. size : from[n] \in kept /\ Rank(kept, from[n]) = n
      <3> HIDE DEF kept, size
      <3> QED
        BY <2>3
    <2>6. from \in Bijection(1 .. size, kept)
      <3>1. \A n, k \in 1 .. size : from[n] = from[k] => n = k
        BY <2>5
      <3>2. \A i \in kept : Rank(kept, i) \in 1 .. size /\ from[Rank(kept, i)] = i
        <4> HIDE DEF kept, size, from
        <4> QED
          BY <2>3, <2>5
      <3> HIDE DEF kept, size
      <3> QED
        BY <2>5, <3>1, <3>2 DEF Bijection, Injection, Surjection, IsInjective
    <2>7. next \in [1 .. size -> Reads]
      <3>1. \A n \in 1 .. size : from[n] \in DOMAIN reads
        BY <2>5
      <3> HIDE DEF from, size, next
      <3> QED
        BY <1>2, <2>4, <3>1
    <2>8. next \in Seq(Reads)
      <3> HIDE DEF next, size
      <3> QED
        BY <2>2, <2>7, SeqDef
    <2>9. DOMAIN next = 1 .. size /\ \A n \in 1 .. size : next[n] = Drained(reads[from[n]], keys)
      <3> HIDE DEF from, size
      <3> QED
        BY <2>4
    <2> HIDE DEF next, from, kept, size
    <2> QED
      BY <2>6, <2>8, <2>9 DEF next, kept
  <1> QED
    BY <1>3, <1>4

(* What waits or pauses before a retry is gone, what is on the wire keeps its
   slot and is heard by nobody, and the slots counted free are the ones freed. *)
LEMMA KeptHolds ==
  ASSUME NEW reads \in Seq(Reads), NEW keys \in SUBSET Queueable
  PROVE  LET freed == {i \in DOMAIN reads : reads[i].key \in keys /\ reads[i].phase = "LIMITED"}
             next == Kept(reads, keys)
         IN  /\ next \in Seq(Reads)
             /\ Cardinality(freed) \in 0 .. Cardinality(Held(reads))
             /\ Cardinality(Held(next)) = Cardinality(Held(reads)) - Cardinality(freed)
             /\ Heirs(next, reads, {i \in DOMAIN reads : reads[i].key \in keys})
  <1> DEFINE kept == {i \in DOMAIN reads : ~Ends(reads[i], keys)}
             freed == {i \in DOMAIN reads : reads[i].key \in keys /\ reads[i].phase = "LIMITED"}
             next == Kept(reads, keys)
             held == Held(reads)
  <1>1. /\ Len(reads) \in Nat /\ DOMAIN reads = 1 .. Len(reads)
        /\ \A i \in DOMAIN reads : reads[i] \in Reads
        /\ IsFiniteSet(held) /\ Cardinality(held) \in Nat
    BY HeldOrQueued
  <1>2. next \in Seq(Reads)
    BY KeptReads
  <1>3. PICK from \in Bijection(DOMAIN next, kept) :
          \A n \in DOMAIN next : next[n] = Drained(reads[from[n]], keys)
    BY KeptReads
  <1>4. /\ \A n \in DOMAIN next : from[n] \in kept
        /\ \A n, k \in DOMAIN next : from[n] = from[k] => n = k
        /\ \A i \in kept : \E n \in DOMAIN next : from[n] = i
    <2> HIDE DEF kept, next
    <2> QED
      BY <1>3 DEF Bijection, Injection, Surjection, IsInjective
  <1>5. Heirs(next, reads, {i \in DOMAIN reads : reads[i].key \in keys})
    <2>1. from \in [DOMAIN next -> kept]
      BY <1>3 DEF Bijection, Injection
    <2>2. from \in [DOMAIN next -> DOMAIN reads]
      BY <2>1
    <2>3. \A n \in DOMAIN next :
            \/ next[n].key = Obsolete /\ next[n].reply = NoResult
            \/ next[n] = reads[from[n]] /\ reads[from[n]].key \notin keys
      <3> HIDE DEF next
      <3> QED
        BY <1>3, <1>4 DEF Drained
    <2> HIDE DEF next
    <2> QED
      BY <1>4, <2>2, <2>3 DEF Heirs
  <1>6. freed \in SUBSET held
    BY DEF Held
  <1>7. \A n \in DOMAIN next : n \in Held(next) <=> from[n] \in held \ freed
    <2> TAKE n \in DOMAIN next
    <2>1. from[n] \in DOMAIN reads /\ ~Ends(reads[from[n]], keys)
      BY <1>4
    <2>2. next[n] = Drained(reads[from[n]], keys)
      BY <1>3
    <2> HIDE DEF next
    <2> QED
      BY <2>1, <2>2 DEF Held, Ends, Drained
  <1>8. held \ freed \in SUBSET kept
    BY DEF Held, Ends
  <1> DEFINE moved == [n \in Held(next) |-> from[n]]
  <1>9. moved \in Bijection(Held(next), held \ freed)
    <2>1. Held(next) \in SUBSET (DOMAIN next)
      BY DEF Held
    <2> HIDE DEF next, kept, freed, held
    <2> QED
      BY <1>4, <1>7, <1>8, <2>1 DEF Bijection, Injection, Surjection, IsInjective
  <1>10. IsFiniteSet(freed) /\ Cardinality(freed) <= Cardinality(held) /\ Cardinality(freed) \in Nat
    <2>1. IsFiniteSet(freed) /\ Cardinality(freed) <= Cardinality(held)
      BY <1>1, <1>6, FS_Subset
    <2> QED
      BY <2>1, FS_CardinalityType
  <1>11. Cardinality(held \ freed) = Cardinality(held) - Cardinality(freed)
    <2>1. held \cap freed = freed
      BY <1>6
    <2>2. Cardinality(held \ freed) = Cardinality(held) - Cardinality(held \cap freed)
      BY <1>1, FS_Difference
    <2> QED
      BY <2>1, <2>2
  <1>12. Cardinality(Held(next)) = Cardinality(held \ freed)
    <2>1. IsFiniteSet(Held(next))
      BY <1>2, HeldOrQueued
    <2> QED
      BY <1>9, <2>1, FS_Bijection DEF ExistsBijection
  <1>13. Cardinality(freed) \in 0 .. Cardinality(held)
    BY <1>1, <1>10
  <1> QED
    BY <1>2, <1>5, <1>11, <1>12, <1>13

(* After an abort the page is as before, but for its queue, where no read for
   an aborted key is left. *)
LEMMA AbortKeepsSlots ==
  ASSUME NEW s \in PageStates, Slots(s), NEW keys \in SUBSET Queueable
  PROVE  LET t == Abort(s, keys)
         IN  /\ t \in PageStates /\ Slots(t) /\ Aside(t, s)
             /\ Heirs(t.reads, s.reads, {i \in DOMAIN s.reads : s.reads[i].key \in keys})
  <1> DEFINE reads == s.reads
             freed == {i \in DOMAIN s.reads : s.reads[i].key \in keys /\ s.reads[i].phase = "LIMITED"}
             next == Kept(s.reads, keys)
             active == s.active - Cardinality(freed)
             left == [s EXCEPT !.active = active, !.reads = next]
             t == Abort(s, keys)
  <1>1. reads \in Seq(Reads) /\ s.active \in Nat
    BY DEF PageStates
  <1>2. /\ next \in Seq(Reads)
        /\ Cardinality(freed) \in 0 .. Cardinality(Held(reads))
        /\ Cardinality(Held(next)) = Cardinality(Held(reads)) - Cardinality(freed)
        /\ Heirs(next, reads, {i \in DOMAIN reads : reads[i].key \in keys})
    BY <1>1, KeptHolds
  <1>3. Cardinality(Held(reads)) \in Nat
    BY <1>1, HeldOrQueued
  <1>4. active \in Nat /\ active = Cardinality(Held(next)) /\ active <= maximumConcurrentReads
    <2> HIDE DEF freed, next, reads
    <2> QED
      BY <1>1, <1>2, <1>3, ReadsAssumption DEF Slots, Counted, reads
  <1>5. left \in PageStates /\ Aside(left, s) /\ left.reads = next /\ left.active = active
    <2> HIDE DEF next, active
    <2> QED
      BY <1>2, <1>4 DEF PageStates, Aside
  <1>6. Counted(left)
    BY <1>4, <1>5 DEF Counted
  <1>7. t = Advance(left)
    BY DEF Abort
  <1>8. /\ t \in PageStates /\ Slots(t) /\ Aside(t, left) /\ DOMAIN t.reads = DOMAIN next
        /\ \A n \in DOMAIN next : t.reads[n].key = next[n].key /\ t.reads[n].reply = next[n].reply
    <2> HIDE DEF left, next, t
    <2> QED
      BY <1>5, <1>6, <1>7, AdvanceFillsSlots
  <1>9. Heirs(t.reads, reads, {i \in DOMAIN reads : reads[i].key \in keys})
    <2> HIDE DEF t, next, reads
    <2> QED
      BY <1>2, <1>8 DEF Heirs
  <1>10. Aside(t, s)
    BY <1>5, <1>8 DEF Aside
  <1> QED
    BY <1>8, <1>9, <1>10

----------------------------------------------------------------------------
(* What the page shows, and what it has heard and may yet show. *)

Own(facts, s) == facts.day >= s.since /\ facts.user = s.session.user

ViewsOwn(s) ==
  \A v \in Views : s.shown[v].entry.result.kind = "FACTS" => Own(s.shown[v].entry.result, s)

ListOwn(s) == ~s.list.due => \A n \in DOMAIN s.list.items : Own(s.list.items[n], s)

Heard(s) ==
  \A i \in DOMAIN s.reads :
    s.reads[i].key \in Keys /\ s.reads[i].reply.kind = "FACTS" => Own(s.reads[i].reply, s)

(* One read at most is heard for an entry, and the page under way is the next. *)
Lone(s) ==
  \A i, j \in DOMAIN s.reads :
    s.reads[i].key = s.reads[j].key /\ s.reads[i].key # Obsolete => i = j

IsNext(s, n) == ~s.list.due /\ s.list.task = n /\ Len(s.list.items) = n - 1

Paged(s) == \A n \in Pages : Pending(s, PageKey(n)) => IsNext(s, n)

Sound(s) ==
  /\ s \in PageStates /\ Slots(s) /\ ViewsOwn(s) /\ ListOwn(s) /\ Heard(s)
  /\ Lone(s) /\ Paged(s)

(* The generation of what is shown is the same. *)
Since(t, s) == t.since = s.since /\ t.session = s.session

LEMMA KeysApart ==
  /\ Obsolete \notin Keys /\ SessionKey \notin Keys
  /\ \A v \in Views : <<"view", v>> \in Keys
  /\ \A n \in Pages : PageKey(n) \in Keys
  /\ \A key \in Keys : key \in {PageKey(n) : n \in Pages} \/ (key[2] \in Views /\ key = <<"view", key[2]>>)
  <1>1. Obsolete \notin Keys
    BY DEF Obsolete, Keys, PageKey
  <1>2. SessionKey \notin Keys
    BY DEF SessionKey, Keys, PageKey
  <1>3. \A key \in Keys : key \in {PageKey(n) : n \in Pages} \/ (key[2] \in Views /\ key = <<"view", key[2]>>)
    BY DEF Keys
  <1> QED
    BY <1>1, <1>2, <1>3 DEF Keys

LEMMA PageParts ==
  ASSUME NEW s \in PageStates
  PROVE  /\ s.reads \in Seq(Reads) /\ s.active \in Nat
         /\ s.shown \in [Views -> ShownViews]
         /\ s.list \in Lists
         /\ s.known \in {NoDay} \cup 0 .. MaxDay /\ s.since \in 0 .. MaxDay
         /\ s.session.user \in Users \cup {"NOBODY"} /\ s.session.epoch \in Nat
  BY DEF PageStates

(* A queue of heirs shows, hears and awaits nothing it did not before. *)
LEMMA HeirsSound ==
  ASSUME NEW s, Sound(s), NEW t \in PageStates, Slots(t), Aside(t, s),
         NEW gone, Heirs(t.reads, s.reads, gone)
  PROVE  /\ Sound(t)
         /\ \A key \in Queueable : Pending(t, key) =>
              \E i \in DOMAIN s.reads : s.reads[i].key = key /\ i \notin gone
  <1>1. PICK from \in [DOMAIN t.reads -> DOMAIN s.reads] :
          /\ \A j, k \in DOMAIN t.reads : from[j] = from[k] => j = k
          /\ \A j \in DOMAIN t.reads :
               \/ t.reads[j].key = Obsolete /\ t.reads[j].reply = NoResult
               \/ /\ t.reads[j].key = s.reads[from[j]].key
                  /\ t.reads[j].reply = s.reads[from[j]].reply
                  /\ from[j] \notin gone
    BY DEF Heirs
  <1>2. Obsolete \notin Queueable /\ \A n \in Pages : PageKey(n) \in Queueable
    BY KeysApart DEF Queueable, Obsolete, SessionKey
  <1>3. Heard(t)
    BY <1>1, KeysApart DEF Sound, Heard, Aside, Own
  <1>4. ViewsOwn(t) /\ ListOwn(t)
    BY DEF Sound, ViewsOwn, ListOwn, Aside, Own
  <1>5. Lone(t)
    BY <1>1 DEF Sound, Lone
  <1>6. ASSUME NEW key \in Queueable, Pending(t, key)
        PROVE  \E i \in DOMAIN s.reads : s.reads[i].key = key /\ i \notin gone
    <2>1. PICK j \in DOMAIN t.reads : t.reads[j].key = key
      BY <1>6 DEF Pending
    <2> QED
      BY <1>1, <1>2, <2>1
  <1>7. Paged(t)
    BY <1>2, <1>6 DEF Sound, Paged, Pending, IsNext, Aside
  <1> QED
    BY <1>3, <1>4, <1>5, <1>6, <1>7 DEF Sound

LEMMA AbortSound ==
  ASSUME NEW s, Sound(s), NEW keys \in SUBSET Queueable
  PROVE  /\ Sound(Abort(s, keys)) /\ Aside(Abort(s, keys), s)
         /\ \A key \in keys : ~Pending(Abort(s, keys), key)
         /\ \A key \in Queueable : Pending(Abort(s, keys), key) => Pending(s, key)
  <1> DEFINE t == Abort(s, keys)
             gone == {i \in DOMAIN s.reads : s.reads[i].key \in keys}
  <1>1. s \in PageStates /\ Slots(s)
    BY DEF Sound
  <1>2. t \in PageStates /\ Slots(t) /\ Aside(t, s) /\ Heirs(t.reads, s.reads, gone)
    BY <1>1, AbortKeepsSlots
  <1> HIDE DEF t
  <1>3. /\ Sound(t)
        /\ \A key \in Queueable : Pending(t, key) =>
             \E i \in DOMAIN s.reads : s.reads[i].key = key /\ i \notin gone
    BY <1>2, HeirsSound
  <1>4. \A key \in Queueable : Pending(t, key) => Pending(s, key)
    BY <1>3 DEF Pending
  <1>5. \A key \in keys : ~Pending(t, key)
    BY <1>3
  <1> QED
    BY <1>2, <1>3, <1>4, <1>5 DEF t

LEMMA StartSound ==
  ASSUME NEW s, Sound(s), NEW key \in Queueable, NEW observing \in BOOLEAN,
         ~Pending(s, key), \A n \in Pages : key = PageKey(n) => IsNext(s, n)
  PROVE  Sound(Start(s, key, observing)) /\ Aside(Start(s, key, observing), s)
  <1> DEFINE t == Start(s, key, observing)
  <1>1. s \in PageStates /\ Slots(s) /\ s.reads \in Seq(Reads)
    BY PageParts DEF Sound
  <1>2. /\ t \in PageStates /\ Slots(t) /\ Aside(t, s)
        /\ DOMAIN t.reads = 1 .. Len(s.reads) + 1
        /\ \A i \in DOMAIN s.reads : t.reads[i] = s.reads[i]
        /\ t.reads[Len(s.reads) + 1].reply = NoResult
        /\ t.reads[Len(s.reads) + 1].key = key
    BY <1>1, StartKeepsSlots
  <1>3. Len(s.reads) \in Nat /\ DOMAIN s.reads = 1 .. Len(s.reads)
    BY <1>1, HeldOrQueued
  <1> HIDE DEF t
  <1>4. Heard(t)
    <2> SUFFICES ASSUME NEW i \in DOMAIN t.reads, t.reads[i].key \in Keys,
                        t.reads[i].reply.kind = "FACTS"
                 PROVE  Own(t.reads[i].reply, t)
      BY DEF Heard
    <2>1. i \in DOMAIN s.reads
      BY <1>2, <1>3 DEF NoResult, Result
    <2> QED
      BY <1>2, <2>1 DEF Sound, Heard, Aside, Own
  <1>5. ViewsOwn(t) /\ ListOwn(t)
    BY <1>2 DEF Sound, ViewsOwn, ListOwn, Aside, Own
  <1>6. \A i \in DOMAIN t.reads : i \in DOMAIN s.reads \/ t.reads[i].key = key
    BY <1>2, <1>3
  <1>7. Lone(t)
    <2> SUFFICES ASSUME NEW i \in DOMAIN t.reads, NEW j \in DOMAIN t.reads,
                        t.reads[i].key = t.reads[j].key, t.reads[i].key # Obsolete
                 PROVE  i = j
      BY DEF Lone
    <2>1. \A k \in DOMAIN s.reads : t.reads[k].key = s.reads[k].key /\ s.reads[k].key # key
      BY <1>2 DEF Pending
    <2>2. CASE i \in DOMAIN s.reads /\ j \in DOMAIN s.reads
      BY <2>1, <2>2 DEF Sound, Lone
    <2>3. CASE i \notin DOMAIN s.reads /\ j \notin DOMAIN s.reads
      BY <1>2, <1>3, <2>3
    <2> QED
      BY <1>6, <2>1, <2>2, <2>3
  <1>8. Paged(t)
    <2> SUFFICES ASSUME NEW n \in Pages, Pending(t, PageKey(n)) PROVE IsNext(t, n)
      BY DEF Paged
    <2>1. PICK i \in DOMAIN t.reads : t.reads[i].key = PageKey(n)
      BY DEF Pending
    <2>2. IsNext(s, n)
      BY <1>2, <1>6, <2>1 DEF Sound, Paged, Pending
    <2> QED
      BY <1>2, <2>2 DEF IsNext, Aside
  <1> QED
    BY <1>2, <1>4, <1>5, <1>7, <1>8 DEF Sound, t

LEMMA ReleaseSound ==
  ASSUME NEW s, Sound(s), NEW i \in Held(s.reads)
  PROVE  /\ Sound(Release(s, i)) /\ Aside(Release(s, i), s)
         /\ s.reads[i].key \in Queueable => ~Pending(Release(s, i), s.reads[i].key)
         /\ \A key \in Queueable : Pending(Release(s, i), key) => Pending(s, key)
  <1> DEFINE t == Release(s, i)
  <1>1. s \in PageStates /\ Slots(s)
    BY DEF Sound
  <1>2. t \in PageStates /\ Slots(t) /\ Aside(t, s) /\ Heirs(t.reads, s.reads, {i})
    BY <1>1, ReleaseKeepsSlots
  <1> HIDE DEF t
  <1>3. /\ Sound(t)
        /\ \A key \in Queueable : Pending(t, key) =>
             \E j \in DOMAIN s.reads : s.reads[j].key = key /\ j \notin {i}
    BY <1>2, HeirsSound
  <1>4. Obsolete \notin Queueable
    BY KeysApart DEF Queueable, Obsolete, SessionKey
  <1>5. ASSUME s.reads[i].key \in Queueable PROVE ~Pending(t, s.reads[i].key)
    BY <1>3, <1>4, <1>5 DEF Sound, Lone, Held
  <1>6. \A key \in Queueable : Pending(t, key) => Pending(s, key)
    BY <1>3 DEF Pending
  <1> QED
    BY <1>2, <1>3, <1>5, <1>6 DEF t

(* The same reads for the same list are as lone and as much in order. *)
LEMMA SameKeys ==
  ASSUME NEW s, Lone(s), Paged(s), NEW t, t.list = s.list, DOMAIN t.reads = DOMAIN s.reads,
         \A i \in DOMAIN s.reads : t.reads[i].key = s.reads[i].key
  PROVE  Lone(t) /\ Paged(t) /\ \A key : Pending(t, key) <=> Pending(s, key)
  <1>1. \A key : Pending(t, key) <=> Pending(s, key)
    BY DEF Pending
  <1>2. Lone(t)
    BY DEF Lone
  <1>3. Paged(t)
    BY <1>1 DEF Paged, IsNext
  <1> QED
    BY <1>1, <1>2, <1>3

LEMMA AlikeSound ==
  ASSUME NEW s, Sound(s), NEW t \in PageStates,
         t.reads = s.reads, t.active = s.active, t.shown = s.shown, t.list = s.list,
         t.since = s.since, t.session = s.session
  PROVE  Sound(t)
  <1>1. Slots(t) /\ ViewsOwn(t) /\ ListOwn(t) /\ Heard(t)
    BY DEF Sound, Slots, Counted, ViewsOwn, ListOwn, Heard, Own
  <1>2. Lone(t) /\ Paged(t)
    BY SameKeys DEF Sound
  <1> QED
    BY <1>1, <1>2 DEF Sound

(* The page under way is one: once its read is over, none is. *)
LEMMA OnePageUnderWay ==
  ASSUME NEW s, Sound(s), NEW t, NEW key \in {PageKey(n) : n \in Pages},
         Pending(s, key), ~Pending(t, key),
         \A k \in Queueable : Pending(t, k) => Pending(s, k)
  PROVE  \A n \in Pages : ~Pending(t, PageKey(n))
  <1>1. PICK m \in Pages : key = PageKey(m)
    OBVIOUS
  <1> SUFFICES ASSUME NEW n \in Pages, Pending(t, PageKey(n)) PROVE FALSE
    OBVIOUS
  <1>2. PageKey(n) \in Queueable
    BY KeysApart DEF Queueable
  <1>3. IsNext(s, n) /\ IsNext(s, m)
    BY <1>1, <1>2 DEF Sound, Paged
  <1>4. n = m
    BY <1>3 DEF IsNext
  <1> QED
    BY <1>1, <1>4

(* Dispatches that say nothing any more keep slots and replies. *)
Hushed(new, old) ==
  /\ DOMAIN new = DOMAIN old
  /\ \A i \in DOMAIN old : new[i] = old[i] \/ new[i] = [old[i] EXCEPT !.observing = FALSE]

LEMMA HushSound ==
  ASSUME NEW s, Sound(s), NEW day \in {NoDay} \cup 0 .. MaxDay,
         NEW reads, reads = [i \in DOMAIN s.reads |-> reads[i]], Hushed(reads, s.reads)
  PROVE  LET t == [s EXCEPT !.known = day, !.reads = reads]
         IN  Sound(t) /\ Since(t, s) /\ \A key : Pending(t, key) <=> Pending(s, key)
  <1> DEFINE t == [s EXCEPT !.known = day, !.reads = reads]
  <1>1. s \in PageStates /\ s.reads \in Seq(Reads)
    BY PageParts DEF Sound
  <1>2. /\ Len(s.reads) \in Nat /\ DOMAIN s.reads = 1 .. Len(s.reads)
        /\ \A i \in DOMAIN s.reads : s.reads[i] \in Reads
    BY <1>1, HeldOrQueued
  <1>3. \A i \in DOMAIN s.reads :
          /\ reads[i] \in Reads /\ reads[i].key = s.reads[i].key
          /\ reads[i].phase = s.reads[i].phase /\ reads[i].reply = s.reads[i].reply
    BY ZenonT(30), <1>2 DEF Hushed, Reads
  <1>4. reads \in [1 .. Len(s.reads) -> Reads]
    BY <1>2, <1>3
  <1>5. reads \in Seq(Reads)
    BY <1>2, <1>4, SeqDef
  <1>6. DOMAIN reads = DOMAIN s.reads /\ Len(reads) = Len(s.reads)
    BY <1>2, <1>4, <1>5, LenProperties
  <1>7. /\ t \in PageStates /\ t.reads = reads /\ t.active = s.active /\ t.shown = s.shown
        /\ t.list = s.list /\ t.since = s.since /\ t.session = s.session
    BY <1>1, <1>5 DEF PageStates
  <1>8. Held(reads) = Held(s.reads)
    BY <1>3, <1>6 DEF Held
  <1> HIDE DEF t
  <1>9. Slots(t)
    BY <1>6, <1>7, <1>8 DEF Sound, Slots, Counted
  <1>10. Heard(t)
    BY ZenonT(30), <1>3, <1>6, <1>7 DEF Sound, Heard, Own
  <1>11. ViewsOwn(t) /\ ListOwn(t)
    BY <1>7 DEF Sound, ViewsOwn, ListOwn, Own
  <1>12. Lone(t) /\ Paged(t) /\ \A key : Pending(t, key) <=> Pending(s, key)
    BY <1>3, <1>6, <1>7, SameKeys DEF Sound
  <1> QED
    BY <1>7, <1>9, <1>10, <1>11, <1>12 DEF Sound, Since, t

LEMMA RegisterSound ==
  ASSUME NEW s, Sound(s), NEW day \in {NoDay} \cup 0 .. MaxDay
  PROVE  Sound(Register(s, day)) /\ Since(Register(s, day), s)
  <1> DEFINE reads == [i \in DOMAIN s.reads |-> [s.reads[i] EXCEPT !.observing = FALSE]]
  <1>1. Hushed(reads, s.reads) /\ reads = [i \in DOMAIN s.reads |-> reads[i]]
    BY DEF Hushed
  <1>2. Register(s, day) = [s EXCEPT !.known = day, !.reads = reads]
    BY DEF Register
  <1> HIDE DEF reads
  <1> DEFINE t == [s EXCEPT !.known = day, !.reads = reads]
  <1>3. Sound(t) /\ Since(t, s)
    BY <1>1, HushSound
  <1> QED
    BY <1>2, <1>3

LEMMA ToldSound ==
  ASSUME NEW s, Sound(s), NEW i, NEW day \in {NoDay} \cup 0 .. MaxDay
  PROVE  /\ Sound(Told(s, i, day)) /\ Since(Told(s, i, day), s)
         /\ \A key : Pending(Told(s, i, day), key) <=> Pending(s, key)
  <1> DEFINE reads == [j \in DOMAIN s.reads |->
                         IF j < i THEN [s.reads[j] EXCEPT !.observing = FALSE] ELSE s.reads[j]]
  <1>1. Hushed(reads, s.reads) /\ reads = [j \in DOMAIN s.reads |-> reads[j]]
    BY DEF Hushed
  <1>2. Told(s, i, day) = [s EXCEPT !.known = day, !.reads = reads]
    BY DEF Told
  <1> HIDE DEF reads
  <1> DEFINE t == [s EXCEPT !.known = day, !.reads = reads]
  <1>3. Sound(t) /\ Since(t, s) /\ \A key : Pending(t, key) <=> Pending(s, key)
    BY <1>1, HushSound
  <1> QED
    BY <1>2, <1>3

----------------------------------------------------------------------------
(* What the handlers of a page do keeps it sound. *)

Entries == [result : Results, previous : Results, loading : BOOLEAN]

LEMMA NoFacts ==
  /\ NoResult \in Results /\ NoResult.kind # "FACTS"
  /\ Failed \in Results /\ Failed.kind # "FACTS"
  /\ Refused \in Results /\ Refused.kind # "FACTS"
  BY ReadsAssumption DEF NoResult, Failed, Refused, Result, Results

LEMMA NewList ==
  ASSUME NEW list \in Lists
  PROVE  /\ [list EXCEPT !.due = TRUE, !.task = 0] \in Lists
         /\ [list EXCEPT !.due = TRUE, !.task = 0].due
         /\ \A items \in Seq(Results) :
              /\ [list EXCEPT !.task = 0, !.items = items] \in Lists
              /\ [list EXCEPT !.task = 0, !.items = items].due = list.due
              /\ [list EXCEPT !.task = 0, !.items = items].items = items
  <1>1. 0 \in 0 .. LastPage
    BY ReadsAssumption
  <1> QED
    BY <1>1 DEF Lists

LEMMA LoadingShowsNothing ==
  ASSUME NEW entry \in Entries
  PROVE  Loading(entry) \in Entries /\ Loading(entry).result = NoResult
  BY NoFacts DEF Loading, Entries

(* Any change of what is shown that shows only facts of the generation. *)
LEMMA ShowSound ==
  ASSUME NEW s, Sound(s), NEW shown \in [Views -> ShownViews],
         \A v \in Views : shown[v].entry.result.kind = "FACTS" => Own(shown[v].entry.result, s)
  PROVE  LET t == [s EXCEPT !.shown = shown]
         IN  Sound(t) /\ Since(t, s) /\ t.known = s.known /\ t.shown = shown
  <1> DEFINE t == [s EXCEPT !.shown = shown]
  <1>1. s \in PageStates
    BY DEF Sound
  <1>2. /\ t \in PageStates /\ t.shown = shown /\ t.reads = s.reads /\ t.active = s.active
        /\ t.list = s.list /\ t.since = s.since /\ t.session = s.session /\ t.known = s.known
    BY <1>1 DEF PageStates
  <1> HIDE DEF t
  <1>3. Slots(t) /\ ViewsOwn(t) /\ ListOwn(t) /\ Heard(t)
    BY <1>2 DEF Sound, Slots, Counted, ViewsOwn, ListOwn, Heard, Own
  <1>4. Lone(t) /\ Paged(t)
    BY <1>2, SameKeys DEF Sound
  <1> QED
    BY <1>2, <1>3, <1>4 DEF Sound, Since, t

LEMMA PublishSound ==
  ASSUME NEW s, Sound(s), NEW v \in Views, NEW entry \in Entries,
         entry.result.kind = "FACTS" => Own(entry.result, s)
  PROVE  Sound(Publish(s, v, entry)) /\ Since(Publish(s, v, entry), s)
  <1> DEFINE shown == [s.shown EXCEPT ![v] = Rendered(@, v, entry)]
             next == [s EXCEPT !.shown = shown]
             t == Publish(s, v, entry)
  <1>1. s \in PageStates /\ s.shown \in [Views -> ShownViews]
    BY PageParts DEF Sound
  <1>2. Rendered(s.shown[v], v, entry) \in ShownViews /\ Rendered(s.shown[v], v, entry).entry = entry
    BY <1>1 DEF Rendered, ShownViews, Entries
  <1>3. shown \in [Views -> ShownViews]
    BY <1>1, <1>2
  <1>4. \A w \in Views : shown[w].entry.result.kind = "FACTS" => Own(shown[w].entry.result, s)
    BY <1>1, <1>2 DEF Sound, ViewsOwn
  <1> HIDE DEF shown
  <1>5. Sound(next) /\ Since(next, s)
    BY <1>3, <1>4, ShowSound
  <1>6. next = [s EXCEPT !.shown[v] = Rendered(@, v, entry)]
    BY DEF shown
  <1> HIDE DEF next
  <1>7. /\ entry.result.kind = "FACTS" => entry.result.day \in {NoDay} \cup 0 .. MaxDay
        /\ entry.previous.day \in {NoDay} \cup 0 .. MaxDay
        /\ NoDay \in {NoDay} \cup 0 .. MaxDay
    BY DEF Entries, Results
  <1>8. t = next \/ \E day \in {NoDay} \cup 0 .. MaxDay : t = Register(next, day)
    BY <1>6, <1>7 DEF Publish
  <1>9. CASE t = next
    BY <1>5, <1>9
  <1>10. ASSUME NEW day \in {NoDay} \cup 0 .. MaxDay, t = Register(next, day)
         PROVE  Sound(t) /\ Since(t, s)
    <2>1. Sound(Register(next, day)) /\ Since(Register(next, day), next)
      BY <1>5, RegisterSound
    <2> QED
      BY <1>5, <1>10, <2>1 DEF Since
  <1> QED
    BY <1>8, <1>9, <1>10

LEMMA FetchSound ==
  ASSUME NEW s, Sound(s), NEW v \in Views, NEW retry \in BOOLEAN
  PROVE  Sound(Fetch(s, v, retry)) /\ Since(Fetch(s, v, retry), s)
  <1> DEFINE key == <<"view", v>>
             began == Abort(s, {key})
             started == Start(began, key, began.known # NoDay)
             entry == Loading(s.shown[v].entry)
  <1>1. key \in Queueable /\ \A n \in Pages : key # PageKey(n)
    BY KeysApart DEF Queueable, PageKey
  <1>2. s.shown[v].entry \in Entries
    BY PageParts DEF Sound, ShownViews, Entries
  <1> HIDE DEF key
  <1>3. Sound(began) /\ Aside(began, s) /\ ~Pending(began, key)
    BY <1>1, AbortSound
  <1> HIDE DEF began
  <1>4. Sound(started) /\ Aside(started, began)
    BY <1>1, <1>3, StartSound
  <1>5. entry \in Entries /\ entry.result.kind # "FACTS"
    BY <1>2, LoadingShowsNothing, NoFacts
  <1> HIDE DEF started, entry
  <1>6. Sound(Publish(started, v, entry)) /\ Since(Publish(started, v, entry), started)
    BY <1>4, <1>5, PublishSound
  <1>7. Since(Publish(started, v, entry), s)
    BY <1>3, <1>4, <1>6 DEF Since, Aside
  <1>8. Fetch(s, v, retry) \in {s, Publish(started, v, entry)}
    BY DEF Fetch, started, entry, began, key
  <1> QED
    BY <1>6, <1>7, <1>8 DEF Since

(* A list that keeps only pages of the generation. *)
LEMMA ListSound ==
  ASSUME NEW s, Sound(s),
         NEW list \in Lists,
         ~list.due => \A n \in DOMAIN list.items : Own(list.items[n], s),
         \A n \in Pages : ~Pending(s, PageKey(n))
  PROVE  LET t == [s EXCEPT !.list = list]
         IN  Sound(t) /\ Since(t, s) /\ t.reads = s.reads /\ t.list = list
  <1> DEFINE t == [s EXCEPT !.list = list]
  <1>1. s \in PageStates
    BY DEF Sound
  <1>2. /\ t \in PageStates /\ t.shown = s.shown /\ t.reads = s.reads /\ t.active = s.active
        /\ t.list = list /\ t.since = s.since /\ t.session = s.session
    BY <1>1 DEF PageStates
  <1> HIDE DEF t
  <1>3. Slots(t) /\ ViewsOwn(t) /\ ListOwn(t) /\ Heard(t)
    BY <1>2 DEF Sound, Slots, Counted, ViewsOwn, ListOwn, Heard, Own
  <1>4. Lone(t) /\ Paged(t)
    BY <1>2 DEF Sound, Lone, Paged, Pending
  <1> QED
    BY <1>2, <1>3, <1>4 DEF Sound, Since, t

LEMMA LoadSound ==
  ASSUME NEW s, Sound(s), NEW n \in Pages, s.list.due => n = 1,
         n # 1 => Len(s.list.items) = n - 1
  PROVE  Sound(Load(s, n)) /\ Since(Load(s, n), s)
  <1> DEFINE keys == {PageKey(m) : m \in Pages}
             began == Abort(s, keys)
             list == [due |-> FALSE, task |-> n, items |-> IF n = 1 THEN <<>> ELSE s.list.items]
             listed == [began EXCEPT !.list = list]
             started == Start(listed, PageKey(n), listed.known # NoDay)
  <1>1. keys \in SUBSET Queueable /\ PageKey(n) \in Queueable /\ \A m \in Pages : PageKey(m) \in keys
    BY KeysApart DEF Queueable
  <1>2. PageKey(n) \in keys /\ \A m \in Pages : PageKey(n) = PageKey(m) => m = n
    BY DEF PageKey
  <1> HIDE DEF keys
  <1>3. Sound(began) /\ Aside(began, s) /\ \A key \in keys : ~Pending(began, key)
    BY <1>1, AbortSound
  <1> HIDE DEF began
  <1>4. /\ s.list.items \in Seq(Results) /\ <<>> \in Seq(Results) /\ Len(<<>>) = 0
        /\ s.list.due \in BOOLEAN
    BY PageParts, EmptySeq DEF Sound, Lists
  <1>5. list \in Lists /\ ~list.due /\ list.task = n
    BY <1>4, ReadsAssumption DEF Pages, Lists
  <1>6. \A m \in DOMAIN list.items : Own(list.items[m], began)
    <2>1. CASE n = 1
      BY <2>1
    <2>2. CASE n # 1
      BY <1>3, <1>4, <2>2 DEF Sound, ListOwn, Own, Aside
    <2> QED
      BY <2>1, <2>2
  <1>7. Len(list.items) = n - 1
    BY <1>4 DEF Pages
  <1> HIDE DEF list
  <1>8. Sound(listed) /\ Since(listed, began) /\ listed.reads = began.reads /\ listed.list = list
    BY <1>1, <1>3, <1>5, <1>6, ListSound
  <1>9. ~Pending(listed, PageKey(n)) /\ \A m \in Pages : PageKey(n) = PageKey(m) => IsNext(listed, m)
    BY <1>2, <1>3, <1>5, <1>7, <1>8 DEF Pending, IsNext
  <1>10. began \in PageStates
    BY <1>3 DEF Sound
  <1>11. Load(s, n) = started
    <2>1. /\ listed.known = began.known /\ listed.active = began.active
          /\ listed.reads = began.reads
      BY <1>10 DEF PageStates
    <2> DEFINE now == began.active < maximumConcurrentReads
               read == [key |-> PageKey(n), phase |-> IF now THEN "SENT" ELSE "WAITING",
                        observing |-> began.known # NoDay, reply |-> NoResult]
               reads == Append(began.reads, read)
               active == IF now THEN began.active + 1 ELSE began.active
    <2>2. started = [listed EXCEPT !.reads = reads, !.active = active]
      BY <2>1 DEF Start
    <2>3. Load(s, n) = [[began EXCEPT !.reads = reads, !.active = active] EXCEPT !.list = list]
      BY DEF Load, Start, began, keys, list
    <2> HIDE DEF reads, active, started
    <2> QED
      BY <1>10, <2>2, <2>3 DEF PageStates
  <1> HIDE DEF listed
  <1>12. Sound(started) /\ Aside(started, listed)
    BY <1>1, <1>8, <1>9, StartSound
  <1> QED
    BY <1>3, <1>8, <1>11, <1>12 DEF Since, Aside

(* An abort of all reads of the cache leaves no reply to hear. *)
LEMMA AbortedHearNothing ==
  ASSUME NEW s, Sound(s)
  PROVE  LET t == Abort(s, Keys)
         IN  /\ t \in PageStates /\ Slots(t) /\ Lone(t)
             /\ \A n \in DOMAIN t.reads : t.reads[n].key \notin Keys
             /\ \A n \in Pages : ~Pending(t, PageKey(n))
  <1> DEFINE t == Abort(s, Keys)
  <1>1. Keys \in SUBSET Queueable
    BY DEF Queueable
  <1>2. Sound(t) /\ \A key \in Keys : ~Pending(t, key)
    BY <1>1, AbortSound
  <1> HIDE DEF t
  <1>3. \A n \in DOMAIN t.reads : t.reads[n].key \notin Keys
    BY <1>2 DEF Pending
  <1>4. \A n \in Pages : ~Pending(t, PageKey(n))
    BY <1>2, KeysApart
  <1> QED
    BY <1>2, <1>3, <1>4 DEF Sound, t

LEMMA InvalidateSound ==
  ASSUME NEW s, Sound(s), service.day \in 0 .. MaxDay
  PROVE  Sound(Invalidate(s)) /\ Invalidate(s).since = service.day
  <1> DEFINE u == Abort(s, Keys)
             shown == [v \in Views |-> Rendered(u.shown[v], v, Loading(u.shown[v].entry))]
             list == [u.list EXCEPT !.due = TRUE, !.task = 0]
             t == Invalidate(s)
  <1>1. /\ u \in PageStates /\ Slots(u) /\ Lone(u)
        /\ \A n \in DOMAIN u.reads : u.reads[n].key \notin Keys
        /\ \A n \in Pages : ~Pending(u, PageKey(n))
    BY AbortedHearNothing
  <1> HIDE DEF u
  <1>2. /\ u.shown \in [Views -> ShownViews]
        /\ u.list \in Lists
    BY <1>1, PageParts
  <1>3. ASSUME NEW v \in Views
        PROVE  /\ Rendered(u.shown[v], v, Loading(u.shown[v].entry)) \in ShownViews
               /\ Rendered(u.shown[v], v, Loading(u.shown[v].entry)).entry.result = NoResult
    <2>1. u.shown[v].entry \in Entries
      BY <1>2 DEF ShownViews, Entries
    <2>2. Loading(u.shown[v].entry) \in Entries /\ Loading(u.shown[v].entry).result = NoResult
      BY <2>1, LoadingShowsNothing
    <2> QED
      BY <1>2, <2>2 DEF Rendered, ShownViews, Entries
  <1>4. shown \in [Views -> ShownViews] /\ \A v \in Views : shown[v].entry.result = NoResult
    BY <1>3
  <1>5. /\ list \in Lists
        /\ list.due
    BY <1>2, NewList
  <1>6. t = [u EXCEPT !.shown = shown, !.list = list, !.since = service.day]
    BY DEF Invalidate, u
  <1> HIDE DEF shown, list, t
  <1>7. /\ t \in PageStates /\ t.reads = u.reads /\ t.active = u.active /\ t.shown = shown
        /\ t.list = list /\ t.since = service.day
    BY <1>1, <1>4, <1>5, <1>6 DEF PageStates
  <1>8. Slots(t) /\ ViewsOwn(t) /\ ListOwn(t) /\ Heard(t)
    BY <1>1, <1>4, <1>5, <1>7, NoFacts DEF Slots, Counted, ViewsOwn, ListOwn, Heard
  <1>9. Lone(t) /\ Paged(t)
    BY <1>1, <1>7 DEF Lone, Paged, Pending
  <1> QED
    BY <1>7, <1>8, <1>9 DEF Sound, t

LEMMA NextEpochSound ==
  ASSUME NEW s, Sound(s), service.day \in 0 .. MaxDay,
         NEW kind \in {"LOADING", "ANONYMOUS", "AUTHENTICATED", "FAILURE"},
         NEW user \in Users \cup {"NOBODY"}
  PROVE  Sound(NextEpoch(s, kind, user)) /\ NextEpoch(s, kind, user).since = service.day
  <1> DEFINE u == Abort(s, Keys)
             shown == [v \in Views |-> Fresh]
             list == [u.list EXCEPT !.due = TRUE, !.task = 0]
             session == [kind |-> kind, user |-> user, epoch |-> u.session.epoch + 1]
             t == NextEpoch(s, kind, user)
  <1>1. /\ u \in PageStates /\ Slots(u) /\ Lone(u)
        /\ \A n \in DOMAIN u.reads : u.reads[n].key \notin Keys
        /\ \A n \in Pages : ~Pending(u, PageKey(n))
    BY AbortedHearNothing
  <1> HIDE DEF u
  <1>2. /\ u.list \in Lists
        /\ u.session.epoch \in Nat
    BY <1>1, PageParts
  <1>3. shown \in [Views -> ShownViews] /\ \A v \in Views : shown[v].entry.result = NoResult
    BY NoFacts DEF Fresh, empty, ShownViews
  <1>4. /\ list \in Lists
        /\ list.due
    BY <1>2, NewList
  <1>5. session \in [kind : {"LOADING", "ANONYMOUS", "AUTHENTICATED", "FAILURE"},
                     user : Users \cup {"NOBODY"}, epoch : Nat]
    BY <1>2
  <1>6. t = [u EXCEPT !.session = session, !.shown = shown, !.list = list, !.known = NoDay,
                      !.since = service.day]
    BY DEF NextEpoch, u
  <1> HIDE DEF shown, list, session, t
  <1>7. /\ t \in PageStates /\ t.reads = u.reads /\ t.active = u.active /\ t.shown = shown
        /\ t.list = list /\ t.since = service.day
    BY <1>1, <1>3, <1>4, <1>5, <1>6 DEF PageStates
  <1>8. Slots(t) /\ ViewsOwn(t) /\ ListOwn(t) /\ Heard(t)
    BY <1>1, <1>3, <1>4, <1>7, NoFacts DEF Slots, Counted, ViewsOwn, ListOwn, Heard
  <1>9. Lone(t) /\ Paged(t)
    BY <1>1, <1>7 DEF Lone, Paged, Pending
  <1> QED
    BY <1>7, <1>8, <1>9 DEF Sound, t

(* A result reaches what asked for it: the session, the list or a view. *)
LEMMA DeliverSound ==
  ASSUME NEW s, Sound(s), service.day \in 0 .. MaxDay, s.since <= service.day,
         NEW key \in Queueable, NEW result \in Results,
         key \in Keys /\ result.kind = "FACTS" => Own(result, s),
         key \in {PageKey(n) : n \in Pages} => \A n \in Pages : ~Pending(s, PageKey(n))
  PROVE  Sound(Deliver(s, key, result)) /\ Deliver(s, key, result).since <= service.day
  <1>1. s \in PageStates /\ Slots(s) /\ s.shown \in [Views -> ShownViews]
        /\ s.list \in Lists
    BY PageParts DEF Sound
  <1>2. CASE key = SessionKey
    <2> DEFINE kind == IF result.kind # "FACTS" THEN "FAILURE"
                       ELSE IF result.user = "NOBODY" THEN "ANONYMOUS" ELSE "AUTHENTICATED"
    <2>1. Deliver(s, key, result) = NextEpoch(s, kind, result.user)
      BY <1>2 DEF Deliver, stateFor
    <2>2. /\ kind \in {"LOADING", "ANONYMOUS", "AUTHENTICATED", "FAILURE"}
          /\ result.user \in Users \cup {"NOBODY"}
      BY DEF Results
    <2> HIDE DEF kind
    <2>3. Sound(NextEpoch(s, kind, result.user)) /\ NextEpoch(s, kind, result.user).since = service.day
      BY <1>1, <2>2, NextEpochSound
    <2> QED
      BY <2>1, <2>3
  <1>3. CASE key # SessionKey /\ key \in {PageKey(n) : n \in Pages}
    <2> DEFINE list == fetchPage(s.list, result)
    <2>1. Deliver(s, key, result) = [s EXCEPT !.list = list]
      BY <1>3 DEF Deliver
    <2>2. key \in Keys
      BY <1>3, KeysApart
    <2>3. /\ Append(s.list.items, result) \in Seq(Results) /\ <<>> \in Seq(Results)
          /\ Len(s.list.items) \in Nat /\ DOMAIN s.list.items = 1 .. Len(s.list.items)
          /\ Len(Append(s.list.items, result)) = Len(s.list.items) + 1
          /\ \A n \in 1 .. Len(s.list.items) : Append(s.list.items, result)[n] = s.list.items[n]
          /\ Append(s.list.items, result)[Len(s.list.items) + 1] = result
      BY <1>1, AppendProperties, LenProperties, EmptySeq DEF Lists
    <2>4. DOMAIN Append(s.list.items, result) = 1 .. Len(s.list.items) + 1
      BY <2>3, LenProperties
    <2>5. /\ list \in Lists
          /\ list.due = s.list.due
          /\ list.items = IF result.kind = "FACTS" THEN Append(s.list.items, result)
                          ELSE IF result.kind = "REFUSED" THEN <<>> ELSE s.list.items
      <3> DEFINE items == IF result.kind = "FACTS" THEN Append(s.list.items, result)
                          ELSE IF result.kind = "REFUSED" THEN <<>> ELSE s.list.items
      <3>1. s.list.items \in Seq(Results)
        BY <1>1 DEF Lists
      <3>2. items \in Seq(Results)
        BY <2>3, <3>1
      <3>3. list = [s.list EXCEPT !.task = 0, !.items = items]
        BY DEF fetchPage
      <3> HIDE DEF items, list
      <3>4. list \in Lists /\ list.due = s.list.due /\ list.items = items
        BY <1>1, <3>2, <3>3, NewList
      <3> QED
        BY <3>4 DEF items
    <2>6. ~list.due => \A n \in DOMAIN list.items : Own(list.items[n], s)
      <3> SUFFICES ASSUME ~list.due PROVE \A n \in DOMAIN list.items : Own(list.items[n], s)
        OBVIOUS
      <3>1. \A n \in DOMAIN s.list.items : Own(s.list.items[n], s)
        BY <2>5 DEF Sound, ListOwn
      <3> HIDE DEF list
      <3>2. CASE result.kind = "FACTS"
        <4> DEFINE items == Append(s.list.items, result)
        <4>1. Own(result, s)
          BY <2>2, <3>2
        <4>2. list.items = items
          BY <2>5, <3>2
        <4>3. \A n \in 1 .. Len(s.list.items) + 1 :
                items[n] = IF n \in DOMAIN s.list.items THEN s.list.items[n] ELSE result
          <5> HIDE DEF items
          <5> QED
            BY <2>3 DEF items
        <4>4. DOMAIN items = 1 .. Len(s.list.items) + 1
          BY <2>4
        <4> HIDE DEF items
        <4> QED
          BY <3>1, <4>1, <4>2, <4>3, <4>4
      <3>3. CASE result.kind = "REFUSED"
        BY <2>5, <3>3
      <3>4. CASE result.kind \notin {"FACTS", "REFUSED"}
        BY <2>5, <3>1, <3>4
      <3> QED
        BY <3>2, <3>3, <3>4
    <2> HIDE DEF list
    <2>7. Sound([s EXCEPT !.list = list]) /\ Since([s EXCEPT !.list = list], s)
      BY <1>3, <2>5, <2>6, ListSound
    <2> QED
      BY <2>1, <2>7 DEF Since
  <1>4. CASE key # SessionKey /\ key \notin {PageKey(n) : n \in Pages}
    <2> DEFINE v == key[2]
               entry == [result |-> result, loading |-> FALSE,
                         previous |-> previousOutcome(result, s.shown[v].entry.previous)]
    <2>1. key \in Keys /\ v \in Views
      BY <1>4, KeysApart DEF Queueable
    <2>2. Deliver(s, key, result) = Publish(s, v, entry)
      BY <1>4 DEF Deliver
    <2>3. entry \in Entries /\ entry.result = result
      BY <1>1, <2>1, NoFacts DEF previousOutcome, Entries, ShownViews
    <2> HIDE DEF entry, v
    <2>4. Sound(Publish(s, v, entry)) /\ Since(Publish(s, v, entry), s)
      BY <2>1, <2>3, PublishSound
    <2> QED
      BY <2>2, <2>4 DEF Since
  <1> QED
    BY <1>2, <1>3, <1>4

----------------------------------------------------------------------------
(* The inductive invariant. *)

Services == [day : 0 .. MaxDay, user : Users \cup {"NOBODY"}]

IInv == service \in Services /\ Sound(page) /\ page.since <= service.day

LEMMA InitEstablishes == Init => IInv
  <1> SUFFICES ASSUME Init PROVE IInv
    OBVIOUS
  <1> DEFINE first == [key |-> SessionKey, phase |-> "SENT", observing |-> FALSE, reply |-> NoResult]
             reads == <<first>>
  <1>1. first \in Reads
    BY NoFacts DEF Reads, Phases
  <1>2. reads \in Seq(Reads) /\ Len(reads) = 1 /\ reads[1] = first /\ DOMAIN reads = {1}
    BY <1>1
  <1>3. Held(reads) = {1}
    BY <1>2 DEF Held
  <1>4. Cardinality(Held(reads)) = 1
    BY <1>3, FS_Singleton
  <1>5. NoList \in Lists /\ NoList.due
    BY ReadsAssumption, EmptySeq DEF NoList, Lists
  <1>6. Fresh \in ShownViews /\ Fresh.entry.result = NoResult
    BY NoFacts DEF Fresh, empty, ShownViews
  <1>7. page = [session |-> [kind |-> "LOADING", user |-> "NOBODY", epoch |-> 0],
                logout |-> FALSE, shown |-> [v \in Views |-> Fresh], list |-> NoList,
                reads |-> reads, active |-> 1, known |-> NoDay, since |-> 0, resumes |-> 0]
    BY DEF Init
  <1> HIDE DEF reads
  <1>8. page \in PageStates
    BY <1>2, <1>5, <1>6, <1>7, ReadsAssumption DEF PageStates
  <1>9. Slots(page)
    <2>1. page.reads = reads /\ page.active = 1
      BY <1>7
    <2>2. 1 <= maximumConcurrentReads
      BY ReadsAssumption
    <2>3. Cardinality(Held(page.reads)) = 1 /\ Len(page.reads) = 1
      BY <1>2, <1>4, <2>1
    <2> QED
      BY <2>1, <2>2, <2>3 DEF Slots, Counted
  <1>10. ViewsOwn(page) /\ ListOwn(page) /\ Heard(page)
    BY <1>2, <1>5, <1>6, <1>7, NoFacts DEF ViewsOwn, ListOwn, Heard
  <1>11. Lone(page) /\ Paged(page)
    BY <1>2, <1>7, KeysApart DEF Lone, Paged, Pending
  <1>12. service \in Services /\ page.since <= service.day
    BY <1>7, ReadsAssumption DEF Init, Services
  <1> QED
    BY <1>8, <1>9, <1>10, <1>11, <1>12 DEF IInv, Sound

LEMMA ServiceDay ==
  ASSUME IInv
  PROVE  service.day \in 0 .. MaxDay /\ service.user \in Users \cup {"NOBODY"}
  BY DEF IInv, Services

LEMMA RunEffectPreserves ==
  ASSUME IInv, NEW v \in Views, RunEffect(v)
  PROVE  IInv'
  <1> DEFINE shown == [page.shown EXCEPT ![v].due = FALSE,
                         ![v].seen = IF v \in Stable THEN page.shown[v].entry.loading ELSE @]
             ran == [page EXCEPT !.shown = shown]
  <1>1. Sound(page) /\ page.shown \in [Views -> ShownViews]
    BY PageParts DEF IInv, Sound
  <1>2. shown \in [Views -> ShownViews] /\ \A w \in Views : shown[w].entry = page.shown[w].entry
    BY <1>1 DEF ShownViews
  <1>3. \A w \in Views : shown[w].entry.result.kind = "FACTS" => Own(shown[w].entry.result, page)
    BY <1>1, <1>2 DEF Sound, ViewsOwn
  <1>4. ran = [page EXCEPT !.shown[v].due = FALSE,
                           !.shown[v].seen = IF v \in Stable THEN page.shown[v].entry.loading ELSE @]
    <2>1. page \in PageStates
      BY <1>1 DEF Sound
    <2> QED
      BY <1>1, <2>1 DEF PageStates, ShownViews
  <1> HIDE DEF shown
  <1>5. Sound(ran) /\ Since(ran, page)
    BY <1>1, <1>2, <1>3, ShowSound
  <1> HIDE DEF ran
  <1>6. Sound(Fetch(ran, v, FALSE)) /\ Since(Fetch(ran, v, FALSE), ran)
    BY <1>5, FetchSound
  <1>7. page' \in {ran, Fetch(ran, v, FALSE)} /\ service' = service
    BY <1>4 DEF RunEffect
  <1> QED
    BY <1>5, <1>6, <1>7 DEF IInv, Since

LEMMA ReloadPreserves ==
  ASSUME IInv, NEW v \in Views, Reload(v)
  PROVE  IInv'
  <1>1. Sound(Fetch(page, v, TRUE)) /\ Since(Fetch(page, v, TRUE), page)
    BY FetchSound DEF IInv
  <1> QED
    BY <1>1 DEF IInv, Reload, Since

LEMMA LoadFirstPreserves ==
  ASSUME IInv, LoadFirst
  PROVE  IInv'
  <1>1. 1 \in Pages
    BY ReadsAssumption DEF LoadFirst, Pages
  <1>2. Sound(Load(page, 1)) /\ Since(Load(page, 1), page)
    BY <1>1, LoadSound DEF IInv
  <1> QED
    BY <1>2 DEF IInv, LoadFirst, Since

LEMMA LoadMorePreserves ==
  ASSUME IInv, LoadMore
  PROVE  IInv'
  <1>1. PICK n \in Pages : n \in {1, Len(page.list.items) + 1} /\ page' = Load(page, n)
    BY DEF LoadMore
  <1>2. n # 1 => Len(page.list.items) = n - 1
    <2>1. Len(page.list.items) \in Nat
      BY PageParts, LenProperties DEF IInv, Sound, Lists
    <2> QED
      BY <1>1, <2>1
  <1>3. Sound(Load(page, n)) /\ Since(Load(page, n), page)
    BY <1>2, LoadSound DEF IInv, LoadMore
  <1> QED
    BY <1>1, <1>3 DEF IInv, LoadMore, Since

LEMMA RefreshPreserves ==
  ASSUME IInv, Refresh
  PROVE  IInv'
  <1>1. SessionKey \in Queueable /\ \A n \in Pages : SessionKey # PageKey(n)
    BY KeysApart DEF Queueable
  <1>2. Sound(Start(page, SessionKey, FALSE)) /\ Aside(Start(page, SessionKey, FALSE), page)
    BY <1>1, StartSound DEF IInv, Refresh
  <1> QED
    BY <1>2 DEF IInv, Refresh, Aside

(* A change of a flag or a counter of the page alone. *)
LEMMA LogoutPreserves ==
  ASSUME IInv, Logout
  PROVE  IInv'
  <1>1. page' = [page EXCEPT !.logout = TRUE] /\ service' = service /\ page \in PageStates
    BY DEF Logout, IInv, Sound
  <1>2. /\ page' \in PageStates /\ page'.reads = page.reads /\ page'.active = page.active
        /\ page'.shown = page.shown /\ page'.list = page.list /\ page'.since = page.since
        /\ page'.session = page.session
    BY <1>1 DEF PageStates
  <1>3. Sound(page')
    BY <1>2, AlikeSound DEF IInv
  <1> QED
    BY <1>1, <1>2, <1>3 DEF IInv

LEMMA LoggedOutPreserves ==
  ASSUME IInv, LoggedOut
  PROVE  IInv'
  <1>1. PICK confirmed \in BOOLEAN :
          page' = [NextEpoch(page, IF confirmed THEN "ANONYMOUS" ELSE "FAILURE", "NOBODY")
                     EXCEPT !.logout = FALSE]
    BY DEF LoggedOut
  <1> DEFINE t == NextEpoch(page, IF confirmed THEN "ANONYMOUS" ELSE "FAILURE", "NOBODY")
  <1>2. Sound(t) /\ t.since = service.day
    BY ServiceDay, NextEpochSound DEF IInv, Sound
  <1>3. service' \in Services /\ service'.day = service.day
    BY DEF LoggedOut, IInv, Services
  <1> HIDE DEF t
  <1>4. /\ page' \in PageStates /\ page'.reads = t.reads /\ page'.active = t.active
        /\ page'.shown = t.shown /\ page'.list = t.list /\ page'.since = t.since
        /\ page'.session = t.session
    BY <1>1, <1>2 DEF Sound, PageStates, t
  <1>5. Sound(page')
    BY <1>2, <1>4, AlikeSound
  <1> QED
    BY <1>2, <1>3, <1>4, <1>5, ServiceDay DEF IInv

LEMMA ResumedPreserves ==
  ASSUME IInv, Resumed
  PROVE  IInv'
  <1> DEFINE t == Invalidate(page)
  <1>1. Sound(t) /\ t.since = service.day
    BY ServiceDay, InvalidateSound DEF IInv, Sound
  <1>2. page' = [t EXCEPT !.resumes = @ + 1] /\ service' = service
    BY DEF Resumed
  <1> HIDE DEF t
  <1>3. /\ page' \in PageStates /\ page'.reads = t.reads /\ page'.active = t.active
        /\ page'.shown = t.shown /\ page'.list = t.list /\ page'.since = t.since
        /\ page'.session = t.session
    <2>1. t \in PageStates
      BY <1>1 DEF Sound
    <2>2. t.resumes + 1 \in Nat
      BY <2>1 DEF PageStates
    <2>3. page' = [t EXCEPT !.resumes = t.resumes + 1]
      BY <1>2
    <2>4. \A k \in Nat :
            LET p == [t EXCEPT !.resumes = k]
            IN  /\ p \in PageStates /\ p.reads = t.reads /\ p.active = t.active
                /\ p.shown = t.shown /\ p.list = t.list /\ p.since = t.since
                /\ p.session = t.session
      BY <2>1 DEF PageStates
    <2> QED
      BY <2>2, <2>3, <2>4
  <1>4. Sound(page')
    BY <1>1, <1>3, AlikeSound
  <1> QED
    BY <1>1, <1>2, <1>3, <1>4, ServiceDay DEF IInv, Services

LEMMA ElsewherePreserves ==
  ASSUME IInv, Elsewhere
  PROVE  IInv'
  <1>1. service' \in Services /\ service.day <= service'.day
    BY ReadsAssumption DEF Elsewhere, IInv, Services
  <1>2. page' = page
    BY DEF Elsewhere
  <1>3. page.since \in Int /\ service.day \in Int /\ service'.day \in Int
    BY <1>1, PageParts DEF IInv, Sound, Services
  <1>4. page.since <= service'.day
    BY <1>1, <1>3 DEF IInv
  <1> QED
    BY <1>1, <1>2, <1>4 DEF IInv

(* A read under way gets another phase or a reply. *)
LEMMA ReadMoves ==
  ASSUME NEW s, Sound(s), NEW i \in Held(s.reads), NEW r \in Reads,
         r.key = s.reads[i].key, r.phase # "WAITING",
         r.key \in Keys /\ r.reply.kind = "FACTS" => Own(r.reply, s)
  PROVE  LET t == [s EXCEPT !.reads = [s.reads EXCEPT ![i] = r]]
         IN  Sound(t) /\ Since(t, s)
  <1> DEFINE reads == [s.reads EXCEPT ![i] = r]
             t == [s EXCEPT !.reads = reads]
  <1>1. s \in PageStates /\ s.reads \in Seq(Reads)
    BY PageParts DEF Sound
  <1>2. /\ Len(s.reads) \in Nat /\ DOMAIN s.reads = 1 .. Len(s.reads)
        /\ i \in 1 .. Len(s.reads)
    BY <1>1, HeldOrQueued
  <1>3. /\ reads \in Seq(Reads) /\ Len(reads) = Len(s.reads)
        /\ \A j \in 1 .. Len(s.reads) : reads[j] = IF j = i THEN r ELSE s.reads[j]
    BY <1>1, <1>2, ExceptSeq
  <1>4. DOMAIN reads = DOMAIN s.reads
    OBVIOUS
  <1> HIDE DEF reads
  <1>5. Held(reads) = Held(s.reads)
    BY <1>2, <1>3, <1>4 DEF Held
  <1>6. /\ t \in PageStates /\ t.reads = reads /\ t.active = s.active /\ t.shown = s.shown
        /\ t.list = s.list /\ t.since = s.since /\ t.session = s.session
    BY <1>1, <1>3 DEF PageStates
  <1> HIDE DEF t
  <1>7. Slots(t)
    BY <1>3, <1>5, <1>6 DEF Sound, Slots, Counted
  <1>8. Heard(t)
    BY <1>2, <1>3, <1>4, <1>6 DEF Sound, Heard, Own
  <1>9. ViewsOwn(t) /\ ListOwn(t)
    BY <1>6 DEF Sound, ViewsOwn, ListOwn, Own
  <1>10. Lone(t) /\ Paged(t)
    BY <1>2, <1>3, <1>4, <1>6, SameKeys DEF Sound
  <1> QED
    BY <1>6, <1>7, <1>8, <1>9, <1>10 DEF Sound, Since, t, reads

LEMMA ReadOfPage ==
  ASSUME IInv, NEW i \in DOMAIN page.reads
  PROVE  /\ page.reads[i] \in Reads /\ Sound(page) /\ page \in PageStates
         /\ page.reads[i].phase # "WAITING" => i \in Held(page.reads)
  <1>1. Sound(page) /\ page \in PageStates /\ page.reads \in Seq(Reads)
    BY PageParts DEF IInv, Sound
  <1> QED
    BY <1>1, HeldOrQueued DEF Held

LEMMA ResumePreserves ==
  ASSUME IInv, NEW i \in DOMAIN page.reads, Resume(i)
  PROVE  IInv'
  <1> DEFINE r == [page.reads[i] EXCEPT !.phase = "AGAIN"]
             t == [page EXCEPT !.reads = [page.reads EXCEPT ![i] = r]]
  <1>1. page.reads[i] \in Reads /\ Sound(page) /\ page \in PageStates /\ i \in Held(page.reads)
    BY ReadOfPage DEF Resume
  <1>2. /\ r \in Reads /\ r.key = page.reads[i].key /\ r.phase = "AGAIN"
        /\ r.reply = page.reads[i].reply
    BY <1>1 DEF Reads, Phases
  <1>3. r.key \in Keys /\ r.reply.kind = "FACTS" => Own(r.reply, page)
    BY <1>1, <1>2 DEF Sound, Heard
  <1>4. page' = t /\ service' = service
    BY <1>1 DEF Resume, PageStates
  <1> HIDE DEF r
  <1>5. Sound(t) /\ Since(t, page)
    BY <1>1, <1>2, <1>3, ReadMoves
  <1> HIDE DEF t
  <1> QED
    BY <1>4, <1>5 DEF IInv, Since

LEMMA AnswerPreserves ==
  ASSUME IInv, NEW i \in DOMAIN page.reads, page.reads[i].key \in Queueable, Answer(i)
  PROVE  IInv'
  <1>1. /\ page.reads[i] \in Reads /\ Sound(page) /\ page \in PageStates
        /\ page.reads[i].phase \in {"SENT", "AGAIN"} /\ i \in Held(page.reads)
    BY ReadOfPage DEF Answer
  <1>2. /\ service.day \in 0 .. MaxDay /\ service.user \in Users \cup {"NOBODY"}
        /\ page.since <= service.day
    BY ServiceDay DEF IInv
  <1>3. ASSUME NEW reply \in Results, Answered(i, reply), service' = service,
               page.reads[i].key \in Keys /\ reply.kind = "FACTS" => Own(reply, page)
        PROVE  IInv'
    <2> DEFINE r == [page.reads[i] EXCEPT !.phase = "ANSWERED", !.reply = reply]
               t == [page EXCEPT !.reads = [page.reads EXCEPT ![i] = r]]
    <2>1. /\ r \in Reads /\ r.key = page.reads[i].key /\ r.phase = "ANSWERED"
          /\ r.reply = reply
      BY <1>1 DEF Reads, Phases
    <2>2. page' = t
      BY <1>1, <1>3 DEF Answered, PageStates
    <2> HIDE DEF r
    <2>3. Sound(t) /\ Since(t, page)
      BY <1>1, <1>3, <2>1, ReadMoves
    <2> HIDE DEF t
    <2> QED
      BY <1>3, <2>2, <2>3 DEF IInv, Since
  <1>4. service' = service
    BY DEF Answer
  <1>5. CASE page.reads[i].key = SessionKey /\ Answered(i, Result("FACTS", 0, service.user))
    <2>1. Result("FACTS", 0, service.user) \in Results
      BY <1>2, ReadsAssumption DEF Result, Results
    <2>2. page.reads[i].key \notin Keys
      BY <1>5, KeysApart
    <2> QED
      BY <1>3, <1>4, <1>5, <2>1, <2>2
  <1>6. CASE Answered(i, IF Authenticated /\ service.user = page.session.user
                         THEN Result("FACTS", service.day, service.user) ELSE Refused)
    <2> DEFINE reply == IF Authenticated /\ service.user = page.session.user
                        THEN Result("FACTS", service.day, service.user) ELSE Refused
    <2>1. reply \in Results
      BY <1>2, NoFacts DEF Result, Results
    <2>2. reply.kind = "FACTS" => Own(reply, page)
      BY <1>2, NoFacts DEF Result, Own
    <2> HIDE DEF reply
    <2>3. Answered(i, reply)
      BY <1>6 DEF reply
    <2> QED
      BY <1>3, <1>4, <2>1, <2>2, <2>3
  <1>7. CASE page' = [page EXCEPT !.reads[i].phase = "LIMITED"]
    <2> DEFINE r == [page.reads[i] EXCEPT !.phase = "LIMITED"]
               t == [page EXCEPT !.reads = [page.reads EXCEPT ![i] = r]]
    <2>1. /\ r \in Reads /\ r.key = page.reads[i].key /\ r.phase = "LIMITED"
          /\ r.reply = page.reads[i].reply
      BY <1>1 DEF Reads, Phases
    <2>2. r.key \in Keys /\ r.reply.kind = "FACTS" => Own(r.reply, page)
      BY <1>1, <2>1 DEF Sound, Heard
    <2>3. page' = t
      BY <1>1, <1>7 DEF PageStates
    <2> HIDE DEF r
    <2>4. Sound(t) /\ Since(t, page)
      BY <1>1, <2>1, <2>2, ReadMoves
    <2> HIDE DEF t
    <2> QED
      BY <1>4, <2>3, <2>4 DEF IInv, Since
  <1> QED
    BY <1>5, <1>6, <1>7 DEF Answer

LEMMA SettlePreserves ==
  ASSUME IInv, NEW i \in DOMAIN page.reads, page.reads[i].key \in Queueable, Settle(i)
  PROVE  IInv'
  <1> DEFINE r == page.reads[i]
             ended == Release(page, i)
             told == Told(ended, i, r.reply.day)
  <1>1. /\ r \in Reads /\ Sound(page) /\ i \in Held(page.reads)
        /\ service.day \in 0 .. MaxDay /\ page.since <= service.day /\ service' = service
    BY ReadOfPage, ServiceDay DEF Settle, IInv
  <1>2. /\ r.reply \in Results /\ r.reply.day \in {NoDay} \cup 0 .. MaxDay
        /\ r.key \in Keys /\ r.reply.kind = "FACTS" => Own(r.reply, page)
    BY <1>1 DEF Reads, Results, Sound, Heard
  <1>3. page' \in {Deliver(ended, r.key, r.reply), Deliver(told, r.key, r.reply), Invalidate(told)}
    BY DEF Settle
  <1>4. Sound(ended) /\ Since(ended, page) /\ ~Pending(ended, r.key)
        /\ \A key \in Queueable : Pending(ended, key) => Pending(page, key)
    BY <1>1, ReleaseSound DEF Aside, Since
  <1> HIDE DEF ended
  <1>5. Sound(told) /\ Since(told, page) /\ ~Pending(told, r.key)
        /\ \A key \in Queueable : Pending(told, key) => Pending(page, key)
    BY <1>2, <1>4, ToldSound DEF Since
  <1> HIDE DEF told
  <1>6. ASSUME NEW s, Sound(s), Since(s, page), ~Pending(s, r.key),
               \A key \in Queueable : Pending(s, key) => Pending(page, key)
        PROVE  Sound(Deliver(s, r.key, r.reply)) /\ Deliver(s, r.key, r.reply).since <= service.day
    <2>1. s.since <= service.day
      BY <1>1, <1>6 DEF Since
    <2>2. r.key \in Keys /\ r.reply.kind = "FACTS" => Own(r.reply, s)
      BY <1>2, <1>6 DEF Since, Own
    <2>3. r.key \in {PageKey(n) : n \in Pages} => \A n \in Pages : ~Pending(s, PageKey(n))
      <3>1. Pending(page, r.key)
        BY DEF Pending
      <3> HIDE DEF r
      <3> QED
        BY <1>1, <1>6, <3>1, OnePageUnderWay
    <2>4. r.key \in Queueable
      OBVIOUS
    <2> HIDE DEF r
    <2> QED
      BY <1>1, <1>2, <1>6, <2>1, <2>2, <2>3, <2>4, DeliverSound
  <1>7. Sound(Invalidate(told)) /\ Invalidate(told).since <= service.day
    <2>1. Sound(Invalidate(told)) /\ Invalidate(told).since = service.day
      BY <1>1, <1>5, InvalidateSound DEF Sound
    <2> QED
      BY <1>1, <2>1
  <1>8. Sound(page') /\ page'.since <= service.day
    <2> HIDE DEF r
    <2> QED
      BY <1>3, <1>4, <1>5, <1>6, <1>7
  <1> QED
    BY <1>1, <1>8 DEF IInv

LEMMA LosePreserves ==
  ASSUME IInv, NEW i \in DOMAIN page.reads, page.reads[i].key \in Queueable, Lose(i)
  PROVE  IInv'
  <1> DEFINE ended == Release(page, i)
             key == page.reads[i].key
  <1>1. /\ Sound(page) /\ i \in Held(page.reads)
        /\ service.day \in 0 .. MaxDay /\ page.since <= service.day /\ service' = service
        /\ page' = Deliver(ended, key, Failed)
    BY ReadOfPage, ServiceDay DEF Lose, IInv
  <1>2. /\ Sound(ended) /\ ended.since <= service.day /\ ~Pending(ended, key)
        /\ \A k \in Queueable : Pending(ended, k) => Pending(page, k)
    BY <1>1, ReleaseSound DEF Aside
  <1> HIDE DEF ended
  <1>3. key \in {PageKey(n) : n \in Pages} => \A n \in Pages : ~Pending(ended, PageKey(n))
    <2>1. Pending(page, key)
      BY DEF Pending
    <2> HIDE DEF key
    <2> QED
      BY <1>1, <1>2, <2>1, OnePageUnderWay
  <1>4. Sound(Deliver(ended, key, Failed)) /\ Deliver(ended, key, Failed).since <= service.day
    BY <1>1, <1>2, <1>3, NoFacts, DeliverSound
  <1> QED
    BY <1>1, <1>4 DEF IInv

LEMMA TimeOutPreserves ==
  ASSUME IInv, NEW i \in DOMAIN page.reads, page.reads[i].key \in Queueable, TimeOut(i)
  PROVE  IInv'
  <1> DEFINE key == page.reads[i].key
             ended == Abort(page, {key})
  <1>1. /\ Sound(page) /\ service.day \in 0 .. MaxDay /\ page.since <= service.day
        /\ service' = service /\ page' = Deliver(ended, key, Failed)
    BY ServiceDay DEF TimeOut, IInv
  <1>2. /\ Sound(ended) /\ ended.since <= service.day /\ ~Pending(ended, key)
        /\ \A k \in Queueable : Pending(ended, k) => Pending(page, k)
    BY <1>1, AbortSound DEF Aside
  <1> HIDE DEF ended
  <1>3. key \in {PageKey(n) : n \in Pages} => \A n \in Pages : ~Pending(ended, PageKey(n))
    <2>1. Pending(page, key)
      BY DEF Pending
    <2> HIDE DEF key
    <2> QED
      BY <1>1, <1>2, <2>1, OnePageUnderWay
  <1>4. Sound(Deliver(ended, key, Failed)) /\ Deliver(ended, key, Failed).since <= service.day
    BY <1>1, <1>2, <1>3, NoFacts, DeliverSound
  <1> QED
    BY <1>1, <1>4 DEF IInv

LEMMA DrainPreserves ==
  ASSUME IInv, NEW i \in DOMAIN page.reads, Drain(i)
  PROVE  IInv'
  <1>1. Sound(page) /\ i \in Held(page.reads) /\ page' = Release(page, i) /\ service' = service
    BY ReadOfPage DEF Drain
  <1>2. Sound(Release(page, i)) /\ Aside(Release(page, i), page)
    BY <1>1, ReleaseSound
  <1> QED
    BY <1>1, <1>2 DEF IInv, Aside

LEMMA NextPreserves == IInv /\ [Next]_vars => IInv'
  <1> SUFFICES ASSUME IInv, [Next]_vars PROVE IInv'
    OBVIOUS
  <1>1. CASE Elsewhere
    BY <1>1, ElsewherePreserves
  <1>2. CASE Person
    BY <1>2, RefreshPreserves, LogoutPreserves, LoadMorePreserves, ResumedPreserves,
       ReloadPreserves DEF Person
  <1>3. CASE Rendering
    BY <1>3, RunEffectPreserves DEF Rendering
  <1>4. CASE LoadFirst
    BY <1>4, LoadFirstPreserves
  <1>5. CASE LoggedOut
    BY <1>5, LoggedOutPreserves
  <1>6. CASE Draining
    BY <1>6, DrainPreserves DEF Draining
  <1>7. CASE \E key \in Keys \cup {SessionKey} : OfKey(key)
    <2>1. PICK key \in Queueable : OfKey(key)
      BY <1>7 DEF Queueable
    <2>2. PICK i \in DOMAIN page.reads :
            /\ page.reads[i].key = key
            /\ Answer(i) \/ Resume(i) \/ Settle(i) \/ Lose(i) \/ TimeOut(i)
      BY <2>1 DEF OfKey
    <2> QED
      BY <2>2, AnswerPreserves, ResumePreserves, SettlePreserves, LosePreserves, TimeOutPreserves
  <1>8. CASE UNCHANGED vars
    BY <1>8 DEF vars, IInv, Services
  <1> QED
    BY <1>1, <1>2, <1>3, <1>4, <1>5, <1>6, <1>7, <1>8 DEF Next

----------------------------------------------------------------------------
LEMMA InvariantHolds == Spec => []IInv
  BY InitEstablishes, NextPreserves, PTL DEF Spec

(* Service and page keep their types, for any users, views and bounds. *)
THEOREM TypeCorrect == Spec => []TypeOK
  <1>1. IInv => TypeOK
    <2> SUFFICES ASSUME IInv PROVE TypeOK
      OBVIOUS
    <2>1. page \in PageStates /\ service \in Services
      BY DEF IInv, Sound
    <2>2. \A i \in DOMAIN page.reads : page.reads[i] \in Reads
      BY <2>1, PageParts, HeldOrQueued
    <2> QED
      BY <2>1, <2>2 DEF TypeOK, PageStates, Services, ShownViews, Lists
  <1> QED
    BY <1>1, InvariantHolds, PTL

(* The admission of reads never counts a slot twice, gives one to more reads
   than the document allows or forgets one, and no read waits while one is
   free: whatever is aborted, retried, limited, lost or timed out
   (readAdmission.ts). *)
THEOREM SlotsHold == Spec => []SlotsAreHeld
  <1>1. IInv => SlotsAreHeld
    BY DEF IInv, Sound, Slots, Counted, SlotsAreHeld, Held
  <1> QED
    BY <1>1, InvariantHolds, PTL

(* No reply that was asked for before an invalidation or under an earlier
   session is shown after it, in a view or in a page of a list, for any users,
   views, days and number of pages (endpointCache.ts, useEndpointPage.ts). *)
THEOREM ShownFactsAreFresh == Spec => []ShownIsFresh
  <1>1. IInv => ShownIsFresh
    BY DEF IInv, Sound, ViewsOwn, ListOwn, Own, ShownIsFresh
  <1> QED
    BY <1>1, InvariantHolds, PTL

(* Of the reads for an entry one at most is heard, whatever is aborted, asked
   again or invalidated, and the page of a list under way is the one after the
   pages shown (endpointCache.ts, useEndpointPage.ts). *)
THEOREM RepliesKeepTheirPlace == Spec => []RepliesHaveOnePlace
  <1>1. IInv => RepliesHaveOnePlace
    BY DEF IInv, Sound, Lone, Paged, IsNext, RepliesHaveOnePlace
  <1> QED
    BY <1>1, InvariantHolds, PTL
=============================================================================
