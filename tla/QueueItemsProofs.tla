-------------------------- MODULE QueueItemsProofs --------------------------
(* Lemmas about the statements of QueueItems.                              *)
EXTENDS QueueItems, FiniteSetTheorems, WellFoundedInduction, TLAPS

(* The statements on the table keep its columns well typed.                *)
LEMMA RowsTyped ==
  ASSUME RowsTypeOK, NEW i \in Items, NEW new, NEW seenRow \in Snapshot,
         \/ Insert(new) \/ Claim(i) \/ Beat(i) \/ Lapse(i) \/ BackoffEnds(i)
         \/ Delete(i) \/ WriteFailure(i, seenRow) \/ ReclaimStale \/ UNCHANGED rows
  PROVE  RowsTypeOK'
<1> USE DEF RowsTypeOK, RowStatus
<1>1. CASE Insert(new)
  BY <1>1 DEF Insert
<1>2. CASE Claim(i)
  BY <1>2 DEF Claim
<1>3. CASE Beat(i)
  BY <1>3 DEF Beat, Exists
<1>4. CASE Lapse(i)
  BY <1>4 DEF Lapse
<1>5. CASE BackoffEnds(i)
  BY <1>5 DEF BackoffEnds
<1>6. CASE Delete(i)
  BY <1>6 DEF Delete
<1>7. CASE WriteFailure(i, seenRow)
  <2>1. CASE Requeues(seenRow)
    <3> seenRow.retries + 1 \in Nat
      BY DEF Snapshot
    <3>1. CASE seenRow.status = "processing"
      BY <1>7, <2>1, <3>1 DEF WriteFailure
    <3>2. CASE seenRow.status # "processing"
      BY <1>7, <2>1, <3>2 DEF WriteFailure
    <3> QED BY <3>1, <3>2
  <2>2. CASE ~Requeues(seenRow)
    BY <1>7, <2>2 DEF WriteFailure, Delete
  <2> QED BY <2>1, <2>2
<1>8. CASE ReclaimStale
  BY <1>8 DEF ReclaimStale, Retriable, Stale
<1>9. CASE UNCHANGED rows
  BY <1>9 DEF rows
<1> QED BY <1>1, <1>2, <1>3, <1>4, <1>5, <1>6, <1>7, <1>8, <1>9

(* And so does a step that leaves the table alone.                         *)
LEMMA RowsKept == RowsTypeOK /\ UNCHANGED rows => RowsTypeOK'
BY DEF RowsTypeOK, rows

(* What mark_failed's session reads is a row of the table.                 *)
LEMMA ReadTyped ==
  ASSUME RowsTypeOK, NEW i \in Items
  PROVE  ReadForFailure(i) \in Snapshot
BY DEF RowsTypeOK, ReadForFailure, Snapshot

(* No statement but a claim asks for more claims than a row has had: what  *)
(* a row loses by going back to the queue it has as a retry.               *)
LEMMA StatementsCount ==
  ASSUME RowsTypeOK, NEW i \in Items, NEW j \in Items, NEW new,
         \/ Insert(new) \/ Beat(i) \/ Lapse(i) \/ BackoffEnds(i) \/ Delete(i)
         \/ WriteFailure(i, ReadForFailure(i)) \/ ReclaimStale \/ UNCHANGED rows
  PROVE  AttemptsOf(j) <= AttemptsOf(j)'
<1>0. retries[j] \in Nat
  BY DEF RowsTypeOK
<1>1. CASE UNCHANGED retries /\ (status'[j] = status[j] \/ status'[j] = "gone")
  BY <1>0, <1>1 DEF AttemptsOf
<1>2. CASE UNCHANGED retries /\ status[j] = "absent"
  BY <1>0, <1>2 DEF AttemptsOf
<1>3. CASE retries'[j] = retries[j] + 1
  BY <1>0, <1>3 DEF AttemptsOf
<1>4. CASE retries'[j] = retries[j] /\ (status'[j] = status[j] \/ status'[j] = "gone")
  BY <1>0, <1>4 DEF AttemptsOf
<1>5. CASE Insert(new)
  BY <1>1, <1>2, <1>5 DEF Insert
<1>6. CASE Beat(i) \/ Lapse(i) \/ BackoffEnds(i) \/ UNCHANGED rows
  BY <1>1, <1>6 DEF Beat, Lapse, BackoffEnds, rows
<1>7. CASE Delete(i)
  BY <1>1, <1>7 DEF Delete, RowsTypeOK
<1>8. CASE WriteFailure(i, ReadForFailure(i))
  <2>1. CASE Delete(i)
    BY <1>7, <2>1
  <2>2. CASE /\ retries' = [retries EXCEPT ![i] = retries[i] + 1]
             /\ UNCHANGED status \/ status' = [status EXCEPT ![i] = "queued"]
    BY <1>3, <1>4, <2>2 DEF RowsTypeOK
  <2> QED BY <1>8, <2>1, <2>2 DEF WriteFailure, ReadForFailure
<1>9. CASE ReclaimStale
  BY <1>3, <1>4, <1>9 DEF ReclaimStale
<1> QED BY <1>5, <1>6, <1>7, <1>8, <1>9
-----------------------------------------------------------------------------
(* ORDER BY priority DESC, created_at: the order of the queue is total and *)
(* strict.                                                                 *)
LEMMA QueueOrder ==
  /\ \A i, j \in Items : i # j => Before(i, j) \/ Before(j, i)
  /\ \A i, j \in Items : Before(i, j) => ~Before(j, i)
  /\ \A i, j, k \in Items : Before(i, j) /\ Before(j, k) => Before(i, k)
<1> \A i \in Items : i \in Nat /\ Priority[i] \in Int
  BY ItemsAssumption, PriorityAssumption
<1> QED BY DEF Before

(* So of finitely many rows one is first: the one with the fewest others   *)
(* before it.                                                              *)
LEMMA FirstInLine ==
  ASSUME NEW S \in SUBSET Items, IsFiniteSet(S), S # {}
  PROVE  \E i \in S : \A j \in S : j # i => Before(i, j)
<1> DEFINE Ahead(i) == {j \in S : Before(j, i)}
           N == {Cardinality(Ahead(i)) : i \in S}
<1>1. \A i \in S : IsFiniteSet(Ahead(i)) /\ Cardinality(Ahead(i)) \in Nat
  BY FS_Subset, FS_CardinalityType
<1>2. PICK n \in N : \A m \in N : ~(m < n)
  <2>1. N \in SUBSET Nat /\ N # {}
    BY <1>1
  <2> HIDE DEF N
  <2>2. \E n \in N : \A m \in N : ~(<<m, n>> \in OpToRel(<, Nat))
    BY <2>1, NatLessThanWellFounded, WFMin
  <2> QED BY <2>1, <2>2 DEF OpToRel
<1>3. PICK i \in S : Cardinality(Ahead(i)) = n
  BY <1>2
<1>4. ASSUME NEW j \in S, j # i, ~Before(i, j) PROVE FALSE
  <2>1. j \in Ahead(i) /\ j \notin Ahead(j)
    BY <1>4, QueueOrder
  <2>2. Ahead(j) \in SUBSET Ahead(i)
    BY <2>1, QueueOrder
  <2>3. Cardinality(Ahead(j)) <= Cardinality(Ahead(i)) /\ Cardinality(Ahead(j)) # Cardinality(Ahead(i))
    <3> HIDE DEF Ahead
    <3> QED BY <1>1, <2>1, <2>2, FS_Subset
  <2>4. Cardinality(Ahead(j)) < Cardinality(Ahead(i))
    BY <1>1, <2>3
  <2> QED BY <1>2, <1>3, <2>4
<1> QED BY <1>4

(* No two rows are first, whatever is in the table.                        *)
LEMMA OneIsNext ==
  ASSUME NEW i \in Items, NEW j \in Items, NextInLine(i), NextInLine(j)
  PROVE  i = j
BY QueueOrder DEF NextInLine

(* claim_next comes back empty-handed only from a queue with nothing due.  *)
LEMMA SomeRowIsNext ==
  ASSUME IsFiniteSet({i \in Items : Exists(i)})
  PROVE  NothingToClaim \/ \E i \in Items : NextInLine(i)
<1> DEFINE S == {i \in Items : Claimable(i)}
<1>1. S \in SUBSET {i \in Items : Exists(i)}
  BY DEF Claimable, Exists
<1>2. IsFiniteSet(S)
  BY <1>1, FS_Subset
<1>3. CASE S = {}
  BY <1>3 DEF NothingToClaim
<1>4. CASE S # {}
  <2> PICK i \in S : \A j \in S : j # i => Before(i, j)
    <3> S \in SUBSET Items
      OBVIOUS
    <3> HIDE DEF S
    <3> QED BY <1>2, <1>4, FirstInLine
  <2> QED BY DEF NextInLine
<1> QED BY <1>3, <1>4
=============================================================================
