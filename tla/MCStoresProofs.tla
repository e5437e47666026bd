--------------------------- MODULE MCStoresProofs ---------------------------
(***************************************************************************)
(* Theorems about db/bbolt, for any callers, batches and bounds: the       *)
(* invariant, that keys of AddWithSeqID are not given out twice, and that  *)
(* the wrapper implements DurableStore.  Then about db/postgres, as an     *)
(* instance, for any users, pools and faults: its invariant.               *)
(***************************************************************************)
EXTENDS MCStores, FiniteSetTheorems, TLAPS

(* Operations that have been called and have not had their effect. *)
Pending == {c \in Callers : pc[c] \in {"called", "tx"}}

(* Every number that NextSequence gave out was asked for by a call of its  *)
(* own, so that numbers stay within the bound on calls.                    *)
SeqWithinCalls == IsFiniteSet(Pending) /\ file.seq + Cardinality(Pending) <= calls

(* A result stands only between the effect and the return. *)
ResultOnlyAfter ==
  /\ res \in [Callers -> [ok : BOOLEAN, val : SUBSET (Keys \X Values)]]
  /\ \A c \in Callers : pc[c] \in {"idle", "called", "tx"} => res[c] = Failed

(* Keys given out lie behind the sequence, and a bucket that is not there  *)
(* has none.                                                               *)
IssuedBehind == issued \subseteq 1..file.seq /\ (~file.exists => file = NoBucket)

(* Only writes run in a writing transaction. *)
WritersWrite == \A c \in Callers : pc[c] = "tx" => op[c] \notin Reads

(* Nobody is under way with nil. *)
HandleTaken == \A c \in Callers : pc[c] \in {"called", "tx", "view"} => hdl[c] # 0

(* After Close nothing is open, and whoever is called while a Stop is      *)
(* under way has met it.                                                   *)
StopUnderWay ==
  /\ stage = "closed" => opened = 0
  /\ stage \in {"closing", "closed"} => \A c \in Callers : pc[c] = "called" => c \in met

(* The inductive invariant: Inv with what the steps and the refinement     *)
(* need.                                                                   *)
IInv ==
  /\ Inv /\ StopUnderWay /\ HandleTaken
  /\ SeqWithinCalls /\ ResultOnlyAfter /\ IssuedBehind /\ WritersWrite

(* A place that is not pending adds nothing to Pending, and one that stops *)
(* being so takes one from it.                                             *)
LEMMA PendingGone ==
  ASSUME NEW c \in Callers, NEW place, IsFiniteSet(Pending), pc[c] \in {"called", "tx"},
         pc \in [Callers -> {"idle", "called", "tx", "view", "ret"}],
         place \notin {"called", "tx"}, pc' = [pc EXCEPT ![c] = place]
  PROVE  /\ IsFiniteSet(Pending')
         /\ Cardinality(Pending') = Cardinality(Pending) - 1
<1>1. Pending' = Pending \ {c} /\ c \in Pending
  BY DEF Pending
<1> QED
  BY <1>1, FS_RemoveElement

(* Steps that begin and end no operation leave Pending as it is. *)
LEMMA PendingSame ==
  ASSUME pc \in [Callers -> {"idle", "called", "tx", "view", "ret"}],
         \A c \in Callers : pc'[c] \in {"called", "tx"} <=> pc[c] \in {"called", "tx"}
  PROVE  Pending' = Pending
BY DEF Pending

(* What is stored after a transaction is again a bucket. *)
Buckets == [exists : BOOLEAN, kv : [Keys -> Values \cup {NoValue}], seq : 0..MaxCalls]

(* The bucket that CreateBucketIfNotExists makes. *)
Created == [NoBucket EXCEPT !.exists = TRUE]

(* A missing and a new bucket are buckets without keys given out. *)
LEMMA EmptyBuckets ==
  /\ NoBucket \in Buckets /\ NoBucket.seq = 0 /\ NoBucket.exists = FALSE
  /\ Created \in Buckets /\ Created.seq = 0 /\ Created.exists
<1>1. 0 \in 0..MaxCalls /\ [k \in Keys |-> NoValue] \in [Keys -> Values \cup {NoValue}]
  BY BoltAssumption
<1>2. NoBucket \in Buckets /\ NoBucket.seq = 0 /\ NoBucket.exists = FALSE
  BY <1>1, Zenon DEF NoBucket, Buckets
<1>3. Created \in Buckets /\ Created.seq = 0 /\ Created.exists
  BY <1>2 DEF Created, Buckets
<1> QED
  BY <1>2, <1>3

(* What a transaction writes is a bucket again, whose sequence goes on by  *)
(* one in AddWithSeqID, starts again when the bucket is dropped, and       *)
(* otherwise stays.                                                        *)
LEMMA WrittenTypes ==
  ASSUME NEW o \in Ops, o \notin Reads, file \in Buckets, file.seq < MaxCalls
  PROVE  /\ Written(o) \in Buckets
         /\ Written(o).seq =
              CASE o.kind = "drop" -> 0 [] o.kind = "add" -> file.seq + 1
                [] o.kind = "create" -> IF file.exists THEN file.seq ELSE 0
                [] OTHER -> file.seq
         /\ o.kind = "drop" => Written(o) = NoBucket
         /\ o.kind # "drop" => Written(o).exists \/ Written(o).exists = file.exists
<1>1. o.kind \in {"create", "drop", "put", "del", "add"}
  BY DEF Ops, Reads
<1>2. CASE o.kind = "create"
  BY <1>2, EmptyBuckets DEF Written, Created
<1>3. CASE o.kind = "drop"
  BY <1>3, EmptyBuckets DEF Written
<1>4. CASE o.kind = "put"
  <2>1. o.val \in Values
    BY <1>4 DEF Ops
  <2>2. PutAll(file.kv, o.keys, o.val) \in [Keys -> Values \cup {NoValue}]
    BY <2>1 DEF PutAll, Buckets
  <2>3. Written(o) = [file EXCEPT !.kv = PutAll(file.kv, o.keys, o.val)]
    BY <1>4 DEF Written
  <2> QED
    BY <1>4, <2>2, <2>3 DEF Buckets
<1>5. CASE o.kind = "del"
  <2>1. PutAll(file.kv, o.keys, NoValue) \in [Keys -> Values \cup {NoValue}]
    BY DEF PutAll, Buckets
  <2>2. Written(o) = [file EXCEPT !.kv = PutAll(file.kv, o.keys, NoValue)]
    BY <1>5 DEF Written
  <2> QED
    BY <1>5, <2>1, <2>2 DEF Buckets
<1>6. CASE o.kind = "add"
  <2>1. o.val \in Values
    BY <1>6 DEF Ops, Values
  <2>2. file.seq + 1 \in 0..MaxCalls /\ file.seq + 1 \in Keys
    BY BoltAssumption DEF Buckets, Keys
  <2> DEFINE kv == [file.kv EXCEPT ![file.seq + 1] = o.val]
  <2>3. kv \in [Keys -> Values \cup {NoValue}]
    BY <2>1, <2>2 DEF Buckets
  <2>4. Written(o) = [file EXCEPT !.seq = file.seq + 1, !.kv = kv]
    BY <1>6 DEF Written, Added, NextSequence
  <2> HIDE DEF kv
  <2> QED
    BY <1>6, <2>2, <2>3, <2>4 DEF Buckets
<1> QED
  BY <1>1, <1>2, <1>3, <1>4, <1>5, <1>6

(* An id that is drawn is a key.                                           *)
LEMMA DrawnTypes ==
  ASSUME NEW o \in Ops, file \in Buckets, file.seq < MaxCalls, NEW b \in BOOLEAN
  PROVE  [ok |-> b, val |-> Drawn(o)] \in [ok : BOOLEAN, val : SUBSET (Keys \X Values)]
<1>1. o.kind = "add" => o.val \in Values
  BY DEF Ops, Values
<1>2. file.seq + 1 \in Keys
  BY BoltAssumption DEF Buckets, Keys
<1>3. Drawn(o) \in SUBSET (Keys \X Values)
  BY <1>1, <1>2 DEF Drawn, NextSequence
<1> QED
  BY <1>3

(* The invariant holds at the start, whether the file has the bucket or    *)
(* not.                                                                    *)
LEMMA InitIInv == Init => IInv
<1> SUFFICES ASSUME Init PROVE IInv
  OBVIOUS
<1> USE BoltAssumption
<1>1. op \in [Callers -> Ops]
  <2>1. [kind |-> "create", keys |-> {}, val |-> ""] \in Ops
    BY DEF Ops
  <2>2. (CHOOSE o \in Ops : o.kind = "create") \in Ops
    BY <2>1
  <2> QED
    BY <2>2 DEF Init
<1>2. file \in Buckets /\ file.seq = 0 /\ (~file.exists => file = NoBucket)
  BY EmptyBuckets DEF Init, Created
<1>3. Failed \in [ok : BOOLEAN, val : SUBSET (Keys \X Values)]
  BY DEF Init, Failed
<1>4. TypeOK
  <2>1. /\ db \in 0..MaxOpens /\ opened \in 0..MaxOpens /\ opens \in 0..MaxOpens
        /\ calls \in 0..MaxCalls /\ faults \in 0..MaxFaults
        /\ hdl \in [Callers -> 0..MaxOpens] /\ issued \in SUBSET Keys
        /\ met \in SUBSET Callers /\ stage \in {"free", "opened", "closing", "closed"}
        /\ pc \in [Callers -> {"idle", "called", "tx", "view", "ret"}]
    BY DEF Init
  <2> QED
    BY <1>1, <1>2, <1>3, <2>1 DEF Init, TypeOK, Buckets
<1>5. Pending = {}
  BY DEF Init, Pending
<1>6. SeqWithinCalls
  BY <1>2, <1>5, FS_EmptySet DEF Init, SeqWithinCalls
<1>7. ResultOnlyAfter
  BY <1>3 DEF Init, ResultOnlyAfter
<1> QED
  BY <1>2, <1>4, <1>6, <1>7
     DEF Init, IInv, Inv, HandleOwned, ClosedOnlyByStop, StopUnderWay, IssuedBehind, WritersWrite,
         HandleTaken

(* IInv is inductive, one step per action. *)
LEMMA NextIInv == IInv /\ [Next]_vars => IInv'
<1> SUFFICES ASSUME IInv, [Next]_vars PROVE IInv'
  OBVIOUS
<1> USE BoltAssumption DEF IInv, Inv
<1>1. /\ file \in Buckets /\ calls \in Nat /\ file.seq \in Nat
      /\ Failed \in [ok : BOOLEAN, val : SUBSET (Keys \X Values)]
  BY DEF TypeOK, Buckets, Failed
<1>2. CASE Start \/ StartEnd \/ StopBegin \/ StopClose \/ StopEnd
  <2>1. UNCHANGED <<pc, op, hdl, res, calls, file, issued>>
    BY <1>2 DEF Start, StartEnd, StopBegin, StopClose, StopEnd
  <2>2. Pending' = Pending
    BY <2>1 DEF Pending
  <2>3. HandleTaken' /\ SeqWithinCalls' /\ ResultOnlyAfter' /\ IssuedBehind' /\ WritersWrite'
    BY <2>1, <2>2 DEF HandleTaken, SeqWithinCalls, ResultOnlyAfter, IssuedBehind, WritersWrite
  <2>4. TypeOK'
    <3>1. /\ db' \in 0..MaxOpens /\ opened' \in 0..MaxOpens /\ opens' \in 0..MaxOpens
          /\ faults' \in 0..MaxFaults /\ met' \in SUBSET Callers
          /\ stage' \in {"free", "opened", "closing", "closed"}
      BY <1>2 DEF Start, StartEnd, StopBegin, StopClose, StopEnd, TypeOK
    <3> QED
      BY <2>1, <3>1 DEF TypeOK
  <2>5. HandleOwned'
    BY <1>2 DEF Start, StartEnd, StopBegin, StopClose, StopEnd, HandleOwned, StopUnderWay, TypeOK
  <2>6. StopUnderWay'
    BY <1>2 DEF Start, StartEnd, StopBegin, StopClose, StopEnd, StopUnderWay, TypeOK
  <2>7. ClosedOnlyByStop'
    <3>1. CASE Start \/ StartEnd
      <4>1. stage = "free" => opened = 0 \/ opened' = opened
        BY <3>1 DEF Start, StartEnd
      <4> QED
        BY <3>1, <4>1 DEF Start, StartEnd, ClosedOnlyByStop, HandleTaken
    <3>2. CASE StopBegin
      BY <3>2 DEF StopBegin, ClosedOnlyByStop
    <3>3. CASE StopClose \/ StopEnd
      BY <3>3 DEF StopClose, StopEnd, ClosedOnlyByStop, StopUnderWay
    <3> QED
      BY <1>2, <3>1, <3>2, <3>3
  <2> QED
    BY <2>3, <2>4, <2>5, <2>6, <2>7
<1>5. ASSUME ProcessEnds, faults' \in 0..MaxFaults PROVE IInv'
  <2> 0 \in 0..MaxOpens
    OBVIOUS
  <2>1. TypeOK' /\ HandleOwned'
    BY <1>1, <1>5 DEF ProcessEnds, TypeOK, HandleOwned
  <2>2. Pending' = {}
    BY <1>5 DEF ProcessEnds, Pending
  <2>3. SeqWithinCalls'
    <3>1. Cardinality(Pending) \in Nat
      BY FS_CardinalityType DEF SeqWithinCalls
    <3> QED
      BY <1>1, <1>5, <2>2, <3>1, FS_EmptySet DEF ProcessEnds, SeqWithinCalls
  <2> QED
    BY <1>1, <1>5, <2>1, <2>3
    DEF ProcessEnds, ClosedOnlyByStop, StopUnderWay, ResultOnlyAfter, IssuedBehind, WritersWrite, HandleTaken
<1>6. CASE Crash
  BY <1>5, <1>6 DEF Crash, TypeOK
<1>7. ASSUME NEW c \in Callers, CallOnNil(c) PROVE IInv'
  BY <1>5, <1>7 DEF CallOnNil, TypeOK
<1>8. ASSUME NEW c \in Callers, Call(c) PROVE IInv'
  <2>1. TypeOK' /\ HandleOwned'
    BY <1>8 DEF Call, TypeOK, HandleOwned
  <2>2. ClosedOnlyByStop'
    BY <1>8 DEF Call, ClosedOnlyByStop, HandleOwned, TypeOK
  <2>5. StopUnderWay' /\ WritersWrite' /\ HandleTaken'
    BY <1>8 DEF Call, StopUnderWay, WritersWrite, HandleTaken, TypeOK
  <2>3. Pending' = Pending \cup {c} /\ c \notin Pending
    BY <1>8 DEF Call, Pending, TypeOK
  <2>4. SeqWithinCalls'
    <3>1. Cardinality(Pending) \in Nat
      BY FS_CardinalityType DEF SeqWithinCalls
    <3>2. calls' = calls + 1 /\ file' = file
      BY <1>8 DEF Call
    <3>3. IsFiniteSet(Pending') /\ Cardinality(Pending') = Cardinality(Pending) + 1
      BY <2>3, FS_AddElement DEF SeqWithinCalls
    <3> QED
      BY <1>1, <3>1, <3>2, <3>3 DEF SeqWithinCalls
  <2> QED
    BY <1>8, <2>1, <2>2, <2>4, <2>5 DEF Call, ResultOnlyAfter, IssuedBehind, TypeOK
<1>9. ASSUME NEW c \in Callers, BeginClosed(c) PROVE IInv'
  <2>1. Inv' /\ StopUnderWay' /\ WritersWrite' /\ HandleTaken'
    BY <1>9 DEF BeginClosed, TypeOK, HandleOwned, ClosedOnlyByStop, StopUnderWay,
       WritersWrite, HandleTaken
  <2>2. IsFiniteSet(Pending') /\ Cardinality(Pending') = Cardinality(Pending) - 1
    BY <1>9, PendingGone DEF BeginClosed, TypeOK, SeqWithinCalls
  <2>3. SeqWithinCalls'
    BY <1>1, <1>9, <2>2, FS_CardinalityType DEF BeginClosed, SeqWithinCalls
  <2> QED
    BY <1>9, <2>1, <2>3 DEF BeginClosed, ResultOnlyAfter, IssuedBehind, TypeOK
<1>10. ASSUME NEW c \in Callers, BeginWrite(c) PROVE IInv'
  <2>1. Inv' /\ StopUnderWay' /\ WritersWrite' /\ HandleTaken'
    BY <1>10 DEF BeginWrite, TypeOK, HandleOwned, ClosedOnlyByStop, StopUnderWay,
       WritersWrite, HandleTaken
  <2>2. Pending' = Pending
    BY <1>10, PendingSame DEF BeginWrite, TypeOK
  <2> QED
    BY <1>10, <2>1, <2>2 DEF BeginWrite, ResultOnlyAfter, IssuedBehind, SeqWithinCalls, TypeOK
<1>11. ASSUME NEW c \in Callers, Rollback(c) PROVE IInv'
  <2>1. /\ IsFiniteSet(Pending') /\ Cardinality(Pending') = Cardinality(Pending) - 1
        /\ Cardinality(Pending) \in Nat /\ Cardinality(Pending') \in Nat
    BY <1>11, PendingGone, FS_CardinalityType DEF Rollback, TypeOK, SeqWithinCalls
  <2>2. file.seq < MaxCalls /\ op[c] \in Ops
    BY <1>1, <2>1 DEF SeqWithinCalls, TypeOK
  <2>3. [ok |-> FALSE, val |-> Drawn(op[c])] \in [ok : BOOLEAN, val : SUBSET (Keys \X Values)]
    BY <1>1, <2>2, DrawnTypes
  <2>4. ResultOnlyAfter'
    <3>1. res' \in [Callers -> [ok : BOOLEAN, val : SUBSET (Keys \X Values)]]
      BY <1>11, <2>3 DEF Rollback, ResultOnlyAfter
    <3>2. pc'[c] = "ret" /\ \A d \in Callers \ {c} : pc'[d] = pc[d] /\ res'[d] = res[d]
      BY <1>11 DEF Rollback, ResultOnlyAfter, TypeOK
    <3> QED
      BY <3>1, <3>2 DEF ResultOnlyAfter
  <2>5. TypeOK'
    <3>1. faults' \in 0..MaxFaults
      BY <1>11 DEF Rollback, TypeOK
    <3> QED
      BY <1>11, <2>4, <3>1 DEF Rollback, TypeOK, ResultOnlyAfter
  <2>6. HandleOwned' /\ ClosedOnlyByStop' /\ StopUnderWay' /\ WritersWrite' /\ HandleTaken'
    BY <1>11 DEF Rollback, HandleOwned, ClosedOnlyByStop, StopUnderWay, WritersWrite, HandleTaken,
       TypeOK
  <2>7. SeqWithinCalls'
    BY <1>1, <1>11, <2>1 DEF Rollback, SeqWithinCalls
  <2> QED
    BY <1>11, <2>4, <2>5, <2>6, <2>7 DEF Rollback, IssuedBehind
<1>12. ASSUME NEW c \in Callers, Commit(c) PROVE IInv'
  <2>1. op[c] \in Ops /\ op[c] \notin Reads
    BY <1>12 DEF Commit, WritersWrite, TypeOK
  <2>2. /\ IsFiniteSet(Pending') /\ Cardinality(Pending') = Cardinality(Pending) - 1
        /\ Cardinality(Pending) \in Nat /\ Cardinality(Pending') \in Nat
    BY <1>12, PendingGone, FS_CardinalityType DEF Commit, TypeOK, SeqWithinCalls
  <2>3. file.seq < MaxCalls /\ file.seq + 1 \in Keys
    BY <1>1, <2>2 DEF SeqWithinCalls, TypeOK, Keys
  <2>4. /\ file' \in Buckets /\ file'.seq \in Nat /\ file'.seq <= file.seq + 1
        /\ op[c].kind = "add" => file'.seq = file.seq + 1
        /\ op[c].kind = "drop" => file' = NoBucket
        /\ op[c].kind \notin {"add", "drop"} =>
             file'.seq = file.seq \/ (op[c].kind = "create" /\ ~file.exists)
        /\ ~file'.exists => file' = NoBucket
    <3>1. file' = Written(op[c]) /\ (op[c].kind = "create" \/ file.exists)
      BY <1>12 DEF Commit, BucketMissing
    <3>2. op[c].kind = "create" /\ ~file.exists => file' = Created
      BY <3>1 DEF Written, Created
    <3> QED
      BY <1>1, <2>1, <2>3, <3>1, <3>2, WrittenTypes, EmptyBuckets
  <2>5. issued' \subseteq 1..file'.seq /\ issued' \in SUBSET Keys
    <3>1. CASE op[c].kind = "drop"
      BY <1>12, <3>1 DEF Commit
    <3>2. CASE op[c].kind = "add"
      BY <1>1, <1>12, <2>3, <2>4, <3>2 DEF Commit, NextSequence, IssuedBehind, TypeOK
    <3>3. CASE op[c].kind \notin {"add", "drop"}
      <4>1. issued' = issued
        BY <1>12, <3>3 DEF Commit
      <4>2. CASE ~file.exists
        BY <4>1, <4>2, EmptyBuckets DEF IssuedBehind
      <4>3. CASE file.exists
        BY <2>4, <3>3, <4>1, <4>3 DEF IssuedBehind, TypeOK
      <4> QED
        BY <4>2, <4>3
    <3> QED
      BY <3>1, <3>2, <3>3
  <2>6. res' \in [Callers -> [ok : BOOLEAN, val : SUBSET (Keys \X Values)]]
    <3>1. [ok |-> TRUE, val |-> Drawn(op[c])] \in [ok : BOOLEAN, val : SUBSET (Keys \X Values)]
      BY <1>1, <2>1, <2>3, DrawnTypes
    <3> QED
      BY <1>12, <3>1 DEF Commit, ResultOnlyAfter
  <2>7. ResultOnlyAfter'
    BY <1>12, <2>6 DEF Commit, ResultOnlyAfter, TypeOK
  <2>8. TypeOK'
    BY <1>12, <2>4, <2>5, <2>6 DEF Commit, TypeOK, Buckets
  <2>9. HandleOwned' /\ ClosedOnlyByStop' /\ StopUnderWay' /\ WritersWrite' /\ HandleTaken'
    BY <1>12 DEF Commit, HandleOwned, ClosedOnlyByStop, StopUnderWay,
       WritersWrite, HandleTaken, TypeOK
  <2>10. SeqWithinCalls'
    BY <1>1, <1>12, <2>2, <2>4 DEF Commit, SeqWithinCalls
  <2> QED
    BY <2>4, <2>5, <2>7, <2>8, <2>9, <2>10 DEF IssuedBehind
<1>13. ASSUME NEW c \in Callers, View(c) PROVE IInv'
  <2>1. Found(op[c]) \in SUBSET (Keys \X Values)
    <3>1. op[c].keys \subseteq Keys
      BY <1>13 DEF View, Reads, Ops
    <3>2. \A k \in Keys : file.kv[k] \notin {NoValue, ""} => file.kv[k] \in Values
      BY DEF TypeOK
    <3> SUFFICES ASSUME NEW f \in Found(op[c]) PROVE f \in Keys \X Values
      OBVIOUS
    <3>3. PICK k \in {i \in op[c].keys : file.kv[i] \notin {NoValue, ""}} : f = <<k, file.kv[k]>>
      BY DEF Found
    <3> QED
      BY <3>1, <3>2, <3>3
  <2>2. res' \in [Callers -> [ok : BOOLEAN, val : SUBSET (Keys \X Values)]]
    <3>1. [ok |-> TRUE, val |-> Found(op[c])] \in [ok : BOOLEAN, val : SUBSET (Keys \X Values)]
      BY <2>1
    <3> QED
      BY <1>1, <1>13, <3>1 DEF View, ResultOnlyAfter
  <2>3. TypeOK'
    BY <1>13, <2>2 DEF View, TypeOK
  <2>4. HandleOwned' /\ ClosedOnlyByStop' /\ StopUnderWay' /\ WritersWrite' /\ HandleTaken'
    BY <1>13 DEF View, HandleOwned, ClosedOnlyByStop, StopUnderWay,
       WritersWrite, HandleTaken, TypeOK
  <2>5. ResultOnlyAfter'
    BY <1>13, <2>2 DEF View, ResultOnlyAfter, TypeOK
  <2>6. IsFiniteSet(Pending') /\ Cardinality(Pending') = Cardinality(Pending) - 1
    BY <1>13, PendingGone DEF View, TypeOK, SeqWithinCalls
  <2>7. SeqWithinCalls'
    BY <1>1, <1>13, <2>6, FS_CardinalityType DEF View, SeqWithinCalls
  <2> QED
    BY <1>13, <2>3, <2>4, <2>5, <2>7 DEF View, IssuedBehind
<1>14. ASSUME NEW c \in Callers, ViewEnd(c) PROVE IInv'
  <2>1. Inv' /\ StopUnderWay' /\ WritersWrite' /\ HandleTaken'
    BY <1>14 DEF ViewEnd, TypeOK, HandleOwned, ClosedOnlyByStop, StopUnderWay,
       WritersWrite, HandleTaken
  <2>2. Pending' = Pending
    BY <1>14, PendingSame DEF ViewEnd, TypeOK
  <2> QED
    BY <1>14, <2>1, <2>2 DEF ViewEnd, ResultOnlyAfter, IssuedBehind, SeqWithinCalls, TypeOK
<1>15. ASSUME NEW c \in Callers, Return(c) PROVE IInv'
  <2>1. ResultOnlyAfter'
    BY <1>1, <1>15 DEF Return, ResultOnlyAfter, TypeOK
  <2>2. Inv' /\ StopUnderWay' /\ WritersWrite' /\ HandleTaken'
    BY <1>15, <2>1 DEF Return, TypeOK, HandleOwned, ClosedOnlyByStop, StopUnderWay,
       WritersWrite, HandleTaken,
                       ResultOnlyAfter
  <2>3. Pending' = Pending
    BY <1>15, PendingSame DEF Return, TypeOK
  <2> QED
    BY <1>15, <2>1, <2>2, <2>3 DEF Return, IssuedBehind, SeqWithinCalls
<1>16. CASE UNCHANGED vars
  <2>1. Pending' = Pending
    BY <1>16 DEF vars, Pending
  <2> QED
    BY <1>16, <2>1 DEF vars, TypeOK, HandleOwned, ClosedOnlyByStop, StopUnderWay, SeqWithinCalls, ResultOnlyAfter,
       IssuedBehind, WritersWrite, HandleTaken
<1> QED
  BY <1>2, <1>6, <1>7, <1>8, <1>9, <1>10, <1>11, <1>12, <1>13, <1>14, <1>15, <1>16
  DEF Next, Step

(* No open handle is lost, and an operation meets a closed one only where  *)
(* a Stop overlaps it, whatever Starts, Stops, crashes and panics there    *)
(* are (etcdBBolt.go:30-51, 69-186).                                       *)
THEOREM InvAlways == Spec => []Inv
<1>1. IInv => Inv
  BY DEF IInv
<1> QED
  BY <1>1, InitIInv, NextIInv, PTL DEF Spec

(* A key that AddWithSeqID returns without an error was never returned so  *)
(* before for the same bucket, by any caller and across crashes            *)
(* (etcdBBolt.go:171-200).                                                 *)
THEOREM IdsNeverReusedAlways == Spec => IdsNeverReused
<1> DEFINE A == \A c \in Callers :
       res'[c] # res[c] /\ res'[c].ok /\ op[c].kind = "add"
         => \A kv \in res'[c].val : kv[1] \notin issued
<1>1. IInv /\ [Next]_vars => [A]_vars
  <2> SUFFICES ASSUME IInv, Next, NEW c \in Callers, res'[c] # res[c], res'[c].ok,
                      op[c].kind = "add", NEW kv \in res'[c].val
               PROVE  kv[1] \notin issued
    OBVIOUS
  <2>1. ASSUME Start \/ StartEnd \/ StopBegin \/ StopClose \/ StopEnd PROVE FALSE
    BY <2>1 DEF Start, StartEnd, StopBegin, StopClose, StopEnd
  <2>2. ASSUME ProcessEnds PROVE FALSE
    BY <2>2 DEF ProcessEnds, Failed
  <2> ASSUME NEW d \in Callers,
             Call(d) \/ BeginClosed(d) \/ BeginWrite(d) \/ ViewEnd(d)
      PROVE  FALSE
    BY DEF Call, BeginClosed, BeginWrite, ViewEnd
  <2> ASSUME NEW d \in Callers, Rollback(d) PROVE FALSE
    BY DEF Rollback, IInv, ResultOnlyAfter
  <2>3. PICK d \in Callers : Commit(d) \/ View(d) \/ Return(d)
    BY <2>1, <2>2 DEF Next, Step, Crash, CallOnNil
  <2>4. d = c
    BY <2>3 DEF Commit, View, Return, IInv, ResultOnlyAfter
  <2>5. ~View(d)
    BY <2>4 DEF View, Reads
  <2>6. ~Return(d)
    BY <2>4 DEF Return, Failed, IInv, ResultOnlyAfter
  <2>7. kv[1] = file.seq + 1
    BY <2>3, <2>4, <2>5, <2>6 DEF Commit, Drawn, NextSequence, IInv, ResultOnlyAfter
  <2> QED
    BY <2>7 DEF IInv, Inv, IssuedBehind, TypeOK
<1> QED
  BY <1>1, InitIInv, NextIInv, PTL DEF Spec, IdsNeverReused

(* The phase of the abstract store, as Store maps it. *)
PhaseOf(place) ==
  CASE place \in {"called", "tx"} -> "called" [] place \in {"view", "ret"} -> "done" [] OTHER -> "idle"

(* The phases of all callers, written as in the refinement mapping. *)
Phase == [c \in Callers |-> CASE pc[c] \in {"called", "tx"} -> "called"
                              [] pc[c] \in {"view", "ret"} -> "done"
                              [] OTHER -> "idle"]

(* A step of one caller moves its phase and no other. *)
LEMMA PhaseMoves ==
  ASSUME NEW c \in Callers, NEW place, pc' = [pc EXCEPT ![c] = place],
         pc \in [Callers -> {"idle", "called", "tx", "view", "ret"}]
  PROVE  Phase' = [Phase EXCEPT ![c] = PhaseOf(place)]
BY DEF Phase, PhaseOf

(* A step that leaves one caller a result, or an error with something      *)
(* beside it, changes what that caller goes by and no other.               *)
LEMMA ToldMoves ==
  ASSUME NEW c \in Callers, NEW v,
         res \in [Callers -> [ok : BOOLEAN, val : SUBSET (Keys \X Values)]]
  PROVE  /\ res' = [res EXCEPT ![c] = [ok |-> TRUE, val |-> v]]
               => Told' = [Told EXCEPT ![c] = [ok |-> TRUE, val |-> v]]
         /\ res' = [res EXCEPT ![c] = [ok |-> FALSE, val |-> v]]
               => Told' = [Told EXCEPT ![c] = Failed]
<1>1. ASSUME res' = [res EXCEPT ![c] = [ok |-> TRUE, val |-> v]]
      PROVE  Told' = [Told EXCEPT ![c] = [ok |-> TRUE, val |-> v]]
  BY <1>1 DEF Told
<1>2. ASSUME res' = [res EXCEPT ![c] = [ok |-> FALSE, val |-> v]]
      PROVE  Told' = [Told EXCEPT ![c] = Failed]
  BY <1>2 DEF Told
<1> QED
  BY <1>1, <1>2

(* The effect of a write is the one that the abstract store has. *)
LEMMA WrittenIsChanged ==
  ASSUME NEW o \in Ops, o \notin Reads, file \in Buckets
  PROVE  /\ Written(o) = Store!Changed(o)
         /\ Drawn(o) = Store!Answer(o)
<1>1. o.kind \in {"create", "drop", "put", "del", "add"}
  BY DEF Ops, Reads
<1>2. Drawn(o) = Store!Answer(o)
  BY <1>1 DEF Drawn, Store!Answer, NextSequence
<1>3. NoBucket = Store!NoBucket /\ NoValue = Store!NoValue
  BY DEF NoBucket, Store!NoBucket, NoValue, Store!NoValue
<1>4. CASE o.kind \in {"create", "drop"}
  BY <1>2, <1>3, <1>4 DEF Written, Store!Changed
<1>5. CASE o.kind = "put"
  <2>1. PutAll(file.kv, o.keys, o.val) = [k \in Keys |-> IF k \in o.keys THEN o.val ELSE file.kv[k]]
    BY DEF PutAll, Buckets
  <2> QED
    BY <1>2, <1>5, <2>1 DEF Written, Store!Changed
<1>6. CASE o.kind = "del"
  <2>1. PutAll(file.kv, o.keys, NoValue) = [k \in Keys |-> IF k \in o.keys THEN NoValue ELSE file.kv[k]]
    BY DEF PutAll, Buckets
  <2> QED
    BY <1>2, <1>3, <1>6, <2>1 DEF Written, Store!Changed
<1>7. CASE o.kind = "add"
  BY <1>2, <1>7 DEF Written, Store!Changed, Added, NextSequence
<1> QED
  BY <1>1, <1>4, <1>5, <1>6, <1>7

(* The wrapper implements the durable store: each operation takes effect   *)
(* whole and in one step, or not at all (etcdBBolt.go:69-200). Start, Stop *)
(* and the beginning of a transaction are no steps of it.                  *)
THEOREM BBoltImplementsDurableStore == Spec => ImplementsDurableStore
<1>1. Init => Store!Init
  <2> SUFFICES ASSUME Init PROVE Store!Init
    OBVIOUS
  <2>1. NoBucket = Store!NoBucket /\ Failed = Store!Error
    BY DEF NoBucket, Store!NoBucket, NoValue, Store!NoValue, Failed, Store!Error
  <2>2. op \in [Callers -> Ops]
    BY InitIInv DEF IInv, Inv, TypeOK
  <2>3. Phase = [c \in Callers |-> "idle"]
    BY DEF Init, Phase
  <2>4. Told = [c \in Callers |-> Failed]
    BY DEF Init, Told, Failed
  <2> QED
    BY <2>1, <2>2, <2>3, <2>4 DEF Init, Store!Init, Phase
<1>2. IInv /\ [Next]_vars => [Store!Next]_(Store!storeVars)
  <2> SUFFICES ASSUME IInv, [Next]_vars PROVE Store!Next \/ UNCHANGED <<file, Phase, op, Told>>
    BY DEF Store!storeVars, Phase
  <2>1. /\ pc \in [Callers -> {"idle", "called", "tx", "view", "ret"}] /\ file \in Buckets
        /\ op \in [Callers -> Ops]
        /\ res \in [Callers -> [ok : BOOLEAN, val : SUBSET (Keys \X Values)]]
        /\ Failed = Store!Error /\ Failed.ok = FALSE
    BY DEF IInv, Inv, TypeOK, Buckets, ResultOnlyAfter, Failed, Store!Error
  <2> ASSUME res' = res PROVE Told' = Told
    BY DEF Told
  <2>2. CASE Start \/ StartEnd \/ StopBegin \/ StopClose \/ StopEnd \/ UNCHANGED vars
    BY <2>2 DEF Start, StartEnd, StopBegin, StopClose, StopEnd, vars, Phase
  <2>3. ASSUME ProcessEnds PROVE Store!Next
    <3>1. Phase' = [c \in Callers |-> "idle"]
      BY <2>3 DEF ProcessEnds, Phase
    <3>2. Told' = [c \in Callers |-> Failed]
      BY <2>1, <2>3 DEF ProcessEnds, Told
    <3> QED
      BY <2>1, <2>3, <3>1, <3>2 DEF ProcessEnds, Phase, Store!Crash, Store!Next
  <2>4. ASSUME NEW c \in Callers, Call(c) PROVE Store!Next
    <3>1. Phase[c] = "idle" /\ Phase' = [Phase EXCEPT ![c] = "called"]
      BY <2>1, <2>4, PhaseMoves DEF Call, Phase, PhaseOf
    <3> QED
      BY <2>4, <3>1 DEF Call, Phase, Store!Call, Store!Next
  <2>5. ASSUME NEW c \in Callers, BeginClosed(c) \/ Rollback(c) PROVE Store!Next
    <3>1. Phase[c] = "called" /\ Phase' = [Phase EXCEPT ![c] = "done"]
      BY <2>1, <2>5, PhaseMoves DEF BeginClosed, Rollback, Phase, PhaseOf
    <3>2. res[c] = Failed
      BY <2>5 DEF BeginClosed, Rollback, IInv, ResultOnlyAfter
    <3>3. Told' = [Told EXCEPT ![c] = Store!Error]
      <4>1. CASE res' = res
        BY <2>1, <3>2, <4>1 DEF Told
      <4>2. CASE res' = [res EXCEPT ![c] = [ok |-> FALSE, val |-> Drawn(op[c])]]
        BY <2>1, <4>2, ToldMoves
      <4> QED
        BY <2>5, <4>1, <4>2 DEF BeginClosed, Rollback
    <3> QED
      BY <2>5, <3>1, <3>3 DEF BeginClosed, Rollback, Phase, Store!Fail, Store!Next
  <2>6. ASSUME NEW c \in Callers, BeginWrite(c) PROVE UNCHANGED <<file, Phase, op, Told>>
    BY <2>1, <2>6 DEF BeginWrite, Phase
  <2>7. ASSUME NEW c \in Callers, Commit(c) PROVE Store!Next
    <3>1. Phase[c] = "called" /\ Phase' = [Phase EXCEPT ![c] = "done"]
      BY <2>1, <2>7, PhaseMoves DEF Commit, Phase, PhaseOf
    <3>2. op[c] \in Ops /\ op[c] \notin Reads
      BY <2>1, <2>7 DEF Commit, IInv, WritersWrite
    <3>3. Store!Possible(op[c])
      BY <2>7 DEF Commit, BucketMissing, Store!Possible
    <3>4. file' = Store!Changed(op[c]) /\ res' = [res EXCEPT ![c] = [ok |-> TRUE, val |-> Store!Answer(op[c])]]
      BY <2>1, <2>7, <3>2, WrittenIsChanged DEF Commit
    <3>5. Told' = [Told EXCEPT ![c] = [ok |-> TRUE, val |-> Store!Answer(op[c])]]
      BY <2>1, <3>4, ToldMoves
    <3> QED
      BY <2>7, <3>1, <3>3, <3>4, <3>5 DEF Commit, Phase, Store!Effect, Store!Next
  <2>8. ASSUME NEW c \in Callers, View(c) PROVE Store!Next
    <3>1. Phase[c] = "called" /\ Phase' = [Phase EXCEPT ![c] = "done"]
      BY <2>1, <2>8, PhaseMoves DEF View, Phase, PhaseOf
    <3>2. CASE BucketMissing(op[c])
      <4>1. Told' = [Told EXCEPT ![c] = Store!Error]
        BY <2>1, <2>8, <3>2, ToldMoves DEF View, Failed
      <4> QED
        BY <2>8, <3>1, <4>1 DEF View, Phase, Store!Fail, Store!Next
    <3>3. CASE ~BucketMissing(op[c])
      <4>1. Store!Possible(op[c])
        BY <3>3 DEF BucketMissing, Store!Possible
      <4>2. op[c].kind \in {"get", "getall"}
        BY <2>8 DEF View, Reads
      <4>3. Store!Changed(op[c]) = file
        BY <4>2 DEF Store!Changed
      <4>4. Store!Answer(op[c]) = Found(op[c])
        BY <4>2 DEF Store!Answer, Found, NoValue, Store!NoValue
      <4>5. Told' = [Told EXCEPT ![c] = [ok |-> TRUE, val |-> Store!Answer(op[c])]]
        <5>1. res' = [res EXCEPT ![c] = [ok |-> TRUE, val |-> Found(op[c])]]
          BY <2>8, <3>3 DEF View
        <5> QED
          BY <2>1, <4>4, <5>1, ToldMoves
      <4> QED
        BY <2>8, <3>1, <4>1, <4>3, <4>5 DEF View, Phase, Store!Effect, Store!Next
    <3> QED
      BY <3>2, <3>3
  <2>9. ASSUME NEW c \in Callers, ViewEnd(c) PROVE UNCHANGED <<file, Phase, op, Told>>
    BY <2>1, <2>9 DEF ViewEnd, Phase
  <2>10. ASSUME NEW c \in Callers, Return(c) PROVE Store!Next
    <3>1. Phase[c] = "done" /\ Phase' = [Phase EXCEPT ![c] = "idle"]
      BY <2>1, <2>10, PhaseMoves DEF Return, Phase, PhaseOf
    <3>2. Told' = [Told EXCEPT ![c] = Store!Error]
      BY <2>1, <2>10, ToldMoves DEF Return, Failed
    <3> QED
      BY <2>10, <3>1, <3>2 DEF Return, Phase, Store!Return, Store!Next
  <2> QED
    BY <2>2, <2>3, <2>4, <2>5, <2>6, <2>7, <2>8, <2>9, <2>10 DEF Next, Step, Crash, CallOnNil
<1> QED
  BY <1>1, <1>2, InitIInv, NextIInv, PTL DEF Spec, ImplementsDurableStore, Store!Spec

----------------------------------------------------------------------------
(* The PostgreSQL pool. *)

(* Places where a thread waits with s.mu held, and where a restart is      *)
(* between its stop and its start.                                         *)
Waiting == {"initPing", "stopClose", "restartClose"}
Between == {"restartClose", "sleep"}

(* s.mu is held across a ping or a Close by the thread that waits in it. *)
MuHeld == \A t \in PG!Threads : gpc[t] \in Waiting <=> mu = t

(* One restart at most is between its stop and its start, nobody else      *)
(* starts a pool meanwhile, and what it starts has no predecessor.         *)
OneRestart ==
  \A t \in PG!Threads :
    /\ gpc[t] \in Between =>
         restarting /\ \A s \in PG!Threads : gpc[s] # "initPing" /\ (gpc[s] \in Between => s = t)
    /\ gpc[t] = "sleep" => dbpool = 0

(* The cancel function is the current pool's; where there is none every    *)
(* listener that waits was told to end.                                    *)
Cancels ==
  /\ cancel # 0 => cancel = dbpool
  /\ cancel = 0 => \A l \in PG!Listeners : gpc[l] \in {"wait", "got"} => l \in cancelled
  /\ \A t \in PG!Threads : gpc[t] \in {"stopClose", "restartClose"} => cancel = 0

(* Nothing happens before Start, no listener is ahead of its doStart, the  *)
(* ping of doStart has a pool, and only Stop waits for Stop's Close.       *)
Begun ==
  /\ ~started => dbpool = 0 /\ \A t \in PG!Threads : gpc[t] \in {"idle", "done"}
  /\ \A l \in PG!Listeners : l > starts => gpc[l] = "done"
  /\ \A t \in PG!Threads : /\ gpc[t] = "initPing" => dbpool # 0
                           /\ gpc[t] = "stopClose" => stopped

(* The inductive form of PG!Inv. *)
PoolIInv == PG!PoolConstants /\ PG!Inv /\ MuHeld /\ OneRestart /\ Cancels /\ Begun

(* Before Start there is no pool, and nobody waits. *)
LEMMA PoolIndInit == PG!PoolConstants /\ PG!Init => PoolIInv
<1> SUFFICES ASSUME PG!PoolConstants, PG!Init PROVE PoolIInv
  OBVIOUS
<1>1. PG!TypeOK
  <2>1. restarting \in BOOLEAN /\ started \in BOOLEAN /\ stopped \in BOOLEAN
        /\ panicked \in BOOLEAN /\ dbUp \in BOOLEAN
    BY Zenon DEF PG!Init
  <2> QED
    BY <2>1 DEF PG!Init, PG!TypeOK, PG!PoolConstants, PG!Places, PG!Threads, PG!Listeners
<1> QED
  BY <1>1
  DEF PoolIInv, PG!Inv, PG!PoolsOwned, PG!ListenersOfCurrentPool, PG!PoolUnlessRestarting,
      MuHeld, OneRestart, Cancels, Begun, Waiting, Between, PG!Init, PG!PoolConstants,
      PG!Threads, PG!Listeners

(* A thread moves on and what PoolIInv speaks of stays: no move into or out *)
(* of the places that count.                                               *)
LEMMA PoolMove ==
  ASSUME PoolIInv, PG!TypeOK', NEW t \in PG!Threads, NEW place \in PG!Places \ (Waiting \cup Between),
         gpc' = [gpc EXCEPT ![t] = place], gpc[t] \notin Waiting \cup Between,
         t \in PG!Listeners => t <= starts,
         place \in {"wait", "got"} => gpc[t] \in {"wait", "got"}, started,
         UNCHANGED <<mu, dbpool, cancel, restarting, starts, cancelled, started, stopped, open>>
  PROVE  PoolIInv'
BY DEF PoolIInv, PG!Inv, PG!TypeOK, PG!PoolsOwned, PG!ListenersOfCurrentPool,
       PG!PoolUnlessRestarting, MuHeld, OneRestart, Cancels, Begun, Waiting, Between,
       PG!PoolConstants, PG!Listeners, PG!Threads

(* The types, whoever steps. *)
LEMMA PoolTypes == ASSUME PoolIInv, PG!Next PROVE PG!TypeOK'
<1> USE DEF PG!TypeOK, PG!Goto, PG!Rest, PG!Places, PG!sVars, PG!callVars, PG!dbVars,
            PG!PoolConstants
<1>0. PG!TypeOK /\ PG!PoolConstants /\ PG!Listeners \subseteq PG!Threads
      /\ Users \subseteq PG!Threads /\ PG!Listeners = 1..MaxPools
      /\ (\A u \in Users : u \notin PG!Listeners)
  BY DEF PoolIInv, PG!Inv, PG!Threads, PG!Listeners
<1>1. ASSUME NEW t \in PG!Threads, PG!doStart(t), started' \in BOOLEAN PROVE PG!TypeOK'
  <2>1. /\ starts + 1 \in PG!Listeners /\ starts' = starts + 1 /\ cancel' = starts'
        /\ dbpool' = starts' /\ open' = open \cup {starts'} /\ (conn' = starts' \/ conn' = 0)
        /\ (mu' = t \/ mu' = None)
        /\ UNCHANGED <<cancelled, errorCh, pool, held, stopped, panicked, dbUp, lost, gfaults>>
    BY <1>0, <1>1 DEF PG!doStart
  <2>2. restarting' \in BOOLEAN
    BY <1>0, <1>1 DEF PG!doStart
  <2>3. gpc' \in [PG!Threads -> PG!Places]
    <3>1. /\ gpc \in [PG!Threads -> PG!Places] /\ starts + 1 \in PG!Threads
          /\ {"wait", "idle", "done", "initPing"} \subseteq PG!Places
      BY <1>0, <2>1
    <3> QED
      BY <1>1, <3>1 DEF PG!doStart
  <2> QED
    BY <1>0, <1>1, <2>1, <2>2, <2>3, SMTT(20)
<1>2. ASSUME NEW u \in Users, PG!UserCalls(u) PROVE PG!TypeOK'
  <2>1. CASE PG!Start(u)
    <3>1. started' \in BOOLEAN
      BY <2>1, Zenon DEF PG!Start
    <3> QED
      BY <1>0, <1>2, <1>1, <2>1, <3>1 DEF PG!Start
  <2>2. CASE PG!Stop(u)
    BY <1>0, <1>2, <2>2 DEF PG!Stop, PG!doStop
  <2>3. CASE PG!RestartCall(u)
    BY <1>0, <1>2, <2>3 DEF PG!RestartCall
  <2>4. CASE PG!PingBegin(u)
    BY <1>0, <1>2, <2>4 DEF PG!PingBegin
  <2>5. CASE PG!QueryBegin(u)
    BY <1>0, <1>2, <2>5 DEF PG!QueryBegin
  <2> QED
    BY <1>2, <2>1, <2>2, <2>3, <2>4, <2>5 DEF PG!UserCalls
<1>3. ASSUME NEW u \in Users, PG!UserSteps(u) PROVE PG!TypeOK'
  <2>1. CASE PG!StopClosed(u)
    BY <1>0, <2>1 DEF PG!StopClosed, PG!Closed
  <2>2. CASE PG!QueryAcquire(u)
    BY <1>0, <2>2 DEF PG!QueryAcquire
  <2>3. CASE PG!QueryFails(u)
    BY <1>0, <2>3 DEF PG!QueryFails
  <2>4. CASE PG!RowsClose(u)
    BY <1>0, <2>4 DEF PG!RowsClose
  <2> QED
    BY <1>3, <2>1, <2>2, <2>3, <2>4 DEF PG!UserSteps
<1>4. ASSUME NEW t \in PG!Threads, PG!ThreadSteps(t) PROVE PG!TypeOK'
  <2>1. CASE PG!StartPing(t)
    BY <1>0, <2>1 DEF PG!StartPing
  <2>2. CASE PG!RestartRefused(t)
    BY <1>0, <2>2 DEF PG!RestartRefused
  <2>6. CASE PG!PingEnd(t)
    BY <1>0, <2>6 DEF PG!PingEnd
  <2>3. CASE PG!RestartStop(t)
    BY <1>0, <2>3 DEF PG!RestartStop, PG!doStop
  <2>4. CASE PG!RestartClosed(t)
    BY <1>0, <2>4 DEF PG!RestartClosed, PG!Closed
  <2>5. CASE PG!RestartStart(t)
    BY <1>0, <1>1, <2>5 DEF PG!RestartStart
  <2> QED
    BY <1>4, <2>1, <2>2, <2>3, <2>4, <2>5, <2>6 DEF PG!ThreadSteps
<1>5. ASSUME NEW l \in PG!Listeners, PG!ListenerSteps(l) \/ PG!ListenNotified(l) PROVE PG!TypeOK'
  <2>1. CASE PG!ListenAgain(l) \/ PG!ListenBreaks(l) \/ PG!ListenNotified(l)
    BY <1>0, <1>5, <2>1 DEF PG!ListenAgain, PG!ListenBreaks, PG!ListenNotified
  <2>2. CASE PG!ListenReport(l)
    BY <1>0, <1>5, <2>2 DEF PG!ListenReport
  <2>3. CASE PG!PingBegin(l)
    BY <1>0, <1>5, <2>3 DEF PG!PingBegin
  <2> QED
    BY <1>5, <2>1, <2>2, <2>3 DEF PG!ListenerSteps
<1>6. CASE PG!ReadError \/ PG!ConnLost \/ PG!DbDown \/ PG!DbBack
  <2>1. CASE PG!ReadError
    BY <1>0, <2>1 DEF PG!ReadError
  <2>2. CASE PG!ConnLost
    BY <1>0, <2>2 DEF PG!ConnLost
  <2>3. CASE PG!DbDown
    <3>1. dbUp' \in BOOLEAN
      BY <2>3, Zenon DEF PG!DbDown
    <3>2. lost' \subseteq PG!Listeners /\ gfaults' \in 0..MaxFaults
      BY <1>0, <2>3 DEF PG!DbDown
    <3> QED
      BY <1>0, <2>3, <3>1, <3>2 DEF PG!DbDown
  <2>4. CASE PG!DbBack
    BY <1>0, <2>4 DEF PG!DbBack
  <2> QED
    BY <1>6, <2>1, <2>2, <2>3, <2>4
<1> QED
  BY <1>2, <1>3, <1>4, <1>5, <1>6 DEF PG!Next

(* doStart by a thread that finds no pool. *)
LEMMA DoStartStep ==
  ASSUME PoolIInv, PG!TypeOK', NEW t \in PG!Threads, PG!doStart(t), mu = None, dbpool = 0,
         gpc[t] = "idle" \/ gpc[t] = "sleep", started',
         \A s \in PG!Threads : gpc[s] \in Between => s = t
  PROVE  PoolIInv'
BY DEF PoolIInv, PG!Inv, PG!TypeOK, PG!PoolsOwned, PG!ListenersOfCurrentPool,
       PG!PoolUnlessRestarting, MuHeld, OneRestart, Cancels, Begun, Waiting, Between,
       PG!PoolConstants, PG!Listeners, PG!Threads, PG!doStart, PG!Goto, PG!Rest

(* doStop: the listener that waits is told to end. *)
LEMMA DoStopStep ==
  ASSUME PoolIInv, PG!TypeOK', NEW t \in PG!Threads, mu = None,
         NEW place \in {"stopClose", "restartClose"}, PG!doStop(t, place), started,
         gpc[t] \in {"idle", "restart"}, place = "stopClose" => stopped' /\ UNCHANGED restarting,
         place = "restartClose" => ~restarting /\ restarting' /\ UNCHANGED stopped,
         UNCHANGED <<dbpool, starts, started, open>>
  PROVE  PoolIInv'
BY DEF PoolIInv, PG!Inv, PG!TypeOK, PG!PoolsOwned, PG!ListenersOfCurrentPool,
       PG!PoolUnlessRestarting, MuHeld, OneRestart, Cancels, Begun, Waiting, Between,
       PG!PoolConstants, PG!Listeners, PG!Threads, PG!doStop, PG!Goto

(* pool.Close returns: no listener of the pool waits that was not told. *)
LEMMA ClosedStep ==
  ASSUME PoolIInv, PG!TypeOK', NEW t \in PG!Threads,
         \/ PG!Closed(t, "stopClose", "idle") \/ PG!Closed(t, "restartClose", "sleep")
  PROVE  PoolIInv'
BY DEF PoolIInv, PG!Inv, PG!TypeOK, PG!PoolsOwned, PG!ListenersOfCurrentPool,
       PG!PoolUnlessRestarting, MuHeld, OneRestart, Cancels, Begun, Waiting, Between,
       PG!PoolConstants, PG!Listeners, PG!Threads, PG!Closed, PG!Goto, PG!callVars

(* The ping of doStart ends. *)
LEMMA StartPingStep ==
  ASSUME PoolIInv, PG!TypeOK', NEW t \in PG!Threads, PG!StartPing(t)
  PROVE  PoolIInv'
BY DEF PoolIInv, PG!Inv, PG!TypeOK, PG!PoolsOwned, PG!ListenersOfCurrentPool,
       PG!PoolUnlessRestarting, MuHeld, OneRestart, Cancels, Begun, Waiting, Between,
       PG!PoolConstants, PG!Listeners, PG!Threads, PG!StartPing, PG!Goto, PG!Rest, PG!callVars

(* Every step of the pool keeps PoolIInv. *)
LEMMA PoolIndNext == PoolIInv /\ [PG!Next]_PG!vars => PoolIInv'
<1> SUFFICES ASSUME PoolIInv, [PG!Next]_PG!vars PROVE PoolIInv'
  OBVIOUS
<1>0. /\ PG!TypeOK /\ Users \subseteq PG!Threads /\ PG!Listeners \subseteq PG!Threads
      /\ Users \cap PG!Listeners = {} /\ PG!Threads = Users \cup PG!Listeners
  BY DEF PoolIInv, PG!Inv, PG!PoolConstants, PG!Threads, PG!Listeners
<1>1. CASE UNCHANGED PG!vars
  BY <1>1
  DEF PoolIInv, PG!Inv, PG!TypeOK, PG!PoolsOwned, PG!ListenersOfCurrentPool,
      PG!PoolUnlessRestarting, MuHeld, OneRestart, Cancels, Begun, PG!PoolConstants,
      PG!vars, PG!sVars, PG!callVars, PG!dbVars
<1> SUFFICES ASSUME PG!Next PROVE PoolIInv'
  BY <1>1
<1>2. PG!TypeOK'
  BY PoolTypes
<1>3. \A t \in PG!Threads :
        /\ gpc[t] \notin {"idle", "done"} => started
        /\ gpc[t] # "done" /\ t \in PG!Listeners => t <= starts
  BY <1>0 DEF PoolIInv, Begun, PG!TypeOK, PG!Listeners
<1> DEFINE Quiet ==
             UNCHANGED <<mu, dbpool, cancel, restarting, starts, cancelled, started, stopped, open>>
<1>4. ASSUME NEW t \in PG!Threads, Quiet, started,
             t \in PG!Listeners => t <= starts, gpc[t] \notin Waiting \cup Between,
             NEW place \in PG!Places \ (Waiting \cup Between), PG!Goto(t, place),
             place \in {"wait", "got"} => gpc[t] \in {"wait", "got"}
      PROVE  PoolIInv'
  BY <1>2, <1>4, PoolMove DEF PG!Goto
<1>5. ASSUME NEW u \in Users, PG!UserCalls(u) PROVE PoolIInv'
  <2>1. CASE PG!Start(u)
    <3>1. mu = None /\ dbpool = 0 /\ gpc[u] = "idle" /\ started' /\ PG!doStart(u)
          /\ \A s \in PG!Threads : gpc[s] \notin Between
      BY <2>1 DEF PG!Start, PoolIInv, Begun, Between
    <3> QED
      BY <1>0, <1>2, <3>1, DoStartStep
  <2>2. CASE PG!Stop(u)
    BY <1>0, <1>2, <2>2, DoStopStep DEF PG!Stop
  <2>3. CASE PG!RestartCall(u) \/ PG!PingBegin(u) \/ PG!QueryBegin(u)
    <3>1. /\ Quiet /\ started /\ gpc[u] \in {"idle", "callPing"} /\ u \notin PG!Listeners
          /\ \E place \in {"restart", "idle", "ping", "query"} : PG!Goto(u, place)
      BY <1>0, <2>3
      DEF PG!RestartCall, PG!PingBegin, PG!QueryBegin, PG!Rest, PG!sVars, PG!callVars
    <3> QED
      BY <1>0, <1>4, <3>1 DEF PG!Places, Waiting, Between
  <2> QED
    BY <1>5, <2>1, <2>2, <2>3 DEF PG!UserCalls
<1>6. ASSUME NEW u \in Users, PG!UserSteps(u) PROVE PoolIInv'
  <2>1. CASE PG!StopClosed(u)
    BY <1>0, <1>2, <2>1, ClosedStep DEF PG!StopClosed
  <2>2. CASE PG!QueryAcquire(u) \/ PG!QueryFails(u) \/ PG!RowsClose(u)
    <3>1. /\ Quiet /\ gpc[u] \in {"query", "rows"} /\ u \notin PG!Listeners
          /\ \E place \in {"rows", "idle"} : PG!Goto(u, place)
      BY <1>0, <2>2 DEF PG!QueryAcquire, PG!QueryFails, PG!RowsClose, PG!sVars, PG!callVars
    <3> QED
      BY <1>0, <1>3, <1>4, <3>1 DEF PG!Places, Waiting, Between
  <2> QED
    BY <1>6, <2>1, <2>2 DEF PG!UserSteps
<1>7. ASSUME NEW t \in PG!Threads, PG!ThreadSteps(t) PROVE PoolIInv'
  <2>1. CASE PG!StartPing(t)
    BY <1>2, <2>1, StartPingStep
  <2>2. CASE PG!RestartRefused(t) \/ PG!PingEnd(t)
    <3>1. /\ Quiet /\ gpc[t] \in {"restart", "ping"}
          /\ \E place \in {"restart", "idle", "done"} : PG!Goto(t, place)
      BY <2>2 DEF PG!RestartRefused, PG!PingEnd, PG!Rest, PG!sVars, PG!callVars
    <3> QED
      BY <1>3, <1>4, <3>1 DEF PG!Places, Waiting, Between
  <2>3. CASE PG!RestartStop(t)
    <3>1. started
      BY <1>3, <2>3 DEF PG!RestartStop
    <3>2. restarting' /\ ~restarting /\ mu = None /\ gpc[t] = "restart"
          /\ PG!doStop(t, "restartClose") /\ UNCHANGED <<dbpool, starts, started, stopped, open>>
      BY <2>3 DEF PG!RestartStop, PG!callVars
    <3> QED
      BY <1>2, <3>1, <3>2, DoStopStep
  <2>4. CASE PG!RestartClosed(t)
    BY <1>2, <2>4, ClosedStep DEF PG!RestartClosed
  <2>5. CASE PG!RestartStart(t)
    <3>1. mu = None /\ gpc[t] = "sleep" /\ PG!doStart(t) /\ UNCHANGED started
      BY <2>5 DEF PG!RestartStart
    <3>2. started' /\ dbpool = 0 /\ \A s \in PG!Threads : gpc[s] \in Between => s = t
      BY <1>3, <3>1 DEF PoolIInv, OneRestart, Between
    <3> QED
      BY <1>2, <3>1, <3>2, DoStartStep
  <2> QED
    BY <1>7, <2>1, <2>2, <2>3, <2>4, <2>5 DEF PG!ThreadSteps
<1>8. ASSUME NEW l \in PG!Listeners, PG!ListenerSteps(l) \/ PG!ListenNotified(l) PROVE PoolIInv'
  <2>1. CASE PG!ListenAgain(l) \/ PG!ListenNotified(l)
    <3>1. /\ Quiet /\ gpc[l] \in {"wait", "got"} /\ \E place \in {"wait", "got"} : PG!Goto(l, place)
      BY <2>1 DEF PG!ListenAgain, PG!ListenNotified, PG!sVars, PG!callVars
    <3> QED
      BY <1>0, <1>3, <1>4, <3>1 DEF PG!Places, Waiting, Between
  <2>2. CASE PG!ListenBreaks(l) \/ PG!ListenReport(l) \/ PG!PingBegin(l)
    <3>1. /\ Quiet /\ gpc[l] \in {"wait", "report", "callPing", "idle"}
          /\ gpc[l] = "idle" => started
          /\ \E place \in {"report", "callPing", "idle", "done", "ping"} : PG!Goto(l, place)
      BY <2>2 DEF PG!ListenBreaks, PG!ListenReport, PG!PingBegin, PG!Rest, PG!sVars, PG!callVars
    <3> QED
      BY <1>0, <1>3, <1>4, <3>1 DEF PG!Places, Waiting, Between
  <2> QED
    BY <1>8, <2>1, <2>2 DEF PG!ListenerSteps
<1>9. CASE PG!ReadError \/ PG!ConnLost \/ PG!DbDown \/ PG!DbBack
  <2>1. Quiet /\ UNCHANGED gpc
    BY <1>9 DEF PG!ReadError, PG!ConnLost, PG!DbDown, PG!DbBack, PG!sVars, PG!callVars
  <2> QED
    BY <1>2, <2>1
    DEF PoolIInv, PG!Inv, PG!PoolsOwned, PG!ListenersOfCurrentPool, PG!PoolUnlessRestarting,
        MuHeld, OneRestart, Cancels, Begun, PG!PoolConstants
<1> QED
  BY <1>5, <1>6, <1>7, <1>8, <1>9 DEF PG!Next

(* A started pool service has a pool unless it restarts, no other pool is  *)
(* open, and only the listener of the current one waits for notifications, *)
(* for any users, pools and faults (postgreSql.go:82-134, 144-169,         *)
(* 208-247).                                                               *)
THEOREM PoolInvAlways == PoolSpec => []PoolInv
<1>1. PoolInit => PoolIInv
  BY PoolAssumed, PoolIndInit DEF PoolInit
<1>2. PoolIInv /\ [PoolNext]_<<vars, poolVars>> => PoolIInv'
  <2>1. [PoolNext]_<<vars, poolVars>> => [PG!Next]_PG!vars
    BY DEF PoolNext, poolVars, PG!vars, PG!sVars, PG!callVars, PG!dbVars
  <2> QED
    BY <2>1, PoolIndNext
<1>3. PoolIInv => PoolInv
  BY DEF PoolIInv, PoolInv
<1> QED
  BY <1>1, <1>2, <1>3, PTL DEF PoolSpec
=============================================================================
