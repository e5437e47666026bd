------------------------------- MODULE BBolt -------------------------------
(***************************************************************************)
(* db/bbolt: the wrapper of the embedded store.  Start and Stop change     *)
(* bb.db under bb.mu; the operations read bb.db without it, also between   *)
(* the end of Close and the assignment of nil, and run one transaction on  *)
(* the handle that they found, each in steps of its own.                   *)
(* A handle is the number of the Open that made it, 0 is nil; a method on  *)
(* nil panics, which ends the process, as does a crash.  One bucket        *)
(* stands for all.  bolt itself (handles, the lock of the writer, commits  *)
(* that are durable, a file open in one handle at a time) is external:     *)
(* modelled from how the wrapper uses it.                                  *)
(***************************************************************************)
EXTENDS Naturals, FiniteSets

CONSTANTS
  Callers,              \* goroutines that use the store
  Batches,              \* the sets of keys that operations are given
  MaxCalls,             \* bound on operations, and so on keys of AddWithSeq
  MaxOpens, MaxFaults   \* bounds on Open, and on crashes and failed commits

Keys == 1..MaxCalls

ASSUME BoltAssumption ==
  /\ MaxCalls \in Nat /\ MaxOpens \in Nat /\ MaxFaults \in Nat
  /\ Batches \subseteq SUBSET Keys

Values == {"v", ""}

(* Put and BatchPut, DelByKey and BatchDelByKey differ in the number of    *)
(* keys, AddWithSeq and AddWithSeqID in telling the key.                   *)
Ops ==
  [kind : {"create", "drop"}, keys : {{}}, val : {""}]
    \cup [kind : {"put"}, keys : Batches, val : Values]
    \cup [kind : {"del"}, keys : Batches, val : {""}]
    \cup [kind : {"add"}, keys : {{}}, val : {"v"}]
    \cup [kind : {"get"}, keys : {b \in Batches : Cardinality(b) = 1}, val : {""}]
    \cup [kind : {"getall"}, keys : {Keys}, val : {""}]

Reads == {o \in Ops : o.kind \in {"get", "getall"}}

VARIABLES
  db,          \* bb.db
  stage,       \* who has bb.mu: nobody, Start after Open, Stop in or after Close
  pc, op, hdl, \* per caller: place, operation, the handle that it read
  res,         \* per caller: its result
  calls,
  opened, opens, file, faults,  \* external: open handle, Opens, committed data
  issued,      \* history: keys that AddWithSeqID took since the bucket was made
  met          \* history: callers whose operation some Stop has overlapped

vars == <<db, stage, pc, op, hdl, res, calls, opened, opens, file, faults, issued, met>>

NoValue == "none"
NoBucket == [exists |-> FALSE, kv |-> [k \in Keys |-> NoValue], seq |-> 0]
Failed == [ok |-> FALSE, val |-> {}]

Init ==
  /\ db = 0 /\ stage = "free"
  /\ pc = [c \in Callers |-> "idle"] /\ hdl = [c \in Callers |-> 0]
  /\ op = [c \in Callers |-> CHOOSE o \in Ops : o.kind = "create"]
  /\ res = [c \in Callers |-> Failed]
  /\ calls = 0 /\ opened = 0 /\ opens = 0 /\ faults = 0
  /\ file \in {NoBucket, [NoBucket EXCEPT !.exists = TRUE]}
  /\ issued = {} /\ met = {}

----------------------------------------------------------------------------
(* Start, under bb.mu.  bolt.Open waits for the lock of the file, in vain  *)
(* if it is open in another handle, and gives nil with an error.           *)
Start ==
  /\ stage = "free" /\ db = 0 /\ opens < MaxOpens
  /\ opens' = opens + 1
  /\ \/ opened = 0 /\ opened' = opens' /\ stage' = "opened" /\ UNCHANGED <<db, faults>>
     \/ /\ opened # 0 \/ faults < MaxFaults
        /\ faults' = IF opened # 0 THEN faults ELSE faults + 1
        /\ db' = 0 /\ UNCHANGED <<opened, stage>>
  /\ UNCHANGED <<pc, op, hdl, res, calls, file, issued, met>>

StartEnd ==
  /\ stage = "opened"
  /\ stage' = "free" /\ db' = opened
  /\ UNCHANGED <<pc, op, hdl, res, calls, opened, opens, file, faults, issued, met>>

(* Stop takes bb.mu and calls Close, ... *)
StopBegin ==
  /\ stage = "free" /\ db # 0
  /\ stage' = "closing"
  /\ met' = {c \in Callers : pc[c] # "idle"}
  /\ UNCHANGED <<db, pc, op, hdl, res, calls, opened, opens, file, faults, issued>>

InTransaction(h) == {c \in Callers : pc[c] \in {"tx", "view"} /\ hdl[c] = h}

(* ... which waits for the transactions that are open, ... *)
StopClose ==
  /\ stage = "closing" /\ InTransaction(db) = {}
  /\ stage' = "closed" /\ opened' = 0
  /\ UNCHANGED <<db, pc, op, hdl, res, calls, opens, file, faults, issued, met>>

(* Fault: bb.db keeps the closed handle. *)
StopEndKeeps ==
  /\ stage = "closed"
  /\ stage' = "free"
  /\ UNCHANGED <<db, pc, op, hdl, res, calls, opened, opens, file, faults, issued, met>>

(* ... and sets bb.db to nil. *)
StopEnd ==
  /\ stage = "closed"
  /\ stage' = "free" /\ db' = 0
  /\ UNCHANGED <<pc, op, hdl, res, calls, opened, opens, file, faults, issued, met>>

----------------------------------------------------------------------------
(* The process ends; the file stays as the last commit left it. *)
ProcessEnds ==
  /\ db' = 0 /\ stage' = "free" /\ opened' = 0 /\ met' = {}
  /\ pc' = [c \in Callers |-> "idle"] /\ hdl' = [c \in Callers |-> 0]
  /\ res' = [c \in Callers |-> Failed]
  /\ UNCHANGED <<op, calls, opens, file, issued>>

Crash == faults < MaxFaults /\ faults' = faults + 1 /\ ProcessEnds

(* A method of a nil handle panics. *)
CallOnNil(c) ==
  /\ pc[c] = "idle" /\ db = 0 /\ calls < MaxCalls
  /\ ProcessEnds
  /\ UNCHANGED faults

(* An operation reads bb.db, ... *)
Call(c) ==
  /\ pc[c] = "idle" /\ db # 0 /\ calls < MaxCalls
  /\ calls' = calls + 1
  /\ pc' = [pc EXCEPT ![c] = "called"]
  /\ hdl' = [hdl EXCEPT ![c] = db]
  /\ \E o \in Ops : op' = [op EXCEPT ![c] = o]
  /\ met' = IF stage \in {"closing", "closed"} THEN met \cup {c} ELSE met
  /\ UNCHANGED <<db, stage, res, opened, opens, file, faults, issued>>

(* ... which a Stop may have closed by now, or by the transaction's begin; *)
(* one writer at a time, readers see what was committed when they begin.   *)
BeginClosed(c) ==
  /\ pc[c] = "called" /\ hdl[c] # opened
  /\ pc' = [pc EXCEPT ![c] = "ret"]
  /\ UNCHANGED <<db, stage, op, hdl, res, calls, opened, opens, file, faults, issued, met>>

BeginWrite(c) ==
  /\ pc[c] = "called" /\ hdl[c] = opened /\ op[c] \notin Reads
  /\ \A d \in Callers : pc[d] # "tx"
  /\ pc' = [pc EXCEPT ![c] = "tx"]
  /\ UNCHANGED <<db, stage, op, hdl, res, calls, opened, opens, file, faults, issued, met>>

BucketMissing(o) == o.kind # "create" /\ ~file.exists

(* Fault: only the first item is written. *)
PutFirst(kv, keys, val) ==
  [k \in DOMAIN kv |-> IF k \in keys /\ \A i \in keys : k <= i THEN val ELSE kv[k]]

(* Put in a loop over the items, Delete in a loop over the keys. *)
PutAll(kv, keys, val) == [k \in DOMAIN kv |-> IF k \in keys THEN val ELSE kv[k]]

(* Fault: the next key is counted from what the bucket holds. *)
NextSequenceByCount(b) == Cardinality({k \in Keys : b.kv[k] # NoValue}) + 1

NextSequence(b) == b.seq + 1

(* Put under the big-endian key of the next number. *)
Added(b, val) == [b EXCEPT !.seq = NextSequence(b), !.kv[NextSequence(b)] = val]

Written(o) ==
  CASE o.kind = "create" -> IF file.exists THEN file ELSE [NoBucket EXCEPT !.exists = TRUE]
    [] o.kind = "drop" -> NoBucket
    [] o.kind = "put" -> [file EXCEPT !.kv = PutAll(@, o.keys, o.val)]
    [] o.kind = "del" -> [file EXCEPT !.kv = PutAll(@, o.keys, NoValue)]
    [] o.kind = "add" -> Added(file, o.val)

(* What AddWithSeqID has as its id when the function of the transaction is *)
(* done, whether or not Update then commits.                               *)
Drawn(o) == IF o.kind = "add" THEN {<<NextSequence(file), o.val>>} ELSE {}

(* Fault: the transaction takes bb.mu, which Stop holds in Close. *)
CommitLocked(c) ==
  /\ pc[c] = "tx" /\ ~BucketMissing(op[c]) /\ stage = "free"
  /\ file' = Written(op[c])
  /\ issued' = CASE op[c].kind = "drop" -> {}
                [] op[c].kind = "add" -> issued \cup {NextSequence(file)}
                [] OTHER -> issued
  /\ res' = [res EXCEPT ![c] = [ok |-> TRUE, val |-> Drawn(op[c])]]
  /\ pc' = [pc EXCEPT ![c] = "ret"]
  /\ UNCHANGED <<db, stage, op, hdl, calls, opened, opens, faults, met>>

(* The function of the transaction runs, and Update commits. *)
Commit(c) ==
  /\ pc[c] = "tx" /\ ~BucketMissing(op[c])
  /\ file' = Written(op[c])
  /\ issued' = CASE op[c].kind = "drop" -> {}
                [] op[c].kind = "add" -> issued \cup {NextSequence(file)}
                [] OTHER -> issued
  /\ res' = [res EXCEPT ![c] = [ok |-> TRUE, val |-> Drawn(op[c])]]
  /\ pc' = [pc EXCEPT ![c] = "ret"]
  /\ UNCHANGED <<db, stage, op, hdl, calls, opened, opens, faults, met>>

(* The bucket is missing, or the commit fails: nothing is written. An id   *)
(* that was drawn comes back beside the error.                             *)
Rollback(c) ==
  /\ pc[c] = "tx"
  /\ \/ BucketMissing(op[c]) /\ UNCHANGED <<faults, res>>
     \/ /\ ~BucketMissing(op[c]) /\ faults < MaxFaults
        /\ faults' = faults + 1
        /\ res' = [res EXCEPT ![c] = [ok |-> FALSE, val |-> Drawn(op[c])]]
  /\ pc' = [pc EXCEPT ![c] = "ret"]
  /\ UNCHANGED <<db, stage, op, hdl, calls, opened, opens, file, issued, met>>

(* Get copies one value, GetAll every value that is not empty. *)
Found(o) == {<<k, file.kv[k]>> : k \in {i \in o.keys : file.kv[i] \notin {NoValue, ""}}}

View(c) ==
  /\ pc[c] = "called" /\ hdl[c] = opened /\ op[c] \in Reads
  /\ res' = [res EXCEPT ![c] =
               IF BucketMissing(op[c]) THEN Failed ELSE [ok |-> TRUE, val |-> Found(op[c])]]
  /\ pc' = [pc EXCEPT ![c] = "view"]
  /\ UNCHANGED <<db, stage, op, hdl, calls, opened, opens, file, faults, issued, met>>

ViewEnd(c) ==
  /\ pc[c] = "view"
  /\ pc' = [pc EXCEPT ![c] = "ret"]
  /\ UNCHANGED <<db, stage, op, hdl, res, calls, opened, opens, file, faults, issued, met>>

Return(c) ==
  /\ pc[c] = "ret"
  /\ pc' = [pc EXCEPT ![c] = "idle"]
  /\ res' = [res EXCEPT ![c] = Failed]
  /\ hdl' = [hdl EXCEPT ![c] = 0] /\ met' = met \ {c}
  /\ UNCHANGED <<db, stage, op, calls, opened, opens, file, faults, issued>>

Step(c) ==
  \/ BeginClosed(c) \/ BeginWrite(c) \/ Commit(c) \/ Rollback(c)
  \/ View(c) \/ ViewEnd(c) \/ Return(c)

Next ==
  \/ Start \/ StartEnd \/ StopBegin \/ StopClose \/ StopEnd \/ Crash
  \/ \E c \in Callers : CallOnNil(c) \/ Call(c) \/ Step(c)

(* Transactions end, and so do Start and Stop once the store has answered; *)
(* Close gets bolt's locks in the end, whoever else wants them (sync.Mutex *)
(* does not starve a waiter).                                              *)
Fairness ==
  /\ \A c \in Callers : WF_vars(Step(c))
  /\ WF_vars(StartEnd) /\ SF_vars(StopClose) /\ WF_vars(StopEnd)

Spec == Init /\ [][Next]_vars
FairSpec == Spec /\ Fairness

----------------------------------------------------------------------------
TypeOK ==
  /\ db \in 0..MaxOpens /\ stage \in {"free", "opened", "closing", "closed"}
  /\ pc \in [Callers -> {"idle", "called", "tx", "view", "ret"}]
  /\ op \in [Callers -> Ops] /\ hdl \in [Callers -> 0..MaxOpens]
  /\ \A c \in Callers : res[c] \in [ok : BOOLEAN, val : SUBSET (Keys \X Values)]
  /\ calls \in 0..MaxCalls /\ opened \in 0..MaxOpens /\ opens \in 0..MaxOpens
  /\ file \in [exists : BOOLEAN, kv : [Keys -> Values \cup {NoValue}], seq : 0..MaxCalls]
  /\ faults \in 0..MaxFaults /\ issued \in SUBSET Keys /\ met \in SUBSET Callers

(* The wrapper loses no handle that is open, so that a later Start does    *)
(* not wait in vain for the lock of the file: the open one is bb.db, or    *)
(* Start is about to store it.  And bb.db is a closed one only in the last *)
(* moment of a Stop (etcdBBolt.go:30-51).                                  *)
HandleOwned ==
  /\ opened # 0 => db = opened \/ stage = "opened"
  /\ db \notin {0, opened} => stage = "closed"

(* An operation finds its handle closed only if a Stop was under way when  *)
(* it was called or came after that, though bb.db is read without the      *)
(* lock, while Stop closes it and before Stop forgets it: once Stop has    *)
(* returned and Start as well, nobody is given the old handle              *)
(* (etcdBBolt.go:30-51, 69-186).                                           *)
ClosedOnlyByStop ==
  \A c \in Callers : pc[c] = "called" /\ hdl[c] # opened => c \in met

(* Whatever Starts, Stops, crashes and panics there are, no open handle is *)
(* lost, and an operation meets a closed one only where a Stop overlaps it *)
(* (etcdBBolt.go:30-51, 69-186).                                           *)
Inv == TypeOK /\ HandleOwned /\ ClosedOnlyByStop

(* What a caller goes by: a value beside an error is not one. *)
Told == [c \in Callers |-> IF res[c].ok THEN res[c] ELSE Failed]

(* The wrapper is an atomic and durable store: each operation takes effect *)
(* whole and in one step between call and return, or fails without a       *)
(* trace, whatever Stops, Starts and crashes there are                     *)
(* (etcdBBolt.go:69-200).                                                  *)
Store == INSTANCE DurableStore WITH
  data <- file, what <- op, answer <- Told,
  phase <- [c \in Callers |-> CASE pc[c] \in {"called", "tx"} -> "called"
                                [] pc[c] \in {"view", "ret"} -> "done"
                                [] OTHER -> "idle"]

ImplementsDurableStore == Store!Spec

(* A key that AddWithSeqID returns without an error was never returned so  *)
(* before for the same bucket: not to another caller, not before a crash,  *)
(* and not for an entry that was deleted since (etcdBBolt.go:171-200).     *)
IdsNeverReused ==
  [][\A c \in Callers :
       res'[c] # res[c] /\ res'[c].ok /\ op[c].kind = "add"
         => \A kv \in res'[c].val : kv[1] \notin issued]_vars

(* Stop returns: its Close, which waits for transactions with bb.mu held,  *)
(* is not waited for by any of them (etcdBBolt.go:42-51).                  *)
StopReturns == stage \in {"closing", "closed"} ~> stage = "free"
=============================================================================
