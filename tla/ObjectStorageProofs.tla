-------------------------- MODULE ObjectStorageProofs --------------------------
(***************************************************************************)
(* Theorems about ObjectStore, for any number of clients, namespaces, keys *)
(* and providers, and about OscTransfer, for any number of objects,        *)
(* workers and runs.                                                       *)
(***************************************************************************)
EXTENDS ObjectStore, OscTransfer, TLAPS

(* Buckets and objects.  The invariant follows each operation along the    *)
(* steps of its kind.                                                      *)


\* The steps an operation may be at.
Path(k) ==
    CASE k = "create"   -> {"head", "put", "done"}
      [] k = "force"    -> {"force", "done"}
      [] k = "object"   -> {"object", "done"}
      [] k = "list"     -> {"idle", "list", "done"}
      [] k = "buckets"  -> {"buckets", "done"}
      [] k = "drop"     -> {"list", "batch", "remove", "done"}
      [] k = "upload"   -> {"head", "put", "sign", "close", "done"}
      [] k = "download" -> {"list", "open", "done"}

OnPath(c)     == op[c].at \in Path(op[c].kind)
\* A creation under way keeps to the namespace it came for and has seen every
\* namespace where the bucket is.
Watches(c)    == op[c].kind = "create" /\ op[c].at \in {"head", "put"} =>
                     op[c].ns = op[c].asked /\ alive \subseteq seen[c]
Creation(c)   == Succeeded(c, {"create"}) => op[c].asked \in seen[c]
Deletion(c)   == Succeeded(c, {"drop", "force"}) => op[c].ns \in seen[c]
LeftListed(c) == op[c].kind = "drop" => op[c].left \subseteq op[c].listed

Good(c) == OnPath(c) /\ Watches(c) /\ Creation(c) /\ Deletion(c) /\ LeftListed(c)
IInv    == TypeOK /\ \A c \in Client : Good(c)

OpType == [kind : Kinds, at : Steps, asked : Ns, ns : Ns, listed : SUBSET Key,
           left : SUBSET Key, ok : BOOLEAN]

Firsts == {<<"create", "head">>, <<"force", "force">>, <<"object", "object">>, <<"list", "list">>,
           <<"buckets", "buckets">>, <<"drop", "list">>, <<"upload", "head">>, <<"download", "list">>}

Start(c) == \E f \in Firsts : Begin(c, f[1], f[2])

\* The file systems of the providers take the same steps.
LEMMA NextCases ==
    ASSUME Next
    PROVE  \/ SetNsId
           \/ \E c \in Client :
                 \/ Start(c) \/ GetOS(c) \/ HeadBucket(c) \/ Put(c) \/ List(c) \/ BucketList(c)
                 \/ deleteObjectBatch(c) \/ Remove(c) \/ ForceDelete(c) \/ DeleteObject(c)
                 \/ Open(c) \/ Create(c) \/ Close(c)
<1>1. CASE SetNsId
    BY <1>1
<1>2. ASSUME NEW c \in Client, Requests(c)
      PROVE  Start(c)
    <2>1. \E k, f : <<k, f>> \in Firsts /\ Begin(c, k, f)
        BY <1>2 DEF Requests, Firsts, ObjectstorageCreateBucketHandler, ObjectstorageDeleteBucketHandler,
            ObjectstorageDeleteObjectHandler, ObjectstorageObjectListHandler,
            ObjectstorageBucketsHandler, handleObjectStorageDeleteTask, MPut, MGet
    <2> QED BY <2>1 DEF Start
<1>3. ASSUME NEW c \in Client, CreateBucketHandlerStep(c) \/ DeleteHandlerStep(c) \/ ListHandlerStep(c)
      PROVE  HeadBucket(c) \/ Put(c) \/ List(c) \/ ForceDelete(c) \/ DeleteObject(c)
    BY <1>3 DEF CreateBucketHandlerStep, DeleteHandlerStep, ListHandlerStep
<1>4. ASSUME NEW c \in Client, NEW e, Buckets(c, e) \/ Transfers(c, e) \/ Lists(c, e)
      PROVE  \/ HeadBucket(c) \/ Put(c) \/ List(c) \/ BucketList(c) \/ deleteObjectBatch(c) \/ Remove(c)
             \/ Open(c) \/ Create(c) \/ Close(c)
    BY <1>4 DEF Buckets, Transfers, Lists
<1>5. ASSUME NEW c \in Client, FileSystems(c)
      PROVE  \E e : Buckets(c, e) \/ Transfers(c, e) \/ Lists(c, e)
    BY <1>5 DEF FileSystems, S3FSBuckets, S3FSTransfers, S3FSLists, GCPfsBuckets, GCPfsTransfers,
        GCPfsLists, AlibabaFSBuckets, AlibabaFSTransfers, AlibabaFSLists, IBMFSBuckets,
        IBMFSTransfers, IBMFSLists, KTFSBuckets, KTFSTransfers, KTFSLists, TencentFSBuckets,
        TencentFSTransfers, TencentFSLists
<1> QED BY <1>1, <1>2, <1>3, <1>4, <1>5 DEF Next

--------------------------------------------------------------------------------
(* What a step changes for the operations of others.                            *)

\* What is seen is kept, and a creation under way sees every bucket that is made.
Aware(d) == /\ seen[d] \subseteq seen'[d]
            /\ op[d].kind = "create" /\ op[d].at \in {"head", "put"} => alive' \subseteq alive \cup seen'[d]

LEMMA TypeOfOp ==
    ASSUME TypeOK, NEW c \in Client
    PROVE  /\ op \in [Client -> OpType] /\ op[c] \in OpType
           /\ op[c].kind \in Kinds /\ op[c].at \in Steps /\ op[c].ok \in BOOLEAN
           /\ op[c].asked \in Ns /\ op[c].ns \in Ns
           /\ op[c].listed \subseteq Key /\ op[c].left \subseteq Key /\ seen[c] \subseteq Ns
BY DEF TypeOK, OpType

LEMMA MadeSeen ==
    ASSUME TypeOK, NEW n \in Ns, Made(n)
    PROVE  /\ alive' = alive \cup {n} /\ alive' \subseteq Ns /\ seen' \in [Client -> SUBSET Ns]
           /\ \A d \in Client : /\ Aware(d)
                                /\ op[d].kind = "create" /\ op[d].at # "done" => n \in seen'[d]
BY DEF TypeOK, Made, Seen, Aware

LEMMA RemovedSeen ==
    ASSUME TypeOK, NEW n \in Ns, Removed(n)
    PROVE  /\ alive' = alive \ {n} /\ alive' \subseteq Ns /\ seen' \in [Client -> SUBSET Ns]
           /\ \A d \in Client : /\ Aware(d)
                                /\ op[d].kind \in {"drop", "force"} /\ op[d].at # "done" => n \in seen'[d]
BY DEF TypeOK, Removed, Seen, Aware

LEMMA NothingSeen ==
    ASSUME TypeOK, UNCHANGED <<alive, seen>>
    PROVE  \A d \in Client : Aware(d)
BY DEF Aware

LEMMA OthersStay ==
    ASSUME IInv, NEW d \in Client, op'[d] = op[d], Aware(d)
    PROVE  Good(d)'
BY DEF IInv, Good, OnPath, Watches, Creation, Deletion, LeftListed, Succeeded, Aware

LEMMA Updates ==
    ASSUME op \in [Client -> OpType], NEW c \in Client, NEW r \in OpType, op' = [op EXCEPT ![c] = r]
    PROVE  op' \in [Client -> OpType] /\ op'[c] = r /\ \A d \in Client \ {c} : op'[d] = op[d]
OBVIOUS

\* An operation that ends.
LEMMA Ends ==
    ASSUME IInv, NEW c \in Client, NEW ok \in BOOLEAN, Answer(c, ok),
           ok => /\ op[c].kind = "create" => op[c].asked \in seen'[c]
                 /\ op[c].kind \in {"drop", "force"} => op[c].ns \in seen'[c]
    PROVE  /\ op' \in [Client -> OpType] /\ Good(c)'
           /\ \A d \in Client \ {c} : op'[d] = op[d]
<1>1. op \in [Client -> OpType]
    BY TypeOfOp DEF IInv
<1>2. op' = [op EXCEPT ![c].at = "done", ![c].ok = @ /\ ok, ![c].listed = {}, ![c].left = {}]
    BY DEF Answer
<1>3. /\ op' \in [Client -> OpType]
      /\ op'[c].at = "done" /\ op'[c].kind = op[c].kind /\ op'[c].left = {}
      /\ op'[c].asked = op[c].asked /\ op'[c].ns = op[c].ns /\ op'[c].ok = (op[c].ok /\ ok)
      /\ \A d \in Client \ {c} : op'[d] = op[d]
    <2> DEFINE r == [op[c] EXCEPT !.at = "done", !.ok = @ /\ ok, !.listed = {}, !.left = {}]
    <2>1. op' = [op EXCEPT ![c] = r]
        BY <1>2
    <2>2. op[c] \in OpType
        BY <1>1
    <2>3. /\ r.at = "done" /\ r.kind = op[c].kind /\ r.left = {}
          /\ r.asked = op[c].asked /\ r.ns = op[c].ns /\ r.ok = (op[c].ok /\ ok)
        BY <2>2 DEF OpType
    <2>4. (op[c].ok /\ ok) \in BOOLEAN
        OBVIOUS
    <2>5. r \in OpType
        BY <2>2, <2>3, <2>4 DEF OpType, Steps
    <2> HIDE DEF r
    <2> QED BY <1>1, <2>1, <2>3, <2>5
<1>4. op[c].kind \in Kinds
    BY TypeOfOp DEF IInv
<1>5. OnPath(c)'
    BY <1>3, <1>4 DEF OnPath, Path, Kinds
<1>6. Watches(c)' /\ LeftListed(c)'
    BY <1>3 DEF Watches, LeftListed
<1>7. Creation(c)' /\ Deletion(c)'
    BY <1>3 DEF Creation, Deletion, Succeeded
<1> QED BY <1>3, <1>5, <1>6, <1>7 DEF Good

\* An operation that goes on: not a deletion or creation that has succeeded.
LEMMA GoesOn ==
    ASSUME IInv, NEW c \in Client, op' \in [Client -> OpType],
           \A d \in Client \ {c} : op'[d] = op[d],
           op'[c].kind = op[c].kind, op'[c].asked = op[c].asked,
           op'[c].at # "done", op'[c].at \in Path(op[c].kind),
           op[c].kind = "create" => op[c].at \in {"head", "put"} /\ op'[c].ns = op[c].ns
                                      /\ UNCHANGED <<alive, seen>>,
           op[c].kind = "drop" => op'[c].left \subseteq op'[c].listed
    PROVE  Good(c)'
<1>1. OnPath(c)'
    BY DEF OnPath
<1>2. Watches(c)'
    BY DEF Watches, IInv, Good
<1>3. Creation(c)' /\ Deletion(c)' /\ LeftListed(c)'
    BY DEF Creation, Deletion, LeftListed, Succeeded
<1> QED BY <1>1, <1>2, <1>3 DEF Good

\* What remains to be shown of a step of operation c.
LEMMA StepKeeps ==
    ASSUME IInv, NEW c \in Client, op' \in [Client -> OpType],
           \A d \in Client \ {c} : op'[d] = op[d],
           Good(c)', \A d \in Client : Aware(d), UNCHANGED <<engine, active>>,
           alive' \subseteq Ns, seen' \in [Client -> SUBSET Ns],
           objects' \in [Ns -> SUBSET Key], \A n \in Ns \ alive' : objects'[n] = {}
    PROVE  IInv'
<1>1. \A d \in Client \ {c} : Good(d)'
    BY OthersStay
<1>2. TypeOK'
    BY DEF IInv, TypeOK, OpType
<1> QED BY <1>1, <1>2 DEF IInv

\* The same for a step that changes no bucket and no object.
LEMMA QuietStepKeeps ==
    ASSUME IInv, NEW c \in Client, op' \in [Client -> OpType],
           \A d \in Client \ {c} : op'[d] = op[d],
           Good(c)', UNCHANGED <<engine, active, alive, objects, seen>>
    PROVE  IInv'
<1>1. \A d \in Client : Aware(d)
    BY NothingSeen DEF IInv
<1> QED BY <1>1, StepKeeps DEF IInv, TypeOK

--------------------------------------------------------------------------------
(* The steps of the operations.                                                 *)

LEMMA SetNsIdKeeps ==
    ASSUME IInv, SetNsId
    PROVE  IInv'
<1>1. TypeOK'
    BY DEF IInv, TypeOK, SetNsId
<1>2. \A d \in Client : Aware(d)
    BY NothingSeen DEF SetNsId, IInv
<1>3. \A d \in Client : Good(d)'
    BY <1>2, OthersStay DEF SetNsId
<1> QED BY <1>1, <1>3 DEF IInv

LEMMA StartKeeps ==
    ASSUME IInv, NEW c \in Client, Start(c)
    PROVE  IInv'
<1>1. PICK f \in Firsts : Begin(c, f[1], f[2])
    BY DEF Start
<1>2. f[1] \in Kinds /\ f[2] \in Steps /\ f[2] \in Path(f[1]) /\ f[2] # "done"
    BY DEF Firsts, Kinds, Steps, Path
<1>3. op \in [Client -> OpType] /\ active \in Ns /\ alive \subseteq Ns /\ seen \in [Client -> SUBSET Ns]
    BY TypeOfOp DEF IInv, TypeOK
<1> DEFINE r == [kind |-> f[1], at |-> f[2], asked |-> active, ns |-> active,
                 listed |-> {}, left |-> {}, ok |-> TRUE]
<1>4. op' = [op EXCEPT ![c] = r]
    BY <1>1 DEF Begin
<1>5. r \in OpType
    BY <1>2, <1>3 DEF OpType
<1>6. r.kind = f[1] /\ r.at = f[2] /\ r.asked = active /\ r.ns = active /\ r.left = {}
    OBVIOUS
<1> HIDE DEF r
<1>7. op' \in [Client -> OpType] /\ op'[c] = r /\ \A d \in Client \ {c} : op'[d] = op[d]
    BY <1>3, <1>4, <1>5
<1>8. /\ UNCHANGED <<engine, active, alive, objects>>
      /\ seen' = [seen EXCEPT ![c] = IF f[1] = "create" THEN alive ELSE {}]
    BY <1>1 DEF Begin
<1>9. seen' \in [Client -> SUBSET Ns] /\ \A d \in Client \ {c} : seen'[d] = seen[d]
    BY <1>3, <1>8
<1>10. f[1] = "create" => seen'[c] = alive
    BY <1>3, <1>8
<1>11. Good(c)'
    BY <1>2, <1>6, <1>7, <1>8, <1>10
    DEF Good, OnPath, Watches, Creation, Deletion, LeftListed, Succeeded
<1>12. \A d \in Client \ {c} : Aware(d)
    BY <1>8, <1>9 DEF Aware
<1>13. \A d \in Client \ {c} : Good(d)'
    BY <1>7, <1>12, OthersStay
<1>14. TypeOK'
    BY <1>7, <1>8, <1>9 DEF IInv, TypeOK, OpType
<1> QED BY <1>11, <1>13, <1>14 DEF IInv

LEMMA GetOSKeeps ==
    ASSUME IInv, NEW c \in Client, GetOS(c)
    PROVE  IInv'
<1>1. Answer(c, FALSE) /\ UNCHANGED <<engine, active, alive, objects, seen>>
    BY DEF GetOS
<1> QED BY <1>1, Ends, QuietStepKeeps

\* A step to another request of the same operation.
LEMMA GotoKeeps ==
    ASSUME IInv, NEW c \in Client, NEW step \in Steps \ {"done"}, step \in Path(op[c].kind),
           Goto(c, step) \/ (op[c].kind # "create" /\ GotoAnew(c, step)),
           op[c].kind = "create" => op[c].at \in {"head", "put"} /\ UNCHANGED <<alive, seen>>
    PROVE  /\ op' \in [Client -> OpType] /\ Good(c)'
           /\ \A d \in Client \ {c} : op'[d] = op[d]
<1>1. op \in [Client -> OpType] /\ active \in Ns
    BY TypeOfOp DEF IInv, TypeOK
<1>2. op[c].kind = "drop" => op[c].left \subseteq op[c].listed
    BY DEF IInv, Good, LeftListed
<1>3. CASE Goto(c, step)
    <2>1. /\ op' \in [Client -> OpType] /\ op'[c] = [op[c] EXCEPT !.at = step]
          /\ \A d \in Client \ {c} : op'[d] = op[d]
        BY <1>1, <1>3 DEF Goto, OpType
    <2>2. /\ op'[c].kind = op[c].kind /\ op'[c].asked = op[c].asked /\ op'[c].at = step
          /\ op'[c].ns = op[c].ns /\ op'[c].left = op[c].left /\ op'[c].listed = op[c].listed
        BY <1>1, <2>1 DEF OpType
    <2> QED BY <1>2, <2>1, <2>2, GoesOn
<1>4. CASE op[c].kind # "create" /\ GotoAnew(c, step)
    <2>1. /\ op' \in [Client -> OpType] /\ op'[c] = [op[c] EXCEPT !.at = step, !.ns = active]
          /\ \A d \in Client \ {c} : op'[d] = op[d]
        <3>1. PICK o : o = [op[c] EXCEPT !.at = step, !.ns = active]
            OBVIOUS
        <3>2. op[c] \in OpType
            BY <1>1
        <3>3. o \in OpType
            BY <1>1, <3>1, <3>2 DEF OpType
        <3>4. op' = [op EXCEPT ![c] = o]
            BY <1>1, <1>4, <3>1, Zenon DEF GotoAnew
        <3> QED BY <1>1, <3>1, <3>3, <3>4
    <2>2. /\ op'[c].kind = op[c].kind /\ op'[c].asked = op[c].asked /\ op'[c].at = step
          /\ op'[c].left = op[c].left /\ op'[c].listed = op[c].listed
        BY <1>1, <2>1 DEF OpType
    <2> QED BY <1>2, <1>4, <2>1, <2>2, GoesOn
<1> QED BY <1>3, <1>4

LEMMA KindAtStep ==
    ASSUME IInv, NEW c \in Client
    PROVE  /\ op[c].at \in {"head", "put"}      => op[c].kind \in {"create", "upload"}
           /\ op[c].at = "list"                 => op[c].kind \in {"list", "drop", "download"}
           /\ op[c].at = "open"                 => op[c].kind = "download"
           /\ op[c].at \in {"batch", "remove"}  => op[c].kind = "drop"
           /\ op[c].at = "force"                => op[c].kind = "force"
           /\ op[c].at = "object"               => op[c].kind = "object"
           /\ op[c].at = "buckets"              => op[c].kind = "buckets"
           /\ op[c].at \in {"sign", "close"}    => op[c].kind = "upload"
<1>1. op[c].kind \in Kinds /\ op[c].at \in Path(op[c].kind)
    BY TypeOfOp DEF IInv, Good, OnPath
<1> QED BY <1>1 DEF Kinds, Path

LEMMA CreatedKeeps ==
    ASSUME IInv, NEW c \in Client, NEW ok \in BOOLEAN, Created(c, ok), op[c].at \in {"head", "put"},
           ok => op[c].asked \in seen'[c]
    PROVE  /\ op' \in [Client -> OpType] /\ Good(c)'
           /\ \A d \in Client \ {c} : op'[d] = op[d]
<1>1. op[c].kind \in {"create", "upload"}
    BY KindAtStep
<1>2. CASE ok /\ op[c].kind = "upload"
    <2>1. GotoAnew(c, "sign") /\ "sign" \in Path(op[c].kind) /\ "sign" \in Steps \ {"done"}
        BY <1>2 DEF Created, Path, Steps
    <2> QED BY <1>2, <2>1, GotoKeeps
<1>3. CASE ~(ok /\ op[c].kind = "upload")
    <2>1. Answer(c, ok)
        BY <1>3 DEF Created
    <2> QED BY <1>1, <2>1, Ends
<1> QED BY <1>2, <1>3

LEMMA HeadBucketKeeps ==
    ASSUME IInv, NEW c \in Client, HeadBucket(c)
    PROVE  IInv'
<1>1. op[c].at = "head" /\ UNCHANGED <<engine, active, alive, objects, seen>>
    BY DEF HeadBucket
<1>2. op[c].kind \in {"create", "upload"}
    BY <1>1, KindAtStep
<1>3. CASE op[c].ns \in alive /\ Created(c, TRUE) /\ op[c].kind = "create"
    <2>1. op[c].asked \in seen'[c]
        BY <1>1, <1>3 DEF IInv, Good, Watches
    <2> QED BY <1>1, <1>3, <2>1, CreatedKeeps, QuietStepKeeps
<1>4. CASE Created(c, TRUE) /\ op[c].kind = "upload"
    <2>1. GotoAnew(c, "sign") /\ "sign" \in Path(op[c].kind) /\ "sign" \in Steps \ {"done"}
        BY <1>4 DEF Created, Path, Steps
    <2> QED BY <1>1, <1>4, <2>1, GotoKeeps, QuietStepKeeps
<1>5. CASE Goto(c, "put")
    <2>1. "put" \in Path(op[c].kind) /\ "put" \in Steps \ {"done"}
        BY <1>2 DEF Path, Steps
    <2> QED BY <1>1, <1>5, <2>1, GotoKeeps, QuietStepKeeps
<1> QED BY <1>2, <1>3, <1>4, <1>5 DEF HeadBucket

LEMMA PutKeeps ==
    ASSUME IInv, NEW c \in Client, Put(c)
    PROVE  IInv'
<1>1. op[c].at = "put" /\ UNCHANGED <<engine, active, objects>>
    BY DEF Put
<1>2. op[c].kind \in {"create", "upload"} /\ op[c].ns \in Ns
    BY <1>1, KindAtStep, TypeOfOp DEF IInv
<1>3. ASSUME NEW ok \in BOOLEAN, Made(op[c].ns), Created(c, ok)
      PROVE  IInv'
    <2>1. /\ alive' = alive \cup {op[c].ns} /\ alive' \subseteq Ns /\ seen' \in [Client -> SUBSET Ns]
          /\ \A d \in Client : Aware(d)
          /\ op[c].kind = "create" => op[c].ns \in seen'[c]
        BY <1>1, <1>2, <1>3, MadeSeen DEF IInv
    <2>2. op[c].kind = "create" => op[c].asked \in seen'[c]
        BY <1>1, <2>1 DEF IInv, Good, Watches
    <2>3. /\ op' \in [Client -> OpType] /\ Good(c)' /\ \A d \in Client \ {c} : op'[d] = op[d]
        <3>1. CASE op[c].kind = "create"
            BY <1>1, <1>3, <2>2, <3>1, CreatedKeeps
        <3>2. CASE op[c].kind = "upload" /\ ok
            <4>1. GotoAnew(c, "sign") /\ "sign" \in Path(op[c].kind) /\ "sign" \in Steps \ {"done"}
                BY <1>3, <3>2 DEF Created, Path, Steps
            <4> QED BY <3>2, <4>1, GotoKeeps
        <3>3. CASE ~ok
            BY <1>1, <1>3, <3>3, CreatedKeeps
        <3> QED BY <1>2, <3>1, <3>2, <3>3
    <2>4. objects' \in [Ns -> SUBSET Key] /\ \A n \in Ns \ alive' : objects'[n] = {}
        BY <1>1, <2>1 DEF IInv, TypeOK
    <2> QED BY <1>1, <2>1, <2>3, <2>4, StepKeeps
<1>4. CASE Created(c, FALSE) /\ UNCHANGED <<alive, seen>>
    BY <1>1, <1>4, CreatedKeeps, QuietStepKeeps
<1> QED BY <1>3, <1>4 DEF Put

LEMMA ListKeeps ==
    ASSUME IInv, NEW c \in Client, List(c)
    PROVE  IInv'
<1>1. op[c].at = "list" /\ UNCHANGED <<engine, active, alive, objects, seen>>
    BY DEF List
<1>2. op[c].kind \in {"list", "drop", "download"}
    BY <1>1, KindAtStep
<1>3. op \in [Client -> OpType] /\ active \in Ns /\ op[c].ns \in Ns /\ objects \in [Ns -> SUBSET Key]
    BY TypeOfOp DEF IInv, TypeOK
<1>4. ASSUME NEW K \in SUBSET Key, Found(c, K)
      PROVE  IInv'
    <2>1. CASE op[c].kind = "drop"
        <3> DEFINE step == IF K = {} THEN "remove" ELSE "batch"
                   r    == [op[c] EXCEPT !.listed = K, !.left = K, !.ns = active, !.at = step]
        <3>1. op' = [op EXCEPT ![c] = r]
            BY <1>4, <2>1 DEF Found
        <3>2. step \in Steps \ {"done"} /\ step \in Path("drop")
            BY DEF Steps, Path
        <3> HIDE DEF step
        <3>3. /\ r \in OpType /\ r.kind = op[c].kind /\ r.asked = op[c].asked /\ r.at = step
              /\ r.left = r.listed
            BY <1>3, <3>2 DEF OpType
        <3> HIDE DEF r
        <3>4. op' \in [Client -> OpType] /\ op'[c] = r /\ \A d \in Client \ {c} : op'[d] = op[d]
            BY <1>3, <3>1, <3>3, Updates
        <3>5. Good(c)'
            BY <2>1, <3>2, <3>3, <3>4, GoesOn
        <3> QED BY <1>1, <3>4, <3>5, QuietStepKeeps
    <2>2. CASE op[c].kind = "download"
        <3> DEFINE r == [op[c] EXCEPT !.left = K, !.ns = active, !.at = "open"]
        <3>1. op' = [op EXCEPT ![c] = r]
            BY <1>4, <2>2 DEF Found
        <3>2. r \in OpType /\ r.kind = op[c].kind /\ r.asked = op[c].asked /\ r.at = "open"
            BY <1>3 DEF OpType, Steps
        <3> HIDE DEF r
        <3>3. op' \in [Client -> OpType] /\ op'[c] = r /\ \A d \in Client \ {c} : op'[d] = op[d]
            BY <1>3, <3>1, <3>2, Updates
        <3>4. "open" # "done" /\ "open" \in Path(op[c].kind)
            BY <2>2 DEF Path
        <3>5. Good(c)'
            BY <2>2, <3>2, <3>3, <3>4, GoesOn
        <3> QED BY <1>1, <3>3, <3>5, QuietStepKeeps
    <2>3. CASE op[c].kind = "list"
        <3>1. Answer(c, TRUE)
            BY <1>4, <2>3 DEF Found
        <3> QED BY <1>1, <2>3, <3>1, Ends, QuietStepKeeps
    <2> QED BY <1>2, <2>1, <2>2, <2>3
<1>5. CASE Answer(c, FALSE)
    BY <1>1, <1>5, Ends, QuietStepKeeps
<1>6. ASSUME NEW flt \in Filters, Found(c, {k \in objects[op[c].ns] : MatchCandidate(flt, k)})
      PROVE  IInv'
    BY <1>3, <1>4, <1>6
<1> QED BY <1>5, <1>6 DEF List

LEMMA BucketListKeeps ==
    ASSUME IInv, NEW c \in Client, BucketList(c)
    PROVE  IInv'
<1>1. /\ UNCHANGED <<engine, active, alive, objects, seen>> /\ op[c].kind = "buckets"
      /\ \E ok \in BOOLEAN : Answer(c, ok)
    BY KindAtStep DEF BucketList
<1> QED BY <1>1, Ends, QuietStepKeeps

\* Objects may go, and nothing else changes but the operation.
LEMMA ObjectsShrink ==
    ASSUME IInv, NEW n \in Ns, NEW K, objects' = [objects EXCEPT ![n] = @ \ K], UNCHANGED alive
    PROVE  objects' \in [Ns -> SUBSET Key] /\ \A m \in Ns \ alive' : objects'[m] = {}
BY DEF IInv, TypeOK

LEMMA deleteObjectBatchKeeps ==
    ASSUME IInv, NEW c \in Client, deleteObjectBatch(c)
    PROVE  IInv'
<1>1. op[c].at = "batch" /\ op[c].kind = "drop" /\ UNCHANGED <<engine, active, alive, seen>>
    BY KindAtStep DEF deleteObjectBatch
<1>2. PICK B \in Batches(op[c].left) :
          /\ \E K \in SUBSET B : objects' = [objects EXCEPT ![op[c].ns] = @ \ K]
          /\ op' = [op EXCEPT ![c].left = @ \ B, ![c].ns = active,
                              ![c].at = IF op[c].left = B THEN "remove" ELSE "batch"]
    BY DEF deleteObjectBatch
<1>3. /\ op \in [Client -> OpType] /\ active \in Ns /\ op[c].ns \in Ns
      /\ op[c].left \subseteq op[c].listed /\ op[c].left \subseteq Key
    BY <1>1, TypeOfOp DEF IInv, TypeOK, Good, LeftListed
<1> DEFINE step == IF op[c].left = B THEN "remove" ELSE "batch"
           left == op[c].left \ B
           r    == [op[c] EXCEPT !.left = left, !.ns = active, !.at = step]
<1>4. op' = [op EXCEPT ![c] = r]
    BY <1>2
<1>5. step \in Steps \ {"done"} /\ step \in Path("drop") /\ left \subseteq op[c].listed /\ left \subseteq Key
    BY <1>3 DEF Steps, Path
<1> HIDE DEF step, left
<1>6. /\ r \in OpType /\ r.kind = op[c].kind /\ r.asked = op[c].asked /\ r.at = step
      /\ r.left \subseteq r.listed
    BY <1>3, <1>5 DEF OpType
<1> HIDE DEF r
<1>7. op' \in [Client -> OpType] /\ op'[c] = r /\ \A d \in Client \ {c} : op'[d] = op[d]
    BY <1>3, <1>4, <1>6, Updates
<1>8. Good(c)'
    BY <1>1, <1>5, <1>6, <1>7, GoesOn
<1>9. objects' \in [Ns -> SUBSET Key] /\ \A m \in Ns \ alive' : objects'[m] = {}
    BY <1>1, <1>2, <1>3, ObjectsShrink
<1>10. \A d \in Client : Aware(d)
    BY <1>1, NothingSeen DEF IInv
<1>11. alive' \subseteq Ns /\ seen' \in [Client -> SUBSET Ns]
    BY <1>1 DEF IInv, TypeOK
<1> QED BY <1>1, <1>7, <1>8, <1>9, <1>10, <1>11, StepKeeps

LEMMA RemoveKeeps ==
    ASSUME IInv, NEW c \in Client, Remove(c)
    PROVE  IInv'
<1>1. op[c].at = "remove" /\ op[c].kind = "drop" /\ op[c].ns \in Ns /\ UNCHANGED <<engine, active, objects>>
    BY KindAtStep, TypeOfOp DEF Remove, IInv
<1>2. ASSUME objects[op[c].ns] = {}, Removed(op[c].ns), NEW ok \in BOOLEAN, Answer(c, ok)
      PROVE  IInv'
    <2>1. /\ alive' = alive \ {op[c].ns} /\ alive' \subseteq Ns /\ seen' \in [Client -> SUBSET Ns]
          /\ \A d \in Client : Aware(d)
          /\ op[c].ns \in seen'[c]
        BY <1>1, <1>2, RemovedSeen DEF IInv
    <2>2. op' \in [Client -> OpType] /\ Good(c)' /\ \A d \in Client \ {c} : op'[d] = op[d]
        BY <1>1, <1>2, <2>1, Ends
    <2>3. objects' \in [Ns -> SUBSET Key] /\ \A n \in Ns \ alive' : objects'[n] = {}
        BY <1>1, <1>2, <2>1 DEF IInv, TypeOK
    <2> QED BY <1>1, <2>1, <2>2, <2>3, StepKeeps
<1>3. CASE Answer(c, FALSE) /\ UNCHANGED <<alive, seen>>
    BY <1>1, <1>3, Ends, QuietStepKeeps
<1> QED BY <1>2, <1>3 DEF Remove

LEMMA ForceDeleteKeeps ==
    ASSUME IInv, NEW c \in Client, ForceDelete(c)
    PROVE  IInv'
<1>1. op[c].at = "force" /\ op[c].kind = "force" /\ op[c].ns \in Ns /\ UNCHANGED <<engine, active>>
    BY KindAtStep, TypeOfOp DEF ForceDelete, IInv
<1>2. ASSUME Removed(op[c].ns), NEW ok \in BOOLEAN, Answer(c, ok), objects' = [objects EXCEPT ![op[c].ns] = {}]
      PROVE  IInv'
    <2>1. /\ alive' = alive \ {op[c].ns} /\ alive' \subseteq Ns /\ seen' \in [Client -> SUBSET Ns]
          /\ \A d \in Client : Aware(d)
          /\ op[c].ns \in seen'[c]
        BY <1>1, <1>2, RemovedSeen DEF IInv
    <2>2. op' \in [Client -> OpType] /\ Good(c)' /\ \A d \in Client \ {c} : op'[d] = op[d]
        BY <1>1, <1>2, <2>1, Ends
    <2>3. objects' \in [Ns -> SUBSET Key] /\ \A n \in Ns \ alive' : objects'[n] = {}
        BY <1>1, <1>2, <2>1 DEF IInv, TypeOK
    <2> QED BY <1>1, <2>1, <2>2, <2>3, StepKeeps
<1>3. ASSUME NEW K, objects' = [objects EXCEPT ![op[c].ns] = @ \ K], Answer(c, FALSE), UNCHANGED <<alive, seen>>
      PROVE  IInv'
    <2>1. objects' \in [Ns -> SUBSET Key] /\ \A m \in Ns \ alive' : objects'[m] = {}
        BY <1>1, <1>3, ObjectsShrink
    <2>2. /\ op' \in [Client -> OpType] /\ Good(c)' /\ \A d \in Client \ {c} : op'[d] = op[d]
          /\ \A d \in Client : Aware(d)
        BY <1>3, Ends, NothingSeen DEF IInv
    <2>3. alive' \subseteq Ns /\ seen' \in [Client -> SUBSET Ns]
        BY <1>3 DEF IInv, TypeOK
    <2> QED BY <1>1, <2>1, <2>2, <2>3, StepKeeps
<1> QED BY <1>2, <1>3 DEF ForceDelete

LEMMA DeleteObjectKeeps ==
    ASSUME IInv, NEW c \in Client, DeleteObject(c)
    PROVE  IInv'
<1>1. op[c].kind = "object" /\ op[c].ns \in Ns /\ UNCHANGED <<engine, active, alive, seen>>
    BY KindAtStep, TypeOfOp DEF DeleteObject, IInv
<1>2. \E ok \in BOOLEAN : Answer(c, ok)
    BY DEF DeleteObject
<1>3. op' \in [Client -> OpType] /\ Good(c)' /\ \A d \in Client \ {c} : op'[d] = op[d]
    BY <1>1, <1>2, Ends
<1>4. objects' \in [Ns -> SUBSET Key] /\ \A m \in Ns \ alive' : objects'[m] = {}
    <2>1. CASE \E k \in Key : objects' = [objects EXCEPT ![op[c].ns] = @ \ {k}]
        BY <1>1, <2>1, ObjectsShrink
    <2>2. CASE UNCHANGED objects
        BY <1>1, <2>2 DEF IInv, TypeOK
    <2> QED BY <2>1, <2>2 DEF DeleteObject
<1>5. alive' \subseteq Ns /\ seen' \in [Client -> SUBSET Ns] /\ \A d \in Client : Aware(d)
    BY <1>1, NothingSeen DEF IInv, TypeOK
<1> QED BY <1>1, <1>3, <1>4, <1>5, StepKeeps

LEMMA OpenKeeps ==
    ASSUME IInv, NEW c \in Client, Open(c)
    PROVE  IInv'
<1>1. op[c].at = "open" /\ op[c].kind = "download" /\ UNCHANGED <<engine, active, alive, objects, seen>>
    BY KindAtStep DEF Open
<1>2. op \in [Client -> OpType] /\ active \in Ns
    BY TypeOfOp DEF IInv, TypeOK
<1>3. ASSUME NEW k, NEW there \in BOOLEAN,
             op' = [op EXCEPT ![c].left = @ \ {k}, ![c].ns = active, ![c].ok = @ /\ there]
      PROVE  IInv'
    <2> DEFINE ok == op[c].ok /\ there
               r  == [op[c] EXCEPT !.left = @ \ {k}, !.ns = active, !.ok = ok]
    <2>1. op' = [op EXCEPT ![c] = r]
        BY <1>3
    <2>2. ok \in BOOLEAN
        OBVIOUS
    <2> HIDE DEF ok
    <2>3. r \in OpType /\ r.kind = op[c].kind /\ r.asked = op[c].asked /\ r.at = op[c].at
        BY <1>2, <2>2 DEF OpType
    <2> HIDE DEF r
    <2>4. op' \in [Client -> OpType] /\ op'[c] = r /\ \A d \in Client \ {c} : op'[d] = op[d]
        BY <1>2, <2>1, <2>3, Updates
    <2>5. "open" # "done" /\ "open" \in Path(op[c].kind)
        BY <1>1 DEF Path
    <2>6. Good(c)'
        BY <1>1, <2>3, <2>4, <2>5, GoesOn
    <2> QED BY <1>1, <2>4, <2>6, QuietStepKeeps
<1>4. CASE Answer(c, TRUE)
    BY <1>1, <1>4, Ends, QuietStepKeeps
<1> QED BY <1>3, <1>4 DEF Open

\* An object of an upload was refused, or is sent: the next one is asked for.
LEMMA NextObject ==
    ASSUME IInv, NEW c \in Client, op[c].kind = "upload", NEW ok \in BOOLEAN,
           op' = [op EXCEPT ![c].ok = @ /\ ok, ![c].at = "sign", ![c].ns = active]
    PROVE  /\ op' \in [Client -> OpType] /\ Good(c)'
           /\ \A d \in Client \ {c} : op'[d] = op[d]
<1>1. op \in [Client -> OpType] /\ active \in Ns
    BY TypeOfOp DEF IInv, TypeOK
<1> DEFINE all == op[c].ok /\ ok
           r   == [op[c] EXCEPT !.ok = all, !.at = "sign", !.ns = active]
<1>2. op' = [op EXCEPT ![c] = r]
    OBVIOUS
<1>3. all \in BOOLEAN
    OBVIOUS
<1> HIDE DEF all
<1>4. r \in OpType /\ r.kind = op[c].kind /\ r.asked = op[c].asked /\ r.at = "sign"
    BY <1>1, <1>3 DEF OpType, Steps
<1> HIDE DEF r
<1>5. op' \in [Client -> OpType] /\ op'[c] = r /\ \A d \in Client \ {c} : op'[d] = op[d]
    BY <1>1, <1>2, <1>4, Updates
<1>6. "sign" # "done" /\ "sign" \in Path(op[c].kind)
    BY DEF Path
<1> QED BY <1>4, <1>5, <1>6, GoesOn

LEMMA CreateKeeps ==
    ASSUME IInv, NEW c \in Client, Create(c)
    PROVE  IInv'
<1>1. op[c].at = "sign" /\ op[c].kind = "upload" /\ UNCHANGED <<engine, active, alive, objects, seen>>
    BY KindAtStep DEF Create
<1>2. CASE Goto(c, "close")
    <2>1. "close" \in Steps \ {"done"} /\ "close" \in Path(op[c].kind)
        BY <1>1 DEF Steps, Path
    <2> QED BY <1>1, <1>2, <2>1, GotoKeeps, QuietStepKeeps
<1>3. CASE op' = [op EXCEPT ![c].ok = FALSE, ![c].ns = active]
    <2>1. op' = [op EXCEPT ![c].ok = @ /\ FALSE, ![c].at = "sign", ![c].ns = active]
        <3>1. op \in [Client -> OpType]
            BY TypeOfOp DEF IInv
        <3>2. (op[c].ok /\ FALSE) = FALSE
            OBVIOUS
        <3>3. [op[c] EXCEPT !.ok = op[c].ok /\ FALSE, !.at = "sign", !.ns = active]
                  = [op[c] EXCEPT !.ok = FALSE, !.ns = active]
            BY <1>1, <3>1, <3>2 DEF OpType
        <3> QED BY <1>3, <3>3
    <2> QED BY <1>1, <2>1, NextObject, QuietStepKeeps
<1>4. CASE Answer(c, TRUE)
    BY <1>1, <1>4, Ends, QuietStepKeeps
<1> QED BY <1>2, <1>3, <1>4 DEF Create

LEMMA CloseKeeps ==
    ASSUME IInv, NEW c \in Client, Close(c)
    PROVE  IInv'
<1>1. op[c].kind = "upload" /\ op[c].ns \in Ns /\ UNCHANGED <<engine, active, alive, seen>>
    BY KindAtStep, TypeOfOp DEF Close, IInv
<1>2. \E ok \in BOOLEAN : op' = [op EXCEPT ![c].ok = @ /\ ok, ![c].at = "sign", ![c].ns = active]
    <2>1. CASE op' = [op EXCEPT ![c].ok = FALSE, ![c].at = "sign", ![c].ns = active]
        <3>1. (op[c].ok /\ FALSE) = FALSE
            OBVIOUS
        <3>2. op' = [op EXCEPT ![c].ok = @ /\ FALSE, ![c].at = "sign", ![c].ns = active]
            BY <2>1, <3>1
        <3> QED BY <3>2
    <2> QED BY <2>1 DEF Close
<1>3. op' \in [Client -> OpType] /\ Good(c)' /\ \A d \in Client \ {c} : op'[d] = op[d]
    BY <1>1, <1>2, NextObject
<1>4. objects' \in [Ns -> SUBSET Key] /\ \A m \in Ns \ alive' : objects'[m] = {}
    <2>1. CASE op[c].ns \in alive /\ \E k \in Key : objects' = [objects EXCEPT ![op[c].ns] = @ \cup {k}]
        BY <1>1, <2>1 DEF IInv, TypeOK
    <2>2. CASE UNCHANGED objects
        BY <1>1, <2>2 DEF IInv, TypeOK
    <2> QED BY <2>1, <2>2 DEF Close
<1>5. alive' \subseteq Ns /\ seen' \in [Client -> SUBSET Ns] /\ \A d \in Client : Aware(d)
    BY <1>1, NothingSeen DEF IInv, TypeOK
<1> QED BY <1>1, <1>3, <1>4, <1>5, StepKeeps

--------------------------------------------------------------------------------
(* The invariant holds initially and every step keeps it.                       *)

LEMMA InitIInv ==
    ASSUME Init
    PROVE  IInv
<1> DEFINE r == [kind |-> "list", at |-> "idle", asked |-> active, ns |-> active,
                 listed |-> {}, left |-> {}, ok |-> TRUE]
<1>1. op = [c \in Client |-> r] /\ active \in Ns /\ r.kind = "list" /\ r.at = "idle"
    BY DEF Init
<1>2. r \in OpType
    BY <1>1 DEF OpType, Kinds, Steps
<1> HIDE DEF r
<1>3. TypeOK
    BY <1>1, <1>2 DEF Init, TypeOK, OpType
<1>4. "idle" \in Path("list")
    BY DEF Path
<1>5. \A c \in Client : Good(c)
    BY <1>1, <1>4 DEF Good, OnPath, Watches, Creation, Deletion, LeftListed, Succeeded
<1> QED BY <1>3, <1>5 DEF IInv

LEMMA StutterKeeps ==
    ASSUME IInv, UNCHANGED vars
    PROVE  IInv'
BY DEF IInv, TypeOK, Good, OnPath, Watches, Creation, Deletion, LeftListed, Succeeded, vars

LEMMA NextIInv ==
    ASSUME IInv, [Next]_vars
    PROVE  IInv'
<1>1. CASE SetNsId
    BY <1>1, SetNsIdKeeps
<1>2. ASSUME NEW c \in Client,
             \/ Start(c) \/ GetOS(c) \/ HeadBucket(c) \/ Put(c) \/ List(c) \/ BucketList(c)
             \/ deleteObjectBatch(c) \/ Remove(c) \/ ForceDelete(c) \/ DeleteObject(c)
             \/ Open(c) \/ Create(c) \/ Close(c)
      PROVE  IInv'
    BY <1>2, StartKeeps, GetOSKeeps, HeadBucketKeeps, PutKeeps, ListKeeps, BucketListKeeps,
        deleteObjectBatchKeeps, RemoveKeeps, ForceDeleteKeeps, DeleteObjectKeeps, OpenKeeps,
        CreateKeeps, CloseKeeps
<1>3. CASE UNCHANGED vars
    BY <1>3, StutterKeeps
<1> QED BY <1>1, <1>2, <1>3, NextCases

\* Every operation follows the steps of its kind, a creation knows where the bucket
\* is while it is under way, and a deletion has nothing left that it did not list.
THEOREM Invariant == Spec => []IInv
<1>1. Init => IInv
    BY InitIInv
<1>2. IInv /\ [Next]_vars => IInv'
    BY NextIInv
<1> QED BY <1>1, <1>2, PTL DEF Spec

\* The variables keep their types; there are no objects where there is no bucket.
THEOREM TypeInvariant == Spec => []TypeOK
<1>1. IInv => TypeOK
    BY DEF IInv
<1> QED BY <1>1, Invariant, PTL

\* A bucket whose creation was answered with success was there during the request,
\* in the namespace the request came for (ObjectstorageCreateBucketHandler).
THEOREM CreatedExistsInvariant == Spec => []CreatedExists
<1>1. IInv => CreatedExists
    BY DEF IInv, Good, Creation, CreatedExists
<1> QED BY <1>1, Invariant, PTL

\* A deletion that was answered with success has seen a bucket go in the namespace
\* of its last request (DeleteBucket, ObjectstorageDeleteBucketHandler).
THEOREM DeletedHasGoneInvariant == Spec => []DeletedHasGone
<1>1. IInv => DeletedHasGone
    BY DEF IInv, Good, Deletion, DeletedHasGone
<1> QED BY <1>1, Invariant, PTL

--------------------------------------------------------------------------------
(* What a deletion takes with it.                                               *)

\* A batch is part of what was listed.
LEMMA BatchIsListed ==
    ASSUME IInv, NEW c \in Client, deleteObjectBatch(c)
    PROVE  \A n \in Ns : objects[n] \ objects'[n] \subseteq op[c].listed
<1>1. op[c].left \subseteq op[c].listed /\ op[c].ns \in Ns /\ objects \in [Ns -> SUBSET Key]
    BY KindAtStep, TypeOfOp DEF deleteObjectBatch, IInv, TypeOK, Good, LeftListed
<1>2. PICK B \in Batches(op[c].left) : \E K \in SUBSET B : objects' = [objects EXCEPT ![op[c].ns] = @ \ K]
    BY DEF deleteObjectBatch
<1>3. B \subseteq op[c].left
    BY DEF Batches
<1> QED BY <1>1, <1>2, <1>3

\* Only a batch of the deletion itself moves the deletion of a task and takes objects.
LEMMA DropTakesListed ==
    ASSUME IInv, Next, NEW c \in Client, op[c].kind = "drop", op'[c] # op[c], NEW n \in Ns
    PROVE  objects[n] \ objects'[n] \subseteq op[c].listed
<1>1. CASE UNCHANGED objects
    BY <1>1
<1>2. ASSUME NEW d \in Client, deleteObjectBatch(d) \/ ForceDelete(d) \/ DeleteObject(d) \/ Close(d)
      PROVE  objects[n] \ objects'[n] \subseteq op[c].listed
    <2>1. \A e \in Client \ {d} : op'[e] = op[e]
        BY <1>2, TypeOfOp DEF IInv, deleteObjectBatch, ForceDelete, DeleteObject, Close, Answer
    <2>2. d = c
        BY <2>1
    <2>3. deleteObjectBatch(c)
        BY <1>2, <2>2, KindAtStep DEF ForceDelete, DeleteObject, Close
    <2> QED BY <2>3, BatchIsListed
<1>3. SetNsId => UNCHANGED objects
    BY DEF SetNsId
<1>4. ASSUME NEW d \in Client, \/ Start(d) \/ GetOS(d) \/ HeadBucket(d) \/ Put(d) \/ List(d)
                               \/ BucketList(d) \/ Remove(d) \/ Open(d) \/ Create(d)
      PROVE  UNCHANGED objects
    BY <1>4 DEF Start, Begin, GetOS, HeadBucket, Put, List, BucketList, Remove, Open, Create
<1> QED BY <1>1, <1>2, <1>3, <1>4, NextCases

\* The deletion of a task takes no object that it has not listed: what others upload
\* under new keys while it sends its batches stays (DeleteBucket of the file systems).
THEOREM DropSparesNewcomersProperty == Spec => DropSparesNewcomers
<1> DEFINE Spares == \A c \in Client : op[c].kind = "drop" /\ op'[c] # op[c] =>
                         \A n \in Ns : objects[n] \ objects'[n] \subseteq op[c].listed
<1>1. IInv /\ [Next]_vars => [Spares]_vars
    BY DropTakesListed
<1> QED BY <1>1, Invariant, PTL DEF Spec, DropSparesNewcomers

--------------------------------------------------------------------------------
(* Transfers.  The argument is a conservation law: while a pool works, every    *)
(* listed object is in exactly one place, from the list to the results.         *)


Working == main \in {"send", "collect"}
Holding == {"open", "create", "copy", "close"}

AllExited == \A w \in Worker : pc[w] = "exited"

\* Types; a worker has an object just when it is about to do something with it;
\* none is at work before the pool is made and after it was waited for.
TypeInv ==
  /\ TransferTypeOK
  /\ \A w \in Worker : cur[w] # NoObject <=> pc[w] \in Holding
  /\ ~Working \/ drained => AllExited

\* The channel jobs is closed and empty before a worker ends.
Stages ==
  /\ \A w \in Worker : pc[w] = "exited" => unclosed[w] = {}
  /\ main = "prepare" => listed = {}
  /\ main = "send" => ~closed /\ ~drained
  /\ main = "collect" => closed /\ unsent = {}
  /\ Working => \A w \in Worker : pc[w] = "exited" => closed /\ jobs = {}

Held(o) == \E w \in Worker : cur[w] = o
Answered(o) == \E r \in results : r.obj = o

\* Every listed object is somewhere, and nothing else is.
Conserved ==
  \A o \in Object :
    o \in listed <=> o \in unsent \/ o \in jobs \/ Held(o) \/ Answered(o)
                     \/ o \in told \/ o \in failed

\* No object is in two places.
Apart ==
  /\ \A o \in unsent : o \notin jobs /\ ~Held(o) /\ ~Answered(o) /\ o \notin told /\ o \notin failed
  /\ \A o \in jobs : ~Held(o) /\ ~Answered(o) /\ o \notin told /\ o \notin failed
  /\ \A w \in Worker : cur[w] # NoObject =>
       ~Answered(cur[w]) /\ cur[w] \notin told /\ cur[w] \notin failed
  /\ \A v, w \in Worker : cur[v] = cur[w] /\ cur[v] # NoObject => v = w
  /\ \A r \in results : r.obj \notin told /\ r.obj \notin failed
  /\ \A r, s \in results : r.obj = s.obj => r = s
  /\ told \cap failed = {}

ConserveInv == Stages /\ (Working => Conserved /\ Apart) /\ EveryObjectReported

\* A result that says success is true as long as the pool works: what a worker
\* of MPut has yet to close has failed.
\* An object that a copy skips has the right size, or another one shares its key but
\* for case.
Skipped(o) ==
  /\ mode = "Copy"
  /\ \/ dst[o] \in {"same", "whole"}
     \/ \E v \in Object \ {o} : Fold[v] = Fold[o] /\ dst[v] # "absent"
Failing(o) == o \in failed \/ [obj |-> o, ok |-> FALSE] \in results
Truthful ==
  /\ \A o \in told : dst[o] = "whole"
  /\ \A r \in results : r.ok => dst[r.obj] = "whole"
  /\ \A w \in Worker : \A o \in unclosed[w] : Failing(o)
  /\ \A o \in passed \ listed : Skipped(o)

TruthInv == (Working /\ mode # "MGet" => Truthful) /\ SuccessMeansWhole

CopyInv == CopyNeverTruncates /\ (mode = "Copy" => \A w \in Worker : unclosed[w] = {})

-----------------------------------------------------------------------------
WorkerSteps == {"take", "open", "create", "copy", "close", "exited"}

\* Every step keeps the types.
LEMMA TypeStep == TypeInv /\ [TransferNext]_transferVars => TypeInv'
<1> SUFFICES ASSUME TypeInv, [TransferNext]_transferVars PROVE TypeInv'
  OBVIOUS
<1> USE Assumptions DEF TypeInv, TransferTypeOK, Contents, Holding
<1>1. CASE BeginTransfer
  BY <1>1 DEF Working, AllExited, BeginTransfer, pool
<1>2. CASE PrepareFails \/ PrepareWithoutFilter
  BY <1>2 DEF Working, AllExited, PrepareFails, PrepareWithoutFilter, pool
<1>3. CASE PrepareList
  <2>2. wanted' \subseteq Object /\ passed' \subseteq Object /\ listed' \subseteq Object
    BY <1>3 DEF PrepareList
  <2>3. /\ pc' = [w \in Worker |-> "take"] /\ unsent' = listed' /\ jobs' = {} /\ closed' = FALSE
        /\ results' = {} /\ drained' = FALSE /\ told' = {} /\ failed' = {} /\ main' = "send"
        /\ main = "prepare" /\ UNCHANGED <<mode, dst, cur, unclosed, result, runs>>
    BY <1>3 DEF Working, AllExited, PrepareList
  <2> QED
    BY <2>2, <2>3 DEF Working, AllExited
<1>4. CASE Send
  BY <1>4 DEF Working, AllExited, Send
<1>5. CASE CloseJobs
  BY <1>5 DEF Working, AllExited, CloseJobs
<1>6. CASE Collect
  BY <1>6 DEF Working, AllExited, Collect
<1>7. CASE Return \/ CloseResults
  BY <1>7 DEF Working, AllExited, Return, CloseResults, ResultOf, AllDone, pool
<1>8. ASSUME NEW w \in Worker, WorkerStep(w) PROVE TypeInv'
  <2> pc[w] # "exited"
    BY <1>8 DEF WorkerStep, Take, OpenSource, CreateTarget, CopyAll, CopyBreaks, CloseTarget, Exit
  <2> Working /\ ~drained
    BY DEF AllExited
  <2> UNCHANGED <<main, drained>>
    BY ONLY <1>8 DEF WorkerStep, Take, OpenSource, CreateTarget, CopyAll, CopyBreaks, CloseTarget, Exit
  <2> ~(~Working \/ drained)'
    BY DEF Working
  <2>0. CASE Take(w)
    BY <2>0 DEF Take, WorkerGoes
  <2>1. CASE Exit(w)
    BY <2>1 DEF Exit, WorkerGoes
  <2> SUFFICES ASSUME pc[w] \in Holding PROVE TypeInv'
    BY <1>8, <2>0, <2>1 DEF WorkerStep, OpenSource, CreateTarget, CopyAll, CopyBreaks, CloseTarget
  <2>2. cur[w] \in Object
    OBVIOUS
  <2>3. ASSUME NEW ok \in BOOLEAN, Report(w, ok)
        PROVE  /\ results' \subseteq [obj : Object, ok : BOOLEAN]
               /\ pc' \in [Worker -> WorkerSteps] /\ cur' \in [Worker -> Object \cup {NoObject}]
               /\ \A v \in Worker : cur'[v] # NoObject <=> pc'[v] \in Holding
    <3>1. [obj |-> cur[w], ok |-> ok] \in [obj : Object, ok : BOOLEAN]
      BY <2>2
    <3> QED
      BY <2>3, <3>1 DEF Report, WorkerGoes, WorkerSteps
  <2>4. ASSUME NEW next \in Holding, WorkerGoes(w, next), UNCHANGED <<results, cur>>
        PROVE  /\ results' \subseteq [obj : Object, ok : BOOLEAN]
               /\ pc' \in [Worker -> WorkerSteps] /\ cur' \in [Worker -> Object \cup {NoObject}]
               /\ \A v \in Worker : cur'[v] # NoObject <=> pc'[v] \in Holding
    BY <2>4 DEF WorkerGoes, WorkerSteps
  <2>5. CASE OpenSource(w)
    BY <2>2, <2>3, <2>4, <2>5 DEF OpenSource, WorkerSteps
  <2>6. CASE CreateTarget(w)
    BY <2>2, <2>3, <2>4, <2>6 DEF CreateTarget, WorkerSteps
  <2>7. CASE CopyAll(w)
    BY <2>2, <2>3, <2>4, <2>7 DEF CopyAll, WorkerSteps
  <2>8. CASE CopyBreaks(w)
    BY <2>2, <2>3, <2>4, <2>8 DEF CopyBreaks, WorkerSteps, Abandon
  <2>9. CASE CloseTarget(w)
    BY <2>2, <2>3, <2>4, <2>9 DEF CloseTarget, WorkerSteps
  <2> QED
    BY <1>8, <2>0, <2>1, <2>5, <2>6, <2>7, <2>8, <2>9 DEF WorkerStep
<1>9. CASE UNCHANGED transferVars
  BY <1>9 DEF transferVars, pool, Working, AllExited
<1> QED
  BY <1>1, <1>2, <1>3, <1>4, <1>5, <1>6, <1>7, <1>8, <1>9 DEF TransferNext, MainStep

-----------------------------------------------------------------------------
(* A worker's step, as far as the objects are concerned: it takes one, goes  *)
(* on with it, reports it, or ends.                                          *)

WorkerGoesOn(w) ==
  /\ \E next \in Holding : WorkerGoes(w, next)
  /\ UNCHANGED <<jobs, cur, results, unclosed>>

Reports(w) ==
  /\ \E ok \in BOOLEAN : Report(w, ok)
  /\ UNCHANGED jobs
  /\ \A v \in Worker : v # w => unclosed'[v] = unclosed[v]

\* What a step of a worker leaves alone, and which of the four it is.
LEMMA WorkerShape ==
  ASSUME TypeInv, NEW w \in Worker, WorkerStep(w)
  PROVE  /\ UNCHANGED <<mode, main, wanted, passed, listed, unsent, closed, drained, told, failed, result, runs>>
         /\ Working /\ ~drained
         /\ Take(w) \/ Exit(w) \/ (pc[w] \in Holding /\ (WorkerGoesOn(w) \/ Reports(w)))
<1>1. UNCHANGED <<mode, main, wanted, passed, listed, unsent, closed, drained, told, failed, result, runs>>
  BY DEF WorkerStep, Take, OpenSource, CreateTarget, CopyAll, CopyBreaks, CloseTarget, Exit
<1>2. pc[w] # "exited"
  BY DEF WorkerStep, Take, OpenSource, CreateTarget, CopyAll, CopyBreaks, CloseTarget, Exit
<1>3. Working /\ ~drained
  BY <1>2 DEF TypeInv, TransferTypeOK, AllExited
<1>4. CASE Take(w) \/ Exit(w)
  BY <1>1, <1>3, <1>4
<1>5. CASE OpenSource(w)
  BY <1>1, <1>3, <1>5 DEF OpenSource, Holding, WorkerGoesOn, Reports
<1>6. CASE CreateTarget(w)
  BY <1>1, <1>3, <1>6 DEF CreateTarget, Holding, WorkerGoesOn, Reports
<1>7. CASE CopyAll(w)
  BY <1>1, <1>3, <1>7 DEF CopyAll, Holding, WorkerGoesOn, Reports
<1>8. CASE CopyBreaks(w)
  BY <1>1, <1>3, <1>8 DEF CopyBreaks, Abandon, Holding, WorkerGoesOn, Reports, TypeInv, TransferTypeOK
<1>9. CASE CloseTarget(w)
  BY <1>1, <1>3, <1>9 DEF CloseTarget, Holding, WorkerGoesOn, Reports
<1> QED
  BY <1>4, <1>5, <1>6, <1>7, <1>8, <1>9 DEF WorkerStep

\* The stages of the pool are kept.
LEMMA StagesStep == TypeInv /\ Stages /\ [TransferNext]_transferVars => Stages'
<1> SUFFICES ASSUME TypeInv, Stages, [TransferNext]_transferVars PROVE Stages'
  OBVIOUS
<1>1. CASE BeginTransfer \/ PrepareFails \/ PrepareWithoutFilter
  BY <1>1 DEF TypeInv, TransferTypeOK, AllExited, Stages, Working, BeginTransfer, PrepareFails, PrepareWithoutFilter, pool
<1>2. CASE PrepareList
  BY <1>2 DEF TypeInv, TransferTypeOK, AllExited, Stages, Working, PrepareList
<1>3. CASE Send \/ CloseJobs
  BY <1>3 DEF TypeInv, TransferTypeOK, AllExited, Stages, Working, Send, CloseJobs
<1>4. CASE Collect \/ Return \/ CloseResults
  BY <1>4 DEF TypeInv, TransferTypeOK, AllExited, Stages, Working, Collect, Return, CloseResults, pool
<1>5. ASSUME NEW w \in Worker, WorkerStep(w) PROVE Stages'
  <2>1. /\ UNCHANGED <<main, listed, unsent, closed, drained>> /\ Working /\ ~drained
        /\ Take(w) \/ Exit(w) \/ (pc[w] \in Holding /\ (WorkerGoesOn(w) \/ Reports(w)))
    BY <1>5, WorkerShape
  <2>2. CASE Take(w)
    BY <2>1, <2>2 DEF Take, WorkerGoes, Stages, Working, TypeInv, TransferTypeOK
  <2>3. CASE Exit(w)
    BY <2>1, <2>3 DEF Exit, WorkerGoes, Stages, Working, TypeInv, TransferTypeOK
  <2>4. CASE WorkerGoesOn(w)
    BY <2>1, <2>4 DEF WorkerGoesOn, Holding, WorkerGoes, Stages, Working, TypeInv, TransferTypeOK
  <2>5. CASE Reports(w)
    BY <2>1, <2>5 DEF Reports, Report, WorkerGoes, Stages, Working, TypeInv, TransferTypeOK
  <2> QED
    BY <2>1, <2>2, <2>3, <2>4, <2>5
<1>6. CASE UNCHANGED transferVars
  BY <1>6 DEF transferVars, pool, Stages, Working
<1> QED
  BY <1>1, <1>2, <1>3, <1>4, <1>5, <1>6 DEF TransferNext, MainStep

-----------------------------------------------------------------------------
\* While the pool works, its steps move objects from place to place and lose none.
LEMMA MainConserves ==
  ASSUME TypeInv, TypeInv', Working, Conserved, Apart, Send \/ CloseJobs \/ Collect \/ CloseResults
  PROVE  Conserved' /\ Apart'
<1> USE DEF TypeInv, TransferTypeOK
<1>1. CASE Send
  <2>1. PICK o \in unsent : unsent' = unsent \ {o} /\ jobs' = jobs \cup {o}
    BY <1>1 DEF Send
  <2>2. UNCHANGED <<listed, cur, results, told, failed>>
    BY <1>1 DEF Send
  <2> QED
    BY <2>1, <2>2 DEF Conserved, Apart, Held, Answered
<1>2. CASE CloseJobs \/ CloseResults
  BY <1>2 DEF CloseJobs, CloseResults, Conserved, Apart, Held, Answered
<1>3. CASE Collect
  <2>1. PICK r \in results : /\ results' = results \ {r}
                             /\ told' = IF r.ok THEN told \cup {r.obj} ELSE told
                             /\ failed' = IF r.ok THEN failed ELSE failed \cup {r.obj}
    BY <1>3 DEF Collect
  <2>2. UNCHANGED <<listed, unsent, jobs, cur>>
    BY <1>3 DEF Collect
  <2>3. r.obj \in Object /\ Answered(r.obj)
    BY DEF Answered
  <2>4. \A o \in Object : Answered(o)' <=> Answered(o) /\ o # r.obj
    BY <2>1 DEF Answered, Apart
  <2>5. \A o \in Object : o \in told' \/ o \in failed' <=> o \in told \/ o \in failed \/ o = r.obj
    BY <2>1, <2>3
  <2>6. Conserved'
    BY <2>2, <2>3, <2>4, <2>5 DEF Conserved, Held
  <2>7. Apart'
    BY <2>1, <2>2, <2>3, <2>4, <2>5 DEF Apart, Held
  <2> QED
    BY <2>6, <2>7
<1> QED
  BY <1>1, <1>2, <1>3

LEMMA WorkerConserves ==
  ASSUME TypeInv, TypeInv', Conserved, Apart, NEW w \in Worker, WorkerStep(w)
  PROVE  Conserved' /\ Apart'
<1> USE DEF TypeInv, TransferTypeOK
<1>1. /\ UNCHANGED <<listed, unsent, told, failed>>
      /\ Take(w) \/ Exit(w) \/ (pc[w] \in Holding /\ (WorkerGoesOn(w) \/ Reports(w)))
  BY WorkerShape
<1>2. CASE Take(w)
  <2>1. PICK o \in jobs : jobs' = jobs \ {o} /\ cur' = [cur EXCEPT ![w] = o]
    BY <1>2 DEF Take
  <2>2. results' = results /\ cur[w] = NoObject /\ o # NoObject
    BY <1>2, Assumptions DEF Take, Holding
  <2>3. \A x \in Object : Held(x)' <=> Held(x) \/ x = o
    BY <2>1, <2>2, Assumptions DEF Held
  <2>4. Conserved'
    BY <1>1, <2>1, <2>2, <2>3 DEF Conserved, Answered
  <2>5. Apart'
    BY <1>1, <2>1, <2>2, <2>3 DEF Apart, Answered, Held
  <2> QED
    BY <2>4, <2>5
<1>3. CASE Exit(w) \/ WorkerGoesOn(w)
  BY <1>1, <1>3 DEF Exit, WorkerGoesOn, Conserved, Apart, Held, Answered
<1>4. CASE pc[w] \in Holding /\ Reports(w)
  <2>1. PICK ok \in BOOLEAN : Report(w, ok)
    BY <1>4 DEF Reports
  <2>2. /\ jobs' = jobs /\ cur' = [cur EXCEPT ![w] = NoObject]
        /\ results' = results \cup {[obj |-> cur[w], ok |-> ok]}
    BY <1>4, <2>1 DEF Reports, Report
  <2>3. cur[w] \in Object /\ cur[w] # NoObject /\ Held(cur[w])
    BY <1>4 DEF Held
  <2>4. \A x \in Object : Held(x)' <=> Held(x) /\ x # cur[w]
    BY <2>2, <2>3, Assumptions DEF Held, Apart
  <2>5. \A x \in Object : Answered(x)' <=> Answered(x) \/ x = cur[w]
    <3> DEFINE new == [obj |-> cur[w], ok |-> ok]
    <3>1. results' = results \cup {new} /\ new.obj = cur[w]
      BY <2>2
    <3> HIDE DEF new
    <3> QED
      BY ONLY <3>1 DEF Answered
  <2>6. Conserved'
    BY <1>1, <2>2, <2>3, <2>4, <2>5 DEF Conserved
  <2>7. Apart'
    BY <1>1, <2>2, <2>3, <2>4, <2>5 DEF Apart, Answered
  <2> QED
    BY <2>6, <2>7
<1> QED
  BY <1>1, <1>2, <1>3, <1>4

-----------------------------------------------------------------------------
LEMMA ConserveStep ==
  TypeInv /\ TypeInv' /\ ConserveInv /\ [TransferNext]_transferVars => ConserveInv'
<1> SUFFICES ASSUME TypeInv, TypeInv', ConserveInv, [TransferNext]_transferVars PROVE ConserveInv'
  OBVIOUS
<1> Stages /\ Stages'
  BY StagesStep DEF ConserveInv
<1> USE DEF ConserveInv
<1> SUFFICES (Working' => Conserved' /\ Apart') /\ EveryObjectReported'
  OBVIOUS
<1>1. CASE BeginTransfer \/ PrepareFails \/ PrepareWithoutFilter
  <2>1. ~Working' /\ (~Returned' \/ listed' = {})
    BY <1>1 DEF BeginTransfer, PrepareFails, PrepareWithoutFilter, Working, Returned, Stages, pool
  <2> QED
    BY <2>1 DEF EveryObjectReported
<1>2. CASE PrepareList
  <2>1. /\ listed' \subseteq Object /\ unsent' = listed' /\ jobs' = {} /\ results' = {} /\ told' = {}
        /\ failed' = {} /\ cur' = cur /\ main' = "send"
    BY <1>2 DEF PrepareList, TypeInv, TransferTypeOK
  <2>2. \A w \in Worker : cur'[w] = NoObject
    BY <1>2, <2>1 DEF PrepareList, TypeInv, TransferTypeOK, Working, AllExited, Holding
  <2>3. Conserved' /\ Apart'
    BY <2>1, <2>2, Assumptions DEF Conserved, Apart, Held, Answered
  <2> QED
    BY <2>1, <2>3 DEF EveryObjectReported, Returned
<1>3. CASE Send \/ CloseJobs \/ Collect \/ CloseResults
  <2>1. Working /\ ~Returned'
    BY <1>3 DEF Send, CloseJobs, Collect, CloseResults, Working, Returned
  <2> QED
    BY <1>3, <2>1, MainConserves DEF EveryObjectReported
<1>4. CASE Return
  <2>1. /\ main = "collect" /\ drained /\ results = {} /\ main' = "done"
        /\ UNCHANGED <<listed, told, failed>>
    BY <1>4 DEF Return, pool
  <2>2. unsent = {} /\ jobs = {} /\ \A o \in Object : ~Held(o)
    BY <2>1, Assumptions DEF TypeInv, TransferTypeOK, Stages, Working, AllExited, Holding, Held
  <2>3. \A o \in Object : o \in listed <=> o \in told \/ o \in failed
    BY <2>1, <2>2 DEF Conserved, Working, Answered
  <2>4. listed = told \cup failed /\ told \cap failed = {}
    BY <2>1, <2>3 DEF TypeInv, TransferTypeOK, Apart, Working
  <2> QED
    BY <2>1, <2>4 DEF EveryObjectReported, Working
<1>5. ASSUME NEW w \in Worker, WorkerStep(w)
      PROVE  (Working' => Conserved' /\ Apart') /\ EveryObjectReported'
  <2>1. Working /\ main' = main
    BY <1>5, WorkerShape
  <2> QED
    BY <1>5, <2>1, WorkerConserves DEF EveryObjectReported, Returned, Working
<1>6. CASE UNCHANGED transferVars
  BY <1>6 DEF transferVars, pool, Working, Conserved, Apart, Held, Answered, EveryObjectReported, Returned
<1> QED
  BY <1>1, <1>2, <1>3, <1>4, <1>5, <1>6 DEF TransferNext, MainStep

LEMMA InitInductive == TransferInit => TypeInv /\ ConserveInv /\ CopyInv
<1> SUFFICES ASSUME TransferInit PROVE TypeInv /\ ConserveInv /\ CopyInv
  OBVIOUS
<1>1. TypeInv
  <2>1. TransferTypeOK
    <3>1. dst \in [Object -> Contents] /\ runs \in 0..MaxRuns
      BY Assumptions DEF TransferInit, Contents
    <3>2. /\ unclosed \in [Worker -> SUBSET Object] /\ cur \in [Worker -> Object \cup {NoObject}]
          /\ pc \in [Worker -> WorkerSteps]
      BY DEF TransferInit, WorkerSteps
    <3> QED
      BY <3>1, <3>2 DEF TransferInit, TransferTypeOK, WorkerSteps
  <2> QED
    BY <2>1 DEF TransferInit, TypeInv, Holding, AllExited
<1>2. ConserveInv
  BY DEF TransferInit, ConserveInv, Stages, Working, EveryObjectReported, Returned
<1>3. CopyInv
  BY DEF TransferInit, CopyInv, CopyNeverTruncates
<1> QED
  BY <1>1, <1>2, <1>3

\* In every execution all variables keep their types: transfers of any number
\* of objects by any number of workers.
THEOREM TransferTypeInvariant == TransferSpec => []TransferTypeOK
<1>1. TransferSpec => []TypeInv
  BY InitInductive, TypeStep, PTL DEF TransferSpec
<1>2. TypeInv => TransferTypeOK
  BY DEF TypeInv
<1> QED
  BY <1>1, <1>2, PTL

\* The transfers return one result for every object they listed, whatever fails.
THEOREM EveryObjectReportedInvariant == TransferSpec => []EveryObjectReported
<1>1. TransferSpec => [](TypeInv /\ ConserveInv)
  BY InitInductive, TypeStep, ConserveStep, PTL DEF TransferSpec
<1>2. TypeInv /\ ConserveInv => EveryObjectReported
  BY DEF ConserveInv
<1> QED
  BY <1>1, <1>2, PTL

-----------------------------------------------------------------------------
\* What a copy skips stays as it was found: workers write only what is listed, and
\* remove nothing.
LEMMA SkippedStays ==
  ASSUME NEW o \in Object, Skipped(o), mode' = mode, dst'[o] = dst[o],
         \A v \in Object : dst[v] # "absent" => dst'[v] # "absent"
  PROVE  Skipped(o)'
BY DEF Skipped

\* The steps of a worker keep the results of a copy or an upload true.
LEMMA WorkerTruthful ==
  ASSUME TypeInv, TypeInv', Conserved, Apart, Truthful, mode # "MGet",
         NEW w \in Worker, WorkerStep(w)
  PROVE  Truthful'
<1> USE DEF TypeInv, TransferTypeOK
<1>1. UNCHANGED <<mode, wanted, passed, listed, told, failed>>
  BY WorkerShape
<1>2. pc[w] \in Holding => cur[w] \in listed /\ cur[w] \in Object
  BY DEF Conserved, Held
<1>3. ASSUME NEW ok \in BOOLEAN, Report(w, ok)
      PROVE  /\ \A r \in results' : r \in results \/ (r.obj = cur[w] /\ r.ok = ok)
             /\ \A o \in Object : Failing(o) => Failing(o)'
             /\ \A o \in Object : o = cur[w] /\ ~ok => Failing(o)'
  <2> DEFINE new == [obj |-> cur[w], ok |-> ok]
  <2>1. results' = results \cup {new} /\ new.obj = cur[w] /\ new.ok = ok
    BY <1>3 DEF Report
  <2>2. ~ok => new = [obj |-> cur[w], ok |-> FALSE]
    OBVIOUS
  <2> HIDE DEF new
  <2>3. \A r \in results' : r \in results \/ (r.obj = cur[w] /\ r.ok = ok)
    BY ONLY <2>1
  <2>4. \A o \in Object : Failing(o) => Failing(o)'
    BY ONLY <1>1, <2>1 DEF Failing
  <2>5. \A o \in Object : o = cur[w] /\ ~ok => Failing(o)'
    BY ONLY <2>1, <2>2 DEF Failing
  <2> QED
    BY <2>3, <2>4, <2>5
<1>4. dst' = dst => \A o \in passed' \ listed' : Skipped(o)'
  BY ONLY Truthful, <1>1 DEF Truthful, Skipped
<1>5. CASE Take(w)
  BY <1>1, <1>5, <1>4 DEF Take, Truthful, Failing
<1>6. CASE OpenSource(w)
  <2>1. UNCHANGED <<dst, unclosed>> /\ (results' = results \/ Report(w, FALSE))
    BY <1>6 DEF OpenSource
  <2>2. CASE results' = results
    BY <1>1, <1>4, <2>1, <2>2 DEF Truthful, Failing
  <2>3. CASE Report(w, FALSE)
    BY <1>1, <1>3, <1>4, <2>1, <2>3 DEF Truthful
  <2> QED
    BY <2>1, <2>2, <2>3
<1>7. CASE CreateTarget(w)
  <2>1. UNCHANGED <<dst, unclosed>> /\ (results' = results \/ Report(w, FALSE))
    BY <1>7 DEF CreateTarget
  <2>2. CASE results' = results
    BY <1>1, <1>4, <2>1, <2>2 DEF Truthful, Failing
  <2>3. CASE Report(w, FALSE)
    BY <1>1, <1>3, <1>4, <2>1, <2>3 DEF Truthful
  <2> QED
    BY <2>1, <2>2, <2>3
<1>8. CASE CopyAll(w)
  BY <1>1, <1>8, <1>4 DEF CopyAll, Truthful, Failing
<1>9. CASE CopyBreaks(w)
  <2>1. /\ dst' = dst /\ Report(w, FALSE) /\ pc[w] \in Holding
        /\ \A v \in Worker : unclosed'[v] \subseteq unclosed[v] \cup {cur[w]}
    BY <1>9 DEF CopyBreaks, Abandon, Holding
  <2>2. PICK x \in Object : x = cur[w]
    BY <1>2, <2>1
  <2>3. Failing(x)' /\ \A o \in Object : Failing(o) => Failing(o)'
    <3>1. FALSE \in BOOLEAN /\ Report(w, FALSE)
      BY <2>1
    <3>2. /\ \A o \in Object : Failing(o) => Failing(o)'
          /\ \A o \in Object : o = cur[w] /\ ~FALSE => Failing(o)'
      BY ONLY <1>3, <3>1
    <3> QED
      BY ONLY <2>2, <3>2
  <2>4. \A r \in results' : r.ok => dst'[r.obj] = "whole"
    BY <1>3, <2>1 DEF Truthful
  <2>5. ASSUME NEW v \in Worker, NEW o \in unclosed'[v] PROVE Failing(o)'
    <3>1. o \in unclosed[v] \/ o = x
      BY <2>1, <2>2
    <3>2. unclosed[v] \subseteq Object
      OBVIOUS
    <3>3. \A u \in unclosed[v] : Failing(u)
      BY ONLY Truthful, v \in Worker DEF Truthful
    <3> QED
      BY ONLY <2>3, <3>1, <3>2, <3>3
  <2>6. \A o \in told' : dst'[o] = "whole"
    BY <1>1, <2>1 DEF Truthful
  <2>7. \A o \in passed' \ listed' : Skipped(o)'
    BY <1>4, <2>1
  <2> QED
    BY <2>4, <2>5, <2>6, <2>7 DEF Truthful
<1>10. CASE CloseTarget(w)
  <2>1. PICK ok \in BOOLEAN : Report(w, ok) /\ (ok => dst' = [dst EXCEPT ![cur[w]] = "whole"])
    BY <1>10 DEF CloseTarget
  <2>2. unclosed' = unclosed /\ dst' \in {dst, [dst EXCEPT ![cur[w]] = "whole"]}
    BY <1>10 DEF CloseTarget
  <2>3. cur[w] \in listed /\ cur[w] \in Object
    BY <1>2, <1>10 DEF CloseTarget, Holding
  <2>4. /\ \A o \in Object : dst[o] = "whole" => dst'[o] = "whole"
        /\ \A o \in Object \ listed : dst'[o] = dst[o]
        /\ ok => dst'[cur[w]] = "whole"
    BY <2>1, <2>2, <2>3
  <2>5. \A o \in passed' \ listed' : Skipped(o)'
    BY <1>1, <2>2, <2>3, <2>4, SkippedStays DEF Truthful, Contents
  <2> QED
    BY <1>1, <1>3, <2>1, <2>2, <2>4, <2>5 DEF Truthful
<1>11. CASE Exit(w)
  <2>1. PICK sent \in SUBSET unclosed[w] :
          dst' = [o \in Object |-> IF o \in sent THEN "part" ELSE dst[o]]
    BY <1>11 DEF Exit
  <2>2. UNCHANGED results /\ \A v \in Worker : unclosed'[v] \subseteq unclosed[v]
    BY <1>11 DEF Exit
  <2>3. \A o \in sent : Failing(o) /\ o \in Object
    BY DEF Truthful
  <2>4. \A o \in sent : o \in listed /\ o \notin told /\ \A r \in results : r.ok => r.obj # o
    <3> SUFFICES ASSUME NEW o \in sent
                 PROVE  o \in listed /\ o \notin told /\ \A r \in results : r.ok => r.obj # o
      OBVIOUS
    <3>1. CASE o \in failed
      BY <2>3, <3>1 DEF Conserved, Apart
    <3>2. CASE [obj |-> o, ok |-> FALSE] \in results
      <4> DEFINE said == [obj |-> o, ok |-> FALSE]
      <4>1. said \in results /\ said.obj = o /\ ~said.ok
        BY <3>2
      <4> HIDE DEF said
      <4> QED
        BY <2>3, <4>1 DEF Conserved, Apart, Answered
    <3> QED
      BY <2>3, <3>1, <3>2 DEF Failing
  <2>5. \A o \in Object \ sent : dst'[o] = dst[o]
    BY <2>1
  <2>6. \A v \in Object : dst[v] # "absent" => dst'[v] # "absent"
    BY <2>1
  <2>7. \A o \in passed' \ listed' : Skipped(o)'
    BY <1>1, <2>4, <2>5, <2>6, SkippedStays DEF Truthful
  <2> QED
    BY <1>1, <2>2, <2>4, <2>5, <2>7 DEF Truthful, Failing
<1> QED
  BY <1>5, <1>6, <1>7, <1>8, <1>9, <1>10, <1>11 DEF WorkerStep

LEMMA TruthStep ==
  TypeInv /\ TypeInv' /\ ConserveInv /\ TruthInv /\ [TransferNext]_transferVars => TruthInv'
<1> SUFFICES ASSUME TypeInv, TypeInv', ConserveInv, TruthInv, [TransferNext]_transferVars PROVE TruthInv'
  OBVIOUS
<1> USE DEF TypeInv, TransferTypeOK
<1>1. CASE BeginTransfer \/ PrepareFails \/ PrepareWithoutFilter
  <2>1. ~Working' /\ ~(main' = "done" /\ result' = "ok")
    BY <1>1 DEF BeginTransfer, PrepareFails, PrepareWithoutFilter, Working
  <2> QED
    BY <2>1 DEF TruthInv, SuccessMeansWhole
<1>2. CASE PrepareList
  <2>1. PICK markers : ToList(wanted', markers, passed', listed')
    BY <1>2 DEF PrepareList
  <2>2. /\ main' = "send" /\ results' = {} /\ told' = {} /\ wanted' \subseteq Object
        /\ UNCHANGED <<mode, dst, unclosed>>
    BY <1>2 DEF PrepareList
  <2>3. \A w \in Worker : unclosed[w] = {}
    BY <1>2 DEF PrepareList, Working, AllExited, ConserveInv, Stages
  <2>4. ASSUME mode # "MGet", NEW o \in passed' \ listed' PROVE Skipped(o)
    <3>1. mode = "Copy" /\ o \in Object
      BY <1>2, <2>1, <2>4, Assumptions DEF ToList, PrepareList
    <3>2. o \notin markers /\ ToSkip(o)
      BY <2>1, <2>4, <3>1 DEF ToList, DownloadLists
    <3> QED
      BY <3>1, <3>2 DEF ToSkip, Matches, SameSize, Skipped
  <2>5. mode # "MGet" => \A o \in passed' \ listed' : Skipped(o)'
    BY <2>2, <2>4 DEF Skipped
  <2> QED
    BY <2>2, <2>3, <2>5 DEF TruthInv, Truthful, SuccessMeansWhole
<1>3. CASE Send \/ CloseJobs \/ CloseResults
  BY <1>3 DEF Send, CloseJobs, CloseResults, Working, TruthInv, Truthful, Failing, Skipped,
              SuccessMeansWhole
<1>4. CASE Collect
  <2>1. PICK r \in results : /\ results' = results \ {r}
                             /\ told' = IF r.ok THEN told \cup {r.obj} ELSE told
                             /\ failed' = IF r.ok THEN failed ELSE failed \cup {r.obj}
    BY <1>4 DEF Collect
  <2>2. main = "collect" /\ UNCHANGED <<mode, main, dst, wanted, passed, listed, unclosed>>
    BY <1>4 DEF Collect
  <2>3. \A o \in Object : Failing(o) => Failing(o)'
    BY <2>1 DEF Failing
  <2>4. mode # "MGet" => Truthful'
    BY <2>1, <2>2, <2>3 DEF TruthInv, Truthful, Working, Skipped
  <2> QED
    BY <2>2, <2>4 DEF TruthInv, SuccessMeansWhole
<1>5. CASE Return
  <2>1. /\ main = "collect" /\ drained /\ results = {} /\ main' = "done" /\ result' = ResultOf
        /\ UNCHANGED <<mode, dst, wanted, passed, listed, failed>>
    BY <1>5 DEF Return, pool
  <2>2. unsent = {} /\ jobs = {} /\ \A o \in Object : ~Held(o)
    BY <2>1, Assumptions DEF ConserveInv, Stages, Working, AllExited, Holding, Held
  <2>3. \A o \in listed : o \in told \/ o \in failed
    BY <2>1, <2>2 DEF ConserveInv, Conserved, Working, Answered
  <2>4. mode # "MGet" => Truthful
    BY <2>1 DEF TruthInv, Working
  <2> QED
    BY <2>1, <2>3, <2>4 DEF TruthInv, Truthful, Skipped, SuccessMeansWhole, ResultOf, Working
<1>6. ASSUME NEW w \in Worker, WorkerStep(w) PROVE TruthInv'
  <2>1. Working /\ UNCHANGED <<mode, main>>
    BY <1>6, WorkerShape
  <2>2. mode # "MGet" => Truthful'
    BY <1>6, <2>1, WorkerTruthful DEF TruthInv, ConserveInv
  <2> QED
    BY <2>1, <2>2 DEF TruthInv, SuccessMeansWhole, Working
<1>7. CASE UNCHANGED transferVars
  BY <1>7 DEF transferVars, pool, TruthInv, Truthful, Failing, Skipped, Working, SuccessMeansWhole
<1> QED
  BY <1>1, <1>2, <1>3, <1>4, <1>5, <1>6, <1>7 DEF TransferNext, MainStep

-----------------------------------------------------------------------------
LEMMA CopyStep == TypeInv /\ CopyInv /\ [TransferNext]_transferVars => CopyInv'
<1> SUFFICES ASSUME TypeInv, CopyInv, [TransferNext]_transferVars, mode' = "Copy"
             PROVE  /\ \A o \in Object : dst'[o] # "part"
                    /\ \A w \in Worker : unclosed'[w] = {}
  BY DEF CopyInv, CopyNeverTruncates
<1> USE DEF TypeInv, TransferTypeOK, CopyInv, CopyNeverTruncates
<1>1. mode = "Copy"
  BY DEF TransferNext, MainStep, WorkerStep, transferVars, BeginTransfer, PrepareFails, PrepareWithoutFilter, PrepareList,
         Send, CloseJobs, Collect, Return, CloseResults, Take, OpenSource, CreateTarget, CopyAll, CopyBreaks,
         CloseTarget, Exit
<1>2. CASE BeginTransfer \/ MainStep \/ CloseResults
  <2>1. UNCHANGED <<dst, unclosed>>
    BY <1>2 DEF MainStep, BeginTransfer, PrepareFails, PrepareWithoutFilter, PrepareList, Send, CloseJobs,
                Collect, Return, CloseResults, pool
  <2> QED
    BY <1>1, <2>1
<1>3. ASSUME NEW w \in Worker, WorkerStep(w)
      PROVE  /\ \A o \in Object : dst'[o] # "part"
             /\ \A v \in Worker : unclosed'[v] = {}
  <2>1. CASE Take(w) \/ OpenSource(w) \/ CreateTarget(w)
    <3>1. UNCHANGED <<dst, unclosed>>
      BY <1>1, <2>1 DEF Take, OpenSource, CreateTarget
    <3> QED
      BY <1>1, <3>1
  <2>2. CASE CopyAll(w) \/ CopyBreaks(w)
    <3>1. UNCHANGED <<dst, unclosed>>
      BY <1>1, <2>2 DEF CopyAll, CopyBreaks, Abandon
    <3> QED
      BY <1>1, <3>1
  <2>3. CASE CloseTarget(w)
    <3>1. unclosed' = unclosed /\ dst' \in {dst, [dst EXCEPT ![cur[w]] = "whole"]}
      BY <2>3 DEF CloseTarget
    <3> QED
      BY <1>1, <3>1
  <2>4. CASE Exit(w)
    <3>1. unclosed[w] = {}
      BY <1>1
    <3>2. dst' = [o \in Object |-> dst[o]]
      BY <2>4, <3>1 DEF Exit
    <3>3. unclosed' = [unclosed EXCEPT ![w] = {}]
      BY <2>4 DEF Exit
    <3> QED
      BY <1>1, <3>2, <3>3
  <2> QED
    BY <1>3, <2>1, <2>2, <2>3, <2>4 DEF WorkerStep
<1>4. CASE UNCHANGED transferVars
  BY <1>1, <1>4 DEF transferVars, pool
<1> QED
  BY <1>2, <1>3, <1>4 DEF TransferNext

\* A copy between buckets never leaves a truncated object at the destination.
THEOREM CopyNeverTruncatesInvariant == TransferSpec => []CopyNeverTruncates
<1>1. TransferSpec => [](TypeInv /\ CopyInv)
  BY InitInductive, TypeStep, CopyStep, PTL DEF TransferSpec
<1>2. CopyInv => CopyNeverTruncates
  BY DEF CopyInv
<1> QED
  BY <1>1, <1>2, PTL

\* A copy or upload that returned nil has put every selected object at the
\* destination, whole; a copy has left only those there that have the same size.
THEOREM SuccessMeansWholeInvariant == TransferSpec => []SuccessMeansWhole
<1>1. TransferInit => TruthInv
  BY DEF TransferInit, TruthInv, Working, SuccessMeansWhole
<1>2. TransferSpec => [](TypeInv /\ ConserveInv /\ TruthInv)
  BY <1>1, InitInductive, TypeStep, ConserveStep, TruthStep, PTL DEF TransferSpec
<1>3. TruthInv => SuccessMeansWhole
  BY DEF TruthInv
<1> QED
  BY <1>2, <1>3, PTL

\* The destination does not change once the transfer has returned.
THEOREM SettledAtReturnProperty == TransferSpec => SettledAtReturn
<1>1. TypeInv /\ [TransferNext]_transferVars => [main = "done" => dst' = dst]_transferVars
  <2> SUFFICES ASSUME TypeInv, TransferNext, main = "done" PROVE dst' = dst
    OBVIOUS
  <2>1. \A w \in Worker : ~WorkerStep(w)
    BY WorkerShape DEF Working
  <2> QED
    BY <2>1 DEF TransferNext, MainStep, BeginTransfer, PrepareFails, PrepareWithoutFilter, PrepareList, Send,
                CloseJobs, Collect, Return, CloseResults
<1>2. TransferSpec => []TypeInv
  BY InitInductive, TypeStep, PTL DEF TransferSpec
<1> QED
  BY <1>1, <1>2, PTL DEF TransferSpec, SettledAtReturn
================================================================================
