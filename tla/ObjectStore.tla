------------------------------ MODULE ObjectStore ------------------------------
(***************************************************************************)
(* A bucket and its objects as the program sees them: through Tumblebug,   *)
(* one HTTP request after another, in the namespace that is active when a  *)
(* request is built.  Handlers talk to Tumblebug directly; tasks go        *)
(* through the file system of the provider (s3fs, gcpfs, ...), which are   *)
(* alike.  How objects are moved is the module OscTransfer; how executions *)
(* are recorded is the module ExecTracker.                                 *)
(***************************************************************************)
EXTENDS Naturals, FiniteSets

CONSTANTS
    Client,      \* requests and task runs at a time
    Ns,          \* namespaces
    Key,         \* object keys
    BatchSize,   \* objects of one batch of a deletion (1000)
    Engines      \* file systems of the providers

ASSUME BatchAssumption == BatchSize \in Nat \ {0}

VARIABLES
    engine,      \* the provider of the bucket
    active,      \* runtimeNsId
    alive,       \* namespaces in which the bucket exists
    objects,     \* the keys of its objects there
    op,          \* what every client does
    seen         \* history: where the bucket existed at some moment of a creation,
                 \* where it went during a deletion

vars == <<engine, active, alive, objects, op, seen>>

Kinds == {"create", "force", "object", "list", "buckets", "drop", "upload", "download"}
Steps == {"idle", "head", "put", "sign", "close", "list", "open", "batch", "remove", "force", "object",
          "buckets", "done"}

TypeOK ==
    /\ engine \in Engines /\ active \in Ns /\ alive \subseteq Ns
    /\ objects \in [Ns -> SUBSET Key]
    /\ op \in [Client -> [kind : Kinds, at : Steps, asked : Ns, ns : Ns, listed : SUBSET Key,
                          left : SUBSET Key, ok : BOOLEAN]]
    /\ seen \in [Client -> SUBSET Ns]
    /\ \A n \in Ns \ alive : objects[n] = {}

Init ==
    /\ engine \in Engines /\ active \in Ns /\ alive \in SUBSET Ns
    /\ objects \in [Ns -> SUBSET Key] /\ \A n \in Ns \ alive : objects[n] = {}
    /\ op = [c \in Client |-> [kind |-> "list", at |-> "idle", asked |-> active, ns |-> active,
                               listed |-> {}, left |-> {}, ok |-> TRUE]]
    /\ seen = [c \in Client |-> {}]

--------------------------------------------------------------------------------
(* Operations begin and end.                                                    *)

SetNsId ==
    /\ active' \in Ns
    /\ UNCHANGED <<engine, alive, objects, op, seen>>

\* The namespace is read when the path of the first request is built.
Begin(c, kind, first) ==
    /\ op[c].at \in {"idle", "done"}
    /\ op' = [op EXCEPT ![c] = [kind |-> kind, at |-> first, asked |-> active, ns |-> active,
                                listed |-> {}, left |-> {}, ok |-> TRUE]]
    /\ seen' = [seen EXCEPT ![c] = IF kind = "create" THEN alive ELSE {}]
    /\ UNCHANGED <<engine, active, alive, objects>>

Goto(c, step) == op' = [op EXCEPT ![c].at = step]
\* The same operation builds its next request, with the namespace active now.
GotoAnew(c, step) == op' = [op EXCEPT ![c].at = step, ![c].ns = active]
Answer(c, ok) == op' = [op EXCEPT ![c].at = "done", ![c].ok = @ /\ ok, ![c].listed = {}, ![c].left = {}]

ObjectstorageCreateBucketHandler(c) == Begin(c, "create", "head")
ObjectstorageDeleteBucketHandler(c) == Begin(c, "force", "force")
ObjectstorageDeleteObjectHandler(c) == Begin(c, "object", "object")
ObjectstorageObjectListHandler(c)   == Begin(c, "list", "list")
ObjectstorageBucketsHandler(c)      == Begin(c, "buckets", "buckets")
handleObjectStorageDeleteTask(c)    == Begin(c, "drop", "list")
MPut(c)                             == Begin(c, "upload", "head")
MGet(c)                             == Begin(c, "download", "list")

\* Credentials are missing or the client of the provider cannot be made.
GetOS(c) == /\ op[c].at \in {"head", "list", "buckets"} /\ op[c].kind \in {"drop", "upload", "download", "buckets"}
            /\ Answer(c, FALSE)
            /\ UNCHANGED <<engine, active, alive, objects, seen>>

--------------------------------------------------------------------------------
(* A request is carried out and answered, or carried out and its answer lost,  *)
(* or not carried out.                                                         *)

Seen(n, K) == seen' = [c \in Client |-> IF op[c].kind \in K /\ op[c].at # "done"
                                       THEN seen[c] \cup {n} ELSE seen[c]]
Made(n)    == alive' = alive \cup {n} /\ Seen(n, {"create"})
Removed(n) == alive' = alive \ {n} /\ Seen(n, {"drop", "force"})

\* What follows the creation of a bucket: an upload goes on to its objects.
Created(c, ok) ==
    IF ok /\ op[c].kind = "upload" THEN GotoAnew(c, "sign") ELSE Answer(c, ok)

\* Mutant: the second request of a creation reads the namespace again.
HeadBucket_Anew(c) ==
    /\ op[c].at = "head"
    /\ \/ op[c].ns \in alive /\ Created(c, TRUE)
       \/ GotoAnew(c, "put")
    /\ UNCHANGED <<engine, active, alive, objects, seen>>

\* HEAD: any error counts as an absent bucket.
HeadBucket(c) ==
    /\ op[c].at = "head"
    /\ \/ op[c].ns \in alive /\ Created(c, TRUE)
       \/ Goto(c, "put")
    /\ UNCHANGED <<engine, active, alive, objects, seen>>

\* PUT: a bucket that another request made meanwhile may be an error.
Put(c) ==
    /\ op[c].at = "put"
    /\ \/ Made(op[c].ns) /\ \E ok \in BOOLEAN : Created(c, ok)
       \/ Created(c, FALSE) /\ UNCHANGED <<alive, seen>>
    /\ UNCHANGED <<engine, active, objects>>

\* The listing is one answer; the objects of a filter are those of its rule.
Filters == [mode : {"y", "n", ""}, hits : SUBSET Key]
MatchCandidate(flt, k) == /\ flt.mode = "y" => k \notin flt.hits
                          /\ flt.mode = "n" => k \in flt.hits

Found(c, K) ==
    CASE op[c].kind = "drop" ->
            op' = [op EXCEPT ![c].listed = K, ![c].left = K, ![c].ns = active,
                             ![c].at = IF K = {} THEN "remove" ELSE "batch"]
      [] op[c].kind = "download" ->
            op' = [op EXCEPT ![c].left = K, ![c].ns = active, ![c].at = "open"]
      [] OTHER -> Answer(c, TRUE)

List(c) ==
    /\ op[c].at = "list"
    /\ \/ /\ op[c].ns \in alive
          /\ \E flt \in Filters :
                /\ op[c].kind = "drop" => flt.mode = ""
                /\ Found(c, {k \in objects[op[c].ns] : MatchCandidate(flt, k)})
       \/ Answer(c, FALSE)
    /\ UNCHANGED <<engine, active, alive, objects, seen>>

BucketList(c) ==
    /\ op[c].at = "buckets" /\ \E ok \in BOOLEAN : Answer(c, ok)
    /\ UNCHANGED <<engine, active, alive, objects, seen>>

\* A batch is sent, whole or in part carried out; its error is not returned.
Batches(K) == {B \in SUBSET K : Cardinality(B) = IF Cardinality(K) < BatchSize THEN Cardinality(K) ELSE BatchSize}

deleteObjectBatch(c) ==
    /\ op[c].at = "batch"
    /\ \E B \in Batches(op[c].left) :
          /\ \E K \in SUBSET B : objects' = [objects EXCEPT ![op[c].ns] = @ \ K]
          /\ op' = [op EXCEPT ![c].left = @ \ B, ![c].ns = active,
                              ![c].at = IF op[c].left = B THEN "remove" ELSE "batch"]
    /\ UNCHANGED <<engine, active, alive, seen>>

\* Mutant: the last request takes the objects with it.
Remove_Force(c) ==
    /\ op[c].at = "remove"
    /\ \/ /\ op[c].ns \in alive
          /\ Removed(op[c].ns) /\ \E ok \in BOOLEAN : Answer(c, ok)
          /\ objects' = [objects EXCEPT ![op[c].ns] = {}]
       \/ Answer(c, FALSE) /\ UNCHANGED <<alive, seen, objects>>
    /\ UNCHANGED <<engine, active>>

\* Mutant: the bucket goes while it has objects.
Remove_Full(c) ==
    /\ op[c].at = "remove"
    /\ \/ Removed(op[c].ns) /\ \E ok \in BOOLEAN : Answer(c, ok)
       \/ Answer(c, FALSE) /\ UNCHANGED <<alive, seen>>
    /\ UNCHANGED <<engine, active, objects>>

\* DELETE of the bucket, which is refused while it has objects.
Remove(c) ==
    /\ op[c].at = "remove"
    /\ \/ /\ op[c].ns \in alive /\ objects[op[c].ns] = {}
          /\ Removed(op[c].ns) /\ \E ok \in BOOLEAN : Answer(c, ok)
       \/ Answer(c, FALSE) /\ UNCHANGED <<alive, seen>>
    /\ UNCHANGED <<engine, active, objects>>

\* Mutant: option=empty, which takes the objects and answers before the bucket is gone.
ForceDelete_Empty(c) ==
    /\ op[c].at = "force"
    /\ \/ /\ op[c].ns \in alive
          /\ \E ok \in BOOLEAN : Answer(c, ok)
          /\ objects' = [objects EXCEPT ![op[c].ns] = {}]
       \/ /\ \E K \in SUBSET objects[op[c].ns] : objects' = [objects EXCEPT ![op[c].ns] = @ \ K]
          /\ Answer(c, FALSE)
    /\ UNCHANGED <<engine, active, alive, seen>>

\* DELETE with option=force takes the objects, too; it may give up half-way.
ForceDelete(c) ==
    /\ op[c].at = "force"
    /\ \/ /\ op[c].ns \in alive
          /\ Removed(op[c].ns) /\ \E ok \in BOOLEAN : Answer(c, ok)
          /\ objects' = [objects EXCEPT ![op[c].ns] = {}]
       \/ /\ \E K \in SUBSET objects[op[c].ns] : objects' = [objects EXCEPT ![op[c].ns] = @ \ K]
          /\ Answer(c, FALSE) /\ UNCHANGED <<alive, seen>>
    /\ UNCHANGED <<engine, active>>

DeleteObject(c) ==
    /\ op[c].at = "object"
    /\ \/ /\ op[c].ns \in alive
          /\ \E k \in Key : objects' = [objects EXCEPT ![op[c].ns] = @ \ {k}]
          /\ \E ok \in BOOLEAN : Answer(c, ok)
       \/ Answer(c, FALSE) /\ UNCHANGED objects
    /\ UNCHANGED <<engine, active, alive, seen>>

\* One object is opened: a signed URL and a GET.  What went since the listing is
\* an error; the others go on.
Open(c) ==
    /\ op[c].at = "open"
    /\ \/ \E k \in op[c].left, there \in BOOLEAN :
             /\ there => k \in objects[op[c].ns]
             /\ op' = [op EXCEPT ![c].left = @ \ {k}, ![c].ns = active, ![c].ok = @ /\ there]
       \/ op[c].left = {} /\ Answer(c, TRUE)
    /\ UNCHANGED <<engine, active, alive, objects, seen>>

\* Create asks for a signed URL of one object; what is written to it is buffered.
Create(c) ==
    /\ op[c].at = "sign"
    /\ \/ Goto(c, "close")
       \/ op' = [op EXCEPT ![c].ok = FALSE, ![c].ns = active]
       \/ Answer(c, TRUE)        \* there are no more objects
    /\ UNCHANGED <<engine, active, alive, objects, seen>>

\* Close sends the object to the URL.
Close(c) ==
    /\ op[c].at = "close"
    /\ \/ /\ op[c].ns \in alive
          /\ \E k \in Key : objects' = [objects EXCEPT ![op[c].ns] = @ \cup {k}]
          /\ \E ok \in BOOLEAN : op' = [op EXCEPT ![c].ok = @ /\ ok, ![c].at = "sign", ![c].ns = active]
       \/ /\ op' = [op EXCEPT ![c].ok = FALSE, ![c].at = "sign", ![c].ns = active]
          /\ UNCHANGED objects
    /\ UNCHANGED <<engine, active, alive, seen>>

--------------------------------------------------------------------------------
(* The handlers, which talk to Tumblebug themselves, and the file systems.      *)

CreateBucketHandlerStep(c) == op[c].kind = "create" /\ (HeadBucket(c) \/ Put(c))
DeleteHandlerStep(c)       == ForceDelete(c) \/ DeleteObject(c)
ListHandlerStep(c)         == op[c].kind = "list" /\ List(c)

ByTask(c) == op[c].kind \in {"drop", "upload", "download", "buckets"}
Buckets(c, e) == engine = e /\ ByTask(c) /\ (HeadBucket(c) \/ Put(c) \/ deleteObjectBatch(c) \/ Remove(c))
Transfers(c, e) == engine = e /\ (Open(c) \/ Create(c) \/ Close(c))
Lists(c, e) == engine = e /\ ByTask(c) /\ (List(c) \/ BucketList(c))

S3FSBuckets(c)        == Buckets(c, "s3fs")
S3FSTransfers(c)      == Transfers(c, "s3fs")
S3FSLists(c)          == Lists(c, "s3fs")
GCPfsBuckets(c)       == Buckets(c, "gcpfs")
GCPfsTransfers(c)     == Transfers(c, "gcpfs")
GCPfsLists(c)         == Lists(c, "gcpfs")
AlibabaFSBuckets(c)   == Buckets(c, "alibabafs")
AlibabaFSTransfers(c) == Transfers(c, "alibabafs")
AlibabaFSLists(c)     == Lists(c, "alibabafs")
IBMFSBuckets(c)       == Buckets(c, "ibmfs")
IBMFSTransfers(c)     == Transfers(c, "ibmfs")
IBMFSLists(c)         == Lists(c, "ibmfs")
KTFSBuckets(c)        == Buckets(c, "ktfs")
KTFSTransfers(c)      == Transfers(c, "ktfs")
KTFSLists(c)          == Lists(c, "ktfs")
TencentFSBuckets(c)   == Buckets(c, "tencentfs")
TencentFSTransfers(c) == Transfers(c, "tencentfs")
TencentFSLists(c)     == Lists(c, "tencentfs")

FileSystems(c) ==
    \/ S3FSBuckets(c) \/ S3FSTransfers(c) \/ S3FSLists(c)
    \/ GCPfsBuckets(c) \/ GCPfsTransfers(c) \/ GCPfsLists(c)
    \/ AlibabaFSBuckets(c) \/ AlibabaFSTransfers(c) \/ AlibabaFSLists(c)
    \/ IBMFSBuckets(c) \/ IBMFSTransfers(c) \/ IBMFSLists(c)
    \/ KTFSBuckets(c) \/ KTFSTransfers(c) \/ KTFSLists(c)
    \/ TencentFSBuckets(c) \/ TencentFSTransfers(c) \/ TencentFSLists(c)

Requests(c) ==
    \/ ObjectstorageCreateBucketHandler(c) \/ ObjectstorageDeleteBucketHandler(c)
    \/ ObjectstorageDeleteObjectHandler(c) \/ ObjectstorageObjectListHandler(c)
    \/ ObjectstorageBucketsHandler(c) \/ handleObjectStorageDeleteTask(c) \/ MPut(c) \/ MGet(c)

Next ==
    \/ SetNsId
    \/ \E c \in Client :
          \/ Requests(c) \/ GetOS(c) \/ CreateBucketHandlerStep(c) \/ DeleteHandlerStep(c)
          \/ ListHandlerStep(c) \/ FileSystems(c)

Spec == Init /\ [][Next]_vars

--------------------------------------------------------------------------------
(* Properties.                                                                  *)

Succeeded(c, K) == op[c].kind \in K /\ op[c].at = "done" /\ op[c].ok

\* A request to create the bucket that was answered with success: the bucket was
\* there, at some moment of the request, in the namespace the request came for,
\* though others may create and delete it and switch the namespace meanwhile.
CreatedExists == \A c \in Client : Succeeded(c, {"create"}) => op[c].asked \in seen[c]

\* A deletion that was answered with success has seen a bucket go, by its own
\* last request or together with another's: in the namespace of that request.
DeletedHasGone == \A c \in Client : Succeeded(c, {"drop", "force"}) => op[c].ns \in seen[c]

\* The deletion of a task removes no object that it has not seen in its listing:
\* what others upload meanwhile under new keys stays.
DropSparesNewcomers ==
    [][\A c \in Client : op[c].kind = "drop" /\ op'[c] # op[c] =>
          \A n \in Ns : objects[n] \ objects'[n] \subseteq op[c].listed]_vars

\* "Check and delete all objects in the bucket and delete the bucket": the bucket
\* that goes is the one whose objects were listed.  Not so when SetNsId comes in between.
DropsWhatItListed == \A c \in Client : Succeeded(c, {"drop"}) => op[c].asked \in seen[c]

================================================================================
