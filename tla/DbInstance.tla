------------------------------ MODULE DbInstance ------------------------------
(***************************************************************************)
(* The database instances of service/rdbinstance and service/nrdbinstance: *)
(* instances at a provider (CSP), the rows of tbrdbinstance or             *)
(* tbnrdbinstance, the handlers that create, list, delete and repair them, *)
(* and the goroutines that finish an instance in the background.  Rows of  *)
(* different providers never meet, so one behaviour has one `kind'.        *)
(***************************************************************************)
EXTENDS Naturals, FiniteSets

CONSTANTS
    Request,      \* goroutines that serve requests
    Id,           \* ids the CSP can give
    Name,         \* names users give
    NoId,         \* the empty id
    Kinds,        \* the services and providers to consider
    MaxRequests   \* bound: requests served in a behaviour

Rdb(provider)  == [service |-> "rdb", provider |-> provider]
Nrdb(provider) == [service |-> "nrdb", provider |-> provider]

\* What providerFor of each service knows.
AllKinds == {Rdb(x) : x \in {"aws", "alibaba", "gcp", "ncp"}}
            \cup {Nrdb(x) : x \in {"alibaba", "gcp", "ncp"}}

ASSUME KindsAssumption == Kinds \subseteq AllKinds
ASSUME NoIdAssumption  == NoId \notin Id
ASSUME BoundAssumption == MaxRequests \in Nat
ASSUME NameAssumption  == Name # {}
ASSUME FiniteAssumption == IsFiniteSet(Request) /\ IsFiniteSet(Id)

VARIABLES
    kind,         \* the service and the provider
    status,       \* at the CSP: the state of each instance
    listed,       \* at the CSP: the instances its listing shows
    account,      \* at the CSP: the instances with a master account
    network,      \* at the CSP: there is a network with a switch (subnet)
    rows,         \* in the table: the ids that have a row
    nameOf,       \* in the table: instance_name
    pending,      \* in the table: public_net_pending
    failed,       \* in the table: account_create_failed
    req,          \* what each request is doing
    bg,           \* provisionInBackground of each instance
    served, crashed,
    \* History, which no action reads:
    lost,         \* instances whose row is known to be missing
    unsure,       \* instances whose flags may be wrong after a failure
    miscounted    \* taken names that the duplicate check let through

csp   == <<status, listed, account>>
table == <<rows, nameOf, pending, failed>>
hist  == <<lost, unsure, miscounted>>
vars  == <<kind, csp, network, table, req, bg, served, crashed, hist>>

Ids      == Id \cup {NoId}
Statuses == {"free", "creating", "running", "deleting", "gone"}
Steps    == {"idle", "network", "vpc", "create", "visible", "insert",
             "list", "prune", "delete", "unrecord", "retry", "unflag"}
Stages   == {"none", "wait", "allocate", "rule", "clear", "again", "account", "flag",
             "done", "dead"}
Idle     == [at |-> "idle", name |-> CHOOSE n \in Name : TRUE, id |-> NoId,
             snap |-> {}, seen |-> {}]

Live(i)       == status[i] \in {"creating", "running"}
NeedsNetwork  == kind.provider \in {"alibaba", "ncp"}
HasFlags      == kind = Rdb("alibaba")
Creating(p)   == req[p].at \in {"network", "vpc", "create", "visible", "insert"}

TypeOK ==
    /\ kind \in Kinds
    /\ status \in [Id -> Statuses]
    /\ listed \subseteq Id /\ account \subseteq Id
    /\ network \in BOOLEAN
    /\ rows \subseteq Ids /\ pending \subseteq rows /\ failed \subseteq rows
    /\ nameOf \in [Ids -> Name]
    /\ req \in [Request -> [at : Steps, name : Name, id : Ids,
                            snap : SUBSET Ids, seen : SUBSET Id]]
    /\ bg \in [Id -> Stages]
    /\ served \in 0..MaxRequests /\ crashed \in BOOLEAN
    /\ lost \subseteq Id /\ unsure \subseteq Id /\ miscounted \subseteq Name

Init ==
    /\ kind \in Kinds
    /\ status = [i \in Id |-> "free"]
    /\ listed = {} /\ account = {}
    /\ network = FALSE
    /\ rows = {} /\ pending = {} /\ failed = {}
    /\ nameOf = [i \in Ids |-> Idle.name]
    /\ req = [p \in Request |-> Idle]
    /\ bg = [i \in Id |-> "none"]
    /\ served = 0 /\ crashed = FALSE
    /\ lost = {} /\ unsure = {} /\ miscounted = {}

---------------------------------------------------------------------------
(* The handlers.  A request that does not validate changes nothing.        *)

At(p, step)  == req[p].at = step
To(p, step)  == req' = [req EXCEPT ![p].at = step]
Answer(p)    == req' = [req EXCEPT ![p] = Idle]

\* A request is accepted, and what it goes on with.
Accept(p, r) ==
    /\ At(p, "idle") /\ served < MaxRequests
    /\ served' = served + 1
    /\ req' = [req EXCEPT ![p] = r]
    /\ UNCHANGED <<kind, csp, network, table, bg, crashed, lost, unsure>>

Known == {i \in Id : status[i] # "free"}

Taken(n) == \E i \in rows : nameOf[i] = n

\* Mutant: the name is not looked up.
CheckDuplicate_Never(p, n) ==
    /\ Accept(p, [Idle EXCEPT !.at = IF NeedsNetwork THEN "network" ELSE "create", !.name = n])
    /\ UNCHANGED miscounted

\* The error of Count is dropped: a database that fails looks like no duplicate.
CheckDuplicate(p, n) ==
    LET first == IF NeedsNetwork THEN "network" ELSE "create" IN
    \/ Taken(n) /\ Accept(p, Idle) /\ UNCHANGED miscounted
    \/ /\ Accept(p, [Idle EXCEPT !.at = first, !.name = n])
       /\ miscounted' = IF Taken(n) THEN miscounted \cup {n} ELSE miscounted

FindByNamespace(p) ==
    /\ Accept(p, IF rows = {} THEN Idle ELSE [Idle EXCEPT !.at = "list", !.snap = rows])
    /\ UNCHANGED miscounted

FindByInstanceID(p, i) ==
    /\ Accept(p, IF i \in failed THEN [Idle EXCEPT !.at = "retry", !.id = i] ELSE Idle)
    /\ UNCHANGED miscounted

DeleteInstance(p, i) == Accept(p, [Idle EXCEPT !.at = "delete", !.id = i]) /\ UNCHANGED miscounted

CreateRDBInstanceHandler(p)  == kind.service = "rdb"  /\ \E n \in Name : CheckDuplicate(p, n)
CreateNRDBInstanceHandler(p) == kind.service = "nrdb" /\ \E n \in Name : CheckDuplicate(p, n)
ListRDBInstancesHandler(p)   == kind.service = "rdb"  /\ FindByNamespace(p)
ListNRDBInstancesHandler(p)  == kind.service = "nrdb" /\ FindByNamespace(p)
DeleteRDBInstanceHandler(p)  == kind.service = "rdb"  /\ \E i \in Known : DeleteInstance(p, i)
DeleteNRDBInstanceHandler(p) == kind.service = "nrdb" /\ \E i \in Known : DeleteInstance(p, i)
CreateRDBAccountHandler(p)   == HasFlags /\ \E i \in Known : FindByInstanceID(p, i)

\* The credentials, the client or a call to the CSP fails, the request is
\* cancelled or the answer is lost or empty: the handler answers the error.  What
\* was asked may have been done, and is then done without the program knowing.
ProviderFails(p) ==
    LET i == req[p].id IN
    /\ req[p].at \in {"network", "vpc", "create", "list", "delete", "retry"}
    /\ Answer(p)
    /\ \/ UNCHANGED <<csp, network, hist>>
       \/ /\ At(p, "vpc")
          /\ network' = TRUE
          /\ UNCHANGED <<csp, hist>>
       \/ /\ At(p, "create")
          /\ \E new \in Id :
                /\ status[new] = "free"
                /\ status' = [status EXCEPT ![new] = "creating"]
                /\ lost' = lost \cup {new}
          /\ UNCHANGED <<listed, account, network, unsure, miscounted>>
       \/ /\ At(p, "delete") /\ Live(i)
          /\ status' = [status EXCEPT ![i] = "deleting"]
          /\ UNCHANGED <<listed, account, network, hist>>
       \/ /\ At(p, "retry") /\ status[i] = "running"
          /\ account' = account \cup {i}
          /\ unsure' = unsure \cup {i}
          /\ UNCHANGED <<status, listed, network, lost, miscounted>>
    /\ UNCHANGED <<kind, table, bg, served, crashed>>

---------------------------------------------------------------------------
(* CreateInstance.                                                         *)

\* A switch that exists is used; else a network is made, and waited for.  For
\* Alibaba a switch counts when it has a free address and is in the one page
\* that is read, which those of the account may fail to be.
FindNetwork(p) ==
    /\ At(p, "network")
    /\ \/ network /\ To(p, "create")
       \/ (~network \/ kind.provider = "alibaba") /\ To(p, "vpc")
    /\ UNCHANGED <<kind, csp, network, table, bg, served, crashed, hist>>

FinishNetwork(p) ==
    /\ At(p, "vpc")
    /\ To(p, "create")
    /\ network' = TRUE
    /\ UNCHANGED <<kind, csp, table, bg, served, crashed, hist>>

ResolveVSwitch(p)      == kind.provider = "alibaba" /\ FindNetwork(p)
ResolveSubnet(p)       == kind.provider = "ncp"     /\ FindNetwork(p)
CreateVPCAndVSwitch(p) == kind.provider = "alibaba" /\ FinishNetwork(p)
CreateVPCAndSubnet(p)  == kind.provider = "ncp"     /\ FinishNetwork(p)

\* The CSP accepts the creation of i and answers `answer'.
Provision(p, i, answer, step, shown) ==
    /\ At(p, "create") /\ status[i] = "free"
    /\ status' = [status EXCEPT ![i] = "creating"]
    /\ listed' = IF shown THEN listed \cup {i} ELSE listed
    /\ req' = [req EXCEPT ![p].at = step, ![p].id = answer]
    /\ lost' = IF answer = i THEN lost ELSE lost \cup {i}
    /\ UNCHANGED <<kind, account, network, table, served, crashed, unsure, miscounted>>

AwsCreate(p)  == kind = Rdb("aws")  /\ \E i \in Id : Provision(p, i, i, "insert", TRUE) /\ UNCHANGED bg
GcpCreate(p)  == kind = Rdb("gcp")  /\ \E i \in Id : Provision(p, i, i, "insert", TRUE) /\ UNCHANGED bg
FireCreate(p) == kind = Nrdb("gcp") /\ \E i \in Id : Provision(p, i, i, "insert", TRUE) /\ UNCHANGED bg

\* NCP may answer no id; the goroutine then polls an instance that is not there.
NcpCreate(p) ==
    \E i \in Id : \E answer \in {i, NoId} :
        /\ Provision(p, i, answer, "insert", TRUE)
        /\ bg' = [bg EXCEPT ![i] = IF answer = i THEN "wait" ELSE "done"]

NcpMySQLCreate(p) == kind = Rdb("ncp")  /\ NcpCreate(p)
NcpMongoCreate(p) == kind = Nrdb("ncp") /\ NcpCreate(p)

\* Alibaba may list an instance late: the creation polls before it goes on.
AlibabaCreate(p) ==
    \E i \in Id, shown \in BOOLEAN : Provision(p, i, i, "visible", shown) /\ UNCHANGED bg

AlibabaRDSCreate(p) == kind = Rdb("alibaba")  /\ AlibabaCreate(p)
AlibabaDDSCreate(p) == kind = Nrdb("alibaba") /\ AlibabaCreate(p)

\* Listed, or not within 30 seconds: the goroutine is started in either case,
\* before the row is written.
WaitForInstanceVisible(p) ==
    /\ At(p, "visible")
    /\ To(p, "insert")
    /\ bg' = [bg EXCEPT ![req[p].id] = "wait"]
    /\ UNCHANGED <<kind, csp, network, table, served, crashed, hist>>

\* The row of the new instance, unless the database fails or the id (the empty
\* one) is taken; the instance then stays at the CSP without a row.
InsertRow(p) ==
    LET i == req[p].id IN
    /\ At(p, "insert")
    /\ Answer(p)
    /\ \/ /\ i \notin rows
          /\ rows' = rows \cup {i}
          /\ nameOf' = [nameOf EXCEPT ![i] = req[p].name]
          /\ pending' = IF HasFlags THEN pending \cup {i} ELSE pending
          /\ UNCHANGED <<failed, lost>>
       \/ /\ lost' = lost \cup ({i} \ {NoId})
          /\ UNCHANGED table
    /\ UNCHANGED <<kind, csp, network, bg, served, crashed, unsure, miscounted>>

---------------------------------------------------------------------------
(* ListInstances: the rows, then the CSP's listing, then the difference.   *)

Receive(p, seen) ==
    /\ At(p, "list")
    /\ req' = [req EXCEPT ![p].at = "prune", ![p].seen = seen]
    /\ lost' = lost \cup {i \in req[p].snap \cap Id : Live(i) /\ i \notin seen}
    /\ UNCHANGED <<kind, csp, network, table, bg, served, crashed, unsure, miscounted>>

\* Numbered pages move when an instance goes between two of them, the first
\* page of Cloud SQL is the only one read, and Firestore leaves out the
\* locations it cannot reach.
ReceivePart(p) == \E seen \in SUBSET listed : Receive(p, seen)

AwsList(p)         == kind = Rdb("aws")      /\ Receive(p, listed)
GcpList(p)         == kind = Rdb("gcp")      /\ ReceivePart(p)
FireList(p)        == kind = Nrdb("gcp")     /\ ReceivePart(p)
AlibabaRDSList(p)  == kind = Rdb("alibaba")  /\ ReceivePart(p)
AlibabaDDSList(p)  == kind = Nrdb("alibaba") /\ ReceivePart(p)
NcpMongoList(p)    == kind = Nrdb("ncp")     /\ Receive(p, listed)

\* Instances that are being deleted are skipped, and so is any instance whose
\* detail call fails, as if it were gone.
NcpMySQLList(p) ==
    /\ kind = Rdb("ncp")
    /\ \E seen \in SUBSET {i \in listed : status[i] # "deleting"} : Receive(p, seen)

\* Mutant: every row that was not listed is deleted, not only the snapshot's.
Prune_AllRows(p) ==
    /\ At(p, "prune")
    /\ Answer(p)
    /\ rows' = rows \cap req[p].seen
    /\ pending' = pending \cap req[p].seen /\ failed' = failed \cap req[p].seen
    /\ UNCHANGED <<nameOf, kind, csp, network, bg, served, crashed, hist>>

\* Rows of the snapshot that the CSP did not list are deleted; a failure of
\* the database is only logged.
Prune(p) ==
    LET orphans == req[p].snap \ req[p].seen IN
    /\ At(p, "prune")
    /\ Answer(p)
    /\ \/ /\ rows' = rows \ orphans
          /\ pending' = pending \ orphans /\ failed' = failed \ orphans
          /\ UNCHANGED nameOf
       \/ UNCHANGED table
    /\ UNCHANGED <<kind, csp, network, bg, served, crashed, hist>>

---------------------------------------------------------------------------
(* DeleteInstance.                                                         *)

\* The CSP deletes the instance, or says that there is none: both are success.
CspDelete(p, refused) ==
    LET i == req[p].id IN
    /\ At(p, "delete")
    /\ To(p, "unrecord")
    /\ \/ /\ Live(i)
          /\ status' = [status EXCEPT ![i] = "deleting"]
          /\ UNCHANGED lost
       \/ /\ status[i] = "gone" \/ refused
          /\ lost' = IF Live(i) THEN lost \cup {i} ELSE lost
          /\ UNCHANGED status
    /\ UNCHANGED <<kind, listed, account, network, table, bg, served, crashed, unsure,
                   miscounted>>

AwsDelete(p)        == kind = Rdb("aws")      /\ CspDelete(p, FALSE)
FireDelete(p)       == kind = Nrdb("gcp")     /\ CspDelete(p, FALSE)
NcpMySQLDelete(p)   == kind = Rdb("ncp")      /\ CspDelete(p, FALSE)
NcpMongoDelete(p)   == kind = Nrdb("ncp")     /\ CspDelete(p, FALSE)
AlibabaRDSDelete(p) == kind = Rdb("alibaba")  /\ CspDelete(p, FALSE)
AlibabaDDSDelete(p) == kind = Nrdb("alibaba") /\ CspDelete(p, FALSE)
\* Cloud SQL answers "forbidden" for some absent instances: taken for absent.
GcpDelete(p)        == kind = Rdb("gcp") /\ \E refused \in BOOLEAN : CspDelete(p, refused)

DeleteRow(p) ==
    LET i == req[p].id IN
    /\ At(p, "unrecord")
    /\ Answer(p)
    /\ \/ /\ rows' = rows \ {i}
          /\ pending' = pending \ {i} /\ failed' = failed \ {i}
          /\ UNCHANGED nameOf
       \/ UNCHANGED table
    /\ UNCHANGED <<kind, csp, network, bg, served, crashed, hist>>

---------------------------------------------------------------------------
(* CreateAccount: the retry that a user asks for.                          *)

RetryAccount(p) ==
    LET i == req[p].id IN
    /\ At(p, "retry")
    /\ status[i] = "running" /\ i \notin account
    /\ account' = account \cup {i}
    /\ To(p, "unflag")
    /\ UNCHANGED <<kind, status, listed, network, table, bg, served, crashed, hist>>

ClearFlag(p) ==
    LET i == req[p].id IN
    /\ At(p, "unflag")
    /\ Answer(p)
    /\ \/ failed' = failed \ {i} /\ UNCHANGED unsure
       \/ unsure' = unsure \cup {i} /\ UNCHANGED failed
    /\ UNCHANGED <<kind, csp, network, rows, nameOf, pending, bg, served, crashed, lost,
                   miscounted>>

---------------------------------------------------------------------------
(* provisionInBackground.  Its failures are logged and reach nobody.       *)

Stage(i, from, to) == bg[i] = from /\ bg' = [bg EXCEPT ![i] = to]

WaitForRunning(i) ==
    /\ status[i] = "running"
    /\ \/ Stage(i, "wait", IF kind.provider = "ncp" THEN "rule" ELSE "allocate")
       \/ Stage(i, "again", "account")
    /\ UNCHANGED <<kind, csp, network, table, req, served, crashed, hist>>

\* Fifteen or twenty minutes have passed, or every poll has failed.
TimedOut(i) ==
    /\ Stage(i, "wait", "done") \/ Stage(i, "again", "done")
    /\ unsure' = unsure \cup {i}
    /\ UNCHANGED <<kind, csp, network, table, req, served, crashed, lost, miscounted>>

\* The endpoint or the rule that opens the instance to the outside: when it
\* cannot be made, or is not ready in time, that is logged.
Reach(i, from, to) ==
    /\ Stage(i, from, to)
    /\ UNCHANGED <<kind, csp, network, table, req, served, crashed, hist>>

AllocatePublicConnection(i) == HasFlags /\ Reach(i, "allocate", "clear")
AllocatePublicNetwork(i)    == kind = Nrdb("alibaba") /\ Reach(i, "allocate", "done")
AddMySQLRule(i)             == kind = Rdb("ncp")  /\ Reach(i, "rule", "done")
AddMongoRule(i)             == kind = Nrdb("ncp") /\ Reach(i, "rule", "done")

\* An UPDATE that meets no row is no error.
ClearPending(i) ==
    /\ Stage(i, "clear", "again")
    /\ \/ /\ pending' = pending \ {i}
          /\ unsure' = IF i \in rows THEN unsure ELSE unsure \cup {i}
       \/ UNCHANGED pending /\ unsure' = unsure \cup {i}
    /\ UNCHANGED <<kind, csp, network, rows, nameOf, failed, req, served, crashed, lost,
                   miscounted>>

\* Mutant: the failure is logged and not recorded.
CreateMaster_LogOnly(i) ==
    /\ Stage(i, "account", "done")
    /\ \/ status[i] = "running" /\ i \notin account /\ account' = account \cup {i}
       \/ UNCHANGED account
    /\ UNCHANGED <<kind, status, listed, network, table, req, served, crashed, hist>>

\* An account whose answer is lost is there and counts as failed.
CreateMaster(i) ==
    /\ \/ /\ Stage(i, "account", "done")
          /\ status[i] = "running" /\ i \notin account
          /\ account' = account \cup {i}
          /\ UNCHANGED unsure
       \/ /\ Stage(i, "account", "flag")
          /\ \/ UNCHANGED <<account, unsure>>
             \/ /\ status[i] = "running"
                /\ account' = account \cup {i}
                /\ unsure' = unsure \cup {i}
    /\ UNCHANGED <<kind, status, listed, network, table, req, served, crashed, lost, miscounted>>

FlagFailure(i) ==
    /\ Stage(i, "flag", "done")
    /\ \/ /\ failed' = failed \cup ({i} \cap rows)
          /\ unsure' = IF i \in rows THEN unsure ELSE unsure \cup {i}
       \/ UNCHANGED failed /\ unsure' = unsure \cup {i}
    /\ UNCHANGED <<kind, csp, network, rows, nameOf, pending, req, served, crashed, lost,
                   miscounted>>

---------------------------------------------------------------------------
(* The CSP, and a crash of the process: nothing is resumed at the start.   *)

Csp(i) ==
    /\ \/ status[i] = "creating" /\ status' = [status EXCEPT ![i] = "running"] /\ UNCHANGED listed
       \/ Live(i) /\ status' = [status EXCEPT ![i] = "deleting"] /\ UNCHANGED listed
       \/ /\ status[i] = "deleting" /\ status' = [status EXCEPT ![i] = "gone"]
          /\ listed' = listed \ {i}
       \/ Live(i) /\ listed' = listed \cup {i} /\ UNCHANGED status
    /\ UNCHANGED <<kind, account, network, table, req, bg, served, crashed, hist>>

Crash ==
    /\ ~crashed
    /\ crashed' = TRUE
    /\ req' = [p \in Request |-> Idle]
    /\ bg' = [i \in Id |-> IF bg[i] \in {"none", "done"} THEN bg[i] ELSE "dead"]
    /\ lost' = lost \cup {i \in Id : \E p \in Request : req[p].id = i
                                       /\ req[p].at \in {"visible", "insert"}}
    /\ unsure' = unsure \cup {i \in Id : \/ bg[i] \notin {"none", "done"}
                                         \/ \E p \in Request : req[p].id = i /\ At(p, "unflag")}
    /\ UNCHANGED <<kind, csp, network, table, served, miscounted>>

---------------------------------------------------------------------------
Handler(p) ==
    \/ CreateRDBInstanceHandler(p) \/ CreateNRDBInstanceHandler(p)
    \/ ListRDBInstancesHandler(p) \/ ListNRDBInstancesHandler(p)
    \/ DeleteRDBInstanceHandler(p) \/ DeleteNRDBInstanceHandler(p)
    \/ CreateRDBAccountHandler(p)

Creation(p) ==
    \/ ResolveVSwitch(p) \/ ResolveSubnet(p)
    \/ CreateVPCAndVSwitch(p) \/ CreateVPCAndSubnet(p)
    \/ AwsCreate(p) \/ GcpCreate(p) \/ FireCreate(p) \/ NcpMySQLCreate(p) \/ NcpMongoCreate(p)
    \/ AlibabaRDSCreate(p) \/ AlibabaDDSCreate(p) \/ WaitForInstanceVisible(p) \/ InsertRow(p)

Listing(p) ==
    \/ AwsList(p) \/ GcpList(p) \/ FireList(p) \/ AlibabaRDSList(p) \/ AlibabaDDSList(p)
    \/ NcpMongoList(p) \/ NcpMySQLList(p)
    \/ Prune(p)

Deletion(p) ==
    \/ AwsDelete(p) \/ GcpDelete(p) \/ FireDelete(p) \/ NcpMySQLDelete(p) \/ NcpMongoDelete(p)
    \/ AlibabaRDSDelete(p) \/ AlibabaDDSDelete(p) \/ DeleteRow(p)

Repair(p) == RetryAccount(p) \/ ClearFlag(p)

Serve(p) == Creation(p) \/ Listing(p) \/ Deletion(p) \/ Repair(p) \/ ProviderFails(p)

Background(i) ==
    \/ WaitForRunning(i) \/ TimedOut(i)
    \/ AllocatePublicConnection(i) \/ AllocatePublicNetwork(i) \/ AddMySQLRule(i) \/ AddMongoRule(i)
    \/ ClearPending(i) \/ CreateMaster(i) \/ FlagFailure(i)

Next ==
    \/ \E p \in Request : Handler(p) \/ Serve(p)
    \/ \E i \in Id : Background(i) \/ Csp(i)
    \/ Crash

\* A request that was accepted and a goroutine that was started go on until
\* they end: every wait in them has a deadline.
Fairness ==
    /\ \A p \in Request : WF_vars(Serve(p))
    /\ \A i \in Id : WF_vars(Background(i))

Spec == Init /\ [][Next]_vars /\ Fairness

---------------------------------------------------------------------------
(* Properties.                                                             *)

\* An instance that costs money is in the list of the program, unless a
\* creation still holds it, the answer to its creation was lost, a creation
\* reported that it could not save it, a listing that knew its row did not show
\* it, the CSP refused to delete it, or a crash cut its creation short.
\* (rdbinstance.go: CreateInstance, ListInstances, DeleteInstance)
NothingRunsUnrecorded ==
    \A i \in Id : Live(i) /\ i \notin rows =>
        \/ i \in lost
        \/ \E p \in Request : req[p].id = i /\ req[p].at \in {"visible", "insert"}

\* CheckDuplicate is far from the insert and nothing in the table forbids two
\* rows of one name, so creations that run at once can each add one; but later
\* ones are refused, so that a name has at most one row per request that can be
\* under way at once, unless the database failed in a count.
\* (rdbInstanceRepository.go: CheckDuplicate; rdbinstance.go: CreateInstance)
RowsPerName ==
    \A n \in Name \ miscounted :
        Cardinality({i \in rows : nameOf[i] = n}) <= Cardinality(Request)

\* For an instance of Alibaba RDS whose provisioning met no failure of its own
\* (a timeout, a lost answer, a row that was not there or could not be written):
\* when it has ended, the account exists or the row says that it does not, and
\* the row is not left pending; and the row never denies an account that exists,
\* except while a retry is about to clear the flag.
AccountFlagHonest ==
    HasFlags => \A i \in (rows \cap Id) \ unsure :
        /\ bg[i] = "done" => i \in account \cup failed
        /\ i \in failed /\ i \in account => \E p \in Request : req[p].id = i /\ At(p, "unflag")
        /\ bg[i] = "done" => i \notin pending

\* An instance does not stay "creating" in the list: public_net_pending is
\* cleared, or the row goes, unless a timeout, a crash or the database got in
\* the way of the goroutine.
PendingEnds ==
    \A i \in Id : <>(i \in unsure) \/ (i \in pending ~> i \notin pending)

===============================================================================
