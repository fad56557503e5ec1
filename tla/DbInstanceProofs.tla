--------------------------- MODULE DbInstanceProofs ---------------------------
(***************************************************************************)
(* Proofs about DbInstance, for any number of requests, instances and names *)
(* and every provider.  The invariant says who may still bring a row in or  *)
(* take it out, and what they know of its instance: the facts that make a   *)
(* listing or a deletion, which read long before they write, safe.          *)
(***************************************************************************)
EXTENDS DbInstance, FiniteSetTheorems, TLAPS

\* A creation that still has to write the row of the instance it made.
Holds(p) == req[p].at \in {"visible", "insert"} /\ req[p].id \in Id

\* Ids are drawn once: a row, and a creation that has not written it yet, belong
\* to an instance that was made, and never both to the same one.
Fresh ==
    /\ \A i \in rows \cap Id : status[i] # "free"
    /\ \A p \in Request : Holds(p) => status[req[p].id] # "free" /\ req[p].id \notin rows
    /\ \A p \in Request : Holds(p) /\ At(p, "visible") => bg[req[p].id] = "none"
    /\ \A p, q \in Request : Holds(p) /\ Holds(q) /\ req[p].id = req[q].id => p = q
    /\ \A i \in Id : status[i] = "free" => bg[i] = "none"

\* The instance will never run again, or its loss has been noted.
Over(i) == i \in lost \/ status[i] \in {"deleting", "gone"}

\* What a listing will prune is over, though it read the rows and the CSP at
\* different times: an instance that was made later is not in its snapshot.
Listings ==
    \A p \in Request : req[p].at \in {"list", "prune"} =>
        \A i \in req[p].snap \cap Id :
            /\ status[i] # "free"
            /\ req[p].at = "prune" /\ i \notin req[p].seen => Over(i)

Deletions ==
    \A p \in Request : req[p].at \in {"delete", "unrecord"} =>
        /\ req[p].id \in Id /\ status[req[p].id] # "free"
        /\ req[p].at = "unrecord" => Over(req[p].id)

RowsOf(n) == {i \in rows : nameOf[i] = n}
Makers(n) == {p \in Request : Creating(p) /\ req[p].name = n}

\* The rows that a name has and those it may yet get: a creation begins when
\* there is no row, and then adds one at most.
Names ==
    \A n \in Name \ miscounted :
        Cardinality(RowsOf(n)) + Cardinality(Makers(n)) <= Cardinality(Request)

\* Accounts and their flags come at the end of the provisioning, or later by a
\* retry; an account comes before only when its answer is lost.
Accounts ==
    /\ failed \cup account \subseteq Id
    /\ \A i \in failed : bg[i] = "done"
    /\ \A i \in account : bg[i] = "done" \/ (bg[i] \in {"flag", "dead"} /\ i \in unsure)
    /\ \A p \in Request : req[p].at \in {"retry", "unflag"} =>
          req[p].id \in Id /\ bg[req[p].id] = "done" /\ (At(p, "unflag") => req[p].id \in account)

\* The goroutine of an instance whose row is still to be written has not yet
\* touched it, or that is noted; past "clear" the row is not pending.
Flags ==
    HasFlags =>
        /\ \A p \in Request : Holds(p) /\ At(p, "insert") =>
              req[p].id \in unsure \/ bg[req[p].id] \in {"wait", "allocate", "clear"}
        /\ \A i \in (rows \cap Id) \ unsure :
              /\ bg[i] \in {"again", "account", "flag", "done"} => i \notin pending
              /\ bg[i] = "done" => i \in account \cup failed
              /\ i \in failed \cap account => \E p \in Request : req[p].id = i /\ At(p, "unflag")

IInv == /\ TypeOK /\ Fresh /\ Listings /\ Deletions /\ NothingRunsUnrecorded
        /\ Names /\ Accounts /\ Flags

--------------------------------------------------------------------------------
(* Types.                                                                       *)

RecType == [at : Steps, name : Name, id : Ids, snap : SUBSET Ids, seen : SUBSET Id]

LEMMA IdleFacts ==
    Idle \in RecType /\ Idle.at = "idle" /\ Idle.id = NoId /\ Idle.name \in Name
<1>1. (CHOOSE n \in Name : TRUE) \in Name
    BY NameAssumption
<1> QED BY <1>1 DEF Idle, RecType, Steps, Ids

LEMMA ReqUpdate ==
    ASSUME TypeOK, NEW p \in Request, NEW r \in RecType, req' = [req EXCEPT ![p] = r]
    PROVE  req' \in [Request -> RecType] /\ req'[p] = r /\ \A q \in Request \ {p} : req'[q] = req[q]
BY DEF TypeOK, RecType

LEMMA StatusUpdate ==
    ASSUME TypeOK, NEW i \in Id, NEW v \in Statuses, status' = [status EXCEPT ![i] = v]
    PROVE  status' \in [Id -> Statuses] /\ status'[i] = v /\ \A j \in Id \ {i} : status'[j] = status[j]
BY DEF TypeOK

LEMMA StageUpdate ==
    ASSUME TypeOK, NEW i \in Id, NEW v \in Stages, bg' = [bg EXCEPT ![i] = v]
    PROVE  bg' \in [Id -> Stages] /\ bg'[i] = v /\ \A j \in Id \ {i} : bg'[j] = bg[j]
BY DEF TypeOK

--------------------------------------------------------------------------------
(* How many rows a name has, and may get.                                       *)

LEMMA Counted ==
    ASSUME IInv, NEW n
    PROVE  /\ IsFiniteSet(RowsOf(n)) /\ Cardinality(RowsOf(n)) \in Nat
           /\ IsFiniteSet(Makers(n)) /\ Cardinality(Makers(n)) \in Nat
           /\ Cardinality(Request) \in Nat
<1>1. IsFiniteSet(Ids)
    BY FiniteAssumption, FS_AddElement DEF Ids
<1>2. RowsOf(n) \subseteq Ids /\ Makers(n) \subseteq Request
    BY DEF IInv, TypeOK, RowsOf, Makers
<1>3. IsFiniteSet(RowsOf(n)) /\ IsFiniteSet(Makers(n))
    BY <1>1, <1>2, FiniteAssumption, FS_Subset
<1> QED BY <1>3, FiniteAssumption, FS_CardinalityType

\* A name that has no row can get one of each request, and another name keeps
\* within its bound when it gets no row and no creation.
LEMMA NamesKept ==
    ASSUME IInv, miscounted \subseteq miscounted',
           \A n \in Name \ miscounted' :
               \/ RowsOf(n)' = {}
               \/ RowsOf(n)' \subseteq RowsOf(n) /\ Makers(n)' \subseteq Makers(n)
    PROVE  Names'
<1> SUFFICES ASSUME NEW n \in Name, n \notin miscounted'
             PROVE  Cardinality(RowsOf(n)') + Cardinality(Makers(n)') <= Cardinality(Request)
    BY DEF Names
<1>1. CASE RowsOf(n)' = {}
    <2>1. Makers(n)' \subseteq Request
        BY DEF Makers
    <2>2. Cardinality(Makers(n)') <= Cardinality(Request) /\ Cardinality(Makers(n)') \in Nat
        BY <2>1, FiniteAssumption, FS_Subset, FS_CardinalityType
    <2> QED BY <1>1, <2>2, Counted, FS_EmptySet
<1>2. CASE RowsOf(n)' \subseteq RowsOf(n) /\ Makers(n)' \subseteq Makers(n)
    <2>1. Cardinality(RowsOf(n)) + Cardinality(Makers(n)) <= Cardinality(Request)
        BY DEF IInv, Names
    <2>2. Cardinality(RowsOf(n)') <= Cardinality(RowsOf(n)) /\ Cardinality(RowsOf(n)') \in Nat
        BY <1>2, Counted, FS_Subset, FS_CardinalityType
    <2>3. Cardinality(Makers(n)') <= Cardinality(Makers(n)) /\ Cardinality(Makers(n)') \in Nat
        BY <1>2, Counted, FS_Subset, FS_CardinalityType
    <2> QED BY <2>1, <2>2, <2>3, Counted
<1> QED BY <1>1, <1>2

\* A step that brings no row and no creation.
LEMMA NamesQuiet ==
    ASSUME IInv, rows' \subseteq rows, nameOf' = nameOf, miscounted' = miscounted,
           \A q \in Request : Creating(q)' => Creating(q) /\ req'[q].name = req[q].name
    PROVE  Names'
<1>1. \A n : RowsOf(n)' \subseteq RowsOf(n) /\ Makers(n)' \subseteq Makers(n)
    BY DEF RowsOf, Makers
<1> QED BY <1>1, NamesKept

--------------------------------------------------------------------------------
(* Requests are accepted and answered.                                          *)

\* Of a step that changes the record of one request, the network and what is
\* remembered of errors, only that record matters.
LEMMA ReqStep ==
    ASSUME IInv, NEW p \in Request, NEW r \in RecType, req' = [req EXCEPT ![p] = r],
           UNCHANGED <<kind, csp, table, bg, crashed, unsure>>,
           network' \in BOOLEAN, served' \in 0..MaxRequests,
           miscounted \subseteq miscounted', miscounted' \subseteq Name,
           lost \subseteq lost', lost' \subseteq Id,
           ~ Holds(p), ~ At(p, "unflag"), r.at \notin {"visible", "insert"},
           r.at \in {"list", "prune"} => \A i \in r.snap \cap Id :
               status[i] # "free" /\ (r.at = "prune" /\ i \notin r.seen => Over(i)'),
           r.at \in {"delete", "unrecord"} =>
               r.id \in Id /\ status[r.id] # "free" /\ (r.at = "unrecord" => r.id \in lost' \/ status[r.id] \in {"deleting", "gone"}),
           r.at \in {"retry", "unflag"} =>
               r.id \in Id /\ bg[r.id] = "done" /\ r.at = "retry",
           r.at \in {"network", "vpc", "create"} =>
               \/ Creating(p) /\ r.name = req[p].name
               \/ ~ Taken(r.name)
               \/ r.name \in miscounted'
    PROVE  IInv'
<1>1. req' \in [Request -> RecType] /\ req'[p] = r /\ \A q \in Request \ {p} : req'[q] = req[q]
    BY ReqUpdate DEF IInv
<1>2. /\ UNCHANGED <<kind, status, listed, account, rows, nameOf, pending, failed, bg, crashed, unsure>>
    BY DEF csp, table
<1>3. TypeOK'
    BY <1>1, <1>2 DEF IInv, TypeOK, RecType
<1>4. Fresh'
    BY <1>1, <1>2 DEF IInv, Fresh, Holds, At
<1>5. Listings'
    BY <1>1, <1>2 DEF IInv, Listings, Over
<1>6. Deletions'
    BY <1>1, <1>2 DEF IInv, Deletions, Over
<1>7. NothingRunsUnrecorded'
    BY <1>1, <1>2 DEF IInv, NothingRunsUnrecorded, Live, Holds
<1>8. Names'
    <2>1. \A q \in Request : Creating(q)' => \/ Creating(q) /\ req'[q].name = req[q].name
                                             \/ q = p /\ (~ Taken(r.name) \/ r.name \in miscounted')
        BY <1>1 DEF Creating
    <2>2. \A n : RowsOf(n)' = RowsOf(n) /\ (Taken(n) <=> RowsOf(n) # {})
        BY <1>2 DEF RowsOf, Taken
    <2>3. \A n \in Name \ miscounted' : \/ RowsOf(n)' = {}
                                        \/ RowsOf(n)' \subseteq RowsOf(n) /\ Makers(n)' \subseteq Makers(n)
        BY <1>1, <2>1, <2>2 DEF Makers
    <2> QED BY <2>3, NamesKept
<1>9. Accounts'
    BY <1>1, <1>2 DEF IInv, Accounts, At
<1>10. Flags'
    BY <1>1, <1>2 DEF IInv, Flags, HasFlags, Holds, At
<1> QED BY <1>3, <1>4, <1>5, <1>6, <1>7, <1>8, <1>9, <1>10 DEF IInv

\* Whatever a handler goes on with when it has accepted a request.
LEMMA AcceptKeeps ==
    ASSUME IInv, NEW p \in Request, NEW r \in RecType, Accept(p, r),
           miscounted \subseteq miscounted', miscounted' \subseteq Name,
           r.at \in {"idle", "network", "create", "list", "delete", "retry"},
           r.at = "list" => \A i \in r.snap \cap Id : status[i] # "free",
           r.at = "delete" => r.id \in Id /\ status[r.id] # "free",
           r.at = "retry"  => r.id \in Id /\ bg[r.id] = "done",
           r.at \in {"network", "create"} => ~ Taken(r.name) \/ r.name \in miscounted'
    PROVE  IInv'
<1>1. /\ At(p, "idle") /\ served < MaxRequests /\ served' = served + 1
      /\ req' = [req EXCEPT ![p] = r]
      /\ UNCHANGED <<kind, csp, network, table, bg, crashed, lost, unsure>>
    BY DEF Accept
<1>2. /\ served' \in 0..MaxRequests /\ network' \in BOOLEAN /\ lost' = lost /\ lost' \subseteq Id
    BY <1>1, BoundAssumption DEF IInv, TypeOK
<1>3. ~ Holds(p) /\ ~ At(p, "unflag")
    BY <1>1 DEF Holds, At
<1>4. UNCHANGED <<kind, csp, table, bg, crashed, unsure>>
    BY <1>1
<1> QED BY <1>1, <1>2, <1>3, <1>4, ReqStep

LEMMA HandlerKeeps ==
    ASSUME IInv, NEW p \in Request, Handler(p)
    PROVE  IInv'
<1>1. miscounted \subseteq Name
    BY DEF IInv, TypeOK
<1>2. ASSUME NEW n \in Name, CheckDuplicate(p, n)
      PROVE  IInv'
    <2>1. CASE Accept(p, Idle) /\ UNCHANGED miscounted
        BY <1>1, <2>1, IdleFacts, AcceptKeeps
    <2> DEFINE first == IF NeedsNetwork THEN "network" ELSE "create"
               r == [Idle EXCEPT !.at = first, !.name = n]
    <2>2. CASE /\ Accept(p, r)
               /\ miscounted' = IF Taken(n) THEN miscounted \cup {n} ELSE miscounted
        <3>1. r \in RecType /\ r.at \in {"network", "create"} /\ r.name = n
            BY IdleFacts DEF RecType, Steps
        <3>2. /\ miscounted \subseteq miscounted' /\ miscounted' \subseteq Name
              /\ ~ Taken(n) \/ n \in miscounted'
            BY <1>1, <2>2
        <3> HIDE DEF r
        <3> QED BY <2>2, <3>1, <3>2, AcceptKeeps
    <2> QED BY <1>2, <2>1, <2>2 DEF CheckDuplicate
<1>3. ASSUME FindByNamespace(p)
      PROVE  IInv'
    <2> DEFINE r == [Idle EXCEPT !.at = "list", !.snap = rows]
    <2>1. r \in RecType /\ r.at = "list" /\ r.snap = rows
        BY IdleFacts DEF IInv, TypeOK, RecType, Steps
    <2>2. \A i \in rows \cap Id : status[i] # "free"
        BY DEF IInv, Fresh
    <2>3. (Accept(p, Idle) \/ Accept(p, r)) /\ miscounted' = miscounted
        BY <1>3 DEF FindByNamespace
    <2> HIDE DEF r
    <2> QED BY <1>1, <2>1, <2>2, <2>3, IdleFacts, AcceptKeeps
<1>4. ASSUME NEW i \in Id, FindByInstanceID(p, i)
      PROVE  IInv'
    <2> DEFINE r == [Idle EXCEPT !.at = "retry", !.id = i]
    <2>1. r \in RecType /\ r.at = "retry" /\ r.id = i
        BY IdleFacts DEF RecType, Steps, Ids
    <2>2. i \in failed => bg[i] = "done"
        BY DEF IInv, Accounts
    <2>3. (Accept(p, Idle) \/ (i \in failed /\ Accept(p, r))) /\ miscounted' = miscounted
        BY <1>4 DEF FindByInstanceID
    <2> HIDE DEF r
    <2> QED BY <1>1, <2>1, <2>2, <2>3, IdleFacts, AcceptKeeps
<1>5. ASSUME NEW i \in Id, status[i] # "free", DeleteInstance(p, i)
      PROVE  IInv'
    <2> DEFINE r == [Idle EXCEPT !.at = "delete", !.id = i]
    <2>1. r \in RecType /\ r.at = "delete" /\ r.id = i
        BY IdleFacts DEF RecType, Steps, Ids
    <2>2. Accept(p, r) /\ miscounted' = miscounted
        BY <1>5 DEF DeleteInstance
    <2> HIDE DEF r
    <2> QED BY <1>1, <1>5, <2>1, <2>2, AcceptKeeps
<1> QED BY <1>2, <1>3, <1>4, <1>5
        DEF Handler, CreateRDBInstanceHandler, CreateNRDBInstanceHandler, ListRDBInstancesHandler,
            ListNRDBInstancesHandler, DeleteRDBInstanceHandler, DeleteNRDBInstanceHandler,
            CreateRDBAccountHandler, Known

\* Instances move on at the CSP, while a deletion notes that its instance is
\* over, or a request ends; an instance that comes up unseen is noted as lost.
LEMMA InstancesMove ==
    ASSUME IInv, req' \in [Request -> RecType],
           \A q \in Request :
               \/ req'[q] = req[q]
               \/ req'[q] = Idle /\ ~ Holds(q) /\ ~ At(q, "unflag")
               \/ /\ req[q].at = "delete" /\ req'[q].at = "unrecord"
                  /\ req'[q].id = req[q].id
                  /\ req[q].id \in lost' \/ status'[req[q].id] \in {"deleting", "gone"},
           status' \in [Id -> Statuses], listed' \subseteq Id, lost \subseteq lost', lost' \subseteq Id,
           \A j \in Id : /\ status[j] # "free" => status'[j] # "free"
                         /\ status[j] = "free" => status'[j] = "free" \/ j \in lost'
                         /\ status[j] \in {"deleting", "gone"} => status'[j] \in {"deleting", "gone"},
           UNCHANGED <<kind, account, network, table, bg, served, crashed, unsure, miscounted>>
    PROVE  IInv'
<1>1. UNCHANGED <<kind, account, network, rows, nameOf, pending, failed, bg, served, crashed,
                  unsure, miscounted>>
    BY DEF table
<1>2. \A q \in Request : /\ Holds(q) <=> Holds(q)'
                         /\ At(q, "unflag") <=> At(q, "unflag")'
                         /\ Creating(q)' => Creating(q) /\ req'[q].name = req[q].name
                         /\ Holds(q) \/ At(q, "unflag") => req'[q] = req[q]
    BY IdleFacts DEF Holds, Creating, At
<1>3. TypeOK'
    BY <1>1 DEF IInv, TypeOK, RecType
<1>4. Fresh'
    BY <1>1, <1>2 DEF IInv, Fresh, Holds, At
<1>5. Listings'
    BY <1>1, IdleFacts DEF IInv, Listings, Over
<1>6. Deletions'
    BY <1>1, IdleFacts DEF IInv, Deletions, Over
<1>7. NothingRunsUnrecorded'
    <2> SUFFICES ASSUME NEW i \in Id, Live(i)', i \notin rows'
                 PROVE  \/ i \in lost'
                        \/ \E q \in Request : req'[q].id = i /\ req'[q].at \in {"visible", "insert"}
        BY DEF NothingRunsUnrecorded
    <2>1. status[i] \in {"free", "creating", "running", "deleting", "gone"}
        BY DEF IInv, TypeOK, Statuses
    <2>2. Live(i) \/ i \in lost'
        BY <2>1 DEF Live
    <2>3. \A q \in Request : Holds(q) => req'[q] = req[q]
        BY <1>2
    <2> QED BY <1>1, <2>2, <2>3 DEF IInv, NothingRunsUnrecorded, Holds
<1>8. Names'
    BY <1>1, <1>2, NamesQuiet
<1>9. Accounts'
    BY <1>1, <1>2, IdleFacts DEF IInv, Accounts, At
<1>10. Flags'
    BY <1>1, <1>2 DEF IInv, Flags, HasFlags, Holds, At
<1> QED BY <1>3, <1>4, <1>5, <1>6, <1>7, <1>8, <1>9, <1>10 DEF IInv

\* The retry of an account that is made, but whose answer is lost.
LEMMA AccountUnheard ==
    ASSUME IInv, NEW p \in Request, req[p].at = "retry", req' = [req EXCEPT ![p] = Idle],
           NEW i \in Id, bg[i] = "done", account' = account \cup {i}, unsure' = unsure \cup {i},
           UNCHANGED <<kind, status, listed, network, table, bg, served, crashed, lost, miscounted>>
    PROVE  IInv'
<1>1. req' \in [Request -> RecType] /\ req'[p] = Idle /\ \A q \in Request \ {p} : req'[q] = req[q]
    BY IdleFacts, ReqUpdate DEF IInv
<1>2. UNCHANGED <<kind, status, listed, network, rows, nameOf, pending, failed, bg, served, crashed,
                  lost, miscounted>>
    BY DEF table
<1>3. \A q \in Request : /\ Holds(q) <=> Holds(q)'
                         /\ Creating(q)' => Creating(q) /\ req'[q].name = req[q].name
                         /\ At(q, "unflag") <=> At(q, "unflag")'
                         /\ Holds(q) \/ At(q, "unflag") => req'[q] = req[q]
    BY <1>1, IdleFacts DEF Holds, Creating, At
<1>4. TypeOK'
    BY <1>1, <1>2 DEF IInv, TypeOK, RecType
<1>5. Fresh'
    BY <1>2, <1>3 DEF IInv, Fresh, Holds, At
<1>6. Listings' /\ Deletions'
    BY <1>1, <1>2, IdleFacts DEF IInv, Listings, Deletions, Over
<1>7. NothingRunsUnrecorded'
    BY <1>1, <1>2 DEF IInv, NothingRunsUnrecorded, Live
<1>8. Names'
    BY <1>2, <1>3, NamesQuiet
<1>9. Accounts'
    BY <1>1, <1>2, IdleFacts DEF IInv, Accounts, At
<1>10. Flags'
    BY <1>2, <1>3 DEF IInv, Flags, HasFlags, Holds, At
<1> QED BY <1>4, <1>5, <1>6, <1>7, <1>8, <1>9, <1>10 DEF IInv

LEMMA ProviderFailsKeeps ==
    ASSUME IInv, NEW p \in Request, ProviderFails(p)
    PROVE  IInv'
<1> DEFINE i == req[p].id
<1>1. /\ req[p].at \in {"network", "vpc", "create", "list", "delete", "retry"}
      /\ req' = [req EXCEPT ![p] = Idle]
      /\ UNCHANGED <<kind, table, bg, served, crashed>>
    BY DEF ProviderFails, Answer
<1>2. req' \in [Request -> RecType] /\ req'[p] = Idle /\ \A q \in Request \ {p} : req'[q] = req[q]
    BY <1>1, IdleFacts, ReqUpdate DEF IInv
<1>3. ~ Holds(p) /\ ~ At(p, "unflag")
    BY <1>1 DEF Holds, At
<1>4. \A q \in Request : req'[q] = req[q] \/ (req'[q] = Idle /\ ~ Holds(q) /\ ~ At(q, "unflag"))
    BY <1>2, <1>3
<1>5. status \in [Id -> Statuses] /\ listed \subseteq Id /\ lost \subseteq Id /\ network \in BOOLEAN
      /\ served \in 0..MaxRequests /\ miscounted \subseteq Name
    BY DEF IInv, TypeOK
<1>6. CASE UNCHANGED <<csp, hist>> /\ network' \in BOOLEAN
    <2>1. /\ UNCHANGED <<kind, csp, table, bg, crashed, unsure>> /\ served' \in 0..MaxRequests
          /\ lost' = lost /\ lost' \subseteq Id /\ miscounted' = miscounted /\ miscounted' \subseteq Name
        BY <1>1, <1>5, <1>6 DEF hist
    <2> QED BY <1>1, <1>3, <1>6, <2>1, IdleFacts, ReqStep
<1>7. CASE /\ At(p, "create")
           /\ \E new \in Id :
                 /\ status[new] = "free"
                 /\ status' = [status EXCEPT ![new] = "creating"]
                 /\ lost' = lost \cup {new}
           /\ UNCHANGED <<listed, account, network, unsure, miscounted>>
    <2>1. PICK new \in Id : /\ status[new] = "free"
                            /\ status' = [status EXCEPT ![new] = "creating"]
                            /\ lost' = lost \cup {new}
        BY <1>7
    <2>2. /\ status' \in [Id -> Statuses] /\ status'[new] = "creating"
          /\ \A j \in Id \ {new} : status'[j] = status[j]
        BY <2>1, StatusUpdate DEF IInv, Statuses
    <2>3. /\ lost \subseteq lost' /\ lost' \subseteq Id /\ listed' \subseteq Id
          /\ UNCHANGED <<kind, account, network, table, bg, served, crashed, unsure, miscounted>>
        BY <1>1, <1>5, <1>7, <2>1
    <2>4. \A j \in Id : /\ status[j] # "free" => status'[j] # "free"
                        /\ status[j] = "free" => status'[j] = "free" \/ j \in lost'
                        /\ status[j] \in {"deleting", "gone"} => status'[j] \in {"deleting", "gone"}
        BY <2>1, <2>2
    <2> QED BY <1>2, <1>4, <2>2, <2>3, <2>4, InstancesMove
<1>8. CASE /\ At(p, "delete") /\ Live(i)
           /\ status' = [status EXCEPT ![i] = "deleting"]
           /\ UNCHANGED <<listed, account, network, hist>>
    <2>1. i \in Id
        BY <1>8 DEF IInv, Deletions, At
    <2>2. status' \in [Id -> Statuses] /\ status'[i] = "deleting" /\ \A j \in Id \ {i} : status'[j] = status[j]
        BY <1>8, <2>1, StatusUpdate DEF IInv, Statuses
    <2>3. /\ lost \subseteq lost' /\ lost' \subseteq Id /\ listed' \subseteq Id
          /\ UNCHANGED <<kind, account, network, table, bg, served, crashed, unsure, miscounted>>
        BY <1>1, <1>5, <1>8 DEF hist
    <2>4. \A j \in Id : /\ status[j] # "free" => status'[j] # "free"
                        /\ status[j] = "free" => status'[j] = "free" \/ j \in lost'
                        /\ status[j] \in {"deleting", "gone"} => status'[j] \in {"deleting", "gone"}
        BY <1>8, <2>2 DEF Live
    <2> QED BY <1>2, <1>4, <2>2, <2>3, <2>4, InstancesMove
<1>9. CASE /\ At(p, "retry") /\ account' = account \cup {i} /\ unsure' = unsure \cup {i}
           /\ UNCHANGED <<status, listed, network, lost, miscounted>>
    <2>1. i \in Id /\ bg[i] = "done"
        BY <1>9 DEF IInv, Accounts, At
    <2>2. UNCHANGED <<kind, status, listed, network, table, bg, served, crashed, lost, miscounted>>
        BY <1>1, <1>9
    <2> HIDE DEF i
    <2> QED BY <1>1, <1>9, <2>1, <2>2, AccountUnheard DEF At
<1> QED BY <1>6, <1>7, <1>8, <1>9, <1>5 DEF ProviderFails

--------------------------------------------------------------------------------
(* Creations.                                                                   *)

\* A creation moves on and keeps its name.
LEMMA CreationMoves ==
    ASSUME IInv, NEW p \in Request, req[p].at \in {"network", "vpc"},
           NEW s \in {"vpc", "create"}, To(p, s), network' \in BOOLEAN,
           UNCHANGED <<kind, csp, table, bg, served, crashed, hist>>
    PROVE  IInv'
<1>1. req' = [req EXCEPT ![p].at = s]
    BY DEF To
<1> DEFINE r == [req[p] EXCEPT !.at = s]
<1>2. r \in RecType /\ r.at = s /\ r.name = req[p].name /\ req' = [req EXCEPT ![p] = r]
    BY <1>1 DEF IInv, TypeOK, RecType, Steps
<1> HIDE DEF r
<1>3. ~ Holds(p) /\ ~ At(p, "unflag") /\ Creating(p)
    BY DEF Holds, At, Creating
<1>4. /\ UNCHANGED <<kind, csp, table, bg, crashed, unsure>>
      /\ served' \in 0..MaxRequests /\ lost' = lost /\ lost' \subseteq Id
      /\ miscounted' = miscounted /\ miscounted' \subseteq Name
    BY DEF IInv, TypeOK, hist
<1> QED BY <1>2, <1>3, <1>4, ReqStep

LEMMA FindNetworkKeeps ==
    ASSUME IInv, NEW p \in Request, FindNetwork(p)
    PROVE  IInv'
<1>1. /\ req[p].at = "network" /\ network' = network
      /\ UNCHANGED <<kind, csp, table, bg, served, crashed, hist>>
      /\ To(p, "create") \/ To(p, "vpc")
    BY DEF FindNetwork, At
<1>2. network' \in BOOLEAN
    BY <1>1 DEF IInv, TypeOK
<1> QED BY <1>1, <1>2, CreationMoves

LEMMA FinishNetworkKeeps ==
    ASSUME IInv, NEW p \in Request, FinishNetwork(p)
    PROVE  IInv'
BY CreationMoves DEF FinishNetwork, At

LEMMA ProvisionKeeps ==
    ASSUME IInv, NEW p \in Request, NEW i \in Id, NEW answer \in {i, NoId},
           NEW step \in {"visible", "insert"}, NEW shown \in BOOLEAN,
           Provision(p, i, answer, step, shown),
           bg' \in [Id -> Stages], \A j \in Id \ {i} : bg'[j] = bg[j],
           HasFlags => step = "visible", step = "visible" => bg' = bg
    PROVE  IInv'
<1>1. /\ At(p, "create") /\ status[i] = "free"
      /\ status' = [status EXCEPT ![i] = "creating"]
      /\ listed' = IF shown THEN listed \cup {i} ELSE listed
      /\ req' = [req EXCEPT ![p].at = step, ![p].id = answer]
      /\ lost' = IF answer = i THEN lost ELSE lost \cup {i}
      /\ UNCHANGED <<kind, account, network, table, served, crashed, unsure, miscounted>>
    BY DEF Provision
<1> DEFINE r == [req[p] EXCEPT !.at = step, !.id = answer]
<1>2. /\ r \in RecType /\ r.at = step /\ r.id = answer /\ r.name = req[p].name
      /\ req' = [req EXCEPT ![p] = r]
    BY <1>1 DEF IInv, TypeOK, RecType, Steps, Ids
<1> HIDE DEF r
<1>3. req' \in [Request -> RecType] /\ req'[p] = r /\ \A q \in Request \ {p} : req'[q] = req[q]
    BY <1>2, ReqUpdate DEF IInv
<1>4. status' \in [Id -> Statuses] /\ status'[i] = "creating" /\ \A j \in Id \ {i} : status'[j] = status[j]
    BY <1>1, StatusUpdate DEF IInv, Statuses
<1>5. /\ lost \subseteq lost' /\ lost' \subseteq Id /\ (answer = i \/ i \in lost')
      /\ UNCHANGED <<kind, account, network, rows, nameOf, pending, failed, served, crashed, unsure, miscounted>>
    BY <1>1 DEF IInv, TypeOK, table
<1>6. i \notin rows /\ bg[i] = "none" /\ i \notin failed \cup account
      /\ \A q \in Request : Holds(q) => req[q].id # i
    BY <1>1 DEF IInv, TypeOK, Fresh, Accounts
<1>7. TypeOK'
    BY <1>1, <1>3, <1>4, <1>5 DEF IInv, TypeOK, RecType
<1>8. Fresh'
    BY <1>2, <1>3, <1>4, <1>5, <1>6, NoIdAssumption DEF IInv, Fresh, Holds, At
<1>9. Listings'
    BY <1>1, <1>2, <1>3, <1>4, <1>5 DEF IInv, Listings, Over
<1>10. Deletions'
    BY <1>1, <1>2, <1>3, <1>4, <1>5 DEF IInv, Deletions, Over
<1>11. NothingRunsUnrecorded'
    BY <1>1, <1>2, <1>3, <1>4, <1>5 DEF IInv, NothingRunsUnrecorded, Live, At
<1>12. Names'
    <2>1. \A q \in Request : Creating(q)' => Creating(q) /\ req'[q].name = req[q].name
        BY <1>1, <1>2, <1>3 DEF Creating, At
    <2> QED BY <1>5, <2>1, NamesQuiet
<1>14. Accounts'
    BY <1>1, <1>2, <1>3, <1>5, <1>6 DEF IInv, Accounts, At
<1>15. Flags'
    <2> SUFFICES ASSUME HasFlags'
                 PROVE  Flags'
        BY DEF Flags
    <2>1. HasFlags /\ step = "visible" /\ bg' = bg
        BY <1>5 DEF HasFlags
    <2>2. \A q \in Request : Holds(q)' /\ At(q, "insert")' =>
              req'[q].id \in unsure' \/ bg'[req'[q].id] \in {"wait", "allocate", "clear"}
        BY <1>2, <1>3, <1>5, <1>6, <2>1, NoIdAssumption DEF IInv, Flags, Holds, At
    <2>3. \A j \in (rows' \cap Id) \ unsure' :
              /\ bg'[j] \in {"again", "account", "flag", "done"} => j \notin pending'
              /\ bg'[j] = "done" => j \in account' \cup failed'
              /\ j \in failed' \cap account' => \E q \in Request : req'[q].id = j /\ At(q, "unflag")'
        BY <1>1, <1>3, <1>5, <2>1 DEF IInv, Flags, At
    <2> QED BY <2>2, <2>3 DEF Flags, At
<1> QED BY <1>7, <1>8, <1>9, <1>10, <1>11, <1>12, <1>14, <1>15 DEF IInv

LEMMA WaitForInstanceVisibleKeeps ==
    ASSUME IInv, NEW p \in Request, WaitForInstanceVisible(p)
    PROVE  IInv'
<1>1. /\ At(p, "visible") /\ req' = [req EXCEPT ![p].at = "insert"]
      /\ bg' = [bg EXCEPT ![req[p].id] = "wait"]
      /\ UNCHANGED <<kind, csp, network, table, served, crashed, hist>>
    BY DEF WaitForInstanceVisible, To
<1> DEFINE r == [req[p] EXCEPT !.at = "insert"]
<1>2. /\ r \in RecType /\ r.at = "insert" /\ r.id = req[p].id /\ r.name = req[p].name
      /\ req' = [req EXCEPT ![p] = r]
    BY <1>1 DEF IInv, TypeOK, RecType, Steps, Ids
<1> HIDE DEF r
<1>3. req' \in [Request -> RecType] /\ req'[p] = r /\ \A q \in Request \ {p} : req'[q] = req[q]
    BY <1>2, ReqUpdate DEF IInv
<1>4. UNCHANGED <<kind, status, listed, account, network, rows, nameOf, pending, failed, served,
                  crashed, lost, unsure, miscounted>>
    BY <1>1 DEF csp, table, hist
<1>5. \A q \in Request : (Holds(q)' <=> Holds(q)) /\ (q # p => req'[q] = req[q])
    BY <1>1, <1>2, <1>3 DEF Holds, At
<1>6. /\ bg' \in [Id -> Stages] /\ (req[p].id \in Id => bg'[req[p].id] = "wait")
      /\ \A j \in Id : j # req[p].id => bg'[j] = bg[j]
    BY <1>1 DEF IInv, TypeOK, Stages
<1>7. req[p].id \in Id => /\ status[req[p].id] # "free" /\ req[p].id \notin rows
                          /\ req[p].id \notin failed
    BY <1>1 DEF IInv, TypeOK, Fresh, Holds, At
<1>8. TypeOK'
    BY <1>3, <1>4, <1>6 DEF IInv, TypeOK, RecType
<1>9. Fresh'
    BY <1>2, <1>3, <1>4, <1>5, <1>6, <1>7 DEF IInv, Fresh, Holds, At
<1>10. Listings' /\ Deletions' /\ NothingRunsUnrecorded'
    BY <1>1, <1>2, <1>3, <1>4 DEF IInv, Listings, Deletions, NothingRunsUnrecorded, Over, Live, At
<1>11. Names'
    <2>1. \A q \in Request : Creating(q)' => Creating(q) /\ req'[q].name = req[q].name
        BY <1>1, <1>2, <1>3 DEF Creating, At
    <2> QED BY <1>4, <2>1, NamesQuiet
<1>13. Accounts'
    BY <1>1, <1>2, <1>3, <1>4, <1>6 DEF IInv, Accounts, Fresh, Holds, At, TypeOK
<1>14. Flags'
    <2> SUFFICES ASSUME HasFlags'
                 PROVE  Flags'
        BY DEF Flags
    <2>1. HasFlags
        BY <1>4 DEF HasFlags
    <2>2. \A q \in Request : Holds(q)' /\ At(q, "insert")' =>
              req'[q].id \in unsure' \/ bg'[req'[q].id] \in {"wait", "allocate", "clear"}
        BY <1>2, <1>3, <1>4, <1>5, <1>6, <2>1 DEF IInv, Flags, Holds, At
    <2>3. \A j \in (rows' \cap Id) \ unsure' :
              /\ bg'[j] \in {"again", "account", "flag", "done"} => j \notin pending'
              /\ bg'[j] = "done" => j \in account' \cup failed'
              /\ j \in failed' \cap account' => \E q \in Request : req'[q].id = j /\ At(q, "unflag")'
        BY <1>1, <1>2, <1>3, <1>4, <1>6, <1>7, <2>1 DEF IInv, Flags, At
    <2> QED BY <2>2, <2>3 DEF Flags, At
<1> QED BY <1>8, <1>9, <1>10, <1>11, <1>13, <1>14 DEF IInv

LEMMA InsertRowKeeps ==
    ASSUME IInv, NEW p \in Request, InsertRow(p)
    PROVE  IInv'
<1> DEFINE i == req[p].id
<1>1. /\ At(p, "insert") /\ req' = [req EXCEPT ![p] = Idle]
      /\ UNCHANGED <<kind, csp, network, bg, served, crashed, unsure, miscounted>>
      /\ \/ /\ i \notin rows
            /\ rows' = rows \cup {i}
            /\ nameOf' = [nameOf EXCEPT ![i] = req[p].name]
            /\ pending' = IF HasFlags THEN pending \cup {i} ELSE pending
            /\ UNCHANGED <<failed, lost>>
         \/ /\ lost' = lost \cup ({i} \ {NoId})
            /\ UNCHANGED table
    BY DEF InsertRow, Answer
<1>2. req' \in [Request -> RecType] /\ req'[p] = Idle /\ \A q \in Request \ {p} : req'[q] = req[q]
    BY <1>1, IdleFacts, ReqUpdate DEF IInv
<1>3. UNCHANGED <<kind, status, listed, account, network, bg, served, crashed, unsure, miscounted>>
    BY <1>1 DEF csp
<1>4. /\ i \in Ids /\ req[p].name \in Name /\ failed' = failed
      /\ i \in Id => Holds(p) /\ status[i] # "free" /\ i \notin rows
    BY <1>1 DEF IInv, TypeOK, Fresh, Holds, At, table
<1>5. /\ lost \subseteq lost' /\ lost' \subseteq Id
      /\ rows' \subseteq Ids /\ rows \subseteq rows' /\ rows' \subseteq rows \cup {i}
      /\ pending' \subseteq rows' /\ pending \subseteq pending' /\ pending' \subseteq pending \cup {i}
      /\ i \in Id => i \in rows' \/ i \in lost'
    <2> HIDE DEF i
    <2>1. lost \subseteq Id /\ rows \subseteq Ids /\ pending \subseteq rows
        BY DEF IInv, TypeOK
    <2>2. CASE UNCHANGED table /\ lost' = lost \cup ({i} \ {NoId})
        BY <1>4, <2>1, <2>2, NoIdAssumption DEF table, Ids
    <2>3. CASE /\ rows' = rows \cup {i} /\ UNCHANGED lost
               /\ pending' = IF HasFlags THEN pending \cup {i} ELSE pending
        BY <1>4, <2>1, <2>3
    <2> QED BY <1>1, <2>2, <2>3 DEF i
<1>6. /\ nameOf' \in [Ids -> Name] /\ \A j \in rows : nameOf'[j] = nameOf[j]
      /\ i \in rows' => i \in rows \/ nameOf'[i] = req[p].name
    BY <1>1, <1>4 DEF IInv, TypeOK, table
<1>7. \A q \in Request : /\ Holds(q)' => Holds(q) /\ q # p /\ req'[q] = req[q]
                         /\ Creating(q)' => Creating(q) /\ q # p /\ req'[q] = req[q]
                         /\ At(q, "unflag") => q # p /\ req'[q] = req[q]
    BY <1>1, <1>2, IdleFacts DEF Holds, Creating, At
<1> HIDE DEF i
<1>8. TypeOK'
    BY <1>2, <1>3, <1>4, <1>5, <1>6 DEF IInv, TypeOK, RecType
<1>9. Fresh'
    <2>1. \A j \in rows' \cap Id : status'[j] # "free"
        BY <1>3, <1>4, <1>5 DEF IInv, Fresh
    <2>2. \A q \in Request : Holds(q)' => status'[req'[q].id] # "free" /\ req'[q].id \notin rows'
        BY <1>3, <1>4, <1>5, <1>7 DEF IInv, Fresh, Holds, i
    <2> QED BY <1>3, <1>7, <2>1, <2>2 DEF IInv, Fresh, At
<1>10. Listings' /\ Deletions'
    BY <1>2, <1>3, <1>5, IdleFacts DEF IInv, Listings, Deletions, Over
<1>11. NothingRunsUnrecorded'
    BY <1>2, <1>3, <1>5 DEF IInv, NothingRunsUnrecorded, Live, i
<1>12. Names'
    <2> SUFFICES ASSUME NEW n \in Name, n \notin miscounted
                 PROVE  Cardinality(RowsOf(n)') + Cardinality(Makers(n)') <= Cardinality(Request)
        BY <1>3 DEF Names
    <2>1. Cardinality(RowsOf(n)) + Cardinality(Makers(n)) <= Cardinality(Request)
        BY DEF IInv, Names
    <2>2. CASE n = req[p].name
        <3>1. p \in Makers(n) /\ Makers(n)' \subseteq Makers(n) \ {p}
            BY <1>1, <1>7, <2>2 DEF Makers, Creating, At
        <3>2. RowsOf(n)' \subseteq RowsOf(n) \cup {i}
            BY <1>5, <1>6 DEF RowsOf
        <3>3. Cardinality(Makers(n)') <= Cardinality(Makers(n)) - 1 /\ Cardinality(Makers(n)') \in Nat
            BY <3>1, Counted, FS_RemoveElement, FS_Subset, FS_CardinalityType
        <3>4. IsFiniteSet(RowsOf(n) \cup {i}) /\ Cardinality(RowsOf(n) \cup {i}) <= Cardinality(RowsOf(n)) + 1
              /\ Cardinality(RowsOf(n) \cup {i}) \in Nat
            <4>1. IsFiniteSet(RowsOf(n)) /\ Cardinality(RowsOf(n)) \in Nat
                BY Counted
            <4>2. /\ IsFiniteSet(RowsOf(n) \cup {i})
                  /\ Cardinality(RowsOf(n) \cup {i})
                        = IF i \in RowsOf(n) THEN Cardinality(RowsOf(n)) ELSE Cardinality(RowsOf(n)) + 1
                BY <4>1, FS_AddElement, Zenon
            <4> QED BY <4>1, <4>2
        <3>5. Cardinality(RowsOf(n)') <= Cardinality(RowsOf(n)) + 1 /\ Cardinality(RowsOf(n)') \in Nat
            BY <3>2, <3>4, Counted, FS_Subset, FS_CardinalityType
        <3> QED BY <2>1, <3>3, <3>5, Counted
    <2>3. CASE n # req[p].name
        <3>1. Makers(n)' \subseteq Makers(n)
            BY <1>7 DEF Makers
        <3>2. RowsOf(n)' \subseteq RowsOf(n)
            BY <1>5, <1>6, <2>3 DEF RowsOf
        <3>3. Cardinality(Makers(n)') <= Cardinality(Makers(n)) /\ Cardinality(Makers(n)') \in Nat
            BY <3>1, Counted, FS_Subset, FS_CardinalityType
        <3>4. Cardinality(RowsOf(n)') <= Cardinality(RowsOf(n)) /\ Cardinality(RowsOf(n)') \in Nat
            BY <3>2, Counted, FS_Subset, FS_CardinalityType
        <3> QED BY <2>1, <3>3, <3>4, Counted
    <2> QED BY <2>2, <2>3
<1>14. Accounts'
    BY <1>2, <1>3, <1>4, IdleFacts DEF IInv, Accounts, At
<1>15. Flags'
    <2> SUFFICES ASSUME HasFlags'
                 PROVE  Flags'
        BY DEF Flags
    <2>1. HasFlags
        BY <1>3 DEF HasFlags
    <2>2. i \in Id => i \in unsure \/ bg[i] \in {"wait", "allocate", "clear"}
        BY <1>1, <1>4, <2>1 DEF IInv, Flags, i
    <2>3. ASSUME NEW j \in (rows' \cap Id) \ unsure'
          PROVE  /\ bg'[j] \in {"again", "account", "flag", "done"} => j \notin pending'
                 /\ bg'[j] = "done" => j \in account' \cup failed'
                 /\ j \in failed' \cap account' => \E q \in Request : req'[q].id = j /\ At(q, "unflag")'
        <3>1. CASE j = i
            BY <1>3, <1>4, <2>2, <2>3, <3>1 DEF IInv, Accounts
        <3>2. CASE j # i
            BY <1>3, <1>4, <1>5, <1>7, <2>1, <2>3, <3>2 DEF IInv, Flags, At
        <3> QED BY <3>1, <3>2
    <2>4. \A q \in Request : Holds(q)' /\ At(q, "insert")' =>
              req'[q].id \in unsure' \/ bg'[req'[q].id] \in {"wait", "allocate", "clear"}
        BY <1>3, <1>7, <2>1 DEF IInv, Flags, At
    <2> QED BY <2>3, <2>4 DEF Flags, At
<1> QED BY <1>8, <1>9, <1>10, <1>11, <1>12, <1>14, <1>15 DEF IInv

--------------------------------------------------------------------------------
(* Listings and deletions.                                                      *)

\* A listing learns which instances of its snapshot are over.
LEMMA ReceiveKeeps ==
    ASSUME IInv, NEW p \in Request, NEW seen \in SUBSET Id, Receive(p, seen)
    PROVE  IInv'
<1>1. /\ At(p, "list") /\ req' = [req EXCEPT ![p].at = "prune", ![p].seen = seen]
      /\ lost' = lost \cup {i \in req[p].snap \cap Id : Live(i) /\ i \notin seen}
      /\ UNCHANGED <<kind, csp, network, table, bg, served, crashed, unsure, miscounted>>
    BY DEF Receive
<1> DEFINE r == [req[p] EXCEPT !.at = "prune", !.seen = seen]
<1>2. /\ r \in RecType /\ r.at = "prune" /\ r.seen = seen /\ r.snap = req[p].snap
      /\ req' = [req EXCEPT ![p] = r]
    BY <1>1 DEF IInv, TypeOK, RecType, Steps
<1> HIDE DEF r
<1>3. req'[p] = r /\ \A q \in Request \ {p} : req'[q] = req[q]
    BY <1>2, ReqUpdate DEF IInv
<1>4. /\ lost \subseteq lost' /\ lost' \subseteq Id /\ status' = status
      /\ served' \in 0..MaxRequests /\ network' \in BOOLEAN
      /\ miscounted' = miscounted /\ miscounted' \subseteq Name
    BY <1>1 DEF IInv, TypeOK, csp
<1>5. \A i \in r.snap \cap Id : status[i] # "free" /\ (i \notin r.seen => Over(i)')
    <2> SUFFICES ASSUME NEW i \in r.snap \cap Id
                 PROVE  status[i] # "free" /\ (i \notin r.seen => Over(i)')
        OBVIOUS
    <2>1. status[i] # "free" /\ status[i] \in Statuses
        BY <1>1, <1>2 DEF IInv, TypeOK, Listings, At
    <2>2. i \notin seen /\ Live(i) => i \in lost'
        BY <1>1, <1>2
    <2> QED BY <1>2, <1>4, <2>1, <2>2 DEF Over, Live, Statuses
<1>8. ~ Holds(p) /\ ~ At(p, "unflag")
    BY <1>1 DEF Holds, At
<1> QED BY <1>1, <1>2, <1>4, <1>5, <1>8, ReqStep

\* A request takes rows of instances that are over, and ends.
LEMMA RowsGo ==
    ASSUME IInv, NEW p \in Request, NEW D,
           req' = [req EXCEPT ![p] = Idle], req[p].at \in {"prune", "unrecord"},
           \A i \in D \cap Id : Over(i),
           rows' = rows \ D, pending' = pending \ D, failed' = failed \ D, UNCHANGED nameOf,
           UNCHANGED <<kind, csp, network, bg, served, crashed, hist>>
    PROVE  IInv'
<1>1. req' \in [Request -> RecType] /\ req'[p] = Idle /\ \A q \in Request \ {p} : req'[q] = req[q]
    BY IdleFacts, ReqUpdate DEF IInv
<1>2. UNCHANGED <<kind, status, listed, account, network, bg, served, crashed, lost, unsure, miscounted>>
    BY DEF csp, hist
<1>3. \A q \in Request : /\ Holds(q) <=> Holds(q)'
                         /\ Creating(q) <=> Creating(q)'
                         /\ At(q, "vpc") => At(q, "vpc")'
                         /\ At(q, "unflag") => q # p
                         /\ Holds(q) \/ Creating(q) => q # p /\ req'[q] = req[q]
    BY <1>1, IdleFacts DEF Holds, Creating, At
<1>4. TypeOK'
    BY <1>1, <1>2 DEF IInv, TypeOK, RecType
<1>5. Fresh'
    BY <1>2, <1>3 DEF IInv, Fresh, At
<1>6. Listings' /\ Deletions'
    BY <1>1, <1>2, IdleFacts DEF IInv, Listings, Deletions, Over
<1>7. NothingRunsUnrecorded'
    <2> SUFFICES ASSUME NEW i \in Id, Live(i)', i \notin rows'
                 PROVE  \/ i \in lost'
                        \/ \E q \in Request : req'[q].id = i /\ req'[q].at \in {"visible", "insert"}
        BY DEF NothingRunsUnrecorded
    <2>1. Live(i)
        BY <1>2 DEF Live
    <2>2. i \in D => i \in lost
        BY <2>1 DEF Over, Live
    <2> QED BY <1>1, <1>2, <2>1, <2>2 DEF IInv, NothingRunsUnrecorded
<1>8. Names'
    BY <1>2, <1>3, NamesQuiet
<1>10. Accounts'
    BY <1>1, <1>2, IdleFacts DEF IInv, Accounts, At
<1>11. Flags'
    BY <1>1, <1>2, <1>3 DEF IInv, Flags, HasFlags, At
<1> QED BY <1>4, <1>5, <1>6, <1>7, <1>8, <1>10, <1>11 DEF IInv

\* The database fails, or the request takes no row: it only ends.
LEMMA RowsStay ==
    ASSUME IInv, NEW p \in Request,
           req' = [req EXCEPT ![p] = Idle], req[p].at \in {"prune", "unrecord"},
           UNCHANGED <<table, kind, csp, network, bg, served, crashed, hist>>
    PROVE  IInv'
<1>1. rows' = rows \ {} /\ pending' = pending \ {} /\ failed' = failed \ {} /\ UNCHANGED nameOf
    BY DEF table
<1> QED BY <1>1, RowsGo

LEMMA PruneKeeps ==
    ASSUME IInv, NEW p \in Request, Prune(p)
    PROVE  IInv'
<1> DEFINE orphans == req[p].snap \ req[p].seen
<1>1. /\ At(p, "prune") /\ req' = [req EXCEPT ![p] = Idle]
      /\ \/ /\ rows' = rows \ orphans
            /\ pending' = pending \ orphans /\ failed' = failed \ orphans
            /\ UNCHANGED nameOf
         \/ UNCHANGED table
      /\ UNCHANGED <<kind, csp, network, bg, served, crashed, hist>>
    BY DEF Prune, Answer
<1>2. \A i \in orphans \cap Id : Over(i)
    BY <1>1 DEF IInv, Listings, At
<1> HIDE DEF orphans
<1> QED BY <1>1, <1>2, RowsGo, RowsStay DEF At

LEMMA DeleteRowKeeps ==
    ASSUME IInv, NEW p \in Request, DeleteRow(p)
    PROVE  IInv'
<1> DEFINE D == {req[p].id}
<1>1. /\ At(p, "unrecord") /\ req' = [req EXCEPT ![p] = Idle]
      /\ \/ /\ rows' = rows \ D
            /\ pending' = pending \ D /\ failed' = failed \ D
            /\ UNCHANGED nameOf
         \/ UNCHANGED table
      /\ UNCHANGED <<kind, csp, network, bg, served, crashed, hist>>
    BY DEF DeleteRow, Answer
<1>2. \A i \in D \cap Id : Over(i)
    BY <1>1 DEF IInv, Deletions, At
<1> HIDE DEF D
<1> QED BY <1>1, <1>2, RowsGo, RowsStay DEF At

LEMMA CspDeleteKeeps ==
    ASSUME IInv, NEW p \in Request, NEW refused \in BOOLEAN, CspDelete(p, refused)
    PROVE  IInv'
<1> DEFINE i == req[p].id
<1>1. /\ At(p, "delete") /\ req' = [req EXCEPT ![p].at = "unrecord"]
      /\ \/ /\ Live(i)
            /\ status' = [status EXCEPT ![i] = "deleting"]
            /\ UNCHANGED lost
         \/ /\ status[i] = "gone" \/ refused
            /\ lost' = IF Live(i) THEN lost \cup {i} ELSE lost
            /\ UNCHANGED status
      /\ UNCHANGED <<kind, listed, account, network, table, bg, served, crashed, unsure, miscounted>>
    BY DEF CspDelete, To
<1> DEFINE r == [req[p] EXCEPT !.at = "unrecord"]
<1>2. r \in RecType /\ r.at = "unrecord" /\ r.id = req[p].id /\ req' = [req EXCEPT ![p] = r]
    BY <1>1 DEF IInv, TypeOK, RecType, Steps
<1> HIDE DEF r
<1>3. req' \in [Request -> RecType] /\ req'[p] = r /\ \A q \in Request \ {p} : req'[q] = req[q]
    BY <1>2, ReqUpdate DEF IInv
<1>4. i \in Id /\ status[i] # "free" /\ status[i] \in Statuses
      /\ status \in [Id -> Statuses] /\ lost \subseteq Id /\ listed \subseteq Id
    BY <1>1 DEF IInv, TypeOK, Deletions, At
<1> HIDE DEF i
<1>5. /\ status' \in [Id -> Statuses] /\ lost \subseteq lost' /\ lost' \subseteq Id
      /\ i \in lost' \/ status'[i] \in {"deleting", "gone"}
      /\ \A j \in Id : /\ status[j] = "free" <=> status'[j] = "free"
                       /\ status[j] \in {"deleting", "gone"} => status'[j] \in {"deleting", "gone"}
    <2>1. CASE Live(i) /\ status' = [status EXCEPT ![i] = "deleting"] /\ UNCHANGED lost
        BY <1>4, <2>1, StatusUpdate DEF IInv, Statuses, Live
    <2>2. CASE UNCHANGED status /\ lost' = IF Live(i) THEN lost \cup {i} ELSE lost
        BY <1>4, <2>2 DEF Statuses, Live
    <2> QED BY <1>1, <2>1, <2>2
<1>6. listed' \subseteq Id /\ UNCHANGED <<kind, account, network, table, bg, served, crashed, unsure, miscounted>>
    BY <1>1, <1>4
<1> QED BY <1>1, <1>2, <1>3, <1>5, <1>6, InstancesMove DEF At, i

LEMMA CspKeeps ==
    ASSUME IInv, NEW i \in Id, Csp(i)
    PROVE  IInv'
<1>1. /\ status \in [Id -> Statuses] /\ listed \subseteq Id /\ lost \subseteq Id
      /\ req \in [Request -> RecType]
    BY DEF IInv, TypeOK, RecType
<1>2. PICK v \in {"creating", "running", "deleting", "gone"} :
        /\ status' = [status EXCEPT ![i] = v]
        /\ status[i] # "free" /\ (status[i] \in {"deleting", "gone"} => v \in {"deleting", "gone"})
    BY <1>1 DEF Csp, Live
<1>3. listed' \subseteq Id /\ lost' = lost /\ req' = req
      /\ UNCHANGED <<kind, account, network, table, bg, served, crashed, unsure, miscounted>>
    BY <1>1 DEF Csp, hist
<1>4. status' \in [Id -> Statuses] /\ status'[i] = v /\ \A j \in Id \ {i} : status'[j] = status[j]
    BY <1>2, StatusUpdate DEF IInv, Statuses
<1>5. \A j \in Id : /\ status[j] = "free" <=> status'[j] = "free"
                    /\ status[j] \in {"deleting", "gone"} => status'[j] \in {"deleting", "gone"}
    BY <1>2, <1>4
<1> QED BY <1>1, <1>3, <1>4, <1>5, InstancesMove

--------------------------------------------------------------------------------
(* The retry of an account.                                                     *)

LEMMA RetryAccountKeeps ==
    ASSUME IInv, NEW p \in Request, RetryAccount(p)
    PROVE  IInv'
<1> DEFINE i == req[p].id
<1>1. /\ At(p, "retry") /\ req' = [req EXCEPT ![p].at = "unflag"]
      /\ account' = account \cup {i}
      /\ UNCHANGED <<kind, status, listed, network, table, bg, served, crashed, hist>>
    BY DEF RetryAccount, To
<1> DEFINE r == [req[p] EXCEPT !.at = "unflag"]
<1>2. r \in RecType /\ r.at = "unflag" /\ r.id = req[p].id /\ req' = [req EXCEPT ![p] = r]
    BY <1>1 DEF IInv, TypeOK, RecType, Steps
<1> HIDE DEF r
<1>3. req' \in [Request -> RecType] /\ req'[p] = r /\ \A q \in Request \ {p} : req'[q] = req[q]
    BY <1>2, ReqUpdate DEF IInv
<1>4. UNCHANGED <<kind, status, listed, network, rows, nameOf, pending, failed, bg, served, crashed,
                  lost, unsure, miscounted>>
    BY <1>1 DEF table, hist
<1>5. i \in Id /\ bg[i] = "done"
    BY <1>1 DEF IInv, Accounts, At
<1>6. \A q \in Request : /\ Holds(q) <=> Holds(q)'
                         /\ Creating(q) <=> Creating(q)'
                         /\ At(q, "vpc") <=> At(q, "vpc")'
                         /\ Holds(q) \/ Creating(q) \/ At(q, "unflag") => q # p /\ req'[q] = req[q]
                         /\ At(q, "unflag") => At(q, "unflag")'
    BY <1>1, <1>2, <1>3 DEF Holds, Creating, At
<1> HIDE DEF i
<1>7. TypeOK'
    BY <1>1, <1>3, <1>4, <1>5 DEF IInv, TypeOK, RecType
<1>8. Fresh'
    BY <1>4, <1>6 DEF IInv, Fresh, Holds, At
<1>9. Listings' /\ Deletions'
    BY <1>2, <1>3, <1>4 DEF IInv, Listings, Deletions, Over
<1>10. NothingRunsUnrecorded'
    BY <1>1, <1>2, <1>3, <1>4 DEF IInv, NothingRunsUnrecorded, Live, At
<1>11. Names'
    BY <1>4, <1>6, NamesQuiet
<1>13. Accounts'
    BY <1>1, <1>2, <1>3, <1>4, <1>5 DEF IInv, Accounts, At, i
<1>14. Flags'
    <2> SUFFICES ASSUME HasFlags'
                 PROVE  Flags'
        BY DEF Flags
    <2>1. HasFlags
        BY <1>4 DEF HasFlags
    <2>2. \A q \in Request : Holds(q)' /\ At(q, "insert")' =>
              req'[q].id \in unsure' \/ bg'[req'[q].id] \in {"wait", "allocate", "clear"}
        BY <1>4, <1>6, <2>1 DEF IInv, Flags, At
    <2>3. ASSUME NEW j \in (rows' \cap Id) \ unsure'
          PROVE  /\ bg'[j] \in {"again", "account", "flag", "done"} => j \notin pending'
                 /\ bg'[j] = "done" => j \in account' \cup failed'
                 /\ j \in failed' \cap account' => \E q \in Request : req'[q].id = j /\ At(q, "unflag")'
        <3>1. /\ bg'[j] \in {"again", "account", "flag", "done"} => j \notin pending'
              /\ bg'[j] = "done" => j \in account' \cup failed'
              /\ j \in failed \cap account => \E q \in Request : req[q].id = j /\ At(q, "unflag")
            BY <1>1, <1>4, <2>1, <2>3 DEF IInv, Flags
        <3>2. req'[p].id = i /\ At(p, "unflag")'
            BY <1>2, <1>3 DEF At, i
        <3> QED BY <1>1, <1>4, <1>6, <3>1, <3>2
    <2> QED BY <2>2, <2>3 DEF Flags, At
<1> QED BY <1>7, <1>8, <1>9, <1>10, <1>11, <1>13, <1>14 DEF IInv

LEMMA ClearFlagKeeps ==
    ASSUME IInv, NEW p \in Request, ClearFlag(p)
    PROVE  IInv'
<1> DEFINE i == req[p].id
<1>1. /\ At(p, "unflag") /\ req' = [req EXCEPT ![p] = Idle]
      /\ \/ failed' = failed \ {i} /\ UNCHANGED unsure
         \/ unsure' = unsure \cup {i} /\ UNCHANGED failed
      /\ UNCHANGED <<kind, csp, network, rows, nameOf, pending, bg, served, crashed, lost, miscounted>>
    BY DEF ClearFlag, Answer
<1>2. req' \in [Request -> RecType] /\ req'[p] = Idle /\ \A q \in Request \ {p} : req'[q] = req[q]
    BY <1>1, IdleFacts, ReqUpdate DEF IInv
<1>3. UNCHANGED <<kind, status, listed, account, network, rows, nameOf, pending, bg, served, crashed,
                  lost, miscounted>>
    BY <1>1 DEF csp
<1>4. i \in Id /\ bg[i] = "done" /\ i \in account
    BY <1>1 DEF IInv, Accounts, At
<1>5. \A q \in Request : /\ Holds(q) <=> Holds(q)'
                         /\ Creating(q) <=> Creating(q)'
                         /\ At(q, "vpc") => At(q, "vpc")'
                         /\ Holds(q) \/ Creating(q) => q # p /\ req'[q] = req[q]
    BY <1>1, <1>2, IdleFacts DEF Holds, Creating, At
<1>6. unsure \subseteq unsure' /\ unsure' \subseteq unsure \cup {i}
      /\ failed' \subseteq failed /\ failed \subseteq failed' \cup {i}
      /\ (i \in unsure' \/ i \notin failed')
    BY <1>1
<1> HIDE DEF i
<1>7. TypeOK'
    BY <1>2, <1>3, <1>4, <1>6 DEF IInv, TypeOK, RecType
<1>8. Fresh'
    BY <1>3, <1>5 DEF IInv, Fresh, Holds, At
<1>9. Listings' /\ Deletions'
    BY <1>2, <1>3, IdleFacts DEF IInv, Listings, Deletions, Over
<1>10. NothingRunsUnrecorded'
    BY <1>1, <1>2, <1>3 DEF IInv, NothingRunsUnrecorded, Live, At
<1>11. Names'
    BY <1>3, <1>5, NamesQuiet
<1>13. Accounts'
    BY <1>2, <1>3, <1>6, IdleFacts DEF IInv, Accounts, At
<1>14. Flags'
    <2> SUFFICES ASSUME HasFlags'
                 PROVE  Flags'
        BY DEF Flags
    <2>1. HasFlags
        BY <1>3 DEF HasFlags
    <2>2. \A q \in Request : Holds(q)' /\ At(q, "insert")' =>
              req'[q].id \in unsure' \/ bg'[req'[q].id] \in {"wait", "allocate", "clear"}
        BY <1>3, <1>5, <1>6, <2>1 DEF IInv, Flags, At
    <2>3. ASSUME NEW j \in (rows' \cap Id) \ unsure'
          PROVE  /\ bg'[j] \in {"again", "account", "flag", "done"} => j \notin pending'
                 /\ bg'[j] = "done" => j \in account' \cup failed'
                 /\ j \in failed' \cap account' => \E q \in Request : req'[q].id = j /\ At(q, "unflag")'
        <3>1. /\ bg'[j] \in {"again", "account", "flag", "done"} => j \notin pending'
              /\ bg'[j] = "done" => j \in account \cup failed
              /\ j \in failed \cap account => \E q \in Request : req[q].id = j /\ At(q, "unflag")
            BY <1>3, <1>6, <2>1, <2>3 DEF IInv, Flags
        <3>2. CASE j = i
            BY <1>3, <1>4, <1>6, <2>3, <3>1, <3>2
        <3>3. CASE j # i
            <4>1. req[p].id # j
                BY <3>3 DEF i
            <4> QED BY <1>2, <1>3, <1>6, <3>1, <3>3, <4>1 DEF At
        <3> QED BY <3>2, <3>3
    <2> QED BY <2>2, <2>3 DEF Flags, At
<1> QED BY <1>7, <1>8, <1>9, <1>10, <1>11, <1>13, <1>14 DEF IInv

--------------------------------------------------------------------------------
(* Provisioning in the background.                                              *)

\* The goroutine of i goes from one stage to the next.
LEMMA StageStep ==
    ASSUME IInv, NEW i \in Id, NEW from \in Stages \ {"none", "done", "dead"}, NEW to \in Stages \ {"none"},
           Stage(i, from, to),
           UNCHANGED <<kind, status, listed, network, rows, nameOf, req, served, crashed, lost, miscounted>>,
           account \subseteq account', account' \subseteq account \cup {i},
           failed \subseteq failed', failed' \subseteq failed \cup ({i} \cap rows),
           from = "flag" \/ failed' # failed => to = "done",
           account' # account => to = "done" \/ (to = "flag" /\ i \in unsure'),
           i \in unsure' \/ i \notin account' \/ i \notin failed',
           pending' \subseteq pending, pending \subseteq pending' \cup {i},
           unsure \subseteq unsure', unsure' \subseteq unsure \cup {i},
           HasFlags /\ i \notin unsure' =>
               /\ \/ to \in {"wait", "allocate", "clear"}
                  \/ from \in {"again", "account", "flag"}
                  \/ i \in rows /\ i \notin pending'
               /\ to = "done" => i \in account' \cup failed'
    PROVE  IInv'
<1>1. bg[i] = from /\ bg' = [bg EXCEPT ![i] = to]
    BY DEF Stage
<1>2. bg' \in [Id -> Stages] /\ bg'[i] = to /\ \A j \in Id \ {i} : bg'[j] = bg[j]
    BY <1>1, StageUpdate DEF IInv
<1>3. UNCHANGED <<kind, status, listed, network, rows, nameOf, req, served, crashed, lost, miscounted>>
    OBVIOUS
<1>4. status[i] # "free" /\ i \notin failed /\ (i \in account => from = "flag" /\ i \in unsure)
    BY <1>1 DEF IInv, Fresh, Accounts
<1>5. TypeOK'
    BY <1>2, <1>3 DEF IInv, TypeOK
<1>6. Fresh'
    BY <1>1, <1>2, <1>3, <1>4 DEF IInv, Fresh, Holds, At
<1>7. Listings' /\ Deletions' /\ NothingRunsUnrecorded'
    BY <1>3 DEF IInv, Listings, Deletions, NothingRunsUnrecorded, Over, Live
<1>8. Names'
    BY <1>3, NamesQuiet DEF Creating
<1>9. Accounts'
    BY <1>1, <1>2, <1>3, <1>4 DEF IInv, Accounts, At
<1>10. Flags'
    <2> SUFFICES ASSUME HasFlags'
                 PROVE  Flags'
        BY DEF Flags
    <2>1. HasFlags
        BY <1>3 DEF HasFlags
    <2>2. ASSUME NEW q \in Request, Holds(q)', At(q, "insert")'
          PROVE  req'[q].id \in unsure' \/ bg'[req'[q].id] \in {"wait", "allocate", "clear"}
        <3>1. /\ Holds(q) /\ At(q, "insert") /\ req'[q].id = req[q].id /\ req[q].id \in Id
              /\ req[q].id \notin rows
              /\ req[q].id \in unsure \/ bg[req[q].id] \in {"wait", "allocate", "clear"}
            BY <1>3, <2>1, <2>2 DEF IInv, Flags, Fresh, Holds, At
        <3>2. CASE req[q].id # i
            BY <1>2, <3>1, <3>2
        <3>3. CASE req[q].id = i
            BY <1>1, <1>2, <2>1, <3>1, <3>3
        <3> QED BY <3>2, <3>3
    <2>3. ASSUME NEW j \in (rows' \cap Id) \ unsure'
          PROVE  /\ bg'[j] \in {"again", "account", "flag", "done"} => j \notin pending'
                 /\ bg'[j] = "done" => j \in account' \cup failed'
                 /\ j \in failed' \cap account' => \E q \in Request : req'[q].id = j /\ At(q, "unflag")'
        <3>1. /\ bg[j] \in {"again", "account", "flag", "done"} => j \notin pending
              /\ bg[j] = "done" => j \in account \cup failed
              /\ j \in failed \cap account => \E q \in Request : req'[q].id = j /\ At(q, "unflag")'
            BY <1>3, <2>1, <2>3 DEF IInv, Flags, At
        <3>2. CASE j = i
            BY <1>1, <1>2, <2>1, <2>3, <3>1, <3>2
        <3>3. CASE j # i
            BY <1>2, <3>1, <3>3
        <3> QED BY <3>2, <3>3
    <2> QED BY <2>2, <2>3 DEF Flags, At
<1> QED BY <1>5, <1>6, <1>7, <1>8, <1>9, <1>10 DEF IInv

\* A stage that changes nothing but itself.
LEMMA StageOnly ==
    ASSUME IInv, NEW i \in Id, NEW from \in Stages \ {"none", "flag", "done", "dead"}, NEW to \in Stages \ {"none"},
           Stage(i, from, to),
           UNCHANGED <<kind, csp, network, table, req, served, crashed, lost, miscounted>>,
           unsure' = unsure \/ unsure' = unsure \cup {i},
           HasFlags /\ i \notin unsure' =>
               /\ to \in {"wait", "allocate", "clear"} \/ from \in {"again", "account", "flag"}
               /\ to # "done"
    PROVE  IInv'
<1>1. bg[i] = from
    BY DEF Stage
<1>2. i \notin failed \cup account
    BY <1>1 DEF IInv, Accounts
<1>3. UNCHANGED <<kind, status, listed, network, rows, nameOf, req, served, crashed, lost, miscounted>>
    BY DEF csp, table
<1>4. account' = account /\ failed' = failed /\ pending' = pending
    BY DEF csp, table
<1> QED BY <1>2, <1>3, <1>4, StageStep

LEMMA WaitForRunningKeeps ==
    ASSUME IInv, NEW i \in Id, WaitForRunning(i)
    PROVE  IInv'
<1>1. UNCHANGED <<kind, csp, network, table, req, served, crashed, lost, miscounted>> /\ unsure' = unsure
    BY DEF WaitForRunning, hist
<1>2. HasFlags => kind.provider # "ncp"
    BY DEF HasFlags, Rdb
<1>3. CASE Stage(i, "wait", "rule") /\ kind.provider = "ncp"
    BY <1>1, <1>2, <1>3, StageOnly DEF Stages
<1>4. CASE Stage(i, "wait", "allocate")
    BY <1>1, <1>4, StageOnly DEF Stages
<1>5. CASE Stage(i, "again", "account")
    BY <1>1, <1>5, StageOnly DEF Stages
<1> QED BY <1>3, <1>4, <1>5 DEF WaitForRunning

LEMMA TimedOutKeeps ==
    ASSUME IInv, NEW i \in Id, TimedOut(i)
    PROVE  IInv'
<1>1. UNCHANGED <<kind, csp, network, table, req, served, crashed, lost, miscounted>>
      /\ unsure' = unsure \cup {i}
    BY DEF TimedOut
<1>2. CASE Stage(i, "wait", "done")
    BY <1>1, <1>2, StageOnly DEF Stages
<1>3. CASE Stage(i, "again", "done")
    BY <1>1, <1>3, StageOnly DEF Stages
<1> QED BY <1>2, <1>3 DEF TimedOut

LEMMA ReachKeeps ==
    ASSUME IInv, NEW i \in Id, NEW from \in {"allocate", "rule"}, NEW to \in {"clear", "done"},
           Reach(i, from, to), HasFlags => to = "clear"
    PROVE  IInv'
<1>1. /\ Stage(i, from, to)
      /\ UNCHANGED <<kind, csp, network, table, req, served, crashed, lost, miscounted>> /\ unsure' = unsure
    BY DEF Reach, hist
<1>2. from \in Stages \ {"none", "flag", "done", "dead"} /\ to \in Stages \ {"none"}
    BY DEF Stages
<1> QED BY <1>1, <1>2, StageOnly

LEMMA ClearPendingKeeps ==
    ASSUME IInv, NEW i \in Id, ClearPending(i)
    PROVE  IInv'
<1>1. /\ Stage(i, "clear", "again")
      /\ \/ /\ pending' = pending \ {i}
            /\ unsure' = IF i \in rows THEN unsure ELSE unsure \cup {i}
         \/ UNCHANGED pending /\ unsure' = unsure \cup {i}
      /\ UNCHANGED <<kind, csp, network, rows, nameOf, failed, req, served, crashed, lost, miscounted>>
    BY DEF ClearPending
<1>2. i \notin failed \cup account
    BY <1>1 DEF IInv, Accounts, Stage
<1>3. /\ unsure \subseteq unsure' /\ unsure' \subseteq unsure \cup {i}
      /\ pending' \subseteq pending /\ pending \subseteq pending' \cup {i}
      /\ i \notin unsure' => i \in rows /\ i \notin pending'
    BY <1>1
<1>4. UNCHANGED <<kind, status, listed, account, failed, network, rows, nameOf, req, served, crashed, lost, miscounted>>
    BY <1>1 DEF csp
<1>5. "clear" \in Stages \ {"none", "done", "dead"} /\ "again" \in Stages \ {"none"}
    BY DEF Stages
<1> QED BY <1>1, <1>2, <1>3, <1>4, <1>5, StageStep

LEMMA CreateMasterKeeps ==
    ASSUME IInv, NEW i \in Id, CreateMaster(i)
    PROVE  IInv'
<1>1. UNCHANGED <<kind, status, listed, network, rows, nameOf, pending, failed, req, served, crashed,
                  lost, miscounted>>
    BY DEF CreateMaster, table
<1>2. bg[i] = "account" /\ i \notin failed \cup account
    BY DEF CreateMaster, IInv, Accounts, Stage
<1>3. /\ "account" \in Stages \ {"none", "done", "dead"}
      /\ "done" \in Stages \ {"none"} /\ "flag" \in Stages \ {"none"}
    BY DEF Stages
<1>4. CASE Stage(i, "account", "done") /\ account' = account \cup {i} /\ UNCHANGED unsure
    BY <1>1, <1>2, <1>3, <1>4, StageStep
<1>5. CASE Stage(i, "account", "flag") /\ UNCHANGED <<account, unsure>>
    BY <1>1, <1>2, <1>3, <1>5, StageStep
<1>6. CASE Stage(i, "account", "flag") /\ account' = account \cup {i} /\ unsure' = unsure \cup {i}
    BY <1>1, <1>2, <1>3, <1>6, StageStep
<1> QED BY <1>4, <1>5, <1>6 DEF CreateMaster

LEMMA FlagFailureKeeps ==
    ASSUME IInv, NEW i \in Id, FlagFailure(i)
    PROVE  IInv'
<1>1. /\ Stage(i, "flag", "done")
      /\ \/ /\ failed' = failed \cup ({i} \cap rows)
            /\ unsure' = IF i \in rows THEN unsure ELSE unsure \cup {i}
         \/ UNCHANGED failed /\ unsure' = unsure \cup {i}
      /\ UNCHANGED <<kind, csp, network, rows, nameOf, pending, req, served, crashed, lost, miscounted>>
    BY DEF FlagFailure
<1>2. i \in account => i \in unsure
    BY <1>1 DEF IInv, Accounts, Stage
<1>3. /\ unsure \subseteq unsure' /\ unsure' \subseteq unsure \cup {i}
      /\ failed \subseteq failed' /\ failed' \subseteq failed \cup ({i} \cap rows)
      /\ i \notin unsure' => i \in failed'
    BY <1>1
<1>4. UNCHANGED <<kind, status, listed, account, pending, network, rows, nameOf, req, served, crashed, lost, miscounted>>
    BY <1>1 DEF csp
<1>5. "flag" \in Stages \ {"none", "done", "dead"} /\ "done" \in Stages \ {"none"}
    BY DEF Stages
<1> QED BY <1>1, <1>2, <1>3, <1>4, <1>5, StageStep

LEMMA BackgroundKeeps ==
    ASSUME IInv, NEW i \in Id, Background(i)
    PROVE  IInv'
<1>1. CASE AllocatePublicConnection(i)
    BY <1>1, ReachKeeps DEF AllocatePublicConnection
<1>2. CASE AllocatePublicNetwork(i)
    <2>1. ~ HasFlags
        BY <1>2 DEF AllocatePublicNetwork, HasFlags, Rdb, Nrdb
    <2> QED BY <1>2, <2>1, ReachKeeps DEF AllocatePublicNetwork
<1>3. CASE AddMySQLRule(i)
    <2>1. ~ HasFlags
        BY <1>3 DEF AddMySQLRule, HasFlags, Rdb
    <2> QED BY <1>3, <2>1, ReachKeeps DEF AddMySQLRule
<1>4. CASE AddMongoRule(i)
    <2>1. ~ HasFlags
        BY <1>4 DEF AddMongoRule, HasFlags, Rdb, Nrdb
    <2> QED BY <1>4, <2>1, ReachKeeps DEF AddMongoRule
<1> QED BY <1>1, <1>2, <1>3, <1>4, WaitForRunningKeeps, TimedOutKeeps, ClearPendingKeeps, CreateMasterKeeps,
           FlagFailureKeeps
        DEF Background

--------------------------------------------------------------------------------
(* A crash, and the theorems.                                                   *)

LEMMA CrashKeeps ==
    ASSUME IInv, Crash
    PROVE  IInv'
<1>1. /\ crashed' = TRUE
      /\ req' = [p \in Request |-> Idle]
      /\ bg' = [i \in Id |-> IF bg[i] \in {"none", "done"} THEN bg[i] ELSE "dead"]
      /\ lost' = lost \cup {i \in Id : \E p \in Request : req[p].id = i
                                         /\ req[p].at \in {"visible", "insert"}}
      /\ unsure' = unsure \cup {i \in Id : \/ bg[i] \notin {"none", "done"}
                                           \/ \E p \in Request : req[p].id = i /\ At(p, "unflag")}
      /\ UNCHANGED <<kind, csp, network, table, served, miscounted>>
    BY DEF Crash
<1>2. UNCHANGED <<kind, status, listed, account, network, rows, nameOf, pending, failed, served, miscounted>>
    BY <1>1 DEF csp, table
<1>3. req' \in [Request -> RecType] /\ \A p \in Request : req'[p] = Idle
    BY <1>1, IdleFacts
<1>4. \A p \in Request : req'[p].at = "idle"
    BY <1>3, IdleFacts
<1>5. /\ bg' \in [Id -> Stages]
      /\ \A i \in Id : bg'[i] = IF bg[i] \in {"none", "done"} THEN bg[i] ELSE "dead"
    BY <1>1 DEF IInv, TypeOK, Stages
<1>6. lost \subseteq lost' /\ lost' \subseteq Id /\ unsure \subseteq unsure' /\ unsure' \subseteq Id
    BY <1>1 DEF IInv, TypeOK
<1>8. TypeOK'
    BY <1>1, <1>2, <1>3, <1>5, <1>6 DEF IInv, TypeOK, RecType
<1>9. Fresh'
    BY <1>2, <1>4, <1>5 DEF IInv, Fresh, Holds
<1>10. Listings' /\ Deletions'
    BY <1>4 DEF Listings, Deletions
<1>11. NothingRunsUnrecorded'
    BY <1>1, <1>2 DEF IInv, NothingRunsUnrecorded, Live
<1>12. Names'
    BY <1>2, <1>4, NamesQuiet DEF Creating
<1>14. Accounts'
    <2>1. failed' = failed /\ account' = account /\ unsure \subseteq unsure'
        BY <1>2, <1>6
    <2>2. \A i \in account : bg'[i] = "done" \/ (bg'[i] \in {"flag", "dead"} /\ i \in unsure')
        BY <1>5, <2>1 DEF IInv, Accounts
    <2> QED BY <1>4, <1>5, <2>1, <2>2 DEF IInv, Accounts, At
<1>15. Flags'
    <2> SUFFICES ASSUME HasFlags'
                 PROVE  Flags'
        BY DEF Flags
    <2>1. HasFlags
        BY <1>2 DEF HasFlags
    <2>2. \A j \in (rows' \cap Id) \ unsure' :
              /\ j \notin unsure /\ bg[j] \in {"none", "done"}
              /\ ~\E p \in Request : req[p].id = j /\ At(p, "unflag")
        BY <1>1
    <2>3. \A j \in (rows' \cap Id) \ unsure' :
              /\ bg'[j] \in {"again", "account", "flag", "done"} => j \notin pending'
              /\ bg'[j] = "done" => j \in account' \cup failed'
              /\ j \notin failed' \cap account'
        BY <1>2, <1>5, <2>1, <2>2 DEF IInv, Flags
    <2> QED BY <1>4, <2>3 DEF Flags, At, Holds
<1> QED BY <1>8, <1>9, <1>10, <1>11, <1>12, <1>14, <1>15 DEF IInv

LEMMA InitEstablishes == Init => IInv
<1> SUFFICES ASSUME Init
             PROVE  IInv
    OBVIOUS
<1>1. \A p \in Request : req[p] = Idle /\ req[p].at = "idle"
    BY IdleFacts DEF Init
<1>2. \A i \in Id : status[i] = "free" /\ bg[i] = "none"
    BY DEF Init
<1>3. TypeOK
    <2>1. req \in [Request -> RecType] /\ nameOf \in [Ids -> Name]
        BY IdleFacts DEF Init
    <2>2. status \in [Id -> Statuses] /\ bg \in [Id -> Stages]
        BY DEF Init, Statuses, Stages
    <2>3. served \in 0..MaxRequests
        BY BoundAssumption DEF Init
    <2>4. /\ kind \in Kinds
          /\ listed = {} /\ account = {} /\ rows = {} /\ pending = {} /\ failed = {}
          /\ network = FALSE /\ crashed = FALSE
          /\ lost = {} /\ unsure = {} /\ miscounted = {}
        BY DEF Init
    <2> QED BY <2>1, <2>2, <2>3, <2>4 DEF TypeOK, RecType
<1>4. Fresh /\ Listings /\ Deletions /\ NothingRunsUnrecorded
    BY <1>1, <1>2 DEF Init, Fresh, Listings, Deletions, NothingRunsUnrecorded, Holds, Live
<1>5. Names
    <2>1. \A n : RowsOf(n) = {} /\ Makers(n) = {}
        BY <1>1 DEF Init, RowsOf, Makers, Creating
    <2>2. Cardinality({}) = 0 /\ Cardinality(Request) \in Nat
        BY FiniteAssumption, FS_EmptySet, FS_CardinalityType
    <2> SUFFICES ASSUME NEW n \in Name
                 PROVE  Cardinality(RowsOf(n)) + Cardinality(Makers(n)) <= Cardinality(Request)
        BY DEF Names
    <2>3. Cardinality(RowsOf(n)) = 0 /\ Cardinality(Makers(n)) = 0
        BY <2>1, <2>2
    <2> QED BY <2>2, <2>3
<1>6. Accounts /\ Flags
    BY <1>1 DEF Init, Accounts, Flags, Holds, At
<1> QED BY <1>3, <1>4, <1>5, <1>6 DEF IInv

LEMMA ServeKeeps ==
    ASSUME IInv, NEW p \in Request, Serve(p)
    PROVE  IInv'
<1>1. bg \in [Id -> Stages]
    BY DEF IInv, TypeOK
<1>2. CASE Creation(p)
    <2>1. ASSUME NEW i \in Id, Provision(p, i, i, "insert", TRUE), UNCHANGED bg, ~ HasFlags
          PROVE  IInv'
        BY <1>1, <2>1, ProvisionKeeps
    <2>2. ASSUME NcpCreate(p), ~ HasFlags
          PROVE  IInv'
        <3>1. PICK i \in Id : \E answer \in {i, NoId}, v \in {"wait", "done"} :
                  Provision(p, i, answer, "insert", TRUE) /\ bg' = [bg EXCEPT ![i] = v]
            BY <2>2 DEF NcpCreate
        <3>2. PICK answer \in {i, NoId}, v \in {"wait", "done"} :
                  Provision(p, i, answer, "insert", TRUE) /\ bg' = [bg EXCEPT ![i] = v]
            BY <3>1
        <3>3. bg' \in [Id -> Stages] /\ \A j \in Id \ {i} : bg'[j] = bg[j]
            BY <1>1, <3>2 DEF Stages
        <3> QED BY <2>2, <3>2, <3>3, ProvisionKeeps
    <2>3. ASSUME AlibabaCreate(p)
          PROVE  IInv'
        BY <1>1, <2>3, ProvisionKeeps DEF AlibabaCreate
    <2>4. /\ AwsCreate(p) \/ GcpCreate(p) \/ FireCreate(p) => ~ HasFlags
          /\ NcpMySQLCreate(p) \/ NcpMongoCreate(p) => ~ HasFlags
        <3>1. HasFlags => kind.provider = "alibaba"
            BY DEF HasFlags, Rdb
        <3>2. AwsCreate(p) \/ GcpCreate(p) \/ FireCreate(p) => kind.provider \in {"aws", "gcp"}
            <4>1. kind = Rdb("aws") => kind.provider = "aws"
                BY DEF Rdb
            <4>2. kind = Rdb("gcp") \/ kind = Nrdb("gcp") => kind.provider = "gcp"
                BY DEF Rdb, Nrdb
            <4> QED BY <4>1, <4>2 DEF AwsCreate, GcpCreate, FireCreate
        <3>3. NcpMySQLCreate(p) \/ NcpMongoCreate(p) => kind.provider = "ncp"
            BY DEF NcpMySQLCreate, NcpMongoCreate, Rdb, Nrdb
        <3> QED BY <3>1, <3>2, <3>3
    <2>5. CASE AwsCreate(p) \/ GcpCreate(p) \/ FireCreate(p)
        BY <2>1, <2>4, <2>5 DEF AwsCreate, GcpCreate, FireCreate
    <2>6. CASE NcpMySQLCreate(p) \/ NcpMongoCreate(p)
        BY <2>2, <2>4, <2>6 DEF NcpMySQLCreate, NcpMongoCreate
    <2>7. CASE AlibabaRDSCreate(p) \/ AlibabaDDSCreate(p)
        BY <2>3, <2>7 DEF AlibabaRDSCreate, AlibabaDDSCreate
    <2>8. CASE ResolveVSwitch(p) \/ ResolveSubnet(p)
        BY <2>8, FindNetworkKeeps DEF ResolveVSwitch, ResolveSubnet
    <2>9. CASE CreateVPCAndVSwitch(p) \/ CreateVPCAndSubnet(p)
        BY <2>9, FinishNetworkKeeps DEF CreateVPCAndVSwitch, CreateVPCAndSubnet
    <2> QED BY <1>2, <2>5, <2>6, <2>7, <2>8, <2>9, WaitForInstanceVisibleKeeps, InsertRowKeeps DEF Creation
<1>3. CASE Listing(p)
    <2>1. listed \in SUBSET Id
        BY DEF IInv, TypeOK
    <2>2. SUBSET {i \in listed : status[i] # "deleting"} \subseteq SUBSET Id
        BY <2>1
    <2> QED BY <1>3, <2>1, <2>2, ReceiveKeeps, PruneKeeps
            DEF Listing, ReceivePart, AwsList, GcpList, FireList, AlibabaRDSList, AlibabaDDSList, NcpMongoList, NcpMySQLList
<1>4. CASE Deletion(p)
    BY <1>4, CspDeleteKeeps, DeleteRowKeeps
       DEF Deletion, AwsDelete, GcpDelete, FireDelete, NcpMySQLDelete, NcpMongoDelete, AlibabaRDSDelete,
           AlibabaDDSDelete
<1> QED BY <1>2, <1>3, <1>4, RetryAccountKeeps, ClearFlagKeeps, ProviderFailsKeeps DEF Serve, Repair

LEMMA NextKeeps == IInv /\ [Next]_vars => IInv'
<1> SUFFICES ASSUME IInv, [Next]_vars
             PROVE  IInv'
    OBVIOUS
<1>1. CASE UNCHANGED vars
    <2>1. UNCHANGED <<kind, status, listed, account, network, rows, nameOf, pending, failed, req, bg,
                      served, crashed, lost, unsure, miscounted>>
        BY <1>1 DEF vars, csp, table, hist
    <2> QED BY <2>1 DEF IInv, TypeOK, Fresh, Listings, Deletions, NothingRunsUnrecorded, Names, RowsOf,
                        Makers, Accounts, Flags, HasFlags, Holds, Over, Live, Creating, At
<1>2. CASE Next
    BY <1>2, HandlerKeeps, ServeKeeps, BackgroundKeeps, CspKeeps, CrashKeeps DEF Next
<1> QED BY <1>1, <1>2

\* The inductive invariant holds of every behaviour.
THEOREM Invariant == Spec => []IInv
BY InitEstablishes, NextKeeps, PTL DEF Spec

\* Every variable keeps its type.
THEOREM TypeInvariant == Spec => []TypeOK
<1>1. IInv => TypeOK
    BY DEF IInv
<1> QED BY <1>1, Invariant, PTL

\* ListInstances deletes rows for what it did not find, and DeleteInstance the
\* row of what it deleted, both after calls during which other requests run:
\* neither takes the row of an instance that still runs, whoever else is at work.
THEOREM NothingRunsUnrecordedInvariant == Spec => []NothingRunsUnrecorded
<1>1. IInv => NothingRunsUnrecorded
    BY DEF IInv
<1> QED BY <1>1, Invariant, PTL

\* The duplicate check and the insert are far apart, but the duplicates that
\* come of it are at most as many as the requests that can run at once, however
\* listings, deletions, failures and a crash come in between.
THEOREM RowsPerNameInvariant == Spec => []RowsPerName
<1>1. ASSUME IInv
      PROVE  RowsPerName
    <2> SUFFICES ASSUME NEW n \in Name, n \notin miscounted
                 PROVE  Cardinality({i \in rows : nameOf[i] = n}) <= Cardinality(Request)
        BY DEF RowsPerName
    <2>1. Cardinality(RowsOf(n)) + Cardinality(Makers(n)) <= Cardinality(Request)
        BY <1>1 DEF IInv, Names
    <2>2. Cardinality(RowsOf(n)) <= Cardinality(Request)
        BY <1>1, <2>1, Counted
    <2> QED BY <2>2 DEF RowsOf
<1> QED BY <1>1, Invariant, PTL

\* account_create_failed and public_net_pending tell the truth about an instance
\* whose goroutine met no failure, though the goroutine and the handlers write
\* the row without a lock.
THEOREM AccountFlagHonestInvariant == Spec => []AccountFlagHonest
<1>1. IInv => AccountFlagHonest
    BY DEF IInv, Flags, AccountFlagHonest
<1> QED BY <1>1, Invariant, PTL
===============================================================================
