---------------------------- MODULE DummyDataProofs ----------------------------
(* Theorems about DummyData, for any number of requests, workers, numbers and *)
(* files of a number.                                                         *)
EXTENDS DummyData, SequenceTheorems, TLAPS

(***************************************************************************)
(* Sequences.                                                              *)
(***************************************************************************)

Elems(s)  == {s[i] : i \in 1..Len(s)}
NoDups(s) == \A i, j \in 1..Len(s) : s[i] = s[j] => i = j

LEMMA Lists ==
  ASSUME NEW S
  PROVE  /\ <<>> \in Seq(S) /\ \A a \in S : <<a>> \in Seq(S) /\ \A b \in S : <<a, b>> \in Seq(S)
         /\ \A s \in Seq(S) : s # <<>> =>
              /\ Head(s) \in S /\ Tail(s) \in Seq(S) /\ Len(Tail(s)) = Len(s) - 1
         /\ \A s \in Seq(S), a \in S : Append(s, a) \in Seq(S) /\ Len(Append(s, a)) = Len(s) + 1
         /\ \A s \in Seq(S) : Len(s) \in Nat
OBVIOUS

\* Two lists without a common element have each of their elements once in a row.
LEMMA Joined ==
  ASSUME NEW S, NEW s \in Seq(S), NEW t \in Seq(S), NoDups(s), NoDups(t),
         Elems(s) \cap Elems(t) = {}
  PROVE  s \o t \in Seq(S) /\ NoDups(s \o t) /\ Elems(s \o t) \subseteq Elems(s) \cup Elems(t)
<1>1. /\ s \o t \in Seq(S) /\ Len(s \o t) = Len(s) + Len(t)
      /\ \A i \in 1..Len(s) + Len(t) :
           (s \o t)[i] = IF i <= Len(s) THEN s[i] ELSE t[i - Len(s)]
  BY ConcatProperties
<1>2. Len(s) \in Nat /\ Len(t) \in Nat
  OBVIOUS
<1>3. PICK u : u = s \o t
  OBVIOUS
<1>4. ASSUME NEW i \in 1..Len(u)
      PROVE  \/ i \in 1..Len(s) /\ u[i] = s[i]
             \/ i - Len(s) \in 1..Len(t) /\ u[i] = t[i - Len(s)] /\ i > Len(s)
  BY <1>1, <1>2, <1>3, <1>4
<1>5. Elems(u) \subseteq Elems(s) \cup Elems(t)
  BY <1>4 DEF Elems
<1>6. ASSUME NEW i \in 1..Len(u), NEW j \in 1..Len(u), u[i] = u[j]
      PROVE  i = j
  <2>1. \A a \in 1..Len(s), b \in 1..Len(t) : s[a] # t[b]
    BY DEF Elems
  <2>2. i \in Nat /\ j \in Nat
    OBVIOUS
  <2>3. CASE i \in 1..Len(s) /\ u[i] = s[i] /\ j \in 1..Len(s) /\ u[j] = s[j]
    BY <1>6, <2>3 DEF NoDups
  <2>4. CASE /\ i - Len(s) \in 1..Len(t) /\ u[i] = t[i - Len(s)]
             /\ j - Len(s) \in 1..Len(t) /\ u[j] = t[j - Len(s)]
    <3>1. i - Len(s) = j - Len(s)
      BY <1>6, <2>4 DEF NoDups
    <3> QED
      BY <1>2, <2>2, <3>1
  <2> QED
    BY <1>4, <1>6, <2>1, <2>3, <2>4
<1>7. NoDups(u)
  BY <1>6 DEF NoDups
<1> QED
  BY <1>1, <1>3, <1>5, <1>7

\* The first of a list is none of the rest.
LEMMA FirstAndRest ==
  ASSUME NEW S, NEW s \in Seq(S), s # <<>>, NoDups(s)
  PROVE  /\ Head(s) \in S /\ Head(s) \in Elems(s)
         /\ Tail(s) \in Seq(S) /\ NoDups(Tail(s)) /\ Elems(Tail(s)) \subseteq Elems(s)
         /\ Head(s) \notin Elems(Tail(s))
<1>1. Len(s) \in Nat /\ Len(s) >= 1 /\ Head(s) = s[1] /\ \A i \in 1..Len(s) : s[i] \in S
  OBVIOUS
<1>2. Tail(s) \in Seq(S) /\ Len(Tail(s)) = Len(s) - 1 /\ \A i \in 1..Len(s)-1 : Tail(s)[i] = s[i+1]
  OBVIOUS
<1>3. \A i \in 1..Len(s)-1 : i \in Nat /\ i+1 \in 1..Len(s) /\ i+1 # 1
  BY <1>1
<1>4. NoDups(Tail(s))
  <2>1. ASSUME NEW i \in 1..Len(Tail(s)), NEW j \in 1..Len(Tail(s)), Tail(s)[i] = Tail(s)[j]
        PROVE  i = j
    <3>1. i + 1 = j + 1
      BY <1>2, <1>3, <2>1 DEF NoDups
    <3> QED
      BY <1>2, <1>3, <3>1
  <2> QED
    BY <2>1 DEF NoDups
<1>5. Elems(Tail(s)) \subseteq Elems(s)
  BY <1>2, <1>3 DEF Elems
<1>6. Head(s) \notin Elems(Tail(s))
  <2>1. 1 \in 1..Len(s)
    BY <1>1
  <2> QED
    BY <1>1, <1>2, <1>3, <2>1 DEF Elems, NoDups
<1>7. Head(s) \in Elems(s)
  BY <1>1 DEF Elems
<1> QED
  BY <1>1, <1>2, <1>4, <1>5, <1>6, <1>7

\* A list of formats, each at most once, all in A.
Listed(s, A) == s \in Seq(Formats) /\ NoDups(s) /\ Elems(s) \subseteq A

LEMMA ListedJoin ==
  ASSUME NEW A, NEW B, NEW s, NEW t, Listed(s, A), Listed(t, B), A \cap B = {}
  PROVE  Listed(s \o t, A \cup B)
<1>1. Elems(s) \cap Elems(t) = {}
  BY DEF Listed
<1> QED
  BY <1>1, Joined DEF Listed

\* A request generates every format once.
LEMMA GenOrderIs ==
  ASSUME NEW K \in SUBSET Kinds
  PROVE  GenOrder(K) \in Seq(Formats) /\ NoDups(GenOrder(K))
<1>0. ASSUME NEW k \in Kinds PROVE Listed(<<k>>, {k})
  BY DEF Listed, NoDups, Elems, Formats
<1>e. \A k : Listed(<<>>, {k})
  BY DEF Listed, NoDups, Elems
<1>1. ASSUME NEW k PROVE Listed(IF k \in K THEN <<k>> ELSE <<>>, {k})
  BY <1>0, <1>e
<1>2. ASSUME NEW k, NEW tmp \in Temporary, k # tmp
      PROVE  Listed(IF k \in K THEN <<tmp, k>> ELSE <<>>, {tmp, k})
  <2>1. k \in K => Listed(<<tmp, k>>, {tmp, k})
    BY <1>2 DEF Listed, NoDups, Elems, Formats, Temporary
  <2>2. Listed(<<>>, {tmp, k})
    BY DEF Listed, NoDups, Elems
  <2> QED
    BY <2>1, <2>2
<1> DEFINE s1 == IF "sql" \in K THEN <<"sql">> ELSE <<>>
           s2 == IF "csv" \in K THEN <<"csv">> ELSE <<>>
           s3 == IF "txt" \in K THEN <<"txt">> ELSE <<>>
           s4 == IF "png" \in K THEN <<"png">> ELSE <<>>
           s5 == IF "gif" \in K THEN <<"tmpImg", "gif">> ELSE <<>>
           s6 == IF "zip" \in K THEN <<"tmpTxt", "zip">> ELSE <<>>
           s7 == IF "json" \in K THEN <<"json">> ELSE <<>>
           s8 == IF "xml" \in K THEN <<"xml">> ELSE <<>>
<1>3. GenOrder(K) = s1 \o s2 \o s3 \o s4 \o s5 \o s6 \o s7 \o s8
  BY DEF GenOrder
<1>4. /\ Listed(s1, {"sql"}) /\ Listed(s2, {"csv"}) /\ Listed(s3, {"txt"}) /\ Listed(s4, {"png"})
      /\ Listed(s7, {"json"}) /\ Listed(s8, {"xml"})
  BY <1>1
<1>5. Listed(s5, {"tmpImg", "gif"}) /\ Listed(s6, {"tmpTxt", "zip"})
  BY <1>2 DEF Temporary
<1> HIDE DEF s1, s2, s3, s4, s5, s6, s7, s8
<1>6. Listed(s1 \o s2, {"sql"} \cup {"csv"})
  BY <1>4, ListedJoin
<1>7. Listed((s1 \o s2) \o s3, {"sql", "csv"} \cup {"txt"})
  BY <1>4, <1>6, ListedJoin, {"sql"} \cup {"csv"} = {"sql", "csv"}
<1>8. Listed(((s1 \o s2) \o s3) \o s4, {"sql", "csv", "txt"} \cup {"png"})
  BY <1>4, <1>7, ListedJoin, {"sql", "csv"} \cup {"txt"} = {"sql", "csv", "txt"}
<1>9. PICK a : a = s1 \o s2 \o s3 \o s4
  OBVIOUS
<1>10. PICK A : A = {"sql", "csv", "txt"} \cup {"png"}
  OBVIOUS
<1>11. Listed(a, A)
  BY <1>8, <1>9, <1>10
<1>12. A \cap {"tmpImg", "gif"} = {}
  BY <1>10
<1>13. Listed(a \o s5, A \cup {"tmpImg", "gif"})
  BY <1>5, <1>11, <1>12, ListedJoin
<1>14. PICK B : B = A \cup {"tmpImg", "gif"}
  OBVIOUS
<1>15. B \cap {"tmpTxt", "zip"} = {}
  BY <1>10, <1>14
<1>16. Listed((a \o s5) \o s6, B \cup {"tmpTxt", "zip"})
  BY <1>5, <1>13, <1>14, <1>15, ListedJoin
<1>17. PICK D : D = B \cup {"tmpTxt", "zip"}
  OBVIOUS
<1>18. D \cap {"json"} = {} /\ (D \cup {"json"}) \cap {"xml"} = {}
  BY <1>10, <1>14, <1>17
<1>19. Listed(((a \o s5) \o s6) \o s7, D \cup {"json"})
  BY <1>4, <1>16, <1>17, <1>18, ListedJoin
<1>20. Listed((((a \o s5) \o s6) \o s7) \o s8, (D \cup {"json"}) \cup {"xml"})
  BY <1>4, <1>18, <1>19, ListedJoin
<1> QED
  BY <1>3, <1>9, <1>20 DEF Listed

(***************************************************************************)
(* Types.                                                                  *)
(***************************************************************************)

Ats == {"idle", "next", "pool", "sweep", "import", "clean", "rmdir", "answered"}
Req == [at : Ats, temp : BOOLEAN, todo : Seq(Formats), did : SUBSET Formats, ok : BOOLEAN]
Pool == [kind : Formats \cup {"none"}, next : 1..Size + 1, buf : Seq(BOOLEAN), open : BOOLEAN]
Hand == [at : {"off", "take", "piece", "fill", "send"}, item : 0..Size, piece : 0..Pieces,
         sends : Seq(BOOLEAN), dies : BOOLEAN]

FileTypes == \A f \in DOMAIN files : f[1] \in dirs /\ files[f] \in {"torn", "whole"}

LEMMA TypeIs ==
  TypeOK <=> /\ req \in [Request -> Req] /\ pool \in [Request -> Pool]
             /\ \A r \in Request : Len(pool[r].buf) <= Size
             /\ work \in [Request \X Worker -> Hand]
             /\ dirs \subseteq Request \X Formats /\ left \subseteq Request \X Formats
             /\ FileTypes /\ dead \in BOOLEAN
BY DEF TypeOK, Req, Pool, Hand, Ats, FileTypes

\* Records with a field of its type changed.
LEMMA ReqWith ==
  ASSUME NEW q \in Req
  PROVE  /\ \A a \in Ats : [q EXCEPT !.at = a] \in Req
         /\ \A t \in Seq(Formats) : [q EXCEPT !.todo = t] \in Req
         /\ \A D \in SUBSET Formats : [q EXCEPT !.did = D] \in Req
         /\ [q EXCEPT !.ok = TRUE] \in Req /\ [q EXCEPT !.ok = FALSE] \in Req
<1>1. \A a \in Ats : [q EXCEPT !.at = a] \in Req
  BY DEF Req
<1>2. \A t \in Seq(Formats) : [q EXCEPT !.todo = t] \in Req
  BY DEF Req
<1>3. \A D \in SUBSET Formats : [q EXCEPT !.did = D] \in Req
  BY DEF Req
<1>4. [q EXCEPT !.ok = TRUE] \in Req /\ [q EXCEPT !.ok = FALSE] \in Req
  BY DEF Req
<1> QED
  BY <1>1, <1>2, <1>3, <1>4

LEMMA HandWith ==
  ASSUME NEW h \in Hand
  PROVE  /\ \A a \in {"off", "take", "piece", "fill", "send"} : [h EXCEPT !.at = a] \in Hand
         /\ \A i \in 0..Size : [h EXCEPT !.item = i] \in Hand
         /\ \A j \in 0..Pieces : [h EXCEPT !.piece = j] \in Hand
         /\ \A s \in Seq(BOOLEAN) : [h EXCEPT !.sends = s] \in Hand
         /\ [h EXCEPT !.dies = TRUE] \in Hand /\ [h EXCEPT !.dies = FALSE] \in Hand
<1>1. \A a \in {"off", "take", "piece", "fill", "send"} : [h EXCEPT !.at = a] \in Hand
  BY DEF Hand
<1>2. \A i \in 0..Size : [h EXCEPT !.item = i] \in Hand
  BY DEF Hand
<1>3. \A j \in 0..Pieces : [h EXCEPT !.piece = j] \in Hand
  BY DEF Hand
<1>4. \A s \in Seq(BOOLEAN) : [h EXCEPT !.sends = s] \in Hand
  BY DEF Hand
<1>5. [h EXCEPT !.dies = TRUE] \in Hand /\ [h EXCEPT !.dies = FALSE] \in Hand
  BY DEF Hand
<1> QED
  BY <1>1, <1>2, <1>3, <1>4, <1>5

LEMMA PoolWith ==
  ASSUME NEW c \in Pool
  PROVE  /\ \A k \in Formats : [c EXCEPT !.kind = k] \in Pool
         /\ \A n \in 1..Size + 1 : [c EXCEPT !.next = n] \in Pool
         /\ \A s \in Seq(BOOLEAN) : [c EXCEPT !.buf = s] \in Pool
         /\ [c EXCEPT !.open = FALSE] \in Pool
<1>1. \A k \in Formats : [c EXCEPT !.kind = k] \in Pool
  BY DEF Pool
<1>2. \A n \in 1..Size + 1 : [c EXCEPT !.next = n] \in Pool
  BY DEF Pool
<1>3. \A s \in Seq(BOOLEAN) : [c EXCEPT !.buf = s] \in Pool
  BY DEF Pool
<1>4. [c EXCEPT !.open = FALSE] \in Pool
  BY DEF Pool
<1> QED
  BY <1>1, <1>2, <1>3, <1>4

LEMMA SizeIs == Size \in Nat /\ Size >= 1 /\ Pieces \in Nat /\ Pieces >= 1
BY SizeAssumption

LEMMA TempFormats == \A k \in Formats \cup {"none"} : UsesTemp(k) # "none" => UsesTemp(k) \in Formats
BY DEF UsesTemp, Formats

\* A request whose record changes to one of its type.
LEMMA RequestTyped ==
  ASSUME TypeOK, NEW r \in Request, NEW q \in Req, req' = [req EXCEPT ![r] = q],
         UNCHANGED <<pool, work, dirs, files, dead, left>>
  PROVE  TypeOK'
<1>1. req' \in [Request -> Req]
  BY TypeIs
<1> QED
  BY <1>1 DEF TypeOK, Req, Ats

LEMMA InitTyped == Init => TypeOK
<1> SUFFICES ASSUME Init PROVE TypeOK
  OBVIOUS
<1>1. \A r \in Request : req[r] \in Req
  BY DEF Init, Req, Ats
<1>2. \A r \in Request : pool[r] \in Pool /\ Len(pool[r].buf) <= Size
  BY SizeIs DEF Init, Pool
<1>3. \A x \in Request \X Worker : work[x] \in Hand
  BY SizeIs DEF Init, Hand
<1>4. req \in [Request -> Req] /\ pool \in [Request -> Pool] /\ work \in [Request \X Worker -> Hand]
  BY <1>1, <1>2, <1>3 DEF Init
<1>5. FileTypes
  <2>1. <<>> \in Seq(BOOLEAN) /\ Len(<<>>) = 0
    OBVIOUS
  <2>2. \A s \in Seq(BOOLEAN) : DOMAIN s = 1..Len(s)
    OBVIOUS
  <2>3. DOMAIN <<>> = {}
    BY <2>1, <2>2
  <2> QED
    BY <2>3 DEF Init, FileTypes
<1>6. dead \in BOOLEAN /\ dirs = {} /\ left = {}
  BY DEF Init
<1> QED
  BY <1>2, <1>4, <1>5, <1>6, TypeIs

\* The handlers of the requests.
Handle(r) ==
  \/ GenerateObjectStoragePostHandler(r) \/ GenerateRDBMSPostHandler(r)
  \/ GenerateNRDBMSPostHandler(r) \/ GenerateLinuxPostHandler(r)
  \/ GenerateWindowsPostHandler(r) \/ createDummyTemp(r)

\* A request is refused, or begins with a list of formats.
LEMMA BeginIs ==
  ASSUME TypeOK, NEW r \in Request, Handle(r)
  PROVE  /\ req[r].at = "idle" /\ UNCHANGED <<pool, work, dirs, files, dead, left>>
         /\ \/ req' = [req EXCEPT ![r].at = "answered", ![r].ok = FALSE]
            \/ \E temp \in BOOLEAN, todo \in Seq(Formats) :
                 /\ NoDups(todo)
                 /\ req' = [req EXCEPT ![r].at = "next", ![r].temp = temp, ![r].todo = todo]
<1>1. ASSUME NEW temp \in BOOLEAN, NEW K \in Chosen, Begin(r, temp, GenOrder(K))
      PROVE  GenOrder(K) \in Seq(Formats) /\ NoDups(GenOrder(K))
  <2>1. K \in SUBSET Kinds
    BY DEF Chosen
  <2> QED
    BY <2>1, GenOrderIs
<1>2. ASSUME NEW k, Server(k) # <<>>
      PROVE  Server(k) \in Seq(Formats) /\ NoDups(Server(k))
  <2>1. k \in Formats /\ Server(k) = <<k>>
    BY <1>2 DEF Server, Formats
  <2>2. <<k>> \in Seq(Formats) /\ Len(<<k>>) = 1
    BY <2>1
  <2> QED
    BY <2>1, <2>2 DEF NoDups
<1>3. CASE Refuse(r)
  BY <1>3 DEF Refuse
<1>4. CASE \E temp \in BOOLEAN, K \in Chosen : Begin(r, temp, GenOrder(K))
  <2>1. PICK temp \in BOOLEAN, K \in Chosen : Begin(r, temp, GenOrder(K))
    BY <1>4
  <2>2. PICK todo : todo = GenOrder(K)
    OBVIOUS
  <2> QED
    BY <1>1, <2>1, <2>2 DEF Begin
<1>5. CASE \E k : Server(k) # <<>> /\ Begin(r, TRUE, Server(k))
  <2>1. PICK k : Server(k) # <<>> /\ Begin(r, TRUE, Server(k))
    BY <1>5
  <2>2. PICK todo : todo = Server(k)
    OBVIOUS
  <2> QED
    BY <1>2, <2>1, <2>2 DEF Begin
<1> QED
  BY <1>3, <1>4, <1>5 DEF Handle, GenerateObjectStoragePostHandler, GenerateRDBMSPostHandler,
     GenerateNRDBMSPostHandler, GenerateLinuxPostHandler, GenerateWindowsPostHandler, createDummyTemp

\* The steps of a request that has begun, and of a worker.
Proceed(r) ==
  \/ \E k \in Formats : StartPool(r, k)
  \/ StartFails(r) \/ Collect(r) \/ CloseResults(r) \/ RemoveTemp(r)
  \/ Generated(r) \/ RunTaskOnce(r) \/ RemoveAll(r)

LEMMA NextIs ==
  ASSUME TypeOK, Next
  PROVE  \/ \E r \in Request : Handle(r) \/ Proceed(r)
         \/ \E x \in Request \X Worker : Turn(x)
<1>1. ASSUME NEW r \in Request, NEW k, StartPool(r, k) PROVE Proceed(r)
  <2>1. req[r].todo \in Seq(Formats) /\ req[r].todo # <<>> /\ Head(req[r].todo) = k
    BY <1>1, TypeIs DEF Req, StartPool
  <2>2. k \in Formats
    BY <2>1
  <2> QED
    BY <1>1, <2>2 DEF Proceed
<1>2. ASSUME NEW r \in Request, genData(r) PROVE Proceed(r)
  BY <1>1, <1>2 DEF genData, Proceed, GenerateRandomSQL, GenerateRandomCSV, GenerateRandomTXT,
     GenerateRandomPNGImage, GenerateRandomGIF, GenerateRandomZIP, GenerateRandomJSON, GenerateRandomXML
<1>3. ASSUME NEW x \in Request \X Worker, Step(x) PROVE Turn(x)
  BY <1>3 DEF Step, Turn, randomCSVWorker, randomJsonWorker, randomXMLWorker, randomSQLWorker,
     randomTxtWorker, randomImageWorker, randomGIFWorker, randomZIPWorker, generateCSV,
     generateJSON, generateXML
<1> QED
  BY <1>2, <1>3 DEF Next, Handle, Proceed

LEMMA HandleTyped ==
  ASSUME TypeOK, NEW r \in Request, Handle(r)
  PROVE  TypeOK'
<1>1. req[r] \in Req
  BY TypeIs
<1>2. CASE req' = [req EXCEPT ![r].at = "answered", ![r].ok = FALSE]
  <2>1. PICK q : q = [req[r] EXCEPT !.at = "answered", !.ok = FALSE]
    OBVIOUS
  <2>2. q \in Req
    BY <1>1, <2>1 DEF Req, Ats
  <2>3. req' = [req EXCEPT ![r] = q]
    BY <1>2, <2>1, TypeIs
  <2> QED
    BY <2>2, <2>3, BeginIs, RequestTyped
<1>3. ASSUME NEW temp \in BOOLEAN, NEW todo \in Seq(Formats),
             req' = [req EXCEPT ![r].at = "next", ![r].temp = temp, ![r].todo = todo]
      PROVE  TypeOK'
  <2>1. PICK q : q = [req[r] EXCEPT !.at = "next", !.temp = temp, !.todo = todo]
    OBVIOUS
  <2>2. q \in Req
    BY <1>1, <2>1 DEF Req, Ats
  <2>3. req' = [req EXCEPT ![r] = q]
    BY <1>3, <2>1, TypeIs
  <2> QED
    BY <2>2, <2>3, BeginIs, RequestTyped
<1> QED
  BY <1>2, <1>3, BeginIs

LEMMA StartPoolTyped ==
  ASSUME TypeOK, NEW r \in Request, NEW k \in Formats, StartPool(r, k)
  PROVE  TypeOK'
<1>1. req[r] \in Req /\ req[r].todo # <<>>
  BY TypeIs DEF StartPool
<1>2. [req[r] EXCEPT !.at = "pool", !.todo = Tail(@)] \in Req
  <2>1. Tail(req[r].todo) \in Seq(Formats) /\ "pool" \in Ats
    BY <1>1 DEF Req, Ats
  <2>2. [req[r] EXCEPT !.at = "pool"] \in Req
    BY <1>1, <2>1, ReqWith
  <2>3. PICK q \in Req : q = [req[r] EXCEPT !.at = "pool"]
    BY <2>2
  <2>4. [q EXCEPT !.todo = Tail(req[r].todo)] \in Req
    BY <2>1, ReqWith
  <2> QED
    BY <2>3, <2>4
<1>3. req' \in [Request -> Req]
  <2>1. req' = [req EXCEPT ![r] = [req[r] EXCEPT !.at = "pool", !.todo = Tail(@)]]
    BY TypeIs DEF StartPool
  <2> QED
    BY <1>2, <2>1, TypeIs
<1>4. pool' \in [Request -> Pool] /\ \A q \in Request : Len(pool'[q].buf) <= Size
  <2>1. PICK n : n = [kind |-> k, next |-> 1, buf |-> <<>>, open |-> TRUE]
    OBVIOUS
  <2>2. n \in Pool /\ Len(n.buf) <= Size
    BY <2>1, SizeIs DEF Pool
  <2>3. pool' = [pool EXCEPT ![r] = n]
    BY <2>1 DEF StartPool
  <2> QED
    BY <2>2, <2>3, TypeIs
<1>5. work' \in [Request \X Worker -> Hand]
  <2>1. \A x \in Request \X Worker : work[x] \in Hand /\ [work[x] EXCEPT !.at = "take"] \in Hand
    BY TypeIs, HandWith
  <2>2. PICK W : work' = [x \in Request \X Worker |-> IF x[1] = r /\ x[2] \in W
                             THEN [work[x] EXCEPT !.at = "take"] ELSE work[x]]
    BY DEF StartPool
  <2> QED
    BY <2>1, <2>2
<1>6. /\ dirs' = dirs \cup {<<r, k>>} /\ left' = left /\ dead' = dead /\ files' = files
      /\ dirs \subseteq Request \X Formats /\ left \subseteq Request \X Formats
      /\ FileTypes /\ dead \in BOOLEAN
  BY TypeIs DEF StartPool
<1>7. FileTypes'
  BY <1>6 DEF FileTypes
<1> QED
  BY <1>3, <1>4, <1>5, <1>6, <1>7, TypeIs DEF TypeOK, Req, Pool, Hand, Ats, FileTypes

LEMMA TypedParts ==
  ASSUME req' \in [Request -> Req], pool' \in [Request -> Pool],
         \A r \in Request : Len(pool'[r].buf) <= Size,
         work' \in [Request \X Worker -> Hand],
         dirs' \subseteq Request \X Formats, left' \subseteq Request \X Formats,
         FileTypes', dead' \in BOOLEAN
  PROVE  TypeOK'
BY DEF TypeOK, Req, Pool, Hand, Ats, FileTypes

\* A step that changes the record of a request and of its pool.
LEMMA RecordsTyped ==
  ASSUME TypeOK, NEW r \in Request, NEW q \in Req, NEW c \in Pool, Len(c.buf) <= Size,
         req' = [req EXCEPT ![r] = q], pool' = [pool EXCEPT ![r] = c],
         UNCHANGED <<work, dirs, files, dead, left>>
  PROVE  TypeOK'
<1>1. req' \in [Request -> Req] /\ pool' \in [Request -> Pool]
      /\ \A p \in Request : Len(pool'[p].buf) <= Size
  BY TypeIs
<1>2. work' \in [Request \X Worker -> Hand] /\ dead' \in BOOLEAN
      /\ dirs' \subseteq Request \X Formats /\ left' \subseteq Request \X Formats
  BY TypeIs
<1>3. FileTypes'
  BY TypeIs DEF FileTypes
<1> QED
  BY <1>1, <1>2, <1>3, TypedParts

\* The outcomes of a format: q is the record of the request after it.
LEMMA FailedIs ==
  ASSUME TypeOK, NEW r \in Request, Failed(r)
  PROVE  \E a \in {"sweep", "clean"} :
           /\ [req[r] EXCEPT !.ok = FALSE, !.at = a] \in Req
           /\ req' = [req EXCEPT ![r] = [req[r] EXCEPT !.ok = FALSE, !.at = a]]
<1>1. PICK a \in {"sweep", "clean"} : req' = [req EXCEPT ![r].ok = FALSE, ![r].at = a]
  BY DEF Failed
<1>2. req[r] \in Req /\ a \in Ats
  BY TypeIs DEF Ats
<1>3. PICK q \in Req : q = [req[r] EXCEPT !.ok = FALSE]
  BY <1>2, ReqWith
<1>4. [q EXCEPT !.at = a] \in Req
  BY <1>2, ReqWith
<1> QED
  BY <1>1, <1>3, <1>4, TypeIs

LEMMA DoneIs ==
  ASSUME TypeOK, NEW r \in Request, Done(r), pool[r].kind \in Formats
  PROVE  \E a \in {"sweep", "next"} :
           /\ [req[r] EXCEPT !.at = a, !.did = req[r].did \cup {pool[r].kind}] \in Req
           /\ req' = [req EXCEPT ![r] = [req[r] EXCEPT !.at = a, !.did = req[r].did \cup {pool[r].kind}]]
<1>1. PICK a \in {"sweep", "next"} :
        req' = [req EXCEPT ![r].at = a, ![r].did = @ \cup {pool[r].kind}]
  BY DEF Done
<1>2. req[r] \in Req /\ a \in Ats
  BY TypeIs DEF Ats
<1>3. req[r].did \cup {pool[r].kind} \in SUBSET Formats
  BY <1>2 DEF Req
<1>4. PICK q \in Req : q = [req[r] EXCEPT !.at = a]
  BY <1>2, ReqWith
<1>5. [q EXCEPT !.did = req[r].did \cup {pool[r].kind}] \in Req
  BY <1>3, ReqWith
<1> QED
  BY <1>1, <1>4, <1>5, TypeIs

LEMMA StartFailsTyped ==
  ASSUME TypeOK, NEW r \in Request, StartFails(r)
  PROVE  TypeOK'
<1>1. req[r] \in Req /\ pool[r] \in Pool /\ Len(pool[r].buf) <= Size /\ req[r].todo # <<>>
  BY TypeIs DEF StartFails
<1>2. PICK t : t = Tail(req[r].todo)
  OBVIOUS
<1>3. PICK k : k = Head(req[r].todo)
  OBVIOUS
<1>4. t \in Seq(Formats) /\ k \in Formats
  BY <1>1, <1>2, <1>3 DEF Req
<1>5. PICK a \in {"sweep", "clean"} :
        /\ req' = [req EXCEPT ![r].ok = FALSE, ![r].todo = t, ![r].at = a]
        /\ pool' = [pool EXCEPT ![r].kind = k]
  BY <1>2, <1>3, TypeIs DEF StartFails
<1>6. PICK q1 \in Req : q1 = [req[r] EXCEPT !.ok = FALSE]
  BY <1>1, ReqWith
<1>7. PICK q2 \in Req : q2 = [q1 EXCEPT !.todo = t]
  BY <1>4, ReqWith
<1>8. PICK q3 \in Req : q3 = [q2 EXCEPT !.at = a]
  BY ReqWith DEF Ats
<1>9. req' = [req EXCEPT ![r] = q3]
  BY <1>5, <1>6, <1>7, <1>8, TypeIs
<1>10. PICK c \in Pool : c = [pool[r] EXCEPT !.kind = k]
  BY <1>1, <1>4, PoolWith
<1>11. pool' = [pool EXCEPT ![r] = c] /\ Len(c.buf) <= Size
  BY <1>1, <1>5, <1>10, TypeIs DEF Pool
<1>12. UNCHANGED <<work, dirs, files, dead, left>>
  BY DEF StartFails
<1> QED
  BY <1>9, <1>11, <1>12, RecordsTyped

LEMMA CollectTyped ==
  ASSUME TypeOK, NEW r \in Request, Collect(r), pool[r].kind \in Formats
  PROVE  TypeOK'
<1>1. req[r] \in Req /\ pool[r] \in Pool /\ Len(pool[r].buf) <= Size
  BY TypeIs
<1>2. UNCHANGED <<work, dirs, files, dead, left>>
  BY DEF Collect
<1>3. req' \in [Request -> Req]
  <2>1. CASE UNCHANGED req
    BY <2>1, TypeIs
  <2>2. CASE Failed(r)
    BY <2>2, FailedIs, TypeIs
  <2>3. CASE Done(r)
    BY <2>3, DoneIs, TypeIs
  <2> QED
    BY <2>1, <2>2, <2>3 DEF Collect
<1>4. pool' \in [Request -> Pool] /\ \A p \in Request : Len(pool'[p].buf) <= Size
  <2>1. CASE UNCHANGED pool
    BY <2>1, TypeIs
  <2>2. CASE pool[r].buf # <<>> /\ pool' = [pool EXCEPT ![r].buf = Tail(@)]
    <3>1. PICK s : s = Tail(pool[r].buf)
      OBVIOUS
    <3>2. pool[r].buf \in Seq(BOOLEAN)
      BY <1>1 DEF Pool
    <3>3. s \in Seq(BOOLEAN) /\ Len(s) <= Size
      <4>1. PICK b \in Seq(BOOLEAN) : b = pool[r].buf
        BY <3>2
      <4>2. b # <<>> /\ Len(b) \in Nat /\ Len(b) <= Size /\ s = Tail(b)
        BY <1>1, <2>2, <3>1, <4>1
      <4>3. s \in Seq(BOOLEAN) /\ Len(s) = Len(b) - 1
        BY <4>2
      <4> QED
        BY <4>2, <4>3, SizeIs
    <3>4. PICK c \in Pool : c = [pool[r] EXCEPT !.buf = s]
      BY <1>1, <3>3, PoolWith
    <3>5. c.buf = s /\ pool' = [pool EXCEPT ![r] = c]
      BY <1>1, <2>2, <3>1, <3>4, TypeIs DEF Pool
    <3> QED
      BY <3>3, <3>5, TypeIs
  <2> QED
    BY <2>1, <2>2 DEF Collect
<1>5. FileTypes'
  BY <1>2, TypeIs DEF FileTypes
<1> QED
  BY <1>2, <1>3, <1>4, <1>5, TypeIs, TypedParts

LEMMA CloseResultsTyped ==
  ASSUME TypeOK, NEW r \in Request, CloseResults(r)
  PROVE  TypeOK'
<1>1. req[r] \in Req /\ pool[r] \in Pool /\ Len(pool[r].buf) <= Size
  BY TypeIs
<1>2. PICK c \in Pool : c = [pool[r] EXCEPT !.open = FALSE]
  BY <1>1, PoolWith
<1>3. c.buf = pool[r].buf /\ pool' = [pool EXCEPT ![r] = c]
  BY <1>1, <1>2, TypeIs DEF CloseResults, Pool
<1>4. PICK q \in Req : q = req[r]
  BY <1>1
<1>5. req' = [req EXCEPT ![r] = q] /\ UNCHANGED <<work, dirs, files, dead, left>>
  BY <1>4, TypeIs DEF CloseResults
<1> QED
  BY <1>1, <1>3, <1>5, RecordsTyped

\* Removals take files before their directory.
LEMMA UnlinkTyped ==
  ASSUME FileTypes, NEW D, Unlink(D), dirs' = dirs
  PROVE  FileTypes'
BY DEF FileTypes, Unlink

LEMMA RmdirTyped ==
  ASSUME TypeOK, NEW D, Rmdir(D), files' = files
  PROVE  FileTypes' /\ dirs' \subseteq dirs /\ left' \subseteq left \cup dirs
<1>1. FileTypes
  BY TypeIs
<1>2. dirs' \subseteq dirs /\ left' \subseteq left \cup dirs
  BY DEF Rmdir
<1>3. \A f \in DOMAIN files : f[1] \in dirs'
  BY <1>1 DEF Rmdir, Holds, FileTypes
<1> QED
  BY <1>1, <1>2, <1>3 DEF FileTypes

LEMMA RemovalsTyped ==
  ASSUME TypeOK, NEW r \in Request, RemoveTemp(r) \/ RemoveAll(r) \/ Generated(r) \/ RunTaskOnce(r)
  PROVE  TypeOK'
<1>1. req[r] \in Req
  BY TypeIs
<1>2. pool' = pool /\ work' = work /\ dead' = dead
  BY DEF RemoveTemp, RemoveAll, Generated, RunTaskOnce
<1>3. \/ req' = req
      \/ \E a \in Ats : req' = [req EXCEPT ![r].at = a]
      \/ \E a \in Ats : req' = [req EXCEPT ![r].at = a, ![r].ok = TRUE]
      \/ \E a \in Ats : req' = [req EXCEPT ![r].at = a, ![r].ok = FALSE]
  BY DEF RemoveTemp, RemoveAll, Generated, RunTaskOnce, Ats
<1>4. req' \in [Request -> Req]
  <2>1. CASE req' = req
    BY <2>1, TypeIs
  <2>2. ASSUME NEW a \in Ats, NEW q \in {req[r], [req[r] EXCEPT !.ok = TRUE], [req[r] EXCEPT !.ok = FALSE]},
               req' = [req EXCEPT ![r] = [q EXCEPT !.at = a]]
        PROVE  req' \in [Request -> Req]
    <3>1. q \in Req
      BY <1>1, ReqWith
    <3>2. [q EXCEPT !.at = a] \in Req
      BY <3>1, ReqWith
    <3> QED
      BY <2>2, <3>2, TypeIs
  <2>3. ASSUME NEW a \in Ats, req' = [req EXCEPT ![r].at = a]
        PROVE  req' \in [Request -> Req]
    <3>1. req' = [req EXCEPT ![r] = [req[r] EXCEPT !.at = a]]
      BY <2>3, TypeIs
    <3> QED
      BY <2>2, <3>1
  <2>4. ASSUME NEW a \in Ats, req' = [req EXCEPT ![r].at = a, ![r].ok = TRUE]
        PROVE  req' \in [Request -> Req]
    <3>1. PICK q : q = [req[r] EXCEPT !.ok = TRUE]
      OBVIOUS
    <3>2. req' = [req EXCEPT ![r] = [q EXCEPT !.at = a]]
      BY <2>4, <3>1, TypeIs
    <3> QED
      BY <2>2, <3>1, <3>2
  <2>5. ASSUME NEW a \in Ats, req' = [req EXCEPT ![r].at = a, ![r].ok = FALSE]
        PROVE  req' \in [Request -> Req]
    <3>1. PICK q : q = [req[r] EXCEPT !.ok = FALSE]
      OBVIOUS
    <3>2. req' = [req EXCEPT ![r] = [q EXCEPT !.at = a]]
      BY <2>5, <3>1, TypeIs
    <3> QED
      BY <2>2, <3>1, <3>2
  <2> QED
    BY <1>3, <2>1, <2>3, <2>4, <2>5
<1>5. FileTypes' /\ dirs' \subseteq dirs /\ left' \subseteq left \cup dirs
  <2>0. FileTypes
    BY TypeIs
  <2>1. CASE UNCHANGED <<dirs, files, left>>
    BY <2>0, <2>1 DEF FileTypes
  <2>2. CASE \E D : Unlink(D) /\ UNCHANGED <<dirs, left>>
    BY <2>0, <2>2, UnlinkTyped
  <2>3. CASE \E D : Rmdir(D) /\ UNCHANGED files
    BY <2>3, RmdirTyped
  <2>4. \/ UNCHANGED <<dirs, files, left>>
        \/ \E D : Unlink(D) /\ UNCHANGED <<dirs, left>>
        \/ \E D : Rmdir(D) /\ UNCHANGED files
    <3>1. CASE RemoveTemp(r)
      <4>1. PICK D : D = {<<r, UsesTemp(pool[r].kind)>>}
        OBVIOUS
      <4>2. \/ Unlink(D) /\ UNCHANGED <<dirs, left>>
            \/ Rmdir(D) /\ UNCHANGED files
        BY <3>1, <4>1 DEF RemoveTemp
      <4> QED
        BY <4>2
    <3>2. CASE RemoveAll(r)
      BY <3>2 DEF RemoveAll
    <3>3. CASE Generated(r) \/ RunTaskOnce(r)
      BY <3>3 DEF Generated, RunTaskOnce
    <3> QED
      BY <3>1, <3>2, <3>3
  <2> QED
    BY <2>1, <2>2, <2>3, <2>4
<1> QED
  BY <1>2, <1>4, <1>5, TypeIs, TypedParts

\* Steps of workers.
LEMMA TakeTyped ==
  ASSUME TypeOK, NEW x \in Request \X Worker, Take(x)
  PROVE  TypeOK'
<1>1. PICK r \in Request : r = x[1]
  OBVIOUS
<1>2. work[x] \in Hand /\ pool[r] \in Pool /\ Len(pool[r].buf) <= Size
  BY TypeIs
<1>3. UNCHANGED <<req, dirs, files, dead, left>>
  BY DEF Take
<1>4. CASE work' = [work EXCEPT ![x].at = "off"] /\ UNCHANGED pool
  <2>1. PICK h \in Hand : h = [work[x] EXCEPT !.at = "off"]
    BY <1>2, HandWith
  <2>2. work' = [work EXCEPT ![x] = h]
    BY <1>4, <2>1, TypeIs
  <2> QED
    BY <1>3, <1>4, <2>2, TypeIs, TypedParts DEF FileTypes
<1>5. CASE /\ ~(pool[r].next > Size)
           /\ pool' = [pool EXCEPT ![r].next = @ + 1]
           /\ work' = [work EXCEPT ![x].at = "piece", ![x].item = pool[r].next, ![x].piece = 1]
  <2>1. pool[r].next \in 0..Size /\ pool[r].next + 1 \in 1..Size + 1 /\ 1 \in 0..Pieces
    BY <1>2, <1>5, SizeIs DEF Pool
  <2>2. PICK n : n = pool[r].next
    OBVIOUS
  <2>3. PICK h1 \in Hand : h1 = [work[x] EXCEPT !.at = "piece"]
    BY <1>2, HandWith
  <2>4. PICK h2 \in Hand : h2 = [h1 EXCEPT !.item = n]
    BY <2>1, <2>2, HandWith
  <2>5. PICK h \in Hand : h = [h2 EXCEPT !.piece = 1]
    BY <2>1, HandWith
  <2>6. work' = [work EXCEPT ![x] = h]
    BY <1>5, <2>2, <2>3, <2>4, <2>5, TypeIs
  <2>7. PICK c \in Pool : c = [pool[r] EXCEPT !.next = n + 1]
    BY <1>2, <2>1, <2>2, PoolWith
  <2>8. pool' = [pool EXCEPT ![r] = c] /\ c.buf = pool[r].buf
    BY <1>2, <1>5, <2>2, <2>7, TypeIs DEF Pool
  <2> QED
    BY <1>2, <1>3, <2>6, <2>8, TypeIs, TypedParts DEF FileTypes
<1> QED
  BY <1>1, <1>4, <1>5 DEF Take

\* What Report leaves of a worker.
LEMMA ReportTyped ==
  ASSUME TypeOK, NEW x \in Request \X Worker, NEW s \in Seq(BOOLEAN), NEW d, d \in BOOLEAN,
         Report(x, s, d)
  PROVE  work' \in [Request \X Worker -> Hand]
<1>1. work[x] \in Hand
  BY TypeIs
<1>2. PICK h1 \in Hand : h1 = [work[x] EXCEPT !.at = "send"]
  BY <1>1, HandWith
<1>3. PICK h2 \in Hand : h2 = [h1 EXCEPT !.sends = s]
  BY HandWith
<1>4. PICK h \in Hand : h = [h2 EXCEPT !.dies = d]
  <2>1. d = TRUE \/ d = FALSE
    OBVIOUS
  <2> QED
    BY <2>1, HandWith
<1>5. work' = [work EXCEPT ![x] = h]
  BY <1>2, <1>3, <1>4, TypeIs DEF Report
<1> QED
  BY <1>5, TypeIs

LEMMA CreateFileTyped ==
  ASSUME TypeOK, NEW x \in Request \X Worker, CreateFile(x)
  PROVE  TypeOK'
<1>1. UNCHANGED <<req, pool, dirs, dead, left>>
  BY DEF CreateFile
<1>2. CASE Report(x, Errors(pool[x[1]].kind), Panics(pool[x[1]].kind)) /\ UNCHANGED files
  <2>1. Errors(pool[x[1]].kind) \in Seq(BOOLEAN)
    BY Lists, FALSE \in BOOLEAN DEF Errors
  <2>3. Panics(pool[x[1]].kind) \in BOOLEAN
    BY DEF Panics
  <2>2. work' \in [Request \X Worker -> Hand]
    BY <1>2, <2>1, <2>3, ReportTyped
  <2> QED
    BY <1>1, <1>2, <2>2, TypeIs, TypedParts DEF FileTypes
<1>3. CASE /\ Dir(x) \in dirs
           /\ files' = [f \in DOMAIN files \cup {File(x)} |-> IF f = File(x) THEN "torn" ELSE files[f]]
           /\ work' = [work EXCEPT ![x].at = "fill"]
  <2>1. PICK h \in Hand : h = [work[x] EXCEPT !.at = "fill"]
    BY HandWith, TypeIs
  <2>2. work' \in [Request \X Worker -> Hand]
    BY <1>3, <2>1, TypeIs
  <2>3. FileTypes'
    BY <1>1, <1>3, TypeIs DEF FileTypes, File
  <2> QED
    BY <1>1, <2>2, <2>3, TypeIs, TypedParts
<1> QED
  BY <1>2, <1>3 DEF CreateFile

LEMMA FillFileTyped ==
  ASSUME TypeOK, NEW x \in Request \X Worker, FillFile(x)
  PROVE  TypeOK'
<1>1. UNCHANGED <<req, pool, dirs, dead, left>>
  BY DEF FillFile
<1>2. PICK ok \in BOOLEAN : Report(x, Results(pool[x[1]].kind, ok), FALSE)
  BY DEF FillFile
<1>3. Results(pool[x[1]].kind, ok) \in Seq(BOOLEAN)
  BY Lists, FALSE \in BOOLEAN, TRUE \in BOOLEAN DEF Results
<1>4. work' \in [Request \X Worker -> Hand]
  BY <1>2, <1>3, ReportTyped
<1>5. files' = files \/ files' = [files EXCEPT ![File(x)] = "whole"]
  BY DEF FillFile
<1>6. FileTypes'
  BY <1>1, <1>5, TypeIs DEF FileTypes
<1> QED
  BY <1>1, <1>4, <1>6, TypeIs, TypedParts

LEMMA SendTyped ==
  ASSUME TypeOK, NEW x \in Request \X Worker, Send(x)
  PROVE  TypeOK'
<1>1. PICK r \in Request : r = x[1]
  OBVIOUS
<1>2. work[x] \in Hand /\ pool[r] \in Pool /\ Len(pool[r].buf) <= Size
  BY TypeIs
<1>3. UNCHANGED <<req, dirs, files, left>>
  BY DEF Send
<1>4. PICK s \in Seq(BOOLEAN) : s = work[x].sends
  BY <1>2 DEF Hand
<1>5. PICK b \in Seq(BOOLEAN) : b = pool[r].buf
  BY <1>2 DEF Pool
<1>6. CASE /\ s # <<>> /\ Len(b) < Size
           /\ pool' = [pool EXCEPT ![r].buf = Append(b, Head(s))]
           /\ work' = [work EXCEPT ![x].sends = Tail(s)]
           /\ UNCHANGED dead
  <2>1. PICK t \in Seq(BOOLEAN) : t = Tail(s)
    BY <1>6, Lists
  <2>2. PICK h \in Hand : h = [work[x] EXCEPT !.sends = t]
    BY <1>2, HandWith
  <2>3. work' \in [Request \X Worker -> Hand]
    BY <1>6, <2>1, <2>2, TypeIs
  <2>4. Head(s) \in BOOLEAN
    BY <1>6, Lists
  <2>5. PICK a : a = Append(b, Head(s))
    OBVIOUS
  <2>6. a \in Seq(BOOLEAN) /\ Len(a) = Len(b) + 1
    <3>1. PICK S : S = BOOLEAN
      OBVIOUS
    <3>2. b \in Seq(S) /\ Head(s) \in S
      BY <2>4, <3>1
    <3>3. a \in Seq(S) /\ Len(a) = Len(b) + 1
      BY <2>5, <3>2, Lists
    <3> QED
      BY <3>1, <3>3
  <2>7. Len(a) <= Size
    <3>1. Len(b) \in Nat
      BY Lists
    <3> QED
      BY <1>6, <2>6, <3>1, SizeIs
  <2>8. PICK c \in Pool : c = [pool[r] EXCEPT !.buf = a]
    BY <1>2, <2>6, PoolWith
  <2>9. pool' = [pool EXCEPT ![r] = c] /\ c.buf = a
    BY <1>2, <1>6, <2>5, <2>8, TypeIs DEF Pool
  <2>10. pool' \in [Request -> Pool] /\ \A q \in Request : Len(pool'[q].buf) <= Size
    BY <2>7, <2>8, <2>9, TypeIs
  <2>11. /\ req' \in [Request -> Req] /\ FileTypes' /\ dead' \in BOOLEAN
         /\ dirs' \subseteq Request \X Formats /\ left' \subseteq Request \X Formats
    BY <1>3, <1>6, TypeIs DEF FileTypes
  <2> QED
    BY <2>3, <2>10, <2>11, TypedParts
<1>7. CASE /\ dead' = work[x].dies /\ UNCHANGED pool
           /\ \/ /\ <<work[x].item, work[x].piece + 1>> \in FilesOf(pool[r].kind)
                 /\ work' = [work EXCEPT ![x].at = "piece", ![x].piece = @ + 1]
              \/ work' = [work EXCEPT ![x].at = "take"]
  <2>1. dead' \in BOOLEAN
    BY <1>2, <1>7 DEF Hand
  <2>2. CASE work' = [work EXCEPT ![x].at = "take"]
    <3>1. PICK h \in Hand : h = [work[x] EXCEPT !.at = "take"]
      BY <1>2, HandWith
    <3>2. work' \in [Request \X Worker -> Hand]
      BY <2>2, <3>1, TypeIs
    <3> QED
      BY <1>3, <1>7, <2>1, <3>2, TypeIs, TypedParts DEF FileTypes
  <2>3. CASE /\ <<work[x].item, work[x].piece + 1>> \in FilesOf(pool[r].kind)
             /\ work' = [work EXCEPT ![x].at = "piece", ![x].piece = @ + 1]
    <3>1. PICK j : j = work[x].piece + 1
      OBVIOUS
    <3>2. j \in 0..Pieces
      BY <1>2, <2>3, <3>1, SizeIs DEF FilesOf, Hand
    <3>3. PICK h1 \in Hand : h1 = [work[x] EXCEPT !.at = "piece"]
      BY <1>2, HandWith
    <3>4. PICK h \in Hand : h = [h1 EXCEPT !.piece = j]
      BY <3>2, HandWith
    <3>5. work' = [work EXCEPT ![x] = h]
      BY <2>3, <3>1, <3>3, <3>4, TypeIs
    <3>6. work' \in [Request \X Worker -> Hand]
      BY <3>5, TypeIs
    <3> QED
      BY <1>3, <1>7, <2>1, <3>6, TypeIs, TypedParts DEF FileTypes
  <2> QED
    BY <1>7, <2>2, <2>3
<1> QED
  BY <1>1, <1>4, <1>5, <1>6, <1>7 DEF Send

\* Only a pool with a format collects.
LEMMA TypeStep ==
  ASSUME TypeOK, \A r \in Request : req[r].at = "pool" => pool[r].kind \in Formats, [Next]_vars
  PROVE  TypeOK'
<1>1. ASSUME NEW r \in Request, Collect(r) PROVE TypeOK'
  <2>1. pool[r].kind \in Formats
    BY <1>1 DEF Collect
  <2> QED
    BY <1>1, <2>1, CollectTyped
<1>2. ASSUME NEW r \in Request, Proceed(r) PROVE TypeOK'
  BY <1>1, <1>2, StartPoolTyped, StartFailsTyped, CloseResultsTyped, RemovalsTyped DEF Proceed
<1>3. ASSUME NEW x \in Request \X Worker, Turn(x) PROVE TypeOK'
  BY <1>3, TakeTyped, SendTyped, CreateFileTyped, FillFileTyped DEF Turn
<1>4. CASE Next
  BY <1>2, <1>3, <1>4, HandleTyped, NextIs
<1>5. CASE UNCHANGED vars
  BY <1>5 DEF vars, TypeOK
<1> QED
  BY <1>4, <1>5

(***************************************************************************)
(* The invariant.                                                          *)
(***************************************************************************)

Off(r) == \A w \in Worker : work[<<r, w>>].at = "off"

\* Where a request can be: as long as it has not failed, its workers run only
\* while their format is read, and they end only when the numbers are used up.
Phase(r) ==
  /\ req[r].at \in {"idle", "next", "pool", "import"} => req[r].ok
  /\ req[r].at \in {"import", "rmdir"} => req[r].temp
  /\ req[r].at = "clean" /\ req[r].ok => req[r].temp
  /\ req[r].at = "pool" => pool[r].kind \in Formats
  /\ req[r].ok /\ req[r].at # "pool" => Off(r)
  /\ req[r].at = "pool" /\ ~pool[r].open => Off(r)
  /\ req[r].at = "pool" /\ Off(r) => pool[r].next = Size + 1

\* Every format is generated once: what is done is not done again.
Order(r) ==
  /\ NoDups(req[r].todo)
  /\ req[r].at = "idle" => req[r].did = {}
  /\ req[r].did \cap Elems(req[r].todo) = {}
  /\ req[r].at = "pool" => pool[r].kind \notin req[r].did /\ pool[r].kind \notin Elems(req[r].todo)

\* The formats whose files stay, and are checked to be written to their end.
Lasting == Formats \ (Temporary \cup {"zip"})

IsWhole(r, k, g) ==
  LET f == <<<<r, k>>, g[1], g[2]>> IN f \in DOMAIN files /\ files[f] = "whole"

\* What was generated stays whole until it is removed.
Kept(r) ==
  req[r].ok /\ (req[r].at \in {"next", "pool", "sweep", "import"} \/ ~req[r].temp) =>
    \A k \in req[r].did \cap Lasting : \A g \in FilesOf(k) : IsWhole(r, k, g)

\* A worker with a number holds a piece of it, and writes to a file that exists.
Held(x) ==
  /\ work[x].at \in {"piece", "fill", "send"} => work[x].item >= 1 /\ work[x].piece >= 1
  /\ req[x[1]].at = "pool" /\ pool[x[1]].kind \in Lasting /\ work[x].at = "fill" =>
       File(x) \in DOMAIN files

\* An error is in the channel, or a worker is about to send one.
Told(s) == \E i \in 1..Len(s) : s[i] = FALSE
Bad(r)  == \/ Told(pool[r].buf)
           \/ \E w \in Worker : work[<<r, w>>].at = "send" /\ Told(work[<<r, w>>].sends)

\* A file is still to come: its number is in the channel, or a worker has it.
InHand(x, g) ==
  /\ work[x].item = g[1]
  /\ \/ work[x].at \in {"piece", "fill"} /\ work[x].piece <= g[2]
     \/ work[x].at = "send" /\ work[x].piece < g[2]
Due(r, g) == g[1] >= pool[r].next \/ \E w \in Worker : InHand(<<r, w>>, g)

\* The account of a format that is read: unless an error is on its way, every
\* file is whole or still to come.
Account(r) ==
  req[r].at = "pool" /\ pool[r].kind \in Lasting /\ ~Bad(r) =>
    \A g \in FilesOf(pool[r].kind) : Due(r, g) \/ IsWhole(r, pool[r].kind, g)

\* No worker is left that could write again what was removed.
Gone(r) ==
  req[r].ok /\ req[r].temp =>
    /\ req[r].at = "rmdir" => \A f \in DOMAIN files : f[1] \notin Own(r)
    /\ req[r].at = "answered" => Own(r) \cap dirs \subseteq left

Fine(r) ==
  Phase(r) /\ Order(r) /\ Kept(r) /\ Account(r) /\ Gone(r) /\ \A w \in Worker : Held(<<r, w>>)
IInv == TypeOK /\ \A r \in Request : Fine(r)

\* A worker that is not off belongs to a request that reads, or has failed.
LEMMA Working ==
  ASSUME NEW r \in Request, NEW v \in Worker, Phase(r), work[<<r, v>>].at # "off", req[r].ok
  PROVE  req[r].at = "pool" /\ pool[r].open
BY DEF Phase, Off

\* Taking what is no error, and sending, leave the errors that are on their way.
LEMMA ToldTail ==
  ASSUME NEW S, NEW s \in Seq(S), s # <<>>, Told(s), Head(s) # FALSE
  PROVE  Told(Tail(s))
<1>1. Len(s) \in Nat /\ Len(s) >= 1 /\ Head(s) = s[1]
  OBVIOUS
<1>2. Tail(s) \in Seq(S) /\ Len(Tail(s)) = Len(s) - 1 /\ \A i \in 1..Len(s)-1 : Tail(s)[i] = s[i+1]
  OBVIOUS
<1>3. PICK i \in 1..Len(s) : s[i] = FALSE
  BY DEF Told
<1>4. i # 1
  BY <1>1, <1>3
<1>5. i - 1 \in 1..Len(s)-1 /\ (i - 1) + 1 = i
  BY <1>1, <1>4
<1>6. Tail(s)[i - 1] = FALSE
  BY <1>2, <1>3, <1>5
<1> QED
  BY <1>2, <1>5, <1>6 DEF Told

LEMMA ToldAppend ==
  ASSUME NEW S, NEW s \in Seq(S), NEW a \in S, Told(s) \/ a = FALSE
  PROVE  Told(Append(s, a))
<1>1. Len(s) \in Nat /\ Len(Append(s, a)) = Len(s) + 1 /\ Append(s, a)[Len(s) + 1] = a
      /\ \A i \in 1..Len(s) : Append(s, a)[i] = s[i]
  OBVIOUS
<1> QED
  BY <1>1 DEF Told

(***************************************************************************)
(* Steps leave the other requests alone.                                   *)
(***************************************************************************)

SameFiles(D) ==
  \A f : f[1] \in D => /\ (f \in DOMAIN files') <=> (f \in DOMAIN files)
                       /\ f \in DOMAIN files => files'[f] = files[f]
Same(r) ==
  /\ req'[r] = req[r] /\ pool'[r] = pool[r]
  /\ \A w \in Worker : work'[<<r, w>>] = work[<<r, w>>]
  /\ SameFiles(Own(r))
  /\ Own(r) \cap dirs' \subseteq dirs /\ left \subseteq left'

LEMMA LastingFormats == /\ Lasting \subseteq Formats /\ "none" \notin Formats
                        /\ \A k \in Lasting : k \notin Temporary /\ k # "zip"
BY KindsAssumption DEF Lasting, Formats

LEMMA WholeStays ==
  ASSUME NEW r, NEW k \in Formats, NEW g, IsWhole(r, k, g), SameFiles({<<r, k>>})
  PROVE  IsWhole(r, k, g)'
BY DEF IsWhole, SameFiles

LEMMA Framed ==
  ASSUME NEW r \in Request, Fine(r), Same(r)
  PROVE  Fine(r)'
<1>1. req'[r] = req[r] /\ pool'[r] = pool[r] /\ \A w \in Worker : work'[<<r, w>>] = work[<<r, w>>]
  BY DEF Same
<1>2. Off(r)' <=> Off(r)
  BY <1>1 DEF Off
<1>3. Phase(r)'
  BY <1>1, <1>2 DEF Phase, Fine
<1>4. Order(r)'
  BY <1>1 DEF Order, Fine
<1>5. ASSUME NEW k \in Formats, NEW g, IsWhole(r, k, g) PROVE IsWhole(r, k, g)'
  <2>1. <<r, k>> \in Own(r)
    BY DEF Own
  <2>2. SameFiles({<<r, k>>})
    BY <2>1 DEF Same, SameFiles
  <2> QED
    BY <1>5, <2>2, WholeStays
<1>6. Kept(r)'
  BY <1>1, <1>5, LastingFormats DEF Kept, Fine
<1>7. Bad(r)' <=> Bad(r)
  BY <1>1 DEF Bad
<1>8. \A g : Due(r, g)' <=> Due(r, g)
  BY <1>1 DEF Due, InHand
<1>9. Account(r)'
  BY <1>1, <1>5, <1>7, <1>8, LastingFormats DEF Account, Fine
<1>10. Gone(r)'
  BY <1>1 DEF Gone, Fine, Same, SameFiles
<1>11. ASSUME NEW w \in Worker PROVE Held(<<r, w>>)'
  <2>1. Held(<<r, w>>)
    BY DEF Fine
  <2>2. pool[r].kind \in Lasting => <<r, pool[r].kind>> \in Own(r)
    BY LastingFormats DEF Own
  <2>3. File(<<r, w>>)' = File(<<r, w>>)
    BY <1>1 DEF File, Dir
  <2>4. File(<<r, w>>)[1] = <<r, pool[r].kind>>
    BY DEF File, Dir
  <2> QED
    BY <1>1, <2>1, <2>2, <2>3, <2>4 DEF Held, Same, SameFiles
<1> QED
  BY <1>3, <1>4, <1>6, <1>9, <1>10, <1>11 DEF Fine

\* What a request removes is its own.
LEMMA RemovedIsOwn ==
  ASSUME TypeOK, NEW r \in Request, NEW s \in Request, s # r, NEW D, \A d \in D : d[1] = r,
         \/ Unlink(D) /\ UNCHANGED <<dirs, left>>
         \/ Rmdir(D) /\ UNCHANGED files
  PROVE  SameFiles(Own(s)) /\ Own(s) \cap dirs' \subseteq dirs /\ left \subseteq left'
<1>1. \A d \in Own(s) : d[1] = s
  BY DEF Own
<1>2. CASE Unlink(D) /\ UNCHANGED <<dirs, left>>
  BY <1>1, <1>2 DEF Unlink, SameFiles
<1>3. CASE Rmdir(D) /\ UNCHANGED files
  BY <1>3 DEF Rmdir, SameFiles
<1> QED
  BY <1>2, <1>3

LEMMA OtherRequests ==
  ASSUME TypeOK, NEW r \in Request, NEW s \in Request, s # r, Handle(r) \/ Proceed(r)
  PROVE  Same(s)
<1>1. CASE Handle(r)
  BY <1>1, BeginIs, TypeIs DEF Same, SameFiles
<1>2. ASSUME NEW k \in Formats, StartPool(r, k) PROVE Same(s)
  <2>1. req'[s] = req[s] /\ pool'[s] = pool[s] /\ files' = files /\ left' = left
    BY <1>2, TypeIs DEF StartPool
  <2>2. \A w \in Worker : work'[<<s, w>>] = work[<<s, w>>]
    BY <1>2 DEF StartPool
  <2>3. Own(s) \cap dirs' \subseteq dirs
    BY <1>2 DEF StartPool, Own
  <2> QED
    BY <2>1, <2>2, <2>3 DEF Same, SameFiles
<1>3. CASE StartFails(r) \/ Collect(r) \/ CloseResults(r) \/ Generated(r) \/ RunTaskOnce(r)
  <2>1. UNCHANGED <<work, dirs, files, left>>
    BY <1>3 DEF StartFails, Collect, CloseResults, Generated, RunTaskOnce
  <2>2. req'[s] = req[s]
    BY <1>3, TypeIs DEF StartFails, Collect, CloseResults, Generated, RunTaskOnce, Failed, Done
  <2>3. pool'[s] = pool[s]
    BY <1>3, TypeIs DEF StartFails, Collect, CloseResults, Generated, RunTaskOnce
  <2> QED
    BY <2>1, <2>2, <2>3 DEF Same, SameFiles
<1>4. CASE RemoveTemp(r)
  <2>1. PICK D : D = {<<r, UsesTemp(pool[r].kind)>>}
    OBVIOUS
  <2>2. \A d \in D : d[1] = r
    BY <2>1
  <2>3. \/ Unlink(D) /\ UNCHANGED <<dirs, left>>
        \/ Rmdir(D) /\ UNCHANGED files
    BY <1>4, <2>1 DEF RemoveTemp
  <2>4. SameFiles(Own(s)) /\ Own(s) \cap dirs' \subseteq dirs /\ left \subseteq left'
    BY <2>2, <2>3, RemovedIsOwn
  <2>5. req'[s] = req[s] /\ UNCHANGED <<pool, work>>
    BY <1>4, TypeIs DEF RemoveTemp
  <2> QED
    BY <2>4, <2>5 DEF Same
<1>5. CASE RemoveAll(r)
  <2>1. \A d \in Own(r) : d[1] = r
    BY DEF Own
  <2>2. req'[s] = req[s] /\ UNCHANGED <<pool, work>>
    BY <1>5, TypeIs DEF RemoveAll
  <2>3. CASE UNCHANGED <<files, dirs, left>>
    BY <2>2, <2>3 DEF Same, SameFiles
  <2>4. CASE \/ Unlink(Own(r)) /\ UNCHANGED <<dirs, left>>
             \/ Rmdir(Own(r)) /\ UNCHANGED files
    <3>1. SameFiles(Own(s)) /\ Own(s) \cap dirs' \subseteq dirs /\ left \subseteq left'
      BY <2>1, <2>4, RemovedIsOwn
    <3> QED
      BY <2>2, <3>1 DEF Same
  <2> QED
    BY <1>5, <2>3, <2>4 DEF RemoveAll
<1> QED
  BY <1>1, <1>2, <1>3, <1>4, <1>5 DEF Proceed

\* A worker changes its own record, its pool, and its own file.
LEMMA OtherWorkers ==
  ASSUME TypeOK, NEW r \in Request, NEW v \in Worker, NEW s \in Request, s # r, Turn(<<r, v>>)
  PROVE  Same(s)
<1>1. PICK x : x = <<r, v>>
  OBVIOUS
<1>2. x[1] = r /\ (\A w \in Worker : <<s, w>> # x) /\ File(x)[1][1] = r /\ Turn(x)
  BY <1>1 DEF File, Dir
<1>3. req' = req /\ dirs' = dirs /\ left' = left
  BY <1>2 DEF Turn, Take, Send, CreateFile, FillFile
<1>4. pool'[s] = pool[s]
  BY <1>2, TypeIs DEF Turn, Take, Send, CreateFile, FillFile
<1>5. \A w \in Worker : work'[<<s, w>>] = work[<<s, w>>]
  BY <1>2, TypeIs DEF Turn, Take, Send, CreateFile, FillFile, Report
<1>6. \/ files' = files
      \/ files' = [f \in DOMAIN files \cup {File(x)} |-> IF f = File(x) THEN "torn" ELSE files[f]]
      \/ files' = [files EXCEPT ![File(x)] = "whole"]
  BY <1>2 DEF Turn, Take, Send, CreateFile, FillFile
<1>7. \A d \in Own(s) : d[1] = s
  BY DEF Own
<1>8. SameFiles(Own(s))
  BY <1>2, <1>6, <1>7 DEF SameFiles
<1> QED
  BY <1>3, <1>4, <1>5, <1>8 DEF Same

(***************************************************************************)
(* The steps of a request.                                                 *)
(***************************************************************************)

\* A request that has failed owes nothing; only its list is left to be kept.
LEMMA FailedIsFine ==
  ASSUME NEW r \in Request, req'[r].ok = FALSE, req'[r].at \in {"sweep", "clean", "answered"},
         Order(r)', \A w \in Worker : work[<<r, w>>]' = work[<<r, w>>], Fine(r)
  PROVE  Fine(r)'
<1>1. Phase(r)'
  BY DEF Phase
<1>2. Kept(r)' /\ Account(r)' /\ Gone(r)'
  BY DEF Kept, Account, Gone
<1>3. ASSUME NEW w \in Worker PROVE Held(<<r, w>>)'
  BY DEF Fine, Held
<1> QED
  BY <1>1, <1>2, <1>3 DEF Fine

LEMMA HandleFine ==
  ASSUME TypeOK, NEW r \in Request, Fine(r), Handle(r)
  PROVE  Fine(r)'
<1>1. req[r].at = "idle" /\ UNCHANGED <<pool, work, dirs, files, dead, left>>
  BY BeginIs
<1>2. Order(r) /\ req[r].did = {} /\ req[r].ok /\ Off(r) /\ req[r] \in Req
  BY <1>1, TypeIs DEF Fine, Phase, Order
<1>3. CASE req' = [req EXCEPT ![r].at = "answered", ![r].ok = FALSE]
  <2>1. PICK q : q = [req[r] EXCEPT !.at = "answered", !.ok = FALSE]
    OBVIOUS
  <2>2. q.at = "answered" /\ q.ok = FALSE /\ q.did = req[r].did /\ q.todo = req[r].todo /\ req'[r] = q
    BY <1>2, <1>3, <2>1, TypeIs DEF Req
  <2>3. Order(r)'
    BY <1>2, <2>2 DEF Order
  <2> QED
    BY <1>1, <2>2, <2>3, FailedIsFine
<1>4. ASSUME NEW temp \in BOOLEAN, NEW todo \in Seq(Formats), NoDups(todo),
             req' = [req EXCEPT ![r].at = "next", ![r].temp = temp, ![r].todo = todo]
      PROVE  Fine(r)'
  <2>1. PICK q : q = [req[r] EXCEPT !.at = "next", !.temp = temp, !.todo = todo]
    OBVIOUS
  <2>2. q.at = "next" /\ q.ok = req[r].ok /\ q.did = req[r].did /\ q.todo = todo /\ req'[r] = q
    BY <1>2, <1>4, <2>1, TypeIs DEF Req
  <2>3. Phase(r)'
    BY <1>1, <1>2, <2>2 DEF Phase, Off
  <2>4. Order(r)'
    BY <1>2, <1>4, <2>2 DEF Order
  <2>5. Kept(r)' /\ Account(r)' /\ Gone(r)'
    BY <1>2, <2>2 DEF Kept, Account, Gone
  <2>6. \A w \in Worker : Held(<<r, w>>)'
    BY <1>1, <2>2 DEF Held, Fine
  <2> QED
    BY <2>3, <2>4, <2>5, <2>6 DEF Fine
<1> QED
  BY <1>3, <1>4, BeginIs

LEMMA StartPoolFine ==
  ASSUME TypeOK, NEW r \in Request, NEW k \in Formats, Fine(r), StartPool(r, k)
  PROVE  Fine(r)'
<1>1. /\ req[r].at = "next" /\ req[r].todo # <<>> /\ Head(req[r].todo) = k
      /\ files' = files
      /\ req[r] \in Req
  BY TypeIs DEF StartPool
<1>2. req[r].ok /\ Off(r)
  BY <1>1 DEF Fine, Phase
<1>3. PICK q : q = req'[r]
  OBVIOUS
<1>4. /\ q.at = "pool" /\ q.todo = Tail(req[r].todo) /\ q.did = req[r].did /\ q.ok = req[r].ok
      /\ q.temp = req[r].temp
  BY <1>1, <1>3, TypeIs DEF StartPool, Req
<1>5. pool'[r] = [kind |-> k, next |-> 1, buf |-> <<>>, open |-> TRUE]
  BY TypeIs DEF StartPool
<1>6. PICK c : c = pool'[r]
  OBVIOUS
<1>7. c.kind = k /\ c.next = 1 /\ c.open = TRUE
  BY <1>5, <1>6
<1>8. PICK W \in SUBSET Worker :
        /\ W # {}
        /\ \A w \in Worker : work'[<<r, w>>] = IF w \in W THEN [work[<<r, w>>] EXCEPT !.at = "take"]
                                               ELSE work[<<r, w>>]
  BY DEF StartPool
<1>9. \A w \in Worker : work'[<<r, w>>].at = IF w \in W THEN "take" ELSE "off"
  <2>1. \A w \in Worker : work[<<r, w>>] \in Hand /\ work[<<r, w>>].at = "off"
    BY <1>2, TypeIs DEF Off
  <2> QED
    BY <1>8, <2>1 DEF Hand
<1>10. ~Off(r)'
  BY <1>8, <1>9 DEF Off
<1>11. Phase(r)'
  BY <1>2, <1>3, <1>4, <1>6, <1>7, <1>10 DEF Phase
<1>12. Order(r)'
  <2>1. PICK t \in Seq(Formats) : t = req[r].todo
    BY <1>1 DEF Req
  <2>2. NoDups(t) /\ req[r].did \cap Elems(t) = {}
    BY <2>1 DEF Fine, Order
  <2>3. k \in Elems(t) /\ NoDups(Tail(t)) /\ Elems(Tail(t)) \subseteq Elems(t) /\ k \notin Elems(Tail(t))
    BY <1>1, <2>1, <2>2, FirstAndRest
  <2> QED
    BY <1>3, <1>4, <1>6, <1>7, <2>1, <2>2, <2>3 DEF Order
<1>13. Kept(r)'
  BY <1>1, <1>2, <1>3, <1>4 DEF Fine, Kept, IsWhole
<1>14. Account(r)'
  <2>1. \A g \in FilesOf(k) : g[1] >= 1
    BY SizeIs DEF FilesOf
  <2> QED
    BY <1>6, <1>7, <2>1 DEF Account, Due
<1>15. Gone(r)' /\ \A w \in Worker : Held(<<r, w>>)'
  BY <1>3, <1>4, <1>9 DEF Gone, Held
<1> QED
  BY <1>11, <1>12, <1>13, <1>14, <1>15 DEF Fine

LEMMA StartFailsFine ==
  ASSUME TypeOK, NEW r \in Request, Fine(r), StartFails(r)
  PROVE  Fine(r)'
<1>1. req[r].todo # <<>> /\ req[r] \in Req /\ UNCHANGED <<work, dirs, files, left>>
  BY TypeIs DEF StartFails
<1>2. PICK q : q = req'[r]
  OBVIOUS
<1>3. q.ok = FALSE /\ q.at \in {"sweep", "clean"} /\ q.todo = Tail(req[r].todo) /\ q.did = req[r].did
  BY <1>1, <1>2, TypeIs DEF StartFails, Req
<1>4. Order(r)'
  <2>1. PICK t \in Seq(Formats) : t = req[r].todo
    BY <1>1 DEF Req
  <2>2. NoDups(t) /\ req[r].did \cap Elems(t) = {}
    BY <2>1 DEF Fine, Order
  <2>3. NoDups(Tail(t)) /\ Elems(Tail(t)) \subseteq Elems(t)
    BY <1>1, <2>1, <2>2, FirstAndRest
  <2> QED
    BY <1>2, <1>3, <2>1, <2>2, <2>3 DEF Order
<1> QED
  BY <1>1, <1>2, <1>3, <1>4, FailedIsFine

\* What was the account of a format is the files of a format that is done.
LEMMA AllWhole ==
  ASSUME TypeOK, NEW r \in Request, Fine(r), req[r].at = "pool", pool[r].kind \in Lasting,
         pool[r].buf = <<>>, Off(r)
  PROVE  \A g \in FilesOf(pool[r].kind) : IsWhole(r, pool[r].kind, g)
<1>1. ~Told(pool[r].buf)
  <2>1. Len(<<>>) = 0
    OBVIOUS
  <2> QED
    BY <2>1 DEF Told
<1>2. ~Bad(r)
  BY <1>1 DEF Bad, Off
<1>3. pool[r].next = Size + 1
  BY DEF Fine, Phase
<1>4. ASSUME NEW g \in FilesOf(pool[r].kind) PROVE ~Due(r, g)
  <2>1. g[1] \in 1..Size
    BY DEF FilesOf
  <2>2. ~(g[1] >= Size + 1)
    BY <2>1, SizeIs
  <2> QED
    BY <1>3, <2>2 DEF Due, InHand, Off
<1> QED
  BY <1>2, <1>4 DEF Fine, Account

LEMMA CollectFine ==
  ASSUME TypeOK, NEW r \in Request, Fine(r), Collect(r)
  PROVE  Fine(r)'
<1>1. req[r].at = "pool" /\ UNCHANGED <<work, dirs, files, left>>
  BY DEF Collect
<1>2. req[r].ok /\ pool[r].kind \in Formats /\ req[r] \in Req /\ pool[r] \in Pool
  BY <1>1, TypeIs DEF Fine, Phase
<1>3. CASE Failed(r)
  <2>1. PICK q : q = req'[r]
    OBVIOUS
  <2>2. PICK a \in {"sweep", "clean"} : q = [req[r] EXCEPT !.ok = FALSE, !.at = a]
    BY <1>3, <2>1, FailedIs, TypeIs
  <2>3. q.ok = FALSE /\ q.at \in {"sweep", "clean"} /\ q.todo = req[r].todo /\ q.did = req[r].did
    BY <1>2, <2>2 DEF Req
  <2>4. Order(r)'
    BY <2>1, <2>3 DEF Order, Fine
  <2> QED
    BY <1>1, <2>1, <2>3, <2>4, FailedIsFine
<1>4. CASE pool[r].buf # <<>> /\ pool' = [pool EXCEPT ![r].buf = Tail(@)] /\ Head(pool[r].buf) /\ UNCHANGED req
  <2>1. PICK b \in Seq(BOOLEAN) : b = pool[r].buf
    BY <1>2 DEF Pool
  <2>2. PICK c : c = pool'[r]
    OBVIOUS
  <2>3. c.buf = Tail(b) /\ c.kind = pool[r].kind /\ c.next = pool[r].next /\ c.open = pool[r].open
    BY <1>2, <1>4, <2>1, <2>2, TypeIs DEF Pool
  <2>4. Told(b) => Told(Tail(b))
    <3>1. Head(b) # FALSE /\ b # <<>>
      BY <1>4, <2>1
    <3>2. PICK S : S = BOOLEAN
      OBVIOUS
    <3>3. b \in Seq(S)
      BY <3>2
    <3> QED
      BY <3>1, <3>3, ToldTail
  <2>5. Bad(r) => Bad(r)'
    BY <1>1, <2>1, <2>2, <2>3, <2>4 DEF Bad
  <2>6. Phase(r)'
    BY <1>1, <1>4, <2>2, <2>3 DEF Phase, Fine, Off
  <2>7. Order(r)'
    BY <1>4, <2>2, <2>3 DEF Order, Fine
  <2>8. Kept(r)' /\ Gone(r)'
    BY <1>1, <1>4 DEF Kept, Gone, Fine, IsWhole
  <2>9. Account(r)'
    BY <1>1, <1>4, <2>2, <2>3, <2>5 DEF Account, Fine, IsWhole, Due, InHand
  <2>10. \A w \in Worker : Held(<<r, w>>)'
    BY <1>1, <1>4, <2>2, <2>3 DEF Held, Fine, File, Dir
  <2> QED
    BY <2>6, <2>7, <2>8, <2>9, <2>10 DEF Fine
<1>5. CASE pool[r].buf = <<>> /\ ~pool[r].open /\ Done(r) /\ UNCHANGED pool
  <2>1. PICK q : q = req'[r]
    OBVIOUS
  <2>2. PICK a \in {"sweep", "next"} :
          q = [req[r] EXCEPT !.at = a, !.did = req[r].did \cup {pool[r].kind}]
    BY <1>2, <1>5, <2>1, DoneIs, TypeIs
  <2>3. /\ q.at \in {"sweep", "next"} /\ q.did = req[r].did \cup {pool[r].kind}
        /\ q.ok = req[r].ok /\ q.todo = req[r].todo /\ q.temp = req[r].temp
    BY <1>2, <2>2 DEF Req
  <2>4. Off(r)
    BY <1>1, <1>5 DEF Fine, Phase
  <2>5. Phase(r)'
    BY <1>1, <1>2, <2>1, <2>3, <2>4 DEF Phase, Off
  <2>6. Order(r)'
    BY <1>1, <2>1, <2>3 DEF Order, Fine
  <2>7. Kept(r)'
    <3>1. pool[r].kind \in Lasting => \A g \in FilesOf(pool[r].kind) : IsWhole(r, pool[r].kind, g)
      BY <1>1, <1>5, <2>4, AllWhole
    <3>2. \A k \in req[r].did \cap Lasting : \A g \in FilesOf(k) : IsWhole(r, k, g)
      BY <1>1, <1>2 DEF Fine, Kept
    <3>3. \A k \in q.did \cap Lasting : \A g \in FilesOf(k) : IsWhole(r, k, g)
      BY <2>3, <3>1, <3>2
    <3> QED
      BY <1>1, <2>1, <3>3 DEF Kept, IsWhole
  <2>8. Account(r)' /\ Gone(r)'
    BY <2>1, <2>3 DEF Account, Gone
  <2>9. \A w \in Worker : Held(<<r, w>>)'
    BY <1>1, <2>1, <2>3 DEF Held, Fine
  <2> QED
    BY <2>5, <2>6, <2>7, <2>8, <2>9 DEF Fine
<1> QED
  BY <1>3, <1>4, <1>5 DEF Collect

LEMMA CloseResultsFine ==
  ASSUME TypeOK, NEW r \in Request, Fine(r), CloseResults(r)
  PROVE  Fine(r)'
<1>1. Off(r) /\ UNCHANGED <<req, work, dirs, files, left>> /\ pool[r] \in Pool
  BY TypeIs DEF CloseResults, Off
<1>2. PICK c : c = pool'[r]
  OBVIOUS
<1>3. c.kind = pool[r].kind /\ c.next = pool[r].next /\ c.buf = pool[r].buf
  BY <1>1, <1>2, TypeIs DEF CloseResults, Pool
<1>4. Phase(r)'
  BY <1>1, <1>2, <1>3 DEF Phase, Fine, Off
<1>5. Order(r)'
  BY <1>1, <1>2, <1>3 DEF Order, Fine
<1>6. Kept(r)' /\ Gone(r)'
  BY <1>1 DEF Kept, Gone, Fine, IsWhole
<1>7. Account(r)'
  BY <1>1, <1>2, <1>3 DEF Account, Fine, IsWhole, Due, InHand, Bad
<1>8. \A w \in Worker : Held(<<r, w>>)'
  BY <1>1, <1>2, <1>3 DEF Held, Fine, File, Dir
<1> QED
  BY <1>4, <1>5, <1>6, <1>7, <1>8 DEF Fine

\* The deferred sweep takes no directory of a format that stays.
LEMMA RemoveTempFine ==
  ASSUME TypeOK, NEW r \in Request, Fine(r), RemoveTemp(r)
  PROVE  Fine(r)'
<1>1. req[r].at = "sweep" /\ UNCHANGED <<pool, work>> /\ req[r] \in Req
  BY TypeIs DEF RemoveTemp
<1>2. PICK D : D = {<<r, UsesTemp(pool[r].kind)>>}
  OBVIOUS
<1>3. \A k \in Lasting : <<r, k>> \notin D
  BY <1>2, LastingFormats DEF UsesTemp, Temporary
<1>4. /\ Unlink(D) /\ UNCHANGED req
      \/ /\ UNCHANGED files
         /\ req' = [req EXCEPT ![r].at = IF req[r].ok THEN "next" ELSE "clean"]
  BY <1>2 DEF RemoveTemp
<1>5. PICK q : q = req'[r]
  OBVIOUS
<1>6. /\ q.at \in {"sweep", "next", "clean"} /\ (q.at = "next" => q.ok) /\ (q.at = "clean" => ~q.ok)
      /\ q.ok = req[r].ok /\ q.temp = req[r].temp /\ q.did = req[r].did /\ q.todo = req[r].todo
  BY <1>1, <1>4, <1>5, TypeIs DEF Req
<1>7. Phase(r)'
  BY <1>1, <1>5, <1>6 DEF Phase, Fine, Off
<1>8. Order(r)'
  BY <1>5, <1>6 DEF Order, Fine
<1>9. ASSUME NEW k \in Lasting, NEW g, IsWhole(r, k, g) PROVE IsWhole(r, k, g)'
  BY <1>3, <1>4, <1>9 DEF IsWhole, Unlink
<1>10. Kept(r)'
  BY <1>1, <1>5, <1>6, <1>9 DEF Kept, Fine
<1>11. Account(r)' /\ Gone(r)'
  BY <1>5, <1>6 DEF Account, Gone
<1>12. \A w \in Worker : Held(<<r, w>>)'
  BY <1>1, <1>5, <1>6 DEF Held, Fine
<1> QED
  BY <1>7, <1>8, <1>10, <1>11, <1>12 DEF Fine

LEMMA GeneratedFine ==
  ASSUME TypeOK, NEW r \in Request, Fine(r), Generated(r)
  PROVE  Fine(r)'
<1>1. req[r].at = "next" /\ UNCHANGED <<pool, work, files, dirs, left>> /\ req[r] \in Req
  BY TypeIs DEF Generated
<1>2. PICK q : q = req'[r]
  OBVIOUS
<1>3. /\ q.at = (IF req[r].temp THEN "import" ELSE "answered")
      /\ q.ok = req[r].ok /\ q.temp = req[r].temp /\ q.did = req[r].did /\ q.todo = req[r].todo
  BY <1>1, <1>2, TypeIs DEF Generated, Req
<1>4. Phase(r)'
  BY <1>1, <1>2, <1>3 DEF Phase, Fine, Off
<1>5. Order(r)'
  BY <1>2, <1>3 DEF Order, Fine
<1>6. Kept(r)' /\ Account(r)' /\ Gone(r)'
  BY <1>1, <1>2, <1>3 DEF Kept, Account, Gone, Fine, IsWhole
<1>7. \A w \in Worker : Held(<<r, w>>)'
  BY <1>1, <1>2, <1>3 DEF Held, Fine
<1> QED
  BY <1>4, <1>5, <1>6, <1>7 DEF Fine

LEMMA RunTaskOnceFine ==
  ASSUME TypeOK, NEW r \in Request, Fine(r), RunTaskOnce(r)
  PROVE  Fine(r)'
<1>1. req[r].at = "import" /\ UNCHANGED <<pool, work, files, dirs, left>> /\ req[r] \in Req
  BY TypeIs DEF RunTaskOnce
<1>2. PICK q : q = req'[r]
  OBVIOUS
<1>3. q.at = "clean" /\ q.temp = req[r].temp /\ q.did = req[r].did /\ q.todo = req[r].todo
  BY <1>1, <1>2, TypeIs DEF RunTaskOnce, Req
<1>4. req[r].temp /\ Off(r)
  BY <1>1 DEF Fine, Phase
<1>5. Phase(r)'
  BY <1>1, <1>2, <1>3, <1>4 DEF Phase, Off
<1>6. Order(r)'
  BY <1>2, <1>3 DEF Order, Fine
<1>7. Kept(r)' /\ Account(r)' /\ Gone(r)'
  BY <1>2, <1>3, <1>4 DEF Kept, Account, Gone
<1>8. \A w \in Worker : Held(<<r, w>>)'
  BY <1>1, <1>2, <1>3 DEF Held, Fine
<1> QED
  BY <1>5, <1>6, <1>7, <1>8 DEF Fine

\* A directory that is empty is removed, unless the file system refuses.
LEMMA RemoveAllFine ==
  ASSUME TypeOK, NEW r \in Request, Fine(r), RemoveAll(r)
  PROVE  Fine(r)'
<1>1. UNCHANGED <<pool, work>> /\ req[r] \in Req
  BY TypeIs DEF RemoveAll
<1>2. PICK q : q = req'[r]
  OBVIOUS
<1>3. PICK a \in {"answered", "rmdir"} : req' = [req EXCEPT ![r].at = a]
  BY DEF RemoveAll
<1>4. q.at = a /\ q.ok = req[r].ok /\ q.temp = req[r].temp /\ q.did = req[r].did /\ q.todo = req[r].todo
  BY <1>1, <1>2, <1>3, TypeIs DEF Req
<1>5. \/ q.at = "answered" /\ req[r].at = "clean" /\ ~req[r].temp
      \/ q.at = "rmdir" /\ req[r].at = "clean" /\ req[r].temp /\ Unlink(Own(r))
      \/ q.at = "answered" /\ req[r].at = "rmdir" /\ Rmdir(Own(r)) /\ UNCHANGED files
  BY <1>1, <1>2, TypeIs DEF RemoveAll, Req
<1>6. req[r].ok => req[r].temp
  BY <1>5 DEF Fine, Phase
<1>7. Phase(r)'
  BY <1>1, <1>2, <1>4, <1>5 DEF Phase, Fine, Off
<1>8. Order(r)'
  BY <1>2, <1>4, <1>5 DEF Order, Fine
<1>9. Kept(r)' /\ Account(r)'
  BY <1>2, <1>4, <1>5, <1>6 DEF Kept, Account
<1>10. Gone(r)'
  <2>1. CASE q.at = "rmdir" /\ Unlink(Own(r))
    BY <1>2, <2>1 DEF Gone, Unlink
  <2>2. CASE q.at = "answered" /\ req[r].at = "rmdir" /\ Rmdir(Own(r)) /\ UNCHANGED files
    <3>1. SUFFICES ASSUME req[r].ok, req[r].temp PROVE Own(r)' \cap dirs' \subseteq left'
      BY <1>2, <1>4, <2>2 DEF Gone
    <3>2. \A d \in Own(r) : ~Holds(d)
      BY <2>2, <3>1 DEF Fine, Gone, Holds
    <3>3. Own(r)' = Own(r)
      BY DEF Own
    <3> QED
      BY <2>2, <3>2, <3>3 DEF Rmdir
  <2>3. CASE q.at = "answered" /\ ~req[r].temp
    BY <1>2, <1>4, <2>3 DEF Gone
  <2> QED
    BY <1>5, <2>1, <2>2, <2>3
<1>11. \A w \in Worker : Held(<<r, w>>)'
  BY <1>1, <1>2, <1>4, <1>5 DEF Held, Fine
<1> QED
  BY <1>7, <1>8, <1>9, <1>10, <1>11 DEF Fine

(***************************************************************************)
(* The steps of a worker.                                                  *)
(***************************************************************************)

\* Whatever worker x of request r does, h is its record after it, and only the
\* account of the format that is read has to be shown for the step.
LEMMA WorkerFine ==
  ASSUME TypeOK, NEW r \in Request, NEW v \in Worker, NEW x, x = <<r, v>>, NEW h,
         Fine(r), work[x].at # "off", UNCHANGED <<req, dirs, left>>,
         work' = [work EXCEPT ![x] = h],
         pool'[r].kind = pool[r].kind, pool'[r].open = pool[r].open,
         h.at = "off" => pool'[r].next = Size + 1,
         DOMAIN files \subseteq DOMAIN files',
         \A k \in Formats \ {pool[r].kind} : \A g : IsWhole(r, k, g) => IsWhole(r, k, g)',
         Held(x)', req[r].ok => Account(r)'
  PROVE  Fine(r)'
<1>1. \A w \in Worker : work'[<<r, w>>] = IF w = v THEN h ELSE work[<<r, w>>]
  BY TypeIs
<1>2. req[r].ok => req[r].at = "pool" /\ pool[r].open
  BY Working DEF Fine
<1>3. Phase(r)'
  BY <1>1, <1>2 DEF Phase, Fine, Off
<1>4. Order(r)'
  BY DEF Order, Fine
<1>5. Kept(r)'
  <2>1. ASSUME req[r].ok, NEW k \in req[r].did \cap Lasting, NEW g \in FilesOf(k)
        PROVE  IsWhole(r, k, g)'
    <3>1. IsWhole(r, k, g)
      BY <1>2, <2>1 DEF Fine, Kept
    <3>2. k # pool[r].kind /\ k \in Formats
      BY <1>2, <2>1, LastingFormats DEF Fine, Order
    <3> QED
      BY <3>1, <3>2
  <2> QED
    BY <2>1 DEF Kept
<1>6. Account(r)'
  <2>1. ~req[r].ok => req[r].at # "pool"
    BY DEF Fine, Phase
  <2> QED
    BY <2>1 DEF Account
<1>7. Gone(r)'
  BY <1>2 DEF Gone
<1>8. ASSUME NEW w \in Worker PROVE Held(<<r, w>>)'
  <2>1. CASE w = v
    BY <2>1
  <2>2. CASE w # v
    <3>1. work'[<<r, w>>] = work[<<r, w>>] /\ File(<<r, w>>)' = File(<<r, w>>)
      BY <1>1, <2>2 DEF File, Dir
    <3>2. Held(<<r, w>>)
      BY DEF Fine
    <3> QED
      BY <3>1, <3>2 DEF Held
  <2> QED
    BY <2>1, <2>2
<1> QED
  BY <1>3, <1>4, <1>5, <1>6, <1>7, <1>8 DEF Fine

\* A file that was still to come of another worker still is.
LEMMA OthersDue ==
  ASSUME TypeOK, NEW r \in Request, NEW v \in Worker, NEW x, x = <<r, v>>, NEW h,
         work' = [work EXCEPT ![x] = h], NEW g, NEW w \in Worker, InHand(<<r, w>>, g),
         w # v \/ (h.item = g[1] /\ \/ h.at \in {"piece", "fill"} /\ h.piece <= g[2]
                                    \/ h.at = "send" /\ h.piece < g[2])
  PROVE  Due(r, g)'
<1>1. work'[<<r, w>>] = IF w = v THEN h ELSE work[<<r, w>>]
  BY TypeIs
<1>2. InHand(<<r, w>>, g)'
  BY <1>1 DEF InHand
<1> QED
  BY <1>2 DEF Due

\* An error of another worker stays on its way.
LEMMA OthersBad ==
  ASSUME TypeOK, NEW r \in Request, NEW v \in Worker, NEW x, x = <<r, v>>, NEW h,
         work' = [work EXCEPT ![x] = h], Told(pool[r].buf) => Told(pool'[r].buf),
         work[x].at = "send" /\ Told(work[x].sends) =>
             (h.at = "send" /\ Told(h.sends)) \/ Told(pool'[r].buf),
         Bad(r)
  PROVE  Bad(r)'
<1>1. \A w \in Worker : work'[<<r, w>>] = IF w = v THEN h ELSE work[<<r, w>>]
  BY TypeIs
<1> QED
  BY <1>1 DEF Bad

\* What a worker sends for a file that failed has an error in it.
LEMMA ErrorsTold == Told(<<FALSE>>) /\ Told(<<FALSE, FALSE>>) /\ Told(<<FALSE, TRUE>>)
<1>1. ASSUME NEW a, NEW b, a = FALSE PROVE Told(<<a>>) /\ Told(<<a, b>>)
  <2>1. Len(<<a>>) = 1 /\ Len(<<a, b>>) = 2 /\ <<a>>[1] = a /\ <<a, b>>[1] = a
    OBVIOUS
  <2> QED
    BY <1>1, <2>1 DEF Told
<1> QED
  BY <1>1

LEMMA TakeFine ==
  ASSUME TypeOK, NEW r \in Request, NEW v \in Worker, NEW x, x = <<r, v>>, Fine(r), Take(x)
  PROVE  Fine(r)'
<1>1. /\ work[x].at = "take" /\ UNCHANGED <<req, dirs, files, left>>
      /\ x \in Request \X Worker /\ x[1] = r /\ work[x] \in Hand /\ pool[r] \in Pool
  BY TypeIs DEF Take
<1>2. pool[r].next \in 1..Size + 1
  BY <1>1 DEF Pool
<1>3. \A k, g : IsWhole(r, k, g) => IsWhole(r, k, g)'
  BY <1>1 DEF IsWhole
<1>4. CASE /\ pool[r].next > Size
           /\ work' = [work EXCEPT ![x].at = "off"] /\ UNCHANGED pool
  <2>1. PICK h : h = [work[x] EXCEPT !.at = "off"]
    OBVIOUS
  <2>2. h.at = "off" /\ work' = [work EXCEPT ![x] = h]
    BY <1>1, <1>4, <2>1, TypeIs DEF Hand
  <2>3. pool'[r].next = Size + 1
    BY <1>2, <1>4, SizeIs
  <2>4. work'[x] = h
    BY <1>1, <2>2, TypeIs
  <2>5. Held(x)'
    BY <2>2, <2>4 DEF Held
  <2>6. Bad(r) => Bad(r)'
    <3>1. pool'[r].buf = pool[r].buf
      BY <1>4
    <3>2. work[x].at # "send"
      BY <1>1
    <3> QED
      BY <2>2, <3>1, <3>2, OthersBad
  <2>7. ASSUME NEW g, Due(r, g) PROVE Due(r, g)'
    <3>1. CASE g[1] >= pool[r].next
      BY <1>4, <3>1 DEF Due
    <3>2. CASE \E w \in Worker : InHand(<<r, w>>, g)
      <4>1. PICK w \in Worker : InHand(<<r, w>>, g)
        BY <3>2
      <4>2. w # v
        BY <1>1, <4>1 DEF InHand
      <4> QED
        BY <2>2, <4>1, <4>2, OthersDue
    <3> QED
      BY <2>7, <3>1, <3>2 DEF Due
  <2>8. Account(r)'
    BY <1>1, <1>3, <1>4, <2>6, <2>7 DEF Fine, Account
  <2> QED
    BY <1>1, <1>3, <1>4, <2>2, <2>3, <2>5, <2>8, WorkerFine
<1>5. CASE /\ ~(pool[r].next > Size)
           /\ pool' = [pool EXCEPT ![r].next = @ + 1]
           /\ work' = [work EXCEPT ![x].at = "piece", ![x].item = pool[r].next, ![x].piece = 1]
  <2>1. PICK h : h = [work[x] EXCEPT !.at = "piece", !.item = pool[r].next, !.piece = 1]
    OBVIOUS
  <2>2. /\ h.at = "piece" /\ h.item = pool[r].next /\ h.piece = 1
        /\ work' = [work EXCEPT ![x] = h]
    BY <1>1, <1>5, <2>1, TypeIs DEF Hand
  <2>3. PICK c : c = pool'[r]
    OBVIOUS
  <2>4. c.kind = pool[r].kind /\ c.open = pool[r].open /\ c.buf = pool[r].buf /\ c.next = pool[r].next + 1
    BY <1>1, <1>5, <2>3, TypeIs DEF Pool
  <2>5. work'[x] = h
    BY <1>1, <2>2, TypeIs
  <2>6. Held(x)'
    BY <1>2, <2>2, <2>5 DEF Held
  <2>7. Bad(r) => Bad(r)'
    BY <1>1, <2>2, <2>3, <2>4, OthersBad
  <2>8. ASSUME NEW g \in FilesOf(pool[r].kind), Due(r, g) PROVE Due(r, g)'
    <3>0. g[1] \in Nat /\ g[2] \in Nat /\ g[2] >= 1
      BY SizeIs DEF FilesOf
    <3>1. CASE g[1] >= pool[r].next + 1
      BY <2>3, <2>4, <3>1 DEF Due
    <3>2. CASE g[1] = pool[r].next
      <4>1. InHand(x, g)'
        BY <2>2, <2>5, <3>0, <3>2 DEF InHand
      <4> QED
        BY <4>1 DEF Due
    <3>3. CASE \E w \in Worker : InHand(<<r, w>>, g)
      <4>1. PICK w \in Worker : InHand(<<r, w>>, g)
        BY <3>3
      <4>2. w # v
        BY <1>1, <4>1 DEF InHand
      <4> QED
        BY <2>2, <4>1, <4>2, OthersDue
    <3>4. g[1] >= pool[r].next => g[1] >= pool[r].next + 1 \/ g[1] = pool[r].next
      BY <1>2, <3>0
    <3> QED
      BY <2>8, <3>1, <3>2, <3>3, <3>4 DEF Due
  <2>9. Account(r)'
    BY <1>1, <1>3, <2>3, <2>4, <2>7, <2>8 DEF Fine, Account
  <2> QED
    BY <1>1, <1>3, <2>2, <2>3, <2>4, <2>6, <2>9, WorkerFine
<1> QED
  BY <1>1, <1>4, <1>5 DEF Take

\* A file is torn until it is filled; a file that cannot be made is an error.
LEMMA CreateFileFine ==
  ASSUME TypeOK, NEW r \in Request, NEW v \in Worker, NEW x, x = <<r, v>>, Fine(r), CreateFile(x)
  PROVE  Fine(r)'
<1>1. /\ work[x].at = "piece" /\ UNCHANGED <<req, pool, dirs, left>>
      /\ x \in Request \X Worker /\ x[1] = r /\ work[x] \in Hand /\ pool[r] \in Pool
  BY TypeIs DEF CreateFile
<1>2. Held(x) /\ work[x].item >= 1 /\ work[x].piece >= 1
  BY <1>1 DEF Fine, Held
<1>3. CASE /\ files' = [f \in DOMAIN files \cup {File(x)} |-> IF f = File(x) THEN "torn" ELSE files[f]]
           /\ work' = [work EXCEPT ![x].at = "fill"]
  <2>1. PICK h : h = [work[x] EXCEPT !.at = "fill"]
    OBVIOUS
  <2>2. /\ h.at = "fill" /\ h.item = work[x].item /\ h.piece = work[x].piece
        /\ work' = [work EXCEPT ![x] = h]
    BY <1>1, <1>3, <2>1, TypeIs DEF Hand
  <2>3. work'[x] = h
    BY <1>1, <2>2, TypeIs
  <2>4. File(x)' = File(x) /\ DOMAIN files \subseteq DOMAIN files' /\ File(x) \in DOMAIN files'
    BY <1>1, <1>3, <2>2, <2>3 DEF File, Dir
  <2>5. Held(x)'
    BY <1>2, <2>2, <2>3, <2>4 DEF Held
  <2>6. Bad(r) => Bad(r)'
    BY <1>1, <2>2, OthersBad
  <2>7. ASSUME NEW g, Due(r, g) PROVE Due(r, g)'
    <3>1. CASE g[1] >= pool[r].next
      BY <1>1, <3>1 DEF Due
    <3>2. CASE \E w \in Worker : InHand(<<r, w>>, g)
      <4>1. PICK w \in Worker : InHand(<<r, w>>, g)
        BY <3>2
      <4>2. w = v => h.item = g[1] /\ h.piece <= g[2]
        BY <1>1, <2>2, <4>1 DEF InHand
      <4> QED
        BY <2>2, <4>1, <4>2, OthersDue
    <3> QED
      BY <2>7, <3>1, <3>2 DEF Due
  <2>8. File(x) = <<<<r, pool[r].kind>>, work[x].item, work[x].piece>>
    BY <1>1 DEF File, Dir
  <2>9. ASSUME NEW k, NEW g, IsWhole(r, k, g), <<<<r, k>>, g[1], g[2]>> # File(x)
        PROVE  IsWhole(r, k, g)'
    BY <1>3, <2>9 DEF IsWhole
  <2>10. ASSUME NEW g \in FilesOf(pool[r].kind), <<<<r, pool[r].kind>>, g[1], g[2]>> = File(x)
         PROVE  Due(r, g)'
    <3>1. g[1] = h.item /\ g[2] = h.piece /\ g[2] \in Nat
      BY <2>2, <2>8, <2>10, SizeIs DEF FilesOf
    <3>2. InHand(x, g)'
      BY <2>2, <2>3, <3>1 DEF InHand
    <3> QED
      BY <3>2 DEF Due
  <2>11. Account(r)'
    BY <1>1, <2>6, <2>7, <2>9, <2>10 DEF Fine, Account
  <2>12. \A k \in Formats \ {pool[r].kind} : \A g : IsWhole(r, k, g) => IsWhole(r, k, g)'
    BY <2>8, <2>9
  <2> QED
    BY <1>1, <2>2, <2>4, <2>5, <2>11, <2>12, WorkerFine
<1>4. CASE Report(x, Errors(pool[r].kind), Panics(pool[r].kind)) /\ UNCHANGED files
  <2>1. PICK s : s = Errors(pool[r].kind)
    OBVIOUS
  <2>2. PICK h : h = [work[x] EXCEPT !.at = "send", !.sends = s, !.dies = Panics(pool[r].kind)]
    OBVIOUS
  <2>3. /\ h.at = "send" /\ h.item = work[x].item /\ h.piece = work[x].piece /\ h.sends = s
        /\ work' = [work EXCEPT ![x] = h]
    BY <1>1, <1>4, <2>1, <2>2, TypeIs DEF Hand, Report
  <2>4. work'[x] = h
    BY <1>1, <2>3, TypeIs
  <2>5. Held(x)'
    BY <1>2, <2>3, <2>4 DEF Held
  <2>6. Told(s)
    BY <2>1, ErrorsTold DEF Errors
  <2>7. Bad(r)'
    BY <2>3, <2>4, <2>6 DEF Bad
  <2>8. Account(r)'
    BY <2>7 DEF Account
  <2>9. \A k, g : IsWhole(r, k, g) => IsWhole(r, k, g)'
    BY <1>4 DEF IsWhole
  <2> QED
    BY <1>1, <1>4, <2>3, <2>5, <2>8, <2>9, WorkerFine
<1> QED
  BY <1>1, <1>3, <1>4 DEF CreateFile

\* A file that was filled is whole; one that failed is an error.
LEMMA FillFileFine ==
  ASSUME TypeOK, NEW r \in Request, NEW v \in Worker, NEW x, x = <<r, v>>, Fine(r), FillFile(x)
  PROVE  Fine(r)'
<1>1. /\ work[x].at = "fill" /\ UNCHANGED <<req, pool, dirs, left>>
      /\ x \in Request \X Worker /\ x[1] = r /\ work[x] \in Hand /\ pool[r] \in Pool
  BY TypeIs DEF FillFile
<1>2. Held(x) /\ work[x].item >= 1 /\ work[x].piece >= 1
  BY <1>1 DEF Fine, Held
<1>3. PICK ok \in BOOLEAN, ended \in BOOLEAN :
        /\ ended \/ pool[r].kind = "zip"
        /\ Report(x, Results(pool[r].kind, ok), FALSE)
        /\ files' = IF ok /\ ended /\ File(x) \in DOMAIN files
                       /\ (pool[r].kind = "zip" => Whole(r, "tmpTxt"))
                    THEN [files EXCEPT ![File(x)] = "whole"] ELSE files
  BY <1>1 DEF FillFile
<1>4. PICK s : s = Results(pool[r].kind, ok)
  OBVIOUS
<1>5. PICK h : h = [work[x] EXCEPT !.at = "send", !.sends = s, !.dies = FALSE]
  OBVIOUS
<1>6. /\ h.at = "send" /\ h.item = work[x].item /\ h.piece = work[x].piece /\ h.sends = s
      /\ work' = [work EXCEPT ![x] = h]
  BY <1>1, <1>3, <1>4, <1>5, TypeIs DEF Hand, Report
<1>7. work'[x] = h
  BY <1>1, <1>6, TypeIs
<1>8. Held(x)'
  BY <1>2, <1>6, <1>7 DEF Held
<1>9. files' = files \/ files' = [files EXCEPT ![File(x)] = "whole"]
  BY <1>3
<1>10. ASSUME NEW k, NEW g, IsWhole(r, k, g) PROVE IsWhole(r, k, g)'
  BY <1>9, <1>10 DEF IsWhole
<1>11. DOMAIN files \subseteq DOMAIN files'
  BY <1>9
<1>12. ASSUME req[r].at = "pool", pool[r].kind \in Lasting, ~Bad(r)'
       PROVE  \A g \in FilesOf(pool[r].kind) : Due(r, g)' \/ IsWhole(r, pool[r].kind, g)'
  <2>1. ok
    <3>1. SUFFICES ASSUME ~ok PROVE FALSE
      OBVIOUS
    <3>2. Told(s)
      BY <1>4, <3>1, ErrorsTold DEF Results
    <3>3. Bad(r)'
      BY <1>6, <1>7, <3>2 DEF Bad
    <3> QED
      BY <1>12, <3>3
  <2>2. pool[r].kind # "zip" /\ File(x) \in DOMAIN files
    BY <1>1, <1>2, <1>12, LastingFormats DEF Held
  <2>3. files' = [files EXCEPT ![File(x)] = "whole"]
    BY <1>3, <2>1, <2>2
  <2>4. ~Bad(r)
    <3>1. pool'[r].buf = pool[r].buf
      BY <1>1
    <3>2. work[x].at # "send"
      BY <1>1
    <3> QED
      BY <1>6, <1>12, <3>1, <3>2, OthersBad
  <2>5. ASSUME NEW g \in FilesOf(pool[r].kind) PROVE Due(r, g)' \/ IsWhole(r, pool[r].kind, g)'
    <3>1. CASE IsWhole(r, pool[r].kind, g)
      <4>1. PICK k : k = pool[r].kind /\ k = pool'[r].kind
        BY <1>1
      <4>2. IsWhole(r, k, g)'
        BY <1>10, <3>1, <4>1
      <4> QED
        BY <4>1, <4>2
    <3>2. CASE g[1] >= pool[r].next
      BY <1>1, <3>2 DEF Due
    <3>3. CASE \E w \in Worker : InHand(<<r, w>>, g)
      <4>1. PICK w \in Worker : InHand(<<r, w>>, g)
        BY <3>3
      <4>2. CASE w # v
        BY <1>6, <4>1, <4>2, OthersDue
      <4>3. CASE w = v /\ work[x].piece < g[2]
        <5>1. h.item = g[1] /\ h.at = "send" /\ h.piece < g[2]
          BY <1>1, <1>6, <4>1, <4>3 DEF InHand
        <5> QED
          BY <1>6, <4>1, <5>1, OthersDue
      <4>4. CASE w = v /\ ~(work[x].piece < g[2])
        <5>1. work[x].item = g[1] /\ work[x].piece <= g[2]
          BY <1>1, <4>1, <4>4 DEF InHand
        <5>2. g[2] \in Nat /\ work[x].piece \in Nat
          BY <1>1, SizeIs DEF FilesOf, Hand
        <5>3. work[x].piece = g[2]
          BY <4>4, <5>1, <5>2
        <5>4. File(x) = <<<<r, pool[r].kind>>, g[1], g[2]>>
          BY <1>1, <5>1, <5>3 DEF File, Dir
        <5>5. IsWhole(r, pool[r].kind, g)'
          BY <1>1, <2>2, <2>3, <5>4 DEF IsWhole
        <5> QED
          BY <5>5
      <4> QED
        BY <4>2, <4>3, <4>4
    <3>4. Due(r, g) \/ IsWhole(r, pool[r].kind, g)
      BY <1>12, <2>4 DEF Fine, Account
    <3> QED
      BY <3>1, <3>2, <3>3, <3>4 DEF Due
  <2> QED
    BY <2>5
<1>13. Account(r)'
  BY <1>1, <1>12 DEF Account
<1> QED
  BY <1>1, <1>6, <1>8, <1>10, <1>11, <1>13, WorkerFine

\* What is sent is on its way in the channel; after the last result comes the
\* next piece of the number, or the next number.
LEMMA SendFine ==
  ASSUME TypeOK, NEW r \in Request, NEW v \in Worker, NEW x, x = <<r, v>>, Fine(r), Send(x)
  PROVE  Fine(r)'
<1>1. /\ work[x].at = "send" /\ UNCHANGED <<req, dirs, files, left>>
      /\ x \in Request \X Worker /\ x[1] = r /\ work[x] \in Hand /\ pool[r] \in Pool
  BY TypeIs DEF Send
<1>2. Held(x) /\ work[x].item >= 1 /\ work[x].piece >= 1
  BY <1>1 DEF Fine, Held
<1>3. \A k, g : IsWhole(r, k, g) => IsWhole(r, k, g)'
  BY <1>1 DEF IsWhole
<1>4. PICK s \in Seq(BOOLEAN) : s = work[x].sends
  BY <1>1 DEF Hand
<1>5. PICK b \in Seq(BOOLEAN) : b = pool[r].buf
  BY <1>1 DEF Pool
<1>6. CASE /\ s # <<>>
           /\ pool' = [pool EXCEPT ![r].buf = Append(b, Head(s))]
           /\ work' = [work EXCEPT ![x].sends = Tail(s)]
  <2>1. PICK h : h = [work[x] EXCEPT !.sends = Tail(s)]
    OBVIOUS
  <2>2. /\ h.at = "send" /\ h.item = work[x].item /\ h.piece = work[x].piece /\ h.sends = Tail(s)
        /\ work' = [work EXCEPT ![x] = h]
    BY <1>1, <1>6, <2>1, TypeIs DEF Hand
  <2>3. work'[x] = h
    BY <1>1, <2>2, TypeIs
  <2>4. PICK c : c = pool'[r]
    OBVIOUS
  <2>5. c.kind = pool[r].kind /\ c.open = pool[r].open /\ c.next = pool[r].next
        /\ c.buf = Append(b, Head(s))
    BY <1>1, <1>6, <2>4, TypeIs DEF Pool
  <2>6. Held(x)'
    BY <1>2, <2>2, <2>3 DEF Held
  <2>7. Bad(r) => Bad(r)'
    <3>1. PICK S : S = BOOLEAN
      OBVIOUS
    <3>2. b \in Seq(S) /\ s \in Seq(S) /\ Head(s) \in S
      BY <1>6, <3>1, Lists
    <3>3. Told(b) \/ Head(s) = FALSE => Told(Append(b, Head(s)))
      BY <3>2, ToldAppend
    <3>4. Told(s) /\ Head(s) # FALSE => Told(Tail(s))
      BY <1>6, <3>2, ToldTail
    <3>5. Told(pool[r].buf) => Told(pool'[r].buf)
      BY <1>5, <2>4, <2>5, <3>3
    <3>6. Told(work[x].sends) => Told(h.sends) \/ Told(pool'[r].buf)
      BY <1>4, <2>2, <2>4, <2>5, <3>3, <3>4
    <3> QED
      BY <2>2, <3>5, <3>6, OthersBad
  <2>8. ASSUME NEW g, Due(r, g) PROVE Due(r, g)'
    <3>1. CASE g[1] >= pool[r].next
      BY <2>4, <2>5, <3>1 DEF Due
    <3>2. CASE \E w \in Worker : InHand(<<r, w>>, g)
      <4>1. PICK w \in Worker : InHand(<<r, w>>, g)
        BY <3>2
      <4>2. w = v => h.item = g[1] /\ h.piece < g[2]
        BY <1>1, <2>2, <4>1 DEF InHand
      <4> QED
        BY <2>2, <4>1, <4>2, OthersDue
    <3> QED
      BY <2>8, <3>1, <3>2 DEF Due
  <2>9. Account(r)'
    BY <1>1, <1>3, <2>4, <2>5, <2>7, <2>8 DEF Fine, Account
  <2> QED
    BY <1>1, <1>3, <2>2, <2>4, <2>5, <2>6, <2>9, WorkerFine
<1>7. CASE /\ s = <<>> /\ UNCHANGED pool
           /\ \/ work' = [work EXCEPT ![x].at = "piece", ![x].piece = @ + 1]
              \/ /\ <<work[x].item, work[x].piece + 1>> \notin FilesOf(pool[r].kind)
                 /\ work' = [work EXCEPT ![x].at = "take"]
  <2>1. PICK h : \/ h = [work[x] EXCEPT !.at = "piece", !.piece = @ + 1] /\ work' = [work EXCEPT ![x] = h]
                 \/ /\ <<work[x].item, work[x].piece + 1>> \notin FilesOf(pool[r].kind)
                    /\ h = [work[x] EXCEPT !.at = "take"] /\ work' = [work EXCEPT ![x] = h]
    BY <1>1, <1>7, TypeIs
  <2>2. /\ h.item = work[x].item /\ work' = [work EXCEPT ![x] = h]
        /\ \/ h.at = "piece" /\ h.piece = work[x].piece + 1
           \/ /\ h.at = "take"
              /\ <<work[x].item, work[x].piece + 1>> \notin FilesOf(pool[r].kind)
    BY <1>1, <2>1 DEF Hand
  <2>3. work'[x] = h
    BY <1>1, <2>2, TypeIs
  <2>4. work[x].item \in 1..Size /\ work[x].piece \in Nat
    BY <1>1, <1>2, SizeIs DEF Hand
  <2>5. Held(x)'
    BY <1>2, <2>2, <2>3, <2>4 DEF Held
  <2>6. Bad(r) => Bad(r)'
    <3>1. pool'[r].buf = pool[r].buf
      BY <1>7
    <3>2. ~Told(work[x].sends)
      <4>1. Len(<<>>) = 0
        OBVIOUS
      <4> QED
        BY <1>4, <1>7, <4>1 DEF Told
    <3> QED
      BY <2>2, <3>1, <3>2, OthersBad
  <2>7. ASSUME NEW g \in FilesOf(pool[r].kind), Due(r, g) PROVE Due(r, g)'
    <3>1. CASE g[1] >= pool[r].next
      BY <1>7, <3>1 DEF Due
    <3>2. CASE \E w \in Worker : InHand(<<r, w>>, g)
      <4>1. PICK w \in Worker : InHand(<<r, w>>, g)
        BY <3>2
      <4>2. ASSUME w = v PROVE h.item = g[1] /\ h.at = "piece" /\ h.piece <= g[2]
        <5>1. work[x].item = g[1] /\ work[x].piece < g[2]
          BY <1>1, <4>1, <4>2 DEF InHand
        <5>2. g[2] \in Nat
          BY SizeIs DEF FilesOf
        <5>3. work[x].piece + 1 <= g[2]
          BY <2>4, <5>1, <5>2
        <5>4. <<work[x].item, work[x].piece + 1>> \in FilesOf(pool[r].kind)
          <6>1. PICK n \in {Pieces, 1} : FilesOf(pool[r].kind) = (1..Size) \X (1..n)
            BY DEF FilesOf
          <6>2. g[2] <= n /\ n \in Nat
            BY <6>1, SizeIs
          <6>3. work[x].piece + 1 \in 1..n
            BY <2>4, <5>2, <5>3, <6>2
          <6> QED
            BY <2>4, <6>1, <6>3
        <5> QED
          BY <2>2, <5>1, <5>3, <5>4
      <4> QED
        BY <2>2, <4>1, <4>2, OthersDue
    <3> QED
      BY <2>7, <3>1, <3>2 DEF Due
  <2>8. Account(r)'
    BY <1>1, <1>3, <1>7, <2>6, <2>7 DEF Fine, Account
  <2>9. h.at # "off"
    BY <2>2
  <2> QED
    BY <1>1, <1>3, <1>7, <2>2, <2>5, <2>8, <2>9, WorkerFine
<1> QED
  BY <1>1, <1>4, <1>5, <1>6, <1>7 DEF Send

(***************************************************************************)
(* The theorems.                                                           *)
(***************************************************************************)

LEMMA InitFine == Init => IInv
<1> SUFFICES ASSUME Init PROVE IInv
  OBVIOUS
<1>1. TypeOK
  BY InitTyped
<1>2. ASSUME NEW r \in Request PROVE Fine(r)
  <2>1. req[r] = [at |-> "idle", temp |-> FALSE, todo |-> <<>>, did |-> {}, ok |-> TRUE]
    BY DEF Init
  <2>2. \A w \in Worker : work[<<r, w>>].at = "off"
    BY DEF Init
  <2>3. Phase(r) /\ Kept(r) /\ Account(r) /\ Gone(r)
    BY <2>1, <2>2 DEF Phase, Kept, Account, Gone, Off
  <2>4. Order(r)
    <3>1. Len(<<>>) = 0
      OBVIOUS
    <3> QED
      BY <2>1, <3>1 DEF Order, NoDups
  <2>5. \A w \in Worker : Held(<<r, w>>)
    BY <2>2 DEF Held
  <2> QED
    BY <2>3, <2>4, <2>5 DEF Fine
<1> QED
  BY <1>1, <1>2 DEF IInv

LEMMA NextFine == IInv /\ [Next]_vars => IInv'
<1> SUFFICES ASSUME IInv, [Next]_vars PROVE IInv'
  OBVIOUS
<1>1. TypeOK /\ \A r \in Request : Fine(r)
  BY DEF IInv
<1>2. TypeOK'
  BY <1>1, TypeStep DEF Fine, Phase
<1>3. ASSUME NEW s \in Request PROVE Fine(s)'
  <2>1. Fine(s)
    BY <1>1
  <2>2. ASSUME NEW r \in Request, Handle(r) \/ Proceed(r) PROVE Fine(s)'
    <3>1. CASE s # r
      BY <1>1, <2>1, <2>2, <3>1, OtherRequests, Framed
    <3>2. CASE s = r
      <4>1. CASE Handle(s)
        BY <1>1, <2>1, <4>1, HandleFine
      <4>2. CASE Proceed(s)
        BY <1>1, <2>1, <4>2, StartPoolFine, StartFailsFine, CollectFine, CloseResultsFine,
           RemoveTempFine, GeneratedFine, RunTaskOnceFine, RemoveAllFine DEF Proceed
      <4> QED
        BY <2>2, <3>2, <4>1, <4>2
    <3> QED
      BY <3>1, <3>2
  <2>3. ASSUME NEW r \in Request, NEW v \in Worker, Turn(<<r, v>>) PROVE Fine(s)'
    <3>1. CASE s # r
      BY <1>1, <2>1, <2>3, <3>1, OtherWorkers, Framed
    <3>2. CASE s = r
      <4>1. PICK x : x = <<s, v>>
        OBVIOUS
      <4>2. Turn(x)
        BY <2>3, <3>2, <4>1
      <4> QED
        BY <1>1, <2>1, <4>1, <4>2, TakeFine, SendFine, CreateFileFine, FillFileFine DEF Turn
    <3> QED
      BY <3>1, <3>2
  <2>4. CASE Next
    <3>1. CASE \E r \in Request : Handle(r) \/ Proceed(r)
      BY <2>2, <3>1
    <3>2. CASE \E x \in Request \X Worker : Turn(x)
      <4>1. PICK x \in Request \X Worker : Turn(x)
        BY <3>2
      <4>2. PICK r \in Request, v \in Worker : x = <<r, v>>
        OBVIOUS
      <4> QED
        BY <2>3, <4>1, <4>2
    <3> QED
      BY <1>1, <2>4, <3>1, <3>2, NextIs
  <2>5. CASE UNCHANGED vars
    BY <2>1, <2>5, Framed DEF vars, Same, SameFiles
  <2> QED
    BY <2>4, <2>5
<1> QED
  BY <1>2, <1>3 DEF IInv

\* The inductive invariant: every request is where its files and workers say.
THEOREM Invariant == Spec => []IInv
BY InitFine, NextFine, PTL DEF Spec

\* Every variable has its type: the result channel never holds more than it has room for.
THEOREM TypeInvariant == Spec => []TypeOK
<1>1. IInv => TypeOK
  BY DEF IInv
<1> QED
  BY <1>1, Invariant, PTL

\* A generation that is answered as a success, or whose files are uploaded, has
\* written every file of every format to its end, whatever the workers and the
\* file system did; a ZIP is left out, as its last write is not checked.
THEOREM GeneratedIsWholeInvariant == Spec => []GeneratedIsWhole
<1>1. IInv => GeneratedIsWhole
  <2> SUFFICES ASSUME IInv, NEW r \in Request, Succeeded(r), req[r].at = "import" \/ ~req[r].temp,
                      NEW k \in req[r].did \ (Temporary \cup {"zip"})
               PROVE  Whole(r, k)
    BY DEF GeneratedIsWhole
  <2>1. req[r] \in Req /\ Kept(r)
    BY TypeIs DEF IInv, Fine
  <2>2. k \in req[r].did \cap Lasting
    BY <2>1 DEF Req, Lasting
  <2>3. \A g \in FilesOf(k) : IsWhole(r, k, g)
    BY <2>1, <2>2 DEF Kept, Succeeded
  <2> QED
    BY <2>3 DEF Whole, IsWhole
<1> QED
  BY <1>1, Invariant, PTL

\* A request that succeeded has left no worker behind, and no file of its temporary
\* directory but in a directory that the file system refused to remove.
THEOREM SuccessLeavesNothingInvariant == Spec => []SuccessLeavesNothing
<1>1. IInv => SuccessLeavesNothing
  <2> SUFFICES ASSUME IInv PROVE QuietAfterSuccess /\ TempGone
    BY DEF SuccessLeavesNothing
  <2>1. ASSUME NEW r \in Request PROVE Phase(r) /\ Gone(r)
    BY DEF IInv, Fine
  <2>2. QuietAfterSuccess
    <3>1. SUFFICES ASSUME NEW x \in Request \X Worker, Succeeded(x[1]) PROVE work[x].at = "off"
      BY DEF QuietAfterSuccess
    <3>2. PICK r \in Request, w \in Worker : x = <<r, w>>
      OBVIOUS
    <3>3. req[r].ok /\ req[r].at # "pool"
      BY <3>1, <3>2 DEF Succeeded, Over
    <3> QED
      BY <2>1, <3>2, <3>3 DEF Phase, Off
  <2>3. TempGone
    BY <2>1 DEF TempGone, Gone
  <2> QED
    BY <2>2, <2>3
<1> QED
  BY <1>1, Invariant, PTL

===============================================================================
