------------------------------- MODULE DummyData -------------------------------
(***************************************************************************)
(* Generation of dummy data.  A request generates one format after another *)
(* into a directory; every format is a pool of workers that take numbers   *)
(* from one channel, write files, and report into a second one.  The       *)
(* caller returns at the first error and leaves the workers to themselves. *)
(* With a temporary directory the files are then uploaded and removed.     *)
(***************************************************************************)
EXTENDS Naturals, FiniteSets, Sequences

CONSTANTS
    Request,     \* requests to generate
    Worker,      \* the workers of a pool
    Size,        \* how many numbers are put into countNum
    Pieces,      \* files of one number in csv, json and xml: books, cars, ...
    Kinds,       \* the formats that requests ask for
    MaxKinds     \* bound: formats of one request

ASSUME SizeAssumption == Size \in Nat \ {0} /\ Pieces \in Nat \ {0}
ASSUME KindsAssumption ==
    Kinds \subseteq {"sql", "csv", "txt", "png", "gif", "zip", "json", "xml"}

VARIABLES
    req,         \* the requests
    pool,        \* countNum and resultChan of the pool of a request
    work,        \* the workers of that pool
    dirs,        \* directories of files that exist: owner and format
    files,       \* files, by directory, number and piece: torn or whole
    dead,        \* the process has died of a panic
    left         \* history: directories that the file system refused to remove

vars == <<req, pool, work, dirs, files, dead, left>>

Formats == Kinds \cup {"tmpImg", "tmpTxt"}
TypeOK ==
    /\ req \in [Request -> [at : {"idle", "next", "pool", "sweep", "import", "clean", "rmdir", "answered"},
                            temp : BOOLEAN, todo : Seq(Formats), did : SUBSET Formats, ok : BOOLEAN]]
    /\ pool \in [Request -> [kind : Formats \cup {"none"}, next : 1..Size + 1,
                             buf : Seq(BOOLEAN), open : BOOLEAN]]
    /\ \A r \in Request : Len(pool[r].buf) <= Size
    /\ work \in [Request \X Worker -> [at : {"off", "take", "piece", "fill", "send"},
                                       item : 0..Size, piece : 0..Pieces,
                                       sends : Seq(BOOLEAN), dies : BOOLEAN]]
    /\ dirs \subseteq Request \X Formats /\ left \subseteq Request \X Formats
    /\ \A f \in DOMAIN files : f[1] \in dirs /\ files[f] \in {"torn", "whole"}
    /\ dead \in BOOLEAN

Init ==
    /\ req = [r \in Request |-> [at |-> "idle", temp |-> FALSE, todo |-> <<>>, did |-> {}, ok |-> TRUE]]
    /\ pool = [r \in Request |-> [kind |-> "none", next |-> 1, buf |-> <<>>, open |-> FALSE]]
    /\ work = [x \in Request \X Worker |->
                 [at |-> "off", item |-> 0, piece |-> 0, sends |-> <<>>, dies |-> FALSE]]
    /\ dirs = {} /\ files = <<>> /\ dead = FALSE /\ left = {}

---------------------------------------------------------------------------
(* Requests.                                                               *)

\* genData takes the formats in this order; a GIF is made of images and a ZIP
\* of texts, which are generated first.
GenOrder(K) ==
    LET Has(k, s) == IF k \in K THEN s ELSE <<>> IN
    Has("sql", <<"sql">>) \o Has("csv", <<"csv">>) \o Has("txt", <<"txt">>) \o Has("png", <<"png">>)
    \o Has("gif", <<"tmpImg", "gif">>) \o Has("zip", <<"tmpTxt", "zip">>)
    \o Has("json", <<"json">>) \o Has("xml", <<"xml">>)

Chosen == {K \in SUBSET Kinds : Cardinality(K) \in 1..MaxKinds}
Server(k) == IF k \in Kinds THEN <<k>> ELSE <<>>

Begin(r, temp, todo) ==
    /\ ~dead /\ req[r].at = "idle"
    /\ req' = [req EXCEPT ![r].at = "next", ![r].temp = temp, ![r].todo = todo]
    /\ UNCHANGED <<pool, work, dirs, files, dead, left>>

GenerateObjectStoragePostHandler(r) == \E K \in Chosen : Begin(r, TRUE, GenOrder(K))
GenerateRDBMSPostHandler(r)  == Server("sql") # <<>> /\ Begin(r, TRUE, Server("sql"))
GenerateNRDBMSPostHandler(r) == Server("json") # <<>> /\ Begin(r, TRUE, Server("json"))

\* A request for the other operating system, or without a format, or whose
\* temporary directory cannot be made.
Refuse(r) ==
    /\ ~dead /\ req[r].at = "idle"
    /\ req' = [req EXCEPT ![r].at = "answered", ![r].ok = FALSE]
    /\ UNCHANGED <<pool, work, dirs, files, dead, left>>

\* The files are made in the user's own directory, and stay there.
GenerateLinuxPostHandler(r)   == Refuse(r) \/ \E K \in Chosen : Begin(r, FALSE, GenOrder(K))
GenerateWindowsPostHandler(r) == Refuse(r) \/ \E K \in Chosen : Begin(r, FALSE, GenOrder(K))
createDummyTemp(r)            == Refuse(r)

\* What follows when a format is done or has failed: temporary images and texts are swept.
Temporary == {"tmpImg", "tmpTxt"}
UsesTemp(k) == IF k \in {"gif", "tmpImg"} THEN "tmpImg" ELSE IF k \in {"zip", "tmpTxt"} THEN "tmpTxt" ELSE "none"

Done(r) ==
    LET k == pool[r].kind IN
    req' = [req EXCEPT ![r].at = IF k \in {"gif", "zip"} THEN "sweep" ELSE "next", ![r].did = @ \cup {k}]

Failed(r) ==
    req' = [req EXCEPT ![r].ok = FALSE,
                       ![r].at = IF UsesTemp(pool[r].kind) # "none" THEN "sweep" ELSE "clean"]

\* IsDir makes the directory of the format; the channel of numbers is filled
\* and closed.  JSON and XML have a worker for every gigabyte, the others ten.
StartPool(r, k) ==
    /\ req[r].at = "next" /\ req[r].todo # <<>> /\ Head(req[r].todo) = k /\ ~dead
    /\ pool' = [pool EXCEPT ![r] = [kind |-> k, next |-> 1, buf |-> <<>>, open |-> TRUE]]
    /\ dirs' = dirs \cup {<<r, k>>}
    /\ req' = [req EXCEPT ![r].at = "pool", ![r].todo = Tail(@)]
    /\ \E W \in SUBSET Worker :
          /\ W # {} /\ (k \notin {"json", "xml"} => W = Worker)
          /\ work' = [x \in Request \X Worker |-> IF x[1] = r /\ x[2] \in W
                                                  THEN [work[x] EXCEPT !.at = "take"] ELSE work[x]]
    /\ UNCHANGED <<files, dead, left>>

FilesOf(k) == (1..Size) \X (1..(IF k \in {"csv", "json", "xml"} THEN Pieces ELSE 1))
Whole(r, k) == \A g \in FilesOf(k) : LET f == <<<<r, k>>, g[1], g[2]>> IN
                                      f \in DOMAIN files /\ files[f] = "whole"

GenerateRandomSQL(r)      == StartPool(r, "sql")
GenerateRandomCSV(r)      == StartPool(r, "csv")
GenerateRandomTXT(r)      == StartPool(r, "txt") \/ StartPool(r, "tmpTxt")
GenerateRandomPNGImage(r) == StartPool(r, "png") \/ StartPool(r, "tmpImg")
\* Every image is read and decoded first.
GenerateRandomGIF(r)      == Whole(r, "tmpImg") /\ StartPool(r, "gif")
GenerateRandomZIP(r)      == StartPool(r, "zip")
GenerateRandomJSON(r)     == StartPool(r, "json")
GenerateRandomXML(r)      == StartPool(r, "xml")

\* A directory that cannot be made, an image that cannot be decoded, a size below zero.
StartFails(r) ==
    /\ ~dead /\ req[r].at = "next" /\ req[r].todo # <<>>
    /\ req' = [req EXCEPT ![r].ok = FALSE, ![r].todo = Tail(@),
                          ![r].at = IF UsesTemp(Head(req[r].todo)) # "none" THEN "sweep" ELSE "clean"]
    /\ pool' = [pool EXCEPT ![r].kind = Head(req[r].todo)]
    /\ UNCHANGED <<work, dirs, files, dead, left>>

\* Mutant: the caller waits for the workers before it reads.
Collect_AfterWait(r) ==
    /\ ~dead /\ req[r].at = "pool" /\ ~pool[r].open
    /\ \/ /\ pool[r].buf # <<>>
          /\ pool' = [pool EXCEPT ![r].buf = Tail(@)]
          /\ IF Head(pool[r].buf) THEN UNCHANGED req ELSE Failed(r)
       \/ /\ pool[r].buf = <<>>
          /\ Done(r) /\ UNCHANGED pool
    /\ UNCHANGED <<work, dirs, files, dead, left>>

\* The results are read until the first error or the end.
Collect(r) ==
    /\ ~dead /\ req[r].at = "pool"
    /\ \/ /\ pool[r].buf # <<>>
          /\ pool' = [pool EXCEPT ![r].buf = Tail(@)]
          /\ IF Head(pool[r].buf) THEN UNCHANGED req ELSE Failed(r)
       \/ /\ pool[r].buf = <<>> /\ ~pool[r].open
          /\ Done(r) /\ UNCHANGED pool
    /\ UNCHANGED <<work, dirs, files, dead, left>>

\* Mutant: the first worker that ends closes the channel.
CloseResults_First(r) ==
    /\ ~dead /\ pool[r].open /\ \E w \in Worker : work[<<r, w>>].at = "off"
    /\ pool' = [pool EXCEPT ![r].open = FALSE]
    /\ UNCHANGED <<req, work, dirs, files, dead, left>>

\* The goroutine that waits for the workers and closes resultChan.
CloseResults(r) ==
    /\ ~dead /\ pool[r].open /\ \A w \in Worker : work[<<r, w>>].at = "off"
    /\ pool' = [pool EXCEPT ![r].open = FALSE]
    /\ UNCHANGED <<req, work, dirs, files, dead, left>>

---------------------------------------------------------------------------
(* Workers.                                                                *)

Panics(k) == k \in {"png", "tmpImg", "txt", "tmpTxt", "zip"}
Dir(x)  == <<x[1], pool[x[1]].kind>>
File(x) == <<Dir(x), work[x].item, work[x].piece>>

\* A worker takes the next number, or ends.
Take(x) ==
    LET r == x[1] IN
    /\ ~dead /\ work[x].at = "take"
    /\ IF pool[r].next > Size
       THEN work' = [work EXCEPT ![x].at = "off"] /\ UNCHANGED pool
       ELSE /\ pool' = [pool EXCEPT ![r].next = @ + 1]
            /\ work' = [work EXCEPT ![x].at = "piece", ![x].item = pool[r].next, ![x].piece = 1]
    /\ UNCHANGED <<req, dirs, files, dead, left>>

Report(x, results, dies) ==
    work' = [work EXCEPT ![x].at = "send", ![x].sends = results, ![x].dies = dies]

\* What a worker sends for a file that it could not open: some workers go on
\* with the nil file, send more errors (one here; the text worker sends one for each
\* line it cannot write), and panic when they log the file's name.
Errors(k) == IF Panics(k) \/ k = "gif" THEN <<FALSE, FALSE>> ELSE <<FALSE>>

CreateFile(x) ==
    LET k == pool[x[1]].kind IN
    /\ ~dead /\ work[x].at = "piece"
    /\ \/ /\ Dir(x) \in dirs
          /\ files' = [f \in DOMAIN files \cup {File(x)} |-> IF f = File(x) THEN "torn" ELSE files[f]]
          /\ work' = [work EXCEPT ![x].at = "fill"]
       \/ Report(x, Errors(k), Panics(k)) /\ UNCHANGED files
    /\ UNCHANGED <<req, pool, dirs, dead, left>>

\* Mutant: a failed write is no error.
Results_Lost(k, ok) ==
    CASE k \in {"png", "tmpImg"} -> <<>> [] OTHER -> <<TRUE>>

\* The results of a file that was opened: png sends none for a success, txt and
\* zip send a success after an error, too.
Results(k, ok) ==
    CASE k \in {"png", "tmpImg"}        -> IF ok THEN <<>> ELSE <<FALSE>>
      [] k \in {"txt", "tmpTxt", "zip"} -> IF ok THEN <<TRUE>> ELSE <<FALSE, TRUE>>
      [] OTHER                          -> <<ok>>

\* The file is written and closed.  A file that was removed meanwhile stays away.
\* A ZIP holds what it finds of the texts; that its end could not be written is no error.
FillFile(x) ==
    LET k == pool[x[1]].kind IN
    /\ ~dead /\ work[x].at = "fill"
    /\ \E ok, ended \in BOOLEAN :
          /\ ended \/ k = "zip"
          /\ Report(x, Results(k, ok), FALSE)
          /\ files' = IF ok /\ ended /\ File(x) \in DOMAIN files /\ (k = "zip" => Whole(x[1], "tmpTxt"))
                      THEN [files EXCEPT ![File(x)] = "whole"] ELSE files
    /\ UNCHANGED <<req, pool, dirs, dead, left>>

\* Results are sent one after another; a full channel blocks, for ever when its
\* reader has gone.
Send(x) ==
    LET r == x[1] IN
    /\ ~dead /\ work[x].at = "send"
    /\ \/ /\ work[x].sends # <<>> /\ Len(pool[r].buf) < Size
          /\ pool' = [pool EXCEPT ![r].buf = Append(@, Head(work[x].sends))]
          /\ work' = [work EXCEPT ![x].sends = Tail(@)]
          /\ UNCHANGED dead
       \/ /\ work[x].sends = <<>>
          /\ dead' = work[x].dies
          /\ work' = IF <<work[x].item, work[x].piece + 1>> \in FilesOf(pool[r].kind)
                    THEN [work EXCEPT ![x].at = "piece", ![x].piece = @ + 1]
                    ELSE [work EXCEPT ![x].at = "take"]
          /\ UNCHANGED pool
    /\ UNCHANGED <<req, dirs, files, left>>

---------------------------------------------------------------------------
(* After the generation.                                                   *)

\* RemoveAll removes the files it finds, then the directories, which fails
\* when a file has come meanwhile.
Unlink(D)  == files' = [f \in {g \in DOMAIN files : g[1] \notin D} |-> files[f]]
Holds(d)   == \E f \in DOMAIN files : f[1] = d
Rmdir(D)   == \/ dirs' = dirs \ {d \in D : ~Holds(d)} /\ UNCHANGED left
              \/ D \cap dirs # {} /\ left' = left \cup (D \cap dirs) /\ UNCHANGED dirs

\* The deferred RemoveAll of GenerateRandomGIF and GenerateRandomZIP.
RemoveTemp(r) ==
    LET D == {<<r, UsesTemp(pool[r].kind)>>} IN
    /\ ~dead /\ req[r].at = "sweep"
    /\ \/ Unlink(D) /\ (\E f \in DOMAIN files : f[1] \in D) /\ UNCHANGED <<req, dirs, left>>
       \/ /\ Rmdir(D) /\ UNCHANGED files
          /\ req' = [req EXCEPT ![r].at = IF req[r].ok THEN "next" ELSE "clean"]
    /\ UNCHANGED <<pool, work, dead>>

\* genData is over.
Generated(r) ==
    /\ ~dead /\ req[r].at = "next" /\ req[r].todo = <<>>
    /\ req' = [req EXCEPT ![r].at = IF req[r].temp THEN "import" ELSE "answered"]
    /\ UNCHANGED <<pool, work, dirs, files, dead, left>>

\* The task that uploads what is in the temporary directory.
RunTaskOnce(r) ==
    /\ ~dead /\ req[r].at = "import"
    /\ \E ok \in BOOLEAN : req' = [req EXCEPT ![r].at = "clean", ![r].ok = ok]
    /\ UNCHANGED <<pool, work, dirs, files, dead, left>>

Own(r) == {r} \X Formats

\* The deferred RemoveAll of the handler; nothing is removed of the user's directory.
RemoveAll(r) ==
    /\ ~dead
    /\ \/ /\ req[r].at = "clean" /\ ~req[r].temp
          /\ req' = [req EXCEPT ![r].at = "answered"] /\ UNCHANGED <<files, dirs, left>>
       \/ /\ req[r].at = "clean" /\ req[r].temp
          /\ Unlink(Own(r)) /\ UNCHANGED <<dirs, left>>
          /\ req' = [req EXCEPT ![r].at = "rmdir"]
       \/ /\ req[r].at = "rmdir"
          /\ Rmdir(Own(r)) /\ UNCHANGED files
          /\ req' = [req EXCEPT ![r].at = "answered"]
    /\ UNCHANGED <<pool, work, dead>>

---------------------------------------------------------------------------
genData(r) ==
    \/ GenerateRandomSQL(r) \/ GenerateRandomCSV(r) \/ GenerateRandomTXT(r) \/ GenerateRandomPNGImage(r)
    \/ GenerateRandomGIF(r) \/ GenerateRandomZIP(r) \/ GenerateRandomJSON(r) \/ GenerateRandomXML(r)
    \/ StartFails(r) \/ Collect(r) \/ CloseResults(r) \/ RemoveTemp(r) \/ Generated(r)

Format(x) == pool[x[1]].kind
Turn(x)   == Take(x) \/ Send(x) \/ CreateFile(x) \/ FillFile(x)

generateCSV(x)  == Format(x) = "csv" /\ (CreateFile(x) \/ FillFile(x))
generateJSON(x) == Format(x) = "json" /\ (CreateFile(x) \/ FillFile(x))
generateXML(x)  == Format(x) = "xml" /\ (CreateFile(x) \/ FillFile(x))
randomCSVWorker(x)   == generateCSV(x) \/ (Format(x) = "csv" /\ (Take(x) \/ Send(x)))
randomJsonWorker(x)  == generateJSON(x) \/ (Format(x) = "json" /\ (Take(x) \/ Send(x)))
randomXMLWorker(x)   == generateXML(x) \/ (Format(x) = "xml" /\ (Take(x) \/ Send(x)))
randomSQLWorker(x)   == Format(x) = "sql" /\ Turn(x)
randomTxtWorker(x)   == Format(x) \in {"txt", "tmpTxt"} /\ Turn(x)
randomImageWorker(x) == Format(x) \in {"png", "tmpImg"} /\ Turn(x)
randomGIFWorker(x)   == Format(x) = "gif" /\ Turn(x)
randomZIPWorker(x)   == Format(x) = "zip" /\ Turn(x)

Step(x) ==
    \/ randomCSVWorker(x) \/ randomJsonWorker(x) \/ randomXMLWorker(x) \/ randomSQLWorker(x)
    \/ randomTxtWorker(x) \/ randomImageWorker(x) \/ randomGIFWorker(x) \/ randomZIPWorker(x)

Next ==
    \/ \E r \in Request :
          \/ GenerateObjectStoragePostHandler(r) \/ GenerateRDBMSPostHandler(r)
          \/ GenerateNRDBMSPostHandler(r) \/ GenerateLinuxPostHandler(r)
          \/ GenerateWindowsPostHandler(r) \/ createDummyTemp(r)
          \/ genData(r) \/ RunTaskOnce(r) \/ RemoveAll(r)
    \/ \E x \in Request \X Worker : Step(x)

\* Goroutines run; calls of the file system and of the uploading task return.
Fairness ==
    /\ \A r \in Request : WF_vars(genData(r) \/ RunTaskOnce(r) \/ RemoveAll(r)) /\ WF_vars(CloseResults(r))
    /\ \A x \in Request \X Worker : WF_vars(Step(x))

Spec == Init /\ [][Next]_vars
FairSpec == Spec /\ Fairness

---------------------------------------------------------------------------
(* Properties.                                                             *)

Over(r)      == req[r].at \in {"import", "clean", "rmdir", "answered"}
Succeeded(r) == req[r].ok /\ Over(r)

\* What is uploaded, or answered as generated, is complete: every file of every
\* format is there and whole, but for a ZIP, whose last write is not checked.
GeneratedIsWhole ==
    \A r \in Request :
        Succeeded(r) /\ (req[r].at = "import" \/ ~req[r].temp) =>
            \A k \in req[r].did \ (Temporary \cup {"zip"}) : Whole(r, k)

\* A request that succeeded leaves nothing behind: no worker that writes, is about
\* to write or is blocked, though workers may after an error, and, now and later,
\* no file of its temporary directory unless the file system refused to remove it.
QuietAfterSuccess ==
    \A x \in Request \X Worker : Succeeded(x[1]) => work[x].at = "off"
TempGone ==
    \A r \in Request : req[r].at = "answered" /\ req[r].ok /\ req[r].temp => Own(r) \cap dirs \subseteq left
SuccessLeavesNothing == QuietAfterSuccess /\ TempGone

\* A generation returns: with an error, with a success, or the process dies.
GenerationReturns ==
    \A r \in Request : req[r].at = "pool" ~> (req[r].at # "pool" \/ dead)

===============================================================================
