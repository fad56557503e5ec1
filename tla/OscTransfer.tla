----------------------------- MODULE OscTransfer -----------------------------
(***************************************************************************)
(* The object transfers of service/osc: Copy (bucket to bucket), MGet      *)
(* (bucket to directory: backup) and MPut (directory to bucket: restore,   *)
(* generate).  Each lists what to transfer, gives the list to a pool of    *)
(* workers through the channel jobs, and collects one result per object    *)
(* from resultChan, which is closed when the WaitGroup of the workers is   *)
(* done.                                                                   *)
(***************************************************************************)
EXTENDS Naturals

CONSTANTS
  Object,   \* object keys, at the source or the destination
  Fold,     \* the key of each object without regard to case
  Worker,   \* worker goroutines (threads)
  NoObject, \* a worker without an object
  Modes,    \* the transfers that occur
  Faults,   \* whether storage operations may fail
  MaxRuns   \* bound: runs of the transfer (a scheduled task runs it again)

\* New starts ten workers; an option may set another number.
ASSUME Assumptions ==
  /\ Worker # {}
  /\ NoObject \notin Object /\ DOMAIN Fold = Object
  /\ Modes \subseteq {"Copy", "MGet", "MPut"}
  /\ Faults \in BOOLEAN /\ MaxRuns \in Nat

VARIABLES
  mode,     \* the transfer
  dst,      \* the destination of each object, see Contents
  main,     \* what the caller's goroutine does next
  wanted,   \* what the filter selects at the source
  passed,   \* what the second test of the path leaves of it
  listed,   \* the objects to transfer (copyList, downloadList, objList)
  unsent,   \* those not sent to jobs yet
  jobs,     \* the channel jobs (its order is the order of the listing)
  closed,   \* close(jobs) was called
  pc,       \* what each worker does next
  cur,      \* the object of each worker
  unclosed, \* objects whose writer a worker of MPut closes when it returns
  results,  \* the channel resultChan
  drained,  \* close(resultChan) was called
  told,     \* results collected by the caller: objects that succeeded
  failed,   \* results collected by the caller: objects that failed
  result,   \* what the transfer returned
  runs      \* runs begun

pool == <<unsent, jobs, closed, pc, cur, unclosed, results, drained, told, failed>>
transferVars == <<mode, dst, main, wanted, passed, listed, pool, result, runs>>

\* Nothing, an object of another size, one of the same size, what a broken
\* transfer wrote (another size), or the source object as it was listed.
Contents == {"absent", "other", "same", "part", "whole"}

TransferInit ==
  /\ mode \in Modes /\ dst \in [Object -> {"absent", "other", "same"}]
  /\ main = "idle" /\ wanted = {} /\ passed = {} /\ listed = {} /\ result = "none" /\ runs = 0
  /\ unsent = {} /\ jobs = {} /\ closed = FALSE /\ results = {} /\ drained = FALSE
  /\ told = {} /\ failed = {} /\ unclosed = [w \in Worker |-> {}]
  /\ pc = [w \in Worker |-> "exited"] /\ cur = [w \in Worker |-> NoObject]

-----------------------------------------------------------------------------
(* The caller.                                                              *)

BeginTransfer ==
  /\ main \in {"idle", "done"} /\ runs < MaxRuns
  /\ runs' = runs + 1 /\ main' = "prepare" /\ result' = "none"
  /\ wanted' = {} /\ passed' = {} /\ listed' = {}
  /\ UNCHANGED <<mode, dst, pool>>

\* CreateBucket, a listing, or making the directory fails.
PrepareFails ==
  /\ main = "prepare" /\ Faults
  /\ main' = "done" /\ result' = "error"
  /\ UNCHANGED <<mode, dst, wanted, passed, listed, pool, runs>>

\* Copy and MGet read flt.PathExcludeYn, also when there is no filter; the
\* panic ends the transfer and is recovered by the execution tracker.
PrepareWithoutFilter ==
  /\ main = "prepare" /\ mode \in {"Copy", "MGet"}
  /\ main' = "done" /\ result' = "panic"
  /\ UNCHANGED <<mode, dst, wanted, passed, listed, pool, runs>>

\* getDownloadList compares an object with the first one listed at the destination
\* whose key is the same but for case (strings.EqualFold).
Matches(o) == {v \in Object : Fold[v] = Fold[o] /\ dst[v] # "absent"}

\* Sizes of an object and its own copy follow from Contents; nothing is known of
\* the sizes of two different objects.
SameSize(o, v) == v # o \/ dst[v] \in {"same", "whole"}
OtherSize(o, v) == v # o \/ dst[v] \notin {"same", "whole"}

\* Copy may transfer o: nothing at the destination matches, or the first match has
\* another size.
ToTransfer(o) == Matches(o) = {} \/ \E v \in Matches(o) : OtherSize(o, v)

\* Mutant: an object that is there is not transferred again.
ToSkip_Present(o) == Matches(o) # {}

\* Copy may skip o: the first match has the same size.
ToSkip(o) == \E v \in Matches(o) : SameSize(o, v)

\* The lists that getDownloadList may return.  Copy lists every directory marker;
\* MGet compares paths of files with keys of objects, which differ.
DownloadLists(selected, markers) ==
  IF mode = "MGet" THEN {selected}
  ELSE {list \in SUBSET selected :
          /\ markers \subseteq list
          /\ \A o \in selected \ markers : IF o \in list THEN ToTransfer(o) ELSE ToSkip(o)}

\* The filter has selected by a path without regard to case, anywhere in the key;
\* getDownloadList tests the path once more, as a prefix and with its case, and
\* drops what fails, directory markers excepted.  MPut takes every file.
ToList(selected, markers, left, list) ==
  IF mode = "MPut" THEN left = selected /\ list = selected
  ELSE markers \subseteq left /\ left \subseteq selected /\ list \in DownloadLists(left, markers)

PrepareList ==
  /\ main = "prepare" /\ main' = "send"
  /\ \E selected \in SUBSET Object : \E left, list \in SUBSET selected, markers \in SUBSET selected :
       /\ ToList(selected, markers, left, list)
       /\ wanted' = selected /\ passed' = left /\ listed' = list
  /\ unsent' = listed' /\ jobs' = {} /\ closed' = FALSE
  /\ pc' = [w \in Worker |-> "take"]
  /\ results' = {} /\ drained' = FALSE /\ told' = {} /\ failed' = {}
  /\ UNCHANGED <<mode, dst, cur, unclosed, result, runs>>

\* jobs <- *obj: the channel has room for the whole list.
Send ==
  /\ main = "send"
  /\ \E o \in unsent : unsent' = unsent \ {o} /\ jobs' = jobs \cup {o}
  /\ UNCHANGED <<mode, dst, main, wanted, passed, listed, closed, pc, cur, unclosed, results,
                 drained, told, failed, result, runs>>

\* Mutant: close(jobs) is forgotten.
CloseJobs_Open ==
  /\ main = "send" /\ unsent = {}
  /\ main' = "collect"
  /\ UNCHANGED <<mode, dst, wanted, passed, listed, unsent, jobs, closed, pc, cur, unclosed,
                 results, drained, told, failed, result, runs>>

CloseJobs ==
  /\ main = "send" /\ unsent = {}
  /\ closed' = TRUE /\ main' = "collect"
  /\ UNCHANGED <<mode, dst, wanted, passed, listed, unsent, jobs, pc, cur, unclosed, results,
                 drained, told, failed, result, runs>>

\* for ret := range resultChan
Collect ==
  /\ main = "collect"
  /\ \E r \in results :
       /\ results' = results \ {r}
       /\ told' = IF r.ok THEN told \cup {r.obj} ELSE told
       /\ failed' = IF r.ok THEN failed ELSE failed \cup {r.obj}
  /\ UNCHANGED <<mode, dst, main, wanted, passed, listed, unsent, jobs, closed, pc, cur, unclosed,
                 drained, result, runs>>

\* Copy and MPut report failures; MGet logs them and returns nil.
ResultOf == IF mode # "MGet" /\ failed # {} THEN "error" ELSE "ok"

Return ==
  /\ main = "collect" /\ drained /\ results = {}
  /\ main' = "done" /\ result' = ResultOf
  /\ UNCHANGED <<mode, dst, wanted, passed, listed, pool, runs>>

\* Mutant: the channel is closed when the first worker is done.
AllDone_Any == \E w \in Worker : pc[w] = "exited"

\* wg.Wait()
AllDone == \A w \in Worker : pc[w] = "exited"

\* The closer goroutine: wg.Wait(), then close(resultChan).
CloseResults ==
  /\ main = "collect" /\ ~drained /\ AllDone
  /\ drained' = TRUE
  /\ UNCHANGED <<mode, dst, main, wanted, passed, listed, unsent, jobs, closed, pc, cur, unclosed,
                 results, told, failed, result, runs>>

-----------------------------------------------------------------------------
(* A worker (copyWorker, mGetWorker, mPutWorker).                           *)

WorkerGoes(w, next) == pc' = [pc EXCEPT ![w] = next]

\* Mutant: a failed object is opened again after its result was sent.
Report_Retry(w, ok) ==
  /\ results' = results \cup {[obj |-> cur[w], ok |-> ok]}
  /\ WorkerGoes(w, IF ok THEN "take" ELSE "open")
  /\ cur' = [cur EXCEPT ![w] = NoObject]

\* resultChan <- ret: the channel has room for every result; then the next object.
Report(w, ok) ==
  /\ results' = results \cup {[obj |-> cur[w], ok |-> ok]}
  /\ WorkerGoes(w, "take")
  /\ cur' = [cur EXCEPT ![w] = NoObject]

\* for obj := range jobs
Take(w) ==
  /\ pc[w] = "take"
  /\ \E o \in jobs : jobs' = jobs \ {o} /\ cur' = [cur EXCEPT ![w] = o]
  /\ WorkerGoes(w, "open")
  /\ UNCHANGED <<mode, dst, main, wanted, passed, listed, unsent, closed, unclosed, results,
                 drained, told, failed, result, runs>>

\* The source is opened (MGet makes the directories before; a marker is only that).
OpenSource(w) ==
  /\ pc[w] = "open"
  /\ \/ WorkerGoes(w, "create") /\ UNCHANGED <<results, cur>>
     \/ Faults /\ Report(w, FALSE)
  /\ UNCHANGED <<mode, dst, main, wanted, passed, listed, unsent, jobs, closed, unclosed, drained,
                 told, failed, result, runs>>

\* The destination is created.  os.Create truncates the file; Create of a
\* bucket asks for a URL and buffers until the writer is closed.
CreateTarget(w) ==
  /\ pc[w] = "create"
  /\ \/ /\ WorkerGoes(w, "copy") /\ UNCHANGED <<results, cur>>
        /\ dst' = IF mode = "MGet" THEN [dst EXCEPT ![cur[w]] = "part"] ELSE dst
     \/ Faults /\ Report(w, FALSE) /\ UNCHANGED dst
  /\ UNCHANGED <<mode, main, wanted, passed, listed, unsent, jobs, closed, unclosed, drained,
                 told, failed, result, runs>>

\* io.Copy moves the number of bytes of the listing.
CopyAll(w) ==
  /\ pc[w] = "copy"
  /\ IF mode = "MGet"
       THEN dst' = [dst EXCEPT ![cur[w]] = "whole"] /\ Report(w, TRUE)
       ELSE WorkerGoes(w, "close") /\ UNCHANGED <<dst, results, cur>>
  /\ UNCHANGED <<mode, main, wanted, passed, listed, unsent, jobs, closed, unclosed, drained,
                 told, failed, result, runs>>

\* Mutant: the writer is closed when the copy failed.
Abandon_Close(w) ==
  /\ dst' = [dst EXCEPT ![cur[w]] = "part"]
  /\ UNCHANGED unclosed

\* Copy forgets the writer with its buffer; MPut has deferred its Close.
Abandon(w) ==
  /\ unclosed' = IF mode = "MPut"
                   THEN [unclosed EXCEPT ![w] = @ \cup {cur[w]}] ELSE unclosed
  /\ UNCHANGED dst

\* io.Copy fails, or the source no longer has the size of the listing.
CopyBreaks(w) ==
  /\ pc[w] = "copy" /\ Faults
  /\ Report(w, FALSE)
  /\ Abandon(w)
  /\ UNCHANGED <<mode, main, wanted, passed, listed, unsent, jobs, closed, drained, told, failed,
                 result, runs>>

\* Close sends the buffer; the answer to a PUT that was carried out may be lost.
CloseTarget(w) ==
  /\ pc[w] = "close"
  /\ \/ dst' = [dst EXCEPT ![cur[w]] = "whole"] /\ Report(w, TRUE)
     \/ Faults /\ Report(w, FALSE) /\ dst' \in {dst, [dst EXCEPT ![cur[w]] = "whole"]}
  /\ UNCHANGED <<mode, main, wanted, passed, listed, unsent, jobs, closed, unclosed, drained,
                 told, failed, result, runs>>

\* jobs is closed and empty: the worker returns.  MPut runs the deferred Close
\* of every writer it left open, which sends what was buffered; then wg.Done.
Exit(w) ==
  /\ pc[w] = "take" /\ closed /\ jobs = {}
  /\ \E sent \in SUBSET unclosed[w] :
       dst' = [o \in Object |-> IF o \in sent THEN "part" ELSE dst[o]]
  /\ unclosed' = [unclosed EXCEPT ![w] = {}]
  /\ WorkerGoes(w, "exited")
  /\ UNCHANGED <<mode, main, wanted, passed, listed, unsent, jobs, closed, cur, results, drained,
                 told, failed, result, runs>>

WorkerStep(w) == \/ Take(w) \/ OpenSource(w) \/ CreateTarget(w) \/ CopyAll(w) \/ CopyBreaks(w)
                 \/ CloseTarget(w) \/ Exit(w)

MainStep == \/ PrepareFails \/ PrepareWithoutFilter \/ PrepareList \/ Send \/ CloseJobs
            \/ Collect \/ Return

TransferNext == BeginTransfer \/ MainStep \/ CloseResults \/ \E w \in Worker : WorkerStep(w)

TransferSpec == TransferInit /\ [][TransferNext]_transferVars

\* Goroutines that can go on do; whether the transfer is run again is not promised.
TransferFairness == /\ WF_transferVars(MainStep) /\ WF_transferVars(CloseResults)
                    /\ \A w \in Worker : WF_transferVars(WorkerStep(w))
TransferFairSpec == TransferSpec /\ TransferFairness

-----------------------------------------------------------------------------
\* Types.
TransferTypeOK ==
  /\ mode \in Modes /\ dst \in [Object -> Contents]
  /\ main \in {"idle", "prepare", "send", "collect", "done"}
  /\ wanted \subseteq Object /\ passed \subseteq Object /\ listed \subseteq Object
  /\ unsent \subseteq Object /\ jobs \subseteq Object
  /\ closed \in BOOLEAN /\ drained \in BOOLEAN
  /\ pc \in [Worker -> {"take", "open", "create", "copy", "close", "exited"}]
  /\ cur \in [Worker -> Object \cup {NoObject}] /\ unclosed \in [Worker -> SUBSET Object]
  /\ results \subseteq [obj : Object, ok : BOOLEAN]
  /\ told \subseteq Object /\ failed \subseteq Object
  /\ result \in {"none", "ok", "error", "panic"} /\ runs \in 0..MaxRuns

\* A transfer that went through its pool has one result of every listed object:
\* none is left in a channel or with a worker, whatever failed.
Returned == main = "done" /\ result \in {"ok", "error"} /\ drained
EveryObjectReported == Returned /\ listed # {} => listed = told \cup failed /\ told \cap failed = {}

\* A copy or upload that returned nil has put every object of its list at the
\* destination, whole.  Selected objects that a copy neither transferred nor dropped
\* at the second test of the path are there with the same size, or the destination
\* holds another object whose key differs only in case.
SuccessMeansWhole ==
  main = "done" /\ result = "ok" /\ mode # "MGet" =>
    /\ \A o \in listed : dst[o] = "whole"
    /\ \A o \in passed \ listed :
         /\ mode = "Copy"
         /\ \/ dst[o] \in {"same", "whole"}
            \/ \E v \in Object \ {o} : Fold[v] = Fold[o] /\ dst[v] # "absent"

\* A copy between buckets never leaves a truncated object at the destination.
CopyNeverTruncates == mode = "Copy" => \A o \in Object : dst[o] # "part"

\* The destination does not change once the transfer has returned: also the
\* uploads that the workers of MPut defer happen before it returns.
SettledAtReturn == [][main = "done" => dst' = dst]_transferVars

\* A transfer that begins returns.
TransferReturns == main = "prepare" ~> main = "done"

\* What the answer to a backup says ("successfully backup"): the objects of the
\* listing are in the directory.  MGet drops the errors of its workers.
BackupComplete ==
  main = "done" /\ result = "ok" /\ mode = "MGet" => \A o \in listed : dst[o] = "whole"

\* What the success of a copy is answered with: every selected object is at the
\* destination.
SelectedArrive ==
  main = "done" /\ result = "ok" /\ mode = "Copy" =>
    \A o \in wanted : dst[o] \in {"same", "whole"}
=============================================================================
