----------------------------- MODULE ExecHistory -----------------------------
(***************************************************************************)
(* The execution history (service/history, repository/executionLog-        *)
(* Repository.go): a client walks the pages of one query while the tracker *)
(* goes on inserting rows.  A page is two statements, a count and a find,  *)
(* in no transaction.                                                      *)
(***************************************************************************)
EXTENDS ExecTracker, FiniteSetsExt

CONSTANTS
  DefaultSize, MaxSize,  \* page sizes (20 and 100 in the service)
  RequestedSize          \* the sizes clients ask for; 0 when they do not

ASSUME HistoryAssumptions ==
  /\ DefaultSize \in Nat \ {0} /\ MaxSize \in Nat \ {0}
  /\ RequestedSize \subseteq Nat

VARIABLES
  reader,   \* what the client's walk does next
  query,    \* its period, direction, page and page size
  total,    \* the count of the page being read
  reply,    \* the last page answered: [page, total, content]
  present,  \* history: executions of the period logged when the walk began
  seen      \* history: the executions the walk was shown

historyVars == <<reader, query, total, reply, present, seen>>

NoReply == [page |-> 0, total |-> 0, content |-> <<>>]

HInit ==
  /\ Init
  /\ reader = "idle" /\ total = 0 /\ present = {} /\ seen = {} /\ reply = NoReply
  /\ query = [from |-> 0, to |-> 0, desc |-> TRUE, page |-> 0, size |-> 0]

-----------------------------------------------------------------------------
NormalizePaging(page, size) ==
  <<IF page < 1 THEN 1 ELSE page,
    IF size < 1 THEN DefaultSize ELSE IF size > MaxSize THEN MaxSize ELSE size>>

TotalPages(count, size) == (count + size - 1) \div size

\* Mutant: the period filters finished_at only.
Matching_FinishedAt(q) == {i \in DOMAIN log : log[i].to >= q.from /\ log[i].to <= q.to}

\* The rows buildFilterQuery selects.
Matching(q) == {i \in DOMAIN log : log[i].to >= q.from /\ log[i].from <= q.to}

\* The orders the database may give: finished_at decides, ties do not.
InOrder(q, i, j) == IF q.desc THEN log[i].to >= log[j].to ELSE log[i].to <= log[j].to
Orders(q) ==
  LET rows == Matching(q)
  IN {s \in [1..Cardinality(rows) -> rows] :
        \A a, b \in DOMAIN s : a < b => s[a] # s[b] /\ InOrder(q, s[a], s[b])}

\* Mutant: an offset of page * size.
Window_PageTimesSize(s, page, size) ==
  LET offset == page * size
  IN SubSeq(s, offset + 1, Min({offset + size, Len(s)}))

\* OFFSET and LIMIT.
Window(s, page, size) ==
  LET offset == (page - 1) * size
  IN SubSeq(s, offset + 1, Min({offset + size, Len(s)}))

\* Reference: an execution belongs to a period if some instant lies in both.
During(row, from, to) == \E t \in from..to : row.from <= t /\ t <= row.to

\* A client begins to read the executions of a period; it gives no page.
StartWalk ==
  /\ reader = "idle" /\ reader' = "count"
  /\ \E from, to \in 0..MaxClock, desc \in BOOLEAN, size \in RequestedSize :
       LET p == NormalizePaging(0, size) IN
       /\ from <= to
       /\ query' = [from |-> from, to |-> to, desc |-> desc, page |-> p[1], size |-> p[2]]
       /\ present' = {log[i].op : i \in {j \in DOMAIN log : During(log[j], from, to)}}
  /\ UNCHANGED <<total, reply, seen>>

\* List: SELECT count(*).
Count ==
  /\ reader = "count" /\ reader' = "find"
  /\ total' = Cardinality(Matching(query))
  /\ UNCHANGED <<query, reply, present, seen>>

\* List: the page, and the answer; the client goes on until a page is empty.
Find ==
  /\ reader = "find"
  /\ \E s \in Orders(query) :
       LET content == Window(s, query.page, query.size) IN
       /\ reply' = [page |-> query.page, total |-> total, content |-> content]
       /\ seen' = seen \cup {log[content[k]].op : k \in DOMAIN content}
       /\ reader' = IF content = <<>> THEN "end" ELSE "count"
       /\ query' = [query EXCEPT !.page = @ + 1]
  /\ UNCHANGED <<total, present>>

HNext == \/ (StartWalk \/ Count \/ Find) /\ UNCHANGED vars
         \/ Next /\ UNCHANGED historyVars

HSpec == HInit /\ [][HNext]_<<vars, historyVars>>

-----------------------------------------------------------------------------
\* A page within the totalPages of its own answer is as full as totalCount
\* says, although rows are inserted between the two statements.
PromisedPage ==
  reply.page # 0 =>
    LET left == reply.total - (reply.page - 1) * query.size
    IN /\ reply.page <= TotalPages(reply.total, query.size) => Len(reply.content) > 0
       /\ Len(reply.content) >= Min({query.size, left})

\* A walk to the first empty page misses no execution of the period that was
\* logged when it began, although inserts move rows from page to page: an
\* execution that started before the period or ended after it included.  Only
\* executions that finished in the same second as another may be missed.
Alone(o) == \A i, j \in DOMAIN log : log[i].op = o /\ j # i => log[j].to # log[i].to
WalkSeesAll == reader = "end" => \A o \in present : Alone(o) => o \in seen
=============================================================================
