-------------------------- MODULE RdbTransferProofs --------------------------
(***************************************************************************)
(* Theorems about RdbTransfer, for any tasks, databases, tables and rows.  *)
(* The invariant has three layers.  Structure: the types, which step fits  *)
(* which task, and what scripts look like (Script), those at hand, those   *)
(* in files and those that were torn.  Content, on top of it: what scripts *)
(* bring lies between the least and the most that a task may bring.        *)
(* Delivered, on top of both: what the target holds, of a task that has a  *)
(* database to itself, of a deletion, and of tasks that share a table.     *)
(* First come lemmas about scripts, then each layer through every action;  *)
(* for the last two the actions are put into six kinds (StepKinds).        *)
(***************************************************************************)
EXTENDS RdbTransfer, FiniteSetTheorems, SequenceTheorems, TLAPS

(* What a script for database d may look like: as Get, a file of the dummy      *)
(* data and a file of a backup are, and every beginning of them.                *)
Script(s, d) ==
    /\ s \in Seq(Stmts)
    /\ \A i \in DOMAIN s :
          /\ s[i].db = d
          /\ i = 1 => s[i].kind \in Creating
          /\ i = 2 => s[i].kind = "use"
          /\ i > 2 => s[i].kind \in {"drop", "create"} \cup Filling /\ s[i].table \in Table
          /\ s[i].kind \in Filling => s[i].row \in Value
                  /\ \E j \in 1 .. i - 1 : s[j].kind = "create" /\ s[j].table = s[i].table
    /\ \A i, j \in DOMAIN s :
          2 < i /\ i < j /\ s[i].table = s[j].table =>
              s[j].kind \in Filling \/ (s[i].kind = "drop" /\ s[j].kind = "create")

\* Every table that a script names is created by it.
Whole(s) == \A i \in 3 .. Len(s) : s[i].table \in Created(s)

\* A task runs a script for the database.
RunsFor(p, d) == At(p, "exec") /\ run[p].script # <<>> /\ run[p].script[1].db = d

\* What of the script has been executed, in the attempt at hand.
Executed(p, t) == \E j \in 1 .. run[p].pc - 1 :
                      run[p].script[j].kind = "create" /\ run[p].script[j].table = t
Brought(p, t)  == {run[p].script[i].row : i \in {j \in 1 .. run[p].pc - 1 :
                      run[p].script[j].kind \in Filling /\ run[p].script[j].table = t}}

\* A task of which something can be expected in a database.
Honest(p, d) ==
    /\ p \notin cut /\ run[p].op \in Writers /\ ~ At(p, "failed")
    /\ run[p].op = "restore" => NoBackup(d)

\* What a task does at which step, and which databases it has had in hand:
\* of its state r, the tables it has named, and the databases that have files.
Fits(r, names, filed) ==
    /\ r.at = "idle" <=> r.op = "none"
    /\ r.at = "list" => r.op \in {"migrate", "backup", "delete"}
    /\ r.at = "read" => r.op \in {"migrate", "backup"}
    /\ r.at = "write" => r.op = "backup"
    /\ r.at \in {"next", "exec"} => r.op \in Writers
    /\ r.at = "next" => r.op # "migrate"
    /\ r.at = "drop" => r.op = "delete"
    /\ r.op \in {"migrate", "backup"} => r.db \in Database
    /\ r.at \in {"idle", "list", "read", "write"} \/ r.op = "backup" => names = {}
    /\ r.op \in {"restore", "generate"} => \A x \in names : x[1] \notin r.dbs
    /\ r.op = "restore" => r.dbs \subseteq filed /\ \A x \in names : x[1] \in filed
    /\ r.pc <= Len(r.script) + 1
    /\ r.at \in {"idle", "list", "read", "write", "next"} => r.pc = 1

\* The script of a task names what the task has named, and nothing else;
\* past USE the connection is in the database of the script.
Carries(r, names, tables) ==
    /\ r.at \in {"read", "write"} =>
          /\ Script(r.script, r.db) /\ Whole(r.script) /\ r.script # <<>>
          /\ Created(r.script) \subseteq tables
          /\ r.todo \subseteq Created(r.script)
    /\ r.at = "exec" /\ r.script # <<>> =>
          /\ r.script[1].db \in Database /\ Script(r.script, r.script[1].db)
          /\ r.script[1].db \notin r.dbs
          /\ \A i \in 3 .. Len(r.script) : <<r.script[1].db, r.script[i].table>> \in names
          /\ r.pc > 2 => r.use = r.script[1].db

FilesAreScripts ==
    \A d \in DOMAIN files : Script(files[d], d) /\ (NoBackup(d) => Whole(files[d]))

Structure ==
    /\ TypeOK /\ FilesAreScripts
    /\ \A p \in Task : /\ Fits(run[p], named[p], DOMAIN files)
                       /\ Carries(run[p], named[p], DOMAIN src)

\* What a script brings for a table, when the task may be held to it.
Brings(p, d, t) ==
    /\ t \in Created(run[p].script)
    /\ AtLeast(p, d, t) \subseteq Inserted(run[p].script, t)
    /\ Inserted(run[p].script, t) \subseteq AtMost(p, d, t)

SourceBounds == \A t \in DOMAIN src : OfTable(stable, t) \subseteq src[t] /\ src[t] \subseteq OfTable(ever, t)

\* The tables that have been read are in the script, with rows of the source.
Gathered(p) ==
    run[p].at \in {"read", "write"} /\ p \notin cut =>
        /\ Created(run[p].script) = DOMAIN src
        /\ \A t \in DOMAIN src : 
              /\ t \in run[p].todo /\ At(p, "read") => Inserted(run[p].script, t) = {}
              /\ (At(p, "write") \/ t \notin run[p].todo) => Brings(p, run[p].db, t)

Loaded(p) ==
    \A d \in Database : RunsFor(p, d) /\ Honest(p, d) =>
        \A t \in Table : <<d, t>> \in named[p] => Brings(p, d, t)

Content ==
    /\ SourceBounds /\ BackupIsWhole
    /\ \A p \in Task : Gathered(p) /\ Loaded(p)

\* A table is being filled, or holds what the task brought and nothing else.
Exact(p, d, t) ==
    Honest(p, d) /\ <<d, t>> \in named[p] /\ Alone(p, d) =>
        IF RunsFor(p, d)
        THEN Executed(p, t) => Has(d, t) /\ RowsOf(d, t) = {<<v, p, run[p].again>> : v \in Brought(p, t)}
        ELSE /\ Has(d, t) /\ Once(d, t)
             /\ AtLeast(p, d, t) \subseteq Values(d, t) /\ Values(d, t) \subseteq AtMost(p, d, t)

Emptied(p) ==
    run[p].op = "delete" /\ p \notin cut /\ (\A q \in Task \ {p} : run[q].op \notin Writers) =>
        /\ At(p, "drop") => DOMAIN dst \subseteq run[p].dbs
        /\ At(p, "completed") => DOMAIN dst = {}

\* Who writes a database, and the table among others; somebody has yet to
\* create the table, or somebody's rows so far are all there.
By(d)    == {p \in Task : \E x \in named[p] : x[1] = d}
Owes(p, d, t) == RunsFor(p, d) /\ ~ Executed(p, t)
Sofar(p, d, t) == IF RunsFor(p, d) THEN Brought(p, t) ELSE AtLeast(p, d, t)
Kept(d, t) ==
    (\E p \in By(d) : <<d, t>> \in named[p]) /\ (\A p \in By(d) : Honest(p, d)) =>
        \E p \in Task : <<d, t>> \in named[p] /\ (Owes(p, d, t) \/ Sofar(p, d, t) \subseteq Values(d, t))

Delivered ==
    /\ \A p \in Task : Emptied(p)
    /\ \A p \in Task, d \in Database, t \in Table : Exact(p, d, t)
    /\ \A d \in Database, t \in Table : Kept(d, t)
---------------------------------------------------------------------------------
(* Scripts.                                                                     *)

\* A finite set in some order: every element has its place, and one only.
LEMMA Ordered ==
    ASSUME NEW S, IsFiniteSet(S)
    PROVE  /\ Cardinality(S) \in Nat
           /\ SetToSeq(S) \in [1 .. Cardinality(S) -> S]
           /\ \A i, j \in 1 .. Cardinality(S) : SetToSeq(S)[i] = SetToSeq(S)[j] => i = j
           /\ \A x \in S : \E i \in 1 .. Cardinality(S) : SetToSeq(S)[i] = x
<1>1. Cardinality(S) \in Nat /\ ExistsBijection(1 .. Cardinality(S), S)
  BY FS_CardinalityType
<1>2. PICK n \in Nat : n = Cardinality(S)
  BY <1>1
<1>3. PICK f \in [1 .. n -> S] : IsInjective(f)
  BY <1>1, <1>2 DEF ExistsBijection, Bijection, Injection
<1>4. PICK g : g = SetToSeq(S)
  OBVIOUS
<1>5. g \in [1 .. n -> S] /\ IsInjective(g)
  BY <1>2, <1>3, <1>4 DEF SetToSeq
<1>6. PICK T : T = {g[i] : i \in 1 .. n}
  OBVIOUS
<1>7. T \in SUBSET S
  BY <1>5, <1>6
<1>8. g \in Surjection(1 .. n, T) /\ g \in Injection(1 .. n, T)
  BY <1>5, <1>6 DEF Surjection, Injection, IsInjective
<1>9. IsFiniteSet(1 .. n) /\ Cardinality(1 .. n) = n
  BY FS_Interval
<1>10. Cardinality(T) = n
  BY <1>8, <1>9, FS_Surjection
<1>11. S = T
  BY <1>7, <1>10, <1>2, FS_Subset
<1>12. \A i, j \in 1 .. n : g[i] = g[j] => i = j
  BY <1>5 DEF IsInjective
<1>13. \A x \in S : \E i \in 1 .. n : g[i] = x
  BY <1>6, <1>11
<1> QED
  BY <1>1, <1>2, <1>4, <1>5, <1>12, <1>13

LEMMA Quotient ==
    ASSUME NEW k \in Nat \ {0}, NEW n \in Nat, NEW i \in 1 .. k * n
    PROVE  /\ (i - 1) \div k \in 0 .. n - 1 /\ (i - 1) % k \in 0 .. k - 1
           /\ i = k * ((i - 1) \div k) + ((i - 1) % k) + 1
<1>1. PICK q, r : q = (i - 1) \div k /\ r = (i - 1) % k
  OBVIOUS
<1>2. q \in Nat /\ r \in 0 .. k - 1 /\ i - 1 = k * q + r
  BY <1>1
<1>3. q < n
  <2>1. SUFFICES ASSUME q >= n PROVE FALSE
    BY <1>2
  <2>2. PICK m \in Nat : q = n + m
    <3>1. q - n \in Nat /\ q = n + (q - n)
      BY <1>2, <2>1
    <3> QED
      BY <3>1
  <2>3. k * q = k * n + k * m /\ k * m \in Nat /\ k * n \in Nat
    BY <2>2
  <2> QED
    BY <1>2, <2>3
<1> QED
  BY <1>1, <1>2, <1>3

LEMMA Remainder ==
    ASSUME NEW k \in Nat \ {0}, NEW a \in Nat \ {0}, NEW b \in 1 .. k
    PROVE  /\ ((k * (a - 1) + b - 1) \div k) + 1 = a
           /\ ((k * (a - 1) + b - 1) % k) + 1 = b
<1>1. PICK m, q, r : m = k * (a - 1) + b - 1 /\ q = m \div k /\ r = m % k
  OBVIOUS
<1>2. m \in Nat /\ q \in Nat /\ r \in 0 .. k - 1 /\ m = k * q + r
  BY <1>1
<1>3. q = a - 1
  <2>1. PICK e \in Nat : e = a - 1
    OBVIOUS
  <2>2. k * q + r = k * e + (b - 1)
    BY <1>1, <1>2, <2>1
  <2>3. CASE q > e
    <3>1. q - e - 1 \in Nat /\ q = e + 1 + (q - e - 1)
      BY <1>2, <2>1, <2>3
    <3>2. PICK c \in Nat : q = e + 1 + c
      BY <3>1
    <3>3. k * q = k * e + k + k * c /\ k * c \in Nat /\ k * e \in Nat
      BY <3>2
    <3> QED
      BY <1>2, <2>2, <3>3
  <2>4. CASE q < e
    <3>1. e - q - 1 \in Nat /\ e = q + 1 + (e - q - 1)
      BY <1>2, <2>1, <2>4
    <3>2. PICK c \in Nat : e = q + 1 + c
      BY <3>1
    <3>3. k * e = k * q + k + k * c /\ k * c \in Nat /\ k * q \in Nat
      BY <1>2, <3>2
    <3> QED
      BY <1>2, <2>2, <3>3
  <2> QED
    BY <1>2, <2>1, <2>3, <2>4
<1>4. r = b - 1
  BY <1>1, <1>2, <1>3
<1> QED
  BY <1>1, <1>2, <1>3, <1>4

LEMMA Within ==
    ASSUME NEW k \in Nat \ {0}, NEW n \in Nat, NEW a \in 1 .. n, NEW b \in 1 .. k
    PROVE  k * (a - 1) + b \in 1 .. k * n
<1>1. n - a \in Nat /\ n = (a - 1) + 1 + (n - a)
  OBVIOUS
<1>2. PICK m \in Nat, e \in Nat : n = e + 1 + m /\ e = a - 1
  BY <1>1
<1>3. k * n = k * e + k + k * m /\ k * m \in Nat /\ k * e \in Nat
  BY <1>2
<1> QED
  BY <1>2, <1>3

\* The place of statement b of part a, when every part has k statements.
Place(k, a, b) == k * (a - 1) + b

\* J is n parts of k statements each, m statements in all.
JoinOf(J, parts, n, k, m) ==
    /\ m \in Nat /\ J \in Seq(Stmts) /\ Len(J) = m
    /\ \A i \in 1 .. m : \E a \in 1 .. n, b \in 1 .. k : i = Place(k, a, b) /\ J[i] = parts[a][b]
    /\ \A a \in 1 .. n, b \in 1 .. k : Place(k, a, b) \in 1 .. m /\ J[Place(k, a, b)] = parts[a][b]

LEMMA JoinedIs ==
    ASSUME NEW k \in Nat \ {0}, NEW n \in Nat, NEW m, m = k * n,
           NEW parts, parts \in [1 .. n -> Seq(Stmts)],
           \A a \in 1 .. n : Len(parts[a]) = k,
           NEW J, J = Joined(parts, k)
    PROVE  JoinOf(J, parts, n, k, m)
<1>1. parts \in Seq(Seq(Stmts)) /\ Len(parts) = n /\ k * n \in Nat
  OBVIOUS
<1>2. ASSUME NEW i \in 1 .. k * n
      PROVE  \E a \in 1 .. n, b \in 1 .. k : /\ i = k * (a - 1) + b
                /\ Joined(parts, k)[i] = parts[a][b] /\ parts[a][b] \in Stmts
  <2>1. PICK q, r : q = (i - 1) \div k /\ r = (i - 1) % k
    OBVIOUS
  <2>2. q \in 0 .. n - 1 /\ r \in 0 .. k - 1 /\ i = k * q + r + 1
    <3>1. /\ (i - 1) \div k \in 0 .. n - 1 /\ (i - 1) % k \in 0 .. k - 1
          /\ i = k * ((i - 1) \div k) + ((i - 1) % k) + 1
      BY Quotient
    <3> QED
      BY <2>1, <3>1
  <2>3. Joined(parts, k)[i] = parts[q + 1][r + 1]
    BY <1>1, <2>1 DEF Joined
  <2>4. PICK a, b : a = q + 1 /\ b = r + 1
    OBVIOUS
  <2>5. a \in 1 .. n /\ b \in 1 .. k /\ a - 1 = q
    BY <2>2, <2>4
  <2>6. parts[a] \in Seq(Stmts) /\ Len(parts[a]) = k
    BY <2>5
  <2>7. parts[a][b] \in Stmts
    BY <2>5, <2>6
  <2>8. i = k * (a - 1) + b
    BY <2>2, <2>4, <2>5
  <2> QED
    BY <2>3, <2>4, <2>5, <2>7, <2>8
<1>3. ASSUME NEW a \in 1 .. n, NEW b \in 1 .. k
      PROVE  k * (a - 1) + b \in 1 .. k * n /\ Joined(parts, k)[k * (a - 1) + b] = parts[a][b]
  <2>1. k * (a - 1) + b \in 1 .. k * n
    BY Within
  <2>2. PICK i \in 1 .. k * n : i = k * (a - 1) + b
    BY <2>1
  <2>3. ((i - 1) \div k) + 1 = a /\ ((i - 1) % k) + 1 = b
    <3>1. /\ ((k * (a - 1) + b - 1) \div k) + 1 = a
          /\ ((k * (a - 1) + b - 1) % k) + 1 = b
      <4>1. a \in Nat \ {0}
        OBVIOUS
      <4> QED
        BY <4>1, Remainder
    <3> QED
      BY <2>2, <3>1
  <2> QED
    BY <1>1, <2>1, <2>2, <2>3 DEF Joined
<1>4. Joined(parts, k) = [i \in 1 .. k * n |-> Joined(parts, k)[i]]
  BY <1>1 DEF Joined
<1>5. Joined(parts, k) \in [1 .. k * n -> Stmts]
  BY <1>2, <1>4
<1>6. \A i \in 1 .. m : \E a \in 1 .. n, b \in 1 .. k :
         i = Place(k, a, b) /\ J[i] = parts[a][b]
  <2>1. TAKE i \in 1 .. m
  <2>2. i \in 1 .. k * n
    BY <2>1
  <2>3. PICK a \in 1 .. n, b \in 1 .. k :
           i = k * (a - 1) + b /\ Joined(parts, k)[i] = parts[a][b]
    BY <1>2, <2>2, Zenon
  <2>4. i = Place(k, a, b) /\ J[i] = parts[a][b]
    BY <2>3, Zenon DEF Place
  <2> QED
    BY <2>4, Zenon
<1>7. \A a \in 1 .. n, b \in 1 .. k : Place(k, a, b) \in 1 .. m /\ J[Place(k, a, b)] = parts[a][b]
  BY <1>3 DEF Place
<1>8. m \in Nat /\ J \in [1 .. m -> Stmts]
  BY <1>1, <1>5
<1>9. J \in Seq(Stmts) /\ Len(J) = m
  BY <1>8
<1> QED
  BY <1>6, <1>7, <1>8, <1>9 DEF JoinOf

\* A sequence after another.
AfterOther(s, first, second) ==
    /\ s \in Seq(Stmts) /\ Len(s) = Len(first) + Len(second) /\ Len(s) \in Nat
    /\ DOMAIN s = 1 .. Len(s)
    /\ \A i \in 1 .. Len(first) : i \in DOMAIN s /\ s[i] = first[i]
    /\ \A i \in 1 .. Len(second) : Len(first) + i \in DOMAIN s /\ s[Len(first) + i] = second[i]
    /\ \A i \in DOMAIN s : i \in 1 .. Len(first)
                          \/ \E j \in 1 .. Len(second) : i = Len(first) + j

LEMMA ConcatIs ==
    ASSUME NEW first \in Seq(Stmts), NEW second \in Seq(Stmts), NEW s, s = first \o second
    PROVE  AfterOther(s, first, second)
<1>1. PICK k, l : k = Len(first) /\ l = Len(second)
  OBVIOUS
<1>2. k \in Nat /\ l \in Nat /\ s \in Seq(Stmts) /\ Len(s) = k + l
  BY <1>1
<1>3. \A i \in 1 .. k : s[i] = first[i]
  BY <1>1
<1>4. \A i \in 1 .. l : s[k + i] = second[i]
  BY <1>1
<1>5. DOMAIN s = 1 .. k + l
  BY <1>2
<1>6. ASSUME NEW i \in 1 .. k + l, i \notin 1 .. k PROVE \E j \in 1 .. l : i = k + j
  <2>1. i - k \in 1 .. l /\ i = k + (i - k)
    BY <1>2, <1>6
  <2> QED
    BY <2>1
<1>7. \A i \in 1 .. k : i \in DOMAIN s
  BY <1>2, <1>5
<1>8. \A i \in 1 .. l : k + i \in DOMAIN s
  BY <1>2, <1>5
<1> QED
  BY <1>1, <1>2, <1>3, <1>4, <1>5, <1>6, <1>7, <1>8 DEF AfterOther

LEMMA Fields ==
    ASSUME NEW kind, NEW d, NEW t, NEW r
    PROVE  /\ Stmt(kind, d, t, r).kind = kind /\ Stmt(kind, d, t, r).db = d
           /\ Stmt(kind, d, t, r).table = t /\ Stmt(kind, d, t, r).row = r
BY DEF Stmt

LEMMA StmtTyped ==
    ASSUME NEW kind \in Creating \cup {"use", "drop", "create"} \cup Filling, NEW d \in Database,
           NEW t \in Table \cup {None}, NEW r \in Value \cup {None}
    PROVE  /\ Stmt(kind, d, t, r) \in Stmts
           /\ Stmt(kind, d, t, r).kind = kind /\ Stmt(kind, d, t, r).db = d
           /\ Stmt(kind, d, t, r).table = t /\ Stmt(kind, d, t, r).row = r
BY DEF Stmt, Stmts

\* The statements that fill a table, one for each row.
LEMMA InsertsIs ==
    ASSUME NEW kind \in Filling, NEW d \in Database, NEW t \in Table, NEW rows \in SUBSET Row
    PROVE  /\ Inserts(kind, d, t, rows) \in Seq(Stmts)
           /\ Len(Inserts(kind, d, t, rows)) = Cardinality(rows) /\ Cardinality(rows) \in Nat
           /\ \A i \in 1 .. Cardinality(rows) :
                 \E v \in Read(rows) : Inserts(kind, d, t, rows)[i] = Stmt(kind, d, t, v)
           /\ \A v \in Read(rows) :
                 \E i \in 1 .. Cardinality(rows) : Inserts(kind, d, t, rows)[i] = Stmt(kind, d, t, v)
           /\ Read(rows) \subseteq Value
<1>1. IsFiniteSet(rows)
  BY RowAssumption, FS_Subset
<1>2. PICK n, g : n = Cardinality(rows) /\ g = SetToSeq(rows)
  OBVIOUS
<1>3. n \in Nat /\ g \in [1 .. n -> rows] /\ \A x \in rows : \E i \in 1 .. n : g[i] = x
  BY <1>1, <1>2, Ordered
<1>4. Inserts(kind, d, t, rows) = [i \in 1 .. n |-> Stmt(kind, d, t, ReadBack[g[i]])]
  BY <1>2 DEF Inserts, ReplaceEscapeString
<1>5. Read(rows) \subseteq Value
  BY DEF Read, Value
<1>6. \A i \in 1 .. n : ReadBack[g[i]] \in Read(rows)
  BY <1>3 DEF Read
<1>7. \A v \in Read(rows) : Stmt(kind, d, t, v) \in Stmts
  BY <1>5, StmtTyped
<1>8. PICK s : s = Inserts(kind, d, t, rows)
  OBVIOUS
<1>9. s = [i \in 1 .. n |-> Stmt(kind, d, t, ReadBack[g[i]])]
  BY <1>4, <1>8
<1>10. s \in [1 .. n -> Stmts]
  BY <1>6, <1>7, <1>9
<1>11. s \in Seq(Stmts) /\ Len(s) = n
  BY <1>3, <1>10
<1>12. \A v \in Read(rows) : \E i \in 1 .. n : s[i] = Stmt(kind, d, t, v)
  BY <1>3, <1>9 DEF Read
<1>13. \A i \in 1 .. n : \E v \in Read(rows) : s[i] = Stmt(kind, d, t, v)
  BY <1>6, <1>9
<1> QED
  BY <1>2, <1>3, <1>5, <1>8, <1>11, <1>12, <1>13

LEMMA HeadIs ==
    ASSUME NEW d \in Database, NEW form \in Creating
    PROVE  /\ Head1(d, form) \in Seq(Stmts) /\ Len(Head1(d, form)) = 2
           /\ Head1(d, form)[1] = Stmt(form, d, None, None)
           /\ Head1(d, form)[2] = Stmt("use", d, None, None)
<1>1. Stmt(form, d, None, None) \in Stmts /\ Stmt("use", d, None, None) \in Stmts
  BY StmtTyped
<1> QED
  BY <1>1 DEF Head1

LEMMA DropCreateIs ==
    ASSUME NEW d \in Database, NEW t \in Table
    PROVE  /\ DropCreate(d, t) \in Seq(Stmts) /\ Len(DropCreate(d, t)) = 2
           /\ DropCreate(d, t)[1] = Stmt("drop", d, t, None)
           /\ DropCreate(d, t)[2] = Stmt("create", d, t, None)
<1>1. Stmt("drop", d, t, None) \in Stmts /\ Stmt("create", d, t, None) \in Stmts
  BY StmtTyped
<1> QED
  BY <1>1 DEF DropCreate

\* A script as Get begins it: it creates the tables and has no rows.
Blank(d, form, tables) == Head1(d, form) \o Frame(d, InOrder(tables))

LEMMA Begun ==
    ASSUME NEW d \in Database, NEW form \in Creating, NEW tables \in SUBSET Table,
           NEW s, s = Blank(d, form, tables)
    PROVE  /\ Script(s, d) /\ Whole(s) /\ Created(s) = tables /\ Len(s) >= 2
           /\ \A t : Inserted(s, t) = {}
<1>1. IsFiniteSet(tables)
  BY TableAssumption, FS_Subset
<1>2. PICK n, g : n = Cardinality(tables) /\ g = SetToSeq(tables)
  OBVIOUS
<1>3. /\ n \in Nat /\ g \in [1 .. n -> tables]
      /\ \A i, j \in 1 .. n : g[i] = g[j] => i = j
      /\ \A x \in tables : \E i \in 1 .. n : g[i] = x
  BY <1>1, <1>2, Ordered
<1>4. PICK parts : parts = [i \in 1 .. n |-> DropCreate(d, g[i])]
  OBVIOUS
<1>5. PICK F : F = Joined(parts, 2)
  OBVIOUS
<1>6. F = Frame(d, InOrder(tables))
  BY <1>2, <1>3, <1>4, <1>5 DEF Frame, InOrder
<1>7. \A i \in 1 .. n : /\ parts[i] \in Seq(Stmts) /\ Len(parts[i]) = 2
                        /\ parts[i][1] = Stmt("drop", d, g[i], None)
                        /\ parts[i][2] = Stmt("create", d, g[i], None)
  BY <1>3, <1>4, DropCreateIs
<1>8. parts \in [1 .. n -> Seq(Stmts)]
  BY <1>4, <1>7
<1>9. PICK m, k : m = 2 * n /\ k = 2
  OBVIOUS
<1>10. JoinOf(F, parts, n, k, m)
  <2>1. k \in Nat \ {0} /\ m = k * n /\ F = Joined(parts, k) /\ \A a \in 1 .. n : Len(parts[a]) = k
    BY <1>5, <1>7, <1>9
  <2> QED
    BY <1>3, <1>8, <2>1, JoinedIs
<1>11. PICK H : H = Head1(d, form)
  OBVIOUS
<1>12. /\ H \in Seq(Stmts) /\ Len(H) = 2
       /\ H[1] = Stmt(form, d, None, None) /\ H[2] = Stmt("use", d, None, None)
  BY <1>11, HeadIs
<1>13. s = H \o F
  BY <1>6, <1>11 DEF Blank
<1>14. /\ s \in Seq(Stmts) /\ Len(s) = 2 + m /\ s[1] = H[1] /\ s[2] = H[2]
       /\ m \in Nat /\ DOMAIN s = 1 .. Len(s)
       /\ \A i \in 3 .. Len(s) : \E j \in 1 .. m : s[i] = F[j] /\ i = 2 + j
       /\ \A i \in 1 .. m : s[2 + i] = F[i] /\ 2 + i \in 3 .. Len(s)
  <2>1. m \in Nat /\ F \in Seq(Stmts) /\ Len(F) = m
    BY <1>10 DEF JoinOf
  <2>2. AfterOther(s, H, F)
    BY <1>12, <1>13, <2>1, ConcatIs
  <2>3. /\ s \in Seq(Stmts) /\ Len(s) = 2 + m /\ DOMAIN s = 1 .. Len(s)
        /\ \A i \in 1 .. 2 : s[i] = H[i]
        /\ \A i \in 1 .. m : s[2 + i] = F[i]
        /\ \A i \in DOMAIN s : i \in 1 .. 2 \/ \E j \in 1 .. m : i = 2 + j
    BY <1>12, <2>1, <2>2 DEF AfterOther
  <2>4. 1 \in 1 .. 2 /\ 2 \in 1 .. 2
    OBVIOUS
  <2>5. \A i \in 1 .. m : 2 + i \in 3 .. Len(s)
    BY <2>1, <2>3
  <2>6. \A i \in 3 .. Len(s) : i \in DOMAIN s /\ i \notin 1 .. 2
    BY <2>1, <2>3
  <2>7. \A i \in 3 .. Len(s) : \E j \in 1 .. m : s[i] = F[j] /\ i = 2 + j
    <3>1. ASSUME NEW i \in 3 .. Len(s) PROVE \E j \in 1 .. m : s[i] = F[j] /\ i = 2 + j
      <4>1. PICK j \in 1 .. m : i = 2 + j
        BY <2>3, <2>6
      <4>2. s[i] = F[j]
        BY <2>3, <4>1
      <4> QED
        BY <4>1, <4>2
    <3> QED
      BY <3>1
  <2> QED
    BY <2>1, <2>3, <2>4, <2>5, <2>7
<1>15. ASSUME NEW i \in 3 .. Len(s)
       PROVE  \E a \in 1 .. n :
                 /\ s[i].db = d /\ s[i].table = g[a] /\ g[a] \in tables
                 /\ \/ s[i].kind = "drop" /\ i = 2 * (a - 1) + 3
                    \/ s[i].kind = "create" /\ i = 2 * (a - 1) + 4
  <2>0. PICK j \in 1 .. m : s[i] = F[j] /\ i = 2 + j
    BY <1>14
  <2>1. PICK a \in 1 .. n, b \in 1 .. k : j = Place(k, a, b) /\ F[j] = parts[a][b]
    BY <1>10 DEF JoinOf
  <2>2. g[a] \in tables /\ (b = 1 \/ b = 2) /\ i = 2 * (a - 1) + b + 2 /\ s[i] = parts[a][b]
    <3>1. g[a] \in tables
      BY <1>3
    <3>2. b = 1 \/ b = 2
      BY <1>9
    <3>3. j = 2 * (a - 1) + b
      BY <1>9, <2>1 DEF Place
    <3> QED
      BY <2>0, <2>1, <3>1, <3>2, <3>3
  <2>3. /\ Stmt("drop", d, g[a], None).kind = "drop" /\ Stmt("create", d, g[a], None).kind = "create"
        /\ Stmt("drop", d, g[a], None).db = d /\ Stmt("create", d, g[a], None).db = d
        /\ Stmt("drop", d, g[a], None).table = g[a] /\ Stmt("create", d, g[a], None).table = g[a]
    BY DEF Stmt
  <2>4. CASE b = 1
    <3>1. s[i] = Stmt("drop", d, g[a], None)
      BY <1>7, <2>2, <2>4
    <3>2. i = 2 * (a - 1) + 3
      BY <2>2, <2>4
    <3> QED
      BY <2>2, <2>3, <3>1, <3>2
  <2>5. CASE b = 2
    <3>1. s[i] = Stmt("create", d, g[a], None)
      BY <1>7, <2>2, <2>5
    <3>2. i = 2 * (a - 1) + 4
      BY <2>2, <2>5
    <3> QED
      BY <2>2, <2>3, <3>1, <3>2
  <2> QED
    BY <2>2, <2>4, <2>5
<1>16. ASSUME NEW t \in tables PROVE \E i \in 3 .. Len(s) : s[i].kind = "create" /\ s[i].table = t
  <2>1. PICK a \in 1 .. n : g[a] = t
    BY <1>3
  <2>2. 2 \in 1 .. k
    BY <1>9
  <2>3. PICK i \in 1 .. m : F[i] = parts[a][2]
    BY <1>10, <2>2 DEF JoinOf
  <2>4. s[2 + i] = Stmt("create", d, t, None) /\ 2 + i \in 3 .. Len(s)
    BY <1>7, <1>14, <2>1, <2>3
  <2> QED
    BY <2>4 DEF Stmt
<1>17. DOMAIN s = 1 .. Len(s) /\ Len(s) \in Nat /\ Len(s) >= 2
  BY <1>14
<1>18. /\ s[1].kind = form /\ s[1].db = d /\ s[2].kind = "use" /\ s[2].db = d
  BY <1>12, <1>14 DEF Stmt
<1>19. \A i \in DOMAIN s : i = 1 \/ i = 2 \/ i \in 3 .. Len(s)
  BY <1>17
<1>20. \A i \in DOMAIN s : s[i].kind \notin Filling
  BY <1>15, <1>18, <1>19 DEF Filling, Creating
<1>21. Created(s) = tables
  <2>1. Created(s) \subseteq tables
    <3>1. ASSUME NEW i \in DOMAIN s, s[i].kind = "create" PROVE s[i].table \in tables
      <4>1. i \in 3 .. Len(s)
        BY <1>18, <1>19, <3>1 DEF Creating
      <4> QED
        BY <1>15, <4>1
    <3> QED
      BY <3>1 DEF Created
  <2>2. tables \subseteq Created(s)
    BY <1>16, <1>17 DEF Created
  <2> QED
    BY <2>1, <2>2
<1>22. Whole(s)
  <2>1. ASSUME NEW i \in 3 .. Len(s) PROVE s[i].table \in tables
    BY <1>15
  <2> QED
    BY <1>21, <2>1 DEF Whole
<1>23. \A t : Inserted(s, t) = {}
  BY <1>20 DEF Inserted
<1>24. ASSUME NEW i \in DOMAIN s, NEW j \in DOMAIN s, 2 < i, i < j, s[i].table = s[j].table
       PROVE  s[i].kind = "drop" /\ s[j].kind = "create"
  <2>1. i \in 3 .. Len(s) /\ j \in 3 .. Len(s)
    BY <1>17, <1>24
  <2>2. PICK a \in 1 .. n :
            /\ s[i].table = g[a]
            /\ \/ s[i].kind = "drop" /\ i = 2 * (a - 1) + 3
               \/ s[i].kind = "create" /\ i = 2 * (a - 1) + 4
    BY <1>15, <2>1
  <2>3. PICK b \in 1 .. n :
            /\ s[j].table = g[b]
            /\ \/ s[j].kind = "drop" /\ j = 2 * (b - 1) + 3
               \/ s[j].kind = "create" /\ j = 2 * (b - 1) + 4
    BY <1>15, <2>1
  <2>4. a = b
    <3>1. g[a] = g[b]
      BY <1>24, <2>2, <2>3
    <3> QED
      BY <1>3, <3>1
  <2> QED
    BY <1>24, <2>2, <2>3, <2>4
<1>27. \A t \in tables : t \in Table
  OBVIOUS
<1>25. ASSUME NEW i \in DOMAIN s
       PROVE  /\ s[i].db = d
              /\ i = 1 => s[i].kind \in Creating
              /\ i = 2 => s[i].kind = "use"
              /\ i > 2 => s[i].kind \in {"drop", "create"} \cup Filling /\ s[i].table \in Table
  <2>1. CASE i = 1
    BY <1>18, <2>1
  <2>2. CASE i = 2
    BY <1>18, <2>2
  <2>3. CASE i \in 3 .. Len(s)
    <3>1. PICK a \in 1 .. n :
             /\ s[i].db = d /\ s[i].table = g[a] /\ g[a] \in tables
             /\ s[i].kind = "drop" \/ s[i].kind = "create"
      BY <1>15, <2>3
    <3>2. ~ (i = 1) /\ ~ (i = 2)
      BY <2>3
    <3> QED
      BY <1>27, <3>1, <3>2
  <2> QED
    BY <1>19, <2>1, <2>2, <2>3
<1>26. Script(s, d)
  BY <1>14, <1>20, <1>24, <1>25 DEF Script
<1> QED
  BY <1>17, <1>21, <1>22, <1>23, <1>26

\* More rows at the end of a script, for tables that it creates.
Fills(more, d, tables) ==
    \A i \in 1 .. Len(more) : /\ more[i].db = d /\ more[i].kind \in Filling
                              /\ more[i].table \in tables /\ more[i].row \in Value
Longer(s, more) == s \o more

LEMMA Extended ==
    ASSUME NEW d \in Database, NEW s, Script(s, d), NEW more \in Seq(Stmts),
           Fills(more, d, Created(s)), NEW e, e = Longer(s, more)
    PROVE  /\ Script(e, d) /\ Created(e) = Created(s) /\ (Whole(s) => Whole(e))
           /\ \A t : Inserted(e, t) = Inserted(s, t) \cup Inserted(more, t)
<1>1. s \in Seq(Stmts) /\ DOMAIN s = 1 .. Len(s) /\ Len(s) \in Nat
  BY DEF Script
<1>2. AfterOther(e, s, more)
  BY <1>1, ConcatIs DEF Longer
<1>3. /\ e \in Seq(Stmts) /\ Len(e) = Len(s) + Len(more) /\ Len(e) \in Nat /\ DOMAIN e = 1 .. Len(e)
      /\ \A i \in 1 .. Len(s) : i \in DOMAIN e /\ e[i] = s[i]
      /\ \A i \in 1 .. Len(more) : Len(s) + i \in DOMAIN e /\ e[Len(s) + i] = more[i]
      /\ \A i \in DOMAIN e : i \in 1 .. Len(s) \/ \E j \in 1 .. Len(more) : i = Len(s) + j
  BY <1>2 DEF AfterOther
<1>4. /\ DOMAIN more = 1 .. Len(more) /\ Len(more) \in Nat
      /\ \A i \in 1 .. Len(more) : /\ more[i].db = d /\ more[i].kind \in Filling
                                    /\ more[i].table \in Created(s) /\ more[i].row \in Value
  BY DEF Fills
<1>5. Filling \cap (Creating \cup {"use", "drop", "create"}) = {}
  BY DEF Filling, Creating
<1>6. ASSUME NEW i \in DOMAIN e, i \notin 1 .. Len(s)
      PROVE  /\ e[i].db = d /\ e[i].kind \in Filling /\ e[i].table \in Created(s) /\ e[i].row \in Value
             /\ i > Len(s)
  <2>1. PICK j \in 1 .. Len(more) : i = Len(s) + j
    BY <1>3, <1>6
  <2>2. e[i] = more[j]
    BY <1>3, <2>1
  <2>3. i > Len(s)
    BY <1>1, <1>4, <2>1
  <2> QED
    BY <1>4, <2>1, <2>2, <2>3
<1>7. Created(e) = Created(s)
  <2>1. ASSUME NEW i \in DOMAIN e, e[i].kind = "create" PROVE i \in DOMAIN s /\ s[i].kind = "create" /\ s[i].table = e[i].table
    <3>1. i \in 1 .. Len(s)
      BY <1>5, <1>6, <2>1
    <3> QED
      BY <1>1, <1>3, <2>1, <3>1
  <2>2. ASSUME NEW i \in DOMAIN s, s[i].kind = "create" PROVE i \in DOMAIN e /\ e[i].kind = "create" /\ s[i].table = e[i].table
    BY <1>1, <1>3, <2>2
  <2> QED
    BY <2>1, <2>2 DEF Created
<1>8. ASSUME NEW t PROVE Inserted(e, t) = Inserted(s, t) \cup Inserted(more, t)
  <2>1. ASSUME NEW i \in DOMAIN e, e[i].kind \in Filling, e[i].table = t
        PROVE  e[i].row \in Inserted(s, t) \cup Inserted(more, t)
    <3>1. CASE i \in 1 .. Len(s)
      <4>1. i \in DOMAIN s /\ s[i] = e[i]
        BY <1>1, <1>3, <3>1
      <4> QED
        BY <2>1, <4>1 DEF Inserted
    <3>2. CASE i \notin 1 .. Len(s)
      <4>1. PICK j \in 1 .. Len(more) : i = Len(s) + j
        BY <1>3, <3>2
      <4>2. j \in DOMAIN more /\ more[j] = e[i]
        BY <1>3, <1>4, <4>1
      <4> QED
        BY <2>1, <4>2 DEF Inserted
    <3> QED
      BY <3>1, <3>2
  <2>2. ASSUME NEW i \in DOMAIN s, s[i].kind \in Filling, s[i].table = t PROVE s[i].row \in Inserted(e, t)
    <3>1. i \in DOMAIN e /\ s[i] = e[i]
      BY <1>1, <1>3
    <3> QED
      BY <2>2, <3>1 DEF Inserted
  <2>3. ASSUME NEW i \in DOMAIN more, more[i].kind \in Filling, more[i].table = t PROVE more[i].row \in Inserted(e, t)
    <3>1. Len(s) + i \in DOMAIN e /\ e[Len(s) + i] = more[i]
      BY <1>3, <1>4
    <3>2. PICK j : j = Len(s) + i
      OBVIOUS
    <3> QED
      BY <2>3, <3>1, <3>2 DEF Inserted
  <2>4. Inserted(e, t) \subseteq Inserted(s, t) \cup Inserted(more, t)
    BY <2>1 DEF Inserted
  <2>5. Inserted(s, t) \subseteq Inserted(e, t)
    BY <2>2 DEF Inserted
  <2>6. Inserted(more, t) \subseteq Inserted(e, t)
    BY <2>3 DEF Inserted
  <2> QED
    BY <2>4, <2>5, <2>6
<1>9. Created(s) \subseteq Table
  <2>1. ASSUME NEW i \in DOMAIN s, s[i].kind = "create" PROVE s[i].table \in Table
    <3>1. ~ (i = 1) /\ ~ (i = 2)
      BY <2>1 DEF Script, Creating
    <3>2. i > 2
      BY <1>1, <3>1
    <3> QED
      BY <3>2 DEF Script
  <2> QED
    BY <2>1 DEF Created
<1>10. Whole(s) => Whole(e)
  <2>1. ASSUME Whole(s), NEW i \in 3 .. Len(e) PROVE e[i].table \in Created(s)
    <3>1. i \in DOMAIN e
      BY <1>3
    <3>2. CASE i \in 1 .. Len(s)
      <4>1. i \in 3 .. Len(s) /\ e[i] = s[i]
        BY <1>1, <1>3, <3>2
      <4> QED
        BY <2>1, <4>1 DEF Whole
    <3> QED
      BY <1>6, <3>1, <3>2
  <2> QED
    BY <1>7, <2>1 DEF Whole
<1>11. Len(more) > 0 => Len(s) > 2
  <2>1. ASSUME Len(more) > 0 PROVE Len(s) > 2
    <3>1. more[1].table \in Created(s)
      BY <1>4, <2>1
    <3>2. PICK i \in DOMAIN s : s[i].kind = "create"
      BY <3>1 DEF Created
    <3>3. ~ (i = 1) /\ ~ (i = 2)
      BY <3>2 DEF Script, Creating
    <3> QED
      BY <1>1, <3>3
  <2> QED
    BY <2>1
<1>12. ASSUME NEW i \in DOMAIN e, i \notin 1 .. Len(s)
       PROVE  i > 2 /\ \E j \in 1 .. i - 1 : e[j].kind = "create" /\ e[j].table = e[i].table
  <2>1. PICK k \in 1 .. Len(more) : i = Len(s) + k
    BY <1>3, <1>12
  <2>2. Len(s) > 2
    BY <1>4, <1>11
  <2>3. e[i].table \in Created(s)
    BY <1>6, <1>12
  <2>4. PICK j \in DOMAIN s : s[j].kind = "create" /\ s[j].table = e[i].table
    BY <2>3 DEF Created
  <2>5. j \in 1 .. i - 1 /\ e[j] = s[j]
    BY <1>1, <1>3, <1>4, <2>1, <2>4
  <2>6. i > 2
    BY <1>1, <1>4, <2>1, <2>2
  <2> QED
    BY <2>4, <2>5, <2>6
<1>13. ASSUME NEW i \in DOMAIN e
       PROVE  /\ e[i].db = d
              /\ i = 1 => e[i].kind \in Creating
              /\ i = 2 => e[i].kind = "use"
              /\ i > 2 => e[i].kind \in {"drop", "create"} \cup Filling /\ e[i].table \in Table
              /\ e[i].kind \in Filling => e[i].row \in Value
                    /\ \E j \in 1 .. i - 1 : e[j].kind = "create" /\ e[j].table = e[i].table
  <2>1. CASE i \in 1 .. Len(s)
    <3>1. i \in DOMAIN s /\ s[i] = e[i]
      BY <1>1, <1>3, <2>1
    <3>2. /\ s[i].db = d
          /\ i = 1 => s[i].kind \in Creating
          /\ i = 2 => s[i].kind = "use"
          /\ i > 2 => s[i].kind \in {"drop", "create"} \cup Filling /\ s[i].table \in Table
          /\ s[i].kind \in Filling => s[i].row \in Value
      BY <3>1 DEF Script
    <3>3. ASSUME s[i].kind \in Filling PROVE \E j \in 1 .. i - 1 : e[j].kind = "create" /\ e[j].table = e[i].table
      <4>1. PICK j \in 1 .. i - 1 : s[j].kind = "create" /\ s[j].table = s[i].table
        BY <3>1, <3>3 DEF Script
      <4>2. j \in 1 .. Len(s)
        BY <1>1, <2>1
      <4>3. e[j] = s[j]
        BY <1>3, <4>2
      <4> QED
        BY <3>1, <4>1, <4>3
    <3> QED
      BY <3>1, <3>2, <3>3
  <2>2. CASE i \notin 1 .. Len(s)
    <3>1. i > 2 /\ ~ (i = 1) /\ ~ (i = 2)
      BY <1>12, <2>2
    <3>2. /\ e[i].db = d /\ e[i].kind \in Filling /\ e[i].table \in Table /\ e[i].row \in Value
          /\ \E j \in 1 .. i - 1 : e[j].kind = "create" /\ e[j].table = e[i].table
      BY <1>6, <1>9, <1>12, <2>2
    <3> QED
      BY <3>1, <3>2
  <2> QED
    BY <2>1, <2>2
<1>14. ASSUME NEW i \in DOMAIN e, NEW j \in DOMAIN e, 2 < i, i < j, e[i].table = e[j].table
       PROVE  e[j].kind \in Filling \/ (e[i].kind = "drop" /\ e[j].kind = "create")
  <2>1. CASE j \in 1 .. Len(s)
    <3>1. i \in DOMAIN s /\ j \in DOMAIN s
      BY <1>1, <1>3, <1>14, <2>1
    <3>2. e[i] = s[i] /\ e[j] = s[j]
      BY <1>1, <1>3, <3>1
    <3> QED
      BY <1>14, <3>1, <3>2 DEF Script
  <2>2. CASE j \notin 1 .. Len(s)
    BY <1>6, <2>2
  <2> QED
    BY <2>1, <2>2
<1>15. Script(e, d)
  <2>1. \A i \in DOMAIN e :
           /\ e[i].db = d
           /\ i = 1 => e[i].kind \in Creating
           /\ i = 2 => e[i].kind = "use"
           /\ i > 2 => e[i].kind \in {"drop", "create"} \cup Filling /\ e[i].table \in Table
           /\ e[i].kind \in Filling => e[i].row \in Value
                 /\ \E j \in 1 .. i - 1 : e[j].kind = "create" /\ e[j].table = e[i].table
    BY <1>13
  <2>2. \A i, j \in DOMAIN e : 2 < i /\ i < j /\ e[i].table = e[j].table =>
           e[j].kind \in Filling \/ (e[i].kind = "drop" /\ e[j].kind = "create")
    BY <1>14
  <2> QED
    BY <1>3, <2>1, <2>2 DEF Script
<1> QED
  BY <1>7, <1>8, <1>10, <1>15

\* A script that was cut off is one.
Beginning(s, n) == SubSeq(s, 1, n)

LEMMA Prefix ==
    ASSUME NEW d \in Database, NEW s, Script(s, d), NEW n \in 0 .. Len(s), NEW e, e = Beginning(s, n)
    PROVE  Script(e, d) /\ Len(e) = n /\ (n = Len(s) => e = s)
<1>1. s \in Seq(Stmts) /\ DOMAIN s = 1 .. Len(s) /\ Len(s) \in Nat
  BY DEF Script
<1>2. /\ e \in Seq(Stmts) /\ Len(e) = n /\ DOMAIN e = 1 .. n /\ n \in Nat /\ n <= Len(s)
      /\ \A i \in 1 .. n : e[i] = s[i]
  BY <1>1 DEF Beginning
<1>3. n = Len(s) => e = s
  BY <1>1, <1>2
<1>4. ASSUME NEW i \in DOMAIN e
      PROVE  /\ e[i].db = d
             /\ i = 1 => e[i].kind \in Creating
             /\ i = 2 => e[i].kind = "use"
             /\ i > 2 => e[i].kind \in {"drop", "create"} \cup Filling /\ e[i].table \in Table
             /\ e[i].kind \in Filling => e[i].row \in Value
                   /\ \E j \in 1 .. i - 1 : e[j].kind = "create" /\ e[j].table = e[i].table
  <2>1. i \in DOMAIN s /\ e[i] = s[i] /\ i \in 1 .. n
    BY <1>1, <1>2
  <2>2. /\ s[i].db = d
        /\ i = 1 => s[i].kind \in Creating
        /\ i = 2 => s[i].kind = "use"
        /\ i > 2 => s[i].kind \in {"drop", "create"} \cup Filling /\ s[i].table \in Table
        /\ s[i].kind \in Filling => s[i].row \in Value
    BY <2>1 DEF Script
  <2>3. ASSUME s[i].kind \in Filling PROVE \E j \in 1 .. i - 1 : e[j].kind = "create" /\ e[j].table = e[i].table
    <3>1. PICK j \in 1 .. i - 1 : s[j].kind = "create" /\ s[j].table = s[i].table
      BY <2>1, <2>3 DEF Script
    <3>2. j \in 1 .. n
      BY <1>2, <2>1
    <3>3. e[j] = s[j]
      BY <1>2, <3>2
    <3> QED
      BY <2>1, <3>1, <3>3
  <2> QED
    BY <2>1, <2>2, <2>3
<1>5. ASSUME NEW i \in DOMAIN e, NEW j \in DOMAIN e, 2 < i, i < j, e[i].table = e[j].table
      PROVE  e[j].kind \in Filling \/ (e[i].kind = "drop" /\ e[j].kind = "create")
  <2>1. i \in DOMAIN s /\ e[i] = s[i] /\ j \in DOMAIN s /\ e[j] = s[j]
    BY <1>1, <1>2
  <2> QED
    BY <1>5, <2>1 DEF Script
<1>6. Script(e, d)
  <2>1. \A i \in DOMAIN e :
           /\ e[i].db = d
           /\ i = 1 => e[i].kind \in Creating
           /\ i = 2 => e[i].kind = "use"
           /\ i > 2 => e[i].kind \in {"drop", "create"} \cup Filling /\ e[i].table \in Table
           /\ e[i].kind \in Filling => e[i].row \in Value
                 /\ \E j \in 1 .. i - 1 : e[j].kind = "create" /\ e[j].table = e[i].table
    BY <1>4
  <2>2. \A i, j \in DOMAIN e : 2 < i /\ i < j /\ e[i].table = e[j].table =>
           e[j].kind \in Filling \/ (e[i].kind = "drop" /\ e[j].kind = "create")
    BY <1>5
  <2> QED
    BY <1>2, <2>1, <2>2 DEF Script
<1> QED
  BY <1>2, <1>3, <1>6

\* The second attempt's form of a script brings the same.
LEMMA Formatted ==
    ASSUME NEW d \in Database, NEW s, Script(s, d), NEW e, e = FormatNCPDatabaseCreateSQL(s)
    PROVE  /\ Script(e, d) /\ Len(e) = Len(s)
           /\ \A i \in DOMAIN s : e[i].db = s[i].db /\ e[i].table = s[i].table
           /\ Created(e) = Created(s) /\ \A t : Inserted(e, t) = Inserted(s, t)
<1>1. s \in Seq(Stmts) /\ DOMAIN s = 1 .. Len(s) /\ Len(s) \in Nat
  BY DEF Script
<1>2. \A i \in DOMAIN s : s[i] \in Stmts
  BY <1>1
<1>3. e = [i \in DOMAIN s |-> IF ncp /\ s[i].kind = "create database"
                              THEN [s[i] EXCEPT !.kind = "ncp_create_db"] ELSE s[i]]
  BY DEF FormatNCPDatabaseCreateSQL
<1>4. ASSUME NEW i \in DOMAIN s
      PROVE  /\ e[i] \in Stmts /\ e[i].db = s[i].db /\ e[i].table = s[i].table /\ e[i].row = s[i].row
             /\ e[i].kind = s[i].kind \/ (e[i].kind \in Creating /\ s[i].kind \in Creating)
  BY <1>2, <1>3 DEF Stmts, Creating
<1>5. DOMAIN e = DOMAIN s /\ e \in [1 .. Len(s) -> Stmts]
  BY <1>1, <1>3, <1>4
<1>6. e \in Seq(Stmts) /\ Len(e) = Len(s)
  BY <1>1, <1>5
<1>7. Filling \cap Creating = {} /\ "create" \notin Creating /\ "use" \notin Creating /\ "drop" \notin Creating
  BY DEF Filling, Creating
<1>8. \A i \in DOMAIN s : /\ e[i].kind \in Creating <=> s[i].kind \in Creating
                          /\ e[i].kind \in Filling <=> s[i].kind \in Filling
                          /\ e[i].kind = "create" <=> s[i].kind = "create"
                          /\ e[i].kind = "use" <=> s[i].kind = "use"
                          /\ e[i].kind = "drop" <=> s[i].kind = "drop"
  BY <1>4, <1>7
<1>9. Created(e) = Created(s) /\ \A t : Inserted(e, t) = Inserted(s, t)
  <2>1. \A i \in DOMAIN s : e[i].table = s[i].table /\ e[i].row = s[i].row
    BY <1>4
  <2>2. Created(e) = Created(s)
    BY <1>5, <1>8, <2>1 DEF Created
  <2>3. ASSUME NEW t PROVE Inserted(e, t) = Inserted(s, t)
    BY <1>5, <1>8, <2>1 DEF Inserted
  <2> QED
    BY <2>2, <2>3
<1>10. ASSUME NEW i \in DOMAIN e
      PROVE  /\ e[i].db = d
             /\ i = 1 => e[i].kind \in Creating
             /\ i = 2 => e[i].kind = "use"
             /\ i > 2 => e[i].kind \in {"drop", "create"} \cup Filling /\ e[i].table \in Table
             /\ e[i].kind \in Filling => e[i].row \in Value
                   /\ \E j \in 1 .. i - 1 : e[j].kind = "create" /\ e[j].table = e[i].table
  <2>1. i \in DOMAIN s
    BY <1>5
  <2>2. /\ s[i].db = d
        /\ i = 1 => s[i].kind \in Creating
        /\ i = 2 => s[i].kind = "use"
        /\ i > 2 => s[i].kind \in {"drop", "create"} \cup Filling /\ s[i].table \in Table
        /\ s[i].kind \in Filling => s[i].row \in Value
    BY <2>1 DEF Script
  <2>3. ASSUME s[i].kind \in Filling PROVE \E j \in 1 .. i - 1 : e[j].kind = "create" /\ e[j].table = e[i].table
    <3>1. PICK j \in 1 .. i - 1 : s[j].kind = "create" /\ s[j].table = s[i].table
      BY <2>1, <2>3 DEF Script
    <3>2. j \in DOMAIN s
      BY <1>1, <2>1
    <3> QED
      BY <1>4, <1>8, <2>1, <3>1, <3>2
  <2> QED
    BY <1>4, <1>8, <2>1, <2>2, <2>3
<1>11. ASSUME NEW i \in DOMAIN e, NEW j \in DOMAIN e, 2 < i, i < j, e[i].table = e[j].table
      PROVE  e[j].kind \in Filling \/ (e[i].kind = "drop" /\ e[j].kind = "create")
  <2>1. i \in DOMAIN s /\ j \in DOMAIN s
    BY <1>5
  <2>2. s[i].table = s[j].table
    BY <1>4, <1>11, <2>1
  <2>3. s[j].kind \in Filling \/ (s[i].kind = "drop" /\ s[j].kind = "create")
    BY <1>11, <2>1, <2>2 DEF Script
  <2> QED
    BY <1>8, <2>1, <2>3
<1>12. Script(e, d)
  <2>1. \A i \in DOMAIN e :
           /\ e[i].db = d
           /\ i = 1 => e[i].kind \in Creating
           /\ i = 2 => e[i].kind = "use"
           /\ i > 2 => e[i].kind \in {"drop", "create"} \cup Filling /\ e[i].table \in Table
           /\ e[i].kind \in Filling => e[i].row \in Value
                 /\ \E j \in 1 .. i - 1 : e[j].kind = "create" /\ e[j].table = e[i].table
    BY <1>10
  <2>2. \A i, j \in DOMAIN e : 2 < i /\ i < j /\ e[i].table = e[j].table =>
           e[j].kind \in Filling \/ (e[i].kind = "drop" /\ e[j].kind = "create")
    BY <1>11
  <2> QED
    BY <1>6, <2>1, <2>2 DEF Script
<1> QED
  BY <1>4, <1>6, <1>9, <1>12

\* A file of an earlier backup is a script that creates every table it names.
LEMMA SavedIs ==
    ASSUME NEW d \in Database, NEW tables \in SUBSET Table, NEW e, e = Saved(d, InOrder(tables))
    PROVE  Script(e, d) /\ Whole(e)
<1>1. IsFiniteSet(tables)
  BY TableAssumption, FS_Subset
<1>2. PICK n, g : n = Cardinality(tables) /\ g = SetToSeq(tables)
  OBVIOUS
<1>3. n \in Nat /\ g \in [1 .. n -> tables]
  BY <1>1, <1>2, Ordered
<1>4. PICK parts : parts = [i \in 1 .. n |-> Inserts("insert", d, g[i], Row)]
  OBVIOUS
<1>5. PICK k : k = Cardinality(Row)
  OBVIOUS
<1>6. PICK s : s = Head1(d, "create database") \o Frame(d, InOrder(tables))
  OBVIOUS
<1>7. PICK J : J = Joined(parts, k)
  OBVIOUS
<1>8. e = s \o J
  BY <1>2, <1>3, <1>4, <1>5, <1>6, <1>7 DEF Saved, InOrder
<1>9. Script(s, d) /\ Whole(s) /\ Created(s) = tables
  <2>1. PICK form \in Creating : form = "create database"
    BY DEF Creating
  <2>2. s = Blank(d, form, tables)
    BY <1>6, <2>1 DEF Blank
  <2> QED
    BY <2>2, Begun
<1>10. ASSUME NEW i \in 1 .. n
       PROVE  /\ parts[i] \in Seq(Stmts) /\ Len(parts[i]) = k /\ k \in Nat
              /\ \A b \in 1 .. k : /\ parts[i][b].db = d /\ parts[i][b].kind \in Filling
                                   /\ parts[i][b].table \in tables /\ parts[i][b].row \in Value
  <2>1. g[i] \in tables /\ g[i] \in Table /\ parts[i] = Inserts("insert", d, g[i], Row)
    BY <1>3, <1>4
  <2>2. "insert" \in Filling /\ Row \in SUBSET Row
    BY DEF Filling
  <2>3. /\ Inserts("insert", d, g[i], Row) \in Seq(Stmts)
        /\ Len(Inserts("insert", d, g[i], Row)) = Cardinality(Row) /\ Cardinality(Row) \in Nat
        /\ \A b \in 1 .. Cardinality(Row) :
              \E v \in Read(Row) : Inserts("insert", d, g[i], Row)[b] = Stmt("insert", d, g[i], v)
        /\ Read(Row) \subseteq Value
    BY <2>1, <2>2, InsertsIs
  <2>4. ASSUME NEW b \in 1 .. k
        PROVE  /\ parts[i][b].db = d /\ parts[i][b].kind \in Filling
               /\ parts[i][b].table \in tables /\ parts[i][b].row \in Value
    <3>1. PICK v \in Value : parts[i][b] = Stmt("insert", d, g[i], v)
      BY <1>5, <2>1, <2>3
    <3> QED
      BY <2>1, <2>2, <3>1 DEF Stmt
  <2> QED
    BY <1>5, <2>1, <2>3, <2>4
<1>11. /\ J \in Seq(Stmts)
       /\ \A i \in 1 .. Len(J) : /\ J[i].db = d /\ J[i].kind \in Filling
                                 /\ J[i].table \in tables /\ J[i].row \in Value
  <2>1. CASE n = 0 \/ k = 0
    <3>1. parts \in Seq(Seq(Stmts)) /\ Len(parts) = n
      BY <1>3, <1>4, <1>10
    <3>2. k * n = 0
      <4>1. Cardinality(Row) \in Nat
        BY RowAssumption, FS_CardinalityType
      <4> QED
        BY <1>3, <1>5, <2>1, <4>1
    <3>3. J = <<>>
      BY <1>7, <3>1, <3>2 DEF Joined
    <3> QED
      BY <3>3
  <2>2. CASE n # 0 /\ k # 0
    <3>1. k \in Nat
      <4>1. 1 \in 1 .. n
        BY <1>3, <2>2
      <4> QED
        BY <1>10, <4>1
    <3>2. parts \in [1 .. n -> Seq(Stmts)] /\ \A a \in 1 .. n : Len(parts[a]) = k
      BY <1>4, <1>10
    <3>3. PICK m : m = k * n
      OBVIOUS
    <3>4. k \in Nat \ {0}
      BY <2>2, <3>1
    <3>5. JoinOf(J, parts, n, k, m)
      BY <1>3, <1>7, <3>2, <3>3, <3>4, JoinedIs
    <3>6. ASSUME NEW i \in 1 .. Len(J)
          PROVE  J[i].db = d /\ J[i].kind \in Filling /\ J[i].table \in tables /\ J[i].row \in Value
      <4>1. PICK a \in 1 .. n, b \in 1 .. k : J[i] = parts[a][b]
        BY <3>5 DEF JoinOf
      <4> QED
        BY <1>10, <4>1
    <3> QED
      BY <3>5, <3>6 DEF JoinOf
  <2> QED
    BY <2>1, <2>2
<1>12. e = Longer(s, J) /\ Fills(J, d, Created(s))
  BY <1>8, <1>9, <1>11 DEF Longer, Fills
<1> QED
  BY <1>9, <1>11, <1>12, Extended

\* A file of the dummy data creates every table and fills it with every row.
LEMMA Generated ==
    ASSUME NEW d \in Database, NEW s, s = createSql(d)
    PROVE  /\ Script(s, d) /\ Whole(s) /\ Created(s) = Table
           /\ \A t \in Table : Inserted(s, t) = Value
<1>1. PICK n, g, c, k : n = Cardinality(Table) /\ g = SetToSeq(Table) /\ c = Cardinality(Row) /\ k = c + 2
  OBVIOUS
<1>2. /\ n \in Nat /\ g \in [1 .. n -> Table]
      /\ \A i, j \in 1 .. n : g[i] = g[j] => i = j
      /\ \A x \in Table : \E i \in 1 .. n : g[i] = x
  BY <1>1, TableAssumption, Ordered
<1>3. c \in Nat /\ k \in Nat \ {0}
  BY <1>1, RowAssumption, FS_CardinalityType
<1>4. PICK parts : parts = [i \in 1 .. n |-> DropCreate(d, g[i]) \o Inserts("append", d, g[i], Row)]
  OBVIOUS
<1>5. ASSUME NEW a \in 1 .. n
      PROVE  /\ parts[a] \in Seq(Stmts) /\ Len(parts[a]) = k
             /\ parts[a][1] = Stmt("drop", d, g[a], None)
             /\ parts[a][2] = Stmt("create", d, g[a], None)
             /\ \A b \in 3 .. k : \E v \in Value : parts[a][b] = Stmt("append", d, g[a], v)
             /\ \A v \in Value : \E b \in 3 .. k : parts[a][b] = Stmt("append", d, g[a], v)
  <2>1. PICK t, D, I, P : /\ t = g[a] /\ D = DropCreate(d, t) /\ I = Inserts("append", d, t, Row)
                          /\ P = parts[a]
    OBVIOUS
  <2>2. t \in Table
    BY <1>2, <2>1
  <2>3. /\ D \in Seq(Stmts) /\ Len(D) = 2
        /\ D[1] = Stmt("drop", d, t, None) /\ D[2] = Stmt("create", d, t, None)
    BY <2>1, <2>2, DropCreateIs
  <2>4. "append" \in Filling /\ Row \in SUBSET Row
    BY DEF Filling
  <2>5. /\ I \in Seq(Stmts) /\ Len(I) = c
        /\ \A i \in 1 .. c : \E v \in Read(Row) : I[i] = Stmt("append", d, t, v)
        /\ \A v \in Read(Row) : \E i \in 1 .. c : I[i] = Stmt("append", d, t, v)
    <3>1. /\ Inserts("append", d, t, Row) \in Seq(Stmts)
          /\ Len(Inserts("append", d, t, Row)) = Cardinality(Row)
          /\ \A i \in 1 .. Cardinality(Row) :
                \E v \in Read(Row) : Inserts("append", d, t, Row)[i] = Stmt("append", d, t, v)
          /\ \A v \in Read(Row) :
                \E i \in 1 .. Cardinality(Row) : Inserts("append", d, t, Row)[i] = Stmt("append", d, t, v)
      BY <2>2, <2>4, InsertsIs, Zenon
    <3>2. I = Inserts("append", d, t, Row) /\ c = Cardinality(Row)
      BY <1>1, <2>1
    <3> QED
      BY <3>1, <3>2, Zenon
  <2>6. Read(Row) = Value
    BY DEF Read, Value
  <2>7. AfterOther(P, D, I)
    <3>1. P = D \o I
      BY <1>4, <2>1
    <3> QED
      BY <2>3, <2>5, <3>1, ConcatIs
  <2>8. /\ P \in Seq(Stmts) /\ Len(P) = 2 + c /\ DOMAIN P = 1 .. Len(P)
        /\ \A i \in 1 .. 2 : P[i] = D[i]
        /\ \A i \in 1 .. c : P[2 + i] = I[i]
        /\ \A i \in DOMAIN P : i \in 1 .. 2 \/ \E j \in 1 .. c : i = 2 + j
    BY <2>3, <2>5, <2>7 DEF AfterOther
  <2>9. 1 \in 1 .. 2 /\ 2 \in 1 .. 2 /\ Len(P) = k
    BY <1>1, <1>3, <2>8
  <2>10. \A b \in 3 .. k : b \in DOMAIN P /\ b \notin 1 .. 2
    BY <1>3, <2>8, <2>9
  <2>11. ASSUME NEW b \in 3 .. k PROVE \E v \in Value : P[b] = Stmt("append", d, t, v)
    <3>1. PICK j \in 1 .. c : b = 2 + j
      BY <2>8, <2>10
    <3>2. P[b] = I[j]
      BY <2>8, <3>1
    <3> QED
      BY <2>5, <2>6, <3>2
  <2>12. ASSUME NEW v \in Value PROVE \E b \in 3 .. k : P[b] = Stmt("append", d, t, v)
    <3>1. PICK i \in 1 .. c : I[i] = Stmt("append", d, t, v)
      BY <2>5, <2>6
    <3>2. P[2 + i] = Stmt("append", d, t, v)
      BY <2>8, <3>1
    <3>3. 2 + i \in 3 .. k
      BY <1>1, <1>3
    <3> QED
      BY <3>2, <3>3
  <2> QED
    BY <2>1, <2>3, <2>8, <2>9, <2>11, <2>12
<1>6. PICK J, m, H : J = Joined(parts, k) /\ m = k * n /\ H = Head1(d, "create database")
  OBVIOUS
<1>7. JoinOf(J, parts, n, k, m)
  <2>1. parts \in [1 .. n -> Seq(Stmts)] /\ \A a \in 1 .. n : Len(parts[a]) = k
    BY <1>4, <1>5
  <2> QED
    BY <1>2, <1>3, <1>6, <2>1, JoinedIs
<1>8. s = H \o J
  BY <1>1, <1>4, <1>6 DEF createSql, InOrder
<1>9. /\ H \in Seq(Stmts) /\ Len(H) = 2
      /\ H[1] = Stmt("create database", d, None, None) /\ H[2] = Stmt("use", d, None, None)
  BY <1>6, HeadIs DEF Creating
<1>10. /\ s \in Seq(Stmts) /\ Len(s) = 2 + m /\ s[1] = H[1] /\ s[2] = H[2]
       /\ m \in Nat /\ DOMAIN s = 1 .. Len(s)
       /\ \A i \in 3 .. Len(s) : \E j \in 1 .. m : s[i] = J[j] /\ i = 2 + j
       /\ \A i \in 1 .. m : s[2 + i] = J[i] /\ 2 + i \in 3 .. Len(s)
  <2>1. m \in Nat /\ J \in Seq(Stmts) /\ Len(J) = m
    BY <1>7 DEF JoinOf
  <2>2. AfterOther(s, H, J)
    BY <1>8, <1>9, <2>1, ConcatIs
  <2>3. /\ s \in Seq(Stmts) /\ Len(s) = 2 + m /\ DOMAIN s = 1 .. Len(s)
        /\ \A i \in 1 .. 2 : s[i] = H[i]
        /\ \A i \in 1 .. m : s[2 + i] = J[i]
        /\ \A i \in DOMAIN s : i \in 1 .. 2 \/ \E j \in 1 .. m : i = 2 + j
    <3>1. Len(H) = 2 /\ Len(J) = m
      BY <1>9, <2>1
    <3>2. /\ s \in Seq(Stmts) /\ Len(s) = Len(H) + Len(J) /\ DOMAIN s = 1 .. Len(s)
          /\ \A i \in 1 .. Len(H) : s[i] = H[i]
          /\ \A i \in 1 .. Len(J) : s[Len(H) + i] = J[i]
          /\ \A i \in DOMAIN s : i \in 1 .. Len(H) \/ \E j \in 1 .. Len(J) : i = Len(H) + j
      BY <2>2, Zenon DEF AfterOther
    <3> QED
      BY <3>1, <3>2
  <2>4. 1 \in 1 .. 2 /\ 2 \in 1 .. 2
    OBVIOUS
  <2>5. \A i \in 1 .. m : 2 + i \in 3 .. Len(s)
    BY <2>1, <2>3
  <2>6. \A i \in 3 .. Len(s) : i \in DOMAIN s /\ i \notin 1 .. 2
    BY <2>1, <2>3
  <2>7. ASSUME NEW i \in 3 .. Len(s) PROVE \E j \in 1 .. m : s[i] = J[j] /\ i = 2 + j
    <3>1. PICK j \in 1 .. m : i = 2 + j
      BY <2>3, <2>6
    <3>2. s[i] = J[j]
      BY <2>3, <3>1
    <3> QED
      BY <3>1, <3>2
  <2> QED
    BY <2>1, <2>3, <2>4, <2>5, <2>7
<1>11. ASSUME NEW i \in 3 .. Len(s)
       PROVE  \E a \in 1 .. n, b \in 1 .. k : i = 2 + Place(k, a, b) /\ s[i] = parts[a][b]
  <2>1. PICK j \in 1 .. m : s[i] = J[j] /\ i = 2 + j
    BY <1>10
  <2>2. PICK a \in 1 .. n, b \in 1 .. k : j = Place(k, a, b) /\ J[j] = parts[a][b]
    BY <1>7 DEF JoinOf
  <2> QED
    BY <2>1, <2>2
<1>12. ASSUME NEW a \in 1 .. n, NEW b \in 1 .. k
       PROVE  2 + Place(k, a, b) \in 3 .. Len(s) /\ s[2 + Place(k, a, b)] = parts[a][b]
  <2>1. PICK j \in 1 .. m : j = Place(k, a, b) /\ J[j] = parts[a][b]
    BY <1>7 DEF JoinOf
  <2>2. 2 + j \in 3 .. Len(s) /\ s[2 + j] = J[j]
    BY <1>10
  <2> QED
    BY <2>1, <2>2
<1>13. ASSUME NEW a \in 1 .. n, NEW b \in 1 .. k
       PROVE  /\ parts[a][b].db = d /\ parts[a][b].table = g[a]
              /\ \/ b = 1 /\ parts[a][b].kind = "drop"
                 \/ b = 2 /\ parts[a][b].kind = "create"
                 \/ b \in 3 .. k /\ parts[a][b].kind \in Filling /\ parts[a][b].row \in Value
  <2>1. b = 1 \/ b = 2 \/ b \in 3 .. k
    BY <1>3
  <2>2. CASE b = 1
    <3>1. parts[a][b] = Stmt("drop", d, g[a], None)
      BY <1>5, <2>2
    <3> QED
      BY <2>2, <3>1, Fields
  <2>3. CASE b = 2
    <3>1. parts[a][b] = Stmt("create", d, g[a], None)
      BY <1>5, <2>3
    <3> QED
      BY <2>3, <3>1, Fields
  <2>4. CASE b \in 3 .. k
    <3>1. PICK v \in Value : parts[a][b] = Stmt("append", d, g[a], v)
      BY <1>5, <2>4
    <3> QED
      BY <2>4, <3>1 DEF Stmt, Filling
  <2> QED
    BY <2>1, <2>2, <2>3, <2>4
<1>14. /\ s[1].kind = "create database" /\ s[1].db = d /\ s[2].kind = "use" /\ s[2].db = d
  <2>1. s[1] = Stmt("create database", d, None, None) /\ s[2] = Stmt("use", d, None, None)
    BY <1>9, <1>10
  <2>2. s[1].kind = "create database" /\ s[1].db = d
    <3>1. PICK form : form = "create database"
      OBVIOUS
    <3>2. s[1] = Stmt(form, d, None, None)
      BY <2>1, <3>1
    <3>3. s[1].kind = form /\ s[1].db = d
      BY <3>2, Fields
    <3> QED
      BY <3>1, <3>3
  <2>3. s[2].kind = "use" /\ s[2].db = d
    <3>1. Stmt("use", d, None, None).kind = "use" /\ Stmt("use", d, None, None).db = d
      BY Fields
    <3> QED
      BY <2>1, <3>1
  <2> QED
    BY <2>2, <2>3
<1>15. \A i \in DOMAIN s : i = 1 \/ i = 2 \/ i \in 3 .. Len(s)
  BY <1>10
<1>16. \A i \in 3 .. Len(s) : i \in DOMAIN s
  BY <1>10
<1>17. 1 \in 1 .. k /\ 2 \in 1 .. k
  BY <1>1, <1>3
<1>18. Created(s) = Table
  <2>1. ASSUME NEW i \in DOMAIN s, s[i].kind = "create" PROVE s[i].table \in Table
    <3>1. i \in 3 .. Len(s)
      BY <1>14, <1>15, <2>1
    <3>2. PICK a \in 1 .. n, b \in 1 .. k : s[i] = parts[a][b]
      BY <1>11, <3>1
    <3> QED
      BY <1>2, <1>13, <3>2
  <2>2. ASSUME NEW t \in Table PROVE \E i \in DOMAIN s : s[i].kind = "create" /\ s[i].table = t
    <3>1. PICK a \in 1 .. n : g[a] = t
      BY <1>2
    <3>2. s[2 + Place(k, a, 2)] = parts[a][2] /\ 2 + Place(k, a, 2) \in DOMAIN s
      BY <1>12, <1>16, <1>17
    <3>3. parts[a][2].kind = "create" /\ parts[a][2].table = t
      <4>1. parts[a][2] = Stmt("create", d, t, None)
        BY <1>5, <3>1
      <4> QED
        BY <4>1, Fields
    <3> QED
      BY <3>2, <3>3
  <2> QED
    BY <2>1, <2>2 DEF Created
<1>19. Whole(s)
  <2>1. ASSUME NEW i \in 3 .. Len(s) PROVE s[i].table \in Table
    <3>1. PICK a \in 1 .. n, b \in 1 .. k : s[i] = parts[a][b]
      BY <1>11
    <3> QED
      BY <1>2, <1>13, <3>1
  <2> QED
    BY <1>18, <2>1 DEF Whole
<1>20. ASSUME NEW t \in Table PROVE Inserted(s, t) = Value
  <2>1. ASSUME NEW i \in DOMAIN s, s[i].kind \in Filling PROVE s[i].row \in Value
    <3>1. i \in 3 .. Len(s)
      BY <1>14, <1>15, <2>1 DEF Filling
    <3>2. PICK a \in 1 .. n, b \in 1 .. k : s[i] = parts[a][b]
      BY <1>11, <3>1
    <3> QED
      BY <1>13, <2>1, <3>2 DEF Filling
  <2>2. ASSUME NEW v \in Value PROVE \E i \in DOMAIN s : s[i].kind \in Filling /\ s[i].table = t /\ s[i].row = v
    <3>1. PICK a \in 1 .. n : g[a] = t
      BY <1>2
    <3>2. PICK b \in 3 .. k : parts[a][b] = Stmt("append", d, t, v)
      BY <1>5, <3>1
    <3>3. b \in 1 .. k
      BY <1>3
    <3>4. s[2 + Place(k, a, b)] = parts[a][b] /\ 2 + Place(k, a, b) \in DOMAIN s
      BY <1>12, <1>16, <3>3
    <3>5. parts[a][b].kind \in Filling /\ parts[a][b].table = t /\ parts[a][b].row = v
      BY <3>2 DEF Stmt, Filling
    <3> QED
      BY <3>4, <3>5
  <2> QED
    BY <2>1, <2>2 DEF Inserted
<1>21. ASSUME NEW i \in DOMAIN s
       PROVE  /\ s[i].db = d
              /\ i = 1 => s[i].kind \in Creating
              /\ i = 2 => s[i].kind = "use"
              /\ i > 2 => s[i].kind \in {"drop", "create"} \cup Filling /\ s[i].table \in Table
              /\ s[i].kind \in Filling => s[i].row \in Value
                    /\ \E j \in 1 .. i - 1 : s[j].kind = "create" /\ s[j].table = s[i].table
  <2>1. CASE i = 1
    <3>1. s[i].kind \in Creating /\ s[i].kind \notin Filling /\ s[i].db = d
      BY <1>14, <2>1 DEF Creating, Filling
    <3>2. ~ (i = 2) /\ ~ (i > 2)
      BY <2>1
    <3> QED
      BY <3>1, <3>2
  <2>2. CASE i = 2
    <3>1. s[i].kind = "use" /\ s[i].kind \notin Filling /\ s[i].db = d
      BY <1>14, <2>2 DEF Creating, Filling
    <3>2. ~ (i = 1) /\ ~ (i > 2)
      BY <2>2
    <3> QED
      BY <3>1, <3>2
  <2>3. CASE i \in 3 .. Len(s)
    <3>1. PICK a \in 1 .. n, b \in 1 .. k : i = 2 + Place(k, a, b) /\ s[i] = parts[a][b]
      BY <1>11, <2>3
    <3>2. s[i].db = d /\ s[i].kind \in {"drop", "create"} \cup Filling /\ s[i].table = g[a] /\ g[a] \in Table
      BY <1>2, <1>13, <3>1
    <3>3. ASSUME s[i].kind \in Filling
          PROVE  s[i].row \in Value /\ \E j \in 1 .. i - 1 : s[j].kind = "create" /\ s[j].table = s[i].table
      <4>1. b \in 3 .. k /\ s[i].row \in Value
        BY <1>13, <3>1, <3>3 DEF Filling
      <4>2. PICK j : j = 2 + Place(k, a, 2)
        OBVIOUS
      <4>3. j \in 3 .. Len(s) /\ s[j] = parts[a][2]
        BY <1>12, <1>17, <4>2
      <4>4. j < i
        <5>1. PICK q : q = k * (a - 1)
          OBVIOUS
        <5>2. q \in Int /\ j = 2 + q + 2 /\ i = 2 + q + b
          BY <1>3, <3>1, <4>2, <5>1 DEF Place
        <5> QED
          BY <4>1, <5>2
      <4>5. j \in 1 .. i - 1
        BY <4>3, <4>4
      <4>6. parts[a][2].kind = "create" /\ parts[a][2].table = g[a]
        <5>1. parts[a][2] = Stmt("create", d, g[a], None)
          BY <1>5
        <5> QED
          BY <5>1, Fields
      <4> QED
        BY <3>2, <4>1, <4>3, <4>5, <4>6
    <3>4. ~ (i = 1) /\ ~ (i = 2)
      BY <2>3
    <3> QED
      BY <3>2, <3>3, <3>4
  <2> QED
    BY <1>15, <2>1, <2>2, <2>3
<1>22. ASSUME NEW i \in DOMAIN s, NEW j \in DOMAIN s, 2 < i, i < j, s[i].table = s[j].table
       PROVE  s[j].kind \in Filling \/ (s[i].kind = "drop" /\ s[j].kind = "create")
  <2>1. i \in 3 .. Len(s) /\ j \in 3 .. Len(s)
    BY <1>10, <1>22
  <2>2. PICK a \in 1 .. n, b \in 1 .. k : i = 2 + Place(k, a, b) /\ s[i] = parts[a][b]
    BY <1>11, <2>1
  <2>3. PICK u \in 1 .. n, v \in 1 .. k : j = 2 + Place(k, u, v) /\ s[j] = parts[u][v]
    BY <1>11, <2>1
  <2>4. g[a] = g[u]
    BY <1>13, <1>22, <2>2, <2>3
  <2>5. a = u
    BY <1>2, <2>4
  <2>6. b < v
    <3>1. PICK q : q = k * (a - 1)
      OBVIOUS
    <3>2. q \in Int /\ i = 2 + q + b /\ j = 2 + q + v
      BY <1>3, <2>2, <2>3, <2>5, <3>1 DEF Place
    <3> QED
      BY <1>22, <3>2
  <2>7. CASE v = 1
    BY <2>6, <2>7
  <2>8. CASE v = 2
    <3>1. b = 1
      BY <2>6, <2>8
    <3> QED
      BY <1>13, <2>2, <2>3, <2>8, <3>1
  <2>9. CASE v \in 3 .. k
    <3>1. parts[u][v].kind \in Filling
      BY <1>13, <2>9
    <3> QED
      BY <2>3, <3>1
  <2>10. v = 1 \/ v = 2 \/ v \in 3 .. k
    BY <1>3
  <2> QED
    BY <2>7, <2>8, <2>9, <2>10
<1>23. Script(s, d)
  <2>1. \A i \in DOMAIN s :
           /\ s[i].db = d
           /\ i = 1 => s[i].kind \in Creating
           /\ i = 2 => s[i].kind = "use"
           /\ i > 2 => s[i].kind \in {"drop", "create"} \cup Filling /\ s[i].table \in Table
           /\ s[i].kind \in Filling => s[i].row \in Value
                 /\ \E j \in 1 .. i - 1 : s[j].kind = "create" /\ s[j].table = s[i].table
    BY <1>21
  <2>2. \A i, j \in DOMAIN s : 2 < i /\ i < j /\ s[i].table = s[j].table =>
           s[j].kind \in Filling \/ (s[i].kind = "drop" /\ s[j].kind = "create")
    BY <1>22
  <2> QED
    BY <1>10, <2>1, <2>2 DEF Script
<1> QED
  BY <1>18, <1>19, <1>20, <1>23

---------------------------------------------------------------------------------
(* What a task may have in hand.                                                *)

\* Everything but what the tasks are doing.
World ==
    /\ ncp \in BOOLEAN /\ DOMAIN src \in Schemas /\ src \in [DOMAIN src -> SUBSET Row]
    /\ writes \in 0 .. Writes
    /\ DOMAIN dst \subseteq Database
    /\ \A d \in DOMAIN dst : DOMAIN dst[d] \subseteq Table
                             /\ \A t \in DOMAIN dst[d] : dst[d][t] \subseteq Stored
    /\ DOMAIN files \subseteq Database
    /\ \A d \in DOMAIN files : files[d] \in Seq(Stmts)
    /\ stable \subseteq Table \X Row /\ ever \subseteq Table \X Row
    /\ named \in [Task -> SUBSET (Database \X Table)] /\ cut \subseteq Task

LEMMA Typed ==
    ASSUME Structure
    PROVE  /\ World /\ run \in [Task -> Runs] /\ \A p \in Task : run[p] \in Runs
           /\ DOMAIN src \subseteq Table
BY SchemaAssumption DEF Structure, TypeOK, World

LEMMA RunUpdate ==
    ASSUME run \in [Task -> Runs], NEW p \in Task, NEW r \in Runs, run' = [run EXCEPT ![p] = r]
    PROVE  run' \in [Task -> Runs] /\ run'[p] = r /\ \A q \in Task \ {p} : run'[q] = run[q]
OBVIOUS

LEMMA FitsMore ==
    ASSUME NEW r, NEW names, NEW filed, NEW more, filed \subseteq more, Fits(r, names, filed)
    PROVE  Fits(r, names, more)
BY DEF Fits

\* A step of one task leaves the others as they are.
LEMMA StructureFrame ==
    ASSUME Structure, NEW p \in Task, NEW r \in Runs, run' = [run EXCEPT ![p] = r],
           World', DOMAIN src' = DOMAIN src, DOMAIN files \subseteq DOMAIN files',
           \A q \in Task \ {p} : named'[q] = named[q],
           (r.op = run[p].op /\ r.db = run[p].db) \/ run[p].op = "none",
           Fits(r, named'[p], DOMAIN files'), Carries(r, named'[p], DOMAIN src),
           \A d \in DOMAIN files' : Script(files'[d], d)
               /\ ((d \in DOMAIN files /\ files'[d] = files[d]) \/ (r.op = "backup" /\ r.db = d))
    PROVE  Structure'
<1>1. /\ run' \in [Task -> Runs] /\ run'[p] = r /\ \A q \in Task \ {p} : run'[q] = run[q]
  BY Typed, RunUpdate
<1>2. TypeOK'
  <2>1. \A q \in Task : run'[q].pc <= Len(run'[q].script) + 1
    <3>1. \A q \in Task : run[q].pc <= Len(run[q].script) + 1
      BY DEF Structure, TypeOK
    <3>2. r.pc <= Len(r.script) + 1
      BY DEF Fits
    <3> QED
      BY <1>1, <3>1, <3>2
  <2> QED
    BY <1>1, <2>1 DEF World, TypeOK
<1>3. ASSUME NEW d \in DOMAIN files' PROVE Script(files'[d], d) /\ (NoBackup(d)' => Whole(files'[d]))
  <2>1. ASSUME NoBackup(d)' PROVE Whole(files'[d])
    <3>1. ~ (r.op = "backup" /\ r.db = d)
      BY <1>1, <2>1 DEF NoBackup
    <3>2. d \in DOMAIN files /\ files'[d] = files[d]
      BY <3>1
    <3>3. NoBackup(d)
      BY <1>1, <2>1 DEF NoBackup
    <3> QED
      BY <3>2, <3>3 DEF Structure, FilesAreScripts
  <2> QED
    BY <2>1
<1>4. FilesAreScripts'
  BY <1>3 DEF FilesAreScripts
<1>5. ASSUME NEW q \in Task
      PROVE  Fits(run'[q], named'[q], DOMAIN files') /\ Carries(run'[q], named'[q], DOMAIN src')
  <2>1. CASE q = p
    BY <1>1, <2>1
  <2>2. CASE q # p
    <3>1. run'[q] = run[q] /\ named'[q] = named[q]
      BY <1>1, <2>2
    <3>2. Fits(run[q], named[q], DOMAIN files) /\ Carries(run[q], named[q], DOMAIN src)
      BY DEF Structure
    <3>3. Fits(run[q], named[q], DOMAIN files')
      BY <3>2, FitsMore
    <3> QED
      BY <3>1, <3>2, <3>3
  <2> QED
    BY <2>1, <2>2
<1> QED
  BY <1>2, <1>4, <1>5 DEF Structure

\* A step that changes nothing but what the task is doing, and what it may have missed.
LEMMA QuietFrame ==
    ASSUME Structure, NEW p \in Task, NEW r \in Runs, run' = [run EXCEPT ![p] = r],
           UNCHANGED <<ncp, source, dst, files, before, named>>, cut' \subseteq cut \cup {p},
           (r.op = run[p].op /\ r.db = run[p].db) \/ run[p].op = "none",
           Fits(r, named[p], DOMAIN files), Carries(r, named[p], DOMAIN src)
    PROVE  Structure'
<1>1. World'
  <2>1. World /\ cut' \subseteq Task
    BY Typed DEF World
  <2> QED
    BY <2>1 DEF World, source
<1>2. /\ DOMAIN src' = DOMAIN src /\ DOMAIN files \subseteq DOMAIN files'
      /\ \A q \in Task \ {p} : named'[q] = named[q]
      /\ Fits(r, named'[p], DOMAIN files') /\ Carries(r, named'[p], DOMAIN src)
  BY DEF source
<1>3. \A d \in DOMAIN files' : Script(files'[d], d)
         /\ ((d \in DOMAIN files /\ files'[d] = files[d]) \/ (r.op = "backup" /\ r.db = d))
  BY DEF Structure, FilesAreScripts
<1> QED
  BY <1>1, <1>2, <1>3, StructureFrame

LEMMA Closed ==
    ASSUME Structure, NEW p \in Task, run[p].at # "idle", NEW end \in Ended, NEW r, r = Close(run[p], end)
    PROVE  /\ r \in Runs /\ r.at = end /\ r.op = run[p].op /\ r.db = run[p].db
           /\ \A tables : Carries(r, named[p], tables)
           /\ Fits(r, named[p], DOMAIN files)
<1>1. run[p] \in Runs
  BY Typed
<1>2. /\ r.at = end /\ r.op = run[p].op /\ r.db = run[p].db /\ r.dbs = {} /\ r.todo = {}
      /\ r.script = <<>> /\ r.pc = 1 /\ r.again = FALSE /\ r.use = None
  BY <1>1 DEF Close, Runs
<1>3. r \in Runs
  <2>1. r = [at |-> end, op |-> run[p].op, db |-> run[p].db, todo |-> {}, dbs |-> {},
             script |-> <<>>, pc |-> 1, again |-> FALSE, use |-> None]
    BY <1>1 DEF Close, Runs
  <2>2. run[p].op \in {"none", "migrate", "backup", "restore", "generate", "delete"}
        /\ run[p].db \in Database \cup {None}
    BY <1>1 DEF Runs
  <2> QED
    BY <2>1, <2>2 DEF Runs
<1>4. Fits(run[p], named[p], DOMAIN files)
  BY DEF Structure
<1>5. end \notin {"idle", "list", "read", "write", "next", "exec", "drop"}
  BY DEF Ended
<1>6. Fits(r, named[p], DOMAIN files)
  <2>1. run[p].op # "none"
    BY <1>4 DEF Fits
  <2>2. r.pc <= Len(r.script) + 1
    BY <1>2
  <2>3. \A x \in named[p] : x[1] \notin r.dbs
    BY <1>2
  <2> QED
    BY <1>2, <1>4, <1>5, <2>1, <2>2, <2>3 DEF Fits
<1>7. \A tables : Carries(r, named[p], tables)
  BY <1>2, <1>5 DEF Carries
<1> QED
  BY <1>2, <1>3, <1>6, <1>7

LEMMA EndStep ==
    ASSUME Structure, NEW p \in Task, run[p].at # "idle", NEW end \in Ended, End(p, end)
    PROVE  run' = [run EXCEPT ![p] = Close(run[p], end)]
BY Typed DEF End

---------------------------------------------------------------------------------
(* What statements do to the target.                                            *)

\* A table, or its absence, stays what it is.
Same(d, t) == (Has(d, t)' <=> Has(d, t)) /\ RowsOf(d, t)' = RowsOf(d, t)

DstTyped == /\ DOMAIN dst \subseteq Database
            /\ \A d \in DOMAIN dst : DOMAIN dst[d] \subseteq Table
                                     /\ \A t \in DOMAIN dst[d] : dst[d][t] \subseteq Stored

LEMMA SetTableDoes ==
    ASSUME NEW d, NEW t, NEW rows, d \in DOMAIN dst, SetTable(d, t, rows)
    PROVE  /\ Has(d, t)' /\ RowsOf(d, t)' = rows
           /\ \A e, u : <<e, u>> # <<d, t>> => Same(e, u)
           /\ DstTyped /\ t \in Table /\ rows \subseteq Stored => DstTyped'
<1>1. /\ DOMAIN dst' = DOMAIN dst /\ \A e \in DOMAIN dst : e # d => dst'[e] = dst[e]
      /\ dst'[d] = [u \in DOMAIN dst[d] \cup {t} |-> IF u = t THEN rows ELSE dst[d][u]]
  BY DEF SetTable
<1>2. /\ DOMAIN dst'[d] = DOMAIN dst[d] \cup {t} /\ dst'[d][t] = rows
      /\ \A u \in DOMAIN dst[d] : u # t => dst'[d][u] = dst[d][u]
  BY <1>1
<1>3. Has(d, t)' /\ RowsOf(d, t)' = rows
  BY <1>1, <1>2 DEF Has, RowsOf
<1>4. ASSUME NEW e, NEW u, <<e, u>> # <<d, t>> PROVE Same(e, u)
  <2>1. CASE e # d
    BY <1>1, <2>1 DEF Same, Has, RowsOf
  <2>2. CASE e = d
    <3>1. u # t
      BY <1>4, <2>2
    <3> QED
      BY <1>1, <1>2, <2>2, <3>1 DEF Same, Has, RowsOf
  <2> QED
    BY <2>1, <2>2
<1>5. ASSUME DstTyped, t \in Table, rows \subseteq Stored PROVE DstTyped'
  <2>1. ASSUME NEW e \in DOMAIN dst'
        PROVE  DOMAIN dst'[e] \subseteq Table /\ \A u \in DOMAIN dst'[e] : dst'[e][u] \subseteq Stored
    <3>1. CASE e # d
      BY <1>1, <1>5, <3>1 DEF DstTyped
    <3>2. CASE e = d
      BY <1>1, <1>2, <1>5, <3>2 DEF DstTyped
    <3> QED
      BY <3>1, <3>2
  <2> QED
    BY <1>1, <1>5, <2>1 DEF DstTyped
<1> QED
  BY <1>3, <1>4, <1>5

LEMMA WithoutTableDoes ==
    ASSUME NEW d, NEW t, d \in DOMAIN dst, WithoutTable(d, t)
    PROVE  /\ ~ Has(d, t)'
           /\ \A e, u : <<e, u>> # <<d, t>> => Same(e, u)
           /\ DstTyped => DstTyped'
<1>1. /\ DOMAIN dst' = DOMAIN dst /\ \A e \in DOMAIN dst : e # d => dst'[e] = dst[e]
      /\ dst'[d] = [u \in DOMAIN dst[d] \ {t} |-> dst[d][u]]
  BY DEF WithoutTable
<1>2. /\ DOMAIN dst'[d] = DOMAIN dst[d] \ {t}
      /\ \A u \in DOMAIN dst[d] : u # t => dst'[d][u] = dst[d][u]
  BY <1>1
<1>3. ~ Has(d, t)'
  BY <1>1, <1>2 DEF Has
<1>4. ASSUME NEW e, NEW u, <<e, u>> # <<d, t>> PROVE Same(e, u)
  <2>1. CASE e # d
    BY <1>1, <2>1 DEF Same, Has, RowsOf
  <2>2. CASE e = d
    <3>1. u # t
      BY <1>4, <2>2
    <3> QED
      BY <1>1, <1>2, <2>2, <3>1 DEF Same, Has, RowsOf
  <2> QED
    BY <2>1, <2>2
<1>5. ASSUME DstTyped PROVE DstTyped'
  <2>1. ASSUME NEW e \in DOMAIN dst'
        PROVE  DOMAIN dst'[e] \subseteq Table /\ \A u \in DOMAIN dst'[e] : dst'[e][u] \subseteq Stored
    <3>1. CASE e # d
      BY <1>1, <1>5, <3>1 DEF DstTyped
    <3>2. CASE e = d
      BY <1>1, <1>2, <1>5, <3>2 DEF DstTyped
    <3> QED
      BY <3>1, <3>2
  <2> QED
    BY <1>1, <1>5, <2>1 DEF DstTyped
<1> QED
  BY <1>3, <1>4, <1>5

LEMMA CreateDatabaseDoes ==
    ASSUME NEW d \in Database, CreateDatabase(d)
    PROVE  (\A e, u : Same(e, u)) /\ (DstTyped => DstTyped')
<1>1. /\ DOMAIN dst' = DOMAIN dst \cup {d} /\ \A e \in DOMAIN dst : dst'[e] = dst[e]
      /\ d \notin DOMAIN dst => dst'[d] = [t \in {} |-> {}]
  BY DEF CreateDatabase
<1>2. d \notin DOMAIN dst => DOMAIN dst'[d] = {}
  BY <1>1
<1>3. ASSUME NEW e, NEW u PROVE Same(e, u)
  BY <1>1, <1>2 DEF Same, Has, RowsOf
<1>4. ASSUME DstTyped PROVE DstTyped'
  <2>1. ASSUME NEW e \in DOMAIN dst'
        PROVE  DOMAIN dst'[e] \subseteq Table /\ \A u \in DOMAIN dst'[e] : dst'[e][u] \subseteq Stored
    <3>1. CASE e \in DOMAIN dst
      BY <1>1, <1>4, <3>1 DEF DstTyped
    <3>2. CASE e \notin DOMAIN dst
      BY <1>1, <1>2, <3>2
    <3> QED
      BY <3>1, <3>2
  <2> QED
    BY <1>1, <1>4, <2>1 DEF DstTyped
<1> QED
  BY <1>3, <1>4

\* A statement of the head changes no table; any other changes one table
\* that the task has named, of the database of its script.
Heads(p) == run[p].pc <= 2 /\ \A e, u : Same(e, u)
Turns(p, d, t, kind, row) ==
    /\ run[p].pc > 2 /\ <<d, t>> \in named[p]
    /\ \A e, u : <<e, u>> # <<d, t>> => Same(e, u)
    /\ \/ kind = "drop" /\ ~ Has(d, t)'
       \/ kind = "create" /\ ~ Has(d, t) /\ Has(d, t)' /\ RowsOf(d, t)' = {}
       \/ /\ kind \in Filling /\ Has(d, t) /\ Has(d, t)'
          /\ RowsOf(d, t)' = RowsOf(d, t) \cup {<<row, p, run[p].again>>}

\* The script at hand and the statement that is next.
LEMMA AtStatement ==
    ASSUME Structure, NEW p \in Task, At(p, "exec"), run[p].pc <= Len(run[p].script)
    PROVE  /\ run[p].script # <<>> /\ run[p].script[1].db \in Database
           /\ Script(run[p].script, run[p].script[1].db)
           /\ run[p].pc \in DOMAIN run[p].script /\ Now(p) \in Stmts
           /\ Now(p).db = run[p].script[1].db
           /\ run[p].pc = 1 => Now(p).kind \in Creating
           /\ run[p].pc = 2 => Now(p).kind = "use"
           /\ run[p].pc > 2 => /\ Now(p).kind \in {"drop", "create"} \cup Filling /\ Now(p).table \in Table
                               /\ <<run[p].script[1].db, Now(p).table>> \in named[p]
                               /\ run[p].use = run[p].script[1].db
           /\ Now(p).kind \in Filling => Now(p).row \in Value
<1>1. PICK s, n, d : s = run[p].script /\ n = run[p].pc /\ d = s[1].db
  OBVIOUS
<1>2. s \in Seq(Stmts) /\ n \in Nat \ {0} /\ n <= Len(s)
  BY <1>1, Typed DEF Runs
<1>3. s # <<>> /\ n \in 1 .. Len(s) /\ DOMAIN s = 1 .. Len(s)
  BY <1>2
<1>4. Carries(run[p], named[p], DOMAIN src)
  BY DEF Structure
<1>5. /\ d \in Database /\ Script(s, d) /\ (n > 2 => run[p].use = d)
      /\ \A i \in 3 .. Len(s) : <<d, s[i].table>> \in named[p]
  BY <1>1, <1>3, <1>4 DEF Carries, At
<1>6. /\ s[n].db = d
      /\ n = 1 => s[n].kind \in Creating
      /\ n = 2 => s[n].kind = "use"
      /\ n > 2 => s[n].kind \in {"drop", "create"} \cup Filling /\ s[n].table \in Table
      /\ s[n].kind \in Filling => s[n].row \in Value
  BY <1>3, <1>5 DEF Script
<1>7. n > 2 => <<d, s[n].table>> \in named[p]
  BY <1>3, <1>5
<1>8. s[n] \in Stmts /\ Now(p) = s[n]
  BY <1>1, <1>2, <1>3 DEF Now
<1> QED
  BY <1>1, <1>3, <1>5, <1>6, <1>7, <1>8

LEMMA StatementDoes ==
    ASSUME Structure, NEW p \in Task, Statement(p),
           NEW d, d = run[p].script[1].db, NEW stmt, stmt = Now(p)
    PROVE  DstTyped' /\ (Heads(p) \/ Turns(p, d, stmt.table, stmt.kind, stmt.row))
<1>1. PICK s, n : s = run[p].script /\ n = run[p].pc /\ d = s[1].db
  OBVIOUS
<1>2. /\ At(p, "exec") /\ n <= Len(s) /\ Accepted(p, stmt, run[p].use)
  BY <1>1 DEF Statement
<1>3. /\ d \in Database /\ stmt.db = d
      /\ n = 1 => stmt.kind \in Creating
      /\ n = 2 => stmt.kind = "use"
      /\ n > 2 => /\ stmt.kind \in {"drop", "create"} \cup Filling /\ stmt.table \in Table
                  /\ <<d, stmt.table>> \in named[p] /\ run[p].use = d
      /\ stmt.kind \in Filling => stmt.row \in Value
  BY <1>1, <1>2, AtStatement
<1>4. n \in Nat \ {0} /\ run[p].again \in BOOLEAN
  BY <1>1, Typed DEF Runs
<1>5. DstTyped
  BY DEF Structure, TypeOK, DstTyped
<1>6. "use" \notin Creating /\ "use" \notin Filling /\ "drop" \notin Creating \cup Filling
      /\ "create" \notin Creating \cup Filling /\ Creating \cap Filling = {}
  BY DEF Creating, Filling
<1>7. CASE n <= 2
  <2>1. stmt.kind \in Creating \/ stmt.kind = "use"
    BY <1>3, <1>4, <1>7
  <2>2. stmt.kind # "drop" /\ stmt.kind # "create" /\ stmt.kind \notin Filling
    BY <1>6, <2>1
  <2>3. CreateDatabase(d) \/ UNCHANGED dst
    BY <1>2, <1>3, <2>2 DEF Accepted
  <2>4. (\A e, u : Same(e, u)) /\ DstTyped'
    <3>1. CASE CreateDatabase(d)
      BY <1>3, <1>5, <3>1, CreateDatabaseDoes
    <3>2. CASE UNCHANGED dst
      BY <1>5, <3>2 DEF Same, Has, RowsOf, DstTyped
    <3> QED
      BY <2>3, <3>1, <3>2
  <2> QED
    BY <1>1, <1>7, <2>4 DEF Heads
<1>8. CASE n > 2
  <2>1. PICK t : t = stmt.table
    OBVIOUS
  <2>2. t \in Table /\ <<d, t>> \in named[p] /\ run[p].use = d
    BY <1>3, <1>8, <2>1
  <2>3. stmt.kind \notin Creating /\ stmt.kind # "use"
    BY <1>3, <1>6, <1>8
  <2>4. "ncp_create_db" \in Creating /\ "create database" \in Creating
    BY DEF Creating
  <2>5. \/ stmt.kind = "drop" /\ d \in DOMAIN dst /\ WithoutTable(d, t)
        \/ stmt.kind = "create" /\ d \in DOMAIN dst /\ ~ Has(d, t) /\ SetTable(d, t, {})
        \/ /\ stmt.kind \in Filling /\ Has(d, t)
           /\ SetTable(d, t, RowsOf(d, t) \cup {<<stmt.row, p, run[p].again>>})
    BY <1>2, <2>1, <2>2, <2>3, <2>4 DEF Accepted
  <2>6. CASE stmt.kind = "drop" /\ d \in DOMAIN dst /\ WithoutTable(d, t)
    <3>1. ~ Has(d, t)' /\ (\A e, u : <<e, u>> # <<d, t>> => Same(e, u)) /\ DstTyped'
      BY <1>5, <2>6, WithoutTableDoes
    <3> QED
      BY <1>1, <1>8, <2>1, <2>2, <2>6, <3>1 DEF Turns
  <2>7. CASE stmt.kind = "create" /\ d \in DOMAIN dst /\ ~ Has(d, t) /\ SetTable(d, t, {})
    <3>1. {} \subseteq Stored
      OBVIOUS
    <3>2. /\ Has(d, t)' /\ RowsOf(d, t)' = {} /\ \A e, u : <<e, u>> # <<d, t>> => Same(e, u)
      BY <2>7, SetTableDoes
    <3>3. DstTyped'
      BY <1>5, <2>2, <2>7, <3>1, SetTableDoes
    <3> QED
      BY <1>1, <1>8, <2>1, <2>2, <2>7, <3>2, <3>3 DEF Turns
  <2>8. CASE /\ stmt.kind \in Filling /\ Has(d, t)
             /\ SetTable(d, t, RowsOf(d, t) \cup {<<stmt.row, p, run[p].again>>})
    <3>1. PICK rows : rows = RowsOf(d, t) \cup {<<stmt.row, p, run[p].again>>}
      OBVIOUS
    <3>2. d \in DOMAIN dst /\ SetTable(d, t, rows)
      BY <2>8, <3>1 DEF Has
    <3>3. rows \subseteq Stored
      <4>1. RowsOf(d, t) \subseteq Stored
        BY <1>5, <2>8 DEF RowsOf, Has, DstTyped
      <4>2. <<stmt.row, p, run[p].again>> \in Stored
        BY <1>3, <1>4, <2>8 DEF Stored
      <4> QED
        BY <3>1, <4>1, <4>2
    <3>4. /\ Has(d, t)' /\ RowsOf(d, t)' = rows /\ \A e, u : <<e, u>> # <<d, t>> => Same(e, u)
      BY <3>2, SetTableDoes
    <3>5. DstTyped'
      BY <1>5, <2>2, <3>2, <3>3, SetTableDoes
    <3> QED
      BY <1>1, <1>8, <2>1, <2>2, <2>8, <3>1, <3>4, <3>5 DEF Turns
  <2> QED
    BY <2>5, <2>6, <2>7, <2>8
<1> QED
  BY <1>4, <1>7, <1>8

---------------------------------------------------------------------------------
(* The types, the steps and the scripts.                                        *)

LEMMA StructureInit ==
    ASSUME Init PROVE Structure
<1>1. PICK tables \in Schemas : src = [t \in tables |-> Row]
  BY DEF Init
<1>2. tables \subseteq Table /\ DOMAIN src = tables /\ src \in [tables -> SUBSET Row]
  BY <1>1, SchemaAssumption
<1>3. DOMAIN dst \subseteq Database
      /\ \A d \in DOMAIN dst : DOMAIN dst[d] \subseteq Table
                               /\ \A t \in DOMAIN dst[d] : dst[d][t] \subseteq Stored
  <2>1. PICK dbs \in SUBSET Database, old \in {{}, Table} :
           dst = [d \in dbs |-> [t \in old |-> {<<Old, None, FALSE>>}]]
    BY DEF Init
  <2>2. <<Old, None, FALSE>> \in Stored
    BY DEF Stored
  <2> QED
    BY <2>1, <2>2
<1>4. /\ DOMAIN files \subseteq Database
      /\ \A d \in DOMAIN files : Script(files[d], d) /\ Whole(files[d])
  <2>1. PICK dbs \in {{}, Database}, old \in Schemas : files = [d \in dbs |-> Saved(d, InOrder(old))]
    BY DEF Init
  <2>2. old \in SUBSET Table
    BY SchemaAssumption
  <2>3. ASSUME NEW d \in DOMAIN files PROVE Script(files[d], d) /\ Whole(files[d])
    <3>1. d \in Database /\ files[d] = Saved(d, InOrder(old))
      BY <2>1
    <3> QED
      BY <2>2, <3>1, SavedIs
  <2> QED
    BY <2>1, <2>3
<1>5. \A d \in DOMAIN files : files[d] \in Seq(Stmts)
  BY <1>4 DEF Script
<1>6. Idle \in Runs
  BY DEF Idle, Runs
<1>7. run \in [Task -> Runs] /\ \A p \in Task : run[p] = Idle /\ named[p] = {}
  BY <1>6 DEF Init
<1>8. named \in [Task -> SUBSET (Database \X Table)]
  BY DEF Init
<1>9. ncp \in BOOLEAN /\ writes = 0 /\ ever = stable /\ stable \subseteq Table \X Row /\ cut = {}
  BY DEF Init
<1>10. writes \in 0 .. Writes
  BY <1>9, WritesAssumption
<1>11. \A p \in Task : run[p].pc <= Len(run[p].script) + 1
  BY <1>7 DEF Idle
<1>12. TypeOK
  BY <1>1, <1>2, <1>3, <1>4, <1>5, <1>7, <1>8, <1>9, <1>10, <1>11 DEF TypeOK
<1>13. FilesAreScripts
  BY <1>4 DEF FilesAreScripts
<1>14. Fits(Idle, {}, DOMAIN files) /\ Carries(Idle, {}, DOMAIN src)
  BY DEF Fits, Carries, Idle, Writers
<1> QED
  BY <1>7, <1>12, <1>13, <1>14 DEF Structure

LEMMA StructureBegin ==
    ASSUME Structure, NEW p \in Task, NEW op \in {"migrate", "backup", "delete"}, NEW d,
           d \in Database \/ (op = "delete" /\ d = None), Begin(p, op, d, "list")
    PROVE  Structure'
<1>1. run[p] \in Runs /\ Fits(run[p], named[p], DOMAIN files) /\ run \in [Task -> Runs]
  BY Typed DEF Structure
<1>2. PICK at \in {"list", "failed"} : run' = [run EXCEPT ![p] = [run[p] EXCEPT !.op = op, !.db = d, !.at = at]]
  BY <1>1 DEF Begin
<1>3. PICK r : r = [run[p] EXCEPT !.op = op, !.db = d, !.at = at]
  OBVIOUS
<1>4. /\ r.op = op /\ r.db = d /\ r.at = at /\ r.pc = run[p].pc /\ r.script = run[p].script
      /\ r.dbs = run[p].dbs
  BY <1>1, <1>3 DEF Runs
<1>5. r \in Runs
  BY <1>1, <1>3 DEF Runs, Ended
<1>6. run[p].at = "idle" /\ run[p].op = "none" /\ named[p] = {} /\ run[p].pc = 1 /\ run[p].pc <= Len(run[p].script) + 1
  BY <1>1 DEF Begin, At, Fits
<1>7. Fits(r, named[p], DOMAIN files) /\ Carries(r, named[p], DOMAIN src)
  BY <1>4, <1>6 DEF Fits, Carries
<1> QED
  BY <1>2, <1>3, <1>5, <1>6, <1>7, QuietFrame DEF Begin, world

LEMMA StructureRestore ==
    ASSUME Structure, NEW p \in Task,
           NEW op \in {"restore", "generate"}, NEW dbs \in SUBSET Database,
           op = "restore" => dbs = DOMAIN files, At(p, "idle"), UNCHANGED world,
           run' = [run EXCEPT ![p].op = op, ![p].at = "next", ![p].dbs = dbs]
    PROVE  Structure'
<1>1. run[p] \in Runs /\ Fits(run[p], named[p], DOMAIN files) /\ run \in [Task -> Runs]
  BY Typed DEF Structure
<1>2. PICK r : r = [run[p] EXCEPT !.op = op, !.at = "next", !.dbs = dbs]
  OBVIOUS
<1>3. run' = [run EXCEPT ![p] = r]
  BY <1>1, <1>2
<1>4. /\ r.op = op /\ r.at = "next" /\ r.pc = run[p].pc /\ r.script = run[p].script
      /\ r.dbs = dbs
  BY <1>1, <1>2 DEF Runs
<1>5. r \in Runs
  BY <1>1, <1>2 DEF Runs, Ended
<1>6. run[p].at = "idle" /\ run[p].op = "none" /\ named[p] = {} /\ run[p].pc = 1 /\ run[p].pc <= Len(run[p].script) + 1
  BY <1>1 DEF At, Fits
<1>7. Fits(r, named[p], DOMAIN files) /\ Carries(r, named[p], DOMAIN src)
  BY <1>4, <1>6 DEF Fits, Carries, Writers
<1> QED
  BY <1>3, <1>5, <1>6, <1>7, QuietFrame DEF world

LEMMA StructureStart ==
    ASSUME Structure, NEW p \in Task, Start(p) PROVE Structure'
<1>1. CASE handleRDBMSMigrateTask(p)
  BY <1>1, StructureBegin DEF handleRDBMSMigrateTask
<1>2. CASE handleRDBMSBackupTask(p)
  BY <1>2, StructureBegin DEF handleRDBMSBackupTask
<1>3. CASE handleRDBMSDeleteTask(p)
  BY <1>3, StructureBegin DEF handleRDBMSDeleteTask
<1>4. CASE handleRDBMSRestoreTask(p)
  <2>1. PICK dbs : dbs = DOMAIN files
    OBVIOUS
  <2>2. dbs \in SUBSET Database
    BY <2>1, Typed DEF World
  <2>3. /\ At(p, "idle") /\ UNCHANGED world
        /\ run' = [run EXCEPT ![p].op = "restore", ![p].at = "next", ![p].dbs = dbs]
    BY <1>4, <2>1 DEF handleRDBMSRestoreTask
  <2>4. PICK op \in {"restore", "generate"} : op = "restore"
    OBVIOUS
  <2> QED
    BY <2>1, <2>2, <2>3, <2>4, StructureRestore
<1>5. CASE handleRDBMSGenerateTask(p)
  <2>1. PICK dbs \in SUBSET Database :
           /\ At(p, "idle") /\ UNCHANGED world
           /\ run' = [run EXCEPT ![p].op = "generate", ![p].at = "next", ![p].dbs = dbs]
    BY <1>5 DEF handleRDBMSGenerateTask
  <2>2. PICK op \in {"restore", "generate"} : op = "generate"
    OBVIOUS
  <2> QED
    BY <2>1, <2>2, StructureRestore
<1> QED
  BY <1>1, <1>2, <1>3, <1>4, <1>5 DEF Start

\* The end of a task whose step changes nothing else.
LEMMA StructureEnd ==
    ASSUME Structure, NEW p \in Task, run[p].at # "idle", NEW end \in Ended, End(p, end),
           UNCHANGED <<ncp, source, dst, files, before, named, cut>>
    PROVE  Structure'
<1>1. PICK r : r = Close(run[p], end)
  OBVIOUS
<1>2. run' = [run EXCEPT ![p] = r]
  BY <1>1, EndStep
<1>3. /\ r \in Runs /\ r.op = run[p].op /\ r.db = run[p].db
      /\ Carries(r, named[p], DOMAIN src) /\ Fits(r, named[p], DOMAIN files)
  <2>1. /\ r \in Runs /\ r.op = run[p].op /\ r.db = run[p].db
        /\ (\A tables : Carries(r, named[p], tables)) /\ Fits(r, named[p], DOMAIN files)
    BY <1>1, Closed
  <2> QED
    BY <2>1, Zenon
<1> QED
  BY <1>2, <1>3, QuietFrame

LEMMA StructureListTable ==
    ASSUME Structure, NEW p \in Task, ListTable(p) PROVE Structure'
<1>1. run[p] \in Runs /\ Fits(run[p], named[p], DOMAIN files) /\ run \in [Task -> Runs]
  BY Typed DEF Structure
<1>2. PICK form, d : d = run[p].db
        /\ form = (IF ncp /\ run[p].op = "migrate" THEN "ncp_create_db" ELSE "create database")
  OBVIOUS
<1>3. PICK tables \in SUBSET DOMAIN src :
         /\ run' = [run EXCEPT ![p].at = "read", ![p].todo = tables, ![p].script =
                       Head1(d, form) \o Frame(d, InOrder(tables))]
         /\ cut' \subseteq cut \cup {p}
  BY <1>2 DEF ListTable
<1>4. PICK s : s = Head1(d, form) \o Frame(d, InOrder(tables))
  OBVIOUS
<1>5. PICK r : r = [run[p] EXCEPT !.at = "read", !.todo = tables, !.script = s]
  OBVIOUS
<1>6. run' = [run EXCEPT ![p] = r]
  BY <1>1, <1>3, <1>4, <1>5
<1>7. run[p].at = "list" /\ run[p].op \in {"migrate", "backup"}
  BY DEF ListTable, At
<1>8. /\ d \in Database /\ form \in Creating /\ tables \in SUBSET Table /\ named[p] = {}
      /\ run[p].pc = 1
  BY <1>1, <1>2, <1>7, Typed DEF Fits, Creating
<1>9. Script(s, d) /\ Whole(s) /\ Created(s) = tables /\ Len(s) >= 2
  <2>1. d \in Database /\ form \in Creating /\ tables \in SUBSET Table
    BY <1>8
  <2>2. PICK form_1 \in Creating, tables_1 \in SUBSET Table : form_1 = form /\ tables_1 = tables
    BY <2>1
  <2>3. s = Blank(d, form_1, tables_1)
    BY <1>4, <2>2 DEF Blank
  <2>4. Script(s, d) /\ Whole(s) /\ Created(s) = tables_1 /\ Len(s) >= 2
    BY <2>1, <2>3, Begun
  <2> QED
    BY <2>2, <2>4
<1>10. /\ r.op = run[p].op /\ r.db = d /\ r.at = "read" /\ r.todo = tables /\ r.script = s
       /\ r.pc = run[p].pc /\ r.dbs = run[p].dbs
  BY <1>1, <1>2, <1>5 DEF Runs
<1>11. s \in Seq(Stmts)
  BY <1>9 DEF Script
<1>12. r \in Runs
  BY <1>1, <1>5, <1>8, <1>11 DEF Runs
<1>13. r.pc = 1 /\ r.pc <= Len(r.script) + 1
  BY <1>8, <1>9, <1>10
<1>14. Fits(r, named[p], DOMAIN files)
  BY <1>7, <1>8, <1>10, <1>13 DEF Fits
<1>15. Carries(r, named[p], DOMAIN src)
  BY <1>9, <1>10 DEF Carries
<1> QED
  BY <1>2, <1>3, <1>6, <1>10, <1>12, <1>14, <1>15, QuietFrame DEF ListTable

LEMMA StructureGetInsert ==
    ASSUME Structure, NEW p \in Task, GetInsert(p) PROVE Structure'
<1>1. /\ run[p] \in Runs /\ run \in [Task -> Runs] /\ Fits(run[p], named[p], DOMAIN files)
      /\ Carries(run[p], named[p], DOMAIN src) /\ run[p].at = "read"
  BY Typed DEF Structure, GetInsert, At
<1>2. PICK d, s : d = run[p].db /\ s = run[p].script
  OBVIOUS
<1>3. PICK t \in run[p].todo : \E rows \in SUBSET src[t] :
         /\ run' = [run EXCEPT ![p].todo = @ \ {t}, ![p].script = @ \o Inserts("insert", d, t, rows)]
         /\ cut' \subseteq cut \cup {p}
  BY <1>2 DEF GetInsert
<1>30. PICK rows \in SUBSET src[t] :
         /\ run' = [run EXCEPT ![p].todo = @ \ {t}, ![p].script = @ \o Inserts("insert", d, t, rows)]
         /\ cut' \subseteq cut \cup {p}
  BY <1>3
<1>4. PICK more, e : more = Inserts("insert", d, t, rows) /\ e = s \o more
  OBVIOUS
<1>5. PICK r : r = [run[p] EXCEPT !.todo = @ \ {t}, !.script = e]
  OBVIOUS
<1>6. run' = [run EXCEPT ![p] = r]
  BY <1>1, <1>2, <1>30, <1>4, <1>5
<1>7. /\ run[p].op \in {"migrate", "backup"} /\ d \in Database /\ named[p] = {} /\ run[p].pc = 1
      /\ Script(s, d) /\ Whole(s) /\ Created(s) \subseteq DOMAIN src /\ run[p].todo \subseteq Created(s)
  BY <1>1, <1>2 DEF Fits, Carries
<1>8. t \in Created(s) /\ t \in DOMAIN src /\ t \in Table /\ rows \in SUBSET Row
  BY <1>7, Typed DEF World
<1>9. /\ more \in Seq(Stmts)
      /\ \A i \in 1 .. Len(more) : \E v \in Value : more[i] = Stmt("insert", d, t, v)
  <2>1. "insert" \in Filling
    BY DEF Filling
  <2>2. /\ Inserts("insert", d, t, rows) \in Seq(Stmts)
        /\ Len(Inserts("insert", d, t, rows)) = Cardinality(rows)
        /\ \A i \in 1 .. Cardinality(rows) :
              \E v \in Read(rows) : Inserts("insert", d, t, rows)[i] = Stmt("insert", d, t, v)
        /\ Read(rows) \subseteq Value
    BY <1>7, <1>8, <2>1, InsertsIs
  <2> QED
    BY <1>4, <2>2
<1>10. \A i \in 1 .. Len(more) : /\ more[i].db = d /\ more[i].kind \in Filling
                                 /\ more[i].table \in Created(s) /\ more[i].row \in Value
  <2>1. ASSUME NEW i \in 1 .. Len(more)
        PROVE  /\ more[i].db = d /\ more[i].kind \in Filling
               /\ more[i].table \in Created(s) /\ more[i].row \in Value
    <3>1. PICK v \in Value : more[i] = Stmt("insert", d, t, v)
      BY <1>9
    <3>2. more[i].db = d /\ more[i].kind = "insert" /\ more[i].table = t /\ more[i].row = v
      BY <3>1, Fields
    <3> QED
      BY <1>8, <3>2 DEF Filling
  <2> QED
    BY <2>1
<1>11. Script(e, d) /\ Created(e) = Created(s) /\ Whole(e)
  <2>1. /\ d \in Database /\ Script(s, d) /\ more \in Seq(Stmts) /\ e = Longer(s, more) /\ Whole(s)
        /\ Fills(more, d, Created(s))
    BY <1>4, <1>7, <1>9, <1>10 DEF Longer, Fills
  <2> QED
    BY <2>1, Extended
<1>12. e \in Seq(Stmts)
  BY <1>11 DEF Script
<1>13. /\ r.at = "read" /\ r.op = run[p].op /\ r.db = d /\ r.todo = run[p].todo \ {t} /\ r.script = e
       /\ r.pc = 1 /\ r.dbs = run[p].dbs
  BY <1>1, <1>2, <1>5, <1>7 DEF Runs
<1>14. r \in Runs
  BY <1>1, <1>5, <1>12 DEF Runs
<1>15. r.pc <= Len(r.script) + 1
  BY <1>12, <1>13
<1>16. Fits(r, named[p], DOMAIN files)
  BY <1>1, <1>7, <1>13, <1>15 DEF Fits
<1>17. Carries(r, named[p], DOMAIN src)
  <2>1. s # <<>> /\ s \in Seq(Stmts)
    BY <1>1, <1>2, <1>7 DEF Carries, Script
  <2>2. e # <<>>
    BY <1>4, <1>9, <2>1
  <2> QED
    BY <1>7, <1>11, <1>13, <2>2 DEF Carries
<1> QED
  BY <1>2, <1>30, <1>6, <1>13, <1>14, <1>16, <1>17, QuietFrame DEF GetInsert

\* Put, of a script or of what a file holds: it names the tables of the script.
LEMMA StructurePut ==
    ASSUME Structure, NEW p \in Task, run[p].at \in {"read", "next"}, run[p].op \in Writers,
           NEW script, NEW left \in SUBSET run[p].dbs, NEW tables \in SUBSET (Database \X Table), Put(p, script, left, tables),
           script \in Seq(Stmts),
           script # <<>> => /\ script[1].db \in Database /\ Script(script, script[1].db)
                            /\ script[1].db \notin left
                            /\ \A i \in 3 .. Len(script) : <<script[1].db, script[i].table>> \in tables,
           run[p].op # "migrate" => \A x \in tables : x[1] \notin left,
           run[p].op = "restore" => \A x \in tables : x[1] \in DOMAIN files,
           UNCHANGED <<ncp, source, dst, files, before, cut>>
    PROVE  Structure'
<1>1. /\ run[p] \in Runs /\ run \in [Task -> Runs] /\ Fits(run[p], named[p], DOMAIN files) /\ World
  BY Typed DEF Structure
<1>2. PICK r : r = [run[p] EXCEPT !.at = "exec", !.script = script, !.pc = 1, !.again = FALSE, !.dbs = left]
  OBVIOUS
<1>3. run' = [run EXCEPT ![p] = r]
  BY <1>1, <1>2 DEF Put
<1>4. /\ r.at = "exec" /\ r.op = run[p].op /\ r.db = run[p].db /\ r.script = script /\ r.pc = 1
      /\ r.dbs = left
  BY <1>1, <1>2 DEF Runs
<1>5. run[p].dbs \subseteq Database
  BY <1>1 DEF Runs
<1>6. r \in Runs
  <2>1. PICK some : some = run[p]
    OBVIOUS
  <2>2. some \in Runs /\ left \in SUBSET Database
    BY <1>1, <1>5, <2>1
  <2>3. r = [at |-> "exec", op |-> some.op, db |-> some.db, todo |-> some.todo, dbs |-> left,
             script |-> script, pc |-> 1, again |-> FALSE, use |-> some.use]
    BY <1>2, <2>1, <2>2 DEF Runs
  <2> QED
    BY <2>2, <2>3 DEF Runs
<1>7. PICK names : names = named[p] \cup tables
  OBVIOUS
<1>8. /\ named' = [named EXCEPT ![p] = names] /\ named'[p] = names
      /\ \A q \in Task \ {p} : named'[q] = named[q]
      /\ named' \in [Task -> SUBSET (Database \X Table)]
  BY <1>1, <1>7 DEF Put, World
<1>9. World'
  BY <1>1, <1>8 DEF World, source
<1>10. Carries(r, names, DOMAIN src)
  BY <1>4, <1>7 DEF Carries
<1>11. Fits(r, names, DOMAIN files)
  <2>1. r.pc <= Len(r.script) + 1
    BY <1>4
  <2>2. run[p].op \in {"restore", "generate"} => \A x \in names : x[1] \notin left
    BY <1>1, <1>7 DEF Fits
  <2>3. run[p].op = "restore" => left \subseteq DOMAIN files /\ \A x \in names : x[1] \in DOMAIN files
    BY <1>1, <1>7 DEF Fits
  <2> QED
    BY <1>1, <1>4, <2>1, <2>2, <2>3 DEF Fits, Writers
<1>12. DOMAIN src' = DOMAIN src /\ DOMAIN files \subseteq DOMAIN files' /\ DOMAIN files' = DOMAIN files
  BY DEF source
<1>13. \A d \in DOMAIN files' : Script(files'[d], d)
         /\ ((d \in DOMAIN files /\ files'[d] = files[d]) \/ (r.op = "backup" /\ r.db = d))
  BY DEF Structure, FilesAreScripts
<1>14. Fits(r, named'[p], DOMAIN files') /\ Carries(r, named'[p], DOMAIN src)
  BY <1>8, <1>10, <1>11, <1>12
<1> QED
  BY <1>3, <1>4, <1>6, <1>8, <1>9, <1>12, <1>13, <1>14, StructureFrame

\* A script begins with a statement of its database.
LEMMA FirstOfScript ==
    ASSUME NEW s, NEW d, Script(s, d), s # <<>>
    PROVE  s[1].db = d /\ 1 \in DOMAIN s /\ Len(s) \in Nat \ {0} /\ DOMAIN s = 1 .. Len(s)
<1>1. s \in Seq(Stmts)
  BY DEF Script
<1>2. 1 \in DOMAIN s /\ Len(s) \in Nat \ {0} /\ DOMAIN s = 1 .. Len(s)
  BY <1>1
<1> QED
  BY <1>2 DEF Script

LEMMA StructureCopy ==
    ASSUME Structure, NEW p \in Task, Copy(p) PROVE Structure'
<1>1. PICK s, d, tables : s = run[p].script /\ d = run[p].db /\ tables = {d} \X DOMAIN src
  OBVIOUS
<1>2. /\ run[p].at = "read" /\ run[p].op = "migrate" /\ Put(p, s, {}, tables)
      /\ UNCHANGED <<ncp, source, dst, files, before, cut>>
  BY <1>1 DEF Copy, At
<1>3. /\ Fits(run[p], named[p], DOMAIN files) /\ Carries(run[p], named[p], DOMAIN src)
      /\ run[p] \in Runs /\ DOMAIN src \subseteq Table
  BY Typed DEF Structure
<1>4. d \in Database /\ Script(s, d) /\ Whole(s) /\ Created(s) \subseteq DOMAIN src
  BY <1>1, <1>2, <1>3 DEF Fits, Carries
<1>5. s \in Seq(Stmts)
  BY <1>4 DEF Script
<1>6. ASSUME s # <<>>
      PROVE  /\ s[1].db \in Database /\ Script(s, s[1].db) /\ s[1].db \notin {}
             /\ \A i \in 3 .. Len(s) : <<s[1].db, s[i].table>> \in tables
  <2>1. s[1].db = d
    BY <1>4, <1>6, FirstOfScript
  <2>2. \A i \in 3 .. Len(s) : s[i].table \in DOMAIN src
    BY <1>4 DEF Whole
  <2> QED
    BY <1>1, <1>4, <2>1, <2>2
<1>7. tables \in SUBSET (Database \X Table)
  BY <1>1, <1>3, <1>4
<1>8. run[p].at \in {"read", "next"} /\ run[p].op \in Writers
  BY <1>2 DEF Writers
<1>9. {} \in SUBSET run[p].dbs
  OBVIOUS
<1> QED
  BY <1>2, <1>5, <1>6, <1>7, <1>8, <1>9, StructurePut

LEMMA StructureReadFile ==
    ASSUME Structure, NEW p \in Task, ReadFile(p) PROVE Structure'
<1>1. /\ run[p].at = "next" /\ Fits(run[p], named[p], DOMAIN files) /\ run[p] \in Runs
  BY Typed DEF Structure, ReadFile, At
<1>2. CASE run[p].dbs = {}
  <2>1. End(p, "completed") /\ UNCHANGED <<ncp, source, dst, files, before, named, cut>>
    BY <1>2 DEF ReadFile
  <2>2. PICK end \in Ended : end = "completed"
    BY DEF Ended
  <2> QED
    BY <1>1, <2>1, <2>2, StructureEnd
<1>3. CASE run[p].dbs # {}
  <2>1. PICK d \in run[p].dbs :
           LET script == IF run[p].op = "restore" THEN files[d] ELSE createSql(d) IN
           Put(p, script, run[p].dbs \ {d}, {d} \X {script[i].table : i \in 3 .. Len(script)})
    BY <1>3 DEF ReadFile
  <2>2. PICK s, left, tables :
           /\ s = (IF run[p].op = "restore" THEN files[d] ELSE createSql(d))
           /\ left = run[p].dbs \ {d} /\ tables = {d} \X {s[i].table : i \in 3 .. Len(s)}
    OBVIOUS
  <2>3. Put(p, s, left, tables) /\ UNCHANGED <<ncp, source, dst, files, before, cut>>
    BY <1>3, <2>1, <2>2 DEF ReadFile
  <2>4. d \in Database /\ run[p].op \in {"restore", "generate"} /\ (run[p].op = "restore" => d \in DOMAIN files)
    BY <1>1 DEF Fits, Runs, Writers
  <2>5. Script(s, d)
    <3>1. CASE run[p].op = "restore"
      BY <2>2, <2>4, <3>1 DEF Structure, FilesAreScripts
    <3>2. CASE run[p].op # "restore"
      BY <2>2, <2>4, <3>2, Generated
    <3> QED
      BY <3>1, <3>2
  <2>6. s \in Seq(Stmts) /\ \A i \in 3 .. Len(s) : s[i].table \in Table
    <3>1. s \in Seq(Stmts)
      BY <2>5 DEF Script
    <3>2. \A i \in 3 .. Len(s) : i \in DOMAIN s /\ i > 2
      BY <3>1
    <3> QED
      BY <2>5, <3>1, <3>2 DEF Script
  <2>7. tables \in SUBSET (Database \X Table)
    BY <2>2, <2>4, <2>6
  <2>8. ASSUME s # <<>>
        PROVE  /\ s[1].db \in Database /\ Script(s, s[1].db) /\ s[1].db \notin left
               /\ \A i \in 3 .. Len(s) : <<s[1].db, s[i].table>> \in tables
    <3>1. s[1].db = d
      BY <2>5, <2>8, FirstOfScript
    <3> QED
      BY <2>2, <2>4, <2>5, <3>1
  <2>9. \A x \in tables : x[1] \notin left /\ (run[p].op = "restore" => x[1] \in DOMAIN files)
    BY <2>2, <2>4
  <2>10. run[p].at \in {"read", "next"} /\ run[p].op \in Writers /\ left \in SUBSET run[p].dbs
    BY <1>1, <2>2, <2>4 DEF Writers
  <2> QED
    BY <2>3, <2>6, <2>7, <2>8, <2>9, <2>10, StructurePut
<1> QED
  BY <1>2, <1>3


LEMMA WriteDoes ==
    ASSUME Structure, NEW d \in Database, NEW script, Script(script, d), Write(d, script)
    PROVE  /\ DOMAIN files' = DOMAIN files \cup {d} /\ DOMAIN files' \subseteq Database
           /\ files'[d] = script /\ \A e \in DOMAIN files : e # d => files'[e] = files[e]
           /\ \A e \in DOMAIN files' : files'[e] \in Seq(Stmts) /\ Script(files'[e], e)
<1>1. /\ DOMAIN files' = DOMAIN files \cup {d} /\ files'[d] = script
      /\ \A e \in DOMAIN files : e # d => files'[e] = files[e]
  BY DEF Write
<1>2. DOMAIN files \subseteq Database /\ \A e \in DOMAIN files : Script(files[e], e)
  BY DEF Structure, TypeOK, FilesAreScripts
<1>3. \A e \in DOMAIN files' : Script(files'[e], e)
  BY <1>1, <1>2
<1>4. \A e \in DOMAIN files' : files'[e] \in Seq(Stmts)
  BY <1>3 DEF Script
<1> QED
  BY <1>1, <1>2, <1>3, <1>4

\* A backup that writes its file.
LEMMA StructureWrite ==
    ASSUME Structure, NEW p \in Task, run[p].op = "backup", run[p].db \in Database,
           NEW script, Script(script, run[p].db), Write(run[p].db, script),
           NEW r \in Runs, run' = [run EXCEPT ![p] = r], r.op = run[p].op, r.db = run[p].db,
           \A filed : Fits(r, named[p], filed), Carries(r, named[p], DOMAIN src),
           UNCHANGED <<ncp, source, dst, before, named, cut>>
    PROVE  Structure'
<1>1. PICK d : d = run[p].db
  OBVIOUS
<1>2. /\ DOMAIN files' = DOMAIN files \cup {d} /\ DOMAIN files' \subseteq Database
      /\ files'[d] = script /\ \A e \in DOMAIN files : e # d => files'[e] = files[e]
      /\ \A e \in DOMAIN files' : files'[e] \in Seq(Stmts) /\ Script(files'[e], e)
  BY <1>1, WriteDoes
<1>3. World'
  BY <1>2, Typed DEF World, source
<1>4. /\ DOMAIN src' = DOMAIN src /\ DOMAIN files \subseteq DOMAIN files'
      /\ \A q \in Task \ {p} : named'[q] = named[q]
      /\ Fits(r, named'[p], DOMAIN files') /\ Carries(r, named'[p], DOMAIN src)
  BY <1>2 DEF source
<1>5. \A e \in DOMAIN files' : Script(files'[e], e)
         /\ ((e \in DOMAIN files /\ files'[e] = files[e]) \/ (r.op = "backup" /\ r.db = e))
  BY <1>1, <1>2
<1> QED
  BY <1>3, <1>4, <1>5, StructureFrame

LEMMA EmptyScript ==
    ASSUME NEW d PROVE Script(<<>>, d)
BY DEF Script

LEMMA StructureCreateFile ==
    ASSUME Structure, NEW p \in Task, CreateFile(p) PROVE Structure'
<1>1. /\ run[p] \in Runs /\ run \in [Task -> Runs] /\ Fits(run[p], named[p], DOMAIN files)
      /\ Carries(run[p], named[p], DOMAIN src) /\ run[p].at = "read" /\ run[p].op = "backup"
  BY Typed DEF Structure, CreateFile, At
<1>2. PICK r : r = [run[p] EXCEPT !.at = "write"]
  OBVIOUS
<1>3. run' = [run EXCEPT ![p] = r] /\ Write(run[p].db, <<>>)
      /\ UNCHANGED <<ncp, source, dst, before, named, cut>>
  BY <1>2 DEF CreateFile, Set
<1>4. /\ r.at = "write" /\ r.op = run[p].op /\ r.db = run[p].db /\ r.todo = run[p].todo
      /\ r.script = run[p].script /\ r.pc = run[p].pc
  BY <1>1, <1>2 DEF Runs
<1>5. r \in Runs
  BY <1>1, <1>2 DEF Runs
<1>6. \A filed : Fits(r, named[p], filed)
  BY <1>1, <1>4 DEF Fits
<1>7. Carries(r, named[p], DOMAIN src)
  BY <1>1, <1>4 DEF Carries
<1>8. run[p].db \in Database /\ Script(<<>>, run[p].db)
  BY <1>1, EmptyScript DEF Fits
<1> QED
  BY <1>1, <1>3, <1>4, <1>5, <1>6, <1>7, <1>8, StructureWrite

\* Which databases have files concerns restores only.
LEMMA FitsBackup ==
    ASSUME NEW r, NEW names, NEW filed, NEW other, r.op = "backup", Fits(r, names, filed)
    PROVE  Fits(r, names, other)
BY DEF Fits

LEMMA StructureWriteString ==
    ASSUME Structure, NEW p \in Task, WriteString(p) PROVE Structure'
<1>1. /\ run[p] \in Runs /\ run \in [Task -> Runs] /\ Fits(run[p], named[p], DOMAIN files)
      /\ Carries(run[p], named[p], DOMAIN src) /\ run[p].at = "write"
  BY Typed DEF Structure, WriteString, At
<1>2. PICK s, d : s = run[p].script /\ d = run[p].db
  OBVIOUS
<1>3. run[p].op = "backup" /\ d \in Database /\ Script(s, d)
  BY <1>1, <1>2 DEF Fits, Carries
<1>4. PICK n \in 0 .. Len(s) : Write(d, SubSeq(s, 1, n)) /\ End(p, IF n = Len(s) THEN "completed" ELSE "failed")
  BY <1>2 DEF WriteString
<1>5. PICK end \in Ended : End(p, end)
  BY <1>4 DEF Ended
<1>6. PICK r : r = Close(run[p], end)
  OBVIOUS
<1>7. run' = [run EXCEPT ![p] = r]
  BY <1>1, <1>5, <1>6, EndStep
<1>8. /\ r \in Runs /\ r.at = end /\ r.op = run[p].op /\ r.db = run[p].db
      /\ Carries(r, named[p], DOMAIN src) /\ Fits(r, named[p], DOMAIN files)
  <2>1. run[p].at # "idle"
    BY <1>1
  <2> HIDE <1>1, <1>4
  <2> QED
    BY <2>1, <1>6, Closed
<1>9. \A filed : Fits(r, named[p], filed)
  BY <1>3, <1>8, FitsBackup
<1>10. PICK e : e = SubSeq(s, 1, n)
  OBVIOUS
<1>11. Script(e, d)
  <2>1. d \in Database /\ Script(s, d) /\ e = Beginning(s, n)
    BY <1>3, <1>10 DEF Beginning
  <2> QED
    BY <2>1, Prefix
<1>12. Write(run[p].db, e) /\ Script(e, run[p].db) /\ run[p].db \in Database
  BY <1>2, <1>3, <1>4, <1>10, <1>11
<1>13. UNCHANGED <<ncp, source, dst, before, named, cut>>
  BY DEF WriteString
<1> QED
  BY <1>3, <1>7, <1>8, <1>9, <1>12, <1>13, StructureWrite

LEMMA StructureStatement ==
    ASSUME Structure, NEW p \in Task, Statement(p) PROVE Structure'
<1>1. /\ run[p] \in Runs /\ run \in [Task -> Runs] /\ Fits(run[p], named[p], DOMAIN files)
      /\ Carries(run[p], named[p], DOMAIN src) /\ run[p].at = "exec"
      /\ run[p].pc <= Len(run[p].script)
  BY Typed DEF Structure, Statement, At
<1>2. PICK s, n, d, stmt : s = run[p].script /\ n = run[p].pc /\ d = run[p].script[1].db /\ stmt = Now(p)
  OBVIOUS
<1>3. /\ s # <<>> /\ d \in Database /\ stmt \in Stmts /\ stmt.db = d
      /\ n = 2 => stmt.kind = "use"
      /\ n > 2 => stmt.kind \in {"drop", "create"} \cup Filling /\ run[p].use = d
  BY <1>1, <1>2, AtStatement DEF At
<1>4. DstTyped'
  BY <1>2, StatementDoes
<1>5. PICK r : r = [run[p] EXCEPT !.pc = @ + 1, !.use = IF stmt.kind = "use" THEN stmt.db ELSE @]
  OBVIOUS
<1>6. run' = [run EXCEPT ![p] = r] /\ UNCHANGED <<ncp, source, files, before, named, cut>>
  BY <1>2, <1>5 DEF Statement
<1>7. /\ r.at = "exec" /\ r.op = run[p].op /\ r.db = run[p].db /\ r.script = s /\ r.pc = n + 1
      /\ r.dbs = run[p].dbs /\ r.use = (IF stmt.kind = "use" THEN d ELSE run[p].use)
  BY <1>1, <1>2, <1>3, <1>5 DEF Runs
<1>8. n \in Nat \ {0} /\ n <= Len(s) /\ s \in Seq(Stmts) /\ run[p].use \in Database \cup {None}
  BY <1>1, <1>2 DEF Runs
<1>9. r \in Runs
  <2>1. n + 1 \in Nat \ {0} /\ r.use \in Database \cup {None}
    BY <1>3, <1>7, <1>8
  <2>2. r = [run[p] EXCEPT !.pc = n + 1, !.use = r.use]
    BY <1>1, <1>2, <1>5, <1>7 DEF Runs
  <2> QED
    BY <1>1, <2>1, <2>2 DEF Runs
<1>10. r.pc <= Len(r.script) + 1
  BY <1>7, <1>8
<1>11. Fits(r, named[p], DOMAIN files)
  BY <1>1, <1>7, <1>10 DEF Fits
<1>12. Carries(r, named[p], DOMAIN src)
  <2>1. r.pc > 2 => r.use = d
    <3>1. n \notin {2} /\ n + 1 > 2 => n > 2
      BY <1>8
    <3>2. n = 2 => r.use = d
      BY <1>3, <1>7
    <3>3. n > 2 => r.use = d
      BY <1>3, <1>7
    <3> QED
      BY <1>7, <1>8, <3>1, <3>2, <3>3
  <2>2. /\ Script(s, d) /\ d \notin run[p].dbs
        /\ \A i \in 3 .. Len(s) : <<d, s[i].table>> \in named[p]
    BY <1>1, <1>2, <1>3 DEF Carries
  <2> QED
    BY <1>2, <1>3, <1>7, <2>1, <2>2 DEF Carries
<1>13. World'
  BY <1>4, <1>6, Typed DEF World, DstTyped, source
<1>14. /\ DOMAIN src' = DOMAIN src /\ DOMAIN files \subseteq DOMAIN files'
       /\ \A q \in Task \ {p} : named'[q] = named[q]
       /\ Fits(r, named'[p], DOMAIN files') /\ Carries(r, named'[p], DOMAIN src)
  BY <1>6, <1>11, <1>12 DEF source
<1>15. \A e \in DOMAIN files' : Script(files'[e], e)
          /\ ((e \in DOMAIN files /\ files'[e] = files[e]) \/ (r.op = "backup" /\ r.db = e))
  BY <1>6 DEF Structure, FilesAreScripts
<1> QED
  BY <1>6, <1>7, <1>9, <1>13, <1>14, <1>15, StructureFrame

LEMMA StructureAgain ==
    ASSUME Structure, NEW p \in Task, run[p].at = "exec", Again(p), UNCHANGED world
    PROVE  Structure'
<1>1. /\ run[p] \in Runs /\ run \in [Task -> Runs] /\ Fits(run[p], named[p], DOMAIN files)
      /\ Carries(run[p], named[p], DOMAIN src)
  BY Typed DEF Structure
<1>2. PICK s, e : s = run[p].script /\ e = FormatNCPDatabaseCreateSQL(s)
  OBVIOUS
<1>3. PICK use \in {run[p].use, None} :
         run' = [run EXCEPT ![p].again = TRUE, ![p].pc = 1, ![p].use = use,
                            ![p].script = FormatNCPDatabaseCreateSQL(@)]
  BY DEF Again
<1>4. PICK r : r = [run[p] EXCEPT !.again = TRUE, !.pc = 1, !.use = use, !.script = e]
  OBVIOUS
<1>5. run' = [run EXCEPT ![p] = r]
  BY <1>1, <1>2, <1>3, <1>4
<1>6. /\ r.at = "exec" /\ r.op = run[p].op /\ r.db = run[p].db /\ r.script = e /\ r.pc = 1
      /\ r.dbs = run[p].dbs
  BY <1>1, <1>4 DEF Runs
<1>7. s \in Seq(Stmts)
  BY <1>1, <1>2 DEF Runs
<1>10. ASSUME e \in Seq(Stmts) PROVE r \in Runs
  <2>1. PICK some : some = run[p]
    OBVIOUS
  <2>2. some \in Runs /\ use \in Database \cup {None} /\ some.at = "exec"
    BY <1>1, <2>1 DEF Runs
  <2>3. r = [at |-> "exec", op |-> some.op, db |-> some.db, todo |-> some.todo, dbs |-> some.dbs,
             script |-> e, pc |-> 1, again |-> TRUE, use |-> use]
    BY <1>4, <2>1, <2>2 DEF Runs
  <2> QED
    BY <1>10, <2>2, <2>3 DEF Runs
<1>8. CASE s = <<>>
  <2>1. e = <<>>
    BY <1>2, <1>8 DEF FormatNCPDatabaseCreateSQL
  <2> QED
    <3>1. e \in Seq(Stmts) /\ Carries(r, named[p], DOMAIN src)
      BY <1>6, <2>1 DEF Carries
    <3>2. r \in Runs
      BY <1>10, <3>1
    <3>3. r.pc <= Len(r.script) + 1
      BY <1>6, <2>1
    <3>4. Fits(r, named[p], DOMAIN files)
      BY <1>1, <1>6, <3>3 DEF Fits
    <3> QED
      BY <1>5, <1>6, <3>1, <3>2, <3>4, QuietFrame DEF world
<1>9. CASE s # <<>>
  <2>1. PICK d : d = s[1].db
    OBVIOUS
  <2>2. /\ d \in Database /\ Script(s, d) /\ d \notin run[p].dbs
        /\ \A i \in 3 .. Len(s) : <<d, s[i].table>> \in named[p]
    BY <1>1, <1>2, <1>9, <2>1 DEF Carries
  <2>3. /\ Script(e, d) /\ Len(e) = Len(s)
        /\ \A i \in DOMAIN s : e[i].db = s[i].db /\ e[i].table = s[i].table
    BY <1>2, <2>2, Formatted
  <2>4. e \in Seq(Stmts)
    BY <2>3 DEF Script
  <2>5. 1 \in DOMAIN s /\ \A i \in 3 .. Len(s) : i \in DOMAIN s
    BY <1>7, <1>9
  <2>6. e[1].db = d /\ \A i \in 3 .. Len(e) : <<d, e[i].table>> \in named[p]
    BY <2>1, <2>2, <2>3, <2>5
  <2>7. Carries(r, named[p], DOMAIN src)
    BY <1>6, <2>2, <2>3, <2>6 DEF Carries
  <2>8. r \in Runs
    BY <1>10, <2>4
  <2>9. r.pc <= Len(r.script) + 1
    BY <1>6, <2>4
  <2>10. Fits(r, named[p], DOMAIN files)
    BY <1>1, <1>6, <2>9 DEF Fits
  <2> QED
    BY <1>5, <1>6, <2>7, <2>8, <2>10, QuietFrame DEF world
<1> QED
  BY <1>8, <1>9

LEMMA StructureThrough ==
    ASSUME Structure, NEW p \in Task, run[p].at = "exec", Through(p), UNCHANGED world
    PROVE  Structure'
<1>1. /\ run[p] \in Runs /\ run \in [Task -> Runs] /\ Fits(run[p], named[p], DOMAIN files)
  BY Typed DEF Structure
<1>2. CASE run[p].op = "migrate"
  <2>1. PICK end \in Ended : End(p, end)
    BY <1>2 DEF Through, Ended
  <2> QED
    BY <2>1, StructureEnd DEF world
<1>3. CASE run[p].op # "migrate"
  <2>1. PICK r : r = [run[p] EXCEPT !.at = "next", !.script = <<>>, !.pc = 1, !.again = FALSE]
    OBVIOUS
  <2>2. run' = [run EXCEPT ![p] = r]
    BY <1>1, <1>3, <2>1 DEF Through
  <2>3. /\ r.at = "next" /\ r.op = run[p].op /\ r.db = run[p].db /\ r.script = <<>> /\ r.pc = 1
        /\ r.dbs = run[p].dbs
    BY <1>1, <2>1 DEF Runs
  <2>4. r \in Runs
    <3>1. PICK some, none : some = run[p] /\ none = <<>>
      OBVIOUS
    <3>2. some \in Runs /\ none \in Seq(Stmts)
      BY <1>1, <3>1
    <3>3. r = [at |-> "next", op |-> some.op, db |-> some.db, todo |-> some.todo, dbs |-> some.dbs,
               script |-> none, pc |-> 1, again |-> FALSE, use |-> some.use]
      BY <2>1, <3>1, <3>2 DEF Runs
    <3> QED
      BY <3>2, <3>3 DEF Runs
  <2>5. r.pc <= Len(r.script) + 1
    BY <2>3
  <2>6. Fits(r, named[p], DOMAIN files)
    BY <1>1, <1>3, <2>3, <2>5 DEF Fits
  <2>7. Carries(r, named[p], DOMAIN src)
    BY <2>3 DEF Carries
  <2> QED
    BY <2>2, <2>3, <2>4, <2>6, <2>7, QuietFrame DEF world
<1> QED
  BY <1>2, <1>3

LEMMA StructureRefused ==
    ASSUME Structure, NEW p \in Task, Refused(p) PROVE Structure'
<1>1. run[p].at = "exec" /\ UNCHANGED world
  BY DEF Refused, At
<1>2. CASE run[p].again
  <2>1. PICK end \in Ended : End(p, end)
    BY <1>2 DEF Refused, Ended
  <2> QED
    BY <1>1, <2>1, StructureEnd DEF world
<1>3. CASE ~ run[p].again
  BY <1>1, <1>3, StructureAgain DEF Refused
<1> QED
  BY <1>2, <1>3

LEMMA StructureDone ==
    ASSUME Structure, NEW p \in Task, Done(p) PROVE Structure'
BY StructureThrough DEF Done, At

LEMMA StructureFail ==
    ASSUME Structure, NEW p \in Task, Fail(p) PROVE Structure'
<1>1. run[p].at # "idle" /\ UNCHANGED world
  BY DEF Fail
<1>2. PICK end \in Ended : End(p, end)
  BY DEF Fail, Ended
<1> QED
  BY <1>1, <1>2, StructureEnd DEF world

LEMMA StructureListDB ==
    ASSUME Structure, NEW p \in Task, ListDB(p) PROVE Structure'
<1>1. /\ run[p] \in Runs /\ run \in [Task -> Runs] /\ Fits(run[p], named[p], DOMAIN files)
      /\ run[p].at = "list" /\ run[p].op = "delete" /\ DOMAIN dst \subseteq Database
  BY Typed DEF Structure, ListDB, At, World
<1>2. PICK dbs \in SUBSET DOMAIN dst :
         run' = [run EXCEPT ![p].at = "drop", ![p].dbs = dbs] /\ cut' \subseteq cut \cup {p}
  BY DEF ListDB
<1>3. PICK r : r = [run[p] EXCEPT !.at = "drop", !.dbs = dbs]
  OBVIOUS
<1>4. run' = [run EXCEPT ![p] = r]
  BY <1>1, <1>2, <1>3
<1>5. /\ r.at = "drop" /\ r.op = run[p].op /\ r.db = run[p].db /\ r.pc = run[p].pc
      /\ r.script = run[p].script /\ r.dbs = dbs
  BY <1>1, <1>3 DEF Runs
<1>6. r \in Runs
  <2>1. dbs \in SUBSET Database
    BY <1>1
  <2> QED
    BY <1>1, <1>3, <2>1 DEF Runs
<1>7. named[p] = {}
  BY <1>1 DEF Fits
<1>8. Fits(r, named[p], DOMAIN files)
  BY <1>1, <1>5, <1>7 DEF Fits
<1>9. Carries(r, named[p], DOMAIN src)
  BY <1>5 DEF Carries
<1> QED
  BY <1>2, <1>4, <1>5, <1>6, <1>8, <1>9, QuietFrame DEF ListDB

LEMMA StructureDeleteDB ==
    ASSUME Structure, NEW p \in Task, DeleteDB(p) PROVE Structure'
<1>1. /\ run[p] \in Runs /\ run \in [Task -> Runs] /\ Fits(run[p], named[p], DOMAIN files)
      /\ run[p].at = "drop" /\ World
  BY Typed DEF Structure, DeleteDB, At
<1>2. run[p].op = "delete"
  BY <1>1 DEF Fits
<1>3. CASE run[p].dbs = {}
  <2>1. PICK end \in Ended : End(p, end)
    BY <1>3 DEF DeleteDB, Ended
  <2>2. UNCHANGED <<ncp, source, dst, files, before, named, cut>>
    BY <1>3 DEF DeleteDB
  <2> QED
    BY <1>1, <2>1, <2>2, StructureEnd
<1>4. CASE run[p].dbs # {}
  <2>1. PICK d \in run[p].dbs :
           /\ run' = [run EXCEPT ![p].dbs = @ \ {d}]
           /\ dst' = [x \in DOMAIN dst \ {d} |-> dst[x]]
           /\ named' = [named EXCEPT ![p] = @ \cup ({d} \X Table)]
    BY <1>4 DEF DeleteDB
  <2>2. PICK r : r = [run[p] EXCEPT !.dbs = @ \ {d}]
    OBVIOUS
  <2>3. run' = [run EXCEPT ![p] = r] /\ UNCHANGED <<ncp, source, files, before, cut>>
    BY <1>1, <2>1, <2>2 DEF DeleteDB
  <2>4. /\ r.at = "drop" /\ r.op = run[p].op /\ r.db = run[p].db /\ r.pc = run[p].pc
        /\ r.script = run[p].script /\ d \in Database
    BY <1>1, <2>2 DEF Runs
  <2>5. r \in Runs
    BY <1>1, <2>2 DEF Runs
  <2>6. named' \in [Task -> SUBSET (Database \X Table)] /\ \A q \in Task \ {p} : named'[q] = named[q]
    BY <1>1, <2>1, <2>4 DEF World
  <2>7. DstTyped'
    <3>1. DOMAIN dst' = DOMAIN dst \ {d} /\ \A x \in DOMAIN dst' : dst'[x] = dst[x]
      BY <2>1
    <3> QED
      BY <1>1, <3>1 DEF DstTyped, World
  <2>8. World'
    BY <1>1, <2>3, <2>6, <2>7 DEF World, DstTyped, source
  <2>9. Fits(r, named'[p], DOMAIN files')
    BY <1>1, <1>2, <2>3, <2>4 DEF Fits
  <2>10. Carries(r, named'[p], DOMAIN src)
    BY <2>4 DEF Carries
  <2>11. DOMAIN src' = DOMAIN src /\ DOMAIN files \subseteq DOMAIN files'
    BY <2>3 DEF source
  <2>12. \A e \in DOMAIN files' : Script(files'[e], e)
            /\ ((e \in DOMAIN files /\ files'[e] = files[e]) \/ (r.op = "backup" /\ r.db = e))
    BY <2>3 DEF Structure, FilesAreScripts
  <2> QED
    BY <2>3, <2>4, <2>5, <2>6, <2>8, <2>9, <2>10, <2>11, <2>12, StructureFrame
<1> QED
  BY <1>3, <1>4

LEMMA StructureUser ==
    ASSUME Structure, UserWrites PROVE Structure'
<1>1. PICK t \in DOMAIN src : \E rows \in SUBSET Row : Change(t, rows)
  <2>1. PICK t \in DOMAIN src : \E r \in Row : Change(t, src[t] \cup {r}) \/ Change(t, src[t] \ {r})
    BY DEF UserWrites
  <2>2. src[t] \subseteq Row
    BY Typed DEF World
  <2> QED
    BY <2>1, <2>2
<1>2. PICK rows \in SUBSET Row : Change(t, rows)
  BY <1>1
<1>3. World /\ t \in Table
  BY Typed
<1>4. /\ src' = [src EXCEPT ![t] = rows] /\ writes < Writes /\ writes' = writes + 1
      /\ stable' = {x \in stable : x[1] = t => x[2] \in rows}
      /\ ever' = ever \cup ({t} \X rows)
      /\ UNCHANGED <<ncp, dst, files, run, before, named, cut>>
  BY <1>2 DEF Change
<1>5. DOMAIN src' = DOMAIN src /\ src' \in [DOMAIN src' -> SUBSET Row]
  BY <1>3, <1>4 DEF World
<1>6. writes' \in 0 .. Writes
  BY <1>3, <1>4, WritesAssumption DEF World
<1>7. stable' \subseteq Table \X Row /\ ever' \subseteq Table \X Row
  BY <1>3, <1>4 DEF World
<1>8. World'
  BY <1>3, <1>4, <1>5, <1>6, <1>7 DEF World
<1>9. TypeOK'
  <2>1. run' \in [Task -> Runs] /\ \A q \in Task : run'[q].pc <= Len(run'[q].script) + 1
    BY <1>4 DEF Structure, TypeOK
  <2> QED
    BY <1>8, <2>1 DEF World, TypeOK
<1>10. FilesAreScripts'
  BY <1>4 DEF Structure, FilesAreScripts, NoBackup
<1>11. \A q \in Task : Fits(run'[q], named'[q], DOMAIN files') /\ Carries(run'[q], named'[q], DOMAIN src')
  BY <1>4, <1>5 DEF Structure
<1> QED
  BY <1>9, <1>10, <1>11 DEF Structure

LEMMA StructureStays ==
    ASSUME Structure, UNCHANGED vars PROVE Structure'
<1>1. UNCHANGED <<ncp, src, writes, stable, ever, dst, files, run, before, named, cut>>
  BY DEF vars, source
<1>2. TypeOK'
  BY <1>1 DEF Structure, TypeOK
<1>3. FilesAreScripts'
  BY <1>1 DEF Structure, FilesAreScripts, NoBackup
<1> QED
  BY <1>1, <1>2, <1>3 DEF Structure

LEMMA StructureNext ==
    ASSUME Structure, [Next]_vars PROVE Structure'
<1>1. CASE UNCHANGED vars
  BY <1>1, StructureStays
<1>2. CASE UserWrites
  BY <1>2, StructureUser
<1>3. ASSUME NEW p \in Task, Start(p) PROVE Structure'
  BY <1>3, StructureStart
<1>4. ASSUME NEW p \in Task, Work(p) PROVE Structure'
  <2>1. CASE ListTable(p)
    BY <2>1, StructureListTable
  <2>2. CASE GetInsert(p)
    BY <2>2, StructureGetInsert
  <2>3. CASE Copy(p)
    BY <2>3, StructureCopy
  <2>4. CASE CreateFile(p)
    BY <2>4, StructureCreateFile
  <2>5. CASE WriteString(p)
    BY <2>5, StructureWriteString
  <2>6. CASE ReadFile(p)
    BY <2>6, StructureReadFile
  <2>7. CASE Statement(p)
    BY <2>7, StructureStatement
  <2>8. CASE Refused(p)
    BY <2>8, StructureRefused
  <2>9. CASE Done(p)
    BY <2>9, StructureDone
  <2>10. CASE ListDB(p)
    BY <2>10, StructureListDB
  <2>11. CASE DeleteDB(p)
    BY <2>11, StructureDeleteDB
  <2>12. CASE Fail(p)
    BY <2>12, StructureFail
  <2> QED
    BY <1>4, <2>1, <2>2, <2>3, <2>4, <2>5, <2>6, <2>7, <2>8, <2>9, <2>10, <2>11, <2>12 DEF Work
<1> QED
  BY <1>1, <1>2, <1>3, <1>4 DEF Next

\* The types of the state, whatever is read, torn off and tried again: every
\* statement of a script is one, and no task is past the end of its script.
\* (mysql.go: Exec, GetInsert; rdbc.go: Get, Put)
THEOREM TypeInvariant == Spec => []TypeOK
<1>1. Init => Structure
  BY StructureInit
<1>2. Structure /\ [Next]_vars => Structure'
  BY StructureNext
<1>3. Structure => TypeOK
  BY DEF Structure
<1> QED
  BY <1>1, <1>2, <1>3, PTL DEF Spec

\* A file is a script or the beginning of one, also when a backup has been cut
\* off while it wrote: its database first, every table dropped before it is
\* created and created before it is filled.  A file that no backup touches
\* creates every table that it names.  (rdbc.go: Get; task.go: handleRDBMSBackupTask)
THEOREM FilesAreScriptsInvariant == Spec => []FilesAreScripts
<1>1. Init => Structure
  BY StructureInit
<1>2. Structure /\ [Next]_vars => Structure'
  BY StructureNext
<1>3. Structure => FilesAreScripts
  BY DEF Structure
<1> QED
  BY <1>1, <1>2, <1>3, PTL DEF Spec

---------------------------------------------------------------------------------
(* What a step may do.                                                          *)

\* History only grows, tasks keep what they are for, and a file that no backup
\* writes stays what it is.
Later ==
    /\ before' = before /\ DOMAIN src' = DOMAIN src
    /\ stable' \subseteq stable /\ ever \subseteq ever' /\ cut \subseteq cut'
    /\ \A d \in DOMAIN files : NoBackup(d)' => d \in DOMAIN files' /\ files'[d] = files[d]
    /\ \A q \in Task : /\ named[q] \subseteq named'[q]
                       /\ run[q].op # "none" => run'[q].op = run[q].op /\ run'[q].db = run[q].db
                       /\ At(q, "failed") => At(q, "failed")'

\* A task stays where it is in its script, or has none before and after.
KeepsPlace(q) ==
    \/ /\ At(q, "exec") /\ At(q, "exec")' /\ run'[q].script = run[q].script
       /\ run'[q].pc = run[q].pc /\ run'[q].again = run[q].again
    \/ ~ At(q, "exec") /\ ~ At(q, "exec")'

Others(p) == \A q \in Task \ {p} : run'[q] = run[q] /\ named'[q] = named[q]

\* A step that does nothing to the target and names nothing.
Calm ==
    /\ dst' = dst /\ named' = named
    /\ \A q \in Task : At(q, "failed")' \/ KeepsPlace(q)

\* What a file holds; the tables that a script names.
Holds(p, d)   == IF run[p].op = "restore" THEN files[d] ELSE createSql(d)
Tables(script) == {script[i].table : i \in 3 .. Len(script)}

\* Where a script comes from: from the source, or out of a file.
Takes(p, d, tables) ==
    \/ /\ run[p].op = "migrate" /\ At(p, "read") /\ run[p].todo = {} /\ run[p].db = d
       /\ run'[p].script = run[p].script /\ tables = DOMAIN src
    \/ /\ run[p].op # "migrate" /\ run'[p].script = Holds(p, d)
       /\ run[p].op = "restore" => d \in DOMAIN files
       /\ tables = Tables(Holds(p, d))

\* A task takes up a script of database d that names these tables.
Puts(p, d, tables) ==
    /\ Takes(p, d, tables)
    /\ dst' = dst /\ Others(p)
    /\ ~ At(p, "exec") /\ At(p, "exec")' /\ run'[p].pc = 1 /\ run[p].op \in Writers
    /\ \A x \in named[p] : x[1] # d
    /\ named'[p] = named[p] \cup ({d} \X tables)
    /\ tables # {} => run'[p].script # <<>>
    /\ run'[p].script # <<>> => run'[p].script[1].db = d

\* The script is run once more from its start.
Retries(p) ==
    /\ dst' = dst /\ Others(p) /\ named' = named
    /\ At(p, "exec") /\ At(p, "exec")' /\ run'[p].pc = 1
    /\ run[p].script = <<>> <=> run'[p].script = <<>>
    /\ run[p].script # <<>> =>
          /\ run'[p].script[1].db = run[p].script[1].db
          /\ Created(run'[p].script) = Created(run[p].script)
          /\ \A t : Inserted(run'[p].script, t) = Inserted(run[p].script, t)

\* The script is through.
Passes(p) ==
    /\ dst' = dst /\ Others(p) /\ named' = named
    /\ At(p, "exec") /\ ~ At(p, "exec")'
    /\ run[p].script # <<>> /\ run[p].pc = Len(run[p].script) + 1

\* A database is dropped.
Drops(p, d) ==
    /\ Others(p) /\ run[p].op = "delete" /\ run'[p].op = "delete"
    /\ dst' = [x \in DOMAIN dst \ {d} |-> dst[x]]
    /\ named'[p] = named[p] \cup ({d} \X Table)

\* What a step of a task leaves alone: the others, and what the task is for.
Mine(p) ==
    /\ \A q \in Task \ {p} : run'[q] = run[q]
    /\ run[p].op # "none" => run'[p].op = run[p].op /\ run'[p].db = run[p].db
    /\ run[p].at # "failed"

LEMMA MineLater ==
    ASSUME NEW p \in Task, Mine(p), source' = source, before' = before, cut \subseteq cut',
           \A q \in Task : named[q] \subseteq named'[q],
           \A d \in DOMAIN files : NoBackup(d)' => d \in DOMAIN files' /\ files'[d] = files[d]
    PROVE  Later
BY DEF Later, Mine, source, At

LEMMA MineStays ==
    ASSUME Structure, NEW p \in Task, Mine(p), UNCHANGED <<ncp, source, files, before, named>>, cut \subseteq cut'
    PROVE  Later
BY MineLater

\* A step to another place that is no script.
LEMMA CalmStep ==
    ASSUME NEW p \in Task, Mine(p), dst' = dst, named' = named,
           run'[p].at = "failed" \/ (run[p].at # "exec" /\ run'[p].at # "exec")
    PROVE  Calm
BY DEF Calm, KeepsPlace, At, Mine

LEMMA CloseStep ==
    ASSUME Structure, NEW p \in Task, run[p].at \notin {"idle", "failed"}, NEW end \in Ended, End(p, end)
    PROVE  Mine(p) /\ run'[p].at = end
<1>1. PICK r : r = Close(run[p], end)
  OBVIOUS
<1>2. run' = [run EXCEPT ![p] = r]
  BY <1>1, EndStep
<1>3. r.at = end /\ r.op = run[p].op /\ r.db = run[p].db
  BY <1>1, Closed
<1>4. run'[p] = r /\ \A q \in Task \ {p} : run'[q] = run[q]
  BY <1>2, Typed
<1> QED
  BY <1>3, <1>4 DEF Mine

LEMMA CalmEnd ==
    ASSUME Structure, NEW p \in Task, run[p].at \notin {"idle", "failed"}, NEW end \in Ended, End(p, end),
           end = "failed" \/ run[p].at # "exec",
           UNCHANGED <<ncp, source, dst, files, before, named, cut>>
    PROVE  Later /\ Calm
<1>1. Mine(p) /\ run'[p].at = end /\ end # "exec"
  BY CloseStep DEF Ended
<1>2. Later
  BY <1>1, MineStays
<1> QED
  BY <1>1, <1>2, CalmStep

LEMMA StartDoes ==
    ASSUME Structure, NEW p \in Task, Start(p) PROVE Later /\ Calm /\ run'[p].at \in {"list", "failed", "next"}
<1>1. run[p].at = "idle" /\ UNCHANGED world
  BY DEF Start, handleRDBMSMigrateTask, handleRDBMSBackupTask, handleRDBMSDeleteTask,
         handleRDBMSRestoreTask, handleRDBMSGenerateTask, Begin, At
<1>2. run[p] \in Runs /\ run \in [Task -> Runs] /\ run[p].op = "none"
  BY <1>1, Typed DEF Structure, Fits
<1>4. run'[p].at \in {"list", "failed", "next"} /\ \A q \in Task \ {p} : run'[q] = run[q]
  <2>1. ASSUME NEW op, NEW d, Begin(p, op, d, "list")
        PROVE  run'[p].at \in {"list", "failed", "next"} /\ \A q \in Task \ {p} : run'[q] = run[q]
    <3>1. PICK at \in {"list", "failed"} : run' = [run EXCEPT ![p] = [run[p] EXCEPT !.op = op, !.db = d, !.at = at]]
      BY <1>2, <2>1 DEF Begin
    <3> QED
      BY <1>2, <3>1 DEF Runs
  <2>2. ASSUME NEW op, NEW dbs, run' = [run EXCEPT ![p].op = op, ![p].at = "next", ![p].dbs = dbs]
        PROVE  run'[p].at \in {"list", "failed", "next"} /\ \A q \in Task \ {p} : run'[q] = run[q]
    BY <1>2, <2>2 DEF Runs
  <2>3. CASE handleRDBMSMigrateTask(p)
    BY <2>1, <2>3 DEF handleRDBMSMigrateTask
  <2>4. CASE handleRDBMSBackupTask(p)
    BY <2>1, <2>4 DEF handleRDBMSBackupTask
  <2>5. CASE handleRDBMSDeleteTask(p)
    BY <2>1, <2>5 DEF handleRDBMSDeleteTask
  <2>6. CASE handleRDBMSRestoreTask(p)
    BY <2>2, <2>6 DEF handleRDBMSRestoreTask
  <2>7. CASE handleRDBMSGenerateTask(p)
    BY <2>2, <2>7 DEF handleRDBMSGenerateTask
  <2> QED
    BY <2>3, <2>4, <2>5, <2>6, <2>7 DEF Start
<1>5. Mine(p) /\ run'[p].at \in {"list", "failed", "next"}
  BY <1>1, <1>2, <1>4 DEF Mine
<1>6. Later
  BY <1>1, <1>5, MineStays DEF world
<1> QED
  BY <1>1, <1>5, <1>6, CalmStep DEF world

LEMMA ListTableDoes ==
    ASSUME Structure, NEW p \in Task, ListTable(p) PROVE Later /\ Calm /\ run'[p].at = "read"
<1>1. /\ run[p].at = "list" /\ UNCHANGED <<ncp, source, dst, files, before, named>> /\ cut \subseteq cut'
      /\ run[p] \in Runs /\ run \in [Task -> Runs]
  BY Typed DEF ListTable, At
<1>2. /\ \A q \in Task \ {p} : run'[q] = run[q]
      /\ run'[p].op = run[p].op /\ run'[p].db = run[p].db /\ run'[p].at = "read"
  <2>1. PICK tables, s : run' = [run EXCEPT ![p].at = "read", ![p].todo = tables, ![p].script = s]
    BY DEF ListTable
  <2> QED
    BY <1>1, <2>1 DEF Runs
<1>3. Mine(p)
  BY <1>1, <1>2 DEF Mine
<1> QED
  BY <1>1, <1>2, <1>3, MineStays, CalmStep

LEMMA GetInsertDoes ==
    ASSUME Structure, NEW p \in Task, GetInsert(p) PROVE Later /\ Calm
<1>1. /\ run[p].at = "read" /\ UNCHANGED <<ncp, source, dst, files, before, named>> /\ cut \subseteq cut'
      /\ run[p] \in Runs /\ run \in [Task -> Runs]
  BY Typed DEF GetInsert, At
<1>2. /\ \A q \in Task \ {p} : run'[q] = run[q]
      /\ run'[p].op = run[p].op /\ run'[p].db = run[p].db /\ run'[p].at = "read"
  BY <1>1 DEF GetInsert, Runs
<1>3. Mine(p)
  BY <1>1, <1>2 DEF Mine
<1> QED
  BY <1>1, <1>2, <1>3, MineStays, CalmStep

LEMMA ListDBDoes ==
    ASSUME Structure, NEW p \in Task, ListDB(p) PROVE Later /\ Calm
<1>1. /\ run[p].at = "list" /\ UNCHANGED <<ncp, source, dst, files, before, named>> /\ cut \subseteq cut'
      /\ run[p] \in Runs /\ run \in [Task -> Runs]
  BY Typed DEF ListDB, At
<1>2. /\ \A q \in Task \ {p} : run'[q] = run[q]
      /\ run'[p].op = run[p].op /\ run'[p].db = run[p].db /\ run'[p].at = "drop"
  BY <1>1 DEF ListDB, Runs
<1>3. Mine(p)
  BY <1>1, <1>2 DEF Mine
<1> QED
  BY <1>1, <1>2, <1>3, MineStays, CalmStep

\* A backup writes the file of its own database, and no other.
LEMMA OwnFile ==
    ASSUME Structure, NEW p \in Task, run[p].op = "backup", Mine(p),
           NEW script, Write(run[p].db, script),
           UNCHANGED <<ncp, source, dst, before, named, cut>>
    PROVE  Later
<1>1. PICK d : d = run[p].db
  OBVIOUS
<1>2. DOMAIN files' = DOMAIN files \cup {d} /\ \A e \in DOMAIN files : e # d => files'[e] = files[e]
  BY <1>1 DEF Write
<1>3. ASSUME NEW e, NoBackup(e)' PROVE e # d
  BY <1>1, <1>3 DEF NoBackup, Mine
<1>4. \A e \in DOMAIN files : NoBackup(e)' => e \in DOMAIN files' /\ files'[e] = files[e]
  BY <1>2, <1>3
<1> QED
  BY <1>4, MineLater

LEMMA CreateFileDoes ==
    ASSUME Structure, NEW p \in Task, CreateFile(p) PROVE Later /\ Calm
<1>1. /\ run[p].at = "read" /\ run[p].op = "backup" /\ run' = [run EXCEPT ![p].at = "write"]
      /\ Write(run[p].db, <<>>) /\ UNCHANGED <<ncp, source, dst, before, named, cut>>
      /\ run[p] \in Runs /\ run \in [Task -> Runs]
  BY Typed DEF CreateFile, At, Set
<1>2. /\ \A q \in Task \ {p} : run'[q] = run[q]
      /\ run'[p].op = run[p].op /\ run'[p].db = run[p].db /\ run'[p].at = "write"
  BY <1>1 DEF Runs
<1>3. Mine(p)
  BY <1>1, <1>2 DEF Mine
<1>4. Later
  BY <1>1, <1>3, OwnFile
<1> QED
  BY <1>1, <1>2, <1>3, <1>4, CalmStep

LEMMA WriteStringDoes ==
    ASSUME Structure, NEW p \in Task, WriteString(p) PROVE Later /\ Calm
<1>1. run[p].at = "write" /\ run[p].op = "backup" /\ UNCHANGED <<ncp, source, dst, before, named, cut>>
  BY DEF WriteString, At, Structure, Fits
<1>2. PICK n \in 0 .. Len(run[p].script) :
         /\ Write(run[p].db, SubSeq(run[p].script, 1, n))
         /\ End(p, IF n = Len(run[p].script) THEN "completed" ELSE "failed")
  BY DEF WriteString
<1>3. PICK end \in Ended : End(p, end)
  BY <1>2 DEF Ended
<1>4. Mine(p) /\ run'[p].at = end /\ end # "exec"
  <2>1. run[p].at \notin {"idle", "failed"} /\ end # "exec"
    BY <1>1 DEF Ended
  <2> QED
    BY <2>1, <1>3, CloseStep
<1>5. PICK script : Write(run[p].db, script)
  BY <1>2
<1>6. Later
  BY <1>1, <1>4, <1>5, OwnFile
<1> QED
  BY <1>1, <1>4, <1>6, CalmStep

LEMMA FailDoes ==
    ASSUME Structure, NEW p \in Task, Fail(p) PROVE Later /\ Calm
<1>1. run[p].at \notin {"idle", "failed"} /\ UNCHANGED world
  BY DEF Fail
<1>2. PICK end \in Ended : End(p, end) /\ end = "failed"
  BY DEF Fail, Ended
<1> QED
  BY <1>1, <1>2, CalmEnd DEF world

LEMMA UserDoes ==
    ASSUME Structure, UserWrites PROVE Later /\ Calm
<1>1. PICK t \in DOMAIN src : \E rows : Change(t, rows)
  BY DEF UserWrites
<1>2. PICK rows : Change(t, rows)
  BY <1>1
<1>3. /\ src' = [src EXCEPT ![t] = rows]
      /\ stable' = {x \in stable : x[1] = t => x[2] \in rows}
      /\ ever' = ever \cup ({t} \X rows)
      /\ UNCHANGED <<ncp, dst, files, run, before, named, cut>>
  BY <1>2 DEF Change
<1>4. DOMAIN src' = DOMAIN src /\ stable' \subseteq stable /\ ever \subseteq ever'
  BY <1>3
<1>5. Later
  BY <1>3, <1>4 DEF Later, At
<1>6. Calm
  BY <1>3 DEF Calm, KeepsPlace, At
<1> QED
  BY <1>5, <1>6

LEMMA StutterDoes ==
    ASSUME UNCHANGED vars PROVE Later /\ Calm
<1>1. UNCHANGED <<ncp, src, writes, stable, ever, dst, files, run, before, named, cut>>
  BY DEF vars, source
<1>2. Later
  BY <1>1 DEF Later, At
<1>3. Calm
  BY <1>1 DEF Calm, KeepsPlace, At
<1> QED
  BY <1>2, <1>3

LEMMA CopyDoes ==
    ASSUME Structure, NEW p \in Task, Copy(p)
    PROVE  Later /\ \E d \in Database, tables \in SUBSET Table : Puts(p, d, tables)
<1>1. PICK s, d, tables : s = run[p].script /\ d = run[p].db /\ tables = DOMAIN src
  OBVIOUS
<1>2. /\ run[p].at = "read" /\ run[p].op = "migrate" /\ Put(p, s, {}, {d} \X tables)
      /\ UNCHANGED <<ncp, source, dst, files, before, cut>>
      /\ run[p] \in Runs /\ run \in [Task -> Runs] /\ World
  BY <1>1, Typed DEF Copy, At
<1>3. /\ d \in Database /\ Script(s, d) /\ s # <<>> /\ Created(s) \subseteq tables /\ named[p] = {}
      /\ tables \in SUBSET Table
  BY <1>1, <1>2, Typed DEF Structure, Fits, Carries
<1>4. /\ \A q \in Task \ {p} : run'[q] = run[q] /\ named'[q] = named[q]
      /\ run'[p].op = run[p].op /\ run'[p].db = run[p].db /\ run'[p].at = "exec"
      /\ run'[p].pc = 1 /\ run'[p].script = s /\ named'[p] = named[p] \cup ({d} \X tables)
  BY <1>2 DEF Put, Runs, World
<1>5. Mine(p)
  BY <1>2, <1>4 DEF Mine
<1>6. Later
  <2>1. \A q \in Task : named[q] \subseteq named'[q]
    BY <1>4
  <2> QED
    BY <1>2, <1>5, <2>1, MineLater
<1>7. s # <<>> => s[1].db = d
  BY <1>3, FirstOfScript
<1>8. Takes(p, d, tables)
  BY <1>1, <1>2, <1>4 DEF Takes, At, Copy
<1>9. Puts(p, d, tables)
  BY <1>2, <1>3, <1>4, <1>7, <1>8 DEF Puts, Others, At, Writers
<1> QED
  BY <1>3, <1>6, <1>9

ScriptTaken(p, d) == Put(p, Holds(p, d), run[p].dbs \ {d}, {d} \X Tables(Holds(p, d)))

LEMMA HeldIsScript ==
    ASSUME Structure, NEW p, NEW d \in Database, run[p].op = "restore" => d \in DOMAIN files,
           NEW s, s = Holds(p, d)
    PROVE  Script(s, d)
<1>1. CASE run[p].op = "restore"
  BY <1>1 DEF Holds, Structure, FilesAreScripts
<1>2. CASE run[p].op # "restore"
  BY <1>2, Generated DEF Holds
<1> QED
  BY <1>1, <1>2

LEMMA ReadFileDoes ==
    ASSUME Structure, NEW p \in Task, ReadFile(p)
    PROVE  Later /\ (Calm \/ \E d \in Database, tables \in SUBSET Table : Puts(p, d, tables))
<1>1. /\ run[p].at = "next" /\ Fits(run[p], named[p], DOMAIN files) /\ run[p] \in Runs
      /\ run \in [Task -> Runs] /\ World
  BY Typed DEF Structure, ReadFile, At
<1>2. CASE run[p].dbs = {}
  <2>1. UNCHANGED <<ncp, source, dst, files, before, named, cut>> /\ run[p].at \notin {"idle", "failed", "exec"}
    BY <1>1, <1>2 DEF ReadFile
  <2>2. PICK end \in Ended : End(p, end)
    BY <1>2 DEF ReadFile, Ended
  <2> QED
    BY <2>1, <2>2, CalmEnd
<1>3. CASE run[p].dbs # {}
  <2>1. PICK d \in run[p].dbs : ScriptTaken(p, d)
    BY <1>3 DEF ReadFile, ScriptTaken, Holds, Tables
  <2>2. PICK s, left, tables :
           /\ s = Holds(p, d)
           /\ left = run[p].dbs \ {d} /\ tables = Tables(s)
    OBVIOUS
  <2>3. Put(p, s, left, {d} \X tables) /\ UNCHANGED <<ncp, source, dst, files, before, cut>>
    BY <1>3, <2>1, <2>2 DEF ReadFile, ScriptTaken
  <2>4. /\ d \in Database /\ run[p].op \in Writers /\ (run[p].op = "restore" => d \in DOMAIN files)
        /\ \A x \in named[p] : x[1] # d
    BY <1>1 DEF Fits, Runs, Writers
  <2>5. Script(s, d)
    BY <2>2, <2>4, HeldIsScript
  <2>6. s \in Seq(Stmts) /\ tables \in SUBSET Table
    <3>1. s \in Seq(Stmts)
      BY <2>5 DEF Script
    <3>2. \A i \in 3 .. Len(s) : i \in DOMAIN s /\ i > 2
      BY <3>1
    <3> QED
      BY <2>2, <2>5, <3>1, <3>2 DEF Script, Tables
  <2>7. /\ \A q \in Task \ {p} : run'[q] = run[q] /\ named'[q] = named[q]
        /\ run'[p].op = run[p].op /\ run'[p].db = run[p].db /\ run'[p].at = "exec"
        /\ run'[p].pc = 1 /\ run'[p].script = s /\ named'[p] = named[p] \cup ({d} \X tables)
    BY <1>1, <2>3 DEF Put, Runs, World
  <2>8. Mine(p)
    BY <1>1, <2>7 DEF Mine
  <2>9. Later
    <3>1. \A q \in Task : named[q] \subseteq named'[q]
      BY <2>7
    <3> QED
      BY <2>3, <2>8, <3>1, MineLater
  <2>10. s # <<>> => s[1].db = d
    BY <2>5, FirstOfScript
  <2>11. tables # {} => s # <<>>
    BY <2>2 DEF Tables
  <2>12. Takes(p, d, tables)
    <3>1. run[p].op # "migrate"
      BY <1>1 DEF Fits
    <3> QED
      BY <2>2, <2>4, <2>7, <3>1 DEF Takes
  <2>13. Puts(p, d, tables)
    BY <1>1, <2>3, <2>4, <2>7, <2>10, <2>11, <2>12 DEF Puts, Others, At
  <2> QED
    BY <2>4, <2>6, <2>9, <2>13
<1> QED
  BY <1>2, <1>3

LEMMA StatementStays ==
    ASSUME Structure, NEW p \in Task, Statement(p)
    PROVE  /\ Later /\ Others(p) /\ named' = named /\ At(p, "exec") /\ At(p, "exec")'
           /\ run'[p].script = run[p].script /\ run'[p].again = run[p].again
           /\ run'[p].pc = run[p].pc + 1 /\ run[p].pc \in 1 .. Len(run[p].script)
<1>1. /\ run[p].at = "exec" /\ UNCHANGED <<ncp, source, files, before, named, cut>>
      /\ run[p] \in Runs /\ run \in [Task -> Runs]
  BY Typed DEF Statement, At
<1>2. /\ \A q \in Task \ {p} : run'[q] = run[q]
      /\ run'[p].op = run[p].op /\ run'[p].db = run[p].db /\ run'[p].at = "exec"
      /\ run'[p].script = run[p].script /\ run'[p].again = run[p].again /\ run'[p].pc = run[p].pc + 1
  <2>1. PICK use : run' = [run EXCEPT ![p].pc = @ + 1, ![p].use = use]
    BY <1>1 DEF Statement
  <2> QED
    BY <1>1, <2>1 DEF Runs
<1>3. Mine(p) /\ Others(p)
  BY <1>1, <1>2 DEF Mine, Others
<1>4. run[p].pc \in 1 .. Len(run[p].script)
  <2>1. run[p].pc \in Nat \ {0} /\ run[p].pc <= Len(run[p].script) /\ run[p].script \in Seq(Stmts)
    BY <1>1 DEF Runs, Statement
  <2> QED
    BY <2>1
<1> QED
  BY <1>1, <1>2, <1>3, <1>4, MineStays DEF At

\* The second attempt has the tables and the rows of the first.
LEMMA AgainDoes ==
    ASSUME Structure, NEW p \in Task, run[p].at = "exec", Again(p), UNCHANGED world
    PROVE  Later /\ Retries(p)
<1>1. /\ run[p] \in Runs /\ run \in [Task -> Runs] /\ Carries(run[p], named[p], DOMAIN src)
  BY Typed DEF Structure
<1>2. PICK s, e : s = run[p].script /\ e = FormatNCPDatabaseCreateSQL(s)
  OBVIOUS
<1>3. PICK use : run' = [run EXCEPT ![p].again = TRUE, ![p].pc = 1, ![p].use = use, ![p].script = e]
  BY <1>1, <1>2 DEF Again
<1>4. /\ \A q \in Task \ {p} : run'[q] = run[q]
      /\ run'[p].op = run[p].op /\ run'[p].db = run[p].db /\ run'[p].at = "exec"
      /\ run'[p].script = e /\ run'[p].pc = 1
  BY <1>1, <1>3 DEF Runs
<1>5. Mine(p)
  BY <1>4 DEF Mine
<1>6. Later
  BY <1>5, MineStays DEF world
<1>7. DOMAIN e = DOMAIN s
  BY <1>2 DEF FormatNCPDatabaseCreateSQL
<1>8. s \in Seq(Stmts)
  BY <1>1, <1>2 DEF Runs
<1>9. s = <<>> <=> e = <<>>
  <2>1. s = <<>> => e = <<>>
    BY <1>2 DEF FormatNCPDatabaseCreateSQL
  <2>2. ASSUME s # <<>> PROVE 1 \in DOMAIN s
    BY <1>8, <2>2
  <2>3. ASSUME e = <<>> PROVE DOMAIN e = {}
    BY <2>3
  <2> QED
    BY <1>7, <2>1, <2>2, <2>3
<1>10. ASSUME s # <<>>
       PROVE  /\ e[1].db = s[1].db /\ Created(e) = Created(s)
              /\ \A t : Inserted(e, t) = Inserted(s, t)
  <2>1. PICK d : d = s[1].db
    OBVIOUS
  <2>2. d \in Database /\ Script(s, d)
    BY <1>1, <1>2, <1>10, <2>1 DEF Carries
  <2>3. 1 \in DOMAIN s
    BY <1>8, <1>10
  <2>4. /\ \A i \in DOMAIN s : e[i].db = s[i].db /\ e[i].table = s[i].table
        /\ Created(e) = Created(s) /\ \A t : Inserted(e, t) = Inserted(s, t)
    BY <1>2, <2>2, Formatted
  <2> QED
    BY <2>3, <2>4
<1>11. Retries(p)
  BY <1>2, <1>4, <1>9, <1>10 DEF Retries, Others, At, world
<1> QED
  BY <1>6, <1>11

LEMMA RefusedDoes ==
    ASSUME Structure, NEW p \in Task, Refused(p)
    PROVE  Later /\ (Calm \/ Retries(p))
<1>1. run[p].at = "exec" /\ UNCHANGED world
  BY DEF Refused, At
<1>2. CASE run[p].again
  <2>1. PICK end \in Ended : End(p, end) /\ end = "failed"
    BY <1>2 DEF Refused, Ended
  <2>2. run[p].at \notin {"idle", "failed"}
    BY <1>1
  <2> QED
    BY <1>1, <2>1, <2>2, CalmEnd DEF world
<1>3. CASE ~ run[p].again
  BY <1>1, <1>3, AgainDoes DEF Refused
<1> QED
  BY <1>2, <1>3

LEMMA DoneDoes ==
    ASSUME Structure, NEW p \in Task, Done(p) PROVE Later /\ Passes(p) /\ ~ At(p, "failed")'
<1>1. /\ run[p].at = "exec" /\ UNCHANGED world /\ run[p].script # <<>>
      /\ run[p].pc = Len(run[p].script) + 1 /\ Through(p)
      /\ run[p] \in Runs /\ run \in [Task -> Runs]
  BY Typed DEF Done, At
<1>2. Mine(p) /\ run'[p].at \in {"completed", "next"}
  <2>1. CASE run[p].op = "migrate"
    <3>1. PICK end \in Ended : End(p, end) /\ end = "completed"
      BY <1>1, <2>1 DEF Through, Ended
    <3>2. run[p].at \notin {"idle", "failed"}
      BY <1>1
    <3> QED
      BY <3>1, <3>2, CloseStep
  <2>2. CASE run[p].op # "migrate"
    <3>1. run' = [run EXCEPT ![p].at = "next", ![p].script = <<>>, ![p].pc = 1, ![p].again = FALSE]
      BY <1>1, <2>2 DEF Through
    <3>2. /\ \A q \in Task \ {p} : run'[q] = run[q]
          /\ run'[p].op = run[p].op /\ run'[p].db = run[p].db /\ run'[p].at = "next"
      BY <1>1, <3>1 DEF Runs
    <3> QED
      BY <1>1, <3>2 DEF Mine
  <2> QED
    BY <2>1, <2>2
<1>3. Later
  BY <1>1, <1>2, MineStays DEF world
<1>4. Passes(p)
  BY <1>1, <1>2 DEF Passes, Others, At, world, Mine
<1> QED
  BY <1>2, <1>3, <1>4 DEF At

LEMMA DeleteDBDoes ==
    ASSUME Structure, NEW p \in Task, DeleteDB(p)
    PROVE  Later /\ (Calm \/ \E d \in Database : Drops(p, d))
<1>1. /\ run[p].at = "drop" /\ Fits(run[p], named[p], DOMAIN files) /\ run[p] \in Runs
      /\ run \in [Task -> Runs] /\ World
  BY Typed DEF Structure, DeleteDB, At
<1>2. run[p].op = "delete"
  BY <1>1 DEF Fits
<1>3. CASE run[p].dbs = {}
  <2>1. UNCHANGED <<ncp, source, dst, files, before, named, cut>> /\ run[p].at \notin {"idle", "failed", "exec"}
    BY <1>1, <1>3 DEF DeleteDB
  <2>2. PICK end \in Ended : End(p, end)
    BY <1>3 DEF DeleteDB, Ended
  <2> QED
    BY <2>1, <2>2, CalmEnd
<1>4. CASE run[p].dbs # {}
  <2>1. PICK d \in run[p].dbs :
           /\ run' = [run EXCEPT ![p].dbs = @ \ {d}]
           /\ dst' = [x \in DOMAIN dst \ {d} |-> dst[x]]
           /\ named' = [named EXCEPT ![p] = @ \cup ({d} \X Table)]
    BY <1>4 DEF DeleteDB
  <2>2. d \in Database /\ UNCHANGED <<ncp, source, files, before, cut>>
    BY <1>1 DEF Runs, DeleteDB
  <2>3. /\ \A q \in Task \ {p} : run'[q] = run[q] /\ named'[q] = named[q]
        /\ run'[p].op = run[p].op /\ run'[p].db = run[p].db
        /\ named'[p] = named[p] \cup ({d} \X Table)
    BY <1>1, <2>1 DEF Runs, World
  <2>4. Mine(p)
    BY <1>1, <2>3 DEF Mine
  <2>5. Later
    <3>1. \A q \in Task : named[q] \subseteq named'[q]
      BY <2>3
    <3> QED
      BY <2>2, <2>4, <3>1, MineLater
  <2>6. Drops(p, d)
    BY <1>2, <2>1, <2>3 DEF Drops, Others
  <2> QED
    BY <2>2, <2>5, <2>6
<1> QED
  BY <1>3, <1>4

\* Every step of the program is one of these.
LEMMA StepKinds ==
    ASSUME Structure, [Next]_vars
    PROVE  /\ Later
           /\ \/ Calm
              \/ \E p \in Task : Statement(p)
              \/ \E p \in Task : Retries(p)
              \/ \E p \in Task : Passes(p) /\ ~ At(p, "failed")'
              \/ \E p \in Task : \E d \in Database, tables \in SUBSET Table : Puts(p, d, tables)
              \/ \E p \in Task : \E d \in Database : Drops(p, d)
<1>1. CASE UNCHANGED vars
  BY <1>1, StutterDoes
<1>2. CASE UserWrites
  BY <1>2, UserDoes
<1>3. ASSUME NEW p \in Task, Start(p) PROVE Later /\ Calm
  BY <1>3, StartDoes
<1>4. ASSUME NEW p \in Task, Work(p)
      PROVE  /\ Later
             /\ \/ Calm \/ Statement(p) \/ Retries(p) \/ (Passes(p) /\ ~ At(p, "failed")')
                \/ \E d \in Database, tables \in SUBSET Table : Puts(p, d, tables)
                \/ \E d \in Database : Drops(p, d)
  <2>1. CASE ListTable(p) \/ GetInsert(p) \/ CreateFile(p) \/ WriteString(p) \/ ListDB(p) \/ Fail(p)
    BY <2>1, ListTableDoes, GetInsertDoes, CreateFileDoes, WriteStringDoes, ListDBDoes, FailDoes
  <2>2. CASE Copy(p)
    BY <2>2, CopyDoes
  <2>3. CASE ReadFile(p)
    BY <2>3, ReadFileDoes
  <2>4. CASE Statement(p)
    BY <2>4, StatementStays
  <2>5. CASE Refused(p)
    BY <2>5, RefusedDoes
  <2>6. CASE Done(p)
    BY <2>6, DoneDoes
  <2>7. CASE DeleteDB(p)
    BY <2>7, DeleteDBDoes
  <2> QED
    BY <1>4, <2>1, <2>2, <2>3, <2>4, <2>5, <2>6, <2>7 DEF Work
<1> QED
  BY <1>1, <1>2, <1>3, <1>4 DEF Next

---------------------------------------------------------------------------------
(* What the target keeps.                                                       *)

LEMMA DropsDoes ==
    ASSUME NEW p, NEW d, Drops(p, d), NEW e, NEW t, e # d PROVE Same(e, t)
BY DEF Drops, Same, Has, RowsOf

LEMMA SameWhenKept ==
    ASSUME dst' = dst, NEW d, NEW t PROVE Same(d, t)
BY DEF Same, Has, RowsOf

\* A table that is not named after a step has not been changed by it.
LEMMA NotNamed ==
    ASSUME Structure, [Next]_vars, NEW d \in Database, NEW t \in Table,
           \A p \in Task : <<d, t>> \notin named'[p]
    PROVE  Same(d, t)
<1>1. Later
  BY StepKinds
<1>2. CASE dst' = dst
  BY <1>2, SameWhenKept
<1>3. ASSUME NEW p \in Task, Statement(p) PROVE Same(d, t)
  <2>1. PICK e, stmt : e = run[p].script[1].db /\ stmt = Now(p)
    OBVIOUS
  <2>2. Heads(p) \/ Turns(p, e, stmt.table, stmt.kind, stmt.row)
    BY <1>3, <2>1, StatementDoes
  <2>3. <<d, t>> \notin named[p]
    BY <1>3, StatementStays
  <2> QED
    BY <2>2, <2>3 DEF Heads, Turns
<1>4. ASSUME NEW p \in Task, NEW e \in Database, Drops(p, e) PROVE Same(d, t)
  <2>1. d # e
    BY <1>4 DEF Drops
  <2> QED
    BY <1>4, <2>1, DropsDoes
<1> QED
  BY <1>2, <1>3, <1>4, StepKinds DEF Calm, Retries, Passes, Puts

LEMMA UntouchedNext ==
    ASSUME Structure, OthersUntouched, [Next]_vars PROVE OthersUntouched'
<1>1. Later
  BY StepKinds
<1>2. ASSUME NEW d \in Database, NEW t \in Table, \A p \in Task : <<d, t>> \notin named'[p]
      PROVE  RowsOf(d, t)' = IF d \in DOMAIN before' /\ t \in DOMAIN before'[d] THEN before'[d][t] ELSE {}
  <2>1. Same(d, t)
    BY <1>2, NotNamed
  <2>2. \A p \in Task : <<d, t>> \notin named[p]
    BY <1>1, <1>2 DEF Later
  <2>3. RowsOf(d, t) = IF d \in DOMAIN before /\ t \in DOMAIN before[d] THEN before[d][t] ELSE {}
    BY <2>2 DEF OthersUntouched
  <2>4. before' = before
    BY <1>1 DEF Later
  <2> QED
    BY <2>1, <2>3, <2>4 DEF Same
<1> QED
  BY <1>2 DEF OthersUntouched

LEMMA UntouchedInit ==
    ASSUME Init PROVE OthersUntouched
<1>1. before = dst
  BY DEF Init
<1> QED
  BY <1>1 DEF OthersUntouched, RowsOf, Has

\* Whatever tasks do to their own tables, fail at and try again, a table that
\* no script has named and no deletion reached is what it was at first.
\* (mysql.go: Exec, DeleteDB; rdbc.go: Put)
THEOREM OthersUntouchedInvariant == Spec => []OthersUntouched
<1>1. Init => Structure /\ OthersUntouched
  BY StructureInit, UntouchedInit
<1>2. Structure /\ OthersUntouched /\ [Next]_vars => Structure' /\ OthersUntouched'
  BY StructureNext, UntouchedNext
<1> QED
  BY <1>1, <1>2, PTL DEF Spec

---------------------------------------------------------------------------------
(* What a task may be held to only becomes less.                                *)

LEMMA NamedHasOp ==
    ASSUME Structure, NEW p \in Task, NEW x \in named[p] PROVE run[p].op # "none" /\ x \in Database \X Table
<1>1. Fits(run[p], named[p], DOMAIN files) /\ named[p] \subseteq Database \X Table
  BY Typed DEF Structure, World
<1>2. run[p].at # "idle"
  BY <1>1 DEF Fits
<1> QED
  BY <1>1, <1>2 DEF Fits

LEMMA NoBackupBefore ==
    ASSUME Later, NEW d, NoBackup(d)' PROVE NoBackup(d)
BY DEF Later, NoBackup

LEMMA HonestBefore ==
    ASSUME Later, NEW p \in Task, NEW d, run[p].op # "none", Honest(p, d)' PROVE Honest(p, d)
<1>1. run'[p].op = run[p].op /\ p \notin cut /\ ~ At(p, "failed")
  BY DEF Later, Honest
<1>2. run[p].op \in Writers /\ (run[p].op = "restore" => NoBackup(d)')
  BY <1>1 DEF Honest
<1> QED
  BY <1>1, <1>2, NoBackupBefore DEF Honest

LEMMA AloneBefore ==
    ASSUME Later, NEW p \in Task, NEW d, Alone(p, d)' PROVE Alone(p, d)
BY DEF Later, Alone

\* What must and what may be in a table, when no backup writes the file meanwhile.
LEMMA BoundsLater ==
    ASSUME Later, NEW p \in Task, NEW d, NEW t, run[p].op # "none",
           run[p].op = "restore" => NoBackup(d)' /\ d \in DOMAIN files
    PROVE  AtLeast(p, d, t)' \subseteq AtLeast(p, d, t) /\ AtMost(p, d, t) \subseteq AtMost(p, d, t)'
<1>1. run'[p].op = run[p].op /\ stable' \subseteq stable /\ ever \subseteq ever'
  BY DEF Later
<1>2. CASE run[p].op = "restore"
  <2>1. files'[d] = files[d]
    BY <1>2 DEF Later
  <2>2. FileRows(d, t)' = FileRows(d, t)
    BY <2>1 DEF FileRows
  <2>3. /\ AtLeast(p, d, t)' = FileRows(d, t)' /\ AtLeast(p, d, t) = FileRows(d, t)
        /\ AtMost(p, d, t)' = FileRows(d, t)' /\ AtMost(p, d, t) = FileRows(d, t)
    BY <1>1, <1>2 DEF AtLeast, AtMost
  <2> QED
    BY <2>2, <2>3
<1>3. CASE run[p].op = "generate"
  BY <1>1, <1>3 DEF AtLeast, AtMost
<1>4. CASE run[p].op \notin {"restore", "generate"}
  <2>1. /\ AtLeast(p, d, t)' = Read(OfTable(stable', t)) /\ AtLeast(p, d, t) = Read(OfTable(stable, t))
        /\ AtMost(p, d, t)' = Read(OfTable(ever', t)) /\ AtMost(p, d, t) = Read(OfTable(ever, t))
    BY <1>1, <1>4 DEF AtLeast, AtMost
  <2>2. Read(OfTable(stable', t)) \subseteq Read(OfTable(stable, t))
        /\ Read(OfTable(ever, t)) \subseteq Read(OfTable(ever', t))
    BY <1>1 DEF Read, OfTable
  <2> QED
    BY <2>1, <2>2
<1> QED
  BY <1>2, <1>3, <1>4

\* A restore has had in hand only databases of which there is a file.
LEMMA NamedHasFile ==
    ASSUME Structure, NEW p \in Task, NEW d, NEW t, <<d, t>> \in named[p], run[p].op = "restore"
    PROVE  d \in DOMAIN files
BY DEF Structure, Fits

\* What a script brings, it still brings later, and so does its second form.
LEMMA BringsLater ==
    ASSUME Later, NEW p \in Task, NEW d, NEW t, run[p].op # "none",
           run[p].op = "restore" => NoBackup(d)' /\ d \in DOMAIN files,
           Created(run'[p].script) = Created(run[p].script),
           Inserted(run'[p].script, t) = Inserted(run[p].script, t),
           Brings(p, d, t)
    PROVE  Brings(p, d, t)'
<1>1. AtLeast(p, d, t)' \subseteq AtLeast(p, d, t) /\ AtMost(p, d, t) \subseteq AtMost(p, d, t)'
  BY BoundsLater
<1> QED
  BY <1>1 DEF Brings

---------------------------------------------------------------------------------
(* The source, and the scripts that are read from it.                           *)

LEMMA SourceInit ==
    ASSUME Init PROVE SourceBounds
<1>1. PICK tables \in Schemas : src = [t \in tables |-> Row]
  BY DEF Init
<1>2. stable = {x \in Table \X Row : x[1] \in DOMAIN src /\ x[2] \in src[x[1]]} /\ ever = stable
  BY DEF Init
<1>3. ASSUME NEW t \in DOMAIN src
      PROVE  OfTable(stable, t) \subseteq src[t] /\ src[t] \subseteq OfTable(ever, t)
  <2>1. src[t] = Row /\ t \in Table
    BY <1>1, <1>3, SchemaAssumption
  <2>2. ASSUME NEW r \in Row PROVE r \in OfTable(ever, t)
    <3>1. <<t, r>> \in ever
      BY <1>2, <2>1
    <3>2. <<t, r>>[1] = t /\ <<t, r>>[2] = r
      OBVIOUS
    <3> QED
      BY <3>1, <3>2 DEF OfTable
  <2>3. OfTable(stable, t) \subseteq Row
    BY <1>2 DEF OfTable
  <2> QED
    BY <2>1, <2>2, <2>3
<1> QED
  BY <1>3 DEF SourceBounds

LEMMA SourceUser ==
    ASSUME Structure, SourceBounds, UserWrites PROVE SourceBounds'
<1>1. PICK t \in DOMAIN src : \E rows : Change(t, rows)
  BY DEF UserWrites
<1>2. PICK rows : Change(t, rows)
  BY <1>1
<1>3. /\ src' = [src EXCEPT ![t] = rows]
      /\ stable' = {x \in stable : x[1] = t => x[2] \in rows}
      /\ ever' = ever \cup ({t} \X rows)
  BY <1>2 DEF Change
<1>4. ASSUME NEW u \in DOMAIN src'
      PROVE  OfTable(stable', u) \subseteq src'[u] /\ src'[u] \subseteq OfTable(ever', u)
  <2>1. CASE u = t
    <3>1. src'[u] = rows
      BY <1>3, <2>1
    <3>2. OfTable(stable', u) \subseteq rows
      BY <1>3, <2>1 DEF OfTable
    <3>3. ASSUME NEW r \in rows PROVE r \in OfTable(ever', u)
      <4>1. <<t, r>> \in ever' /\ <<t, r>>[1] = t /\ <<t, r>>[2] = r
        BY <1>3
      <4> QED
        BY <2>1, <4>1 DEF OfTable
    <3> QED
      BY <3>1, <3>2, <3>3
  <2>2. CASE u # t
    <3>1. u \in DOMAIN src /\ src'[u] = src[u]
      BY <1>3, <2>2
    <3>2. OfTable(stable', u) \subseteq OfTable(stable, u) /\ OfTable(ever, u) \subseteq OfTable(ever', u)
      BY <1>3 DEF OfTable
    <3> QED
      BY <3>1, <3>2 DEF SourceBounds
  <2> QED
    BY <2>1, <2>2
<1> QED
  BY <1>4 DEF SourceBounds

\* Only users change the source.
LEMMA SourceNext ==
    ASSUME Structure, SourceBounds, [Next]_vars PROVE SourceBounds'
<1>1. CASE UserWrites
  BY <1>1, SourceUser
<1>2. CASE source' = source
  BY <1>2 DEF SourceBounds, source
<1>3. CASE UNCHANGED vars
  BY <1>2, <1>3 DEF vars
<1>4. ASSUME NEW p \in Task, Start(p) PROVE source' = source
  BY <1>4 DEF Start, handleRDBMSMigrateTask, handleRDBMSBackupTask, handleRDBMSDeleteTask,
              handleRDBMSRestoreTask, handleRDBMSGenerateTask, Begin, world
<1>5. ASSUME NEW p \in Task, Work(p) PROVE source' = source
  BY <1>5 DEF Work, ListTable, GetInsert, Copy, CreateFile, WriteString, ReadFile, Statement,
              Refused, Done, ListDB, DeleteDB, Fail, world
<1> QED
  BY <1>1, <1>2, <1>3, <1>4, <1>5 DEF Next

\* Reading begins with ListTable, and goes on until the script is complete.
LEMMA Reads ==
    ASSUME Structure, NEW p \in Task, Start(p) \/ Work(p), run'[p].at \in {"read", "write"}
    PROVE  ListTable(p) \/ GetInsert(p) \/ CreateFile(p)
<1>1. run[p] \in Runs /\ run \in [Task -> Runs]
  BY Typed
<1>2. ASSUME Start(p) PROVE FALSE
  <2>1. run'[p].at \in {"list", "failed", "next"}
    BY <1>2, StartDoes
  <2> QED
    BY <2>1
<1>3. ASSUME NEW script, NEW left, NEW tables, Put(p, script, left, tables) PROVE FALSE
  BY <1>1, <1>3 DEF Put, Runs
<1>4. ASSUME NEW end \in Ended, End(p, end) PROVE FALSE
  BY <1>1, <1>4 DEF End, Close, Runs, Ended
<1>5. {"completed", "failed"} = Ended
  BY DEF Ended
<1>6. ~ Copy(p)
  BY <1>3 DEF Copy
<1>7. ~ WriteString(p)
  <2>1. ASSUME NEW n, End(p, IF n = Len(run[p].script) THEN "completed" ELSE "failed") PROVE FALSE
    BY <1>4, <1>5, <2>1
  <2> QED
    BY <2>1 DEF WriteString
<1>8. ~ ReadFile(p)
  BY <1>3, <1>4, <1>5 DEF ReadFile
<1>9. ~ Fail(p)
  BY <1>4, <1>5 DEF Fail
<1>10. ~ Statement(p)
  <2>1. ASSUME Statement(p) PROVE FALSE
    BY <2>1, StatementStays DEF At
  <2> QED
    BY <2>1
<1>11. ~ Refused(p)
  <2>1. ASSUME Refused(p) PROVE FALSE
    <3>1. ASSUME Again(p) PROVE FALSE
      <4>1. run'[p].at = run[p].at /\ run[p].at = "exec"
        BY <1>1, <2>1, <3>1 DEF Again, Refused, At, Runs
      <4> QED
        BY <4>1
    <3> QED
      BY <1>4, <1>5, <2>1, <3>1 DEF Refused
  <2> QED
    BY <2>1
<1>12. ~ Done(p)
  <2>1. ASSUME Done(p) PROVE FALSE
    BY <1>1, <1>4, <1>5, <2>1 DEF Done, Through, Runs
  <2> QED
    BY <2>1
<1>13. ~ ListDB(p)
  BY <1>1 DEF ListDB, Runs
<1>14. ~ DeleteDB(p)
  <2>1. ASSUME DeleteDB(p) PROVE FALSE
    <3>1. CASE run[p].dbs = {}
      BY <1>4, <1>5, <2>1, <3>1 DEF DeleteDB
    <3>2. CASE run[p].dbs # {}
      <4>1. run'[p].at = run[p].at /\ run[p].at = "drop"
        <5>1. PICK dbs : run' = [run EXCEPT ![p].dbs = dbs]
          BY <1>1, <2>1, <3>2 DEF DeleteDB
        <5> QED
          BY <1>1, <2>1, <5>1 DEF DeleteDB, At, Runs
      <4> QED
        BY <4>1
    <3> QED
      BY <3>1, <3>2
  <2> QED
    BY <2>1
<1> QED
  BY <1>2, <1>6, <1>7, <1>8, <1>9, <1>10, <1>11, <1>12, <1>13, <1>14 DEF Work

\* A step is a step of one task.
LEMMA StepOf ==
    ASSUME Structure, [Next]_vars, NEW q \in Task
    PROVE  run'[q] = run[q] \/ Start(q) \/ Work(q)
<1>1. run \in [Task -> Runs]
  BY Typed
<1>2. ASSUME UserWrites \/ UNCHANGED vars PROVE run' = run
  BY <1>2 DEF UserWrites, Change, vars
<1>3. ASSUME NEW p \in Task \ {q}, Start(p) PROVE run'[q] = run[q]
  BY <1>1, <1>3 DEF Start, handleRDBMSMigrateTask, handleRDBMSBackupTask, handleRDBMSDeleteTask,
              handleRDBMSRestoreTask, handleRDBMSGenerateTask, Begin
<1>4. ASSUME NEW p \in Task \ {q}, Work(p) PROVE run'[q] = run[q]
  <2>1. ASSUME ListTable(p) \/ GetInsert(p) \/ CreateFile(p) \/ Fail(p) \/ ListDB(p) PROVE run'[q] = run[q]
    BY <1>1, <2>1 DEF ListTable, GetInsert, CreateFile, Fail, ListDB, Set, End
  <2>2. ASSUME Copy(p) \/ ReadFile(p) \/ WriteString(p) PROVE run'[q] = run[q]
    BY <1>1, <2>2 DEF Copy, ReadFile, WriteString, Put, End
  <2>3. ASSUME Statement(p) PROVE run'[q] = run[q]
    BY <1>1, <2>3 DEF Statement
  <2>4. ASSUME Refused(p) \/ Done(p) PROVE run'[q] = run[q]
    BY <1>1, <2>4 DEF Refused, Done, Again, Through, End
  <2>5. ASSUME DeleteDB(p) PROVE run'[q] = run[q]
    BY <1>1, <2>5 DEF DeleteDB, End
  <2> QED
    BY <1>4, <2>1, <2>2, <2>3, <2>4, <2>5 DEF Work
<1> QED
  BY <1>2, <1>3, <1>4 DEF Next

\* What the steps of others leave of what has been read.
LEMMA GatheredKept ==
    ASSUME Structure, Later, NEW p \in Task, Gathered(p), run'[p] = run[p] PROVE Gathered(p)'
<1>1. SUFFICES ASSUME run[p].at \in {"read", "write"}, p \notin cut PROVE Gathered(p)'
  BY DEF Gathered, Later
<1>2. PICK d : d = run[p].db /\ d = run'[p].db
  OBVIOUS
<1>3. DOMAIN src' = DOMAIN src
  BY DEF Later
<1>4. run[p].op \in {"migrate", "backup"}
  BY <1>1 DEF Structure, Fits
<1>5. /\ Created(run[p].script) = DOMAIN src
      /\ \A t \in DOMAIN src :
            /\ t \in run[p].todo /\ run[p].at = "read" => Inserted(run[p].script, t) = {}
            /\ (run[p].at = "write" \/ t \notin run[p].todo) => Brings(p, d, t)
  BY <1>1, <1>2 DEF Gathered, At
<1>6. ASSUME NEW t \in DOMAIN src, run[p].at = "write" \/ t \notin run[p].todo PROVE Brings(p, d, t)'
  BY <1>4, <1>5, <1>6, BringsLater
<1> QED
  BY <1>2, <1>3, <1>5, <1>6 DEF Gathered, At

\* What has been read of the source is between what was there all the time and
\* what was there at some time.
LEMMA ReadIsBetween ==
    ASSUME Structure, SourceBounds, NEW p \in Task, run[p].op \in {"migrate", "backup"},
           NEW d, NEW t \in DOMAIN src
    PROVE  /\ AtLeast(p, d, t) \subseteq Read(src[t]) /\ Read(src[t]) \subseteq AtMost(p, d, t)
<1>1. AtLeast(p, d, t) = Read(OfTable(stable, t)) /\ AtMost(p, d, t) = Read(OfTable(ever, t))
  BY DEF AtLeast, AtMost
<1>2. OfTable(stable, t) \subseteq src[t] /\ src[t] \subseteq OfTable(ever, t)
  BY DEF SourceBounds
<1> QED
  BY <1>1, <1>2 DEF Read

LEMMA GatheredListTable ==
    ASSUME Structure, NEW p \in Task, ListTable(p) PROVE Gathered(p)'
<1>1. run[p] \in Runs /\ Fits(run[p], named[p], DOMAIN files) /\ run \in [Task -> Runs]
  BY Typed DEF Structure
<1>2. PICK form, d : d = run[p].db
        /\ form = (IF ncp /\ run[p].op = "migrate" THEN "ncp_create_db" ELSE "create database")
  OBVIOUS
<1>3. PICK tables \in SUBSET DOMAIN src :
         /\ run' = [run EXCEPT ![p].at = "read", ![p].todo = tables, ![p].script =
                       Head1(d, form) \o Frame(d, InOrder(tables))]
         /\ cut' = IF tables = DOMAIN src THEN cut ELSE cut \cup {p}
  BY <1>2 DEF ListTable
<1>4. PICK s : s = Blank(d, form, tables)
  OBVIOUS
<1>5. /\ d \in Database /\ form \in Creating /\ tables \in SUBSET Table
  BY <1>1, <1>2, Typed DEF ListTable, At, Fits, Creating
<1>6. Created(s) = tables /\ \A t : Inserted(s, t) = {}
  <2>1. PICK form_1 \in Creating, tables_1 \in SUBSET Table : form_1 = form /\ tables_1 = tables
    BY <1>5
  <2>2. s = Blank(d, form_1, tables_1)
    BY <1>4, <2>1
  <2>3. Created(s) = tables_1 /\ \A t : Inserted(s, t) = {}
    BY <1>5, <2>2, Begun
  <2> QED
    BY <2>1, <2>3
<1>7. run'[p].at = "read" /\ run'[p].todo = tables /\ run'[p].script = s
  <2>1. run' = [run EXCEPT ![p].at = "read", ![p].todo = tables, ![p].script = s]
    BY <1>3, <1>4 DEF Blank
  <2> QED
    BY <1>1, <2>1 DEF Runs
<1>8. src' = src
  BY DEF ListTable, source
<1>9. ASSUME p \notin cut' PROVE tables = DOMAIN src
  BY <1>3, <1>9
<1> QED
  BY <1>6, <1>7, <1>8, <1>9 DEF Gathered, At

LEMMA GatheredGetInsert ==
    ASSUME Structure, SourceBounds, Later, NEW p \in Task, Gathered(p), GetInsert(p) PROVE Gathered(p)'
<1>1. /\ run[p] \in Runs /\ run \in [Task -> Runs] /\ Fits(run[p], named[p], DOMAIN files)
      /\ Carries(run[p], named[p], DOMAIN src) /\ run[p].at = "read"
  BY Typed DEF Structure, GetInsert, At
<1>2. PICK d, s : d = run[p].db /\ s = run[p].script
  OBVIOUS
<1>3. PICK t \in run[p].todo : \E rows \in SUBSET src[t] :
         /\ run' = [run EXCEPT ![p].todo = @ \ {t}, ![p].script = @ \o Inserts("insert", d, t, rows)]
         /\ cut' = IF rows = src[t] THEN cut ELSE cut \cup {p}
  BY <1>2 DEF GetInsert
<1>4. PICK rows \in SUBSET src[t] :
         /\ run' = [run EXCEPT ![p].todo = @ \ {t}, ![p].script = @ \o Inserts("insert", d, t, rows)]
         /\ cut' = IF rows = src[t] THEN cut ELSE cut \cup {p}
  BY <1>3
<1>5. PICK more, e : more = Inserts("insert", d, t, rows) /\ e = s \o more
  OBVIOUS
<1>6. /\ run'[p].at = "read" /\ run'[p].todo = run[p].todo \ {t} /\ run'[p].script = e
      /\ run'[p].op = run[p].op /\ run'[p].db = d
  <2>1. run' = [run EXCEPT ![p].todo = @ \ {t}, ![p].script = e]
    BY <1>1, <1>2, <1>4, <1>5
  <2> QED
    BY <1>1, <1>2, <2>1 DEF Runs
<1>7. /\ run[p].op \in {"migrate", "backup"} /\ d \in Database
      /\ Script(s, d) /\ Created(s) \subseteq DOMAIN src /\ run[p].todo \subseteq Created(s)
  BY <1>1, <1>2 DEF Fits, Carries
<1>8. t \in Created(s) /\ t \in DOMAIN src /\ t \in Table /\ rows \in SUBSET Row
  BY <1>7, Typed DEF World
<1>9. /\ more \in Seq(Stmts) /\ Created(e) = Created(s)
      /\ Inserted(e, t) = Inserted(s, t) \cup Read(rows)
      /\ \A u : u # t => Inserted(e, u) = Inserted(s, u)
  <2>1. "insert" \in Filling
    BY DEF Filling
  <2>2. /\ more \in Seq(Stmts) /\ Len(more) = Cardinality(rows) /\ Cardinality(rows) \in Nat
        /\ \A i \in 1 .. Cardinality(rows) : \E v \in Read(rows) : more[i] = Stmt("insert", d, t, v)
        /\ \A v \in Read(rows) : \E i \in 1 .. Cardinality(rows) : more[i] = Stmt("insert", d, t, v)
        /\ Read(rows) \subseteq Value
    BY <1>5, <1>7, <1>8, <2>1, InsertsIs
  <2>3. ASSUME NEW i \in 1 .. Len(more)
        PROVE  /\ more[i].db = d /\ more[i].kind \in Filling
               /\ more[i].table = t /\ more[i].row \in Read(rows)
    <3>1. PICK v \in Read(rows) : more[i] = Stmt("insert", d, t, v)
      BY <2>2
    <3>2. more[i].db = d /\ more[i].kind = "insert" /\ more[i].table = t /\ more[i].row = v
      BY <3>1, Fields
    <3> QED
      BY <2>1, <3>2
  <2>4. \A i \in 1 .. Len(more) : /\ more[i].db = d /\ more[i].kind \in Filling
                                  /\ more[i].table \in Created(s) /\ more[i].row \in Value
    BY <1>8, <2>2, <2>3
  <2>5. Created(e) = Created(s) /\ \A u : Inserted(e, u) = Inserted(s, u) \cup Inserted(more, u)
    <3>1. /\ d \in Database /\ Script(s, d) /\ more \in Seq(Stmts) /\ e = Longer(s, more)
          /\ Fills(more, d, Created(s))
      BY <1>5, <1>7, <2>2, <2>4 DEF Longer, Fills
    <3> QED
      BY <3>1, Extended
  <2>6. DOMAIN more = 1 .. Len(more)
    BY <2>2
  <2>7. \A u : u # t => Inserted(more, u) = {}
    BY <2>3, <2>6 DEF Inserted
  <2>8. Inserted(more, t) \subseteq Read(rows)
    BY <2>3, <2>6 DEF Inserted
  <2>9. ASSUME NEW v \in Read(rows) PROVE v \in Inserted(more, t)
    <3>1. PICK i \in 1 .. Cardinality(rows) : more[i] = Stmt("insert", d, t, v)
      BY <2>2
    <3>2. i \in DOMAIN more /\ more[i].row = v
      BY <2>2, <2>6, <3>1, Fields
    <3> QED
      BY <2>2, <2>3, <3>2 DEF Inserted
  <2> QED
    BY <2>2, <2>5, <2>7, <2>8, <2>9
<1>10. SUFFICES ASSUME p \notin cut' PROVE Gathered(p)'
  BY DEF Gathered
<1>11. rows = src[t] /\ p \notin cut /\ src' = src /\ stable' = stable /\ ever' = ever
  BY <1>4, <1>10 DEF GetInsert, source
<1>12. /\ Created(s) = DOMAIN src
       /\ \A u \in DOMAIN src : /\ u \in run[p].todo => Inserted(s, u) = {}
                                /\ u \notin run[p].todo => Brings(p, d, u)
  BY <1>1, <1>2, <1>11 DEF Gathered, At
<1>13. ASSUME NEW u \in DOMAIN src, u \notin run[p].todo \ {t} PROVE Brings(p, d, u)'
  <2>1. CASE u = t
    <3>1. Inserted(e, u) = Read(src[t])
      BY <1>8, <1>9, <1>11, <1>12, <2>1
    <3>2. AtLeast(p, d, u) \subseteq Read(src[t]) /\ Read(src[t]) \subseteq AtMost(p, d, u)
      BY <1>7, <2>1, ReadIsBetween
    <3>3. AtLeast(p, d, u)' \subseteq AtLeast(p, d, u) /\ AtMost(p, d, u) \subseteq AtMost(p, d, u)'
      BY <1>7, BoundsLater
    <3> QED
      BY <1>6, <1>8, <1>9, <2>1, <3>1, <3>2, <3>3 DEF Brings
  <2>2. CASE u # t
    <3>1. Brings(p, d, u)
      BY <1>12, <1>13, <2>2
    <3>2. Created(run'[p].script) = Created(run[p].script) /\ Inserted(run'[p].script, u) = Inserted(run[p].script, u)
      BY <1>2, <1>6, <1>9, <2>2
    <3> QED
      BY <1>7, <3>1, <3>2, BringsLater
  <2> QED
    BY <2>1, <2>2
<1>14. ASSUME NEW u \in DOMAIN src, u \in run[p].todo \ {t} PROVE Inserted(e, u) = {}
  BY <1>9, <1>12, <1>14
<1> QED
  BY <1>6, <1>9, <1>11, <1>12, <1>13, <1>14 DEF Gathered, At

LEMMA GatheredCreateFile ==
    ASSUME Structure, Later, NEW p \in Task, Gathered(p), CreateFile(p) PROVE Gathered(p)'
<1>1. run[p] \in Runs /\ run \in [Task -> Runs]
  BY Typed
<1>2. /\ run[p].at = "read" /\ run[p].op = "backup" /\ run[p].todo = {} /\ src' = src /\ cut' = cut
      /\ run'[p].at = "write" /\ run'[p].script = run[p].script /\ run'[p].db = run[p].db
  BY <1>1 DEF CreateFile, Set, At, Runs, source
<1>3. SUFFICES ASSUME p \notin cut PROVE Gathered(p)'
  BY <1>2 DEF Gathered
<1>4. Created(run[p].script) = DOMAIN src /\ \A t \in DOMAIN src : Brings(p, run[p].db, t)
  BY <1>2, <1>3 DEF Gathered
<1>5. ASSUME NEW t \in DOMAIN src PROVE Brings(p, run[p].db, t)'
  BY <1>2, <1>4, BringsLater
<1> QED
  BY <1>2, <1>4, <1>5 DEF Gathered, At

LEMMA GatheredNext ==
    ASSUME Structure, SourceBounds, [Next]_vars, NEW p \in Task, Gathered(p) PROVE Gathered(p)'
<1>1. Later
  BY StepKinds
<1>2. CASE run'[p] = run[p]
  BY <1>1, <1>2, GatheredKept
<1>3. CASE run'[p].at \in {"read", "write"} /\ (Start(p) \/ Work(p))
  BY <1>1, <1>3, Reads, GatheredListTable, GatheredGetInsert, GatheredCreateFile
<1>4. CASE run'[p].at \notin {"read", "write"}
  BY <1>4 DEF Gathered
<1> QED
  BY <1>2, <1>3, <1>4, StepOf

---------------------------------------------------------------------------------
(* The scripts that tasks run.                                                  *)

\* A task that neither names nor takes up anything.
Rests(q) == named'[q] = named[q] /\ (At(q, "failed")' \/ KeepsPlace(q))

LEMMA OthersRest ==
    ASSUME NEW p, Others(p), NEW q \in Task, q # p PROVE Rests(q)
BY DEF Others, Rests, KeepsPlace, At

LEMMA CalmRests ==
    ASSUME Calm, NEW q \in Task PROVE Rests(q)
BY DEF Calm, Rests

\* A script at hand is the one that was at hand, or is its second form.
LEMMA LoadedKept ==
    ASSUME Structure, Later, NEW p \in Task, Loaded(p), At(p, "exec"), named'[p] = named[p],
           run[p].script = <<>> <=> run'[p].script = <<>>,
           run[p].script # <<>> =>
               /\ run'[p].script[1].db = run[p].script[1].db
               /\ Created(run'[p].script) = Created(run[p].script)
               /\ \A t : Inserted(run'[p].script, t) = Inserted(run[p].script, t)
    PROVE  Loaded(p)'
<1>1. SUFFICES ASSUME NEW d \in Database, RunsFor(p, d)', Honest(p, d)', NEW t \in Table, <<d, t>> \in named'[p]
               PROVE  Brings(p, d, t)'
  BY DEF Loaded
<1>2. run'[p].script # <<>> /\ run'[p].script[1].db = d
  BY <1>1 DEF RunsFor
<1>3. run[p].script # <<>> /\ run[p].script[1].db = d
  BY <1>2
<1>4. RunsFor(p, d)
  BY <1>3 DEF RunsFor
<1>5. <<d, t>> \in named[p]
  BY <1>1
<1>6. run[p].op # "none"
  BY <1>5, NamedHasOp
<1>7. Honest(p, d)
  BY <1>1, <1>6, HonestBefore
<1>8. Brings(p, d, t)
  BY <1>4, <1>5, <1>7 DEF Loaded
<1>9. run[p].op = "restore" => NoBackup(d)' /\ d \in DOMAIN files
  <2>1. run'[p].op = run[p].op
    BY <1>6 DEF Later
  <2> QED
    BY <1>1, <1>5, <2>1, NamedHasFile DEF Honest
<1> QED
  BY <1>3, <1>6, <1>8, <1>9, BringsLater

LEMMA LoadedRests ==
    ASSUME Structure, Later, NEW p \in Task, Loaded(p), Rests(p) PROVE Loaded(p)'
<1>1. CASE At(p, "exec") /\ At(p, "exec")' /\ run'[p].script = run[p].script
  BY <1>1, LoadedKept DEF Rests
<1>2. CASE ~ At(p, "exec")'
  BY <1>2 DEF Loaded, RunsFor
<1> QED
  BY <1>1, <1>2 DEF Rests, KeepsPlace, At

\* A script that a task takes up has what the task is to bring.
LEMMA LoadedPuts ==
    ASSUME Structure, Later, NEW p \in Task, Gathered(p), NEW d \in Database, NEW tables \in SUBSET Table,
           Puts(p, d, tables)
    PROVE  Loaded(p)'
<1>1. SUFFICES ASSUME NEW e \in Database, RunsFor(p, e)', Honest(p, e)', NEW t \in Table, <<e, t>> \in named'[p]
               PROVE  Brings(p, e, t)'
  BY DEF Loaded
<1>2. e = d
  BY <1>1 DEF RunsFor, Puts
<1>3. t \in tables
  <2>1. <<d, t>> \notin named[p]
    BY DEF Puts
  <2> QED
    BY <1>1, <1>2, <2>1 DEF Puts
<1>4. run[p].op \in Writers /\ run'[p].op = run[p].op /\ p \notin cut
  BY <1>1 DEF Puts, Later, Honest, Writers
<1>5. PICK s : s = run'[p].script
  OBVIOUS
<1>6. CASE run[p].op = "migrate"
  <2>1. /\ At(p, "read") /\ run[p].todo = {} /\ run[p].db = d /\ s = run[p].script
        /\ tables = DOMAIN src
    BY <1>5, <1>6 DEF Puts, Takes
  <2>2. Brings(p, d, t)
    BY <1>3, <1>4, <2>1 DEF Gathered, At
  <2> QED
    BY <1>2, <1>5, <1>6, <2>1, <2>2, BringsLater
<1>7. CASE run[p].op # "migrate"
  <2>1. /\ s = Holds(p, d) /\ tables = Tables(s) /\ (run[p].op = "restore" => d \in DOMAIN files)
    BY <1>5, <1>7 DEF Puts, Takes
  <2>2. CASE run[p].op = "restore"
    <3>1. s = files[d] /\ d \in DOMAIN files /\ NoBackup(d)'
      BY <1>1, <1>2, <1>4, <2>1, <2>2 DEF Holds, Honest
    <3>2. Whole(s) /\ files'[d] = files[d]
      BY <3>1, NoBackupBefore DEF Structure, FilesAreScripts, Later
    <3>3. t \in Created(s)
      BY <1>3, <2>1, <3>2 DEF Tables, Whole
    <3>4. AtLeast(p, d, t)' = FileRows(d, t)' /\ AtMost(p, d, t)' = FileRows(d, t)'
      BY <1>4, <2>2 DEF AtLeast, AtMost
    <3>5. FileRows(d, t)' = Inserted(s, t)
      BY <3>1, <3>2 DEF FileRows
    <3> QED
      BY <1>2, <1>5, <3>3, <3>4, <3>5 DEF Brings
  <2>3. CASE run[p].op # "restore"
    <3>1. run'[p].op = "generate" /\ s = createSql(d)
      BY <1>4, <1>7, <2>1, <2>3 DEF Holds, Writers
    <3>2. Created(s) = Table /\ Inserted(s, t) = Value
      BY <3>1, Generated
    <3>3. AtLeast(p, d, t)' = Value /\ AtMost(p, d, t)' = Value
      BY <3>1 DEF AtLeast, AtMost
    <3> QED
      BY <1>2, <1>5, <3>2, <3>3 DEF Brings
  <2> QED
    BY <2>2, <2>3
<1> QED
  BY <1>6, <1>7

LEMMA LoadedNext ==
    ASSUME Structure, [Next]_vars, NEW q \in Task, Gathered(q), Loaded(q) PROVE Loaded(q)'
<1>1. Later
  BY StepKinds
<1>2. CASE Rests(q)
  BY <1>1, <1>2, LoadedRests
<1>3. ASSUME NEW p \in Task, Others(p), p # q PROVE Loaded(q)'
  BY <1>1, <1>3, OthersRest, LoadedRests
<1>4. ASSUME NEW p \in Task, Statement(p) PROVE Loaded(q)'
  <2>1. CASE p = q
    BY <1>1, <1>4, <2>1, StatementStays, LoadedKept
  <2> QED
    BY <1>3, <1>4, <2>1, StatementStays
<1>5. ASSUME NEW p \in Task, Retries(p) PROVE Loaded(q)'
  <2>1. CASE p = q
    BY <1>1, <1>5, <2>1, LoadedKept DEF Retries
  <2> QED
    BY <1>3, <1>5, <2>1 DEF Retries
<1>6. ASSUME NEW p \in Task, Passes(p) PROVE Loaded(q)'
  <2>1. CASE p = q
    BY <1>6, <2>1 DEF Passes, Loaded, RunsFor
  <2> QED
    BY <1>3, <1>6, <2>1 DEF Passes
<1>7. ASSUME NEW p \in Task, NEW d \in Database, NEW tables \in SUBSET Table, Puts(p, d, tables) PROVE Loaded(q)'
  <2>1. CASE p = q
    BY <1>1, <1>7, <2>1, LoadedPuts
  <2> QED
    BY <1>3, <1>7, <2>1 DEF Puts
<1>8. ASSUME NEW p \in Task, NEW d \in Database, Drops(p, d) PROVE Loaded(q)'
  <2>1. CASE p = q
    BY <1>8, <2>1 DEF Drops, Loaded, Honest, Writers
  <2> QED
    BY <1>3, <1>8, <2>1 DEF Drops
<1> QED
  BY <1>2, <1>4, <1>5, <1>6, <1>7, <1>8, StepKinds, CalmRests

---------------------------------------------------------------------------------
(* The files of backups.                                                        *)

\* A backup is completed when its script is written.
LEMMA Completes ==
    ASSUME Structure, NEW p \in Task, Start(p) \/ Work(p), run'[p].at = "completed", run[p].op = "backup",
           run[p].at # "completed"
    PROVE  WriteString(p)
<1>1. run[p] \in Runs /\ run \in [Task -> Runs] /\ Fits(run[p], named[p], DOMAIN files)
  BY Typed DEF Structure
<1>2. ~ Start(p)
  BY <1>1, StartDoes
<1>3. run[p].at \in {"idle", "list", "read", "write"} \cup Ended
  BY <1>1 DEF Fits, Runs, Writers
<1>4. run[p].at # "exec" /\ run[p].at # "next" /\ run[p].at # "drop"
  BY <1>3 DEF Ended
<1>5. ~ ReadFile(p) /\ ~ Statement(p) /\ ~ Refused(p) /\ ~ Done(p) /\ ~ DeleteDB(p)
  BY <1>4 DEF ReadFile, Statement, Refused, Done, DeleteDB, At
<1>6. ~ Copy(p) /\ ~ ListDB(p)
  BY DEF Copy, ListDB
<1>7. ~ ListTable(p)
  <2>1. ASSUME ListTable(p) PROVE FALSE
    <3>1. run'[p].at = "read"
      BY <2>1, ListTableDoes
    <3> QED
      BY <3>1
  <2> QED
    BY <2>1
<1>8. ~ GetInsert(p)
  <2>1. ASSUME GetInsert(p) PROVE FALSE
    <3>1. PICK tables, s : run' = [run EXCEPT ![p].todo = tables, ![p].script = s]
      BY <1>1, <2>1 DEF GetInsert
    <3>2. run[p].at = "read"
      BY <2>1 DEF GetInsert, At
    <3> QED
      BY <1>1, <3>1, <3>2 DEF Runs
  <2> QED
    BY <2>1
<1>9. ~ CreateFile(p)
  BY <1>1 DEF CreateFile, Set, Runs
<1>10. ~ Fail(p)
  <2>1. ASSUME Fail(p) PROVE FALSE
    <3>1. PICK end \in Ended : End(p, end) /\ end = "failed"
      BY <2>1 DEF Fail, Ended
    <3>2. run[p].at \notin {"idle", "failed"}
      BY <2>1 DEF Fail
    <3>3. run'[p].at = end
      BY <3>1, <3>2, CloseStep
    <3> QED
      BY <3>1, <3>3
  <2> QED
    BY <2>1
<1> QED
  BY <1>2, <1>5, <1>6, <1>7, <1>8, <1>9, <1>10 DEF Work

\* Who writes files.
LEMMA FilesStep ==
    ASSUME [Next]_vars
    PROVE  \/ files' = files
           \/ \E q \in Task : CreateFile(q) \/ WriteString(q)
<1>1. ASSUME UserWrites \/ UNCHANGED vars PROVE files' = files
  BY <1>1 DEF UserWrites, Change, vars
<1>2. ASSUME NEW p \in Task, Start(p) PROVE files' = files
  BY <1>2 DEF Start, handleRDBMSMigrateTask, handleRDBMSBackupTask, handleRDBMSDeleteTask,
              handleRDBMSRestoreTask, handleRDBMSGenerateTask, Begin, world
<1>3. ASSUME NEW p \in Task, Work(p) PROVE files' = files \/ CreateFile(p) \/ WriteString(p)
  BY <1>3 DEF Work, ListTable, GetInsert, Copy, ReadFile, Statement, Refused, Done, ListDB, DeleteDB, Fail, world
<1> QED
  BY <1>1, <1>2, <1>3 DEF Next

\* What may be said of the file of a backup that was whole.
WholeFile(p) ==
    LET d == run[p].db IN
      /\ d \in DOMAIN files /\ Created(files[d]) = DOMAIN src
      /\ \A t \in DOMAIN src : AtLeast(p, d, t) \subseteq FileRows(d, t) /\ FileRows(d, t) \subseteq AtMost(p, d, t)

LEMMA WholeFileKept ==
    ASSUME Structure, [Next]_vars, NEW p \in Task, run[p].op = "backup", run[p].at = "completed",
           \A q \in Task \ {p} : run'[q].op = "backup" => run'[q].db # run'[p].db,
           WholeFile(p)
    PROVE  WholeFile(p)'
<1>1. Later
  BY StepKinds
<1>2. PICK d : d = run[p].db /\ d = run'[p].db
  BY <1>1 DEF Later
<1>3. /\ d \in DOMAIN files /\ Created(files[d]) = DOMAIN src
      /\ \A t \in DOMAIN src : AtLeast(p, d, t) \subseteq FileRows(d, t) /\ FileRows(d, t) \subseteq AtMost(p, d, t)
  BY <1>2 DEF WholeFile
<1>4. d \in DOMAIN files' /\ files'[d] = files[d]
  <2>1. CASE files' = files
    BY <1>3, <2>1
  <2>2. ASSUME NEW q \in Task, CreateFile(q) \/ WriteString(q) PROVE d \in DOMAIN files' /\ files'[d] = files[d]
    <3>1. run[q].at \in {"read", "write"} /\ run[q].op = "backup"
      BY <2>2 DEF CreateFile, WriteString, At, Structure, Fits
    <3>2. q # p
      BY <3>1
    <3>3. run'[q].op = "backup" /\ run'[q].db = run[q].db
      BY <1>1, <3>1 DEF Later
    <3>4. run[q].db # d
      BY <1>2, <3>2, <3>3
    <3>5. PICK script : Write(run[q].db, script)
      BY <2>2 DEF CreateFile, WriteString
    <3> QED
      BY <1>3, <3>4, <3>5 DEF Write
  <2> QED
    BY <2>1, <2>2, FilesStep
<1>5. DOMAIN src' = DOMAIN src
  BY <1>1 DEF Later
<1>6. ASSUME NEW t \in DOMAIN src
      PROVE  AtLeast(p, d, t)' \subseteq FileRows(d, t)' /\ FileRows(d, t)' \subseteq AtMost(p, d, t)'
  <2>1. AtLeast(p, d, t)' \subseteq AtLeast(p, d, t) /\ AtMost(p, d, t) \subseteq AtMost(p, d, t)'
    BY <1>1, BoundsLater
  <2>2. FileRows(d, t)' = FileRows(d, t)
    BY <1>4 DEF FileRows
  <2> QED
    BY <1>3, <2>1, <2>2
<1> QED
  BY <1>2, <1>3, <1>4, <1>5, <1>6 DEF WholeFile

LEMMA WholeFileWritten ==
    ASSUME Structure, Later, NEW p \in Task, WriteString(p), run'[p].at = "completed", p \notin cut', Gathered(p)
    PROVE  WholeFile(p)'
<1>1. /\ run[p] \in Runs /\ run \in [Task -> Runs] /\ Fits(run[p], named[p], DOMAIN files)
      /\ Carries(run[p], named[p], DOMAIN src) /\ run[p].at = "write"
  BY Typed DEF Structure, WriteString, At
<1>2. PICK s, d : s = run[p].script /\ d = run[p].db
  OBVIOUS
<1>3. run[p].op = "backup" /\ d \in Database /\ Script(s, d)
  BY <1>1, <1>2 DEF Fits, Carries
<1>4. d = run'[p].db /\ p \notin cut
  BY <1>2, <1>3 DEF Later
<1>5. PICK n \in 0 .. Len(s) : Write(d, SubSeq(s, 1, n)) /\ End(p, IF n = Len(s) THEN "completed" ELSE "failed")
  BY <1>2 DEF WriteString
<1>6. n = Len(s)
  <2>1. ASSUME n # Len(s) PROVE FALSE
    <3>1. PICK end \in Ended : End(p, end) /\ end = "failed"
      BY <1>5, <2>1 DEF Ended
    <3>2. run'[p].at = end
      BY <1>1, <3>1, CloseStep
    <3> QED
      BY <3>1, <3>2
  <2> QED
    BY <2>1
<1>7. d \in DOMAIN files' /\ files'[d] = s
  <2>1. PICK e : e = Beginning(s, n)
    OBVIOUS
  <2>2. e = s
    BY <1>3, <1>6, <2>1, Prefix
  <2>3. Write(d, e)
    BY <1>5, <2>1 DEF Beginning
  <2> QED
    BY <2>2, <2>3 DEF Write
<1>8. Created(s) = DOMAIN src /\ \A t \in DOMAIN src : Brings(p, d, t)
  BY <1>1, <1>2, <1>4 DEF Gathered, At
<1>9. DOMAIN src' = DOMAIN src
  BY DEF Later
<1>10. ASSUME NEW t \in DOMAIN src
       PROVE  AtLeast(p, d, t)' \subseteq FileRows(d, t)' /\ FileRows(d, t)' \subseteq AtMost(p, d, t)'
  <2>1. AtLeast(p, d, t)' \subseteq AtLeast(p, d, t) /\ AtMost(p, d, t) \subseteq AtMost(p, d, t)'
    BY <1>3, BoundsLater
  <2>2. FileRows(d, t)' = Inserted(s, t)
    BY <1>7 DEF FileRows
  <2>3. AtLeast(p, d, t) \subseteq Inserted(s, t) /\ Inserted(s, t) \subseteq AtMost(p, d, t)
    BY <1>2, <1>8 DEF Brings
  <2> QED
    BY <2>1, <2>2, <2>3
<1> QED
  BY <1>4, <1>7, <1>8, <1>9, <1>10 DEF WholeFile

LEMMA BackupNext ==
    ASSUME Structure, [Next]_vars, BackupIsWhole, \A p \in Task : Gathered(p) PROVE BackupIsWhole'
<1>1. Later
  BY StepKinds
<1>2. ASSUME NEW p \in Task, run'[p].at = "completed", p \notin cut', run'[p].op = "backup",
             \A q \in Task \ {p} : run'[q].op = "backup" => run'[q].db # run'[p].db
      PROVE  WholeFile(p)'
  <2>1. CASE run[p].at = "completed"
    <3>1. run[p].op # "none"
      BY <2>1 DEF Structure, Fits
    <3>2. run[p].op = "backup" /\ run'[p].db = run[p].db /\ p \notin cut
      BY <1>1, <1>2, <3>1 DEF Later
    <3>3. \A q \in Task \ {p} : run[q].op = "backup" => run[q].db # run[p].db
      BY <1>1, <1>2, <3>2 DEF Later
    <3>4. WholeFile(p)
      BY <2>1, <3>2, <3>3 DEF BackupIsWhole, WholeFile, At
    <3> QED
      BY <1>2, <2>1, <3>2, <3>4, WholeFileKept
  <2>2. CASE run[p].at # "completed"
    <3>1. Start(p) \/ Work(p)
      BY <1>2, <2>2, StepOf
    <3>2. run[p].at # "idle"
      <4>1. ASSUME run[p].at = "idle" PROVE FALSE
        <5>1. ~ Work(p)
          BY <4>1 DEF Work, ListTable, GetInsert, Copy, CreateFile, WriteString, ReadFile, Statement,
                      Refused, Done, ListDB, DeleteDB, Fail, At
        <5>2. Start(p)
          BY <3>1, <5>1
        <5> QED
          BY <1>2, <5>2, StartDoes
      <4> QED
        BY <4>1
    <3>3. run[p].op = "backup"
      BY <1>1, <1>2, <3>2 DEF Later, Structure, Fits
    <3>4. WriteString(p)
      BY <1>2, <2>2, <3>1, <3>3, Completes
    <3> QED
      BY <1>1, <1>2, <3>4, WholeFileWritten
  <2> QED
    BY <2>1, <2>2
<1> QED
  BY <1>2 DEF BackupIsWhole, WholeFile, At

LEMMA ContentInit ==
    ASSUME Init PROVE Content
<1>1. \A p \in Task : run[p].at = "idle"
  BY DEF Init, Idle
<1>2. BackupIsWhole
  BY <1>1 DEF BackupIsWhole, At
<1>3. \A p \in Task : Gathered(p) /\ Loaded(p)
  BY <1>1 DEF Gathered, Loaded, RunsFor, At
<1> QED
  BY <1>2, <1>3, SourceInit DEF Content

LEMMA ContentNext ==
    ASSUME Structure, Content, [Next]_vars PROVE Content'
<1>1. SourceBounds /\ BackupIsWhole /\ \A p \in Task : Gathered(p) /\ Loaded(p)
  BY DEF Content
<1>2. SourceBounds'
  BY <1>1, SourceNext
<1>3. BackupIsWhole'
  BY <1>1, BackupNext
<1>4. ASSUME NEW p \in Task PROVE Gathered(p)' /\ Loaded(p)'
  BY <1>1, GatheredNext, LoadedNext
<1> QED
  BY <1>2, <1>3, <1>4 DEF Content

---------------------------------------------------------------------------------
(* A script, statement by statement.                                            *)

LEMMA NotStarted ==
    ASSUME NEW p, NEW t, run'[p].pc = 1 PROVE ~ Executed(p, t)' /\ Brought(p, t)' = {}
<1>1. 1 .. run'[p].pc - 1 = {}
  OBVIOUS
<1> QED
  BY <1>1 DEF Executed, Brought

\* What a statement adds to what has been executed.  Before DROP and CREATE of a
\* table nothing has been done for it but DROP; its rows come after CREATE.
LEMMA Progress ==
    ASSUME Structure, NEW p \in Task, Statement(p), NEW stmt, stmt = Now(p), NEW t
    PROVE  /\ Executed(p, t)' <=> Executed(p, t) \/ (stmt.kind = "create" /\ stmt.table = t)
           /\ stmt.kind \in Filling /\ stmt.table = t =>
                 Executed(p, t) /\ Brought(p, t)' = Brought(p, t) \cup {stmt.row}
           /\ ~ (stmt.kind \in Filling /\ stmt.table = t) => Brought(p, t)' = Brought(p, t)
           /\ run[p].pc > 2 /\ stmt.kind \notin Filling /\ stmt.table = t => ~ Executed(p, t) /\ Brought(p, t) = {}
           /\ run[p].pc <= 2 => stmt.kind # "create" /\ stmt.kind \notin Filling
<1>1. PICK s, n, d : s = run[p].script /\ n = run[p].pc /\ d = s[1].db
  OBVIOUS
<1>2. /\ At(p, "exec") /\ run'[p].script = s /\ run'[p].pc = n + 1 /\ n \in 1 .. Len(s)
  BY <1>1, StatementStays
<1>3. Script(s, d) /\ s \in Seq(Stmts) /\ stmt = s[n] /\ DOMAIN s = 1 .. Len(s) /\ Len(s) \in Nat
  <2>0. run[p].pc <= Len(run[p].script)
    BY DEF Statement
  <2>1. Script(s, d)
    BY <1>1, <1>2, <2>0, AtStatement
  <2>2. s \in Seq(Stmts)
    BY <2>1 DEF Script
  <2> QED
    BY <1>1, <2>1, <2>2 DEF Now
<1>4. n \in Nat \ {0} /\ 1 .. (n + 1) - 1 = 1 .. n /\ 1 .. n = (1 .. n - 1) \cup {n} /\ 1 .. n \subseteq DOMAIN s
  BY <1>2, <1>3
<1>5. \A i \in DOMAIN s :
          /\ i = 1 => s[i].kind \in Creating
          /\ i = 2 => s[i].kind = "use"
          /\ s[i].kind \in Filling => \E j \in 1 .. i - 1 : s[j].kind = "create" /\ s[j].table = s[i].table
  BY <1>3 DEF Script
<1>6. \A i, j \in DOMAIN s :
          2 < i /\ i < j /\ s[i].table = s[j].table =>
              s[j].kind \in Filling \/ (s[i].kind = "drop" /\ s[j].kind = "create")
  BY <1>3 DEF Script
<1>7. \A i \in DOMAIN s : s[i].kind = "create" \/ s[i].kind \in Filling => i > 2
  <2>1. "create" \notin Creating /\ "create" # "use" /\ Creating \cap Filling = {} /\ "use" \notin Filling
    BY DEF Creating, Filling
  <2>2. \A i \in DOMAIN s : i = 1 \/ i = 2 \/ i > 2
    BY <1>3
  <2> QED
    BY <1>5, <2>1, <2>2
<1>8. Executed(p, t) <=> \E j \in 1 .. n - 1 : s[j].kind = "create" /\ s[j].table = t
  BY <1>1 DEF Executed
<1>9. Executed(p, t)' <=> \E j \in 1 .. n : s[j].kind = "create" /\ s[j].table = t
  BY <1>2, <1>4 DEF Executed
<1>10. Brought(p, t) = {s[i].row : i \in {j \in 1 .. n - 1 : s[j].kind \in Filling /\ s[j].table = t}}
  BY <1>1 DEF Brought
<1>11. Brought(p, t)' = {s[i].row : i \in {j \in 1 .. n : s[j].kind \in Filling /\ s[j].table = t}}
  BY <1>2, <1>4 DEF Brought
<1>12. Executed(p, t)' <=> Executed(p, t) \/ (stmt.kind = "create" /\ stmt.table = t)
  BY <1>3, <1>4, <1>8, <1>9
<1>13. ASSUME stmt.kind \in Filling, stmt.table = t
       PROVE  Executed(p, t) /\ Brought(p, t)' = Brought(p, t) \cup {stmt.row}
  <2>1. Executed(p, t)
    BY <1>3, <1>4, <1>5, <1>8, <1>13
  <2>2. {j \in 1 .. n : s[j].kind \in Filling /\ s[j].table = t}
           = {j \in 1 .. n - 1 : s[j].kind \in Filling /\ s[j].table = t} \cup {n}
    BY <1>3, <1>4, <1>13
  <2> QED
    BY <1>3, <1>10, <1>11, <2>1, <2>2
<1>14. ASSUME ~ (stmt.kind \in Filling /\ stmt.table = t) PROVE Brought(p, t)' = Brought(p, t)
  <2>1. {j \in 1 .. n : s[j].kind \in Filling /\ s[j].table = t}
           = {j \in 1 .. n - 1 : s[j].kind \in Filling /\ s[j].table = t}
    BY <1>3, <1>4, <1>14
  <2> QED
    BY <1>10, <1>11, <2>1
<1>15. ASSUME n > 2, stmt.kind \notin Filling, stmt.table = t PROVE ~ Executed(p, t) /\ Brought(p, t) = {}
  <2>1. ASSUME NEW j \in 1 .. n - 1, s[j].table = t PROVE s[j].kind # "create" /\ s[j].kind \notin Filling
    <3>1. j \in DOMAIN s /\ n \in DOMAIN s /\ j < n
      BY <1>3, <1>4, <2>1
    <3>2. CASE j > 2
      <4>1. s[j].kind = "drop"
        BY <1>3, <1>6, <1>15, <2>1, <3>1, <3>2
      <4> QED
        BY <4>1 DEF Filling
    <3>3. CASE ~ (j > 2)
      BY <1>7, <3>1, <3>3
    <3> QED
      BY <3>2, <3>3
  <2> QED
    BY <1>8, <1>10, <2>1
<1>16. n <= 2 => stmt.kind # "create" /\ stmt.kind \notin Filling
  <2>1. n \in DOMAIN s /\ (n <= 2 => ~ (n > 2))
    BY <1>4
  <2> QED
    BY <1>3, <1>7, <2>1
<1> QED
  BY <1>1, <1>12, <1>13, <1>14, <1>15, <1>16

\* At the end of a script all of it has been executed.
LEMMA AllDone ==
    ASSUME Structure, NEW p \in Task, NEW t, run[p].pc = Len(run[p].script) + 1
    PROVE  /\ Executed(p, t) <=> t \in Created(run[p].script)
           /\ Brought(p, t) = Inserted(run[p].script, t)
<1>1. run[p].script \in Seq(Stmts)
  BY Typed DEF Runs
<1>2. 1 .. run[p].pc - 1 = DOMAIN run[p].script
  BY <1>1
<1>3. Executed(p, t) <=> \E j \in DOMAIN run[p].script : run[p].script[j].kind = "create" /\ run[p].script[j].table = t
  BY <1>2 DEF Executed
<1>4. Executed(p, t) <=> t \in Created(run[p].script)
  BY <1>3 DEF Created
<1>5. Brought(p, t) = Inserted(run[p].script, t)
  BY <1>2 DEF Brought, Inserted
<1> QED
  BY <1>4, <1>5

---------------------------------------------------------------------------------
(* A task that has a database to itself.                                        *)

Settled(p, d, t) ==
    /\ Has(d, t) /\ Once(d, t)
    /\ AtLeast(p, d, t) \subseteq Values(d, t) /\ Values(d, t) \subseteq AtMost(p, d, t)
Loading(p, d, t) ==
    Executed(p, t) => Has(d, t) /\ RowsOf(d, t) = {<<v, p, run[p].again>> : v \in Brought(p, t)}
Held(p, d, t) == Honest(p, d) /\ <<d, t>> \in named[p] /\ Alone(p, d)

LEMMA ExactIs ==
    ASSUME NEW p, NEW d, NEW t
    PROVE  /\ Exact(p, d, t) <=> (Held(p, d, t) => IF RunsFor(p, d) THEN Loading(p, d, t) ELSE Settled(p, d, t))
           /\ Exact(p, d, t)' <=>
                 (Held(p, d, t)' => IF RunsFor(p, d)' THEN Loading(p, d, t)' ELSE Settled(p, d, t)')
BY DEF Exact, Held, Loading, Settled

\* A task that can be held to something could be so before.
LEMMA HonestBounds ==
    ASSUME Structure, Later, NEW p \in Task, NEW d, NEW t, Honest(p, d)', <<d, t>> \in named[p]
    PROVE  /\ Honest(p, d) /\ run'[p].op = run[p].op
           /\ AtLeast(p, d, t)' \subseteq AtLeast(p, d, t) /\ AtMost(p, d, t) \subseteq AtMost(p, d, t)'
<1>1. run[p].op # "none"
  BY NamedHasOp
<1>2. Honest(p, d)
  BY <1>1, HonestBefore
<1>3. run'[p].op = run[p].op
  BY <1>1 DEF Later
<1>4. run[p].op = "restore" => NoBackup(d)' /\ d \in DOMAIN files
  BY <1>3, NamedHasFile DEF Honest
<1> QED
  BY <1>1, <1>2, <1>3, <1>4, BoundsLater

LEMMA HeldBefore ==
    ASSUME Structure, Later, NEW p \in Task, NEW d, NEW t, Held(p, d, t)', <<d, t>> \in named[p]
    PROVE  /\ Held(p, d, t) /\ run'[p].op = run[p].op
           /\ AtLeast(p, d, t)' \subseteq AtLeast(p, d, t) /\ AtMost(p, d, t) \subseteq AtMost(p, d, t)'
<1>1. Honest(p, d)' /\ Alone(p, d)
  BY AloneBefore DEF Held
<1> QED
  BY <1>1, HonestBounds DEF Held

LEMMA SettledKept ==
    ASSUME NEW p, NEW d, NEW t, Same(d, t), Settled(p, d, t),
           AtLeast(p, d, t)' \subseteq AtLeast(p, d, t), AtMost(p, d, t) \subseteq AtMost(p, d, t)'
    PROVE  Settled(p, d, t)'
<1>1. Has(d, t)' /\ Once(d, t)' /\ Values(d, t)' = Values(d, t)
  BY DEF Settled, Same, Once, Values
<1> QED
  BY <1>1 DEF Settled

\* Steps of others, and those that do nothing to the target.
LEMMA ExactRests ==
    ASSUME Structure, Later, NEW p \in Task, NEW d, NEW t, Rests(p), Alone(p, d)' => Same(d, t), Exact(p, d, t)
    PROVE  Exact(p, d, t)'
<1>1. SUFFICES ASSUME Held(p, d, t)'
               PROVE  IF RunsFor(p, d)' THEN Loading(p, d, t)' ELSE Settled(p, d, t)'
  BY ExactIs
<1>2. <<d, t>> \in named[p] /\ Same(d, t) /\ KeepsPlace(p)
  BY <1>1 DEF Rests, Held, Honest
<1>3. /\ Held(p, d, t)
      /\ AtLeast(p, d, t)' \subseteq AtLeast(p, d, t) /\ AtMost(p, d, t) \subseteq AtMost(p, d, t)'
  BY <1>1, <1>2, HeldBefore
<1>4. RunsFor(p, d)' <=> RunsFor(p, d)
  BY <1>2 DEF KeepsPlace, RunsFor
<1>5. CASE RunsFor(p, d)
  <2>1. Loading(p, d, t)
    BY <1>3, <1>5, ExactIs
  <2>2. run'[p].script = run[p].script /\ run'[p].pc = run[p].pc /\ run'[p].again = run[p].again
    BY <1>2, <1>5 DEF KeepsPlace, RunsFor
  <2>3. (Executed(p, t)' <=> Executed(p, t)) /\ Brought(p, t)' = Brought(p, t)
    BY <2>2 DEF Executed, Brought
  <2>4. Loading(p, d, t)'
    BY <1>2, <2>1, <2>2, <2>3 DEF Loading, Same
  <2> QED
    BY <1>4, <1>5, <2>4
<1>6. CASE ~ RunsFor(p, d)
  <2>1. Settled(p, d, t)
    BY <1>3, <1>6, ExactIs
  <2>2. Settled(p, d, t)'
    BY <1>2, <1>3, <2>1, SettledKept
  <2> QED
    BY <1>4, <1>6, <2>2
<1> QED
  BY <1>5, <1>6

\* The statements of a task that runs alone.
LEMMA ExactStatement ==
    ASSUME Structure, Later, NEW p \in Task, NEW d, NEW t, Statement(p), Exact(p, d, t)
    PROVE  Exact(p, d, t)'
<1>1. SUFFICES ASSUME Held(p, d, t)'
               PROVE  IF RunsFor(p, d)' THEN Loading(p, d, t)' ELSE Settled(p, d, t)'
  BY ExactIs
<1>2. /\ named' = named /\ At(p, "exec") /\ At(p, "exec")'
      /\ run'[p].script = run[p].script /\ run'[p].again = run[p].again
      /\ run[p].pc \in 1 .. Len(run[p].script)
  BY StatementStays
<1>3. <<d, t>> \in named[p]
  BY <1>1, <1>2 DEF Held
<1>4. /\ Held(p, d, t)
      /\ AtLeast(p, d, t)' \subseteq AtLeast(p, d, t) /\ AtMost(p, d, t) \subseteq AtMost(p, d, t)'
  BY <1>1, <1>3, HeldBefore
<1>5. RunsFor(p, d)' <=> RunsFor(p, d)
  BY <1>2 DEF RunsFor
<1>6. PICK e, stmt : e = run[p].script[1].db /\ stmt = Now(p)
  OBVIOUS
<1>7. Heads(p) \/ Turns(p, e, stmt.table, stmt.kind, stmt.row)
  BY <1>6, StatementDoes
<1>8. /\ Executed(p, t)' <=> Executed(p, t) \/ (stmt.kind = "create" /\ stmt.table = t)
      /\ stmt.kind \in Filling /\ stmt.table = t =>
            Executed(p, t) /\ Brought(p, t)' = Brought(p, t) \cup {stmt.row}
      /\ ~ (stmt.kind \in Filling /\ stmt.table = t) => Brought(p, t)' = Brought(p, t)
      /\ run[p].pc > 2 /\ stmt.kind \notin Filling /\ stmt.table = t => ~ Executed(p, t) /\ Brought(p, t) = {}
      /\ run[p].pc <= 2 => stmt.kind # "create" /\ stmt.kind \notin Filling
  BY <1>6, Progress
<1>9. CASE ~ RunsFor(p, d)
  <2>1. e # d
    <3>1. run[p].script # <<>>
      BY <1>2, AtStatement, Typed DEF Runs
    <3> QED
      BY <1>2, <1>6, <1>9, <3>1 DEF RunsFor
  <2>2. Same(d, t)
    BY <1>7, <2>1 DEF Heads, Turns
  <2>3. Settled(p, d, t)
    BY <1>4, <1>9, ExactIs
  <2>4. Settled(p, d, t)'
    BY <1>4, <2>2, <2>3, SettledKept
  <2> QED
    BY <1>5, <1>9, <2>4
<1>10. CASE RunsFor(p, d)
  <2>1. e = d /\ Loading(p, d, t)
    BY <1>4, <1>6, <1>10, ExactIs DEF RunsFor
  <2>2. CASE Same(d, t) /\ ~ (stmt.table = t /\ (stmt.kind = "create" \/ stmt.kind \in Filling))
    <3>1. (Executed(p, t)' <=> Executed(p, t)) /\ Brought(p, t)' = Brought(p, t)
      BY <1>8, <2>2
    <3> QED
      BY <1>2, <1>5, <1>10, <2>1, <2>2, <3>1 DEF Loading, Same
  <2>3. CASE stmt.table = t /\ Turns(p, d, t, stmt.kind, stmt.row)
    <3>1. run[p].pc > 2
      BY <2>3 DEF Turns
    <3>2. CASE stmt.kind = "drop"
      <4>1. stmt.kind \notin Filling /\ stmt.kind # "create"
        BY <3>2 DEF Filling
      <4>2. ~ Executed(p, t)'
        BY <1>8, <2>3, <3>1, <4>1
      <4> QED
        BY <1>5, <1>10, <4>2 DEF Loading
    <3>3. CASE stmt.kind = "create"
      <4>1. stmt.kind \notin Filling /\ stmt.kind # "drop"
        BY <3>3 DEF Filling
      <4>2. Has(d, t)' /\ RowsOf(d, t)' = {}
        BY <2>3, <4>1 DEF Turns
      <4>3. Brought(p, t)' = {}
        BY <1>8, <2>3, <3>1, <4>1
      <4> QED
        BY <1>5, <1>10, <4>2, <4>3 DEF Loading
    <3>4. CASE stmt.kind \in Filling
      <4>1. stmt.kind # "create" /\ stmt.kind # "drop"
        BY <3>4 DEF Filling
      <4>2. Has(d, t)' /\ RowsOf(d, t)' = RowsOf(d, t) \cup {<<stmt.row, p, run[p].again>>}
        BY <2>3, <4>1 DEF Turns
      <4>3. Executed(p, t) /\ Brought(p, t)' = Brought(p, t) \cup {stmt.row}
        BY <1>8, <2>3, <3>4
      <4>4. RowsOf(d, t) = {<<v, p, run[p].again>> : v \in Brought(p, t)}
        BY <2>1, <4>3 DEF Loading
      <4>5. PICK a : a = run[p].again /\ a = run'[p].again
        BY <1>2
      <4>6. RowsOf(d, t)' = {<<v, p, a>> : v \in Brought(p, t)'}
        BY <4>2, <4>3, <4>4, <4>5
      <4>7. Loading(p, d, t)'
        BY <4>2, <4>5, <4>6 DEF Loading
      <4> QED
        BY <1>5, <1>10, <4>7
    <3> QED
      BY <2>3, <3>2, <3>3, <3>4 DEF Turns
  <2>4. CASE Heads(p)
    <3>1. Same(d, t) /\ stmt.kind # "create" /\ stmt.kind \notin Filling
      BY <1>8, <2>4 DEF Heads
    <3> QED
      BY <2>2, <3>1
  <2>5. CASE Turns(p, e, stmt.table, stmt.kind, stmt.row) /\ stmt.table # t
    <3>1. Same(d, t)
      BY <2>5 DEF Turns
    <3> QED
      BY <2>2, <2>5, <3>1
  <2> QED
    BY <1>7, <2>1, <2>3, <2>4, <2>5
<1> QED
  BY <1>9, <1>10

\* The second attempt starts with no table.
LEMMA ExactRetries ==
    ASSUME Structure, Later, NEW p \in Task, NEW d, NEW t, Retries(p), Exact(p, d, t)
    PROVE  Exact(p, d, t)'
<1>1. SUFFICES ASSUME Held(p, d, t)'
               PROVE  IF RunsFor(p, d)' THEN Loading(p, d, t)' ELSE Settled(p, d, t)'
  BY ExactIs
<1>2. Same(d, t) /\ <<d, t>> \in named[p]
  BY <1>1, SameWhenKept DEF Retries, Held
<1>3. /\ Held(p, d, t)
      /\ AtLeast(p, d, t)' \subseteq AtLeast(p, d, t) /\ AtMost(p, d, t) \subseteq AtMost(p, d, t)'
  BY <1>1, <1>2, HeldBefore
<1>4. CASE RunsFor(p, d)'
  <2>1. run'[p].pc = 1
    BY DEF Retries
  <2>2. ~ Executed(p, t)'
    BY <2>1, NotStarted
  <2> QED
    BY <1>4, <2>2 DEF Loading
<1>5. CASE ~ RunsFor(p, d)'
  <2>1. ~ RunsFor(p, d)
    BY <1>5 DEF RunsFor, Retries
  <2>2. Settled(p, d, t)
    BY <1>3, <2>1, ExactIs
  <2> QED
    BY <1>2, <1>3, <1>5, <2>2, SettledKept
<1> QED
  BY <1>4, <1>5

\* At its end a script has brought what the task is to bring.
LEMMA ExactPasses ==
    ASSUME Structure, Later, NEW p \in Task, NEW d \in Database, NEW t \in Table, Passes(p), Loaded(p),
           Exact(p, d, t)
    PROVE  Exact(p, d, t)'
<1>1. SUFFICES ASSUME Held(p, d, t)'
               PROVE  IF RunsFor(p, d)' THEN Loading(p, d, t)' ELSE Settled(p, d, t)'
  BY ExactIs
<1>2. Same(d, t) /\ <<d, t>> \in named[p]
  BY <1>1, SameWhenKept DEF Passes, Held
<1>3. /\ Held(p, d, t)
      /\ AtLeast(p, d, t)' \subseteq AtLeast(p, d, t) /\ AtMost(p, d, t) \subseteq AtMost(p, d, t)'
  BY <1>1, <1>2, HeldBefore
<1>4. ~ RunsFor(p, d)'
  BY DEF Passes, RunsFor
<1>5. Settled(p, d, t)
  <2>1. CASE ~ RunsFor(p, d)
    BY <1>3, <2>1, ExactIs
  <2>2. CASE RunsFor(p, d)
    <3>1. Loading(p, d, t)
      BY <1>3, <2>2, ExactIs
    <3>2. Brings(p, d, t)
      BY <1>2, <1>3, <2>2 DEF Loaded, Held
    <3>3. run[p].pc = Len(run[p].script) + 1
      BY DEF Passes
    <3>4. Executed(p, t) /\ Brought(p, t) = Inserted(run[p].script, t)
      BY <3>2, <3>3, AllDone DEF Brings
    <3>5. PICK R, rows, a : R = RowsOf(d, t) /\ rows = Brought(p, t) /\ a = run[p].again
      OBVIOUS
    <3>6. Has(d, t) /\ R = {<<v, p, a>> : v \in rows}
      BY <3>1, <3>4, <3>5 DEF Loading
    <3>7. {x[1] : x \in R} = rows /\ \A x, y \in R : x[1] = y[1] => x = y
      <4>1. \A x \in R : \E v \in rows : x = <<v, p, a>>
        BY <3>6
      <4>2. \A v \in rows : <<v, p, a>> \in R /\ <<v, p, a>>[1] = v
        BY <3>6
      <4> HIDE <3>6
      <4>3. \A x \in R : x[1] \in rows /\ x = <<x[1], p, a>>
        BY <4>1
      <4> QED
        BY <4>2, <4>3
    <3>8. Once(d, t) /\ Values(d, t) = rows
      BY <3>5, <3>7 DEF Once, Values
    <3> QED
      BY <3>2, <3>4, <3>5, <3>6, <3>8 DEF Brings, Settled
  <2> QED
    BY <2>1, <2>2
<1> QED
  BY <1>2, <1>3, <1>4, <1>5, SettledKept

\* A script that is taken up has not done anything yet.
LEMMA ExactPuts ==
    ASSUME Structure, Later, NEW p \in Task, NEW d, NEW t, NEW e \in Database,
           NEW tables \in SUBSET Table, Puts(p, e, tables), Exact(p, d, t)
    PROVE  Exact(p, d, t)'
<1>1. SUFFICES ASSUME Held(p, d, t)'
               PROVE  IF RunsFor(p, d)' THEN Loading(p, d, t)' ELSE Settled(p, d, t)'
  BY ExactIs
<1>2. /\ Same(d, t) /\ named'[p] = named[p] \cup ({e} \X tables) /\ <<d, t>> \in named'[p]
      /\ At(p, "exec")' /\ ~ At(p, "exec")
  BY <1>1, SameWhenKept DEF Puts, Held
<1>3. CASE RunsFor(p, d)'
  <2>1. run'[p].pc = 1
    BY DEF Puts
  <2>2. ~ Executed(p, t)'
    BY <2>1, NotStarted
  <2> QED
    BY <1>3, <2>2 DEF Loading
<1>4. CASE ~ RunsFor(p, d)'
  <2>1. <<d, t>> \in named[p]
    <3>1. CASE t \in tables /\ d = e
      BY <1>2, <1>4, <3>1 DEF RunsFor, Puts
    <3> QED
      BY <1>2, <3>1
  <2>2. /\ Held(p, d, t)
        /\ AtLeast(p, d, t)' \subseteq AtLeast(p, d, t) /\ AtMost(p, d, t) \subseteq AtMost(p, d, t)'
    BY <1>1, <2>1, HeldBefore
  <2>3. ~ RunsFor(p, d)
    BY <1>2 DEF RunsFor
  <2>4. Settled(p, d, t)
    BY <2>2, <2>3, ExactIs
  <2> QED
    BY <1>2, <1>4, <2>2, <2>4, SettledKept
<1> QED
  BY <1>3, <1>4

\* Who has a database to itself is not disturbed in it.
LEMMA NotMine ==
    ASSUME Structure, NEW p \in Task, NEW q \in Task, q # p, NEW d \in Database, NEW t \in Table, Alone(p, d)',
           Statement(q) \/ \E e \in Database : Drops(q, e)
    PROVE  Same(d, t)
<1>1. ASSUME NEW e, NEW u, <<e, u>> \in named'[q] PROVE e # d
  BY <1>1 DEF Alone
<1>2. CASE Statement(q)
  <2>1. PICK e, stmt : e = run[q].script[1].db /\ stmt = Now(q)
    OBVIOUS
  <2>2. Heads(q) \/ Turns(q, e, stmt.table, stmt.kind, stmt.row)
    BY <1>2, <2>1, StatementDoes
  <2>3. named' = named
    BY <1>2, StatementStays
  <2>4. CASE Turns(q, e, stmt.table, stmt.kind, stmt.row)
    <3>1. e # d
      BY <1>1, <2>3, <2>4 DEF Turns
    <3> QED
      BY <2>4, <3>1 DEF Turns
  <2> QED
    BY <2>2, <2>4 DEF Heads
<1>3. ASSUME NEW e \in Database, Drops(q, e) PROVE Same(d, t)
  <2>1. <<e, t>> \in named'[q]
    BY <1>3 DEF Drops
  <2>2. d # e
    BY <1>1, <2>1
  <2> QED
    BY <1>3, <2>2, DropsDoes
<1> QED
  BY <1>2, <1>3

LEMMA ExactNext ==
    ASSUME Structure, [Next]_vars, NEW p \in Task, NEW d \in Database, NEW t \in Table, Loaded(p), Exact(p, d, t)
    PROVE  Exact(p, d, t)'
<1>1. Later
  BY StepKinds
<1>2. ASSUME NEW q \in Task, q # p, Others(q), dst' = dst PROVE Exact(p, d, t)'
  BY <1>1, <1>2, OthersRest, SameWhenKept, ExactRests
<1>3. ASSUME NEW q \in Task, q # p, Others(q), Statement(q) \/ \E e \in Database : Drops(q, e)
      PROVE  Exact(p, d, t)'
  BY <1>1, <1>3, OthersRest, NotMine, ExactRests
<1>4. CASE Calm
  <2>1. dst' = dst
    BY <1>4 DEF Calm
  <2> QED
    BY <1>1, <1>4, <2>1, CalmRests, SameWhenKept, ExactRests
<1>5. ASSUME NEW q \in Task, Statement(q) PROVE Exact(p, d, t)'
  <2>1. Others(q)
    BY <1>5, StatementStays
  <2>2. CASE q = p
    BY <1>1, <1>5, <2>2, ExactStatement
  <2> QED
    BY <1>3, <1>5, <2>1, <2>2
<1>6. ASSUME NEW q \in Task, Retries(q) PROVE Exact(p, d, t)'
  <2>1. CASE q = p
    BY <1>1, <1>6, <2>1, ExactRetries
  <2> QED
    BY <1>2, <1>6, <2>1 DEF Retries
<1>7. ASSUME NEW q \in Task, Passes(q) PROVE Exact(p, d, t)'
  <2>1. CASE q = p
    BY <1>1, <1>7, <2>1, ExactPasses
  <2> QED
    BY <1>2, <1>7, <2>1 DEF Passes
<1>8. ASSUME NEW q \in Task, NEW e \in Database, NEW tables \in SUBSET Table, Puts(q, e, tables) PROVE Exact(p, d, t)'
  <2>1. CASE q = p
    BY <1>1, <1>8, <2>1, ExactPuts
  <2> QED
    BY <1>2, <1>8, <2>1 DEF Puts
<1>9. ASSUME NEW q \in Task, NEW e \in Database, Drops(q, e) PROVE Exact(p, d, t)'
  <2>1. CASE q = p
    <3>1. run'[p].op = "delete"
      BY <1>9, <2>1 DEF Drops
    <3>2. ~ Honest(p, d)'
      BY <3>1 DEF Honest, Writers
    <3> QED
      BY <3>2 DEF Exact
  <2> QED
    BY <1>3, <1>9, <2>1 DEF Drops
<1> QED
  BY <1>4, <1>5, <1>6, <1>7, <1>8, <1>9, StepKinds

---------------------------------------------------------------------------------
(* Deletion.                                                                    *)

\* Only a writer creates databases.
LEMMA NoMoreDatabases ==
    ASSUME Structure, [Next]_vars, NEW p \in Task, run[p].op = "delete",
           \A q \in Task \ {p} : run[q].op \notin Writers
    PROVE  DOMAIN dst' \subseteq DOMAIN dst
<1>1. ASSUME NEW q \in Task, Statement(q) PROVE FALSE
  <2>1. run[q].op \in Writers
    BY <1>1 DEF Statement, At, Structure, Fits
  <2> QED
    BY <2>1 DEF Writers
<1>2. ASSUME NEW q \in Task, NEW d \in Database, Drops(q, d) PROVE DOMAIN dst' \subseteq DOMAIN dst
  BY <1>2 DEF Drops
<1>3. dst' = dst => DOMAIN dst' \subseteq DOMAIN dst
  OBVIOUS
<1> QED
  BY <1>1, <1>2, <1>3, StepKinds DEF Calm, Retries, Passes, Puts

\* What a task that deletes may do.
LEMMA Deletes ==
    ASSUME Structure, NEW p \in Task, Start(p) \/ Work(p), run'[p].op = "delete",
           run'[p].at \in {"drop", "completed"}
    PROVE  ListDB(p) \/ DeleteDB(p)
<1>1. run \in [Task -> Runs] /\ run[p] \in Runs /\ Fits(run[p], named[p], DOMAIN files)
  BY Typed DEF Structure
<1>2. ~ Start(p)
  BY StartDoes
<1>3. ASSUME ~ ListDB(p), ~ DeleteDB(p) PROVE FALSE
  <2>1. \/ run[p].at \in {"read", "write", "next", "exec"}
        \/ run[p].at = "list" /\ run[p].op \in {"migrate", "backup"}
        \/ Fail(p)
    <3>1. ASSUME ListTable(p) PROVE run[p].at = "list" /\ run[p].op \in {"migrate", "backup"}
      <4>1. At(p, "list") /\ run[p].op \in {"migrate", "backup"}
        BY <3>1, Zenon DEF ListTable
      <4> QED
        BY <4>1 DEF At
    <3>2. GetInsert(p) \/ Copy(p) \/ CreateFile(p) => run[p].at = "read"
      BY DEF GetInsert, Copy, CreateFile, At
    <3>3. WriteString(p) => run[p].at = "write"
      BY DEF WriteString, At
    <3>4. ReadFile(p) => run[p].at = "next"
      BY DEF ReadFile, At
    <3>5. Statement(p) \/ Refused(p) \/ Done(p) => run[p].at = "exec"
      BY DEF Statement, Refused, Done, At
    <3> QED
      BY <1>2, <1>3, <3>1, <3>2, <3>3, <3>4, <3>5 DEF Work
  <2>2. run[p].at # "idle" /\ run[p].op # "none"
    <3>1. run[p].at # "idle"
      BY <2>1 DEF Fail
    <3> QED
      BY <1>1, <3>1 DEF Fits
  <2>3. Later
    BY StepKinds DEF Next
  <2>4. run[p].op = "delete"
    BY <2>2, <2>3 DEF Later
  <2>5. run[p].at \notin {"read", "write", "next", "exec"}
    BY <1>1, <2>4 DEF Fits, Writers
  <2>6. Fail(p)
    BY <2>1, <2>4, <2>5
  <2>7. run'[p].at = "failed"
    <3>1. PICK end \in Ended : End(p, end) /\ end = "failed"
      BY <2>6 DEF Fail, Ended
    <3>2. run[p].at \notin {"idle", "failed"}
      BY <2>6 DEF Fail
    <3> QED
      BY <3>1, <3>2, CloseStep
  <2> QED
    BY <2>7
<1> QED
  BY <1>3

LEMMA EmptiedNext ==
    ASSUME Structure, [Next]_vars, NEW p \in Task, Emptied(p) PROVE Emptied(p)'
<1>1. SUFFICES ASSUME run'[p].op = "delete", p \notin cut', \A q \in Task \ {p} : run'[q].op \notin Writers
               PROVE  /\ At(p, "drop")' => DOMAIN dst' \subseteq run'[p].dbs
                      /\ At(p, "completed")' => DOMAIN dst' = {}
  BY DEF Emptied
<1>2. Later /\ p \notin cut /\ run \in [Task -> Runs] /\ run[p] \in Runs
  BY <1>1, StepKinds, Typed DEF Later
<1>3. \A q \in Task \ {p} : run[q].op \notin Writers
  <2>1. "none" \notin Writers
    BY DEF Writers
  <2> QED
    BY <1>1, <1>2, <2>1 DEF Later
<1>4. CASE run'[p] = run[p]
  <2>1. DOMAIN dst' \subseteq DOMAIN dst
    BY <1>1, <1>3, <1>4, NoMoreDatabases
  <2>2. /\ At(p, "drop") => DOMAIN dst \subseteq run[p].dbs
        /\ At(p, "completed") => DOMAIN dst = {}
    BY <1>1, <1>2, <1>3, <1>4 DEF Emptied
  <2> QED
    BY <1>4, <2>1, <2>2 DEF At
<1>5. CASE ListDB(p)
  <2>1. PICK dbs : /\ run' = [run EXCEPT ![p].at = "drop", ![p].dbs = dbs]
                   /\ cut' = IF dbs = DOMAIN dst THEN cut ELSE cut \cup {p}
    BY <1>5 DEF ListDB
  <2>2. dst' = dst /\ dbs = DOMAIN dst
    BY <1>1, <1>5, <2>1 DEF ListDB
  <2>3. run'[p].at = "drop" /\ run'[p].dbs = dbs
    BY <1>2, <2>1 DEF Runs
  <2> QED
    BY <2>2, <2>3 DEF At
<1>6. CASE DeleteDB(p)
  <2>1. run[p].at = "drop" /\ run[p].op = "delete"
    BY <1>6 DEF DeleteDB, At, Structure, Fits
  <2>2. DOMAIN dst \subseteq run[p].dbs
    BY <1>2, <1>3, <2>1 DEF Emptied, At
  <2>3. CASE run[p].dbs = {}
    <3>1. PICK end \in Ended : End(p, end) /\ end = "completed"
      BY <1>6, <2>3 DEF DeleteDB, Ended
    <3>2. dst' = dst
      BY <1>6, <2>3 DEF DeleteDB
    <3>3. run[p].at \notin {"idle", "failed"}
      BY <2>1
    <3>4. run'[p].at = "completed"
      BY <3>1, <3>3, CloseStep
    <3> QED
      BY <2>2, <2>3, <3>2, <3>4 DEF At
  <2>4. CASE run[p].dbs # {}
    <3>1. PICK d \in run[p].dbs : /\ run' = [run EXCEPT ![p].dbs = @ \ {d}]
                                  /\ dst' = [x \in DOMAIN dst \ {d} |-> dst[x]]
      BY <1>6, <2>4 DEF DeleteDB
    <3>2. run'[p].at = "drop" /\ run'[p].dbs = run[p].dbs \ {d}
      BY <1>2, <2>1, <3>1 DEF Runs
    <3>3. DOMAIN dst' = DOMAIN dst \ {d}
      BY <3>1
    <3> QED
      BY <2>2, <3>2, <3>3 DEF At
  <2> QED
    BY <2>3, <2>4
<1>7. CASE ~ (At(p, "drop")' \/ At(p, "completed")')
  BY <1>7
<1>8. ASSUME Start(p) \/ Work(p), At(p, "drop")' \/ At(p, "completed")' PROVE ListDB(p) \/ DeleteDB(p)
  BY <1>1, <1>8, Deletes DEF At
<1> QED
  BY <1>4, <1>5, <1>6, <1>7, <1>8, StepOf

---------------------------------------------------------------------------------
(* Tasks that write one table at the same time.                                 *)

\* The task has yet to create the table, or its rows so far are all there.
Keeps(p, d, t) == <<d, t>> \in named[p] /\ (Owes(p, d, t) \/ Sofar(p, d, t) \subseteq Values(d, t))

LEMMA KeptIs ==
    ASSUME NEW d, NEW t
    PROVE  /\ Kept(d, t) <=> ((\E p \in By(d) : <<d, t>> \in named[p]) /\ (\A p \in By(d) : Honest(p, d))
                                 => \E p \in Task : Keeps(p, d, t))
           /\ Kept(d, t)' <=> ((\E p \in By(d)' : <<d, t>> \in named'[p]) /\ (\A p \in By(d)' : Honest(p, d)')
                                 => \E p \in Task : Keeps(p, d, t)')
BY DEF Kept, Keeps

\* Whoever has no script for the database at hand has brought its rows.
LEMMA KeepsOutside ==
    ASSUME Structure, Later, NEW p \in Task, NEW d, NEW t, Keeps(p, d, t), Honest(p, d)',
           ~ RunsFor(p, d), ~ RunsFor(p, d)', Values(d, t) \subseteq Values(d, t)'
    PROVE  Keeps(p, d, t)'
<1>1. <<d, t>> \in named[p] /\ AtLeast(p, d, t) \subseteq Values(d, t)
  BY DEF Keeps, Owes, Sofar
<1>2. AtLeast(p, d, t)' \subseteq AtLeast(p, d, t)
  BY <1>1, HonestBounds
<1>3. <<d, t>> \in named'[p]
  BY <1>1 DEF Later
<1> QED
  BY <1>1, <1>2, <1>3 DEF Keeps, Sofar

LEMMA KeepsRests ==
    ASSUME Structure, Later, NEW p \in Task, NEW d, NEW t, Keeps(p, d, t), Honest(p, d)',
           Rests(p), Values(d, t) \subseteq Values(d, t)'
    PROVE  Keeps(p, d, t)'
<1>1. KeepsPlace(p)
  BY DEF Rests, Honest
<1>2. RunsFor(p, d)' <=> RunsFor(p, d)
  BY <1>1 DEF KeepsPlace, RunsFor
<1>3. CASE RunsFor(p, d)
  <2>1. run'[p].script = run[p].script /\ run'[p].pc = run[p].pc
    BY <1>1, <1>3 DEF KeepsPlace, RunsFor
  <2>2. (Executed(p, t)' <=> Executed(p, t)) /\ Brought(p, t)' = Brought(p, t)
    BY <2>1 DEF Executed, Brought
  <2>3. <<d, t>> \in named'[p] /\ (~ Executed(p, t) \/ Brought(p, t) \subseteq Values(d, t))
    BY <1>3 DEF Keeps, Rests, Owes, Sofar
  <2> QED
    BY <1>2, <1>3, <2>2, <2>3 DEF Keeps, Owes, Sofar
<1>4. CASE ~ RunsFor(p, d)
  BY <1>2, <1>4, KeepsOutside
<1> QED
  BY <1>3, <1>4

LEMMA ValuesWhenSame ==
    ASSUME NEW d, NEW t, Same(d, t) PROVE Values(d, t)' = Values(d, t)
BY DEF Same, Values

\* The task that executes a statement on the table keeps it, whoever did before.
LEMMA KeepsTurn ==
    ASSUME Structure, NEW p \in Task, Statement(p), NEW stmt, stmt = Now(p), NEW d, NEW t,
           d = run[p].script[1].db, stmt.table = t, Turns(p, d, t, stmt.kind, stmt.row),
           stmt.kind \in Filling => (Keeps(p, d, t) \/ \E q \in Task \ {p} : Keeps(q, d, t) /\ Honest(q, d)')
    PROVE  \E q \in Task : Keeps(q, d, t)'
<1>1. /\ Later /\ Others(p) /\ named' = named /\ At(p, "exec") /\ At(p, "exec")'
      /\ run'[p].script = run[p].script
  BY StatementStays
<1>2. RunsFor(p, d) /\ RunsFor(p, d)'
  <2>1. run[p].pc <= Len(run[p].script)
    BY DEF Statement
  <2>2. run[p].script # <<>>
    BY <1>1, <2>1, AtStatement
  <2> QED
    BY <1>1, <2>2 DEF RunsFor
<1>3. /\ Executed(p, t)' <=> Executed(p, t) \/ (stmt.kind = "create" /\ stmt.table = t)
      /\ stmt.kind \in Filling /\ stmt.table = t =>
            Executed(p, t) /\ Brought(p, t)' = Brought(p, t) \cup {stmt.row}
      /\ ~ (stmt.kind \in Filling /\ stmt.table = t) => Brought(p, t)' = Brought(p, t)
      /\ run[p].pc > 2 /\ stmt.kind \notin Filling /\ stmt.table = t => ~ Executed(p, t) /\ Brought(p, t) = {}
  BY Progress
<1>4. run[p].pc > 2 /\ <<d, t>> \in named'[p]
  BY <1>1 DEF Turns
<1>5. CASE stmt.kind = "drop"
  <2>1. stmt.kind \notin Filling /\ stmt.kind # "create"
    BY <1>5 DEF Filling
  <2>2. ~ Executed(p, t)'
    BY <1>3, <1>4, <2>1
  <2> QED
    BY <1>2, <1>4, <2>2 DEF Keeps, Owes
<1>6. CASE stmt.kind = "create"
  <2>1. stmt.kind \notin Filling
    BY <1>6 DEF Filling
  <2>2. Brought(p, t)' = {}
    BY <1>3, <1>4, <2>1
  <2> QED
    BY <1>2, <1>4, <2>2 DEF Keeps, Sofar
<1>7. CASE stmt.kind \in Filling
  <2>1. RowsOf(d, t)' = RowsOf(d, t) \cup {<<stmt.row, p, run[p].again>>}
    BY <1>7 DEF Turns, Filling
  <2>2. PICK a, x : a = run[p].again /\ x = <<stmt.row, p, a>>
    OBVIOUS
  <2>3. Values(d, t)' = Values(d, t) \cup {stmt.row}
    <3>1. x[1] = stmt.row
      BY <2>2
    <3>2. RowsOf(d, t)' = RowsOf(d, t) \cup {x}
      BY <2>1, <2>2
    <3> QED
      BY <3>1, <3>2 DEF Values
  <2>4. CASE Keeps(p, d, t)
    <3>1. Executed(p, t) /\ Brought(p, t)' = Brought(p, t) \cup {stmt.row}
      BY <1>3, <1>7
    <3>2. Brought(p, t) \subseteq Values(d, t)
      BY <1>2, <2>4, <3>1 DEF Keeps, Owes, Sofar
    <3> QED
      BY <1>2, <1>4, <2>3, <3>1, <3>2 DEF Keeps, Sofar
  <2>5. CASE ~ Keeps(p, d, t)
    <3>1. PICK q \in Task \ {p} : Keeps(q, d, t) /\ Honest(q, d)'
      BY <1>7, <2>5
    <3>2. Rests(q)
      BY <1>1, OthersRest
    <3>3. Keeps(q, d, t)'
      BY <1>1, <2>3, <3>1, <3>2, KeepsRests
    <3> QED
      BY <3>3
  <2> QED
    BY <2>4, <2>5
<1> QED
  BY <1>5, <1>6, <1>7 DEF Turns

\* A statement on another table.
LEMMA KeepsElsewhere ==
    ASSUME Structure, NEW p \in Task, Statement(p), NEW d, NEW t, Keeps(p, d, t), Honest(p, d)', Same(d, t),
           NEW stmt, stmt = Now(p),
           RunsFor(p, d) => ~ (stmt.table = t /\ (stmt.kind = "create" \/ stmt.kind \in Filling))
    PROVE  Keeps(p, d, t)'
<1>1. /\ Later /\ named' = named /\ At(p, "exec") /\ At(p, "exec")'
      /\ run'[p].script = run[p].script
  BY StatementStays
<1>2. Values(d, t)' = Values(d, t)
  BY ValuesWhenSame
<1>3. RunsFor(p, d)' <=> RunsFor(p, d)
  BY <1>1 DEF RunsFor
<1>4. CASE RunsFor(p, d)
  <2>1. (Executed(p, t)' <=> Executed(p, t)) /\ Brought(p, t)' = Brought(p, t)
    BY <1>4, Progress
  <2>2. <<d, t>> \in named'[p] /\ (~ Executed(p, t) \/ Brought(p, t) \subseteq Values(d, t))
    BY <1>1, <1>4 DEF Keeps, Owes, Sofar
  <2> QED
    BY <1>2, <1>3, <1>4, <2>1, <2>2 DEF Keeps, Owes, Sofar
<1>5. CASE ~ RunsFor(p, d)
  BY <1>1, <1>2, <1>3, <1>5, KeepsOutside
<1> QED
  BY <1>4, <1>5

LEMMA KeptStatement ==
    ASSUME Structure, NEW q \in Task, Statement(q), NEW d, NEW t, \E p \in Task : Keeps(p, d, t),
           \A p \in Task : <<d, t>> \in named[p] => Honest(p, d)'
    PROVE  \E p \in Task : Keeps(p, d, t)'
<1>1. Later /\ Others(q) /\ At(q, "exec")
  BY StatementStays
<1>2. PICK w \in Task : Keeps(w, d, t)
  OBVIOUS
<1>3. <<d, t>> \in named[w] /\ Honest(w, d)'
  BY <1>2 DEF Keeps
<1>4. PICK e, stmt : e = run[q].script[1].db /\ stmt = Now(q)
  OBVIOUS
<1>5. Heads(q) \/ Turns(q, e, stmt.table, stmt.kind, stmt.row)
  BY <1>4, StatementDoes
<1>6. CASE e = d /\ stmt.table = t /\ ~ Heads(q)
  <2>1. Turns(q, d, t, stmt.kind, stmt.row)
    BY <1>5, <1>6
  <2>2. Keeps(q, d, t) \/ \E p \in Task \ {q} : Keeps(p, d, t) /\ Honest(p, d)'
    BY <1>2, <1>3
  <2> QED
    BY <1>4, <1>6, <2>1, <2>2, KeepsTurn
<1>7. CASE ~ (e = d /\ stmt.table = t /\ ~ Heads(q))
  <2>1. Same(d, t)
    BY <1>5, <1>7 DEF Heads, Turns
  <2>2. Values(d, t)' = Values(d, t)
    BY <2>1, ValuesWhenSame
  <2>3. CASE w = q
    <3>1. RunsFor(q, d) => e = d
      BY <1>4 DEF RunsFor
    <3>2. run[q].pc <= 2 => stmt.kind # "create" /\ stmt.kind \notin Filling
      BY <1>4, Progress
    <3>3. RunsFor(q, d) => ~ (stmt.table = t /\ (stmt.kind = "create" \/ stmt.kind \in Filling))
      BY <1>7, <3>1, <3>2 DEF Heads
    <3>4. Keeps(q, d, t) /\ Honest(q, d)'
      BY <1>2, <1>3, <2>3
    <3>5. Keeps(q, d, t)'
      BY <1>4, <2>1, <3>3, <3>4, KeepsElsewhere
    <3> QED
      BY <3>5
  <2>4. CASE w # q
    <3>1. Rests(w)
      BY <1>1, <2>4, OthersRest
    <3>2. Keeps(w, d, t)'
      BY <1>1, <1>2, <1>3, <2>2, <3>1, KeepsRests
    <3> QED
      BY <3>2
  <2> QED
    BY <2>3, <2>4
<1> QED
  BY <1>6, <1>7

LEMMA KeepsRetries ==
    ASSUME Structure, Later, NEW p \in Task, NEW d, NEW t, Retries(p), Keeps(p, d, t), Honest(p, d)'
    PROVE  Keeps(p, d, t)'
<1>1. Values(d, t)' = Values(d, t)
  BY SameWhenKept, ValuesWhenSame DEF Retries
<1>2. RunsFor(p, d)' <=> RunsFor(p, d)
  BY DEF RunsFor, Retries
<1>3. CASE RunsFor(p, d)
  <2>1. run'[p].pc = 1 /\ named' = named
    BY DEF Retries
  <2>2. ~ Executed(p, t)'
    BY <2>1, NotStarted
  <2> QED
    BY <1>2, <1>3, <2>1, <2>2 DEF Keeps, Owes
<1>4. CASE ~ RunsFor(p, d)
  BY <1>1, <1>2, <1>4, KeepsOutside
<1> QED
  BY <1>3, <1>4

LEMMA KeepsPasses ==
    ASSUME Structure, Later, NEW p \in Task, NEW d \in Database, NEW t \in Table, Passes(p), Loaded(p),
           Keeps(p, d, t), Honest(p, d)'
    PROVE  Keeps(p, d, t)'
<1>1. Values(d, t)' = Values(d, t)
  BY SameWhenKept, ValuesWhenSame DEF Passes
<1>2. ~ RunsFor(p, d)'
  BY DEF Passes, RunsFor
<1>3. CASE RunsFor(p, d)
  <2>1. <<d, t>> \in named[p] /\ named' = named
    BY DEF Keeps, Passes
  <2>2. Honest(p, d) /\ AtLeast(p, d, t)' \subseteq AtLeast(p, d, t)
    BY <2>1, HonestBounds
  <2>3. Brings(p, d, t)
    BY <1>3, <2>1, <2>2 DEF Loaded
  <2>4. run[p].pc = Len(run[p].script) + 1
    BY DEF Passes
  <2>5. Executed(p, t) /\ Brought(p, t) = Inserted(run[p].script, t)
    BY <2>3, <2>4, AllDone DEF Brings
  <2>6. Brought(p, t) \subseteq Values(d, t)
    BY <1>3, <2>5 DEF Keeps, Owes, Sofar
  <2>7. AtLeast(p, d, t)' \subseteq Values(d, t)'
    BY <1>1, <2>2, <2>3, <2>5, <2>6 DEF Brings
  <2> QED
    BY <1>2, <2>1, <2>7 DEF Keeps, Sofar
<1>4. CASE ~ RunsFor(p, d)
  BY <1>1, <1>2, <1>4, KeepsOutside
<1> QED
  BY <1>3, <1>4

LEMMA KeepsPuts ==
    ASSUME Structure, Later, NEW p \in Task, NEW d, NEW t, NEW e \in Database, NEW tables \in SUBSET Table,
           Puts(p, e, tables), Keeps(p, d, t), Honest(p, d)'
    PROVE  Keeps(p, d, t)'
<1>1. Values(d, t)' = Values(d, t)
  BY SameWhenKept, ValuesWhenSame DEF Puts
<1>2. ~ RunsFor(p, d)
  BY DEF Puts, RunsFor
<1>3. e # d
  <2>1. <<d, t>> \in named[p] /\ \A x \in named[p] : x[1] # e
    BY DEF Keeps, Puts
  <2> QED
    BY <2>1
<1>4. ~ RunsFor(p, d)'
  BY <1>3 DEF Puts, RunsFor
<1> QED
  BY <1>1, <1>2, <1>4, KeepsOutside

\* Whoever names the table anew has yet to create it.
LEMMA KeepsNewly ==
    ASSUME Structure, [Next]_vars, NEW p \in Task, NEW d \in Database, NEW t \in Table,
           <<d, t>> \in named'[p], <<d, t>> \notin named[p], Honest(p, d)'
    PROVE  Keeps(p, d, t)'
<1>1. ASSUME NEW q \in Task, NEW e \in Database, NEW tables \in SUBSET Table, Puts(q, e, tables)
      PROVE  Keeps(p, d, t)'
  <2>1. q = p
    BY <1>1 DEF Puts, Others
  <2>2. e = d /\ t \in tables
    BY <1>1, <2>1 DEF Puts
  <2>3. RunsFor(p, d)' /\ run'[p].pc = 1
    BY <1>1, <2>1, <2>2 DEF Puts, RunsFor
  <2>4. ~ Executed(p, t)'
    BY <2>3, NotStarted
  <2> QED
    BY <2>3, <2>4 DEF Keeps, Owes
<1>2. ASSUME NEW q \in Task, NEW e \in Database, Drops(q, e) PROVE FALSE
  <2>1. q = p
    BY <1>2 DEF Drops, Others
  <2> QED
    BY <1>2, <2>1 DEF Drops, Honest, Writers
<1>3. ASSUME NEW q \in Task, Statement(q) PROVE named' = named
  BY <1>3, StatementStays
<1> QED
  BY <1>1, <1>2, <1>3, StepKinds DEF Calm, Retries, Passes

LEMMA KeptNext ==
    ASSUME Structure, [Next]_vars, NEW d \in Database, NEW t \in Table, \A p \in Task : Loaded(p), Kept(d, t)
    PROVE  Kept(d, t)'
<1>1. SUFFICES ASSUME \E p \in By(d)' : <<d, t>> \in named'[p], \A p \in By(d)' : Honest(p, d)'
               PROVE  \E p \in Task : Keeps(p, d, t)'
  BY KeptIs
<1>2. Later
  BY StepKinds
<1>3. \A p \in Task : (\E x \in named'[p] : x[1] = d) => Honest(p, d)'
  BY <1>1 DEF By
<1>4. \A p \in Task : <<d, t>> \in named'[p] => Honest(p, d)'
  BY <1>3
<1>5. CASE \E p \in Task : <<d, t>> \in named'[p] /\ <<d, t>> \notin named[p]
  BY <1>4, <1>5, KeepsNewly
<1>6. CASE \A p \in Task : <<d, t>> \in named'[p] => <<d, t>> \in named[p]
  <2>1. \A p \in Task : <<d, t>> \in named[p] => Honest(p, d)'
    BY <1>2, <1>4 DEF Later
  <2>2. PICK w \in Task : Keeps(w, d, t)
    <3>1. \E p \in By(d) : <<d, t>> \in named[p]
      <4>1. PICK p \in Task : <<d, t>> \in named'[p]
        BY <1>1 DEF By
      <4>2. <<d, t>> \in named[p] /\ <<d, t>>[1] = d
        BY <1>6, <4>1
      <4> QED
        BY <4>2 DEF By
    <3>2. ASSUME NEW p \in By(d) PROVE Honest(p, d)
      <4>1. PICK x \in named[p] : x[1] = d
        BY DEF By
      <4>2. p \in Task /\ x \in named'[p] /\ run[p].op # "none"
        BY <1>2, NamedHasOp DEF By, Later
      <4>3. Honest(p, d)'
        BY <1>3, <4>1, <4>2
      <4> QED
        BY <1>2, <4>2, <4>3, HonestBefore
    <3> QED
      BY <3>1, <3>2, KeptIs
  <2>3. <<d, t>> \in named[w] /\ Honest(w, d)'
    BY <2>1, <2>2 DEF Keeps
  <2>4. ASSUME NEW q \in Task, q # w, Others(q), dst' = dst PROVE Keeps(w, d, t)'
    <3>1. Rests(w) /\ Values(d, t)' = Values(d, t)
      BY <2>4, OthersRest, SameWhenKept, ValuesWhenSame
    <3> QED
      BY <1>2, <2>2, <2>3, <3>1, KeepsRests
  <2>5. CASE Calm
    <3>1. Rests(w) /\ Values(d, t)' = Values(d, t)
      BY <2>5, CalmRests, SameWhenKept, ValuesWhenSame DEF Calm
    <3> QED
      BY <1>2, <2>2, <2>3, <3>1, KeepsRests
  <2>6. ASSUME NEW q \in Task, Statement(q) PROVE \E p \in Task : Keeps(p, d, t)'
    BY <2>1, <2>2, <2>6, KeptStatement
  <2>7. ASSUME NEW q \in Task, Retries(q) PROVE Keeps(w, d, t)'
    <3>1. CASE q = w
      BY <1>2, <2>2, <2>3, <2>7, <3>1, KeepsRetries
    <3> QED
      BY <2>4, <2>7, <3>1 DEF Retries
  <2>8. ASSUME NEW q \in Task, Passes(q) PROVE Keeps(w, d, t)'
    <3>1. CASE q = w
      BY <1>2, <2>2, <2>3, <2>8, <3>1, KeepsPasses
    <3> QED
      BY <2>4, <2>8, <3>1 DEF Passes
  <2>9. ASSUME NEW q \in Task, NEW e \in Database, NEW tables \in SUBSET Table, Puts(q, e, tables)
        PROVE  Keeps(w, d, t)'
    <3>1. CASE q = w
      BY <1>2, <2>2, <2>3, <2>9, <3>1, KeepsPuts
    <3> QED
      BY <2>4, <2>9, <3>1 DEF Puts
  <2>10. ASSUME NEW q \in Task, NEW e \in Database, Drops(q, e) PROVE Keeps(w, d, t)'
    <3>1. d # e
      <4>1. <<e, t>> \in named'[q] /\ <<e, t>>[1] = e /\ ~ Honest(q, d)'
        BY <2>10 DEF Drops, Honest, Writers
      <4> QED
        BY <1>3, <4>1
    <3>2. q # w
      BY <2>3, <2>10 DEF Drops, Honest, Writers
    <3>3. Rests(w) /\ Values(d, t)' = Values(d, t)
      BY <2>10, <3>1, <3>2, OthersRest, DropsDoes, ValuesWhenSame DEF Drops
    <3> QED
      BY <1>2, <2>2, <2>3, <3>3, KeepsRests
  <2> QED
    BY <2>5, <2>6, <2>7, <2>8, <2>9, <2>10, StepKinds
<1> QED
  BY <1>5, <1>6

LEMMA DeliveredInit ==
    ASSUME Init PROVE Delivered
<1>1. \A p \in Task : named[p] = {} /\ run[p].op = "none"
  BY DEF Init, Idle
<1>2. ASSUME NEW p \in Task, NEW d, NEW t PROVE Exact(p, d, t)
  BY <1>1 DEF Exact
<1>3. ASSUME NEW d, NEW t PROVE Kept(d, t)
  BY <1>1 DEF Kept, By
<1> QED
  BY <1>1, <1>2, <1>3 DEF Delivered, Emptied

LEMMA DeliveredNext ==
    ASSUME Structure, Content, Delivered, [Next]_vars PROVE Delivered'
<1>1. \A p \in Task : Loaded(p)
  BY DEF Content
<1>2. ASSUME NEW p \in Task PROVE Emptied(p)'
  BY EmptiedNext DEF Delivered
<1>3. ASSUME NEW p \in Task, NEW d \in Database, NEW t \in Table PROVE Exact(p, d, t)'
  BY <1>1, ExactNext DEF Delivered
<1>4. ASSUME NEW d \in Database, NEW t \in Table PROVE Kept(d, t)'
  BY <1>1, KeptNext DEF Delivered
<1> QED
  BY <1>2, <1>3, <1>4 DEF Delivered

---------------------------------------------------------------------------------
(* What success means.                                                          *)

LEMMA ExactSuccess ==
    ASSUME Structure, Delivered PROVE SuccessIsExact
<1>1. ASSUME NEW p \in Task, At(p, "completed"), p \notin cut, run[p].op \in Writers,
             NEW x \in named[p], Alone(p, x[1]), run[p].op = "restore" => NoBackup(x[1])
      PROVE  Settled(p, x[1], x[2])
  <2>1. x \in Database \X Table
    BY NamedHasOp
  <2>2. PICK d \in Database, t \in Table : x = <<d, t>>
    BY <2>1
  <2>3. d = x[1] /\ t = x[2]
    BY <2>2
  <2>4. Exact(p, d, t)
    BY DEF Delivered
  <2>5. Held(p, d, t) /\ ~ RunsFor(p, d)
    BY <1>1, <2>2, <2>3 DEF Held, Honest, RunsFor, At
  <2>6. Settled(p, d, t)
    BY <2>4, <2>5, ExactIs
  <2> QED
    BY <2>3, <2>6
<1>2. ASSUME NEW p \in Task, At(p, "completed"), p \notin cut, run[p].op = "delete",
             \A q \in Task \ {p} : run[q].op \notin Writers
      PROVE  DOMAIN dst = {}
  BY <1>2 DEF Delivered, Emptied
<1> QED
  BY <1>1, <1>2 DEF SuccessIsExact, Settled

LEMMA KeptSuccess ==
    ASSUME Structure, Delivered PROVE SuccessKeepsAll
<1>1. SUFFICES ASSUME NEW d \in Database, NEW t \in Table,
                      \E p \in By(d) : <<d, t>> \in named[p],
                      \A p \in By(d) : /\ At(p, "completed") /\ p \notin cut /\ run[p].op \in Writers
                                       /\ run[p].op = "restore" => NoBackup(d)
               PROVE  \E p \in By(d) : <<d, t>> \in named[p] /\ AtLeast(p, d, t) \subseteq Values(d, t)
  BY DEF SuccessKeepsAll, By
<1>2. \A p \in By(d) : Honest(p, d)
  BY <1>1 DEF Honest, At
<1>3. PICK p \in Task : Keeps(p, d, t)
  BY <1>1, <1>2, KeptIs DEF Delivered
<1>4. <<d, t>> \in named[p] /\ p \in By(d)
  <2>1. <<d, t>> \in named[p] /\ <<d, t>>[1] = d
    BY <1>3 DEF Keeps
  <2> QED
    BY <2>1 DEF By
<1>5. ~ RunsFor(p, d)
  BY <1>1, <1>4 DEF RunsFor, At
<1> QED
  BY <1>3, <1>4, <1>5 DEF Keeps, Owes, Sofar

\* A task that ended well has done what it is for: a transfer has brought each
\* table of its own whole and each row once, after whatever failed first; a
\* backup has left files that bring back every table; tasks that wrote a table
\* at once have not cancelled each other out.
\* (mysql.go: Exec, GetInsert, DeleteDB; rdbc.go: Copy, Get, Put)
THEOREM SuccessDeliversInvariant == Spec => []SuccessDelivers
<1>1. Init => Structure /\ Content /\ Delivered
  BY StructureInit, ContentInit, DeliveredInit
<1>2. Structure /\ Content /\ Delivered /\ [Next]_vars => Structure' /\ Content' /\ Delivered'
  BY StructureNext, ContentNext, DeliveredNext
<1>3. Structure /\ Content /\ Delivered => SuccessDelivers
  BY ExactSuccess, KeptSuccess DEF SuccessDelivers, Content
<1> QED
  BY <1>1, <1>2, <1>3, PTL DEF Spec
==============================================================================
