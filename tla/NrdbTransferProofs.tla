--------------------------- MODULE NrdbTransferProofs ---------------------------
(***************************************************************************)
(* Proofs about NrdbTransfer, for any number of tasks, tables and documents *)
(* and every pair of engines.  A task works on one table at a time; the     *)
(* invariant says what the table in hand holds at each step, as long as no  *)
(* other task writes it, and who still owes it a document when others do.   *)
(***************************************************************************)
EXTENDS NrdbTransfer, FiniteSetTheorems, TLAPS

WriterSteps  == {"check", "clear", "import", "sweep"}
TableSteps   == {"export", "file", "encode", "open", "create", "mark", "wait", "drop"} \cup WriterSteps

\* What a task does at which step.
OpFits(op, at, job) ==
    /\ op \in {"none", "migrate", "backup", "restore", "generate", "delete", "create", "drop"}
    /\ at = "idle" <=> op = "none"
    /\ at = "list"   => op \in {"migrate", "backup", "restore", "delete"}
    /\ at = "export" => op \in {"migrate", "backup"}
    /\ at \in {"file", "encode"} => op = "backup"
    /\ at = "open"   => op \in {"restore", "generate"}
    /\ at \in WriterSteps => op \in Writers
    /\ at \in {"create", "mark"} => op \in Writers \cup {"create"}
    /\ at = "drop"   => op \in {"delete", "drop"}
    /\ at = "wait"   => \/ job = "erase" /\ op \in Writers \cup {"delete", "drop"}
                        \/ job = "write" /\ op \in Writers
    /\ at = "next"   => op # "create"

\* What was started in parallel and has not ended, while a task is as in r: the task waits
\* for it, or has failed at a target on Firestore.  Writes are those of what was read.
LeftFits(p, r) == r.left # {} =>
    /\ r.at = "wait" \/ (r.at = "failed" /\ Is(p, "gcp"))
    /\ r.job = "write" => r.op \in Writers /\ r.left \subseteq {Copy(p, i) : i \in r.buf}

\* A task is at a table of its list that it has reached, and its list names
\* tables of the source; what it started in parallel has ended, or fits.
Position(p) ==
    /\ run[p].todo \subseteq run[p].list
    /\ run[p].at \in {"idle", "list"} => run[p].list = {}
    /\ run[p].at \in TableSteps => run[p].cur \in Reached(p)
    /\ run[p].at = "completed" => run[p].todo = {}
    /\ run[p].op \in {"create", "drop"} => run[p].todo = {}
    /\ run[p].op \in {"migrate", "backup", "restore"} => run[p].list \subseteq DOMAIN src
    /\ run[p].op = "restore" => run[p].list \subseteq DOMAIN files
    /\ run[p].left # {} /\ run[p].job = "write" => run[p].cur \in Reached(p)
    /\ LeftFits(p, run[p])
    /\ OpFits(run[p].op, run[p].at, run[p].job)

\* What a task has read is what it means to write, unless that is noted.
Buffered(p) ==
    /\ run[p].at \in {"file", "encode", "create", "mark", "wait"} \cup WriterSteps
    /\ run[p].op \in Writers \cup {"backup"} /\ <<p, run[p].cur>> \notin cut
    => run[p].buf = Wanted(p, run[p].cur)

InHand(p, t) == run[p].cur = t /\ run[p].at \in TableSteps
Brought(p, t) == {Copy(p, i) : i \in Wanted(p, t)}
Marker(p)    == <<Empty, p>>

\* The table a task has in hand, when nobody else writes it.
Worked(p, t) ==
    /\ At(p, "create") => dst[t] = {} \/ (Is(p, "aws") /\ t \in exists)
    /\ At(p, "mark")   => dst[t] = {Marker(p)}
    /\ At(p, "import") => dst[t] \subseteq {Marker(p)} /\ (dst[t] = {} \/ Is(p, "gcp"))
    /\ At(p, "wait") /\ run[p].job = "erase" /\ ~ run[p].broke => dst[t] = run[p].left
    /\ At(p, "wait") /\ run[p].job = "write" /\ ~ run[p].broke =>
          /\ run[p].left \subseteq Brought(p, t) /\ dst[t] \ {Marker(p)} = Brought(p, t) \ run[p].left
          /\ Marker(p) \notin dst[t] \/ Is(p, "gcp")
    /\ At(p, "sweep") => dst[t] \ {Marker(p)} = Brought(p, t)

\* A table is worked at, or holds what the task brought and nothing else.
Exact(p, t) ==
    /\ run[p].op \in Writers /\ t \in Reached(p)
    /\ Alone(p, t) /\ <<p, t>> \notin cut /\ ~ At(p, "failed")
    => IF InHand(p, t) THEN Worked(p, t) ELSE dst[t] = Brought(p, t)

\* A backup that is the only one has put each table it has left in its file.
Saved(p, t) ==
    /\ run[p].op = "backup" /\ t \in Reached(p)
    /\ (\A q \in Task \ {p} : run[q].op # "backup")
    /\ <<p, t>> \notin cut /\ ~ At(p, "failed")
    => InHand(p, t) \/ (t \in DOMAIN files /\ files[t] = src[t])

\* All who write the table bring the same, and none of them has failed.
Agree(p, t) ==
    \A q \in Task : Wrote(q) /\ t \in Reached(q) =>
        /\ run[q].op \in Writers /\ ~ At(q, "failed") /\ ~ (At(q, "wait") /\ run[q].broke)
        /\ <<q, t>> \notin cut /\ Wanted(q, t) = Wanted(p, t)

\* The task may yet empty the table, and then owes it the item, or owes it already.
Owes(q, t, i) ==
    /\ run[q].cur = t
    /\ At(q, "import") \/ (At(q, "wait") /\ (run[q].job = "erase" \/ Copy(q, i) \in run[q].left))

\* A task has begun to write the table, or left it.
EarlySteps == {"export", "open", "check", "clear", "create", "mark"}
Begun(p, t) == t \in Reached(p) /\ ~ (run[p].cur = t /\ run[p].at \in EarlySteps)

\* Whatever such tasks take from each other, somebody owes it.
Kept(p, t) ==
    run[p].op \in Writers /\ Begun(p, t) /\ Agree(p, t) =>
        \A i \in Wanted(p, t) : i \in Items(t) \/ \E q \in Task : Owes(q, t, i)

\* DynamoDB deletes tables that a task was to delete.
Doomed(t)    == engine[2] = "aws" /\ \E q \in Task : run[q].op \in {"delete", "drop"} /\ t \in Reached(q)
DropsOrdered == \A t \in dropping : Doomed(t)

IInv ==
    /\ TypeOK /\ DOMAIN files \subseteq DOMAIN src /\ UntouchedUntilReached /\ DropsOrdered
    /\ \A p \in Task : Position(p) /\ Buffered(p)
    /\ \A p \in Task, t \in Table : Exact(p, t) /\ Saved(p, t) /\ Kept(p, t)

---------------------------------------------------------------------------------
(* One task moves.                                                              *)

RunType == [at : Steps, op : Ops \cup {"none"}, list : SUBSET Table,
            todo : SUBSET Table, cur : Table \cup {NoTable}, buf : SUBSET Item,
            job : {"none", "erase", "write"}, left : SUBSET Doc, broke : BOOLEAN]

LEMMA RunTyped ==
    ASSUME IInv, NEW p \in Task
    PROVE  run[p] \in RunType /\ run \in [Task -> RunType]
BY DEF IInv, TypeOK, RunType

LEMMA RunUpdate ==
    ASSUME TypeOK, NEW p \in Task, NEW r \in RunType, run' = [run EXCEPT ![p] = r]
    PROVE  run' \in [Task -> RunType] /\ run'[p] = r /\ \A q \in Task \ {p} : run'[q] = run[q]
BY DEF TypeOK, RunType

\* A document that a task owes is one of a table it has reached and writes.
LEMMA OwesReached ==
    ASSUME IInv, NEW p \in Task, NEW t \in Table, NEW i, Owes(p, t, i)
    PROVE  Wrote(p) /\ t \in Reached(p)
BY DEF IInv, Owes, Position, OpFits, Wrote, Writers, WriterSteps, TableSteps, At

\* What the store of the target, the files and the notes may become.
Stored ==
    /\ exists' \subseteq Table /\ dst' \in [Table -> SUBSET Doc]
    /\ \A t \in Table : dst'[t] # {} => t \in exists'
    /\ DOMAIN files \subseteq DOMAIN files' /\ DOMAIN files' \subseteq Table \cap DOMAIN src
    /\ \A t \in DOMAIN files' : files'[t] \subseteq Item \/ files'[t] = {Torn}
    /\ cut \subseteq cut' /\ cut' \subseteq Task \X Table
    /\ dropping' \subseteq Table /\ \A t \in dropping' \ dropping : Doomed(t)

\* A step of one task leaves the others what they know.
LEMMA Frame ==
    ASSUME IInv, NEW p \in Task, NEW r \in RunType, run' = [run EXCEPT ![p] = r],
           UNCHANGED <<engine, src, before>>, Stored,
           \A q \in Task \ {p}, t \in Table : <<q, t>> \in cut' => <<q, t>> \in cut,
           r.op = run[p].op \/ run[p].op = "none",
           Reached(p) \subseteq Reached(p)',
           \A t \in Table : \/ dst'[t] = dst[t] /\ (t \in exists' <=> t \in exists)
                            \/ Wrote(p) /\ t \in Reached(p),
           files' = files \/ run[p].op = "backup",
           ~ At(p, "failed"),
           At(p, "wait") /\ run[p].broke => At(p, "failed")' \/ (At(p, "wait") /\ run[p].broke)',
           Position(p)', Buffered(p)',
           \A t \in Table : Exact(p, t)' /\ Saved(p, t)',
           \A t \in Table, i \in Item :
               /\ r.op \in Writers /\ t \in Reached(p)' /\ Agree(p, t)' /\ i \in Wanted(p, t)'
               /\ \/ Begun(p, t)' /\ ~ Begun(p, t)
                  \/ t \in Reached(p) /\ (i \in Items(t) \/ Owes(p, t, i))
               => i \in Items(t)' \/ Owes(p, t, i)'
    PROVE  IInv'
<1>1. run' \in [Task -> RunType] /\ run'[p] = r /\ \A q \in Task \ {p} : run'[q] = run[q]
    BY RunUpdate DEF IInv
<1>2. TypeOK' /\ (DOMAIN files \subseteq DOMAIN src)'
    BY <1>1 DEF IInv, TypeOK, Stored, RunType
<1>3. Wrote(p) => Wrote(p)' /\ r.op = run[p].op
    BY <1>1 DEF Wrote
<1>4. \A q \in Task, t \in Table : Wrote(q) /\ t \in Reached(q) => Wrote(q)' /\ t \in Reached(q)'
    BY <1>1, <1>3 DEF Wrote, Reached
<1>5. UntouchedUntilReached' /\ DropsOrdered'
    <2>1. UntouchedUntilReached'
        BY <1>4 DEF IInv, UntouchedUntilReached
    <2>2. ASSUME NEW q \in Task, NEW t \in dropping', run[q].op \in {"delete", "drop"}, t \in Reached(q)
          PROVE  run'[q].op \in {"delete", "drop"} /\ t \in Reached(q)'
        BY <1>1, <2>2 DEF Reached
    <2>3. \A t \in dropping' : Doomed(t)
        BY DEF IInv, DropsOrdered, Stored
    <2> QED BY <2>1, <2>2, <2>3 DEF DropsOrdered, Doomed
<1>6. ASSUME NEW q \in Task
      PROVE  Position(q)' /\ Buffered(q)'
    <2>1. CASE q = p
        BY <2>1
    <2>2. CASE q # p
        <3>1. run'[q] = run[q]
            BY <1>1, <2>2
        <3>2. Position(q)'
            BY <3>1 DEF IInv, Position, LeftFits, Reached, Stored, At, Is, Copy, Keyed
        <3>3. Buffered(q)'
            BY <3>1 DEF IInv, Buffered, Wanted, Stored
        <3> QED BY <3>2, <3>3
    <2> QED BY <2>1, <2>2
<1>7. ASSUME NEW q \in Task, NEW t \in Table, q # p
      PROVE  Exact(q, t)' /\ Saved(q, t)'
    <2>1. run'[q] = run[q]
        BY <1>1, <1>7
    <2>2. Exact(q, t)'
        <3> SUFFICES ASSUME run'[q].op \in Writers, t \in Reached(q)', Alone(q, t)',
                            <<q, t>> \notin cut', ~ At(q, "failed")'
                     PROVE  IF InHand(q, t)' THEN Worked(q, t)' ELSE dst'[t] = Brought(q, t)'
            BY DEF Exact
        <3>1. ~ (Wrote(p) /\ t \in Reached(p))
            BY <1>4, <1>7 DEF Alone
        <3>2. dst'[t] = dst[t] /\ (t \in exists' <=> t \in exists)
            BY <3>1
        <3>3. Alone(q, t)
            BY <1>4 DEF Alone
        <3>4. IF InHand(q, t) THEN Worked(q, t) ELSE dst[t] = Brought(q, t)
            BY <2>1, <3>3 DEF IInv, Exact, Reached, At, Stored
        <3> QED BY <2>1, <3>2, <3>4 DEF InHand, Worked, Brought, Copy, Keyed, Wanted, Is, At, Marker
    <2>3. Saved(q, t)'
        BY <1>1, <1>7, <2>1 DEF IInv, Saved, Reached, At, InHand, Stored
    <2> QED BY <2>2, <2>3
<1>8. ASSUME NEW q \in Task, NEW t \in Table
      PROVE  Kept(q, t)'
    <2> SUFFICES ASSUME run'[q].op \in Writers, Begun(q, t)', Agree(q, t)', NEW i \in Wanted(q, t)'
                 PROVE  i \in Items(t)' \/ \E k \in Task : Owes(k, t, i)'
        BY DEF Kept
    <2>1. t \in Reached(q)' /\ Wrote(q)'
        BY DEF Begun, Wrote, Writers
    <2>2. i \in Item
        <3>1. t \in run'[q].list /\ src' \in Sources
            BY <1>2, <2>1 DEF Reached, TypeOK
        <3> QED BY <1>6, <3>1, SourceAssumption DEF Position, Wanted, Writers
    <2>3. run'[q].op = run[q].op \/ q = p
        BY <1>1
    <2>4. CASE q = p /\ ~ Begun(p, t)
        BY <2>1, <2>2, <2>4, <1>1
    <2>5. CASE q # p \/ Begun(p, t)
        <3>1. Begun(q, t) /\ run[q].op = run'[q].op
            <4>1. CASE q # p
                BY <1>1, <4>1 DEF Begun, Reached
            <4>2. CASE q = p
                BY <1>1, <2>5, <4>2 DEF IInv, Begun, Reached, Position, OpFits
            <4> QED BY <4>1, <4>2
        <3>2. Agree(q, t)
            <4> SUFFICES ASSUME NEW k \in Task, Wrote(k), t \in Reached(k)
                         PROVE  /\ run[k].op \in Writers /\ ~ At(k, "failed") /\ ~ (At(k, "wait") /\ run[k].broke)
                                /\ <<k, t>> \notin cut /\ Wanted(k, t) = Wanted(q, t)
                BY DEF Agree
            <4>1. /\ run'[k].op \in Writers /\ ~ At(k, "failed")' /\ ~ (At(k, "wait") /\ run[k].broke)'
                  /\ <<k, t>> \notin cut' /\ Wanted(k, t)' = Wanted(q, t)'
                BY <1>4 DEF Agree
            <4>2. run'[k].op = run[k].op
                BY <1>1, <1>3
            <4>3. ~ At(k, "failed") /\ ~ (At(k, "wait") /\ run[k].broke)
                BY <1>1, <4>1 DEF At
            <4> QED BY <3>1, <4>1, <4>2, <4>3 DEF Wanted, Stored
        <3>3. i \in Wanted(q, t)
            BY <3>1 DEF Wanted
        <3>4. i \in Items(t) \/ \E k \in Task : Owes(k, t, i)
            BY <3>1, <3>2, <3>3 DEF IInv, Kept
        <3>5. ASSUME NEW k \in Task, Owes(k, t, i), k # p
              PROVE  Owes(k, t, i)'
            BY <1>1, <3>5 DEF Owes, At, Copy, Keyed
        <3>6. CASE Wrote(p) /\ t \in Reached(p)
            <4>1. Wrote(p)' /\ t \in Reached(p)'
                BY <1>4, <3>6
            <4>2. run'[p].op \in Writers /\ Wanted(p, t)' = Wanted(q, t)'
                BY <4>1 DEF Agree
            <4>3. Agree(p, t)'
                BY <4>2 DEF Agree
            <4> QED BY <1>1, <2>2, <3>4, <3>5, <3>6, <4>1, <4>2, <4>3
        <3>7. CASE ~ (Wrote(p) /\ t \in Reached(p))
            <4>1. Items(t)' = Items(t) /\ \A k \in Task : Owes(k, t, i) => k # p
                BY <3>7, OwesReached DEF Items
            <4> QED BY <3>4, <3>5, <4>1
        <3> QED BY <3>6, <3>7
    <2> QED BY <2>4, <2>5
<1> QED BY <1>2, <1>5, <1>6, <1>7, <1>8 DEF IInv

\* A step within a table concerns that table alone.
LEMMA TableStep ==
    ASSUME IInv, NEW p \in Task, NEW t, t = run[p].cur, run[p].at \in TableSteps,
           NEW r \in RunType, run' = [run EXCEPT ![p] = r],
           r.op = run[p].op, r.list = run[p].list, r.todo = run[p].todo, r.cur = t,
           r.at \in TableSteps \cup {"next", "failed", "completed"}, OpFits(r.op, r.at, r.job),
           r.at = "completed" => r.todo = {},
           LeftFits(p, r),
           run[p].at = "wait" /\ run[p].broke => r.at = "failed" \/ (r.at = "wait" /\ r.broke),
           UNCHANGED <<engine, src, before>>, Stored,
           cut' = cut \/ cut' = cut \cup {<<p, t>>},
           \A x \in Table \ {t} : dst'[x] = dst[x] /\ (x \in exists' <=> x \in exists),
           (dst' = dst /\ exists' = exists) \/ run[p].op # "backup",
           \/ files' = files
           \/ /\ run[p].op = "backup"
              /\ \A x \in Table \ {t} : /\ x \in DOMAIN files' <=> x \in DOMAIN files
                                        /\ x \in DOMAIN files => files'[x] = files[x],
           Buffered(p)',
           r.op \in Writers /\ Worked(p, t) /\ <<p, t>> \notin cut' /\ r.at # "failed" =>
               IF r.at \in TableSteps THEN Worked(p, t)' ELSE dst'[t] = Brought(p, t),
           r.op = "backup" /\ r.at \notin TableSteps \cup {"failed"} /\ <<p, t>> \notin cut' =>
               t \in DOMAIN files' /\ files'[t] = src[t],
           \A i \in Item :
               /\ r.op \in Writers /\ i \in Wanted(p, t) /\ <<p, t>> \notin cut'
               /\ r.at # "failed" /\ ~ (r.at = "wait" /\ r.broke)
               /\ \/ run[p].at \in EarlySteps /\ r.at \notin EarlySteps
                  \/ i \in Items(t) \/ Owes(p, t, i)
               => i \in Items(t)' \/ Owes(p, t, i)'
    PROVE  IInv'
<1>1. run' \in [Task -> RunType] /\ run'[p] = r /\ \A q \in Task \ {p} : run'[q] = run[q]
    BY RunUpdate DEF IInv
<1>2. t \in Reached(p) /\ t \in Table /\ run[p].op # "none" /\ ~ At(p, "failed")
    BY DEF IInv, Position, OpFits, Reached, TypeOK, RunType, At, TableSteps, WriterSteps
<1>3. Reached(p)' = Reached(p)
    BY <1>1 DEF Reached
<1>4. At(p, "wait") /\ run[p].broke => At(p, "failed")' \/ (At(p, "wait") /\ run[p].broke)'
    BY <1>1 DEF At
<1>5. Position(p)'
    <2>1. LeftFits(p, r)'
        BY <1>1 DEF LeftFits, Is, Copy, Keyed
    <2> QED BY <1>1, <1>2, <1>3, <2>1 DEF IInv, Position, TableSteps, WriterSteps, Stored, At
<1>6. \A q \in Task \ {p}, x \in Table : <<q, x>> \in cut' => <<q, x>> \in cut
    OBVIOUS
<1>7. \A x \in Table : \/ dst'[x] = dst[x] /\ (x \in exists' <=> x \in exists)
                       \/ Wrote(p) /\ x \in Reached(p)
    BY <1>2 DEF Wrote
<1>8. ASSUME NEW x \in Table
      PROVE  Exact(p, x)'
    <2> SUFFICES ASSUME run'[p].op \in Writers, x \in Reached(p)', Alone(p, x)', <<p, x>> \notin cut',
                        ~ At(p, "failed")'
                 PROVE  IF InHand(p, x)' THEN Worked(p, x)' ELSE dst'[x] = Brought(p, x)'
        BY DEF Exact
    <2>1. Alone(p, x) /\ <<p, x>> \notin cut /\ run[p].op \in Writers
        BY <1>1 DEF Alone, Wrote, Reached, Stored
    <2>2. Brought(p, x)' = Brought(p, x)
        BY <1>1 DEF Brought, Copy, Keyed, Wanted
    <2>3. IF InHand(p, x) THEN Worked(p, x) ELSE dst[x] = Brought(p, x)
        BY <1>2, <1>3, <2>1 DEF IInv, Exact
    <2>4. CASE x = t
        BY <1>1, <2>1, <2>2, <2>3, <2>4 DEF InHand, At
    <2>5. CASE x # t
        BY <1>1, <2>2, <2>3, <2>5 DEF InHand
    <2> QED BY <2>4, <2>5
<1>9. ASSUME NEW x \in Table
      PROVE  Saved(p, x)'
    <2> SUFFICES ASSUME run'[p].op = "backup", x \in Reached(p)',
                        \A q \in Task \ {p} : run'[q].op # "backup",
                        <<p, x>> \notin cut', ~ At(p, "failed")'
                 PROVE  InHand(p, x)' \/ (x \in DOMAIN files' /\ files'[x] = src'[x])
        BY DEF Saved
    <2>1. CASE x = t
        BY <1>1, <2>1 DEF InHand, At
    <2>2. CASE x # t
        <3>1. x \in DOMAIN files /\ files[x] = src[x]
            BY <1>1, <1>2, <1>3, <2>2 DEF IInv, Saved, InHand, Stored
        <3> QED BY <2>2, <3>1
    <2> QED BY <2>1, <2>2
<1>10. ASSUME NEW x \in Table, NEW i \in Item,
              r.op \in Writers, x \in Reached(p)', Agree(p, x)', i \in Wanted(p, x)',
              \/ Begun(p, x)' /\ ~ Begun(p, x)
              \/ x \in Reached(p) /\ (i \in Items(x) \/ Owes(p, x, i))
       PROVE  i \in Items(x)' \/ Owes(p, x, i)'
    <2>1. /\ ~ At(p, "failed")' /\ ~ (At(p, "wait") /\ run[p].broke)' /\ <<p, x>> \notin cut'
        BY <1>1, <1>10 DEF Agree, Wrote, Writers
    <2>2. i \in Wanted(p, x)
        BY <1>1, <1>10 DEF Wanted
    <2>3. CASE x = t
        <3>1. Begun(p, x)' /\ ~ Begun(p, x) => run[p].at \in EarlySteps /\ r.at \notin EarlySteps
            BY <1>1, <1>3, <2>3 DEF Begun
        <3> QED BY <1>1, <1>10, <2>1, <2>2, <2>3, <3>1 DEF At
    <2>4. CASE x # t
        <3>1. Items(x)' = Items(x)
            BY <2>4 DEF Items
        <3>2. ~ Owes(p, x, i) /\ (Begun(p, x)' => Begun(p, x))
            BY <1>1, <1>3, <2>4 DEF Owes, Begun
        <3> QED BY <1>10, <3>1, <3>2
    <2> QED BY <2>3, <2>4
<1>11. Reached(p) \subseteq Reached(p)' /\ (files' = files \/ run[p].op = "backup")
    BY <1>3
<1> QED BY <1>2, <1>4, <1>5, <1>6, <1>7, <1>8, <1>9, <1>10, <1>11, Frame

\* A step between tables: at most one table is reached by it, and taken in hand.
LEMMA PlainStep ==
    ASSUME IInv, NEW p \in Task, run[p].at \in {"idle", "list", "next"},
           NEW r \in RunType, run' = [run EXCEPT ![p] = r],
           r.op = run[p].op \/ run[p].op = "none",
           r.at \in {"list", "next", "export", "open", "drop", "create", "completed", "failed"},
           r.at = "create" => r.op = "create",
           UNCHANGED <<engine, src, db, files, before, cut>>,
           Position(p)',
           \A x \in Reached(p) : x \in Reached(p)' /\ ~ InHand(p, x)',
           \A x \in Reached(p)' \ Reached(p) :
               r.cur = x /\ r.at \in TableSteps /\ (r.op \in Writers => r.at \in {"export", "open"})
    PROVE  IInv'
<1>1. run' \in [Task -> RunType] /\ run'[p] = r /\ \A q \in Task \ {p} : run'[q] = run[q]
    BY RunUpdate DEF IInv
<1>2. UNCHANGED <<engine, src, before>> /\ UNCHANGED <<exists, dst, dropping, files, cut>>
    BY DEF db
<1>3. Stored
    BY <1>2 DEF IInv, TypeOK, Stored
<1>4. /\ ~ At(p, "failed") /\ ~ At(p, "wait") /\ ~ At(p, "import")
      /\ run[p].at \notin TableSteps
    BY DEF At, TableSteps, WriterSteps
<1>5. Buffered(p)'
    BY <1>1 DEF Buffered, WriterSteps, Writers
<1>6. ASSUME NEW x \in Reached(p)
      PROVE  run[p].op = r.op /\ run[p].op # "none"
    BY <1>6 DEF IInv, Position, OpFits, Reached
<1>7. ASSUME NEW x \in Table
      PROVE  Exact(p, x)' /\ Saved(p, x)'
    <2>1. CASE x \in Reached(p)
        <3>1. run[p].op = r.op /\ ~ InHand(p, x) /\ ~ InHand(p, x)'
            BY <1>4, <1>6, <2>1 DEF InHand
        <3>2. /\ Alone(p, x)' => Alone(p, x)
              /\ (\A q \in Task \ {p} : run'[q].op # "backup") => \A q \in Task \ {p} : run[q].op # "backup"
            BY <1>1 DEF Alone, Wrote, Reached
        <3>3. Brought(p, x)' = Brought(p, x)
            BY <1>1, <1>2, <3>1 DEF Brought, Copy, Keyed, Wanted
        <3>4. Exact(p, x) /\ Saved(p, x)
            BY DEF IInv
        <3> QED BY <1>1, <1>2, <1>4, <2>1, <3>1, <3>2, <3>3, <3>4 DEF Exact, Saved
    <2>2. CASE x \in Reached(p)' \ Reached(p)
        <3>1. InHand(p, x)' /\ (r.op \in Writers => run'[p].at \in {"export", "open"})
            BY <1>1, <2>2 DEF InHand
        <3>2. r.op \in Writers => Worked(p, x)'
            BY <1>1, <3>1 DEF Worked, At
        <3> QED BY <1>1, <3>1, <3>2 DEF Exact, Saved
    <2>3. CASE x \notin Reached(p)'
        BY <2>3 DEF Exact, Saved
    <2> QED BY <2>1, <2>2, <2>3
<1>8. ASSUME NEW x \in Table, NEW i \in Item, r.op \in Writers,
             \/ Begun(p, x)' /\ ~ Begun(p, x)
             \/ x \in Reached(p) /\ (i \in Items(x) \/ Owes(p, x, i))
      PROVE  i \in Items(x)'
    <2>1. Items(x)' = Items(x) /\ ~ Owes(p, x, i)
        BY <1>2, <1>4 DEF Items, Owes
    <2>2. Begun(p, x)' => x \in Reached(p)
        BY <1>1, <1>8 DEF Begun, EarlySteps
    <2>3. x \in Reached(p) => Begun(p, x)
        BY <1>4 DEF Begun, EarlySteps, TableSteps, WriterSteps
    <2> QED BY <1>8, <2>1, <2>2, <2>3
<1> QED BY <1>1, <1>2, <1>3, <1>4, <1>5, <1>7, <1>8, Frame

---------------------------------------------------------------------------------
(* Requests and lists.                                                          *)

LEMMA BeginKeeps ==
    ASSUME IInv, NEW p \in Task, NEW op \in {"migrate", "backup", "restore", "delete"}, Begin(p, op, "list")
    PROVE  IInv'
<1>1. PICK s \in {"list", "failed"} : run' = [run EXCEPT ![p].op = op, ![p].at = s]
    BY DEF Begin
<1>2. At(p, "idle") /\ op \in Ops /\ UNCHANGED <<engine, src, db, files, before, cut>>
    BY DEF Begin
<1> DEFINE r == [run[p] EXCEPT !.op = op, !.at = s]
<1>3. /\ r \in RunType /\ run' = [run EXCEPT ![p] = r]
      /\ r.op = op /\ r.at = s /\ r.list = run[p].list /\ r.todo = run[p].todo /\ r.left = run[p].left
    BY <1>1, <1>2, RunTyped DEF RunType, Steps
<1> HIDE DEF r
<1>4. run'[p] = r
    BY <1>3, RunUpdate DEF IInv
<1>5. run[p].op = "none" /\ run[p].list = {} /\ run[p].todo = {} /\ run[p].left = {}
    BY <1>2 DEF IInv, Position, LeftFits, OpFits, At
<1>6. Reached(p)' = {} /\ Reached(p) = {}
    BY <1>3, <1>4, <1>5 DEF Reached
<1>7. Position(p)'
    BY <1>3, <1>4, <1>5 DEF Position, LeftFits, OpFits, WriterSteps, TableSteps
<1> QED BY <1>2, <1>3, <1>5, <1>6, <1>7, PlainStep DEF At

LEMMA GenerateKeeps ==
    ASSUME IInv, NEW p \in Task, GenerateNRDBMSPostHandler(p)
    PROVE  IInv'
<1>1. PICK made \in SUBSET Table :
          run' = [run EXCEPT ![p].op = "generate", ![p].at = "next", ![p].list = made, ![p].todo = made]
    BY DEF GenerateNRDBMSPostHandler
<1>2. At(p, "idle") /\ "generate" \in Ops /\ UNCHANGED <<engine, src, db, files, before, cut>>
    BY DEF GenerateNRDBMSPostHandler
<1> DEFINE r == [run[p] EXCEPT !.op = "generate", !.at = "next", !.list = made, !.todo = made]
<1>3. /\ r \in RunType /\ run' = [run EXCEPT ![p] = r]
      /\ r.op = "generate" /\ r.at = "next" /\ r.list = made /\ r.todo = made
      /\ r.left = run[p].left
    BY <1>1, <1>2, RunTyped, ZenonT(40) DEF RunType, Steps
<1> HIDE DEF r
<1>4. run'[p] = r
    BY <1>3, RunUpdate DEF IInv
<1>5. run[p].op = "none" /\ run[p].list = {} /\ run[p].todo = {} /\ run[p].left = {}
    BY <1>2 DEF IInv, Position, LeftFits, OpFits, At
<1>6. Reached(p)' = {} /\ Reached(p) = {}
    BY <1>3, <1>4, <1>5 DEF Reached
<1>7. Position(p)'
    BY <1>3, <1>4, <1>5 DEF Position, LeftFits, OpFits, WriterSteps, TableSteps
<1> QED BY <1>2, <1>3, <1>5, <1>6, <1>7, PlainStep DEF At

LEMMA RequestKeeps ==
    ASSUME IInv, NEW p \in Task, NEW op \in {"create", "drop"}, Request(p, op, op)
    PROVE  IInv'
<1>1. PICK t \in Table : run' = [run EXCEPT ![p].op = op, ![p].at = op, ![p].list = {t}, ![p].cur = t]
    BY DEF Request
<1>2. At(p, "idle") /\ op \in Ops /\ UNCHANGED <<engine, src, db, files, before, cut>>
    BY DEF Request
<1> DEFINE r == [run[p] EXCEPT !.op = op, !.at = op, !.list = {t}, !.cur = t]
<1> op \in Steps /\ op \in Ops /\ {t} \in SUBSET Table
    BY <1>2 DEF Steps
<1>a. run[p] \in RunType /\ run \in [Task -> RunType]
    BY RunTyped
<1>b. /\ r \in RunType
      /\ r.op = op /\ r.at = op /\ r.list = {t} /\ r.todo = run[p].todo /\ r.cur = t
      /\ r.left = run[p].left
    BY <1>a DEF RunType
<1>c. run' = [run EXCEPT ![p] = r]
    BY <1>1, <1>a DEF RunType
<1>3. /\ r \in RunType /\ run' = [run EXCEPT ![p] = r]
      /\ r.op = op /\ r.at = op /\ r.list = {t} /\ r.todo = run[p].todo /\ r.cur = t
      /\ r.left = run[p].left
    BY <1>b, <1>c
<1> HIDE DEF r
<1>4. run'[p] = r
    BY <1>3, RunUpdate DEF IInv
<1>5. run[p].op = "none" /\ run[p].list = {} /\ run[p].todo = {} /\ run[p].left = {}
    BY <1>2 DEF IInv, Position, LeftFits, OpFits, At
<1>6. Reached(p)' = {t} /\ Reached(p) = {}
    BY <1>3, <1>4, <1>5 DEF Reached
<1>7. Position(p)'
    BY <1>3, <1>4, <1>5, <1>6 DEF Position, LeftFits, OpFits, WriterSteps, TableSteps
<1> QED BY <1>2, <1>3, <1>5, <1>6, <1>7, PlainStep DEF At, TableSteps, Writers

LEMMA ReceiveKeeps ==
    ASSUME IInv, NEW p \in Task, NEW from, Lists(p, from), NEW tables \in SUBSET Tables(p), Receive(p, tables)
    PROVE  IInv'
<1>1. /\ run' = [run EXCEPT ![p].at = "next", ![p].list = tables, ![p].todo = tables]
      /\ At(p, "list") /\ UNCHANGED <<engine, src, db, files, before, cut>>
    BY DEF Receive, Lists
<1>2. run[p].op \in {"migrate", "backup", "restore", "delete"} /\ run[p].list = {} /\ run[p].left = {}
    BY <1>1 DEF IInv, Position, LeftFits, OpFits, At
<1>3. /\ tables \in SUBSET Table
      /\ run[p].op # "delete" => tables \subseteq DOMAIN src
      /\ run[p].op = "restore" => tables \subseteq DOMAIN files
    <2>1. /\ DOMAIN src \subseteq Table /\ DOMAIN files \subseteq DOMAIN src /\ exists \subseteq Table
        BY SourceAssumption DEF IInv, TypeOK
    <2>2. Tables(p) = IF run[p].op \in {"migrate", "backup"} THEN DOMAIN src
                      ELSE IF run[p].op = "delete" THEN exists ELSE DOMAIN files
        BY <1>2 DEF Tables
    <2> QED BY <1>2, <2>1, <2>2
<1> DEFINE r == [run[p] EXCEPT !.at = "next", !.list = tables, !.todo = tables]
<1>4. /\ r \in RunType /\ run' = [run EXCEPT ![p] = r]
      /\ r.op = run[p].op /\ r.at = "next" /\ r.list = tables /\ r.todo = tables
      /\ r.left = run[p].left
    BY <1>1, <1>3, RunTyped, ZenonT(40) DEF RunType, Steps
<1> HIDE DEF r
<1>5. run'[p] = r /\ src' = src /\ files' = files
    BY <1>1, <1>4, RunUpdate DEF IInv
<1>6. Reached(p)' = {} /\ Reached(p) = {}
    BY <1>2, <1>4, <1>5 DEF Reached
<1>7. Position(p)'
    BY <1>2, <1>3, <1>4, <1>5 DEF Position, LeftFits, OpFits, WriterSteps, TableSteps
<1> QED BY <1>1, <1>4, <1>6, <1>7, PlainStep DEF At

LEMMA NextTableKeeps ==
    ASSUME IInv, NEW p \in Task, Next1(p)
    PROVE  IInv'
<1>1. At(p, "next") /\ UNCHANGED <<engine, src, db, files, before, cut>>
    BY DEF Next1
<1>2. /\ run[p].todo \subseteq run[p].list
      /\ run[p].op \in {"migrate", "backup", "restore", "generate", "delete", "drop"}
      /\ run[p].op = "drop" => run[p].todo = {}
      /\ run[p].op \in {"migrate", "backup", "restore"} => run[p].list \subseteq DOMAIN src
      /\ run[p].op = "restore" => run[p].list \subseteq DOMAIN files
      /\ run[p].left = {}
    BY <1>1 DEF IInv, Position, LeftFits, OpFits, At
<1>3. CASE run[p].todo = {} /\ run' = [run EXCEPT ![p].at = "completed"]
    <2> DEFINE r == [run[p] EXCEPT !.at = "completed"]
    <2>1. /\ r \in RunType /\ run' = [run EXCEPT ![p] = r]
          /\ r.op = run[p].op /\ r.at = "completed" /\ r.list = run[p].list /\ r.todo = {}
          /\ r.left = run[p].left
        BY <1>3, RunTyped DEF RunType, Steps
    <2> HIDE DEF r
    <2>2. run'[p] = r /\ src' = src /\ files' = files
        BY <1>1, <2>1, RunUpdate DEF IInv
    <2>3. Reached(p)' = Reached(p) /\ \A x : ~ InHand(p, x)'
        BY <1>3, <2>1, <2>2 DEF Reached, InHand, TableSteps, WriterSteps
    <2>4. Position(p)'
        BY <1>2, <2>1, <2>2 DEF Position, LeftFits, OpFits, WriterSteps, TableSteps
    <2> QED BY <1>1, <2>1, <2>3, <2>4, PlainStep DEF At
<1>4. ASSUME run[p].todo # {}, NEW t \in run[p].todo,
             run' = [run EXCEPT ![p].todo = @ \ {t}, ![p].cur = t, ![p].buf = {},
                     ![p].at = CASE run[p].op \in {"migrate", "backup"}   -> "export"
                                 [] run[p].op \in {"restore", "generate"} -> "open"
                                 [] run[p].op = "delete"                  -> "drop"]
      PROVE  IInv'
    <2> DEFINE s == CASE run[p].op \in {"migrate", "backup"}   -> "export"
                      [] run[p].op \in {"restore", "generate"} -> "open"
                      [] run[p].op = "delete"                  -> "drop"
    <2>1. run[p].op \in {"migrate", "backup", "restore", "generate", "delete"}
        BY <1>2, <1>4
    <2>2. /\ run[p].op \in {"migrate", "backup"} => s = "export"
          /\ run[p].op \in {"restore", "generate"} => s = "open"
          /\ run[p].op = "delete" => s = "drop"
        OBVIOUS
    <2> DEFINE r == [run[p] EXCEPT !.todo = @ \ {t}, !.cur = t, !.buf = {}, !.at = s]
    <2> HIDE DEF s
    <2>3. t \in Table
        BY <1>4 DEF IInv, TypeOK
    <2>4. /\ r \in RunType /\ run' = [run EXCEPT ![p] = r]
          /\ r.op = run[p].op /\ r.at = s /\ r.list = run[p].list /\ r.todo = run[p].todo \ {t} /\ r.cur = t
          /\ r.left = run[p].left
        <3>1. s \in Steps
            BY <2>1, <2>2 DEF Steps
        <3>2. run' = [run EXCEPT ![p] = r]
            <4>1. run' = [run EXCEPT ![p].todo = @ \ {t}, ![p].cur = t, ![p].buf = {}, ![p].at = s]
                BY <1>4 DEF s
            <4> QED BY <4>1, RunTyped DEF RunType
        <3>3. run[p] \in RunType
            BY RunTyped
        <3> QED BY <2>3, <3>1, <3>2, <3>3 DEF RunType
    <2> HIDE DEF r
    <2>5. run'[p] = r /\ src' = src /\ files' = files
        BY <1>1, <2>4, RunUpdate DEF IInv
    <2>6. Reached(p)' = Reached(p) \cup {t} /\ t \notin Reached(p)
        BY <1>2, <1>4, <2>4, <2>5 DEF Reached
    <2>7. Position(p)'
        BY <1>2, <2>1, <2>2, <2>4, <2>5, <2>6 DEF Position, LeftFits, OpFits, WriterSteps, TableSteps
    <2>8. \A x \in Reached(p) : x \in Reached(p)' /\ ~ InHand(p, x)'
        BY <2>4, <2>5, <2>6 DEF InHand
    <2>9. \A x \in Reached(p)' \ Reached(p) :
              r.cur = x /\ r.at \in TableSteps /\ (r.op \in Writers => r.at \in {"export", "open"})
        BY <2>1, <2>2, <2>4, <2>6 DEF TableSteps, Writers
    <2>10. r.at \in {"export", "open", "drop"}
        BY <2>1, <2>2, <2>4
    <2> QED BY <1>1, <2>4, <2>7, <2>8, <2>9, <2>10, PlainStep DEF At
<1> QED BY <1>3, <1>4 DEF Next1, To

---------------------------------------------------------------------------------
(* What the steps within a table have in common.                                *)

BufferSteps == {"file", "encode", "create", "mark", "wait"} \cup WriterSteps

LEMMA WantedItems ==
    ASSUME IInv, NEW p \in Task, NEW t \in Reached(p), run[p].op \in Writers \cup {"backup"}
    PROVE  Wanted(p, t) \subseteq Item
<1>1. run[p].op # "generate" => t \in DOMAIN src /\ src \in Sources
    BY DEF IInv, TypeOK, Position, Reached, Writers
<1> QED BY <1>1, SourceAssumption DEF Wanted

\* A step within a table is at a table of the source that has been reached.
LEMMA AtTable ==
    ASSUME IInv, NEW p \in Task, run[p].at \in TableSteps
    PROVE  /\ run[p].cur \in Table /\ run[p].cur \in Reached(p)
           /\ OpFits(run[p].op, run[p].at, run[p].job)
           /\ run[p].left # {} => run[p].at = "wait"
           /\ run[p].op \in {"create", "drop"} => run[p].todo = {}
           /\ run[p].op \in {"migrate", "backup", "restore"} => run[p].cur \in DOMAIN src
           /\ run[p].op = "restore" => run[p].cur \in DOMAIN files
           /\ run[p].op \in Writers => Wanted(p, run[p].cur) \subseteq Item
BY WantedItems DEF IInv, TypeOK, Position, LeftFits, Reached, At, TableSteps, WriterSteps

LEMMA Documents ==
    ASSUME NEW p \in Task
    PROVE  /\ Marker(p) \in Doc /\ Marker(p)[1] = Empty
           /\ \A i : Copy(p, i)[1] = i
           /\ \A i \in Item : Copy(p, i) \in Doc /\ Copy(p, i) # Marker(p)
<1>1. \A i \in Item : i # Empty
    BY MarkAssumption
<1> QED BY <1>1 DEF Marker, Copy, Doc

LEMMA StoredAsBefore ==
    ASSUME IInv, UNCHANGED <<db, files, src>>, cut \subseteq cut', cut' \subseteq Task \X Table
    PROVE  Stored
BY DEF IInv, TypeOK, Stored, db

\* Put changes one table, and keeps the store what it is.
LEMMA PutEffect ==
    ASSUME IInv, NEW t \in Table, NEW docs \in SUBSET Doc, Put(t, docs), UNCHANGED <<files, src, cut>>
    PROVE  /\ Stored /\ dst'[t] = docs
           /\ \A x \in Table \ {t} : dst'[x] = dst[x] /\ (x \in exists' <=> x \in exists)
<1>1. /\ dst' = [dst EXCEPT ![t] = docs]
      /\ exists' = IF engine[2] = "gcp" /\ docs = {} THEN exists \ {t}
                   ELSE IF docs = {} THEN exists ELSE exists \cup {t}
    BY DEF Put
<1>2. /\ dst \in [Table -> SUBSET Doc] /\ exists \subseteq Table
      /\ \A x \in Table : dst[x] # {} => x \in exists
    BY DEF IInv, TypeOK
<1>3. dst' \in [Table -> SUBSET Doc] /\ dst'[t] = docs /\ \A x \in Table \ {t} : dst'[x] = dst[x]
    BY <1>1, <1>2
<1>4. exists' \subseteq Table /\ (docs # {} => t \in exists')
      /\ \A x \in Table \ {t} : x \in exists' <=> x \in exists
    BY <1>1, <1>2
<1>5. \A x \in Table : dst'[x] # {} => x \in exists'
    BY <1>2, <1>3, <1>4
<1> QED BY <1>3, <1>4, <1>5 DEF IInv, TypeOK, Stored, Put

\* What was read is kept by the steps after it.
LEMMA BufferStays ==
    ASSUME IInv, NEW p \in Task, NEW r \in RunType, run' = [run EXCEPT ![p] = r], UNCHANGED <<engine, src, cut>>,
           r.op = run[p].op, r.cur = run[p].cur, r.buf = run[p].buf,
           r.at \in BufferSteps /\ r.op \in Writers \cup {"backup"} => run[p].at \in BufferSteps
    PROVE  Buffered(p)'
<1>1. run'[p] = r
    BY RunUpdate DEF IInv
<1> QED BY <1>1 DEF IInv, Buffered, BufferSteps, Wanted

\* A task only goes to another step of the same table, or leaves it.
LEMMA ToStep ==
    ASSUME IInv, NEW p \in Task, NEW s \in Steps, To(p, s)
    PROVE  \E r \in RunType :
               /\ run' = [run EXCEPT ![p] = r] /\ r.at = s
               /\ r.op = run[p].op /\ r.list = run[p].list /\ r.todo = run[p].todo /\ r.cur = run[p].cur
               /\ r.buf = run[p].buf /\ r.job = run[p].job /\ r.left = run[p].left /\ r.broke = run[p].broke
<1> DEFINE r == [run[p] EXCEPT !.at = s]
<1>1. r \in RunType /\ r.at = s
    BY RunTyped DEF RunType
<1>2. /\ r.op = run[p].op /\ r.list = run[p].list /\ r.todo = run[p].todo /\ r.cur = run[p].cur
      /\ r.buf = run[p].buf /\ r.job = run[p].job /\ r.left = run[p].left /\ r.broke = run[p].broke
    BY RunTyped DEF RunType
<1>3. run' = [run EXCEPT ![p] = r]
    BY RunTyped DEF To
<1> QED BY <1>1, <1>2, <1>3

\* It does so and changes nothing else.
LEMMA ToKeeps ==
    ASSUME IInv, NEW p \in Task, NEW t, t = run[p].cur, run[p].at \in TableSteps,
           NEW s \in TableSteps \cup {"next", "failed", "completed"}, To(p, s),
           UNCHANGED <<engine, src, db, files, before, cut>>,
           OpFits(run[p].op, s, run[p].job), s = "completed" => run[p].todo = {},
           run[p].left = {} \/ (s = "failed" /\ Is(p, "gcp")),
           run[p].at = "wait" /\ run[p].broke => s = "failed",
           s \in BufferSteps /\ run[p].op \in Writers \cup {"backup"} => run[p].at \in BufferSteps,
           run[p].op = "backup" => s = "failed" \/ s \in TableSteps,
           run[p].op \in Writers /\ Worked(p, t) /\ s # "failed" =>
               IF s \in TableSteps
               THEN /\ s \in {"check", "clear", "create", "import", "sweep"}
                    /\ s = "create" => dst[t] = {} \/ (Is(p, "aws") /\ t \in exists)
                    /\ s = "import" => dst[t] \subseteq {Marker(p)} /\ (dst[t] = {} \/ Is(p, "gcp"))
                    /\ s = "sweep"  => dst[t] \ {Marker(p)} = Brought(p, t)
               ELSE dst[t] = Brought(p, t),
           run[p].op \in Writers /\ s # "failed" =>
               \/ s = "import"
               \/ run[p].at \in EarlySteps /\ s \in EarlySteps
               \/ run[p].at \notin EarlySteps \cup {"import"} /\ run[p].job = "write"
               \/ run[p].at = "sweep"
    PROVE  IInv'
<1>1. s \in Steps
    BY DEF TableSteps, WriterSteps, Steps
<1>2. PICK r \in RunType :
          /\ run' = [run EXCEPT ![p] = r] /\ r.at = s
          /\ r.op = run[p].op /\ r.list = run[p].list /\ r.todo = run[p].todo /\ r.cur = run[p].cur
          /\ r.buf = run[p].buf /\ r.job = run[p].job /\ r.left = run[p].left /\ r.broke = run[p].broke
    BY <1>1, ToStep
<1>3. run'[p] = r
    BY <1>2, RunUpdate DEF IInv
<1>4. UNCHANGED <<engine, src, before>> /\ UNCHANGED <<exists, dst, files, cut>>
    BY DEF db
<1>5. Stored
    BY <1>4, StoredAsBefore DEF IInv, TypeOK, db
<1>6. Buffered(p)'
    BY <1>2, <1>4, BufferStays
<1>7. run[p].op \in Writers /\ Worked(p, t) /\ s # "failed" =>
          IF s \in TableSteps THEN Worked(p, t)' ELSE dst'[t] = Brought(p, t)
    <2> SUFFICES ASSUME run[p].op \in Writers, Worked(p, t), s # "failed"
                 PROVE  IF s \in TableSteps THEN Worked(p, t)' ELSE dst'[t] = Brought(p, t)
        OBVIOUS
    <2>1. Brought(p, t)' = Brought(p, t)
        BY <1>2, <1>3, <1>4 DEF Brought, Copy, Keyed, Wanted
    <2>2. CASE s \in TableSteps
        BY <1>2, <1>3, <1>4, <2>1, <2>2 DEF Worked, At, Is, Marker
    <2>3. CASE s \notin TableSteps
        BY <1>4, <2>3
    <2> QED BY <2>2, <2>3
<1>8. ASSUME NEW i \in Item, run[p].op \in Writers, s # "failed",
             \/ run[p].at \in EarlySteps /\ r.at \notin EarlySteps
             \/ i \in Items(t) \/ Owes(p, t, i)
      PROVE  i \in Items(t)' \/ Owes(p, t, i)'
    <2>1. s = "import" => Owes(p, t, i)'
        BY <1>2, <1>3 DEF Owes, At
    <2>2. Items(t)' = Items(t)
        BY <1>4 DEF Items
    <2>3. Owes(p, t, i) => run[p].left # {} \/ run[p].job = "erase" \/ run[p].at = "import"
        BY DEF Owes, At
    <2>4. Owes(p, t, i) => run[p].at \in {"import", "wait"}
        BY DEF Owes, At
    <2> QED BY <1>2, <1>8, <2>1, <2>2, <2>3, <2>4 DEF EarlySteps
<1>9. LeftFits(p, r)
    BY <1>2 DEF IInv, Position, LeftFits
<1> QED BY <1>2, <1>4, <1>5, <1>6, <1>7, <1>8, <1>9, TableStep

---------------------------------------------------------------------------------
(* Failures, and what is read.                                                  *)

LEMMA FailKeeps ==
    ASSUME IInv, NEW p \in Task, Fail(p)
    PROVE  IInv'
<1>1. /\ run[p].at \in {"list", "export", "open", "check", "file", "encode", "clear", "create",
                        "mark", "import", "sweep", "drop"}
      /\ UNCHANGED <<engine, src, db, files, before, cut>>
    BY DEF Fail
<1>2. CASE run[p].at = "list" /\ To(p, "failed")
    <2>1. PICK r \in RunType :
              /\ run' = [run EXCEPT ![p] = r] /\ r.at = "failed"
              /\ r.op = run[p].op /\ r.list = run[p].list /\ r.todo = run[p].todo /\ r.cur = run[p].cur
              /\ r.left = run[p].left
        BY <1>2, ToStep DEF Steps
    <2>2. run'[p] = r
        BY <2>1, RunUpdate DEF IInv
    <2>3. run[p].list = {} /\ run[p].op \in {"migrate", "backup", "restore", "delete"} /\ run[p].left = {}
          /\ run[p].todo = {}
        BY <1>2 DEF IInv, Position, LeftFits, OpFits, At
    <2>4. Reached(p) = {} /\ Reached(p)' = {}
        BY <2>1, <2>2, <2>3 DEF Reached
    <2>5. Position(p)'
        BY <2>1, <2>2, <2>3 DEF Position, LeftFits, OpFits, TableSteps, WriterSteps
    <2> QED BY <1>1, <1>2, <2>1, <2>4, <2>5, PlainStep
<1>3. CASE run[p].at # "list" /\ To(p, "failed")
    <2>1. run[p].at \in TableSteps /\ run[p].at # "wait"
        BY <1>1, <1>3 DEF TableSteps, WriterSteps
    <2>2. run[p].left = {} /\ OpFits(run[p].op, "failed", run[p].job)
        BY <2>1, AtTable DEF OpFits, WriterSteps, TableSteps
    <2> QED BY <1>1, <1>3, <2>1, <2>2, ToKeeps DEF BufferSteps, WriterSteps
<1>4. ASSUME Is(p, "gcp"), At(p, "import"), NEW queued \in SUBSET Copies(p),
             run' = [run EXCEPT ![p].at = "failed", ![p].job = "write", ![p].left = queued]
      PROVE  IInv'
    <2> DEFINE r == [run[p] EXCEPT !.at = "failed", !.job = "write", !.left = queued]
    <2>1. run[p].at = "import" /\ run[p].at \in TableSteps /\ run[p].op \in Writers /\ run[p].cur \in Table
        BY <1>4, AtTable DEF At, OpFits, TableSteps, WriterSteps
    <2>2. queued \in SUBSET Doc
        BY RunTyped, Documents DEF Copies, RunType
    <2>3. /\ r \in RunType /\ run' = [run EXCEPT ![p] = r]
          /\ r.op = run[p].op /\ r.at = "failed" /\ r.list = run[p].list /\ r.todo = run[p].todo
          /\ r.cur = run[p].cur /\ r.buf = run[p].buf /\ r.job = "write" /\ r.left = queued
        BY <1>4, <2>2, RunTyped DEF RunType, Steps
    <2> HIDE DEF r
    <2>4. OpFits(r.op, r.at, r.job) /\ LeftFits(p, r)
        BY <1>4, <2>1, <2>3 DEF OpFits, LeftFits, Copies, Writers, WriterSteps
    <2>5. Buffered(p)'
        BY <1>1, <2>3, RunUpdate DEF IInv, Buffered, WriterSteps
    <2>6. Stored /\ UNCHANGED <<exists, dst, files, cut>>
        BY <1>1, StoredAsBefore DEF IInv, TypeOK, db
    <2> QED BY <1>1, <2>1, <2>3, <2>4, <2>5, <2>6, TableStep
<1> QED BY <1>2, <1>3, <1>4 DEF Fail

\* A table was read: what is missing is noted.
LEMMA FilledKeeps ==
    ASSUME IInv, NEW p \in Task, NEW t, t = run[p].cur, run[p].at \in {"export", "open"},
           NEW items \in SUBSET Item, NEW s \in {"file", "check"},
           run' = [run EXCEPT ![p].buf = items, ![p].at = s],
           s = "file" => run[p].op = "backup", s = "check" => run[p].op \in Writers,
           cut' = cut \/ cut' = cut \cup {<<p, t>>}, <<p, t>> \notin cut' => items = Wanted(p, t),
           UNCHANGED <<engine, src, db, files, before>>
    PROVE  IInv'
<1> DEFINE r == [run[p] EXCEPT !.buf = items, !.at = s]
<1>1. /\ r \in RunType /\ run' = [run EXCEPT ![p] = r]
      /\ r.op = run[p].op /\ r.at = s /\ r.list = run[p].list /\ r.todo = run[p].todo /\ r.cur = t
      /\ r.left = run[p].left /\ r.buf = items
    BY RunTyped DEF RunType, Steps
<1> HIDE DEF r
<1>2. run'[p] = r
    BY <1>1, RunUpdate DEF IInv
<1>3. run[p].at \in TableSteps /\ s \in TableSteps
    BY DEF TableSteps, WriterSteps
<1>4. t \in Table /\ t \in Reached(p) /\ run[p].left = {} /\ OpFits(run[p].op, s, run[p].job)
    BY <1>3, AtTable DEF OpFits, WriterSteps, Writers
<1>5. r.job = run[p].job
    BY RunTyped DEF RunType, r
<1>6. cut \subseteq cut' /\ cut' \subseteq Task \X Table
    BY <1>4 DEF IInv, TypeOK
<1>7. Stored
    BY <1>6, StoredAsBefore
<1>8. Buffered(p)'
    BY <1>1, <1>2 DEF Buffered, Wanted
<1>9. Worked(p, t)'
    BY <1>1, <1>2 DEF Worked, At
<1>10. UNCHANGED <<exists, dst, files>>
    BY DEF db
<1>11. \A i \in Item : /\ ~ Owes(p, t, i) /\ Items(t)' = Items(t)
                       /\ run[p].op \in Writers => s \in EarlySteps
    BY <1>10 DEF Owes, At, Items, EarlySteps, Writers
<1>12. LeftFits(p, r)
    BY <1>1, <1>4 DEF LeftFits
<1> QED BY <1>1, <1>3, <1>4, <1>5, <1>7, <1>8, <1>9, <1>10, <1>11, <1>12, TableStep, ZenonT(40)

LEMMA ReadKeeps ==
    ASSUME IInv, NEW p \in Task, At(p, "export"), NEW items \in SUBSET src[Name(p)], Read(p, items)
    PROVE  IInv'
<1>1. run[p].at = "export" /\ run[p].op \in {"migrate", "backup"} /\ run[p].cur \in DOMAIN src
    BY AtTable DEF At, OpFits, TableSteps
<1>2. items \in SUBSET Item /\ Wanted(p, run[p].cur) = src[run[p].cur]
    BY <1>1, SourceAssumption DEF IInv, TypeOK, Name, Wanted
<1> DEFINE s == IF run[p].op = "backup" THEN "file" ELSE "check"
<1>3. run' = [run EXCEPT ![p].buf = items, ![p].at = s] /\ s \in {"file", "check"}
    BY DEF Read
<1>4. /\ cut' = IF items = src[Name(p)] THEN cut ELSE cut \cup {<<p, Name(p)>>}
      /\ UNCHANGED <<engine, src, db, files, before>>
    BY DEF Read
<1>5. /\ cut' = cut \/ cut' = cut \cup {<<p, run[p].cur>>}
      /\ <<p, run[p].cur>> \notin cut' => items = Wanted(p, run[p].cur)
    BY <1>2, <1>4 DEF Name
<1>6. (s = "file" => run[p].op = "backup") /\ (s = "check" => run[p].op \in Writers)
    BY <1>1 DEF Writers
<1> HIDE DEF s
<1> QED BY <1>1, <1>2, <1>3, <1>4, <1>5, <1>6, FilledKeeps

LEMMA OpenFileKeeps ==
    ASSUME IInv, NEW p \in Task, OpenFile(p)
    PROVE  IInv'
<1>1. At(p, "open") /\ run[p].at = "open" /\ UNCHANGED <<engine, src, db, files, before>>
    BY DEF OpenFile, At
<1>2. /\ run[p].op \in {"restore", "generate"} /\ run[p].op \in Writers /\ run[p].left = {}
      /\ run[p].op # "generate" => run[p].cur \in DOMAIN files
      /\ run[p].at \in TableSteps
    BY <1>1, AtTable DEF OpFits, TableSteps, Writers
<1>3. CASE /\ run[p].op = "generate" /\ cut' = cut
           /\ run' = [run EXCEPT ![p].buf = Item, ![p].at = "check"]
    BY <1>1, <1>2, <1>3, FilledKeeps DEF Wanted
<1> DEFINE items == files[Name(p)]
<1>4. CASE run[p].op # "generate" /\ items = {Torn} /\ To(p, "failed") /\ cut' = cut
    BY <1>1, <1>2, <1>4, ToKeeps, AtTable DEF OpFits, WriterSteps, TableSteps, BufferSteps
<1>5. CASE /\ run[p].op # "generate" /\ items # {Torn}
           /\ run' = [run EXCEPT ![p].buf = items, ![p].at = "check"]
           /\ cut' = IF items = src[Name(p)] THEN cut ELSE cut \cup {<<p, Name(p)>>}
    <2>1. items \in SUBSET Item /\ Wanted(p, run[p].cur) = src[run[p].cur]
        <3>1. Name(p) \in DOMAIN files /\ \A x \in DOMAIN files : files[x] \subseteq Item \/ files[x] = {Torn}
            BY <1>2, <1>5 DEF IInv, TypeOK, Name
        <3> QED BY <1>5, <3>1 DEF Wanted, Name
    <2>2. /\ cut' = cut \/ cut' = cut \cup {<<p, run[p].cur>>}
          /\ <<p, run[p].cur>> \notin cut' => items = Wanted(p, run[p].cur)
        BY <1>5, <2>1 DEF Name
    <2> HIDE DEF items
    <2> QED BY <1>1, <1>2, <1>5, <2>1, <2>2, FilledKeeps
<1> QED BY <1>3, <1>4, <1>5 DEF OpenFile

---------------------------------------------------------------------------------
(* The files of a backup.                                                       *)

LEMMA FileKeeps ==
    ASSUME IInv, NEW p \in Task, NEW t, t = run[p].cur, run[p].at \in {"file", "encode"},
           NEW s \in {"encode", "next"}, To(p, s), NEW items, SetFile(t, items),
           items \in SUBSET Item \/ items = {Torn},
           s = "next" => items = run[p].buf,
           UNCHANGED <<engine, src, db, before, cut>>
    PROVE  IInv'
<1>1. s \in Steps /\ run[p].at \in TableSteps /\ (s = "next" \/ s \in TableSteps)
    BY DEF Steps, TableSteps
<1>2. PICK r \in RunType :
          /\ run' = [run EXCEPT ![p] = r] /\ r.at = s
          /\ r.op = run[p].op /\ r.list = run[p].list /\ r.todo = run[p].todo /\ r.cur = run[p].cur
          /\ r.buf = run[p].buf /\ r.job = run[p].job /\ r.left = run[p].left /\ r.broke = run[p].broke
    BY <1>1, ToStep
<1>3. run'[p] = r
    BY <1>2, RunUpdate DEF IInv
<1>4. /\ run[p].op = "backup" /\ t \in Table /\ t \in DOMAIN src /\ run[p].left = {}
      /\ OpFits(run[p].op, s, run[p].job)
    BY <1>1, AtTable DEF OpFits, WriterSteps
<1>5. files' = [x \in DOMAIN files \cup {t} |-> IF x = t THEN items ELSE files[x]]
    BY DEF SetFile
<1>6. DOMAIN files' = DOMAIN files \cup {t} /\ files'[t] = items
      /\ \A x \in DOMAIN files \ {t} : files'[x] = files[x]
    BY <1>5
<1>7. UNCHANGED <<exists, dst, dropping, cut, src, engine, before>>
    BY DEF db
<1>8. Stored
    BY <1>4, <1>6, <1>7 DEF IInv, TypeOK, Stored
<1>9. Buffered(p)'
    BY <1>2, <1>7, BufferStays DEF BufferSteps
<1>10. <<p, t>> \notin cut' /\ s = "next" => files'[t] = src[t]
    BY <1>4, <1>6, <1>7 DEF IInv, Buffered, Wanted
<1>11. run[p].op \notin Writers
    BY <1>4 DEF Writers
<1>12. \A x \in Table \ {t} : /\ x \in DOMAIN files' <=> x \in DOMAIN files
                              /\ x \in DOMAIN files => files'[x] = files[x]
    BY <1>6
<1>13. /\ run[p].op = "backup" /\ r.cur = t /\ r.at = s /\ OpFits(r.op, r.at, r.job) /\ r.at # "completed"
       /\ ~ (run[p].at = "wait" /\ run[p].broke) /\ LeftFits(p, r)
       /\ r.at \in TableSteps \cup {"next", "failed", "completed"}
    BY <1>1, <1>2, <1>4 DEF LeftFits
<1>14. UNCHANGED <<engine, src, before>> /\ cut' = cut /\ dst' = dst /\ exists' = exists
    BY <1>7
<1>15. r.at \notin TableSteps \cup {"failed"} /\ <<p, t>> \notin cut' => t \in DOMAIN files' /\ files'[t] = src[t]
    BY <1>1, <1>6, <1>10, <1>13
<1>16. \A x \in Table \ {t} : dst'[x] = dst[x] /\ (x \in exists' <=> x \in exists)
    BY <1>14
<1> QED BY <1>1, <1>2, <1>8, <1>9, <1>11, <1>12, <1>13, <1>14, <1>15, <1>16, TableStep, ZenonT(40)

LEMMA FilesKeep ==
    ASSUME IInv, NEW p \in Task, CreateFile(p) \/ Encode(p)
    PROVE  IInv'
<1>1. CASE CreateFile(p)
    BY <1>1, FileKeeps DEF CreateFile, At, Name
<1>2. CASE Encode(p)
    <2>1. run[p].buf \in SUBSET Item
        BY RunTyped DEF RunType
    <2> QED BY <1>2, <2>1, FileKeeps DEF Encode, At, Name
<1> QED BY <1>1, <1>2

---------------------------------------------------------------------------------
(* The table is cleared or created.                                             *)

\* A step that changes the documents of the table, and goes on.
LEMMA StoreKeeps ==
    ASSUME IInv, NEW p \in Task, NEW t, t = run[p].cur, run[p].at \in TableSteps \ {"wait"},
           NEW s \in TableSteps \cup {"next", "failed", "completed"}, To(p, s),
           NEW docs, dst'[t] = docs, Stored,
           \A x \in Table \ {t} : dst'[x] = dst[x] /\ (x \in exists' <=> x \in exists),
           UNCHANGED <<engine, src, files, before, cut>>,
           OpFits(run[p].op, s, run[p].job), s = "completed" => run[p].todo = {}, run[p].op # "backup",
           s \in BufferSteps /\ run[p].op \in Writers => run[p].at \in BufferSteps,
           run[p].op \in Writers /\ Worked(p, t) /\ <<p, t>> \notin cut /\ s # "failed" =>
               IF s \in TableSteps
               THEN /\ s \in {"mark", "import", "sweep"}
                    /\ s = "mark"   => docs = {Marker(p)}
                    /\ s = "import" => docs \subseteq {Marker(p)} /\ (docs = {} \/ Is(p, "gcp"))
                    /\ s = "sweep"  => docs \ {Marker(p)} = Brought(p, t)
               ELSE docs = Brought(p, t),
           run[p].op \in Writers /\ <<p, t>> \notin cut /\ s \notin {"failed", "import"} =>
               /\ run[p].at \in EarlySteps => s \in EarlySteps
               /\ \A i \in Item : i \in Wanted(p, t) /\ (i \in Items(t) \/ run[p].at = "import")
                                     => \E d \in docs : d[1] = i
    PROVE  IInv'
<1>1. s \in Steps
    BY DEF TableSteps, WriterSteps, Steps
<1>2. PICK r \in RunType :
          /\ run' = [run EXCEPT ![p] = r] /\ r.at = s
          /\ r.op = run[p].op /\ r.list = run[p].list /\ r.todo = run[p].todo /\ r.cur = run[p].cur
          /\ r.buf = run[p].buf /\ r.job = run[p].job /\ r.left = run[p].left /\ r.broke = run[p].broke
    BY <1>1, ToStep
<1>3. run'[p] = r
    BY <1>2, RunUpdate DEF IInv
<1>4. UNCHANGED <<engine, src, before>> /\ UNCHANGED <<engine, src, cut>> /\ cut' = cut /\ files' = files
    OBVIOUS
<1>5. run[p].at \in TableSteps /\ run[p].at # "wait" /\ run[p].left = {}
    BY AtTable
<1>6. Buffered(p)'
    BY <1>2, <1>4, BufferStays
<1>7. run[p].op \in Writers /\ Worked(p, t) /\ <<p, t>> \notin cut' /\ s # "failed" =>
          IF s \in TableSteps THEN Worked(p, t)' ELSE dst'[t] = Brought(p, t)
    <2> SUFFICES ASSUME run[p].op \in Writers, Worked(p, t), <<p, t>> \notin cut, s # "failed"
                 PROVE  IF s \in TableSteps THEN Worked(p, t)' ELSE dst'[t] = Brought(p, t)
        BY <1>4
    <2>1. Brought(p, t)' = Brought(p, t)
        BY <1>2, <1>3 DEF Brought, Copy, Keyed, Wanted
    <2>2. CASE s \in TableSteps
        BY <1>2, <1>3, <2>1, <2>2 DEF Worked, At, Is, Marker
    <2>3. CASE s \notin TableSteps
        BY <2>3
    <2> QED BY <2>2, <2>3
<1>8. ASSUME NEW i \in Item, run[p].op \in Writers, i \in Wanted(p, t), <<p, t>> \notin cut', s # "failed",
             \/ run[p].at \in EarlySteps /\ r.at \notin EarlySteps
             \/ i \in Items(t) \/ Owes(p, t, i)
      PROVE  i \in Items(t)' \/ Owes(p, t, i)'
    <2>1. s = "import" => Owes(p, t, i)'
        BY <1>2, <1>3 DEF Owes, At
    <2>2. (\E d \in docs : d[1] = i) => i \in Items(t)'
        BY DEF Items
    <2>3. Owes(p, t, i) => run[p].at = "import"
        BY <1>5 DEF Owes, At
    <2> QED BY <1>2, <1>4, <1>8, <2>1, <2>2, <2>3
<1>9. /\ OpFits(r.op, r.at, r.job) /\ r.cur = t /\ r.left = {}
      /\ r.at = "completed" => r.todo = {}
      /\ r.at \in TableSteps \cup {"next", "failed", "completed"}
    BY <1>2, <1>5
<1>10. /\ run[p].op # "backup" /\ (r.op = "backup" => run[p].op = "backup")
       /\ ~ (run[p].at = "wait" /\ run[p].broke)
       /\ r.op = run[p].op /\ r.list = run[p].list /\ r.todo = run[p].todo
    BY <1>2, <1>5
<1>11. r.op \in Writers /\ Worked(p, t) /\ <<p, t>> \notin cut' /\ r.at # "failed" =>
           IF r.at \in TableSteps THEN Worked(p, t)' ELSE dst'[t] = Brought(p, t)
    BY <1>2, <1>7
<1>12. \A i \in Item :
           /\ r.op \in Writers /\ i \in Wanted(p, t) /\ <<p, t>> \notin cut'
           /\ r.at # "failed" /\ ~ (r.at = "wait" /\ r.broke)
           /\ \/ run[p].at \in EarlySteps /\ r.at \notin EarlySteps
              \/ i \in Items(t) \/ Owes(p, t, i)
           => i \in Items(t)' \/ Owes(p, t, i)'
    BY <1>2, <1>8
<1>13. /\ run' = [run EXCEPT ![p] = r] /\ run[p].at \in TableSteps
       /\ LeftFits(p, r)
       /\ run[p].at = "wait" /\ run[p].broke => r.at = "failed" \/ (r.at = "wait" /\ r.broke)
       /\ r.op = "backup" /\ r.at \notin TableSteps \cup {"failed"} /\ <<p, t>> \notin cut' =>
             t \in DOMAIN files' /\ files'[t] = src[t]
    BY <1>2, <1>5, <1>9, <1>10 DEF LeftFits
<1> QED BY <1>4, <1>6, <1>9, <1>10, <1>11, <1>12, <1>13, TableStep

LEMMA FindTableKeeps ==
    ASSUME IInv, NEW p \in Task, FindTable(p)
    PROVE  IInv'
<1>1. PICK s \in {"clear", "create"} :
          /\ To(p, s)
          /\ s = "create" => Name(p) \notin exists \/ Is(p, "aws")
    BY DEF FindTable
<1>2. /\ run[p].at = "check" /\ UNCHANGED <<engine, src, db, files, before, cut>>
      /\ s \in TableSteps /\ run[p].at \in TableSteps
    BY DEF FindTable, At, TableSteps, WriterSteps
<1>3. /\ run[p].op \in Writers /\ run[p].left = {} /\ run[p].cur \in Table
      /\ OpFits(run[p].op, s, run[p].job)
    BY <1>2, AtTable DEF OpFits, WriterSteps, TableSteps, Writers
<1>4. s = "create" => dst[run[p].cur] = {} \/ (Is(p, "aws") /\ run[p].cur \in exists)
    BY <1>1, <1>3 DEF IInv, TypeOK, Name
<1>5. run[p].op # "backup" /\ s \in EarlySteps /\ run[p].at \in EarlySteps /\ run[p].at \in BufferSteps
    BY <1>2, <1>3 DEF EarlySteps, BufferSteps, WriterSteps, Writers
<1> QED BY <1>1, <1>2, <1>3, <1>4, <1>5, ToKeeps

LEMMA StartEraseKeeps ==
    ASSUME IInv, NEW p \in Task, NEW t, t = run[p].cur, StartErase(p)
    PROVE  IInv'
<1> DEFINE r == [run[p] EXCEPT !.at = "wait", !.job = "erase", !.left = dst[t], !.broke = FALSE]
<1>1. /\ run' = [run EXCEPT ![p].at = "wait", ![p].job = "erase", ![p].left = dst[t], ![p].broke = FALSE]
      /\ run[p].at \in {"drop", "clear"} /\ UNCHANGED <<engine, src, db, files, before, cut>>
    BY DEF StartErase, At, Name
<1>2. run[p].at \in TableSteps /\ "wait" \in TableSteps /\ run[p].at # "wait"
    BY <1>1 DEF TableSteps, WriterSteps
<1>3. /\ t \in Table /\ run[p].op \in Writers \cup {"delete", "drop"} /\ run[p].op # "backup"
      /\ run[p].at = "drop" => run[p].op \notin Writers
    BY <1>1, <1>2, AtTable DEF OpFits, WriterSteps, Writers
<1>4. dst[t] \in SUBSET Doc
    BY <1>3 DEF IInv, TypeOK
<1>5. /\ r \in RunType /\ run' = [run EXCEPT ![p] = r]
      /\ r.op = run[p].op /\ r.at = "wait" /\ r.list = run[p].list /\ r.todo = run[p].todo
      /\ r.cur = run[p].cur /\ r.buf = run[p].buf /\ r.job = "erase" /\ r.left = dst[t] /\ ~ r.broke
    BY <1>1, <1>4, RunTyped DEF RunType, Steps
<1> HIDE DEF r
<1>6. run'[p] = r
    BY <1>5, RunUpdate DEF IInv
<1>7. UNCHANGED <<engine, src, before>> /\ UNCHANGED <<engine, src, cut>> /\ UNCHANGED <<exists, dst, files, cut>>
    BY <1>1 DEF db
<1>8. Stored
    BY <1>1, StoredAsBefore DEF IInv, TypeOK
<1>9. Buffered(p)'
    BY <1>1, <1>3, <1>5, <1>7, BufferStays DEF BufferSteps, WriterSteps
<1>10. OpFits(r.op, r.at, r.job)
    BY <1>2, <1>3, <1>5 DEF OpFits, WriterSteps, Writers
<1>11. Worked(p, t)'
    BY <1>5, <1>6, <1>7 DEF Worked, At
<1>12. \A i \in Item : Owes(p, t, i)'
    BY <1>5, <1>6 DEF Owes, At
<1>13. /\ cut' = cut /\ files' = files /\ r.cur = t /\ r.at \in TableSteps /\ r.op # "backup"
       /\ LeftFits(p, r) /\ UNCHANGED <<engine, src, before>>
       /\ \A x \in Table \ {t} : dst'[x] = dst[x] /\ (x \in exists' <=> x \in exists)
    BY <1>2, <1>3, <1>5, <1>7 DEF LeftFits
<1> QED BY <1>2, <1>3, <1>5, <1>8, <1>9, <1>10, <1>11, <1>12, <1>13, TableStep

LEMMA MongoClearKeeps ==
    ASSUME IInv, NEW p \in Task, NEW t, t = run[p].cur, MongoClear(p)
    PROVE  IInv'
<1>1. PICK rest \in SUBSET dst[t] : Put(t, rest) /\ Answer(p, IF rest = {} THEN "import" ELSE "failed")
    BY DEF MongoClear, Name
<1>2. run[p].at = "clear" /\ UNCHANGED <<engine, src, files, before, cut>>
    BY DEF MongoClear, At
<1>3. run[p].at \in TableSteps \ {"wait"} /\ run[p].at \in BufferSteps
    BY <1>2 DEF TableSteps, WriterSteps, BufferSteps
<1>4. /\ t \in Table /\ run[p].op # "backup"
      /\ \A s \in {"import", "failed"} : OpFits(run[p].op, s, run[p].job)
    BY <1>2, <1>3, AtTable DEF OpFits, WriterSteps, Writers
<1>5. rest \in SUBSET Doc
    BY <1>4 DEF IInv, TypeOK
<1>6. /\ Stored /\ dst'[t] = rest
      /\ \A x \in Table \ {t} : dst'[x] = dst[x] /\ (x \in exists' <=> x \in exists)
    BY <1>1, <1>2, <1>4, <1>5, PutEffect
<1>7. PICK s \in {"import", "failed"} : To(p, s) /\ (s = "import" => rest = {})
    BY <1>1 DEF Answer
<1>8. s \in TableSteps \cup {"next", "failed", "completed"} /\ (s # "failed" => s = "import")
    BY DEF TableSteps, WriterSteps
<1> QED BY <1>2, <1>3, <1>4, <1>6, <1>7, <1>8, StoreKeeps DEF TableSteps

\* Where a table that was created is gone on with.
LEMMA CreatedFits ==
    ASSUME IInv, NEW p \in Task, run[p].at \in {"create", "mark"}
    PROVE  /\ Created(p) \in {"completed", "import"} /\ run[p].at \in TableSteps
           /\ Created(p) = "completed" => run[p].todo = {} /\ run[p].op \notin Writers
           /\ OpFits(run[p].op, Created(p), run[p].job) /\ OpFits(run[p].op, "mark", run[p].job)
           /\ OpFits(run[p].op, "failed", run[p].job)
           /\ run[p].cur \in Table /\ run[p].op # "backup" /\ run[p].left = {}
           /\ "import" \in TableSteps /\ "mark" \in TableSteps /\ run[p].at \in BufferSteps
<1>1. run[p].at \in TableSteps
    BY DEF TableSteps
<1>2. run[p].op \in Writers \cup {"create"}
    BY <1>1, AtTable DEF OpFits
<1>3. "create" \notin Writers
    BY DEF Writers
<1> QED BY <1>1, <1>2, <1>3, AtTable DEF Created, OpFits, WriterSteps, TableSteps, Writers, BufferSteps

LEMMA DynamoCreateKeeps ==
    ASSUME IInv, NEW p \in Task, NEW t, t = run[p].cur, DynamoCreate(p)
    PROVE  IInv'
<1>1. /\ run[p].at = "create" /\ exists' = exists \cup {t}
      /\ dst' = dst /\ dropping' = dropping /\ UNCHANGED <<engine, src, files, before, cut>>
    BY DEF DynamoCreate, At, Name
<1>2. PICK s \in {"failed", Created(p)} : To(p, s) /\ (s # "failed" => t \notin exists)
    BY DEF DynamoCreate, Answer, Name
<1>3. t \in Table
    BY <1>1, CreatedFits
<1>4. /\ Stored /\ \A x \in Table \ {t} : dst'[x] = dst[x] /\ (x \in exists' <=> x \in exists)
    BY <1>1, <1>3 DEF IInv, TypeOK, Stored
<1>5. /\ s \in {"failed", "import", "completed"} /\ OpFits(run[p].op, s, run[p].job)
      /\ s = "completed" => run[p].todo = {} /\ run[p].op \notin Writers
    BY <1>1, CreatedFits
<1>6. Worked(p, t) /\ s = "import" => dst[t] = {}
    BY <1>2, <1>1 DEF Worked, At
<1>7. /\ run[p].at \in TableSteps \ {"wait"} /\ run[p].at \in BufferSteps
      /\ s \in TableSteps \cup {"next", "failed", "completed"} /\ run[p].op # "backup"
    BY <1>1, <1>5, CreatedFits
<1>8. run[p].op \in Writers /\ s # "failed" => s = "import"
    BY <1>5
<1>9. To(p, s) /\ dst'[t] = dst[t] /\ UNCHANGED <<engine, src, files, before, cut>>
    BY <1>2, <1>1
<1>10. run[p].op \in Writers /\ Worked(p, t) /\ <<p, t>> \notin cut /\ s # "failed" =>
           IF s \in TableSteps
           THEN /\ s \in {"mark", "import", "sweep"}
                /\ s = "mark"   => dst[t] = {Marker(p)}
                /\ s = "import" => dst[t] \subseteq {Marker(p)} /\ (dst[t] = {} \/ Is(p, "gcp"))
                /\ s = "sweep"  => dst[t] \ {Marker(p)} = Brought(p, t)
           ELSE dst[t] = Brought(p, t)
    BY <1>6, <1>7, <1>8
<1> QED BY <1>4, <1>5, <1>7, <1>8, <1>9, <1>10, StoreKeeps

LEMMA AddMarkerKeeps ==
    ASSUME IInv, NEW p \in Task, NEW t, t = run[p].cur, NEW goal, AddMarker(p, goal),
           goal = "mark" \/ (goal = Created(p) /\ Is(p, "gcp")), ~ Is(p, "aws")
    PROVE  IInv'
<1> DEFINE docs == dst[t] \cup {Marker(p)}
<1>1. /\ run[p].at = "create" /\ Put(t, docs) /\ UNCHANGED <<engine, src, files, before, cut>>
    BY DEF AddMarker, At, Name, Marker
<1>2. PICK s \in {goal, "failed"} : To(p, s)
    BY DEF AddMarker, Answer
<1>3. t \in Table /\ docs \in SUBSET Doc
    BY <1>1, CreatedFits, Documents DEF IInv, TypeOK
<1> HIDE DEF docs
<1>4. /\ Stored /\ dst'[t] = docs
      /\ \A x \in Table \ {t} : dst'[x] = dst[x] /\ (x \in exists' <=> x \in exists)
    BY <1>1, <1>3, PutEffect
<1>5. /\ s \in {"mark", "import", "completed", "failed"} /\ OpFits(run[p].op, s, run[p].job)
      /\ s = "completed" => run[p].todo = {} /\ run[p].op \notin Writers
    BY <1>1, CreatedFits
<1>6. Worked(p, t) => docs = {Marker(p)}
    BY <1>1 DEF Worked, At, docs
<1>7. \A i \in Items(t) : \E d \in docs : d[1] = i
    BY DEF Items, docs
<1>8. run[p].at \in EarlySteps /\ "mark" \in EarlySteps
    BY <1>1 DEF EarlySteps
<1>9. /\ run[p].at \in TableSteps \ {"wait"} /\ run[p].at \in BufferSteps
      /\ s \in TableSteps \cup {"next", "failed", "completed"}
      /\ run[p].op # "backup" /\ run[p].at # "import"
    BY <1>1, <1>5, CreatedFits
<1>10. s = "import" => Is(p, "gcp")
    OBVIOUS
<1>11. run[p].op \in Writers /\ s # "failed" => s \in {"mark", "import"}
    BY <1>5
<1>12. run[p].op \in Writers /\ Worked(p, t) /\ <<p, t>> \notin cut /\ s # "failed" =>
           IF s \in TableSteps
           THEN /\ s \in {"mark", "import", "sweep"}
                /\ s = "mark"   => docs = {Marker(p)}
                /\ s = "import" => docs \subseteq {Marker(p)} /\ (docs = {} \/ Is(p, "gcp"))
                /\ s = "sweep"  => docs \ {Marker(p)} = Brought(p, t)
           ELSE docs = Brought(p, t)
    BY <1>6, <1>10, <1>11 DEF TableSteps, WriterSteps
<1>13. run[p].op \in Writers /\ <<p, t>> \notin cut /\ s \notin {"failed", "import"} =>
           /\ run[p].at \in EarlySteps => s \in EarlySteps
           /\ \A i \in Item : i \in Wanted(p, t) /\ (i \in Items(t) \/ run[p].at = "import")
                                 => \E d \in docs : d[1] = i
    BY <1>7, <1>8, <1>9, <1>11
<1>14. To(p, s) /\ UNCHANGED <<engine, src, files, before, cut>>
    BY <1>1, <1>2
<1> QED BY <1>4, <1>5, <1>9, <1>12, <1>13, <1>14, StoreKeeps

LEMMA DropMarkerKeeps ==
    ASSUME IInv, NEW p \in Task, NEW t, t = run[p].cur, DropMarker(p)
    PROVE  IInv'
<1>1. run[p].at = "mark" /\ Answer(p, Created(p)) /\ UNCHANGED <<engine, src, files, before, cut>>
    BY DEF DropMarker, At
<1>2. t \in Table /\ dst[t] \in SUBSET Doc
    BY <1>1, CreatedFits DEF IInv, TypeOK
<1>3. PICK docs \in SUBSET dst[t] :
        /\ Stored /\ dst'[t] = docs
        /\ \A x \in Table \ {t} : dst'[x] = dst[x] /\ (x \in exists' <=> x \in exists)
        /\ dst[t] = {Marker(p)} => docs = {}
    <2>1. CASE dst[t] = {} /\ UNCHANGED db
        <3>1. Stored /\ dst' = dst /\ exists' = exists
            BY <1>1, <2>1, StoredAsBefore DEF IInv, TypeOK, db
        <3>2. dst'[t] = dst[t] /\ dst[t] \in SUBSET dst[t]
            BY <3>1
        <3> QED BY <2>1, <3>1, <3>2
    <2>2. ASSUME NEW d \in dst[t], Put(t, dst[t] \ {d})
          PROVE  \E docs \in SUBSET dst[t] :
                    /\ Stored /\ dst'[t] = docs
                    /\ \A x \in Table \ {t} : dst'[x] = dst[x] /\ (x \in exists' <=> x \in exists)
                    /\ dst[t] = {Marker(p)} => docs = {}
        <3>1. dst[t] \ {d} \in SUBSET Doc
            BY <1>2
        <3>2. /\ Stored /\ dst'[t] = dst[t] \ {d}
              /\ \A x \in Table \ {t} : dst'[x] = dst[x] /\ (x \in exists' <=> x \in exists)
            BY <1>1, <1>2, <2>2, <3>1, PutEffect
        <3> QED BY <2>2, <3>2
    <2> QED BY <2>1, <2>2 DEF DropMarker, Name
<1>4. Worked(p, t) => docs = {}
    BY <1>1, <1>3 DEF Worked, At
<1>5. /\ Created(p) \in {"completed", "import"} /\ OpFits(run[p].op, Created(p), run[p].job)
      /\ Created(p) = "completed" => run[p].todo = {} /\ run[p].op \notin Writers
      /\ run[p].at \in TableSteps \ {"wait"} /\ run[p].at \in BufferSteps /\ run[p].op # "backup"
      /\ Created(p) \in TableSteps \cup {"next", "failed", "completed"}
      /\ OpFits(run[p].op, "failed", run[p].job)
    BY <1>1, CreatedFits
<1>6. PICK s \in {Created(p), "failed"} : To(p, s)
    BY <1>1 DEF Answer
<1>7. /\ s \in TableSteps \cup {"next", "failed", "completed"} /\ OpFits(run[p].op, s, run[p].job)
      /\ s \in {"completed", "import", "failed"} /\ run[p].at \in BufferSteps
    BY <1>5, <1>6
<1>8. (s = "completed" => run[p].todo = {} /\ run[p].op \notin Writers) /\ "failed" # "completed"
    BY <1>5, <1>6
<1>9. run[p].op \in Writers /\ Worked(p, t) /\ <<p, t>> \notin cut /\ s # "failed" =>
           IF s \in TableSteps
           THEN /\ s \in {"mark", "import", "sweep"}
                /\ s = "mark"   => docs = {Marker(p)}
                /\ s = "import" => docs \subseteq {Marker(p)} /\ (docs = {} \/ Is(p, "gcp"))
                /\ s = "sweep"  => docs \ {Marker(p)} = Brought(p, t)
           ELSE docs = Brought(p, t)
    BY <1>4, <1>7, <1>8 DEF TableSteps, WriterSteps
<1>10. run[p].op \in Writers /\ <<p, t>> \notin cut /\ s \notin {"failed", "import"} =>
           /\ run[p].at \in EarlySteps => s \in EarlySteps
           /\ \A i \in Item : i \in Wanted(p, t) /\ (i \in Items(t) \/ run[p].at = "import")
                                 => \E d \in docs : d[1] = i
    BY <1>7, <1>8
<1>11. UNCHANGED <<engine, src, files, before, cut>> /\ run[p].at \in TableSteps \ {"wait"} /\ run[p].op # "backup"
    BY <1>1, <1>5
<1> QED BY <1>3, <1>6, <1>7, <1>8, <1>9, <1>10, <1>11, StoreKeeps

---------------------------------------------------------------------------------
(* The documents are written, in parallel or by one call.                       *)

\* A task that is about to write has read what the table is to hold.
LEMMA ReadyToWrite ==
    ASSUME IInv, NEW p \in Task, NEW t, t = run[p].cur, At(p, "import")
    PROVE  /\ run[p].at = "import" /\ run[p].at \in TableSteps \ {"wait"} /\ run[p].at \in BufferSteps
           /\ t \in Table /\ run[p].op \in Writers /\ run[p].op # "backup"
           /\ \A s \in {"next", "failed"} : OpFits(run[p].op, s, run[p].job)
           /\ OpFits(run[p].op, "wait", "write")
           /\ {Copy(p, i) : i \in run[p].buf} \in SUBSET Doc
           /\ <<p, t>> \notin cut =>
                 run[p].buf = Wanted(p, t) /\ {Copy(p, i) : i \in run[p].buf} = Brought(p, t)
<1>1. run[p].at = "import" /\ run[p].at \in TableSteps \ {"wait"} /\ run[p].at \in BufferSteps
    BY DEF At, TableSteps, WriterSteps, BufferSteps
<1>2. t \in Table /\ run[p].op \in Writers /\ run[p].op # "backup"
    BY <1>1, AtTable DEF OpFits, WriterSteps, Writers
<1>3. \A s \in {"next", "failed"} : OpFits(run[p].op, s, run[p].job)
    BY <1>1, <1>2, AtTable DEF OpFits, WriterSteps, Writers
<1>4. OpFits(run[p].op, "wait", "write")
    BY <1>1, <1>2, AtTable DEF OpFits, WriterSteps, Writers
<1>5. {Copy(p, i) : i \in run[p].buf} \in SUBSET Doc
    BY RunTyped, Documents DEF RunType
<1>6. <<p, t>> \notin cut => run[p].buf = Wanted(p, t)
    BY <1>1, <1>2 DEF IInv, Buffered, WriterSteps
<1> QED BY <1>1, <1>2, <1>3, <1>4, <1>5, <1>6 DEF Brought

LEMMA StartWriteKeeps ==
    ASSUME IInv, NEW p \in Task, NEW t, t = run[p].cur, StartWrite(p)
    PROVE  IInv'
<1> DEFINE new == {Copy(p, i) : i \in run[p].buf}
           r   == [run[p] EXCEPT !.at = "wait", !.job = "write", !.left = new, !.broke = FALSE]
<1>1. /\ run' = [run EXCEPT ![p].at = "wait", ![p].job = "write", ![p].left = new, ![p].broke = FALSE]
      /\ At(p, "import") /\ UNCHANGED <<engine, src, db, files, before, cut>>
    BY DEF StartWrite, Copies
<1>2. /\ run[p].at = "import" /\ run[p].at \in TableSteps /\ run[p].at \in BufferSteps
      /\ run[p].op \in Writers /\ run[p].op # "backup" /\ OpFits(run[p].op, "wait", "write")
      /\ new \in SUBSET Doc /\ (<<p, t>> \notin cut => new = Brought(p, t))
    BY <1>1, ReadyToWrite
<1> HIDE DEF new
<1>3. /\ r \in RunType /\ run' = [run EXCEPT ![p] = r]
      /\ r.op = run[p].op /\ r.at = "wait" /\ r.list = run[p].list /\ r.todo = run[p].todo
      /\ r.cur = run[p].cur /\ r.buf = run[p].buf /\ r.job = "write" /\ r.left = new /\ ~ r.broke
    BY <1>1, <1>2, RunTyped DEF RunType, Steps
<1> HIDE DEF r
<1>4. run'[p] = r
    BY <1>3, RunUpdate DEF IInv
<1>5. UNCHANGED <<engine, src, before>> /\ UNCHANGED <<engine, src, cut>> /\ UNCHANGED <<exists, dst, files, cut>>
    BY <1>1 DEF db
<1>6. Stored
    BY <1>1, StoredAsBefore DEF IInv, TypeOK
<1>7. Buffered(p)'
    BY <1>2, <1>3, <1>5, BufferStays
<1>8. OpFits(r.op, r.at, r.job) /\ r.at \in TableSteps
    BY <1>2, <1>3 DEF TableSteps
<1>9. Brought(p, t)' = Brought(p, t)
    BY <1>3, <1>4, <1>5 DEF Brought, Copy, Keyed, Wanted
<1>10. Worked(p, t) /\ <<p, t>> \notin cut' => Worked(p, t)'
    <2> SUFFICES ASSUME Worked(p, t), <<p, t>> \notin cut' PROVE Worked(p, t)'
        OBVIOUS
    <2>1. dst[t] \subseteq {Marker(p)} /\ (dst[t] = {} \/ Is(p, "gcp"))
        BY <1>2 DEF Worked, At
    <2>2. new = Brought(p, t) /\ dst' = dst
        BY <1>2, <1>5
    <2>3. Marker(p)' = Marker(p) /\ (Is(p, "gcp")' <=> Is(p, "gcp"))
        BY <1>5 DEF Marker, Is
    <2> QED BY <1>3, <1>4, <1>9, <2>1, <2>2, <2>3 DEF Worked, At
<1>11. \A i \in Item : i \in Wanted(p, t) /\ <<p, t>> \notin cut' => Owes(p, t, i)'
    <2> SUFFICES ASSUME NEW i \in Wanted(p, t), <<p, t>> \notin cut' PROVE Owes(p, t, i)'
        OBVIOUS
    <2>1. Copy(p, i) \in new
        BY <1>2, <1>5 DEF Brought
    <2>2. Copy(p, i)' = Copy(p, i)
        BY <1>3, <1>4, <1>5 DEF Copy, Keyed
    <2> QED BY <1>3, <1>4, <2>1, <2>2 DEF Owes, At
<1>12. /\ cut' = cut /\ files' = files /\ r.cur = t /\ r.op # "backup"
       /\ UNCHANGED <<engine, src, before>>
       /\ \A x \in Table \ {t} : dst'[x] = dst[x] /\ (x \in exists' <=> x \in exists)
    BY <1>2, <1>3, <1>5
<1>13. LeftFits(p, r)
    BY <1>2, <1>3 DEF LeftFits, new
<1>14. r.op \in Writers /\ Worked(p, t) /\ <<p, t>> \notin cut' /\ r.at # "failed" =>
           IF r.at \in TableSteps THEN Worked(p, t)' ELSE dst'[t] = Brought(p, t)
    BY <1>8, <1>10
<1> QED BY <1>2, <1>3, <1>6, <1>7, <1>8, <1>11, <1>12, <1>13, <1>14, TableStep

LEMMA MongoImportKeeps ==
    ASSUME IInv, NEW p \in Task, NEW t, t = run[p].cur, MongoImport(p), ~ Is(p, "gcp")
    PROVE  IInv'
<1> DEFINE new == {Copy(p, i) : i \in run[p].buf}
<1>1. At(p, "import") /\ UNCHANGED <<engine, src, files, before, cut>>
    BY DEF MongoImport
<1>2. PICK done \in SUBSET new :
          /\ Put(t, dst[t] \cup done)
          /\ Answer(p, IF done = new THEN "next" ELSE "failed")
    BY DEF MongoImport, Name, Copies
<1>3. PICK s \in {"next", "failed"} : To(p, s) /\ (s = "next" => done = new)
    BY <1>2 DEF Answer
<1>4. /\ run[p].at = "import" /\ run[p].at \in TableSteps \ {"wait"} /\ run[p].at \in BufferSteps
      /\ t \in Table /\ run[p].op \in Writers /\ run[p].op # "backup"
      /\ OpFits(run[p].op, s, run[p].job)
      /\ new \in SUBSET Doc
      /\ <<p, t>> \notin cut => run[p].buf = Wanted(p, t) /\ new = Brought(p, t)
    BY <1>1, ReadyToWrite
<1>5. dst[t] \cup done \in SUBSET Doc
    BY <1>4 DEF IInv, TypeOK
<1> DEFINE docs == dst[t] \cup done
<1>6. /\ Stored /\ dst'[t] = docs
      /\ \A x \in Table \ {t} : dst'[x] = dst[x] /\ (x \in exists' <=> x \in exists)
    BY <1>1, <1>2, <1>4, <1>5, PutEffect
<1>7. Worked(p, t) /\ <<p, t>> \notin cut /\ s # "failed" => docs = Brought(p, t)
    BY <1>3, <1>4 DEF Worked, At
<1>8. ASSUME NEW i \in Wanted(p, t), <<p, t>> \notin cut, s # "failed"
      PROVE  \E d \in docs : d[1] = i
    <2>1. Copy(p, i) \in docs
        BY <1>3, <1>4, <1>8 DEF Brought
    <2> QED BY <2>1, Documents
<1>9. s \notin TableSteps /\ s \notin BufferSteps /\ s \in {"next", "failed"} /\ run[p].at \notin EarlySteps
    BY <1>4 DEF TableSteps, BufferSteps, WriterSteps, EarlySteps
<1> HIDE DEF docs
<1> QED BY <1>1, <1>3, <1>4, <1>6, <1>7, <1>8, <1>9, StoreKeeps

\* A parallel write or deletion ends, while the task waits for it.
LEMMA PartEnds ==
    ASSUME IInv, NEW p \in Task, NEW t, t = run[p].cur, run[p].at = "wait",
           NEW d \in run[p].left,
           NEW r \in RunType, run' = [run EXCEPT ![p] = r],
           r.op = run[p].op, r.list = run[p].list, r.todo = run[p].todo, r.cur = t, r.buf = run[p].buf,
           r.job = run[p].job, r.left = run[p].left \ {d},
           r.at = "wait" \/ (r.at = "failed" /\ r.job = "erase" /\ Is(p, "gcp")),
           r.at = "wait" /\ run[p].broke => r.broke,
           Apply(p, d, TRUE) \/ (Apply(p, d, FALSE) /\ (r.at = "wait" => r.broke)),
           UNCHANGED <<engine, src, files, before, cut>>
    PROVE  IInv'
<1>1. run[p].at \in TableSteps /\ run[p].at \in BufferSteps /\ run[p].at \notin EarlySteps
    BY DEF TableSteps, BufferSteps, EarlySteps
<1>2. t \in Table /\ OpFits(run[p].op, run[p].at, run[p].job) /\ run[p].op # "backup"
    BY <1>1, AtTable DEF OpFits, Writers
<1>3. OpFits(r.op, r.at, r.job)
    BY <1>2 DEF OpFits, WriterSteps
<1>4. d \in Doc
    BY RunTyped DEF RunType
<1>5. /\ Stored
      /\ \A x \in Table \ {t} : dst'[x] = dst[x] /\ (x \in exists' <=> x \in exists)
      /\ \/ dst'[t] = IF run[p].job = "write" THEN dst[t] \cup {d} ELSE dst[t] \ {d}
         \/ dst'[t] = dst[t] /\ (r.at = "wait" => r.broke)
    <2>1. CASE Apply(p, d, TRUE)
        <3> DEFINE docs == IF run[p].job = "write" THEN dst[t] \cup {d} ELSE dst[t] \ {d}
        <3>1. docs \in SUBSET Doc
            BY <1>2, <1>4 DEF IInv, TypeOK
        <3>2. Put(t, docs)
            BY <2>1 DEF Apply, Name
        <3> HIDE DEF docs
        <3>3. /\ Stored /\ dst'[t] = docs
              /\ \A x \in Table \ {t} : dst'[x] = dst[x] /\ (x \in exists' <=> x \in exists)
            BY <1>2, <3>1, <3>2, PutEffect
        <3> QED BY <2>1, <3>3 DEF docs
    <2>2. CASE Apply(p, d, FALSE) /\ (r.at = "wait" => r.broke)
        <3>1. UNCHANGED db
            BY <2>2 DEF Apply
        <3>2. Stored
            BY <3>1, StoredAsBefore DEF IInv, TypeOK
        <3> QED BY <2>2, <3>1, <3>2 DEF db
    <2> QED BY <2>1, <2>2
<1>6. run'[p] = r
    BY RunUpdate DEF IInv
<1>7. Buffered(p)'
    BY <1>1, BufferStays
<1>8. Brought(p, t)' = Brought(p, t) /\ \A i : Copy(p, i)' = Copy(p, i)
    BY <1>6 DEF Brought, Copy, Keyed, Wanted
<1>9. ASSUME run[p].op \in Writers, Worked(p, t), <<p, t>> \notin cut, r.at = "wait"
      PROVE  Worked(p, t)'
    <2>1. CASE r.broke
        BY <1>6, <1>9, <2>1 DEF Worked, At
    <2>2. CASE ~ r.broke
        <3>1. ~ run[p].broke
            BY <1>9, <2>2
        <3>2. CASE run[p].job = "erase"
            <4>1. dst[t] = run[p].left
                BY <1>9, <3>1, <3>2 DEF Worked, At
            <4>2. dst'[t] = dst[t] \ {d}
                BY <1>5, <1>9, <2>2, <3>2
            <4>3. dst'[t] = r.left
                BY <4>1, <4>2
            <4> QED BY <1>6, <1>9, <3>2, <4>3 DEF Worked, At
        <3>3. CASE run[p].job = "write"
            <4>1. /\ run[p].left \subseteq Brought(p, t)
                  /\ dst[t] \ {Marker(p)} = Brought(p, t) \ run[p].left
                  /\ Marker(p) \notin dst[t] \/ Is(p, "gcp")
                BY <1>9, <3>1, <3>3 DEF Worked, At
            <4>2. dst'[t] = dst[t] \cup {d}
                BY <1>5, <1>9, <2>2, <3>3
            <4>3. d # Marker(p)
                <5>1. \A i \in Wanted(p, t) : i \in Item
                    BY <1>1, <1>9, AtTable
                <5> QED BY <4>1, <5>1, Documents DEF Brought
            <4>4. /\ r.left \subseteq Brought(p, t)
                  /\ dst'[t] \ {Marker(p)} = Brought(p, t) \ r.left
                  /\ Marker(p) \notin dst'[t] \/ Is(p, "gcp")
                BY <4>1, <4>2, <4>3
            <4>5. Marker(p)' = Marker(p) /\ (Is(p, "gcp")' <=> Is(p, "gcp"))
                BY DEF Marker, Is
            <4> QED BY <1>6, <1>8, <1>9, <3>3, <4>4, <4>5 DEF Worked, At
        <3> QED BY <1>2, <3>2, <3>3 DEF OpFits
    <2> QED BY <2>1, <2>2
<1>10. ASSUME NEW i \in Item, r.at = "wait", ~ r.broke, i \in Items(t) \/ Owes(p, t, i)
       PROVE  i \in Items(t)' \/ Owes(p, t, i)'
    <2>1. CASE run[p].job = "erase"
        BY <1>6, <1>10, <2>1 DEF Owes, At
    <2>2. CASE run[p].job = "write"
        <3>1. dst'[t] = dst[t] \cup {d}
            BY <1>5, <1>10, <2>2
        <3>2. Items(t) \subseteq Items(t)' /\ d[1] \in Items(t)'
            BY <3>1 DEF Items
        <3>3. CASE Copy(p, i) = d
            BY <3>2, <3>3, Documents
        <3>4. CASE Copy(p, i) # d /\ Owes(p, t, i)
            <4>1. Copy(p, i) \in run[p].left
                BY <2>2, <3>4 DEF Owes, At
            <4>2. Copy(p, i)' \in r.left
                BY <1>8, <3>4, <4>1
            <4> QED BY <1>6, <1>10, <4>2 DEF Owes, At
        <3> QED BY <1>10, <3>2, <3>3, <3>4
    <2> QED BY <1>2, <2>1, <2>2 DEF OpFits
<1>11. /\ UNCHANGED <<engine, src, before>> /\ cut' = cut /\ files' = files /\ r.op # "backup"
       /\ r.at \in TableSteps \cup {"next", "failed", "completed"} /\ r.at # "completed"
       /\ run[p].at = "wait" /\ run[p].broke => r.at = "failed" \/ (r.at = "wait" /\ r.broke)
    BY <1>1, <1>2
<1>12. r.op \in Writers /\ Worked(p, t) /\ <<p, t>> \notin cut' /\ r.at # "failed" =>
           IF r.at \in TableSteps THEN Worked(p, t)' ELSE dst'[t] = Brought(p, t)
    BY <1>1, <1>9, <1>11
<1>13. \A i \in Item :
           /\ r.op \in Writers /\ i \in Wanted(p, t) /\ <<p, t>> \notin cut'
           /\ r.at # "failed" /\ ~ (r.at = "wait" /\ r.broke)
           /\ \/ run[p].at \in EarlySteps /\ r.at \notin EarlySteps
              \/ i \in Items(t) \/ Owes(p, t, i)
           => i \in Items(t)' \/ Owes(p, t, i)'
    BY <1>1, <1>10
<1>14. LeftFits(p, r)
    BY DEF IInv, Position, LeftFits
<1> QED BY <1>1, <1>3, <1>5, <1>7, <1>11, <1>12, <1>13, <1>14, TableStep

\* The table was written by a task that has failed, or that brings nothing.
Spoilt(t) == \E k \in Task : Wrote(k) /\ t \in Reached(k) /\ (At(k, "failed") \/ run[k].op \notin Writers)

\* What happens when no task moves on: nobody promised what is in the tables that change.
LEMMA LateStep ==
    ASSUME IInv, Stored, UNCHANGED <<engine, src, files, before, cut>>,
           run' \in [Task -> RunType],
           \A q \in Task : /\ run'[q] = run[q] \/ At(q, "failed")
                           /\ run'[q].op = run[q].op /\ run'[q].at = run[q].at /\ run'[q].list = run[q].list
                           /\ run'[q].todo = run[q].todo /\ run'[q].cur = run[q].cur
                           /\ Position(q)',
           \A t \in Table : (dst'[t] = dst[t] /\ (t \in exists' <=> t \in exists)) \/ Spoilt(t)
    PROVE  IInv'
<1>1. TypeOK' /\ (DOMAIN files \subseteq DOMAIN src)'
    BY DEF IInv, TypeOK, Stored, RunType
<1>2. \A q \in Task : /\ Wrote(q)' <=> Wrote(q)
                      /\ Reached(q)' = Reached(q)
                      /\ \A s : At(q, s)' <=> At(q, s)
    BY DEF Wrote, Reached, At
<1>3. UntouchedUntilReached' /\ DropsOrdered'
    <2>1. UntouchedUntilReached'
        BY <1>2 DEF IInv, UntouchedUntilReached, Spoilt
    <2>2. \A t \in dropping' : Doomed(t)
        BY DEF IInv, DropsOrdered, Stored
    <2> QED BY <1>2, <2>1, <2>2 DEF DropsOrdered, Doomed
<1>4. ASSUME NEW q \in Task
      PROVE  Buffered(q)'
    <2>1. CASE run'[q] = run[q]
        BY <2>1 DEF IInv, Buffered, Wanted
    <2>2. CASE At(q, "failed")
        BY <2>2 DEF Buffered, At, WriterSteps
    <2> QED BY <2>1, <2>2
<1>5. ASSUME NEW q \in Task, NEW t \in Table
      PROVE  Saved(q, t)'
    BY <1>2 DEF IInv, Saved, InHand
<1>6. ASSUME NEW q \in Task, NEW t \in Table
      PROVE  Exact(q, t)'
    <2> SUFFICES ASSUME run'[q].op \in Writers, t \in Reached(q)', Alone(q, t)',
                        <<q, t>> \notin cut', ~ At(q, "failed")'
                 PROVE  IF InHand(q, t)' THEN Worked(q, t)' ELSE dst'[t] = Brought(q, t)'
        BY DEF Exact
    <2>1. run'[q] = run[q] /\ run[q].op \in Writers /\ t \in Reached(q) /\ ~ At(q, "failed")
        BY <1>2
    <2>2. Alone(q, t)
        BY <1>2 DEF Alone
    <2>3. ~ Spoilt(t)
        BY <2>1, <2>2 DEF Spoilt, Alone
    <2>4. IF InHand(q, t) THEN Worked(q, t) ELSE dst[t] = Brought(q, t)
        BY <2>1, <2>2 DEF IInv, Exact
    <2> QED BY <2>1, <2>3, <2>4 DEF InHand, Worked, Brought, Copy, Keyed, Wanted, Is, At, Marker
<1>7. ASSUME NEW q \in Task, NEW t \in Table
      PROVE  Kept(q, t)'
    <2> SUFFICES ASSUME run'[q].op \in Writers, Begun(q, t)', Agree(q, t)', NEW i \in Wanted(q, t)'
                 PROVE  i \in Items(t)' \/ \E k \in Task : Owes(k, t, i)'
        BY DEF Kept
    <2>1. \A k \in Task : Wrote(k) /\ t \in Reached(k) => run[k].op \in Writers /\ ~ At(k, "failed")
        BY <1>2 DEF Agree
    <2>2. ~ Spoilt(t)
        BY <2>1 DEF Spoilt
    <2>3. Items(t)' = Items(t)
        BY <2>2 DEF Items
    <2>4. run[q].op \in Writers /\ Begun(q, t) /\ i \in Wanted(q, t)
        BY <1>2 DEF Begun, Wanted
    <2>5. Agree(q, t)
        <3> SUFFICES ASSUME NEW k \in Task, Wrote(k), t \in Reached(k)
                     PROVE  /\ run[k].op \in Writers /\ ~ At(k, "failed") /\ ~ (At(k, "wait") /\ run[k].broke)
                            /\ <<k, t>> \notin cut /\ Wanted(k, t) = Wanted(q, t)
            BY DEF Agree
        <3>1. run'[k] = run[k] /\ ~ At(k, "failed") /\ run[k].op \in Writers
            BY <2>1
        <3>2. /\ ~ (At(k, "wait") /\ run[k].broke)' /\ <<k, t>> \notin cut' /\ Wanted(k, t)' = Wanted(q, t)'
            BY <1>2 DEF Agree
        <3> QED BY <3>1, <3>2 DEF Wanted, At
    <2>6. i \in Items(t) \/ \E k \in Task : Owes(k, t, i)
        BY <2>4, <2>5 DEF IInv, Kept
    <2>7. ASSUME NEW k \in Task, Owes(k, t, i)
          PROVE  Owes(k, t, i)'
        <3>1. run'[k] = run[k]
            BY <2>7 DEF Owes, At
        <3> QED BY <2>7, <3>1 DEF Owes, At, Copy, Keyed
    <2> QED BY <2>3, <2>6, <2>7
<1> QED BY <1>1, <1>3, <1>4, <1>5, <1>6, <1>7 DEF IInv

LEMMA WriteEndsKeeps ==
    ASSUME IInv, NEW p \in Task, NEW t, t = run[p].cur, writeBatchWithRetry(p) \/ BulkWrite(p)
    PROVE  IInv'
<1>1. /\ Is(p, "aws") \/ run[p].job = "write"
      /\ UNCHANGED <<engine, src, files, before, cut>>
    BY DEF writeBatchWithRetry, BulkWrite, WriteEnds
<1>2. PICK d \in run[p].left, applied \in BOOLEAN, ok \in BOOLEAN :
          /\ ok => applied
          /\ Apply(p, d, applied)
          /\ run' = [run EXCEPT ![p].left = @ \ {d}, ![p].broke = @ \/ ~ok]
    BY DEF writeBatchWithRetry, BulkWrite, WriteEnds
<1> DEFINE r == [run[p] EXCEPT !.left = @ \ {d}, !.broke = @ \/ ~ok]
<1>3. r \in RunType /\ run' = [run EXCEPT ![p] = r]
    BY <1>2, RunTyped DEF RunType
<1>4. /\ r.op = run[p].op /\ r.list = run[p].list /\ r.todo = run[p].todo /\ r.cur = t /\ r.buf = run[p].buf
      /\ r.job = run[p].job /\ r.left = run[p].left \ {d} /\ r.at = run[p].at
    BY RunTyped DEF RunType
<1>5. run[p].broke => r.broke
    BY RunTyped DEF RunType
<1>6. Apply(p, d, TRUE) \/ (Apply(p, d, FALSE) /\ r.broke)
    <2>1. CASE ok
        BY <1>2, <2>1
    <2>2. CASE ~ ok
        <3>1. r.broke
            BY <2>2, RunTyped DEF RunType
        <3> QED BY <1>2, <3>1
    <2> QED BY <2>1, <2>2
<1> HIDE DEF r
<1>7. CASE run[p].at = "wait"
    BY <1>1, <1>3, <1>4, <1>5, <1>6, <1>7, PartEnds
<1>8. CASE run[p].at # "wait"
    <2>1. /\ run[p].at = "failed" /\ run[p].job = "write" /\ run[p].op \in Writers
          /\ t \in Reached(p) /\ t \in Table
        BY <1>1, <1>8 DEF IInv, TypeOK, Position, LeftFits, Is, Reached
    <2>2. run' \in [Task -> RunType] /\ run'[p] = r /\ \A q \in Task \ {p} : run'[q] = run[q]
        BY <1>3, RunUpdate DEF IInv
    <2>3. ASSUME NEW q \in Task
          PROVE  Position(q)'
        <3>1. CASE q = p
            <4>1. LeftFits(p, r)
                BY <1>4 DEF IInv, Position, LeftFits
            <4>2. LeftFits(p, run[p])'
                BY <1>1, <1>4, <2>2, <4>1 DEF LeftFits, Is, Copy, Keyed
            <4> QED BY <1>1, <1>4, <2>1, <2>2, <3>1, <4>2 DEF IInv, Position, TableSteps, WriterSteps, Reached, At
        <3>2. CASE q # p
            BY <1>1, <2>2, <3>2 DEF IInv, Position, LeftFits, Reached, Is, Copy, Keyed
        <3> QED BY <3>1, <3>2
    <2>4. Spoilt(t)
        BY <2>1 DEF Spoilt, Wrote, Writers, At
    <2>5. Stored /\ \A x \in Table \ {t} : dst'[x] = dst[x] /\ (x \in exists' <=> x \in exists)
        <3>1. CASE UNCHANGED db
            BY <1>1, <3>1, StoredAsBefore DEF IInv, TypeOK, db
        <3>2. CASE Put(t, dst[t] \cup {d})
            <4>1. dst[t] \cup {d} \in SUBSET Doc
                BY <2>1, RunTyped DEF IInv, TypeOK, RunType
            <4> QED BY <1>1, <2>1, <3>2, <4>1, PutEffect
        <3> QED BY <1>6, <2>1, <3>1, <3>2 DEF Apply, Name
    <2>6. \A q \in Task : /\ run'[q] = run[q] \/ At(q, "failed")
                          /\ run'[q].op = run[q].op /\ run'[q].at = run[q].at /\ run'[q].list = run[q].list
                          /\ run'[q].todo = run[q].todo /\ run'[q].cur = run[q].cur
        BY <1>4, <2>1, <2>2 DEF At
    <2> QED BY <1>1, <2>2, <2>3, <2>4, <2>5, <2>6, LateStep
<1> QED BY <1>7, <1>8

LEMMA DeleteDocumentKeeps ==
    ASSUME IInv, NEW p \in Task, NEW t, t = run[p].cur, DeleteDocument(p)
    PROVE  IInv'
<1>1. /\ Is(p, "gcp") /\ run[p].at = "wait" /\ run[p].job = "erase"
      /\ UNCHANGED <<engine, src, files, before, cut>>
    BY DEF DeleteDocument, At
<1>2. PICK d \in run[p].left, applied \in BOOLEAN, ok \in BOOLEAN :
          /\ ok => applied
          /\ Apply(p, d, applied)
          /\ run' = [run EXCEPT ![p].left = @ \ {d}, ![p].at = IF ok THEN @ ELSE "failed"]
    BY DEF DeleteDocument
<1> DEFINE r == [run[p] EXCEPT !.left = @ \ {d}, !.at = IF ok THEN @ ELSE "failed"]
<1>3. r \in RunType /\ run' = [run EXCEPT ![p] = r]
    BY <1>2, RunTyped, ZenonT(40) DEF RunType, Steps
<1>4. /\ r.op = run[p].op /\ r.list = run[p].list /\ r.todo = run[p].todo /\ r.cur = t /\ r.buf = run[p].buf
      /\ r.job = run[p].job /\ r.left = run[p].left \ {d} /\ r.broke = run[p].broke
      /\ r.at = IF ok THEN "wait" ELSE "failed"
    BY <1>1, RunTyped DEF RunType
<1> HIDE DEF r
<1>5. r.at = "wait" \/ (r.at = "failed" /\ r.job = "erase" /\ Is(p, "gcp"))
    BY <1>1, <1>4
<1>6. Apply(p, d, TRUE) \/ (Apply(p, d, FALSE) /\ r.at = "failed")
    BY <1>2, <1>4
<1>7. r.at = "wait" /\ run[p].broke => r.broke
    BY <1>4
<1>8. Apply(p, d, TRUE) \/ (Apply(p, d, FALSE) /\ (r.at = "wait" => r.broke))
    BY <1>6
<1> QED BY <1>1, <1>3, <1>4, <1>5, <1>7, <1>8, PartEnds

\* The task goes on when all parts have ended, and fails if one failed.
LEMMA WaitKeeps ==
    ASSUME IInv, NEW p \in Task, NEW t, t = run[p].cur, Wait(p)
    PROVE  IInv'
<1>1. /\ run[p].at = "wait" /\ To(p, IF run[p].broke THEN "failed" ELSE Then(p))
      /\ run[p].left = {} \/ (run[p].broke /\ Is(p, "gcp"))
      /\ UNCHANGED <<engine, src, db, files, before, cut>>
    BY DEF Wait, Awaited, At
<1>2. run[p].at \in TableSteps /\ run[p].at \in BufferSteps /\ run[p].at \notin EarlySteps \cup {"import"}
    BY <1>1 DEF TableSteps, BufferSteps, EarlySteps
<1>3. /\ OpFits(run[p].op, run[p].at, run[p].job) /\ run[p].op # "backup"
      /\ \/ run[p].job = "erase" /\ run[p].op \in Writers \cup {"delete", "drop"}
         \/ run[p].job = "write" /\ run[p].op \in Writers
    BY <1>1, <1>2, AtTable DEF OpFits, Writers
<1>4. PICK s : /\ To(p, s)
               /\ s = IF run[p].broke THEN "failed" ELSE Then(p)
    BY <1>1
<1>5. /\ s \in {"failed", "sweep", "next", "import"} /\ OpFits(run[p].op, s, run[p].job)
      /\ run[p].broke => s = "failed"
      /\ s = "sweep" => run[p].job = "write"
      /\ s = "import" => run[p].job = "erase"
      /\ s = "next" /\ run[p].op \in Writers => run[p].job = "write" /\ ~ Is(p, "gcp")
    BY <1>3, <1>4 DEF Then, OpFits, WriterSteps, Writers
<1>6. Worked(p, t) /\ ~ run[p].broke /\ run[p].job = "erase" => dst[t] = {}
    BY <1>1 DEF Worked, At
<1>7. Worked(p, t) /\ ~ run[p].broke /\ run[p].job = "write" =>
          dst[t] \ {Marker(p)} = Brought(p, t) /\ (Is(p, "gcp") \/ dst[t] = Brought(p, t))
    BY <1>1 DEF Worked, At
<1>8. /\ s \in TableSteps \cup {"next", "failed", "completed"} /\ s # "completed"
      /\ run[p].at = "wait" /\ run[p].broke => s = "failed"
      /\ s \in TableSteps => s \in {"import", "sweep"}
      /\ "import" \in TableSteps /\ "sweep" \in TableSteps
    BY <1>5 DEF TableSteps, WriterSteps
<1>9. run[p].op \in Writers /\ Worked(p, t) /\ s # "failed" =>
          IF s \in TableSteps
          THEN /\ s \in {"check", "clear", "create", "import", "sweep"}
               /\ s = "create" => dst[t] = {} \/ (Is(p, "aws") /\ t \in exists)
               /\ s = "import" => dst[t] \subseteq {Marker(p)} /\ (dst[t] = {} \/ Is(p, "gcp"))
               /\ s = "sweep"  => dst[t] \ {Marker(p)} = Brought(p, t)
          ELSE dst[t] = Brought(p, t)
    <2> SUFFICES ASSUME run[p].op \in Writers, Worked(p, t), s # "failed"
                 PROVE  IF s \in TableSteps
                        THEN /\ s \in {"import", "sweep"}
                             /\ s = "import" => dst[t] = {}
                             /\ s = "sweep"  => dst[t] \ {Marker(p)} = Brought(p, t)
                        ELSE dst[t] = Brought(p, t)
        OBVIOUS
    <2>1. ~ run[p].broke
        BY <1>5
    <2>2. CASE s = "import"
        BY <1>5, <1>6, <1>8, <2>1, <2>2
    <2>3. CASE s = "sweep"
        BY <1>5, <1>7, <1>8, <2>1, <2>3
    <2>4. CASE s = "next"
        BY <1>5, <1>7, <1>8, <2>1, <2>4
    <2> QED BY <1>5, <2>2, <2>3, <2>4
<1>10. run[p].op \in Writers /\ s # "failed" =>
           \/ s = "import"
           \/ run[p].at \in EarlySteps /\ s \in EarlySteps
           \/ run[p].at \notin EarlySteps \cup {"import"} /\ run[p].job = "write"
           \/ run[p].at = "sweep"
    BY <1>2, <1>5
<1>11. run[p].left = {} \/ (s = "failed" /\ Is(p, "gcp"))
    BY <1>1, <1>5
<1>12. run[p].op = "backup" => s = "failed" \/ s \in TableSteps
    BY <1>3
<1> QED BY <1>1, <1>2, <1>4, <1>5, <1>8, <1>9, <1>10, <1>11, <1>12, ToKeeps

\* Firestore's import ends when no empty document is left.
LEMMA SweepKeeps ==
    ASSUME IInv, NEW p \in Task, NEW t, t = run[p].cur, Sweep(p)
    PROVE  IInv'
<1> DEFINE empty == {d \in dst[t] : d[1] = Empty}
<1>1. run[p].at = "sweep" /\ UNCHANGED <<engine, src, files, before, cut>>
    BY DEF Sweep, At
<1>2. /\ run[p].at \in TableSteps \ {"wait"} /\ run[p].at \in BufferSteps /\ run[p].at \notin EarlySteps
      /\ "sweep" \in TableSteps
    BY <1>1 DEF TableSteps, WriterSteps, BufferSteps, EarlySteps
<1>3. /\ t \in Table /\ run[p].op # "backup" /\ run[p].left = {} /\ run[p].op \in Writers
      /\ \A s \in {"sweep", "next", "failed"} : OpFits(run[p].op, s, run[p].job)
      /\ Wanted(p, t) \subseteq Item
    BY <1>1, <1>2, AtTable DEF OpFits, WriterSteps, Writers
<1>4. Empty \notin Item
    BY MarkAssumption
<1>5. \A d \in Brought(p, t) : d[1] # Empty
    BY <1>3, <1>4, Documents DEF Brought
<1>6. Worked(p, t) => dst[t] \ {Marker(p)} = Brought(p, t)
    BY <1>1 DEF Worked, At
<1>7. CASE empty = {} /\ To(p, "next") /\ UNCHANGED db
    <2>1. Marker(p) \notin dst[t]
        BY <1>7, Documents
    <2>2. Worked(p, t) => dst[t] = Brought(p, t)
        BY <1>6, <2>1
    <2>3. UNCHANGED <<engine, src, db, files, before, cut>>
        BY <1>1, <1>7
    <2>4. "next" \notin TableSteps /\ "next" \notin BufferSteps
        BY DEF TableSteps, WriterSteps, BufferSteps
    <2> QED BY <1>1, <1>2, <1>3, <1>7, <2>2, <2>3, <2>4, ToKeeps
<1>8. ASSUME NEW d \in empty, Put(t, dst[t] \ {d}), Answer(p, "sweep")
      PROVE  IInv'
    <2>1. dst[t] \ {d} \in SUBSET Doc
        BY <1>3 DEF IInv, TypeOK
    <2> DEFINE docs == dst[t] \ {d}
    <2>2. /\ Stored /\ dst'[t] = docs
          /\ \A x \in Table \ {t} : dst'[x] = dst[x] /\ (x \in exists' <=> x \in exists)
        BY <1>1, <1>3, <1>8, <2>1, PutEffect
    <2>3. PICK s \in {"sweep", "failed"} : To(p, s)
        BY <1>8 DEF Answer
    <2>4. Worked(p, t) => docs \ {Marker(p)} = Brought(p, t)
        BY <1>5, <1>6, <1>8
    <2>5. ASSUME NEW i \in Item, i \in Items(t)
          PROVE  \E e \in docs : e[1] = i
        BY <1>4, <1>8, <2>5 DEF Items
    <2> HIDE DEF docs
    <2>6. run[p].op \in Writers /\ Worked(p, t) /\ <<p, t>> \notin cut /\ s # "failed" =>
              IF s \in TableSteps
              THEN /\ s \in {"mark", "import", "sweep"}
                   /\ s = "mark"   => docs = {Marker(p)}
                   /\ s = "import" => docs \subseteq {Marker(p)} /\ (docs = {} \/ Is(p, "gcp"))
                   /\ s = "sweep"  => docs \ {Marker(p)} = Brought(p, t)
              ELSE docs = Brought(p, t)
        BY <1>2, <2>4
    <2>7. /\ OpFits(run[p].op, s, run[p].job) /\ s \in TableSteps \cup {"next", "failed", "completed"}
          /\ s # "completed" /\ UNCHANGED <<engine, src, files, before, cut>>
        BY <1>1, <1>2, <1>3
    <2>8. run[p].op \in Writers /\ <<p, t>> \notin cut /\ s \notin {"failed", "import"} =>
              /\ run[p].at \in EarlySteps => s \in EarlySteps
              /\ \A i \in Item : i \in Wanted(p, t) /\ (i \in Items(t) \/ run[p].at = "import")
                                    => \E e \in docs : e[1] = i
        BY <1>1, <1>2, <2>5
    <2> QED BY <1>2, <1>3, <2>2, <2>3, <2>6, <2>7, <2>8, StoreKeeps
<1> QED BY <1>7, <1>8 DEF Sweep, Name

\* A task that drops its table, or asks for it, goes on.
LEMMA DropsKeep ==
    ASSUME IInv, NEW p \in Task, NEW t, t = run[p].cur, At(p, "drop"), Answer(p, "next"),
           UNCHANGED <<engine, src, files, before, cut>>,
           \/ dropping' = dropping \cup {t} /\ Is(p, "aws") /\ UNCHANGED <<exists, dst>>
           \/ dropping' = dropping /\ dst' = [dst EXCEPT ![t] = {}] /\ exists' = exists \ {t}
    PROVE  IInv'
<1>1. run[p].at = "drop" /\ run[p].at \in TableSteps \ {"wait"}
    BY DEF At, TableSteps
<1>2. /\ t \in Table /\ t \in Reached(p) /\ run[p].op \in {"delete", "drop"} /\ run[p].left = {}
      /\ run[p].op # "backup" /\ run[p].op \notin Writers
      /\ \A s \in {"next", "failed"} : OpFits(run[p].op, s, run[p].job)
    BY <1>1, AtTable DEF OpFits, WriterSteps, Writers
<1>3. Doomed(t) \/ ~ Is(p, "aws")
    BY <1>2 DEF Doomed, Is
<1>4. \A x \in Table \ {t} : dst'[x] = dst[x] /\ (x \in exists' <=> x \in exists)
    BY <1>2 DEF IInv, TypeOK
<1>5. Stored
    BY <1>2, <1>3 DEF IInv, TypeOK, Stored
<1>6. PICK s \in {"next", "failed"} : To(p, s)
    BY DEF Answer
<1>7. /\ s \in TableSteps \cup {"next", "failed", "completed"} /\ s \notin BufferSteps /\ s # "completed"
      /\ OpFits(run[p].op, s, run[p].job)
    BY <1>2, <1>6 DEF BufferSteps, WriterSteps
<1>8. PICK docs : dst'[t] = docs
    OBVIOUS
<1>9. /\ run[p].op \in Writers /\ Worked(p, t) /\ <<p, t>> \notin cut /\ s # "failed" =>
           IF s \in TableSteps
           THEN /\ s \in {"mark", "import", "sweep"}
                /\ s = "mark"   => docs = {Marker(p)}
                /\ s = "import" => docs \subseteq {Marker(p)} /\ (docs = {} \/ Is(p, "gcp"))
                /\ s = "sweep"  => docs \ {Marker(p)} = Brought(p, t)
           ELSE docs = Brought(p, t)
      /\ run[p].op \in Writers /\ <<p, t>> \notin cut /\ s \notin {"failed", "import"} =>
           /\ run[p].at \in EarlySteps => s \in EarlySteps
           /\ \A i \in Item : i \in Wanted(p, t) /\ (i \in Items(t) \/ run[p].at = "import")
                                 => \E d \in docs : d[1] = i
    BY <1>2
<1> QED BY <1>1, <1>2, <1>4, <1>5, <1>6, <1>7, <1>8, <1>9, StoreKeeps

\* DynamoDB has deleted a table.
LEMMA DynamoGoneKeeps ==
    ASSUME IInv, NEW t \in Table, DynamoGone(t)
    PROVE  IInv'
<1>1. /\ t \in dropping /\ dropping' = dropping \ {t} /\ exists' = exists \ {t}
      /\ dst' = [dst EXCEPT ![t] = {}] /\ UNCHANGED <<engine, src, files, run, before, cut>>
    BY DEF DynamoGone
<1>2. Doomed(t) /\ Spoilt(t)
    BY <1>1 DEF IInv, DropsOrdered, Doomed, Spoilt, Wrote, Writers
<1>3. Stored /\ \A x \in Table \ {t} : dst'[x] = dst[x] /\ (x \in exists' <=> x \in exists)
    BY <1>1 DEF IInv, TypeOK, Stored
<1>4. run' \in [Task -> RunType]
    BY <1>1, RunUpdate DEF IInv, TypeOK, RunType
<1>5. \A q \in Task : Position(q)'
    BY <1>1 DEF IInv, Position, LeftFits, Reached, Is, Copy, Keyed
<1>6. \A q \in Task : run'[q] = run[q]
    BY <1>1
<1> QED BY <1>1, <1>2, <1>3, <1>4, <1>5, <1>6, LateStep

---------------------------------------------------------------------------------
(* Every step keeps the invariant.                                              *)

LEMMA ListsKeep ==
    ASSUME IInv, NEW p \in Task,
           \/ DynamoListTables(p) \/ FirestoreListTables(p) \/ NcpListTables(p)
           \/ AlibabaListTables(p) \/ WalkFiles(p)
    PROVE  IInv'
<1>1. CASE DynamoListTables(p)
    BY <1>1, ReceiveKeeps DEF DynamoListTables
<1>2. ASSUME NEW from, Lists(p, from), Receive(p, Tables(p))
      PROVE  IInv'
    BY <1>2, ReceiveKeeps
<1> QED BY <1>1, <1>2 DEF FirestoreListTables, NcpListTables, AlibabaListTables, WalkFiles

LEMMA ExportsKeep ==
    ASSUME IInv, NEW p \in Task,
           DynamoExport(p) \/ FirestoreExport(p) \/ NcpExport(p) \/ AlibabaExport(p)
    PROVE  IInv'
<1>1. CASE DynamoExport(p)
    BY <1>1, ReadKeeps DEF DynamoExport
<1>2. CASE FirestoreExport(p)
    BY <1>2, ReadKeeps DEF FirestoreExport
<1>3. CASE NcpExport(p) \/ AlibabaExport(p)
    BY <1>3, ReadKeeps DEF NcpExport, AlibabaExport, MongoExport
<1> QED BY <1>1, <1>2, <1>3

LEMMA InitEstablishes == Init => IInv
<1> SUFFICES ASSUME Init PROVE IInv
    OBVIOUS
<1>1. Idle \in RunType /\ Idle.op = "none" /\ Idle.at = "idle" /\ Idle.list = {} /\ Idle.todo = {}
      /\ Idle.left = {}
    BY DEF Idle, RunType, Steps
<1>2. run = [p \in Task |-> Idle] /\ DOMAIN files = {} /\ cut = {} /\ dst = before
    BY DEF Init
<1>3. \A p \in Task : run[p] = Idle /\ Reached(p) = {}
    BY <1>1, <1>2 DEF Reached
<1>4. TypeOK
    <2>1. PICK old \in SUBSET Table :
              /\ exists = old
              /\ before = [t \in Table |-> IF t \in old THEN {<<Old, Nobody>>} ELSE {}]
        BY DEF Init
    <2>2. <<Old, Nobody>> \in Doc
        BY DEF Doc
    <2>3. before \in [Table -> SUBSET Doc] /\ \A t \in Table : before[t] # {} => t \in exists
        BY <2>1, <2>2
    <2>4. run \in [Task -> RunType]
        BY <1>1, <1>2
    <2> QED BY <1>2, <2>1, <2>3, <2>4 DEF TypeOK, Init, RunType
<1>5. UntouchedUntilReached /\ DropsOrdered
    BY <1>2 DEF UntouchedUntilReached, DropsOrdered, Init
<1>6. ASSUME NEW p \in Task
      PROVE  Position(p) /\ Buffered(p)
    <2>1. Position(p)
        BY <1>1, <1>3 DEF Position, LeftFits, OpFits, TableSteps, WriterSteps
    <2>2. Buffered(p)
        BY <1>1, <1>3 DEF Buffered, WriterSteps
    <2> QED BY <2>1, <2>2
<1>7. ASSUME NEW p \in Task, NEW t \in Table
      PROVE  Exact(p, t) /\ Saved(p, t) /\ Kept(p, t)
    BY <1>3 DEF Exact, Saved, Kept, Begun
<1> QED BY <1>2, <1>4, <1>5, <1>6, <1>7 DEF IInv

LEMMA ReadingKeeps ==
    ASSUME IInv, NEW p \in Task, Reading(p)
    PROVE  IInv'
BY ListsKeep, ExportsKeep, NextTableKeeps, FilesKeep, OpenFileKeeps DEF Reading

LEMMA WritingKeeps ==
    ASSUME IInv, NEW p \in Task, Writing(p)
    PROVE  IInv'
<1>1. PICK t : t = run[p].cur
    OBVIOUS
<1>2. "gcp" # "aws" /\ "ncp" # "aws" /\ "alibaba" # "aws" /\ "ncp" # "gcp" /\ "alibaba" # "gcp"
    OBVIOUS
<1>3. CASE FindTable(p)
    BY <1>3, FindTableKeeps
<1>4. CASE DynamoClear(p) \/ FirestoreClear(p)
    BY <1>1, <1>4, StartEraseKeeps DEF DynamoClear, FirestoreClear
<1>5. CASE NcpClear(p) \/ AlibabaClear(p)
    BY <1>1, <1>5, MongoClearKeeps DEF NcpClear, AlibabaClear
<1>6. CASE DynamoCreate(p)
    BY <1>1, <1>6, DynamoCreateKeeps
<1>7. CASE FirestoreCreate(p) \/ NcpCreate(p) \/ AlibabaCreate(p)
    BY <1>1, <1>2, <1>7, AddMarkerKeeps DEF FirestoreCreate, NcpCreate, AlibabaCreate, Is
<1>8. CASE DropMarker(p)
    BY <1>1, <1>8, DropMarkerKeeps
<1>9. CASE DynamoImport(p) \/ FirestoreImport(p)
    BY <1>1, <1>9, StartWriteKeeps DEF DynamoImport, FirestoreImport
<1>10. CASE NcpImport(p) \/ AlibabaImport(p)
    BY <1>1, <1>2, <1>10, MongoImportKeeps DEF NcpImport, AlibabaImport, Is
<1>11. CASE writeBatchWithRetry(p) \/ BulkWrite(p)
    BY <1>1, <1>11, WriteEndsKeeps
<1>12. CASE DeleteDocument(p)
    BY <1>1, <1>12, DeleteDocumentKeeps
<1>13. CASE Wait(p)
    BY <1>1, <1>13, WaitKeeps
<1>14. CASE Sweep(p)
    BY <1>1, <1>14, SweepKeeps
<1>15. CASE DynamoDrop(p) \/ NcpDrop(p) \/ AlibabaDrop(p)
    BY <1>1, <1>15, DropsKeep DEF DynamoDrop, NcpDrop, AlibabaDrop, DropCollection, Name
<1> QED BY <1>3, <1>4, <1>5, <1>6, <1>7, <1>8, <1>9, <1>10, <1>11, <1>12, <1>13, <1>14, <1>15 DEF Writing

LEMMA StartKeeps ==
    ASSUME IInv, NEW p \in Task, Start(p)
    PROVE  IInv'
<1>1. CASE GenerateNRDBMSPostHandler(p)
    BY <1>1, GenerateKeeps
<1>2. CASE NRDBMSCreateTableHandler(p) \/ NRDBMSDeleteTableHandler(p)
    BY <1>2, RequestKeeps DEF NRDBMSCreateTableHandler, NRDBMSDeleteTableHandler
<1>3. CASE \/ handleNRDBMSMigrateTask(p) \/ handleNRDBMSBackupTask(p)
           \/ handleNRDBMSRestoreTask(p) \/ handleNRDBMSDeleteTask(p)
    BY <1>3, BeginKeeps DEF handleNRDBMSMigrateTask, handleNRDBMSBackupTask,
       handleNRDBMSRestoreTask, handleNRDBMSDeleteTask
<1> QED BY <1>1, <1>2, <1>3 DEF Start

LEMMA StutterKeeps == IInv /\ UNCHANGED vars => IInv'
<1> SUFFICES ASSUME IInv, UNCHANGED vars PROVE IInv'
    OBVIOUS
<1>1. UNCHANGED <<engine, src, exists, dst, dropping, files, run, before, cut>>
    BY DEF vars, db
<1>2. (TypeOK /\ DOMAIN files \subseteq DOMAIN src /\ UntouchedUntilReached /\ DropsOrdered)'
    BY <1>1 DEF IInv, TypeOK, UntouchedUntilReached, Wrote, Reached, DropsOrdered, Doomed
<1>3. ASSUME NEW p \in Task
      PROVE  (Position(p) /\ Buffered(p))'
    BY <1>1 DEF IInv, Position, LeftFits, Buffered, Reached, Wanted, At, Is, Copy, Keyed
<1>4. ASSUME NEW p \in Task, NEW t \in Table
      PROVE  (Exact(p, t) /\ Saved(p, t))'
    BY <1>1 DEF IInv, Exact, Saved, InHand, Reached, Alone, Wrote, At, Worked, Brought, Copy, Keyed,
                Wanted, Marker, Is
<1>5. ASSUME NEW p \in Task, NEW t \in Table
      PROVE  Kept(p, t)'
    BY <1>1 DEF IInv, Kept, Begun, Reached, Agree, Wrote, At, Items, Owes, Copy, Keyed, Wanted
<1> QED BY <1>2, <1>3, <1>4, <1>5 DEF IInv

\* The tables of the target are what the tasks at work make of them.
THEOREM Invariant == Spec => []IInv
<1>1. Init => IInv
    BY InitEstablishes
<1>2. IInv /\ [Next]_vars => IInv'
    <2> SUFFICES ASSUME IInv, [Next]_vars PROVE IInv'
        OBVIOUS
    <2>1. ASSUME NEW p \in Task, Start(p) \/ Work(p)
          PROVE  IInv'
        BY <2>1, StartKeeps, ReadingKeeps, WritingKeeps, FailKeeps DEF Work
    <2>3. ASSUME NEW t \in Table, DynamoGone(t)
          PROVE  IInv'
        BY <2>3, DynamoGoneKeeps
    <2>2. CASE UNCHANGED vars
        BY <2>2, StutterKeeps
    <2> QED BY <2>1, <2>2, <2>3 DEF Next
<1> QED BY <1>1, <1>2, PTL DEF Spec

---------------------------------------------------------------------------------
(* What it implies.                                                             *)

\* The state of every task, and of every table, is of its type.  (nrdbc.go: NRDBController)
THEOREM TypeInvariant == Spec => []TypeOK
<1>1. IInv => TypeOK
    BY DEF IInv
<1> QED BY <1>1, Invariant, PTL

\* The copies of a table are as many as what was to be copied.
LEMMA CopiesCount ==
    ASSUME IInv, NEW p \in Task, NEW t \in Reached(p), run[p].op \in Writers, dst[t] = Brought(p, t)
    PROVE  Items(t) = Wanted(p, t) /\ Cardinality(dst[t]) = Cardinality(Wanted(p, t))
<1>1. \A i : Copy(p, i)[1] = i
    BY DEF Copy
<1>2. Items(t) = Wanted(p, t)
    BY <1>1 DEF Items, Brought
<1>3. IsFiniteSet(Wanted(p, t))
    BY WantedItems, ItemAssumption, FS_Subset
<1> DEFINE f == [i \in Wanted(p, t) |-> Copy(p, i)]
<1>4. f \in [Wanted(p, t) -> Brought(p, t)]
    BY DEF Brought
<1>5. \A a, b \in Wanted(p, t) : f[a] = f[b] => a = b
    <2> SUFFICES ASSUME NEW a \in Wanted(p, t), NEW b \in Wanted(p, t), f[a] = f[b]
                 PROVE  a = b
        OBVIOUS
    <2>1. Copy(p, a) = Copy(p, b)
        OBVIOUS
    <2> QED BY <1>1, <2>1
<1>6. \A d \in Brought(p, t) : \E i \in Wanted(p, t) : f[i] = d
    BY DEF Brought
<1> HIDE DEF f
<1>7. ExistsBijection(Wanted(p, t), Brought(p, t))
    BY <1>4, <1>5, <1>6 DEF ExistsBijection, Bijection, Injection, Surjection, IsInjective
<1> QED BY <1>2, <1>3, <1>7, FS_Bijection

\* A task that ended well has delivered each table it read whole, once and with
\* nothing else in it, if nobody else wrote it, and whatever happens to it next
\* to others, what several tasks agree on is not lost.  (nrdbc.go: Copy, Put;
\* task.go: handleNRDBMSMigrateTask and its like)
THEOREM SuccessDeliversInvariant == Spec => []SuccessDelivers
<1>1. ASSUME IInv, NEW p \in Task, At(p, "completed"), NEW t \in run[p].list
      PROVE  /\ t \in Table /\ t \in Reached(p) /\ ~ At(p, "failed") /\ ~ InHand(p, t)
             /\ run[p].op \in Writers => Begun(p, t)
    <2>1. run[p].at = "completed" /\ run[p].todo = {} /\ run[p].list \subseteq Table
        BY <1>1, RunTyped DEF IInv, Position, At, RunType
    <2> QED BY <1>1, <2>1 DEF Reached, At, InHand, Begun, EarlySteps, TableSteps, WriterSteps
<1>2. IInv => SuccessIsExact
    <2> SUFFICES ASSUME IInv, NEW p \in Task, At(p, "completed"),
                        NEW t \in run[p].list, <<p, t>> \notin cut
                 PROVE  /\ run[p].op \in Writers /\ Alone(p, t) =>
                             Items(t) = Wanted(p, t) /\ Cardinality(dst[t]) = Cardinality(Wanted(p, t))
                        /\ run[p].op = "backup" /\ (\A q \in Task \ {p} : run[q].op # "backup") =>
                             t \in DOMAIN files /\ files[t] = src[t]
        BY DEF SuccessIsExact
    <2>1. t \in Table /\ t \in Reached(p) /\ ~ At(p, "failed") /\ ~ InHand(p, t)
        BY <1>1
    <2>2. run[p].op \in Writers /\ Alone(p, t) => dst[t] = Brought(p, t)
        BY <2>1 DEF IInv, Exact
    <2>3. Saved(p, t)
        BY <2>1 DEF IInv
    <2> QED BY <2>1, <2>2, <2>3, CopiesCount DEF Saved
<1>3. IInv => SuccessKeepsAll
    <2> SUFFICES ASSUME IInv, NEW p \in Task, At(p, "completed"), run[p].op \in Writers,
                        NEW t \in run[p].list,
                        \A q \in Task : Wrote(q) /\ t \in Reached(q) =>
                            At(q, "completed") /\ run[q].op \in Writers /\ <<q, t>> \notin cut
                                /\ Wanted(q, t) = Wanted(p, t)
                 PROVE  Wanted(p, t) \subseteq Items(t)
        BY DEF SuccessKeepsAll
    <2>1. t \in Table /\ t \in Reached(p) /\ Begun(p, t)
        BY <1>1
    <2>2. Agree(p, t)
        BY DEF Agree, At
    <2>3. \A i \in Wanted(p, t) : i \in Items(t) \/ \E q \in Task : Owes(q, t, i)
        BY <2>1, <2>2 DEF IInv, Kept
    <2>4. \A q \in Task, i \in Wanted(p, t) : ~ Owes(q, t, i)
        <3> SUFFICES ASSUME NEW q \in Task, NEW i \in Wanted(p, t), Owes(q, t, i)
                     PROVE  FALSE
            OBVIOUS
        <3>1. At(q, "completed")
            BY <2>1, OwesReached
        <3> QED BY <3>1 DEF Owes, At
    <2> QED BY <2>3, <2>4
<1>4. IInv => SuccessDelivers
    BY <1>2, <1>3 DEF SuccessDelivers
<1> QED BY <1>4, Invariant, PTL

\* A table that exists loses its documents only when its own turn comes.
\* (nrdbc.go: Copy, Put, Delete)
THEOREM UntouchedUntilReachedInvariant == Spec => []UntouchedUntilReached
<1>1. IInv => UntouchedUntilReached
    BY DEF IInv
<1> QED BY <1>1, Invariant, PTL

\* A step changes the table that its task is at, and no other, or is a late write.
LEMMA OnlyItsTable ==
    ASSUME IInv, NEW p \in Task, Start(p) \/ Work(p), NEW t \in Table, dst'[t] # dst[t]
    PROVE  (Name(p) = t /\ run[p].at \notin Ended) \/ Flushes(t)
<1>1. ASSUME NEW x, NEW docs, Put(x, docs), x # t
      PROVE  FALSE
    <2>1. dst' = [dst EXCEPT ![x] = docs] /\ dst \in [Table -> SUBSET Doc]
        BY <1>1 DEF Put, IInv, TypeOK
    <2> QED BY <1>1, <2>1
<1>2. ~ Start(p)
    <2>1. CASE GenerateNRDBMSPostHandler(p)
        BY <2>1 DEF GenerateNRDBMSPostHandler, db
    <2>2. CASE NRDBMSCreateTableHandler(p) \/ NRDBMSDeleteTableHandler(p)
        BY <2>2 DEF NRDBMSCreateTableHandler, NRDBMSDeleteTableHandler, Request, db
    <2> QED BY <2>1, <2>2 DEF Start, handleNRDBMSMigrateTask, handleNRDBMSBackupTask,
               handleNRDBMSRestoreTask, handleNRDBMSDeleteTask, Begin, db
<1>3. ~ Fail(p)
    BY DEF Fail, db
<1>4. ~ Reading(p)
    <2>1. ~ (DynamoListTables(p) \/ FirestoreListTables(p) \/ NcpListTables(p)
             \/ AlibabaListTables(p) \/ WalkFiles(p) \/ Next1(p))
        BY DEF DynamoListTables, FirestoreListTables, NcpListTables, AlibabaListTables, WalkFiles,
               Receive, Next1, db
    <2>2. ~ (DynamoExport(p) \/ FirestoreExport(p) \/ NcpExport(p) \/ AlibabaExport(p))
        BY DEF DynamoExport, FirestoreExport, NcpExport, AlibabaExport, MongoExport, Read, db
    <2>3. ~ (CreateFile(p) \/ Encode(p) \/ OpenFile(p))
        BY DEF CreateFile, Encode, OpenFile, db
    <2> QED BY <2>1, <2>2, <2>3 DEF Reading
<1>5. CASE \/ FindTable(p) \/ DynamoClear(p) \/ FirestoreClear(p) \/ DynamoCreate(p)
           \/ DynamoImport(p) \/ FirestoreImport(p) \/ Wait(p)
    BY <1>5 DEF FindTable, DynamoClear, FirestoreClear, StartErase, DynamoCreate,
                DynamoImport, FirestoreImport, StartWrite, Wait, db
<1>6. CASE NcpClear(p) \/ AlibabaClear(p)
    BY <1>1, <1>6 DEF NcpClear, AlibabaClear, MongoClear, At, Ended
<1>7. CASE FirestoreCreate(p) \/ NcpCreate(p) \/ AlibabaCreate(p)
    BY <1>1, <1>7 DEF FirestoreCreate, NcpCreate, AlibabaCreate, AddMarker, At, Ended
<1>8. CASE DropMarker(p)
    BY <1>1, <1>8 DEF DropMarker, At, Ended, db
<1>9. CASE NcpImport(p) \/ AlibabaImport(p)
    BY <1>1, <1>9 DEF NcpImport, AlibabaImport, MongoImport, At, Ended
<1>10. CASE writeBatchWithRetry(p) \/ BulkWrite(p)
    <2>1. PICK d \in run[p].left, applied \in BOOLEAN : Apply(p, d, applied)
        BY <1>10 DEF writeBatchWithRetry, BulkWrite, WriteEnds
    <2>2. Is(p, "aws") \/ (Is(p, "gcp") /\ run[p].job = "write")
        BY <1>10 DEF writeBatchWithRetry, BulkWrite
    <2>3. run[p].at = "wait" \/ (/\ At(p, "failed") /\ Is(p, "gcp") /\ run[p].job = "write"
                                 /\ run[p].op \in Writers /\ d \in Copies(p))
        BY <2>1, <2>2 DEF IInv, Position, LeftFits, Is, At, Copies
    <2>4. Name(p) = t
        BY <1>1, <2>1 DEF Apply, db
    <2>5. CASE run[p].at = "wait"
        BY <2>4, <2>5 DEF Ended
    <2>6. CASE run[p].at # "wait"
        <3>1. dst'[t] = dst[t] \cup {d}
            BY <2>1, <2>3, <2>4, <2>6 DEF Apply, Put, db, IInv, TypeOK
        <3>2. engine[2] = "gcp" /\ d \in Copies(p)
            BY <2>3, <2>6 DEF Is
        <3> QED BY <2>3, <2>4, <2>6, <3>1, <3>2 DEF Flushes
    <2> QED BY <2>5, <2>6
<1>11. CASE DeleteDocument(p)
    BY <1>1, <1>11 DEF DeleteDocument, Apply, At, Ended, db
<1>12. CASE Sweep(p)
    BY <1>1, <1>12 DEF Sweep, At, Ended, db
<1>13. CASE DynamoDrop(p) \/ NcpDrop(p) \/ AlibabaDrop(p)
    BY <1>13 DEF DynamoDrop, NcpDrop, AlibabaDrop, DropCollection, At, Name, Ended, IInv, TypeOK
<1> QED BY <1>2, <1>3, <1>4, <1>5, <1>6, <1>7, <1>8, <1>9, <1>10, <1>11, <1>12, <1>13 DEF Work, Writing

\* The target changes only for the table that some task is at, but for what DynamoDB was
\* told to delete and for the documents that a failed import of Firestore left queued.
\* (awsdnmdb.go: ImportTable, g.Wait, DropTable; firestoredb.go: ImportTable)
THEOREM NothingElseAfterTheEndHolds == Spec => NothingElseAfterTheEnd
<1>1. IInv /\ [Next]_vars =>
          [\A t \in Table : dst[t] # dst'[t] =>
              \/ \E p \in Task : Name(p) = t /\ run[p].at \notin Ended
              \/ Falls(t) \/ Flushes(t)]_vars
    <2> SUFFICES ASSUME IInv, Next, NEW t \in Table, dst[t] # dst'[t]
                 PROVE  \/ \E p \in Task : Name(p) = t /\ run[p].at \notin Ended
                        \/ Falls(t) \/ Flushes(t)
        OBVIOUS
    <2>1. CASE \E p \in Task : Start(p) \/ Work(p)
        BY <2>1, OnlyItsTable
    <2>2. ASSUME NEW x \in Table, DynamoGone(x)
          PROVE  Falls(t)
        <3>1. x = t /\ t \in dropping /\ t \notin exists'
            BY <2>2 DEF DynamoGone, IInv, TypeOK
        <3> QED BY <3>1 DEF IInv, DropsOrdered, Doomed, Falls
    <2> QED BY <2>1, <2>2 DEF Next
<1> QED BY <1>1, Invariant, PTL DEF Spec, NothingElseAfterTheEnd
=================================================================================
