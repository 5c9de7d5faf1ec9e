--------------------------- MODULE CorrectionStore ---------------------------
(***************************************************************************)
(* The private store of user corrections (corrections/database.py): a      *)
(* SQLite file that the first command creates.  Threads use store objects  *)
(* of their process; the objects of one path in one process share an       *)
(* initialization lock, processes share only the file.                     *)
(*                                                                         *)
(* A file is told from its name: on POSIX a connection outlives the name   *)
(* of its file, and what it then commits is read by nobody else.  SQLite   *)
(* is external: one writer per file, a transaction applied as a whole or   *)
(* not at all.  The file and its -wal and -shm companions are one, and     *)
(* so is the removal of the three names.  Reads see committed rows.        *)
(***************************************************************************)
EXTENDS Naturals, FiniteSets

CONSTANTS
    Threads,       \* threads that run commands
    Stores,        \* CorrectionStore objects for one database path
    Processes,     \* the processes the threads and the objects live in
    StoreOf,       \* per thread, the object it uses
    ProcessOf,     \* per object, its process
    Ids,           \* identities of corrections (stable_record_id)
    MaxCalls,      \* how many commands each thread runs
    MaxFiles,      \* how many database files are ever created
    Faults,        \* which of "crash", "init", "sql" may happen
    Platform,      \* "posix" or "nt"
    NoFile,        \* the path names nothing
    NoRow,         \* no correction of that identity
    NoThread       \* the holder of a free lock

Files == 1 .. MaxFiles

ASSUME BoundsAssumption == MaxCalls \in Nat /\ MaxFiles \in Nat
ASSUME FaultsAssumption == Faults \subseteq {"crash", "init", "sql"}
ASSUME PlatformAssumption == Platform \in {"posix", "nt"}
ASSUME PlacesAssumption == /\ StoreOf \in [Threads -> Stores]
                           /\ ProcessOf \in [Stores -> Processes]
                           /\ NoThread \notin Threads /\ NoFile \notin Files
                           /\ NoRow \notin [status : {"active", "revoked"}, version : Nat]

VARIABLES
    parent,        \* the directory: "absent", "open" or "private"
    name,          \* the file that database_path names
    file,          \* per file, whether it is private, has tables, and its rows
    made,          \* how many files have been created
    writer,        \* per file, who holds SQLite's write lock
    initLock,      \* per process, who holds the initialization lock
    ready,         \* the objects whose _ready is set
    pc,            \* where each thread is
    call,          \* the command it runs and the locals of _ensure_ready
    calls,         \* how many commands it has begun
    result         \* what its last command returned

vars == << parent, name, file, made, writer, initLock, ready, pc, call, calls, result >>

Process(t) == ProcessOf[StoreOf[t]]

Row(status, version) == [status |-> status, version |-> version]
Empty == [i \in Ids |-> NoRow]
NewFile == [private |-> FALSE, tables |-> FALSE, rows |-> Empty]

NoResult == [code |-> "none"]
Idle == [op |-> "none", id |-> NoRow, newParent |-> FALSE, newFile |-> FALSE,
         conn |-> NoFile]

Writes == {"record", "revoke", "restore", "delete"}

Init ==
    /\ parent = "absent"
    /\ name = NoFile
    /\ file = [f \in Files |-> NewFile]
    /\ made = 0
    /\ writer = [f \in Files |-> NoThread]
    /\ initLock = [p \in Processes |-> NoThread]
    /\ ready = {}
    /\ pc = [t \in Threads |-> "idle"]
    /\ call = [t \in Threads |-> Idle]
    /\ calls = [t \in Threads |-> 0]
    /\ result = [t \in Threads |-> NoResult]

Goto(t, label) == pc' = [pc EXCEPT ![t] = label]

Return(t, r) == /\ Goto(t, "idle")
                /\ call' = [call EXCEPT ![t] = Idle]
                /\ result' = [result EXCEPT ![t] = r]

Fail(t, code) == Return(t, [code |-> code])

LeaveInit(t) == initLock' = [initLock EXCEPT ![Process(t)] = NoThread]

(* sqlite3.connect opens the file of that name or creates an empty one.    *)
Opened == IF name = NoFile THEN made + 1 ELSE name

OpenFile(t) ==
    /\ parent # "absent"
    /\ name # NoFile \/ made < MaxFiles
    /\ call' = [call EXCEPT ![t].conn = Opened]
    /\ name' = Opened
    /\ made' = IF name = NoFile THEN made + 1 ELSE made

NoOpen == UNCHANGED << name, made >>
-----------------------------------------------------------------------------
(* _ensure_ready.                                                          *)

Call(t) ==
    /\ pc[t] = "idle"
    /\ calls[t] < MaxCalls
    /\ calls' = [calls EXCEPT ![t] = @ + 1]
    /\ \E op \in Writes \cup {"clear", "list"}, i \in Ids :
         call' = [call EXCEPT ![t] = [Idle EXCEPT !.op = op, !.id = i]]
    /\ Goto(t, IF StoreOf[t] \in ready THEN "connecting" ELSE "waiting")
    /\ result' = [result EXCEPT ![t] = NoResult]
    /\ UNCHANGED << parent, name, file, made, writer, initLock, ready >>

(* The lock belongs to the path; whoever gets it looks at _ready again.    *)
EnterInit(t) ==
    /\ pc[t] = "waiting"
    /\ initLock[Process(t)] = NoThread
    /\ IF StoreOf[t] \in ready
       THEN Goto(t, "connecting") /\ UNCHANGED initLock
       ELSE /\ Goto(t, "making")
            /\ initLock' = [initLock EXCEPT ![Process(t)] = t]
    /\ UNCHANGED << parent, name, file, made, writer, ready, call, calls, result >>

MakeParent(t) ==
    /\ pc[t] = "making"
    /\ call' = [call EXCEPT ![t].newParent = parent = "absent"]
    /\ parent' = IF parent = "absent" THEN "open" ELSE parent
    /\ Goto(t, "hardening_parent")
    /\ UNCHANGED << name, file, made, writer, initLock, ready, calls, result >>

(* A directory that cannot be made private goes again, if it is new and    *)
(* still empty.                                                            *)
HardenParent(t) ==
    /\ pc[t] = "hardening_parent"
    /\ \/ /\ parent # "absent"
          /\ parent' = "private"
          /\ Goto(t, "looking")
          /\ UNCHANGED << call, result, initLock >>
       \/ /\ parent = "absent" \/ "init" \in Faults
          /\ parent' = IF call[t].newParent /\ name = NoFile THEN "absent" ELSE parent
          /\ Fail(t, "STORAGE_PERMISSION_DENIED")
          /\ LeaveInit(t)
    /\ UNCHANGED << name, file, made, writer, ready, calls >>

Look(t) ==
    /\ pc[t] = "looking"
    /\ call' = [call EXCEPT ![t].newFile = name = NoFile]
    /\ Goto(t, "opening")
    /\ UNCHANGED << parent, name, file, made, writer, initLock, ready, calls, result >>

Open(t) ==
    /\ pc[t] = "opening"
    /\ \/ OpenFile(t) /\ Goto(t, "hardening")
       \/ /\ parent = "absent" \/ "init" \in Faults
          /\ Goto(t, "undoing")
          /\ NoOpen /\ UNCHANGED call
    /\ UNCHANGED << parent, file, writer, initLock, ready, calls, result >>

(* Fault: only a file this call has created is made private.               *)
HardenNewFile(t) ==
    /\ pc[t] = "hardening"
    /\ file' = IF name = NoFile \/ ~call[t].newFile THEN file
               ELSE [file EXCEPT ![name].private = TRUE]
    /\ Goto(t, "creating")
    /\ UNCHANGED << parent, name, made, writer, initLock, ready, call, calls, result >>

(* Permissions are set by name, whatever file has it by then.              *)
HardenFile(t) ==
    /\ pc[t] = "hardening"
    /\ \/ /\ name # NoFile
          /\ file' = [file EXCEPT ![name].private = TRUE]
          /\ Goto(t, "creating")
       \/ /\ name = NoFile \/ "init" \in Faults
          /\ Goto(t, "undoing")
          /\ UNCHANGED file
    /\ UNCHANGED << parent, name, made, writer, initLock, ready, call, calls, result >>

(* The table of corrections and user_version come in one transaction, each *)
(* only where missing; the table of metadata is there before, and is not   *)
(* told apart.  A file that lost its name before it was switched to WAL is *)
(* refused by SQLite.                                                      *)
CreateTables(t) ==
    LET f == call[t].conn
        usable == f = name \/ file[f].tables
    IN /\ pc[t] = "creating"
       /\ \/ /\ usable
             /\ writer[f] = NoThread
             /\ file' = [file EXCEPT ![f].tables = TRUE]
             /\ ready' = ready \cup {StoreOf[t]}
             /\ Goto(t, "connecting")
             /\ LeaveInit(t)
          \/ /\ ~usable \/ "init" \in Faults
             /\ Goto(t, "undoing")
             /\ UNCHANGED << file, ready, initLock >>
       /\ UNCHANGED << parent, name, made, writer, call, calls, result >>

(* Fault: a failed initialization removes the file in any case.            *)
UndoAlways(t) ==
    /\ pc[t] = "undoing"
    /\ name' = NoFile
    /\ LeaveInit(t)
    /\ Fail(t, "DATABASE_ERROR")
    /\ UNCHANGED << parent, file, made, writer, ready, calls >>

(* A failed initialization removes the file it found missing.  On Windows  *)
(* its own connection, still open, keeps it from doing so.  One code       *)
(* stands for all that a failed initialization may report.                 *)
Undo(t) ==
    /\ pc[t] = "undoing"
    /\ name' = IF call[t].newFile /\ (Platform = "posix" \/ call[t].conn = NoFile)
               THEN NoFile ELSE name
    /\ LeaveInit(t)
    /\ Fail(t, "DATABASE_ERROR")
    /\ UNCHANGED << parent, file, made, writer, ready, calls >>
-----------------------------------------------------------------------------
(* _connect, _transaction and the commands.                                *)

Connect(t) ==
    /\ pc[t] = "connecting"
    /\ \/ /\ OpenFile(t)
          /\ Goto(t, IF call[t].op = "list" THEN "reading" ELSE "beginning")
          /\ UNCHANGED result
       \/ /\ parent = "absent" \/ "sql" \in Faults
          /\ Fail(t, "DATABASE_ERROR")
          /\ NoOpen
    /\ UNCHANGED << parent, file, writer, initLock, ready, calls >>

(* BEGIN IMMEDIATE waits for the write lock for at most 30 seconds.        *)
Begin(t) ==
    /\ pc[t] = "beginning"
    /\ \/ /\ writer[call[t].conn] = NoThread
          /\ writer' = [writer EXCEPT ![call[t].conn] = t]
          /\ Goto(t, "executing")
          /\ UNCHANGED << call, result >>
       \/ /\ "sql" \in Faults
          /\ Fail(t, "DATABASE_ERROR")
          /\ UNCHANGED writer
    /\ UNCHANGED << parent, name, file, made, initLock, ready, calls >>

Found(op, i, rows) == op \in {"revoke", "restore", "delete"} => rows[i] # NoRow

NewRow(op, row) ==
    CASE op = "record" -> Row("active", IF row = NoRow THEN 1 ELSE row.version + 1)
      [] op = "revoke" -> Row("revoked", row.version + 1)
      [] op = "restore" -> Row("active", row.version + 1)
      [] op = "delete" -> NoRow

(* Fault: a confirmation replaces the row, and its version starts again.   *)
EffectReplacing(op, i, rows) ==
    CASE op = "clear" -> Empty
      [] op = "record" -> [rows EXCEPT ![i] = Row("active", 1)]
      [] OTHER -> [rows EXCEPT ![i] = NewRow(op, rows[i])]

Effect(op, i, rows) ==
    IF op = "clear" THEN Empty ELSE [rows EXCEPT ![i] = NewRow(op, rows[i])]

(* The statements and the commit: all of it, or a rollback.                *)
Transact(t) ==
    LET f == call[t].conn
        op == call[t].op
        i == call[t].id
    IN /\ pc[t] = "executing"
       /\ writer' = [writer EXCEPT ![f] = NoThread]
       /\ \/ /\ file[f].tables
             /\ Found(op, i, file[f].rows)
             /\ file' = [file EXCEPT ![f].rows = Effect(op, i, @)]
             /\ Return(t, [code |-> "OK", op |-> op, id |-> i])
          \/ /\ file[f].tables
             /\ ~Found(op, i, file[f].rows)
             /\ Fail(t, "RECORD_NOT_FOUND")
             /\ UNCHANGED file
          \/ /\ ~file[f].tables \/ "sql" \in Faults
             /\ Fail(t, "DATABASE_ERROR")
             /\ UNCHANGED file
       /\ UNCHANGED << parent, name, made, initLock, ready, calls >>

(* list_records and find_active_by_expressions.                            *)
Read(t) ==
    LET f == call[t].conn
    IN /\ pc[t] = "reading"
       /\ \/ /\ file[f].tables
             /\ Return(t, [code |-> "OK", op |-> "list",
                           active |-> {i \in Ids : /\ file[f].rows[i] # NoRow
                                                   /\ file[f].rows[i].status = "active"}])
          \/ /\ ~file[f].tables \/ "sql" \in Faults
             /\ Fail(t, "DATABASE_ERROR")
       /\ UNCHANGED << parent, name, file, made, writer, initLock, ready, calls >>

(* A process dies with its threads, objects and locks.                     *)
Crash(p) ==
    LET mine == {t \in Threads : Process(t) = p}
    IN /\ "crash" \in Faults
       /\ \E t \in mine : pc[t] # "idle"
       /\ pc' = [t \in Threads |-> IF t \in mine THEN "idle" ELSE pc[t]]
       /\ call' = [t \in Threads |-> IF t \in mine THEN Idle ELSE call[t]]
       /\ ready' = {s \in ready : ProcessOf[s] # p}
       /\ initLock' = [initLock EXCEPT ![p] = NoThread]
       /\ writer' = [f \in Files |-> IF writer[f] \in mine THEN NoThread ELSE writer[f]]
       /\ UNCHANGED << parent, name, file, made, calls, result >>

Initialize(t) ==
    \/ EnterInit(t) \/ MakeParent(t) \/ HardenParent(t) \/ Look(t) \/ Open(t)
    \/ HardenFile(t) \/ CreateTables(t) \/ Undo(t)

Execute(t) == Connect(t) \/ Begin(t) \/ Transact(t) \/ Read(t)

Next ==
    \/ \E t \in Threads : Call(t) \/ Initialize(t) \/ Execute(t)
    \/ \E p \in Processes : Crash(p)

Spec == Init /\ [][Next]_vars
-----------------------------------------------------------------------------
Initializing == {"making", "hardening_parent", "looking", "opening", "hardening",
                 "creating", "undoing"}
Labels == {"idle", "waiting", "connecting", "beginning", "executing", "reading"} \cup Initializing
Commands == Writes \cup {"clear", "list"}

Rows == {NoRow} \cup [status : {"active", "revoked"}, version : Nat \ {0}]
Contents == [private : BOOLEAN, tables : BOOLEAN, rows : [Ids -> Rows]]
Calls == [op : Commands \cup {"none"}, id : Ids \cup {NoRow}, newParent : BOOLEAN,
          newFile : BOOLEAN, conn : Files \cup {NoFile}]
Results == [code : {"none", "STORAGE_PERMISSION_DENIED", "DATABASE_ERROR", "RECORD_NOT_FOUND"}]
           \cup [code : {"OK"}, op : Writes \cup {"clear"}, id : Ids]
           \cup [code : {"OK"}, op : {"list"}, active : SUBSET Ids]

(* The values of the variables.                                            *)
TypeOK ==
    /\ parent \in {"absent", "open", "private"}
    /\ name \in Files \cup {NoFile}
    /\ file \in [Files -> Contents]
    /\ made \in 0 .. MaxFiles
    /\ writer \in [Files -> Threads \cup {NoThread}]
    /\ initLock \in [Processes -> Threads \cup {NoThread}]
    /\ ready \subseteq Stores
    /\ pc \in [Threads -> Labels]
    /\ call \in [Threads -> Calls]
    /\ calls \in [Threads -> 0 .. MaxCalls]
    /\ result \in [Threads -> Results]

(* What a command that starts now would find.                              *)
Visible == IF name = NoFile THEN Empty ELSE file[name].rows

(* Seen through the database path the store is the map it promises to be:  *)
(* whatever fails, crashes or waits, rows appear, change and disappear     *)
(* only by one whole command.                                              *)
Map == INSTANCE CorrectionMap WITH map <- Visible

ImplementsCorrectionMap == Map!Spec

(* A correction that a user confirmed is lost only by a deletion that the  *)
(* user asked for and was told of: no failure and no other command may     *)
(* take it away (tests/corrections/test_authorized_write.py:198, stores    *)
(* that know nothing of each other list what all of them wrote).           *)
CorrectionsLeaveOnlyByCommand ==
    [][\A i \in Ids : (Visible[i] # NoRow /\ Visible'[i] = NoRow) =>
          \E t \in Threads : /\ result'[t] # result[t]
                             /\ result'[t].code = "OK"
                             /\ \/ result'[t].op = "clear"
                                \/ result'[t].op = "delete" /\ result'[t].id = i]_vars

(* A command that reports success has committed to the file that later     *)
(* commands will open.                                                     *)
SuccessReachesTheStore ==
    [][\A t \in Threads :
        (result'[t] # result[t] /\ result'[t].code = "OK") => call[t].conn = name]_vars

(* PRIVACY.md: what the user corrected lies in a file and a directory that *)
(* only the user can read, at every instant.                               *)
ContentIsPrivate ==
    \A f \in Files : file[f].rows # Empty => file[f].private /\ parent = "private"
=============================================================================
