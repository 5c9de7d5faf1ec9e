------------------------ MODULE CorrectionStore_proofs ------------------------
(***************************************************************************)
(* What CorrectionStore promises to the threads of one process, for every  *)
(* number of threads, objects, corrections and files, whatever fails.      *)
(* With several processes it promises less: see the run "processes".       *)
(***************************************************************************)
EXTENDS CorrectionStore, TLAPS

(* One program uses the store at a time; it may crash and start again.     *)
SingleProcess == \A r, s \in Stores : ProcessOf[r] = ProcessOf[s]

Using == {"connecting", "beginning", "executing", "reading"}

(* Who initializes has the lock.                                           *)
InitializerHasLock == \A t \in Threads : pc[t] \in Initializing => initLock[Process(t)] = t

(* A thread that is not idle runs a command and has no result of it yet.   *)
CommandIsKnown ==
    \A t \in Threads :
        /\ pc[t] # "idle" => /\ call[t].op \in Commands /\ call[t].id \in Ids
                              /\ result[t] = NoResult
        /\ pc[t] \in {"beginning", "executing"} => call[t].op # "list"

(* Only the named file can have tables, and only a file with tables rows;  *)
(* by then it is private and so is the directory.                          *)
TablesAreNamed ==
    \A f \in Files :
        /\ file[f].tables => f = name /\ file[f].private /\ parent = "private"
        /\ file[f].rows # Empty => file[f].tables

(* Once an object is ready the store is there, and whoever uses it is      *)
(* connected to the file that has the name.                                *)
StoreIsThere ==
    /\ ready # {} => name # NoFile /\ file[name].tables
    /\ \A t \in Threads : pc[t] \in Using => name # NoFile /\ file[name].tables
    /\ \A t \in Threads : pc[t] \in Using \ {"connecting"} => call[t].conn = name

(* What a thread that initializes has found and done so far still holds.   *)
InitializationHolds ==
    \A t \in Threads :
        /\ pc[t] \in {"looking", "opening", "hardening", "creating", "undoing"} =>
              parent = "private"
        /\ pc[t] \in {"opening", "hardening", "creating", "undoing"} /\ call[t].newFile =>
              \A f \in Files : ~file[f].tables
        /\ pc[t] \in {"hardening", "creating"} => name # NoFile /\ call[t].conn = name
        /\ pc[t] = "creating" => file[name].private

IInv == /\ TypeOK /\ InitializerHasLock /\ CommandIsKnown
        /\ TablesAreNamed /\ StoreIsThere /\ InitializationHolds

(* The threads of one process initialize one at a time.                    *)
LEMMA OneInitializer ==
  ASSUME SingleProcess, TypeOK, InitializerHasLock,
         NEW t \in Threads, NEW u \in Threads, pc[t] \in Initializing, pc[u] \in Initializing
  PROVE  t = u
<1>1. Process(t) = Process(u)
  BY PlacesAssumption DEF SingleProcess, Process
<1> QED
  BY <1>1 DEF InitializerHasLock

(* What sqlite3.connect does to the name and to the caller.                  *)
Opening(t) ==
    /\ name' \in Files /\ made' \in 0 .. MaxFiles
    /\ name # NoFile => name' = name
    /\ call' \in [Threads -> Calls] /\ call'[t].conn = name'
    /\ call'[t].op = call[t].op /\ call'[t].id = call[t].id
    /\ call'[t].newFile = call[t].newFile
    /\ \A u \in Threads \ {t} : call'[u] = call[u]

LEMMA OpeningAFile ==
  ASSUME TypeOK, NEW t \in Threads, OpenFile(t)
  PROVE  Opening(t)
<1>1. Opened \in Files /\ (name # NoFile => Opened = name)
  BY BoundsAssumption DEF OpenFile, Opened, TypeOK, Files
<1>2. name' = Opened /\ made' \in 0 .. MaxFiles
  BY BoundsAssumption DEF OpenFile, TypeOK, Files
<1>3. call' = [call EXCEPT ![t].conn = Opened]
  BY DEF OpenFile
<1>4. [call[t] EXCEPT !.conn = Opened] \in Calls
  BY <1>1 DEF TypeOK, Calls
<1>5. /\ call' \in [Threads -> Calls] /\ call'[t].conn = Opened
      /\ call'[t].op = call[t].op /\ call'[t].id = call[t].id
      /\ call'[t].newFile = call[t].newFile
      /\ \A u \in Threads \ {t} : call'[u] = call[u]
  BY <1>3, <1>4 DEF TypeOK, Calls
<1> QED
  BY <1>1, <1>2, <1>5 DEF Opening

(* What a command ends with.                                                 *)
Returning(t) ==
    /\ pc' \in [Threads -> Labels] /\ call' \in [Threads -> Calls]
    /\ result' \in [Threads -> Results]
    /\ pc'[t] = "idle"
    /\ \A u \in Threads \ {t} : /\ pc'[u] = pc[u] /\ call'[u] = call[u]
                                /\ result'[u] = result[u]

LEMMA Constants == Idle \in Calls /\ NoResult \in Results /\ Idle.op = "none"
BY DEF Idle, Calls, NoResult, Results

LEMMA ReturningResult ==
  ASSUME TypeOK, NEW t \in Threads, NEW r \in Results, Return(t, r)
  PROVE  Returning(t)
<1>1. "idle" \in Labels
  BY DEF Labels
<1>2. /\ pc' = [pc EXCEPT ![t] = "idle"] /\ call' = [call EXCEPT ![t] = Idle]
      /\ result' = [result EXCEPT ![t] = r]
  BY DEF Return, Goto
<1> QED
  BY <1>1, <1>2, Constants DEF TypeOK, Returning

LEMMA FailingReturns ==
  ASSUME TypeOK, NEW t \in Threads,
         NEW code \in {"STORAGE_PERMISSION_DENIED", "DATABASE_ERROR", "RECORD_NOT_FOUND"},
         Fail(t, code)
  PROVE  Returning(t)
<1>1. [code |-> code] \in Results
  BY DEF Results
<1> QED
  BY <1>1, ReturningResult DEF Fail

(* What a change of one file leaves alone.                                   *)
Changing(f) ==
    /\ file' \in [Files -> Contents]
    /\ \A g \in Files \ {f} : file'[g] = file[g]

LEMMA Hardening ==
  ASSUME TypeOK, NEW f \in Files, file' = [file EXCEPT ![f].private = TRUE]
  PROVE  /\ Changing(f)
         /\ file'[f].private /\ file'[f].tables = file[f].tables /\ file'[f].rows = file[f].rows
<1>1. file[f] \in Contents /\ file' = [file EXCEPT ![f] = [file[f] EXCEPT !.private = TRUE]]
  BY DEF TypeOK
<1>2. LET c == [file[f] EXCEPT !.private = TRUE]
      IN c \in Contents /\ c.private /\ c.tables = file[f].tables /\ c.rows = file[f].rows
  BY <1>1 DEF Contents
<1> QED
  BY <1>1, <1>2 DEF TypeOK, Changing

LEMMA CreatingTables ==
  ASSUME TypeOK, NEW f \in Files, file' = [file EXCEPT ![f].tables = TRUE]
  PROVE  /\ Changing(f)
         /\ file'[f].tables /\ file'[f].private = file[f].private /\ file'[f].rows = file[f].rows
<1>1. file[f] \in Contents /\ file' = [file EXCEPT ![f] = [file[f] EXCEPT !.tables = TRUE]]
  BY DEF TypeOK
<1>2. LET c == [file[f] EXCEPT !.tables = TRUE]
      IN c \in Contents /\ c.tables /\ c.private = file[f].private /\ c.rows = file[f].rows
  BY <1>1 DEF Contents
<1> QED
  BY <1>1, <1>2 DEF TypeOK, Changing

LEMMA WritingRows ==
  ASSUME TypeOK, NEW f \in Files, NEW rows \in [Ids -> Rows],
         file' = [file EXCEPT ![f].rows = rows]
  PROVE  /\ Changing(f)
         /\ file'[f].rows = rows /\ file'[f].private = file[f].private
         /\ file'[f].tables = file[f].tables
<1>1. file[f] \in Contents /\ file' = [file EXCEPT ![f] = [file[f] EXCEPT !.rows = rows]]
  BY DEF TypeOK
<1>2. LET c == [file[f] EXCEPT !.rows = rows]
      IN c \in Contents /\ c.rows = rows /\ c.private = file[f].private /\ c.tables = file[f].tables
  BY <1>1 DEF Contents
<1> QED
  BY <1>1, <1>2 DEF TypeOK, Changing

LEMMA EffectIsRows ==
  ASSUME NEW op \in Writes \cup {"clear"}, NEW i \in Ids, NEW rows \in [Ids -> Rows],
         Found(op, i, rows)
  PROVE  Effect(op, i, rows) \in [Ids -> Rows]
<1>1. CASE op = "clear"
  BY <1>1 DEF Effect, Empty, Rows
<1>2. CASE op # "clear"
  <2>1. op = "record" /\ rows[i] = NoRow => NewRow(op, rows[i]) \in Rows
    BY DEF NewRow, Row, Rows
  <2>2. rows[i] # NoRow => rows[i].version + 1 \in Nat \ {0}
    BY DEF Rows
  <2>3. op = "record" /\ rows[i] # NoRow => NewRow(op, rows[i]) \in Rows
    BY <2>2 DEF NewRow, Row, Rows
  <2>4. op \in {"revoke", "restore"} => NewRow(op, rows[i]) \in Rows
    BY <2>2 DEF NewRow, Row, Rows, Found
  <2>5. op = "delete" => NewRow(op, rows[i]) \in Rows
    BY DEF NewRow, Rows
  <2>6. NewRow(op, rows[i]) \in Rows
    BY <1>2, <2>1, <2>3, <2>4, <2>5 DEF Writes
  <2> QED
    BY <1>2, <2>6 DEF Effect
<1> QED
  BY <1>1, <1>2

LEMMA InitIInv == Init => IInv
<1> SUFFICES ASSUME Init PROVE IInv
  OBVIOUS
<1>1. TypeOK
  <2>1. /\ parent \in {"absent", "open", "private"} /\ name \in Files \cup {NoFile}
        /\ made \in 0 .. MaxFiles
    BY Constants, BoundsAssumption DEF Init, NewFile, Empty, Contents, TypeOK, Files
  <2>2. file \in [Files -> Contents]
    BY Constants, BoundsAssumption DEF Init, NewFile, Empty, Contents, TypeOK, Rows,
       Files, Calls
  <2>3. /\ writer \in [Files -> Threads \cup {NoThread}]
        /\ initLock \in [Processes -> Threads \cup {NoThread}] /\ ready \subseteq Stores
    BY Constants, BoundsAssumption DEF Init, NewFile, Empty, Contents, TypeOK, Process
  <2>4. pc \in [Threads -> Labels]
    BY Constants, BoundsAssumption DEF Init, NewFile, Empty, Contents, TypeOK, Labels,
       Initializing
  <2>5. call \in [Threads -> Calls]
    BY Constants, BoundsAssumption DEF Init, NewFile, Empty, Contents, TypeOK, Calls,
       Commands, Writes, Idle
  <2>6. calls \in [Threads -> 0 .. MaxCalls] /\ result \in [Threads -> Results]
    BY Constants, BoundsAssumption DEF Init, NewFile, Empty, Contents, TypeOK,
       Results, NoResult, Writes, Calls
  <2> QED
    BY <2>1, <2>2, <2>3, <2>4, <2>5, <2>6 DEF TypeOK
<1>2. InitializerHasLock
  BY PlacesAssumption DEF Init, NewFile, Empty, Idle, NoResult, TypeOK,
     InitializerHasLock, Initializing, Labels, Process
<1>3. CommandIsKnown
  BY DEF Init, NewFile, Empty, Idle, NoResult, TypeOK, CommandIsKnown, Calls, Commands,
     Writes
<1>4. TablesAreNamed
  BY PlacesAssumption DEF Init, NewFile, Empty, Idle, NoResult, TypeOK, TablesAreNamed,
     StoreIsThere, InitializationHolds, Using
<1>5. StoreIsThere
  BY DEF Init, NewFile, Empty, Idle, NoResult, TypeOK, StoreIsThere, Using
<1>6. InitializationHolds
  BY DEF Init, NewFile, Empty, Idle, NoResult, TypeOK, InitializationHolds, Initializing
<1> QED
  BY <1>1, <1>2, <1>3, <1>4, <1>5, <1>6 DEF IInv

LEMMA CallStep ==
  ASSUME SingleProcess, NEW t \in Threads, IInv, Call(t)
  PROVE  IInv'
<1>1. TypeOK'
  <2>1. /\ parent' \in {"absent", "open", "private"} /\ name' \in Files \cup {NoFile}
        /\ made' \in 0 .. MaxFiles
    BY PlacesAssumption, BoundsAssumption DEF Call, Goto, IInv, TypeOK, Files
  <2>2. file' \in [Files -> Contents]
    BY PlacesAssumption, BoundsAssumption DEF Call, Goto, IInv, TypeOK, Rows, Files, Calls
  <2>3. /\ writer' \in [Files -> Threads \cup {NoThread}]
        /\ initLock' \in [Processes -> Threads \cup {NoThread}] /\ ready' \subseteq Stores
    BY PlacesAssumption, BoundsAssumption DEF Call, Goto, IInv, TypeOK, Process
  <2>4. pc' \in [Threads -> Labels]
    BY PlacesAssumption, BoundsAssumption DEF Call, Goto, IInv, TypeOK, Labels, Initializing
  <2>5. call' \in [Threads -> Calls]
    <3>1. PICK op \in Commands, i \in Ids :
             call' = [call EXCEPT ![t] = [Idle EXCEPT !.op = op, !.id = i]]
      BY DEF Call, Commands
    <3>2. [Idle EXCEPT !.op = op, !.id = i] \in Calls
      BY DEF Idle, Calls
    <3> QED
      BY <3>1, <3>2 DEF IInv, TypeOK
  <2>6. calls' \in [Threads -> 0 .. MaxCalls] /\ result' \in [Threads -> Results]
    BY PlacesAssumption, BoundsAssumption DEF Call, Goto, IInv, TypeOK, Results, NoResult,
       Writes, Calls
  <2> QED
    BY <2>1, <2>2, <2>3, <2>4, <2>5, <2>6 DEF TypeOK
<1>2. InitializerHasLock'
  BY SingleProcess, PlacesAssumption, OneInitializer DEF Call, Goto, IInv, TypeOK,
     InitializerHasLock, Initializing, Labels, Process
<1>3. CommandIsKnown'
  BY DEF Call, Goto, IInv, TypeOK, CommandIsKnown, Calls, Commands, Writes, Idle, NoResult
<1>4. TablesAreNamed'
  BY PlacesAssumption DEF Call, Goto, IInv, TypeOK, TablesAreNamed, StoreIsThere,
     InitializationHolds, Using, Empty
<1>5. StoreIsThere'
  BY DEF Call, Goto, IInv, TypeOK, StoreIsThere, Using
<1>6. InitializationHolds'
  BY SingleProcess, OneInitializer DEF Call, Goto, IInv, TypeOK, InitializationHolds,
     Initializing
<1> QED
  BY <1>1, <1>2, <1>3, <1>4, <1>5, <1>6 DEF IInv

LEMMA EnterInitStep ==
  ASSUME SingleProcess, NEW t \in Threads, IInv, EnterInit(t)
  PROVE  IInv'
<1>1. TypeOK'
  <2>1. /\ parent' \in {"absent", "open", "private"} /\ name' \in Files \cup {NoFile}
        /\ made' \in 0 .. MaxFiles
    BY PlacesAssumption, BoundsAssumption DEF EnterInit, Goto, IInv, TypeOK, Files
  <2>2. file' \in [Files -> Contents]
    BY PlacesAssumption, BoundsAssumption DEF EnterInit, Goto, IInv, TypeOK, Rows, Files,
       Calls
  <2>3. /\ writer' \in [Files -> Threads \cup {NoThread}]
        /\ initLock' \in [Processes -> Threads \cup {NoThread}] /\ ready' \subseteq Stores
    BY PlacesAssumption, BoundsAssumption DEF EnterInit, Goto, IInv, TypeOK, Process
  <2>4. pc' \in [Threads -> Labels]
    BY PlacesAssumption, BoundsAssumption DEF EnterInit, Goto, IInv, TypeOK, Labels,
       Initializing
  <2>5. call' \in [Threads -> Calls]
    BY PlacesAssumption, BoundsAssumption DEF EnterInit, Goto, IInv, TypeOK, Calls,
       Commands, Writes, Idle
  <2>6. calls' \in [Threads -> 0 .. MaxCalls] /\ result' \in [Threads -> Results]
    BY PlacesAssumption, BoundsAssumption DEF EnterInit, Goto, IInv, TypeOK, Results,
       NoResult, Writes, Calls
  <2> QED
    BY <2>1, <2>2, <2>3, <2>4, <2>5, <2>6 DEF TypeOK
<1>2. InitializerHasLock'
  BY SingleProcess, PlacesAssumption, OneInitializer DEF EnterInit, Goto, IInv, TypeOK,
     InitializerHasLock, Initializing, Labels, Process
<1>3. CommandIsKnown'
  BY DEF EnterInit, Goto, IInv, TypeOK, CommandIsKnown, Calls, Commands, Writes, Idle,
     NoResult
<1>4. TablesAreNamed'
  BY PlacesAssumption DEF EnterInit, Goto, IInv, TypeOK, TablesAreNamed, StoreIsThere,
     InitializationHolds, Using, Empty
<1>5. StoreIsThere'
  BY DEF EnterInit, Goto, IInv, TypeOK, StoreIsThere, Using
<1>6. InitializationHolds'
  BY SingleProcess, OneInitializer DEF EnterInit, Goto, IInv, TypeOK, InitializationHolds,
     Initializing
<1> QED
  BY <1>1, <1>2, <1>3, <1>4, <1>5, <1>6 DEF IInv

LEMMA MakeParentStep ==
  ASSUME SingleProcess, NEW t \in Threads, IInv, MakeParent(t)
  PROVE  IInv'
<1>1. TypeOK'
  <2>1. /\ parent' \in {"absent", "open", "private"} /\ name' \in Files \cup {NoFile}
        /\ made' \in 0 .. MaxFiles
    BY PlacesAssumption, BoundsAssumption DEF MakeParent, Goto, IInv, TypeOK, Files
  <2>2. file' \in [Files -> Contents]
    BY PlacesAssumption, BoundsAssumption DEF MakeParent, Goto, IInv, TypeOK, Rows, Files,
       Calls
  <2>3. /\ writer' \in [Files -> Threads \cup {NoThread}]
        /\ initLock' \in [Processes -> Threads \cup {NoThread}] /\ ready' \subseteq Stores
    BY PlacesAssumption, BoundsAssumption DEF MakeParent, Goto, IInv, TypeOK, Process
  <2>4. pc' \in [Threads -> Labels]
    BY PlacesAssumption, BoundsAssumption DEF MakeParent, Goto, IInv, TypeOK, Labels,
       Initializing
  <2>5. call' \in [Threads -> Calls]
    <3>1. [call[t] EXCEPT !.newParent = parent = "absent"] \in Calls
      BY DEF IInv, TypeOK, Calls
    <3> QED
      BY <3>1 DEF MakeParent, IInv, TypeOK
  <2>6. calls' \in [Threads -> 0 .. MaxCalls] /\ result' \in [Threads -> Results]
    BY PlacesAssumption, BoundsAssumption DEF MakeParent, Goto, IInv, TypeOK, Results,
       NoResult, Writes, Calls
  <2> QED
    BY <2>1, <2>2, <2>3, <2>4, <2>5, <2>6 DEF TypeOK
<1>2. InitializerHasLock'
  BY SingleProcess, PlacesAssumption, OneInitializer DEF MakeParent, Goto, IInv, TypeOK,
     InitializerHasLock, Initializing, Labels, Process
<1>3. CommandIsKnown'
  BY DEF MakeParent, Goto, IInv, TypeOK, CommandIsKnown, Calls, Commands, Writes, Idle,
     NoResult
<1>4. TablesAreNamed'
  BY PlacesAssumption DEF MakeParent, Goto, IInv, TypeOK, TablesAreNamed, StoreIsThere,
     InitializationHolds, Using, Empty
<1>5. StoreIsThere'
  BY DEF MakeParent, Goto, IInv, TypeOK, StoreIsThere, Using
<1>6. InitializationHolds'
  BY SingleProcess, OneInitializer DEF MakeParent, Goto, IInv, TypeOK, InitializationHolds,
     Initializing
<1> QED
  BY <1>1, <1>2, <1>3, <1>4, <1>5, <1>6 DEF IInv

LEMMA HardenParentStep ==
  ASSUME SingleProcess, NEW t \in Threads, IInv, HardenParent(t)
  PROVE  IInv'
<1>0. Fail(t, "STORAGE_PERMISSION_DENIED") => Returning(t)
  BY FailingReturns DEF IInv
<1>1. TypeOK'
  <2>1. /\ parent' \in {"absent", "open", "private"} /\ name' \in Files \cup {NoFile}
        /\ made' \in 0 .. MaxFiles
    BY PlacesAssumption, BoundsAssumption, <1>0 DEF HardenParent, Goto, LeaveInit, IInv,
       TypeOK, Files, Returning
  <2>2. file' \in [Files -> Contents]
    BY PlacesAssumption, BoundsAssumption, <1>0 DEF HardenParent, Goto, LeaveInit, IInv,
       TypeOK, Rows, Files, Calls, Returning
  <2>3. /\ writer' \in [Files -> Threads \cup {NoThread}]
        /\ initLock' \in [Processes -> Threads \cup {NoThread}] /\ ready' \subseteq Stores
    BY PlacesAssumption, BoundsAssumption, <1>0 DEF HardenParent, Goto, LeaveInit, IInv,
       TypeOK, Process, Returning
  <2>4. pc' \in [Threads -> Labels]
    BY PlacesAssumption, BoundsAssumption, <1>0 DEF HardenParent, Goto, LeaveInit, IInv,
       TypeOK, Labels, Initializing, Returning
  <2>5. call' \in [Threads -> Calls]
    BY PlacesAssumption, BoundsAssumption, <1>0 DEF HardenParent, Goto, LeaveInit, IInv,
       TypeOK, Calls, Commands, Writes, Idle, Returning
  <2>6. calls' \in [Threads -> 0 .. MaxCalls] /\ result' \in [Threads -> Results]
    BY PlacesAssumption, BoundsAssumption, <1>0 DEF HardenParent, Goto, LeaveInit, IInv,
       TypeOK, Results, NoResult, Writes, Calls, Returning
  <2> QED
    BY <2>1, <2>2, <2>3, <2>4, <2>5, <2>6 DEF TypeOK
<1>2. InitializerHasLock'
  BY SingleProcess, PlacesAssumption, OneInitializer, <1>0 DEF HardenParent, Goto, LeaveInit,
     IInv, Returning, TypeOK, InitializerHasLock, Initializing, Labels, Process
<1>3. CommandIsKnown'
  BY <1>0 DEF HardenParent, Goto, LeaveInit, IInv, Returning, TypeOK, CommandIsKnown, Calls,
     Commands, Writes, Idle, NoResult
<1>4. TablesAreNamed'
  BY PlacesAssumption, <1>0 DEF HardenParent, Goto, LeaveInit, IInv, Returning, TypeOK,
     TablesAreNamed, StoreIsThere, InitializationHolds, Using, Empty
<1>5. StoreIsThere'
  BY <1>0 DEF HardenParent, Goto, LeaveInit, IInv, Returning, TypeOK, StoreIsThere, Using
<1>6. InitializationHolds'
  BY SingleProcess, OneInitializer, <1>0 DEF HardenParent, Goto, LeaveInit, IInv, Returning,
     TypeOK, InitializationHolds, Initializing
<1> QED
  BY <1>1, <1>2, <1>3, <1>4, <1>5, <1>6 DEF IInv

LEMMA LookStep ==
  ASSUME SingleProcess, NEW t \in Threads, IInv, Look(t)
  PROVE  IInv'
<1>1. TypeOK'
  <2>1. /\ parent' \in {"absent", "open", "private"} /\ name' \in Files \cup {NoFile}
        /\ made' \in 0 .. MaxFiles
    BY PlacesAssumption, BoundsAssumption DEF Look, Goto, IInv, TypeOK, Files
  <2>2. file' \in [Files -> Contents]
    BY PlacesAssumption, BoundsAssumption DEF Look, Goto, IInv, TypeOK, Rows, Files, Calls
  <2>3. /\ writer' \in [Files -> Threads \cup {NoThread}]
        /\ initLock' \in [Processes -> Threads \cup {NoThread}] /\ ready' \subseteq Stores
    BY PlacesAssumption, BoundsAssumption DEF Look, Goto, IInv, TypeOK, Process
  <2>4. pc' \in [Threads -> Labels]
    BY PlacesAssumption, BoundsAssumption DEF Look, Goto, IInv, TypeOK, Labels, Initializing
  <2>5. call' \in [Threads -> Calls]
    <3>1. CASE name = NoFile
      <4>1. [call[t] EXCEPT !.newFile = TRUE] \in Calls
        BY DEF IInv, TypeOK, Calls
      <4> QED
        BY <3>1, <4>1 DEF Look, IInv, TypeOK
    <3>2. CASE name # NoFile
      <4>1. [call[t] EXCEPT !.newFile = FALSE] \in Calls
        BY DEF IInv, TypeOK, Calls
      <4> QED
        BY <3>2, <4>1 DEF Look, IInv, TypeOK
    <3> QED
      BY <3>1, <3>2
  <2>6. calls' \in [Threads -> 0 .. MaxCalls] /\ result' \in [Threads -> Results]
    BY PlacesAssumption, BoundsAssumption DEF Look, Goto, IInv, TypeOK, Results, NoResult,
       Writes, Calls
  <2> QED
    BY <2>1, <2>2, <2>3, <2>4, <2>5, <2>6 DEF TypeOK
<1>2. InitializerHasLock'
  BY SingleProcess, PlacesAssumption, OneInitializer DEF Look, Goto, IInv, TypeOK,
     InitializerHasLock, Initializing, Labels, Process
<1>3. CommandIsKnown'
  BY DEF Look, Goto, IInv, TypeOK, CommandIsKnown, Calls, Commands, Writes, Idle, NoResult
<1>4. TablesAreNamed'
  BY PlacesAssumption DEF Look, Goto, IInv, TypeOK, TablesAreNamed, StoreIsThere,
     InitializationHolds, Using, Empty
<1>5. StoreIsThere'
  BY DEF Look, Goto, IInv, TypeOK, StoreIsThere, Using
<1>6. InitializationHolds'
  <2>1. /\ UNCHANGED << parent, name, file >> /\ parent = "private"
        /\ pc[t] = "looking" /\ pc'[t] = "opening"
        /\ \A u \in Threads \ {t} : pc'[u] = pc[u]
        /\ call'[t].newFile = (name = NoFile)
    BY DEF Look, Goto, IInv, TypeOK, Calls, InitializationHolds
  <2>3. name = NoFile => \A f \in Files : ~file[f].tables
    BY PlacesAssumption DEF IInv, TablesAreNamed
  <2>2. \A u \in Threads \ {t} : pc[u] \notin Initializing
    BY <2>1, OneInitializer DEF IInv, Initializing
  <2> QED
    BY <2>1, <2>2, <2>3 DEF InitializationHolds, Initializing
<1> QED
  BY <1>1, <1>2, <1>3, <1>4, <1>5, <1>6 DEF IInv

LEMMA OpenStep ==
  ASSUME SingleProcess, NEW t \in Threads, IInv, Open(t)
  PROVE  IInv'
<1>0. OpenFile(t) => Opening(t)
  BY OpeningAFile DEF IInv
<1>1. TypeOK'
  <2>1. /\ parent' \in {"absent", "open", "private"} /\ name' \in Files \cup {NoFile}
        /\ made' \in 0 .. MaxFiles
    BY PlacesAssumption, BoundsAssumption, <1>0 DEF Open, Goto, NoOpen, IInv, TypeOK, Files,
       Opening
  <2>2. file' \in [Files -> Contents]
    BY PlacesAssumption, BoundsAssumption, <1>0 DEF Open, Goto, NoOpen, IInv, TypeOK, Rows,
       Files, Calls, Opening
  <2>3. /\ writer' \in [Files -> Threads \cup {NoThread}]
        /\ initLock' \in [Processes -> Threads \cup {NoThread}] /\ ready' \subseteq Stores
    BY PlacesAssumption, BoundsAssumption, <1>0 DEF Open, Goto, NoOpen, IInv, TypeOK,
       Process, Opening
  <2>4. pc' \in [Threads -> Labels]
    BY PlacesAssumption, BoundsAssumption, <1>0 DEF Open, Goto, NoOpen, IInv, TypeOK,
       Labels, Initializing, Opening
  <2>5. call' \in [Threads -> Calls]
    BY PlacesAssumption, BoundsAssumption, <1>0 DEF Open, Goto, NoOpen, IInv, TypeOK, Calls,
       Commands, Writes, Idle, Opening
  <2>6. calls' \in [Threads -> 0 .. MaxCalls] /\ result' \in [Threads -> Results]
    BY PlacesAssumption, BoundsAssumption, <1>0 DEF Open, Goto, NoOpen, IInv, TypeOK,
       Results, NoResult, Writes, Calls, Opening
  <2> QED
    BY <2>1, <2>2, <2>3, <2>4, <2>5, <2>6 DEF TypeOK
<1>2. InitializerHasLock'
  BY SingleProcess, PlacesAssumption, OneInitializer, <1>0 DEF Open, Goto, NoOpen, IInv,
     Opening, TypeOK, InitializerHasLock, Initializing, Labels, Process
<1>3. CommandIsKnown'
  BY <1>0 DEF Open, Goto, NoOpen, IInv, Opening, TypeOK, CommandIsKnown, Calls, Commands,
     Writes, Idle, NoResult
<1>4. TablesAreNamed'
  BY PlacesAssumption, <1>0 DEF Open, Goto, NoOpen, IInv, Opening, TypeOK, TablesAreNamed,
     StoreIsThere, InitializationHolds, Using, Empty
<1>5. StoreIsThere'
  BY <1>0 DEF Open, Goto, NoOpen, IInv, Opening, TypeOK, StoreIsThere, Using
<1>6. InitializationHolds'
  <2>1. /\ UNCHANGED << parent, file >> /\ parent = "private" /\ pc[t] = "opening"
        /\ \A u \in Threads \ {t} : pc'[u] = pc[u]
        /\ call[t].newFile => \A f \in Files : ~file[f].tables
    BY DEF Open, Goto, IInv, TypeOK, InitializationHolds
  <2>2. \A u \in Threads \ {t} : pc[u] \notin Initializing
    BY <2>1, OneInitializer DEF IInv, Initializing
  <2>3. \/ pc'[t] = "hardening" /\ Opening(t)
        \/ pc'[t] = "undoing" /\ call' = call
    BY <1>0 DEF Open, Goto, IInv, TypeOK
  <2> QED
    BY <2>1, <2>2, <2>3, PlacesAssumption DEF InitializationHolds, Initializing, Opening
<1> QED
  BY <1>1, <1>2, <1>3, <1>4, <1>5, <1>6 DEF IInv

LEMMA HardenFileStep ==
  ASSUME SingleProcess, NEW t \in Threads, IInv, HardenFile(t)
  PROVE  IInv'
<1>0. \/ /\ name # NoFile /\ name \in Files /\ Changing(name) /\ pc' = [pc EXCEPT ![t] = "creating"]
         /\ file'[name].private /\ file'[name].tables = file[name].tables
         /\ file'[name].rows = file[name].rows
      \/ file' = file /\ pc' = [pc EXCEPT ![t] = "undoing"]
  BY Hardening DEF HardenFile, Goto, IInv, TypeOK
<1>1. TypeOK'
  <2>1. /\ parent' \in {"absent", "open", "private"} /\ name' \in Files \cup {NoFile}
        /\ made' \in 0 .. MaxFiles
    BY PlacesAssumption, BoundsAssumption, <1>0 DEF HardenFile, Goto, IInv, TypeOK, Files,
       Changing
  <2>2. file' \in [Files -> Contents]
    BY PlacesAssumption, BoundsAssumption, <1>0 DEF HardenFile, Goto, IInv, TypeOK, Rows,
       Files, Calls, Changing
  <2>3. /\ writer' \in [Files -> Threads \cup {NoThread}]
        /\ initLock' \in [Processes -> Threads \cup {NoThread}] /\ ready' \subseteq Stores
    BY PlacesAssumption, BoundsAssumption, <1>0 DEF HardenFile, Goto, IInv, TypeOK, Process,
       Changing
  <2>4. pc' \in [Threads -> Labels]
    BY PlacesAssumption, BoundsAssumption, <1>0 DEF HardenFile, Goto, IInv, TypeOK, Labels,
       Initializing, Changing
  <2>5. call' \in [Threads -> Calls]
    BY PlacesAssumption, BoundsAssumption, <1>0 DEF HardenFile, Goto, IInv, TypeOK, Calls,
       Commands, Writes, Idle, Changing
  <2>6. calls' \in [Threads -> 0 .. MaxCalls] /\ result' \in [Threads -> Results]
    BY PlacesAssumption, BoundsAssumption, <1>0 DEF HardenFile, Goto, IInv, TypeOK, Results,
       NoResult, Writes, Calls, Changing
  <2> QED
    BY <2>1, <2>2, <2>3, <2>4, <2>5, <2>6 DEF TypeOK
<1>2. InitializerHasLock'
  BY SingleProcess, PlacesAssumption, OneInitializer, <1>0 DEF HardenFile, Goto, IInv,
     Changing, TypeOK, InitializerHasLock, Initializing, Labels, Process
<1>3. CommandIsKnown'
  BY <1>0 DEF HardenFile, Goto, IInv, Changing, TypeOK, CommandIsKnown, Calls, Commands,
     Writes, Idle, NoResult
<1>4. TablesAreNamed'
  BY PlacesAssumption, <1>0 DEF HardenFile, Goto, IInv, Changing, TypeOK, TablesAreNamed,
     StoreIsThere, InitializationHolds, Using, Empty
<1>5. StoreIsThere'
  BY <1>0 DEF HardenFile, Goto, IInv, Changing, TypeOK, StoreIsThere, Using
<1>6. InitializationHolds'
  BY SingleProcess, OneInitializer, <1>0 DEF HardenFile, Goto, IInv, Changing, TypeOK,
     InitializationHolds, Initializing
<1> QED
  BY <1>1, <1>2, <1>3, <1>4, <1>5, <1>6 DEF IInv

LEMMA CreateTablesStep ==
  ASSUME SingleProcess, NEW t \in Threads, IInv, CreateTables(t)
  PROVE  IInv'
<1>0. LET f == call[t].conn
      IN \/ /\ f \in Files /\ f = name /\ Changing(f)
            /\ file'[f].tables /\ file'[f].private = file[f].private
            /\ file'[f].rows = file[f].rows /\ file[f].private
            /\ ready' = ready \cup {StoreOf[t]} /\ pc' = [pc EXCEPT ![t] = "connecting"]
         \/ file' = file /\ ready' = ready /\ pc' = [pc EXCEPT ![t] = "undoing"]
  BY CreatingTables DEF CreateTables, Goto, IInv, TypeOK, InitializationHolds
<1>00. parent = "private" /\ parent' = parent /\ name' = name /\ call' = call
  BY DEF CreateTables, IInv, InitializationHolds
<1>1. TypeOK'
  <2>1. /\ parent' \in {"absent", "open", "private"} /\ name' \in Files \cup {NoFile}
        /\ made' \in 0 .. MaxFiles
    BY PlacesAssumption, BoundsAssumption, <1>0, <1>00 DEF CreateTables, Goto, LeaveInit,
       IInv, TypeOK, Files, Changing
  <2>2. file' \in [Files -> Contents]
    BY PlacesAssumption, BoundsAssumption, <1>0, <1>00 DEF CreateTables, Goto, LeaveInit,
       IInv, TypeOK, Rows, Files, Calls, Changing
  <2>3. /\ writer' \in [Files -> Threads \cup {NoThread}]
        /\ initLock' \in [Processes -> Threads \cup {NoThread}] /\ ready' \subseteq Stores
    BY PlacesAssumption, BoundsAssumption, <1>0, <1>00 DEF CreateTables, Goto, LeaveInit,
       IInv, TypeOK, Process, Changing
  <2>4. pc' \in [Threads -> Labels]
    BY PlacesAssumption, BoundsAssumption, <1>0, <1>00 DEF CreateTables, Goto, LeaveInit,
       IInv, TypeOK, Labels, Initializing, Changing
  <2>5. call' \in [Threads -> Calls]
    BY PlacesAssumption, BoundsAssumption, <1>0, <1>00 DEF CreateTables, Goto, LeaveInit,
       IInv, TypeOK, Calls, Commands, Writes, Idle, Changing
  <2>6. calls' \in [Threads -> 0 .. MaxCalls] /\ result' \in [Threads -> Results]
    BY PlacesAssumption, BoundsAssumption, <1>0, <1>00 DEF CreateTables, Goto, LeaveInit,
       IInv, TypeOK, Results, NoResult, Writes, Calls, Changing
  <2> QED
    BY <2>1, <2>2, <2>3, <2>4, <2>5, <2>6 DEF TypeOK
<1>2. InitializerHasLock'
  BY SingleProcess, PlacesAssumption, OneInitializer, <1>0, <1>00 DEF CreateTables, Goto,
     LeaveInit, IInv, Changing, TypeOK, InitializerHasLock, Initializing, Labels, Process
<1>3. CommandIsKnown'
  BY <1>0, <1>00 DEF CreateTables, Goto, LeaveInit, IInv, Changing, TypeOK, CommandIsKnown,
     Calls, Commands, Writes, Idle, NoResult
<1>4. TablesAreNamed'
  BY PlacesAssumption, <1>0, <1>00 DEF CreateTables, Goto, LeaveInit, IInv, Changing, TypeOK,
     TablesAreNamed, StoreIsThere, InitializationHolds, Using, Empty
<1>5. StoreIsThere'
  <2>1. name \in Files => name # NoFile
    BY PlacesAssumption
  <2>2. \A u \in Threads \ {t} : pc'[u] = pc[u]
    BY <1>0 DEF IInv, TypeOK
  <2>3. \/ name \in Files /\ file'[name].tables /\ pc'[t] = "connecting"
        \/ file' = file /\ ready' = ready /\ pc'[t] = "undoing"
    BY <1>0 DEF IInv, TypeOK
  <2> QED
    BY <1>00, <2>1, <2>2, <2>3 DEF IInv, StoreIsThere, Using
<1>6. InitializationHolds'
  BY SingleProcess, OneInitializer, <1>0, <1>00 DEF CreateTables, Goto, LeaveInit, IInv,
     Changing, TypeOK, InitializationHolds, Initializing
<1> QED
  BY <1>1, <1>2, <1>3, <1>4, <1>5, <1>6 DEF IInv

LEMMA UndoStep ==
  ASSUME SingleProcess, NEW t \in Threads, IInv, Undo(t)
  PROVE  IInv'
<1>0. Fail(t, "DATABASE_ERROR") => Returning(t)
  BY FailingReturns DEF IInv
<1>1. TypeOK'
  <2>1. /\ parent' \in {"absent", "open", "private"} /\ name' \in Files \cup {NoFile}
        /\ made' \in 0 .. MaxFiles
    BY PlacesAssumption, BoundsAssumption, <1>0 DEF Undo, LeaveInit, Goto, IInv, TypeOK,
       Files, Returning
  <2>2. file' \in [Files -> Contents]
    BY PlacesAssumption, BoundsAssumption, <1>0 DEF Undo, LeaveInit, Goto, IInv, TypeOK,
       Rows, Files, Calls, Returning
  <2>3. /\ writer' \in [Files -> Threads \cup {NoThread}]
        /\ initLock' \in [Processes -> Threads \cup {NoThread}] /\ ready' \subseteq Stores
    BY PlacesAssumption, BoundsAssumption, <1>0 DEF Undo, LeaveInit, Goto, IInv, TypeOK,
       Process, Returning
  <2>4. pc' \in [Threads -> Labels]
    BY PlacesAssumption, BoundsAssumption, <1>0 DEF Undo, LeaveInit, Goto, IInv, TypeOK,
       Labels, Initializing, Returning
  <2>5. call' \in [Threads -> Calls]
    BY PlacesAssumption, BoundsAssumption, <1>0 DEF Undo, LeaveInit, Goto, IInv, TypeOK,
       Calls, Commands, Writes, Idle, Returning
  <2>6. calls' \in [Threads -> 0 .. MaxCalls] /\ result' \in [Threads -> Results]
    BY PlacesAssumption, BoundsAssumption, <1>0 DEF Undo, LeaveInit, Goto, IInv, TypeOK,
       Results, NoResult, Writes, Calls, Returning
  <2> QED
    BY <2>1, <2>2, <2>3, <2>4, <2>5, <2>6 DEF TypeOK
<1>2. InitializerHasLock'
  BY SingleProcess, PlacesAssumption, OneInitializer, <1>0 DEF Undo, LeaveInit, Goto, IInv,
     Returning, TypeOK, InitializerHasLock, Initializing, Labels, Process
<1>3. CommandIsKnown'
  BY <1>0 DEF Undo, LeaveInit, Goto, IInv, Returning, TypeOK, CommandIsKnown, Calls, Commands,
     Writes, Idle, NoResult
<1>4. TablesAreNamed'
  BY PlacesAssumption, <1>0 DEF Undo, LeaveInit, Goto, IInv, Returning, TypeOK,
     TablesAreNamed, StoreIsThere, InitializationHolds, Using, Empty
<1>5. StoreIsThere'
  <2>1. /\ UNCHANGED << file, ready >> /\ pc'[t] = "idle"
        /\ \A u \in Threads \ {t} : pc'[u] = pc[u] /\ call'[u] = call[u]
    BY <1>0 DEF Undo, Returning
  <2>2. CASE name' = name
    BY <2>1, <2>2 DEF IInv, StoreIsThere, Using
  <2>3. CASE call[t].newFile
    <3>1. ready = {} /\ \A u \in Threads : pc[u] \notin Using
      BY <2>3 DEF Undo, IInv, TypeOK, StoreIsThere, InitializationHolds
    <3> QED
      BY <2>1, <3>1 DEF StoreIsThere, Using
  <2> QED
    BY <2>2, <2>3 DEF Undo
<1>6. InitializationHolds'
  BY SingleProcess, OneInitializer, <1>0 DEF Undo, LeaveInit, Goto, IInv, Returning, TypeOK,
     InitializationHolds, Initializing
<1> QED
  BY <1>1, <1>2, <1>3, <1>4, <1>5, <1>6 DEF IInv

LEMMA ConnectStep ==
  ASSUME SingleProcess, NEW t \in Threads, IInv, Connect(t)
  PROVE  IInv'
<1>0. OpenFile(t) => Opening(t)
  BY OpeningAFile DEF IInv
<1>00. Fail(t, "DATABASE_ERROR") => Returning(t)
  BY FailingReturns DEF IInv
<1>1. TypeOK'
  <2>1. /\ parent' \in {"absent", "open", "private"} /\ name' \in Files \cup {NoFile}
        /\ made' \in 0 .. MaxFiles
    BY PlacesAssumption, BoundsAssumption, <1>0, <1>00 DEF Connect, NoOpen, Goto, IInv,
       TypeOK, Files, Opening, Returning
  <2>2. file' \in [Files -> Contents]
    BY PlacesAssumption, BoundsAssumption, <1>0, <1>00 DEF Connect, NoOpen, Goto, IInv,
       TypeOK, Rows, Files, Calls, Opening, Returning
  <2>3. /\ writer' \in [Files -> Threads \cup {NoThread}]
        /\ initLock' \in [Processes -> Threads \cup {NoThread}] /\ ready' \subseteq Stores
    BY PlacesAssumption, BoundsAssumption, <1>0, <1>00 DEF Connect, NoOpen, Goto, IInv,
       TypeOK, Process, Opening, Returning
  <2>4. pc' \in [Threads -> Labels]
    BY PlacesAssumption, BoundsAssumption, <1>0, <1>00 DEF Connect, NoOpen, Goto, IInv,
       TypeOK, Labels, Initializing, Opening, Returning
  <2>5. call' \in [Threads -> Calls]
    BY PlacesAssumption, BoundsAssumption, <1>0, <1>00 DEF Connect, NoOpen, Goto, IInv,
       TypeOK, Calls, Commands, Writes, Idle, Opening, Returning
  <2>6. calls' \in [Threads -> 0 .. MaxCalls] /\ result' \in [Threads -> Results]
    BY PlacesAssumption, BoundsAssumption, <1>0, <1>00 DEF Connect, NoOpen, Goto, IInv,
       TypeOK, Results, NoResult, Writes, Calls, Opening, Returning
  <2> QED
    BY <2>1, <2>2, <2>3, <2>4, <2>5, <2>6 DEF TypeOK
<1>2. InitializerHasLock'
  BY SingleProcess, PlacesAssumption, OneInitializer, <1>0, <1>00 DEF Connect, NoOpen, Goto,
     IInv, Opening, Returning, TypeOK, InitializerHasLock, Initializing, Labels, Process
<1>3. CommandIsKnown'
  BY <1>0, <1>00 DEF Connect, NoOpen, Goto, IInv, Opening, Returning, TypeOK, CommandIsKnown,
     Calls, Commands, Writes, Idle, NoResult
<1>4. TablesAreNamed'
  BY PlacesAssumption, <1>0, <1>00 DEF Connect, NoOpen, Goto, IInv, Opening, Returning,
     TypeOK, TablesAreNamed, StoreIsThere, InitializationHolds, Using, Empty
<1>5. StoreIsThere'
  BY <1>0, <1>00 DEF Connect, NoOpen, Goto, IInv, Opening, Returning, TypeOK, StoreIsThere,
     Using
<1>6. InitializationHolds'
  BY SingleProcess, OneInitializer, <1>0, <1>00 DEF Connect, NoOpen, Goto, IInv, Opening,
     Returning, TypeOK, InitializationHolds, Initializing
<1> QED
  BY <1>1, <1>2, <1>3, <1>4, <1>5, <1>6 DEF IInv

LEMMA BeginStep ==
  ASSUME SingleProcess, NEW t \in Threads, IInv, Begin(t)
  PROVE  IInv'
<1>0. Fail(t, "DATABASE_ERROR") => Returning(t)
  BY FailingReturns DEF IInv
<1>1. TypeOK'
  <2>1. /\ parent' \in {"absent", "open", "private"} /\ name' \in Files \cup {NoFile}
        /\ made' \in 0 .. MaxFiles
    BY PlacesAssumption, BoundsAssumption, <1>0 DEF Begin, Goto, IInv, TypeOK, Files,
       Returning
  <2>2. file' \in [Files -> Contents]
    BY PlacesAssumption, BoundsAssumption, <1>0 DEF Begin, Goto, IInv, TypeOK, Rows, Files,
       Calls, Returning
  <2>3. /\ writer' \in [Files -> Threads \cup {NoThread}]
        /\ initLock' \in [Processes -> Threads \cup {NoThread}] /\ ready' \subseteq Stores
    BY PlacesAssumption, BoundsAssumption, <1>0 DEF Begin, Goto, IInv, TypeOK, Process,
       Returning
  <2>4. pc' \in [Threads -> Labels]
    BY PlacesAssumption, BoundsAssumption, <1>0 DEF Begin, Goto, IInv, TypeOK, Labels,
       Initializing, Returning
  <2>5. call' \in [Threads -> Calls]
    BY PlacesAssumption, BoundsAssumption, <1>0 DEF Begin, Goto, IInv, TypeOK, Calls,
       Commands, Writes, Idle, Returning
  <2>6. calls' \in [Threads -> 0 .. MaxCalls] /\ result' \in [Threads -> Results]
    BY PlacesAssumption, BoundsAssumption, <1>0 DEF Begin, Goto, IInv, TypeOK, Results,
       NoResult, Writes, Calls, Returning
  <2> QED
    BY <2>1, <2>2, <2>3, <2>4, <2>5, <2>6 DEF TypeOK
<1>2. InitializerHasLock'
  BY SingleProcess, PlacesAssumption, OneInitializer, <1>0 DEF Begin, Goto, IInv, Returning,
     TypeOK, InitializerHasLock, Initializing, Labels, Process
<1>3. CommandIsKnown'
  BY <1>0 DEF Begin, Goto, IInv, Returning, TypeOK, CommandIsKnown, Calls, Commands, Writes,
     Idle, NoResult
<1>4. TablesAreNamed'
  BY PlacesAssumption, <1>0 DEF Begin, Goto, IInv, Returning, TypeOK, TablesAreNamed,
     StoreIsThere, InitializationHolds, Using, Empty
<1>5. StoreIsThere'
  BY <1>0 DEF Begin, Goto, IInv, Returning, TypeOK, StoreIsThere, Using
<1>6. InitializationHolds'
  BY SingleProcess, OneInitializer, <1>0 DEF Begin, Goto, IInv, Returning, TypeOK,
     InitializationHolds, Initializing
<1> QED
  BY <1>1, <1>2, <1>3, <1>4, <1>5, <1>6 DEF IInv

LEMMA TransactStep ==
  ASSUME SingleProcess, NEW t \in Threads, IInv, Transact(t)
  PROVE  IInv'
<1>0. DEFINE f == call[t].conn
             op == call[t].op
             i == call[t].id
<1>01. /\ op \in Writes \cup {"clear"} /\ i \in Ids
      /\ f \in Files /\ f = name /\ file[f].tables /\ file[f].rows \in [Ids -> Rows]
  BY DEF Transact, IInv, TypeOK, CommandIsKnown, Commands, StoreIsThere, Using, Contents
<1>02. Returning(t)
  <2>1. [code |-> "OK", op |-> op, id |-> i] \in Results
    BY <1>01 DEF Results
  <2> QED
    BY <2>1, ReturningResult, FailingReturns DEF Transact, IInv
<1>03. \/ file' = file
      \/ /\ Changing(f) /\ file'[f].private = file[f].private
         /\ file'[f].tables = file[f].tables
  <2>1. CASE Found(op, i, file[f].rows) /\ file' = [file EXCEPT ![f].rows = Effect(op, i, @)]
    BY <1>01, <2>1, EffectIsRows, WritingRows DEF IInv
  <2>2. CASE file' = file
    BY <2>2
  <2> QED
    BY <2>1, <2>2 DEF Transact
<1> HIDE DEF f, op, i
<1>1. TypeOK'
  <2>1. /\ parent' \in {"absent", "open", "private"} /\ name' \in Files \cup {NoFile}
        /\ made' \in 0 .. MaxFiles
    BY PlacesAssumption, BoundsAssumption, <1>01, <1>02, <1>03 DEF Transact, Found, IInv,
       TypeOK, Files, Returning, Changing, f, op, i
  <2>2. file' \in [Files -> Contents]
    BY PlacesAssumption, BoundsAssumption, <1>01, <1>02, <1>03 DEF Transact, Found, IInv,
       TypeOK, Rows, Files, Calls, Returning, Changing, f, op, i
  <2>3. /\ writer' \in [Files -> Threads \cup {NoThread}]
        /\ initLock' \in [Processes -> Threads \cup {NoThread}] /\ ready' \subseteq Stores
    BY PlacesAssumption, BoundsAssumption, <1>01, <1>02, <1>03 DEF Transact, Found, IInv,
       TypeOK, Process, Returning, Changing, f, op, i
  <2>4. pc' \in [Threads -> Labels]
    BY PlacesAssumption, BoundsAssumption, <1>01, <1>02, <1>03 DEF Transact, Found, IInv,
       TypeOK, Labels, Initializing, Returning, Changing, f, op, i
  <2>5. call' \in [Threads -> Calls]
    BY PlacesAssumption, BoundsAssumption, <1>01, <1>02, <1>03 DEF Transact, Found, IInv,
       TypeOK, Calls, Commands, Writes, Idle, Returning, Changing, f, op, i
  <2>6. calls' \in [Threads -> 0 .. MaxCalls] /\ result' \in [Threads -> Results]
    BY PlacesAssumption, BoundsAssumption, <1>01, <1>02, <1>03 DEF Transact, Found, IInv,
       TypeOK, Results, NoResult, Writes, Calls, Returning, Changing, f, op, i
  <2> QED
    BY <2>1, <2>2, <2>3, <2>4, <2>5, <2>6 DEF TypeOK
<1>2. InitializerHasLock'
  BY SingleProcess, PlacesAssumption, OneInitializer, <1>01, <1>02, <1>03 DEF Transact, Found,
     IInv, Returning, Changing, f, op, i, TypeOK, InitializerHasLock, Initializing, Labels,
     Process
<1>3. CommandIsKnown'
  BY <1>01, <1>02, <1>03 DEF Transact, Found, IInv, Returning, Changing, f, op, i, TypeOK,
     CommandIsKnown, Calls, Commands, Writes, Idle, NoResult
<1>4. TablesAreNamed'
  BY PlacesAssumption, <1>01, <1>02, <1>03 DEF Transact, Found, IInv, Returning, Changing, f,
     op, i, TypeOK, TablesAreNamed, StoreIsThere, InitializationHolds, Using, Empty
<1>5. StoreIsThere'
  BY <1>01, <1>02, <1>03 DEF Transact, Found, IInv, Returning, Changing, f, op, i, TypeOK,
     StoreIsThere, Using
<1>6. InitializationHolds'
  BY SingleProcess, OneInitializer, <1>01, <1>02, <1>03 DEF Transact, Found, IInv, Returning,
     Changing, f, op, i, TypeOK, InitializationHolds, Initializing
<1> QED
  BY <1>1, <1>2, <1>3, <1>4, <1>5, <1>6 DEF IInv

LEMMA ReadStep ==
  ASSUME SingleProcess, NEW t \in Threads, IInv, Read(t)
  PROVE  IInv'
<1>0. Returning(t)
  <2>1. ASSUME NEW S \in SUBSET Ids
        PROVE  [code |-> "OK", op |-> "list", active |-> S] \in Results
    BY DEF Results
  <2> QED
    BY <2>1, ReturningResult, FailingReturns DEF Read, IInv
<1>1. TypeOK'
  <2>1. /\ parent' \in {"absent", "open", "private"} /\ name' \in Files \cup {NoFile}
        /\ made' \in 0 .. MaxFiles
    BY PlacesAssumption, BoundsAssumption, <1>0 DEF Read, IInv, TypeOK, Files, Returning
  <2>2. file' \in [Files -> Contents]
    BY PlacesAssumption, BoundsAssumption, <1>0 DEF Read, IInv, TypeOK, Rows, Files, Calls,
       Returning
  <2>3. /\ writer' \in [Files -> Threads \cup {NoThread}]
        /\ initLock' \in [Processes -> Threads \cup {NoThread}] /\ ready' \subseteq Stores
    BY PlacesAssumption, BoundsAssumption, <1>0 DEF Read, IInv, TypeOK, Process, Returning
  <2>4. pc' \in [Threads -> Labels]
    BY PlacesAssumption, BoundsAssumption, <1>0 DEF Read, IInv, TypeOK, Labels,
       Initializing, Returning
  <2>5. call' \in [Threads -> Calls]
    BY PlacesAssumption, BoundsAssumption, <1>0 DEF Read, IInv, TypeOK, Calls, Commands,
       Writes, Idle, Returning
  <2>6. calls' \in [Threads -> 0 .. MaxCalls] /\ result' \in [Threads -> Results]
    BY PlacesAssumption, BoundsAssumption, <1>0 DEF Read, IInv, TypeOK, Results, NoResult,
       Writes, Calls, Returning
  <2> QED
    BY <2>1, <2>2, <2>3, <2>4, <2>5, <2>6 DEF TypeOK
<1>2. InitializerHasLock'
  BY SingleProcess, PlacesAssumption, OneInitializer, <1>0 DEF Read, IInv, Returning, TypeOK,
     InitializerHasLock, Initializing, Labels, Process
<1>3. CommandIsKnown'
  BY <1>0 DEF Read, IInv, Returning, TypeOK, CommandIsKnown, Calls, Commands, Writes, Idle,
     NoResult
<1>4. TablesAreNamed'
  BY PlacesAssumption, <1>0 DEF Read, IInv, Returning, TypeOK, TablesAreNamed, StoreIsThere,
     InitializationHolds, Using, Empty
<1>5. StoreIsThere'
  BY <1>0 DEF Read, IInv, Returning, TypeOK, StoreIsThere, Using
<1>6. InitializationHolds'
  BY SingleProcess, OneInitializer, <1>0 DEF Read, IInv, Returning, TypeOK,
     InitializationHolds, Initializing
<1> QED
  BY <1>1, <1>2, <1>3, <1>4, <1>5, <1>6 DEF IInv

LEMMA CrashStep ==
  ASSUME SingleProcess, NEW p \in Processes, IInv, Crash(p)
  PROVE  IInv'
<1>1. TypeOK'
  <2>1. /\ parent' \in {"absent", "open", "private"} /\ name' \in Files \cup {NoFile}
        /\ made' \in 0 .. MaxFiles
    BY PlacesAssumption, BoundsAssumption DEF Crash, IInv, TypeOK, Files
  <2>2. file' \in [Files -> Contents]
    BY PlacesAssumption, BoundsAssumption DEF Crash, IInv, TypeOK, Rows, Files, Calls
  <2>3. /\ writer' \in [Files -> Threads \cup {NoThread}]
        /\ initLock' \in [Processes -> Threads \cup {NoThread}] /\ ready' \subseteq Stores
    BY PlacesAssumption, BoundsAssumption DEF Crash, IInv, TypeOK, Process
  <2>4. pc' \in [Threads -> Labels]
    BY PlacesAssumption, BoundsAssumption DEF Crash, IInv, TypeOK, Labels, Initializing
  <2>5. call' \in [Threads -> Calls]
    BY PlacesAssumption, BoundsAssumption DEF Crash, IInv, TypeOK, Calls, Commands, Writes,
       Idle
  <2>6. calls' \in [Threads -> 0 .. MaxCalls] /\ result' \in [Threads -> Results]
    BY PlacesAssumption, BoundsAssumption DEF Crash, IInv, TypeOK, Results, NoResult,
       Writes, Calls
  <2> QED
    BY <2>1, <2>2, <2>3, <2>4, <2>5, <2>6 DEF TypeOK
<1>2. InitializerHasLock'
  BY SingleProcess, PlacesAssumption, OneInitializer DEF Crash, IInv, TypeOK,
     InitializerHasLock, Initializing, Labels, Process
<1>3. CommandIsKnown'
  BY DEF Crash, IInv, TypeOK, CommandIsKnown, Calls, Commands, Writes, Idle, NoResult
<1>4. TablesAreNamed'
  BY PlacesAssumption DEF Crash, IInv, TypeOK, TablesAreNamed, StoreIsThere,
     InitializationHolds, Using, Empty
<1>5. StoreIsThere'
  BY DEF Crash, IInv, TypeOK, StoreIsThere, Using
<1>6. InitializationHolds'
  BY SingleProcess, OneInitializer DEF Crash, IInv, TypeOK, InitializationHolds, Initializing
<1> QED
  BY <1>1, <1>2, <1>3, <1>4, <1>5, <1>6 DEF IInv

LEMMA NextIInv == SingleProcess /\ IInv /\ [Next]_vars => IInv'
<1> SUFFICES ASSUME SingleProcess, IInv, [Next]_vars PROVE IInv'
  OBVIOUS
<1>1. CASE UNCHANGED vars
  BY <1>1 DEF vars, IInv, TypeOK, InitializerHasLock, CommandIsKnown, TablesAreNamed, StoreIsThere,
     InitializationHolds
<1>2. ASSUME NEW t \in Threads, Call(t) \/ Initialize(t) \/ Execute(t) PROVE IInv'
  BY <1>2, CallStep, EnterInitStep, MakeParentStep, HardenParentStep, LookStep, OpenStep,
     HardenFileStep, CreateTablesStep, UndoStep, ConnectStep, BeginStep, TransactStep, ReadStep
     DEF Initialize, Execute
<1>3. ASSUME NEW p \in Processes, Crash(p) PROVE IInv'
  BY <1>3, CrashStep
<1> QED
  BY <1>1, <1>2, <1>3 DEF Next

(* The inductive invariant holds in every state of a single process, which   *)
(* may crash and start again at any time.                                    *)
THEOREM Invariance == SingleProcess => (Spec => []IInv)
<1> SUFFICES ASSUME SingleProcess PROVE Spec => []IInv
  OBVIOUS
<1>1. Init => IInv
  BY InitIInv
<1>2. IInv /\ [Next]_vars => IInv'
  BY NextIInv
<1> QED
  BY <1>1, <1>2, PTL DEF Spec

(* Every variable keeps its type: a command reads no half-written row.       *)
THEOREM TypeCorrect == SingleProcess => (Spec => []TypeOK)
<1>1. IInv => TypeOK
  BY DEF IInv
<1> QED
  BY Invariance, <1>1, PTL

(* A correction lies only where the user alone can read it: the file and the *)
(* directory are private before the first row is written.                    *)
THEOREM ContentAlwaysPrivate == SingleProcess => (Spec => []ContentIsPrivate)
<1>1. IInv => ContentIsPrivate
  BY DEF IInv, TablesAreNamed, ContentIsPrivate
<1> QED
  BY Invariance, <1>1, PTL

(* A command that reports success has written to, or read from, the file     *)
(* that later commands will open.                                            *)
THEOREM SuccessAlwaysReachesTheStore == SingleProcess => (Spec => SuccessReachesTheStore)
<1>1. ASSUME IInv, [Next]_vars, NEW t \in Threads, result'[t] # result[t], result'[t].code = "OK"
      PROVE  call[t].conn = name
  <2>1. CASE Transact(t) \/ Read(t)
    <3>1. pc[t] \in {"executing", "reading"}
      BY <2>1 DEF Transact, Read
    <3> QED
      BY <1>1, <3>1 DEF IInv, StoreIsThere, Using
  <2>2. ASSUME NEW u \in Threads, NEW r, result' = [result EXCEPT ![u] = r], u # t PROVE FALSE
    BY <1>1, <2>2 DEF IInv, TypeOK
  <2>3. ASSUME NEW code, result' = [result EXCEPT ![t] = [code |-> code]], code # "OK" PROVE FALSE
    BY <1>1, <2>3 DEF IInv, TypeOK
  <2>4. ASSUME NEW u \in Threads, Call(u) \/ Initialize(u) \/ Connect(u) \/ Begin(u) PROVE FALSE
    <3>1. \/ result' = result
          \/ \E code \in {"none", "DATABASE_ERROR", "STORAGE_PERMISSION_DENIED"} :
                result' = [result EXCEPT ![u] = [code |-> code]]
      BY <2>4 DEF Call, Initialize, EnterInit, MakeParent, HardenParent, Look, Open, HardenFile,
         CreateTables, Undo, Connect, Begin, Fail, Return, NoResult
    <3> QED
      BY <1>1, <2>2, <2>3, <3>1
  <2>5. ASSUME NEW u \in Threads, Transact(u) \/ Read(u), u # t PROVE FALSE
    <3>1. \E r : result' = [result EXCEPT ![u] = r]
      BY <2>5 DEF Transact, Read, Fail, Return
    <3> QED
      BY <2>2, <2>5, <3>1
  <2>6. ASSUME NEW p \in Processes, Crash(p) PROVE FALSE
    BY <1>1, <2>6 DEF Crash
  <2>7. CASE UNCHANGED vars
    BY <1>1, <2>7 DEF vars
  <2> QED
    BY <1>1, <2>1, <2>4, <2>5, <2>6, <2>7 DEF Next, Execute
<1>2. IInv /\ [Next]_vars => [\A t \in Threads : (result'[t] # result[t] /\ result'[t].code = "OK")
                                => call[t].conn = name]_vars
  BY <1>1
<1> QED
  BY Invariance, <1>2, PTL DEF Spec, SuccessReachesTheStore

(* What a command does to the rows that others see: nothing, or the whole of *)
(* what it was asked to do.                                                  *)
LEMMA TransactionIsVisible ==
  ASSUME IInv, NEW t \in Threads, Transact(t)
  PROVE  \/ Visible' = Visible
         \/ /\ call[t].op \in Writes \cup {"clear"} /\ call[t].id \in Ids
            /\ Visible \in [Ids -> Rows]
            /\ Found(call[t].op, call[t].id, Visible)
            /\ Visible' = Effect(call[t].op, call[t].id, Visible)
            /\ result'[t] = [code |-> "OK", op |-> call[t].op, id |-> call[t].id]
<1> DEFINE f == call[t].conn
           op == call[t].op
           i == call[t].id
<1>1. /\ op \in Writes \cup {"clear"} /\ i \in Ids
      /\ f \in Files /\ f = name /\ name # NoFile /\ file[f].rows \in [Ids -> Rows]
  BY DEF Transact, IInv, TypeOK, CommandIsKnown, Commands, StoreIsThere, Using, Contents
<1>2. Visible = file[f].rows /\ Visible' = file'[f].rows
  BY <1>1 DEF Transact, Visible
<1>3. CASE file' = file
  BY <1>2, <1>3
<1>4. CASE /\ Found(op, i, file[f].rows)
           /\ file' = [file EXCEPT ![f].rows = Effect(op, i, @)]
           /\ Return(t, [code |-> "OK", op |-> op, id |-> i])
  <2>1. file'[f].rows = Effect(op, i, file[f].rows)
    BY <1>1, <1>4, EffectIsRows, WritingRows DEF IInv
  <2>2. result'[t] = [code |-> "OK", op |-> op, id |-> i]
    BY <1>4 DEF Return, IInv, TypeOK
  <2> QED
    BY <1>1, <1>2, <1>4, <2>1, <2>2
<1> QED
  BY <1>3, <1>4 DEF Transact

(* No other step of one process changes what is seen: a file that gets or    *)
(* loses the name has no rows.                                               *)
LEMMA OthersAreInvisible ==
  ASSUME IInv, [Next]_vars, \A t \in Threads : ~Transact(t)
  PROVE  Visible' = Visible
<1>1. /\ NoFile \notin Files
      /\ \A f \in Files : ~file[f].tables => file[f].rows = Empty
      /\ name = NoFile => \A f \in Files : ~file[f].tables
  BY PlacesAssumption DEF IInv, TablesAreNamed
<1>2. CASE UNCHANGED << name, file >>
  BY <1>2 DEF Visible
<1>3. ASSUME NEW t \in Threads, OpenFile(t), file' = file PROVE Visible' = Visible
  <2>1. Opening(t)
    BY <1>3, OpeningAFile DEF IInv
  <2> QED
    BY <1>1, <1>3, <2>1 DEF Opening, Visible
<1>4. ASSUME NEW t \in Threads, HardenFile(t) PROVE Visible' = Visible
  <2>1. name' = name
    BY <1>4 DEF HardenFile
  <2>2. name # NoFile => file'[name].rows = file[name].rows
    BY <1>4, Hardening DEF HardenFile, IInv, TypeOK
  <2> QED
    BY <2>1, <2>2 DEF Visible
<1>5. ASSUME NEW t \in Threads, CreateTables(t) PROVE Visible' = Visible
  <2>1. name' = name
    BY <1>5 DEF CreateTables
  <2>2. call[t].conn = name /\ name \in Files
    BY <1>5 DEF CreateTables, IInv, TypeOK, InitializationHolds
  <2>3. file'[name].rows = file[name].rows
    BY <1>5, <2>2, CreatingTables DEF CreateTables, IInv
  <2> QED
    BY <2>1, <2>3 DEF Visible
<1>6. ASSUME NEW t \in Threads, Undo(t) PROVE Visible' = Visible
  <2>1. CASE name' = name
    BY <1>6, <2>1 DEF Undo, Visible
  <2>2. CASE name' = NoFile /\ call[t].newFile
    <3>1. \A f \in Files : file[f].rows = Empty
      BY <1>1, <1>6, <2>2 DEF Undo, IInv, InitializationHolds
    <3> QED
      BY <2>2, <3>1 DEF Visible, IInv, TypeOK
  <2> QED
    BY <1>6, <2>1, <2>2 DEF Undo
<1>7. ASSUME NEW t \in Threads, Call(t) \/ Initialize(t) \/ Execute(t) PROVE Visible' = Visible
  <2>1. CASE Open(t) \/ Connect(t)
    BY <1>2, <1>3, <2>1 DEF Open, Connect, NoOpen
  <2>2. CASE \/ Call(t) \/ EnterInit(t) \/ MakeParent(t) \/ HardenParent(t) \/ Look(t)
             \/ Begin(t) \/ Read(t)
    BY <1>2, <2>2 DEF Call, EnterInit, MakeParent, HardenParent, Look, Begin, Read
  <2> QED
    BY <1>4, <1>5, <1>6, <1>7, <2>1, <2>2 DEF Initialize, Execute
<1>8. ASSUME NEW p \in Processes, Crash(p) PROVE Visible' = Visible
  BY <1>2, <1>8 DEF Crash
<1> QED
  BY <1>2, <1>7, <1>8 DEF Next, vars

(* Seen through the database path every command is one step of a map, and    *)
(* failures, crashes and waiting are invisible.                              *)
THEOREM CommandsAreAtomic == SingleProcess => (Spec => ImplementsCorrectionMap)
<1>1. Init => Map!Init
  BY DEF Init, Map!Init, Visible, Empty
<1>2. ASSUME IInv, [Next]_vars PROVE [Map!Next]_Visible
  <2>1. CASE Visible' = Visible
    BY <2>1
  <2>2. ASSUME NEW op \in Writes \cup {"clear"}, NEW i \in Ids, Visible \in [Ids -> Rows],
               Found(op, i, Visible), Visible' = Effect(op, i, Visible)
        PROVE  Map!Next
    <3>1. CASE op = "clear"
      BY <2>2, <3>1 DEF Effect, Empty, Map!Next, Map!Clear
    <3>2. CASE op = "record"
      BY <2>2, <3>2 DEF Effect, NewRow, Row, Map!Next, Map!Record, Map!Row
    <3>3. CASE op = "revoke"
      <4>1. Map!SetStatus(i, "revoked")
        BY <2>2, <3>3 DEF Effect, NewRow, Row, Found, Map!SetStatus, Map!Row
      <4> QED
        BY <4>1 DEF Map!Next
    <3>4. CASE op = "restore"
      <4>1. Map!SetStatus(i, "active")
        BY <2>2, <3>4 DEF Effect, NewRow, Row, Found, Map!SetStatus, Map!Row
      <4> QED
        BY <4>1 DEF Map!Next
    <3>5. CASE op = "delete"
      BY <2>2, <3>5 DEF Effect, NewRow, Map!Next, Map!Delete
    <3> QED
      BY <3>1, <3>2, <3>3, <3>4, <3>5 DEF Writes
  <2>3. ASSUME NEW t \in Threads, Transact(t) PROVE [Map!Next]_Visible
    BY <1>2, <2>1, <2>2, <2>3, TransactionIsVisible
  <2> QED
    BY <1>2, <2>1, <2>3, OthersAreInvisible
<1> QED
  BY Invariance, <1>1, <1>2, PTL DEF Spec, ImplementsCorrectionMap, Map!Spec

(* In one process a correction leaves the store only with a deletion or a    *)
(* clearing that its caller was told of.                                     *)
THEOREM CorrectionsOnlyLeaveByCommand == SingleProcess => (Spec => CorrectionsLeaveOnlyByCommand)
<1>1. ASSUME IInv, [Next]_vars, NEW i \in Ids, Visible[i] # NoRow, Visible'[i] = NoRow
      PROVE  \E t \in Threads : /\ result'[t] # result[t]
                                /\ result'[t].code = "OK"
                                /\ \/ result'[t].op = "clear"
                                   \/ result'[t].op = "delete" /\ result'[t].id = i
  <2>1. PICK t \in Threads : Transact(t)
    BY <1>1, OthersAreInvisible
  <2>2. /\ call[t].op \in Writes \cup {"clear"} /\ call[t].id \in Ids
        /\ Visible \in [Ids -> Rows]
        /\ Found(call[t].op, call[t].id, Visible)
        /\ Visible' = Effect(call[t].op, call[t].id, Visible)
        /\ result'[t] = [code |-> "OK", op |-> call[t].op, id |-> call[t].id]
    BY <1>1, <2>1, TransactionIsVisible
  <2>3. result'[t] # result[t]
    <3>1. result[t] = NoResult
      BY <1>1, <2>1 DEF Transact, IInv, CommandIsKnown
    <3> QED
      BY <2>2, <3>1 DEF NoResult
  <2>4. call[t].op # "clear" => call[t].id = i
    BY <1>1, <2>2 DEF Effect
  <2>5. ASSUME call[t].op \in {"record", "revoke", "restore"} PROVE FALSE
    <3>1. Visible[i] \in [status : {"active", "revoked"}, version : Nat \ {0}]
      BY <1>1, <2>2 DEF Rows
    <3>2. Visible'[i] = NewRow(call[t].op, Visible[i])
      BY <1>1, <2>2, <2>4, <2>5 DEF Effect
    <3>3. NewRow(call[t].op, Visible[i]) \in [status : {"active", "revoked"}, version : Nat]
      BY <1>1, <2>5, <3>1 DEF NewRow, Row
    <3> QED
      BY <1>1, <3>2, <3>3, PlacesAssumption
  <2> QED
    BY <2>1, <2>2, <2>3, <2>4, <2>5 DEF Writes
<1>2. IInv /\ [Next]_vars =>
        [\A i \in Ids : (Visible[i] # NoRow /\ Visible'[i] = NoRow) =>
            \E t \in Threads : /\ result'[t] # result[t]
                               /\ result'[t].code = "OK"
                               /\ \/ result'[t].op = "clear"
                                  \/ result'[t].op = "delete" /\ result'[t].id = i]_vars
  BY <1>1
<1> QED
  BY Invariance, <1>2, PTL DEF Spec, CorrectionsLeaveOnlyByCommand

=============================================================================
