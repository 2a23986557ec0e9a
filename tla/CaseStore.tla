------------------------------ MODULE CaseStore ------------------------------
(***************************************************************************)
(* What the services of the whistleblowing API share: the PostgreSQL       *)
(* tables of prisma/schema.prisma with the constraints the database        *)
(* enforces, the R2 bucket of src/r2, and the HTTP requests in flight.     *)
(*                                                                         *)
(* A request is one run of a controller method.  Node runs one             *)
(* continuation at a time, so code between two awaits is atomic, and a     *)
(* request moves by one action per awaited call that reads or writes       *)
(* shared state.  No handler of these services opens a transaction around  *)
(* two calls: any other request can run in between.                        *)
(***************************************************************************)
EXTENDS Naturals

CONSTANTS
  Request,     \* requests; each is used for one call, which bounds a run
  Incident,    \* uuids the database may give to an Incident row
  File,        \* uploaded files, each sent by at most one request
  Handler,     \* users an incident can be assigned to
  Code,        \* values secretCodeService.generateCode can return
  FileName,    \* original names of files
  NameOf,      \* NameOf[f] is the original name of file f
  EmptyFiles,  \* files of size 0
  MaxTime,     \* bound on the clock, in ticks of Date.now()
  Ops,         \* the operations clients use in this instance
  ArrayIndex,  \* an array index used as an object key
  None

Time == 0..MaxTime
Key == Time \X FileName

ASSUME StoreAssumption ==
  /\ MaxTime \in Nat
  /\ NameOf \in [File -> FileName]
  /\ EmptyFiles \subseteq File
  /\ None \notin Request /\ None \notin Incident /\ None \notin File
  /\ None \notin Code /\ None \notin Key
  /\ ArrayIndex \notin Key

VARIABLES
  life,      \* life[i]: is there an Incident row i
  code,      \* code[i]: incidentIdDisplay of row i
  author,    \* author[i]: the request that inserted row i, whose secret
             \*            code is the one secretCodeHash verifies
  saved,     \* saved[f]: incidentId of the Attachment row of file f
  posted,    \* posted[r]: incidentId of the Message row request r inserted
  assigned,  \* the incident_handlers rows, as pairs <<incident, handler>>
  auditLog,  \* requests that wrote an AuditLog row
  mailbox,   \* requests whose assignment email was sent
  keyOf,     \* keyOf[f]: object key uploadFile computed for f
  bucket,    \* bucket[k]: the file stored under key k
  now,       \* Date.now()
  pc, op,    \* where request r is, and which operation it runs
  target,    \* target[r]: the incident request r works on
  files,     \* files[r]: the files it sends, or those whose rows a deletion
             \*           has read
  todo,      \* todo[r]: those of files[r] its loop has still to handle
  staff,     \* staff[r]: the handlers it names
  cred       \* cred[r]: the report whose codes or token it presents, named
             \*          by the request that created it

incidentTable == <<life, code, author>>
evidence == <<saved, keyOf, bucket>>
caseTables == <<posted, assigned, auditLog, mailbox>>
store == <<incidentTable, evidence, caseTables, now>>
inputs == <<target, files, staff, cred>>
vars == <<store, pc, op, inputs, todo>>

Step == {"idle", "insert", "write", "files", "row", "keys", "remove", "erase",
         "find", "put", "assign", "assignMany", "notify", "deassign",
         "message", "verify", "renew", "issue", "sign", "ok", "failed"}

TypeOK ==
  /\ life \in [Incident -> {"unborn", "live", "deleted"}]
  /\ code \in [Incident -> Code \cup {None}]
  /\ author \in [Incident -> Request \cup {None}]
  /\ saved \in [File -> Incident \cup {None}]
  /\ posted \in [Request -> Incident \cup {None}]
  /\ assigned \subseteq Incident \X Handler
  /\ auditLog \subseteq Request
  /\ mailbox \subseteq Request
  /\ keyOf \in [File -> Key \cup {None}]
  /\ bucket \in [Key -> File \cup {None}]
  /\ now \in Time
  /\ pc \in [Request -> Step]
  /\ op \in [Request -> Ops \cup {None}]
  /\ target \in [Request -> Incident \cup {None}]
  /\ files \in [Request -> SUBSET File]
  /\ todo \in [Request -> SUBSET File]
  /\ staff \in [Request -> SUBSET Handler]
  /\ cred \in [Request -> Request \cup {None}]

Init ==
  /\ life = [i \in Incident |-> "unborn"]
  /\ code = [i \in Incident |-> None]
  /\ author = [i \in Incident |-> None]
  /\ saved = [f \in File |-> None]
  /\ posted = [r \in Request |-> None]
  /\ assigned = {} /\ auditLog = {} /\ mailbox = {}
  /\ keyOf = [f \in File |-> None]
  /\ bucket = [k \in Key |-> None]
  /\ now = 0
  /\ pc = [r \in Request |-> "idle"]
  /\ op = [r \in Request |-> None]
  /\ target = [r \in Request |-> None]
  /\ files = [r \in Request |-> {}]
  /\ todo = [r \in Request |-> {}]
  /\ staff = [r \in Request |-> {}]
  /\ cred = [r \in Request |-> None]

-----------------------------------------------------------------------------
(* SQL statements.  Each conjoins the constraints that make PostgreSQL     *)
(* refuse it with the rows it writes; a refused statement is a step the    *)
(* request cannot take, which leaves it Reject.                            *)

\* A row of the Incident table has id i.
Live(i) == i \in Incident /\ life[i] = "live"

\* Mutant: incidentIdDisplay without @unique.
InsertIncidentAnyCode(i, c, r) ==
  /\ life[i] = "unborn"
  /\ life' = [life EXCEPT ![i] = "live"]
  /\ code' = [code EXCEPT ![i] = c]
  /\ author' = [author EXCEPT ![i] = r]

\* incidentIdDisplay is unique among the rows of the table.
InsertIncident(i, c, r) ==
  /\ life[i] = "unborn"
  /\ \A j \in Incident : Live(j) => code[j] # c
  /\ life' = [life EXCEPT ![i] = "live"]
  /\ code' = [code EXCEPT ![i] = c]
  /\ author' = [author EXCEPT ![i] = r]

\* The foreign key of Attachment wants a row of Incident.
InsertAttachments(F, i) ==
  /\ Live(i)
  /\ saved' = [f \in File |-> IF f \in F THEN i ELSE saved[f]]

\* Mutant: incident_handlers rows do not keep their incident.
DeleteIncidentRowStaffed(i) ==
  /\ Live(i)
  /\ life' = [life EXCEPT ![i] = "deleted"]
  /\ saved' = [f \in File |-> IF saved[f] = i THEN None ELSE saved[f]]
  /\ posted' = [r \in Request |-> IF posted[r] = i THEN None ELSE posted[r]]

\* Attachment and Message rows go with their incident (ON DELETE CASCADE);
\* incident_handlers rows keep it (ON DELETE RESTRICT).
DeleteIncidentRow(i) ==
  /\ Live(i)
  /\ \A h \in Handler : <<i, h>> \notin assigned
  /\ life' = [life EXCEPT ![i] = "deleted"]
  /\ saved' = [f \in File |-> IF saved[f] = i THEN None ELSE saved[f]]
  /\ posted' = [r \in Request |-> IF posted[r] = i THEN None ELSE posted[r]]

\* Mutant: the list itself is written, in one row.
InsertHandlersAsOne(i, H) ==
  /\ Live(i)
  /\ \A h \in H : <<i, h>> \notin assigned
  /\ assigned' = assigned \cup {<<i, H>>}

\* Mutant: pairs that exist are skipped.
InsertHandlersAgain(i, H) ==
  /\ Live(i)
  /\ assigned' = assigned \cup ({i} \X H)

\* One statement for all pairs, each unique: all are inserted or none is.
InsertHandlers(i, H) ==
  /\ Live(i)
  /\ \A h \in H : <<i, h>> \notin assigned
  /\ assigned' = assigned \cup ({i} \X H)

\* Mutant: the row is looked up by its incident only.
DeleteHandlersOf(i, h) ==
  /\ <<i, h>> \in assigned
  /\ assigned' = assigned \ ({i} \X Handler)

DeleteHandler(i, h) ==
  /\ <<i, h>> \in assigned
  /\ assigned' = assigned \ {<<i, h>>}

\* Mutant: no foreign key.
InsertMessageAnyway(i, r) == posted' = [posted EXCEPT ![r] = i]

InsertMessage(i, r) ==
  /\ Live(i)
  /\ posted' = [posted EXCEPT ![r] = i]

-----------------------------------------------------------------------------
(* R2Service.  The key of a file is its upload time and its original name; *)
(* putting an object under a key that is taken replaces it, and deleting   *)
(* a key that holds nothing succeeds.                                      *)

UploadKey(f) == <<now, NameOf[f]>>

PutObject(k, f) == bucket' = [x \in Key |-> IF x = k THEN f ELSE bucket[x]]

DeleteFile(k) == bucket' = [x \in Key |-> IF x = k THEN None ELSE bucket[x]]

-----------------------------------------------------------------------------
(* Requests.                                                               *)

Answered == {"ok", "failed"}

Known == {i \in Incident : life[i] # "unborn"}

\* Files no request has sent yet.
Unsent == {f \in File : \A r \in Request : f \notin files[r]}

Arrive(r, o, step) ==
  /\ pc[r] = "idle"
  /\ o \in Ops
  /\ op' = [op EXCEPT ![r] = o]
  /\ pc' = [pc EXCEPT ![r] = step]

\* Request r moves from one step to the next.
Goto(r, from, to) ==
  /\ pc[r] = from
  /\ pc' = [pc EXCEPT ![r] = to]
  /\ UNCHANGED op

\* An awaited call rejects: the database refuses the statement or cannot be
\* reached, R2 or the mail server fails, or the process dies.  The handler
\* answers with an error, or not at all, and undoes nothing.  The uploads
\* Promise.all has started are not cancelled.
Reject(r) ==
  /\ pc[r] \notin Answered \cup {"idle"}
  /\ pc' = [pc EXCEPT ![r] = "failed"]
  /\ todo' = IF pc[r] = "put" THEN todo ELSE [todo EXCEPT ![r] = {}]
  /\ UNCHANGED <<store, op, inputs>>

Tick ==
  /\ now < MaxTime
  /\ now' = now + 1
  /\ UNCHANGED <<incidentTable, evidence, caseTables, pc, op, inputs, todo>>
=============================================================================
