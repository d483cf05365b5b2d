------------------------------- MODULE Startup -------------------------------
(***************************************************************************)
(* The start of the backend on the database it finds, and the requests     *)
(* that create what a start may have left out: create_db_and_tables and    *)
(* ensure_agent_multi_tenant_uniqueness (db.py), ensure_bootstrap_admin    *)
(* (bootstrap.py), create_user (routers/users.py) and the default          *)
(* dashboard (routers/dashboards.py).                                      *)
(*                                                                         *)
(* The sqlite3 driver opens a transaction before an INSERT, UPDATE or      *)
(* DELETE, and never before CREATE, ALTER or DROP: outside a transaction   *)
(* each of those is on the disk at once.  The backend may be killed        *)
(* between any two statements, and is started again on what it left.       *)
(***************************************************************************)
EXTENDS Naturals, Sequences, FiniteSets

CONSTANTS
  Workers,       \* the threads that run requests
  Names,         \* usernames
  Admin,         \* settings.bootstrap_admin_username
  Added,         \* columns of the table agent that older databases lack
  LegacyRows,    \* agents in a database of an older version
  Twins,         \* those with the owner and the hostname of another one
  Layouts, FleetLayout, EmptyLayout,
  None,          \* SQL NULL, and whatever does not exist
  MaxUsers, MaxDashboards, MaxCrashes    \* bounds

UserIds == 1 .. MaxUsers
Uniqueness == {"none", "hostname", "owner_hostname"}
AgentTables == [columns : SUBSET Added, unique : Uniqueness, rows : SUBSET LegacyRows]
NewTables == [rows : SUBSET LegacyRows]
Indexing == {"absent", "bare", "indexed"}    \* a table and its unique index
Disks ==
  [users : Indexing, keys : Indexing,
   agent : AgentTables \cup {None},
   new : NewTables \cup {None}]

ASSUME ConstantsAssumption ==
  /\ Admin \in Names /\ Twins \subseteq LegacyRows
  /\ {FleetLayout, EmptyLayout} \subseteq Layouts
  /\ MaxUsers \in Nat /\ MaxDashboards \in Nat /\ MaxCrashes \in Nat
  /\ None \notin Names /\ None \notin Layouts /\ None \notin AgentTables
  /\ None \notin NewTables /\ None \notin Disks

VARIABLES
  pc,           \* the statement the start has come to, or "serving"
  disk,         \* the schema and the agents, as committed
  tx,           \* the same within an open transaction, or None
  users,        \* the username of each user id
  dashboards,   \* the default dashboards, in the order of their insertion
  req,          \* what each worker is doing, with what it has read
  crashes

vars == <<pc, disk, tx, users, dashboards, req, crashes>>
tables == <<users, dashboards>>

Starting == {"users", "user_index", "keys", "key_index", "tables", "columns", "unique",
             "create", "copy", "drop", "rename", "indexes", "commit", "lookup", "admin",
             "dashboard"}
PC == Starting \cup {"down", "failed", "serving"}

Idle == [at |-> "idle"]

FreshDisk == [users |-> "absent", keys |-> "absent", agent |-> None, new |-> None]

\* Two agents of one owner have one name only where nothing has kept them apart.
LegacyTables ==
  { t \in [columns : {{}, Added}, unique : {"none", "hostname"},
           rows : {LegacyRows, LegacyRows \ Twins}] :
    t.rows \cap Twins # {} => t.columns = Added /\ t.unique = "none" }
LegacyDisks ==
  { [users |-> "indexed", keys |-> "indexed", agent |-> t, new |-> None] : t \in LegacyTables }

\* A new database, or one of an older version, whose users need not include the
\* administrator that is configured now.
Init ==
  /\ pc = "down"
  /\ disk \in LegacyDisks \cup {FreshDisk}
  /\ tx = None
  /\ \E known \in IF disk = FreshDisk THEN {{}} ELSE SUBSET {1} :
       \E n \in Names :
         users = [u \in UserIds |-> IF u \in known THEN n ELSE None]
  /\ dashboards = << >>
  /\ req = [w \in Workers |-> Idle]
  /\ crashes = 0

Goto(from, to) == pc = from /\ pc' = to
-----------------------------------------------------------------------------
(* Statements: what the connection sees, and what it leaves on the disk *)

View == IF tx = None THEN disk ELSE tx

Ddl(d) ==
  IF tx = None THEN disk' = d /\ UNCHANGED tx ELSE tx' = d /\ UNCHANGED disk

DmlAtOnce(d) ==                   \* mutant: a connection in autocommit mode
  disk' = d /\ UNCHANGED tx

Dml(d) == tx' = d /\ UNCHANGED disk

Commit ==
  /\ disk' = View
  /\ tx' = None

\* An exception ends the start, and what was not committed is rolled back.
Fails ==
  /\ pc' = "failed"
  /\ tx' = None
  /\ UNCHANGED <<disk, tables, req, crashes>>

Runs(from, to, statement) ==
  /\ Goto(from, to)
  /\ statement
  /\ UNCHANGED <<tables, req, crashes>>

Nothing == UNCHANGED <<disk, tx>>
-----------------------------------------------------------------------------
(* SQLModel.metadata.create_all: a table that exists is left as it is, with *)
(* the indexes it has                                                       *)

CreateUsers ==
  \/ disk.users = "absent" /\ Runs("users", "user_index", Ddl([View EXCEPT !.users = "bare"]))
  \/ disk.users # "absent" /\ Runs("users", "keys", Nothing)

\* CREATE UNIQUE INDEX ix_user_username, a statement of its own.
IndexUsers == Runs("user_index", "keys", Ddl([View EXCEPT !.users = "indexed"]))

CreateKeys ==
  \/ disk.keys = "absent" /\ Runs("keys", "key_index", Ddl([View EXCEPT !.keys = "bare"]))
  \/ disk.keys # "absent" /\ Runs("keys", "tables", Nothing)

\* CREATE UNIQUE INDEX ix_apikey_hashed_key.
IndexKeys == Runs("key_index", "tables", Ddl([View EXCEPT !.keys = "indexed"]))

\* The other tables; the uniqueness of agents is part of their table.
CreateTables ==
  \/ /\ disk.agent = None
     /\ Runs("tables", "columns",
          Ddl([View EXCEPT !.agent =
                 [columns |-> Added, unique |-> "owner_hostname", rows |-> {}]]))
  \/ disk.agent # None /\ Runs("tables", "columns", Nothing)
-----------------------------------------------------------------------------
(* The upgrades of create_db_and_tables *)

AllColumns == Added               \* mutant: columns are added without a look
MissingColumns == Added \ disk.agent.columns

AddColumn ==
  /\ pc = "columns"
  /\ \E c \in MissingColumns :
       \/ /\ c \notin disk.agent.columns
          /\ Runs("columns", "columns", Ddl([View EXCEPT !.agent.columns = @ \cup {c}]))
       \/ c \in disk.agent.columns /\ Fails

ColumnsDone ==
  /\ pc = "columns" /\ MissingColumns = {}
  /\ Runs("columns", "unique", Nothing)

AnyUnique == disk.agent.unique # "none"    \* mutant: any unique index will do
MultiTenant == disk.agent.unique = "owner_hostname"

CheckUniqueness ==
  /\ pc = "unique"
  /\ \/ MultiTenant /\ Runs("unique", "lookup", Nothing)
     \/ ~MultiTenant /\ Runs("unique", "create", Nothing)

\* CREATE TABLE agent_new, which may be there already.
CreateNew ==
  \/ disk.new = None /\ Runs("create", "copy", Ddl([View EXCEPT !.new = [rows |-> {}]]))
  \/ pc = "create" /\ disk.new # None /\ Fails

WholeTable == View.agent          \* mutant: SELECT *, not the columns of the new table
Copied == [rows |-> View.agent.rows]

CopyRows == Runs("copy", "drop", Dml([View EXCEPT !.new = Copied]))

DropOld == Runs("drop", "rename", Ddl([View EXCEPT !.agent = None]))

RenameNew ==
  Runs("rename", "indexes",
    Ddl([View EXCEPT !.agent = [columns |-> Added, unique |-> "none", rows |-> View.new.rows],
                     !.new = None]))

\* Two agents of one owner and name make it fail, with agent_new on the disk.
IndexNew ==
  /\ pc = "indexes"
  /\ IF View.agent.rows \cap Twins = {}
     THEN Runs("indexes", "commit", Ddl([View EXCEPT !.agent.unique = "owner_hostname"]))
     ELSE Fails

CommitUpgrade == Runs("commit", "lookup", Commit)
-----------------------------------------------------------------------------
(* ensure_bootstrap_admin: two commits *)

Taken(name) == \E u \in UserIds : users[u] = name
NextUser == Cardinality({ u \in UserIds : users[u] # None }) + 1

AnyUser == \E u \in UserIds : users[u] # None    \* mutant: some user is enough
AdminKnown == Taken(Admin)

LookUpAdmin ==
  \/ AdminKnown /\ Runs("lookup", "serving", Nothing)
  \/ ~AdminKnown /\ Runs("lookup", "admin", Nothing)

CreateAdmin ==
  /\ Goto("admin", "dashboard")
  /\ NextUser \in UserIds
  /\ users' = [users EXCEPT ![NextUser] = Admin]
  /\ UNCHANGED <<disk, tx, dashboards, req, crashes>>

CreateFleetDashboard ==
  /\ Goto("dashboard", "serving")
  /\ Len(dashboards) < MaxDashboards
  /\ dashboards' = Append(dashboards, [owner |-> NextUser - 1, layout |-> FleetLayout])
  /\ UNCHANGED <<disk, tx, users, req, crashes>>
-----------------------------------------------------------------------------
(* Requests *)

Answer(w) == req' = [req EXCEPT ![w] = Idle]
Begin(w, r) == pc = "serving" /\ req[w] = Idle /\ req' = [req EXCEPT ![w] = r]
Same == UNCHANGED <<pc, disk, tx, crashes>>

\* POST /users: the name is looked up first.
CreateUser(w, name) ==
  /\ ~Taken(name)
  /\ Begin(w, [at |-> "user", name |-> name])
  /\ Same /\ UNCHANGED tables

\* The unique index, if there is one, decides; else the request fails (Fail).
Insertable(name) == disk.users = "indexed" => ~Taken(name)

InsertUser(w) ==
  /\ req[w].at = "user"
  /\ NextUser \in UserIds
  /\ Insertable(req[w].name)
  /\ users' = [users EXCEPT ![NextUser] = req[w].name]
  /\ Answer(w)
  /\ Same /\ UNCHANGED dashboards

Rows(u) == { d \in DOMAIN dashboards : dashboards[d].owner = u }

\* The row a SELECT of a user's default dashboard returns first.
IsDefaultRow(u, d) == d \in Rows(u) /\ \A e \in Rows(u) : d =< e

\* GET /dashboards/default (no layout) or PUT (with the layout to save).
OpenDashboard(w, u, layout) ==
  /\ users[u] # None
  /\ \/ /\ Rows(u) = {}
        /\ Begin(w, [at |-> "insert", owner |-> u, layout |-> layout])
     \/ /\ layout # None
        /\ \E d \in DOMAIN dashboards :
             /\ IsDefaultRow(u, d)
             /\ Begin(w, [at |-> "save", owner |-> u, layout |-> layout, row |-> d,
                          read |-> dashboards[d].layout])
  /\ Same /\ UNCHANGED tables

InsertDashboard(w) ==
  LET r == req[w]
  IN  /\ r.at = "insert"
      /\ Len(dashboards) < MaxDashboards
      /\ dashboards' = Append(dashboards, [owner |-> r.owner, layout |-> EmptyLayout])
      /\ IF r.layout = None THEN Answer(w)
         ELSE req' = [req EXCEPT ![w] =
                [at |-> "refresh", owner |-> r.owner, layout |-> r.layout,
                 row |-> Len(dashboards) + 1]]
      /\ Same /\ UNCHANGED users

\* The row is read again after the commit, and may have been changed by then.
RefreshDashboard(w) ==
  LET r == req[w]
  IN  /\ r.at = "refresh"
      /\ req' = [req EXCEPT ![w] =
            [at |-> "save", owner |-> r.owner, layout |-> r.layout, row |-> r.row,
             read |-> dashboards[r.row].layout]]
      /\ Same /\ UNCHANGED tables

\* A layout equal to the one that was read is not written.
SaveLayout(w) ==
  /\ req[w].at = "save"
  /\ dashboards' = [dashboards EXCEPT ![req[w].row].layout =
                      IF req[w].layout = req[w].read THEN @ ELSE req[w].layout]
  /\ Answer(w)
  /\ Same /\ UNCHANGED users

Fail(w) ==
  /\ req[w] # Idle
  /\ Answer(w)
  /\ Same /\ UNCHANGED tables
-----------------------------------------------------------------------------
Crash ==
  /\ pc # "down" /\ crashes < MaxCrashes
  /\ crashes' = crashes + 1
  /\ pc' = "down"
  /\ tx' = None
  /\ req' = [w \in Workers |-> Idle]
  /\ UNCHANGED <<disk, tables>>

\* "restart: unless-stopped" (docker-compose.yml).
Restart ==
  /\ pc \in {"down", "failed"}
  /\ pc' = "users"
  /\ UNCHANGED <<disk, tx, tables, req, crashes>>

StartStep ==
  \/ CreateUsers \/ IndexUsers \/ CreateKeys \/ IndexKeys \/ CreateTables
  \/ AddColumn \/ ColumnsDone \/ CheckUniqueness
  \/ CreateNew \/ CopyRows \/ DropOld \/ RenameNew \/ IndexNew \/ CommitUpgrade
  \/ LookUpAdmin \/ CreateAdmin \/ CreateFleetDashboard

NewRequest ==
  \E w \in Workers :
    \/ \E name \in Names : CreateUser(w, name)
    \/ \E u \in UserIds, layout \in Layouts \cup {None} : OpenDashboard(w, u, layout)

Work ==
  \E w \in Workers :
    InsertUser(w) \/ InsertDashboard(w) \/ RefreshDashboard(w) \/ SaveLayout(w) \/ Fail(w)

Next == StartStep \/ NewRequest \/ Work \/ Crash \/ Restart

Spec == Init /\ [][Next]_vars

\* A start goes on until it serves or fails, and is repeated when it fails.
FairSpec == Spec /\ WF_vars(StartStep) /\ WF_vars(Restart)
-----------------------------------------------------------------------------
Requests ==
  {Idle}
  \cup [at : {"user"}, name : Names]
  \cup [at : {"insert"}, owner : UserIds, layout : Layouts \cup {None}]
  \cup [at : {"refresh"}, owner : UserIds, layout : Layouts, row : 1 .. MaxDashboards]
  \cup [at : {"save"}, owner : UserIds, layout : Layouts, row : 1 .. MaxDashboards,
        read : Layouts]

TypeOK ==
  /\ pc \in PC
  /\ disk \in Disks
  /\ tx \in Disks \cup {None}
  /\ users \in [UserIds -> Names \cup {None}]
  /\ dashboards \in Seq([owner : UserIds, layout : Layouts])
  /\ Len(dashboards) =< MaxDashboards
  /\ req \in [Workers -> Requests]
  /\ crashes \in 0 .. MaxCrashes

AgentsOnDisk == IF disk.agent = None THEN {} ELSE disk.agent.rows

\* The agents of an older database are there after every statement and every
\* crash: the table is dropped and its copy renamed in one transaction, although
\* nothing in ensure_agent_multi_tenant_uniqueness begins one.
AgentsSurvive == [][AgentsOnDisk \subseteq AgentsOnDisk']_vars

\* Requests are served only once every table is there and that of the agents has been
\* upgraded, with nothing of the rebuild under way or left, whatever older version or
\* interrupted start was found (create_db_and_tables).  The unique indexes of users and
\* keys are not in it: a start that was interrupted before one never makes it up.
ServesUpgradedTables ==
  pc = "serving" =>
    /\ disk.users # "absent" /\ disk.keys # "absent" /\ disk.agent # None
    /\ disk.agent.columns = Added /\ disk.agent.unique = "owner_hostname"
    /\ disk.agent.rows \cap Twins = {}
    /\ tx = None /\ disk.new = None

\* Where a start has failed the table agent_new is there: an interrupted one has left it,
\* or this one, on two agents of one owner and name.
OnlyALeftoverStopsAStart == pc = "failed" => disk.new # None

\* A username is given out once ("username: str = Field(index=True, unique=True)",
\* models.py:17), by overlapping requests as well (create_user looks the name up first,
\* and then inserts).
UsernamesUnique ==
  \A u, v \in UserIds : users[u] = users[v] /\ users[u] # None => u = v

\* While requests are served the administrator that is configured exists, after
\* interrupted starts and in databases with other users (ensure_bootstrap_admin).
AdminExists == pc = "serving" => Taken(Admin)

\* A backend that is started again whenever it ends ("restart: unless-stopped",
\* docker-compose.yml:26) comes to serve, crashes being finitely many.
StartsAgain == []<>(pc = "serving")
-----------------------------------------------------------------------------
(* The inductive invariant: what each statement finds *)

Rebuilding == {"drop", "rename", "indexes", "commit"}
Upgraded   == {"lookup", "admin", "dashboard", "serving"}

\* A start has the tables it has come past; the rebuild has all agents in its transaction
\* and the disk has them until the COMMIT.
Progress ==
  /\ pc \notin {"down", "failed", "users"} => disk.users # "absent"
  /\ pc \notin {"down", "failed", "users", "user_index", "keys"} => disk.keys # "absent"
  /\ pc \notin {"down", "failed", "users", "user_index", "keys", "key_index", "tables"} =>
       disk.agent # None
  /\ pc \in {"unique", "create", "copy"} \cup Rebuilding \cup Upgraded =>
       disk.agent.columns = Added
  /\ pc = "create" => disk.agent.unique # "owner_hostname"
  /\ pc \in Upgraded => disk.agent.unique = "owner_hostname"
  /\ tx # None <=> pc \in Rebuilding
  /\ tx # None => tx.users = disk.users /\ tx.keys = disk.keys
  /\ pc \in {"drop", "rename"} => tx.new = [rows |-> disk.agent.rows]
  /\ pc \in {"indexes", "commit"} =>
       /\ tx.new = None /\ tx.agent # None
       /\ tx.agent.columns = Added /\ tx.agent.rows = disk.agent.rows
  /\ pc = "copy" \/ tx # None => disk.new # None
  /\ pc = "commit" =>
       tx.agent.unique = "owner_hostname" /\ tx.agent.rows \cap Twins = {}

\* An interrupted rebuild leaves its table beside one that still has to be rebuilt; where
\* agents are kept apart none is the twin of another.
LeftoverFits ==
  /\ disk.new # None => disk.agent # None /\ disk.agent.unique # "owner_hostname"
  /\ disk.agent # None /\ disk.agent.unique = "owner_hostname" =>
       disk.agent.rows \cap Twins = {}

\* User ids count up; nobody is in a table that is not there, or has just been created.
UsersCount ==
  /\ \E n \in 0 .. MaxUsers : \A u \in UserIds : users[u] # None <=> u =< n
  /\ disk.users = "absent" \/ pc = "user_index" => \A u \in UserIds : users[u] = None

AdminInTime ==
  /\ pc = "admin" => ~Taken(Admin)
  /\ pc \in {"dashboard", "serving"} => Taken(Admin)

\* Requests are under way only while the backend serves; the rows they hold are there.
RequestsFit ==
  /\ pc # "serving" => \A w \in Workers : req[w] = Idle
  /\ \A w \in Workers : req[w].at \in {"refresh", "save"} => req[w].row =< Len(dashboards)

StartupInv ==
  /\ TypeOK
  /\ Progress
  /\ LeftoverFits
  /\ UsersCount
  /\ AdminInTime
  /\ RequestsFit
  /\ OnlyALeftoverStopsAStart
=============================================================================
