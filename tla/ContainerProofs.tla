--------------------------- MODULE ContainerProofs ---------------------------
(***************************************************************************)
(* The start of the backend and the container it runs in, for every number *)
(* of workers, users, columns and agents: what each statement finds is an  *)
(* inductive invariant of the start (StartupInv of Startup), and start.sh  *)
(* adds what it has waited for (ContainerInv of Container).                *)
(***************************************************************************)
EXTENDS Container, FiniteSetTheorems, SequenceTheorems, TLAPS

USE ConstantsAssumption

(* The statements of a start *)

\* While the start runs statements no request does; what they leave alone keeps its type.
LEMMA StatementKeeps ==
  ASSUME StartupInv, pc \in Starting, pc' \in PC, UNCHANGED <<tables, req, crashes>>,
         disk' \in Disks, tx' \in Disks \cup {None}, pc' # "dashboard",
         pc' = "serving" => Taken(Admin), pc' = "admin" => ~Taken(Admin),
         disk'.users = "absent" \/ pc' = "user_index" => disk.users = "absent" \/ pc = "user_index",
         pc' = "failed" => disk'.new # None
  PROVE  /\ TypeOK' /\ UsersCount' /\ AdminInTime' /\ RequestsFit'
         /\ OnlyALeftoverStopsAStart'
<1> USE DEF StartupInv, tables
<1>1. TypeOK'
  BY DEF TypeOK
<1>2. UsersCount'
  BY DEF UsersCount
<1>3. AdminInTime'
  BY DEF AdminInTime, Taken
<1>4. RequestsFit'
  <2>1. pc # "serving"
    BY DEF Starting
  <2> QED
    BY <2>1 DEF RequestsFit
<1>5. OnlyALeftoverStopsAStart'
  BY DEF OnlyALeftoverStopsAStart
<1> QED
  BY <1>1, <1>2, <1>3, <1>4, <1>5

\* Outside of the rebuild a statement sees the disk and changes it at once.
LEMMA AtOnce ==
  ASSUME StartupInv, pc \in Starting \ Rebuilding, NEW d
  PROVE  /\ View = disk /\ tx = None /\ (Ddl(d) <=> disk' = d /\ UNCHANGED tx)
         /\ disk \in Disks /\ (disk.agent # None => disk.agent \in AgentTables)
BY DEF StartupInv, Progress, View, Ddl, TypeOK, Disks, Starting

\* Within it a statement sees and changes the transaction.
LEMMA InTransaction ==
  ASSUME StartupInv, pc \in Rebuilding, NEW d
  PROVE  /\ View = tx /\ tx # None /\ tx \in Disks /\ disk \in Disks
         /\ (Ddl(d) <=> tx' = d /\ UNCHANGED disk)
         /\ (disk.agent # None => disk.agent \in AgentTables)
BY DEF StartupInv, Progress, View, Ddl, TypeOK, Disks

\* create_all, the tables of the users and of the keys, and the unique index of each.
LEMMA CreateUsersKeeps ==
  StartupInv /\ (CreateUsers \/ IndexUsers \/ CreateKeys \/ IndexKeys) => StartupInv'
<1> SUFFICES ASSUME StartupInv, CreateUsers \/ IndexUsers \/ CreateKeys \/ IndexKeys
             PROVE  StartupInv'
  OBVIOUS
<1> USE DEF Runs, Goto, Nothing
<1>0. /\ pc \in {"users", "user_index", "keys", "key_index"}
      /\ pc' \in {"user_index", "keys", "key_index", "tables"}
      /\ UNCHANGED <<tables, req, crashes>>
  BY DEF CreateUsers, IndexUsers, CreateKeys, IndexKeys
<1>1. /\ View = disk /\ tx = None /\ disk \in Disks /\ UNCHANGED tx
      /\ \/ pc = "users" /\ disk.users = "absent" /\ pc' = "user_index"
            /\ disk' = [disk EXCEPT !.users = "bare"]
         \/ pc = "users" /\ disk.users # "absent" /\ pc' = "keys" /\ UNCHANGED disk
         \/ pc = "user_index" /\ pc' = "keys" /\ disk' = [disk EXCEPT !.users = "indexed"]
         \/ pc = "keys" /\ disk.keys = "absent" /\ pc' = "key_index"
            /\ disk' = [disk EXCEPT !.keys = "bare"]
         \/ pc = "keys" /\ disk.keys # "absent" /\ pc' = "tables" /\ UNCHANGED disk
         \/ pc = "key_index" /\ pc' = "tables" /\ disk' = [disk EXCEPT !.keys = "indexed"]
  BY <1>0, AtOnce DEF Starting, Rebuilding, CreateUsers, IndexUsers, CreateKeys, IndexKeys
<1>2. /\ disk' \in Disks /\ disk'.agent = disk.agent /\ disk'.new = disk.new
      /\ disk'.users # "absent"
      /\ (pc' \in {"key_index", "tables"} => disk'.keys # "absent")
      /\ (pc' = "user_index" => disk.users = "absent")
  BY <1>1 DEF Disks, Indexing, StartupInv, Progress
<1>3. Progress' /\ LeftoverFits'
  BY <1>0, <1>1, <1>2 DEF StartupInv, Progress, LeftoverFits, Rebuilding, Upgraded
<1> QED
  BY <1>0, <1>1, <1>2, <1>3, StatementKeeps DEF Starting, PC, StartupInv

\* The other tables, the columns that came later, and the look at the indexes of agent.
LEMMA TablesKeep ==
  StartupInv /\ (CreateTables \/ AddColumn \/ ColumnsDone \/ CheckUniqueness) => StartupInv'
<1> SUFFICES ASSUME StartupInv, CreateTables \/ AddColumn \/ ColumnsDone \/ CheckUniqueness
             PROVE  StartupInv'
  OBVIOUS
<1> USE DEF Runs, Goto, Nothing
<1>0. pc \in {"tables", "columns", "unique"}
  BY DEF CreateTables, AddColumn, ColumnsDone, CheckUniqueness
<1>t. /\ View = disk /\ tx = None /\ disk \in Disks
      /\ (disk.agent # None => disk.agent \in AgentTables)
  BY <1>0, AtOnce DEF Starting, Rebuilding
<1>d. /\ disk.users # "absent" /\ disk.keys # "absent"
      /\ pc \in {"columns", "unique"} => disk.agent \in AgentTables
      /\ pc = "unique" => disk.agent.columns = Added
      /\ LeftoverFits
  BY <1>0, <1>t DEF StartupInv, Progress
<1>1. CASE CreateTables
  <2>1. /\ pc = "tables" /\ pc' = "columns" /\ UNCHANGED <<tx, tables, req, crashes>>
        /\ \/ disk.agent # None /\ UNCHANGED disk
           \/ /\ disk.agent = None
              /\ disk' = [disk EXCEPT !.agent =
                   [columns |-> Added, unique |-> "owner_hostname", rows |-> {}]]
    BY <1>1, <1>t DEF CreateTables, Ddl
  <2>2. /\ disk' \in Disks /\ disk'.agent # None
        /\ disk'.users = disk.users /\ disk'.keys = disk.keys /\ disk'.new = disk.new
        /\ (disk.agent # None => disk'.agent = disk.agent)
        /\ (disk.agent = None => disk'.agent.rows = {})
    BY <2>1, <1>t DEF Disks, AgentTables, Uniqueness
  <2>3. Progress' /\ LeftoverFits'
    BY <1>t, <1>d, <2>1, <2>2 DEF Progress, LeftoverFits, Rebuilding, Upgraded
  <2> QED
    BY <1>t, <1>d, <2>1, <2>2, <2>3, StatementKeeps DEF Starting, PC, StartupInv
<1>2. CASE AddColumn
  <2>1. PICK c \in MissingColumns :
          /\ pc = "columns" /\ pc' = "columns" /\ UNCHANGED <<tx, tables, req, crashes>>
          /\ disk' = [disk EXCEPT !.agent.columns = @ \cup {c}]
    BY <1>2, <1>t DEF AddColumn, Ddl, MissingColumns
  <2>2. /\ disk' \in Disks /\ disk'.agent # None /\ disk'.users = disk.users /\ disk'.keys = disk.keys
        /\ disk'.new = disk.new /\ disk'.agent.unique = disk.agent.unique
        /\ disk'.agent.rows = disk.agent.rows
    <3>1. [disk.agent EXCEPT !.columns = @ \cup {c}] \in AgentTables
      BY <1>d, <2>1 DEF AgentTables, MissingColumns
    <3>2. disk' = [disk EXCEPT !.agent = [disk.agent EXCEPT !.columns = @ \cup {c}]]
      BY <2>1, <1>t DEF Disks
    <3>3. /\ [disk.agent EXCEPT !.columns = @ \cup {c}].unique = disk.agent.unique
          /\ [disk.agent EXCEPT !.columns = @ \cup {c}].rows = disk.agent.rows
      BY <1>d, <2>1 DEF AgentTables
    <3> QED
      BY <1>t, <3>1, <3>2, <3>3 DEF Disks
  <2>3. Progress' /\ LeftoverFits'
    BY <1>t, <1>d, <2>1, <2>2 DEF Progress, LeftoverFits, Rebuilding, Upgraded
  <2> QED
    BY <1>t, <1>d, <2>1, <2>2, <2>3, StatementKeeps DEF Starting, PC, StartupInv
<1>3. CASE ColumnsDone
  <2>1. /\ pc = "columns" /\ pc' = "unique"
        /\ UNCHANGED <<disk, tx, tables, req, crashes>> /\ disk.agent.columns = Added
    BY <1>3, <1>d DEF ColumnsDone, MissingColumns, AgentTables
  <2>2. Progress' /\ LeftoverFits'
    BY <1>t, <1>d, <2>1 DEF Progress, LeftoverFits, Rebuilding, Upgraded, AgentTables
  <2> QED
    BY <1>t, <1>d, <2>1, <2>2, StatementKeeps DEF Starting, PC, StartupInv
<1>4. CASE CheckUniqueness
  <2>1. /\ pc = "unique" /\ UNCHANGED <<disk, tx, tables, req, crashes>>
        /\ \/ pc' = "lookup" /\ disk.agent.unique = "owner_hostname"
           \/ pc' = "create" /\ disk.agent.unique # "owner_hostname"
    BY <1>4 DEF CheckUniqueness, MultiTenant
  <2>2. Progress' /\ LeftoverFits'
    BY <1>t, <1>d, <2>1 DEF Progress, LeftoverFits, Rebuilding, Upgraded, AgentTables
  <2> QED
    BY <1>t, <1>d, <2>1, <2>2, StatementKeeps DEF Starting, PC, StartupInv
<1> QED
  BY <1>1, <1>2, <1>3, <1>4

\* The rebuild of the table of agents: a table of its own, and then one transaction.
LEMMA RebuildKeeps ==
  StartupInv /\ (CreateNew \/ CopyRows \/ DropOld \/ RenameNew \/ IndexNew \/ CommitUpgrade)
    => StartupInv'
<1> SUFFICES ASSUME StartupInv,
                    CreateNew \/ CopyRows \/ DropOld \/ RenameNew \/ IndexNew \/ CommitUpgrade
             PROVE  StartupInv'
  OBVIOUS
<1> USE DEF Runs, Goto, Nothing
<1>0. pc \in {"create", "copy"} \cup Rebuilding
  BY DEF CreateNew, CopyRows, DropOld, RenameNew, IndexNew, CommitUpgrade, Fails, Rebuilding
<1>d. /\ pc # "create" => disk.new # None
      /\ disk \in Disks /\ disk.users # "absent" /\ disk.keys # "absent"
      /\ disk.agent \in AgentTables
      /\ disk.agent.columns = Added
      /\ LeftoverFits
  BY <1>0 DEF StartupInv, Progress, Rebuilding, TypeOK, Disks
<1>1. CASE CreateNew
  <2>1. pc = "create" /\ UNCHANGED <<tables, req, crashes>>
    BY <1>1 DEF CreateNew, Fails
  <2>2. View = disk /\ tx = None /\ disk.agent.unique # "owner_hostname"
    BY <2>1, AtOnce DEF StartupInv, Progress, Starting, Rebuilding
  <2>3. tx' = None
        /\ (\/ pc' = "copy" /\ disk' = [disk EXCEPT !.new = [rows |-> {}]]
            \/ pc' = "failed" /\ UNCHANGED disk /\ disk.new # None)
    BY <1>1, <2>2 DEF CreateNew, Fails, Ddl
  <2>4. /\ disk' \in Disks /\ disk'.users = disk.users /\ disk'.keys = disk.keys /\ disk'.agent = disk.agent
        /\ (pc' \in {"failed", "copy"} => disk'.new # None)
    BY <1>d, <2>3 DEF Disks, NewTables
  <2>5. Progress' /\ LeftoverFits'
    BY <1>d, <2>1, <2>2, <2>3, <2>4 DEF Progress, LeftoverFits, Rebuilding, Upgraded
  <2> QED
    BY <1>d, <2>1, <2>3, <2>4, <2>5, StatementKeeps DEF Starting, PC, StartupInv
<1>2. CASE CopyRows
  <2>1. pc = "copy" /\ pc' = "drop" /\ UNCHANGED <<disk, tables, req, crashes>>
    BY <1>2 DEF CopyRows, Dml
  <2>2. View = disk /\ tx = None
    BY <2>1, AtOnce DEF Starting, Rebuilding
  <2>3. tx' = [disk EXCEPT !.new = [rows |-> disk.agent.rows]]
    BY <1>2, <2>2 DEF CopyRows, Dml, Copied
  <2>4. tx' \in Disks /\ tx'.users = disk.users /\ tx'.keys = disk.keys /\ tx'.new = [rows |-> disk.agent.rows]
    BY <1>d, <2>3 DEF Disks, NewTables, AgentTables
  <2>5. Progress' /\ LeftoverFits'
    BY <1>d, <2>1, <2>4 DEF Progress, LeftoverFits, Rebuilding, Upgraded
  <2> QED
    BY <1>d, <2>1, <2>4, <2>5, StatementKeeps DEF Starting, PC, StartupInv
<1>3. CASE DropOld
  <2>1. /\ pc = "drop" /\ pc' = "rename" /\ UNCHANGED <<disk, tables, req, crashes>>
        /\ tx \in Disks /\ tx' = [tx EXCEPT !.agent = None]
    BY <1>3, InTransaction DEF DropOld, Rebuilding
  <2>2. tx' \in Disks /\ tx'.users = tx.users /\ tx'.keys = tx.keys /\ tx'.new = tx.new
    BY <2>1 DEF Disks
  <2>3. tx.users = disk.users /\ tx.keys = disk.keys /\ tx.new = [rows |-> disk.agent.rows]
    BY <2>1 DEF StartupInv, Progress
  <2>4. Progress' /\ LeftoverFits'
    BY <1>d, <2>1, <2>2, <2>3 DEF Progress, LeftoverFits, Rebuilding, Upgraded
  <2> QED
    BY <1>d, <2>1, <2>2, <2>4, StatementKeeps DEF Starting, PC, StartupInv
<1>4. CASE RenameNew
  <2>1. /\ pc = "rename" /\ pc' = "indexes" /\ UNCHANGED <<disk, tables, req, crashes>>
        /\ tx \in Disks
        /\ tx' = [tx EXCEPT !.agent = [columns |-> Added, unique |-> "none", rows |-> tx.new.rows],
                            !.new = None]
    BY <1>4, InTransaction DEF RenameNew, Rebuilding
  <2>2. tx.users = disk.users /\ tx.keys = disk.keys /\ tx.new = [rows |-> disk.agent.rows]
    BY <2>1 DEF StartupInv, Progress
  <2>3. [columns |-> Added, unique |-> "none", rows |-> disk.agent.rows] \in AgentTables
    BY <1>d DEF AgentTables, Uniqueness
  <2>4. /\ tx' \in Disks /\ tx'.users = tx.users /\ tx'.keys = tx.keys /\ tx'.new = None
        /\ tx'.agent = [columns |-> Added, unique |-> "none", rows |-> disk.agent.rows]
    <3>1. tx.new.rows = disk.agent.rows
      BY <2>2
    <3>2. tx' = [users |-> tx.users, keys |-> tx.keys, new |-> None,
                 agent |-> [columns |-> Added, unique |-> "none", rows |-> disk.agent.rows]]
      BY <2>1, <3>1 DEF Disks
    <3>3. tx.users \in Indexing /\ tx.keys \in Indexing
      BY <2>1 DEF Disks
    <3> QED
      BY <2>3, <3>2, <3>3 DEF Disks
  <2>5. Progress' /\ LeftoverFits'
    BY <1>d, <2>1, <2>2, <2>3, <2>4 DEF Progress, LeftoverFits, Rebuilding, Upgraded
  <2> QED
    BY <1>d, <2>1, <2>4, <2>5, StatementKeeps DEF Starting, PC, StartupInv
<1>5. CASE IndexNew
  <2>0. /\ pc = "indexes" /\ tx \in Disks /\ tx # None /\ View = tx /\ disk.new # None
        /\ tx.users = disk.users /\ tx.keys = disk.keys /\ tx.new = None /\ tx.agent # None
        /\ tx.agent.columns = Added /\ tx.agent.rows = disk.agent.rows
    <3>1. pc = "indexes"
      BY <1>5 DEF IndexNew
    <3> QED
      BY <3>1, InTransaction DEF StartupInv, Progress, Rebuilding
  <2>1. CASE tx.agent.rows \cap Twins = {}
    <3>1. /\ pc' = "commit" /\ UNCHANGED <<disk, tables, req, crashes>>
          /\ tx' = [tx EXCEPT !.agent.unique = "owner_hostname"]
      BY <1>5, <2>0, <2>1, InTransaction DEF IndexNew, Rebuilding
    <3>2. tx.agent \in AgentTables
      BY <2>0 DEF Disks
    <3>3. /\ [tx.agent EXCEPT !.unique = "owner_hostname"] \in AgentTables
          /\ [tx.agent EXCEPT !.unique = "owner_hostname"].columns = Added
          /\ [tx.agent EXCEPT !.unique = "owner_hostname"].rows = disk.agent.rows
          /\ [tx.agent EXCEPT !.unique = "owner_hostname"].unique = "owner_hostname"
      BY <2>0, <3>2 DEF AgentTables, Uniqueness
    <3>4. /\ tx' = [tx EXCEPT !.agent = [tx.agent EXCEPT !.unique = "owner_hostname"]]
          /\ tx' \in Disks /\ tx'.users = tx.users /\ tx'.keys = tx.keys /\ tx'.new = None
          /\ tx'.agent = [tx.agent EXCEPT !.unique = "owner_hostname"]
      BY <2>0, <3>1, <3>3 DEF Disks
    <3>5. Progress' /\ LeftoverFits'
      BY <1>d, <2>0, <2>1, <3>1, <3>3, <3>4 DEF Progress, LeftoverFits, Rebuilding, Upgraded
    <3> QED
      BY <1>d, <2>0, <3>1, <3>4, <3>5, StatementKeeps DEF Starting, PC, StartupInv
  <2>2. CASE tx.agent.rows \cap Twins # {}
    <3>1. pc' = "failed" /\ tx' = None /\ UNCHANGED <<disk, tables, req, crashes>>
      BY <1>5, <2>0, <2>2 DEF IndexNew, Fails
    <3>2. Progress' /\ LeftoverFits'
      BY <1>d, <2>0, <3>1 DEF Progress, LeftoverFits, Rebuilding, Upgraded
    <3> QED
      BY <1>d, <2>0, <3>1, <3>2, StatementKeeps DEF Starting, PC, StartupInv
  <2> QED
    BY <2>1, <2>2
<1>6. CASE CommitUpgrade
  <2>1. /\ pc = "commit" /\ pc' = "lookup" /\ UNCHANGED <<tables, req, crashes>>
        /\ tx \in Disks /\ tx # None /\ disk' = tx /\ tx' = None
    BY <1>6, InTransaction DEF CommitUpgrade, Commit, Rebuilding
  <2>2. /\ tx.users = disk.users /\ tx.keys = disk.keys /\ tx.new = None /\ tx.agent # None
        /\ tx.agent.columns = Added /\ tx.agent.unique = "owner_hostname"
        /\ tx.agent.rows \cap Twins = {}
    BY <2>1 DEF StartupInv, Progress, Rebuilding
  <2>3. Progress' /\ LeftoverFits'
    BY <1>d, <2>1, <2>2 DEF Progress, LeftoverFits, Rebuilding, Upgraded
  <2> QED
    BY <1>d, <2>1, <2>2, <2>3, StatementKeeps DEF Starting, PC, StartupInv
<1> QED
  BY <1>1, <1>2, <1>3, <1>4, <1>5, <1>6

(* Users and dashboards *)

\* The next id is the one after the last, wherever the ids given out are 1 .. n.
LEMMA NextUserFollows ==
  ASSUME NEW n \in 0 .. MaxUsers, \A u \in UserIds : users[u] # None <=> u =< n
  PROVE  NextUser = n + 1
<1>1. { u \in UserIds : users[u] # None } = 1 .. n
  BY DEF UserIds
<1>2. n \in Int /\ 1 \in Int
  OBVIOUS
<1>3. Cardinality(1 .. n) = IF 1 > n THEN 0 ELSE n - 1 + 1
  BY <1>2, FS_Interval, Zenon
<1>4. Cardinality(1 .. n) = n
  BY <1>3, n \in Nat
<1> QED
  BY <1>1, <1>4 DEF NextUser

\* A name that is free is given to the next id, and every other id keeps its own.
LEMMA NewUserKeeps ==
  ASSUME StartupInv, NEW name \in Names, NextUser \in UserIds,
         disk.users # "absent" /\ pc # "user_index", UNCHANGED disk, pc' # "user_index",
         users' = [users EXCEPT ![NextUser] = name]
  PROVE  /\ users' \in [UserIds -> Names \cup {None}] /\ UsersCount'
         /\ Taken(name)' /\ (Taken(Admin) => Taken(Admin)')
         /\ users[NextUser] = None
<1> USE DEF StartupInv
<1>1. PICK n \in 0 .. MaxUsers : \A u \in UserIds : users[u] # None <=> u =< n
  BY DEF UsersCount
<1>2. NextUser = n + 1
  BY <1>1, NextUserFollows
<1>3. users \in [UserIds -> Names \cup {None}]
  BY DEF TypeOK
<1>4. users[NextUser] = None
  BY <1>1, <1>2 DEF UserIds
<1>5. \A u \in UserIds : users'[u] # None <=> u =< n + 1
  BY <1>1, <1>2, <1>3 DEF UserIds
<1>6. n + 1 \in 0 .. MaxUsers
  BY <1>2 DEF UserIds
<1>7. UsersCount'
  BY <1>5, <1>6 DEF UsersCount
<1>8. Taken(name)' /\ (Taken(Admin) => Taken(Admin)')
  BY <1>3, <1>4 DEF Taken
<1> QED
  BY <1>3, <1>4, <1>7, <1>8

\* A dashboard more is within the bound.
LEMMA DashboardAdded ==
  ASSUME TypeOK, NEW owner \in UserIds, NEW layout \in Layouts,
         Len(dashboards) < MaxDashboards,
         dashboards' = Append(dashboards, [owner |-> owner, layout |-> layout])
  PROVE  /\ dashboards' \in Seq([owner : UserIds, layout : Layouts])
         /\ Len(dashboards') = Len(dashboards) + 1 /\ Len(dashboards') =< MaxDashboards
         /\ Len(dashboards) + 1 \in 1 .. MaxDashboards
<1>1. [owner |-> owner, layout |-> layout] \in [owner : UserIds, layout : Layouts]
  OBVIOUS
<1>2. dashboards \in Seq([owner : UserIds, layout : Layouts]) /\ Len(dashboards) \in Nat
  BY DEF TypeOK
<1> QED
  BY <1>1, <1>2, AppendProperties

\* ensure_bootstrap_admin, each of its commits.
LEMMA AdminKeeps ==
  StartupInv /\ (LookUpAdmin \/ CreateAdmin \/ CreateFleetDashboard) => StartupInv'
<1> SUFFICES ASSUME StartupInv, LookUpAdmin \/ CreateAdmin \/ CreateFleetDashboard
             PROVE  StartupInv'
  OBVIOUS
<1> USE DEF Runs, Goto, Nothing
<1>0. pc \in {"lookup", "admin", "dashboard"} /\ UNCHANGED <<disk, tx, req, crashes>>
  BY DEF LookUpAdmin, CreateAdmin, CreateFleetDashboard
<1>d. /\ disk \in Disks /\ tx = None /\ disk.users # "absent" /\ disk.keys # "absent" /\ disk.agent # None
      /\ disk.agent.columns = Added /\ disk.agent.unique = "owner_hostname"
      /\ \A w \in Workers : req[w] = Idle
      /\ LeftoverFits
  BY <1>0 DEF StartupInv, Progress, Rebuilding, Upgraded, TypeOK, RequestsFit
<1>p. ASSUME pc' \in {"admin", "dashboard", "serving"} PROVE Progress' /\ LeftoverFits'
  BY <1>0, <1>d, <1>p DEF Progress, LeftoverFits, Rebuilding, Upgraded
<1>r. RequestsFit'
  BY <1>0, <1>d DEF RequestsFit, Idle
<1>1. CASE LookUpAdmin
  <2>1. /\ pc = "lookup" /\ UNCHANGED tables
        /\ \/ pc' = "serving" /\ Taken(Admin)
           \/ pc' = "admin" /\ ~Taken(Admin)
    BY <1>1 DEF LookUpAdmin, AdminKnown
  <2> QED
    BY <1>0, <1>d, <1>p, <2>1, StatementKeeps DEF Starting, PC, StartupInv
<1>2. CASE CreateAdmin
  <2>1. /\ pc = "admin" /\ pc' = "dashboard" /\ UNCHANGED dashboards
        /\ NextUser \in UserIds /\ users' = [users EXCEPT ![NextUser] = Admin]
    BY <1>2 DEF CreateAdmin
  <2>2. ~Taken(Admin) /\ TypeOK
    BY <2>1 DEF StartupInv, AdminInTime
  <2>3. /\ users' \in [UserIds -> Names \cup {None}] /\ UsersCount'
        /\ Taken(Admin)'
    BY <1>0, <1>d, <2>1, <2>2, NewUserKeeps
  <2>4. TypeOK' /\ AdminInTime' /\ OnlyALeftoverStopsAStart'
    BY <1>0, <2>1, <2>2, <2>3
       DEF TypeOK, AdminInTime, OnlyALeftoverStopsAStart, PC, Starting
  <2> QED
    BY <1>p, <1>r, <2>1, <2>3, <2>4 DEF StartupInv
<1>3. CASE CreateFleetDashboard
  <2>1. /\ pc = "dashboard" /\ pc' = "serving" /\ UNCHANGED users
        /\ Len(dashboards) < MaxDashboards
        /\ dashboards' = Append(dashboards, [owner |-> NextUser - 1, layout |-> FleetLayout])
    BY <1>3 DEF CreateFleetDashboard
  <2>2. Taken(Admin) /\ TypeOK /\ UsersCount
    BY <2>1 DEF StartupInv, AdminInTime
  <2>3. PICK n \in 0 .. MaxUsers : \A u \in UserIds : users[u] # None <=> u =< n
    BY <2>2 DEF UsersCount
  <2>4. NextUser - 1 = n /\ n \in UserIds
    BY <2>2, <2>3, NextUserFollows DEF Taken, UserIds
  <2>5. /\ dashboards' \in Seq([owner : UserIds, layout : Layouts])
        /\ Len(dashboards') =< MaxDashboards
    BY <2>1, <2>2, <2>4, DashboardAdded
  <2>6. /\ TypeOK' /\ AdminInTime' /\ OnlyALeftoverStopsAStart'
        /\ UsersCount'
    BY <1>0, <2>1, <2>2, <2>5
       DEF TypeOK, AdminInTime, Taken, OnlyALeftoverStopsAStart, UsersCount, PC, Starting
  <2> QED
    BY <1>p, <1>r, <2>1, <2>6 DEF StartupInv
<1> QED
  BY <1>1, <1>2, <1>3

(* Requests *)

\* While requests are served they change neither the schema nor what it says of the start.
LEMMA ServingKeeps ==
  ASSUME StartupInv, pc = "serving", Same,
         req' \in [Workers -> Requests],
         users' \in [UserIds -> Names \cup {None}], UsersCount',
         Taken(Admin) => Taken(Admin)',
         dashboards' \in Seq([owner : UserIds, layout : Layouts]),
         Len(dashboards') =< MaxDashboards,
         \A w \in Workers : req'[w].at \in {"refresh", "save"} => req'[w].row =< Len(dashboards')
  PROVE  StartupInv'
<1> USE DEF StartupInv, Same
<1>1. TypeOK'
  BY DEF TypeOK
<1>2. Progress' /\ LeftoverFits' /\ OnlyALeftoverStopsAStart'
  BY DEF Progress, LeftoverFits, Rebuilding, Upgraded, OnlyALeftoverStopsAStart
<1>3. AdminInTime'
  BY DEF AdminInTime
<1>4. RequestsFit'
  BY DEF RequestsFit
<1> QED
  BY <1>1, <1>2, <1>3, <1>4

\* A step of a request that leaves the users alone.
LEMMA UsersStay ==
  ASSUME StartupInv, UNCHANGED <<pc, disk, users>>
  PROVE  /\ users' \in [UserIds -> Names \cup {None}] /\ UsersCount'
         /\ (Taken(Admin) => Taken(Admin)')
BY DEF StartupInv, TypeOK, UsersCount, Taken

\* The row with a number up to the length is there.
LEMMA RowRead ==
  ASSUME TypeOK, NEW d \in 1 .. Len(dashboards)
  PROVE  /\ dashboards[d] \in [owner : UserIds, layout : Layouts]
         /\ dashboards[d].layout \in Layouts
<1>1. dashboards[d] \in [owner : UserIds, layout : Layouts]
  BY ElementOfSeq DEF TypeOK
<1> QED
  BY <1>1

\* A request that is taken in, while the backend serves.
LEMMA NewRequestKeeps == StartupInv /\ NewRequest => StartupInv'
<1> SUFFICES ASSUME StartupInv, NewRequest PROVE StartupInv'
  OBVIOUS
<1>t. /\ TypeOK /\ req \in [Workers -> Requests]
      /\ dashboards \in Seq([owner : UserIds, layout : Layouts])
      /\ Len(dashboards) \in Nat /\ Len(dashboards) =< MaxDashboards
      /\ \A w \in Workers : req[w].at \in {"refresh", "save"} => req[w].row =< Len(dashboards)
  BY DEF StartupInv, TypeOK, RequestsFit
<1>1. PICK w \in Workers, r \in Requests :
        /\ Begin(w, r) /\ Same /\ UNCHANGED tables
        /\ r.at \in {"refresh", "save"} => r.row =< Len(dashboards)
  <2>1. PICK w \in Workers :
          \/ \E name \in Names : CreateUser(w, name)
          \/ \E u \in UserIds, layout \in Layouts \cup {None} : OpenDashboard(w, u, layout)
    BY DEF NewRequest
  <2>2. CASE \E name \in Names : CreateUser(w, name)
    BY <2>2 DEF CreateUser, Requests
  <2>3. ASSUME NEW u \in UserIds, NEW layout \in Layouts \cup {None}, OpenDashboard(w, u, layout)
        PROVE  \E r \in Requests :
                 /\ Begin(w, r) /\ Same /\ UNCHANGED tables
                 /\ r.at \in {"refresh", "save"} => r.row =< Len(dashboards)
    <3>1. CASE Begin(w, [at |-> "insert", owner |-> u, layout |-> layout])
      BY <2>3, <3>1 DEF OpenDashboard, Requests
    <3>2. ASSUME NEW d \in DOMAIN dashboards, layout # None,
                 Begin(w, [at |-> "save", owner |-> u, layout |-> layout, row |-> d,
                           read |-> dashboards[d].layout])
          PROVE  \E r \in Requests :
                   /\ Begin(w, r) /\ Same /\ UNCHANGED tables
                   /\ r.at \in {"refresh", "save"} => r.row =< Len(dashboards)
      <4>1. d \in 1 .. Len(dashboards)
        BY <1>t, LenProperties
      <4>2. d \in 1 .. MaxDashboards /\ d =< Len(dashboards) /\ dashboards[d].layout \in Layouts
        BY <1>t, <4>1, RowRead
      <4>3. [at |-> "save", owner |-> u, layout |-> layout, row |-> d,
             read |-> dashboards[d].layout] \in Requests
        BY <3>2, <4>2 DEF Requests
      <4> QED
        BY <2>3, <3>2, <4>2, <4>3 DEF OpenDashboard
    <3> QED
      BY <2>3, <3>1, <3>2 DEF OpenDashboard
  <2> QED
    BY <2>1, <2>2, <2>3
<1>2. /\ pc = "serving" /\ req' \in [Workers -> Requests]
      /\ \A v \in Workers : req'[v].at \in {"refresh", "save"} => req'[v].row =< Len(dashboards)
  BY <1>t, <1>1 DEF Begin
<1>3. /\ users' \in [UserIds -> Names \cup {None}] /\ UsersCount'
      /\ (Taken(Admin) => Taken(Admin)')
  BY <1>1, UsersStay DEF Same, tables
<1>4. dashboards' = dashboards
  BY <1>1 DEF tables
<1> HIDE DEF Same
<1> QED
  BY <1>t, <1>1, <1>2, <1>3, <1>4, ServingKeeps

\* What a request holds, by its kind.
LEMMA KindOfWork ==
  ASSUME NEW r \in Requests
  PROVE  /\ r.at = "user" => r.name \in Names
         /\ r.at = "insert" => r.owner \in UserIds /\ r.layout \in Layouts \cup {None}
         /\ r.at \in {"refresh", "save"} =>
              r.owner \in UserIds /\ r.layout \in Layouts /\ r.row \in 1 .. MaxDashboards
         /\ r.at = "save" => r.read \in Layouts
BY DEF Requests, Idle

\* The steps of a request.
LEMMA WorkKeeps == StartupInv /\ Work => StartupInv'
<1> SUFFICES ASSUME StartupInv,
                    NEW w \in Workers,
                    \/ InsertUser(w) \/ InsertDashboard(w) \/ RefreshDashboard(w)
                    \/ SaveLayout(w) \/ Fail(w)
             PROVE  StartupInv'
  BY DEF Work
<1>t. /\ TypeOK /\ req \in [Workers -> Requests] /\ req[w] \in Requests
      /\ dashboards \in Seq([owner : UserIds, layout : Layouts])
      /\ Len(dashboards) \in Nat /\ Len(dashboards) =< MaxDashboards
      /\ \A v \in Workers : req[v].at \in {"refresh", "save"} => req[v].row =< Len(dashboards)
  BY DEF StartupInv, TypeOK, RequestsFit
<1>s. Same /\ pc = "serving"
  <2>1. Same /\ req[w] # Idle
    BY DEF InsertUser, InsertDashboard, RefreshDashboard, SaveLayout, Fail, Idle
  <2> QED
    BY <2>1 DEF StartupInv, RequestsFit
<1>i. Idle \in Requests /\ Idle.at = "idle"
  BY DEF Requests, Idle
<1>1. CASE InsertUser(w)
  <2>1. /\ NextUser \in UserIds /\ req[w].name \in Names /\ UNCHANGED dashboards
        /\ users' = [users EXCEPT ![NextUser] = req[w].name]
        /\ req' = [req EXCEPT ![w] = Idle]
    BY <1>t, <1>1, KindOfWork DEF InsertUser, Answer
  <2>2. disk.users # "absent" /\ pc # "user_index" /\ pc' # "user_index" /\ UNCHANGED disk
    BY <1>s DEF StartupInv, Progress, Same
  <2>3. /\ users' \in [UserIds -> Names \cup {None}] /\ UsersCount'
        /\ (Taken(Admin) => Taken(Admin)')
    BY <2>1, <2>2, NewUserKeeps
  <2>4. /\ req' \in [Workers -> Requests]
        /\ \A v \in Workers :
             req'[v].at \in {"refresh", "save"} => req'[v].row =< Len(dashboards)
    BY <1>t, <1>i, <2>1
  <2> QED
    BY <1>t, <1>s, <2>1, <2>3, <2>4, ServingKeeps
<1>2. ASSUME ~InsertUser(w) PROVE StartupInv'
  <2>1. UNCHANGED <<pc, disk, users>>
    BY <1>s, <1>2 DEF InsertDashboard, RefreshDashboard, SaveLayout, Fail, Same, tables
  <2>2. /\ users' \in [UserIds -> Names \cup {None}] /\ UsersCount'
        /\ (Taken(Admin) => Taken(Admin)')
    BY <2>1, UsersStay
  <2>3. /\ dashboards' \in Seq([owner : UserIds, layout : Layouts])
        /\ Len(dashboards') =< MaxDashboards /\ Len(dashboards) =< Len(dashboards')
        /\ req' \in [Workers -> Requests]
        /\ \A v \in Workers :
             req'[v].at \in {"refresh", "save"} => req'[v].row =< Len(dashboards')
    <3>1. CASE InsertDashboard(w)
      <4>1. /\ req[w].owner \in UserIds /\ req[w].layout \in Layouts \cup {None}
            /\ Len(dashboards) < MaxDashboards
            /\ dashboards' = Append(dashboards, [owner |-> req[w].owner, layout |-> EmptyLayout])
        BY <1>t, <3>1, KindOfWork DEF InsertDashboard
      <4>2. /\ dashboards' \in Seq([owner : UserIds, layout : Layouts])
            /\ Len(dashboards') = Len(dashboards) + 1 /\ Len(dashboards') =< MaxDashboards
            /\ Len(dashboards) + 1 \in 1 .. MaxDashboards
        BY <1>t, <4>1, DashboardAdded
      <4>3. PICK r \in Requests :
              /\ req' = [req EXCEPT ![w] = r]
              /\ r.at \in {"refresh", "save"} => r.row = Len(dashboards) + 1
        <5>1. CASE req[w].layout = None
          BY <1>i, <3>1, <5>1 DEF InsertDashboard, Answer
        <5>2. CASE req[w].layout # None
          <6>1. [at |-> "refresh", owner |-> req[w].owner, layout |-> req[w].layout,
                 row |-> Len(dashboards) + 1] \in Requests
            BY <4>1, <4>2, <5>2 DEF Requests
          <6> QED
            BY <3>1, <5>2, <6>1 DEF InsertDashboard
        <5> QED
          BY <5>1, <5>2
      <4>4. ASSUME NEW v \in Workers, req'[v].at \in {"refresh", "save"}
            PROVE  req'[v].row =< Len(dashboards')
        <5>1. CASE v = w
          BY <1>t, <4>2, <4>3, <4>4, <5>1
        <5>2. CASE v # w
          <6>1. req'[v] = req[v] /\ req[v] \in Requests /\ req[v].row =< Len(dashboards)
            BY <1>t, <4>3, <4>4, <5>2
          <6>2. req[v].row \in Nat
            BY <4>4, <6>1, KindOfWork
          <6> QED
            BY <1>t, <4>2, <6>1, <6>2
        <5> QED
          BY <5>1, <5>2
      <4> QED
        BY <1>t, <4>2, <4>3, <4>4
    <3>2. CASE RefreshDashboard(w)
      <4>1. req[w].at = "refresh" /\ UNCHANGED dashboards
        BY <3>2 DEF RefreshDashboard, tables
      <4>2. /\ req[w].owner \in UserIds /\ req[w].layout \in Layouts
            /\ req[w].row \in 1 .. MaxDashboards /\ req[w].row =< Len(dashboards)
        BY <1>t, <4>1, KindOfWork
      <4>3. dashboards[req[w].row].layout \in Layouts
        BY <1>t, <4>2, RowRead
      <4>4. [at |-> "save", owner |-> req[w].owner, layout |-> req[w].layout, row |-> req[w].row,
             read |-> dashboards[req[w].row].layout] \in Requests
        BY <4>2, <4>3 DEF Requests
      <4> QED
        BY <1>t, <3>2, <4>1, <4>2, <4>4 DEF RefreshDashboard
    <3>3. CASE SaveLayout(w)
      <4>1. req[w].at = "save" /\ req' = [req EXCEPT ![w] = Idle]
        BY <3>3 DEF SaveLayout, Answer
      <4>2. /\ req[w].layout \in Layouts
            /\ req[w].row \in 1 .. MaxDashboards /\ req[w].row =< Len(dashboards)
        BY <1>t, <4>1, KindOfWork
      <4>3. PICK layout \in Layouts :
              dashboards' = [dashboards EXCEPT ![req[w].row] =
                               [dashboards[req[w].row] EXCEPT !.layout = layout]]
        <5>1. dashboards[req[w].row].layout \in Layouts
          BY <1>t, <4>2, RowRead
        <5> QED
          BY <3>3, <4>2, <5>1 DEF SaveLayout
      <4>4. [dashboards[req[w].row] EXCEPT !.layout = layout] \in [owner : UserIds, layout : Layouts]
        <5>1. dashboards[req[w].row] \in [owner : UserIds, layout : Layouts]
          BY <1>t, <4>2, RowRead
        <5> QED
          BY <5>1
      <4>5. /\ dashboards' \in Seq([owner : UserIds, layout : Layouts])
            /\ Len(dashboards') = Len(dashboards)
        BY <1>t, <4>2, <4>3, <4>4, ExceptSeq
      <4> QED
        BY <1>t, <1>i, <4>1, <4>5
    <3>4. CASE Fail(w)
      BY <1>t, <1>i, <3>4 DEF Fail, Answer, tables
    <3> QED
      BY <1>2, <3>1, <3>2, <3>3, <3>4
  <2> QED
    BY <1>s, <2>2, <2>3, ServingKeeps
<1> QED
  BY <1>1, <1>2

(* The start as a whole *)

\* The first start finds a disk as it may be.
LEMMA StartsClean == Init => StartupInv
<1> SUFFICES ASSUME Init PROVE StartupInv
  OBVIOUS
<1>1. PICK known \in SUBSET {1}, n \in Names :
        /\ disk = FreshDisk => known = {}
        /\ users = [u \in UserIds |-> IF u \in known THEN n ELSE None]
  <2>1. CASE disk = FreshDisk
    BY <2>1 DEF Init
  <2>2. CASE disk # FreshDisk
    BY <2>2 DEF Init
  <2> QED
    BY <2>1, <2>2
<1>2. /\ pc = "down" /\ tx = None /\ dashboards = << >> /\ crashes = 0
      /\ req = [w \in Workers |-> Idle] /\ disk \in LegacyDisks \cup {FreshDisk}
  BY DEF Init
<1>3. /\ disk \in Disks /\ disk.new = None
      /\ disk = FreshDisk \/ disk.users = "indexed"
      /\ disk.agent = None \/ disk.agent.unique # "owner_hostname"
  <2>1. CASE disk = FreshDisk
    BY <2>1 DEF FreshDisk, Disks, Indexing
  <2>2. CASE disk \in LegacyDisks
    <3>1. PICK t \in LegacyTables :
            disk = [users |-> "indexed", keys |-> "indexed", agent |-> t, new |-> None]
      BY <2>2 DEF LegacyDisks
    <3>2. t \in AgentTables /\ t.unique # "owner_hostname"
      BY DEF LegacyTables, AgentTables, Uniqueness
    <3> QED
      BY <3>1, <3>2 DEF Disks, Indexing
  <2> QED
    BY <1>2, <2>1, <2>2
<1>4. /\ dashboards \in Seq([owner : UserIds, layout : Layouts]) /\ Len(dashboards) = 0
  BY <1>2, EmptySeq
<1>5. TypeOK
  BY <1>1, <1>2, <1>3, <1>4 DEF TypeOK, PC, Requests
<1>6. UsersCount
  <2>1. CASE 1 \in known /\ 1 \in UserIds
    <3>1. 1 \in 0 .. MaxUsers /\ \A u \in UserIds : users[u] # None <=> u =< 1
      BY <1>1, <2>1 DEF UserIds
    <3> QED
      BY <1>1, <1>2, <1>3, <2>1, <3>1 DEF UsersCount, FreshDisk
  <2>2. CASE ~(1 \in known /\ 1 \in UserIds)
    <3>1. 0 \in 0 .. MaxUsers /\ \A u \in UserIds : users[u] = None /\ ~(u =< 0)
      BY <1>1, <2>2 DEF UserIds
    <3> QED
      BY <3>1 DEF UsersCount
  <2> QED
    BY <2>1, <2>2
<1>7. Progress /\ LeftoverFits /\ AdminInTime /\ OnlyALeftoverStopsAStart
  BY <1>2, <1>3
     DEF Progress, LeftoverFits, AdminInTime, OnlyALeftoverStopsAStart, Rebuilding, Upgraded
<1>8. RequestsFit
  BY <1>2 DEF RequestsFit, Idle
<1> QED
  BY <1>5, <1>6, <1>7, <1>8 DEF StartupInv

\* Every statement of a start keeps the invariant.
LEMMA StartStepKeeps == StartupInv /\ StartStep => StartupInv'
BY CreateUsersKeeps, TablesKeep, RebuildKeeps, AdminKeeps DEF StartStep

\* However the backend ends, what it leaves on the disk is something a start can find.
LEMMA EndingKeeps ==
  ASSUME StartupInv, pc' = "down", tx' = None, UNCHANGED <<disk, tables>>,
         req' = [w \in Workers |-> Idle], crashes' \in 0 .. MaxCrashes
  PROVE  StartupInv'
<1> USE DEF StartupInv, tables
<1>1. TypeOK'
  BY DEF TypeOK, PC, Requests
<1>2. Progress' /\ LeftoverFits' /\ AdminInTime' /\ OnlyALeftoverStopsAStart'
  BY DEF Progress, LeftoverFits, AdminInTime, OnlyALeftoverStopsAStart,
         Rebuilding, Upgraded
<1>3. UsersCount'
  BY DEF UsersCount
<1>4. RequestsFit'
  BY DEF RequestsFit, Idle
<1> QED
  BY <1>1, <1>2, <1>3, <1>4

\* A crash forgets the transaction and leaves the disk.
LEMMA CrashKeeps == StartupInv /\ Crash => StartupInv'
<1> SUFFICES ASSUME StartupInv, Crash PROVE StartupInv'
  OBVIOUS
<1>1. crashes' \in 0 .. MaxCrashes
  BY DEF Crash, StartupInv, TypeOK
<1> QED
  BY <1>1, EndingKeeps DEF Crash

\* The start after a crash begins from whatever disk it has left.
LEMMA RestartKeeps == StartupInv /\ Restart => StartupInv'
<1> SUFFICES ASSUME StartupInv, Restart PROVE StartupInv'
  OBVIOUS
<1> USE DEF StartupInv, Restart, tables
<1>1. TypeOK'
  BY DEF TypeOK, PC, Starting
<1>2. Progress' /\ LeftoverFits' /\ AdminInTime' /\ OnlyALeftoverStopsAStart'
  BY DEF Progress, LeftoverFits, AdminInTime, OnlyALeftoverStopsAStart,
         Rebuilding, Upgraded
<1>3. UsersCount'
  BY DEF UsersCount
<1>4. RequestsFit'
  BY DEF RequestsFit
<1> QED
  BY <1>1, <1>2, <1>3, <1>4

\* Nothing changes while only the script does something.
LEMMA StutterKeeps == StartupInv /\ UNCHANGED vars => StartupInv'
BY DEF StartupInv, vars, tables, TypeOK, Progress, LeftoverFits, UsersCount, AdminInTime, Taken,
       RequestsFit, OnlyALeftoverStopsAStart

\* Every step of the start, of the requests and of a crash keeps the invariant.
LEMMA NextKeeps == StartupInv /\ [Next]_vars => StartupInv'
BY StartStepKeeps, NewRequestKeeps, WorkKeeps, CrashKeeps, RestartKeeps, StutterKeeps DEF Next

\* The invariant of the start, killed and started again as often as one likes.
THEOREM StartupInvariance == Spec => []StartupInv
<1>1. Init => StartupInv
  BY StartsClean
<1>2. StartupInv /\ [Next]_vars => StartupInv'
  BY NextKeeps
<1> QED
  BY <1>1, <1>2, PTL DEF Spec

\* No statement takes an agent off the disk: those of the rebuild only change the
\* transaction, which has all of them when it is committed.
LEMMA StatementsKeepAgents == StartupInv /\ StartStep => AgentsOnDisk \subseteq AgentsOnDisk'
<1> SUFFICES ASSUME StartupInv, StartStep, disk' # disk
             PROVE  AgentsOnDisk \subseteq AgentsOnDisk'
  BY DEF AgentsOnDisk
<1> USE DEF Runs, Goto, Nothing
<1>1. CASE CreateUsers \/ IndexUsers \/ CreateKeys \/ IndexKeys \/ CreateNew
  <2>1. pc \in Starting \ Rebuilding
    BY <1>1 DEF CreateUsers, IndexUsers, CreateKeys, IndexKeys, CreateNew, Starting, Rebuilding
  <2>2. disk \in Disks /\ View = disk /\ tx = None
    BY <2>1, AtOnce
  <2>3. disk'.agent = disk.agent
    BY <1>1, <2>2 DEF CreateUsers, IndexUsers, CreateKeys, IndexKeys, CreateNew, Fails, Ddl, Disks
  <2> QED
    BY <2>3 DEF AgentsOnDisk
<1>2. CASE CreateTables
  BY <1>2 DEF CreateTables, AgentsOnDisk
<1>3. CASE AddColumn
  <2>1. pc \in Starting \ Rebuilding /\ disk.agent # None
    BY <1>3 DEF AddColumn, Starting, Rebuilding, StartupInv, Progress
  <2>2. View = disk /\ tx = None /\ disk \in Disks /\ disk.agent \in AgentTables
    BY <2>1, AtOnce
  <2>3. PICK c : disk' = [disk EXCEPT !.agent.columns = @ \cup {c}]
    BY <1>3, <2>2 DEF AddColumn, Fails, Ddl
  <2>4. disk' = [disk EXCEPT !.agent = [disk.agent EXCEPT !.columns = @ \cup {c}]]
    BY <2>2, <2>3 DEF Disks
  <2>5. [disk.agent EXCEPT !.columns = @ \cup {c}].rows = disk.agent.rows
    BY <2>2 DEF AgentTables
  <2>6. disk'.agent = [disk.agent EXCEPT !.columns = @ \cup {c}]
    BY <2>2, <2>4 DEF Disks
  <2>7. disk'.agent # None
    <3>1. pc' = "columns"
      BY <1>3 DEF AddColumn, Fails
    <3> QED
      BY <3>1, StartStepKeeps DEF StartupInv, Progress
  <2> QED
    BY <2>1, <2>5, <2>6, <2>7 DEF AgentsOnDisk
<1>4. CASE CommitUpgrade
  <2>1. disk' = View /\ pc \in Rebuilding /\ pc = "commit"
    BY <1>4 DEF CommitUpgrade, Commit, Rebuilding
  <2>2. disk' = tx
    BY <2>1, InTransaction
  <2>3. tx # None /\ tx.agent # None /\ tx.agent.rows = disk.agent.rows /\ disk.agent # None
    BY <2>1 DEF StartupInv, Progress, Rebuilding
  <2> QED
    BY <2>2, <2>3 DEF AgentsOnDisk
<1>5. CASE DropOld \/ RenameNew \/ IndexNew
  <2>1. pc \in Rebuilding
    BY <1>5 DEF DropOld, RenameNew, IndexNew, Rebuilding
  <2> QED
    BY <1>5, <2>1, InTransaction DEF DropOld, RenameNew, IndexNew, Fails
<1> QED
  BY <1>1, <1>2, <1>3, <1>4, <1>5
     DEF StartStep, ColumnsDone, CheckUniqueness, CopyRows, Dml, LookUpAdmin, CreateAdmin,
         CreateFleetDashboard

\* No step takes an agent off the disk.
LEMMA AgentsStay == StartupInv /\ [Next]_vars => AgentsOnDisk \subseteq AgentsOnDisk'
<1> SUFFICES ASSUME StartupInv, [Next]_vars PROVE AgentsOnDisk \subseteq AgentsOnDisk'
  OBVIOUS
<1>1. CASE StartStep
  BY <1>1, StatementsKeepAgents
<1>2. CASE ~StartStep
  <2>1. disk' = disk
    BY <1>2 DEF Next, vars, Crash, Restart, NewRequest, Work, CreateUser, OpenDashboard, InsertUser,
                InsertDashboard, RefreshDashboard, SaveLayout, Fail, Same
  <2> QED
    BY <2>1 DEF AgentsOnDisk
<1> QED
  BY <1>1, <1>2

(* start.sh and its children *)

\* Which children run, by the state of each.
LEMMA InRunning ==
  /\ Running \subseteq Children /\ Running' \subseteq Children
  /\ ("uvicorn" \in Running <=> pc \notin Ended)
  /\ ("uvicorn" \in Running' <=> pc' \notin Ended)
  /\ ("nginx" \in Running <=> nginx) /\ ("nginx" \in Running' <=> nginx')
BY DEF Running, Children

\* A step of the backend is one of Startup, a step of start.sh beside it is none, and
\* what ends everything leaves the backend what a crash leaves.
LEMMA BackendKeeps == ContainerInv /\ [ContainerNext]_allVars => StartupInv'
<1> SUFFICES ASSUME ContainerInv, [ContainerNext]_allVars PROVE StartupInv'
  OBVIOUS
<1>t. StartupInv /\ TypeOK
  BY DEF ContainerInv, StartupInv
<1>1. CASE UNCHANGED vars
  BY <1>t, <1>1, StutterKeeps
<1>2. CASE StartUvicorn
  BY <1>t, <1>2, RestartKeeps DEF StartUvicorn
<1>3. CASE EverythingEnds
  BY <1>t, <1>3, EndingKeeps DEF EverythingEnds, TypeOK
<1>4. CASE UvicornObeys
  <2>1. tx = None
    BY <1>t, <1>4 DEF UvicornObeys, StartupInv, Progress, Rebuilding
  <2>2. req = [w \in Workers |-> Idle]
    BY <1>t, <1>4 DEF UvicornObeys, TypeOK
  <2> QED
    BY <1>t, <1>4, <2>1, <2>2, EndingKeeps DEF UvicornObeys, TypeOK
<1>5. CASE UvicornCrashes
  BY <1>t, <1>5, CrashKeeps DEF UvicornCrashes
<1>6. CASE NginxCrashes
  <2>1. crashes' \in 0 .. MaxCrashes /\ UNCHANGED <<pc, disk, tx, tables, req>>
    BY <1>t, <1>6 DEF NginxCrashes, TypeOK
  <2> QED
    BY <1>t, <2>1
       DEF StartupInv, tables, TypeOK, Progress, LeftoverFits, UsersCount, AdminInTime, Taken,
           RequestsFit, OnlyALeftoverStopsAStart
<1>7. CASE Starts
  BY <1>t, <1>7, StartStepKeeps DEF Starts
<1>8. CASE Serves
  BY <1>t, <1>8, NewRequestKeeps, WorkKeeps DEF Serves
<1> QED
  BY <1>1, <1>2, <1>3, <1>4, <1>5, <1>6, <1>7, <1>8
     DEF ContainerNext, ScriptStep, allVars, DockerStart, DockerStop, DockerKill, StartNginx,
         SetTrap, Look, WakeUp, Cleanup, Wait, HandleSignal, Exit, NginxObeys

\* Before docker starts it the container runs nothing.
LEMMA ContainerInitially == ContainerInit => ContainerInv
<1> SUFFICES ASSUME ContainerInit PROVE ContainerInv
  OBVIOUS
<1>1. StartupInv /\ TypeOK
  BY StartsClean DEF ContainerInit, StartupInv
<1>2. ContainerTypeOK /\ BeginsClean /\ WaitedFor
  BY <1>1 DEF ContainerInit, Init, ContainerTypeOK, BeginsClean, WaitedFor, Ended
<1> QED
  BY <1>1, <1>2 DEF ContainerInv

\* Every step of the container keeps its invariant.
LEMMA ContainerKeeps == ContainerInv /\ [ContainerNext]_allVars => ContainerInv'
<1> SUFFICES ASSUME ContainerInv, [ContainerNext]_allVars PROVE ContainerInv'
  OBVIOUS
<1>1. StartupInv' /\ TypeOK'
  BY BackendKeeps DEF StartupInv
<1>t. /\ StartupInv /\ script \in {"down", "uvicorn", "nginx", "trap", "look", "sleep", "cleanup",
                                   "wait_uvicorn", "wait_nginx", "exit"}
      /\ told \subseteq Running /\ unreaped \subseteq Children \ Running
      /\ {nginx, pending, stop_requested, asked, interrupted} \subseteq BOOLEAN
      /\ BeginsClean /\ WaitedFor
  BY DEF ContainerInv, ContainerTypeOK
<1> SUFFICES ContainerTypeOK' /\ BeginsClean' /\ WaitedFor'
  BY <1>1 DEF ContainerInv
\* Of a step it is enough to know what becomes of the two processes.
<1>r. UNCHANGED <<pc, nginx>> => Running' = Running
  BY DEF Running
<1> USE DEF Script
<1>2. CASE DockerStart \/ SetTrap \/ Look \/ WakeUp \/ DockerStop
  <2>1. UNCHANGED <<pc, nginx, told>>
    BY <1>2 DEF DockerStart, SetTrap, Look, WakeUp, DockerStop, vars
  <2>2. ContainerTypeOK'
    BY <1>1, <1>r, <1>t, <1>2, <2>1
       DEF ContainerTypeOK, DockerStart, SetTrap, Look, WakeUp, DockerStop
  <2>3. BeginsClean' /\ WaitedFor'
    BY <1>t, <1>2, <2>1
       DEF BeginsClean, WaitedFor, DockerStart, SetTrap, Look, WakeUp, DockerStop
  <2> QED
    BY <2>2, <2>3
<1>3. CASE StartUvicorn
  <2>1. /\ script = "uvicorn" /\ script' = "nginx" /\ unreaped = {} /\ ~nginx /\ ~pending
        /\ pc' \notin Ended
        /\ UNCHANGED <<nginx, told, unreaped, pending, stop_requested, asked, interrupted>>
    BY <1>t, <1>3 DEF StartUvicorn, Restart, BeginsClean, Ended
  <2>2. told = {}
    BY <1>t, <1>3, <2>1, InRunning DEF StartUvicorn, Restart, Ended, Children
  <2> QED
    BY <1>1, <1>t, <2>1, <2>2 DEF ContainerTypeOK, BeginsClean, WaitedFor
<1>4. CASE StartNginx
  <2>1. /\ script = "nginx" /\ script' = "trap" /\ ~nginx /\ ~pending /\ "nginx" \notin unreaped
        /\ nginx' = TRUE /\ pc' = pc
        /\ UNCHANGED <<told, unreaped, pending, stop_requested, asked, interrupted>>
    BY <1>t, <1>4 DEF StartNginx, BeginsClean, vars
  <2>2. told \subseteq Running' /\ unreaped \subseteq Children \ Running'
    BY <1>t, <2>1, InRunning DEF Children
  <2> QED
    BY <1>1, <1>t, <2>1, <2>2 DEF ContainerTypeOK, BeginsClean, WaitedFor
<1>5. CASE Cleanup \/ Wait \/ HandleSignal
  <2>1. CASE Cleanup
    BY <1>1, <1>r, <1>t, <2>1
       DEF Cleanup, Tell, vars, ContainerTypeOK, BeginsClean, WaitedFor
  <2>2. CASE Wait
    <3>1. UNCHANGED <<pc, nginx, told, unreaped, pending, stop_requested, asked, interrupted>>
      BY <2>2 DEF Wait, vars
    <3>2. /\ script' \in {"wait_nginx", "exit"}
          /\ (script = "wait_uvicorn" /\ pc \in Ended) \/ script = "wait_nginx"
      BY <2>2, InRunning DEF Wait, HasEnded
    <3> QED
      BY <1>1, <1>r, <1>t, <3>1, <3>2 DEF ContainerTypeOK, BeginsClean, WaitedFor
  <2>3. CASE HandleSignal
    <3>1. /\ UNCHANGED <<pc, nginx, unreaped, asked>> /\ pending' = FALSE
          /\ stop_requested' = TRUE /\ told' = Running
      BY <2>3 DEF HandleSignal, Tell, vars
    <3>2. /\ script \in {"wait_uvicorn", "wait_nginx"} =>
               script' \in {"wait_nginx", "exit"} /\ interrupted' = TRUE
          /\ script \notin {"wait_uvicorn", "wait_nginx"} =>
               script' = script /\ interrupted' = interrupted
      BY <1>t, <2>3 DEF HandleSignal
    <3>3. interrupted' \in BOOLEAN
      BY <1>t, <3>2
    <3>4. ContainerTypeOK'
      <4>1. script' \in {script, "wait_nginx", "exit"}
        BY <3>2
      <4>2. told' \subseteq Running' /\ unreaped' \subseteq Children \ Running'
        BY <1>r, <1>t, <3>1
      <4>3. {nginx', pending', stop_requested', asked', interrupted'} \subseteq BOOLEAN
        BY <1>t, <3>1, <3>3
      <4> QED
        BY <1>1, <1>t, <4>1, <4>2, <4>3 DEF ContainerTypeOK
    <3>5. BeginsClean' /\ WaitedFor'
      BY <1>t, <3>1, <3>2 DEF BeginsClean, WaitedFor
    <3> QED
      BY <3>4, <3>5
  <2> QED
    BY <1>5, <2>1, <2>2, <2>3
<1>6. CASE EverythingEnds
  <2>1. Running' = {}
    BY <1>6, InRunning DEF EverythingEnds, Children, Ended
  <2> QED
    BY <1>1, <1>t, <1>6, <2>1 DEF EverythingEnds, ContainerTypeOK, BeginsClean, WaitedFor
<1>7. CASE UvicornObeys \/ UvicornCrashes
  <2>1. /\ pc \notin Ended /\ pc' = "down" /\ Ends("uvicorn")
        /\ UNCHANGED <<script, nginx, pending, stop_requested, asked, interrupted>>
    BY <1>7 DEF UvicornObeys, UvicornCrashes, Crash, Ended
  <2>2. told' \subseteq Running' /\ unreaped' \subseteq Children \ Running'
    BY <1>t, <2>1, InRunning DEF Ends, Children, Ended
  <2>3. ContainerTypeOK'
    BY <1>1, <1>t, <2>1, <2>2 DEF ContainerTypeOK
  <2>4. BeginsClean' /\ WaitedFor'
    BY <1>t, <2>1 DEF BeginsClean, WaitedFor, Ends, Ended
  <2> QED
    BY <2>3, <2>4
<1>8. CASE NginxObeys \/ NginxCrashes
  <2>1. /\ nginx /\ ~nginx' /\ nginx' \in BOOLEAN /\ Ends("nginx") /\ pc' = pc
        /\ UNCHANGED <<script, pending, stop_requested, asked, interrupted>>
    BY <1>t, <1>8, InRunning DEF NginxObeys, NginxCrashes, vars
  <2>2. told' \subseteq Running' /\ unreaped' \subseteq Children \ Running'
    BY <1>t, <2>1, InRunning DEF Ends, Children
  <2>3. ContainerTypeOK'
    BY <1>1, <1>t, <2>1, <2>2 DEF ContainerTypeOK
  <2>4. BeginsClean' /\ WaitedFor'
    BY <1>t, <2>1 DEF BeginsClean, WaitedFor, Ends, Ended
  <2> QED
    BY <2>3, <2>4
<1>9. CASE Starts
  <2>1. pc \notin Ended /\ pc' # "down"
    BY <1>9 DEF Starts, StartStep, Runs, Fails, Goto, Ended, CreateUsers, IndexUsers, CreateKeys,
                IndexKeys, CreateTables,
                AddColumn, ColumnsDone, CheckUniqueness, CreateNew, CopyRows, DropOld, RenameNew,
                IndexNew, CommitUpgrade, LookUpAdmin, CreateAdmin, CreateFleetDashboard
  <2>2. UNCHANGED <<script, nginx, pending, stop_requested, asked, interrupted>>
    BY <1>9 DEF Starts
  <2>3. \/ pc' \in Ended /\ Ends("uvicorn")
        \/ pc' \notin Ended /\ UNCHANGED <<told, unreaped>>
    BY <1>9, <2>1 DEF Starts, Ended
  <2>4. told' \subseteq Running' /\ unreaped' \subseteq Children \ Running'
    BY <1>t, <2>1, <2>2, <2>3, InRunning DEF Ends, Children
  <2>5. ContainerTypeOK'
    BY <1>1, <1>t, <2>2, <2>4 DEF ContainerTypeOK
  <2>6. BeginsClean' /\ WaitedFor'
    BY <1>t, <2>1, <2>2, <2>3 DEF BeginsClean, WaitedFor, Ends, Ended
  <2> QED
    BY <2>5, <2>6
<1>10. CASE Serves \/ UNCHANGED allVars
  <2>1. UNCHANGED process /\ pc' = pc
    BY <1>10 DEF Serves, allVars, process, vars, NewRequest, Work, CreateUser, OpenDashboard,
                 InsertUser, InsertDashboard, RefreshDashboard, SaveLayout, Fail, Same
  <2> QED
    BY <1>1, <1>r, <1>t, <2>1 DEF process, ContainerTypeOK, BeginsClean, WaitedFor
<1> QED
  BY <1>2, <1>3, <1>4, <1>5, <1>6, <1>7, <1>8, <1>9, <1>10
     DEF ContainerNext, ScriptStep, DockerKill, Exit

\* Whatever the moments at which processes end, fail and are signalled, the backend is one
\* that Startup describes and the shell knows what it has waited for (start.sh).
THEOREM ContainerInvariance == ContainerSpec => []ContainerInv
<1>1. ContainerInit => ContainerInv
  BY ContainerInitially
<1>2. ContainerInv /\ [ContainerNext]_allVars => ContainerInv'
  BY ContainerKeeps
<1> QED
  BY <1>1, <1>2, PTL DEF ContainerSpec

\* The variables of the container keep their types; a child that has ended is not running.
THEOREM ContainerTyped == ContainerSpec => []ContainerTypeOK
<1>1. ContainerInv => ContainerTypeOK
  BY DEF ContainerInv
<1> QED
  BY <1>1, ContainerInvariance, PTL

\* Requests are served only with every table there and that of the agents upgraded, twins
\* excluded and nothing of the rebuild left, whichever older version, interrupted start or
\* crash came before (create_db_and_tables).
THEOREM UpgradedTablesServed == ContainerSpec => []ServesUpgradedTables
<1>1. ContainerInv => ServesUpgradedTables
  BY DEF ContainerInv, StartupInv, Progress, LeftoverFits, ServesUpgradedTables, Rebuilding, Upgraded
<1> QED
  BY <1>1, ContainerInvariance, PTL

\* A start that has failed found the table agent_new, or has left it.
THEOREM LeftoverStops == ContainerSpec => []OnlyALeftoverStopsAStart
<1>1. ContainerInv => OnlyALeftoverStopsAStart
  BY DEF ContainerInv, StartupInv
<1> QED
  BY <1>1, ContainerInvariance, PTL

\* A backend that serves has the administrator it is configured with, whichever users the
\* database had and wherever a start was interrupted (ensure_bootstrap_admin).
THEOREM AdminServed == ContainerSpec => []AdminExists
<1>1. ContainerInv => AdminExists
  BY DEF ContainerInv, StartupInv, AdminInTime, AdminExists
<1> QED
  BY <1>1, ContainerInvariance, PTL

\* No step of the backend takes an agent off the disk, a crash in the middle of the
\* rebuild included (ensure_agent_multi_tenant_uniqueness).
THEOREM AgentsKept == ContainerSpec => AgentsSurvive
<1>1. ContainerInv /\ [ContainerNext]_allVars => [AgentsOnDisk \subseteq AgentsOnDisk']_vars
  <2> SUFFICES ASSUME ContainerInv, [ContainerNext]_allVars, ~UNCHANGED vars
               PROVE  AgentsOnDisk \subseteq AgentsOnDisk'
    OBVIOUS
  <2>1. CASE Starts
    BY <2>1, StatementsKeepAgents DEF Starts, ContainerInv
  <2>2. CASE Serves
    BY <2>2, AgentsStay DEF Serves, ContainerInv, Next
  <2>3. CASE EverythingEnds \/ UvicornObeys \/ NginxCrashes \/ UvicornCrashes \/ StartUvicorn
    <3>1. disk' = disk
      BY <2>3 DEF EverythingEnds, UvicornObeys, NginxCrashes, UvicornCrashes, StartUvicorn,
                  Crash, Restart
    <3> QED
      BY <3>1 DEF AgentsOnDisk
  <2> QED
    BY <2>1, <2>2, <2>3
       DEF ContainerNext, ScriptStep, allVars, DockerStart, DockerStop, DockerKill, StartNginx,
           SetTrap, Look, WakeUp, Cleanup, Wait, HandleSignal, Exit, NginxObeys
<1> QED
  BY <1>1, ContainerInvariance, PTL DEF ContainerSpec, AgentsSurvive

\* A script that comes to its end, without a signal that has ended one of its waits, has
\* waited for uvicorn, which ends with no request under way (cleanup of start.sh).
THEOREM RequestsAnswered == ContainerSpec => RequestsFinish
<1>1. ContainerInv /\ [ContainerNext]_allVars =>
        [Exit /\ ~interrupted => \A w \in Workers : req[w] = Idle]_allVars
  BY DEF ContainerInv, StartupInv, RequestsFit, WaitedFor, Exit, Ended
<1> QED
  BY <1>1, ContainerInvariance, PTL DEF ContainerSpec, RequestsFinish
=============================================================================
