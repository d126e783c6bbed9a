---------------------------- MODULE PortalUsers ----------------------------
(***************************************************************************)
(* The users of the portal as a superadmin manages them (user_service.py,  *)
(* routers/users.py): create, activate and deactivate, archive and restore *)
(* them. Who may ask is decided from the token and the row of the user who *)
(* asks (security/auth.py): the row must be active and have the role, and  *)
(* an archived user keeps the session it had.                              *)
(*                                                                         *)
(* A request reads the rows, counts the other superadmins, and commits     *)
(* later what it changed, with the trace of the change; nothing locks the  *)
(* rows it counted.                                                        *)
(***************************************************************************)
EXTENDS Naturals, FiniteSets

CONSTANTS
  User,        \* the accounts there may be
  Seed,        \* the account of seed_superadmin
  Request,     \* requests being served at once
  Role,        \* the roles of the portal
  MaxChanges   \* changes committed (model bound)

ASSUME PortalUsersAssumption ==
  /\ IsFiniteSet(User)
  /\ Seed \in User
  /\ "superadmin" \in Role
  /\ MaxChanges \in Nat

VARIABLES
  users,     \* the rows: [role, active, archived]; role "" is no row
  sessions,  \* users who hold a token that has not expired
  stage, task, \* the request of each worker, and what it read
  trail,     \* how many changes the audit log records
  raced      \* whether a superadmin was removed after another request removed
             \*   one that it had counted

userVars == <<users, sessions, stage, task, trail, raced>>

NoRow == [role |-> "", active |-> FALSE, archived |-> FALSE]
NoTask == [user |-> Seed, row |-> NoRow, counted |-> {}]

Exists(u) == users[u].role # ""
CanLogIn(u) == Exists(u) /\ users[u].active /\ ~users[u].archived

(* _active_superadmins. Seeded fault: the archived ones are counted.       *)
ActiveSuperadmins_Archived ==
  {u \in User : users[u].role = "superadmin" /\ users[u].active}
ActiveSuperadmins == {u \in User : users[u].role = "superadmin" /\ CanLogIn(u)}

(* require_superadmin *)
MayManage(u) == u \in sessions /\ users[u].role = "superadmin" /\ users[u].active

(* seed_superadmin, when the service starts.                               *)
UsersInit ==
  /\ users = [u \in User |-> IF u = Seed
                             THEN [role |-> "superadmin", active |-> TRUE, archived |-> FALSE]
                             ELSE NoRow]
  /\ sessions = {}
  /\ stage = [w \in Request |-> "idle"]
  /\ task = [w \in Request |-> NoTask]
  /\ trail = 0
  /\ raced = FALSE

OpenSession(u) ==
  /\ CanLogIn(u)
  /\ sessions' = sessions \cup {u}
  /\ UNCHANGED <<users, stage, task, trail, raced>>

(* logout, or the token expires.                                           *)
CloseSession(u) ==
  /\ sessions' = sessions \ {u}
  /\ UNCHANGED <<users, stage, task, trail, raced>>

(* A request of a superadmin about a user begins: it reads and counts.     *)
BeginChange(w, u, what) ==
  /\ stage[w] = "idle"
  /\ \E actor \in User : MayManage(actor)
  /\ stage' = [stage EXCEPT ![w] = what]
  /\ task' = [task EXCEPT ![w] = [user |-> u, row |-> users[u], counted |-> ActiveSuperadmins]]
  /\ UNCHANGED <<users, sessions, trail, raced>>

(* The guard of set_active and soft_delete_user.                           *)
LastSuperadmin(u) ==
  users[u].role = "superadmin" /\ Cardinality(ActiveSuperadmins) <= 1

CreateUser(w, u) == ~Exists(u) /\ BeginChange(w, u, "create")
Deactivate(w, u) == Exists(u) /\ ~LastSuperadmin(u) /\ BeginChange(w, u, "deactivate")
Reactivate(w, u) == Exists(u) /\ BeginChange(w, u, "activate")
SoftDelete(w, u) ==
  Exists(u) /\ ~users[u].archived /\ ~LastSuperadmin(u) /\ BeginChange(w, u, "archive")
Restore(w, u) == Exists(u) /\ users[u].archived /\ BeginChange(w, u, "restore")

Commit(w, row) ==
  /\ trail < MaxChanges
  /\ users' = [users EXCEPT ![task[w].user] = row]
  /\ trail' = trail + 1
  /\ stage' = [stage EXCEPT ![w] = "idle"]
  /\ task' = [task EXCEPT ![w] = NoTask]
  /\ UNCHANGED sessions

(* A superadmin this request counted is no longer there when it commits.   *)
Overtaken(w) == ~(task[w].counted \subseteq ActiveSuperadmins)

(* A new row is refused by the unique index if another request inserted it.*)
CommitCreate(w, role) ==
  /\ stage[w] = "create"
  /\ ~Exists(task[w].user)
  /\ Commit(w, [role |-> role, active |-> TRUE, archived |-> FALSE])
  /\ UNCHANGED raced

(* A column is written only if the request changed the value it read.      *)
CommitActive(w) ==
  /\ stage[w] \in {"activate", "deactivate"}
  /\ LET wanted == stage[w] = "activate"
         row == users[task[w].user]
     IN  Commit(w, IF task[w].row.active = wanted THEN row ELSE [row EXCEPT !.active = wanted])
  /\ raced' = (raced \/ (stage[w] = "deactivate" /\ Overtaken(w)))

CommitArchived(w) ==
  /\ stage[w] \in {"archive", "restore"}
  /\ Commit(w, [users[task[w].user] EXCEPT !.archived = (stage[w] = "archive")])
  /\ raced' = (raced \/ (stage[w] = "archive" /\ Overtaken(w)))

(* The request is refused, or fails: the transaction is rolled back.       *)
ChangeRefused(w) ==
  /\ stage[w] # "idle"
  /\ stage' = [stage EXCEPT ![w] = "idle"]
  /\ task' = [task EXCEPT ![w] = NoTask]
  /\ UNCHANGED <<users, sessions, trail, raced>>

UsersNext ==
  \/ \E u \in User : OpenSession(u) \/ CloseSession(u)
  \/ \E w \in Request, u \in User :
       \/ CreateUser(w, u) \/ Deactivate(w, u) \/ Reactivate(w, u)
       \/ SoftDelete(w, u) \/ Restore(w, u)
  \/ \E w \in Request :
       \/ \E role \in Role : CommitCreate(w, role)
       \/ CommitActive(w) \/ CommitArchived(w) \/ ChangeRefused(w)

UsersSpec == UsersInit /\ [][UsersNext]_userVars

-----------------------------------------------------------------------------
(* There is always a superadmin who can log in, whatever the sequence of   *)
(* changes, unless two of them were removed by requests that counted each  *)
(* other: the guard does not exclude that, and nobody is left to undo it.  *)
SuperadminRemains ==
  raced \/ \E u \in User : users[u].role = "superadmin" /\ CanLogIn(u)
=============================================================================
