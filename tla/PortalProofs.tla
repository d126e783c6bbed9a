---------------------------- MODULE PortalProofs ----------------------------
(***************************************************************************)
(* The properties of the portal's shared state, for any number of requests *)
(* of each kind.                                                           *)
(*                                                                         *)
(* PortalUsers. An account keeps its role, so that a request that removes  *)
(* a superadmin has counted another one (CountedAnother); if nobody that   *)
(* it counted is gone when it commits, that one is still there, and if the *)
(* account is no superadmin nobody else's changes.                         *)
(*                                                                         *)
(* SecondFactor. Codes: the steps accepted since the last one was          *)
(* forgotten are at most the one in the row (LastIsHighest), and a step is *)
(* accepted only above that. Recovery codes: one that is unused has opened *)
(* nothing, and each session one has opened stands for a request that      *)
(* found it unused and is no longer looking (LookupsBounded). Enrolment:   *)
(* who is about to write a new secret read a second factor that was off    *)
(* (SetupReadOff).                                                         *)
(***************************************************************************)
EXTENDS PortalUsers, SecondFactor, FiniteSetTheorems, SequenceTheorems, TLAPS

-----------------------------------------------------------------------------
(* The accounts                                                            *)

UserRows == [role : Role \cup {""}, active : BOOLEAN, archived : BOOLEAN]
UserTasks == [user : User, row : UserRows, counted : SUBSET User]
UserStages == {"idle", "create", "deactivate", "activate", "archive", "restore"}

UsersType ==
  /\ users \in [User -> UserRows]
  /\ stage \in [Request -> UserStages]
  /\ task \in [Request -> UserTasks]

CountedAnother ==
  \A w \in Request : stage[w] \in {"deactivate", "archive"} =>
    /\ users[task[w].user].role # ""
    /\ users[task[w].user].role = "superadmin" => \E x \in task[w].counted : x # task[w].user

UsersInv == UsersType /\ CountedAnother /\ SuperadminRemains

-----------------------------------------------------------------------------
(* A set of more than one element has one besides any given one.           *)
LEMMA AnotherOne ==
  ASSUME NEW S, IsFiniteSet(S), NEW u, ~(Cardinality(S) <= 1)
  PROVE  \E x \in S : x # u
<1> SUFFICES ASSUME \A x \in S : x = u PROVE FALSE
  OBVIOUS
<1>1. S \in SUBSET {u}
  OBVIOUS
<1>2. IsFiniteSet({u}) /\ Cardinality({u}) = 1
  BY FS_Singleton
<1>3. Cardinality(S) <= 1
  BY <1>1, <1>2, FS_Subset
<1> QED
  BY <1>3

LEMMA EmptyUserTypes == NoRow \in UserRows /\ NoTask \in UserTasks
BY PortalUsersAssumption DEF NoRow, NoTask, UserRows, UserTasks

LEMMA UsersInitInv == UsersInit => UsersInv
<1> SUFFICES ASSUME UsersInit PROVE UsersInv
  OBVIOUS
<1>1. UsersType
  BY EmptyUserTypes, PortalUsersAssumption DEF UsersInit, UsersType, UserRows, UserStages
<1>2. CountedAnother
  BY DEF UsersInit, CountedAnother
<1>3. SuperadminRemains
  BY PortalUsersAssumption DEF UsersInit, SuperadminRemains, CanLogIn, Exists
<1> QED
  BY <1>1, <1>2, <1>3 DEF UsersInv

(* A request that begins and removes a superadmin has counted another.     *)
LEMMA BeginChangeInv ==
  ASSUME UsersInv, NEW w \in Request, NEW u \in User, NEW what \in UserStages, BeginChange(w, u, what),
         what \in {"deactivate", "archive"} =>
           /\ Exists(u)
           /\ users[u].role = "superadmin" => \E x \in ActiveSuperadmins : x # u
  PROVE  UsersInv'
<1> DEFINE new == [user |-> u, row |-> users[u], counted |-> ActiveSuperadmins]
<1>1. /\ stage' = [stage EXCEPT ![w] = what] /\ task' = [task EXCEPT ![w] = new]
      /\ UNCHANGED <<users, sessions, trail, raced>>
  BY DEF BeginChange
<1>2. new \in UserTasks /\ new.user = u /\ new.counted = ActiveSuperadmins
  BY DEF UsersInv, UsersType, UserTasks, ActiveSuperadmins
<1> HIDE DEF new
<1>3. UsersType'
  BY <1>1, <1>2 DEF UsersInv, UsersType
<1>4. CountedAnother'
  <2> SUFFICES ASSUME NEW v \in Request, stage'[v] \in {"deactivate", "archive"}
               PROVE  /\ users'[task'[v].user].role # ""
                      /\ users'[task'[v].user].role = "superadmin" =>
                           \E x \in task'[v].counted : x # task'[v].user
    BY <1>1 DEF CountedAnother
  <2>1. CASE v = w
    <3>1. stage'[v] = what /\ task'[v] = new /\ users' = users
      BY <1>1, <2>1 DEF UsersInv, UsersType
    <3> QED
      BY <1>2, <3>1 DEF Exists
  <2>2. CASE v # w
    <3>1. stage'[v] = stage[v] /\ task'[v] = task[v] /\ users' = users
      BY <1>1, <2>2 DEF UsersInv, UsersType
    <3> QED
      BY <3>1 DEF UsersInv, CountedAnother
  <2> QED
    BY <2>1, <2>2
<1>5. SuperadminRemains'
  BY <1>1 DEF UsersInv, SuperadminRemains, CanLogIn, Exists
<1> QED
  BY <1>3, <1>4, <1>5 DEF UsersInv

(* A commit changes one stored. When the account existed it keeps its role,   *)
(* and the requests that wait stay as they were.                           *)
LEMMA CommitTypes ==
  ASSUME UsersInv, NEW w \in Request, NEW stored \in UserRows, Commit(w, stored),
         Exists(task[w].user) => stored.role = users[task[w].user].role
  PROVE  /\ UsersType' /\ CountedAnother'
         /\ task[w].user \in User /\ users'[task[w].user] = stored
         /\ \A u \in User : u # task[w].user => users'[u] = users[u]
<1> DEFINE user == task[w].user
<1>1. /\ users' = [users EXCEPT ![user] = stored] /\ stage' = [stage EXCEPT ![w] = "idle"]
      /\ task' = [task EXCEPT ![w] = NoTask]
  BY DEF Commit
<1>2. user \in User /\ users \in [User -> UserRows]
  BY DEF UsersInv, UsersType, UserTasks
<1>3. UsersType'
  BY <1>1, <1>2, EmptyUserTypes DEF UsersInv, UsersType, UserStages
<1>4. users'[user] = stored /\ \A u \in User : u # user => users'[u] = users[u]
  BY <1>1, <1>2
<1>5. CountedAnother'
  <2> SUFFICES ASSUME NEW v \in Request, stage'[v] \in {"deactivate", "archive"}
               PROVE  /\ users'[task'[v].user].role # ""
                      /\ users'[task'[v].user].role = "superadmin" =>
                           \E x \in task'[v].counted : x # task'[v].user
    BY DEF CountedAnother
  <2>1. v # w /\ stage'[v] = stage[v] /\ task'[v] = task[v]
    BY <1>1 DEF UsersInv, UsersType
  <2>2. task[v].user \in User
    BY DEF UsersInv, UsersType, UserTasks
  <2>3. /\ users[task[v].user].role # ""
        /\ users[task[v].user].role = "superadmin" => \E x \in task[v].counted : x # task[v].user
    BY <2>1 DEF UsersInv, CountedAnother
  <2>4. users'[task[v].user].role = users[task[v].user].role
    BY <1>4, <2>2, <2>3 DEF Exists
  <2> QED
    BY <2>1, <2>3, <2>4
<1> QED
  BY <1>2, <1>3, <1>4, <1>5

(* Whoever could log in as a superadmin still can, if the stored that changes *)
(* is another one.                                                         *)
LEMMA OthersRemain ==
  ASSUME NEW y \in User, users'[y] = users[y], users[y].role = "superadmin", CanLogIn(y)
  PROVE  SuperadminRemains'
BY DEF SuperadminRemains, CanLogIn, Exists

(* The removal of an account by a request that nobody overtook.            *)
LEMMA RemovalInv ==
  ASSUME UsersInv, NEW w \in Request, stage[w] \in {"deactivate", "archive"},
         raced' = (raced \/ Overtaken(w)),
         \A u \in User : u # task[w].user => users'[u] = users[u]
  PROVE  SuperadminRemains'
<1>1. CASE raced'
  BY <1>1 DEF SuperadminRemains
<1>2. CASE ~raced'
  <2>1. task[w].counted \subseteq ActiveSuperadmins /\ ~raced
    BY <1>2, Zenon DEF Overtaken
  <2>2. CASE users[task[w].user].role = "superadmin"
    <3>1. PICK x \in task[w].counted : x # task[w].user
      BY <2>2 DEF UsersInv, CountedAnother
    <3>2. x \in User /\ users[x].role = "superadmin" /\ CanLogIn(x)
      BY <2>1, <3>1 DEF ActiveSuperadmins
    <3> QED
      BY <3>1, <3>2, OthersRemain
  <2>3. CASE users[task[w].user].role # "superadmin"
    <3>1. PICK y \in User : users[y].role = "superadmin" /\ CanLogIn(y)
      BY <2>1 DEF UsersInv, SuperadminRemains
    <3> QED
      BY <2>3, <3>1, OthersRemain
  <2> QED
    BY <2>2, <2>3
<1> QED
  BY <1>1, <1>2

(* The guard of set_active and soft_delete_user: another was counted.      *)
LEMMA GuardCounts ==
  ASSUME IsFiniteSet(User), NEW u \in User, ~LastSuperadmin(u), users[u].role = "superadmin"
  PROVE  \E x \in ActiveSuperadmins : x # u
<1>1. ActiveSuperadmins \in SUBSET User
  BY DEF ActiveSuperadmins
<1>2. IsFiniteSet(ActiveSuperadmins)
  BY <1>1, FS_Subset
<1> QED
  BY <1>2, AnotherOne DEF LastSuperadmin

LEMMA RequestInv ==
  ASSUME IsFiniteSet(User), UsersInv, NEW w \in Request, NEW u \in User,
         \/ CreateUser(w, u) \/ Deactivate(w, u) \/ Reactivate(w, u)
         \/ SoftDelete(w, u) \/ Restore(w, u)
  PROVE  UsersInv'
<1>1. CASE CreateUser(w, u) \/ Reactivate(w, u) \/ Restore(w, u)
  BY <1>1, BeginChangeInv DEF CreateUser, Reactivate, Restore, UserStages
<1>2. CASE Deactivate(w, u)
  BY <1>2, BeginChangeInv, GuardCounts DEF Deactivate, UserStages
<1>3. CASE SoftDelete(w, u)
  BY <1>3, BeginChangeInv, GuardCounts DEF SoftDelete, UserStages
<1> QED
  BY <1>1, <1>2, <1>3

LEMMA CommitCreateInv ==
  ASSUME UsersInv, NEW w \in Request, NEW role \in Role, CommitCreate(w, role)
  PROVE  UsersInv'
<1> DEFINE stored == [role |-> role, active |-> TRUE, archived |-> FALSE]
<1>1. stored \in UserRows /\ ~Exists(task[w].user) /\ Commit(w, stored) /\ raced' = raced
  BY DEF CommitCreate, UserRows
<1> HIDE DEF stored
<1>2. /\ UsersType' /\ CountedAnother'
      /\ \A u \in User : u # task[w].user => users'[u] = users[u]
  BY <1>1, CommitTypes
<1>3. CASE raced
  BY <1>1, <1>2, <1>3 DEF UsersInv, SuperadminRemains
<1>4. CASE ~raced
  <2>1. PICK y \in User : users[y].role = "superadmin" /\ CanLogIn(y)
    BY <1>4 DEF UsersInv, SuperadminRemains
  <2>2. users'[y] = users[y]
    BY <1>1, <1>2, <2>1 DEF Exists
  <2> QED
    BY <1>2, <2>1, <2>2, OthersRemain DEF UsersInv
<1> QED
  BY <1>3, <1>4

(* The stored of an existing account with one of its columns changed.         *)
LEMMA CommitActiveInv ==
  ASSUME UsersInv, NEW w \in Request, CommitActive(w)
  PROVE  UsersInv'
<1> DEFINE user == task[w].user
           wanted == stage[w] = "activate"
           stored == IF task[w].row.active = wanted THEN users[user]
                  ELSE [users[user] EXCEPT !.active = wanted]
<1>1. /\ stage[w] \in {"activate", "deactivate"} /\ Commit(w, stored)
      /\ raced' = (raced \/ (stage[w] = "deactivate" /\ Overtaken(w)))
  BY DEF CommitActive
<1>2. users[user] \in UserRows /\ user \in User
  BY DEF UsersInv, UsersType, UserTasks
<1>3. /\ stored \in UserRows /\ stored.role = users[user].role /\ stored.archived = users[user].archived
      /\ wanted => stored.active = users[user].active \/ stored.active = TRUE
  BY <1>2 DEF UserRows
<1> HIDE DEF stored, wanted
<1>4. /\ UsersType' /\ CountedAnother' /\ users'[user] = stored
      /\ \A u \in User : u # user => users'[u] = users[u]
  BY <1>1, <1>3, CommitTypes
<1>5. CASE stage[w] = "deactivate"
  <2>1. raced' = (raced \/ Overtaken(w))
    BY <1>1, <1>5, Zenon
  <2> QED
    BY <1>4, <1>5, <2>1, RemovalInv DEF UsersInv
<1>6. CASE stage[w] = "activate"
  <2>1. raced => raced'
    BY <1>1, Zenon
  <2>2. CASE raced
    BY <1>4, <2>1, <2>2 DEF UsersInv, SuperadminRemains
  <2>3. CASE ~raced
    <3>1. PICK y \in User : users[y].role = "superadmin" /\ CanLogIn(y)
      BY <2>3 DEF UsersInv, SuperadminRemains
    <3>2. /\ users'[y].role = "superadmin" /\ users'[y].archived = users[y].archived
          /\ users'[y].active = users[y].active \/ users'[y].active = TRUE
      BY <1>3, <1>4, <1>6, <3>1 DEF wanted
    <3>3. SuperadminRemains'
      BY <3>1, <3>2 DEF SuperadminRemains, CanLogIn, Exists
    <3> QED
      BY <1>4, <3>3 DEF UsersInv
  <2> QED
    BY <2>2, <2>3
<1> QED
  BY <1>1, <1>5, <1>6

LEMMA CommitArchivedInv ==
  ASSUME UsersInv, NEW w \in Request, CommitArchived(w)
  PROVE  UsersInv'
<1> DEFINE user == task[w].user
           stored == [users[user] EXCEPT !.archived = (stage[w] = "archive")]
<1>1. /\ stage[w] \in {"archive", "restore"} /\ Commit(w, stored)
      /\ raced' = (raced \/ (stage[w] = "archive" /\ Overtaken(w)))
  BY DEF CommitArchived
<1>2. users[user] \in UserRows /\ user \in User
  BY DEF UsersInv, UsersType, UserTasks
<1>3. /\ stored \in UserRows /\ stored.role = users[user].role /\ stored.active = users[user].active
      /\ stored.archived = (stage[w] = "archive")
  BY <1>2 DEF UserRows
<1> HIDE DEF stored
<1>4. /\ UsersType' /\ CountedAnother' /\ users'[user] = stored
      /\ \A u \in User : u # user => users'[u] = users[u]
  BY <1>1, <1>3, CommitTypes
<1>5. CASE stage[w] = "archive"
  <2>1. raced' = (raced \/ Overtaken(w))
    BY <1>1, <1>5, Zenon
  <2> QED
    BY <1>4, <1>5, <2>1, RemovalInv DEF UsersInv
<1>6. CASE stage[w] = "restore"
  <2>1. raced => raced'
    BY <1>1, Zenon
  <2>2. CASE raced
    BY <1>4, <2>1, <2>2 DEF UsersInv, SuperadminRemains
  <2>3. CASE ~raced
    <3>1. PICK y \in User : users[y].role = "superadmin" /\ CanLogIn(y)
      BY <2>3 DEF UsersInv, SuperadminRemains
    <3>2. /\ users'[y].role = "superadmin" /\ users'[y].active = users[y].active
          /\ ~users'[y].archived
      BY <1>3, <1>4, <1>6, <3>1 DEF CanLogIn
    <3>3. SuperadminRemains'
      BY <3>1, <3>2 DEF SuperadminRemains, CanLogIn, Exists
    <3> QED
      BY <1>4, <3>3 DEF UsersInv
  <2> QED
    BY <2>2, <2>3
<1> QED
  BY <1>1, <1>5, <1>6

(* Sessions come and go, and a request is refused, over the same rows.     *)
LEMMA UsersQuietInv ==
  ASSUME UsersInv, UNCHANGED <<users, raced>>,
         \/ UNCHANGED <<stage, task>>
         \/ \E w \in Request : /\ stage' = [stage EXCEPT ![w] = "idle"]
                              /\ task' = [task EXCEPT ![w] = NoTask]
  PROVE  UsersInv'
<1>1. SuperadminRemains'
  BY DEF UsersInv, SuperadminRemains, CanLogIn, Exists
<1>2. CASE UNCHANGED <<stage, task>>
  BY <1>1, <1>2 DEF UsersInv, UsersType, CountedAnother
<1>3. ASSUME NEW w \in Request, stage' = [stage EXCEPT ![w] = "idle"], task' = [task EXCEPT ![w] = NoTask]
      PROVE  UsersInv'
  <2>1. UsersType'
    BY <1>3, EmptyUserTypes DEF UsersInv, UsersType, UserStages
  <2>2. CountedAnother'
    BY <1>3 DEF UsersInv, UsersType, CountedAnother
  <2> QED
    BY <1>1, <2>1, <2>2 DEF UsersInv
<1> QED
  BY <1>2, <1>3

LEMMA UsersStepInv ==
  ASSUME IsFiniteSet(User), UsersInv, [UsersNext]_userVars
  PROVE  UsersInv'
<1>1. CASE UNCHANGED userVars
  BY <1>1, UsersQuietInv DEF userVars
<1>2. ASSUME NEW u \in User, OpenSession(u) \/ CloseSession(u) PROVE UsersInv'
  BY <1>2, UsersQuietInv DEF OpenSession, CloseSession
<1>3. ASSUME NEW w \in Request, ChangeRefused(w) PROVE UsersInv'
  BY <1>3, UsersQuietInv DEF ChangeRefused
<1>4. ASSUME NEW w \in Request, NEW role \in Role, CommitCreate(w, role) PROVE UsersInv'
  BY <1>4, CommitCreateInv
<1>5. ASSUME NEW w \in Request, CommitActive(w) \/ CommitArchived(w) PROVE UsersInv'
  BY <1>5, CommitActiveInv, CommitArchivedInv
<1> QED
  BY <1>1, <1>2, <1>3, <1>4, <1>5, RequestInv DEF UsersNext

(* The guard against removing the last superadmin is enough for any number *)
(* of accounts and requests, as long as no superadmin that a removal       *)
(* counted is removed before it commits.                                   *)
THEOREM GuardSuffices == UsersSpec => []SuperadminRemains
<1>1. UsersInv /\ [UsersNext]_userVars => UsersInv'
  BY UsersStepInv, PortalUsersAssumption
<1>2. UsersInv => SuperadminRemains
  BY DEF UsersInv
<1> QED
  BY UsersInitInv, <1>1, <1>2, PTL DEF UsersSpec

-----------------------------------------------------------------------------
(* The second factor                                                       *)

Rows == [secret : Nat, enabled : BOOLEAN, last : Int, codes : SUBSET Nat, used : SUBSET Nat]

Places == {"idle", "setup", "activate", "disable", "login", "recovering"}
Entries == [epoch : Nat, step : Int]

TypeInv ==
  /\ step \in Nat
  /\ row \in Rows
  /\ issued \in Nat
  /\ pc \in [Worker -> Places]
  /\ job \in [Worker -> [user : Rows, code : Nat]]
  /\ accepted \in Seq(Entries)
  /\ epoch \in Nat
  /\ uses \in Seq(Nat)
  /\ lost \in BOOLEAN

LastIsHighest ==
  \A i \in DOMAIN accepted :
    /\ accepted[i].epoch <= epoch
    /\ accepted[i].epoch = epoch => accepted[i].step <= row.last

(* A recovery code that is kept was made out, and its uses are counted.    *)
CodesCounted == row.codes \cup row.used \subseteq 1..Len(uses)

SetupReadOff == \A w \in Worker : pc[w] = "setup" => ~job[w].user.enabled

EnrolmentInv ==
  /\ TypeInv /\ CodesCounted
  /\ LastIsHighest /\ CodeOpensOnce /\ SetupReadOff /\ EnabledIsConfirmed

-----------------------------------------------------------------------------
(* The row of an account without second factor; an idle request read none. *)
LEMMA EmptyTypes ==
  /\ NoUser \in Rows /\ NoUser.enabled = FALSE
  /\ NoJob \in [user : Rows, code : Nat]
BY DEF NoJob, NoUser, Rows

LEMMA InitEnrolment == Init => EnrolmentInv
<1> SUFFICES ASSUME Init PROVE EnrolmentInv
  OBVIOUS
<1>1. /\ row \in Rows /\ ~row.enabled
      /\ job \in [Worker -> [user : Rows, code : Nat]]
  BY EmptyTypes DEF Init
<1>2. /\ step = 2 /\ issued = 0 /\ epoch = 0 /\ lost = FALSE /\ accepted = <<>> /\ uses = <<>>
      /\ pc = [w \in Worker |-> "idle"]
  BY DEF Init
<1>3. TypeInv /\ CodesCounted
  <2>1. accepted \in Seq(Entries) /\ uses \in Seq(Nat)
    BY <1>2
  <2>2. step \in Nat /\ issued \in Nat /\ epoch \in Nat /\ lost \in BOOLEAN
    BY <1>2
  <2>3. pc \in [Worker -> Places]
    BY <1>2 DEF Places
  <2>4. row.codes = {} /\ row.used = {}
    BY DEF Init, NoUser
  <2> QED
    BY <1>1, <2>1, <2>2, <2>3, <2>4 DEF TypeInv, CodesCounted
<1>4. SetupReadOff
  BY <1>2 DEF SetupReadOff
<1>5. DOMAIN accepted = {}
  BY <1>2
<1> QED
  BY <1>1, <1>3, <1>4, <1>5 DEF EnrolmentInv, LastIsHighest, CodeOpensOnce, EnabledIsConfirmed

LEMMA BeginEnrolment ==
  ASSUME EnrolmentInv, NEW w \in Worker,
         NEW where \in Places, Begin(w, where), where = "setup" => ~row.enabled
  PROVE  EnrolmentInv'
<1>1. UNCHANGED <<step, row, issued, confirmed, accepted, epoch, uses, lost>>
  BY DEF Begin
<1>2. pc' = [pc EXCEPT ![w] = where] /\ job' = [job EXCEPT ![w].user = row]
  BY DEF Begin
<1>3. TypeInv'
  BY <1>1, <1>2 DEF EnrolmentInv, TypeInv
<1>4. SetupReadOff'
  BY <1>2 DEF EnrolmentInv, TypeInv, SetupReadOff
<1> QED
  BY <1>1, <1>3, <1>4
     DEF EnrolmentInv, CodesCounted, LastIsHighest, CodeOpensOnce, EnabledIsConfirmed

(* The request that ends leaves the others as they are.                    *)
LEMMA EndTypes ==
  ASSUME EnrolmentInv, NEW w \in Worker, End(w)
  PROVE  /\ pc' \in [Worker -> Places] /\ job' \in [Worker -> [user : Rows, code : Nat]]
         /\ SetupReadOff'
<1>1. pc' = [pc EXCEPT ![w] = "idle"] /\ job' = [job EXCEPT ![w] = NoJob]
  BY DEF End
<1>2. pc \in [Worker -> Places] /\ job \in [Worker -> [user : Rows, code : Nat]]
  BY DEF EnrolmentInv, TypeInv
<1>3. pc' \in [Worker -> Places] /\ job' \in [Worker -> [user : Rows, code : Nat]]
  BY <1>1, <1>2, EmptyTypes DEF Places
<1>4. \A v \in Worker : pc'[v] = "setup" => pc[v] = "setup" /\ job'[v] = job[v]
  BY <1>1, <1>2
<1>5. SetupReadOff'
  BY <1>4 DEF EnrolmentInv, SetupReadOff
<1> QED
  BY <1>3, <1>5

(* A step above the last one extends the steps accepted in its epoch.      *)
LEMMA SpendOnce ==
  ASSUME EnrolmentInv, NEW paso \in Int, row.last < paso, Spend(paso), row'.last = paso,
         row' \in Rows, epoch' = epoch
  PROVE  accepted' \in Seq(Entries) /\ LastIsHighest' /\ CodeOpensOnce'
<1> DEFINE new == [epoch |-> epoch, step |-> paso]
<1>1. accepted' = Append(accepted, new) /\ new \in Entries
  BY DEF Spend, EnrolmentInv, TypeInv, Entries
<1>2. /\ accepted \in Seq(Entries) /\ epoch \in Nat /\ row.last \in Int
      /\ new.epoch = epoch /\ new.step = paso
  BY DEF EnrolmentInv, TypeInv, Rows
<1> HIDE DEF new
<1>3. /\ accepted' \in Seq(Entries)
      /\ Len(accepted') = Len(accepted) + 1
      /\ \A i \in 1..Len(accepted) : accepted'[i] = accepted[i]
      /\ accepted'[Len(accepted) + 1] = new
  BY <1>1, <1>2
<1>4. DOMAIN accepted = 1..Len(accepted) /\ DOMAIN accepted' = 1..(Len(accepted) + 1)
      /\ Len(accepted) \in Nat
  BY <1>2, <1>3
<1>5. \A i \in 1..Len(accepted) :
        /\ accepted[i].epoch \in Nat /\ accepted[i].step \in Int
        /\ accepted[i].epoch <= epoch
        /\ accepted[i].epoch = epoch => accepted[i].step < paso
  <2> SUFFICES ASSUME NEW i \in 1..Len(accepted)
               PROVE  /\ accepted[i].epoch \in Nat /\ accepted[i].step \in Int
                      /\ accepted[i].epoch <= epoch
                      /\ accepted[i].epoch = epoch => accepted[i].step < paso
    OBVIOUS
  <2>1. accepted[i] \in Entries
    BY <1>2
  <2>2. /\ accepted[i].epoch <= epoch
        /\ accepted[i].epoch = epoch => accepted[i].step <= row.last
    BY <1>4 DEF EnrolmentInv, LastIsHighest
  <2> QED
    BY <1>2, <2>1, <2>2 DEF Entries
<1>6. LastIsHighest'
  <2> SUFFICES ASSUME NEW i \in 1..(Len(accepted) + 1)
               PROVE  /\ accepted'[i].epoch <= epoch
                      /\ accepted'[i].epoch = epoch => accepted'[i].step <= paso
    BY <1>4 DEF LastIsHighest
  <2>1. CASE i \in 1..Len(accepted)
    BY <2>1, <1>3, <1>5
  <2>2. CASE i = Len(accepted) + 1
    BY <2>2, <1>2, <1>3
  <2> QED
    BY <1>4, <2>1, <2>2
<1>7. CodeOpensOnce'
  <2> SUFFICES ASSUME NEW i \in 1..(Len(accepted) + 1), NEW j \in 1..(Len(accepted) + 1),
                      i < j, accepted'[i].epoch = accepted'[j].epoch
               PROVE  accepted'[i].step < accepted'[j].step
    BY <1>4 DEF CodeOpensOnce
  <2>1. i \in 1..Len(accepted)
    BY <1>4
  <2>2. CASE j \in 1..Len(accepted)
    BY <2>1, <2>2, <1>3, <1>4 DEF EnrolmentInv, CodeOpensOnce
  <2>3. CASE j = Len(accepted) + 1
    BY <2>1, <2>3, <1>2, <1>3, <1>5
  <2> QED
    BY <1>4, <2>2, <2>3
<1> QED
  BY <1>3, <1>6, <1>7

LEMMA StoreSecretEnrolment ==
  ASSUME EnrolmentInv, NEW w \in Worker, StoreSecret(w)
  PROVE  EnrolmentInv'
<1>1. /\ pc[w] = "setup" /\ row' = [row EXCEPT !.secret = issued + 1] /\ issued' = issued + 1
      /\ lost' = (lost \/ Stale(w)) /\ End(w)
      /\ UNCHANGED <<step, confirmed, accepted, epoch, uses>>
  BY DEF StoreSecret, Writes
<1>2. /\ row' \in Rows /\ row'.last = row.last /\ row'.enabled = row.enabled
      /\ row'.codes = row.codes /\ row'.used = row.used
  <2>1. row \in Rows /\ issued + 1 \in Nat
    BY DEF EnrolmentInv, TypeInv
  <2> QED
    BY <1>1, <2>1 DEF Rows
<1>3. TypeInv' /\ SetupReadOff'
  BY <1>1, <1>2, EndTypes DEF EnrolmentInv, TypeInv, Stale
<1>4. CodesCounted' /\ LastIsHighest' /\ CodeOpensOnce'
  BY <1>1, <1>2 DEF EnrolmentInv, CodesCounted, LastIsHighest, CodeOpensOnce
<1>5. EnabledIsConfirmed'
  BY <1>1, <1>2 DEF EnrolmentInv, SetupReadOff, EnabledIsConfirmed, Stale
<1> QED
  BY <1>3, <1>4, <1>5 DEF EnrolmentInv

LEMMA ConfirmEnrolment ==
  ASSUME EnrolmentInv, NEW w \in Worker, NEW paso \in Int, Confirm(w, paso)
  PROVE  EnrolmentInv'
<1>1. /\ row.last < paso /\ Spend(paso) /\ uses' = Append(uses, 0)
      /\ row' = [row EXCEPT !.enabled = TRUE, !.last = paso, !.codes = @ \cup {Len(uses) + 1}]
      /\ confirmed' = confirmed \cup {job[w].user.secret}
      /\ lost' = (lost \/ Stale(w)) /\ End(w)
      /\ UNCHANGED <<step, issued, epoch>>
  BY DEF Confirm, Accepts, Writes
<1>2. row' \in Rows /\ row'.last = paso /\ row'.secret = row.secret /\ uses' \in Seq(Nat)
  <2>1. row \in Rows /\ uses \in Seq(Nat) /\ Len(uses) + 1 \in Nat
    BY DEF EnrolmentInv, TypeInv
  <2>2. uses' \in Seq(Nat)
    BY <1>1, <2>1
  <2>3. row.codes \cup {Len(uses) + 1} \in SUBSET Nat
    BY <2>1 DEF Rows
  <2> QED
    BY <1>1, <2>1, <2>2, <2>3 DEF Rows
<1>3. accepted' \in Seq(Entries) /\ LastIsHighest' /\ CodeOpensOnce'
  BY <1>1, <1>2, SpendOnce
<1>4. TypeInv' /\ SetupReadOff'
  BY <1>1, <1>2, <1>3, EndTypes DEF EnrolmentInv, TypeInv, Stale
<1>5. Stale(w) \/ job[w].user.secret = row.secret
  BY DEF Stale
<1>8. CodesCounted'
  <2>1. uses \in Seq(Nat) /\ row \in Rows /\ row.codes \cup row.used \subseteq 1..Len(uses)
    BY DEF EnrolmentInv, TypeInv, CodesCounted
  <2>2. Len(uses') = Len(uses) + 1 /\ Len(uses) \in Nat
    BY <1>1, <2>1
  <2>3. row'.codes = row.codes \cup {Len(uses) + 1} /\ row'.used = row.used
    BY <1>1, <2>1 DEF Rows
  <2> QED
    BY <2>1, <2>2, <2>3 DEF CodesCounted
<1>6. row'.secret \in confirmed' \/ lost'
  <2>1. CASE Stale(w)
    BY <1>1, <2>1, Zenon
  <2>2. CASE job[w].user.secret = row.secret
    BY <1>1, <1>2, <2>2
  <2> QED
    BY <1>5, <2>1, <2>2
<1>7. EnabledIsConfirmed'
  BY <1>6 DEF EnabledIsConfirmed
<1> QED
  BY <1>3, <1>4, <1>7, <1>8 DEF EnrolmentInv

(* Forgetting the last step begins an epoch that has none.                 *)
LEMMA ForgetEnrolment ==
  ASSUME EnrolmentInv, NEW w \in Worker, Forget(w)
  PROVE  EnrolmentInv'
<1> DEFINE user == job[w].user
<1>1. PICK gone \in {user.codes \cup user.used, row.codes \cup row.used} :
        row' = [secret  |-> IF user.secret # 0 THEN 0 ELSE row.secret,
                enabled |-> row.enabled /\ ~user.enabled,
                last    |-> IF user.last # 0 THEN 0 ELSE row.last,
                codes   |-> row.codes \ gone,
                used    |-> row.used \ gone]
  BY DEF Forget
<1>2. /\ epoch' = (IF user.last # 0 THEN epoch + 1 ELSE epoch)
      /\ lost' = (lost \/ Stale(w)) /\ End(w)
      /\ UNCHANGED <<step, issued, confirmed, accepted, uses>>
  BY DEF Forget, Writes
<1>3. user \in Rows /\ row \in Rows /\ epoch \in Nat /\ lost \in BOOLEAN
  BY DEF EnrolmentInv, TypeInv
<1>4. /\ row' \in Rows /\ row'.last = (IF user.last # 0 THEN 0 ELSE row.last)
      /\ row'.enabled = (row.enabled /\ ~user.enabled)
  BY <1>1, <1>3 DEF Rows
<1>5. Stale(w) \in BOOLEAN
  BY DEF Stale
<1>6. TypeInv' /\ SetupReadOff'
  BY <1>2, <1>3, <1>4, <1>5, EndTypes DEF EnrolmentInv, TypeInv
<1>7. LastIsHighest'
  <2> SUFFICES ASSUME NEW i \in DOMAIN accepted
               PROVE  /\ accepted[i].epoch <= epoch'
                      /\ accepted[i].epoch = epoch' => accepted[i].step <= row'.last
    BY <1>2 DEF LastIsHighest
  <2>1. /\ accepted[i].epoch \in Nat /\ accepted[i].epoch <= epoch
        /\ accepted[i].epoch = epoch => accepted[i].step <= row.last
    <3>1. accepted[i] \in Entries
      BY DEF EnrolmentInv, TypeInv
    <3> QED
      BY <3>1 DEF EnrolmentInv, LastIsHighest, Entries
  <2>2. CASE user.last # 0
    BY <1>2, <1>3, <2>1, <2>2
  <2>3. CASE user.last = 0
    BY <1>2, <1>4, <2>1, <2>3
  <2> QED
    BY <2>2, <2>3
<1>8. CodeOpensOnce'
  BY <1>2 DEF EnrolmentInv, CodeOpensOnce
<1>10. CodesCounted'
  BY <1>1, <1>2 DEF EnrolmentInv, CodesCounted
<1>9. EnabledIsConfirmed'
  BY <1>2, <1>3, <1>4 DEF EnabledIsConfirmed, Stale, Rows
<1> QED
  BY <1>6, <1>7, <1>8, <1>9, <1>10 DEF EnrolmentInv

LEMMA LoginEnrolment ==
  ASSUME EnrolmentInv, NEW w \in Worker, NEW paso \in Int, LoginWithCode(w, paso)
  PROVE  EnrolmentInv'
<1>1. /\ row.last < paso /\ Spend(paso) /\ row' = [row EXCEPT !.last = paso] /\ End(w)
      /\ UNCHANGED <<step, issued, confirmed, epoch, uses, lost>>
  BY DEF LoginWithCode, Accepts
<1>2. /\ row' \in Rows /\ row'.last = paso /\ row'.secret = row.secret
      /\ row'.enabled = row.enabled /\ row'.codes = row.codes /\ row'.used = row.used
  BY <1>1 DEF EnrolmentInv, TypeInv, Rows
<1>3. accepted' \in Seq(Entries) /\ LastIsHighest' /\ CodeOpensOnce'
  BY <1>1, <1>2, SpendOnce
<1>4. TypeInv' /\ SetupReadOff'
  BY <1>1, <1>2, <1>3, EndTypes DEF EnrolmentInv, TypeInv
<1>5. CodesCounted' /\ EnabledIsConfirmed'
  BY <1>1, <1>2 DEF EnrolmentInv, CodesCounted, EnabledIsConfirmed
<1> QED
  BY <1>3, <1>4, <1>5 DEF EnrolmentInv

LEMMA FindEnrolment ==
  ASSUME EnrolmentInv, NEW w \in Worker, FindRecoveryCode(w)
  PROVE  EnrolmentInv'
<1>1. PICK c \in row.codes : job' = [job EXCEPT ![w].code = c]
  BY DEF FindRecoveryCode
<1>2. /\ pc' = [pc EXCEPT ![w] = "recovering"]
      /\ UNCHANGED <<step, row, issued, confirmed, accepted, epoch, uses, lost>>
  BY DEF FindRecoveryCode
<1>3. c \in Nat
  BY DEF EnrolmentInv, TypeInv, Rows
<1>4. TypeInv'
  BY <1>1, <1>2, <1>3 DEF EnrolmentInv, TypeInv, Places
<1>5. SetupReadOff'
  BY <1>1, <1>2 DEF EnrolmentInv, TypeInv, SetupReadOff
<1> QED
  BY <1>2, <1>4, <1>5
     DEF EnrolmentInv, CodesCounted, LastIsHighest, CodeOpensOnce, EnabledIsConfirmed

LEMMA SpendRecoveryEnrolment ==
  ASSUME EnrolmentInv, NEW w \in Worker, SpendRecoveryCode(w)
  PROVE  EnrolmentInv'
<1> DEFINE code == job[w].code
<1>1. /\ row' = [row EXCEPT !.codes = @ \ {code}, !.used = @ \cup {code}]
      /\ uses' = [uses EXCEPT ![code] = @ + 1] /\ End(w)
      /\ code \in row.codes \cup row.used
      /\ UNCHANGED <<step, issued, confirmed, accepted, epoch, lost>>
  BY DEF SpendRecoveryCode
<1>2. uses \in Seq(Nat) /\ row \in Rows /\ code \in 1..Len(uses)
  BY <1>1 DEF EnrolmentInv, TypeInv, CodesCounted
<1> HIDE DEF code
<1>3. uses' \in Seq(Nat) /\ Len(uses') = Len(uses)
  BY <1>1, <1>2, ExceptSeq
<1>4. /\ row' \in Rows /\ row'.last = row.last /\ row'.secret = row.secret
      /\ row'.enabled = row.enabled
      /\ row'.codes = row.codes \ {code} /\ row'.used = row.used \cup {code}
  BY <1>1, <1>2 DEF Rows
<1>5. TypeInv' /\ SetupReadOff'
  BY <1>1, <1>3, <1>4, EndTypes DEF EnrolmentInv, TypeInv
<1>6. CodesCounted'
  BY <1>2, <1>3, <1>4 DEF EnrolmentInv, CodesCounted
<1> QED
  BY <1>1, <1>4, <1>5, <1>6 DEF EnrolmentInv, LastIsHighest, CodeOpensOnce, EnabledIsConfirmed

LEMMA QuietEnrolment ==
  ASSUME EnrolmentInv, UNCHANGED <<row, issued, confirmed, accepted, epoch, uses, lost>>,
         step' \in Nat,
         UNCHANGED <<pc, job>> \/ \E w \in Worker : End(w)
  PROVE  EnrolmentInv'
<1>1. TypeInv' /\ SetupReadOff'
  <2>1. CASE UNCHANGED <<pc, job>>
    BY <2>1 DEF EnrolmentInv, TypeInv, SetupReadOff
  <2>2. CASE \E w \in Worker : End(w)
    BY <2>2, EndTypes DEF EnrolmentInv, TypeInv
  <2> QED
    BY <2>1, <2>2
<1> QED
  BY <1>1 DEF EnrolmentInv, CodesCounted, LastIsHighest, CodeOpensOnce, EnabledIsConfirmed

LEMMA ToleratedType == step \in Nat => Tolerated \subseteq Int
BY DEF Tolerated

LEMMA StepEnrolment == EnrolmentInv /\ [Next]_vars => EnrolmentInv'
<1> SUFFICES ASSUME EnrolmentInv, [Next]_vars PROVE EnrolmentInv'
  OBVIOUS
<1>1. step \in Nat /\ Tolerated \subseteq Int
  BY ToleratedType DEF EnrolmentInv, TypeInv
<1>2. CASE UNCHANGED vars
  BY <1>1, <1>2, QuietEnrolment DEF vars
<1>3. CASE Tick
  BY <1>1, <1>3, QuietEnrolment DEF Tick
<1>4. ASSUME NEW w \in Worker, Setup(w) PROVE EnrolmentInv'
  BY <1>4, BeginEnrolment DEF Setup, MayEnrol, Places
<1>5. ASSUME NEW w \in Worker, Activate(w) \/ Disable(w) \/ Login(w) PROVE EnrolmentInv'
  BY <1>5, BeginEnrolment DEF Activate, Disable, Login, Places
<1>6. ASSUME NEW w \in Worker, Refused(w) PROVE EnrolmentInv'
  BY <1>1, <1>6, QuietEnrolment DEF Refused
<1>7. ASSUME NEW w \in Worker,
             \/ StoreSecret(w) \/ Forget(w) \/ FindRecoveryCode(w) \/ SpendRecoveryCode(w)
      PROVE  EnrolmentInv'
  BY <1>7, StoreSecretEnrolment, ForgetEnrolment, FindEnrolment, SpendRecoveryEnrolment
<1>8. ASSUME NEW w \in Worker, NEW paso \in Tolerated, Confirm(w, paso) \/ LoginWithCode(w, paso)
      PROVE  EnrolmentInv'
  BY <1>1, <1>8, ConfirmEnrolment, LoginEnrolment
<1> QED
  BY <1>2, <1>3, <1>4, <1>5, <1>6, <1>7, <1>8 DEF Next

(* Every reachable state satisfies the invariant of enrolment and codes.   *)
THEOREM EnrolmentInvariance == Spec => []EnrolmentInv
BY InitEnrolment, StepEnrolment, PTL DEF Spec

(* The conditional UPDATE of verify_code is enough for any number of       *)
(* requests: within an epoch the accepted steps only grow, so that no code *)
(* is accepted twice.                                                      *)
THEOREM CodesOpenOnce == Spec => []CodeOpensOnce
<1>1. EnrolmentInv => CodeOpensOnce
  BY DEF EnrolmentInv
<1> QED
  BY <1>1, EnrolmentInvariance, PTL

(* A second factor in force has a secret its owner confirmed, unless some  *)
(* request wrote over an enrolment it had not read.                        *)
THEOREM EnrolmentIsConfirmed == Spec => []EnabledIsConfirmed
<1>1. EnrolmentInv => EnabledIsConfirmed
  BY DEF EnrolmentInv
<1> QED
  BY <1>1, EnrolmentInvariance, PTL

-----------------------------------------------------------------------------
(* The requests that found a recovery code and did not mark it yet.        *)
Looking(c) == {w \in Worker : pc[w] = "recovering" /\ job[w].code = c}

LookupsBounded ==
  \A c \in 1..Len(uses) :
    IF c \in row.codes THEN uses[c] = 0
                       ELSE uses[c] + Cardinality(Looking(c)) <= Cardinality(Worker)

(* There are no more lookups than requests, nor fewer of a larger set.     *)
LEMMA LookingFinite ==
  ASSUME IsFiniteSet(Worker), NEW S \in SUBSET Worker, NEW T \in SUBSET S
  PROVE  /\ IsFiniteSet(S) /\ Cardinality(S) \in Nat /\ Cardinality(Worker) \in Nat
         /\ Cardinality(S) <= Cardinality(Worker)
         /\ Cardinality(T) \in Nat /\ Cardinality(T) <= Cardinality(S)
BY FS_Subset, FS_CardinalityType

(* While no code is made out nor used, lookups only end, or are of codes   *)
(* that are unused.                                                        *)
LEMMA NoUseBounded ==
  ASSUME IsFiniteSet(Worker), EnrolmentInv, LookupsBounded, UNCHANGED uses,
         row'.codes \subseteq row.codes,
         \A c \in 1..Len(uses) : c \notin row.codes => Looking(c)' \subseteq Looking(c)
  PROVE  LookupsBounded'
<1> SUFFICES ASSUME NEW c \in 1..Len(uses), c \notin row'.codes
             PROVE  uses[c] + Cardinality(Looking(c)') <= Cardinality(Worker)
  BY DEF LookupsBounded
<1>1. uses[c] \in Nat
  BY DEF EnrolmentInv, TypeInv
<1>2. Looking(c)' \in SUBSET Worker /\ Looking(c) \in SUBSET Worker
  BY DEF Looking
<1>3. CASE c \in row.codes
  BY <1>1, <1>2, <1>3, LookingFinite DEF LookupsBounded
<1>4. CASE c \notin row.codes
  <2>1. Looking(c)' \in SUBSET Looking(c)
    BY <1>4
  <2>2. uses[c] + Cardinality(Looking(c)) <= Cardinality(Worker)
    BY <1>4 DEF LookupsBounded
  <2> HIDE DEF Looking
  <2> QED
    BY <1>1, <1>2, <2>1, <2>2, LookingFinite
<1> QED
  BY <1>3, <1>4

LEMMA EndLooking ==
  ASSUME EnrolmentInv, NEW w \in Worker, End(w), NEW c
  PROVE  Looking(c)' = Looking(c) \ {w}
BY DEF End, EnrolmentInv, TypeInv, Looking

LEMMA BeginLooking ==
  ASSUME EnrolmentInv, NEW w \in Worker, NEW where, where # "recovering", Begin(w, where), NEW c
  PROVE  Looking(c)' \subseteq Looking(c) /\ UNCHANGED <<row, uses>>
BY DEF Begin, EnrolmentInv, TypeInv, Looking

LEMMA FindBounded ==
  ASSUME IsFiniteSet(Worker), EnrolmentInv, LookupsBounded,
         NEW w \in Worker, FindRecoveryCode(w)
  PROVE  LookupsBounded'
<1>1. PICK code \in row.codes : job' = [job EXCEPT ![w].code = code]
  BY DEF FindRecoveryCode
<1>2. pc' = [pc EXCEPT ![w] = "recovering"] /\ UNCHANGED <<row, uses>>
  BY DEF FindRecoveryCode
<1>3. ASSUME NEW c, c \notin row.codes PROVE Looking(c)' \subseteq Looking(c)
  BY <1>1, <1>2, <1>3 DEF EnrolmentInv, TypeInv, Looking
<1> QED
  BY <1>2, <1>3, NoUseBounded

(* A new code has no uses and is unused.                                   *)
LEMMA ConfirmBounded ==
  ASSUME IsFiniteSet(Worker), EnrolmentInv, LookupsBounded,
         NEW w \in Worker, NEW paso \in Int, Confirm(w, paso)
  PROVE  LookupsBounded'
<1>1. /\ uses' = Append(uses, 0) /\ End(w)
      /\ row' = [row EXCEPT !.enabled = TRUE, !.last = paso, !.codes = @ \cup {Len(uses) + 1}]
  BY DEF Confirm
<1>2. uses \in Seq(Nat) /\ row \in Rows
  BY DEF EnrolmentInv, TypeInv
<1>3. /\ row'.codes = row.codes \cup {Len(uses) + 1} /\ Len(uses) \in Nat
      /\ Len(uses') = Len(uses) + 1 /\ uses'[Len(uses) + 1] = 0
      /\ \A c \in 1..Len(uses) : uses'[c] = uses[c] /\ uses[c] \in Nat
  BY <1>1, <1>2 DEF Rows
<1> SUFFICES ASSUME NEW c \in 1..(Len(uses) + 1)
             PROVE  IF c \in row'.codes THEN uses'[c] = 0
                    ELSE uses'[c] + Cardinality(Looking(c)') <= Cardinality(Worker)
  BY <1>3 DEF LookupsBounded
<1>4. CASE c = Len(uses) + 1
  BY <1>3, <1>4
<1>5. CASE c \in 1..Len(uses) /\ c \in row.codes
  BY <1>3, <1>5 DEF LookupsBounded
<1>6. CASE c \in 1..Len(uses) /\ c \notin row.codes
  <2>1. uses[c] + Cardinality(Looking(c)) <= Cardinality(Worker)
    BY <1>6 DEF LookupsBounded
  <2>2. Looking(c)' \in SUBSET Looking(c)
    BY <1>1, EndLooking
  <2>3. Looking(c) \in SUBSET Worker
    BY DEF Looking
  <2>4. c \notin row'.codes /\ uses'[c] = uses[c] /\ uses[c] \in Nat
    BY <1>3, <1>6
  <2> HIDE DEF Looking
  <2> QED
    BY <2>1, <2>2, <2>3, <2>4, LookingFinite
<1> QED
  BY <1>3, <1>4, <1>5, <1>6

(* Each use ends a lookup.                                                 *)
LEMMA SpendBounded ==
  ASSUME IsFiniteSet(Worker), EnrolmentInv, LookupsBounded,
         NEW w \in Worker, SpendRecoveryCode(w)
  PROVE  LookupsBounded'
<1> DEFINE code == job[w].code
<1>1. /\ row' = [row EXCEPT !.codes = @ \ {code}, !.used = @ \cup {code}]
      /\ uses' = [uses EXCEPT ![code] = @ + 1] /\ End(w)
      /\ code \in row.codes \cup row.used
      /\ pc[w] = "recovering"
  BY DEF SpendRecoveryCode
<1>2. uses \in Seq(Nat) /\ row \in Rows /\ code \in 1..Len(uses)
  BY <1>1 DEF EnrolmentInv, TypeInv, CodesCounted
<1>3. w \in Looking(code)
  BY <1>1 DEF Looking
<1> HIDE DEF code
<1>4. /\ row'.codes = row.codes \ {code} /\ Len(uses') = Len(uses)
      /\ uses'[code] = uses[code] + 1
      /\ \A c \in 1..Len(uses) : uses[c] \in Nat /\ (c # code => uses'[c] = uses[c])
  BY <1>1, <1>2, ExceptSeq DEF Rows
<1> SUFFICES ASSUME NEW c \in 1..Len(uses)
             PROVE  IF c \in row'.codes THEN uses'[c] = 0
                    ELSE uses'[c] + Cardinality(Looking(c)') <= Cardinality(Worker)
  BY <1>4 DEF LookupsBounded
<1>5. Looking(c)' = Looking(c) \ {w} /\ Looking(c) \in SUBSET Worker
  <2>1. Looking(c)' = Looking(c) \ {w}
    BY <1>1, EndLooking
  <2> QED
    BY <2>1 DEF Looking
<1>6. IF c \in row.codes THEN uses[c] = 0
      ELSE uses[c] + Cardinality(Looking(c)) <= Cardinality(Worker)
  BY DEF LookupsBounded
<1> HIDE DEF Looking
<1>7. /\ IsFiniteSet(Looking(c)) /\ Cardinality(Looking(c)) \in Nat
      /\ Cardinality(Looking(c)) <= Cardinality(Worker) /\ Cardinality(Worker) \in Nat
      /\ Cardinality(Looking(c) \ {w}) \in Nat
      /\ Cardinality(Looking(c) \ {w}) <= Cardinality(Looking(c))
  BY <1>5, LookingFinite
<1>8. CASE c = code
  <2>1. Cardinality(Looking(c) \ {w}) = Cardinality(Looking(c)) - 1
    BY <1>3, <1>7, <1>8, FS_RemoveElement
  <2>2. c \notin row'.codes
    BY <1>4, <1>8
  <2>3. CASE c \in row.codes
    BY <1>4, <1>5, <1>6, <1>7, <1>8, <2>1, <2>2, <2>3
  <2>4. CASE c \notin row.codes
    BY <1>4, <1>5, <1>6, <1>7, <1>8, <2>1, <2>2, <2>4
  <2> QED
    BY <2>3, <2>4
<1>9. CASE c # code
  BY <1>4, <1>5, <1>6, <1>7, <1>9
<1> QED
  BY <1>8, <1>9

(* The others make no code and use none.                                   *)
LEMMA QuietBounded ==
  ASSUME IsFiniteSet(Worker), EnrolmentInv, LookupsBounded, UNCHANGED uses,
         row'.codes \subseteq row.codes,
         UNCHANGED <<pc, job>> \/ \E w \in Worker : End(w)
  PROVE  LookupsBounded'
<1>1. ASSUME NEW c PROVE Looking(c)' \subseteq Looking(c)
  <2>1. CASE UNCHANGED <<pc, job>>
    BY <2>1 DEF Looking
  <2>2. CASE \E w \in Worker : End(w)
    BY <2>2, EndLooking
  <2> QED
    BY <2>1, <2>2
<1> QED
  BY <1>1, NoUseBounded

LEMMA StepBounded ==
  ASSUME IsFiniteSet(Worker), EnrolmentInv, LookupsBounded, [Next]_vars
  PROVE  LookupsBounded'
<1>1. step \in Nat /\ Tolerated \subseteq Int /\ row \in Rows
  BY ToleratedType DEF EnrolmentInv, TypeInv
<1>2. CASE UNCHANGED vars \/ Tick
  BY <1>2, QuietBounded DEF vars, Tick
<1>3. ASSUME NEW w \in Worker, Setup(w) \/ Activate(w) \/ Disable(w) \/ Login(w)
      PROVE  LookupsBounded'
  <2>1. PICK where \in Places : where # "recovering" /\ Begin(w, where)
    BY <1>3 DEF Setup, Activate, Disable, Login, Places
  <2>2. UNCHANGED <<row, uses>> /\ \A c : Looking(c)' \subseteq Looking(c)
    BY <2>1, BeginLooking
  <2> QED
    BY <2>2, NoUseBounded
<1>4. ASSUME NEW w \in Worker, Refused(w) PROVE LookupsBounded'
  BY <1>4, QuietBounded DEF Refused
<1>5. ASSUME NEW w \in Worker, StoreSecret(w) PROVE LookupsBounded'
  <2>1. row' = [row EXCEPT !.secret = issued + 1] /\ UNCHANGED uses /\ End(w)
    BY <1>5 DEF StoreSecret
  <2>2. row'.codes = row.codes
    BY <1>1, <2>1 DEF Rows
  <2> QED
    BY <2>1, <2>2, QuietBounded
<1>6. ASSUME NEW w \in Worker, Forget(w) PROVE LookupsBounded'
  <2>1. row'.codes \subseteq row.codes /\ UNCHANGED uses /\ End(w)
    BY <1>6 DEF Forget
  <2> QED
    BY <2>1, QuietBounded
<1>7. ASSUME NEW w \in Worker, NEW paso \in Tolerated, LoginWithCode(w, paso)
      PROVE  LookupsBounded'
  <2>1. row' = [row EXCEPT !.last = paso] /\ UNCHANGED uses /\ End(w)
    BY <1>7 DEF LoginWithCode
  <2>2. row'.codes = row.codes
    BY <1>1, <2>1 DEF Rows
  <2> QED
    BY <2>1, <2>2, QuietBounded
<1>8. ASSUME NEW w \in Worker, NEW paso \in Tolerated, Confirm(w, paso) PROVE LookupsBounded'
  BY <1>1, <1>8, ConfirmBounded
<1>9. ASSUME NEW w \in Worker, FindRecoveryCode(w) \/ SpendRecoveryCode(w) PROVE LookupsBounded'
  BY <1>9, FindBounded, SpendBounded
<1> QED
  BY <1>2, <1>3, <1>4, <1>5, <1>6, <1>7, <1>8, <1>9 DEF Next

(* consume_recovery_code reads, compares and marks without a lock: a code  *)
(* opens at most one session for each request served at once, and none     *)
(* after one of them has marked it.                                        *)
THEOREM RecoveryIsBounded == Spec => []RecoveryBounded
<1> USE SecondFactorAssumption
<1>1. Init => LookupsBounded
  BY DEF Init, LookupsBounded
<1>2. EnrolmentInv /\ LookupsBounded /\ [Next]_vars => LookupsBounded'
  BY StepBounded
<1>3. EnrolmentInv /\ LookupsBounded => RecoveryBounded
  <2> SUFFICES ASSUME EnrolmentInv, LookupsBounded, NEW c \in 1..Len(uses)
               PROVE  uses[c] <= Cardinality(Worker)
    BY DEF EnrolmentInv, TypeInv, RecoveryBounded
  <2>1. Looking(c) \in SUBSET Worker /\ uses[c] \in Nat
    BY DEF Looking, EnrolmentInv, TypeInv
  <2>2. Cardinality(Looking(c)) \in Nat /\ Cardinality(Worker) \in Nat
    BY <2>1, LookingFinite
  <2> QED
    BY <2>1, <2>2 DEF LookupsBounded
<1> QED
  BY <1>1, <1>2, <1>3, EnrolmentInvariance, PTL DEF Spec
=============================================================================
