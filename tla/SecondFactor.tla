---------------------------- MODULE SecondFactor ---------------------------
(***************************************************************************)
(* The second factor of one account of the portal (totp_service.py and     *)
(* routers/auth.py): enrolment in two requests, login with a code of the   *)
(* telephone or with a recovery code, and switching it off, by the owner   *)
(* or by a superadmin. The password is always right.                       *)
(*                                                                         *)
(* A request reads the row of the user when it begins and writes at its    *)
(* end the columns it changed, only those; nothing locks the row between,  *)
(* and verifying a password or a recovery code takes long.                 *)
(***************************************************************************)
EXTENDS Naturals, Sequences, FiniteSets

CONSTANTS
  Worker,      \* requests being served at once
  MaxStep,     \* last time step of 30 seconds (model bound)
  MaxSecrets,  \* enrolments begun (model bound)
  MaxLogins    \* codes accepted (model bound)

ASSUME SecondFactorAssumption == IsFiniteSet(Worker)

VARIABLES
  step,       \* the current time step
  row,        \* User and RecoveryCode: [secret, enabled, last, codes, used];
              \*   secret 0 and last 0 are NULL, codes are the unused ones
  issued,     \* secrets generated so far
  pc, job,    \* the request of each worker: where it is, and the row it read
  confirmed,  \* secrets that were confirmed with a code
  accepted,   \* codes accepted: [epoch, step]; an epoch ends when the last
              \*   step is forgotten
  epoch,
  uses,       \* how many sessions each recovery code opened
  lost        \* whether a request wrote over a row changed since it read it

vars == <<step, row, issued, pc, job, confirmed, accepted, epoch, uses, lost>>

NoUser == [secret |-> 0, enabled |-> FALSE, last |-> 0, codes |-> {}, used |-> {}]
NoJob == [user |-> NoUser, code |-> 0]

Init ==
  /\ step = 2
  /\ row = NoUser
  /\ issued = 0
  /\ pc = [w \in Worker |-> "idle"]
  /\ job = [w \in Worker |-> NoJob]
  /\ confirmed = {}
  /\ accepted = <<>>
  /\ epoch = 0
  /\ uses = <<>>
  /\ lost = FALSE

Begin(w, where) ==
  /\ pc[w] = "idle"
  /\ pc' = [pc EXCEPT ![w] = where]
  /\ job' = [job EXCEPT ![w].user = row]
  /\ UNCHANGED <<step, row, issued, confirmed, accepted, epoch, uses, lost>>

End(w) ==
  /\ pc' = [pc EXCEPT ![w] = "idle"]
  /\ job' = [job EXCEPT ![w] = NoJob]

(* The enrolment the request read is not the one it writes over.           *)
Stale(w) == <<job[w].user.secret, job[w].user.enabled>> # <<row.secret, row.enabled>>
Writes(w) == lost' = (lost \/ Stale(w))

-----------------------------------------------------------------------------
(* start_enrollment. Seeded fault: also while the second factor is active. *)
MayEnrol_Always(user) == user.secret \in Nat
MayEnrol(user) == ~user.enabled

Setup(w) == MayEnrol(row) /\ Begin(w, "setup")

StoreSecret(w) ==
  /\ pc[w] = "setup"
  /\ issued < MaxSecrets
  /\ issued' = issued + 1
  /\ row' = [row EXCEPT !.secret = issued + 1]
  /\ Writes(w)
  /\ End(w)
  /\ UNCHANGED <<step, confirmed, accepted, epoch, uses>>

(* The steps whose code verify_code accepts: one around the current one.   *)
Tolerated == (step - 1)..(step + 1)

(* verify_code: a code of the secret the request read, later than the last *)
(* step accepted: the UPDATE compares with the row. Seeded fault: with the *)
(* row as it was read.                                                     *)
Accepts_AsRead(w, paso) ==
  /\ job[w].user.secret # 0
  /\ job[w].user.last < paso
Accepts(w, paso) ==
  /\ job[w].user.secret # 0
  /\ row.last < paso

Spend(paso) ==
  /\ Len(accepted) < MaxLogins
  /\ accepted' = Append(accepted, [epoch |-> epoch, step |-> paso])

(* activate: the UPDATE of the step, the activation and the recovery codes *)
(* are one transaction. One code stands for the eight.                     *)
Activate(w) == row.secret # 0 /\ ~row.enabled /\ Begin(w, "activate")

Confirm(w, paso) ==
  /\ pc[w] = "activate"
  /\ Accepts(w, paso)
  /\ Spend(paso)
  /\ uses' = Append(uses, 0)
  /\ row' = [row EXCEPT !.enabled = TRUE, !.last = paso, !.codes = @ \cup {Len(uses) + 1}]
  /\ confirmed' = confirmed \cup {job[w].user.secret}
  /\ Writes(w)
  /\ End(w)
  /\ UNCHANGED <<step, issued, epoch>>

(* disable writes NULL over the columns that were not when it read them,   *)
(* and deletes the recovery codes there were then or there are now.        *)
Disable(w) == Begin(w, "disable")

Forget(w) ==
  /\ pc[w] = "disable"
  /\ LET user == job[w].user
     IN  /\ \E gone \in {user.codes \cup user.used, row.codes \cup row.used} :
              row' = [secret  |-> IF user.secret # 0 THEN 0 ELSE row.secret,
                      enabled |-> row.enabled /\ ~user.enabled,
                      last    |-> IF user.last # 0 THEN 0 ELSE row.last,
                      codes   |-> row.codes \ gone,
                      used    |-> row.used \ gone]
         /\ epoch' = IF user.last # 0 THEN epoch + 1 ELSE epoch
  /\ Writes(w)
  /\ End(w)
  /\ UNCHANGED <<step, issued, confirmed, accepted, uses>>

-----------------------------------------------------------------------------
(* login of an account whose second factor was active when it was read     *)
Login(w) == row.enabled /\ Begin(w, "login")

LoginWithCode(w, paso) ==
  /\ pc[w] = "login"
  /\ Accepts(w, paso)
  /\ Spend(paso)
  /\ row' = [row EXCEPT !.last = paso]
  /\ End(w)
  /\ UNCHANGED <<step, issued, confirmed, epoch, uses, lost>>

(* consume_recovery_code: the unused codes are read and compared...        *)
FindRecoveryCode(w) ==
  /\ pc[w] = "login"
  /\ \E c \in row.codes : job' = [job EXCEPT ![w].code = c]
  /\ pc' = [pc EXCEPT ![w] = "recovering"]
  /\ UNCHANGED <<step, row, issued, confirmed, accepted, epoch, uses, lost>>

(* ... and the one that matched is marked, used or not by then. If it was  *)
(* deleted the UPDATE finds no row and the request fails. Seeded fault:    *)
(* the mark is not committed.                                              *)
SpendRecoveryCode_Unmarked(w) ==
  /\ pc[w] = "recovering"
  /\ uses' = [uses EXCEPT ![job[w].code] = @ + 1]
  /\ End(w)
  /\ UNCHANGED <<step, row, issued, confirmed, accepted, epoch, lost>>

SpendRecoveryCode(w) ==
  LET code == job[w].code
  IN  /\ pc[w] = "recovering"
      /\ code \in row.codes \cup row.used
      /\ row' = [row EXCEPT !.codes = @ \ {code}, !.used = @ \cup {code}]
      /\ uses' = [uses EXCEPT ![code] = @ + 1]
      /\ End(w)
      /\ UNCHANGED <<step, issued, confirmed, accepted, epoch, lost>>

(* A wrong code, or a request that fails: nothing was written.             *)
Refused(w) ==
  /\ pc[w] # "idle"
  /\ End(w)
  /\ UNCHANGED <<step, row, issued, confirmed, accepted, epoch, uses, lost>>

Tick ==
  /\ step < MaxStep
  /\ step' = step + 1
  /\ UNCHANGED <<row, issued, pc, job, confirmed, accepted, epoch, uses, lost>>

Next ==
  \/ \E w \in Worker :
       \/ Setup(w) \/ StoreSecret(w) \/ Activate(w) \/ Disable(w) \/ Forget(w)
       \/ Login(w) \/ FindRecoveryCode(w) \/ SpendRecoveryCode(w) \/ Refused(w)
       \/ \E paso \in Tolerated : Confirm(w, paso) \/ LoginWithCode(w, paso)
  \/ Tick

Spec == Init /\ [][Next]_vars

-----------------------------------------------------------------------------
(* A code opens at most once, also when it is presented twice at once: the *)
(* steps accepted only grow, until switching the second factor off forgets *)
(* the last one.                                                           *)
CodeOpensOnce ==
  \A i, j \in DOMAIN accepted :
    i < j /\ accepted[i].epoch = accepted[j].epoch => accepted[i].step < accepted[j].step

(* A recovery code opens no more sessions than requests that looked it up  *)
(* before one of them marked it: used once, it is found no more.           *)
RecoveryBounded == \A c \in DOMAIN uses : uses[c] <= Cardinality(Worker)

(* While the second factor is asked for, its secret is one the owner has   *)
(* confirmed with a code, unless a request wrote over an enrolment it had  *)
(* not read.                                                               *)
EnabledIsConfirmed == row.enabled => row.secret \in confirmed \/ lost
=============================================================================
