----------------------------- MODULE OncePerKey -----------------------------
(***************************************************************************)
(* What the Idempotency-Key promises to the clients of the service, for    *)
(* every key and every request that carries it: one request at a time      *)
(* works under a key; a document leaves under a key for one request only;  *)
(* the key is given back only while nothing has left under it; and whoever *)
(* is answered, the request itself or one that repeats it, is told the     *)
(* number of the document that left, the same to all.                      *)
(*                                                                         *)
(* Emission, the detailed model of app/services/idempotency.py around      *)
(* dte_service.issue, implements this specification.                       *)
(***************************************************************************)
EXTENDS Naturals

CONSTANTS
  Key,
  Request,   \* the requests that carry a key
  KeyOf      \* the key of each request

VARIABLES
  state,     \* open, taken or done: of each key
  working,   \* the requests at work under each key
  number,    \* the number each request gave its document, 0 before
  delivered, \* the requests whose document left, of each key
  reply,     \* what a repetition of each key is told, once it is done
  told       \* the number each request was told, 0 before its answer

onceVars == <<state, working, number, delivered, reply, told>>

OnceInit ==
  /\ state = [k \in Key |-> "open"]
  /\ working = [k \in Key |-> {}]
  /\ number = [r \in Request |-> 0]
  /\ delivered = [k \in Key |-> {}]
  /\ reply = [k \in Key |-> 0]
  /\ told = [r \in Request |-> 0]

Works(r) == r \in working[KeyOf[r]]

(* The request stops working; its key becomes this.                        *)
Stop(r, what) ==
  /\ working' = [working EXCEPT ![KeyOf[r]] = {}]
  /\ state' = [state EXCEPT ![KeyOf[r]] = what]

Begin(r) ==
  /\ state[KeyOf[r]] = "open"
  /\ number[r] = 0
  /\ state' = [state EXCEPT ![KeyOf[r]] = "taken"]
  /\ working' = [working EXCEPT ![KeyOf[r]] = {r}]
  /\ UNCHANGED <<number, delivered, reply, told>>

Number(r) ==
  /\ Works(r)
  /\ number[r] = 0
  /\ number'[r] \in Nat \ {0}
  /\ number' = [number EXCEPT ![r] = number'[r]]
  /\ UNCHANGED <<state, working, delivered, reply, told>>

(* The document leaves: no other has left under the key.                   *)
Deliver(r) ==
  /\ Works(r)
  /\ number[r] # 0
  /\ delivered[KeyOf[r]] = {}
  /\ delivered' = [delivered EXCEPT ![KeyOf[r]] = {r}]
  /\ UNCHANGED <<state, working, number, reply, told>>

(* The request failed and may be corrected and repeated: nothing left.     *)
GiveBack(r) ==
  /\ Works(r)
  /\ delivered[KeyOf[r]] = {}
  /\ Stop(r, "open")
  /\ UNCHANGED <<number, delivered, reply, told>>

(* It failed, or died, when something may have left: the key stays taken.  *)
GiveUp(r) ==
  /\ Works(r)
  /\ Stop(r, "taken")
  /\ UNCHANGED <<number, delivered, reply, told>>

(* It is answered: if any document left under the key, it is this one's.   *)
Answer(r) ==
  /\ Works(r)
  /\ number[r] # 0
  /\ delivered[KeyOf[r]] \subseteq {r}
  /\ Stop(r, "done")
  /\ reply' = [reply EXCEPT ![KeyOf[r]] = number[r]]
  /\ told' = [told EXCEPT ![r] = number[r]]
  /\ UNCHANGED <<number, delivered>>

(* A repetition is told what the first was.                                *)
Repeat(r) ==
  /\ state[KeyOf[r]] = "done"
  /\ told[r] = 0
  /\ told' = [told EXCEPT ![r] = reply[KeyOf[r]]]
  /\ UNCHANGED <<state, working, number, delivered, reply>>

OnceNext ==
  \E r \in Request :
    \/ Begin(r) \/ Number(r) \/ Deliver(r) \/ GiveBack(r) \/ GiveUp(r)
    \/ Answer(r) \/ Repeat(r)

OnceSpec == OnceInit /\ [][OnceNext]_onceVars
=============================================================================
