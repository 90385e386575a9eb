---------------------------- MODULE AccountBook ----------------------------
(***************************************************************************)
(* What db.Store promises of accounts: each call takes effect in one step. *)
(* An account has its one passkey credential from the moment it exists     *)
(* until it is deleted; a deleted account keeps its row and gives up its   *)
(* name and email.  Accounts shows that the transactions implement it.     *)
(***************************************************************************)
EXTENDS Integers

CONSTANTS
  Name, Email,             \* what clients may ask for
  None,                    \* "no value"
  FreedName, FreedEmail,   \* what soft_delete_user writes in their place
  MaxId,                   \* account ids are 1..MaxId
  Ceremony,                \* sign-up ceremonies, each with a random user handle
  MaxCount                 \* authenticators report sign counts 0..MaxCount

VARIABLES
  users,  \* users[i] is the row with id i
  creds   \* creds[i] is the sign count of the credential of i, -1 for no credential

bookVars == <<users, creds>>

Id == 1..MaxId

Absent == [status |-> "absent", name |-> None, email |-> None, handle |-> 0]

Active(i) == users[i].status = "active"

Account(n, e, k) == [status |-> "active", name |-> n, email |-> e, handle |-> k]

(* Nobody else who is active goes by this name or email. *)
Free(i, n, e) == \A j \in Id \ {i} : Active(j) => users[j].name # n /\ users[j].email # e

Init ==
  /\ users = [i \in Id |-> Absent]
  /\ creds = [i \in Id |-> -1]

(* A ceremony makes at most one account, ever: deleting it does not make    *)
(* the ceremony worth another one.                                         *)
Register(i, n, e, k) ==
  /\ users[i] = Absent
  /\ \A j \in Id : users[j].handle # k
  /\ Free(i, n, e)
  /\ users' = [users EXCEPT ![i] = Account(n, e, k)]
  /\ creds' = [creds EXCEPT ![i] = 0]

Rename(i, n, e) ==
  /\ Active(i)
  /\ Free(i, n, e)
  /\ users' = [users EXCEPT ![i].name = n, ![i].email = e]
  /\ UNCHANGED creds

Remove(i) ==
  /\ Active(i)
  /\ users' = [users EXCEPT ![i].status = "deleted", ![i].name = FreedName,
                            ![i].email = FreedEmail]
  /\ creds' = [creds EXCEPT ![i] = -1]

(* The count of a credential only rises, except that an authenticator that  *)
(* does not count reports 0 for ever.                                      *)
Use(i, c) ==
  /\ creds[i] # -1
  /\ c > creds[i] \/ (c = 0 /\ creds[i] = 0)
  /\ creds' = [creds EXCEPT ![i] = c]
  /\ UNCHANGED users

Next == \E i \in Id :
  \/ \E n \in Name, e \in Email : Rename(i, n, e) \/ \E k \in Ceremony : Register(i, n, e, k)
  \/ Remove(i)
  \/ \E c \in 0..MaxCount : Use(i, c)

Spec == Init /\ [][Next]_bookVars
=============================================================================
