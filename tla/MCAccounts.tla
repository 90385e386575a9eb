----------------------------- MODULE MCAccounts -----------------------------
(* Accounts for TLC. *)
EXTENDS AccountsInv, TLC

Symmetry == Permutations(Req) \cup Permutations(Name) \cup Permutations(Email)

(* A later start: two people have signed up and are signed in, and the first *)
(* has begun another sign-in; the refresh token of the second has run out.  *)
(* Init leads here, and the requests that compete for names or outlive an   *)
(* account begin at once.                                                  *)
TwoAccounts ==
  LET name  == CHOOSE f \in [{1, 2} -> Name]  : f[1] # f[2]
      email == CHOOSE f \in [{1, 2} -> Email] : f[1] # f[2]
  IN /\ users = [i \in Id |-> IF i <= 2
                              THEN [status |-> "active", name |-> name[i],
                                    email |-> email[i], handle |-> i]
                              ELSE NoUser]
     /\ creds = [i \in Id |-> IF i <= 2 THEN 0 ELSE -1]
     /\ sessions = [s \in Session |-> IF s <= 2
                                      THEN [NoSession EXCEPT !.user = s, !.by.ceremony = s]
                                      ELSE NoSession]
     /\ pending = [k \in Ceremony |->
                     IF k = 3 THEN [NoPending EXCEPT !.kind = "auth", !.user = 1] ELSE NoPending]
     /\ nextUser = 3 /\ nextCeremony = 4 /\ nextSession = 3
     /\ access = {1, 2}
     /\ refresh = [s \in Session |-> CASE s = 1 -> TokenFor(1)
                                       [] s = 2 -> [TokenFor(2) EXCEPT !.state = "expired"]
                                       [] OTHER -> NoToken]
     /\ pc = [r \in Req |-> "idle"]
     /\ call = [r \in Req |-> NoCall]
     /\ seen = [r \in Req |-> NothingSeen]
     /\ mine = [r \in Req |-> NothingMine]

FairFromTwoAccounts == TwoAccounts /\ [][Next]_vars /\ Fairness /\ Clock
=============================================================================
