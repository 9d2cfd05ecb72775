--------------------------- MODULE CredentialStore ---------------------------
(***************************************************************************)
(* What a credential transaction promises: a profile holds the login of    *)
(* one account; a copy, a swap or a restore happens altogether or not at   *)
(* all, and a restore brings back a login that the profile has held.       *)
(***************************************************************************)
CONSTANTS Profiles, Accounts

VARIABLES
  holds,    \* the account a profile is logged in to
  past      \* the accounts a profile has been logged in to

vars == <<holds, past>>

Become(new) ==
  /\ holds' = new
  /\ past' = [p \in Profiles |-> past[p] \cup {new[p]}]

Swap(p, q) == p # q /\ Become([holds EXCEPT ![p] = holds[q], ![q] = holds[p]])
Copy(p, q) == p # q /\ Become([holds EXCEPT ![p] = holds[q]])
Restore(p) == \E a \in past[p] : Become([holds EXCEPT ![p] = a])

Init ==
  /\ holds \in [Profiles -> Accounts]
  /\ \A p, q \in Profiles : p # q => holds[p] # holds[q]
  /\ past = [p \in Profiles |-> {holds[p]}]

Next ==
  \/ \E p, q \in Profiles : Swap(p, q) \/ Copy(p, q)
  \/ \E p \in Profiles : Restore(p)

Spec == Init /\ [][Next]_vars
=============================================================================
