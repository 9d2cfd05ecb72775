------------------------- MODULE MCAuthTransaction --------------------------
(* Profiles are numbered and at first logged in to the account with their   *)
(* number.                                                                 *)
EXTENDS AuthTransaction
CONSTANTS Count, Identities
MCProfiles == 1 .. Count
MCOwn == [p \in MCProfiles |-> p]
MCParts == IF Identities THEN <<"credential", "identity">> ELSE <<"credential">>
=============================================================================
