---------------------------- MODULE Authentication ----------------------------
(***************************************************************************)
(* AuthenticationService.authenticate                                      *)
(* (src/application/authentication_service.py): one lookup, one password   *)
(* verification, a principal or a failure that says no more.               *)
(***************************************************************************)
EXTENDS Lookups

VARIABLE
    authn   \* for each process: its position in authenticate, what
            \* find_by_username answered, and how many hashes were verified

NotBegun == [at |-> "idle", found |-> Absent, verified |-> 0]

AuthenticateEnded == {"principal", "failed"}

\* find_by_username, whose exceptions of every kind end in _verify_dummy.
FindByUsername(p, answer) ==
    /\ authn[p].at = "idle"
    /\ authn' = [authn EXCEPT ![p].at = IF answer = Raises THEN "dummy" ELSE "verify",
                              ![p].found = answer]

\* Variant: no password is verified for a user that does not exist.
Verify_OnlyKnown(p) ==
    /\ authn[p].at = "verify"
    /\ IF authn[p].found = Absent
         THEN authn' = [authn EXCEPT ![p].at = "failed"]
         ELSE \E matches \in BOOLEAN :
                authn' = [authn EXCEPT
                    ![p].verified = @ + 1,
                    ![p].at = IF authn[p].found.row.enabled /\ matches
                                THEN "principal" ELSE "failed"]

\* The user's hash or the dummy hash; a verify that raises does not match.
Verify(p) ==
    /\ authn[p].at = "verify"
    /\ \E matches \in BOOLEAN :
          authn' = [authn EXCEPT
              ![p].verified = @ + 1,
              ![p].at = IF authn[p].found # Absent /\ authn[p].found.row.enabled /\ matches
                          THEN "principal" ELSE "failed"]

VerifyDummy(p) ==
    /\ authn[p].at = "dummy"
    /\ authn' = [authn EXCEPT ![p].verified = @ + 1, ![p].at = "failed"]

=============================================================================
