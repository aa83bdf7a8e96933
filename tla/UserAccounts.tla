------------------------------ MODULE UserAccounts ------------------------------
(***************************************************************************)
(* All that reads and writes the records of users, together.               *)
(***************************************************************************)
EXTENDS Logins, Emails

vars == <<rec, byName, byKey, emailOwner, since, used, now, call, evicted, outlaws, mixed, cut,
          restarts, sessions, fails, armed, codes>>

Init == AccountsInit /\ LoginsInit /\ EmailsInit

Next ==
  \/ AccountsNext /\ UNCHANGED <<sessions, fails, armed, codes>>
  \/ LoginsNext /\ UNCHANGED codes
  \/ EmailsNext /\ UNCHANGED <<sessions, fails, armed>>

Spec == Init /\ [][Next]_vars
=============================================================================
