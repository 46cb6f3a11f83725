---------------------------- MODULE SessionContract ----------------------------
(***************************************************************************)
(* What the login of the app promises, with nothing of how it is done: at   *)
(* any time the device holds the session of one registered user or of       *)
(* nobody; a session begins only on a device that holds none, and ends      *)
(* before another begins.  A user, once registered, stays registered (the   *)
(* app has no way to delete an account).                                    *)
(*                                                                         *)
(* Session.tla is shown to implement this module, with `session` read from  *)
(* what the device has on disk.                                             *)
(***************************************************************************)
CONSTANTS Users,    \* people, each with one e-mail address and one uid
          NoUser    \* the session of a device on which nobody is signed in

VARIABLES accounts, \* the registered users
          session   \* the user whose session the device holds

contractVars == <<accounts, session>>

ContractInit ==
    /\ accounts \in SUBSET Users
    /\ session = NoUser

Register(u) ==
    /\ accounts' = accounts \cup {u}
    /\ UNCHANGED session

Login(u) ==
    /\ session = NoUser
    /\ u \in accounts
    /\ session' = u
    /\ UNCHANGED accounts

Logout ==
    /\ session' = NoUser
    /\ UNCHANGED accounts

ContractNext ==
    \/ \E u \in Users : Register(u) \/ Login(u)
    \/ Logout

ContractSpec == ContractInit /\ [][ContractNext]_contractVars
================================================================================
