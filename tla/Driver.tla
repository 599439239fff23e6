-------------------------------- MODULE Driver --------------------------------
(***************************************************************************)
(* PyMySQL as a whole: connect() logs in (Login) before the commands of    *)
(* the session (Session) can follow, and so does every reconnect.          *)
(***************************************************************************)
EXTENDS Session, Login

driverVars == <<sessionVars, loginVars>>

LoggingIn == At("dial") /\ LoginStep /\ UNCHANGED sessionVars

LoggedIn == phase = "in" /\ Connected /\ HangUp

NotLoggedIn == phase = "failed" /\ Refused /\ HangUp

InSession == ~At("dial") /\ SessionStep /\ UNCHANGED loginVars

DriverInit == SessionInit /\ LoginInit

DriverNext == LoggingIn \/ LoggedIn \/ NotLoggedIn \/ InSession

DriverSpec == DriverInit /\ [][DriverNext]_driverVars

\* Both ends go on with what they are doing: the driver runs its code, the server
\* answers.  Calls, and the loss of the connection, may or may not come.
LoginGoesOn == At("dial") /\ (Greet \/ Switch \/ SendKey \/ Fast \/ Judge \/ React \/ Dial)
               /\ UNCHANGED sessionVars

GoingOn ==
    \/ LoginGoesOn \/ LoggedIn \/ NotLoggedIn
    \/ ~At("dial") /\ (Serve \/ Read \/ Continue) /\ UNCHANGED loginVars

FairDriverSpec == DriverSpec /\ WF_driverVars(GoingOn)

\* Every call comes back to the application, with a result or an exception, except
\* one that meets an unread result of an earlier connection.
CallsReturn == []<>(At("idle") \/ stale)
==============================================================================
