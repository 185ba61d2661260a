------------------------------ MODULE MCClient ------------------------------
(***************************************************************************)
(* The command-line client for TLC: the credentials its processes share,   *)
(* and an interactive session.  A session is opened with a token and never *)
(* looks at the cache again, so a behaviour is one of the processes at     *)
(* their credentials or one of a session, the other at rest.               *)
(***************************************************************************)
EXTENDS OidcCredentials, CliSession

VARIABLE part

clientVars == <<part, credentialVars, cliVars>>

ClientInit ==
    /\ part \in {"credentials", "session"}
    /\ CredentialsInit /\ (part = "credentials" \/ (cache = NoInode /\ unexpired = {}))
    /\ CliInit /\ (part = "session" \/ (front = "tui" /\ team = NoTeam))

ClientNext ==
    /\ UNCHANGED part
    /\ \/ part = "credentials" /\ CredentialsNext /\ UNCHANGED cliVars
       \/ part = "session" /\ CliNext /\ UNCHANGED credentialVars

\* Each part runs on under its own fairness, when it is the one that runs.
ClientSpec == /\ ClientInit /\ [][ClientNext]_clientVars
              /\ part = "credentials" => CredentialsFairness
              /\ part = "session" => CliFairness

\* Every variable of the two parts has its type.
ClientTypeOK == CredentialsTypeOK /\ CliTypeOK
=============================================================================
