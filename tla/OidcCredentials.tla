---------------------------- MODULE OidcCredentials ----------------------------
(***************************************************************************)
(* The CLI's credentials: the token cache file that all CLI processes of a *)
(* profile share (cli/auth/cache.py), the provider that loads, refreshes   *)
(* and purges it (token_provider.py), the device-code flow (oidc.py), and  *)
(* the client that authenticates before its first request and once more    *)
(* after a 401 (http/auto_auth.py).                                        *)
(*                                                                         *)
(* A token is the number of the grant that brought it: its access token,   *)
(* which expires and can be rejected, and its refresh token, which the     *)
(* issuer takes once.  Time is counted in polling intervals of 5 s.        *)
(***************************************************************************)
EXTENDS Naturals, FiniteSets

CONSTANTS Processes,      \* CLI processes, one command each
          MaxGrants,      \* tokens the issuer gives out
          MaxMishaps,     \* expiries, rejections, network failures, kills
          CodeLifetime    \* expires_in of a device code, in intervals

ASSUME CredentialsAssumption ==
  /\ IsFiniteSet(Processes)
  /\ MaxGrants \in Nat \ {0}  \* one grant is there from the start
  /\ MaxMishaps \in Nat /\ CodeLifetime \in Nat

Tokens == 1 .. MaxGrants
NoToken == 0
\* Files that can exist: one per writer, and the cache.
Inodes == 1 .. Cardinality(Processes) + 1
NoInode == 0

VARIABLES
  job,       \* process -> its command
  step,      \* process -> where it is
  stage,     \* process -> "preflight", "first" request or "replay"
  token,     \* process -> the token it loaded or was given
  via,       \* process -> how it got it: "refresh" or "device", or "odd": the reply to
             \*            its refresh is no bearer token
  waited, interval,  \* process -> time since the device code was given, time between polls
  content,   \* inode -> the token written there, or NoToken: empty
  cache,     \* inode of <profile>.json
  tmp,       \* inode of <profile>.json.tmp
  fd,        \* process -> inode it has open for writing
  issued,    \* tokens given out
  live,      \* tokens whose refresh token the issuer would still take
  unexpired, \* tokens more than the leeway away from their expires_at
  accepted,  \* tokens the server accepts
  mishaps,
  collided,  \* history: two processes were changing the cache at once
  cut        \* history: a process was killed while it was changing the cache

processVars == <<job, step, stage, token, via, waited, interval>>
files == <<content, cache, tmp, fd>>
issuer == <<issued, live, unexpired, accepted>>
credentialVars == <<processVars, files, issuer, mishaps, collided, cut>>

-----------------------------------------------------------------------------
(* Shared parts *)

Changing == {"refresh", "purge", "open", "write", "replace"}

\* p goes on to step s.
To(p, s) ==
  /\ step' = [step EXCEPT ![p] = s]
  /\ collided' = \/ collided
                 \/ s \in Changing /\ \E q \in Processes \ {p} : step[q] \in Changing
  /\ UNCHANGED cut

Stay == UNCHANGED <<job, stage, token, via, waited, interval>>
Mishap == mishaps < MaxMishaps /\ mishaps' = mishaps + 1
NoMishap == UNCHANGED mishaps

\* ReAuthRequiredError: _preflight_credentials runs the device flow; from a
\* request's own get_access_token it ends the command.
ReAuth(p) == To(p, IF stage[p] = "preflight" THEN "authorize" ELSE "failed") /\ Stay

\* get_access_token has a token for p: what was checked is used, or loaded again.
HaveToken(p, t) ==
  /\ token' = [token EXCEPT ![p] = t]
  /\ stage' = [stage EXCEPT ![p] = IF @ = "preflight" THEN "first" ELSE @]
  /\ To(p, IF stage[p] = "preflight" THEN "load" ELSE "send")
  /\ UNCHANGED <<job, via, waited, interval>>

\* The issuer gives p a token in exchange for one of `spent`.
Grant(p, spent, how) ==
  /\ issued < MaxGrants
  /\ issued' = issued + 1
  /\ live' = (live \ spent) \cup {issued'}
  /\ unexpired' = unexpired \cup {issued'} /\ accepted' = accepted \cup {issued'}
  /\ token' = [token EXCEPT ![p] = issued']
  /\ via' = [via EXCEPT ![p] = how]
  /\ To(p, "open")
  /\ UNCHANGED <<job, stage>>

-----------------------------------------------------------------------------
(* Commands *)

Start(p) ==
  /\ step[p] = "idle"
  /\ \E j \in {"request", "login", "logout"} :
       /\ job' = [job EXCEPT ![p] = j]
       /\ To(p, IF j = "login" THEN "authorize" ELSE "load")
  /\ UNCHANGED <<stage, token, via, waited, interval, files, issuer, mishaps>>

\* load_token_cache, up to path.exists(): a logout has nothing to load then, and
\* deletes; get_access_token asks for a new authentication.
Load(p) ==
  /\ step[p] = "load"
  /\ IF cache # NoInode THEN To(p, "read") /\ Stay
     ELSE IF job[p] = "logout" THEN To(p, "forget") /\ Stay
     ELSE ReAuth(p)
  /\ UNCHANGED <<files, issuer, mishaps>>

\* read_bytes, and get_access_token up to its use of the network: a cache that is
\* gone by now is as corrupt as an empty one, and ends the command.
Read(p) ==
  /\ step[p] = "read"
  /\ LET t == IF cache = NoInode THEN NoToken ELSE content[cache] IN
     IF t = NoToken THEN To(p, "failed") /\ Stay
     ELSE IF job[p] = "logout" THEN To(p, "forget") /\ Stay
     ELSE IF t \in unexpired THEN HaveToken(p, t)
     ELSE /\ token' = [token EXCEPT ![p] = t]
          /\ To(p, "refresh")
          /\ UNCHANGED <<job, stage, via, waited, interval>>
  /\ UNCHANGED <<files, issuer, mishaps>>

\* _logout: what is there after it was loaded is deleted.
Forget(p) ==
  /\ step[p] = "forget"
  /\ cache' = NoInode
  /\ To(p, "done") /\ Stay
  /\ UNCHANGED <<content, tmp, fd, issuer, mishaps>>

\* _refresh_and_return: a refresh token is good once.  The discovery of the
\* endpoints is outside the try; a reply can be lost, or be none that is cached.
Refresh(p) ==
  /\ step[p] = "refresh"
  /\ \/ /\ token[p] \in live
        /\ Grant(p, {token[p]}, "refresh") /\ NoMishap
        /\ UNCHANGED <<waited, interval>>
     \/ /\ token[p] \notin live \/ issued = MaxGrants
        /\ To(p, "purge") /\ Stay /\ NoMishap /\ UNCHANGED issuer
     \/ /\ To(p, "purge") /\ Stay /\ Mishap
        /\ live' \in {live, live \ {token[p]}}
        /\ UNCHANGED <<issued, unexpired, accepted>>
     \/ /\ To(p, "purge") /\ via' = [via EXCEPT ![p] = "odd"] /\ Mishap
        /\ live' = live \ {token[p]}
        /\ UNCHANGED <<issued, unexpired, accepted, job, stage, token, waited, interval>>
     \/ To(p, "failed") /\ Stay /\ Mishap /\ UNCHANGED issuer
  /\ UNCHANGED files

\* Any failure of a refresh: delete_token_cache, whatever is there by now.  Only a
\* token that is no bearer token ends the command, in OidcProtocolError.
Purge(p) ==
  /\ step[p] = "purge"
  /\ cache' = NoInode
  /\ IF via[p] = "odd" THEN To(p, "failed") /\ Stay ELSE ReAuth(p)
  /\ UNCHANGED <<content, tmp, fd, issuer, mishaps>>

\* initiate_device_flow, and the prompt.
Authorize(p) ==
  /\ step[p] = "authorize"
  /\ \/ /\ waited' = [waited EXCEPT ![p] = 0]
        /\ interval' = [interval EXCEPT ![p] = 1]
        /\ To(p, "poll") /\ NoMishap
        /\ UNCHANGED <<job, stage, token, via>>
     \/ To(p, "failed") /\ Mishap /\ Stay
  /\ UNCHANGED <<files, issuer>>

\* A plausible slip: the lifetime of the code is not looked at.
PollForEver(p) ==
  /\ step[p] = "poll"
  /\ UNCHANGED <<files, issuer, mishaps, job, stage, token, via>>
  /\ waited' = [waited EXCEPT ![p] = IF @ < CodeLifetime THEN @ + 1 ELSE @]
  /\ interval' = interval
  /\ To(p, "poll")

\* One turn of poll_for_token: pending, slow_down (5 s more), denied, granted; a
\* grant without a refresh token is refused, and the cache purged for it.
Poll(p) ==
  /\ step[p] = "poll"
  /\ UNCHANGED <<content, tmp, fd>>
  /\ IF waited[p] >= CodeLifetime
     THEN To(p, "failed") /\ Stay /\ NoMishap /\ UNCHANGED <<cache, issuer>>
     ELSE /\ waited' = [waited EXCEPT ![p] = @ + interval[p]]
          /\ \/ /\ To(p, "poll")
                /\ interval' \in {interval, [interval EXCEPT ![p] = @ + 1]}
                /\ NoMishap /\ UNCHANGED <<job, stage, token, via, cache, issuer>>
             \/ /\ Grant(p, {}, "device")
                /\ NoMishap /\ UNCHANGED <<interval, cache>>
             \/ /\ To(p, "failed") /\ Mishap
                /\ cache' \in {cache, NoInode}
                /\ UNCHANGED <<job, stage, token, via, interval, issuer>>

-----------------------------------------------------------------------------
(* save_token_cache *)

\* A plausible slip: the cache itself is opened for writing.
OpenInPlace(p) ==
  /\ step[p] = "open"
  /\ LET i == IF cache # NoInode THEN cache ELSE
              CHOOSE j \in Inodes : j # tmp /\ \A q \in Processes : fd[q] # j
     IN /\ fd' = [fd EXCEPT ![p] = i]
        /\ content' = [content EXCEPT ![i] = NoToken]
        /\ cache' = i /\ tmp' = i
  /\ To(p, "write") /\ Stay
  /\ UNCHANGED <<issuer, mishaps>>

\* os.open(tmp, O_CREAT | O_TRUNC): the file another writer has there, if any.
Open(p) ==
  /\ step[p] = "open"
  /\ LET i == IF tmp # NoInode THEN tmp ELSE
              CHOOSE j \in Inodes : j # cache /\ \A q \in Processes : fd[q] # j
     IN /\ fd' = [fd EXCEPT ![p] = i]
        /\ content' = [content EXCEPT ![i] = NoToken]
        /\ tmp' = i
  /\ To(p, "write") /\ Stay
  /\ UNCHANGED <<cache, issuer, mishaps>>

\* A plausible slip: the descriptor is not closed.
WriteStaysOpen(p) ==
  /\ step[p] = "write"
  /\ content' = [content EXCEPT ![fd[p]] = token[p]]
  /\ To(p, "replace") /\ Stay
  /\ UNCHANGED <<cache, tmp, fd, issuer, mishaps>>

Write(p) ==
  /\ step[p] = "write"
  /\ content' = [content EXCEPT ![fd[p]] = token[p]]
  /\ fd' = [fd EXCEPT ![p] = NoInode]
  /\ To(p, "replace") /\ Stay
  /\ UNCHANGED <<cache, tmp, issuer, mishaps>>

\* os.replace(tmp, final): another writer may have moved it away.  A refresh
\* returns its token; a device flow's is loaded again, by a request.
Replace(p) ==
  /\ step[p] = "replace"
  /\ IF tmp = NoInode THEN To(p, "failed") /\ Stay /\ UNCHANGED <<cache, tmp>>
     ELSE /\ cache' = tmp /\ tmp' = NoInode
          /\ IF job[p] = "login" THEN To(p, "done") /\ Stay
             ELSE IF via[p] = "refresh" THEN HaveToken(p, token[p])
             ELSE /\ stage' = [stage EXCEPT ![p] = IF @ = "preflight" THEN "first" ELSE @]
                  /\ To(p, "load")
                  /\ UNCHANGED <<job, token, via, waited, interval>>
  /\ UNCHANGED <<content, fd, issuer, mishaps>>

-----------------------------------------------------------------------------
(* Requests, and the world *)

\* _RetryOnceTransport: a first 401 leads to the device flow and one replay; a
\* second surfaces.
Send(p) ==
  /\ step[p] = "send"
  /\ IF token[p] \in accepted THEN To(p, "done") /\ Stay
     ELSE IF stage[p] = "replay" THEN To(p, "failed") /\ Stay
     ELSE /\ stage' = [stage EXCEPT ![p] = "replay"]
          /\ To(p, "authorize")
          /\ UNCHANGED <<job, token, via, waited, interval>>
  /\ UNCHANGED <<files, issuer, mishaps>>

Age(t) ==
  /\ t \in accepted /\ Mishap
  /\ \/ unexpired' = unexpired \ {t} /\ UNCHANGED accepted
     \/ accepted' = accepted \ {t} /\ unexpired' \in {unexpired, unexpired \ {t}}
  /\ UNCHANGED <<processVars, files, issued, live, collided, cut>>

\* A process is interrupted; what it has on disk stays.
Kill(p) ==
  /\ step[p] \notin {"idle", "done", "failed"} /\ Mishap
  /\ step' = [step EXCEPT ![p] = "failed"]
  /\ fd' = [fd EXCEPT ![p] = NoInode]
  /\ cut' = (cut \/ step[p] \in Changing)
  /\ Stay
  /\ UNCHANGED <<content, cache, tmp, issuer, collided>>

-----------------------------------------------------------------------------
\* No cache, or one whose token has expired or not.
CredentialsInit ==
  /\ job = [p \in Processes |-> "none"]
  /\ step = [p \in Processes |-> "idle"]
  /\ stage = [p \in Processes |-> "preflight"]
  /\ token = [p \in Processes |-> NoToken]
  /\ via = [p \in Processes |-> "device"]
  /\ waited = [p \in Processes |-> 0] /\ interval = [p \in Processes |-> 1]
  /\ fd = [p \in Processes |-> NoInode] /\ tmp = NoInode
  /\ cache \in {NoInode, 1}
  /\ content = [i \in Inodes |-> IF i = cache THEN 1 ELSE NoToken]
  /\ issued = 1 /\ live = {1} /\ accepted = {1} /\ unexpired \in {{}, {1}}
  /\ mishaps = 0 /\ collided = FALSE /\ cut = FALSE

ProcessStep(p) ==
  \/ Load(p) \/ Read(p) \/ Forget(p) \/ Refresh(p) \/ Purge(p) \/ Authorize(p) \/ Poll(p)
  \/ Open(p) \/ Write(p) \/ Replace(p) \/ Send(p)

CredentialsNext ==
  \/ \E p \in Processes : Start(p) \/ ProcessStep(p) \/ Kill(p)
  \/ \E t \in Tokens : Age(t)

CredentialsSpec == CredentialsInit /\ [][CredentialsNext]_credentialVars

\* A process runs on; sleep() returns and calls to the issuer time out.
CredentialsFairness == \A p \in Processes : WF_credentialVars(ProcessStep(p))

-----------------------------------------------------------------------------
(* Properties *)

\* Every variable has its type, and whoever is to write has a token and a file.
CredentialsTypeOK ==
  /\ step \in [Processes -> {"idle", "load", "read", "forget", "refresh", "purge", "authorize",
                             "poll", "open", "write", "replace", "send", "done", "failed"}]
  /\ stage \in [Processes -> {"preflight", "first", "replay"}]
  /\ token \in [Processes -> Tokens \cup {NoToken}]
  /\ content \in [Inodes -> Tokens \cup {NoToken}]
  /\ {cache, tmp} \subseteq Inodes \cup {NoInode}
  /\ fd \in [Processes -> Inodes \cup {NoInode}]
  /\ \A p \in Processes :
       /\ (step[p] = "write") = (fd[p] # NoInode)
       /\ step[p] \in Changing \cup {"send"} => token[p] # NoToken
       /\ interval[p] \in 1 .. CodeLifetime + 1
  /\ issued \in Tokens /\ mishaps \in 0 .. MaxMishaps
  /\ live \subseteq Tokens /\ unexpired \subseteq Tokens /\ accepted \subseteq Tokens

\* As long as no two processes change it at once, whoever loads the cache finds a
\* whole one, also while a save is under way or was cut short; and its refresh token
\* is one the issuer still takes, unless a refresh is under way or its process was
\* killed: a rotated token is never left behind in the cache.
CacheIsUsable ==
  cache # NoInode /\ ~collided =>
    /\ content[cache] # NoToken
    /\ \/ content[cache] \in live \/ cut
       \/ \E p \in Processes : step[p] \in {"open", "write", "replace", "purge"}

\* Every command ends: the polling stops when the code expires, however often
\* the issuer says pending, and no 401 is answered with a third request.
EveryCommandEnds ==
  \A p \in Processes : step[p] # "idle" ~> step[p] \in {"done", "failed"}

=============================================================================
