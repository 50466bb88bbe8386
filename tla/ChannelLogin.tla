---------------------------- MODULE ChannelLogin ----------------------------
(***************************************************************************)
(* The logins of a channel other than WorkBuddy.  Each account row holds   *)
(* the tokens of one user; the vendor's desktop client keeps the session   *)
(* of the user who is logged in there in one file, and rows are imported   *)
(* from that file one user after the other.  The gateway renews logins     *)
(* without a lock: chat requests, keepalive and the administrator may      *)
(* renew the same one at once, and the desktop client renews it too.       *)
(*                                                                         *)
(* A session is the number of its issue: an access and a refresh token.    *)
(* The login services are external.  They accept a session that is in      *)
(* `valid`; an exchange replaces it by a new one if the service rotates    *)
(* sessions, or leaves it as it is (the code provides for both).           *)
(***************************************************************************)
EXTENDS Integers, Sequences, FiniteSets

CONSTANTS
    Users,
    Tasks,          \* coroutines that may renew at the same time
    FirstUser,      \* the user logged in on the desktop at the start
    MaxSessions,    \* bound on the sessions issued
    MaxRenewals,    \* bound on the renewals begun
    MaxMoves        \* bound on moves of the desktop client, users and time

ASSUME LoginAssumption ==
    /\ FirstUser \in Users /\ IsFiniteSet(Users)
    /\ MaxSessions \in Nat /\ Cardinality(Users) <= MaxSessions
    /\ MaxRenewals \in Nat /\ MaxMoves \in Nat

VARIABLES
    channel,    \* the provider
    rotates,    \* whether its login service replaces a session it renews
    owner,      \* the user of every session issued
    valid,      \* sessions the service accepts
    row,        \* the account of a user
    file,       \* the desktop client's login file: its user and session
    cached,     \* _resync_cache: rows whose file was looked at just now
    task,       \* the renewals
    begun,      \* renewals begun so far
    moves,      \* moves made so far
    lost,       \* history: users with a session issued to nobody, or a crash
    touched,    \* history: users whose session changed outside the renewals
    mixed       \* history: the file held one user's name and another's session

service == <<rotates, owner, valid>>
past == <<lost, touched, mixed>>
vars == <<channel, service, row, file, cached, task, begun, moves, past>>

Channels == {"qoder", "qwenwork", "traework", "loomy", "xiaohuanxiong"}
Statuses == {"active", "expired"}
Sessions == DOMAIN owner

\* What a renewal is waiting for, and the answer of the service: none yet, a
\* session, a refusal, or a failure of any other kind.
Points == {"idle", "probe", "exchange", "login"}
Pending == -2
Failure == -1
Rejected == 0

NoFile == [user |-> FirstUser, session |-> 0]
Idle == [at |-> "idle", kind |-> "renew", user |-> FirstUser, access |-> 0,
         refresh |-> 0, again |-> FALSE, reply |-> Pending]

\* Every user has logged in on the desktop in turn and was imported.
Init ==
    /\ channel \in Channels
    /\ \E order \in {s \in [1..Cardinality(Users) -> Users] : s[1] = FirstUser} :
          /\ owner = order /\ \A u \in Users : \E i \in DOMAIN order : order[i] = u
          /\ row \in [Users -> [access : Sessions, refresh : Sessions \cup {0},
                                status : {"active"}, lapsed : {FALSE},
                                password : {channel = "loomy", FALSE}]]
          /\ \A u \in Users :
                /\ order[row[u].access] = u
                /\ row[u].refresh = IF channel = "xiaohuanxiong" THEN 0 ELSE row[u].access
    /\ rotates \in BOOLEAN
    /\ valid = Sessions
    /\ file = [user |-> FirstUser, session |-> 1]
    /\ cached = {}
    /\ task = [t \in Tasks |-> Idle]
    /\ begun = 0 /\ moves = 0
    /\ lost = {} /\ touched = {} /\ mixed = FALSE

Mixed(f) == f.session # 0 /\ owner[f.session] # f.user

\* A row takes over a session; the desktop file of xiaohuanxiong holds no
\* refresh token.
Adopted(u, access, refresh) ==
    [row EXCEPT ![u].access = access, ![u].refresh = refresh,
                ![u].status = "active", ![u].lapsed = FALSE]
FileRefresh == IF channel = "xiaohuanxiong" THEN 0 ELSE file.session

----------------------------------------------------------------------------
(* Starting a renewal: the row is read now and not again                   *)

CanBegin(t) ==
    /\ task[t] = Idle
    /\ begun < MaxRenewals /\ begun' = begun + 1

Copy(t, u, kind, at) ==
    task' = [task EXCEPT ![t] = [at |-> at, kind |-> kind, user |-> u,
                                 access |-> row'[u].access, refresh |-> row'[u].refresh,
                                 again |-> FALSE, reply |-> Pending]]

\* qoder, qwenwork, traework: the refresh token is posted at once.
BeginExchange(t, u) ==
    /\ channel \in {"qoder", "qwenwork", "traework"}
    /\ CanBegin(t)
    /\ UNCHANGED row
    /\ Copy(t, u, "renew", "exchange")
    /\ UNCHANGED <<channel, service, file, cached, moves, past>>

\* loomy: a newer session in the desktop file is taken first; then, with a
\* password, a login when the session is near its end, or else a probe.
BeginLoomy(t, u) ==
    /\ channel = "loomy"
    /\ CanBegin(t)
    /\ row' = IF file.user = u /\ file.session > row[u].access
              THEN Adopted(u, file.session, file.session) ELSE row
    /\ \/ row'[u].password /\ Copy(t, u, "renew", "login")
       \/ ~row'[u].lapsed /\ Copy(t, u, "renew", "probe")
       \/ row'[u].lapsed /\ ~row'[u].password /\ UNCHANGED task
    /\ UNCHANGED <<channel, service, file, cached, moves, past>>

\* xiaohuanxiong's refresh_account: keepalive, or a chat request after a 401.
BeginRefresh(t, u, kind) ==
    /\ channel = "xiaohuanxiong"
    /\ CanBegin(t)
    /\ UNCHANGED row
    /\ Copy(t, u, kind, IF row[u].refresh # 0 THEN "exchange" ELSE "probe")
    /\ UNCHANGED <<channel, service, file, cached, moves, past>>

\* resync_from_disk finds the session of this user in the file, another one than
\* the row's, and has not looked within the last minutes.
Offered(u, access) ==
    u \notin cached /\ file.session \notin {0, access} /\ file.user = u

\* The last resort of ensure_ready, and of a chat request after a 401.
Resync(u, access, otherwise) ==
    /\ cached' = cached \cup {u}
    /\ row' = IF Offered(u, access) THEN Adopted(u, file.session, 0)
              ELSE [row EXCEPT ![u].status = otherwise]

\* ensure_ready: a token that has not lapsed is probed.
BeginReady(t, u) ==
    /\ channel = "xiaohuanxiong"
    /\ CanBegin(t)
    /\ IF row[u].lapsed /\ row[u].refresh = 0
       THEN Resync(u, row[u].access, "expired") /\ UNCHANGED task
       ELSE /\ UNCHANGED <<row, cached>>
            /\ Copy(t, u, "ready", IF row[u].lapsed THEN "exchange" ELSE "probe")
    /\ UNCHANGED <<channel, service, file, moves, past>>

\* A 401 inside a stream: the account is expired and the file looked at; the
\* token compared is the one the request was sent with.
ResyncInStream(t, u) ==
    /\ channel = "xiaohuanxiong"
    /\ CanBegin(t)
    /\ \E sent \in {n \in Sessions : owner[n] = u} : Resync(u, sent, "expired")
    /\ UNCHANGED <<channel, service, file, task, moves, past>>

----------------------------------------------------------------------------
(* The login service (external)                                            *)

\* xiaohuanxiong presents the access token when it has no refresh token.
Presented(t) == IF task[t].refresh # 0 THEN task[t].refresh ELSE task[t].access

Issue(u, revoked) ==
    /\ Len(owner) < MaxSessions
    /\ UNCHANGED rotates
    /\ owner' = Append(owner, u)
    /\ valid' = (valid \ revoked) \cup {Len(owner) + 1}

Reply(t, r) == task' = [task EXCEPT ![t].reply = r]

Waiting(t) == task[t].at # "idle" /\ task[t].reply = Pending

\* A probe, or an exchange that leaves the session as it is, is granted.
ServeGrant(t) ==
    /\ task[t].at = "probe" \/ (task[t].at = "exchange" /\ ~rotates)
    /\ Waiting(t) /\ Presented(t) \in valid
    /\ Reply(t, Presented(t))
    /\ UNCHANGED <<channel, begun, service, row, file, cached, moves, past>>

\* The session is replaced; the answer may be lost on its way.
ServeRotate(t) ==
    /\ task[t].at = "exchange" /\ rotates
    /\ Waiting(t) /\ Presented(t) \in valid
    /\ Issue(owner[Presented(t)], {Presented(t)})
    /\ \/ Reply(t, Len(owner')) /\ UNCHANGED lost
       \/ Reply(t, Failure) /\ lost' = lost \cup {owner[Presented(t)]}
    /\ UNCHANGED <<channel, begun, row, file, cached, moves, touched, mixed>>

\* A login with the password; it may end the user's other sessions.
ServeLogin(t) ==
    /\ Waiting(t) /\ task[t].at = "login"
    /\ \E revoked \in {{}, {n \in valid : owner[n] = task[t].user}} :
          Issue(task[t].user, revoked)
    /\ Reply(t, Len(owner'))
    /\ UNCHANGED <<channel, begun, row, file, cached, moves, past>>

ServeReject(t) ==
    /\ Waiting(t) /\ task[t].at # "login"
    /\ Presented(t) \notin valid
    /\ Reply(t, Rejected)
    /\ UNCHANGED <<channel, begun, service, row, file, cached, moves, past>>

ServeFail(t) ==
    /\ Waiting(t)
    /\ Reply(t, Failure)
    /\ UNCHANGED <<channel, begun, service, row, file, cached, moves, past>>

----------------------------------------------------------------------------
(* The answer                                                              *)

Done(t) == task' = [task EXCEPT ![t] = Idle]
Got(t, at) == task[t].at = at /\ task[t].reply > 0
Refused(t) == task[t].at = "exchange" /\ task[t].reply \in {Rejected, Failure}

\* Mutant: the write-back of traework does not compare users.
WritesBackAnyway(u) == file.session # 0

\* write_refreshed_session (traework) checks the user in the file; the ones of
\* qwenwork and qoder do not.
WritesBack(u) ==
    /\ file.session # 0
    /\ channel = "traework" => file.user = u

Written(u, n) == IF WritesBack(u) THEN [file EXCEPT !.session = n] ELSE file

\* Mutant: an answer without a new session is stored as an empty one.
StoredBefore(t) == Adopted(task[t].user, task[t].access, task[t].refresh)

Stored(t) == Adopted(task[t].user, task[t].reply, task[t].reply)

\* qwenwork and traework write the row and then the file.
ReceiveRowFirst(t) ==
    /\ channel \in {"qwenwork", "traework"} /\ Got(t, "exchange")
    /\ row' = Stored(t)
    /\ file' = Written(task[t].user, task[t].reply)
    /\ mixed' = (mixed \/ Mixed(file'))
    /\ Done(t)
    /\ UNCHANGED <<channel, begun, service, cached, moves, lost, touched>>

\* qoder refuses the session of another user, and writes the file first: when
\* that fails the row keeps the old session.
ReceiveFileFirst(t) ==
    /\ channel = "qoder" /\ Got(t, "exchange")
    /\ LET u == task[t].user
           foreign == owner[task[t].reply] # u
           broken == file.session = 0
       IN  /\ row' = IF foreign \/ broken THEN row ELSE Stored(t)
           /\ file' = IF foreign THEN file ELSE Written(u, task[t].reply)
           /\ lost' = IF foreign \/ broken THEN lost \cup {owner[task[t].reply]} ELSE lost
    /\ mixed' = (mixed \/ Mixed(file'))
    /\ Done(t)
    /\ UNCHANGED <<channel, begun, service, cached, moves, touched>>

\* The process dies between the two writes.
CrashBetween(t) ==
    /\ channel \in {"qoder", "qwenwork", "traework"} /\ Got(t, "exchange")
    /\ owner[task[t].reply] = task[t].user
    /\ IF channel = "qoder"
       THEN file' = Written(task[t].user, task[t].reply) /\ UNCHANGED row
       ELSE row' = Stored(t) /\ UNCHANGED file
    /\ task' = [s \in Tasks |-> Idle]
    /\ lost' = Users
    /\ mixed' = (mixed \/ Mixed(file'))
    /\ UNCHANGED <<channel, begun, service, cached, moves, touched>>

\* loomy stores the session of a login, xiaohuanxiong the exchanged one; neither
\* writes the file.
ReceiveRowOnly(t) ==
    /\ \/ channel = "loomy" /\ Got(t, "login")
       \/ channel = "xiaohuanxiong" /\ Got(t, "exchange")
    /\ row' = Stored(t)
    /\ Done(t)
    /\ UNCHANGED <<channel, begun, service, file, cached, moves, past>>

\* Mutant: the session refused a moment ago is taken for a replacement.
ReplacementSame(t) == file.session # 0 /\ file.user = task[t].user

\* _official_replacement: the desktop client has another session of this user.
\* The renewal is tried once more with it, and only once.
Replacement(t) ==
    /\ file.session # 0 /\ file.user = task[t].user
    /\ file.session # task[t].refresh
    /\ ~task[t].again

ReceiveReplaced(t) ==
    /\ channel = "qwenwork" /\ task[t].reply = Rejected
    /\ Replacement(t)
    /\ row' = Adopted(task[t].user, file.session, file.session)
    /\ task' = [task EXCEPT ![t].access = file.session, ![t].refresh = file.session,
                            ![t].again = TRUE, ![t].reply = Pending]
    /\ UNCHANGED <<channel, begun, service, file, cached, moves, past>>

\* The old tokens stay.
ReceiveRefused(t) ==
    /\ channel \in {"qoder", "qwenwork", "traework"} /\ Refused(t)
    /\ ~(channel = "qwenwork" /\ task[t].reply = Rejected /\ Replacement(t))
    /\ Done(t)
    /\ UNCHANGED <<channel, begun, service, row, file, cached, moves, past>>

\* loomy: a session the server has revoked is replaced by a login if there is a
\* password; any other answer to the probe or the login changes nothing.
ReceiveLoomy(t) ==
    /\ channel = "loomy"
    /\ \/ task[t].at = "probe" /\ task[t].reply # Pending
       \/ task[t].at = "login" /\ task[t].reply = Failure
    /\ IF task[t].reply = Rejected /\ row[task[t].user].password
       THEN task' = [task EXCEPT ![t].at = "login", ![t].reply = Pending]
       ELSE Done(t)
    /\ UNCHANGED <<channel, begun, service, row, file, cached, moves, past>>

\* xiaohuanxiong: a probe that fails for any reason but a refusal counts as alive.
ReceiveProbe(t) ==
    /\ channel = "xiaohuanxiong" /\ task[t].at = "probe" /\ task[t].reply # Pending
    /\ LET u == task[t].user
           alive == task[t].reply # Rejected
           exchange == task' = [task EXCEPT ![t].at = "exchange", ![t].reply = Pending]
       IN  CASE task[t].kind = "ready" /\ alive ->
                  Done(t) /\ UNCHANGED <<row, cached>>
             [] (task[t].kind # "ready" /\ alive)
                \/ (task[t].kind = "ready" /\ task[t].refresh # 0) ->
                  exchange /\ UNCHANGED <<row, cached>>
             [] task[t].kind = "renew" ->
                  /\ row' = [row EXCEPT ![u].status = "expired"]
                  /\ Done(t) /\ UNCHANGED cached
             [] OTHER ->
                  Resync(u, task[t].access, "expired") /\ Done(t)
    /\ UNCHANGED <<channel, begun, service, file, moves, past>>

\* _mark_expired; a chat request then looks at the desktop file.
ReceiveGivenUp(t) ==
    /\ channel = "xiaohuanxiong" /\ Refused(t)
    /\ IF task[t].kind = "renew"
       THEN /\ row' = [row EXCEPT ![task[t].user].status = "expired"]
            /\ UNCHANGED cached
       ELSE Resync(task[t].user, task[t].access, "expired")
    /\ Done(t)
    /\ UNCHANGED <<channel, begun, service, file, moves, past>>

----------------------------------------------------------------------------
(* The desktop client, the administrator and time                          *)

Move == moves < MaxMoves /\ moves' = moves + 1

\* A user logs in; the service may end sessions, of this user or of everybody.
ClientLogin(u) ==
    /\ Move
    /\ \E revoked \in {{}, {n \in valid : owner[n] = u}, valid} :
          /\ Issue(u, revoked)
          /\ touched' = touched \cup {u} \cup {owner[n] : n \in revoked}
    /\ file' = [user |-> u, session |-> Len(owner')]
    /\ UNCHANGED <<channel, begun, row, cached, task, lost, mixed>>

\* The client renews the session in its file.
ClientRotates ==
    /\ Move
    /\ file.session \in valid
    /\ Issue(owner[file.session], {file.session})
    /\ touched' = touched \cup {owner[file.session]}
    /\ file' = [file EXCEPT !.session = Len(owner')]
    /\ UNCHANGED <<channel, begun, row, cached, task, lost, mixed>>

ClientLogout ==
    /\ Move
    /\ file.session # 0
    /\ file' = NoFile
    /\ UNCHANGED <<channel, begun, service, row, cached, task, past>>

\* The file is imported: the row with its user's uid is updated.  An empty
\* refresh token leaves the one in the row.
Import ==
    /\ Move
    /\ file.session # 0
    /\ row' = Adopted(file.user, file.session,
                      IF FileRefresh # 0 THEN FileRefresh ELSE row[file.user].refresh)
    /\ touched' = touched \cup {file.user}
    /\ UNCHANGED <<channel, begun, service, file, cached, task, lost, mixed>>

TimePasses(u) ==
    /\ Move
    /\ \/ ~row[u].lapsed /\ channel \in {"loomy", "xiaohuanxiong"}
          /\ row' = [row EXCEPT ![u].lapsed = TRUE] /\ UNCHANGED cached
       \/ u \in cached /\ cached' = cached \ {u} /\ UNCHANGED row
    /\ UNCHANGED <<channel, begun, service, file, task, past>>

\* The gateway restarts: answers on their way are lost.
Restart ==
    /\ Move
    /\ task' = [t \in Tasks |-> Idle]
    /\ cached' = {}
    /\ lost' = lost \cup {task[t].user : t \in {s \in Tasks : task[s] # Idle}}
    /\ UNCHANGED <<channel, begun, service, row, file, touched, mixed>>

----------------------------------------------------------------------------

Begin(t) ==
    \E u \in Users :
        \/ BeginExchange(t, u) \/ BeginLoomy(t, u) \/ BeginReady(t, u)
        \/ ResyncInStream(t, u)
        \/ \E kind \in {"renew", "retry"} : BeginRefresh(t, u, kind)
Serve(t) ==
    ServeGrant(t) \/ ServeRotate(t) \/ ServeLogin(t) \/ ServeReject(t) \/ ServeFail(t)
Receive(t) ==
    \/ ReceiveRowFirst(t) \/ ReceiveFileFirst(t) \/ ReceiveRowOnly(t)
    \/ ReceiveReplaced(t) \/ ReceiveRefused(t) \/ ReceiveLoomy(t)
    \/ ReceiveProbe(t) \/ ReceiveGivenUp(t)
Surroundings ==
    \/ \E u \in Users : ClientLogin(u) \/ TimePasses(u)
    \/ ClientRotates \/ ClientLogout \/ Import \/ Restart

Next ==
    \/ \E t \in Tasks : Begin(t) \/ Serve(t) \/ Receive(t) \/ CrashBetween(t)
    \/ Surroundings

Spec == Init /\ [][Next]_vars

----------------------------------------------------------------------------
(* Properties                                                              *)

TypeOK ==
    /\ channel \in Channels /\ rotates \in BOOLEAN
    /\ owner \in Seq(Users) /\ Len(owner) <= MaxSessions /\ valid \subseteq Sessions
    /\ row \in [Users -> [access : Sessions, refresh : Sessions \cup {0},
                          status : Statuses, lapsed : BOOLEAN, password : BOOLEAN]]
    /\ file \in [user : Users, session : Sessions \cup {0}]
    /\ cached \subseteq Users /\ begun \in 0..MaxRenewals /\ moves \in 0..MaxMoves
    /\ task \in [Tasks -> [at : Points, kind : {"renew", "ready", "retry"},
                           user : Users, access : Sessions \cup {0},
                           refresh : Sessions \cup {0}, again : BOOLEAN,
                           reply : Sessions \cup {Pending, Failure, Rejected}]]
    /\ \A t \in Tasks : task[t].at = "idle" => task[t] = Idle
    /\ lost \subseteq Users /\ touched \subseteq Users /\ mixed \in BOOLEAN

Renewing(u) == \E t \in Tasks : task[t].at # "idle" /\ task[t].user = u

\* No account ever gets the session of another user, although one desktop file
\* serves them all in turn ("旧凭证未被覆盖", "账号对不上，不写回").  The write-back
\* of qoder and qwenwork can put one user's session beside another's name, and an
\* import then believes the name.
NoForeignSession ==
    /\ mixed => channel \in {"qoder", "qwenwork"}
    /\ ~mixed => \A u \in Users : owner[row[u].access] = u

\* Two renewals of one login at once, unlocked, end with a session that works: the
\* one refused never overwrites what the other has got.  Stated while nobody but
\* the gateway touches the login, no answer is lost and no file mixed; not for
\* xiaohuanxiong, whose second resort is the file.
UnlockedRenewalsAgree ==
    channel \in {"qoder", "qwenwork", "traework"} /\ ~mixed =>
        \A u \in Users \ (lost \cup touched) :
            Renewing(u) \/ row[u].refresh \in valid

\* A renewal keeps the file in step, so the next import does not bring back a
\* session that the renewal has ended (docs/releases/v2.2.3.md).
ImportFindsLive ==
    channel \in {"qoder", "qwenwork", "traework"} /\ ~mixed =>
        \A u \in Users \ lost :
            \/ Renewing(u)
            \/ file.user # u \/ file.session = 0
            \/ row[u].refresh \in valid => file.session \in valid

\* The file and the rows hold live sessions, each of the user it is filed under.
SessionsAreOwn == TypeOK /\ NoForeignSession /\ ImportFindsLive

\* A renewal ends: no answer brings it back to a question it has asked before.
\* The second try of qwenwork, the login of loomy and the exchange of
\* xiaohuanxiong are the last question, and every question has a timeout.
Asked(k) ==
    CASE k.at = "probe" -> 1 [] k.at = "exchange" -> IF k.again THEN 3 ELSE 2
      [] k.at = "login" -> 4 [] OTHER -> 0
RenewalAdvances ==
    [][\A t \in Tasks :
          task[t].reply # Pending /\ task'[t].reply = Pending /\ task'[t].at # "idle"
              => Asked(task'[t]) > Asked(task[t])]_vars
=============================================================================
