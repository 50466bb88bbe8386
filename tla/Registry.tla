------------------------------ MODULE Registry ------------------------------
(***************************************************************************)
(* The database of the gateway, the processes that open it and the people  *)
(* who change it.  Composes the daily limits of the API keys (DailyQuota)  *)
(* with the account rows of the two WorkBuddy channels and the key table:  *)
(*                                                                         *)
(*   server.main          binds a port, takes the lock of the database,    *)
(*                        migrates it and then serves;                     *)
(*   database.init_db     one open transaction over accounts, keys and     *)
(*                        regions, in the middle of self-committing steps; *)
(*   the admin page       pastes, imports, scans and logs accounts in, and *)
(*                        edits or deletes accounts and keys.              *)
(*                                                                         *)
(* A thread that adds a login looks the table up first and writes later;   *)
(* a daily claim writes the credit limit it read before its POST.          *)
(***************************************************************************)
EXTENDS DailyQuota, SelfUpdate

CONSTANTS
    Logins,     \* accounts.uid: the upstream users
    PortOf,     \* --port of each process
    Writers,    \* imports, scans and browser logins under way at once
    Stores,     \* databases the gateway may find when it is first started
    Scenes,     \* bound: operations of clients and operators, days, clicks
    MaxRow      \* bound: account ids handed out

Domains == {"cn", "intl"}
ChannelFor(d) == IF d = "intl" THEN "workbuddy-i" ELSE "workbuddy"
Channels == {ChannelFor(d) : d \in Domains}

ASSUME RegistryAssumption ==
    /\ MaxRow \in Nat /\ Writers # {} /\ Processes # {} /\ Logins # {}
    /\ Scenes \subseteq [clients : Nat, operators : Nat, days : Nat, clicks : Nat]

VARIABLES
    disk,       \* what the database file holds, committed
    draft,      \* what the open transaction of a start has made of it
    phase,      \* how far each process is
    writer,     \* a login between its look-up and its write
    tickets,    \* preview tokens and browser login sessions still valid
    claim,      \* a daily claim between its reading of the row and its write
    promised,   \* history: credit an account's snapshot still promises
    muddled,    \* history: accounts whose snapshot was edited during a claim
    left        \* bound: what the scene still allows

rvars == <<vars, update, disk, draft, phase, writer, tickets, claim, promised, muddled, left>>

NoDraft == [rows |-> <<>>, last |-> 0, keys |-> {}, aside |-> {},
            hashed |-> FALSE, baseline |-> FALSE, unique |-> FALSE]
NoWrite == [kind |-> "none", uid |-> CHOOSE u \in Logins : TRUE, domain |-> "cn", found |-> 0]
NoClaim == [id |-> 0, limit |-> 0]
Kinds == {"none", "scan", "import", "login"}
Phases == {"off", "bound", "locked", "tables", "accounts", "renamed", "keys",
           "regions", "committed", "scanning", "up", "refused"}

Ids == 1..MaxRow
Seen == [uid : Logins, domain : Domains]
Row(u, c, d) == [uid |-> u, channel |-> c, domain |-> d,
                 limit |-> 0, baseline |-> 0, spent |-> 0]

\* What an account promises when it is found: with a baseline, less what was
\* spent since.
Promise(t, i) ==
    IF t.baseline THEN t.rows[i].limit - (t.rows[i].spent - t.rows[i].baseline)
                  ELSE t.rows[i].limit

RegistryInit ==
    /\ Init /\ UpdateInit
    /\ disk \in Stores
    /\ draft = NoDraft
    /\ phase = [p \in Processes |-> "off"]
    /\ writer = [w \in Writers |-> NoWrite]
    /\ tickets = {}
    /\ claim = NoClaim
    /\ promised = [i \in Ids |-> IF i \in DOMAIN disk.rows THEN Promise(disk, i) ELSE 0]
    /\ muddled = {}
    /\ left \in Scenes

----------------------------------------------------------------------------
\* The process: server.main, its end, and the update that restarts it.

Idle(p) == phase[p] \in {"off", "refused"}
Serving == \E p \in Processes : phase[p] = "up"

\* The listener: only one process can have the port; the other finds the
\* running gateway at /health, or an error, and stops.
Bind(p) ==
    /\ Idle(p)
    /\ restarts < MaxRestarts
    /\ \A q \in Processes \ {p} : PortOf[q] = PortOf[p] => Idle(q)
    /\ phase' = [phase EXCEPT ![p] = "bound"]
    /\ Load(p)
    /\ UNCHANGED <<vars, disk, draft, writer, tickets, claim, promised, muddled, left>>

\* Mutant: another process never has the lock.
LockFree(p) == FALSE

\* The lock of the instance file is held from here to the end of the process.
LockTaken(p) == \E q \in Processes \ {p} : ~Idle(q) /\ phase[q] # "bound"

\* _lock_database: without it the process ends at once.
Lock(p) ==
    /\ phase[p] = "bound"
    /\ phase' = [phase EXCEPT ![p] = IF LockTaken(p) THEN "off" ELSE "locked"]
    /\ UNCHANGED <<vars, update, disk, draft, writer, tickets, claim, promised, muddled, left>>

\* The process ends, at any moment: /admin/shutdown, the restart of an update,
\* or a crash.  An open transaction is rolled back, what is in memory is gone.
Stop(p) ==
    /\ ~Idle(p)
    /\ phase' = [phase EXCEPT ![p] = "off"]
    /\ draft' = IF phase[p] \in {"tables", "accounts", "renamed", "keys", "regions"}
                  THEN NoDraft ELSE draft
    /\ IF phase[p] = "up"
         THEN /\ request' = [r \in Requests |-> IdleRequest]
              /\ writer' = [w \in Writers |-> NoWrite]
              /\ tickets' = {} /\ claim' = NoClaim
         ELSE UNCHANGED <<request, writer, tickets, claim>>
    /\ Forget(p)
    /\ UNCHANGED <<today, limit, usage, logged, restarts, counted, disk, promised, muddled, left>>

\* schedule_restart, restart_now: the new process starts like any other.
RestartUpdated(c) == click[c].at = "ready" /\ Stop(click[c].process)

\* The clicks of the management page, and the releases they find.
ClickUpdate(c, p) ==
    /\ phase[p] = "up"
    /\ left.clicks > 0 /\ left' = [left EXCEPT !.clicks = @ - 1]
    /\ CheckRelease(c, p)
    /\ UNCHANGED <<vars, disk, draft, phase, writer, tickets, claim, promised, muddled>>

Update ==
    /\ \/ left.clicks > 0 /\ Release
       \/ \E c \in Clicks : Pull(c) \/ Install(c)
    /\ UNCHANGED <<vars, disk, draft, phase, writer, tickets, claim, promised, muddled, left>>

----------------------------------------------------------------------------
\* database.init_db, in its order.

Step(p, from, to) == phase[p] = from /\ phase' = [phase EXCEPT ![p] = to]
StartFrame == UNCHANGED <<vars, update, writer, tickets, claim, promised, muddled, left>>

\* executescript and the first ALTERs commit by themselves and add nothing but
\* empty tables and columns; the first UPDATE opens the transaction.
CreateTables(p) ==
    /\ Step(p, "locked", "tables")
    /\ draft' = disk
    /\ UNCHANGED disk /\ StartFrame

\* _dedupe_accounts_provider_uid: of the rows of one login the oldest stays.
Twin(rows, i, j) == rows[i].uid = rows[j].uid /\ rows[i].channel = rows[j].channel
Deduped(rows) ==
    LET kept == {i \in DOMAIN rows : \A j \in DOMAIN rows : Twin(rows, i, j) => i <= j}
    IN  [i \in kept |-> rows[i]]

\* A limit set before the column existed counts from now on.
Backfill(row) == [row EXCEPT !.baseline = IF row.limit > 0 THEN row.spent ELSE 0]

\* _migrate_accounts: unique index, and credit_baseline where it is missing.
MigrateAccounts(p) ==
    /\ Step(p, "tables", "accounts")
    /\ LET rows == Deduped(draft.rows)
       IN  draft' = [draft EXCEPT
              !.rows = [i \in DOMAIN rows |->
                          IF draft.baseline THEN rows[i] ELSE Backfill(rows[i])],
              !.baseline = TRUE, !.unique = TRUE]
    /\ UNCHANGED disk /\ StartFrame

\* _migrate_api_keys: a table of plain keys is put aside ...
RenameKeys(p) ==
    /\ Step(p, "accounts", "renamed")
    /\ draft' = IF draft.hashed THEN draft
                  ELSE [draft EXCEPT !.aside = draft.keys, !.keys = {}]
    /\ UNCHANGED disk /\ StartFrame

\* ... its rows are copied, hashed, and it is dropped.
CopyKeys(p) ==
    /\ Step(p, "renamed", "keys")
    /\ draft' = IF draft.hashed THEN draft
                  ELSE [draft EXCEPT !.keys = draft.aside, !.aside = {}, !.hashed = TRUE]
    /\ UNCHANGED disk /\ StartFrame

\* Two rows of one login in one channel: what the unique index refuses.
Clash(rows) == \E i, j \in DOMAIN rows : i # j /\ Twin(rows, i, j)
Moved(rows) == [i \in DOMAIN rows |->
                  [rows[i] EXCEPT !.channel = IF rows[i].domain = "intl"
                                                THEN "workbuddy-i" ELSE @]]

\* _migrate_workbuddy_regions: one UPDATE; when the index refuses it, init_db
\* raises and the process ends.
MigrateRegions(p) ==
    /\ phase[p] = "keys"
    /\ IF Clash(Moved(draft.rows))
         THEN /\ phase' = [phase EXCEPT ![p] = "refused"]
              /\ draft' = NoDraft
         ELSE /\ phase' = [phase EXCEPT ![p] = "regions"]
              /\ draft' = [draft EXCEPT !.rows = Moved(draft.rows)]
    /\ UNCHANGED disk /\ StartFrame

\* _migrate_logs_resolved_model commits what is open.
Commit(p) ==
    /\ Step(p, "regions", "committed")
    /\ disk' = draft /\ draft' = NoDraft
    /\ StartFrame

\* The second transaction: credentials, the day's counters, the pruning.
Finish(p) ==
    /\ Step(p, "committed", "scanning")
    /\ Restart
    /\ UNCHANGED <<update, disk, draft, writer, tickets, claim, promised, muddled, left>>

----------------------------------------------------------------------------
\* Account rows.

Operate == left.operators > 0 /\ left' = [left EXCEPT !.operators = @ - 1]

HasRow(u, c) == \E i \in DOMAIN disk.rows : disk.rows[i].uid = u /\ disk.rows[i].channel = c

\* add_account: the unique index may refuse the row, and nothing is written.
Add(row) ==
    IF HasRow(row.uid, row.channel) THEN UNCHANGED disk
    ELSE /\ disk.last < MaxRow
         /\ disk' = [disk EXCEPT !.last = @ + 1,
                       !.rows = [i \in DOMAIN @ \cup {disk.last + 1} |->
                                   IF i \in DOMAIN @ THEN @[i] ELSE row]]

\* Rows of either WorkBuddy channel with this uid.
Known(u) == {i \in DOMAIN disk.rows : disk.rows[i].uid = u}
First(u) ==
    LET here == {i \in Known(u) : disk.rows[i].channel = "workbuddy"}
        pool == IF here # {} THEN here ELSE Known(u)
    IN  IF pool = {} THEN 0 ELSE CHOOSE i \in pool : \A j \in pool : i <= j

\* POST /admin/accounts with a pasted login: always the channel "workbuddy".
Paste(u, d) ==
    /\ Serving /\ Operate
    /\ Add(Row(u, "workbuddy", d))
    /\ UNCHANGED <<vars, update, draft, phase, writer, tickets, claim, promised, muddled>>

\* issue_preview and _sessions: kept in memory for ten minutes.
Offer(t) ==
    /\ Serving /\ Operate
    /\ t \notin tickets /\ tickets' = tickets \cup {t}
    /\ UNCHANGED <<vars, update, disk, draft, phase, writer, claim, promised, muddled>>

\* discover: the login files of one channel, for the administrator to choose.
Discover(c) == Offer(c)
StartLogin == Offer("login")

Expire(t) ==
    /\ t \in tickets /\ tickets' = tickets \ {t}
    /\ UNCHANGED <<vars, update, disk, draft, phase, writer, claim, promised, muddled, left>>

\* What a readable file, or the upstream that was asked, says of a login: the
\* account table is read for it, and written later.
Look(w, kind, login) ==
    /\ Serving /\ Operate
    /\ writer[w] = NoWrite
    /\ writer' = [writer EXCEPT ![w] = [kind |-> kind, uid |-> login.uid,
                                       domain |-> login.domain, found |-> First(login.uid)]]
    /\ UNCHANGED <<vars, update, disk, draft, phase, tickets, claim, promised, muddled>>

\* auto_scan_and_import takes any file.
Scan(w) == \E login \in Seen : Look(w, "scan", login)

\* An import takes the files of its preview: those of one of the channels.
Import(w) == \E login \in Seen : ChannelFor(login.domain) \in tickets /\ Look(w, "import", login)

\* A browser login has been completed; an answered session is not asked again.
PollLogin(w) == \E login \in Seen : "login" \in tickets /\ Look(w, "login", login)

\* A login sets the channel of the row it found; a file only its credentials.
\* The row may be gone, and the index may refuse the channel.
Patch(q) ==
    LET moved == [disk.rows EXCEPT ![q.found].channel = ChannelFor(q.domain),
                                   ![q.found].domain = q.domain]
    IN  IF q.kind = "login" /\ q.found \in DOMAIN disk.rows /\ ~Clash(moved)
          THEN disk' = [disk EXCEPT !.rows = moved]
          ELSE UNCHANGED disk

\* Only an import gives a new row the channel of its domain.
Write(w) ==
    LET q == writer[w]
    IN  /\ q # NoWrite
        /\ IF q.found # 0 THEN Patch(q)
             ELSE Add(Row(q.uid, IF q.kind = "import" THEN ChannelFor(q.domain)
                                   ELSE "workbuddy", q.domain))
        /\ writer' = [writer EXCEPT ![w] = NoWrite]
        /\ tickets' = IF q.kind = "login" THEN tickets \ {"login"} ELSE tickets
        /\ UNCHANGED <<vars, update, draft, phase, claim, promised, muddled, left>>

\* startup_scan with CB_GATEWAY_AUTO_IMPORT, before anything is served.
StartupImport(p, u, d) ==
    /\ phase[p] = "scanning" /\ Operate
    /\ IF Known(u) # {} THEN UNCHANGED disk ELSE Add(Row(u, ChannelFor(d), d))
    /\ UNCHANGED <<vars, update, draft, phase, writer, tickets, claim, promised, muddled>>

Serve(p) ==
    /\ Step(p, "scanning", "up")
    /\ UNCHANGED <<vars, update, disk, draft, writer, tickets, claim, promised, muddled, left>>

\* DELETE /admin/accounts/{aid}; the ids are never used again.
DeleteAccount(i) ==
    /\ Serving /\ Operate
    /\ i \in DOMAIN disk.rows
    /\ disk' = [disk EXCEPT !.rows = [j \in DOMAIN @ \ {i} |-> @[j]]]
    /\ UNCHANGED <<vars, update, draft, phase, writer, tickets, claim, promised, muddled>>

----------------------------------------------------------------------------
\* The local snapshot of an account's credit.

\* Mutant: the limit changes, the baseline stays.
SnapshotKept(row, n) == [row EXCEPT !.limit = n]

Snapshot(row, n) == [row EXCEPT !.limit = n, !.baseline = row.spent]

\* PUT /admin/accounts/{aid} with a credit_limit.
EditAccount(i, n) ==
    /\ Serving /\ Operate
    /\ i \in DOMAIN disk.rows
    /\ disk' = [disk EXCEPT !.rows[i] = Snapshot(@, n)]
    /\ promised' = [promised EXCEPT ![i] = n]
    /\ muddled' = IF claim.id = i THEN muddled \cup {i} ELSE muddled
    /\ UNCHANGED <<vars, update, draft, phase, writer, tickets, claim>>

\* claim_daily_checkin re-reads the row and POSTs ...
ClaimReads(i) ==
    /\ Serving /\ Operate
    /\ claim = NoClaim /\ i \in DOMAIN disk.rows
    /\ claim' = [id |-> i, limit |-> disk.rows[i].limit]
    /\ UNCHANGED <<vars, update, disk, draft, phase, writer, tickets, promised, muddled>>

\* ... and adds what was granted to the limit it has read.
ClaimLands ==
    /\ claim # NoClaim
    /\ IF claim.limit > 0 /\ claim.id \in DOMAIN disk.rows
         THEN /\ disk' = [disk EXCEPT !.rows[claim.id].limit = claim.limit + 1]
              /\ promised' = [promised EXCEPT ![claim.id] = @ + 1]
         ELSE UNCHANGED <<disk, promised>>
    /\ claim' = NoClaim
    /\ UNCHANGED <<vars, update, draft, phase, writer, tickets, muddled, left>>

ClaimFails ==
    /\ claim # NoClaim /\ claim' = NoClaim
    /\ UNCHANGED <<vars, update, disk, draft, phase, writer, tickets, promised, muddled, left>>

\* credit_remaining of get_account_status.
NonNeg(n) == IF n < 0 THEN 0 ELSE n
Remaining(row) == NonNeg(row.limit - NonNeg(row.spent - row.baseline))

----------------------------------------------------------------------------
\* API keys and the requests made with them.

AccountFrame == UNCHANGED <<update, draft, phase, writer, tickets, claim, muddled>>

CreateKey(k, n) ==
    /\ Serving /\ Operate
    /\ k \notin disk.keys /\ usage[k] = Zero[k] /\ logged[k] = Zero[k]
    /\ \A r \in Requests : request[r].key = k => request[r].at = "idle"
    /\ disk' = [disk EXCEPT !.keys = @ \cup {k}]
    /\ limit' = [limit EXCEPT ![k] = n]
    /\ UNCHANGED <<today, usage, logged, request, restarts, counted, promised>> /\ AccountFrame

\* Its counters go with the key; the model's copy of them then means nothing.
DeleteKey(k) ==
    /\ Serving /\ Operate
    /\ k \in disk.keys
    /\ disk' = [disk EXCEPT !.keys = @ \ {k}]
    /\ UNCHANGED <<vars, update, promised>> /\ AccountFrame

EditKey(k, n) ==
    /\ Serving /\ Operate
    /\ k \in disk.keys /\ ChangeLimit(k, n)
    /\ UNCHANGED <<disk, promised>> /\ AccountFrame

Ask(r, k) ==
    /\ Serving /\ k \in disk.keys
    /\ left.clients > 0 /\ left' = [left EXCEPT !.clients = @ - 1]
    /\ Authenticate(r, k)
    /\ UNCHANGED <<disk, promised>> /\ AccountFrame

\* The request passes the gates; a counter of a deleted key cannot be written
\* (foreign key), and the request ends with an error.
Pass(r) ==
    /\ Serving
    /\ \/ TurnAway(r) \/ FindAccounts(r) \/ ReadDate(r) \/ Refuse(r) \/ End(r)
       \/ Reserve(r) /\ request[r].key \in disk.keys
       \/ /\ request[r].at = "dated" /\ request[r].key \notin disk.keys
          /\ request' = [request EXCEPT ![r] = IdleRequest]
          /\ UNCHANGED <<today, limit, usage, logged, restarts, counted>>
    /\ UNCHANGED <<disk, promised, left>> /\ AccountFrame

\* record_request: the row of the log and the account's sums in one transaction.
Charge(r, i) ==
    /\ Serving
    /\ LogAttempt(r)
    /\ disk' = IF i \in DOMAIN disk.rows THEN [disk EXCEPT !.rows[i].spent = @ + 1] ELSE disk
    /\ promised' = IF i \in DOMAIN disk.rows THEN [promised EXCEPT ![i] = @ - 1] ELSE promised
    /\ UNCHANGED left /\ AccountFrame

NextDay ==
    /\ left.days > 0 /\ left' = [left EXCEPT !.days = @ - 1]
    /\ Midnight
    /\ UNCHANGED <<update, disk, draft, phase, writer, tickets, claim, promised, muddled>>

RegistryNext ==
    \/ NextDay \/ Update
    \/ \E c \in Clicks : RestartUpdated(c) \/ \E p \in Processes : ClickUpdate(c, p)
    \/ \E p \in Processes :
          \/ Bind(p) \/ Lock(p) \/ Stop(p)
          \/ CreateTables(p) \/ MigrateAccounts(p) \/ RenameKeys(p) \/ CopyKeys(p)
          \/ MigrateRegions(p) \/ Commit(p) \/ Finish(p) \/ Serve(p)
          \/ \E u \in Logins, d \in Domains : StartupImport(p, u, d)
    \/ \E u \in Logins, d \in Domains : Paste(u, d)
    \/ \E w \in Writers : Scan(w) \/ Import(w) \/ PollLogin(w) \/ Write(w)
    \/ StartLogin \/ \E c \in Channels : Discover(c)
    \/ \E t \in Channels \cup {"login"} : Expire(t)
    \/ \E i \in Ids : DeleteAccount(i) \/ ClaimReads(i) \/ \E n \in Limits : EditAccount(i, n)
    \/ ClaimLands \/ ClaimFails
    \/ \E k \in Keys : DeleteKey(k) \/ \E n \in Limits : CreateKey(k, n) \/ EditKey(k, n)
    \/ \E r \in Requests :
          \/ \E k \in Keys : Ask(r, k)
          \/ Pass(r)
          \/ \E i \in Ids \cup {0} : Charge(r, i)

RegistrySpec == RegistryInit /\ [][RegistryNext]_rvars

----------------------------------------------------------------------------
Rows == [uid : Logins, channel : Channels, domain : Domains,
         limit : Nat, baseline : Nat, spent : Nat]
IsTable(t) ==
    /\ t \in [rows : {t.rows}, last : 0..MaxRow, keys : SUBSET Keys, aside : SUBSET Keys,
              hashed : BOOLEAN, baseline : BOOLEAN, unique : BOOLEAN]
    /\ DOMAIN t.rows \subseteq 1..t.last
    /\ t.rows \in [DOMAIN t.rows -> Rows]

\* A database is found as a gateway of some version has left it: international
\* accounts alone have a channel of their own, and no more was spent at a
\* snapshot than since.
ASSUME StoreAssumption ==
    \A s \in Stores :
        /\ IsTable(s) /\ s.aside = {}
        /\ s.unique => ~Clash(s.rows)
        /\ \A i \in DOMAIN s.rows :
              /\ s.rows[i].channel = "workbuddy" \/ s.rows[i].domain = "intl"
              /\ s.baseline => s.rows[i].baseline <= s.rows[i].spent

\* Types of the variables; what is committed never holds two rows of one login
\* in one channel once the index is there, nor keys put aside.
RegistryTypeOK ==
    /\ TypeOK /\ UpdateTypeOK
    /\ IsTable(disk) /\ IsTable(draft)
    /\ phase \in [Processes -> Phases]
    /\ writer \in [Writers -> [kind : Kinds, uid : Logins, domain : Domains, found : 0..MaxRow]]
    /\ tickets \subseteq Channels \cup {"login"}
    /\ claim \in [id : 0..MaxRow, limit : Nat]
    /\ promised \in [Ids -> Int] /\ muddled \subseteq Ids
    /\ disk.aside = {}
    /\ disk.unique => ~Clash(disk.rows)

\* The credit an account is shown to have left is what its operator last
\* entered, plus what was claimed, less what was spent since, across edits,
\* requests, claims, restarts and the migration of an old database - unless
\* the operator edits the snapshot while a claim on the account is under way.
CreditsAddUp ==
    disk.baseline =>
      \A i \in DOMAIN disk.rows \ muddled :
         disk.rows[i].limit > 0 => Remaining(disk.rows[i]) = NonNeg(promised[i])

\* The tables fit together, and so do the sums of an account.
TablesSound == RegistryTypeOK /\ CreditsAddUp

\* A start loses nothing, wherever it is interrupted and whoever else serves:
\* what it commits keeps every key and, for every account, the oldest row of
\* that login with its sums; and a start that is not refused leaves every
\* international account in its own channel.
StartKeepsAll ==
    [][draft # NoDraft /\ disk' # disk =>
         /\ disk'.keys = disk.keys
         /\ \A i \in DOMAIN disk.rows :
              \E j \in DOMAIN disk'.rows :
                 /\ j <= i /\ disk'.rows[j].uid = disk.rows[i].uid
                 /\ disk'.rows[j].spent = disk.rows[j].spent
         /\ \A i \in DOMAIN disk'.rows : disk'.rows[i].channel = ChannelFor(disk'.rows[i].domain)]_rvars

\* The restart of an update starts a release whose requirements are installed,
\* whatever failed before and however many clicks are under way - provided they
\* pull the same release (nothing keeps two clicks apart).
UpdateIsInstalled ==
    [][\A c \in Clicks : RestartUpdated(c) => overlapped \/ installed = code]_rvars

\* What a start finds is whole, and what it makes of it as well.
StartsAreSound == StartKeepsAll /\ UpdateIsInstalled

\* Every start moves the accounts of *.workbuddy.ai to their own channel
\* (docs/releases/v2.2.4.md:17): no start is refused for what it finds there.
StartMovesRegions ==
    [][\A p \in Processes :
         phase[p] = "keys" /\ phase'[p] \notin {"keys", "off"} =>
            phase'[p] = "regions"]_rvars
=============================================================================
