# Buddy2api: specifications and proofs

Buddy2api is an asyncio gateway (FastAPI, SQLite, httpx) that offers one
OpenAI-compatible endpoint in front of several upstream chat services
("channels").  Each channel has accounts with renewable logins; a client key
has a daily limit; a request walks a queue of accounts until one serves it.
This directory holds TLA+ models of that control flow, the TLC configurations
that check them on small instances, and proofs checked by TLAPS.

Paths and line numbers below refer to the repository; `PROJECT.json` maps every
definition to the lines it stands for.

## 1. Inventory

| Component (source) | State | Operations | Hard behaviour | What makes it correct |
| --- | --- | --- | --- | --- |
| Rate limiter (`rate_limiter.py`) | per account: in-flight counter, deque of waiters, last start | `account_slot` (enter, poll, admit, time out, cancel, release), `settings` | polling waiters, settings re-read while waiting, cancellation at any sleep, idle entries dropped | no ghost waiter, no leaked slot, pacing kept, first come first served, nobody waits for ever |
| Failure memory (`auth_manager.py` 102-157) | per account: failures, cooldown end, last failure | `mark_account_failure`, `mark_account_success`, `account_is_cooling_down` | outcomes of concurrent requests in any order | a cooldown is not shortened by a late failure, backoff follows the streak, nobody is stranded |
| WorkBuddy token renewal (`auth_manager.py` 523-773, `control_plane.py` 840-996) | account row, lock per account, dead-session counter | `refresh_token_result`, its callers, login | renewals race with each other, with administrators, logins, restarts; rotating refresh tokens | the stored token is the newest, a login is given up only for a reason |
| Daily quota (`server.py` 188-235, `database.py` 719-745, 1194-1330) | counter per key and date, log rows | authenticate, reserve, log, migrate, prune | worker threads, midnight, restart, limit changed meanwhile | never beyond the limit, never forgotten |
| Database (`database.py`) | account, key, usage and cache tables | `init_db`, edits, credit snapshot, logging | migrations interrupted anywhere, two processes, look-up before write, claims beside edits | a start loses nothing, one row per login and channel, sums of an account add up |
| Administration (`server.py`, `auth_manager.py` 464-520 and 685-722, `providers/workbuddy/oauth.py`) | preview tokens, login sessions | paste, scan, import, browser login, edits, deletions | writes after a look-up, while clients are served | as above |
| Self update, instance lock (`self_update.py`, `server.py` 1862-2018) | port, lock file, checkout, installed packages | check, pull, install, restart | pull without installation, several clicks, two processes | what is restarted has its requirements |
| Catalog, aliases, admission (`catalog.py`, `aliases.py`, `router.py` 78-330) | models, extras, marks, aliases, channel order, keys | admit a name, list models, translate | three filters coded apart, settings changing between them | they agree; what is sent is allowed |
| Account pick (`auth_manager.py` 1257-1473, `routing.py`) | priority, weight, preferred account, cooldown, balance | queue, pick, note success | the order is coded twice | the head of the queue is what the channel picks |
| Dispatcher (`router.py` 500-839) | the queue of a request, the pinned account | build the queue, recover, reserve, walk, peek, close | pool changes under the walk, lazy streams, failover across channels | the walk is the queue, one slot at a time, one reservation, nobody skipped, no switch after output, one retry by the context guard |
| Prompt trimming, tool-history repair (`router.py` 333-420, `workbuddy_outbound.py`, `providers/*/chat.py`) | - | segment, trim, repair | calls without results, results without calls | what is sent is a history the upstream accepts, nothing else is lost |
| WorkBuddy provider (`proxy.py`) | tried accounts, attempt counter, withheld events | pick, refresh, send, retry, stall retry | retry before output, none after it | one answer of one account, finished when it says so, one counted row |
| Stream ownership (`streaming.py`) | closed flag | iterate, close | close before start, during iteration, twice | everything held is released |
| Context budget (`context_budget.py`) | held-back chunks | pre-trim, guard, one retry on rejection | retry inside a guarded stream | one shorter retry, output never repeated, one slot |
| Responses bridge (`responses.py`) | output items, finished choices | translate a stream and an answer into events | partial upstream streams, interleaved parts | well-formed event sequence, complete means usable |
| Other channels' chat (`providers/{qoder,qwenwork,traework,loomy,xiaohuanxiong}`) | tried accounts, per-channel loop | pick, renew, post, retry | five variants of one loop, in-band errors, renewal after a 401 | one answer, every own account asked, no refused token twice |
| Other channels' logins (`providers/*/token.py`, `store.py`) | account row, desktop client's file | renew, write back, resync, import | no lock, two copies, several users of one desktop, crashes between two writes | no session lost or mixed |
| Automation (`control_plane.py`) | running flag, slots served | keepalive, check-in, daily loop | jobs overlap, stop, day change, restart | one job at a time, once a day, nobody forgotten |
| Balance and check-in caches (`database.py` 910-1067, `resource_sync.py`) | last readings, peaks, deadlines, day of a check-in | snapshot, merge, gate | several writers of one row | only what was measured closes the gate |
| Encryption, at-rest formats, web console, retired channel qclaw | - | data transformation, browser code | - | not modelled |

How they interact: the server authenticates a key and calls the dispatcher; the
dispatcher reads account rows, the failure memory, the balance cache, catalogs
and the routing order, asks the server for the daily reservation, pins one
account per hop and calls a provider through the context guard; the provider
picks (returning the pinned account), renews its token (WorkBuddy under the
account's refresh lock, the others without), waits in the rate limiter, calls
the upstream and records success or failure in the failure memory and a row in
the log.  A Responses request reads the same stream through the bridge.
Administrators, the automation jobs, the desktop clients and other requests
change rows, cooldowns, catalogs and settings at every `await`; starts of the
process migrate the tables all of them use.

## 2. Modules

| Module | Models | State of the model = state of the code |
| --- | --- | --- |
| `SlotService` | what callers may rely on: first come first served per account, never more than the limit in force | queue, busy, limit |
| `RateLimiter` | `account_slot`, `settings` | `active`, `waiting` = `_State`; `sinceStart` = now - `last_start`; `phase`, `account`, `age` = the local variables of each call; `stored` = the settings table; `cooling` = the answer of `account_is_cooling_down` |
| `AccountHealth` | the failure memory | `entry` = `_account_failures` (time left and time since instead of moments); `expired` = status; `flight` = attempts under way |
| `TokenRefresh` | `refresh_token_result` and its callers | `row` = the account's database row; `dead` = `_session_dead_counts`; `lock` = `_token_locks`; `task` = coroutines; `valid`, `issued` = the login service (external) |
| `DailyQuota` | a key's daily counter | `usage` = `api_key_daily_usage`; `logged` = rows of `logs`; `request` = requests and worker threads |
| `SelfUpdate` | the update button | `released` = the remote branch; `code` = `version.py`; `installed` = the packages; `program` = what each process loaded; `click` = the threads of `apply` |
| `Registry` | the processes, `init_db`, account and key rows and who writes them; EXTENDS `DailyQuota`, `SelfUpdate` | `disk` = the committed tables; `draft` = the open transaction of `init_db`; `phase` = how far each process is; `writer`, `claim` = threads between their read and their write; `tickets` = preview tokens and login sessions |
| `Admission` | names, catalogs, aliases, marks, keys; the pool, the queue, the pick; who changes them | `catalog`, `extras`, `marks`, `alias`, `order` = their settings rows; `row`, `cooling`, `sticky` = the accounts |
| `Conversation` | the history of a request: items to messages, trims, the system prompts and the repair of every channel (operators only) | a message is a role, the calls it makes, the call it answers, its number, and the prompts folded into it (`before`) |
| `Request` | one request from its name to what an upstream is sent; EXTENDS `Admission`, `Conversation` | `queue`, `next`, `exempt`, `todo`, `messages`, `tried` = locals of `_request_queue`, `_walk_account_queue` and the providers |
| `Dispatch` | the walk over accounts, the context guard's calls of the provider, the WorkBuddy loop beneath them | `queue`, `hop`, `reserved`, `swept` = locals of the dispatcher; `pin` = `_pinned_account`; `calls` = the guard's `_context_retried`; `refused` = what `is_context_rejection` finds; `tried`, `attempt`, `account`, `again` = locals of the provider loop; `open` = slots and upstream responses held |
| `ChatAnswer` | what the client of a stream is promised: one account's deltas, then completion or failure, never both | phase, who |
| `ChatStream` | `_stream_upstream` and `_ChatStreamObserver`, event by event | `observer`, `withheld` (`pending_terminal_events`), `retry` (`pending_retry_log`), `last`, `rows` (`logs`), `out` = what was yielded |
| `ContextRecovery` | `dispatch_with_context_policy` and the guard of a stream | `prompt`, `calls`, `buffered` = its locals; `open` = calls whose slot is held; `mail` = the chunk handed up |
| `ResponseEvents` | the event stream a client of the Responses protocol may rely on | `step`, `items` |
| `Responses` | the bridge, delta by delta | `made` (`output_items` and what is open), `finished`, `productive`, `outcome`; `client` is what the events told the client |
| `Bridge` | `Responses` reading its chunks from `ContextRecovery`, the client leaving at any time | both |
| `ChannelChat` | the account loop of each of the five other channels; `channel` selects the variant | `limit`, `attempt`, `tried`, `picked`, `last` = locals of the loops and pickers; `rows`, `listed` = what is left of the listing a picker walks |
| `ChannelLogin` | renewals of the five channels, the desktop file, imports | `row`, `file`, `cached` (`_resync_cache`), `task` = renewals; `owner`, `valid` = the login services (external) |
| `Balances` | `account_resource_cache` and the routing gate | `cache`, `reading` = readings in flight; `balance` = the vendor (external) |
| `Automation` | `keepalive_loop`, both jobs, the requests of administrators; EXTENDS `Balances` | `running` = `_keepalive_running`; `fired` = slots the loop has served; `job` = jobs in progress; `entry` = `account_checkin_cache`; `claimed` = the vendor (external) |
| `AccountProofs` | theorems about `RateLimiter`, `AccountHealth`, `TokenRefresh` | - |
| `RoutingProofs` | theorems about `Automation` (with `Balances`), which keeps balances and logins fit for routing, and about `Request` (with `Admission`), which routes by them | - |
| `RegistryProofs`, `DispatchProofs`, `ChatStreamProofs`, `ChannelLoginProofs`, `ChannelChatProofs`, `BridgeProofs` | theorems about the module of that name and those it is composed of | - |
| `*MC` | the constants of the runs | - |

Conventions.  A coroutine is cut into actions at its awaits: what runs between
two awaits is one action, as asyncio runs it; a worker thread is cut where it
takes the database lock.  Times are elapsed or remaining times that saturate
where the code stops telling them apart, advanced by `Tick`.  History variables
are marked as such in the declarations and never read by a guard.  An operator
whose comment begins with "Mutant" is not part of the model: it is a plausible
mistake, kept beside the definition it would replace to show that the property
it names would notice.

Actions and code, for the largest modules:

* `RateLimiter`: `EnterFull`, `EnterWait`, `EnterAtOnce` are the first pass
  through `account_slot` (lines 73-105), `PollTimeout`, `PollAdmit`,
  `PollCooldown` a later one after `asyncio.sleep` (92-121), `Cancel` a
  cancellation of the sleep, `Release` the end of the `yield`.
* `Dispatch`: `Arrive`, `Recover`, `Requeue` are `_request_queue`; `Reserve` is
  `after_queue`; `StartHop`, `NextHop` and `Broken` are `_walk_account_queue`
  down to the context guard, which `StartHop` lets refuse an oversized request
  (`context_budget.py` 335-336) and `RetryShorter` lets call the provider again
  (347, 408; `refused` says whether the failure reads as one of the context);
  `Pick`, `PickRevived`, `PickNothing`, `HeadersValid`, `HeadersInvalid` the top
  of the provider's loop; `SlotGranted`, `SlotRefused` its wait for a slot;
  `UpstreamStops`, `UpstreamFails`, `AnswerWhole`, `ToolStall`, `StallFails`,
  `AnswerBuffered`, `FirstChunk` what the upstream call brings; `StartSending`,
  `SendBuffered`, `StreamEnds`, `StreamBreaks` what the client sees; `Hangup` a
  cancellation anywhere; `StatusChanges`, `CooldownChanges` everybody else.
* `ChatStream`: `Pick`, `NoHeaders`, `Post` are the top of the loop; `Refused`,
  `Disconnect`, `Incomplete` the three places an attempt fails (`FailWith` is
  what they share), `SlotRefused` the exit by `RateLimitError`, told to the
  client by `guard_stream` (`TellLimit`); `Read`, `Eof`, `Flush` feed the
  observer; `Whole` is line 1449 on, `Release`, `Terminal`, `SendDone` its yields,
  `TellError` the yield of a failure, `GiveUp` the code after the loop, `Hangup`
  a closed generator.
* `Request`: `Refuse`, `Admit` are `admit_model` and the first queue; `Sweep`,
  `Requeue` the renewal of expired accounts; `Reserve`, `ReserveRefused` the
  day's reservation; `Hop` the hand-over to a provider with its translation and
  trims; `PickAccount`, `PickStray`, `NobodyLeft` the provider's pick (a stray is
  a renewed sibling of a pinned account), with the history as the upstream is
  sent it, or a failure where TraeWork cannot post it; `Serve`, `Fail`, `RejectLength` the
  upstream; `Surroundings` everybody else.
* `ChannelChat`: `PickReady`, `PickLapsed`, `Sweep*`, `PickNothing` are the
  pickers; `Ready*` the renewal before the post; `Send`, `SlotRefused` the slot;
  `Refused`, `Unauthorized`, `RenewedResend`, `RenewalFailed`, `RenewalBreaks`,
  `Unreachable` what goes wrong before an answer; `Delta`, `Complete`,
  `EnvelopeError`, `BodyError`, `ErrorBecomesText`, `CutsShort`, `Disconnect` the
  answer; `NameFails` takes the place of the slot's, the connection's and the
  stream's failures in qwenwork.  Operators over the failure (`Marks`, `Logs`, `Counts`, `Final`) hold
  the differences between the channels.
* `ChannelLogin`: `Begin*`, `Resync*` are the entries into a renewal, `Serve*`
  the login service, `Receive*` what each channel does with the answer
  (`ReceiveRowFirst` qwenwork and traework, `ReceiveFileFirst` qoder, with
  `CrashBetween` the two writes), `ClientLogin`, `ClientRotates`, `ClientLogout`
  the desktop client, `Import`, `Restart` the rest.
* `Automation`: `Poll` is one look of the loop at the clock with the jobs it
  starts; `AdminKeepalive`, `AdminCheckin` and `AdminStatus` (which only
  asks) the buttons; `Turn` one account of a
  job; `Serve*` the vendor; `Receive*`, `MeasureResources` what is stored; `End`
  and `Break` the two ends of a job.
* `Registry`: `Bind`, `Lock`, `CreateTables` ... `Serve` are `server.main` and
  `init_db` in their order, `Stop` the end of a process anywhere; `Scan`,
  `Import`, `PollLogin` read the table and `Write` writes it; `ClaimReads` and
  `ClaimLands` are the two halves of a daily claim.

## 3. Runs

Where a property is a conjunction of named parts, each part has its own comment
in the module.

| Run | Question | Bounds |
| --- | --- | --- |
| `RateLimiter` | Is the queue exact (`QueueExact`), are slots counted exactly (`SlotsExact`), are starts paced (`StartsPaced`), is service in order of arrival (`ServesInOrder`, a refinement of `SlotService`), does every waiter leave (`EveryWaiterLeaves`)? | 1 account, 3 requests, queue of 2, intervals 0 and 2, limits 0, 1, 2, timeouts 1 and 2, through accepted, clamped and rejected stored values |
| `AccountHealth` | Are cooldowns capped (`NeverStranded`), long enough for the streak (`BackoffFollowsStreak`), kept (`OnlySuccessEndsCooldown`)? | 1 account, 3 attempts in flight, hints none, small, beyond the cap |
| `TokenRefresh` | Does the database keep the newest token (`TokensConsistent`), is a login given up only for a reason (`ExpiryHasAReason`), does everybody get the lock (`RefreshEnds`)? | 1 account, 2 coroutines, 2 refresh tokens, threshold 2 |
| `Registry` | Do tables and sums stay sound (`TablesSound`), does a start lose nothing and an update restart only into what is installed (`StartsAreSound`), is no admitted request forgotten (`NeverUnderCounted`) and no limit exceeded (`LimitHonoured`)? | a new, an old and a used database; 2 processes on 2 ports; 2 logins, 1 key with limit 0 or 2, 2 concurrent requests, 1 writer, 2 clicks; 4 scenes (busy clients over 3 days, a little of everything, busy operators, updates) |
| `RegistryStart` | "Every start moves international accounts to their channel" - violated | as above |
| `Dispatch` | Is one slot held at a time, all given back, one reservation made (`HeldAndPaidOnce`); does the walk follow the queue, stay in its channel, skip nobody (`AskedInTurn`); is nobody asked after output or, but by the guard's retry, after a refusal no account cures (`NoFurtherAccount`); is every request answered (`Answered`)? | 3 accounts in 2 channels, the second channel in the middle, failover on and off, 2 attempts in each call of the provider |
| `ChatStream` | What reaches the client, in which order, when (`AnswerIsWhole`); has every account asked a row, does one count (none where a slot was refused) and name what the client was told (`LogIsTrue`); the loop implements `ChatAnswer` (`AnswerSpec`) | 2 accounts, 2 choices, 4 events per attempt, 1 or 2 events withheld |
| `Bridge` | Does the guard's retry not show (`GuardIsInvisible`) and ask for less (`RetriesShorter`); is a response whole and usable when it is told complete (`ResponseIsWhole`), told to its end (`AnswerIsClosed`), in the order of `ResponseEvents` (`EventSpec`)? | 3 prompts, budgets 0, 1, 2, up to 3 deltas out of 11, 2 choices, 2 tools, every JSON answer of one choice |
| `ChannelChat` | One account speaks and the log counts it once (`OneAnswer`); every own account is asked unless a picker gave up, no other, none twice with one token (`OwnAccounts`); every request ends (`Answered`) | 5 channels, 2 accounts, 2 changes by others, pinned and not, streaming and not; the smallest budget is 1 instead of the code's 3, so that two accounts are already a pool beyond it |
| `ChannelLogin` | Is no session lost or filed under another user (`SessionsAreOwn`), do unlocked renewals agree (`UnlockedRenewalsAgree`), does every renewal advance (`RenewalAdvances`)? | 5 channels, 2 users, 2 tasks, 4 sessions, 3 renewals, 2 moves of others |
| `Automation` | Is every account asked (`EverybodyAsked`), is what is shown as claimed claimed (`ShownIsClaimed`), does the cache hold what was measured (`CacheIsMeasured`), is every daily job served once (`DailyJobs`)? | 2 days of 2 instants, 1 WorkBuddy and 1 other account, 1 administrator, 1 reader, 1 move of others |
| `Request` | Do admission, queue, sweep, catalog and pick agree (`PlanIsFollowed`), is what is sent allowed (`SentIsAllowed`) and is its history one the upstream accepts, with all that was said in it (`SentIsAnswerable`)? | 4 channels (1 disabled), 4 accounts, 3 models; every kind of key, name, alias, mark, balance and preference with one message; some with one change at any await; about 5,000 histories of up to 6 messages in channels of every kind |

Why the bounds are enough.  Accounts of the rate limiter share nothing but the
settings, so one account with more requests (three) than the queue and the
limit hold shows every interaction of waiters; the scaled-down intervals and
timeouts keep every order relation of the code's constants.  The failure memory
treats accounts independently; three attempts are needed for a success, a
strong and a weak failure to overlap.  Two coroutines suffice to compete for a
lock or to exchange one refresh token; a third behaves as one of them.  A queue
of three accounts in two channels, interleaved, tells apart drifting inside a
channel, skipping and repeating; two attempts in a call are one that goes on and
one that is the last, and the two calls of a hop make four.  (An inactive
account and one without balance behave to a request like an expired one whose
renewal fails, so `Dispatch` has two statuses.)  In a stream, two choices show a finish of one
overtaking a delta of the other, and four events are the shortest whole answer
of two choices with something before or after it; a second account is all a
switch needs.  In the bridge three deltas open, extend and interrupt an item by
another.  Two users are all that a shared desktop file can confuse, and four
sessions let each renewal and the desktop client take one.  Two instants of a
day, the hour of both jobs and the rest, hold every order of the loop, an
administrator and midnight.  Three blocks of a call with its result
give a trim something to drop before, between and after.  In the registry the
old database has a login twice and an international one among the others, which
is what every migration has to deal with; the scenes split clients, operators and
updates because a migration does not read the counters, nor an update the rows.

Symmetry is used where nothing names the permuted values and there is no
liveness property: the tasks of `ChannelLogin`, requests and clicks of `Registry`.
Deadlock is not checked in `Registry`, `ChannelLogin` and `Automation`, which stop
when their bounded days and moves are used up, nor in `Bridge`, `ChatStream` and
`Request`, which stop when their one request has ended; it is in all others.

### Fairness

* `RateLimiter`: the clock ticks and a waiter's `asyncio.sleep(min(0.1, ...))`
  returns.  Nothing is assumed about the requests that hold slots.
* `AccountHealth`: only time passes.
* `TokenRefresh`: the HTTP timeout (15 s) ends every POST, the event loop runs
  what is ready, and `asyncio.Lock` is first come first served, which strong
  fairness of `Acquire` stands for.
* `Dispatch`, `ChannelChat`: every await before the first output returns.  The
  waits are the limiter's (bounded by its timeout, `EveryWaiterLeaves`), the
  renewal's and the upstream calls' (bounded by their httpx timeouts).  A stream
  may last for ever.
* `Bridge`: the event loop runs what is ready above the guard.  Nothing is
  assumed about the provider's stream: `AnswerIsClosed` starts at its end.

## 4. Disagreements between code and documentation, and observations

Found by a run:

1. A database that holds a login in both WorkBuddy channels cannot be started any
   more (`RegistryStart`).  A login of `*.workbuddy.ai` that is pasted into the
   admin page is stored as `workbuddy` without a look-up (`server.py` 796); when an
   earlier start has moved its first row to `workbuddy-i`, the UPDATE of the next
   start (`database.py` 624) violates the unique index and `init_db` raises.

Met while modelling; the model does what the code does, and the properties are
stated so that they hold of it (each exemption is named in the property's
comment):

2. A temporary failure of a renewal expires the account when a chat request
   asked for it: `get_valid_headers` is `None` and both provider loops record a
   401 (`proxy.py` 1007, 1233), while `docs/releases/v2.1.18.md` line 18 and the
   docstring of `refresh_token_result` say the status is kept.  xiaohuanxiong
   expires a login after any failed exchange, network errors included
   (`providers/xiaohuanxiong/token.py` 109-120).
3. Keepalive renews an account that was disabled after it had been listed
   (`control_plane.py` 847), while the same line says disabled accounts are
   skipped.  The sweeps of loomy, xiaohuanxiong and qoder renew disabled accounts.
4. After a restart the daily counter counts attempts, not requests
   (`_migrate_daily_usage`), while `README.md` line 210 says switches inside one
   request are not counted again.
5. A terminal refusal (11128 and its like) ends the provider's loop but, with
   cross-channel failover, the dispatcher treats it as any other error and tries
   every other account (`router.py` 755-757, 777-778), while
   `docs/releases/v2.2.7.md` line 12 and the comment at `proxy.py` line 48 say no
   other account is spent.
6. Trimming keeps a tool call and its result together (`router.py` 364-365) only
   when nothing stands between them; plain channels then send a result without its
   call.  A trim may also drop every user turn; TraeWork's provider refuses such a
   history before it posts, but as a failure of the account (`llm_chat.py` 198,
   `traework/chat.py` 585-594), so that each account of the channel is asked in
   turn and put on a cooldown for what is wrong with the request.
   WorkBuddy's repair leaves a result away from its call when call turns
   interleave or ids are used twice.
7. A pinned success notes the queue's account as preferred even if a renewed
   sibling answered (qwenwork and traework leave the pinned account in `_pick`).
   qoder's fallback without a pin hands out disabled, drained or cooling accounts,
   and qoder goes on with another account after an error inside a stream that has
   begun.
8. loomy and xiaohuanxiong expire a login they have just renewed when its second
   answer in a JSON request is again a 401; two password logins of loomy whose
   answers cross leave the older session.
9. The write-back of qwenwork and qoder does not compare the user of the desktop
   file with the account's (traework's does); qoder writes the file before the row.
   Imports set the status to active, while `docs/design/multi-channel-v2.md` line
   248 says otherwise.
10. A restart inside the ten minutes of a job runs it again
    (`docs/releases/v2.1.18.md` line 24), and a day's job is lost when another
    one is busy through its ten minutes (`docs/releases/v2.2.14.md` line 70).  The
    administrator's check-in of all accounts runs without the flag.  The slot the
    loop remembers contains the hour (`control_plane.py` 1056, 1061): a job whose
    hour is moved to a later one on the day it has run is run again.  The hours of
    `Automation` are constants, and `DailyJobs` says so.
11. A check-in answer that crosses midnight is remembered as the new day's;
    WorkBuddy's reading of an answer without packages is a zero balance; a daily
    claim writes the credit limit it read before its POST and undoes an edit made
    meanwhile.
12. A new international browser login is stored as `workbuddy` until the next
    start (`auth_manager.py` 720).  A stale mark of a removed model keeps its
    channel in the pool; the list of models shown contains WorkBuddy when it is
    disabled.
13. Nothing keeps two clicks of the update button apart: with a release between
    them the first one's restart may start code whose requirements are not
    installed.
14. The budget of a channel's loop (`auth_manager.py` 1314-1322, "never cap a
    larger pool at three") is computed once.  Accounts enabled while the request
    runs, and the disabled ones qoder's fallback lists, are paid from it too, so in
    a pool of more than three a request may end with an account it never asked:
    the first of the two exceptions of `ChannelChat`'s `NobodySkipped` (16 is the
    other).
15. A refresh of a catalog picks an account like any request (`catalog.py` 365) and
    so changes whom the channel prefers (`auth_manager.py` 1369).  It picks without
    the exemption a marked model gives: when the preferred account has no balance
    left and a request for such a model waits between its queue and its hop, the
    head of the queue and the channel's own pick are different accounts.  No
    answer is wrong, but the account spent is not the one the queue (and the page
    that shows it) puts first.
16. The pickers of qwenwork (`chat.py` 384-402) and traework (323-343) give up with
    the account they were given.  When its lapsed login cannot be renewed, nor any
    expired account's, they return `None` although other active accounts have not
    been asked, and the client is told that no account is available.
    `NobodySkipped` of `ChannelChat` excepts exactly this.
17. qwenwork's `except (httpx.HTTPError, EncodeError)` (`chat.py` 479, 558) names a
    class that only `_packed_request` imports (line 53).  An unreachable upstream,
    a broken stream, a refused slot or a failure of the encoder therefore raises
    `NameError` in its place: the channel's loop ends at once, no account is marked,
    none is asked next, no row is written, and `if output_started: return` (559) is
    never reached.  `NameFails` models it; the properties of `ChannelChat` hold all
    the same, as the request does not claim to have found no account.
18. A slot that is refused (`proxy.py` 1257: the local queue is full, the wait too
    long, the account cooled down) raises `RateLimitError`, which the streaming
    loop does not catch (1359).  `guard_stream` tells the client; no row is written,
    and rows of accounts asked before were written uncounted (1211-1228), so the
    request counts nowhere in the usage of its key.  `LogIsTrue` excepts it.
19. The context guard calls the provider a second time in the hop
    (`context_budget.py` 347, 408): it asks the pinned account again or, without
    failover, lets the provider walk its channel again with none remembered as
    tried, also after a refusal that ends the loop (11115 is both,
    `workbuddy_outbound.py` 18 and 143-153).  What counts as a refusal of the
    context is a matter of words (lines 22-32 and 132): a 429 whose text says
    "超出" does too, and as the pinned account has by then been put on a cooldown,
    the second call finds nobody and the client is told 503 instead of 429.  A
    request that is over the channel's budget even when trimmed ends its hop
    before its account is asked (335-336).  `WalkFollowsQueue`, `LoopStaysInChannel`
    and `NoFurtherAccount` allow the one retry, `NobodySkipped` of `Dispatch` the
    hop ended by the budget (through `usable`, which the hop's account leaves).

## 5. Proofs

`AccountProofs` proves about `RateLimiter`, for every set of accounts, finite set
of requests, queue bound and settings (assumptions `LimitsAssumption`, `StoredAssumption`,
`RequestsAssumption` of `RateLimiter`):

* `TypeCorrect`, `QueueCorrect`, `SlotsCorrect`: the three invariants, through
  the inductive invariant `IInv == TypeOK /\ QueueExact /\ SlotsExact`.  The three
  need each other: that the head of a queue can be popped, or a token removed,
  follows from the exactness of the queue; that the counter stays a natural
  number when a slot is given back follows from the exactness of the count.
  The lemmas `JoinQueue`, `LeaveHead`, `LeaveQueue` state what append, popleft
  and remove do to a queue without repetition.
* `PacingCorrect`: the action property `StartsPaced`, through the invariant
  `Paced` (the elapsed time the code reads never exceeds the time since a
  request really started) and the lemma that dropping an idle entry forgets
  nothing because `MaxInterval <= IdleAfter`.
* `ServiceCorrect`: the rate limiter implements `SlotService`; every action maps
  to one step of the service or to none.  A waiter admitted into a cooldown maps
  to one that gives up from the head of the queue.

It proves about `AccountHealth`, for every set of accounts, requests and hints and
all backoff constants (`HealthAssumption`), `HealthTypeCorrect`, `StrandedNever`
(`NeverStranded`), `BackoffKept` (`BackoffFollowsStreak`) and `OnlySuccess`
(`OnlySuccessEndsCooldown`).  `BackoffFollowsStreak` speaks of the history of
failures and is not inductive; `StreakIsCount` ties the history to the counter of
the code, which it equals until a quiet decay window has passed.  The invariant
is one of each account alone (`Healthy`), so the lemmas `FailHealthy`,
`ConsultHealthy`, `AgeHealthy`, `SucceedHealthy` say what each operation does to
one entry, and `NextInv` only distributes them over the accounts.

And about `TokenRefresh`, for every non-empty set of accounts, every set of
coroutines, every threshold and number of tokens (`RefreshAssumption`),
`NewestTokenIsKept` (`TokensConsistent`), `OnePostPerLogin` and
`LoginsAreNotLostLightly` (the action property `ExpiryHasAReason`).  That the row
holds the newest token is not inductive: between the upstream's rotation and the
write the newest token is only in an answer.  `AnswerIsNewest` says it is there,
and `LockHeld` (from the POST to the use of its answer the coroutine holds the
account's lock) that no second answer exists, which is where a renewal without
the lock would break the proof.  `OnlyChatsSend` serves the action property: an
administrator's renewal cannot reach the branch that expires a login because a
chat was refused.  The set of accounts is assumed non-empty because an idle
coroutine's record names some account.

`RegistryProofs` first proves, for any keys, requests, limits and bounds
(`QuotaAssumption`), `TypeCorrect`, `NothingForgotten` (`NeverUnderCounted`) and
`LimitKept` (`LimitHonoured`) of `DailyQuota` alone, through the invariant
`Counters`.  A worker thread may have read its date long before it gets the
database lock, when the date is no longer one that is kept; `DatedExact` says its
counter has still forgotten nothing, because only a restart prunes and a restart
ends the thread.

It then proves about `Registry`, for any processes, logins, writers and clicks,
every scene and every set of databases the gateway may find, `TablesStaySound`
(`TablesSound`), `StartsStaySound` (`StartsAreSound`), `CountsSurviveStarts`
(`NeverUnderCounted`) and `LimitKeptInRegistry` (`LimitHonoured`); the last two
because every step of the registry is a step of `DailyQuota`, an end of requests,
or leaves the counters alone.  `RegistryAssumption` asks for somebody to log in, to
write and to start; `StoreAssumption` says what a file left by an earlier gateway
holds: no keys put aside, no login twice under the index, only international
accounts in the international channel, no snapshot taken at more than was spent
since (TLC evaluates both on the run's new, old and used database).  The inductive
invariant is `IInv == Counters /\ Updates /\ Tables /\ Memory`:

* `Tables`: at most one process holds the lock (`OneHolds`), which is why the open
  transaction is one variable; while nobody migrates there is none (`DraftOpen`).
  The committed tables and the draft are `Sound`: rows typed and below the last
  number, no login twice under the index, and for every account whose snapshot
  was not edited during a claim the limit and the baseline still promise what
  was entered and claimed (`Credits`).  `Follows` is the heart of the proof about
  starts: `Lineage` says, phase by phase, what the draft is of the committed
  tables - the same numbers, each account in the oldest row of its login with
  the sums it had, the keys in one of two tables, the snapshot column there once
  the account migration is over, and after the last migration every account in
  the channel of its domain.  So a commit loses nothing and a start that dies
  anywhere loses nothing either.
* `Memory`: a login or a claim between its read and its write belongs to the
  process that serves (`Served`), and a claim remembers the limit of a row that is
  as it was, is gone, or is `muddled` (`ClaimKnows`); numbers of rows are never
  used again, so a row that is gone cannot be mistaken for a new one.
* `Updates`: what a click has pulled is the code and what it has installed belongs
  to it (`UpdateSound`), unless clicks overlapped.

Two lemmas carry the migrations.  `Least` (every non-empty set of naturals has a
least element, from the well-founded orderings of the library) gives the oldest
row of a login, on which the removal of twins and every look-up rest; the
removal is shown to keep, of each login, exactly that row.

`DispatchProofs` proves, for every set of accounts and channels, every routing
order without repetition and every limit of the provider's loop
(`DispatchAssumption`), `RequestHoldsAndPaysOnce` (`HeldAndPaidOnce`),
`AccountsAreAskedInTurn` (`AskedInTurn`) and `OutputIsFinal`
(`NoFurtherAccount`).  The invariant adds to the two properties where the request
is (`Progress`), that with failover an account is pinned and earlier attempts were
made at earlier hops or by the first call of this one (`Pinned`), that a queued
account that never cooled was tried when its hop is over, unless the hop was
refused for its size (`Complete`), and that without failover the provider
remembers whom it tried in each of its calls (`Unpinned`).  With failover "nobody
twice but by the retry" comes from the queue, without it from `tried`: two
mechanisms of the code, two parts of the invariant.  That after a stop without
failover only the guard may ask again is a part of `Progress`: the provider picks
after a stop only as `FirstOfRetry`.

`ChatStreamProofs` proves, for every set of accounts, choices, deltas and finish
reasons and every bound on events (`StreamAssumption`), `OneWholeAnswer`
(`AnswerIsWhole`), `LogShowsEveryAttempt` (`LogIsTrue`) and `KeepsThePromise`:
`_stream_upstream` implements `ChatAnswer` (`AnswerSpec`), each action mapped to
one step of the promise or to a stutter.  The argument follows the chunks: what
was accepted is what was sent followed by what is withheld (`Passed`); the
observer has closed a choice exactly when an accepted chunk finished it, and
accepts nothing for it afterwards (`Observes`); before the verdict no finish is
sent (`FinishHeld`).  So at the end each choice finishes at most once, and
exactly when the answer was found whole.  `Attempt` says that output ends
failover.  For the log, `RowsWait` accounts for the row that is kept back in
`pending_retry_log` until it is known whether another account follows, and
`RowsDone` for the moment after it; a request that leaves by a refused slot is
past the writing of that row and counts nowhere (`Limited`).

`RoutingProofs` first proves about `Automation`, for every set of accounts, readers and administrators,
every length of a day and all hours (`AutomationAssumption`,
`BalanceAssumption`), `BalancesAreEvidence` (`CacheIsMeasured`), `JobsRunOnceADay`
(`DailyJobs`), `CheckinSkipsNobody` (`EverybodyAsked`) and `PageShowsWhatIsBooked`
(`ShownIsClaimed`); the last three use the invariant of the balances only for the
types.  `ReadingsTrue` carries a measured zero from the vendor to the row,
`Peaks` that the balance in the row is never above the peak, so that a deadline
written beside it leaves both.  `Sound` is the invariant of one job: whom it has
passed was asked or was away, and an answer that says claimed was true on the day
it was asked for, which is why only answers that cross midnight can show a wrong
day.  `Slots` says the loop remembers the slots served since its turn began;
without it a long renewal could serve the check-in twice.  `Looked` has the two
halves of a turn: the check-in may still be owed while the renewal runs.

It then proves about `Request`, for any channels, finite sets of accounts and of
channels in service, models, aliases, keys and settings, and whatever a start
looks like (`AdmissionAssumption`, `RequestAssumption`: the order is a sequence of
the channels in service, each once, and an account row has the columns of its
table), `FiltersAgree` (`PlanIsFollowed`) and `OnlyAllowedIsSent` (`SentIsAllowed`).

* The queue is defined by places: an account stands as far back as there are
  accounts before it.  `QueueOrder` shows the order of the queue to be strict and
  total, `Places` that then every place is taken by exactly one account, so the
  queue of any length holds those that wait (`WhoWaits`), each once
  (`QueueHolds`), with the first of the order at its head; `HeadIsPick` shows that
  this is whom `pick_account` would have picked in the channel, although one sorts
  all channels by priority, channel, weight and preference, and the other takes
  the highest priority and then the preferred account unless another weighs more.
* What is sent was decided at different times.  `Planned` keeps what was true of
  every queued account when the queue was built and remains true of those that
  did not change since, `Position` where the walk is, `HopAsks` what a hop was
  opened for.  Each change of the administrator or of a job is one of a few
  kinds (`Recorded`), so one lemma serves all of them.
* The attempt to prove that the head of the queue is the channel's pick failed
  at first, for a good reason: observation 15.  `PlanIsFollowed` now has the history
  variable `swayed`, and the run's constants have the refresh that shows why.

`ChannelLoginProofs` proves, for every finite set of users and every set of
renewals (`LoginAssumption`: the sessions of users who have all logged in at the
start fit the bound), `OwnAndInStep` (`SessionsAreOwn`), `RenewalsAgree`
(`UnlockedRenewalsAgree`) and `RenewalsEnd` (the action property
`RenewalAdvances`).  `Own` carries the owner of a session through row, file,
question and answer; it stops when a write-back mixed the file, which only qoder
and qwenwork do.  That a login stays usable without a lock is not inductive,
because the live session is at times only in an answer.  `Live` describes a login
nobody else touches: one live session (`OneLive`), in the row or in an answer
(`Kept`), every answer not yet stored still live (`AnswersLive`), the file at the
row's session (`FileIsRow`), and, where sessions are replaced, one answer only,
with a session no row and no question has seen (`AnswerUnseen`), so a stale
renewal can only be refused and never overwrite.  The other users pay for a step
only if it disturbs them (`Undisturbed`), which keeps the proof to one case per
action.

`ChannelChatProofs` proves, for each of the five channels, any list of accounts
without repetition, any smallest budget and any number of changes by others
(`ChannelAssumption`), `RequestHasOneAnswer` (`OneAnswer`) and
`RequestAsksItsAccounts` (`OwnAccounts`).  That nobody is skipped is a counting
argument: each attempt is an account tried for the first time or, in traework
alone, one tried again renewed (`Budget`), and the budget is no smaller than the
accounts it counted, twice their number in traework; so a spent budget whose
attempts all went to these accounts has been spent on every one of them
(observation 14 is where they did not).  What ends the loop before that is an empty
pick, and `Skipping` says that an account which stayed usable and was not asked
could still have been picked, so that `pick_account` gives nothing only when there
is none; a picker that was given an account and ends without one is the exception
of observation 16.  `Tokens` carries "no token twice": an account that
may be tried again has a token not yet sent, or cools.  `Counted` bounds the
counted rows by the attempts; `Speaks` ties what the client has to the account
in use.  The properties name the channels in which a part does not hold (observations 7
and 16).

`BridgeProofs` proves, for any prompts, budgets, choices, tools, deltas and JSON
answers (`RecoveryAssumption`, `BridgeAssumption`), `RetryIsInvisible`
(`GuardIsInvisible`), `RetryIsShorter` (the action property `RetriesShorter`),
`ResponseHeardWhole` (`ResponseIsWhole`) and `EventsKeepProtocol`: `Bridge`
implements `ResponseEvents` (`EventSpec`), each action mapped to one step of the
protocol or to a stutter.

* For the guard, `HopInv` says which call holds the slot (`Slots`), what the
  client has been given (`Outward`) and that what was read is what was handed over
  followed by what is kept (`Passed`).  That the retry asks for less is a lemma
  about `Trim`, whose limit is half of what was refused.
* For the bridge, the draft runs ahead of the client by the events still to be
  sent.  `Path` says these events lead the client, each one allowed where it
  comes, to a state that matches the items of the draft (`Announced`); one lemma
  for each operation on the draft (open, extend, close an item, name a call)
  says that it keeps this (`Good`) and the order of reasoning before text and
  calls (`Ordered`).  Sending an event then shortens the path, and at its end the
  client has what the draft has (`Concluded`, `Delivered`); an answer that was no
  stream has no events (`Converted`).
* `Linked` joins the two: the hop behind a response that is ending is over, which
  is why nothing is left open when the client has its answer, or has gone.

Types of `RateLimiter`, `AccountHealth` and `DailyQuota` are theorems of their own
and in no run; those of the others are a part of an invariant.  Each
inductive invariant was first checked by TLC on the constants of the module's
run, then proved.

Only model-checked, and why:

* All liveness (`EveryWaiterLeaves`, `RefreshEnds`, `Answered` and the others of
  section 3): fairness and ENABLED are outside what the prover handles.
* `SentIsAnswerable` of `Request`: the trims, the translation and the repair are
  folds over a history, and what a fold computes on a sequence of any length is
  induction over data, for which the installed provers have no theorem they can
  use.  The run evaluates them on about 5,000 histories instead.

No module declares a RECURSIVE operator.

## 6. Not modelled, and why

* System prompts that are not text or are empty, and the setting that turns the
  gateway's own prompt off.
* Formatting, logging, request validation, statistics and log searches (they only
  read), the wording of reasoning parameters, images and sampling parameters.
* The bytes of SSE and JSON inside a stream: `ChatStream`, `ContextRecovery` and
  `Responses` start at the decoded event, and a chunk carries at most one choice.
  Event translation and request signing of the other channels.
* The failure class in log rows, which the branch without headers (`proxy.py`
  1232) leaves at the value of the account before; the rows of the JSON loop,
  which writes a retry row at once (`proxy.py` 1053) and so leaves a request that
  finds no further account, or is refused a slot, without a counted one.
* Changes of the hours of the daily jobs while the process runs (observation 10).
* The 5 s bound on closing a stream (`streaming.py`).
* In `Registry`: logins pasted without a uid, which the index does not cover; key
  ids used again after the key table was rebuilt; explicit edits of
  `credit_baseline`; the second `init_db` of `keepalive_loop`, which finds nothing
  to change; a scan takes its files one by one, and each is a pass of its own
  here; the settings pages, which store earlier settings before a later one is
  refused.
* In `SelfUpdate`: version sources, proxy settings and the start scripts, which
  install missing requirements on their own.
* Cryptography and byte formats, the browser console, packaging, the retired
  channel qclaw and `providers/tool_history.py`, which nothing calls.

## 7. Plan

1. Done: every module of section 2.
2. Done: every safety and action property of the passing runs but `SentIsAnswerable`,
   and every refinement, is a theorem (section 5).
3. Left: modules for `SseDecoder` (the same events however the bytes are cut) and
   for the rows and usage counters of the JSON loops.
