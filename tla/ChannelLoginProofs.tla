------------------------- MODULE ChannelLoginProofs -------------------------
(***************************************************************************)
(* Proofs about ChannelLogin for every set of users and renewals and every *)
(* bound on the sessions issued.                                           *)
(***************************************************************************)
EXTENDS ChannelLogin, FunctionTheorems, FiniteSetTheorems, SequenceTheorems, TLAPS

Exchangers == {"qoder", "qwenwork", "traework"}

\* While the file was never mixed, the file, the rows and the renewals hold
\* sessions of the users they name.
FileOwn == file.session # 0 => owner[file.session] = file.user
RowOwn(u) ==
    /\ owner[row[u].access] = u
    /\ row[u].refresh # 0 => owner[row[u].refresh] = u
TaskOwn(k) ==
    k.at # "idle" =>
        /\ k.access # 0 /\ owner[k.access] = k.user
        /\ k.refresh # 0 => owner[k.refresh] = k.user
        /\ k.reply > 0 => owner[k.reply] = k.user
Own ==
    /\ mixed => channel \in {"qoder", "qwenwork"}
    /\ ~mixed => FileOwn /\ (\A u \in Users : RowOwn(u)) /\ \A t \in Tasks : TaskOwn(task[t])

\* Which questions a channel asks.
Asks(k) ==
    /\ k.at = "login" => channel = "loomy"
    /\ channel \in Exchangers => k.at = "idle" \/ (k.at = "exchange" /\ k.refresh # 0)
Questions ==
    /\ channel \in Exchangers => \A u \in Users : row[u].refresh # 0
    /\ \A t \in Tasks : Asks(task[t])

\* A renewal of u has a session to store.
Holds(k, u) == k.at = "exchange" /\ k.user = u /\ k.reply > 0

\* A user whose login nobody but the gateway touches has one live session: in the
\* row, or in an answer that is not stored yet.  Where sessions are replaced, one
\* renewal has that answer and nobody else has seen the session.
OneLive(u) == \A m, n \in valid : owner[m] = u /\ owner[n] = u => m = n
AnswersLive(u) == \A t \in Tasks : Holds(task[t], u) => task[t].reply \in valid
Kept(u) == row[u].refresh \in valid \/ \E t \in Tasks : Holds(task[t], u)
FileIsRow(u) == file.user = u /\ file.session # 0 => file.session = row[u].refresh
AnswerUnseen(u) ==
    rotates => \A t \in Tasks : Holds(task[t], u) =>
        /\ row[u].refresh # task[t].reply
        /\ \A s \in Tasks : /\ task[s].at # "idle" /\ task[s].user = u
                               => task[s].refresh # task[t].reply
                            /\ Holds(task[s], u) => s = t
Live(u) ==
    OneLive(u) /\ AnswersLive(u) /\ Kept(u) /\ FileIsRow(u) /\ AnswerUnseen(u)
Untouched ==
    channel \in Exchangers /\ ~mixed => \A u \in Users \ (lost \cup touched) : Live(u)

\* Where the row is live and the file is not, a renewal is about to write both.
FileFollows(u) ==
    file.user = u /\ file.session # 0 /\ row[u].refresh \in valid
        => file.session \in valid \/ \E t \in Tasks : Holds(task[t], u)
Followed == channel \in Exchangers /\ ~mixed => \A u \in Users \ lost : FileFollows(u)

IInv == TypeOK /\ Own /\ Questions /\ Untouched /\ Followed

----------------------------------------------------------------------------
(* Sessions, rows and renewals                                             *)

RowRecords == [access : Sessions, refresh : Sessions \cup {0},
               status : Statuses, lapsed : BOOLEAN, password : BOOLEAN]
Replies == Sessions \cup {Pending, Failure, Rejected}
TaskRecords == [at : Points, kind : {"renew", "ready", "retry"}, user : Users,
                access : Sessions \cup {0}, refresh : Sessions \cup {0},
                again : BOOLEAN, reply : Replies]

\* Sessions are counted from one.
LEMMA SessionNumbers ==
    ASSUME TypeOK
    PROVE  /\ Len(owner) \in Nat /\ Sessions = 1..Len(owner)
           /\ \A n \in Sessions : n \in Nat /\ n > 0 /\ owner[n] \in Users
           /\ Pending \notin Sessions /\ Failure \notin Sessions /\ Rejected \notin Sessions
           /\ 0 \notin Sessions
           /\ \A r \in Replies : r > 0 <=> r \in Sessions
<1>1. owner \in Seq(Users)
  BY DEF TypeOK
<1>2. Len(owner) \in Nat /\ DOMAIN owner = 1..Len(owner) /\ \A n \in 1..Len(owner) : owner[n] \in Users
  BY <1>1, LenProperties
<1> QED BY <1>2 DEF Sessions, Replies, Pending, Failure, Rejected

\* A session issued is a new one, the last; those before keep their owners.
LEMMA Issued ==
    ASSUME TypeOK, NEW u \in Users, NEW revoked, Issue(u, revoked)
    PROVE  /\ owner' \in Seq(Users) /\ Len(owner') = Len(owner) + 1 /\ Len(owner') <= MaxSessions
           /\ Len(owner') \in Sessions' /\ Len(owner') \notin Sessions /\ Len(owner') > 0
           /\ Sessions \subseteq Sessions' /\ Sessions' = Sessions \cup {Len(owner')}
           /\ \A n \in Sessions : owner'[n] = owner[n]
           /\ owner'[Len(owner')] = u
           /\ valid' = (valid \ revoked) \cup {Len(owner')} /\ valid' \subseteq Sessions'
           /\ rotates' = rotates
<1>1. /\ owner \in Seq(Users) /\ owner' = Append(owner, u) /\ Len(owner) \in Nat
      /\ Len(owner) < MaxSessions /\ MaxSessions \in Nat /\ Sessions = 1..Len(owner)
      /\ valid' = (valid \ revoked) \cup {Len(owner) + 1} /\ rotates' = rotates
  BY SessionNumbers, LoginAssumption DEF Issue, TypeOK
<1>2. /\ owner' \in Seq(Users) /\ Len(owner') = Len(owner) + 1 /\ owner'[Len(owner) + 1] = u
      /\ \A n \in 1..Len(owner) : owner'[n] = owner[n]
  BY <1>1, AppendProperties
<1>3. Sessions' = 1..(Len(owner) + 1)
  BY <1>2, LenProperties DEF Sessions
<1>4. valid \subseteq Sessions
  BY DEF TypeOK
<1>5. Sessions' = Sessions \cup {Len(owner) + 1} /\ Len(owner) + 1 \notin Sessions /\ Len(owner) + 1 > 0
  BY <1>1, <1>3
<1>6. Len(owner) + 1 <= MaxSessions
  BY <1>1
<1> QED BY <1>1, <1>2, <1>4, <1>5, <1>6

\* What a row is when it has taken over a session.
LEMMA AdoptedRow ==
    ASSUME row \in [Users -> RowRecords], NEW u \in Users, NEW a \in Sessions,
           NEW r \in Sessions \cup {0}
    PROVE  /\ Adopted(u, a, r) \in [Users -> RowRecords]
           /\ Adopted(u, a, r)[u].access = a /\ Adopted(u, a, r)[u].refresh = r
           /\ \A v \in Users : v # u => Adopted(u, a, r)[v] = row[v]
<1>1. PICK n : n = [row[u] EXCEPT !.access = a, !.refresh = r, !.status = "active",
                                  !.lapsed = FALSE]
  OBVIOUS
<1>2. n \in RowRecords /\ n.access = a /\ n.refresh = r
  BY <1>1 DEF RowRecords, Statuses
<1>3. Adopted(u, a, r) = [row EXCEPT ![u] = n]
  BY <1>1 DEF Adopted, RowRecords
<1> QED BY <1>2, <1>3

\* A mark leaves the tokens of a row.
LEMMA MarkedRow ==
    ASSUME row \in [Users -> RowRecords], NEW u \in Users, NEW status \in Statuses
    PROVE  /\ [row EXCEPT ![u].status = status] \in [Users -> RowRecords]
           /\ \A v \in Users :
                 /\ [row EXCEPT ![u].status = status][v].access = row[v].access
                 /\ [row EXCEPT ![u].status = status][v].refresh = row[v].refresh
BY DEF RowRecords

\* The record of a renewal after an answer.
LEMMA RepliedTask ==
    ASSUME TypeOK, NEW t \in Tasks, NEW r \in Replies', Sessions \subseteq Sessions',
           Reply(t, r), task[t].at # "idle"
    PROVE  /\ task' \in [Tasks -> TaskRecords'] /\ \A s \in Tasks : s # t => task'[s] = task[s]
           /\ task'[t].at = task[t].at /\ task'[t].user = task[t].user
           /\ task'[t].access = task[t].access /\ task'[t].refresh = task[t].refresh
           /\ task'[t].reply = r
<1>1. task \in [Tasks -> TaskRecords]
  BY DEF TypeOK, TaskRecords, Replies
<1>2. PICK k : k = [task[t] EXCEPT !.reply = r]
  OBVIOUS
<1>3. task' = [task EXCEPT ![t] = k]
  BY <1>1, <1>2 DEF Reply
<1>4. \A j \in TaskRecords : j \in TaskRecords'
  BY DEF TaskRecords, Replies
<1>5. /\ k \in TaskRecords' /\ k.at = task[t].at /\ k.user = task[t].user
      /\ k.access = task[t].access /\ k.refresh = task[t].refresh /\ k.reply = r
  BY <1>1, <1>2, <1>4 DEF TaskRecords
<1> QED BY <1>1, <1>3, <1>4, <1>5

\* Nobody renews: an idle record.
LEMMA IdleTask ==
    /\ Idle \in TaskRecords /\ Idle.at = "idle" /\ Idle.reply = Pending
    /\ \A u : ~Holds(Idle, u)
BY LoginAssumption DEF Idle, TaskRecords, Replies, Points, Holds, Pending

----------------------------------------------------------------------------
(* Types, owners and questions                                             *)

Basic == TypeOK /\ Own /\ Questions

\* Owners and questions follow from what changed.
LEMMA BasicStep ==
    ASSUME Basic, TypeOK', channel' = channel, mixed' => channel \in {"qoder", "qwenwork"},
           ~mixed' => ~mixed, \A n \in Sessions : owner'[n] = owner[n],
           ~mixed' => FileOwn',
           \A u \in Users :
               \/ row'[u].access = row[u].access /\ row'[u].refresh = row[u].refresh
               \/ /\ ~mixed' => RowOwn(u)'
                  /\ channel \in Exchangers => row'[u].refresh # 0,
           \A t \in Tasks :
               \/ task'[t] = task[t]
               \/ (~mixed' => TaskOwn(task[t])') /\ Asks(task[t])'
    PROVE  Basic'
<1>1. /\ \A u \in Users : row[u].access \in Sessions /\ row[u].refresh \in Sessions \cup {0}
      /\ \A t \in Tasks : /\ task[t].access \in Sessions \cup {0}
                          /\ task[t].refresh \in Sessions \cup {0}
                          /\ task[t].reply \in Replies
  BY DEF Basic, TypeOK, Replies
<1>2. ~mixed' => \A u \in Users : RowOwn(u)'
  BY <1>1 DEF Basic, Own, RowOwn
<1>3. ~mixed' => \A t \in Tasks : TaskOwn(task[t])'
  <2> SUFFICES ASSUME ~mixed', NEW t \in Tasks, task'[t] = task[t] PROVE TaskOwn(task[t])'
    OBVIOUS
  <2>1. TaskOwn(task[t])
    BY DEF Basic, Own
  <2>2. task[t].reply > 0 => task[t].reply \in Sessions
    BY <1>1, SessionNumbers DEF Basic
  <2> QED BY <1>1, <2>1, <2>2 DEF TaskOwn
<1>4. Own'
  BY <1>2, <1>3 DEF Basic, Own
<1>5. Questions'
  BY DEF Basic, Questions, Asks
<1> QED BY <1>4, <1>5 DEF Basic

\* A call begins: the row may have changed, a renewal may have copied it.
LEMMA CopyBasic ==
    ASSUME Basic, NEW t \in Tasks, NEW u \in Users, NEW kind \in {"renew", "ready", "retry"},
           NEW at \in Points \ {"idle"},
           UNCHANGED <<channel, service, file, moves, past>>,
           cached' \subseteq Users, CanBegin(t),
           row' \in [Users -> RowRecords],
           ~mixed => \A v \in Users : RowOwn(v)',
           channel \in Exchangers => at = "exchange" /\ row' = row,
           at = "login" => channel = "loomy",
           Copy(t, u, kind, at) \/ UNCHANGED task
    PROVE  Basic'
<1>1. /\ TypeOK /\ Own /\ Questions
      /\ owner' = owner /\ rotates' = rotates /\ valid' = valid /\ Sessions' = Sessions
      /\ lost' = lost /\ touched' = touched /\ mixed' = mixed
      /\ channel' = channel /\ file' = file /\ moves' = moves
  BY DEF Basic, service, past, Sessions
<1>2. begun' \in 0..MaxRenewals
  <2>1. begun \in Nat /\ begun < MaxRenewals /\ begun' = begun + 1 /\ MaxRenewals \in Nat
    BY <1>1, LoginAssumption DEF CanBegin, TypeOK
  <2> QED BY <2>1
<1>3. task \in [Tasks -> TaskRecords]
  BY <1>1 DEF TypeOK, TaskRecords, Replies
<1>4. CASE UNCHANGED task
  <2>1. TypeOK'
    BY <1>1, <1>2, <1>4 DEF TypeOK, RowRecords, Idle
  <2>2. FileOwn' <=> FileOwn
    BY <1>1 DEF FileOwn
  <2> QED BY <1>1, <1>4, <2>1, <2>2, BasicStep DEF Own, Questions
<1>5. CASE Copy(t, u, kind, at)
  <2>1. PICK k : k = [at |-> at, kind |-> kind, user |-> u, access |-> row'[u].access,
                      refresh |-> row'[u].refresh, again |-> FALSE, reply |-> Pending]
    OBVIOUS
  <2>2. row'[u].access \in Sessions /\ row'[u].refresh \in Sessions \cup {0}
    BY DEF RowRecords
  <2>3. k \in TaskRecords /\ k.at = at /\ k.reply = Pending /\ k.user = u
        /\ k.access = row'[u].access /\ k.refresh = row'[u].refresh
    BY <2>1, <2>2 DEF TaskRecords, Replies
  <2>4. task' = [task EXCEPT ![t] = k]
    BY <1>5, <2>1 DEF Copy
  <2>5. task' \in [Tasks -> TaskRecords] /\ task'[t] = k /\ \A s \in Tasks : s # t => task'[s] = task[s]
    BY <1>3, <2>3, <2>4
  <2>6. \A s \in Tasks : task'[s].at = "idle" => task'[s] = Idle
    BY <1>1, <2>3, <2>5 DEF TypeOK
  <2>7. TypeOK'
    BY <1>1, <1>2, <2>5, <2>6 DEF TypeOK, RowRecords, TaskRecords, Replies, Idle
  <2>8. FileOwn' <=> FileOwn
    BY <1>1 DEF FileOwn
  <2>9. ~mixed' => TaskOwn(task[t])'
    <3>1. row'[u].access # 0 /\ ~(Pending > 0)
      BY <1>1, <2>2, SessionNumbers DEF Pending
    <3> QED BY <1>1, <2>3, <2>5, <3>1 DEF TaskOwn, RowOwn
  <2>10. Asks(task[t])'
    BY <1>1, <2>3, <2>5 DEF Asks, Questions
  <2> QED BY <1>1, <2>5, <2>7, <2>8, <2>9, <2>10, BasicStep DEF Own, Questions
<1> QED BY <1>4, <1>5

\* The file is looked at when a login does not work: it is taken over only if it
\* names the user.
LEMMA ResyncRow ==
    ASSUME Basic, NEW u \in Users, NEW access, Resync(u, access, "expired"),
           UNCHANGED <<owner, file>>
    PROVE  /\ row' \in [Users -> RowRecords] /\ cached' \subseteq Users
           /\ ~mixed => \A v \in Users : RowOwn(v)'
<1>1. /\ row \in [Users -> RowRecords] /\ cached' \subseteq Users
      /\ file.session \in Sessions \cup {0} /\ 0 \in Sessions \cup {0}
  BY DEF Basic, TypeOK, RowRecords, Resync
<1>2. CASE Offered(u, access)
  <2>1. row' = Adopted(u, file.session, 0) /\ file.session \in Sessions /\ file.user = u
    BY <1>1, <1>2 DEF Resync, Offered
  <2>2. /\ row' \in [Users -> RowRecords] /\ row'[u].access = file.session /\ row'[u].refresh = 0
        /\ \A v \in Users : v # u => row'[v] = row[v]
    BY <1>1, <2>1, AdoptedRow
  <2>3. ~mixed => \A v \in Users : RowOwn(v)'
    BY <1>2, <2>1, <2>2 DEF Basic, Own, RowOwn, FileOwn, Offered
  <2> QED BY <1>1, <2>2, <2>3
<1>3. CASE ~Offered(u, access)
  <2>1. row' = [row EXCEPT ![u].status = "expired"] /\ "expired" \in Statuses
    BY <1>3 DEF Resync, Statuses
  <2>2. /\ row' \in [Users -> RowRecords]
        /\ \A v \in Users : row'[v].access = row[v].access /\ row'[v].refresh = row[v].refresh
    BY <1>1, <2>1, MarkedRow
  <2> QED BY <1>1, <2>2 DEF Basic, Own, RowOwn
<1> QED BY <1>2, <1>3

\* The five ways a call begins.
LEMMA BeginBasic == ASSUME Basic, NEW t \in Tasks, Begin(t) PROVE Basic'
<1>1. PICK u \in Users : \/ BeginExchange(t, u) \/ BeginLoomy(t, u) \/ BeginReady(t, u)
                         \/ ResyncInStream(t, u)
                         \/ \E kind \in {"renew", "retry"} : BeginRefresh(t, u, kind)
  BY DEF Begin
<1>2. /\ row \in [Users -> RowRecords] /\ cached \subseteq Users
      /\ file.session \in Sessions \cup {0} /\ channel \in Channels
      /\ ~mixed => FileOwn /\ \A v \in Users : RowOwn(v)
  BY DEF Basic, TypeOK, RowRecords, Own
<1>3. CASE BeginExchange(t, u)
  <2>1. ~mixed => \A v \in Users : RowOwn(v)'
    BY <1>2, <1>3 DEF BeginExchange, RowOwn, service
  <2> QED BY <1>2, <1>3, <2>1, CopyBasic DEF BeginExchange, Points
<1>4. CASE BeginLoomy(t, u)
  <2>1. row' \in [Users -> RowRecords] /\ (~mixed => \A v \in Users : RowOwn(v)')
    <3>1. CASE file.user = u /\ file.session > row[u].access
      <4>1. row' = Adopted(u, file.session, file.session) /\ owner' = owner
        BY <1>4, <3>1 DEF BeginLoomy, service
      <4>2. file.session \in Sessions
        <5>1. row[u].access \in Sessions
          BY <1>2 DEF RowRecords
        <5>2. row[u].access \in Nat /\ row[u].access > 0
          BY <5>1, SessionNumbers DEF Basic
        <5> QED BY <1>2, <3>1, <5>2
      <4>3. /\ row' \in [Users -> RowRecords] /\ row'[u].access = file.session
            /\ row'[u].refresh = file.session
            /\ \A v \in Users : v # u => row'[v] = row[v]
        BY <1>2, <4>1, <4>2, AdoptedRow
      <4>4. file.session # 0
        BY <4>2, SessionNumbers DEF Basic
      <4> QED BY <1>2, <3>1, <4>1, <4>3, <4>4 DEF RowOwn, FileOwn
    <3>2. CASE ~(file.user = u /\ file.session > row[u].access)
      BY <1>2, <1>4, <3>2 DEF BeginLoomy, RowOwn, service
    <3> QED BY <3>1, <3>2
  <2>2. channel = "loomy" /\ channel \notin Exchangers
    BY <1>4 DEF BeginLoomy, Exchangers
  <2> QED BY <1>2, <1>4, <2>1, <2>2, CopyBasic DEF BeginLoomy, Points
<1>5. CASE BeginReady(t, u)
  <2>1. channel = "xiaohuanxiong" /\ channel \notin Exchangers
    BY <1>5 DEF BeginReady, Exchangers
  <2>2. CASE row[u].lapsed /\ row[u].refresh = 0
    <3>1. /\ row' \in [Users -> RowRecords] /\ cached' \subseteq Users
          /\ ~mixed => \A v \in Users : RowOwn(v)'
      BY <1>5, <2>2, ResyncRow DEF BeginReady, service
    <3>2. "probe" \in Points \ {"idle"} /\ "ready" \in {"renew", "ready", "retry"}
      BY DEF Points
    <3> QED BY <1>5, <2>1, <2>2, <3>1, <3>2, CopyBasic DEF BeginReady
  <2>3. CASE ~(row[u].lapsed /\ row[u].refresh = 0)
    <3>1. /\ row' = row /\ cached' = cached
          /\ ~mixed => \A v \in Users : RowOwn(v)'
      BY <1>2, <1>5, <2>3 DEF BeginReady, RowOwn, service
    <3>2. PICK at \in {"exchange", "probe"} : Copy(t, u, "ready", at)
      BY <1>5, <2>3 DEF BeginReady
    <3> QED BY <1>2, <1>5, <2>1, <3>1, <3>2, CopyBasic DEF BeginReady, Points
  <2> QED BY <2>2, <2>3
<1>6. CASE ResyncInStream(t, u)
  <2>1. channel = "xiaohuanxiong" /\ channel \notin Exchangers
    BY <1>6 DEF ResyncInStream, Exchangers
  <2>2. /\ row' \in [Users -> RowRecords] /\ cached' \subseteq Users
        /\ ~mixed => \A v \in Users : RowOwn(v)'
    BY <1>6, ResyncRow DEF ResyncInStream, service
  <2>3. "probe" \in Points \ {"idle"} /\ "ready" \in {"renew", "ready", "retry"}
    BY DEF Points
  <2> QED BY <1>6, <2>1, <2>2, <2>3, CopyBasic DEF ResyncInStream
<1>7. ASSUME NEW kind \in {"renew", "retry"}, BeginRefresh(t, u, kind) PROVE Basic'
  <2>1. channel = "xiaohuanxiong" /\ channel \notin Exchangers
    BY <1>7 DEF BeginRefresh, Exchangers
  <2>2. /\ row' = row /\ cached' = cached
        /\ ~mixed => \A v \in Users : RowOwn(v)'
    BY <1>2, <1>7 DEF BeginRefresh, RowOwn, service
  <2>3. PICK at \in {"exchange", "probe"} : Copy(t, u, kind, at)
    BY <1>7 DEF BeginRefresh
  <2> QED BY <1>2, <1>7, <2>1, <2>2, <2>3, CopyBasic DEF BeginRefresh, Points
<1> QED BY <1>1, <1>3, <1>4, <1>5, <1>6, <1>7

\* An answer of the service reaches the renewal that waits for it.
LEMMA ReplyBasic ==
    ASSUME Basic, NEW t \in Tasks, NEW r \in Replies', Waiting(t), Reply(t, r),
           UNCHANGED <<channel, begun, row, file, cached, moves, touched, mixed>>,
           rotates' = rotates, owner' \in Seq(Users), Len(owner') <= MaxSessions,
           valid' \subseteq Sessions', Sessions \subseteq Sessions',
           \A n \in Sessions : owner'[n] = owner[n],
           ~mixed /\ r > 0 => owner'[r] = task[t].user,
           lost' \subseteq Users
    PROVE  Basic'
<1>1. TypeOK /\ Own /\ Questions /\ task[t].at # "idle"
  BY DEF Basic, Waiting
<1>2. /\ task' \in [Tasks -> TaskRecords'] /\ \A s \in Tasks : s # t => task'[s] = task[s]
      /\ task'[t].at = task[t].at /\ task'[t].user = task[t].user
      /\ task'[t].access = task[t].access /\ task'[t].refresh = task[t].refresh
      /\ task'[t].reply = r
  BY <1>1, RepliedTask
<1>3. \A s \in Tasks : task'[s].at = "idle" => task'[s] = Idle
  BY <1>1, <1>2 DEF TypeOK
<1>4. row' \in [Users -> RowRecords'] /\ file' \in [user : Users, session : Sessions' \cup {0}]
  BY <1>1 DEF TypeOK, RowRecords
<1>5. TypeOK'
  BY <1>1, <1>2, <1>3, <1>4 DEF TypeOK, RowRecords, TaskRecords, Replies, Idle
<1>6. ~mixed' => FileOwn'
  BY <1>1 DEF TypeOK, Own, FileOwn
<1>7. /\ task[t].access \in Sessions \cup {0} /\ task[t].refresh \in Sessions \cup {0}
  BY <1>1 DEF TypeOK
<1>8. ~mixed' => TaskOwn(task[t])'
  BY <1>1, <1>2, <1>7 DEF TaskOwn, Own
<1>9. Asks(task[t])'
  BY <1>1, <1>2 DEF Asks, Questions
<1> QED BY <1>1, <1>2, <1>5, <1>6, <1>8, <1>9, BasicStep DEF Own

\* What is presented is a session of the user, if it is accepted.
LEMMA PresentedOwn ==
    ASSUME Basic, NEW t \in Tasks, Waiting(t), Presented(t) \in valid
    PROVE  /\ Presented(t) \in Sessions /\ Presented(t) # 0
           /\ ~mixed => owner[Presented(t)] = task[t].user
           /\ owner[Presented(t)] \in Users
<1>1. Presented(t) \in Sessions
  BY DEF Basic, TypeOK
<1>2. Presented(t) # 0 /\ owner[Presented(t)] \in Users
  BY <1>1, SessionNumbers DEF Basic
<1> QED BY <1>1, <1>2 DEF Presented, Basic, Own, TaskOwn, Waiting

\* The answers of the service.
LEMMA ServeBasic == ASSUME Basic, NEW t \in Tasks, Serve(t) PROVE Basic'
<1>1. /\ TypeOK /\ task[t].user \in Users /\ lost \subseteq Users
      /\ owner \in Seq(Users) /\ Len(owner) <= MaxSessions /\ valid \subseteq Sessions
  BY DEF Basic, TypeOK
<1>2. Waiting(t)
  BY DEF Serve, ServeGrant, ServeRotate, ServeLogin, ServeReject, ServeFail
<1>3. ~(Failure > 0) /\ ~(Rejected > 0)
  BY DEF Failure, Rejected
<1>4. CASE ServeGrant(t)
  <2>1. /\ owner' = owner /\ rotates' = rotates /\ valid' = valid /\ lost' = lost /\ Sessions' = Sessions
        /\ UNCHANGED <<channel, begun, row, file, cached, moves, touched, mixed>>
    BY <1>4 DEF ServeGrant, service, past, Sessions
  <2>2. Presented(t) \in Replies' /\ Reply(t, Presented(t)) /\ (~mixed => owner'[Presented(t)] = task[t].user)
    BY <1>2, <1>4, <2>1, PresentedOwn DEF ServeGrant, Replies
  <2> QED BY <1>1, <1>2, <2>1, <2>2, ReplyBasic
<1>5. CASE ServeReject(t) \/ ServeFail(t)
  <2>1. /\ owner' = owner /\ rotates' = rotates /\ valid' = valid /\ lost' = lost /\ Sessions' = Sessions
        /\ UNCHANGED <<channel, begun, row, file, cached, moves, touched, mixed>>
    BY <1>5 DEF ServeReject, ServeFail, service, past, Sessions
  <2>2. PICK r \in {Rejected, Failure} : Reply(t, r)
    BY <1>5 DEF ServeReject, ServeFail
  <2>3. r \in Replies' /\ ~(r > 0)
    BY <1>3, <2>2 DEF Replies
  <2> QED BY <1>1, <1>2, <2>1, <2>2, <2>3, ReplyBasic
<1>6. CASE ServeRotate(t)
  <2>1. PICK u \in Users : u = owner[Presented(t)] /\ (~mixed => u = task[t].user)
    BY <1>2, <1>6, PresentedOwn DEF ServeRotate
  <2>2. Issue(u, {Presented(t)})
    BY <1>6, <2>1 DEF ServeRotate
  <2>3. /\ owner' \in Seq(Users) /\ Len(owner') <= MaxSessions /\ Len(owner') \in Sessions'
        /\ Sessions \subseteq Sessions' /\ \A n \in Sessions : owner'[n] = owner[n]
        /\ owner'[Len(owner')] = u /\ valid' \subseteq Sessions' /\ rotates' = rotates
    BY <1>1, <2>2, Issued
  <2>4. PICK r \in {Len(owner'), Failure} : Reply(t, r)
    BY <1>6 DEF ServeRotate
  <2>5. r \in Replies' /\ (~mixed /\ r > 0 => owner'[r] = task[t].user)
    BY <1>3, <2>1, <2>3, <2>4 DEF Replies
  <2>6. lost' \subseteq Users /\ UNCHANGED <<channel, begun, row, file, cached, moves, touched, mixed>>
    BY <1>1, <1>6, <2>1 DEF ServeRotate
  <2> QED BY <1>1, <1>2, <2>3, <2>4, <2>5, <2>6, ReplyBasic
<1>7. CASE ServeLogin(t)
  <2>1. PICK revoked : Issue(task[t].user, revoked)
    BY <1>7 DEF ServeLogin
  <2>2. /\ owner' \in Seq(Users) /\ Len(owner') <= MaxSessions /\ Len(owner') \in Sessions'
        /\ Sessions \subseteq Sessions' /\ \A n \in Sessions : owner'[n] = owner[n]
        /\ owner'[Len(owner')] = task[t].user /\ valid' \subseteq Sessions' /\ rotates' = rotates
    BY <1>1, <2>1, Issued
  <2>3. Len(owner') \in Replies' /\ Reply(t, Len(owner'))
    BY <1>7, <2>2 DEF ServeLogin, Replies
  <2>4. lost' = lost /\ UNCHANGED <<channel, begun, row, file, cached, moves, touched, mixed>>
    BY <1>7 DEF ServeLogin, past
  <2> QED BY <1>1, <1>2, <2>2, <2>3, <2>4, ReplyBasic
<1> QED BY <1>4, <1>5, <1>6, <1>7 DEF Serve

\* A renewal goes on with another question, or is over.
LEMMA ReceiveStep ==
    ASSUME Basic, NEW t \in Tasks, NEW k \in TaskRecords, task' = [task EXCEPT ![t] = k],
           k.at = "idle" => k = Idle, ~mixed => TaskOwn(k), Asks(k),
           UNCHANGED <<channel, begun, service, moves, touched>>,
           row' \in [Users -> RowRecords], file' \in [user : Users, session : Sessions \cup {0}],
           cached' \subseteq Users, lost' \subseteq Users, mixed' \in BOOLEAN,
           mixed' => channel \in {"qoder", "qwenwork"},
           ~mixed' => ~mixed /\ FileOwn',
           \A u \in Users :
               \/ row'[u].access = row[u].access /\ row'[u].refresh = row[u].refresh
               \/ /\ ~mixed' => RowOwn(u)'
                  /\ channel \in Exchangers => row'[u].refresh # 0
    PROVE  Basic'
<1>1. /\ TypeOK /\ task \in [Tasks -> TaskRecords]
      /\ owner' = owner /\ rotates' = rotates /\ valid' = valid /\ Sessions' = Sessions
  BY DEF Basic, TypeOK, service, Sessions, TaskRecords, Replies
<1>2. task' \in [Tasks -> TaskRecords] /\ task'[t] = k /\ \A s \in Tasks : s # t => task'[s] = task[s]
  BY <1>1
<1>3. \A s \in Tasks : task'[s].at = "idle" => task'[s] = Idle
  BY <1>1, <1>2 DEF TypeOK
<1>4. TypeOK'
  BY <1>1, <1>2, <1>3 DEF TypeOK, RowRecords, TaskRecords, Replies, Idle
<1>5. (~mixed' => TaskOwn(task[t])') /\ Asks(task[t])'
  BY <1>1, <1>2 DEF TaskOwn, Asks
<1> QED BY <1>1, <1>2, <1>4, <1>5, BasicStep

\* What a session that arrived is.
LEMMA GotOwn ==
    ASSUME Basic, NEW t \in Tasks, task[t].at # "idle", task[t].reply > 0
    PROVE  /\ task[t].user \in Users /\ task[t].reply \in Sessions /\ task[t].reply # 0
           /\ ~mixed => owner[task[t].reply] = task[t].user
<1>1. task[t].user \in Users /\ task[t].reply \in Replies
  BY DEF Basic, TypeOK, Replies
<1>2. task[t].reply \in Sessions /\ task[t].reply # 0
  BY <1>1, SessionNumbers DEF Basic
<1> QED BY <1>1, <1>2 DEF Basic, Own, TaskOwn

\* The row that stores it.
LEMMA StoredRow ==
    ASSUME Basic, NEW t \in Tasks, task[t].at # "idle", task[t].reply > 0,
           row' = Stored(t), owner' = owner
    PROVE  \E u \in Users :
               /\ u = task[t].user
               /\ row' \in [Users -> RowRecords]
               /\ row'[u].access = task[t].reply
               /\ row'[u].refresh = task[t].reply /\ task[t].reply # 0
               /\ ~mixed => RowOwn(u)'
               /\ \A v \in Users : v # u => row'[v] = row[v]
<1>1. PICK u \in Users : u = task[t].user
  BY GotOwn
<1>2. /\ task[t].reply \in Sessions /\ task[t].reply # 0
      /\ ~mixed => owner[task[t].reply] = u
  BY <1>1, GotOwn
<1>3. row \in [Users -> RowRecords]
  BY DEF Basic, TypeOK, RowRecords
<1>4. /\ row' \in [Users -> RowRecords] /\ row'[u].access = task[t].reply
      /\ row'[u].refresh = task[t].reply
      /\ \A v \in Users : v # u => row'[v] = row[v]
  BY <1>1, <1>2, <1>3, AdoptedRow DEF Stored
<1>5. ~mixed => RowOwn(u)'
  BY <1>2, <1>4 DEF RowOwn
<1> QED BY <1>1, <1>2, <1>4, <1>5

\* The file after a session was written into it, or was not.
LEMMA WrittenFile ==
    ASSUME Basic, NEW u \in Users, NEW n \in Sessions, owner[n] = u \/ channel # "traework",
           file' = Written(u, n), owner' = owner, channel \in Exchangers,
           mixed' = (mixed \/ Mixed(file'))
    PROVE  /\ file' \in [user : Users, session : Sessions \cup {0}] /\ file'.user = file.user
           /\ mixed' \in BOOLEAN /\ (mixed' => channel \in {"qoder", "qwenwork"})
           /\ ~mixed' => ~mixed /\ FileOwn'
<1>1. file \in [user : Users, session : Sessions \cup {0}] /\ mixed \in BOOLEAN
  BY DEF Basic, TypeOK
<1>2. file' \in [user : Users, session : Sessions \cup {0}] /\ file'.user = file.user
  BY <1>1 DEF Written
<1>3. ASSUME channel = "traework" PROVE ~Mixed(file') /\ ~mixed
  <2>1. ~mixed /\ FileOwn
    BY <1>3 DEF Basic, Own
  <2>2. file' = file \/ (file.user = u /\ file'.session = n)
    BY <1>1, <1>3 DEF Written, WritesBack
  <2> QED BY <1>2, <1>3, <2>1, <2>2 DEF Mixed, FileOwn
<1>4. mixed' \in BOOLEAN /\ (mixed' => channel \in {"qoder", "qwenwork"})
  BY <1>1, <1>3 DEF Basic, Own, Exchangers, Mixed
<1>5. ~mixed' => ~mixed /\ FileOwn'
  BY <1>1 DEF Mixed, FileOwn
<1> QED BY <1>2, <1>4, <1>5

\* A renewal that is over.
LEMMA DoneStep ==
    ASSUME Basic, NEW t \in Tasks, Done(t),
           UNCHANGED <<channel, begun, service, moves, touched>>,
           row' \in [Users -> RowRecords], file' \in [user : Users, session : Sessions \cup {0}],
           cached' \subseteq Users, lost' \subseteq Users, mixed' \in BOOLEAN,
           mixed' => channel \in {"qoder", "qwenwork"},
           ~mixed' => ~mixed /\ FileOwn',
           \A u \in Users :
               \/ row'[u].access = row[u].access /\ row'[u].refresh = row[u].refresh
               \/ /\ ~mixed' => RowOwn(u)'
                  /\ channel \in Exchangers => row'[u].refresh # 0
    PROVE  Basic'
<1>1. TaskOwn(Idle) /\ Asks(Idle) /\ Idle \in TaskRecords
  BY IdleTask DEF TaskOwn, Asks
<1>2. task' = [task EXCEPT ![t] = Idle]
  BY DEF Done
<1> QED BY <1>1, <1>2, ReceiveStep

\* What a renewal does with its answer.
LEMMA ReceiveBasic == ASSUME Basic, NEW t \in Tasks, Receive(t) PROVE Basic'
<1>1. /\ TypeOK /\ Own /\ Questions /\ row \in [Users -> RowRecords]
      /\ file \in [user : Users, session : Sessions \cup {0}]
      /\ cached \subseteq Users /\ lost \subseteq Users /\ mixed \in BOOLEAN
      /\ (mixed => channel \in {"qoder", "qwenwork"}) /\ (~mixed => FileOwn)
      /\ task[t] \in TaskRecords /\ task[t].user \in Users
  BY DEF Basic, TypeOK, RowRecords, Own, TaskRecords, Replies
<1>2. owner' = owner => (FileOwn <=> FileOwn') \/ file' # file
  BY DEF FileOwn
<1>3. CASE ReceiveRowFirst(t)
  <2>1. /\ task[t].at = "exchange" /\ task[t].reply > 0 /\ row' = Stored(t) /\ owner' = owner
        /\ file' = Written(task[t].user, task[t].reply) /\ channel \in Exchangers
        /\ mixed' = (mixed \/ Mixed(file')) /\ Done(t)
        /\ UNCHANGED <<channel, begun, service, cached, moves, lost, touched>>
    BY <1>3 DEF ReceiveRowFirst, Got, service, Exchangers
  <2>2. /\ task[t].reply \in Sessions /\ (~mixed => owner[task[t].reply] = task[t].user)
    BY <2>1, GotOwn
  <2>3. channel = "traework" => ~mixed
    BY <1>1
  <2>4. /\ file' \in [user : Users, session : Sessions \cup {0}]
        /\ mixed' \in BOOLEAN /\ (mixed' => channel \in {"qoder", "qwenwork"})
        /\ ~mixed' => ~mixed /\ FileOwn'
    BY <1>1, <2>1, <2>2, <2>3, WrittenFile
  <2>5. PICK v \in Users : /\ row' \in [Users -> RowRecords] /\ (~mixed => RowOwn(v)')
                          /\ row'[v].refresh # 0
                          /\ \A u \in Users : u # v => row'[u] = row[u]
    BY <2>1, StoredRow
  <2>6. \A u \in Users :
               \/ row'[u].access = row[u].access /\ row'[u].refresh = row[u].refresh
               \/ /\ ~mixed' => RowOwn(u)'
                  /\ channel \in Exchangers => row'[u].refresh # 0
    BY <2>4, <2>5
  <2> QED BY <1>1, <2>1, <2>4, <2>5, <2>6, DoneStep
<1>4. CASE ReceiveFileFirst(t)
  <2>1. /\ task[t].at = "exchange" /\ task[t].reply > 0 /\ owner' = owner
        /\ channel = "qoder" /\ channel \in Exchangers
        /\ mixed' = (mixed \/ Mixed(file')) /\ Done(t)
        /\ UNCHANGED <<channel, begun, service, cached, moves, touched>>
    BY <1>4 DEF ReceiveFileFirst, Got, service, Exchangers
  <2>2. /\ task[t].reply \in Sessions /\ owner[task[t].reply] \in Users
    BY <1>1, <2>1, GotOwn, SessionNumbers
  <2>3. /\ row' = row \/ row' = Stored(t)
        /\ file' = file \/ file' = Written(task[t].user, task[t].reply)
        /\ lost' \subseteq Users
    BY <1>1, <1>4, <2>2 DEF ReceiveFileFirst
  <2>4. /\ file' \in [user : Users, session : Sessions \cup {0}]
        /\ mixed' \in BOOLEAN /\ (mixed' => channel \in {"qoder", "qwenwork"})
        /\ ~mixed' => ~mixed /\ FileOwn'
    <3>1. CASE file' = Written(task[t].user, task[t].reply)
      BY <1>1, <2>1, <2>2, <3>1, WrittenFile
    <3>2. CASE file' = file
      BY <1>1, <2>1, <3>2 DEF Mixed, FileOwn
    <3> QED BY <2>3, <3>1, <3>2
  <2>5. /\ row' \in [Users -> RowRecords]
        /\ \A u \in Users :
               \/ row'[u].access = row[u].access /\ row'[u].refresh = row[u].refresh
               \/ /\ ~mixed' => RowOwn(u)'
                  /\ channel \in Exchangers => row'[u].refresh # 0
    <3>1. CASE row' = row
      BY <1>1, <3>1
    <3>2. CASE row' = Stored(t)
      <4>1. PICK v \in Users : /\ row' \in [Users -> RowRecords] /\ (~mixed => RowOwn(v)')
                              /\ row'[v].refresh # 0
                              /\ \A u \in Users : u # v => row'[u] = row[u]
        BY <2>1, <3>2, StoredRow
      <4> QED BY <2>4, <4>1
    <3> QED BY <2>3, <3>1, <3>2
  <2> QED BY <1>1, <2>1, <2>3, <2>4, <2>5, DoneStep
<1>5. CASE ReceiveRowOnly(t)
  <2>1. /\ task[t].at # "idle" /\ task[t].reply > 0 /\ owner' = owner /\ row' = Stored(t)
        /\ channel \notin Exchangers /\ Done(t)
        /\ UNCHANGED <<channel, begun, service, file, cached, moves, past>>
    BY <1>5 DEF ReceiveRowOnly, Got, service, Exchangers
  <2>2. PICK v \in Users : /\ row' \in [Users -> RowRecords] /\ (~mixed => RowOwn(v)')
                          /\ \A u \in Users : u # v => row'[u] = row[u]
    BY <2>1, StoredRow
  <2>3. /\ lost' = lost /\ mixed' = mixed /\ touched' = touched /\ file' = file /\ cached' = cached
        /\ channel' = channel /\ begun' = begun /\ moves' = moves /\ service' = service
    BY <2>1 DEF past
  <2> QED BY <1>1, <1>2, <2>1, <2>2, <2>3, DoneStep
<1>6. CASE ReceiveReplaced(t)
  <2>1. PICK u \in Users : u = task[t].user
    BY <1>1
  <2>2. /\ file.session \in Sessions /\ file.session # 0 /\ file.user = u /\ owner' = owner
        /\ row' = Adopted(u, file.session, file.session) /\ task[t].reply = Rejected
        /\ UNCHANGED <<channel, begun, service, file, cached, moves, past>>
        /\ channel = "qwenwork"
    BY <1>1, <1>6, <2>1 DEF ReceiveReplaced, Replacement, service
  <2>3. /\ row' \in [Users -> RowRecords]
        /\ row'[u].access = file.session /\ row'[u].refresh = file.session
        /\ \A v \in Users : v # u => row'[v] = row[v]
    BY <1>1, <2>2, AdoptedRow
  <2>4. ~mixed => RowOwn(u)'
    BY <1>1, <2>2, <2>3 DEF RowOwn, FileOwn
  <2>5. PICK k : k = [task[t] EXCEPT !.access = file.session, !.refresh = file.session,
                                     !.again = TRUE, !.reply = Pending]
    OBVIOUS
  <2>6. /\ k \in TaskRecords /\ k.at = task[t].at /\ k.user = u /\ k.access = file.session
        /\ k.refresh = file.session /\ k.reply = Pending
    BY <1>1, <2>1, <2>2, <2>5 DEF TaskRecords, Replies
  <2>7. task' = [task EXCEPT ![t] = k]
    BY <1>1, <1>6, <2>5 DEF ReceiveReplaced, TaskRecords
  <2>8. task[t].at # "idle"
    BY <1>1, <2>2 DEF TypeOK, Idle, Pending, Rejected
  <2>9. (~mixed => TaskOwn(k)) /\ Asks(k)
    <3>1. ~(Pending > 0)
      BY DEF Pending
    <3> QED BY <1>1, <2>2, <2>6, <3>1 DEF TaskOwn, Asks, Questions, FileOwn
  <2>10. /\ lost' = lost /\ mixed' = mixed /\ touched' = touched /\ file' = file /\ cached' = cached
         /\ channel' = channel /\ begun' = begun /\ moves' = moves /\ service' = service
    BY <2>2 DEF past
  <2> QED BY <1>1, <1>2, <2>2, <2>3, <2>4, <2>6, <2>7, <2>8, <2>9, <2>10, ReceiveStep
<1>7. CASE ReceiveRefused(t)
  <2>1. /\ lost' = lost /\ mixed' = mixed /\ touched' = touched /\ file' = file /\ cached' = cached
        /\ channel' = channel /\ begun' = begun /\ moves' = moves /\ service' = service
        /\ row' = row /\ owner' = owner /\ Done(t)
    BY <1>7 DEF ReceiveRefused, past, service
  <2> QED BY <1>1, <1>2, <2>1, DoneStep
<1>8. CASE ReceiveLoomy(t)
  <2>1. /\ lost' = lost /\ mixed' = mixed /\ touched' = touched /\ file' = file /\ cached' = cached
        /\ channel' = channel /\ begun' = begun /\ moves' = moves /\ service' = service
        /\ row' = row /\ owner' = owner /\ channel = "loomy" /\ task[t].at # "idle"
    BY <1>8 DEF ReceiveLoomy, past, service
  <2>2. CASE Done(t)
    BY <1>1, <1>2, <2>1, <2>2, DoneStep
  <2>3. CASE task' = [task EXCEPT ![t].at = "login", ![t].reply = Pending]
    <3>1. PICK k : k = [task[t] EXCEPT !.at = "login", !.reply = Pending]
      OBVIOUS
    <3>2. /\ k \in TaskRecords /\ k.at = "login" /\ k.user = task[t].user /\ k.reply = Pending
          /\ k.access = task[t].access /\ k.refresh = task[t].refresh
      BY <1>1, <3>1 DEF TaskRecords, Replies, Points
    <3>3. task' = [task EXCEPT ![t] = k]
      BY <1>1, <2>3, <3>1 DEF TaskRecords
    <3>4. (~mixed => TaskOwn(k)) /\ Asks(k)
      <4>1. ~(Pending > 0) /\ channel \notin Exchangers
        BY <2>1 DEF Pending, Exchangers
      <4> QED BY <1>1, <2>1, <3>2, <4>1 DEF TaskOwn, Asks, Own
    <3> QED BY <1>1, <1>2, <2>1, <3>2, <3>3, <3>4, ReceiveStep
  <2> QED BY <1>8, <2>2, <2>3 DEF ReceiveLoomy
<1>9. CASE ReceiveProbe(t) \/ ReceiveGivenUp(t)
  <2>1. /\ lost' = lost /\ mixed' = mixed /\ touched' = touched /\ file' = file
        /\ channel' = channel /\ begun' = begun /\ moves' = moves /\ service' = service
        /\ owner' = owner /\ channel = "xiaohuanxiong" /\ task[t].at # "idle"
        /\ channel \notin Exchangers
    BY <1>9 DEF ReceiveProbe, ReceiveGivenUp, Refused, past, service, Exchangers
  <2>2. \/ Done(t) /\ row' = row /\ cached' = cached
        \/ Done(t) /\ row' = [row EXCEPT ![task[t].user].status = "expired"] /\ cached' = cached
        \/ Done(t) /\ Resync(task[t].user, task[t].access, "expired")
        \/ /\ task' = [task EXCEPT ![t].at = "exchange", ![t].reply = Pending]
           /\ row' = row /\ cached' = cached
    BY <1>9 DEF ReceiveProbe, ReceiveGivenUp
  <2>3. CASE Done(t) /\ row' = row /\ cached' = cached
    BY <1>1, <1>2, <2>1, <2>3, DoneStep
  <2>4. CASE Done(t) /\ row' = [row EXCEPT ![task[t].user].status = "expired"] /\ cached' = cached
    <3>1. /\ row' \in [Users -> RowRecords]
          /\ \A u \in Users : row'[u].access = row[u].access /\ row'[u].refresh = row[u].refresh
      BY <1>1, <2>4, MarkedRow DEF Statuses
    <3> QED BY <1>1, <1>2, <2>1, <2>4, <3>1, DoneStep
  <2>5. CASE Done(t) /\ Resync(task[t].user, task[t].access, "expired")
    <3>1. /\ row' \in [Users -> RowRecords] /\ cached' \subseteq Users
          /\ ~mixed => \A v \in Users : RowOwn(v)'
      BY <1>1, <2>1, <2>5, ResyncRow
    <3> QED BY <1>1, <1>2, <2>1, <2>5, <3>1, DoneStep
  <2>6. CASE /\ task' = [task EXCEPT ![t].at = "exchange", ![t].reply = Pending]
             /\ row' = row /\ cached' = cached
    <3>1. PICK k : k = [task[t] EXCEPT !.at = "exchange", !.reply = Pending]
      OBVIOUS
    <3>2. /\ k \in TaskRecords /\ k.at = "exchange" /\ k.user = task[t].user /\ k.reply = Pending
          /\ k.access = task[t].access /\ k.refresh = task[t].refresh
      BY <1>1, <3>1 DEF TaskRecords, Replies, Points
    <3>3. task' = [task EXCEPT ![t] = k]
      BY <1>1, <2>6, <3>1 DEF TaskRecords
    <3>4. (~mixed => TaskOwn(k)) /\ Asks(k)
      <4>1. ~(Pending > 0)
        BY DEF Pending
      <4> QED BY <1>1, <2>1, <3>2, <4>1 DEF TaskOwn, Asks, Own
    <3> QED BY <1>1, <1>2, <2>1, <2>6, <3>2, <3>3, <3>4, ReceiveStep
  <2> QED BY <2>2, <2>3, <2>4, <2>5, <2>6
<1> QED BY <1>3, <1>4, <1>5, <1>6, <1>7, <1>8, <1>9 DEF Receive

\* A process that dies between the two writes has written one of them.
LEMMA CrashBasic == ASSUME Basic, NEW t \in Tasks, CrashBetween(t) PROVE Basic'
<1>1. /\ TypeOK /\ Own /\ Questions /\ row \in [Users -> RowRecords]
      /\ file \in [user : Users, session : Sessions \cup {0}] /\ mixed \in BOOLEAN
      /\ (mixed => channel \in {"qoder", "qwenwork"}) /\ (~mixed => FileOwn)
  BY DEF Basic, TypeOK, RowRecords, Own
<1>2. /\ task[t].at = "exchange" /\ task[t].reply > 0 /\ owner[task[t].reply] = task[t].user
      /\ channel \in Exchangers /\ lost' = Users /\ mixed' = (mixed \/ Mixed(file'))
      /\ row' = row \/ row' = Stored(t)
      /\ file' = file \/ file' = Written(task[t].user, task[t].reply)
      /\ task' = [s \in Tasks |-> Idle]
      /\ UNCHANGED <<channel, begun, service, cached, moves, touched>>
      /\ owner' = owner /\ rotates' = rotates /\ valid' = valid /\ Sessions' = Sessions
  BY DEF CrashBetween, Got, Exchangers, service, Sessions
<1>3. task[t].reply \in Sessions /\ task[t].user \in Users
  BY <1>2, GotOwn
<1>4. /\ file' \in [user : Users, session : Sessions \cup {0}]
      /\ mixed' \in BOOLEAN /\ (mixed' => channel \in {"qoder", "qwenwork"})
      /\ ~mixed' => ~mixed /\ FileOwn'
  <2>1. CASE file' = Written(task[t].user, task[t].reply)
    BY <1>2, <1>3, <2>1, WrittenFile
  <2>2. CASE file' = file
    BY <1>1, <1>2, <2>2 DEF Mixed, FileOwn
  <2> QED BY <1>2, <2>1, <2>2
<1>5. /\ row' \in [Users -> RowRecords]
      /\ \A u \in Users :
               \/ row'[u].access = row[u].access /\ row'[u].refresh = row[u].refresh
               \/ /\ ~mixed' => RowOwn(u)'
                  /\ channel \in Exchangers => row'[u].refresh # 0
  <2>1. CASE row' = row
    BY <1>1, <2>1
  <2>2. CASE row' = Stored(t)
    <3>1. PICK v \in Users : /\ row' \in [Users -> RowRecords] /\ (~mixed => RowOwn(v)')
                            /\ row'[v].refresh # 0
                            /\ \A u \in Users : u # v => row'[u] = row[u]
      BY <1>2, <2>2, StoredRow
    <3> QED BY <1>4, <3>1
  <2> QED BY <1>2, <2>1, <2>2
<1>6. TypeOK'
  BY <1>1, <1>2, <1>4, <1>5, IdleTask
     DEF TypeOK, RowRecords, TaskRecords, Replies, Idle
<1>7. \A s \in Tasks : (~mixed' => TaskOwn(task[s])') /\ Asks(task[s])'
  BY <1>2, IdleTask DEF TaskOwn, Asks, Idle
<1> QED BY <1>1, <1>2, <1>4, <1>5, <1>6, <1>7, BasicStep

\* The moves stay within their bound.
LEMMA Moves == TypeOK /\ Move => moves' \in 0..MaxMoves
<1> SUFFICES ASSUME TypeOK, Move PROVE moves' \in 0..MaxMoves
  OBVIOUS
<1>1. moves \in Nat /\ moves < MaxMoves /\ moves' = moves + 1 /\ MaxMoves \in Nat
  BY LoginAssumption DEF TypeOK, Move
<1> QED BY <1>1

\* The desktop client, the administrator, time and restarts.
LEMMA SurroundingsBasic == ASSUME Basic, Surroundings PROVE Basic'
<1>1. /\ TypeOK /\ Own /\ Questions /\ row \in [Users -> RowRecords]
      /\ file \in [user : Users, session : Sessions \cup {0}] /\ mixed \in BOOLEAN
      /\ (mixed => channel \in {"qoder", "qwenwork"}) /\ (~mixed => FileOwn)
      /\ cached \subseteq Users /\ lost \subseteq Users /\ touched \subseteq Users
      /\ task \in [Tasks -> TaskRecords] /\ valid \subseteq Sessions
      /\ \A s \in Tasks : task[s].at = "idle" => task[s] = Idle
  BY DEF Basic, TypeOK, RowRecords, Own, TaskRecords, Replies
<1>2. moves' \in 0..MaxMoves
  BY <1>1, Moves DEF Surroundings, ClientLogin, TimePasses, ClientRotates, ClientLogout,
                     Import, Restart
<1>3. ASSUME NEW u \in Users, NEW revoked, Issue(u, revoked),
             file'.session = Len(owner'), file' \in [user : Users, session : {Len(owner')}],
             ~mixed => file'.user = u, touched' \subseteq Users,
             UNCHANGED <<channel, begun, row, cached, task, lost, mixed>>
      PROVE  Basic'
  <2>1. /\ owner' \in Seq(Users) /\ Len(owner') <= MaxSessions /\ Len(owner') \in Sessions'
        /\ Sessions \subseteq Sessions' /\ \A n \in Sessions : owner'[n] = owner[n]
        /\ owner'[Len(owner')] = u /\ valid' \subseteq Sessions' /\ rotates' = rotates
    BY <1>1, <1>3, Issued
  <2>2. /\ row' \in [Users -> RowRecords'] /\ task' \in [Tasks -> TaskRecords']
        /\ file' \in [user : Users, session : Sessions' \cup {0}]
    BY <1>1, <1>3, <2>1 DEF RowRecords, TaskRecords, Replies
  <2>3. TypeOK'
    BY <1>1, <1>2, <1>3, <2>1, <2>2 DEF TypeOK, RowRecords, TaskRecords, Replies, Idle
  <2>4. ~mixed' => FileOwn'
    BY <1>3, <2>1 DEF FileOwn
  <2> QED BY <1>1, <1>3, <2>1, <2>3, <2>4, BasicStep
<1>4. ASSUME NEW u \in Users, ClientLogin(u) PROVE Basic'
  <2>1. PICK revoked \in {{}, {n \in valid : owner[n] = u}, valid} :
            Issue(u, revoked) /\ touched' = touched \cup {u} \cup {owner[n] : n \in revoked}
    BY <1>4 DEF ClientLogin
  <2>2. touched' \subseteq Users
    <3>1. \A n \in revoked : owner[n] \in Users
      BY <1>1, <2>1, SessionNumbers
    <3> QED BY <1>1, <2>1, <3>1
  <2>3. file' = [user |-> u, session |-> Len(owner')]
        /\ UNCHANGED <<channel, begun, row, cached, task, lost, mixed>>
    BY <1>4 DEF ClientLogin
  <2> QED BY <1>3, <2>1, <2>2, <2>3
<1>5. CASE ClientRotates
  <2>1. PICK u \in Users : u = owner[file.session]
    BY <1>1, <1>5, SessionNumbers DEF ClientRotates
  <2>2. /\ Issue(u, {file.session}) /\ touched' = touched \cup {u}
        /\ file' = [file EXCEPT !.session = Len(owner')] /\ file.session # 0
        /\ UNCHANGED <<channel, begun, row, cached, task, lost, mixed>>
    BY <1>1, <1>5, <2>1, SessionNumbers DEF ClientRotates
  <2>3. /\ file'.session = Len(owner') /\ file'.user = file.user
        /\ file' \in [user : Users, session : {Len(owner')}]
    BY <1>1, <2>2
  <2>4. ~mixed => file'.user = u
    BY <1>1, <2>1, <2>2, <2>3 DEF FileOwn
  <2> QED BY <1>1, <1>3, <2>2, <2>3, <2>4
<1>6. CASE ClientLogout
  <2>1. /\ file' = NoFile /\ UNCHANGED <<channel, begun, service, row, cached, task, past>>
        /\ owner' = owner /\ rotates' = rotates /\ valid' = valid /\ Sessions' = Sessions
        /\ lost' = lost /\ touched' = touched /\ mixed' = mixed
    BY <1>6 DEF ClientLogout, service, past, Sessions
  <2>2. file' \in [user : Users, session : Sessions \cup {0}] /\ file'.session = 0
    BY <2>1, LoginAssumption DEF NoFile
  <2>3. TypeOK'
    BY <1>1, <1>2, <2>1, <2>2 DEF TypeOK
  <2> QED BY <1>1, <2>1, <2>2, <2>3, BasicStep DEF FileOwn
<1>7. CASE Import
  <2>1. PICK u \in Users : u = file.user
    BY <1>1
  <2>2. PICK r : r = IF FileRefresh # 0 THEN FileRefresh ELSE row[u].refresh
    OBVIOUS
  <2>3. /\ file.session \in Sessions /\ file.session # 0
        /\ row' = Adopted(u, file.session, r) /\ touched' = touched \cup {u}
        /\ UNCHANGED <<channel, begun, service, file, cached, task, lost, mixed>>
        /\ owner' = owner /\ rotates' = rotates /\ valid' = valid /\ Sessions' = Sessions
    BY <1>1, <1>7, <2>1, <2>2 DEF Import, service, Sessions
  <2>4. r \in {file.session, row[u].refresh} /\ r \in Sessions \cup {0}
        /\ (channel \in Exchangers => r # 0)
    <3>1. r \in {file.session, row[u].refresh} /\ (channel \in Exchangers => r # 0)
      BY <1>1, <2>2, <2>3 DEF FileRefresh, Questions, Exchangers
    <3> QED BY <1>1, <2>3, <3>1 DEF RowRecords
  <2>5. /\ row' \in [Users -> RowRecords] /\ row'[u].access = file.session /\ row'[u].refresh = r
        /\ \A v \in Users : v # u => row'[v] = row[v]
    BY <1>1, <2>3, <2>4, AdoptedRow
  <2>6. ~mixed' => RowOwn(u)'
    BY <1>1, <2>1, <2>3, <2>4, <2>5 DEF RowOwn, FileOwn, Own
  <2>7. TypeOK'
    BY <1>1, <1>2, <2>3, <2>5 DEF TypeOK, RowRecords
  <2> QED BY <1>1, <2>3, <2>4, <2>5, <2>6, <2>7, BasicStep DEF FileOwn
<1>8. ASSUME NEW u \in Users, TimePasses(u) PROVE Basic'
  <2>1. /\ UNCHANGED <<channel, begun, service, file, task, past>> /\ cached' \subseteq Users
        /\ row' = row \/ row' = [row EXCEPT ![u].lapsed = TRUE]
        /\ owner' = owner /\ rotates' = rotates /\ valid' = valid /\ Sessions' = Sessions
        /\ lost' = lost /\ touched' = touched /\ mixed' = mixed
    BY <1>1, <1>8 DEF TimePasses, service, past, Sessions
  <2>2. /\ row' \in [Users -> RowRecords]
        /\ \A v \in Users : row'[v].access = row[v].access /\ row'[v].refresh = row[v].refresh
    <3>1. PICK n : n = [row[u] EXCEPT !.lapsed = TRUE]
      OBVIOUS
    <3>2. n \in RowRecords /\ n.access = row[u].access /\ n.refresh = row[u].refresh
      BY <1>1, <3>1 DEF RowRecords
    <3>3. row' = row \/ row' = [row EXCEPT ![u] = n]
      BY <1>1, <2>1, <3>1
    <3> QED BY <1>1, <3>2, <3>3
  <2>3. TypeOK'
    BY <1>1, <1>2, <2>1, <2>2 DEF TypeOK, RowRecords
  <2> QED BY <1>1, <2>1, <2>2, <2>3, BasicStep DEF FileOwn
<1>9. CASE Restart
  <2>1. /\ task' = [s \in Tasks |-> Idle] /\ cached' = {}
        /\ lost' = lost \cup {task[s].user : s \in {q \in Tasks : task[q] # Idle}}
        /\ UNCHANGED <<channel, begun, service, row, file, touched, mixed>>
        /\ owner' = owner /\ rotates' = rotates /\ valid' = valid /\ Sessions' = Sessions
    BY <1>9 DEF Restart, service, Sessions
  <2>2. lost' \subseteq Users
    BY <1>1, <2>1 DEF TaskRecords
  <2>3. TypeOK'
    BY <1>1, <1>2, <2>1, <2>2, IdleTask DEF TypeOK, RowRecords, TaskRecords, Replies, Idle
  <2>4. \A s \in Tasks : (~mixed' => TaskOwn(task[s])') /\ Asks(task[s])'
    BY <2>1, IdleTask DEF TaskOwn, Asks, Idle
  <2> QED BY <1>1, <2>1, <2>3, <2>4, BasicStep DEF FileOwn
<1> QED BY <1>4, <1>5, <1>6, <1>7, <1>8, <1>9 DEF Surroundings

\* Every step.
LEMMA BasicNext == Basic /\ [Next]_vars => Basic'
<1> SUFFICES ASSUME Basic, [Next]_vars PROVE Basic'
  OBVIOUS
<1>1. CASE UNCHANGED vars
  BY <1>1 DEF vars, service, past, Basic, TypeOK, Own, Questions, FileOwn, RowOwn, TaskOwn,
              Asks, Sessions
<1>2. CASE Next
  BY <1>2, BeginBasic, ServeBasic, ReceiveBasic, CrashBasic, SurroundingsBasic DEF Next
<1> QED BY <1>1, <1>2

----------------------------------------------------------------------------
(* Live sessions, where they are exchanged                                 *)

\* A channel that exchanges sessions, while the file was never mixed.
Exchanging == IInv /\ channel \in Exchangers /\ ~mixed

\* Whose the sessions in a row, a renewal and the file are there.
LEMMA Holders ==
    ASSUME Exchanging
    PROVE  /\ \A u \in Users : row[u].refresh \in Sessions /\ owner[row[u].refresh] = u
           /\ \A t \in Tasks : task[t].at # "idle" =>
                 /\ task[t].at = "exchange" /\ task[t].user \in Users
                 /\ task[t].refresh \in Sessions /\ owner[task[t].refresh] = task[t].user
                 /\ Presented(t) = task[t].refresh
                 /\ task[t].reply > 0 =>
                       task[t].reply \in Sessions /\ owner[task[t].reply] = task[t].user
           /\ file.session # 0 => file.session \in Sessions /\ owner[file.session] = file.user
           /\ \A u \in Users \ (lost \cup touched) : Live(u)
           /\ \A u \in Users \ lost : FileFollows(u)
<1>1. TypeOK /\ Own /\ Questions /\ Basic /\ ~mixed /\ channel \in Exchangers
  BY DEF Exchanging, IInv, Basic
<1>2. \A u \in Users : row[u].refresh \in Sessions /\ owner[row[u].refresh] = u
  BY <1>1 DEF TypeOK, Own, Questions, RowOwn
<1>3. ASSUME NEW t \in Tasks, task[t].at # "idle"
      PROVE  /\ task[t].at = "exchange" /\ task[t].user \in Users
             /\ task[t].refresh \in Sessions /\ owner[task[t].refresh] = task[t].user
             /\ Presented(t) = task[t].refresh
             /\ task[t].reply > 0 =>
                   task[t].reply \in Sessions /\ owner[task[t].reply] = task[t].user
  <2>1. task[t].at = "exchange" /\ task[t].refresh # 0
    BY <1>1, <1>3 DEF Questions, Asks
  <2>2. task[t].user \in Users /\ task[t].refresh \in Sessions \cup {0}
    BY <1>1 DEF TypeOK
  <2>3. owner[task[t].refresh] = task[t].user
    BY <1>1, <1>3, <2>1 DEF Own, TaskOwn
  <2>4. task[t].reply > 0 =>
                   task[t].reply \in Sessions /\ owner[task[t].reply] = task[t].user
    BY <1>1, <1>3, GotOwn
  <2> QED BY <2>1, <2>2, <2>3, <2>4 DEF Presented
<1>4. file.session # 0 => file.session \in Sessions /\ owner[file.session] = file.user
  BY <1>1 DEF TypeOK, Own, FileOwn
<1>5. /\ \A u \in Users \ (lost \cup touched) : Live(u)
      /\ \A u \in Users \ lost : FileFollows(u)
  BY <1>1 DEF Exchanging, IInv, Untouched, Followed
<1> QED BY <1>2, <1>3, <1>4, <1>5

\* A step in which the renewals that have a session for u, what its row and the
\* service hold of it and, but for a session of the row, the file stay.
Undisturbed(u) ==
    /\ rotates' = rotates /\ row'[u].refresh = row[u].refresh
    /\ \A n \in Sessions : owner'[n] = owner[n] /\ (owner[n] = u => (n \in valid' <=> n \in valid))
    /\ \A n \in valid' : n \notin Sessions => owner'[n] # u
    /\ \A t \in Tasks : Holds(task[t], u) <=> Holds(task'[t], u)
    /\ \A t \in Tasks : Holds(task[t], u) => task'[t].reply = task[t].reply
    /\ \A t \in Tasks : task'[t].at # "idle" /\ task'[t].user = u =>
          \/ task'[t].refresh = row[u].refresh
          \/ task[t].at # "idle" /\ task[t].user = u /\ task'[t].refresh = task[t].refresh
    /\ file'.user = u /\ file'.session # 0 =>
          \/ file' = file
          \/ file'.session = row[u].refresh

\* It leaves the login of u live.
LEMMA UndisturbedLive ==
    ASSUME Exchanging, NEW u \in Users, Undisturbed(u), Live(u), valid' \subseteq Sessions'
    PROVE  Live(u)'
<1>1. PICK r \in Sessions : r = row[u].refresh /\ owner[r] = u /\ row'[u].refresh = r
  BY Holders DEF Undisturbed
<1>2. \A t \in Tasks : Holds(task[t], u) =>
          task[t].reply \in Sessions /\ owner[task[t].reply] = u
  BY Holders DEF Holds
<1>3. OneLive(u)'
  <2>1. SUFFICES ASSUME NEW m \in valid', NEW n \in valid', owner'[m] = u, owner'[n] = u
                 PROVE  m = n
    BY DEF OneLive
  <2>2. m \in Sessions /\ n \in Sessions
    BY <2>1 DEF Undisturbed
  <2>3. m \in valid /\ n \in valid /\ owner[m] = u /\ owner[n] = u
    BY <2>1, <2>2 DEF Undisturbed
  <2> QED BY <2>3 DEF Live, OneLive
<1>4. AnswersLive(u)' /\ Kept(u)'
  BY <1>1, <1>2 DEF Live, AnswersLive, Kept, Undisturbed
<1>5. FileIsRow(u)'
  BY <1>1 DEF Live, FileIsRow, Undisturbed
<1>6. AnswerUnseen(u)'
  <2>1. SUFFICES ASSUME rotates, NEW t \in Tasks, Holds(task'[t], u)
                 PROVE  /\ r # task'[t].reply
                        /\ \A s \in Tasks : /\ task'[s].at # "idle" /\ task'[s].user = u
                                               => task'[s].refresh # task'[t].reply
                                            /\ Holds(task'[s], u) => s = t
    BY <1>1 DEF AnswerUnseen, Undisturbed
  <2>2. Holds(task[t], u) /\ task'[t].reply = task[t].reply
    BY <2>1 DEF Undisturbed
  <2>3. /\ r # task[t].reply
        /\ \A s \in Tasks : /\ task[s].at # "idle" /\ task[s].user = u
                               => task[s].refresh # task[t].reply
                            /\ Holds(task[s], u) => s = t
    BY <1>1, <2>1, <2>2 DEF Live, AnswerUnseen
  <2> QED BY <1>1, <2>2, <2>3 DEF Undisturbed
<1> QED BY <1>3, <1>4, <1>5, <1>6 DEF Live

\* And the file in step with it.
LEMMA UndisturbedFile ==
    ASSUME Exchanging, NEW u \in Users, Undisturbed(u), FileFollows(u)
    PROVE  FileFollows(u)'
<1>1. PICK r \in Sessions : r = row[u].refresh /\ owner[r] = u /\ row'[u].refresh = r
  BY Holders DEF Undisturbed
<1>2. r \in valid' <=> r \in valid
  BY <1>1 DEF Undisturbed
<1>3. SUFFICES ASSUME file'.user = u, file'.session # 0, r \in valid'
               PROVE  file'.session \in valid' \/ \E t \in Tasks : Holds(task'[t], u)
  BY <1>1 DEF FileFollows
<1>4. CASE file'.session = r
  BY <1>3, <1>4
<1>5. CASE file' = file
  <2>1. file.session \in Sessions /\ owner[file.session] = u
    BY <1>3, <1>5, Holders
  <2>2. file.session \in valid \/ \E t \in Tasks : Holds(task[t], u)
    BY <1>1, <1>2, <1>3, <1>5 DEF FileFollows
  <2> QED BY <1>5, <2>1, <2>2 DEF Undisturbed
<1> QED BY <1>1, <1>3, <1>4, <1>5 DEF Undisturbed

\* What a step owes each user.
Due(u) ==
    /\ u \notin lost' \cup touched' => Live(u)'
    /\ u \notin lost' => FileFollows(u)'

\* It is paid where the login is undisturbed.
LEMMA UndisturbedDue ==
    ASSUME Exchanging, NEW u \in Users, valid' \subseteq Sessions',
           lost \subseteq lost', touched \subseteq touched',
           u \in lost' \/ Undisturbed(u)
    PROVE  Due(u)
BY Holders, UndisturbedLive, UndisturbedFile DEF Due

\* Only an exchange begins there.
LEMMA BeginDue ==
    ASSUME Exchanging, NEW t \in Tasks, Begin(t), NEW u \in Users
    PROVE  Due(u)
<1>1. PICK v \in Users : BeginExchange(t, v)
  BY DEF Begin, BeginLoomy, BeginReady, ResyncInStream, BeginRefresh, Exchanging, Exchangers
<1>2. /\ row' = row /\ file' = file /\ rotates' = rotates /\ owner' = owner /\ valid' = valid
      /\ lost' = lost /\ touched' = touched /\ Sessions' = Sessions /\ valid \subseteq Sessions
      /\ task[t] = Idle
  BY <1>1 DEF BeginExchange, CanBegin, service, past, Sessions, Exchanging, IInv, TypeOK
<1>3. PICK k : k = [at |-> "exchange", kind |-> "renew", user |-> v,
                    access |-> row'[v].access, refresh |-> row'[v].refresh,
                    again |-> FALSE, reply |-> Pending]
  OBVIOUS
<1>4. task' = [task EXCEPT ![t] = k] /\ k.user = v /\ k.refresh = row[v].refresh /\ k.reply = Pending
  BY <1>1, <1>2, <1>3 DEF BeginExchange, Copy
<1>5. task'[t] = k /\ \A s \in Tasks : s # t => task'[s] = task[s]
  BY <1>4 DEF Exchanging, IInv, TypeOK
<1>6. \A w : ~Holds(k, w) /\ ~Holds(Idle, w)
  BY <1>4, IdleTask DEF Holds, Pending
<1>7. Undisturbed(u)
  BY <1>2, <1>4, <1>5, <1>6 DEF Undisturbed
<1> QED BY <1>2, <1>7, UndisturbedDue

\* What an answer changes of a renewal.
LEMMA Replied ==
    ASSUME Exchanging, NEW t \in Tasks, NEW r \in Replies', Sessions \subseteq Sessions',
           Reply(t, r), Waiting(t)
    PROVE  /\ \A s \in Tasks : s # t => task'[s] = task[s]
           /\ task'[t].at = "exchange" /\ task[t].at = "exchange"
           /\ task'[t].user = task[t].user /\ task'[t].refresh = task[t].refresh
           /\ task'[t].reply = r /\ ~(task[t].reply > 0)
<1>1. TypeOK /\ task[t].at # "idle" /\ task[t].reply = Pending
  BY DEF Exchanging, IInv, Waiting
<1>2. task[t].at = "exchange"
  BY <1>1, Holders
<1> QED BY <1>1, <1>2, RepliedTask DEF Pending

\* The service answers.
LEMMA ServeDue ==
    ASSUME Exchanging, TypeOK', NEW t \in Tasks, Serve(t), NEW u \in Users
    PROVE  Due(u)
<1>1. Waiting(t)
  BY DEF Serve, ServeGrant, ServeRotate, ServeLogin, ServeReject, ServeFail
<1>2. /\ task[t].at = "exchange" /\ task[t].refresh \in Sessions /\ task[t].user \in Users
      /\ owner[task[t].refresh] = task[t].user /\ Presented(t) = task[t].refresh
      /\ ~(task[t].reply > 0)
  BY <1>1, Holders DEF Waiting, Pending
<1>3. TypeOK /\ valid \subseteq Sessions /\ valid' \subseteq Sessions'
  BY DEF Exchanging, IInv, TypeOK
<1>4. CASE ServeReject(t) \/ ServeFail(t)
  <2>1. PICK r \in {Rejected, Failure} : Reply(t, r)
    BY <1>4 DEF ServeReject, ServeFail
  <2>2. /\ row' = row /\ file' = file /\ rotates' = rotates /\ owner' = owner /\ valid' = valid
        /\ lost' = lost /\ touched' = touched /\ Sessions' = Sessions
    BY <1>4 DEF ServeReject, ServeFail, service, past, Sessions
  <2>3. r \in Replies' /\ ~(r > 0)
    BY <2>1 DEF Replies, Rejected, Failure
  <2>4. /\ \A s \in Tasks : s # t => task'[s] = task[s]
        /\ task'[t].at = "exchange" /\ task'[t].user = task[t].user
        /\ task'[t].refresh = task[t].refresh /\ task'[t].reply = r
    BY <1>1, <2>1, <2>2, <2>3, Replied
  <2>5. Undisturbed(u)
    BY <1>2, <1>3, <2>2, <2>3, <2>4 DEF Undisturbed, Holds
  <2> QED BY <1>3, <2>2, <2>5, UndisturbedDue
<1>5. CASE ServeGrant(t)
  <2>1. /\ row' = row /\ file' = file /\ rotates' = rotates /\ owner' = owner /\ valid' = valid
        /\ lost' = lost /\ touched' = touched /\ Sessions' = Sessions
        /\ ~rotates /\ task[t].refresh \in valid /\ Reply(t, task[t].refresh)
    BY <1>2, <1>5 DEF ServeGrant, service, past, Sessions
  <2>2. task[t].refresh \in Replies' /\ task[t].refresh > 0
    BY <1>2, <1>3, <2>1, SessionNumbers DEF Replies
  <2>3. /\ \A s \in Tasks : s # t => task'[s] = task[s]
        /\ task'[t].at = "exchange" /\ task'[t].user = task[t].user
        /\ task'[t].refresh = task[t].refresh /\ task'[t].reply = task[t].refresh
    BY <1>1, <2>1, <2>2, Replied
  <2>4. \A s \in Tasks : Holds(task[s], u) => Holds(task'[s], u)
    BY <1>2, <2>3 DEF Holds
  <2>5. ASSUME Live(u) PROVE Live(u)'
    <3>1. OneLive(u)' /\ FileIsRow(u)'
      BY <2>1, <2>5 DEF Live, OneLive, FileIsRow
    <3>2. Kept(u)'
      BY <2>1, <2>4, <2>5 DEF Live, Kept
    <3>3. AnswersLive(u)'
      BY <2>1, <2>3, <2>5 DEF Live, AnswersLive
    <3>4. AnswerUnseen(u)'
      BY <2>1 DEF AnswerUnseen
    <3> QED BY <3>1, <3>2, <3>3, <3>4 DEF Live
  <2>6. ASSUME FileFollows(u) PROVE FileFollows(u)'
    BY <2>1, <2>4, <2>6 DEF FileFollows
  <2> QED BY <2>1, <2>5, <2>6, Holders DEF Due
<1>6. CASE ServeRotate(t)
  <2>1. PICK v \in Users : v = task[t].user
    BY <1>2
  <2>2. PICK p \in Sessions : p = task[t].refresh
    BY <1>2
  <2>3. /\ Issue(v, {p}) /\ p \in valid /\ rotates /\ owner[p] = v
        /\ UNCHANGED <<channel, begun, row, file, cached, moves, touched, mixed>>
        /\ \/ Reply(t, Len(owner')) /\ lost' = lost
           \/ Reply(t, Failure) /\ lost' = lost \cup {v}
    BY <1>2, <1>6, <2>1, <2>2 DEF ServeRotate
  <2>4. PICK new : new = Len(owner')
    OBVIOUS
  <2>5. /\ new \in Sessions' /\ new \notin Sessions /\ new > 0
        /\ Sessions \subseteq Sessions' /\ Sessions' = Sessions \cup {new}
        /\ \A n \in Sessions : owner'[n] = owner[n]
        /\ owner'[new] = v /\ valid' = (valid \ {p}) \cup {new} /\ rotates' = rotates
    BY <1>3, <2>3, <2>4, Issued
  <2>6. PICK r \in {new, Failure} : Reply(t, r)
    BY <2>3, <2>4
  <2>7. r \in Replies'
    BY <2>5, <2>6 DEF Replies
  <2>8. /\ \A s \in Tasks : s # t => task'[s] = task[s]
        /\ task'[t].at = "exchange" /\ task'[t].user = v
        /\ task'[t].refresh = p /\ task'[t].reply = r
    BY <1>1, <2>1, <2>2, <2>5, <2>6, <2>7, Replied
  <2>9. CASE u # v
    <3>1. \A n \in Sessions : owner'[n] = owner[n] /\ (owner[n] = u => (n \in valid' <=> n \in valid))
      BY <2>3, <2>5, <2>9
    <3>2. \A n \in valid' : n \notin Sessions => owner'[n] # u
      BY <1>3, <2>5, <2>9
    <3>3. /\ ~Holds(task[t], u) /\ ~Holds(task'[t], u)
          /\ \A s \in Tasks : s # t => task'[s] = task[s]
          /\ task'[t].user # u
      BY <2>1, <2>8, <2>9 DEF Holds
    <3>4. rotates' = rotates /\ row' = row /\ file' = file
      BY <2>3, <2>5
    <3>5. Undisturbed(u)
      BY <3>1, <3>2, <3>3, <3>4 DEF Undisturbed
    <3> QED BY <1>3, <2>3, <3>5, UndisturbedDue
  <2>10. CASE u = v /\ u \in lost'
    BY <2>10 DEF Due
  <2>11. CASE u = v /\ u \notin lost'
    <3>1. r = new /\ lost' = lost /\ touched' = touched /\ row' = row /\ file' = file
      <4>1. Reply(t, new) /\ lost' = lost
        BY <2>3, <2>4, <2>11
      <4>2. new \in Replies'
        BY <2>5 DEF Replies
      <4>3. task'[t].reply = new
        BY <1>1, <2>5, <4>1, <4>2, Replied
      <4> QED BY <2>3, <2>8, <4>1, <4>3
    <3>2. Holds(task'[t], u)
      BY <2>5, <2>8, <2>11, <3>1 DEF Holds
    <3>3. FileFollows(u)'
      BY <3>2 DEF FileFollows
    <3>4. ASSUME Live(u) PROVE Live(u)'
      <4>1. \A n \in valid : owner[n] = u => n = p
        BY <2>3, <2>11, <3>4 DEF Live, OneLive
      <4>2. \A n \in valid' : owner'[n] = u => n = new
        BY <1>3, <2>5, <4>1
      <4>3. \A s \in Tasks : ~Holds(task[s], u)
        <5>1. SUFFICES ASSUME NEW s \in Tasks, Holds(task[s], u) PROVE FALSE
          OBVIOUS
        <5>2. task[s].reply = p
          BY <3>4, <4>1, <5>1, Holders DEF Live, AnswersLive, Holds
        <5>3. task[t].refresh # task[s].reply
          BY <1>2, <2>1, <2>3, <2>11, <3>4, <5>1 DEF Live, AnswerUnseen
        <5> QED BY <2>2, <5>2, <5>3
      <4>4. \A s \in Tasks : Holds(task'[s], u) => s = t
        BY <2>8, <4>3
      <4>5. row[u].refresh \in Sessions
        BY Holders
      <4>6. \A s \in Tasks : task'[s].at # "idle" => task'[s].refresh # new
        BY <2>5, <2>8, Holders
      <4>7. OneLive(u)'
        BY <4>2 DEF OneLive
      <4>8. AnswersLive(u)' /\ Kept(u)'
        BY <2>5, <2>8, <3>1, <3>2, <4>4 DEF AnswersLive, Kept
      <4>9. FileIsRow(u)'
        BY <3>1, <3>4 DEF Live, FileIsRow
      <4>10. AnswerUnseen(u)'
        BY <2>5, <2>8, <3>1, <4>4, <4>5, <4>6 DEF AnswerUnseen
      <4> QED BY <4>7, <4>8, <4>9, <4>10 DEF Live
    <3> QED BY <3>1, <3>3, <3>4, Holders DEF Due
  <2> QED BY <2>9, <2>10, <2>11
<1>7. ~ServeLogin(t)
  BY <1>2 DEF ServeLogin
<1> QED BY <1>4, <1>5, <1>6, <1>7 DEF Serve

\* A session is stored, in the row and in the file.
LEMMA StoreDue ==
    ASSUME Exchanging, ~mixed', NEW t \in Tasks, Got(t, "exchange"), row' = Stored(t),
           file' = Written(task[t].user, task[t].reply), Done(t),
           UNCHANGED <<channel, service, touched, lost>>, mixed' = (mixed \/ Mixed(file')),
           NEW u \in Users
    PROVE  Due(u)
<1>1. /\ owner' = owner /\ rotates' = rotates /\ valid' = valid /\ Sessions' = Sessions
      /\ valid \subseteq Sessions /\ Basic /\ row' = Stored(t) /\ TypeOK
      /\ lost' = lost /\ touched' = touched
  BY DEF service, Sessions, Exchanging, IInv, Basic, TypeOK
<1>2. PICK v \in Users : v = task[t].user
  BY <1>1 DEF TypeOK
<1>3. PICK n \in Sessions : n = task[t].reply /\ n # 0 /\ owner[n] = v
  BY <1>1, <1>2, GotOwn DEF Got, Exchanging
<1>4. row'[v].refresh = n /\ \A w \in Users : w # v => row'[w] = row[w]
  BY <1>1, <1>2, <1>3, StoredRow DEF Got
<1>5. /\ task'[t] = Idle /\ \A s \in Tasks : s # t => task'[s] = task[s]
      /\ Idle.at = "idle" /\ \A w : ~Holds(Idle, w)
  BY <1>1, IdleTask DEF Done, TypeOK
<1>6. /\ file'.user = file.user /\ ~Mixed(file')
      /\ file' = file \/ file'.session = n
      /\ file' = file => file.session = 0 \/ file.user # v \/ file.session = n
  <2>1. file \in [user : Users, session : Sessions \cup {0}]
    BY <1>1 DEF TypeOK
  <2> QED BY <1>2, <1>3, <2>1 DEF Written, WritesBack
<1>7. CASE u # v
  <2>1. file'.user = u /\ file'.session # 0 => file' = file
    BY <1>1, <1>3, <1>6, <1>7 DEF Mixed
  <2>2. ~Holds(task[t], u) /\ ~Holds(task'[t], u)
    BY <1>2, <1>5, <1>7 DEF Holds
  <2>3. Undisturbed(u)
    BY <1>1, <1>4, <1>5, <1>7, <2>1, <2>2 DEF Undisturbed
  <2> QED BY <1>1, <2>3, UndisturbedDue
<1>8. CASE u = v
  <2>1. file'.user = u /\ file'.session # 0 => file'.session = n
    BY <1>6, <1>8
  <2>2. FileFollows(u)'
    BY <1>4, <1>8, <2>1 DEF FileFollows
  <2>3. ASSUME Live(u) PROVE Live(u)'
    <3>1. n \in valid
      BY <1>2, <1>3, <1>8, <2>3 DEF Live, AnswersLive, Holds, Got
    <3>2. OneLive(u)'
      BY <1>1, <2>3 DEF Live, OneLive
    <3>3. AnswersLive(u)'
      BY <1>1, <1>5, <2>3 DEF Live, AnswersLive
    <3>4. Kept(u)' /\ FileIsRow(u)'
      BY <1>1, <1>4, <1>8, <2>1, <3>1 DEF Kept, FileIsRow
    <3>5. AnswerUnseen(u)'
      <4>1. SUFFICES ASSUME rotates, NEW s \in Tasks, Holds(task'[s], u) PROVE FALSE
        BY <1>1 DEF AnswerUnseen
      <4>2. s # t /\ Holds(task[s], u)
        BY <1>5, <4>1
      <4>3. Holds(task[t], u)
        BY <1>2, <1>8 DEF Holds, Got
      <4> QED BY <2>3, <4>1, <4>2, <4>3 DEF Live, AnswerUnseen
    <3> QED BY <3>2, <3>3, <3>4, <3>5 DEF Live
  <2> QED BY <1>1, <2>2, <2>3, Holders DEF Due
<1> QED BY <1>7, <1>8

\* A renewal ends with nothing to store: nothing it held is lost.
LEMMA NothingDue ==
    ASSUME Exchanging, NEW t \in Tasks, Done(t), ~(task[t].reply > 0),
           UNCHANGED <<service, touched, lost, row, file>>, NEW u \in Users
    PROVE  Due(u)
<1>1. /\ owner' = owner /\ rotates' = rotates /\ valid' = valid /\ Sessions' = Sessions
      /\ valid \subseteq Sessions
  BY DEF service, Sessions, Exchanging, IInv, TypeOK
<1>2. /\ task'[t] = Idle /\ \A s \in Tasks : s # t => task'[s] = task[s]
      /\ Idle.at = "idle" /\ \A w : ~Holds(Idle, w)
  BY IdleTask DEF Done, TypeOK, Exchanging, IInv
<1>3. ~Holds(task[t], u)
  BY DEF Holds
<1>4. Undisturbed(u)
  BY <1>1, <1>2, <1>3 DEF Undisturbed
<1> QED BY <1>1, <1>4, UndisturbedDue

\* What the renewals do with their answers.
LEMMA ReceiveDue ==
    ASSUME Exchanging, ~mixed', NEW t \in Tasks, Receive(t), NEW u \in Users
    PROVE  Due(u)
<1>1. channel \in Exchangers /\ TypeOK /\ Basic
  BY DEF Exchanging, IInv, Basic
<1>2. CASE ReceiveRowFirst(t)
  BY <1>2, StoreDue DEF ReceiveRowFirst
<1>3. CASE ReceiveFileFirst(t)
  <2>1. /\ Got(t, "exchange") /\ task[t].user \in Users
        /\ owner[task[t].reply] = task[t].user
    <3>1. Got(t, "exchange") /\ task[t].at # "idle" /\ task[t].reply > 0
      BY <1>3 DEF ReceiveFileFirst, Got
    <3> QED BY <1>1, <3>1, GotOwn DEF Exchanging
  <2>2. CASE file.session # 0
    <3>1. /\ row' = Stored(t) /\ file' = Written(task[t].user, task[t].reply) /\ Done(t)
          /\ UNCHANGED <<channel, service, touched, lost>> /\ mixed' = (mixed \/ Mixed(file'))
      BY <1>3, <2>1, <2>2 DEF ReceiveFileFirst
    <3> QED BY <2>1, <3>1, StoreDue
  <2>3. CASE file.session = 0
    <3>1. /\ row' = row /\ file' = file /\ lost' = lost \cup {task[t].user} /\ touched' = touched
          /\ owner' = owner /\ rotates' = rotates /\ valid' = valid /\ Sessions' = Sessions
          /\ Done(t) /\ valid \subseteq Sessions
      BY <1>1, <1>3, <2>1, <2>3 DEF ReceiveFileFirst, Written, WritesBack, service, Sessions, TypeOK
    <3>2. /\ task'[t] = Idle /\ \A s \in Tasks : s # t => task'[s] = task[s]
          /\ Idle.at = "idle" /\ \A w : ~Holds(Idle, w)
      BY <1>1, <3>1, IdleTask DEF Done, TypeOK
    <3>3. u # task[t].user => Undisturbed(u)
      BY <3>1, <3>2 DEF Undisturbed, Holds
    <3> QED BY <3>1, <3>3, UndisturbedDue
  <2> QED BY <2>2, <2>3
<1>4. CASE ReceiveReplaced(t)
  <2>1. /\ row' = Adopted(task[t].user, file.session, file.session) /\ file' = file
        /\ owner' = owner /\ rotates' = rotates /\ valid' = valid /\ Sessions' = Sessions
        /\ lost' = lost /\ touched' = touched /\ valid \subseteq Sessions
        /\ file.session # 0 /\ file.user = task[t].user /\ task[t].reply = Rejected
    BY <1>1, <1>4 DEF ReceiveReplaced, Replacement, service, past, Sessions, TypeOK
  <2>2. /\ \A s \in Tasks : s # t => task'[s] = task[s]
        /\ task'[t].user = task[t].user /\ task'[t].refresh = file.session
        /\ task'[t].reply = Pending
    <3>1. PICK k : k = [task[t] EXCEPT !.access = file.session, !.refresh = file.session,
                                       !.again = TRUE, !.reply = Pending]
      OBVIOUS
    <3>2. task[t] \in TaskRecords /\ task \in [Tasks -> TaskRecords]
      BY <1>1 DEF TypeOK, TaskRecords, Replies
    <3>3. k.user = task[t].user /\ k.refresh = file.session /\ k.reply = Pending
      BY <3>1, <3>2 DEF TaskRecords
    <3>4. task' = [task EXCEPT ![t] = k]
      BY <1>4, <3>1, <3>2 DEF ReceiveReplaced, TaskRecords
    <3> QED BY <3>2, <3>3, <3>4
  <2>3. PICK v \in Users : v = task[t].user
    BY <1>1 DEF TypeOK
  <2>4. file.session \in Sessions
    BY <2>1, Holders
  <2>5. row'[v].refresh = file.session /\ \A w \in Users : w # v => row'[w] = row[w]
    <3>1. row \in [Users -> RowRecords]
      BY <1>1 DEF TypeOK, RowRecords
    <3> QED BY <2>1, <2>3, <2>4, <3>1, AdoptedRow
  <2>6. ~Holds(task[t], u) /\ ~Holds(task'[t], u)
    BY <2>1, <2>2 DEF Holds, Rejected, Pending
  <2>7. CASE u # v
    <3>1. Undisturbed(u)
      BY <2>1, <2>2, <2>3, <2>5, <2>6, <2>7 DEF Undisturbed
    <3> QED BY <2>1, <3>1, UndisturbedDue
  <2>8. CASE u = v
    <3>1. ASSUME Live(u) PROVE Live(u)'
      <4>1. row[u].refresh = file.session
        BY <2>1, <2>3, <2>8, <3>1 DEF Live, FileIsRow
      <4>2. Undisturbed(u)
        BY <2>1, <2>2, <2>3, <2>5, <2>6, <2>8, <4>1 DEF Undisturbed
      <4> QED BY <2>1, <3>1, <4>2, UndisturbedLive
    <3>2. FileFollows(u)'
      BY <2>1, <2>5, <2>8 DEF FileFollows
    <3> QED BY <2>1, <3>1, <3>2, Holders DEF Due
  <2> QED BY <2>7, <2>8
<1>5. CASE ReceiveRefused(t)
  <2>1. /\ Done(t) /\ ~(task[t].reply > 0)
        /\ UNCHANGED <<service, touched, lost, row, file>>
    BY <1>5 DEF ReceiveRefused, Refused, past, Rejected, Failure
  <2> QED BY <2>1, NothingDue
<1>6. ~(ReceiveRowOnly(t) \/ ReceiveLoomy(t) \/ ReceiveProbe(t) \/ ReceiveGivenUp(t))
  BY <1>1 DEF ReceiveRowOnly, ReceiveLoomy, ReceiveProbe, ReceiveGivenUp, Exchangers
<1> QED BY <1>2, <1>3, <1>4, <1>5, <1>6 DEF Receive

\* Everybody else: who touches a login, or loses what a renewal holds, is noted.
LEMMA SurroundingsDue ==
    ASSUME Exchanging, TypeOK', Surroundings, NEW u \in Users
    PROVE  Due(u)
<1>1. /\ TypeOK /\ valid \subseteq Sessions /\ valid' \subseteq Sessions'
      /\ row \in [Users -> RowRecords]
  BY DEF Exchanging, IInv, TypeOK, RowRecords
<1>2. ASSUME NEW v \in Users, NEW revoked \in SUBSET valid, Issue(v, revoked),
             file'.session = Len(owner'),
             touched' = touched \cup {v} \cup {owner[n] : n \in revoked},
             file'.user = u => u \in touched',
             UNCHANGED <<row, task, lost>>
      PROVE  Due(u)
  <2>1. PICK new : new = Len(owner')
    OBVIOUS
  <2>2. /\ new \in Sessions' /\ new \notin Sessions /\ \A n \in Sessions : owner'[n] = owner[n]
        /\ owner'[new] = v /\ valid' = (valid \ revoked) \cup {new} /\ rotates' = rotates
    BY <1>1, <1>2, <2>1, Issued
  <2>3. FileFollows(u)'
    BY <1>2, <2>1, <2>2 DEF FileFollows
  <2>4. ASSUME u \notin lost' \cup touched' PROVE Live(u)'
    <3>1. /\ u # v /\ u \notin lost \cup touched /\ file'.user # u
          /\ \A n \in revoked : owner[n] # u
      BY <1>2, <2>4
    <3>2. \A n \in Sessions : owner'[n] = owner[n] /\ (owner[n] = u => (n \in valid' <=> n \in valid))
      BY <2>2, <3>1
    <3>3. \A n \in valid' : n \notin Sessions => owner'[n] # u
      BY <1>1, <2>2, <3>1
    <3>4. Undisturbed(u)
      BY <1>2, <2>2, <3>1, <3>2, <3>3 DEF Undisturbed
    <3> QED BY <1>1, <3>1, <3>4, UndisturbedLive, Holders
  <2> QED BY <2>3, <2>4 DEF Due
<1>3. ASSUME NEW v \in Users, ClientLogin(v) PROVE Due(u)
  <2>1. PICK revoked \in {{}, {n \in valid : owner[n] = v}, valid} :
            Issue(v, revoked) /\ touched' = touched \cup {v} \cup {owner[n] : n \in revoked}
    BY <1>3 DEF ClientLogin
  <2>2. /\ file' = [user |-> v, session |-> Len(owner')] /\ UNCHANGED <<row, task, lost>>
        /\ revoked \in SUBSET valid
    BY <1>3, <2>1 DEF ClientLogin, past
  <2>3. file'.session = Len(owner') /\ (file'.user = u => u \in touched')
    BY <2>1, <2>2
  <2> QED BY <1>2, <2>1, <2>2, <2>3
<1>4. CASE ClientRotates
  <2>1. PICK v \in Users : v = owner[file.session]
    BY <1>1, <1>4, SessionNumbers DEF ClientRotates
  <2>2. /\ Issue(v, {file.session}) /\ file.session \in valid
        /\ touched' = touched \cup {v} \cup {owner[n] : n \in {file.session}}
        /\ file' = [file EXCEPT !.session = Len(owner')] /\ UNCHANGED <<row, task, lost>>
    BY <1>4, <2>1 DEF ClientRotates
  <2>3. file'.session = Len(owner') /\ file'.user = file.user
    BY <1>1, <2>2 DEF TypeOK
  <2>4. file.user = v
    BY <1>1, <2>1, <2>2, Holders, SessionNumbers
  <2>5. file'.user = u => u \in touched'
    BY <2>2, <2>3, <2>4
  <2>6. {file.session} \in SUBSET valid
    BY <2>2
  <2> QED BY <1>2, <2>2, <2>3, <2>5, <2>6
<1>5. CASE ClientLogout
  <2>1. /\ file'.session = 0 /\ row' = row /\ task' = task
        /\ owner' = owner /\ rotates' = rotates /\ valid' = valid /\ Sessions' = Sessions
        /\ lost' = lost /\ touched' = touched
    BY <1>5 DEF ClientLogout, NoFile, service, past, Sessions
  <2>2. Undisturbed(u)
    BY <1>1, <2>1 DEF Undisturbed
  <2> QED BY <1>1, <2>1, <2>2, UndisturbedDue
<1>6. CASE Import
  <2>1. PICK v \in Users : v = file.user
    BY <1>1 DEF TypeOK
  <2>2. /\ file.session \in Sessions /\ file.session # 0 /\ FileRefresh = file.session
        /\ file' = file /\ task' = task
        /\ touched' = touched \cup {v} /\ row' = Adopted(v, file.session, file.session)
        /\ owner' = owner /\ rotates' = rotates /\ valid' = valid /\ Sessions' = Sessions
        /\ lost' = lost
    BY <1>1, <1>6, <2>1 DEF Import, FileRefresh, Exchanging, Exchangers, service, Sessions, TypeOK
  <2>3. row'[v].refresh = file.session /\ \A w \in Users : w # v => row'[w] = row[w]
    BY <1>1, <2>2, AdoptedRow
  <2>4. CASE u = v
    BY <2>2, <2>3, <2>4 DEF Due, FileFollows
  <2>5. CASE u # v
    <3>1. Undisturbed(u)
      BY <1>1, <2>2, <2>3, <2>5 DEF Undisturbed
    <3> QED BY <1>1, <2>2, <3>1, UndisturbedDue
  <2> QED BY <2>4, <2>5
<1>7. ASSUME NEW v \in Users, TimePasses(v) PROVE Due(u)
  <2>1. /\ file' = file /\ row' = row /\ task' = task
        /\ owner' = owner /\ rotates' = rotates /\ valid' = valid /\ Sessions' = Sessions
        /\ lost' = lost /\ touched' = touched
    BY <1>7 DEF TimePasses, service, past, Sessions, Exchanging, Exchangers
  <2>2. Undisturbed(u)
    BY <1>1, <2>1 DEF Undisturbed
  <2> QED BY <1>1, <2>1, <2>2, UndisturbedDue
<1>8. CASE Restart
  <2>1. /\ file' = file /\ row' = row /\ task' = [s \in Tasks |-> Idle]
        /\ owner' = owner /\ rotates' = rotates /\ valid' = valid /\ Sessions' = Sessions
        /\ lost' = lost \cup {task[s].user : s \in {q \in Tasks : task[q] # Idle}}
        /\ touched' = touched
    BY <1>8 DEF Restart, service, Sessions
  <2>2. ASSUME u \notin lost' PROVE Undisturbed(u)
    <3>1. \A s \in Tasks : ~Holds(task[s], u) /\ ~Holds(task'[s], u) /\ task'[s].at = "idle"
      BY <2>1, <2>2, IdleTask DEF Holds
    <3> QED BY <1>1, <2>1, <3>1 DEF Undisturbed
  <2> QED BY <1>1, <2>1, <2>2, UndisturbedDue
<1> QED BY <1>3, <1>4, <1>5, <1>6, <1>7, <1>8 DEF Surroundings

\* A file that was mixed stays noted.
LEMMA MixedStays == TypeOK /\ [Next]_vars => channel' = channel /\ (mixed => mixed')
<1> SUFFICES ASSUME mixed \in BOOLEAN, [Next]_vars PROVE channel' = channel /\ (mixed => mixed')
  BY DEF TypeOK
<1>1. CASE UNCHANGED vars
  BY <1>1 DEF vars, past
<1>2. ASSUME NEW t \in Tasks, Begin(t) PROVE channel' = channel /\ mixed' = mixed
  BY <1>2 DEF Begin, BeginExchange, BeginLoomy, BeginReady, ResyncInStream, BeginRefresh, past
<1>3. ASSUME NEW t \in Tasks, Serve(t) PROVE channel' = channel /\ mixed' = mixed
  BY <1>3 DEF Serve, ServeGrant, ServeRotate, ServeLogin, ServeReject, ServeFail, past
<1>4. ASSUME NEW t \in Tasks, Receive(t) PROVE channel' = channel /\ (mixed => mixed')
  <2>1. channel' = channel /\ (mixed' = mixed \/ mixed' = (mixed \/ Mixed(file')))
    BY <1>4 DEF Receive, ReceiveRowFirst, ReceiveFileFirst, ReceiveRowOnly, ReceiveReplaced,
                ReceiveRefused, ReceiveLoomy, ReceiveProbe, ReceiveGivenUp, past
  <2> QED BY <2>1
<1>5. ASSUME NEW t \in Tasks, CrashBetween(t) PROVE channel' = channel /\ (mixed => mixed')
  <2>1. channel' = channel /\ mixed' = (mixed \/ Mixed(file'))
    BY <1>5 DEF CrashBetween
  <2> QED BY <2>1
<1>6. CASE Surroundings
  BY <1>6 DEF Surroundings, ClientLogin, TimePasses, ClientRotates, ClientLogout, Import,
              Restart, past
<1> QED BY <1>1, <1>2, <1>3, <1>4, <1>5, <1>6 DEF Next

----------------------------------------------------------------------------
(* The invariant                                                           *)

LEMMA NextInv == IInv /\ [Next]_vars => IInv'
<1> SUFFICES ASSUME IInv, [Next]_vars PROVE IInv'
  OBVIOUS
<1>1. Basic'
  BY BasicNext DEF IInv, Basic
<1>2. TypeOK' /\ channel' = channel /\ (mixed => mixed')
  BY <1>1, MixedStays DEF IInv, Basic
<1>3. ASSUME channel' \in Exchangers, ~mixed', NEW u \in Users PROVE Due(u)
  <2>1. Exchanging
    BY <1>2, <1>3 DEF Exchanging
  <2>2. CASE UNCHANGED vars
    <3>1. Undisturbed(u) /\ valid' \subseteq Sessions' /\ lost' = lost /\ touched' = touched
      BY <1>2, <2>2 DEF vars, service, past, Undisturbed, IInv, TypeOK, Sessions
    <3> QED BY <2>1, <3>1, UndisturbedDue
  <2>3. ASSUME NEW t \in Tasks, CrashBetween(t) PROVE Due(u)
    <3>1. u \in lost'
      BY <2>3 DEF CrashBetween
    <3> QED BY <3>1 DEF Due
  <2> QED
    BY <1>2, <1>3, <2>1, <2>2, <2>3, BeginDue, ServeDue, ReceiveDue, SurroundingsDue DEF Next
<1>4. Untouched' /\ Followed'
  BY <1>3 DEF Untouched, Followed, Due
<1> QED BY <1>1, <1>4 DEF IInv, Basic

\* Every user has one session at the start, the one in the row.
LEMMA InitInv == Init => IInv
<1> SUFFICES ASSUME Init PROVE IInv
  OBVIOUS
<1>1. PICK N \in Nat : N = Cardinality(Users) /\ N <= MaxSessions
  BY LoginAssumption, FS_CardinalityType
<1>2. /\ owner \in [1..N -> Users] /\ owner[1] = FirstUser
      /\ \A u \in Users : \E i \in 1..N : owner[i] = u
      /\ \A u \in Users : owner[row[u].access] = u
                          /\ row[u].refresh = IF channel = "xiaohuanxiong" THEN 0 ELSE row[u].access
      /\ row \in [Users -> [access : Sessions, refresh : Sessions \cup {0},
                            status : {"active"}, lapsed : {FALSE},
                            password : {channel = "loomy", FALSE}]]
  BY <1>1 DEF Init
<1>3. owner \in Seq(Users) /\ Len(owner) = N /\ Sessions = 1..N
  BY <1>2 DEF Sessions
<1>4. 1 \in Sessions /\ 0 \notin Sessions
  <2>1. \E i \in 1..N : owner[i] = FirstUser
    BY <1>2, LoginAssumption
  <2> QED BY <1>1, <1>3, <2>1
<1>5. \A m, n \in Sessions : owner[m] = owner[n] => m = n
  <2>1. IsFiniteSet(1..N) /\ Cardinality(1..N) = Cardinality(Users)
    BY <1>1, FS_Interval
  <2>2. owner \in Surjection(1..N, Users)
    BY <1>2 DEF Surjection
  <2>3. owner \in Injection(1..N, Users)
    BY <2>1, <2>2, LoginAssumption, FS_SurjSameCardinalityImpliesInj
  <2> QED BY <1>3, <2>3 DEF Injection, IsInjective
<1>6. /\ rotates \in BOOLEAN /\ valid = Sessions /\ file = [user |-> FirstUser, session |-> 1]
      /\ cached = {} /\ task = [t \in Tasks |-> Idle] /\ begun = 0 /\ moves = 0
      /\ lost = {} /\ touched = {} /\ mixed = FALSE /\ channel \in Channels
  BY DEF Init
<1>7. TypeOK
  <2>1. row \in [Users -> RowRecords]
    BY <1>2 DEF RowRecords, Statuses
  <2>2. task \in [Tasks -> TaskRecords] /\ \A t \in Tasks : task[t] = Idle
    BY <1>6, IdleTask
  <2>3. file \in [user : Users, session : Sessions \cup {0}]
    BY <1>4, <1>6, LoginAssumption
  <2>4. begun \in 0..MaxRenewals /\ moves \in 0..MaxMoves
    BY <1>6, LoginAssumption
  <2> QED BY <1>1, <1>3, <1>6, <2>1, <2>2, <2>3, <2>4 DEF TypeOK, RowRecords, TaskRecords, Replies
<1>8. Own
  BY <1>2, <1>6, IdleTask DEF Own, FileOwn, RowOwn, TaskOwn
<1>9. Questions
  <2>1. \A u \in Users : channel # "xiaohuanxiong" => row[u].refresh # 0
    <3> SUFFICES ASSUME NEW u \in Users, channel # "xiaohuanxiong" PROVE row[u].refresh # 0
      OBVIOUS
    <3>1. row[u].refresh = row[u].access /\ row[u].access \in Sessions
      BY <1>2
    <3> QED BY <1>4, <3>1
  <2>2. \A t \in Tasks : task[t].at = "idle"
    BY <1>6, IdleTask
  <2> QED BY <2>1, <2>2 DEF Questions, Asks, Exchangers
<1>10. ASSUME channel \in Exchangers, NEW u \in Users PROVE Live(u) /\ FileFollows(u)
  <2>1. /\ row[u].refresh \in Sessions /\ owner[row[u].refresh] = u
        /\ \A t \in Tasks : ~Holds(task[t], u)
    <3>1. row[u].refresh = row[u].access /\ row[u].access \in Sessions
      BY <1>2, <1>10 DEF Exchangers
    <3>2. owner[row[u].access] = u
      BY <1>2
    <3>3. \A t \in Tasks : ~Holds(task[t], u)
      BY <1>6, IdleTask
    <3> QED BY <3>1, <3>2, <3>3
  <2>2. file.user = u => file.session = row[u].refresh
    BY <1>2, <1>4, <1>5, <1>6, <2>1
  <2>3. OneLive(u)
    BY <1>5, <1>6 DEF OneLive
  <2>4. AnswersLive(u) /\ AnswerUnseen(u)
    BY <2>1 DEF AnswersLive, AnswerUnseen
  <2>5. Kept(u) /\ FileIsRow(u)
    BY <1>6, <2>1, <2>2 DEF Kept, FileIsRow
  <2>6. FileFollows(u)
    BY <1>4, <1>6 DEF FileFollows
  <2> QED BY <2>3, <2>4, <2>5, <2>6 DEF Live
<1> QED BY <1>7, <1>8, <1>9, <1>10 DEF IInv, Untouched, Followed

\* Everything the renewals rely on, at every step.
THEOREM Invariant == Spec => []IInv
<1> QED BY InitInv, NextInv, PTL DEF Spec

\* Every row holds a session of its own user while the desktop file was never
\* mixed, and where sessions are exchanged a live row never stands beside a dead
\* session of the same user in the file, unless a renewal is under way that
\* writes both or an answer was lost (write_refreshed_session, adopt).
THEOREM OwnAndInStep == Spec => []SessionsAreOwn
<1>1. IInv => SessionsAreOwn
  <2> SUFFICES ASSUME IInv PROVE SessionsAreOwn
    OBVIOUS
  <2>1. TypeOK /\ Own /\ Followed
    BY DEF IInv
  <2>2. NoForeignSession
    BY <2>1 DEF NoForeignSession, Own, RowOwn
  <2>3. \A u : (\E t \in Tasks : Holds(task[t], u)) => Renewing(u)
    BY DEF Holds, Renewing
  <2>4. ImportFindsLive
    BY <2>1, <2>3 DEF ImportFindsLive, Followed, FileFollows, Exchangers
  <2> QED BY <2>1, <2>2, <2>4 DEF SessionsAreOwn
<1> QED BY Invariant, <1>1, PTL

\* Two renewals of one login at once, without a lock, end with a session that
\* works: the one the service refuses leaves the row to the other's answer
\* (refresh_account of qoder, qwenwork and traework; while nobody else touches
\* the login, no answer is lost and the file was never mixed).
THEOREM RenewalsAgree == Spec => []UnlockedRenewalsAgree
<1>1. IInv => UnlockedRenewalsAgree
  <2> SUFFICES ASSUME IInv PROVE UnlockedRenewalsAgree
    OBVIOUS
  <2>1. \A u : (\E t \in Tasks : Holds(task[t], u)) => Renewing(u)
    BY DEF Holds, Renewing
  <2> QED
    BY <2>1 DEF IInv, Untouched, Live, Kept, UnlockedRenewalsAgree, Exchangers
<1> QED BY Invariant, <1>1, PTL

\* A renewal never asks again what it has asked before.
Advances(t) ==
    task[t].reply # Pending /\ task'[t].reply = Pending /\ task'[t].at # "idle"
        => Asked(task'[t]) > Asked(task[t])

\* The question a renewal asks next, after an answer.
LEMMA ReceiveAdvances ==
    ASSUME IInv, NEW t \in Tasks, Receive(t), NEW s \in Tasks
    PROVE  Advances(s)
<1>1. /\ task \in [Tasks -> TaskRecords] /\ Idle.at = "idle" /\ TypeOK
      /\ Asks(task[t])
  BY IdleTask DEF IInv, TypeOK, TaskRecords, Replies, Questions
<1>2. \A k : task' = [task EXCEPT ![t] = k] => task'[t] = k /\ (s # t => task'[s] = task[s])
  BY <1>1
<1>3. CASE Done(t)
  BY <1>1, <1>2, <1>3 DEF Advances, Done
<1>4. CASE ReceiveReplaced(t)
  <2>1. PICK k : k = [task[t] EXCEPT !.access = file.session, !.refresh = file.session,
                                     !.again = TRUE, !.reply = Pending]
    OBVIOUS
  <2>2. k.at = task[t].at /\ k.again = TRUE
    BY <1>1, <2>1 DEF TaskRecords
  <2>3. task' = [task EXCEPT ![t] = k] /\ ~task[t].again /\ channel \in Exchangers
    BY <1>1, <1>4, <2>1 DEF ReceiveReplaced, Replacement, Exchangers, TaskRecords
  <2>4. task[t].at = "idle" \/ task[t].at = "exchange"
    BY <1>1, <2>3 DEF Asks
  <2>5. task'[t] = k /\ (s # t => task'[s] = task[s])
    BY <1>2, <2>3
  <2> QED BY <2>2, <2>3, <2>4, <2>5 DEF Advances, Asked
<1>5. ASSUME NEW at \in {"login", "exchange"}, task[t].at = "probe",
             task' = [task EXCEPT ![t].at = at, ![t].reply = Pending]
      PROVE  Advances(s)
  <2>1. PICK k : k = [task[t] EXCEPT !.at = at, !.reply = Pending]
    OBVIOUS
  <2>2. k.at = at
    BY <1>1, <2>1 DEF TaskRecords
  <2>3. task' = [task EXCEPT ![t] = k]
    BY <1>1, <1>5, <2>1 DEF TaskRecords
  <2>4. task'[t] = k /\ (s # t => task'[s] = task[s])
    BY <1>2, <2>3
  <2>5. Asked(task[t]) = 1 /\ Asked(k) > 1
    BY <1>5, <2>2 DEF Asked
  <2> QED BY <2>4, <2>5 DEF Advances
<1>6. CASE ReceiveLoomy(t)
  <2>1. CASE task[t].reply = Rejected /\ row[task[t].user].password
    <3>1. task[t].at = "probe" /\ task' = [task EXCEPT ![t].at = "login", ![t].reply = Pending]
      BY <1>6, <2>1 DEF ReceiveLoomy, Rejected, Failure
    <3> QED BY <1>5, <3>1
  <2> QED BY <1>3, <1>6, <2>1 DEF ReceiveLoomy
<1>7. CASE ReceiveProbe(t)
  <2>1. /\ task[t].at = "probe"
        /\ Done(t) \/ task' = [task EXCEPT ![t].at = "exchange", ![t].reply = Pending]
    BY <1>7 DEF ReceiveProbe
  <2> QED BY <1>3, <1>5, <2>1
<1>8. CASE ReceiveRowFirst(t) \/ ReceiveFileFirst(t) \/ ReceiveRowOnly(t)
           \/ ReceiveRefused(t) \/ ReceiveGivenUp(t)
  BY <1>3, <1>8 DEF ReceiveRowFirst, ReceiveFileFirst, ReceiveRowOnly, ReceiveRefused, ReceiveGivenUp
<1> QED BY <1>4, <1>6, <1>7, <1>8 DEF Receive

\* The second try of qwenwork, the login of loomy and the exchange of
\* xiaohuanxiong follow the question they replace and are followed by none.
THEOREM RenewalsEnd == Spec => RenewalAdvances
<1>1. ASSUME IInv, [Next]_vars PROVE [\A t \in Tasks : Advances(t)]_vars
  <2> SUFFICES ASSUME Next, NEW s \in Tasks PROVE Advances(s)
    BY <1>1
  <2>1. /\ task \in [Tasks -> TaskRecords] /\ Idle.at = "idle" /\ Idle.reply = Pending
    BY <1>1, IdleTask DEF IInv, TypeOK, TaskRecords, Replies
  <2>2. ASSUME NEW t \in Tasks, Begin(t) PROVE Advances(s)
    <3>1. task[t] = Idle
      BY <2>2 DEF Begin, BeginExchange, BeginLoomy, BeginReady, ResyncInStream, BeginRefresh, CanBegin
    <3>2. task' = task \/ \E k : task' = [task EXCEPT ![t] = k]
      BY <2>2 DEF Begin, BeginExchange, BeginLoomy, BeginReady, ResyncInStream, BeginRefresh, Copy
    <3>3. s # t => task'[s] = task[s]
      BY <2>1, <3>2
    <3> QED BY <2>1, <3>1, <3>3 DEF Advances
  <2>3. ASSUME NEW t \in Tasks, Serve(t) PROVE Advances(s)
    <3>1. task[t].reply = Pending /\ \E r : Reply(t, r)
      BY <2>3 DEF Serve, ServeGrant, ServeRotate, ServeLogin, ServeReject, ServeFail, Waiting
    <3>2. s # t => task'[s] = task[s]
      BY <2>1, <3>1 DEF Reply
    <3> QED BY <3>1, <3>2 DEF Advances
  <2>4. ASSUME NEW t \in Tasks, Receive(t) PROVE Advances(s)
    BY <1>1, <2>4, ReceiveAdvances
  <2>5. ASSUME task' = [t \in Tasks |-> Idle] PROVE Advances(s)
    BY <2>1, <2>5 DEF Advances
  <2>6. ASSUME NEW t \in Tasks, CrashBetween(t) PROVE Advances(s)
    BY <2>5, <2>6 DEF CrashBetween
  <2>7. CASE Surroundings
    <3>1. task' = task \/ task' = [t \in Tasks |-> Idle]
      BY <2>7 DEF Surroundings, ClientLogin, TimePasses, ClientRotates, ClientLogout, Import, Restart
    <3> QED BY <2>5, <3>1 DEF Advances
  <2> QED BY <2>2, <2>3, <2>4, <2>6, <2>7 DEF Next
<1>2. [][\A t \in Tasks : Advances(t)]_vars => RenewalAdvances
  BY PTL DEF RenewalAdvances, Advances
<1> QED BY Invariant, <1>1, <1>2, PTL DEF Spec
=============================================================================
