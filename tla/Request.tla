------------------------------- MODULE Request ------------------------------
(***************************************************************************)
(* One request from its name to the messages an upstream is sent: admit_    *)
(* model, the queue, the sweep when nobody can serve, the reservation, the  *)
(* translation and the trims of its history, and the hops over the queue    *)
(* (with failover across channels) or over one channel's own picks          *)
(* (without), while the catalogs, aliases, marks and accounts change at     *)
(* every await.  What an attempt does in detail is Dispatch, ChatStream and *)
(* ChannelChat; what quotas count is DailyQuota.                            *)
(***************************************************************************)
EXTENDS Admission, Conversation

CONSTANTS
    WorkBuddy,      \* the channel whose models are listed without a prefix
    Starts          \* how things may stand when a request arrives: families, each
                    \* with the set of values for every part of a start

ASSUME RequestAssumption ==
    \A f \in Starts :
        /\ f.name \subseteq Names /\ f.cross \subseteq BOOLEAN
        /\ f.order \subseteq SetToSeqs(Enabled)
        /\ f.row \subseteq [Roster -> AccountRows] /\ f.cooling \subseteq SUBSET Roster

VARIABLES
    start,          \* the request, and the settings it is served under: its
                    \* key and name, its history and the interface it came by,
                    \* the limit of a Codex client (0: no such client), the
                    \* budget of the channels (0: none), failover, what each
                    \* channel is, whether the key's day may be used up, and
                    \* how much may change meanwhile
    at,
    exempt,         \* channels noted as serving the model whatever the balance
    todo,           \* channels the sweep has yet to see
    queue, next,    \* the accounts to ask, and whose turn it is
    messages,       \* the history as chat messages
    hop,            \* what the current hop asks for, and of which channel
    tried,          \* accounts the hop has asked
    retried,        \* the hop is on its second, shorter history
    sent,           \* what an upstream was sent last
    changes,        \* what others have changed so far
    touched,        \* history: names or order changed since the admission
    moved,          \* history: accounts that changed since the queue was built
    swayed          \* history: others changed a preferred account since then

request == <<exempt, todo, queue, swayed, next, messages, hop, tried, retried, sent>>
serving == <<config, accounts, start, at, request, changes, touched, moved>>

key == start.key
name == start.name
Here == start.kind[hop.channel]
NoHop == [channel |-> None, model |-> None, messages |-> <<>>]
Nothing == [account |-> None, stray |-> FALSE, model |-> None, zero |-> FALSE,
            messages |-> <<>>]
Over == {"refused", "unavailable", "tooLong", "failed", "done"}

RequestInit ==
    /\ \E f \in Starts :
          /\ start \in [key : f.key, name : f.name, items : f.items, api : f.api,
                        codex : f.codex, budget : f.budget, cross : f.cross,
                        kind : f.kind, limited : f.limited, moves : f.moves]
          /\ catalog \in f.catalog /\ extras \in f.extras /\ marks \in f.marks
          /\ alias \in f.alias /\ order \in f.order
          /\ row \in f.row /\ cooling \in f.cooling /\ sticky \in f.sticky
    /\ at = "new" /\ exempt = {} /\ todo = <<>> /\ queue = <<>> /\ next = 1
    /\ messages = <<>> /\ hop = NoHop /\ tried = {} /\ retried = FALSE
    /\ sent = Nothing
    /\ changes = 0 /\ touched = FALSE /\ moved = {} /\ swayed = FALSE

Stay == UNCHANGED <<config, accounts, start, changes, touched, moved>>

----------------------------------------------------------------------------
(* Admission and the queue                                                 *)

Plan(empty) ==
    /\ queue' = AccountQueue(key, name) /\ swayed' = FALSE
    /\ at' = IF queue' = <<>> THEN empty ELSE "reserve"

Refuse ==
    /\ at = "new" /\ ~Admitted(key, name)
    /\ at' = "refused"
    /\ Stay /\ UNCHANGED request

Admit ==
    /\ at = "new" /\ Admitted(key, name)
    /\ exempt' = ExemptChannels(name.base)
    /\ Plan("sweep")
    /\ todo' = IF key.channel = AnyChannel THEN order ELSE <<key.channel>>
    /\ Stay /\ UNCHANGED <<next, messages, hop, tried, retried, sent>>

\* Whom a channel turns to when it has nobody to pick: expired accounts, or in
\* some channels whichever are left, disabled ones as well.
Expired(c) == {a \in Own(c) : row[a].status = "expired"}
Renewed(a) == row' = [row EXCEPT ![a].status = "active"] /\ moved' = moved \cup {a}

\* A channel with expired logins picks an account; one that has none to pick
\* renews a login, or fails to.
PickOrRenew(c) ==
    LET a == Pick(c, exempt, {})
        rest == IF start.kind[c] \in {"qoder", "plain"} THEN Own(c) ELSE Expired(c)
    IN  \/ a # None /\ Prefer(a) /\ UNCHANGED <<row, moved>>
        \/ a = None /\ UNCHANGED <<row, sticky, moved>>
        \/ /\ a = None
           /\ \E b \in rest :
                 /\ Renewed(b)
                 /\ IF start.kind[c] = "workbuddy" THEN Prefer(b) ELSE sticky' = sticky

Sweep ==
    /\ at = "sweep" /\ todo # <<>>
    /\ todo' = Tail(todo)
    /\ IF Head(todo) \in SweepChannels(key, name) /\ Expired(Head(todo)) # {}
       THEN PickOrRenew(Head(todo))
       ELSE UNCHANGED <<row, sticky, moved>>
    /\ UNCHANGED <<config, cooling, start, at, exempt, queue, swayed, next, messages, hop,
                   tried, retried, sent, changes, touched>>

Requeue ==
    /\ at = "sweep" /\ todo = <<>>
    /\ Plan("unavailable")
    /\ moved' = {}
    /\ UNCHANGED <<config, accounts, start, exempt, todo, next, messages, hop,
                   tried, retried, sent, changes, touched>>

\* The reservation has returned: history of a Codex client is cut to the limit
\* and refused when that is not enough, and becomes chat messages.
Reserve ==
    /\ at = "reserve"
    /\ LET cut == IF start.codex = 0 THEN start.items
                  ELSE Trimmed(start.items, start.codex)
       IN  IF start.codex # 0 /\ Weight(cut) > start.codex
           THEN at' = "tooLong" /\ messages' = messages
           ELSE /\ at' = "walk"
                /\ messages' = IF start.api = "responses" THEN ToChat(cut) ELSE cut
    /\ Stay /\ UNCHANGED <<exempt, todo, queue, swayed, next, hop, tried, retried, sent>>

ReserveRefused ==
    /\ at = "reserve" /\ start.limited
    /\ at' = "refused"
    /\ Stay /\ UNCHANGED request

----------------------------------------------------------------------------
(* Hops                                                                    *)

\* The next account of the queue, or nobody.
NextHop ==
    /\ at' = IF start.cross /\ next < Len(queue) THEN "walk" ELSE "failed"
    /\ next' = next + 1

\* A hop names the model for its channel and cuts the history to the budget of
\* the channel; when that is not enough it ends here.
Hop ==
    /\ at = "walk"
    /\ LET c == ChannelOf[queue[next]]
           cut == IF start.budget = 0 THEN messages ELSE Trimmed(messages, start.budget)
       IN  /\ hop' = [channel |-> c, model |-> Translate(c, name.base), messages |-> cut]
           /\ IF Len(cut) < Len(messages) /\ Weight(cut) > start.budget THEN NextHop
              ELSE at' = "pick" /\ next' = next
    /\ tried' = {} /\ retried' = FALSE
    /\ Stay /\ UNCHANGED <<exempt, todo, queue, swayed, messages, sent>>

\* A history that cannot be posted counts as a failure of the account.
Send(a, stray) ==
    /\ tried' = tried \cup {a}
    /\ \/ /\ Postable(Here, hop.messages)
          /\ at' = "sent" /\ cooling' = cooling
          /\ sent' = [account |-> a, stray |-> stray, model |-> hop.model,
                      zero |-> row[a].zero, messages |-> Outbound(Here, hop.messages)]
       \/ /\ ~Postable(Here, hop.messages)
          /\ cooling' = cooling \cup {a}
          /\ UNCHANGED <<at, sent>>
    /\ UNCHANGED <<config, start, exempt, todo, queue, swayed, next, messages, hop, retried,
                   changes, touched>>

\* A pinned hop asks its account, whatever became of it, unless it cools down
\* or was asked; any other hop asks the channel's own pick.
Chosen ==
    IF ~start.cross THEN Pick(hop.channel, exempt, tried)
    ELSE IF queue[next] \in cooling \cup tried THEN None ELSE queue[next]

PickAccount ==
    /\ at = "pick" /\ Chosen # None
    /\ Send(Chosen, FALSE)
    /\ IF start.cross THEN sticky' = sticky ELSE Prefer(Chosen)
    /\ UNCHANGED <<row, moved>>

\* Nobody is left to pick: most channels renew an expired login, two of them
\* even in a pinned hop; one takes any other account.
Strays ==
    CASE Here = "workbuddy" /\ ~start.cross -> Expired(hop.channel)
      [] Here = "qoder" /\ ~start.cross -> Own(hop.channel)
      [] Here \in {"qwenwork", "traework"} -> Expired(hop.channel)
      [] OTHER -> {}

PickStray ==
    /\ at = "pick" /\ Chosen = None
    /\ \E b \in Strays \ tried :
          /\ Send(b, TRUE)
          /\ \/ Renewed(b)
             \/ Here = "qoder" /\ UNCHANGED <<row, moved>>
          /\ IF Here = "workbuddy" THEN Prefer(b) ELSE sticky' = sticky

NobodyLeft ==
    /\ at = "pick" /\ Chosen = None
    /\ NextHop
    /\ Stay /\ UNCHANGED <<exempt, todo, queue, swayed, messages, hop, tried, retried, sent>>

\* The answer is good, the account fails, or the history is too long for the
\* upstream: half of it is sent once more.
Serve ==
    /\ at = "sent" /\ at' = "done"
    /\ IF start.cross THEN Prefer(queue[next]) ELSE sticky' = sticky
    /\ UNCHANGED <<config, row, cooling, start, request, changes, touched, moved>>

Fail ==
    /\ at = "sent" /\ at' = "pick"
    /\ cooling' \in {cooling, cooling \cup {sent.account}}
    /\ UNCHANGED <<config, row, sticky, start, request, changes, touched, moved>>

RejectLength ==
    /\ at = "sent"
    /\ LET half == Weight(hop.messages) \div 2
           cut == Trimmed(hop.messages, IF half = 0 THEN 1 ELSE half)
       IN  IF retried \/ Len(cut) = Len(hop.messages)
           THEN NextHop /\ UNCHANGED <<hop, tried, retried>>
           ELSE /\ hop' = [hop EXCEPT !.messages = cut] /\ retried' = TRUE
                /\ tried' = {} /\ at' = "pick" /\ next' = next
    /\ Stay /\ UNCHANGED <<exempt, todo, queue, swayed, messages, sent>>

----------------------------------------------------------------------------
Surroundings ==
    /\ at \notin {"new"} \cup Over /\ changes < start.moves
    /\ Change
    /\ changes' = changes + 1
    /\ touched' = (touched \/ config' # config) /\ swayed' = (swayed \/ sticky' # sticky)
    /\ moved' = moved \cup {a \in Roster : row'[a] # row[a]
                                              \/ (a \in cooling) # (a \in cooling')}
    /\ UNCHANGED <<start, at, exempt, todo, queue, next, messages, hop, tried,
                   retried, sent>>

RequestNext ==
    \/ Refuse \/ Admit \/ Sweep \/ Requeue \/ Reserve \/ ReserveRefused
    \/ Hop \/ PickAccount \/ PickStray \/ NobodyLeft
    \/ Serve \/ Fail \/ RejectLength
    \/ Surroundings

RequestSpec == RequestInit /\ [][RequestNext]_serving

----------------------------------------------------------------------------
(* Properties                                                              *)

\* The filters that are coded apart agree: a name is admitted exactly when some
\* channel may queue accounts for it, the sweep looks at exactly those
\* channels, what the catalog offers to a key without limits is admitted and
\* queued in the channel that offers it, if that is in service (WorkBuddy's
\* models are listed when it is not), and the head of the queue is the account
\* its channel picks for itself, unless names, order, accounts or preferences
\* changed since the queue was built (router.py admit_model, account_queue,
\* _request_queue; server.py collect_v1_models; auth_manager.py pick_account).
PlanIsFollowed ==
    /\ Admitted(key, name) <=> QueueChannels(key, name) # {}
    /\ SweepChannels(key, name) = QueueChannels(key, name)
    /\ key = [channel |-> AnyChannel, allowed |-> {}] /\ name \in Listed(WorkBuddy)
        => LET c == IF name.prefix = None THEN WorkBuddy ELSE name.prefix
           IN  c \in Enabled => c \in QueueChannels(key, name)
    /\ queue # <<>> /\ at \in {"reserve", "walk"} /\ next = 1
          /\ ~touched /\ moved = {} /\ ~swayed
        => Pick(ChannelOf[queue[1]], exempt, {}) = queue[1]

\* What is sent is allowed, although the whitelist is read when the queue is
\* built and the model is named hops later: the account's channel is the one of
\* the prefix and of the key; unless names were changed meanwhile it serves
\* the model, under a name the key allows; an account without balance is asked
\* only for a marked model, or when it was drained on the way; and a pinned
\* hop never asks an account its queue has not, except for a renewed sibling.
SentIsAllowed ==
    at = "sent" =>
        LET c == ChannelOf[sent.account]
        IN  /\ c = hop.channel /\ c \in Visible(key) /\ name.prefix \in {None, c}
            /\ ~touched =>
                  /\ Accepts(c, name.base) /\ ModelAllowed(key, c, name.base)
                  /\ sent.model = Translate(c, name.base)
            /\ ~sent.stray /\ sent.zero =>
                  \/ c \in exempt /\ (touched \/ marks[c] \cap {name.base, sent.model} # {})
                  \/ start.cross /\ (sent.account \in moved \/ touched)
            /\ start.cross =>
                  IF sent.stray THEN Here \in {"qwenwork", "traework"}
                  ELSE sent.account = queue[next]

\* The history an upstream is sent can be answered: Qoder's is always one where
\* every result follows its call and every call has its result; WorkBuddy's is
\* when calls are answered before the next turn, and the only system prompt in
\* it is the gateway's, which comes first; and no trim, translation or repair
\* breaks a history that was valid.  What a trim keeps is what the limit asks
\* for and no less.  Without a trim everything said is sent, once and in its
\* order, but for prompts that move to the front of a message that reads them
\* (proxy.py _relocate_system_fingerprints, workbuddy_outbound.py _repair_tool_
\* history, providers/qoder/chat.py prepare_messages, router.py _trim_history).
Chat == IF start.api = "responses" THEN ToChat(start.items) ELSE start.items
Spoken(s) == SelectSeq(s, LAMBDA x : ~IsResult(x))
Told == [i \in DOMAIN Spoken(Chat) |-> Spoken(Chat)[i].n]
Read(s) == FlattenSeq([i \in DOMAIN s |->
               s[i].before \o IF s[i].n = 0 THEN <<>> ELSE <<s[i].n>>])
SentIsAnswerable ==
    /\ at = "sent" =>
        /\ Here = "qoder" => Valid(sent.messages)
        /\ Here = "workbuddy" /\ Orderly(Chat) => Valid(sent.messages)
        /\ Here = "workbuddy" =>
              sent.messages = <<>>
              \/ /\ {i \in DOMAIN sent.messages : IsSystem(sent.messages[i])} = {1}
                 /\ sent.messages[1].n = 0 /\ sent.messages[1].before = <<>>
        /\ Valid(SelectSeq(start.items, LAMBDA x : x.role # "reasoning"))
              => Valid(sent.messages)
        /\ start.codex = 0 /\ start.budget = 0 /\ ~retried =>
              LET said == SelectSeq(Read(sent.messages), LAMBDA n : n \in ToSet(Told))
                  others(t) == SelectSeq(t, LAMBDA n : n \notin ToSet(Prompts(Chat)))
              IN  IF Here \in {"workbuddy", "qwenwork"}
                  THEN /\ ToSet(said) = ToSet(Told) /\ Len(said) = Len(Told)
                       /\ others(said) = others(Told)
                  ELSE said = Told
    /\ at = "pick" /\ ~retried =>
          IF start.budget = 0 THEN hop.messages = messages
          ELSE FairTrim(messages, start.budget, hop.messages)
=============================================================================
