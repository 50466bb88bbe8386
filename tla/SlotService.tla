---------------------------- MODULE SlotService ----------------------------
(***************************************************************************)
(* What the chat pacing of rate_limiter.py promises to its callers: per    *)
(* account, requests are served in the order they queued, and no request   *)
(* starts while the account already serves as many as the limit in force.  *)
(* A queued request may give up at any moment; leaving never disturbs the  *)
(* order of the others.  Lowering the limit interrupts nobody.             *)
(***************************************************************************)
EXTENDS Integers, Sequences, FiniteSets

CONSTANTS Accounts,     \* upstream accounts
          Requests,     \* chat requests
          Limits        \* values the in-flight limit may take, 0 = unlimited

VARIABLES queue,        \* [Accounts -> Seq(Requests)], first come first
          busy,         \* [Accounts -> SUBSET Requests], in-flight requests
          limit         \* the in-flight limit in force

vars == <<queue, busy, limit>>

Queued(a) == {queue[a][i] : i \in DOMAIN queue[a]}

Away(r) == \A a \in Accounts : r \notin busy[a] /\ r \notin Queued(a)

Room(a) == limit = 0 \/ Cardinality(busy[a]) < limit

\* The queue without the element at position i.
Leaving(q, i) == SubSeq(q, 1, i - 1) \o SubSeq(q, i + 1, Len(q))

Init == /\ queue = [a \in Accounts |-> <<>>]
        /\ busy = [a \in Accounts |-> {}]
        /\ limit \in Limits

Join(r, a) == /\ Away(r)
              /\ queue' = [queue EXCEPT ![a] = Append(@, r)]
              /\ UNCHANGED <<busy, limit>>

\* A request that finds nobody queued may start at once.
StartAtOnce(r, a) == /\ Away(r)
                     /\ queue[a] = <<>>
                     /\ Room(a)
                     /\ busy' = [busy EXCEPT ![a] = @ \cup {r}]
                     /\ UNCHANGED <<queue, limit>>

StartHead(a) == /\ queue[a] # <<>>
                /\ Room(a)
                /\ busy' = [busy EXCEPT ![a] = @ \cup {Head(queue[a])}]
                /\ queue' = [queue EXCEPT ![a] = Tail(@)]
                /\ UNCHANGED limit

GiveUp(a) == /\ \E i \in DOMAIN queue[a] :
                    queue' = [queue EXCEPT ![a] = Leaving(@, i)]
             /\ UNCHANGED <<busy, limit>>

Finish(r, a) == /\ r \in busy[a]
                /\ busy' = [busy EXCEPT ![a] = @ \ {r}]
                /\ UNCHANGED <<queue, limit>>

ChangeLimit == /\ limit' \in Limits
               /\ UNCHANGED <<queue, busy>>

Next == \/ ChangeLimit
        \/ \E a \in Accounts :
              \/ StartHead(a)
              \/ GiveUp(a)
              \/ \E r \in Requests : Join(r, a) \/ StartAtOnce(r, a) \/ Finish(r, a)

Spec == Init /\ [][Next]_vars
=============================================================================
