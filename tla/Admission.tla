------------------------------ MODULE Admission -----------------------------
(***************************************************************************)
(* Which accounts a request may spend: the catalogs and aliases of the      *)
(* channels, the keys, and three filters that are coded apart - admission   *)
(* of the name, the queue of accounts, the sweep over expired logins - with *)
(* the pick by which a channel chooses an account for itself.               *)
(*                                                                         *)
(* A model name is a record of its prefix, a channel or None, and its base; *)
(* a key names a channel, or AnyChannel, and a list of allowed names, where the    *)
(* empty list allows everything.                                            *)
(***************************************************************************)
EXTENDS Integers, FiniteSets, SequencesExt

CONSTANTS
    Channels,       \* the known channels
    Enabled,        \* those switched on
    Roster,         \* numbers, which stand for the load of the accounts and their ids
    ChannelOf,
    Models, AnyChannel, None,
    Builtin,        \* built-in aliases of each channel: a model, or None
    Fallback        \* the models of a channel whose catalog was never fetched

ASSUME AdmissionAssumption ==
    /\ Enabled \subseteq Channels /\ Roster \subseteq Nat
    /\ IsFiniteSet(Enabled) /\ IsFiniteSet(Roster)
    /\ ChannelOf \in [Roster -> Channels]
    /\ Builtin \in [Channels -> [Models -> Models \cup {None}]]
    /\ Fallback \in [Channels -> SUBSET Models]
    /\ None \notin Channels \cup Models \cup Roster /\ AnyChannel \notin Channels

VARIABLES
    catalog,        \* the fetched models of each channel; none when not fetched
    extras,         \* models added by hand
    marks,          \* models served whatever the balance
    alias,          \* aliases of the user
    order,          \* precedence of the enabled channels
    row,            \* the accounts: status, priority, weight, balance at zero
    cooling,        \* accounts that cool down after a failure
    sticky          \* the preferred account of each channel

names == <<catalog, extras, marks, alias>>
config == <<names, order>>
accounts == <<row, cooling, sticky>>

Names == [prefix : Channels \cup {None}, base : Models]
AccountRows == [status : {"active", "expired", "inactive"}, priority : Int, weight : Nat,
                zero : BOOLEAN]
Own(c) == {a \in Roster : ChannelOf[a] = c}

----------------------------------------------------------------------------
(* Names                                                                   *)

ListModels(c) == (IF catalog[c] = {} THEN Fallback[c] ELSE catalog[c]) \cup extras[c]
Merged(c, m) == IF alias[c][m] # None THEN alias[c][m] ELSE Builtin[c][m]
Accepts(c, m) == c \in Enabled /\ (m \in ListModels(c) \/ Merged(c, m) # None)
Translate(c, m) == IF Merged(c, m) # None THEN Merged(c, m) ELSE m

Bare(m) == [prefix |-> None, base |-> m]
Of(c, m) == [prefix |-> c, base |-> m]
Spellings(c, m) == {Bare(m), Bare(Translate(c, m)), Of(c, m), Of(c, Translate(c, m))}

Visible(k) == IF k.channel = AnyChannel THEN Enabled ELSE {k.channel}
ModelAllowed(k, c, m) == k.allowed = {} \/ k.allowed \cap Spellings(c, m) # {}

\* Admission: some channel the key may see has the name, and the list allows it
\* there.  A prefix, or the key's own channel, must be a channel in service.
Candidates(k, n) ==
    IF n.prefix # None THEN {c \in {n.prefix} \cap Visible(k) : Accepts(c, n.base)}
    ELSE {c \in Enabled : Accepts(c, n.base)} \cap Visible(k)
Admitted(k, n) ==
    /\ n.prefix # None => n.prefix \in Enabled
    /\ n.prefix = None /\ k.channel # AnyChannel => k.channel \in Enabled
    /\ \E c \in Candidates(k, n) : ModelAllowed(k, c, n.base)

\* The names GET /v1/models offers: WorkBuddy's, in service or not, with and
\* without a prefix, and those of the other channels in service.
Listed(workbuddy) ==
    {n \in Names : IF n.prefix = None THEN n.base \in ListModels(workbuddy)
                   ELSE /\ n.prefix \in Enabled \cup {workbuddy}
                        /\ n.base \in ListModels(n.prefix)}

----------------------------------------------------------------------------
(* Accounts                                                                *)

ExemptChannels(m) ==
    {c \in Enabled : Accepts(c, m) /\ {m, Translate(c, m)} \cap marks[c] # {}}
PoolExemptAnywhere(c, exempt) ==
    {a \in Own(c) : row[a].status = "active" /\ (exempt # {} \/ ~row[a].zero)}
Pool(c, exempt) ==
    {a \in Own(c) : row[a].status = "active" /\ (c \in exempt \/ ~row[a].zero)}

Rank(c) == CHOOSE i \in DOMAIN order : order[i] = c
Preferred(a) == sticky[ChannelOf[a]] = a

\* Priority, channel, weight, the preferred account, then the account's number.
QueueBefore(a, b) ==
    LET preferred == IF Preferred(a) = Preferred(b) THEN a < b ELSE Preferred(a)
        weight == IF row[a].weight = row[b].weight THEN preferred
                  ELSE row[a].weight > row[b].weight
        rank == IF ChannelOf[a] = ChannelOf[b] THEN weight
                ELSE Rank(ChannelOf[a]) < Rank(ChannelOf[b])
    IN  IF row[a].priority = row[b].priority THEN rank
        ELSE row[a].priority > row[b].priority

QueueChannels(k, n) ==
    {c \in Enabled : /\ n.prefix # None => c = n.prefix
                     /\ k.channel # AnyChannel => c = k.channel
                     /\ Accepts(c, n.base) /\ ModelAllowed(k, c, n.base)}
\* The accounts that may serve the name, each as far back as there are accounts
\* before it.
Waiting(k, n) ==
    (UNION {Pool(c, ExemptChannels(n.base)) : c \in QueueChannels(k, n)}) \ cooling
Place(S, a) == Cardinality({b \in S : QueueBefore(b, a)})
AccountQueue(k, n) ==
    LET S == Waiting(k, n)
    IN  [i \in 1..Cardinality(S) |-> CHOOSE a \in S : Place(S, a) = i - 1]

SweepChannels(k, n) ==
    {c \in Visible(k) : /\ n.prefix # None => c = n.prefix
                        /\ Accepts(c, n.base) /\ ModelAllowed(k, c, n.base)}

\* The account a channel picks for itself: of the highest priority, the
\* preferred one if none weighs more, else the first.
PickOrder(a, b) ==
    IF row[a].weight = row[b].weight THEN a < b
    ELSE row[a].weight > row[b].weight
PickPreferredAnyway(c, exempt, exclude) ==
    LET candidates == Pool(c, exempt) \ (cooling \cup exclude)
        kept == {a \in candidates : Preferred(a)}
        first == {a \in candidates : \A b \in candidates \ {a} :
                    \/ row[a].priority > row[b].priority
                    \/ row[a].priority = row[b].priority /\ PickOrder(a, b)}
    IN  IF candidates = {} THEN None
        ELSE CHOOSE a \in (IF kept # {} THEN kept ELSE first) : TRUE
Pick(c, exempt, exclude) ==
    LET candidates == Pool(c, exempt) \ (cooling \cup exclude)
        top == {a \in candidates : \A b \in candidates : row[a].priority >= row[b].priority}
        kept == {a \in top : Preferred(a) /\ \A b \in top : row[a].weight >= row[b].weight}
        first == {a \in top : \A b \in top \ {a} : PickOrder(a, b)}
    IN  IF candidates = {} THEN None
        ELSE CHOOSE a \in (IF kept # {} THEN kept ELSE first) : TRUE
Prefer(a) == sticky' = [sticky EXCEPT ![ChannelOf[a]] = a]

----------------------------------------------------------------------------
(* The model page and the account page                                     *)

RefreshCatalog ==
    \E c \in Enabled, S \in SUBSET Models \ {{}} :
        /\ Pick(c, {}, {}) # None /\ Prefer(Pick(c, {}, {}))
        /\ catalog' = [catalog EXCEPT ![c] = S]
        /\ UNCHANGED <<extras, marks, alias, order, row, cooling>>

UpsertModel ==
    \E c \in Enabled, m \in Models :
        /\ m \in ListModels(c) => m \in extras[c]
        /\ extras' = [extras EXCEPT ![c] = @ \cup {m}]
        /\ UNCHANGED <<catalog, marks, alias, order, accounts>>

RemoveModel ==
    \E c \in Enabled : \E m \in extras[c] :
        /\ extras' = [extras EXCEPT ![c] = @ \ {m}]
        /\ UNCHANGED <<catalog, marks, alias, order, accounts>>

SetExempt ==
    \E c \in Enabled, m \in Models, on \in BOOLEAN :
        /\ marks' = [marks EXCEPT ![c] = IF on THEN @ \cup {m} ELSE @ \ {m}]
        /\ UNCHANGED <<catalog, extras, alias, order, accounts>>

\* Keys that are built in keep their meaning.
SaveAliases ==
    \E c \in Channels, m \in Models, t \in Models \cup {None} :
        /\ alias' = [alias EXCEPT ![c] =
                        [[x \in Models |-> None] EXCEPT ![m] =
                            IF Builtin[c][m] # None THEN None ELSE t]]
        /\ UNCHANGED <<catalog, extras, marks, order, accounts>>

SaveOrder ==
    /\ order' \in SetToSeqs(Enabled)
    /\ UNCHANGED <<names, accounts>>

\* Edits, expiries, renewals and readings of balances; cooldowns come and go.
ChangeAccount ==
    \E a \in Roster :
        /\ \/ \E s \in {"active", "expired", "inactive"} :
                 row' = [row EXCEPT ![a].status = s] /\ cooling' = cooling
           \/ \E p \in {0, 1} : row' = [row EXCEPT ![a].priority = p] /\ cooling' = cooling
           \/ row' = [row EXCEPT ![a].zero = ~@] /\ cooling' = cooling
           \/ row' = row /\ cooling' = (cooling \cup {a}) \ (cooling \cap {a})
        /\ UNCHANGED <<config, sticky>>

Change ==
    \/ RefreshCatalog \/ UpsertModel \/ RemoveModel \/ SetExempt
    \/ SaveAliases \/ SaveOrder \/ ChangeAccount
=============================================================================
