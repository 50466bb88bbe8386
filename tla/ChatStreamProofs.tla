-------------------------- MODULE ChatStreamProofs --------------------------
(***************************************************************************)
(* Proofs about ChatStream for every set of accounts and choices, every    *)
(* vocabulary of chunks and every limit on attempts, events and withheld   *)
(* events.                                                                 *)
(***************************************************************************)
EXTENDS ChatStream, SequenceTheorems, FiniteSetTheorems, TLAPS

Asking == at \in {"picking", "headers", "posting", "limited"}
Reading == at \in {"reading", "flushing", "judging"}
Sending == at \in {"releasing", "terminal"}
Open == outcome = "none"

\* The attempt the request is in: its account has been tried, nothing has been
\* sent before the account accepted, and only a whole answer is credited.
Attempt ==
    /\ at = "headers" => attempt < Cap
    /\ at \notin {"picking", "failing", "closing", "ended"} => account \in tried
    /\ Open <=> at \notin {"closing", "ended"}
    /\ Asking => out = <<>>
    /\ Open => \A i \in DOMAIN out : IsChunk(i) /\ out[i].account = account
    /\ out # <<>> /\ Open => account \in Accounts
    /\ \A a \in Accounts : health[a] = "ok" =>
          a = account /\ ~Asking /\ ~Reading
    /\ Sending => /\ health[account] = "ok" /\ ~EofError(observer)
                  /\ rows # <<>> /\ rows[Len(rows)] = Row(account, "200", TRUE)

\* What was accepted was sent or is held back, chunk by chunk.
Passed ==
    /\ at = "terminal" => withheld = <<>>
    /\ at = "posting" \/ Reading \/ Sending =>
        /\ Len(accepted) = Len(out) + Len(withheld)
        /\ \A i \in 1..Len(out) : accepted[i] = out[i].delta
        /\ \A i \in 1..Len(withheld) : accepted[Len(out) + i] = withheld[i]

\* The observer has seen a choice finish exactly when a chunk accepted did so,
\* and none for it was accepted after that.
Observes ==
    at = "posting" \/ Reading \/ Sending =>
        /\ \A c \in Choices :
              Closed(observer, c)
                <=> \E i \in 1..Len(accepted) : accepted[i].choice = c /\ Ends(accepted[i])
        /\ \A i, j \in 1..Len(accepted) :
              i < j /\ Ends(accepted[i]) /\ accepted[i].choice # None
                => accepted[j].choice # accepted[i].choice

\* No finish is sent before the verdict.
FinishHeld ==
    Open /\ ~Sending => \A i \in 1..Len(out) : ~Ends(out[i].delta)

\* Until the verdict the rows are those of the accounts asked before, one each,
\* none counted; the row of a failed attempt waits for its successor.
Logged == {rows[i].account : i \in DOMAIN rows}
InHand == IF at = "picking" /\ retry # None THEN {retry.account}
          ELSE IF at = "posting" \/ Reading THEN {account} ELSE {}
RowsWait ==
    Asking \/ Reading =>
        /\ \A i \in DOMAIN rows : ~rows[i].counted
        /\ \A i, j \in DOMAIN rows : rows[i].account = rows[j].account => i = j
        /\ Logged = posted \ InHand
        /\ InHand \subseteq posted
        /\ at # "picking" => retry = None
        /\ at = "picking" /\ retry # None => last = retry
        /\ at = "picking" /\ retry = None => account = last.account /\ account \notin posted
        /\ at = "headers" => account \notin posted

\* From the verdict on there is one row for every account asked, and exactly
\* one of all rows is counted; none if a local queue refused the request.
RowsDone ==
    at \in {"releasing", "terminal", "failing", "closing"} =>
        /\ outcome = "limited" => \A i \in DOMAIN rows : ~rows[i].counted
        /\ outcome # "limited" =>
              \E k \in DOMAIN rows : \A i \in DOMAIN rows : rows[i].counted <=> i = k
        /\ \A a \in posted : \E k \in DOMAIN rows :
              \A i \in DOMAIN rows : rows[i].account = a <=> i = k

\* What an ended stream has shown stays as it was.
Over == ~Open => CompleteMeansFinished /\ FinishIsEarned

IInv ==
    /\ TypeOK /\ Attempt /\ Passed /\ Observes /\ FinishHeld
    /\ RowsWait /\ RowsDone /\ ToldWhatIsLogged /\ Over

----------------------------------------------------------------------------
(* The observer                                                            *)

\* A fresh observer has seen no choice finish.
LEMMA FreshObserver ==
    NewObserver \in Observers /\ \A c \in Choices : ~Closed(NewObserver, c)
BY DEF NewObserver, Observers, Closed, Reasons

\* A chunk that is let through closes its choice if it finishes it, and leaves
\* the others as they were.
LEMMA ObservedChunk ==
    ASSUME NEW o \in Observers, NEW d \in Deltas, ~Breaks(o, d)
    PROVE  /\ Observed(o, d) \in Observers
           /\ d.choice \in Choices => ~Closed(o, d.choice)
           /\ \A c \in Choices :
                 Closed(Observed(o, d), c) <=> Closed(o, c) \/ (d.choice = c /\ Ends(d))
<1> DEFINE p == Observed(o, d)
<1>1. /\ d.choice \in Choices \cup {None} /\ d.part \in Parts
      /\ d.finish \in Reasons \cup {"no"} /\ None \notin Choices
  BY StreamAssumption
<1>2. CASE d.choice = None
  <2>1. p = [o EXCEPT !.saw = TRUE]
    BY <1>2 DEF Observed
  <2>2. p \in Observers /\ p.finish = o.finish
    BY <2>1 DEF Observers
  <2> QED BY <1>1, <1>2, <2>2 DEF Closed
<1>3. CASE d.choice \in Choices
  <2>1. PICK c \in Choices : c = d.choice
    BY <1>3
  <2>2. PICK f \in Reasons \cup {"open"} : f = IF d.finish = "no" THEN "open" ELSE d.finish
    BY <1>1
  <2>3. PICK spoke \in SUBSET Choices :
           spoke = IF d.part = "text" THEN o.spoke \cup {d.choice} ELSE o.spoke
    BY <1>3 DEF Observers
  <2>4. PICK call \in {"none", "open", "whole"} :
           call = CASE d.part \in {"call", "clash"} -> "open"
                    [] d.part = "args" -> "whole"
                    [] OTHER -> o.call[d.choice]
    BY <1>3 DEF Observers
  <2>5. p = [o EXCEPT !.saw = TRUE, !.finish[c] = f, !.spoke = spoke, !.call[c] = call]
    BY <1>1, <2>1, <2>2, <2>3, <2>4 DEF Observed
  <2>6. p.finish = [o.finish EXCEPT ![c] = f] /\ p \in Observers
    <3>1. /\ [o.finish EXCEPT ![c] = f] \in [Choices -> Reasons \cup {"absent", "open"}]
          /\ [o.call EXCEPT ![c] = call] \in [Choices -> {"none", "open", "whole"}]
      BY DEF Observers
    <3>2. p = [o EXCEPT !.saw = TRUE, !.finish = [o.finish EXCEPT ![c] = f],
                        !.spoke = spoke, !.call = [o.call EXCEPT ![c] = call]]
      BY <2>5 DEF Observers
    <3>3. PICK finish, calls : /\ finish = [o.finish EXCEPT ![c] = f]
                               /\ calls = [o.call EXCEPT ![c] = call]
      OBVIOUS
    <3>4. p = [o EXCEPT !.saw = TRUE, !.finish = finish, !.spoke = spoke, !.call = calls]
      BY <3>2, <3>3
    <3>5. p.finish = finish /\ p \in Observers
      BY <3>1, <3>3, <3>4 DEF Observers
    <3> QED BY <3>3, <3>5
  <2>7. ~Closed(o, c)
    BY <1>1, <2>1 DEF Breaks
  <2>8. f \in Reasons <=> Ends(d)
    BY <1>1, <2>2 DEF Ends, Reasons
  <2> QED BY <2>1, <2>6, <2>7, <2>8 DEF Closed, Observers
<1> QED BY <1>1, <1>2, <1>3

----------------------------------------------------------------------------
(* What the invariant says of a stream                                     *)

\* The sequences, element by element.
LEMMA Sequences ==
    ASSUME TypeOK
    PROVE  /\ DOMAIN out = 1..Len(out) /\ Len(out) \in Nat
           /\ \A i \in 1..Len(out) : out[i] \in Items
           /\ DOMAIN rows = 1..Len(rows) /\ Len(rows) \in Nat
           /\ Len(withheld) \in Nat /\ Len(accepted) \in Nat
           /\ \A i \in 1..Len(withheld) : withheld[i] \in Deltas
           /\ \A i \in 1..Len(accepted) : accepted[i] \in Deltas
BY LenProperties, ElementOfSeq DEF TypeOK

\* A chunk sent is a chunk of the vocabulary.
LEMMA ChunkItem ==
    ASSUME NEW x \in Items, x.kind = "chunk"
    PROVE  x.account \in Accounts /\ x.delta \in Deltas
BY DEF Items

\* Element by element or as a whole, the same is said.
LEMMA InOrderHolds == ASSUME IInv PROVE InOrder
<1> SUFFICES ASSUME Reading \/ Sending
             PROVE  /\ \A i \in DOMAIN out : IsChunk(i) /\ out[i].account = account
                    /\ [i \in DOMAIN out |-> out[i].delta] \o withheld = accepted
  BY DEF InOrder, Reading, Sending
<1>1. /\ TypeOK /\ Attempt /\ Passed /\ Open
      /\ Len(accepted) = Len(out) + Len(withheld)
      /\ \A i \in 1..Len(out) : accepted[i] = out[i].delta
      /\ \A i \in 1..Len(withheld) : accepted[Len(out) + i] = withheld[i]
  BY DEF IInv, Attempt, Passed, Reading, Sending
<1>2. PICK s : s = [i \in 1..Len(out) |-> out[i].delta]
  OBVIOUS
<1>3. \A i \in 1..Len(out) : IsChunk(i) /\ out[i].account = account /\ out[i].delta \in Deltas
  BY <1>1, Sequences, ChunkItem DEF Attempt, IsChunk
<1>4. s \in Seq(Deltas) /\ Len(s) = Len(out)
  <2>1. s \in [1..Len(out) -> Deltas]
    BY <1>2, <1>3
  <2> QED BY <2>1, <1>1, Sequences
<1>5. withheld \in Seq(Deltas) /\ accepted \in Seq(Deltas)
  BY <1>1 DEF TypeOK
<1>6. PICK both : both = s \o withheld
  OBVIOUS
<1>7. /\ both \in Seq(Deltas) /\ Len(both) = Len(out) + Len(withheld)
      /\ \A i \in 1..(Len(out) + Len(withheld)) :
            both[i] = IF i <= Len(out) THEN s[i] ELSE withheld[i - Len(out)]
  <2>1. /\ s \o withheld \in Seq(Deltas) /\ Len(s \o withheld) = Len(s) + Len(withheld)
        /\ \A i \in 1..Len(s) + Len(withheld) :
              (s \o withheld)[i] = IF i <= Len(s) THEN s[i] ELSE withheld[i - Len(s)]
    BY <1>4, <1>5, ConcatProperties
  <2> QED BY <2>1, <1>4, <1>6
<1>8. ASSUME NEW i \in 1..(Len(out) + Len(withheld)) PROVE both[i] = accepted[i]
  <2>1. Len(out) \in Nat /\ Len(withheld) \in Nat
    BY <1>1, Sequences
  <2>2. CASE i <= Len(out)
    <3>1. i \in 1..Len(out)
      BY <2>1, <2>2
    <3> QED BY <3>1, <2>2, <1>1, <1>2, <1>7
  <2>3. CASE ~(i <= Len(out))
    <3>1. i - Len(out) \in 1..Len(withheld) /\ Len(out) + (i - Len(out)) = i
      BY <2>1, <2>3
    <3>2. accepted[Len(out) + (i - Len(out))] = withheld[i - Len(out)]
      BY <3>1, <1>1
    <3> QED BY <3>1, <3>2, <2>3, <1>7
  <2> QED BY <2>2, <2>3
<1>9. both = accepted
  BY <1>1, <1>5, <1>7, <1>8, SeqEqual
<1> QED BY <1>1, <1>2, <1>3, <1>6, <1>9, Sequences

\* No finish has been sent while the verdict is open.
LEMMA NoFinish == ASSUME IInv, Open, ~Sending, NEW c PROVE Finishes(c) = {}
BY Sequences DEF IInv, Attempt, FinishHeld, Finishes, IsChunk

\* What is released is the answer the observer has found whole.
LEMMA SendingFinishes ==
    ASSUME IInv, Sending, NEW c \in Choices
    PROVE  /\ \A i \in Finishes(c) : i \in 1..Len(out) /\ out[i].delta.choice = c
                                     /\ Ends(out[i].delta)
           /\ \A i \in Finishes(c), j \in 1..Len(out) :
                 j > i => out[j].delta.choice # c
<1>1. /\ TypeOK /\ Attempt /\ Passed /\ Observes /\ Open
      /\ Len(accepted) = Len(out) + Len(withheld)
      /\ \A i \in 1..Len(out) : accepted[i] = out[i].delta
  BY DEF IInv, Attempt, Passed, Reading, Sending
<1>2. /\ DOMAIN out = 1..Len(out) /\ Len(out) \in Nat /\ Len(withheld) \in Nat
      /\ 1..Len(out) \subseteq 1..Len(accepted)
  BY <1>1, Sequences
<1>3. \A i \in 1..Len(out) : IsChunk(i)
  BY <1>1, <1>2 DEF Attempt
<1>4. \A i \in Finishes(c) : i \in 1..Len(out) /\ out[i].delta.choice = c /\ Ends(out[i].delta)
  BY <1>2, <1>3 DEF Finishes, IsChunk
<1>5. ASSUME NEW i \in Finishes(c), NEW j \in 1..Len(out), j > i
      PROVE  out[j].delta.choice # c
  <2>1. i \in 1..Len(accepted) /\ j \in 1..Len(accepted) /\ i < j
    BY <1>2, <1>4, <1>5
  <2>2. Ends(accepted[i]) /\ accepted[i].choice = c /\ c # None
    BY <1>1, <1>4, <1>5, StreamAssumption
  <2>3. accepted[j].choice # c
    BY <1>1, <2>1, <2>2 DEF Observes, Sending
  <2> QED BY <1>1, <1>5, <2>3
<1> QED BY <1>4, <1>5

\* A stream that goes on has promised no more than it can keep.
LEMMA OpenFinishes == ASSUME IInv, Open PROVE CompleteMeansFinished /\ FinishIsEarned
<1>1. TypeOK /\ Attempt
  BY DEF IInv
<1>2. CASE ~Sending
  BY <1>2, NoFinish DEF CompleteMeansFinished, FinishIsEarned, Open
<1>3. CASE Sending
  <2>1. FinishIsEarned
    BY <1>1, <1>3 DEF Attempt, FinishIsEarned
  <2>2. \A c \in Choices : \A i \in Finishes(c), j \in DOMAIN out :
           j > i /\ IsChunk(j) => out[j].delta.choice # c
    BY <1>1, <1>3, SendingFinishes, Sequences
  <2> QED BY <2>1, <2>2 DEF CompleteMeansFinished, Open
<1> QED BY <1>2, <1>3

----------------------------------------------------------------------------
(* Steps that send nothing                                                 *)

\* What the client has is described by what it was sent alone.
LEMMA SameOut ==
    ASSUME out' = out
    PROVE  /\ \A i : IsChunk(i)' = IsChunk(i)
           /\ \A c : Finishes(c)' = Finishes(c)
BY DEF IsChunk, Finishes

----------------------------------------------------------------------------
(* The rows of the log                                                     *)

\* The row that is counted is the last to be written; every account asked has
\* its own by then.
LEMMA FinalRow ==
    ASSUME IInv, Asking \/ Reading,
           NEW r \in [account : Accounts \cup {None}, status : Statuses, counted : BOOLEAN],
           r.counted, rows' = Append(rows, r), posted' = posted,
           IF InHand = {} THEN r.account \notin posted ELSE InHand = {r.account}
    PROVE  /\ rows' # <<>> /\ Len(rows') \in DOMAIN rows' /\ rows'[Len(rows')] = r
           /\ \A i \in DOMAIN rows' : rows'[i].counted <=> i = Len(rows')
           /\ \A a \in posted : \E k \in DOMAIN rows' :
                 \A i \in DOMAIN rows' : rows'[i].account = a <=> i = k
<1>1. TypeOK /\ RowsWait
  BY DEF IInv
<1>2. PICK n : n \in Nat /\ n = Len(rows) /\ DOMAIN rows = 1..n
  <2>1. Len(rows) \in Nat /\ DOMAIN rows = 1..Len(rows)
    BY <1>1, Sequences
  <2>2. PICK n : n = Len(rows)
    OBVIOUS
  <2> QED BY <2>1, <2>2
<1>3. /\ DOMAIN rows' = 1..(n + 1) /\ Len(rows') = n + 1 /\ rows'[n + 1] = r
      /\ \A i \in 1..n : rows'[i] = rows[i]
      /\ rows' # <<>>
  <2>1. rows \in Seq([account : Accounts \cup {None}, status : Statuses, counted : BOOLEAN])
    BY <1>1 DEF TypeOK
  <2> QED BY <2>1, <1>2, AppendProperties, LenProperties
<1>4. \A i \in 1..n : ~rows[i].counted
  BY <1>1, <1>2 DEF RowsWait
<1>5. \A i \in 1..(n + 1) : rows'[i].counted <=> i = n + 1
  BY <1>2, <1>3, <1>4
<1>6. ASSUME NEW a \in posted
      PROVE  \E k \in DOMAIN rows' : \A i \in DOMAIN rows' : rows'[i].account = a <=> i = k
  <2>1. CASE a \in Logged
    <3>1. PICK k \in 1..n : rows[k].account = a
      BY <1>2, <2>1 DEF Logged
    <3>2. \A i \in 1..n : rows[i].account = a <=> i = k
      BY <1>1, <1>2, <3>1 DEF RowsWait
    <3>3. r.account # a
      BY <1>1, <2>1 DEF RowsWait
    <3>4. \A i \in 1..(n + 1) : rows'[i].account = a <=> i = k
      <4>1. \A i \in 1..(n + 1) : i \in 1..n \/ i = n + 1
        BY <1>2
      <4>2. k # n + 1
        BY <1>2
      <4> QED BY <1>3, <3>2, <3>3, <4>1, <4>2
    <3>5. k \in 1..(n + 1) /\ DOMAIN rows' = 1..(n + 1)
      BY <1>2, <1>3
    <3> QED BY ONLY <3>4, <3>5
  <2>2. CASE a \notin Logged
    <3>1. a = r.account
      BY <1>1, <1>6, <2>2 DEF RowsWait
    <3>2. \A i \in 1..n : rows[i].account # a
      BY <1>2, <2>2 DEF Logged
    <3>3. \A i \in 1..(n + 1) : rows'[i].account = a <=> i = n + 1
      BY <1>2, <1>3, <3>1, <3>2
    <3>4. n + 1 \in 1..(n + 1)
      BY <1>2
    <3> QED BY <1>3, <3>3, <3>4
  <2> QED BY <2>1, <2>2
<1>7. Len(rows') \in DOMAIN rows' /\ rows'[Len(rows')] = r
  BY <1>2, <1>3
<1>8. \A i \in DOMAIN rows' : rows'[i].counted <=> i = Len(rows')
  BY <1>3, <1>5
<1> QED BY <1>3, <1>6, <1>7, <1>8

\* Each account asked has one row by the time the client is told.
LEMMA OneForEach ==
    ASSUME IInv, at \in {"releasing", "terminal", "failing", "limited", "closing"}
    PROVE  \A a \in posted : Cardinality({i \in DOMAIN rows : rows[i].account = a}) = 1
<1> SUFFICES ASSUME NEW a \in posted
             PROVE  Cardinality({i \in DOMAIN rows : rows[i].account = a}) = 1
  OBVIOUS
<1>1. RowsDone /\ RowsWait
  BY DEF IInv
<1>2. PICK k \in DOMAIN rows : \A i \in DOMAIN rows : rows[i].account = a <=> i = k
  <2>1. CASE at = "limited"
    <3>1. a \in Logged
      BY <1>1, <2>1 DEF RowsWait, InHand, Asking, Reading
    <3>2. PICK k \in DOMAIN rows : rows[k].account = a
      BY <3>1 DEF Logged
    <3> QED BY <1>1, <2>1, <3>2 DEF RowsWait, Asking
  <2>2. CASE at # "limited"
    BY <1>1, <2>2 DEF RowsDone
  <2> QED BY <2>1, <2>2
<1>3. {i \in DOMAIN rows : rows[i].account = a} = {k}
  BY <1>2
<1> QED BY <1>3, FS_Singleton

\* Every account asked has one row, and one row is counted, or none if a local
\* queue refused the request.
LEMMA LogHolds == ASSUME IInv PROVE LogIsTrue
<1>1. RowsDone /\ RowsWait /\ ToldWhatIsLogged /\ Attempt
  BY DEF IInv
<1>2. ASSUME NEW S, NEW k, S = {k} PROVE Cardinality(S) = 1
  BY <1>2, FS_Singleton
<1>3. ASSUME at \in {"releasing", "terminal", "failing", "limited", "closing"}
      PROVE  /\ Cardinality(Counted) = IF Limited THEN 0 ELSE 1
             /\ \A a \in posted : Cardinality({i \in DOMAIN rows : rows[i].account = a}) = 1
  <2>3. \A a \in posted : Cardinality({i \in DOMAIN rows : rows[i].account = a}) = 1
    BY <1>3, OneForEach
  <2>1. CASE ~Limited
    <3>1. PICK k \in DOMAIN rows : \A i \in DOMAIN rows : rows[i].counted <=> i = k
      BY <1>1, <1>3, <2>1 DEF RowsDone, Limited
    <3>2. Counted = {k}
      BY <3>1 DEF Counted
    <3> QED BY <2>1, <2>3, <3>2, <1>2
  <2>2. CASE Limited
    <3>1. \A i \in DOMAIN rows : ~rows[i].counted
      BY <1>1, <1>3, <2>2 DEF RowsDone, RowsWait, Limited, Attempt, Open, Asking
    <3>2. Counted = {}
      BY <3>1 DEF Counted
    <3> QED BY <2>2, <2>3, <3>2, FS_EmptySet
  <2> QED BY <2>1, <2>2
<1> QED BY <1>1, <1>3 DEF LogIsTrue, OneRowPerCall

----------------------------------------------------------------------------
(* Appending to the rows and to what was sent                              *)

Rows == [account : Accounts \cup {None}, status : Statuses, counted : BOOLEAN]

\* A row appended.
LEMMA RowAppended ==
    ASSUME TypeOK, NEW r \in Rows, rows' = Append(rows, r)
    PROVE  /\ rows' \in Seq(Rows) /\ rows' # <<>>
           /\ DOMAIN rows' = 1..(Len(rows) + 1) /\ Len(rows') = Len(rows) + 1
           /\ rows'[Len(rows) + 1] = r
           /\ \A i \in 1..Len(rows) : rows'[i] = rows[i]
           /\ \A i \in 1..(Len(rows) + 1) : i \in 1..Len(rows) \/ i = Len(rows) + 1
<1>1. rows \in Seq(Rows) /\ Len(rows) \in Nat
  BY Sequences DEF TypeOK, Rows
<1>2. rows' \in Seq(Rows) /\ Len(rows') = Len(rows) + 1 /\ rows'[Len(rows) + 1] = r
      /\ \A i \in 1..Len(rows) : rows'[i] = rows[i]
  BY <1>1, AppendProperties
<1>3. DOMAIN rows' = 1..Len(rows')
  BY <1>2, LenProperties
<1>4. rows' # <<>>
  BY <1>1, <1>2, EmptySeq
<1> QED BY <1>1, <1>2, <1>3, <1>4

\* An item sent: what was sent before stays in its place.
LEMMA ItemAppended ==
    ASSUME TypeOK, NEW x \in Items, out' = Append(out, x)
    PROVE  /\ out' \in Seq(Items) /\ out' # <<>>
           /\ DOMAIN out' = 1..(Len(out) + 1) /\ Len(out') = Len(out) + 1
           /\ out'[Len(out) + 1] = x
           /\ \A i \in 1..Len(out) : out'[i] = out[i]
           /\ \A i \in 1..(Len(out) + 1) : i \in 1..Len(out) \/ i = Len(out) + 1
<1>1. out \in Seq(Items) /\ Len(out) \in Nat
  BY Sequences DEF TypeOK
<1>2. out' \in Seq(Items) /\ Len(out') = Len(out) + 1 /\ out'[Len(out) + 1] = x
      /\ \A i \in 1..Len(out) : out'[i] = out[i]
  BY <1>1, AppendProperties
<1>3. DOMAIN out' = 1..Len(out')
  BY <1>2, LenProperties
<1>4. out' # <<>>
  BY <1>1, <1>2, EmptySeq
<1> QED BY <1>1, <1>2, <1>3, <1>4

\* An item that is no chunk and finishes nothing changes nothing of what the
\* client knows.
LEMMA PlainItem ==
    ASSUME TypeOK, NEW x \in [kind : {"error", "done"}], out' = Append(out, x)
    PROVE  \A c : /\ Finishes(c)' = Finishes(c)
                  /\ \A j \in DOMAIN out' : IsChunk(j)' =>
                        j \in DOMAIN out /\ IsChunk(j) /\ out'[j] = out[j]
<1>1. x \in Items /\ x.kind # "chunk" /\ x.kind # "terminal"
  BY DEF Items
<1>2. /\ DOMAIN out' = 1..(Len(out) + 1) /\ out'[Len(out) + 1] = x
      /\ \A i \in 1..Len(out) : out'[i] = out[i]
      /\ \A i \in 1..(Len(out) + 1) : i \in 1..Len(out) \/ i = Len(out) + 1
      /\ DOMAIN out = 1..Len(out) /\ Len(out) \in Nat
  BY <1>1, ItemAppended, Sequences
<1>3. PICK n : n = Len(out)
  OBVIOUS
<1>4. ~IsChunk(n + 1)' /\ \A i \in 1..n : IsChunk(i)' = IsChunk(i)
  BY <1>1, <1>2, <1>3 DEF IsChunk
<1>5. ASSUME NEW c PROVE Finishes(c)' = Finishes(c)
  <2>1. \A i \in DOMAIN out' : i \in Finishes(c)' => i \in 1..n
    BY <1>1, <1>2, <1>3, <1>4 DEF Finishes
  <2>2. \A i \in 1..n : i \in Finishes(c)' <=> i \in Finishes(c)
    BY <1>1, <1>2, <1>3, <1>4 DEF Finishes
  <2> QED BY <1>2, <1>3, <2>1, <2>2 DEF Finishes
<1> QED BY <1>2, <1>3, <1>4, <1>5

----------------------------------------------------------------------------
(* Every step preserves the invariant                                      *)

\* Nothing has been tried, sent or logged.
LEMMA InitInv == Init => IInv
<1> SUFFICES ASSUME Init PROVE IInv
  OBVIOUS
<1> USE DEF Init
<1>1. out = <<>> /\ DOMAIN out = {} /\ DOMAIN rows = {} /\ Len(out) = 0 /\ Len(withheld) = 0
  OBVIOUS
<1>2. TypeOK
  <2>1. /\ 0 \in 0..Cap /\ 0 \in 0..MaxEvents
        /\ [account |-> None, status |-> "503"]
              \in [account : Accounts \cup {None}, status : Statuses]
        /\ [a \in Accounts |-> "none"] \in [Accounts -> {"none", "ok", "failed"}]
    BY StreamAssumption DEF Statuses
  <2> QED BY <2>1, FreshObserver, EmptySeq DEF TypeOK, Points
<1>3. Attempt
  BY <1>1 DEF Attempt, Open, Asking, Reading, Sending
<1>4. Passed /\ Observes /\ FinishHeld
  BY <1>1 DEF Passed, Observes, FinishHeld, Reading, Sending
<1>5. RowsWait
  BY <1>1 DEF RowsWait, Logged, InHand, Asking, Reading
<1> QED BY <1>2, <1>3, <1>4, <1>5 DEF IInv, RowsDone, ToldWhatIsLogged, Over, Open

\* The row that waited is the only one of its account.
LEMMA PickInv == ASSUME IInv, NEW a \in Accounts, Pick(a) PROVE IInv'
<1> USE DEF Pick, stream
<1>1. TypeOK /\ Attempt /\ RowsWait /\ Asking /\ Open /\ out = <<>> /\ Len(out) = 0
  BY DEF IInv, Asking, Attempt
<1>2. PICK n : n \in Nat /\ n = Len(rows) /\ DOMAIN rows = 1..n
  <2>1. Len(rows) \in Nat /\ DOMAIN rows = 1..Len(rows)
    BY <1>1, Sequences
  <2>2. PICK n : n = Len(rows)
    OBVIOUS
  <2> QED BY <2>1, <2>2
<1>3. a \notin posted
  BY <1>1 DEF TypeOK
<1>4. ASSUME retry = None PROVE TypeOK' /\ RowsWait'
  <2>1. rows' = rows
    BY <1>4
  <2>2. TypeOK'
    BY <1>1, <2>1 DEF TypeOK, Points
  <2>3. RowsWait'
    BY <1>1, <1>3, <1>4, <2>1 DEF RowsWait, Logged, InHand, Asking, Reading
  <2> QED BY <2>2, <2>3
<1>5. ASSUME retry # None PROVE TypeOK' /\ RowsWait'
  <2>1. PICK r : r = Row(retry.account, retry.status, FALSE)
    OBVIOUS
  <2>2. r \in Rows /\ r.account = retry.account /\ ~r.counted /\ rows' = Append(rows, r)
    BY <1>1, <1>5, <2>1 DEF TypeOK, Rows, Row
  <2>3. /\ rows' \in Seq(Rows)
        /\ DOMAIN rows' = 1..(n + 1) /\ rows'[n + 1] = r
        /\ \A i \in 1..n : rows'[i] = rows[i]
        /\ \A i \in 1..(n + 1) : i \in 1..n \/ i = n + 1
    BY <1>1, <1>2, <2>2, RowAppended
  <2>4. TypeOK'
    BY <1>1, <2>3 DEF TypeOK, Points, Rows
  <2>5. Logged = posted \ {r.account} /\ r.account \in posted
    BY <1>1, <1>5, <2>2 DEF RowsWait, InHand
  <2>6. \A i \in 1..n : ~rows[i].counted /\ rows[i].account # r.account
    BY <1>1, <1>2, <2>5 DEF RowsWait, Logged
  <2>7. \A i, j \in 1..n : rows[i].account = rows[j].account => i = j
    BY <1>1, <1>2 DEF RowsWait
  <2>8. ASSUME NEW i \in DOMAIN rows', NEW j \in DOMAIN rows',
               rows'[i].account = rows'[j].account
        PROVE  i = j
    BY <2>3, <2>6, <2>7, <2>8
  <2>9. \A i \in DOMAIN rows' : ~rows'[i].counted
    BY <2>2, <2>3, <2>6
  <2>10. Logged' = posted
    <3>1. n + 1 \in 1..(n + 1) /\ 1..n \subseteq 1..(n + 1)
      BY <1>2
    <3>2. Logged' = Logged \cup {r.account}
      BY <1>2, <2>3, <3>1 DEF Logged
    <3> QED BY <2>5, <3>2
  <2>11. RowsWait'
    BY <1>3, <2>8, <2>9, <2>10 DEF RowsWait, InHand, Asking, Reading
  <2> QED BY <2>4, <2>11
<1>6. Attempt'
  BY <1>1 DEF Attempt, Open, Asking, Reading, Sending, TypeOK
<1>7. Passed' /\ Observes' /\ FinishHeld'
  BY <1>1 DEF Passed, Observes, FinishHeld, Reading, Sending
<1> QED BY <1>1, <1>4, <1>5, <1>6, <1>7 DEF IInv, RowsDone, ToldWhatIsLogged, Over, Open

\* The final row of a request that failed, and the way to the error.
LEMMA FailingInv ==
    ASSUME IInv, Asking \/ Reading, NEW r \in Rows, r.counted,
           rows' = Append(rows, r), at' = "failing",
           last' = [account |-> r.account, status |-> r.status],
           UNCHANGED <<account, tried, attempt, stream, out, retry, outcome, posted>>,
           health' \in [Accounts -> {"none", "ok", "failed"}],
           \A a \in Accounts : health'[a] = "ok" => health[a] = "ok",
           IF InHand = {} THEN r.account \notin posted ELSE InHand = {r.account}
    PROVE  IInv'
<1>1. TypeOK /\ Attempt /\ RowsWait /\ FinishHeld /\ Open
  BY DEF IInv, Attempt, Asking, Reading
<1>2. /\ rows' # <<>> /\ Len(rows') \in DOMAIN rows' /\ rows'[Len(rows')] = r
      /\ \A i \in DOMAIN rows' : rows'[i].counted <=> i = Len(rows')
      /\ \A a \in posted : \E k \in DOMAIN rows' :
            \A i \in DOMAIN rows' : rows'[i].account = a <=> i = k
  BY FinalRow DEF Rows
<1>3. TypeOK'
  <2>1. rows' \in Seq(Rows)
    BY <1>1, RowAppended
  <2>2. last' \in [account : Accounts \cup {None}, status : Statuses]
    BY DEF Rows
  <2> QED BY <1>1, <2>1, <2>2 DEF TypeOK, Points, stream, Rows
<1>4. Attempt'
  BY <1>1 DEF Attempt, Open, Asking, Reading, Sending, IsChunk
<1>5. Passed' /\ Observes' /\ FinishHeld' /\ RowsWait' /\ Over'
  BY <1>1 DEF Passed, Observes, FinishHeld, RowsWait, Asking, Reading, Sending, Open, Over
<1>6. RowsDone'
  <2>1. PICK n : n = Len(rows')
    OBVIOUS
  <2>2. \E k \in DOMAIN rows' : \A i \in DOMAIN rows' : rows'[i].counted <=> i = k
    BY <1>2, <2>1
  <2>3. outcome' # "limited"
    BY <1>1 DEF Open
  <2> QED BY <1>2, <2>2, <2>3 DEF RowsDone
<1>7. ToldWhatIsLogged'
  <2>1. PICK k \in DOMAIN rows' : k = Len(rows')
    BY <1>2
  <2>2. k \in Counted' /\ rows'[k] = r
    BY <1>2, <2>1 DEF Counted
  <2>3. rows'[k].account = last'.account /\ rows'[k].status = last'.status
    BY <2>2
  <2> QED BY <2>2, <2>3 DEF ToldWhatIsLogged
<1> QED BY <1>3, <1>4, <1>5, <1>6, <1>7 DEF IInv

\* The row that waited, or one for an account that was not asked, is final.
LEMMA GiveUpInv == ASSUME IInv, GiveUp PROVE IInv'
<1>1. TypeOK /\ RowsWait /\ Asking
  BY DEF IInv, Asking, GiveUp
<1>2. PICK final : /\ final = IF retry = None THEN [account |-> account, status |-> last.status]
                                              ELSE retry
                   /\ rows' = Append(rows, Row(final.account, final.status, TRUE))
  BY DEF GiveUp
<1>3. final = last
  BY <1>1, <1>2 DEF GiveUp, RowsWait, TypeOK
<1>4. PICK r : r = Row(final.account, final.status, TRUE)
  OBVIOUS
<1>5. r \in Rows /\ r.counted /\ r.account = final.account /\ r.status = final.status
  BY <1>1, <1>3, <1>4 DEF Row, Rows, TypeOK
<1>6. last' = [account |-> r.account, status |-> r.status]
  BY <1>1, <1>3, <1>5 DEF GiveUp, TypeOK
<1>7. IF InHand = {} THEN r.account \notin posted ELSE InHand = {r.account}
  BY <1>1, <1>2, <1>5 DEF GiveUp, InHand, RowsWait
<1> QED BY <1>1, <1>2, <1>4, <1>5, <1>6, <1>7, FailingInv DEF GiveUp, loop, TypeOK

\* The account is passed over without a row.
LEMMA NoHeadersInv == ASSUME IInv, NoHeaders PROVE IInv'
<1> USE DEF NoHeaders, stream
<1>1. TypeOK /\ Attempt /\ RowsWait /\ Asking /\ Open /\ out = <<>> /\ account \in Accounts
  BY DEF IInv, Asking, Attempt, TypeOK
<1>2. TypeOK'
  <2>1. attempt + 1 \in 0..Cap
    BY <1>1, StreamAssumption DEF Attempt, TypeOK
  <2>2. [account |-> account, status |-> "401"]
           \in [account : Accounts \cup {None}, status : Statuses]
    BY <1>1 DEF Statuses
  <2> QED BY <1>1, <2>1, <2>2 DEF TypeOK, Points
<1>3. Attempt'
  BY <1>1 DEF Attempt, Open, Asking, Reading, Sending, TypeOK
<1>4. Passed' /\ Observes' /\ FinishHeld'
  BY <1>1 DEF Passed, Observes, FinishHeld, Reading, Sending, IInv, Asking
<1>5. RowsWait'
  BY <1>1 DEF RowsWait, Logged, InHand, Asking, Reading
<1> QED BY <1>1, <1>2, <1>3, <1>4, <1>5 DEF IInv, RowsDone, ToldWhatIsLogged, Over, Open

\* The account is not asked: the request is given up without a row.
LEMMA SlotRefusedInv == ASSUME IInv, SlotRefused PROVE IInv'
<1> USE DEF SlotRefused, loop, stream
<1>1. TypeOK /\ Attempt /\ RowsWait /\ Asking /\ Open /\ out = <<>>
  BY DEF IInv, Asking, Attempt
<1>2. TypeOK'
  BY <1>1 DEF TypeOK, Points
<1>3. Attempt'
  BY <1>1 DEF Attempt, Open, Asking, Reading, Sending
<1>4. Passed' /\ Observes' /\ FinishHeld'
  BY <1>1 DEF Passed, Observes, FinishHeld, Reading, Sending, IInv, Asking
<1>5. RowsWait'
  BY <1>1 DEF RowsWait, Logged, InHand, Asking, Reading
<1> QED BY <1>1, <1>2, <1>3, <1>4, <1>5 DEF IInv, RowsDone, ToldWhatIsLogged, Over, Open

\* The account is asked: its row is due.
LEMMA PostInv == ASSUME IInv, Post PROVE IInv'
<1> USE DEF Post, loop
<1>1. /\ TypeOK /\ Attempt /\ RowsWait /\ Asking /\ Open /\ out = <<>> /\ Len(out) = 0
      /\ account \in tried /\ account \notin posted /\ retry = None
  BY DEF IInv, Asking, Attempt, RowsWait
<1>2. TypeOK'
  BY <1>1, FreshObserver, EmptySeq, StreamAssumption DEF TypeOK, Points
<1>3. Attempt'
  BY <1>1 DEF Attempt, Open, Asking, Reading, Sending
<1>4. Passed' /\ Observes' /\ FinishHeld'
  <2>1. Len(accepted') = 0 /\ Len(withheld') = 0 /\ Len(out') = 0
    BY <1>1
  <2> QED BY <1>1, <2>1, FreshObserver DEF Passed, Observes, FinishHeld, Reading, Sending
<1>5. RowsWait'
  BY <1>1 DEF RowsWait, Logged, InHand, Asking, Reading
<1> QED BY <1>1, <1>2, <1>3, <1>4, <1>5 DEF IInv, RowsDone, ToldWhatIsLogged, Over, Open

\* An attempt that failed either waits for a successor with nothing sent, or
\* was the last.
LEMMA FailWithInv ==
    ASSUME IInv, at = "posting" \/ Reading, NEW status \in Statuses, NEW again \in BOOLEAN,
           FailWith(status, again), again => MoreAttempts /\ out = <<>>,
           Blame \/ UNCHANGED health
    PROVE  IInv'
<1> USE DEF stream
<1>1. /\ TypeOK /\ Attempt /\ RowsWait /\ Open /\ account \in Accounts
      /\ account \in posted /\ InHand = {account}
  BY DEF IInv, Attempt, Reading, TypeOK, RowsWait, InHand, Asking
<1>2. /\ health' \in [Accounts -> {"none", "ok", "failed"}]
      /\ \A a \in Accounts : health'[a] = "ok" => health[a] = "ok"
  BY <1>1 DEF Blame, TypeOK
<1>3. ASSUME ~again PROVE IInv'
  <2>1. PICK r : r = Row(account, status, TRUE)
    OBVIOUS
  <2>2. r \in Rows /\ r.counted /\ r.account = account /\ r.status = status
    BY <1>1, <2>1 DEF Row, Rows
  <2>3. /\ rows' = Append(rows, r) /\ at' = "failing"
        /\ last' = [account |-> r.account, status |-> r.status]
        /\ UNCHANGED <<account, tried, attempt, stream, out, retry, outcome, posted>>
    BY <1>3, <2>1, <2>2 DEF FailWith
  <2>4. Asking \/ Reading
    BY DEF Asking
  <2>5. IF InHand = {} THEN r.account \notin posted ELSE InHand = {r.account}
    BY <1>1, <2>2
  <2> QED BY <1>2, <2>2, <2>3, <2>4, <2>5, FailingInv
<1>4. ASSUME again PROVE IInv'
  <2>1. /\ at' = "picking" /\ attempt' = attempt + 1 /\ out = <<>> /\ rows' = rows
        /\ retry' = [account |-> account, status |-> status] /\ last' = retry'
        /\ UNCHANGED <<account, tried, stream, out, outcome, posted>>
    BY <1>4 DEF FailWith
  <2>2. retry' \in [account : Accounts, status : Statuses] /\ retry' # None
        /\ last' \in [account : Accounts \cup {None}, status : Statuses]
        /\ retry'.account = account
    BY <1>1, <2>1, StreamAssumption
  <2>3. attempt' \in 0..Cap
    BY <1>1, <1>4, <2>1, StreamAssumption DEF TypeOK, MoreAttempts
  <2>4. TypeOK'
    BY <1>1, <1>2, <2>1, <2>2, <2>3 DEF TypeOK, Points
  <2>5. Attempt'
    BY <1>1, <1>2, <2>1 DEF Attempt, Open, Asking, Reading, Sending
  <2>6. Passed' /\ Observes' /\ FinishHeld'
    BY <2>1 DEF Passed, Observes, FinishHeld, Reading, Sending, IInv, Open
  <2>7. RowsWait'
    <3>1. Asking \/ Reading
      BY DEF Asking
    <3>2. InHand' = {account} /\ Logged' = Logged
      BY <2>1, <2>2 DEF InHand, Logged
    <3> QED BY <1>1, <2>1, <2>2, <3>1, <3>2 DEF RowsWait
  <2> QED BY <1>1, <2>1, <2>4, <2>5, <2>6, <2>7
          DEF IInv, RowsDone, ToldWhatIsLogged, Over, Open
<1> QED BY <1>3, <1>4

\* A refusal, a broken connection, an answer that is not whole.
LEMMA FailureInv == ASSUME IInv, Refused \/ Disconnect \/ Incomplete PROVE IInv'
<1>1. TypeOK /\ (at = "posting" => out = <<>>)
  BY DEF IInv, Attempt, Asking
<1>2. CASE Refused
  <2>1. at = "posting" /\ MoreAttempts \in BOOLEAN
    BY <1>1, <1>2 DEF Refused, MoreAttempts
  <2>2. CASE FailWith("400", FALSE) /\ UNCHANGED health
    BY <2>1, <2>2, FailWithInv DEF Statuses
  <2>3. CASE FailWith("http", MoreAttempts) /\ Blame
    BY <1>1, <2>1, <2>3, FailWithInv DEF Statuses
  <2>4. CASE FailWith("http", FALSE) /\ Blame
    BY <2>1, <2>4, FailWithInv DEF Statuses
  <2> QED BY ONLY <1>2, <2>2, <2>3, <2>4, Zenon DEF Refused
<1>3. CASE Disconnect \/ Incomplete
  <2>1. at = "posting" \/ Reading
    BY <1>3 DEF Disconnect, Incomplete, Reading
  <2>2. FailWith("502", MayRetry) /\ Blame /\ MayRetry \in BOOLEAN
    BY <1>3 DEF Disconnect, Incomplete, MayRetry, MoreAttempts
  <2>3. MayRetry => MoreAttempts /\ out = <<>>
    BY DEF MayRetry, Started
  <2> QED BY <2>1, <2>2, <2>3, FailWithInv DEF Statuses
<1> QED BY <1>2, <1>3

\* The answer begins, the body ends, nothing is left in the decoder.
LEMMA MovesOnInv ==
    ASSUME IInv, at = "posting" \/ Reading, at' \in {"reading", "flushing", "judging"},
           UNCHANGED <<loop, stream, out, retry, last, rows, health, outcome, posted>>
    PROVE  IInv'
<1> USE DEF loop, stream
<1>1. /\ TypeOK /\ Attempt /\ Passed /\ Observes /\ FinishHeld /\ RowsWait
      /\ at = "posting" \/ Reading
      /\ Open
  BY DEF IInv, Reading, Attempt
<1>2. TypeOK'
  BY <1>1 DEF TypeOK, Points
<1>3. Attempt'
  BY <1>1 DEF Attempt, Open, Asking, Reading, Sending, IsChunk
<1>4. Passed' /\ Observes' /\ FinishHeld'
  BY <1>1 DEF Passed, Observes, FinishHeld, Reading, Sending, Open, Closed
<1>5. RowsWait'
  BY <1>1 DEF RowsWait, Logged, InHand, Asking, Reading
<1> QED BY <1>1, <1>2, <1>3, <1>4, <1>5
        DEF IInv, RowsDone, ToldWhatIsLogged, Over, Open

----------------------------------------------------------------------------
(* One event of the stream                                                 *)

\* A chunk accepted joins what was accepted; the observer knows what finished.
LEMMA ChunkObserved ==
    ASSUME TypeOK, Observes, Reading, NEW d \in Deltas, ~Breaks(observer, d),
           accepted' = Append(accepted, d),
           \A c \in Choices : Closed(observer', c) <=> Closed(Observed(observer, d), c)
    PROVE  /\ accepted' \in Seq(Deltas) /\ Len(accepted') = Len(accepted) + 1
           /\ accepted'[Len(accepted) + 1] = d
           /\ \A i \in 1..Len(accepted) : accepted'[i] = accepted[i]
           /\ \A c \in Choices :
                 Closed(observer', c)
                   <=> \E i \in 1..Len(accepted') : accepted'[i].choice = c /\ Ends(accepted'[i])
           /\ \A i, j \in 1..Len(accepted') :
                 i < j /\ Ends(accepted'[i]) /\ accepted'[i].choice # None
                   => accepted'[j].choice # accepted'[i].choice
<1>1. PICK n : n = Len(accepted)
  OBVIOUS
<1>2. n \in Nat /\ accepted \in Seq(Deltas) /\ observer \in Observers
      /\ \A i \in 1..n : accepted[i] \in Deltas
  BY <1>1, Sequences DEF TypeOK
<1>3. accepted' \in Seq(Deltas) /\ Len(accepted') = n + 1 /\ accepted'[n + 1] = d
      /\ \A i \in 1..n : accepted'[i] = accepted[i]
  BY <1>1, <1>2, AppendProperties
<1>4. /\ \A i \in 1..(n + 1) : i \in 1..n \/ i = n + 1
      /\ n + 1 \in 1..(n + 1) /\ 1..n \subseteq 1..(n + 1)
  BY <1>2
<1>5. /\ \A c \in Choices : Closed(observer, c)
            <=> \E i \in 1..n : accepted[i].choice = c /\ Ends(accepted[i])
      /\ \A i, j \in 1..n : i < j /\ Ends(accepted[i]) /\ accepted[i].choice # None
            => accepted[j].choice # accepted[i].choice
  BY <1>1 DEF Observes
<1>6. /\ d.choice \in Choices => ~Closed(observer, d.choice)
      /\ \A c \in Choices : Closed(observer', c)
            <=> Closed(observer, c) \/ (d.choice = c /\ Ends(d))
  BY <1>2, ObservedChunk
<1>7. ASSUME NEW c \in Choices
      PROVE  Closed(observer', c)
               <=> \E i \in 1..(n + 1) : accepted'[i].choice = c /\ Ends(accepted'[i])
  <2>1. (\E i \in 1..(n + 1) : accepted'[i].choice = c /\ Ends(accepted'[i]))
           <=> \/ \E i \in 1..n : accepted[i].choice = c /\ Ends(accepted[i])
               \/ d.choice = c /\ Ends(d)
    BY <1>3, <1>4
  <2> QED BY <1>5, <1>6, <2>1
<1>8. ASSUME NEW i \in 1..(n + 1), NEW j \in 1..(n + 1),
             i < j, Ends(accepted'[i]), accepted'[i].choice # None
      PROVE  accepted'[j].choice # accepted'[i].choice
  <2>1. i \in 1..n /\ accepted'[i] = accepted[i]
    BY <1>2, <1>3, <1>8
  <2>2. CASE j \in 1..n
    BY <1>3, <1>5, <1>8, <2>1, <2>2
  <2>3. CASE j = n + 1
    <3>1. accepted[i].choice \in Choices
      BY <1>2, <1>8, <2>1, StreamAssumption
    <3>2. Closed(observer, accepted[i].choice)
      BY <1>5, <1>8, <2>1, <3>1
    <3> QED BY <1>3, <1>6, <2>1, <2>3, <3>1, <3>2
  <2> QED BY <1>4, <2>2, <2>3
<1> QED BY <1>1, <1>3, <1>7, <1>8

\* What an event may change, and what still holds of it.
Told == /\ observer' \in Observers
        /\ withheld' \in Seq(Deltas) /\ accepted' \in Seq(Deltas) /\ out' \in Seq(Items)
        /\ \A i \in DOMAIN out' : out'[i].kind = "chunk" /\ out'[i].account = account
                                  /\ ~Ends(out'[i].delta)
        /\ Len(accepted') = Len(out') + Len(withheld')
        /\ \A i \in 1..Len(out') : accepted'[i] = out'[i].delta
        /\ \A i \in 1..Len(withheld') : accepted'[Len(out') + i] = withheld'[i]
        /\ \A c \in Choices :
              Closed(observer', c)
                <=> \E i \in 1..Len(accepted') : accepted'[i].choice = c /\ Ends(accepted'[i])
        /\ \A i, j \in 1..Len(accepted') :
              i < j /\ Ends(accepted'[i]) /\ accepted'[i].choice # None
                => accepted'[j].choice # accepted'[i].choice

\* An event that is not passed on leaves the stream as it is.
LEMMA SilentTold ==
    ASSUME IInv, Reading, UNCHANGED <<withheld, accepted, out>>,
           observer' \in Observers, observer'.finish = observer.finish
    PROVE  Told
<1>1. /\ TypeOK /\ Attempt /\ Passed /\ Observes /\ FinishHeld /\ Open /\ ~Sending
  BY DEF IInv, Reading, Attempt, Sending
<1>2. \A c \in Choices : Closed(observer', c) <=> Closed(observer, c)
  BY DEF Closed
<1>3. \A i \in DOMAIN out : out[i].kind = "chunk" /\ out[i].account = account
                            /\ ~Ends(out[i].delta)
  BY <1>1, Sequences DEF Attempt, FinishHeld, IsChunk
<1>4. /\ withheld' = withheld /\ withheld \in Seq(Deltas)
      /\ accepted' = accepted /\ accepted \in Seq(Deltas)
      /\ out' = out /\ out \in Seq(Items)
  BY <1>1 DEF TypeOK
<1>5. /\ Len(accepted') = Len(out') + Len(withheld')
      /\ \A i \in 1..Len(out') : accepted'[i] = out'[i].delta
      /\ \A i \in 1..Len(withheld') : accepted'[Len(out') + i] = withheld'[i]
  BY <1>1, <1>4 DEF Passed
<1>6. /\ \A c \in Choices :
            Closed(observer', c)
              <=> \E i \in 1..Len(accepted') : accepted'[i].choice = c /\ Ends(accepted'[i])
      /\ \A i, j \in 1..Len(accepted') :
            i < j /\ Ends(accepted'[i]) /\ accepted'[i].choice # None
              => accepted'[j].choice # accepted'[i].choice
  BY <1>1, <1>2, <1>4 DEF Observes
<1> QED BY <1>3, <1>4, <1>5, <1>6 DEF Told

\* A chunk passed on or held back.
LEMMA ForwardTold ==
    ASSUME IInv, Reading, NEW d \in Deltas, ~Breaks(observer, d), Forward(d)
    PROVE  Told
<1>1. /\ TypeOK /\ Attempt /\ Passed /\ Observes /\ FinishHeld /\ Open /\ ~Sending
      /\ account \in Accounts
  BY DEF IInv, Reading, Attempt, Sending, TypeOK
<1>2. PICK o \in Observers : o = Observed(observer, d)
  BY <1>1, ObservedChunk DEF TypeOK
<1>3. accepted' = Append(accepted, d)
  BY DEF Forward
<1>4. PICK n, m, k : n = Len(accepted) /\ m = Len(out) /\ k = Len(withheld)
  OBVIOUS
<1>5. /\ n \in Nat /\ m \in Nat /\ k \in Nat /\ n = m + k
      /\ DOMAIN out = 1..m
      /\ \A i \in 1..m : accepted[i] = out[i].delta
      /\ \A i \in 1..k : accepted[m + i] = withheld[i]
  BY <1>1, <1>4, Sequences DEF Passed
<1>6. \A i \in 1..m : out[i].kind = "chunk" /\ out[i].account = account
                      /\ ~Ends(out[i].delta)
  BY <1>1, <1>4, <1>5 DEF Attempt, FinishHeld, IsChunk
<1>7. /\ observer' \in Observers /\ observer'.finish = o.finish
  <2>1. CASE Held(d)
    <3>1. observer' = [o EXCEPT !.bad = Len(withheld) >= MaxWithheld]
      BY <1>2, <2>1 DEF Forward
    <3>2. (Len(withheld) >= MaxWithheld) \in BOOLEAN
      OBVIOUS
    <3> QED BY <1>2, <3>1, <3>2 DEF Observers
  <2>2. CASE ~Held(d)
    BY <1>2, <2>2 DEF Forward
  <2> QED BY <2>1, <2>2
<1>8. \A c \in Choices : Closed(observer', c) <=> Closed(Observed(observer, d), c)
  BY <1>2, <1>7 DEF Closed
<1>9. /\ accepted' \in Seq(Deltas) /\ Len(accepted') = n + 1 /\ accepted'[n + 1] = d
      /\ \A i \in 1..n : accepted'[i] = accepted[i]
  BY <1>1, <1>3, <1>4, <1>8, ChunkObserved
<1>10. /\ \A c \in Choices : Closed(observer', c)
            <=> \E i \in 1..Len(accepted') : accepted'[i].choice = c /\ Ends(accepted'[i])
      /\ \A i, j \in 1..Len(accepted') :
            i < j /\ Ends(accepted'[i]) /\ accepted'[i].choice # None
              => accepted'[j].choice # accepted'[i].choice
  BY <1>1, <1>3, <1>8, ChunkObserved
<1>11. CASE Held(d)
  <2>1. out' = out /\ withheld' = Append(withheld, d)
    BY <1>11 DEF Forward
  <2>2. /\ withheld' \in Seq(Deltas) /\ Len(withheld') = k + 1 /\ withheld'[k + 1] = d
        /\ \A i \in 1..k : withheld'[i] = withheld[i]
    BY <1>1, <1>4, <2>1, AppendProperties DEF TypeOK
  <2>3. \A i \in 1..m : accepted'[i] = out[i].delta
    BY <1>5, <1>9
  <2>4. ASSUME NEW i \in 1..(k + 1) PROVE accepted'[m + i] = withheld'[i]
    <3>1. CASE i \in 1..k
      BY <1>5, <1>9, <2>2, <3>1
    <3>2. CASE i = k + 1
      BY <1>5, <1>9, <2>2, <3>2
    <3> QED BY <1>5, <3>1, <3>2
  <2>5. Len(accepted') = m + (k + 1)
    BY <1>5, <1>9
  <2> QED BY <1>1, <1>4, <1>5, <1>6, <1>7, <1>9, <1>10, <2>1, <2>2, <2>3, <2>4, <2>5
          DEF Told, TypeOK
<1>12. CASE ~Held(d)
  <2>1. PICK x : x = Chunk(account, d)
    OBVIOUS
  <2>2. /\ x \in Items /\ x.kind = "chunk" /\ x.account = account /\ x.delta = d /\ ~Ends(d)
        /\ out' = Append(out, x) /\ withheld' = withheld /\ k = 0
    <3>1. withheld = <<>> /\ ~Ends(d)
      BY <1>12 DEF Held
    <3>2. k = 0
      BY <1>4, <3>1
    <3> QED BY <1>1, <1>12, <2>1, <3>1, <3>2 DEF Forward, Chunk, Items
  <2>3. /\ out' \in Seq(Items) /\ DOMAIN out' = 1..(m + 1) /\ Len(out') = m + 1
        /\ out'[m + 1] = x
        /\ \A i \in 1..m : out'[i] = out[i]
        /\ \A i \in 1..(m + 1) : i \in 1..m \/ i = m + 1
    BY <1>1, <1>4, <2>2, ItemAppended
  <2>4. \A i \in 1..(m + 1) : /\ out'[i].kind = "chunk" /\ out'[i].account = account
                              /\ ~Ends(out'[i].delta)
    BY <1>6, <2>2, <2>3
  <2>5. \A i \in 1..(m + 1) : accepted'[i] = out'[i].delta
    BY <1>5, <1>9, <2>2, <2>3
  <2>6. Len(accepted') = (m + 1) + k /\ Len(withheld') = k /\ 1..k = {}
    BY <1>4, <1>5, <1>9, <2>2
  <2> QED BY <1>1, <1>7, <1>9, <1>10, <2>2, <2>3, <2>4, <2>5, <2>6 DEF Told, TypeOK
<1> QED BY <1>11, <1>12

\* Every event.
LEMMA EventTold == ASSUME IInv, Reading, Event PROVE Told
<1>1. observer \in Observers
  BY DEF IInv, TypeOK
<1>2. CASE Reject
  <2>1. observer' = [observer EXCEPT !.bad = TRUE] /\ UNCHANGED <<withheld, accepted, out>>
    BY <1>2 DEF Reject
  <2>2. observer' \in Observers /\ observer'.finish = observer.finish
    BY <1>1, <2>1 DEF Observers
  <2> QED BY <2>1, <2>2, SilentTold
<1>3. ASSUME NEW flag \in {"error", "done"}, observer' = [observer EXCEPT ![flag] = TRUE],
             UNCHANGED <<withheld, accepted, out>>
      PROVE  Told
  <2>1. \/ observer' = [observer EXCEPT !.error = TRUE]
        \/ observer' = [observer EXCEPT !.done = TRUE]
    BY <1>3
  <2>2. observer' \in Observers /\ observer'.finish = observer.finish
    BY <1>1, <2>1 DEF Observers
  <2> QED BY <1>3, <2>2, SilentTold
<1>4. ASSUME NEW d \in Deltas, IF Breaks(observer, d) THEN Reject ELSE Forward(d)
      PROVE  Told
  BY <1>2, <1>4, ForwardTold
<1> QED BY <1>2, <1>3, <1>4 DEF Event

\* An event read leaves the stream in order and no finish sent.
LEMMA EventInv ==
    ASSUME IInv, Reading, Event, events < MaxEvents, events' = events + 1,
           at' \in {"reading", "judging"},
           UNCHANGED <<loop, retry, last, rows, health, outcome, posted>>
    PROVE  IInv'
<1> USE DEF loop
<1>1. /\ TypeOK /\ Attempt /\ RowsWait /\ Open /\ Told /\ account \in Accounts
  BY EventTold DEF IInv, Reading, Attempt, TypeOK
<1>2. TypeOK'
  BY <1>1, StreamAssumption DEF TypeOK, Points, Told
<1>3. Attempt'
  BY <1>1 DEF Attempt, Open, Asking, Reading, Sending, IsChunk, Told
<1>4. DOMAIN out' = 1..Len(out')
  BY <1>1, LenProperties DEF Told
<1>5. Passed' /\ Observes' /\ FinishHeld'
  BY <1>1, <1>4 DEF Passed, Observes, FinishHeld, Reading, Sending, Told, Closed
<1>6. RowsWait'
  BY <1>1 DEF RowsWait, Logged, InHand, Asking, Reading
<1> QED BY <1>1, <1>2, <1>3, <1>5, <1>6 DEF IInv, RowsDone, ToldWhatIsLogged, Over, Open

\* Reading.
LEMMA ReadingInv == ASSUME IInv, Accept \/ Eof \/ Read \/ Flush PROVE IInv'
<1>1. CASE Accept \/ Eof
  BY <1>1, MovesOnInv DEF Accept, Eof, Reading
<1>2. CASE Read
  BY <1>2, EventInv DEF Read, Reading
<1>3. CASE Flush
  <2>1. CASE UNCHANGED <<stream, out>>
    BY <1>3, <2>1, MovesOnInv DEF Flush, Reading
  <2>2. CASE events < MaxEvents /\ Event /\ events' = events + 1
    BY <1>3, <2>2, EventInv DEF Flush, Reading
  <2> QED BY <1>3, <2>1, <2>2 DEF Flush
<1> QED BY <1>1, <1>2, <1>3

----------------------------------------------------------------------------
(* The verdict, and what follows it                                        *)

\* The credit and the counted row come before the first finish.
LEMMA WholeInv == ASSUME IInv, Whole PROVE IInv'
<1> USE DEF Whole, loop, stream
<1>1. /\ TypeOK /\ Attempt /\ Passed /\ Observes /\ FinishHeld /\ RowsWait /\ Open /\ Reading
      /\ account \in Accounts /\ account \in posted /\ InHand = {account}
      /\ at' \in {"releasing", "failing"}
  BY DEF IInv, Reading, Attempt, TypeOK, RowsWait, InHand
<1>2. PICK r : r = Row(account, "200", TRUE)
  OBVIOUS
<1>3. r \in Rows /\ r.counted /\ r.account = account /\ r.status = "200" /\ rows' = Append(rows, r)
  BY <1>1, <1>2 DEF Row, Rows, Statuses
<1>4. /\ rows' # <<>> /\ Len(rows') \in DOMAIN rows' /\ rows'[Len(rows')] = r
      /\ \A i \in DOMAIN rows' : rows'[i].counted <=> i = Len(rows')
      /\ \A a \in posted : \E k \in DOMAIN rows' :
            \A i \in DOMAIN rows' : rows'[i].account = a <=> i = k
  BY <1>1, <1>3, FinalRow DEF Rows
<1>5. TypeOK'
  <2>1. rows' \in Seq(Rows)
    BY <1>1, <1>3, RowAppended
  <2> QED BY <1>1, <2>1 DEF TypeOK, Points, Rows
<1>6. Attempt'
  <2>1. health'[account] = "ok" /\ \A a \in Accounts : health'[a] = "ok" => a = account
    BY <1>1 DEF TypeOK, Attempt
  <2>2. rows' # <<>> /\ rows'[Len(rows')] = Row(account, "200", TRUE)
    BY <1>2, <1>4
  <2>3. (~EofError(observer))'
    BY DEF EofError, Unfinished, Opened
  <2> QED BY <1>1, <2>1, <2>2, <2>3 DEF Attempt, Open, Asking, Reading, Sending, IsChunk
<1>7. Passed' /\ Observes' /\ FinishHeld'
  BY <1>1 DEF Passed, Observes, FinishHeld, Reading, Sending, Open, Closed
<1>8. RowsDone'
  <2>1. PICK n : n = Len(rows')
    OBVIOUS
  <2>2. \E k \in DOMAIN rows' : \A i \in DOMAIN rows' : rows'[i].counted <=> i = k
    BY <1>4, <2>1
  <2>3. outcome' # "limited"
    BY <1>1 DEF Open
  <2> QED BY <1>4, <2>2, <2>3 DEF RowsDone
<1>9. ToldWhatIsLogged'
  BY <1>3, <1>4 DEF ToldWhatIsLogged
<1> QED BY <1>1, <1>5, <1>6, <1>7, <1>8, <1>9
        DEF IInv, RowsWait, Asking, Reading, Over, Open

\* What was held back goes out in its order.
LEMMA ReleaseInv == ASSUME IInv, Release PROVE IInv'
<1> USE DEF Release, loop
<1>1. /\ TypeOK /\ Attempt /\ Passed /\ Observes /\ RowsDone /\ Open /\ Sending
      /\ account \in Accounts /\ ~EofError(observer)
      /\ UNCHANGED <<account, observer, accepted, health, rows, outcome, posted>>
  BY DEF IInv, Sending, Attempt, TypeOK
<1>2. CASE withheld = <<>>
  <2>1. at' = "terminal" /\ UNCHANGED <<withheld, out>>
    BY <1>2
  <2>2. TypeOK'
    BY <1>1, <2>1 DEF TypeOK, Points
  <2>3. Attempt'
    BY <1>1, <2>1 DEF Attempt, Open, Asking, Reading, Sending, IsChunk, EofError, Unfinished, Opened
  <2>4. Passed' /\ Observes' /\ FinishHeld' /\ RowsDone'
    BY <1>1, <1>2, <2>1 DEF Passed, Observes, FinishHeld, RowsDone, Reading, Sending, Closed
  <2> QED BY <1>1, <2>1, <2>2, <2>3, <2>4
          DEF IInv, RowsWait, Asking, Reading, Over, Open, ToldWhatIsLogged
<1>3. CASE withheld # <<>>
  <2>1. PICK n, m, k : n = Len(accepted) /\ m = Len(out) /\ k = Len(withheld)
    OBVIOUS
  <2>2. /\ n \in Nat /\ m \in Nat /\ k \in Nat /\ n = m + k /\ DOMAIN out = 1..m
        /\ \A i \in 1..m : accepted[i] = out[i].delta
        /\ \A i \in 1..k : accepted[m + i] = withheld[i]
    BY <1>1, <2>1, Sequences DEF Passed
  <2>3. PICK d : d = Head(withheld)
    OBVIOUS
  <2>4. /\ d \in Deltas /\ d = withheld[1] /\ k # 0
        /\ withheld' \in Seq(Deltas) /\ Len(withheld') = k - 1
        /\ \A i \in 1..(k - 1) : withheld'[i] = withheld[i + 1]
    <3>1. withheld \in Seq(Deltas)
      BY <1>1 DEF TypeOK
    <3>2. withheld' = Tail(withheld)
      BY <1>3
    <3> QED BY <1>3, <2>1, <2>3, <3>1, <3>2, HeadTailProperties, EmptySeq
  <2>5. PICK x : x = Chunk(account, d)
    OBVIOUS
  <2>6. /\ x \in Items /\ x.kind = "chunk" /\ x.account = account /\ x.delta = d
        /\ out' = Append(out, x)
    BY <1>1, <1>3, <2>3, <2>4, <2>5 DEF Chunk, Items
  <2>7. /\ out' \in Seq(Items) /\ DOMAIN out' = 1..(m + 1) /\ Len(out') = m + 1
        /\ out'[m + 1] = x
        /\ \A i \in 1..m : out'[i] = out[i]
        /\ \A i \in 1..(m + 1) : i \in 1..m \/ i = m + 1
    BY <1>1, <2>1, <2>6, ItemAppended
  <2>8. TypeOK'
    BY <1>1, <1>3, <2>4, <2>7 DEF TypeOK, Points
  <2>9. \A i \in DOMAIN out' : out'[i].kind = "chunk" /\ out'[i].account = account
    BY <1>1, <2>2, <2>6, <2>7 DEF Attempt, IsChunk
  <2>10. Attempt'
    BY <1>1, <1>3, <2>9
       DEF Attempt, Open, Asking, Reading, Sending, IsChunk, EofError, Unfinished, Opened
  <2>11. Passed'
    <3>1. n = (m + 1) + (k - 1)
      BY <2>2
    <3>2. \A i \in 1..(m + 1) : accepted[i] = out'[i].delta
      BY <2>2, <2>4, <2>6, <2>7
    <3>3. ASSUME NEW i \in 1..(k - 1) PROVE accepted[(m + 1) + i] = withheld'[i]
      <4>1. i + 1 \in 1..k /\ m + (i + 1) = (m + 1) + i
        BY <2>2
      <4> QED BY <2>2, <2>4, <4>1
    <3> QED BY <1>1, <1>3, <2>1, <2>4, <2>7, <3>1, <3>2, <3>3 DEF Passed
  <2>12. Observes' /\ FinishHeld' /\ RowsDone'
    BY <1>1, <1>3 DEF Observes, FinishHeld, RowsDone, Reading, Sending, Closed
  <2> QED BY <1>1, <1>3, <2>8, <2>10, <2>11, <2>12
          DEF IInv, RowsWait, Asking, Reading, Sending, Over, Open, ToldWhatIsLogged
<1> QED BY <1>2, <1>3

\* A choice the observer has closed was finished by one chunk; any other has
\* its finish missing.
LEMMA OneFinish ==
    ASSUME IInv, at = "terminal", NEW c \in Choices
    PROVE  /\ c \notin Missing(observer) => \E k \in DOMAIN out : Finishes(c) = {k}
           /\ c \in Missing(observer) => Finishes(c) = {}
<1>1. /\ TypeOK /\ Attempt /\ Passed /\ Observes /\ Open /\ Sending
      /\ withheld = <<>> /\ ~EofError(observer)
  BY DEF IInv, Sending, Attempt, Passed
<1>2. PICK m : m = Len(out)
  OBVIOUS
<1>3. /\ m \in Nat /\ Len(accepted) = m /\ DOMAIN out = 1..m
      /\ \A i \in 1..m : accepted[i] = out[i].delta /\ IsChunk(i)
  <2>1. Len(withheld) = 0
    BY <1>1
  <2> QED BY <1>1, <1>2, <2>1, Sequences DEF Passed, Attempt
<1>4. \A i : i \in Finishes(c) <=> i \in 1..m /\ accepted[i].choice = c /\ Ends(accepted[i])
  BY <1>3 DEF Finishes, IsChunk
<1>5. Closed(observer, c) <=> Finishes(c) # {}
  <2>1. Closed(observer, c)
          <=> \E i \in 1..m : accepted[i].choice = c /\ Ends(accepted[i])
    BY <1>1, <1>3 DEF Observes
  <2> QED BY <1>4, <2>1
<1>6. ASSUME NEW i \in Finishes(c), NEW j \in Finishes(c) PROVE i = j
  <2>1. ASSUME NEW p \in Finishes(c), NEW q \in Finishes(c) PROVE ~(p < q)
    <3>1. c # None
      BY StreamAssumption
    <3> QED BY <1>1, <1>3, <1>4, <3>1 DEF Observes
  <2>2. i \in 1..m /\ j \in 1..m
    BY <1>4
  <2>3. ~(i < j) /\ ~(j < i)
    BY <2>1
  <2> QED BY <1>3, <2>2, <2>3
<1>7. c \in Missing(observer) <=> ~Closed(observer, c)
  <2>1. observer.finish[c] \in Reasons \cup {"absent", "open"}
    BY <1>1 DEF TypeOK, Observers
  <2>2. observer.finish[c] # "absent"
    BY <1>1 DEF EofError, Unfinished
  <2> QED BY <2>1, <2>2 DEF Missing, Closed, Reasons
<1>8. c \notin Missing(observer) => \E k \in DOMAIN out : Finishes(c) = {k}
  <2>1. SUFFICES ASSUME c \notin Missing(observer)
                 PROVE  \E k \in DOMAIN out : Finishes(c) = {k}
    OBVIOUS
  <2>2. PICK k : k \in Finishes(c)
    BY <1>5, <1>7, <2>1
  <2>3. Finishes(c) = {k} /\ k \in DOMAIN out
    BY <1>3, <1>4, <1>6, <2>2
  <2> QED BY <2>3
<1> QED BY <1>5, <1>7, <1>8

\* The gateway supplies the finishes that are missing and no other.
LEMMA TerminalFinishes ==
    ASSUME IInv, Terminal
    PROVE  /\ TypeOK'
           /\ \A c \in Choices : \E k : Finishes(c)' = {k}
           /\ \A c \in Choices : \A i \in Finishes(c)', j \in DOMAIN out' :
                 j > i /\ IsChunk(j)' => out'[j].delta.choice # c
<1>1. /\ TypeOK /\ Attempt /\ Passed /\ Open /\ Sending /\ at = "terminal"
      /\ account \in Accounts
  BY DEF IInv, Sending, Attempt, TypeOK, Terminal
<1>2. PICK m : m = Len(out)
  OBVIOUS
<1>3. /\ m \in Nat /\ DOMAIN out = 1..m
      /\ \A c \in Choices : \A i \in Finishes(c), j \in 1..m :
            j > i => out[j].delta.choice # c
  BY <1>1, <1>2, Sequences, SendingFinishes
<1>4. CASE Missing(observer) = {}
  <2>1. out' = out
    BY <1>4 DEF Terminal
  <2>2. TypeOK'
    BY <1>1, <2>1 DEF TypeOK, Points, Terminal, loop, stream
  <2>3. /\ \A i : IsChunk(i)' = IsChunk(i)
        /\ \A c : Finishes(c)' = Finishes(c)
    BY <2>1, SameOut
  <2>4. \A c \in Choices : \E k : Finishes(c)' = {k}
    BY <1>1, <1>4, <2>3, OneFinish
  <2> QED BY <1>3, <2>1, <2>2, <2>3, <2>4
<1>5. CASE Missing(observer) # {}
  <2>1. PICK x : x = [kind |-> "terminal", account |-> account, choices |-> Missing(observer)]
    OBVIOUS
  <2>2. /\ x \in Items /\ x.kind = "terminal" /\ x.choices = Missing(observer)
        /\ out' = Append(out, x)
    BY <1>1, <1>5, <2>1 DEF Terminal, Items, Missing
  <2>3. /\ out' \in Seq(Items) /\ DOMAIN out' = 1..(m + 1)
        /\ out'[m + 1] = x
        /\ \A i \in 1..m : out'[i] = out[i]
        /\ \A i \in 1..(m + 1) : i \in 1..m \/ i = m + 1
        /\ m + 1 \in 1..(m + 1) /\ 1..m \subseteq 1..(m + 1)
    BY <1>1, <1>2, <1>3, <2>2, ItemAppended
  <2>4. TypeOK'
    BY <1>1, <2>3 DEF TypeOK, Points, Terminal, loop, stream
  <2>5. ~IsChunk(m + 1)' /\ \A i \in 1..m : IsChunk(i)' = IsChunk(i)
    BY <1>2, <2>2, <2>3 DEF IsChunk
  <2>6. ASSUME NEW c \in Choices
        PROVE  Finishes(c)' = Finishes(c) \cup (IF c \in Missing(observer) THEN {m + 1} ELSE {})
    <3>1. m + 1 \in Finishes(c)' <=> c \in Missing(observer)
      BY <2>2, <2>3, <2>5 DEF Finishes
    <3>2. \A i \in 1..m : i \in Finishes(c)' <=> i \in Finishes(c)
      BY <1>3, <2>3, <2>5 DEF Finishes
    <3>3. Finishes(c) \subseteq 1..m /\ Finishes(c)' \subseteq 1..(m + 1)
      BY <1>3, <2>3 DEF Finishes
    <3>4. m + 1 \notin 1..m
      BY <1>3
    <3> QED BY <2>3, <3>1, <3>2, <3>3, <3>4
  <2>7. ASSUME NEW c \in Choices PROVE \E k : Finishes(c)' = {k}
    BY <1>1, <2>6, OneFinish
  <2>8. ASSUME NEW c \in Choices, NEW i \in Finishes(c)', NEW j \in DOMAIN out',
               j > i, IsChunk(j)'
        PROVE  out'[j].delta.choice # c
    <3>1. j \in 1..m
      BY <2>3, <2>5, <2>8
    <3>2. i \in Finishes(c)
      <4>1. i # m + 1
        BY <1>3, <2>8, <3>1
      <4> QED BY <2>6, <2>8, <4>1
    <3> QED BY <1>3, <2>3, <2>8, <3>1, <3>2
  <2> QED BY <2>4, <2>7, <2>8
<1> QED BY <1>4, <1>5

\* A complete answer has one finish for each choice.
LEMMA TerminalInv == ASSUME IInv, Terminal PROVE IInv'
<1> USE DEF Terminal, loop, stream
<1>1. /\ TypeOK /\ Attempt /\ RowsDone /\ Open /\ Sending /\ TypeOK'
  BY TerminalFinishes DEF IInv, Sending, Attempt
<1>2. Attempt'
  BY <1>1 DEF Attempt, Open, Asking, Reading, Sending
<1>3. RowsDone'
  BY <1>1 DEF RowsDone, Open, Sending
<1>4. CompleteMeansFinished'
  <2>1. ASSUME NEW c \in Choices PROVE Cardinality(Finishes(c)') = 1
    BY TerminalFinishes, FS_Singleton
  <2> QED BY <2>1, TerminalFinishes DEF CompleteMeansFinished
<1>5. FinishIsEarned'
  BY <1>1 DEF FinishIsEarned, Attempt, EofError, Unfinished, Opened
<1> QED BY <1>1, <1>2, <1>3, <1>4, <1>5
        DEF IInv, Passed, Observes, FinishHeld, RowsWait, Asking, Reading, Sending,
            ToldWhatIsLogged, Over, Open

\* The error and the end of the stream promise nothing new.
LEMMA ClosingInv == ASSUME IInv, TellError \/ SendDone PROVE IInv'
<1> USE DEF TellError, SendDone, loop, stream
<1>1. /\ TypeOK /\ Attempt /\ RowsDone /\ at \in {"failing", "closing"}
      /\ CompleteMeansFinished /\ FinishIsEarned
  BY OpenFinishes DEF IInv, Over
<1>2. PICK x \in [kind : {"error", "done"}] : out' = Append(out, x) /\ x \in Items
  BY DEF Items
<1>3. /\ \A c : Finishes(c)' = Finishes(c)
      /\ \A j \in DOMAIN out' : IsChunk(j)' =>
            j \in DOMAIN out /\ IsChunk(j) /\ out'[j] = out[j]
  BY <1>1, <1>2, PlainItem
<1>4. TypeOK'
  <2>1. out' \in Seq(Items)
    BY <1>1, <1>2, ItemAppended
  <2> QED BY <1>1, <2>1 DEF TypeOK, Points
<1>5. Attempt'
  BY <1>1 DEF Attempt, Open, Asking, Reading, Sending
<1>6. RowsDone'
  BY <1>1 DEF RowsDone, Attempt, Open
<1>7. CompleteMeansFinished'
  <2>1. outcome' = "complete" => outcome = "complete"
    OBVIOUS
  <2> QED BY <1>1, <1>3, <2>1 DEF CompleteMeansFinished
<1>8. FinishIsEarned'
  BY <1>1, <1>3 DEF FinishIsEarned, EofError, Unfinished, Opened
<1> QED BY <1>4, <1>5, <1>6, <1>7, <1>8
        DEF IInv, Passed, Observes, FinishHeld, RowsWait, Asking, Reading, Sending,
            ToldWhatIsLogged, Over, Open, Attempt

\* A request that a local queue refused leaves the rows of the accounts asked
\* before it, and none of them counted.
LEMMA TellLimitInv == ASSUME IInv, TellLimit PROVE IInv'
<1> USE DEF TellLimit, loop, stream
<1>1. /\ TypeOK /\ Attempt /\ RowsWait /\ at = "limited" /\ Asking /\ Open
      /\ CompleteMeansFinished /\ FinishIsEarned
  BY OpenFinishes DEF IInv, Asking, Attempt
<1>2. PICK x \in [kind : {"error", "done"}] : out' = Append(out, x) /\ x \in Items
  BY DEF Items
<1>3. /\ \A c : Finishes(c)' = Finishes(c)
      /\ \A j \in DOMAIN out' : IsChunk(j)' =>
            j \in DOMAIN out /\ IsChunk(j) /\ out'[j] = out[j]
  BY <1>1, <1>2, PlainItem
<1>4. TypeOK'
  <2>1. out' \in Seq(Items)
    BY <1>1, <1>2, ItemAppended
  <2> QED BY <1>1, <2>1 DEF TypeOK, Points
<1>5. Attempt'
  BY <1>1 DEF Attempt, Open, Asking, Reading, Sending
<1>6. RowsDone'
  <2>1. \A i \in DOMAIN rows : ~rows[i].counted
    BY <1>1 DEF RowsWait
  <2>2. ASSUME NEW a \in posted
        PROVE  \E k \in DOMAIN rows : \A i \in DOMAIN rows : rows[i].account = a <=> i = k
    <3>1. a \in Logged
      BY <1>1 DEF RowsWait, InHand, Reading
    <3>2. PICK k \in DOMAIN rows : rows[k].account = a
      BY <3>1 DEF Logged
    <3> QED BY <1>1, <3>2 DEF RowsWait
  <2> QED BY <2>1, <2>2 DEF RowsDone
<1>7. CompleteMeansFinished'
  BY <1>1, <1>3 DEF CompleteMeansFinished
<1>8. FinishIsEarned'
  BY <1>1, <1>3 DEF FinishIsEarned, EofError, Unfinished, Opened
<1> QED BY <1>4, <1>5, <1>6, <1>7, <1>8
        DEF IInv, Passed, Observes, FinishHeld, RowsWait, Asking, Reading, Sending,
            ToldWhatIsLogged, Over, Open, Attempt

\* A client that leaves has been promised nothing that is not so.
LEMMA HangupInv == ASSUME IInv, Hangup \/ UNCHANGED vars PROVE IInv'
<1> USE DEF loop, stream
<1>1. CASE UNCHANGED vars
  <2>1. /\ UNCHANGED <<at, account, tried, attempt, observer, events, withheld, accepted>>
        /\ UNCHANGED <<out, retry, last, rows, health, outcome, posted>>
    BY <1>1 DEF vars
  <2>2. /\ \A i : IsChunk(i)' = IsChunk(i)
        /\ \A c : Finishes(c)' = Finishes(c)
    BY <2>1, SameOut
  <2>3. TypeOK' /\ Passed' /\ FinishHeld'
    BY <2>1 DEF IInv, TypeOK, Passed, FinishHeld, Open, Reading, Sending
  <2>4. Attempt'
    BY <2>1, <2>2 DEF IInv, Attempt, Open, Asking, Reading, Sending, EofError, Unfinished, Opened
  <2>5. Observes'
    BY <2>1 DEF IInv, Observes, Reading, Sending, Closed
  <2>6. RowsWait' /\ RowsDone'
    BY <2>1 DEF IInv, RowsWait, RowsDone, Logged, InHand, Asking, Reading
  <2>7. ToldWhatIsLogged'
    BY <2>1 DEF IInv, ToldWhatIsLogged, Counted
  <2>8. Over'
    BY <2>1, <2>2 DEF IInv, Over, Open, CompleteMeansFinished, FinishIsEarned,
                      EofError, Unfinished, Opened
  <2> QED BY <2>3, <2>4, <2>5, <2>6, <2>7, <2>8 DEF IInv
<1>2. CASE Hangup
  <2>1. /\ TypeOK /\ Attempt /\ Open /\ CompleteMeansFinished /\ FinishIsEarned
    BY <1>2, OpenFinishes DEF Hangup, IInv, Attempt
  <2>2. /\ \A i : IsChunk(i)' = IsChunk(i)
        /\ \A c : Finishes(c)' = Finishes(c)
    BY <1>2, SameOut DEF Hangup
  <2>3. TypeOK'
    BY <1>2, <2>1 DEF TypeOK, Points, Hangup
  <2>4. Attempt'
    BY <1>2, <2>1 DEF Attempt, Open, Asking, Reading, Sending, Hangup
  <2>5. CompleteMeansFinished'
    BY <1>2, <2>1, <2>2 DEF CompleteMeansFinished, Hangup
  <2>6. FinishIsEarned'
    BY <1>2, <2>1, <2>2 DEF FinishIsEarned, EofError, Unfinished, Opened, Hangup
  <2> QED BY <1>2, <2>1, <2>3, <2>4, <2>5, <2>6
          DEF IInv, Passed, Observes, FinishHeld, RowsWait, RowsDone, Asking, Reading, Sending,
              ToldWhatIsLogged, Over, Open, Hangup
<1> QED BY <1>1, <1>2

\* Every step.
LEMMA NextInv == IInv /\ [Next]_vars => IInv'
<1> SUFFICES ASSUME IInv, [Next]_vars PROVE IInv'
  OBVIOUS
<1>1. ASSUME NEW a \in Accounts, Pick(a) PROVE IInv'
  BY <1>1, PickInv
<1> QED BY <1>1, GiveUpInv, NoHeadersInv, SlotRefusedInv, PostInv, FailureInv, ReadingInv, WholeInv,
           ReleaseInv, TerminalInv, ClosingInv, TellLimitInv, HangupInv DEF Next

----------------------------------------------------------------------------
(* What is proved                                                          *)

\* The invariant holds in every reachable state.
THEOREM Invariant == Spec => []IInv
BY InitInv, NextInv, PTL DEF Spec

\* _stream_upstream: whatever accounts are tried and however their streams break,
\* the client has one answer of one account, in order, nothing lost or repeated,
\* with one finish for each choice exactly when the answer is complete, and none
\* before the account has been credited and its row written.
THEOREM OneWholeAnswer == Spec => []AnswerIsWhole
<1>1. IInv => AnswerIsWhole
  <2>1. SUFFICES ASSUME IInv PROVE AnswerIsWhole
    OBVIOUS
  <2>2. CompleteMeansFinished /\ FinishIsEarned
    BY <2>1, OpenFinishes DEF IInv, Over
  <2>3. TypeOK
    BY <2>1 DEF IInv
  <2> QED BY <2>1, <2>2, <2>3, InOrderHolds DEF AnswerIsWhole
<1> QED BY <1>1, Invariant, PTL

\* _log_request in _stream_upstream: every account that was sent the request has
\* one row by the time the client is told the outcome; one row counts and shows
\* what was told, unless a local queue refused the request (account_slot raises,
\* guard_stream tells the client), when none counts.
THEOREM LogShowsEveryAttempt == Spec => []LogIsTrue
<1>1. IInv => LogIsTrue
  BY LogHolds
<1> QED BY <1>1, Invariant, PTL

----------------------------------------------------------------------------
(* The refinement of ChatAnswer                                            *)

\* What the client sees of a stream that goes on.
LEMMA OpenView ==
    ASSUME IInv, Open
    PROVE  /\ AnswerPhase = IF Credited THEN "settled" ELSE IF Started THEN "speaking" ELSE "silent"
           /\ AnswerWho = IF Credited \/ Started THEN account ELSE None
           /\ Started => account \in Accounts
           /\ Asking \/ Reading => \A a \in Accounts : health[a] # "ok"
<1>1. TypeOK /\ Attempt
  BY DEF IInv
<1>2. Started <=> \E i \in DOMAIN out : IsChunk(i)
  <2>1. out # <<>> => Len(out) # 0 /\ 1 \in 1..Len(out)
    BY <1>1, EmptySeq, Sequences DEF TypeOK
  <2>2. out = <<>> => DOMAIN out = {}
    OBVIOUS
  <2> QED BY <1>1, <2>1, <2>2, Sequences DEF Attempt, Started
<1>3. AnswerWho = IF Credited \/ Started THEN account ELSE None
  BY <1>2 DEF AnswerWho
<1>4. AnswerPhase = IF Credited THEN "settled" ELSE IF Started THEN "speaking" ELSE "silent"
  BY DEF AnswerPhase, Open
<1> QED BY <1>1, <1>3, <1>4 DEF Attempt, Started

\* An ended stream shows how it ended.
LEMMA EndedView ==
    ASSUME outcome # "none"
    PROVE  AnswerPhase = IF outcome = "limited" THEN "failed" ELSE outcome
BY DEF AnswerPhase

LEMMA AnswerInit == Init => Answer!Init
<1> SUFFICES ASSUME Init PROVE Answer!Init
  OBVIOUS
<1>1. ~Credited /\ ~Started /\ outcome = "none" /\ DOMAIN out = {}
  BY DEF Init, Credited, Started
<1>2. AnswerPhase = "silent" /\ AnswerWho = None
  BY <1>1 DEF AnswerPhase, AnswerWho
<1> QED BY <1>2 DEF Answer!Init

\* What happens before the verdict, other than sending, is not seen.
LEMMA Unseen ==
    ASSUME IInv, IInv', Open, Open', Asking \/ Reading, out' = out,
           \A a \in Accounts : health'[a] = "ok" => health[a] = "ok",
           account' = account \/ out = <<>>
    PROVE  UNCHANGED Answer!vars
<1>1. ~Credited /\ ~Credited'
  <2>1. account \in Accounts \cup {None} /\ account' \in Accounts \cup {None}
    BY DEF IInv, TypeOK
  <2> QED BY <2>1, OpenView DEF Credited
<1>2. AnswerPhase' = AnswerPhase
  <2>1. AnswerPhase = IF Started THEN "speaking" ELSE "silent"
    BY <1>1, OpenView
  <2>2. AnswerPhase' = IF Started THEN "speaking" ELSE "silent"
    BY <1>1 DEF AnswerPhase, Open, Started
  <2> QED BY <2>1, <2>2
<1>3. AnswerWho' = AnswerWho
  <2>1. \A i : IsChunk(i)' = IsChunk(i)
    BY SameOut
  <2>2. out = <<>> => DOMAIN out = {}
    OBVIOUS
  <2> QED BY <1>1, <2>1, <2>2 DEF AnswerWho
<1> QED BY <1>2, <1>3 DEF Answer!vars

\* The first chunk speaks for its account; the next ones say no more of it.
LEMMA SpeakStep ==
    ASSUME IInv, IInv', Open, Open', Reading, account' = account, health' = health,
           out' # <<>>
    PROVE  Answer!Next \/ UNCHANGED Answer!vars
<1>1. /\ ~Credited /\ ~Credited' /\ Started' /\ account \in Accounts
  <2>1. account \in Accounts
    BY DEF IInv, Attempt, Reading, TypeOK
  <2> QED BY <2>1, OpenView DEF Credited, Started
<1>2. AnswerPhase' = "speaking" /\ AnswerWho' = account
  <2>1. AnswerPhase' = "speaking"
    BY <1>1 DEF AnswerPhase, Open
  <2>2. \E i \in DOMAIN out' : IsChunk(i)'
    <3>1. out' \in Seq(Items) /\ Attempt'
      BY DEF IInv, TypeOK
    <3>2. 1 \in DOMAIN out'
      BY <3>1, EmptySeq, LenProperties
    <3> QED BY <3>1, <3>2 DEF Attempt
  <2> QED BY <1>1, <2>1, <2>2 DEF AnswerWho
<1>3. CASE Started
  BY <1>1, <1>2, <1>3, OpenView DEF Answer!vars
<1>4. CASE ~Started
  <2>1. AnswerPhase = "silent"
    BY <1>1, <1>4, OpenView
  <2> QED BY <1>1, <1>2, <2>1 DEF Answer!Next, Answer!Speak
<1> QED BY <1>3, <1>4

\* Every step of the loop is one of the promise, or is not seen.
LEMMA AnswerStep == IInv /\ IInv' /\ [Next]_vars => [Answer!Next]_(Answer!vars)
<1> SUFFICES ASSUME IInv, IInv', [Next]_vars PROVE Answer!Next \/ UNCHANGED Answer!vars
  OBVIOUS
<1>1. TypeOK /\ Attempt /\ TypeOK' /\ Attempt'
  BY DEF IInv
<1>2. CASE UNCHANGED vars
  <2>1. /\ out' = out /\ account' = account /\ health' = health /\ outcome' = outcome
    BY <1>2 DEF vars, loop
  <2>2. (\A i : IsChunk(i)' = IsChunk(i)) /\ Credited' = Credited /\ Started' = Started
    BY <2>1, SameOut DEF Credited, Started
  <2> QED BY <2>1, <2>2 DEF Answer!vars, AnswerPhase, AnswerWho
<1>3. CASE (\E a \in Accounts : Pick(a)) \/ GiveUp \/ NoHeaders \/ SlotRefused \/ Post
  <2>1. /\ Asking /\ Open /\ Open' /\ out = <<>> /\ out' = out
    BY <1>1, <1>3 DEF Pick, GiveUp, NoHeaders, SlotRefused, Post, Attempt, Asking, Open, loop
  <2>2. \A a \in Accounts : health'[a] = "ok" => health[a] = "ok"
    BY <1>1, <1>3 DEF Pick, GiveUp, NoHeaders, SlotRefused, Post, TypeOK
  <2> QED BY <2>1, <2>2, Unseen
<1>4. ASSUME NEW status, NEW again, FailWith(status, again), at = "posting" \/ Reading,
             Blame \/ UNCHANGED health
      PROVE  UNCHANGED Answer!vars
  <2>1. /\ Asking \/ Reading
        /\ Open /\ Open' /\ out' = out /\ account' = account
    BY <1>1, <1>4 DEF FailWith, Attempt, Asking, Reading, Open
  <2>2. \A a \in Accounts : health'[a] = "ok" => health[a] = "ok"
    BY <1>1, <1>4 DEF Blame, TypeOK
  <2> QED BY <2>1, <2>2, Unseen
<1>5. CASE Refused \/ Disconnect \/ Incomplete
  <2>1. at = "posting" \/ Reading
    <3>1. Refused => at = "posting"
      BY Zenon DEF Refused
    <3>2. Disconnect \/ Incomplete => Reading \/ at = "posting"
      BY DEF Disconnect, Incomplete, Reading
    <3> QED BY ONLY <1>5, <3>1, <3>2
  <2>2. CASE FailWith("400", FALSE) /\ UNCHANGED health
    BY <1>4, <2>1, <2>2
  <2>3. CASE FailWith("http", MoreAttempts) /\ Blame
    BY <1>4, <2>1, <2>3
  <2>4. CASE FailWith("http", FALSE) /\ Blame
    BY <1>4, <2>1, <2>4
  <2>5. CASE FailWith("502", MayRetry) /\ Blame
    BY <1>4, <2>1, <2>5
  <2> QED BY ONLY <1>5, <2>2, <2>3, <2>4, <2>5, Zenon DEF Refused, Disconnect, Incomplete
<1>6. CASE Accept \/ Eof \/ Read \/ Flush
  <2>1. /\ account' = account /\ health' = health /\ outcome' = outcome
        /\ Open /\ Open'
        /\ Asking \/ Reading
    BY <1>1, <1>6 DEF Accept, Eof, Read, Flush, Attempt, Asking, Reading, Open, loop
  <2>2. CASE out' = out
    <3>1. \A a \in Accounts : health'[a] = "ok" => health[a] = "ok"
      BY <2>1
    <3> QED BY <2>1, <2>2, <3>1, Unseen
  <2>3. CASE out' # out
    <3>1. Event /\ Reading
      BY <1>6, <2>3 DEF Accept, Eof, Read, Flush, Reading, loop
    <3>2. PICK x \in Items : out' = Append(out, x)
      BY <1>1, <2>3, <3>1 DEF Event, Reject, Forward, Chunk, Items, TypeOK, Attempt, Reading
    <3>3. out' # <<>>
      BY <1>1, <3>2, ItemAppended
    <3> QED BY <2>1, <3>1, <3>3, SpeakStep
  <2> QED BY <2>2, <2>3
<1>7. CASE Whole
  <2>1. /\ Open /\ Reading /\ account \in Accounts
        /\ out' = out /\ account' = account /\ outcome' = "none"
    BY <1>1, <1>7 DEF Whole, Attempt, Reading, Open, TypeOK, loop
  <2>2. health'[account] = "ok" /\ account # None
    BY <1>1, <1>7, <2>1, StreamAssumption DEF Whole, TypeOK
  <2>3. ~Credited /\ Credited'
    BY <2>1, <2>2, OpenView DEF Credited
  <2>4. AnswerPhase \in {"silent", "speaking"} /\ AnswerWho \in {None, account}
    BY <2>1, <2>3, OpenView
  <2>5. AnswerPhase' = "settled" /\ AnswerWho' = account
    BY <2>1, <2>3 DEF AnswerPhase, AnswerWho
  <2> QED BY <2>1, <2>4, <2>5 DEF Answer!Next, Answer!Settle
<1>8. ASSUME Sending PROVE Credited /\ Open /\ AnswerPhase = "settled" /\ AnswerWho = account
  <2>1. Credited /\ Open
    BY <1>1, <1>8, StreamAssumption DEF Attempt, Sending, Credited, TypeOK
  <2> QED BY <2>1, OpenView
<1>9. CASE Release
  <2>1. /\ Sending /\ account' = account /\ health' = health /\ outcome' = outcome
    BY <1>9 DEF Release, Sending, loop
  <2>2. AnswerPhase' = "settled" /\ AnswerWho' = account
    BY <1>8, <2>1 DEF AnswerPhase, AnswerWho, Credited, Open
  <2> QED BY <1>8, <2>1, <2>2 DEF Answer!vars
<1>10. CASE Terminal
  <2>1. /\ Sending /\ account' = account /\ health' = health /\ outcome' = "complete"
    BY <1>10 DEF Terminal, Sending, loop
  <2>2. AnswerPhase' = "complete" /\ AnswerWho' = account
    BY <1>8, <2>1 DEF AnswerPhase, AnswerWho, Credited
  <2> QED BY <1>8, <2>1, <2>2 DEF Answer!Next, Answer!Complete
<1>11. ASSUME TellError \/ TellLimit \/ SendDone PROVE AnswerWho' = AnswerWho
  <2>1. PICK x \in [kind : {"error", "done"}] : out' = Append(out, x) /\ x \in Items
    BY <1>11 DEF TellError, TellLimit, SendDone, Items
  <2>2. PICK m : m = Len(out) /\ m \in Nat /\ DOMAIN out = 1..m
    <3>1. PICK m : m = Len(out)
      OBVIOUS
    <3> QED BY <1>1, <3>1, Sequences
  <2>3. /\ DOMAIN out' = 1..(m + 1) /\ out'[m + 1] = x
        /\ \A i \in 1..m : out'[i] = out[i]
        /\ \A i \in 1..(m + 1) : i \in 1..m \/ i = m + 1
        /\ 1..m \subseteq 1..(m + 1)
    BY <1>1, <2>1, <2>2, ItemAppended
  <2>4. ~IsChunk(m + 1)' /\ \A i \in 1..m : IsChunk(i)' = IsChunk(i)
    BY <2>1, <2>2, <2>3 DEF IsChunk
  <2>5. (\E i \in DOMAIN out' : IsChunk(i)') <=> \E i \in DOMAIN out : IsChunk(i)
    BY <2>2, <2>3, <2>4
  <2>6. account' = account /\ Credited' = Credited
    BY <1>11 DEF TellError, TellLimit, SendDone, Credited, loop
  <2> QED BY <2>5, <2>6 DEF AnswerWho
<1>12. CASE TellError \/ TellLimit
  <2>1. Open /\ outcome' \in {"failed", "limited"}
    BY <1>1, <1>12 DEF TellError, TellLimit, Attempt
  <2>2. AnswerPhase \in {"silent", "speaking", "settled"} /\ AnswerPhase' = "failed"
    BY <2>1, OpenView, EndedView DEF AnswerPhase
  <2> QED BY <1>11, <1>12, <2>2 DEF Answer!Next, Answer!Fail
<1>13. CASE SendDone
  <2>1. outcome # "none" /\ outcome' = outcome
    BY <1>1, <1>13 DEF SendDone, Attempt, Open
  <2>2. AnswerPhase' = AnswerPhase
    BY <2>1 DEF AnswerPhase
  <2> QED BY <1>11, <1>13, <2>2 DEF Answer!vars
<1>14. CASE Hangup
  <2>1. /\ Open /\ outcome' = "gone" /\ out' = out /\ account' = account /\ health' = health
    BY <1>1, <1>14 DEF Hangup, Attempt, loop
  <2>2. AnswerPhase \in {"silent", "speaking", "settled"} /\ AnswerPhase' = "gone"
    BY <2>1, OpenView DEF AnswerPhase
  <2>3. AnswerWho' = AnswerWho
    BY <2>1, SameOut DEF AnswerWho, Credited
  <2> QED BY <2>2, <2>3 DEF Answer!Next, Answer!Leave
<1> QED BY <1>2, <1>3, <1>5, <1>6, <1>7, <1>9, <1>10, <1>12, <1>13, <1>14 DEF Next

\* The loop over accounts keeps the promise a single answer makes: the client
\* hears one account, then that account is credited and the answer completes, or
\* it is told of a failure, and nothing follows.
THEOREM KeepsThePromise == Spec => AnswerSpec
BY Invariant, AnswerInit, AnswerStep, PTL DEF Spec, AnswerSpec, Answer!Spec
=============================================================================
